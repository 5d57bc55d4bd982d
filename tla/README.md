# The Kairos fleet provider in TLA+

This directory specifies the Cluster API infrastructure provider for AuroraBoot
fleets: the controller that claims an AuroraBoot node for each
`KairosFleetMachine`, hands it its bootstrap cloud-config, reboots it, waits for
it to come back, and returns it to its group on delete. TLC checks the
specification on small instances; TLAPS proves every safety property the runs check,
and that the reconciler implements the abstract node pool, for every number of machines
and nodes. What is proved of each machine carries over to the manager in which both
reconcilers run.

## The system

| Part | Keeps | Does | Hard because |
| --- | --- | --- | --- |
| `KairosFleetMachine` reconciler (`internal/controller/kairosfleetmachine_controller.go`) | finalizer, seven annotations, `spec.providerID` and `status` on the object; nothing in memory between passes | one pass = one step of claim, apply, reboot, wait for rejoin, provision; or release and drop the finalizer | every fact it acts on is a cached copy; each pass changes AuroraBoot first and records that afterwards, in two writes; events, timers and users interleave with both |
| AuroraBoot client (`internal/fleet/http.go`, `client.go`) | base URL and token | one HTTP request per call, errors by code or by status; searches the lists of groups and commands | requests fail before or after they take effect, or take effect after the client gave up; not every answer is AuroraBoot's |
| AuroraBoot and the node agents (not in this repository) | claims, node phases and heartbeats, the command history of every node | idempotent claim and release, queues commands; agents run them in order, reboot, report | a node goes down mid-command; policies refuse commands; nodes vanish; operators interfere |
| Connection resolution (`internal/controller/fleet.go`) | nothing | reads the admin token Secret, tells permanent from transient errors | the cluster and its Secret may go first on delete |
| `KairosFleetCluster` reconciler (`kairosfleetcluster_controller.go`) | finalizer, `status` | validates the connection, reports provisioned, drops its finalizer at once on delete | it does not wait for its machines |
| API types, templates, generated code, `cmd/main.go`, fakes, manifests | | declarations and wiring | |

The reconcilers never call each other. They meet in the API server (objects,
Secrets, watch events) and in AuroraBoot (claims and commands), so the properties
that make the system correct relate those two:

* a node serves one machine at a time, and commands only go to the machine's own node;
* a node is rebooted only after it has carried out its machine's cloud-config, and
  a machine that has its providerID is left alone;
* a removed machine gives its node back; a deletion always finishes;
* a machine gets provisioned whatever finitely many failures occur;
* a refused command is retried, at the pace the retry window sets;
* a Cluster that is deleted goes away, and gives every node back as long as its parts
  are deleted in order;
* what a call hands back is what AuroraBoot answered.

`PROJECT.json` lists the hazards behind these, each at its source line.

## Modules

| Module | Content |
| --- | --- |
| `AuroraBoot` | the fleet server and the nodes: claims, command histories, phases, heartbeats, staged and running config, the clock, and the budget of mishaps |
| `KairosFleetMachine` (extends `AuroraBoot`) | the reconciler, API server, informer cache, work queue, and the rest of the management cluster |
| `FleetMachineProperties` | every invariant, action property and liveness property |
| `MCKairosFleetMachine` | the instance for TLC, with the symmetry set |
| `KairosFleetMachineProofs` | types, and who owns a node |
| `FleetHistoryProofs` (extends it) | command histories and annotations: what a machine records has happened |
| `FleetPoolProofs` (extends `FleetPool`, `FleetHistoryProofs`) | the refinement of `NodePool` |
| `FleetFreshProofs` (extends `FleetHistoryProofs`) | what holds when a pass reads its own writes: failures, releases, settled machines |
| `FleetPacingProofs` (extends `FleetFreshProofs`) | the retry window |
| `KairosFleetCluster` | the cluster reconciler, its object, cache and Secret, and its properties |
| `MCKairosFleetCluster` | its instance for TLC |
| `KairosFleetClusterProofs` | the theorems about it |
| `NodePool` | the abstract promise: who holds, configures, reboots and serves with a node |
| `FleetPool` (extends `FleetMachineProperties`) | the refinement mapping from `KairosFleetMachine` to `NodePool` |
| `FleetProvider` (extends `FleetMachineProperties`, instantiates `KairosFleetCluster`) | both reconcilers in one manager, with Cluster API above them |
| `MCFleetProvider` | its instance for TLC |
| `FleetProviderProofs` (extends `FleetProvider`, `FleetPacingProofs`, `FleetPoolProofs`) | the order of a teardown, and the machines' theorems carried over to the manager |
| `FleetClient` | the HTTP client at the level of requests and replies, and its list searches |
| `MCFleetClient` | its instance for TLC |
| `FleetClientProofs` | the theorems about it |

### State and code

`store[m]` is the object in the API server, `cache[m]` what `r.Get` returns, a
record with the annotations of `fleet.go` (node-id, claim-key,
cloud-config-applied and its command ID, reboot-requested-at and its command ID,
retry-not-before), the finalizer, deletion timestamp, UID, providerID,
`provisioned` and `failureReason`. `pc`, `who`, `base` and `obj` are the pass in
progress: `base` is the patch helper's copy, `obj` the object as the pass edits
it. `queue` is the work queue; `again` is a `RequeueAfter` or a returned error.
`bootstrap`, `admitted` and `connected` are what the pass finds in the owner
Machine, the Cluster and the KairosFleetCluster with its Secret.

A pass is a chain of steps with everything else interleaving between them:

1. `Reconcile(m)` or `Ignore(m)`: read the cached object, the gates (owner,
   cluster, pause), add the finalizer in memory.
2. One action of `reconcileNormal` or `reconcileDelete`, each a branch of the code
   with its early return: `WaitForBootstrap`, `WaitForConnection`, `ClaimNode`,
   `WaitForCapacity`, `ClaimError`, `HoldApply`, `ApplyCloudConfig`, `ApplyError`,
   `ApplyFailed`, `AwaitApply`, `HoldReboot`, `RequestReboot`, `RebootError`,
   `NodeMissing`, `GetNodeError`, `AwaitRejoin`, `AskReboot` followed by
   `RebootFailed` or `RebootPending` (two requests, two steps), `Provision`;
   `DeleteUnclaimed`, `DeleteUnreachable`, `ReleaseNode`, `ReleaseMismatch`,
   `ReleaseMissing`, `DeleteError`. A branch that makes several requests of which
   at most one changes AuroraBoot is one step when nothing that can happen between
   them changes its decision; the reboot read-back is the case where something can.
3. `PatchObject`, then `PatchStatus`: the deferred `patchHelper.Patch`. Each write
   carries only the fields that differ from `base`, so fields written by others
   stay; it fails on an object that is gone, and either write may fail.

`Crash` drops the pass anywhere, re-reads the cache and queues every object.
`UserDelete`, `Move` (a new UID, status dropped), `Pause`, `Unpause`,
`PublishBootstrap`, `MachineEvent`, `Sync`, `Disconnect`, `Reconnect` and `Tick`
are the surroundings; the node actions are in `AuroraBoot`. Nothing watches Clusters, so
the end of a Cluster's pause queues a machine only through an event of the machine or its
owner; `Unpause` has both outcomes, the one without an event being the mishap `unwatched`.

The machines in `Legacy` were left by an earlier build of the controller, which recorded
neither claim keys nor command IDs, and marked a machine failed when its apply was
refused. `Left` says how far it may have got with them (`Stages`): the config is handed
over (`handed`), was refused, with the `failureReason` it recorded still set (`refused`),
or was carried out and the reboot requested (`rebooting`). They go through the code's
fallbacks: the key from the present UID, the newest command of its kind in place of the
recorded one, for the apply and for the reboot, and the clearing of the old failure in
`ApplyFailed`.

A claim key is the pair of machine and UID, `Stamp` is the truncation of
`time.RFC3339`, and `selected` is the choice of `commandState`. `Failed` stands
for `Failed` and `Expired`. `Away` is a node that is down and still reported
Online, the time before AuroraBoot notices.

`KairosFleetCluster` has the same shape for one object: `Reconcile` or `Ignore`,
one of `ReconcileDelete`, `ConnectionNotReady`, `WaitForEndpoint`, `Provision`, then
the two writes. Here the Ready condition is modelled, as the pair of its reason and
its `observedGeneration`, because the condition and `provisioned` are what others
read. The operator edits the endpoint (which bumps the generation) and the Secret
(which nothing watches).

### The abstract pool

`NodePool` has no API server, cache, queue, history or clock. A node is free or held
by one machine; `Take`, `Record`, `HandConfig`, `CarryOut`, `Reboot`, `MarkReady`,
`Retire` and `Return` are the main things that happen to it, and each has the guard
the provider owes its users: only the holder works on a node, a node is rebooted for a
config it has carried out, only a machine whose node was rebooted for it is ready, and
a node is returned only when its machine has retired. A node that an operator released
behind the provider's back is `loose`: its former holder may go on using it, and these
guards do not bind it. Nodes taken over from an earlier build start at the stage it left
them in. Under `FleetPool`'s mapping the
holders are the machines of AuroraBoot's claims, `handed`, `configured` and `rebooted`
are read off the command histories, `serving` and `ready` off the stored objects, and
every step of the detailed specification is one of these or a stutter
(`ImplementsPool`). This is where two views that the code keeps apart, AuroraBoot's and
the API server's, have to agree at every step. `MarkReady` asks for the reboot to have
been requested, not carried out: more the code does not keep (run `booted`).

### Both reconcilers together

`FleetProvider` runs `KairosFleetMachine`'s `Core` beside an instance of
`KairosFleetCluster`. `connected`, free in the machine's own module, is here
`Connected`: the *cached* KairosFleetCluster exists and its Secret has a token. A crash
takes both controllers down. Cluster API publishes bootstrap data once the cluster
reports provisioned, and deletes a Cluster's machines before its infrastructure object;
`OutOfOrder` is somebody who deletes the KairosFleetCluster or the Secret first. Machines
of an earlier build start with a node they have claimed, hence with a token in the Secret.
Pauses, moves, single deletions and endpoint edits stay with the parts' own modules.

### The client

`KairosFleetMachine` takes a call for one step that has its effect or not. `FleetClient`
takes it apart: `Send` puts a request on the wire, AuroraBoot serves it (`ServeClaim`,
`ServeRelease`, `ServeOther`) now, later or never, `Interfere` puts a proxy's page, JSON
of another service's (`{}` or `[]`, and whatever fields the client does not read), a
gateway error or a cut body in place of the answer, `GiveUp` is the 30-second timeout or
a restart, after which the request stays on the wire, and `Returned` is `do` with
`decodeError` and the error classes, followed by what `reconcileNormal` and
`reconcileDelete` make of the result. `commandState` with `newerCommand` and
`ResolveGroupID` are the loop and the searches over the lists as the code runs through
them (`latestAfter` is one turn of the loop); their properties compare them with a
definition by sets. `Request` and `Reply` are what may be on the wire and what may come
back. `do` asks no more of a 2xx than that its body decodes into what the call expects:
any JSON object passes for a node or a command, with its fields empty. Hence
`TruthfulVerdict` does not say that a success is always AuroraBoot's. It says that what
a success hands back (a node, a command, a group) is AuroraBoot's, that `NoCapacity` and
`ClaimMismatch` are, and that a success which is not AuroraBoot's is decodable JSON with
nothing in it: a claim that returns no node, a command without an ID, a release that did
not happen. JSON of others is taken to have none of the fields the client reads: the
client could not tell an `id` or a `code` that is not AuroraBoot's from one that is. The
machine module has no such reply (every one there is AuroraBoot's own, or an error, or a
stray 404); a reply without a command ID can only be one of these, and what the code
does with a command whose ID it lacks is what the machines in `Legacy` exercise.

### What is assumed of code outside the repository

* `patch.Helper` of Cluster API sends merge patches without a resourceVersion, the
  metadata and spec first, then status, conditions included (the API types do not
  implement the condition setters, so the helper treats them as plain status).
* controller-runtime runs one pass at a time (`MaxConcurrentReconciles` is not set)
  and never drops a queued machine. A leader that loses its lease ends its passes
  before the next one starts.
* The cache may lag; a pass on a lagging object is the mishap `stale`.
* AuroraBoot behaves as the doc comments of `fleet.Client` and the test server
  `fakeauroraboot_test.go` say: claim is idempotent on the key, a release by
  another key is refused, of an unclaimed node it succeeds, history is never
  pruned. An agent takes its commands in order.
* Every machine draws from one group.
* The informers resync every ten hours (`cmd/main.go` leaves `SyncPeriod` at
  controller-runtime's default).
* `clusterctl move` happens between passes (it pauses the Cluster first).

### Mishaps

Everything that goes wrong is an action or disjunct guarded by `Mishap(kind)`; a run
names the kinds it admits (`Mishaps`) and how many of them together (`MaxMishaps`):
`error` (a request or read fails), `lost` (its effect stands, the reply is lost),
`patch` (a write fails), `stale`, `crash`, `lookup` (the swallowed cluster lookup
error), `refuse` (a command fails or expires), `outage`, `vanish` (the node is deleted),
`tamper` (an operator releases a node), `disconnect`, `pause`, `unwatched` (a Cluster's
pause ends and no event says so), `move`, `stray404` (a 404 that a proxy answered, not
AuroraBoot), `disorder` (the cluster or its Secret goes before the machines).
`FleetClient` has its own: `proxy`, `cut`, `timeout`, `vanish`. Deleting a machine is no
mishap: it may happen at any time.

## Runs

| Run | Instance | Checks | Shows |
| --- | --- | --- | --- |
| `faults` | 1 machine, 1 node, any 3 of 12 mishap kinds; 1.7 million states | `TypeOK`, `RebootFollowsApply`, `FailureMeansGone`, `FreshInv`, `ProviderIDImmutable`, `SettledIsLeftAlone`, `GoneMeansReleased` | the lifecycle of one machine survives any three failures |
| `contention` | 2 machines, 1 node, 1 of crash, lost, patch, stale; 725 thousand states | `ClaimInv`, `NodeExclusive`, `ProvisionedHasConfig`, `ConfigInv`, `CommandsToOwnNode`, `ImplementsPool` | ownership, config and commands do not cross between machines when a node changes hands, and every step is one of the abstract pool |
| `handover` | a legacy machine and a new one, 1 node, 2 of move, tamper; 3.1 million states | `MismatchExplained`, `GoneMeansReleased`, `ReleasesOwnNode` | recorded claim keys survive moves; as long as no release is repeated, `ClaimMismatch` has one of the two causes the code names; a node given away is not taken from its new owner |
| `pacing` | 1 machine, 1 node, 2 ticks a second, a window of 4, 3 of error, pause, refuse; 717 thousand states | `PacedRetries`, `PaceInv` | no command is repeated within the retry window, short of the second the stamp loses |
| `progress` | 1 machine, 1 node, 2 of 11 kinds, fair; 331 thousand states | `DeletionCompletes`, `EventuallyProvisioned` | two mishaps neither block a deletion nor keep a machine from being provisioned |
| `capacity` | a legacy machine at any of the three stages and a new one, 1 node, no mishaps, fair; 215 thousand states | `EventuallyProvisioned` | the machine taken over recovers and loses an old `failureReason`, and the one waiting for capacity is served when the node is returned |
| `clusterstatus` | 1 cluster, 3 generations, any 2 of crash, error, patch, pause, stale, fair; 176 thousand states | `TypeOK`, `VerdictInv`, `CurrentVerdict`, `EventuallyReady`, `GatedOnEndpoint`, `GatedOnConnection`, `ClusterDeletionCompletes` | the cluster's status is about the spec it claims, and catches up with it |
| `teardown` | both reconcilers, 1 machine, 1 node, 1 of crash, error, lookup, stray404, disorder, fair; 216 thousand states | `OrderInv`, `ReachableInOrder`, `ReleasedInOrder`, `TeardownCompletes`, `FleetComesUp` | the fleet comes up whichever side starts first, and a deleted Cluster goes away and gives its nodes back; only a deletion out of order finds AuroraBoot unreachable |
| `client` | 2 machines, 2 nodes, 5 calls, lists of up to 3 entries, 2 of proxy, cut, timeout, vanish; 986 thousand states | `TypeOK`, `TruthfulVerdict`, `OneNodePerMachine`, `RecordedIsHeld`, `WireInv`, `ReadsLatestCommand`, `ResolvesGroup` | late and repeated requests keep claims apart, and behind a proxy that answers with pages, errors or JSON of another's, what a call hands back is AuroraBoot's |
| `booted` | 1 machine, 1 node, no mishaps | `ProvisionedMeansBooted` is violated | see below |
| `leak` | 1 machine, 1 node, no mishaps | `NoLeakedClaim` is violated | see below |
| `vanished` | 1 machine, 1 node, 1 vanish, fair | `MissingNodeFails` is violated | see below |

Deadlock is not checked: a system whose machines are all deleted, or all
provisioned, has nothing left to do.

**Bounds.** One node for two machines is the smallest instance in which a node changes
hands, the only way machines meet; one machine suffices where a property is about a
single lifecycle. The clock advances to `FreeTime` and beyond that only while a recorded
reboot time or retry window lies ahead, so the state space is finite without cutting a
wait short. Command histories are bounded by the mishaps, since a command is repeated
only after one. Three generations of the cluster (`MaxEdits`) let the endpoint go and
come back around a pass. The retry windows stand for 60 seconds. In `pacing` the window
is two of the clock's seconds, so that the stamp, which loses up to one, still leaves a
second to keep; elsewhere, where only the order of due times matters, it is one tick.
`RetriesPaced` holds for every window and resolution. `handover` takes one stage of a
legacy machine and `capacity` all three: with two machines, moves and an operator, the
stage adds states and no new way for a node to change hands. In `contention` an
operator's release is left out: it would exempt the only node from every property of the
run (`handover` has it). Five calls let a machine claim, give up, claim again and
release while the other claims the same node; lists of three entries hold every way in
which an entry can come before, between and after two others.

**Fairness** (`Fairness`). The work queue is first-in first-out, so a queued
machine is not passed over for ever: `SF(Reconcile(m))`, strong because the worker
is busy with other machines in between. A pass runs to its end (`WF(Worker)`); its
delayed requeues fire, which the model takes as immediate. Watches deliver
(`Sync`); the bootstrap provider publishes, pauses end; time passes; nodes poll,
boot and send heartbeats. Nothing is assumed of users, of mishaps, of
`MachineEvent`, or of `Reconnect`: `EventuallyProvisioned` is conditional on a
connection that lasts, `DeletionCompletes` is not. Both need the end of a pause to come
with an event, and neither holds if `unwatched` is added to `progress`: a machine whose
Cluster is unpaused unnoticed stays where it is until an event or the resync.

`FleetProvider` assumes one thing more, `WF(MachineEvent(m))`: the informer's resync
reports every object again. It is needed because some passes end with neither a
requeue nor a write (a swallowed lookup error, a second 404 in a row). Cluster API is
taken to go on with a deletion it has begun. `GatedOnConnection` states the same
assumption for the cluster as part of the property.

### Where the code departs from what is written about it

* `booted`: the first heartbeat after the reboot *request* counts as the rejoin, so
  a machine may be provisioned before its node has rebooted, or although the node is
  about to refuse. The API type says the node "has booted its active image and
  reported ready".
* `leak`: the finalizer is persisted by the same patch as the claim. A delete in
  the course of the first pass removes the object and leaves the node claimed.
* `vanished`: a node that disappears before its reboot was requested is not
  recognised; `docs/ARCHITECTURE.md` promises a terminal failure.

Two observations on 404s, which `IsNotFound` recognises by the status alone. A 404 that
is not AuroraBoot's marks a healthy machine failed in step 5; the patch of that status
brings the machine back and it is provisioned (`FleetComesUp`), but nothing on the way
clears `failureReason`, which `docs/API.md` reserves for "a terminal, unrecoverable
failure". Two such answers in a row leave a pass that changes nothing and asks for no
requeue, so the machine waits for the next event or resync. And on delete such an answer
drops the finalizer while the node stays claimed. Only a refused apply clears
`failureReason`, which is how the one that an earlier build set is lost. The runs of the
machine module therefore take every 404 to be AuroraBoot's own; `teardown` does not.

A request that the client gave up on may still be served. A late command carries no
claim key, so it is not refused even after its node has changed hands, and a claim
served after its machine has gone leaves the node claimed. What the keys do guarantee
then is `OneNodePerMachine` and `RecordedIsHeld`.

`do` takes any 2xx whose body decodes for a success. If something else answers in
AuroraBoot's place with JSON, a release counts as made and the finalizer goes, and
an apply or a reboot counts as sent; a claim comes back without a node.

`SettledIsLeftAlone` is checked without stale reads. With one, and a refused
reboot, it fails as a consequence of the premature rejoin: the refusal has already
been recorded (markers cleared, window open) while a pass on the older object
provisions the machine on a heartbeat, and the next pass reboots it. The code does not
exclude this, and no property here claims it.

## Proofs

Eight modules hold theorems. They are about arbitrary sets of machines and nodes,
finite or not, any clock resolution, retry window, budget of mishaps and number of
calls. Between them they state every invariant and every action property of the passing
runs; what is left to TLC is liveness. `FailedNodesAreGone`, `HandsKept` and the four
`Manager...` theorems say more than a run does.

| Module | Theorem | States | Provided that |
| --- | --- | --- | --- |
| `KairosFleetMachineProofs` | `TypeCorrect` | `Spec => []TypeOK` | |
| | `ClaimsHeld` | `Spec => []ClaimInv` | |
| | `Exclusive` | `Spec => []NodeExclusive` | |
| | `CommandsOwned` | `Spec => CommandsToOwnNode` | |
| `FleetHistoryProofs` | `RecordsWitnessed` | `Spec => []ConfigInv` | |
| | `RebootsFollowApplies` | `Spec => []RebootFollowsApply` | |
| | `ConfigInPlace` | `Spec => []ProvisionedHasConfig` | |
| | `ProviderIDKept` | `Spec => ProviderIDImmutable` | |
| `FleetPoolProofs` | `PoolImplemented` | `Spec => ImplementsPool` | |
| `FleetFreshProofs` | `FreshReads` | `Spec => []FreshInv` | no `stale` |
| | `FailedNodesAreGone` | a live machine with a failureReason has lost its node, or an earlier build set it | no `stray404` |
| | `FailuresAreReal` | `Spec => []FailureMeansGone` | no `stale`, `stray404` |
| | `SettledStaysAlone` | `Spec => SettledIsLeftAlone` | no `stale` |
| | `GoneIsReleased` | `Spec => GoneMeansReleased` | no `stale`, `stray404` |
| | `OnlyOwnNodes` | `Spec => ReleasesOwnNode` | |
| | `HandsKept` | `Spec => []HandInv` | no `stale`, `lost`, `patch`, `crash` |
| | `MismatchesExplained` | `Spec => []MismatchExplained` | no `stale`, `lost`, `patch`, `crash` |
| `FleetPacingProofs` | `PaceKept` | `Spec => []PaceInv` | no `stale`, `lost`, `patch`, `crash`; `Legacy = {}` |
| | `RetriesPaced` | `Spec => []PacedRetries` | no `stale`, `lost`, `patch`, `crash`; `Legacy = {}` |
| `FleetProviderProofs` | `OrderKept` | `ProviderSpec => []OrderInv` | |
| | `ReachableWhenFresh` | `ProviderSpec => []ReachableInOrder` | no `stale` |
| | `NodesReturned` | `ProviderSpec => ReleasedInOrder` | no `stale` |
| | `ManagerKeepsPromises` | `ProviderSpec` implies `NodeExclusive`, `RebootFollowsApply`, `ProvisionedHasConfig`, `CommandsToOwnNode`, `ProviderIDImmutable` and `ImplementsPool` | |
| | `ManagerLeavesAlone` | `ProviderSpec => SettledIsLeftAlone` | no `stale` |
| | `ManagerExplainsMismatches` | `ProviderSpec => []MismatchExplained` | no `stale`, `lost`, `patch`, `crash` |
| | `ManagerPacesRetries` | `ProviderSpec => []PacedRetries` | no `stale`, `lost`, `patch`, `crash`; `Legacy = {}` |
| `KairosFleetClusterProofs` | `ClusterTypeCorrect` | `Spec => []TypeOK` | |
| | `VerdictsWitnessed` | `Spec => []VerdictInv` | |
| | `VerdictCurrent` | `Spec => []CurrentVerdict` | |
| `FleetClientProofs` | `ClientTypes` | `Spec => []TypeOK` | |
| | `WireKept` | `Spec => []WireInv` | |
| | `VerdictsTruthful` | `Spec => []TruthfulVerdict` | JSON of others has none of AuroraBoot's fields (`ProxyReplies`) |
| | `MachineHoldsOneNode` | `Spec => []OneNodePerMachine` | |
| | `RecordedStaysHeld` | `Spec => []RecordedIsHeld` | |
| | `GroupsResolved` | `Spec => []ResolvesGroup` | |
| | `LatestCommandRead` | `Spec => []ReadsLatestCommand` | |

The assumptions on the constants are the ones named in the modules: `None` is none of
the values it stands apart from, `TicksPerSecond` is positive, `Legacy` is a set of
machines, `Left` is a set of its stages, bounds, times and the `createdAt` stamps are
natural numbers, `"retired"` is no node.

### Why the provisos

They are on the set `Mishaps`, and each excludes something that does break the
property in this code:

* `stale`. A pass on an object older than its own last patch writes only what it
  changes. It may set `failureReason` when another pass has just reported the machine
  provisioned; it may publish the providerID after another pass has recorded the reboot
  as refused, so that the next one reboots a settled machine; and a delete pass that
  reads a version without node-id drops the finalizer without a release. A delete pass
  on an object that has gone already may find the cluster gone too (`ReachableWhenFresh`):
  no node is lost then, but the pass does give up. The properties that survive stale
  reads are the ones in `FleetHistoryProofs`, `FleetPoolProofs` and the first module, and
  `OrderKept`.
* `stray404`. `IsNotFound` goes by the status, so a 404 that is not AuroraBoot's marks
  a healthy machine failed and lets a delete drop the finalizer.
* `lost`, `patch`, `crash` make a pass repeat what it did. A release repeated after the
  node has gone to another machine is refused with `ClaimMismatch`, a third cause
  beside the two the branch names (harmless: the finalizer goes either way, and the
  node stays with its new owner). A command that was sent and not recorded is sent
  again at once, with no window in between.
* `Legacy = {}` in `PaceKept` and the two theorems on retries: a machine of an earlier
  build has no recorded command ID and goes by the newest apply-cloud-config of its node.

### The inductive invariants

**Any manager.** The lemmas about the machines are not proved for `Spec` but for
`OpenSpec`, in which any other controller runs beside them: it may make and break the
connection, use up mishaps (`Elsewhere`) and go down together with the machines
(`Interrupted`). `Spec` is a case of it (`SpecIsOpen`), and so is `FleetProvider` with
`connected` read off the cached cluster and its Secret (`ProviderIsOpen`). Each invariant
below is therefore proved once and holds in both (`OpenClaims`, `OpenRecords`,
`OpenFresh`, `OpenPool` and so on); the `Manager...` theorems state what comes of it.

**`ClaimInv`.** `NodeExclusive` is not inductive: a pass in progress, or the cache, may
hold a node that the store does not show yet, and writes it later. `ClaimInv` therefore
speaks of every copy of the object. It rests on one observation about deletion: it is
seen in the store first, then in the cache, then by a pass, and only a pass that saw it
releases a node. So as long as no delete pass of `m` can have run (`Guarded(m)`),
whatever names a node for `m` names one that AuroraBoot holds under a key of `m`, and a
pass that sends a command is such a copy. Keys of different machines differ, a claim
takes only free nodes or the machine's own, and a recorded key is the machine's own
(`OwnKey`), hence no step of another machine disturbs this. An operator's release can;
such nodes are in `tampered` and exempt. The proof goes action by action
(`ClaimNodeInv`, `NormalInv`, `DeleteInv`, `PatchObjectInv`, `PatchStatusInv`,
`RestartInv`, `ClusterInv`, `NodeInv`); `ClaimNext` puts them together.

**`ConfigInv`** has three parts, proved together on top of `ClaimInv`.
`HistoryInv` is about the command history of a node: commands are carried out in order,
the staged config is that of the last apply carried out, and from the first command of
a machine to a delete pass of it nobody else sends the node any. `RecordInv` is about
the annotations: whatever a stored, cached or read object records has happened, to the
node it names. Here stale reads and merge patches meet: two versions of an object may
name *different* nodes, or one of them none, so a patch of the later fields alone could
attach them to the wrong node. They cannot, because a machine may still change nodes
only as long as none of its versions has recorded a command (`Settled`, `Begun`;
`PatchWitnessed` is the lemma). `PassInv` says what one pass may add to the record, in
the order of its steps. A reboot is then justified by the recorded apply, whose ID
names an entry of the machine's own (`RebootJustified`).

`Inherited` is the `failureReason` of an earlier build: it stands for a refused apply, and
`FailureMeansGone` and the failure in `RecordInv` and `FreshInv` exempt it. Such a machine
may even be provisioned with the mark still on it, if a failed patch of the status (or a
stale read) keeps the old reason while the metadata goes through.

`RebootFollowsApply` and the reboot of `NodePool` exempt a machine of an earlier build
on a node that an operator gave away: without a recorded ID, `commandState` reads the
newest apply of the node, which may be the other machine's. The proof attempt showed
it; before that both were stated without the exemption, which no run contradicted.

**`FreshInv`** says that the pass patches what it has read (`AsRead`), that a view with
a node has the key under which AuroraBoot holds that node, that a providerID implies a
heartbeat after the recorded reboot (so no later pass takes the reboot for failed), and
that a finalizer is missing only where one of the branches of `reconcileDelete` allows
it (`LetGo`; a 404 that is not AuroraBoot's is one of them if such answers occur).
**`HandInv`** adds that a machine holds the node it names until the pass
that released the node removes the object.

**`PaceInv`** relates the commands of a node to the one object that accounts for them:
the stored one between passes, the pass's copy from its first step to its first write.
Each command of the machine is either the recorded one, or has failed and lies
`RetryWindow` before whatever is due next, short of the second that the stamp drops.

**`PoolImplemented`** needs no further invariant. `OnePart` and `OneObject` say which of
claims, histories and objects a step can touch; `ClaimRefines`, `CommandRefines` and
`StoreRefines` map the steps on each to steps of `NodePool`.

**`OrderInv`** says why a teardown in order reaches AuroraBoot. `ReachableInOrder` alone
is not inductive: whether a delete pass finds a connection depends on the cached
KairosFleetCluster and on the Secret, which other actors remove. As long as nobody has
acted out of order, the cluster is marked for deletion only after the last machine has
gone and the cache drops it only after the store has; a node was claimed with a token,
which stays as long as a node is on record; so a delete pass that gives up works on an
object that is no longer stored. Without stale reads there is no such pass
(`DeletesWhatIsThere`), and `LetGo` of `FreshInv` then leaves only the cases that
`ReleasedInOrder` names. `ProviderStep` is the lemma that splits a step of the manager
into what it is for the machines and what it is for the cluster.

**`commandState`** needs no invariant beyond `WireInv`, which says that a list is one that
AuroraBoot sent. `TurnChooses` shows that one turn of the loop (`latestAfter`) keeps the
choice right for the prefix read so far; `LoopChooses` extends it to the whole list by
taking a least prefix for which it would be wrong, in place of an induction.

**`WireInv`** of the client: every claim and release carries the key of its machine, and
a release its machine only sends once it is no longer live, so none that is still on the
wire can free the node of a live machine; no two registered nodes carry the same key, so
a repeated claim finds the node it got before; and a reply that passes for JSON is the
answer AuroraBoot gave to the call that is waiting, or says nothing (`Genuine`). The
verdicts and `RecordedIsHeld` follow directly.

**`ReleasesOwnNode`** rests on `ClaimInv` alone: a pass claims and releases under a key
whose machine is its own (`OwnKey`), and AuroraBoot refuses to release under any other key.

**`VerdictInv`.** `CurrentVerdict` alone is not inductive, because a pass may write a
verdict reached on an older version. `VerdictInv` adds that the cache and the pass hold
older versions (no larger generation, and the same endpoint if the generation is the
same) and that the verdict in the pass is about the version it read; so a write either
carries an older generation or is about the spec now in the store.

TLC checks these invariants too: `ClaimInv` and `ConfigInv` in `contention`, `FreshInv` in
`faults`, `PaceInv` in `pacing`, `OrderInv` in `teardown`, `WireInv` in `client`,
`VerdictInv` in `clusterstatus`. `HandInv`, which serves `MismatchExplained` alone, is only
proved.

### Only model-checked

The liveness properties `DeletionCompletes`, `EventuallyProvisioned`, `EventuallyReady`,
`GatedOnEndpoint`, `GatedOnConnection`, `ClusterDeletionCompletes`, `TeardownCompletes` and
`FleetComesUp`: fairness and ENABLED are outside what the prover handles.

## Not modelled

Several groups at once (the choice of the group is `ResolveGroupID`, the rest of a claim
is the same in each), the encoding of JSON bodies beyond whether they decode into what
the call expects and what they carry, authentication headers and the options of
`fleet.New`, `IsConflict` (no caller), addresses and the wording of conditions, requeue
delays other than the retry window, errors of `GetOwnerMachine` (a pass that changes
nothing and is queued again), unparseable timestamps on annotations a user edited, two
managers that act at once during a leader change. Requests served after the client gave
up, and replies of others that decode, are part of `FleetClient` and not of
`KairosFleetMachine`, where a call has its effect or not and its reply is AuroraBoot's
own or an error. Templates, generated code, fakes, manifests and the command line
(`cmd/main.go` apart from the set-up of the two controllers) take no part in the
protocol.

## Open questions

1. A bound on what stale reads can do to `SettledIsLeftAlone` and `GoneMeansReleased`:
   the weakest statement that holds with them.
2. `VerdictInv` of the cluster is proved of its own module. In `FleetProvider` the endpoint
   is not edited, and only the types of the cluster are carried over.
3. Several managers at once during a change of leader.
