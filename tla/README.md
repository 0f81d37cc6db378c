# Verification of the CUDN BGP routing operator

TLA+ specifications of the operator in `src/`, checked with TLC on small
instances. Every safety property of a passing run is also proved with TLAPS, for
all values of the constants, and liveness is model-checked.
`PROJECT.json` lists the components, the runs, what each definition models
(`map`), the hazards, the findings and the theorems.

## The system

The operator is one active process (leader election) with two controllers, each
with one worker.

| Part | State | Operations | Module |
|:--|:--|:--|:--|
| CUDNBgpRouting controller | `CUDNBgpRouting` objects: spec, finalizer, status | reconcile, delete, set Degraded | `RoutingController` |
| CUDN and RouteAdvertisements management | one CUDN per network, one shared RouteAdvertisements | ensure, delete | `RoutingController` |
| CUDNBgpConfig controller | the singleton `cluster`: spec, finalizer, status | reconcile in five phases, delete, set Degraded | `ConfigController` |
| FRRConfiguration management, Network patch | numbered FRRConfigurations, the patched Network | write, prune, delete, patch | `ConfigController` |
| AWS platform | Route Server peers and their tags, source/dest checks | discover, reconcile peers, disable checks, clean up | `RouteServerPeers` |
| What phases 3 to 5 compute | nodes and labels, discovery results, FRRConfigurations, peers, `status.aws` | discover, number, merge, prune, peer | `BGPSessions` |
| Both controllers in one manager | the shared cache | all of the above | `Operator`, with `ConfigLifecycle` |
| API types, flags, deep copies | – | – | types only, as records |

How they interact. Both controllers write through the API server and read typed
objects from an informer cache that lags behind it. Unstructured objects (CUDN,
RouteAdvertisements, FRRConfiguration, Network, Infrastructure) are read live.
Watches put keys into a work queue. A routing is built only when the cached
config is `Ready`, and the config's deletion waits until the cache lists no
routing. The config controller calls the AWS platform, and operators of several
clusters may share Route Servers.

What makes it hard: decisions taken on cached lists, users who edit and delete
between the calls of one reconcile, conflicts, calls that fail, writes that
happen but are never answered, restarts between any two calls, outsiders who
change managed objects, and other operators that work on the same peers. A
unit test reaches hardly any of these orders.

## How the code is modelled

`RoutingController` and `ConfigController` share their conventions.

- **One action is one call.** A reconcile is a sequence of actions along `pc`;
  what lies between two calls in the code happens in one action.
- **Objects** are records of what users set, the finalizer, and the status.
  `gen` stands for the whole spec. A CUDN or FRRConfiguration is known by the
  generation it was written from, and by its routing or its zone.
- **Cache.** `watch` is the sequence of versions not yet delivered; a delivery
  updates `cache` and enqueues the key. For the config controller the list of
  routings is a flag with a lagging copy.
- **Optimistic concurrency.** `fresh` says that the worker's copy still has the
  server's resourceVersion. An update of an outdated copy is `Conflict`.
- **Failures.** A call may fail without effect (`CallFails`), or take effect
  while its answer is lost (`ok = FALSE`). `Restart` empties the process's
  memory and lists everything anew.
- **Queue.** `queue` and `delayed` are the work queue and the delaying queue; a
  key has one delayed entry, a backoff or a timer, and an entry may fire at any
  time, so that durations do not matter.
- Reads from the cache do not fail, but for those of `IsFRRReady`, whose error
  has a condition of its own. A get followed by a create or update of an
  unstructured object is one action; what comes between them is a failed call.
- The zones of a spec without AWS are a set, and the i-th FRRConfiguration is
  for the i-th in increasing order instead of the i-th of the list. Another
  order of the list is another spec, hence another generation, which every
  FRRConfiguration carries.
- The server drops a status write that changes nothing, so it raises no event.

`RouteServerPeers` has one action per EC2 call that lists or writes, for every
cluster. A peer is known by endpoint and address, and `peers` says whose tag it
carries. `plan` is what the present loop still means to do, and `gone` has the
addresses whose listed peer ID is outdated, since EC2 refuses it. `config` and
`serverIDs` are what the operator sees of its config. Endpoints are visited in
any order, which includes the orders of Go's maps. EC2 and the API server are
outside `src/`: they are modelled from the way the code uses them.

`BGPSessions` looks at the data that the other two abstract. A label set is a
function, `mergeLabels` is the union that prefers the zone, and a provider ID is
the sequence of strings between its slashes. Zones are their places in the order
of their names, so `sort.Strings` is the increasing sequence (`Sorted`).
Discovery records each endpoint three times, as the code does; what the code
keeps in lists whose order and repetitions mean nothing to a session is a set,
and a zone that is no key of a Go map has the empty set. A step is one Route
Server of phase 3, one call of phase 4, or one half of phase 5; phases 1 and 2
and the deletion are `ConfigController`'s. An endpoint stands for its address
and a Route Server for its ASN. Node events pass `nodeRelevantChangePredicate`;
endpoints change without any event. `due` says that an event or an error asks
for a reconcile. Events of the operator's own writes are left out: what they
bring, its timer may bring at any time.

`ConfigLifecycle` is what the config controller promises to the rest of the
system: who holds the object, what its phase says and when the cache knows,
whether FRRConfigurations exist, and whether its deletion has seen the cache
without routings. `ConfigController` implements it: `KeepsLifecycle` is that
specification under the mapping `Lifecycle` (the object's stage, its phase, its
cached phase, the managed FRRConfigurations, and the worker's place in
`reconcileDelete`). `Operator` puts this promise in the place of the config
controller, beside the whole routing controller. The routing controller then
reads `cachedReady` instead of an arbitrary answer, the deletion of the config
reads the routing controller's cache, and a restart is common to both. What the
promise allows a worker with an outdated copy (to build for a config that is
being deleted, to tear down for one that is gone or new) and outsiders (to
delete FRRConfigurations) is `ConfigOutdated`. Like a failure it is counted by
`MaxFaults`, since each case needs a step of someone else: with no bound, builds
and deletions could alternate for ever, which the code's reconciles do not. Both
controllers in full have up to ten times the states, beyond what liveness can be
checked on.

| Code | Actions, in the order of the code |
|:--|:--|
| `CUDNBgpRoutingReconciler.Reconcile` | `Reconcile`, `AddFinalizer`, `CheckDuplicate`, `CheckConfig`, `ValidateNamespaceLabels`, `EnsureCUDN`, `EnsureRouteAdvertisements`, `WriteStatus` |
| its `reconcileDelete` | `DeleteCUDN`, `ListRemaining`, `DeleteRouteAdvertisements`, `RemoveFinalizer` |
| its watches and map functions | `DeliverRouting`, `DeliverCUDN`, `DeliverRA` |
| `CUDNBgpConfigReconciler.Reconcile` | `Reconcile`, `AddFinalizer`, `PatchNetworkOperator`, `IsFRRReady`, `DiscoverEndpoints`, `StartFRR`, `EnsureSingleFRRConfiguration`, `ListFRR`, `DeleteFRR`, `FRRDone`, `ReconcileNodes`, `WriteStatus` |
| its `reconcileDelete` | `CheckRoutings`, `Cleanup`, `ListFRR`, `DeleteFRR`, `FRRDone`, `RemoveFinalizer` |
| its watches | `DeliverConfig`, `DeliverRoutings`, `DeliverFRR`, `DeliverNode` |
| `Platform.ReconcileNodes` | `Start`, `ListNodes`, `ListManaged`, `deletePeer`, `ListAll`, `tagPeer`, `createPeer`, `NextEndpoint`, `EndpointsDone`, `disableSourceDestCheck`, `NodesDone`, `Finish` |
| `Platform.Cleanup` | `Start`, `ListManaged`, `deletePeer`, `NextEndpoint`, `EndpointsDone`, `Finish`; or `SkipCleanup` |
| `Platform.DiscoverEndpoints` with its helpers | `DiscoverServer`, `ServerNotFound` |
| `EnsureFRRConfigurationsFromDiscovery`, `EnsureFRRConfigurations` | `PrepareFRR` (or `Start`), `ensureSingleFRRConfiguration`, `Prune` |
| phase 5, as data | `reconcileRouteServerPeers`, `disableSourceDestCheck`, `WriteReady` |
| error returns | `CallFails`, `Conflict`, `Abort`, `PhaseFails` |
| users, outsiders, EC2, restarts | `Create…`, `Edit…`, `Delete…`, `Drift…`, `Change…`, `Node…`, `Outsider…`, `Restart` |

Each component has its own questions. The routing controller: is a network ever
given to two routings, are the shared RouteAdvertisements there while a routing
needs them and gone afterwards, is a change ever overlooked. The config
controller: does `Ready` mean that every phase was applied, are
FRRConfigurations repaired and removed with the config, does it settle and does
its deletion end. The platform: does a completed pass leave exactly the wanted
peers, are other clusters' peers left alone, does cleanup leave none. The
sessions: do both sides of a session and the status agree once the operator
rests, and does a repeated reconcile leave running sessions alone. Both
controllers: does either wait for the other for ever.

Definitions commented as mutants change the definition below them the way a
mistake would. Each property of a passing run is violated by the mutant that
`PROJECT.json` names for it. No specification uses them.

## Runs

Deadlock is not checked: with the budgets for users and failures used up the
system may rest.

| Run | Instance | Shows |
|:--|:--|:--|
| `RoutingPair` | 2 routings, 2 networks, any claims, 3 user actions, 1 failure | `TypeOK`, `NetworkExclusive`, `RAKept`, `NoOrphanCUDN` |
| `RoutingFaults` | 1 routing, 2 generations, 4 user actions, 2 failures | `NeverForgotten`, `StatusCoherent`, `CUDNDriftNoticed`, `RADriftNoticed` |
| `ConfigSafe` | `cluster`, 2 zones, 2 specs, 2 generations, 3 user actions, 1 failure | `NeverForgotten`, `StatusCoherent`, `FRRDriftNoticed`, `NoOrphanFRR`, and the refinement `KeepsLifecycle` |
| `ConfigLive` | `cluster` and a wrong name, 1 zone, 2 user actions, 1 failure | `TypeOK`, `Settles`, `DeletionEnds` |
| `PeersShared` | 2 clusters with a node each, 2 endpoints in 2 zones, 4 changes, 1 failure | `TypeOK`, `PeersReconciled`, `CleanupComplete`, `NoInterference` |
| `PeersConverge` | 1 cluster, 2 nodes, one without a primary interface, 2 Route Servers, 3 changes, 1 intrusion, 1 failure | `Converges`, `DeletionEnds` |
| `OperatorLive` | 1 routing, the config, 4 user actions, 1 failure | `FollowsConfig` |
| `BGPSessions` | 2 nodes of 7 kinds, 4 endpoints in 2 zones and none, 4 specs, 2 changes, 1 failure | `TypeOK`, `SessionsMatch`, `ConfiguredAsReported`, `RoutersForward`, `ReconcileIdempotent` |
| `RoutingDuplicateDelete` | 2 routings, 1 network | violates `DeletesOwnCUDN` |
| `RoutingLastDelete` | 2 routings, 2 networks | violates `NothingLeaked` |
| `ConfigDeletion` | `cluster`, 1 zone | violates `DeletionBlocked` |
| `PeersMoving` | 2 clusters, 1 address that goes from one to the other | violates `NoInterference` |

Why the bounds are enough. Two routings are the least for every property about
"another routing", and a network then has at most two claimants. Three user
actions create both and delete one, or create, delete and re-create one.
`RoutingPair` has one generation, so that nobody is renamed (see finding 2);
`RoutingFaults` has one network and one routing, and spends its states on edits,
a second generation and two failures in a row. A lag of two or three undelivered
events lets the cache miss a status write and the user action after it; in
`ConfigSafe` one undelivered version of the config, beside the pending events of
the other watches, outdates what the worker reads. Two zones renumber
FRRConfigurations when one disappears; the specs of `ConfigSafe` are AWS, which
finds any of the zones, and the second zone alone. Four changes let both
clusters' nodes join, one leave, and a config be deleted while peers are in
work; two zones tell an endpoint's nodes from the others. The two clusters of
`PeersShared` may be exchanged together with their zones (`SwapHalves`). In
`OperatorLive` four user actions create and delete the config and a routing in
any order, or delete and re-create one of them; with one routing no network is
contested, which `RoutingPair` is about. `BGPSessions` starts with a router and
every spec; two changes then hit one reconcile, or two in a row, and one failure
leaves any prefix of its writes. Its specs have a Route Server twice, one that
does not exist, a zone in the node selector, and static zones. The theorems
below remove the bounds for every safety property of the passing runs.

Fairness is assumed in `ConfigLive`, `OperatorLive` and `PeersConverge` only. In
the first two, informers deliver, delayed entries fire and the worker goes on
(weak), and every queued key is eventually taken (strong: the work queue is
first in, first out, but the worker may be busy in between). `OperatorLive` also
assumes that the config controller goes on to `Ready`, or to letting go, unless
it fails (weak); `ConfigLive` checks this of `ConfigController`. In the last,
every operator goes on with its reconcile or starts the next (weak), since a
reconcile that ends is repeated after five minutes, one waiting to delete after
ten seconds, and one that failed after its backoff. Users, outsiders and
failures are under no fairness and act finitely often.

### Findings

The four violating runs state what `src/README.md` says and show that the code
does otherwise; `PROJECT.json` quotes the lines.

1. Deleting a duplicate, `Degraded` routing deletes the CUDN of the routing that
   owns the network (`RoutingDuplicateDelete`).
2. The last deletion may count a routing that is already gone, from the cache,
   and leave the RouteAdvertisements for good (`RoutingLastDelete`). With a
   second generation `NothingLeaked` fails even with one routing: a changed
   `spec.network.name` leaves the first network's CUDN for good.
3. A routing that appears after the config's deletion has listed the routings
   does not block the deletion (`ConfigDeletion`).
4. An address that goes from one cluster to another makes one operator retag or
   delete the other's peer (`PeersMoving`).

`CleanupComplete` is about the endpoints that the cleanup discovered. The peers
of a Route Server that was taken out of the spec before are not among them, and
survive the deletion of the config. `SessionsMatch` is about the nodes that the
operator lists: when the node selector names a zone, nodes of other zones are
configured to call endpoints that have no peer for them.

While the deletion of a config is blocked, its status stays `Ready` but lost
FRRConfigurations are not restored; `FRRDriftNoticed` excludes this case.

## Proofs

The theorems hold for all values of the constants that satisfy the assumptions
of the module they are about. `PROJECT.json` lists them.

| Module | Theorems | Under |
|:--|:--|:--|
| `RoutingControllerProofs` | `Inductive`, `TypeCorrect`, `NeverForgottenAlways`, `RAKeptAlways`, `NetworkExclusiveAlways`, `RADriftNoticedAlways`, `StatusCoherentAlways` | – |
| `RoutingClaimsProofs` | `NoOrphanCUDNAlways` | `NoRename` |
| | `CUDNDriftNoticedAlways`, `DeletesOwnCUDNAlways` | `Disjoint` |
| `ConfigControllerTheorems` | `Inductive`, `TypesOK`, `NeverForgottenAlways`, `StatusCoherentAlways`, `FRRDriftNoticedAlways`, `NoOrphanFRRAlways`, `LifecycleKept` | – |
| `RouteServerPeersProofs` | `TypesOK`, `CleanupLeavesNothing` | – |
| | `TagsKeepApart` | `OneHome` |
| | `ReconcileIsExact` | `OneHome`, `MaxMeddling = 0` |
| `BGPSessionsProofs` | `TypesOK`, `SessionsMatchAlways`, `ConfiguredAsReportedAlways`, `RoutersForwardAlways`, `ReconcileIdempotentAlways` | – |
| `OperatorProofs` | `OperatorInductive`, `OperatorNetworkExclusive`, `OperatorRAKept`, `OperatorNeverForgets`, `OperatorStatusCoherent`, `OperatorRADriftNoticed`, `OperatorKeepsLifecycle` | – |
| | `OperatorNoOrphanCUDN` | `NoRename` |
| | `OperatorCUDNDriftNoticed` | `Disjoint` |

`ConfigControllerSteps` and `ConfigControllerProofs` have the lemmas on single
steps of the config controller. The inductive invariants of the two controllers
are in `RoutingControllerInv` and `ConfigControllerInv`, the others in the proof
modules.

Each hypothesis on the right excludes a case in which the property fails.
`NoRename`: a changed `spec.network.name` leaves the old CUDN (finding 2).
`Disjoint`, no network is claimed twice: otherwise a duplicate deletes the
owner's CUDN (finding 1), and an event of the CUDN may be given to the duplicate
alone. So `DeletesOwnCUDNAlways` says that finding 1 has no cause but
duplicates. `OneHome`, no address goes from one cluster to another: otherwise
finding 4. `MaxMeddling = 0`: an outsider may delete a peer right after it was
made. Of the assumptions on constants one is not about bounds or distinct
values: that there is a Route Server, and that lists of zones are not empty,
comes from the `MinItems=1` of the API types.

### The routing controller

None of the properties is inductive, since a decision on a cached list says
nothing of the server. `IInv` adds what does:

- `CacheFollows`: the cache is behind by the pending events and nothing else.
- `FreshCopy`: a copy that may still be written is a copy of what the server
  has, and every version on its way to the cache has its network. So a status
  write that succeeds was computed from the current spec.
- `ReadyIsCached`: hence every routing that became `Ready` is in the cache, and
  stays visible there, with its network, while it is `Ready` for its spec. A
  list that does not show a routing proves that it is not `Ready`.
- `CheckStaysValid`: there is one worker, so nothing else becomes `Ready`
  between the duplicate check and the status write.
- `ReadyToBeTrue`: a drift between `EnsureRouteAdvertisements` and the status
  write has raised an event.
- `CoherentToBe`: the status the worker gathers is coherent when it is written,
  although it starts from the conditions of an earlier reconcile.

`FinalizerInv` adds that a version with the finalizer and without deletion
timestamp has an object behind it that the finalizer holds (`HeldBehind`), and
that past `DeleteCUDN` nothing of the routing is left (`CleanedUp`). `DriftInv`
adds that a CUDN is written only for a routing that claims its network
(`CUDNsClaimed`), and that one that changes between `EnsureCUDN` and the status
write has raised an event or brought its routing back to the queue
(`CUDNToBeTrue`). The proof of the last uses `mapCUDNToRouting`: with one
claimant in the cache, the routing it picks is the owner.

### Both controllers

The lemmas about steps of the routing controller assume a `Step`: a step of the
controller alone, a check of the config with either answer, or a step elsewhere
in the process that touches nothing of the controller but the common budgets of
users and failures. `OperatorSteps` shows that every step of `Operator` is one,
so the same lemmas give `IInv`, `FinalizerInv` and `DriftInv` for both
controllers. What had to be seen is that no part of the invariants depends on
how the answer of the config check is related to the config: a routing that
passes from `Ready` to `Pending` keeps its finalizer, its timer and its CUDN.
`OperatorKeepsLifecycle` shows that the composition only restricts the promise
`ConfigLifecycle`. It restricts it by reading the routings in the shared cache,
and by counting: the users' steps by `MaxEdits`, and failures, a config that is
no longer `Ready` and the steps of `ConfigOutdated` by `MaxFaults`. Without
these a config is built for only while the finalizer holds it, cleared and torn
down only while it is being deleted, and given up only once it no longer is.

### The config controller

The first three parts of its `IInv` are as above, with `NewsComing`: whatever
outdates the worker's copy brings its key back to the queue. Then:

- `Stages`, `HeldBehind`, `CleanedUp`: what is built is built for a copy with an
  object behind it that the finalizer holds, and the finalizer goes only when
  every FRRConfiguration was listed and deleted. `NoOrphanFRR` follows.
- `WorkNoticed`: what a reconcile wrote so far stays as its copy asks, or an
  event is pending. With `Observed`, that a `Ready` status is about the current
  generation or a reconcile is coming, `FRRDriftNoticed` follows.
- `StatusStages`: the conditions of the phases that are behind the worker are
  set. `StatusCoherent` follows.
- `OneChange`: among the versions on their way to the cache readiness changes at
  most once more, so that what the cache says of `Ready` follows the server as
  `ConfigLifecycle` promises.

That a set of zones has an i-th one, for every i up to its size (`Ranked`),
takes an induction, which the least-element theorem of the library provides:
consider the least i that no zone has as its rank. `LifecycleKept` is the
refinement: the initial state maps to one of `ConfigLifecycle`, and under `IInv`
every action maps to an action of it or to a stutter.

### The platform and the sessions

For the peers, `Passed` are the endpoints a loop is through with. `Cleaning`
says that a cleanup has left no peer on them, and that its plan knows every peer
on the present one; `Reconciling` says the same of the wanted peers. They are
invariants because only a cluster's own operator sets its tag, and, for
`Reconciling`, because under `OneHome` nobody else takes the address
(`AtHome`).

For the sessions, the inductive invariant `SessionsInv` has these parts, beside
the types:

- `RoutersInv`: the worker's spec and its list of nodes are current unless a
  reconcile is due (`ReadCurrent`). Its main lemma is `NodesSame`: a change of a
  node that `nodeRelevantChangePredicate` holds back changes nothing that phase
  5 reads.
- `FoundInv`: the three records of a discovery describe the same sessions, and
  every session is that of an endpoint which EC2 has listed (`Genuine`), with
  its own zone and ASN.
- `ConfigInv`: up to the place where the loop is, the FRRConfigurations are
  those of the zones, and after `Prune` there are no others.
- `PeersInv`: after phase 5 the peers of each endpoint found are the router
  nodes of its zone, as long as no reconcile is due.

`ConfiguredAsReported` follows since a sorted sequence has every zone
(`SortedHasAll`). For `SessionsMatch`, `ZoneSelects` shows that a listed node is
selected by the labels merged for a zone exactly when it is in that zone: the
two ways of choosing nodes, by merged labels and by zone, agree on the nodes
that the operator lists. `ReconcileIdempotent` needs that the zones have one
order only (`SortedUnique`), by the least place in which two orders differ; for
a Go map's order it fails, which is the mutant of that property.

### Only model-checked

Liveness (`Settles`, `DeletionEnds`, `Converges`, `FollowsConfig`) is out of the
prover's reach. That a definition means what the code does is a matter of
reading; the four violating runs are counterexamples, which need no proof.

## Not modelled

- The flags, TLS options, certificate watchers and probes of `cmd/main.go`,
  group registration, generated deep copies: wiring without behaviour of its
  own. That one process is active at a time (leader election) and that each
  controller has one worker is assumed.
- The content of CUDNs and of the Network patch, BFD profiles, error texts,
  logging, timer lengths.
- The options of a peer (ASN, liveness mode), EC2's pages and peer states.
- Errors of other cached reads, and failures that never end, other than a node
  without a primary interface or with a malformed provider ID and a Route
  Server that does not exist.

## Plan

1. An abstract peer set that `RouteServerPeers` implements, with moving
   addresses and two clusters.
2. Options of peers: an edit of `localASN` reaches the FRRConfigurations but not
   the peers that are kept.
3. Liveness of the routing controller with two routings that contest a network.
4. Proofs that `ConfigController` and `BGPSessions` are two views of one
   reconcile: a module that both implement.
