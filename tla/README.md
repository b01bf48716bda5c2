# A verification of karpenter-provider-rackspace-spot

TLA+ models of the Rackspace Spot provider for Karpenter, the TLC runs that
check them on small instances, and TLAPS proofs for every instance. Paths below
are relative to the repository (`pkg/...` is `src/pkg/...` in `PROJECT.json`).

## The system

Karpenter (sigs.k8s.io/karpenter v1.14, a library outside this repository)
reconciles *NodeClaims*. For each it calls this provider's `CloudProvider`,
which keeps nothing itself: its state is the NodeClaim in Kubernetes, the pools
at Rackspace, and a few caches in memory.

| Component | State | Operations | Interacts with |
| --- | --- | --- | --- |
| **CloudProvider** `pkg/cloudprovider` | none; writes labels, `status.providerID`, capacity of the NodeClaim | `Create`, `Delete`, `Get`, `List`, `GetInstanceTypes` | called by karpenter's lifecycle controller, which patches the NodeClaim after `Create`, error or not; calls instance and instancetype |
| **Instance provider** `pkg/providers/instance` | Rackspace's pools, by kind and name (the NodeClaim UID) | `Create`, `Get`, `Delete`, `List`, `ServerAssigned`, `chooseBidPrice` | Rackspace API, pricing, instancetype |
| **Pricing feed** `pkg/providers/pricing` | cached feed, its time, an RWMutex | `Percentiles`, `load` | S3, the embedded snapshot |
| **Instance types** `pkg/providers/instancetype` | ServerClass list per region with its time and mutex; discovered capacity with its own mutex | `List`, `Get`, `MinBidPrice`, `UpdateFromNode` | Rackspace API |
| **nodelink** `pkg/controllers/nodelink` | work queue | `Reconcile(Node)` | Nodes, NodeClaims |
| **instancetype.capacity** `pkg/controllers/instancetypecapacity` | work queue | `Reconcile(Node)` | Nodes, NodeClaims, `UpdateFromNode` |
| **nodeclass.status** `pkg/controllers/nodeclass` | work queue | `Reconcile(NodeClass)` | instancetype, NodeClasses |
| **Operator, main** `pkg/operator`, `cmd/controller` | Cloudspace and region, found once | start, `LaunchTimeout` | all |

How a NodeClaim lives: karpenter calls `Create` again and again until it
returns no error. Each call picks a capacity type (spot if it can) and the
cheapest ServerClass from the cached list, creates a pool under the NodeClaim's
UID (AlreadyExists is success), reads it back, asks the Cloudspace whether a
server of that name is attached, and stamps labels and a synthetic providerID
on the NodeClaim. Without a server it returns `AwaitingServerAssignment`, and
the NodeClaim stays `Launched=Unknown`. When the server joins as a Node,
nodelink replaces the synthetic ID by the Node's. At a timeout or a disruption
karpenter calls `Delete` until the pool is gone.

### What is hard

* *Failure between calls.* `Create` is four remote calls and a patch by
  somebody else. Any may fail, a request may arrive after its client gave up,
  the process may end. What is left is found again only by name.
* *Choices that change.* Kind and class are chosen anew in every attempt, from a
  list that is refreshed every five minutes, while the pool in flight keeps what
  the first attempt chose.
* *Two names for one thing.* Pools of both kinds have one name; a NodeClaim has
  a synthetic and a real providerID, written by two controllers from copies
  they read earlier.
* *Caches.* Double-checked locking, stale data served on failure, a fallback;
  a mutex held while Rackspace is asked; a list that expires and is not served.
* *Views put together.* `List` and `Get` are several calls at several moments,
  and know pools and Nodes by labels that a NodeClass may override.
* *What is learnt and forgotten.* Capacity measured on Nodes is in memory only,
  booked on a class by a label that comes late and may change.
* *Arithmetic at bends.* A bid must be on a ladder whose steps change.

### What makes each component correct

* Lifecycle: no pool outlives its NodeClaim; one pool for a NodeClaim, of a kind
  it permits; Launched only with a server; a retry costs no progress; deletion
  completes; a server that is there gets its NodeClaim launched.
* Choice of type: the cheapest compatible offering, spot first, the same for the
  same list.
* Bidding: on the ladder, lowest rung that covers the target, beats market,
  percentile and floor; ends.
* Pricing feed: one fetch for many callers; never back to older data; no call
  hangs.
* nodelink: only a Node of one's own; not undone; reached in the end.
* Instance types and capacity: the smallest report is kept; what karpenter is
  told fits every Node that had reported, also when the disk lookup fails; one
  refresh for many callers; a withdrawn class is not served; a Node that stays is
  measured in the end, though Rackspace hangs and though the process restarts.
* nodeclass.status: it names the list in the end, whatever conflicts or fails.
* List and Get: what is there throughout is shown, under the ID nodelink gave.

`PROJECT.json` lists the hazards line by line, with those no property covers
yet.

## The modules

| Module | Models | State and actions in the code |
| --- | --- | --- |
| `Offerings` | `pickInstanceType`, `preferSpot`, `requirementValue`, the offerings of `translate` | pure operators. A class has a price for each kind (0: none) and is available or not; a class that the list lacks is one that is not available. Requirements keep their operator and the *order* of the capacity-type values, which `Delete` depends on |
| `PickType` | the same two loops as written | one action per iteration; shown to have the outcome `Offerings` defines |
| `Provisioning` | `CloudProvider.Create` and `Delete`, the pool calls, Rackspace, karpenter's side | `worker` is an attempt and its program counter: `StartCreate` (pick), `CreatePool`, `GetPool`, `CheckAssigned`, `Patch`; every call may fail (`StepFails`), lose its reply (`AbandonCreate`, `DeleteReplyLost`), or be cut short (`Restart`). `wire` holds create requests nobody waits for. `ConfirmGone` is `CloudProvider.Get` as karpenter uses it after a Delete |
| `NodeLink` | `nodelink` with Nodes, queue, worker | extends `Provisioning`: `Provision` is any step of it, `LinkRead`, `LinkClaim`, `LinkPatch` the three calls of `Reconcile` |
| `BidLadder` | `chooseBidPrice`, `roundBidUp` | one action per stage and per rung climbed |
| `PriceFeed` | `DefaultProvider.load` | one action per lock operation and branch; feeds are versions |
| `Lease` | what karpenter is promised of a NodeClaim | abstract: `standing`, `server`, `told`. No attempts, labels, lists, requests |
| `SharedCache` | what callers see of a cache | abstract: `value`, `fresh`, `asking`, `got`. A call is answered at one moment; a value is replaced only while it is out of date. No locks, requests, failures. `KeepStale` says whether what expires is kept (prices) or not (ServerClasses) |
| `InstanceTypes` | `DefaultProvider` of instancetype: `List`, `Get`, `MinBidPrice`, `load`, `UpdateFromNode`, the capacity of `translate` | `call` is a goroutine's call and its program counter. `mu` is `p.mu`: `Lock`, `LoadFresh`, `LoadExpired`, `ListAnswers`, `ListFails`, `DisksAnswer`, `DisksFail`. `discoveredMu` only guards assignments, so that `Translate` (one class) and `UpdateFromNode` are one action each |
| `Capacity` | instancetype.capacity with Nodes and labels | extends `InstanceTypes`: `ReadNode`, `ReadClaim`, `Record`, `ReadFails`; `Serve` is any step of the provider |
| `NodeClassStatus` | nodeclass.status | extends `InstanceTypes`, where the controller is one caller: `Reconcile` starts its call, `reconcileServerClasses` ends it, then `Patch`, `PatchConflicts` or `PatchFails`, and `Requeue`; `StatusRestart` ends the process |
| `Inventory` | `CloudProvider.List` and `Get`, `instance.List` and `Get`, the labels | `reader` is the List or Get in progress: `ListSpotNodePools`, `ListOnDemandNodePools`, `ListNodes`; `GetByPoolID`, `GetByNodeID`, `GetNode`, `GetPool`. Pools and Nodes change between |
| `Documented` | sentences of README and comments that hold only under a condition | properties over `Provisioning` |
| `*Proofs` | theorems; `ControllersProofs` has those of `Capacity` and of `NodeClassStatus` | |
| `MC*` | constants for TLC | |

Four refinements tie the modules together.

* `NodeLink` implements `Provisioning`, where nodelink is one action, `Relink`,
  that may happen at any time: `ImplementsProvisioning` says that the detailed
  controller does nothing else, so that all safety results about the lifecycle
  carry over.
* `Provisioning` implements `Lease`: `ImplementsLease` maps a NodeClaim whose pool
  Delete always finds (`FallbackAgrees`) to its one pool as far as karpenter may
  count on it; what is asked for or made after the release is not its server any
  more, and a NodeClaim that permits no such promise is mapped to one that stays
  wanted. By the first refinement `NodeLink` implements it too.
* `PriceFeed` and `InstanceTypes` implement `SharedCache` (`ImplementsCache` in
  each). The two caches of this program are told apart by one constant: the feed
  keeps what is stale, and a failed fetch answers with it; the list drops what
  has expired, and a failed refresh is an error. Here `value` of the list is what
  is cached *and* fresh, because the code overwrites an expired list without ever
  reading it. A call of `InstanceTypes` waits while it is in `load`; the answer it
  takes is the list on which `translate` goes on, or none.

`Capacity` and `NodeClassStatus` compose a controller with `InstanceTypes`: each
of their steps is one of the provider's or leaves it alone.

`Inventory` is not composed with `Provisioning`: there pools and Nodes come and
go freely, which covers whatever the lifecycle does to them. Its variables
`all`, `some`, `lone` and `there`, like `seen`, `began` and `dropped` in
`InstanceTypes`, are history that only properties read.

Operators that end in a word like `...AnyKind`, `...Afresh` or `...Shifted` and
stand before the definition they vary are bugs the code could have had.
`PROJECT.json` pairs each property with one: the property must fail with it.

### Abstractions

* A NodeClaim is its UID, requirements, phase, `Launched`, two labels and
  providerID. Taints and annotations are left out: no property is about them.
* Capacity is memory and disk in MiB, in exact integers; the code takes the floor
  of a float64 product, which is the same for sizes of whole MiB up to rounding.
  CPU and pods are advertised as sold and never measured.
* Servers that have not booted are alike, so that `NodeLink` lets one chosen
  server (`NewVM`) be the next to boot, where any could be.
* One Cloudspace, hence one region, zone, architecture: only types and the
  capacity type distinguish offerings. Karpenter's requirements algebra is
  external; `Permits` is what `Has` answers for In, NotIn and Exists.
* Prices are natural numbers. `BidLadder` counts hundredths of a mill, so that
  5% is exact; `roundBidUp`'s epsilon makes the floating-point code agree.
* A step that fails without changing anything is one action whatever the call.
* `Rackspace` may attach or take a server at any time, and a pool may be deleted
  by hand. A bid that is refused is a step that fails.
* `origin` of a pool is a history variable: which request built it. No action
  reads it. The properties use it to exempt what the provider cannot know.

### What is assumed of the outside

* Karpenter works on one NodeClaim in one worker at a time; it patches the
  NodeClaim with a merge patch after `Create`, whether an error came back or
  not; it repeats `Delete` until it answers NotFound, or until `Get` of the
  NodeClaim's providerID does after an accepted Delete; it does not Create a
  Launched NodeClaim again. (From the comments in `cloudprovider.go` and the
  README's "Launch timeout".)
* Rackspace keeps at most one pool of a name among those of one kind, and answers
  AlreadyExists and NotFound so that `isAlreadyExists` and `isNotFound` see it.
* Nodes and NodeClaims are read as they are: the lag of informer caches is not
  modelled.
* A Node carries the labels of its pool, and keeps its spec.providerID.

## The runs

| Run | Shows | Instance |
| --- | --- | --- |
| `provisioning` | TypeOK, NoOrphan, TargetGone, OnePool, KindPermitted, LaunchedHasServer, RetryKeepsProgress, ImplementsLease; 288,654 states | one NodeClaim, two classes, three lists, six requirements, one VM |
| `provisioning_live` | DeletionCompletes, ServedIsLaunched; 45,726 states | one NodeClaim, one class, two requirements |
| `pick_type` | PickedRight, EarliestPicked; 42,276 states | three classes in every order, five sorts of class |
| `bid_ladder` | LowestRung, BidWins, AlwaysNearer, BidIsMade; 75,190 states | 12 prices, 3 feeds |
| `node_link` | LinkedToOwnNode, LinkStays, ImplementsProvisioning, EventuallyLinked; 229,613 states | one NodeClaim, two VMs |
| `price_feed` | FetchOnlyWhenStale, AnswerNotOlder, SomebodyGoesOn, NeverOlder, ImplementsCache, CallReturns; 10,635 states | two callers, three versions, a snapshot that parses or not |
| `node_class_status` | StatusTypeOK, RefreshOnlyExpired, SomebodyGoesOn, NeverForgotten, WithdrawnStaysOut, ImplementsCache, CallReturns, StatusCatchesUp; 64,768 states | the controller and one other caller, one class that comes and goes |
| `capacity` | SmallestSeen, AnswersFitNodes, EventuallyMeasured; 134,312 states | one caller, one class, two Nodes of different size, one without a disk report |
| `inventory` | ListComplete, LoneNodeListed, GetFinds; 617,136 states | one NodeClaim, two servers, NodeClasses that override the managed label, the kind, or nothing |
| `doc_*` | the findings below | as the run above they belong to |

Why the bounds are enough. Two NodeClaims share only the list and the moment of
a restart; the properties speak of one NodeClaim each. The lists make the spot
offering come and go, swap which class is cheaper and make a class unavailable;
the requirements cover one kind, both in the order `Delete` guesses wrong, NotIn
and none. Nothing counts in `Provisioning`: `wire` is a set of requests, and an
attempt may be repeated without bound. Two VMs give a Node that died and its
successor. The prices of `bid_ladder` lie on, just below and beyond every bend
of the ladder. Two callers give one that fetches and one that waits or arrives
(with three the safety properties hold as well).
In `node_class_status` two callers give one that refreshes and one that waits,
and one class that comes and goes makes every list that can differ. In
`capacity` two Nodes report in both orders, one of them a resource less, with a
disk that is sold with less than the floor a failed lookup falls to; `Reports` is
empty there and in `node_class_status`, because reports come from the controller
or are no concern of the list. In `inventory` two servers of one NodeClaim give a
Node and its successor, on the pool of either kind. All three are proved
for any number, except what is liveness.
`MaxVersion` is the only bound on a counter: the first version and two
publications, so that one is seen and one is missed. What the bounds leave open for safety, the
proofs close.

`CHECK_DEADLOCK FALSE` stands where the system stops: a bid or a pick that is
made, and NodeLink, where NodeClaims and Nodes may all be gone.

### Fairness

* `Provisioning`: weak fairness of a Create's and a Delete's next step, because
  karpenter requeues what failed; strong fairness of each call of an attempt,
  because a call that is retried for ever is assumed not to fail for ever. None
  of Rackspace, of refreshes, of late requests or of nodelink.
* `NodeLink`: a live kubelet reports again and again, the one worker goes on, a
  repeated call succeeds once. Only the action's own fairness: the NameNode of
  the cloud controller is none of the provider's.
* `PriceFeed`: a goroutine goes on, the HTTP client gives up after ten seconds,
  and Go's RWMutex does not starve who waits.
* `BidLadder`: the computation goes on.
* `NodeClassStatus`: the five minutes of the list and of the requeue pass, every
  request ends in an answer or an error, Go's mutex lets who waits in in turn
  (strong fairness of `Lock`), the controller goes on. What is tried every five
  minutes succeeds at some time: Rackspace lists, the API server takes the patch.
  `StatusCatchesUp` is about a list that no longer changes and a process that no
  longer ends.
* `Capacity`: kubelets report again and again, the worker goes on, and what it
  does for one Node is not cut short every time by a restart or a failed read.
  Nothing of Rackspace: a request may hang with `p.mu` held for ever, and
  EventuallyMeasured still holds, because reports are under the other mutex.

## Findings

Three sentences of the repository are stronger than the code. Each has a run
(`doc_*`) that violates it; `Provisioning` states what does hold.

1. **One pool per NodeClaim** (README, Architecture notes): two attempts with the
   spot offering gone between them make a spot and an on-demand pool. Holds for
   requirements whose choice cannot change (`OnePool`).
2. **The pool is cleaned up** (README, Launch timeout): if the attempt that made
   the pool never got to patch its label, Delete guesses the kind from the first
   value of the requirement. Holds when the label is there or the guess agrees
   (`NoOrphan`); and whatever the requirement, of the kind Delete does go for
   nothing is left (`TargetGone`).
3. **The NodeClaim's label names the node's ServerClass** (comment in
   `instancetypecapacity`): a retry stamps the class it picked, not the pool's.
   `Capacity` lets the label change for that reason: what a Node reports is then
   booked on the class of the label at that moment.

Four remarks need no run of their own. Two follow from 1 and from the order of calls in
`Create`: `ServerAssigned` cannot tell the two pools of a NodeClaim apart by
their name, so that one may be launched on the server of the other; and a retry that
finds nothing on offer fails before it sees that its server is attached, which
is why `ServedIsLaunched` asks for something to pick. Two are sentences out of
date: the README gives bids of three decimals below $0.05, where `roundBidUp` has whole cents on
a ladder; and the comment on pricing's `load` says that any HTTP failure falls
through to the snapshot, where a cached feed of any age is preferred to it.

## Proofs

All theorems hold for every value of the constants that the named assumptions
allow (`CatalogsAssumption`, `RequirementsAssumption`, `PricesAssumption`,
`FeedsAssumption`, `OrdersAssumption`, `NoTypeAssumption`, `CallersAssumption`,
`VersionAssumption`, and `SoldAssumption` to `ReportedAssumption` for
capacity, `StatusAssumption` for the status controller, `CustomsAssumption` for
labels): sets of the right sort, a non-type for "none", a first version, a
percentage below 100, a controller that is one of the callers and may ask for
the whole list.

* `ProvisioningProofs`. `TypeOK` and the safety properties are not inductive.
  `IInv` adds: `KindsKnown`, every attempt, request, pool and label is of a kind
  the catalogs can make Create choose (this gives OnePool and KindPermitted);
  `Exclusive`, an attempt runs only on a NodeClaim that is neither gone, nor
  Launched, nor accepted for deletion; `TargetGone`, once Delete is accepted or the
  NodeClaim gone, a pool of the kind Delete goes for is posthumous: inductive
  with `Exclusive`, because with no attempt left the label and so the kind cannot
  change. With `KindsKnown` it gives NoOrphan (`OnlyTarget`: where the choice is
  stable and Delete knew it, there is no other kind); `SeenServed`, an attempt that
  was told of a server, and a Launched NodeClaim, had one (this gives
  LaunchedHasServer). One lemma per part, one step per action.
  `LeaseImplemented` needs the same invariant and `Posthumous`: what stands of an
  accepted NodeClaim's pools was built by a request that was late, and no attempt is left.
  For each action a lemma says which step of Lease it is for its NodeClaim, and
  that the others are kept.
* `PickTypeProofs`. The loop invariant: what was found is the first cheapest of
  the part seen. It ties the single step `StartCreate` to the code's two loops.
* `BidLadderProofs`. `StepUp`: from a rung the step leads to the next rung, with
  none between; so all rungs below the climber are too low. `StepsNearer`: every
  step lowers the pair of stages and cents left (`AlwaysNearer`), which is what
  makes the loop end; that it does end (`BidIsMade`) needs fairness and is left to TLC.
* `NodeLinkProofs`. `StepMaps`: each step maps to a step of Provisioning or
  leaves its variables alone. Then `NoOrphan`, the rest of the safety
  (`SafeByLinking`) and `Lease` (`LeaseByLinking`) follow by `Implements`.
  `LinkInv` adds that the Node the worker holds is a named one of the NodeClaim
  it holds, for ever. `LinkKept` uses `Exclusive`: a Launched NodeClaim has no
  attempt left to patch over the link.
* `InstanceTypesProofs`. `ProviderInv` has three parts besides types: `FetchInv`
  (who is in load past its lock holds `p.mu`, and nobody else does; who asks
  Rackspace does so with the list expired; what was withdrawn when it expired is
  not on the answer), which gives SomebodyGoesOn as well; `SmallestSeen`, which is
  inductive as it stands; and `AnswerInv` (a call knows only recorded reports, and
  what it has made of a class is at most each of them, which with
  `AllocatableMonotone` gives AnswersFitNodes). The lemmas are about `Step`, which
  allows any report, so that modules that extend InstanceTypes can use them.
  `CacheImplemented` has a lemma for each way a call of `load` ends (`EndOfLoad`,
  `TookSeen`), and one that the other callers and the cache look as before.
* `ControllersProofs`. Each step of Capacity and of NodeClassStatus is a `Step` of
  the provider, so that its invariant carries over, with the worker's own type.
  `StatusType` is what that of NodeClassStatus adds: the controller has no status
  to write while its call is under way; `NeverForgotten` is inductive with it.
  Both controllers' theorems stand in one module, and those about one
  assume of the constants of the other only what its module names.
* `InventoryProofs`. `ListInv` says by the stage of a List what it has taken of
  what was there throughout; `GetInv` that what a Get looks for is still there if
  it was throughout. `OutsideKeeps`: a Node that stays named stays of its pool.
* `PriceFeedProofs`. `Mutex` (one writer, who excludes all readers; a reader is at
  its check) and an order on versions; a fetch ends with no other fetch under way.
  SomebodyGoesOn follows from `Mutex`: a lock that is held is held by a call that
  is at a step which needs none. CacheImplemented: taking and leaving locks is a
  stutter, `ReadFresh` and `RecheckFresh` answer, `FetchLive` replaces, and
  `FetchFails` does the one or, with nothing cached, the other.

Every invariant and every action property of the passing runs is the subject of
a theorem. The type invariants have one each as well; where a type says no more
than what a variable ranges over, the theorem is all there is, and no run
repeats it. Only model-checked: all liveness (`DeletionCompletes`,
`ServedIsLaunched`, `EventuallyLinked`, `CallReturns`, `BidIsMade`,
`EventuallyMeasured`, `StatusCatchesUp`), which rests on fairness and ENABLED and
is out of TLAPS's reach here. What can be proved towards it is: `SomebodyGoesOn`
says that the callers of a cache never wait for one another in a ring,
`NeverForgotten` that the NodeClass is always to be reconciled again, and
`AlwaysNearer` bounds the steps to a bid. `BidLadder`'s agreement with floating
point is argued in the module.

## Not modelled, and why

* The lag of informer caches in nodelink and capacity: it adds a copy of every
  object and the moments at which each is brought up to date to what are the
  largest instances as they are. Both controllers only write what a later event
  writes again, from the same reads.
* Karpenter's own garbage collection and drift: a library. `Inventory` says what
  it is told, and `LoneNodeListed` and `GetFinds` when it is told right: with two
  Nodes for a NodeClaim, or a NodeClass that overrides the provider's labels, it
  may be told wrong.
* `IsDrifted` and `RepairPolicies` are constants. Start-up discovery, API types,
  CRDs, chart and workflows have no behaviour to check.
* Time: how long callers wait for a lock, and the ten seconds of each fetch while
  a stale feed cannot be refreshed.
