# A TLA+ verification of k8gobgp

k8gobgp runs one pod per node of a Kubernetes cluster. The pod holds a `gobgpd`
and a manager, the *agent*, that programs it from `BGPConfiguration` objects and
publishes what it sees as the node's `BGPNodeStatus`. This directory holds TLA+
models of the agent, the TLC runs that check them on small instances, and TLAPS
proofs of their safety properties for every value of the constants.

In the following C stands for `src/controllers/bgpconfiguration_controller.go`,
R for `src/controllers/bgpnodestatus_reporter.go`, I for
`src/controllers/router_id_resolution.go` and M for `src/controllers/metrics.go`. `PROJECT.json` maps every definition to
its lines.

## 1. Inventory

### Components

| Component | State | Operations | Talks to |
|---|---|---|---|
| Life cycle of a `BGPConfiguration` (`Reconcile`, C) | the object (specification, finalizer, `deletionTimestamp`, Ready), informer cache, work queue | get, elect, add finalizer, validate, apply, report, clean up, release | API server, all other agents through the object, the chain |
| The chain that programs gobgpd (C) | gobgpd's speaker, defined sets, policies, VRFs, peer groups, dynamic neighbors, peers, netlink | per kind: list, delete the unwanted, add, update; at deletion: delete what is named | gobgpd over gRPC, the Node for selectors |
| Node cache and router ID (I, C) | cached Node and its age, `localRouterIDCache` | get with retry, store, expire, invalidate, resolve, lock | Node watch, reconciler |
| `BGPNodeStatus` reporter (R) | atomics set by the reconciler, ticker, last status written, its time | ensure object, collect part by part, derive health, compare, sleep, write, mark shutdown | gobgpd, kernel, API server, reconciler |
| Neighbors and peer groups, field by field (C) | what gobgpd holds and reports of them, Secrets | convert, inherit, default, compare, re-send | gobgpd, Secrets, reporter |
| Global settings and netlink (C, M) | the settings of the running speaker, the restart flags, netlink of the speaker and of VRFs | start, compare, flag, enable, disable | gobgpd, kernel, Prometheus |
| Gauges (M) | `configuration_ready`, `configured_objects`, `global_restart_required` | set by passes, deleted with the object | life cycle, Prometheus |
| Validation (C) | none | a verdict on a specification | life cycle |
| Policies, defined sets, VRFs: conversion (C) | none | pure | the chain |
| Start-up and supervision (`src/cmd/manager/main.go`, `src/entrypoint.sh`) | processes | start controller and reporter together, cancel, restart both processes | all |
| Readiness probe, counters, netlink client | caches, counters | output only | probes, Prometheus, kernel |

The agents never talk to each other; they meet at the objects in the API server.
Inside an agent one worker runs `Reconcile` (`MaxConcurrentReconciles: 1`), one
goroutine runs the reporter, and informer handlers run beside both.

### What is hard

* **Several writers of one object.** All agents write the same finalizer and the
  same status, from caches that lag, with optimistic concurrency.
* **Election by cached lists.** Each agent decides alone which object is in effect,
  by creation times of one-second granularity.
* **Success that is not complete.** Single calls to gobgpd, and streams that break
  halfway, are only logged; a success is not retried.
* **Deletion.** The cleanup deletes what the specification names now, must be
  retried until it works, and then releases the object for every node.
* **Restarts** between any two calls, of gobgpd and the agent together.
* **Unlocked read and store** of the Node in the cache, with a watch that
  invalidates it in between.
* **Time.** The reporter's ticker, jitter and age limit; the cache's time to live;
  a retry loop that holds the only worker.
* **Comparison with resolved values.** gobgpd reports what it made of a
  configuration, with group values and defaults filled in. Too strict a comparison
  rebuilds sessions on every pass, too lax a one ignores edits.
* **Gauges beside the status.** They are set by the same calls that write the
  object, but not by the same writes.
* **Atomics stored one by one** by the reconciler and loaded one by one by the
  reporter.

`PROJECT.json` lists the hazards one by one, at their lines.

### What makes each component correct

* Life cycle: no user's write is undone; gobgpd is programmed only under the
  finalizer; cleanup is complete before release; the object in effect stays in
  effect, is spared by the cleanup of others, and is applied in the end; a deletion
  completes, unless its cleanup can no longer succeed (section 4).
* Chain: after a success gobgpd holds exactly what is asked for; sessions accepted
  from a dynamic range survive; only the right speaker is programmed; it settles.
  To the life cycle it looks like one step that keeps a contract.
* Neighbors, groups, netlink, global settings: what is stated is in effect, what is
  no longer stated is back at its default, authentication is on or off as stated, a
  further pass has nothing to send; what only a restart can change is flagged.
* Gauges: none of an object that is gone; 0 means a retry is due; 1 speaks of the
  object as it is.
* Node cache and router ID: copies are recent, labels take effect, the router ID
  never changes under a running speaker, a hashed one is usable, the worker is not
  held for ever.
* Reporter: a change is published in bounded time with a true health and one
  identity; `lastUpdated` advances; the memory that suppresses writes is what the
  object holds; a cancelled agent stops.

## 2. Modules

| Module | Models | Extends |
|---|---|---|
| `ConfigLifecycle` | `Reconcile` on every node, users, API server, caches, queues | |
| `MCConfigLifecycle` | symmetry of nodes, for its runs | `ConfigLifecycle` |
| `ConfigLifecycleProofs` | theorems about writes and the finalizer | `ConfigLifecycle`, TLAPS |
| `ConfigElectionProofs` | theorems about the election and what is left to do | `ConfigLifecycleProofs` |
| `AgentMetrics` | the gauges of each agent, composed with the life cycle | `ConfigLifecycle` |
| `MCAgentMetrics` | symmetry of nodes and of objects | `AgentMetrics` |
| `AgentMetricsProofs` | theorems | `AgentMetrics`, `ConfigElectionProofs` |
| `PassContract` | abstract: what a pass over gobgpd promises | |
| `GobgpdSync` | the chain and `reconcileDelete` of one agent against one gobgpd; implements `PassContract` | instance of `PassContract` |
| `MCGobgpdSync` | specifications to move between | `GobgpdSync` |
| `GobgpdSyncProofs` | theorems, the refinement among them | `GobgpdSync`, TLAPS |
| `PeerFields` | the fields of a neighbor and its group: conversion, inheritance, comparison, passwords | |
| `MCPeerFields` | neighbors and groups to move between | `PeerFields` |
| `PeerFieldsProofs` | theorems | `PeerFields`, TLAPS |
| `SpeakerSettings` | secondary global settings with their restart flags, and netlink | |
| `MCSpeakerSettings` | settings to move between | `SpeakerSettings` |
| `SpeakerSettingsProofs` | theorems | `SpeakerSettings`, TLAPS |
| `NodeCache` | Node cache, watch, retry loop, router ID; its run uses it directly | |
| `NodeCacheProofs` | theorems | `NodeCache`, TLAPS |
| `NodeHealth` | what a collection finds and the health it derives (pure) | |
| `NodeStatusReporter` | `Start`, `collectStatus`, `writeStatus`, `markShutdown`, `UpdateConfig` | `NodeHealth` |
| `MCNodeStatusReporter` | worlds to move between | `NodeStatusReporter` |
| `NodeStatusReporterProofs` | theorems | `NodeStatusReporter`, TLAPS |

Definitions whose comment begins with *Mutant* are variants with a plausible bug.
No specification uses them; each shows that a property can fail.

### ConfigLifecycle

`api` is what the API server stores, `cache` what each agent sees of it. A
`resourceVersion` matters only for being the current one or not, so it is one bit
per copy: `stale` for cached copies, `op.fresh` for the copy a call works on. A
write needs a fresh copy (`Write`); otherwise it is a conflict (`Refused`). A
specification is the set of gobgpd objects it names, and validation a verdict on
it. A call of `Reconcile` is a record `op` that moves through steps:

| Action | Code |
|---|---|
| `Get`, `List` | `r.Get`, `electOwningConfig` (which lists the cache again) and the branches that follow |
| `AddFinalizer` | `controllerutil.AddFinalizer`, `r.Update`, explicit requeue |
| `ApplyAll`, `ApplyFails` | the chain as one step: complete, or incomplete, stopped with an error or ending in success with only log lines (`silent`) |
| `ReportSuccess`, `ReportFailure` | `Status().Update` and what is requeued after it |
| `Cleanup`, `CleanupFails`, `RemoveFinalizer` | `reconcileDelete`, and the release of an object that is not in effect |
| `CallFails`, `Restart` | errors of the API server or the connection; the container's restart |

A call is split where another actor can come between: at the two reads of the
cache, at the programming of gobgpd and at the write. A write that was accepted
though its reply was lost only causes one more pass, and is left out.

`Cleanup` deletes what the specification names and asks gobgpd first only about
`Neighbors` (C:1102-1116). A peer group, range, VRF, policy or set that gobgpd does not
have is an error (C:1118-1156), so the finalizer stays and the cleanup is tried again,
for ever if need be. `silent` is a history variable that the code does not have: the
last pass of this agent logged refused calls and reported success (C:2146).

### AgentMetrics

Each action of an agent in `ConfigLifecycle` is conjoined with what the same code
does to the gauges: `Getting` drops them when the object is not found, `Applying`
counts what the specification names, `Reporting` sets `configuration_ready` after
the status write (on success only if the write was accepted, on failure in any
case), `Releasing` deletes them before the finalizer goes, `Restarting` forgets
them. Counters and histograms are left out.

### GobgpdSync and PassContract

One action per call that lists and one for the calls that follow it, link by link
in the order of `Reconcile` (`Following`). gobgpd is a function from names to
versions; two versions differ in a field that the code's comparison looks at. What
an object refers to (a peer its group, a policy its sets) is `Uses`. `Strict` says
that gobgpd refuses to delete an object in use; this is taken from the code's own
"must be done before peer groups" (C:1082). Node selectors are evaluated when their
link runs. `SyncFails`, `ListFails`, `SyncNetlinkFails`, `SyncNetlinkMisses`,
`CleanupFails` and `GlobalFails` are the failures of single calls, streams and
whole links, each with the effect it has before it fails. `silent` is a history
variable: some failure of this pass was merely logged.

`PassContract` is the step that `ConfigLifecycle` takes a pass for, with everything
about calls left out: gobgpd gains only what the copy names; a success leaves
nothing else unless a failure was only logged; a stopped pass says so, or has not
touched gobgpd; a cleanup takes only what the object names and releases it when
that is gone. `PassesKeepContract` says that `GobgpdSync` implements it under the
mapping at the end of the module (`held` is the domain of gobgpd's objects, `clean`
is `~silent`). It is checked by TLC and proved. This is what justifies the single
steps `ApplyAll`, `ApplyFails` and `Cleanup`.

### PeerFields

One neighbor and one peer group. A field has a value, zero, or is not stated;
`Plain`, `ZeroIsUnset`, `Pointers` and `Blocks` say which of these a field can tell
apart and what the converters send. What gobgpd makes of it (`InEffect`: the group's
value where the member claims nothing, defaults for zero) is external and taken from
the code's comments and round-trip tests. `Skips` is the heart of `peerConfigEqual`:
the fields on which the object has no opinion. `sound` is a history variable: no
call was refused and nothing changed since the pass read the object; the properties
speak of states at rest after such a pass (`AtRest`).

### SpeakerSettings

A pass is five steps: `reconcileGlobal`, which starts the speaker or flags what a
restart would change, netlink import, netlink export, and both for a VRF. gobgpd
takes netlink settings while it runs and reports them with its defaults
(`EnableNetlinkImport`, `EnableNetlinkExport`, `EnableVrfNetlinkExport`). `Release`
and `NotFound` are the two ways an object goes. Fields that the code treats alike
are represented by one: the comments at `globalDriftFields` and the blocks say which.
The settings are those of the metric (`globalDriftFields`); `PartsOf` has the fields of
each, and `Uncompared` the field of the graceful restart block that is sent and not
compared.

### NodeCache

The reconciler's path to its own Node is split at every point where the watch can
invalidate the cache: `Lookup`, `Fetch`, `Store`. A pass reads the Node up to three
times, for the router ID and then for the selectors of the peer groups and of the
neighbors (`Selected`; C:1984, C:2068), and may get a different copy each time.
`Relabel` and `Populate` change the Node; only the first makes an event. `Resolve` is
`resolveEffectiveRouterID` with its lock, `StartBgp` the check of a running
speaker. `Offset` is the hash arithmetic with its width.

### NodeHealth and NodeStatusReporter

A *world* is what the calls of a collection would find. `NodeHealth` says which
status each call may return (lists are cut to their caps, in no promised order) and
what `deriveHealth` and `statusEqual` make of them. `NodeStatusReporter` is the
goroutine: start-up, ticker, one step per part collected, comparison, jitter and
write, with the atomics stored one by one by `Store`. `Broken` is what failed calls
leave of a part: the prefix of a stream that broke, routes and addresses that read as
not installed because the kernel's list could not be had, or nothing. Time is discrete; the clocks
are relative and saturate, so behaviours are unbounded.

## 3. Runs that pass

| Run | Properties | What it shows |
|---|---|---|
| `LifecycleWrites` | `ReleaseIsClean`, `ProgramsUnderFinalizer`, `AgentsKeepUserWrites`, `GoneIsSilent`, `NotReadyIsRetried`, `ReadyIsCurrent`, `ReadyMeansApplied` | two agents and users on one object, with failures and restarts: writes of whole objects undo nothing, cleanup precedes release, gobgpd is programmed under the finalizer; an agent rests only when its gauges are gone with the object, or it exports 1 and has applied the object as it is; a Ready that any agent wrote is true of every agent at rest, unless that agent's own last pass logged refused calls |
| `LifecycleElection` | `CleanupSparesOwner`, `OwnershipMovesOnlyInATie` | lagging agents elect among objects of the same or of different seconds: ownership moves only in a tie, and only in a tie can a cleanup hit what the owner programmed |
| `LifecycleLive` | `GoneOnlyAfterCleanup`, `Converges`, `DeletionCompletes` | one agent, two objects created three times, one of a neighbor and one of another kind, a rejected specification, two faults: a programmed object goes only after a cleanup; the object in effect is applied in the end, unless the last pass logged refused calls; a deletion completes, unless the cleanup is `Wedged` |
| `SyncExact` | `SuccessIsExact`, `DynamicSessionsSurvive`, `RightSpeaker`, `ReleasedIsEmpty`, `Settles`, `PassesKeepContract` | edits, label changes, another identity and deletion in the middle of passes, failed links, broken streams, failed calls, restarts: a success without logged failures is exact, and the chain implements the contract of a pass |
| `PeerFields` | `TypeOK`, `StatedTakesEffect`, `ClearedIsReset`, `AuthenticatedAsStated`, `NothingToResend` | one part for each way the code compares fields (AS path options, the transport and BFD blocks, the password), stated, zero, absent and supplied by the group, edited into one another; Secrets set and missing, refused calls, restarts. The other fields are in the proofs only |
| `SpeakerSettings` | `FlagsAreTrue`, `NetlinkAsStated`, `NetlinkIsQuiet` | settings edited, undone, deleted and created again over a running speaker, with failures and restarts: the flags are true of every setting of the metric but for the two kinds of field that `FlagsAreTrue` names |
| `NodeCache` | `TypeOK`, `CopyIsRecent`, `HashInPool`, `IdentityIsStable`, `LabelsTakeEffectUnlessRaced`, `WorkerIsFreed` | the watch, expiry, recreated objects, restarts and a failing API server race with the reconciler; see below |
| `ReporterPublishes` | `TypeOK`, `ChangeIsPublished`, `HeartbeatAdvances` | bounded delay through conflicts, errors and lost replies, with jitter and collections that take time |
| `ReporterReconfig` | `MemoryIsPublished`, `ChangeIsPublished` | atomics change under a collection that takes time and whose end resets the ticker, `ListPeer` fails, writes are refused |
| `ReporterStops` | `StoppedIsMarked`, `ChangeIsPublished`, `CancelStops` | a cancelled agent stops, wherever it is, and has marked its object; one that was restarted finds the object of its predecessor and still publishes within the bound |

The types of `ConfigLifecycle`, `GobgpdSync` and `SpeakerSettings` are proved for every
value of the constants (section 7), so no run repeats them.

Two properties of `NodeCache` name the one way in which they can fail, with a
history variable that the code does not have: `raced` records that an event was
handled between a read of the Node and the store of it, `dropped` that
`reconcileDelete` dropped the locked router ID of a running speaker. The run shows
that there is no other way.

Runs of `ConfigLifecycle`, `GobgpdSync` and `SpeakerSettings` do not check deadlock:
an agent whose queue is empty rests, and users stop at their bounds. In the others
time, or the Node's events, go on, and deadlock is checked.

## 4. Where the code differs from what is written about it

Two runs end in a violation of what a comment of the code says; the quotations are
in `PROJECT.json`.

* `FindSharedFinalizer`: the first agent to clean up releases the object; the others
  get NotFound and keep what they programmed (C:1220).
* `FindCleanupRetryWedged`: gobgpd holds the peer group and the VRF of an object that
  is deleted. One of the two deletions is refused; the retry deletes the other, and
  fails on the one that is already gone, as does every later retry, so the finalizer
  stays for ever (C:1128). The code describes this very deadlock for neighbors
  (C:1088-1096), which it has looked up first since; this rests on gobgpd answering the
  deletion of any other unknown object with an error, as it does for neighbors. A peer
  group that was never programmed on this node, because a selector keeps it off or the
  object is deleted before it is first applied, wedges at the first attempt; so does any
  such object after a restart. `LifecycleLive` has these cases, and its
  `DeletionCompletes` excepts them by name (`Wedged`).

Other differences were met while modelling. The models contain them as the code has
them; the properties above are stated so as to hold in spite of them, or the
specifications of a run avoid them.

* An edit that is not applied before a deletion: what the old specification named
  stays (C:1106). `ReleaseIsClean` and `GoneOnlyAfterCleanup` speak of what the
  stored specification names.
* An object created later in the same second, with a smaller name, takes ownership
  (C:768; C:750 says "never"). The loser is not queued, is not told, and does not
  take over when the winner is deleted. Liveness runs create objects in different
  seconds.
* A single call that gobgpd refuses is logged, Ready is written, and nothing retries
  (C:2146). The runs have such passes; `ReadyMeansApplied`, `Converges`,
  `SuccessIsExact` and `Settles` except the agent whose last pass was one (`silent`),
  the other properties do not.
* A peer group removed in one edit with its last neighbor is swept before it, is
  refused if gobgpd is strict, and stays (C:2011). `SyncExact` has such an edit; the
  refusal counts as a failure that was merely logged.
* A removed static neighbor whose address lies in a dynamic range stays (C:2122).
* A VRF's netlink block, or `applyPolicy`, is removed and its effect stays (C:2551,
  C:1817). `Exact` asks only for those that are there.
* A label change handled between a Get and its store is lost until the next
  unrelated pass (I:280).
* An object deleted and created again may resolve another router ID than the running
  speaker's, and then every pass fails (C:1212).
* With an unchanged status every second heartbeat is skipped, because the age of the
  last write is measured from after a collection (R:873), while
  `src/api/v1/bgpnodestatus_types.go:330` calls a heartbeat "the interval for
  unconditional status writes even when state is unchanged". `HeartbeatAdvances` bounds
  the age by two heartbeats for this reason.
* A change may take one heartbeat and two collections to be published, not one of
  each: a change of the heartbeat that the loop notices at the end of a collection
  resets the ticker (R:198), so a tick already due is lost. An attempt to prove a
  shorter bound failed, and TLC then showed the behaviour; `ChangeIsPublished` states
  the bound that holds, and `ReporterReconfig` has collections that take time so as
  to reach it.
* A part whose call failed, or a list that was cut to its cap, hides a neighbor that
  is down, and the node reads healthy (R:322, R:328). `ChangeIsPublished` speaks of
  the time after the last failure, and the caps of the runs are not exceeded.
* A failed list of kernel routes reports every exported route of that family as not
  installed (R:1193-1197), and a RIB stream that breaks is published as far as it came
  (R:598-608).
* A disabled reporter still creates its object, makes the first write and marks the
  shutdown (R:177); its defaults may overwrite a configuration already passed
  (R:151); the only attempt to mark the shutdown may be refused (R:276).
  `StoppedIsMarked` assumes a cache that keeps up and an API server that answers.

Neighbors and groups (`PeerFields`):

* The AS number of a neighbor in a group is never compared (C:277), also where the
  group states none and gobgpd keeps the member's. The comment (C:273) says "so there
  is nothing to detect either", but an edit of the member's `peerAsn` is then never
  applied. `StatedTakesEffect` leaves this field of grouped neighbors out.
* A block removed from a neighbor in a group is not noticed unless something else
  changes, yet is reported as inherited (C:365-391; `src/README.md:321` "Omit the
  block to inherit it"). `routeReflector` and `ebgpMultihop` are skipped too although
  a group cannot supply them. `ClearedIsReset` speaks of neighbors without a group, and
  no property is stated about what is reported as inherited.
* Removing a password altogether leaves it in effect; a Secret that changes from one
  value to another is never sent again; a group's password and edits of prefix limits
  and add-paths are never detected.
* The event `PeerAsnOverridden` is not emitted by the pass that adds the neighbor.

Global settings and netlink (`SpeakerSettings`):

* `gracefulRestart.helperOnly` is sent (C:3293) and not compared; `deferralTime` is
  compared and never sent (C:1568). A change of `helperOnly` alone is not flagged,
  while M:164 says "globalRestartRequired is 1 for each global setting whose value in
  the CR differs from what gobgpd is running". `FlagsAreTrue` names it as an exception
  (`Uncompared`).
* Clearing `listenPort`, `listenAddresses` or `families` is never flagged, the second
  exception of `FlagsAreTrue` (`Guarded`), and
  clearing `dampeningInterval` or `routeProtocol` alone is not noticed.
* The name of an export rule is "a unique identifier" (`src/api/v1/types.go:79`),
  which nothing enforces. Two rules of one name are sent again on every pass, or hide
  a removal. The properties ask for unique names.
* The metric of a rule is compared as it stands though its documentation has a
  default; the model assumes that gobgpd reports what it was sent.
* Netlink that an edit switches off shortly before the deletion stays on, if the edit
  was not applied: cleanup disables only what the specification has on (C:1157).
* A VRF's export that cannot be read back is not switched off, and an error in
  switching it off is only logged (C:2526, C:2634); the pass succeeds.

Gauges (`AgentMetrics`):

* An agent that finds the object gone drops `configuration_ready` and
  `configured_objects`, but not `router_id_info`, `global_restart_required` and the
  entry of `localRouterIDCache` (C:788 calls the branch "Redundant but harmless").
* The series of `router_id_info` is deleted with the ASN at deletion time (C:132), so
  the one of an earlier ASN stays.
* `Reconcile` sets the connection gauge to 1 after a lazy `grpc.NewClient` (C:869),
  which does not connect, although M:285 leaves the gauge to the readiness check.
* A failed dial leaves both the condition and the ready gauge as they were (C:861).

## 5. Bounds

* Two nodes are enough for any race between agents, which meet only at one object;
  two objects for any election; three creations for one to be recreated.
* `MaxCreates`, `MaxEdits`, `MaxFaults`, `MaxChanges`: zero to three. A fault or an
  edit may fall between any two steps, and two of them into one pass. Liveness
  properties rely on the bounds only to say that users and faults come to rest.
* `PeerFields`: three values (zero, the default, another), two edits and one fault;
  the neighbors and groups differ from a plain one in one part at a time, each part in
  every way the code tells apart. `SpeakerSettings`: likewise, with three edits, so
  that a setting is changed and changed back, or an object deleted and created again
  and edited; two rules in both orders, with one name and with two.
* `GobgpdSync`: one object of each kind and three peers (in the group, alone, from
  the range), which covers each reference between kinds; two versions.
* `NodeCache`: `TTL` and `Deadline` of one unit, `Width` of 4 bits with prefix
  lengths 0 and 2, so the overflow of /0 happens, and the largest hash. A template
  with an address that may be missing, one with an annotation that may be
  malformed, and automatic detection.
* Reporter: heartbeats of 2 to 4 units, where a unit stands for some seconds (60
  seconds, the default, are 4 units), jitter of up to a quarter of the heartbeat,
  collections of up to 1 unit, caps of one or two. Clocks saturate beyond two
  heartbeats and two collections, further than any property looks. A reporter that is
  disabled and enabled again is in `ReporterStops` and in the proofs, which have no
  bounds; with it `ReporterReconfig` would take several times as long.

## 6. Fairness

* `ConfigLifecycle`: weak for the delivery of watch events and the next step of a
  call. Strong for taking a given request: the queue is a FIFO, so a request is not
  passed over for ever, although it is not continuously takeable, the worker being
  busy with others in between.
* `GobgpdSync`: weak for the agent's steps. Failures and users are not fair.
* `NodeCache`: weak for the worker, the informer and time.
* `NodeStatusReporter`: weak for the goroutine, the reconciler's stores, the watch
  and time.

These are what the Go scheduler, the informer and the workqueue guarantee. No
fairness is asked of users, faults, restarts or gobgpd's peers.

## 7. Proofs

All theorems hold for any sets of nodes, objects, names, values and specifications
and any bounds, from the assumptions stated beside the constants: bounds are
naturals, specifications are well formed, `Nil` and `None` are no values.

| Module | Theorem | States |
|---|---|---|
| `ConfigLifecycleProofs` | `TypeCorrect`, `ReleaseClean`, `UnderFinalizer`, `UserWritesSurvive` | `TypeOK`, `ReleaseIsClean`, `ProgramsUnderFinalizer`, `AgentsKeepUserWrites` |
| `ConfigElectionProofs` | `OwnershipIsStable`, `CleanupSpares`, `GoneAfterCleanup`; `ReadyIsApplied` if `~Ties` | `OwnershipMovesOnlyInATie`, `CleanupSparesOwner`, `GoneOnlyAfterCleanup`; `ReadyMeansApplied` |
| `AgentMetricsProofs` | `GoneSilent`, `NotReadyRetried`; `ReadyCurrent` if `~Ties` | `GoneIsSilent`, `NotReadyIsRetried`; `ReadyIsCurrent` |
| `GobgpdSyncProofs` | `TypeCorrect`, `RightSpeakerOnly`, `Released`, `SessionsSurvive`, `PassesImplementContract`; `SuccessExact` if `Disjoint` | `TypeOK`, `RightSpeaker`, `ReleasedIsEmpty`, `DynamicSessionsSurvive`, `PassesKeepContract`; `SuccessIsExact` |
| `PeerFieldsProofs` | `TypeCorrect`, `Stated`, `Cleared`, `Authenticated`, `Idempotent` | `TypeOK`, `StatedTakesEffect`, `ClearedIsReset`, `AuthenticatedAsStated`, `NothingToResend` |
| `SpeakerSettingsProofs` | `TypeCorrect`, `TrueFlags`, `Netlink`, `Idempotent` | `TypeOK`, `FlagsAreTrue`, `NetlinkAsStated`, `NetlinkIsQuiet` |
| `NodeCacheProofs` | `Recent`, `StableIdentity`; `TypeCorrect`, `HashedInPool` if `Width = 32` | `CopyIsRecent`, `IdentityIsStable`; `TypeOK`, `HashInPool` |
| `NodeStatusReporterProofs` | `TypeCorrect`, `Remembered`, `Marked`, `HeartbeatKept`; `ChangePublished` if `Uncapped` and `NilApart` | `TypeOK`, `MemoryIsPublished`, `StoppedIsMarked`, `HeartbeatAdvances`; `ChangeIsPublished` |

A theorem with an "if" has the form `Spec => [](H => P)`. The hypotheses, and what would
fail without them (in the property, or for `Width` only in the proof):

* `~Ties`: no two objects are created in the same second. Otherwise a later object
  may take over, and the loser is not told (section 4).
* `Disjoint`: no specification configures a neighbor whose address is in a range that
  peers may be accepted from. Such a neighbor is spared when it is removed.
* `Width = 32`, the width of an IPv4 address. The bound on the hash needs the powers
  of two to grow, which for every width is an induction; here they are computed, one
  prefix length at a time.
* `Uncapped`: the neighbors and routes of every world fit the caps of the status, so
  that no part is cut. A cut list hides a neighbor that is down.
* `NilApart`: the `Nil` of an absent status or part is no status and no part. TLC
  takes it for granted of a model value.

The runs of these properties satisfy the hypotheses, `Width` excepted, which `NodeCache`
sets to 4. `LifecycleWrites` has `Ties` off; `LifecycleElection` has it on, and the two
theorems it goes with ask for nothing.

Each module has a theorem for its inductive invariant (`Invariance` for `IInv`, and
`StableElection`, `NothingForgotten`, `ExportsCurrent`, `LinksSettle`, `Timed`,
`Aging`, `Publishing` for those built on top of it), with one
step or lemma per action. Why the properties alone are not inductive:

* Life cycle: what an agent writes is computed from a copy read several steps
  earlier, so one must know that a copy believed current *is* current
  (`CopiesAreCurrent`), and what the steps before established about it: its request
  is known, it carries the finalizer, the cleanup left nothing it names
  (`CallsAreSound`). `UserWritesSurvive` then follows because an accepted write
  differs from the stored object only in the fields it sets.
* Election: an agent elects among copies that lag. A copy is of an object that was
  once stored, and is no younger than what is stored under its name (`Known`); an object
  missing from the copies is no older than those among them (`Lagging`), and a call
  works on a copy no newer than the cache's (`Behind`). From this an agent that applied an object which still exists
  knows of none older (`Stays`), so a cleanup of what the owner programmed is the
  owner's own, or that of an object of the same second. That there is an owner at all is the
  existence of a least element (`WFMin`), the order being by second, then name.
* What is left to do: a copy that differs from the stored object has an event under
  way, and a call that works on such a copy has its object queued (`Notices`). With
  what each branch of `Reconcile` has done so far (`Branches`) an agent that has
  neither event, request nor call for an object has applied it, as it is
  (`Remembers`): an object that does not own gobgpd stays queued. `ReadyMeansApplied`
  and the gauges follow.
* Finalizer: an agent puts the finalizer on, or applies, only the oldest object there
  is (`ElectsOldest`), so no object is older than one that carries it (`Finalized`),
  stored or cached, and an object that some agent applied and that still exists carries
  it (`Guarded`). Hence a user's deletion alone does not remove that object, and without ties
  an object that an agent releases as ignored is not the stored one any more
  (`Guarded`), so its write is refused. What is left is the release after a cleanup,
  whose gobgpd holds nothing of the object (`CallsAreSound`).
* Gauges: what is exported is what the last call for the object found, or the object
  is queued or being worked on (`Exported`). `MetricsSpec` implies `Spec` of the life
  cycle, so the invariants above are at hand.
* Chain: between its start and its end a pass relies on the identity it checked and
  the copy it took (`PassInv`), and a success is exact only because every sweep left
  nothing unwanted of its kind and no later one brought it back (`SweepInv`, the
  strengthening that carries `Succeed` of the contract). The refinement maps each
  action to a step of `PassContract` or a stutter.
* Exactness: beyond what must be gone, each link leaves what must be there, in the
  version of the pass. The invariant says what is on the list that a link has
  read (`ListInv`), what is settled past each link of a pass whose inputs have not
  changed (`ProgressInv`), that a clean pass at rest has it all (`RestInv`), and that
  only names which users wrote reach gobgpd (`OriginInv`). It must also follow
  that no later link disturbs an earlier one: sweeping a group drops no neighbor that
  is wanted.
* Neighbors and groups: the group is settled before the neighbor and not touched
  after it, so the invariant has what holds past each part of a sound pass
  (`GroupDone`, `PeerDone`), both as "equal in every compared field"; the properties
  follow by cases on the kinds of fields.
* Speaker settings: likewise with a part per service (`GlobalDone` ... `VrfExportDone`),
  and `Off` for an object that is gone. That lists of rules which match hold the same
  rules is a pigeonhole argument: a one-to-one map from as many rules to as many
  (`MatchingRulesAgree`).
* Node cache: the age of the cached copy bounds the time since the Node changed, and
  a copy is stored in the instant it was read (`Dated`); an entry is missing under a
  running speaker only if it was dropped (`Locked`).
* Reporter: before the first write there is nothing to remember, and a cache that
  does not lag holds the object as it is (`NothingYet`, `CacheKeepsUp`). The timed
  properties rest on `Left`, the longest time until the next attempt to write is
  over, from wherever the loop is. A step either lets a unit pass and so shortens
  `Left`, or goes on in no time, or ends an attempt, or is a change or a fault, which
  restarts the clock that the property reads (`LoopSteps`, the classification into
  `Elapses`, `Proceeds`, `Skips`, `Wrote`, `Failed` and `Disturbed`). So an old
  object means a recent failure (`AgesInv`, `HeartbeatInv`), and after a quiet time
  the atomics agree (`AgreeInv`), what is collected is the world (`StatusInv`), and
  what was written is what was collected (`MemoryInv`).

Only model-checked: the properties under fairness, which is out of the prover's reach
(`Converges`, `DeletionCompletes`, `Settles`, `LabelsTakeEffectUnlessRaced`,
`WorkerIsFreed`, `CancelStops`); and `HashInPool` for widths other than that of an
address.

## 8. Not modelled

* The contents of policies, defined sets and VRFs, whose conversion is pure and which
  the code sends again without comparing (VRFs: never); the formats of community
  strings, route distinguishers and addresses in validation.
* Counters, histograms and `router_id_info`; the readiness probe; the netlink client;
  generated deep copies; pod annotations and events.
* `BGPNodeStatus` being deleted by someone else.
* The inside of the RIB and VRF summaries.
* That two agents which conflict on one object both come to rest: that neither rests
  too early is `NotReadyIsRetried` and `ReadyIsCurrent`, that retries end is checked
  for one agent (`Converges`).

## 9. Plan

Done: life cycle and gauges, the chain and its contract, neighbors and groups, speaker
settings and netlink, Node cache, reporter; the theorems of section 7. What is left,
in order of worth:

1. An abstract specification of what a cluster promises (one object in effect, each
   gobgpd programmed from some version of it), refined by `ConfigLifecycle`: the
   invariants of `ConfigElectionProofs` are what its refinement needs.
2. A weaker hypothesis: `SuccessIsExact` for neighbors in a range that were never removed.
3. A composition of the end of a pass with the reporter: success, `UpdateConfig`,
   and the status that follows.
4. Validation of field formats as operators, where control depends on them.
