# Remote Sync in TLA+

Specifications, model-checking runs and proofs for Remote Sync: one Unfolded
Circle remote (the *Primary*) mirrors its configuration to others (the
*Satellites*).  This file says what is modelled, how the definitions correspond
to the code, and what the runs and the proofs show.  Paths are relative to
`src/src/` unless they begin with `src/`.

## 1. The system

Every remote runs the same Node.js driver next to its *Core*, the vendor's
software that owns the configuration and offers it over REST and a WebSocket.
One driver is the Primary (role `master` in the code), the others are
Satellites (`child`).  JavaScript runs one task at a time: a piece of code is
interrupted only where it awaits, and all concurrency lies between awaits.

| Part | State it keeps | Operations | Interacts with |
|---|---|---|---|
| Scheduler, service/index.js | `syncing`, `configurationRevision`, `trailingSyncRequested`, `status`, timers (event, initial, periodic, one retry per Satellite) | `configure`, `stop`, `syncNow`, timer callbacks | all below, by calls and callbacks |
| Snapshot coordinator, service/sync-coordinator.js | the snapshot `cache` | `buildSnapshot`, `pushSnapshot`, `previewPeer`, `syncSinglePeer` | builder; Satellites over HTTP |
| Snapshot builder and reader, protocol/snapshot.js | the build in progress | `build`, `#checkpoint`; `read` | Core REST |
| Event watcher, core/events.js | connection, debounce timer, pending requests | `run`, `stop`, `request` | Core WebSocket; scheduler and activity callbacks |
| Activity synchronization, service/activity-sync.js | revisions, last observed and pushed states; applied versions, queues, suppressions | `broadcast`, `initialize`; `apply`, `forward`; `clear` | Core events; Satellites over HTTP; relay entity |
| Satellite manager, service/satellite-manager.js | runtime registry, update set | `refresh`, `action` (sync, enable, rotate, unpair, remove, ...), `autoUpdate` | Satellites over HTTP; configuration file |
| Provisioner, service/satellite-provisioner.js | one job per address | claim and install by PIN | a Satellite's Core |
| Agent server, agent/server.js | PIN failure counters | one handler per endpoint | callbacks of the scheduler |
| Snapshot application, apply/ | report, mappings, operation cache, proxy catalog | `apply`, `preview`, `purge` | Core REST; three files |
| Core client, core/client.js | collection path, wake attempts | `request` with wake and retry, pagination, standby inhibitor | Core REST |
| Dock proxy, dock/proxy.js | tunnel sessions | virtual Dock server, tunnel, `relayPeers` | WebSockets on three sides |
| WebSocket transport, transport/websocket.js | frame parser, close handshake | connect, send, close | TCP |
| Integration, integration/ and setup/ | entities, setup step | driver API, entity commands, setup forms | Core; scheduler |
| Pairing and discovery, pairing/, network/ | mDNS cache | `resolve`, publish; network identity, wake-up | UDP |
| Web interface, web/ | login sessions and limiter | dashboard requests | scheduler |
| Configuration, config/, storage/ | files written atomically | load, save | file system |

What is hard, and what makes each part correct:

- **Scheduler.** Timers, event batches, requests, a lock that drops what comes
  while it is held, failures and restarts interleave.  Correct means: no change
  of the Core is written off, no wake-up is lost for ever, and in the end every
  enabled Satellite has what the Core has.
- **Builder and coordinator.** A build is many requests to a Core that may be
  edited in between, and its result outlives it in a cache.  Correct means: a
  snapshot that passes as current is neither torn nor outdated.
- **Activity synchronization.** Rounds of pushes overlap, answers are lost,
  updates are repeated or overtaken, and both sides restart; applied updates
  cause commands back.  Correct means: a Satellite applies updates in order,
  ends in the state of the Primary, and an update does not come back.
- **Delivery and application.** A push may time out while it is being applied,
  be repeated, or meet a crash half way; a Satellite sleeps or gets another
  address.  Correct means: a success that is recorded was carried out, an object
  is written once and found again, and what is answered with success is there.
- **Pairing, rotation, removal.** Two machines change their credentials in one
  exchange that may be cut.  Correct means: they never end up unable to talk.
- **Configuration.** One object, cloned before and saved after an await by
  several operations, and put back by restarts.  Correct means: no operation
  undoes another, and every restart ends.
- **Setup and provisioning.** API keys are created on a remote long before they
  are used, by a dialog and by another remote's job.  Correct means: a key in
  use exists, unused ones do not pile up, every job ends.
- **Tunnels and sockets.** Either end may close at any moment.  Correct means:
  nothing stays open or registered, and every request is answered or rejected.

## 2. The modules

| Module | Content |
|---|---|
| `SyncScheduler` | Scheduler, cache, builds, retries, periodic refresh, watcher, as one state machine |
| `SyncSchedulerProofs` | Types; snapshots of the current revision are whole and current; no change is written off; pending changes keep their wake-up |
| `ActivitySync` | Primary, network and Satellites of the activity synchronization |
| `ActivitySyncProofs` | Types, with every request's push waiting for it; updates are applied in order and never take a Satellite back; Satellites agree with the Primary; no echo |
| `SatelliteMirror` | Abstract: what a Satellite promises to those who post it snapshots |
| `SatelliteApply` | The application and removal of snapshots, call by call; it implements `SatelliteMirror` |
| `SatelliteApplyProofs` | `SatelliteApply` implements `SatelliteMirror`; objects stay tracked, proxies of the catalog stay |
| `SnapshotDelivery` | Pushes, their retries, wake-ups and discovery, against a Satellite that is `SatelliteMirror` |
| `SnapshotDeliveryProofs` | Types; a push recorded as a success was carried out |
| `PeerRegistry` | The Primary's configuration, the operations on it, its restarts; the Satellites' side of pairing |
| `PeerRegistryProofs` | Types; no change is lost; Primary and Satellites agree on tokens |
| `CoreSession` | The WebSocket sessions and HTTP requests to the Core, and the event watcher |
| `CoreSessionProofs` | Types; changes are sent once; calls share one session |
| `DockTunnel` | The chain of connections from a Satellite's Core to a Dock of the Primary |
| `DockTunnelProofs` | Types of `DockTunnel`; which tokens reach a Dock |
| `Provisioning` | The setup of a remote and a Primary's job that adds it |
| `ProvisioningProofs` | Types; keys in use exist; no key is forgotten |
| `MC...` | Instances of the module of that name for its runs |

Two modules are one system in two layers.  `SatelliteApply` says how a snapshot
gets onto the Core; its property `ImplementsMirror` maps the job under way, the
parts of each snapshot that the Core lacks, the items its report has warned of,
the operations carried out and the last answer to the five variables of
`SatelliteMirror`, and says that every step is a step of that module or leaves
it alone.  `SnapshotDelivery` extends
`SatelliteMirror`: its Satellite does what the abstract module allows, and what
it shows of pushes therefore holds of the detailed one.

A definition with a comment that begins "Faulty" is a variant of the one below it
with a plausible mistake.  No specification uses it; put in the place of the
correct definition, it must break a property, which shows that the property sees
such mistakes.  Variables and definitions marked "history" or "auxiliary" record
the past for the properties and influence nothing.

### 2.1 SyncScheduler

State: `source` is what the Core holds, group by group (a *group* is the Core
data read between two checkpoints of `SnapshotBuilder.build`); `watch`,
`eventDue` are the watcher's connection and its debounce window; `phase` is where
`configure()` and the `stop()` in it are; `revision`, `pending`, `lastHash`, `cache` and the timers are fields of
RemoteSyncService and SyncCoordinator of the same meaning; `job` holds the calls
of `syncNow` and of `syncSinglePeer` in progress, with a program counter; a
snapshot stands for its hash.  `known` is `runtime.last_applied_hash`,
`satHash` what a Satellite reports, `applied` what it has, with `Mixed` for the
objects a failed application left behind.

| Code | Actions |
|---|---|
| `syncNow` | `SyncNow` (its early returns), `Begin`, `BuildReads`, `BuildFails`, `BuildCompletes`, `Decide`, `SyncPushes`, `SyncPreviews`, `SyncConcludes`, `Finish` (its finally block) |
| event watcher | `CoreEdit`, `WatchDrops`, `WatchConnects`, `WatchReconnects`, `WatchEnds`, `ConfigurationEvents` |
| timers | `EventTimerFires`, `InitialTimerFires`, `RetryFires`, `RetryPushes`, `PeriodicFires`, `Refreshes`, `RoundEnds`, `AuditEnds` |
| requests | `RequestSync`, `RequestManualSync`, `ManualPushes`, `Toggle` |
| lifecycle | `Stop`, `WatcherStopped`, `TunnelEnds`, `Configure`, `Started`, `Crash` |

Abstractions: the groups of reads between two checkpoints are one step, as the
checkpoint only compares revisions after them; a push is one step with the
outcomes ok, refused, lost (applied, but the answer did not arrive) and partial;
time is abstract, an armed timer may fire at any moment; one manual
synchronization, and one retry push for each Satellite, is in progress at a
time.  Reconfigurations follow one another; that they overlap is `PeerRegistry`.

### 2.2 ActivitySync

One activity.  On the Primary, `tasks` are the calls of `broadcast` and
`initialize` in progress: a task is *reading* or has *read* the state from the
Core, *waits* for the answer to a push, or has it (*ok*, *failed*) and has not
resumed.  `sent` are requests that have not arrived; they may arrive in any
order.  On a Satellite, `queue` is the chain of promises in `applyQueues`,
`phase` is where the first of it is (*command*: `executeEntityCommand` was
called; *run*: the Core has run it, its answer is not back), and `relays` are the
relay steps its Core has yet to run.  `overlapped`, `touched`, `collapsed`,
`changes` and the field `seen` of an update are auxiliary: they record history
for the properties and influence nothing.

| Code | Actions |
|---|---|
| `broadcast` | `HandleEvent`, `CoreAnswers`, `CoreFailsToAnswer`, `StateRead` |
| `initialize` | `Initialize` |
| `#push` | `Advance` (up to the request), `PushReturns`, `PushTimesOut`, `RequestLost` |
| `apply`, `#applyStateUpdate` | `RequestArrives`; `Applies`, which `Ignores`, `FindsApplied` or `Commands`; `CommandRuns`, `CommandReturns`, `CommandFails` |
| `forward`, `executeProxyCommand` | `Forwards` |
| `clear`, a new process | `PrimaryReconfigures`, `PrimaryRestarts`, `SatelliteRestarts` |
| the remotes | `CoreChanges`, `SnapshotReads`, `WatchDrops`, `WatchConnects`, `UserPresses`, `SuppressionExpires` |

Abstractions: STARTING and STOPPING count as the states they lead to
(`#stateMatchesAction` treats them so); the version check and the read of the
state before a command are one step, since the queue keeps other updates out;
a relay step, its request to the Primary and the Primary's command are one
step; events are handled one after the other, up to their first await, as the
WebSocket delivers them.  The Satellite's `configure()` waits for the requests
its server is answering, so `clear()` in the middle of an application is
covered by `SatelliteRestarts` only.

### 2.3 SatelliteMirror and SatelliteApply

An *item* is an object of the Primary's configuration: a resource, dock, macro,
activity, activity group or profile.  On the Satellite it is *copy* 0, the object
with the identifier of the source, or a copy whose identifier the Core chose.
`core` is what each copy is: not there, the user's, a stub that was created and
not written, or not completely, or the content of a snapshot.  `mapping` and `disk` are
MappingStore in memory and on disk.  `job` is the application or removal under
way, by its phase, the items left to do, and the items it has *spared*.

Not everything that is missing is an error.  An upload answered with 422 counts
as skipped, although the old resource is deleted by then (apply/index.js:126-129);
a page or button mapping that the Core refuses, page items it rejects and
references to what the Satellite does not have are left out with a warning
(apply/index.js:302, :370-396, apply/profiles.js:158, :171-185).  The item is
*spared*, the report stays a success: `ApplyResource`, `Finish`, `ApplyProfile`
and `ApplyGroup` have that outcome beside error and success.

| Code | Actions |
|---|---|
| `applyReceived` | `Receive` (catalog, duplicate, start), `ReceiveBusy`, `Save` (report, operation cache, mappings) |
| `#applySnapshot` | `Proceed` from phase to phase of `Phases`; `ApplyProxies`, `ApplyResource`, `ApplyDock`, `Stage`, `Finish`, `ApplyGroup`, `ApplyProfile`, `PruneItem`, `PruneProxies`, `ListFails` |
| `withStandbyInhibitor` around it | `Thrown`: any error that leaves the application starts it once more |
| `buildProxyCatalog` | `NextCatalog` |
| `purgeSynchronized`, `SatellitePurger` | `BeginPurge`, `PurgeItem`, `PurgeProceed`, `PurgeProxies`, `PurgeEnds` |
| the world | `Crash`, `UserDeletes`, `Expire` |

A call to the Core ends *ok*, *refused* (no effect) or *lost* (it had its effect,
the answer is an error or none).  Abstractions: the calls for one item are one
step with these outcomes; the content of an object is the snapshot it came from;
the pages and groups within a profile belong to its content; a user changes
objects only while none is applied.

### 2.4 SnapshotDelivery

A push is a call of `pushSnapshot`.  Its `mode` is where in it the next post is
made (the first, the second, the loop after the magic packet, the loop of
`waitForRestartAndResend`), its `reply` the answer that has come back.  A post is
`live` while its push waits for it; the Satellite handles it all the same when
it is not.

| Code | Actions |
|---|---|
| `pushSnapshot`, `postSnapshot`, `resolvePeerUrl` | `Start`, `Post`, `PostFails`, `Handle`, with `Resolved`, `Compatible`, `Unreachable`, `Again` |
| POST /v1/snapshots | `Arrive` (busy, repeated or begun), `Applied` |
| RemoteSyncDiscovery | `Learnt`, `CacheExpires` |
| the world | `SatelliteDies`, `FallAsleep`, `Move` |

Deadlines are a number of posts, `MaxTries`.  Whether discovery answers depends
on the Satellite being awake.

### 2.5 PeerRegistry

`objects` are the configuration objects somebody holds and `current` the one of
`service.config`; an operation holds a reference (`ref`) or a copy (`copy`).
That is where the hazards are: an action of the SatelliteManager changes the
object it holds, an addition or a change of settings saves a copy and makes it
current, a restart makes the object it was called with current again.  What else
writes the tokens of a Satellite (a snapshot, its own dialog or settings, a reset of
its role) is here too, as an operation that leaves the configuration alone.

| Code | Actions |
|---|---|
| `action` (rotate, unpair, remove), `refresh` | `Begin`, `Call`, then `EndInPlace` or `Refuse` |
| enable, disable; `updateSyncSettings` | `AtOnce` |
| `addSatelliteByToken`, `#claimSatellite`; `updateGeneralSettings` | `Begin`, `Call`, then `EndReplacing` or `Refuse` |
| `SetupFlow.#finish` | `Begin`, `EndSetup`, `Configure` |
| `applyReceived` (its pairing fields), the Satellite's own `SetupFlow`, `resetRole` | `Begin`, `Arrive`, `EndRemote` |
| `#deferReconfigure`, `configure`, `stop` | `Reconfigure`, `Stop`, `WatcherEnds`, `AgentCloses`, `Configured` |
| `AgentServer.start`, a port that is taken | `Started`, `PortTaken` |
| ConfigStore, a new process | `disk`, `Crash` |
| the Satellite's pairing requests | `Accepts`, `Answered` |

`expected` is what the configuration would be had every change been atomic.
Identifiers of tasks stand for the tokens they make.

### 2.6 CoreSession

`objects` are CoreWebSockets, each with the connection it has and the one it is
opening; `sockets` are connections; `shared` is `sharedSocket`.  Promises that
have settled run before the next event of a socket or a timer: such calls are
`Due`, and events wait until the loop is `Quiet`.

| Code | Actions |
|---|---|
| `connect`, `#open`, `close`, `#rejectPending` | `Opened`, `NotOpened`, `Drop`, `Closed`; `Connects`, `Closes` within others |
| `withSharedWebSocket`, `sharedWebSocket`, `#releaseShared` | `Start`, `Resume`, `Send`, `Answer`, `TimeOut`, `Idle`, `CloseClient` |
| `coreMessage` | `Fail`, `Again` |
| `withStandbyInhibitor` | `Inhibit`, `Granted`, `Remove`, `Leave`, `Left` |
| `request`, `#retryAfterWake` | `HttpStart`, `HttpAnswer`, `HttpLost`, `Probe` |
| CoreEventWatcher | `Round`, `Subscribe`, `Subscribed`, `Finally`, `Stop` |

A drop is an end that the Core announces; that `#open` tries again on 503 counts
as the connection taking longer.  Requests that go out on one session are
answered in any order.

### 2.7 DockTunnel

Three connections with two ends each make a chain; the Satellite's virtual Dock
server relays between *local* and *tunnel*, the Primary between *down* and *up*.

| Code | Actions |
|---|---|
| VirtualDockServer, `#handleUpgrade`, `openDockTunnel` | `CoreConnects`, `TunnelOpens`, `DockOpens`, `Fails` |
| `relayPeers`, `bridgeMasterDockTunnel` | `Relay` (with `Transform`), `Closed` (with `Finishes`, `Forgotten`) |
| WebSocketPeer | `queue`, `GoodbyeArrives`, `Break`, `Closing` |
| `stop` of both sides | `Stop`, `Stopped` |
| Core and Dock | `CoreSends`, `Take`, `HangUp` |

### 2.8 Provisioning

One remote.  `keys` are the API keys of its Core; `stored`, `memory` and `serving`
are its configuration on disk, the one its service holds, and the role its agent
was started with; `draft` is what an operation of the service took from memory and
will save after an await.  `flow` and `calls` are the one SetupFlow and the messages
it is handling; `session` is the setup as the Core shows it, a state and the error
on the page: the job tells pages apart by all of their text, so that a PIN page
with another error is a page it has not answered.  `job` is the Primary's, `peer` the
management key in its configuration, `removal` how far a removal has come.
`saved`, `clash`, `severed` and `left` are histories for the properties.

| Code | Actions |
|---|---|
| `SetupFlow.handler`, `#apply`, `#finish` | `Begins`, `Answers`, `Confirms`, `Aborts`; `Created`, `CreatedInactive`, `NotCreated`, `Checked`, `NotChecked`, `Revoked`, `Configured`, `NotConfigured` |
| `#assignRoleNow`, `resetRole`, `#deferReconfigure` | `Assigned`, `Restarts` |
| `markPaired`, `applyReceived`, `unpairSatellite`, `rotateSatelliteCredentials` | `Resaved` |
| `updateGeneralSettings`, operations of a remote that is a Primary itself | `Drafts`, `Saves` |
| `provisionSatelliteByPin`, `installOrUpdateDriver` | `Adds`, `KeyMade`, `DriverChecked`, `Installed`, `RoleSeen`, `RoleAwaited`, `JobFails` |
| `runRemoteDriverSetup` | `SetupStarts`, `PageAnswered`, `SetupSeen` |
| `pinPair`, `#claimSatellite` and the claim on the Satellite | `PinPaired`, `ClaimServed`, `Claimed`, `KeyRevoked` |
| removal of a Satellite | `RemovalStarts`, `RemovalRevokes`, `Removed` |
| the person, a new process on either side | `Person`, `Dialog`, `Stopped`, `PrimaryEnds` |

## 3. The runs

Disturbances are counted down in a budget, or up to a bound: edits (of a
configuration) or changes (of an activity), requests, presses, pushes, failures,
restarts.  Everything else is unbounded, except what "Bounds" names.  A run is
exhaustive within its limits.

| Run | Instance | Shows |
|---|---|---|
| `SyncBuilds` | two groups, edits back and forth, a request, a restart, no Satellite | `SnapshotCoverage`: a build or a cache of the current revision with no event outstanding is what the Core holds; `ClearedMeansCurrent`: `pending_changes` is reset for a change the snapshot missed only in the two cases it names |
| `SyncRecovery` | two disturbances: an edit with a request of any kind; an edit or a failure with a failure, or with a restart or reconfiguration | `TypeOK`; `OnlyFailuresStrand`: pending changes lose their wake-up only through the four causes it names; `Convergence` under fairness |
| `ActivityOrder` | one Satellite, events with and without a state, a change, a press, an initialisation, and a failure or a restart of either side | `TypeOK`; `VersionsAdvance`: the version a Satellite applied only grows in an epoch; `NewestApplied`: it shows what it applied last |
| `ActivityAgreement` | two Satellites, four changes, a press | `Agreement`: at rest, every Satellite at which no two rounds of pushes overlapped shows the Primary's state; `OlderNeverOverwrites`, `OnlyOlderIsIgnored`; `NoEcho`: the Primary's state changes no more often than its Core and the users change it |
| `SatelliteApply` | five items and two entities, two snapshots that differ in both; three pushes and a failed call, or two with a crash or a removal, or a removal among three with a doing of the owner | `TypeOK`; `Tracked`: what was written is what the mappings name; `ImplementsMirror`; `CataloguedStay`: an application deletes only proxies that no entity has |
| `SnapshotDelivery` | two pushes of two snapshots with a fault and a standby; one push with two faults, a standby, a crash and a move | `DeliveryTypeOK`; `SuccessWasApplied`; `PushEnds`; `SleeperIsReached` |
| `PeerRegistry` | every pair of ten operations, with an addition or a change of settings as the third; every pair of eight operations on tokens, with an addition or a snapshot as the third; none or two Satellites known; a lost answer or a death of the driver | `RegistryTypeOK`; `ChangesAreKept`: the configuration is what it would be had every change been atomic; `CredentialsAgree` |
| `PeerRestarts` | every pair of five operations, with a change of settings as the third; a watcher that is connecting, a tunnel that does not hear, a lost answer or a death | `RestartsEnd` |
| `CoreSession` | two calls of any kinds with two faults, three with one, an HTTP request with two, a standby inhibitor beside a call, a watcher with two, a watcher beside a call with one | `CoreTypeOK`; `SharesOneSession`: the calls have one session, beside the watcher's and an inhibitor's, whatever is lost; `SentOnce`: a message that changes the Core is sent once; `CallsEnd`; `SessionIsReturned`; `WatcherReturns`, `WatcherEnds` |
| `DockTunnel` | one chain, two messages of three kinds, a fault, both sides may stop, either end may hang up | `DockTypeOK`; `OnlyItsToken`; `ChainEnds`: the end of one connection is the end of all, and of the sessions; `StopEnds` |
| `Provisioning` | four keys, two setup messages handled at once, pages with one error or none, three failures, restarts or doings of the person or of a Primary | `ProvisioningTypeOK`, with a bound on how often a job gives the PIN; `KeysInUseExist`; `KeysAccounted`; `JobEnds` |

One run finds a counterexample, a disagreement between the code and what the
repository says of it: `ApplyLeftover`.  README.md of the repository, under
*Health and management*, says of a removal that what cannot be deleted stays
tracked.  A proxy entity is tracked by the catalog alone, and
`purgeSynchronized` empties that whatever the purge has left
(`UndeletedStaysTracked`).

### What the properties except, and why

The code has windows in which it does not keep what one would wish.  Each is in
the models, and the property that it would break names it, so that the run shows
that there is no other:

- `ClearedMeansCurrent` excepts a snapshot *built* at an older revision: a forced
  build, a preview or a manual build does not give way to an event, and its
  outdated snapshot becomes the cache after the event emptied it
  (sync-coordinator.js:47); a synchronization that takes the cache then finds it
  unchanged and resets `pending_changes` (service/index.js:317).  And it excepts a
  snapshot from before the watcher's first connection (`gen`), of which no event
  and no callback tells.
- `Convergence` excepts a reconfiguration that hangs in `stop()`: on a watcher that
  connected after it was stopped (*late*, see `WatcherEnds`), or on a tunnel that
  keeps `server.close()` of the agent waiting (*held*, see `ChainEnds`).
- `ChangesAreKept` excepts *clash*: an addition, a change of settings, the dialog
  or a restart that built on an object or a copy that another of them replaced
  meanwhile loses that change; two removals that overlap use an index that the
  first has made wrong (service/index.js:844, :913, satellite-manager.js:243).
- `CredentialsAgree` excepts *doubtful* Satellites: a lost answer, a death of the
  driver before its save, a reset of the Satellite's role, and operations on one
  Satellite that cross.  Among these are a snapshot, whose command token
  `applyReceived` stores although a renewal was served since it left
  (service/index.js:447), and the Satellite's own dialog and settings, which save
  all they had read (setup/index.js:163).  Adding the Satellite again ends the doubt.
  And it excepts *clash*, as `ChangesAreKept` does.
- `RestartsEnd` excepts the same two hindrances as `Convergence`, *late* and *held*.
  A restart whose agent finds the port taken (`PortTaken`) ends, and fails.
- `Tracked` excepts *orphans*: an object whose creation the driver never learned
  of, or forgot when it died before the mappings were saved, and that has an
  identifier of the Core's choice.
- `ChainEnds` and `StopEnds` except *unheard*: the first connection of a relay
  closes, or the relay is told to stop, while it makes the second one.  The relay
  then begins to listen after the event (dock/proxy.js:225, service/index.js:605);
  the tunnel stays open, and `server.close()` waits for it.
- `WatcherEnds` excepts *late*: `stop()` while the watcher connects closes
  nothing, and it listens until that session ends (core/events.js:130).
- `SharesOneSession` and `SessionIsReturned` except what is *forsaken*: `close()`,
  the idle timer or a retry drops an object that is still connecting and closes
  nothing, as there is no socket yet (core/client.js:118, :138, :456,
  core/events.js:105), and the connection that then opens stays until the Core
  ends it.  And a callback of `withSharedWebSocket` that goes on with its next
  request opens the object it holds again, although another call dropped it
  (core/events.js:92).
- `KeysInUseExist` excepts *clash*, from when somebody saves over a key they had not
  seen until a setup saves a new one: a setup that overlaps another, or the
  service, which saves the configuration it holds in a claim
  (service/index.js:564), a snapshot (:452), an unpairing (:544), a rotation, a
  change of role (:791, :815) or of settings (:875), while a setup has saved and
  revoked but `configure()` has not run (setup/index.js:181-188).  The Primary's
  key is excepted from when a removal has revoked it until the Satellite is
  dropped (satellite-manager.js:241-250), and for good (*severed*) if the Primary
  ends in between.  `KeysAccounted` counts apart the keys *left* by
  steps that failed, were overtaken or were lost with the Primary: no code revokes
  them.
- `SleeperIsReached` excepts an address that another Satellite has taken: its
  refusal ends the push although a fresh discovery would find the right one.
- `ImplementsMirror` excepts what an application *spared*: after a success the
  Core may lack an item that the report warned of or counted as skipped, the
  deleted resource of an upload answered with 422 among them.
- `Repeat` of `SatelliteMirror`: an operation carried out before is confirmed, and
  the catalog replaced, although another snapshot was applied since or all was
  removed (storage/operations.js:24).

In `SyncScheduler` and `ActivitySync` there are these, met in larger instances:
a preview records
its hash as `last_applied_hash` (service/index.js:342); a Satellite left half
applied is not pushed to again while the hash stays the same, and a retry that
finds no cache gives up (service/index.js:271, :316), so that `Convergence` is
checked without the outcome *partial*; the answer to an older push overwrites
`lastPushedStates`, and a push that is needed is skipped (activity-sync.js:96,
`overlapped` in `Agreement`); `initialize` gives an old state a new revision
(:149), and `clear` restarts the revisions within the epoch (:29), so that
`Agreement`, `OlderNeverOverwrites` and `OnlyOlderIsIgnored` are checked without
these two.  A failed push of a state is not repeated, a lost relay leaves a
Satellite as its user set it, and a state read late hides the change before it:
`Agreement` is checked without them too.  All of these occur in `ActivityOrder`.

### Bounds, and why they are enough

- *Two groups* are the least for a torn build (one read before the edit, one
  after) and two edits with two values let the Core return to its old content,
  the case in which comparing hashes deceives.  More groups repeat the pattern;
  the theorems of `SyncSchedulerProofs` hold for any number.
- *One Satellite* is enough where Satellites do not interact: in `syncNow` they
  meet only in the conjunction of their results and in `last_snapshot_hash`
  (which a request for one Satellite sets for all: see the hazards).  In
  `ActivitySync` they meet in the loop over peers and through the Primary,
  hence the two of `ActivityAgreement`; in `PeerRegistry` they meet in the order
  of the entries.
- *Two disturbances* (`SyncRecovery`), of them one edit: convergence speaks of the
  time after the last one, and the states before the edit are reached by failures
  and restarts.  Two is what it takes to lose a wake-up and then what would repair
  it; a failure that follows a failure stands for more of them, as a retry or a round
  that fails only waits for the next.
- *Two rounds of pushes* at a time are the least that can overtake each other; a
  third waits.  Four changes are what an overlap needs to cost a push and what
  piles up relay steps for `NoEcho`.  The echoes that a shared suppression lets
  through can feed each other without end, with versions that grow.
  `ActivityAgreement` therefore explores what follows a shared suppression for
  two changes only (`SharingIsBounded`); `NoEcho` claims nothing of what follows it.
  The theorems on `Agreement` and `NoEcho` hold for any number of Satellites,
  rounds, changes and presses.
- *A failure or a restart*, not both (`OneFault`), in `ActivityOrder`: both
  together only enlarge the run, and the theorems hold for any number.
- *Two snapshots* are the least for something to change, appear and go; the third
  push brings one of them back, which is what a repetition, a superseded proxy
  and a mapping to a deleted object need.  *Two copies* that the Core chooses
  suffice for one creation that is lost and one that follows; a third creation
  fails in the model as a refusal does.  There is an item for each way of
  applying one; an activity stands for macros as well, as both go the same way
  in phases of their own.
- *Two pushes, two addresses*: a synchronization and one retry can be under way to
  a Satellite, which may have the saved address or not, as may another one.
  `MaxTries` of three lets a push go through each of its loops and end at the
  deadline.
- *Three operations* at once: two that collide, and a third that changes what
  they build on or restarts the services.  At most two deferred restarts are under
  way, beside that of a dialog.
- *Three calls*: one that holds the session, one that retries and closes it, one
  that comes in between.  A call beside the watcher shows that the two keep apart.
- *One chain*: chains share nothing but the set of sessions, from which each
  removes its own.
- *Four keys*: one in use, one of a job and two of setups that overlap.  *One error
  text* beside none is the least by which a page that asks again differs from the
  one before; `ProvisioningTypes` holds for any number.  A job and a removal of its
  Satellite do not overlap: `PeerRegistry` has the two cross.
- `CHECK_DEADLOCK FALSE` everywhere: when the disturbances are
  used up, the system rests, or a reconfiguration waits for ever.

### Fairness

All of it is weak fairness on steps that a timeout of the code bounds, with one
exception.

- `SyncScheduler`: an armed timer fires, an awaited call returns, a watcher that
  lost its connection connects again (its loop never gives up), a stopped watcher
  that has no connection ends, and `stop()` and `configure()` go on when what they
  wait for has ended.  A session that a late watcher holds and an open tunnel need
  not end.  The daily audit is one of the outcomes of a
  periodic round; strong fairness says that it is not passed over for ever, as 24
  hours pass again and again.
- `SnapshotDelivery`: a post is made, answered or given up (all of
  peer-agent-client.js has timeouts), a Satellite that is awake and alive handles
  what it received, as its calls to the Core end.  Magic packets are not trusted
  to be repeated: sending one is part of the step that fails.
- `PeerRegistry`: calls to Satellites and the network detection time out, and a
  restart goes on when the requests it waits for have ended.  Nothing ends a watcher
  that was connecting when it was stopped, or a restart that a tunnel keeps.
- `CoreSession`: connections open or fail, requests are answered or time out,
  timers fire, and what a standby inhibitor covers ends.  The Core need not end any
  session: `WatcherEnds` and `SessionIsReturned` do not rest on it.
- `DockTunnel`: connections are made or fail, what is sent arrives, a closing
  connection is closed (the side that closes sees to it after two seconds,
  transport/websocket.js:100; the side that answers has no such timer and relies
  on the other), and a server whose
  connections have ended stops.  Nobody need hang up.
- `Provisioning`: the job's requests and waits end, deferred restarts happen,
  setup messages are handled to their end.  A person need not do anything.

The environment (edits, requests, failures, restarts, people) has no fairness.
`ActivitySync` has no liveness property: its pushes are not repeated, so what it
promises holds at rest (`Quiet`) and needs none.  `SatelliteApply` has none
either; that a job ends is seen from `SnapshotDelivery`.

## 4. The proofs

TLAPS proves, for every value of the constants that satisfies the module's
assumption:

| Theorem | Statement |
|---|---|
| `TypeCorrect` | `SyncScheduler!Spec => []TypeOK` |
| `RevisionsRecogniseTornBuilds` | with automatic synchronization on, `Spec => []SnapshotCoverage` |
| `NoChangeIsWrittenOff` | with automatic synchronization on, `Spec => ClearedMeansCurrent` |
| `WakeUpsAreKept` | `Spec => OnlyFailuresStrand` |
| `ActivityTypes` | `ActivitySync!Spec => []TypeOK` |
| `SatelliteShowsNewestApplied` | `Spec => []NewestApplied` |
| `AppliedVersionsAdvance` | `Spec => VersionsAdvance` |
| `SatellitesNeverGoBack` | events tell the state: `Spec /\ [][Orderly]_vars => OlderNeverOverwrites` |
| `IgnoredUpdatesAreOlder` | likewise `Spec /\ [][Orderly]_vars => OnlyOlderIsIgnored` |
| `SatellitesAgree` | `Undisturbed`: `Spec => []Agreement` |
| `UpdatesDoNotEcho` | `Spec /\ [][SuppressionsLast]_vars => []NoEcho` |
| `ApplyTypes` | `SatelliteApply!Spec => []TypeOK` |
| `SatelliteImplementsMirror` | `SatelliteApply!Spec => ImplementsMirror` |
| `EverythingIsTracked` | `Spec => []Tracked` |
| `ApplicationsKeepProxies` | `Spec => CataloguedStay` |
| `DeliveryTypes` | `DeliverySpec => []DeliveryTypeOK` |
| `RecordedSuccessesWereApplied` | `DeliverySpec => []SuccessWasApplied` |
| `RegistryTypes` | `RegistrySpec => []RegistryTypeOK` |
| `NoChangeIsLost` | `RegistrySpec => []ChangesAreKept` |
| `PrimaryAndSatelliteAgree` | `RegistrySpec => []CredentialsAgree` |
| `CoreTypes` | `CoreSpec => []CoreTypeOK` |
| `MessagesAreSentOnce` | `CoreSpec => []SentOnce` |
| `CallsShareASession` | `CoreSpec => []SharesOneSession` |
| `DockTypes` | `DockSpec => []DockTypeOK` |
| `DockHearsItsToken` | `DockSpec => []OnlyItsToken` |
| `ProvisioningTypes` | `ProvisioningSpec => []ProvisioningTypeOK` |
| `UsedKeysExist` | `ProvisioningSpec => []KeysInUseExist` |
| `NoKeyIsForgotten` | `ProvisioningSpec => []KeysAccounted` |

Every invariant and every action property that a passing run checks is stated by
one of them.

*Coverage.* `SnapshotCoverage` is not inductive: it says nothing of a build of
an old revision, and such a build could become current if `configurationRevision`
returned to its number.  The invariant adds that no build or cache has a revision
or generation from the future, so that the increment in `NoteChange` puts every one of them
out of date, and that the cache is a complete snapshot.  An edit makes an
event outstanding, and the event makes all of them old.  The assumption
`AutoSync` is necessary: without it `#configurationEvents` counts nothing.
`NoChangeIsWrittenOff` follows, as `pending_changes` is reset only where the
revision was compared (`ResetSettles`): the snapshot by which it is reset is whole,
and what the Core holds if it was begun at the current revision and generation
(`CompleteIsCurrent`).  The two older snapshots that remain are the exceptions.

*Wake-ups.* `WakeUpsAreKept` needs no invariant beyond the types; it follows every
caller of `syncNow`.  `FinishWakes` says that the finally block leaves something
pending without a timer only if the revision did not move and nobody was turned
away meanwhile, `DecideWakes` that an unchanged hash clears `pending_changes` in
that very case, and `SyncNowWakes` and `SilentTimer` that a call which changes
nothing took no timer away.

*Types of ActivitySync.* That an answer finds its push waiting is part of the
types.  `Awaited` (a task with a request under way waits) is not inductive
alone: two requests of one task would let the first answer take the second's
place.  `Single` adds that a task has one request, in the network or in a queue.

*Order.* `Ordered` carries a check across two awaits: while an update is being
applied it is newer than the applied one, because only its own end changes
either, and the activity shows the applied update before the command ran and
the current one after.  Both order theorems follow from it.

*Never back.* Updates are numbered by the Primary, and a number is worth what the
state was when it was given.  `Chronological` says that events are handled in the
order of the changes, that no update is from the future, and that within an epoch
the higher revision is from the later change.  It needs three restrictions, and
each is a hazard of the code: `initialize` gives a state recorded earlier a new
revision, `clear` restarts the revisions within the epoch (both excluded by
`Orderly`), and an event that does not tell the state has it read late
(`~Stateless`).  Losses, repetitions, overtaking and restarts of either side are
all allowed.

*Agreement.* `Undisturbed` says that nothing fails or restarts, that events tell
the state, that no recorded state is pushed and that the configuration has a
Satellite once (which `RegistryTypes` shows).  `Follows` is the invariant: a Satellite
is either in the round of exactly one task, whose update is what was observed
last, or it rests: it was pushed what was observed last, and it shows the
Primary's state, or an event is under way that will start another round, or a
relay step will make the Primary show what it does (`CallsBack`).  The last is why
`Suppresses` is needed: a suppression outlives neither its command nor its relay
step, so that it cannot swallow the relay of a later press.

*No echo.* `Balanced` is a count.  Each relay step under way that no suppression
will hold back is owed to one press, so the changes so far, those that may still
come and the relay steps are at most the limits and the suppressions.  A command
adds a relay step with its suppression, a relay step that is held back removes
both.  A command that fails, an expiry and a restart of the Satellite remove a
suppression alone, which `SuppressionsLast` excludes: the echo does happen then.

*Application.* That after a success nothing is lacking but what was spared is not
inductive: it is about the last step, `Save`.  `Progress` says of every item the
phases are through with that it is written or spared, unless an error was noted,
and that a macro or activity is among the `staged` once its staging is over, so
that the finishing phase skips none.
A step that works on one item `Touches` no other and `Advances` over it; each of
the eight item steps is shown to be such a step, or to throw.  `DiskKept` is what
a restart needs: the saved mapping of an object that is still shown is the one in
memory, so that going back to the saved mappings brings no item back.
`EverythingIsTracked` and `ApplicationsKeepProxies` follow from the same invariant.

*What the proof corrected.*  `SatelliteMirror` used to say that after a repeated
operation the Core has no more than before, which holds on the instance that TLC
checks.  It is not true of every one: `applyReceived` stores the catalog of the
repeated snapshot, and if an obsolete proxy could not be deleted, an older
snapshot that differs only in its entities is complete again.  `Repeat` says so now.

*Delivery.* `SuccessWasApplied` needs that an answer *ok* on its way to a push is
about the snapshot of that push: `LiveKept` and `ServingKept` say that a push waits
for one post at most, its last, and that what is being applied is the snapshot of
the post that is served.  Posts that were given up are answered to nobody.

*Tunnels.* `DockTypeOK` relates relays, sessions and ends; `RelayInv` says of one
relay what the actions on its own two ends keep, so that the proof of an action
looks at one relay only.  `OnlyItsToken` speaks of what has arrived;
`QueuesFit` says of each of the six queues which messages may be on their way
there, and a message that is moved keeps the two together.

*Registry.* `NoChangeIsLost` is about copies and references.  `Kept` says what each
holds: an operation that nothing replaced works on the current object, one that
no removal passed has the right index, a copy equals `expected` as long as nothing was
saved since it was taken.  `AllHeld` says that an object somebody holds is there,
in memory and in every restart under way.  For the tokens, `Credible` follows a
call: while its answer is on its way the Satellite has what the answer will make
the Primary store, unless another operation on the same Satellite crossed it.
`VisitFits` says of a snapshot or a dialog that met nothing that it leaves the
Satellite as the entries say: no call is answered while it is under way.
The assumption that a registry has each Satellite once is what `#claimSatellite`
establishes, which replaces the entry it finds, and `RegistryTypes` shows that it stays.

*Sessions.* `Linked` ties objects to connections: a connection has one owner, and an
object never opens one while it has another that is open.  `CallsFit` says that a message that changes
the Core was not sent while its call still waits for a connection.  `Kept` says
who may have a session that lives: the shared object, the watcher, an inhibitor
at work, or a forsaken object; with `Linked` the first has one at most.  `Single` says
that an inhibitor's object is its own, so that giving up the shared one never
gives up an inhibitor's.

*Keys.* `KeysApart` says that the keys of setups and those of the Primary are
different ones, so that neither side revokes the other's.  On the side of the
setups only a key that has been saved is ever revoked: `SavedKept` says that
whatever a setup still has in hand has been saved or exists, and that all a
configuration names has been saved.  `ClashKept` adds that, without a clash, nobody
is about to revoke the saved key; a setup that saves a new key ends a clash, as
nobody can know that key.  On the side of the Primary `PrimaryKept` says where its
keys are in each phase of a job and of a removal; `Accounted` says of every key
who holds it.  The bound on the PIN is that of a set that grows by one with every page
answered, which needs it finite (`JobKept`).

*What these proofs corrected.* `NotOpened` of `CoreSession` woke the watcher when
the connection of another's object was refused, and `SharesOneSession` counted
the watcher's session among those of the calls; no run had a watcher beside a
call, and now one has.

*Not proved.* `Convergence`, `PushEnds`, `SleeperIsReached`, `RestartsEnd`,
`CallsEnd`, `SessionIsReturned`, `WatcherReturns`, `WatcherEnds`, `ChainEnds`,
`StopEnds` and `JobEnds`: liveness under fairness is out of the prover's reach
and stays with TLC.

## 5. The plan

1. The synchronization with `SnapshotDelivery` in place of the one-step push of
   `SyncScheduler`, with two Satellites.
2. `SnapshotCoverage` for the calls of `syncNow` and the pushes together: what a
   Satellite was recorded to have, it was sent from a whole snapshot.
3. The choice of `autoUpdate`, the limiter of PIN attempts, the fallbacks of single
   endpoints in core/client.js.

## 6. Not modelled

- web/: pages, style, icons and browser code are presentation.  What the dashboard
  asks for is in the modules of the parts that do it; its sign-in is a table of
  sessions with an expiry.
- apply/preview.js compares and changes nothing; integration/entities.js maps
  states to attributes; setup/forms.js and setup/common.js are wording.
- The archive of a snapshot (protocol/snapshot.js), the packets of mDNS
  (pairing/mdns.js), the frames of a WebSocket (transport/websocket.js) and the
  magic packet (network/wol.js): conversions of bytes within one turn of the event
  loop.
- Which fields an object has, how references between them are rewritten
  (apply/index.js), and what makes up the capabilities of a proxy
  (proxy/catalog.js): data that the properties do not tell apart.
- Logging, paths and the Core itself, of which only what the code relies on is
  modelled: it answers, refuses, or does not answer.
