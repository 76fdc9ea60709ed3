# A verification project for SteadyState

SteadyState is an internal developer platform: Kubernetes controllers that turn
`Team`, `Application` and `Database` resources into running services, and
`platformctl`, a command line and local portal that turn requests into Git
changes and start and stop the platform. This directory holds TLA+ modules that
model its core, TLC configurations that check them, and proofs that TLAPS checks.
Every definition is translated from the Go source; `PROJECT.json` names the lines.

## 1. Inventory

| Component | State it keeps | Operations | What is hard | What makes it correct |
|---|---|---|---|---|
| Database controller (`internal/controller/database_controller.go`, `internal/resources/database.go`) | `Database` (finalizer, annotations, status), Cluster, archive objects, ScheduledBackup, policies, the ownerless final Backup | reconcile of a live Database, deletion through a final Backup, status patch | lagging cache, three-step deletion, objects addressed by name, events mapped through the cache | data is never removed unsaved; deletion ends; Ready means recoverable |
| Application controller (`application_controller.go`, `application_progressive.go`, `application_provenance.go`, builders in `internal/resources`) | `Application` status, Deployment, base/stable/canary Services, Rollout, HTTPRoute with drain stamps | rolling and canary delivery, migration in both directions, provenance, status patch | four other controllers run between any two writes; two caches; drains kept as annotations | traffic always has ready pods; only analysed canaries are promoted; version and digest are one tuple; every migration ends |
| Team controller (`team_controller.go`, `internal/resources/team_*.go`) | `Team` (finalizer, status), Namespace, quota, RBAC, NetworkPolicies | staged reconcile, deletion that waits for Applications, then Databases, then the Namespace | ownership checked on one read and acted upon after another, list-then-delete, events mapped by label | takes nothing over that is visibly foreign; tenants go before the Namespace; no Namespace is left behind; it reports what is there |
| Tenancy between the kinds | owner labels, Database readiness | checks at the start of each reconcile | checked in one controller, changed by another | an Application never binds another Team's Database |
| Validation (`internal/*/validation.go`) | none | predicates on one object | boundaries of names, schedules, weights | the accepted set is the documented one |
| Portal (`internal/platformctl/portal*.go`) | launch token, session, change plans, operations, event subscribers and replay | launch, plan, submit, stream, break-glass plan and execution | handlers run concurrently and hold the mutex for single steps; expiry, bounded queues, a checkout that is edited meanwhile, GitHub that does not answer | a plan becomes one run at most, of what was reviewed; a view that follows the events does not stay old |
| Change pipeline (`change.go`, `render.go`, `catalog.go`, `commands_write.go`, the broker workflow, the tenant's Argo CD child) | the catalog in Git, change requests, branch and pull request, the child, the objects in the cluster | plan, render, verify, dispatch, publish, merge, sync, prune | main moves between plan, dispatch, publication and merge; Argo CD lags; a deletion is two changes | nothing is deleted without two reviewed changes; nothing is left behind; the catalog stays loadable |
| Platform lifecycle (`platform_lifecycle.go`, `process_tree*.go`) | the stage, its process tree and its deadline | up, down, verify, cut a stage off at its deadline or at Ctrl-C | a script's end races its deadline; its descendants outlive it; a kill may be refused | nothing runs on after a deadline; "Completed" is true; down tries everything |
| Break-glass (`commands_breakglass.go`, `kube.go`, `portal_api.go`) | audit file, Events on the Rollout, the Rollout's status | inspect, confirm, audit, announce, patch, close, report | each step may fail or be the last; the Rollout moves between its inspection and its patch | no action without its records, records that are true, and only on what was inspected |
| Read-only commands, demo service, manager entry point, manifests | none, or one SQL table | print, serve, start | — | — |

Interactions: the controllers and the controllers of Kubernetes, CloudNativePG,
Argo Rollouts and Envoy Gateway share state only through the API server. Typed
objects are read from informer caches, which lag; unstructured ones are read live.
The modules have a cache for each object whose age decides something (the primary
objects, the Rollout, the Namespace, tenants) and read the others live; section 2
says which. Each kind has one worker, so one object
is never reconciled twice at a time, but any other actor may act between two
calls of a reconcile. The portal calls the same functions as the command line
and publishes through GitHub; Argo CD closes the loop.

The hazards found in the code, each at its line, are in `PROJECT.json`.

## 2. Modules

| Module | Contents |
|---|---|
| `DatabaseLifecycle` | the Database controller, its properties and its inductive invariants |
| `DatabaseContract` | what that controller promises, without reconciles and caches; `DatabaseLifecycle` implements it |
| `MCDatabaseLifecycle` | the instance TLC checks |
| `DatabaseLifecycleProofs` | the theorems about `DatabaseLifecycle`, and that it implements the contract |
| `ApplicationDelivery` | rolling and canary delivery and the migrations between them |
| `MCApplicationDelivery` | the instances TLC checks, as records of limits |
| `ApplicationDeliveryProofs` | the theorems about `ApplicationDelivery` |
| `TeamLifecycle` | the Team controller, its properties and its inductive invariant |
| `MCTeamLifecycle` | the instance TLC checks |
| `TeamLifecycleProofs` | the theorems about `TeamLifecycle` |
| `TenantCatalog` | pure operators: the catalog, the changes the renderer accepts, what each one leaves |
| `ChangePipeline` | the way of a change from the plan to the cluster; extends `TenantCatalog` |
| `MCChangePipeline` | the instance TLC checks, with the catalogs it starts from |
| `ChangePipelineProofs` | the theorems about both |
| `BreakGlass` | break glass from the inspection of a Rollout to the last Event, by the commands and by the portal |
| `EventStream` | the portal's event stream, the page that reads it, and their inductive invariant |
| `Portal` | the session, change plans and restarts; extends `BreakGlass` and `EventStream` and composes the three |
| `PlatformLifecycle` | up, down and verify, their stages and the stages' process trees |
| `Workstation` | `Portal` and `PlatformLifecycle` on one checkout |
| `MCWorkstation` | the instance TLC checks, as a set of budgets |
| `BreakGlassProofs`, `EventStreamProofs`, `PortalProofs`, `WorkstationProofs` | the theorems about these; the third extends the first two, the last the third |

Each component is one module: its state as `VARIABLES`, one action per API call
(or per group of calls nobody can tell apart), constants that bound the
environment. A few operators marked "Mutant" follow the definition they distort:
each stands for a plausible bug and is what the property named beside it in
`PROJECT.json` detects.

### 2.1 DatabaseLifecycle

One Database *name*, which may be deleted and created again (`Lifetime`, the
UID). `db` is the API server's copy, `cached` the informer's, `rec` the reconcile
in progress (`pc`, the copy it works on, the status it will write) and `dirty`
whether the key is in the workqueue. `children` maps each group of owned objects
to the lifetime that owns it; `final` is the deterministic final Backup, which
has no owner, and `backups` summarises the scheduled ones.

| Code | Model |
|---|---|
| `Reconcile` 77–91 | `StartReconcile`, `Entry`, `AddFinalizer` |
| 92–117 validation, tenancy, credential | `Admit` (the result is part of `db.valid`, or any if `MayReject`) |
| 118–180 the children, in order | `Plan`, `ReconcileChild`, `ApplyChild`, `DeleteChild` |
| 182–199, 400–508 | `Observe`, `BackupPhases`, `StatusFromCluster` |
| `patchDatabaseStatus` | `PatchStatus`, `StatusPatchNeeded`, `Merge` |
| `reconcileDatabaseDeletion` 312–365 | `DeletionEntry`, `CreateFinalBackup`, `FinalBackupGate`, `DeleteFinalBackup`, `DeleteCluster`, `ReleaseFinalizer` |
| returned errors, a crash | `Interrupt`, `WriteError` |
| watches, `databaseForBackup` | `Watch`, `EnqueueForBackup` |
| CloudNativePG, Barman, the collector | `ClusterBecomesReady`, `ClusterOutage`, `FinalBackup…`, `ScheduledBackup…`, `CollectChild`, `CollectBackups` |

The credential, the object store and the archive's recovery settings are the
child `Archive`; monitors and the remaining policies are `Support`. A status is
reduced to what the code compares: generation, phase, and the Ready condition
with the generation it was made at. A merge patch writes the fields in which the
new status differs from the cached one, to whatever object has the name.
The history variables `excused`, `saved`, `removed`, `reused` and `backedUp`
record why a Cluster could go; no guard reads them.

`DatabaseContract` is the view of whoever keeps data in the Database: a data plane
belongs to the Database that exists, it is removed only while that one is being
deleted and after its loss was cleared, and the Database goes after it. The
refinement mapping reads the contract's variables off the state: `last` is
`born`, `live` is `db.uid`, `ending` is `db.deleting`, `data` is
`children["Cluster"] # 0`. Two contracts differ in what clears a lifetime:
`KeepsContract` counts `Justified` (a waiver, a Backup of this lifetime's data, or
a completed one that an earlier lifetime left under the name), `KeepsOwnContract`
only the first two, as ADR 0010 has it.

### 2.2 ApplicationDelivery

One Application. The variable `limits` holds the bounds and the timing of a
behaviour and is chosen at its start, so that one run covers several kinds. An
image tag and the digest it resolves to are one version
number. `dep` holds the Deployment's template and its ready pods, `svc` the base
Service with the isolation label it selects, `ro` and `cro` the Rollout and the
informer's copy, `route` the HTTPRoute with its acceptance, its weights and its
two drain stamps, `proxy` and `inflight` what Envoy does with it. For the properties
only, `approved` records which versions were allowed to become active,
`interrupted` those whose release was cut short (by an edit, or by a crash or an
error between the Deployment's write and the Rollout's), and `rushed` whether a
`"strategy"` or a `"tag"` was edited before a migration had ended. A migration to
the canary has ended when requests go to its Services and the controller's cache
has the Rollout, one to rolling when no Rollout is left there and in the cache. A
new tag on the way to a canary is no rush.

| Code | Model |
|---|---|
| `Reconcile` 76–159 | `StartReconcile`, `Admit` |
| `shouldHoldServingDeployment` | `ShouldHold` |
| `freezeRollout` | `FreezeRollout` |
| `reconcileSharedChildren`, `mutateDeployment`, `applyRollingMigrationIdentity` | `ApplyDeployment`, `DesiredDeployment`, `ManagesReplicas`, `Isolated`, `ApplyService` |
| `reconcileProgressiveResources`, `configureBootstrapRollout` | `ApplyCanaryServices`, `DesiredRollout`, `ApplyRollout` |
| `reconcileRoute` and the two switches | `WithBackend`, `MaySwitchToCanary`, `CanaryRoute`, `MaySwitchToBase`, `RollingRoute` |
| `waitForRouteDrain` and the clean-up | `CutoverDrain`, `DropServices`, `CleanupDrain`, `DropRollout` |
| `workloadStatus`, `canaryWorkloadStatus`, `strategyMigrationStatus` | `WorkloadStatus`, `CanaryStatus`, `MigrationStatus`, `ProvenStatus` |
| `resolvePodImageDigest`, `podImageMatchesDesired` | `ReadyPods`, `Digests` |
| `patchStatus` | `PatchStatus`, `StatusPatchNeeded`, `Merge` |
| Deployment controller, Envoy, Argo Rollouts and its plugin | the actions under "External" |

What the model assumes about the outside, beyond what the code says:

* a Deployment replaces its pods at once, the new ones ready before the old ones
  go (`maxUnavailable` is 0), and a canary has one weight step;
* the drain delays (15 s and 30 s) outlast what they wait for: Envoy has taken
  over an accepted route, and has dropped removed endpoints, when they elapse;
* with `slow`, pods take longer to become ready than a reconcile takes to
  finish and the Rollout's cache to catch up;
* the Gateway plugin cannot set weights on a route that names the base Service,
  as the comment at `application_progressive.go:481` says;
* an analysis of a version other than the candidate's finds no series and fails;
* the Pods, the Deployment, the base Service and the HTTPRoute are read live, where
  the code reads informer caches (`application_progressive.go:186`, `262`,
  `668-675`; `application_provenance.go:52`). A write that rests on a lagging copy
  is a conflict, which is an API error here; a status that rests on one is a status
  of a little earlier;
* the end of a drain calls the reconcile again. Where policy may reject it need
  not, since `application_controller.go:180-187` drops the delay.

Left out: the Application's deletion and finalizer, the ConfigMap, the
AnalysisTemplate object, monitors and egress policies, inconclusive analyses,
the delayed scale-down of old ReplicaSets, and a Rollout deleted by hand.

### 2.3 TeamLifecycle

One Team *name* with several lifetimes, its Namespace and the Applications and
Databases in it. `ns` is the Namespace with the owner in its UID annotation and
whether it carries the Team's label; `layers` holds one object per layer of the
boundary, `role` whether the installed ClusterRole has the expected rules. A
tenant is absent, live or terminating, and a Database also says what its deletion
waits for (`hold`). Each of the four informers lags on its own; `rec` is the
reconcile in progress.

| Code | Model |
|---|---|
| `Reconcile` 68–94 | `StartReconcile`, `Entry`, `AddFinalizer`, `LiveEntry` |
| the four stages, `reconcileManagedObject` | `CheckOwnership`, `WriteObject` (`WriteNamespace`, `WriteLayer`), `NextStage` |
| `handleReconcileFailure`, `*TeamStatus` | `ReconcileFailure`, `ReadyStatus`, `FailedStatus` and the other reports |
| `patchTeamStatus` | `PatchStatus`, `StatusPatchNeeded`, `Merge` |
| `reconcileDeletion` | `DeletionEntry`, `ListApplications`, `DeleteApplications`, `ListDatabases`, `DeleteDatabases`, `DeleteNamespace`, `ReleaseFinalizer` |
| the mapping functions and watches | `EnqueueForNamespace`, `EnqueueForRole`, the `Watch…` actions |
| people, others in the cluster, Kubernetes, the tenants' controllers | the actions under "External" |

The ownership check and the write are two steps, as the code makes two calls.
`unseen` and `claimed` record, for the properties only, what came into being
behind the back of the reconcile in progress: tenants its caches did not have,
objects that somebody else took.

Left out: the content of the objects of a layer, and the periodic resync of the
informers (ten hours by default), which would end a wait for a missed event.

### 2.4 TenantCatalog and ChangePipeline

One Team, its Applications and Databases and one Service name. `TenantCatalog` has
no variables: a catalog is a function from names to entries, `Accepts` says which
proposal the renderer takes and `Rendered` what it leaves. In `ChangePipeline`,
`main` and `head` are the catalog and the number of the newest commit, `requests`
the changes with their phase, base and result, `child` the Team's Argo CD
Application (pinned revision, cascade finalizer, revision last compared) and
`live` the objects in the cluster with the deletion request each carries.

| Code | Model |
|---|---|
| `ChangeRequest.Validate` | `Proposals` and the sets it is made of |
| `LoadCatalog` | `Valid` |
| `RenderChange` and the operations it calls | `Accepts` and the `Accepts…` operators, `Rendered` with `Retire`, `Remove`, `Scaffold`, `Activate`, `RemoveService` |
| `metadata`, `approveManifest` | `Manifest`, `Protected`, `Prunable`, `Wave` |
| `repositoryBaseSHA`, `newTypedWriteCommand` | `Plan`, `Submit` |
| `verifyFinalization` | `Witness`, `Verified` |
| `.github/workflows/platform-change.yml` | `Publish`, `Abandon` |
| `gitops/clusters/local/templates/applications.yaml.tpl` | `ChildOf`, `SyncRoot` |
| GitHub's merge; Argo CD's comparison, apply, prune | `Mergeable`, `Merge`; `CompareChild`, `Apply`, `Prune`, `PruneChild` (external) |

What the model assumes:

* Git merges entry by entry, and the block of a Team's entry holds all others; a
  merge is one commit (squash, as `CONTRIBUTING.md` asks). With
  `RebaseMerges = FALSE` a pull request is merged on its base only, which a
  branch protection could demand;
* `team.update` stands also for a change of another tenant, which moves main;
* the approval revision is not a parameter: `verifyFinalization` ties it to the
  child's compared revision and to an ancestor of the base, to nothing else;
* the ID of a change that came to nothing is used again, for a new one;
* an object that Argo CD deletes is gone at once: what its finalizers wait for is
  the subject of 2.1 and 2.3; the root renders and applies the head in one step.

Left out: the contents of manifests and generated sources, encoding and digests,
the release plan, the development commands, several Teams, and the Application
sets that run when only part of the platform is up.

### 2.5 BreakGlass, EventStream and Portal

The portal is one process with three concerns, a module each. `Portal` extends
the other two; `Change`, `BreakGlassStep` and `Stream` are the steps of one concern
alone, `Discover` and `BreakGlassDone` those that also broadcast to the pages,
`Restart` the one that ends all three. A handler is a record with a program
counter, because the mutex covers single steps only.

| Code | Model |
|---|---|
| `handleLaunch`; its minute, the session's eight hours | `Launch`, `SessionEnds` |
| `handlePlan`, `expirePlansLocked` | `StartPlan`, `FinishPlan`, `Swept`, `PlanExpires` |
| `repositoryBaseSHA` | `BaseSHA` |
| `handlePlanSubmit`, `dispatchChange` | `Submit`, `CheckBase`, `RenderAgain`, `Dispatch`, `Discover` |
| `broadcast` | `Broadcast`, `Newest` |
| `handleEvents` | `Connect` (`NotSeen`), `WriteReplay`, `WriteQueued`, `Heartbeat`, `Break` |
| the page (`web/portal/src/App.tsx`), its views and its `EventSource` | `OpenPage`, `Navigate`, `Receive`, `ClosePage` |
| `handleBreakGlassPlan`, `handleBreakGlassExecute` | `Inspect`, `BreakPlanExpires`, `Claim`, `ReadAgain` |
| `newBreakGlassCommand` | `Command` |
| `writeBreakGlassAudit`, `RecordRolloutEvent`, `breakGlassPatch`, `PatchStatus` | `WriteAudit`, `Announce`, `Patch` (`TestPasses`, `Patched`), `CloseAudit`, `Report` |
| the end of a process | `CommandDies`, `Restart` |
| the Rollouts controller and other operators; GitHub; the owner of the checkout | `RolloutChanges`; `MainMoves`; `Edit`, `Pull` |

What these modules abstract and assume:

* what a request renders to is the content it was rendered from: the commit of
  the checkout and whether tracked files were edited; an edit that is taken back
  restores the content;
* a Rollout is what `breakGlassPatch` reads of it, with its UID and resource version;
* every request to the API server or to GitHub may fail, also after it was carried
  out; a write of the audit file that fails leaves it as it was or empty, since
  `os.WriteFile` truncates first;
* the four git commands of `repositoryBaseSHA` are one look at the checkout;
* a canary has a step index, so that `app promote` is not refused for want of a pause;
  its refusal of a Rollout with `spec.paused` is left out, which allows more than the
  code does;
* one page is modelled, since pages share the numbers and the replay only; an event
  is its ID, since no view looks at what it says;
* a page shows one view at a time, which is `live` or not. The overview, a Team's page
  and the requests are given the counter that each event raises (`App.tsx:56`, `57` and
  `81-83`, `60` and `101`) and fetch their snapshot again; the services, the list of
  Teams, an Application's and a Database's page fetch theirs when they are opened and
  not again. Going to another view is `Navigate`. A fetch does not fail;
* refusals before anything changes are left out: a foreign host, a wrong Origin or
  CSRF token, malformed input, the tenth write of a minute.

`overtaken`, `disturbed`, `lost` and `cut` are for the properties only.

### 2.6 PlatformLifecycle and Workstation

One command after another, on Unix or on Windows. `invocation` is the command
with its list of stages and its program counter, `tree` the processes of the
stage: the script, and one descendant that the operating system counts to the
process group or job (`inside`) or not (`away`), with or without the script's output
pipes. `outcomes` and `strays` are for the properties: how each stage ended and
which processes outlived theirs.

| Code | Model |
|---|---|
| `newPlatformLifecycleCommand`, `newPlatformVerifyCommand`; the lists of stages | `Invoke`, `Stages` |
| `runPlatformUpPreflight`, `checkoutHeadRevision` | `Preflight`, `Resolve` |
| the loops over the stages | `Advance`, `StopsAt` |
| `runPlatformStage`, `runCommandInProcessTree` | `BeginStage`, `AfterStart`, `Return`, `CutOff`, `Drain`, `EndStage` |
| `process_tree_unix.go`, `process_tree_windows.go` | `Terminated`, `TreeKilled`, `RootKilled`, `TreeClosed` |
| scripts, clock, operator | `Spawn`, `RootExits`, `ChildExits`, `StrayExits`, `DeadlinePasses`, `PressCtrlC`, `CommandKilled` |

`Workstation` puts these commands on the portal's checkout: `up` and `verify`
resolve its commit while the owner pulls. Left out: what the scripts do, and
commands that run concurrently (the code has no lock against them; their stages
have trees of their own, so no property here relates them).

## 3. What the runs check

Bounds are constants; every one is in the `.cfg`.

| Run | Bounds | Shows |
|---|---|---|
| `DatabaseSafety` | 2 lifetimes, 1 edit, 1 fault, 1 failed Backup, lagging caches, edits during deletion | `RemovalJustified`, `FinalizerProtects`, `LiveDataPlaneKept`, `KeepsContract` |
| `DatabaseNoStaleRead` | 2 lifetimes, 1 scheduled Backup, rejections, reconciles start on a current cache | `KeepsOwnContract`, `FinalBackupCleanedUp`, `ReadyMeansBackedUp` |
| `DatabaseLiveness` | 1 lifetime, 2 edits, 1 fault, 1 failed Backup, fairness | `HangsOnlyWithoutBackup`, `Converges` |
| `ApplicationSafety` | 2 versions; `Lagging`: 2 edits, 1 fault or 1 failed canary, lagging caches, slow pods; `Eager`: 2 edits at any time, pods as fast as reconciles, current caches; `Rejecting`: as `Eager` with 1 edit, and rejections | `ServedUnlessRushed`, `NoTrafficToRemoved`, `ApprovedUnlessInterrupted`, `ProvenanceAtomic`, `LastHealthyKept` |
| `ApplicationSettles` | 2 versions; `Ordinary`: 2 edits, 1 fault, 1 failed canary, current caches, slow pods; fairness | `FullOnlyWithCanaryRoute`, `Settles` |
| `ApplicationRevertedMigration` | 2 versions, 2 edits at any time, nothing fails, current caches | that `TrafficServed` does not hold |
| `ApplicationPinnedPromotes` | 2 versions, 1 edit, pinned images, current caches | that `ApprovedOnly` does not hold |
| `TeamSafety` | 2 lifetimes, 2 tenants created at any time, 1 Namespace or layer taken by others, current caches | `NamespaceGoesLast`, `ApplicationsGoFirst`, `OthersUntouched`, `NoOrphan` |
| `TeamLiveness` | 1 lifetime, 1 edit or annotation, 1 fault (crash, error, drift, failed Backup), 1 tenant, fairness | `Settles`, `DeletionEnds` |
| `ChangeSafety` | 3 changes, 2 of them at a time, 2 Applications, 1 Database, a Service that is a guest or owns its Team; merges on a moved main | `CascadeArmed`, `PrunedTwiceApproved`, `FinalizedIsPrunable` |
| `ChangeUnapproved` | 3 changes, 2 at a time, merged on their base only | that `OnlyRetiredLeave` does not hold |
| `WorkstationSafety` | one of seven budgets: `OfPlans` (2 plans, 2 handlers, 3 edits, 2 commits on main, 1 plan kept), `OfRequests` (1 operation of the portal, 2 requests), `OfCommands` (2 commands, 1 change of the Rollout by others), `OfMoves` (1 operation, 1 request, 1 such change), `OfStream` (a page, 6 IDs, a queue of 1, a replay of 2), `OfPortal` (1 plan, 1 operation, 1 request and the page), `OfPlatform` (2 commands on either system, 2 commits) | `OneRunPerPlan`, `ReviewedIsDispatched`, `RecordedFirst`, `RecordsTell`, `OnInspected`, `PageCurrent`, `NoneTwice`, `NothingRunsOn`, `StagesTell` |

Why the bounds suffice: two lifetimes are what name reuse needs, one edit
distinguishes "backups on" from "off" in both directions, and one fault already
interrupts every multi-step sequence at each point; a second fault repeats the
same restart. Two versions and two edits make a release during a migration, a
migration during a release, and a migration followed by its reversal or by a new tag.
One
Application and one Database are enough for the order of a Team's deletion, since
no step compares two tenants of a kind; one claim can fall between any check and
its write. `TeamSafety` starts reconciles on current caches (they may lag again
before the reconcile ends); that the first three properties do not need this is
what the theorems of section 4 say. Three changes are an approval, a
finalization and one that races them, and two at a time let any of them be
planned before and merged after another; the catalogs to start from spare the
changes that would build them. On the workstation two submissions race for one
plan while another takes the only place kept; two requests to act race for one
Rollout; six IDs overflow a queue of one and a replay of two and leave some for a
reconnection. The budgets of the portal's parts are separate because the parts
share the process and the stream only, which `OfPortal` covers; the proofs of
section 4 cover any combination. Two platform commands let what outlives the
first be seen by the second. All runs have `CHECK_DEADLOCK FALSE`: with its
bounds used up and nothing left to reconcile or merge, the system stops.

### Deviations

Three runs check a statement of the repository and find it violated.

* `ApplicationRevertedMigration`: the base Service loses its endpoints when a
  migration to canary is reverted before its cut-over.
* `ApplicationPinnedPromotes`: with pinned images, the reconcile that starts a
  canary records it as promoted: it sees the old Rollout status in the cache and
  the old pods as pods of the candidate. No fault and no stale start is needed.
* `ChangeUnapproved`: the retirement of a Service that owns its Team marks the
  Team and the Service's parts; its finalization drops the whole tenant. Another
  Application of that Team, never marked, leaves main and is deleted by the
  cascade.

More limits are visible when a configuration is changed.

* `DatabaseSafety` with the property `KeepsOwnContract`: a reconcile that starts on a
  lagging cache after the release creates the final Backup again; it completes on
  the next Database of that name and lets that one's deletion through on old data.
  The proved `RemovalJustified` says this is the only way round the gate.
* `ApplicationRevertedMigration` with `ServedUnlessReverted` in place of
  `TrafficServed`: the base Service loses its endpoints also when nothing is reverted.
  From canary to rolling, with requests on the base Service again, the drain still
  running and the Rollout still there, any edit moves the Service's selector to the
  label of the new generation (`application_progressive.go:280-304`) while the ready
  pods carry the old one, against `README.md:165`. As long as a Rollout is there, each
  generation gets a label of its own. `ServedUnlessRushed` excepts what follows the
  first edit of either kind: of the strategy, while a migration is under way, or of
  anything on the way to rolling.
* `ApplicationSafety` with `LastHealthyKept` freed of its premise: a reconcile on a
  cache older than its own last status patch erases the last healthy release, or puts
  an older status over a newer one.
* `ApplicationSafety` with `ApprovedOnly`: a version becomes active without an analysis
  after a crash or an error between the Deployment's and the Rollout's write at the end
  of a hold; and when it is asked for again after an edit has cut its first release
  short (a rolling release that was rejected and then asked for as a canary, or a tag
  that goes back and forth), because the pods of that release are still ready. Pods that
  are ready before the reconcile has ended, edits during a migration and pinned
  images do it too. `ApprovedUnlessInterrupted` excepts the versions of the first two
  cases by name, in `interrupted`, and the last three by its premise.
* `DatabaseLiveness` with `DeletionCompletes`: a final Backup that failed is never
  replaced, though `docs/data-recovery.md:110-112` says that reconciliation
  continues after a repair. With no failed Backup and no edit: a fault before the
  Cluster is created, or after it was deleted and before the release, leaves a
  deletion that waits for a Backup of a Cluster that does not exist.
* `ApplicationSettles` with the limits `Eager` and `FullOnlyWithCanaryRoute` freed of
  its premise: a switch to canary before the first healthy release skips the hold; the
  traffic-routing Rollout then waits for a route that waits for the Rollout.
* `TeamSafety` with `StaleReads = TRUE`: `NoOrphan` fails, the Team is released
  while the informer does not have the Namespace the Team has just made.
* `TeamLiveness` without the first disjunct of `Blocked`: the controller refuses a
  terminating Namespace whose label was removed, and the removal of an unlabelled
  Namespace wakes nobody, so the Team waits for a resync.
* `ChangeSafety` with `CatalogLoads`: after `service.retire`, `database.finalize`
  is accepted before `service.finalize` and leaves a `databaseRef` to nothing;
  `LoadCatalog` then fails for every operation of every tenant. A Service
  scaffolded over a Retiring Database lists that name twice, with the same effect.
* `PrunedTwiceApproved` lets the finalization of an approval of the Team count for
  what the Team has: the approval may be a `service.retire`, which names the Team and
  not its other objects, and its finalization drops every entry.
* `FinalizedIsPrunable` excepts the second component of a Service that is finalized, which
  `verifyFinalization` does not look at: it may leave main while the object in the
  cluster is still protected, and stays.
* `PageCurrent` excepts `overtaken`: the `select` of `handleEvents` may take the ticker
  while events are queued; the heartbeat then has a newer ID than they. If the
  connection breaks before they are written, which the server itself sees to every
  45 seconds (`WriteTimeout`, `portal.go:127`), the page reconnects with the
  heartbeat's ID and the events are not replayed. A full queue, in contrast, is
  harmless: the queued events reach the page after the drop, and it then fetches all.
* `WorkstationSafety` with `EveryViewCurrent`, which is `PageCurrent` for all views:
  `docs/troubleshooting.md:724` has it that the stream "refetches typed snapshots", but
  a view that is not given the counter stays as it was when it was opened, connected
  and with nothing under way, until its owner leaves it. The Application's page, with
  the Rollout and break glass on it, is one of them; what break glass acts on is read
  afresh (`OnInspected`).
* `ReviewedIsDispatched` excepts `disturbed`: `repositoryBaseSHA` looks at the working
  tree with four commands and `RenderChange` reads it afterwards; an edit in between
  that makes the plan render as it did when it was reviewed passes both looks.
* `RecordsTell` says what the records mean, which is less than one might read in
  them. A patch whose answer is lost is recorded as failed although it was applied.
  A record that could not be closed stays "Attempted", or empty. When the first Event
  cannot be created, the command closes its record as failed and the portal
  (`portal_api.go:760`) leaves it "Attempted".
* Break-glass operations that expired are swept when a *change* is planned
  (`portal_api.go:479`) and by nothing else; `app promote` does not ask whether there
  is a candidate, `app abort` does.
* After Ctrl-C, `down` still starts every stage and kills each at once, since the
  stages inherit the cancelled context. A stage that completed may be reported as
  timed out when its deadline passes as it ends, never the other way round.
* `NothingRunsOn` excepts, on Unix, a stage that ended by itself and a `platformctl`
  that was killed: what they leave in the process group runs on. A process that left
  the group, or that Windows started before the job was assigned
  (`process_tree.go:28-31`), escapes both.
* `StagesTell` compares the revisions of `up` only: `verify` resolves HEAD before each
  of its stages, which may check different commits. The scripts run from the working
  tree, which the owner may pull while `up` goes on reporting the revision it resolved.

### Fairness

`FairSpec` assumes what the code's environment gives: the workqueue runs an
enqueued key and an interrupted reconcile is retried (weak fairness of
`Controller`), informers catch up (the `Watch…` actions), Kubernetes,
CloudNativePG, Envoy and Argo Rollouts do what they were asked, and timers
expire. Nothing is assumed about people: nobody has to edit, force or delete,
except that the administrator restores an owner ClusterRole that drifted.
In `ApplicationDelivery` an analysis ends, with either result. Weak fairness is
enough everywhere, since none of these actions is disabled by another actor
infinitely often within the bounds. Nothing is assumed of the workstation: its
properties are about what never happens, since an operator need not confirm, GitHub
need not answer and a script need not end.

## 4. What is proved

### DatabaseLifecycleProofs

For every number of lifetimes, edits, faults and
Backups, from the two assumptions on the constants' types in `DatabaseLifecycle`:

| Theorem | Statement |
|---|---|
| `TypeCorrect` | `Spec => []TypeOK` |
| `InvariantHolds` | `Spec => []IInv` |
| `RemovalsAreJustified` | `Spec => []RemovalJustified` |
| `DataPlaneIsGuarded` | `Spec => []FinalizerProtects` |
| `LiveClusterIsKept` | `Spec => LiveDataPlaneKept` |
| `ContractIsKept` | `Spec => KeepsContract` (refinement) |
| `ReadyTakesABackup` | `~StaleReads => (Spec => []ReadyMeansBackedUp)` |
| `OwnFinalBackup` | `~StaleReads /\ ~EditsWhileDeleting => (Spec => []CleanupInv)` |
| `FinalBackupGoes` | the same premise `=> (Spec => []FinalBackupCleanedUp)` |
| `OwnContractIsKept` | the same premise `=> (Spec => KeepsOwnContract)` (refinement) |

The first three safety properties are not inductive: a reconcile acts on a copy of the
Database it took earlier, so one has to know how far that copy may be behind.
`IInv` adds

* `Births`, `TerminatingIsHeld`: UIDs are given in order; a terminating Database
  still has its finalizer;
* `CacheLags`: a cached or remembered copy is of the present lifetime or an
  earlier one, and what it says of deletion is still true;
* `WaiversRecorded`: a copy that is terminating without a final Backup was
  excused;
* `LiveReconcile`, `DeletionReconcile`: what each program counter implies about
  the copy, and that past the gate the removal is justified;
* `ClusterOwned`, `FinalBackupMeaning`: a Cluster's owner has been born, and a
  completed final Backup saved some lifetime or will be counted as reused.

The proof has one lemma per group of actions and, under it, one step per action.
Where an action leaves a part's variables alone, the part follows from that.

The refinement maps each step to a step of `DatabaseContract` or to a stutter:
`ContractStutters` for those that leave the mapped variables alone, then
`IntentKeepsContract` (create, ask to delete, waive), `ControllerKeepsContract` (the
first Cluster is `Provision`, the gate, when it finds the Backup complete, is `Clear`,
`DeleteCluster` is `Remove`, the release is `Vanish`) and `OutsideKeepsContract`. Two
steps need `IInv`: the removal, which is justified by `DeletionReconcile`, and the
Database's disappearance, at which `FinalizerProtects` and the release say that
no Cluster is left.

The last four theorems are about a controller that starts each reconcile on an
up-to-date cache (it may lag again before the reconcile ends). Without that they are
false, as `DatabaseSafety` shows for `KeepsOwnContract`; this is the price of a final
Backup that is addressed by the Database's name. Both invariants begin with
`FreshReconcile`: the object in memory is of the lifetime that exists, so what it says
of a generation that is still the live one is still true.

* `ReadyInv` follows the claim "Ready" from the Backup to the stored status. Only a
  Backup that is on record completes an observation (`BackupsOnRecord`); what is about to
  be reported is about the generation that was read (`ReportIsSound`); and what is
  stored for the current generation was (`StatusIsSound`). The generation is needed in
  both, because an edit may turn backups on between the observation and the patch.
* `CleanupInv` is about the deletion. Its second premise is that nobody changes
  `backups.enabled` of a terminating Database: a deletion that began with a final Backup
  would go on without and leave it behind. Then a deletion has one path
  (`OneDeletionPath`), the final Backup is of the Database that is terminating and is
  gone before the Cluster is (`FinalBackupOwned`), and therefore nothing is `reused`.
  `OwnContractIsKept` follows from `ContractIsKept`, since the two contracts differ in
  `reused` only.

### ApplicationDeliveryProofs

For any number of versions and any set of limits, from `BoundsAssumption`:

| Theorem | Statement |
|---|---|
| `DeliveryTypeCorrect` | `Spec => []TypeOK` |
| `CleanupIsDrained` | `Spec => []NoTrafficToRemoved` |
| `ProvenanceIsAtomic` | `Spec => [](~PinnedImages => ProvenanceAtomic)` |
| `LastHealthyIsKept` | `Spec => LastHealthyKept` |
| `FullWaitsForRoute` | `Spec => []FullOnlyWithCanaryRoute` |
| `TrafficIsServed` | `Spec => []ServedUnlessRushed` |
| `ApprovedIsAnalysed` | `Spec => []ApprovedUnlessInterrupted` |

Five invariants, each with one lemma per group of actions:

* `DrainInv`: an elapsed stamp still means what it was made for, since other backends
  are another route without stamps (`RouteTells`), and each step of the clean-up is
  reached only with the stamps of those before it (`StepTells`). The drain's timing is
  an assumption of the model (`CutoverElapses`, `CleanupElapses`); what is proved is
  that nothing the controller does in between makes a stamp outlive its meaning.
* `StatusInv`: every status in circulation (stored, cached, remembered, about to be
  written) is `Atomic`, so a merge of two of them is; what is about to be written keeps
  the last healthy release of the status that the reconcile remembers or reports the
  version it has read as healthy (`Kept`, `Renewed`); and with current caches that
  status is the stored and the cached one, which only the reconcile's own last step
  changes, so that a merge stores the report as a whole.
* `Bootstrap`, with current caches and without early edits: an Application that has
  never been healthy has had one strategy; a later canary starts without a Rollout and
  holds the Deployment, so that its Rollout is not full, until the route has two
  backends; a rolling reconcile has paused the Rollout before it moves the route.
* `TrafficInv`, with lagging caches and until an edit is rushed: `Serving` strengthens the
  property from Envoy's present backend to the one the route names, and from a stored
  status to one that is cached, remembered or about to be written. It is kept because a
  backend that is left or cut down is not the one in use. Under the rolling strategy
  `Isolating` and `RollingSteps` say that the route returns to the base Service only
  when that selects ready pods of the Deployment, by the label of the generation, and
  that the Rollout was paused before it; under the canary strategy `FirstCanary` says
  that a reconcile which knows of a healthy version holds the Deployment until the
  cache shows a stable Rollout, and `Lasting` that this Rollout is then still there.
  A reconcile may go on for the strategy of before an edit; `Changing` and `Generations`
  say that it then finds no resources that the other strategy serves from, and does
  them no harm. `Traffic` adds that without `EagerEdits` no edit is rushed, which
  `ApprovalInv` builds on; an edit that is not rushed keeps `TrafficInv` whatever is
  under way (`EditTraffic`).
* `ApprovalInv`, with slow pods, without early edits and pinned images: a version that
  is neither approved nor interrupted is the desired one (`OnRecord`, `FormerTags`),
  has left no marks before a reconcile has read it (`NoMarksYet`), and the reconciles
  that have read it know the active version (`KnownActive`). `Analysed` then follows its
  two writes: before and after them the Deployment has the version exactly if the
  Rollout awaits its analysis (`BothWritten`), between them not yet (`HalfWritten`),
  which is why a crash there counts as an interruption; and once its pods are ready
  the cache, too, shows a Rollout that is not healthy (`PodsAhead`), so that neither
  the hold nor the status can mistake it for one that was promoted. It rests on
  `TrafficInv`, which provides a stable Rollout while a hold ends.

`ProvenanceIsAtomic` needs its premise: for an image pinned to a digest,
`podImageMatchesDesired` accepts pods of any tag.

### TeamLifecycleProofs

For every set of Applications and Databases and every bound, from the two
assumptions on the constants in `TeamLifecycle`:

| Theorem | Statement |
|---|---|
| `TypeCorrect` | `Spec => []TypeOK` |
| `InvariantHolds` | `Spec => [](TypeOK /\ IInv)` |
| `NamespaceIsLast` | `Spec => NamespaceGoesLast` |
| `ApplicationsAreFirst` | `Spec => ApplicationsGoFirst` |
| `ForeignObjectsUntouched` | `Spec => OthersUntouched` |
| `NoNamespaceIsOrphaned` | `~StaleReads => (Spec => NoOrphan)` |

The four properties speak about one step; what makes them true happened earlier
in the reconcile. `IInv` carries it along:

* `TenantsSeen`: a tenant is in the cache or recorded as unseen, so that an empty
  list (`ApplicationsListed`, `TenantsListed`) says something about the server;
* `NamespaceSeen`, `NamespaceChecked`, `LayerChecked`: a passed ownership check
  can be outdated only by a recorded claim;
* with current caches, `HeldByFinalizer`, `NamespaceNeedsFinalizer` and
  `ReleaseJustified`: past the finalizer a reconcile works on the Team that is
  there, a Team without finalizer has no Namespace, nor has one to be released.

The proof splits the steps of others into those about the Team, about tenants and
about the boundary; each group leaves two thirds of the invariant alone. The
controller's steps have one lemma each, or share one where they end or continue a
reconcile in the same way.

### ChangePipelineProofs

For every set of Applications and Databases, every bound on changes and changes in
flight, with and without `RebaseMerges`, from `NamesAssumption`, `RequestsAssumption`,
`PipelineAssumption` and `InitialAssumption` (the system starts from catalogs in which
nothing is being deleted, what is there belongs to the Team, and a Service has
components):

| Theorem | Statement |
|---|---|
| `PipelineInvariant` | `Spec => []PipelineInv` |
| `PipelineTypeCorrect` | `Spec => []TypeOK` |
| `CascadeIsArmed` | `Spec => []CascadeArmed` |
| `PrunedIsTwiceApproved` | `Spec => PrunedTwiceApproved` |
| `FinalizedCanBePruned` | `Spec => FinalizedIsPrunable` |

The first part is about `TenantCatalog` alone. `RenderedChanges`: whatever an accepted
change does, each entry stays, becomes a fresh one without a deletion request
(`Renewed`), is marked with the change's own request (`Retired`), or goes, and then the
finalization names the request that it carries, or the Team's (`Removed`).
`ShapeKept`: the catalog keeps its `Shape`.

`PipelineInv` then says:

* a deletion request that main, a rendered base, the child's target or a live object
  carries is merged and approves that object (`Marked`, `LiveMarked`). So the ID of a
  request that is not merged is nowhere, and a merge marks with its own ID only
  (`MergeMarks`): main never gets back a request it has lost;
* therefore a retirement is seen as a whole. If the child has one object under request
  *d*, it has every object that main still has under *d* (`TargetWhole`); so has it if
  the cluster has one (`LiveBehindTarget`); and the cluster has those of earlier waves
  (`WavesInOrder`);
* so what `verifyFinalization` finds in one object at one moment holds, for the objects
  of earlier waves too, until the merge (`StillVerified`, `Secured`): later syncs can
  only bring the same request or remove the object. The child's finalizer follows from
  it for a Team (`MergeArms`), and for other objects that they are not protected;
* what carries a request and has left Git has been finalized (`Explained`);
* main has one commit per merged request (`Counted`), which bounds `head`.

The cited lines of the code enter through `Witness` (which object is looked at), `Wave`
(a Service's Database is applied before its components, so that looking at a component
answers for the Database) and `Mergeable` (a Team is removed only from an unchanged
catalog).

### BreakGlassProofs, EventStreamProofs, PortalProofs, WorkstationProofs

For every number of requests, plans, handlers, commits, commands and every queue,
from `BreakAssumption`, `StreamAssumption`, `PortalAssumption`, `PlatformAssumption`
and `WorkstationAssumption` (types; no commit is called `NoRevision`; commits are
revisions):

| Theorem | Statement |
|---|---|
| `BreakInvariant`, `BreakTypes` | `BreakSpec => []BreakInv`, `BreakSpec => []BreakTypeOK` |
| `RecordsComeFirst` | `BreakSpec => []RecordedFirst` |
| `RecordsAreTrue` | `BreakSpec => []RecordsTell` |
| `ChangesWhatWasInspected` | `BreakSpec => OnInspected` |
| `StreamSafe` | `StreamSpec => []StreamInv` |
| `BroadcastsComeOnce` | `StreamSpec => []NoneTwice` |
| `PagesAreCurrent` | `StreamSpec => []PageCurrent` |
| `PortalBreaksGlass`, `PortalStreams` | `Spec => BreakSpec`, `Spec => StreamSpec`: the portal runs break glass and the stream as specified |
| `PortalRecordsFirst`, `PortalRecordsTell`, `PortalChangesWhatWasInspected`, `PortalInforms` | so their properties hold of `Spec` |
| `ChangeInvariant` | `Spec => []ChangeInv` |
| `PlansRunOnce` | `Spec => []OneRunPerPlan` |
| `DispatchesWhatWasReviewed` | `Spec => []ReviewedIsDispatched` |
| `PortalTypes`, `WorkstationTypes` | `Spec => []TypeOK`, `WorkstationSpec => []WorkstationTypeOK` |
| `WorkstationRunsPortal` | `WorkstationSpec => Spec` |
| `PlatformInvariant` | `WorkstationSpec => []PlatformInv` |
| `NothingRunsOnHolds`, `StagesTellHolds` | `WorkstationSpec => []NothingRunsOn`, `… []StagesTell` |
| `PortalStaysRight` | the seven properties of the portal's three concerns, of `WorkstationSpec` |

* `BreakInv` is `Memories`, what was shown or read is an earlier Rollout or the
  present one (so that the patch's test of the resource version makes it the same in
  every field), and `RecordsAt`, which records exist at each phase of a request. A step
  changes one request, so `OneRequest` reduces each to its own record.
* `StreamInv` orders everything on its way to the page. IDs ascend (`Numbered`); what
  waits to be written is newer than what has arrived, the replay before the queue
  (`Unwritten`); so is what was written, except that a heartbeat may be ahead of what
  was queued before it, never behind (`Written`). `Informed` is what a broken connection
  must leave: if the page would reconnect with an ID that is past the last broadcast, it
  already shows that broadcast. This is where `overtaken` is needed. What a
  reconnection replays is `After`, the kept events with a newer ID; as these ascend it
  is a suffix, and it is empty only if the page has the last one.
* `ChangeInv` is `Single`, one handler holds a submitted plan, which is spent and not
  yet dispatched, and `Reviewed`, an undisturbed submission still has the checkout it
  looked at.
* `PlatformInv` says of a command in progress that there is one outcome for each stage
  before the present one (`OutcomesKept`), that reported successes are real
  (`SuccessIsReal`) and precede every stage of `up` and `verify` (`SuccessBefore`), that `up`
  keeps its revision (`RevisionKept`), and of a tree that is being drained that it is
  dead unless Windows refused (`Drained`); `EndTells` draws the sum. It needs
  `checkout.commit` to be a commit, which `ChangeInv` provides.

The composition theorems are refinements by conjunction: a step of the whole is a
step of the part or leaves its variables alone, so a part's guarantees carry over.

Only model-checked: liveness (`Converges`, `HangsOnlyWithoutBackup`, the two `Settles`
and `DeletionEnds`), which the prover does not support, and the three violations of
section 3. Every invariant and every action property of the passing runs is a theorem.

## 5. Not modelled

* **Tenancy between the kinds.** Each controller's module has the outcome of its checks
  on the other kinds as a nondeterministic rejection, and `TeamLifecycle` has tenants
  that are created and terminate by themselves; the composition is planned.
* **Validation.** Predicates on one object, which table tests cover; planned.
* **Builders without control flow, read-only commands, configuration, the manager's
  entry point.** They format, print or start, and keep no state.
* **The demo service and its scaffold.** HTTP handlers over one SQL table, with no
  state of their own but readiness during shutdown.
* **Manifests, scripts, workflows**, except the broker workflow and the tenant's Argo CD
  Application: what they do is what the external actions assume.
* Of the portal, the read endpoints, the refusals and the rate limiter; of a change, the
  contents of files; of `platformctl platform`, `status` and the single checks of `doctor`.

## 6. Plan

In order, most important behaviour first:

1. `Tenancy`: `TeamLifecycle`, an Application's gate and `DatabaseContract`
   composed: deletion of a Team, a Database and an Application in any order. This is
   where the Database gate belongs that is checked once per reconcile, a hazard that
   has no property yet.
2. Pure operators: `Validation` (accepted configurations over small inputs),
   `ImageDigest` (the fold of `resolvePodImageDigest` against a definition by
   sets), `BackupObservation` (latest phase and last success of a list).
3. The Application's own deletion, and inconclusive analyses, in
   `ApplicationDelivery`.
