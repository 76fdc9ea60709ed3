------------------------- MODULE ApplicationDelivery -------------------------
(***************************************************************************)
(* The Application controller (internal/controller/application_*.go) on    *)
(* one Application: rolling and canary delivery, and the migration between *)
(* the two strategies while the Application serves.                        *)
(*                                                                         *)
(* The controller applies the Deployment, the base Service, the Rollout    *)
(* with its two Services, and the HTTPRoute, one API write after another;  *)
(* Argo Rollouts, the Gateway plugin, Envoy and the Deployment controller  *)
(* run between any two of them.  The Application and the Rollout are read  *)
(* from informer caches, which lag.  So do the caches of the Pods, the     *)
(* Deployment, the Service and the HTTPRoute in the code; here these are   *)
(* read live.                                                              *)
(*                                                                         *)
(* Abstractions: an image tag, and the digest it resolves to, is a version *)
(* number.  A Deployment replaces its pods in one step (maxUnavailable is  *)
(* 0) and a canary has one weight step.  A Rollout's pods carry the        *)
(* isolation label of older generations only, so an isolated base Service  *)
(* selects none of them.  Writes are optimistic (resourceVersion), so a    *)
(* create-or-update is one step, and a conflict is an API error.  The      *)
(* Application's deletion, the ConfigMap and the monitors are left out.    *)
(***************************************************************************)
EXTENDS Integers, FiniteSets

CONSTANTS
  MaxVersion, \* bound: image tags
  Limits      \* bounds and timing of one behaviour, to choose from: see limits

ASSUME BoundsAssumption ==
  /\ MaxVersion \in Nat \ {0}
  /\ Limits \subseteq [edits: Nat, faults: Nat, aborts: Nat, reject: BOOLEAN,
                       stale: BOOLEAN, eager: BOOLEAN, pinned: BOOLEAN, slow: BOOLEAN]

VARIABLES
  app,       \* the Application in the API server
  cached,    \* the informer's copy of it
  dep,       \* the Deployment: its template, its replicas and its ready pods
  svc,       \* the base Service and the isolation label it selects
  progServices, \* do the stable and the canary Service exist?
  ro,        \* the Rollout: spec and status
  cro,       \* the informer's copy of it
  route,     \* the HTTPRoute: backends, acceptance, weights, drain stamps
  proxy,     \* the backends Envoy sends requests to
  inflight,  \* does Envoy hold connections to the Rollout's pods?
  rec,       \* the reconcile in progress
  dirty,     \* is the Application's key in the workqueue?
  limits,    \* of this behaviour, chosen at its start
  edits, faults, aborts, \* consumed bounds
  approved,  \* history: versions that were allowed to become active
  interrupted, \* history: other versions whose release was interrupted
  rushed     \* history: what was edited before a migration had ended

childVars == <<dep, svc, progServices, ro, route>>
proxyVars == <<proxy, inflight>>
bounds    == <<limits, edits, faults, aborts>>
history   == <<approved, interrupted, rushed>>
vars == <<app, cached, childVars, cro, proxyVars, rec, dirty, bounds, history>>

MaxEdits  == limits.edits  \* spec edits
MaxFaults == limits.faults \* crashes, API errors, rejected routes, stalls
MaxAborts == limits.aborts \* canaries that fail their analysis

MayReject    == limits.reject \* may validation, tenancy, Database or policy block?
StaleReads   == limits.stale  \* may a reconcile start on lagging caches?
EagerEdits   == limits.eager  \* may the spec change during a strategy migration?
PinnedImages == limits.pinned \* are pod images rewritten to repository@digest?
SlowPods     == limits.slow   \* do pods start slower than reconciles and caches run?

-----------------------------------------------------------------------------
(* Data *)

Version  == 1..MaxVersion
Image    == 0..MaxVersion          \* 0: none
Strategy == {"rolling", "canary"}
Backend  == {"none", "base", "canary"}

AppPhase  == {"Unset", "Progressing", "RollingBack", "Degraded", "Healthy"}
AppStatus == [gen: Nat, phase: AppPhase, active: Image, digest: Image]
NoStatus  == [gen |-> 0, phase |-> "Unset", active |-> 0, digest |-> 0]

Application == [gen: Nat, strategy: Strategy, tag: Version, status: AppStatus]

\* ver 0: no Deployment; label 0: no isolation label; podVer 0: no ready pods.
Deployment == [ver: Image, label: Nat, up: BOOLEAN, failed: BOOLEAN,
               podVer: Image, podLabel: Nat]
NoDeployment == [ver |-> 0, label |-> 0, up |-> FALSE, failed |-> FALSE,
                 podVer |-> 0, podLabel |-> 0]

Service == [exists: BOOLEAN, label: Nat]

\* full: canary steps and traffic routing; keep: workloadRef.scaleDown Never;
\* arg: the steps' candidate-version; observed: observedGeneration is current;
\* stable, target: versions of the stable and of the newest ReplicaSet;
\* candidate: the newest is a canary whose pods are ready.
Rollout == [exists: BOOLEAN, full: BOOLEAN, keep: BOOLEAN, paused: BOOLEAN,
            arg: Image, observed: BOOLEAN, stable: Image, target: Image,
            candidate: BOOLEAN,
            phase: {"Progressing", "Healthy", "Degraded", "Paused"}]
NoRollout == [exists |-> FALSE, full |-> FALSE, keep |-> FALSE, paused |-> FALSE,
              arg |-> 0, observed |-> FALSE, stable |-> 0, target |-> 0,
              candidate |-> FALSE, phase |-> "Progressing"]

\* shifted: the plugin has given the canary a weight; a drain stamp counts
\* only for the route generation that it names.
Stamp == {"none", "running", "elapsed"}
Route == [backend: Backend, accepted: {"pending", "accepted", "rejected"},
          shifted: BOOLEAN, cutover: Stamp, cleanup: Stamp]
NoRoute == [backend |-> "none", accepted |-> "pending", shifted |-> FALSE,
            cutover |-> "none", cleanup |-> "none"]

StepName == {"idle", "admit", "freeze", "deployment", "service", "services",
             "rollout", "route", "cutover", "dropServices", "cleanup",
             "dropRollout", "status"}

\* hold: keep the serving Deployment; found: the cache had a Rollout.
Reconcile == [pc: StepName, seen: Application, hold: BOOLEAN, found: BOOLEAN,
              depReady: BOOLEAN, desired: AppStatus, retry: BOOLEAN]

NoApplication == [gen |-> 0, strategy |-> "rolling", tag |-> 1, status |-> NoStatus]
Idle == [pc |-> "idle", seen |-> NoApplication, hold |-> FALSE, found |-> FALSE,
         depReady |-> FALSE, desired |-> NoStatus, retry |-> FALSE]

TypeOK ==
  /\ app \in Application /\ cached \in Application
  /\ dep \in Deployment /\ svc \in Service /\ progServices \in BOOLEAN
  /\ ro \in Rollout /\ cro \in Rollout
  /\ route \in Route /\ proxy \in Backend /\ inflight \in BOOLEAN
  /\ rec \in Reconcile /\ dirty \in BOOLEAN
  /\ limits \in Limits /\ edits \in Nat /\ faults \in Nat /\ aborts \in Nat
  /\ approved \subseteq Version /\ interrupted \subseteq Version
  /\ rushed \subseteq {"strategy", "tag"}

Init ==
  /\ app \in {[gen |-> 1, strategy |-> s, tag |-> 1, status |-> NoStatus] : s \in Strategy}
  /\ cached = app
  /\ dep = NoDeployment
  /\ svc = [exists |-> FALSE, label |-> 0]
  /\ progServices = FALSE
  /\ ro = NoRollout /\ cro = NoRollout
  /\ route = NoRoute
  /\ proxy = "none" /\ inflight = FALSE
  /\ rec = Idle /\ dirty = TRUE
  /\ limits \in Limits /\ edits = 0 /\ faults = 0 /\ aborts = 0
  /\ approved = {} /\ interrupted = {} /\ rushed = {}

-----------------------------------------------------------------------------
(* Desired state, caches and workqueue *)

\* The strategy's own resources are in place and the other's are gone.
Aligned ==
  /\ IF app.strategy = "canary"
     THEN ro.exists /\ ro.full /\ ~ro.paused /\ route.backend = "canary"
     ELSE ~ro.exists /\ ~cro.exists /\ ~progServices /\ route.backend = "base"
  /\ proxy = route.backend

\* The release in progress, if any, has come to its end.
Settled ==
  /\ Aligned
  /\ app.status.gen = app.gen
  /\ app.status.phase \in {"Healthy", "Degraded"}
  /\ app.status.phase = "Healthy" => app.status.active = app.tag

\* History: versions are allowed, or the releases of versions are interrupted.
Approves(versions) ==
  /\ approved' = approved \cup versions
  /\ interrupted' = interrupted \ versions
  /\ UNCHANGED rushed

Interrupts(versions) ==
  /\ interrupted' = interrupted \cup (versions \ approved)
  /\ UNCHANGED approved

\* Requests go to the canary's Services and the controller knows the Rollout;
\* or no Rollout is left, and the controller knows.
Migrated ==
  IF app.strategy = "canary"
  THEN route.backend = "canary" /\ proxy = "canary" /\ cro.exists
  ELSE ~ro.exists /\ ~cro.exists

\* History: the spec is edited before a migration has ended.  A new tag on the
\* way to a canary is no rush.
Rushes(strategy) ==
  rushed' = IF Migrated \/ (app.strategy = "canary" /\ strategy = "canary") THEN rushed
            ELSE rushed \cup {IF strategy = app.strategy THEN "tag" ELSE "strategy"}

\* Without EagerEdits the tag waits for a migration to end, and the strategy
\* for a release, the first one included.
Edit(strategy, tag) ==
  /\ edits < MaxEdits
  /\ <<strategy, tag>> # <<app.strategy, app.tag>>
  /\ \/ EagerEdits
     \/ cached = app /\ Aligned /\ strategy = app.strategy
     \/ cached = app /\ Settled /\ app.status.active # 0
  /\ edits' = edits + 1
  /\ app' = [app EXCEPT !.gen = @ + 1, !.strategy = strategy, !.tag = tag]
  /\ Interrupts({app.tag})
  /\ Rushes(strategy)
  /\ UNCHANGED <<cached, childVars, cro, proxyVars, rec, dirty, limits, faults, aborts>>

Watch ==
  /\ cached # app
  /\ cached' = app
  /\ dirty' = TRUE
  /\ UNCHANGED <<app, childVars, cro, proxyVars, rec, bounds, history>>

WatchRollout ==
  /\ cro # ro
  /\ cro' = ro
  /\ dirty' = TRUE
  /\ UNCHANGED <<app, cached, childVars, proxyVars, rec, bounds, history>>

StartReconcile ==
  /\ rec.pc = "idle"
  /\ dirty
  /\ StaleReads \/ (cached = app /\ cro = ro)
  /\ dirty' = FALSE
  /\ rec' = [Idle EXCEPT !.pc = "admit", !.seen = cached]
  /\ UNCHANGED <<app, cached, childVars, cro, proxyVars, bounds, history>>

-----------------------------------------------------------------------------
(* Status *)

\* Mutant: a new status instead of a copy of the old one.
BaseStatusFresh(d, phase) == [NoStatus EXCEPT !.gen = d.gen, !.phase = phase]

\* baseStatus: the last healthy version and digest are copied from the object
\* the reconcile started with.
BaseStatus(d, phase) == [d.status EXCEPT !.gen = d.gen, !.phase = phase]

DegradedStatus(d) == BaseStatus(d, "Degraded")

\* Mutant: a phase the CRD's enum does not have.
MigrationStatusOutsideEnum(d) == BaseStatus(d, "Migrating")

MigrationStatus(d) == BaseStatus(d, "Progressing")

HealthyStatus(d, digest) ==
  [gen |-> d.gen, phase |-> "Healthy", active |-> d.tag, digest |-> digest]

\* The versions that ready pods of the Application run.
ReadyPods ==
  ({dep.podVer} \cup (IF ro.exists THEN {ro.stable} ELSE {})
     \cup (IF ro.candidate THEN {ro.target} ELSE {})) \ {0}

\* Mutant: every ready pod counts, whatever image it runs.
DigestsOfAllPods(d) == ReadyPods

\* resolveImageDigest over the ready pods whose image matches the desired one;
\* an image pinned to a digest matches whatever the tag is.
Digests(d) == IF PinnedImages THEN ReadyPods ELSE ReadyPods \cap {d.tag}

ProvenStatus(d) ==
  CASE Cardinality(Digests(d)) > 1 -> DegradedStatus(d)
    [] Digests(d) = {} -> BaseStatus(d, "Progressing")
    [] OTHER -> HealthyStatus(d, CHOOSE v \in Digests(d) : TRUE)

\* Mutant: status.observedGeneration is not compared.
RolloutHealthyUnobserved(r) == r.exists /\ r.phase = "Healthy" /\ r.stable # 0

RolloutHealthy(r) == r.exists /\ r.observed /\ r.phase = "Healthy" /\ r.stable # 0

WorkloadStatus(d, depReady, rt) ==
  CASE dep.failed \/ rt.accepted = "rejected" -> DegradedStatus(d)
    [] ~dep.failed /\ depReady /\ rt.accepted = "accepted" -> ProvenStatus(d)
    [] OTHER -> BaseStatus(d, "Progressing")

CanaryStatus(d, migrating, rt) ==
  CASE rt.accepted = "rejected" -> DegradedStatus(d)
    [] rt.accepted # "rejected" /\ migrating -> MigrationStatus(d)
    [] rt.accepted # "rejected" /\ ~migrating /\ cro.phase = "Degraded" ->
         BaseStatus(d, IF rt.shifted THEN "RollingBack" ELSE "Degraded")
    [] ~migrating /\ RolloutHealthy(cro) /\ rt.accepted = "accepted" -> ProvenStatus(d)
    [] OTHER -> BaseStatus(d, "Progressing")

Return(desired, again) ==
  rec' = [rec EXCEPT !.pc = "status", !.desired = desired, !.retry = again]

\* securityAdmissionFailure may overrule the workload's status.
Conclude(desired) ==
  \/ Return(desired, FALSE)
  \/ MayReject /\ Return(DegradedStatus(rec.seen), FALSE)

\* A merge patch holds the fields in which new differs from base.
Merge(live, base, new) ==
  [f \in {"gen", "phase", "active", "digest"} |->
     IF new[f] = base[f] THEN live[f] ELSE new[f]]

Finish(again) ==
  /\ rec' = Idle
  /\ dirty' = (dirty \/ again)

\* patchStatus: read again from the cache, drop the status of another
\* generation, patch without a resourceVersion.
StatusPatchNeeded ==
  /\ rec.seen.status # rec.desired
  /\ cached.gen = rec.desired.gen
  /\ cached.status # rec.desired

\* A version becomes active legitimately under the rolling strategy, or as
\* the first release; a canary's version must have passed its analysis.
PatchStatus ==
  /\ rec.pc = "status"
  /\ app' = IF StatusPatchNeeded
            THEN [app EXCEPT !.status = Merge(@, cached.status, rec.desired)]
            ELSE app
  /\ Approves(IF rec.seen.strategy = "rolling" \/ app.status.active = 0
              THEN {app'.status.active} \ {0} ELSE {})
  /\ Finish(rec.retry)
  /\ UNCHANGED <<cached, childVars, cro, proxyVars, bounds>>

-----------------------------------------------------------------------------
(* Reconcile: admission and the resources both strategies share *)

CanaryRouteReady == route.backend = "canary" /\ route.accepted = "accepted"

\* Mutant: a stable ReplicaSet ends the hold, whatever the route is.
ShouldHoldUntilStable(d) ==
  d.status.active # 0 /\ (~cro.exists \/ cro.stable = 0)

\* Mutant: a route that is not accepted always holds, weight updates included.
ShouldHoldWhilePending(d) ==
  d.status.active # 0 /\ (~cro.exists \/ cro.stable = 0 \/ ~CanaryRouteReady)

\* shouldHoldServingDeployment
ShouldHold(d) ==
  /\ d.status.active # 0
  /\ \/ ~cro.exists
     \/ cro.stable = 0
     \/ ~CanaryRouteReady /\ ~cro.full

\* Validation, tenancy, unsupported features, missing CRDs and the Database
\* block before any child is touched; otherwise read Rollout and route.
Admit ==
  /\ rec.pc = "admit"
  /\ \/ MayReject /\ Return(DegradedStatus(rec.seen), FALSE)
     \/ rec' = [rec EXCEPT
                  !.pc = IF rec.seen.strategy = "rolling" /\ cro.exists
                         THEN "freeze" ELSE "deployment",
                  !.hold = rec.seen.strategy = "canary" /\ ShouldHold(rec.seen),
                  !.found = cro.exists]
  /\ UNCHANGED <<app, cached, childVars, cro, proxyVars, dirty, bounds, history>>

\* freezeRollout: the Rollout keeps serving but neither moves on nor scales
\* the Deployment down.
FreezeRollout ==
  /\ rec.pc = "freeze"
  /\ ro' = IF ro.exists /\ ~(ro.paused /\ ro.keep)
           THEN [ro EXCEPT !.paused = TRUE, !.keep = TRUE, !.observed = FALSE]
           ELSE ro
  /\ rec' = [rec EXCEPT !.pc = "deployment"]
  /\ UNCHANGED <<app, cached, dep, svc, progServices, route, cro, proxyVars,
                 dirty, bounds, history>>

\* While a Rollout is left, the rolling pods are told apart by a label with
\* the Application's generation (applyRollingMigrationIdentity).
Isolated == rec.seen.strategy = "rolling" /\ rec.found

\* The Deployment serves under the rolling strategy and while it is held.
Serves == rec.seen.strategy = "rolling" \/ rec.hold
ManagesReplicas == rec.seen.strategy = "rolling" \/ (rec.hold /\ ~rec.found)

DeploymentReady(d) == d.up /\ ~d.failed /\ d.podVer = d.ver /\ d.podLabel = d.label

DesiredDeployment ==
  LET ver   == IF rec.hold THEN rec.seen.status.active ELSE rec.seen.tag
      label == IF Isolated THEN rec.seen.gen ELSE dep.label
      new   == dep.ver # ver \/ dep.label # label IN
  [dep EXCEPT !.ver = ver, !.label = label, !.failed = @ /\ ~new,
              !.up = IF dep.ver = 0 \/ ManagesReplicas THEN Serves ELSE @]

ApplyDeployment ==
  /\ rec.pc = "deployment"
  /\ dep' = DesiredDeployment
  /\ dirty' = (dirty \/ dep' # dep)
  /\ rec' = [rec EXCEPT !.pc = "service", !.depReady = DeploymentReady(dep')]
  /\ UNCHANGED <<app, cached, svc, progServices, ro, route, cro, proxyVars,
                 bounds, history>>

ApplyService ==
  /\ rec.pc = "service"
  /\ svc' = [exists |-> TRUE, label |-> IF Isolated THEN rec.seen.gen ELSE 0]
  /\ dirty' = (dirty \/ svc' # svc)
  /\ rec' = [rec EXCEPT !.pc = IF rec.seen.strategy = "canary" THEN "services" ELSE "route"]
  /\ UNCHANGED <<app, cached, dep, progServices, ro, route, cro, proxyVars,
                 bounds, history>>

\* reconcileRoute: new backends are a new route generation, which has to be
\* accepted again and to which no drain stamp applies.
WithBackend(backend) ==
  IF route.backend = backend THEN route ELSE [NoRoute EXCEPT !.backend = backend]

-----------------------------------------------------------------------------
(* reconcileCanaryChildren *)

ApplyCanaryServices ==
  /\ rec.pc = "services"
  /\ progServices' = TRUE
  /\ dirty' = (dirty \/ ~progServices)
  /\ rec' = [rec EXCEPT !.pc = "rollout"]
  /\ UNCHANGED <<app, cached, dep, svc, ro, route, cro, proxyVars, bounds, history>>

\* A held Deployment gets a bootstrap Rollout: no steps, no traffic routing.
DesiredRollout ==
  [ro EXCEPT !.exists = TRUE, !.full = ~rec.hold, !.keep = rec.hold, !.paused = FALSE,
             !.arg = IF rec.hold THEN 0 ELSE rec.seen.tag]

ApplyRollout ==
  /\ rec.pc = "rollout"
  /\ ro' = IF DesiredRollout = ro THEN ro ELSE [DesiredRollout EXCEPT !.observed = FALSE]
  /\ rec' = [rec EXCEPT !.pc = "route"]
  /\ UNCHANGED <<app, cached, dep, svc, progServices, route, cro, proxyVars,
                 dirty, bounds, history>>

\* The Rollout is read again, from the cache, after it was written.
MaySwitchToCanary == route.backend \in {"none", "canary"} \/ RolloutHealthy(cro)

CanaryRoute ==
  /\ rec.pc = "route" /\ rec.seen.strategy = "canary"
  /\ route' = IF MaySwitchToCanary THEN WithBackend("canary") ELSE route
  /\ dirty' = (dirty \/ route' # route)
  /\ LET migrating == \/ route'.backend # "canary"
                      \/ rec.seen.status.active # 0 /\ route'.accepted # "accepted"
     IN Conclude(CanaryStatus(rec.seen, migrating, route'))
  /\ UNCHANGED <<app, cached, dep, svc, progServices, ro, cro, proxyVars,
                 bounds, history>>

-----------------------------------------------------------------------------
(* reconcileRollingChildren *)

\* Mutant: the route does not wait for the Deployment.
MaySwitchToBaseAtOnce == TRUE

MaySwitchToBase == route.backend = "none" \/ ~rec.found \/ rec.depReady

RollingRoute ==
  /\ rec.pc = "route" /\ rec.seen.strategy = "rolling"
  /\ route' = IF MaySwitchToBase THEN WithBackend("base") ELSE route
  /\ dirty' = (dirty \/ route' # route)
  /\ \/ /\ ~rec.found
        /\ Conclude(WorkloadStatus(rec.seen, rec.depReady, route'))
     \/ /\ rec.found
        /\ rec.depReady /\ route'.backend = "base" /\ route'.accepted = "accepted"
        /\ rec' = [rec EXCEPT !.pc = "cutover"]
     \/ /\ rec.found
        /\ ~(rec.depReady /\ route'.backend = "base" /\ route'.accepted = "accepted")
        /\ Conclude(MigrationStatus(rec.seen))
  /\ UNCHANGED <<app, cached, dep, svc, progServices, ro, cro, proxyVars,
                 bounds, history>>

\* waitForRollingCutoverDrain: stamp the route, come back after the delay.
CutoverDrain ==
  /\ rec.pc = "cutover"
  /\ route' = IF route.cutover = "none" THEN [route EXCEPT !.cutover = "running"] ELSE route
  /\ dirty' = (dirty \/ route' # route)
  /\ \/ route.cutover = "elapsed" /\ rec' = [rec EXCEPT !.pc = "dropServices"]
     \/ route.cutover # "elapsed" /\ Conclude(MigrationStatus(rec.seen))
  /\ UNCHANGED <<app, cached, dep, svc, progServices, ro, cro, proxyVars,
                 bounds, history>>

DropServices ==
  /\ rec.pc = "dropServices"
  /\ progServices' = FALSE
  /\ dirty' = (dirty \/ progServices)
  /\ rec' = [rec EXCEPT !.pc = "cleanup"]
  /\ UNCHANGED <<app, cached, dep, svc, ro, route, cro, proxyVars, bounds, history>>

\* Mutant: the removed Services' endpoints count as drained at once.
CleanupDrainSkipped ==
  /\ rec.pc = "cleanup"
  /\ rec' = [rec EXCEPT !.pc = "dropRollout"]
  /\ UNCHANGED <<app, cached, childVars, cro, proxyVars, dirty, bounds, history>>

\* waitForProgressiveEndpointDrain
CleanupDrain ==
  /\ rec.pc = "cleanup"
  /\ route' = IF route.cleanup = "none" THEN [route EXCEPT !.cleanup = "running"] ELSE route
  /\ dirty' = (dirty \/ route' # route)
  /\ \/ route.cleanup = "elapsed" /\ rec' = [rec EXCEPT !.pc = "dropRollout"]
     \/ route.cleanup # "elapsed" /\ Conclude(MigrationStatus(rec.seen))
  /\ UNCHANGED <<app, cached, dep, svc, progServices, ro, cro, proxyVars,
                 bounds, history>>

DropRollout ==
  /\ rec.pc = "dropRollout"
  /\ ro' = NoRollout
  /\ Conclude(WorkloadStatus(rec.seen, rec.depReady, route))
  /\ UNCHANGED <<app, cached, dep, svc, progServices, route, cro, proxyVars,
                 dirty, bounds, history>>

-----------------------------------------------------------------------------
(* Failures *)

Fault == faults < MaxFaults /\ faults' = faults + 1

\* The version that the Deployment has got and the Rollout has not.
Written == IF rec.pc \in {"service", "services", "rollout"} THEN {rec.seen.tag} ELSE {}

\* A crash of the manager, or an API error that Reconcile returns at once.
Interrupt ==
  /\ rec.pc # "idle"
  /\ Fault
  /\ Finish(TRUE)
  /\ Interrupts(Written) /\ UNCHANGED rushed
  /\ UNCHANGED <<app, cached, childVars, cro, proxyVars, limits, edits, aborts>>

\* An API error on a child: report it, then retry.
WriteError ==
  /\ rec.pc \notin {"idle", "admit", "status"}
  /\ Fault
  /\ Return(DegradedStatus(rec.seen), TRUE)
  /\ Interrupts(Written) /\ UNCHANGED rushed
  /\ UNCHANGED <<app, cached, childVars, cro, proxyVars, dirty, limits, edits, aborts>>

DeploymentStalls ==
  /\ dep.up /\ ~dep.failed /\ ~DeploymentReady(dep)
  /\ Fault
  /\ dep' = [dep EXCEPT !.failed = TRUE]
  /\ dirty' = TRUE
  /\ UNCHANGED <<app, cached, svc, progServices, ro, route, cro, proxyVars, rec,
                 limits, edits, aborts, history>>

RouteRejected ==
  /\ route.backend # "none" /\ route.accepted = "pending"
  /\ Fault
  /\ route' = [route EXCEPT !.accepted = "rejected"]
  /\ dirty' = TRUE
  /\ UNCHANGED <<app, cached, dep, svc, progServices, ro, cro, proxyVars, rec,
                 limits, edits, aborts, history>>

-----------------------------------------------------------------------------
(* External: the Deployment controller, Envoy and time *)

\* Pods of a new ReplicaSet become ready; with SlowPods only after a reconcile
\* under way has ended and the cache has caught up.
PodsStart == SlowPods => rec.pc = "idle" /\ cro = ro

\* New pods are ready before old ones go; without replicas all pods go.
DeploymentRolls ==
  /\ dep.ver # 0
  /\ dep.up => PodsStart
  /\ dep' = IF dep.up THEN [dep EXCEPT !.podVer = dep.ver, !.podLabel = dep.label,
                                       !.failed = FALSE]
                      ELSE [dep EXCEPT !.podVer = 0, !.podLabel = 0]
  /\ dep' # dep
  /\ dirty' = TRUE
  /\ UNCHANGED <<app, cached, svc, progServices, ro, route, cro, proxyVars, rec,
                 bounds, history>>

RouteAccepted ==
  /\ route.backend # "none" /\ route.accepted # "accepted"
  /\ route' = [route EXCEPT !.accepted = "accepted"]
  /\ dirty' = TRUE
  /\ UNCHANGED <<app, cached, dep, svc, progServices, ro, cro, proxyVars, rec,
                 bounds, history>>

ProxyConverges ==
  /\ route.accepted = "accepted"
  /\ proxy # route.backend
  /\ proxy' = route.backend
  /\ inflight' = (inflight \/ proxy' = "canary")
  /\ UNCHANGED <<app, cached, childVars, cro, rec, dirty, bounds, history>>

\* Envoy drops connections to endpoints that no Service has any more.
ConnectionsDrain ==
  /\ inflight /\ proxy # "canary" /\ ~progServices
  /\ inflight' = FALSE
  /\ UNCHANGED <<app, cached, childVars, cro, proxy, rec, dirty, bounds, history>>

\* The reconcile that waits for a drain asks to be called again at its end
\* (RequeueAfter), unless securityAdmissionFailure overruled it: Reconcile then
\* returns without the delay.
CallsAgain == dirty' \in (IF MayReject THEN {dirty, TRUE} ELSE {TRUE})

\* Timing assumption: the drain delays outlast what they wait for.
CutoverElapses ==
  /\ route.cutover = "running" /\ proxy = route.backend
  /\ route' = [route EXCEPT !.cutover = "elapsed"]
  /\ CallsAgain
  /\ UNCHANGED <<app, cached, dep, svc, progServices, ro, cro, proxyVars, rec,
                 bounds, history>>

CleanupElapses ==
  /\ route.cleanup = "running" /\ ~inflight
  /\ route' = [route EXCEPT !.cleanup = "elapsed"]
  /\ CallsAgain
  /\ UNCHANGED <<app, cached, dep, svc, progServices, ro, cro, proxyVars, rec,
                 bounds, history>>

-----------------------------------------------------------------------------
(* External: Argo Rollouts and its Gateway plugin *)

\* The plugin cannot set weights on a route without the two Services.
PluginWorks == ro.full => route.backend = "canary"

RolloutActive == ro.exists /\ ~ro.paused /\ PluginWorks

\* A new template or new steps restart the update and clear an abort.
RolloutObserves ==
  /\ RolloutActive /\ dep.ver # 0
  /\ ~ro.observed \/ ro.target # dep.ver
  /\ ro' = [ro EXCEPT !.observed = TRUE, !.target = dep.ver, !.candidate = FALSE,
                      !.phase = IF ro.stable = dep.ver THEN "Healthy" ELSE "Progressing"]
  /\ UNCHANGED <<app, cached, dep, svc, progServices, route, cro, proxyVars, rec,
                 dirty, bounds, history>>

RolloutPauses ==
  /\ ro.exists /\ ro.paused /\ ~ro.observed
  /\ ro' = [ro EXCEPT !.observed = TRUE, !.phase = "Paused"]
  /\ UNCHANGED <<app, cached, dep, svc, progServices, route, cro, proxyVars, rec,
                 dirty, bounds, history>>

Updating == RolloutActive /\ ro.observed /\ ro.phase = "Progressing" /\ ro.target # 0

\* The first ReplicaSet, and every one of a Rollout without steps, becomes
\* stable as soon as it is available.
RolloutRolls ==
  /\ Updating
  /\ ro.stable = 0 \/ ~ro.full
  /\ PodsStart
  /\ ro' = [ro EXCEPT !.stable = ro.target, !.phase = "Healthy"]
  /\ UNCHANGED <<app, cached, dep, svc, progServices, route, cro, proxyVars, rec,
                 dirty, bounds, history>>

CanaryStarts ==
  /\ Updating /\ ro.full /\ ro.stable # 0
  /\ PodsStart
  /\ ~route.shifted
  /\ ro' = [ro EXCEPT !.candidate = TRUE]
  /\ route' = [route EXCEPT !.shifted = TRUE, !.accepted = "pending"]
  /\ dirty' = TRUE
  /\ UNCHANGED <<app, cached, dep, svc, progServices, cro, proxyVars, rec,
                 bounds, history>>

\* The analysis queries name the candidate's version and ReplicaSet; a wrong
\* version finds no series, which is a failure.
CanaryPasses ==
  /\ Updating /\ ro.full /\ ro.candidate
  /\ ro.arg = ro.target
  /\ ro' = [ro EXCEPT !.stable = ro.target, !.candidate = FALSE, !.phase = "Healthy"]
  /\ Approves({ro.target})
  /\ UNCHANGED <<app, cached, dep, svc, progServices, route, cro, proxyVars, rec,
                 dirty, bounds>>

CanaryFails ==
  /\ Updating /\ ro.full /\ ro.candidate
  /\ aborts < MaxAborts
  /\ aborts' = aborts + 1
  /\ ro' = [ro EXCEPT !.candidate = FALSE, !.phase = "Degraded"]
  /\ UNCHANGED <<app, cached, dep, svc, progServices, route, cro, proxyVars, rec,
                 dirty, limits, edits, faults, history>>

\* Without a candidate (promoted, aborted, replaced) all weight is stable's.
WeightsReturn ==
  /\ RolloutActive
  /\ route.shifted /\ ~ro.candidate
  /\ route' = [route EXCEPT !.shifted = FALSE, !.accepted = "pending"]
  /\ dirty' = TRUE
  /\ UNCHANGED <<app, cached, dep, svc, progServices, ro, cro, proxyVars, rec,
                 bounds, history>>

\* workloadRef.scaleDown OnSuccess
ScaleDownWorkload ==
  /\ RolloutActive /\ RolloutHealthy(ro) /\ ~ro.keep
  /\ dep.up
  /\ dep' = [dep EXCEPT !.up = FALSE]
  /\ dirty' = TRUE
  /\ UNCHANGED <<app, cached, svc, progServices, ro, route, cro, proxyVars, rec,
                 bounds, history>>

-----------------------------------------------------------------------------
(* Specification *)

Controller ==
  \/ StartReconcile
  \/ Admit
  \/ FreezeRollout
  \/ ApplyDeployment
  \/ ApplyService
  \/ ApplyCanaryServices
  \/ ApplyRollout
  \/ CanaryRoute
  \/ RollingRoute
  \/ CutoverDrain
  \/ DropServices
  \/ CleanupDrain
  \/ DropRollout
  \/ PatchStatus

Failure == Interrupt \/ WriteError \/ DeploymentStalls \/ RouteRejected

Progress ==
  \/ Watch
  \/ WatchRollout
  \/ DeploymentRolls
  \/ RouteAccepted
  \/ ProxyConverges
  \/ ConnectionsDrain
  \/ CutoverElapses
  \/ CleanupElapses
  \/ RolloutObserves
  \/ RolloutPauses
  \/ RolloutRolls
  \/ CanaryStarts
  \/ WeightsReturn
  \/ ScaleDownWorkload

Next ==
  \/ \E s \in Strategy, v \in Version : Edit(s, v)
  \/ Controller
  \/ Failure
  \/ Progress
  \/ CanaryPasses
  \/ CanaryFails

Spec == Init /\ [][Next]_vars

\* The workqueue runs an enqueued key, informers catch up, timers expire, and
\* Kubernetes, Envoy and Argo Rollouts do their work; an analysis ends one way
\* or the other.  Nobody has to edit.
Fairness ==
  /\ WF_vars(Controller)
  /\ WF_vars(Watch) /\ WF_vars(WatchRollout)
  /\ WF_vars(DeploymentRolls) /\ WF_vars(RouteAccepted) /\ WF_vars(ProxyConverges)
  /\ WF_vars(ConnectionsDrain) /\ WF_vars(CutoverElapses) /\ WF_vars(CleanupElapses)
  /\ WF_vars(RolloutObserves) /\ WF_vars(RolloutPauses) /\ WF_vars(RolloutRolls)
  /\ WF_vars(CanaryStarts) /\ WF_vars(CanaryPasses \/ CanaryFails)
  /\ WF_vars(WeightsReturn) /\ WF_vars(ScaleDownWorkload)

FairSpec == Spec /\ Fairness

-----------------------------------------------------------------------------
(* Properties *)

Endpoints ==
  CASE proxy = "base" ->
         (IF svc.exists /\ dep.podVer # 0 /\ svc.label \in {0, dep.podLabel}
          THEN {"deployment"} ELSE {})
           \cup (IF svc.exists /\ svc.label = 0 /\ ro.exists /\ ro.stable # 0
                 THEN {"rollout"} ELSE {})
    [] proxy = "canary" ->
         IF progServices /\ ro.exists /\ ro.stable # 0 THEN {"rollout"} ELSE {}
    [] OTHER -> {}

\* Zero downtime: once a version is active, the backends Envoy uses always
\* have ready pods, through releases and strategy migrations.
TrafficServed == app.status.active # 0 /\ proxy # "none" => Endpoints # {}

\* So it is, whenever the spec is edited, up to the first edit that comes before
\* a migration has ended: one that takes the migration back, or any on the way
\* to the rolling strategy.  A release that is replaced while it runs and a new
\* tag on the way to a canary are safe, and so is a strategy that changes while
\* a release runs.
ServedUnlessRushed == rushed = {} => TrafficServed

\* README.md:165: "Strategy changes in either direction keep a verified data
\* plane serving before obsolete resources are removed."  A migration that is
\* not taken back does not either: an edit of the tag, once requests go to the
\* Deployment's isolated pods, moves the base Service's selector to a label
\* that no ready pod has.  The code breaks this.
ServedUnlessReverted == "strategy" \in rushed \/ TrafficServed

\* The drain delays order the clean-up of a canary: its Services go after
\* Envoy has left them, its pods after the last connection.
NoTrafficToRemoved ==
  /\ proxy = "canary" => progServices
  /\ proxy = "canary" \/ inflight => ro.exists

\* A canary's version is promoted only after its analysis passed.
ApprovedOnly == app.status.active \in approved \cup {0}

\* The order of the Deployment's and the Rollout's writes, and the two reads of
\* a lagging Rollout, cannot break that by themselves.  A version may become
\* active without an analysis only if its release was interrupted before: by an
\* edit to another version, which leaves its pods behind for the day the version
\* is asked for again, or by a crash or an API error between the two writes.
\* Pods that are ready before the reconcile that asked for them has ended, an
\* edit during a migration or before the first release, and images pinned to a
\* digest are outside of it: each can break it too.
ApprovedUnlessInterrupted ==
  SlowPods /\ ~EagerEdits /\ ~PinnedImages =>
    app.status.active \in approved \cup interrupted \cup {0}

\* The active version and the digest recorded with it are of one release.
ProvenanceAtomic == app.status.digest = app.status.active

\* What an Application tells of its last healthy release changes only as a
\* whole, when a reconcile reports the version that it has read as healthy: no
\* failure, rejection or migration erases it, and no report is stored in part.
\* This holds when no reconcile starts on a cache older than its own last status.
LastHealthyKept ==
  [][~StaleReads =>
       \/ /\ app'.status.active = app.status.active
          /\ app'.status.digest = app.status.digest
       \/ app'.status = HealthyStatus(rec.seen, app'.status.digest)]_vars

\* configureBootstrapRollout: canary steps and traffic routing wait for the
\* two-backend route, when no cache lags and nothing is edited during a
\* migration or before the first release.
FullOnlyWithCanaryRoute ==
  ~StaleReads /\ ~EagerEdits /\ ro.exists /\ ro.full /\ ~ro.paused =>
    route.backend # "base"

\* Every release and every migration that may run its course comes to an end.
Settles == ~StaleReads /\ ~EagerEdits => <>[]Settled

=============================================================================
