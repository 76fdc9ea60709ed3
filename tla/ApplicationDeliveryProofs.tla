----------------------- MODULE ApplicationDeliveryProofs -----------------------
(***************************************************************************)
(* Proofs about ApplicationDelivery, for every value of its constants: any *)
(* number of versions and any set of behaviours' limits.                   *)
(***************************************************************************)
EXTENDS ApplicationDelivery, TLAPS

-----------------------------------------------------------------------------
(* Lemmas on the data the controller builds *)

\* The initial values have their types.
LEMMA InitialValues ==
  /\ NoStatus \in AppStatus /\ NoApplication \in Application
  /\ NoDeployment \in Deployment /\ NoRollout \in Rollout
  /\ NoRoute \in Route /\ Idle \in Reconcile
  /\ 0 \in Image /\ Version \subseteq Image /\ 1 \in Version
<1>1. 0 \in Image /\ Version \subseteq Image /\ 1 \in Version
  BY BoundsAssumption DEF Image, Version
<1>2. NoStatus \in AppStatus
  BY <1>1 DEF NoStatus, AppStatus, AppPhase
<1>3. NoApplication \in Application
  BY <1>1, <1>2 DEF NoApplication, Application, Strategy
<1>4. NoDeployment \in Deployment
  BY <1>1 DEF NoDeployment, Deployment
<1>5. NoRollout \in Rollout
  BY <1>1 DEF NoRollout, Rollout
<1>6. NoRoute \in Route
  BY DEF NoRoute, Route, Backend, Stamp
<1>7. Idle \in Reconcile
  BY <1>2, <1>3 DEF Idle, Reconcile, StepName
<1>. QED
  BY <1>1, <1>2, <1>3, <1>4, <1>5, <1>6, <1>7

\* A status that reports a phase keeps the last healthy version and digest.
LEMMA BaseStatusType ==
  ASSUME NEW d \in Application, NEW phase \in AppPhase
  PROVE  /\ BaseStatus(d, phase) \in AppStatus
         /\ BaseStatus(d, phase).active = d.status.active
         /\ BaseStatus(d, phase).digest = d.status.digest
BY DEF BaseStatus, Application, AppStatus

LEMMA HealthyStatusType ==
  ASSUME NEW d \in Application, NEW digest \in Image
  PROVE  /\ HealthyStatus(d, digest) \in AppStatus
         /\ HealthyStatus(d, digest).active = d.tag
         /\ HealthyStatus(d, digest).digest = digest
         /\ HealthyStatus(d, digest) = HealthyStatus(d, HealthyStatus(d, digest).digest)
BY InitialValues DEF HealthyStatus, Application, AppStatus, AppPhase

\* The versions of ready pods are images.
LEMMA DigestsType ==
  ASSUME TypeOK, NEW d \in Application
  PROVE  Digests(d) \subseteq Image
BY DEF Digests, ReadyPods, TypeOK, Deployment, Rollout

\* What a status that is concluded from the workload may be: it keeps the last
\* healthy version and digest, or it reports the desired version as healthy.
Kept(d, s) == s.active = d.status.active /\ s.digest = d.status.digest

Renewed(d, s) == s.active = d.tag /\ s = HealthyStatus(d, s.digest)

Tells(d, s) ==
  /\ s \in AppStatus
  /\ Kept(d, s) \/ (Renewed(d, s) /\ (~PinnedImages => s.digest = d.tag))

LEMMA BaseStatusTells ==
  ASSUME NEW d \in Application, NEW phase \in AppPhase
  PROVE  Tells(d, BaseStatus(d, phase))
BY BaseStatusType DEF Tells, Kept

LEMMA ProvenStatusTells ==
  ASSUME TypeOK, NEW d \in Application
  PROVE  Tells(d, ProvenStatus(d))
<1>1. CASE Cardinality(Digests(d)) > 1
  BY <1>1, BaseStatusTells DEF ProvenStatus, DegradedStatus, AppPhase
<1>2. CASE ~(Cardinality(Digests(d)) > 1) /\ Digests(d) = {}
  BY <1>2, BaseStatusTells DEF ProvenStatus, AppPhase
<1>3. CASE ~(Cardinality(Digests(d)) > 1) /\ Digests(d) # {}
  <2> DEFINE v == CHOOSE w \in Digests(d) : TRUE
  <2>1. v \in Digests(d)
    BY <1>3
  <2>2. ProvenStatus(d) = HealthyStatus(d, v)
    BY <1>3 DEF ProvenStatus
  <2> HIDE DEF v
  <2>3. v \in Image /\ (~PinnedImages => v = d.tag)
    <3>1. ~PinnedImages => Digests(d) \subseteq {d.tag}
      BY DEF Digests
    <3>. QED
      BY <2>1, <3>1, DigestsType
  <2>. QED
    BY <2>2, <2>3, HealthyStatusType DEF Tells, Renewed
<1>. QED
  BY <1>1, <1>2, <1>3

LEMMA WorkloadStatusTells ==
  ASSUME TypeOK, NEW d \in Application, NEW ready, NEW rt
  PROVE  Tells(d, WorkloadStatus(d, ready, rt))
<1>1. /\ Tells(d, DegradedStatus(d)) /\ Tells(d, ProvenStatus(d))
      /\ Tells(d, BaseStatus(d, "Progressing"))
  BY BaseStatusTells, ProvenStatusTells DEF DegradedStatus, AppPhase
<1>. QED
  BY <1>1 DEF WorkloadStatus

LEMMA CanaryStatusTells ==
  ASSUME TypeOK, NEW d \in Application, NEW migrating \in BOOLEAN, NEW rt
  PROVE  Tells(d, CanaryStatus(d, migrating, rt))
<1>1. /\ Tells(d, DegradedStatus(d)) /\ Tells(d, ProvenStatus(d))
      /\ \A phase \in AppPhase : Tells(d, BaseStatus(d, phase))
  BY BaseStatusTells, ProvenStatusTells DEF DegradedStatus, AppPhase
<1>. QED
  BY <1>1 DEF CanaryStatus, MigrationStatus, AppPhase

LEMMA MigrationStatusTells ==
  ASSUME NEW d \in Application
  PROVE  Tells(d, MigrationStatus(d))
BY BaseStatusTells DEF MigrationStatus, AppPhase

LEMMA DegradedStatusTells ==
  ASSUME NEW d \in Application
  PROVE  Tells(d, DegradedStatus(d))
BY BaseStatusTells DEF DegradedStatus, AppPhase

\* Reporting such a status ends in the status step, with the same Application.
Reported ==
  /\ rec' \in Reconcile
  /\ rec'.pc = "status"
  /\ rec'.seen = rec.seen
  /\ Tells(rec.seen, rec'.desired)

LEMMA ReturnReports ==
  ASSUME rec \in Reconcile, NEW desired, Tells(rec.seen, desired),
         NEW again \in BOOLEAN, Return(desired, again)
  PROVE  Reported
BY DEF Return, Reported, Reconcile, StepName, Tells

LEMMA ConcludeReports ==
  ASSUME rec \in Reconcile, NEW desired, Tells(rec.seen, desired), Conclude(desired)
  PROVE  Reported
<1>1. rec.seen \in Application
  BY DEF Reconcile
<1>. QED
  BY <1>1, ReturnReports, DegradedStatusTells DEF Conclude

\* Going to another step of the same reconcile.
LEMMA GotoType ==
  ASSUME rec \in Reconcile, NEW pc \in StepName, rec' = [rec EXCEPT !.pc = pc]
  PROVE  rec' \in Reconcile /\ rec'.pc = pc /\ rec'.seen = rec.seen /\ rec'.desired = rec.desired
BY DEF Reconcile

\* A merge patch of one status onto another yields a status.
LEMMA MergeType ==
  ASSUME NEW live \in AppStatus, NEW base \in AppStatus, NEW new \in AppStatus
  PROVE  /\ Merge(live, base, new) \in AppStatus
         /\ Merge(live, base, new).active =
              IF new.active = base.active THEN live.active ELSE new.active
         /\ Merge(live, base, new).digest =
              IF new.digest = base.digest THEN live.digest ELSE new.digest
BY DEF Merge, AppStatus

\* New backends are a route generation of their own.
LEMMA WithBackendType ==
  ASSUME route \in Route, NEW b \in {"base", "canary"}
  PROVE  /\ WithBackend(b) \in Route
         /\ WithBackend(b).backend = b
         /\ \/ WithBackend(b) = route
            \/ WithBackend(b).cutover = "none" /\ WithBackend(b).cleanup = "none"
<1>1. CASE route.backend = b
  BY <1>1 DEF WithBackend
<1>2. CASE route.backend # b
  BY <1>2 DEF WithBackend, NoRoute, Route, Backend, Stamp
<1>. QED
  BY <1>1, <1>2

-----------------------------------------------------------------------------
(* Type correctness *)

LEMMA InitType == Init => TypeOK
<1> SUFFICES ASSUME Init PROVE TypeOK
  OBVIOUS
<1>1. app \in Application
  BY InitialValues DEF Init, Application
<1>. QED
  BY <1>1, InitialValues DEF Init, TypeOK, Service, Backend

\* An edit of the spec is a new generation, and leaves the status alone.
LEMMA EditType ==
  ASSUME TypeOK, NEW s \in Strategy, NEW v \in Version, Edit(s, v)
  PROVE  TypeOK' /\ app'.status = app.status
<1>1. app' \in Application /\ app'.status = app.status /\ edits' \in Nat
  <2>1. app' = [app EXCEPT !.gen = @ + 1, !.strategy = s, !.tag = v]
    BY DEF Edit
  <2>2. app \in Application /\ edits' \in Nat
    BY DEF Edit, TypeOK
  <2>3. app' = [gen |-> app.gen + 1, strategy |-> s, tag |-> v, status |-> app.status]
    BY <2>1, <2>2 DEF Application
  <2>4. app.gen + 1 \in Nat /\ app.status \in AppStatus
    BY <2>2 DEF Application
  <2>. QED
    BY <2>2, <2>3, <2>4 DEF Application
<1>2. rushed' \subseteq {"strategy", "tag"}
  BY DEF Edit, Rushes, TypeOK
<1>. QED
  <2>1. app.tag \in Version
    BY DEF TypeOK, Application
  <2>. QED
    BY <1>1, <1>2, <2>1 DEF Edit, Interrupts, TypeOK, childVars, proxyVars

\* The caches and the start of a reconcile.
LEMMA InputStepType ==
  ASSUME TypeOK, Watch \/ WatchRollout \/ StartReconcile
  PROVE  TypeOK'
<1> USE DEF childVars, proxyVars, bounds, history
<1>1. CASE Watch \/ WatchRollout
  BY <1>1 DEF Watch, WatchRollout, TypeOK
<1>2. CASE StartReconcile
  <2>1. rec' \in Reconcile
    BY <1>2, InitialValues DEF StartReconcile, TypeOK, Reconcile, StepName
  <2>. QED
    BY <1>2, <2>1 DEF StartReconcile, TypeOK
<1>. QED
  BY <1>1, <1>2

LEMMA AdmitStep ==
  ASSUME TypeOK, Admit
  PROVE  /\ TypeOK'
         /\ \/ Reported
            \/ /\ rec'.pc \in {"freeze", "deployment"}
               /\ rec'.seen = rec.seen /\ rec'.desired = rec.desired
<1>1. rec \in Reconcile /\ rec.seen \in Application
  BY DEF TypeOK, Reconcile
<1>2. ASSUME Return(DegradedStatus(rec.seen), FALSE)
      PROVE  Reported
  BY <1>1, <1>2, ReturnReports, DegradedStatusTells
<1>3. CASE Return(DegradedStatus(rec.seen), FALSE)
  <2>1. Reported /\ rec' \in Reconcile
    BY <1>2, <1>3 DEF Reported
  <2>. QED
    BY <2>1 DEF Admit, TypeOK, childVars, proxyVars, bounds, history
<1>4. CASE rec' = [rec EXCEPT
                     !.pc = IF rec.seen.strategy = "rolling" /\ cro.exists
                            THEN "freeze" ELSE "deployment",
                     !.hold = rec.seen.strategy = "canary" /\ ShouldHold(rec.seen),
                     !.found = cro.exists]
  <2>1. (rec.seen.strategy = "canary" /\ ShouldHold(rec.seen)) \in BOOLEAN
        /\ cro.exists \in BOOLEAN
    BY DEF TypeOK, Rollout, ShouldHold
  <2>2. /\ rec' \in Reconcile /\ rec'.pc \in {"freeze", "deployment"}
        /\ rec'.seen = rec.seen /\ rec'.desired = rec.desired
    BY <1>1, <1>4, <2>1 DEF Reconcile, StepName
  <2>. QED
    BY <2>2 DEF Admit, TypeOK, childVars, proxyVars, bounds, history
<1>. QED
  BY <1>3, <1>4 DEF Admit

LEMMA SharedStepType ==
  ASSUME TypeOK, FreezeRollout \/ ApplyDeployment \/ ApplyService
  PROVE  TypeOK'
<1> USE DEF childVars, proxyVars, bounds, history
<1>1. CASE FreezeRollout
  <2>1. rec' \in Reconcile
    BY <1>1, GotoType DEF FreezeRollout, TypeOK, StepName
  <2>2. ro' \in Rollout
    BY <1>1 DEF FreezeRollout, TypeOK, Rollout
  <2>. QED
    BY <1>1, <2>1, <2>2 DEF FreezeRollout, TypeOK
<1>2. CASE ApplyDeployment
  <2>1. dep' \in Deployment
    <3>1. /\ rec.seen.status.active \in Image /\ rec.seen.tag \in Image
          /\ rec.seen.gen \in Nat /\ dep \in Deployment
          /\ Serves \in BOOLEAN /\ rec.hold \in BOOLEAN
      BY InitialValues DEF TypeOK, Reconcile, Application, AppStatus, Serves
    <3>. QED
      BY <1>2, <3>1 DEF ApplyDeployment, DesiredDeployment, Deployment
  <2>2. DeploymentReady(dep') \in BOOLEAN
    BY <2>1 DEF DeploymentReady, Deployment
  <2>3. rec' \in Reconcile
    BY <1>2, <2>2 DEF ApplyDeployment, TypeOK, Reconcile, StepName
  <2>4. dirty' \in BOOLEAN
    BY <1>2 DEF ApplyDeployment, TypeOK
  <2>. QED
    BY <1>2, <2>1, <2>3, <2>4 DEF ApplyDeployment, TypeOK
<1>3. CASE ApplyService
  <2>1. rec' \in Reconcile
    BY <1>3 DEF ApplyService, TypeOK, Reconcile, StepName
  <2>2. svc' \in Service /\ dirty' \in BOOLEAN
    BY <1>3 DEF ApplyService, TypeOK, Reconcile, Application, Service
  <2>. QED
    BY <1>3, <2>1, <2>2 DEF ApplyService, TypeOK
<1>. QED
  BY <1>1, <1>2, <1>3

LEMMA CanaryWritesType ==
  ASSUME TypeOK, ApplyCanaryServices \/ ApplyRollout
  PROVE  TypeOK'
<1> USE DEF proxyVars, bounds, history
<1>1. CASE ApplyCanaryServices
  <2>1. rec' \in Reconcile
    BY <1>1, GotoType DEF ApplyCanaryServices, TypeOK, StepName
  <2>. QED
    BY <1>1, <2>1 DEF ApplyCanaryServices, TypeOK
<1>2. CASE ApplyRollout
  <2>1. rec' \in Reconcile
    BY <1>2, GotoType DEF ApplyRollout, TypeOK, StepName
  <2>2. DesiredRollout \in Rollout
    <3>1. /\ rec.hold \in BOOLEAN /\ rec.seen.tag \in Image /\ 0 \in Image
          /\ ro \in Rollout
      BY InitialValues DEF TypeOK, Reconcile, Application
    <3>. QED
      BY <3>1 DEF DesiredRollout, Rollout
  <2>3. ro' \in Rollout
    BY <1>2, <2>2 DEF ApplyRollout, TypeOK, Rollout
  <2>. QED
    BY <1>2, <2>1, <2>3 DEF ApplyRollout, TypeOK
<1>. QED
  BY <1>1, <1>2

\* The step that routes to the stable and the canary Service.
LEMMA CanaryRouteStep ==
  ASSUME TypeOK, CanaryRoute
  PROVE  /\ TypeOK' /\ Reported
         /\ route' = route \/ route' = WithBackend("canary")
<1>1. /\ route \in Route /\ rec \in Reconcile /\ rec.seen \in Application
      /\ rec.seen.status.active \in Image
  BY DEF TypeOK, Reconcile, Application, AppStatus
<1>2. route' = route \/ route' = WithBackend("canary")
  BY DEF CanaryRoute
<1>3. route' \in Route
  BY <1>1, <1>2, WithBackendType
<1>4. Reported
  <2> DEFINE migrating == \/ route'.backend # "canary"
                          \/ rec.seen.status.active # 0 /\ route'.accepted # "accepted"
  <2>1. Conclude(CanaryStatus(rec.seen, migrating, route'))
    BY DEF CanaryRoute
  <2>2. migrating \in BOOLEAN
    OBVIOUS
  <2> HIDE DEF migrating
  <2>3. Tells(rec.seen, CanaryStatus(rec.seen, migrating, route'))
    BY <1>1, <2>2, CanaryStatusTells
  <2>. QED
    BY <1>1, <2>1, <2>3, ConcludeReports
<1>5. rec' \in Reconcile /\ dirty' \in BOOLEAN
  BY <1>4 DEF Reported, CanaryRoute, TypeOK
<1>. QED
  BY <1>2, <1>3, <1>4, <1>5 DEF CanaryRoute, TypeOK, proxyVars, bounds, history

\* The step that routes to the base Service, and goes on to the drains when
\* the route is accepted.
LEMMA RollingRouteStep ==
  ASSUME TypeOK, RollingRoute
  PROVE  /\ TypeOK'
         /\ route' = route \/ route' = WithBackend("base")
         /\ \/ Reported
            \/ /\ rec'.pc = "cutover" /\ route'.backend = "base"
               /\ rec'.seen = rec.seen /\ rec'.desired = rec.desired
<1>1. route \in Route /\ rec \in Reconcile /\ rec.seen \in Application
  BY DEF TypeOK, Reconcile
<1>2. route' = route \/ route' = WithBackend("base")
  BY DEF RollingRoute
<1>3. route' \in Route
  BY <1>1, <1>2, WithBackendType
<1>4. ASSUME Conclude(WorkloadStatus(rec.seen, rec.depReady, route')) PROVE Reported
  <2>1. Tells(rec.seen, WorkloadStatus(rec.seen, rec.depReady, route'))
    BY <1>1, WorkloadStatusTells
  <2>. QED
    BY <1>1, <1>4, <2>1, ConcludeReports
<1>5. ASSUME Conclude(MigrationStatus(rec.seen)) PROVE Reported
  BY <1>1, <1>5, MigrationStatusTells, ConcludeReports
<1>6. /\ rec' \in Reconcile
      /\ \/ Reported
         \/ /\ rec'.pc = "cutover" /\ route'.backend = "base"
            /\ rec'.seen = rec.seen /\ rec'.desired = rec.desired
  <2>1. Reported => rec' \in Reconcile
    BY DEF Reported
  <2>2. /\ rec.pc = "route"
        /\ \/ Conclude(WorkloadStatus(rec.seen, rec.depReady, route'))
           \/ Conclude(MigrationStatus(rec.seen))
           \/ rec' = [rec EXCEPT !.pc = "cutover"] /\ route'.backend = "base"
    BY DEF RollingRoute
  <2>3. CASE rec' = [rec EXCEPT !.pc = "cutover"] /\ route'.backend = "base"
    BY <1>1, <2>3, GotoType DEF StepName
  <2>. QED
    BY <1>4, <1>5, <2>1, <2>2, <2>3
<1>7. dirty' \in BOOLEAN
  BY DEF RollingRoute, TypeOK
<1>. QED
  BY <1>2, <1>3, <1>6, <1>7 DEF RollingRoute, TypeOK, proxyVars, bounds, history

\* A drain stamps the route, and ends the reconcile until the delay is over.
LEMMA CutoverDrainStep ==
  ASSUME TypeOK, CutoverDrain
  PROVE  /\ TypeOK'
         /\ \/ route' = route
            \/ route.cutover = "none" /\ route' = [route EXCEPT !.cutover = "running"]
         /\ \/ Reported
            \/ /\ rec'.pc = "dropServices" /\ route.cutover = "elapsed"
               /\ rec'.seen = rec.seen /\ rec'.desired = rec.desired
<1>1. route \in Route /\ rec \in Reconcile /\ rec.seen \in Application
  BY DEF TypeOK, Reconcile
<1>2. \/ route' = route
      \/ route.cutover = "none" /\ route' = [route EXCEPT !.cutover = "running"]
  BY DEF CutoverDrain
<1>3. route' \in Route
  BY <1>1, <1>2 DEF Route, Stamp
<1>4. CASE Conclude(MigrationStatus(rec.seen))
  <2>1. Reported
    BY <1>1, <1>4, MigrationStatusTells, ConcludeReports
  <2>2. rec' \in Reconcile
    BY <2>1 DEF Reported
  <2>. QED
    BY <1>2, <1>3, <2>1, <2>2 DEF CutoverDrain, TypeOK, proxyVars, bounds, history
<1>5. CASE route.cutover = "elapsed" /\ rec' = [rec EXCEPT !.pc = "dropServices"]
  <2>1. /\ rec' \in Reconcile /\ rec'.pc = "dropServices"
        /\ rec'.seen = rec.seen /\ rec'.desired = rec.desired
    BY <1>1, <1>5, GotoType DEF StepName
  <2>. QED
    BY <1>2, <1>3, <1>5, <2>1 DEF CutoverDrain, TypeOK, proxyVars, bounds, history
<1>. QED
  BY <1>4, <1>5 DEF CutoverDrain

LEMMA CleanupDrainStep ==
  ASSUME TypeOK, CleanupDrain
  PROVE  /\ TypeOK'
         /\ \/ route' = route
            \/ route.cleanup = "none" /\ route' = [route EXCEPT !.cleanup = "running"]
         /\ \/ Reported
            \/ /\ rec'.pc = "dropRollout" /\ route.cleanup = "elapsed"
               /\ rec'.seen = rec.seen /\ rec'.desired = rec.desired
<1>1. route \in Route /\ rec \in Reconcile /\ rec.seen \in Application
  BY DEF TypeOK, Reconcile
<1>2. \/ route' = route
      \/ route.cleanup = "none" /\ route' = [route EXCEPT !.cleanup = "running"]
  BY DEF CleanupDrain
<1>3. route' \in Route
  BY <1>1, <1>2 DEF Route, Stamp
<1>4. CASE Conclude(MigrationStatus(rec.seen))
  <2>1. Reported
    BY <1>1, <1>4, MigrationStatusTells, ConcludeReports
  <2>2. rec' \in Reconcile
    BY <2>1 DEF Reported
  <2>. QED
    BY <1>2, <1>3, <2>1, <2>2 DEF CleanupDrain, TypeOK, proxyVars, bounds, history
<1>5. CASE route.cleanup = "elapsed" /\ rec' = [rec EXCEPT !.pc = "dropRollout"]
  <2>1. /\ rec' \in Reconcile /\ rec'.pc = "dropRollout"
        /\ rec'.seen = rec.seen /\ rec'.desired = rec.desired
    BY <1>1, <1>5, GotoType DEF StepName
  <2>. QED
    BY <1>2, <1>3, <1>5, <2>1 DEF CleanupDrain, TypeOK, proxyVars, bounds, history
<1>. QED
  BY <1>4, <1>5 DEF CleanupDrain

LEMMA DropRolloutStep ==
  ASSUME TypeOK, DropRollout
  PROVE  TypeOK' /\ Reported
<1>1. rec \in Reconcile /\ rec.seen \in Application
  BY DEF TypeOK, Reconcile
<1>2. Reported
  <2>1. Tells(rec.seen, WorkloadStatus(rec.seen, rec.depReady, route))
    BY <1>1, WorkloadStatusTells
  <2>. QED
    BY <1>1, <2>1, ConcludeReports DEF DropRollout
<1>3. rec' \in Reconcile
  BY <1>2 DEF Reported
<1>. QED
  BY <1>2, <1>3, InitialValues DEF DropRollout, TypeOK, proxyVars, bounds, history

\* The status patch, by what it may leave as the Application's status.
LEMMA PatchStatusStep ==
  ASSUME TypeOK, PatchStatus
  PROVE  /\ TypeOK' /\ rec' = Idle
         /\ \/ app'.status = app.status
            \/ app'.status = Merge(app.status, cached.status, rec.desired)
<1>1. /\ app \in Application /\ app.status \in AppStatus
      /\ cached.status \in AppStatus /\ rec.desired \in AppStatus
      /\ rec.retry \in BOOLEAN
  BY DEF TypeOK, Application, Reconcile
<1>2. /\ app' \in Application
      /\ \/ app'.status = app.status
         \/ app'.status = Merge(app.status, cached.status, rec.desired)
  <2>1. CASE app' = app
    BY <1>1, <2>1
  <2>2. CASE app' = [app EXCEPT !.status = Merge(app.status, cached.status, rec.desired)]
    <3>1. Merge(app.status, cached.status, rec.desired) \in AppStatus
      BY <1>1, MergeType
    <3>. QED
      BY <1>1, <2>2, <3>1 DEF Application
  <2>. QED
    BY <2>1, <2>2 DEF PatchStatus
<1>3. approved' \subseteq Version /\ interrupted' \subseteq Version /\ rushed' = rushed
  <2>1. app'.status.active \in Image
    BY <1>2 DEF Application, AppStatus
  <2>2. {app'.status.active} \ {0} \subseteq Version
    BY <2>1 DEF Image, Version
  <2>. QED
    BY <2>2 DEF PatchStatus, Approves, TypeOK
<1>4. rec' = Idle /\ dirty' \in BOOLEAN
  BY <1>1 DEF PatchStatus, Finish, TypeOK
<1>. QED
  BY <1>2, <1>3, <1>4, InitialValues DEF PatchStatus, TypeOK, childVars, proxyVars, bounds, history

LEMMA DropServicesType ==
  ASSUME TypeOK, DropServices
  PROVE  TypeOK'
<1>1. rec' \in Reconcile
  BY GotoType DEF DropServices, TypeOK, StepName
<1>. QED
  BY <1>1 DEF DropServices, TypeOK, proxyVars, bounds, history

\* Failures end the reconcile or make it report, stall pods or reject a route.
LEMMA FailureStep ==
  ASSUME TypeOK, Failure
  PROVE  /\ TypeOK'
         /\ rec' = rec \/ rec' = Idle \/ Reported
<1> USE DEF childVars, proxyVars, history, Fault
<1>0. Written \subseteq Version
  BY DEF Written, TypeOK, Reconcile, Application
<1>1. CASE Interrupt
  BY <1>0, <1>1, InitialValues DEF Interrupt, Interrupts, Finish, TypeOK
<1>2. CASE WriteError
  <2>1. rec \in Reconcile /\ rec.seen \in Application
    BY DEF TypeOK, Reconcile
  <2>2. Reported
    BY <1>2, <2>1, ReturnReports, DegradedStatusTells DEF WriteError
  <2>3. rec' \in Reconcile
    BY <2>2 DEF Reported
  <2>. QED
    BY <1>0, <1>2, <2>2, <2>3 DEF WriteError, Interrupts, TypeOK
<1>3. CASE DeploymentStalls
  <2>1. dep' \in Deployment
    BY <1>3 DEF DeploymentStalls, TypeOK, Deployment
  <2>. QED
    BY <1>3, <2>1 DEF DeploymentStalls, TypeOK
<1>4. CASE RouteRejected
  <2>1. route' \in Route
    BY <1>4 DEF RouteRejected, TypeOK, Route
  <2>. QED
    BY <1>4, <2>1 DEF RouteRejected, TypeOK
<1>. QED
  BY <1>1, <1>2, <1>3, <1>4 DEF Failure

\* The Deployment controller, Envoy and time.
LEMMA PlatformStepType ==
  ASSUME TypeOK,
         \/ DeploymentRolls \/ RouteAccepted \/ ProxyConverges
         \/ ConnectionsDrain \/ CutoverElapses \/ CleanupElapses
  PROVE  TypeOK'
<1> USE DEF childVars, proxyVars, bounds, history
<1>1. CASE DeploymentRolls
  <2>1. dep' \in Deployment
    BY <1>1, InitialValues DEF DeploymentRolls, TypeOK, Deployment
  <2>. QED
    BY <1>1, <2>1 DEF DeploymentRolls, TypeOK
<1>2. CASE RouteAccepted \/ CutoverElapses \/ CleanupElapses
  <2>1. route' \in Route
    BY <1>2 DEF RouteAccepted, CutoverElapses, CleanupElapses, TypeOK, Route, Stamp
  <2>. QED
    BY <1>2, <2>1 DEF RouteAccepted, CutoverElapses, CleanupElapses, CallsAgain, TypeOK
<1>3. CASE ProxyConverges
  <2>1. proxy' \in Backend /\ inflight' \in BOOLEAN
    BY <1>3 DEF ProxyConverges, TypeOK, Route
  <2>. QED
    BY <1>3, <2>1 DEF ProxyConverges, TypeOK
<1>4. CASE ConnectionsDrain
  BY <1>4 DEF ConnectionsDrain, TypeOK
<1>. QED
  BY <1>1, <1>2, <1>3, <1>4

\* Argo Rollouts and its Gateway plugin.
LEMMA RolloutStepType ==
  ASSUME TypeOK,
         \/ RolloutObserves \/ RolloutPauses \/ RolloutRolls \/ CanaryStarts
         \/ CanaryPasses \/ CanaryFails \/ WeightsReturn \/ ScaleDownWorkload
  PROVE  TypeOK'
<1> USE DEF proxyVars, bounds, history
<1>1. ro \in Rollout /\ route \in Route /\ dep \in Deployment /\ dep.ver \in Image
  BY DEF TypeOK, Deployment
<1>2. CASE RolloutObserves \/ RolloutPauses \/ RolloutRolls
  <2>1. ro' \in Rollout
    BY <1>1, <1>2 DEF RolloutObserves, RolloutPauses, RolloutRolls, Rollout
  <2>. QED
    BY <1>2, <2>1 DEF RolloutObserves, RolloutPauses, RolloutRolls, TypeOK
<1>3. CASE CanaryStarts
  <2>1. ro' \in Rollout /\ route' \in Route
    BY <1>1, <1>3 DEF CanaryStarts, Rollout, Route
  <2>. QED
    BY <1>3, <2>1 DEF CanaryStarts, TypeOK
<1>4. CASE CanaryPasses
  <2>1. ro' \in Rollout
    BY <1>1, <1>4 DEF CanaryPasses, Rollout
  <2>2. ro.target \in Version
    BY <1>1, <1>4 DEF CanaryPasses, Updating, Rollout, Image, Version
  <2>. QED
    BY <1>4, <2>1, <2>2 DEF CanaryPasses, Approves, TypeOK
<1>5. CASE CanaryFails
  <2>1. ro' \in Rollout
    BY <1>1, <1>5 DEF CanaryFails, Rollout
  <2>2. aborts' \in Nat
    BY <1>5 DEF CanaryFails, TypeOK
  <2>. QED
    BY <1>5, <2>1, <2>2 DEF CanaryFails, TypeOK
<1>6. CASE WeightsReturn
  <2>1. route' \in Route
    BY <1>1, <1>6 DEF WeightsReturn, Route
  <2>. QED
    BY <1>6, <2>1 DEF WeightsReturn, TypeOK
<1>7. CASE ScaleDownWorkload
  <2>1. dep' \in Deployment
    BY <1>1, <1>7 DEF ScaleDownWorkload, Deployment
  <2>. QED
    BY <1>7, <2>1 DEF ScaleDownWorkload, TypeOK
<1>. QED
  BY <1>2, <1>3, <1>4, <1>5, <1>6, <1>7

LEMMA StutterType == ASSUME TypeOK, UNCHANGED vars PROVE TypeOK'
BY DEF TypeOK, vars, childVars, proxyVars, bounds, history

LEMMA StepType == ASSUME TypeOK, [Next]_vars PROVE TypeOK'
BY EditType, InputStepType, AdmitStep, SharedStepType, CanaryWritesType, CanaryRouteStep,
   RollingRouteStep, CutoverDrainStep, DropServicesType, CleanupDrainStep, DropRolloutStep,
   PatchStatusStep, FailureStep, PlatformStepType, RolloutStepType, StutterType
   DEF Next, Controller, Progress

\* Every variable keeps its type: in particular the status the controller
\* merges and patches is always one that the CRD's schema admits.
THEOREM DeliveryTypeCorrect == Spec => []TypeOK
BY InitType, StepType, PTL DEF Spec

-----------------------------------------------------------------------------
(* The drains order the clean-up of a canary *)

\* What the route tells of Envoy and of the Rollout's parts: a drain stamp holds
\* for the backends it was made for, and new backends have none.
RouteTells ==
  /\ route.backend = "canary" => progServices /\ ro.exists
  /\ route.cutover = "elapsed" => proxy = route.backend
  /\ route.cleanup # "none" => route.backend = "base"
  /\ route.cleanup = "elapsed" => ~inflight

\* What a reconcile has made sure of when it gets to a step.
StepTells ==
  /\ rec.pc \in {"services", "rollout"} => rec.seen.strategy = "canary"
  /\ rec.pc = "rollout" => progServices
  /\ rec.pc = "route" /\ rec.seen.strategy = "canary" => progServices /\ ro.exists
  /\ rec.pc \in {"cutover", "dropServices", "cleanup", "dropRollout"} =>
       route.backend = "base"
  /\ rec.pc \in {"dropServices", "cleanup", "dropRollout"} => route.cutover = "elapsed"
  /\ rec.pc = "dropRollout" => route.cleanup = "elapsed"

DrainInv == RouteTells /\ StepTells /\ NoTrafficToRemoved

LEMMA InitDrain == Init => DrainInv
BY DEF Init, DrainInv, RouteTells, StepTells, NoTrafficToRemoved, NoRoute, Idle

\* Steps up to the Rollout touch neither the route nor what it leads to.
LEMMA EarlyDrain ==
  ASSUME TypeOK, DrainInv,
         \/ Watch \/ WatchRollout \/ StartReconcile \/ Admit \/ FreezeRollout
         \/ ApplyDeployment \/ ApplyService
  PROVE  DrainInv'
<1> USE DEF DrainInv, RouteTells, StepTells, NoTrafficToRemoved, childVars, proxyVars
<1>1. rec \in Reconcile /\ ro \in Rollout
  BY DEF TypeOK
<1>2. CASE Watch \/ WatchRollout
  BY <1>2 DEF Watch, WatchRollout
<1>3. CASE StartReconcile
  BY <1>3 DEF StartReconcile, Idle
<1>4. CASE Admit
  <2>1. rec'.pc \in {"status", "freeze", "deployment"}
    BY <1>4, AdmitStep DEF Reported
  <2>. QED
    BY <1>4, <2>1 DEF Admit
<1>5. CASE FreezeRollout
  <2>1. ro'.exists = ro.exists /\ rec'.pc = "deployment"
    BY <1>1, <1>5 DEF FreezeRollout, Rollout, Reconcile
  <2>. QED
    BY <1>5, <2>1 DEF FreezeRollout
<1>6. CASE ApplyDeployment
  <2>1. rec'.pc = "service"
    BY <1>1, <1>6 DEF ApplyDeployment, Reconcile
  <2>. QED
    BY <1>6, <2>1 DEF ApplyDeployment
<1>7. CASE ApplyService
  <2>1. /\ rec'.pc = IF rec.seen.strategy = "canary" THEN "services" ELSE "route"
        /\ rec'.seen = rec.seen
    BY <1>1, <1>7 DEF ApplyService, Reconcile
  <2>. QED
    BY <1>7, <2>1 DEF ApplyService
<1>. QED
  BY <1>2, <1>3, <1>4, <1>5, <1>6, <1>7

\* The canary's Services and its Rollout exist before the route leads to them.
LEMMA CanaryDrain ==
  ASSUME TypeOK, DrainInv, ApplyCanaryServices \/ ApplyRollout \/ CanaryRoute
  PROVE  DrainInv'
<1> USE DEF DrainInv, RouteTells, StepTells, NoTrafficToRemoved, proxyVars
<1>1. rec \in Reconcile /\ ro \in Rollout /\ route \in Route
  BY DEF TypeOK
<1>2. CASE ApplyCanaryServices
  <2>1. rec'.pc = "rollout" /\ rec'.seen = rec.seen
    BY <1>1, <1>2 DEF ApplyCanaryServices, Reconcile
  <2>. QED
    BY <1>2, <2>1 DEF ApplyCanaryServices
<1>3. CASE ApplyRollout
  <2>1. rec'.pc = "route" /\ rec'.seen = rec.seen
    BY <1>1, <1>3 DEF ApplyRollout, Reconcile
  <2>2. ro'.exists = TRUE
    BY <1>1, <1>3 DEF ApplyRollout, DesiredRollout, Rollout
  <2>. QED
    BY <1>3, <2>1, <2>2 DEF ApplyRollout
<1>4. CASE CanaryRoute
  <2>1. /\ progServices' = progServices /\ ro' = ro
        /\ proxy' = proxy /\ inflight' = inflight
        /\ rec.pc = "route" /\ rec.seen.strategy = "canary"
    BY <1>4 DEF CanaryRoute
  <2>2. rec'.pc = "status"
    BY <1>4, CanaryRouteStep DEF Reported
  <2>3. \/ route' = route
        \/ route'.backend = "canary" /\ route'.cutover = "none" /\ route'.cleanup = "none"
    BY <1>1, <1>4, CanaryRouteStep, WithBackendType
  <2>. QED
    BY <2>1, <2>2, <2>3
<1>. QED
  BY <1>2, <1>3, <1>4

\* The route leaves the canary's Services, Envoy follows, the Services go, the
\* last connections end, and only then the Rollout goes.
LEMMA RollingDrain ==
  ASSUME TypeOK, DrainInv,
         RollingRoute \/ CutoverDrain \/ DropServices \/ CleanupDrain \/ DropRollout
  PROVE  DrainInv'
<1> USE DEF DrainInv, RouteTells, StepTells, NoTrafficToRemoved, proxyVars
<1>1. rec \in Reconcile /\ ro \in Rollout /\ route \in Route
  BY DEF TypeOK
<1>2. CASE RollingRoute
  <2>1. /\ progServices' = progServices /\ ro' = ro
        /\ proxy' = proxy /\ inflight' = inflight
    BY <1>2 DEF RollingRoute
  <2>2. rec'.pc = "status" \/ (rec'.pc = "cutover" /\ route'.backend = "base")
    BY <1>2, RollingRouteStep DEF Reported
  <2>3. \/ route' = route
        \/ route'.backend = "base" /\ route'.cutover = "none" /\ route'.cleanup = "none"
    BY <1>1, <1>2, RollingRouteStep, WithBackendType
  <2>. QED
    BY <2>1, <2>2, <2>3
<1>3. CASE CutoverDrain
  <2>1. /\ progServices' = progServices /\ ro' = ro
        /\ proxy' = proxy /\ inflight' = inflight
        /\ route.backend = "base"
    BY <1>3 DEF CutoverDrain
  <2>2. rec'.pc = "status" \/ (rec'.pc = "dropServices" /\ route.cutover = "elapsed")
    BY <1>3, CutoverDrainStep DEF Reported
  <2>3. /\ route'.backend = route.backend /\ route'.cleanup = route.cleanup
        /\ \/ route'.cutover = route.cutover
           \/ route.cutover = "none" /\ route'.cutover = "running"
    BY <1>1, <1>3, CutoverDrainStep DEF Route
  <2>. QED
    BY <2>1, <2>2, <2>3
<1>4. CASE DropServices
  <2>1. rec'.pc = "cleanup"
    BY <1>1, <1>4 DEF DropServices, Reconcile
  <2>. QED
    BY <1>4, <2>1 DEF DropServices
<1>5. CASE CleanupDrain
  <2>1. /\ progServices' = progServices /\ ro' = ro
        /\ proxy' = proxy /\ inflight' = inflight
        /\ route.backend = "base" /\ route.cutover = "elapsed"
    BY <1>5 DEF CleanupDrain
  <2>2. rec'.pc = "status" \/ (rec'.pc = "dropRollout" /\ route.cleanup = "elapsed")
    BY <1>5, CleanupDrainStep DEF Reported
  <2>3. /\ route'.backend = route.backend /\ route'.cutover = route.cutover
        /\ \/ route'.cleanup = route.cleanup
           \/ route.cleanup = "none" /\ route'.cleanup = "running"
    BY <1>1, <1>5, CleanupDrainStep DEF Route
  <2>. QED
    BY <2>1, <2>2, <2>3
<1>6. CASE DropRollout
  <2>1. rec'.pc = "status"
    BY <1>6, DropRolloutStep DEF Reported
  <2>2. proxy = "base" /\ ~inflight /\ route.backend = "base"
    BY <1>6 DEF DropRollout
  <2>. QED
    BY <1>6, <2>1, <2>2 DEF DropRollout
<1>. QED
  BY <1>2, <1>3, <1>4, <1>5, <1>6

\* Failures end the reconcile, or touch no more than the route's acceptance.
LEMMA FailureDrain ==
  ASSUME TypeOK, DrainInv, Failure
  PROVE  DrainInv'
<1>1. /\ progServices' = progServices /\ ro' = ro
      /\ proxy' = proxy /\ inflight' = inflight
  BY DEF Failure, Interrupt, WriteError, DeploymentStalls, RouteRejected, childVars, proxyVars
<1>2. rec' = rec \/ rec'.pc \in {"idle", "status"}
  BY FailureStep DEF Reported, Idle
<1>3. /\ route'.backend = route.backend /\ route'.cutover = route.cutover
      /\ route'.cleanup = route.cleanup
  BY DEF TypeOK, Route, Failure, Interrupt, WriteError, DeploymentStalls, RouteRejected,
         childVars
<1>. QED
  BY <1>1, <1>2, <1>3 DEF DrainInv, RouteTells, StepTells, NoTrafficToRemoved

\* Envoy only follows the route, and a delay elapses only when what it waits
\* for has happened.
LEMMA PlatformDrain ==
  ASSUME TypeOK, DrainInv,
         \/ DeploymentRolls \/ RouteAccepted \/ ProxyConverges
         \/ ConnectionsDrain \/ CutoverElapses \/ CleanupElapses
  PROVE  DrainInv'
<1> USE DEF DrainInv, RouteTells, StepTells, NoTrafficToRemoved, proxyVars
<1>1. route \in Route
  BY DEF TypeOK
<1>2. CASE DeploymentRolls
  BY <1>2 DEF DeploymentRolls
<1>3. CASE RouteAccepted
  <2>1. /\ route'.backend = route.backend /\ route'.cutover = route.cutover
        /\ route'.cleanup = route.cleanup
    BY <1>1, <1>3 DEF RouteAccepted, Route
  <2>. QED
    BY <1>3, <2>1 DEF RouteAccepted
<1>4. CASE ProxyConverges
  BY <1>4 DEF ProxyConverges, childVars
<1>5. CASE ConnectionsDrain
  BY <1>5 DEF ConnectionsDrain, childVars
<1>6. CASE CutoverElapses
  <2>1. /\ route'.backend = route.backend /\ route'.cleanup = route.cleanup
        /\ route'.cutover = "elapsed"
    BY <1>1, <1>6 DEF CutoverElapses, Route
  <2>. QED
    BY <1>6, <2>1 DEF CutoverElapses
<1>7. CASE CleanupElapses
  <2>1. /\ route'.backend = route.backend /\ route'.cutover = route.cutover
        /\ route'.cleanup = "elapsed"
    BY <1>1, <1>7 DEF CleanupElapses, Route
  <2>. QED
    BY <1>7, <2>1 DEF CleanupElapses
<1>. QED
  BY <1>2, <1>3, <1>4, <1>5, <1>6, <1>7

\* Argo Rollouts neither creates nor removes a Rollout, and moves weights only.
LEMMA RolloutDrain ==
  ASSUME TypeOK, DrainInv,
         \/ RolloutObserves \/ RolloutPauses \/ RolloutRolls \/ CanaryStarts
         \/ CanaryPasses \/ CanaryFails \/ WeightsReturn \/ ScaleDownWorkload
  PROVE  DrainInv'
<1>1. ro'.exists = ro.exists
  BY DEF TypeOK, Rollout, RolloutObserves, RolloutPauses, RolloutRolls, CanaryStarts,
         CanaryPasses, CanaryFails, WeightsReturn, ScaleDownWorkload
<1>2. /\ route'.backend = route.backend /\ route'.cutover = route.cutover
      /\ route'.cleanup = route.cleanup
  BY DEF TypeOK, Route, RolloutObserves, RolloutPauses, RolloutRolls, CanaryStarts,
         CanaryPasses, CanaryFails, WeightsReturn, ScaleDownWorkload
<1>3. /\ progServices' = progServices /\ rec' = rec
      /\ proxy' = proxy /\ inflight' = inflight
  BY DEF RolloutObserves, RolloutPauses, RolloutRolls, CanaryStarts,
         CanaryPasses, CanaryFails, WeightsReturn, ScaleDownWorkload, proxyVars
<1>. QED
  BY <1>1, <1>2, <1>3 DEF DrainInv, RouteTells, StepTells, NoTrafficToRemoved

LEMMA StepDrain == ASSUME TypeOK, DrainInv, [Next]_vars PROVE DrainInv'
<1> USE DEF DrainInv, RouteTells, StepTells, NoTrafficToRemoved, childVars, proxyVars
<1>1. CASE \E s \in Strategy, v \in Version : Edit(s, v)
  <2>1. UNCHANGED <<progServices, ro, route, proxy, inflight, rec>>
    BY <1>1 DEF Edit
  <2>. QED
    BY <2>1
<1>2. CASE PatchStatus
  <2>1. rec'.pc = "idle"
    BY <1>2, PatchStatusStep DEF Idle
  <2>. QED
    BY <1>2, <2>1 DEF PatchStatus
<1>3. CASE UNCHANGED vars
  BY <1>3 DEF vars
<1> HIDE DEF DrainInv
<1>. QED
  BY <1>1, <1>2, <1>3, EarlyDrain, CanaryDrain, RollingDrain, FailureDrain, PlatformDrain,
     RolloutDrain DEF Next, Controller, Progress

\* While Envoy sends requests to the canary's Services they exist, and while it
\* holds connections to the Rollout's pods the Rollout exists: both drains wait
\* for what they are there for, however releases, migrations taken back and
\* forth, failures and lagging caches interleave.
THEOREM CleanupIsDrained == Spec => []NoTrafficToRemoved
<1>1. Init => TypeOK /\ DrainInv
  BY InitType, InitDrain
<1>2. TypeOK /\ DrainInv /\ [Next]_vars => (TypeOK /\ DrainInv)'
  BY StepType, StepDrain
<1>3. DrainInv => NoTrafficToRemoved
  BY DEF DrainInv
<1>. QED
  BY <1>1, <1>2, <1>3, PTL DEF Spec

-----------------------------------------------------------------------------
(* The last healthy release *)

Atomic(status) == status.digest = status.active

\* What every status in circulation tells of the last healthy release.
StatusInv ==
  /\ rec.pc = "status" => Kept(rec.seen, rec.desired) \/ Renewed(rec.seen, rec.desired)
  /\ ~StaleReads /\ rec.pc # "idle" =>
       rec.seen.status = app.status /\ cached.status = app.status
  /\ ~PinnedImages => /\ Atomic(app.status) /\ Atomic(cached.status)
                     /\ Atomic(rec.seen.status) /\ Atomic(rec.desired)

LEMMA InitStatus == Init => StatusInv
BY DEF Init, StatusInv, Atomic, NoStatus, NoApplication, Idle

\* A whole status is stored: a merge into the copy it was compared with.
LEMMA MergeWhole ==
  ASSUME NEW base \in AppStatus, NEW new \in AppStatus
  PROVE  Merge(base, base, new) = new
BY DEF Merge, AppStatus

\* A step goes on with the reconcile and the Application it has seen, makes it
\* report, ends it, or starts one.
Continues ==
  \/ rec' = rec
  \/ rec' = Idle
  \/ rec.pc # "idle" /\ Reported
  \/ /\ rec.pc # "idle" /\ rec'.pc \notin {"idle", "status"}
     /\ rec'.seen = rec.seen /\ rec'.desired = rec.desired
  \/ /\ rec' = [Idle EXCEPT !.pc = "admit", !.seen = cached]
     /\ StaleReads \/ cached = app

\* Only the status patch changes the Application's status.
LEMMA StatusFrame ==
  ASSUME TypeOK, [Next]_vars, ~PatchStatus
  PROVE  /\ limits' = limits /\ app'.status = app.status
         /\ cached'.status = cached.status \/ cached'.status = app.status
         /\ Continues
<1>1. rec \in Reconcile
  BY DEF TypeOK
<1>2. CASE \E s \in Strategy, v \in Version : Edit(s, v)
  <2>1. PICK s \in Strategy, v \in Version : Edit(s, v)
    BY <1>2
  <2>. QED
    BY <2>1, EditType DEF Edit, Continues
<1>3. CASE \/ FreezeRollout \/ ApplyDeployment \/ ApplyService \/ ApplyCanaryServices
           \/ ApplyRollout \/ DropServices
  <2>1. /\ rec'.pc \notin {"idle", "status"} /\ rec.pc # "idle"
        /\ rec'.seen = rec.seen /\ rec'.desired = rec.desired
    BY <1>1, <1>3 DEF FreezeRollout, ApplyDeployment, ApplyService, ApplyCanaryServices,
                      ApplyRollout, DropServices, Reconcile
  <2>2. UNCHANGED <<limits, app, cached>>
    BY <1>3 DEF FreezeRollout, ApplyDeployment, ApplyService, ApplyCanaryServices,
                ApplyRollout, DropServices, bounds
  <2>. QED
    BY <2>1, <2>2 DEF Continues
<1>4. CASE Admit \/ CanaryRoute \/ RollingRoute \/ CutoverDrain \/ CleanupDrain \/ DropRollout
  <2>1. UNCHANGED <<limits, app, cached>> /\ rec.pc # "idle"
    BY <1>4 DEF Admit, CanaryRoute, RollingRoute, CutoverDrain, CleanupDrain, DropRollout,
                bounds
  <2>2. \/ Reported
        \/ /\ rec'.pc \notin {"idle", "status"}
           /\ rec'.seen = rec.seen /\ rec'.desired = rec.desired
    BY <1>4, AdmitStep, CanaryRouteStep, RollingRouteStep, CutoverDrainStep,
       CleanupDrainStep, DropRolloutStep
  <2>. QED
    BY <2>1, <2>2 DEF Continues
<1>5. CASE Failure
  <2>1. UNCHANGED <<limits, app, cached>>
    BY <1>5 DEF Failure, Interrupt, WriteError, DeploymentStalls, RouteRejected
  <2>2. \/ rec' = rec \/ rec' = Idle
        \/ rec.pc # "idle" /\ Reported
    <3>1. WriteError \/ Interrupt => rec.pc # "idle"
      BY DEF WriteError, Interrupt
    <3>2. DeploymentStalls \/ RouteRejected => rec' = rec
      BY DEF DeploymentStalls, RouteRejected
    <3>. QED
      BY <1>5, <3>1, <3>2, FailureStep DEF Failure
  <2>. QED
    BY <2>1, <2>2 DEF Continues
<1>6. CASE Watch \/ WatchRollout \/ StartReconcile
  BY <1>6 DEF Watch, WatchRollout, StartReconcile, Continues, bounds
<1>7. CASE \/ DeploymentRolls \/ RouteAccepted \/ ProxyConverges
           \/ ConnectionsDrain \/ CutoverElapses \/ CleanupElapses
  BY <1>7 DEF DeploymentRolls, RouteAccepted, ProxyConverges, ConnectionsDrain,
              CutoverElapses, CleanupElapses, Continues, bounds
<1>8. CASE \/ RolloutObserves \/ RolloutPauses \/ RolloutRolls \/ CanaryStarts
           \/ CanaryPasses \/ CanaryFails \/ WeightsReturn \/ ScaleDownWorkload
  BY <1>8 DEF RolloutObserves, RolloutPauses, RolloutRolls, CanaryStarts, CanaryPasses,
              CanaryFails, WeightsReturn, ScaleDownWorkload, Continues, bounds
<1>9. CASE UNCHANGED vars
  BY <1>9 DEF vars, bounds, Continues
<1>. QED
  BY <1>2, <1>3, <1>4, <1>5, <1>6, <1>7, <1>8, <1>9 DEF Next, Controller, Progress

\* What the status patch leaves as the last healthy release.
LEMMA PatchStatusKeeps ==
  ASSUME TypeOK, StatusInv, PatchStatus
  PROVE  /\ limits' = limits /\ cached' = cached
         /\ ~PinnedImages => Atomic(app'.status)
         /\ ~StaleReads => Kept(app, app'.status) \/ Renewed(rec.seen, app'.status)
<1>1. /\ app.status \in AppStatus /\ cached.status \in AppStatus
      /\ rec.desired \in AppStatus
  BY DEF TypeOK, Application, Reconcile
<1>2. limits' = limits /\ cached' = cached /\ rec.pc = "status"
  BY DEF PatchStatus, bounds
<1>3. CASE app'.status = app.status
  BY <1>2, <1>3 DEF StatusInv, Kept
<1>4. CASE app'.status = Merge(app.status, cached.status, rec.desired)
  <2>1. /\ app'.status.active = IF rec.desired.active = cached.status.active
                                THEN app.status.active ELSE rec.desired.active
        /\ app'.status.digest = IF rec.desired.digest = cached.status.digest
                                THEN app.status.digest ELSE rec.desired.digest
    BY <1>1, <1>4, MergeType
  <2>2. ~PinnedImages => Atomic(app'.status)
    BY <1>2, <2>1 DEF StatusInv, Atomic
  <2>3. ASSUME ~StaleReads
        PROVE  Kept(app, app'.status) \/ Renewed(rec.seen, app'.status)
    <3>1. rec.seen.status = app.status /\ cached.status = app.status
      BY <1>2, <2>3 DEF StatusInv
    <3>2. app'.status = rec.desired
      BY <1>1, <1>4, <3>1, MergeWhole
    <3>3. Kept(rec.seen, rec.desired) \/ Renewed(rec.seen, rec.desired)
      BY <1>2 DEF StatusInv
    <3>. QED
      BY <3>1, <3>2, <3>3 DEF Kept
  <2>. QED
    BY <1>2, <2>2, <2>3
<1>. QED
  BY <1>3, <1>4, PatchStatusStep

LEMMA StepStatus == ASSUME TypeOK, StatusInv, [Next]_vars PROVE StatusInv'
<1>1. CASE PatchStatus
  <2>1. rec' = Idle
    BY <1>1, PatchStatusStep
  <2>. QED
    BY <1>1, <2>1, PatchStatusKeeps
       DEF StatusInv, Atomic, Idle, NoStatus, NoApplication, StaleReads, PinnedImages
<1>2. CASE ~PatchStatus
  <2>1. /\ limits' = limits /\ app'.status = app.status
        /\ cached'.status = cached.status \/ cached'.status = app.status
    BY <1>2, StatusFrame
  <2>2. CASE rec' = rec
    BY <2>1, <2>2 DEF StatusInv, Atomic, StaleReads, PinnedImages
  <2>3. CASE rec' = Idle
    BY <2>1, <2>3 DEF StatusInv, Atomic, StaleReads, PinnedImages, Idle, NoStatus,
                      NoApplication
  <2>4. CASE rec.pc # "idle" /\ Reported
    <3>1. /\ rec'.pc = "status" /\ rec'.seen = rec.seen
          /\ Kept(rec'.seen, rec'.desired) \/ Renewed(rec'.seen, rec'.desired)
      BY <2>4 DEF Reported, Tells
    <3>2. ~PinnedImages => Atomic(rec'.desired)
      BY <2>4 DEF Reported, Tells, Kept, Renewed, StatusInv, Atomic
    <3>. QED
      BY <2>1, <2>4, <3>1, <3>2 DEF StatusInv, Atomic, StaleReads, PinnedImages
  <2>5. CASE /\ rec.pc # "idle" /\ rec'.pc \notin {"idle", "status"}
             /\ rec'.seen = rec.seen /\ rec'.desired = rec.desired
    BY <2>1, <2>5 DEF StatusInv, Atomic, StaleReads, PinnedImages
  <2>6. CASE /\ rec' = [Idle EXCEPT !.pc = "admit", !.seen = cached]
             /\ StaleReads \/ cached = app
    <3>1. rec'.pc = "admit" /\ rec'.seen = cached /\ rec'.desired = NoStatus
      BY <2>6 DEF Idle
    <3>. QED
      BY <2>1, <2>6, <3>1 DEF StatusInv, Atomic, StaleReads, PinnedImages, NoStatus
  <2>. QED
    BY <1>2, <2>2, <2>3, <2>4, <2>5, <2>6, StatusFrame DEF Continues
<1>. QED
  BY <1>1, <1>2

LEMMA StatusHolds == Spec => [](TypeOK /\ StatusInv)
<1>1. Init => TypeOK /\ StatusInv
  BY InitType, InitStatus
<1>2. TypeOK /\ StatusInv /\ [Next]_vars => (TypeOK /\ StatusInv)'
  BY StepType, StepStatus
<1>. QED
  BY <1>1, <1>2, PTL DEF Spec

\* The active version and the digest recorded with it are of one release, however
\* the fields of a status are merged from a lagging copy, unless the images of
\* pods are pinned, where a digest matches whatever the tag is.
THEOREM ProvenanceIsAtomic == Spec => [](~PinnedImages => ProvenanceAtomic)
<1>1. StatusInv => (~PinnedImages => ProvenanceAtomic)
  BY DEF StatusInv, Atomic, ProvenanceAtomic
<1>. QED
  BY <1>1, StatusHolds, PTL

\* If reconciles start on current caches, the last healthy release changes only
\* as a whole, to one that is reported healthy: no failure, rejection or
\* migration erases it.
THEOREM LastHealthyIsKept == Spec => LastHealthyKept
<1> DEFINE Change == ~StaleReads =>
                      \/ /\ app'.status.active = app.status.active
                         /\ app'.status.digest = app.status.digest
                      \/ app'.status = HealthyStatus(rec.seen, app'.status.digest)
<1>1. TypeOK /\ StatusInv /\ [Next]_vars => Change
  <2>1. CASE PatchStatus
    BY <2>1, PatchStatusKeeps DEF Kept, Renewed
  <2>2. CASE ~PatchStatus
    BY <2>2, StatusFrame
  <2>. QED
    BY <2>1, <2>2
<1>2. TypeOK /\ StatusInv /\ [Next]_vars => [Change]_vars
  BY <1>1
<1>. QED
  BY <1>2, StatusHolds, PTL DEF LastHealthyKept, Spec

-----------------------------------------------------------------------------
(* Canary steps wait for the two-backend route *)

Current == ~StaleReads /\ ~EagerEdits

BaseNotFull == route.backend = "base" /\ ro.exists => ~ro.full

\* A first release has had one strategy only, so its canary has had no other
\* route; a later canary starts from no Rollout, and its reconciles hold the
\* Deployment until the route has two backends; a rolling reconcile finds no
\* Rollout, or has paused it before it moves the route.
Bootstrap ==
  /\ rec.pc = "admit" => cro.exists = ro.exists /\ cro.full = ro.full
  /\ rec.pc = "freeze" => rec.seen.strategy = "rolling"
  /\ app.status.active = 0 =>
       /\ cached.strategy = app.strategy
       /\ rec.pc # "idle" => rec.seen.strategy = app.strategy
       /\ app.strategy = "canary" => route.backend # "base"
  /\ app.strategy = "canary" => BaseNotFull
  /\ rec.pc # "idle" /\ rec.seen.strategy = "canary" => BaseNotFull
  /\ rec.pc # "idle" /\ rec.seen.strategy = "rolling" /\ app.strategy = "canary" =>
       ~ro.exists
  /\ /\ rec.pc \in {"deployment", "service", "services", "rollout"}
     /\ rec.seen.strategy = "canary" /\ ~rec.hold
     => route.backend # "base"
  /\ rec.pc \in {"deployment", "service", "route"} /\ rec.seen.strategy = "rolling" =>
       (ro.exists => ro.paused)
  /\ ro.exists /\ ro.full /\ ~ro.paused => route.backend # "base"

LEMMA InitBootstrap == Init => Bootstrap
BY DEF Init, Bootstrap, BaseNotFull, NoRoute, NoRollout, Idle

\* The strategy is only edited when a release has ended, on aligned resources.
LEMMA EditBootstrap ==
  ASSUME TypeOK, Bootstrap, Current, NEW s \in Strategy, NEW v \in Version, Edit(s, v)
  PROVE  Bootstrap'
<1>1. /\ app'.strategy = s /\ app'.status = app.status
      /\ UNCHANGED <<cached, ro, cro, route, rec>>
  BY DEF TypeOK, Application, Edit, childVars
<1>2. \/ cached = app /\ s = app.strategy
      \/ cached = app /\ Aligned /\ app.status.active # 0
  BY DEF Edit, Current, Settled
<1>3. CASE s = app.strategy
  BY <1>1, <1>3 DEF Bootstrap, BaseNotFull
<1>4. CASE s # app.strategy
  <2>1. Aligned /\ app.status.active # 0
    BY <1>2, <1>4
  <2>2. s = "canary" => ~ro.exists
    BY <1>4, <2>1 DEF Aligned, Strategy, TypeOK, Application
  <2>. QED
    BY <1>1, <2>1, <2>2 DEF Bootstrap, BaseNotFull
<1>. QED
  BY <1>3, <1>4

LEMMA InputBootstrap ==
  ASSUME TypeOK, Bootstrap, Current, Watch \/ WatchRollout \/ StartReconcile
  PROVE  Bootstrap'
<1> USE DEF Bootstrap, BaseNotFull, childVars
<1>1. CASE Watch \/ WatchRollout
  BY <1>1 DEF Watch, WatchRollout
<1>2. CASE StartReconcile
  <2>1. rec'.pc = "admit" /\ rec'.seen = cached /\ cached = app /\ cro = ro
    BY <1>2 DEF StartReconcile, Idle, Current
  <2>. QED
    BY <1>2, <2>1 DEF StartReconcile
<1>. QED
  BY <1>1, <1>2

\* Without a hold the route is the canary's, or the Rollout already full.
LEMMA AdmitBootstrap ==
  ASSUME TypeOK, StatusInv, Bootstrap, Current, Admit
  PROVE  Bootstrap'
<1> USE DEF Bootstrap, BaseNotFull, childVars
<1>1. UNCHANGED <<app, cached, ro, cro, route>> /\ rec.pc = "admit"
  BY DEF Admit
<1>2. CASE Reported
  BY <1>1, <1>2 DEF Reported
<1>3. CASE ~Reported
  <2>1. rec' = [rec EXCEPT
                  !.pc = IF rec.seen.strategy = "rolling" /\ cro.exists
                         THEN "freeze" ELSE "deployment",
                  !.hold = rec.seen.strategy = "canary" /\ ShouldHold(rec.seen),
                  !.found = cro.exists]
    <3>1. rec \in Reconcile /\ rec.seen \in Application
      BY DEF TypeOK, Reconcile
    <3>2. Return(DegradedStatus(rec.seen), FALSE) => Reported
      BY <3>1, ReturnReports, DegradedStatusTells
    <3>. QED
      BY <1>3, <3>2 DEF Admit
  <2>2. /\ rec'.pc = IF rec.seen.strategy = "rolling" /\ cro.exists
                     THEN "freeze" ELSE "deployment"
        /\ rec'.seen = rec.seen
        /\ rec'.hold = (rec.seen.strategy = "canary" /\ ShouldHold(rec.seen))
    BY <2>1 DEF TypeOK, Reconcile
  <2>3. rec.seen.strategy = "canary" /\ ~ShouldHold(rec.seen) => route.backend # "base"
    <3>1. rec.seen.status = app.status
      BY <1>1 DEF StatusInv, Current
    <3>. QED
      BY <1>1, <3>1 DEF ShouldHold, CanaryRouteReady
  <2>. QED
    BY <1>1, <2>2, <2>3
<1>. QED
  BY <1>2, <1>3

LEMMA SharedBootstrap ==
  ASSUME TypeOK, Bootstrap, FreezeRollout \/ ApplyDeployment \/ ApplyService
  PROVE  Bootstrap'
<1> USE DEF Bootstrap, BaseNotFull
<1>1. rec \in Reconcile /\ ro \in Rollout
  BY DEF TypeOK
<1>2. CASE FreezeRollout
  <2>1. rec'.pc = "deployment" /\ rec'.seen = rec.seen /\ rec'.hold = rec.hold
    BY <1>1, <1>2 DEF FreezeRollout, Reconcile
  <2>2. /\ ro'.exists = ro.exists /\ ro'.full = ro.full
        /\ ro.exists => ro'.paused
    BY <1>1, <1>2 DEF FreezeRollout, Rollout
  <2>. QED
    BY <1>2, <2>1, <2>2 DEF FreezeRollout
<1>3. CASE ApplyDeployment
  <2>1. rec'.pc = "service" /\ rec'.seen = rec.seen /\ rec'.hold = rec.hold
    BY <1>1, <1>3 DEF ApplyDeployment, Reconcile
  <2>. QED
    BY <1>3, <2>1 DEF ApplyDeployment
<1>4. CASE ApplyService
  <2>1. /\ rec'.pc = IF rec.seen.strategy = "canary" THEN "services" ELSE "route"
        /\ rec'.seen = rec.seen /\ rec'.hold = rec.hold
    BY <1>1, <1>4 DEF ApplyService, Reconcile
  <2>. QED
    BY <1>4, <2>1 DEF ApplyService
<1>. QED
  BY <1>2, <1>3, <1>4

LEMMA CanaryBootstrap ==
  ASSUME TypeOK, DrainInv, Bootstrap, ApplyCanaryServices \/ ApplyRollout \/ CanaryRoute
  PROVE  Bootstrap'
<1> USE DEF Bootstrap, BaseNotFull
<1>1. rec \in Reconcile /\ ro \in Rollout /\ route \in Route
  BY DEF TypeOK
<1>2. rec.pc \in {"services", "rollout"} => rec.seen.strategy = "canary"
  BY DEF DrainInv, StepTells
<1>3. CASE ApplyCanaryServices
  <2>1. rec'.pc = "rollout" /\ rec'.seen = rec.seen /\ rec'.hold = rec.hold
    BY <1>1, <1>3 DEF ApplyCanaryServices, Reconcile
  <2>. QED
    BY <1>2, <1>3, <2>1 DEF ApplyCanaryServices
<1>4. CASE ApplyRollout
  <2>1. rec'.pc = "route" /\ rec'.seen = rec.seen
    BY <1>1, <1>4 DEF ApplyRollout, Reconcile
  <2>2. ro'.full = ~rec.hold
    BY <1>1, <1>4 DEF ApplyRollout, DesiredRollout, Rollout, Reconcile
  <2>. QED
    BY <1>2, <1>4, <2>1, <2>2 DEF ApplyRollout
<1>5. CASE CanaryRoute
  <2>1. UNCHANGED <<app, cached, ro, cro>> /\ rec.pc = "route"
    BY <1>5 DEF CanaryRoute
  <2>2. rec'.pc = "status" /\ rec'.seen = rec.seen
    BY <1>5, CanaryRouteStep DEF Reported
  <2>3. route'.backend = route.backend \/ route'.backend = "canary"
    BY <1>1, <1>5, CanaryRouteStep, WithBackendType
  <2>. QED
    BY <2>1, <2>2, <2>3
<1>. QED
  BY <1>3, <1>4, <1>5

LEMMA RollingBootstrap ==
  ASSUME TypeOK, Bootstrap,
         RollingRoute \/ CutoverDrain \/ DropServices \/ CleanupDrain \/ DropRollout
  PROVE  Bootstrap'
<1> USE DEF Bootstrap, BaseNotFull
<1>1. rec \in Reconcile /\ route \in Route
  BY DEF TypeOK
<1>2. CASE RollingRoute
  <2>1. /\ UNCHANGED <<app, cached, ro, cro>>
        /\ rec.pc = "route" /\ rec.seen.strategy = "rolling"
    BY <1>2 DEF RollingRoute
  <2>2. rec'.pc \in {"status", "cutover"} /\ rec'.seen = rec.seen
    BY <1>2, RollingRouteStep DEF Reported
  <2>3. route'.backend = route.backend \/ route'.backend = "base"
    BY <1>1, <1>2, RollingRouteStep, WithBackendType
  <2>. QED
    BY <2>1, <2>2, <2>3
<1>3. CASE CutoverDrain \/ CleanupDrain
  <2>1. UNCHANGED <<app, cached, ro, cro>> /\ rec.pc # "idle"
    BY <1>3 DEF CutoverDrain, CleanupDrain
  <2>2. rec'.pc \in {"status", "dropServices", "dropRollout"} /\ rec'.seen = rec.seen
    BY <1>3, CutoverDrainStep, CleanupDrainStep DEF Reported
  <2>3. route'.backend = route.backend
    BY <1>1, <1>3, CutoverDrainStep, CleanupDrainStep DEF Route
  <2>. QED
    BY <2>1, <2>2, <2>3
<1>4. CASE DropServices
  <2>1. rec'.pc = "cleanup" /\ rec'.seen = rec.seen
    BY <1>1, <1>4 DEF DropServices, Reconcile
  <2>. QED
    BY <1>4, <2>1 DEF DropServices
<1>5. CASE DropRollout
  <2>1. rec'.pc = "status" /\ rec'.seen = rec.seen
    BY <1>5, DropRolloutStep DEF Reported
  <2>2. ~ro'.exists
    BY <1>5 DEF DropRollout, NoRollout
  <2>. QED
    BY <1>5, <2>1, <2>2 DEF DropRollout
<1>. QED
  BY <1>2, <1>3, <1>4, <1>5

LEMMA PatchBootstrap ==
  ASSUME TypeOK, StatusInv, Bootstrap, Current, PatchStatus
  PROVE  Bootstrap'
<1>1. app'.strategy = app.strategy
  BY DEF TypeOK, Application, PatchStatus
<1>2. app'.status.active = 0 => app.status.active = 0
  <2>1. rec.seen.tag # 0
    BY DEF TypeOK, Reconcile, Application, Version
  <2>. QED
    BY <2>1, PatchStatusKeeps DEF Current, Kept, Renewed
<1>3. UNCHANGED <<cached, ro, cro, route>> /\ rec'.pc = "idle"
  BY PatchStatusStep DEF PatchStatus, childVars, Idle
<1>. QED
  BY <1>1, <1>2, <1>3 DEF Bootstrap, BaseNotFull

LEMMA FailureEnds ==
  ASSUME TypeOK, Failure
  PROVE  \/ rec' = rec
         \/ rec'.pc = "idle"
         \/ rec.pc # "idle" /\ rec'.pc = "status" /\ rec'.seen = rec.seen
<1>1. WriteError \/ Interrupt => rec.pc # "idle"
  BY DEF WriteError, Interrupt
<1>2. DeploymentStalls \/ RouteRejected => rec' = rec
  BY DEF DeploymentStalls, RouteRejected
<1>. QED
  BY <1>1, <1>2, FailureStep DEF Failure, Reported, Idle

\* Everything else leaves the strategies, the backends and the Rollout's spec.
LEMMA OtherBootstrap ==
  ASSUME TypeOK, Bootstrap,
         \/ Failure
         \/ DeploymentRolls \/ RouteAccepted \/ ProxyConverges
         \/ ConnectionsDrain \/ CutoverElapses \/ CleanupElapses
         \/ RolloutObserves \/ RolloutPauses \/ RolloutRolls \/ CanaryStarts
         \/ CanaryPasses \/ CanaryFails \/ WeightsReturn \/ ScaleDownWorkload
         \/ UNCHANGED vars
  PROVE  Bootstrap'
<1> USE DEF Failure, Interrupt, WriteError, DeploymentStalls, RouteRejected, DeploymentRolls,
            RouteAccepted, ProxyConverges, ConnectionsDrain, CutoverElapses, CleanupElapses,
            RolloutObserves, RolloutPauses, RolloutRolls, CanaryStarts, CanaryPasses,
            CanaryFails, WeightsReturn, ScaleDownWorkload, vars, childVars
<1>1. UNCHANGED <<app, cached, cro>>
  OBVIOUS
<1>2. route'.backend = route.backend
  BY DEF TypeOK, Route
<1>3. ro'.exists = ro.exists /\ ro'.full = ro.full /\ ro'.paused = ro.paused
  BY DEF TypeOK, Rollout
<1>4. \/ rec' = rec
      \/ rec'.pc = "idle"
      \/ rec.pc # "idle" /\ rec'.pc = "status" /\ rec'.seen = rec.seen
  BY FailureEnds
<1>. QED
  BY <1>1, <1>2, <1>3, <1>4 DEF Bootstrap, BaseNotFull

LEMMA StepBootstrap ==
  ASSUME TypeOK, DrainInv, StatusInv, Current => Bootstrap, [Next]_vars
  PROVE  (Current => Bootstrap)'
<1>1. limits' = limits
  BY StatusFrame, PatchStatusKeeps
<1>2. SUFFICES ASSUME Current, Bootstrap PROVE Bootstrap'
  BY <1>1 DEF Current, StaleReads, EagerEdits
<1>. QED
  BY <1>2, EditBootstrap, InputBootstrap, AdmitBootstrap, SharedBootstrap, CanaryBootstrap,
     RollingBootstrap, PatchBootstrap, OtherBootstrap DEF Next, Controller, Progress

\* A Rollout gets its canary steps and its traffic routing only when the route
\* has the stable and the canary Service, if reconciles start on current caches
\* and nothing is edited during a migration or before the first release.
THEOREM FullWaitsForRoute == Spec => []FullOnlyWithCanaryRoute
<1>1. Init => TypeOK /\ DrainInv /\ StatusInv /\ (Current => Bootstrap)
  BY InitType, InitDrain, InitStatus, InitBootstrap
<1>2. /\ TypeOK /\ DrainInv /\ StatusInv /\ (Current => Bootstrap)
      /\ [Next]_vars
      => (TypeOK /\ DrainInv /\ StatusInv /\ (Current => Bootstrap))'
  BY StepType, StepDrain, StepStatus, StepBootstrap
<1>3. (Current => Bootstrap) => FullOnlyWithCanaryRoute
  BY DEF Current, Bootstrap, FullOnlyWithCanaryRoute
<1>. QED
  BY <1>1, <1>2, <1>3, PTL DEF Spec

-----------------------------------------------------------------------------
(* Traffic is served *)

\* Is a reconcile for strategy s in progress?
Reconciling(s) == rec.pc # "idle" /\ rec.seen.strategy = s

\* A status somewhere, written or not, names a last healthy version.
Claimed ==
  \/ app.status.active # 0
  \/ cached.status.active # 0
  \/ rec.pc # "idle" /\ rec.seen.status.active # 0
  \/ rec.pc = "status" /\ rec.desired.active # 0

\* Requests go to a backend, or will once Envoy follows the route.
Leads(b) == b \in {proxy, route.backend}

\* The base Service selects ready pods that stay: the Deployment's, or the
\* Rollout's as long as the Service is not isolated.
BaseServes ==
  /\ svc.exists
  /\ \/ /\ dep.up /\ dep.podVer # 0
        /\ svc.label # 0 => svc.label = dep.label /\ svc.label = dep.podLabel
     \/ svc.label = 0 /\ ro.exists /\ ro.stable # 0

\* The Deployment's own pods serve, told apart by the label of a generation.
Moved(gen) ==
  /\ svc.exists /\ svc.label = gen
  /\ dep.up /\ dep.podVer # 0 /\ dep.label = gen /\ dep.podLabel = gen

\* Once a version is claimed to be healthy, every backend that requests go to,
\* or are about to go to, has pods.
Serving ==
  /\ Claimed /\ Leads("base") => BaseServes
  /\ Claimed /\ Leads("canary") => ro.exists /\ ro.stable # 0
  /\ route.backend = "none" => ~Claimed

\* What outlives a step.  A Rollout that the cache shows as stable still is one
\* while a canary is delivered, and the cache knows a Rollout that the rolling
\* strategy has to clean up.
Lasting ==
  /\ ~ro.exists => ro.stable = 0
  /\ ~cro.exists => cro.stable = 0
  /\ dep.podVer # 0 => dep.ver # 0
  /\ "canary" \in {app.strategy, cached.strategy} \/ Reconciling("canary") =>
       (cro.stable # 0 => ro.stable # 0)
  /\ "rolling" \in {app.strategy, cached.strategy} \/ Reconciling("rolling") =>
       (ro.exists => cro.exists)
  /\ rec.hold => rec.seen.status.active # 0

\* A reconcile that goes on for the strategy of before an edit finds nothing
\* that the other strategy serves from.
Changing ==
  /\ app.strategy = "canary" /\ (cached.strategy = "rolling" \/ Reconciling("rolling")) =>
       ~ro.exists /\ ~cro.exists /\ ~Leads("canary")
  /\ app.strategy = "rolling" /\ (cached.strategy = "canary" \/ Reconciling("canary")) =>
       ro.exists /\ proxy = "canary" /\ route.backend = "canary"
  /\ cached.strategy # app.strategy /\ rec.pc # "idle" =>
       rec.seen.strategy = cached.strategy

\* A generation has one strategy.
Generations ==
  /\ cached.gen <= app.gen
  /\ cached.gen = app.gen => cached.strategy = app.strategy
  /\ rec.pc # "idle" =>
       /\ rec.seen.gen <= cached.gen
       /\ rec.seen.gen = cached.gen => rec.seen.strategy = cached.strategy
       /\ rec.seen.gen = app.gen => rec.seen.strategy = app.strategy
  /\ rec.pc = "status" => rec.desired.gen = rec.seen.gen

\* Until the cache shows a stable Rollout no canary reconcile makes a claim of
\* its own, and one that knows a claim holds the Deployment.
FirstCanary ==
  app.strategy = "canary" /\ cro.stable = 0 =>
    /\ cached.strategy = "canary" => (app.status.active = 0 <=> cached.status.active = 0)
    /\ cached.strategy = "canary" /\ Reconciling("canary") =>
         /\ app.status.active = 0 <=> rec.seen.status.active = 0
         /\ rec.pc = "status" => (app.status.active = 0 <=> rec.desired.active = 0)
    /\ ro.exists /\ ro.full => app.status.active = 0
    /\ /\ Reconciling("canary") /\ ~rec.hold
       /\ rec.pc \in {"deployment", "service", "services", "rollout"}
       => rec.seen.status.active = 0

\* A migration to the rolling strategy leaves the canary's backends with the
\* Deployment's pods isolated, and pauses the Rollout first; under the canary
\* strategy the base Service selects the Rollout's pods.
Isolating ==
  /\ app.strategy = "rolling" /\ cro.exists =>
       /\ cached.strategy = "rolling" => cached.gen = app.gen
       /\ route.backend # "none"
       /\ Leads("base") => Moved(app.gen)
  /\ app.strategy = "rolling" /\ ro.exists /\ ~ro.paused => ~Leads("base")
  /\ app.strategy = "canary" /\ ro.exists => svc.exists /\ svc.label = 0

\* What a rolling reconcile has made sure of when it gets to a step.
RollingSteps ==
  Reconciling("rolling") =>
    /\ cro.exists => rec.seen.gen = app.gen
    /\ rec.pc \notin {"admit", "status"} =>
         /\ ~rec.found => ~ro.exists /\ ~cro.exists
         /\ rec.found => route.backend # "none"
         /\ rec.found /\ Leads("base") => Moved(rec.seen.gen)
         /\ rec.pc # "freeze" /\ ro.exists => ro.paused
    /\ rec.pc \notin {"admit", "freeze", "deployment", "status"} =>
         /\ rec.depReady => dep.up /\ dep.podVer # 0 /\ dep.podLabel = dep.label
         /\ rec.found => dep.label = rec.seen.gen
    /\ rec.pc \in {"route", "cutover", "dropServices", "cleanup", "dropRollout"} =>
         svc.exists /\ svc.label = IF rec.found THEN rec.seen.gen ELSE 0
    /\ rec.pc \in {"cutover", "dropServices", "cleanup", "dropRollout"} =>
         rec.found /\ rec.depReady

CanarySteps ==
  Reconciling("canary") =>
    /\ rec.pc \in {"services", "rollout", "route"} => svc.exists /\ svc.label = 0
    /\ rec.pc \notin {"freeze", "cutover", "dropServices", "cleanup", "dropRollout"}

TrafficInv ==
  /\ Serving /\ Lasting /\ Changing /\ Generations /\ FirstCanary /\ Isolating
  /\ RollingSteps /\ CanarySteps

LEMMA InitTraffic == Init => TrafficInv
<1> SUFFICES ASSUME Init PROVE TrafficInv
  OBVIOUS
<1>1. /\ app.gen = 1 /\ app.status.active = 0 /\ cached = app
      /\ dep.podVer = 0 /\ ~ro.exists /\ ro.stable = 0 /\ cro = ro
      /\ proxy = "none" /\ route.backend = "none"
      /\ rec.pc = "idle" /\ ~rec.hold
  BY DEF Init, NoDeployment, NoRollout, NoRoute, NoStatus, Idle
<1>. QED
  BY <1>1 DEF TrafficInv, Serving, Lasting, Changing, Generations, FirstCanary, Isolating,
              RollingSteps, CanarySteps, Claimed, Leads, Reconciling

\* The strategies are two, and generations are numbers.
LEMMA Fields ==
  ASSUME TypeOK
  PROVE  /\ app.strategy \in {"rolling", "canary"}
         /\ cached.strategy \in {"rolling", "canary"}
         /\ rec.seen.strategy \in {"rolling", "canary"}
         /\ app.gen \in Nat /\ cached.gen \in Nat /\ rec.seen.gen \in Nat
         /\ rec \in Reconcile /\ rec.seen \in Application /\ ro \in Rollout
         /\ route \in Route /\ dep \in Deployment
BY DEF TypeOK, Application, Reconcile, Strategy

\* A conclusion names the generation it was drawn for.
LEMMA BaseStatusNames ==
  ASSUME NEW d \in Application, NEW phase
  PROVE  /\ BaseStatus(d, phase).gen = d.gen
         /\ BaseStatus(d, phase).active = d.status.active
BY DEF BaseStatus, Application, AppStatus

LEMMA ProvenStatusNames ==
  ASSUME NEW d \in Application
  PROVE  ProvenStatus(d).gen = d.gen
BY BaseStatusNames DEF ProvenStatus, DegradedStatus, HealthyStatus

\* A new claim under the rolling strategy is made on ready pods and an accepted
\* route only.
LEMMA WorkloadStatusNames ==
  ASSUME NEW d \in Application, NEW ready, NEW rt
  PROVE  /\ WorkloadStatus(d, ready, rt).gen = d.gen
         /\ \/ WorkloadStatus(d, ready, rt).active = d.status.active
            \/ ready /\ rt.accepted = "accepted"
<1>1. /\ BaseStatus(d, "Progressing").gen = d.gen
      /\ BaseStatus(d, "Progressing").active = d.status.active
      /\ DegradedStatus(d).gen = d.gen /\ DegradedStatus(d).active = d.status.active
      /\ ProvenStatus(d).gen = d.gen
  BY BaseStatusNames, ProvenStatusNames DEF DegradedStatus
<1>. QED
  BY <1>1 DEF WorkloadStatus

\* A new claim under the canary strategy is made when the cache shows a healthy
\* Rollout, after the route has its backends.
LEMMA CanaryStatusNames ==
  ASSUME NEW d \in Application, NEW migrating, NEW rt
  PROVE  /\ CanaryStatus(d, migrating, rt).gen = d.gen
         /\ \/ CanaryStatus(d, migrating, rt).active = d.status.active
            \/ ~migrating /\ RolloutHealthy(cro)
<1>1. /\ \A phase : /\ BaseStatus(d, phase).gen = d.gen
                    /\ BaseStatus(d, phase).active = d.status.active
      /\ DegradedStatus(d).gen = d.gen /\ DegradedStatus(d).active = d.status.active
      /\ MigrationStatus(d).gen = d.gen /\ MigrationStatus(d).active = d.status.active
      /\ ProvenStatus(d).gen = d.gen
  BY BaseStatusNames, ProvenStatusNames DEF DegradedStatus, MigrationStatus
<1>. QED
  BY <1>1 DEF CanaryStatus

\* How a reconcile ends in the status step.
Concluded ==
  /\ rec'.pc = "status" /\ rec'.seen = rec.seen /\ rec'.hold = rec.hold
  /\ rec'.desired.gen = rec.seen.gen

LEMMA ReturnConcludes ==
  ASSUME TypeOK, NEW desired, desired.gen = rec.seen.gen, NEW again, Return(desired, again)
  PROVE  Concluded /\ rec'.desired.active = desired.active
BY Fields DEF Return, Concluded, Reconcile

LEMMA ConcludeConcludes ==
  ASSUME TypeOK, NEW desired, desired.gen = rec.seen.gen, Conclude(desired)
  PROVE  /\ Concluded
         /\ rec'.desired.active \in {desired.active, rec.seen.status.active}
<1>1. /\ DegradedStatus(rec.seen).gen = rec.seen.gen
      /\ DegradedStatus(rec.seen).active = rec.seen.status.active
  BY Fields, BaseStatusNames DEF DegradedStatus
<1>. QED
  BY <1>1, ReturnConcludes DEF Conclude

\* A reconcile that concludes without a new claim changes nothing else.
LEMMA ConcludedTraffic ==
  ASSUME TypeOK, TrafficInv, rec.pc # "idle", Concluded,
         rec'.desired.active = rec.seen.status.active,
         UNCHANGED <<app, cached, dep, svc, ro, cro, proxy>>,
         route'.backend = route.backend
  PROVE  TrafficInv'
<1> USE DEF Concluded, Leads, Reconciling
<1>1. Serving'
  BY DEF TrafficInv, Serving, Claimed, BaseServes
<1>2. Lasting'
  BY DEF TrafficInv, Lasting
<1>3. Changing'
  BY DEF TrafficInv, Changing
<1>4. Generations'
  BY DEF TrafficInv, Generations
<1>5. FirstCanary'
  BY DEF TrafficInv, FirstCanary
<1>6. Isolating'
  BY DEF TrafficInv, Isolating, Moved
<1>7. RollingSteps'
  BY DEF TrafficInv, RollingSteps
<1>8. CanarySteps'
  BY DEF TrafficInv, CanarySteps
<1>. QED
  BY <1>1, <1>2, <1>3, <1>4, <1>5, <1>6, <1>7, <1>8 DEF TrafficInv

\* The platform moves pods, weights and requests, between reconcile steps: it
\* takes no ready pods from a Deployment with replicas, nor its stable ReplicaSet
\* from a Rollout, and requests go where the route says.
LEMMA PlatformTraffic ==
  ASSUME TypeOK, TrafficInv,
         UNCHANGED <<app, cached, svc, cro, rec>>,
         route'.backend = route.backend,
         proxy' \in {proxy, route.backend},
         ro'.exists = ro.exists, ro'.full = ro.full, ro'.paused = ro.paused,
         ro'.stable = ro.stable \/ (ro.exists /\ ro'.stable # 0),
         dep'.ver = dep.ver, dep'.up = dep.up, dep'.label = dep.label,
         \/ dep'.podVer = dep.podVer /\ dep'.podLabel = dep.podLabel
         \/ dep.up /\ dep.ver # 0 /\ dep'.podVer = dep.ver /\ dep'.podLabel = dep.label
         \/ ~dep.up /\ dep'.podVer = 0
  PROVE  TrafficInv'
<1> USE DEF Leads, Reconciling
<1>1. Serving'
  <2>1. BaseServes => BaseServes'
    BY DEF BaseServes
  <2>. QED
    BY <2>1 DEF TrafficInv, Serving, Claimed
<1>2. Lasting'
  BY DEF TrafficInv, Lasting
<1>3. Changing'
  BY DEF TrafficInv, Changing
<1>4. Generations'
  BY DEF TrafficInv, Generations
<1>5. FirstCanary'
  BY DEF TrafficInv, FirstCanary
<1>6. \A gen : Moved(gen) => Moved(gen)'
  BY DEF Moved
<1>7. Isolating'
  BY <1>6 DEF TrafficInv, Isolating
<1>8. RollingSteps'
  BY <1>6 DEF TrafficInv, RollingSteps
<1>9. CanarySteps'
  BY DEF TrafficInv, CanarySteps
<1>. QED
  BY <1>1, <1>2, <1>3, <1>4, <1>5, <1>7, <1>8, <1>9 DEF TrafficInv

\* The spec is edited when a migration has ended, or for a new tag on the way to
\* a canary.
LEMMA EditTraffic ==
  ASSUME TypeOK, DrainInv, TrafficInv, NEW s \in Strategy, NEW v \in Version, Edit(s, v),
         rushed = {}, rushed' = {}
  PROVE  TrafficInv'
<1> USE DEF Leads, Reconciling
<1>1. /\ app'.strategy = s /\ app'.status = app.status /\ app'.gen = app.gen + 1
      /\ UNCHANGED <<cached, dep, svc, ro, cro, route, proxy, rec>>
  BY DEF TypeOK, Application, Edit, childVars, proxyVars
<1>2. Migrated \/ (app.strategy = "canary" /\ s = "canary")
  BY DEF Edit, Rushes
<1>3. s \in {"rolling", "canary"}
  BY DEF Strategy
<1>4. ASSUME app.strategy = "rolling"
      PROVE  /\ ~ro.exists /\ ~cro.exists /\ ~Leads("canary")
             /\ cached.strategy = "rolling"
             /\ rec.pc # "idle" => rec.seen.strategy = "rolling"
  <2>1. ~ro.exists /\ ~cro.exists
    BY <1>2, <1>4 DEF Migrated
  <2>2. ~Leads("canary")
    BY <2>1 DEF DrainInv, RouteTells, NoTrafficToRemoved
  <2>. QED
    BY <1>4, <2>1, <2>2, Fields DEF TrafficInv, Changing
<1>5. ASSUME app.strategy = "canary", s = "rolling"
      PROVE  /\ ro.exists /\ cro.exists /\ proxy = "canary" /\ route.backend = "canary"
             /\ cached.strategy = "canary"
             /\ rec.pc # "idle" => rec.seen.strategy = "canary"
  <2>1. cro.exists /\ proxy = "canary" /\ route.backend = "canary"
    BY <1>2, <1>5 DEF Migrated
  <2>2. ro.exists
    BY <2>1 DEF DrainInv, RouteTells
  <2>. QED
    BY <1>5, <2>1, <2>2, Fields DEF TrafficInv, Changing
<1>6. Serving'
  BY <1>1 DEF TrafficInv, Serving, Claimed, BaseServes
<1>7. Lasting'
  BY <1>1, <1>3, <1>4, <1>5, Fields DEF TrafficInv, Lasting
<1>8. Changing'
  BY <1>1, <1>3, <1>4, <1>5, Fields DEF TrafficInv, Changing
<1>9. Generations'
  BY <1>1, <1>3, <1>4, <1>5, Fields DEF TrafficInv, Generations
<1>10. FirstCanary'
  BY <1>1, <1>3, <1>4, <1>5, Fields DEF TrafficInv, FirstCanary
<1>11. Isolating'
  BY <1>1, <1>3, <1>4, <1>5, Fields DEF TrafficInv, Isolating, Moved
<1>12. RollingSteps'
  <2>1. Reconciling("rolling") => ~cro.exists
    BY <1>3, <1>4, Fields DEF TrafficInv, Changing
  <2>. QED
    BY <1>1, <2>1 DEF TrafficInv, RollingSteps, Moved
<1>13. CanarySteps'
  BY <1>1 DEF TrafficInv, CanarySteps
<1>. QED
  BY <1>6, <1>7, <1>8, <1>9, <1>10, <1>11, <1>12, <1>13 DEF TrafficInv

\* Without EagerEdits the spec is only edited on aligned resources, and the
\* strategy when the release has ended: nothing is rushed.
LEMMA EditInOrder ==
  ASSUME TypeOK, TrafficInv, ~EagerEdits, NEW s \in Strategy, NEW v \in Version, Edit(s, v),
         rushed = {}
  PROVE  rushed' = {}
<1>1. /\ cached = app /\ Aligned
      /\ s # app.strategy => app.status.active # 0
  BY DEF Edit, Settled
<1>2. ASSUME app.strategy = "canary", s # "canary" PROVE cro.exists
  BY <1>1, <1>2 DEF TrafficInv, Lasting, FirstCanary, Aligned
<1>. QED
  BY <1>1, <1>2 DEF Edit, Rushes, Migrated, Aligned

\* The caches catch up.
LEMMA WatchTraffic ==
  ASSUME TypeOK, TrafficInv, Watch
  PROVE  TrafficInv'
<1> USE DEF Leads, Reconciling
<1>1. cached' = app /\ UNCHANGED <<app, dep, svc, ro, cro, route, proxy, rec>>
  BY DEF Watch, childVars, proxyVars
<1>2. Serving'
  BY <1>1 DEF TrafficInv, Serving, Claimed, BaseServes
<1>3. Lasting'
  BY <1>1, Fields DEF TrafficInv, Lasting
<1>4. Changing'
  BY <1>1, Fields DEF TrafficInv, Changing
<1>5. Generations'
  BY <1>1, Fields DEF TrafficInv, Generations
<1>6. FirstCanary'
  BY <1>1, Fields DEF TrafficInv, FirstCanary, Changing
<1>7. Isolating'
  BY <1>1 DEF TrafficInv, Isolating, Moved
<1>8. RollingSteps' /\ CanarySteps'
  BY <1>1 DEF TrafficInv, RollingSteps, CanarySteps, Moved
<1>. QED
  BY <1>2, <1>3, <1>4, <1>5, <1>6, <1>7, <1>8 DEF TrafficInv

LEMMA WatchRolloutTraffic ==
  ASSUME TypeOK, TrafficInv, WatchRollout
  PROVE  TrafficInv'
<1> USE DEF Leads, Reconciling
<1>1. cro' = ro /\ UNCHANGED <<app, cached, dep, svc, ro, route, proxy, rec>>
  BY DEF WatchRollout, childVars, proxyVars
<1>2. Serving'
  BY <1>1 DEF TrafficInv, Serving, Claimed, BaseServes
<1>3. Lasting'
  BY <1>1 DEF TrafficInv, Lasting
<1>4. Changing'
  BY <1>1 DEF TrafficInv, Changing
<1>5. Generations'
  BY <1>1 DEF TrafficInv, Generations
<1>6. FirstCanary'
  BY <1>1 DEF TrafficInv, FirstCanary, Lasting
<1>7. Isolating'
  BY <1>1 DEF TrafficInv, Isolating, Lasting, Moved
<1>8. RollingSteps' /\ CanarySteps'
  BY <1>1 DEF TrafficInv, RollingSteps, CanarySteps, Lasting, Moved
<1>. QED
  BY <1>2, <1>3, <1>4, <1>5, <1>6, <1>7, <1>8 DEF TrafficInv

\* A reconcile starts on the cached copy.
LEMMA StartTraffic ==
  ASSUME TypeOK, TrafficInv, StartReconcile
  PROVE  TrafficInv'
<1> USE DEF Leads, Reconciling
<1>1. /\ rec'.pc = "admit" /\ rec'.seen = cached /\ ~rec'.hold
      /\ rec.pc = "idle"
      /\ UNCHANGED <<app, cached, dep, svc, ro, cro, route, proxy>>
  BY DEF StartReconcile, Idle, childVars, proxyVars
<1>2. Serving'
  BY <1>1 DEF TrafficInv, Serving, Claimed, BaseServes
<1>3. Lasting'
  BY <1>1 DEF TrafficInv, Lasting
<1>4. Changing'
  BY <1>1 DEF TrafficInv, Changing
<1>5. Generations'
  BY <1>1, Fields DEF TrafficInv, Generations
<1>6. FirstCanary'
  BY <1>1 DEF TrafficInv, FirstCanary
<1>7. Isolating'
  BY <1>1 DEF TrafficInv, Isolating, Moved
<1>8. RollingSteps' /\ CanarySteps'
  BY <1>1, Fields DEF TrafficInv, RollingSteps, CanarySteps, Isolating, Changing
<1>. QED
  BY <1>2, <1>3, <1>4, <1>5, <1>6, <1>7, <1>8 DEF TrafficInv

\* A rolling reconcile that finds a Rollout in the cache has a route, and its
\* base Service, if requests go there, selects the Deployment's pods only; a
\* canary reconcile that does not hold the Deployment knows no claim or reads a
\* stable Rollout.
LEMMA AdmitTraffic ==
  ASSUME TypeOK, TrafficInv, Admit
  PROVE  TrafficInv'
<1> USE DEF Leads, Reconciling
<1>1. rec.pc = "admit" /\ UNCHANGED <<app, cached, dep, svc, ro, cro, route, proxy>>
  BY DEF Admit, childVars, proxyVars
<1>2. CASE Return(DegradedStatus(rec.seen), FALSE)
  <2>1. /\ DegradedStatus(rec.seen).gen = rec.seen.gen
        /\ DegradedStatus(rec.seen).active = rec.seen.status.active
    BY Fields, BaseStatusNames DEF DegradedStatus
  <2>. QED
    BY <1>1, <1>2, <2>1, ReturnConcludes, ConcludedTraffic
<1>3. CASE rec' = [rec EXCEPT
                     !.pc = IF rec.seen.strategy = "rolling" /\ cro.exists
                            THEN "freeze" ELSE "deployment",
                     !.hold = rec.seen.strategy = "canary" /\ ShouldHold(rec.seen),
                     !.found = cro.exists]
  <2>1. /\ rec'.pc = IF rec.seen.strategy = "rolling" /\ cro.exists
                     THEN "freeze" ELSE "deployment"
        /\ rec'.seen = rec.seen /\ rec'.found = cro.exists
        /\ rec'.hold = (rec.seen.strategy = "canary" /\ ShouldHold(rec.seen))
    BY <1>3, Fields DEF Reconcile
  <2>2. Serving'
    BY <1>1, <2>1 DEF TrafficInv, Serving, Claimed, BaseServes
  <2>3. Lasting'
    BY <1>1, <2>1 DEF TrafficInv, Lasting, ShouldHold
  <2>4. Changing'
    BY <1>1, <2>1 DEF TrafficInv, Changing
  <2>5. Generations'
    BY <1>1, <2>1 DEF TrafficInv, Generations
  <2>6. FirstCanary'
    BY <1>1, <2>1 DEF TrafficInv, FirstCanary, ShouldHold
  <2>7. Isolating'
    BY <1>1, <2>1 DEF TrafficInv, Isolating, Moved
  <2>8. RollingSteps'
    BY <1>1, <2>1, Fields DEF TrafficInv, RollingSteps, Isolating, Lasting, Changing, Moved
  <2>9. CanarySteps'
    BY <1>1, <2>1 DEF TrafficInv, CanarySteps
  <2>. QED
    BY <2>2, <2>3, <2>4, <2>5, <2>6, <2>7, <2>8, <2>9 DEF TrafficInv
<1>. QED
  BY <1>2, <1>3 DEF Admit

\* Steps that write neither what serves nor what the invariant reads of it.
LEMMA PassTraffic ==
  ASSUME TypeOK, DrainInv, TrafficInv, FreezeRollout \/ ApplyCanaryServices \/ DropServices
  PROVE  TrafficInv'
<1> USE DEF Leads, Reconciling
<1>1. /\ UNCHANGED <<app, cached, dep, svc, cro, route, proxy>>
      /\ rec'.seen = rec.seen /\ rec'.hold = rec.hold /\ rec'.found = rec.found
      /\ rec'.depReady = rec.depReady
      /\ \/ rec.pc = "freeze" /\ rec'.pc = "deployment" /\ (ro.exists => ro'.paused)
         \/ rec.pc = "services" /\ rec'.pc = "rollout" /\ ro' = ro
         \/ rec.pc = "dropServices" /\ rec'.pc = "cleanup" /\ ro' = ro
      /\ ro'.exists = ro.exists /\ ro'.stable = ro.stable /\ ro'.full = ro.full
      /\ ro.paused => ro'.paused
  BY Fields DEF FreezeRollout, ApplyCanaryServices, DropServices, Reconcile, Rollout, proxyVars
<1>2. /\ rec.pc = "freeze" => rec.seen.strategy = "rolling"
      /\ rec.pc = "services" => rec.seen.strategy = "canary"
      /\ rec.pc = "dropServices" => rec.seen.strategy = "rolling"
  BY Fields DEF DrainInv, StepTells, TrafficInv, CanarySteps
<1>3. Serving'
  BY <1>1 DEF TrafficInv, Serving, Claimed, BaseServes
<1>4. Lasting'
  BY <1>1 DEF TrafficInv, Lasting
<1>5. Changing'
  BY <1>1 DEF TrafficInv, Changing
<1>6. Generations'
  BY <1>1 DEF TrafficInv, Generations
<1>7. FirstCanary'
  BY <1>1, <1>2 DEF TrafficInv, FirstCanary
<1>8. Isolating'
  BY <1>1 DEF TrafficInv, Isolating, Moved
<1>9. RollingSteps'
  BY <1>1, <1>2 DEF TrafficInv, RollingSteps, Moved
<1>10. CanarySteps'
  BY <1>1, <1>2 DEF TrafficInv, CanarySteps
<1>. QED
  BY <1>3, <1>4, <1>5, <1>6, <1>7, <1>8, <1>9, <1>10 DEF TrafficInv

\* The Deployment gets replicas under the rolling strategy, and keeps the ones it
\* has under the canary strategy; it gets no label that its base Service, when
\* isolated, does not select.
LEMMA DeploymentTraffic ==
  ASSUME TypeOK, TrafficInv, ApplyDeployment
  PROVE  TrafficInv'
<1> USE DEF Leads, Reconciling
<1>1. /\ UNCHANGED <<app, cached, svc, ro, cro, route, proxy>>
      /\ rec.pc = "deployment" /\ rec'.pc = "service"
      /\ rec'.seen = rec.seen /\ rec'.hold = rec.hold /\ rec'.found = rec.found
      /\ rec'.depReady => dep'.up /\ dep'.podVer = dep'.ver /\ dep'.podLabel = dep'.label
  BY Fields DEF ApplyDeployment, DeploymentReady, Reconcile, proxyVars
<1>2. /\ dep'.ver = IF rec.hold THEN rec.seen.status.active ELSE rec.seen.tag
      /\ dep'.label = IF Isolated THEN rec.seen.gen ELSE dep.label
      /\ dep'.up = IF dep.ver = 0 \/ ManagesReplicas THEN Serves ELSE dep.up
      /\ dep'.podVer = dep.podVer /\ dep'.podLabel = dep.podLabel
  BY Fields DEF ApplyDeployment, DesiredDeployment, Deployment
<1>3. dep'.ver # 0
  <2>1. rec.seen.tag # 0
    BY Fields DEF Application, Version
  <2>. QED
    BY <1>2, <2>1 DEF TrafficInv, Lasting
<1>4. dep.up /\ dep.podVer # 0 => dep'.up
  BY <1>2 DEF TrafficInv, Lasting, ManagesReplicas, Serves
<1>5. rec.seen.strategy = "rolling" => dep'.up
  BY <1>2 DEF ManagesReplicas, Serves
<1>6. \A gen : /\ Moved(gen)
               /\ Isolated => gen = rec.seen.gen
               => Moved(gen)'
  BY <1>1, <1>2, <1>4 DEF Moved
<1>7. Serving'
  <2>1. Claimed' => Claimed
    BY <1>1 DEF Claimed
  <2>2. CASE ~Isolated
    <3>1. BaseServes => BaseServes'
      BY <1>1, <1>2, <1>4, <2>2 DEF BaseServes
    <3>. QED
      BY <1>1, <2>1, <3>1 DEF TrafficInv, Serving
  <2>3. CASE Isolated
    <3>1. Leads("base") => Moved(rec.seen.gen)
      BY <1>1, <2>3 DEF TrafficInv, RollingSteps, Isolated
    <3>2. Leads("base") => Moved(rec.seen.gen)'
      BY <1>1, <1>6, <3>1
    <3>3. Moved(rec.seen.gen)' => BaseServes'
      BY DEF Moved, BaseServes
    <3>. QED
      BY <1>1, <2>1, <3>2, <3>3 DEF TrafficInv, Serving
  <2>. QED
    BY <2>2, <2>3
<1>8. Lasting'
  BY <1>1, <1>2, <1>3 DEF TrafficInv, Lasting
<1>9. Changing'
  BY <1>1 DEF TrafficInv, Changing
<1>10. Generations'
  BY <1>1 DEF TrafficInv, Generations
<1>11. FirstCanary'
  BY <1>1 DEF TrafficInv, FirstCanary
<1>12. Isolating'
  <2>1. ASSUME app.strategy = "rolling", cro.exists, Leads("base")
        PROVE  Moved(app.gen)'
    <3>1. Moved(app.gen)
      BY <2>1 DEF TrafficInv, Isolating
    <3>2. Isolated => app.gen = rec.seen.gen
      BY <1>1, <2>1 DEF TrafficInv, RollingSteps, Isolated
    <3>. QED
      BY <1>1, <1>6, <3>1, <3>2
  <2>. QED
    BY <1>1, <2>1 DEF TrafficInv, Isolating
<1>13. RollingSteps'
  <2>1. ASSUME rec.seen.strategy = "rolling", rec.found, Leads("base")
        PROVE  Moved(rec.seen.gen)'
    BY <1>1, <1>6, <2>1 DEF TrafficInv, RollingSteps
  <2>2. rec.seen.strategy = "rolling" /\ rec.found => dep'.label = rec.seen.gen
    BY <1>2 DEF Isolated
  <2>3. rec'.depReady => dep'.up /\ dep'.podVer # 0 /\ dep'.podLabel = dep'.label
    BY <1>1, <1>3
  <2>. QED
    BY <1>1, <2>1, <2>2, <2>3 DEF TrafficInv, RollingSteps
<1>14. CanarySteps'
  BY <1>1 DEF TrafficInv, CanarySteps
<1>. QED
  BY <1>7, <1>8, <1>9, <1>10, <1>11, <1>12, <1>13, <1>14 DEF TrafficInv

\* The base Service is isolated only to pods that carry the label already, if
\* requests go to it, and opened to all pods of the Application otherwise.
LEMMA ServiceTraffic ==
  ASSUME TypeOK, TrafficInv, ApplyService
  PROVE  TrafficInv'
<1> USE DEF Leads, Reconciling
<1>1. /\ UNCHANGED <<app, cached, dep, ro, cro, route, proxy>>
      /\ rec.pc = "service"
      /\ rec'.pc = IF rec.seen.strategy = "canary" THEN "services" ELSE "route"
      /\ rec'.seen = rec.seen /\ rec'.hold = rec.hold /\ rec'.found = rec.found
      /\ rec'.depReady = rec.depReady
      /\ svc'.exists = TRUE /\ svc'.label = IF Isolated THEN rec.seen.gen ELSE 0
  BY Fields DEF ApplyService, Reconcile, proxyVars
<1>2. \A gen : /\ Moved(gen)
               /\ Isolated /\ gen = rec.seen.gen
               => Moved(gen)'
  BY <1>1 DEF Moved
<1>3. Serving'
  <2>1. Claimed' => Claimed
    BY <1>1 DEF Claimed
  <2>2. CASE ~Isolated
    <3>1. BaseServes => BaseServes'
      BY <1>1, <2>2 DEF BaseServes
    <3>. QED
      BY <1>1, <2>1, <3>1 DEF TrafficInv, Serving
  <2>3. CASE Isolated
    <3>1. Leads("base") => Moved(rec.seen.gen)
      BY <1>1, <2>3 DEF TrafficInv, RollingSteps, Isolated
    <3>2. Leads("base") => Moved(rec.seen.gen)'
      BY <1>1, <1>2, <2>3, <3>1
    <3>3. Moved(rec.seen.gen)' => BaseServes'
      BY DEF Moved, BaseServes
    <3>. QED
      BY <1>1, <2>1, <3>2, <3>3 DEF TrafficInv, Serving
  <2>. QED
    BY <2>2, <2>3
<1>4. Lasting'
  BY <1>1 DEF TrafficInv, Lasting
<1>5. Changing'
  BY <1>1 DEF TrafficInv, Changing
<1>6. Generations'
  BY <1>1 DEF TrafficInv, Generations
<1>7. FirstCanary'
  BY <1>1 DEF TrafficInv, FirstCanary
<1>8. Isolating'
  <2>1. ASSUME app.strategy = "rolling", cro.exists, Leads("base")
        PROVE  Moved(app.gen)'
    <3>1. Moved(app.gen)
      BY <2>1 DEF TrafficInv, Isolating
    <3>2. rec.seen.strategy = "rolling"
      BY <1>1, <2>1, Fields DEF TrafficInv, Changing
    <3>3. Isolated /\ app.gen = rec.seen.gen
      BY <1>1, <2>1, <3>2 DEF TrafficInv, RollingSteps, Isolated
    <3>. QED
      BY <1>1, <1>2, <3>1, <3>3
  <2>2. ASSUME app.strategy = "canary", ro.exists
        PROVE  svc'.label = 0
    <3>1. rec.seen.strategy # "rolling"
      BY <1>1, <2>2 DEF TrafficInv, Changing
    <3>. QED
      BY <1>1, <3>1 DEF Isolated
  <2>. QED
    BY <1>1, <2>1, <2>2 DEF TrafficInv, Isolating
<1>9. RollingSteps'
  <2>1. ASSUME rec.seen.strategy = "rolling", rec.found, Leads("base")
        PROVE  Moved(rec.seen.gen)'
    BY <1>1, <1>2, <2>1 DEF TrafficInv, RollingSteps, Isolated
  <2>2. rec.seen.strategy = "rolling" =>
          svc'.label = IF rec.found THEN rec.seen.gen ELSE 0
    BY <1>1 DEF Isolated
  <2>. QED
    BY <1>1, <2>1, <2>2 DEF TrafficInv, RollingSteps
<1>10. CanarySteps'
  BY <1>1 DEF TrafficInv, CanarySteps, Isolated
<1>. QED
  BY <1>3, <1>4, <1>5, <1>6, <1>7, <1>8, <1>9, <1>10 DEF TrafficInv

\* A full Rollout under the base route is written only before the first claim.
LEMMA RolloutTraffic ==
  ASSUME TypeOK, DrainInv, TrafficInv, ApplyRollout
  PROVE  TrafficInv'
<1> USE DEF Leads, Reconciling
<1>1. /\ UNCHANGED <<app, cached, dep, svc, cro, route, proxy>>
      /\ rec.pc = "rollout" /\ rec'.pc = "route"
      /\ rec'.seen = rec.seen /\ rec'.hold = rec.hold
      /\ ro'.exists /\ ro'.full = ~rec.hold /\ ro'.stable = ro.stable
  BY Fields DEF ApplyRollout, DesiredRollout, Reconcile, Rollout, proxyVars
<1>2. rec.seen.strategy = "canary"
  BY <1>1 DEF DrainInv, StepTells
<1>3. /\ app.strategy = "rolling" => ro.exists /\ ~Leads("base")
      /\ app.strategy = "canary" => cached.strategy = "canary"
  BY <1>1, <1>2, Fields DEF TrafficInv, Changing
<1>4. Serving'
  BY <1>1 DEF TrafficInv, Serving, Claimed, BaseServes
<1>5. Lasting'
  BY <1>1, <1>2, <1>3, Fields DEF TrafficInv, Lasting
<1>6. Changing'
  BY <1>1, <1>2, <1>3 DEF TrafficInv, Changing
<1>7. Generations'
  BY <1>1 DEF TrafficInv, Generations
<1>8. FirstCanary'
  BY <1>1, <1>2, <1>3 DEF TrafficInv, FirstCanary
<1>9. Isolating'
  BY <1>1, <1>2, <1>3 DEF TrafficInv, Isolating, CanarySteps, Moved
<1>10. RollingSteps' /\ CanarySteps'
  BY <1>1, <1>2 DEF TrafficInv, RollingSteps, CanarySteps
<1>. QED
  BY <1>4, <1>5, <1>6, <1>7, <1>8, <1>9, <1>10 DEF TrafficInv

\* The route goes to the canary's Services for the first release, or when the
\* Rollout is stable; by then the base Service selects its pods as well.
LEMMA CanaryRouteTraffic ==
  ASSUME TypeOK, DrainInv, TrafficInv, CanaryRoute
  PROVE  TrafficInv'
<1> USE DEF Leads, Reconciling
<1>1. /\ UNCHANGED <<app, cached, dep, svc, ro, cro, proxy>>
      /\ rec.pc = "route" /\ rec.seen.strategy = "canary" /\ ro.exists
  BY DEF CanaryRoute, proxyVars, DrainInv, StepTells
<1>2. RolloutHealthy(cro) => cro.stable # 0 /\ ro.stable # 0
  BY <1>1 DEF TrafficInv, Lasting, RolloutHealthy
<1>3. /\ Concluded
      /\ \/ rec'.desired.active = rec.seen.status.active
         \/ RolloutHealthy(cro) /\ route'.backend = "canary"
  <2> DEFINE migrating == \/ route'.backend # "canary"
                          \/ rec.seen.status.active # 0 /\ route'.accepted # "accepted"
  <2>1. Conclude(CanaryStatus(rec.seen, migrating, route'))
    BY DEF CanaryRoute
  <2>2. migrating \in BOOLEAN /\ (~migrating => route'.backend = "canary")
    OBVIOUS
  <2> HIDE DEF migrating
  <2> DEFINE status == CanaryStatus(rec.seen, migrating, route')
  <2>3. /\ status.gen = rec.seen.gen
        /\ \/ status.active = rec.seen.status.active
           \/ ~migrating /\ RolloutHealthy(cro)
    BY <2>2, Fields, CanaryStatusNames
  <2> HIDE DEF status
  <2>4. Conclude(status)
    BY <2>1 DEF status
  <2>. QED
    BY <2>2, <2>3, <2>4, ConcludeConcludes
<1>4. /\ route'.backend \in {route.backend, "canary"}
      /\ route'.backend # "none"
      /\ route'.backend # route.backend => route.backend = "none" \/ RolloutHealthy(cro)
  BY Fields, WithBackendType DEF CanaryRoute, MaySwitchToCanary
<1>5. Claimed' => Claimed \/ (RolloutHealthy(cro) /\ route'.backend = "canary")
  BY <1>1, <1>3 DEF Claimed, Concluded
<1>6. Serving'
  <2>1. svc.exists /\ svc.label = 0
    BY <1>1 DEF TrafficInv, CanarySteps
  <2>2. Claimed' /\ Leads("base")' => BaseServes'
    BY <1>1, <1>2, <1>4, <1>5, <2>1 DEF TrafficInv, Serving, BaseServes
  <2>3. Claimed' /\ Leads("canary")' => ro.stable # 0
    BY <1>1, <1>2, <1>4, <1>5 DEF TrafficInv, Serving
  <2>. QED
    BY <1>1, <1>4, <2>2, <2>3 DEF Serving
<1>7. Lasting'
  BY <1>1, <1>3 DEF TrafficInv, Lasting, Concluded
<1>8. Changing'
  BY <1>1, <1>3, <1>4, Fields DEF TrafficInv, Changing, Concluded
<1>9. Generations'
  BY <1>1, <1>3 DEF TrafficInv, Generations, Concluded
<1>10. FirstCanary'
  BY <1>1, <1>2, <1>3 DEF TrafficInv, FirstCanary, Concluded
<1>11. Isolating'
  BY <1>1, <1>4 DEF TrafficInv, Isolating, Moved
<1>12. RollingSteps' /\ CanarySteps'
  BY <1>1, <1>3 DEF RollingSteps, CanarySteps, Concluded
<1>. QED
  BY <1>6, <1>7, <1>8, <1>9, <1>10, <1>11, <1>12 DEF TrafficInv

\* The route goes to the base Service for the first release, when no Rollout is
\* left, or when the Deployment's isolated pods are ready.
LEMMA RollingRouteTraffic ==
  ASSUME TypeOK, DrainInv, TrafficInv, RollingRoute
  PROVE  TrafficInv'
<1> USE DEF Leads, Reconciling
<1>1. /\ UNCHANGED <<app, cached, dep, svc, ro, cro, proxy>>
      /\ rec.pc = "route" /\ rec.seen.strategy = "rolling"
  BY DEF RollingRoute, proxyVars
<1>2. /\ rec'.seen = rec.seen /\ rec'.hold = rec.hold
      /\ \/ /\ rec'.pc = "cutover" /\ rec.found /\ rec.depReady
            /\ rec'.found = rec.found /\ rec'.depReady = rec.depReady
         \/ Concluded /\ rec'.desired.active = rec.seen.status.active
         \/ Concluded /\ ~rec.found /\ rec.depReady
  <2>1. /\ MigrationStatus(rec.seen).gen = rec.seen.gen
        /\ MigrationStatus(rec.seen).active = rec.seen.status.active
    BY Fields, BaseStatusNames DEF MigrationStatus
  <2>2. ASSUME Conclude(MigrationStatus(rec.seen))
        PROVE  Concluded /\ rec'.desired.active = rec.seen.status.active
    BY <2>1, <2>2, ConcludeConcludes
  <2> DEFINE status == WorkloadStatus(rec.seen, rec.depReady, route')
  <2>3. status.gen = rec.seen.gen /\ (status.active = rec.seen.status.active \/ rec.depReady)
    BY Fields, WorkloadStatusNames
  <2>4. \/ Conclude(status) /\ ~rec.found
        \/ Conclude(MigrationStatus(rec.seen))
        \/ rec' = [rec EXCEPT !.pc = "cutover"] /\ rec.found /\ rec.depReady
    BY DEF RollingRoute
  <2> HIDE DEF status
  <2>5. ASSUME Conclude(status)
        PROVE  Concluded /\ (rec'.desired.active = rec.seen.status.active \/ rec.depReady)
    BY <2>3, <2>5, ConcludeConcludes
  <2>6. ASSUME rec' = [rec EXCEPT !.pc = "cutover"]
        PROVE  /\ rec'.pc = "cutover" /\ rec'.seen = rec.seen /\ rec'.hold = rec.hold
               /\ rec'.found = rec.found /\ rec'.depReady = rec.depReady
    BY <2>6, Fields DEF Reconcile
  <2>. QED
    BY <2>2, <2>4, <2>5, <2>6 DEF Concluded
<1>3. /\ route'.backend \in {route.backend, "base"}
      /\ route'.backend # "none"
      /\ route'.backend # route.backend => route.backend = "none" \/ ~rec.found \/ rec.depReady
  BY Fields, WithBackendType DEF RollingRoute, MaySwitchToBase
<1>4. /\ rec.found => svc.exists /\ svc.label = rec.seen.gen /\ dep.label = rec.seen.gen
      /\ ~rec.found => svc.exists /\ svc.label = 0 /\ ~ro.exists /\ ~cro.exists
      /\ rec.depReady => dep.up /\ dep.podVer # 0 /\ dep.podLabel = dep.label
      /\ ro.exists => ro.paused
      /\ rec.found => route.backend # "none"
      /\ rec.found /\ Leads("base") => Moved(rec.seen.gen)
      /\ cro.exists => rec.seen.gen = app.gen
  BY <1>1 DEF TrafficInv, RollingSteps
<1>5. rec.depReady => BaseServes
  BY <1>4 DEF BaseServes
<1>6. ~rec.found => ~Leads("canary") /\ ~Leads("canary")'
  BY <1>1, <1>3, <1>4 DEF DrainInv, RouteTells, NoTrafficToRemoved
<1>7. rec.found /\ Leads("base")' => Moved(rec.seen.gen)
  BY <1>1, <1>3, <1>4 DEF Moved
<1>8. Claimed' => Claimed \/ (~rec.found /\ rec.depReady)
  BY <1>1, <1>2 DEF Claimed, Concluded
<1>9. Serving'
  <2>1. BaseServes' = BaseServes
    BY <1>1 DEF BaseServes
  <2>2. Claimed' /\ Leads("base")' => BaseServes
    <3>1. CASE rec.found
      BY <1>7, <3>1 DEF Moved, BaseServes
    <3>2. CASE ~rec.found
      <4>1. route.backend \in {"none", "base"}
        BY <1>6, <3>2, Fields DEF Route, Backend
      <4>. QED
        BY <1>5, <1>8, <3>2, <4>1 DEF TrafficInv, Serving
    <3>. QED
      BY <3>1, <3>2
  <2>3. Claimed' /\ Leads("canary")' => ro.exists /\ ro.stable # 0
    BY <1>1, <1>3, <1>6, <1>8 DEF TrafficInv, Serving
  <2>. QED
    BY <1>1, <1>3, <2>1, <2>2, <2>3 DEF Serving
<1>10. Lasting'
  BY <1>1, <1>2 DEF TrafficInv, Lasting, Concluded
<1>11. Changing'
  BY <1>1, <1>2, <1>3, Fields DEF TrafficInv, Changing, Concluded
<1>12. Generations'
  BY <1>1, <1>2 DEF TrafficInv, Generations, Concluded
<1>13. FirstCanary'
  BY <1>1, <1>2 DEF TrafficInv, FirstCanary, Concluded
<1>14. Isolating'
  <2>1. cro.exists => rec.found
    BY <1>4
  <2>2. cro.exists /\ Leads("base")' => Moved(app.gen)
    BY <1>4, <1>7, <2>1
  <2>. QED
    BY <1>1, <1>3, <1>4, <2>2 DEF TrafficInv, Isolating, Moved
<1>15. RollingSteps'
  BY <1>1, <1>2, <1>3, <1>4, <1>7 DEF RollingSteps, Concluded, Moved
<1>16. CanarySteps'
  BY <1>1, <1>2 DEF CanarySteps
<1>. QED
  BY <1>9, <1>10, <1>11, <1>12, <1>13, <1>14, <1>15, <1>16 DEF TrafficInv

\* The drains wait, and change no backend.
LEMMA DrainsTraffic ==
  ASSUME TypeOK, TrafficInv, CutoverDrain \/ CleanupDrain
  PROVE  TrafficInv'
<1> USE DEF Leads, Reconciling
<1>1. /\ UNCHANGED <<app, cached, dep, svc, ro, cro, proxy>>
      /\ rec.pc \in {"cutover", "cleanup"}
  BY DEF CutoverDrain, CleanupDrain, proxyVars
<1>2. route'.backend = route.backend
  BY Fields DEF CutoverDrain, CleanupDrain, Route
<1>3. CASE Conclude(MigrationStatus(rec.seen))
  <2>1. /\ MigrationStatus(rec.seen).gen = rec.seen.gen
        /\ MigrationStatus(rec.seen).active = rec.seen.status.active
    BY Fields, BaseStatusNames DEF MigrationStatus
  <2>. QED
    BY <1>1, <1>2, <1>3, <2>1, ConcludeConcludes, ConcludedTraffic
<1>4. CASE \/ rec' = [rec EXCEPT !.pc = "dropServices"]
           \/ rec' = [rec EXCEPT !.pc = "dropRollout"]
  <2>1. /\ rec'.pc \in {"dropServices", "dropRollout"}
        /\ rec'.seen = rec.seen /\ rec'.hold = rec.hold /\ rec'.found = rec.found
        /\ rec'.depReady = rec.depReady
    BY <1>4, Fields DEF Reconcile
  <2>2. rec.seen.strategy = "rolling"
    BY <1>1, Fields DEF TrafficInv, CanarySteps
  <2>3. Serving'
    BY <1>1, <1>2, <2>1 DEF TrafficInv, Serving, Claimed, BaseServes
  <2>4. Lasting' /\ Changing'
    BY <1>1, <1>2, <2>1 DEF TrafficInv, Lasting, Changing
  <2>5. Generations' /\ FirstCanary'
    BY <1>1, <2>1 DEF TrafficInv, Generations, FirstCanary
  <2>6. Isolating'
    BY <1>1, <1>2, <2>1 DEF TrafficInv, Isolating, Moved
  <2>7. RollingSteps' /\ CanarySteps'
    BY <1>1, <1>2, <2>1, <2>2 DEF TrafficInv, RollingSteps, CanarySteps, Moved
  <2>. QED
    BY <2>3, <2>4, <2>5, <2>6, <2>7 DEF TrafficInv
<1>. QED
  BY <1>3, <1>4 DEF CutoverDrain, CleanupDrain

\* When the Rollout goes, Envoy sends requests to the base Service only, which
\* is isolated to the Deployment's ready pods.
LEMMA DropRolloutTraffic ==
  ASSUME TypeOK, DrainInv, TrafficInv, DropRollout
  PROVE  TrafficInv'
<1> USE DEF Leads, Reconciling
<1>1. /\ UNCHANGED <<app, cached, dep, svc, cro, route, proxy>>
      /\ rec.pc = "dropRollout" /\ ~ro'.exists /\ ro'.stable = 0
      /\ proxy = "base" /\ route.backend = "base"
  BY DEF DropRollout, NoRollout, proxyVars, DrainInv, RouteTells, StepTells
<1>2. Concluded
  BY Fields, WorkloadStatusNames, ConcludeConcludes DEF DropRollout
<1>3. rec.seen.strategy = "rolling" /\ Moved(rec.seen.gen)
  BY <1>1, Fields DEF TrafficInv, RollingSteps, CanarySteps
<1>4. /\ app.strategy = "canary" => ~ro.exists /\ ~cro.exists
      /\ cached.strategy = app.strategy \/ cached.strategy = "rolling"
  BY <1>1, <1>3, Fields DEF TrafficInv, Changing
<1>5. Serving'
  BY <1>1, <1>3 DEF Serving, BaseServes, Moved
<1>6. Lasting'
  BY <1>1, <1>2, <1>3, <1>4 DEF TrafficInv, Lasting, Concluded
<1>7. Changing'
  BY <1>1, <1>2, <1>3, <1>4, Fields DEF TrafficInv, Changing, Concluded
<1>8. Generations'
  BY <1>1, <1>2 DEF TrafficInv, Generations, Concluded
<1>9. FirstCanary'
  BY <1>1, <1>2, <1>3 DEF TrafficInv, FirstCanary, Concluded
<1>10. Isolating'
  BY <1>1 DEF TrafficInv, Isolating, Moved
<1>11. RollingSteps' /\ CanarySteps'
  BY <1>1, <1>2, <1>3 DEF TrafficInv, RollingSteps, CanarySteps, Concluded
<1>. QED
  BY <1>5, <1>6, <1>7, <1>8, <1>9, <1>10, <1>11 DEF TrafficInv

\* The active version after the patch: the reconcile's, if it differs from the
\* cached one and the cache is of the reconcile's generation.
LEMMA PatchedActive ==
  ASSUME TypeOK, PatchStatus
  PROVE  \/ app'.status.active = app.status.active
         \/ /\ cached.gen = rec.desired.gen
            /\ rec.desired.active # cached.status.active
            /\ app'.status.active = rec.desired.active
<1>1. /\ app \in Application /\ app.status \in AppStatus
      /\ cached.status \in AppStatus /\ rec.desired \in AppStatus
  BY DEF TypeOK, Application, Reconcile
<1>2. CASE StatusPatchNeeded
  <2>1. app'.status = Merge(app.status, cached.status, rec.desired)
    BY <1>1, <1>2 DEF PatchStatus, Application
  <2>. QED
    BY <1>1, <1>2, <2>1, MergeType DEF StatusPatchNeeded
<1>3. CASE ~StatusPatchNeeded
  BY <1>3 DEF PatchStatus
<1>. QED
  BY <1>2, <1>3

\* The patch makes no claim that the reconcile did not make; one that is stale
\* is for another generation, and dropped.
LEMMA PatchTraffic ==
  ASSUME TypeOK, TrafficInv, PatchStatus
  PROVE  TrafficInv'
<1> USE DEF Leads, Reconciling
<1>1. /\ UNCHANGED <<cached, dep, svc, ro, cro, route, proxy>>
      /\ rec.pc = "status" /\ rec'.pc = "idle" /\ ~rec'.hold
      /\ app'.gen = app.gen /\ app'.strategy = app.strategy
  BY PatchStatusStep DEF PatchStatus, childVars, proxyVars, Idle, TypeOK, Application
<1>2. \/ app'.status.active = app.status.active
      \/ /\ cached.gen = rec.desired.gen
         /\ rec.desired.active # cached.status.active
         /\ app'.status.active = rec.desired.active
  BY PatchedActive
<1>3. ASSUME app.strategy = "canary", cro.stable = 0
      PROVE  \/ app'.status.active = 0 <=> app.status.active = 0
             \/ cached.strategy = "rolling"
  <2>1. CASE app'.status.active = app.status.active
    BY <2>1
  <2>2. CASE /\ cached.gen = rec.desired.gen /\ cached.strategy = "canary"
             /\ app'.status.active = rec.desired.active
    <3>1. rec.seen.strategy = "canary"
      BY <1>1, <2>2 DEF TrafficInv, Generations
    <3>. QED
      BY <1>1, <1>3, <2>2, <3>1 DEF TrafficInv, FirstCanary
  <2>. QED
    BY <1>2, <2>1, <2>2, Fields
<1>4. Claimed' => Claimed
  BY <1>1, <1>2 DEF Claimed
<1>5. Serving'
  BY <1>1, <1>4 DEF TrafficInv, Serving, BaseServes
<1>6. Lasting' /\ Changing' /\ Generations'
  BY <1>1 DEF TrafficInv, Lasting, Changing, Generations
<1>7. FirstCanary'
  BY <1>1, <1>3 DEF TrafficInv, FirstCanary, Changing
<1>8. Isolating'
  BY <1>1 DEF TrafficInv, Isolating, Moved
<1>9. RollingSteps' /\ CanarySteps'
  BY <1>1 DEF RollingSteps, CanarySteps
<1>. QED
  BY <1>5, <1>6, <1>7, <1>8, <1>9 DEF TrafficInv

\* A failure ends the reconcile, makes it report, or is the platform's.
LEMMA FailureTraffic ==
  ASSUME TypeOK, TrafficInv, Failure
  PROVE  TrafficInv'
<1>1. CASE Interrupt
  <2>1. /\ UNCHANGED <<app, cached, dep, svc, ro, cro, route, proxy>>
        /\ rec'.pc = "idle" /\ ~rec'.hold
    BY <1>1 DEF Interrupt, Finish, Idle, childVars, proxyVars
  <2> USE DEF Leads, Reconciling
  <2>2. Serving'
    BY <2>1 DEF TrafficInv, Serving, Claimed, BaseServes
  <2>3. Lasting' /\ Changing' /\ Generations' /\ FirstCanary'
    BY <2>1 DEF TrafficInv, Lasting, Changing, Generations, FirstCanary
  <2>4. Isolating'
    BY <2>1 DEF TrafficInv, Isolating, Moved
  <2>5. RollingSteps' /\ CanarySteps'
    BY <2>1 DEF RollingSteps, CanarySteps
  <2>. QED
    BY <2>2, <2>3, <2>4, <2>5 DEF TrafficInv
<1>2. CASE WriteError
  <2>1. /\ UNCHANGED <<app, cached, dep, svc, ro, cro, route, proxy>>
        /\ rec.pc # "idle" /\ Return(DegradedStatus(rec.seen), TRUE)
    BY <1>2 DEF WriteError, childVars, proxyVars
  <2>2. /\ DegradedStatus(rec.seen).gen = rec.seen.gen
        /\ DegradedStatus(rec.seen).active = rec.seen.status.active
    BY Fields, BaseStatusNames DEF DegradedStatus
  <2>. QED
    BY <2>1, <2>2, ReturnConcludes, ConcludedTraffic
<1>3. CASE DeploymentStalls \/ RouteRejected
  <2>1. /\ UNCHANGED <<app, cached, svc, ro, cro, proxy, rec>>
        /\ route'.backend = route.backend
        /\ dep'.ver = dep.ver /\ dep'.up = dep.up /\ dep'.label = dep.label
        /\ dep'.podVer = dep.podVer /\ dep'.podLabel = dep.podLabel
    BY <1>3, Fields DEF DeploymentStalls, RouteRejected, Route, Deployment, proxyVars
  <2>. QED
    BY <2>1, PlatformTraffic
<1>. QED
  BY <1>1, <1>2, <1>3 DEF Failure

\* Pods, Envoy, timers, and the Rollout's progress.
LEMMA ProgressTraffic ==
  ASSUME TypeOK, TrafficInv,
         \/ DeploymentRolls \/ RouteAccepted \/ ProxyConverges
         \/ ConnectionsDrain \/ CutoverElapses \/ CleanupElapses
         \/ RolloutObserves \/ RolloutPauses \/ RolloutRolls \/ CanaryStarts
         \/ CanaryPasses \/ CanaryFails \/ WeightsReturn \/ UNCHANGED vars
  PROVE  TrafficInv'
<1>1. CASE \/ DeploymentRolls \/ RouteAccepted \/ ProxyConverges
           \/ ConnectionsDrain \/ CutoverElapses \/ CleanupElapses
  <2> USE DEF DeploymentRolls, RouteAccepted, ProxyConverges, ConnectionsDrain,
              CutoverElapses, CleanupElapses, childVars, proxyVars
  <2>1. UNCHANGED <<app, cached, svc, ro, cro, rec>> /\ proxy' \in {proxy, route.backend}
    BY <1>1
  <2>2. route'.backend = route.backend
    BY <1>1, Fields DEF Route
  <2>3. /\ dep'.ver = dep.ver /\ dep'.up = dep.up /\ dep'.label = dep.label
        /\ \/ dep'.podVer = dep.podVer /\ dep'.podLabel = dep.podLabel
           \/ /\ dep.up /\ dep.ver # 0
              /\ dep'.podVer = dep.ver /\ dep'.podLabel = dep.label
           \/ ~dep.up /\ dep'.podVer = 0
    BY <1>1, Fields DEF Deployment
  <2>. QED
    BY <2>1, <2>2, <2>3, PlatformTraffic
<1>2. CASE \/ RolloutObserves \/ RolloutPauses \/ RolloutRolls \/ CanaryStarts
           \/ CanaryPasses \/ CanaryFails \/ WeightsReturn
  <2> USE DEF RolloutObserves, RolloutPauses, RolloutRolls, CanaryStarts, CanaryPasses,
              CanaryFails, WeightsReturn, proxyVars
  <2>1. UNCHANGED <<app, cached, svc, dep, cro, rec, proxy>>
    BY <1>2
  <2>2. route'.backend = route.backend
    BY <1>2, Fields DEF Route
  <2>3. /\ ro'.exists = ro.exists /\ ro'.full = ro.full /\ ro'.paused = ro.paused
        /\ ro'.stable = ro.stable \/ (ro.exists /\ ro'.stable # 0)
    BY <1>2, Fields DEF Rollout, Updating, RolloutActive
  <2>. QED
    BY <2>1, <2>2, <2>3, PlatformTraffic
<1>3. CASE UNCHANGED vars
  BY <1>3, PlatformTraffic DEF vars, childVars, proxyVars
<1>. QED
  BY <1>1, <1>2, <1>3

\* A stable Rollout takes the Deployment's replicas only when the base Service
\* selects its pods, or nobody is sent there.
LEMMA ScaleDownTraffic ==
  ASSUME TypeOK, TrafficInv, ScaleDownWorkload
  PROVE  TrafficInv'
<1> USE DEF Leads, Reconciling
<1>1. /\ UNCHANGED <<app, cached, svc, ro, cro, route, proxy, rec>>
      /\ ro.exists /\ ~ro.paused /\ ro.stable # 0
      /\ dep'.ver = dep.ver /\ dep'.label = dep.label
      /\ dep'.podVer = dep.podVer /\ dep'.podLabel = dep.podLabel
  BY Fields DEF ScaleDownWorkload, RolloutActive, RolloutHealthy, Deployment, proxyVars
<1>2. \/ app.strategy = "canary" /\ svc.exists /\ svc.label = 0
      \/ app.strategy = "rolling" /\ ~Leads("base")
  BY <1>1, Fields DEF TrafficInv, Isolating
<1>3. Serving'
  BY <1>1, <1>2 DEF TrafficInv, Serving, Claimed, BaseServes
<1>4. Lasting' /\ Changing' /\ Generations' /\ FirstCanary'
  BY <1>1 DEF TrafficInv, Lasting, Changing, Generations, FirstCanary
<1>5. Isolating'
  BY <1>1, <1>2 DEF TrafficInv, Isolating
<1>6. RollingSteps'
  BY <1>1, <1>2 DEF TrafficInv, RollingSteps, Changing
<1>7. CanarySteps'
  BY <1>1 DEF TrafficInv, CanarySteps
<1>. QED
  BY <1>3, <1>4, <1>5, <1>6, <1>7 DEF TrafficInv

\* Traffic is served up to the first edit that is rushed, and none is without
\* EagerEdits.
Traffic ==
  /\ rushed = {} => TrafficInv
  /\ ~EagerEdits => rushed = {}

\* Only an edit may be rushed, and what was is not forgotten.
LEMMA RushFrame ==
  ASSUME [Next]_vars
  PROVE  \/ rushed' = rushed
         \/ rushed' # {} /\ \E s \in Strategy, v \in Version : Edit(s, v)
<1>1. ASSUME NEW s \in Strategy, NEW v \in Version, Edit(s, v)
      PROVE  rushed' = rushed \/ rushed' # {}
  BY <1>1 DEF Edit, Rushes
<1>2. CASE UNCHANGED vars
  BY <1>2 DEF vars, history
<1>3. CASE Controller
  BY <1>3 DEF Controller, StartReconcile, Admit, FreezeRollout, ApplyDeployment, ApplyService,
     ApplyCanaryServices, ApplyRollout, CanaryRoute, RollingRoute, CutoverDrain, DropServices,
     CleanupDrain, DropRollout, PatchStatus, Approves, history
<1>4. CASE Failure
  BY <1>4 DEF Failure, Interrupt, WriteError, DeploymentStalls, RouteRejected, history
<1>5. CASE Progress \/ CanaryPasses \/ CanaryFails
  BY <1>5 DEF Progress, Watch, WatchRollout, DeploymentRolls, RouteAccepted, ProxyConverges,
     ConnectionsDrain, CutoverElapses, CleanupElapses, RolloutObserves, RolloutPauses,
     RolloutRolls, CanaryStarts, WeightsReturn, ScaleDownWorkload, CanaryPasses, CanaryFails,
     Approves, history
<1>. QED
  BY <1>1, <1>2, <1>3, <1>4, <1>5 DEF Next

LEMMA InitInOrder == Init => Traffic
BY InitTraffic DEF Init, Traffic

LEMMA TrafficSteps ==
  ASSUME TypeOK, DrainInv, StatusInv, TrafficInv, rushed = {}, rushed' = {}, [Next]_vars
  PROVE  TrafficInv'
BY EditTraffic, WatchTraffic, WatchRolloutTraffic, StartTraffic, AdmitTraffic,
     PassTraffic, DeploymentTraffic, ServiceTraffic, RolloutTraffic, CanaryRouteTraffic,
     RollingRouteTraffic, DrainsTraffic, DropRolloutTraffic, PatchTraffic, FailureTraffic,
     ProgressTraffic, ScaleDownTraffic
     DEF Next, Controller, Progress

LEMMA StepTraffic ==
  ASSUME TypeOK, DrainInv, StatusInv, Traffic, [Next]_vars
  PROVE  Traffic'
<1>1. limits' = limits
  BY StatusFrame, PatchStatusKeeps
<1>2. rushed' = {} => rushed = {}
  BY RushFrame DEF Edit, Rushes
<1>3. rushed' = {} => TrafficInv'
  BY <1>2, TrafficSteps DEF Traffic
<1>4. ~EagerEdits => rushed' = {}
  BY RushFrame, EditInOrder DEF Traffic
<1>. QED
  BY <1>1, <1>3, <1>4 DEF Traffic, EagerEdits

\* Zero downtime: from the first active version on, the backends Envoy sends
\* requests to have ready pods, through releases, failures, crashes, lagging
\* caches and both migrations, whenever the spec is edited, up to the first edit
\* that comes before a migration has ended; a new tag on the way to a canary, and
\* any edit while a release runs, are none of these.
THEOREM TrafficIsServed == Spec => []ServedUnlessRushed
<1>1. Init => TypeOK /\ DrainInv /\ StatusInv /\ Traffic
  BY InitType, InitDrain, InitStatus, InitInOrder
<1>2. TypeOK /\ DrainInv /\ StatusInv /\ Traffic /\ [Next]_vars
      => (TypeOK /\ DrainInv /\ StatusInv /\ Traffic)'
  BY StepType, StepDrain, StepStatus, StepTraffic
<1>3. ASSUME TypeOK, DrainInv, TrafficInv
      PROVE  TrafficServed
  <2> SUFFICES ASSUME app.status.active # 0, proxy # "none" PROVE Endpoints # {}
    BY DEF TrafficServed
  <2>1. CASE proxy = "base"
    <3>1. BaseServes
      BY <1>3, <2>1 DEF TrafficInv, Serving, Claimed, Leads
    <3>. QED
      BY <2>1, <3>1 DEF Endpoints, BaseServes
  <2>2. CASE proxy = "canary"
    <3>1. ro.exists /\ ro.stable # 0 /\ progServices
      BY <1>3, <2>2 DEF TrafficInv, Serving, Claimed, Leads, DrainInv, NoTrafficToRemoved
    <3>. QED
      BY <2>2, <3>1 DEF Endpoints
  <2>. QED
    BY <1>3, <2>1, <2>2 DEF TypeOK, Backend
<1>4. TypeOK /\ DrainInv /\ Traffic => ServedUnlessRushed
  BY <1>3 DEF ServedUnlessRushed, Traffic
<1>. QED
  BY <1>1, <1>2, <1>4, PTL DEF Spec

-----------------------------------------------------------------------------
(* A version becomes active after its analysis *)

\* Versions that may be active or leave marks at any time, by the history.
Cleared == approved \cup interrupted

\* Where a version leaves its marks on the cluster.
Marks == {dep.ver, dep.podVer, ro.stable, ro.target, ro.arg}

\* The cache or the reconcile in progress is of a generation before an edit.
Behind == cached.gen # app.gen \/ (rec.pc # "idle" /\ rec.seen.gen # app.gen)

\* A version that is not cleared is the desired one, and a status names it only
\* if it is the first, or the strategy is rolling: the patch will approve it.
OnRecord ==
  /\ Marks \subseteq Cleared \cup {0, app.tag}
  /\ app.status.active \in Cleared \cup {0}
  /\ cached.status.active \in Cleared \cup {0}
  /\ rec.pc # "idle" => rec.seen.status.active \in Cleared \cup {0}
  /\ rec.pc = "status" =>
       \/ rec.desired.active \in Cleared \cup {0}
       \/ /\ rec.desired.active = rec.seen.tag
          /\ app.status.active = 0 \/ rec.seen.strategy = "rolling"

\* A generation has one tag, and the tags of former ones are cleared.
FormerTags ==
  /\ IF cached.gen = app.gen THEN cached.tag = app.tag ELSE cached.tag \in Cleared
  /\ rec.pc # "idle" =>
       IF rec.seen.gen = app.gen THEN rec.seen.tag = app.tag ELSE rec.seen.tag \in Cleared

\* Until a reconcile has read a new version it leaves no marks.
NoMarksYet == app.tag \notin Cleared /\ Behind => app.tag \notin Marks

\* As long as a version is not cleared, its reconciles know the active version.
KnownActive ==
  app.tag \notin Cleared =>
    /\ cached.gen = app.gen => cached.status.active = app.status.active
    /\ rec.pc # "idle" /\ rec.seen.gen = app.gen =>
         /\ rec.seen.status.active = app.status.active
         /\ rec.pc = "status" => rec.desired.active \in {app.status.active, app.tag}

NotPaused == app.strategy = "canary" /\ ro.exists => ~ro.paused

\* A canary is desired whose analysis has not passed.
Undecided ==
  /\ app.strategy = "canary" /\ app.status.active # 0
  /\ app.tag \notin Cleared /\ ~Behind

\* The Rollout will analyse the desired version before it is stable.
Awaits(r) ==
  /\ r.exists /\ r.full /\ r.arg = app.tag /\ r.stable \notin {0, app.tag}
  /\ ~RolloutHealthy(r)

\* The Deployment may have got the version, the Rollout its steps not yet.
Between == rec.pc \in {"service", "services", "rollout"}

\* Between the writes a Deployment that is not held has the version, and one
\* that is held has not; the Rollout has not taken it for healthy.
HalfWritten ==
  /\ rec.hold =>
       /\ dep.ver # app.tag
       /\ ro.observed /\ ro.target = app.tag => ro.arg = app.tag
  /\ ~rec.hold =>
       /\ dep.ver = app.tag
       /\ ro.arg = app.tag => ~RolloutHealthy(ro)

\* Otherwise the Rollout awaits the version that the Deployment has.
BothWritten ==
  /\ dep.ver = app.tag => Awaits(ro)
  /\ ro.arg = app.tag => dep.ver = app.tag
  /\ ro.observed /\ ro.target = app.tag => dep.ver = app.tag

\* Pods of the desired version are ready: by then the cache shows, like the API
\* server, a full Rollout that is not healthy, so no reconcile holds the
\* Deployment or claims the version.
PodsAhead == dep.podVer = app.tag \/ (ro.candidate /\ ro.target = app.tag)

Analysed ==
  Undecided =>
    /\ ro.stable # app.tag
    /\ Between => HalfWritten
    /\ ~Between => BothWritten
    /\ (Between \/ rec.pc = "deployment") /\ ~rec.hold => ro.stable # 0
    /\ PodsAhead =>
         /\ Awaits(ro)
         /\ cro.exists /\ cro.full /\ cro.stable # 0 /\ ~RolloutHealthy(cro)
         /\ rec.pc # "idle" => ~rec.hold

ApprovalInv ==
  OnRecord /\ FormerTags /\ NoMarksYet /\ KnownActive /\ NotPaused /\ Analysed

LEMMA InitApproval == Init => ApprovalInv
<1> SUFFICES ASSUME Init PROVE ApprovalInv
  OBVIOUS
<1>1. /\ app.gen = 1 /\ app.tag = 1 /\ app.status.active = 0 /\ cached = app
      /\ dep.ver = 0 /\ dep.podVer = 0
      /\ ~ro.exists /\ ro.stable = 0 /\ ro.target = 0 /\ ro.arg = 0
      /\ rec.pc = "idle"
  BY DEF Init, NoDeployment, NoRollout, NoStatus, Idle
<1>. QED
  BY <1>1 DEF ApprovalInv, OnRecord, FormerTags, NoMarksYet, KnownActive, NotPaused, Analysed,
              Undecided, Marks

\* The reconcile of an undecided canary is one of the canary strategy for it.
LEMMA UndecidedReconcile ==
  ASSUME TypeOK, TrafficInv, ApprovalInv, Undecided, rec.pc # "idle"
  PROVE  /\ rec.seen.gen = app.gen /\ cached.gen = app.gen
         /\ rec.seen.tag = app.tag /\ rec.seen.strategy = "canary"
         /\ rec.seen.status.active = app.status.active
<1>1. rec.seen.gen = app.gen /\ cached.gen = app.gen
  BY DEF Undecided, Behind
<1>. QED
  BY <1>1 DEF TrafficInv, Generations, ApprovalInv, FormerTags, KnownActive, Undecided

\* Tags are versions, and 0 is none.
LEMMA TagsAreVersions ==
  ASSUME TypeOK
  PROVE  /\ app.tag # 0 /\ rec.seen.tag # 0
         /\ app.tag \in Version /\ rec.seen.tag \in Version
BY DEF TypeOK, Application, Reconcile, Version

\* Steps that change neither the marks nor what a reconcile knows.
LEMMA SameApproval ==
  ASSUME ApprovalInv, UNCHANGED <<app, cached, ro, cro, rec, history>>,
         dep'.ver = dep.ver, dep'.podVer = dep.podVer
  PROVE  ApprovalInv'
BY DEF ApprovalInv, OnRecord, FormerTags, NoMarksYet, KnownActive, NotPaused, Analysed,
       Undecided, Behind, Between, HalfWritten, BothWritten, PodsAhead, Awaits, RolloutHealthy,
       Marks, Cleared, history

\* An edit clears the former tag, and its generation has no marks yet.
LEMMA EditApproval ==
  ASSUME TypeOK, TrafficInv, ApprovalInv, ~EagerEdits,
         NEW s \in Strategy, NEW v \in Version, Edit(s, v)
  PROVE  ApprovalInv'
<1>1. /\ app'.strategy = s /\ app'.status = app.status /\ app'.gen = app.gen + 1
      /\ app'.tag = v /\ v # 0
      /\ UNCHANGED <<cached, dep, ro, cro, rec>>
      /\ Cleared' = Cleared \cup {app.tag}
  BY DEF TypeOK, Application, Edit, Interrupts, Cleared, childVars, Version
<1>2. cached = app /\ Aligned
  BY DEF Edit, Settled
<1>3. /\ cached.gen # app'.gen
      /\ rec.pc # "idle" => rec.seen.gen # app'.gen
  BY <1>1, <1>2, Fields DEF TrafficInv, Generations
<1>4. OnRecord'
  BY <1>1 DEF ApprovalInv, OnRecord, Marks
<1>5. FormerTags'
  BY <1>1, <1>2, <1>3 DEF ApprovalInv, FormerTags
<1>6. NoMarksYet'
  BY <1>1 DEF ApprovalInv, OnRecord, NoMarksYet, Marks
<1>7. KnownActive'
  BY <1>1, <1>3 DEF KnownActive
<1>8. NotPaused'
  <2>1. s = "canary" /\ app.strategy # "canary" => ~ro.exists
    BY <1>2 DEF Aligned
  <2>. QED
    BY <1>1, <2>1 DEF ApprovalInv, NotPaused
<1>9. Analysed'
  BY <1>1, <1>3 DEF Analysed, Undecided, Behind
<1>. QED
  BY <1>4, <1>5, <1>6, <1>7, <1>8, <1>9 DEF ApprovalInv

\* The cache of the Application catches up: with a new generation, without marks.
LEMMA WatchApproval ==
  ASSUME TypeOK, TrafficInv, ApprovalInv, Watch
  PROVE  ApprovalInv'
<1>1. cached' = app /\ UNCHANGED <<app, dep, ro, cro, rec, history>>
  BY DEF Watch, childVars
<1>2. Cleared' = Cleared /\ Marks' = Marks
  BY <1>1 DEF Cleared, Marks, history
<1>3. OnRecord'
  BY <1>1, <1>2 DEF ApprovalInv, OnRecord
<1>4. FormerTags'
  BY <1>1, <1>2 DEF ApprovalInv, FormerTags
<1>5. NoMarksYet'
  BY <1>1, <1>2 DEF ApprovalInv, NoMarksYet, Behind
<1>6. KnownActive'
  BY <1>1, <1>2 DEF ApprovalInv, KnownActive
<1>7. NotPaused'
  BY <1>1 DEF ApprovalInv, NotPaused
<1>8. Analysed'
  <2>1. CASE cached.gen = app.gen
    <3>1. Undecided' = Undecided
      BY <1>1, <1>2, <2>1 DEF Undecided, Behind
    <3>. QED
      BY <1>1, <3>1 DEF ApprovalInv, Analysed, Between, HalfWritten, BothWritten, PodsAhead,
                        Awaits, RolloutHealthy
  <2>2. CASE cached.gen # app.gen
    <3>1. rec.pc # "idle" => rec.seen.gen # app.gen
      BY <2>2, Fields DEF TrafficInv, Generations
    <3>2. Undecided' => rec.pc = "idle" /\ app.tag \notin Marks
      BY <1>1, <1>2, <2>2, <3>1 DEF Undecided, Behind, ApprovalInv, NoMarksYet
    <3>. QED
      BY <1>1, <3>2 DEF Analysed, Between, BothWritten, PodsAhead, Marks
  <2>. QED
    BY <2>1, <2>2
<1>. QED
  BY <1>3, <1>4, <1>5, <1>6, <1>7, <1>8 DEF ApprovalInv

\* The cache of the Rollout catches up with one that still awaits its analysis.
LEMMA WatchRolloutApproval ==
  ASSUME TypeOK, ApprovalInv, WatchRollout
  PROVE  ApprovalInv'
<1>1. cro' = ro /\ UNCHANGED <<app, cached, dep, ro, rec, history>>
  BY DEF WatchRollout, childVars
<1>2. Cleared' = Cleared /\ Marks' = Marks /\ Behind' = Behind
  BY <1>1 DEF Cleared, Marks, Behind, history
<1>3. OnRecord' /\ FormerTags' /\ NoMarksYet' /\ KnownActive' /\ NotPaused'
  BY <1>1, <1>2 DEF ApprovalInv, OnRecord, FormerTags, NoMarksYet, KnownActive, NotPaused
<1>4. Analysed'
  BY <1>1, <1>2 DEF ApprovalInv, Analysed, Undecided, Between, HalfWritten, BothWritten, PodsAhead,
                    Awaits, RolloutHealthy
<1>. QED
  BY <1>3, <1>4 DEF ApprovalInv

LEMMA StartApproval ==
  ASSUME TypeOK, ApprovalInv, StartReconcile
  PROVE  ApprovalInv'
<1>1. /\ rec'.pc = "admit" /\ rec'.seen = cached /\ ~rec'.hold
      /\ rec.pc = "idle"
      /\ UNCHANGED <<app, cached, dep, ro, cro, history>>
  BY DEF StartReconcile, Idle, childVars
<1>2. Cleared' = Cleared /\ Marks' = Marks /\ Behind' = Behind
  BY <1>1 DEF Cleared, Marks, Behind, history
<1>3. OnRecord' /\ FormerTags' /\ NoMarksYet' /\ KnownActive' /\ NotPaused'
  BY <1>1, <1>2 DEF ApprovalInv, OnRecord, FormerTags, NoMarksYet, KnownActive, NotPaused
<1>4. Analysed'
  BY <1>1, <1>2 DEF ApprovalInv, Analysed, Undecided, Between, BothWritten, PodsAhead,
                    Awaits, RolloutHealthy
<1>. QED
  BY <1>3, <1>4 DEF ApprovalInv

\* A reconcile concludes after, or without, its writes: with the active version
\* it knows, or a claim that the patch will approve, or a cleared version.
LEMMA ConcludedApproval ==
  ASSUME TypeOK, ApprovalInv, rec.pc # "idle", ~Between, Concluded,
         UNCHANGED <<app, cached, dep, ro, cro, history>>,
         \/ rec'.desired.active = rec.seen.status.active
         \/ /\ rec'.desired.active = rec.seen.tag
            /\ \/ rec.seen.tag \in Cleared
               \/ app.status.active = 0 \/ rec.seen.strategy = "rolling"
  PROVE  ApprovalInv'
<1> USE DEF Concluded
<1>1. Cleared' = Cleared /\ Marks' = Marks /\ Behind' = Behind
  BY DEF Cleared, Marks, Behind, history
<1>2. OnRecord'
  BY <1>1 DEF ApprovalInv, OnRecord
<1>3. FormerTags' /\ NoMarksYet' /\ NotPaused'
  BY <1>1 DEF ApprovalInv, FormerTags, NoMarksYet, NotPaused
<1>4. KnownActive'
  BY <1>1 DEF ApprovalInv, KnownActive, FormerTags
<1>5. Analysed'
  BY <1>1 DEF ApprovalInv, Analysed, Undecided, Between, BothWritten, PodsAhead, Awaits,
              RolloutHealthy
<1>. QED
  BY <1>2, <1>3, <1>4, <1>5 DEF ApprovalInv

\* An undecided canary does not hold the Deployment once the cache shows a full
\* Rollout, and only a stable Rollout lets the Deployment go.
LEMMA AdmitApproval ==
  ASSUME TypeOK, TrafficInv, ApprovalInv, Admit
  PROVE  ApprovalInv'
<1>1. /\ rec.pc = "admit" /\ ~Between
      /\ UNCHANGED <<app, cached, dep, ro, cro, history>>
  BY DEF Admit, Between, childVars
<1>2. CASE Return(DegradedStatus(rec.seen), FALSE)
  <2>1. /\ DegradedStatus(rec.seen).gen = rec.seen.gen
        /\ DegradedStatus(rec.seen).active = rec.seen.status.active
    BY Fields, BaseStatusNames DEF DegradedStatus
  <2>. QED
    BY <1>1, <1>2, <2>1, ReturnConcludes, ConcludedApproval
<1>3. CASE rec' = [rec EXCEPT
                     !.pc = IF rec.seen.strategy = "rolling" /\ cro.exists
                            THEN "freeze" ELSE "deployment",
                     !.hold = rec.seen.strategy = "canary" /\ ShouldHold(rec.seen),
                     !.found = cro.exists]
  <2>1. /\ rec'.pc \in {"freeze", "deployment"}
        /\ rec'.seen = rec.seen
        /\ rec'.hold = (rec.seen.strategy = "canary" /\ ShouldHold(rec.seen))
    BY <1>3, Fields DEF Reconcile
  <2>2. Cleared' = Cleared /\ Marks' = Marks /\ Behind' = Behind
    BY <1>1, <2>1 DEF Cleared, Marks, Behind, history
  <2>3. OnRecord' /\ FormerTags' /\ NoMarksYet' /\ KnownActive' /\ NotPaused'
    BY <1>1, <2>1, <2>2 DEF ApprovalInv, OnRecord, FormerTags, NoMarksYet, KnownActive, NotPaused
  <2>4. ASSUME Undecided
        PROVE  /\ ~rec'.hold => ro.stable # 0
               /\ cro.exists /\ cro.full /\ cro.stable # 0 => ~rec'.hold
    <3>1. rec.seen.strategy = "canary" /\ rec.seen.status.active = app.status.active
      BY <1>1, <2>4, UndecidedReconcile
    <3>2. ~ShouldHold(rec.seen) => cro.stable # 0
      BY <2>4, <3>1 DEF ShouldHold, Undecided
    <3>3. cro.stable # 0 => ro.stable # 0
      BY <2>4 DEF TrafficInv, Lasting, Undecided
    <3>. QED
      BY <2>1, <3>1, <3>2, <3>3 DEF ShouldHold
  <2>5. Analysed'
    BY <1>1, <2>1, <2>2, <2>4 DEF ApprovalInv, Analysed, Undecided, Between, BothWritten,
                                  PodsAhead, Awaits, RolloutHealthy
  <2>. QED
    BY <2>3, <2>5 DEF ApprovalInv
<1>. QED
  BY <1>2, <1>3 DEF Admit

\* Under the canary strategy there is nothing to freeze.
LEMMA FreezeApproval ==
  ASSUME TypeOK, TrafficInv, ApprovalInv, FreezeRollout
  PROVE  ApprovalInv'
<1>1. /\ rec.pc = "freeze" /\ rec'.pc = "deployment"
      /\ rec'.seen = rec.seen /\ rec'.hold = rec.hold /\ rec'.desired = rec.desired
      /\ UNCHANGED <<app, cached, dep, cro, history>>
      /\ ro'.exists = ro.exists /\ ro'.stable = ro.stable /\ ro'.target = ro.target
      /\ ro'.arg = ro.arg
  BY Fields DEF FreezeRollout, Reconcile, Rollout
<1>2. rec.seen.strategy = "rolling"
  BY <1>1, Fields DEF TrafficInv, CanarySteps, Reconciling
<1>3. app.strategy = "canary" => ~ro.exists
  BY <1>1, <1>2 DEF TrafficInv, Changing, Reconciling
<1>4. Cleared' = Cleared /\ Marks' = Marks /\ Behind' = Behind
  BY <1>1 DEF Cleared, Marks, Behind, history
<1>5. OnRecord' /\ FormerTags' /\ NoMarksYet' /\ KnownActive' /\ NotPaused'
  BY <1>1, <1>3, <1>4 DEF ApprovalInv, OnRecord, FormerTags, NoMarksYet, KnownActive, NotPaused
<1>6. ~Undecided
  BY <1>1, <1>2, UndecidedReconcile
<1>7. Analysed'
  BY <1>1, <1>4, <1>6 DEF Analysed, Undecided
<1>. QED
  BY <1>5, <1>7 DEF ApprovalInv

\* What a reconcile writes is the desired version, or a cleared one; the desired
\* one only when neither the cache nor the reconcile is behind.
LEMMA WritesKnown ==
  ASSUME TypeOK, TrafficInv, ApprovalInv, rec.pc # "idle"
  PROVE  /\ rec.seen.tag \in Cleared \cup {app.tag}
         /\ rec.seen.status.active \in Cleared \cup {0}
         /\ app.tag \notin Cleared /\ Behind =>
              rec.seen.tag # app.tag /\ rec.seen.status.active # app.tag
<1>1. app.tag # 0
  BY TagsAreVersions
<1>2. Behind => rec.seen.gen # app.gen
  BY Fields DEF TrafficInv, Generations, Behind
<1>. QED
  BY <1>1, <1>2 DEF ApprovalInv, OnRecord, FormerTags

\* The Deployment gets the version of a canary unless it is held.
LEMMA DeploymentApproval ==
  ASSUME TypeOK, TrafficInv, ApprovalInv, ApplyDeployment
  PROVE  ApprovalInv'
<1>1. /\ rec.pc = "deployment" /\ rec'.pc = "service"
      /\ rec'.seen = rec.seen /\ rec'.hold = rec.hold
      /\ UNCHANGED <<app, cached, ro, cro, history>>
  BY Fields DEF ApplyDeployment, Reconcile
<1>2. /\ dep'.ver = IF rec.hold THEN rec.seen.status.active ELSE rec.seen.tag
      /\ dep'.podVer = dep.podVer
  BY Fields DEF ApplyDeployment, DesiredDeployment, Deployment
<1>3. Cleared' = Cleared /\ Behind' = Behind /\ Marks' \subseteq Marks \cup {dep'.ver}
  BY <1>1, <1>2 DEF Cleared, Behind, Marks, history
<1>4. /\ dep'.ver \in Cleared \cup {0, app.tag}
      /\ app.tag \notin Cleared /\ Behind => dep'.ver # app.tag
  BY <1>1, <1>2, WritesKnown
<1>5. OnRecord' /\ NoMarksYet'
  BY <1>1, <1>3, <1>4 DEF ApprovalInv, OnRecord, NoMarksYet
<1>6. FormerTags' /\ KnownActive' /\ NotPaused'
  BY <1>1, <1>3 DEF ApprovalInv, FormerTags, KnownActive, NotPaused
<1>7. ASSUME Undecided
      PROVE  dep'.ver = app.tag <=> ~rec.hold
  <2>1. rec.seen.tag = app.tag /\ rec.seen.status.active = app.status.active
    BY <1>1, <1>7, UndecidedReconcile
  <2>2. app.status.active # app.tag
    BY <1>7, TagsAreVersions DEF Undecided, ApprovalInv, OnRecord
  <2>. QED
    BY <1>2, <2>1, <2>2
<1>8. Analysed'
  <2>1. Undecided' = Undecided /\ ~Between /\ Between'
    BY <1>1, <1>3 DEF Undecided, Between
  <2>2. SUFFICES ASSUME Undecided PROVE Analysed'
    BY <2>1 DEF Analysed
  <2>3. BothWritten
    BY <2>1, <2>2 DEF ApprovalInv, Analysed
  <2>4. HalfWritten'
    BY <1>1, <1>7, <2>2, <2>3 DEF HalfWritten, BothWritten, Awaits, RolloutHealthy
  <2>5. PodsAhead' = PodsAhead /\ (Awaits(ro))' = Awaits(ro)
    BY <1>1, <1>2 DEF PodsAhead, Awaits, RolloutHealthy
  <2>. QED
    BY <1>1, <2>1, <2>2, <2>4, <2>5 DEF ApprovalInv, Analysed, RolloutHealthy
<1>. QED
  BY <1>5, <1>6, <1>8 DEF ApprovalInv

\* The Services are written between the Deployment and the Rollout.
LEMMA ServicesApproval ==
  ASSUME TypeOK, TrafficInv, ApprovalInv, ApplyService \/ ApplyCanaryServices
  PROVE  ApprovalInv'
<1>1. /\ rec.pc \in {"service", "services"} /\ rec'.seen = rec.seen /\ rec'.hold = rec.hold
      /\ rec'.pc \in {"services", "rollout", "route"}
      /\ rec.seen.strategy = "canary" => rec'.pc # "route"
      /\ UNCHANGED <<app, cached, dep, ro, cro, history>>
  BY Fields DEF ApplyService, ApplyCanaryServices, Reconcile
<1>2. Cleared' = Cleared /\ Marks' = Marks /\ Behind' = Behind
  BY <1>1 DEF Cleared, Marks, Behind, history
<1>3. OnRecord' /\ FormerTags' /\ NoMarksYet' /\ KnownActive' /\ NotPaused'
  BY <1>1, <1>2 DEF ApprovalInv, OnRecord, FormerTags, NoMarksYet, KnownActive, NotPaused
<1>4. Undecided => Between /\ Between'
  BY <1>1, UndecidedReconcile DEF Between
<1>5. Analysed'
  BY <1>1, <1>2, <1>4 DEF ApprovalInv, Analysed, Undecided, HalfWritten, PodsAhead, Awaits,
                          RolloutHealthy
<1>. QED
  BY <1>3, <1>5 DEF ApprovalInv

\* The Rollout gets the steps that analyse the version that the Deployment has.
LEMMA RolloutApproval ==
  ASSUME TypeOK, TrafficInv, ApprovalInv, ApplyRollout
  PROVE  ApprovalInv'
<1>1. /\ rec.pc = "rollout" /\ rec'.pc = "route"
      /\ rec'.seen = rec.seen /\ rec'.hold = rec.hold
      /\ UNCHANGED <<app, cached, dep, cro, history>>
  BY Fields DEF ApplyRollout, Reconcile
<1>2. /\ ro'.exists /\ ro'.full = ~rec.hold /\ ~ro'.paused
      /\ ro'.arg = IF rec.hold THEN 0 ELSE rec.seen.tag
      /\ ro'.stable = ro.stable /\ ro'.target = ro.target /\ ro'.candidate = ro.candidate
      /\ ro' = ro \/ ~ro'.observed
  BY Fields DEF ApplyRollout, DesiredRollout, Rollout
<1>3. Cleared' = Cleared /\ Behind' = Behind /\ Marks' \subseteq Marks \cup {ro'.arg}
  BY <1>1, <1>2 DEF Cleared, Behind, Marks, history
<1>4. /\ ro'.arg \in Cleared \cup {0, app.tag}
      /\ app.tag \notin Cleared /\ Behind => ro'.arg # app.tag
  BY <1>1, <1>2, WritesKnown, TagsAreVersions
<1>5. OnRecord' /\ NoMarksYet'
  BY <1>1, <1>3, <1>4 DEF ApprovalInv, OnRecord, NoMarksYet
<1>6. FormerTags' /\ KnownActive' /\ NotPaused'
  BY <1>1, <1>2, <1>3 DEF ApprovalInv, FormerTags, KnownActive, NotPaused
<1>7. Analysed'
  <2>1. Undecided' = Undecided /\ Between /\ ~Between'
    BY <1>1, <1>3 DEF Undecided, Between
  <2>2. SUFFICES ASSUME Undecided PROVE Analysed'
    BY <2>1 DEF Analysed
  <2>3. /\ HalfWritten /\ ro.stable # app.tag
        /\ ~rec.hold => ro.stable # 0
        /\ PodsAhead => /\ ~rec.hold
                        /\ cro.exists /\ cro.full /\ cro.stable # 0 /\ ~RolloutHealthy(cro)
    BY <1>1, <2>1, <2>2 DEF ApprovalInv, Analysed
  <2>4. rec.seen.tag = app.tag /\ app.tag # 0
    BY <1>1, <2>2, UndecidedReconcile, TagsAreVersions
  <2>5. ~rec.hold => (Awaits(ro))'
    BY <1>1, <1>2, <2>3, <2>4 DEF HalfWritten, Awaits, RolloutHealthy
  <2>6. BothWritten'
    BY <1>1, <1>2, <2>3, <2>4, <2>5 DEF HalfWritten, BothWritten
  <2>7. PodsAhead' = PodsAhead
    BY <1>1, <1>2 DEF PodsAhead
  <2>. QED
    BY <1>1, <1>2, <2>1, <2>3, <2>5, <2>6, <2>7 DEF Analysed, RolloutHealthy
<1>. QED
  BY <1>5, <1>6, <1>7 DEF ApprovalInv

\* A version is proven by ready pods that run it.
LEMMA ProvenStatusProves ==
  ASSUME NEW d \in Application, ~PinnedImages
  PROVE  \/ ProvenStatus(d).active = d.status.active
         \/ ProvenStatus(d).active = d.tag /\ d.tag \in ReadyPods
<1>1. /\ BaseStatus(d, "Progressing").active = d.status.active
      /\ DegradedStatus(d).active = d.status.active
      /\ \A digest : HealthyStatus(d, digest).active = d.tag
  BY BaseStatusNames DEF DegradedStatus, HealthyStatus
<1>2. Digests(d) # {} => d.tag \in ReadyPods
  BY DEF Digests
<1>. QED
  BY <1>1, <1>2 DEF ProvenStatus

LEMMA CanaryStatusProves ==
  ASSUME NEW d \in Application, NEW migrating, NEW rt, ~PinnedImages
  PROVE  \/ CanaryStatus(d, migrating, rt).active = d.status.active
         \/ /\ CanaryStatus(d, migrating, rt).active = d.tag
            /\ RolloutHealthy(cro) /\ d.tag \in ReadyPods
<1>1. /\ \A phase : BaseStatus(d, phase).active = d.status.active
      /\ DegradedStatus(d).active = d.status.active
      /\ MigrationStatus(d).active = d.status.active
      /\ \/ ProvenStatus(d).active = d.status.active
         \/ ProvenStatus(d).active = d.tag /\ d.tag \in ReadyPods
  BY BaseStatusNames, ProvenStatusProves DEF DegradedStatus, MigrationStatus
<1>. QED
  BY <1>1 DEF CanaryStatus

\* When the cache shows a healthy Rollout, no pod of an undecided canary is ready.
LEMMA CanaryRouteApproval ==
  ASSUME TypeOK, TrafficInv, ApprovalInv, ~PinnedImages, CanaryRoute
  PROVE  ApprovalInv'
<1>1. /\ rec.pc = "route" /\ ~Between /\ rec.seen.strategy = "canary"
      /\ UNCHANGED <<app, cached, dep, ro, cro, history>>
  BY DEF CanaryRoute, Between
<1>2. /\ Concluded
      /\ \/ rec'.desired.active = rec.seen.status.active
         \/ /\ rec'.desired.active = rec.seen.tag
            /\ RolloutHealthy(cro) /\ rec.seen.tag \in ReadyPods
  <2> DEFINE migrating == \/ route'.backend # "canary"
                          \/ rec.seen.status.active # 0 /\ route'.accepted # "accepted"
  <2>1. Conclude(CanaryStatus(rec.seen, migrating, route'))
    BY DEF CanaryRoute
  <2> HIDE DEF migrating
  <2> DEFINE status == CanaryStatus(rec.seen, migrating, route')
  <2>2. /\ status.gen = rec.seen.gen
        /\ \/ status.active = rec.seen.status.active
           \/ /\ status.active = rec.seen.tag
              /\ RolloutHealthy(cro) /\ rec.seen.tag \in ReadyPods
    BY Fields, CanaryStatusNames, CanaryStatusProves
  <2> HIDE DEF status
  <2>3. Conclude(status)
    BY <2>1 DEF status
  <2>. QED
    BY <2>2, <2>3, ConcludeConcludes
<1>3. ASSUME RolloutHealthy(cro), rec.seen.tag \in ReadyPods,
             rec.seen.tag \notin Cleared, app.status.active # 0
      PROVE  FALSE
  <2>1. rec.seen.gen = app.gen /\ rec.seen.tag = app.tag
    BY <1>1, <1>3 DEF ApprovalInv, FormerTags
  <2>2. cached.gen = app.gen /\ app.strategy = "canary"
    BY <1>1, <2>1, Fields DEF TrafficInv, Generations
  <2>3. Undecided
    BY <1>3, <2>1, <2>2 DEF Undecided, Behind
  <2>4. ro.stable # app.tag /\ ~PodsAhead
    BY <1>3, <2>3 DEF ApprovalInv, Analysed
  <2>. QED
    BY <1>3, <2>1, <2>4 DEF ReadyPods, PodsAhead
<1>. QED
  BY <1>1, <1>2, <1>3, ConcludedApproval

\* The steps of a rolling reconcile leave no mark, and the patch approves what
\* they claim.
LEMMA RollingApproval ==
  ASSUME TypeOK, TrafficInv, ApprovalInv,
         RollingRoute \/ CutoverDrain \/ DropServices \/ CleanupDrain \/ DropRollout
  PROVE  ApprovalInv'
<1>1. /\ rec.pc \notin {"idle", "status"} /\ rec.seen.strategy = "rolling"
      /\ UNCHANGED <<app, cached, dep, history>>
      /\ ro' = ro \/ ro' = NoRollout
  BY Fields DEF RollingRoute, CutoverDrain, DropServices, CleanupDrain, DropRollout,
                TrafficInv, CanarySteps, Reconciling
<1>2. /\ rec'.seen = rec.seen /\ rec'.pc # "idle"
      /\ rec'.pc = "status" =>
           rec'.desired.active \in {rec.seen.status.active, rec.seen.tag}
  <2>1. CASE DropServices
    BY <2>1, Fields DEF DropServices, Reconcile
  <2>2. CASE RollingRoute \/ CutoverDrain \/ CleanupDrain \/ DropRollout
    BY <2>2, RollingRouteStep, CutoverDrainStep, CleanupDrainStep, DropRolloutStep
       DEF Reported, Tells, Kept, Renewed
  <2>. QED
    BY <2>1, <2>2
<1>3. Cleared' = Cleared /\ Behind' = Behind /\ Marks' \subseteq Marks \cup {0}
  BY <1>1, <1>2 DEF Cleared, Behind, Marks, NoRollout, history
<1>4. OnRecord'
  BY <1>1, <1>2, <1>3 DEF ApprovalInv, OnRecord
<1>5. NoMarksYet'
  BY <1>1, <1>3, TagsAreVersions DEF ApprovalInv, NoMarksYet
<1>6. FormerTags' /\ KnownActive' /\ NotPaused'
  BY <1>1, <1>2, <1>3 DEF ApprovalInv, FormerTags, KnownActive, NotPaused, NoRollout
<1>7. Analysed'
  BY <1>1, <1>3, UndecidedReconcile DEF Analysed, Undecided
<1>. QED
  BY <1>4, <1>5, <1>6, <1>7 DEF ApprovalInv

\* The patch approves a first release and a rolling one; a canary's reconcile has
\* nothing to patch but the active version it knows.
LEMMA PatchApproval ==
  ASSUME TypeOK, TrafficInv, ApprovalInv, PatchStatus
  PROVE  ApprovalInv'
<1>1. /\ UNCHANGED <<cached, dep, ro, cro>>
      /\ rec.pc = "status" /\ rec'.pc = "idle"
      /\ app'.gen = app.gen /\ app'.strategy = app.strategy /\ app'.tag = app.tag
  BY PatchStatusStep DEF PatchStatus, childVars, Idle, TypeOK, Application
<1>2. \/ app'.status.active = app.status.active
      \/ /\ cached.gen = rec.seen.gen
         /\ app'.status.active = rec.desired.active
         /\ rec.desired.active # cached.status.active
  BY <1>1, PatchedActive DEF TrafficInv, Generations
<1>3. /\ Cleared \subseteq Cleared'
      /\ app.status.active = 0 \/ rec.seen.strategy = "rolling" =>
           app'.status.active \in Cleared' \cup {0}
  BY DEF PatchStatus, Approves, Cleared
<1>4. Marks' = Marks /\ (Behind' => Behind)
  BY <1>1 DEF Marks, Behind
<1>5. app.tag # 0
  BY TagsAreVersions
<1>6. OnRecord'
  BY <1>1, <1>2, <1>3, <1>4 DEF ApprovalInv, OnRecord
<1>7. FormerTags' /\ NoMarksYet' /\ NotPaused'
  BY <1>1, <1>3, <1>4 DEF ApprovalInv, FormerTags, NoMarksYet, NotPaused
<1>8. ASSUME app.tag \notin Cleared', cached.gen = app.gen
      PROVE  app'.status.active = app.status.active
  <2> SUFFICES ASSUME app'.status.active # app.status.active PROVE FALSE
    OBVIOUS
  <2>1. rec.seen.gen = app.gen /\ app'.status.active = rec.desired.active
    BY <1>2, <1>8
  <2>2. rec.desired.active = app.tag
    BY <1>1, <1>2, <1>3, <1>8, <2>1 DEF ApprovalInv, KnownActive
  <2>3. app.status.active = 0 \/ rec.seen.strategy = "rolling"
    BY <1>1, <1>3, <1>5, <1>8, <2>2 DEF ApprovalInv, OnRecord
  <2>. QED
    BY <1>3, <1>5, <1>8, <2>1, <2>2, <2>3
<1>9. KnownActive'
  BY <1>1, <1>3, <1>8 DEF ApprovalInv, KnownActive
<1>10. Analysed'
  <2>1. SUFFICES ASSUME Undecided' PROVE Analysed'
    BY DEF Analysed
  <2>2. /\ app.strategy = "canary" /\ app.tag \notin Cleared' /\ cached.gen = app.gen
        /\ app.status.active # 0
    BY <1>1, <1>8, <2>1 DEF Undecided, Behind
  <2>3. app.tag \notin Cleared
    BY <1>3, <2>2
  <2>4. CASE Behind
    <3>1. app.tag \notin Marks
      BY <2>3, <2>4 DEF ApprovalInv, NoMarksYet
    <3>. QED
      BY <1>1, <3>1 DEF Analysed, Between, BothWritten, PodsAhead, Marks
  <2>5. CASE ~Behind
    <3>1. Undecided /\ ~Between
      BY <1>1, <2>2, <2>3, <2>5 DEF Undecided, Between
    <3>. QED
      BY <1>1, <3>1 DEF ApprovalInv, Analysed, Between, BothWritten, PodsAhead, Awaits,
                        RolloutHealthy
  <2>. QED
    BY <2>4, <2>5
<1>. QED
  BY <1>6, <1>7, <1>9, <1>10 DEF ApprovalInv

\* A reconcile that ends between its writes interrupts the release.
LEMMA FailureApproval ==
  ASSUME TypeOK, TrafficInv, ApprovalInv, Failure
  PROVE  ApprovalInv'
<1>1. CASE DeploymentStalls \/ RouteRejected
  <2>1. /\ UNCHANGED <<app, cached, ro, cro, rec, history>>
        /\ dep'.ver = dep.ver /\ dep'.podVer = dep.podVer
    BY <1>1, Fields DEF DeploymentStalls, RouteRejected, Deployment
  <2>. QED
    BY <2>1, SameApproval
<1>2. CASE Interrupt \/ WriteError
  <2>1. /\ UNCHANGED <<app, cached, dep, ro, cro>>
        /\ rec.pc # "idle" /\ Interrupts(Written)
    BY <1>2 DEF Interrupt, WriteError, childVars
  <2>2. \/ rec'.pc = "idle"
        \/ /\ rec'.pc = "status" /\ rec'.seen = rec.seen /\ rec'.hold = rec.hold
           /\ rec'.desired.active = rec.seen.status.active
    <3>1. DegradedStatus(rec.seen).active = rec.seen.status.active
      BY Fields, BaseStatusNames DEF DegradedStatus
    <3>2. CASE Interrupt
      BY <3>2 DEF Interrupt, Finish, Idle
    <3>3. CASE WriteError
      BY <3>1, <3>3, Fields DEF WriteError, Return, Reconcile
    <3>. QED
      BY <1>2, <3>2, <3>3
  <2>3. Cleared \subseteq Cleared' /\ (Between => rec.seen.tag \in Cleared')
    BY <2>1 DEF Interrupts, Written, Cleared, Between
  <2>4. Marks' = Marks /\ (Behind' => Behind)
    BY <2>1, <2>2 DEF Marks, Behind
  <2>5. OnRecord'
    BY <2>1, <2>2, <2>3, <2>4 DEF ApprovalInv, OnRecord
  <2>6. FormerTags' /\ NoMarksYet' /\ KnownActive' /\ NotPaused'
    BY <2>1, <2>2, <2>3, <2>4
       DEF ApprovalInv, FormerTags, NoMarksYet, KnownActive, NotPaused
  <2>7. Analysed'
    <3>1. SUFFICES ASSUME Undecided' PROVE Analysed'
      BY DEF Analysed
    <3>2. /\ app.strategy = "canary" /\ app.status.active # 0 /\ app.tag \notin Cleared
      BY <2>1, <2>3, <3>1 DEF Undecided
    <3>3. CASE Behind
      <4>1. app.tag \notin Marks
        BY <3>2, <3>3 DEF ApprovalInv, NoMarksYet
      <4>. QED
        BY <2>1, <2>2, <4>1 DEF Analysed, Between, BothWritten, PodsAhead, Marks
    <3>4. CASE ~Behind
      <4>1. Undecided
        BY <3>2, <3>4 DEF Undecided
      <4>2. ~Between
        BY <2>1, <2>3, <3>1, <4>1, UndecidedReconcile DEF Undecided
      <4>. QED
        BY <2>1, <2>2, <4>1, <4>2 DEF ApprovalInv, Analysed, Between, BothWritten, PodsAhead,
                                      Awaits, RolloutHealthy
    <3>. QED
      BY <3>3, <3>4
  <2>. QED
    BY <2>5, <2>6, <2>7 DEF ApprovalInv
<1>. QED
  BY <1>1, <1>2 DEF Failure

\* Pods of the desired version start when no reconcile is in progress and the
\* cache shows the Rollout that awaits them.
LEMMA PodsApproval ==
  ASSUME TypeOK, ApprovalInv, SlowPods, DeploymentRolls
  PROVE  ApprovalInv'
<1>1. /\ UNCHANGED <<app, cached, ro, cro, rec, history>>
      /\ dep'.ver = dep.ver
      /\ \/ dep'.podVer = 0
         \/ dep'.podVer = dep.ver /\ rec.pc = "idle" /\ cro = ro
  BY Fields DEF DeploymentRolls, PodsStart, Deployment
<1>2. Cleared' = Cleared /\ Behind' = Behind /\ Marks' \subseteq Marks \cup {0}
  BY <1>1 DEF Cleared, Behind, Marks, history
<1>3. OnRecord' /\ FormerTags' /\ NoMarksYet' /\ KnownActive' /\ NotPaused'
  BY <1>1, <1>2, TagsAreVersions
     DEF ApprovalInv, OnRecord, FormerTags, NoMarksYet, KnownActive, NotPaused
<1>4. Analysed'
  <2>1. Undecided' = Undecided /\ Between' = Between /\ (Awaits(ro))' = Awaits(ro)
    BY <1>1, <1>2 DEF Undecided, Between, Awaits, RolloutHealthy
  <2>2. HalfWritten' = HalfWritten /\ BothWritten' = BothWritten
    BY <1>1 DEF HalfWritten, BothWritten, Awaits, RolloutHealthy
  <2>3. SUFFICES ASSUME Undecided PROVE Analysed'
    BY <2>1 DEF Analysed
  <2>4. PodsAhead' => \/ PodsAhead
                      \/ dep.ver = app.tag /\ rec.pc = "idle" /\ cro = ro
    BY <1>1, TagsAreVersions DEF PodsAhead
  <2>5. ASSUME dep.ver = app.tag, rec.pc = "idle", cro = ro
        PROVE  /\ Awaits(ro)
               /\ cro.exists /\ cro.full /\ cro.stable # 0 /\ ~RolloutHealthy(cro)
    BY <2>3, <2>5 DEF ApprovalInv, Analysed, Between, BothWritten, Awaits
  <2>. QED
    BY <1>1, <2>1, <2>2, <2>3, <2>4, <2>5 DEF ApprovalInv, Analysed, RolloutHealthy
<1>. QED
  BY <1>3, <1>4 DEF ApprovalInv

\* The Rollout takes the Deployment's version as its target, and analyses it when
\* it is full; a stable version that no analysis proved is not the desired one.
LEMMA RolloutsApproval ==
  ASSUME TypeOK, ApprovalInv, SlowPods,
         \/ RolloutObserves \/ RolloutPauses \/ RolloutRolls \/ CanaryStarts
         \/ CanaryPasses \/ CanaryFails
  PROVE  ApprovalInv'
<1>1. /\ UNCHANGED <<app, cached, dep, cro, rec>>
      /\ ro'.exists = ro.exists /\ ro'.full = ro.full /\ ro'.paused = ro.paused
      /\ ro'.arg = ro.arg
  BY Fields DEF RolloutObserves, RolloutPauses, RolloutRolls, CanaryStarts, CanaryPasses,
                CanaryFails, Rollout
<1>2. /\ ro'.stable \in {ro.stable, ro.target} /\ ro'.target \in {ro.target, dep.ver}
      /\ Cleared' = Cleared \/ Cleared' = Cleared \cup {ro.target}
  BY Fields DEF RolloutObserves, RolloutPauses, RolloutRolls, CanaryStarts, CanaryPasses,
                CanaryFails, Approves, Cleared, Rollout, history
<1>3. Behind' = Behind /\ Marks' \subseteq Marks
  BY <1>1, <1>2 DEF Behind, Marks
<1>4. OnRecord' /\ FormerTags' /\ NoMarksYet' /\ KnownActive' /\ NotPaused'
  BY <1>1, <1>2, <1>3 DEF ApprovalInv, OnRecord, FormerTags, NoMarksYet, KnownActive, NotPaused
<1>5. Undecided' => Undecided
  BY <1>1, <1>2, <1>3 DEF Undecided
<1>6. SUFFICES ASSUME Undecided, Undecided' PROVE Analysed'
  BY <1>4, <1>5 DEF ApprovalInv, Analysed
<1>7. /\ ro.stable # app.tag
      /\ Between => HalfWritten
      /\ ~Between => BothWritten
      /\ (Between \/ rec.pc = "deployment") /\ ~rec.hold => ro.stable # 0
      /\ PodsAhead =>
           /\ Awaits(ro)
           /\ cro.exists /\ cro.full /\ cro.stable # 0 /\ ~RolloutHealthy(cro)
           /\ rec.pc # "idle" => ~rec.hold
  BY <1>6 DEF ApprovalInv, Analysed
<1>8. app.tag # 0 /\ Between' = Between
  BY <1>1, TagsAreVersions DEF Between
<1>9. PodsAhead => dep.ver = app.tag
  BY <1>7 DEF HalfWritten, BothWritten, Awaits, Between
<1>10. CASE RolloutObserves
  <2>1. /\ ro'.stable = ro.stable /\ ro'.target = dep.ver /\ ~ro'.candidate
        /\ dep.ver = app.tag => ~RolloutHealthy(ro')
    BY <1>7, <1>10, Fields DEF RolloutObserves, RolloutHealthy, Rollout
  <2>2. dep.ver = app.tag /\ Awaits(ro) => (Awaits(ro))'
    BY <1>1, <2>1 DEF Awaits, RolloutHealthy
  <2>3. Between => HalfWritten'
    BY <1>1, <1>7, <2>1 DEF HalfWritten, RolloutHealthy
  <2>4. ~Between => BothWritten'
    BY <1>1, <1>7, <2>1, <2>2 DEF BothWritten
  <2>5. PodsAhead' => PodsAhead
    BY <1>1, <2>1 DEF PodsAhead
  <2>. QED
    BY <1>1, <1>7, <1>8, <1>9, <2>1, <2>2, <2>3, <2>4, <2>5 DEF Analysed, RolloutHealthy
<1>11. CASE RolloutPauses
  BY <1>6, <1>11 DEF RolloutPauses, ApprovalInv, NotPaused, Undecided
<1>12. CASE RolloutRolls
  <2>1. /\ rec.pc = "idle" /\ ~Between
        /\ ro.observed /\ (ro.stable = 0 \/ ~ro.full)
        /\ ro'.stable = ro.target /\ ro'.target = ro.target /\ ro'.candidate = ro.candidate
        /\ ro'.observed = ro.observed
    BY <1>12, Fields DEF RolloutRolls, Updating, PodsStart, Between, Rollout
  <2>2. dep.ver # app.tag
    BY <1>7, <2>1 DEF BothWritten, Awaits
  <2>3. ro.target # app.tag /\ ~PodsAhead
    BY <1>7, <1>9, <2>1, <2>2 DEF BothWritten
  <2>4. BothWritten' /\ ~PodsAhead'
    BY <1>1, <1>7, <2>1, <2>2, <2>3 DEF BothWritten, PodsAhead
  <2>. QED
    BY <1>1, <1>8, <2>1, <2>3, <2>4 DEF Analysed
<1>13. CASE CanaryStarts
  <2>1. /\ rec.pc = "idle" /\ cro = ro /\ ~Between /\ ro.observed
        /\ ro'.stable = ro.stable /\ ro'.target = ro.target
        /\ ro'.observed = ro.observed /\ ro'.phase = ro.phase
    BY <1>13, Fields DEF CanaryStarts, Updating, PodsStart, Between, Rollout
  <2>2. (Awaits(ro))' = Awaits(ro)
    BY <1>1, <2>1 DEF Awaits, RolloutHealthy
  <2>3. BothWritten'
    BY <1>1, <1>7, <2>1, <2>2 DEF BothWritten
  <2>4. PodsAhead' => PodsAhead \/ ro.target = app.tag
    BY <1>1, <2>1 DEF PodsAhead
  <2>5. PodsAhead' => Awaits(ro)
    BY <1>7, <2>1, <2>4 DEF BothWritten
  <2>. QED
    BY <1>1, <1>7, <1>8, <2>1, <2>2, <2>3, <2>5 DEF Analysed, Awaits
<1>14. CASE CanaryPasses
  <2>1. /\ ro'.stable = ro.target /\ ro'.target = ro.target /\ ~ro'.candidate
        /\ ro'.observed = ro.observed
        /\ ro.target # 0 /\ ro.arg = ro.target /\ ro.target # app.tag
    BY <1>6, <1>14, Fields DEF CanaryPasses, Updating, Approves, Cleared, Undecided, Rollout
  <2>2. ~PodsAhead /\ (~Between => dep.ver # app.tag)
    BY <1>7, <2>1 DEF BothWritten, Awaits
  <2>3. ~PodsAhead'
    BY <1>1, <2>1, <2>2 DEF PodsAhead
  <2>4. /\ Between => HalfWritten'
        /\ ~Between => BothWritten'
    BY <1>1, <1>7, <2>1, <2>2 DEF HalfWritten, BothWritten
  <2>. QED
    BY <1>1, <1>8, <2>1, <2>3, <2>4 DEF Analysed
<1>15. CASE CanaryFails
  <2>1. /\ ro'.stable = ro.stable /\ ro'.target = ro.target /\ ~ro'.candidate
        /\ ro'.observed = ro.observed /\ ro'.phase = "Degraded"
    BY <1>15, Fields DEF CanaryFails, Rollout
  <2>2. Awaits(ro) => (Awaits(ro))'
    BY <1>1, <2>1 DEF Awaits, RolloutHealthy
  <2>3. PodsAhead' => PodsAhead
    BY <1>1, <2>1 DEF PodsAhead
  <2>4. /\ Between => HalfWritten'
        /\ ~Between => BothWritten'
    BY <1>1, <1>7, <2>1, <2>2 DEF HalfWritten, BothWritten, RolloutHealthy
  <2>. QED
    BY <1>1, <1>7, <1>8, <2>1, <2>2, <2>3, <2>4 DEF Analysed, RolloutHealthy
<1>. QED
  BY <1>10, <1>11, <1>12, <1>13, <1>14, <1>15

\* Envoy, timers, weights and the Deployment's replicas leave no marks.
LEMMA PlatformApproval ==
  ASSUME TypeOK, ApprovalInv,
         \/ RouteAccepted \/ ProxyConverges \/ ConnectionsDrain
         \/ CutoverElapses \/ CleanupElapses \/ WeightsReturn \/ ScaleDownWorkload
         \/ UNCHANGED vars
  PROVE  ApprovalInv'
<1>1. /\ UNCHANGED <<app, cached, ro, cro, rec, history>>
      /\ dep'.ver = dep.ver /\ dep'.podVer = dep.podVer
  BY Fields DEF RouteAccepted, ProxyConverges, ConnectionsDrain, CutoverElapses,
                CleanupElapses, WeightsReturn, ScaleDownWorkload, vars, childVars, history,
                Deployment
<1>. QED
  BY <1>1, SameApproval

\* The behaviours the property is about.
Ordered == SlowPods /\ ~EagerEdits /\ ~PinnedImages

LEMMA StepApproval ==
  ASSUME TypeOK, DrainInv, StatusInv, Traffic, Ordered => ApprovalInv,
         [Next]_vars
  PROVE  (Ordered => ApprovalInv)'
<1>1. limits' = limits
  BY StatusFrame, PatchStatusKeeps
<1>2. SUFFICES ASSUME SlowPods, ~EagerEdits, ~PinnedImages, TrafficInv, ApprovalInv
               PROVE  ApprovalInv'
  BY <1>1 DEF Traffic, Ordered, SlowPods, EagerEdits, PinnedImages
<1>. QED
  BY <1>2, EditApproval, WatchApproval, WatchRolloutApproval, StartApproval, AdmitApproval,
     FreezeApproval, DeploymentApproval, ServicesApproval, RolloutApproval,
     CanaryRouteApproval, RollingApproval, PatchApproval, FailureApproval, PodsApproval,
     RolloutsApproval, PlatformApproval
     DEF Next, Controller, Progress

\* A version becomes active without having passed its analysis only as the first
\* release, under the rolling strategy, or when its release was interrupted before:
\* the order of the controller's writes and the lagging copies it reads do not let
\* one through, if pods start after the reconcile that asked for them.
THEOREM ApprovedIsAnalysed == Spec => []ApprovedUnlessInterrupted
<1> DEFINE Inv == /\ TypeOK /\ DrainInv /\ StatusInv
                  /\ Traffic
                  /\ Ordered => ApprovalInv
<1>1. Init => Inv
  BY InitType, InitDrain, InitStatus, InitInOrder, InitApproval
<1>2. Inv /\ [Next]_vars => Inv'
  BY StepType, StepDrain, StepStatus, StepTraffic, StepApproval
<1>3. Inv => ApprovedUnlessInterrupted
  BY DEF Ordered, ApprovalInv, OnRecord, Cleared, ApprovedUnlessInterrupted
<1>. QED
  BY <1>1, <1>2, <1>3, PTL DEF Spec

=============================================================================
