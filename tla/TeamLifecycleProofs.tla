------------------------ MODULE TeamLifecycleProofs ------------------------
(***************************************************************************)
(* Proofs about TeamLifecycle, for every value of its constants.           *)
(***************************************************************************)
EXTENDS TeamLifecycle, TLAPS

-----------------------------------------------------------------------------
(* Lemmas on the data the controller builds *)

\* The initial values have their types, and Foreign is nobody's UID.
LEMMA InitialValues ==
  /\ NoStatus \in Status /\ NoTeam \in Team
  /\ NoNamespace \in Namespace /\ NoObject \in LayerObject
  /\ NoDatabase \in Database
  /\ Idle \in Reconcile
  /\ 0 \in Uid /\ Foreign \in Owner /\ Foreign \notin Uid /\ Uid \subseteq Owner
<1>1. NoStatus \in Status
  BY DEF NoStatus, Status, Reason
<1>2. 0 \in Uid /\ Foreign \in Owner /\ Foreign \notin Uid /\ Uid \subseteq Owner
  BY BoundsAssumption DEF Uid, Owner, Foreign
<1>3. NoTeam \in Team
  BY <1>1, <1>2 DEF NoTeam, Team
<1>4. NoNamespace \in Namespace /\ NoObject \in LayerObject
  BY <1>2 DEF NoNamespace, Namespace, NoObject, LayerObject
<1>5. NoDatabase \in Database
  BY DEF NoDatabase, Database, Presence, Hold
<1>6. Idle \in Reconcile
  BY <1>1, <1>3 DEF Idle, Reconcile, StepName, Stage
<1>. QED
  BY <1>1, <1>2, <1>3, <1>4, <1>5, <1>6

\* Every status the controller reports is well formed.
LEMMA ReportType ==
  ASSUME NEW d \in Team
  PROVE  /\ ReadyStatus(d) \in Status
         /\ InvalidStatus(d) \in Status
         /\ TerminatingStatus(d) \in Status
         /\ \A stage \in Stage, reason \in Reason :
              FailedStatus(d, stage, reason) \in Status
BY DEF ReadyStatus, InvalidStatus, TerminatingStatus, FailedStatus, Report,
       Team, Status, Reason, Stage

\* Reporting a failure leads to the status step, and then back to idle.
LEMMA ReconcileFailureType ==
  ASSUME rec \in Reconcile, NEW reason \in Reason, ReconcileFailure(reason)
  PROVE  /\ rec' \in Reconcile
         /\ rec'.pc = "status" /\ rec'.next = "idle" /\ rec'.seen = rec.seen
<1>1. FailedStatus(rec.seen, rec.stage, reason) \in Status
  BY ReportType DEF Reconcile
<1>. QED
  BY <1>1 DEF ReconcileFailure, ReportThen, Reconcile, StepName

\* What a new reconcile, or one that has just stored the finalizer, starts with.
LEMMA LiveEntryType ==
  ASSUME NEW d \in Team
  PROVE  /\ LiveEntry(d).pc \in {"check", "status"}
         /\ LiveEntry(d).desired \in Status
         /\ LiveEntry(d).next = "idle"
BY ReportType, InitialValues DEF LiveEntry

LEMMA DeletionEntryType ==
  ASSUME NEW d \in Team
  PROVE  /\ DeletionEntry(d).pc \in {"release", "status"}
         /\ DeletionEntry(d).desired \in Status
         /\ DeletionEntry(d).next \in {"idle", "listApps"}
         /\ DeletionEntry(d).pc = "release" => cachedNs.owner = 0
         /\ DeletionEntry(d).next = "listApps" => cachedNs.owner = d.uid
<1>1. FailedStatus(d, 1, "OwnershipConflict") \in Status
  BY ReportType DEF Stage, Reason
<1>. QED
  BY <1>1, ReportType, InitialValues DEF DeletionEntry, ManagedBy

LEMMA EntryType ==
  ASSUME NEW d \in Team
  PROVE  /\ Entry(d).pc \in {"release", "status", "check", "finalizer"}
         /\ Entry(d).desired \in Status
         /\ Entry(d).next \in {"idle", "listApps"}
         /\ Entry(d).pc = "release" => d.deleting /\ cachedNs.owner = 0
         /\ Entry(d).next = "listApps" => d.deleting /\ cachedNs.owner = d.uid
         /\ Entry(d).pc # "finalizer" => d.deleting \/ d.finalizer
<1>1. CASE d.deleting
  BY <1>1, DeletionEntryType DEF Entry
<1>2. CASE ~d.deleting /\ d.finalizer
  BY <1>2, LiveEntryType DEF Entry
<1>3. CASE ~d.deleting /\ ~d.finalizer
  BY <1>3, InitialValues DEF Entry
<1>. QED
  BY <1>1, <1>2, <1>3 DEF Team

LEMMA BeginType ==
  ASSUME NEW base \in Reconcile, NEW d \in Team, NEW entry,
         entry.pc \in StepName, entry.desired \in Status,
         entry.next \in {"idle", "listApps"}
  PROVE  /\ Begin(base, d, entry) \in Reconcile
         /\ Begin(base, d, entry).pc = entry.pc
         /\ Begin(base, d, entry).next = entry.next
         /\ Begin(base, d, entry).seen = d
         /\ Begin(base, d, entry).stage = base.stage
BY DEF Begin, Reconcile

\* Going to another step of the same reconcile.
LEMMA GotoType ==
  ASSUME rec \in Reconcile, NEW pc \in StepName, rec' = [rec EXCEPT !.pc = pc]
  PROVE  rec' \in Reconcile
BY DEF Reconcile

\* A merge patch of one status onto another yields a status.
LEMMA MergeType ==
  ASSUME NEW live \in Status, NEW base \in Status, NEW new \in Status
  PROVE  Merge(live, base, new) \in Status
BY DEF Merge, Status

\* Ending a reconcile, or going on with it, keeps the history's types.
LEMMA FinishType ==
  ASSUME TypeOK, NEW again \in BOOLEAN, Finish(again)
  PROVE  /\ rec' \in Reconcile /\ dirty' \in BOOLEAN
         /\ unseen' \subseteq Tenant /\ claimed' \subseteq Layer \cup {"Namespace"}
BY InitialValues DEF Finish, TypeOK

LEMMA ContinueType ==
  ASSUME TypeOK, NEW r \in Reconcile, Continue(r)
  PROVE  /\ rec' \in Reconcile /\ dirty' \in BOOLEAN
         /\ unseen' \subseteq Tenant /\ claimed' \subseteq Layer \cup {"Namespace"}
BY DEF Continue, TypeOK

\* The initial state is well typed.
LEMMA InitType == Init => TypeOK
<1> SUFFICES ASSUME Init PROVE TypeOK
  OBVIOUS
<1>1. /\ layers \in [Layer -> LayerObject]
      /\ apps \in [Applications -> Presence] /\ cachedApps \in [Applications -> Presence]
      /\ dbs \in [Databases -> Database] /\ cachedDbs \in [Databases -> Database]
  BY InitialValues DEF Init, Presence
<1>. QED
  BY <1>1, InitialValues DEF Init, TypeOK

-----------------------------------------------------------------------------
(* Type correctness *)

\* What the history becomes when others act.
LEMMA HistoryType ==
  ASSUME TypeOK
  PROVE  /\ \A new \in SUBSET Tenant : NotSeen(new) => unseen' \subseteq Tenant
         /\ \A new \in SUBSET (Layer \cup {"Namespace"}) :
              Claimed(new) => claimed' \subseteq Layer \cup {"Namespace"}
BY Zenon DEF TypeOK, NotSeen, Claimed

\* Steps of the people who own the desired state.
LEMMA PeopleType ==
  ASSUME TypeOK, People
  PROVE  TypeOK'
<1> USE DEF api, caches, bounds
<1>1. ASSUME NEW valid \in BOOLEAN, Create(valid) PROVE TypeOK'
  <2>1. born' \in Uid
    BY <1>1, BoundsAssumption DEF TypeOK, Create, Uid
  <2>2. team' \in Team
    BY <1>1, <2>1, InitialValues DEF TypeOK, Create, Team
  <2>. QED
    BY <1>1, <2>1, <2>2 DEF TypeOK, Create
<1>2. ASSUME NEW valid \in BOOLEAN, EditSpec(valid) PROVE TypeOK'
  <2>1. team.gen + 1 \in Nat /\ edits' \in Nat
    BY <1>2 DEF TypeOK, EditSpec, Team
  <2>2. team' \in Team
    BY <1>2, <2>1 DEF TypeOK, EditSpec, Team
  <2>. QED
    BY <1>2, <2>1, <2>2 DEF TypeOK, EditSpec
<1>3. ASSUME AnnotateForce PROVE TypeOK'
  <2>1. team' \in Team
    BY <1>3 DEF TypeOK, AnnotateForce, Team
  <2>2. edits' \in Nat
    BY <1>3 DEF TypeOK, AnnotateForce
  <2>. QED
    BY <1>3, <2>1, <2>2 DEF TypeOK, AnnotateForce
<1>4. ASSUME RequestDelete PROVE TypeOK'
  <2>1. team.gen + 1 \in Nat
    BY DEF TypeOK, Team
  <2>2. [team EXCEPT !.deleting = TRUE, !.gen = team.gen + 1] \in Team
    BY <2>1 DEF TypeOK, Team
  <2>3. team' \in Team
    BY <1>4, <2>2, InitialValues DEF RequestDelete
  <2>. QED
    BY <1>4, <2>3 DEF TypeOK, RequestDelete
<1>5. ASSUME NEW a \in Applications, CreateApplication(a) PROVE TypeOK'
  <2>1. apps' \in [Applications -> Presence]
    BY <1>5 DEF TypeOK, CreateApplication, Presence
  <2>2. unseen' \subseteq Tenant
    BY <1>5, HistoryType DEF CreateApplication, Tenant
  <2>. QED
    BY <1>5, <2>1, <2>2 DEF TypeOK, CreateApplication
<1>6. ASSUME NEW d \in Databases, NEW hold \in Holds, CreateDatabase(d, hold) PROVE TypeOK'
  <2>1. dbs' \in [Databases -> Database]
    BY <1>6, BoundsAssumption DEF TypeOK, CreateDatabase, Database, Presence, Hold
  <2>2. unseen' \subseteq Tenant
    BY <1>6, HistoryType DEF CreateDatabase, Tenant
  <2>. QED
    BY <1>6, <2>1, <2>2 DEF TypeOK, CreateDatabase
<1>7. ASSUME NEW t \in Tenant, PruneTenant(t) PROVE TypeOK'
  <2>1. apps' \in [Applications -> Presence] /\ dbs' \in [Databases -> Database]
    BY <1>7 DEF TypeOK, PruneTenant, Presence, Database
  <2>. QED
    BY <1>7, <2>1 DEF TypeOK, PruneTenant
<1>. QED
  BY <1>1, <1>2, <1>3, <1>4, <1>5, <1>6, <1>7 DEF People

\* Steps of those who take what is reserved for the Team, and drift.
LEMMA OthersType ==
  ASSUME TypeOK, Others \/ Drift
  PROVE  TypeOK'
<1> USE DEF api, caches, bounds
<1>1. ASSUME ClaimNamespace PROVE TypeOK'
  <2>1. ns' \in Namespace
    BY <1>1, InitialValues DEF TypeOK, ClaimNamespace, Namespace
  <2>2. claimed' \subseteq Layer \cup {"Namespace"}
    BY <1>1, HistoryType DEF ClaimNamespace
  <2>. QED
    BY <1>1, <2>1, <2>2 DEF TypeOK, ClaimNamespace
<1>2. ASSUME ClaimantDeletes PROVE TypeOK'
  BY <1>2 DEF TypeOK, ClaimantDeletes, Namespace
<1>3. ASSUME NEW l \in Layer, ClaimLayer(l) PROVE TypeOK'
  <2>1. layers' \in [Layer -> LayerObject]
    BY <1>3, InitialValues DEF TypeOK, ClaimLayer, LayerObject
  <2>2. claimed' \subseteq Layer \cup {"Namespace"}
    BY <1>3, HistoryType DEF ClaimLayer
  <2>. QED
    BY <1>3, <2>1, <2>2 DEF TypeOK, ClaimLayer
<1>4. ASSUME LabelDrifts PROVE TypeOK'
  <2>1. ns' \in Namespace
    BY <1>4 DEF TypeOK, LabelDrifts, Namespace
  <2>2. faults' \in Nat
    BY <1>4 DEF TypeOK, LabelDrifts
  <2>. QED
    BY <1>4, <2>1, <2>2 DEF TypeOK, LabelDrifts
<1>5. ASSUME NEW l \in Layer, LayerDrifts(l) PROVE TypeOK'
  BY <1>5, InitialValues DEF TypeOK, LayerDrifts
<1>6. ASSUME RoleDrifts PROVE TypeOK'
  <2>1. faults' \in Nat
    BY <1>6 DEF TypeOK, RoleDrifts
  <2>2. dirty' \in BOOLEAN
    BY <1>6 DEF TypeOK, RoleDrifts, EnqueueForRole
  <2>. QED
    BY <1>6, <2>1, <2>2 DEF TypeOK, RoleDrifts
<1>7. ASSUME NEW d \in Databases, FinalBackupFails(d) PROVE TypeOK'
  <2>1. dbs' \in [Databases -> Database]
    BY <1>7 DEF TypeOK, FinalBackupFails, Database, Hold
  <2>. QED
    BY <1>7, <2>1 DEF TypeOK, FinalBackupFails
<1>. QED
  BY <1>1, <1>2, <1>3, <1>4, <1>5, <1>6, <1>7 DEF Others, Drift

\* Steps of Kubernetes, of the tenants' controllers and of the informers.
LEMMA PlatformType ==
  ASSUME TypeOK, Platform \/ Informers
  PROVE  TypeOK'
<1> USE DEF api, caches, bounds
<1>1. ASSUME RoleRestored PROVE TypeOK'
  BY <1>1 DEF TypeOK, RoleRestored, EnqueueForRole
<1>2. ASSUME NamespaceCascade PROVE TypeOK'
  <2>1. apps' \in [Applications -> Presence]
    BY <1>2 DEF TypeOK, NamespaceCascade, Presence
  <2>2. dbs' \in [Databases -> Database]
    BY <1>2 DEF TypeOK, NamespaceCascade, Database, Presence
  <2>3. layers' \in [Layer -> LayerObject] /\ dirty' \in BOOLEAN
    BY <1>2, InitialValues DEF TypeOK, NamespaceCascade
  <2>. QED
    BY <1>2, <2>1, <2>2, <2>3 DEF TypeOK, NamespaceCascade
<1>3. ASSUME NamespaceGone PROVE TypeOK'
  BY <1>3, InitialValues DEF TypeOK, NamespaceGone
<1>4. ASSUME NEW a \in Applications, ApplicationGone(a) PROVE TypeOK'
  BY <1>4 DEF TypeOK, ApplicationGone, Presence
<1>5. ASSUME NEW d \in Databases, DatabaseGone(d) PROVE TypeOK'
  BY <1>5, InitialValues DEF TypeOK, DatabaseGone
<1>6. ASSUME Informers PROVE TypeOK'
  BY <1>6 DEF TypeOK, Informers, WatchTeam, WatchNamespace, WatchApplications,
              WatchDatabases, EnqueueForNamespace
<1>. QED
  BY <1>1, <1>2, <1>3, <1>4, <1>5, <1>6 DEF Platform

\* The controller's steps.
LEMMA StartReconcileType ==
  ASSUME TypeOK, StartReconcile
  PROVE  TypeOK'
<1> USE DEF api, caches, bounds
<1>1. CASE UNCHANGED <<rec, unseen, claimed>>
  BY <1>1 DEF TypeOK, StartReconcile
<1>2. CASE ~UNCHANGED <<rec, unseen, claimed>>
  <2>1. [Idle EXCEPT !.nsLive = ~cachedNs.deleting] \in Reconcile
    BY InitialValues DEF Reconcile, TypeOK
  <2>2. rec' \in Reconcile
    BY <1>2, <2>1, EntryType, BeginType DEF StartReconcile, TypeOK, StepName
  <2>3. unseen' \subseteq Tenant /\ claimed' \subseteq Layer \cup {"Namespace"}
    BY <1>2 DEF StartReconcile
  <2>. QED
    BY <2>2, <2>3 DEF TypeOK, StartReconcile
<1>. QED
  BY <1>1, <1>2

LEMMA AddFinalizerType ==
  ASSUME TypeOK, AddFinalizer
  PROVE  TypeOK'
<1> USE DEF api, caches, bounds
<1>1. CASE team.uid = 0
  BY <1>1, FinishType DEF TypeOK, AddFinalizer
<1>2. CASE team.uid # 0
  <2>1. team' \in Team
    BY <1>2 DEF TypeOK, AddFinalizer, Team
  <2>2. Begin(rec, team', LiveEntry(team')) \in Reconcile
    BY <2>1, LiveEntryType, BeginType DEF TypeOK, StepName
  <2>. QED
    BY <1>2, <2>1, <2>2, ContinueType DEF TypeOK, AddFinalizer
<1>. QED
  BY <1>1, <1>2

LEMMA CheckOwnershipType ==
  ASSUME TypeOK, CheckOwnership
  PROVE  TypeOK'
<1> USE DEF api, caches, bounds
<1>1. rec' \in Reconcile
  <2>1. CASE \E reason \in {"ReconciliationFailed", "OwnershipConflict"} :
               ReconcileFailure(reason)
    BY <2>1, ReconcileFailureType DEF TypeOK, Reason
  <2>2. CASE rec' = [rec EXCEPT !.pc = "write"]
    BY <2>2, GotoType DEF TypeOK, StepName
  <2>. QED
    BY <2>1, <2>2 DEF CheckOwnership
<1>. QED
  BY <1>1 DEF TypeOK, CheckOwnership

LEMMA NextStageType ==
  ASSUME TypeOK, NextStage
  PROVE  /\ rec' \in Reconcile
         /\ rec'.pc \in {"check", "status"} /\ rec'.seen = rec.seen
         /\ rec'.pc = "status" => rec'.next = "idle"
<1>1. CASE rec.stage = 4
  <2>1. ReadyStatus(rec.seen) \in Status
    BY ReportType DEF TypeOK, Reconcile
  <2>2. rec' = [rec EXCEPT !.pc = "status", !.desired = ReadyStatus(rec.seen),
                           !.next = "idle", !.retry = FALSE]
    BY <1>1 DEF NextStage, ReportThen
  <2>. QED
    BY <2>1, <2>2 DEF TypeOK, Reconcile, StepName
<1>2. CASE rec.stage # 4
  <2>1. rec.stage + 1 \in Stage
    BY <1>2 DEF TypeOK, Reconcile, Stage
  <2>. QED
    BY <1>2, <2>1 DEF NextStage, TypeOK, Reconcile, StepName
<1>. QED
  BY <1>1, <1>2

LEMMA WriteObjectType ==
  ASSUME TypeOK, WriteObject
  PROVE  TypeOK'
<1> USE DEF api, caches, bounds
<1>1. rec.seen.uid \in Owner /\ rec.seen.gen \in Nat
  BY InitialValues DEF TypeOK, Reconcile, Team
<1>2. rec' \in Reconcile
  BY NextStageType, ReconcileFailureType
     DEF WriteObject, WriteNamespace, WriteLayer, TypeOK, Reason
<1>3. CASE ObjectAt[rec.stage] = "Namespace"
  <2>1. NamespaceMade \in Namespace
    BY <1>1 DEF NamespaceMade, Namespace
  <2>2. [ns EXCEPT !.owner = rec.seen.uid, !.label = TRUE] \in Namespace
    BY <1>1 DEF TypeOK, Namespace
  <2>3. ns' \in Namespace
    BY <1>3, <2>1, <2>2 DEF WriteObject, WriteNamespace, TypeOK
  <2>. QED
    BY <1>2, <1>3, <2>3 DEF TypeOK, WriteObject
<1>4. CASE ObjectAt[rec.stage] # "Namespace"
  <2>1. [owner |-> rec.seen.uid, gen |-> rec.seen.gen] \in LayerObject
    BY <1>1 DEF LayerObject
  <2>2. layers' \in [Layer -> LayerObject] /\ dirty' \in BOOLEAN
    BY <1>4, <2>1 DEF WriteObject, WriteLayer, TypeOK
  <2>. QED
    BY <1>2, <1>4, <2>2 DEF TypeOK, WriteObject
<1>. QED
  BY <1>3, <1>4

LEMMA PatchStatusType ==
  ASSUME TypeOK, PatchStatus
  PROVE  TypeOK'
<1> USE DEF api, caches, bounds
<1>1. /\ rec' \in Reconcile /\ dirty' \in BOOLEAN
      /\ unseen' \subseteq Tenant /\ claimed' \subseteq Layer \cup {"Namespace"}
  <2>1. CASE Finish(TRUE) \/ Finish(rec.retry)
    BY <2>1, FinishType DEF TypeOK, Reconcile
  <2>2. CASE rec.next # "idle" /\ Continue([rec EXCEPT !.pc = rec.next])
    <3>1. [rec EXCEPT !.pc = rec.next] \in Reconcile
      BY DEF TypeOK, Reconcile, StepName
    <3>. QED
      BY <2>2, <3>1, ContinueType
  <2>. QED
    BY <2>1, <2>2 DEF PatchStatus, AfterStatus
<1>2. team' \in Team
  <2>1. Merge(team.status, cachedTeam.status, rec.desired) \in Status
    BY MergeType DEF TypeOK, Team, Reconcile
  <2>2. [team EXCEPT !.status = Merge(team.status, cachedTeam.status, rec.desired)]
          \in Team
    BY <2>1 DEF TypeOK, Team
  <2>. QED
    BY <2>2 DEF PatchStatus, TypeOK
<1>. QED
  BY <1>1, <1>2 DEF TypeOK, PatchStatus

LEMMA DeletionStepType ==
  ASSUME TypeOK,
         \/ ListApplications \/ DeleteApplications \/ ListDatabases
         \/ DeleteDatabases \/ DeleteNamespace \/ ReleaseFinalizer
  PROVE  TypeOK'
<1> USE DEF api, caches, bounds
<1>1. ASSUME ListApplications PROVE TypeOK'
  <2>1. rec' \in Reconcile
    BY <1>1 DEF ListApplications, TypeOK, Reconcile, StepName, ListedApplications, Tenant
  <2>. QED
    BY <1>1, <2>1 DEF ListApplications, TypeOK
<1>2. ASSUME DeleteApplications PROVE TypeOK'
  <2>1. /\ rec' \in Reconcile /\ dirty' \in BOOLEAN
        /\ unseen' \subseteq Tenant /\ claimed' \subseteq Layer \cup {"Namespace"}
    <3>1. \A a : [rec EXCEPT !.todo = rec.todo \ {a}] \in Reconcile
      BY DEF TypeOK, Reconcile
    <3>. QED
      BY <1>2, <3>1, FinishType, ContinueType DEF DeleteApplications
  <2>2. apps' \in [Applications -> Presence]
    BY <1>2 DEF DeleteApplications, TypeOK, Presence
  <2>. QED
    BY <1>2, <2>1, <2>2 DEF DeleteApplications, TypeOK
<1>3. ASSUME ListDatabases PROVE TypeOK'
  <2>1. rec' \in Reconcile
    BY <1>3 DEF ListDatabases, TypeOK, Reconcile, StepName, ListedDatabases, Unforced, Tenant
  <2>. QED
    BY <1>3, <2>1 DEF ListDatabases, TypeOK
<1>4. ASSUME DeleteDatabases PROVE TypeOK'
  <2>1. /\ rec' \in Reconcile /\ dirty' \in BOOLEAN
        /\ unseen' \subseteq Tenant /\ claimed' \subseteq Layer \cup {"Namespace"}
    <3>1. \A d : /\ [rec EXCEPT !.todo = rec.todo \ {d}] \in Reconcile
                 /\ [rec EXCEPT !.unforced = rec.unforced \ {d}] \in Reconcile
      BY DEF TypeOK, Reconcile
    <3>. QED
      BY <1>4, <3>1, FinishType, ContinueType DEF DeleteDatabases
  <2>2. dbs' \in [Databases -> Database]
    <3>1. CASE UNCHANGED dbs
      BY <3>1 DEF TypeOK
    <3>2. ASSUME NEW d \in Databases, dbs' = [dbs EXCEPT ![d].hold = "forced"]
          PROVE  dbs' \in [Databases -> Database]
      BY <3>2 DEF TypeOK, Database, Hold
    <3>3. ASSUME NEW d \in Databases,
                 dbs' = [dbs EXCEPT ![d].state = IF @ = "live" THEN "deleting" ELSE @]
          PROVE  dbs' \in [Databases -> Database]
      BY <3>3 DEF TypeOK, Database, Presence
    <3>4. rec.unforced \subseteq Databases
      BY DEF TypeOK, Reconcile
    <3>. QED
      BY <1>4, <3>1, <3>2, <3>3, <3>4 DEF DeleteDatabases
  <2>. QED
    BY <1>4, <2>1, <2>2 DEF DeleteDatabases, TypeOK
<1>5. ASSUME DeleteNamespace PROVE TypeOK'
  <2>1. ns' \in Namespace
    BY <1>5 DEF DeleteNamespace, TypeOK, Namespace
  <2>. QED
    BY <1>5, <2>1, FinishType DEF DeleteNamespace, TypeOK
<1>6. ASSUME ReleaseFinalizer PROVE TypeOK'
  <2>1. team' \in Team
    BY <1>6, InitialValues DEF ReleaseFinalizer, TypeOK, Team
  <2>2. Finish(TRUE) \/ Finish(FALSE)
    BY <1>6 DEF ReleaseFinalizer
  <2>. QED
    BY <1>6, <2>1, <2>2, FinishType DEF ReleaseFinalizer, TypeOK
<1>. QED
  BY <1>1, <1>2, <1>3, <1>4, <1>5, <1>6

LEMMA FailureType ==
  ASSUME TypeOK, Failure
  PROVE  TypeOK'
<1> USE DEF api, caches, bounds
<1>1. ASSUME Interrupt PROVE TypeOK'
  <2>1. faults' \in Nat
    BY <1>1 DEF Interrupt, TypeOK
  <2>. QED
    BY <1>1, <2>1, FinishType DEF Interrupt, TypeOK
<1>2. ASSUME WriteError PROVE TypeOK'
  <2>1. rec' \in Reconcile
    BY <1>2, ReconcileFailureType DEF WriteError, TypeOK, Reason
  <2>. QED
    BY <1>2, <2>1 DEF WriteError, TypeOK
<1>. QED
  BY <1>1, <1>2 DEF Failure

\* Every variable keeps its type, at any number of lifetimes, tenants and faults.
THEOREM TypeCorrect == Spec => []TypeOK
<1>1. ASSUME TypeOK, [Next]_vars PROVE TypeOK'
  <2>1. CASE UNCHANGED vars
    BY <1>1, <2>1 DEF TypeOK, vars, api, caches, bounds
  <2>2. CASE Controller
    BY <1>1, <2>2, StartReconcileType, AddFinalizerType, CheckOwnershipType,
       WriteObjectType, PatchStatusType, DeletionStepType DEF Controller
  <2>. QED
    BY <1>1, <2>1, <2>2, PeopleType, OthersType, PlatformType, FailureType DEF Next
<1>. QED
  BY InitType, <1>1, PTL DEF Spec

-----------------------------------------------------------------------------
(* The inductive invariant *)

\* Between two reconciles only the UIDs and the finalizer matter.
LEMMA IdleInv ==
  ASSUME rec' = Idle, UidsInOrder', ~StaleReads => NamespaceNeedsFinalizer'
  PROVE  IInv'
BY DEF IInv, TenantInv, OwnerInv, CurrentInv, TenantsSeen, ApplicationsListed,
       TenantsListed, NamespaceSeen, NamespaceChecked, LayerChecked, Deleting,
       HeldByFinalizer, ReleaseJustified, Idle

\* The invariant holds initially.
LEMMA InitInv == Init => IInv
<1> SUFFICES ASSUME Init PROVE IInv
  OBVIOUS
<1>1. UidsInOrder
  BY DEF Init, UidsInOrder, NoTeam, NoNamespace, Idle
<1>2. NamespaceNeedsFinalizer
  BY DEF Init, NamespaceNeedsFinalizer, NoTeam
<1>. QED
  BY <1>1, <1>2 DEF Init, IInv, TenantInv, OwnerInv, CurrentInv, TenantsSeen,
     ApplicationsListed, TenantsListed, NamespaceSeen, NamespaceChecked,
     LayerChecked, Deleting, HeldByFinalizer, ReleaseJustified, Idle

\* A step of others keeps what is known of the tenants if a tenant that comes is
\* recorded as unseen and the informers forget none that is there.
LEMMA TenantsKept ==
  ASSUME TenantInv, UNCHANGED rec,
         rec.pc # "idle" => unseen \subseteq unseen',
         \A t \in Tenant :
           /\ Present(t)' => Present(t) \/ rec.pc = "idle" \/ t \in unseen'
           /\ Present(t)' /\ InCache(t) => InCache(t)'
  PROVE  TenantInv'
<1>1. TenantsSeen'
  BY DEF TenantInv, TenantsSeen
<1>2. ApplicationsListed'
  BY DEF TenantInv, ApplicationsListed, Tenant
<1>3. TenantsListed'
  BY DEF TenantInv, TenantsListed
<1>. QED
  BY <1>1, <1>2, <1>3 DEF TenantInv

\* Steps that neither change nor show a tenant.
LEMMA TenantsUntouched ==
  ASSUME TenantInv, UNCHANGED <<apps, dbs, cachedApps, cachedDbs, rec, unseen>>
  PROVE  TenantInv'
BY DEF TenantInv, TenantsSeen, ApplicationsListed, TenantsListed, Present, InCache

\* Steps that change neither the Team, nor the Namespace, nor who has claimed it.
LEMMA OwnersUntouched ==
  ASSUME OwnerInv, ~StaleReads => CurrentInv,
         UNCHANGED <<team, ns, cachedTeam, cachedNs, rec, born, claimed>>,
         \A l \in Layer : layers'[l].owner \in {0, layers[l].owner},
         rec \in Reconcile
  PROVE  OwnerInv' /\ (~StaleReads => CurrentInv')
<1>1. LayerChecked'
  <2>1. rec.stage # 1 => ObjectAt[rec.stage] \in Layer
    BY DEF Reconcile, Stage, ObjectAt, Layer
  <2>. QED
    BY <2>1 DEF OwnerInv, LayerChecked
<1>. QED
  BY <1>1 DEF OwnerInv, UidsInOrder, NamespaceSeen, NamespaceChecked, Deleting,
     CurrentInv, HeldByFinalizer, NamespaceNeedsFinalizer, ReleaseJustified

\* A step outside the controller that is about tenants only.
TenantStep ==
  \/ \E a \in Applications : CreateApplication(a) \/ ApplicationGone(a)
  \/ \E d \in Databases, hold \in Holds : CreateDatabase(d, hold)
  \/ \E t \in Tenant : PruneTenant(t)
  \/ \E d \in Databases : FinalBackupFails(d) \/ DatabaseGone(d)
  \/ NamespaceCascade \/ WatchApplications \/ WatchDatabases

\* Each tenant is an Application or a Database, and not both.
LEMMA TenantKinds ==
  /\ \A a \in Applications : Present(a) = (apps[a] # "absent")
                             /\ InCache(a) = (cachedApps[a] # "absent")
  /\ \A d \in Databases : Present(d) = (dbs[d].state # "absent")
                          /\ InCache(d) = (cachedDbs[d].state # "absent")
BY TenantsAssumption DEF Present, InCache

LEMMA TenantStepInv ==
  ASSUME TypeOK, IInv, TenantStep
  PROVE  IInv'
<1> USE DEF api, caches, bounds
<1>1. OwnerInv' /\ (~StaleReads => CurrentInv')
  <2>1. UNCHANGED <<team, ns, cachedTeam, cachedNs, rec, born, claimed>>
    BY DEF TenantStep, CreateApplication, ApplicationGone, CreateDatabase, PruneTenant,
       FinalBackupFails, DatabaseGone, NamespaceCascade, WatchApplications, WatchDatabases
  <2>2. \A l \in Layer : layers'[l].owner \in {0, layers[l].owner}
    <3>1. CASE NamespaceCascade
      BY <3>1 DEF NamespaceCascade, NoObject
    <3>2. CASE layers' = layers
      BY <3>2
    <3>. QED
      BY <3>1, <3>2 DEF TenantStep, CreateApplication, ApplicationGone, CreateDatabase,
         PruneTenant, FinalBackupFails, DatabaseGone, WatchApplications, WatchDatabases
  <2>. QED
    BY <2>1, <2>2, OwnersUntouched DEF IInv, TypeOK
<1>2. TenantInv'
  <2>1. ASSUME NEW a \in Applications, CreateApplication(a) PROVE TenantInv'
    BY <2>1, TenantsKept DEF IInv, CreateApplication, NotSeen, TypeOK, Present, InCache
  <2>2. ASSUME NEW d \in Databases, NEW hold \in Holds, CreateDatabase(d, hold)
        PROVE  TenantInv'
    BY <2>2, TenantsKept DEF IInv, CreateDatabase, NotSeen, TypeOK, Present, InCache
  <2>3. ASSUME NEW t \in Tenant, PruneTenant(t) PROVE TenantInv'
    <3>1. \A s \in Tenant : Present(s)' => Present(s)
      <4>1. CASE t \in Applications /\ apps[t] = "live" /\ UNCHANGED dbs
                 /\ apps' = [apps EXCEPT ![t] = "deleting"]
        BY <4>1 DEF TypeOK, Present
      <4>2. CASE t \in Databases /\ dbs[t].state = "live" /\ UNCHANGED apps
                 /\ dbs' = [dbs EXCEPT ![t].state = "deleting"]
        BY <4>2 DEF TypeOK, Present, Database, Tenant
      <4>. QED
        BY <2>3, <4>1, <4>2 DEF PruneTenant
    <3>2. \A s \in Tenant : InCache(s)' = InCache(s)
      BY <2>3 DEF PruneTenant, InCache
    <3>. QED
      BY <2>3, <3>1, <3>2, TenantsKept DEF IInv, PruneTenant
  <2>4. ASSUME NEW a \in Applications, ApplicationGone(a) PROVE TenantInv'
    BY <2>4, TenantsKept DEF IInv, ApplicationGone, TypeOK, Present, InCache
  <2>5. ASSUME NEW d \in Databases, DatabaseGone(d) PROVE TenantInv'
    BY <2>5, TenantsKept DEF IInv, DatabaseGone, TypeOK, Present, InCache, NoDatabase
  <2>6. ASSUME NEW d \in Databases, FinalBackupFails(d) PROVE TenantInv'
    BY <2>6, TenantsKept DEF IInv, FinalBackupFails, TypeOK, Present, InCache, Database
  <2>7. ASSUME NamespaceCascade PROVE TenantInv'
    BY <2>7, TenantsKept DEF IInv, NamespaceCascade, TypeOK, Present, InCache, Database, Tenant
  <2>8. ASSUME WatchApplications \/ WatchDatabases PROVE TenantInv'
    BY <2>8, TenantsKept DEF IInv, WatchApplications, WatchDatabases, Present, InCache
  <2>. QED
    BY <2>1, <2>2, <2>3, <2>4, <2>5, <2>6, <2>7, <2>8 DEF TenantStep
<1>. QED
  BY <1>1, <1>2 DEF IInv

\* A step of people that is about the Team itself.
TeamStep ==
  \/ \E valid \in BOOLEAN : Create(valid) \/ EditSpec(valid)
  \/ AnnotateForce \/ RequestDelete

\* What others do to the boundary, and the informers of Team and Namespace.
BoundaryStep ==
  \/ ClaimNamespace \/ ClaimantDeletes \/ \E l \in Layer : ClaimLayer(l)
  \/ LabelDrifts \/ \E l \in Layer : LayerDrifts(l)
  \/ RoleDrifts \/ RoleRestored \/ NamespaceGone
  \/ WatchTeam \/ WatchNamespace

LEMMA TeamStepInv ==
  ASSUME TypeOK, IInv, TeamStep
  PROVE  IInv'
<1> USE DEF api, caches, bounds
<1>1. UNCHANGED <<ns, layers, apps, dbs, caches, rec, unseen, claimed>>
  BY DEF TeamStep, Create, EditSpec, AnnotateForce, RequestDelete
<1>2. TenantInv'
  BY <1>1, TenantsUntouched DEF IInv
<1>3. /\ team.uid \in Nat /\ born \in Nat /\ ns.owner \in Nat
      /\ cachedTeam.uid \in Nat /\ rec.seen.uid \in Nat
  BY BoundsAssumption DEF TypeOK, Team, Namespace, Reconcile, Uid, Owner, Foreign
<1>4. ASSUME NEW valid \in BOOLEAN, Create(valid)
      PROVE  OwnerInv' /\ (~StaleReads => CurrentInv')
  <2>1. team' = [NoTeam EXCEPT !.uid = born + 1, !.gen = 1, !.valid = valid]
        /\ born' = born + 1 /\ born + 1 <= MaxLifetimes
    BY <1>3, <1>4, BoundsAssumption DEF Create
  <2>2. team'.uid = born + 1
    BY <2>1 DEF NoTeam
  <2>3. UidsInOrder'
    BY <1>1, <1>3, <2>1, <2>2 DEF IInv, OwnerInv, UidsInOrder
  <2>4. OwnerInv'
    BY <1>1, <2>3 DEF IInv, OwnerInv, NamespaceSeen, NamespaceChecked, Deleting, LayerChecked
  <2>5. NamespaceNeedsFinalizer'
    BY <1>1, <1>3, <2>1, <2>2, BoundsAssumption
       DEF IInv, OwnerInv, UidsInOrder, NamespaceNeedsFinalizer, Foreign
  <2>6. ASSUME ~StaleReads PROVE CurrentInv'
    BY <1>1, <1>4, <2>5, <2>6
       DEF Create, IInv, CurrentInv, HeldByFinalizer, ReleaseJustified
  <2>. QED
    BY <2>4, <2>6
<1>5. ASSUME EditSpec(TRUE) \/ EditSpec(FALSE) \/ AnnotateForce \/ RequestDelete
      PROVE  OwnerInv' /\ (~StaleReads => CurrentInv')
  <2>1. /\ UNCHANGED born
        /\ \/ /\ team'.uid = team.uid /\ team'.finalizer = team.finalizer
              /\ team.deleting => team'.deleting
           \/ team.uid # 0 /\ ~team.finalizer /\ team'.uid = 0
    <3>1. CASE EditSpec(TRUE) \/ EditSpec(FALSE)
      BY <3>1 DEF EditSpec, TypeOK, Team
    <3>2. CASE AnnotateForce
      BY <3>2 DEF AnnotateForce, TypeOK, Team
    <3>3. CASE RequestDelete
      BY <3>3 DEF RequestDelete, TypeOK, Team, NoTeam
    <3>. QED
      BY <1>5, <3>1, <3>2, <3>3
  <2>2. OwnerInv'
    BY <1>1, <1>3, <2>1 DEF IInv, OwnerInv, UidsInOrder, NamespaceSeen,
       NamespaceChecked, Deleting, LayerChecked
  <2>3. ASSUME ~StaleReads PROVE CurrentInv'
    BY <1>1, <2>1, <2>3 DEF IInv, CurrentInv, HeldByFinalizer,
       NamespaceNeedsFinalizer, ReleaseJustified
  <2>. QED
    BY <2>2, <2>3
<1>. QED
  BY <1>2, <1>4, <1>5 DEF TeamStep, IInv

LEMMA BoundaryStepInv ==
  ASSUME TypeOK, IInv, BoundaryStep
  PROVE  IInv'
<1> USE DEF api, caches, bounds
<1>1. UNCHANGED <<team, apps, dbs, cachedApps, cachedDbs, rec, born, unseen>>
  BY DEF BoundaryStep, ClaimNamespace, ClaimantDeletes, ClaimLayer, LabelDrifts,
     LayerDrifts, RoleDrifts, RoleRestored, NamespaceGone, WatchTeam, WatchNamespace
<1>2. TenantInv'
  BY <1>1, TenantsUntouched DEF IInv
<1>3. /\ team.uid \in Nat /\ born \in Nat /\ ns.owner \in Nat
      /\ cachedTeam.uid \in Nat /\ rec.seen.uid \in Nat
      /\ team.uid # Foreign /\ Foreign # 0
  BY BoundsAssumption DEF TypeOK, Team, Namespace, Reconcile, Uid, Owner, Foreign
<1>4. rec.stage # 1 => ObjectAt[rec.stage] \in Layer
  BY DEF TypeOK, Reconcile, Stage, ObjectAt, Layer
<1>5. UidsInOrder'
  <2>1. ns'.owner \in {0, ns.owner, Foreign}
    <3>1. CASE ClaimNamespace \/ ClaimantDeletes \/ LabelDrifts \/ NamespaceGone
      BY <3>1 DEF ClaimNamespace, ClaimantDeletes, LabelDrifts, NamespaceGone,
         TypeOK, Namespace, NoNamespace
    <3>2. CASE UNCHANGED ns
      BY <3>2
    <3>. QED
      BY <3>1, <3>2 DEF BoundaryStep, ClaimLayer, LayerDrifts, RoleDrifts,
         RoleRestored, WatchTeam, WatchNamespace
  <2>2. cachedTeam' \in {cachedTeam, team}
    BY DEF BoundaryStep, ClaimNamespace, ClaimantDeletes, ClaimLayer, LabelDrifts,
       LayerDrifts, RoleDrifts, RoleRestored, NamespaceGone, WatchTeam, WatchNamespace
  <2>. QED
    BY <1>1, <1>3, <2>1, <2>2 DEF IInv, OwnerInv, UidsInOrder
<1>6. ASSUME ClaimNamespace \/ ClaimantDeletes \/ LabelDrifts \/ NamespaceGone
      PROVE  NamespaceSeen' /\ NamespaceChecked' /\ LayerChecked' /\ (~StaleReads => CurrentInv')
  <2>1. /\ UNCHANGED <<cachedNs, layers>>
        /\ claimed \subseteq claimed' \/ rec.pc = "idle"
        /\ \/ ns'.owner \in {0, ns.owner}
           \/ ns'.owner = Foreign /\ (rec.pc # "idle" => "Namespace" \in claimed')
    <3>1. CASE ClaimNamespace
      BY <3>1 DEF ClaimNamespace, Claimed, TypeOK, Namespace
    <3>2. CASE ClaimantDeletes \/ LabelDrifts \/ NamespaceGone
      BY <3>2 DEF ClaimantDeletes, LabelDrifts, NamespaceGone, TypeOK, Namespace, NoNamespace
    <3>. QED
      BY <1>6, <3>1, <3>2
  <2>2. NamespaceSeen' /\ NamespaceChecked'
    BY <1>1, <2>1 DEF IInv, OwnerInv, NamespaceSeen, NamespaceChecked, Deleting
  <2>3. LayerChecked'
    BY <1>1, <2>1 DEF IInv, OwnerInv, LayerChecked
  <2>4. ASSUME ~StaleReads PROVE CurrentInv'
    BY <1>1, <1>3, <2>1, <2>4 DEF IInv, CurrentInv, HeldByFinalizer,
       NamespaceNeedsFinalizer, ReleaseJustified
  <2>. QED
    BY <2>2, <2>3, <2>4
<1>7. ASSUME NEW l \in Layer, ClaimLayer(l) \/ LayerDrifts(l)
      PROVE  NamespaceSeen' /\ NamespaceChecked' /\ LayerChecked' /\ (~StaleReads => CurrentInv')
  <2>1. /\ UNCHANGED <<ns, cachedNs>>
        /\ claimed \subseteq claimed' \/ rec.pc = "idle"
        /\ \A m \in Layer : \/ layers'[m].owner \in {0, layers[m].owner}
                            \/ rec.pc # "idle" => m \in claimed'
    <3>1. CASE ClaimLayer(l)
      BY <3>1 DEF ClaimLayer, Claimed, TypeOK
    <3>2. CASE LayerDrifts(l)
      BY <3>2 DEF LayerDrifts, TypeOK, NoObject
    <3>. QED
      BY <1>7, <3>1, <3>2
  <2>2. NamespaceSeen' /\ NamespaceChecked'
    BY <1>1, <2>1 DEF IInv, OwnerInv, NamespaceSeen, NamespaceChecked, Deleting
  <2>3. LayerChecked'
    BY <1>1, <1>4, <2>1 DEF IInv, OwnerInv, LayerChecked
  <2>4. ASSUME ~StaleReads PROVE CurrentInv'
    BY <1>1, <2>1, <2>4 DEF IInv, CurrentInv, HeldByFinalizer,
       NamespaceNeedsFinalizer, ReleaseJustified
  <2>. QED
    BY <2>2, <2>3, <2>4
<1>8. ASSUME RoleDrifts \/ RoleRestored \/ WatchTeam \/ WatchNamespace
      PROVE  NamespaceSeen' /\ NamespaceChecked' /\ LayerChecked' /\ (~StaleReads => CurrentInv')
  <2>1. UNCHANGED <<ns, layers, claimed>> /\ cachedNs' \in {cachedNs, ns}
    BY <1>8 DEF RoleDrifts, RoleRestored, WatchTeam, WatchNamespace
  <2>2. NamespaceSeen'
    BY <1>1, <2>1 DEF IInv, OwnerInv, NamespaceSeen
  <2>3. NamespaceChecked'
    BY <1>1, <2>1 DEF IInv, OwnerInv, NamespaceSeen, NamespaceChecked, Deleting
  <2>4. LayerChecked'
    BY <1>1, <2>1 DEF IInv, OwnerInv, LayerChecked
  <2>5. ASSUME ~StaleReads PROVE CurrentInv'
    BY <1>1, <2>1, <2>5 DEF IInv, CurrentInv, HeldByFinalizer,
       NamespaceNeedsFinalizer, ReleaseJustified
  <2>. QED
    BY <2>2, <2>3, <2>4, <2>5
<1>. QED
  BY <1>2, <1>5, <1>6, <1>7, <1>8 DEF BoundaryStep, IInv, OwnerInv

\* A new reconcile: what the caches do not show is unseen or claimed, and a Team
\* is released only when the cached Namespace is absent.
LEMMA StartReconcileInv ==
  ASSUME TypeOK, IInv, StartReconcile
  PROVE  IInv'
<1> USE DEF api, caches, bounds
<1>1. UNCHANGED <<team, ns, layers, apps, dbs, cachedTeam, cachedNs, cachedApps,
                  cachedDbs, born>> /\ rec.pc = "idle"
  BY DEF StartReconcile
<1>2. CASE UNCHANGED <<rec, unseen, claimed>>
  <2>1. TenantInv'
    BY <1>1, <1>2, TenantsUntouched DEF IInv
  <2>2. OwnerInv' /\ (~StaleReads => CurrentInv')
    BY <1>1, <1>2, OwnersUntouched DEF IInv, TypeOK
  <2>. QED
    BY <2>1, <2>2 DEF IInv
<1>3. CASE ~UNCHANGED <<rec, unseen, claimed>>
  <2>1. /\ cachedTeam.uid # 0 /\ (cachedTeam.deleting => cachedTeam.finalizer)
        /\ rec' = Begin([Idle EXCEPT !.nsLive = ~cachedNs.deleting],
                        cachedTeam, Entry(cachedTeam))
        /\ unseen' = {t \in Tenant : Present(t) /\ ~InCache(t)}
        /\ claimed' = IF ns.owner = cachedNs.owner THEN {} ELSE {"Namespace"}
        /\ StaleReads \/ Current
    BY <1>3 DEF StartReconcile
  <2>2. [Idle EXCEPT !.nsLive = ~cachedNs.deleting] \in Reconcile
    BY InitialValues DEF Reconcile, TypeOK
  <2>3. /\ rec'.pc \in {"release", "status", "check", "finalizer"}
        /\ rec'.seen = cachedTeam
        /\ rec'.pc = "release" => cachedTeam.deleting /\ cachedNs.owner = 0
        /\ rec'.next = "listApps" => cachedNs.owner = cachedTeam.uid
        /\ rec'.pc # "finalizer" => cachedTeam.deleting \/ cachedTeam.finalizer
    <3>1. cachedTeam \in Team
      BY DEF TypeOK
    <3>2. Entry(cachedTeam).pc \in StepName
      BY <3>1, EntryType DEF StepName
    <3>3. /\ rec'.pc = Entry(cachedTeam).pc /\ rec'.next = Entry(cachedTeam).next
          /\ rec'.seen = cachedTeam
      BY <2>1, <2>2, <3>1, <3>2, EntryType, BeginType
    <3>. QED
      BY <3>1, <3>3, EntryType
  <2>4. TenantInv'
    BY <1>1, <2>1, <2>3 DEF TenantInv, TenantsSeen, ApplicationsListed, TenantsListed,
       Present, InCache
  <2>5. UidsInOrder'
    BY <1>1, <2>3 DEF IInv, OwnerInv, UidsInOrder
  <2>6. NamespaceSeen' /\ NamespaceChecked' /\ LayerChecked'
    BY <1>1, <2>1, <2>3 DEF NamespaceSeen, NamespaceChecked, Deleting, LayerChecked
  <2>7. ASSUME ~StaleReads PROVE CurrentInv'
    BY <1>1, <2>1, <2>3, <2>7 DEF Current, IInv, CurrentInv, HeldByFinalizer,
       NamespaceNeedsFinalizer, ReleaseJustified
  <2>. QED
    BY <2>4, <2>5, <2>6, <2>7 DEF IInv, OwnerInv
<1>. QED
  BY <1>2, <1>3

\* Ending a reconcile.
LEMMA FinishInv ==
  ASSUME TypeOK, IInv, NEW again \in BOOLEAN, Finish(again), UNCHANGED <<cachedTeam, born>>,
         team'.uid \in {0, team.uid}, ns'.owner = ns.owner,
         ~StaleReads => NamespaceNeedsFinalizer'
  PROVE  IInv'
<1>1. rec' = Idle /\ Idle.seen.uid = 0
  BY DEF Finish, Idle, NoTeam
<1>2. born \in Nat
  BY BoundsAssumption DEF TypeOK, Uid
<1>3. UidsInOrder'
  BY <1>1, <1>2 DEF IInv, OwnerInv, UidsInOrder
<1>. QED
  BY <1>1, <1>3, IdleInv

\* Going on with a reconcile, at a step that knows nothing of the tenants yet.
LEMMA TenantsFollow ==
  ASSUME TenantInv, rec.pc # "idle", unseen' = unseen,
         UNCHANGED <<apps, dbs, cachedApps, cachedDbs>>,
         rec'.pc \notin {"listDbs", "dropDbs", "dropNamespace"}
  PROVE  TenantInv'
BY DEF TenantInv, TenantsSeen, ApplicationsListed, TenantsListed, Present, InCache

LEMMA AddFinalizerInv ==
  ASSUME TypeOK, IInv, AddFinalizer
  PROVE  IInv'
<1> USE DEF api, caches, bounds
<1>1. CASE team.uid = 0
  BY <1>1, FinishInv DEF AddFinalizer, IInv, CurrentInv, NamespaceNeedsFinalizer
<1>2. CASE team.uid # 0
  <2>1. /\ team' \in Team /\ team'.finalizer /\ team'.uid = team.uid
        /\ rec' = Begin(rec, team', LiveEntry(team'))
        /\ UNCHANGED <<ns, layers, apps, dbs, caches, born, unseen, claimed>>
        /\ rec.pc = "finalizer"
    BY <1>2 DEF AddFinalizer, Continue, TypeOK, Team
  <2>2. LiveEntry(team').pc \in StepName
    BY <2>1, LiveEntryType DEF StepName
  <2>3. rec'.pc \in {"check", "status"} /\ rec'.next = "idle" /\ rec'.seen = team'
    BY <2>1, <2>2, LiveEntryType, BeginType DEF TypeOK
  <2>4. TenantInv'
    BY <2>1, <2>3, TenantsFollow DEF IInv
  <2>5. OwnerInv'
    BY <2>1, <2>3 DEF IInv, OwnerInv, UidsInOrder, NamespaceSeen, NamespaceChecked,
       Deleting, LayerChecked
  <2>6. CurrentInv'
    BY <1>2, <2>1, <2>3 DEF CurrentInv, HeldByFinalizer, NamespaceNeedsFinalizer,
       ReleaseJustified
  <2>. QED
    BY <2>4, <2>5, <2>6 DEF IInv
<1>. QED
  BY <1>1, <1>2

\* A step of a live reconcile before or after the ownership check.
LEMMA LiveStepInv ==
  ASSUME TypeOK, IInv, rec.pc \in {"check", "write"},
         rec'.pc \in {"check", "status"}, rec'.seen = rec.seen,
         rec'.pc = "status" => rec'.next = "idle",
         ns'.owner \in {ns.owner, rec.seen.uid},
         UNCHANGED <<team, apps, dbs, caches, born, unseen, claimed>>
  PROVE  IInv'
<1> USE DEF caches
<1>1. TenantInv'
  BY TenantsFollow DEF IInv
<1>2. OwnerInv'
  BY DEF IInv, OwnerInv, UidsInOrder, NamespaceSeen, NamespaceChecked, Deleting, LayerChecked
<1>3. ASSUME ~StaleReads PROVE CurrentInv'
  BY <1>3 DEF IInv, CurrentInv, HeldByFinalizer, NamespaceNeedsFinalizer, ReleaseJustified
<1>. QED
  BY <1>1, <1>2, <1>3 DEF IInv

LEMMA CheckOwnershipInv ==
  ASSUME TypeOK, IInv, CheckOwnership
  PROVE  IInv'
<1> USE DEF api, caches, bounds
<1>1. rec.pc = "check" /\ UNCHANGED <<api, caches, bounds, unseen, claimed>>
  BY DEF CheckOwnership
<1>2. CASE \E reason \in {"ReconciliationFailed", "OwnershipConflict"} :
             ReconcileFailure(reason)
  <2>1. rec'.pc = "status" /\ rec'.next = "idle" /\ rec'.seen = rec.seen
    BY <1>2, ReconcileFailureType DEF TypeOK, Reason
  <2>. QED
    BY <1>1, <2>1, LiveStepInv
<1>3. CASE /\ rec' = [rec EXCEPT !.pc = "write"]
           /\ OwnerInView(ObjectAt[rec.stage]) \in {0, rec.seen.uid}
  <2>1. rec'.pc = "write" /\ rec'.seen = rec.seen /\ rec'.stage = rec.stage
    BY <1>3 DEF TypeOK, Reconcile
  <2>2. TenantInv'
    BY <1>1, <2>1, TenantsFollow DEF IInv
  <2>3. NamespaceChecked' /\ LayerChecked'
    <3>1. ObjectAt[1] = "Namespace"
          /\ (rec.stage # 1 => ObjectAt[rec.stage] \in Layer \ {"Namespace"})
      BY DEF ObjectAt, TypeOK, Reconcile, Stage, Layer
    <3>. QED
      BY <1>1, <1>3, <2>1, <3>1 DEF NamespaceChecked, LayerChecked, Deleting, OwnerInView
  <2>4. UidsInOrder' /\ NamespaceSeen'
    BY <1>1, <2>1 DEF IInv, OwnerInv, UidsInOrder, NamespaceSeen
  <2>5. ASSUME ~StaleReads PROVE CurrentInv'
    BY <1>1, <2>1, <2>5 DEF IInv, CurrentInv, HeldByFinalizer, NamespaceNeedsFinalizer,
       ReleaseJustified
  <2>. QED
    BY <2>2, <2>3, <2>4, <2>5 DEF IInv, OwnerInv
<1>. QED
  BY <1>2, <1>3 DEF CheckOwnership

LEMMA WriteObjectInv ==
  ASSUME TypeOK, IInv, WriteObject
  PROVE  IInv'
<1> USE DEF api, caches, bounds
<1>1. rec.pc = "write" /\ UNCHANGED <<team, apps, dbs, caches, born, unseen, claimed>>
  BY DEF WriteObject
<1>2. /\ rec'.pc \in {"check", "status"} /\ rec'.seen = rec.seen
      /\ rec'.pc = "status" => rec'.next = "idle"
  BY NextStageType, ReconcileFailureType
     DEF WriteObject, WriteNamespace, WriteLayer, TypeOK, Reason
<1>3. ns'.owner \in {ns.owner, rec.seen.uid}
  <2>1. NamespaceMade.owner = rec.seen.uid
    BY DEF NamespaceMade
  <2>2. [ns EXCEPT !.owner = rec.seen.uid, !.label = TRUE].owner = rec.seen.uid
    BY DEF TypeOK, Namespace
  <2>. QED
    BY <2>1, <2>2 DEF WriteObject, WriteNamespace
<1>. QED
  BY <1>1, <1>2, <1>3, LiveStepInv

LEMMA PatchStatusInv ==
  ASSUME TypeOK, IInv, PatchStatus
  PROVE  IInv'
<1> USE DEF api, caches, bounds
<1>1. rec.pc = "status" /\ UNCHANGED <<ns, layers, apps, dbs, caches, born>>
  BY DEF PatchStatus
<1>2. /\ team'.uid = team.uid /\ team'.finalizer = team.finalizer
      /\ team'.deleting = team.deleting
  BY DEF PatchStatus, TypeOK, Team
<1>3. ~StaleReads => NamespaceNeedsFinalizer'
  BY <1>1, <1>2 DEF IInv, CurrentInv, NamespaceNeedsFinalizer
<1>4. CASE Finish(TRUE) \/ Finish(rec.retry)
  BY <1>1, <1>2, <1>3, <1>4, FinishInv DEF TypeOK, Reconcile
<1>5. CASE rec.next # "idle" /\ Continue([rec EXCEPT !.pc = rec.next])
  <2>1. /\ rec'.pc = "listApps" /\ rec'.seen = rec.seen /\ rec.next = "listApps"
        /\ UNCHANGED <<unseen, claimed>>
    BY <1>5 DEF Continue, TypeOK, Reconcile
  <2>2. TenantInv'
    BY <1>1, <2>1, TenantsFollow DEF IInv
  <2>3. OwnerInv'
    BY <1>1, <1>2, <2>1 DEF IInv, OwnerInv, UidsInOrder, NamespaceSeen,
       NamespaceChecked, Deleting, LayerChecked
  <2>4. ASSUME ~StaleReads PROVE CurrentInv'
    BY <1>1, <1>2, <1>3, <2>1, <2>4 DEF IInv, CurrentInv, HeldByFinalizer,
       ReleaseJustified
  <2>. QED
    BY <2>2, <2>3, <2>4 DEF IInv
<1>. QED
  BY <1>4, <1>5 DEF PatchStatus, AfterStatus

\* The steps of reconcileDeletion that stay in the deletion: the Namespace has
\* passed its check, and an empty list says that nothing listed is left.
LEMMA DeletionFollows ==
  ASSUME TypeOK, IInv, rec.pc \in {"listApps", "dropApps", "listDbs", "dropDbs"},
         rec'.pc \in {"dropApps", "listDbs", "dropDbs", "dropNamespace"},
         rec'.seen = rec.seen,
         UNCHANGED <<team, ns, caches, born, claimed>>
  PROVE  OwnerInv' /\ (~StaleReads => CurrentInv')
<1> USE DEF caches
<1>1. OwnerInv'
  BY DEF IInv, OwnerInv, UidsInOrder, NamespaceSeen, NamespaceChecked, Deleting, LayerChecked
<1>2. ASSUME ~StaleReads PROVE CurrentInv'
  BY <1>2 DEF IInv, CurrentInv, HeldByFinalizer, NamespaceNeedsFinalizer, ReleaseJustified
<1>. QED
  BY <1>1, <1>2

LEMMA ListInv ==
  ASSUME TypeOK, IInv, ListApplications \/ ListDatabases
  PROVE  IInv'
<1> USE DEF api, caches, bounds
<1>1. UNCHANGED <<api, caches, born, unseen, claimed>> /\ rec.pc \in {"listApps", "listDbs"}
  BY DEF ListApplications, ListDatabases
<1>2. rec'.seen = rec.seen
  BY DEF ListApplications, ListDatabases, TypeOK, Reconcile
<1>3. ASSUME ListApplications PROVE TenantInv'
  <2>1. CASE ListedApplications = {}
    <3>1. \A a \in Applications : Present(a) => a \in unseen
      BY <1>1, <2>1, TenantKinds DEF IInv, TenantInv, TenantsSeen, ListedApplications, Tenant
    <3>2. rec'.pc = "listDbs"
      BY <1>3, <2>1 DEF ListApplications, TypeOK, Reconcile
    <3>. QED
      BY <1>1, <3>1, <3>2 DEF IInv, TenantInv, TenantsSeen, ApplicationsListed,
         TenantsListed, Present, InCache
  <2>2. CASE ListedApplications # {}
    <3>1. rec'.pc = "dropApps"
      BY <1>3, <2>2 DEF ListApplications, TypeOK, Reconcile
    <3>. QED
      BY <1>1, <3>1, TenantsFollow DEF IInv
  <2>. QED
    BY <2>1, <2>2
<1>4. ASSUME ListDatabases PROVE TenantInv'
  <2>1. rec.pc = "listDbs" /\ rec'.pc \in {"dropDbs", "dropNamespace"}
    BY <1>4 DEF ListDatabases, TypeOK, Reconcile
  <2>2. TenantsSeen' /\ ApplicationsListed'
    BY <1>1, <2>1 DEF IInv, TenantInv, TenantsSeen, ApplicationsListed, Present, InCache
  <2>3. ASSUME rec'.pc = "dropNamespace", NEW d \in Databases, Present(d)
        PROVE  d \in unseen
    <3>1. ListedDatabases = {}
      BY <1>4, <2>3 DEF ListDatabases, TypeOK, Reconcile
    <3>. QED
      BY <2>1, <2>3, <3>1, TenantKinds DEF IInv, TenantInv, TenantsSeen, ListedDatabases,
         Tenant
  <2>4. TenantsListed'
    BY <1>1, <2>1, <2>3 DEF IInv, TenantInv, ApplicationsListed, TenantsListed, Present, Tenant
  <2>. QED
    BY <2>2, <2>4 DEF TenantInv
<1>5. rec'.pc \in {"dropApps", "listDbs", "dropDbs", "dropNamespace"}
  BY DEF ListApplications, ListDatabases, TypeOK, Reconcile
<1>. QED
  BY <1>1, <1>2, <1>3, <1>4, <1>5, DeletionFollows DEF IInv

\* Asking for a tenant's deletion does not make one appear.
LEMMA DeleteTenantsInv ==
  ASSUME TypeOK, IInv, DeleteApplications \/ DeleteDatabases
  PROVE  IInv'
<1> USE DEF api, caches, bounds
<1>1. UNCHANGED <<team, ns, layers, caches, born>> /\ rec.pc \in {"dropApps", "dropDbs"}
  BY DEF DeleteApplications, DeleteDatabases
<1>2. CASE Finish(TRUE)
  BY <1>1, <1>2, FinishInv DEF IInv, CurrentInv, NamespaceNeedsFinalizer
<1>3. CASE ~Finish(TRUE)
  <2>1. /\ rec'.pc = rec.pc /\ rec'.seen = rec.seen
        /\ UNCHANGED <<unseen, claimed>>
    BY <1>3 DEF DeleteApplications, DeleteDatabases, Continue, TypeOK, Reconcile
  <2>2. \A t \in Tenant : Present(t)' => Present(t)
    <3>1. ASSUME NEW a \in Applications, UNCHANGED dbs,
                 apps' = [apps EXCEPT ![a] = IF @ = "live" THEN "deleting" ELSE @]
          PROVE  \A t \in Tenant : Present(t)' => Present(t)
      BY <3>1 DEF Present, TypeOK
    <3>2. ASSUME NEW d \in Databases, UNCHANGED apps, dbs[d].state # "absent",
                 dbs' = [dbs EXCEPT ![d].hold = "forced"]
          PROVE  \A t \in Tenant : Present(t)' => Present(t)
      BY <3>2 DEF Present, TypeOK, Database, Tenant
    <3>3. ASSUME NEW d \in Databases, UNCHANGED apps,
                 dbs' = [dbs EXCEPT ![d].state = IF @ = "live" THEN "deleting" ELSE @]
          PROVE  \A t \in Tenant : Present(t)' => Present(t)
      BY <3>3 DEF Present, TypeOK, Database, Tenant
    <3>4. rec.unforced \subseteq Databases
      BY DEF TypeOK, Reconcile
    <3>. QED
      BY <1>3, <3>1, <3>2, <3>3, <3>4 DEF DeleteApplications, DeleteDatabases
  <2>3. \A t \in Tenant : InCache(t)' = InCache(t)
    BY <1>1 DEF InCache
  <2>4. TenantInv'
    <3>1. TenantsSeen'
      BY <1>1, <2>1, <2>2, <2>3 DEF IInv, TenantInv, TenantsSeen
    <3>2. ApplicationsListed' /\ TenantsListed'
      BY <1>1, <2>1, <2>2 DEF IInv, TenantInv, ApplicationsListed, TenantsListed, Tenant
    <3>. QED
      BY <3>1, <3>2 DEF TenantInv
  <2>. QED
    BY <1>1, <2>1, <2>4, DeletionFollows DEF IInv
<1>. QED
  BY <1>2, <1>3

\* The last two steps of a deletion, and a failure anywhere.
LEMMA LastStepsInv ==
  ASSUME TypeOK, IInv, DeleteNamespace \/ ReleaseFinalizer \/ Failure
  PROVE  IInv'
<1> USE DEF api, caches, bounds
<1>1. ASSUME DeleteNamespace PROVE IInv'
  <2>1. ns'.owner = ns.owner /\ team' = team
    BY <1>1 DEF DeleteNamespace, TypeOK, Namespace
  <2>. QED
    BY <1>1, <2>1, FinishInv DEF DeleteNamespace, IInv, CurrentInv, NamespaceNeedsFinalizer
<1>2. ASSUME ReleaseFinalizer PROVE IInv'
  <2>1. ns' = ns /\ team'.uid \in {0, team.uid} /\ (team'.uid = 0 \/ ~team.deleting)
    <3>1. NoTeam.uid = 0 /\ [team EXCEPT !.finalizer = FALSE].uid = team.uid
      BY DEF NoTeam, TypeOK, Team
    <3>. QED
      BY <1>2, <3>1 DEF ReleaseFinalizer, TypeOK, Team
  <2>2. ~StaleReads => NamespaceNeedsFinalizer'
    BY <1>2, <2>1 DEF ReleaseFinalizer, IInv, CurrentInv, ReleaseJustified,
       NamespaceNeedsFinalizer
  <2>3. UNCHANGED <<cachedTeam, born>> /\ (Finish(TRUE) \/ Finish(FALSE))
    BY <1>2 DEF ReleaseFinalizer
  <2>. QED
    BY <2>1, <2>2, <2>3, FinishInv
<1>3. ASSUME Interrupt PROVE IInv'
  BY <1>3, FinishInv DEF Interrupt, IInv, CurrentInv, NamespaceNeedsFinalizer
<1>4. ASSUME WriteError PROVE IInv'
  <2>1. rec'.pc = "status" /\ rec'.next = "idle" /\ rec'.seen = rec.seen
    BY <1>4, ReconcileFailureType DEF WriteError, TypeOK, Reason
  <2>. QED
    BY <1>4, <2>1, LiveStepInv DEF WriteError
<1>. QED
  BY <1>1, <1>2, <1>3, <1>4 DEF Failure

-----------------------------------------------------------------------------
(* Theorems *)

\* The inductive invariant holds in every reachable state.
THEOREM InvariantHolds == Spec => [](TypeOK /\ IInv)
<1>1. ASSUME TypeOK, IInv, [Next]_vars PROVE IInv'
  <2>1. CASE UNCHANGED vars
    <3>1. TenantInv'
      BY <1>1, <2>1, TenantsUntouched DEF IInv, vars, api, caches, bounds
    <3>2. OwnerInv' /\ (~StaleReads => CurrentInv')
      BY <1>1, <2>1, OwnersUntouched DEF IInv, TypeOK, vars, api, caches, bounds
    <3>. QED
      BY <3>1, <3>2 DEF IInv
  <2>2. CASE Controller
    BY <1>1, <2>2, StartReconcileInv, AddFinalizerInv, CheckOwnershipInv, WriteObjectInv,
       PatchStatusInv, ListInv, DeleteTenantsInv, LastStepsInv DEF Controller
  <2>3. CASE People \/ Others \/ Drift \/ Platform \/ Informers
    <3>1. TeamStep \/ TenantStep \/ BoundaryStep
      BY <2>3 DEF People, Others, Drift, Platform, Informers, TeamStep, TenantStep,
         BoundaryStep
    <3>. QED
      BY <1>1, <3>1, TeamStepInv, TenantStepInv, BoundaryStepInv
  <2>. QED
    BY <1>1, <2>1, <2>2, <2>3, LastStepsInv DEF Next
<1>. QED
  BY TypeCorrect, InitInv, <1>1, PTL DEF Spec

\* The Namespace's termination, started by the controller, takes along only
\* tenants that the informers did not have when the reconcile began.
THEOREM NamespaceIsLast == Spec => NamespaceGoesLast
<1>1. ASSUME IInv
      PROVE  rec.pc = "dropNamespace" /\ ~ns.deleting /\ ns'.deleting
               => \A t \in Tenant : Present(t) => t \in unseen
  BY <1>1 DEF IInv, TenantInv, TenantsListed
<1>. QED
  BY InvariantHolds, <1>1, PTL DEF NamespaceGoesLast

\* No Database is touched while an Application is left that could be listed.
THEOREM ApplicationsAreFirst == Spec => ApplicationsGoFirst
<1>1. ASSUME IInv
      PROVE  rec.pc = "dropDbs" /\ rec' # rec /\ dbs' # dbs
               => \A a \in Applications : Present(a) => a \in unseen
  BY <1>1 DEF IInv, TenantInv, ApplicationsListed
<1>. QED
  BY InvariantHolds, <1>1, PTL DEF ApplicationsGoFirst

\* The controller writes and deletes what is visibly somebody else's only if
\* it was taken after the reconcile's caches were filled or its check was made.
THEOREM ForeignObjectsUntouched == Spec => OthersUntouched
<1>1. ASSUME TypeOK, IInv, [Next]_vars,
             rec.pc \in {"write", "dropNamespace"}, rec' # rec
      PROVE  /\ ns.owner \notin {0, rec.seen.uid} /\ ns' # ns => "Namespace" \in claimed
             /\ \A l \in Layer :
                  layers[l].owner \notin {0, rec.seen.uid} /\ layers'[l] # layers[l]
                    => l \in claimed
  <2>1. WriteObject \/ DeleteNamespace \/ UNCHANGED <<ns, layers>>
    <3>1. CASE Controller
      BY <1>1, <3>1 DEF Controller, StartReconcile, AddFinalizer, CheckOwnership,
         PatchStatus, ListApplications, DeleteApplications, ListDatabases,
         DeleteDatabases, ReleaseFinalizer, api
    <3>2. CASE Failure
      BY <3>2 DEF Failure, Interrupt, WriteError, api
    <3>3. CASE People \/ Others \/ Drift \/ Platform \/ Informers \/ UNCHANGED vars
      <4>1. TeamStep \/ TenantStep \/ BoundaryStep \/ UNCHANGED vars
        BY <3>3 DEF People, Others, Drift, Platform, Informers, TeamStep, TenantStep,
           BoundaryStep
      <4>2. rec' = rec
        BY <4>1 DEF TeamStep, TenantStep, BoundaryStep, Create, EditSpec, AnnotateForce,
           RequestDelete, CreateApplication, ApplicationGone, CreateDatabase, PruneTenant,
           FinalBackupFails, DatabaseGone, NamespaceCascade, WatchApplications,
           WatchDatabases, ClaimNamespace, ClaimantDeletes, ClaimLayer, LabelDrifts,
           LayerDrifts, RoleDrifts, RoleRestored, NamespaceGone, WatchTeam,
           WatchNamespace, vars
      <4>. QED
        BY <1>1, <4>2
    <3>. QED
      BY <1>1, <3>1, <3>2, <3>3 DEF Next
  <2>2. CASE WriteObject /\ ObjectAt[rec.stage] = "Namespace"
    <3>1. rec.stage = 1 /\ rec.pc = "write" /\ UNCHANGED layers
      BY <1>1, <2>2 DEF WriteObject, ObjectAt, TypeOK, Reconcile, Stage
    <3>2. ns' # ns => ns.owner = 0 \/ cachedNs = ns
      BY <2>2 DEF WriteObject, WriteNamespace
    <3>. QED
      BY <1>1, <3>1, <3>2 DEF IInv, OwnerInv, NamespaceChecked
  <2>3. CASE WriteObject /\ ObjectAt[rec.stage] # "Namespace"
    <3>1. rec.stage # 1 /\ rec.pc = "write" /\ UNCHANGED ns
      BY <2>3 DEF WriteObject, ObjectAt
    <3>2. \A l \in Layer \ {ObjectAt[rec.stage]} : layers'[l] = layers[l]
      BY <1>1, <2>3 DEF WriteObject, WriteLayer, TypeOK
    <3>. QED
      BY <1>1, <3>1, <3>2 DEF IInv, OwnerInv, LayerChecked
  <2>4. CASE DeleteNamespace
    <3>1. rec.pc = "dropNamespace" /\ UNCHANGED layers
      BY <2>4 DEF DeleteNamespace
    <3>2. ns.owner \in {0, rec.seen.uid} \/ "Namespace" \in claimed
      BY <1>1, <3>1 DEF IInv, OwnerInv, NamespaceSeen, NamespaceChecked, Deleting
    <3>. QED
      BY <3>1, <3>2
  <2>. QED
    BY <2>1, <2>2, <2>3, <2>4
<1>. QED
  BY InvariantHolds, <1>1, PTL DEF OthersUntouched, Spec

\* If reconciles start on current caches, a Team that goes leaves no Namespace.
THEOREM NoNamespaceIsOrphaned == ~StaleReads => (Spec => NoOrphan)
<1> SUFFICES ASSUME ~StaleReads PROVE Spec => NoOrphan
  OBVIOUS
<1>1. ASSUME TypeOK, IInv, [Next]_vars, team.uid # 0, team'.uid = 0
      PROVE  ns.owner # team.uid
  <2>1. CASE RequestDelete
    <3>1. ~team.finalizer
      BY <1>1, <2>1 DEF RequestDelete, TypeOK, Team
    <3>. QED
      BY <1>1, <3>1 DEF IInv, CurrentInv, NamespaceNeedsFinalizer
  <2>2. CASE ReleaseFinalizer
    <3>1. team.uid # Foreign
      BY InitialValues, <1>1 DEF TypeOK, Team
    <3>. QED
      BY <1>1, <2>2, <3>1 DEF ReleaseFinalizer, IInv, CurrentInv, ReleaseJustified
  <2>3. CASE ~RequestDelete /\ ~ReleaseFinalizer
    <3>1. team'.uid = team.uid
      <4>1. CASE Create(TRUE) \/ Create(FALSE)
        BY <1>1, <4>1 DEF Create
      <4>2. CASE EditSpec(TRUE) \/ EditSpec(FALSE) \/ AnnotateForce \/ AddFinalizer
                 \/ PatchStatus
        BY <1>1, <4>2 DEF EditSpec, AnnotateForce, AddFinalizer, PatchStatus, TypeOK, Team
      <4>3. CASE team' = team
        BY <4>3
      <4>4. TenantStep \/ BoundaryStep \/ Failure => team' = team
        BY DEF TenantStep, BoundaryStep, CreateApplication, ApplicationGone,
           CreateDatabase, PruneTenant, FinalBackupFails, DatabaseGone, NamespaceCascade,
           WatchApplications, WatchDatabases, ClaimNamespace, ClaimantDeletes, ClaimLayer,
           LabelDrifts, LayerDrifts, RoleDrifts, RoleRestored, NamespaceGone, WatchTeam,
           WatchNamespace, Failure, Interrupt, WriteError, api
      <4>5. \/ Create(TRUE) \/ Create(FALSE) \/ EditSpec(TRUE) \/ EditSpec(FALSE)
            \/ AnnotateForce \/ TenantStep \/ BoundaryStep \/ Failure
            \/ Controller \/ UNCHANGED vars
        BY <1>1, <2>3 DEF Next, People, Others, Drift, Platform, Informers, TenantStep,
           BoundaryStep
      <4>6. Controller => team' = team \/ AddFinalizer \/ PatchStatus
        BY <2>3 DEF Controller, StartReconcile, CheckOwnership, WriteObject,
           ListApplications, DeleteApplications, ListDatabases, DeleteDatabases,
           DeleteNamespace, api
      <4>. QED
        BY <4>1, <4>2, <4>3, <4>4, <4>5, <4>6 DEF vars, api
    <3>. QED
      BY <1>1, <3>1
  <2>. QED
    BY <2>1, <2>2, <2>3
<1>. QED
  BY InvariantHolds, <1>1, PTL DEF NoOrphan, Spec

=============================================================================
