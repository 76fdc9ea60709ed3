-------------------------- MODULE DatabaseLifecycle --------------------------
(***************************************************************************)
(* The Database controller (internal/controller/database_controller.go) on *)
(* one Database name of one Team namespace: provisioning of the children,  *)
(* backup-gated readiness, and the finalizer that takes one deterministic  *)
(* final Backup before the CloudNativePG Cluster is deleted.               *)
(*                                                                         *)
(* A Database name lives several times: it is created, deleted and created *)
(* again with a new UID.  A lifetime is the number 1, 2, ... of its UID.   *)
(*                                                                         *)
(* The controller reads the Database from an informer cache that lags, and *)
(* everything else (unstructured children, Backups) from the API server.   *)
(* Each API write is a step of its own, so the environment, a crash or an  *)
(* API error may come between any two of them.                             *)
(*                                                                         *)
(* Abstractions: the children that no property tells apart are one child   *)
(* each: "Archive" (credential copy and ObjectStore) and "Support" (ingress *)
(* NetworkPolicies, ServiceMonitor, PrometheusRule).  "Egress" is the      *)
(* NetworkPolicy that lets PostgreSQL reach the backup store.  Events,     *)
(* metrics and condition texts are left out; the order of Backup           *)
(* timestamps is a nondeterministic choice.                                *)
(***************************************************************************)
EXTENDS Integers, Sequences

CONSTANTS
  MaxLifetimes,      \* bound: how often the name is created
  MaxEdits,          \* bound: spec or annotation edits of all lifetimes
  MaxFaults,         \* bound: crashes, API errors and Cluster outages
  MaxBackupFailures, \* bound: Backups that CloudNativePG reports as failed
  MaxScheduled,      \* bound: Backups that ScheduledBackups start
  MayReject,         \* may the spec be invalid or the tenancy check fail?
  StaleReads,        \* may a reconcile start on a lagging cache?
  EditsWhileDeleting \* may backups.enabled change on a terminating Database?

ASSUME BoundsAssumption ==
  /\ MaxLifetimes \in Nat \ {0}
  /\ MaxEdits \in Nat
  /\ MaxFaults \in Nat
  /\ MaxBackupFailures \in Nat
  /\ MaxScheduled \in Nat

ASSUME SwitchAssumption ==
  /\ MayReject \in BOOLEAN
  /\ StaleReads \in BOOLEAN
  /\ EditsWhileDeleting \in BOOLEAN

VARIABLES
  db,        \* the Database object in the API server (uid 0: no object)
  cached,    \* the informer's copy of it
  children,  \* children[c]: lifetime named by c's owner reference, 0: absent
  plugin,    \* does the Cluster's spec name the Barman plugin?
  clusterReady, \* the Cluster's Ready condition
  final,     \* the Backup "<name>-final": its phase and whom it was made for
  backups,   \* per lifetime: the Backups its ScheduledBackup produced
  rec,       \* the reconcile in progress
  dirty,     \* is the Database's key in the workqueue?
  born,      \* lifetimes created so far
  edits, faults, failures, scheduled, \* consumed bounds
  \* History, read by the properties only:
  excused,   \* lifetimes seen terminating with force or with backups disabled
  saved,     \* lifetimes whose data a final Backup captured while terminating
  removed,   \* lifetimes whose Cluster the finalizer path deleted
  reused,    \* lifetimes whose gate was opened by another lifetime's Backup
  backedUp   \* lifetimes with a completed Backup of any kind

apiVars  == <<db, born, edits>>
dataVars == <<children, plugin, clusterReady, final, backups, failures, scheduled>>
ghosts   == <<excused, saved, removed, reused, backedUp>>
vars == <<apiVars, cached, dataVars, rec, dirty, faults, ghosts>>

-----------------------------------------------------------------------------
(* Data *)

Lifetime == 1..MaxLifetimes
Owner    == 0..MaxLifetimes

Child == {"Archive", "ScheduledBackup", "Egress", "Cluster", "Support"}
BackupKit == {"Archive", "ScheduledBackup", "Egress"}

\* The status subresource: observedGeneration, the phase, and of the list of
\* conditions the Ready condition with the generation it was made at.
Phase == {"Unset", "Degraded", "Provisioning", "BackingUp", "Healthy", "Deleting"}
Status == [gen: Nat, phase: Phase, readyGen: Nat, ready: BOOLEAN]
NoStatus == [gen |-> 0, phase |-> "Unset", readyGen |-> 0, ready |-> FALSE]

Database ==
  [uid: Owner, gen: Nat, enabled: BOOLEAN, valid: BOOLEAN, force: BOOLEAN,
   deleting: BOOLEAN, finalizer: BOOLEAN, status: Status]

NoDatabase ==
  [uid |-> 0, gen |-> 0, enabled |-> FALSE, valid |-> FALSE, force |-> FALSE,
   deleting |-> FALSE, finalizer |-> FALSE, status |-> NoStatus]

\* A Backup's phase; "none" is an absent object, "pending" every phase before
\* a terminal one.  CloudNativePG never leaves "completed" or "failed".
BackupPhase == {"none", "pending", "completed", "failed"}
FinalBackup == [phase: BackupPhase, for: Owner]
BackupSummary == [latest: BackupPhase, success: BOOLEAN]

StepName == {"idle", "finalizer", "admit", "child", "observe", "status",
             "final", "gate", "dropFinal", "dropCluster", "release"}

Reconcile ==
  [pc: StepName, step: Nat, seen: Database, desired: Status, retry: BOOLEAN]

Idle == [pc |-> "idle", step |-> 0, seen |-> NoDatabase,
         desired |-> NoStatus, retry |-> FALSE]

ApiType ==
  /\ db \in Database /\ cached \in Database
  /\ born \in Owner /\ edits \in Nat

DataType ==
  /\ children \in [Child -> Owner]
  /\ plugin \in BOOLEAN /\ clusterReady \in BOOLEAN
  /\ final \in FinalBackup
  /\ backups \in [Lifetime -> BackupSummary]
  /\ failures \in Nat /\ scheduled \in Nat

ControlType == rec \in Reconcile /\ dirty \in BOOLEAN /\ faults \in Nat

GhostType ==
  /\ excused \subseteq Lifetime
  /\ saved \subseteq Lifetime
  /\ removed \subseteq Lifetime
  /\ reused \subseteq Owner
  /\ backedUp \subseteq Lifetime

TypeOK == ApiType /\ DataType /\ ControlType /\ GhostType

Init ==
  /\ db = NoDatabase
  /\ cached = NoDatabase
  /\ children = [c \in Child |-> 0]
  /\ plugin = FALSE
  /\ clusterReady = FALSE
  /\ final = [phase |-> "none", for |-> 0]
  /\ backups = [u \in Lifetime |-> [latest |-> "none", success |-> FALSE]]
  /\ rec = Idle
  /\ dirty = FALSE
  /\ born = 0
  /\ edits = 0 /\ faults = 0 /\ failures = 0 /\ scheduled = 0
  /\ excused = {} /\ saved = {} /\ removed = {} /\ reused = {} /\ backedUp = {}

-----------------------------------------------------------------------------
(* The owner of the desired state: Argo CD and the people behind Git *)

\* A terminating Database that needs no final Backup: the operator accepted
\* the loss with the force annotation, or backups are off.
Waived(d) == d.deleting /\ (d.force \/ ~d.enabled)

ExcuseIfWaived(d) == excused' = IF Waived(d) THEN excused \cup {d.uid} ELSE excused

Create(enabled, valid) ==
  /\ db.uid = 0
  /\ born < MaxLifetimes
  /\ MayReject \/ valid
  /\ born' = born + 1
  /\ db' = [NoDatabase EXCEPT !.uid = born + 1, !.gen = 1,
                              !.enabled = enabled, !.valid = valid]
  /\ UNCHANGED <<cached, dataVars, rec, dirty, edits, faults, ghosts>>

\* A spec change bumps metadata.generation.  backups.enabled is mutable.
EditSpec(enabled, valid) ==
  /\ db.uid # 0
  /\ edits < MaxEdits
  /\ MayReject \/ valid
  /\ <<enabled, valid>> # <<db.enabled, db.valid>>
  /\ db.deleting => EditsWhileDeleting
  /\ edits' = edits + 1
  /\ db' = [db EXCEPT !.gen = @ + 1, !.enabled = enabled, !.valid = valid]
  /\ ExcuseIfWaived(db')
  /\ UNCHANGED <<born, cached, dataVars, rec, dirty, faults,
                 saved, removed, reused, backedUp>>

\* The annotation steadystate.dev/force-delete=true; no generation change.
AnnotateForce ==
  /\ db.uid # 0
  /\ ~db.force
  /\ edits < MaxEdits
  /\ edits' = edits + 1
  /\ db' = [db EXCEPT !.force = TRUE]
  /\ ExcuseIfWaived(db')
  /\ UNCHANGED <<born, cached, dataVars, rec, dirty, faults,
                 saved, removed, reused, backedUp>>

\* Without a finalizer the object is gone at once; with one it terminates.
RequestDelete ==
  /\ db.uid # 0
  /\ ~db.deleting
  /\ \/ /\ db.finalizer
        /\ db' = [db EXCEPT !.deleting = TRUE, !.gen = @ + 1]
        /\ ExcuseIfWaived(db')
     \/ /\ ~db.finalizer
        /\ db' = NoDatabase
        /\ UNCHANGED excused
  /\ UNCHANGED <<born, edits, cached, dataVars, rec, dirty, faults,
                 saved, removed, reused, backedUp>>

-----------------------------------------------------------------------------
(* Informer cache and workqueue *)

\* The watch delivers the Database's present version and enqueues its key.
Watch ==
  /\ cached # db
  /\ cached' = db
  /\ dirty' = TRUE
  /\ UNCHANGED <<apiVars, dataVars, rec, faults, ghosts>>

\* Mutant: no watch on Backups.
EnqueueForBackupUnwatched == dirty' = dirty

\* A Backup event is mapped to the Database whose Cluster it names, looked up
\* in the cache.
EnqueueForBackup == dirty' = (dirty \/ cached.uid # 0)

NeedsFinalBackup(d) == d.enabled /\ ~d.force

\* Mutant: the force annotation is ignored.
DeletionEntryIgnoringForce(d) == IF d.enabled THEN "final" ELSE "dropCluster"

\* Mutant: force skips the removal of the final Backup as well.
DeletionEntryKeepingBackup(d) ==
  IF NeedsFinalBackup(d) THEN "final" ELSE "dropCluster"

\* Mutant: without a final Backup the Cluster is left to garbage collection.
DeletionEntryReleasing(d) ==
  CASE NeedsFinalBackup(d) -> "final"
    [] ~NeedsFinalBackup(d) /\ d.force -> "dropFinal"
    [] OTHER -> "release"

DeletionEntry(d) ==
  CASE NeedsFinalBackup(d) -> "final"
    [] ~NeedsFinalBackup(d) /\ d.force -> "dropFinal"
    [] OTHER -> "dropCluster"

\* Mutant: children are applied before the finalizer is in place.
EntryWithoutFinalizer(d) == IF d.deleting THEN DeletionEntry(d) ELSE "admit"

\* Mutant: the force annotation starts the deletion by itself.
EntryOnForce(d) ==
  CASE d.deleting \/ d.force -> DeletionEntry(d)
    [] ~d.deleting /\ ~d.force /\ d.finalizer -> "admit"
    [] OTHER -> "finalizer"

Entry(d) ==
  CASE d.deleting -> DeletionEntry(d)
    [] ~d.deleting /\ d.finalizer -> "admit"
    [] OTHER -> "finalizer"

StartReconcile ==
  /\ rec.pc = "idle"
  /\ dirty
  /\ StaleReads \/ cached = db
  /\ dirty' = FALSE
  /\ rec' = IF cached.uid = 0 \/ (cached.deleting /\ ~cached.finalizer)
            THEN Idle
            ELSE [Idle EXCEPT !.pc = Entry(cached), !.seen = cached]
  /\ UNCHANGED <<apiVars, cached, dataVars, faults, ghosts>>

Finish(again) ==
  /\ rec' = Idle
  /\ dirty' = (dirty \/ again)

-----------------------------------------------------------------------------
(* Reconcile of a live Database *)

Report(d, phase, ready) ==
  [gen |-> d.gen, phase |-> phase, readyGen |-> d.gen, ready |-> ready]

\* Mutant: a phase the CRD's enum does not have.
FailureStatusOutsideEnum(d) == Report(d, "Failed", FALSE)

FailureStatus(d)  == Report(d, "Degraded", FALSE)
DeletingStatus(d) == Report(d, "Deleting", FALSE)

ReportThenReturn(desired, again) ==
  rec' = [rec EXCEPT !.pc = "status", !.desired = desired, !.retry = again]

\* The merge patch carries neither UID nor resourceVersion: it lands on
\* whatever object has the name, and its answer replaces the object in memory.
AddFinalizer ==
  /\ rec.pc = "finalizer"
  /\ \/ /\ db.uid = 0
        /\ Finish(TRUE)
        /\ UNCHANGED db
     \/ /\ db.uid # 0
        /\ db' = [db EXCEPT !.finalizer = TRUE]
        /\ rec' = [rec EXCEPT !.pc = "admit", !.seen = db']
        /\ UNCHANGED dirty
  /\ UNCHANGED <<born, edits, cached, dataVars, faults, ghosts>>

\* Validate, validateDatabaseTenancy and the platform backup credential.
Admit ==
  /\ rec.pc = "admit"
  /\ \/ /\ rec.seen.valid
        /\ rec' = [rec EXCEPT !.pc = "child", !.step = 1]
     \/ /\ ~rec.seen.valid \/ MayReject
        /\ ReportThenReturn(FailureStatus(rec.seen), FALSE)
  /\ UNCHANGED <<apiVars, cached, dataVars, dirty, faults, ghosts>>

\* Mutant: disabling backups forgets the ScheduledBackup.
PlanKeepingSchedule(enabled) ==
  IF enabled
  THEN << <<"apply", "Archive">>, <<"apply", "ScheduledBackup">>,
          <<"apply", "Cluster">>, <<"apply", "Egress">>, <<"apply", "Support">> >>
  ELSE << <<"delete", "Archive">>, <<"delete", "Archive">>,
          <<"delete", "Egress">>, <<"apply", "Cluster">>, <<"apply", "Support">> >>

\* The children in the order in which Reconcile applies or deletes them.
Plan(enabled) ==
  IF enabled
  THEN << <<"apply", "Archive">>, <<"apply", "ScheduledBackup">>,
          <<"apply", "Cluster">>, <<"apply", "Egress">>, <<"apply", "Support">> >>
  ELSE << <<"delete", "Archive">>, <<"delete", "ScheduledBackup">>,
          <<"delete", "Egress">>, <<"apply", "Cluster">>, <<"apply", "Support">> >>

PlanLength == 5

NextChild ==
  rec' = [rec EXCEPT !.pc = IF rec.step = PlanLength THEN "observe" ELSE "child",
                     !.step = @ + 1]

\* reconcileDatabaseObject / reconcileDatabaseUnstructured: create or update,
\* unless SetControllerReference finds another owner.
ApplyChild(c) ==
  \/ /\ children[c] \in {0, rec.seen.uid}
     /\ children' = [children EXCEPT ![c] = rec.seen.uid]
     /\ plugin' = IF c = "Cluster" THEN rec.seen.enabled ELSE plugin
     /\ clusterReady' = IF c = "Cluster" THEN clusterReady /\ children[c] # 0
                                         ELSE clusterReady
     /\ dirty' = (dirty \/ children' # children \/ plugin' # plugin)
     /\ NextChild
  \/ /\ children[c] \notin {0, rec.seen.uid}
     /\ ReportThenReturn(FailureStatus(rec.seen), TRUE)
     /\ UNCHANGED <<children, plugin, clusterReady, dirty>>

\* deleteDatabaseObject: by name, whoever owns the object.
DeleteChild(c) ==
  /\ children' = [children EXCEPT ![c] = 0]
  /\ dirty' = (dirty \/ children[c] # 0)
  /\ NextChild
  /\ UNCHANGED <<plugin, clusterReady>>

ReconcileChild ==
  /\ rec.pc = "child"
  /\ LET todo == Plan(rec.seen.enabled)[rec.step] IN
       IF todo[1] = "apply" THEN ApplyChild(todo[2]) ELSE DeleteChild(todo[2])
  /\ UNCHANGED <<apiVars, cached, final, backups, failures, scheduled, faults, ghosts>>

\* observeDatabaseBackups lists every Backup that names the Cluster, the final
\* one and those of an earlier lifetime included.
BackupPhases ==
  ({backups[u].latest : u \in Lifetime} \cup {final.phase}) \ {"none"}

SuccessfulBackup ==
  \/ \E u \in Lifetime : backups[u].success
  \/ final.phase = "completed"

\* Mutant: a Backup that has not failed counts as success.
StatusFromClusterOptimistic(d, latestPhase) ==
  CASE ~clusterReady -> Report(d, "Provisioning", FALSE)
    [] clusterReady /\ d.enabled /\ latestPhase = "failed" ->
         Report(d, "Degraded", FALSE)
    [] OTHER -> Report(d, "Healthy", TRUE)

StatusFromCluster(d, latestPhase) ==
  CASE ~clusterReady -> Report(d, "Provisioning", FALSE)
    [] clusterReady /\ ~d.enabled -> Report(d, "Healthy", TRUE)
    [] clusterReady /\ d.enabled /\ latestPhase = "failed" ->
         Report(d, "Degraded", FALSE)
    [] clusterReady /\ d.enabled /\ latestPhase # "failed"
         /\ ~SuccessfulBackup -> Report(d, "BackingUp", FALSE)
    [] OTHER ->
         Report(d, IF latestPhase = "pending" THEN "BackingUp" ELSE "Healthy", TRUE)

Observe ==
  /\ rec.pc = "observe"
  /\ \E latest \in (IF BackupPhases = {} THEN {"none"} ELSE BackupPhases) :
       IF children["Cluster"] = 0
       THEN ReportThenReturn(FailureStatus(rec.seen), TRUE)
       ELSE ReportThenReturn(StatusFromCluster(rec.seen, latest), FALSE)
  /\ UNCHANGED <<apiVars, cached, dataVars, dirty, faults, ghosts>>

\* A merge patch holds the fields in which new differs from base.  The list of
\* conditions is one field; it differs whenever anything in the status does.
Merge(live, base, new) ==
  [gen      |-> IF new.gen = base.gen THEN live.gen ELSE new.gen,
   phase    |-> IF new.phase = base.phase THEN live.phase ELSE new.phase,
   readyGen |-> new.readyGen,
   ready    |-> new.ready]

\* patchDatabaseStatus: nothing to do if the object in memory has the status;
\* otherwise read the Database again (from the cache), drop the status of
\* another generation and patch whatever object has the name.
StatusPatchNeeded ==
  /\ rec.seen.status # rec.desired
  /\ cached.uid # 0 => cached.gen = rec.desired.gen /\ cached.status # rec.desired

PatchStatus ==
  /\ rec.pc = "status"
  /\ \/ /\ ~StatusPatchNeeded
        /\ UNCHANGED db
        /\ Finish(rec.retry)
     \/ /\ StatusPatchNeeded
        /\ cached.uid # 0 /\ db.uid # 0
        /\ db' = [db EXCEPT !.status = Merge(@, cached.status, rec.desired)]
        /\ Finish(rec.retry)
     \/ /\ StatusPatchNeeded
        /\ cached.uid = 0 \/ db.uid = 0
        /\ UNCHANGED db
        /\ Finish(rec.retry \/ rec.desired.phase # "Deleting")
  /\ UNCHANGED <<born, edits, cached, dataVars, faults, ghosts>>

-----------------------------------------------------------------------------
(* reconcileDatabaseDeletion *)

\* Create the Backup or update its metadata; it has no owner reference.
CreateFinalBackup ==
  /\ rec.pc = "final"
  /\ final' = IF final.phase = "none"
              THEN [phase |-> "pending", for |-> rec.seen.uid]
              ELSE final
  /\ rec' = [rec EXCEPT !.pc = "gate"]
  /\ EnqueueForBackup
  /\ UNCHANGED <<apiVars, cached, children, plugin, clusterReady, backups,
                 failures, scheduled, faults, ghosts>>

\* Mutant: every terminal phase opens the gate.
GateOpenWhenTerminal == final.phase \in {"completed", "failed"}

\* Only the phase "completed" of the Backup of that name opens the gate.
GateOpen == final.phase = "completed"

FinalBackupGate ==
  /\ rec.pc = "gate"
  /\ \/ /\ GateOpen
        /\ rec' = [rec EXCEPT !.pc = "dropFinal"]
        /\ reused' = IF final.for # rec.seen.uid
                     THEN reused \cup {rec.seen.uid} ELSE reused
     \/ /\ ~GateOpen
        /\ ReportThenReturn(DeletingStatus(rec.seen), FALSE)
        /\ UNCHANGED reused
  /\ UNCHANGED <<apiVars, cached, dataVars, dirty, faults,
                 excused, saved, removed, backedUp>>

\* Mutant: the completed final Backup is kept.
DeleteFinalBackupKeeping ==
  /\ rec.pc = "dropFinal"
  /\ rec' = [rec EXCEPT !.pc = "dropCluster"]
  /\ UNCHANGED <<apiVars, cached, dataVars, dirty, faults, ghosts>>

DeleteFinalBackup ==
  /\ rec.pc = "dropFinal"
  /\ final' = [phase |-> "none", for |-> 0]
  /\ rec' = [rec EXCEPT !.pc = "dropCluster"]
  /\ EnqueueForBackup
  /\ UNCHANGED <<apiVars, cached, children, plugin, clusterReady, backups,
                 failures, scheduled, faults, ghosts>>

\* Child c disappears; with a Cluster its owner's PostgreSQL volumes do.
Vanish(c) ==
  /\ children' = [children EXCEPT ![c] = 0]
  /\ plugin' = (plugin /\ c # "Cluster")
  /\ clusterReady' = (clusterReady /\ c # "Cluster")
  /\ removed' = IF c = "Cluster" THEN removed \cup ({children[c]} \ {0})
                                 ELSE removed

DeleteCluster ==
  /\ rec.pc = "dropCluster"
  /\ Vanish("Cluster")
  /\ rec' = [rec EXCEPT !.pc = "release"]
  /\ dirty' = (dirty \/ children["Cluster"] # 0)
  /\ UNCHANGED <<apiVars, cached, final, backups, failures, scheduled, faults,
                 excused, saved, reused, backedUp>>

\* The finalizer patch; the API server removes a terminating object with it.
ReleaseFinalizer ==
  /\ rec.pc = "release"
  /\ \/ /\ db.uid = 0
        /\ Finish(TRUE)
        /\ UNCHANGED db
     \/ /\ db.uid # 0 /\ db.deleting
        /\ db' = NoDatabase
        /\ Finish(FALSE)
     \/ /\ db.uid # 0 /\ ~db.deleting
        /\ db' = [db EXCEPT !.finalizer = FALSE]
        /\ Finish(FALSE)
  /\ UNCHANGED <<born, edits, cached, dataVars, faults, ghosts>>

-----------------------------------------------------------------------------
(* Failures *)

\* A crash of the manager, or an API error that Reconcile returns at once.
Interrupt ==
  /\ rec.pc # "idle"
  /\ faults < MaxFaults
  /\ faults' = faults + 1
  /\ Finish(TRUE)
  /\ UNCHANGED <<apiVars, cached, dataVars, ghosts>>

\* An API error on a child or on the final Backup: report it, then retry.
WriteError ==
  /\ faults < MaxFaults
  /\ faults' = faults + 1
  /\ \/ rec.pc = "child" /\ ReportThenReturn(FailureStatus(rec.seen), TRUE)
     \/ rec.pc = "final" /\ ReportThenReturn(DeletingStatus(rec.seen), TRUE)
  /\ UNCHANGED <<apiVars, cached, dataVars, dirty, ghosts>>

-----------------------------------------------------------------------------
(* External: CloudNativePG, the Barman plugin and Kubernetes' collector *)

ClusterBecomesReady ==
  /\ children["Cluster"] # 0 /\ ~clusterReady
  /\ clusterReady' = TRUE
  /\ dirty' = TRUE
  /\ UNCHANGED <<apiVars, cached, children, plugin, final, backups, failures, scheduled,
                 rec, faults, ghosts>>

ClusterOutage ==
  /\ clusterReady
  /\ faults < MaxFaults
  /\ faults' = faults + 1
  /\ clusterReady' = FALSE
  /\ dirty' = TRUE
  /\ UNCHANGED <<apiVars, cached, children, plugin, final, backups, failures, scheduled,
                 rec, ghosts>>

\* A Backup can be taken of a ready Cluster that names the plugin, while the
\* archive's objects exist.
CanBackUp ==
  /\ children["Cluster"] # 0 /\ clusterReady /\ plugin
  /\ children["Archive"] # 0 /\ children["Egress"] # 0

FinalBackupCompletes ==
  /\ final.phase = "pending"
  /\ CanBackUp
  /\ final' = [final EXCEPT !.phase = "completed"]
  /\ saved' = IF db.deleting /\ db.uid = children["Cluster"]
              THEN saved \cup {db.uid} ELSE saved
  /\ backedUp' = backedUp \cup {children["Cluster"]}
  /\ EnqueueForBackup
  /\ UNCHANGED <<apiVars, cached, children, plugin, clusterReady, backups,
                 failures, scheduled, rec, faults, excused, removed, reused>>

FinalBackupFails ==
  /\ final.phase = "pending"
  /\ failures < MaxBackupFailures
  /\ failures' = failures + 1
  /\ final' = [final EXCEPT !.phase = "failed"]
  /\ EnqueueForBackup
  /\ UNCHANGED <<apiVars, cached, children, plugin, clusterReady, backups,
                 scheduled, rec, faults, ghosts>>

ScheduledBackupStarts(u) ==
  /\ children["ScheduledBackup"] = u
  /\ scheduled < MaxScheduled
  /\ scheduled' = scheduled + 1
  /\ backups[u].latest # "pending"
  /\ backups' = [backups EXCEPT ![u].latest = "pending"]
  /\ EnqueueForBackup
  /\ UNCHANGED <<apiVars, cached, children, plugin, clusterReady, final,
                 failures, rec, faults, ghosts>>

ScheduledBackupCompletes(u) ==
  /\ backups[u].latest = "pending"
  /\ CanBackUp
  /\ backups' = [backups EXCEPT ![u] = [latest |-> "completed", success |-> TRUE]]
  /\ backedUp' = backedUp \cup {children["Cluster"]}
  /\ EnqueueForBackup
  /\ UNCHANGED <<apiVars, cached, children, plugin, clusterReady, final,
                 failures, scheduled, rec, faults, excused, saved, removed, reused>>

ScheduledBackupFails(u) ==
  /\ backups[u].latest = "pending"
  /\ failures < MaxBackupFailures
  /\ failures' = failures + 1
  /\ backups' = [backups EXCEPT ![u].latest = "failed"]
  /\ EnqueueForBackup
  /\ UNCHANGED <<apiVars, cached, children, plugin, clusterReady, final,
                 scheduled, rec, faults, ghosts>>

\* Owner references: a child goes with its Database, a scheduled Backup with
\* its ScheduledBackup (backupOwnerReference: self).  The final Backup stays.
CollectChild(c) ==
  /\ children[c] \notin {0, db.uid}
  /\ Vanish(c)
  /\ dirty' = TRUE
  /\ UNCHANGED <<apiVars, cached, final, backups, failures, scheduled, rec, faults,
                 excused, saved, reused, backedUp>>

CollectBackups(u) ==
  /\ children["ScheduledBackup"] # u
  /\ backups[u].latest # "none"
  /\ backups' = [backups EXCEPT ![u] = [latest |-> "none", success |-> FALSE]]
  /\ EnqueueForBackup
  /\ UNCHANGED <<apiVars, cached, children, plugin, clusterReady, final,
                 failures, scheduled, rec, faults, ghosts>>

-----------------------------------------------------------------------------
(* Specification *)

Intent ==
  \/ \E enabled, valid \in BOOLEAN : Create(enabled, valid)
  \/ \E enabled, valid \in BOOLEAN : EditSpec(enabled, valid)
  \/ AnnotateForce
  \/ RequestDelete

Controller ==
  \/ StartReconcile
  \/ AddFinalizer
  \/ Admit
  \/ ReconcileChild
  \/ Observe
  \/ PatchStatus
  \/ CreateFinalBackup
  \/ FinalBackupGate
  \/ DeleteFinalBackup
  \/ DeleteCluster
  \/ ReleaseFinalizer

Failure == Interrupt \/ WriteError \/ ClusterOutage

External ==
  \/ Watch
  \/ ClusterBecomesReady
  \/ FinalBackupCompletes
  \/ FinalBackupFails
  \/ \E u \in Lifetime : ScheduledBackupStarts(u)
  \/ \E u \in Lifetime : ScheduledBackupCompletes(u)
  \/ \E u \in Lifetime : ScheduledBackupFails(u)
  \/ \E c \in Child : CollectChild(c)
  \/ \E u \in Lifetime : CollectBackups(u)

Next == Intent \/ Controller \/ Failure \/ External

Spec == Init /\ [][Next]_vars

\* The workqueue runs an enqueued key, the manager is restarted, informers
\* catch up and Kubernetes collects garbage; CloudNativePG starts Clusters and
\* runs Backups.  Nobody has to edit, force or delete anything.
Fairness ==
  /\ WF_vars(Controller)
  /\ WF_vars(Watch)
  /\ WF_vars(ClusterBecomesReady)
  /\ WF_vars(FinalBackupCompletes)
  /\ \A c \in Child : WF_vars(CollectChild(c))

FairSpec == Spec /\ Fairness

-----------------------------------------------------------------------------
(* Properties *)

\* reconcileDatabaseDeletion removes a data plane only after a final Backup
\* completed while that lifetime was terminating, or when the operator waived
\* the Backup (force annotation, backups disabled), or when a completed Backup
\* left by another lifetime of the name opened the gate -- no crash, API
\* error, lagging cache or name reuse opens another way.
RemovalJustified == removed \subseteq (excused \cup saved \cup reused)

\* Reconcile adds the finalizer before it creates a child and nothing takes it
\* off a Database with a data plane: a deletion cannot bypass the gate.
FinalizerProtects ==
  \A c \in Child : db.uid # 0 /\ children[c] = db.uid => db.finalizer

\* The finalizer path deletes by name, without a UID precondition; all the
\* same the Cluster of a Database nobody asked to delete is never removed.
LiveDataPlaneKept ==
  [][db.uid # 0 /\ ~db.deleting /\ children["Cluster"] = db.uid
       => children'["Cluster"] = db.uid]_vars

\* The condition applicationDatabaseReady trusts (Ready at the current
\* generation) is never true of a Database with backups enabled before some
\* Backup of its name completed, whatever edits race with the status patch.
ReadyMeansBackedUp ==
  LET s == db.status IN
  db.uid # 0 /\ db.enabled /\ s.ready /\ s.readyGen = db.gen /\ s.gen = db.gen
    => \E u \in backedUp : u <= db.uid

\* The ownerless final Backup does not outlive the deletion that made it.
FinalBackupCleanedUp ==
  db.uid = 0 /\ rec.pc = "idle" => final.phase = "none"

\* A terminating Database is released, given a backup store that works.  A
\* failed final Backup breaks it: HangsOnlyWithoutBackup says what is left.
DeletionCompletes == db.deleting ~> db.uid = 0

\* A deletion hangs only when it needs a final Backup that failed or that
\* cannot be taken: no crash, requeue or Backup event mapped back through the
\* cache loses one, and the force annotation, the emergency escape hatch,
\* releases in every case.
HangsOnlyWithoutBackup ==
  <>[]db.deleting
    => <>[](NeedsFinalBackup(db) /\ (final.phase = "failed" \/ ~CanBackUp))

Converged ==
  /\ db.status.gen = db.gen /\ db.status.readyGen = db.gen
  /\ \A c \in Child \ BackupKit : children[c] = db.uid
  /\ \A c \in BackupKit : children[c] = IF db.enabled THEN db.uid ELSE 0
  /\ plugin = db.enabled

\* A Database that is left alone gets exactly the children of its last spec
\* and a status of its last generation, although patchDatabaseStatus drops a
\* status of another generation without asking for a retry.
Converges ==
  <>[](db.uid # 0 /\ ~db.deleting) => <>[](db.uid # 0 => Converged)

-----------------------------------------------------------------------------
(* The contract that the controller implements *)

Justified == excused \cup saved \cup reused

Contract == INSTANCE DatabaseContract WITH
  last <- born, live <- db.uid, ending <- db.deleting,
  data <- children["Cluster"] # 0, cleared <- Justified

\* The contract, as the controller keeps it whatever its caches miss: a
\* completed Backup that another lifetime of the name left clears a lifetime.
KeepsContract == Contract!Spec

OwnContract == INSTANCE DatabaseContract WITH
  last <- born, live <- db.uid, ending <- db.deleting,
  data <- children["Cluster"] # 0, cleared <- excused \cup saved

\* The contract as ADR-0010 has it: only a waiver, or a Backup of the lifetime's
\* own data taken while it terminates, clears it.
KeepsOwnContract == OwnContract!Spec

-----------------------------------------------------------------------------
(* The inductive invariant behind RemovalJustified, FinalizerProtects and   *)
(* LiveDataPlaneKept.  Its parts say how far the cache and the object in the *)
(* controller's memory may lag behind the live Database.                     *)

LiveSteps     == {"admit", "child", "observe"}
DeletionSteps == {"final", "gate", "dropFinal", "dropCluster", "release"}
RemovalSteps  == {"dropFinal", "dropCluster", "release"}

\* UIDs are never reused.
Births ==
  /\ db.uid <= born /\ cached.uid <= born /\ rec.seen.uid <= born
  /\ final.for <= born
  /\ \A c \in Child : children[c] <= born

\* A Database that terminates still has the finalizer.
TerminatingIsHeld ==
  /\ db.deleting => db.finalizer
  /\ db.finalizer => db.uid # 0

\* The cache may miss a deletion or the finalizer, never invent one; it has
\* seen the deletion of every Database that had the finalizer and is gone,
\* and the lifetime that follows does not have it yet.
CacheLags ==
  /\ cached.finalizer \/ cached.deleting => cached.uid # 0
  /\ cached.uid = db.uid =>
       /\ cached.finalizer => db.finalizer
       /\ cached.deleting => db.deleting
  /\ cached.uid # db.uid /\ cached.deleting =>
       /\ ~db.finalizer
       /\ cached.uid \in Justified
  /\ cached.uid \notin {0, db.uid} /\ cached.finalizer => cached.deleting

\* A waived final Backup is on record.
WaiversRecorded ==
  /\ Waived(db) => db.uid \in excused
  /\ Waived(cached) => cached.uid \in excused

\* Past the finalizer, a reconcile of a live Database holds the live object.
LiveReconcile ==
  /\ rec.pc \in LiveSteps =>
       rec.seen.uid # 0 /\ rec.seen.uid = db.uid /\ db.finalizer
  /\ rec.pc \in LiveSteps \cup {"finalizer"} =>
       (cached.deleting => cached.uid = db.uid)
  /\ rec.pc = "child" => rec.step \in 1..PlanLength

\* A deletion in progress is of the live terminating Database or of one that
\* is gone, whose removal was justified and whose successor is untouched.
DeletionReconcile ==
  /\ rec.pc \in DeletionSteps =>
       /\ rec.seen.uid # 0
       /\ rec.seen.uid = db.uid =>
            db.deleting /\ cached.uid = db.uid /\ cached.deleting
       /\ rec.seen.uid # db.uid => ~db.finalizer /\ rec.seen.uid \in Justified
  /\ rec.pc \in RemovalSteps => rec.seen.uid \in Justified

\* The only Cluster is the live Database's, and it goes before the finalizer.
ClusterOwned ==
  /\ children["Cluster"] \in {0, db.uid}
  /\ rec.pc = "release" => children["Cluster"] = 0

\* The final Backup made for a lifetime means what the gate takes it for.
FinalBackupMeaning ==
  final.phase # "none" =>
    /\ final.for # 0
    /\ final.for = db.uid => db.deleting
    /\ final.for # db.uid \/ final.phase = "completed" => final.for \in Justified

IInv ==
  /\ Births
  /\ TerminatingIsHeld
  /\ CacheLags
  /\ WaiversRecorded
  /\ LiveReconcile
  /\ DeletionReconcile
  /\ ClusterOwned
  /\ FinalBackupMeaning
  /\ FinalizerProtects
  /\ RemovalJustified

-----------------------------------------------------------------------------
(* The inductive invariants behind ReadyMeansBackedUp, FinalBackupCleanedUp *)
(* and KeepsOwnContract, for a controller whose cache is up to date when a  *)
(* reconcile starts.                                                        *)

HoldsObject == rec.pc \notin {"idle", "finalizer"}

\* A reconcile works on the lifetime that exists.  The object in its memory is
\* of the live generation, or of an earlier one of the same lifetime.
FreshReconcile ==
  HoldsObject =>
    /\ rec.seen.uid # 0 /\ rec.seen.uid = db.uid /\ db.finalizer
    /\ rec.seen.gen <= db.gen
    /\ rec.seen.gen = db.gen => rec.seen.enabled = db.enabled

\* A completed Backup that observeDatabaseBackups finds is of the live lifetime
\* or of an earlier one.
BackupsOnRecord ==
  /\ db.uid \in {0, born}
  /\ backedUp \subseteq 1..born
  /\ SuccessfulBackup => backedUp # {}

\* What the controller is about to report is about the generation it has read,
\* and Ready with backups enabled takes a completed Backup.
ReportIsSound ==
  rec.pc = "status" =>
    /\ rec.desired.readyGen = rec.seen.gen
    /\ rec.desired.ready /\ rec.seen.enabled => backedUp # {}

\* So does what the API server holds for the current generation.
StatusIsSound ==
  LET s == db.status IN
  /\ s.readyGen <= db.gen
  /\ s.ready /\ s.readyGen = db.gen /\ db.enabled => backedUp # {}

ReadyInv ==
  FreshReconcile /\ BackupsOnRecord /\ ReportIsSound /\ StatusIsSound

\* While backups.enabled cannot change on a terminating Database, a deletion
\* follows one path to its end, the final Backup is of the Database that is
\* terminating, and it is deleted before the Cluster is.
OneDeletionPath ==
  rec.pc \in DeletionSteps =>
    /\ rec.seen.enabled = db.enabled
    /\ rec.pc \in {"final", "gate"} => rec.seen.enabled

FinalBackupOwned ==
  /\ final.phase # "none" =>
       /\ db.uid # 0 /\ db.deleting /\ db.enabled
       /\ final.for = db.uid
  /\ rec.pc \in {"dropCluster", "release"} => final.phase = "none"

CleanupInv ==
  FreshReconcile /\ OneDeletionPath /\ FinalBackupOwned /\ reused = {}

=============================================================================
