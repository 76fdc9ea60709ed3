---------------------- MODULE DatabaseLifecycleProofs ----------------------
(***************************************************************************)
(* Proofs about DatabaseLifecycle, for every value of its constants.       *)
(***************************************************************************)
EXTENDS DatabaseLifecycle, TLAPS

-----------------------------------------------------------------------------
(* Lemmas on the data the controller builds *)

\* The initial values have their types.
LEMMA InitialValues ==
  /\ NoStatus \in Status
  /\ NoDatabase \in Database
  /\ Idle \in Reconcile
  /\ [phase |-> "none", for |-> 0] \in FinalBackup
  /\ [latest |-> "none", success |-> FALSE] \in BackupSummary
<1>1. NoStatus \in Status
  BY DEF NoStatus, Status, Phase
<1>2. NoDatabase \in Database
  BY <1>1, BoundsAssumption DEF NoDatabase, Database, Owner
<1>3. Idle \in Reconcile
  BY <1>1, <1>2 DEF Idle, Reconcile, StepName
<1>4. [phase |-> "none", for |-> 0] \in FinalBackup
  BY BoundsAssumption DEF FinalBackup, BackupPhase, Owner
<1>5. [latest |-> "none", success |-> FALSE] \in BackupSummary
  BY DEF BackupSummary, BackupPhase
<1>. QED
  BY <1>1, <1>2, <1>3, <1>4, <1>5

\* Every status the controller reports is well formed.
LEMMA ReportType ==
  ASSUME NEW d \in Database, NEW phase \in Phase, NEW ready \in BOOLEAN
  PROVE  Report(d, phase, ready) \in Status
BY DEF Report, Database, Status

\* Reporting a status and returning leads to the status step.
LEMMA ReportThenReturnType ==
  ASSUME rec \in Reconcile, NEW desired \in Status, NEW again \in BOOLEAN,
         ReportThenReturn(desired, again)
  PROVE  rec' \in Reconcile
BY DEF ReportThenReturn, Reconcile, StepName

\* Going to another step of the same reconcile.
LEMMA GotoType ==
  ASSUME rec \in Reconcile, NEW pc \in StepName, rec' = [rec EXCEPT !.pc = pc]
  PROVE  rec' \in Reconcile
BY DEF Reconcile

\* A merge patch of one status onto another yields a status.
LEMMA MergeType ==
  ASSUME NEW live \in Status, NEW base \in Status, NEW new \in Status
  PROVE  Merge(live, base, new) \in Status
BY DEF Merge, Status

\* What a child's disappearance leaves behind.
LEMMA VanishType ==
  ASSUME TypeOK, NEW c \in Child, Vanish(c)
  PROVE  /\ children' \in [Child -> Owner]
         /\ plugin' \in BOOLEAN /\ clusterReady' \in BOOLEAN
         /\ removed' \subseteq Lifetime
<1>1. children' \in [Child -> Owner]
  BY BoundsAssumption DEF TypeOK, DataType, Vanish, Owner
<1>2. plugin' \in BOOLEAN /\ clusterReady' \in BOOLEAN
  BY DEF TypeOK, DataType, Vanish
<1>3. children[c] \in Owner
  BY DEF TypeOK, DataType
<1>4. {children[c]} \ {0} \subseteq Lifetime
  BY <1>3, BoundsAssumption DEF Owner, Lifetime
<1>5. removed' \subseteq Lifetime
  BY <1>4, Zenon DEF TypeOK, GhostType, Vanish
<1>. QED
  BY <1>1, <1>2, <1>5

\* The initial state is well typed.
LEMMA InitType == Init => TypeOK
<1> SUFFICES ASSUME Init PROVE TypeOK
  OBVIOUS
<1>1. ApiType
  BY InitialValues, BoundsAssumption DEF Init, ApiType, Owner
<1>2. DataType
  <2>1. children \in [Child -> Owner]
    BY BoundsAssumption DEF Init, Owner
  <2>2. backups \in [Lifetime -> BackupSummary]
    BY InitialValues DEF Init
  <2>. QED
    BY <2>1, <2>2, InitialValues DEF Init, DataType
<1>3. ControlType
  BY InitialValues DEF Init, ControlType
<1>4. GhostType
  BY DEF Init, GhostType
<1>. QED
  BY <1>1, <1>2, <1>3, <1>4 DEF TypeOK

-----------------------------------------------------------------------------
(* Type correctness *)

\* Steps of the people who own the desired state.
LEMMA IntentType ==
  ASSUME TypeOK, Intent
  PROVE  TypeOK'
<1> USE DEF apiVars, dataVars, ghosts
<1>1. ASSUME NEW d \in Database, excused \subseteq Lifetime, d.uid # 0,
             ExcuseIfWaived(d)
      PROVE  excused' \subseteq Lifetime
  <2>1. d.uid \in Lifetime
    BY <1>1, BoundsAssumption DEF Database, Owner, Lifetime
  <2>. QED
    BY <1>1, <2>1 DEF ExcuseIfWaived
<1>2. ASSUME NEW enabled \in BOOLEAN, NEW valid \in BOOLEAN, Create(enabled, valid)
      PROVE  TypeOK'
  <2>1. born' \in Owner
    BY <1>2, BoundsAssumption DEF TypeOK, ApiType, Create, Owner
  <2>2. db' \in Database
    BY <1>2, <2>1, InitialValues DEF Create, Database
  <2>3. ApiType'
    BY <1>2, <2>1, <2>2 DEF TypeOK, ApiType, Create
  <2>. QED
    BY <1>2, <2>3 DEF Create, TypeOK, DataType, ControlType, GhostType
<1>3. ASSUME NEW enabled \in BOOLEAN, NEW valid \in BOOLEAN, EditSpec(enabled, valid)
      PROVE  TypeOK'
  <2>1. db' \in Database /\ db'.uid = db.uid
    <3>1. db.gen + 1 \in Nat
      BY DEF TypeOK, ApiType, Database
    <3>. QED
      BY <1>3, <3>1 DEF TypeOK, ApiType, EditSpec, Database
  <2>2. ApiType'
    BY <1>3, <2>1 DEF TypeOK, ApiType, EditSpec
  <2>3. excused' \subseteq Lifetime
    BY <1>1, <1>3, <2>1 DEF TypeOK, GhostType, EditSpec
  <2>. QED
    BY <1>3, <2>2, <2>3 DEF EditSpec, TypeOK, DataType, ControlType, GhostType
<1>4. ASSUME AnnotateForce PROVE TypeOK'
  <2>1. db' \in Database /\ db'.uid = db.uid
    BY <1>4 DEF TypeOK, ApiType, AnnotateForce, Database
  <2>2. ApiType'
    BY <1>4, <2>1 DEF TypeOK, ApiType, AnnotateForce
  <2>3. excused' \subseteq Lifetime
    BY <1>1, <1>4, <2>1 DEF TypeOK, GhostType, AnnotateForce
  <2>. QED
    BY <1>4, <2>2, <2>3 DEF AnnotateForce, TypeOK, DataType, ControlType, GhostType
<1>5. ASSUME RequestDelete PROVE TypeOK'
  <2>1. CASE db.finalizer
    <3>1. db' \in Database /\ db'.uid = db.uid
      <4>1. db.gen + 1 \in Nat
        BY DEF TypeOK, ApiType, Database
      <4>. QED
        BY <1>5, <2>1, <4>1 DEF TypeOK, ApiType, RequestDelete, Database
    <3>2. ApiType'
      BY <1>5, <3>1 DEF TypeOK, ApiType, RequestDelete
    <3>3. excused' \subseteq Lifetime
      BY <1>1, <1>5, <2>1, <3>1 DEF TypeOK, GhostType, RequestDelete
    <3>. QED
      BY <1>5, <3>2, <3>3 DEF RequestDelete, TypeOK, DataType, ControlType, GhostType
  <2>2. CASE ~db.finalizer
    BY <1>5, <2>2, InitialValues
       DEF RequestDelete, TypeOK, ApiType, DataType, ControlType, GhostType
  <2>. QED
    BY <2>1, <2>2
<1>. QED
  BY <1>2, <1>3, <1>4, <1>5 DEF Intent

\* Steps of Reconcile and reconcileDatabaseDeletion.
LEMMA ControllerType ==
  ASSUME TypeOK, Controller
  PROVE  TypeOK'
<1> USE DEF apiVars, dataVars, ghosts
<1>1. /\ rec.seen \in Database /\ rec.desired \in Status /\ rec.retry \in BOOLEAN
      /\ db.status \in Status /\ cached.status \in Status
      /\ rec \in Reconcile /\ dirty \in BOOLEAN
  BY DEF TypeOK, ControlType, ApiType, Reconcile, Database
<1>2. ASSUME NEW again \in BOOLEAN, Finish(again)
      PROVE  rec' \in Reconcile /\ dirty' \in BOOLEAN
  BY <1>1, <1>2, InitialValues DEF Finish
<1>3. FailureStatus(rec.seen) \in Status /\ DeletingStatus(rec.seen) \in Status
  BY <1>1, ReportType DEF FailureStatus, DeletingStatus, Phase
<1>4. ASSUME StartReconcile PROVE TypeOK'
  <2>1. \A d \in Database : Entry(d) \in StepName
    BY DEF Entry, DeletionEntry, StepName
  <2>2. rec' \in Reconcile
    BY <1>4, <2>1, InitialValues DEF TypeOK, ApiType, StartReconcile, Reconcile
  <2>. QED
    BY <1>4, <2>2
       DEF StartReconcile, TypeOK, ApiType, DataType, ControlType, GhostType
<1>5. ASSUME AddFinalizer PROVE TypeOK'
  <2>1. CASE db.uid = 0
    BY <1>2, <1>5, <2>1
       DEF AddFinalizer, TypeOK, ApiType, DataType, ControlType, GhostType
  <2>2. CASE db.uid # 0
    <3>1. db' \in Database
      BY <1>5, <2>2 DEF AddFinalizer, TypeOK, ApiType, Database
    <3>2. rec' \in Reconcile
      BY <1>1, <1>5, <2>2, <3>1 DEF AddFinalizer, Reconcile, StepName
    <3>. QED
      BY <1>5, <2>2, <3>1, <3>2
         DEF AddFinalizer, TypeOK, ApiType, DataType, ControlType, GhostType
  <2>. QED
    BY <2>1, <2>2
<1>6. ASSUME Admit PROVE TypeOK'
  <2>1. rec' \in Reconcile
    <3>1. ASSUME rec' = [rec EXCEPT !.pc = "child", !.step = 1]
          PROVE  rec' \in Reconcile
      BY <1>1, <3>1 DEF Reconcile, StepName
    <3>2. ASSUME ReportThenReturn(FailureStatus(rec.seen), FALSE)
          PROVE  rec' \in Reconcile
      BY <1>1, <1>3, <3>2, ReportThenReturnType
    <3>. QED
      BY <1>6, <3>1, <3>2 DEF Admit
  <2>. QED
    BY <1>6, <2>1 DEF Admit, TypeOK, ApiType, DataType, ControlType, GhostType
<1>7. ASSUME ReconcileChild PROVE TypeOK'
  <2>1. /\ rec.seen.uid \in Owner /\ rec.seen.enabled \in BOOLEAN
        /\ 0 \in Owner
    BY <1>1, BoundsAssumption DEF Database, Owner
  <2>2. ASSUME NextChild PROVE rec' \in Reconcile
    <3>1. rec.step + 1 \in Nat
      BY <1>1 DEF Reconcile
    <3>. QED
      BY <1>1, <2>2, <3>1 DEF NextChild, Reconcile, StepName
  <2>3. ASSUME NEW c, ApplyChild(c)
        PROVE  /\ children' \in [Child -> Owner]
               /\ plugin' \in BOOLEAN /\ clusterReady' \in BOOLEAN
               /\ rec' \in Reconcile /\ dirty' \in BOOLEAN
    <3>1. CASE children[c] \in {0, rec.seen.uid}
      BY <1>1, <2>1, <2>2, <2>3, <3>1 DEF ApplyChild, TypeOK, DataType
    <3>2. CASE children[c] \notin {0, rec.seen.uid}
      BY <1>1, <1>3, <2>3, <3>2, ReportThenReturnType
         DEF ApplyChild, TypeOK, DataType
    <3>. QED
      BY <3>1, <3>2
  <2>4. ASSUME NEW c, DeleteChild(c)
        PROVE  /\ children' \in [Child -> Owner]
               /\ plugin' \in BOOLEAN /\ clusterReady' \in BOOLEAN
               /\ rec' \in Reconcile /\ dirty' \in BOOLEAN
    BY <1>1, <2>1, <2>2, <2>4 DEF DeleteChild, TypeOK, DataType
  <2>5. \E c : ApplyChild(c) \/ DeleteChild(c)
    BY <1>7 DEF ReconcileChild
  <2>6. /\ children' \in [Child -> Owner]
        /\ plugin' \in BOOLEAN /\ clusterReady' \in BOOLEAN
        /\ rec' \in Reconcile /\ dirty' \in BOOLEAN
    BY <2>3, <2>4, <2>5
  <2>. QED
    BY <1>7, <2>6
       DEF ReconcileChild, TypeOK, ApiType, DataType, ControlType, GhostType
<1>8. ASSUME Observe PROVE TypeOK'
  <2>1. \A latest : StatusFromCluster(rec.seen, latest) \in Status
    BY <1>1, ReportType DEF StatusFromCluster, Phase
  <2>2. rec' \in Reconcile
    BY <1>1, <1>3, <1>8, <2>1, ReportThenReturnType DEF Observe
  <2>. QED
    BY <1>8, <2>2 DEF Observe, TypeOK, ApiType, DataType, ControlType, GhostType
<1>9. ASSUME PatchStatus PROVE TypeOK'
  <2>1. rec' \in Reconcile /\ dirty' \in BOOLEAN
    BY <1>1, <1>2, <1>9 DEF PatchStatus
  <2>2. db' \in Database
    <3>1. ASSUME db' = [db EXCEPT !.status = Merge(@, cached.status, rec.desired)]
          PROVE  db' \in Database
      BY <1>1, <3>1, MergeType DEF TypeOK, ApiType, Database
    <3>. QED
      BY <1>9, <3>1 DEF PatchStatus, TypeOK, ApiType
  <2>. QED
    BY <1>9, <2>1, <2>2
       DEF PatchStatus, TypeOK, ApiType, DataType, ControlType, GhostType
<1>10. ASSUME CreateFinalBackup PROVE TypeOK'
  <2>1. rec' \in Reconcile
    BY <1>1, <1>10, GotoType DEF CreateFinalBackup, StepName
  <2>2. final' \in FinalBackup
    <3>1. rec.seen.uid \in Owner
      BY <1>1 DEF Database
    <3>. QED
      BY <1>10, <3>1 DEF CreateFinalBackup, TypeOK, DataType, FinalBackup, BackupPhase
  <2>. QED
    BY <1>1, <1>10, <2>1, <2>2
       DEF CreateFinalBackup, EnqueueForBackup,
           TypeOK, ApiType, DataType, ControlType, GhostType
<1>11. ASSUME FinalBackupGate PROVE TypeOK'
  <2>1. rec' \in Reconcile
    BY <1>1, <1>3, <1>11, GotoType, ReportThenReturnType
       DEF FinalBackupGate, StepName
  <2>2. rec.seen.uid \in Owner
    BY <1>1 DEF Database
  <2>3. reused' \subseteq Owner
    BY <1>11, <2>2 DEF FinalBackupGate, TypeOK, GhostType
  <2>. QED
    BY <1>11, <2>1, <2>3
       DEF FinalBackupGate, TypeOK, ApiType, DataType, ControlType, GhostType
<1>12. ASSUME DeleteFinalBackup PROVE TypeOK'
  <2>1. rec' \in Reconcile
    BY <1>1, <1>12, GotoType DEF DeleteFinalBackup, StepName
  <2>. QED
    BY <1>1, <1>12, <2>1, InitialValues
       DEF DeleteFinalBackup, EnqueueForBackup,
           TypeOK, ApiType, DataType, ControlType, GhostType
<1>13. ASSUME DeleteCluster PROVE TypeOK'
  <2>1. rec' \in Reconcile
    BY <1>1, <1>13, GotoType DEF DeleteCluster, StepName
  <2>. QED
    BY <1>1, <1>13, <2>1, VanishType
       DEF DeleteCluster, Child, TypeOK, ApiType, DataType, ControlType, GhostType
<1>14. ASSUME ReleaseFinalizer PROVE TypeOK'
  <2>1. rec' \in Reconcile /\ dirty' \in BOOLEAN
    BY <1>2, <1>14 DEF ReleaseFinalizer
  <2>2. db' \in Database
    BY <1>14, InitialValues DEF ReleaseFinalizer, TypeOK, ApiType, Database
  <2>. QED
    BY <1>14, <2>1, <2>2
       DEF ReleaseFinalizer, TypeOK, ApiType, DataType, ControlType, GhostType
<1>. QED
  BY <1>4, <1>5, <1>6, <1>7, <1>8, <1>9, <1>10, <1>11, <1>12, <1>13, <1>14
     DEF Controller

\* Crashes, API errors and outages.
LEMMA FailureType ==
  ASSUME TypeOK, Failure
  PROVE  TypeOK'
<1> USE DEF apiVars, dataVars, ghosts
<1>1. rec \in Reconcile /\ rec.seen \in Database /\ faults + 1 \in Nat
  BY DEF TypeOK, ControlType, Reconcile
<1>2. ASSUME Interrupt PROVE TypeOK'
  BY <1>1, <1>2, InitialValues
     DEF Interrupt, Finish, TypeOK, ApiType, DataType, ControlType, GhostType
<1>3. ASSUME WriteError PROVE TypeOK'
  <2>1. FailureStatus(rec.seen) \in Status /\ DeletingStatus(rec.seen) \in Status
    BY <1>1, ReportType DEF FailureStatus, DeletingStatus, Phase
  <2>2. rec' \in Reconcile
    BY <1>1, <1>3, <2>1, ReportThenReturnType DEF WriteError
  <2>. QED
    BY <1>1, <1>3, <2>2
       DEF WriteError, TypeOK, ApiType, DataType, ControlType, GhostType
<1>4. ASSUME ClusterOutage PROVE TypeOK'
  BY <1>1, <1>4
     DEF ClusterOutage, TypeOK, ApiType, DataType, ControlType, GhostType
<1>. QED
  BY <1>2, <1>3, <1>4 DEF Failure

\* Steps of the watch, CloudNativePG and the garbage collector.
LEMMA ExternalType ==
  ASSUME TypeOK, External
  PROVE  TypeOK'
<1> USE DEF apiVars, dataVars, ghosts
<1>1. dirty \in BOOLEAN /\ \A c \in Child : children[c] # 0 => children[c] \in Lifetime
  BY BoundsAssumption DEF TypeOK, ControlType, DataType, Owner, Lifetime
<1>2. "Cluster" \in Child
  BY DEF Child
<1>3. ASSUME Watch PROVE TypeOK'
  BY <1>3 DEF Watch, TypeOK, ApiType, DataType, ControlType, GhostType
<1>4. ASSUME ClusterBecomesReady PROVE TypeOK'
  BY <1>4
     DEF ClusterBecomesReady, TypeOK, ApiType, DataType, ControlType, GhostType
<1>5. ASSUME FinalBackupCompletes PROVE TypeOK'
  <2>1. final' \in FinalBackup
    BY <1>5 DEF FinalBackupCompletes, TypeOK, DataType, FinalBackup, BackupPhase
  <2>2. children["Cluster"] \in Lifetime
    BY <1>1, <1>2, <1>5 DEF FinalBackupCompletes, CanBackUp
  <2>3. saved' \subseteq Lifetime /\ backedUp' \subseteq Lifetime
    BY <1>5, <2>2 DEF FinalBackupCompletes, TypeOK, GhostType
  <2>. QED
    BY <1>1, <1>5, <2>1, <2>3
       DEF FinalBackupCompletes, EnqueueForBackup,
           TypeOK, ApiType, DataType, ControlType, GhostType
<1>6. ASSUME FinalBackupFails PROVE TypeOK'
  <2>1. final' \in FinalBackup
    BY <1>6 DEF FinalBackupFails, TypeOK, DataType, FinalBackup, BackupPhase
  <2>2. failures' \in Nat
    BY <1>6 DEF FinalBackupFails, TypeOK, DataType
  <2>. QED
    BY <1>1, <1>6, <2>1, <2>2
       DEF FinalBackupFails, EnqueueForBackup,
           TypeOK, ApiType, DataType, ControlType, GhostType
<1>7. ASSUME NEW u \in Lifetime, NEW b \in BackupSummary,
             backups' = [backups EXCEPT ![u] = b]
      PROVE  backups' \in [Lifetime -> BackupSummary]
  BY <1>7 DEF TypeOK, DataType
<1>8. ASSUME NEW u \in Lifetime, ScheduledBackupStarts(u) PROVE TypeOK'
  <2>1. backups' \in [Lifetime -> BackupSummary]
    BY <1>8 DEF ScheduledBackupStarts, TypeOK, DataType, BackupSummary, BackupPhase
  <2>2. scheduled' \in Nat
    BY <1>8 DEF ScheduledBackupStarts, TypeOK, DataType
  <2>. QED
    BY <1>1, <1>8, <2>1, <2>2
       DEF ScheduledBackupStarts, EnqueueForBackup,
           TypeOK, ApiType, DataType, ControlType, GhostType
<1>9. ASSUME NEW u \in Lifetime, ScheduledBackupCompletes(u) PROVE TypeOK'
  <2>1. backups' \in [Lifetime -> BackupSummary]
    <3>1. [latest |-> "completed", success |-> TRUE] \in BackupSummary
      BY DEF BackupSummary, BackupPhase
    <3>. QED
      BY <1>7, <1>9, <3>1 DEF ScheduledBackupCompletes
  <2>2. children["Cluster"] \in Lifetime
    BY <1>1, <1>2, <1>9 DEF ScheduledBackupCompletes, CanBackUp
  <2>3. backedUp' \subseteq Lifetime
    BY <1>9, <2>2 DEF ScheduledBackupCompletes, TypeOK, GhostType
  <2>. QED
    BY <1>1, <1>9, <2>1, <2>3
       DEF ScheduledBackupCompletes, EnqueueForBackup,
           TypeOK, ApiType, DataType, ControlType, GhostType
<1>10. ASSUME NEW u \in Lifetime, ScheduledBackupFails(u) PROVE TypeOK'
  <2>1. backups' \in [Lifetime -> BackupSummary]
    BY <1>10 DEF ScheduledBackupFails, TypeOK, DataType, BackupSummary, BackupPhase
  <2>2. failures' \in Nat
    BY <1>10 DEF ScheduledBackupFails, TypeOK, DataType
  <2>. QED
    BY <1>1, <1>10, <2>1, <2>2
       DEF ScheduledBackupFails, EnqueueForBackup,
           TypeOK, ApiType, DataType, ControlType, GhostType
<1>11. ASSUME NEW c \in Child, CollectChild(c) PROVE TypeOK'
  BY <1>11, VanishType
     DEF CollectChild, TypeOK, ApiType, DataType, ControlType, GhostType
<1>12. ASSUME NEW u \in Lifetime, CollectBackups(u) PROVE TypeOK'
  <2>1. backups' \in [Lifetime -> BackupSummary]
    BY <1>7, <1>12, InitialValues DEF CollectBackups
  <2>. QED
    BY <1>1, <1>12, <2>1
       DEF CollectBackups, EnqueueForBackup,
           TypeOK, ApiType, DataType, ControlType, GhostType
<1>. QED
  BY <1>3, <1>4, <1>5, <1>6, <1>8, <1>9, <1>10, <1>11, <1>12 DEF External

\* Every reachable state of the Database controller, its cache, workqueue and
\* children is well typed, whatever crashes, edits and recreations happen.
THEOREM TypeCorrect == Spec => []TypeOK
<1>1. TypeOK /\ [Next]_vars => TypeOK'
  <2> SUFFICES ASSUME TypeOK, [Next]_vars PROVE TypeOK'
    OBVIOUS
  <2>1. CASE UNCHANGED vars
    BY <2>1 DEF vars, apiVars, dataVars, ghosts,
                TypeOK, ApiType, DataType, ControlType, GhostType
  <2>. QED
    BY <2>1, IntentType, ControllerType, FailureType, ExternalType DEF Next
<1>. QED
  BY <1>1, InitType, PTL DEF Spec

-----------------------------------------------------------------------------
(* The inductive invariant *)

\* What the steps below need of the types: UIDs are numbers, and the records
\* that the actions update have the fields they name.
Numbers ==
  /\ db.uid \in Nat /\ cached.uid \in Nat /\ rec.seen.uid \in Nat
  /\ final.for \in Nat /\ born \in Nat
  /\ \A c \in Child : children[c] \in Nat
  /\ DOMAIN children = Child
  /\ db \in Database /\ rec \in Reconcile /\ final \in FinalBackup

\* They follow from the type invariant.
LEMMA NumbersTyped ==
  ASSUME TypeOK
  PROVE  Numbers
BY DEF Numbers, TypeOK, ApiType, DataType, ControlType, Database, Reconcile,
       FinalBackup, Owner

\* Creating, editing, forcing or deleting a Database keeps the invariant: a
\* new UID owns nothing yet, and a Database without the finalizer has no data
\* plane that its immediate disappearance could orphan.
LEMMA IntentInvariant ==
  ASSUME TypeOK, IInv, Intent
  PROVE  IInv'
<1>1. Numbers
  BY NumbersTyped
<1> USE <1>1 DEF Numbers, apiVars, dataVars, ghosts,
           IInv, Births, TerminatingIsHeld, CacheLags, WaiversRecorded,
           LiveReconcile, DeletionReconcile, ClusterOwned, FinalBackupMeaning,
           FinalizerProtects, RemovalJustified, Justified, Waived,
           LiveSteps, DeletionSteps, RemovalSteps
<1>2. ASSUME NEW enabled \in BOOLEAN, NEW valid \in BOOLEAN, Create(enabled, valid)
      PROVE  IInv'
  BY <1>2 DEF Create, NoDatabase, Child
<1>3. ASSUME NEW enabled \in BOOLEAN, NEW valid \in BOOLEAN, EditSpec(enabled, valid)
      PROVE  IInv'
  BY <1>3 DEF EditSpec, ExcuseIfWaived, Database, Child
<1>4. ASSUME AnnotateForce PROVE IInv'
  BY <1>4 DEF AnnotateForce, ExcuseIfWaived, Database, Child
<1>5. ASSUME RequestDelete PROVE IInv'
  <2>1. CASE db.finalizer
    <3>1. db' = [db EXCEPT !.deleting = TRUE, !.gen = @ + 1]
      BY <1>5, <2>1 DEF RequestDelete
    <3>2. /\ db'.uid = db.uid /\ db'.finalizer = db.finalizer /\ db'.deleting
          /\ db'.force = db.force /\ db'.enabled = db.enabled
      BY <3>1 DEF Database
    <3>. QED
      BY <1>5, <2>1, <3>2 DEF RequestDelete, ExcuseIfWaived
  <2>2. CASE ~db.finalizer
    <3>1. db' = NoDatabase
      BY <1>5, <2>2 DEF RequestDelete
    <3>2. /\ db'.uid = 0 /\ ~db'.finalizer /\ ~db'.deleting
          /\ "Cluster" \in Child
      BY <1>5, <2>2, <3>1 DEF RequestDelete, NoDatabase, Child
    <3>3. Births'
      BY <1>5, <2>2, <3>2 DEF RequestDelete
    <3>4. TerminatingIsHeld'
      BY <1>5, <2>2, <3>2 DEF RequestDelete
    <3>5. CacheLags'
      BY <1>5, <2>2, <3>2 DEF RequestDelete
    <3>6. WaiversRecorded'
      BY <1>5, <2>2, <3>2 DEF RequestDelete
    <3>7. LiveReconcile'
      BY <1>5, <2>2, <3>2 DEF RequestDelete
    <3>8. DeletionReconcile'
      BY <1>5, <2>2, <3>2 DEF RequestDelete
    <3>9. ClusterOwned'
      BY <1>5, <2>2, <3>2 DEF RequestDelete
    <3>10. FinalBackupMeaning'
      BY <1>5, <2>2, <3>2 DEF RequestDelete
    <3>11. FinalizerProtects'
      BY <1>5, <2>2, <3>2 DEF RequestDelete
    <3>12. RemovalJustified'
      BY <1>5, <2>2, <3>2 DEF RequestDelete
    <3>. QED
      BY <3>3, <3>4, <3>5, <3>6, <3>7, <3>8, <3>9, <3>10, <3>11, <3>12 DEF IInv
  <2>. QED
    BY <2>1, <2>2
<1>. QED
  BY <1>2, <1>3, <1>4, <1>5 DEF Intent

\* Every step of a reconcile keeps the invariant.
LEMMA ControllerInvariant ==
  ASSUME TypeOK, IInv, Controller
  PROVE  IInv'
<1>1. Numbers
  BY NumbersTyped
<1> USE <1>1 DEF Numbers, apiVars, dataVars, ghosts,
           IInv, Births, TerminatingIsHeld, CacheLags, WaiversRecorded,
           LiveReconcile, DeletionReconcile, ClusterOwned, FinalBackupMeaning,
           FinalizerProtects, RemovalJustified, Justified, Waived,
           LiveSteps, DeletionSteps, RemovalSteps
<1>2. ASSUME StartReconcile PROVE IInv'
  BY <1>2 DEF StartReconcile, Idle, NoDatabase, Entry, DeletionEntry,
              NeedsFinalBackup, Reconcile
<1>3. ASSUME AddFinalizer PROVE IInv'
  <2>1. CASE db.uid = 0
    BY <1>3, <2>1 DEF AddFinalizer, Finish, Idle, NoDatabase
  <2>2. CASE db.uid # 0
    <3>1. /\ db'.uid = db.uid /\ db'.finalizer /\ db'.deleting = db.deleting
          /\ db'.force = db.force /\ db'.enabled = db.enabled
      BY <1>3, <2>2 DEF AddFinalizer, Database
    <3>2. rec'.pc = "admit" /\ rec'.seen = db'
      BY <1>3, <2>2 DEF AddFinalizer, Reconcile
    <3>. QED
      BY <1>3, <2>2, <3>1, <3>2 DEF AddFinalizer
  <2>. QED
    BY <2>1, <2>2
<1>4. ASSUME Admit PROVE IInv'
  <2>1. /\ rec.pc = "admit" /\ rec'.pc \in {"child", "status"}
        /\ rec'.seen = rec.seen /\ (rec'.pc = "child" => rec'.step = 1)
    BY <1>4 DEF Admit, ReportThenReturn, Reconcile
  <2>2. 1 \in 1..PlanLength
    BY DEF PlanLength
  <2>. QED
    BY <1>4, <2>1, <2>2 DEF Admit
<1>5. ASSUME ReconcileChild PROVE IInv'
  <2>1. /\ rec.pc = "child" /\ rec'.pc \in {"child", "observe", "status"}
        /\ rec'.seen = rec.seen
    BY <1>5 DEF ReconcileChild, ApplyChild, DeleteChild, NextChild,
                ReportThenReturn, Reconcile
  <2>2. \A c \in Child : children'[c] \in {0, children[c], rec.seen.uid}
    BY <1>5 DEF ReconcileChild, ApplyChild, DeleteChild
  <2>3. rec'.pc = "child" => rec'.step \in 1..PlanLength
    <3>1. CASE NextChild
      BY <1>5, <3>1 DEF ReconcileChild, NextChild, Reconcile, PlanLength
    <3>2. CASE rec'.pc = "status"
      BY <3>2
    <3>. QED
      BY <1>5, <3>1, <3>2 DEF ReconcileChild, ApplyChild, DeleteChild,
                              ReportThenReturn, Reconcile
  <2>. QED
    BY <1>5, <2>1, <2>2, <2>3 DEF ReconcileChild, Child
<1>6. ASSUME Observe PROVE IInv'
  BY <1>6 DEF Observe, ReportThenReturn, Reconcile
<1>7. ASSUME PatchStatus PROVE IInv'
  BY <1>7 DEF PatchStatus, Finish, Idle, NoDatabase, Database
<1>8. ASSUME CreateFinalBackup PROVE IInv'
  BY <1>8 DEF CreateFinalBackup, Reconcile
<1>9. ASSUME FinalBackupGate PROVE IInv'
  <2>1. CASE GateOpen
    <3>1. rec'.pc = "dropFinal" /\ rec'.seen = rec.seen
      BY <1>9, <2>1 DEF FinalBackupGate, Reconcile
    <3>2. rec.seen.uid \in Justified'
      BY <1>9, <2>1 DEF FinalBackupGate, GateOpen
    <3>. QED
      BY <1>9, <2>1, <3>1, <3>2 DEF FinalBackupGate
  <2>2. CASE ~GateOpen
    BY <1>9, <2>2 DEF FinalBackupGate, ReportThenReturn, Reconcile
  <2>. QED
    BY <2>1, <2>2
<1>10. ASSUME DeleteFinalBackup PROVE IInv'
  BY <1>10 DEF DeleteFinalBackup, Reconcile
<1>11. ASSUME DeleteCluster PROVE IInv'
  BY <1>11 DEF DeleteCluster, Vanish, Child, Reconcile
<1>12. ASSUME ReleaseFinalizer PROVE IInv'
  <2>1. rec'.pc = "idle" /\ rec'.seen.uid = 0
    BY <1>12 DEF ReleaseFinalizer, Finish, Idle, NoDatabase
  <2>2. CASE db.uid = 0
    BY <1>12, <2>1, <2>2 DEF ReleaseFinalizer
  <2>3. CASE db.uid # 0 /\ db.deleting
    <3>1. db' = NoDatabase
      BY <1>12, <2>3 DEF ReleaseFinalizer
    <3>2. /\ db'.uid = 0 /\ ~db'.finalizer /\ ~db'.deleting
          /\ rec.seen.uid = db.uid /\ "Cluster" \in Child
      BY <1>12, <2>3, <3>1 DEF ReleaseFinalizer, NoDatabase, Child
    <3>3. Births'
      BY <1>12, <2>1, <2>3, <3>2 DEF ReleaseFinalizer
    <3>4. TerminatingIsHeld'
      BY <1>12, <2>1, <2>3, <3>2 DEF ReleaseFinalizer
    <3>5. CacheLags'
      BY <1>12, <2>1, <2>3, <3>2 DEF ReleaseFinalizer
    <3>6. WaiversRecorded'
      BY <1>12, <2>1, <2>3, <3>2 DEF ReleaseFinalizer
    <3>7. LiveReconcile'
      BY <1>12, <2>1, <2>3, <3>2 DEF ReleaseFinalizer
    <3>8. DeletionReconcile'
      BY <1>12, <2>1, <2>3, <3>2 DEF ReleaseFinalizer
    <3>9. ClusterOwned'
      BY <1>12, <2>1, <2>3, <3>2 DEF ReleaseFinalizer
    <3>10. FinalBackupMeaning'
      BY <1>12, <2>1, <2>3, <3>2 DEF ReleaseFinalizer
    <3>11. FinalizerProtects'
      BY <1>12, <2>1, <2>3, <3>2 DEF ReleaseFinalizer
    <3>12. RemovalJustified'
      BY <1>12, <2>1, <2>3, <3>2 DEF ReleaseFinalizer
    <3>. QED
      BY <3>3, <3>4, <3>5, <3>6, <3>7, <3>8, <3>9, <3>10, <3>11, <3>12 DEF IInv
  <2>4. CASE db.uid # 0 /\ ~db.deleting
    <3>1. /\ db'.uid = db.uid /\ ~db'.finalizer /\ db'.deleting = db.deleting
          /\ db'.force = db.force /\ db'.enabled = db.enabled
      BY <1>12, <2>4 DEF ReleaseFinalizer, Database
    <3>2. rec.seen.uid # db.uid /\ ~db.finalizer
      BY <1>12, <2>4 DEF ReleaseFinalizer
    <3>. QED
      BY <1>12, <2>1, <2>4, <3>1, <3>2 DEF ReleaseFinalizer
  <2>. QED
    BY <2>2, <2>3, <2>4
<1>. QED
  BY <1>2, <1>3, <1>4, <1>5, <1>6, <1>7, <1>8, <1>9, <1>10, <1>11, <1>12
     DEF Controller

\* A crash or an API error at any step keeps the invariant.
LEMMA FailureInvariant ==
  ASSUME TypeOK, IInv, Failure
  PROVE  IInv'
<1>1. Numbers
  BY NumbersTyped
<1> USE <1>1 DEF Numbers, apiVars, dataVars, ghosts,
           IInv, Births, TerminatingIsHeld, CacheLags, WaiversRecorded,
           LiveReconcile, DeletionReconcile, ClusterOwned, FinalBackupMeaning,
           FinalizerProtects, RemovalJustified, Justified, Waived,
           LiveSteps, DeletionSteps, RemovalSteps
<1>2. ASSUME Interrupt PROVE IInv'
  BY <1>2 DEF Interrupt, Finish, Idle, NoDatabase
<1>3. ASSUME WriteError PROVE IInv'
  BY <1>3 DEF WriteError, ReportThenReturn, Reconcile
<1>4. ASSUME ClusterOutage PROVE IInv'
  BY <1>4 DEF ClusterOutage
<1>. QED
  BY <1>2, <1>3, <1>4 DEF Failure

\* So does whatever the watch, CloudNativePG and the collector do.
LEMMA ExternalInvariant ==
  ASSUME TypeOK, IInv, External
  PROVE  IInv'
<1>1. Numbers
  BY NumbersTyped
<1> USE <1>1 DEF Numbers, apiVars, dataVars, ghosts,
           IInv, Births, TerminatingIsHeld, CacheLags, WaiversRecorded,
           LiveReconcile, DeletionReconcile, ClusterOwned, FinalBackupMeaning,
           FinalizerProtects, RemovalJustified, Justified, Waived,
           LiveSteps, DeletionSteps, RemovalSteps
<1>2. ASSUME Watch PROVE IInv'
  BY <1>2 DEF Watch
<1>3. ASSUME ClusterBecomesReady PROVE IInv'
  BY <1>3 DEF ClusterBecomesReady
<1>4. ASSUME FinalBackupCompletes PROVE IInv'
  BY <1>4 DEF FinalBackupCompletes, CanBackUp, FinalBackup
<1>5. ASSUME FinalBackupFails PROVE IInv'
  BY <1>5 DEF FinalBackupFails, FinalBackup
<1>6. ASSUME NEW u \in Lifetime, ScheduledBackupStarts(u) PROVE IInv'
  BY <1>6 DEF ScheduledBackupStarts
<1>7. ASSUME NEW u \in Lifetime, ScheduledBackupCompletes(u) PROVE IInv'
  BY <1>7 DEF ScheduledBackupCompletes
<1>8. ASSUME NEW u \in Lifetime, ScheduledBackupFails(u) PROVE IInv'
  BY <1>8 DEF ScheduledBackupFails
<1>9. ASSUME NEW c \in Child, CollectChild(c) PROVE IInv'
  BY <1>9 DEF CollectChild, Vanish, Child
<1>10. ASSUME NEW u \in Lifetime, CollectBackups(u) PROVE IInv'
  BY <1>10 DEF CollectBackups
<1>. QED
  BY <1>2, <1>3, <1>4, <1>5, <1>6, <1>7, <1>8, <1>9, <1>10 DEF External

\* Together: the invariant is inductive.
LEMMA InvariantStep == TypeOK /\ IInv /\ [Next]_vars => IInv'
<1> SUFFICES ASSUME TypeOK, IInv, [Next]_vars PROVE IInv'
  OBVIOUS
<1>1. CASE UNCHANGED vars
  BY <1>1 DEF vars, apiVars, dataVars, ghosts,
           IInv, Births, TerminatingIsHeld, CacheLags, WaiversRecorded,
           LiveReconcile, DeletionReconcile, ClusterOwned, FinalBackupMeaning,
           FinalizerProtects, RemovalJustified, Justified, Waived,
           LiveSteps, DeletionSteps, RemovalSteps
<1>. QED
  BY <1>1, IntentInvariant, ControllerInvariant, FailureInvariant,
     ExternalInvariant DEF Next

\* IInv holds in every reachable state.
THEOREM InvariantHolds == Spec => []IInv
<1>1. Init => IInv
  BY DEF Init, NoDatabase, Idle, Child,
           IInv, Births, TerminatingIsHeld, CacheLags, WaiversRecorded,
           LiveReconcile, DeletionReconcile, ClusterOwned, FinalBackupMeaning,
           FinalizerProtects, RemovalJustified, Justified, Waived,
           LiveSteps, DeletionSteps, RemovalSteps
<1>. QED
  BY <1>1, InvariantStep, TypeCorrect, PTL DEF Spec

-----------------------------------------------------------------------------
(* What follows from it *)

\* reconcileDatabaseDeletion never removes a data plane without a completed
\* final Backup, a waiver, or a completed Backup of the same name.
THEOREM RemovalsAreJustified == Spec => []RemovalJustified
BY InvariantHolds, PTL DEF IInv

\* No Database owns a child before it has the finalizer, nor after.
THEOREM DataPlaneIsGuarded == Spec => []FinalizerProtects
BY InvariantHolds, PTL DEF IInv

\* No step of the controller, of a user or of the collector takes the Cluster
\* away from a Database that is not terminating, although every delete is by
\* name and the controller may act on an object that was replaced.
THEOREM LiveClusterIsKept == Spec => LiveDataPlaneKept
<1>1. ASSUME TypeOK, IInv, [Next]_vars,
             db.uid # 0, ~db.deleting, children["Cluster"] = db.uid
      PROVE  children'["Cluster"] = db.uid
  <2>1. Numbers /\ "Cluster" \in Child
    BY <1>1, NumbersTyped DEF Child
  <2>2. db.finalizer
    BY <1>1, <2>1 DEF IInv, FinalizerProtects
  <2>3. CASE ReconcileChild
    <3>1. rec.seen.uid = db.uid
      BY <1>1, <2>3 DEF ReconcileChild, IInv, LiveReconcile, LiveSteps
    <3>2. ASSUME NEW c, DeleteChild(c), c # "Cluster" PROVE children'["Cluster"] = db.uid
      BY <1>1, <2>1, <3>2 DEF DeleteChild, Numbers
    <3>3. ASSUME NEW c, ApplyChild(c) PROVE children'["Cluster"] = db.uid
      BY <1>1, <2>1, <3>1, <3>3 DEF ApplyChild, Numbers
    <3>4. rec.step \in {1, 2, 3, 4, 5}
      BY <1>1, <2>3 DEF ReconcileChild, IInv, LiveReconcile, PlanLength
    <3>5. \E c : ApplyChild(c) \/ (DeleteChild(c) /\ c # "Cluster")
      BY <2>3, <3>4 DEF ReconcileChild, Plan
    <3>. QED
      BY <3>2, <3>3, <3>5
  <2>4. CASE DeleteCluster
    BY <1>1, <2>2, <2>4 DEF DeleteCluster, IInv, DeletionReconcile, DeletionSteps
  <2>5. CASE \E c \in Child : CollectChild(c)
    BY <1>1, <2>1, <2>5 DEF CollectChild, Vanish, Numbers
  <2>6. CASE UNCHANGED children
    BY <1>1, <2>6
  <2>7. ReconcileChild \/ DeleteCluster \/ (\E c \in Child : CollectChild(c))
          \/ UNCHANGED children
    BY <1>1 DEF Next, Intent, Controller, Failure, External, vars, dataVars,
        Create, EditSpec, AnnotateForce, RequestDelete, StartReconcile,
        AddFinalizer, Admit, Observe, PatchStatus, CreateFinalBackup,
        FinalBackupGate, DeleteFinalBackup, ReleaseFinalizer, Interrupt,
        WriteError, ClusterOutage, Watch, ClusterBecomesReady,
        FinalBackupCompletes, FinalBackupFails, ScheduledBackupStarts,
        ScheduledBackupCompletes, ScheduledBackupFails, CollectBackups
  <2>. QED
    BY <2>3, <2>4, <2>5, <2>6, <2>7
<1>. QED
  BY <1>1, TypeCorrect, InvariantHolds, PTL DEF Spec, LiveDataPlaneKept

-----------------------------------------------------------------------------
(* The controller implements its contract *)

\* Steps that touch neither the Database's existence and deletion, nor its
\* Cluster, nor what justifies a removal, are stutters of the contract.
LEMMA ContractStutters ==
  ASSUME UNCHANGED <<born, db.uid, db.deleting, children["Cluster"],
                     excused, saved, reused>>
  PROVE  UNCHANGED Contract!vars
BY DEF Contract!vars, Justified

\* Whoever creates, edits, forces or deletes a Database acts by the contract:
\* a deletion waives the final Backup, or starts to wait for it.
LEMMA IntentKeepsContract ==
  ASSUME TypeOK, IInv, Intent
  PROVE  [Contract!Next]_(Contract!vars)
<1>1. Numbers
  BY NumbersTyped
<1> USE <1>1 DEF Numbers, Justified
<1>2. ASSUME NEW enabled \in BOOLEAN, NEW valid \in BOOLEAN, Create(enabled, valid)
      PROVE  Contract!Create
  <2>1. db.deleting = FALSE /\ db'.deleting = FALSE
    BY <1>2 DEF Create, NoDatabase, Database, IInv, TerminatingIsHeld
  <2>2. db.uid = 0 /\ born' = born + 1 /\ db'.uid = born + 1
    BY <1>2 DEF Create, NoDatabase
  <2>3. UNCHANGED <<children, excused, saved, reused>>
    BY <1>2 DEF Create, dataVars, ghosts
  <2>. QED
    BY <2>1, <2>2, <2>3 DEF Contract!Create
<1>3. ASSUME db.deleting, db'.deleting, db.uid # 0,
             UNCHANGED <<born, db.uid, children, saved, reused>>,
             excused' = excused \cup {db.uid}
      PROVE  Contract!Clear
  BY <1>3 DEF Contract!Clear
<1>4. ASSUME NEW d \in Database, db' = d, d.uid = db.uid,
             d.deleting = db.deleting, db.uid # 0, ExcuseIfWaived(d),
             UNCHANGED <<born, children, saved, reused>>
      PROVE  [Contract!Next]_(Contract!vars)
  <2>1. CASE Waived(d)
    <3>1. db.deleting /\ db'.deleting /\ excused' = excused \cup {db.uid}
      BY <1>4, <2>1 DEF Waived, ExcuseIfWaived
    <3>. QED
      BY <1>3, <1>4, <3>1 DEF Contract!Next
  <2>2. CASE ~Waived(d)
    <3>1. UNCHANGED <<born, db.uid, db.deleting, children["Cluster"],
                      excused, saved, reused>>
      BY <1>4, <2>2 DEF ExcuseIfWaived
    <3>. QED
      BY <3>1, ContractStutters
  <2>. QED
    BY <2>1, <2>2
<1>5. ASSUME NEW enabled \in BOOLEAN, NEW valid \in BOOLEAN, EditSpec(enabled, valid)
      PROVE  [Contract!Next]_(Contract!vars)
  <2>1. db' \in Database
    BY IntentType DEF TypeOK, ApiType
  <2>2. /\ db'.uid = db.uid /\ db'.deleting = db.deleting /\ db.uid # 0
        /\ UNCHANGED <<born, children, saved, reused>>
        /\ ExcuseIfWaived(db')
    BY <1>5 DEF EditSpec, Database, dataVars
  <2>. QED
    BY <1>4, <2>1, <2>2
<1>6. ASSUME AnnotateForce
      PROVE  [Contract!Next]_(Contract!vars)
  <2>1. db' \in Database
    BY IntentType DEF TypeOK, ApiType
  <2>2. /\ db'.uid = db.uid /\ db'.deleting = db.deleting /\ db.uid # 0
        /\ UNCHANGED <<born, children, saved, reused>>
        /\ ExcuseIfWaived(db')
    BY <1>6 DEF AnnotateForce, Database, dataVars
  <2>. QED
    BY <1>4, <2>1, <2>2
<1>7. ASSUME RequestDelete
      PROVE  [Contract!Next]_(Contract!vars)
  <2>1. UNCHANGED <<born, children, saved, reused>>
    BY <1>7 DEF RequestDelete, dataVars
  <2>2. CASE db.finalizer
    <3>1. /\ db.uid # 0 /\ ~db.deleting /\ db'.deleting /\ db'.uid = db.uid
          /\ excused' \in {excused, excused \cup {db.uid}}
      BY <1>7, <2>2 DEF RequestDelete, ExcuseIfWaived, Database
    <3>2. Justified' \in {Justified, Justified \cup {db.uid}}
      BY <2>1, <3>1
    <3>. QED
      BY <2>1, <3>1, <3>2 DEF Contract!Next, Contract!AskToEnd
  <2>3. CASE ~db.finalizer
    <3>1. db.uid # 0 /\ db'.uid = 0 /\ ~db'.deleting /\ UNCHANGED excused
      BY <1>7, <2>3 DEF RequestDelete, NoDatabase
    <3>2. children["Cluster"] = 0
      BY <2>3, <3>1 DEF IInv, FinalizerProtects, ClusterOwned, Child
    <3>. QED
      BY <2>1, <3>1, <3>2 DEF Contract!Next, Contract!Vanish
  <2>. QED
    BY <2>2, <2>3
<1>. QED
  BY <1>2, <1>5, <1>6, <1>7 DEF Intent, Contract!Next

\* Of the controller's steps, the contract sees that of the Cluster's creation,
\* the opening of the gate, the Cluster's removal and the end of the Database.
LEMMA ControllerKeepsContract ==
  ASSUME TypeOK, IInv, Controller
  PROVE  [Contract!Next]_(Contract!vars)
<1>1. Numbers /\ "Cluster" \in Child
  BY NumbersTyped DEF Child
<1> USE <1>1 DEF Numbers
<1>2. CASE AddFinalizer
  <2>1. UNCHANGED <<born, db.uid, db.deleting, children["Cluster"],
                    excused, saved, reused>>
    BY <1>2 DEF AddFinalizer, Database, dataVars, ghosts
  <2>. QED
    BY <2>1, ContractStutters
<1>3. CASE PatchStatus
  <2>1. UNCHANGED <<born, db.uid, db.deleting, children["Cluster"],
                    excused, saved, reused>>
    BY <1>3 DEF PatchStatus, Database, dataVars, ghosts
  <2>. QED
    BY <2>1, ContractStutters
<1>4. CASE ReconcileChild
  <2>1. rec.seen.uid = db.uid /\ db.uid # 0
    BY <1>4 DEF ReconcileChild, IInv, LiveReconcile, LiveSteps
  <2>2. UNCHANGED <<born, db, excused, saved, reused>>
    BY <1>4 DEF ReconcileChild, apiVars, ghosts
  <2>3. children'["Cluster"] \in {children["Cluster"], db.uid}
    <3>1. ASSUME NEW c, DeleteChild(c), c # "Cluster" PROVE UNCHANGED children["Cluster"]
      BY <3>1 DEF DeleteChild
    <3>2. ASSUME NEW c, ApplyChild(c)
          PROVE  children'["Cluster"] \in {children["Cluster"], db.uid}
      BY <2>1, <3>2 DEF ApplyChild
    <3>3. rec.step \in {1, 2, 3, 4, 5}
      BY <1>4 DEF ReconcileChild, IInv, LiveReconcile, PlanLength
    <3>4. \E c : ApplyChild(c) \/ (DeleteChild(c) /\ c # "Cluster")
      BY <1>4, <3>3 DEF ReconcileChild, Plan
    <3>. QED
      BY <3>1, <3>2, <3>4
  <2>4. CASE UNCHANGED children["Cluster"]
    BY <2>2, <2>4, ContractStutters
  <2>5. CASE children'["Cluster"] = db.uid
    <3>1. (children["Cluster"] # 0)' = TRUE
      BY <2>1, <2>5
    <3>. QED
      BY <2>1, <2>2, <3>1 DEF Contract!Next, Contract!Provision, Justified
  <2>. QED
    BY <2>3, <2>4, <2>5
<1>5. CASE FinalBackupGate
  <2>1. UNCHANGED <<born, db, children, excused, saved>>
    BY <1>5 DEF FinalBackupGate, apiVars, dataVars
  <2>2. reused' \in {reused, reused \cup {rec.seen.uid}}
    BY <1>5 DEF FinalBackupGate
  <2>3. CASE reused' = reused
    BY <2>1, <2>3, ContractStutters
  <2>4. CASE rec.seen.uid # db.uid
    <3>1. rec.seen.uid \in Justified
      BY <1>5, <2>4 DEF FinalBackupGate, IInv, DeletionReconcile, DeletionSteps
    <3>2. Justified' = Justified
      BY <2>1, <2>2, <3>1 DEF Justified
    <3>. QED
      BY <2>1, <3>2 DEF Contract!vars
  <2>5. CASE rec.seen.uid = db.uid /\ reused' = reused \cup {rec.seen.uid}
    <3>1. db.deleting
      BY <1>5, <2>5 DEF FinalBackupGate, IInv, DeletionReconcile, DeletionSteps
    <3>2. Justified' = Justified \cup {db.uid}
      BY <2>1, <2>5 DEF Justified
    <3>. QED
      BY <2>1, <3>1, <3>2 DEF Contract!Next, Contract!Clear
  <2>. QED
    BY <2>2, <2>3, <2>4, <2>5
<1>6. CASE DeleteCluster
  <2>1. UNCHANGED <<born, db, excused, saved, reused>> /\ children'["Cluster"] = 0
    BY <1>6 DEF DeleteCluster, Vanish, apiVars
  <2>2. CASE children["Cluster"] = 0
    BY <2>1, <2>2, ContractStutters
  <2>3. CASE children["Cluster"] # 0
    <3>1. children["Cluster"] = db.uid /\ db.finalizer
      BY <2>3 DEF IInv, ClusterOwned, FinalizerProtects
    <3>2. db.deleting /\ db.uid \in Justified
      BY <1>6, <3>1 DEF DeleteCluster, IInv, DeletionReconcile, DeletionSteps, RemovalSteps
    <3>3. (children["Cluster"] # 0)' = FALSE
      BY <2>1
    <3>. QED
      BY <2>1, <3>2, <3>3 DEF Contract!Next, Contract!Remove, Justified
  <2>. QED
    BY <2>2, <2>3
<1>7. CASE ReleaseFinalizer
  <2>1. UNCHANGED <<born, children, excused, saved, reused>>
    BY <1>7 DEF ReleaseFinalizer, dataVars, ghosts
  <2>2. CASE db.uid # 0 /\ db.deleting
    <3>0. db' = NoDatabase
      BY <1>7, <2>2 DEF ReleaseFinalizer
    <3>1. db'.uid = 0 /\ db'.deleting = FALSE
      BY <3>0 DEF NoDatabase
    <3>2. children["Cluster"] = 0
      BY <1>7 DEF ReleaseFinalizer, IInv, ClusterOwned
    <3>. QED
      BY <2>1, <2>2, <3>1, <3>2 DEF Contract!Next, Contract!Vanish, Justified
  <2>3. CASE ~(db.uid # 0 /\ db.deleting)
    <3>1. UNCHANGED <<db.uid, db.deleting>>
      BY <1>7, <2>3 DEF ReleaseFinalizer, Database
    <3>. QED
      BY <2>1, <3>1, ContractStutters
  <2>. QED
    BY <2>2, <2>3
<1>8. CASE UNCHANGED <<apiVars, children, excused, saved, reused>>
  BY <1>8, ContractStutters DEF apiVars
<1>9. \/ AddFinalizer \/ PatchStatus \/ ReconcileChild \/ FinalBackupGate
      \/ DeleteCluster \/ ReleaseFinalizer
      \/ UNCHANGED <<apiVars, children, excused, saved, reused>>
  BY DEF Controller, StartReconcile, Admit, Observe, CreateFinalBackup,
         DeleteFinalBackup, dataVars, ghosts
<1>. QED
  BY <1>2, <1>3, <1>4, <1>5, <1>6, <1>7, <1>8, <1>9

\* Of what happens outside, it sees the completion of a final Backup.  A crash,
\* an API error, a watch event or the collector changes nothing in it.
LEMMA OutsideKeepsContract ==
  ASSUME TypeOK, IInv, Failure \/ External
  PROVE  [Contract!Next]_(Contract!vars)
<1>1. Numbers /\ "Cluster" \in Child
  BY NumbersTyped DEF Child
<1> USE <1>1 DEF Numbers
<1>2. CASE FinalBackupCompletes
  <2>1. UNCHANGED <<born, db, children, excused, reused>>
    BY <1>2 DEF FinalBackupCompletes, apiVars
  <2>2. CASE db.deleting /\ db.uid = children["Cluster"]
    <3>1. saved' = saved \cup {db.uid}
      BY <1>2, <2>2 DEF FinalBackupCompletes
    <3>2. Justified' = Justified \cup {db.uid}
      BY <2>1, <3>1 DEF Justified
    <3>. QED
      BY <2>1, <2>2, <3>2, children'["Cluster"] = children["Cluster"]
      DEF Contract!Next, Contract!Clear
  <2>3. CASE ~(db.deleting /\ db.uid = children["Cluster"])
    <3>1. saved' = saved
      BY <1>2, <2>3 DEF FinalBackupCompletes
    <3>. QED
      BY <2>1, <3>1, ContractStutters
  <2>. QED
    BY <2>2, <2>3
<1>3. CASE \E c \in Child : CollectChild(c)
  <2>1. PICK c \in Child : CollectChild(c)
    BY <1>3
  <2>2. c # "Cluster"
    BY <2>1 DEF CollectChild, IInv, ClusterOwned
  <2>3. UNCHANGED <<born, db, children["Cluster"], excused, saved, reused>>
    BY <2>1, <2>2 DEF CollectChild, Vanish, apiVars
  <2>. QED
    BY <2>3, ContractStutters
<1>4. CASE UNCHANGED <<apiVars, children, excused, saved, reused>>
  BY <1>4, ContractStutters DEF apiVars
<1>5. \/ FinalBackupCompletes \/ (\E c \in Child : CollectChild(c))
      \/ UNCHANGED <<apiVars, children, excused, saved, reused>>
  BY DEF Failure, External, Interrupt, WriteError, ClusterOutage, Watch,
         ClusterBecomesReady, FinalBackupFails, ScheduledBackupStarts,
         ScheduledBackupCompletes, ScheduledBackupFails, CollectBackups,
         dataVars, ghosts
<1>. QED
  BY <1>2, <1>3, <1>4, <1>5

\* The controller, with its lagging cache, its crashes and its deletes by name,
\* implements the contract: a data plane is removed only while its Database is
\* being deleted and after its loss was cleared, and no Database goes before
\* its data plane.
THEOREM ContractIsKept == Spec => KeepsContract
<1>1. Init => Contract!Init
  <2> SUFFICES ASSUME Init PROVE Contract!Init
    OBVIOUS
  <2>1. children["Cluster"] = 0
    BY DEF Init, Child
  <2>2. born = 0 /\ db.uid = 0 /\ db.deleting = FALSE /\ Justified = {}
    BY DEF Init, NoDatabase, Justified
  <2>. QED
    BY <2>1, <2>2 DEF Contract!Init
<1>2. TypeOK /\ IInv /\ [Next]_vars => [Contract!Next]_(Contract!vars)
  <2>1. UNCHANGED vars => UNCHANGED Contract!vars
    BY ContractStutters DEF vars, apiVars, dataVars, ghosts
  <2>. QED
    BY <2>1, IntentKeepsContract, ControllerKeepsContract, OutsideKeepsContract
    DEF Next
<1>. QED
  BY <1>1, <1>2, TypeCorrect, InvariantHolds, PTL DEF Spec, KeepsContract, Contract!Spec

-----------------------------------------------------------------------------
(* A controller whose cache is up to date when a reconcile starts *)

\* A reconcile holds the live object, whoever edits, forces or deletes the
\* Database meanwhile: it has the finalizer, so that it cannot go, and an edit
\* makes a new generation.
LEMMA IntentKeepsFresh ==
  ASSUME TypeOK, IInv, FreshReconcile, Intent
  PROVE  FreshReconcile'
<1>1. db \in Database /\ db.gen \in Nat /\ rec.seen \in Database /\ rec.seen.gen \in Nat
  BY DEF TypeOK, ApiType, ControlType, Database, Reconcile
<1>2. UNCHANGED rec
  BY DEF Intent, Create, EditSpec, AnnotateForce, RequestDelete
<1>3. HoldsObject =>
        /\ db'.uid = db.uid /\ db'.finalizer
        /\ \/ db'.gen = db.gen /\ db'.enabled = db.enabled
           \/ db'.gen = db.gen + 1
  BY <1>1 DEF Intent, Create, EditSpec, AnnotateForce, RequestDelete,
              FreshReconcile, Database
<1>. QED
  BY <1>1, <1>2, <1>3 DEF FreshReconcile, HoldsObject

\* A reconcile starts with the live object, and its own writes keep the
\* lifetime, the generation and the spec.
LEMMA ControllerKeepsFresh ==
  ASSUME ~StaleReads, TypeOK, IInv, FreshReconcile, Controller
  PROVE  FreshReconcile'
<1> USE DEF FreshReconcile, HoldsObject
<1>1. /\ db \in Database /\ rec \in Reconcile /\ db.gen \in Nat
  BY DEF TypeOK, ApiType, ControlType, Database
<1>2. ASSUME StartReconcile PROVE FreshReconcile'
  <2>1. CASE rec' = Idle
    BY <2>1 DEF Idle
  <2>2. CASE rec' = [Idle EXCEPT !.pc = Entry(cached), !.seen = cached] /\ cached.uid # 0
    <3>1. cached = db /\ UNCHANGED db
      BY <1>2 DEF StartReconcile, apiVars
    <3>2. rec'.seen = db /\ rec'.pc = Entry(db)
      BY <2>2, <3>1 DEF Idle
    <3>3. rec'.pc \notin {"idle", "finalizer"} => db.finalizer
      BY <3>2 DEF Entry, IInv, TerminatingIsHeld
    <3>. QED
      BY <1>1, <2>2, <3>1, <3>2, <3>3
  <2>. QED
    BY <1>2, <2>1, <2>2 DEF StartReconcile
<1>3. ASSUME AddFinalizer PROVE FreshReconcile'
  <2>1. CASE db.uid = 0
    BY <1>3, <2>1 DEF AddFinalizer, Finish, Idle
  <2>2. CASE db.uid # 0
    <3>1. rec'.seen = db' /\ db'.uid = db.uid /\ db'.finalizer /\ db'.gen = db.gen
      BY <1>1, <1>3, <2>2 DEF AddFinalizer, Reconcile, Database
    <3>. QED
      BY <1>1, <2>2, <3>1
  <2>. QED
    BY <2>1, <2>2
<1>4. ASSUME PatchStatus PROVE FreshReconcile'
  BY <1>4 DEF PatchStatus, Finish, Idle
<1>5. ASSUME ReleaseFinalizer PROVE FreshReconcile'
  BY <1>5 DEF ReleaseFinalizer, Finish, Idle
<1>6. ASSUME rec.pc \notin {"idle", "finalizer"}, UNCHANGED db, rec'.seen = rec.seen
      PROVE  FreshReconcile'
  BY <1>6
<1>7. ASSUME \/ Admit \/ ReconcileChild \/ Observe \/ CreateFinalBackup
             \/ FinalBackupGate \/ DeleteFinalBackup \/ DeleteCluster
      PROVE  FreshReconcile'
  <2>1. rec.pc \notin {"idle", "finalizer"} /\ UNCHANGED db
    BY <1>7 DEF Admit, ReconcileChild, Observe, CreateFinalBackup,
                FinalBackupGate, DeleteFinalBackup, DeleteCluster, apiVars
  <2>2. rec'.seen = rec.seen
    BY <1>1, <1>7 DEF Admit, ReconcileChild, ApplyChild, DeleteChild, NextChild,
                Observe, CreateFinalBackup, FinalBackupGate, DeleteFinalBackup,
                DeleteCluster, ReportThenReturn, Reconcile
  <2>. QED
    BY <1>6, <2>1, <2>2
<1>. QED
  BY <1>2, <1>3, <1>4, <1>5, <1>7 DEF Controller

\* A reconcile that is interrupted holds nothing; the rest concerns others.
LEMMA OutsideKeepsFresh ==
  ASSUME TypeOK, FreshReconcile, Failure \/ External
  PROVE  FreshReconcile'
<1> USE DEF FreshReconcile, HoldsObject
<1>1. rec \in Reconcile
  BY DEF TypeOK, ControlType
<1>2. UNCHANGED db
  BY DEF Failure, Interrupt, WriteError, ClusterOutage, External, Watch,
         ClusterBecomesReady, FinalBackupCompletes, FinalBackupFails,
         ScheduledBackupStarts, ScheduledBackupCompletes, ScheduledBackupFails,
         CollectChild, CollectBackups, apiVars
<1>3. CASE Interrupt
  BY <1>3 DEF Interrupt, Finish, Idle
<1>4. CASE WriteError
  BY <1>1, <1>2, <1>4 DEF WriteError, ReportThenReturn, Reconcile
<1>5. CASE UNCHANGED rec
  BY <1>2, <1>5
<1>6. Interrupt \/ WriteError \/ UNCHANGED rec
  BY DEF Failure, ClusterOutage, External, Watch,
         ClusterBecomesReady, FinalBackupCompletes, FinalBackupFails,
         ScheduledBackupStarts, ScheduledBackupCompletes, ScheduledBackupFails,
         CollectChild, CollectBackups
<1>. QED
  BY <1>3, <1>4, <1>5, <1>6

\* Together.
LEMMA FreshStep ==
  ASSUME ~StaleReads, TypeOK, IInv, FreshReconcile, [Next]_vars
  PROVE  FreshReconcile'
<1>1. CASE UNCHANGED vars
  BY <1>1 DEF vars, apiVars, FreshReconcile, HoldsObject
<1>. QED
  BY <1>1, IntentKeepsFresh, ControllerKeepsFresh, OutsideKeepsFresh DEF Next

\* What the proofs below need of the types.
Generations ==
  /\ db \in Database /\ rec \in Reconcile /\ final \in FinalBackup
  /\ backups \in [Lifetime -> BackupSummary]
  /\ db.uid \in Nat /\ born \in Nat /\ db.gen \in Nat
  /\ rec.seen \in Database /\ rec.seen.gen \in Nat
  /\ rec.desired \in Status /\ rec.desired.readyGen \in Nat
  /\ db.status \in Status /\ db.status.readyGen \in Nat

\* They follow from the type invariant.
LEMMA GenerationsTyped ==
  ASSUME TypeOK
  PROVE  Generations
BY BoundsAssumption
DEF Generations, TypeOK, ApiType, DataType, ControlType, Database, Reconcile,
    Status, Owner

\* Backups that complete are of the live lifetime; a Backup that disappears, or
\* fails, does not undo that one completed.
LEMMA BackupsStep ==
  ASSUME TypeOK, IInv, BackupsOnRecord, [Next]_vars
  PROVE  BackupsOnRecord'
<1> USE DEF BackupsOnRecord
<1>1. Generations /\ "Cluster" \in Child
  BY GenerationsTyped DEF Child
<1> USE <1>1 DEF Generations
<1>2. children["Cluster"] # 0 => children["Cluster"] \in 1..born
  BY DEF IInv, ClusterOwned
<1>3. db'.uid \in {0, born'} /\ backedUp' \subseteq 1..born'
  <2>1. CASE \E enabled, valid \in BOOLEAN : Create(enabled, valid)
    BY <2>1 DEF Create, NoDatabase, ghosts
  <2>2. CASE UNCHANGED born /\ db'.uid \in {0, db.uid}
             /\ (backedUp' = backedUp \/ (backedUp' = backedUp \cup {children["Cluster"]}
                                          /\ children["Cluster"] # 0))
    BY <1>2, <2>2
  <2>3. \/ \E enabled, valid \in BOOLEAN : Create(enabled, valid)
        \/ UNCHANGED born /\ db'.uid \in {0, db.uid}
    <3>1. ASSUME NEW enabled \in BOOLEAN, NEW valid \in BOOLEAN, EditSpec(enabled, valid)
          PROVE  UNCHANGED <<born, db.uid>>
      BY <3>1 DEF EditSpec, Database
    <3>2. CASE AnnotateForce
      BY <3>2 DEF AnnotateForce, Database
    <3>5. CASE AddFinalizer
      BY <3>5 DEF AddFinalizer, Database
    <3>6. CASE PatchStatus
      BY <3>6 DEF PatchStatus, Database
    <3>7. CASE ReleaseFinalizer
      <4>1. CASE db' = NoDatabase
        BY <3>7, <4>1 DEF ReleaseFinalizer, NoDatabase
      <4>2. CASE db' \in {db, [db EXCEPT !.finalizer = FALSE]}
        BY <3>7, <4>2 DEF ReleaseFinalizer, Database
      <4>. QED
        BY <3>7, <4>1, <4>2 DEF ReleaseFinalizer
    <3>4. CASE RequestDelete
      <4>1. UNCHANGED born
        BY <3>4 DEF RequestDelete
      <4>2. CASE db' = [db EXCEPT !.deleting = TRUE, !.gen = @ + 1]
        BY <4>1, <4>2 DEF Database
      <4>3. CASE db' = NoDatabase
        BY <4>1, <4>3 DEF NoDatabase
      <4>. QED
        BY <3>4, <4>2, <4>3 DEF RequestDelete
    <3>3. \/ \E enabled, valid \in BOOLEAN : Create(enabled, valid)
          \/ \E enabled, valid \in BOOLEAN : EditSpec(enabled, valid)
          \/ AnnotateForce \/ RequestDelete \/ AddFinalizer \/ PatchStatus \/ ReleaseFinalizer
          \/ UNCHANGED <<born, db>>
      BY DEF Next, Intent, Controller, Failure, External, vars, apiVars,
        StartReconcile, Admit, ReconcileChild, Observe, CreateFinalBackup,
        FinalBackupGate, DeleteFinalBackup, DeleteCluster, Interrupt,
        WriteError, ClusterOutage, Watch, ClusterBecomesReady,
        FinalBackupCompletes, FinalBackupFails, ScheduledBackupStarts,
        ScheduledBackupCompletes, ScheduledBackupFails, CollectChild, CollectBackups
    <3>. QED
      BY <3>1, <3>2, <3>3, <3>4, <3>5, <3>6, <3>7
  <2>4. \/ backedUp' = backedUp
        \/ backedUp' = backedUp \cup {children["Cluster"]} /\ children["Cluster"] # 0
    BY DEF Next, Intent, Controller, Failure, External, vars, ghosts,
        Create, EditSpec, AnnotateForce, RequestDelete, StartReconcile,
        AddFinalizer, Admit, ReconcileChild, Observe, PatchStatus, CreateFinalBackup,
        FinalBackupGate, DeleteFinalBackup, DeleteCluster, ReleaseFinalizer, Interrupt,
        WriteError, ClusterOutage, Watch, ClusterBecomesReady,
        FinalBackupCompletes, FinalBackupFails, ScheduledBackupStarts,
        ScheduledBackupCompletes, ScheduledBackupFails, CollectChild, CollectBackups,
        CanBackUp
  <2>. QED
    BY <2>1, <2>2, <2>3, <2>4
<1>4. SuccessfulBackup' => backedUp' # {}
  <2>1. CASE FinalBackupCompletes \/ (\E u \in Lifetime : ScheduledBackupCompletes(u))
    BY <2>1 DEF FinalBackupCompletes, ScheduledBackupCompletes
  <2>2. CASE UNCHANGED backedUp /\ (SuccessfulBackup' => SuccessfulBackup)
    BY <2>2
  <2>3. ASSUME UNCHANGED backups, UNCHANGED final \/ final'.phase # "completed"
        PROVE  SuccessfulBackup' => SuccessfulBackup
    BY <2>3 DEF SuccessfulBackup
  <2>4. ASSUME UNCHANGED final, NEW u \in Lifetime, NEW b \in BackupSummary,
               backups' = [backups EXCEPT ![u] = b],
               b.success => backups[u].success
        PROVE  SuccessfulBackup' => SuccessfulBackup
    BY <2>4 DEF SuccessfulBackup
  <2>5. CASE FinalBackupFails \/ CreateFinalBackup \/ DeleteFinalBackup
    <3>1. UNCHANGED <<backups, backedUp>>
      BY <2>5 DEF FinalBackupFails, CreateFinalBackup, DeleteFinalBackup, ghosts
    <3>2. UNCHANGED final \/ final'.phase # "completed"
      BY <2>5 DEF FinalBackupFails, CreateFinalBackup, DeleteFinalBackup, FinalBackup
    <3>. QED
      BY <2>2, <2>3, <3>1, <3>2
  <2>6. ASSUME NEW u \in Lifetime,
               ScheduledBackupStarts(u) \/ ScheduledBackupFails(u) \/ CollectBackups(u)
        PROVE  SuccessfulBackup' => backedUp' # {}
    <3>1. UNCHANGED <<final, backedUp>>
      BY <2>6 DEF ScheduledBackupStarts, ScheduledBackupFails, CollectBackups, ghosts
    <3>2. PICK phase \in {"pending", "failed"} :
            \/ backups' = [backups EXCEPT ![u].latest = phase]
            \/ backups' = [backups EXCEPT ![u] = [latest |-> "none", success |-> FALSE]]
      BY <2>6 DEF ScheduledBackupStarts, ScheduledBackupFails, CollectBackups
    <3>3. \A v \in Lifetime : backups'[v].success => backups[v].success
      BY <3>2 DEF BackupSummary
    <3>. QED
      BY <2>2, <3>1, <3>3 DEF SuccessfulBackup
  <2>7. \/ FinalBackupCompletes \/ (\E u \in Lifetime : ScheduledBackupCompletes(u))
        \/ FinalBackupFails \/ CreateFinalBackup \/ DeleteFinalBackup
        \/ (\E u \in Lifetime :
              ScheduledBackupStarts(u) \/ ScheduledBackupFails(u) \/ CollectBackups(u))
        \/ UNCHANGED <<backups, final, backedUp>>
    BY DEF Next, Intent, Controller, Failure, External, vars, dataVars, ghosts,
        Create, EditSpec, AnnotateForce, RequestDelete, StartReconcile,
        AddFinalizer, Admit, ReconcileChild, Observe, PatchStatus,
        FinalBackupGate, DeleteCluster, ReleaseFinalizer, Interrupt,
        WriteError, ClusterOutage, Watch, ClusterBecomesReady, CollectChild
  <2>. QED
    BY <2>1, <2>2, <2>3, <2>5, <2>6, <2>7
<1>. QED
  BY <1>3, <1>4

\* A report of Ready is about the generation that was read, and is made only
\* when a Backup has completed; the merge patch carries both to the API server,
\* where an edit outdates it.
LEMMA ReportStep ==
  ASSUME ~StaleReads, TypeOK, IInv, ReadyInv, [Next]_vars
  PROVE  ReportIsSound' /\ StatusIsSound'
<1>1. Generations
  BY GenerationsTyped
<1> USE <1>1 DEF Generations
<1>2. backedUp \subseteq backedUp'
  BY DEF Next, Intent, Controller, Failure, External, vars, ghosts,
        Create, EditSpec, AnnotateForce, RequestDelete, StartReconcile,
        AddFinalizer, Admit, ReconcileChild, Observe, PatchStatus, CreateFinalBackup,
        FinalBackupGate, DeleteFinalBackup, DeleteCluster, ReleaseFinalizer, Interrupt,
        WriteError, ClusterOutage, Watch, ClusterBecomesReady,
        FinalBackupCompletes, FinalBackupFails, ScheduledBackupStarts,
        ScheduledBackupCompletes, ScheduledBackupFails, CollectChild, CollectBackups
<1>3. ReportIsSound'
  <2>1. ASSUME NEW phase, NEW ready, NEW again,
               ReportThenReturn(Report(rec.seen, phase, ready), again),
               ready /\ rec.seen.enabled => backedUp # {}
        PROVE  ReportIsSound'
    <3>1. /\ rec'.seen = rec.seen
          /\ rec'.desired = Report(rec.seen, phase, ready)
      BY <2>1 DEF ReportThenReturn, Reconcile
    <3>. QED
      BY <1>2, <2>1, <3>1 DEF Report, ReportIsSound
  <2>2. ASSUME rec'.pc # "status" PROVE ReportIsSound'
    BY <2>2 DEF ReportIsSound
  <2>3. ASSUME UNCHANGED rec PROVE ReportIsSound'
    BY <1>2, <2>3 DEF ReportIsSound, ReadyInv
  <2>4. ASSUME NEW again, ReportThenReturn(FailureStatus(rec.seen), again)
        PROVE  ReportIsSound'
    BY <2>1, <2>4 DEF FailureStatus
  <2>5. ASSUME NEW again, ReportThenReturn(DeletingStatus(rec.seen), again)
        PROVE  ReportIsSound'
    BY <2>1, <2>5 DEF DeletingStatus
  <2>6. ASSUME Observe PROVE ReportIsSound'
    <3>1. ASSUME NEW latest, ReportThenReturn(StatusFromCluster(rec.seen, latest), FALSE)
          PROVE  ReportIsSound'
      <4>1. PICK phase, ready :
              /\ StatusFromCluster(rec.seen, latest) = Report(rec.seen, phase, ready)
              /\ ready /\ rec.seen.enabled => SuccessfulBackup
        <5>1. CASE ~clusterReady
          BY <5>1 DEF StatusFromCluster
        <5>2. CASE clusterReady /\ ~rec.seen.enabled
          BY <5>2 DEF StatusFromCluster
        <5>3. CASE clusterReady /\ rec.seen.enabled /\ latest = "failed"
          BY <5>3 DEF StatusFromCluster
        <5>4. CASE clusterReady /\ rec.seen.enabled /\ latest # "failed"
                   /\ ~SuccessfulBackup
          BY <5>4 DEF StatusFromCluster
        <5>5. CASE SuccessfulBackup
          BY <5>5 DEF StatusFromCluster
        <5>. QED
          BY <5>1, <5>2, <5>3, <5>4, <5>5
      <4>. QED
        BY <2>1, <3>1, <4>1 DEF ReadyInv, BackupsOnRecord
    <3>. QED
      BY <2>4, <2>6, <3>1 DEF Observe
  <2>7. ASSUME ReconcileChild PROVE ReportIsSound'
    <3>1. NextChild => rec'.pc # "status"
      BY DEF NextChild, Reconcile
    <3>. QED
      BY <2>2, <2>4, <2>7, <3>1 DEF ReconcileChild, ApplyChild, DeleteChild
  <2>8. ASSUME Admit PROVE ReportIsSound'
    <3>1. rec' = [rec EXCEPT !.pc = "child", !.step = 1] => rec'.pc # "status"
      BY DEF Reconcile
    <3>. QED
      BY <2>2, <2>4, <2>8, <3>1 DEF Admit
  <2>9. ASSUME FinalBackupGate PROVE ReportIsSound'
    <3>1. rec' = [rec EXCEPT !.pc = "dropFinal"] => rec'.pc # "status"
      BY DEF Reconcile
    <3>. QED
      BY <2>2, <2>5, <2>9, <3>1 DEF FinalBackupGate
  <2>10. ASSUME WriteError PROVE ReportIsSound'
    BY <2>4, <2>5, <2>10 DEF WriteError
  <2>11. ASSUME NEW pc, rec' = [rec EXCEPT !.pc = pc], pc # "status"
         PROVE  ReportIsSound'
    BY <2>2, <2>11 DEF Reconcile
  <2>12. ASSUME CreateFinalBackup \/ DeleteFinalBackup \/ DeleteCluster
         PROVE  ReportIsSound'
    BY <2>11, <2>12 DEF CreateFinalBackup, DeleteFinalBackup, DeleteCluster
  <2>13. ASSUME AddFinalizer PROVE ReportIsSound'
    <3>1. ASSUME NEW seen, rec' = [rec EXCEPT !.pc = "admit", !.seen = seen]
          PROVE  rec'.pc # "status"
      BY <3>1 DEF Reconcile
    <3>2. Idle.pc # "status"
      BY DEF Idle
    <3>. QED
      BY <2>2, <2>13, <3>1, <3>2 DEF AddFinalizer, Finish
  <2>14. ASSUME StartReconcile \/ PatchStatus \/ ReleaseFinalizer \/ Interrupt
         PROVE  ReportIsSound'
    <3>1. rec'.pc # "status"
      <4>1. Idle.pc # "status"
        BY DEF Idle
      <4>2. \A d : Entry(d) # "status"
        BY DEF Entry, DeletionEntry
      <4>3. [Idle EXCEPT !.pc = Entry(cached), !.seen = cached].pc = Entry(cached)
        BY DEF Idle
      <4>. QED
        BY <2>14, <4>1, <4>2, <4>3
        DEF StartReconcile, PatchStatus, ReleaseFinalizer, Interrupt, Finish
    <3>. QED
      BY <2>2, <3>1
  <2>15. Controller \/ WriteError \/ Interrupt \/ UNCHANGED rec
    BY DEF Next, Intent, Failure, External, vars,
        Create, EditSpec, AnnotateForce, RequestDelete,
        ClusterOutage, Watch, ClusterBecomesReady,
        FinalBackupCompletes, FinalBackupFails, ScheduledBackupStarts,
        ScheduledBackupCompletes, ScheduledBackupFails, CollectChild, CollectBackups
  <2>. QED
    BY <2>3, <2>6, <2>7, <2>8, <2>9, <2>10, <2>12, <2>13, <2>14, <2>15 DEF Controller
<1>4. StatusIsSound'
  <2>1. ASSUME db'.status = db.status,
               \/ db'.gen = db.gen /\ db'.enabled = db.enabled
               \/ db'.gen = db.gen + 1
        PROVE  StatusIsSound'
    BY <1>2, <2>1 DEF StatusIsSound, ReadyInv
  <2>2. ASSUME NEW enabled \in BOOLEAN, NEW valid \in BOOLEAN, EditSpec(enabled, valid)
        PROVE  StatusIsSound'
    BY <2>1, <2>2 DEF EditSpec, Database
  <2>3. ASSUME db' = NoDatabase PROVE StatusIsSound'
    BY <2>3 DEF StatusIsSound, NoDatabase, NoStatus
  <2>4. ASSUME NEW enabled \in BOOLEAN, NEW valid \in BOOLEAN, Create(enabled, valid)
        PROVE  StatusIsSound'
    BY <2>4 DEF Create, StatusIsSound, NoDatabase, NoStatus
  <2>5. ASSUME AnnotateForce PROVE StatusIsSound'
    BY <2>1, <2>5 DEF AnnotateForce, Database
  <2>6. ASSUME RequestDelete PROVE StatusIsSound'
    <3>1. CASE db' = [db EXCEPT !.deleting = TRUE, !.gen = @ + 1]
      BY <2>1, <3>1 DEF Database
    <3>. QED
      BY <2>3, <2>6, <3>1 DEF RequestDelete
  <2>7. ASSUME AddFinalizer PROVE StatusIsSound'
    BY <2>1, <2>7 DEF AddFinalizer, Database
  <2>8. ASSUME ReleaseFinalizer PROVE StatusIsSound'
    <3>1. CASE db' \in {db, [db EXCEPT !.finalizer = FALSE]}
      BY <2>1, <3>1 DEF Database
    <3>. QED
      BY <2>3, <2>8, <3>1 DEF ReleaseFinalizer
  <2>9. ASSUME PatchStatus PROVE StatusIsSound'
    <3>1. CASE db' = [db EXCEPT !.status = Merge(@, cached.status, rec.desired)]
      <4>1. /\ db'.status.readyGen = rec.desired.readyGen
            /\ db'.status.ready = rec.desired.ready
            /\ db'.gen = db.gen /\ db'.enabled = db.enabled
        BY <3>1 DEF Merge, Database
      <4>2. rec.pc = "status"
        BY <2>9 DEF PatchStatus
      <4>3. /\ rec.desired.readyGen <= db.gen
            /\ rec.desired.readyGen = db.gen => rec.seen.enabled = db.enabled
            /\ rec.desired.ready /\ rec.seen.enabled => backedUp # {}
        BY <4>2 DEF ReadyInv, FreshReconcile, HoldsObject, ReportIsSound
      <4>. QED
        BY <1>2, <4>1, <4>3 DEF StatusIsSound
    <3>. QED
      BY <2>1, <2>9, <3>1 DEF PatchStatus
  <2>10. ASSUME UNCHANGED db PROVE StatusIsSound'
    BY <2>1, <2>10
  <2>11. \/ \E enabled, valid \in BOOLEAN : Create(enabled, valid)
         \/ \E enabled, valid \in BOOLEAN : EditSpec(enabled, valid)
         \/ AnnotateForce \/ RequestDelete \/ AddFinalizer \/ PatchStatus \/ ReleaseFinalizer
         \/ UNCHANGED db
    BY DEF Next, Intent, Controller, Failure, External, vars, apiVars,
        StartReconcile, Admit, ReconcileChild, Observe, CreateFinalBackup,
        FinalBackupGate, DeleteFinalBackup, DeleteCluster, Interrupt,
        WriteError, ClusterOutage, Watch, ClusterBecomesReady,
        FinalBackupCompletes, FinalBackupFails, ScheduledBackupStarts,
        ScheduledBackupCompletes, ScheduledBackupFails, CollectChild, CollectBackups
  <2>. QED
    BY <2>2, <2>4, <2>5, <2>6, <2>7, <2>8, <2>9, <2>10, <2>11
<1>. QED
  BY <1>3, <1>4

\* The condition that applicationDatabaseReady trusts, for a controller that
\* does not start on a lagging cache: Ready at the current generation, with
\* backups enabled, takes a Backup of the name that completed -- whatever edits,
\* crashes, failing Backups and recreations race with the status patch.
THEOREM ReadyTakesABackup == ~StaleReads => (Spec => []ReadyMeansBackedUp)
<1> SUFFICES ASSUME ~StaleReads PROVE Spec => []ReadyMeansBackedUp
  OBVIOUS
<1>1. Init => ReadyInv
  BY DEF Init, ReadyInv, FreshReconcile, HoldsObject, BackupsOnRecord, SuccessfulBackup,
         ReportIsSound, StatusIsSound, Idle, NoDatabase, NoStatus
<1>2. TypeOK /\ IInv /\ ReadyInv /\ [Next]_vars => ReadyInv'
  BY FreshStep, BackupsStep, ReportStep DEF ReadyInv
<1>3. TypeOK /\ ReadyInv => ReadyMeansBackedUp
  <2> SUFFICES ASSUME TypeOK, ReadyInv, db.uid # 0, db.enabled, db.status.ready,
                      db.status.readyGen = db.gen
               PROVE  \E u \in backedUp : u <= db.uid
    BY DEF ReadyMeansBackedUp
  <2>1. backedUp # {} /\ db.uid = born /\ backedUp \subseteq 1..born
    BY DEF ReadyInv, StatusIsSound, BackupsOnRecord
  <2>2. PICK u \in backedUp : TRUE
    BY <2>1
  <2>3. u <= db.uid
    BY <2>1, <2>2, GenerationsTyped DEF Generations
  <2>. QED
    BY <2>2, <2>3
<1>. QED
  BY <1>1, <1>2, <1>3, TypeCorrect, InvariantHolds, PTL DEF Spec

\* What a reconcile of the live Database's deletion is about.
LEMMA DeletionOfLive ==
  ASSUME TypeOK, IInv, CleanupInv, rec.pc \in DeletionSteps
  PROVE  /\ rec.seen.uid = db.uid /\ db.uid # 0 /\ db.deleting
         /\ rec.seen.enabled = db.enabled
         /\ rec.pc \in {"final", "gate"} => db.enabled
BY DEF IInv, DeletionReconcile, CleanupInv, FreshReconcile, HoldsObject,
       OneDeletionPath, DeletionSteps

\* The owner of the desired state cannot change what the deletion relies on.
LEMMA IntentKeepsCleanup ==
  ASSUME ~EditsWhileDeleting, TypeOK, IInv, CleanupInv, Intent
  PROVE  OneDeletionPath' /\ FinalBackupOwned' /\ reused' = {}
<1>1. UNCHANGED <<rec, final, reused>>
  BY DEF Intent, Create, EditSpec, AnnotateForce, RequestDelete, dataVars, ghosts
<1>2. db \in Database
  BY DEF TypeOK, ApiType
<1>3. ASSUME /\ db'.uid = db.uid /\ db'.deleting = db.deleting
             /\ db'.enabled = db.enabled
      PROVE  OneDeletionPath' /\ FinalBackupOwned' /\ reused' = {}
  BY <1>1, <1>3 DEF OneDeletionPath, FinalBackupOwned, CleanupInv
<1>4. ASSUME db.uid = 0 \/ ~db.deleting
      PROVE  OneDeletionPath' /\ FinalBackupOwned' /\ reused' = {}
  <2>1. rec.pc \notin DeletionSteps /\ final.phase = "none"
    BY <1>4, DeletionOfLive DEF CleanupInv, FinalBackupOwned
  <2>. QED
    BY <1>1, <2>1 DEF OneDeletionPath, FinalBackupOwned, CleanupInv
<1>5. ASSUME AnnotateForce
      PROVE  OneDeletionPath' /\ FinalBackupOwned' /\ reused' = {}
  BY <1>2, <1>3, <1>5 DEF AnnotateForce, Database
<1>6. ASSUME ~AnnotateForce
      PROVE  db.uid = 0 \/ ~db.deleting
  BY <1>6 DEF Intent, Create, EditSpec, RequestDelete
<1>. QED
  BY <1>4, <1>5, <1>6

\* The steps of a reconcile make, look for and delete one final Backup, that of
\* the live Database.
LEMMA ControllerKeepsCleanup ==
  ASSUME ~StaleReads, TypeOK, IInv, CleanupInv, Controller
  PROVE  OneDeletionPath' /\ FinalBackupOwned' /\ reused' = {}
<1>1. Generations
  BY GenerationsTyped
<1> USE <1>1 DEF Generations, CleanupInv
<1>2. OneDeletionPath'
  <2>1. ASSUME StartReconcile PROVE OneDeletionPath'
    <3>1. CASE rec' = Idle
      BY <3>1 DEF OneDeletionPath, Idle, DeletionSteps
    <3>2. CASE rec' = [Idle EXCEPT !.pc = Entry(cached), !.seen = cached]
      <4>1. cached = db /\ UNCHANGED db
        BY <2>1 DEF StartReconcile, apiVars
      <4>2. rec'.seen = db' /\ rec'.pc = Entry(db)
        BY <3>2, <4>1 DEF Idle
      <4>3. /\ Entry(db) # "gate"
            /\ Entry(db) = "final" => db.enabled
        BY DEF Entry, DeletionEntry, NeedsFinalBackup
      <4>. QED
        BY <4>1, <4>2, <4>3 DEF OneDeletionPath
    <3>. QED
      BY <2>1, <3>1, <3>2 DEF StartReconcile
  <2>2. ASSUME rec'.pc \notin DeletionSteps PROVE OneDeletionPath'
    BY <2>2 DEF OneDeletionPath
  <2>3. ASSUME rec.pc \in DeletionSteps, NEW pc, rec' = [rec EXCEPT !.pc = pc],
               pc \in {"final", "gate"} => rec.pc \in {"final", "gate"}, UNCHANGED db
        PROVE  OneDeletionPath'
    BY <2>3 DEF OneDeletionPath, Reconcile
  <2>4. ASSUME CreateFinalBackup \/ DeleteFinalBackup \/ DeleteCluster
        PROVE  OneDeletionPath'
    <3>1. UNCHANGED db /\ rec.pc \in DeletionSteps
      BY <2>4 DEF CreateFinalBackup, DeleteFinalBackup, DeleteCluster, apiVars, DeletionSteps
    <3>. QED
      BY <2>3, <2>4, <3>1 DEF CreateFinalBackup, DeleteFinalBackup, DeleteCluster
  <2>5. ASSUME NEW desired, NEW again, ReportThenReturn(desired, again)
        PROVE  OneDeletionPath'
    <3>1. rec'.pc = "status"
      BY <2>5 DEF ReportThenReturn, Reconcile
    <3>. QED
      BY <2>2, <3>1 DEF DeletionSteps
  <2>6. ASSUME FinalBackupGate PROVE OneDeletionPath'
    <3>1. UNCHANGED db /\ rec.pc \in DeletionSteps
      BY <2>6 DEF FinalBackupGate, apiVars, DeletionSteps
    <3>. QED
      BY <2>3, <2>5, <2>6, <3>1 DEF FinalBackupGate
  <2>7. ASSUME Observe PROVE OneDeletionPath'
    BY <2>5, <2>7 DEF Observe
  <2>8. ASSUME ReconcileChild PROVE OneDeletionPath'
    <3>1. NextChild => rec'.pc \notin DeletionSteps
      BY DEF NextChild, Reconcile, DeletionSteps
    <3>. QED
      BY <2>2, <2>5, <2>8, <3>1 DEF ReconcileChild, ApplyChild, DeleteChild
  <2>9. ASSUME Admit PROVE OneDeletionPath'
    <3>1. rec' = [rec EXCEPT !.pc = "child", !.step = 1] => rec'.pc \notin DeletionSteps
      BY DEF Reconcile, DeletionSteps
    <3>. QED
      BY <2>2, <2>5, <2>9, <3>1 DEF Admit
  <2>10. ASSUME AddFinalizer \/ PatchStatus \/ ReleaseFinalizer PROVE OneDeletionPath'
    <3>1. Idle.pc \notin DeletionSteps
      BY DEF Idle, DeletionSteps
    <3>2. ASSUME NEW seen, rec' = [rec EXCEPT !.pc = "admit", !.seen = seen]
          PROVE  rec'.pc \notin DeletionSteps
      BY <3>2 DEF Reconcile, DeletionSteps
    <3>. QED
      BY <2>2, <2>10, <3>1, <3>2 DEF AddFinalizer, PatchStatus, ReleaseFinalizer, Finish
  <2>. QED
    BY <2>1, <2>4, <2>6, <2>7, <2>8, <2>9, <2>10 DEF Controller
<1>3. FinalBackupOwned' /\ reused' = {}
  <2>1. ASSUME CreateFinalBackup PROVE FinalBackupOwned' /\ reused' = {}
    <3>1. rec.pc = "final" /\ rec'.pc = "gate" /\ UNCHANGED <<db, reused>>
      BY <2>1 DEF CreateFinalBackup, apiVars, ghosts, Reconcile
    <3>2. db.uid # 0 /\ db.deleting /\ db.enabled /\ rec.seen.uid = db.uid
      BY <3>1, DeletionOfLive DEF DeletionSteps
    <3>3. final'.phase # "none" => final'.for = db.uid
      BY <2>1, <3>2 DEF CreateFinalBackup, FinalBackupOwned
    <3>. QED
      BY <3>1, <3>2, <3>3 DEF FinalBackupOwned
  <2>2. ASSUME DeleteFinalBackup PROVE FinalBackupOwned' /\ reused' = {}
    BY <2>2 DEF DeleteFinalBackup, FinalBackupOwned, ghosts
  <2>3. ASSUME DeleteCluster PROVE FinalBackupOwned' /\ reused' = {}
    BY <2>3 DEF DeleteCluster, FinalBackupOwned, apiVars
  <2>4. ASSUME ReleaseFinalizer PROVE FinalBackupOwned' /\ reused' = {}
    BY <2>4 DEF ReleaseFinalizer, FinalBackupOwned, dataVars, ghosts
  <2>5. ASSUME StartReconcile PROVE FinalBackupOwned' /\ reused' = {}
    <3>1. cached = db /\ UNCHANGED <<db, final, reused>>
      BY <2>5 DEF StartReconcile, apiVars, dataVars, ghosts
    <3>2. rec'.pc \in {"idle", Entry(db)}
      BY <2>5, <3>1 DEF StartReconcile, Idle
    <3>3. Entry(db) \in {"dropCluster", "release"} => ~db.enabled
      BY DEF Entry, DeletionEntry, NeedsFinalBackup
    <3>. QED
      BY <3>1, <3>2, <3>3 DEF FinalBackupOwned
  <2>6. ASSUME UNCHANGED <<db.uid, db.deleting, db.enabled, final, reused>>,
               rec'.pc \notin {"dropCluster", "release"}
        PROVE  FinalBackupOwned' /\ reused' = {}
    BY <2>6 DEF FinalBackupOwned
  <2>7. ASSUME NEW desired, NEW again, ReportThenReturn(desired, again)
        PROVE  rec'.pc \notin {"dropCluster", "release"}
    BY <2>7 DEF ReportThenReturn, Reconcile
  <2>8. ASSUME FinalBackupGate PROVE FinalBackupOwned' /\ reused' = {}
    <3>1. UNCHANGED <<db, final>> /\ rec.pc = "gate"
      BY <2>8 DEF FinalBackupGate, apiVars, dataVars
    <3>2. rec.seen.uid = db.uid
      BY <3>1, DeletionOfLive DEF DeletionSteps
    <3>3. GateOpen => final.for = db.uid
      BY DEF GateOpen, FinalBackupOwned
    <3>4. UNCHANGED reused
      BY <2>8, <3>2, <3>3 DEF FinalBackupGate
    <3>5. rec' = [rec EXCEPT !.pc = "dropFinal"] => rec'.pc \notin {"dropCluster", "release"}
      BY DEF Reconcile
    <3>. QED
      BY <2>6, <2>7, <2>8, <3>1, <3>4, <3>5 DEF FinalBackupGate
  <2>9. ASSUME ReconcileChild PROVE FinalBackupOwned' /\ reused' = {}
    <3>1. NextChild => rec'.pc \notin {"dropCluster", "release"}
      BY DEF NextChild, Reconcile
    <3>2. UNCHANGED <<db, final, reused>>
      BY <2>9 DEF ReconcileChild, apiVars, ghosts
    <3>. QED
      BY <2>6, <2>7, <2>9, <3>1, <3>2 DEF ReconcileChild, ApplyChild, DeleteChild
  <2>10. ASSUME Admit \/ Observe PROVE FinalBackupOwned' /\ reused' = {}
    <3>1. rec' = [rec EXCEPT !.pc = "child", !.step = 1]
            => rec'.pc \notin {"dropCluster", "release"}
      BY DEF Reconcile
    <3>2. UNCHANGED <<db, final, reused>>
      BY <2>10 DEF Admit, Observe, apiVars, dataVars, ghosts
    <3>. QED
      BY <2>6, <2>7, <2>10, <3>1, <3>2 DEF Admit, Observe
  <2>11. Idle.pc \notin {"dropCluster", "release"}
    BY DEF Idle
  <2>12. ASSUME AddFinalizer PROVE FinalBackupOwned' /\ reused' = {}
    <3>1. UNCHANGED <<db.uid, db.deleting, db.enabled, final, reused>>
      BY <2>12 DEF AddFinalizer, dataVars, ghosts, Database
    <3>2. ASSUME NEW seen, rec' = [rec EXCEPT !.pc = "admit", !.seen = seen]
          PROVE  rec'.pc \notin {"dropCluster", "release"}
      BY <3>2 DEF Reconcile
    <3>. QED
      BY <2>6, <2>11, <2>12, <3>1, <3>2 DEF AddFinalizer, Finish
  <2>13. ASSUME PatchStatus PROVE FinalBackupOwned' /\ reused' = {}
    <3>1. UNCHANGED <<db.uid, db.deleting, db.enabled, final, reused>>
      BY <2>13 DEF PatchStatus, dataVars, ghosts, Database
    <3>. QED
      BY <2>6, <2>11, <2>13, <3>1 DEF PatchStatus, Finish
  <2>. QED
    BY <2>1, <2>2, <2>3, <2>4, <2>5, <2>8, <2>9, <2>10, <2>12, <2>13 DEF Controller
<1>. QED
  BY <1>2, <1>3

\* Neither a failure nor CloudNativePG makes, renames or owns a final Backup.
LEMMA OutsideKeepsCleanup ==
  ASSUME TypeOK, CleanupInv, Failure \/ External
  PROVE  OneDeletionPath' /\ FinalBackupOwned' /\ reused' = {}
<1>1. Generations
  BY GenerationsTyped
<1> USE <1>1 DEF Generations, CleanupInv
<1>2. UNCHANGED <<db, reused>>
  BY DEF Failure, Interrupt, WriteError, ClusterOutage, External, Watch,
         ClusterBecomesReady, FinalBackupCompletes, FinalBackupFails,
         ScheduledBackupStarts, ScheduledBackupCompletes, ScheduledBackupFails,
         CollectChild, CollectBackups, apiVars, ghosts
<1>3. UNCHANGED rec \/ rec'.pc \notin DeletionSteps
  <2>1. CASE Interrupt
    BY <2>1 DEF Interrupt, Finish, Idle, DeletionSteps
  <2>2. CASE WriteError
    BY <2>2 DEF WriteError, ReportThenReturn, Reconcile, DeletionSteps
  <2>3. Interrupt \/ WriteError \/ UNCHANGED rec
    BY DEF Failure, ClusterOutage, External, Watch,
         ClusterBecomesReady, FinalBackupCompletes, FinalBackupFails,
         ScheduledBackupStarts, ScheduledBackupCompletes, ScheduledBackupFails,
         CollectChild, CollectBackups
  <2>. QED
    BY <2>1, <2>2, <2>3
<1>4. /\ final'.for = final.for
      /\ final'.phase = "none" <=> final.phase = "none"
  <2>1. CASE FinalBackupCompletes
    BY <2>1 DEF FinalBackupCompletes, FinalBackup
  <2>2. CASE FinalBackupFails
    BY <2>2 DEF FinalBackupFails, FinalBackup
  <2>3. FinalBackupCompletes \/ FinalBackupFails \/ UNCHANGED final
    BY DEF Failure, Interrupt, WriteError, ClusterOutage, External, Watch,
         ClusterBecomesReady,
         ScheduledBackupStarts, ScheduledBackupCompletes, ScheduledBackupFails,
         CollectChild, CollectBackups, dataVars
  <2>. QED
    BY <2>1, <2>2, <2>3
<1>. QED
  BY <1>2, <1>3, <1>4 DEF OneDeletionPath, FinalBackupOwned, DeletionSteps

\* With an up-to-date cache and a backups.enabled that stays, a deletion's final
\* Backup is its own.
THEOREM OwnFinalBackup ==
  ~StaleReads /\ ~EditsWhileDeleting => (Spec => []CleanupInv)
<1> SUFFICES ASSUME ~StaleReads, ~EditsWhileDeleting PROVE Spec => []CleanupInv
  OBVIOUS
<1>1. Init => CleanupInv
  BY DEF Init, CleanupInv, FreshReconcile, HoldsObject, OneDeletionPath,
         FinalBackupOwned, Idle, DeletionSteps
<1>2. TypeOK /\ IInv /\ CleanupInv /\ [Next]_vars => CleanupInv'
  <2> SUFFICES ASSUME TypeOK, IInv, CleanupInv, [Next]_vars PROVE CleanupInv'
    OBVIOUS
  <2>1. FreshReconcile'
    BY FreshStep DEF CleanupInv
  <2>2. CASE UNCHANGED vars
    BY <2>1, <2>2 DEF vars, apiVars, dataVars, ghosts, CleanupInv, OneDeletionPath,
                      FinalBackupOwned
  <2>. QED
    BY <2>1, <2>2, IntentKeepsCleanup, ControllerKeepsCleanup, OutsideKeepsCleanup
    DEF Next, CleanupInv
<1>. QED
  BY <1>1, <1>2, TypeCorrect, InvariantHolds, PTL DEF Spec

\* The ownerless final Backup does not outlive the deletion that made it: when
\* the Database is gone, so is the Backup, whatever crashes and API errors came
\* between its creation and its deletion.
THEOREM FinalBackupGoes ==
  ~StaleReads /\ ~EditsWhileDeleting => (Spec => []FinalBackupCleanedUp)
<1>1. CleanupInv => FinalBackupCleanedUp
  BY DEF CleanupInv, FinalBackupOwned, FinalBackupCleanedUp
<1>. QED
  BY <1>1, OwnFinalBackup, PTL

\* And the controller implements the contract of ADR-0010: no Backup but one
\* that was taken while the lifetime terminated, and no operator but the one who
\* waived it, clears a data plane for removal.
THEOREM OwnContractIsKept ==
  ~StaleReads /\ ~EditsWhileDeleting => (Spec => KeepsOwnContract)
<1> SUFFICES ASSUME ~StaleReads, ~EditsWhileDeleting PROVE Spec => KeepsOwnContract
  OBVIOUS
<1>1. Contract!Init /\ CleanupInv => OwnContract!Init
  BY DEF Contract!Init, OwnContract!Init, Justified, CleanupInv
<1>2. CleanupInv /\ CleanupInv' /\ [Contract!Next]_(Contract!vars)
        => [OwnContract!Next]_(OwnContract!vars)
  <2> SUFFICES ASSUME CleanupInv, CleanupInv', [Contract!Next]_(Contract!vars)
               PROVE  [OwnContract!Next]_(OwnContract!vars)
    OBVIOUS
  <2>1. Justified = excused \cup saved /\ Justified' = (excused \cup saved)'
    BY DEF Justified, CleanupInv
  <2>. QED
    BY <2>1 DEF Contract!Next, Contract!vars, Contract!Create, Contract!Provision,
         Contract!AskToEnd, Contract!Clear, Contract!Remove, Contract!Vanish,
         OwnContract!Next, OwnContract!vars, OwnContract!Create, OwnContract!Provision,
         OwnContract!AskToEnd, OwnContract!Clear, OwnContract!Remove, OwnContract!Vanish
<1>. QED
  BY <1>1, <1>2, OwnFinalBackup, ContractIsKept, PTL
  DEF KeepsContract, KeepsOwnContract, Contract!Spec, OwnContract!Spec

=============================================================================
