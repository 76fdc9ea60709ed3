---------------------------- MODULE TeamLifecycle ----------------------------
(***************************************************************************)
(* The Team controller (internal/controller/team_controller.go) on one     *)
(* Team name: the Namespace boundary it builds layer by layer and never    *)
(* takes from others, and the finalizer that lets the Applications, then   *)
(* the Databases, then the Namespace go before the Team does.              *)
(*                                                                         *)
(* The Team name lives several times; a lifetime is the number of its UID. *)
(* The Namespace and its contents are addressed by name and carry the UID  *)
(* of the Team that made them as an annotation ("owner").                  *)
(*                                                                         *)
(* Teams, Namespaces, Applications and Databases are read from informer    *)
(* caches, each of which lags on its own.  Each API write is a step, and   *)
(* so is the ownership check that precedes it, so others may act between.  *)
(*                                                                         *)
(* Abstractions: the objects of one layer (ResourceQuota and LimitRange,   *)
(* ServiceAccount and RoleBinding, five NetworkPolicies) are one object,   *)
(* and what the Team's spec says of it is the Team's generation.  The      *)
(* layers are read as they are.  Applications and Databases are tenants:   *)
(* all that matters of them is whether they exist, terminate, and what     *)
(* their deletion waits for.  Events and condition messages are left out.  *)
(***************************************************************************)
EXTENDS Integers, FiniteSets

CONSTANTS
  Applications, Databases, \* tenant names in the Team's Namespace
  MaxLifetimes, \* bound: how often the Team's name is created
  MaxEdits,     \* bound: spec and annotation edits
  MaxFaults,    \* bound: crashes, API errors, drift and failed final Backups
  MaxClaims,    \* bound: Namespaces and layers that others create or take
  MaxTenants,   \* bound: tenants created
  Holds,        \* what the deletion of a new Database waits for
  StaleReads    \* may a reconcile start on lagging caches?

ASSUME BoundsAssumption ==
  /\ MaxLifetimes \in Nat \ {0}
  /\ MaxEdits \in Nat
  /\ MaxFaults \in Nat
  /\ MaxClaims \in Nat
  /\ MaxTenants \in Nat
  /\ Holds \subseteq {"plain", "backup"}
  /\ StaleReads \in BOOLEAN

ASSUME TenantsAssumption == Applications \cap Databases = {}

VARIABLES
  team,         \* the Team in the API server (uid 0: no object)
  ns,           \* the Namespace team-<name> (owner 0: no object)
  layers,       \* the objects of the boundary: their owner and generation
  role,         \* does the installed owner ClusterRole have the right rules?
  apps, dbs,    \* the Applications and the Databases in the Namespace
  cachedTeam, cachedNs, cachedApps, cachedDbs, \* the informers' copies
  rec,          \* the reconcile in progress
  dirty,        \* is the Team's key in the workqueue?
  born, edits, faults, claims, tenants, \* consumed bounds
  \* History, read by the properties only:
  unseen,       \* tenants the informers did not have when this reconcile began
  claimed       \* objects others took that the informers did not show then

api    == <<team, ns, layers, role, apps, dbs>>
caches == <<cachedTeam, cachedNs, cachedApps, cachedDbs>>
bounds == <<born, edits, faults, claims, tenants>>
vars   == <<api, caches, rec, dirty, bounds, unseen, claimed>>

-----------------------------------------------------------------------------
(* Data *)

Tenant == Applications \cup Databases

\* 0: nobody, the object does not exist; Foreign: not made by this Team.
Foreign == MaxLifetimes + 1
Owner   == 0..Foreign
Uid     == 0..MaxLifetimes

Layer   == {"ResourcePolicy", "RBAC", "NetworkPolicy"}
Stage   == 1..4
ObjectAt == <<"Namespace", "ResourcePolicy", "RBAC", "NetworkPolicy">>

\* The conditions: all five are set together, from the stage that failed (0:
\* none did) and the reason.  "gen" is status.observedGeneration, "at" the
\* generation in the conditions.
Reason == {"Unset", "TeamReady", "InvalidConfiguration", "ReconciliationFailed",
           "OwnershipConflict", "Terminating"}
Status == [gen: Nat, reason: Reason, stage: 0..4, at: Nat]
NoStatus == [gen |-> 0, reason |-> "Unset", stage |-> 0, at |-> 0]

Team == [uid: Uid, gen: Nat, valid: BOOLEAN, force: BOOLEAN,
         deleting: BOOLEAN, finalizer: BOOLEAN, status: Status]
NoTeam == [uid |-> 0, gen |-> 0, valid |-> FALSE, force |-> FALSE,
           deleting |-> FALSE, finalizer |-> FALSE, status |-> NoStatus]

Namespace == [owner: Owner, label: BOOLEAN, deleting: BOOLEAN]
NoNamespace == [owner |-> 0, label |-> FALSE, deleting |-> FALSE]

LayerObject == [owner: Owner, gen: Nat]
NoObject == [owner |-> 0, gen |-> 0]

Presence == {"absent", "live", "deleting"}

\* What a Database's deletion waits for: "plain" nothing, "backup" its final
\* Backup, "failed" a final Backup that will never complete; "forced" is the
\* annotation steadystate.dev/force-delete=true.
Hold == {"plain", "backup", "failed", "forced"}
Database == [state: Presence, hold: Hold]
NoDatabase == [state |-> "absent", hold |-> "plain"]

StepName == {"idle", "finalizer", "check", "write", "status", "listApps",
             "dropApps", "listDbs", "dropDbs", "dropNamespace", "release"}

Reconcile ==
  [pc: StepName, seen: Team, stage: Stage, desired: Status,
   next: {"idle", "listApps"}, retry: BOOLEAN, nsLive: BOOLEAN,
   unforced: SUBSET Databases, todo: SUBSET Tenant]

Idle == [pc |-> "idle", seen |-> NoTeam, stage |-> 1, desired |-> NoStatus,
         next |-> "idle", retry |-> FALSE, nsLive |-> FALSE,
         unforced |-> {}, todo |-> {}]

TypeOK ==
  /\ team \in Team /\ cachedTeam \in Team
  /\ ns \in Namespace /\ cachedNs \in Namespace
  /\ layers \in [Layer -> LayerObject]
  /\ role \in BOOLEAN
  /\ apps \in [Applications -> Presence] /\ cachedApps \in [Applications -> Presence]
  /\ dbs \in [Databases -> Database] /\ cachedDbs \in [Databases -> Database]
  /\ rec \in Reconcile /\ dirty \in BOOLEAN
  /\ born \in Uid /\ edits \in Nat /\ faults \in Nat /\ claims \in Nat
  /\ tenants \in Nat
  /\ unseen \subseteq Tenant
  /\ claimed \subseteq Layer \cup {"Namespace"}

Init ==
  /\ team = NoTeam /\ cachedTeam = NoTeam
  /\ ns = NoNamespace /\ cachedNs = NoNamespace
  /\ layers = [l \in Layer |-> NoObject]
  /\ role = TRUE
  /\ apps = [a \in Applications |-> "absent"] /\ cachedApps = apps
  /\ dbs = [d \in Databases |-> NoDatabase] /\ cachedDbs = dbs
  /\ rec = Idle
  /\ dirty = FALSE
  /\ born = 0 /\ edits = 0 /\ faults = 0 /\ claims = 0 /\ tenants = 0
  /\ unseen = {}
  /\ claimed = {}

Present(t) == IF t \in Applications THEN apps[t] # "absent"
                                    ELSE dbs[t].state # "absent"

\* managedByTeam: label and UID; ownedByTeamUID: the UID alone.
ManagedBy(n, d) == n.owner = d.uid /\ n.label

\* The history of the reconcile in progress; there is none between two.
NotSeen(new) == unseen' = IF rec.pc = "idle" THEN {} ELSE unseen \cup new
Claimed(new) == claimed' = IF rec.pc = "idle" THEN {} ELSE claimed \cup new

-----------------------------------------------------------------------------
(* External: people and Argo CD *)

Create(valid) ==
  /\ team.uid = 0
  /\ born < MaxLifetimes
  /\ born' = born + 1
  /\ team' = [NoTeam EXCEPT !.uid = born + 1, !.gen = 1, !.valid = valid]
  /\ UNCHANGED <<ns, layers, role, apps, dbs, caches, rec, dirty,
                 edits, faults, claims, tenants, unseen, claimed>>

\* A spec change: owners, quota or repositories.
EditSpec(valid) ==
  /\ team.uid # 0 /\ edits < MaxEdits
  /\ edits' = edits + 1
  /\ team' = [team EXCEPT !.gen = @ + 1, !.valid = valid]
  /\ UNCHANGED <<ns, layers, role, apps, dbs, caches, rec, dirty,
                 born, faults, claims, tenants, unseen, claimed>>

AnnotateForce ==
  /\ team.uid # 0 /\ ~team.force /\ edits < MaxEdits
  /\ edits' = edits + 1
  /\ team' = [team EXCEPT !.force = TRUE]
  /\ UNCHANGED <<ns, layers, role, apps, dbs, caches, rec, dirty,
                 born, faults, claims, tenants, unseen, claimed>>

RequestDelete ==
  /\ team.uid # 0 /\ ~team.deleting
  /\ team' = IF team.finalizer THEN [team EXCEPT !.deleting = TRUE, !.gen = @ + 1]
                               ELSE NoTeam
  /\ UNCHANGED <<ns, layers, role, apps, dbs, caches, rec, dirty, bounds,
                 unseen, claimed>>

\* Nothing can be created in a Namespace that is absent or terminating.
Open == ns.owner # 0 /\ ~ns.deleting

CreateApplication(a) ==
  /\ Open /\ apps[a] = "absent" /\ tenants < MaxTenants
  /\ tenants' = tenants + 1
  /\ apps' = [apps EXCEPT ![a] = "live"]
  /\ NotSeen({a})
  /\ UNCHANGED <<team, ns, layers, role, dbs, caches, rec, dirty,
                 born, edits, faults, claims, claimed>>

CreateDatabase(d, hold) ==
  /\ Open /\ dbs[d].state = "absent" /\ tenants < MaxTenants
  /\ tenants' = tenants + 1
  /\ dbs' = [dbs EXCEPT ![d] = [state |-> "live", hold |-> hold]]
  /\ NotSeen({d})
  /\ UNCHANGED <<team, ns, layers, role, apps, caches, rec, dirty,
                 born, edits, faults, claims, claimed>>

PruneTenant(t) ==
  /\ \/ /\ t \in Applications /\ apps[t] = "live"
        /\ apps' = [apps EXCEPT ![t] = "deleting"] /\ UNCHANGED dbs
     \/ /\ t \in Databases /\ dbs[t].state = "live"
        /\ dbs' = [dbs EXCEPT ![t].state = "deleting"] /\ UNCHANGED apps
  /\ UNCHANGED <<team, ns, layers, role, caches, rec, dirty, bounds, unseen, claimed>>

\* Somebody creates the reserved Namespace, or overwrites its UID annotation.
ClaimNamespace ==
  /\ claims < MaxClaims
  /\ ns.owner # Foreign /\ ~ns.deleting
  /\ claims' = claims + 1
  /\ ns' = [ns EXCEPT !.owner = Foreign]
  /\ Claimed({"Namespace"})
  /\ UNCHANGED <<team, layers, role, apps, dbs, caches, rec, dirty,
                 born, edits, faults, tenants, unseen>>

\* Its owner deletes a Namespace that is not the Team's.
ClaimantDeletes ==
  /\ ns.owner = Foreign /\ ~ns.deleting
  /\ ns' = [ns EXCEPT !.deleting = TRUE]
  /\ UNCHANGED <<team, layers, role, apps, dbs, caches, rec, dirty, bounds,
                 unseen, claimed>>

\* Somebody creates an object with the reserved name of a layer.
ClaimLayer(l) ==
  /\ claims < MaxClaims
  /\ Open /\ layers[l].owner = 0
  /\ claims' = claims + 1
  /\ layers' = [layers EXCEPT ![l] = [owner |-> Foreign, gen |-> 0]]
  /\ Claimed({l})
  /\ UNCHANGED <<team, ns, role, apps, dbs, caches, rec, dirty,
                 born, edits, faults, tenants, unseen>>

\* Drift: the Namespace's label, an object of a layer, the ClusterRole's rules.
LabelDrifts ==
  /\ faults < MaxFaults /\ ns.owner # 0 /\ ns.label
  /\ faults' = faults + 1
  /\ ns' = [ns EXCEPT !.label = FALSE]
  /\ UNCHANGED <<team, layers, role, apps, dbs, caches, rec, dirty,
                 born, edits, claims, tenants, unseen, claimed>>

\* A layer's object carries the Team's label, so its watch finds the Team.
LayerDrifts(l) ==
  /\ faults < MaxFaults /\ layers[l].owner \notin {0, Foreign}
  /\ faults' = faults + 1
  /\ layers' = [layers EXCEPT ![l] = NoObject]
  /\ dirty' = TRUE
  /\ UNCHANGED <<team, ns, role, apps, dbs, caches, rec,
                 born, edits, claims, tenants, unseen, claimed>>

\* teamRequestsForOwnerClusterRole enqueues every Team in the cache.
EnqueueForRole == dirty' = (dirty \/ cachedTeam.uid # 0)

RoleDrifts ==
  /\ faults < MaxFaults /\ role
  /\ faults' = faults + 1
  /\ role' = FALSE
  /\ EnqueueForRole
  /\ UNCHANGED <<team, ns, layers, apps, dbs, caches, rec,
                 born, edits, claims, tenants, unseen, claimed>>

RoleRestored ==
  /\ ~role
  /\ role' = TRUE
  /\ EnqueueForRole
  /\ UNCHANGED <<team, ns, layers, apps, dbs, caches, rec, bounds, unseen, claimed>>

-----------------------------------------------------------------------------
(* External: Kubernetes and the controllers of the tenants *)

\* The namespace controller deletes what a terminating Namespace holds ...
NamespaceCascade ==
  /\ ns.deleting
  /\ \/ \E a \in Applications : apps[a] = "live"
     \/ \E d \in Databases : dbs[d].state = "live"
     \/ \E l \in Layer : layers[l].owner # 0
  /\ apps' = [a \in Applications |-> IF apps[a] = "live" THEN "deleting" ELSE apps[a]]
  /\ dbs' = [d \in Databases |->
               IF dbs[d].state = "live" THEN [dbs[d] EXCEPT !.state = "deleting"]
                                        ELSE dbs[d]]
  /\ layers' = [l \in Layer |-> NoObject]
  /\ dirty' = (dirty \/ \E l \in Layer : layers[l].owner \notin {0, Foreign})
  /\ UNCHANGED <<team, ns, role, caches, rec, bounds, unseen, claimed>>

\* ... and the Namespace itself once no finalizer holds anything in it.
NamespaceGone ==
  /\ ns.deleting
  /\ \A t \in Tenant : ~Present(t)
  /\ \A l \in Layer : layers[l].owner = 0
  /\ ns' = NoNamespace
  /\ UNCHANGED <<team, layers, role, apps, dbs, caches, rec, dirty, bounds, unseen, claimed>>

ApplicationGone(a) ==
  /\ apps[a] = "deleting"
  /\ apps' = [apps EXCEPT ![a] = "absent"]
  /\ UNCHANGED <<team, ns, layers, role, dbs, caches, rec, dirty, bounds, unseen, claimed>>

\* A final Backup cannot be created in a terminating Namespace.
DatabaseGone(d) ==
  /\ dbs[d].state = "deleting"
  /\ \/ dbs[d].hold \in {"plain", "forced"}
     \/ dbs[d].hold = "backup" /\ ~ns.deleting
  /\ dbs' = [dbs EXCEPT ![d] = NoDatabase]
  /\ UNCHANGED <<team, ns, layers, role, apps, caches, rec, dirty, bounds, unseen, claimed>>

FinalBackupFails(d) ==
  /\ faults < MaxFaults
  /\ dbs[d] = [state |-> "deleting", hold |-> "backup"]
  /\ faults' = faults + 1
  /\ dbs' = [dbs EXCEPT ![d].hold = "failed"]
  /\ UNCHANGED <<team, ns, layers, role, apps, caches, rec, dirty,
                 born, edits, claims, tenants, unseen, claimed>>

-----------------------------------------------------------------------------
(* Informer caches and workqueue *)

WatchTeam ==
  /\ cachedTeam # team
  /\ cachedTeam' = team
  /\ dirty' = TRUE
  /\ UNCHANGED <<api, cachedNs, cachedApps, cachedDbs, rec, bounds, unseen, claimed>>

\* Mutant: only the new object's label is mapped to the Team.
EnqueueForNamespaceNew == dirty' = (dirty \/ ns.label)

\* teamRequestsForObject: an update maps the old and the new object's label,
\* so an object without the Team's label enqueues nobody.
EnqueueForNamespace == dirty' = (dirty \/ ns.label \/ cachedNs.label)

WatchNamespace ==
  /\ cachedNs # ns
  /\ cachedNs' = ns
  /\ EnqueueForNamespace
  /\ UNCHANGED <<api, cachedTeam, cachedApps, cachedDbs, rec, bounds, unseen, claimed>>

\* teamRequestForPlatformObject: by the Namespace's name.
WatchApplications ==
  /\ cachedApps # apps
  /\ cachedApps' = apps
  /\ dirty' = TRUE
  /\ UNCHANGED <<api, cachedTeam, cachedNs, cachedDbs, rec, bounds, unseen, claimed>>

WatchDatabases ==
  /\ cachedDbs # dbs
  /\ cachedDbs' = dbs
  /\ dirty' = TRUE
  /\ UNCHANGED <<api, cachedTeam, cachedNs, cachedApps, rec, bounds, unseen, claimed>>

Current == /\ cachedTeam = team /\ cachedNs = ns
           /\ cachedApps = apps /\ cachedDbs = dbs

Finish(again) ==
  /\ rec' = Idle
  /\ dirty' = (dirty \/ again)
  /\ unseen' = {}
  /\ claimed' = {}

Continue(r) ==
  /\ rec' = r
  /\ UNCHANGED <<dirty, unseen, claimed>>

-----------------------------------------------------------------------------
(* Reconcile of a live Team *)

Report(d, reason, stage) ==
  [gen |-> d.gen, reason |-> reason, stage |-> stage, at |-> d.gen]

\* readyTeamStatus, invalidTeamStatus, failedTeamStatus, terminatingTeamStatus
ReadyStatus(d)       == Report(d, "TeamReady", 0)
InvalidStatus(d)     == Report(d, "InvalidConfiguration", 0)
TerminatingStatus(d) == Report(d, "Terminating", 0)

\* Mutant: the layers are numbered from the one after the Namespace.
FailedStatusShifted(d, stage, reason) == Report(d, reason, stage + 1)

FailedStatus(d, stage, reason) == Report(d, reason, stage)

ReportThen(desired, next, again) ==
  rec' = [rec EXCEPT !.pc = "status", !.desired = desired,
                     !.next = next, !.retry = again]

\* handleReconcileFailure: a conflict is for people to solve and not retried.
ReconcileFailure(reason) ==
  ReportThen(FailedStatus(rec.seen, rec.stage, reason), "idle",
             reason # "OwnershipConflict")

\* Mutant: the label alone makes the Namespace the Team's.
DeletionEntryByLabel(d) ==
  CASE cachedNs.owner = 0 -> [pc |-> "release", desired |-> NoStatus, next |-> "idle"]
    [] cachedNs.owner # 0 /\ ~cachedNs.label ->
         [pc |-> "status", next |-> "idle",
          desired |-> FailedStatus(d, 1, "OwnershipConflict")]
    [] OTHER -> [pc |-> "status", next |-> "listApps", desired |-> TerminatingStatus(d)]

\* Mutant: a terminating Namespace counts as gone.
DeletionEntryEarly(d) ==
  CASE cachedNs.owner = 0 \/ cachedNs.deleting ->
         [pc |-> "release", desired |-> NoStatus, next |-> "idle"]
    [] cachedNs.owner # 0 /\ ~cachedNs.deleting /\ ~ManagedBy(cachedNs, d) ->
         [pc |-> "status", next |-> "idle",
          desired |-> FailedStatus(d, 1, "OwnershipConflict")]
    [] OTHER -> [pc |-> "status", next |-> "listApps", desired |-> TerminatingStatus(d)]

\* reconcileDeletion up to the lists: release the Team, refuse, or go on.
DeletionEntry(d) ==
  CASE cachedNs.owner = 0 -> [pc |-> "release", desired |-> NoStatus, next |-> "idle"]
    [] cachedNs.owner # 0 /\ ~ManagedBy(cachedNs, d) ->
         [pc |-> "status", next |-> "idle",
          desired |-> FailedStatus(d, 1, "OwnershipConflict")]
    [] OTHER -> [pc |-> "status", next |-> "listApps", desired |-> TerminatingStatus(d)]

\* Validate, once the finalizer is in place.
LiveEntry(d) ==
  IF d.valid
  THEN [pc |-> "check", desired |-> NoStatus, next |-> "idle"]
  ELSE [pc |-> "status", desired |-> InvalidStatus(d), next |-> "idle"]

Entry(d) ==
  CASE d.deleting -> DeletionEntry(d)
    [] ~d.deleting /\ d.finalizer -> LiveEntry(d)
    [] OTHER -> [pc |-> "finalizer", desired |-> NoStatus, next |-> "idle"]

Begin(base, d, entry) ==
  [base EXCEPT !.pc = entry.pc, !.seen = d,
               !.desired = entry.desired, !.next = entry.next]

InCache(t) == IF t \in Applications THEN cachedApps[t] # "absent"
                                    ELSE cachedDbs[t].state # "absent"

StartReconcile ==
  /\ rec.pc = "idle"
  /\ dirty
  /\ StaleReads \/ Current
  /\ dirty' = FALSE
  /\ \/ /\ cachedTeam.uid = 0 \/ (cachedTeam.deleting /\ ~cachedTeam.finalizer)
        /\ UNCHANGED <<rec, unseen, claimed>>
     \/ /\ cachedTeam.uid # 0 /\ (cachedTeam.deleting => cachedTeam.finalizer)
        /\ rec' = Begin([Idle EXCEPT !.nsLive = ~cachedNs.deleting],
                        cachedTeam, Entry(cachedTeam))
        /\ unseen' = {t \in Tenant : Present(t) /\ ~InCache(t)}
        /\ claimed' = IF ns.owner = cachedNs.owner THEN {} ELSE {"Namespace"}
  /\ UNCHANGED <<api, caches, bounds>>

\* The merge patch names no UID and no resourceVersion, and its answer replaces
\* the Team in memory.
AddFinalizer ==
  /\ rec.pc = "finalizer"
  /\ \/ /\ team.uid = 0
        /\ Finish(TRUE)
        /\ UNCHANGED team
     \/ /\ team.uid # 0
        /\ team' = [team EXCEPT !.finalizer = TRUE]
        /\ Continue(Begin(rec, team', LiveEntry(team')))
  /\ UNCHANGED <<ns, layers, role, apps, dbs, caches, bounds>>

OwnerInView(o) == IF o = "Namespace" THEN cachedNs.owner ELSE layers[o].owner

\* The first Get of reconcileManagedObject, and before the RBAC layer the
\* check of the installed ClusterRole.
CheckOwnership ==
  /\ rec.pc = "check"
  /\ LET o == ObjectAt[rec.stage] IN
       \/ /\ o = "RBAC" /\ ~role
          /\ ReconcileFailure("ReconciliationFailed")
       \/ /\ o = "RBAC" => role
          /\ OwnerInView(o) \notin {0, rec.seen.uid}
          /\ ReconcileFailure("OwnershipConflict")
       \/ /\ o = "RBAC" => role
          /\ OwnerInView(o) \in {0, rec.seen.uid}
          /\ rec' = [rec EXCEPT !.pc = "write"]
  /\ UNCHANGED <<api, caches, dirty, bounds, unseen, claimed>>

NextStage ==
  IF rec.stage = 4
  THEN ReportThen(ReadyStatus(rec.seen), "idle", FALSE)
  ELSE rec' = [rec EXCEPT !.pc = "check", !.stage = @ + 1]

\* CreateOrUpdate of the Namespace reads the cache once more: it creates what
\* is not there, and an update carries the cached resourceVersion.
NamespaceMade == [owner |-> rec.seen.uid, label |-> TRUE, deleting |-> FALSE]

NamespaceNeedsUpdate == ~ManagedBy(cachedNs, rec.seen)

WriteNamespace ==
  \/ /\ cachedNs.owner = 0 /\ ns.owner = 0
     /\ ns' = NamespaceMade
     /\ NextStage
  \/ /\ cachedNs.owner # 0 /\ ~NamespaceNeedsUpdate
     /\ UNCHANGED ns
     /\ NextStage
  \/ /\ cachedNs.owner # 0 /\ NamespaceNeedsUpdate /\ cachedNs = ns
     /\ ns' = [ns EXCEPT !.owner = rec.seen.uid, !.label = TRUE]
     /\ NextStage
  \/ /\ IF cachedNs.owner = 0 THEN ns.owner # 0
                              ELSE NamespaceNeedsUpdate /\ cachedNs # ns
     /\ UNCHANGED ns
     /\ ReconcileFailure("ReconciliationFailed")

\* CreateOrUpdate of a layer's object.
WriteLayer(l) ==
  \/ /\ layers[l].owner # 0 \/ Open
     /\ layers' = [layers EXCEPT ![l] = [owner |-> rec.seen.uid, gen |-> rec.seen.gen]]
     /\ dirty' = (dirty \/ layers' # layers)
     /\ NextStage
  \/ /\ layers[l].owner = 0 /\ ~Open
     /\ UNCHANGED <<layers, dirty>>
     /\ ReconcileFailure("ReconciliationFailed")

WriteObject ==
  /\ rec.pc = "write"
  /\ \/ /\ ObjectAt[rec.stage] = "Namespace"
        /\ WriteNamespace
        /\ UNCHANGED <<layers, dirty>>
     \/ /\ ObjectAt[rec.stage] # "Namespace"
        /\ WriteLayer(ObjectAt[rec.stage])
        /\ UNCHANGED ns
  /\ UNCHANGED <<team, role, apps, dbs, caches, bounds, unseen, claimed>>

\* A merge patch holds the fields in which new differs from base; the list of
\* conditions is one field.
Merge(live, base, new) ==
  LET sameConditions == /\ new.reason = base.reason /\ new.stage = base.stage
                        /\ new.at = base.at
  IN [gen    |-> IF new.gen = base.gen THEN live.gen ELSE new.gen,
      reason |-> IF sameConditions THEN live.reason ELSE new.reason,
      stage  |-> IF sameConditions THEN live.stage ELSE new.stage,
      at     |-> IF sameConditions THEN live.at ELSE new.at]

\* patchTeamStatus: nothing to do if the Team in memory has the status;
\* otherwise read it again (from the cache), drop the status of another
\* generation and patch whatever Team has the name.
StatusPatchNeeded ==
  /\ rec.seen.status # rec.desired
  /\ cachedTeam.uid # 0 =>
       cachedTeam.gen = rec.desired.gen /\ cachedTeam.status # rec.desired

AfterStatus ==
  \/ /\ rec.next = "idle"
     /\ Finish(rec.retry)
  \/ /\ rec.next # "idle"
     /\ Continue([rec EXCEPT !.pc = rec.next])

PatchStatus ==
  /\ rec.pc = "status"
  /\ \/ /\ ~StatusPatchNeeded
        /\ UNCHANGED team
        /\ AfterStatus
     \/ /\ StatusPatchNeeded
        /\ cachedTeam.uid # 0 /\ team.uid # 0
        /\ team' = [team EXCEPT !.status = Merge(@, cachedTeam.status, rec.desired)]
        /\ AfterStatus
     \/ /\ StatusPatchNeeded
        /\ cachedTeam.uid = 0 \/ team.uid = 0
        /\ UNCHANGED team
        /\ Finish(TRUE)
  /\ UNCHANGED <<ns, layers, role, apps, dbs, caches, bounds>>

-----------------------------------------------------------------------------
(* reconcileDeletion *)

\* Mutant: an Application that terminates already is not waited for.
ListedApplicationsLive == {a \in Applications : cachedApps[a] = "live"}

ListedApplications == {a \in Applications : cachedApps[a] # "absent"}

ListApplications ==
  /\ rec.pc = "listApps"
  /\ rec' = IF ListedApplications = {}
            THEN [rec EXCEPT !.pc = "listDbs"]
            ELSE [rec EXCEPT !.pc = "dropApps",
                             !.todo = {a \in ListedApplications : cachedApps[a] = "live"}]
  /\ UNCHANGED <<api, caches, dirty, bounds, unseen, claimed>>

\* Having asked for the deletions the controller returns and comes back
\* (RequeueAfter).  Delete is by name; a missing Application is no error.
DeleteApplications ==
  /\ rec.pc = "dropApps"
  /\ \/ /\ rec.todo = {}
        /\ Finish(TRUE)
        /\ UNCHANGED apps
     \/ \E a \in rec.todo \cap Applications :
          /\ apps' = [apps EXCEPT ![a] = IF @ = "live" THEN "deleting" ELSE @]
          /\ Continue([rec EXCEPT !.todo = @ \ {a}])
  /\ UNCHANGED <<team, ns, layers, role, dbs, caches, bounds>>

\* Mutant: a Database that terminates already is not waited for.
ListedDatabasesLive == {d \in Databases : cachedDbs[d].state = "live"}

ListedDatabases == {d \in Databases : cachedDbs[d].state # "absent"}

\* Mutant: the force annotation goes only to Databases not yet terminating.
UnforcedLive ==
  {d \in ListedDatabases : rec.seen.force /\ cachedDbs[d].state = "live"}

Unforced == {d \in ListedDatabases : rec.seen.force /\ cachedDbs[d].hold # "forced"}

ListDatabases ==
  /\ rec.pc = "listDbs"
  /\ rec' = IF ListedDatabases = {}
            THEN [rec EXCEPT !.pc = "dropNamespace"]
            ELSE [rec EXCEPT !.pc = "dropDbs",
                             !.unforced = Unforced,
                             !.todo = {d \in ListedDatabases : cachedDbs[d].state = "live"}]
  /\ UNCHANGED <<api, caches, dirty, bounds, unseen, claimed>>

\* Pass the Team's force annotation on, then delete, Database by Database; a
\* patch of a missing Database is an error, a delete is not.
DeleteDatabases ==
  /\ rec.pc = "dropDbs"
  /\ \/ /\ rec.unforced = {} /\ rec.todo = {}
        /\ Finish(TRUE)
        /\ UNCHANGED dbs
     \/ \E d \in rec.unforced :
          \/ /\ dbs[d].state # "absent"
             /\ dbs' = [dbs EXCEPT ![d].hold = "forced"]
             /\ Continue([rec EXCEPT !.unforced = @ \ {d}])
          \/ /\ dbs[d].state = "absent"
             /\ UNCHANGED dbs
             /\ Finish(TRUE)
     \/ \E d \in (rec.todo \cap Databases) \ rec.unforced :
          /\ dbs' = [dbs EXCEPT ![d].state = IF @ = "live" THEN "deleting" ELSE @]
          /\ Continue([rec EXCEPT !.todo = @ \ {d}])
  /\ UNCHANGED <<team, ns, layers, role, apps, caches, bounds>>

\* By name again: whatever Namespace has the name begins to terminate.
DeleteNamespace ==
  /\ rec.pc = "dropNamespace"
  /\ ns' = IF rec.nsLive /\ ns.owner # 0 THEN [ns EXCEPT !.deleting = TRUE] ELSE ns
  /\ Finish(TRUE)
  /\ UNCHANGED <<team, layers, role, apps, dbs, caches, bounds>>

\* The finalizer patch; the API server removes a terminating Team with it.
ReleaseFinalizer ==
  /\ rec.pc = "release"
  /\ \/ /\ team.uid = 0
        /\ Finish(TRUE)
        /\ UNCHANGED team
     \/ /\ team.uid # 0 /\ team.deleting
        /\ team' = NoTeam
        /\ Finish(FALSE)
     \/ /\ team.uid # 0 /\ ~team.deleting
        /\ team' = [team EXCEPT !.finalizer = FALSE]
        /\ Finish(FALSE)
  /\ UNCHANGED <<ns, layers, role, apps, dbs, caches, bounds>>

\* A crash of the manager, or an API error that Reconcile returns at once.
Interrupt ==
  /\ rec.pc # "idle"
  /\ faults < MaxFaults
  /\ faults' = faults + 1
  /\ Finish(TRUE)
  /\ UNCHANGED <<api, caches, born, edits, claims, tenants>>

\* An API error while a layer is read or written: report it, then retry.
WriteError ==
  /\ rec.pc \in {"check", "write"}
  /\ faults < MaxFaults
  /\ faults' = faults + 1
  /\ ReconcileFailure("ReconciliationFailed")
  /\ UNCHANGED <<api, caches, dirty, born, edits, claims, tenants, unseen, claimed>>

-----------------------------------------------------------------------------
(* Specification *)

People ==
  \/ \E valid \in BOOLEAN : Create(valid)
  \/ \E valid \in BOOLEAN : EditSpec(valid)
  \/ AnnotateForce
  \/ RequestDelete
  \/ \E a \in Applications : CreateApplication(a)
  \/ \E d \in Databases, hold \in Holds : CreateDatabase(d, hold)
  \/ \E t \in Tenant : PruneTenant(t)

Others ==
  \/ ClaimNamespace
  \/ ClaimantDeletes
  \/ \E l \in Layer : ClaimLayer(l)

Drift ==
  \/ LabelDrifts
  \/ \E l \in Layer : LayerDrifts(l)
  \/ RoleDrifts
  \/ \E d \in Databases : FinalBackupFails(d)

Platform ==
  \/ RoleRestored
  \/ NamespaceCascade
  \/ NamespaceGone
  \/ \E a \in Applications : ApplicationGone(a)
  \/ \E d \in Databases : DatabaseGone(d)

Informers ==
  \/ WatchTeam
  \/ WatchNamespace
  \/ WatchApplications
  \/ WatchDatabases

Controller ==
  \/ StartReconcile
  \/ AddFinalizer
  \/ CheckOwnership
  \/ WriteObject
  \/ PatchStatus
  \/ ListApplications
  \/ DeleteApplications
  \/ ListDatabases
  \/ DeleteDatabases
  \/ DeleteNamespace
  \/ ReleaseFinalizer

Failure == Interrupt \/ WriteError

Next == People \/ Others \/ Drift \/ Platform \/ Informers \/ Controller \/ Failure

Spec == Init /\ [][Next]_vars

\* Kubernetes, the tenants' controllers and the informers make progress, the
\* cluster's administrator restores the owner ClusterRole, and the workqueue
\* runs an enqueued Team.  Nobody has to create, edit or delete anything.
Fairness ==
  /\ WF_vars(Controller)
  /\ WF_vars(WatchTeam) /\ WF_vars(WatchNamespace)
  /\ WF_vars(WatchApplications) /\ WF_vars(WatchDatabases)
  /\ WF_vars(RoleRestored)
  /\ WF_vars(NamespaceCascade) /\ WF_vars(NamespaceGone)
  /\ \A a \in Applications : WF_vars(ApplicationGone(a))
  /\ \A d \in Databases : WF_vars(DatabaseGone(d))

FairSpec == Spec /\ Fairness

-----------------------------------------------------------------------------
(* Inductive invariant *)

\* UIDs are given out in order; an owner is a Team that was born, or Foreign.
UidsInOrder ==
  /\ team.uid <= born /\ cachedTeam.uid <= born /\ rec.seen.uid <= born
  /\ ns.owner <= born \/ ns.owner = Foreign

\* A tenant that the informers have not shown is recorded as unseen, so empty
\* lists mean that whatever is still there came too late to be listed.
TenantsSeen ==
  rec.pc # "idle" => \A t \in Tenant : Present(t) => InCache(t) \/ t \in unseen

ApplicationsListed ==
  rec.pc \in {"listDbs", "dropDbs", "dropNamespace"}
    => \A a \in Applications : Present(a) => a \in unseen

TenantsListed ==
  rec.pc = "dropNamespace" => \A t \in Tenant : Present(t) => t \in unseen

\* Past the ownership check of reconcileDeletion.
Deleting ==
  \/ rec.pc \in {"listApps", "dropApps", "listDbs", "dropDbs", "dropNamespace"}
  \/ rec.pc = "status" /\ rec.next = "listApps"

\* The Namespace's owner is the one in the cache, or the controller's doing,
\* or recorded as claimed.
NamespaceSeen ==
  rec.pc # "idle" =>
    \/ ns.owner \in {0, cachedNs.owner}
    \/ "Namespace" \in claimed
    \/ rec.pc # "finalizer" /\ ns.owner = rec.seen.uid

\* A check that was passed fails later only for an object taken meanwhile.
NamespaceChecked ==
  (rec.pc = "write" /\ rec.stage = 1) \/ Deleting
    => cachedNs.owner \in {0, rec.seen.uid} \/ "Namespace" \in claimed

LayerChecked ==
  rec.pc = "write" /\ rec.stage # 1 =>
    LET l == ObjectAt[rec.stage] IN
      layers[l].owner \in {0, rec.seen.uid} \/ l \in claimed

\* With current caches only: a reconcile past the finalizer works on the Team
\* that is there and held, a Team without finalizer has no Namespace, and a
\* Team about to be released has none either.
HeldByFinalizer ==
  rec.pc \notin {"idle", "finalizer"} =>
    team.uid # 0 /\ team.uid = rec.seen.uid /\ team.finalizer

NamespaceNeedsFinalizer ==
  team.uid # 0 /\ ~team.finalizer => ns.owner # team.uid

ReleaseJustified ==
  rec.pc = "release" => team.deleting /\ ns.owner \in {0, Foreign}

TenantInv  == TenantsSeen /\ ApplicationsListed /\ TenantsListed
OwnerInv   == UidsInOrder /\ NamespaceSeen /\ NamespaceChecked /\ LayerChecked
CurrentInv == HeldByFinalizer /\ NamespaceNeedsFinalizer /\ ReleaseJustified

\* The inductive invariant of the proofs, about every reconcile in progress.
IInv == TenantInv /\ OwnerInv /\ (~StaleReads => CurrentInv)

-----------------------------------------------------------------------------
(* Properties *)

\* reconcileDeletion deletes the Namespace last: when the controller starts
\* its termination, every Application and Database in it is one that the
\* informers did not have when that reconcile began.  A Database still there
\* would lose its Cluster to the cascade and could not take its final Backup.
NamespaceGoesLast ==
  [][rec.pc = "dropNamespace" /\ ~ns.deleting /\ ns'.deleting
       => \A t \in Tenant : Present(t) => t \in unseen]_vars

\* reconcileDeletion waits for the Applications before it deletes a Database:
\* an Application that the informers had when the reconcile began is gone
\* before the controller touches a Database, which could be the one it uses.
ApplicationsGoFirst ==
  [][rec.pc = "dropDbs" /\ rec' # rec /\ dbs' # dbs
       => \A a \in Applications : Present(a) => a \in unseen]_vars

\* reconcileManagedObject and managedByTeam: what the controller could see to
\* belong to someone else (another UID, or none) it neither changes nor
\* deletes.  It may only hit what others took after the reconcile began.
OthersUntouched ==
  [][rec.pc \in {"write", "dropNamespace"} /\ rec' # rec =>
       /\ ns.owner \notin {0, rec.seen.uid} /\ ns' # ns => "Namespace" \in claimed
       /\ \A l \in Layer :
            layers[l].owner \notin {0, rec.seen.uid} /\ layers'[l] # layers[l]
              => l \in claimed]_vars

\* ADR-0005: the finalizer is released only after the Namespace is gone, so no
\* Team leaves a Namespace behind that the next Team of the name must refuse.
NoOrphan == [][team.uid # 0 /\ team'.uid = 0 => ns.owner # team.uid]_vars

\* What a Team that is not being deleted ends up with.  Somebody else's object
\* sends no event when it goes away, so a conflict may outlive its cause; and
\* nothing can be put into a Namespace that terminates.
Converged ==
  \/ team.uid = 0 \/ team.deleting \/ ns.deleting
  \/ /\ team.status.gen = team.gen /\ team.status.at = team.gen
     /\ \/ team.status.reason = "OwnershipConflict"
        \/ team.status.reason = "InvalidConfiguration" /\ ~team.valid
        \/ /\ team.status.reason = "TeamReady" /\ team.valid
           /\ ManagedBy(ns, team)
           /\ \A l \in Layer : layers[l] = [owner |-> team.uid, gen |-> team.gen]

\* When the edits and the faults are over, a Team reports what is there: it is
\* Ready for its generation with the whole boundary in place, or says why not.
Settles == <>[]Converged

\* Why a deletion may wait for people: the controller refuses the Namespace, or
\* a final Backup cannot complete and nobody set the annotation.
Blocked ==
  \/ ns.owner # 0 /\ ~ManagedBy(ns, team)
  \/ team.status.reason = "OwnershipConflict"
  \/ /\ ~team.force
     /\ \E d \in Databases : /\ dbs[d].state = "deleting"
                             /\ \/ dbs[d].hold = "failed"
                                \/ dbs[d].hold = "backup" /\ ns.deleting

\* A Team's deletion ends unless it is blocked, and the force annotation
\* always unblocks the Databases, at whatever point of the deletion it is set.
DeletionEnds == []<>(~team.deleting \/ Blocked)

=============================================================================
