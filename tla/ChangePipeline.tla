---------------------------- MODULE ChangePipeline ----------------------------
(***************************************************************************)
(* The way of a change: platformctl plans it on the head of main and       *)
(* dispatches it (commands_write.go), the broker workflow renders it again *)
(* and opens a pull request (.github/workflows/platform-change.yml), a     *)
(* reviewer merges it, and Argo CD brings it to the cluster through the    *)
(* Team's child Application (gitops/clusters/local/templates).  Deletion   *)
(* takes two such changes: an approval, which makes the manifests          *)
(* prunable, and a finalization, which removes them.                       *)
(*                                                                         *)
(* Changes are made concurrently.  Main moves between any two steps of one *)
(* and Argo CD lags.  A team.update also stands for a change of another    *)
(* tenant: it moves main and leaves the catalog alone.                     *)
(*                                                                         *)
(* Abstractions: a commit of main is its number, and its content the       *)
(* catalog (TenantCatalog).  Git merges entry by entry: a pull request     *)
(* conflicts when an entry it changes was changed on main.  An object that *)
(* Argo CD deletes is gone at once; what its finalizer waits for is the    *)
(* subject of DatabaseLifecycle and TeamLifecycle.  The root renders and   *)
(* applies the head in one step; the full profile is running, so that      *)
(* Databases are in the cluster.  The ID of a change that came to nothing  *)
(* is used again, for one that never occurred.                             *)
(***************************************************************************)
EXTENDS TenantCatalog, FiniteSets

CONSTANTS
  InitialCatalogs, \* catalogs of main, all of them applied, to start from
  MaxInFlight,     \* bound: changes in flight
  RebaseMerges     \* may a pull request be merged when main has moved?

ASSUME PipelineAssumption ==
  /\ InitialCatalogs \subseteq Catalog
  /\ MaxInFlight \in Nat
  /\ RebaseMerges \in BOOLEAN

\* What has been applied to start from: nothing is being deleted, whatever
\* there is belongs to the Team, and a Service has components.
ASSUME InitialAssumption ==
  \A c \in InitialCatalogs :
    /\ \A x \in Names :
         /\ c[x].request = NoRequest /\ c[x].life # "Retiring"
         /\ Present(c, x) => Present(c, Team)
    /\ Present(c, Service) => c[Service].parts \in Templates

VARIABLES
  head,     \* the number of the head commit of main
  main,     \* its catalog
  requests, \* the ChangeRequests, by ID
  child,    \* the Team's Argo CD Application
  live      \* the objects in the cluster

vars == <<head, main, requests, child, live>>

-----------------------------------------------------------------------------
(* Data *)

Revision == 0..MaxRequests

Phase == {"Unused", "Planned", "Dispatched", "Open", "Merged"}

\* base is baseSHA; before and after are the catalog at base and the
\* rendered one.
Unused == [phase |-> "Unused", q |-> Proposal("team.create", Team), base |-> 0,
           before |-> EmptyCatalog, after |-> EmptyCatalog]

InFlight(r) == r.phase \notin {"Unused", "Merged"}

\* A live object is protected (Prune=false) or carries a deletion request.
Gone == [there |-> FALSE, request |-> NoRequest]

\* Mutant of Prunable: manifests are written without Prune=false.
PrunableUnmarked(x) == live[x].there

Protected(x) == live[x].there /\ live[x].request = NoRequest
Prunable(x) == live[x].there /\ live[x].request # NoRequest

\* The object that a catalog's manifest of x describes.
Manifest(c, x) ==
  IF Present(c, x) THEN [there |-> TRUE, request |-> c[x].request] ELSE Gone

\* The sync waves that metadata writes.
Wave(x) == CASE x = Team -> 0 \* "-1"
             [] x \in Databases -> 1 \* "0"
             [] x \in Applications -> 2 \* "1"

\* The child's spec (the pinned revision, its sources, here the catalog they
\* come from, and the finalizer) and, in its status, the revision that it was
\* last compared with.
ChildOf(c, n, seen) ==
  [there |-> TRUE, revision |-> n, target |-> c,
   cascade |-> c[Team].life = "Retiring", compared |-> seen]

NoChild == [there |-> FALSE, revision |-> 0, target |-> EmptyCatalog,
            cascade |-> FALSE, compared |-> 0]

TypeOK ==
  /\ head \in Revision
  /\ main \in Catalog
  /\ requests \in [Request -> [phase: Phase,
                               q: Proposals,
                               base: Revision, before: Catalog, after: Catalog]]
  /\ child \in [there: BOOLEAN, revision: Revision, target: Catalog,
                cascade: BOOLEAN, compared: Revision]
  /\ \A x \in Names : Present(main, x) => Present(main, Team)
  /\ live \in [Objects -> [there: BOOLEAN, request: Request \cup {NoRequest}]]

\* Everything of an initial catalog has been applied.
Init ==
  /\ head = 0
  /\ main \in InitialCatalogs
  /\ requests = [id \in Request |-> Unused]
  /\ child = IF Present(main, Team) THEN ChildOf(main, 0, 0) ELSE NoChild
  /\ live = [x \in Objects |-> Manifest(main, x)]

-----------------------------------------------------------------------------
(* platformctl *)

\* The lowest free ID is taken.
Free(id) ==
  /\ requests[id].phase = "Unused"
  /\ \A i \in 1..(id - 1) : requests[i].phase # "Unused"
  /\ Cardinality({i \in Request : InFlight(requests[i])}) < MaxInFlight

\* repositoryBaseSHA wants a clean checkout of the head of main, and the
\* change is rendered there.
Plan(id, q) ==
  /\ Accepts(main, q)
  /\ requests' = [requests EXCEPT ![id] =
       [phase |-> "Planned", q |-> q, base |-> head, before |-> main,
        after |-> Rendered(main, q, id)]]
  /\ UNCHANGED <<head, main, child, live>>

\* Mutant of Witness: for a Service, what it owns is looked at.
WitnessOwned(c, q) ==
  IF q.op = "service.finalize" THEN c[Service].owns ELSE {q.name}

\* The object whose deletion request verifyFinalization looks at: for a
\* Service the Team it owns, or else its first component, or else the
\* Database it owns.
Witness(c, q) ==
  IF q.op # "service.finalize" THEN {q.name}
  ELSE LET s == c[Service]
       IN CASE Team \in s.owns            -> {Team}
            [] /\ Team \notin s.owns
               /\ Present(c, s.parts[1])  -> {s.parts[1]}
            [] OTHER                      -> s.owns

\* Mutant of Verified: the live object is not looked at.
VerifiedRevision(r) == child.there /\ child.compared <= r.base

\* verifyFinalization: the approval revision is an ancestor of the base, the
\* child is at exactly that revision, and the live object carries the deletion
\* request.  Nothing ties the approval revision to the approval: of those that
\* the user may name, the child's is the one that passes.
Verified(r) ==
  /\ child.there
  /\ child.compared <= r.base
  /\ \A x \in Witness(r.before, r.q) :
       live[x] = [there |-> TRUE, request |-> r.q.deletion]

SetPhase(id, p) == requests' = [requests EXCEPT ![id].phase = p]

\* The rest of the command: a finalization is verified, the user confirms,
\* and the workflow is dispatched.  Otherwise the command is over (Abandon).
Submit(id) ==
  /\ requests[id].phase = "Planned"
  /\ IsFinalize(requests[id].q) => Verified(requests[id])
  /\ SetPhase(id, "Dispatched")
  /\ UNCHANGED <<head, main, child, live>>

-----------------------------------------------------------------------------
(* The broker workflow, and the reviewer *)

\* The workflow renders the change again at its base and opens the pull
\* request.  Of its two comparisons of the base with main the last one counts.
\* A run that is repeated finds the branch with the same digest.
Publish(id) ==
  /\ requests[id].phase = "Dispatched"
  /\ requests[id].base = head
  /\ SetPhase(id, "Open")
  /\ UNCHANGED <<head, main, child, live>>

\* Nothing is left of a change that ends without a merge: a command that
\* submits nothing, a run on a base that is not the head any more, a pull
\* request that is closed.
Abandon(id) ==
  /\ InFlight(requests[id])
  /\ requests[id].phase = "Dispatched" => requests[id].base # head
  /\ requests' = [requests EXCEPT ![id] = Unused]
  /\ UNCHANGED <<head, main, child, live>>

\* Git can merge when no entry was changed on both sides to different ends.
\* The Team's entry holds all the others.
Mergeable(r) ==
  /\ RebaseMerges \/ r.base = head
  /\ ~Present(r.after, Team) \/ ~Present(main, Team) => main = r.before
  /\ \A x \in Names : \/ main[x] = r.before[x]
                      \/ r.after[x] \in {r.before[x], main[x]}

\* The merged request keeps its proposal, as the history of main does.
Merge(id) ==
  LET r == requests[id]
  IN /\ r.phase = "Open"
     /\ Mergeable(r)
     /\ main' = [x \in Names |-> IF r.after[x] = r.before[x] THEN main[x]
                                 ELSE r.after[x]]
     /\ head' = head + 1
     /\ requests' = [requests EXCEPT ![id] =
          [Unused EXCEPT !.phase = "Merged", !.q = r.q]]
     /\ UNCHANGED <<child, live>>

-----------------------------------------------------------------------------
(* Argo CD *)

\* The root renders the head: the child gets its revision and its sources,
\* and the cascade finalizer when the Team is Retiring.
SyncRoot ==
  /\ Present(main, Team)
  /\ child' = ChildOf(main, head, child.compared)
  /\ UNCHANGED <<head, main, requests, live>>

\* The child is compared with its revision, and can then be synced.
CompareChild ==
  /\ child.there
  /\ child.compared # child.revision
  /\ child' = [child EXCEPT !.compared = child.revision]
  /\ UNCHANGED <<head, main, requests, live>>

Synced == child.there /\ child.compared = child.revision

\* The root prunes the child of a Team that left the catalog.  With the
\* finalizer, everything the child manages is deleted.
PruneChild ==
  /\ child.there
  /\ ~Present(main, Team)
  /\ child' = NoChild
  /\ live' = IF child.cascade THEN [x \in Objects |-> Gone] ELSE live
  /\ UNCHANGED <<head, main, requests>>

\* The child applies a manifest, after those of earlier waves.
Apply(x) ==
  /\ Synced
  /\ Present(child.target, x)
  /\ live[x] # Manifest(child.target, x)
  /\ \A y \in Objects : Wave(y) < Wave(x) /\ Present(child.target, y) =>
                         live[y] = Manifest(child.target, y)
  /\ live' = [live EXCEPT ![x] = Manifest(child.target, x)]
  /\ UNCHANGED <<head, main, requests, child>>

\* It prunes what is not in Git any more, unless the object is protected.
Prune(x) ==
  /\ Synced
  /\ ~Present(child.target, x)
  /\ Prunable(x)
  /\ live' = [live EXCEPT ![x] = Gone]
  /\ UNCHANGED <<head, main, requests, child>>

-----------------------------------------------------------------------------
(* Specification *)

\* People make any change.  Activations come from the release workflow, which
\* plans them as the command line does.
PlanSome == \E id \in Request : Free(id) /\ \E q \in Proposals : Plan(id, q)

Next ==
  \/ PlanSome
  \/ \E id \in Request : Submit(id) \/ Publish(id) \/ Merge(id) \/ Abandon(id)
  \/ SyncRoot
  \/ CompareChild
  \/ PruneChild
  \/ \E x \in Objects : Apply(x) \/ Prune(x)

Spec == Init /\ [][Next]_vars

-----------------------------------------------------------------------------
(* Properties *)

\* Does the proposal approve the deletion of object x?
Approves(q, x) ==
  \/ q.op = "team.delete"
  \/ q.op \in {"app.delete", "database.delete"} /\ q.name = x
  \/ /\ q.op = "service.retire"
     /\ x \in {Team, ServiceDatabase} \cup Range(Components)

\* id is a merged request that approves the deletion of x.
Approved(id, x) ==
  /\ id # NoRequest
  /\ requests[id].phase = "Merged"
  /\ Approves(requests[id].q, x)

\* A merged request finalizes an approval of x or of its Team.
Finalized(x) ==
  \E id \in Request : /\ requests[id].phase = "Merged"
                      /\ IsFinalize(requests[id].q)
                      /\ \E y \in {x, Team} : Approved(requests[id].q.deletion, y)

\* While its Team stays, an object is deleted from the cluster only after two
\* reviewed changes: one that approved its deletion and that the object
\* names, and a finalization of an approval of it or of its whole Team
\* (approveManifest, requireRetiring), however far behind Argo CD is.
PrunedTwiceApproved ==
  [][\A x \in Objects :
       /\ child.there /\ child'.there
       /\ live[x].there /\ ~live'[x].there
       => /\ Approved(live[x].request, x)
          /\ Finalized(x)]_vars

\* The step merges a service.finalize.
ServiceFinalized ==
  \E id \in Request : /\ requests[id].phase = "Open" /\ requests'[id].phase = "Merged"
                      /\ requests[id].q.op = "service.finalize"

\* When an object leaves main and its Team stays, the object in the cluster
\* is prunable or gone already, so that nothing is left behind that Git does
\* not have (verifyFinalization).  Of a Service it looks at one object only:
\* the sync waves answer for its Database, nothing for the second component.
FinalizedIsPrunable ==
  [][\A x \in Objects :
       /\ Present(main, x) /\ ~Present(main', x)
       /\ Present(main', Team)
       => \/ ~Protected(x)
          \/ x = Components[2] /\ ServiceFinalized]_vars

\* When the Team has left main, its child has the finalizer that makes its
\* deletion a cascade (verifyFinalization, applications.yaml.tpl): without
\* it, everything of the Team would stay in the cluster.
CascadeArmed == child.there /\ ~Present(main, Team) => child.cascade

\* No Active Team, Application or Database leaves the catalog: a retirement
\* marks what its finalization removes (retireService, finalizeService).
OnlyRetiredLeave ==
  [][\A x \in Objects : Active(main, x) => Present(main', x)]_vars

\* The catalog that a merge leaves can be loaded (LoadCatalog): otherwise
\* every later operation, of any tenant, fails.  finalizeDatabase breaks it.
CatalogLoads == Valid(main)
=============================================================================
