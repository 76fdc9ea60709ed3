---------------------------- MODULE TenantCatalog ----------------------------
(***************************************************************************)
(* The tenant catalog in Git and what platformctl's renderer does to it    *)
(* (internal/platformctl/catalog.go, change.go, render.go), for one Team:  *)
(* which ChangeRequests it accepts, and the catalog each one leaves.       *)
(*                                                                         *)
(* A catalog is a function from names to entries.  A Team, an Application  *)
(* or a Database also has a manifest; the renderer writes entry and        *)
(* manifest together, so that the manifest is protected (Prune=false) when *)
(* the entry is Active, and carries the entry's deletion request when it   *)
(* is Retiring (metadata, approveManifest).  It is not stored here.        *)
(*                                                                         *)
(* Abstractions: an update changes only what the catalog records, an       *)
(* Application's Database; images, sizes, quotas, owners and the generated *)
(* sources are left out, and so are the paths, which derive from names.    *)
(* There is one Team and one Service name.                                 *)
(***************************************************************************)
EXTENDS Naturals, Sequences, Functions

CONSTANTS
  Team, Applications, Databases, Service, \* names in the catalog
  Components,      \* the Applications of a full-stack Service, in order
  ServiceDatabase, \* the Database a Service creates for itself
  NoDatabase,      \* the empty databaseRef
  MaxRequests      \* bound: ChangeRequests ever made

ASSUME NamesAssumption ==
  /\ Team # Service
  /\ Team \notin Applications \cup Databases
  /\ Service \notin Applications \cup Databases
  /\ Applications \cap Databases = {}
  /\ Components \in Applications \X Applications
  /\ Components[1] # Components[2]
  /\ ServiceDatabase \in Databases
  /\ NoDatabase \notin Databases

ASSUME RequestsAssumption == MaxRequests \in Nat \ {0}

-----------------------------------------------------------------------------
(* Entries *)

Names   == {Team, Service} \cup Applications \cup Databases
Objects == Names \ {Service} \* what has a manifest and lives in the cluster

Request   == 1..MaxRequests
NoRequest == 0

\* What templateComponents gives: "go-api" and "react-static" have the first
\* component only.
Templates == {SubSeq(Components, 1, 1), Components}

Entry == [life: {"Absent", "Scaffolded", "Active", "Retiring"},
          request: Request \cup {NoRequest}, \* deletionRequest
          db: Databases \cup {NoDatabase},   \* databaseRef
          parts: Templates \cup {<< >>},     \* a Service's components
          owns: SUBSET {Team, ServiceDatabase}, \* ownsTeam, ownsDatabase
          twice: BOOLEAN]                    \* is the name listed twice?

Catalog == [Names -> Entry]

Absent == [life |-> "Absent", request |-> NoRequest, db |-> NoDatabase,
           parts |-> << >>, owns |-> {}, twice |-> FALSE]

NewEntry == [Absent EXCEPT !.life = "Active"]

EmptyCatalog == [x \in Names |-> Absent]

Present(c, x) == c[x].life # "Absent"
Active(c, x)  == c[x].life = "Active"

\* LoadCatalog: no name twice, and no reference to a Database that is not
\* there.  Every operation starts with it.
Valid(c) ==
  \A x \in Names : /\ ~c[x].twice
                   /\ c[x].db # NoDatabase => Present(c, c[x].db)

-----------------------------------------------------------------------------
(* ChangeRequests *)

FinalizeOps == {"team.finalize", "app.finalize", "database.finalize",
                "service.finalize"}

\* An operation on a name, with the parameters that matter here: the
\* Application's Database, the Service's components and what it owns, and for
\* a finalization the deletion request.  The approval revision is left out:
\* see Verified in ChangePipeline.
Proposal(op, name) ==
  [op |-> op, name |-> name, db |-> NoDatabase, parts |-> << >>, owns |-> {},
   deletion |-> NoRequest]

IsFinalize(q) == q.op \in FinalizeOps

\* What ChangeRequest.Validate lets through, apart from its checks of the
\* desired state (validateDesiredState).
TeamProposals ==
  {Proposal(op, Team) : op \in {"team.create", "team.update", "team.delete"}}

ApplicationProposals ==
       {[Proposal(op, a) EXCEPT !.db = d] :
          op \in {"app.create", "app.update"}, a \in Applications,
          d \in Databases \cup {NoDatabase}}
  \cup {Proposal("app.delete", a) : a \in Applications}

DatabaseProposals ==
  {Proposal(op, d) : op \in {"database.create", "database.restore",
                             "database.update", "database.delete"},
                     d \in Databases}

Scaffolding(p, o) ==
  [Proposal("service.scaffold", Service) EXCEPT !.parts = p, !.owns = o]

\* Only a full-stack Service can have a Database of its own.
ServiceProposals ==
       {Scaffolding(p, o) : p \in Templates, o \in SUBSET {Team}}
  \cup {Scaffolding(Components, o) : o \in SUBSET {Team, ServiceDatabase}}
  \cup {Proposal(op, Service) : op \in {"service.activate", "service.retire"}}

Finalizations ==
  {[f EXCEPT !.deletion = r] :
     f \in      {Proposal("team.finalize", Team)}
           \cup {Proposal("app.finalize", a) : a \in Applications}
           \cup {Proposal("database.finalize", d) : d \in Databases}
           \cup {Proposal("service.finalize", Service)},
     r \in Request}

Proposals == TeamProposals \cup ApplicationProposals \cup DatabaseProposals
             \cup ServiceProposals \cup Finalizations

\* databaseExists
DatabaseUsable(c, d) == d # NoDatabase => Active(c, d)

\* requireRetiring
RetiringUnder(c, x, q) == c[x].life = "Retiring" /\ c[x].request = q.deletion

\* What a Service's retirement marks and its finalization removes, of what is
\* there: itself, its components, and what it owns.
ServiceScope(c) ==
  {x \in {Service} \cup Range(c[Service].parts) \cup c[Service].owns :
     Present(c, x)}

\* createApplication, updateApplication
AcceptsApplication(c, q) ==
  /\ Active(c, Team)
  /\ \/ q.op = "app.create" /\ ~Present(c, q.name)
     \/ q.op = "app.update" /\ Active(c, q.name)
  /\ DatabaseUsable(c, q.db)

\* createDatabase, updateDatabase
AcceptsDatabase(c, q) ==
  /\ Active(c, Team)
  /\ \/ q.op \in {"database.create", "database.restore"} /\ ~Present(c, q.name)
     \/ q.op = "database.update" /\ Active(c, q.name)

\* approveTeamDeletion, approveApplicationDeletion, approveDatabaseDeletion: a
\* Database that an Active Application uses stays.
AcceptsDeletion(c, q) ==
  /\ q.op \in {"team.delete", "app.delete", "database.delete"}
  /\ Active(c, Team)
  /\ Active(c, q.name)
  /\ \A a \in Applications : Active(c, a) => c[a].db # q.name

\* finalizeTeam, finalizeApplication, finalizeDatabase
AcceptsFinalization(c, q) ==
  /\ RetiringUnder(c, q.name, q)
  /\ \/ q.op = "team.finalize"
     \/ q.op \in {"app.finalize", "database.finalize"} /\ Active(c, Team)

\* scaffoldService creates the Team exactly when it is asked to; its check of
\* the Database name looks at Active Databases only.
AcceptsScaffold(c, q) ==
  /\ q.op = "service.scaffold"
  /\ ~Present(c, Service)
  /\ IF Team \in q.owns THEN ~Present(c, Team) ELSE Active(c, Team)
  /\ ServiceDatabase \in q.owns => ~Active(c, ServiceDatabase)

\* activateService, retireService, finalizeService
AcceptsService(c, q) ==
  /\ Present(c, Service)
  /\ \/ /\ q.op = "service.activate"
        /\ Active(c, Team)
        /\ c[Service].life # "Retiring"
        /\ \A a \in Range(c[Service].parts) : Present(c, a) => Active(c, a)
     \/ /\ q.op = "service.retire"
        /\ Active(c, Team)
        /\ c[Service].life # "Retiring"
     \/ /\ q.op = "service.finalize"
        /\ \A x \in ServiceScope(c) : RetiringUnder(c, x, q)

\* RenderChange succeeds.
Accepts(c, q) ==
  /\ Valid(c)
  /\ \/ q.op = "team.create" /\ ~Present(c, Team)
     \/ q.op = "team.update" /\ Active(c, Team)
     \/ AcceptsApplication(c, q)
     \/ AcceptsDatabase(c, q)
     \/ AcceptsDeletion(c, q)
     \/ AcceptsFinalization(c, q)
     \/ AcceptsScaffold(c, q)
     \/ AcceptsService(c, q)

-----------------------------------------------------------------------------
(* What they leave *)

\* The entries of S are marked, whatever their state is (approveManifest).
Retire(c, S, id) ==
  [x \in Names |-> IF x \in S
                   THEN [c[x] EXCEPT !.life = "Retiring", !.request = id]
                   ELSE c[x]]

Remove(c, S) == [x \in Names |-> IF x \in S THEN Absent ELSE c[x]]

\* approveTeamDeletion: the Team and everything it has.
RetireTeam(c, id) == Retire(c, {x \in Names : Present(c, x)}, id)

\* writeDatabase overwrites the manifest; the catalog gets one more entry.
Scaffold(c, q) ==
  [x \in Names |->
     CASE x = Service ->
            [NewEntry EXCEPT !.life = "Scaffolded", !.parts = q.parts,
                             !.owns = q.owns,
                             !.db = IF ServiceDatabase \in q.owns
                                    THEN ServiceDatabase ELSE NoDatabase]
       [] x \in q.owns -> [NewEntry EXCEPT !.twice = Present(c, x)]
       [] OTHER        -> c[x]]

\* Only the API of a full-stack Service, its second component, is bound.
Activate(c) ==
  LET s == c[Service]
  IN [x \in Names |->
        CASE x = Service -> [s EXCEPT !.life = "Active"]
          [] x \in Range(s.parts) ->
               [NewEntry EXCEPT !.db = IF Len(s.parts) = 2 /\ x = s.parts[2]
                                       THEN s.db ELSE NoDatabase]
          [] OTHER -> c[x]]

\* Mutant of RemoveService: the tenant of a Service that owns its Team is not
\* dropped as a whole.
RemoveScopeOnly(c) == Remove(c, ServiceScope(c))

\* finalizeService drops the whole tenant when the Service owns the Team.
RemoveService(c) ==
  Remove(c, IF Team \in c[Service].owns THEN Names ELSE ServiceScope(c))

\* The catalog after request id with proposal q.
Rendered(c, q, id) ==
  CASE q.op \in {"team.create", "database.create", "database.restore"} ->
         [c EXCEPT ![q.name] = NewEntry]
    [] q.op \in {"team.update", "database.update"} -> c
    [] q.op = "app.create" -> [c EXCEPT ![q.name] = [NewEntry EXCEPT !.db = q.db]]
    [] q.op = "app.update" -> [c EXCEPT ![q.name].db = q.db]
    [] q.op \in {"app.delete", "database.delete"} -> Retire(c, {q.name}, id)
    [] q.op \in {"app.finalize", "database.finalize"} -> Remove(c, {q.name})
    [] q.op = "team.delete"      -> RetireTeam(c, id)
    [] q.op = "team.finalize"    -> EmptyCatalog
    [] q.op = "service.scaffold" -> Scaffold(c, q)
    [] q.op = "service.activate" -> Activate(c)
    [] q.op = "service.retire"   -> Retire(c, ServiceScope(c), id)
    [] q.op = "service.finalize" -> RemoveService(c)
=============================================================================
