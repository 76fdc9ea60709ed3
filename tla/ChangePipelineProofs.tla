------------------------- MODULE ChangePipelineProofs -------------------------
(***************************************************************************)
(* Proofs about ChangePipeline, for every value of its constants: any      *)
(* number of Applications, Databases, changes and changes in flight.       *)
(***************************************************************************)
EXTENDS ChangePipeline, FiniteSetTheorems, SequenceTheorems,
        TLAPS

-----------------------------------------------------------------------------
(* Names, entries and proposals *)

\* Which names are objects, and which kinds are apart.
LEMMA NameFacts ==
  /\ Team \in Objects /\ Service \in Names /\ Service \notin Objects
  /\ Objects \subseteq Names /\ Names = Objects \cup {Service}
  /\ ServiceDatabase \in Databases /\ Databases \subseteq Objects
  /\ Applications \subseteq Objects
  /\ Team \notin Applications \cup Databases /\ Applications \cap Databases = {}
  /\ NoRequest \notin Request
BY NamesAssumption, RequestsAssumption DEF Names, Objects, Request, NoRequest

\* The components that a Service can have are Applications.
LEMMA TemplateFacts ==
  /\ Components[1] \in Applications /\ Components[2] \in Applications
  /\ Range(Components) = {Components[1], Components[2]}
  /\ \A p \in Templates : /\ p # << >> /\ Range(p) \subseteq Range(Components)
                          /\ p[1] = Components[1]
  /\ Range(<< >>) = {}
<1>1. Components = <<Components[1], Components[2]>> /\ Len(Components) = 2
      /\ Components[1] \in Applications /\ Components[2] \in Applications
  <2>1. PICK a \in Applications, b \in Applications : Components = <<a, b>>
    BY NamesAssumption
  <2>. QED
    BY <2>1
<1>2. /\ SubSeq(Components, 1, 1) \in Seq(Applications)
      /\ Len(SubSeq(Components, 1, 1)) = 1
      /\ SubSeq(Components, 1, 1)[1] = Components[1]
  BY <1>1, SubSeqProperties
<1>3. Range(Components) = {Components[1], Components[2]}
  <2>1. DOMAIN Components = 1..2
    BY <1>1
  <2>2. 1..2 = {1, 2}
    OBVIOUS
  <2>. QED
    BY <2>1, <2>2 DEF Range
<1>4. Range(SubSeq(Components, 1, 1)) = {Components[1]}
  <2>1. DOMAIN SubSeq(Components, 1, 1) = {1}
    BY <1>2
  <2>. QED
    BY <1>2, <2>1 DEF Range
<1>5. SubSeq(Components, 1, 1) # << >>
  <2>1. \A s : Len(s) = 1 => s # << >>
    OBVIOUS
  <2>. QED
    BY <1>2, <2>1, Zenon
<1>6. Components # << >>
  BY <1>1
<1>7. Range(<< >>) = {}
  BY DEF Range
<1>8. \A p \in Templates : p = Components \/ p = SubSeq(Components, 1, 1)
  BY DEF Templates
<1>. QED
  BY <1>1, <1>2, <1>3, <1>4, <1>5, <1>6, <1>7, <1>8

\* The initial values have their types.
LEMMA EntryFacts ==
  /\ Absent \in Entry /\ NewEntry \in Entry
  /\ Absent.life = "Absent" /\ Absent.request = NoRequest
  /\ NewEntry.life = "Active" /\ NewEntry.request = NoRequest
  /\ EmptyCatalog \in Catalog
  /\ \A x \in Names : EmptyCatalog[x] = Absent
<1>1. Absent \in Entry /\ Absent.life = "Absent" /\ Absent.request = NoRequest
  BY DEF Absent, Entry
<1>2. NewEntry \in Entry /\ NewEntry.life = "Active" /\ NewEntry.request = NoRequest
  BY DEF NewEntry, Absent, Entry
<1>3. EmptyCatalog \in Catalog /\ \A x \in Names : EmptyCatalog[x] = Absent
  BY <1>1 DEF EmptyCatalog, Catalog
<1>. QED
  BY <1>1, <1>2, <1>3

TeamOps     == {"team.create", "team.update", "team.delete", "team.finalize"}
AppOps      == {"app.create", "app.update", "app.delete", "app.finalize"}
DatabaseOps == {"database.create", "database.restore", "database.update",
                "database.delete", "database.finalize"}
ServiceOps  == {"service.scaffold", "service.activate", "service.retire",
                "service.finalize"}

\* What a proposal names, by its operation, and the types of its parameters.
LEMMA ProposalFacts ==
  ASSUME NEW q \in Proposals
  PROVE  /\ \/ q.op \in TeamOps /\ q.name = Team
            \/ q.op \in AppOps /\ q.name \in Applications
            \/ q.op \in DatabaseOps /\ q.name \in Databases
            \/ q.op \in ServiceOps /\ q.name = Service
         /\ q.db \in Databases \cup {NoDatabase}
         /\ q.owns \subseteq {Team, ServiceDatabase}
         /\ q.op = "service.scaffold" => q.parts \in Templates
         /\ IsFinalize(q) => q.deletion \in Request
<1>1. \A op, name : Proposal(op, name) =
         [op |-> op, name |-> name, db |-> NoDatabase, parts |-> << >>,
          owns |-> {}, deletion |-> NoRequest]
  BY DEF Proposal
<1>2. CASE q \in TeamProposals
  BY <1>1, <1>2 DEF TeamProposals, IsFinalize, FinalizeOps, TeamOps
<1>3. CASE q \in ApplicationProposals
  <2>1. CASE \E op \in {"app.create", "app.update"}, a \in Applications,
                d \in Databases \cup {NoDatabase} :
               q = [Proposal(op, a) EXCEPT !.db = d]
    BY <1>1, <2>1 DEF IsFinalize, FinalizeOps, AppOps
  <2>2. CASE \E a \in Applications : q = Proposal("app.delete", a)
    BY <1>1, <2>2 DEF IsFinalize, FinalizeOps, AppOps
  <2>. QED
    BY <1>3, <2>1, <2>2 DEF ApplicationProposals
<1>4. CASE q \in DatabaseProposals
  BY <1>1, <1>4 DEF DatabaseProposals, IsFinalize, FinalizeOps, DatabaseOps
<1>5. CASE q \in ServiceProposals
  <2>1. CASE \E p \in Templates, o \in SUBSET {Team, ServiceDatabase} : q = Scaffolding(p, o)
    BY <1>1, <2>1 DEF Scaffolding, IsFinalize, FinalizeOps, ServiceOps
  <2>2. CASE \E op \in {"service.activate", "service.retire"} : q = Proposal(op, Service)
    BY <1>1, <2>2 DEF IsFinalize, FinalizeOps, ServiceOps
  <2>3. Components \in Templates
    BY DEF Templates
  <2>. QED
    BY <1>5, <2>1, <2>2, <2>3 DEF ServiceProposals
<1>6. CASE q \in Finalizations
  <2>1. PICK f \in      {Proposal("team.finalize", Team)}
                    \cup {Proposal("app.finalize", a) : a \in Applications}
                    \cup {Proposal("database.finalize", d) : d \in Databases}
                    \cup {Proposal("service.finalize", Service)}, r \in Request :
               q = [f EXCEPT !.deletion = r]
    BY <1>6 DEF Finalizations
  <2>. QED
    BY <1>1, <2>1 DEF IsFinalize, FinalizeOps, TeamOps, AppOps, DatabaseOps, ServiceOps
<1>. QED
  BY <1>2, <1>3, <1>4, <1>5, <1>6 DEF Proposals

\* The proposal of a request that was not made.
LEMMA FirstProposal == Proposal("team.create", Team) \in Proposals
BY DEF Proposals, TeamProposals

-----------------------------------------------------------------------------
(* What a change leaves of each entry *)

\* What the catalogs have in common: an entry carries a deletion request
\* exactly when it is Retiring, whatever there is belongs to the Team, and a
\* Service has components.
Shape(c) ==
  /\ \A x \in Names :
       /\ c[x].request # NoRequest <=> c[x].life = "Retiring"
       /\ Present(c, x) => Present(c, Team)
  /\ Present(c, Service) => c[Service].parts \in Templates

Fresh(e) == e \in Entry /\ e.life \in {"Active", "Scaffolded"} /\ e.request = NoRequest

\* The entry is as it was.
Kept(c, n, x) == n[x] = c[x]

\* It is a new one, or one that is Active, in a Team.
Renewed(c, q, n, x) ==
  /\ Fresh(n[x])
  /\ Present(n, Team)
  /\ x = Service => n[x].parts \in Templates

\* Its deletion has been approved.
Retired(c, q, id, n, x) ==
  /\ n[x] \in Entry
  /\ n[x].life = "Retiring" /\ n[x].request = id
  /\ Present(c, x) /\ n[x].parts = c[x].parts
  /\ x \in Objects => Approves(q, x)

\* It has been removed by a finalization that names the request that it
\* carries, or the request that the Team carries, which goes too.
Removed(c, q, n, x) ==
  /\ n[x] = Absent
  /\ IsFinalize(q)
  /\ \/ RetiringUnder(c, x, q) /\ n[Team] = c[Team]
     \/ RetiringUnder(c, Team, q) /\ n = EmptyCatalog

Outcome(c, q, id, n, x) ==
  Kept(c, n, x) \/ Renewed(c, q, n, x) \/ Retired(c, q, id, n, x) \/ Removed(c, q, n, x)

Changes(c, q, id, n) == n \in Catalog /\ \A x \in Names : Outcome(c, q, id, n, x)

\* A change of one entry to a fresh one.
LEMMA RenewOne ==
  ASSUME NEW c \in Catalog, NEW q, NEW id, NEW y \in Names \ {Service}, NEW e, Fresh(e),
         y = Team \/ Present(c, Team), NEW n, n = [c EXCEPT ![y] = e]
  PROVE  Changes(c, q, id, n)
<1>1. Team \in Names
  BY NameFacts
<1>2. e \in Entry /\ e.life # "Absent"
  BY DEF Fresh
<1>. QED
  BY <1>1, <1>2 DEF Changes, Outcome, Kept, Renewed, Present, Catalog

\* Approving the deletion of what is there.
LEMMA RetireSome ==
  ASSUME NEW c \in Catalog, NEW q, NEW id \in Request, NEW S \in SUBSET Names,
         \A x \in S : Present(c, x) /\ (x \in Objects => Approves(q, x))
  PROVE  Changes(c, q, id, Retire(c, S, id))
<1>. DEFINE n == Retire(c, S, id)
<1>1. \A x \in Names : n[x] = IF x \in S THEN [c[x] EXCEPT !.life = "Retiring", !.request = id]
                               ELSE c[x]
  BY DEF Retire
<1>2. \A x \in Names : LET e == [c[x] EXCEPT !.life = "Retiring", !.request = id]
                       IN /\ e \in Entry /\ e.life = "Retiring" /\ e.request = id
                          /\ e.parts = c[x].parts
  BY DEF Catalog, Entry
<1>3. n \in Catalog
  BY <1>1, <1>2 DEF Catalog, Retire
<1>4. ASSUME NEW x \in Names PROVE Outcome(c, q, id, n, x)
  BY <1>1, <1>2, <1>3 DEF Outcome, Kept, Retired
<1>. QED
  BY <1>3, <1>4 DEF Changes

\* Removing entries other than the Team's.
LEMMA RemoveSome ==
  ASSUME NEW c \in Catalog, NEW q, NEW id, NEW S \in SUBSET Names,
         Team \notin S, IsFinalize(q), \A x \in S : RetiringUnder(c, x, q)
  PROVE  Changes(c, q, id, Remove(c, S))
<1>. DEFINE n == Remove(c, S)
<1>1. \A x \in Names : n[x] = IF x \in S THEN Absent ELSE c[x]
  BY DEF Remove
<1>2. n \in Catalog
  BY EntryFacts DEF Catalog, Remove
<1>3. n[Team] = c[Team]
  BY <1>1, NameFacts
<1>. QED
  BY <1>1, <1>2, <1>3 DEF Changes, Outcome, Kept, Removed

\* Removing the whole tenant with its Team.
LEMMA RemoveAll ==
  ASSUME NEW c \in Catalog, NEW q, NEW id, IsFinalize(q), RetiringUnder(c, Team, q)
  PROVE  Changes(c, q, id, EmptyCatalog)
BY EntryFacts DEF Changes, Outcome, Removed

\* The operations on Teams, Applications and Databases.
LEMMA PlainChanges ==
  ASSUME NEW c \in Catalog, Shape(c), NEW q \in Proposals, NEW id \in Request,
         Accepts(c, q), q.op \notin ServiceOps
  PROVE  Changes(c, q, id, Rendered(c, q, id))
<1>. DEFINE n == Rendered(c, q, id)
<1>1. /\ \/ q.op \in TeamOps /\ q.name = Team
         \/ q.op \in AppOps /\ q.name \in Applications
         \/ q.op \in DatabaseOps /\ q.name \in Databases
      /\ q.name \in Objects /\ q.name \in Names \ {Service} /\ {q.name} \in SUBSET Names
      /\ q.db \in Databases \cup {NoDatabase}
  BY ProposalFacts, NameFacts
<1>2. Fresh(NewEntry)
  BY EntryFacts DEF Fresh
<1>3. CASE q.op \in {"team.create", "database.create", "database.restore"}
  <2>1. n = [c EXCEPT ![q.name] = NewEntry]
    BY <1>3 DEF Rendered
  <2>2. q.name = Team \/ Present(c, Team)
    BY <1>1, <1>3 DEF TeamOps, AppOps, DatabaseOps, Accepts, AcceptsApplication,
       AcceptsDatabase, AcceptsDeletion, AcceptsFinalization, AcceptsScaffold,
       AcceptsService, Active, Present
  <2>. QED
    BY <1>1, <1>2, <2>1, <2>2, RenewOne
<1>4. CASE q.op \in {"team.update", "database.update"}
  BY <1>4 DEF Rendered, Changes, Outcome, Kept
<1>5. CASE q.op \in {"app.create", "app.update"}
  <2>1. q.name \in Names \ {Service} /\ Active(c, Team) /\ (q.op = "app.update" => Active(c, q.name))
    BY <1>1, <1>5 DEF Accepts, AcceptsApplication, AcceptsDatabase, AcceptsDeletion,
       AcceptsFinalization, AcceptsScaffold, AcceptsService
  <2>. DEFINE e == IF q.op = "app.create" THEN [NewEntry EXCEPT !.db = q.db]
                   ELSE [c[q.name] EXCEPT !.db = q.db]
  <2>2. n = [c EXCEPT ![q.name] = e]
    BY <1>5 DEF Rendered
  <2>3. ASSUME NEW f \in Entry, f.life = "Active", f.request = NoRequest
        PROVE  Fresh([f EXCEPT !.db = q.db])
    BY <1>1, <2>3 DEF Entry, Fresh
  <2>4. q.op = "app.update" => c[q.name] \in Entry /\ c[q.name].life = "Active"
                              /\ c[q.name].request = NoRequest
    BY <2>1 DEF Shape, Active, Catalog
  <2>5. Fresh(e)
    <3>1. CASE q.op = "app.create"
      BY <2>3, <3>1, EntryFacts
    <3>2. CASE q.op = "app.update"
      BY <2>3, <2>4, <3>2
    <3>. QED
      BY <1>5, <3>1, <3>2
  <2>. QED
    BY <2>1, <2>2, <2>5, RenewOne DEF Active, Present
<1>6. CASE q.op \in {"app.delete", "database.delete"}
  <2>1. n = Retire(c, {q.name}, id)
    BY <1>6 DEF Rendered
  <2>2. Present(c, q.name)
    BY <1>1, <1>6 DEF Accepts, AcceptsApplication, AcceptsDatabase, AcceptsDeletion,
       AcceptsFinalization, AcceptsScaffold, AcceptsService, Active, Present
  <2>3. Approves(q, q.name)
    BY <1>6 DEF Approves
  <2>. QED
    BY <1>1, <2>1, <2>2, <2>3, RetireSome
<1>7. CASE q.op \in {"app.finalize", "database.finalize"}
  <2>1. n = Remove(c, {q.name})
    BY <1>7 DEF Rendered
  <2>2. RetiringUnder(c, q.name, q)
    BY <1>1, <1>7 DEF Accepts, AcceptsApplication, AcceptsDatabase, AcceptsDeletion,
       AcceptsFinalization, AcceptsScaffold, AcceptsService
  <2>3. Team \notin {q.name} /\ IsFinalize(q)
    BY <1>1, <1>7, NameFacts DEF TeamOps, AppOps, DatabaseOps, IsFinalize, FinalizeOps
  <2>. QED
    BY <1>1, <2>1, <2>2, <2>3, RemoveSome
<1>8. CASE q.op = "team.delete"
  <2>1. n = Retire(c, {x \in Names : Present(c, x)}, id)
    BY <1>8 DEF Rendered, RetireTeam
  <2>. QED
    BY <1>8, <2>1, RetireSome DEF Approves
<1>9. CASE q.op = "team.finalize"
  <2>1. n = EmptyCatalog
    BY <1>9 DEF Rendered
  <2>2. RetiringUnder(c, Team, q) /\ IsFinalize(q)
    BY <1>1, <1>9 DEF Accepts, AcceptsApplication, AcceptsDatabase, AcceptsDeletion,
       AcceptsFinalization, AcceptsScaffold, AcceptsService, IsFinalize, FinalizeOps,
       TeamOps, AppOps, DatabaseOps
  <2>. QED
    BY <2>1, <2>2, RemoveAll
<1>. QED
  BY <1>1, <1>3, <1>4, <1>5, <1>6, <1>7, <1>8, <1>9 DEF TeamOps, AppOps, DatabaseOps

\* service.scaffold
LEMMA ScaffoldChanges ==
  ASSUME NEW c \in Catalog, NEW q \in Proposals, NEW id \in Request,
         Accepts(c, q), q.op = "service.scaffold"
  PROVE  Changes(c, q, id, Rendered(c, q, id))
<1>. DEFINE n == Rendered(c, q, id)
           s == [NewEntry EXCEPT !.life = "Scaffolded", !.parts = q.parts, !.owns = q.owns,
                   !.db = IF ServiceDatabase \in q.owns THEN ServiceDatabase ELSE NoDatabase]
           o(x) == [NewEntry EXCEPT !.twice = Present(c, x)]
<1>1. q.parts \in Templates /\ q.owns \subseteq {Team, ServiceDatabase}
  BY ProposalFacts
<1>2. n = Scaffold(c, q)
  BY DEF Rendered
<1>3. \A x \in Names : n[x] = CASE x = Service -> s [] x \in q.owns -> o(x) [] OTHER -> c[x]
  BY <1>2 DEF Scaffold
<1>4. Fresh(s) /\ s.parts = q.parts
  BY <1>1, NameFacts DEF Fresh, Entry, NewEntry, Absent
<1>5. ASSUME NEW x \in Names PROVE Fresh(o(x))
  <2>1. \A v \in BOOLEAN : Fresh([NewEntry EXCEPT !.twice = v])
    BY NameFacts DEF Fresh, Entry, NewEntry, Absent
  <2>2. PICK v \in BOOLEAN : v = Present(c, x)
    BY DEF Present
  <2>3. o(x) = [NewEntry EXCEPT !.twice = v]
    BY <2>2
  <2>. QED
    BY <2>1, <2>3
<1>6. Service \notin q.owns
  BY <1>1, NamesAssumption, NameFacts
<1>. HIDE DEF s, o
<1>7. Present(n, Team)
  <2>1. Team \in q.owns \/ Active(c, Team)
    BY DEF Accepts, AcceptsApplication, AcceptsDatabase, AcceptsDeletion,
       AcceptsFinalization, AcceptsScaffold, AcceptsService
  <2>2. Team \in Names /\ Team # Service
    BY NameFacts
  <2>. QED
    BY <1>3, <1>5, <2>1, <2>2 DEF Fresh, Present, Active
<1>8. ASSUME NEW x \in Names PROVE n[x] \in Entry /\ Outcome(c, q, id, n, x)
  <2>1. CASE x = Service
    BY <1>1, <1>3, <1>4, <1>6, <1>7, <2>1 DEF Outcome, Renewed, Fresh
  <2>2. CASE x \in q.owns
    <3>1. x # Service
      BY <1>6, <2>2
    <3>2. n[x] = o(x)
      BY <1>3, <2>2, <3>1
    <3>. QED
      BY <1>5, <1>7, <3>1, <3>2 DEF Outcome, Renewed, Fresh
  <2>3. CASE x # Service /\ x \notin q.owns
    <3>1. n[x] = c[x]
      BY <1>3, <2>3
    <3>. QED
      BY <3>1 DEF Outcome, Kept, Catalog
  <2>. QED
    BY <2>1, <2>2, <2>3
<1>. QED
  BY <1>2, <1>8 DEF Changes, Catalog, Scaffold

\* service.activate
LEMMA ActivateChanges ==
  ASSUME NEW c \in Catalog, Shape(c), NEW q \in Proposals, NEW id \in Request,
         Accepts(c, q), q.op = "service.activate"
  PROVE  Changes(c, q, id, Rendered(c, q, id))
<1>. DEFINE n == Rendered(c, q, id)
           s == c[Service]
           b(x) == [NewEntry EXCEPT !.db = IF Len(s.parts) = 2 /\ x = s.parts[2]
                                          THEN s.db ELSE NoDatabase]
<1>1. Active(c, Team) /\ Present(c, Service) /\ s.life # "Retiring"
  BY DEF Accepts, AcceptsApplication, AcceptsDatabase, AcceptsDeletion,
     AcceptsFinalization, AcceptsScaffold, AcceptsService
<1>2. /\ s \in Entry /\ s.request = NoRequest /\ s.parts \in Templates
      /\ s.db \in Databases \cup {NoDatabase}
  BY <1>1, NameFacts DEF Shape, Catalog, Entry
<1>3. Range(s.parts) \subseteq Applications
  BY <1>2, TemplateFacts
<1>4. n = Activate(c)
  BY DEF Rendered
<1>5. \A x \in Names : n[x] = CASE x = Service -> [s EXCEPT !.life = "Active"]
                               [] x \in Range(s.parts) -> b(x) [] OTHER -> c[x]
  BY <1>4 DEF Activate
<1>6. /\ Fresh([s EXCEPT !.life = "Active"])
      /\ [s EXCEPT !.life = "Active"].parts = s.parts
  BY <1>2 DEF Fresh, Entry
<1>7. ASSUME NEW x PROVE Fresh(b(x))
  BY <1>2 DEF Fresh, Entry, NewEntry, Absent
<1>. HIDE DEF b
<1>8. Team \in Names /\ Team # Service /\ Team \notin Applications /\ Service \notin Applications
  BY NamesAssumption, NameFacts
<1>9. Present(n, Team)
  BY <1>1, <1>3, <1>5, <1>8 DEF Present, Active
<1>10. ASSUME NEW x \in Names PROVE n[x] \in Entry /\ Outcome(c, q, id, n, x)
  <2>1. CASE x = Service
    <3>1. n[x] = [s EXCEPT !.life = "Active"]
      BY <1>3, <1>5, <1>8, <2>1
    <3>2. Fresh(n[x]) /\ n[x].parts \in Templates
      BY <1>2, <1>6, <3>1
    <3>. QED
      BY <1>9, <3>2 DEF Outcome, Renewed, Fresh
  <2>2. CASE x \in Range(s.parts)
    <3>1. x # Service /\ n[x] = b(x)
      BY <1>3, <1>5, <1>8, <2>2
    <3>. QED
      BY <1>7, <1>9, <3>1 DEF Outcome, Renewed, Fresh
  <2>3. CASE x # Service /\ x \notin Range(s.parts)
    <3>1. n[x] = c[x]
      BY <1>5, <2>3
    <3>. QED
      BY <3>1 DEF Outcome, Kept, Catalog
  <2>. QED
    BY <2>1, <2>2, <2>3
<1>. QED
  BY <1>4, <1>10 DEF Changes, Catalog, Activate

\* What belongs to a Service that is there.
LEMMA ScopeFacts ==
  ASSUME NEW c \in Catalog, Shape(c), Present(c, Service)
  PROVE  /\ ServiceScope(c) \in SUBSET Names
         /\ \A x \in ServiceScope(c) :
              /\ Present(c, x)
              /\ x \in Objects => x \in {Team, ServiceDatabase} \cup Range(Components)
              /\ x = Team => Team \in c[Service].owns
         /\ Team \in c[Service].owns => Team \in ServiceScope(c)
<1>1. c[Service].parts \in Templates /\ c[Service].owns \subseteq {Team, ServiceDatabase}
  BY NameFacts DEF Shape, Catalog, Entry
<1>2. Range(c[Service].parts) \subseteq Range(Components) /\ Range(Components) \subseteq Applications
  BY <1>1, TemplateFacts
<1>3. Present(c, Team)
  BY NameFacts DEF Shape
<1>. QED
  BY <1>1, <1>2, <1>3, NameFacts DEF ServiceScope

\* service.retire and service.finalize
LEMMA DeletionChanges ==
  ASSUME NEW c \in Catalog, Shape(c), NEW q \in Proposals, NEW id \in Request,
         Accepts(c, q), q.op \in {"service.retire", "service.finalize"}
  PROVE  Changes(c, q, id, Rendered(c, q, id))
<1>1. /\ Present(c, Service)
      /\ q.op = "service.finalize" => \A x \in ServiceScope(c) : RetiringUnder(c, x, q)
  BY DEF Accepts, AcceptsApplication, AcceptsDatabase, AcceptsDeletion,
     AcceptsFinalization, AcceptsScaffold, AcceptsService
<1>2. CASE q.op = "service.retire"
  <2>1. Rendered(c, q, id) = Retire(c, ServiceScope(c), id)
    BY <1>2 DEF Rendered
  <2>2. \A x \in ServiceScope(c) : Present(c, x) /\ (x \in Objects => Approves(q, x))
    BY <1>1, <1>2, ScopeFacts DEF Approves
  <2>3. ServiceScope(c) \in SUBSET Names
    BY <1>1, ScopeFacts
  <2>. QED
    BY <2>1, <2>2, <2>3, RetireSome
<1>3. CASE q.op = "service.finalize"
  <2>1. Rendered(c, q, id) = Remove(c, IF Team \in c[Service].owns THEN Names
                                       ELSE ServiceScope(c))
    BY <1>3 DEF Rendered, RemoveService
  <2>2. IsFinalize(q)
    BY <1>3 DEF IsFinalize, FinalizeOps
  <2>3. CASE Team \in c[Service].owns
    <3>1. Remove(c, Names) = EmptyCatalog
      BY DEF Remove, EmptyCatalog
    <3>2. RetiringUnder(c, Team, q)
      BY <1>1, <1>3, <2>3, ScopeFacts
    <3>. QED
      BY <2>1, <2>2, <2>3, <3>1, <3>2, RemoveAll
  <2>4. CASE Team \notin c[Service].owns
    <3>1. ServiceScope(c) \in SUBSET Names /\ Team \notin ServiceScope(c)
      BY <1>1, <2>4, ScopeFacts
    <3>. QED
      BY <1>1, <1>3, <2>1, <2>2, <2>4, <3>1, RemoveSome
  <2>. QED
    BY <2>3, <2>4
<1>. QED
  BY <1>2, <1>3

\* Whatever an accepted change does, each entry stays, is renewed, is
\* retired by this change, or is removed by a finalization of its request.
LEMMA RenderedChanges ==
  ASSUME NEW c \in Catalog, Shape(c), NEW q \in Proposals, NEW id \in Request, Accepts(c, q)
  PROVE  Changes(c, q, id, Rendered(c, q, id))
BY PlainChanges, ScaffoldChanges, ActivateChanges, DeletionChanges DEF ServiceOps

\* The catalog that a change leaves has the shape of one.
LEMMA ShapeKept ==
  ASSUME NEW c \in Catalog, Shape(c), NEW q, NEW id \in Request, NEW n, Changes(c, q, id, n)
  PROVE  Shape(n)
<1>1. Team \in Names /\ Service \in Names /\ NoRequest \notin Request
  BY NameFacts
<1>2. n \in Catalog /\ \A x \in Names : Outcome(c, q, id, n, x)
  BY DEF Changes
<1>3. ASSUME NEW x \in Names PROVE n[x].request # NoRequest <=> n[x].life = "Retiring"
  BY <1>1, <1>2, EntryFacts DEF Shape, Outcome, Kept, Renewed, Retired, Removed, Fresh
<1>4. Present(c, Team) /\ ~Present(n, Team) => n = EmptyCatalog
  BY <1>1, <1>2, EntryFacts DEF Outcome, Kept, Renewed, Retired, Removed, RetiringUnder, Present
<1>5. ASSUME NEW x \in Names, Present(n, x) PROVE Present(n, Team)
  <2>1. n # EmptyCatalog
    BY <1>5, EntryFacts DEF Present
  <2>2. CASE Present(c, x)
    BY <1>4, <2>1, <2>2 DEF Shape
  <2>3. CASE ~Present(c, x)
    <3>1. Renewed(c, q, n, x)
      BY <1>2, <1>5, <2>3, EntryFacts DEF Outcome, Kept, Retired, Removed, Present
    <3>. QED
      BY <3>1 DEF Renewed
  <2>. QED
    BY <2>2, <2>3
<1>6. Present(n, Service) => n[Service].parts \in Templates
  BY <1>1, <1>2, EntryFacts DEF Shape, Outcome, Kept, Renewed, Retired, Removed, Present
<1>. QED
  BY <1>3, <1>5, <1>6 DEF Shape

-----------------------------------------------------------------------------
(* The inductive invariant *)

\* Request id has been merged.
Merged(id) == requests[id].phase = "Merged"

\* Approved and Finalized, of requests rs.
ApprovedBy(rs, d, x) ==
  /\ d # NoRequest
  /\ rs[d].phase = "Merged"
  /\ Approves(rs[d].q, x)

FinalizedBy(rs, x) ==
  \E id \in Request : /\ rs[id].phase = "Merged"
                      /\ IsFinalize(rs[id].q)
                      /\ \E y \in {x, Team} : ApprovedBy(rs, rs[id].q.deletion, y)

\* Every deletion request in a catalog is one that approved the deletion.
Marked(rs, c) == \A x \in Objects : c[x].request # NoRequest => ApprovedBy(rs, c[x].request, x)

\* Main has as many commits as changes were merged.
Counted == head = Cardinality({id \in Request : Merged(id)})

\* A change in flight was accepted and rendered on a catalog that main had.
Sound(rs, id) ==
  LET r == rs[id]
  IN InFlight(r) => /\ Shape(r.before) /\ Marked(rs, r.before)
                    /\ Accepts(r.before, r.q)
                    /\ r.after = Rendered(r.before, r.q, id)

\* The child has a catalog that main had.
ChildShaped ==
  child.there =>
    /\ Shape(child.target) /\ Marked(requests, child.target)
    /\ child.cascade <=> child.target[Team].life = "Retiring"

LiveMarked ==
  \A x \in Objects :
    live[x].request # NoRequest => live[x].there /\ ApprovedBy(requests, live[x].request, x)

\* A retirement reaches all its objects at once: as soon as one of them
\* carries its request d, the others do, unless main has replaced them since.
TargetWhole ==
  child.there => \A x, y \in Objects :
    /\ child.target[x].request # NoRequest
    /\ main[y].request = child.target[x].request
    => child.target[y].request = child.target[x].request

\* The same when d has reached the cluster.
LiveBehindTarget ==
  child.there => \A x, y \in Objects :
    /\ live[x].request # NoRequest
    /\ main[y].request = live[x].request
    => child.target[y].request = live[x].request

\* Objects of earlier waves are marked first.
WavesInOrder ==
  \A x, y \in Objects :
    /\ live[x].request # NoRequest
    /\ main[y].request = live[x].request
    /\ Wave(y) < Wave(x)
    => live[y].request = live[x].request

\* What verifyFinalization answers for: the witnesses, and what is of an
\* earlier wave.
Witnessed(r) ==
  {y \in Objects : \E x \in Witness(r.before, r.q) : y = x \/ Wave(y) < Wave(x)}

\* While main has y under d, y is under d in the child, and in the cluster if
\* it is there.
Secured(d, y) ==
  main[y].request = d =>
    /\ live[y].there => live[y].request = d
    /\ child.there => child.target[y].request = d

\* A verified finalization stays verified.
StillVerified(id) ==
  requests[id].phase \in {"Dispatched", "Open"} /\ IsFinalize(requests[id].q) =>
    \A y \in Witnessed(requests[id]) :
      Merged(requests[id].q.deletion) /\ Secured(requests[id].q.deletion, y)

\* What carries a deletion request and is not in Git has been finalized.
Explained ==
  \A x \in Objects :
    \/ live[x].request # NoRequest
    \/ child.there /\ child.target[x].request # NoRequest
    => /\ ~Present(main, x) => FinalizedBy(requests, x)
       /\ child.there /\ ~Present(child.target, x) => FinalizedBy(requests, x)

PipelineInv ==
  /\ TypeOK /\ Shape(main) /\ Marked(requests, main)
  /\ Counted /\ ChildShaped /\ LiveMarked
  /\ \A id \in Request : Sound(requests, id) /\ StillVerified(id)
  /\ TargetWhole /\ LiveBehindTarget /\ WavesInOrder
  /\ Explained /\ CascadeArmed

\* The records that stand for ChangeRequests.
ChangeRequest == [phase: Phase, q: Proposals, base: Revision, before: Catalog, after: Catalog]

\* A request that was not made.
LEMMA UnusedFacts == Unused \in ChangeRequest /\ Unused.phase = "Unused"
BY FirstProposal, EntryFacts, RequestsAssumption DEF Unused, ChangeRequest, Phase, Revision

\* What has been merged in rs has been merged in rt.
StayMerged(rs, rt) ==
  \A id \in Request : rs[id].phase = "Merged" => rt[id].phase = "Merged" /\ rt[id].q = rs[id].q

\* History is not forgotten.
LEMMA HistoryGrows ==
  ASSUME NEW rs \in [Request -> ChangeRequest], NEW rt, StayMerged(rs, rt)
  PROVE  /\ \A d \in Request \cup {NoRequest} : \A x :
              ApprovedBy(rs, d, x) => ApprovedBy(rt, d, x)
         /\ \A x : FinalizedBy(rs, x) => FinalizedBy(rt, x)
         /\ \A c \in Catalog : Marked(rs, c) => Marked(rt, c)
<1>1. ASSUME NEW d \in Request \cup {NoRequest}, NEW x, ApprovedBy(rs, d, x)
      PROVE  ApprovedBy(rt, d, x)
  BY <1>1 DEF ApprovedBy, StayMerged
<1>2. ASSUME NEW x, FinalizedBy(rs, x)
      PROVE  FinalizedBy(rt, x)
  <2>1. PICK id \in Request : /\ rs[id].phase = "Merged" /\ IsFinalize(rs[id].q)
                              /\ \E y \in {x, Team} : ApprovedBy(rs, rs[id].q.deletion, y)
    BY <1>2 DEF FinalizedBy
  <2>2. rs[id].q.deletion \in Request
    BY <2>1, ProposalFacts DEF ChangeRequest
  <2>3. rt[id].phase = "Merged" /\ rt[id].q = rs[id].q
    BY <2>1 DEF StayMerged
  <2>. QED
    BY <1>1, <2>1, <2>2, <2>3 DEF FinalizedBy
<1>3. ASSUME NEW c \in Catalog, Marked(rs, c)
      PROVE  Marked(rt, c)
  <2>1. \A x \in Objects : c[x].request \in Request \cup {NoRequest}
    BY NameFacts DEF Catalog, Entry
  <2>. QED
    BY <1>1, <1>3, <2>1 DEF Marked
<1>. QED
  BY <1>1, <1>2, <1>3

\* A step of one request that merges nothing.
LEMMA RequestStep ==
  ASSUME PipelineInv, NEW id \in Request, NEW r \in ChangeRequest,
         requests' = [requests EXCEPT ![id] = r], ~Merged(id), r.phase # "Merged",
         UNCHANGED <<head, main, child, live>>,
         Sound(requests', id), StillVerified(id)'
  PROVE  PipelineInv'
<1>1. requests \in [Request -> ChangeRequest]
  BY DEF PipelineInv, TypeOK, ChangeRequest
<1>2. /\ requests' \in [Request -> ChangeRequest]
      /\ \A j \in Request \ {id} : requests'[j] = requests[j]
      /\ requests'[id] = r
  BY <1>1
<1>3. StayMerged(requests, requests')
  BY <1>2 DEF StayMerged, Merged
<1>4. TypeOK'
  BY <1>2 DEF PipelineInv, TypeOK, ChangeRequest
<1>5. main \in Catalog /\ child.target \in Catalog
      /\ \A x \in Objects : live[x].request \in Request \cup {NoRequest}
  BY DEF PipelineInv, TypeOK
<1>6. Shape(main') /\ Marked(requests', main')
  BY <1>1, <1>3, <1>5, HistoryGrows DEF PipelineInv
<1>7. Counted'
  <2>1. {j \in Request : Merged(j)}' = {j \in Request : Merged(j)}
    BY <1>2 DEF Merged
  <2>. QED
    BY <2>1 DEF PipelineInv, Counted
<1>8. ChildShaped'
  BY <1>1, <1>3, <1>5, HistoryGrows DEF PipelineInv, ChildShaped
<1>9. LiveMarked'
  BY <1>1, <1>3, <1>5, HistoryGrows DEF PipelineInv, LiveMarked
<1>10. ASSUME NEW j \in Request PROVE Sound(requests', j) /\ StillVerified(j)'
  <2>1. CASE j = id
    BY <2>1
  <2>2. CASE j # id
    <3>1. requests'[j] = requests[j] /\ requests[j] \in ChangeRequest
      BY <1>1, <1>2, <2>2
    <3>2. Sound(requests, j) /\ StillVerified(j)
      BY DEF PipelineInv
    <3>3. requests[j].before \in Catalog
      BY <3>1 DEF ChangeRequest
    <3>4. Sound(requests', j)
      BY <1>1, <1>3, <3>1, <3>2, <3>3, HistoryGrows DEF Sound
    <3>5. ASSUME IsFinalize(requests[j].q) PROVE requests[j].q.deletion \in Request
      BY <3>1, <3>5, ProposalFacts DEF ChangeRequest
    <3>6. StillVerified(j)'
      BY <1>3, <3>1, <3>2, <3>5 DEF StillVerified, Secured, Merged, StayMerged
    <3>. QED
      BY <3>4, <3>6
  <2>. QED
    BY <2>1, <2>2
<1>11. TargetWhole' /\ LiveBehindTarget' /\ WavesInOrder' /\ CascadeArmed'
  BY DEF PipelineInv, TargetWhole, LiveBehindTarget, WavesInOrder, CascadeArmed
<1>12. Explained'
  BY <1>1, <1>3, HistoryGrows DEF PipelineInv, Explained
<1>. QED
  BY <1>4, <1>6, <1>7, <1>8, <1>9, <1>10, <1>11, <1>12 DEF PipelineInv

-----------------------------------------------------------------------------
(* The steps of the command line and of the workflow *)

\* A plan is rendered on main.
LEMMA PlanStep ==
  ASSUME PipelineInv, NEW id \in Request, NEW q \in Proposals, Free(id), Plan(id, q)
  PROVE  PipelineInv'
<1>. DEFINE r == [phase |-> "Planned", q |-> q, base |-> head, before |-> main,
                  after |-> Rendered(main, q, id)]
<1>1. head \in Revision /\ main \in Catalog /\ Shape(main) /\ Marked(requests, main)
      /\ requests \in [Request -> ChangeRequest]
  BY DEF PipelineInv, TypeOK, ChangeRequest
<1>2. Rendered(main, q, id) \in Catalog
  BY <1>1, RenderedChanges DEF Plan, Changes
<1>3. r \in ChangeRequest
  BY <1>1, <1>2 DEF ChangeRequest, Phase
<1>4. requests' = [requests EXCEPT ![id] = r] /\ requests'[id] = r
      /\ ~Merged(id) /\ StayMerged(requests, requests')
  BY <1>1 DEF Plan, Free, Merged, StayMerged
<1>5. Marked(requests', main)
  BY <1>1, <1>4, HistoryGrows
<1>6. Sound(requests', id)
  BY <1>1, <1>4, <1>5 DEF Sound, Plan
<1>7. StillVerified(id)'
  BY <1>4 DEF StillVerified
<1>. QED
  BY <1>3, <1>4, <1>6, <1>7, RequestStep DEF Plan

\* Another phase of the same request.
LEMMA PhaseStep ==
  ASSUME PipelineInv, NEW id \in Request, NEW p \in Phase \ {"Merged"}, SetPhase(id, p),
         InFlight(requests[id]), UNCHANGED <<head, main, child, live>>,
         StillVerified(id)'
  PROVE  PipelineInv'
<1>. DEFINE r == [requests[id] EXCEPT !.phase = p]
<1>1. requests \in [Request -> ChangeRequest] /\ requests[id] \in ChangeRequest
  BY DEF PipelineInv, TypeOK, ChangeRequest
<1>2. r \in ChangeRequest /\ r.phase = p /\ r.q = requests[id].q
      /\ r.before = requests[id].before /\ r.after = requests[id].after
  BY <1>1 DEF ChangeRequest
<1>3. requests' = [requests EXCEPT ![id] = r] /\ requests'[id] = r /\ ~Merged(id)
      /\ StayMerged(requests, requests')
  BY <1>1 DEF SetPhase, InFlight, Merged, StayMerged
<1>4. Sound(requests, id) /\ requests[id].before \in Catalog
  BY <1>1 DEF PipelineInv, ChangeRequest
<1>5. Sound(requests', id)
  BY <1>1, <1>2, <1>3, <1>4, HistoryGrows DEF Sound
<1>. HIDE DEF r
<1>. QED
  BY <1>2, <1>3, <1>5, RequestStep

\* The objects that verifyFinalization looks at have manifests.
LEMMA WitnessFacts ==
  ASSUME NEW c \in Catalog, Shape(c), NEW q \in Proposals, Accepts(c, q), IsFinalize(q)
  PROVE  Witness(c, q) \subseteq Objects
<1>1. CASE q.op # "service.finalize"
  BY <1>1, ProposalFacts, NameFacts DEF Witness, IsFinalize, FinalizeOps, ServiceOps
<1>2. CASE q.op = "service.finalize"
  <2>1. Present(c, Service)
    BY <1>2 DEF Accepts, AcceptsApplication, AcceptsDatabase, AcceptsDeletion,
       AcceptsFinalization, AcceptsScaffold, AcceptsService
  <2>2. c[Service].parts[1] = Components[1] /\ c[Service].owns \subseteq {Team, ServiceDatabase}
    BY <2>1, NameFacts, TemplateFacts DEF Shape, Catalog, Entry
  <2>. QED
    BY <1>2, <2>2, NameFacts, TemplateFacts DEF Witness
<1>. QED
  BY <1>1, <1>2

\* What verifyFinalization sees in one object is true of those before it.
LEMMA SubmitStep ==
  ASSUME PipelineInv, NEW id \in Request, Submit(id)
  PROVE  PipelineInv'
<1>. DEFINE r == requests[id]
           d == r.q.deletion
<1>1. requests \in [Request -> ChangeRequest] /\ r \in ChangeRequest
  BY DEF PipelineInv, TypeOK, ChangeRequest
<1>2. r.phase = "Planned" /\ InFlight(r) /\ SetPhase(id, "Dispatched")
      /\ UNCHANGED <<head, main, child, live>>
  BY DEF Submit, InFlight
<1>3. /\ requests'[id].phase = "Dispatched" /\ requests'[id].q = r.q
      /\ requests'[id].before = r.before
      /\ StayMerged(requests, requests')
  BY <1>1, <1>2 DEF SetPhase, ChangeRequest, StayMerged
<1>4. ASSUME IsFinalize(r.q), NEW y \in Witnessed(r)
      PROVE  Merged(d) /\ d \in Request /\ Secured(d, y)
  <2>1. d \in Request /\ d # NoRequest
    BY <1>1, <1>4, ProposalFacts, NameFacts DEF ChangeRequest
  <2>2. PICK x \in Witness(r.before, r.q) : y = x \/ Wave(y) < Wave(x)
    BY <1>4 DEF Witnessed
  <2>3. x \in Objects /\ y \in Objects
    BY <1>1, <1>2, <1>4, <2>2, WitnessFacts DEF PipelineInv, Sound, ChangeRequest, Witnessed
  <2>4. child.there /\ live[x] = [there |-> TRUE, request |-> d]
    BY <1>4, <2>2 DEF Submit, Verified
  <2>5. live[x].request = d
    BY <2>4
  <2>6. Merged(d)
    BY <2>1, <2>3, <2>5 DEF PipelineInv, LiveMarked, ApprovedBy, Merged
  <2>7. main[y].request = d => live[y].request = d
    BY <2>1, <2>2, <2>3, <2>5 DEF PipelineInv, WavesInOrder
  <2>8. main[y].request = d => child.target[y].request = d
    BY <2>1, <2>3, <2>4, <2>5 DEF PipelineInv, LiveBehindTarget
  <2>. QED
    BY <2>1, <2>6, <2>7, <2>8 DEF Secured
<1>5. StillVerified(id)'
  <2>1. ASSUME IsFinalize(r.q), NEW y \in Witnessed(r)
        PROVE  Merged(d)' /\ Secured(d, y)'
    BY <1>1, <1>2, <1>3, <1>4, <2>1 DEF Secured, Merged, StayMerged
  <2>. QED
    BY <1>1, <1>2, <1>3, <2>1 DEF StillVerified, Witnessed, Secured, Merged
<1>. QED
  BY <1>2, <1>5, PhaseStep DEF Phase

\* The pull request is the change that was dispatched.
LEMMA PublishStep ==
  ASSUME PipelineInv, NEW id \in Request, Publish(id)
  PROVE  PipelineInv'
<1>. DEFINE r == requests[id]
<1>1. requests \in [Request -> ChangeRequest] /\ r \in ChangeRequest
  BY DEF PipelineInv, TypeOK, ChangeRequest
<1>2. r.phase = "Dispatched" /\ InFlight(r) /\ SetPhase(id, "Open")
      /\ UNCHANGED <<head, main, child, live>>
  BY DEF Publish, InFlight
<1>3. /\ requests'[id].q = r.q /\ requests'[id].before = r.before
      /\ StayMerged(requests, requests')
  BY <1>1, <1>2 DEF SetPhase, ChangeRequest, StayMerged
<1>4. StillVerified(id)
  BY DEF PipelineInv
<1>5. StillVerified(id)'
  <2>1. ASSUME IsFinalize(r.q) PROVE r.q.deletion \in Request
    BY <1>1, <2>1, ProposalFacts DEF ChangeRequest
  <2>. QED
    BY <1>2, <1>3, <1>4, <2>1 DEF StillVerified, Witnessed, Secured, Merged, StayMerged
<1>. QED
  BY <1>2, <1>5, PhaseStep DEF Phase

\* Nothing is left of an abandoned change.
LEMMA AbandonStep ==
  ASSUME PipelineInv, NEW id \in Request, Abandon(id)
  PROVE  PipelineInv'
<1>1. Unused \in ChangeRequest /\ Unused.phase = "Unused"
  BY UnusedFacts
<1>2. requests' = [requests EXCEPT ![id] = Unused] /\ requests'[id] = Unused
      /\ ~Merged(id) /\ UNCHANGED <<head, main, child, live>>
  BY DEF Abandon, PipelineInv, TypeOK, InFlight, Merged
<1>3. Sound(requests', id) /\ StillVerified(id)'
  BY <1>1, <1>2 DEF Sound, StillVerified, InFlight
<1>. QED
  BY <1>1, <1>2, <1>3, RequestStep

-----------------------------------------------------------------------------
(* The steps of Argo CD *)

Child == [there: BOOLEAN, revision: Revision, target: Catalog, cascade: BOOLEAN,
          compared: Revision]
Object == [there: BOOLEAN, request: Request \cup {NoRequest}]

\* What Argo CD does leaves main and the requests alone.
LEMMA ArgoStep ==
  ASSUME PipelineInv, UNCHANGED <<head, main, requests>>,
         child' \in Child, live' \in [Objects -> Object],
         ChildShaped', LiveMarked', TargetWhole', LiveBehindTarget', WavesInOrder',
         Explained', CascadeArmed',
         \A y \in Objects, d \in Request : Secured(d, y) => Secured(d, y)'
  PROVE  PipelineInv'
<1>1. requests \in [Request -> ChangeRequest]
  BY DEF PipelineInv, TypeOK, ChangeRequest
<1>2. TypeOK'
  BY DEF PipelineInv, TypeOK, Child, Object
<1>3. Shape(main') /\ Marked(requests', main') /\ Counted'
  BY DEF PipelineInv, Counted, Merged
<1>4. ASSUME NEW id \in Request PROVE Sound(requests', id) /\ StillVerified(id)'
  <2>1. Sound(requests, id) /\ StillVerified(id)
    BY DEF PipelineInv
  <2>2. ASSUME IsFinalize(requests[id].q) PROVE requests[id].q.deletion \in Request
    BY <1>1, <2>2, ProposalFacts DEF ChangeRequest
  <2>3. ASSUME requests[id].phase \in {"Dispatched", "Open"}, IsFinalize(requests[id].q),
               NEW y \in Witnessed(requests[id])
        PROVE  Merged(requests[id].q.deletion) /\ Secured(requests[id].q.deletion, y)'
    <3>1. y \in Objects
      BY DEF Witnessed
    <3>. QED
      BY <2>1, <2>2, <2>3, <3>1 DEF StillVerified
  <2>4. StillVerified(id)'
    BY <2>3 DEF StillVerified, Merged, Secured
  <2>. QED
    BY <2>1, <2>4
<1>. QED
  BY <1>2, <1>3, <1>4 DEF PipelineInv

\* The child gets the catalog that main has.
LEMMA SyncRootStep ==
  ASSUME PipelineInv, SyncRoot
  PROVE  PipelineInv'
<1>1. /\ TypeOK /\ Shape(main) /\ Marked(requests, main) /\ main \in Catalog
      /\ Present(main, Team) /\ UNCHANGED <<head, main, requests, live>>
      /\ live \in [Objects -> Object]
  BY DEF PipelineInv, TypeOK, SyncRoot, Object
<1>2. /\ child'.there /\ child'.target = main /\ child' \in Child
      /\ child'.cascade <=> main[Team].life = "Retiring"
  BY <1>1 DEF SyncRoot, ChildOf, TypeOK, Child
<1>3. ChildShaped' /\ LiveMarked'
  BY <1>1, <1>2 DEF PipelineInv, ChildShaped, LiveMarked
<1>4. TargetWhole' /\ LiveBehindTarget' /\ WavesInOrder'
  BY <1>1, <1>2 DEF PipelineInv, TargetWhole, LiveBehindTarget, WavesInOrder
<1>5. CascadeArmed'
  BY <1>1, <1>2 DEF CascadeArmed
<1>6. ASSUME NEW x \in Objects, ~Present(main, x),
             live[x].request # NoRequest \/ main[x].request # NoRequest
      PROVE  FinalizedBy(requests, x)
  <2>1. main[x].request = NoRequest
    BY <1>1, <1>6, NameFacts DEF Shape, Present
  <2>. QED
    BY <1>6, <2>1 DEF PipelineInv, Explained
<1>7. Explained'
  BY <1>1, <1>2, <1>6 DEF Explained
<1>8. \A y \in Objects, d \in Request : Secured(d, y) => Secured(d, y)'
  BY <1>1, <1>2 DEF Secured
<1>. QED
  BY <1>1, <1>2, <1>3, <1>4, <1>5, <1>7, <1>8, ArgoStep

\* A comparison changes nothing that was applied.
LEMMA CompareStep ==
  ASSUME PipelineInv, CompareChild
  PROVE  PipelineInv'
<1>1. /\ TypeOK /\ UNCHANGED <<head, main, requests, live>> /\ live \in [Objects -> Object]
      /\ child \in Child
  BY DEF PipelineInv, TypeOK, CompareChild, Object, Child
<1>2. /\ child' \in Child /\ child'.there = child.there /\ child'.target = child.target
      /\ child'.cascade = child.cascade
  BY <1>1 DEF CompareChild, Child
<1>3. /\ ChildShaped' /\ LiveMarked' /\ TargetWhole' /\ LiveBehindTarget' /\ WavesInOrder'
      /\ CascadeArmed' /\ Explained'
  BY <1>1, <1>2 DEF PipelineInv, ChildShaped, LiveMarked, TargetWhole, LiveBehindTarget,
     WavesInOrder, CascadeArmed, Explained
<1>4. \A y \in Objects, d \in Request : Secured(d, y) => Secured(d, y)'
  BY <1>1, <1>2 DEF Secured
<1>. QED
  BY <1>1, <1>2, <1>3, <1>4, ArgoStep

\* With the child, everything goes or everything stays.
LEMMA PruneChildStep ==
  ASSUME PipelineInv, PruneChild
  PROVE  PipelineInv'
<1>1. /\ TypeOK /\ UNCHANGED <<head, main, requests>> /\ live \in [Objects -> Object]
  BY DEF PipelineInv, TypeOK, PruneChild, Object
<1>2. child' \in Child /\ ~child'.there
  BY EntryFacts, RequestsAssumption DEF PruneChild, NoChild, Child, Revision
<1>3. /\ live' \in [Objects -> Object]
      /\ \/ live' = live
         \/ \A x \in Objects : ~live'[x].there /\ live'[x].request = NoRequest
  <2>1. Gone \in Object /\ ~Gone.there /\ Gone.request = NoRequest
    BY DEF Gone, Object
  <2>2. CASE child.cascade
    <3>1. live' = [x \in Objects |-> Gone]
      BY <2>2 DEF PruneChild
    <3>. QED
      BY <2>1, <3>1
  <2>3. CASE ~child.cascade
    BY <1>1, <2>3 DEF PruneChild
  <2>. QED
    BY <2>2, <2>3
<1>4. ChildShaped' /\ TargetWhole' /\ LiveBehindTarget' /\ CascadeArmed'
  BY <1>2 DEF ChildShaped, TargetWhole, LiveBehindTarget, CascadeArmed
<1>5. LiveMarked' /\ WavesInOrder' /\ Explained'
  BY <1>1, <1>2, <1>3 DEF PipelineInv, LiveMarked, WavesInOrder, Explained
<1>6. \A y \in Objects, d \in Request : Secured(d, y) => Secured(d, y)'
  BY <1>1, <1>2, <1>3 DEF Secured
<1>. QED
  BY <1>1, <1>2, <1>3, <1>4, <1>5, <1>6, ArgoStep

\* What is pruned is not under a request that main has.
LEMMA PruneStep ==
  ASSUME PipelineInv, NEW z \in Objects, Prune(z)
  PROVE  PipelineInv'
<1>1. /\ TypeOK /\ UNCHANGED <<head, main, requests, child>> /\ live \in [Objects -> Object]
      /\ child \in Child /\ child.there /\ ~Present(child.target, z)
  BY DEF PipelineInv, TypeOK, Prune, Synced, Object, Child
<1>2. /\ live' \in [Objects -> Object]
      /\ \A x \in Objects \ {z} : live'[x] = live[x]
      /\ ~live'[z].there /\ live'[z].request = NoRequest
  BY <1>1 DEF Prune, Gone, Object
<1>3. ChildShaped' /\ LiveMarked' /\ TargetWhole' /\ LiveBehindTarget' /\ CascadeArmed'
  BY <1>1, <1>2 DEF PipelineInv, ChildShaped, LiveMarked, TargetWhole, LiveBehindTarget,
     CascadeArmed
<1>4. child.target[z].request = NoRequest
  BY <1>1, NameFacts DEF PipelineInv, ChildShaped, Shape, Present
<1>5. WavesInOrder'
  BY <1>1, <1>2, <1>4 DEF PipelineInv, LiveBehindTarget, WavesInOrder
<1>6. Explained'
  BY <1>1, <1>2 DEF PipelineInv, Explained
<1>7. \A y \in Objects, d \in Request : Secured(d, y) => Secured(d, y)'
  BY <1>1, <1>2 DEF Secured
<1>. QED
  BY <1>1, <1>2, <1>3, <1>5, <1>6, <1>7, ArgoStep

\* What is applied is under the request of the target, after earlier waves.
LEMMA ApplyStep ==
  ASSUME PipelineInv, NEW z \in Objects, Apply(z)
  PROVE  PipelineInv'
<1>. DEFINE t == child.target
<1>1. /\ TypeOK /\ UNCHANGED <<head, main, requests, child>> /\ live \in [Objects -> Object]
      /\ child \in Child /\ child.there /\ Present(t, z)
      /\ t \in Catalog /\ Shape(t) /\ Marked(requests, t)
  BY DEF PipelineInv, TypeOK, Apply, Synced, Object, Child, ChildShaped
<1>2. \A x \in Objects : Present(t, x) => /\ Manifest(t, x).request = t[x].request
                                         /\ Manifest(t, x).there
                                         /\ Manifest(t, x) \in Object
  BY <1>1, NameFacts DEF Manifest, Object, Catalog, Entry
<1>3. /\ live' \in [Objects -> Object]
      /\ \A x \in Objects \ {z} : live'[x] = live[x]
      /\ live'[z].there /\ live'[z].request = t[z].request
  BY <1>1, <1>2 DEF Apply
<1>4. ChildShaped' /\ TargetWhole' /\ CascadeArmed'
  BY <1>1 DEF PipelineInv, ChildShaped, TargetWhole, CascadeArmed
<1>5. LiveMarked'
  BY <1>1, <1>3 DEF PipelineInv, LiveMarked, Marked
<1>6. LiveBehindTarget'
  BY <1>1, <1>3 DEF PipelineInv, TargetWhole, LiveBehindTarget
<1>7. ASSUME NEW x \in Objects, NEW y \in Objects, live'[x].request # NoRequest,
             main[y].request = live'[x].request, Wave(y) < Wave(x)
      PROVE  live'[y].request = live'[x].request
  <2>1. t[y].request = live'[x].request
    BY <1>1, <1>3, <1>7 DEF PipelineInv, TargetWhole, LiveBehindTarget
  <2>2. CASE y = z
    BY <1>3, <2>1, <2>2
  <2>3. CASE x = z /\ y # z
    <3>1. Present(t, y)
      BY <1>1, <1>7, <2>1, NameFacts DEF Shape, Present
    <3>2. live[y] = Manifest(t, y)
      BY <1>7, <2>3, <3>1 DEF Apply
    <3>. QED
      BY <1>2, <1>3, <2>1, <2>3, <3>1, <3>2
  <2>4. CASE x # z /\ y # z
    BY <1>1, <1>3, <1>7, <2>4 DEF PipelineInv, WavesInOrder
  <2>. QED
    BY <2>2, <2>3, <2>4
<1>8. WavesInOrder'
  BY <1>1, <1>7 DEF WavesInOrder
<1>9. Explained'
  BY <1>1, <1>3 DEF PipelineInv, Explained
<1>10. \A y \in Objects, d \in Request : Secured(d, y) => Secured(d, y)'
  BY <1>1, <1>3 DEF Secured
<1>. QED
  BY <1>1, <1>3, <1>4, <1>5, <1>6, <1>8, <1>9, <1>10, ArgoStep

-----------------------------------------------------------------------------
(* The merge *)

\* Only a finalization that looks at the Team removes it.
LEMMA TeamRemoved ==
  ASSUME NEW c \in Catalog, Shape(c), NEW q \in Proposals, NEW id \in Request, Accepts(c, q),
         Present(c, Team), ~Present(Rendered(c, q, id), Team)
  PROVE  /\ IsFinalize(q) /\ RetiringUnder(c, Team, q)
         /\ Witness(c, q) = {Team}
<1>. DEFINE n == Rendered(c, q, id)
<1>1. Team \in Names /\ Changes(c, q, id, n)
  BY RenderedChanges, NameFacts
<1>2. IsFinalize(q) /\ RetiringUnder(c, Team, q)
  BY <1>1 DEF Changes, Outcome, Kept, Renewed, Retired, Removed, Present, RetiringUnder
<1>3. CASE q.op = "team.finalize"
  BY <1>2, <1>3, ProposalFacts DEF Witness, TeamOps, AppOps, DatabaseOps, ServiceOps
<1>4. CASE q.op \in {"app.finalize", "database.finalize"}
  <2>1. n = Remove(c, {q.name}) /\ q.name # Team
    BY <1>4, ProposalFacts, NameFacts DEF Rendered, TeamOps, AppOps, DatabaseOps, ServiceOps
  <2>. QED
    BY <1>1, <2>1 DEF Remove, Present
<1>5. CASE q.op = "service.finalize"
  <2>1. Present(c, Service)
    BY <1>5 DEF Accepts, AcceptsApplication, AcceptsDatabase, AcceptsDeletion,
       AcceptsFinalization, AcceptsScaffold, AcceptsService
  <2>2. Team \in c[Service].owns
    <3>1. SUFFICES ASSUME Team \notin c[Service].owns PROVE FALSE
      OBVIOUS
    <3>2. n = Remove(c, ServiceScope(c)) /\ Team \notin ServiceScope(c)
      BY <1>5, <2>1, <3>1, ScopeFacts DEF Rendered, RemoveService
    <3>. QED
      BY <1>1, <3>2 DEF Remove, Present
  <2>. QED
    BY <1>2, <1>5, <2>2 DEF Witness
<1>. QED
  BY <1>2, <1>3, <1>4, <1>5 DEF IsFinalize, FinalizeOps

\* What the merge of request id takes and leaves.
LEMMA MergeFacts ==
  ASSUME PipelineInv, NEW id \in Request, Merge(id)
  PROVE  LET r == requests[id]
         IN /\ r \in ChangeRequest /\ r.phase = "Open" /\ ~Merged(id)
            /\ Shape(r.before) /\ Marked(requests, r.before) /\ Accepts(r.before, r.q)
            /\ r.after = Rendered(r.before, r.q, id)
            /\ Changes(r.before, r.q, id, r.after)
            /\ UNCHANGED <<child, live>>
            /\ main' \in Catalog
            /\ \A x \in Names : \/ main'[x] = main[x]
                               \/ /\ main'[x] = r.after[x] /\ main[x] = r.before[x]
                                  /\ r.after[x] # r.before[x]
            /\ ~Present(r.after, Team) \/ ~Present(main, Team) =>
                 main = r.before /\ main' = r.after
            /\ Present(r.after, Team) /\ Present(main, Team) => Present(main', Team)
            /\ requests' \in [Request -> ChangeRequest]
            /\ \A j \in Request \ {id} : requests'[j] = requests[j]
            /\ requests'[id].phase = "Merged" /\ requests'[id].q = r.q
            /\ StayMerged(requests, requests')
<1>. DEFINE r == requests[id]
<1>1. /\ requests \in [Request -> ChangeRequest] /\ r \in ChangeRequest /\ main \in Catalog
      /\ Sound(requests, id) /\ r.phase = "Open"
  BY DEF PipelineInv, TypeOK, ChangeRequest, Merge
<1>2. /\ Shape(r.before) /\ Marked(requests, r.before) /\ Accepts(r.before, r.q)
      /\ r.after = Rendered(r.before, r.q, id) /\ ~Merged(id)
      /\ r.before \in Catalog /\ r.after \in Catalog /\ r.q \in Proposals
  BY <1>1 DEF Sound, InFlight, Merged, ChangeRequest
<1>3. Changes(r.before, r.q, id, r.after)
  BY <1>2, RenderedChanges
<1>4. main' = [x \in Names |-> IF r.after[x] = r.before[x] THEN main[x] ELSE r.after[x]]
  BY DEF Merge
<1>5. main' \in Catalog
  BY <1>1, <1>2, <1>4 DEF Catalog
<1>6. Mergeable(r)
  BY DEF Merge
<1>7. \A x \in Names : \/ main'[x] = main[x]
                      \/ /\ main'[x] = r.after[x] /\ main[x] = r.before[x]
                         /\ r.after[x] # r.before[x]
  BY <1>4, <1>6 DEF Mergeable
<1>8. ~Present(r.after, Team) \/ ~Present(main, Team) => main = r.before /\ main' = r.after
  <2>1. ASSUME main = r.before PROVE main' = r.after
    BY <1>2, <1>4, <2>1 DEF Catalog
  <2>. QED
    BY <1>6, <2>1 DEF Mergeable
<1>9. Present(r.after, Team) /\ Present(main, Team) => Present(main', Team)
  BY <1>7, NameFacts DEF Present
<1>10. /\ [Unused EXCEPT !.phase = "Merged", !.q = r.q] \in ChangeRequest
       /\ [Unused EXCEPT !.phase = "Merged", !.q = r.q].phase = "Merged"
       /\ [Unused EXCEPT !.phase = "Merged", !.q = r.q].q = r.q
  <2>1. Unused \in ChangeRequest /\ "Merged" \in Phase
    BY UnusedFacts DEF Phase
  <2>. QED
    BY <1>2, <2>1 DEF ChangeRequest
<1>11. /\ requests' \in [Request -> ChangeRequest]
       /\ \A j \in Request \ {id} : requests'[j] = requests[j]
       /\ requests'[id].phase = "Merged" /\ requests'[id].q = r.q
  BY <1>1, <1>10 DEF Merge
<1>12. StayMerged(requests, requests')
  BY <1>2, <1>11 DEF StayMerged, Merged
<1>13. UNCHANGED <<child, live>>
  BY DEF Merge
<1>. QED
  BY <1>1, <1>2, <1>3, <1>5, <1>7, <1>8, <1>9, <1>11, <1>12, <1>13

\* A merge marks with its own request only.
LEMMA MergeMarks ==
  ASSUME PipelineInv, NEW id \in Request, Merge(id)
  PROVE  /\ \A x \in Names : main'[x].request \in {main[x].request, NoRequest, id}
         /\ \A d \in Request, y \in Objects :
              Merged(d) /\ main'[y].request = d => main[y].request = d
<1>. DEFINE r == requests[id]
<1>1. /\ Changes(r.before, r.q, id, r.after) /\ ~Merged(id)
      /\ \A x \in Names : \/ main'[x] = main[x]
                         \/ /\ main'[x] = r.after[x] /\ main[x] = r.before[x]
                            /\ r.after[x] # r.before[x]
  BY MergeFacts
<1>2. \A x \in Names : r.after[x] # r.before[x] => r.after[x].request \in {NoRequest, id}
  BY <1>1, EntryFacts DEF Changes, Outcome, Kept, Renewed, Retired, Removed, Fresh
<1>3. \A x \in Names : main'[x].request \in {main[x].request, NoRequest, id}
  BY <1>1, <1>2
<1>. QED
  BY <1>1, <1>3, NameFacts

\* The catalog that a merge leaves.
LEMMA MergeMain ==
  ASSUME PipelineInv, NEW id \in Request, Merge(id)
  PROVE  Shape(main') /\ Marked(requests', main')
<1>. DEFINE r == requests[id]
<1>1. /\ Shape(r.before) /\ Marked(requests, r.before) /\ r.before \in Catalog
      /\ Changes(r.before, r.q, id, r.after)
      /\ \A x \in Names : \/ main'[x] = main[x]
                         \/ /\ main'[x] = r.after[x] /\ main[x] = r.before[x]
                            /\ r.after[x] # r.before[x]
      /\ ~Present(r.after, Team) \/ ~Present(main, Team) =>
           main = r.before /\ main' = r.after
      /\ Present(r.after, Team) /\ Present(main, Team) => Present(main', Team)
      /\ requests'[id].phase = "Merged" /\ requests'[id].q = r.q
      /\ StayMerged(requests, requests')
  BY MergeFacts DEF ChangeRequest
<1>2. Shape(main) /\ Marked(requests, main) /\ main \in Catalog
      /\ requests \in [Request -> ChangeRequest]
  BY DEF PipelineInv, TypeOK, ChangeRequest
<1>3. Shape(r.after)
  BY <1>1, ShapeKept
<1>4. Shape(main')
  <2>1. CASE ~Present(r.after, Team) \/ ~Present(main, Team)
    BY <1>1, <1>3, <2>1
  <2>2. CASE Present(r.after, Team) /\ Present(main, Team)
    <3>1. Present(main', Team)
      BY <1>1, <2>2
    <3>2. \A x \in Names : main'[x].request # NoRequest <=> main'[x].life = "Retiring"
      BY <1>1, <1>2, <1>3 DEF Shape
    <3>3. Present(main', Service) => main'[Service].parts \in Templates
      BY <1>1, <1>2, <1>3, NameFacts DEF Shape, Present
    <3>. QED
      BY <3>1, <3>2, <3>3 DEF Shape
  <2>. QED
    BY <2>1, <2>2
<1>5. Marked(requests', main)
  BY <1>1, <1>2, HistoryGrows
<1>6. ASSUME NEW x \in Objects, main'[x].request # NoRequest
      PROVE  ApprovedBy(requests', main'[x].request, x)
  <2>1. CASE main'[x] = main[x]
    BY <1>5, <1>6, <2>1 DEF Marked
  <2>2. CASE main'[x] = r.after[x] /\ r.after[x] # r.before[x]
    <3>1. Retired(r.before, r.q, id, r.after, x)
      BY <1>1, <1>6, <2>2, NameFacts, EntryFacts
         DEF Changes, Outcome, Kept, Renewed, Removed, Fresh
    <3>. QED
      BY <1>1, <2>2, <3>1, NameFacts DEF Retired, ApprovedBy
  <2>. QED
    BY <1>1, <2>1, <2>2, NameFacts
<1>. QED
  BY <1>4, <1>6 DEF Marked

\* What a merge removes has been finalized with it.
LEMMA MergeExplains ==
  ASSUME PipelineInv, NEW id \in Request, Merge(id), NEW x \in Objects,
         Present(main, x), ~Present(main', x)
  PROVE  /\ FinalizedBy(requests', x)
         /\ IsFinalize(requests[id].q)
         /\ Present(main', Team) => RetiringUnder(main, x, requests[id].q)
<1>. DEFINE r == requests[id]
<1>1. /\ r \in ChangeRequest /\ r.before \in Catalog
      /\ Marked(requests, r.before) /\ Changes(r.before, r.q, id, r.after)
      /\ main'[x] = r.after[x] /\ main[x] = r.before[x] /\ r.after[x] # r.before[x]
      /\ ~Present(r.after, Team) => main' = r.after
      /\ requests'[id].phase = "Merged" /\ requests'[id].q = r.q
      /\ StayMerged(requests, requests') /\ requests \in [Request -> ChangeRequest]
  BY MergeFacts, NameFacts DEF ChangeRequest, Present, PipelineInv, TypeOK
<1>2. Removed(r.before, r.q, r.after, x)
  BY <1>1, NameFacts DEF Changes, Outcome, Kept, Renewed, Retired, Fresh, Present
<1>3. IsFinalize(r.q) /\ r.q.deletion \in Request
  BY <1>1, <1>2, ProposalFacts DEF Removed, ChangeRequest
<1>4. \E y \in {x, Team} : RetiringUnder(r.before, y, r.q)
  BY <1>2 DEF Removed
<1>5. \E y \in {x, Team} : ApprovedBy(requests, r.q.deletion, y)
  BY <1>1, <1>3, <1>4, NameFacts DEF Marked, RetiringUnder
<1>6. FinalizedBy(requests', x)
  BY <1>1, <1>3, <1>5, HistoryGrows DEF FinalizedBy
<1>7. Present(main', Team) => RetiringUnder(main, x, r.q)
  BY <1>1, <1>2, NameFacts, EntryFacts DEF Removed, Present, RetiringUnder
<1>. QED
  BY <1>3, <1>6, <1>7

\* A Team leaves main when its child cascades.
LEMMA MergeArms ==
  ASSUME PipelineInv, NEW id \in Request, Merge(id), child.there, ~Present(main', Team)
  PROVE  child.cascade
<1>. DEFINE r == requests[id]
<1>1. CASE ~Present(main, Team)
  BY <1>1 DEF PipelineInv, CascadeArmed
<1>2. CASE Present(main, Team)
  <2>1. /\ r \in ChangeRequest /\ r.phase = "Open" /\ Shape(r.before) /\ Accepts(r.before, r.q)
        /\ r.after = Rendered(r.before, r.q, id) /\ r.before \in Catalog /\ r.q \in Proposals
        /\ Present(r.after, Team) => Present(main', Team)
        /\ ~Present(r.after, Team) => main = r.before
    BY <1>2, MergeFacts DEF ChangeRequest
  <2>2. /\ IsFinalize(r.q) /\ RetiringUnder(main, Team, r.q) /\ Witness(r.before, r.q) = {Team}
    BY <1>2, <2>1, TeamRemoved
  <2>3. Team \in Witnessed(r) /\ r.q.deletion \in Request
    BY <2>1, <2>2, NameFacts, ProposalFacts DEF Witnessed
  <2>4. Secured(r.q.deletion, Team)
    BY <2>1, <2>2, <2>3 DEF PipelineInv, StillVerified
  <2>5. child.target[Team].request # NoRequest
    BY <2>2, <2>3, <2>4, NameFacts DEF Secured, RetiringUnder
  <2>. QED
    BY <2>5, NameFacts DEF PipelineInv, ChildShaped, Shape
<1>. QED
  BY <1>1, <1>2

\* Main has one more commit.
LEMMA MergeCounts ==
  ASSUME PipelineInv, NEW id \in Request, Merge(id)
  PROVE  Counted' /\ head' \in Revision
<1>. DEFINE S == {j \in Request : requests[j].phase = "Merged"}
           T == {j \in Request : requests'[j].phase = "Merged"}
<1>1. /\ ~Merged(id) /\ requests'[id].phase = "Merged"
      /\ \A j \in Request \ {id} : requests'[j] = requests[j]
  BY MergeFacts
<1>2. T = S \cup {id} /\ id \notin S
  BY <1>1 DEF Merged
<1>3. IsFiniteSet(Request) /\ Cardinality(Request) = MaxRequests
  BY FS_Interval, RequestsAssumption DEF Request
<1>4. IsFiniteSet(S)
  BY <1>3, FS_Subset
<1>5. Cardinality(T) = Cardinality(S) + 1
  BY <1>2, <1>4, FS_AddElement
<1>6. Cardinality(T) <= MaxRequests
  BY <1>3, FS_Subset
<1>7. head = Cardinality(S) /\ head \in Nat
  BY DEF PipelineInv, Counted, Merged, TypeOK, Revision
<1>8. head' = head + 1
  BY DEF Merge
<1>. QED
  BY <1>5, <1>6, <1>7, <1>8, RequestsAssumption DEF Counted, Merged, Revision

\* A merge brings its own request and takes away what it finalizes.
LEMMA MergeStep ==
  ASSUME PipelineInv, NEW id \in Request, Merge(id)
  PROVE  PipelineInv'
<1>1. /\ requests \in [Request -> ChangeRequest] /\ requests' \in [Request -> ChangeRequest]
      /\ \A j \in Request \ {id} : requests'[j] = requests[j]
      /\ requests'[id].phase = "Merged" /\ ~Merged(id) /\ UNCHANGED <<child, live>>
      /\ main' \in Catalog /\ StayMerged(requests, requests') /\ child.target \in Catalog
      /\ \A x \in Objects : live[x].request \in Request \cup {NoRequest}
  BY MergeFacts DEF PipelineInv, TypeOK, ChangeRequest
<1>2. Shape(main') /\ Marked(requests', main')
  BY MergeMain
<1>3. Counted' /\ head' \in Revision
  BY MergeCounts
<1>4. TypeOK'
  BY <1>1, <1>2, <1>3 DEF PipelineInv, TypeOK, ChangeRequest, Shape
<1>5. ChildShaped' /\ LiveMarked'
  BY <1>1, HistoryGrows DEF PipelineInv, ChildShaped, LiveMarked
<1>6. \A d \in Request, y \in Objects : Merged(d) /\ main'[y].request = d => main[y].request = d
  BY MergeMarks
<1>7. ASSUME NEW j \in Request PROVE Sound(requests', j) /\ StillVerified(j)'
  <2>1. CASE j = id
    BY <1>1, <2>1 DEF Sound, StillVerified, InFlight
  <2>2. CASE j # id
    <3>1. requests'[j] = requests[j] /\ requests[j] \in ChangeRequest
          /\ requests[j].before \in Catalog
      BY <1>1, <2>2 DEF ChangeRequest
    <3>2. Sound(requests, j) /\ StillVerified(j)
      BY DEF PipelineInv
    <3>3. Sound(requests', j)
      BY <1>1, <3>1, <3>2, HistoryGrows DEF Sound
    <3>4. ASSUME IsFinalize(requests[j].q) PROVE requests[j].q.deletion \in Request
      BY <3>1, <3>4, ProposalFacts DEF ChangeRequest
    <3>5. ASSUME requests[j].phase \in {"Dispatched", "Open"}, IsFinalize(requests[j].q),
                 NEW y \in Witnessed(requests[j])
          PROVE  Merged(requests[j].q.deletion)' /\ Secured(requests[j].q.deletion, y)'
      <4>1. y \in Objects /\ requests[j].q.deletion \in Request
        BY <3>4, <3>5 DEF Witnessed
      <4>2. Merged(requests[j].q.deletion) /\ Secured(requests[j].q.deletion, y)
        BY <3>2, <3>5 DEF StillVerified
      <4>. QED
        BY <1>1, <1>6, <3>1, <4>1, <4>2 DEF Merged, Secured, StayMerged
    <3>6. StillVerified(j)'
      BY <3>1, <3>5 DEF StillVerified, Witnessed, Merged, Secured
    <3>. QED
      BY <3>3, <3>6
  <2>. QED
    BY <2>1, <2>2
<1>8. \A x \in Objects : live[x].request # NoRequest =>
         live[x].request \in Request /\ Merged(live[x].request)
  BY <1>1 DEF PipelineInv, LiveMarked, ApprovedBy, Merged
<1>9. child.there => \A x \in Objects : child.target[x].request # NoRequest =>
         child.target[x].request \in Request /\ Merged(child.target[x].request)
  BY <1>1, NameFacts DEF PipelineInv, ChildShaped, Marked, ApprovedBy, Merged, Catalog, Entry
<1>10. TargetWhole' /\ LiveBehindTarget' /\ WavesInOrder'
  BY <1>1, <1>6, <1>8, <1>9 DEF PipelineInv, TargetWhole, LiveBehindTarget, WavesInOrder
<1>11. ASSUME NEW x \in Objects,
              \/ live[x].request # NoRequest
              \/ child.there /\ child.target[x].request # NoRequest
       PROVE  /\ ~Present(main', x) => FinalizedBy(requests', x)
              /\ child.there /\ ~Present(child.target, x) => FinalizedBy(requests', x)
  BY <1>1, <1>11, MergeExplains, HistoryGrows DEF PipelineInv, Explained
<1>12. Explained'
  BY <1>1, <1>11 DEF Explained
<1>13. CascadeArmed'
  BY <1>1, MergeArms DEF CascadeArmed
<1>. QED
  BY <1>2, <1>3, <1>4, <1>5, <1>7, <1>10, <1>12, <1>13 DEF PipelineInv

-----------------------------------------------------------------------------
(* The invariant, and what follows from it *)

\* Nothing is under a deletion request at first.
LEMMA InitInv == Init => PipelineInv
<1>. SUFFICES ASSUME Init PROVE PipelineInv
  OBVIOUS
<1>1. /\ main \in Catalog /\ \A x \in Names : main[x].request = NoRequest
      /\ Shape(main)
  BY PipelineAssumption, InitialAssumption DEF Init, Shape
<1>2. requests = [id \in Request |-> Unused] /\ head = 0 /\ 0 \in Revision
  BY RequestsAssumption DEF Init, Revision
<1>3. requests \in [Request -> ChangeRequest] /\ \A id \in Request : requests[id].phase = "Unused"
  BY <1>2, UnusedFacts
<1>4. \A x \in Objects : /\ Manifest(main, x) \in Object
                        /\ Manifest(main, x).request = NoRequest
  BY <1>1, NameFacts DEF Manifest, Object, Gone
<1>5. live \in [Objects -> Object] /\ \A x \in Objects : live[x].request = NoRequest
  BY <1>4 DEF Init
<1>6. /\ child \in Child
      /\ child.there => /\ child.target = main /\ Present(main, Team)
                        /\ child.cascade <=> main[Team].life = "Retiring"
  <2>1. CASE Present(main, Team)
    BY <1>1, <1>2, <2>1 DEF Init, ChildOf, Child
  <2>2. CASE ~Present(main, Team)
    BY <1>2, <2>2, EntryFacts DEF Init, NoChild, Child
  <2>. QED
    BY <2>1, <2>2
<1>7. TypeOK
  BY <1>1, <1>2, <1>3, <1>5, <1>6 DEF TypeOK, ChangeRequest, Child, Object, Shape
<1>8. Marked(requests, main) /\ ChildShaped /\ LiveMarked /\ CascadeArmed
  BY <1>1, <1>5, <1>6, NameFacts DEF Marked, ChildShaped, LiveMarked, CascadeArmed
<1>9. Counted
  <2>1. {id \in Request : Merged(id)} = {}
    BY <1>3 DEF Merged
  <2>. QED
    BY <1>2, <2>1, FS_EmptySet DEF Counted
<1>10. \A id \in Request : Sound(requests, id) /\ StillVerified(id)
  BY <1>3 DEF Sound, StillVerified, InFlight
<1>11. TargetWhole /\ LiveBehindTarget /\ WavesInOrder /\ Explained
  BY <1>1, <1>5, <1>6, NameFacts DEF TargetWhole, LiveBehindTarget, WavesInOrder, Explained
<1>. QED
  BY <1>1, <1>7, <1>8, <1>9, <1>10, <1>11 DEF PipelineInv

\* Every step keeps the invariant.
LEMMA NextInv == PipelineInv /\ [Next]_vars => PipelineInv'
<1>. SUFFICES ASSUME PipelineInv, [Next]_vars PROVE PipelineInv'
  OBVIOUS
<1>1. CASE PlanSome
  BY <1>1, PlanStep DEF PlanSome
<1>2. CASE \E id \in Request : Submit(id) \/ Publish(id) \/ Merge(id) \/ Abandon(id)
  BY <1>2, SubmitStep, PublishStep, MergeStep, AbandonStep
<1>3. CASE SyncRoot \/ CompareChild \/ PruneChild
  BY <1>3, SyncRootStep, CompareStep, PruneChildStep
<1>4. CASE \E x \in Objects : Apply(x) \/ Prune(x)
  BY <1>4, ApplyStep, PruneStep
<1>5. CASE UNCHANGED vars
  BY <1>5 DEF vars, PipelineInv, TypeOK, Counted, ChildShaped, LiveMarked, StillVerified,
     Witnessed, Merged, Secured, TargetWhole, LiveBehindTarget, WavesInOrder, Explained,
     CascadeArmed
<1>. QED
  BY <1>1, <1>2, <1>3, <1>4, <1>5 DEF Next

\* The inductive invariant holds in every reachable state: what the commands
\* (newTypedWriteCommand), the broker workflow, the reviewer and Argo CD have
\* made of the catalogs and of the cluster is consistent.
THEOREM PipelineInvariant == Spec => []PipelineInv
BY InitInv, NextInv, PTL DEF Spec

\* TypeOK holds in every reachable state: in particular main has a commit for
\* each merged change, and an Application, Database or Service only in a Team.
THEOREM PipelineTypeCorrect == Spec => []TypeOK
<1>1. PipelineInv => TypeOK
  BY DEF PipelineInv
<1>. QED
  BY <1>1, PipelineInvariant, PTL

\* CascadeArmed: a Team never leaves main before its child has the finalizer
\* that deletes what the Team has (verifyFinalization, finalizeTeam).
THEOREM CascadeIsArmed == Spec => []CascadeArmed
<1>1. PipelineInv => CascadeArmed
  BY DEF PipelineInv
<1>. QED
  BY <1>1, PipelineInvariant, PTL

\* PrunedTwiceApproved: what Argo CD deletes has been approved and finalized
\* (approveManifest, requireRetiring), with any number of changes in flight.
THEOREM PrunedIsTwiceApproved == Spec => PrunedTwiceApproved
<1>1. ASSUME PipelineInv, [Next]_vars, NEW x \in Objects,
             child.there, child'.there, live[x].there, ~live'[x].there
      PROVE  Approved(live[x].request, x) /\ Finalized(x)
  <2>1. live \in [Objects -> Object]
    BY <1>1 DEF PipelineInv, TypeOK, Object
  <2>2. \A z \in Objects : ~Apply(z)
    <3>1. SUFFICES ASSUME NEW z \in Objects, Apply(z) PROVE FALSE
      OBVIOUS
    <3>2. live' = [live EXCEPT ![z] = [there |-> TRUE, request |-> child.target[z].request]]
      BY <3>1 DEF Apply, Manifest
    <3>. QED
      BY <1>1, <2>1, <3>2
  <2>3. ~PruneChild
    BY <1>1 DEF PruneChild, NoChild
  <2>4. live' # live
    BY <1>1
  <2>5. PICK z \in Objects : Prune(z)
    BY <1>1, <2>2, <2>3, <2>4 DEF Next, vars, PlanSome, Plan, Submit, Publish, Merge, Abandon,
       SyncRoot, CompareChild
  <2>6. z = x
    BY <1>1, <2>1, <2>5 DEF Prune
  <2>7. live[x].request # NoRequest /\ ~Present(child.target, x)
    BY <2>5, <2>6 DEF Prune, Prunable
  <2>8. ApprovedBy(requests, live[x].request, x) /\ FinalizedBy(requests, x)
    BY <1>1, <2>7 DEF PipelineInv, LiveMarked, Explained
  <2>. QED
    BY <2>8 DEF ApprovedBy, FinalizedBy, Approved, Finalized
<1>2. PipelineInv /\ [Next]_vars =>
        [\A x \in Objects :
           /\ child.there /\ child'.there
           /\ live[x].there /\ ~live'[x].there
           => /\ Approved(live[x].request, x)
              /\ Finalized(x)]_vars
  BY <1>1
<1>. QED
  BY <1>2, PipelineInvariant, PTL DEF Spec, PrunedTwiceApproved

\* What verifyFinalization looks at, or what is of an earlier wave, is all that
\* a finalization removes of a Team that stays, but for a second component.
LEMMA RemovedIsWitnessed ==
  ASSUME NEW c \in Catalog, Shape(c), NEW q \in Proposals, NEW id \in Request, Accepts(c, q),
         IsFinalize(q), NEW x \in Objects, Present(c, x), Present(Rendered(c, q, id), Team),
         Rendered(c, q, id)[x] # c[x]
  PROVE  \/ x = Components[2] /\ q.op = "service.finalize"
         \/ \E y \in Witness(c, q) : x = y \/ Wave(x) < Wave(y)
<1>. DEFINE n == Rendered(c, q, id)
<1>1. Team \in Names /\ x \in Names
  BY NameFacts
<1>2. CASE q.op = "team.finalize"
  BY <1>1, <1>2, EntryFacts DEF Rendered, Present
<1>3. CASE q.op \in {"app.finalize", "database.finalize"}
  <2>1. n = Remove(c, {q.name})
    BY <1>3 DEF Rendered
  <2>2. x = q.name
    BY <1>1, <2>1 DEF Remove
  <2>. QED
    BY <1>3, <2>2 DEF Witness
<1>4. CASE q.op = "service.finalize"
  <2>1. Present(c, Service)
    BY <1>4 DEF Accepts, AcceptsApplication, AcceptsDatabase, AcceptsDeletion,
       AcceptsFinalization, AcceptsScaffold, AcceptsService
  <2>2. /\ Team \notin c[Service].owns /\ x \in ServiceScope(c)
    <3>1. n = Remove(c, IF Team \in c[Service].owns THEN Names ELSE ServiceScope(c))
      BY <1>4 DEF Rendered, RemoveService
    <3>. QED
      BY <1>1, <3>1, EntryFacts DEF Remove, Present
  <2>3. /\ c[Service].owns \subseteq {ServiceDatabase}
        /\ c[Service].parts[1] = Components[1]
        /\ Range(c[Service].parts) \subseteq {Components[1], Components[2]}
    BY <2>1, <2>2, NameFacts, TemplateFacts DEF Shape, Catalog, Entry
  <2>4. Witness(c, q) = IF Present(c, Components[1]) THEN {Components[1]} ELSE c[Service].owns
    BY <1>4, <2>2, <2>3 DEF Witness
  <2>5. x \in c[Service].owns \/ x \in {Components[1], Components[2]}
    BY <2>2, <2>3, NameFacts DEF ServiceScope
  <2>6. Wave(ServiceDatabase) < Wave(Components[1])
    <3>1. /\ ServiceDatabase \in Databases /\ ServiceDatabase \notin Applications
          /\ ServiceDatabase # Team /\ Components[1] \in Applications
          /\ Components[1] \notin Databases /\ Components[1] # Team
      BY NameFacts, TemplateFacts
    <3>2. Wave(ServiceDatabase) = 1 /\ Wave(Components[1]) = 2
      BY <3>1 DEF Wave
    <3>. QED
      BY <3>2
  <2>. QED
    BY <1>4, <2>3, <2>4, <2>5, <2>6
<1>. QED
  BY <1>2, <1>3, <1>4 DEF IsFinalize, FinalizeOps

\* FinalizedIsPrunable: whatever Argo CD and other changes do between the
\* verification of a finalization and its merge, what it removes from main is
\* not protected in the cluster then (verifyFinalization), except the second
\* component of a Service.
THEOREM FinalizedCanBePruned == Spec => FinalizedIsPrunable
<1>1. ASSUME PipelineInv, [Next]_vars, NEW x \in Objects,
             Present(main, x), ~Present(main', x), Present(main', Team)
      PROVE  \/ ~Protected(x)
             \/ x = Components[2] /\ ServiceFinalized
  <2>1. PICK id \in Request : Merge(id)
    BY <1>1 DEF Next, vars, PlanSome, Plan, Submit, Publish, Abandon,
       SyncRoot, CompareChild, PruneChild, Apply, Prune, Present
  <2>. DEFINE r == requests[id]
  <2>2. /\ r.phase = "Open" /\ requests'[id].phase = "Merged"
        /\ r.before \in Catalog /\ r.q \in Proposals /\ Shape(r.before) /\ Accepts(r.before, r.q)
        /\ r.after = Rendered(r.before, r.q, id)
        /\ r.after[x] # r.before[x] /\ main[x] = r.before[x]
        /\ Present(r.after, Team)
    BY <1>1, <2>1, MergeFacts, NameFacts DEF ChangeRequest, Present
  <2>3. IsFinalize(r.q) /\ RetiringUnder(main, x, r.q)
    BY <1>1, <2>1, MergeExplains
  <2>4. \/ x = Components[2] /\ r.q.op = "service.finalize"
        \/ x \in Witnessed(r)
    BY <1>1, <2>2, <2>3, RemovedIsWitnessed DEF Present, Witnessed
  <2>5. CASE x = Components[2] /\ r.q.op = "service.finalize"
    BY <2>2, <2>5 DEF ServiceFinalized
  <2>6. CASE x \in Witnessed(r)
    <3>1. Secured(r.q.deletion, x) /\ r.q.deletion \in Request
      BY <1>1, <2>2, <2>3, <2>6, ProposalFacts DEF PipelineInv, StillVerified
    <3>2. main[x].request = r.q.deletion /\ r.q.deletion # NoRequest
      BY <2>3, <3>1, NameFacts DEF RetiringUnder
    <3>3. live[x].there => live[x].request = r.q.deletion
      BY <3>1, <3>2 DEF Secured
    <3>. QED
      BY <3>2, <3>3 DEF Protected
  <2>. QED
    BY <2>4, <2>5, <2>6
<1>2. PipelineInv /\ [Next]_vars =>
        [\A x \in Objects :
           /\ Present(main, x) /\ ~Present(main', x)
           /\ Present(main', Team)
           => \/ ~Protected(x)
              \/ x = Components[2] /\ ServiceFinalized]_vars
  BY <1>1
<1>. QED
  BY <1>2, PipelineInvariant, PTL DEF Spec, FinalizedIsPrunable

=============================================================================
