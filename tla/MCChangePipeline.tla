-------------------------- MODULE MCChangePipeline --------------------------
(* The instance of ChangePipeline that TLC checks: two Applications, the     *)
(* components of the one Service, and one Database.                          *)
EXTENDS ChangePipeline

CONSTANTS Web, Api, Store

MCApplications == {Web, Api}
MCComponents   == <<Web, Api>>
MCDatabases    == {Store}

ServiceOf(parts, db, owns) ==
  [NewEntry EXCEPT !.parts = parts, !.db = db, !.owns = owns]

\* An Active full-stack Service with its Database, in a Team it does not own.
GuestService ==
  [EmptyCatalog EXCEPT ![Team] = NewEntry, ![Web] = NewEntry,
                       ![Store] = NewEntry,
                       ![Api] = [NewEntry EXCEPT !.db = Store],
                       ![Service] = ServiceOf(Components, Store, {Store})]

\* A Service of one component that owns its Team, where there is another
\* Application.
OwnerOfTeam ==
  [EmptyCatalog EXCEPT ![Team] = NewEntry, ![Web] = NewEntry, ![Api] = NewEntry,
                       ![Service] = ServiceOf(<<Web>>, NoDatabase, {Team})]

Catalogs == {GuestService, OwnerOfTeam}
=============================================================================
