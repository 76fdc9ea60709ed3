--------------------------- MODULE DatabaseContract ---------------------------
(***************************************************************************)
(* What the Database controller promises to whoever keeps data in it       *)
(* (docs/adr/0010, docs/databases.md), without reconciles, caches, Backups *)
(* or finalizers: a data plane belongs to the Database that exists; it is  *)
(* removed only while that Database is being deleted and after its loss    *)
(* was cleared; and a Database does not go before its data plane has gone. *)
(*                                                                         *)
(* DatabaseLifecycle implements it; what clears a lifetime is up to the    *)
(* refinement mapping.                                                     *)
(***************************************************************************)
EXTENDS Naturals

VARIABLES
  last,    \* the latest lifetime of the name
  live,    \* the lifetime of the Database that exists, 0: none
  ending,  \* has its deletion been asked for, and is not over?
  data,    \* is there a data plane?
  cleared  \* lifetimes whose data plane may be removed

vars == <<last, live, ending, data, cleared>>

Init == last = 0 /\ live = 0 /\ ending = FALSE /\ data = FALSE /\ cleared = {}

Create ==
  /\ live = 0
  /\ last' = last + 1 /\ live' = last'
  /\ UNCHANGED <<ending, data, cleared>>

\* Also while it is ending: a reconcile may not know yet.
Provision ==
  /\ live # 0
  /\ data' = TRUE
  /\ UNCHANGED <<last, live, ending, cleared>>

AskToEnd ==
  /\ live # 0 /\ ~ending
  /\ ending' = TRUE
  /\ cleared' \in {cleared, cleared \cup {live}}
  /\ UNCHANGED <<last, live, data>>

\* The data is safe elsewhere, or given up.
Clear ==
  /\ ending
  /\ cleared' = cleared \cup {live}
  /\ UNCHANGED <<last, live, ending, data>>

Remove ==
  /\ ending /\ live \in cleared
  /\ data' = FALSE
  /\ UNCHANGED <<last, live, ending, cleared>>

Vanish ==
  /\ live # 0 /\ ~data
  /\ live' = 0 /\ ending' = FALSE
  /\ UNCHANGED <<last, data, cleared>>

Next == Create \/ Provision \/ AskToEnd \/ Clear \/ Remove \/ Vanish

Spec == Init /\ [][Next]_vars

=============================================================================
