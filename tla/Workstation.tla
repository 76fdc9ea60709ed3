------------------------------ MODULE Workstation ------------------------------
(***************************************************************************)
(* The platformctl processes of one workstation on one checkout: the       *)
(* portal and the break-glass commands (Portal), and the platform commands *)
(* (PlatformLifecycle), which resolve the checkout's HEAD while its owner  *)
(* edits and pulls.                                                        *)
(***************************************************************************)
EXTENDS Portal, PlatformLifecycle

ASSUME WorkstationAssumption == Commit \subseteq Revision

workstationVars == <<vars, platformVars>>

WorkstationTypeOK == TypeOK /\ PlatformTypeOK

WorkstationInit == Init /\ PlatformInit

PlatformStep == budget.platform /\ PlatformNext(checkout.commit)

WorkstationNext ==
  \/ Next /\ UNCHANGED platformVars
  \/ PlatformStep /\ UNCHANGED vars

WorkstationSpec == WorkstationInit /\ [][WorkstationNext]_workstationVars

=============================================================================
