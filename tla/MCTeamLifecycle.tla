-------------------------- MODULE MCTeamLifecycle --------------------------
(* Instances of TeamLifecycle for TLC; the .cfg files choose the bounds. *)
EXTENDS TeamLifecycle
=============================================================================
