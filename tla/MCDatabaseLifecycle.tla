------------------------- MODULE MCDatabaseLifecycle -------------------------
(* Instances of DatabaseLifecycle for TLC; the .cfg files choose the bounds. *)
EXTENDS DatabaseLifecycle
=============================================================================
