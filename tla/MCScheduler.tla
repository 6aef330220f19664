----------------------------- MODULE MCScheduler -----------------------------
(* Values for the constants of GitScheduler that a .cfg cannot write. *)
EXTENDS GitScheduler

OneInterval == {2}
=============================================================================
