---------------------------- MODULE MCResolution ----------------------------
(* Values for the constants of ConflictResolution that a .cfg cannot write. *)
EXTENDS ConflictResolution, TLC

Symmetry == Permutations(Paths)
=============================================================================
