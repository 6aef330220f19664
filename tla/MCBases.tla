------------------------------- MODULE MCBases -------------------------------
(* Values for the constants of BaseSettings that a .cfg cannot write. *)
EXTENDS BaseSettings, TLC

\* Bases and their paths are alike.
Symmetry == Permutations(Names) \cup Permutations(Paths)
=============================================================================
