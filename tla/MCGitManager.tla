---------------------------- MODULE MCGitManager ----------------------------
(* Values for the constants of GitManager that a .cfg cannot write. *)
EXTENDS GitClaims

CONSTANTS p1, p2, c1, c2

NoPath     == {}
OnePath    == {p1}
TwoPaths   == {p1, p2}
OneConfig  == {c1}
TwoConfigs == {c1, c2}
=============================================================================
