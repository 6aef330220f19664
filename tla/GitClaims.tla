------------------------------ MODULE GitClaims ------------------------------
(***************************************************************************)
(* What the documentation of the program says of the Git manager and the   *)
(* code does not do.  Each definition states one such sentence; the run    *)
(* that checks it shows how the code departs from it.                      *)
(***************************************************************************)
EXTENDS GitManager

Quiet(p) == Serving /\ Free /\ inFlight[p] = 0 /\ ActiveByPath(p) = 0 /\ config[p] # NoConfig

Latest(p) == journal[p][LatestByPath(p)]

(* docs/api.md:358, the pause survives a restart: recovery of a base paused *)
(* by an abort that succeeded leaves it paused.                             *)
AbortPauseSurvives ==
  [][\A p \in Paths :
       /\ phase = "recovering" /\ status[p].state = "paused" /\ status'[p] # status[p]
       /\ Latest(p).kind = "conflict_abort" /\ Latest(p).state = "succeeded"
       => status'[p].state = "paused"]_vars

(* docs/api.md:344, needs_reconnect asks for a new connection in the Git    *)
(* settings: a base in that state, at rest, takes one.                      *)
ReconnectIsAccepted ==
  \A p \in Paths : Quiet(p) /\ status[p].state = "needs_reconnect" => ~Locked(p)

(* docs/developer.md:139, writes are blocked until an explicit resolve,     *)
(* complete or abort: while a merge blocks them, one of these is accepted.  *)
BlockedMergeCanBeSettled ==
  \A p \in Paths : Quiet(p) /\ Locked(p) /\ repo[p].merge # "none" =>
    currentConflictOperation(p) # 0 /\ Inspectable(repo[p], journal[p][currentConflictOperation(p)])

(* docs/api.md:329, a deduplicated request names an accepted operation: one *)
(* in flight is waiting for the worker or is being run by it.               *)
DeduplicatedWillRun ==
  \A p \in Paths : Serving /\ Free /\ inFlight[p] # 0 =>
    \E k \in DOMAIN queue : queue[k].path = p /\ queue[k].op = inFlight[p]
=============================================================================
