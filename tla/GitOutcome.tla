----------------------------- MODULE GitOutcome -----------------------------
(***************************************************************************)
(* What the end of a Git operation does to the public status of its base:  *)
(* the outcome classifier of internal/service/git_resilience_contracts.go  *)
(* and the autosync breaker of internal/repository/git_status_transition.go*)
(*                                                                         *)
(* In this module and in those that extend it, a definition introduced as  *)
(* a variant is a bug the code could have had: the runs are tried with it  *)
(* in place of the definition that follows it.                             *)
(***************************************************************************)
EXTENDS Naturals

CONSTANT PauseThreshold      \* repository.GitStatusPauseFailureThreshold (5)

ASSUME PauseThresholdAssumption == PauseThreshold \in Nat \ {0}

OperationKinds  == {"initialize", "sync", "conflict_complete", "conflict_abort"}
OperationStates == {"queued", "running", "succeeded", "failed", "conflict"}
GitStates       == {"unconfigured", "initializing", "ready", "syncing", "error",
                    "paused", "conflict", "needs_reconnect"}
FailureActions  == {"preserve", "increment", "reset"}

\* The error codes that stop an operation without being an operational failure.
SafetyCodes ==
  {"git_conflict", "git_conflict_not_found", "git_conflict_stale",
   "git_conflict_unresolved", "git_conflict_unsupported",
   "git_merge_not_in_progress", "git_recovery_required",
   "operation_interrupted", "repository_root_mismatch", "backup_mismatch",
   "needs_reconnect", "branch_deleted", "remote_history_rewritten",
   "identity_missing", "origin_mismatch", "not_a_git_repository",
   "invalid_branch", "git_confirmation_required", "git_canceled",
   "git_paused", "git_not_paused"}

OperationalCodes ==
  {"git_unavailable", "git_version_unsupported", "auth_failed",
   "remote_unreachable", "repository_locked", "git_command_failed",
   "git_timeout", "push_rejected"}

NoError == "none"
ErrorCodes == SafetyCodes \cup OperationalCodes \cup {NoError}

gitOperationalFailure(code) == code \notin SafetyCodes

Outcome(state, failures) == [state |-> state, failures |-> failures]

(***************************************************************************)
(* The clauses are tried in the order of the switch statements: a success, *)
(* a conflict, a failed abort that keeps its conflict, the codes that stop *)
(* a base at once, and at last the failures the breaker counts.            *)
(***************************************************************************)
ClassifyGitOutcome(kind, state, existing, code) ==
  CASE state = "succeeded" /\ kind # "conflict_abort" -> Outcome("ready", "reset")
    [] state = "succeeded" /\ kind = "conflict_abort" -> Outcome("paused", "preserve")
    [] OTHER ->
       IF state = "conflict" \/ code = "git_conflict"
       THEN Outcome("conflict", "preserve")
       ELSE IF kind = "conflict_abort" /\ state = "failed"
                 /\ existing \in {"conflict", "needs_reconnect"}
       THEN Outcome(existing, "preserve")
       ELSE IF code = "needs_reconnect"
       THEN Outcome("needs_reconnect", "preserve")
       ELSE IF code \in {"branch_deleted", "remote_history_rewritten"}
       THEN Outcome("paused", "preserve")
       ELSE IF state = "failed" /\ gitOperationalFailure(code)
                 /\ kind \in {"sync", "conflict_complete"}
       THEN Outcome("error", "increment")
       ELSE Outcome("error", "preserve")

\* The two CASE columns of the UPDATE in ApplyTransition.
NextFailures(count, action) ==
  CASE action = "increment" -> count + 1
    [] action = "reset"     -> 0
    [] OTHER                -> count

\* Variant: one failure late.
LateNextState(state, count, action) ==
  IF action = "increment" /\ count + 1 > PauseThreshold THEN "paused" ELSE state

NextState(state, count, action) ==
  IF action = "increment" /\ count + 1 >= PauseThreshold THEN "paused" ELSE state
=============================================================================
