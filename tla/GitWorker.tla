------------------------------ MODULE GitWorker ------------------------------
(***************************************************************************)
(* The single worker of the Git manager and the Git commands of its jobs.  *)
(* It holds the coordinator from the pop of a job to its terminal writes,  *)
(* and takes a step per durable write and per Git command.  Between two    *)
(* commands a job saves a checkpoint: first the journal row, then the      *)
(* public status.  A command succeeds, fails, or fails after its effect    *)
(* (a timeout, a cancellation, an unknown push outcome).                   *)
(***************************************************************************)
EXTENDS GitAdmission

Fail(code) ==
  co' = [co EXCEPT !.err = IF @ = "git_conflict" THEN @ ELSE code,
                   !.pc = IF co.tx THEN "leave" ELSE "failed"]

\* The command fails, before or after the effect it has on the state.
FailsWith(code, effect, unchanged) == Fail(code) /\ (effect \/ unchanged)

Save(ck, label) == co' = [co EXCEPT !.ck = ck, !.next = label, !.pc = "journal"]
At(stage) == [co.ck EXCEPT !.stage = stage]

WorkerFrame == UNCHANGED <<config, server, published, process, connecting, degraded>>
MemoryFrame == UNCHANGED <<gate, queue, inFlight>>
RepoFrame == WorkerFrame /\ MemoryFrame /\ UNCHANGED <<journal, status>>
CommandFrame == RepoFrame /\ UNCHANGED spent

\* A write fails because the process shuts down, or else for a fault.
Interrupted == IF phase = "closing" THEN NoFault ELSE Fault

-----------------------------------------------------------------------------
(* Taking a job. *)

FirstStep(kind) ==
  CASE kind = "sync"              -> "preflight"
    [] kind = "initialize"        -> "probe"
    [] kind = "conflict_complete" -> "verify_completion"
    [] kind = "conflict_abort"    -> "verify_abort"

\* Variant: the worker takes the whole queue and runs its first job.
NothingLeft == <<>>

RestOfQueue == Tail(queue)

Begin ==
  /\ Free /\ Serving /\ queue # <<>> /\ Head(queue).op # 0
  /\ LET job == Head(queue)
         row == journal[job.path][job.op] IN
     co' = [Idle EXCEPT !.path = job.path, !.op = job.op, !.cfg = job.cfg,
                        !.pc = IF config[job.path] # job.cfg THEN "stale" ELSE "journal",
                        !.ck = CheckpointOf(row), !.next = FirstStep(row.kind)]
  /\ queue' = RestOfQueue
  /\ UNCHANGED <<durable, process, gate, inFlight, connecting, degraded, spent>>

\* finishStale leaves the status of the base as it is.
FinishStale ==
  /\ co.pc = "stale" /\ Release
  /\ \/ /\ WriteRow(co.path, co.op, Finished(Row, "failed", "queued", NoResult))
        /\ inFlight' = [inFlight EXCEPT ![co.path] = 0] /\ NoFault
     \/ Fault /\ UNCHANGED <<journal, inFlight>>
  /\ WorkerFrame /\ UNCHANGED <<status, repo, gate, queue>>

\* A job whose process shuts down before it starts is left in the journal.
Abandon ==
  /\ phase = "closing" /\ co.pc \in {"stale", "journal"} /\ Row.state = "queued"
  /\ Release /\ UNCHANGED <<durable, process, memory, spent>>

(* ResolveConflict: the last unmerged path of the merge is settled. *)
ResolveConflict ==
  /\ Free /\ Serving /\ queue # <<>> /\ Head(queue).op = 0
  /\ queue' = RestOfQueue
  /\ LET p == Head(queue).path
         o == currentConflictOperation(p) IN
     /\ gate' = IF o = 0 THEN gate ELSE gate \cup {p}
     /\ IF o # 0 /\ Inspectable(repo[p], journal[p][o]) /\ repo[p].merge = "conflict"
        THEN \E merge \in {"conflict", "resolved"} :
               UpdateRepo(p, [repo[p] EXCEPT !.merge = merge])
        ELSE UNCHANGED repo
  /\ WorkerFrame /\ UNCHANGED <<journal, status, inFlight, co, spent>>

-----------------------------------------------------------------------------
(* A checkpoint: the closure "progress" of runJob. *)

\* Variant: the gate is lifted before the merge is committed.
EarlyReindexed == co.ck.stage \in {"conflict_completing", "conflict_reindexed"}

Reindexed == co.ck.stage = "conflict_reindexed"

Checkpoint ==
  /\ co.pc = "journal"
  /\ \/ /\ phase # "closing" /\ NoFault
        /\ WriteRow(co.path, co.op, Checkpointed(Row, co.ck)) /\ Goto("publish")
     \/ Interrupted /\ Fail("git_command_failed") /\ UNCHANGED journal
  /\ WorkerFrame /\ MemoryFrame /\ UNCHANGED <<status, repo>>

JobState == IF Kind \notin ConflictKinds THEN WorkingState(Kind)
            ELSE IF Kind = "conflict_complete" /\ (Reindexed \/ co.cleared) THEN "syncing"
            ELSE "conflict"

Publish ==
  /\ co.pc = "publish"
  /\ \/ /\ phase # "closing" /\ NoFault
        /\ applyStatus(co.path, WorkingStatus(co.path, co.op, JobState, co.ck.remote), "preserve")
        /\ gate' = IF Reindexed THEN gate \ {co.path} ELSE gate
        /\ co' = [co EXCEPT !.pc = co.next, !.cleared = @ \/ Reindexed]
     \/ Interrupted /\ Fail("git_command_failed") /\ UNCHANGED <<status, gate>>
  /\ WorkerFrame /\ UNCHANGED <<journal, repo, queue, inFlight>>

(* The worktree transaction locks the notes; its end reindexes them, and a *)
(* conflict found inside it is gated before the notes are unlocked.        *)
StageOfNetwork == [fetch |-> "fetching", push |-> "pushing"]

AfterLeave ==
  IF co.err # NoError THEN [co EXCEPT !.tx = FALSE, !.pc = "failed"]
  ELSE IF co.after \in DOMAIN StageOfNetwork
  THEN [co EXCEPT !.tx = FALSE, !.ck = At(StageOfNetwork[co.after]),
                  !.pc = "journal", !.next = co.after]
  ELSE [co EXCEPT !.tx = FALSE, !.pc = co.after]

\* Variant: the gate is left to the end of the job.
NotGated == gate

GatedConflict == IF co.err = "git_conflict" THEN gate \cup {co.path} ELSE gate

Leave ==
  /\ co.pc = "leave"
  /\ gate' = GatedConflict
  /\ \/ co' = AfterLeave /\ NoFault
     \/ /\ Fault
        /\ co' = [co EXCEPT !.tx = FALSE, !.pc = "failed",
                            !.err = IF @ = NoError THEN "git_command_failed" ELSE @]
  /\ WorkerFrame /\ UNCHANGED <<journal, status, repo, queue, inFlight>>

-----------------------------------------------------------------------------
(* Git commands that sync and initialize share. *)

\* preflightSync; a merge somebody left is handed to conflict resolution.
Preflight ==
  /\ co.pc = "preflight"
  /\ \/ /\ Repo.merge # "none"
        /\ co' = [co EXCEPT !.tx = TRUE, !.err = "git_conflict", !.ck = At("merging"),
                            !.pc = "journal", !.next = "leave"]
     \/ /\ Repo.merge = "none" /\ Repo.origin /\ Repo.managed = Row.remote
        /\ Save(At("fetching"), "fetch")
     \/ /\ Repo.merge = "none"
        /\ Fail(IF ~Repo.origin \/ Repo.managed # Row.remote THEN "needs_reconnect"
                                                            ELSE "git_command_failed")
  /\ CommandFrame /\ UNCHANGED repo

\* Probe and preflightInitializeRefs, then the transaction that snapshots.
Probe ==
  /\ co.pc = "probe"
  /\ \/ /\ Repo.merge = "none" /\ (Row.remote = 0 \/ Repo.managed = Row.remote)
        /\ Save(At("probing"), "create_repository")
     \/ Fail(IF Row.remote # 0 /\ Repo.managed # Row.remote
             THEN "remote_history_rewritten" ELSE "git_command_failed")
  /\ CommandFrame /\ UNCHANGED repo

\* git init and git remote add.
CreateRepository ==
  /\ co.pc = "create_repository"
  /\ \/ /\ UpdateRepo(co.path, [Repo EXCEPT !.origin = TRUE])
        /\ co' = [co EXCEPT !.tx = TRUE, !.after = "fetch", !.ck = At("snapshotting"),
                            !.pc = "journal", !.next = "commit"]
     \/ FailsWith("git_command_failed", UpdateRepo(co.path, [Repo EXCEPT !.origin = TRUE]), UNCHANGED repo)
  /\ CommandFrame

Fetch ==
  /\ co.pc = "fetch"
  /\ LET head == server[co.path]
         fetched == UpdateRepo(co.path, [Repo EXCEPT !.private =
                      {ref \in @ : ref[1] # co.op} \cup {<<co.op, head>>}]) IN
     \/ /\ fetched
        /\ Save([At("fetching") EXCEPT !.candidate = head], "trust")
     \/ FailsWith("git_command_failed", fetched, UNCHANGED repo)
  /\ CommandFrame

\* A failed update-ref is looked at again, and counts if the ref did move: it
\* moves in an operation that fails only when that look fails too.
NotMoved(moved) == /\ Fail("git_command_failed")
                   /\ (UNCHANGED repo /\ NoFault) \/ (moved /\ Interrupted)

\* advanceSyncTrust, establishRemoteTrust: update-ref of the trusted ref, for
\* initialize the first command of the transaction that merges.
Trust ==
  /\ co.pc = "trust"
  /\ LET trusted == UpdateRepo(co.path, [Repo EXCEPT !.managed = co.ck.candidate]) IN
     \/ /\ trusted /\ NoFault
        /\ co' = [co EXCEPT !.ck = [At("fetching") EXCEPT !.remote = co.ck.candidate],
                            !.tx = Kind = "initialize", !.after = "push", !.pc = "journal",
                            !.next = IF Kind = "sync" THEN "open_snapshot" ELSE "merge"]
     \/ NotMoved(trusted)
  /\ RepoFrame

OpenSnapshot ==
  /\ co.pc = "open_snapshot"
  /\ co' = [co EXCEPT !.tx = TRUE, !.after = "push", !.res = [remote |-> co.ck.candidate, push |-> 0],
                      !.ck = [At("snapshotting") EXCEPT !.local = Keep(@, Repo.head)],
                      !.pc = "journal", !.next = "commit"]
  /\ CommandFrame /\ UNCHANGED repo

NewCommit(r, history) ==
  [r EXCEPT !.head = r.last + 1, !.last = @ + 1, !.history = history \cup {r.last + 1}]

\* git add and git commit; initialize journals the snapshot before it fetches.
Commit ==
  /\ co.pc = "commit"
  /\ LET after == IF Repo.dirty THEN [NewCommit(Repo, Repo.history) EXCEPT !.dirty = FALSE] ELSE Repo
         committed == UpdateRepo(co.path, after) IN
     \/ /\ committed
        /\ IF Kind = "sync"
           THEN co' = [co EXCEPT !.ck.local = after.head, !.pc = "merge"]
           ELSE co' = [co EXCEPT !.ck = [At("snapshotting") EXCEPT !.local = after.head],
                                 !.pc = "journal", !.next = "leave"]
     \/ FailsWith("git_command_failed", committed, UNCHANGED repo)
  /\ CommandFrame

-----------------------------------------------------------------------------
(* mergeSyncCandidate, mergeIfNeeded *)

Merged == co.ck.candidate \in Repo.history
CandidateHistory == {c \in published[co.path] : c <= co.ck.candidate}

MergeResult ==
  LET history == Repo.history \cup CandidateHistory IN
  IF Repo.head \in CandidateHistory
  THEN [Repo EXCEPT !.head = co.ck.candidate, !.history = history]
  ELSE NewCommit(Repo, history)

\* The frozen HEAD becomes what the operation will push.
SaveMerged(head) ==
  co' = [co EXCEPT !.ck = [At("reindexing") EXCEPT !.push = head],
                   !.res.push = IF Kind = "sync" THEN head ELSE 0,
                   !.pc = "journal", !.next = "leave"]

MergeNeeded ==
  /\ co.pc = "merge"
  /\ IF Merged THEN SaveMerged(Repo.head) ELSE Save(At("merging"), "run_merge")
  /\ CommandFrame /\ UNCHANGED repo

\* A merge that stops leaves MERGE_HEAD, with unmerged paths or, when a hook or
\* the signature refuses its commit, without.
Stopped(merge) == UpdateRepo(co.path, [Repo EXCEPT !.merge = merge, !.mergeHead = co.ck.candidate])
SaveConflict == co' = [co EXCEPT !.err = "git_conflict", !.pc = "journal", !.next = "leave"]

RunMerge ==
  /\ co.pc = "run_merge"
  /\ \/ UpdateRepo(co.path, MergeResult) /\ SaveMerged(MergeResult.head) /\ NoFault
     \/ /\ Repo.head \notin CandidateHistory
        /\ Stopped("conflict") /\ SaveConflict /\ NoFault
     \/ /\ Repo.head \notin CandidateHistory
        /\ Stopped("resolved") /\ Fault
        /\ IF Kind = "sync" THEN SaveConflict ELSE Fail("git_command_failed")
     \/ /\ UpdateRepo(co.path, MergeResult) \/ UNCHANGED repo
        /\ NoFault
        \* inspectMergeState cannot run in a canceled context: taken for a conflict
        /\ IF phase = "closing" THEN SaveConflict ELSE Fail("git_command_failed")
  /\ RepoFrame

-----------------------------------------------------------------------------
(* Push.  The remote takes the commit only while its head is the candidate. *)

Retry == co' = [co EXCEPT !.attempt = 2, !.ck = At("fetching"), !.pc = "journal", !.next = "fetch"]

\* Variant: a push without the lease.
NoLease == TRUE

LeaseHeld == server[co.path] = co.ck.candidate

Push ==
  /\ co.pc = "push"
  /\ LET p == co.path
         pushed == /\ server' = [server EXCEPT ![p] = co.ck.push]
                   /\ published' = [published EXCEPT ![p] = @ \cup Repo.history] IN
     \/ /\ LeaseHeld /\ pushed
        /\ Goto("settle")
     \/ /\ LeaseHeld
        /\ FailsWith("git_command_failed", pushed, UNCHANGED <<server, published>>)
     \/ /\ ~LeaseHeld /\ UNCHANGED <<server, published>>
        /\ IF Kind = "sync" /\ co.attempt = 1 THEN Retry ELSE Fail("push_rejected")
  /\ UNCHANGED <<config, process, connecting, degraded, journal, status, repo, spent>> /\ MemoryFrame

SettledCheckpoint ==
  [At("completed") EXCEPT !.remote = co.ck.push,
                          !.candidate = IF Kind = "sync" THEN @ ELSE co.ck.push]

\* update-ref to the pushed commit; initialize runs it in a worktree transaction,
\* and a completion takes every failure of it for one.
Settle ==
  /\ co.pc = "settle"
  /\ LET settled == UpdateRepo(co.path, [Repo EXCEPT !.managed = co.ck.push]) IN
     \/ /\ settled /\ NoFault
        /\ IF Kind = "initialize"
           THEN co' = [co EXCEPT !.ck = SettledCheckpoint, !.tx = TRUE, !.after = "succeed_journal",
                                 !.pc = "journal", !.next = "leave"]
           ELSE Save(SettledCheckpoint, "succeed_journal")
     \/ Kind # "conflict_complete" /\ NotMoved(settled)
     \/ /\ Kind = "conflict_complete" /\ NoFault
        /\ FailsWith("git_command_failed", settled, UNCHANGED repo)
  /\ RepoFrame

-----------------------------------------------------------------------------
(* CompleteConflict *)

VerifyCompletion ==
  /\ co.pc = "verify_completion"
  /\ \/ /\ Inspectable(Repo, Row) /\ Repo.merge = "resolved"
        /\ Save(At("conflict_completing"), "commit_merge")
     \/ Fail("git_recovery_required")
  /\ CommandFrame /\ UNCHANGED repo

CommitMerge ==
  /\ co.pc = "commit_merge"
  /\ LET after == [NewCommit(Repo, Repo.history \cup CandidateHistory)
                     EXCEPT !.merge = "none", !.mergeHead = 0]
         committed == UpdateRepo(co.path, after) IN
     \/ /\ committed
        /\ co' = [co EXCEPT !.ck = [At("conflict_committed") EXCEPT !.push = after.head],
                            !.tx = TRUE, !.after = "sync_index", !.pc = "journal", !.next = "leave"]
     \/ FailsWith("git_recovery_required", committed, UNCHANGED repo)
  /\ CommandFrame

\* SyncFS, then the checkpoint whose publication lifts the conflict gate.
SyncIndex ==
  /\ co.pc = "sync_index"
  /\ \/ Save(At("conflict_reindexed"), "save_conflict_pushing") /\ NoFault
     \/ Fail("git_command_failed") /\ Fault
  /\ RepoFrame /\ UNCHANGED repo

SaveConflictPushing ==
  /\ co.pc = "save_conflict_pushing" /\ Save(At("conflict_pushing"), "push")
  /\ CommandFrame /\ UNCHANGED repo

-----------------------------------------------------------------------------
(* AbortConflict, and the reindexing that runJob adds to it. *)

VerifyAbort ==
  /\ co.pc = "verify_abort"
  /\ \/ /\ Inspectable(Repo, Row)
        /\ co' = [co EXCEPT !.tx = TRUE, !.after = "aborted", !.ck = At("conflict_aborting"),
                            !.pc = "journal", !.next = "abort_merge"]
     \/ Fail("git_recovery_required")
  /\ CommandFrame /\ UNCHANGED repo

AbortMerge ==
  /\ co.pc = "abort_merge"
  /\ LET aborted == UpdateRepo(co.path, [Repo EXCEPT !.merge = "none", !.mergeHead = 0]) IN
     \/ aborted /\ Goto("leave")
     \/ FailsWith("git_recovery_required", aborted, UNCHANGED repo)
  /\ CommandFrame

\* The job ends here with its row active and its path in flight.
Strand == gate' = gate \cup {co.path} /\ Release

Aborted ==
  /\ co.pc = "aborted"
  /\ \/ phase # "closing" /\ Goto("abort_status") /\ NoFault /\ UNCHANGED gate
     \/ Interrupted /\ Strand
  /\ WorkerFrame /\ UNCHANGED <<journal, status, repo, queue, inFlight>>

\* finishAbortSuccess: the status first, so that a lost Finish is recovered.
AbortStatus ==
  /\ co.pc = "abort_status"
  /\ \/ /\ applyStatus(co.path, [status[co.path] EXCEPT !.state = "paused", !.op = co.op,
                                                        !.remote = Row.remote], "preserve")
        /\ Goto("abort_journal") /\ NoFault
     \/ Fault /\ Release /\ UNCHANGED status
  /\ WorkerFrame /\ MemoryFrame /\ UNCHANGED <<journal, repo>>

AbortJournal ==
  /\ co.pc = "abort_journal" /\ Release
  /\ \/ /\ WriteRow(co.path, co.op, Finished(Row, "succeeded", "completed", NoResult))
        /\ gate' = gate \ {co.path} /\ inFlight' = [inFlight EXCEPT ![co.path] = 0] /\ NoFault
     \/ Fault /\ UNCHANGED <<journal, gate, inFlight>>
  /\ WorkerFrame /\ UNCHANGED <<status, repo, queue>>

-----------------------------------------------------------------------------
(* finishSuccess and finishFailure: the journal, then the status.  The path *)
(* leaves inFlight when the journal write succeeded, whatever the other did. *)

Result == [remote |-> co.ck.push, push |-> co.ck.push]

\* Variant: only a success takes the path out of inFlight.
SuccessfulTerminal == IF co.err = NoError THEN [inFlight EXCEPT ![co.path] = 0] ELSE inFlight

completeTerminal == [inFlight EXCEPT ![co.path] = 0]

FinishRow(state, stage, res, label) ==
  /\ \/ /\ WriteRow(co.path, co.op, Finished(Row, state, stage, res))
        /\ inFlight' = completeTerminal /\ NoFault
     \/ Fault /\ UNCHANGED <<journal, inFlight>>
  /\ Goto(label)

SucceedJournal ==
  /\ co.pc = "succeed_journal"
  /\ FinishRow("succeeded", "completed", Result, "succeed_status")
  /\ WorkerFrame /\ UNCHANGED <<status, repo, gate, queue>>

SucceedStatus ==
  /\ co.pc = "succeed_status" /\ Release
  /\ \/ /\ applyStatus(co.path, [status[co.path] EXCEPT !.state = "ready", !.op = co.op,
                                                        !.remote = Result.remote], "reset")
        /\ NoFault
     \/ Fault /\ UNCHANGED status
  /\ WorkerFrame /\ MemoryFrame /\ UNCHANGED <<journal, repo>>

\* runJob turns every error but a conflict into the interruption that caused it.
Failed ==
  /\ co.pc = "failed"
  /\ co' = [co EXCEPT !.pc = "fail_journal",
              !.err = IF phase = "closing" /\ @ # "git_conflict" THEN "operation_interrupted" ELSE @]
  /\ gate' = IF co.err = "git_conflict" \/ (Kind \in ConflictKinds /\ ~co.cleared)
             THEN gate \cup {co.path} ELSE gate
  /\ WorkerFrame /\ UNCHANGED <<journal, status, repo, queue, inFlight, spent>>

FailedState == IF co.err = "git_conflict" THEN "conflict" ELSE "failed"

FailJournal ==
  /\ co.pc = "fail_journal"
  /\ FinishRow(FailedState, "queued", co.res, "fail_status")
  /\ WorkerFrame /\ UNCHANGED <<status, repo, gate, queue>>

\* Variant: the merge that was not pushed is reported as the trusted commit.
PushedOID(s) == Keep(co.res.push, Keep(Row.remote, s.remote))

FailedOID(s) == Keep(co.res.remote, Keep(Row.remote, s.remote))

FailStatus ==
  /\ co.pc = "fail_status" /\ Release
  /\ LET s == status[co.path]
         outcome == ClassifyGitOutcome(Kind, FailedState, s.state, co.err) IN
     \/ /\ applyStatus(co.path, [s EXCEPT !.state = outcome.state, !.op = co.op,
                                        !.remote = FailedOID(s)], outcome.failures)
        /\ NoFault
     \/ Fault /\ UNCHANGED status
  /\ WorkerFrame /\ MemoryFrame /\ UNCHANGED <<journal, repo>>
=============================================================================
