------------------------------ MODULE GitFence ------------------------------
(***************************************************************************)
(* No note edit lands among the conflict markers of a merge: while HTTP is *)
(* served a merge with conflicts has its base gated or its worktree locked, *)
(* a base shown in conflict is gated, and the gate opens only over a        *)
(* worktree without a merge.  Proved for every set of bases, every set of   *)
(* configurations and every bound.                                          *)
(*                                                                         *)
(* None of these is inductive.  The gate is closed a step, or a failed      *)
(* checkpoint, after the merge that stopped, by a holder that remembers it  *)
(* in an error code and an open transaction only; it is opened by one that  *)
(* committed or aborted the merge many steps before; and RecoverLocal must  *)
(* have closed it again for every base, whatever the journal, the status    *)
(* and the repository of a crashed process say, before it may serve.  So    *)
(* Fence follows the holder (HolderFenced), the jobs that wait (JobsFenced) *)
(* and the writes a recovery has still to make (PlanFenced).                *)
(***************************************************************************)
EXTENDS GitSerial

\* The steps of a job whose row is running, those a checkpoint is saved for, those
\* that follow a worktree transaction, those of a sync or an initialize alone, and those
\* that report a failure.
Commands == JobLabels \ {"stale", "journal", "publish", "leave", "failed", "fail_journal",
                         "fail_status", "succeed_status"}
Saved == (Commands \ {"settle", "sync_index", "aborted", "abort_status", "abort_journal"}) \cup {"leave"}
Followers == {"fetch", "push", "sync_index", "aborted", "succeed_journal"}
OriginalSteps == {"preflight", "probe", "create_repository", "fetch", "trust", "open_snapshot",
                  "commit", "merge", "run_merge"}
Endings == {"leave", "failed", "fail_journal", "fail_status"}
\* The steps of a holder whose base is configured.
OfConfigured == AdmissionLabels \cup {"refresh", "create_resumed", "recover"} \cup (RowLabels \ {"stale"})

\* The step a holder is at, or saves a checkpoint for.
Heading(c) == IF c.pc \in {"journal", "publish"} THEN c.next ELSE c.pc
Failing(c) == c.err # NoError
Resumes(c, label) == Heading(c) = "leave" /\ ~Failing(c) /\ c.after = label

\* What a holder keeps from its first step to its last: the status it may restore, the
\* configuration of its base, and the gate of a conflict that is not yet resolved.
OwnerFenced(c, row, configured, gated) ==
  /\ c.prev.state # "conflict"
  /\ c.pc \in OfConfigured => configured
  /\ c.pc \in RowLabels /\ row.kind \in ConflictKinds /\ ~c.cleared => gated
  /\ c.cleared => c.pc \in JobLabels /\ row.kind = "conflict_complete"

\* What it knows at each step of the row and the merge of its base.
StepFenced(c, row, r, s, gated) ==
  /\ c.pc = "save_config" => r.merge # "conflict" /\ s.state # "conflict"
  /\ c.pc = "admit_status" => row.stage = "queued"
  /\ c.pc \in {"journal", "publish"} => c.next \in Saved
  /\ \/ c.pc \in Commands \cup {"publish"}
     \/ c.pc = "journal" /\ c.next = "leave"
     \/ c.pc = "leave" /\ ~Failing(c)
     => row.state = "running"
  /\ Failing(c) => Heading(c) \in Endings
  /\ c.err = "git_conflict" /\ c.pc \in {"fail_journal", "fail_status"} => gated
  /\ c.ck.stage = "conflict_reindexed" =>
       Heading(c) = "save_conflict_pushing" \/ (Failing(c) /\ c.pc \in Endings)
  /\ Heading(c) \in OriginalSteps \/ Resumes(c, "fetch") => Original(row)
  /\ Heading(c) \in {"commit", "merge", "run_merge"} => c.tx /\ c.after \in {"fetch", "push"}
  /\ Heading(c) = "abort_merge" => c.after = "aborted"
  /\ Heading(c) \in {"verify_completion", "commit_merge"} => row.kind = "conflict_complete"
  /\ Heading(c) = "leave" /\ ~Failing(c) => c.after \in Followers
  /\ Heading(c) \in {"sync_index", "save_conflict_pushing"} \/ Resumes(c, "sync_index") =>
       row.kind = "conflict_complete" /\ r.merge = "none"
  /\ c.pc \in {"aborted", "abort_status", "abort_journal"} \/ Resumes(c, "aborted") => r.merge = "none"
  /\ c.pc = "abort_journal" => s.state # "conflict"

HolderFenced(c, row, r, s, configured, gated) ==
  OwnerFenced(c, row, configured, gated) /\ StepFenced(c, row, r, s, gated)

\* The writes that a recovery has left show no conflict without the gate.
IsStatusWrite(w) == w[1] # "journal"
PlanFenced(plan, r, s) ==
  /\ r.merge # "conflict"
  /\ \A k \in DOMAIN plan : IsStatusWrite(plan[k]) => plan[k][2].state # "conflict"
  /\ s.state = "conflict" => \E k \in DOMAIN plan : IsStatusWrite(plan[k])

\* The holder has met the conflict and still holds the worktree.
Shields(c, p) == c.tx /\ c.path = p /\ c.err = "git_conflict"

BaseFenced(p) ==
  \/ p \in gate
  \/ (repo[p].merge = "conflict" => Shields(co, p)) /\ status[p].state # "conflict"

\* The bases a start has recovered, or all of them.
Fenceable(p) ==
  \/ phase \in {"serving", "closing"}
  \/ phase = "recovering" /\ ~broken /\ p \notin pending /\ ~(co.pc = "recover" /\ co.path = p)

\* The inductive invariant.
BasesFenced == \A p \in Paths : Fenceable(p) => BaseFenced(p)
Unconfigured ==
  \A p \in Paths : config[p] = NoConfig =>
    /\ repo[p].merge # "conflict" /\ status[p].state # "conflict"
    /\ phase = "recovering" => p \notin pending
JobsFenced ==
  \A k \in DOMAIN queue : queue[k].op # 0 =>
    /\ queue[k].cfg # NoConfig /\ journal[queue[k].path][queue[k].op].stage = "queued"
    /\ journal[queue[k].path][queue[k].op].kind \in ConflictKinds => queue[k].path \in gate
RecoveryFenced ==
  co.pc = "recover" /\ ~broken => co.path \in gate \/ PlanFenced(co.plan, Repo, status[co.path])
Holder == HolderFenced(co, Row, Repo, status[co.path], config[co.path] # NoConfig, co.path \in gate)
Fence == BasesFenced /\ Unconfigured /\ JobsFenced /\ RecoveryFenced /\ Holder

-----------------------------------------------------------------------------
(* How the parts of the invariant survive a change. *)

\* A step on a row of the journal: what it does to its own base is all that counts.
LEMMA RowStepFenced ==
  ASSUME TypeInv, Serial, Fence, co.pc \in RowLabels, NEW p, p = co.path,
         UNCHANGED <<config, phase, pending, broken, queue>>,
         \A q \in Paths : q # co.path => /\ repo'[q] = repo[q] /\ status'[q] = status[q]
                                         /\ q \in gate <=> q \in gate',
         UNCHANGED <<repo, status>> \/ config[co.path] # NoConfig,
         UNCHANGED journal \/ \E row : WriteRow(co.path, co.op, row),
         co'.pc # "recover", BaseFenced(p)', Holder'
  PROVE  Fence'
<1>1. co.path \in Paths /\ NoneWaits(co.path) BY RepoType DEF Serial, HolderLast
<1>2. phase \in {"serving", "closing"}
  <2>1. phase \notin {"down", "recovering"} BY ServingPc, LabelsOf DEF RequestLabels
  <2> QED BY <2>1 DEF TypeInv, TypeOK, Phases
<1>3. BasesFenced'
  <2>1. SUFFICES ASSUME NEW q \in Paths, q # co.path PROVE BaseFenced(q)'
    BY DEF BasesFenced
  <2>2. BaseFenced(q) BY <1>2 DEF Fence, BasesFenced, Fenceable
  <2> QED BY <2>1, <2>2 DEF BaseFenced, Shields
<1>4. Unconfigured' BY DEF Fence, Unconfigured
<1>5. JobsFenced'
  <2>1. SUFFICES ASSUME NEW k \in DOMAIN queue, queue[k].op # 0
                 PROVE  /\ queue[k].path \in Paths /\ queue[k].path # co.path
                        /\ journal'[queue[k].path] = journal[queue[k].path]
    BY DEF Fence, JobsFenced
  <2>2. queue[k].path \in Paths /\ queue[k].path # co.path BY <1>1, <2>1, QueueFacts DEF NoneWaits
  <2> QED BY <1>1, <2>2 DEF WriteRow, TypeInv, TypeOK
<1>6. RecoveryFenced' BY DEF RecoveryFenced
<1> QED BY <1>3, <1>4, <1>5, <1>6 DEF Fence

\* What a step of a job knows.
LEMMA JobKnows ==
  ASSUME TypeInv, Fence, co.pc \in RowLabels
  PROVE  /\ co \in Locals /\ co.path \in Paths /\ co.op \in Op(co.path)
         /\ Row \in Rows /\ Repo \in Repos /\ status[co.path] \in Statuses
         /\ HolderFenced(co, Row, Repo, status[co.path], config[co.path] # NoConfig, co.path \in gate)
         /\ co.pc # "stale" => config[co.path] # NoConfig
<1>1. co \in Locals /\ co.path \in Paths /\ Row \in Rows /\ co.op \in Op(co.path) /\ Repo \in Repos
  BY RowType, RepoType DEF TypeInv, RowsExist
<1> QED BY <1>1 DEF Fence, Holder, HolderFenced, OwnerFenced, OfConfigured, TypeInv, TypeOK

\* The gate and the unfailed commands of a job: whatever merge there is, it is gated.
LEMMA CommandGated ==
  ASSUME TypeInv, Serial, Fence, co.pc \in Commands
  PROVE  co.err = NoError /\ (co.path \in gate \/ (Repo.merge # "conflict" /\ status[co.path].state # "conflict"))
<1>1. co.pc \in RowLabels BY DEF Commands, RowLabels
<1>2. co.err = NoError
  BY <1>1, JobKnows DEF HolderFenced, StepFenced, Failing, Heading, Endings, Commands
<1>3. phase \in {"serving", "closing"}
  <2>1. phase \notin {"down", "recovering"} BY <1>1, ServingPc, LabelsOf DEF RequestLabels
  <2> QED BY <2>1 DEF TypeInv, TypeOK, Phases
<1>4. BaseFenced(co.path) BY <1>1, <1>3, JobKnows DEF Fence, BasesFenced, Fenceable
<1> QED BY <1>2, <1>4 DEF BaseFenced, Shields, Repo, NoError

\* A Git command changes its repository; a merge that it leaves unresolved was there
\* before, or is shielded by what the holder remembers.
LEMMA CommandFenced ==
  ASSUME TypeInv, Serial, Fence, co.pc \in Commands,
         UNCHANGED <<config, phase, pending, broken, queue, gate, journal, status>>,
         NEW r, UpdateRepo(co.path, r) \/ (r = Repo /\ UNCHANGED repo),
         r.merge = "conflict" => Repo.merge = "conflict" \/ Shields(co', co.path),
         co'.pc # "recover", co'.path = co.path, co'.op = co.op,
         HolderFenced(co', Row, r, status[co.path], config[co.path] # NoConfig, co.path \in gate)
  PROVE  Fence'
<1>1. co.pc \in RowLabels /\ co.pc # "stale" BY DEF Commands, RowLabels
<1>2. co.path \in Paths /\ config[co.path] # NoConfig BY <1>1, JobKnows
<1>3. \A q \in Paths : repo'[q] = IF q = co.path THEN r ELSE repo[q]
  BY <1>2 DEF UpdateRepo, Repo, TypeInv, TypeOK
<1>4. ASSUME NEW q, q = co.path PROVE BaseFenced(q)' BY <1>2, <1>3, <1>4, CommandGated DEF BaseFenced
<1>5. Row' = Row /\ Repo' = r BY <1>2, <1>3 DEF Row, Repo
<1>6. Holder' BY <1>5 DEF Holder
<1> QED BY <1>1, <1>2, <1>3, <1>4, <1>6, RowStepFenced

\* What the holder keeps does not depend on its step.
LEMMA OwnerKeeps ==
  ASSUME NEW c, NEW row, NEW configured, NEW gated, OwnerFenced(c, row, configured, gated),
         c.pc \in RowLabels \ {"stale"}, NEW d, d.pc \in JobLabels, d.prev = c.prev, d.cleared = c.cleared,
         NEW row2, row2.kind = row.kind
  PROVE  OwnerFenced(d, row2, configured, gated)
BY DEF OwnerFenced, OfConfigured, RowLabels

\* A failure leaves the worktree, or is on its way to be reported.
LEMMA FailFenced ==
  ASSUME co \in Locals, NEW code, code \notin {NoError, "git_conflict"}, Fail(code),
         co.pc \in RowLabels \ {"stale"}, NEW row, NEW r, NEW s, NEW configured, NEW gated,
         HolderFenced(co, row, r, s, configured, gated)
  PROVE  /\ \A t : HolderFenced(co', row, t, s, configured, gated)
         /\ co'.path = co.path /\ co'.op = co.op /\ co'.pc # "recover"
         /\ Shields(co, co.path) => Shields(co', co.path)
<1>1. /\ co'.pc = IF co.tx THEN "leave" ELSE "failed"
      /\ co'.err = IF co.err = "git_conflict" THEN co.err ELSE code
      /\ co'.path = co.path /\ co'.op = co.op /\ co'.prev = co.prev /\ co'.cleared = co.cleared
      /\ co'.tx = co.tx
  BY DEF Fail, Locals
<1>2. co'.pc \in {"leave", "failed"} /\ co'.pc \in JobLabels /\ Failing(co')
  BY <1>1 DEF RowLabels, JobLabels, Failing, NoError
<1>3. OwnerFenced(co', row, configured, gated) BY <1>1, <1>2, OwnerKeeps DEF HolderFenced
<1>4. ASSUME NEW t PROVE StepFenced(co', row, t, s, gated)
  BY <1>2 DEF StepFenced, Heading, Resumes, Endings, Commands, OriginalSteps
<1> QED BY <1>1, <1>2, <1>3, <1>4 DEF HolderFenced, Shields

\* A checkpoint is to be saved for a step of a job.
LEMMA SavedFenced ==
  ASSUME NEW c, NEW row, NEW configured, NEW gated, OwnerFenced(c, row, configured, gated),
         c.pc \in RowLabels \ {"stale"}, NEW d, d.pc = "journal", d.prev = c.prev, d.cleared = c.cleared,
         d.err = NoError, d.next \in Saved \ {"leave"}, NEW r, NEW s,
         d.ck.stage = "conflict_reindexed" => d.next = "save_conflict_pushing",
         d.next \in {"commit", "merge", "run_merge"} => d.tx /\ d.after \in {"fetch", "push"},
         d.next = "abort_merge" => d.after = "aborted", d.next \in OriginalSteps => Original(row),
         d.next \in {"verify_completion", "commit_merge"} => row.kind = "conflict_complete",
         d.next = "save_conflict_pushing" => row.kind = "conflict_complete" /\ r.merge = "none"
  PROVE  HolderFenced(d, row, r, s, configured, gated)
<1>1. OwnerFenced(d, row, configured, gated) BY OwnerKeeps DEF RowLabels, JobLabels
<1>2. StepFenced(d, row, r, s, gated)
  BY DEF StepFenced, Heading, Failing, Resumes, Saved, Commands, JobLabels, OriginalSteps
<1> QED BY <1>1, <1>2 DEF HolderFenced

\* The last checkpoint before the worktree is left.
LEMMA LeavingFenced ==
  ASSUME NEW c, NEW row, NEW configured, NEW gated, OwnerFenced(c, row, configured, gated),
         c.pc \in RowLabels \ {"stale"}, NEW d, d.pc = "journal", d.prev = c.prev, d.cleared = c.cleared,
         d.next = "leave", row.state = "running", d.ck.stage # "conflict_reindexed", NEW r, NEW s,
         d.err = NoError =>
           /\ d.after \in Followers
           /\ d.after = "sync_index" => row.kind = "conflict_complete" /\ r.merge = "none"
           /\ d.after = "aborted" => r.merge = "none"
           /\ d.after = "fetch" => Original(row)
  PROVE  HolderFenced(d, row, r, s, configured, gated)
<1>1. OwnerFenced(d, row, configured, gated) BY OwnerKeeps DEF RowLabels, JobLabels
<1>2. StepFenced(d, row, r, s, gated)
  BY DEF StepFenced, Heading, Failing, Resumes, Endings, Saved, Commands, OriginalSteps
<1> QED BY <1>1, <1>2 DEF HolderFenced

\* The next step follows without a checkpoint.
LEMMA DirectFenced ==
  ASSUME NEW c, NEW row, NEW configured, NEW gated, OwnerFenced(c, row, configured, gated),
         c.pc \in RowLabels \ {"stale"}, NEW d, d.pc \in Commands, d.prev = c.prev, d.cleared = c.cleared,
         d.err = NoError, row.state = "running", NEW r, NEW s,
         d.ck.stage = "conflict_reindexed" => d.pc = "save_conflict_pushing",
         d.pc \in {"commit", "merge", "run_merge"} => d.tx /\ d.after \in {"fetch", "push"},
         d.pc = "abort_merge" => d.after = "aborted", d.pc \in OriginalSteps => Original(row),
         d.pc \in {"sync_index", "save_conflict_pushing"} => row.kind = "conflict_complete" /\ r.merge = "none",
         d.pc \in {"verify_completion", "commit_merge"} => row.kind = "conflict_complete",
         d.pc \in {"aborted", "abort_status", "abort_journal"} => r.merge = "none",
         d.pc = "abort_journal" => s.state # "conflict"
  PROVE  HolderFenced(d, row, r, s, configured, gated)
<1>1. d.pc \in JobLabels BY DEF Commands
<1>2. OwnerFenced(d, row, configured, gated) BY <1>1, OwnerKeeps
<1>3. StepFenced(d, row, r, s, gated)
  BY DEF StepFenced, Heading, Failing, Resumes, Commands, JobLabels, OriginalSteps
<1> QED BY <1>2, <1>3 DEF HolderFenced

-----------------------------------------------------------------------------
(* The Git commands. *)

\* What a command knows of its job.
LEMMA CommandKnows ==
  ASSUME TypeInv, Serial, Fence, co.pc \in Commands
  PROVE  /\ co.pc \in RowLabels \ {"stale"} /\ co \in Locals /\ Repo \in Repos
         /\ co.err = NoError /\ Row.state = "running"
         /\ co.ck.stage = "conflict_reindexed" => co.pc = "save_conflict_pushing"
         /\ co.pc \in OriginalSteps => Original(Row)
         /\ OwnerFenced(co, Row, config[co.path] # NoConfig, co.path \in gate)
         /\ StepFenced(co, Row, Repo, status[co.path], co.path \in gate)
         /\ HolderFenced(co, Row, Repo, status[co.path], config[co.path] # NoConfig, co.path \in gate)
<1>1. co.pc \in RowLabels \ {"stale"} BY DEF Commands, RowLabels
<1>2. co.err = NoError BY CommandGated
<1>3. HolderFenced(co, Row, Repo, status[co.path], config[co.path] # NoConfig, co.path \in gate)
  BY <1>1, JobKnows
<1>4. /\ Row.state = "running" /\ (co.ck.stage = "conflict_reindexed" => co.pc = "save_conflict_pushing")
      /\ co.pc \in OriginalSteps => Original(Row)
  BY <1>2, <1>3 DEF HolderFenced, StepFenced, Heading, Failing, Endings, Commands
<1> QED BY <1>1, <1>2, <1>3, <1>4, JobKnows DEF HolderFenced

LEMMA FrameKeeps ==
  ASSUME RepoFrame PROVE UNCHANGED <<config, phase, pending, broken, queue, gate, journal, status>>
BY DEF RepoFrame, WorkerFrame, MemoryFrame, process

\* A command that fails, whatever it did to a repository without touching its merge.
LEMMA FailingFenced ==
  ASSUME TypeInv, Serial, Fence, co.pc \in Commands, RepoFrame,
         NEW r, UpdateRepo(co.path, r) \/ (r = Repo /\ UNCHANGED repo),
         r.merge = "conflict" => Repo.merge = "conflict",
         NEW code, code \notin {NoError, "git_conflict"}, Fail(code)
  PROVE  Fence'
BY CommandKnows, FrameKeeps, FailFenced, CommandFenced

\* The codes the commands fail with.
LEMMA PlainCodes ==
  {"git_command_failed", "needs_reconnect", "remote_history_rewritten", "push_rejected",
   "git_recovery_required"} \cap {NoError, "git_conflict"} = {}
BY DEF NoError

LEMMA PreflightFenced == ASSUME TypeInv, Serial, Fence, Preflight PROVE Fence'
<1>1. co.pc = "preflight" /\ co.pc \in Commands /\ RepoFrame /\ UNCHANGED repo
  BY DEF Preflight, Commands, JobLabels, CommandFrame
<1>2. CASE co' = [co EXCEPT !.tx = TRUE, !.err = "git_conflict", !.ck = At("merging"),
                            !.pc = "journal", !.next = "leave"]
  <2>1. /\ co'.pc = "journal" /\ co'.next = "leave" /\ co'.err = "git_conflict" /\ co'.prev = co.prev
        /\ co'.cleared = co.cleared /\ co'.ck.stage = "merging" /\ co'.path = co.path /\ co'.op = co.op
    BY <1>1, <1>2, CommandKnows DEF Locals, At, Checkpoints
  <2>2. HolderFenced(co', Row, Repo, status[co.path], config[co.path] # NoConfig, co.path \in gate)
    BY <1>1, <2>1, CommandKnows, LeavingFenced DEF NoError
  <2> QED BY <1>1, <2>1, <2>2, FrameKeeps, CommandFenced
<1>3. CASE Save(At("fetching"), "fetch")
  <2>1. /\ co'.pc = "journal" /\ co'.next = "fetch" /\ co'.err = NoError /\ co'.prev = co.prev
        /\ co'.cleared = co.cleared /\ co'.ck.stage = "fetching" /\ co'.path = co.path /\ co'.op = co.op
    BY <1>1, <1>3, CommandKnows DEF Save, Locals, At, Checkpoints
  <2>2. HolderFenced(co', Row, Repo, status[co.path], config[co.path] # NoConfig, co.path \in gate)
    BY <1>1, <2>1, CommandKnows, SavedFenced DEF Saved, Commands, JobLabels, OriginalSteps
  <2> QED BY <1>1, <2>1, <2>2, FrameKeeps, CommandFenced
<1>4. CASE Fail(IF ~Repo.origin \/ Repo.managed # Row.remote THEN "needs_reconnect" ELSE "git_command_failed")
  BY <1>1, <1>4, PlainCodes, FailingFenced
<1> QED BY <1>2, <1>3, <1>4 DEF Preflight

LEMMA ProbeFenced == ASSUME TypeInv, Serial, Fence, Probe PROVE Fence'
<1>1. co.pc = "probe" /\ co.pc \in Commands /\ RepoFrame /\ UNCHANGED repo
  BY DEF Probe, Commands, JobLabels, CommandFrame
<1>2. CASE Save(At("probing"), "create_repository")
  <2>1. /\ co'.pc = "journal" /\ co'.next = "create_repository" /\ co'.err = NoError /\ co'.prev = co.prev
        /\ co'.cleared = co.cleared /\ co'.ck.stage = "probing" /\ co'.path = co.path /\ co'.op = co.op
    BY <1>1, <1>2, CommandKnows DEF Save, Locals, At, Checkpoints
  <2>2. HolderFenced(co', Row, Repo, status[co.path], config[co.path] # NoConfig, co.path \in gate)
    BY <1>1, <2>1, CommandKnows, SavedFenced DEF Saved, Commands, JobLabels, OriginalSteps
  <2> QED BY <1>1, <2>1, <2>2, FrameKeeps, CommandFenced
<1>3. CASE Fail(IF Row.remote # 0 /\ Repo.managed # Row.remote
                THEN "remote_history_rewritten" ELSE "git_command_failed")
  BY <1>1, <1>3, PlainCodes, FailingFenced
<1> QED BY <1>2, <1>3 DEF Probe

LEMMA CreateRepositoryFenced == ASSUME TypeInv, Serial, Fence, CreateRepository PROVE Fence'
<1> DEFINE r == [Repo EXCEPT !.origin = TRUE]
<1>1. co.pc = "create_repository" /\ co.pc \in Commands /\ RepoFrame
  BY DEF CreateRepository, Commands, JobLabels, CommandFrame
<1>2. r.merge = Repo.merge BY <1>1, CommandKnows DEF Repos
<1> HIDE DEF r
<1>3. CASE /\ UpdateRepo(co.path, r)
           /\ co' = [co EXCEPT !.tx = TRUE, !.after = "fetch", !.ck = At("snapshotting"),
                               !.pc = "journal", !.next = "commit"]
  <2>1. /\ co'.pc = "journal" /\ co'.next = "commit" /\ co'.err = NoError /\ co'.prev = co.prev
        /\ co'.cleared = co.cleared /\ co'.ck.stage = "snapshotting" /\ co'.path = co.path
        /\ co'.op = co.op /\ co'.tx /\ co'.after = "fetch"
    BY <1>1, <1>3, CommandKnows DEF Locals, At, Checkpoints
  <2>2. HolderFenced(co', Row, r, status[co.path], config[co.path] # NoConfig, co.path \in gate)
    BY <1>1, <2>1, CommandKnows, SavedFenced DEF Saved, Commands, JobLabels, OriginalSteps
  <2> QED BY <1>1, <1>2, <1>3, <2>1, <2>2, FrameKeeps, CommandFenced
<1>4. CASE FailsWith("git_command_failed", UpdateRepo(co.path, r), UNCHANGED repo)
  BY <1>1, <1>2, <1>4, PlainCodes, FailingFenced DEF FailsWith
<1> QED BY <1>3, <1>4 DEF CreateRepository, r

LEMMA FetchFenced == ASSUME TypeInv, Serial, Fence, Fetch PROVE Fence'
<1> DEFINE head == server[co.path]
           r == [Repo EXCEPT !.private = {ref \in @ : ref[1] # co.op} \cup {<<co.op, head>>}]
           ck == [At("fetching") EXCEPT !.candidate = head]
<1>1. co.pc = "fetch" /\ co.pc \in Commands /\ RepoFrame
  BY DEF Fetch, Commands, JobLabels, CommandFrame
<1>2. r.merge = Repo.merge BY <1>1, CommandKnows DEF Repos
<1>3. ck.stage = "fetching" BY <1>1, CommandKnows DEF Locals, At, Checkpoints
<1>4. \/ UpdateRepo(co.path, r) /\ Save(ck, "trust")
      \/ FailsWith("git_command_failed", UpdateRepo(co.path, r), UNCHANGED repo)
  BY DEF Fetch
<1> HIDE DEF r, ck
<1>5. CASE UpdateRepo(co.path, r) /\ Save(ck, "trust")
  <2>1. /\ co'.pc = "journal" /\ co'.next = "trust" /\ co'.err = NoError /\ co'.prev = co.prev
        /\ co'.cleared = co.cleared /\ co'.ck = ck /\ co'.path = co.path /\ co'.op = co.op
    BY <1>1, <1>5, CommandKnows DEF Save, Locals
  <2>2. HolderFenced(co', Row, r, status[co.path], config[co.path] # NoConfig, co.path \in gate)
    BY <1>1, <1>3, <2>1, CommandKnows, SavedFenced DEF Saved, Commands, JobLabels, OriginalSteps
  <2> QED BY <1>1, <1>2, <1>5, <2>1, <2>2, FrameKeeps, CommandFenced
<1>6. CASE FailsWith("git_command_failed", UpdateRepo(co.path, r), UNCHANGED repo)
  BY <1>1, <1>2, <1>6, PlainCodes, FailingFenced DEF FailsWith
<1> QED BY <1>4, <1>5, <1>6

LEMMA TrustFenced == ASSUME TypeInv, Serial, Fence, Trust PROVE Fence'
<1> DEFINE r == [Repo EXCEPT !.managed = co.ck.candidate]
           ck == [At("fetching") EXCEPT !.remote = co.ck.candidate]
           label == IF Kind = "sync" THEN "open_snapshot" ELSE "merge"
<1>1. co.pc = "trust" /\ co.pc \in Commands /\ RepoFrame
  BY DEF Trust, Commands, JobLabels
<1>2. r.merge = Repo.merge BY <1>1, CommandKnows DEF Repos
<1>3. ck.stage = "fetching" BY <1>1, CommandKnows DEF Locals, At, Checkpoints
<1>4. \/ /\ UpdateRepo(co.path, r)
         /\ co' = [co EXCEPT !.ck = ck, !.tx = Kind = "initialize", !.after = "push",
                             !.pc = "journal", !.next = label]
      \/ Fail("git_command_failed") /\ (UNCHANGED repo \/ UpdateRepo(co.path, r))
  BY DEF Trust, NotMoved
<1> HIDE DEF r, ck
<1>5. CASE /\ UpdateRepo(co.path, r)
           /\ co' = [co EXCEPT !.ck = ck, !.tx = Kind = "initialize", !.after = "push",
                               !.pc = "journal", !.next = label]
  <2>1. /\ co'.pc = "journal" /\ co'.next = label /\ co'.err = NoError /\ co'.prev = co.prev
        /\ co'.cleared = co.cleared /\ co'.ck = ck /\ co'.path = co.path /\ co'.op = co.op
        /\ co'.after = "push" /\ co'.tx = (Kind = "initialize")
    BY <1>1, <1>5, CommandKnows DEF Locals
  <2>2. Original(Row) BY <1>1, CommandKnows DEF OriginalSteps
  <2>3. HolderFenced(co', Row, r, status[co.path], config[co.path] # NoConfig, co.path \in gate)
    BY <1>1, <1>3, <2>1, <2>2, CommandKnows, SavedFenced
    DEF Saved, Commands, JobLabels, OriginalSteps, Original, Kind
  <2> QED BY <1>1, <1>2, <1>5, <2>1, <2>3, FrameKeeps, CommandFenced
<1>6. CASE Fail("git_command_failed") /\ (UNCHANGED repo \/ UpdateRepo(co.path, r))
  BY <1>1, <1>2, <1>6, PlainCodes, FailingFenced
<1> QED BY <1>4, <1>5, <1>6

LEMMA OpenSnapshotFenced == ASSUME TypeInv, Serial, Fence, OpenSnapshot PROVE Fence'
<1>1. co.pc = "open_snapshot" /\ co.pc \in Commands /\ RepoFrame /\ UNCHANGED repo
  BY DEF OpenSnapshot, Commands, JobLabels, CommandFrame
<1>2. co' = [co EXCEPT !.tx = TRUE, !.after = "push", !.res = [remote |-> co.ck.candidate, push |-> 0],
                       !.ck = [At("snapshotting") EXCEPT !.local = Keep(@, Repo.head)],
                       !.pc = "journal", !.next = "commit"]
  BY DEF OpenSnapshot
<1>3. /\ co'.pc = "journal" /\ co'.next = "commit" /\ co'.err = NoError /\ co'.prev = co.prev
      /\ co'.cleared = co.cleared /\ co'.ck.stage = "snapshotting" /\ co'.path = co.path
      /\ co'.op = co.op /\ co'.tx /\ co'.after = "push"
  BY <1>1, <1>2, CommandKnows DEF Locals, At, Checkpoints
<1>4. Original(Row) BY <1>1, CommandKnows DEF OriginalSteps
<1>5. HolderFenced(co', Row, Repo, status[co.path], config[co.path] # NoConfig, co.path \in gate)
  BY <1>1, <1>3, <1>4, CommandKnows, SavedFenced DEF Saved, Commands, JobLabels
<1> QED BY <1>1, <1>3, <1>5, FrameKeeps, CommandFenced

\* A commit leaves the merge of its repository as it is.
LEMMA NewCommitMerge ==
  ASSUME NEW r \in Repos, NEW history
  PROVE  NewCommit(r, history).merge = r.merge
BY DEF NewCommit, Repos

LEMMA CommitFenced == ASSUME TypeInv, Serial, Fence, Commit PROVE Fence'
<1> DEFINE after == IF Repo.dirty THEN [NewCommit(Repo, Repo.history) EXCEPT !.dirty = FALSE] ELSE Repo
           ck == [At("snapshotting") EXCEPT !.local = after.head]
<1>1. co.pc = "commit" /\ co.pc \in Commands /\ RepoFrame
  BY DEF Commit, Commands, JobLabels, CommandFrame
<1>2. after.merge = Repo.merge
  BY <1>1, CommandKnows, NewCommitMerge DEF NewCommit, Repos
<1>3. ck.stage = "snapshotting" BY <1>1, CommandKnows DEF Locals, At, Checkpoints
<1>4. \/ /\ UpdateRepo(co.path, after)
         /\ \/ co' = [co EXCEPT !.ck.local = after.head, !.pc = "merge"]
            \/ co' = [co EXCEPT !.ck = ck, !.pc = "journal", !.next = "leave"]
      \/ FailsWith("git_command_failed", UpdateRepo(co.path, after), UNCHANGED repo)
  BY DEF Commit
<1>0. /\ co.tx /\ co.after \in {"fetch", "push"} /\ Original(Row)
      /\ co.ck.stage # "conflict_reindexed"
  BY <1>1, CommandKnows DEF StepFenced, Heading, OriginalSteps
<1> HIDE DEF after, ck
<1>5. CASE UpdateRepo(co.path, after) /\ co' = [co EXCEPT !.ck.local = after.head, !.pc = "merge"]
  <2>1. /\ co'.pc = "merge" /\ co'.err = NoError /\ co'.prev = co.prev /\ co'.cleared = co.cleared
        /\ co'.ck.stage = co.ck.stage /\ co'.path = co.path /\ co'.op = co.op
        /\ co'.tx = co.tx /\ co'.after = co.after
    BY <1>1, <1>5, CommandKnows DEF Locals, Checkpoints
  <2>2. HolderFenced(co', Row, after, status[co.path], config[co.path] # NoConfig, co.path \in gate)
    BY <1>0, <1>1, <2>1, CommandKnows, DirectFenced DEF Commands, JobLabels
  <2> QED BY <1>1, <1>2, <1>5, <2>1, <2>2, FrameKeeps, CommandFenced
<1>6. CASE UpdateRepo(co.path, after) /\ co' = [co EXCEPT !.ck = ck, !.pc = "journal", !.next = "leave"]
  <2>1. /\ co'.pc = "journal" /\ co'.next = "leave" /\ co'.err = NoError /\ co'.prev = co.prev
        /\ co'.cleared = co.cleared /\ co'.ck = ck /\ co'.path = co.path /\ co'.op = co.op
        /\ co'.after = co.after
    BY <1>1, <1>6, CommandKnows DEF Locals
  <2>2. HolderFenced(co', Row, after, status[co.path], config[co.path] # NoConfig, co.path \in gate)
    BY <1>0, <1>1, <1>3, <2>1, CommandKnows, LeavingFenced DEF Followers
  <2> QED BY <1>1, <1>2, <1>6, <2>1, <2>2, FrameKeeps, CommandFenced
<1>7. CASE FailsWith("git_command_failed", UpdateRepo(co.path, after), UNCHANGED repo)
  BY <1>1, <1>2, <1>7, PlainCodes, FailingFenced DEF FailsWith
<1> QED BY <1>4, <1>5, <1>6, <1>7

\* A merge that is there, or just made, is journalled as the end of the worktree.
LEMMA SaveMergedFenced ==
  ASSUME TypeInv, Serial, Fence, co.pc \in {"merge", "run_merge"}, NEW head, SaveMerged(head), NEW r
  PROVE  /\ HolderFenced(co', Row, r, status[co.path], config[co.path] # NoConfig, co.path \in gate)
         /\ co'.path = co.path /\ co'.op = co.op /\ co'.pc # "recover"
<1>1. co.pc \in Commands BY DEF Commands, JobLabels
<1>2. /\ co'.pc = "journal" /\ co'.next = "leave" /\ co'.err = NoError /\ co'.prev = co.prev
      /\ co'.cleared = co.cleared /\ co'.ck.stage = "reindexing" /\ co'.path = co.path
      /\ co'.op = co.op /\ co'.after = co.after
  BY <1>1, CommandKnows DEF SaveMerged, Locals, At, Checkpoints
<1>3. co.after \in {"fetch", "push"} /\ Original(Row)
  BY <1>1, CommandKnows DEF StepFenced, Heading, OriginalSteps
<1>4. HolderFenced(co', Row, r, status[co.path], config[co.path] # NoConfig, co.path \in gate)
  BY <1>1, <1>2, <1>3, CommandKnows, LeavingFenced DEF Followers
<1> QED BY <1>2, <1>4

LEMMA MergeNeededFenced == ASSUME TypeInv, Serial, Fence, MergeNeeded PROVE Fence'
<1>1. co.pc = "merge" /\ co.pc \in Commands /\ RepoFrame /\ UNCHANGED repo
  BY DEF MergeNeeded, Commands, JobLabels, CommandFrame
<1>2. CASE SaveMerged(Repo.head)
  BY <1>1, <1>2, SaveMergedFenced, FrameKeeps, CommandFenced
<1>3. CASE Save(At("merging"), "run_merge")
  <2>1. /\ co'.pc = "journal" /\ co'.next = "run_merge" /\ co'.err = NoError /\ co'.prev = co.prev
        /\ co'.cleared = co.cleared /\ co'.ck.stage = "merging" /\ co'.path = co.path /\ co'.op = co.op
        /\ co'.tx = co.tx /\ co'.after = co.after
    BY <1>1, <1>3, CommandKnows DEF Save, Locals, At, Checkpoints
  <2>2. co.tx /\ co.after \in {"fetch", "push"} /\ Original(Row)
    BY <1>1, CommandKnows DEF StepFenced, Heading, OriginalSteps
  <2>3. HolderFenced(co', Row, Repo, status[co.path], config[co.path] # NoConfig, co.path \in gate)
    BY <1>1, <2>1, <2>2, CommandKnows, SavedFenced DEF Saved, Commands, JobLabels
  <2> QED BY <1>1, <2>1, <2>3, FrameKeeps, CommandFenced
<1> QED BY <1>2, <1>3 DEF MergeNeeded

\* The merge that stops is the one step that leaves conflicts: its holder has the
\* worktree, and keeps the error that will close the gate.
LEMMA RunMergeFenced == ASSUME TypeInv, Serial, Fence, RunMerge PROVE Fence'
<1> DEFINE r(merge) == [Repo EXCEPT !.merge = merge, !.mergeHead = co.ck.candidate]
<1>1. co.pc = "run_merge" /\ co.pc \in Commands /\ RepoFrame
  BY DEF RunMerge, Commands, JobLabels
<1>2. MergeResult.merge = Repo.merge
  BY <1>1, CommandKnows, NewCommitMerge DEF MergeResult, Repos
<1>3. /\ co.tx /\ co.after \in {"fetch", "push"} /\ Original(Row)
      /\ co.ck.stage # "conflict_reindexed"
  BY <1>1, CommandKnows DEF StepFenced, Heading, OriginalSteps
<1>4. ASSUME SaveConflict, NEW new
      PROVE  /\ HolderFenced(co', Row, new, status[co.path], config[co.path] # NoConfig, co.path \in gate)
             /\ co'.path = co.path /\ co'.op = co.op /\ co'.pc # "recover" /\ Shields(co', co.path)
  <2>1. /\ co'.pc = "journal" /\ co'.next = "leave" /\ co'.err = "git_conflict" /\ co'.prev = co.prev
        /\ co'.cleared = co.cleared /\ co'.ck = co.ck /\ co'.path = co.path /\ co'.op = co.op
        /\ co'.tx = co.tx
    BY <1>1, <1>4, CommandKnows DEF SaveConflict, Locals
  <2>2. HolderFenced(co', Row, new, status[co.path], config[co.path] # NoConfig, co.path \in gate)
    BY <1>1, <1>3, <2>1, CommandKnows, LeavingFenced DEF NoError
  <2> QED BY <1>3, <2>1, <2>2 DEF Shields
<1>5. CASE UpdateRepo(co.path, MergeResult) /\ SaveMerged(MergeResult.head)
  BY <1>1, <1>2, <1>5, SaveMergedFenced, FrameKeeps, CommandFenced
<1>6. ASSUME NEW merge \in {"conflict", "resolved"}, UpdateRepo(co.path, r(merge)), SaveConflict PROVE Fence'
  <2> HIDE DEF r
  <2> QED BY <1>1, <1>4, <1>6, FrameKeeps, CommandFenced
<1>7. CASE UpdateRepo(co.path, r("resolved")) /\ Fail("git_command_failed")
  <2>1. r("resolved").merge = "resolved" BY <1>1, CommandKnows DEF Repos
  <2> HIDE DEF r
  <2> QED BY <1>1, <1>7, <2>1, PlainCodes, FailingFenced
<1>8. CASE (UpdateRepo(co.path, MergeResult) \/ UNCHANGED repo) /\ SaveConflict
  BY <1>1, <1>2, <1>4, <1>8, FrameKeeps, CommandFenced
<1>9. CASE (UpdateRepo(co.path, MergeResult) \/ UNCHANGED repo) /\ Fail("git_command_failed")
  BY <1>1, <1>2, <1>9, PlainCodes, FailingFenced
<1> QED BY <1>5, <1>6, <1>7, <1>8, <1>9 DEF RunMerge, Stopped

LEMMA PushFenced == ASSUME TypeInv, Serial, Fence, Push PROVE Fence'
<1>1. /\ co.pc = "push" /\ co.pc \in Commands /\ UNCHANGED repo
      /\ UNCHANGED <<config, phase, pending, broken, queue, gate, journal, status>>
  BY DEF Push, Commands, JobLabels, MemoryFrame, process
<1>2. CASE Goto("settle")
  <2>1. /\ co'.pc = "settle" /\ co'.err = NoError /\ co'.prev = co.prev /\ co'.cleared = co.cleared
        /\ co'.ck = co.ck /\ co'.path = co.path /\ co'.op = co.op
    BY <1>1, <1>2, CommandKnows DEF Goto, Locals
  <2>2. HolderFenced(co', Row, Repo, status[co.path], config[co.path] # NoConfig, co.path \in gate)
    BY <1>1, <2>1, CommandKnows, DirectFenced DEF Commands, JobLabels, OriginalSteps
  <2> QED BY <1>1, <2>1, <2>2, CommandFenced
<1>3. CASE Kind = "sync" /\ Retry
  <2>1. /\ co'.pc = "journal" /\ co'.next = "fetch" /\ co'.err = NoError /\ co'.prev = co.prev
        /\ co'.cleared = co.cleared /\ co'.ck.stage = "fetching" /\ co'.path = co.path /\ co'.op = co.op
    BY <1>1, <1>3, CommandKnows DEF Retry, Locals, At, Checkpoints
  <2>2. HolderFenced(co', Row, Repo, status[co.path], config[co.path] # NoConfig, co.path \in gate)
    BY <1>1, <1>3, <2>1, CommandKnows, SavedFenced DEF Saved, Commands, JobLabels, Original, Kind
  <2> QED BY <1>1, <2>1, <2>2, CommandFenced
<1>4. ASSUME NEW code \in {"git_command_failed", "push_rejected"}, Fail(code) PROVE Fence'
  BY <1>1, <1>4, PlainCodes, CommandKnows, FailFenced, CommandFenced
<1> QED BY <1>2, <1>3, <1>4 DEF Push, FailsWith

LEMMA SettleFenced == ASSUME TypeInv, Serial, Fence, Settle PROVE Fence'
<1> DEFINE r == [Repo EXCEPT !.managed = co.ck.push]
<1>1. co.pc = "settle" /\ co.pc \in Commands /\ RepoFrame BY DEF Settle, Commands, JobLabels
<1>2. r.merge = Repo.merge BY <1>1, CommandKnows DEF Repos
<1>3. SettledCheckpoint.stage = "completed"
  BY <1>1, CommandKnows DEF SettledCheckpoint, Locals, At, Checkpoints
<1>4. \/ /\ UpdateRepo(co.path, r)
         /\ \/ co' = [co EXCEPT !.ck = SettledCheckpoint, !.tx = TRUE, !.after = "succeed_journal",
                                !.pc = "journal", !.next = "leave"]
            \/ Save(SettledCheckpoint, "succeed_journal")
      \/ Fail("git_command_failed") /\ (UNCHANGED repo \/ UpdateRepo(co.path, r))
  BY DEF Settle, NotMoved, FailsWith
<1> HIDE DEF r
<1>5. CASE /\ UpdateRepo(co.path, r)
           /\ co' = [co EXCEPT !.ck = SettledCheckpoint, !.tx = TRUE, !.after = "succeed_journal",
                               !.pc = "journal", !.next = "leave"]
  <2>1. /\ co'.pc = "journal" /\ co'.next = "leave" /\ co'.err = NoError /\ co'.prev = co.prev
        /\ co'.cleared = co.cleared /\ co'.ck = SettledCheckpoint /\ co'.path = co.path
        /\ co'.op = co.op /\ co'.after = "succeed_journal"
    BY <1>1, <1>5, CommandKnows DEF Locals
  <2>2. HolderFenced(co', Row, r, status[co.path], config[co.path] # NoConfig, co.path \in gate)
    BY <1>1, <1>3, <2>1, CommandKnows, LeavingFenced DEF Followers
  <2> QED BY <1>1, <1>2, <1>5, <2>1, <2>2, FrameKeeps, CommandFenced
<1>6. CASE UpdateRepo(co.path, r) /\ Save(SettledCheckpoint, "succeed_journal")
  <2>1. /\ co'.pc = "journal" /\ co'.next = "succeed_journal" /\ co'.err = NoError /\ co'.prev = co.prev
        /\ co'.cleared = co.cleared /\ co'.ck = SettledCheckpoint /\ co'.path = co.path /\ co'.op = co.op
    BY <1>1, <1>6, CommandKnows DEF Save, Locals
  <2>2. HolderFenced(co', Row, r, status[co.path], config[co.path] # NoConfig, co.path \in gate)
    BY <1>1, <1>3, <2>1, CommandKnows, SavedFenced DEF Saved, Commands, JobLabels, OriginalSteps
  <2> QED BY <1>1, <1>2, <1>6, <2>1, <2>2, FrameKeeps, CommandFenced
<1>7. CASE Fail("git_command_failed") /\ (UNCHANGED repo \/ UpdateRepo(co.path, r))
  BY <1>1, <1>2, <1>7, PlainCodes, FailingFenced
<1> QED BY <1>4, <1>5, <1>6, <1>7

-----------------------------------------------------------------------------
(* The commands that settle a conflict. *)

LEMMA VerifyCompletionFenced == ASSUME TypeInv, Serial, Fence, VerifyCompletion PROVE Fence'
<1>1. co.pc = "verify_completion" /\ co.pc \in Commands /\ RepoFrame /\ UNCHANGED repo
  BY DEF VerifyCompletion, Commands, JobLabels, CommandFrame
<1>0. Row.kind = "conflict_complete" BY <1>1, CommandKnows DEF StepFenced, Heading
<1>2. CASE Save(At("conflict_completing"), "commit_merge")
  <2>1. /\ co'.pc = "journal" /\ co'.next = "commit_merge" /\ co'.err = NoError /\ co'.prev = co.prev
        /\ co'.cleared = co.cleared /\ co'.ck.stage = "conflict_completing" /\ co'.path = co.path
        /\ co'.op = co.op
    BY <1>1, <1>2, CommandKnows DEF Save, Locals, At, Checkpoints
  <2>2. HolderFenced(co', Row, Repo, status[co.path], config[co.path] # NoConfig, co.path \in gate)
    BY <1>0, <1>1, <2>1, CommandKnows, SavedFenced DEF Saved, Commands, JobLabels, OriginalSteps
  <2> QED BY <1>1, <2>1, <2>2, FrameKeeps, CommandFenced
<1>3. CASE Fail("git_recovery_required") BY <1>1, <1>3, PlainCodes, FailingFenced
<1> QED BY <1>2, <1>3 DEF VerifyCompletion

\* The merge is committed: from here to the push the worktree has none.
LEMMA CommitMergeFenced == ASSUME TypeInv, Serial, Fence, CommitMerge PROVE Fence'
<1> DEFINE after == [NewCommit(Repo, Repo.history \cup CandidateHistory)
                       EXCEPT !.merge = "none", !.mergeHead = 0]
           ck == [At("conflict_committed") EXCEPT !.push = after.head]
<1>1. co.pc = "commit_merge" /\ co.pc \in Commands /\ RepoFrame
  BY DEF CommitMerge, Commands, JobLabels, CommandFrame
<1>2. after.merge = "none" BY <1>1, CommandKnows DEF NewCommit, Repos
<1>3. ck.stage = "conflict_committed" BY <1>1, CommandKnows DEF Locals, At, Checkpoints
<1>4. \/ /\ UpdateRepo(co.path, after)
         /\ co' = [co EXCEPT !.ck = ck, !.tx = TRUE, !.after = "sync_index", !.pc = "journal", !.next = "leave"]
      \/ FailsWith("git_recovery_required", UpdateRepo(co.path, after), UNCHANGED repo)
  BY DEF CommitMerge
<1>5. Row.kind = "conflict_complete"
  BY <1>1, CommandKnows DEF StepFenced, Heading
<1> HIDE DEF after, ck
<1>6. CASE /\ UpdateRepo(co.path, after)
           /\ co' = [co EXCEPT !.ck = ck, !.tx = TRUE, !.after = "sync_index", !.pc = "journal", !.next = "leave"]
  <2>1. /\ co'.pc = "journal" /\ co'.next = "leave" /\ co'.err = NoError /\ co'.prev = co.prev
        /\ co'.cleared = co.cleared /\ co'.ck = ck /\ co'.path = co.path /\ co'.op = co.op
        /\ co'.after = "sync_index"
    BY <1>1, <1>6, CommandKnows DEF Locals
  <2>2. HolderFenced(co', Row, after, status[co.path], config[co.path] # NoConfig, co.path \in gate)
    BY <1>1, <1>2, <1>3, <1>5, <2>1, CommandKnows, LeavingFenced DEF Followers
  <2> QED BY <1>1, <1>2, <1>6, <2>1, <2>2, FrameKeeps, CommandFenced
<1>7. CASE FailsWith("git_recovery_required", UpdateRepo(co.path, after), UNCHANGED repo)
  BY <1>1, <1>2, <1>7, PlainCodes, FailingFenced DEF FailsWith
<1> QED BY <1>4, <1>6, <1>7

LEMMA SyncIndexFenced == ASSUME TypeInv, Serial, Fence, SyncIndex \/ SaveConflictPushing PROVE Fence'
<1>1. /\ co.pc \in {"sync_index", "save_conflict_pushing"} /\ co.pc \in Commands
      /\ RepoFrame /\ UNCHANGED repo
  BY DEF SyncIndex, SaveConflictPushing, Commands, JobLabels, CommandFrame
<1>2. Row.kind = "conflict_complete" /\ Repo.merge = "none"
  BY <1>1, CommandKnows DEF StepFenced, Heading
<1>3. CASE Save(At("conflict_reindexed"), "save_conflict_pushing")
  <2>1. /\ co'.pc = "journal" /\ co'.next = "save_conflict_pushing" /\ co'.err = NoError
        /\ co'.prev = co.prev /\ co'.cleared = co.cleared /\ co'.path = co.path /\ co'.op = co.op
    BY <1>1, <1>3, CommandKnows DEF Save, Locals
  <2>2. HolderFenced(co', Row, Repo, status[co.path], config[co.path] # NoConfig, co.path \in gate)
    BY <1>1, <1>2, <2>1, CommandKnows, SavedFenced DEF Saved, Commands, JobLabels, OriginalSteps
  <2> QED BY <1>1, <2>1, <2>2, FrameKeeps, CommandFenced
<1>4. CASE Save(At("conflict_pushing"), "push")
  <2>1. /\ co'.pc = "journal" /\ co'.next = "push" /\ co'.err = NoError
        /\ co'.prev = co.prev /\ co'.cleared = co.cleared /\ co'.ck.stage = "conflict_pushing"
        /\ co'.path = co.path /\ co'.op = co.op
    BY <1>1, <1>4, CommandKnows DEF Save, Locals, At, Checkpoints
  <2>2. HolderFenced(co', Row, Repo, status[co.path], config[co.path] # NoConfig, co.path \in gate)
    BY <1>1, <2>1, CommandKnows, SavedFenced DEF Saved, Commands, JobLabels, OriginalSteps
  <2> QED BY <1>1, <2>1, <2>2, FrameKeeps, CommandFenced
<1>5. CASE Fail("git_command_failed") BY <1>1, <1>5, PlainCodes, FailingFenced
<1> QED BY <1>3, <1>4, <1>5 DEF SyncIndex, SaveConflictPushing

LEMMA VerifyAbortFenced == ASSUME TypeInv, Serial, Fence, VerifyAbort PROVE Fence'
<1>1. co.pc = "verify_abort" /\ co.pc \in Commands /\ RepoFrame /\ UNCHANGED repo
  BY DEF VerifyAbort, Commands, JobLabels, CommandFrame
<1>2. CASE co' = [co EXCEPT !.tx = TRUE, !.after = "aborted", !.ck = At("conflict_aborting"),
                            !.pc = "journal", !.next = "abort_merge"]
  <2>1. /\ co'.pc = "journal" /\ co'.next = "abort_merge" /\ co'.err = NoError /\ co'.prev = co.prev
        /\ co'.cleared = co.cleared /\ co'.ck.stage = "conflict_aborting" /\ co'.path = co.path
        /\ co'.op = co.op /\ co'.after = "aborted"
    BY <1>1, <1>2, CommandKnows DEF Locals, At, Checkpoints
  <2>2. HolderFenced(co', Row, Repo, status[co.path], config[co.path] # NoConfig, co.path \in gate)
    BY <1>1, <2>1, CommandKnows, SavedFenced DEF Saved, Commands, JobLabels, OriginalSteps
  <2> QED BY <1>1, <2>1, <2>2, FrameKeeps, CommandFenced
<1>3. CASE Fail("git_recovery_required") BY <1>1, <1>3, PlainCodes, FailingFenced
<1> QED BY <1>2, <1>3 DEF VerifyAbort

\* The merge is undone: the job leaves the worktree to report an abort.
LEMMA AbortMergeFenced == ASSUME TypeInv, Serial, Fence, AbortMerge PROVE Fence'
<1> DEFINE r == [Repo EXCEPT !.merge = "none", !.mergeHead = 0]
<1>1. co.pc = "abort_merge" /\ co.pc \in Commands /\ RepoFrame
  BY DEF AbortMerge, Commands, JobLabels, CommandFrame
<1>2. r.merge = "none" BY <1>1, CommandKnows DEF Repos
<1>3. \/ UpdateRepo(co.path, r) /\ Goto("leave")
      \/ FailsWith("git_recovery_required", UpdateRepo(co.path, r), UNCHANGED repo)
  BY DEF AbortMerge
<1> HIDE DEF r
<1>4. CASE UpdateRepo(co.path, r) /\ Goto("leave")
  <2>1. /\ co'.pc = "leave" /\ co'.err = NoError /\ co'.prev = co.prev /\ co'.cleared = co.cleared
        /\ co'.ck = co.ck /\ co'.path = co.path /\ co'.op = co.op /\ co'.after = co.after
    BY <1>1, <1>4, CommandKnows DEF Goto, Locals
  <2>2. co.after = "aborted" /\ co.ck.stage # "conflict_reindexed"
    BY <1>1, CommandKnows DEF StepFenced, Heading
  <2>3. OwnerFenced(co', Row, config[co.path] # NoConfig, co.path \in gate)
    BY <1>1, <2>1, CommandKnows, OwnerKeeps DEF RowLabels, JobLabels
  <2>4. StepFenced(co', Row, r, status[co.path], co.path \in gate)
    BY <1>1, <1>2, <2>1, <2>2, CommandKnows
    DEF StepFenced, Heading, Failing, Resumes, Followers, Commands, OriginalSteps
  <2>5. HolderFenced(co', Row, r, status[co.path], config[co.path] # NoConfig, co.path \in gate)
    BY <2>3, <2>4 DEF HolderFenced
  <2> QED BY <1>1, <1>2, <1>4, <2>1, <2>5, FrameKeeps, CommandFenced
<1>5. CASE FailsWith("git_recovery_required", UpdateRepo(co.path, r), UNCHANGED repo)
  BY <1>1, <1>2, <1>5, PlainCodes, FailingFenced DEF FailsWith
<1> QED BY <1>3, <1>4, <1>5

-----------------------------------------------------------------------------
(* The writes of a job to the journal, the status and the gate. *)

\* A process with a job serves or closes, so that the base of the job is fenced.
LEMMA JobBase ==
  ASSUME TypeInv, Serial, Fence, co.pc \in RowLabels
  PROVE  BaseFenced(co.path)
<1>1. phase \in {"serving", "closing"}
  <2>1. phase \notin {"down", "recovering"} BY ServingPc, LabelsOf DEF RequestLabels
  <2> QED BY <2>1 DEF TypeInv, TypeOK, Phases
<1> QED BY <1>1, JobKnows DEF Fence, BasesFenced, Fenceable

\* A released coordinator has nothing to keep.
LEMMA IdleFenced ==
  ASSUME NEW row, NEW r, NEW s, NEW configured, NEW gated
  PROVE  HolderFenced(Idle, row, r, s, configured, gated)
<1>1. OwnerFenced(Idle, row, configured, gated)
  BY DEF OwnerFenced, Idle, NoStatus, OfConfigured, RowLabels, JobLabels, AdmissionLabels
<1>2. StepFenced(Idle, row, r, s, gated)
  BY DEF StepFenced, Idle, Heading, Failing, Resumes, Commands, JobLabels, OriginalSteps
<1> QED BY <1>1, <1>2 DEF HolderFenced

LEMMA RowWritten ==
  ASSUME TypeInv, NEW p \in Paths, NEW i \in Op(p), NEW row, WriteRow(p, i, row)
  PROVE  journal'[p][i] = row
<1>1. journal[p] \in Seq(Rows) BY DEF TypeInv, TypeOK
<1> QED BY <1>1 DEF WriteRow, Op, TypeInv, TypeOK

\* What a status becomes keeps the state it is given, or is a pause.
LEMMA AppliedState ==
  ASSUME TypeInv, NEW p \in Paths, NEW s \in Statuses, NEW action, applyStatus(p, s, action)
  PROVE  /\ status'[p].state \in {s.state, "paused"} /\ (action # "increment" => status'[p].state = s.state)
         /\ \A q \in Paths : q # p => status'[q] = status[q]
<1>1. status'[p] = ApplyTransition(status[p], s, action) /\ \A q \in Paths : q # p => status'[q] = status[q]
  BY DEF applyStatus, TypeInv, TypeOK
<1>2. ApplyTransition(status[p], s, action).state = NextState(s.state, status[p].failures, action)
  BY DEF ApplyTransition, Statuses
<1> QED BY <1>1, <1>2 DEF NextState

\* A job that ends.
LEMMA ReleaseFenced ==
  ASSUME TypeInv, Serial, Fence, co.pc \in RowLabels, NEW p, p = co.path, Release,
         UNCHANGED <<config, phase, pending, broken, queue>>,
         \A q \in Paths : q # p => repo'[q] = repo[q] /\ status'[q] = status[q] /\ (q \in gate <=> q \in gate'),
         UNCHANGED <<repo, status>> \/ config[p] # NoConfig,
         UNCHANGED journal \/ \E row : WriteRow(p, co.op, row),
         p \in gate' \/ (repo'[p].merge # "conflict" /\ status'[p].state # "conflict")
  PROVE  Fence'
<1>1. Holder' BY IdleFenced DEF Holder, Release
<1>2. co'.pc # "recover" BY DEF Release, Idle
<1>3. BaseFenced(p)' BY DEF BaseFenced
<1> QED BY <1>1, <1>2, <1>3, RowStepFenced

LEMMA FinishStaleFenced == ASSUME TypeInv, Serial, Fence, FinishStale \/ Abandon PROVE Fence'
<1>1. /\ co.pc \in {"stale", "journal"} /\ co.pc \in RowLabels /\ Release
      /\ UNCHANGED <<config, phase, pending, broken, queue, status, repo, gate>>
      /\ UNCHANGED journal \/ \E row : WriteRow(co.path, co.op, row)
      /\ co.pc = "journal" => Row.state = "queued"
  BY DEF FinishStale, Abandon, RowLabels, JobLabels, WorkerFrame, process, durable, memory
<1>2. ~Failing(co)
  <2>1. StepFenced(co, Row, Repo, status[co.path], co.path \in gate) BY <1>1, JobKnows DEF HolderFenced
  <2>2. CASE co.pc = "stale" BY <2>1, <2>2 DEF StepFenced, Heading, Endings
  <2>3. CASE co.pc = "journal"
    <3>1. co.next \in Saved /\ co.next # "leave" BY <1>1, <2>1, <2>3 DEF StepFenced
    <3>2. Heading(co) = co.next /\ (Failing(co) => Heading(co) \in Endings)
      BY <2>1, <2>3 DEF StepFenced, Heading
    <3> QED BY <3>1, <3>2 DEF Saved, Commands, Endings
  <2> QED BY <1>1, <2>2, <2>3
<1>3. co.path \in gate' \/ (repo'[co.path].merge # "conflict" /\ status'[co.path].state # "conflict")
  BY <1>1, <1>2, JobBase DEF BaseFenced, Shields, Failing, NoError
<1> QED BY <1>1, <1>3, ReleaseFenced

LEMMA CheckpointFenced == ASSUME TypeInv, Serial, Fence, Checkpoint PROVE Fence'
<1> DEFINE p == co.path
           conf == config[p] # NoConfig
<1>1. /\ co.pc = "journal" /\ co.pc \in RowLabels \ {"stale"}
      /\ UNCHANGED <<config, phase, pending, broken, queue, status, repo, gate>>
  BY DEF Checkpoint, RowLabels, JobLabels, WorkerFrame, MemoryFrame, process
<1>2. /\ co \in Locals /\ p \in Paths /\ co.op \in Op(p) /\ Row \in Rows
      /\ HolderFenced(co, Row, Repo, status[p], conf, p \in gate)
  BY <1>1, JobKnows
<1>3. CASE WriteRow(p, co.op, Checkpointed(Row, co.ck)) /\ Goto("publish")
  <2>1. journal'[p][co.op] = Checkpointed(Row, co.ck) BY <1>2, <1>3, RowWritten
  <2>2. Checkpointed(Row, co.ck).kind = Row.kind /\ Checkpointed(Row, co.ck).state = "running"
    BY <1>2 DEF Checkpointed, Rows
  <2>3. /\ co'.pc = "publish" /\ co'.next = co.next /\ co'.err = co.err /\ co'.prev = co.prev
        /\ co'.cleared = co.cleared /\ co'.ck = co.ck /\ co'.path = co.path /\ co'.op = co.op
        /\ co'.tx = co.tx /\ co'.after = co.after
    BY <1>2, <1>3 DEF Goto, Locals
  <2>4. Row'.kind = Row.kind /\ Row'.state = "running" /\ Repo' = Repo
    BY <1>1, <2>1, <2>2, <2>3 DEF Row, Repo
  <2>5. OwnerFenced(co', Row', conf, p \in gate)
    BY <1>1, <1>2, <2>3, <2>4, OwnerKeeps DEF HolderFenced, RowLabels, JobLabels
  <2>6. StepFenced(co', Row', Repo, status[p], p \in gate)
    BY <1>1, <1>2, <2>3, <2>4
    DEF HolderFenced, StepFenced, Heading, Failing, Resumes, Commands, Endings, Original
  <2>7. Holder' BY <1>1, <2>3, <2>4, <2>5, <2>6 DEF Holder, HolderFenced
  <2>8. ASSUME NEW q, q = p PROVE BaseFenced(q)'
    BY <1>1, <2>3, <2>8, JobBase DEF BaseFenced, Shields
  <2> QED BY <1>1, <1>2, <1>3, <2>3, <2>7, <2>8, RowStepFenced
<1>4. CASE Fail("git_command_failed") /\ UNCHANGED journal
  <2>1. /\ HolderFenced(co', Row, Repo, status[p], conf, p \in gate)
        /\ co'.path = p /\ co'.op = co.op /\ co'.pc # "recover"
        /\ Shields(co, p) => Shields(co', p)
    BY <1>1, <1>2, <1>4, FailFenced, PlainCodes
  <2>2. Holder' BY <1>1, <1>4, <2>1 DEF Holder, Row, Repo
  <2>3. ASSUME NEW q, q = p PROVE BaseFenced(q)' BY <1>1, <2>1, <2>3, JobBase DEF BaseFenced
  <2> QED BY <1>1, <1>2, <1>4, <2>1, <2>2, <2>3, RowStepFenced
<1> QED BY <1>3, <1>4 DEF Checkpoint

\* The publication that lifts the gate is that of a committed merge, which leaves
\* the status without a conflict; any other conflict it shows is gated.
LEMMA PublishFenced == ASSUME TypeInv, Serial, Fence, Publish PROVE Fence'
<1> DEFINE p == co.path
           conf == config[p] # NoConfig
           s == WorkingStatus(p, co.op, JobState, co.ck.remote)
<1>1. /\ co.pc = "publish" /\ co.pc \in RowLabels \ {"stale"}
      /\ UNCHANGED <<config, phase, pending, broken, queue, journal, repo>>
  BY DEF Publish, RowLabels, JobLabels, WorkerFrame, process
<1>2. /\ co \in Locals /\ p \in Paths /\ Row \in Rows /\ conf /\ co.op \in Nat /\ co.ck.remote \in Nat
      /\ OwnerFenced(co, Row, conf, p \in gate) /\ StepFenced(co, Row, Repo, status[p], p \in gate)
  BY <1>1, JobKnows DEF HolderFenced, Locals, Checkpoints, Oids
<1>3. /\ co.next \in Saved /\ Row.state = "running"
      /\ Reindexed => co.next = "save_conflict_pushing" /\ Row.kind = "conflict_complete" /\ Repo.merge = "none"
  BY <1>1, <1>2 DEF StepFenced, Heading, Endings, Reindexed
<1>4. CASE /\ applyStatus(p, s, "preserve")
           /\ gate' = IF Reindexed THEN gate \ {p} ELSE gate
           /\ co' = [co EXCEPT !.pc = co.next, !.cleared = @ \/ Reindexed]
  <2>1. JobState \in {"syncing", "initializing", "conflict"}
    BY DEF JobState, WorkingState
  <2>2. s \in Statuses /\ s.state = JobState
    <3>1. s \in Statuses BY <1>2, <2>1, WorkingStatusType DEF GitStates
    <3>2. s.state = JobState BY <1>2, JobKnows, <1>1 DEF WorkingStatus, Statuses
    <3> QED BY <3>1, <3>2
  <2> HIDE DEF s
  <2>3. status'[p].state = JobState /\ \A q \in Paths : q # p => status'[q] = status[q]
    BY <1>2, <1>4, <2>2, AppliedState
  <2>4. JobState = "conflict" => p \in gate'
    BY <1>1, <1>2, <1>3, <1>4 DEF JobState, WorkingState, OwnerFenced, Kind, ConflictKinds
  <2>5. /\ co'.pc = co.next /\ co'.cleared = (co.cleared \/ Reindexed) /\ co'.next = co.next
        /\ co'.err = co.err /\ co'.prev = co.prev /\ co'.ck = co.ck /\ co'.path = co.path
        /\ co'.op = co.op /\ co'.tx = co.tx /\ co'.after = co.after
    BY <1>2, <1>4 DEF Locals
  <2>6. co'.pc \in JobLabels /\ co'.pc \notin {"journal", "publish", "save_config", "admit_status", "recover", "stale",
                                              "fail_journal", "fail_status", "aborted", "abort_status", "abort_journal"}
    BY <1>3, <2>5 DEF Saved, Commands, RowLabels, JobLabels
  <2>7. OwnerFenced(co', Row, conf, p \in gate')
    BY <1>1, <1>2, <1>3, <1>4, <2>5, <2>6 DEF OwnerFenced, OfConfigured
  <2>8. StepFenced(co', Row, Repo, status'[p], p \in gate')
    BY <1>1, <1>2, <1>3, <2>5, <2>6 DEF StepFenced, Heading, Failing, Resumes, Endings
  <2>9. Holder' BY <1>1, <2>5, <2>7, <2>8 DEF Holder, HolderFenced, Row, Repo
  <2>10. ASSUME NEW q, q = p PROVE BaseFenced(q)'
    BY <1>1, <1>2, <1>3, <1>4, <2>3, <2>4, <2>5, <2>10, JobBase
    DEF BaseFenced, Shields, Repo, JobState, WorkingState, Kind, ConflictKinds
  <2> QED BY <1>1, <1>2, <1>4, <2>3, <2>6, <2>9, <2>10, RowStepFenced
<1>5. CASE Fail("git_command_failed") /\ UNCHANGED <<status, gate>>
  <2>1. /\ HolderFenced(co', Row, Repo, status[p], conf, p \in gate)
        /\ co'.path = p /\ co'.op = co.op /\ co'.pc # "recover"
        /\ Shields(co, p) => Shields(co', p)
    BY <1>1, <1>2, <1>5, FailFenced, PlainCodes DEF HolderFenced
  <2>2. Holder' BY <1>1, <1>5, <2>1 DEF Holder, Row, Repo
  <2>3. ASSUME NEW q, q = p PROVE BaseFenced(q)' BY <1>1, <1>5, <2>1, <2>3, JobBase DEF BaseFenced
  <2> QED BY <1>1, <1>2, <1>5, <2>1, <2>2, <2>3, RowStepFenced
<1> HIDE DEF s
<1> QED BY <1>4, <1>5 DEF Publish, s

\* The worktree is left: a conflict found in it is gated before the notes are unlocked.
LEMMA LeaveFenced == ASSUME TypeInv, Serial, Fence, Leave PROVE Fence'
<1> DEFINE p == co.path
           conf == config[p] # NoConfig
<1>1. /\ co.pc = "leave" /\ co.pc \in RowLabels \ {"stale"}
      /\ UNCHANGED <<config, phase, pending, broken, queue, journal, status, repo>>
      /\ gate' = IF co.err = "git_conflict" THEN gate \cup {p} ELSE gate
  BY DEF Leave, RowLabels, JobLabels, WorkerFrame, process, GatedConflict
<1>2. /\ co \in Locals /\ p \in Paths /\ conf
      /\ OwnerFenced(co, Row, conf, p \in gate) /\ StepFenced(co, Row, Repo, status[p], p \in gate)
  BY <1>1, JobKnows DEF HolderFenced
<1>3. p \in gate' \/ (repo[p].merge # "conflict" /\ status[p].state # "conflict")
  BY <1>1, <1>2, JobBase DEF BaseFenced, Shields
<1>4. OwnerFenced(co, Row, conf, p \in gate') BY <1>1, <1>2 DEF OwnerFenced
<1>5. co'.path = p /\ co'.op = co.op /\ co'.pc # "recover"
      /\ HolderFenced(co', Row, Repo, status[p], conf, p \in gate')
  <2>1. ASSUME co' = [co EXCEPT !.tx = FALSE, !.pc = "failed",
                                !.err = IF @ = NoError THEN "git_command_failed" ELSE @]
               \/ (co.err # NoError /\ co' = [co EXCEPT !.tx = FALSE, !.pc = "failed"])
        PROVE  co'.path = p /\ co'.op = co.op /\ co'.pc # "recover"
               /\ HolderFenced(co', Row, Repo, status[p], conf, p \in gate')
    <3>1. /\ co'.pc = "failed" /\ Failing(co') /\ co'.prev = co.prev /\ co'.cleared = co.cleared
          /\ co'.path = p /\ co'.op = co.op
      BY <1>2, <2>1 DEF Locals, Failing, NoError
    <3>2. OwnerFenced(co', Row, conf, p \in gate') BY <1>1, <1>4, <3>1, OwnerKeeps DEF RowLabels, JobLabels
    <3>3. StepFenced(co', Row, Repo, status[p], p \in gate')
      BY <3>1 DEF StepFenced, Heading, Resumes, Endings, Commands, JobLabels, OriginalSteps
    <3> QED BY <3>1, <3>2, <3>3 DEF HolderFenced
  <2>2. ASSUME co.err = NoError
        PROVE  /\ co.after \in Followers /\ Row.state = "running" /\ co.ck.stage # "conflict_reindexed"
               /\ co.after = "fetch" => Original(Row)
               /\ co.after = "sync_index" => Row.kind = "conflict_complete" /\ Repo.merge = "none"
               /\ co.after = "aborted" => Repo.merge = "none"
    BY <1>1, <1>2, <2>2 DEF StepFenced, Heading, Failing, Resumes
  <2>3. CASE /\ co.err = NoError /\ co.after \in {"fetch", "push"}
             /\ \E stage \in {"fetching", "pushing"} :
                  co' = [co EXCEPT !.tx = FALSE, !.ck = At(stage), !.pc = "journal", !.next = co.after]
    <3>1. /\ co'.pc = "journal" /\ co'.next = co.after /\ co'.err = NoError /\ co'.prev = co.prev
          /\ co'.cleared = co.cleared /\ co'.path = p /\ co'.op = co.op
          /\ co'.ck.stage \in {"fetching", "pushing"}
      BY <1>2, <2>3 DEF Locals, At, Checkpoints
    <3>2. HolderFenced(co', Row, Repo, status[p], conf, p \in gate')
      <4>1. /\ co.after \in Saved \ {"leave"}
            /\ co.after \in OriginalSteps => Original(Row)
            /\ co.after \notin {"commit", "merge", "run_merge", "abort_merge", "verify_completion",
                               "commit_merge", "save_conflict_pushing"}
            /\ co'.ck.stage # "conflict_reindexed"
        BY <2>2, <2>3, <3>1 DEF Saved, Commands, JobLabels, OriginalSteps
      <4> QED BY <1>1, <1>4, <3>1, <4>1, SavedFenced
    <3> QED BY <3>1, <3>2
  <2>4. CASE co.err = NoError /\ co.after \notin {"fetch", "push"} /\ co' = [co EXCEPT !.tx = FALSE, !.pc = co.after]
    <3>1. /\ co'.pc = co.after /\ co'.err = NoError /\ co'.prev = co.prev /\ co'.cleared = co.cleared
          /\ co'.path = p /\ co'.op = co.op /\ co'.ck = co.ck
      BY <1>2, <2>4 DEF Locals
    <3>2. co.after \in {"sync_index", "aborted", "succeed_journal"} BY <2>2, <2>4 DEF Followers
    <3>3. HolderFenced(co', Row, Repo, status[p], conf, p \in gate')
      BY <1>1, <1>4, <2>2, <2>4, <3>1, <3>2, DirectFenced DEF Commands, JobLabels, OriginalSteps
    <3> QED BY <3>1, <3>2, <3>3
  <2>5. DOMAIN StageOfNetwork = {"fetch", "push"} /\ StageOfNetwork.fetch = "fetching" /\ StageOfNetwork.push = "pushing"
    BY DEF StageOfNetwork
  <2>6. \/ co' = AfterLeave
        \/ co' = [co EXCEPT !.tx = FALSE, !.pc = "failed", !.err = IF @ = NoError THEN "git_command_failed" ELSE @]
    BY DEF Leave
  <2>7. CASE co' = AfterLeave /\ co.err = NoError
    BY <2>3, <2>4, <2>5, <2>7 DEF AfterLeave
  <2> QED BY <2>1, <2>6, <2>7 DEF AfterLeave
<1>6. Holder' BY <1>1, <1>5 DEF Holder, Row, Repo
<1>7. ASSUME NEW q, q = p PROVE BaseFenced(q)' BY <1>1, <1>3, <1>7 DEF BaseFenced
<1> QED BY <1>1, <1>2, <1>5, <1>6, <1>7, RowStepFenced

\* A holder at the end of its job, after a write to its row that keeps the kind.
LEMMA EndingFenced ==
  ASSUME NEW c, NEW row, NEW configured, NEW gated, OwnerFenced(c, row, configured, gated),
         c.pc \in RowLabels \ {"stale"}, NEW d, d.prev = c.prev, d.cleared = c.cleared,
         d.pc \in {"succeed_status", "fail_journal", "fail_status"}, NEW row2, row2.kind = row.kind,
         d.pc = "succeed_status" => d.err = NoError,
         d.err = "git_conflict" => gated,
         d.ck.stage = "conflict_reindexed" => d.err # NoError, NEW r, NEW s
  PROVE  HolderFenced(d, row2, r, s, configured, gated)
<1>1. OwnerFenced(d, row2, configured, gated) BY OwnerKeeps DEF RowLabels, JobLabels
<1>2. StepFenced(d, row2, r, s, gated)
  BY DEF StepFenced, Heading, Failing, Resumes, Endings, Commands, JobLabels, OriginalSteps
<1> QED BY <1>1, <1>2 DEF HolderFenced

\* Before its last writes the job closes the gate of what it leaves unresolved.
LEMMA FailedFenced == ASSUME TypeInv, Serial, Fence, Failed PROVE Fence'
<1> DEFINE p == co.path
           conf == config[p] # NoConfig
<1>1. /\ co.pc = "failed" /\ co.pc \in RowLabels \ {"stale"}
      /\ UNCHANGED <<config, phase, pending, broken, queue, journal, status, repo>>
      /\ gate' \in {gate, gate \cup {p}} /\ (co.err = "git_conflict" => p \in gate')
      /\ co' = [co EXCEPT !.pc = "fail_journal",
                  !.err = IF phase = "closing" /\ @ # "git_conflict" THEN "operation_interrupted" ELSE @]
  BY DEF Failed, RowLabels, JobLabels, WorkerFrame, process
<1>2. /\ co \in Locals /\ p \in Paths /\ conf
      /\ OwnerFenced(co, Row, conf, p \in gate) /\ StepFenced(co, Row, Repo, status[p], p \in gate)
  BY <1>1, JobKnows DEF HolderFenced
<1>3. OwnerFenced(co, Row, conf, p \in gate') BY <1>1, <1>2 DEF OwnerFenced
<1>4. /\ co'.pc = "fail_journal" /\ co'.prev = co.prev /\ co'.cleared = co.cleared /\ co'.path = p
      /\ co'.op = co.op /\ co'.ck = co.ck /\ (co'.err = "git_conflict" <=> co.err = "git_conflict")
      /\ (co.err # NoError => co'.err # NoError)
  BY <1>1, <1>2 DEF Locals, NoError
<1>5. co.ck.stage = "conflict_reindexed" => co.err # NoError
  BY <1>1, <1>2 DEF StepFenced, Heading, Failing
<1>6. HolderFenced(co', Row, Repo, status[p], conf, p \in gate')
  <2>1. /\ co'.err = "git_conflict" => p \in gate'
        /\ co'.pc = "succeed_status" => co'.err = NoError
        /\ co'.ck.stage = "conflict_reindexed" => co'.err # NoError
        /\ co.pc \in RowLabels \ {"stale"}
        /\ co'.pc \in {"succeed_status", "fail_journal", "fail_status"}
        /\ co'.prev = co.prev /\ co'.cleared = co.cleared
    BY <1>1, <1>4, <1>5
  <2> QED BY <1>3, <2>1, EndingFenced
<1>7. Holder' BY <1>1, <1>4, <1>6 DEF Holder, Row, Repo
<1>8. ASSUME NEW q, q = p PROVE BaseFenced(q)'
  BY <1>1, <1>8, JobBase DEF BaseFenced, Shields
<1> QED BY <1>1, <1>2, <1>4, <1>7, <1>8, RowStepFenced

\* The journal row of a job that ends keeps its kind.
LEMMA FinishingFenced ==
  ASSUME TypeInv, Serial, Fence, co.pc \in RowLabels \ {"stale"}, NEW state, NEW stage, NEW res,
         NEW label \in {"succeed_status", "fail_status"}, FinishRow(state, stage, res, label),
         UNCHANGED <<config, phase, pending, broken, queue, status, repo, gate>>,
         label = "succeed_status" => co.err = NoError,
         co.err = "git_conflict" => co.path \in gate,
         co.ck.stage = "conflict_reindexed" => co.err # NoError
  PROVE  Fence'
<1> DEFINE p == co.path
           conf == config[p] # NoConfig
           row == Finished(Row, state, stage, res)
<1>1. /\ co \in Locals /\ p \in Paths /\ conf /\ co.op \in Op(p) /\ Row \in Rows
      /\ OwnerFenced(co, Row, conf, p \in gate)
  BY JobKnows DEF HolderFenced
<1>2. row.kind = Row.kind BY <1>1 DEF Finished, Rows
<1>3. WriteRow(p, co.op, row) \/ UNCHANGED journal BY DEF FinishRow
<1>4. WriteRow(p, co.op, row) => journal'[p][co.op] = row BY <1>1, RowWritten
<1> HIDE DEF row
<1>5. /\ co'.pc = label /\ co'.prev = co.prev /\ co'.cleared = co.cleared /\ co'.path = p
      /\ co'.op = co.op /\ co'.ck = co.ck /\ co'.err = co.err /\ co'.tx = co.tx
  BY <1>1 DEF FinishRow, Goto, Locals
<1>6. Row'.kind = Row.kind /\ Repo' = Repo BY <1>2, <1>3, <1>4, <1>5 DEF Row, Repo
<1>7. HolderFenced(co', Row', Repo, status[p], conf, p \in gate)
  BY <1>1, <1>5, <1>6, EndingFenced
<1>8. Holder' BY <1>5, <1>6, <1>7 DEF Holder
<1>9. ASSUME NEW q, q = p PROVE BaseFenced(q)' BY <1>5, <1>9, JobBase DEF BaseFenced, Shields
<1> QED BY <1>1, <1>3, <1>5, <1>8, <1>9, RowStepFenced

LEMMA TerminalFenced == ASSUME TypeInv, Serial, Fence, SucceedJournal \/ FailJournal PROVE Fence'
<1>1. /\ co.pc \in {"succeed_journal", "fail_journal"} /\ co.pc \in RowLabels \ {"stale"}
      /\ UNCHANGED <<config, phase, pending, broken, queue, status, repo, gate>>
      /\ \/ co.pc = "succeed_journal" /\ FinishRow("succeeded", "completed", Result, "succeed_status")
         \/ co.pc = "fail_journal" /\ FinishRow(FailedState, "queued", co.res, "fail_status")
  BY DEF SucceedJournal, FailJournal, RowLabels, JobLabels, WorkerFrame, process
<1>2. StepFenced(co, Row, Repo, status[co.path], co.path \in gate)
  BY <1>1, JobKnows DEF HolderFenced
<1>3. /\ co.pc = "succeed_journal" => co.err = NoError
      /\ co.err = "git_conflict" => co.path \in gate
      /\ co.ck.stage = "conflict_reindexed" => co.err # NoError
  BY <1>1, <1>2 DEF StepFenced, Heading, Failing, Endings, NoError
<1> QED BY <1>1, <1>3, FinishingFenced

LEMMA SucceedStatusFenced == ASSUME TypeInv, Serial, Fence, SucceedStatus PROVE Fence'
<1> DEFINE p == co.path
           s == [status[p] EXCEPT !.state = "ready", !.op = co.op, !.remote = Result.remote]
<1>1. /\ co.pc = "succeed_status" /\ co.pc \in RowLabels \ {"stale"} /\ Release
      /\ UNCHANGED <<config, phase, pending, broken, queue, journal, repo, gate>>
      /\ applyStatus(p, s, "reset") \/ UNCHANGED status
  BY DEF SucceedStatus, RowLabels, JobLabels, WorkerFrame, MemoryFrame, process
<1>2. /\ co \in Locals /\ p \in Paths /\ config[p] # NoConfig /\ status[p] \in Statuses
      /\ StepFenced(co, Row, Repo, status[p], p \in gate)
  BY <1>1, JobKnows DEF HolderFenced
<1>3. s \in Statuses /\ s.state = "ready"
  <2>1. Result.remote \in Nat /\ co.op \in Nat BY <1>2 DEF Result, Locals, Checkpoints, Oids
  <2>2. "ready" \in GitStates BY DEF GitStates
  <2>3. s \in Statuses BY <1>2, <2>1, <2>2, Zenon DEF Statuses, Oids
  <2>4. s.state = "ready" BY <1>2, Zenon DEF Statuses
  <2> QED BY <2>3, <2>4
<1> HIDE DEF s
<1>4. /\ \A q \in Paths : q # p => status'[q] = status[q]
      /\ status'[p].state \in {status[p].state, "ready"}
  BY <1>1, <1>2, <1>3, AppliedState
<1>5. ~Failing(co) BY <1>1, <1>2 DEF StepFenced, Heading, Endings
<1>6. p \in gate' \/ (repo'[p].merge # "conflict" /\ status'[p].state # "conflict")
  BY <1>1, <1>4, <1>5, JobBase DEF BaseFenced, Shields, Failing, NoError
<1> QED BY <1>1, <1>2, <1>4, <1>6, ReleaseFenced

LEMMA FailStatusFenced == ASSUME TypeInv, Serial, Fence, FailStatus PROVE Fence'
<1> DEFINE p == co.path
           outcome == ClassifyGitOutcome(Kind, FailedState, status[p].state, co.err)
           s == [status[p] EXCEPT !.state = outcome.state, !.op = co.op, !.remote = FailedOID(status[p])]
<1>1. /\ co.pc = "fail_status" /\ co.pc \in RowLabels \ {"stale"} /\ Release
      /\ UNCHANGED <<config, phase, pending, broken, queue, journal, repo, gate>>
      /\ applyStatus(p, s, outcome.failures) \/ UNCHANGED status
  BY DEF FailStatus, RowLabels, JobLabels, WorkerFrame, MemoryFrame, process
<1>2. /\ co \in Locals /\ p \in Paths /\ config[p] # NoConfig /\ status[p] \in Statuses /\ Row \in Rows
      /\ StepFenced(co, Row, Repo, status[p], p \in gate)
  BY <1>1, JobKnows DEF HolderFenced
<1>3. s \in Statuses /\ s.state = outcome.state
  <2>1. FailedOID(status[p]) \in Nat /\ co.op \in Nat
    BY <1>2 DEF FailedOID, Keep, Rows, Statuses, Locals, Results, Oids
  <2>2. outcome.state \in GitStates BY ClassifyType
  <2> HIDE DEF outcome
  <2>3. s \in Statuses BY <1>2, <2>1, <2>2, Zenon DEF Statuses, Oids
  <2>4. s.state = outcome.state BY <1>2, Zenon DEF Statuses
  <2> QED BY <2>3, <2>4
<1>4. ASSUME p \notin gate
      PROVE  repo[p].merge # "conflict" /\ status[p].state # "conflict" /\ outcome.state # "conflict"
  <2>1. co.err # "git_conflict" BY <1>1, <1>2, <1>4 DEF StepFenced
  <2>2. repo[p].merge # "conflict" /\ status[p].state # "conflict"
    BY <1>1, <1>4, <2>1, JobBase DEF BaseFenced, Shields
  <2>3. outcome.state # "conflict"
    BY <2>1, <2>2 DEF ClassifyGitOutcome, FailedState, Outcome
  <2> QED BY <2>2, <2>3
<1> HIDE DEF s, outcome
<1>5. /\ \A q \in Paths : q # p => status'[q] = status[q]
      /\ status'[p].state \in {status[p].state, outcome.state, "paused"}
  BY <1>1, <1>2, <1>3, AppliedState
<1>6. p \in gate' \/ (repo'[p].merge # "conflict" /\ status'[p].state # "conflict")
  BY <1>1, <1>4, <1>5
<1> QED BY <1>1, <1>2, <1>5, <1>6, ReleaseFenced

\* An abort ends with its gate closed, or open over a worktree without a merge.
LEMMA AbortedFenced == ASSUME TypeInv, Serial, Fence, Aborted PROVE Fence'
<1> DEFINE p == co.path
<1>1. /\ co.pc = "aborted" /\ co.pc \in Commands /\ co.pc \in RowLabels \ {"stale"}
      /\ UNCHANGED <<config, phase, pending, broken, queue, journal, status, repo>>
  BY DEF Aborted, Commands, RowLabels, JobLabels, WorkerFrame, process
<1>2. CASE Goto("abort_status") /\ UNCHANGED gate
  <2>1. /\ co'.pc = "abort_status" /\ co'.prev = co.prev /\ co'.cleared = co.cleared /\ co'.err = NoError
        /\ co'.ck = co.ck /\ co'.path = p /\ co'.op = co.op
    BY <1>1, <1>2, CommandKnows DEF Goto, Locals
  <2>2. Repo.merge = "none" /\ co.ck.stage # "conflict_reindexed"
    BY <1>1, CommandKnows DEF StepFenced
  <2>3. HolderFenced(co', Row, Repo, status[p], config[p] # NoConfig, p \in gate)
    BY <1>1, <2>1, <2>2, CommandKnows, DirectFenced DEF Commands, JobLabels, OriginalSteps
  <2> QED BY <1>1, <1>2, <2>1, <2>3, CommandFenced
<1>3. CASE Strand
  <2>1. p \in gate' /\ Release /\ \A q \in Paths : q # p => (q \in gate <=> q \in gate')
    BY <1>3 DEF Strand
  <2> QED BY <1>1, <2>1, ReleaseFenced
<1> QED BY <1>2, <1>3 DEF Aborted

LEMMA AbortStatusFenced == ASSUME TypeInv, Serial, Fence, AbortStatus PROVE Fence'
<1> DEFINE p == co.path
           s == [status[p] EXCEPT !.state = "paused", !.op = co.op, !.remote = Row.remote]
<1>1. /\ co.pc = "abort_status" /\ co.pc \in Commands /\ co.pc \in RowLabels \ {"stale"}
      /\ UNCHANGED <<config, phase, pending, broken, queue, journal, repo, gate>>
      /\ \/ applyStatus(p, s, "preserve") /\ Goto("abort_journal")
         \/ UNCHANGED status /\ Release
  BY DEF AbortStatus, Commands, RowLabels, JobLabels, WorkerFrame, MemoryFrame, process
<1>2. /\ co \in Locals /\ p \in Paths /\ config[p] # NoConfig /\ status[p] \in Statuses /\ Row \in Rows
      /\ Repo.merge = "none" /\ co.ck.stage # "conflict_reindexed"
  BY <1>1, JobKnows, CommandKnows DEF StepFenced
<1>3. s \in Statuses /\ s.state = "paused"
  <2>1. Row.remote \in Nat /\ co.op \in Nat BY <1>2 DEF Rows, Locals, Oids
  <2>2. "paused" \in GitStates BY DEF GitStates
  <2>3. s \in Statuses BY <1>2, <2>1, <2>2, Zenon DEF Statuses, Oids
  <2>4. s.state = "paused" BY <1>2, Zenon DEF Statuses
  <2> QED BY <2>3, <2>4
<1> HIDE DEF s
<1>4. CASE applyStatus(p, s, "preserve") /\ Goto("abort_journal")
  <2>1. status'[p].state = "paused" /\ \A q \in Paths : q # p => status'[q] = status[q]
    BY <1>2, <1>3, <1>4, AppliedState
  <2>2. /\ co'.pc = "abort_journal" /\ co'.prev = co.prev /\ co'.cleared = co.cleared /\ co'.err = NoError
        /\ co'.ck = co.ck /\ co'.path = p /\ co'.op = co.op
    BY <1>1, <1>4, CommandKnows DEF Goto, Locals
  <2>3. HolderFenced(co', Row, Repo, status'[p], config[p] # NoConfig, p \in gate)
    BY <1>1, <1>2, <2>1, <2>2, CommandKnows, DirectFenced DEF Commands, JobLabels, OriginalSteps
  <2>4. Holder' BY <1>1, <2>2, <2>3 DEF Holder, Row, Repo
  <2>5. ASSUME NEW q, q = p PROVE BaseFenced(q)' BY <1>1, <1>2, <2>1, <2>5 DEF BaseFenced, Repo
  <2> QED BY <1>1, <1>2, <2>1, <2>2, <2>4, <2>5, RowStepFenced
<1>5. CASE UNCHANGED status /\ Release
  <2>1. p \in gate' \/ (repo'[p].merge # "conflict" /\ status'[p].state # "conflict")
    BY <1>1, <1>5, CommandGated DEF Repo
  <2> QED BY <1>1, <1>5, <2>1, ReleaseFenced
<1> QED BY <1>1, <1>4, <1>5

LEMMA AbortJournalFenced == ASSUME TypeInv, Serial, Fence, AbortJournal PROVE Fence'
<1> DEFINE p == co.path
<1>1. /\ co.pc = "abort_journal" /\ co.pc \in Commands /\ co.pc \in RowLabels /\ Release
      /\ UNCHANGED <<config, phase, pending, broken, queue, status, repo>>
      /\ UNCHANGED journal \/ \E row : WriteRow(p, co.op, row)
      /\ \A q \in Paths : q # p => (q \in gate <=> q \in gate')
  BY DEF AbortJournal, Commands, RowLabels, JobLabels, WorkerFrame, process
<1>2. Repo.merge = "none" /\ status[p].state # "conflict" BY <1>1, CommandKnows DEF StepFenced
<1> QED BY <1>1, <1>2, ReleaseFenced DEF Repo

\* Every step of a job preserves the invariant.
LEMMA JobFenced == ASSUME TypeInv, Serial, Fence, JobStep PROVE Fence'
BY FinishStaleFenced, CheckpointFenced, PublishFenced, LeaveFenced, PreflightFenced, ProbeFenced,
   CreateRepositoryFenced, FetchFenced, TrustFenced, OpenSnapshotFenced, CommitFenced,
   MergeNeededFenced, RunMergeFenced, PushFenced, SettleFenced, VerifyCompletionFenced,
   CommitMergeFenced, SyncIndexFenced, VerifyAbortFenced, AbortMergeFenced, AbortedFenced,
   AbortStatusFenced, AbortJournalFenced, TerminalFenced, SucceedStatusFenced, FailedFenced,
   FailStatusFenced
DEF JobStep

-----------------------------------------------------------------------------
(* Requests and admissions: a holder without a job. *)

\* A step that closes gates, settles merges and ends conflicts at most.
LEMMA QuietFenced ==
  ASSUME TypeInv, Serial, Fence, UNCHANGED <<config, phase, pending, broken>>, gate \subseteq gate',
         \A q \in Paths : /\ repo'[q].merge = "conflict" => repo[q].merge = "conflict"
                          /\ status'[q].state = "conflict" => status[q].state = "conflict"
                          /\ Shields(co, q) => Shields(co', q),
         UNCHANGED co \/ (co.pc # "recover" /\ co'.pc # "recover"),
         JobsFenced', Holder'
  PROVE  Fence'
<1>1. BasesFenced'
  <2>1. SUFFICES ASSUME NEW q \in Paths, Fenceable(q)' PROVE BaseFenced(q)'
    BY DEF BasesFenced
  <2>2. Fenceable(q) BY <2>1 DEF Fenceable
  <2> QED BY <2>2 DEF BaseFenced, Fence, BasesFenced
<1>2. Unconfigured' BY DEF Fence, Unconfigured
<1>3. RecoveryFenced'
  <2>1. SUFFICES ASSUME co'.pc = "recover", ~broken, UNCHANGED co
                 PROVE  co.path \in gate' \/ PlanFenced(co.plan, repo'[co.path], status'[co.path])
    BY DEF RecoveryFenced, Repo
  <2>2. co.path \in gate \/ PlanFenced(co.plan, repo[co.path], status[co.path])
    BY <2>1 DEF Fence, RecoveryFenced, Repo
  <2> QED BY <2>2, RepoType DEF PlanFenced
<1> QED BY <1>1, <1>2, <1>3 DEF Fence

\* Jobs that waited before, on rows whose stage and kind are as before.
LEMMA JobsKeep ==
  ASSUME Fence, gate \subseteq gate',
         \A k \in DOMAIN queue' : queue'[k].op # 0 =>
           \E j \in DOMAIN queue :
             /\ queue'[k] = queue[j]
             /\ journal'[queue[j].path][queue[j].op].stage = journal[queue[j].path][queue[j].op].stage
             /\ journal'[queue[j].path][queue[j].op].kind = journal[queue[j].path][queue[j].op].kind
  PROVE  JobsFenced'
BY DEF Fence, JobsFenced

\* What a holder without a job keeps.
Light(c) ==
  /\ c.prev.state # "conflict" /\ ~c.cleared /\ c.err = NoError
  /\ c.ck.stage # "conflict_reindexed"

LEMMA LightOf ==
  ASSUME TypeInv, Fence, co.pc \in RequestLabels \cup {"admit_status", "undo"}
  PROVE  /\ Light(co) /\ \A q : ~Shields(co, q)
         /\ co.pc \in OfConfigured => config[co.path] # NoConfig
<1>1. co.pc \notin JobLabels BY LabelsOf DEF RowLabels, JobLabels, RequestLabels, AdmissionLabels
<1>2. OwnerFenced(co, Row, config[co.path] # NoConfig, co.path \in gate)
      /\ StepFenced(co, Row, Repo, status[co.path], co.path \in gate)
  BY DEF Fence, Holder, HolderFenced
<1>3. Heading(co) = co.pc BY <1>1 DEF Heading, JobLabels
<1>4. co.err = NoError BY <1>1, <1>2, <1>3 DEF StepFenced, Failing, Endings, JobLabels
<1> QED BY <1>1, <1>2, <1>3, <1>4 DEF OwnerFenced, StepFenced, Light, Shields, NoError, JobLabels, Failing

LEMMA LightFenced ==
  ASSUME NEW c, Light(c), c.pc \in RequestLabels, NEW row, NEW r, NEW s, NEW configured, NEW gated,
         c.pc \in OfConfigured => configured,
         c.pc = "save_config" => r.merge # "conflict" /\ s.state # "conflict"
  PROVE  HolderFenced(c, row, r, s, configured, gated)
<1>1. c.pc \notin RowLabels BY LabelsOf
<1>2. OwnerFenced(c, row, configured, gated) BY <1>1 DEF OwnerFenced, Light
<1>3. c.pc \notin JobLabels \cup {"admit_status"} BY <1>1 DEF RowLabels
<1>4. StepFenced(c, row, r, s, gated)
  BY <1>3 DEF StepFenced, Light, Heading, Failing, Resumes, Commands, JobLabels, OriginalSteps
<1> QED BY <1>2, <1>4 DEF HolderFenced

\* An admission that has its row.
LEMMA AdmittedFenced ==
  ASSUME NEW c, Light(c), c.pc \in {"admit_status", "undo"}, NEW row, NEW r, NEW s, NEW gated,
         c.pc = "admit_status" => row.stage = "queued", row.kind \in ConflictKinds => gated
  PROVE  HolderFenced(c, row, r, s, TRUE, gated)
<1>1. OwnerFenced(c, row, TRUE, gated) BY DEF OwnerFenced, Light
<1>2. StepFenced(c, row, r, s, gated)
  BY DEF StepFenced, Light, Heading, Failing, Resumes, Commands, JobLabels, OriginalSteps
<1> QED BY <1>1, <1>2 DEF HolderFenced

\* A step of a holder without a job to another such step, which leaves the journal and the queue.
LEMMA LightStep ==
  ASSUME TypeInv, Serial, Fence, co.pc \in RequestLabels \ {"recover"}, co'.pc \in RequestLabels \ {"recover"},
         UNCHANGED <<config, phase, pending, broken, repo, gate, journal, queue>>,
         \A q \in Paths : status'[q].state = "conflict" => status[q].state = "conflict",
         Light(co'), co'.pc \in OfConfigured => config[co'.path] # NoConfig,
         co'.pc = "save_config" => repo[co'.path].merge # "conflict" /\ status'[co'.path].state # "conflict"
  PROVE  Fence'
<1>1. Holder' BY LightFenced DEF Holder, Repo
<1>2. JobsFenced' BY JobsKeep
<1>3. \A q : ~Shields(co, q) BY LightOf
<1> QED BY <1>1, <1>2, <1>3, QuietFenced

LEMMA LightIdle == Light(Idle) /\ Idle.pc = "free" /\ "free" \in RequestLabels \ {"recover"} /\ "free" \notin OfConfigured
BY DEF Light, Idle, NoStatus, RequestLabels, OfConfigured, AdmissionLabels, RowLabels, JobLabels

\* The holder of a request at its start.
LEMMA RequestHolds ==
  ASSUME TypeInv, NEW p \in Paths, NEW label \in AdmissionLabels, NEW cfg, Request(p, label, cfg)
  PROVE  /\ co.pc = "free" /\ co'.pc \in RequestLabels \ {"recover", "save_config"}
         /\ Light(co') /\ co'.path = p /\ config[p] # NoConfig
<1>1. co'.pc \in {label, "refresh"} /\ co'.path = p /\ co'.prev = NoStatus /\ ~co'.cleared
      /\ co'.err = NoError /\ co'.ck = Idle.ck
  BY DEF Request, Idle
<1> QED BY <1>1 DEF Request, Free, Light, Idle, NoStatus, RequestLabels, AdmissionLabels

LEMMA RequestFenced ==
  ASSUME TypeInv, Serial, Fence, NEW p \in Paths, NEW label \in AdmissionLabels, NEW cfg,
         Request(p, label, cfg) \/ (Free /\ UNCHANGED co),
         UNCHANGED <<durable, process, gate, queue>>
  PROVE  Fence'
<1> USE DEF durable, process
<1>1. "free" \in RequestLabels \ {"recover"} BY LightIdle
<1>2. CASE Request(p, label, cfg) BY <1>1, <1>2, RequestHolds, LightStep
<1>3. CASE Free /\ UNCHANGED co BY <1>1, <1>3, LightOf, LightStep DEF Free
<1> QED BY <1>2, <1>3

\* A base whose gate is open shows no conflict, so that the status a settings
\* change replaces, and may have to restore, is none.
LEMMA ChangeStatusFenced ==
  ASSUME TypeInv, Serial, Fence, NEW p \in Paths, NEW cfg, ChangeStatus(p, cfg) PROVE Fence'
<1>1. /\ co.pc = "free" /\ phase = "serving" /\ p \notin gate
      /\ UNCHANGED <<config, phase, pending, broken, repo, gate, journal, queue>>
  BY DEF ChangeStatus, Free, Serving, Locked, process, memory
<1>2. co.pc \in RequestLabels \ {"recover"} BY <1>1, LightIdle
<1>3. repo[p].merge # "conflict" /\ status[p].state # "conflict"
  BY <1>1, <1>2, LightOf DEF Fence, BasesFenced, Fenceable, BaseFenced
<1>4. \A q \in Paths : q # p => status'[q] = status[q]
  BY DEF ChangeStatus, TypeInv, TypeOK
<1>5. status'[p] = NewStatus(p, cfg) \/ status'[p] = status[p]
  BY DEF ChangeStatus, TypeInv, TypeOK
<1>6. NewStatus(p, cfg).state # "conflict" BY DEF NewStatus, NoStatus
<1>7. PICK label \in {"save_config", "restore_status"} : Changing(p, cfg, label)
  BY DEF ChangeStatus
<1>8. co'.pc = label /\ co'.path = p /\ co'.prev = status[p] /\ ~co'.cleared /\ co'.err = NoError /\ co'.ck = Idle.ck
  BY <1>7 DEF Changing, Idle
<1>9. Light(co') BY <1>3, <1>8 DEF Light, Idle
<1>10. co'.pc \in RequestLabels \ {"recover"} /\ co'.pc \notin OfConfigured
  BY <1>8 DEF RequestLabels, OfConfigured, AdmissionLabels, RowLabels, JobLabels
<1> QED BY <1>1, <1>2, <1>3, <1>4, <1>5, <1>6, <1>8, <1>9, <1>10, LightStep

\* A new row is queued, and that of a completion or an abort has its base gated.
LEMMA CreateFenced ==
  ASSUME TypeInv, Serial, Fence, co.pc \in RequestLabels \ {"recover"}, NEW p \in Paths, NEW row \in Rows,
         Create(p, row), config[p] # NoConfig, row.stage = "queued", row.kind \in ConflictKinds => p \in gate,
         UNCHANGED <<config, phase, pending, broken, status, repo, gate, queue>>
  PROVE  Fence'
<1> DEFINE n == Len(journal[p]) + 1
<1>1. n \in Nat BY OpFacts
<1>2. /\ co'.pc = "admit_status" /\ co'.op = n /\ co'.path = p /\ co'.prev = co.prev
      /\ co'.cleared = co.cleared /\ co'.err = co.err /\ co'.ck = co.ck
  <2>1. "admit_status" \in Labels BY DEF Labels, RowLabels
  <2> QED BY <1>1, <2>1, RepoType, Zenon DEF Create, Locals
<1>3. Light(co) /\ \A q : ~Shields(co, q) BY LightOf
<1>4. Light(co') BY <1>2, <1>3 DEF Light
<1>5. journal'[p][n] = row BY CreateFacts DEF Create
<1>6. HolderFenced(co', row, Repo', status'[p], TRUE, p \in gate)
  BY <1>2, <1>4, AdmittedFenced
<1>7. (config[p] # NoConfig) = TRUE OBVIOUS
<1>8. Holder' BY <1>2, <1>5, <1>6, <1>7 DEF Holder, Row
<1>9. ASSUME NEW k \in DOMAIN queue, queue[k].op # 0
      PROVE  journal'[queue[k].path][queue[k].op] = journal[queue[k].path][queue[k].op]
  <2>1. queue[k].path \in Paths /\ queue[k].op \in Op(queue[k].path)
    BY <1>9, QueueFacts DEF TypeInv, RowsExist
  <2>2. queue[k].op \in 1 .. Len(journal[queue[k].path]) BY <2>1, OpFacts
  <2> QED BY <2>1, <2>2, CreateFacts DEF Create
<1>10. JobsFenced' BY <1>9, JobsKeep
<1>11. co'.pc # "recover" BY <1>2
<1> QED BY <1>3, <1>8, <1>10, <1>11, QuietFenced

\* A completion or an abort is admitted on a base shown in conflict: it is gated.
LEMMA QueueConflictFenced ==
  ASSUME TypeInv, Serial, Fence, NEW p \in Paths, NEW kind \in ConflictKinds, QueueConflict(p, kind)
  PROVE  Fence'
<1> DEFINE o == currentConflictOperation(p)
           row == QueuedRow(kind, journal[p][o].cfg, CheckpointOf(journal[p][o]))
<1>1. /\ co.pc = "free" /\ phase = "serving" /\ o # 0
      /\ UNCHANGED <<config, phase, pending, broken, status, repo, gate, queue>>
  BY DEF QueueConflict, Free, Serving, process
<1>2. co.pc \in RequestLabels \ {"recover"} BY <1>1, LightIdle
<1>3. o \in Op(p) /\ status[p].state = "conflict" BY <1>1 DEF currentConflictOperation
<1>4. config[p] # NoConfig /\ p \in gate
  BY <1>1, <1>3 DEF Fence, Unconfigured, BasesFenced, Fenceable, BaseFenced
<1>5. CASE UNCHANGED <<journal, co>>
  <2>1. Light(co') /\ co'.pc \notin OfConfigured /\ co'.pc # "save_config"
    BY <1>1, <1>2, <1>5, LightOf, LightIdle
  <2> QED BY <1>1, <1>2, <1>5, <2>1, LightStep
<1>6. CASE Create(p, row)
  <2>1. row \in Rows
    <3>1. journal[p][o] \in Rows BY <1>3, RowAt
    <3>2. CheckpointOf(journal[p][o]) \in Checkpoints /\ journal[p][o].cfg \in Configs \cup {NoConfig}
      BY <3>1 DEF CheckpointOf, Checkpoints, Rows
    <3> QED BY <3>2, QueuedRowType DEF ConflictKinds, OperationKinds
  <2>2. row.stage = "queued" BY DEF QueuedRow
  <2> HIDE DEF row
  <2> QED BY <1>1, <1>2, <1>4, <1>6, <2>1, <2>2, CreateFenced
<1> HIDE DEF row
<1> QED BY <1>5, <1>6 DEF QueueConflict, row

\* A job without a row is queued, whoever holds the coordinator.
LEMMA EnqueueResolveFenced ==
  ASSUME TypeInv, Serial, Fence, NEW p \in Paths, EnqueueResolve(p) PROVE Fence'
<1> DEFINE job == [path |-> p, op |-> 0, cfg |-> NoConfig]
<1>1. /\ UNCHANGED <<config, phase, pending, broken, status, repo, gate, journal, co>>
      /\ queue' = Append(queue, job) /\ job \in Jobs /\ job.op = 0
  BY DEF EnqueueResolve, durable, process, Jobs
<1> HIDE DEF job
<1>2. \A k \in DOMAIN queue' : queue'[k].op # 0 => k \in DOMAIN queue /\ queue'[k] = queue[k]
  <2>1. /\ Append(queue, job) \in Seq(Jobs) /\ Len(Append(queue, job)) = Len(queue) + 1
        /\ \A k \in 1 .. Len(queue) : Append(queue, job)[k] = queue[k]
        /\ Append(queue, job)[Len(queue) + 1] = job
    BY <1>1, QueueFacts, AppendProperties
  <2>2. DOMAIN queue' = 1 .. Len(queue) + 1 BY <1>1, <2>1, LenProperties
  <2> QED BY <1>1, <2>1, <2>2, QueueFacts
<1>3. JobsFenced' BY <1>1, <1>2, JobsKeep
<1>4. Holder' BY <1>1 DEF Fence, Holder, Row, Repo
<1> QED BY <1>1, <1>3, <1>4, QuietFenced

\* Every request preserves the invariant.
LEMMA RequestsFenced == ASSUME TypeInv, Serial, Fence, Requests PROVE Fence'
<1> USE DEF AdmissionLabels
<1>1. ASSUME NEW p \in Paths, QueueSync(p) \/ Resume(p) PROVE Fence'
  BY <1>1, RequestFenced DEF QueueSync, Resume, memory
<1>2. ASSUME NEW p \in Paths, NEW cfg \in Configs, QueueInitialize(p, cfg) PROVE Fence'
  BY <1>2, RequestFenced DEF QueueInitialize
<1> QED BY <1>1, <1>2, ChangeStatusFenced, QueueConflictFenced, EnqueueResolveFenced
    DEF Requests, Configure, Disable

LEMMA AdmissionPcs ==
  /\ AdmissionLabels \cup {"create_resumed", "refresh"} \subseteq (RequestLabels \ {"recover", "save_config"}) \cap OfConfigured
  /\ {"rollback", "restore_status", "save_config"} \subseteq RequestLabels \ {"recover"}
  /\ {"rollback", "restore_status", "save_config", "free"} \cap OfConfigured = {}
BY DEF OfConfigured, RequestLabels, AdmissionLabels, RowLabels, JobLabels

\* A request that ends, or goes on, with the journal, the queue and the gate as they were.
LEMMA ReleasedFenced ==
  ASSUME TypeInv, Serial, Fence, co.pc \in RequestLabels \ {"recover"}, Release,
         UNCHANGED <<config, phase, pending, broken, repo, gate, journal, queue>>,
         \A q \in Paths : status'[q].state = "conflict" => status[q].state = "conflict"
  PROVE  Fence'
BY LightIdle, LightStep DEF Release

LEMMA GoingFenced ==
  ASSUME TypeInv, Serial, Fence, co.pc \in RequestLabels \ {"recover"}, NEW label, Goto(label),
         label \in {"rollback", "restore_status"},
         UNCHANGED <<config, phase, pending, broken, repo, gate, journal, queue, status>>
  PROVE  Fence'
<1>1. label \in Labels /\ label \in RequestLabels \ {"recover"} /\ label \notin OfConfigured /\ label # "save_config"
  BY AdmissionPcs, LabelsOf
<1>2. /\ co'.pc = label /\ co'.prev = co.prev /\ co'.cleared = co.cleared /\ co'.err = co.err
      /\ co'.ck = co.ck
  BY <1>1, RepoType, Zenon DEF Goto, Locals
<1>3. Light(co') BY <1>2, LightOf DEF Light
<1> QED BY <1>1, <1>2, <1>3, LightStep

LEMMA AdmitFenced ==
  ASSUME TypeInv, Serial, Fence, NEW kind \in {"sync", "initialize"}, NEW label \in AdmissionLabels,
         Admit(kind, label)
  PROVE  Fence'
<1> DEFINE p == co.path
           row == QueuedRow(kind, co.cfg, EmptyCheckpoint(TrustedOrEmpty(p)))
<1>1. /\ co.pc = label /\ co.pc \in RequestLabels \ {"recover"} /\ co.pc \in OfConfigured
      /\ UNCHANGED <<config, phase, pending, broken, status, repo, gate, queue>>
  BY AdmissionPcs DEF Admit, process
<1>2. row \in Rows /\ row.stage = "queued" /\ row.kind \notin ConflictKinds
  <2>1. row \in Rows
    BY RepoType, TrustType, QueuedRowType, EmptyCheckpointType DEF Locals, OperationKinds
  <2> QED BY <2>1 DEF QueuedRow, ConflictKinds
<1>3. p \in Paths /\ config[p] # NoConfig BY <1>1, LightOf, RepoType
<1> HIDE DEF row
<1>4. CASE Create(p, row) BY <1>1, <1>2, <1>3, <1>4, CreateFenced
<1>5. CASE Release /\ UNCHANGED journal BY <1>1, <1>5, ReleasedFenced
<1> QED BY <1>4, <1>5 DEF Admit, row

\* A resume may have to restore the pause it clears.
LEMMA AdmitResumeFenced == ASSUME TypeInv, Serial, Fence, AdmitResume PROVE Fence'
<1> DEFINE p == co.path
           s == [status[p] EXCEPT !.state = "ready", !.op = 0]
<1>1. /\ co.pc \in AdmissionLabels /\ co.pc \in RequestLabels \ {"recover"} /\ co.pc \in OfConfigured
      /\ UNCHANGED <<config, phase, pending, broken, repo, gate, journal, queue>>
  BY AdmissionPcs DEF AdmitResume, process, AdmissionLabels
<1>2. CASE Release /\ UNCHANGED status BY <1>1, <1>2, ReleasedFenced
<1>3. CASE /\ status[p].state = "paused" /\ applyStatus(p, s, "reset")
           /\ co' = [co EXCEPT !.pc = "create_resumed", !.resumed = TRUE, !.prev = status[p]]
  <2>1. p \in Paths /\ status[p] \in Statuses BY RepoType DEF TypeInv, TypeOK
  <2>2. s \in Statuses /\ s.state = "ready"
    <3>1. "ready" \in GitStates BY DEF GitStates
    <3>2. s \in Statuses BY <2>1, <3>1, StatusExceptType
    <3>3. s.state = "ready" BY <2>1, Zenon DEF Statuses
    <3> QED BY <3>2, <3>3
  <2> HIDE DEF s
  <2>3. status'[p].state = "ready" /\ \A q \in Paths : q # p => status'[q] = status[q]
    BY <1>3, <2>1, <2>2, AppliedState
  <2>4. /\ co'.pc = "create_resumed" /\ co'.prev = status[p] /\ co'.cleared = co.cleared
        /\ co'.err = co.err /\ co'.ck = co.ck /\ co'.path = p
    BY <1>3, RepoType, Zenon DEF Locals
  <2>5. Light(co') /\ config[p] # NoConfig BY <1>1, <1>3, <2>4, LightOf DEF Light
  <2>6. co'.pc \in RequestLabels \ {"recover"} /\ co'.pc # "save_config" BY <2>4, AdmissionPcs
  <2>7. \A q \in Paths : status'[q].state = "conflict" => status[q].state = "conflict" BY <2>3
  <2> QED BY <1>1, <2>4, <2>5, <2>6, <2>7, LightStep
<1> QED BY <1>2, <1>3 DEF AdmitResume

LEMMA CreateResumedFenced == ASSUME TypeInv, Serial, Fence, CreateResumed PROVE Fence'
<1> DEFINE p == co.path
           row == QueuedRow("sync", co.cfg, EmptyCheckpoint(TrustedOrEmpty(p)))
<1>1. /\ co.pc = "create_resumed" /\ co.pc \in RequestLabels \ {"recover"} /\ co.pc \in OfConfigured
      /\ UNCHANGED <<config, phase, pending, broken, status, repo, gate, queue>>
  BY AdmissionPcs DEF CreateResumed, process, memory
<1>2. row \in Rows /\ row.stage = "queued" /\ row.kind \notin ConflictKinds
  <2>1. row \in Rows
    BY RepoType, TrustType, QueuedRowType, EmptyCheckpointType DEF Locals, OperationKinds
  <2> QED BY <2>1 DEF QueuedRow, ConflictKinds
<1>3. p \in Paths /\ config[p] # NoConfig BY <1>1, LightOf, RepoType
<1> HIDE DEF row
<1>4. CASE Create(p, row) BY <1>1, <1>2, <1>3, <1>4, CreateFenced
<1>5. CASE Goto("rollback") /\ UNCHANGED journal BY <1>1, <1>5, GoingFenced
<1> QED BY <1>4, <1>5 DEF CreateResumed, row

\* The status a rolled back request restores shows no conflict.
LEMMA RestoredFenced ==
  ASSUME TypeInv, Serial, Fence, Rollback \/ RestoreStatus PROVE Fence'
<1>1. /\ co.pc \in {"rollback", "restore_status"} /\ co.pc \in RequestLabels \ {"recover"} /\ Release
      /\ UNCHANGED <<config, phase, pending, broken, repo, gate, journal, queue>>
      /\ status' = [status EXCEPT ![co.path] = co.prev] \/ UNCHANGED status
  BY AdmissionPcs DEF Rollback, RestoreStatus, process, memory
<1>2. co.prev.state # "conflict" BY <1>1, LightOf DEF Light
<1>3. \A q \in Paths : status'[q].state = "conflict" => status[q].state = "conflict"
  BY <1>1, <1>2 DEF TypeInv, TypeOK
<1> QED BY <1>1, <1>3, ReleasedFenced

\* The job that refreshQueued removes was the only one of its base.
LEMMA RefreshQueuedFenced == ASSUME TypeInv, Serial, Fence, RefreshQueued PROVE Fence'
<1> DEFINE p == co.path
<1>1. /\ co.pc = "refresh" /\ co.pc \in RequestLabels \ {"recover"} /\ co.pc \in OfConfigured
      /\ UNCHANGED <<config, phase, pending, broken, status, repo, gate>>
  BY AdmissionPcs DEF RefreshQueued, process
<1>2. CASE Release /\ UNCHANGED <<journal, queue>> BY <1>1, <1>2, ReleasedFenced
<1>3. ASSUME NEW k \in StaleJobs(p), NEW row, Goto(co.next), queue' = Without(k),
             WriteRow(p, queue[k].op, row)
      PROVE  Fence'
  <2> DEFINE old(n) == IF n < k THEN n ELSE n + 1
  <2>1. k \in DOMAIN queue /\ queue[k].path = p /\ queue[k].op # 0 BY <1>3 DEF StaleJobs
  <2>2. DOMAIN queue' = 1 .. Len(queue) - 1 /\ \A n \in DOMAIN queue' : queue'[n] = queue[old(n)]
    BY <1>3 DEF Without
  <2>3. \A n \in DOMAIN queue' : old(n) \in DOMAIN queue /\ old(n) # k BY <2>1, <2>2, QueueFacts
  <2> HIDE DEF old
  <2>4. ASSUME NEW n \in DOMAIN queue', queue'[n].op # 0
        PROVE  journal'[queue'[n].path] = journal[queue'[n].path]
    <3>1. queue'[n].path # p /\ queue'[n].path \in Paths
      BY <2>1, <2>2, <2>3, <2>4, QueueFacts DEF Serial, OnePerPath
    <3> QED BY <1>3, <3>1 DEF WriteRow, TypeInv, TypeOK
  <2>5. JobsFenced'
    <3>1. ASSUME NEW n \in DOMAIN queue', queue'[n].op # 0
          PROVE  /\ old(n) \in DOMAIN queue /\ queue'[n] = queue[old(n)]
                 /\ journal'[queue[old(n)].path] = journal[queue[old(n)].path]
      BY <2>2, <2>3, <2>4, <3>1
    <3> QED BY <1>1, <3>1, JobsKeep
  <2>6. co.next \in AdmissionLabels BY <1>1 DEF TypeInv, RowsExist
  <2>7. /\ co'.pc = co.next /\ co'.prev = co.prev /\ co'.cleared = co.cleared /\ co'.err = co.err
        /\ co'.ck = co.ck /\ co'.path = p
    <3>1. co.next \in Labels BY <2>6, LabelsOf DEF AdmissionLabels
    <3> QED BY <1>3, <3>1, RepoType, Zenon DEF Goto, Locals
  <2>8. Light(co') /\ config[p] # NoConfig /\ \A q : ~Shields(co, q)
    BY <1>1, <2>7, LightOf DEF Light
  <2>9. co'.pc \in RequestLabels \ {"recover", "save_config"} BY <2>6, <2>7, AdmissionPcs
  <2>10. Holder' BY <1>1, <2>7, <2>8, <2>9, LightFenced DEF Holder
  <2> QED BY <1>1, <2>5, <2>8, <2>9, <2>10, QuietFenced
<1> QED BY <1>2, <1>3 DEF RefreshQueued

\* What an admission knows at its last write.
LEMMA AdmittedKnows ==
  ASSUME TypeInv, Serial, Fence, co.pc \in {"admit_status", "undo"}
  PROVE  /\ co.pc \in RowLabels /\ co.pc # "recover" /\ co.path \in Paths /\ co.op \in Op(co.path) /\ NoneWaits(co.path)
         /\ Light(co) /\ (\A q : ~Shields(co, q)) /\ config[co.path] # NoConfig
         /\ Row.kind \in ConflictKinds => co.path \in gate
         /\ co.pc = "admit_status" => Row.stage = "queued"
<1>1. co.pc \in RowLabels \ JobLabels /\ co.pc \in OfConfigured BY DEF OfConfigured, RowLabels, JobLabels
<1>2. co.path \in Paths /\ co.op \in Op(co.path) /\ NoneWaits(co.path)
  BY <1>1, JobKnows DEF Serial, HolderLast
<1> QED BY <1>1, <1>2, LightOf, JobKnows DEF HolderFenced, OwnerFenced, StepFenced, Light

\* The job of an admitted operation waits with its row queued, and gated if it is to
\* complete or abort.
LEMMA AdmitStatusFenced == ASSUME TypeInv, Serial, Fence, AdmitStatus PROVE Fence'
<1> DEFINE p == co.path
           s == AdmittedStatus(p, co.op)
           job == [path |-> p, op |-> co.op, cfg |-> config[p]]
<1>1. /\ co.pc = "admit_status"
      /\ UNCHANGED <<config, phase, pending, broken, journal, repo, gate>>
  BY DEF AdmitStatus, process
<1>2. co \in Locals /\ status[p] \in Statuses /\ Row \in Rows
  BY <1>1, AdmittedKnows, JobKnows
<1>3. CASE applyStatus(p, s, "preserve") /\ Release /\ queue' = QueueAfter(TRUE)
  <2>1. s \in Statuses /\ (s.state = "conflict" => status[p].state = "conflict")
    <3>1. s \in Statuses BY <1>1, <1>2, AdmittedKnows, AdmittedStatusType
    <3>2. s.state = "conflict" => status[p].state = "conflict"
      BY <1>2 DEF AdmittedStatus, WorkingStatus, WorkingState, Statuses
    <3> QED BY <3>1, <3>2
  <2> HIDE DEF s
  <2>2. \A q \in Paths : status'[q].state = "conflict" => status[q].state = "conflict"
    BY <1>1, <1>3, <2>1, AdmittedKnows, AppliedState
  <2>3. queue' = Append(queue, job) /\ job \in Jobs /\ job.path = p /\ job.op = co.op /\ job.cfg # NoConfig
    BY <1>1, <1>2, <1>3, AdmittedKnows DEF QueueAfter, Jobs, TypeInv, TypeOK, Locals
  <2> HIDE DEF job
  <2>4. \A k \in DOMAIN queue' : \/ k \in DOMAIN queue /\ queue'[k] = queue[k]
                                 \/ queue'[k] = job
    <3>1. /\ Append(queue, job) \in Seq(Jobs) /\ Len(Append(queue, job)) = Len(queue) + 1
          /\ \A k \in 1 .. Len(queue) : Append(queue, job)[k] = queue[k]
          /\ Append(queue, job)[Len(queue) + 1] = job
      BY <2>3, QueueFacts, AppendProperties
    <3>2. DOMAIN queue' = 1 .. Len(queue) + 1 BY <2>3, <3>1, LenProperties
    <3> QED BY <2>3, <3>1, <3>2, QueueFacts
  <2>5. JobsFenced'
    <3>1. journal[p][co.op].stage = "queued" /\ (journal[p][co.op].kind \in ConflictKinds => p \in gate)
      BY <1>1, AdmittedKnows DEF Row
    <3> QED BY <1>1, <2>3, <2>4, <3>1 DEF Fence, JobsFenced
  <2>6. Holder' /\ co'.pc # "recover" BY <1>3, IdleFenced, LightIdle DEF Holder, Release
  <2> QED BY <1>1, <2>2, <2>5, <2>6, AdmittedKnows, QuietFenced
<1>4. CASE Goto("undo") /\ queue' = QueueAfter(FALSE) /\ UNCHANGED status
  <2>1. UNCHANGED queue BY <1>4 DEF QueueAfter
  <2>2. /\ co'.pc = "undo" /\ co'.prev = co.prev /\ co'.cleared = co.cleared /\ co'.err = co.err
        /\ co'.ck = co.ck /\ co'.path = p /\ co'.op = co.op
    <3>1. "undo" \in Labels BY DEF Labels, RowLabels
    <3> QED BY <1>2, <1>4, <3>1, Zenon DEF Goto, Locals
  <2>3. Light(co') BY <1>1, <2>2, AdmittedKnows DEF Light
  <2>4. HolderFenced(co', Row, Repo, status[p], TRUE, p \in gate)
    BY <1>1, <2>2, <2>3, AdmittedKnows, AdmittedFenced
  <2>5. (config[p] # NoConfig) = TRUE BY <1>1, AdmittedKnows
  <2>6. Holder' BY <1>1, <1>4, <2>2, <2>4, <2>5 DEF Holder, Row, Repo
  <2>7. JobsFenced' BY <1>1, <2>1, JobsKeep
  <2> QED BY <1>1, <1>4, <2>2, <2>6, <2>7, AdmittedKnows, QuietFenced
<1> HIDE DEF s
<1> QED BY <1>3, <1>4 DEF AdmitStatus, s

LEMMA UndoFenced == ASSUME TypeInv, Serial, Fence, Undo PROVE Fence'
<1> DEFINE p == co.path
<1>1. /\ co.pc = "undo" /\ UNCHANGED <<config, phase, pending, broken, status, repo, gate, queue>>
      /\ UNCHANGED journal \/ \E row : WriteRow(p, co.op, row)
      /\ Goto("rollback") \/ Release
  BY DEF Undo, process
<1>2. ASSUME NEW k \in DOMAIN queue, queue[k].op # 0
      PROVE  journal'[queue[k].path] = journal[queue[k].path]
  <2>1. queue[k].path # p /\ queue[k].path \in Paths BY <1>1, <1>2, AdmittedKnows, QueueFacts DEF NoneWaits
  <2> QED BY <1>1, <2>1 DEF WriteRow, TypeInv, TypeOK
<1>3. JobsFenced' BY <1>1, <1>2, JobsKeep
<1>4. Light(co') /\ co'.pc \in {"rollback", "free"}
  <2>1. CASE Release BY <2>1, LightIdle DEF Release
  <2>2. CASE Goto("rollback")
    <3>1. "rollback" \in Labels BY AdmissionPcs, LabelsOf
    <3>2. /\ co'.pc = "rollback" /\ co'.prev = co.prev /\ co'.cleared = co.cleared /\ co'.err = co.err
          /\ co'.ck = co.ck
      BY <2>2, <3>1, RepoType, Zenon DEF Goto, Locals
    <3> QED BY <1>1, <3>2, AdmittedKnows DEF Light
  <2> QED BY <1>1, <2>1, <2>2
<1>5. co'.pc \in RequestLabels \ {"recover", "save_config"} /\ co'.pc \notin OfConfigured
  BY <1>4, AdmissionPcs, LightIdle
<1>6. Holder' BY <1>4, <1>5, LightFenced DEF Holder
<1> QED BY <1>1, <1>3, <1>5, <1>6, AdmittedKnows, QuietFenced

\* A base loses its configuration only while it shows no conflict.
LEMMA SaveConfigFenced == ASSUME TypeInv, Serial, Fence, SaveConfig PROVE Fence'
<1> DEFINE p == co.path
<1>1. /\ co.pc = "save_config" /\ co.pc \in RequestLabels \ {"recover"}
      /\ UNCHANGED <<phase, pending, broken, status, repo, gate, journal, queue>>
  BY AdmissionPcs DEF SaveConfig, process
<1>2. CASE config' = [config EXCEPT ![p] = co.cfg] /\ Release
  <2>1. repo[p].merge # "conflict" /\ status[p].state # "conflict" /\ phase # "recovering" /\ p \in Paths
    BY <1>1, ServingPc, RepoType DEF Fence, Holder, HolderFenced, StepFenced, Repo
  <2>2. \A q \in Paths : q # p => config'[q] = config[q] BY <1>2 DEF TypeInv, TypeOK
  <2>3. Unconfigured' BY <1>1, <2>1, <2>2 DEF Fence, Unconfigured
  <2>4. Holder' /\ co'.pc # "recover" BY <1>2, IdleFenced, LightIdle DEF Holder, Release
  <2>5. \A q : ~Shields(co, q) BY <1>1, LightOf
  <2>6. BasesFenced' BY <1>1, <2>5 DEF Fence, BasesFenced, Fenceable, BaseFenced
  <2>7. JobsFenced' BY <1>1, JobsKeep
  <2>8. RecoveryFenced' BY <2>4 DEF RecoveryFenced
  <2> QED BY <2>3, <2>4, <2>6, <2>7, <2>8 DEF Fence
<1>3. CASE Goto("restore_status") /\ UNCHANGED config BY <1>1, <1>3, GoingFenced
<1> QED BY <1>2, <1>3 DEF SaveConfig

\* Every step of an admission or a settings change preserves the invariant.
LEMMA AdmissionFenced == ASSUME TypeInv, Serial, Fence, AdmissionStep PROVE Fence'
BY RefreshQueuedFenced, AdmitFenced, AdmitResumeFenced, CreateResumedFenced, RestoredFenced,
   AdmitStatusFenced, UndoFenced, SaveConfigFenced
DEF AdmissionStep, AdmitSync, AdmitInitialize, AdmissionLabels

-----------------------------------------------------------------------------
(* Taking a job. *)

\* The rest of the queue.
LEMMA RestFenced ==
  ASSUME TypeInv, Fence, queue # <<>>, queue' = RestOfQueue, gate \subseteq gate', UNCHANGED journal
  PROVE  JobsFenced'
<1>1. /\ Tail(queue) \in Seq(Jobs) /\ Len(Tail(queue)) = Len(queue) - 1
      /\ \A k \in 1 .. Len(Tail(queue)) : Tail(queue)[k] = queue[k + 1]
  BY QueueFacts, HeadTailProperties
<1>2. DOMAIN Tail(queue) = 1 .. Len(queue) - 1 BY <1>1, LenProperties
<1>3. \A k \in DOMAIN queue' : k + 1 \in DOMAIN queue /\ queue'[k] = queue[k + 1]
  BY <1>1, <1>2, QueueFacts DEF RestOfQueue
<1> QED BY <1>3, JobsKeep

\* A completion or an abort starts on a gated base.
LEMMA BeginFenced == ASSUME TypeInv, Serial, Fence, Begin PROVE Fence'
<1> DEFINE job == Head(queue)
           p == job.path
           row == journal[p][job.op]
           conf == config[p] # NoConfig
<1>1. /\ co.pc = "free" /\ queue # <<>> /\ queue' = RestOfQueue /\ job.op # 0
      /\ UNCHANGED <<config, phase, pending, broken, journal, status, repo, gate>>
  BY DEF Begin, Free, durable, process
<1>2. 1 \in DOMAIN queue /\ job = queue[1]
  <2>1. Len(queue) # 0 BY <1>1, QueueFacts, EmptySeq
  <2> QED BY <2>1, QueueFacts
<1>3. job.cfg # NoConfig /\ row.stage = "queued" /\ (row.kind \in ConflictKinds => p \in gate)
  BY <1>1, <1>2 DEF Fence, JobsFenced
<1>4. p \in Paths /\ job.op \in Op(p) BY <1>1, <1>2, QueueFacts DEF TypeInv, RowsExist
<1>5. row \in Rows BY <1>4, RowAt
<1>6. /\ co'.pc = IF config[p] # job.cfg THEN "stale" ELSE "journal"
      /\ co'.path = p /\ co'.op = job.op /\ co'.next = FirstStep(row.kind)
      /\ co'.ck.stage = row.stage /\ co'.prev = NoStatus /\ ~co'.cleared /\ co'.err = NoError
  BY DEF Begin, Idle, CheckpointOf
<1> HIDE DEF job, row
<1>7. /\ FirstStep(row.kind) \in {"preflight", "probe", "verify_completion", "verify_abort"}
      /\ FirstStep(row.kind) \in OriginalSteps => Original(row)
      /\ FirstStep(row.kind) = "verify_completion" => row.kind = "conflict_complete"
  BY <1>5 DEF FirstStep, Rows, OperationKinds, OriginalSteps, Original
<1>8. OwnerFenced(co', row, conf, p \in gate)
  BY <1>3, <1>6 DEF OwnerFenced, OfConfigured, NoStatus, RowLabels, JobLabels, AdmissionLabels
<1>9. StepFenced(co', row, repo[p], status[p], p \in gate)
  BY <1>3, <1>6, <1>7 DEF StepFenced, Heading, Failing, Resumes, Saved, Commands, JobLabels, OriginalSteps
<1>10. Holder' BY <1>1, <1>6, <1>8, <1>9 DEF Holder, HolderFenced, Row, Repo, row
<1>11. co.pc \in RequestLabels BY <1>1, LightIdle
<1>12. \A q : ~Shields(co, q) BY <1>11, LightOf
<1>13. JobsFenced' BY <1>1, RestFenced
<1>14. co.pc # "recover" /\ co'.pc # "recover" BY <1>1, <1>6
<1> QED BY <1>1, <1>10, <1>12, <1>13, <1>14, QuietFenced

\* A resolution closes the gate of the conflict it finds, and settles a merge at most.
LEMMA ResolveConflictFenced == ASSUME TypeInv, Serial, Fence, ResolveConflict PROVE Fence'
<1> DEFINE p == Head(queue).path
<1>1. /\ co.pc = "free" /\ queue # <<>> /\ queue' = RestOfQueue /\ gate \subseteq gate'
      /\ UNCHANGED <<config, phase, pending, broken, journal, status, co>>
  BY DEF ResolveConflict, Free, WorkerFrame, process
<1>2. \A q \in Paths : repo'[q].merge = "conflict" => repo[q].merge = "conflict"
  BY DEF ResolveConflict, UpdateRepo, TypeInv, TypeOK
<1>3. co.pc \in RequestLabels /\ co.pc \notin OfConfigured /\ co.pc # "save_config" BY <1>1, LightIdle
<1>4. Holder' BY <1>1, <1>3, LightOf, LightFenced DEF Holder
<1>5. JobsFenced' BY <1>1, RestFenced
<1> QED BY <1>1, <1>2, <1>4, <1>5, QuietFenced

-----------------------------------------------------------------------------
(* Recovery. *)

\* An inspection that does not block a base has found no merge in it.
LEMMA FoundUnmerged ==
  ASSUME NEW p, NEW i, NEW found \in {Inspected(p, i), Uninspected}
  PROVE  /\ ~found.blocking => repo[p].merge # "conflict"
         /\ found.state \in Halfway \cup {"aborted", "pushed"} => ~found.blocking
         /\ found.conflict => found.blocking
<1>1. CASE found = Uninspected BY <1>1 DEF Uninspected, Found, Halfway
<1>2. CASE found = Inspected(p, i)
  <2>1. PICK remote, state, conflict, blocking :
          /\ found = Found(remote, state, conflict, blocking) /\ conflict \in BOOLEAN /\ blocking \in BOOLEAN
          /\ ~blocking => repo[p].merge # "conflict"
          /\ state \in Halfway \cup {"aborted", "pushed"} => ~blocking
          /\ conflict => blocking
    <3> DEFINE trust == recoveryRemoteOID(p, i)
               label == recoveryConflictState(p, i)
    <3>1. CASE ~repo[p].origin BY <1>2, <3>1 DEF Inspected, Halfway
    <3>2. CASE repo[p].origin /\ repo[p].merge = "conflict" BY <1>2, <3>2 DEF Inspected, Halfway
    <3>3. CASE repo[p].origin /\ repo[p].merge = "resolved" BY <1>2, <3>3 DEF Inspected, Halfway
    <3>4. CASE repo[p].origin /\ repo[p].merge \notin {"conflict", "resolved"}
      <4> HIDE DEF trust, label
      <4>1. \/ found = Found(trust.oid, "ambiguous", FALSE, TRUE)
            \/ found = Found(trust.oid, label, FALSE, FALSE)
        BY <1>2, <3>4 DEF Inspected, trust, label
      <4> QED BY <3>4, <4>1 DEF Halfway
    <3> QED BY <3>1, <3>2, <3>3, <3>4
  <2> QED BY <2>1 DEF Found
<1> QED BY <1>1, <1>2

\* The state of a status that a transition does not count as a failure.
LEMMA TransitionState ==
  ASSUME TypeInv, NEW p \in Paths, NEW found, NEW state, NEW i, NEW action, action # "increment"
  PROVE  Transition(p, found, state, i, action).state = state
<1>1. status[p] \in Statuses BY DEF TypeInv, TypeOK
<1> QED BY <1>1 DEF Transition, ApplyTransition, NextState, Statuses

\* Writes that end a conflict, or show none.
Ends(writes) ==
  /\ \A k \in DOMAIN writes : IsStatusWrite(writes[k]) => writes[k][2].state # "conflict"
  /\ \E k \in DOMAIN writes : IsStatusWrite(writes[k])

\* Writes of rows before them do not matter.
LEMMA EndsAfter ==
  ASSUME NEW S, NEW u \in Seq(S), NEW v \in Seq(S), Ends(v), \A n \in DOMAIN u : ~IsStatusWrite(u[n])
  PROVE  Ends(u \o v)
<1> DEFINE w == u \o v
<1>1. /\ Len(u) \in Nat /\ DOMAIN u = 1 .. Len(u)
      /\ Len(v) \in Nat /\ DOMAIN v = 1 .. Len(v)
  BY LenProperties
<1>2. /\ w \in Seq(S) /\ Len(w) = Len(u) + Len(v)
      /\ \A n \in 1 .. Len(u) + Len(v) : w[n] = IF n <= Len(u) THEN u[n] ELSE v[n - Len(u)]
  BY ConcatProperties
<1>3. DOMAIN w = 1 .. Len(u) + Len(v) BY <1>2, LenProperties
<1> HIDE DEF w, IsStatusWrite
<1>4. \A n \in DOMAIN w : (n \in DOMAIN u /\ w[n] = u[n]) \/ (n - Len(u) \in DOMAIN v /\ w[n] = v[n - Len(u)])
  BY <1>1, <1>2, <1>3
<1>5. \A m \in DOMAIN v : m + Len(u) \in DOMAIN w /\ w[m + Len(u)] = v[m]
  BY <1>1, <1>2, <1>3
<1>6. Ends(w) BY <1>4, <1>5 DEF Ends
<1> QED BY <1>6 DEF w

LEMMA EndsAlone == ASSUME NEW s, IsStatusWrite(s), s[2].state # "conflict" PROVE Ends(<<s>>)
<1>1. 1 \in DOMAIN <<s>> /\ \A n \in DOMAIN <<s>> : <<s>>[n] = s OBVIOUS
<1> HIDE DEF IsStatusWrite
<1> QED BY <1>1 DEF Ends

LEMMA EndsOf ==
  ASSUME NEW s, IsStatusWrite(s), s[2].state # "conflict", NEW j, ~IsStatusWrite(j)
  PROVE  Ends(<<s, j>>) /\ Ends(<<j, s>>)
<1>1. DOMAIN <<s, j>> = {1, 2} /\ <<s, j>>[1] = s /\ <<s, j>>[2] = j OBVIOUS
<1>2. DOMAIN <<j, s>> = {1, 2} /\ <<j, s>>[1] = j /\ <<j, s>>[2] = s OBVIOUS
<1> HIDE DEF IsStatusWrite
<1>3. Ends(<<s, j>>) BY <1>1 DEF Ends
<1>4. Ends(<<j, s>>) BY <1>2 DEF Ends
<1> QED BY <1>3, <1>4

LEMMA EndsLate ==
  ASSUME NEW s, IsStatusWrite(s), s[2].state # "conflict", NEW j, ~IsStatusWrite(j),
         NEW k, ~IsStatusWrite(k), NEW c
  PROVE  /\ Ends((IF c THEN <<k>> ELSE <<>>) \o <<s, j>>)
         /\ Ends((IF c THEN <<k>> ELSE <<>>) \o <<j, s>>)
<1> DEFINE S == {s, j, k}
           u == IF c THEN <<k>> ELSE <<>>
<1>1. <<s, j>> \in Seq(S) /\ <<j, s>> \in Seq(S) OBVIOUS
<1>2. u \in Seq(S) /\ \A n \in DOMAIN u : u[n] = k
  <2>1. <<k>> \in Seq(S) /\ \A n \in DOMAIN <<k>> : <<k>>[n] = k OBVIOUS
  <2>2. <<>> \in Seq(S) /\ DOMAIN <<>> = {} BY EmptySeq
  <2> QED BY <2>1, <2>2
<1> HIDE DEF S, u
<1>3. Ends(u \o <<s, j>>) /\ Ends(u \o <<j, s>>) BY <1>1, <1>2, EndsOf, EndsAfter
<1> QED BY <1>3 DEF u

\* The writes of a recovery: a status is written, a row is not.
LEMMA WritesOf ==
  ASSUME TypeInv, NEW p \in Paths, NEW found, NEW state, state # "conflict", NEW i, NEW action, action # "increment"
  PROVE  /\ IsStatusWrite(Status(p, found, state, i, action))
         /\ Status(p, found, state, i, action)[2].state # "conflict"
         /\ IsStatusWrite(Published(p, found, state)) /\ Published(p, found, state)[2].state # "conflict"
<1>1. /\ Transition(p, found, state, i, action).state = state
      /\ Transition(p, found, state, status[p].op, "preserve").state = state
  BY TransitionState
<1> QED BY <1>1 DEF Status, Published, IsStatusWrite

LEMMA JournalWrites == \A row : ~IsStatusWrite(Journal(row))
BY DEF Journal, IsStatusWrite

\* Whatever an inspection finds, a base is gated or ends without a conflict.
LEMMA PlannedEnds ==
  ASSUME TypeInv, NEW p \in Paths, NEW found \in {Inspected(p, recoveryOperation(p)), Uninspected},
         ~RecoveryPlan(p, found).gated
  PROVE  repo[p].merge # "conflict" /\ Ends(RecoveryPlan(p, found).writes)
<1> DEFINE i == ActiveByPath(p)
           row == journal[p][i]
           state == Settled(p, found)
<1>1. /\ ~found.blocking => repo[p].merge # "conflict"
      /\ found.state \in Halfway \cup {"aborted", "pushed"} => ~found.blocking
      /\ found.conflict => found.blocking
  BY FoundUnmerged
<1> HIDE DEF i, row
<1>2. ~Gates(state) => repo[p].merge # "conflict" /\ state # "conflict"
  BY <1>1 DEF Gates, Settled
<1>3. CASE RecoveryPlan(p, found) = RecoverSettled(p, found)
  <2> DEFINE j == recoveryOperation(p)
             halfway == j # 0 /\ journal[p][j].kind = "conflict_complete" /\ found.state \in Halfway
  <2> HIDE DEF state
  <2>1. CASE halfway
    <3>1. RecoverSettled(p, found).writes = <<Status(p, found, "error", j, "preserve")>>
      BY <2>1 DEF RecoverSettled, Plan
    <3>2. Ends(<<Status(p, found, "error", j, "preserve")>>) BY WritesOf, EndsAlone
    <3> QED BY <1>1, <1>3, <2>1, <3>1, <3>2
  <2>2. CASE ~halfway
    <3>1. /\ RecoverSettled(p, found).writes = <<Published(p, found, state)>>
          /\ RecoverSettled(p, found).gated = Gates(state)
      BY <2>2 DEF RecoverSettled, Plan, state
    <3>2. state # "conflict" => Ends(<<Published(p, found, state)>>) BY WritesOf, EndsAlone
    <3> QED BY <1>2, <1>3, <3>1, <3>2
  <2> QED BY <2>1, <2>2
<1>4. CASE RecoveryPlan(p, found) = RecoverAbort(p, row, found)
  <2>1. found.state = "aborted" BY <1>4 DEF RecoverAbort, Plan
  <2>2. RecoverAbort(p, row, found).writes =
          <<Status(p, found, "paused", i, "preserve"), Journal(Finished(row, "succeeded", "completed", NoResult))>>
    BY <2>1 DEF RecoverAbort, Plan, i
  <2>3. Ends(<<Status(p, found, "paused", i, "preserve"), Journal(Finished(row, "succeeded", "completed", NoResult))>>)
    <3> DEFINE s == Status(p, found, "paused", i, "preserve")
               j == Journal(Finished(row, "succeeded", "completed", NoResult))
    <3>1. IsStatusWrite(s) /\ s[2].state # "conflict" /\ ~IsStatusWrite(j) BY WritesOf, JournalWrites
    <3> HIDE DEF s, j, IsStatusWrite
    <3>2. Ends(<<s, j>>) BY <3>1, EndsOf
    <3> QED BY <3>2 DEF s, j
  <2> QED BY <1>1, <1>4, <2>1, <2>2, <2>3
<1>5. CASE /\ RecoveryPlan(p, found) = RecoverCompletion(p, row, found)
           /\ found.state \in Halfway \cup {"pushed"}
  <2> DEFINE reindexed == Checkpointed(row, [CheckpointOf(row) EXCEPT !.stage = "conflict_reindexed"])
             current == IF found.state = "needs_reindex" THEN reindexed ELSE row
             res == [remote |-> found.remote, push |-> 0]
  <2> HIDE DEF reindexed, current, res
  <2>1. CASE found.state = "pushed"
    <3>1. RecoverCompletion(p, row, found).writes =
            <<Status(p, found, "ready", i, "reset"), Journal(Finished(row, "succeeded", "completed", res))>>
      BY <2>1 DEF RecoverCompletion, Plan, i, res
    <3>2. Ends(<<Status(p, found, "ready", i, "reset"), Journal(Finished(row, "succeeded", "completed", res))>>)
      <4> DEFINE s == Status(p, found, "ready", i, "reset")
                 j == Journal(Finished(row, "succeeded", "completed", res))
      <4>1. IsStatusWrite(s) /\ s[2].state # "conflict" /\ ~IsStatusWrite(j) BY WritesOf, JournalWrites
      <4> HIDE DEF s, j, IsStatusWrite
      <4>2. Ends(<<s, j>>) BY <4>1, EndsOf
      <4> QED BY <4>2 DEF s, j
    <3> QED BY <1>1, <1>5, <3>1, <3>2
  <2>2. CASE found.state # "pushed"
    <3>1. RecoverCompletion(p, row, found).writes =
            (IF current # row THEN <<Journal(current)>> ELSE <<>>) \o
              <<Status(p, found, "error", i, "preserve"), Journal(Finished(current, "failed", "queued", NoResult))>>
      BY <2>2, Zenon DEF RecoverCompletion, Plan, i, current, reindexed
    <3>2. Ends((IF current # row THEN <<Journal(current)>> ELSE <<>>) \o
              <<Status(p, found, "error", i, "preserve"), Journal(Finished(current, "failed", "queued", NoResult))>>)
      <4> DEFINE s == Status(p, found, "error", i, "preserve")
                 j == Journal(Finished(current, "failed", "queued", NoResult))
                 k == Journal(current)
      <4>1. IsStatusWrite(s) /\ s[2].state # "conflict" /\ ~IsStatusWrite(j) /\ ~IsStatusWrite(k) BY WritesOf, JournalWrites
      <4> HIDE DEF s, j, k, IsStatusWrite
      <4>2. Ends((IF current # row THEN <<k>> ELSE <<>>) \o <<s, j>>) BY <4>1, EndsLate
      <4> QED BY <4>2 DEF s, j, k
    <3> QED BY <1>1, <1>5, <3>1, <3>2
  <2> QED BY <2>1, <2>2
<1>6. CASE RecoveryPlan(p, found) = RecoverInterrupted(p, row, found)
  <2> DEFINE conflict == found.conflict \/ durableConflict(p)
             trusted == Checkpointed(row, [CheckpointOf(row) EXCEPT !.remote = found.remote])
             advanced == found.remote # 0 /\ found.remote # row.remote
             current == IF advanced THEN trusted ELSE row
             final == Finished(current, IF conflict THEN "conflict" ELSE "failed", "queued", NoResult)
  <2> HIDE DEF state
  <2>1. /\ RecoverInterrupted(p, row, found).writes =
             (IF advanced THEN <<Journal(trusted)>> ELSE <<>>) \o <<Journal(final), Published(p, found, state)>>
        /\ RecoverInterrupted(p, row, found).gated = Gates(state)
    BY Zenon DEF RecoverInterrupted, Plan, state
  <2> HIDE DEF conflict, trusted, advanced, current, final
  <2>2. state # "conflict" =>
          Ends((IF advanced THEN <<Journal(trusted)>> ELSE <<>>) \o <<Journal(final), Published(p, found, state)>>)
    <3> DEFINE s == Published(p, found, state)
               j == Journal(final)
               k == Journal(trusted)
    <3>1. SUFFICES ASSUME state # "conflict" PROVE Ends((IF advanced THEN <<k>> ELSE <<>>) \o <<j, s>>)
      OBVIOUS
    <3>2. IsStatusWrite(s) /\ s[2].state # "conflict" /\ ~IsStatusWrite(j) /\ ~IsStatusWrite(k)
      BY <3>1, WritesOf, JournalWrites
    <3> HIDE DEF s, j, k, IsStatusWrite
    <3> QED BY <3>2, EndsLate
  <2> QED BY <1>2, <1>6, <2>1, <2>2
<1> QED BY <1>3, <1>4, <1>5, <1>6, Zenon DEF RecoveryPlan, i, row

\* What a plan that ends the conflict of a base has still to write.
LEMMA PlannedFenced ==
  ASSUME NEW plan, NEW r, NEW s, r.merge # "conflict", Ends(plan) PROVE PlanFenced(plan, r, s)
BY DEF Ends, PlanFenced

\* The inspection of a base gates it, or plans to end the conflict its status shows.
LEMMA RecoverBaseFenced == ASSUME TypeInv, Serial, Fence, NEW p \in Paths, RecoverBase(p) PROVE Fence'
<1>1. /\ phase = "recovering" /\ co.pc = "free" /\ queue = <<>> /\ pending' = pending \ {p} /\ p \in pending
      /\ UNCHANGED <<config, phase, queue, repo, status, journal>>
  BY DEF RecoverBase, Free, durable, Serial, Phased
<1>2. PICK gated : gate' = IF gated THEN gate \cup {p} ELSE gate \ {p}
  BY DEF RecoverBase, Regate
<1>3. JobsFenced'
  <2>1. DOMAIN queue' = {} BY <1>1
  <2> QED BY <2>1 DEF JobsFenced
<1>4. Unconfigured' BY <1>1 DEF Fence, Unconfigured
<1>5. ASSUME NEW q \in Paths, q # p, Fenceable(q)' PROVE BaseFenced(q)'
  <2>1. Fenceable(q) BY <1>1, <1>5 DEF Fenceable, RecoverBase
  <2>2. ~Shields(co, q) BY <1>1, LightOf, LightIdle
  <2>3. BaseFenced(q) BY <2>1 DEF Fence, BasesFenced
  <2> QED BY <1>1, <1>2, <1>5, <2>2, <2>3 DEF BaseFenced
<1>6. ASSUME broken', UNCHANGED co PROVE Fence'
  <2>1. ~Fenceable(p)' BY <1>1, <1>6 DEF Fenceable
  <2>2. BasesFenced' BY <1>5, <2>1 DEF BasesFenced
  <2>3. co.pc \in RequestLabels /\ co.pc \notin OfConfigured /\ co.pc # "save_config" BY <1>1, LightIdle
  <2>4. Holder' BY <1>6, <2>3, LightOf, LightFenced DEF Holder
  <2>5. RecoveryFenced' BY <1>6 DEF RecoveryFenced
  <2> QED BY <1>3, <1>4, <2>2, <2>4, <2>5 DEF Fence
<1>7. ASSUME NEW found \in {Inspected(p, recoveryOperation(p)), Uninspected},
             Regate(p, RecoveryPlan(p, found).gated),
             co' = [Idle EXCEPT !.pc = "recover", !.path = p, !.op = RecoveredRow(p),
                                !.plan = RecoveryPlan(p, found).writes,
                                !.fallback = RecoveryPlan(p, found).fallback]
      PROVE  Fence'
  <2>1. /\ co'.pc = "recover" /\ co'.path = p /\ co'.plan = RecoveryPlan(p, found).writes
        /\ co'.prev = NoStatus /\ ~co'.cleared /\ co'.err = NoError /\ co'.ck = Idle.ck
    BY <1>7 DEF Idle
  <2>2. Light(co') /\ co'.pc \in RequestLabels \ {"save_config"}
    BY <2>1 DEF Light, Idle, NoStatus, RequestLabels
  <2>3. config[p] # NoConfig BY <1>1 DEF Fence, Unconfigured
  <2>4. Holder' BY <1>1, <2>1, <2>2, <2>3, LightFenced DEF Holder
  <2>5. ~Fenceable(p)' BY <1>1, <2>1 DEF Fenceable
  <2>6. BasesFenced' BY <1>5, <2>5 DEF BasesFenced
  <2>7. p \in gate' \/ PlanFenced(RecoveryPlan(p, found).writes, repo[p], status[p])
    <3>1. CASE RecoveryPlan(p, found).gated BY <1>7, <3>1 DEF Regate
    <3>2. CASE ~RecoveryPlan(p, found).gated BY <3>2, PlannedEnds, PlannedFenced
    <3> QED BY <3>1, <3>2
  <2>8. RecoveryFenced' BY <1>1, <2>1, <2>7 DEF RecoveryFenced, Repo
  <2> QED BY <1>3, <1>4, <2>4, <2>6, <2>8 DEF Fence
<1> QED BY <1>6, <1>7 DEF RecoverBase

\* The rest of a plan, after a row or a status.
LEMMA RestOfPlan ==
  ASSUME NEW plan \in Seq(Writes), plan # <<>>, NEW r, NEW s, PlanFenced(plan, r, s)
  PROVE  /\ ~IsStatusWrite(Head(plan)) => PlanFenced(Tail(plan), r, s)
         /\ IsStatusWrite(Head(plan)) =>
              Head(plan)[2].state # "conflict" /\ PlanFenced(Tail(plan), r, Head(plan)[2])
<1> DEFINE rest == Tail(plan)
           write == Head(plan)
<1>1. /\ Len(plan) \in Nat /\ Len(plan) # 0 /\ DOMAIN plan = 1 .. Len(plan)
      /\ rest \in Seq(Writes) /\ Len(rest) = Len(plan) - 1
      /\ \A k \in 1 .. Len(rest) : rest[k] = plan[k + 1]
  BY LenProperties, EmptySeq, HeadTailProperties
<1>2. DOMAIN rest = 1 .. Len(plan) - 1 BY <1>1, LenProperties
<1>3. write = plan[1] /\ 1 \in DOMAIN plan BY <1>1
<1> HIDE DEF rest, write, IsStatusWrite
<1>4. \A k \in DOMAIN rest : k + 1 \in DOMAIN plan /\ rest[k] = plan[k + 1] BY <1>1, <1>2
<1>5. \A k \in DOMAIN plan : k = 1 \/ (k - 1 \in DOMAIN rest /\ rest[k - 1] = plan[k])
  BY <1>1, <1>2
<1>6. ~IsStatusWrite(write) => PlanFenced(rest, r, s) BY <1>3, <1>4, <1>5 DEF PlanFenced
<1>7. IsStatusWrite(write) => write[2].state # "conflict" /\ PlanFenced(rest, r, write[2])
  BY <1>3, <1>4, <1>5 DEF PlanFenced
<1> QED BY <1>6, <1>7 DEF rest, write

\* A write of a recovery brings its base nearer to what was planned; one that fails
\* keeps the server from starting.
LEMMA ApplyWriteFenced == ASSUME TypeInv, Serial, Fence, ApplyWrite PROVE Fence'
<1> DEFINE p == co.path
           write == Head(co.plan)
           rest == Tail(co.plan)
<1>1. /\ co \in Locals /\ p \in Paths /\ co.pc = "recover" /\ co.plan # <<>> /\ co.plan \in Seq(Writes)
      /\ phase = "recovering" /\ queue = <<>> /\ UNCHANGED <<config, repo, phase, pending, queue>>
  BY RepoType DEF ApplyWrite, Serial, Phased, Locals
<1>2. \/ UNCHANGED <<gate, broken>>
      \/ broken' /\ gate \subseteq gate' /\ UNCHANGED status
  BY DEF ApplyWrite
<1>3. /\ \A q \in Paths : q # p => status'[q] = status[q]
      /\ UNCHANGED status \/ status'[p] = write[2]
  BY <1>1 DEF ApplyWrite, TypeInv, TypeOK
<1>4. JobsFenced'
  <2>1. DOMAIN queue' = {} BY <1>1
  <2> QED BY <2>1 DEF JobsFenced
<1>5. Light(co) /\ config[p] # NoConfig /\ \A q : ~Shields(co, q)
  <2>1. co.pc \in RequestLabels /\ co.pc \in OfConfigured BY <1>1 DEF RequestLabels, OfConfigured
  <2> QED BY <2>1, LightOf
<1>6. Unconfigured' BY <1>1, <1>3, <1>5 DEF Fence, Unconfigured
<1>7. ASSUME NEW next, NextWrite(next)
      PROVE  \/ next = <<>> /\ co' = Idle
             \/ co'.pc = "recover" /\ co'.path = p /\ co'.plan = next /\ Light(co')
  <2>1. CASE next # <<>>
    <3>1. co' = [co EXCEPT !.plan = next] BY <1>7, <2>1 DEF NextWrite
    <3>2. /\ co'.pc = co.pc /\ co'.path = co.path /\ co'.plan = next /\ co'.prev = co.prev
          /\ co'.cleared = co.cleared /\ co'.err = co.err /\ co'.ck = co.ck
      BY <1>1, <3>1 DEF Locals
    <3> QED BY <1>1, <1>5, <3>2 DEF Light
  <2> QED BY <1>7, <2>1 DEF NextWrite
<1>8. Holder'
  <2>1. PICK next : NextWrite(next) BY DEF ApplyWrite
  <2>2. CASE co' = Idle BY <2>2, IdleFenced DEF Holder
  <2>3. CASE co'.pc = "recover" /\ co'.path = p /\ Light(co')
    <3>1. co'.pc \in RequestLabels /\ config'[co'.path] # NoConfig BY <1>1, <1>5, <2>3 DEF RequestLabels
    <3> QED BY <2>3, <3>1, LightFenced DEF Holder
  <2> QED BY <1>7, <2>1, <2>2, <2>3
<1>9. CASE broken'
  <2>1. BasesFenced' BY <1>1, <1>9 DEF BasesFenced, Fenceable
  <2>2. RecoveryFenced' BY <1>9 DEF RecoveryFenced
  <2> QED BY <1>4, <1>6, <1>8, <2>1, <2>2 DEF Fence
<1>10. CASE ~broken'
  <2>1. UNCHANGED <<gate, broken>> BY <1>2, <1>10
  <2>2. \/ ~IsStatusWrite(write) /\ UNCHANGED status /\ NextWrite(rest)
        \/ IsStatusWrite(write) /\ status'[p] = write[2] /\ NextWrite(rest)
    BY <1>1, <1>10 DEF ApplyWrite, IsStatusWrite, TypeInv, TypeOK
  <2>3. p \in gate \/ PlanFenced(co.plan, repo[p], status[p])
    BY <1>1, <1>10, <2>1 DEF Fence, RecoveryFenced, Repo
  <2> HIDE DEF write, rest, p
  <2>4. p \in gate \/ PlanFenced(rest, repo[p], status'[p])
    <3>1. /\ ~IsStatusWrite(write) => p \in gate \/ PlanFenced(rest, repo[p], status[p])
          /\ IsStatusWrite(write) => p \in gate \/ PlanFenced(rest, repo[p], write[2])
      BY <1>1, <2>3, RestOfPlan DEF write, rest
    <3> QED BY <2>2, <3>1
  <2>5. \/ rest = <<>> /\ co' = Idle
        \/ co'.pc = "recover" /\ co'.path = p /\ co'.plan = rest /\ Light(co')
    BY <1>7, <2>2 DEF p
  <2>6. RecoveryFenced'
    <3>1. CASE co' = Idle BY <3>1, LightIdle DEF RecoveryFenced
    <3>2. CASE co'.pc = "recover" /\ co'.path = p /\ co'.plan = rest
      BY <1>1, <2>1, <2>4, <3>2 DEF RecoveryFenced, Repo
    <3> QED BY <2>5, <3>1, <3>2
  <2>7. ASSUME NEW q \in Paths, Fenceable(q)' PROVE BaseFenced(q)'
    <3>1. CASE q # p
      <4>1. Fenceable(q) BY <1>1, <2>1, <2>7, <3>1 DEF Fenceable, p
      <4> QED BY <1>1, <1>3, <1>5, <2>1, <3>1, <4>1 DEF Fence, BasesFenced, BaseFenced, p
    <3>2. CASE q = p
      <4>1. rest = <<>> BY <1>1, <2>5, <2>7, <3>2 DEF Fenceable
      <4>2. DOMAIN rest = {} BY <4>1
      <4> QED BY <1>1, <2>1, <2>4, <3>2, <4>2 DEF PlanFenced, BaseFenced
    <3> QED BY <3>1, <3>2
  <2>8. BasesFenced' BY <2>7 DEF BasesFenced
  <2> QED BY <1>4, <1>6, <1>8, <2>6, <2>8 DEF Fence
<1> QED BY <1>9, <1>10

-----------------------------------------------------------------------------
(* The process and its surroundings. *)

\* A process that is not serving, or recovers nothing yet, has no holder.
LEMMA ResetFenced ==
  ASSUME TypeInv, Serial, Fence, UNCHANGED <<config, repo, status>>, phase' \in {"down", "recovering"},
         queue' = <<>>, phase' = "recovering" => pending' = {q \in Paths : config[q] # NoConfig},
         co'.pc = "free" /\ Light(co')
  PROVE  Fence'
<1>1. BasesFenced'
  <2>1. SUFFICES ASSUME NEW q \in Paths, Fenceable(q)' PROVE BaseFenced(q)'
    BY DEF BasesFenced
  <2>2. config[q] = NoConfig BY <2>1 DEF Fenceable
  <2> QED BY <2>2 DEF Fence, Unconfigured, BaseFenced
<1>2. Unconfigured' BY DEF Fence, Unconfigured
<1>3. JobsFenced'
  <2>1. DOMAIN queue' = {} OBVIOUS
  <2> QED BY <2>1 DEF JobsFenced
<1>4. RecoveryFenced' BY DEF RecoveryFenced
<1>5. Holder' BY LightIdle, LightFenced DEF Holder
<1> QED BY <1>1, <1>2, <1>3, <1>4, <1>5 DEF Fence

LEMMA DownFenced == ASSUME TypeInv, Serial, Fence, Down, UNCHANGED durable PROVE Fence'
BY LightIdle, ResetFenced DEF Down, durable

LEMMA BootFenced == ASSUME TypeInv, Serial, Fence, Boot PROVE Fence'
<1>1. phase = "down" /\ co.pc = "free" /\ queue = <<>> BY DEF Boot, Serial, Phased
<1>2. Light(co) BY <1>1, LightOf, LightIdle
<1> QED BY <1>1, <1>2, ResetFenced DEF Boot, durable, memory

\* HTTP is served once every configured base is recovered.
LEMMA ServeFenced == ASSUME TypeInv, Serial, Fence, Serve PROVE Fence'
<1>1. CASE Down BY <1>1, DownFenced DEF Serve
<1>2. CASE ~broken /\ phase' = "serving" /\ UNCHANGED <<pending, broken, memory, co>>
  <2>1. phase = "recovering" /\ co.pc = "free" /\ pending = {} /\ UNCHANGED <<config, journal, repo, status, gate, queue, co>>
    BY <1>2 DEF Serve, Free, durable, memory
  <2>2. BasesFenced'
    <3>1. SUFFICES ASSUME NEW q \in Paths PROVE BaseFenced(q)'
      BY DEF BasesFenced
    <3>2. Fenceable(q) BY <1>2, <2>1 DEF Fenceable
    <3> QED BY <2>1, <3>2 DEF Fence, BasesFenced, BaseFenced
  <2>3. Unconfigured' BY <1>2, <2>1 DEF Fence, Unconfigured
  <2>4. JobsFenced' BY <2>1 DEF Fence, JobsFenced
  <2>5. RecoveryFenced' BY <2>1 DEF RecoveryFenced
  <2>6. Holder' BY <2>1 DEF Fence, Holder, Row, Repo
  <2> QED BY <2>2, <2>3, <2>4, <2>5, <2>6 DEF Fence
<1> QED BY <1>1, <1>2 DEF Serve

LEMMA CloseFenced == ASSUME TypeInv, Serial, Fence, Close PROVE Fence'
<1>1. phase = "serving" /\ phase' = "closing" /\ UNCHANGED <<config, journal, repo, status, pending, broken, gate, queue, co>>
  BY DEF Close, Serving, durable, memory
<1>2. BasesFenced' BY <1>1 DEF Fence, BasesFenced, Fenceable, BaseFenced
<1>3. Unconfigured' BY <1>1 DEF Fence, Unconfigured
<1>4. JobsFenced' BY <1>1 DEF Fence, JobsFenced
<1>5. RecoveryFenced' BY <1>1 DEF Fence, RecoveryFenced, Repo
<1>6. Holder' BY <1>1 DEF Fence, Holder, Row, Repo
<1> QED BY <1>2, <1>3, <1>4, <1>5, <1>6 DEF Fence

\* An edit of a note and a push of another device leave the merges as they are.
LEMMA OutsideFenced ==
  ASSUME TypeInv, Serial, Fence, UNCHANGED <<config, journal, status, process, memory, co>>,
         \A q \in Paths : repo'[q].merge = repo[q].merge
  PROVE  Fence'
<1>1. UNCHANGED <<phase, pending, broken, gate, queue>> BY DEF process, memory
<1>2. JobsFenced' BY <1>1 DEF Fence, JobsFenced
<1>3. Row' = Row /\ Repo'.merge = Repo.merge BY RepoType DEF Row, Repo
<1>4. Holder' BY <1>1, <1>3 DEF Fence, Holder, HolderFenced, StepFenced
<1> QED BY <1>1, <1>2, <1>4, QuietFenced

LEMMA WorldFenced ==
  ASSUME TypeInv, Serial, Fence, RecoveryStep \/ Exit \/ Surroundings PROVE Fence'
<1>1. CASE Exit \/ Crash BY <1>1, DownFenced DEF Exit, Crash, durable
<1>2. ASSUME NEW p \in Paths, NoteWrite(p) PROVE Fence'
  <2>1. \A q \in Paths : repo'[q].merge = repo[q].merge
    BY <1>2 DEF NoteWrite, UpdateRepo, TypeInv, TypeOK, Repos
  <2> QED BY <1>2, <2>1, OutsideFenced DEF NoteWrite
<1>3. ASSUME NEW p \in Paths, OtherDevicePush(p) PROVE Fence'
  <2>1. \A q \in Paths : repo'[q].merge = repo[q].merge
    BY <1>3 DEF OtherDevicePush, UpdateRepo, TypeInv, TypeOK, Repos
  <2> QED BY <1>3, <2>1, OutsideFenced DEF OtherDevicePush
<1> QED BY <1>1, <1>2, <1>3, ApplyWriteFenced, RecoverBaseFenced, ServeFenced, CloseFenced, BootFenced
    DEF RecoveryStep, Surroundings

-----------------------------------------------------------------------------
(* The theorems. *)

LEMMA InitFenced == ASSUME Init PROVE Fence
<1>1. /\ status = [p \in Paths |-> IF p \in Connected THEN ConnectedStatus ELSE NoStatus]
      /\ repo = [p \in Paths |-> IF p \in Connected THEN ConnectedRepo ELSE FreshRepo]
      /\ phase = "down" /\ queue = <<>> /\ co = Idle
  BY DEF Init
<1>2. \A p \in Paths : repo[p].merge = "none" /\ status[p].state # "conflict"
  <2>1. ConnectedRepo.merge = "none" /\ FreshRepo.merge = "none" BY DEF ConnectedRepo, FreshRepo
  <2>2. ConnectedStatus.state # "conflict" /\ NoStatus.state # "conflict" BY DEF ConnectedStatus, NoStatus
  <2> QED BY <1>1, <2>1, <2>2
<1>3. BasesFenced BY <1>1 DEF BasesFenced, Fenceable
<1>4. Unconfigured BY <1>1, <1>2 DEF Unconfigured
<1>5. JobsFenced
  <2>1. DOMAIN queue = {} BY <1>1
  <2> QED BY <2>1 DEF JobsFenced
<1>6. RecoveryFenced BY <1>1, LightIdle DEF RecoveryFenced
<1>7. Holder BY <1>1, IdleFenced DEF Holder
<1> QED BY <1>3, <1>4, <1>5, <1>6, <1>7 DEF Fence

\* The induction step, by group of actions.
LEMMA FenceStep == ASSUME TypeInv, Serial, Fence, [Next]_vars PROVE Fence'
<1>1. CASE UNCHANGED vars
  <2>1. UNCHANGED <<config, journal, status, repo, phase, pending, broken, gate, queue, co>>
    BY <1>1 DEF vars, durable, process, memory
  <2>2. JobsFenced' BY <2>1 DEF Fence, JobsFenced
  <2>3. Holder' BY <2>1 DEF Fence, Holder, Row, Repo
  <2> QED BY <2>1, <2>2, <2>3, QuietFenced
<1> QED BY <1>1, RequestsFenced, AdmissionFenced, BeginFenced, ResolveConflictFenced, JobFenced, WorldFenced
    DEF Next, TakeJob

\* The inductive invariant: a conflict is gated, or known to the holder of the
\* coordinator, who will gate it, or to the plan of a recovery that still runs.
THEOREM FenceInvariant == Spec => []Fence
<1>1. Init => Fence BY InitFenced
<1>2. TypeInv /\ Serial /\ Fence /\ [Next]_vars => Fence' BY FenceStep
<1> QED BY <1>1, <1>2, TypesInvariant, SerialInvariant, PTL DEF Spec

\* While note edits are possible and a merge waits for its conflicts, the base is gated
\* or its worktree locked by the job that found the conflict.
THEOREM MergesAreFenced == Spec => []MergeFenced
<1>1. Fence => MergeFenced BY DEF Fence, BasesFenced, Fenceable, BaseFenced, Shields, MergeFenced, Locked
<1> QED BY <1>1, FenceInvariant, PTL

\* A base shown in conflict is gated while HTTP is served, across restarts too.
THEOREM ConflictsAreGated == Spec => []ConflictGated
<1>1. Fence => ConflictGated BY DEF Fence, BasesFenced, Fenceable, BaseFenced, ConflictGated, Locked
<1> QED BY <1>1, FenceInvariant, PTL

\* In serving, a gate opens at the end of a completion or an abort only.
LEMMA GateMoves ==
  ASSUME TypeInv, [Next]_vars, phase = "serving", phase' = "serving"
  PROVE  gate \subseteq gate' \/ Publish \/ AbortJournal
<1>1. CASE Requests
  BY <1>1 DEF Requests, QueueSync, Resume, EnqueueResolve, Disable, QueueConflict, Configure,
     QueueInitialize, ChangeStatus, memory
<1>2. CASE AdmissionStep
  BY <1>2 DEF AdmissionStep, RefreshQueued, AdmitSync, AdmitInitialize, Admit, AdmitResume, CreateResumed,
     Rollback, AdmitStatus, Undo, SaveConfig, RestoreStatus, memory
<1>3. CASE TakeJob BY <1>3 DEF TakeJob, Begin, ResolveConflict, WorkerFrame, durable
<1>4. CASE JobStep
  BY <1>4 DEF JobStep, FinishStale, Abandon, Checkpoint, Leave, Preflight, Probe,
     CreateRepository, Fetch, Trust, OpenSnapshot, Commit, MergeNeeded, RunMerge, Push, Settle,
     VerifyCompletion, CommitMerge, SyncIndex, SaveConflictPushing, VerifyAbort, AbortMerge, Aborted,
     AbortStatus, SucceedJournal, SucceedStatus, Failed, FailJournal, FailStatus, GatedConflict, Strand, FinishRow,
     CommandFrame, RepoFrame, WorkerFrame, MemoryFrame
<1>5. CASE RecoveryStep \/ Exit
  BY <1>5 DEF RecoveryStep, ApplyWrite, Serve, RecoverBase, Exit, Down
<1>6. CASE Surroundings BY <1>6 DEF Surroundings, Close, Crash, Down, Boot, NoteWrite, OtherDevicePush, memory
<1>7. CASE UNCHANGED vars BY <1>7 DEF vars, memory
<1> QED BY <1>1, <1>2, <1>3, <1>4, <1>5, <1>6, <1>7 DEF Next

\* The gate of a base in serving opens only over a repository in which no merge waits:
\* a completion has committed the merge, an abort has undone it.
THEOREM GateOpensLate == Spec => GateOpensWithoutMerge
<1>1. ASSUME TypeInv, Serial, Fence, [Next]_vars, NEW p \in Paths, p \in gate, p \notin gate',
             phase = "serving", phase' = phase
      PROVE  repo[p].merge = "none"
  <2>1. CASE Publish
    <3>1. co.pc = "publish" /\ co.pc \in RowLabels BY <2>1 DEF Publish, RowLabels, JobLabels
    <3>2. p = co.path /\ Reindexed BY <1>1, <2>1 DEF Publish
    <3>3. StepFenced(co, Row, Repo, status[co.path], co.path \in gate)
      BY <1>1, <3>1, JobKnows DEF HolderFenced
    <3>4. Repo.merge = "none" BY <3>1, <3>2, <3>3 DEF StepFenced, Heading, Endings, Reindexed
    <3> QED BY <3>2, <3>4 DEF Repo
  <2>2. CASE AbortJournal
    <3>1. co.pc = "abort_journal" /\ co.pc \in Commands BY <2>2 DEF AbortJournal, Commands, JobLabels
    <3>2. p = co.path BY <1>1, <2>2 DEF AbortJournal
    <3>3. Repo.merge = "none" BY <1>1, <3>1, CommandKnows DEF StepFenced
    <3> QED BY <3>2, <3>3 DEF Repo
  <2> QED BY <1>1, <2>1, <2>2, GateMoves
<1>2. TypeInv /\ Serial /\ Fence /\ [Next]_vars =>
        [\A p \in Paths : p \in gate /\ p \notin gate' /\ phase = "serving" /\ phase' = phase =>
           repo[p].merge = "none"]_vars
  BY <1>1
<1> QED BY <1>2, TypesInvariant, SerialInvariant, FenceInvariant, PTL DEF Spec, GateOpensWithoutMerge
=============================================================================
