------------------------------ MODULE GitBase -------------------------------
(***************************************************************************)
(* State shared by the parts of the Git manager: what survives a restart   *)
(* (the configuration, the SQLite tables git_operations and git_status,    *)
(* the repository on disk, the remote branch) and what a process holds in  *)
(* memory (the coordinator, its conflict gate, the FIFO queue, inFlight).  *)
(* Admission, jobs and recovery, each a module of its own, act on it.      *)
(*                                                                         *)
(* An object ID is a natural number, 0 the empty string of the code; a     *)
(* base's IDs are numbered in the order its commits appear.  An operation  *)
(* ID is the index of its row in journal[p].  Every configuration in       *)
(* Configs names the same URL and branch: they differ in the template, the *)
(* interval or auto_sync, that is, in the configuration fingerprint.       *)
(***************************************************************************)
EXTENDS GitOutcome, Sequences

CONSTANTS Paths,       \* canonical repository paths of the bases
          Configs,     \* configuration fingerprints of one remote
          NoConfig,    \* Git is not configured for the base
          Connected,   \* the bases an earlier initialize has connected
          MaxOps,      \* bound: operations per base
          MaxEdits,    \* bound: note edits
          MaxPushes,   \* bound: pushes other devices make
          MaxFaults,   \* bound: failed database, config or index writes
          MaxStops     \* bound: crashes and shutdowns

ASSUME PathsAssumption   == Paths # {} /\ Connected \subseteq Paths
ASSUME ConfigsAssumption == NoConfig \notin Configs
ASSUME BoundsAssumption  == /\ MaxOps \in Nat /\ MaxEdits \in Nat /\ MaxPushes \in Nat
                            /\ MaxFaults \in Nat /\ MaxStops \in Nat

VARIABLES
  config,      \* config.json: the Git configuration of every base
  journal,     \* table git_operations, per path in creation order
  status,      \* table git_status, one row per path
  repo,        \* HEAD, merge state and igonotes refs of every repository
  server,      \* head of the remote branch
  published,   \* every commit that has been head of the remote branch
  phase,       \* lifecycle of the process
  pending,     \* bases RecoverLocal has still to visit
  broken,      \* RecoverLocal has met an error it will return
  gate,        \* conflict snapshot of BaseOperationCoordinator
  queue,       \* m.queue
  inFlight,    \* m.inFlight: the operation of the path, 0 for none
  connecting,  \* PUT /api/git/config requests between save and queueing
  degraded,    \* s.degraded of SettingsService
  co,          \* locals of the one holder of the coordinator
  spent        \* how much of every bound but MaxOps is used

durable  == <<config, journal, status, repo, server, published>>
process  == <<phase, pending, broken>>
memory   == <<gate, queue, inFlight, connecting, degraded>>
vars     == <<durable, process, memory, co, spent>>

Stages == {"queued", "probing", "fetching", "snapshotting", "merging",
           "reindexing", "pushing", "completed", "conflict_completing",
           "conflict_committed", "conflict_reindexed", "conflict_pushing",
           "conflict_aborting"}
ActiveStates == {"queued", "running"}
ConflictKinds == {"conflict_complete", "conflict_abort"}
Phases == {"down", "recovering", "serving", "closing"}

Oids == Nat
NoStatus == [state |-> "absent", op |-> 0, failures |-> 0, remote |-> 0]
Statuses == [state : GitStates \cup {"absent"}, op : Nat, failures : Nat, remote : Oids]
Rows == [kind : OperationKinds, cfg : Configs \cup {NoConfig}, state : OperationStates,
         stage : Stages, local : Oids, candidate : Oids, remote : Oids, push : Oids]
Checkpoints == [stage : Stages, local : Oids, candidate : Oids, remote : Oids, push : Oids]
Results == [remote : Oids, push : Oids]
Repos == [origin : BOOLEAN,                   \* initialized, with the configured origin
          head : Oids, history : SUBSET Oids, \* HEAD and the commits it reaches
          merge : {"none", "conflict", "resolved"}, mergeHead : Oids,
          managed : Oids,                     \* refs/igonotes/remotes/<branch>
          private : SUBSET (Nat \X Oids),     \* refs/igonotes/fetch/<operation>
          dirty : BOOLEAN,                    \* note edits no commit holds
          last : Oids]                        \* the newest commit anywhere
Jobs == [path : Paths, op : Nat, cfg : Configs \cup {NoConfig}]
Writes == ({"journal"} \X Rows) \cup ({"status", "publish"} \X Statuses)

-----------------------------------------------------------------------------
(* The journal. *)

Op(p) == DOMAIN journal[p]
ActiveRows(p) == {i \in Op(p) : journal[p][i].state \in ActiveStates}
\* Variant: rows that wait in the queue are overlooked.
RunningByPath(p) ==
  LET running == {i \in Op(p) : journal[p][i].state = "running"} IN
  IF running = {} THEN 0 ELSE CHOOSE i \in running : TRUE

ActiveByPath(p) == IF ActiveRows(p) = {} THEN 0 ELSE CHOOSE i \in ActiveRows(p) : TRUE
LatestByPath(p) == Len(journal[p])
ConflictRows(p) == {i \in Op(p) : journal[p][i].state = "conflict"}
LatestConflictByPath(p) ==
  IF ConflictRows(p) = {} THEN 0
  ELSE CHOOSE i \in ConflictRows(p) : \A j \in ConflictRows(p) : j <= i

Original(row) == row.kind \in {"initialize", "sync"}
sameManagerIdentity(row, cfg) == row.cfg = cfg

\* Checkpoint: the row turns running and takes the OIDs of the checkpoint.
Checkpointed(row, ck) ==
  [row EXCEPT !.state = "running", !.stage = ck.stage, !.local = ck.local,
              !.candidate = ck.candidate, !.remote = ck.remote, !.push = ck.push]

CheckpointOf(row) ==
  [stage |-> row.stage, local |-> row.local, candidate |-> row.candidate,
   remote |-> row.remote, push |-> row.push]

Keep(old, new) == IF old = 0 THEN new ELSE old

\* Finish: an OID already in the row is kept, only "completed" moves the stage.
Finished(row, state, stage, res) ==
  [row EXCEPT !.state = state,
              !.stage = IF stage = "completed" THEN stage ELSE @,
              !.remote = Keep(@, res.remote), !.push = Keep(@, res.push)]

NoResult == [remote |-> 0, push |-> 0]

CreateQueued(p, row) == journal' = [journal EXCEPT ![p] = Append(@, row)]
WriteRow(p, i, row)  == journal' = [journal EXCEPT ![p][i] = row]

QueuedRow(kind, cfg, ck) ==
  [kind |-> kind, cfg |-> cfg, state |-> "queued", stage |-> "queued",
   local |-> ck.local, candidate |-> ck.candidate, remote |-> ck.remote, push |-> ck.push]

-----------------------------------------------------------------------------
(* The status table.  A status that is absent is seeded with no failures. *)

ApplyTransition(before, after, action) ==
  [after EXCEPT !.state = NextState(@, before.failures, action),
                !.failures = NextFailures(before.failures, action)]

applyStatus(p, after, action) ==
  status' = [status EXCEPT ![p] = ApplyTransition(@, after, action)]

\* Variant: the kind of the operation in the column of the state.
KindAsState(kind) == IF kind = "initialize" THEN "initializing" ELSE kind

WorkingState(kind) == IF kind = "initialize" THEN "initializing" ELSE "syncing"

\* managerWorkingStatus: the trusted OID of the row becomes the public one.
WorkingStatus(p, i, state, remote) ==
  [status[p] EXCEPT !.state = state, !.op = i, !.remote = remote]

FoundStatus(p) == status[p].state # "absent"

\* managerOperationTrustedOID
OperationTrustedOID(row, s) ==
  IF /\ row.state = "succeeded" /\ row.stage = "completed" /\ row.push # 0
     /\ s.state = "ready" /\ s.remote = row.push
  THEN row.push ELSE row.remote

\* managerAdmissionTrust refuses a public and a journalled OID that differ, and
\* for a sync one that is missing; it returns the OID they agree on.
TrustRefused(kind, row, s) ==
  LET trusted == OperationTrustedOID(row, s) IN
  \/ s.remote # 0 /\ trusted # 0 /\ s.remote # trusted
  \/ kind = "sync" /\ (s.remote = 0 \/ trusted = 0)
AdmissionTrust(row, s) == Keep(s.remote, OperationTrustedOID(row, s))

-----------------------------------------------------------------------------
(* The holder of the coordinator: an admission, a job, a settings change or *)
(* one base of RecoverLocal.  pc is its next step, "free" an unheld lock.   *)

\* Steps without a journal row, and steps of a holder that has one: an admission
\* at its end and a job.  A request whose base has a stale job starts in "refresh".
AdmissionLabels == {"admit_sync", "admit_initialize", "admit_resume"}
RequestLabels == AdmissionLabels \cup
  {"free", "create_resumed", "rollback", "save_config", "restore_status", "recover", "refresh"}
JobLabels ==
  {"stale", "journal", "publish", "leave", "preflight", "probe",
   "create_repository", "fetch", "trust", "open_snapshot", "commit", "merge", "run_merge",
   "push", "settle", "verify_completion", "commit_merge", "sync_index",
   "save_conflict_pushing", "verify_abort", "abort_merge", "aborted", "abort_status",
   "abort_journal", "succeed_journal", "succeed_status", "failed", "fail_journal",
   "fail_status"}
RowLabels == {"admit_status", "undo"} \cup JobLabels
Labels == RequestLabels \cup RowLabels
Continuations == {"free"} \cup AdmissionLabels \cup JobLabels

Locals == [pc : Labels, path : Paths, op : Nat, ck : Checkpoints, next : Continuations,
           after : Continuations, err : ErrorCodes, cleared : BOOLEAN, tx : BOOLEAN,
           attempt : {1, 2}, res : Results, resumed : BOOLEAN, prev : Statuses,
           cfg : Configs \cup {NoConfig}, plan : Seq(Writes), fallback : Seq(Writes)]

Idle == [pc |-> "free", path |-> CHOOSE p \in Paths : TRUE, op |-> 0,
         ck |-> [stage |-> "queued", local |-> 0, candidate |-> 0, remote |-> 0, push |-> 0],
         next |-> "free", after |-> "free", err |-> NoError, cleared |-> FALSE, tx |-> FALSE,
         attempt |-> 1, res |-> NoResult, resumed |-> FALSE, prev |-> NoStatus,
         cfg |-> NoConfig, plan |-> <<>>, fallback |-> <<>>]

Free == co.pc = "free"
\* m.mu, which guards closed, queue and inFlight, is held to the last write.
MutexHeld == co.pc \in {"create_resumed", "admit_status", "undo", "rollback"}
Release == co' = Idle
Goto(label) == co' = [co EXCEPT !.pc = label]

Row == journal[co.path][co.op]
Kind == Row.kind
Repo == repo[co.path]

\* A bounded number of writes to SQLite, config.json or the note index fail.
Fault == /\ spent.faults < MaxFaults
         /\ spent' = [spent EXCEPT !.faults = @ + 1]
NoFault == UNCHANGED spent

\* queueOperation and the settings mutations run while HTTP is served.
Serving == phase = "serving"
Locked(p) == p \in gate

UpdateRepo(p, new) == repo' = [repo EXCEPT ![p] = new]

-----------------------------------------------------------------------------
(* A base whose first initialize pushed commit 1, or one never connected    *)
(* whose remote branch, made by another device, is at commit 1.             *)

ConnectedRow(cfg) ==
  [kind |-> "initialize", cfg |-> cfg, state |-> "succeeded", stage |-> "completed",
   local |-> 1, candidate |-> 1, remote |-> 1, push |-> 1]
ConnectedStatus == [state |-> "ready", op |-> 1, failures |-> 0, remote |-> 1]
ConnectedRepo ==
  [origin |-> TRUE, head |-> 1, history |-> {1}, merge |-> "none", mergeHead |-> 0,
   managed |-> 1, private |-> {}, dirty |-> FALSE, last |-> 1]
FreshRepo == [ConnectedRepo EXCEPT !.origin = FALSE, !.head = 0, !.history = {},
                                   !.managed = 0, !.dirty = TRUE]

Init ==
  /\ \E cfg \in Configs :
       /\ config  = [p \in Paths |-> IF p \in Connected THEN cfg ELSE NoConfig]
       /\ journal = [p \in Paths |-> IF p \in Connected THEN <<ConnectedRow(cfg)>> ELSE <<>>]
  /\ status = [p \in Paths |-> IF p \in Connected THEN ConnectedStatus ELSE NoStatus]
  /\ repo = [p \in Paths |-> IF p \in Connected THEN ConnectedRepo ELSE FreshRepo]
  /\ server = [p \in Paths |-> 1] /\ published = [p \in Paths |-> {1}]
  /\ phase = "down" /\ pending = {} /\ broken = FALSE
  /\ gate = {} /\ queue = <<>> /\ inFlight = [p \in Paths |-> 0]
  /\ connecting = {} /\ degraded = FALSE
  /\ co = Idle
  /\ spent = [faults |-> 0, stops |-> 0, pushes |-> 0, edits |-> 0]
=============================================================================
