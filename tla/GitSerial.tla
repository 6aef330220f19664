------------------------------ MODULE GitSerial ------------------------------
(***************************************************************************)
(* The type invariant of GitManager, and one Git operation at a time: the  *)
(* unique index on the active rows of a base is never what stops a second  *)
(* one, and a job in the worker's queue has not been finished by anyone    *)
(* else.  Proved for every set of bases, every set of configurations and   *)
(* every bound.                                                            *)
(*                                                                         *)
(* TypeOK alone is not inductive: a row number is a natural number, and a  *)
(* step that reads or writes the row it names stays typed only because the *)
(* row exists.  RowsExist says so of each holder of a row number.  The     *)
(* first half has one lemma per action; a step of a job goes through       *)
(* JobTypes or WriteTypes, a request through RequestTypes, which state     *)
(* what is left to check for a step of that kind.                          *)
(***************************************************************************)
EXTENDS GitManager, TLAPS, SequenceTheorems

\* The row numbers held outside the journal are rows of it: a queued job's
\* (0 is a scheduled job, whose row is made when it is taken) and that of the
\* holder of the coordinator.  A request that waits for refreshQueued goes on
\* to an admission.
RowsExist ==
  /\ \A k \in DOMAIN queue : queue[k].op \in Op(queue[k].path) \cup {0}
  /\ co.pc \in RowLabels => co.op \in Op(co.path)
  /\ co.pc = "refresh" => co.next \in AdmissionLabels

\* The inductive invariant: TypeOK, and what makes it inductive.
TypeInv == TypeOK /\ RowsExist

\* A step of the worker goes to another of its steps, on the same row.
Moves ==
  /\ co' \in Locals /\ co'.pc \in Continuations
  /\ co'.pc \in RowLabels => co'.op = co.op /\ co'.path = co.path

\* The locals a released coordinator has are typed.
LEMMA IdleType == Idle \in Locals
<1>1. Idle.ck \in Checkpoints
  BY DEF Idle, Checkpoints, Oids, Stages
<1>2. NoStatus \in Statuses /\ NoResult \in Results /\ NoError \in ErrorCodes
  BY DEF Statuses, NoStatus, Oids, Results, NoResult, NoError, ErrorCodes
<1>3. (CHOOSE p \in Paths : TRUE) \in Paths
  BY PathsAssumption
<1>4. <<>> \in Seq(Writes)
  BY EmptySeq
<1>5. "free" \in Labels /\ "free" \in Continuations
  BY DEF Labels, RequestLabels, AdmissionLabels, Continuations
<1> QED BY <1>1, <1>2, <1>3, <1>4, <1>5, SMT DEF Idle, Locals

\* How the sets of step names lie in one another.
LEMMA LabelsOf ==
  /\ RequestLabels \subseteq Labels /\ RowLabels \subseteq Labels /\ Continuations \subseteq Labels
  /\ JobLabels \subseteq Continuations /\ JobLabels \subseteq RowLabels
  /\ AdmissionLabels \subseteq Continuations
  /\ RequestLabels \cap RowLabels = {} /\ "refresh" \notin Continuations /\ "free" \in Continuations
BY SMT DEF Labels, RequestLabels, AdmissionLabels, RowLabels, JobLabels, Continuations

\* A checkpoint that is about to be saved keeps the locals typed.
LEMMA SaveType ==
  ASSUME co \in Locals, NEW ck \in Checkpoints, NEW label \in Continuations, Save(ck, label)
  PROVE  /\ co' \in Locals /\ co'.pc \in Continuations
         /\ co'.op = co.op /\ co'.path = co.path
<1>1. "journal" \in Labels \cap Continuations BY DEF Labels, Continuations, RowLabels, JobLabels
<1> QED BY <1>1, Zenon DEF Locals, Save

\* A release leaves no holder and no row.
LEMMA ReleaseType ==
  ASSUME Release
  PROVE  /\ co' \in Locals /\ co'.pc = "free" /\ co'.pc \in Continuations
         /\ co'.pc \notin RowLabels /\ co'.pc # "refresh"
BY IdleType DEF Release, Idle, RowLabels, JobLabels, Continuations

\* A checkpoint moved to another stage is a checkpoint.
LEMMA AtType == ASSUME co \in Locals, NEW stage \in Stages PROVE At(stage) \in Checkpoints
BY DEF Locals, At, Checkpoints

\* The error codes the commands of a job end with.
LEMMA CodeTypes ==
  {"git_command_failed", "git_conflict", "needs_reconnect", "operation_interrupted",
   "remote_history_rewritten", "push_rejected", "git_recovery_required"} \subseteq ErrorCodes
BY DEF ErrorCodes, SafetyCodes, OperationalCodes

\* A command that fails keeps the locals typed and the row of the job.
LEMMA FailType ==
  ASSUME co \in Locals, NEW code \in ErrorCodes, Fail(code)
  PROVE  /\ co' \in Locals /\ co'.pc \in Continuations
         /\ co'.op = co.op /\ co'.path = co.path
<1>1. {"leave", "failed"} \subseteq Labels \cap Continuations
  BY DEF Labels, Continuations, RowLabels, JobLabels
<1>2. CASE co.tx BY <1>1, <1>2, Zenon DEF Locals, Fail
<1>3. CASE ~co.tx BY <1>1, <1>3, Zenon DEF Locals, Fail
<1> QED BY <1>2, <1>3

\* A Git command changes one repository into a repository.
LEMMA UpdateType ==
  ASSUME repo \in [Paths -> Repos], NEW p \in Paths, NEW r \in Repos, UpdateRepo(p, r)
  PROVE  repo' \in [Paths -> Repos]
BY DEF UpdateRepo

\* ApplyTransition writes a status.
LEMMA ApplyType ==
  ASSUME status \in [Paths -> Statuses], NEW p \in Paths, NEW after \in Statuses,
         NEW action \in FailureActions, applyStatus(p, after, action)
  PROVE status' \in [Paths -> Statuses]
<1>1. NextState(after.state, status[p].failures, action) \in GitStates \cup {"absent"}
  BY DEF NextState, Statuses, GitStates
<1>2. NextFailures(status[p].failures, action) \in Nat
  BY SMT DEF NextFailures, Statuses, FailureActions
<1>3. ApplyTransition(status[p], after, action) \in Statuses
  BY <1>1, <1>2, Zenon DEF ApplyTransition, Statuses
<1> QED BY <1>3 DEF applyStatus

\* An UPDATE of git_operations keeps the table typed, and its rows in place.
LEMMA WriteType ==
  ASSUME journal \in [Paths -> Seq(Rows)], NEW p \in Paths, NEW i, NEW row \in Rows,
         WriteRow(p, i, row)
  PROVE journal' \in [Paths -> Seq(Rows)] /\ \A q \in Paths : Op(q)' = Op(q)
<1>1. PICK n \in Nat : journal[p] \in [1..n -> Rows]
  BY SeqDef
<1>2. [journal[p] EXCEPT ![i] = row] \in [1..n -> Rows]
  BY <1>1
<1>3. [journal[p] EXCEPT ![i] = row] \in Seq(Rows)
  BY <1>2, SeqDef
<1> QED BY <1>3 DEF WriteRow, Op

\* CreateQueued adds one row, the last of its base.
LEMMA CreateType ==
  ASSUME journal \in [Paths -> Seq(Rows)], NEW p \in Paths, NEW row \in Rows, CreateQueued(p, row)
  PROVE /\ journal' \in [Paths -> Seq(Rows)]
        /\ \A q \in Paths : Op(q) \subseteq Op(q)'
        /\ Len(journal[p]) + 1 \in Op(p)' /\ Len(journal[p]) \in Nat
<1>1. Append(journal[p], row) \in Seq(Rows) /\ Len(Append(journal[p], row)) = Len(journal[p]) + 1
  BY AppendProperties
<1>2. /\ DOMAIN journal[p] = 1 .. Len(journal[p]) /\ Len(journal[p]) \in Nat
      /\ DOMAIN Append(journal[p], row) = 1 .. Len(journal[p]) + 1
  BY <1>1, LenProperties
<1> QED BY <1>1, <1>2 DEF CreateQueued, Op

\* Finish makes a row of a row.
LEMMA FinishedType ==
  ASSUME NEW row \in Rows, NEW state \in OperationStates, NEW stage \in Stages,
         NEW res \in Results
  PROVE Finished(row, state, stage, res) \in Rows
<1>1. Keep(row.remote, res.remote) \in Oids /\ Keep(row.push, res.push) \in Oids
  BY DEF Keep, Rows, Results
<1>2. (IF stage = "completed" THEN stage ELSE row.stage) \in Stages
  BY DEF Rows
<1> QED BY <1>1, <1>2, Zenon DEF Finished, Rows

\* Checkpoint makes a row of a row.
LEMMA CheckpointedType ==
  ASSUME NEW row \in Rows, NEW ck \in Checkpoints
  PROVE  Checkpointed(row, ck) \in Rows
<1>1. "running" \in OperationStates BY DEF OperationStates
<1> QED BY <1>1, Zenon DEF Checkpointed, Rows, Checkpoints

\* A fault, and the lack of one, keep the bounds typed.
LEMMA SpentType ==
  ASSUME TypeOK, Fault \/ NoFault
  PROVE  spent' \in [faults : Nat, stops : Nat, pushes : Nat, edits : Nat]
<1>1. CASE NoFault BY <1>1 DEF TypeOK, NoFault
<1>2. CASE Fault
  <2>1. spent.faults + 1 \in Nat BY DEF TypeOK
  <2> QED BY <1>2, <2>1, Zenon DEF TypeOK, Fault
<1> QED BY <1>1, <1>2

\* A holder that has a row has it in the journal.
LEMMA RowType == ASSUME TypeInv, co.pc \in RowLabels PROVE Row \in Rows /\ co.path \in Paths
<1>1. co.path \in Paths /\ co.op \in DOMAIN journal[co.path]
  BY DEF TypeInv, TypeOK, RowsExist, Op, Locals
<1> QED BY <1>1, ElementOfSeq, LenProperties DEF Row, TypeInv, TypeOK

\* What the type invariant says of the holder and its repository.
LEMMA RepoType ==
  ASSUME TypeInv
  PROVE  /\ co \in Locals /\ co.path \in Paths /\ co.ck \in Checkpoints
         /\ Repo \in Repos /\ Repo.last \in Nat /\ Repo.head \in Nat
         /\ Repo.history \subseteq Nat
BY DEF TypeInv, TypeOK, Repo, Locals, Repos, Oids

\* A step of the worker whose writes are typed preserves the type invariant.
LEMMA StepTypes ==
  ASSUME TypeInv, co' \in Locals, co'.pc \in Continuations,
         (co.pc \in RowLabels => co.op \in Op(co.path))',
         journal' \in [Paths -> Seq(Rows)], \A q \in Paths : Op(q) \subseteq Op(q)',
         status' \in [Paths -> Statuses], repo' \in [Paths -> Repos],
         server' \in [Paths -> Oids], published' \in [Paths -> SUBSET Oids],
         gate' \subseteq Paths, inFlight' \in [Paths -> Nat],
         spent' \in [faults : Nat, stops : Nat, pushes : Nat, edits : Nat],
         UNCHANGED <<config, phase, pending, broken, queue, connecting, degraded>>
  PROVE  TypeInv'
<1>1. ASSUME NEW k \in DOMAIN queue PROVE queue[k].path \in Paths
  <2>1. queue \in Seq(Jobs) BY DEF TypeInv, TypeOK
  <2>2. queue[k] \in Jobs BY <2>1, LenProperties, ElementOfSeq
  <2> QED BY <2>2 DEF Jobs
<1>2. TypeOK' BY DEF TypeInv, TypeOK
<1>3. (\A k \in DOMAIN queue : queue[k].op \in Op(queue[k].path) \cup {0})'
  <2>1. \A k \in DOMAIN queue : queue[k].op \in DOMAIN journal'[queue[k].path] \cup {0}
    BY <1>1 DEF TypeInv, RowsExist, Op
  <2> QED BY <2>1 DEF Op
<1>4. RowsExist' BY <1>3, LabelsOf DEF RowsExist
<1> QED BY <1>2, <1>4 DEF TypeInv

\* A Git command of a job, which changes no table, preserves the type invariant.
LEMMA JobTypes ==
  ASSUME TypeInv, co.pc \in RowLabels, co' \in Locals, co'.pc \in Continuations,
         co'.op = co.op, co'.path = co.path,
         repo' \in [Paths -> Repos],
         Fault \/ NoFault,
         UNCHANGED <<config, phase, pending, broken, queue, connecting, degraded,
                     journal, status, server, published, gate, inFlight>>
  PROVE  TypeInv' /\ Moves
<1>1. \A q \in Paths : Op(q)' = Op(q) BY DEF Op
<1>2. co.path \in Paths /\ co.op \in Op(co.path) BY DEF TypeInv, TypeOK, RowsExist, Locals
<1>3. (co.pc \in RowLabels => co.op \in Op(co.path))' BY <1>1, <1>2 DEF Op
<1>4. spent' \in [faults : Nat, stops : Nat, pushes : Nat, edits : Nat] BY SpentType DEF TypeInv
<1>5. \A q \in Paths : Op(q) \subseteq Op(q)' BY <1>1
<1>6. /\ journal' \in [Paths -> Seq(Rows)] /\ status' \in [Paths -> Statuses]
      /\ server' \in [Paths -> Oids] /\ published' \in [Paths -> SUBSET Oids]
      /\ gate' \subseteq Paths /\ inFlight' \in [Paths -> Nat]
  BY DEF TypeInv, TypeOK
<1> QED BY <1>3, <1>4, <1>5, <1>6, LabelsOf, StepTypes DEF Moves

\* Preflight preserves the type invariant.
LEMMA PreflightTypes == ASSUME TypeInv, Preflight PROVE TypeInv' /\ Moves
<1> USE RepoType
<1>0. co.pc \in RowLabels /\ {"fetch", "leave", "journal"} \subseteq Labels \cap Continuations
  BY DEF Preflight, RowLabels, JobLabels, Labels, Continuations
<1>1. At("merging") \in Checkpoints /\ At("fetching") \in Checkpoints BY AtType DEF Stages
<1>2. co' \in Locals /\ co'.pc \in Continuations /\ co'.op = co.op /\ co'.path = co.path
  <2>1. CASE co' = [co EXCEPT !.tx = TRUE, !.err = "git_conflict", !.ck = At("merging"),
                            !.pc = "journal", !.next = "leave"]
     BY <1>0, <1>1, <2>1, CodeTypes, Zenon DEF Locals
  <2>2. CASE Save(At("fetching"), "fetch") BY <1>0, <1>1, <2>2, SaveType
  <2>3. CASE \E code \in {"needs_reconnect", "git_command_failed"} : Fail(code)
    BY <2>3, CodeTypes, FailType
  <2> QED BY <2>1, <2>2, <2>3 DEF Preflight
<1> QED
  BY <1>0, <1>2, JobTypes DEF Preflight, CommandFrame, RepoFrame, WorkerFrame, MemoryFrame,
     process, TypeInv, TypeOK, NoFault

\* A commit makes a repository of a repository.
LEMMA NewCommitType ==
  ASSUME NEW r \in Repos, NEW history \in SUBSET Nat PROVE NewCommit(r, history) \in Repos
<1>1. r.last + 1 \in Nat BY DEF Repos, Oids
<1>2. history \cup {r.last + 1} \in SUBSET Nat BY <1>1
<1> QED BY <1>1, <1>2, Zenon DEF NewCommit, Repos, Oids

\* Histories are sets of object IDs.
LEMMA HistoryType ==
  ASSUME TypeInv
  PROVE  CandidateHistory \in SUBSET Nat /\ Repo.history \in SUBSET Nat
BY DEF TypeInv, TypeOK, CandidateHistory, Oids, Locals, Repo, Repos

\* Probe preserves the type invariant.
LEMMA ProbeTypes == ASSUME TypeInv, Probe PROVE TypeInv' /\ Moves
<1> USE RepoType
<1>0. co.pc \in RowLabels /\ "create_repository" \in Labels \cap Continuations
  BY DEF Probe, RowLabels, JobLabels, Labels, Continuations
<1>1. At("probing") \in Checkpoints BY AtType DEF Stages
<1>2. co' \in Locals /\ co'.pc \in Continuations /\ co'.op = co.op /\ co'.path = co.path
  <2>1. CASE Save(At("probing"), "create_repository") BY <1>0, <1>1, <2>1, SaveType
  <2>2. CASE \E code \in {"remote_history_rewritten", "git_command_failed"} : Fail(code)
    BY <2>2, CodeTypes, FailType
  <2> QED BY <2>1, <2>2 DEF Probe
<1> QED
  BY <1>0, <1>2, JobTypes DEF Probe, CommandFrame, RepoFrame, WorkerFrame, MemoryFrame, process,
     TypeInv, TypeOK, NoFault

\* CreateRepository preserves the type invariant.
LEMMA CreateRepositoryTypes == ASSUME TypeInv, CreateRepository PROVE TypeInv' /\ Moves
<1> USE RepoType
<1>0. co.pc \in RowLabels /\ {"journal", "fetch", "commit"} \subseteq Labels \cap Continuations
  BY DEF CreateRepository, RowLabels, JobLabels, Labels, Continuations
<1>1. At("snapshotting") \in Checkpoints BY AtType DEF Stages
<1>2. co' \in Locals /\ co'.pc \in Continuations /\ co'.op = co.op /\ co'.path = co.path
  <2>1. CASE co' = [co EXCEPT !.tx = TRUE, !.after = "fetch", !.ck = At("snapshotting"),
                            !.pc = "journal", !.next = "commit"]
    BY <1>0, <1>1, <2>1, Zenon DEF Locals
  <2>2. CASE Fail("git_command_failed") BY <2>2, CodeTypes, FailType
  <2> QED BY <2>1, <2>2 DEF CreateRepository, FailsWith
<1>3. repo' \in [Paths -> Repos]
  <2>1. [Repo EXCEPT !.origin = TRUE] \in Repos BY DEF Repos
  <2> QED BY <2>1, UpdateType DEF CreateRepository, FailsWith, TypeInv, TypeOK
<1> QED
  BY <1>0, <1>2, <1>3, JobTypes DEF CreateRepository, CommandFrame, RepoFrame, WorkerFrame,
     MemoryFrame, process, NoFault

\* Fetch preserves the type invariant.
LEMMA FetchTypes == ASSUME TypeInv, Fetch PROVE TypeInv' /\ Moves
<1> USE RepoType
<1>0. co.pc \in RowLabels /\ "trust" \in Labels \cap Continuations
  BY DEF Fetch, RowLabels, JobLabels, Labels, Continuations
<1>1. server[co.path] \in Nat BY DEF TypeInv, TypeOK, Oids
<1>2. co' \in Locals /\ co'.pc \in Continuations /\ co'.op = co.op /\ co'.path = co.path
  <2>1. CASE Save([At("fetching") EXCEPT !.candidate = server[co.path]], "trust")
    <3>1. At("fetching") \in Checkpoints BY AtType DEF Stages
    <3>2. [At("fetching") EXCEPT !.candidate = server[co.path]] \in Checkpoints
      BY <1>1, <3>1 DEF Checkpoints, Oids
    <3> QED BY <1>0, <3>2, <2>1, SaveType
  <2>2. CASE Fail("git_command_failed") BY <2>2, CodeTypes, FailType
  <2> QED BY <2>1, <2>2 DEF Fetch, FailsWith
<1>3. repo' \in [Paths -> Repos]
  <2> DEFINE private == {ref \in Repo.private : ref[1] # co.op} \cup {<<co.op, server[co.path]>>}
  <2>1. private \in SUBSET (Nat \X Nat)
    BY <1>1 DEF Repos, Oids, Locals
  <2>2. [Repo EXCEPT !.private = private] \in Repos
    BY <2>1, Zenon DEF Repos, Oids
  <2>3. CASE UpdateRepo(co.path, [Repo EXCEPT !.private = private])
    BY <2>2, <2>3, UpdateType DEF TypeInv, TypeOK
  <2>4. CASE UNCHANGED repo
    BY <2>4 DEF TypeInv, TypeOK
  <2> QED BY <2>3, <2>4 DEF Fetch, FailsWith
<1> QED
  BY <1>0, <1>2, <1>3, JobTypes DEF Fetch, CommandFrame, RepoFrame, WorkerFrame, MemoryFrame,
     process, NoFault

\* Trust preserves the type invariant.
LEMMA TrustTypes == ASSUME TypeInv, Trust PROVE TypeInv' /\ Moves
<1> USE RepoType
<1>0. co.pc \in RowLabels /\ {"journal", "push", "open_snapshot",
      "merge"} \subseteq Labels \cap Continuations
  BY DEF Trust, RowLabels, JobLabels, Labels, Continuations
<1>1. co.ck.candidate \in Nat BY DEF Checkpoints, Oids
<1>2. [At("fetching") EXCEPT !.remote = co.ck.candidate] \in Checkpoints
  <2>1. At("fetching") \in Checkpoints BY AtType DEF Stages
  <2> QED BY <1>1, <2>1 DEF Checkpoints, Oids
<1>3. co' \in Locals /\ co'.pc \in Continuations /\ co'.op = co.op /\ co'.path = co.path
  <2>1. ASSUME NEW next \in {"open_snapshot", "merge"}, NEW tx \in BOOLEAN,
          co' = [co EXCEPT !.ck = [At("fetching") EXCEPT !.remote = co.ck.candidate],
                           !.tx = tx, !.after = "push", !.pc = "journal", !.next = next]
        PROVE co' \in Locals /\ co'.pc \in Continuations /\ co'.op = co.op /\ co'.path = co.path
    BY <1>0, <1>2, <2>1, Zenon DEF Locals
  <2>2. CASE Fail("git_command_failed") BY <2>2, CodeTypes, FailType
  <2> QED BY <2>1, <2>2 DEF Trust, NotMoved
<1>4. repo' \in [Paths -> Repos]
  <2>1. [Repo EXCEPT !.managed = co.ck.candidate] \in Repos BY <1>1 DEF Repos, Oids
  <2> QED BY <2>1, UpdateType DEF Trust, NotMoved, TypeInv, TypeOK
<1> QED
  BY <1>0, <1>3, <1>4, JobTypes DEF Trust, NotMoved, Interrupted, RepoFrame, WorkerFrame,
     MemoryFrame, process

\* OpenSnapshot preserves the type invariant.
LEMMA OpenSnapshotTypes == ASSUME TypeInv, OpenSnapshot PROVE TypeInv' /\ Moves
<1> USE RepoType
<1>0. co.pc \in RowLabels /\ {"journal", "push", "commit"} \subseteq Labels \cap Continuations
  BY DEF OpenSnapshot, RowLabels, JobLabels, Labels, Continuations
<1>1. At("snapshotting") \in Checkpoints BY AtType DEF Stages
<1>2. Keep(At("snapshotting").local, Repo.head) \in Nat BY <1>1 DEF Checkpoints, Keep, Oids
<1>3. [At("snapshotting") EXCEPT !.local = Keep(@, Repo.head)] \in Checkpoints
  BY <1>1, <1>2 DEF Checkpoints, Oids
<1>4. [remote |-> co.ck.candidate, push |-> 0] \in Results BY DEF Results, Checkpoints, Oids
<1>5. co' \in Locals /\ co'.pc \in Continuations /\ co'.op = co.op /\ co'.path = co.path
  BY <1>0, <1>3, <1>4, Zenon DEF OpenSnapshot, Locals
<1> QED
  BY <1>0, <1>5, JobTypes DEF OpenSnapshot, CommandFrame, RepoFrame, WorkerFrame, MemoryFrame,
     process, TypeInv, TypeOK, NoFault

\* Commit preserves the type invariant.
LEMMA CommitTypes == ASSUME TypeInv, Commit PROVE TypeInv' /\ Moves
<1> USE RepoType, HistoryType
<1> DEFINE after == IF Repo.dirty THEN [NewCommit(Repo, Repo.history) EXCEPT !.dirty = FALSE] ELSE Repo
<1>0. co.pc \in RowLabels /\ {"journal", "merge", "leave"} \subseteq Labels \cap Continuations
  BY DEF Commit, RowLabels, JobLabels, Labels, Continuations
<1>1. after \in Repos
  <2>1. NewCommit(Repo, Repo.history) \in Repos BY NewCommitType
  <2> QED BY <2>1 DEF Repos
<1>2. after.head \in Nat BY <1>1 DEF Repos, Oids
<1> HIDE DEF after
<1>3. co' \in Locals /\ co'.pc \in Continuations /\ co'.op = co.op /\ co'.path = co.path
  <2>1. CASE co' = [co EXCEPT !.ck.local = after.head, !.pc = "merge"]
    <3>1. [co.ck EXCEPT !.local = after.head] \in Checkpoints BY <1>2 DEF Checkpoints, Oids
    <3> QED BY <1>0, <2>1, <3>1, Zenon DEF Locals
  <2>2. CASE co' = [co EXCEPT !.ck = [At("snapshotting") EXCEPT !.local = after.head],
                                 !.pc = "journal", !.next = "leave"]
    <3>1. At("snapshotting") \in Checkpoints BY AtType DEF Stages
    <3>2. [At("snapshotting") EXCEPT !.local = after.head] \in Checkpoints
      BY <1>2, <3>1 DEF Checkpoints, Oids
    <3> QED BY <1>0, <2>2, <3>2, Zenon DEF Locals
  <2>3. CASE Fail("git_command_failed") BY <2>3, CodeTypes, FailType
  <2> QED BY <2>1, <2>2, <2>3 DEF Commit, FailsWith, after
<1>4. repo' \in [Paths -> Repos]
  <2>1. UpdateRepo(co.path, after) \/ UNCHANGED repo BY DEF Commit, FailsWith, after
  <2> QED BY <1>1, <2>1, UpdateType DEF TypeInv, TypeOK
<1> QED
  BY <1>0, <1>3, <1>4, JobTypes DEF Commit, CommandFrame, RepoFrame, WorkerFrame, MemoryFrame,
     process, TypeInv, TypeOK, NoFault

\* What a merge hands to the push is typed.
LEMMA SaveMergedTypes ==
  ASSUME TypeInv, NEW head \in Nat, SaveMerged(head)
  PROVE  co' \in Locals /\ co'.pc \in Continuations /\ co'.op = co.op /\ co'.path = co.path
<1> USE RepoType
<1>0. {"journal", "leave"} \subseteq Labels \cap Continuations
  BY DEF RowLabels, JobLabels, Labels, Continuations
<1>1. [At("reindexing") EXCEPT !.push = head] \in Checkpoints
  <2>1. At("reindexing") \in Checkpoints BY AtType DEF Stages
  <2> QED BY <2>1 DEF Checkpoints, Oids
<1>2. ASSUME NEW push \in Nat,
        co' = [co EXCEPT !.ck = [At("reindexing") EXCEPT !.push = head], !.res.push = push,
                         !.pc = "journal", !.next = "leave"]
      PROVE co' \in Locals /\ co'.pc \in Continuations /\ co'.op = co.op /\ co'.path = co.path
  <2>1. [co.res EXCEPT !.push = push] \in Results BY DEF Locals, Results, Oids
  <2> QED BY <1>0, <1>1, <1>2, <2>1, Zenon DEF Locals
<1> QED BY <1>2 DEF SaveMerged

\* MergeNeeded preserves the type invariant.
LEMMA MergeNeededTypes == ASSUME TypeInv, MergeNeeded PROVE TypeInv' /\ Moves
<1> USE RepoType
<1>0. co.pc \in RowLabels /\ "run_merge" \in Labels \cap Continuations
  BY DEF MergeNeeded, RowLabels, JobLabels, Labels, Continuations
<1>1. co' \in Locals /\ co'.pc \in Continuations /\ co'.op = co.op /\ co'.path = co.path
  <2>1. At("merging") \in Checkpoints BY AtType DEF Stages
  <2> QED BY <1>0, <2>1, SaveType, SaveMergedTypes DEF MergeNeeded
<1> QED
  BY <1>0, <1>1, JobTypes DEF MergeNeeded, CommandFrame, RepoFrame, WorkerFrame, MemoryFrame,
     process, TypeInv, TypeOK, NoFault

\* A merge makes a repository of a repository.
LEMMA MergeResultType == ASSUME TypeInv PROVE MergeResult \in Repos /\ MergeResult.head \in Nat
<1> USE RepoType, HistoryType
<1> DEFINE history == Repo.history \cup CandidateHistory
<1>1. history \in SUBSET Nat OBVIOUS
<1>2. co.ck.candidate \in Nat BY DEF Checkpoints, Oids
<1>3. NewCommit(Repo, history) \in Repos BY <1>1, NewCommitType
<1>4. [Repo EXCEPT !.head = co.ck.candidate, !.history = history] \in Repos
  BY <1>1, <1>2, Zenon DEF Repos, Oids
<1>5. MergeResult \in Repos BY <1>3, <1>4 DEF MergeResult
<1> QED BY <1>5 DEF Repos, Oids

\* RunMerge preserves the type invariant.
LEMMA RunMergeTypes == ASSUME TypeInv, RunMerge PROVE TypeInv' /\ Moves
<1> USE RepoType, MergeResultType
<1>0. co.pc \in RowLabels /\ {"journal", "leave"} \subseteq Labels \cap Continuations
  BY DEF RunMerge, RowLabels, JobLabels, Labels, Continuations
<1>1. co' \in Locals /\ co'.pc \in Continuations /\ co'.op = co.op /\ co'.path = co.path
  <2>1. CASE SaveMerged(MergeResult.head) BY <2>1, SaveMergedTypes
  <2>2. CASE SaveConflict BY <1>0, <2>2, CodeTypes, Zenon DEF SaveConflict, Locals
  <2>3. CASE Fail("git_command_failed") BY <2>3, CodeTypes, FailType
  <2> QED BY <2>1, <2>2, <2>3 DEF RunMerge
<1>2. repo' \in [Paths -> Repos]
  <2>1. ASSUME NEW merge \in {"conflict", "resolved"}, Stopped(merge) PROVE repo' \in [Paths -> Repos]
    <3>1. co.ck.candidate \in Nat BY DEF Checkpoints, Oids
    <3>2. [Repo EXCEPT !.merge = merge, !.mergeHead = co.ck.candidate] \in Repos
      BY <3>1, Zenon DEF Repos, Oids
    <3> QED BY <2>1, <3>2, UpdateType DEF Stopped, TypeInv, TypeOK
  <2>2. CASE UpdateRepo(co.path, MergeResult) BY <2>2, UpdateType DEF TypeInv, TypeOK
  <2>3. CASE UNCHANGED repo BY <2>3 DEF TypeInv, TypeOK
  <2> QED BY <2>1, <2>2, <2>3 DEF RunMerge
<1> QED BY <1>0, <1>1, <1>2, JobTypes DEF RunMerge, RepoFrame, WorkerFrame, MemoryFrame, process

\* Settle preserves the type invariant.
LEMMA SettleTypes == ASSUME TypeInv, Settle PROVE TypeInv' /\ Moves
<1> USE RepoType
<1>0. co.pc \in RowLabels /\ {"journal", "leave", "succeed_journal"} \subseteq Labels \cap Continuations
  BY DEF Settle, RowLabels, JobLabels, Labels, Continuations
<1>1. co.ck.push \in Nat BY DEF Checkpoints, Oids
<1>2. co' \in Locals /\ co'.pc \in Continuations /\ co'.op = co.op /\ co'.path = co.path
  <2>1. SettledCheckpoint \in Checkpoints
    <3>1. At("completed") \in Checkpoints BY AtType DEF Stages
    <3>2. (IF Kind = "sync" THEN At("completed").candidate ELSE co.ck.push) \in Nat
      BY <1>1, <3>1 DEF Checkpoints, Oids
    <3> QED BY <1>1, <3>1, <3>2, Zenon DEF SettledCheckpoint, Checkpoints, Oids
  <2>2. CASE Fail("git_command_failed") BY <2>2, CodeTypes, FailType
  <2>3. CASE Save(SettledCheckpoint, "succeed_journal") BY <1>0, <2>1, <2>3, SaveType
  <2>4. CASE co' = [co EXCEPT !.ck = SettledCheckpoint, !.tx = TRUE, !.after = "succeed_journal",
                              !.pc = "journal", !.next = "leave"]
    BY <1>0, <2>1, <2>4, Zenon DEF Locals
  <2> QED BY <2>2, <2>3, <2>4 DEF Settle, NotMoved, FailsWith
<1>3. repo' \in [Paths -> Repos]
  <2>1. [Repo EXCEPT !.managed = co.ck.push] \in Repos BY <1>1 DEF Repos, Oids
  <2> QED BY <2>1, UpdateType DEF Settle, NotMoved, FailsWith, TypeInv, TypeOK
<1> QED
  BY <1>0, <1>2, <1>3, JobTypes DEF Settle, NotMoved, Interrupted, RepoFrame, WorkerFrame,
     MemoryFrame, process

\* A jump keeps the locals typed and the row of the holder.
LEMMA GotoType ==
  ASSUME co \in Locals, NEW label \in Labels, Goto(label)
  PROVE  co' \in Locals /\ co'.pc = label /\ co'.op = co.op /\ co'.path = co.path
BY Zenon DEF Goto, Locals

\* A step of the worker that writes a table or the remote branch preserves the type invariant.
LEMMA WriteTypes ==
  ASSUME TypeInv, co.pc \in RowLabels, co' \in Locals, co'.pc \in Continuations,
         co'.pc \in RowLabels => co'.op = co.op /\ co'.path = co.path,
         journal' \in [Paths -> Seq(Rows)], \A q \in Paths : Op(q) \subseteq Op(q)',
         status' \in [Paths -> Statuses], repo' \in [Paths -> Repos],
         server' \in [Paths -> Oids], published' \in [Paths -> SUBSET Oids],
         gate' \subseteq Paths, inFlight' \in [Paths -> Nat],
         Fault \/ NoFault,
         UNCHANGED <<config, phase, pending, broken, queue, connecting, degraded>>
  PROVE  TypeInv' /\ Moves
<1>1. co.path \in Paths /\ co.op \in Op(co.path) BY DEF TypeInv, TypeOK, RowsExist, Locals
<1>2. (co.pc \in RowLabels => co.op \in Op(co.path))' BY <1>1 DEF Op
<1>3. spent' \in [faults : Nat, stops : Nat, pushes : Nat, edits : Nat] BY SpentType DEF TypeInv
<1> QED BY <1>2, <1>3, LabelsOf, StepTypes DEF Moves

\* Push preserves the type invariant.
LEMMA PushTypes == ASSUME TypeInv, Push PROVE TypeInv' /\ Moves
<1> USE RepoType
<1>0. co.pc \in RowLabels /\ {"settle", "fetch", "journal"} \subseteq Labels \cap Continuations
  BY DEF Push, RowLabels, JobLabels, Labels, Continuations
<1>1. co.ck.push \in Nat BY DEF Checkpoints, Oids
<1>2. co' \in Locals /\ co'.pc \in Continuations /\ co'.op = co.op /\ co'.path = co.path
  <2>1. CASE Goto("settle") BY <1>0, <2>1, GotoType
  <2>2. CASE \E code \in {"git_command_failed", "push_rejected"} : Fail(code)
    BY <2>2, CodeTypes, FailType
  <2>3. CASE Retry
    <3>1. At("fetching") \in Checkpoints BY AtType DEF Stages
    <3> QED BY <1>0, <2>3, <3>1, Zenon DEF Retry, Locals
  <2> QED BY <2>1, <2>2, <2>3 DEF Push, FailsWith
<1>3. server' \in [Paths -> Oids] /\ published' \in [Paths -> SUBSET Oids]
  <2>1. CASE /\ server' = [server EXCEPT ![co.path] = co.ck.push]
             /\ published' = [published EXCEPT ![co.path] = @ \cup Repo.history]
    BY <1>1, <2>1 DEF TypeInv, TypeOK, Oids
  <2>2. CASE UNCHANGED <<server, published>> BY <2>2 DEF TypeInv, TypeOK
  <2> QED BY <2>1, <2>2 DEF Push, FailsWith
<1>4. \A q \in Paths : Op(q) \subseteq Op(q)' BY DEF Push, Op
<1> QED
  BY <1>0, <1>2, <1>3, <1>4, WriteTypes DEF Push, MemoryFrame, process, TypeInv, TypeOK, NoFault

\* VerifyCompletion preserves the type invariant.
LEMMA VerifyCompletionTypes == ASSUME TypeInv, VerifyCompletion PROVE TypeInv' /\ Moves
<1> USE RepoType
<1>0. co.pc \in RowLabels /\ "commit_merge" \in Labels \cap Continuations
  BY DEF VerifyCompletion, RowLabels, JobLabels, Labels, Continuations
<1>1. co' \in Locals /\ co'.pc \in Continuations /\ co'.op = co.op /\ co'.path = co.path
  <2>1. At("conflict_completing") \in Checkpoints BY AtType DEF Stages
  <2> QED BY <1>0, <2>1, SaveType, FailType, CodeTypes DEF VerifyCompletion
<1> QED
  BY <1>0, <1>1, JobTypes DEF VerifyCompletion, CommandFrame, RepoFrame, WorkerFrame,
     MemoryFrame, process, TypeInv, TypeOK, NoFault

\* CommitMerge preserves the type invariant.
LEMMA CommitMergeTypes == ASSUME TypeInv, CommitMerge PROVE TypeInv' /\ Moves
<1> USE RepoType, HistoryType
<1> DEFINE after == [NewCommit(Repo, Repo.history \cup CandidateHistory)
                       EXCEPT !.merge = "none", !.mergeHead = 0]
<1>0. co.pc \in RowLabels /\ {"journal", "leave", "sync_index"} \subseteq Labels \cap Continuations
  BY DEF CommitMerge, RowLabels, JobLabels, Labels, Continuations
<1>1. after \in Repos /\ after.head \in Nat
  <2>1. Repo.history \cup CandidateHistory \in SUBSET Nat OBVIOUS
  <2>2. NewCommit(Repo, Repo.history \cup CandidateHistory) \in Repos BY <2>1, NewCommitType
  <2>3. after \in Repos BY <2>2, Zenon DEF Repos, Oids
  <2> QED BY <2>3 DEF Repos, Oids
<1> HIDE DEF after
<1>2. co' \in Locals /\ co'.pc \in Continuations /\ co'.op = co.op /\ co'.path = co.path
  <2>1. CASE co' = [co EXCEPT !.ck = [At("conflict_committed") EXCEPT !.push = after.head],
                            !.tx = TRUE, !.after = "sync_index", !.pc = "journal", !.next = "leave"]
    <3>1. At("conflict_committed") \in Checkpoints BY AtType DEF Stages
    <3>2. [At("conflict_committed") EXCEPT !.push = after.head] \in Checkpoints
      BY <1>1, <3>1 DEF Checkpoints, Oids
    <3> QED BY <1>0, <2>1, <3>2, Zenon DEF Locals
  <2>2. CASE Fail("git_recovery_required") BY <2>2, CodeTypes, FailType
  <2> QED BY <2>1, <2>2 DEF CommitMerge, FailsWith, after
<1>3. repo' \in [Paths -> Repos]
  <2>1. UpdateRepo(co.path, after) \/ UNCHANGED repo BY DEF CommitMerge, FailsWith, after
  <2> QED BY <1>1, <2>1, UpdateType DEF TypeInv, TypeOK
<1> QED
  BY <1>0, <1>2, <1>3, JobTypes DEF CommitMerge, CommandFrame, RepoFrame, WorkerFrame,
     MemoryFrame, process, TypeInv, TypeOK, NoFault

\* SyncIndex preserves the type invariant.
LEMMA SyncIndexTypes == ASSUME TypeInv, SyncIndex PROVE TypeInv' /\ Moves
<1> USE RepoType
<1>0. co.pc \in RowLabels /\ "save_conflict_pushing" \in Labels \cap Continuations
  BY DEF SyncIndex, RowLabels, JobLabels, Labels, Continuations
<1>1. co' \in Locals /\ co'.pc \in Continuations /\ co'.op = co.op /\ co'.path = co.path
  <2>1. At("conflict_reindexed") \in Checkpoints BY AtType DEF Stages
  <2> QED BY <1>0, <2>1, SaveType, FailType, CodeTypes DEF SyncIndex
<1> QED
  BY <1>0, <1>1, JobTypes DEF SyncIndex, RepoFrame, WorkerFrame, MemoryFrame, process, TypeInv,
     TypeOK

\* SaveConflictPushing preserves the type invariant.
LEMMA SaveConflictPushingTypes == ASSUME TypeInv, SaveConflictPushing PROVE TypeInv' /\ Moves
<1> USE RepoType
<1>0. co.pc \in RowLabels /\ "push" \in Labels \cap Continuations
  BY DEF SaveConflictPushing, RowLabels, JobLabels, Labels, Continuations
<1>1. co' \in Locals /\ co'.pc \in Continuations /\ co'.op = co.op /\ co'.path = co.path
  <2>1. At("conflict_pushing") \in Checkpoints BY AtType DEF Stages
  <2> QED BY <1>0, <2>1, SaveType DEF SaveConflictPushing
<1> QED
  BY <1>0, <1>1, JobTypes DEF SaveConflictPushing, CommandFrame, RepoFrame, WorkerFrame,
     MemoryFrame, process, TypeInv, TypeOK, NoFault

\* VerifyAbort preserves the type invariant.
LEMMA VerifyAbortTypes == ASSUME TypeInv, VerifyAbort PROVE TypeInv' /\ Moves
<1> USE RepoType
<1>0. co.pc \in RowLabels /\ {"aborted", "journal",
      "abort_merge"} \subseteq Labels \cap Continuations
  BY DEF VerifyAbort, RowLabels, JobLabels, Labels, Continuations
<1>1. co' \in Locals /\ co'.pc \in Continuations /\ co'.op = co.op /\ co'.path = co.path
  <2>1. At("conflict_aborting") \in Checkpoints BY AtType DEF Stages
  <2>2. CASE co' = [co EXCEPT !.tx = TRUE, !.after = "aborted", !.ck = At("conflict_aborting"),
                            !.pc = "journal", !.next = "abort_merge"]
    BY <1>0, <2>1, <2>2, Zenon DEF Locals
  <2>3. CASE Fail("git_recovery_required") BY <2>3, CodeTypes, FailType
  <2> QED BY <2>2, <2>3 DEF VerifyAbort
<1> QED
  BY <1>0, <1>1, JobTypes DEF VerifyAbort, CommandFrame, RepoFrame, WorkerFrame, MemoryFrame,
     process, TypeInv, TypeOK, NoFault

\* AbortMerge preserves the type invariant.
LEMMA AbortMergeTypes == ASSUME TypeInv, AbortMerge PROVE TypeInv' /\ Moves
<1> USE RepoType
<1>0. co.pc \in RowLabels /\ "leave" \in Labels \cap Continuations
  BY DEF AbortMerge, RowLabels, JobLabels, Labels, Continuations
<1>1. co' \in Locals /\ co'.pc \in Continuations /\ co'.op = co.op /\ co'.path = co.path
  BY <1>0, GotoType, FailType, CodeTypes DEF AbortMerge, FailsWith
<1>2. repo' \in [Paths -> Repos]
  <2>1. [Repo EXCEPT !.merge = "none", !.mergeHead = 0] \in Repos BY Zenon DEF Repos, Oids
  <2> QED BY <2>1, UpdateType DEF AbortMerge, FailsWith, TypeInv, TypeOK
<1> QED
  BY <1>0, <1>1, <1>2, JobTypes DEF AbortMerge, CommandFrame, RepoFrame, WorkerFrame,
     MemoryFrame, process, TypeInv, TypeOK, NoFault

\* Popping a job leaves a queue of jobs, and a job whose row exists.
LEMMA QueueTailType ==
  ASSUME TypeInv, queue # <<>>, queue' = RestOfQueue
  PROVE  /\ Head(queue) \in Jobs /\ Head(queue).op \in Op(Head(queue).path) \cup {0}
         /\ queue' \in Seq(Jobs)
         /\ \A k \in DOMAIN queue' : \E j \in DOMAIN queue : queue'[k] = queue[j]
<1>1. queue \in Seq(Jobs) BY DEF TypeInv, TypeOK
<1>2. /\ Head(queue) \in Jobs /\ Tail(queue) \in Seq(Jobs) /\ Len(Tail(queue)) = Len(queue) - 1
      /\ \A k \in 1 .. Len(Tail(queue)) : Tail(queue)[k] = queue[k + 1]
  BY <1>1, HeadTailProperties
<1>3. Len(queue) \in Nat /\ DOMAIN queue = 1 .. Len(queue) /\ Len(queue) # 0
  BY <1>1, LenProperties, EmptySeq
<1>4. DOMAIN Tail(queue) = 1 .. Len(queue) - 1 BY <1>2, LenProperties
<1>5. Head(queue) = queue[1] BY <1>1
<1>6. \A k \in DOMAIN Tail(queue) : k + 1 \in DOMAIN queue /\ Tail(queue)[k] = queue[k + 1]
  BY <1>2, <1>3, <1>4
<1> QED BY <1>2, <1>3, <1>5, <1>6 DEF RestOfQueue, TypeInv, RowsExist

\* A step that takes a job and writes no table preserves the type invariant.
LEMMA TakeTypes ==
  ASSUME TypeInv, co' \in Locals, co'.pc \in Continuations, (co.pc \in RowLabels => co.op \in Op(co.path))',
         queue' \in Seq(Jobs), \A k \in DOMAIN queue' : \E j \in DOMAIN queue : queue'[k] = queue[j],
         repo' \in [Paths -> Repos], gate' \subseteq Paths,
         UNCHANGED <<config, journal, status, server, published, process, inFlight, connecting, degraded, spent>>
  PROVE  TypeInv'
<1>1. TypeOK' BY DEF TypeInv, TypeOK, process
<1>2. (\A k \in DOMAIN queue : queue[k].op \in Op(queue[k].path) \cup {0})'
  BY DEF TypeInv, RowsExist, Op
<1> QED BY <1>1, <1>2, LabelsOf DEF TypeInv, RowsExist

\* Begin preserves the type invariant.
LEMMA BeginTypes == ASSUME TypeInv, Begin PROVE TypeInv'
<1> USE IdleType
<1> DEFINE job == Head(queue)
           row == journal[job.path][job.op]
<1>0. queue # <<>> /\ queue' = RestOfQueue /\ job.op # 0 BY DEF Begin
<1>1. /\ job \in Jobs /\ job.op \in Op(job.path) /\ queue' \in Seq(Jobs)
      /\ \A k \in DOMAIN queue' : \E j \in DOMAIN queue : queue'[k] = queue[j]
  BY <1>0, QueueTailType
<1>2. row \in Rows
  BY <1>1, ElementOfSeq, LenProperties DEF Op, Jobs, TypeInv, TypeOK
<1>3. CheckpointOf(row) \in Checkpoints BY <1>2 DEF CheckpointOf, Checkpoints, Rows
<1>4. FirstStep(row.kind) \in Continuations
  BY <1>2 DEF Rows, FirstStep, OperationKinds, Continuations, RowLabels, JobLabels
<1>5. {"stale", "journal"} \subseteq Labels \cap Continuations
  BY DEF Labels, Continuations, RowLabels, JobLabels
<1>6. job.path \in Paths /\ job.op \in Nat /\ job.cfg \in Configs \cup {NoConfig} BY <1>1 DEF Jobs
<1>7. ASSUME NEW pc \in {"stale", "journal"},
        co' = [Idle EXCEPT !.path = job.path, !.op = job.op, !.cfg = job.cfg, !.pc = pc,
                           !.ck = CheckpointOf(row), !.next = FirstStep(row.kind)]
      PROVE co' \in Locals /\ co'.pc \in Continuations /\ co'.op = job.op /\ co'.path = job.path
  BY <1>3, <1>4, <1>5, <1>6, <1>7, Zenon DEF Locals
<1>8. co' \in Locals /\ co'.pc \in Continuations /\ co'.op = job.op /\ co'.path = job.path
  BY <1>7 DEF Begin
<1>9. (co.pc \in RowLabels => co.op \in Op(co.path))' BY <1>1, <1>8 DEF Op, Begin, durable
<1> QED BY <1>1, <1>8, <1>9, TakeTypes DEF Begin, durable, process, TypeInv, TypeOK

\* ResolveConflict preserves the type invariant.
LEMMA ResolveConflictTypes == ASSUME TypeInv, ResolveConflict PROVE TypeInv'
<1> USE RepoType
<1>0. queue # <<>> /\ queue' = RestOfQueue BY DEF ResolveConflict
<1>1. /\ Head(queue) \in Jobs /\ queue' \in Seq(Jobs)
      /\ \A k \in DOMAIN queue' : \E j \in DOMAIN queue : queue'[k] = queue[j]
  BY <1>0, QueueTailType
<1>2. Head(queue).path \in Paths BY <1>1 DEF Jobs
<1>3. repo' \in [Paths -> Repos]
  <2>1. ASSUME NEW merge \in {"conflict", "resolved"}
        PROVE  [repo[Head(queue).path] EXCEPT !.merge = merge] \in Repos
    BY <1>2 DEF TypeInv, TypeOK, Repos
  <2> QED BY <1>2, <2>1, UpdateType DEF ResolveConflict, TypeInv, TypeOK
<1>4. co' \in Locals /\ co'.pc \in Continuations /\ (co.pc \in RowLabels => co.op \in Op(co.path))'
  BY LabelsOf DEF ResolveConflict, Free, RowLabels, JobLabels
<1> QED BY <1>1, <1>2, <1>3, <1>4, TakeTypes
    DEF ResolveConflict, WorkerFrame, process, TypeInv, TypeOK

\* The terminal write of a job keeps the journal typed.
LEMMA FinishRowTypes ==
  ASSUME TypeInv, co.pc \in RowLabels, NEW state \in OperationStates, NEW stage \in Stages,
         NEW res \in Results, WriteRow(co.path, co.op, Finished(Row, state, stage, res))
  PROVE  journal' \in [Paths -> Seq(Rows)] /\ \A q \in Paths : Op(q) \subseteq Op(q)'
BY RowType, FinishedType, WriteType DEF TypeInv, TypeOK

\* A result without object IDs is a result.
LEMMA NoResultType == NoResult \in Results
BY DEF NoResult, Results, Oids

\* FinishStale preserves the type invariant.
LEMMA FinishStaleTypes == ASSUME TypeInv, FinishStale PROVE TypeInv' /\ Moves
<1> USE RepoType, NoResultType
<1>0. co.pc \in RowLabels BY DEF FinishStale, RowLabels, JobLabels
<1>1. co' \in Locals /\ co'.pc \notin RowLabels /\ co'.pc \in Continuations
  BY ReleaseType DEF FinishStale
<1>2. journal' \in [Paths -> Seq(Rows)] /\ \A q \in Paths : Op(q) \subseteq Op(q)'
  <2>1. CASE UNCHANGED journal BY <2>1 DEF Op, TypeInv, TypeOK
  <2>2. CASE WriteRow(co.path, co.op, Finished(Row, "failed", "queued", NoResult))
    BY <1>0, <2>2, FinishRowTypes DEF OperationStates, Stages
  <2> QED BY <2>1, <2>2 DEF FinishStale
<1>3. inFlight' \in [Paths -> Nat] BY DEF FinishStale, TypeInv, TypeOK
<1> QED BY <1>0, <1>1, <1>2, <1>3, WriteTypes DEF FinishStale, WorkerFrame, process, TypeInv, TypeOK

\* Abandon preserves the type invariant.
LEMMA AbandonTypes == ASSUME TypeInv, Abandon PROVE TypeInv' /\ Moves
<1>0. co.pc \in RowLabels BY DEF Abandon, RowLabels, JobLabels
<1>1. co' \in Locals /\ co'.pc \notin RowLabels /\ co'.pc \in Continuations
  BY ReleaseType DEF Abandon
<1>2. \A q \in Paths : Op(q) \subseteq Op(q)' BY DEF Abandon, durable, Op
<1> QED
  BY <1>0, <1>1, <1>2, WriteTypes DEF Abandon, durable, process, memory, TypeInv, TypeOK, NoFault

\* Checkpoint preserves the type invariant.
LEMMA CheckpointTypes == ASSUME TypeInv, Checkpoint PROVE TypeInv' /\ Moves
<1> USE RepoType, RowType
<1>0. co.pc \in RowLabels /\ "publish" \in Labels \cap Continuations
  BY DEF Checkpoint, RowLabels, JobLabels, Labels, Continuations
<1>1. co' \in Locals /\ co'.pc \in Continuations /\ co'.op = co.op /\ co'.path = co.path
  BY <1>0, GotoType, FailType, CodeTypes DEF Checkpoint
<1>2. journal' \in [Paths -> Seq(Rows)] /\ \A q \in Paths : Op(q) \subseteq Op(q)'
  <2>1. CASE UNCHANGED journal BY <2>1 DEF Op, TypeInv, TypeOK
  <2>2. CASE WriteRow(co.path, co.op, Checkpointed(Row, co.ck))
    BY <1>0, <2>2, CheckpointedType, WriteType DEF TypeInv, TypeOK
  <2> QED BY <2>1, <2>2 DEF Checkpoint
<1> QED
  BY <1>0, <1>1, <1>2, WriteTypes DEF Checkpoint, Interrupted, WorkerFrame, MemoryFrame, process,
     TypeInv, TypeOK

\* managerWorkingStatus makes a status.
LEMMA WorkingStatusType ==
  ASSUME TypeInv, NEW p \in Paths, NEW i \in Nat, NEW state \in GitStates, NEW remote \in Nat
  PROVE  WorkingStatus(p, i, state, remote) \in Statuses
<1>1. status[p] \in Statuses BY DEF TypeInv, TypeOK
<1> QED BY <1>1, Zenon DEF WorkingStatus, Statuses, Oids

\* Publish preserves the type invariant.
LEMMA PublishTypes == ASSUME TypeInv, Publish PROVE TypeInv' /\ Moves
<1> USE RepoType
<1>0. co.pc \in RowLabels BY DEF Publish, RowLabels, JobLabels
<1>1. co' \in Locals /\ co'.pc \in Continuations /\ co'.op = co.op /\ co'.path = co.path
  <2>1. CASE Fail("git_command_failed") BY <2>1, FailType, CodeTypes
  <2>2. CASE co' = [co EXCEPT !.pc = co.next, !.cleared = @ \/ Reindexed]
    <3>1. co.next \in Labels \cap Continuations BY LabelsOf DEF Locals
    <3>2. (co.cleared \/ Reindexed) \in BOOLEAN OBVIOUS
    <3> QED BY <2>2, <3>1, <3>2, Zenon DEF Locals
  <2> QED BY <2>1, <2>2 DEF Publish
<1>2. status' \in [Paths -> Statuses]
  <2>1. JobState \in GitStates BY DEF JobState, WorkingState, GitStates
  <2>2. WorkingStatus(co.path, co.op, JobState, co.ck.remote) \in Statuses
    BY <2>1, WorkingStatusType DEF Locals, Checkpoints, Oids
  <2>3. CASE applyStatus(co.path, WorkingStatus(co.path, co.op, JobState, co.ck.remote), "preserve")
    BY <2>2, <2>3, ApplyType DEF TypeInv, TypeOK, FailureActions
  <2>4. CASE UNCHANGED status BY <2>4 DEF TypeInv, TypeOK
  <2> QED BY <2>3, <2>4 DEF Publish
<1>3. gate' \subseteq Paths BY DEF Publish, TypeInv, TypeOK
<1>4. \A q \in Paths : Op(q) \subseteq Op(q)' BY DEF Publish, Op
<1> QED
  BY <1>0, <1>1, <1>2, <1>3, <1>4, WriteTypes DEF Publish, Interrupted, WorkerFrame, process,
     TypeInv, TypeOK

\* Leave preserves the type invariant.
LEMMA LeaveTypes == ASSUME TypeInv, Leave PROVE TypeInv' /\ Moves
<1> USE RepoType
<1>0. /\ co.pc \in RowLabels /\ {"failed", "journal", "fetch", "push"} \subseteq Labels \cap Continuations
      /\ co.after \in Labels \cap Continuations
  BY LabelsOf DEF Leave, RowLabels, JobLabels, Locals, Continuations
<1>1. co' \in Locals /\ co'.pc \in Continuations /\ co'.op = co.op /\ co'.path = co.path
  <2>1. CASE co' = [co EXCEPT !.tx = FALSE, !.pc = "failed"]
    BY <1>0, <2>1, Zenon DEF Locals
  <2>2. ASSUME NEW stage \in Stages, NEW after \in {"fetch", "push"},
          co' = [co EXCEPT !.tx = FALSE, !.ck = At(stage), !.pc = "journal", !.next = after]
        PROVE co' \in Locals /\ co'.pc \in Continuations /\ co'.op = co.op /\ co'.path = co.path
    <3>1. At(stage) \in Checkpoints BY AtType
    <3> QED BY <1>0, <2>2, <3>1, Zenon DEF Locals
  <2>3. CASE co' = [co EXCEPT !.tx = FALSE, !.pc = co.after]
    BY <1>0, <2>3, Zenon DEF Locals
  <2>4. ASSUME NEW err \in ErrorCodes, co' = [co EXCEPT !.tx = FALSE, !.pc = "failed", !.err = err]
        PROVE co' \in Locals /\ co'.pc \in Continuations /\ co'.op = co.op /\ co'.path = co.path
    BY <1>0, <2>4, Zenon DEF Locals
  <2>5. CASE co' = AfterLeave
    <3>1. DOMAIN StageOfNetwork = {"fetch", "push"} /\ \A x \in {"fetch", "push"} : StageOfNetwork[x] \in Stages
      BY DEF StageOfNetwork, Stages
    <3> QED BY <2>1, <2>2, <2>3, <2>5, <3>1 DEF AfterLeave
  <2>6. CASE co' = [co EXCEPT !.tx = FALSE, !.pc = "failed",
                            !.err = IF @ = NoError THEN "git_command_failed" ELSE @]
    <3>1. (IF co.err = NoError THEN "git_command_failed" ELSE co.err) \in ErrorCodes
      BY CodeTypes DEF Locals
    <3> QED BY <2>4, <2>6, <3>1
  <2> QED BY <2>5, <2>6 DEF Leave
<1>2. gate' \subseteq Paths BY DEF Leave, GatedConflict, TypeInv, TypeOK
<1>3. \A q \in Paths : Op(q) \subseteq Op(q)' BY DEF Leave, Op
<1> QED BY <1>0, <1>1, <1>2, <1>3, WriteTypes DEF Leave, WorkerFrame, process, TypeInv, TypeOK

\* Aborted preserves the type invariant.
LEMMA AbortedTypes == ASSUME TypeInv, Aborted PROVE TypeInv' /\ Moves
<1> USE RepoType
<1>0. co.pc \in RowLabels /\ "abort_status" \in Labels \cap Continuations
  BY DEF Aborted, RowLabels, JobLabels, Labels, Continuations
<1>1. co' \in Locals /\ co'.pc \in Continuations /\ (co'.pc \in RowLabels => co'.op = co.op /\ co'.path = co.path)
  <2>1. CASE Goto("abort_status") BY <1>0, <2>1, GotoType
  <2>2. CASE Release BY <2>2, ReleaseType
  <2> QED BY <2>1, <2>2 DEF Aborted, Strand
<1>2. gate' \subseteq Paths BY DEF Aborted, Strand, TypeInv, TypeOK
<1>3. \A q \in Paths : Op(q) \subseteq Op(q)' BY DEF Aborted, Op
<1> QED
  BY <1>0, <1>1, <1>2, <1>3, WriteTypes DEF Aborted, Interrupted, WorkerFrame, process, TypeInv,
     TypeOK

\* The status a job publishes at its end is a status.
LEMMA FinalStatusType ==
  ASSUME TypeInv, NEW state \in GitStates, NEW remote \in Nat, NEW action \in FailureActions,
         applyStatus(co.path, [status[co.path] EXCEPT !.state = state, !.op = co.op, !.remote = remote], action)
  PROVE  status' \in [Paths -> Statuses]
<1>1. status[co.path] \in Statuses /\ co.path \in Paths BY RepoType DEF TypeInv, TypeOK
<1>2. co.op \in Nat BY RepoType DEF Locals
<1>3. [status[co.path] EXCEPT !.state = state, !.op = co.op, !.remote = remote] \in Statuses
  BY <1>1, <1>2, Zenon DEF Statuses, Oids
<1> QED BY <1>1, <1>3, ApplyType DEF TypeInv, TypeOK

\* AbortStatus preserves the type invariant.
LEMMA AbortStatusTypes == ASSUME TypeInv, AbortStatus PROVE TypeInv' /\ Moves
<1> USE RepoType
<1>0. co.pc \in RowLabels /\ "abort_journal" \in Labels \cap Continuations
  BY DEF AbortStatus, RowLabels, JobLabels, Labels, Continuations
<1>1. co' \in Locals /\ co'.pc \in Continuations /\ (co'.pc \in RowLabels => co'.op = co.op /\ co'.path = co.path)
  <2>1. CASE Goto("abort_journal") BY <1>0, <2>1, GotoType
  <2>2. CASE Release BY <2>2, ReleaseType
  <2> QED BY <2>1, <2>2 DEF AbortStatus
<1>2. status' \in [Paths -> Statuses]
  <2>1. Row.remote \in Nat BY <1>0, RowType DEF Rows, Oids
  <2>2. CASE UNCHANGED status BY <2>2 DEF TypeInv, TypeOK
  <2> QED BY <2>1, <2>2, FinalStatusType DEF AbortStatus, GitStates, FailureActions
<1>3. \A q \in Paths : Op(q) \subseteq Op(q)' BY DEF AbortStatus, Op
<1> QED
  BY <1>0, <1>1, <1>2, <1>3, WriteTypes DEF AbortStatus, WorkerFrame, MemoryFrame, process,
     TypeInv, TypeOK

\* AbortJournal preserves the type invariant.
LEMMA AbortJournalTypes == ASSUME TypeInv, AbortJournal PROVE TypeInv' /\ Moves
<1> USE RepoType, NoResultType
<1>0. co.pc \in RowLabels BY DEF AbortJournal, RowLabels, JobLabels
<1>1. co' \in Locals /\ co'.pc \notin RowLabels /\ co'.pc \in Continuations
  BY ReleaseType DEF AbortJournal
<1>2. journal' \in [Paths -> Seq(Rows)] /\ \A q \in Paths : Op(q) \subseteq Op(q)'
  <2>1. CASE UNCHANGED journal BY <2>1 DEF Op, TypeInv, TypeOK
  <2>2. CASE WriteRow(co.path, co.op, Finished(Row, "succeeded", "completed", NoResult))
    BY <1>0, <2>2, FinishRowTypes DEF OperationStates, Stages
  <2> QED BY <2>1, <2>2 DEF AbortJournal
<1>3. inFlight' \in [Paths -> Nat] BY DEF AbortJournal, TypeInv, TypeOK
<1>4. gate' \subseteq Paths BY DEF AbortJournal, TypeInv, TypeOK
<1> QED
  BY <1>0, <1>1, <1>2, <1>3, <1>4, WriteTypes DEF AbortJournal, WorkerFrame, process, TypeInv,
     TypeOK

\* The terminal journal write of a success or a failure preserves the type invariant.
LEMMA TerminalTypes ==
  ASSUME TypeInv, co.pc \in RowLabels, NEW state \in OperationStates, NEW stage \in Stages,
         NEW res \in Results, NEW label \in Continuations, FinishRow(state, stage, res, label),
         WorkerFrame, UNCHANGED <<status, repo, gate, queue>>
  PROVE  TypeInv' /\ Moves
<1>1. co' \in Locals /\ co'.pc \in Continuations /\ co'.op = co.op /\ co'.path = co.path
  BY RepoType, LabelsOf, GotoType DEF FinishRow
<1>2. journal' \in [Paths -> Seq(Rows)] /\ \A q \in Paths : Op(q) \subseteq Op(q)'
  <2>1. CASE UNCHANGED journal BY <2>1 DEF Op, TypeInv, TypeOK
  <2>2. CASE WriteRow(co.path, co.op, Finished(Row, state, stage, res))
    BY <2>2, FinishRowTypes
  <2> QED BY <2>1, <2>2 DEF FinishRow
<1>3. inFlight' \in [Paths -> Nat]
  <2>1. [inFlight EXCEPT ![co.path] = 0] \in [Paths -> Nat] BY DEF TypeInv, TypeOK
  <2>2. inFlight' = [inFlight EXCEPT ![co.path] = 0] \/ inFlight' = inFlight
    BY DEF FinishRow, completeTerminal
  <2> QED BY <2>1, <2>2 DEF TypeInv, TypeOK
<1>4. Fault \/ NoFault BY DEF FinishRow
<1> QED BY <1>1, <1>2, <1>3, <1>4, WriteTypes DEF WorkerFrame, process, TypeInv, TypeOK

\* SucceedJournal preserves the type invariant.
LEMMA SucceedJournalTypes == ASSUME TypeInv, SucceedJournal PROVE TypeInv' /\ Moves
<1>1. co.pc \in RowLabels /\ "succeed_status" \in Labels \cap Continuations
  BY DEF SucceedJournal, RowLabels, JobLabels, Labels, Continuations
<1>2. Result \in Results BY RepoType DEF Result, Results, Checkpoints, Oids
<1> QED BY <1>1, <1>2, TerminalTypes DEF SucceedJournal, OperationStates, Stages

\* FailJournal preserves the type invariant.
LEMMA FailJournalTypes == ASSUME TypeInv, FailJournal PROVE TypeInv' /\ Moves
<1>1. co.pc \in RowLabels /\ "fail_status" \in Labels \cap Continuations
  BY DEF FailJournal, RowLabels, JobLabels, Labels, Continuations
<1>2. co.res \in Results BY RepoType DEF Locals
<1>3. FailedState \in OperationStates BY DEF FailedState, OperationStates
<1> QED BY <1>1, <1>2, <1>3, TerminalTypes DEF FailJournal, Stages

\* SucceedStatus preserves the type invariant.
LEMMA SucceedStatusTypes == ASSUME TypeInv, SucceedStatus PROVE TypeInv' /\ Moves
<1> USE RepoType
<1>0. co.pc \in RowLabels BY DEF SucceedStatus, RowLabels, JobLabels
<1>1. co' \in Locals /\ co'.pc \notin RowLabels /\ co'.pc \in Continuations
  BY ReleaseType DEF SucceedStatus
<1>2. status' \in [Paths -> Statuses]
  <2>1. Result.remote \in Nat BY DEF Result, Checkpoints, Oids
  <2>2. CASE UNCHANGED status BY <2>2 DEF TypeInv, TypeOK
  <2> QED BY <2>1, <2>2, FinalStatusType DEF SucceedStatus, GitStates, FailureActions
<1>3. \A q \in Paths : Op(q) \subseteq Op(q)' BY DEF SucceedStatus, Op
<1> QED
  BY <1>0, <1>1, <1>2, <1>3, WriteTypes DEF SucceedStatus, WorkerFrame, MemoryFrame, process,
     TypeInv, TypeOK

\* Failed preserves the type invariant.
LEMMA FailedTypes == ASSUME TypeInv, Failed PROVE TypeInv' /\ Moves
<1> USE RepoType
<1>0. co.pc \in RowLabels /\ "fail_journal" \in Labels \cap Continuations
  BY DEF Failed, RowLabels, JobLabels, Labels, Continuations
<1>1. co' \in Locals /\ co'.pc \in Continuations /\ co'.op = co.op /\ co'.path = co.path
  <2>1. (IF phase = "closing" /\ co.err # "git_conflict" THEN "operation_interrupted" ELSE co.err) \in ErrorCodes
    BY CodeTypes DEF Locals
  <2>2. ASSUME NEW err \in ErrorCodes, co' = [co EXCEPT !.pc = "fail_journal", !.err = err]
        PROVE co' \in Locals /\ co'.pc \in Continuations /\ co'.op = co.op /\ co'.path = co.path
    BY <1>0, <2>2, Zenon DEF Locals
  <2> QED BY <2>1, <2>2 DEF Failed
<1>2. gate' \subseteq Paths BY DEF Failed, TypeInv, TypeOK
<1>3. \A q \in Paths : Op(q) \subseteq Op(q)' BY DEF Failed, Op
<1> QED
  BY <1>0, <1>1, <1>2, <1>3, WriteTypes DEF Failed, WorkerFrame, process, NoFault, TypeInv, TypeOK

\* ClassifyGitOutcome answers a public state and a failure action.
LEMMA ClassifyType ==
  ASSUME NEW kind, NEW state, NEW existing, NEW code
  PROVE  /\ ClassifyGitOutcome(kind, state, existing, code).state \in GitStates
         /\ ClassifyGitOutcome(kind, state, existing, code).failures \in FailureActions
BY DEF ClassifyGitOutcome, Outcome, GitStates, FailureActions

\* FailStatus preserves the type invariant.
LEMMA FailStatusTypes == ASSUME TypeInv, FailStatus PROVE TypeInv' /\ Moves
<1> USE RepoType
<1> DEFINE s == status[co.path]
           outcome == ClassifyGitOutcome(Kind, FailedState, s.state, co.err)
<1>0. co.pc \in RowLabels BY DEF FailStatus, RowLabels, JobLabels
<1>1. co' \in Locals /\ co'.pc \notin RowLabels /\ co'.pc \in Continuations
  BY ReleaseType DEF FailStatus
<1>2. status' \in [Paths -> Statuses]
  <2>1. FailedOID(s) \in Nat
    <3>1. Row.remote \in Nat /\ s.remote \in Nat /\ co.res.remote \in Nat
      BY <1>0, RowType DEF Rows, Oids, TypeInv, TypeOK, Statuses, Locals, Results
    <3> QED BY <3>1 DEF FailedOID, Keep
  <2>2. outcome.state \in GitStates /\ outcome.failures \in FailureActions BY ClassifyType
  <2>3. CASE UNCHANGED status BY <2>3 DEF TypeInv, TypeOK
  <2>4. CASE applyStatus(co.path, [s EXCEPT !.state = outcome.state, !.op = co.op,
                                            !.remote = FailedOID(s)], outcome.failures)
    <3> HIDE DEF outcome
    <3> QED BY <2>1, <2>2, <2>4, FinalStatusType
  <2> QED BY <2>3, <2>4 DEF FailStatus
<1>3. \A q \in Paths : Op(q) \subseteq Op(q)' BY DEF FailStatus, Op
<1> QED
  BY <1>0, <1>1, <1>2, <1>3, WriteTypes DEF FailStatus, WorkerFrame, MemoryFrame, process,
     TypeInv, TypeOK

-----------------------------------------------------------------------------

\* A step of an admission or a settings change whose writes are typed preserves the type invariant.
LEMMA RequestTypes ==
  ASSUME TypeInv, co' \in Locals, co'.pc # "refresh" \/ co'.next \in AdmissionLabels,
         (co.pc \in RowLabels => co.op \in Op(co.path))',
         config' \in [Paths -> Configs \cup {NoConfig}],
         journal' \in [Paths -> Seq(Rows)], \A q \in Paths : Op(q) \subseteq Op(q)',
         status' \in [Paths -> Statuses], inFlight' \in [Paths -> Nat],
         queue' \in Seq(Jobs),
         \A k \in DOMAIN queue' : \/ \E j \in DOMAIN queue : queue'[k] = queue[j]
                                  \/ queue'[k].op \in DOMAIN journal'[queue'[k].path] \cup {0},
         connecting' \subseteq Paths \X Configs, degraded' \in BOOLEAN,
         Fault \/ NoFault,
         UNCHANGED <<repo, server, published, phase, pending, broken, gate>>
  PROVE  TypeInv'
<1>1. spent' \in [faults : Nat, stops : Nat, pushes : Nat, edits : Nat] BY SpentType DEF TypeInv
<1>2. TypeOK' BY <1>1 DEF TypeInv, TypeOK
<1>3. ASSUME NEW k \in DOMAIN queue' PROVE queue'[k].op \in DOMAIN journal'[queue'[k].path] \cup {0}
  <2>1. ASSUME NEW j \in DOMAIN queue, queue'[k] = queue[j] PROVE queue'[k].op \in DOMAIN journal'[queue'[k].path] \cup {0}
    <3>1. queue[j] \in Jobs BY LenProperties, ElementOfSeq DEF TypeInv, TypeOK
    <3> QED BY <2>1, <3>1 DEF TypeInv, RowsExist, Op, Jobs
  <2> QED BY <2>1
<1>4. RowsExist' BY <1>3 DEF RowsExist, Op
<1> QED BY <1>2, <1>4 DEF TypeInv

\* A request that takes the coordinator has typed locals and no row.
LEMMA RequestType ==
  ASSUME TypeInv, NEW p \in Paths, NEW label \in AdmissionLabels, NEW cfg \in Configs \cup {NoConfig}, Request(p, label, cfg)
  PROVE  co' \in Locals /\ (co'.pc # "refresh" \/ co'.next \in AdmissionLabels) /\ co'.pc \notin RowLabels
<1>1. label \in Labels /\ label \in Continuations /\ label \in RequestLabels /\ label \notin RowLabels /\ label # "refresh"
  BY LabelsOf DEF AdmissionLabels, RequestLabels
<1>2. ASSUME NEW pc \in {label, "refresh"},
        co' = [Idle EXCEPT !.pc = pc, !.path = p, !.next = label, !.cfg = cfg]
      PROVE co' \in Locals /\ (co'.pc # "refresh" \/ co'.next \in AdmissionLabels) /\ co'.pc \in {label, "refresh"}
  <2>1. pc \in Labels BY <1>1 DEF Labels, RequestLabels
  <2> QED BY <1>1, <1>2, <2>1, IdleType, Zenon DEF Locals
<1>3. "refresh" \notin RowLabels BY DEF RowLabels, JobLabels
<1> QED BY <1>1, <1>2, <1>3 DEF Request

\* An unchanged journal has its rows.
LEMMA OpsUnchanged == ASSUME UNCHANGED journal PROVE \A q \in Paths : Op(q) \subseteq Op(q)'
BY DEF Op

\* A request that changes the holder alone preserves the type invariant.
LEMMA RequestStepTypes ==
  ASSUME TypeInv, co' \in Locals, co'.pc # "refresh" \/ co'.next \in AdmissionLabels,
         co'.pc \notin RowLabels, UNCHANGED <<durable, process, gate, queue, inFlight, degraded, spent>>,
         connecting' \subseteq connecting
  PROVE  TypeInv'
BY RequestTypes, OpsUnchanged DEF TypeInv, TypeOK, durable, process, NoFault

\* QueueSync preserves the type invariant.
LEMMA QueueSyncTypes == ASSUME TypeInv, NEW p \in Paths, QueueSync(p) PROVE TypeInv'
<1>1. config[p] \in Configs \cup {NoConfig} BY DEF TypeInv, TypeOK
<1> QED BY <1>1, RequestType, RequestStepTypes DEF QueueSync, AdmissionLabels, memory

\* Resume preserves the type invariant.
LEMMA ResumeTypes == ASSUME TypeInv, NEW p \in Paths, Resume(p) PROVE TypeInv'
<1>1. config[p] \in Configs \cup {NoConfig} BY DEF TypeInv, TypeOK
<1> QED BY <1>1, RequestType, RequestStepTypes DEF Resume, AdmissionLabels, memory

\* QueueInitialize preserves the type invariant.
LEMMA QueueInitializeTypes ==
  ASSUME TypeInv, NEW p \in Paths, NEW cfg \in Configs, QueueInitialize(p, cfg)
  PROVE  TypeInv'
<1>1. co' \in Locals /\ (co'.pc # "refresh" \/ co'.next \in AdmissionLabels) /\ co'.pc \notin RowLabels
  <2>1. CASE Request(p, "admit_initialize", cfg) BY <2>1, RequestType DEF AdmissionLabels
  <2>2. CASE UNCHANGED co BY <2>2, RepoType DEF QueueInitialize, Free, RowLabels, JobLabels
  <2> QED BY <2>1, <2>2 DEF QueueInitialize
<1> QED BY <1>1, RequestStepTypes DEF QueueInitialize

\* RefreshQueued preserves the type invariant.
LEMMA RefreshQueuedTypes == ASSUME TypeInv, RefreshQueued PROVE TypeInv'
<1> USE RepoType, NoResultType
<1>1. co' \in Locals /\ co'.pc # "refresh" /\ co'.pc \notin RowLabels
  <2>1. CASE Goto(co.next)
    <3>1. co.next \in AdmissionLabels BY DEF RefreshQueued, TypeInv, RowsExist
    <3> QED BY <2>1, <3>1, GotoType DEF Labels, RequestLabels, AdmissionLabels, RowLabels, JobLabels
  <2>2. CASE Release BY <2>2, ReleaseType
  <2> QED BY <2>1, <2>2 DEF RefreshQueued
<1>2. ASSUME NEW k \in StaleJobs(co.path),
             WriteRow(co.path, queue[k].op, Finished(journal[co.path][queue[k].op], "failed", "queued", NoResult)),
             queue' = Without(k)
      PROVE  /\ journal' \in [Paths -> Seq(Rows)] /\ \A q \in Paths : Op(q) \subseteq Op(q)'
             /\ queue' \in Seq(Jobs) /\ \A n \in DOMAIN queue' : \E j \in DOMAIN queue : queue'[n] = queue[j]
  <2>1. queue \in Seq(Jobs) /\ DOMAIN queue = 1 .. Len(queue) /\ Len(queue) \in Nat /\ k \in 1 .. Len(queue)
    BY LenProperties DEF StaleJobs, TypeInv, TypeOK
  <2>2. queue[k].path = co.path /\ queue[k].op \in Op(co.path) BY DEF StaleJobs, TypeInv, RowsExist
  <2>3. journal[co.path][queue[k].op] \in Rows
    BY <2>2, ElementOfSeq, LenProperties DEF Op, TypeInv, TypeOK
  <2>4. Finished(journal[co.path][queue[k].op], "failed", "queued", NoResult) \in Rows
    BY <2>3, FinishedType DEF OperationStates, Stages
  <2>5. journal' \in [Paths -> Seq(Rows)] /\ \A q \in Paths : Op(q) \subseteq Op(q)'
    BY <1>2, <2>4, WriteType DEF TypeInv, TypeOK
  <2>6. Len(queue) - 1 \in Nat BY <2>1
  <2>7. \A n \in 1 .. Len(queue) - 1 : (IF n < k THEN n ELSE n + 1) \in 1 .. Len(queue) BY <2>1
  <2>8. \A j \in 1 .. Len(queue) : queue[j] \in Jobs BY <2>1, ElementOfSeq
  <2>9. Without(k) \in [1 .. Len(queue) - 1 -> Jobs] BY <2>7, <2>8 DEF Without
  <2>10. Without(k) \in Seq(Jobs) BY <2>6, <2>9, SeqDef
  <2>11. \A n \in DOMAIN Without(k) : \E j \in DOMAIN queue : Without(k)[n] = queue[j]
    BY <2>1, <2>7 DEF Without
  <2> QED BY <1>2, <2>5, <2>10, <2>11
<1>3. /\ journal' \in [Paths -> Seq(Rows)] /\ \A q \in Paths : Op(q) \subseteq Op(q)'
      /\ queue' \in Seq(Jobs) /\ \A n \in DOMAIN queue' : \E j \in DOMAIN queue : queue'[n] = queue[j]
  <2>1. CASE UNCHANGED <<journal, queue>> BY <2>1 DEF Op, TypeInv, TypeOK
  <2> QED BY <1>2, <2>1 DEF RefreshQueued
<1>4. inFlight' \in [Paths -> Nat] BY DEF RefreshQueued, TypeInv, TypeOK
<1> QED BY <1>1, <1>3, <1>4, RequestTypes DEF RefreshQueued, process, TypeInv, TypeOK

\* An active row is one of the journal.
LEMMA ActiveType ==
  ASSUME TypeInv, NEW p \in Paths, ActiveByPath(p) # 0
  PROVE  ActiveByPath(p) \in Op(p) /\ ActiveByPath(p) \in Nat
<1>1. ActiveByPath(p) \in Op(p) BY DEF ActiveByPath, ActiveRows
<1> QED BY <1>1, LenProperties DEF Op, TypeInv, TypeOK

\* Adopting an active row keeps inFlight typed.
LEMMA AdoptType ==
  ASSUME TypeInv, NEW p \in Paths, NEW kinds, ActiveByPath(p) # 0, Adopt(p, kinds)
  PROVE  inFlight' \in [Paths -> Nat]
BY ActiveType DEF Adopt, TypeInv, TypeOK

\* The object ID an admission trusts is typed.
LEMMA TrustType == ASSUME TypeInv, NEW p \in Paths PROVE TrustedOrEmpty(p) \in Nat
<1>1. ASSUME journal[p] # <<>> PROVE journal[p][LatestByPath(p)] \in Rows
  BY <1>1, ElementOfSeq, LenProperties, EmptySeq DEF LatestByPath, TypeInv, TypeOK
<1>2. ASSUME NEW row \in Rows PROVE AdmissionTrust(row, status[p]) \in Nat
  <2>1. status[p].remote \in Nat /\ row.push \in Nat /\ row.remote \in Nat
    BY DEF TypeInv, TypeOK, Statuses, Oids, Rows
  <2> QED BY <2>1 DEF AdmissionTrust, Keep, OperationTrustedOID
<1> QED BY <1>1, <1>2 DEF TrustedOrEmpty

\* A queued row is a row.
LEMMA QueuedRowType ==
  ASSUME NEW kind \in OperationKinds, NEW cfg \in Configs \cup {NoConfig}, NEW ck \in Checkpoints
  PROVE  QueuedRow(kind, cfg, ck) \in Rows
BY DEF QueuedRow, Rows, OperationStates, Stages, Checkpoints

\* A new operation starts from a checkpoint.
LEMMA EmptyCheckpointType ==
  ASSUME NEW remote \in Nat
  PROVE  EmptyCheckpoint(remote) \in Checkpoints
<1>1. Idle.ck \in Checkpoints BY IdleType DEF Locals
<1> QED BY <1>1 DEF EmptyCheckpoint, Checkpoints, Oids

\* A created row is the one its holder writes the status of.
LEMMA CreateTypes ==
  ASSUME TypeInv, NEW p \in Paths, NEW row \in Rows, Create(p, row)
  PROVE  /\ co' \in Locals /\ co'.pc # "refresh" /\ (co.pc \in RowLabels => co.op \in Op(co.path))'
         /\ journal' \in [Paths -> Seq(Rows)] /\ \A q \in Paths : Op(q) \subseteq Op(q)'
<1>1. /\ journal' \in [Paths -> Seq(Rows)] /\ \A q \in Paths : Op(q) \subseteq Op(q)'
      /\ Len(journal[p]) + 1 \in Op(p)' /\ Len(journal[p]) \in Nat
  BY CreateType DEF Create, TypeInv, TypeOK
<1>2. Len(journal[p]) + 1 \in Nat /\ "admit_status" \in Labels
  BY <1>1 DEF Labels, RowLabels, JobLabels
<1>3. co' \in Locals /\ co'.pc = "admit_status" /\ co'.op = Len(journal[p]) + 1 /\ co'.path = p
  BY <1>2, RepoType, Zenon DEF Create, Locals
<1> QED BY <1>1, <1>3 DEF Op

\* Both kinds of admission preserve the type invariant.
LEMMA AdmitTypes ==
  ASSUME TypeInv, NEW kind \in OperationKinds, NEW label \in AdmissionLabels, Admit(kind, label) PROVE TypeInv'
<1> DEFINE p == co.path
           row == QueuedRow(kind, co.cfg, EmptyCheckpoint(TrustedOrEmpty(p)))
<1>0. p \in Paths /\ row \in Rows
  BY RepoType, TrustType, QueuedRowType, EmptyCheckpointType DEF Locals
<1>1. /\ co' \in Locals /\ co'.pc # "refresh" /\ (co.pc \in RowLabels => co.op \in Op(co.path))'
      /\ journal' \in [Paths -> Seq(Rows)] /\ \A q \in Paths : Op(q) \subseteq Op(q)'
  <2>1. CASE Create(p, row) BY <1>0, <2>1, CreateTypes
  <2>2. CASE Release /\ UNCHANGED journal BY <2>2, ReleaseType, OpsUnchanged DEF TypeInv, TypeOK
  <2> HIDE DEF row
  <2> QED BY <2>1, <2>2 DEF Admit, row
<1>2. inFlight' \in [Paths -> Nat]
  <2>1. CASE UNCHANGED inFlight BY <2>1 DEF TypeInv, TypeOK
  <2>2. CASE ActiveByPath(p) # 0 /\ Adopt(p, OperationKinds) BY <1>0, <2>2, AdoptType
  <2> QED BY <2>1, <2>2 DEF Admit
<1>3. Fault \/ NoFault BY DEF Admit
<1>4. UNCHANGED <<config, status, repo, server, published, process, gate, queue, connecting, degraded>>
  BY DEF Admit
<1> QED BY <1>1, <1>2, <1>3, <1>4, RequestTypes DEF process, TypeInv, TypeOK

\* A status with another state and operation is a status.
LEMMA StatusExceptType ==
  ASSUME TypeInv, NEW p \in Paths, NEW state \in GitStates, NEW i \in Nat
  PROVE  [status[p] EXCEPT !.state = state, !.op = i] \in Statuses
<1>1. status[p] \in Statuses BY DEF TypeInv, TypeOK
<1> QED BY <1>1, Zenon DEF Statuses

\* AdmitResume preserves the type invariant.
LEMMA AdmitResumeTypes == ASSUME TypeInv, AdmitResume PROVE TypeInv'
<1> USE RepoType
<1> DEFINE p == co.path
<1>1. co' \in Locals /\ co'.pc # "refresh" /\ co'.pc \notin RowLabels
  <2>1. CASE Release BY <2>1, ReleaseType
  <2>2. CASE co' = [co EXCEPT !.pc = "create_resumed", !.resumed = TRUE, !.prev = status[p]]
    <3>1. status[p] \in Statuses /\ "create_resumed" \in Labels /\ "create_resumed" \notin RowLabels
      BY DEF TypeInv, TypeOK, Labels, RequestLabels, RowLabels, JobLabels
    <3>2. co' \in Locals /\ co'.pc = "create_resumed" BY <2>2, <3>1, Zenon DEF Locals
    <3> QED BY <3>1, <3>2
  <2> QED BY <2>1, <2>2 DEF AdmitResume
<1>2. status' \in [Paths -> Statuses]
  <2>1. CASE UNCHANGED status BY <2>1 DEF TypeInv, TypeOK
  <2>2. CASE applyStatus(p, [status[p] EXCEPT !.state = "ready", !.op = 0], "reset")
    <3>1. [status[p] EXCEPT !.state = "ready", !.op = 0] \in Statuses
      BY StatusExceptType DEF GitStates
    <3> QED BY <2>2, <3>1, ApplyType DEF TypeInv, TypeOK, FailureActions
  <2> QED BY <2>1, <2>2 DEF AdmitResume
<1>3. inFlight' \in [Paths -> Nat]
  <2>1. CASE UNCHANGED inFlight BY <2>1 DEF TypeInv, TypeOK
  <2>2. CASE ActiveByPath(p) # 0 /\ Adopt(p, {"sync"}) BY <2>2, AdoptType
  <2> QED BY <2>1, <2>2 DEF AdmitResume
<1>4. Fault \/ NoFault BY DEF AdmitResume
<1>5. \A q \in Paths : Op(q) \subseteq Op(q)' BY OpsUnchanged DEF AdmitResume
<1>6. UNCHANGED <<config, journal, repo, server, published, process, gate, queue, connecting, degraded>>
  BY DEF AdmitResume
<1> QED BY <1>1, <1>2, <1>3, <1>4, <1>5, <1>6, RequestTypes DEF process, TypeInv, TypeOK

\* CreateResumed preserves the type invariant.
LEMMA CreateResumedTypes == ASSUME TypeInv, CreateResumed PROVE TypeInv'
<1> DEFINE p == co.path
           row == QueuedRow("sync", co.cfg, EmptyCheckpoint(TrustedOrEmpty(p)))
<1>0. p \in Paths /\ row \in Rows
  BY RepoType, TrustType, QueuedRowType, EmptyCheckpointType DEF Locals, OperationKinds
<1>1. /\ co' \in Locals /\ co'.pc # "refresh" /\ (co.pc \in RowLabels => co.op \in Op(co.path))'
      /\ journal' \in [Paths -> Seq(Rows)] /\ \A q \in Paths : Op(q) \subseteq Op(q)'
  <2>1. CASE Create(p, row) BY <1>0, <2>1, CreateTypes
  <2>2. CASE Goto("rollback") /\ UNCHANGED journal
    <3>1. "rollback" \in Labels /\ "rollback" \notin RowLabels
      BY DEF Labels, RequestLabels, AdmissionLabels, RowLabels, JobLabels
    <3> QED BY <2>2, <3>1, GotoType, RepoType, OpsUnchanged DEF TypeInv, TypeOK
  <2> HIDE DEF row
  <2> QED BY <2>1, <2>2 DEF CreateResumed, row
<1>2. Fault \/ NoFault BY DEF CreateResumed
<1>3. UNCHANGED <<config, status, repo, server, published, process, memory>> BY DEF CreateResumed
<1> QED BY <1>1, <1>2, <1>3, RequestTypes DEF process, memory, TypeInv, TypeOK

\* Rollback preserves the type invariant.
LEMMA RollbackTypes == ASSUME TypeInv, Rollback PROVE TypeInv'
<1>1. status' \in [Paths -> Statuses]
  BY RepoType DEF Rollback, TypeInv, TypeOK, Locals
<1>2. UNCHANGED <<config, journal, repo, server, published, process, memory>> /\ (Fault \/ NoFault) /\ Release
  BY DEF Rollback
<1> QED BY <1>1, <1>2, ReleaseType, OpsUnchanged, RequestTypes DEF process, memory, TypeInv, TypeOK

\* QueueConflict preserves the type invariant.
LEMMA QueueConflictTypes ==
  ASSUME TypeInv, NEW p \in Paths, NEW kind \in ConflictKinds, QueueConflict(p, kind) PROVE TypeInv'
<1> DEFINE o == currentConflictOperation(p)
           row == QueuedRow(kind, journal[p][o].cfg, CheckpointOf(journal[p][o]))
<1>0. row \in Rows
  <2>1. o \in Op(p) BY DEF QueueConflict, currentConflictOperation
  <2> HIDE DEF o
  <2>2. journal[p][o] \in Rows BY <2>1, ElementOfSeq, LenProperties DEF Op, TypeInv, TypeOK
  <2>3. CheckpointOf(journal[p][o]) \in Checkpoints /\ journal[p][o].cfg \in Configs \cup {NoConfig}
    BY <2>2 DEF CheckpointOf, Checkpoints, Rows
  <2> QED BY <2>3, QueuedRowType DEF ConflictKinds, OperationKinds
<1>1. /\ co' \in Locals /\ co'.pc # "refresh" /\ (co.pc \in RowLabels => co.op \in Op(co.path))'
      /\ journal' \in [Paths -> Seq(Rows)] /\ \A q \in Paths : Op(q) \subseteq Op(q)'
  <2>1. CASE Create(p, row) BY <1>0, <2>1, CreateTypes
  <2>2. CASE UNCHANGED <<co, journal>>
    BY <2>2, RepoType, OpsUnchanged DEF QueueConflict, Free, RowLabels, JobLabels, TypeInv, TypeOK
  <2> HIDE DEF row
  <2> QED BY <2>1, <2>2 DEF QueueConflict, row
<1>2. inFlight' \in [Paths -> Nat]
  <2>1. CASE UNCHANGED inFlight BY <2>1 DEF TypeInv, TypeOK
  <2>2. CASE ActiveByPath(p) # 0 /\ Adopt(p, {kind}) BY <2>2, AdoptType
  <2> QED BY <2>1, <2>2 DEF QueueConflict
<1>3. UNCHANGED <<config, status, repo, server, published, process, gate, queue, connecting, degraded, spent>>
  BY DEF QueueConflict
<1> QED BY <1>1, <1>2, <1>3, RequestTypes DEF process, NoFault, TypeInv, TypeOK

\* Queueing a job keeps the queue typed and its jobs in place.
LEMMA AppendTypes ==
  ASSUME TypeInv, NEW job \in Jobs
  PROVE  /\ Append(queue, job) \in Seq(Jobs)
         /\ \A k \in DOMAIN Append(queue, job) :
              \/ \E j \in DOMAIN queue : Append(queue, job)[k] = queue[j]
              \/ Append(queue, job)[k] = job
<1>1. /\ queue \in Seq(Jobs) /\ Len(queue) \in Nat /\ DOMAIN queue = 1 .. Len(queue)
  BY LenProperties DEF TypeInv, TypeOK
<1>2. /\ Append(queue, job) \in Seq(Jobs) /\ Len(Append(queue, job)) = Len(queue) + 1
      /\ \A k \in 1 .. Len(queue) : Append(queue, job)[k] = queue[k]
      /\ Append(queue, job)[Len(queue) + 1] = job
  BY <1>1, AppendProperties
<1>3. DOMAIN Append(queue, job) = 1 .. Len(queue) + 1 BY <1>2, LenProperties
<1> QED BY <1>1, <1>2, <1>3

\* EnqueueResolve preserves the type invariant.
LEMMA EnqueueResolveTypes == ASSUME TypeInv, NEW p \in Paths, EnqueueResolve(p) PROVE TypeInv'
<1> DEFINE job == [path |-> p, op |-> 0, cfg |-> NoConfig]
<1>1. job \in Jobs BY DEF Jobs
<1>2. /\ queue' \in Seq(Jobs)
      /\ \A k \in DOMAIN queue' : \/ \E j \in DOMAIN queue : queue'[k] = queue[j]
                                  \/ queue'[k].op \in DOMAIN journal'[queue'[k].path] \cup {0}
  BY <1>1, AppendTypes DEF EnqueueResolve
<1>3. UNCHANGED <<durable, process, gate, inFlight, connecting, degraded, co, spent>>
  BY DEF EnqueueResolve
<1>4. (co.pc \in RowLabels => co.op \in Op(co.path))' /\ (co'.pc # "refresh" \/ co'.next \in AdmissionLabels)
  BY <1>3 DEF TypeInv, RowsExist, Op, durable
<1> QED
  BY <1>2, <1>3, <1>4, RepoType, OpsUnchanged, RequestTypes DEF durable, process, NoFault,
     TypeInv, TypeOK

\* The status of an admitted operation is a status.
LEMMA AdmittedStatusType ==
  ASSUME TypeInv, co.pc \in RowLabels
  PROVE  AdmittedStatus(co.path, co.op) \in Statuses
<1>1. Row \in Rows /\ co.path \in Paths /\ status[co.path] \in Statuses /\ co.op \in Nat
  BY RowType DEF TypeInv, TypeOK, Locals
<1>2. WorkingState(Row.kind) \in GitStates BY DEF WorkingState, GitStates
<1>3. Row.remote \in Nat BY <1>1 DEF Rows, Oids
<1>4. [status[co.path] EXCEPT !.op = co.op] \in Statuses BY <1>1, Zenon DEF Statuses
<1>5. WorkingStatus(co.path, co.op, WorkingState(Row.kind), Row.remote) \in Statuses
  BY <1>1, <1>2, <1>3, Zenon DEF WorkingStatus, Statuses, Oids
<1> QED BY <1>4, <1>5 DEF AdmittedStatus

\* AdmitStatus preserves the type invariant.
LEMMA AdmitStatusTypes == ASSUME TypeInv, AdmitStatus PROVE TypeInv'
<1> USE RepoType
<1> DEFINE p == co.path
           job == [path |-> p, op |-> co.op, cfg |-> config[p]]
<1>0. co.pc \in RowLabels /\ co.op \in Op(p) /\ co.op \in Nat /\ job \in Jobs
  <2>1. co.pc \in RowLabels BY DEF AdmitStatus, RowLabels, JobLabels
  <2>2. config[p] \in Configs \cup {NoConfig} /\ co.op \in Nat BY DEF TypeInv, TypeOK, Locals
  <2> QED BY <2>1, <2>2 DEF Jobs, TypeInv, RowsExist
<1>1. co' \in Locals /\ co'.pc # "refresh" /\ (co'.pc \in RowLabels => co'.op = co.op /\ co'.path = p)
  <2>1. CASE Release BY <2>1, ReleaseType
  <2>2. CASE Goto("undo")
    <3>1. "undo" \in Labels BY DEF Labels, RowLabels, JobLabels
    <3> QED BY <2>2, <3>1, GotoType
  <2> QED BY <2>1, <2>2 DEF AdmitStatus
<1>2. status' \in [Paths -> Statuses]
  <2>1. CASE applyStatus(p, AdmittedStatus(p, co.op), "preserve")
    BY <1>0, <2>1, AdmittedStatusType, ApplyType DEF TypeInv, TypeOK, FailureActions
  <2>2. CASE UNCHANGED status BY <2>2 DEF TypeInv, TypeOK
  <2> QED BY <2>1, <2>2 DEF AdmitStatus
<1>3. inFlight' \in [Paths -> Nat] BY <1>0 DEF AdmitStatus, TypeInv, TypeOK
<1>4. /\ queue' \in Seq(Jobs)
      /\ \A k \in DOMAIN queue' : \/ \E j \in DOMAIN queue : queue'[k] = queue[j]
                                  \/ queue'[k].op \in DOMAIN journal'[queue'[k].path] \cup {0}
  <2>1. CASE queue' = QueueAfter(TRUE)
    <3>1. queue' = Append(queue, job) BY <2>1 DEF QueueAfter
    <3>2. job.op \in DOMAIN journal'[job.path] BY <1>0 DEF AdmitStatus, Op
    <3> HIDE DEF job
    <3> QED BY <1>0, <3>1, <3>2, AppendTypes
  <2>2. CASE queue' = QueueAfter(FALSE) BY <2>2 DEF QueueAfter, TypeInv, TypeOK
  <2> QED BY <2>1, <2>2 DEF AdmitStatus
<1>5. Fault \/ NoFault BY DEF AdmitStatus
<1>6. UNCHANGED <<config, journal, repo, server, published, process, gate, connecting, degraded>>
  BY DEF AdmitStatus
<1>7. (co.pc \in RowLabels => co.op \in Op(co.path))' BY <1>0, <1>1, <1>6 DEF Op
<1> QED
  BY <1>1, <1>2, <1>3, <1>4, <1>5, <1>6, <1>7, OpsUnchanged, RequestTypes DEF process, TypeInv,
     TypeOK

\* Undo preserves the type invariant.
LEMMA UndoTypes == ASSUME TypeInv, Undo PROVE TypeInv'
<1> USE RepoType
<1>0. co.pc \in RowLabels BY DEF Undo, RowLabels, JobLabels
<1>1. co' \in Locals /\ co'.pc # "refresh" /\ co'.pc \notin RowLabels
  <2>1. CASE Release BY <2>1, ReleaseType
  <2>2. CASE Goto("rollback")
    <3>1. "rollback" \in Labels /\ "rollback" \notin RowLabels
      BY DEF Labels, RequestLabels, AdmissionLabels, RowLabels, JobLabels
    <3> QED BY <2>2, <3>1, GotoType
  <2> QED BY <2>1, <2>2 DEF Undo
<1>2. journal' \in [Paths -> Seq(Rows)] /\ \A q \in Paths : Op(q) \subseteq Op(q)'
  <2>1. CASE WriteRow(co.path, co.op, Finished(Row, "failed", "queued", NoResult))
    <3>1. Finished(Row, "failed", "queued", NoResult) \in Rows
      BY <1>0, RowType, NoResultType, FinishedType DEF OperationStates, Stages
    <3> QED BY <2>1, <3>1, WriteType DEF TypeInv, TypeOK
  <2>2. CASE UNCHANGED journal BY <2>2, OpsUnchanged DEF TypeInv, TypeOK
  <2> QED BY <2>1, <2>2 DEF Undo
<1>3. inFlight' \in [Paths -> Nat] BY DEF Undo, TypeInv, TypeOK, Locals
<1>4. Fault \/ NoFault BY DEF Undo
<1>5. UNCHANGED <<config, status, repo, server, published, process, gate, queue, connecting,
      degraded>>
  BY DEF Undo
<1> QED BY <1>1, <1>2, <1>3, <1>4, <1>5, RequestTypes DEF process, TypeInv, TypeOK

\* ConfigureGit and DisableGit preserve the type invariant.
LEMMA ChangeStatusTypes ==
  ASSUME TypeInv, NEW p \in Paths, NEW cfg \in Configs \cup {NoConfig}, ChangeStatus(p, cfg) PROVE TypeInv'
<1>1. status[p] \in Statuses BY DEF TypeInv, TypeOK
<1>2. NewStatus(p, cfg) \in Statuses
  <2>1. NoStatus \in Statuses BY DEF NoStatus, Statuses, Oids
  <2>2. (IF config[p] # NoConfig /\ FoundStatus(p) THEN status[p].remote ELSE 0) \in Nat
    BY <1>1 DEF Statuses, Oids
  <2> QED BY <2>1, <2>2 DEF NewStatus, Statuses, GitStates, Oids
<1>3. co' \in Locals /\ co'.pc \in {"save_config", "restore_status"}
  <2>1. {"save_config", "restore_status"} \subseteq Labels
    BY DEF Labels, RequestLabels, AdmissionLabels
  <2>2. ASSUME NEW label \in {"save_config", "restore_status"}, Changing(p, cfg, label)
        PROVE  co' \in Locals /\ co'.pc = label
    BY <1>1, <2>1, <2>2, IdleType, Zenon DEF Changing, Locals
  <2> QED BY <2>2 DEF ChangeStatus
<1>4. co'.pc # "refresh" /\ co'.pc \notin RowLabels BY <1>3 DEF RowLabels, JobLabels
<1>5. status' \in [Paths -> Statuses] BY <1>2 DEF ChangeStatus, TypeInv, TypeOK
<1>6. UNCHANGED <<config, journal, repo, server, published, process, memory>> /\ (Fault \/ NoFault)
  BY DEF ChangeStatus
<1> QED
  BY <1>3, <1>4, <1>5, <1>6, OpsUnchanged, RequestTypes DEF process, memory, TypeInv, TypeOK

\* SaveConfig preserves the type invariant.
LEMMA SaveConfigTypes == ASSUME TypeInv, SaveConfig PROVE TypeInv'
<1> USE RepoType
<1>0. co.cfg \in Configs \cup {NoConfig} BY DEF Locals
<1>1. co' \in Locals /\ co'.pc # "refresh" /\ co'.pc \notin RowLabels
  <2>1. CASE Release BY <2>1, ReleaseType
  <2>2. CASE Goto("restore_status")
    <3>1. "restore_status" \in Labels /\ "restore_status" \notin RowLabels
      BY DEF Labels, RequestLabels, AdmissionLabels, RowLabels, JobLabels
    <3> QED BY <2>2, <3>1, GotoType
  <2> QED BY <2>1, <2>2 DEF SaveConfig
<1>2. config' \in [Paths -> Configs \cup {NoConfig}] BY <1>0 DEF SaveConfig, TypeInv, TypeOK
<1>3. connecting' \subseteq Paths \X Configs
  <2>1. connecting \subseteq Paths \X Configs BY DEF TypeInv, TypeOK
  <2>2. co.cfg # NoConfig => <<co.path, co.cfg>> \in Paths \X Configs BY <1>0
  <2> QED BY <2>1, <2>2 DEF SaveConfig
<1>4. Fault \/ NoFault BY DEF SaveConfig
<1>5. UNCHANGED <<journal, status, repo, server, published, process, gate, queue, inFlight,
      degraded>>
  BY DEF SaveConfig
<1> QED BY <1>1, <1>2, <1>3, <1>4, <1>5, OpsUnchanged, RequestTypes DEF process, TypeInv, TypeOK

\* RestoreStatus preserves the type invariant.
LEMMA RestoreStatusTypes == ASSUME TypeInv, RestoreStatus PROVE TypeInv'
<1>1. status' \in [Paths -> Statuses] BY RepoType DEF RestoreStatus, TypeInv, TypeOK, Locals
<1>2. degraded' \in BOOLEAN BY DEF RestoreStatus, TypeInv, TypeOK
<1>3. /\ UNCHANGED <<config, journal, repo, server, published, process, gate, queue, inFlight, connecting>>
      /\ (Fault \/ NoFault) /\ Release
  BY DEF RestoreStatus
<1> QED BY <1>1, <1>2, <1>3, ReleaseType, OpsUnchanged, RequestTypes DEF process, TypeInv, TypeOK

-----------------------------------------------------------------------------

\* A step of the process or its surroundings whose writes are typed preserves the type invariant.
LEMMA WorldTypes ==
  ASSUME TypeInv, co' \in Locals, co'.pc \in {"free", "recover"} \/ UNCHANGED <<co, journal>>,
         journal' \in [Paths -> Seq(Rows)], \A q \in Paths : Op(q) \subseteq Op(q)',
         status' \in [Paths -> Statuses], repo' \in [Paths -> Repos],
         server' \in [Paths -> Oids], published' \in [Paths -> SUBSET Oids],
         phase' \in Phases, pending' \subseteq Paths, broken' \in BOOLEAN, gate' \subseteq Paths,
         spent' \in [faults : Nat, stops : Nat, pushes : Nat, edits : Nat],
         UNCHANGED <<config, queue, inFlight, connecting, degraded>>
  PROVE  TypeInv'
<1>1. TypeOK' BY DEF TypeInv, TypeOK
<1>2. ASSUME NEW k \in DOMAIN queue PROVE queue[k].op \in DOMAIN journal'[queue[k].path] \cup {0}
  <2>1. queue[k] \in Jobs BY LenProperties, ElementOfSeq DEF TypeInv, TypeOK
  <2> QED BY <2>1 DEF TypeInv, RowsExist, Op, Jobs
<1>3. (co.pc \in RowLabels => co.op \in Op(co.path))' /\ (co.pc = "refresh" => co.next \in AdmissionLabels)'
  <2>1. CASE co'.pc \in {"free", "recover"} BY <2>1 DEF RowLabels, JobLabels
  <2>2. CASE UNCHANGED <<co, journal>> BY <2>2 DEF TypeInv, RowsExist, Op
  <2> QED BY <2>1, <2>2
<1>4. RowsExist' BY <1>2, <1>3 DEF RowsExist, Op
<1> QED BY <1>1, <1>4 DEF TypeInv

\* A process that goes down preserves the type invariant.
LEMMA DownTypes == ASSUME TypeInv, Down, UNCHANGED durable,
                          spent' \in [faults : Nat, stops : Nat, pushes : Nat, edits : Nat]
                   PROVE  TypeInv'
<1>1. co' \in Locals /\ co'.pc = "free" BY IdleType DEF Down, Idle
<1>2. TypeOK' BY <1>1, EmptySeq DEF TypeInv, TypeOK, Down, durable, Phases
<1>3. RowsExist' BY <1>1 DEF RowsExist, Down, RowLabels, JobLabels
<1> QED BY <1>2, <1>3 DEF TypeInv

-----------------------------------------------------------------------------

\* A row of the journal is a row.
LEMMA RowAt ==
  ASSUME TypeInv, NEW p \in Paths, NEW i \in Op(p)
  PROVE  journal[p][i] \in Rows /\ i \in Nat
BY ElementOfSeq, LenProperties DEF Op, TypeInv, TypeOK

\* The operations recovery reasons from are rows of the journal, or none.
LEMMA RecoveryOps ==
  ASSUME TypeInv, NEW p \in Paths
  PROVE  /\ recoveryConflictOperation(p) \in Op(p) \cup {0}
         /\ originalConflict(p) \in Op(p) \cup {0}
         /\ recoveryOperation(p) \in Op(p) \cup {0}
<1>1. recoveryConflictOperation(p) \in Op(p) \cup {0} BY DEF recoveryConflictOperation, Settles
<1>2. LatestByPath(p) # 0 => LatestByPath(p) \in Op(p)
  BY LenProperties DEF LatestByPath, Op, TypeInv, TypeOK
<1>3. originalConflict(p) \in Op(p) \cup {0} BY <1>1 DEF originalConflict, Settles
<1>4. unfinishedTransition(p) => ActiveByPath(p) \in Op(p) BY ActiveType DEF unfinishedTransition
<1>5. recoveryOperation(p) \in Op(p) \cup {0} BY <1>1, <1>2, <1>4 DEF recoveryOperation
<1> QED BY <1>1, <1>3, <1>5

\* The object ID an inspection trusts is typed.
LEMMA InspectedType ==
  ASSUME TypeInv, NEW p \in Paths PROVE Inspected(p, recoveryOperation(p)).remote \in Nat
<1> DEFINE i == recoveryOperation(p)
<1>1. i \in Op(p) \cup {0} BY RecoveryOps
<1> HIDE DEF i
<1>2. repo[p].managed \in Nat BY DEF TypeInv, TypeOK, Repos, Oids
<1>3. recoveryRemoteOID(p, i).oid \in Nat
  <2>1. CASE i = 0 BY <1>2, <2>1 DEF recoveryRemoteOID
  <2>2. CASE i \in Op(p) /\ i # 0
    <3>1. journal[p][i].remote \in Nat /\ journal[p][i].push \in Nat /\ journal[p][i].candidate \in Nat
      BY <2>2, RowAt DEF Rows, Oids
    <3> QED BY <1>2, <2>2, <3>1 DEF recoveryRemoteOID
  <2> QED BY <1>1, <2>1, <2>2
<1>4. Inspected(p, i).remote \in {0, recoveryRemoteOID(p, i).oid} BY DEF Inspected, Found
<1> QED BY <1>3, <1>4 DEF i

\* The status recovery writes is a status; of the finding it takes the object ID alone.
LEMMA TransitionType ==
  ASSUME TypeInv, NEW p \in Paths, NEW found, found.remote \in Nat, NEW state \in GitStates \cup {"absent"},
         NEW op \in Nat, NEW action \in FailureActions
  PROVE  Transition(p, found, state, op, action) \in Statuses
<1> DEFINE s == status[p]
           after == [s EXCEPT !.state = state, !.op = op, !.remote = Keep(found.remote, @)]
<1>1. s \in Statuses BY DEF TypeInv, TypeOK
<1>2. Keep(found.remote, s.remote) \in Nat BY <1>1 DEF Keep, Statuses, Oids
<1> HIDE DEF s
<1>3. after \in Statuses BY <1>1, <1>2, Zenon DEF Statuses, Oids
<1> HIDE DEF after
<1>4. NextState(after.state, s.failures, action) \in GitStates \cup {"absent"}
  BY <1>3 DEF NextState, Statuses, GitStates
<1>5. NextFailures(s.failures, action) \in Nat
  BY <1>1, SMT DEF NextFailures, Statuses, FailureActions
<1>6. ApplyTransition(s, after, action) \in Statuses
  BY <1>3, <1>4, <1>5, Zenon DEF ApplyTransition, Statuses
<1> QED BY <1>6 DEF Transition, s, after

\* The status writes of recovery are planned writes.
LEMMA StatusWriteType ==
  ASSUME TypeInv, NEW p \in Paths, NEW found, found.remote \in Nat, NEW state \in GitStates \cup {"absent"}
  PROVE  /\ \A op \in Nat, action \in FailureActions : Status(p, found, state, op, action) \in Writes
         /\ Published(p, found, state) \in Writes
<1>1. status[p].op \in Nat /\ "preserve" \in FailureActions
  BY DEF TypeInv, TypeOK, Statuses, FailureActions
<1> QED BY <1>1, TransitionType DEF Status, Published, Writes

\* The journal writes of recovery are planned writes.
LEMMA JournalWriteType == ASSUME NEW row \in Rows PROVE Journal(row) \in Writes
BY DEF Journal, Writes

\* The states recovery writes, and the sets of writes it keeps to: all of them, or those
\* that a later proof knows more of.
PlannedStates == {"paused", "conflict", "ready", "error", "needs_reconnect"}
KeepsTo(S, p, found) ==
  /\ \A row \in Rows : Journal(row) \in S
  /\ \A state \in PlannedStates : Published(p, found, state) \in S
  /\ \A state \in PlannedStates, op \in Nat, action \in {"preserve", "reset"} :
       Status(p, found, state, op, action) \in S

\* Short plans are plans.
LEMMA WriteSeqs ==
  ASSUME NEW S PROVE
  /\ <<>> \in Seq(S)
  /\ \A a \in S : <<a>> \in Seq(S) /\ <<a>> # <<>>
  /\ \A a, b \in S : <<a, b>> \in Seq(S) /\ <<a, b>> # <<>>
  /\ \A u, v \in Seq(S) : u \o v \in Seq(S)
<1>1. \A u, v \in Seq(S) : u \o v \in Seq(S) BY ConcatProperties
<1>2. \A a \in S : <<a>> \in Seq(S) OBVIOUS
<1>3. \A a, b \in S : <<a, b>> \in Seq(S) OBVIOUS
<1> QED BY <1>1, <1>2, <1>3, EmptySeq

\* The plan for an unfinished abort keeps to them.
LEMMA RecoverAbortKeeps ==
  ASSUME TypeInv, NEW p \in Paths, NEW row \in Rows, NEW found, found.remote \in Nat, ActiveByPath(p) # 0,
         NEW S, KeepsTo(S, p, found)
  PROVE  /\ RecoverAbort(p, row, found).writes \in Seq(S)
         /\ RecoverAbort(p, row, found).fallback \in Seq(S)
<1>1. ActiveByPath(p) \in Nat /\ originalConflict(p) \in Nat
  BY ActiveType, RecoveryOps, RowAt
<1>3. /\ Status(p, found, "paused", ActiveByPath(p), "preserve") \in S
      /\ Status(p, found, "conflict", originalConflict(p), "preserve") \in S
  BY <1>1 DEF KeepsTo, PlannedStates
<1>4. /\ Journal(Finished(row, "succeeded", "completed", NoResult)) \in S
      /\ Journal(Finished(row, "failed", "queued", NoResult)) \in S
  BY FinishedType, NoResultType DEF KeepsTo, OperationStates, Stages
<1> QED BY <1>3, <1>4, WriteSeqs, Zenon DEF RecoverAbort, Plan

\* The plan for an unfinished completion keeps to them.
LEMMA RecoverCompletionKeeps ==
  ASSUME TypeInv, NEW p \in Paths, NEW row \in Rows, NEW found, found.remote \in Nat, ActiveByPath(p) # 0,
         NEW S, KeepsTo(S, p, found)
  PROVE  /\ RecoverCompletion(p, row, found).writes \in Seq(S)
         /\ RecoverCompletion(p, row, found).fallback \in Seq(S)
<1> DEFINE ck == [CheckpointOf(row) EXCEPT !.stage = "conflict_reindexed"]
           reindexed == Checkpointed(row, ck)
           current == IF found.state = "needs_reindex" THEN reindexed ELSE row
           res == [remote |-> found.remote, push |-> 0]
           i == ActiveByPath(p)
<1>1. i \in Nat BY ActiveType
<1>2. reindexed \in Rows
  <2>1. CheckpointOf(row) \in Checkpoints /\ "conflict_reindexed" \in Stages
    BY DEF CheckpointOf, Checkpoints, Rows, Stages
  <2>2. ck \in Checkpoints BY <2>1 DEF Checkpoints
  <2> QED BY <2>2, CheckpointedType
<1>3. current \in Rows BY <1>2
<1>4. res \in Results BY DEF Results, Oids
<1> HIDE DEF res, current, reindexed, i, ck
<1>6. /\ Status(p, found, "ready", i, "reset") \in S
      /\ Status(p, found, "error", i, "preserve") \in S
  BY <1>1 DEF KeepsTo, PlannedStates
<1>7. /\ Journal(Finished(row, "succeeded", "completed", res)) \in S
      /\ Journal(Finished(current, "failed", "queued", NoResult)) \in S
      /\ Journal(current) \in S
  BY <1>3, <1>4, FinishedType, NoResultType DEF KeepsTo, OperationStates, Stages
<1>8. (IF current # row THEN <<Journal(current)>> ELSE <<>>) \in Seq(S)
  BY <1>7, WriteSeqs
<1>9. /\ <<Status(p, found, "ready", i, "reset"), Journal(Finished(row, "succeeded", "completed", res))>> \in Seq(S)
      /\ <<Status(p, found, "error", i, "preserve"), Journal(Finished(current, "failed", "queued", NoResult))>> \in Seq(S)
  BY <1>6, <1>7, WriteSeqs
<1>10. CASE found.state = "pushed"
  BY <1>9, <1>10, WriteSeqs, Zenon DEF RecoverCompletion, Plan, res, i
<1>11. CASE found.state # "pushed"
  BY <1>8, <1>9, <1>11, WriteSeqs, Zenon DEF RecoverCompletion, Plan, i, current, reindexed, ck
<1> QED BY <1>10, <1>11

\* Recovery publishes a public state.
LEMMA SettledType ==
  ASSUME TypeInv, NEW p \in Paths, NEW found
  PROVE  Settled(p, found) \in PlannedStates /\ Settled(p, found) \in GitStates
BY DEF Settled, PlannedStates, GitStates

\* The plan for an interrupted operation keeps to them.
LEMMA RecoverInterruptedKeeps ==
  ASSUME TypeInv, NEW p \in Paths, NEW row \in Rows, NEW found, found.remote \in Nat, NEW S, KeepsTo(S, p, found)
  PROVE  /\ RecoverInterrupted(p, row, found).writes \in Seq(S)
         /\ RecoverInterrupted(p, row, found).fallback \in Seq(S)
<1> DEFINE conflict == found.conflict \/ durableConflict(p)
           ck == [CheckpointOf(row) EXCEPT !.remote = found.remote]
           trusted == Checkpointed(row, ck)
           advanced == found.remote # 0 /\ found.remote # row.remote
           current == IF advanced THEN trusted ELSE row
           final == IF conflict THEN "conflict" ELSE "failed"
           last == IF conflict THEN "conflict" ELSE "needs_reconnect"
           state == Settled(p, found)
<1>1. trusted \in Rows
  <2>1. CheckpointOf(row) \in Checkpoints BY DEF CheckpointOf, Checkpoints, Rows
  <2>2. ck \in Checkpoints BY <2>1 DEF Checkpoints, Oids
  <2> QED BY <2>2, CheckpointedType
<1>2. current \in Rows BY <1>1
<1>3. final \in OperationStates /\ last \in PlannedStates BY DEF OperationStates, PlannedStates
<1>4. state \in PlannedStates BY SettledType
<1> HIDE DEF conflict, ck, trusted, advanced, current, final, last, state
<1>5. Journal(trusted) \in S /\ Journal(Finished(current, final, "queued", NoResult)) \in S
  BY <1>1, <1>2, <1>3, FinishedType, NoResultType DEF KeepsTo, Stages
<1>6. Published(p, found, state) \in S /\ Published(p, found, last) \in S
  BY <1>3, <1>4 DEF KeepsTo
<1>7. (IF advanced THEN <<Journal(trusted)>> ELSE <<>>) \in Seq(S) BY <1>5, WriteSeqs
<1>8. <<Journal(Finished(current, final, "queued", NoResult)), Published(p, found, state)>> \in Seq(S)
  BY <1>5, <1>6, WriteSeqs
<1>9. <<Published(p, found, last)>> \in Seq(S) BY <1>6, WriteSeqs
<1>10. RecoverInterrupted(p, row, found) =
         Plan((IF advanced THEN <<Journal(trusted)>> ELSE <<>>) \o
                <<Journal(Finished(current, final, "queued", NoResult)), Published(p, found, state)>>,
              Gates(state), <<Published(p, found, last)>>)
  BY Zenon DEF RecoverInterrupted, conflict, ck, trusted, advanced, current, final, last, state
<1>11. (IF advanced THEN <<Journal(trusted)>> ELSE <<>>) \o
         <<Journal(Finished(current, final, "queued", NoResult)), Published(p, found, state)>> \in Seq(S)
  BY <1>7, <1>8, WriteSeqs
<1> QED BY <1>9, <1>10, <1>11, SMT DEF Plan

\* The plan for a base without an unfinished operation keeps to them.
LEMMA RecoverSettledKeeps ==
  ASSUME TypeInv, NEW p \in Paths, NEW found, found.remote \in Nat, NEW S, KeepsTo(S, p, found)
  PROVE  /\ RecoverSettled(p, found).writes \in Seq(S)
         /\ RecoverSettled(p, found).fallback \in Seq(S)
<1> DEFINE i == recoveryOperation(p)
           state == Settled(p, found)
<1>1. i \in Nat BY RecoveryOps, RowAt
<1>2. state \in PlannedStates BY SettledType
<1> HIDE DEF i, state
<1>3. Status(p, found, "error", i, "preserve") \in S /\ Published(p, found, state) \in S
  BY <1>1, <1>2 DEF KeepsTo, PlannedStates
<1>4. <<Status(p, found, "error", i, "preserve")>> \in Seq(S) /\ <<Published(p, found, state)>> \in Seq(S)
  BY <1>3, WriteSeqs
<1>5. CASE i # 0 /\ journal[p][i].kind = "conflict_complete" /\ found.state \in Halfway
  BY <1>4, <1>5, WriteSeqs, Zenon DEF RecoverSettled, Plan, i
<1>6. CASE ~(i # 0 /\ journal[p][i].kind = "conflict_complete" /\ found.state \in Halfway)
  BY <1>4, <1>6, WriteSeqs, Zenon DEF RecoverSettled, Plan, i, state
<1> QED BY <1>5, <1>6

\* Whatever recovery finds, its plan keeps to those writes.
LEMMA RecoveryPlanKeeps ==
  ASSUME TypeInv, NEW p \in Paths, NEW found, found.remote \in Nat, NEW S, KeepsTo(S, p, found)
  PROVE  /\ RecoveryPlan(p, found).writes \in Seq(S)
         /\ RecoveryPlan(p, found).fallback \in Seq(S)
<1> DEFINE i == ActiveByPath(p)
<1>1. CASE i = 0 BY <1>1, RecoverSettledKeeps DEF RecoveryPlan
<1>2. CASE i # 0
  <2>1. journal[p][i] \in Rows BY <1>2, ActiveType, RowAt
  <2>2. RecoveryPlan(p, found) \in {RecoverAbort(p, journal[p][i], found), RecoverCompletion(p, journal[p][i], found),
                                    RecoverInterrupted(p, journal[p][i], found)}
    BY <1>2 DEF RecoveryPlan
  <2> QED BY <1>2, <2>1, <2>2, RecoverAbortKeeps, RecoverCompletionKeeps, RecoverInterruptedKeeps
<1> QED BY <1>1, <1>2

\* Whatever recovery finds, it plans typed writes.
LEMMA RecoveryPlanType ==
  ASSUME TypeInv, NEW p \in Paths, NEW found, found.remote \in Nat
  PROVE  /\ RecoveryPlan(p, found).writes \in Seq(Writes)
         /\ RecoveryPlan(p, found).fallback \in Seq(Writes)
<1>1. KeepsTo(Writes, p, found)
  BY StatusWriteType, JournalWriteType DEF KeepsTo, PlannedStates, GitStates, FailureActions
<1> QED BY <1>1, RecoveryPlanKeeps

-----------------------------------------------------------------------------

\* The bounds on stops, pushes and edits stay typed.
LEMMA SpentExcept ==
  ASSUME TypeInv
  PROVE  /\ [spent EXCEPT !.stops = @ + 1] \in [faults : Nat, stops : Nat, pushes : Nat, edits : Nat]
         /\ [spent EXCEPT !.pushes = @ + 1] \in [faults : Nat, stops : Nat, pushes : Nat, edits : Nat]
         /\ [spent EXCEPT !.edits = @ + 1] \in [faults : Nat, stops : Nat, pushes : Nat, edits : Nat]
<1>1. spent \in [faults : Nat, stops : Nat, pushes : Nat, edits : Nat] BY DEF TypeInv, TypeOK
<1>2. spent.stops + 1 \in Nat /\ spent.pushes + 1 \in Nat /\ spent.edits + 1 \in Nat BY <1>1
<1> QED BY <1>1, <1>2, Zenon

\* Boot preserves the type invariant.
LEMMA BootTypes == ASSUME TypeInv, Boot PROVE TypeInv'
<1>1. phase' \in Phases /\ pending' \subseteq Paths /\ broken' \in BOOLEAN BY DEF Boot, Phases
<1>2. UNCHANGED <<durable, memory, co, spent>> BY DEF Boot
<1> QED BY <1>1, <1>2, OpsUnchanged, WorldTypes DEF durable, memory, TypeInv, TypeOK

\* RecoverBase preserves the type invariant.
LEMMA RecoverBaseTypes == ASSUME TypeInv, NEW p \in Paths, RecoverBase(p) PROVE TypeInv'
<1>1. Uninspected.remote \in Nat BY DEF Uninspected, Found
<1>2. ASSUME NEW found, found.remote \in Nat, NEW plan, plan = RecoveryPlan(p, found),
             co' = [Idle EXCEPT !.pc = "recover", !.path = p, !.op = RecoveredRow(p),
                                !.plan = plan.writes, !.fallback = plan.fallback]
      PROVE  co' \in Locals /\ co'.pc = "recover"
  <2>1. plan.writes \in Seq(Writes) /\ plan.fallback \in Seq(Writes) BY <1>2, RecoveryPlanType
  <2>2. RecoveredRow(p) \in Nat BY ActiveType DEF RecoveredRow
  <2>3. "recover" \in Labels BY DEF Labels, RequestLabels, AdmissionLabels
  <2> QED BY <1>2, <2>1, <2>2, <2>3, IdleType, Zenon DEF Locals
<1>3. co' \in Locals /\ co'.pc \in {"free", "recover"}
  <2>1. CASE UNCHANGED co BY <2>1, RepoType DEF RecoverBase, Free
  <2> QED BY <1>1, <1>2, <2>1, InspectedType DEF RecoverBase
<1>4. gate' \subseteq Paths BY DEF RecoverBase, Regate, TypeInv, TypeOK
<1>5. broken' \in BOOLEAN /\ pending' \subseteq Paths BY DEF RecoverBase, TypeInv, TypeOK
<1>6. spent' \in [faults : Nat, stops : Nat, pushes : Nat, edits : Nat]
  BY SpentType DEF RecoverBase, TypeInv
<1>7. UNCHANGED <<durable, phase, queue, inFlight, connecting, degraded>> BY DEF RecoverBase
<1> QED BY <1>3, <1>4, <1>5, <1>6, <1>7, OpsUnchanged, WorldTypes DEF durable, TypeInv, TypeOK

\* Recovery goes on to its next write, or releases the coordinator.
LEMMA NextWriteType ==
  ASSUME TypeInv, co.pc = "recover", NEW rest \in Seq(Writes), NextWrite(rest)
  PROVE  co' \in Locals /\ co'.pc \in {"free", "recover"}
<1>1. CASE co' = Idle BY <1>1, IdleType DEF Idle
<1>2. CASE co' = [co EXCEPT !.plan = rest] BY <1>2, RepoType DEF Locals
<1> QED BY <1>1, <1>2 DEF NextWrite

\* ApplyWrite preserves the type invariant.
LEMMA ApplyWriteTypes == ASSUME TypeInv, ApplyWrite PROVE TypeInv'
<1> USE RepoType
<1> DEFINE p == co.path
           write == Head(co.plan)
           rest == Tail(co.plan)
<1>0. /\ co.plan \in Seq(Writes) /\ co.fallback \in Seq(Writes) /\ co.plan # <<>> /\ co.pc = "recover"
  BY DEF ApplyWrite, Locals
<1>1. write \in Writes /\ rest \in Seq(Writes) BY <1>0, HeadTailProperties
<1>2. /\ write[1] = "journal" => write[2] \in Rows
      /\ write[1] # "journal" => write[2] \in Statuses
  BY <1>1 DEF Writes
<1> HIDE DEF write, rest
<1>3. co' \in Locals /\ co'.pc \in {"free", "recover"}
  <2>1. <<>> \in Seq(Writes) BY EmptySeq
  <2>2. \/ NextWrite(rest) \/ NextWrite(IF write[1] = "journal" THEN co.fallback ELSE <<>>)
    BY DEF ApplyWrite, write, rest
  <2> QED BY <1>0, <1>1, <2>1, <2>2, NextWriteType
<1>4. journal' \in [Paths -> Seq(Rows)] /\ \A q \in Paths : Op(q) \subseteq Op(q)'
  <2>1. CASE write[1] = "journal" /\ WriteRow(p, co.op, write[2])
    BY <1>2, <2>1, WriteType DEF TypeInv, TypeOK
  <2>2. CASE UNCHANGED journal BY <2>2, OpsUnchanged DEF TypeInv, TypeOK
  <2> QED BY <2>1, <2>2 DEF ApplyWrite, write
<1>5. status' \in [Paths -> Statuses]
  <2>1. CASE write[1] # "journal" /\ status' = [status EXCEPT ![p] = write[2]]
    BY <1>2, <2>1 DEF TypeInv, TypeOK
  <2>2. CASE UNCHANGED status BY <2>2 DEF TypeInv, TypeOK
  <2> QED BY <2>1, <2>2 DEF ApplyWrite, write
<1>6. gate' \subseteq Paths /\ broken' \in BOOLEAN BY DEF ApplyWrite, TypeInv, TypeOK
<1>7. spent' \in [faults : Nat, stops : Nat, pushes : Nat, edits : Nat]
  BY SpentType DEF ApplyWrite, TypeInv
<1>8. UNCHANGED <<config, repo, server, published, phase, pending, queue, inFlight, connecting, degraded>>
  BY DEF ApplyWrite
<1> QED BY <1>3, <1>4, <1>5, <1>6, <1>7, <1>8, WorldTypes DEF TypeInv, TypeOK

\* Serve preserves the type invariant.
LEMMA ServeTypes == ASSUME TypeInv, Serve PROVE TypeInv'
<1>1. CASE Down BY <1>1, DownTypes DEF Serve, TypeInv, TypeOK
<1>2. CASE ~broken /\ phase' = "serving" /\ UNCHANGED <<pending, broken, memory, co>>
  BY <1>2, OpsUnchanged, WorldTypes DEF Serve, durable, memory, Phases, TypeInv, TypeOK
<1> QED BY <1>1, <1>2 DEF Serve

\* NoteWrite preserves the type invariant.
LEMMA NoteWriteTypes == ASSUME TypeInv, NEW p \in Paths, NoteWrite(p) PROVE TypeInv'
<1>1. repo' \in [Paths -> Repos]
  <2>1. repo[p] \in Repos BY DEF TypeInv, TypeOK
  <2>2. [repo[p] EXCEPT !.dirty = TRUE] \in Repos BY <2>1, Zenon DEF Repos
  <2> QED BY <2>2, UpdateType DEF NoteWrite, TypeInv, TypeOK
<1>2. UNCHANGED <<config, journal, status, server, published, process, memory, co>> BY DEF NoteWrite
<1>3. spent' \in [faults : Nat, stops : Nat, pushes : Nat, edits : Nat] BY SpentExcept DEF NoteWrite
<1> QED BY <1>1, <1>2, <1>3, OpsUnchanged, WorldTypes DEF process, memory, TypeInv, TypeOK

\* OtherDevicePush preserves the type invariant.
LEMMA OtherDevicePushTypes == ASSUME TypeInv, NEW p \in Paths, OtherDevicePush(p) PROVE TypeInv'
<1> DEFINE oid == repo[p].last + 1
<1>0. oid \in Oids BY DEF TypeInv, TypeOK, Repos, Oids
<1>1. repo' \in [Paths -> Repos]
  <2>1. repo[p] \in Repos BY DEF TypeInv, TypeOK
  <2>2. [repo[p] EXCEPT !.last = oid] \in Repos BY <1>0, <2>1, Zenon DEF Repos
  <2> QED BY <2>2, UpdateType DEF OtherDevicePush, TypeInv, TypeOK
<1>2. UNCHANGED <<config, journal, status, process, memory, co>> BY DEF OtherDevicePush
<1>3. spent' \in [faults : Nat, stops : Nat, pushes : Nat, edits : Nat]
  BY SpentExcept DEF OtherDevicePush
<1>4. server' \in [Paths -> Oids] /\ published' \in [Paths -> SUBSET Oids]
  BY <1>0 DEF OtherDevicePush, TypeInv, TypeOK
<1> QED BY <1>1, <1>2, <1>3, <1>4, OpsUnchanged, WorldTypes DEF process, memory, TypeInv, TypeOK

\* Close preserves the type invariant.
LEMMA CloseTypes == ASSUME TypeInv, Close PROVE TypeInv'
<1>1. spent' \in [faults : Nat, stops : Nat, pushes : Nat, edits : Nat]
  BY SpentExcept DEF Close, Stop
<1>2. UNCHANGED <<durable, pending, broken, memory, co>> /\ phase' \in Phases BY DEF Close, Phases
<1> QED BY <1>1, <1>2, OpsUnchanged, WorldTypes DEF durable, memory, TypeInv, TypeOK

\* Exit preserves the type invariant.
LEMMA ExitTypes == ASSUME TypeInv, Exit PROVE TypeInv'
BY DownTypes DEF Exit, TypeInv, TypeOK

\* Crash preserves the type invariant.
LEMMA CrashTypes == ASSUME TypeInv, Crash PROVE TypeInv'
BY DownTypes, SpentExcept DEF Crash, Stop

-----------------------------------------------------------------------------

\* The initial states are typed.
LEMMA InitTypes == ASSUME Init PROVE TypeInv
<1>1. PICK cfg \in Configs :
        /\ config  = [p \in Paths |-> IF p \in Connected THEN cfg ELSE NoConfig]
        /\ journal = [p \in Paths |-> IF p \in Connected THEN <<ConnectedRow(cfg)>> ELSE <<>>]
  BY DEF Init
<1>2. ConnectedRow(cfg) \in Rows
  BY DEF ConnectedRow, Rows, OperationKinds, OperationStates, Stages, Oids
<1>3. journal \in [Paths -> Seq(Rows)]
  <2>1. <<ConnectedRow(cfg)>> \in Seq(Rows) BY <1>2
  <2> QED BY <1>1, <2>1, EmptySeq
<1>4. status \in [Paths -> Statuses]
  <2>1. NoStatus \in Statuses /\ ConnectedStatus \in Statuses
    BY DEF NoStatus, ConnectedStatus, Statuses, GitStates, Oids
  <2> QED BY <2>1 DEF Init
<1>5. repo \in [Paths -> Repos]
  <2>1. ConnectedRepo \in Repos BY DEF ConnectedRepo, Repos, Oids
  <2>2. FreshRepo \in Repos
    <3>1. 0 \in Oids /\ {} \in SUBSET Oids BY DEF Oids
    <3> QED BY <2>1, <3>1, Zenon DEF FreshRepo, Repos
  <2> QED BY <2>1, <2>2 DEF Init
<1>6. config \in [Paths -> Configs \cup {NoConfig}] BY <1>1
<1>7. queue = <<>> /\ co = Idle /\ co \in Locals /\ co.pc = "free" BY IdleType DEF Init, Idle
<1>8. /\ server \in [Paths -> Oids] /\ published \in [Paths -> SUBSET Oids]
      /\ inFlight \in [Paths -> Nat] /\ queue \in Seq(Jobs)
      /\ spent \in [faults : Nat, stops : Nat, pushes : Nat, edits : Nat]
  BY <1>7, EmptySeq DEF Init, Oids
<1>9. /\ phase \in Phases /\ pending \subseteq Paths /\ broken \in BOOLEAN /\ gate \subseteq Paths
      /\ connecting \subseteq Paths \X Configs /\ degraded \in BOOLEAN
  BY DEF Init, Phases
<1>10. TypeOK BY <1>3, <1>4, <1>5, <1>6, <1>7, <1>8, <1>9 DEF TypeOK
<1>11. RowsExist BY <1>7 DEF RowsExist, RowLabels, JobLabels
<1> QED BY <1>10, <1>11 DEF TypeInv

\* Every request preserves the type invariant.
LEMMA RequestsTypes == ASSUME TypeInv, Requests PROVE TypeInv'
<1>1. PICK p \in Paths :
        \/ QueueSync(p) \/ Resume(p) \/ EnqueueResolve(p) \/ Disable(p)
        \/ \E kind \in ConflictKinds : QueueConflict(p, kind)
        \/ \E cfg \in Configs : Configure(p, cfg) \/ QueueInitialize(p, cfg)
  BY DEF Requests
<1>2. CASE QueueSync(p) BY <1>2, QueueSyncTypes
<1>3. CASE Resume(p) BY <1>3, ResumeTypes
<1>4. CASE EnqueueResolve(p) BY <1>4, EnqueueResolveTypes
<1>5. CASE Disable(p) BY <1>5, ChangeStatusTypes DEF Disable
<1>6. CASE \E kind \in ConflictKinds : QueueConflict(p, kind) BY <1>6, QueueConflictTypes
<1>7. CASE \E cfg \in Configs : Configure(p, cfg) BY <1>7, ChangeStatusTypes DEF Configure
<1>8. CASE \E cfg \in Configs : QueueInitialize(p, cfg) BY <1>8, QueueInitializeTypes
<1> QED BY <1>1, <1>2, <1>3, <1>4, <1>5, <1>6, <1>7, <1>8

\* Every step of an admission preserves the type invariant.
LEMMA AdmissionTypes == ASSUME TypeInv, AdmissionStep PROVE TypeInv'
<1>1. ASSUME AdmitSync \/ AdmitInitialize PROVE TypeInv'
  BY <1>1, AdmitTypes DEF AdmitSync, AdmitInitialize, OperationKinds, AdmissionLabels
<1> QED BY <1>1, RefreshQueuedTypes, AdmitResumeTypes, CreateResumedTypes, RollbackTypes,
           AdmitStatusTypes, UndoTypes, SaveConfigTypes, RestoreStatusTypes DEF AdmissionStep

\* Every step of a job preserves the type invariant.
LEMMA JobStepTypes == ASSUME TypeInv, JobStep PROVE TypeInv'
BY FinishStaleTypes, AbandonTypes, CheckpointTypes, PublishTypes, LeaveTypes, PreflightTypes,
   ProbeTypes, CreateRepositoryTypes, FetchTypes, TrustTypes, OpenSnapshotTypes, CommitTypes,
   MergeNeededTypes, RunMergeTypes, PushTypes, SettleTypes, VerifyCompletionTypes,
   CommitMergeTypes, SyncIndexTypes, SaveConflictPushingTypes, VerifyAbortTypes, AbortMergeTypes,
   AbortedTypes, AbortStatusTypes, AbortJournalTypes, SucceedJournalTypes, SucceedStatusTypes,
   FailedTypes, FailJournalTypes, FailStatusTypes DEF JobStep

\* Stuttering preserves the type invariant.
LEMMA StutterTypes == ASSUME TypeInv, UNCHANGED vars PROVE TypeInv'
BY RepoType, OpsUnchanged, WorldTypes DEF vars, durable, process, memory, TypeInv, TypeOK

\* The induction step of the type invariant, an action at a time.
LEMMA TypeStep == ASSUME TypeInv, [Next]_vars PROVE TypeInv'
<1>1. CASE Requests BY <1>1, RequestsTypes
<1>2. CASE AdmissionStep BY <1>2, AdmissionTypes
<1>3. CASE TakeJob BY <1>3, BeginTypes, ResolveConflictTypes DEF TakeJob
<1>4. CASE JobStep BY <1>4, JobStepTypes
<1>5. CASE RecoveryStep BY <1>5, ApplyWriteTypes, ServeTypes, RecoverBaseTypes DEF RecoveryStep
<1>6. CASE Exit BY <1>6, ExitTypes
<1>7. CASE Surroundings
  BY <1>7, CloseTypes, CrashTypes, BootTypes, NoteWriteTypes, OtherDevicePushTypes DEF Surroundings
<1>8. CASE UNCHANGED vars BY <1>8, StutterTypes
<1> QED BY <1>1, <1>2, <1>3, <1>4, <1>5, <1>6, <1>7, <1>8 DEF Next

\* The inductive invariant: every value has its type, and jobs and the holder of
\* the coordinator refer to rows the journal has, whatever crashes or fails.
THEOREM TypesInvariant == Spec => []TypeInv
<1>1. Init => TypeInv BY InitTypes
<1>2. TypeInv /\ [Next]_vars => TypeInv' BY TypeStep
<1> QED BY <1>1, <1>2, PTL DEF Spec

\* The variables have their types in every reachable state.
THEOREM TypeCorrect == Spec => []TypeOK
<1>1. TypeInv => TypeOK BY DEF TypeInv
<1> QED BY <1>1, TypesInvariant, PTL

-----------------------------------------------------------------------------
(* One operation at a time.                                                *)
(*                                                                         *)
(* That the active row is the last row of its base needs to know which row *)
(* the holder of the coordinator is working on; that a queued job's row is *)
(* active needs to know that the holder is not about to finish that row;   *)
(* both need a start and a stop that leave nothing behind in the queue.    *)
(* Serial is their conjunction with those facts.  Again one lemma per      *)
(* action; the steps that write no row go through the Step lemma of their  *)
(* kind, those that write one through the lemma on that write.             *)

\* No job of the queue has a row of p.
NoneWaits(p) == \A k \in DOMAIN queue : queue[k].op # 0 => queue[k].path # p

\* The row of a queued job is the last of its base.
JobsLast == \A k \in DOMAIN queue : queue[k].op # 0 => queue[k].op = Len(journal[queue[k].path])

\* Two queued jobs with rows are jobs of two bases.
OnePerPath ==
  \A j, k \in DOMAIN queue :
    j # k /\ queue[j].op # 0 /\ queue[k].op # 0 => queue[j].path # queue[k].path

\* The row the holder works on is the last of its base, and no other job has it:
\* an admission owns the row it has just made, the worker the job it has taken
\* off the queue, a recovery the row it inspects.
HolderLast ==
  /\ co.pc \in RowLabels => co.op = Len(journal[co.path]) /\ NoneWaits(co.path)
  /\ co.pc = "admit_status" => journal[co.path][co.op].state = "queued"
  /\ co.pc = "create_resumed" => ActiveRows(co.path) = {} /\ NoneWaits(co.path)
  /\ co.pc = "recover" => co.op \in {0, Len(journal[co.path])}

\* Outside its run a manager has no queue: Close drains it, a crash loses it, and
\* RecoverLocal comes before Start.
Phased ==
  /\ phase \in {"down", "recovering"} => queue = <<>> /\ co.pc \in {"free", "recover"}
  /\ co.pc = "recover" => phase = "recovering"

\* The inductive invariant.
Serial == OnlyLastRowActive /\ JobsLast /\ QueuedJobIsActive /\ OnePerPath /\ HolderLast /\ Phased

-----------------------------------------------------------------------------

\* What the type invariant says of the queue.
LEMMA QueueFacts ==
  ASSUME TypeInv
  PROVE  /\ queue \in Seq(Jobs) /\ Len(queue) \in Nat /\ DOMAIN queue = 1 .. Len(queue)
         /\ \A k \in DOMAIN queue : queue[k] \in Jobs /\ queue[k].path \in Paths /\ queue[k].op \in Nat
<1>1. queue \in Seq(Jobs) BY DEF TypeInv, TypeOK
<1>2. Len(queue) \in Nat /\ DOMAIN queue = 1 .. Len(queue) BY <1>1, LenProperties
<1>3. \A k \in DOMAIN queue : queue[k] \in Jobs BY <1>1, <1>2, ElementOfSeq
<1> QED BY <1>1, <1>2, <1>3 DEF Jobs

\* The rows of a base are numbered from one.
LEMMA OpFacts ==
  ASSUME TypeInv, NEW p \in Paths
  PROVE  Len(journal[p]) \in Nat /\ Op(p) = 1 .. Len(journal[p])
BY LenProperties DEF Op, TypeInv, TypeOK

\* ActiveByPath misses no active row.
LEMMA NoActiveRow ==
  ASSUME TypeInv, NEW p \in Paths, ActiveByPath(p) = 0
  PROVE  ActiveRows(p) = {}
<1>1. SUFFICES ASSUME ActiveRows(p) # {} PROVE FALSE OBVIOUS
<1>2. ActiveByPath(p) \in ActiveRows(p) BY <1>1 DEF ActiveByPath
<1> QED BY <1>2, OpFacts DEF ActiveRows

\* A base without an operation in flight has no job in the queue.
LEMMA FreeNoneWaits ==
  ASSUME TypeInv, QueuedJobIsActive, NEW p \in Paths, inFlight[p] = 0 PROVE NoneWaits(p)
BY QueueFacts DEF NoneWaits, QueuedJobIsActive

\* An UPDATE changes one row and no length.
LEMMA WriteFacts ==
  ASSUME TypeInv, NEW p \in Paths, NEW i, NEW row, WriteRow(p, i, row)
  PROVE  /\ \A q \in Paths : Len(journal'[q]) = Len(journal[q]) /\ DOMAIN journal'[q] = DOMAIN journal[q]
         /\ \A q \in Paths : \A j : q # p \/ j # i => journal'[q][j] = journal[q][j]
         /\ DOMAIN journal' = Paths
<1>1. PICK n \in Nat : journal[p] \in [1 .. n -> Rows] BY SeqDef DEF TypeInv, TypeOK
<1>2. journal'[p] = [journal[p] EXCEPT ![i] = row] /\ \A q \in Paths : q # p => journal'[q] = journal[q]
  BY DEF WriteRow, TypeInv, TypeOK
<1>3. DOMAIN journal'[p] = 1 .. n BY <1>1, <1>2
<1>4. Len(journal'[p]) = n /\ Len(journal[p]) = n BY <1>1, <1>3
<1>5. \A j : j # i => journal'[p][j] = journal[p][j] BY <1>1, <1>2
<1> QED BY <1>1, <1>2, <1>3, <1>4, <1>5 DEF WriteRow, TypeInv, TypeOK

\* CreateQueued adds its row after the others.
LEMMA CreateFacts ==
  ASSUME TypeInv, NEW p \in Paths, NEW row \in Rows, CreateQueued(p, row)
  PROVE  /\ \A q \in Paths : q # p => journal'[q] = journal[q]
         /\ Len(journal'[p]) = Len(journal[p]) + 1
         /\ DOMAIN journal'[p] = 1 .. Len(journal[p]) + 1
         /\ \A j \in 1 .. Len(journal[p]) : journal'[p][j] = journal[p][j]
         /\ journal'[p][Len(journal[p]) + 1] = row
<1>1. journal[p] \in Seq(Rows) BY DEF TypeInv, TypeOK
<1>2. journal'[p] = Append(journal[p], row) /\ \A q \in Paths : q # p => journal'[q] = journal[q]
  BY DEF CreateQueued, TypeInv, TypeOK
<1>3. /\ Append(journal[p], row) \in Seq(Rows) /\ Len(Append(journal[p], row)) = Len(journal[p]) + 1
      /\ \A j \in 1 .. Len(journal[p]) : Append(journal[p], row)[j] = journal[p][j]
      /\ Append(journal[p], row)[Len(journal[p]) + 1] = row
  BY <1>1, AppendProperties
<1>4. DOMAIN Append(journal[p], row) = 1 .. Len(journal[p]) + 1 BY <1>3, LenProperties
<1> QED BY <1>2, <1>3, <1>4

\* An UPDATE of the last row, or one that finishes its row, leaves no other row active.
LEMMA LastStaysLast ==
  ASSUME TypeInv, OnlyLastRowActive, NEW p \in Paths, NEW i, NEW row, WriteRow(p, i, row),
         i \in {0, Len(journal[p])} \/ row.state \notin ActiveStates
  PROVE  OnlyLastRowActive'
<1>1. ASSUME NEW q \in Paths, NEW j \in DOMAIN journal'[q], journal'[q][j].state \in ActiveStates
      PROVE  j = Len(journal'[q])
  <2>1. j \in Op(q) /\ Len(journal'[q]) = Len(journal[q]) BY <1>1, WriteFacts DEF Op
  <2>2. CASE q # p \/ j # i
    <3>1. journal'[q][j] = journal[q][j] BY <2>2, WriteFacts
    <3>2. j \in ActiveRows(q) BY <1>1, <2>1, <3>1 DEF ActiveRows
    <3> QED BY <2>1, <3>2 DEF OnlyLastRowActive
  <2>3. CASE q = p /\ j = i
    <3>1. j # 0 BY <2>1, OpFacts
    <3>2. journal'[p][i] = row
      <4>1. journal[p] \in Seq(Rows) BY DEF TypeInv, TypeOK
      <4> QED BY <2>1, <2>3, <4>1 DEF WriteRow, Op, TypeInv, TypeOK
    <3> QED BY <1>1, <2>1, <2>3, <3>1, <3>2
  <2> QED BY <2>2, <2>3
<1> QED BY <1>1 DEF OnlyLastRowActive, ActiveRows, Op

\* A holder that writes to its row, and to inFlight of its base, preserves the invariant.
LEMMA HolderSerial ==
  ASSUME TypeInv, Serial, co.pc \in RowLabels,
         co'.pc \in Continuations \cup {"rollback", "undo"},
         co'.pc \in RowLabels => co'.op = co.op /\ co'.path = co.path,
         journal' = journal \/ \E row : WriteRow(co.path, co.op, row),
         inFlight' = inFlight \/ \E n : inFlight' = [inFlight EXCEPT ![co.path] = n],
         UNCHANGED <<queue, phase>>
  PROVE  Serial'
<1> DEFINE p == co.path
<1>0. /\ p \in Paths /\ co.op = Len(journal[p]) /\ NoneWaits(p)
      /\ phase \notin {"down", "recovering"}
  BY RepoType DEF Serial, HolderLast, Phased, RowLabels, JobLabels
<1>1. \A q \in Paths : Len(journal'[q]) = Len(journal[q])
  BY <1>0, WriteFacts
<1>2. ASSUME NEW k \in DOMAIN queue, queue[k].op # 0
      PROVE  /\ queue[k].path \in Paths /\ queue[k].path # p
             /\ journal'[queue[k].path][queue[k].op] = journal[queue[k].path][queue[k].op]
             /\ inFlight'[queue[k].path] = inFlight[queue[k].path]
  <2>1. queue[k].path \in Paths /\ queue[k].path # p BY <1>0, <1>2, QueueFacts DEF NoneWaits
  <2>2. inFlight'[queue[k].path] = inFlight[queue[k].path] BY <2>1 DEF TypeInv, TypeOK
  <2> QED BY <1>0, <2>1, <2>2, WriteFacts
<1>3. OnlyLastRowActive'
  <2>1. CASE journal' = journal BY <2>1 DEF Serial, OnlyLastRowActive, ActiveRows, Op
  <2>2. CASE \E row : WriteRow(p, co.op, row) BY <1>0, <2>2, LastStaysLast DEF Serial
  <2> QED BY <2>1, <2>2
<1>4. JobsLast' BY <1>1, <1>2 DEF Serial, JobsLast
<1>5. QueuedJobIsActive' BY <1>2 DEF Serial, QueuedJobIsActive
<1>6. OnePerPath' BY DEF Serial, OnePerPath
<1>7. co'.pc \notin {"admit_status", "create_resumed", "recover"}
  BY DEF Continuations, AdmissionLabels, JobLabels
<1>8. (co.pc \in RowLabels => co.op = Len(journal[co.path]) /\ NoneWaits(co.path))'
  BY <1>0, <1>1 DEF NoneWaits
<1>9. HolderLast' BY <1>7, <1>8 DEF HolderLast
<1>10. Phased' BY <1>0, <1>7 DEF Phased
<1> QED BY <1>3, <1>4, <1>5, <1>6, <1>9, <1>10 DEF Serial

\* A step without a row preserves the invariant: it changes at most inFlight, of a
\* base whose job does not wait.
LEMMA RequestSerial ==
  ASSUME TypeInv, Serial, co'.pc \in RequestLabels \ {"create_resumed", "recover"},
         phase \in {"down", "recovering"} => co'.pc = "free",
         UNCHANGED <<journal, queue, phase>>,
         inFlight' = inFlight \/ \E p \in Paths : \E n : NoneWaits(p) /\ inFlight' = [inFlight EXCEPT ![p] = n]
  PROVE  Serial'
<1>1. OnlyLastRowActive' /\ JobsLast' /\ OnePerPath'
  BY DEF Serial, OnlyLastRowActive, ActiveRows, Op, JobsLast, OnePerPath
<1>2. QueuedJobIsActive'
  BY QueueFacts DEF Serial, QueuedJobIsActive, NoneWaits, TypeInv, TypeOK
<1>3. HolderLast'
  <2>1. co'.pc \notin RowLabels \cup {"admit_status", "create_resumed", "recover"}
    BY LabelsOf DEF RowLabels
  <2> QED BY <2>1 DEF HolderLast
<1>4. Phased' BY DEF Serial, Phased
<1> QED BY <1>1, <1>2, <1>3, <1>4 DEF Serial

\* A new row preserves the invariant on a base with no unfinished row and no waiting job.
LEMMA CreateSerial ==
  ASSUME TypeInv, Serial, NEW p \in Paths, NEW row \in Rows, Create(p, row), row.state = "queued",
         ActiveRows(p) = {}, NoneWaits(p), phase \notin {"down", "recovering"},
         UNCHANGED <<queue, inFlight, phase>>
  PROVE  Serial'
<1> DEFINE n == Len(journal[p]) + 1
<1>0. n \in Nat /\ n # 0 BY OpFacts
<1>1. co'.pc = "admit_status" /\ co'.op = n /\ co'.path = p
  <2>1. "admit_status" \in Labels BY DEF Labels, RowLabels
  <2> QED BY <1>0, <2>1, RepoType, Zenon DEF Create, Locals
<1>2. CreateQueued(p, row) BY DEF Create
<1>3. OnlyLastRowActive'
  <2>1. ASSUME NEW q \in Paths, NEW j \in DOMAIN journal'[q], journal'[q][j].state \in ActiveStates
        PROVE  j = Len(journal'[q])
    <3>1. CASE q # p
      <4>1. journal'[q] = journal[q] BY <1>2, <3>1, CreateFacts
      <4> QED BY <2>1, <4>1 DEF Serial, OnlyLastRowActive, ActiveRows, Op
    <3>2. CASE q = p
      <4>1. j \in 1 .. n /\ Len(journal'[p]) = n BY <1>2, <2>1, <3>2, CreateFacts
      <4>2. CASE j # n
        <5>1. j \in 1 .. Len(journal[p]) BY <4>1, <4>2, OpFacts
        <5>2. journal'[p][j] = journal[p][j] BY <1>2, <5>1, CreateFacts
        <5> QED BY <2>1, <3>2, <5>1, <5>2, OpFacts DEF ActiveRows
      <4> QED BY <3>2, <4>1, <4>2
    <3> QED BY <3>1, <3>2
  <2> QED BY <2>1 DEF OnlyLastRowActive, ActiveRows, Op
<1>4. \A k \in DOMAIN queue : queue[k].op # 0 =>
        queue[k].path # p /\ queue[k].path \in Paths /\ journal'[queue[k].path] = journal[queue[k].path]
  BY <1>2, QueueFacts, CreateFacts DEF NoneWaits
<1>5. JobsLast' BY <1>4 DEF Serial, JobsLast
<1>6. QueuedJobIsActive' BY <1>4 DEF Serial, QueuedJobIsActive
<1>7. OnePerPath' BY DEF Serial, OnePerPath
<1>8. journal'[p][n].state = "queued" /\ Len(journal'[p]) = n BY <1>2, CreateFacts
<1>9. HolderLast' BY <1>1, <1>8 DEF HolderLast, NoneWaits
<1>10. Phased' BY <1>1 DEF Phased
<1> QED BY <1>3, <1>5, <1>6, <1>7, <1>9, <1>10 DEF Serial

-----------------------------------------------------------------------------

\* A step of a job that leaves the journal, the queue and inFlight preserves the invariant.
LEMMA QuietSerial ==
  ASSUME TypeInv, Serial, Moves, co.pc \in RowLabels, UNCHANGED <<journal, inFlight, queue, phase>>
  PROVE  Serial'
BY HolderSerial DEF Moves

\* The steps after the row of a job has ended, or has failed to.
ReportLabels == {"succeed_status", "fail_status"}

\* The steps of a job that change neither the journal, the queue nor inFlight.
LEMMA QuietMoves ==
  ASSUME TypeInv,
         \/ Preflight \/ Probe \/ CreateRepository \/ Fetch \/ Trust \/ OpenSnapshot \/ Commit
         \/ MergeNeeded \/ RunMerge \/ Push \/ Settle \/ VerifyCompletion \/ CommitMerge
         \/ SyncIndex \/ SaveConflictPushing \/ VerifyAbort \/ AbortMerge \/ Publish \/ Leave
         \/ Aborted \/ AbortStatus \/ Failed
  PROVE  Moves /\ co.pc \in RowLabels \ ReportLabels /\ UNCHANGED <<journal, inFlight, queue, phase>>
<1> USE DEF CommandFrame, RepoFrame, WorkerFrame, MemoryFrame, process, RowLabels, JobLabels, ReportLabels
<1>1. CASE Preflight
  <2>1. Moves BY <1>1, PreflightTypes
  <2>2. co.pc \in RowLabels \ ReportLabels /\ UNCHANGED <<journal, inFlight, queue, phase>> BY <1>1 DEF Preflight
  <2> QED BY <2>1, <2>2
<1>2. CASE Probe
  <2>1. Moves BY <1>2, ProbeTypes
  <2>2. co.pc \in RowLabels \ ReportLabels /\ UNCHANGED <<journal, inFlight, queue, phase>> BY <1>2 DEF Probe
  <2> QED BY <2>1, <2>2
<1>3. CASE CreateRepository
  <2>1. Moves BY <1>3, CreateRepositoryTypes
  <2>2. co.pc \in RowLabels \ ReportLabels /\ UNCHANGED <<journal, inFlight, queue, phase>>
    BY <1>3 DEF CreateRepository
  <2> QED BY <2>1, <2>2
<1>4. CASE Fetch
  <2>1. Moves BY <1>4, FetchTypes
  <2>2. co.pc \in RowLabels \ ReportLabels /\ UNCHANGED <<journal, inFlight, queue, phase>> BY <1>4 DEF Fetch
  <2> QED BY <2>1, <2>2
<1>5. CASE Trust
  <2>1. Moves BY <1>5, TrustTypes
  <2>2. co.pc \in RowLabels \ ReportLabels /\ UNCHANGED <<journal, inFlight, queue, phase>>
    BY <1>5 DEF Trust, NotMoved
  <2> QED BY <2>1, <2>2
<1>6. CASE OpenSnapshot
  <2>1. Moves BY <1>6, OpenSnapshotTypes
  <2>2. co.pc \in RowLabels \ ReportLabels /\ UNCHANGED <<journal, inFlight, queue, phase>>
    BY <1>6 DEF OpenSnapshot
  <2> QED BY <2>1, <2>2
<1>7. CASE Commit
  <2>1. Moves BY <1>7, CommitTypes
  <2>2. co.pc \in RowLabels \ ReportLabels /\ UNCHANGED <<journal, inFlight, queue, phase>> BY <1>7 DEF Commit
  <2> QED BY <2>1, <2>2
<1>8. CASE MergeNeeded
  <2>1. Moves BY <1>8, MergeNeededTypes
  <2>2. co.pc \in RowLabels \ ReportLabels /\ UNCHANGED <<journal, inFlight, queue, phase>> BY <1>8 DEF MergeNeeded
  <2> QED BY <2>1, <2>2
<1>9. CASE RunMerge
  <2>1. Moves BY <1>9, RunMergeTypes
  <2>2. co.pc \in RowLabels \ ReportLabels /\ UNCHANGED <<journal, inFlight, queue, phase>> BY <1>9 DEF RunMerge
  <2> QED BY <2>1, <2>2
<1>10. CASE Push
  <2>1. Moves BY <1>10, PushTypes
  <2>2. co.pc \in RowLabels \ ReportLabels /\ UNCHANGED <<journal, inFlight, queue, phase>> BY <1>10 DEF Push
  <2> QED BY <2>1, <2>2
<1>11. CASE Settle
  <2>1. Moves BY <1>11, SettleTypes
  <2>2. co.pc \in RowLabels \ ReportLabels /\ UNCHANGED <<journal, inFlight, queue, phase>>
    BY <1>11 DEF Settle, NotMoved
  <2> QED BY <2>1, <2>2
<1>12. CASE VerifyCompletion
  <2>1. Moves BY <1>12, VerifyCompletionTypes
  <2>2. co.pc \in RowLabels \ ReportLabels /\ UNCHANGED <<journal, inFlight, queue, phase>>
    BY <1>12 DEF VerifyCompletion
  <2> QED BY <2>1, <2>2
<1>13. CASE CommitMerge
  <2>1. Moves BY <1>13, CommitMergeTypes
  <2>2. co.pc \in RowLabels \ ReportLabels /\ UNCHANGED <<journal, inFlight, queue, phase>>
    BY <1>13 DEF CommitMerge
  <2> QED BY <2>1, <2>2
<1>14. CASE SyncIndex
  <2>1. Moves BY <1>14, SyncIndexTypes
  <2>2. co.pc \in RowLabels \ ReportLabels /\ UNCHANGED <<journal, inFlight, queue, phase>> BY <1>14 DEF SyncIndex
  <2> QED BY <2>1, <2>2
<1>15. CASE SaveConflictPushing
  <2>1. Moves BY <1>15, SaveConflictPushingTypes
  <2>2. co.pc \in RowLabels \ ReportLabels /\ UNCHANGED <<journal, inFlight, queue, phase>>
    BY <1>15 DEF SaveConflictPushing
  <2> QED BY <2>1, <2>2
<1>16. CASE VerifyAbort
  <2>1. Moves BY <1>16, VerifyAbortTypes
  <2>2. co.pc \in RowLabels \ ReportLabels /\ UNCHANGED <<journal, inFlight, queue, phase>>
    BY <1>16 DEF VerifyAbort
  <2> QED BY <2>1, <2>2
<1>17. CASE AbortMerge
  <2>1. Moves BY <1>17, AbortMergeTypes
  <2>2. co.pc \in RowLabels \ ReportLabels /\ UNCHANGED <<journal, inFlight, queue, phase>> BY <1>17 DEF AbortMerge
  <2> QED BY <2>1, <2>2
<1>18. CASE Publish
  <2>1. Moves BY <1>18, PublishTypes
  <2>2. co.pc \in RowLabels \ ReportLabels /\ UNCHANGED <<journal, inFlight, queue, phase>> BY <1>18 DEF Publish
  <2> QED BY <2>1, <2>2
<1>19. CASE Leave
  <2>1. Moves BY <1>19, LeaveTypes
  <2>2. co.pc \in RowLabels \ ReportLabels /\ UNCHANGED <<journal, inFlight, queue, phase>> BY <1>19 DEF Leave
  <2> QED BY <2>1, <2>2
<1>20. CASE Aborted
  <2>1. Moves BY <1>20, AbortedTypes
  <2>2. co.pc \in RowLabels \ ReportLabels /\ UNCHANGED <<journal, inFlight, queue, phase>> BY <1>20 DEF Aborted
  <2> QED BY <2>1, <2>2
<1>21. CASE AbortStatus
  <2>1. Moves BY <1>21, AbortStatusTypes
  <2>2. co.pc \in RowLabels \ ReportLabels /\ UNCHANGED <<journal, inFlight, queue, phase>>
    BY <1>21 DEF AbortStatus
  <2> QED BY <2>1, <2>2
<1>22. CASE Failed
  <2>1. Moves BY <1>22, FailedTypes
  <2>2. co.pc \in RowLabels \ ReportLabels /\ UNCHANGED <<journal, inFlight, queue, phase>> BY <1>22 DEF Failed
  <2> QED BY <2>1, <2>2
<1> QED
  BY <1>1, <1>2, <1>3, <1>4, <1>5, <1>6, <1>7, <1>8, <1>9, <1>10, <1>11, <1>12,
     <1>13, <1>14, <1>15, <1>16, <1>17, <1>18, <1>19, <1>20, <1>21, <1>22

\* Every step of a job preserves the invariant.
LEMMA JobSerial == ASSUME TypeInv, Serial, JobStep PROVE Serial'
<1> USE DEF WorkerFrame, MemoryFrame, process, memory, durable, RowLabels, JobLabels
<1>1. CASE FinishStale
  <2>1. Moves BY <1>1, FinishStaleTypes
  <2> QED BY <1>1, <2>1, HolderSerial DEF FinishStale, Moves
<1>2. CASE Abandon
  <2>1. Moves BY <1>2, AbandonTypes
  <2> QED BY <1>2, <2>1, QuietSerial DEF Abandon
<1>3. CASE Checkpoint
  <2>1. Moves BY <1>3, CheckpointTypes
  <2> QED BY <1>3, <2>1, HolderSerial DEF Checkpoint, Moves
<1>4. CASE AbortJournal
  <2>1. Moves BY <1>4, AbortJournalTypes
  <2> QED BY <1>4, <2>1, HolderSerial DEF AbortJournal, Moves
<1>5. CASE SucceedJournal
  <2>1. Moves BY <1>5, SucceedJournalTypes
  <2> QED BY <1>5, <2>1, HolderSerial DEF SucceedJournal, FinishRow, completeTerminal, Moves
<1>6. CASE FailJournal
  <2>1. Moves BY <1>6, FailJournalTypes
  <2> QED BY <1>6, <2>1, HolderSerial DEF FailJournal, FinishRow, completeTerminal, Moves
<1>7. CASE SucceedStatus
  <2>1. Moves BY <1>7, SucceedStatusTypes
  <2> QED BY <1>7, <2>1, QuietSerial DEF SucceedStatus
<1>8. CASE FailStatus
  <2>1. Moves BY <1>8, FailStatusTypes
  <2> QED BY <1>8, <2>1, QuietSerial DEF FailStatus
<1> QED BY <1>1, <1>2, <1>3, <1>4, <1>5, <1>6, <1>7, <1>8, QuietMoves, QuietSerial DEF JobStep

\* Popping the head of the queue leaves jobs the invariant holds for.
LEMMA TakenSerial ==
  ASSUME TypeInv, Serial, Serving, queue # <<>>, queue' = RestOfQueue,
         UNCHANGED <<journal, inFlight, phase>>, HolderLast', Phased'
  PROVE  Serial'
<1>1. queue \in Seq(Jobs) BY QueueFacts
<1>2. \A k \in DOMAIN queue' : k + 1 \in DOMAIN queue /\ queue'[k] = queue[k + 1]
  <2>1. /\ Tail(queue) \in Seq(Jobs) /\ Len(Tail(queue)) = Len(queue) - 1
        /\ \A k \in 1 .. Len(Tail(queue)) : Tail(queue)[k] = queue[k + 1]
    BY <1>1, HeadTailProperties
  <2>2. DOMAIN Tail(queue) = 1 .. Len(queue) - 1 BY <2>1, LenProperties
  <2> QED BY <2>1, <2>2, QueueFacts DEF RestOfQueue
<1>3. OnlyLastRowActive' BY DEF Serial, OnlyLastRowActive, ActiveRows, Op
<1>4. JobsLast' /\ QueuedJobIsActive' BY <1>2 DEF Serial, JobsLast, QueuedJobIsActive
<1>5. OnePerPath'
  <2>1. SUFFICES ASSUME NEW j \in DOMAIN queue', NEW k \in DOMAIN queue', j # k, queue'[j].op # 0, queue'[k].op # 0
                 PROVE  queue'[j].path # queue'[k].path
    BY DEF OnePerPath
  <2>2. j + 1 # k + 1
    <3>1. j + 1 \in 1 .. Len(queue) /\ k + 1 \in 1 .. Len(queue) BY <1>2, QueueFacts
    <3>2. DOMAIN queue' = 1 .. Len(queue) - 1
      <4>1. Tail(queue) \in Seq(Jobs) /\ Len(Tail(queue)) = Len(queue) - 1
        BY <1>1, HeadTailProperties
      <4> QED BY <4>1, LenProperties DEF RestOfQueue
    <3> QED BY <2>1, <3>2, QueueFacts
  <2> QED BY <1>2, <2>1, <2>2 DEF Serial, OnePerPath
<1> QED BY <1>3, <1>4, <1>5 DEF Serial

\* A job that is taken is the last of its base, and no other job of that base waits.
LEMMA BeginSerial == ASSUME TypeInv, Serial, Begin PROVE Serial'
<1> DEFINE job == Head(queue)
<1>1. /\ queue # <<>> /\ queue' = RestOfQueue /\ job.op # 0 /\ phase = "serving"
      /\ UNCHANGED <<journal, inFlight, phase>>
  BY DEF Begin, Serving, durable, process
<1>2. co'.pc \in {"stale", "journal"} /\ co'.path = job.path /\ co'.op = job.op
  BY IdleType, Zenon DEF Begin, Locals
<1>3. 1 \in DOMAIN queue /\ job = queue[1]
  <2>1. Len(queue) # 0 BY <1>1, QueueFacts, EmptySeq
  <2> QED BY <2>1, QueueFacts
<1>4. job.op = Len(journal[job.path]) BY <1>1, <1>3 DEF Serial, JobsLast
<1>5. \A k \in DOMAIN queue' : k + 1 # 1 /\ k + 1 \in DOMAIN queue /\ queue'[k] = queue[k + 1]
  <2>1. /\ Tail(queue) \in Seq(Jobs) /\ Len(Tail(queue)) = Len(queue) - 1
        /\ \A k \in 1 .. Len(Tail(queue)) : Tail(queue)[k] = queue[k + 1]
    BY <1>1, QueueFacts, HeadTailProperties
  <2>2. DOMAIN Tail(queue) = 1 .. Len(queue) - 1 BY <2>1, LenProperties
  <2> QED BY <1>1, <2>1, <2>2, QueueFacts DEF RestOfQueue
<1>6. \A k \in DOMAIN queue' : queue'[k].op # 0 => queue'[k].path # job.path
  BY <1>1, <1>3, <1>5 DEF Serial, OnePerPath
<1>7. HolderLast' BY <1>1, <1>2, <1>4, <1>6 DEF HolderLast, NoneWaits
<1>8. Phased' BY <1>1, <1>2 DEF Phased
<1> QED BY <1>1, <1>7, <1>8, TakenSerial DEF Serving

\* A conflict resolution, a job without a row, preserves the invariant.
LEMMA ResolveConflictSerial == ASSUME TypeInv, Serial, ResolveConflict PROVE Serial'
<1>1. /\ queue # <<>> /\ queue' = RestOfQueue /\ phase = "serving" /\ co.pc = "free"
      /\ UNCHANGED <<journal, inFlight, phase, co>>
  BY DEF ResolveConflict, Serving, Free, WorkerFrame, process
<1>2. HolderLast' /\ Phased' BY <1>1 DEF HolderLast, Phased, RowLabels, JobLabels
<1> QED BY <1>1, <1>2, TakenSerial DEF Serving

-----------------------------------------------------------------------------

\* A holder outside RecoverLocal works in a process that serves or closes.
LEMMA ServingPc ==
  ASSUME Serial, co.pc \notin {"free", "recover"}
  PROVE  phase \notin {"down", "recovering"}
BY DEF Serial, Phased

\* A release goes to no step.
LEMMA ReleasePc ==
  ASSUME Release
  PROVE  co'.pc = "free" /\ co'.pc \in RequestLabels \ {"create_resumed", "recover"}
BY DEF Release, Idle, RequestLabels, AdmissionLabels

\* A request goes to its admission, or first to the stale job of its base.
LEMMA RequestPc ==
  ASSUME TypeInv, NEW p \in Paths, NEW label \in AdmissionLabels, NEW cfg \in Configs \cup {NoConfig}, Request(p, label, cfg)
  PROVE  co'.pc \in RequestLabels \ {"create_resumed", "recover"} /\ phase \notin {"down", "recovering"}
<1>1. co'.pc \in {label, "refresh"}
  <2>1. ASSUME NEW pc \in {label, "refresh"},
          co' = [Idle EXCEPT !.pc = pc, !.path = p, !.next = label, !.cfg = cfg]
        PROVE co'.pc \in {label, "refresh"}
    BY <2>1, IdleType, Zenon DEF Locals
  <2> QED BY <2>1 DEF Request
<1> QED BY <1>1 DEF Request, Serving, RequestLabels, AdmissionLabels

\* Only a base without an operation in flight adopts one.
LEMMA AdoptSerial ==
  ASSUME TypeInv, Serial, NEW p \in Paths, NEW kinds, inFlight[p] = 0, Adopt(p, kinds)
  PROVE  inFlight' = inFlight \/ \E q \in Paths : \E n : NoneWaits(q) /\ inFlight' = [inFlight EXCEPT ![q] = n]
BY FreeNoneWaits DEF Adopt, Serial

\* A queued row is queued.
LEMMA QueuedState == \A kind, cfg, ck : QueuedRow(kind, cfg, ck).state = "queued"
BY DEF QueuedRow

\* Every request preserves the invariant.
LEMMA RequestsSerial == ASSUME TypeInv, Serial, Requests PROVE Serial'
<1>1. PICK p \in Paths :
        \/ QueueSync(p) \/ Resume(p) \/ EnqueueResolve(p) \/ Disable(p)
        \/ \E kind \in ConflictKinds : QueueConflict(p, kind)
        \/ \E cfg \in Configs : Configure(p, cfg) \/ QueueInitialize(p, cfg)
  BY DEF Requests
<1>0. config[p] \in Configs \cup {NoConfig} BY DEF TypeInv, TypeOK
<1>2. CASE QueueSync(p) \/ Resume(p)
  <2>1. \E label \in AdmissionLabels : Request(p, label, config[p])
    BY <1>2 DEF QueueSync, Resume, AdmissionLabels
  <2>2. UNCHANGED <<journal, queue, phase, inFlight>>
    BY <1>2 DEF QueueSync, Resume, durable, process, memory
  <2> QED BY <1>0, <2>1, <2>2, RequestPc, RequestSerial
<1>3. ASSUME NEW cfg \in Configs, QueueInitialize(p, cfg) PROVE Serial'
  <2>1. UNCHANGED <<journal, queue, phase, inFlight>> /\ Serving
    BY <1>3 DEF QueueInitialize, durable, process
  <2>2. CASE Request(p, "admit_initialize", cfg)
    BY <2>1, <2>2, RequestPc, RequestSerial DEF AdmissionLabels
  <2>3. CASE UNCHANGED co
    BY <1>3, <2>1, <2>3, RequestSerial DEF QueueInitialize, Free, Serving, RequestLabels
  <2> QED BY <1>3, <2>2, <2>3 DEF QueueInitialize
<1>4. ASSUME NEW cfg \in Configs \cup {NoConfig}, ChangeStatus(p, cfg) PROVE Serial'
  <2>1. co'.pc \in {"save_config", "restore_status"}
    BY <1>4, IdleType, Zenon DEF ChangeStatus, Changing, Locals
  <2>2. UNCHANGED <<journal, queue, phase, inFlight>> /\ Serving
    BY <1>4 DEF ChangeStatus, process, memory
  <2> QED BY <2>1, <2>2, RequestSerial DEF Serving, RequestLabels
<1>5. ASSUME NEW kind \in ConflictKinds, QueueConflict(p, kind) PROVE Serial'
  <2> DEFINE o == currentConflictOperation(p)
             row == QueuedRow(kind, journal[p][o].cfg, CheckpointOf(journal[p][o]))
  <2>1. inFlight[p] = 0 /\ co.pc = "free" /\ phase = "serving" /\ UNCHANGED <<queue, phase>>
    BY <1>5 DEF QueueConflict, Free, Serving, process
  <2>2. CASE Adopt(p, {kind}) /\ UNCHANGED <<journal, co>>
    BY <2>1, <2>2, AdoptSerial, RequestSerial DEF RequestLabels
  <2>3. CASE ActiveByPath(p) = 0 /\ Create(p, row) /\ UNCHANGED inFlight
    <3>1. row \in Rows
      <4>1. o \in Op(p) BY <1>5 DEF QueueConflict, currentConflictOperation
      <4>2. journal[p][o] \in Rows BY <4>1, RowAt
      <4>3. CheckpointOf(journal[p][o]) \in Checkpoints /\ journal[p][o].cfg \in Configs \cup {NoConfig}
        BY <4>2 DEF CheckpointOf, Checkpoints, Rows
      <4> QED BY <4>3, QueuedRowType DEF ConflictKinds, OperationKinds
    <3>2. row.state = "queued" BY QueuedState
    <3>3. ActiveRows(p) = {} /\ NoneWaits(p) BY <2>1, <2>3, NoActiveRow, FreeNoneWaits DEF Serial
    <3> HIDE DEF row
    <3> QED BY <2>1, <2>3, <3>1, <3>2, <3>3, CreateSerial
  <2> HIDE DEF row
  <2> QED BY <1>5, <2>2, <2>3 DEF QueueConflict, row
<1>6. CASE EnqueueResolve(p)
  <2> DEFINE job == [path |-> p, op |-> 0, cfg |-> NoConfig]
  <2>1. /\ UNCHANGED <<journal, inFlight, co, phase>> /\ phase = "serving"
        /\ queue' = Append(queue, job) /\ job \in Jobs
    BY <1>6 DEF EnqueueResolve, durable, process, Serving, Jobs
  <2>2. /\ \A k \in DOMAIN queue' : queue'[k].op # 0 => k \in DOMAIN queue /\ queue'[k] = queue[k]
    <3>1. /\ Append(queue, job) \in Seq(Jobs) /\ Len(Append(queue, job)) = Len(queue) + 1
          /\ \A k \in 1 .. Len(queue) : Append(queue, job)[k] = queue[k]
          /\ Append(queue, job)[Len(queue) + 1] = job
      BY <2>1, QueueFacts, AppendProperties
    <3>2. DOMAIN queue' = 1 .. Len(queue) + 1 BY <2>1, <3>1, LenProperties
    <3>3. job.op = 0 OBVIOUS
    <3> HIDE DEF job
    <3> QED BY <2>1, <3>1, <3>2, <3>3, QueueFacts
  <2>3. OnlyLastRowActive' BY <2>1 DEF Serial, OnlyLastRowActive, ActiveRows, Op
  <2>4. JobsLast' /\ QueuedJobIsActive' BY <2>1, <2>2 DEF Serial, JobsLast, QueuedJobIsActive
  <2>5. OnePerPath' BY <2>2 DEF Serial, OnePerPath
  <2>6. HolderLast' BY <2>1, <2>2 DEF Serial, HolderLast, NoneWaits, ActiveRows, Op
  <2>7. Phased' BY <2>1 DEF Serial, Phased
  <2> QED BY <2>3, <2>4, <2>5, <2>6, <2>7 DEF Serial
<1> QED BY <1>1, <1>2, <1>3, <1>4, <1>5, <1>6 DEF Configure, Disable

\* The stale job refreshQueued removes was the only one of its base.
LEMMA RefreshSerial == ASSUME TypeInv, Serial, RefreshQueued PROVE Serial'
<1> USE RepoType
<1> DEFINE p == co.path
<1>0. phase \notin {"down", "recovering"} /\ UNCHANGED phase
  BY ServingPc DEF RefreshQueued, process
<1>1. CASE UNCHANGED <<journal, queue, inFlight>> /\ Release
  BY <1>0, <1>1, ReleasePc, RequestSerial
<1>2. ASSUME NEW k \in StaleJobs(p), Goto(co.next), queue' = Without(k),
             WriteRow(p, queue[k].op, Finished(journal[p][queue[k].op], "failed", "queued", NoResult)),
             inFlight' = [inFlight EXCEPT ![p] = 0]
      PROVE  Serial'
  <2> DEFINE old(n) == IF n < k THEN n ELSE n + 1
  <2>1. /\ k \in DOMAIN queue /\ queue[k].path = p /\ queue[k].op # 0 /\ queue[k].op = Len(journal[p])
    BY <1>2 DEF StaleJobs, Serial, JobsLast
  <2>2. DOMAIN queue' = 1 .. Len(queue) - 1 /\ \A n \in DOMAIN queue' : queue'[n] = queue[old(n)]
    BY <1>2 DEF Without
  <2>3. \A n \in DOMAIN queue' : old(n) \in DOMAIN queue /\ old(n) # k BY <2>1, <2>2, QueueFacts
  <2>4. \A m, n \in DOMAIN queue' : m # n => old(m) # old(n) BY <2>1, <2>2, QueueFacts
  <2> HIDE DEF old
  <2>5. ASSUME NEW n \in DOMAIN queue', queue'[n].op # 0
        PROVE  /\ queue'[n].path # p /\ queue'[n].path \in Paths
               /\ inFlight'[queue'[n].path] = inFlight[queue'[n].path]
               /\ journal'[queue'[n].path][queue'[n].op] = journal[queue'[n].path][queue'[n].op]
               /\ Len(journal'[queue'[n].path]) = Len(journal[queue'[n].path])
    <3>1. queue'[n].path # p /\ queue'[n].path \in Paths
      BY <2>1, <2>2, <2>3, <2>5, QueueFacts DEF Serial, OnePerPath
    <3>2. inFlight'[queue'[n].path] = inFlight[queue'[n].path] BY <1>2, <3>1 DEF TypeInv, TypeOK
    <3> QED BY <1>2, <3>1, <3>2, WriteFacts
  <2>6. OnlyLastRowActive' BY <1>2, <2>1, LastStaysLast DEF Serial
  <2>7. JobsLast' BY <2>2, <2>3, <2>5 DEF Serial, JobsLast
  <2>8. QueuedJobIsActive' BY <2>2, <2>3, <2>5 DEF Serial, QueuedJobIsActive
  <2>9. OnePerPath' BY <2>2, <2>3, <2>4 DEF Serial, OnePerPath
  <2>10. co'.pc \in AdmissionLabels
    <3>1. co.next \in AdmissionLabels BY DEF RefreshQueued, TypeInv, RowsExist
    <3> QED BY <1>2, <3>1, LabelsOf, GotoType
  <2>11. co'.pc \notin RowLabels \cup {"create_resumed", "recover"}
    BY <2>10, LabelsOf DEF AdmissionLabels, RequestLabels
  <2>12. HolderLast' BY <2>11 DEF HolderLast, RowLabels
  <2>13. Phased' BY <1>0, <2>11 DEF Phased
  <2> QED BY <2>6, <2>7, <2>8, <2>9, <2>12, <2>13 DEF Serial
<1> QED BY <1>1, <1>2 DEF RefreshQueued

\* An admission creates a row only where none is active and no job waits.
LEMMA AdmitSerial ==
  ASSUME TypeInv, Serial, NEW kind \in OperationKinds, NEW label \in AdmissionLabels, Admit(kind, label) PROVE Serial'
<1> DEFINE p == co.path
           row == QueuedRow(kind, co.cfg, EmptyCheckpoint(TrustedOrEmpty(p)))
<1>0. /\ phase \notin {"down", "recovering"} /\ UNCHANGED <<queue, phase>>
      /\ p \in Paths /\ row \in Rows /\ row.state = "queued"
  <2>1. phase \notin {"down", "recovering"} BY ServingPc DEF Admit, AdmissionLabels
  <2>2. p \in Paths /\ row \in Rows
    BY RepoType, TrustType, QueuedRowType, EmptyCheckpointType DEF Locals
  <2> QED BY <2>1, <2>2, QueuedState DEF Admit, process
<1>1. CASE Release /\ UNCHANGED journal /\ UNCHANGED inFlight
  BY <1>0, <1>1, ReleasePc, RequestSerial
<1>2. CASE inFlight[p] = 0 /\ Adopt(p, OperationKinds) /\ Release /\ UNCHANGED journal
  BY <1>0, <1>2, AdoptSerial, ReleasePc, RequestSerial
<1>3. CASE inFlight[p] = 0 /\ ActiveByPath(p) = 0 /\ Create(p, row) /\ UNCHANGED inFlight
  <2>1. ActiveRows(p) = {} /\ NoneWaits(p) BY <1>0, <1>3, NoActiveRow, FreeNoneWaits DEF Serial
  <2> HIDE DEF row
  <2> QED BY <1>0, <1>3, <2>1, CreateSerial
<1> HIDE DEF row
<1> QED BY <1>1, <1>2, <1>3 DEF Admit, row

\* A resume finds no active row before it clears the breaker, and holds that to its row.
LEMMA AdmitResumeSerial == ASSUME TypeInv, Serial, AdmitResume PROVE Serial'
<1> USE RepoType
<1> DEFINE p == co.path
<1>0. phase \notin {"down", "recovering"} /\ UNCHANGED <<journal, queue, phase>>
  BY ServingPc DEF AdmitResume, process
<1>1. CASE Release /\ UNCHANGED inFlight BY <1>0, <1>1, ReleasePc, RequestSerial
<1>2. CASE inFlight[p] = 0 /\ Adopt(p, {"sync"}) /\ Release
  BY <1>0, <1>2, AdoptSerial, ReleasePc, RequestSerial
<1>3. CASE /\ inFlight[p] = 0 /\ ActiveByPath(p) = 0 /\ UNCHANGED inFlight
           /\ co' = [co EXCEPT !.pc = "create_resumed", !.resumed = TRUE, !.prev = status[p]]
  <2>1. co'.pc = "create_resumed" /\ co'.path = p BY <1>3, Zenon DEF Locals
  <2>2. ActiveRows(p) = {} /\ NoneWaits(p) BY <1>3, NoActiveRow, FreeNoneWaits DEF Serial
  <2>3. HolderLast'
    BY <1>0, <2>1, <2>2 DEF HolderLast, NoneWaits, ActiveRows, Op, RowLabels, JobLabels
  <2>4. Phased' BY <1>0, <2>1 DEF Phased
  <2>5. OnlyLastRowActive' /\ JobsLast' /\ QueuedJobIsActive' /\ OnePerPath'
   
      BY <1>0, <1>3 DEF Serial, OnlyLastRowActive, ActiveRows, Op, JobsLast, QueuedJobIsActive,
         OnePerPath
  <2> QED BY <2>3, <2>4, <2>5 DEF Serial
<1> QED BY <1>1, <1>2, <1>3 DEF AdmitResume

\* The sync a resume creates is the only operation of its base.
LEMMA CreateResumedSerial == ASSUME TypeInv, Serial, CreateResumed PROVE Serial'
<1> DEFINE p == co.path
           row == QueuedRow("sync", co.cfg, EmptyCheckpoint(TrustedOrEmpty(p)))
<1>0. /\ phase \notin {"down", "recovering"} /\ UNCHANGED <<queue, inFlight, phase>>
      /\ ActiveRows(p) = {} /\ NoneWaits(p)
      /\ p \in Paths /\ row \in Rows /\ row.state = "queued"
  <2>1. phase \notin {"down", "recovering"} BY ServingPc DEF CreateResumed
  <2>2. p \in Paths /\ row \in Rows
    BY RepoType, TrustType, QueuedRowType, EmptyCheckpointType DEF Locals, OperationKinds
  <2>3. ActiveRows(p) = {} /\ NoneWaits(p) BY DEF CreateResumed, Serial, HolderLast
  <2> QED BY <2>1, <2>2, <2>3, QueuedState DEF CreateResumed, process, memory
<1>1. CASE Create(p, row)
  <2> HIDE DEF row
  <2> QED BY <1>0, <1>1, CreateSerial
<1>2. CASE Goto("rollback") /\ UNCHANGED journal
  <2>1. co'.pc = "rollback"
    <3>1. "rollback" \in Labels BY DEF Labels, RequestLabels
    <3> QED BY <1>2, <3>1, RepoType, GotoType
  <2> QED BY <1>0, <1>2, <2>1, RequestSerial DEF RequestLabels
<1> HIDE DEF row
<1> QED BY <1>1, <1>2 DEF CreateResumed, row

\* The job is queued after its status is written, in flight and with its row queued.
LEMMA AdmitStatusSerial == ASSUME TypeInv, Serial, AdmitStatus PROVE Serial'
<1> USE RepoType
<1> DEFINE p == co.path
           job == [path |-> p, op |-> co.op, cfg |-> config[p]]
<1>0. /\ co.pc \in RowLabels /\ phase \notin {"down", "recovering"} /\ UNCHANGED <<journal, phase>>
      /\ co.op = Len(journal[p]) /\ NoneWaits(p) /\ journal[p][co.op].state = "queued" /\ job \in Jobs
  <2>1. co.pc \in RowLabels BY DEF AdmitStatus, RowLabels
  <2>2. job \in Jobs BY DEF Jobs, TypeInv, TypeOK, Locals
  <2> QED BY <2>1, <2>2, ServingPc DEF AdmitStatus, process, Serial, HolderLast
<1>1. CASE inFlight' = [inFlight EXCEPT ![p] = co.op] /\ Release /\ queue' = QueueAfter(TRUE)
  <2>1. queue' = Append(queue, job) BY <1>1 DEF QueueAfter
  <2>2. /\ Append(queue, job) \in Seq(Jobs) /\ Len(Append(queue, job)) = Len(queue) + 1
        /\ \A k \in 1 .. Len(queue) : Append(queue, job)[k] = queue[k]
        /\ Append(queue, job)[Len(queue) + 1] = job
    BY <1>0, QueueFacts, AppendProperties
  <2>3. DOMAIN queue' = 1 .. Len(queue) + 1 BY <2>1, <2>2, LenProperties
  <2>4. job.path = p /\ job.op = co.op OBVIOUS
  <2> HIDE DEF job
  <2>5. \A k \in DOMAIN queue' : \/ k \in DOMAIN queue /\ queue'[k] = queue[k]
                                 \/ k = Len(queue) + 1 /\ queue'[k] = job
    BY <2>1, <2>2, <2>3, QueueFacts
  <2>6. ASSUME NEW k \in DOMAIN queue, queue[k].op # 0
        PROVE  queue[k].path \in Paths /\ queue[k].path # p /\ inFlight'[queue[k].path] = inFlight[queue[k].path]
    BY <1>0, <1>1, <2>6, QueueFacts DEF NoneWaits, TypeInv, TypeOK
  <2>7. inFlight'[p] = co.op BY <1>1 DEF TypeInv, TypeOK
  <2>8. OnlyLastRowActive' BY <1>0 DEF Serial, OnlyLastRowActive, ActiveRows, Op
  <2>9. JobsLast' BY <1>0, <2>4, <2>5 DEF Serial, JobsLast
  <2>10. QueuedJobIsActive' BY <1>0, <2>4, <2>5, <2>6, <2>7 DEF Serial, QueuedJobIsActive
  <2>11. OnePerPath' BY <2>4, <2>5, <2>6 DEF Serial, OnePerPath
  <2>12. co'.pc = "free" BY <1>1, ReleasePc
  <2>13. HolderLast' BY <2>12 DEF HolderLast, RowLabels, JobLabels
  <2>14. Phased' BY <1>0, <2>12 DEF Phased
  <2> QED BY <2>8, <2>9, <2>10, <2>11, <2>13, <2>14 DEF Serial
<1>2. CASE Goto("undo") /\ queue' = QueueAfter(FALSE) /\ UNCHANGED inFlight
  <2>1. "undo" \in Labels BY DEF Labels, RowLabels
  <2>2. co'.pc = "undo" /\ co'.op = co.op /\ co'.path = p BY <1>2, <2>1, GotoType
  <2> QED BY <1>0, <1>2, <2>2, HolderSerial DEF QueueAfter
<1> QED BY <1>1, <1>2 DEF AdmitStatus

\* Compensation finishes the row the admission created.
LEMMA UndoSerial == ASSUME TypeInv, Serial, Undo PROVE Serial'
<1> USE RepoType
<1>1. co'.pc \in {"free", "rollback"}
  <2>1. "rollback" \in Labels BY DEF Labels, RequestLabels
  <2> QED BY <2>1, GotoType, ReleasePc DEF Undo
<1>2. /\ co.pc \in RowLabels /\ co'.pc \in Continuations \cup {"rollback", "undo"} /\ co'.pc \notin RowLabels
  BY <1>1 DEF Undo, RowLabels, JobLabels, Continuations
<1>3. UNCHANGED <<queue, phase>> BY DEF Undo, process
<1> QED BY <1>2, <1>3, HolderSerial DEF Undo

\* Every step of an admission preserves the invariant.
LEMMA AdmissionSerial == ASSUME TypeInv, Serial, AdmissionStep PROVE Serial'
<1>1. CASE RefreshQueued BY <1>1, RefreshSerial
<1>2. CASE AdmitSync BY <1>2, AdmitSerial DEF AdmitSync, OperationKinds, AdmissionLabels
<1>3. CASE AdmitInitialize BY <1>3, AdmitSerial DEF AdmitInitialize, OperationKinds, AdmissionLabels
<1>4. CASE AdmitResume BY <1>4, AdmitResumeSerial
<1>5. CASE CreateResumed BY <1>5, CreateResumedSerial
<1>6. CASE Rollback BY <1>6, ServingPc, ReleasePc, RequestSerial DEF Rollback, process, memory
<1>7. CASE AdmitStatus BY <1>7, AdmitStatusSerial
<1>8. CASE Undo BY <1>8, UndoSerial
<1>9. CASE SaveConfig
  <2>1. co'.pc \in {"free", "restore_status"}
    <3>1. "restore_status" \in Labels BY DEF Labels, RequestLabels
    <3> QED BY <1>9, <3>1, RepoType, GotoType, ReleasePc DEF SaveConfig
  <2>2. phase \notin {"down", "recovering"} BY <1>9, ServingPc DEF SaveConfig
  <2>3. UNCHANGED <<journal, queue, phase, inFlight>> BY <1>9 DEF SaveConfig, process
  <2> QED BY <2>1, <2>2, <2>3, RequestSerial DEF RequestLabels
<1>10. CASE RestoreStatus BY <1>10, ServingPc, ReleasePc, RequestSerial DEF RestoreStatus, process
<1> QED BY <1>1, <1>2, <1>3, <1>4, <1>5, <1>6, <1>7, <1>8, <1>9, <1>10 DEF AdmissionStep

-----------------------------------------------------------------------------

\* A process that goes down leaves no queue and no holder.
LEMMA DownSerial == ASSUME TypeInv, Serial, Down, UNCHANGED journal PROVE Serial'
<1>1. /\ queue' = <<>> /\ DOMAIN queue' = {} /\ co'.pc = "free" /\ phase' = "down" BY DEF Down, Idle
<1>2. OnlyLastRowActive' BY DEF Serial, OnlyLastRowActive, ActiveRows, Op
<1>3. JobsLast' /\ QueuedJobIsActive' /\ OnePerPath'
  BY <1>1 DEF JobsLast, QueuedJobIsActive, OnePerPath
<1>4. HolderLast' /\ Phased' BY <1>1 DEF HolderLast, Phased, RowLabels, JobLabels
<1> QED BY <1>2, <1>3, <1>4 DEF Serial

\* A step of the process that leaves the journal and the queue preserves the invariant.
LEMMA ProcessSerial ==
  ASSUME TypeInv, Serial, Phased', UNCHANGED <<journal, queue, inFlight, co>>
  PROVE  Serial'
BY DEF Serial, OnlyLastRowActive, JobsLast, QueuedJobIsActive, OnePerPath, HolderLast, NoneWaits, ActiveRows, Op

\* The row recovery writes to is the active one, hence the last.
LEMMA RecoverBaseSerial == ASSUME TypeInv, Serial, NEW p \in Paths, RecoverBase(p) PROVE Serial'
<1>0. phase = "recovering" /\ co.pc = "free" /\ UNCHANGED <<journal, queue, inFlight, phase>>
  BY DEF RecoverBase, Free, durable
<1>1. CASE UNCHANGED co
  BY <1>0, <1>1, ProcessSerial DEF Serial, Phased
<1>2. ASSUME NEW writes, NEW fallback,
             co' = [Idle EXCEPT !.pc = "recover", !.path = p, !.op = RecoveredRow(p),
                                !.plan = writes, !.fallback = fallback]
      PROVE  Serial'
  <2>1. co'.pc = "recover" /\ co'.path = p /\ co'.op = RecoveredRow(p)
    BY <1>2, IdleType, Zenon DEF Locals
  <2>2. RecoveredRow(p) \in {0, Len(journal[p])}
    <3>1. CASE ActiveByPath(p) = 0 BY <3>1 DEF RecoveredRow
    <3>2. CASE ActiveByPath(p) # 0
      <4>1. ActiveByPath(p) \in ActiveRows(p) BY <3>2 DEF ActiveByPath
      <4> QED BY <4>1 DEF RecoveredRow, Serial, OnlyLastRowActive
    <3> QED BY <3>1, <3>2
  <2>3. HolderLast' BY <1>0, <2>1, <2>2 DEF HolderLast, RowLabels, JobLabels
  <2>4. Phased' BY <1>0, <2>1 DEF Serial, Phased
  <2>5. OnlyLastRowActive' /\ JobsLast' /\ QueuedJobIsActive' /\ OnePerPath'
    BY <1>0 DEF Serial, OnlyLastRowActive, ActiveRows, Op, JobsLast, QueuedJobIsActive, OnePerPath
  <2> QED BY <2>3, <2>4, <2>5 DEF Serial
<1> QED BY <1>1, <1>2 DEF RecoverBase

\* A write of recovery preserves the invariant.
LEMMA ApplyWriteSerial == ASSUME TypeInv, Serial, ApplyWrite PROVE Serial'
<1> USE RepoType
<1>0. /\ co.pc = "recover" /\ phase = "recovering" /\ queue = <<>> /\ co.op \in {0, Len(journal[co.path])}
      /\ UNCHANGED <<queue, inFlight, phase>>
  BY DEF ApplyWrite, Serial, HolderLast, Phased
<1>1. journal' = journal \/ \E row : WriteRow(co.path, co.op, row) BY DEF ApplyWrite
<1>2. \/ co'.pc = "free"
      \/ co'.pc = "recover" /\ co'.op = co.op /\ co'.path = co.path
  <2>1. ASSUME NEW rest, NextWrite(rest) PROVE \/ co'.pc = "free"
                                               \/ co'.pc = "recover" /\ co'.op = co.op /\ co'.path = co.path
    <3>1. CASE co' = Idle BY <3>1 DEF Idle
    <3>2. CASE co' = [co EXCEPT !.plan = rest] BY <1>0, <3>2 DEF Locals
    <3> QED BY <2>1, <3>1, <3>2 DEF NextWrite
  <2> QED BY <2>1 DEF ApplyWrite
<1>3. OnlyLastRowActive'
  <2>1. CASE journal' = journal BY <2>1 DEF Serial, OnlyLastRowActive, ActiveRows, Op
  <2>2. CASE \E row : WriteRow(co.path, co.op, row) BY <1>0, <2>2, LastStaysLast DEF Serial
  <2> QED BY <1>1, <2>1, <2>2
<1>4. DOMAIN queue' = {} BY <1>0
<1>5. JobsLast' /\ QueuedJobIsActive' /\ OnePerPath'
  BY <1>4 DEF JobsLast, QueuedJobIsActive, OnePerPath
<1>6. Len(journal'[co.path]) = Len(journal[co.path])
  <2>1. CASE journal' = journal BY <2>1
  <2>2. CASE \E row : WriteRow(co.path, co.op, row) BY <2>2, WriteFacts
  <2> QED BY <1>1, <2>1, <2>2
<1>7. HolderLast' BY <1>0, <1>2, <1>6 DEF HolderLast, RowLabels, JobLabels
<1>8. Phased' BY <1>0, <1>2 DEF Phased
<1> QED BY <1>3, <1>5, <1>7, <1>8 DEF Serial

\* Recovery, shutdown, crash and the surroundings preserve the invariant.
LEMMA ProcessStepSerial ==
  ASSUME TypeInv, Serial, RecoveryStep \/ Exit \/ Surroundings PROVE Serial'
<1> USE DEF durable, process, memory
<1>1. CASE ApplyWrite BY <1>1, ApplyWriteSerial
<1>2. CASE Serve
  <2>1. CASE Down BY <1>2, <2>1, DownSerial DEF Serve
  <2>2. CASE phase' = "serving" /\ UNCHANGED <<pending, broken, memory, co>>
    <3>1. Phased' BY <1>2, <2>2 DEF Serve, Free, Phased
    <3> QED BY <1>2, <2>2, <3>1, ProcessSerial DEF Serve
  <2> QED BY <1>2, <2>1, <2>2 DEF Serve
<1>3. CASE \E p \in Paths : RecoverBase(p) BY <1>3, RecoverBaseSerial
<1>4. CASE Exit BY <1>4, DownSerial DEF Exit
<1>5. CASE Crash BY <1>5, DownSerial DEF Crash
<1>6. CASE Close
  <2>1. Phased' BY <1>6 DEF Close, Serving, Serial, Phased
  <2> QED BY <1>6, <2>1, ProcessSerial DEF Close
<1>7. CASE Boot
  <2>1. Phased' BY <1>7 DEF Boot, Serial, Phased
  <2> QED BY <1>7, <2>1, ProcessSerial DEF Boot
<1>8. CASE \E p \in Paths : NoteWrite(p)
  <2>1. Phased' BY <1>8 DEF NoteWrite, Serial, Phased
  <2> QED BY <1>8, <2>1, ProcessSerial DEF NoteWrite
<1>9. CASE \E p \in Paths : OtherDevicePush(p)
  <2>1. Phased' BY <1>9 DEF OtherDevicePush, Serial, Phased
  <2> QED BY <1>9, <2>1, ProcessSerial DEF OtherDevicePush
<1> QED BY <1>1, <1>2, <1>3, <1>4, <1>5, <1>6, <1>7, <1>8, <1>9 DEF RecoveryStep, Surroundings

\* No row is active at first.
LEMMA InitSerial == ASSUME Init PROVE Serial
<1>1. queue = <<>> /\ DOMAIN queue = {} /\ co.pc = "free" /\ phase = "down" BY DEF Init, Idle
<1>2. PICK cfg \in Configs :
        journal = [p \in Paths |-> IF p \in Connected THEN <<ConnectedRow(cfg)>> ELSE <<>>]
  BY DEF Init
<1>3. OnlyLastRowActive
  <2>1. ASSUME NEW p \in Paths, NEW i \in DOMAIN journal[p] PROVE journal[p][i].state \notin ActiveStates
    <3>1. i = 1 /\ journal[p] = <<ConnectedRow(cfg)>> BY <1>2, <2>1
    <3> QED BY <3>1 DEF ConnectedRow, ActiveStates
  <2> QED BY <2>1 DEF OnlyLastRowActive, ActiveRows, Op
<1>4. JobsLast /\ QueuedJobIsActive /\ OnePerPath
  BY <1>1 DEF JobsLast, QueuedJobIsActive, OnePerPath
<1>5. HolderLast /\ Phased BY <1>1 DEF HolderLast, Phased, RowLabels, JobLabels
<1> QED BY <1>3, <1>4, <1>5 DEF Serial

\* The induction step: an action at a time.
LEMMA SerialStep == ASSUME TypeInv, Serial, [Next]_vars PROVE Serial'
<1>1. CASE Requests BY <1>1, RequestsSerial
<1>2. CASE AdmissionStep BY <1>2, AdmissionSerial
<1>3. CASE TakeJob BY <1>3, BeginSerial, ResolveConflictSerial DEF TakeJob
<1>4. CASE JobStep BY <1>4, JobSerial
<1>5. CASE RecoveryStep \/ Exit \/ Surroundings BY <1>5, ProcessStepSerial
<1>6. CASE UNCHANGED vars
  BY <1>6, ProcessSerial DEF vars, durable, process, memory, Serial, Phased
<1> QED BY <1>1, <1>2, <1>3, <1>4, <1>5, <1>6 DEF Next

\* The inductive invariant behind the two theorems that follow.
THEOREM SerialInvariant == Spec => []Serial
<1>1. Init => Serial BY InitSerial
<1>2. TypeInv /\ Serial /\ [Next]_vars => Serial' BY SerialStep
<1> QED BY <1>1, <1>2, TypesInvariant, PTL DEF Spec

\* Whatever the order of requests, jobs, recoveries, crashes and failed writes, only
\* the newest row of a base is ever queued or running: the unique index of the table
\* git_operations never refuses an admission that the manager accepted.
THEOREM OneActiveOperation == Spec => []OnlyLastRowActive
<1>1. Serial => OnlyLastRowActive BY DEF Serial
<1> QED BY <1>1, SerialInvariant, PTL

\* A job in the queue always has its row queued and its path in flight, so that the
\* worker never runs an operation another part of the manager has already finished.
THEOREM QueuedJobsAreActive == Spec => []QueuedJobIsActive
<1>1. Serial => QueuedJobIsActive BY DEF Serial
<1> QED BY <1>1, SerialInvariant, PTL
=============================================================================
