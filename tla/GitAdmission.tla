---------------------------- MODULE GitAdmission ----------------------------
(***************************************************************************)
(* Requests that reach the Git manager while HTTP is served: sync, resume, *)
(* initialize, conflict complete, conflict abort and conflict resolve, and *)
(* the two settings changes that rewrite a base's Git status.              *)
(* A request holds the coordinator from its first check to its last write  *)
(* and makes one durable write per step, so that a crash, or the failure   *)
(* of a write, falls between any two of them.  A refused request releases  *)
(* the coordinator and changes nothing else.                               *)
(***************************************************************************)
EXTENDS GitBase

\* The job of the path that waits in the queue, if its configuration changed.
StaleJobs(p) == {k \in DOMAIN queue : /\ queue[k].path = p /\ queue[k].op # 0
                                      /\ queue[k].cfg # config[p]}
Without(k) == [n \in 1 .. Len(queue) - 1 |-> queue[IF n < k THEN n ELSE n + 1]]

(* queueOperation: a configured base that no conflict blocks. *)
Request(p, label, cfg) ==
  /\ Free /\ Serving /\ ~Locked(p) /\ config[p] # NoConfig
  /\ co' = [Idle EXCEPT !.pc = IF StaleJobs(p) = {} THEN label ELSE "refresh",
                         !.path = p, !.next = label, !.cfg = cfg]

QueueSync(p) == /\ Request(p, "admit_sync", config[p])
                /\ UNCHANGED <<durable, process, memory, spent>>
Resume(p)    == /\ Request(p, "admit_resume", config[p])
                /\ UNCHANGED <<durable, process, memory, spent>>

(* The second half of PUT /api/git/config, with the snapshot of its first. *)
QueueInitialize(p, cfg) ==
  /\ <<p, cfg>> \in connecting /\ connecting' = connecting \ {<<p, cfg>>}
  /\ Free /\ Serving
  /\ IF config[p] = cfg /\ ~Locked(p) THEN Request(p, "admit_initialize", cfg)
                                      ELSE UNCHANGED co
  /\ UNCHANGED <<durable, process, gate, queue, inFlight, degraded, spent>>

(* refreshQueued finishes a waiting job whose configuration is gone. *)
RefreshQueued ==
  /\ co.pc = "refresh"
  /\ \/ /\ NoFault /\ Goto(co.next)
        /\ \E k \in StaleJobs(co.path) :
             LET stale == journal[co.path][queue[k].op] IN
             /\ WriteRow(co.path, queue[k].op, Finished(stale, "failed", "queued", NoResult))
             /\ queue' = Without(k)
        /\ inFlight' = [inFlight EXCEPT ![co.path] = 0]
     \/ Fault /\ Release /\ UNCHANGED <<journal, queue, inFlight>>
  /\ UNCHANGED <<config, status, repo, server, published, process, gate, connecting, degraded>>

-----------------------------------------------------------------------------
(* queueValidatedLocked *)

TrustedOrEmpty(p) == IF journal[p] = <<>> THEN 0
                     ELSE AdmissionTrust(journal[p][LatestByPath(p)], status[p])
Untrusted(p, kind) == IF journal[p] = <<>> THEN kind = "sync"
                      ELSE TrustRefused(kind, journal[p][LatestByPath(p)], status[p])
EmptyCheckpoint(remote) == [Idle.ck EXCEPT !.remote = remote]

\* CreateQueued; the row must be the next one of a bounded journal.
Create(p, row) ==
  /\ Len(journal[p]) < MaxOps
  /\ CreateQueued(p, row)
  /\ co' = [co EXCEPT !.pc = "admit_status", !.path = p, !.op = Len(journal[p]) + 1]

\* A queued or running row of the path is adopted as the operation in flight.
Adopt(p, kinds) ==
  LET i == ActiveByPath(p) IN
  inFlight' = IF sameManagerIdentity(journal[p][i], config[p]) /\ journal[p][i].kind \in kinds
              THEN [inFlight EXCEPT ![p] = i] ELSE inFlight

Admit(kind, label) ==
  /\ co.pc = label
  /\ LET p == co.path IN
     \/ /\ \/ ~Serving \/ status[p].state = "paused" \/ inFlight[p] # 0
           \/ kind = "sync" /\ status[p].state = "needs_reconnect"
           \/ ActiveByPath(p) = 0 /\ (Untrusted(p, kind) \/ Len(journal[p]) = MaxOps)
        /\ Release /\ NoFault /\ UNCHANGED <<journal, inFlight>>
     \/ /\ Serving /\ status[p].state # "paused" /\ inFlight[p] = 0
        /\ kind = "sync" => status[p].state # "needs_reconnect"
        /\ \/ /\ ActiveByPath(p) # 0
              /\ Adopt(p, OperationKinds) /\ Release /\ NoFault /\ UNCHANGED journal
           \/ /\ ActiveByPath(p) = 0 /\ ~Untrusted(p, kind)
              /\ \/ /\ Create(p, QueuedRow(kind, co.cfg, EmptyCheckpoint(TrustedOrEmpty(p)))) /\ NoFault
                 \/ Fault /\ Release /\ UNCHANGED journal
              /\ UNCHANGED inFlight
  /\ UNCHANGED <<config, status, repo, server, published, process, gate, queue, connecting, degraded>>

AdmitSync       == Admit("sync", "admit_sync")
AdmitInitialize == Admit("initialize", "admit_initialize")

(* Resume clears the breaker first and restores it when the queue refuses. *)
AdmitResume ==
  /\ co.pc = "admit_resume"
  /\ LET p == co.path
         open == Serving /\ inFlight[p] = 0 IN
     \/ /\ open /\ ActiveByPath(p) # 0 /\ status[p].state = "syncing"
        /\ Adopt(p, {"sync"}) /\ Release /\ NoFault /\ UNCHANGED status
     \/ /\ open /\ ActiveByPath(p) = 0 /\ status[p].state = "paused"
        /\ \/ /\ applyStatus(p, [status[p] EXCEPT !.state = "ready", !.op = 0], "reset")
              /\ co' = [co EXCEPT !.pc = "create_resumed", !.resumed = TRUE, !.prev = status[p]]
              /\ NoFault
           \/ Fault /\ Release /\ UNCHANGED status
        /\ UNCHANGED inFlight
     \/ /\ ~(open /\ IF ActiveByPath(p) = 0 THEN status[p].state = "paused"
                                            ELSE status[p].state = "syncing")
        /\ Release /\ NoFault /\ UNCHANGED <<status, inFlight>>
  /\ UNCHANGED <<config, journal, repo, server, published, process, gate, queue, connecting, degraded>>

CreateResumed ==
  /\ co.pc = "create_resumed"
  /\ LET p == co.path IN
     \/ /\ ~Untrusted(p, "sync") /\ NoFault
        /\ Create(p, QueuedRow("sync", co.cfg, EmptyCheckpoint(TrustedOrEmpty(p))))
     \/ Goto("rollback") /\ UNCHANGED journal
        /\ IF Untrusted(p, "sync") \/ Len(journal[p]) = MaxOps THEN NoFault ELSE Fault
  /\ UNCHANGED <<config, status, repo, server, published, process, memory>>

Rollback ==
  /\ co.pc = "rollback" /\ Release
  /\ \/ status' = [status EXCEPT ![co.path] = co.prev] /\ NoFault
     \/ Fault /\ UNCHANGED status
  /\ UNCHANGED <<config, journal, repo, server, published, process, memory>>

-----------------------------------------------------------------------------
(* queueConflictOperation *)

\* currentConflictOperation: the operation whose merge the base waits to settle.
currentConflictOperation(p) ==
  LET s == status[p]
      latest == LatestConflictByPath(p)
      Settles(i) == Original(journal[p][i]) /\ sameManagerIdentity(journal[p][i], config[p]) IN
  IF s.state # "conflict" \/ s.op \notin Op(p) THEN 0
  ELSE IF journal[p][s.op].state = "conflict" /\ Settles(s.op) THEN s.op
  ELSE IF /\ journal[p][s.op].state \in ActiveStates
          /\ journal[p][s.op].kind \in ConflictKinds
          /\ latest \in Op(p) /\ Settles(latest)
  THEN latest ELSE 0

\* Conflicts: HEAD, MERGE_HEAD and the trusted ref are those of the operation.
Inspectable(r, row) ==
  /\ r.merge # "none" /\ r.head = row.local
  /\ r.mergeHead = row.remote /\ r.managed = row.remote /\ row.candidate = row.remote

QueueConflict(p, kind) ==
  /\ Free /\ Serving /\ inFlight[p] = 0
  /\ LET o == currentConflictOperation(p) IN
     /\ o # 0
     /\ \/ /\ ActiveByPath(p) # 0 /\ Adopt(p, {kind}) /\ UNCHANGED <<journal, co>>
        \/ /\ ActiveByPath(p) = 0 /\ Inspectable(repo[p], journal[p][o])
           /\ kind = "conflict_complete" => repo[p].merge = "resolved"
           /\ Create(p, QueuedRow(kind, journal[p][o].cfg, CheckpointOf(journal[p][o])))
           /\ UNCHANGED inFlight
  /\ UNCHANGED <<config, status, repo, server, published, process, gate, queue,
                 connecting, degraded, spent>>

(* ResolveConflict is a job without a journal row, queued without the lock. *)
EnqueueResolve(p) ==
  /\ Serving /\ ~MutexHeld /\ config[p] # NoConfig
  /\ status[p].state = "conflict"                 \* otherwise the job does nothing
  /\ \A k \in DOMAIN queue : queue[k].op # 0      \* bound: one such job waits
  /\ queue' = Append(queue, [path |-> p, op |-> 0, cfg |-> NoConfig])
  /\ UNCHANGED <<durable, process, gate, inFlight, connecting, degraded, co, spent>>

-----------------------------------------------------------------------------
(* The status of an admitted operation, and the compensation of the row. *)

AdmittedStatus(p, i) ==
  IF Row.kind \in ConflictKinds THEN [status[p] EXCEPT !.op = i]
  ELSE WorkingStatus(p, i, WorkingState(Row.kind), Row.remote)

\* Variant: the job is queued before its status is written.
EagerQueue(written) == Append(queue, [path |-> co.path, op |-> co.op, cfg |-> config[co.path]])

QueueAfter(written) ==
  IF written THEN Append(queue, [path |-> co.path, op |-> co.op, cfg |-> config[co.path]])
             ELSE queue

AdmitStatus ==
  /\ co.pc = "admit_status"
  /\ LET p == co.path IN
     \/ /\ applyStatus(p, AdmittedStatus(p, co.op), "preserve")
        /\ inFlight' = [inFlight EXCEPT ![p] = co.op]
        /\ Release /\ NoFault /\ queue' = QueueAfter(TRUE)
     \/ Fault /\ Goto("undo") /\ queue' = QueueAfter(FALSE) /\ UNCHANGED <<status, inFlight>>
  /\ UNCHANGED <<config, journal, repo, server, published, process, gate, connecting, degraded>>

Undo ==
  /\ co.pc = "undo"
  /\ IF co.resumed THEN Goto("rollback") ELSE Release
  /\ \/ /\ WriteRow(co.path, co.op, Finished(Row, "failed", "queued", NoResult))
        /\ NoFault /\ UNCHANGED inFlight
     \/ Fault /\ inFlight' = [inFlight EXCEPT ![co.path] = co.op] /\ UNCHANGED journal
  /\ UNCHANGED <<config, status, repo, server, published, process, gate, queue, connecting, degraded>>

-----------------------------------------------------------------------------
(* ConfigureGit and DisableGit write the status first, then config.json. *)

NewStatus(p, cfg) ==
  IF cfg = NoConfig THEN NoStatus
  ELSE [state |-> "needs_reconnect", op |-> 0, failures |-> 0,
        remote |-> IF config[p] # NoConfig /\ FoundStatus(p) THEN status[p].remote ELSE 0]

Changing(p, cfg, label) ==
  co' = [Idle EXCEPT !.pc = label, !.path = p, !.cfg = cfg, !.prev = status[p]]

ChangeStatus(p, cfg) ==
  /\ Free /\ Serving /\ ~degraded /\ ~Locked(p)
  /\ \/ status' = [status EXCEPT ![p] = NewStatus(p, cfg)] /\ Changing(p, cfg, "save_config") /\ NoFault
     \/ Fault /\ Changing(p, cfg, "restore_status") /\ UNCHANGED status
  /\ UNCHANGED <<config, journal, repo, server, published, process, memory>>

Configure(p, cfg) == cfg # NoConfig /\ ChangeStatus(p, cfg)
Disable(p) == config[p] # NoConfig /\ ChangeStatus(p, NoConfig)

SaveConfig ==
  /\ co.pc = "save_config"
  /\ \/ /\ config' = [config EXCEPT ![co.path] = co.cfg]
        /\ connecting' = IF co.cfg = NoConfig THEN connecting ELSE connecting \cup {<<co.path, co.cfg>>}
        /\ Release /\ NoFault
     \/ Fault /\ Goto("restore_status") /\ UNCHANGED <<config, connecting>>
  /\ UNCHANGED <<journal, status, repo, server, published, process, gate, queue, inFlight, degraded>>

RestoreStatus ==
  /\ co.pc = "restore_status" /\ Release
  /\ \/ status' = [status EXCEPT ![co.path] = co.prev] /\ NoFault /\ UNCHANGED degraded
     \/ Fault /\ degraded' = TRUE /\ UNCHANGED status
  /\ UNCHANGED <<config, journal, repo, server, published, process, gate, queue, inFlight, connecting>>
=============================================================================
