----------------------------- MODULE GitManager -----------------------------
(***************************************************************************)
(* The Git manager in its process and its surroundings: the requests, the  *)
(* worker and the recovery of the modules it extends, note edits, pushes   *)
(* of other devices, shutdowns and crashes; and the properties of the      *)
(* whole.                                                                  *)
(***************************************************************************)
EXTENDS GitRecovery

(* A note is saved unless its base is gated or its worktree locked. *)
NoteWrite(p) ==
  /\ phase \in {"serving", "closing"} /\ ~Locked(p) /\ ~(co.tx /\ co.path = p)
  /\ spent.edits < MaxEdits /\ spent' = [spent EXCEPT !.edits = @ + 1]
  /\ UpdateRepo(p, [repo[p] EXCEPT !.dirty = TRUE])
  /\ UNCHANGED <<config, journal, status, server, published, process, memory, co>>

(* Another device pushes a commit made on top of the remote branch. *)
OtherDevicePush(p) ==
  /\ spent.pushes < MaxPushes /\ spent' = [spent EXCEPT !.pushes = @ + 1]
  /\ LET oid == repo[p].last + 1 IN
     /\ server' = [server EXCEPT ![p] = oid]
     /\ published' = [published EXCEPT ![p] = @ \cup {oid}]
     /\ UpdateRepo(p, [repo[p] EXCEPT !.last = oid])
  /\ UNCHANGED <<config, journal, status, process, memory, co>>

\* A bounded number of shutdowns and crashes.
Stop == spent.stops < MaxStops /\ spent' = [spent EXCEPT !.stops = @ + 1]

(* Close cancels the worker; Exit is the process after it has drained. *)
Close ==
  /\ Serving /\ ~MutexHeld /\ phase' = "closing" /\ Stop
  /\ UNCHANGED <<durable, pending, broken, memory, co>>

\* Variant: a shutdown waits for the jobs the canceled worker will not take.
QueueDrained == Free /\ queue = <<>>

Drained == Free

Exit == phase = "closing" /\ Drained /\ Down /\ UNCHANGED <<durable, spent>>

Crash == phase # "down" /\ Stop /\ Down /\ UNCHANGED durable

-----------------------------------------------------------------------------
Requests ==
  \E p \in Paths :
    \/ QueueSync(p) \/ Resume(p) \/ EnqueueResolve(p) \/ Disable(p)
    \/ \E kind \in ConflictKinds : QueueConflict(p, kind)
    \/ \E cfg \in Configs : Configure(p, cfg) \/ QueueInitialize(p, cfg)

AdmissionStep ==
  \/ RefreshQueued \/ AdmitSync \/ AdmitInitialize \/ AdmitResume \/ CreateResumed
  \/ Rollback \/ AdmitStatus \/ Undo \/ SaveConfig \/ RestoreStatus

TakeJob == Begin \/ ResolveConflict

JobStep ==
  \/ FinishStale \/ Abandon \/ Checkpoint \/ Publish \/ Leave
  \/ Preflight \/ Probe \/ CreateRepository \/ Fetch \/ Trust \/ OpenSnapshot
  \/ Commit \/ MergeNeeded \/ RunMerge \/ Push \/ Settle
  \/ VerifyCompletion \/ CommitMerge \/ SyncIndex \/ SaveConflictPushing
  \/ VerifyAbort \/ AbortMerge \/ Aborted \/ AbortStatus \/ AbortJournal
  \/ SucceedJournal \/ SucceedStatus \/ Failed \/ FailJournal \/ FailStatus

RecoveryStep == ApplyWrite \/ Serve \/ \E p \in Paths : RecoverBase(p)

Surroundings == \/ Close \/ Crash \/ Boot
                \/ \E p \in Paths : NoteWrite(p) \/ OtherDevicePush(p)

Next == Requests \/ AdmissionStep \/ TakeJob \/ JobStep \/ RecoveryStep \/ Exit \/ Surroundings

Spec == Init /\ [][Next]_vars

(* Every goroutine that holds the coordinator runs on; the worker gets it   *)
(* at last, because a sync.Mutex hands itself to a waiter that starves.     *)
Fairness == /\ WF_vars(AdmissionStep \/ JobStep \/ RecoveryStep \/ Exit)
            /\ SF_vars(TakeJob)

FairSpec == Spec /\ Fairness

-----------------------------------------------------------------------------
(* Safety. *)

TypeOK ==
  /\ config \in [Paths -> Configs \cup {NoConfig}]
  /\ journal \in [Paths -> Seq(Rows)]
  /\ status \in [Paths -> Statuses]
  /\ repo \in [Paths -> Repos]
  /\ server \in [Paths -> Oids] /\ published \in [Paths -> SUBSET Oids]
  /\ phase \in Phases /\ pending \subseteq Paths /\ broken \in BOOLEAN
  /\ gate \subseteq Paths /\ queue \in Seq(Jobs) /\ inFlight \in [Paths -> Nat]
  /\ connecting \subseteq Paths \X Configs /\ degraded \in BOOLEAN
  /\ co \in Locals
  /\ spent \in [faults : Nat, stops : Nat, pushes : Nat, edits : Nat]

(* While note edits are possible and a merge waits for its conflicts, the   *)
(* base is gated or its worktree locked: no edit lands among the conflict   *)
(* markers (SetConflict before the transaction's unlock, RecoverLocal       *)
(* before the server, resolve and abort on their error paths).              *)
MergeFenced ==
  phase \in {"serving", "closing"} =>
    \A p \in Paths : repo[p].merge = "conflict" => Locked(p) \/ (co.tx /\ co.path = p)

(* A base shown in conflict is gated as soon as its status says so, from    *)
(* the failed merge through a restart to its completion or abort.           *)
ConflictGated ==
  phase \in {"serving", "closing"} =>
    \A p \in Paths : status[p].state = "conflict" => Locked(p)

(* The job queue holds the unfinished operations of its bases: a job popped *)
(* by runJob always finds its row active, and in flight under its path.     *)
QueuedJobIsActive ==
  \A k \in DOMAIN queue : queue[k].op # 0 =>
    /\ journal[queue[k].path][queue[k].op].state = "queued"
    /\ inFlight[queue[k].path] = queue[k].op

(* An unfinished row is the newest of its base: the unique index of         *)
(* git_operations never refuses an admission.                               *)
OnlyLastRowActive == \A p \in Paths : ActiveRows(p) \subseteq {Len(journal[p])}

(* Unless the process stopped or a write failed, an accepted operation is   *)
(* waiting in the queue or being run: no path stays busy without a job.     *)
AcceptedHasJob ==
  spent.stops = 0 /\ spent.faults = 0 =>
    \A p \in Paths : inFlight[p] # 0 =>
      \/ \E k \in DOMAIN queue : queue[k].path = p /\ queue[k].op = inFlight[p]
      \/ co.path = p /\ co.op = inFlight[p]

(* What the manager trusts, in the status, in the journal and in the ref of *)
(* the repository, has been the head of the remote branch.                  *)
TrustedWasPublished ==
  \A p \in Paths :
    /\ status[p].remote \in published[p] \cup {0}
    /\ repo[p].managed \in published[p] \cup {0}
    /\ \A i \in Op(p) : journal[p][i].remote \in published[p] \cup {0}

(* An operation reported successful has its commit on the remote, also one  *)
(* whose push outcome a restart had to prove.                               *)
SuccessWasPublished ==
  \A p \in Paths : \A i \in Op(p) :
    journal[p][i].state = "succeeded" /\ journal[p][i].kind # "conflict_abort" =>
      journal[p][i].push # 0 /\ journal[p][i].push \in published[p]

(* A base shown at work has an unfinished operation of that name, so that   *)
(* the poller of the frontend and the scheduler, which both wait for the    *)
(* end of the work, have something to wait for.                             *)
WorkingMeansUnfinished ==
  Serving /\ Free /\ spent.faults = 0 =>
    \A p \in Paths : status[p].state \in {"syncing", "initializing"} =>
      status[p].op \in ActiveRows(p)

(* The breaker: while the process lives, a base with PauseThreshold failures *)
(* in a row is paused, and nothing but Resume or a new configuration, which  *)
(* start the count again, makes it one the scheduler submits.                *)
BreakerHolds ==
  spent.stops = 0 =>
    \A p \in Paths : status[p].failures >= PauseThreshold => status[p].state = "paused"

-----------------------------------------------------------------------------
(* Actions. *)

(* A push of the manager replaces the remote head by one of its descendants *)
PushIsFastForward ==
  [][\A p \in Paths : server'[p] # server[p] /\ repo'[p].last = repo[p].last =>
       server[p] \in repo[p].history /\ server'[p] = repo[p].head]_vars

(* The gate of a base in serving opens only when no merge waits in it. *)
GateOpensWithoutMerge ==
  [][\A p \in Paths : p \in gate /\ p \notin gate' /\ phase = "serving" /\ phase' = phase =>
       repo[p].merge = "none"]_vars

(* The journal is the operation log its readers rely on. *)
Log == INSTANCE OperationLog WITH Bases <- Paths,
         log <- [p \in Paths |-> [i \in Op(p) |-> journal[p][i].state]]
JournalIsLog == Log!Spec

-----------------------------------------------------------------------------
(* Liveness. *)

(* An operation in flight ends, unless the process stops or a write fails.  *)
AcceptedEnds ==
  \A p \in Paths : inFlight[p] # 0 ~> inFlight[p] = 0 \/ spent.faults > 0 \/ spent.stops > 0

(* A base shown at work stops being shown so, across restarts too.          *)
WorkEnds ==
  \A p \in Paths : status[p].state \in {"syncing", "initializing"} ~>
    \/ status[p].state \notin {"syncing", "initializing"}
    \/ spent.faults > 0 \/ phase = "down"

(* A starting process gets to the end of RecoverLocal. *)
RecoveryEnds == phase = "recovering" ~> phase # "recovering"

(* A shutdown drains the worker. *)
ShutdownEnds == phase = "closing" ~> phase = "down"
=============================================================================
