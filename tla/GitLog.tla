------------------------------- MODULE GitLog -------------------------------
(***************************************************************************)
(* The manager implements the operation log of OperationLog, under the     *)
(* refinement mapping of JournalIsLog: an operation enters the journal     *)
(* while no other of its base is unfinished, runs, ends once and never     *)
(* changes again.  Proved for every set of bases, every set of             *)
(* configurations and every bound.                                         *)
(*                                                                         *)
(* Every step maps to a step of the log or a stutter if the row it writes  *)
(* is unfinished.  So Alive says that a holder's row is, from the          *)
(* admission to the write that ends it, and that the plan of a recovery    *)
(* ends the row it found at most once, as the last of its rows.            *)
(*                                                                         *)
(* And what the others may rely on while the process lives and writes      *)
(* succeed: a base that failed too often stays paused (Breaker), an        *)
(* accepted operation has its job (Accepted), and a base shown at work has *)
(* the unfinished operation that its status names (Working).               *)
(***************************************************************************)
EXTENDS GitFence

\* The states an operation ends in.
FinalStates == {"succeeded", "failed", "conflict"}
IsRow(w) == w[1] = "journal"
HasRows(plan) == \E k \in DOMAIN plan : IsRow(plan[k])

\* The rows a plan writes: running ones while the row runs, and its end as the last.
EndsOnce(plan) ==
  \A k \in DOMAIN plan : IsRow(plan[k]) =>
    \/ plan[k][2].state = "running"
    \/ /\ plan[k][2].state \in FinalStates
       /\ \A n \in DOMAIN plan : n > k => ~IsRow(plan[n])

HolderAlive(c, row) ==
  /\ c.pc \in RowLabels \ ReportLabels => row.state \in ActiveStates
  /\ c.pc = "recover" =>
       /\ EndsOnce(c.plan) /\ ~HasRows(c.fallback)
       /\ HasRows(c.plan) => c.op # 0 /\ row.state \in ActiveStates

\* The inductive invariant.
Alive == HolderAlive(co, Row)

-----------------------------------------------------------------------------
(* What a step does to the journal, and what that is in the log. *)

NewRow == \E p \in Paths : \E row \in Rows :
            CreateQueued(p, row) /\ row.state = "queued" /\ ActiveRows(p) = {}
Rewritten == \E p \in Paths : \E i \in Op(p) : \E row :
               /\ WriteRow(p, i, row)
               /\ journal[p][i].state \in ActiveStates /\ row.state \in {"running"} \cup FinalStates
Logged == UNCHANGED journal \/ NewRow \/ Rewritten

States(p) == [i \in Op(p) |-> journal[p][i].state]
Logs == [p \in Paths |-> [i \in Op(p) |-> journal[p][i].state]]

LEMMA LogsOf ==
  ASSUME TypeInv
  PROVE  /\ Logs = [p \in Paths |-> States(p)]
         /\ \A p \in Paths : States(p) \in Seq(OperationStates) /\ DOMAIN States(p) = Op(p)
<1>1. ASSUME NEW p \in Paths PROVE States(p) \in Seq(OperationStates) /\ DOMAIN States(p) = Op(p)
  <2>1. Len(journal[p]) \in Nat /\ Op(p) = 1 .. Len(journal[p]) BY OpFacts
  <2>2. \A i \in Op(p) : journal[p][i].state \in OperationStates BY RowAt DEF Rows
  <2>3. States(p) \in [1 .. Len(journal[p]) -> OperationStates] BY <2>1, <2>2 DEF States
  <2> QED BY <2>1, <2>3, SeqDef DEF States
<1> QED BY <1>1 DEF Logs, States

\* A new row is a submission.
LEMMA NewRowSubmits == ASSUME TypeInv, TypeInv', NewRow PROVE Log!Next
<1>1. PICK p \in Paths, row \in Rows : CreateQueued(p, row) /\ row.state = "queued" /\ ActiveRows(p) = {}
  BY DEF NewRow
<1> DEFINE n == Len(journal[p]) + 1
<1>2. /\ \A q \in Paths : q # p => journal'[q] = journal[q]
      /\ DOMAIN journal'[p] = 1 .. n /\ journal'[p][n] = row
      /\ \A j \in 1 .. Len(journal[p]) : journal'[p][j] = journal[p][j]
  BY <1>1, CreateFacts
<1>3. Len(journal[p]) \in Nat /\ Op(p) = 1 .. Len(journal[p]) BY OpFacts
<1>4. Append(States(p), "queued") = States(p)'
  <2>1. States(p) \in Seq(OperationStates) /\ DOMAIN States(p) = 1 .. Len(journal[p]) BY <1>3, LogsOf
  <2>2. Len(States(p)) = Len(journal[p]) BY <1>3, <2>1, LenProperties
  <2>3. "queued" \in OperationStates BY DEF OperationStates
  <2>4. /\ Append(States(p), "queued") \in Seq(OperationStates) /\ Len(Append(States(p), "queued")) = n
        /\ \A j \in 1 .. Len(journal[p]) : Append(States(p), "queued")[j] = States(p)[j]
        /\ Append(States(p), "queued")[n] = "queued"
    BY <2>1, <2>2, <2>3, AppendProperties
  <2>5. Append(States(p), "queued") \in [1 .. n -> OperationStates] BY <1>3, <2>4, LenProperties
  <2>6. States(p)' = [j \in 1 .. n |-> journal'[p][j].state] BY <1>2 DEF States, Op
  <2>7. \A j \in 1 .. n : Append(States(p), "queued")[j] = journal'[p][j].state
    BY <1>1, <1>2, <1>3, <2>4 DEF States
  <2> HIDE DEF n
  <2> QED BY <2>5, <2>6, <2>7
<1>5. \A q \in Paths : q # p => States(q)' = States(q) BY <1>2 DEF States, Op
<1>6. Logs' = [Logs EXCEPT ![p] = Append(@, "queued")]
  <2>1. Logs = [q \in Paths |-> States(q)] /\ Logs' = [q \in Paths |-> States(q)'] BY DEF Logs, States
  <2> QED BY <1>4, <1>5, <2>1
<1>7. Log!Unfinished(p) = {}
  <2>1. ASSUME NEW i \in Op(p) PROVE journal[p][i].state \in Log!Finals
    <3>1. journal[p][i].state \in OperationStates \ ActiveStates
      BY <1>1, RowAt DEF ActiveRows, Rows
    <3> QED BY <3>1 DEF OperationStates, ActiveStates, Log!Finals
  <2> QED BY <2>1 DEF Log!Unfinished
<1>8. Log!Submit(p) BY <1>6, <1>7 DEF Log!Submit, Logs
<1> QED BY <1>8 DEF Log!Next

\* An UPDATE of a row of the journal.
LEMMA RowWrittenAt ==
  ASSUME TypeInv, NEW p \in Paths, NEW i \in Op(p), NEW row, WriteRow(p, i, row)
  PROVE  journal'[p][i] = row
<1>1. journal[p] \in Seq(Rows) BY DEF TypeInv, TypeOK
<1> QED BY <1>1 DEF WriteRow, Op, TypeInv, TypeOK

\* A row that is written over moves its operation.
LEMMA RewrittenMoves == ASSUME TypeInv, Rewritten PROVE Log!Next
<1>0. PICK p \in Paths : \E i \in Op(p) : \E row :
        /\ WriteRow(p, i, row)
        /\ journal[p][i].state \in ActiveStates /\ row.state \in {"running"} \cup FinalStates
  BY DEF Rewritten
<1>9. PICK i \in Op(p) : \E row :
        /\ WriteRow(p, i, row)
        /\ journal[p][i].state \in ActiveStates /\ row.state \in {"running"} \cup FinalStates
  BY <1>0
<1>1. PICK row :
        /\ WriteRow(p, i, row)
        /\ journal[p][i].state \in ActiveStates /\ row.state \in {"running"} \cup FinalStates
  BY <1>9
<1>2. /\ \A q \in Paths : DOMAIN journal'[q] = DOMAIN journal[q]
      /\ \A q \in Paths : \A j : q # p \/ j # i => journal'[q][j] = journal[q][j]
  BY <1>1, WriteFacts
<1>3. journal'[p][i] = row BY <1>1, RowWrittenAt
<1>4. Logs' = [Logs EXCEPT ![p][i] = row.state]
  <2>1. \A q \in Paths : Op(q)' = Op(q) BY <1>2 DEF Op
  <2>2. [States(p) EXCEPT ![i] = row.state] = States(p)' BY <1>1, <1>2, <1>3, <2>1 DEF States
  <2>3. \A q \in Paths : q # p => States(q)' = States(q) BY <1>2, <2>1 DEF States
  <2>4. Logs = [q \in Paths |-> States(q)] /\ Logs' = [q \in Paths |-> States(q)'] BY DEF Logs, States
  <2> QED BY <2>2, <2>3, <2>4
<1>5. Logs[p] = States(p) /\ DOMAIN Logs[p] = Op(p) /\ Logs[p][i] = journal[p][i].state BY DEF Logs, States
<1>6. i \in Log!Unfinished(p)
  BY <1>1, <1>5 DEF Log!Unfinished, Log!Finals, ActiveStates, Logs
<1>7. Log!Move(p, i, {"running"}) \/ Log!Move(p, i, Log!Finals)
  BY <1>1, <1>4, <1>6 DEF Log!Move, Log!Finals, FinalStates, Logs
<1>8. i \in DOMAIN Logs[p] BY <1>5
<1> QED BY <1>7, <1>8 DEF Log!Next, Log!Run, Log!Finish, Logs

\* A step that does no more than Logged is a step of the log, or a stutter.
LEMMA LoggedSteps == ASSUME TypeInv, TypeInv', Logged PROVE Log!Next \/ Logs' = Logs
<1>1. CASE UNCHANGED journal BY <1>1 DEF Logs, Op
<1>2. CASE NewRow BY <1>2, NewRowSubmits
<1>3. CASE Rewritten BY <1>3, RewrittenMoves
<1> QED BY <1>1, <1>2, <1>3 DEF Logged

-----------------------------------------------------------------------------
(* The holder of the coordinator. *)

\* A holder without an unfinished row and without a plan.
LEMMA NoneAlive == ASSUME co'.pc \notin (RowLabels \ ReportLabels) \cup {"recover"} PROVE Alive'
BY DEF Alive, HolderAlive

\* A release of the coordinator.
LEMMA ReleaseAlive == ASSUME Release PROVE Alive'
BY NoneAlive DEF Release, Idle, RowLabels, JobLabels

\* A step that leaves the holder and the journal.
LEMMA StutterAlive == ASSUME Alive, UNCHANGED <<journal, co>> PROVE Logged /\ Alive'
BY DEF Alive, HolderAlive, Logged, Row

\* A step on an unfinished row that leaves it.
LEMMA QuietAlive ==
  ASSUME Alive, co.pc \in RowLabels \ ReportLabels, UNCHANGED journal, co'.pc # "recover",
         co'.pc \in RowLabels => co'.op = co.op /\ co'.path = co.path
  PROVE  Logged /\ Alive'
BY DEF Alive, HolderAlive, Logged, Row

\* A step that writes over the holder's unfinished row, and goes on only if it runs.
LEMMA RowAlive ==
  ASSUME TypeInv, Alive, co.pc \in RowLabels \ ReportLabels, co'.pc # "recover",
         NEW row, WriteRow(co.path, co.op, row), row.state \in {"running"} \cup FinalStates,
         co'.pc \in RowLabels \ ReportLabels => co'.op = co.op /\ co'.path = co.path /\ row.state = "running"
  PROVE  Logged /\ Alive'
<1>1. co.path \in Paths /\ co.op \in Op(co.path) BY RowType DEF TypeInv, RowsExist
<1>2. Row.state \in ActiveStates BY DEF Alive, HolderAlive
<1>3. Rewritten BY <1>1, <1>2 DEF Rewritten, Row
<1>4. Alive'
  <2>1. CASE co'.pc \in RowLabels \ ReportLabels
    <3>1. co'.op = co.op /\ co'.path = co.path /\ row.state = "running" BY <2>1
    <3>2. Row' = row BY <1>1, <3>1, RowWrittenAt DEF Row
    <3> QED BY <3>1, <3>2 DEF Alive, HolderAlive, ActiveStates
  <2>2. CASE co'.pc \notin RowLabels \ ReportLabels BY <2>2, NoneAlive
  <2> QED BY <2>1, <2>2
<1> QED BY <1>3, <1>4 DEF Logged

\* The states of the rows a step writes.
LEMMA StateOf ==
  ASSUME NEW row \in Rows, NEW state, NEW stage, NEW res, NEW ck
  PROVE  Finished(row, state, stage, res).state = state /\ Checkpointed(row, ck).state = "running"
BY DEF Finished, Checkpointed, Rows

-----------------------------------------------------------------------------
(* A job. *)

\* The end of a row, after which its holder goes.
LEMMA EndAlive ==
  ASSUME TypeInv, Alive, co.pc \in RowLabels \ ReportLabels, co'.pc \notin (RowLabels \ ReportLabels) \cup {"recover"},
         NEW state \in FinalStates, NEW stage, NEW res,
         UNCHANGED journal \/ WriteRow(co.path, co.op, Finished(Row, state, stage, res))
  PROVE  Logged /\ Alive'
<1>1. Row \in Rows BY RowType
<1>2. Finished(Row, state, stage, res).state = state BY <1>1, StateOf
<1>3. CASE UNCHANGED journal BY <1>3, NoneAlive DEF Logged
<1>4. CASE WriteRow(co.path, co.op, Finished(Row, state, stage, res))
  <2> DEFINE row == Finished(Row, state, stage, res)
  <2>1. row.state \in {"running"} \cup FinalStates BY <1>2
  <2> HIDE DEF row
  <2>2. WriteRow(co.path, co.op, row) BY <1>4 DEF row
  <2> QED BY <2>1, <2>2, RowAlive
<1> QED BY <1>3, <1>4

\* Every step of a job works on an unfinished row, and ends it once.
LEMMA JobAlive == ASSUME TypeInv, Alive, JobStep PROVE Logged /\ Alive'
<1> USE DEF RowLabels, JobLabels, ReportLabels, FinalStates
<1>1. CASE FinishStale
  <2>1. co'.pc = "free" BY <1>1 DEF FinishStale, Release, Idle
  <2>2. UNCHANGED journal \/ WriteRow(co.path, co.op, Finished(Row, "failed", "queued", NoResult))
    BY <1>1 DEF FinishStale
  <2> QED BY <1>1, <2>1, <2>2, EndAlive DEF FinishStale
<1>2. CASE Abandon BY <1>2, ReleaseAlive DEF Abandon, Logged, durable
<1>3. CASE Checkpoint
  <2>1. Moves BY <1>3, CheckpointTypes
  <2>2. CASE UNCHANGED journal
    <3>1. co'.pc # "recover" BY <2>1 DEF Moves, Continuations, AdmissionLabels
    <3> QED BY <1>3, <2>1, <2>2, <3>1, QuietAlive DEF Checkpoint, Moves
  <2>3. CASE WriteRow(co.path, co.op, Checkpointed(Row, co.ck))
    <3>1. co.pc = "journal" /\ co'.pc # "recover"
      BY <1>3, <2>1 DEF Checkpoint, Moves, Continuations, AdmissionLabels
    <3>2. Row \in Rows BY <3>1, RowType
    <3> DEFINE row == Checkpointed(Row, co.ck)
    <3>3. row.state = "running" BY <3>2, StateOf
    <3> HIDE DEF row
    <3>4. WriteRow(co.path, co.op, row) BY <2>3 DEF row
    <3> QED BY <2>1, <3>1, <3>3, <3>4, RowAlive DEF Moves
  <2> QED BY <1>3, <2>2, <2>3 DEF Checkpoint
<1>4. CASE AbortJournal
  <2>1. co'.pc = "free" BY <1>4 DEF AbortJournal, Release, Idle
  <2>2. UNCHANGED journal \/ WriteRow(co.path, co.op, Finished(Row, "succeeded", "completed", NoResult))
    BY <1>4 DEF AbortJournal
  <2> QED BY <1>4, <2>1, <2>2, EndAlive DEF AbortJournal
<1>5. CASE SucceedJournal
  <2>1. co'.pc = "succeed_status"
    BY <1>5, RepoType, GotoType DEF SucceedJournal, FinishRow, Labels
  <2>2. UNCHANGED journal \/ WriteRow(co.path, co.op, Finished(Row, "succeeded", "completed", Result))
    BY <1>5 DEF SucceedJournal, FinishRow
  <2> QED BY <1>5, <2>1, <2>2, EndAlive DEF SucceedJournal
<1>6. CASE FailJournal
  <2>1. co'.pc = "fail_status"
    BY <1>6, RepoType, GotoType DEF FailJournal, FinishRow, Labels
  <2>2. UNCHANGED journal \/ WriteRow(co.path, co.op, Finished(Row, FailedState, "queued", co.res))
    BY <1>6 DEF FailJournal, FinishRow
  <2>3. FailedState \in FinalStates BY DEF FailedState
  <2> HIDE DEF FinalStates
  <2> QED BY <1>6, <2>1, <2>2, <2>3, EndAlive DEF FailJournal
<1>7. CASE SucceedStatus \/ FailStatus
  BY <1>7, ReleaseAlive DEF SucceedStatus, FailStatus, Logged
<1>8. CASE Moves /\ co.pc \in RowLabels \ ReportLabels /\ UNCHANGED journal
  <2>1. co'.pc # "recover" BY <1>8 DEF Moves, Continuations, AdmissionLabels
  <2> QED BY <1>8, <2>1, QuietAlive DEF Moves
<1> QED BY <1>1, <1>2, <1>3, <1>4, <1>5, <1>6, <1>7, <1>8, QuietMoves DEF JobStep

-----------------------------------------------------------------------------
(* Requests and admissions. *)

\* A new row is unfinished, and the admission's.
LEMMA CreateAlive ==
  ASSUME TypeInv, NEW p \in Paths, NEW row \in Rows, Create(p, row), row.state = "queued", ActiveRows(p) = {}
  PROVE  Logged /\ Alive'
<1> DEFINE n == Len(journal[p]) + 1
<1>1. CreateQueued(p, row) BY DEF Create
<1>2. co'.pc = "admit_status" /\ co'.op = n /\ co'.path = p
  <2>1. "admit_status" \in Labels /\ n \in Nat BY OpFacts DEF Labels, RowLabels
  <2> QED BY <2>1, RepoType, Zenon DEF Create, Locals
<1>3. journal'[p][n] = row BY <1>1, CreateFacts
<1>4. Alive' BY <1>2, <1>3 DEF Alive, HolderAlive, Row, ActiveStates
<1>5. NewRow BY <1>1 DEF NewRow
<1> QED BY <1>4, <1>5 DEF Logged

\* A request opens an admission on a base, or queues one that has no row to write.
LEMMA RequestsAlive == ASSUME TypeInv, Serial, Alive, Requests PROVE Logged /\ Alive'
<1>1. PICK p \in Paths :
        \/ QueueSync(p) \/ Resume(p) \/ EnqueueResolve(p) \/ Disable(p)
        \/ \E kind \in ConflictKinds : QueueConflict(p, kind)
        \/ \E cfg \in Configs : Configure(p, cfg) \/ QueueInitialize(p, cfg)
  BY DEF Requests
<1>0. config[p] \in Configs \cup {NoConfig} BY DEF TypeInv, TypeOK
<1>2. ASSUME NEW label \in AdmissionLabels, NEW cfg \in Configs \cup {NoConfig}, Request(p, label, cfg), UNCHANGED journal
      PROVE  Logged /\ Alive'
  <2>1. co'.pc \notin RowLabels \cup {"recover"} BY <1>2, RequestPc, LabelsOf
  <2> QED BY <1>2, <2>1, NoneAlive DEF Logged
<1>3. CASE QueueSync(p) \/ Resume(p)
  <2>1. \E label \in AdmissionLabels : Request(p, label, config[p])
    BY <1>3 DEF QueueSync, Resume, AdmissionLabels
  <2>2. UNCHANGED journal BY <1>3 DEF QueueSync, Resume, durable
  <2> QED BY <1>0, <1>2, <2>1, <2>2
<1>4. ASSUME NEW cfg \in Configs, QueueInitialize(p, cfg) PROVE Logged /\ Alive'
  <2>1. UNCHANGED journal BY <1>4 DEF QueueInitialize, durable
  <2>2. CASE Request(p, "admit_initialize", cfg)
    <3>1. "admit_initialize" \in AdmissionLabels BY DEF AdmissionLabels
    <3> QED BY <1>2, <2>1, <2>2, <3>1
  <2>3. CASE UNCHANGED co BY <2>1, <2>3, StutterAlive
  <2> QED BY <1>4, <2>2, <2>3 DEF QueueInitialize
<1>5. ASSUME NEW cfg \in Configs \cup {NoConfig}, ChangeStatus(p, cfg) PROVE Logged /\ Alive'
  <2>1. co'.pc \in {"save_config", "restore_status"}
    BY <1>5, IdleType, Zenon DEF ChangeStatus, Changing, Locals
  <2>2. UNCHANGED journal BY <1>5 DEF ChangeStatus
  <2>3. co'.pc \notin RowLabels \cup {"recover"} BY <2>1 DEF RowLabels, JobLabels
  <2> QED BY <2>2, <2>3, NoneAlive DEF Logged
<1>6. ASSUME NEW kind \in ConflictKinds, QueueConflict(p, kind) PROVE Logged /\ Alive'
  <2> DEFINE o == currentConflictOperation(p)
             row == QueuedRow(kind, journal[p][o].cfg, CheckpointOf(journal[p][o]))
  <2>1. CASE UNCHANGED <<journal, co>> BY <2>1, StutterAlive
  <2>2. CASE ActiveByPath(p) = 0 /\ Create(p, row)
    <3>1. row \in Rows
      <4>1. o \in Op(p) BY <1>6 DEF QueueConflict, currentConflictOperation
      <4>2. journal[p][o] \in Rows BY <4>1, RowAt
      <4>3. CheckpointOf(journal[p][o]) \in Checkpoints /\ journal[p][o].cfg \in Configs \cup {NoConfig}
        BY <4>2 DEF CheckpointOf, Checkpoints, Rows
      <4> QED BY <4>3, QueuedRowType DEF ConflictKinds, OperationKinds
    <3>2. row.state = "queued" BY QueuedState
    <3>3. ActiveRows(p) = {} BY <2>2, NoActiveRow
    <3> HIDE DEF row
    <3> QED BY <2>2, <3>1, <3>2, <3>3, CreateAlive
  <2> HIDE DEF row
  <2> QED BY <1>6, <2>1, <2>2 DEF QueueConflict, row
<1>7. CASE EnqueueResolve(p) BY <1>7, StutterAlive DEF EnqueueResolve, durable
<1> QED BY <1>0, <1>1, <1>3, <1>4, <1>5, <1>6, <1>7 DEF Configure, Disable

\* The job refreshQueued removes had not begun, so that its row is unfinished.
LEMMA RefreshAlive == ASSUME TypeInv, Serial, RefreshQueued PROVE Logged /\ Alive'
<1> DEFINE p == co.path
<1>1. CASE UNCHANGED journal /\ Release BY <1>1, ReleaseAlive DEF Logged
<1>2. ASSUME NEW k \in StaleJobs(p), Goto(co.next),
             WriteRow(p, queue[k].op, Finished(journal[p][queue[k].op], "failed", "queued", NoResult))
      PROVE  Logged /\ Alive'
  <2> DEFINE i == queue[k].op
             row == Finished(journal[p][i], "failed", "queued", NoResult)
  <2>1. p \in Paths /\ k \in DOMAIN queue /\ queue[k].path = p /\ i # 0
    BY <1>2, RepoType DEF StaleJobs
  <2>2. i \in Op(p) BY <2>1 DEF TypeInv, RowsExist
  <2>3. journal[p][i].state \in ActiveStates BY <2>1 DEF Serial, QueuedJobIsActive, ActiveStates
  <2>4. row.state = "failed" BY <2>1, <2>2, RowAt, StateOf
  <2> HIDE DEF row
  <2>5. WriteRow(p, i, row) BY <1>2 DEF row
  <2>6. Rewritten BY <2>1, <2>2, <2>3, <2>4, <2>5 DEF Rewritten, FinalStates
  <2>7. co'.pc \in AdmissionLabels
    <3>1. co.next \in AdmissionLabels BY DEF RefreshQueued, TypeInv, RowsExist
    <3> QED BY <1>2, <3>1, RepoType, LabelsOf, GotoType
  <2>8. Alive' BY <2>7, NoneAlive DEF AdmissionLabels, RowLabels, JobLabels
  <2> QED BY <2>6, <2>8 DEF Logged
<1> QED BY <1>1, <1>2 DEF RefreshQueued

\* An admission creates a row only where none is unfinished.
LEMMA AdmitAlive ==
  ASSUME TypeInv, NEW kind \in OperationKinds, NEW label, Admit(kind, label) PROVE Logged /\ Alive'
<1> DEFINE p == co.path
           row == QueuedRow(kind, co.cfg, EmptyCheckpoint(TrustedOrEmpty(p)))
<1>1. CASE Release /\ UNCHANGED journal BY <1>1, ReleaseAlive DEF Logged
<1>2. CASE ActiveByPath(p) = 0 /\ Create(p, row)
  <2>1. p \in Paths /\ row \in Rows
    BY RepoType, TrustType, QueuedRowType, EmptyCheckpointType DEF Locals
  <2>2. row.state = "queued" /\ ActiveRows(p) = {} BY <1>2, <2>1, NoActiveRow, QueuedState
  <2> HIDE DEF row
  <2> QED BY <1>2, <2>1, <2>2, CreateAlive
<1> HIDE DEF row
<1> QED BY <1>1, <1>2 DEF Admit, row

\* Every step of an admission.
LEMMA AdmissionAlive == ASSUME TypeInv, Serial, Alive, AdmissionStep PROVE Logged /\ Alive'
<1> USE RepoType
<1>1. CASE RefreshQueued BY <1>1, RefreshAlive
<1>2. CASE AdmitSync \/ AdmitInitialize
  BY <1>2, AdmitAlive DEF AdmitSync, AdmitInitialize, OperationKinds
<1>3. CASE AdmitResume
  <2>1. co'.pc \in {"free", "create_resumed"}
    <3>1. "create_resumed" \in Labels BY DEF Labels, RequestLabels
    <3> QED BY <1>3, <3>1, ReleasePc, Zenon DEF AdmitResume, Locals
  <2>2. UNCHANGED journal BY <1>3 DEF AdmitResume
  <2> QED BY <2>1, <2>2, NoneAlive DEF Logged, RowLabels, JobLabels
<1>4. CASE CreateResumed
  <2> DEFINE p == co.path
             row == QueuedRow("sync", co.cfg, EmptyCheckpoint(TrustedOrEmpty(p)))
  <2>1. CASE Create(p, row)
    <3>1. p \in Paths /\ row \in Rows
      BY RepoType, TrustType, QueuedRowType, EmptyCheckpointType DEF Locals, OperationKinds
    <3>2. row.state = "queued" /\ ActiveRows(p) = {}
      BY <1>4, QueuedState DEF CreateResumed, Serial, HolderLast
    <3> HIDE DEF row
    <3> QED BY <2>1, <3>1, <3>2, CreateAlive
  <2>2. CASE Goto("rollback") /\ UNCHANGED journal
    <3>1. "rollback" \in Labels BY DEF Labels, RequestLabels
    <3>2. co'.pc = "rollback" BY <2>2, <3>1, GotoType
    <3> QED BY <2>2, <3>2, NoneAlive DEF Logged, RowLabels, JobLabels
  <2> HIDE DEF row
  <2> QED BY <1>4, <2>1, <2>2 DEF CreateResumed, row
<1>5. CASE Rollback \/ RestoreStatus
  BY <1>5, ReleaseAlive DEF Rollback, RestoreStatus, Logged
<1>6. CASE AdmitStatus
  <2>1. UNCHANGED journal BY <1>6 DEF AdmitStatus
  <2>2. CASE Release BY <2>1, <2>2, ReleaseAlive DEF Logged
  <2>3. CASE Goto("undo")
    <3>1. "undo" \in Labels BY DEF Labels, RowLabels
    <3>2. co'.pc = "undo" /\ co'.op = co.op /\ co'.path = co.path BY <2>3, <3>1, GotoType
    <3>3. co.pc \in RowLabels \ ReportLabels BY <1>6 DEF AdmitStatus, RowLabels, ReportLabels
    <3> QED BY <2>1, <3>2, <3>3, QuietAlive
  <2> QED BY <1>6, <2>2, <2>3 DEF AdmitStatus
<1>7. CASE Undo
  <2>1. co'.pc \in {"free", "rollback"}
    <3>1. "rollback" \in Labels BY DEF Labels, RequestLabels
    <3> QED BY <1>7, <3>1, GotoType, ReleasePc DEF Undo
  <2>2. UNCHANGED journal \/ WriteRow(co.path, co.op, Finished(Row, "failed", "queued", NoResult))
    BY <1>7 DEF Undo
  <2>3. co.pc \in RowLabels \ ReportLabels BY <1>7 DEF Undo, RowLabels, ReportLabels
  <2>4. "failed" \in FinalStates BY DEF FinalStates
  <2> QED BY <2>1, <2>2, <2>3, <2>4, EndAlive DEF RowLabels, JobLabels
<1>8. CASE SaveConfig
  <2>1. co'.pc \in {"free", "restore_status"}
    <3>1. "restore_status" \in Labels BY DEF Labels, RequestLabels
    <3> QED BY <1>8, <3>1, GotoType, ReleasePc DEF SaveConfig
  <2>2. UNCHANGED journal BY <1>8 DEF SaveConfig
  <2> QED BY <2>1, <2>2, NoneAlive DEF Logged, RowLabels, JobLabels
<1> QED BY <1>1, <1>2, <1>3, <1>4, <1>5, <1>6, <1>7, <1>8 DEF AdmissionStep

\* The worker begins only a job whose row waits.
LEMMA TakeAlive == ASSUME TypeInv, Serial, Alive, TakeJob PROVE Logged /\ Alive'
<1>1. CASE Begin
  <2> DEFINE job == Head(queue)
  <2>1. queue # <<>> /\ job.op # 0 /\ UNCHANGED journal BY <1>1 DEF Begin, durable
  <2>2. 1 \in DOMAIN queue /\ job = queue[1]
    <3>1. Len(queue) # 0 BY <2>1, QueueFacts, EmptySeq
    <3> QED BY <3>1, QueueFacts
  <2>3. co'.pc \in {"stale", "journal"} /\ co'.path = job.path /\ co'.op = job.op
    BY <1>1, IdleType, Zenon DEF Begin, Locals
  <2>4. journal[job.path][job.op].state = "queued" BY <2>1, <2>2 DEF Serial, QueuedJobIsActive
  <2>5. Row'.state \in ActiveStates BY <2>1, <2>3, <2>4 DEF Row, ActiveStates
  <2> QED BY <2>1, <2>3, <2>5 DEF Alive, HolderAlive, Logged
<1>2. CASE ResolveConflict BY <1>2, StutterAlive DEF ResolveConflict
<1> QED BY <1>1, <1>2 DEF TakeJob

-----------------------------------------------------------------------------
(* Recovery: the plan of a base writes its unfinished row, and ends it once. *)

\* A write of a running row, and one of an ended row.
Runs(w)   == IsRow(w) /\ w[2].state = "running"
Closes(w) == IsRow(w) /\ w[2].state \in FinalStates

\* A plan with no row, and one that ends its row with one other write.
LEMMA EndsOther == ASSUME NEW s, ~IsRow(s) PROVE EndsOnce(<<s>>) /\ ~HasRows(<<s>>)
<1>1. \A n \in DOMAIN <<s>> : <<s>>[n] = s OBVIOUS
<1> HIDE DEF IsRow
<1> QED BY <1>1 DEF EndsOnce, HasRows

LEMMA EndsPair == ASSUME NEW s, ~IsRow(s), NEW j, Closes(j) PROVE EndsOnce(<<s, j>>) /\ EndsOnce(<<j, s>>)
<1>1. DOMAIN <<s, j>> = {1, 2} /\ <<s, j>>[1] = s /\ <<s, j>>[2] = j OBVIOUS
<1>2. DOMAIN <<j, s>> = {1, 2} /\ <<j, s>>[1] = j /\ <<j, s>>[2] = s OBVIOUS
<1>3. j[2].state \in FinalStates BY DEF Closes
<1> HIDE DEF IsRow
<1>4. EndsOnce(<<s, j>>) BY <1>1, <1>3 DEF EndsOnce
<1>5. EndsOnce(<<j, s>>) BY <1>2, <1>3 DEF EndsOnce
<1> QED BY <1>4, <1>5

\* Running rows may come first.
LEMMA EndsLater ==
  ASSUME NEW S, NEW u \in Seq(S), NEW v \in Seq(S), EndsOnce(v), \A n \in DOMAIN u : Runs(u[n])
  PROVE  EndsOnce(u \o v)
<1> DEFINE w == u \o v
<1>1. /\ Len(u) \in Nat /\ DOMAIN u = 1 .. Len(u)
      /\ Len(v) \in Nat /\ DOMAIN v = 1 .. Len(v)
  BY LenProperties
<1>2. /\ w \in Seq(S) /\ Len(w) = Len(u) + Len(v)
      /\ \A n \in 1 .. Len(u) + Len(v) : w[n] = IF n <= Len(u) THEN u[n] ELSE v[n - Len(u)]
  BY ConcatProperties
<1>3. DOMAIN w = 1 .. Len(u) + Len(v) BY <1>2, LenProperties
<1> HIDE DEF w, IsRow
<1>4. \A n \in DOMAIN w : \/ n \in DOMAIN u /\ w[n] = u[n]
                          \/ n - Len(u) \in DOMAIN v /\ w[n] = v[n - Len(u)]
  BY <1>1, <1>2, <1>3
<1>5. SUFFICES ASSUME NEW k \in DOMAIN w, IsRow(w[k])
               PROVE  \/ w[k][2].state = "running"
                      \/ /\ w[k][2].state \in FinalStates
                         /\ \A n \in DOMAIN w : n > k => ~IsRow(w[n])
  BY DEF EndsOnce, w
<1>6. CASE k \in DOMAIN u /\ w[k] = u[k] BY <1>6 DEF Runs
<1>7. CASE k - Len(u) \in DOMAIN v /\ w[k] = v[k - Len(u)]
  <2>1. CASE w[k][2].state = "running" BY <2>1
  <2>2. CASE w[k][2].state # "running"
    <3>1. /\ w[k][2].state \in FinalStates
          /\ \A m \in DOMAIN v : m > k - Len(u) => ~IsRow(v[m])
      BY <1>5, <1>7, <2>2 DEF EndsOnce
    <3>2. ASSUME NEW n \in DOMAIN w, n > k PROVE ~IsRow(w[n])
      <4>1. n \notin DOMAIN u /\ n - Len(u) > k - Len(u) BY <1>1, <1>3, <1>7, <3>2
      <4> QED BY <1>4, <3>1, <4>1
    <3> QED BY <3>1, <3>2
  <2> QED BY <2>1, <2>2
<1> QED BY <1>4, <1>6, <1>7

LEMMA EndsAhead ==
  ASSUME NEW s, ~IsRow(s), NEW j, Closes(j), NEW c, NEW k, c => Runs(k)
  PROVE  /\ EndsOnce((IF c THEN <<k>> ELSE <<>>) \o <<s, j>>)
         /\ EndsOnce((IF c THEN <<k>> ELSE <<>>) \o <<j, s>>)
<1> DEFINE S == {s, j, k}
           u == IF c THEN <<k>> ELSE <<>>
<1>1. <<s, j>> \in Seq(S) /\ <<j, s>> \in Seq(S) OBVIOUS
<1>2. u \in Seq(S) /\ \A n \in DOMAIN u : c /\ u[n] = k
  <2>1. <<k>> \in Seq(S) /\ \A n \in DOMAIN <<k>> : <<k>>[n] = k OBVIOUS
  <2>2. <<>> \in Seq(S) /\ DOMAIN <<>> = {} BY EmptySeq
  <2> QED BY <2>1, <2>2
<1>3. EndsOnce(<<s, j>>) /\ EndsOnce(<<j, s>>) BY EndsPair
<1> HIDE DEF S, u, IsRow
<1>4. \A n \in DOMAIN u : Runs(u[n]) BY <1>2
<1>5. EndsOnce(u \o <<s, j>>) /\ EndsOnce(u \o <<j, s>>) BY <1>1, <1>2, <1>3, <1>4, EndsLater
<1> QED BY <1>5 DEF u

\* The writes of a plan.
LEMMA PlannedWrites ==
  /\ \A p, found, state, i, action : ~IsRow(Status(p, found, state, i, action))
  /\ \A p, found, state : ~IsRow(Published(p, found, state))
  /\ \A row : IsRow(Journal(row)) /\ Journal(row)[2] = row
BY DEF IsRow, Status, Published, Journal

LEMMA JournalCloses ==
  ASSUME NEW row \in Rows, NEW state \in FinalStates, NEW stage, NEW res
  PROVE  Closes(Journal(Finished(row, state, stage, res)))
<1>1. Finished(row, state, stage, res).state = state BY StateOf
<1> QED BY <1>1, PlannedWrites DEF Closes

LEMMA JournalRuns ==
  ASSUME NEW row \in Rows, NEW ck
  PROVE  Runs(Journal(Checkpointed(row, ck)))
<1>1. Checkpointed(row, ck).state = "running" BY StateOf
<1> QED BY <1>1, PlannedWrites DEF Runs

\* The rest of a plan: after the end of its row it writes no other.
LEMMA RestOfEnds ==
  ASSUME NEW plan \in Seq(Writes), plan # <<>>, EndsOnce(plan)
  PROVE  /\ EndsOnce(Tail(plan)) /\ (HasRows(Tail(plan)) => HasRows(plan))
         /\ IsRow(Head(plan)) =>
              /\ HasRows(plan) /\ Head(plan)[2].state \in {"running"} \cup FinalStates
              /\ Head(plan)[2].state # "running" => ~HasRows(Tail(plan))
<1> DEFINE rest == Tail(plan)
           write == Head(plan)
<1>1. /\ Len(plan) \in Nat /\ Len(plan) # 0 /\ DOMAIN plan = 1 .. Len(plan)
      /\ rest \in Seq(Writes) /\ Len(rest) = Len(plan) - 1
      /\ \A k \in 1 .. Len(rest) : rest[k] = plan[k + 1]
  BY LenProperties, EmptySeq, HeadTailProperties
<1>2. DOMAIN rest = 1 .. Len(plan) - 1 BY <1>1, LenProperties
<1>3. write = plan[1] /\ 1 \in DOMAIN plan BY <1>1
<1> HIDE DEF rest, write, IsRow
<1>4. \A k \in DOMAIN rest : k + 1 \in DOMAIN plan /\ rest[k] = plan[k + 1] /\ k + 1 > 1 BY <1>1, <1>2
<1>5. HasRows(rest) => HasRows(plan) BY <1>4 DEF HasRows
<1>6. EndsOnce(rest)
  <2> SUFFICES ASSUME NEW k \in DOMAIN rest, IsRow(rest[k]), rest[k][2].state # "running"
               PROVE  rest[k][2].state \in FinalStates /\ \A n \in DOMAIN rest : n > k => ~IsRow(rest[n])
    BY DEF EndsOnce
  <2>1. /\ plan[k + 1][2].state \in FinalStates
        /\ \A n \in DOMAIN plan : n > k + 1 => ~IsRow(plan[n])
    BY <1>4 DEF EndsOnce
  <2>2. \A n \in DOMAIN rest : n > k => n + 1 > k + 1 BY <1>1, <1>2
  <2> QED BY <1>4, <2>1, <2>2
<1>7. ASSUME IsRow(write)
      PROVE  /\ HasRows(plan) /\ write[2].state \in {"running"} \cup FinalStates
             /\ write[2].state # "running" => ~HasRows(rest)
  <2>1. HasRows(plan) BY <1>3, <1>7 DEF HasRows
  <2>2. \/ write[2].state = "running"
        \/ write[2].state \in FinalStates /\ \A n \in DOMAIN plan : n > 1 => ~IsRow(plan[n])
    BY <1>3, <1>7 DEF EndsOnce
  <2> QED BY <1>4, <2>1, <2>2 DEF HasRows
<1> QED BY <1>5, <1>6, <1>7 DEF rest, write

\* A plan ends the unfinished row of its base once, if there is one.
LEMMA AbortPlanned ==
  ASSUME NEW p \in Paths, NEW row \in Rows, NEW found
  PROVE  EndsOnce(RecoverAbort(p, row, found).writes) /\ RecoverAbort(p, row, found).fallback = <<>>
<1> DEFINE i == ActiveByPath(p)
           s == Status(p, found, "paused", i, "preserve")
           j == Journal(Finished(row, "succeeded", "completed", NoResult))
           t == Status(p, found, "conflict", originalConflict(p), "preserve")
           k == Journal(Finished(row, "failed", "queued", NoResult))
<1>1. ~IsRow(s) /\ ~IsRow(t) BY PlannedWrites
<1>2. Closes(j) /\ Closes(k) BY JournalCloses DEF FinalStates
<1>3. /\ RecoverAbort(p, row, found).writes \in {<<s, j>>, <<k, t>>}
      /\ RecoverAbort(p, row, found).fallback = <<>>
  BY DEF RecoverAbort, Plan
<1> HIDE DEF s, j, t, k
<1> QED BY <1>1, <1>2, <1>3, EndsPair

LEMMA CompletionPlanned ==
  ASSUME NEW p \in Paths, NEW row \in Rows, NEW found
  PROVE  EndsOnce(RecoverCompletion(p, row, found).writes) /\ RecoverCompletion(p, row, found).fallback = <<>>
<1> DEFINE i == ActiveByPath(p)
           ck == [CheckpointOf(row) EXCEPT !.stage = "conflict_reindexed"]
           reindexed == Checkpointed(row, ck)
           current == IF found.state = "needs_reindex" THEN reindexed ELSE row
           s == Status(p, found, "ready", i, "reset")
           j == Journal(Finished(row, "succeeded", "completed", [remote |-> found.remote, push |-> 0]))
           t == Status(p, found, "error", i, "preserve")
           k == Journal(Finished(current, "failed", "queued", NoResult))
           early == Journal(current)
<1>1. ~IsRow(s) /\ ~IsRow(t) BY PlannedWrites
<1>2. reindexed \in Rows
  <2>1. CheckpointOf(row) \in Checkpoints BY DEF CheckpointOf, Checkpoints, Rows
  <2>2. ck \in Checkpoints BY <2>1 DEF Checkpoints, Stages
  <2> HIDE DEF ck
  <2> QED BY <2>2, CheckpointedType
<1>3. current \in Rows BY <1>2
<1>4. current # row => Runs(early)
  <2>1. Runs(Journal(reindexed)) BY JournalRuns
  <2> HIDE DEF reindexed
  <2> QED BY <2>1
<1> HIDE DEF current
<1>5. Closes(j) /\ Closes(k) BY <1>3, JournalCloses DEF FinalStates
<1>6. CASE found.state = "pushed"
  <2>1. RecoverCompletion(p, row, found).writes = <<s, j>> /\ RecoverCompletion(p, row, found).fallback = <<>>
    BY <1>6 DEF RecoverCompletion, Plan
  <2> HIDE DEF s, j
  <2> QED BY <1>1, <1>5, <2>1, EndsPair
<1>7. CASE found.state # "pushed"
  <2>1. /\ RecoverCompletion(p, row, found).writes = (IF current # row THEN <<early>> ELSE <<>>) \o <<t, k>>
        /\ RecoverCompletion(p, row, found).fallback = <<>>
    BY <1>7, Zenon DEF RecoverCompletion, Plan, current
  <2> HIDE DEF t, k, early
  <2>2. EndsOnce((IF current # row THEN <<early>> ELSE <<>>) \o <<t, k>>) BY <1>1, <1>4, <1>5, EndsAhead
  <2> QED BY <2>1, <2>2
<1> QED BY <1>6, <1>7

LEMMA InterruptedPlanned ==
  ASSUME NEW p \in Paths, NEW row \in Rows, NEW found, found.remote \in Nat
  PROVE  EndsOnce(RecoverInterrupted(p, row, found).writes) /\ ~HasRows(RecoverInterrupted(p, row, found).fallback)
<1> DEFINE conflict == found.conflict \/ durableConflict(p)
           ck == [CheckpointOf(row) EXCEPT !.remote = found.remote]
           trusted == Checkpointed(row, ck)
           advanced == found.remote # 0 /\ found.remote # row.remote
           current == IF advanced THEN trusted ELSE row
           end == IF conflict THEN "conflict" ELSE "failed"
           last == IF conflict THEN "conflict" ELSE "needs_reconnect"
           s == Published(p, found, Settled(p, found))
           t == Published(p, found, last)
           j == Journal(Finished(current, end, "queued", NoResult))
           k == Journal(trusted)
<1>1. ~IsRow(s) /\ ~IsRow(t) BY PlannedWrites
<1>2. trusted \in Rows
  <2>1. CheckpointOf(row) \in Checkpoints BY DEF CheckpointOf, Checkpoints, Rows
  <2>2. ck \in Checkpoints BY <2>1 DEF Checkpoints, Oids
  <2> HIDE DEF ck
  <2> QED BY <2>2, CheckpointedType
<1>3. current \in Rows /\ end \in FinalStates BY <1>2 DEF FinalStates
<1>4. Runs(k) BY JournalRuns
<1>5. /\ RecoverInterrupted(p, row, found).writes = (IF advanced THEN <<k>> ELSE <<>>) \o <<j, s>>
      /\ RecoverInterrupted(p, row, found).fallback = <<t>>
  BY Zenon DEF RecoverInterrupted, Plan
<1> HIDE DEF current, end
<1>6. Closes(j) BY <1>3, JournalCloses
<1> HIDE DEF s, t, j, k, advanced
<1>7. EndsOnce((IF advanced THEN <<k>> ELSE <<>>) \o <<j, s>>) BY <1>1, <1>4, <1>6, EndsAhead
<1>8. ~HasRows(<<t>>) BY <1>1, EndsOther
<1> QED BY <1>5, <1>7, <1>8

LEMMA SettledPlanned ==
  ASSUME NEW p \in Paths, NEW found
  PROVE  /\ EndsOnce(RecoverSettled(p, found).writes) /\ ~HasRows(RecoverSettled(p, found).writes)
         /\ RecoverSettled(p, found).fallback = <<>>
<1> DEFINE s == Status(p, found, "error", recoveryOperation(p), "preserve")
           t == Published(p, found, Settled(p, found))
<1>1. ~IsRow(s) /\ ~IsRow(t) BY PlannedWrites
<1>2. /\ RecoverSettled(p, found).writes \in {<<s>>, <<t>>}
      /\ RecoverSettled(p, found).fallback = <<>>
  BY DEF RecoverSettled, Plan
<1> HIDE DEF s, t
<1> QED BY <1>1, <1>2, EndsOther

LEMMA PlannedAlive ==
  ASSUME TypeInv, NEW p \in Paths, NEW found, found.remote \in Nat
  PROVE  /\ EndsOnce(RecoveryPlan(p, found).writes) /\ ~HasRows(RecoveryPlan(p, found).fallback)
         /\ HasRows(RecoveryPlan(p, found).writes) => ActiveByPath(p) # 0
<1> DEFINE i == ActiveByPath(p)
<1>1. ~HasRows(<<>>)
  <2>1. DOMAIN <<>> = {} BY EmptySeq
  <2> QED BY <2>1 DEF HasRows
<1>2. CASE i = 0 BY <1>1, <1>2, SettledPlanned DEF RecoveryPlan
<1>3. CASE i # 0
  <2>1. journal[p][i] \in Rows BY <1>3, ActiveType, RowAt
  <2>2. RecoveryPlan(p, found) \in {RecoverAbort(p, journal[p][i], found), RecoverCompletion(p, journal[p][i], found),
                                    RecoverInterrupted(p, journal[p][i], found)}
    BY <1>3 DEF RecoveryPlan
  <2> QED BY <1>1, <1>3, <2>1, <2>2, AbortPlanned, CompletionPlanned, InterruptedPlanned
<1> QED BY <1>2, <1>3

\* The inspection of a base writes no row.
LEMMA RecoverBaseAlive == ASSUME TypeInv, Alive, NEW p \in Paths, RecoverBase(p) PROVE Logged /\ Alive'
<1>1. UNCHANGED journal BY DEF RecoverBase, durable
<1>2. CASE UNCHANGED co BY <1>1, <1>2, StutterAlive
<1>3. ASSUME NEW found, found.remote \in Nat,
             co' = [Idle EXCEPT !.pc = "recover", !.path = p, !.op = RecoveredRow(p),
                                !.plan = RecoveryPlan(p, found).writes,
                                !.fallback = RecoveryPlan(p, found).fallback]
      PROVE  Alive'
  <2>1. /\ co'.pc = "recover" /\ co'.path = p /\ co'.op = ActiveByPath(p)
        /\ co'.plan = RecoveryPlan(p, found).writes /\ co'.fallback = RecoveryPlan(p, found).fallback
    BY <1>3 DEF Idle, RecoveredRow
  <2>2. ActiveByPath(p) # 0 => journal[p][ActiveByPath(p)].state \in ActiveStates
    BY DEF ActiveByPath, ActiveRows
  <2>3. Row' = journal[p][ActiveByPath(p)] BY <1>1, <2>1 DEF Row
  <2>4. co'.pc \notin RowLabels BY <2>1 DEF RowLabels, JobLabels
  <2> QED BY <1>3, <2>1, <2>2, <2>3, <2>4, PlannedAlive DEF Alive, HolderAlive
<1>4. Uninspected.remote \in Nat BY DEF Uninspected, Found
<1>5. Alive' BY <1>2, <1>3, <1>4, InspectedType, StutterAlive, <1>1 DEF RecoverBase
<1> QED BY <1>1, <1>5 DEF Logged

\* A write of a recovery moves the unfinished row of its base, or none.
LEMMA ApplyWriteAlive == ASSUME TypeInv, Serial, Alive, ApplyWrite PROVE Logged /\ Alive'
<1> DEFINE p == co.path
           write == Head(co.plan)
           rest == Tail(co.plan)
<1>1. /\ co \in Locals /\ p \in Paths /\ co.pc = "recover" /\ co.plan # <<>>
      /\ co.plan \in Seq(Writes)
  BY RepoType DEF ApplyWrite, Locals
<1>2. /\ EndsOnce(co.plan) /\ ~HasRows(co.fallback)
      /\ HasRows(co.plan) => co.op # 0 /\ Row.state \in ActiveStates
  BY <1>1 DEF Alive, HolderAlive
<1>3. /\ EndsOnce(rest) /\ (HasRows(rest) => HasRows(co.plan))
      /\ IsRow(write) =>
           /\ HasRows(co.plan) /\ write[2].state \in {"running"} \cup FinalStates
           /\ write[2].state # "running" => ~HasRows(rest)
  BY <1>1, <1>2, RestOfEnds
<1>4. "recover" \notin RowLabels BY DEF RowLabels, JobLabels
<1>5. ASSUME NEW next, NextWrite(next), EndsOnce(next),
             HasRows(next) => co.op # 0 /\ journal'[p][co.op].state \in ActiveStates
      PROVE  Alive'
  <2>1. CASE co' = Idle BY <2>1, ReleaseAlive DEF Release
  <2>2. CASE co' = [co EXCEPT !.plan = next]
    <3>1. /\ co'.pc = "recover" /\ co'.path = p /\ co'.op = co.op /\ co'.plan = next
          /\ co'.fallback = co.fallback
      BY <1>1, <2>2 DEF Locals
    <3>2. Row' = journal'[p][co.op] BY <3>1 DEF Row
    <3> QED BY <1>2, <1>4, <1>5, <3>1, <3>2 DEF Alive, HolderAlive
  <2> QED BY <1>5, <2>1, <2>2 DEF NextWrite
<1>6. \A next : ~HasRows(next) => EndsOnce(next) BY DEF HasRows, EndsOnce
<1>7. CASE write[1] = "journal" /\ WriteRow(p, co.op, write[2]) /\ NextWrite(rest)
  <2>1. co.op # 0 /\ Row.state \in ActiveStates BY <1>2, <1>3, <1>7 DEF IsRow
  <2>2. co.op \in Op(p) BY <1>1, <2>1, OpFacts DEF Serial, HolderLast
  <2>3. write[2].state \in {"running"} \cup FinalStates BY <1>3, <1>7 DEF IsRow
  <2> HIDE DEF write, rest, p
  <2>4. Rewritten BY <1>1, <1>7, <2>1, <2>2, <2>3 DEF Rewritten, Row, p
  <2>5. journal'[p][co.op] = write[2] BY <1>1, <1>7, <2>2, RowWrittenAt
  <2>6. HasRows(rest) => write[2].state \in ActiveStates BY <1>3, <1>7 DEF IsRow, ActiveStates
  <2>7. Alive' BY <1>3, <1>5, <1>7, <2>1, <2>5, <2>6
  <2> QED BY <2>4, <2>7 DEF Logged
<1>8. CASE UNCHANGED journal /\ NextWrite(rest)
  <2>1. HasRows(rest) => co.op # 0 /\ journal'[p][co.op].state \in ActiveStates
    BY <1>2, <1>3, <1>8 DEF Row
  <2>2. Alive' BY <1>3, <1>5, <1>8, <2>1
  <2> QED BY <1>8, <2>2 DEF Logged
<1>9. CASE UNCHANGED journal /\ NextWrite(IF write[1] = "journal" THEN co.fallback ELSE <<>>)
  <2> DEFINE next == IF write[1] = "journal" THEN co.fallback ELSE <<>>
  <2>1. ~HasRows(next)
    <3>1. DOMAIN <<>> = {} BY EmptySeq
    <3>2. ~HasRows(<<>>) BY <3>1 DEF HasRows
    <3> QED BY <1>2, <3>2
  <2> HIDE DEF next
  <2>2. NextWrite(next) BY <1>9 DEF next
  <2>3. Alive' BY <1>5, <1>6, <2>1, <2>2
  <2> QED BY <1>9, <2>3 DEF Logged
<1> QED BY <1>7, <1>8, <1>9 DEF ApplyWrite

-----------------------------------------------------------------------------
(* The process, and the theorem. *)

\* Recovery, a stop of the process, and what happens around it.
LEMMA ProcessAlive ==
  ASSUME TypeInv, Serial, Alive, RecoveryStep \/ Exit \/ Surroundings PROVE Logged /\ Alive'
<1> USE DEF durable, process, memory
<1>1. ASSUME Down, UNCHANGED journal PROVE Logged /\ Alive'
  BY <1>1, ReleaseAlive DEF Down, Release, Logged
<1>2. CASE ApplyWrite BY <1>2, ApplyWriteAlive
<1>3. CASE Serve
  <2>1. CASE Down BY <1>1, <1>3, <2>1 DEF Serve
  <2>2. CASE UNCHANGED co BY <1>3, <2>2, StutterAlive DEF Serve
  <2> QED BY <1>3, <2>1, <2>2 DEF Serve
<1>4. CASE \E p \in Paths : RecoverBase(p) BY <1>4, RecoverBaseAlive
<1>5. CASE Exit \/ Crash BY <1>1, <1>5 DEF Exit, Crash
<1>6. CASE Close \/ Boot BY <1>6, StutterAlive DEF Close, Boot
<1>7. CASE \E p \in Paths : NoteWrite(p) \/ OtherDevicePush(p)
  BY <1>7, StutterAlive DEF NoteWrite, OtherDevicePush
<1> QED BY <1>2, <1>3, <1>4, <1>5, <1>6, <1>7 DEF RecoveryStep, Surroundings

\* The coordinator is free at first.
LEMMA InitAlive == ASSUME Init PROVE Alive
<1>1. co.pc = "free" BY DEF Init, Idle
<1> QED BY <1>1 DEF Alive, HolderAlive, RowLabels, JobLabels

\* The induction step: an action at a time.
LEMMA AliveStep == ASSUME TypeInv, Serial, Alive, [Next]_vars PROVE Logged /\ Alive'
<1>1. CASE Requests BY <1>1, RequestsAlive
<1>2. CASE AdmissionStep BY <1>2, AdmissionAlive
<1>3. CASE TakeJob BY <1>3, TakeAlive
<1>4. CASE JobStep BY <1>4, JobAlive
<1>5. CASE RecoveryStep \/ Exit \/ Surroundings BY <1>5, ProcessAlive
<1>6. CASE UNCHANGED vars BY <1>6, StutterAlive DEF vars, durable
<1> QED BY <1>1, <1>2, <1>3, <1>4, <1>5, <1>6 DEF Next

\* The inductive invariant behind the refinement: a holder's row is unfinished
\* until its one write that ends it.
THEOREM AliveInvariant == Spec => []Alive
<1>1. Init => Alive BY InitAlive
<1>2. TypeInv /\ Serial /\ Alive /\ [Next]_vars => Alive' BY AliveStep
<1> QED BY <1>1, <1>2, TypesInvariant, SerialInvariant, PTL DEF Spec

\* The first journal is a log with no unfinished operation.
LEMMA InitLog == ASSUME Init PROVE Log!Init
<1>1. PICK cfg \in Configs :
        journal = [p \in Paths |-> IF p \in Connected THEN <<ConnectedRow(cfg)>> ELSE <<>>]
  BY DEF Init
<1>2. ASSUME NEW p \in Paths PROVE States(p) \in {<<>>, <<"succeeded">>}
  <2>1. CASE p \in Connected
    <3>1. journal[p] = <<ConnectedRow(cfg)>> BY <1>1, <2>1
    <3>2. Op(p) = {1} /\ journal[p][1].state = "succeeded" BY <3>1 DEF Op, ConnectedRow
    <3>3. States(p) = [i \in 1 .. 1 |-> "succeeded"] BY <3>2 DEF States
    <3> QED BY <3>3
  <2>2. CASE p \notin Connected
    <3>1. Op(p) = {} BY <1>1, <2>2 DEF Op
    <3> QED BY <3>1 DEF States
  <2> QED BY <2>1, <2>2
<1>3. Logs = [p \in Paths |-> States(p)] BY DEF Logs, States
<1> HIDE DEF Init
<1>4. Logs \in [Paths -> {<<>>, <<"succeeded">>}] BY <1>2, <1>3
<1> QED BY <1>4 DEF Log!Init, Logs

\* Whatever the order of requests, jobs, recoveries, crashes and failed writes, the
\* journal is the operation log its readers rely on: an operation enters it while no
\* other of its base is unfinished, ends once, and never changes after its end.
THEOREM ManagerImplementsLog == Spec => JournalIsLog
<1>1. Init => Log!Init BY InitLog
<1>2. TypeInv /\ TypeInv' /\ Serial /\ Alive /\ [Next]_vars => [Log!Next]_Logs BY AliveStep, LoggedSteps
<1> QED
  BY <1>1, <1>2, TypesInvariant, SerialInvariant, AliveInvariant, PTL
  DEF Spec, JournalIsLog, Log!Spec, Logs

-----------------------------------------------------------------------------
(* How the steps of a job go on. *)

\* The steps of a job that change neither the journal, the queue nor inFlight.
QuietStep ==
  \/ Preflight \/ Probe \/ CreateRepository \/ Fetch \/ Trust \/ OpenSnapshot \/ Commit
  \/ MergeNeeded \/ RunMerge \/ Push \/ Settle \/ VerifyCompletion \/ CommitMerge
  \/ SyncIndex \/ SaveConflictPushing \/ VerifyAbort \/ AbortMerge \/ Publish \/ Leave
  \/ Aborted \/ AbortStatus \/ Failed

\* The steps of a job from the first checkpoint to the write that ends its row.
RunLabels == JobLabels \ ({"stale"} \cup ReportLabels)

\* Such a step goes on to another, or a failed write strands the row.
Stranded == Release /\ (Fault \/ phase = "closing")
RunsOn ==
  /\ co'.pc \in RunLabels /\ co'.path = co.path /\ co'.op = co.op
  /\ co'.pc = "abort_journal" => AbortStatus

LEMMA SavingLabels ==
  /\ {"journal", "leave", "failed", "publish", "settle", "merge", "abort_status", "fail_journal"}
       \subseteq RunLabels \ {"abort_journal"}
  /\ Saved \cup Followers \subseteq RunLabels \ {"abort_journal"}
  /\ RunLabels \subseteq RowLabels /\ "abort_journal" \in RunLabels
BY DEF RunLabels, JobLabels, ReportLabels, Saved, Followers, Commands, RowLabels

LEMMA NextPc ==
  ASSUME co \in Locals
  PROVE  /\ \A ck, label : Save(ck, label) => co'.pc = "journal"
         /\ \A code : Fail(code) => co'.pc \in {"leave", "failed"}
         /\ \A label : Goto(label) => co'.pc = label
<1>1. ASSUME NEW ck, NEW label, Save(ck, label) PROVE co'.pc = "journal" BY <1>1 DEF Save, Locals
<1>2. ASSUME NEW code, Fail(code) PROVE co'.pc \in {"leave", "failed"} BY <1>2 DEF Fail, Locals
<1>3. ASSUME NEW label, Goto(label) PROVE co'.pc = label BY <1>3 DEF Goto, Locals
<1> QED BY <1>1, <1>2, <1>3

\* A checkpoint that is published goes on to the step it was saved for.
LEMMA PublishRuns == ASSUME TypeInv, Serial, Fence, Publish PROVE RunsOn
<1>0. co \in Locals BY RepoType
<1>1. Moves /\ co.pc \in RowLabels \ ReportLabels BY QuietMoves
<1>2. co.next \in Saved
  <2>1. co.pc = "publish" /\ co.pc \in RowLabels BY <1>1 DEF Publish
  <2> QED BY <2>1, JobKnows DEF HolderFenced, StepFenced
<1>3. co'.pc = co.next \/ co'.pc \in {"leave", "failed"} BY <1>0, NextPc DEF Publish, Locals
<1>4. co'.pc \in RunLabels \ {"abort_journal"} BY <1>2, <1>3, SavingLabels
<1> QED BY <1>1, <1>4, SavingLabels DEF Moves, RunsOn

LEMMA QuietRuns == ASSUME TypeInv, Serial, Fence, QuietStep PROVE Stranded \/ RunsOn
<1>0. co \in Locals BY RepoType
<1>1. Moves /\ co.pc \in RowLabels \ ReportLabels BY QuietMoves DEF QuietStep
<1>2. co'.pc \in RunLabels \ {"abort_journal"} => RunsOn BY <1>1, SavingLabels DEF Moves, RunsOn
<1>3. co'.pc = "journal" \/ co'.pc \in {"leave", "failed"} => RunsOn BY <1>2, SavingLabels
<1> USE <1>0, NextPc
<1>4. CASE Preflight
  <2>1. co'.pc = "journal" \/ co'.pc \in {"leave", "failed"} BY <1>4 DEF Preflight, Locals
  <2> QED BY <1>3, <2>1
<1>5. CASE Probe BY <1>3, <1>5 DEF Probe
<1>6. CASE CreateRepository
  <2>1. co'.pc = "journal" \/ co'.pc \in {"leave", "failed"} BY <1>6 DEF CreateRepository, FailsWith, Locals
  <2> QED BY <1>3, <2>1
<1>7. CASE Fetch BY <1>3, <1>7 DEF Fetch, FailsWith
<1>8. CASE Trust
  <2>1. co'.pc = "journal" \/ co'.pc \in {"leave", "failed"} BY <1>8 DEF Trust, NotMoved, Locals
  <2> QED BY <1>3, <2>1
<1>9. CASE OpenSnapshot
  <2>1. co'.pc = "journal" BY <1>9 DEF OpenSnapshot, Locals
  <2> QED BY <1>3, <2>1
<1>10. CASE Commit
  <2>1. co'.pc \in {"journal", "leave", "failed", "merge"}
    <3> DEFINE after == IF Repo.dirty THEN [NewCommit(Repo, Repo.history) EXCEPT !.dirty = FALSE] ELSE Repo
    <3>1. \/ co' = [co EXCEPT !.ck.local = after.head, !.pc = "merge"]
          \/ co' = [co EXCEPT !.ck = [At("snapshotting") EXCEPT !.local = after.head],
                                 !.pc = "journal", !.next = "leave"]
          \/ Fail("git_command_failed")
      BY <1>10 DEF Commit, FailsWith
    <3> HIDE DEF after
    <3> QED BY <3>1 DEF Locals
  <2> QED BY <1>2, <2>1, SavingLabels
<1>11. CASE MergeNeeded
  <2>1. co'.pc = "journal" BY <1>11 DEF MergeNeeded, SaveMerged, Locals
  <2> QED BY <1>3, <2>1
<1>12. CASE RunMerge
  <2>1. SaveMerged(MergeResult.head) \/ SaveConflict \/ Fail("git_command_failed") BY <1>12 DEF RunMerge
  <2>2. co'.pc = "journal" \/ co'.pc \in {"leave", "failed"} BY <2>1 DEF SaveMerged, SaveConflict, Locals
  <2> QED BY <1>3, <2>2
<1>13. CASE Push
  <2>1. Goto("settle") \/ Retry \/ Fail("git_command_failed") \/ Fail("push_rejected") BY <1>13 DEF Push, FailsWith
  <2>2. co'.pc \in {"settle", "journal", "leave", "failed"} BY <2>1 DEF Retry, Locals
  <2> QED BY <1>2, <2>2, SavingLabels
<1>14. CASE Settle
  <2>1. \/ co' = [co EXCEPT !.ck = SettledCheckpoint, !.tx = TRUE, !.after = "succeed_journal",
                                 !.pc = "journal", !.next = "leave"]
        \/ Save(SettledCheckpoint, "succeed_journal") \/ Fail("git_command_failed")
    BY <1>14 DEF Settle, NotMoved, FailsWith
  <2>2. co'.pc = "journal" \/ co'.pc \in {"leave", "failed"} BY <2>1 DEF Locals
  <2> QED BY <1>3, <2>2
<1>15. CASE VerifyCompletion \/ SyncIndex \/ SaveConflictPushing
  BY <1>3, <1>15 DEF VerifyCompletion, SyncIndex, SaveConflictPushing
<1>16. CASE CommitMerge
  <2> DEFINE after == [NewCommit(Repo, Repo.history \cup CandidateHistory)
                     EXCEPT !.merge = "none", !.mergeHead = 0]
  <2>1. \/ co' = [co EXCEPT !.ck = [At("conflict_committed") EXCEPT !.push = after.head],
                            !.tx = TRUE, !.after = "sync_index", !.pc = "journal", !.next = "leave"]
        \/ Fail("git_recovery_required")
    BY <1>16 DEF CommitMerge, FailsWith
  <2> HIDE DEF after
  <2>2. co'.pc = "journal" \/ co'.pc \in {"leave", "failed"} BY <2>1 DEF Locals
  <2> QED BY <1>3, <2>2
<1>17. CASE VerifyAbort
  <2>1. co'.pc = "journal" \/ co'.pc \in {"leave", "failed"} BY <1>17 DEF VerifyAbort, Locals
  <2> QED BY <1>3, <2>1
<1>18. CASE AbortMerge BY <1>3, <1>18 DEF AbortMerge, FailsWith
<1>19. CASE Publish BY <1>19, PublishRuns
<1>20. CASE Leave
  <2>1. co.pc = "leave" /\ co.pc \in RowLabels BY <1>20, <1>1 DEF Leave
  <2>2. co.err = NoError => co.after \in Followers
    BY <2>1, JobKnows DEF HolderFenced, StepFenced, Heading, Failing
  <2>3. \/ co' = AfterLeave
        \/ co' = [co EXCEPT !.tx = FALSE, !.pc = "failed", !.err = IF @ = NoError THEN "git_command_failed" ELSE @]
    BY <1>20 DEF Leave
  <2>4. co'.pc \in {"failed", "journal"} \/ (co.err = NoError /\ co'.pc = co.after)
    BY <2>3 DEF AfterLeave, Locals
  <2> QED BY <1>2, <2>2, <2>4, SavingLabels
<1>21. CASE Aborted
  <2>1. Strand => Release BY DEF Strand
  <2> QED BY <1>2, <1>21, <2>1, SavingLabels DEF Aborted, Interrupted, Stranded
<1>22. CASE AbortStatus
  <2>1. (Fault /\ Release) \/ Goto("abort_journal") BY <1>22 DEF AbortStatus
  <2>2. CASE Goto("abort_journal") BY <1>1, <1>22, <2>2, SavingLabels DEF Moves, RunsOn
  <2> QED BY <2>1, <2>2 DEF Stranded
<1>23. CASE Failed
  <2>1. co'.pc = "fail_journal" BY <1>23 DEF Failed, Locals
  <2> QED BY <1>2, <2>1, SavingLabels
<1> QED
  BY <1>4, <1>5, <1>6, <1>7, <1>8, <1>9, <1>10, <1>11, <1>12, <1>13, <1>14, <1>15, <1>16, <1>17,
     <1>18, <1>19, <1>20, <1>21, <1>22, <1>23 DEF QuietStep

-----------------------------------------------------------------------------
(* What the steps do to the queue, to a status and to the bounds. *)

LEMMA AppendedQueue ==
  ASSUME TypeInv, NEW job \in Jobs, queue' = Append(queue, job)
  PROVE  /\ \A k \in DOMAIN queue : k \in DOMAIN queue' /\ queue'[k] = queue[k]
         /\ \E k \in DOMAIN queue' : queue'[k] = job
         /\ \A k \in DOMAIN queue' : queue'[k] = job \/ (k \in DOMAIN queue /\ queue'[k] = queue[k])
<1>1. /\ Append(queue, job) \in Seq(Jobs) /\ Len(Append(queue, job)) = Len(queue) + 1
      /\ \A k \in 1 .. Len(queue) : Append(queue, job)[k] = queue[k]
      /\ Append(queue, job)[Len(queue) + 1] = job
  BY QueueFacts, AppendProperties
<1>2. DOMAIN queue' = 1 .. Len(queue) + 1 BY <1>1, LenProperties
<1>3. Len(queue) + 1 \in DOMAIN queue' BY <1>2, QueueFacts
<1> QED BY <1>1, <1>2, <1>3, QueueFacts

LEMMA TakenQueue ==
  ASSUME TypeInv, queue # <<>>, queue' = RestOfQueue
  PROVE  /\ 1 \in DOMAIN queue /\ Head(queue) = queue[1]
         /\ \A k \in DOMAIN queue' : \E j \in DOMAIN queue : j # 1 /\ queue'[k] = queue[j]
         /\ \A j \in DOMAIN queue : j # 1 => \E k \in DOMAIN queue' : queue'[k] = queue[j]
<1>1. /\ Tail(queue) \in Seq(Jobs) /\ Len(Tail(queue)) = Len(queue) - 1
      /\ \A k \in 1 .. Len(Tail(queue)) : Tail(queue)[k] = queue[k + 1]
  BY QueueFacts, HeadTailProperties
<1>2. DOMAIN Tail(queue) = 1 .. Len(queue) - 1 BY <1>1, LenProperties
<1>3. Len(queue) # 0 BY QueueFacts, EmptySeq
<1>4. 1 \in DOMAIN queue /\ Head(queue) = queue[1] BY <1>3, QueueFacts
<1>5. \A k \in DOMAIN queue' : k + 1 \in DOMAIN queue /\ k + 1 # 1 /\ queue'[k] = queue[k + 1]
  BY <1>1, <1>2, QueueFacts DEF RestOfQueue
<1>6. \A j \in DOMAIN queue : j # 1 => j - 1 \in DOMAIN queue' /\ queue'[j - 1] = queue[j]
  BY <1>1, <1>2, QueueFacts DEF RestOfQueue
<1> QED BY <1>4, <1>5, <1>6

LEMMA WithdrawnQueue ==
  ASSUME TypeInv, NEW k \in DOMAIN queue, queue' = Without(k)
  PROVE  /\ \A n \in DOMAIN queue' : \E j \in DOMAIN queue : j # k /\ queue'[n] = queue[j]
         /\ \A j \in DOMAIN queue : j # k => \E n \in DOMAIN queue' : queue'[n] = queue[j]
<1> DEFINE old(n) == IF n < k THEN n ELSE n + 1
           new(j) == IF j < k THEN j ELSE j - 1
<1>1. DOMAIN queue' = 1 .. Len(queue) - 1 /\ \A n \in DOMAIN queue' : queue'[n] = queue[old(n)]
  BY DEF Without
<1>2. \A n \in DOMAIN queue' : old(n) \in DOMAIN queue /\ old(n) # k BY <1>1, QueueFacts
<1>3. \A j \in DOMAIN queue : j # k => new(j) \in DOMAIN queue' /\ old(new(j)) = j BY <1>1, QueueFacts
<1> HIDE DEF old, new
<1> QED BY <1>1, <1>2, <1>3

\* A bound that is not used after a step was not used before it, nor by it.
LEMMA SpentSteps ==
  ASSUME TypeInv, [Next]_vars
  PROVE  \/ Fault \/ Stop
         \/ spent'.faults = spent.faults /\ spent'.stops = spent.stops
<1> USE DEF NoFault, Interrupted
<1>1. CASE Requests
  BY <1>1 DEF Requests, QueueSync, Resume, EnqueueResolve, Disable, QueueConflict, Configure, QueueInitialize,
     ChangeStatus
<1>2. CASE AdmissionStep
  BY <1>2 DEF AdmissionStep, RefreshQueued, AdmitSync, AdmitInitialize, Admit, AdmitResume, CreateResumed,
     Rollback, AdmitStatus, Undo, SaveConfig, RestoreStatus
<1>3. CASE TakeJob BY <1>3 DEF TakeJob, Begin, ResolveConflict
<1>4. CASE JobStep
  <2> USE DEF CommandFrame
  <2>1. CASE FinishStale \/ Abandon \/ Checkpoint \/ Publish \/ Leave \/ Preflight \/ Probe \/ CreateRepository
    BY <2>1 DEF FinishStale, Abandon, Checkpoint, Publish, Leave, Preflight, Probe, CreateRepository
  <2>2. CASE Fetch \/ Trust \/ OpenSnapshot \/ Commit \/ MergeNeeded \/ RunMerge \/ Push \/ Settle
    BY <2>2 DEF Fetch, Trust, OpenSnapshot, Commit, MergeNeeded, RunMerge, Push, Settle, NotMoved
  <2>3. CASE VerifyCompletion \/ CommitMerge \/ SyncIndex \/ SaveConflictPushing \/ VerifyAbort \/ AbortMerge
    BY <2>3 DEF VerifyCompletion, CommitMerge, SyncIndex, SaveConflictPushing, VerifyAbort, AbortMerge
  <2>4. CASE Aborted \/ AbortStatus \/ AbortJournal \/ SucceedJournal \/ SucceedStatus \/ Failed \/ FailJournal
             \/ FailStatus
    BY <2>4 DEF Aborted, AbortStatus, AbortJournal, SucceedJournal, SucceedStatus, Failed, FailJournal,
       FailStatus, FinishRow
  <2> QED BY <1>4, <2>1, <2>2, <2>3, <2>4 DEF JobStep
<1>5. CASE RecoveryStep BY <1>5 DEF RecoveryStep, ApplyWrite, Serve, RecoverBase
<1>6. CASE Exit \/ Close \/ Crash \/ Boot BY <1>6 DEF Exit, Close, Crash, Boot
<1>7. CASE \E p \in Paths : NoteWrite(p) \/ OtherDevicePush(p)
  BY <1>7 DEF NoteWrite, OtherDevicePush, TypeInv, TypeOK
<1>8. CASE UNCHANGED vars BY <1>8 DEF vars
<1> QED BY <1>1, <1>2, <1>3, <1>4, <1>5, <1>6, <1>7, <1>8 DEF Next, Surroundings

LEMMA StopsGrow ==
  ASSUME TypeInv, [Next]_vars, spent'.stops = 0
  PROVE  spent.stops = 0 /\ ~Stop
<1>1. spent.stops \in Nat /\ spent.faults \in Nat BY DEF TypeInv, TypeOK
<1>2. Stop => spent'.stops = spent.stops + 1 BY <1>1 DEF Stop, TypeInv, TypeOK
<1>3. Fault => spent'.stops = spent.stops BY <1>1 DEF Fault, TypeInv, TypeOK
<1> QED BY <1>1, <1>2, <1>3, SpentSteps

LEMMA FaultsGrow ==
  ASSUME TypeInv, [Next]_vars, spent'.faults = 0
  PROVE  spent.faults = 0 /\ ~Fault
<1>1. spent.stops \in Nat /\ spent.faults \in Nat BY DEF TypeInv, TypeOK
<1>2. Stop => spent'.faults = spent.faults BY <1>1 DEF Stop, TypeInv, TypeOK
<1>3. Fault => spent'.faults = spent.faults + 1 BY <1>1 DEF Fault, TypeInv, TypeOK
<1> QED BY <1>1, <1>2, <1>3, SpentSteps

-----------------------------------------------------------------------------
(* The breaker. *)

Within(s) == s.failures < PauseThreshold
Calm(s) == Within(s) \/ s.state = "paused"
CountedWrites == {w \in Writes : IsStatusWrite(w) => Within(w[2])}
\* The steps between a status that a request replaces and the end of that request.
Withdrawing == {"create_resumed", "rollback", "admit_status", "undo", "save_config", "restore_status"}

HolderCounted ==
  /\ co.pc \in RowLabels \cup {"create_resumed"} => Within(status[co.path])
  /\ co.pc = "recover" => co.plan \in Seq(CountedWrites) /\ co.fallback \in Seq(CountedWrites)
  /\ co.pc \notin JobLabels =>
       Within(co.prev) \/ (co.pc \in Withdrawing /\ co.prev.state = "paused" /\ NoneWaits(co.path))
Counted ==
  /\ phase # "closing"
  /\ \A p \in Paths : Calm(status[p])
  /\ phase \in {"down", "recovering"} => \A p \in Paths : Within(status[p])
  /\ \A k \in DOMAIN queue : queue[k].op # 0 => Within(status[queue[k].path])
  /\ HolderCounted

\* The inductive invariant.
Breaker == spent.stops = 0 => Counted

LEMMA CountedStep ==
  ASSUME TypeInv, Counted, phase' # "closing",
         phase' \in {"down", "recovering"} => phase \in {"down", "recovering"},
         \A q \in Paths : \/ status'[q] = status[q] \/ Within(status'[q])
                          \/ Calm(status'[q]) /\ NoneWaits(q) /\ phase' \notin {"down", "recovering"},
         \A k \in DOMAIN queue' : queue'[k].op # 0 =>
           (\E j \in DOMAIN queue : queue'[k] = queue[j]) \/ (queue'[k].path \in Paths /\ Within(status'[queue'[k].path])),
         HolderCounted'
  PROVE  Counted'
<1>1. \A q \in Paths : Calm(status'[q]) BY DEF Counted, Calm
<1>2. phase' \in {"down", "recovering"} => \A q \in Paths : Within(status'[q]) BY DEF Counted
<1>3. ASSUME NEW k \in DOMAIN queue', queue'[k].op # 0 PROVE Within(status'[queue'[k].path])
  <2>1. SUFFICES ASSUME NEW j \in DOMAIN queue, queue'[k] = queue[j] PROVE Within(status'[queue[j].path])
    BY <1>3
  <2>2. queue[j].path \in Paths /\ ~NoneWaits(queue[j].path) BY <1>3, <2>1, QueueFacts DEF NoneWaits
  <2>3. Within(status[queue[j].path]) BY <1>3, <2>1 DEF Counted
  <2> QED BY <2>2, <2>3
<1> QED BY <1>1, <1>2, <1>3 DEF Counted

\* A step that leaves the queue and the process.
LEMMA CountedWrite ==
  ASSUME TypeInv, Counted, UNCHANGED <<phase, queue>>, NEW p,
         \A q \in Paths : q # p => status'[q] = status[q],
         \/ status'[p] = status[p] \/ Within(status'[p])
         \/ Calm(status'[p]) /\ NoneWaits(p) /\ phase \notin {"down", "recovering"},
         HolderCounted'
  PROVE  Counted'
BY CountedStep DEF Counted

LEMMA IdleCounted == ASSUME co'.pc \in {"free", "save_config", "restore_status", "refresh"} \cup AdmissionLabels, co'.prev = NoStatus PROVE HolderCounted'
BY PauseThresholdAssumption DEF HolderCounted, Within, NoStatus, RowLabels, JobLabels, AdmissionLabels

LEMMA ReleaseCounted == ASSUME Release PROVE HolderCounted'
<1>1. co'.pc = "free" /\ co'.prev = NoStatus BY DEF Release, Idle
<1> QED BY <1>1, IdleCounted

\* What an outcome does to the failures of a base.
LEMMA AppliedFailures ==
  ASSUME TypeInv, NEW p \in Paths, NEW s \in Statuses, NEW action \in FailureActions, applyStatus(p, s, action)
  PROVE  /\ \A q \in Paths : q # p => status'[q] = status[q]
         /\ action = "reset" => Within(status'[p])
         /\ action # "increment" /\ Within(status[p]) => Within(status'[p])
         /\ Within(status[p]) => Calm(status'[p])
<1> DEFINE n == status[p].failures
<1>1. /\ status'[p] = ApplyTransition(status[p], s, action) /\ n \in Nat
      /\ \A q \in Paths : q # p => status'[q] = status[q]
  BY DEF applyStatus, TypeInv, TypeOK, Statuses
<1>2. /\ ApplyTransition(status[p], s, action).failures = NextFailures(n, action)
      /\ ApplyTransition(status[p], s, action).state = NextState(s.state, n, action)
  BY DEF ApplyTransition, Statuses
<1> HIDE DEF n
<1>3. PauseThreshold \in Nat \ {0} BY PauseThresholdAssumption
<1>4. CASE action = "reset" BY <1>1, <1>2, <1>3, <1>4 DEF Within, Calm, NextFailures
<1>5. CASE action = "preserve" BY <1>1, <1>2, <1>3, <1>5 DEF Within, Calm, NextFailures, n
<1>6. CASE action = "increment"
  <2>1. n + 1 < PauseThreshold \/ n + 1 >= PauseThreshold BY <1>1, <1>3
  <2> QED BY <1>1, <1>2, <1>3, <1>6, <2>1 DEF Within, Calm, NextFailures, NextState
<1> QED BY <1>1, <1>4, <1>5, <1>6 DEF FailureActions

\* A checkpoint and a finished abort leave the count as it is.
LEMMA QuietKeeps ==
  ASSUME TypeInv, QuietStep, Within(status[co.path])
  PROVE  Within(status'[co.path]) /\ \A q \in Paths : q # co.path => status'[q] = status[q]
<1>1. co \in Locals /\ co.path \in Paths /\ co.op \in Nat BY RepoType DEF Locals
<1>2. "preserve" \in FailureActions BY DEF FailureActions
<1>3. CASE UNCHANGED status BY <1>3
<1>4. CASE Publish /\ applyStatus(co.path, WorkingStatus(co.path, co.op, JobState, co.ck.remote), "preserve")
  <2> DEFINE s == WorkingStatus(co.path, co.op, JobState, co.ck.remote)
  <2>1. JobState \in GitStates BY DEF JobState, GitStates, WorkingState
  <2>2. co.ck.remote \in Nat BY RepoType DEF Checkpoints, Oids
  <2>3. s \in Statuses BY <1>1, <2>1, <2>2, WorkingStatusType
  <2> HIDE DEF s
  <2> QED BY <1>1, <1>2, <1>4, <2>3, AppliedFailures DEF s
<1>5. CASE /\ AbortStatus
           /\ applyStatus(co.path, [status[co.path] EXCEPT !.state = "paused", !.op = co.op, !.remote = Row.remote],
                          "preserve")
  <2> DEFINE s == [status[co.path] EXCEPT !.state = "paused", !.op = co.op, !.remote = Row.remote]
  <2>1. "paused" \in GitStates BY DEF GitStates
  <2>2. Row.remote \in Nat
    <3>1. co.pc \in RowLabels BY <1>5 DEF AbortStatus, RowLabels, JobLabels
    <3> QED BY <3>1, RowType DEF Rows, Oids
  <2>3. status[co.path] \in Statuses BY <1>1 DEF TypeInv, TypeOK
  <2>4. s \in Statuses BY <1>1, <2>1, <2>2, <2>3, Zenon DEF Statuses, Oids
  <2> HIDE DEF s
  <2> QED BY <1>1, <1>2, <1>5, <2>4, AppliedFailures DEF s
<1>6. \/ UNCHANGED status
      \/ Publish /\ applyStatus(co.path, WorkingStatus(co.path, co.op, JobState, co.ck.remote), "preserve")
      \/ /\ AbortStatus
         /\ applyStatus(co.path, [status[co.path] EXCEPT !.state = "paused", !.op = co.op, !.remote = Row.remote],
                          "preserve")
  <2>1. CASE Publish \/ AbortStatus BY <2>1 DEF Publish, AbortStatus
  <2> USE DEF CommandFrame, RepoFrame
  <2>2. CASE Preflight \/ Probe \/ CreateRepository \/ Fetch \/ Trust \/ OpenSnapshot \/ Commit \/ MergeNeeded
    BY <2>2 DEF Preflight, Probe, CreateRepository, Fetch, Trust, OpenSnapshot, Commit, MergeNeeded
  <2>3. CASE RunMerge \/ Push \/ Settle \/ VerifyCompletion \/ CommitMerge \/ SyncIndex \/ SaveConflictPushing
    BY <2>3 DEF RunMerge, Push, Settle, VerifyCompletion, CommitMerge, SyncIndex, SaveConflictPushing
  <2>4. CASE VerifyAbort \/ AbortMerge \/ Leave \/ Aborted \/ Failed
    BY <2>4 DEF VerifyAbort, AbortMerge, Leave, Aborted, Failed
  <2> QED BY <2>1, <2>2, <2>3, <2>4 DEF QuietStep
<1> QED BY <1>3, <1>4, <1>5, <1>6

\* A job that goes on has the count it was taken with.
LEMMA RunningCounted ==
  ASSUME co'.pc \in JobLabels, Within(status'[co'.path]) PROVE HolderCounted'
BY DEF HolderCounted, JobLabels

LEMMA JobCounted == ASSUME TypeInv, Serial, Fence, Counted, JobStep PROVE Counted'
<1> DEFINE p == co.path
<1>0. /\ co.pc \in RowLabels /\ co.pc \notin {"free", "recover"} /\ p \in Paths /\ co \in Locals
      /\ Within(status[p]) /\ NoneWaits(p) /\ phase \notin {"down", "recovering"}
  <2>1. co.pc \in JobLabels
    BY QuietMoves DEF JobStep, FinishStale, Abandon, Checkpoint, AbortJournal, SucceedJournal, SucceedStatus,
       FailJournal, FailStatus, JobLabels, Publish, Leave, Preflight, Probe, CreateRepository, Fetch, Trust,
       OpenSnapshot, Commit, MergeNeeded, RunMerge, Push, Settle, VerifyCompletion, CommitMerge, SyncIndex,
       SaveConflictPushing, VerifyAbort, AbortMerge, Aborted, AbortStatus, Failed
  <2>2. co.pc \in RowLabels /\ co.pc \notin {"free", "recover"} BY <2>1 DEF RowLabels, JobLabels
  <2> QED BY <2>2, RepoType, ServingPc DEF Counted, HolderCounted, Serial, HolderLast
<1> HIDE DEF p
<1>1. CASE QuietStep
  <2>1. /\ Within(status'[p]) /\ \A q \in Paths : q # p => status'[q] = status[q]
        /\ UNCHANGED <<phase, queue>>
    BY <1>0, <1>1, QuietKeeps, QuietMoves DEF p, QuietStep
  <2>2. HolderCounted'
    <3>1. CASE Stranded BY <3>1, ReleaseCounted DEF Stranded
    <3>2. CASE RunsOn
      <4>1. co'.pc \in JobLabels /\ co'.path = p BY <3>2 DEF RunsOn, RunLabels, p
      <4> QED BY <2>1, <4>1, RunningCounted
    <3> QED BY <1>1, <3>1, <3>2, QuietRuns
  <2> QED BY <2>1, <2>2, CountedWrite
<1>2. CASE FinishStale \/ Abandon \/ AbortJournal
  <2>1. Release /\ UNCHANGED <<phase, queue, status>>
    BY <1>2 DEF FinishStale, Abandon, AbortJournal, WorkerFrame, durable, process, memory
  <2> QED BY <2>1, ReleaseCounted, CountedWrite
<1>3. CASE Checkpoint \/ SucceedJournal \/ FailJournal
  <2>1. UNCHANGED <<phase, queue, status>>
    BY <1>3 DEF Checkpoint, SucceedJournal, FailJournal, WorkerFrame, process, MemoryFrame
  <2>2. co'.pc \in JobLabels /\ co'.path = p
    <3>1. \/ \E label \in {"publish", "succeed_status", "fail_status"} : Goto(label)
          \/ Fail("git_command_failed")
      BY <1>3 DEF Checkpoint, SucceedJournal, FailJournal, FinishRow
    <3>2. co'.pc \in {"publish", "succeed_status", "fail_status", "leave", "failed"}
      BY <1>0, <3>1, NextPc
    <3>3. co'.pc \in JobLabels BY <3>2 DEF JobLabels
    <3>4. co'.path = co.path
      <4>1. {"publish", "succeed_status", "fail_status"} \subseteq Labels BY DEF Labels, RowLabels, JobLabels
      <4>2. "git_command_failed" \in ErrorCodes BY CodeTypes
      <4> QED BY <1>0, <3>1, <4>1, <4>2, GotoType, FailType
    <3> QED BY <3>3, <3>4 DEF p
  <2> QED BY <1>0, <2>1, <2>2, RunningCounted, CountedWrite
<1>4. CASE SucceedStatus
  <2> DEFINE s == [status[p] EXCEPT !.state = "ready", !.op = co.op, !.remote = Result.remote]
  <2>1. Release /\ UNCHANGED <<phase, queue>> /\ (UNCHANGED status \/ applyStatus(p, s, "reset"))
    BY <1>4 DEF SucceedStatus, WorkerFrame, MemoryFrame, process, p
  <2>2. s \in Statuses
    <3>1. Result.remote \in Nat /\ co.op \in Nat /\ status[p] \in Statuses
      BY <1>0, RepoType DEF Result, Checkpoints, Oids, Locals, TypeInv, TypeOK
    <3>2. "ready" \in GitStates BY DEF GitStates
    <3> QED BY <3>1, <3>2, Zenon DEF Statuses, Oids
  <2> HIDE DEF s
  <2>3. "reset" \in FailureActions BY DEF FailureActions
  <2>4. CASE UNCHANGED status BY <2>1, <2>4, ReleaseCounted, CountedWrite
  <2>5. CASE applyStatus(p, s, "reset")
    <3>1. Within(status'[p]) /\ \A q \in Paths : q # p => status'[q] = status[q]
      BY <1>0, <2>2, <2>3, <2>5, AppliedFailures
    <3> QED BY <2>1, <3>1, ReleaseCounted, CountedWrite
  <2> QED BY <2>1, <2>4, <2>5
<1>5. CASE FailStatus
  <2> DEFINE outcome == ClassifyGitOutcome(Kind, FailedState, status[p].state, co.err)
             s == [status[p] EXCEPT !.state = outcome.state, !.op = co.op, !.remote = FailedOID(status[p])]
  <2>1. Release /\ UNCHANGED <<phase, queue>> /\ (UNCHANGED status \/ applyStatus(p, s, outcome.failures))
    BY <1>5 DEF FailStatus, WorkerFrame, MemoryFrame, process, p
  <2>2. outcome.state \in GitStates /\ outcome.failures \in FailureActions BY ClassifyType
  <2> HIDE DEF outcome
  <2>3. s \in Statuses
    <3>1. FailedOID(status[p]) \in Nat /\ co.op \in Nat /\ status[p] \in Statuses
      BY <1>0, RowType DEF FailedOID, Keep, Rows, Statuses, Locals, Results, Oids, TypeInv, TypeOK
    <3> QED BY <2>2, <3>1, Zenon DEF Statuses, Oids
  <2> HIDE DEF s
  <2>4. CASE UNCHANGED status BY <2>1, <2>4, ReleaseCounted, CountedWrite
  <2>5. CASE applyStatus(p, s, outcome.failures)
    <3>1. Calm(status'[p]) /\ \A q \in Paths : q # p => status'[q] = status[q]
      BY <1>0, <2>2, <2>3, <2>5, AppliedFailures
    <3> QED BY <1>0, <2>1, <3>1, ReleaseCounted, CountedWrite
  <2> QED BY <2>1, <2>4, <2>5
<1> QED BY <1>1, <1>2, <1>3, <1>4, <1>5 DEF JobStep, QuietStep

-----------------------------------------------------------------------------
(* Requests, admissions and settings changes. *)

\* An admission that has made its row.
LEMMA CreateCounted ==
  ASSUME TypeInv, Counted, UNCHANGED <<phase, queue, status>>, NEW p \in Paths, NEW row \in Rows, Create(p, row),
         Within(status[p]), Within(co.prev) \/ (p = co.path /\ co.pc = "create_resumed")
  PROVE  Counted'
<1>1. co'.pc = "admit_status" /\ co'.path = p /\ co'.prev = co.prev
  <2>1. "admit_status" \in Labels /\ Len(journal[p]) + 1 \in Nat BY OpFacts DEF Labels, RowLabels
  <2> QED BY <2>1, RepoType, Zenon DEF Create, Locals
<1>2. Within(co.prev) \/ (co.prev.state = "paused" /\ NoneWaits(p))
  BY DEF Counted, HolderCounted, JobLabels
<1>3. NoneWaits(p)' = NoneWaits(p) BY DEF NoneWaits
<1>4. HolderCounted' BY <1>1, <1>2, <1>3 DEF HolderCounted, Withdrawing
<1> QED BY <1>4, CountedWrite

LEMMA RequestCounted ==
  ASSUME TypeInv, Counted, UNCHANGED <<phase, queue, status>>, NEW p \in Paths, NEW label \in AdmissionLabels,
         NEW cfg \in Configs \cup {NoConfig}, Request(p, label, cfg)
  PROVE  Counted'
<1>1. co'.pc \in {label, "refresh"} /\ co'.prev = NoStatus BY DEF Request, Idle
<1>2. HolderCounted' BY <1>1, IdleCounted
<1> QED BY <1>2, CountedWrite

\* A settings change replaces a paused status only while no job of its base waits.
LEMMA ChangeStatusCounted == ASSUME TypeInv, Counted, NEW p \in Paths, NEW cfg, ChangeStatus(p, cfg) PROVE Counted'
<1>1. UNCHANGED <<phase, queue>> BY DEF ChangeStatus, process, memory
<1>2. PICK label \in {"save_config", "restore_status"} : Changing(p, cfg, label) BY DEF ChangeStatus
<1>3. co'.pc = label /\ co'.path = p /\ co'.prev = status[p] BY <1>2 DEF Changing, Idle
<1>4. status' = [status EXCEPT ![p] = NewStatus(p, cfg)] \/ UNCHANGED status BY DEF ChangeStatus
<1>5. /\ \A q \in Paths : q # p => status'[q] = status[q]
      /\ status'[p] = status[p] \/ status'[p] = NewStatus(p, cfg)
  BY <1>4 DEF TypeInv, TypeOK
<1>6. Within(NewStatus(p, cfg)) BY PauseThresholdAssumption DEF NewStatus, NoStatus, Within
<1>7. Within(status[p]) \/ (status[p].state = "paused" /\ NoneWaits(p)')
  BY <1>1 DEF Counted, Calm, NoneWaits
<1>8. HolderCounted' BY <1>3, <1>7 DEF HolderCounted, Withdrawing, RowLabels, JobLabels
<1> QED BY <1>1, <1>5, <1>6, <1>8, CountedWrite

LEMMA RequestsCounted == ASSUME TypeInv, Serial, Fence, Counted, Requests PROVE Counted'
<1> USE DEF durable, process, memory
<1>0. \A p \in Paths : config[p] \in Configs \cup {NoConfig} BY DEF TypeInv, TypeOK
<1>1. ASSUME NEW p \in Paths, QueueSync(p) \/ Resume(p) PROVE Counted'
  <2>1. /\ \E label \in AdmissionLabels : Request(p, label, config[p])
        /\ UNCHANGED <<phase, queue, status>>
    BY <1>1 DEF QueueSync, Resume, AdmissionLabels
  <2> QED BY <1>0, <2>1, RequestCounted
<1>2. ASSUME NEW p \in Paths, NEW cfg \in Configs, QueueInitialize(p, cfg) PROVE Counted'
  <2>1. Request(p, "admit_initialize", cfg) \/ UNCHANGED co BY <1>2 DEF QueueInitialize
  <2>2. UNCHANGED <<phase, queue, status>> BY <1>2 DEF QueueInitialize
  <2>3. CASE Request(p, "admit_initialize", cfg)
    <3>1. "admit_initialize" \in AdmissionLabels /\ cfg \in Configs \cup {NoConfig} BY DEF AdmissionLabels
    <3> QED BY <2>2, <2>3, <3>1, RequestCounted
  <2>4. CASE UNCHANGED co
    <3>1. HolderCounted' BY <2>2, <2>4 DEF Counted, HolderCounted, NoneWaits
    <3> QED BY <2>2, <3>1, CountedWrite
  <2> QED BY <2>1, <2>3, <2>4
<1>3. ASSUME NEW p \in Paths, NEW kind \in ConflictKinds, QueueConflict(p, kind) PROVE Counted'
  <2>1. UNCHANGED <<phase, queue, status>> /\ co.pc = "free" /\ status[p].state = "conflict"
    BY <1>3 DEF QueueConflict, Free, currentConflictOperation
  <2>2. CASE UNCHANGED co
    <3>1. HolderCounted' BY <2>1, <2>2 DEF Counted, HolderCounted, NoneWaits
    <3> QED BY <2>1, <3>1, CountedWrite
  <2>3. ASSUME NEW row \in Rows, Create(p, row) PROVE Counted'
    <3>1. Within(status[p]) BY <2>1 DEF Counted, Calm
    <3>2. Within(co.prev) BY <2>1 DEF Counted, HolderCounted, Withdrawing, JobLabels
    <3> QED BY <2>1, <2>3, <3>1, <3>2, CreateCounted
  <2>4. UNCHANGED co \/ \E row \in Rows : Create(p, row)
    <3> DEFINE o == currentConflictOperation(p)
               row == QueuedRow(kind, journal[p][o].cfg, CheckpointOf(journal[p][o]))
    <3>1. UNCHANGED co \/ (o # 0 /\ Create(p, row)) BY <1>3 DEF QueueConflict
    <3>2. ASSUME o # 0 PROVE row \in Rows
      <4>1. o \in Op(p)
        BY <3>2 DEF currentConflictOperation
      <4>2. journal[p][o] \in Rows BY <4>1, RowAt
      <4> HIDE DEF o
      <4>3. CheckpointOf(journal[p][o]) \in Checkpoints /\ journal[p][o].cfg \in Configs \cup {NoConfig}
        BY <4>2 DEF CheckpointOf, Checkpoints, Rows
      <4>4. kind \in OperationKinds BY DEF ConflictKinds, OperationKinds
      <4> QED BY <4>3, <4>4, QueuedRowType
    <3> QED BY <3>1, <3>2
  <2> QED BY <2>2, <2>3, <2>4
<1>4. ASSUME NEW p \in Paths, EnqueueResolve(p) PROVE Counted'
  <2> DEFINE job == [path |-> p, op |-> 0, cfg |-> NoConfig]
  <2>1. UNCHANGED <<phase, status, co>> /\ queue' = Append(queue, job) /\ job \in Jobs /\ job.op = 0
    BY <1>4 DEF EnqueueResolve, Jobs
  <2> HIDE DEF job
  <2>2. \A k \in DOMAIN queue' : queue'[k].op # 0 => k \in DOMAIN queue /\ queue'[k] = queue[k]
    BY <2>1, AppendedQueue
  <2>3. NoneWaits(co.path) => NoneWaits(co.path)' BY <2>1, <2>2 DEF NoneWaits
  <2>4. HolderCounted' BY <2>1, <2>3 DEF Counted, HolderCounted
  <2> QED BY <2>1, <2>2, <2>4, CountedStep DEF Counted
<1> QED BY <1>1, <1>2, <1>3, <1>4, ChangeStatusCounted DEF Requests, Configure, Disable

\* A request that ends, or that turns to what it has to take back.
LEMMA EndCounted == ASSUME TypeInv, Counted, UNCHANGED <<phase, queue, status>>, Release PROVE Counted'
BY ReleaseCounted, CountedWrite

LEMMA BackCounted ==
  ASSUME TypeInv, Counted, UNCHANGED <<phase, queue, status>>, NEW label \in {"rollback", "undo", "restore_status"},
         Goto(label), co.pc \in Withdrawing, label = "undo" => co.pc = "admit_status"
  PROVE  Counted'
<1>1. co'.pc = label /\ co'.path = co.path /\ co'.prev = co.prev BY RepoType DEF Goto, Locals
<1>2. co.pc \notin JobLabels BY DEF Withdrawing, JobLabels
<1>3. Within(co.prev) \/ (co.prev.state = "paused" /\ NoneWaits(co.path)) BY <1>2 DEF Counted, HolderCounted
<1>4. label = "undo" => Within(status[co.path]) BY DEF Counted, HolderCounted, RowLabels
<1>5. HolderCounted' BY <1>1, <1>3, <1>4 DEF HolderCounted, Withdrawing, RowLabels, JobLabels, NoneWaits
<1> QED BY <1>5, CountedWrite

\* The status a request has replaced comes back to a base whose jobs are as they were.
LEMMA RestoredCounted ==
  ASSUME TypeInv, Serial, Counted, UNCHANGED <<phase, queue>>, Release, co.pc \in {"rollback", "restore_status"},
         status' = [status EXCEPT ![co.path] = co.prev] \/ UNCHANGED status
  PROVE  Counted'
<1>1. co.path \in Paths BY RepoType
<1>2. co.pc \in Withdrawing /\ co.pc \notin JobLabels /\ co.pc \notin {"free", "recover"}
  BY DEF Withdrawing, JobLabels
<1>3. Within(co.prev) \/ (Calm(co.prev) /\ NoneWaits(co.path)) BY <1>2 DEF Counted, HolderCounted, Calm
<1>4. /\ \A q \in Paths : q # co.path => status'[q] = status[q]
      /\ status'[co.path] = status[co.path] \/ status'[co.path] = co.prev
  BY <1>1 DEF TypeInv, TypeOK
<1> QED BY <1>1, <1>2, <1>3, <1>4, ServingPc, ReleaseCounted, CountedWrite

LEMMA RefreshCounted == ASSUME TypeInv, Serial, Counted, RefreshQueued PROVE Counted'
<1>1. UNCHANGED <<phase, status>> /\ co.pc = "refresh" BY DEF RefreshQueued, process
<1>2. CASE Release /\ UNCHANGED queue BY <1>1, <1>2, EndCounted
<1>3. CASE Goto(co.next) /\ \E k \in StaleJobs(co.path) : queue' = Without(k)
  <2>1. PICK k \in StaleJobs(co.path) : queue' = Without(k) BY <1>3
  <2>2. k \in DOMAIN queue BY DEF StaleJobs
  <2>3. co'.pc \in AdmissionLabels /\ co'.prev = co.prev BY <1>1, <1>3, RepoType DEF TypeInv, RowsExist, Goto, Locals
  <2>4. Within(co.prev) BY <1>1 DEF Counted, HolderCounted, Withdrawing, JobLabels
  <2>5. HolderCounted' BY <2>3, <2>4 DEF HolderCounted, AdmissionLabels, RowLabels, JobLabels
  <2>6. \A n \in DOMAIN queue' : \E j \in DOMAIN queue : queue'[n] = queue[j] BY <2>1, <2>2, WithdrawnQueue
  <2> QED BY <1>1, <2>5, <2>6, CountedStep DEF Counted
<1> QED BY <1>2, <1>3 DEF RefreshQueued

LEMMA AdmitCounted ==
  ASSUME TypeInv, Serial, Counted, NEW kind \in OperationKinds, NEW label \in AdmissionLabels, Admit(kind, label)
  PROVE  Counted'
<1> DEFINE p == co.path
           row == QueuedRow(kind, co.cfg, EmptyCheckpoint(TrustedOrEmpty(p)))
<1>0. p \in Paths /\ row \in Rows
  BY RepoType, TrustType, QueuedRowType, EmptyCheckpointType DEF Locals
<1>1. UNCHANGED <<phase, queue, status>> /\ co.pc \in AdmissionLabels BY DEF Admit, process
<1>2. CASE Release BY <1>1, <1>2, EndCounted
<1>3. CASE Create(p, row) /\ status[p].state # "paused"
  <2>1. Within(status[p]) BY <1>0, <1>3 DEF Counted, Calm
  <2>2. Within(co.prev) BY <1>1 DEF Counted, HolderCounted, Withdrawing, JobLabels, AdmissionLabels
  <2> QED BY <1>0, <1>1, <1>3, <2>1, <2>2, CreateCounted
<1> HIDE DEF row
<1> QED BY <1>2, <1>3 DEF Admit, row

LEMMA AdmitResumeCounted == ASSUME TypeInv, Serial, Counted, AdmitResume PROVE Counted'
<1> DEFINE p == co.path
           s == [status[p] EXCEPT !.state = "ready", !.op = 0]
<1>0. p \in Paths /\ co \in Locals /\ co.pc = "admit_resume" BY RepoType DEF AdmitResume
<1>1. UNCHANGED <<phase, queue>> BY DEF AdmitResume, process
<1>2. CASE Release /\ UNCHANGED status BY <1>1, <1>2, EndCounted
<1>3. CASE /\ Serving /\ inFlight[p] = 0 /\ status[p].state = "paused" /\ applyStatus(p, s, "reset")
           /\ co' = [co EXCEPT !.pc = "create_resumed", !.resumed = TRUE, !.prev = status[p]]
  <2>1. "ready" \in GitStates /\ "reset" \in FailureActions BY DEF GitStates, FailureActions
  <2>2. s \in Statuses BY <1>0, <2>1, StatusExceptType
  <2> HIDE DEF s
  <2>3. Within(status'[p]) /\ \A q \in Paths : q # p => status'[q] = status[q]
    BY <1>0, <1>3, <2>1, <2>2, AppliedFailures
  <2>4. NoneWaits(p) BY <1>0, <1>3, FreeNoneWaits DEF Serial
  <2>5. co'.pc = "create_resumed" /\ co'.path = p /\ co'.prev = status[p] BY <1>0, <1>3 DEF Locals
  <2>6. co'.pc \in Withdrawing /\ status[p].state = "paused" /\ co'.pc \notin {"recover"} BY <1>3, <2>5 DEF Withdrawing
  <2>7. HolderCounted' BY <1>1, <2>3, <2>4, <2>5, <2>6 DEF HolderCounted, NoneWaits
  <2> QED BY <1>0, <1>1, <2>3, <2>7, CountedWrite
<1> QED BY <1>2, <1>3 DEF AdmitResume

LEMMA CreateResumedCounted == ASSUME TypeInv, Serial, Counted, CreateResumed PROVE Counted'
<1> DEFINE p == co.path
           row == QueuedRow("sync", co.cfg, EmptyCheckpoint(TrustedOrEmpty(p)))
<1>0. p \in Paths /\ row \in Rows
  BY RepoType, TrustType, QueuedRowType, EmptyCheckpointType DEF Locals, OperationKinds
<1>1. UNCHANGED <<phase, queue, status>> /\ co.pc = "create_resumed" BY DEF CreateResumed, process, memory
<1>2. CASE Create(p, row)
  <2>1. Within(status[p]) BY <1>1 DEF Counted, HolderCounted
  <2> QED BY <1>0, <1>1, <1>2, <2>1, CreateCounted
<1>3. CASE Goto("rollback") BY <1>1, <1>3, BackCounted DEF Withdrawing
<1> HIDE DEF row
<1> QED BY <1>2, <1>3 DEF CreateResumed, row

LEMMA AdmitStatusCounted == ASSUME TypeInv, Serial, Counted, AdmitStatus PROVE Counted'
<1> DEFINE p == co.path
           s == AdmittedStatus(p, co.op)
           job == [path |-> p, op |-> co.op, cfg |-> config[p]]
<1>0. p \in Paths /\ co.pc = "admit_status" /\ co.pc \in RowLabels /\ UNCHANGED phase
  BY RepoType DEF AdmitStatus, RowLabels, process
<1>1. CASE UNCHANGED <<status, queue>> /\ Goto("undo")
  BY <1>0, <1>1, BackCounted DEF Withdrawing
<1>2. CASE applyStatus(p, s, "preserve") /\ Release /\ queue' = Append(queue, job)
  <2>1. s \in Statuses /\ "preserve" \in FailureActions BY <1>0, AdmittedStatusType DEF FailureActions
  <2>2. job \in Jobs BY <1>0, RepoType DEF Jobs, Locals, TypeInv, TypeOK
  <2>3. job.path = p OBVIOUS
  <2> HIDE DEF s, job
  <2>4. Within(status[p]) BY <1>0 DEF Counted, HolderCounted
  <2>5. Within(status'[p]) /\ \A q \in Paths : q # p => status'[q] = status[q]
    BY <1>0, <1>2, <2>1, <2>4, AppliedFailures
  <2>6. \A k \in DOMAIN queue' : queue'[k] = job \/ \E j \in DOMAIN queue : queue'[k] = queue[j]
    BY <1>2, <2>2, AppendedQueue
  <2> QED BY <1>0, <1>2, <2>3, <2>5, <2>6, ReleaseCounted, CountedStep DEF Counted
<1> HIDE DEF s, job
<1> QED BY <1>1, <1>2 DEF AdmitStatus, QueueAfter, s, job

LEMMA AdmissionCounted == ASSUME TypeInv, Serial, Counted, AdmissionStep PROVE Counted'
<1>1. CASE AdmitSync \/ AdmitInitialize
  BY <1>1, AdmitCounted DEF AdmitSync, AdmitInitialize, OperationKinds, AdmissionLabels
<1>2. CASE Undo \/ SaveConfig
  <2>1. UNCHANGED <<phase, queue, status>> /\ co.pc \in Withdrawing
        /\ (Release \/ Goto("rollback") \/ Goto("restore_status"))
    BY <1>2 DEF Undo, SaveConfig, process, Withdrawing
  <2> QED BY <2>1, EndCounted, BackCounted
<1>3. CASE Rollback \/ RestoreStatus
  <2>1. /\ UNCHANGED <<phase, queue>> /\ Release /\ co.pc \in {"rollback", "restore_status"}
        /\ status' = [status EXCEPT ![co.path] = co.prev] \/ UNCHANGED status
    BY <1>3 DEF Rollback, RestoreStatus, process, memory
  <2> QED BY <2>1, RestoredCounted
<1> QED
  BY <1>1, <1>2, <1>3, RefreshCounted, AdmitResumeCounted, CreateResumedCounted, AdmitStatusCounted
  DEF AdmissionStep

\* Taking a job does not count.
LEMMA TakeCounted == ASSUME TypeInv, Serial, Counted, TakeJob PROVE Counted'
<1>1. UNCHANGED <<phase, status>> /\ queue # <<>> /\ queue' = RestOfQueue
  BY DEF TakeJob, Begin, ResolveConflict, durable, process, WorkerFrame
<1>2. /\ 1 \in DOMAIN queue /\ Head(queue) = queue[1]
      /\ \A k \in DOMAIN queue' : \E j \in DOMAIN queue : queue'[k] = queue[j]
  BY <1>1, TakenQueue
<1>3. HolderCounted'
  <2>1. CASE Begin
    <3>1. /\ queue[1].op # 0 /\ queue[1].path \in Paths /\ queue[1] \in Jobs BY <1>2, <2>1, QueueFacts DEF Begin
    <3>2. co'.pc \in {"stale", "journal"} /\ co'.path = queue[1].path
      <4> DEFINE job == Head(queue)
      <4>1. PICK pc \in {"stale", "journal"} : \E ck, next :
              co' = [Idle EXCEPT !.path = job.path, !.op = job.op, !.cfg = job.cfg, !.pc = pc, !.ck = ck, !.next = next]
        BY <2>1 DEF Begin
      <4> HIDE DEF job
      <4>2. co'.pc = pc /\ co'.path = job.path BY <4>1 DEF Idle
      <4> QED BY <1>2, <4>2 DEF job
    <3>3. Within(status[queue[1].path]) BY <1>2, <3>1 DEF Counted
    <3>4. co'.pc \in JobLabels BY <3>2 DEF JobLabels
    <3> QED BY <1>1, <3>2, <3>3, <3>4, RunningCounted
  <2>2. CASE ResolveConflict
    <3>1. UNCHANGED co /\ co.pc = "free" BY <2>2 DEF ResolveConflict, Free
    <3>2. Within(co.prev) BY <3>1 DEF Counted, HolderCounted, Withdrawing, JobLabels
    <3> QED BY <3>1, <3>2 DEF HolderCounted, RowLabels, JobLabels
  <2> QED BY <2>1, <2>2 DEF TakeJob
<1> QED BY <1>1, <1>2, <1>3, CountedStep DEF Counted

-----------------------------------------------------------------------------
(* Recovery, the surroundings, and the whole. *)

\* Recovery plans no status of an open breaker, for a base that is not at it.
LEMMA KeepsCounted ==
  ASSUME TypeInv, NEW p \in Paths, NEW found, found.remote \in Nat, Within(status[p])
  PROVE  KeepsTo(CountedWrites, p, found)
<1>1. ASSUME NEW state \in PlannedStates, NEW op \in Nat, NEW action \in {"preserve", "reset"}
      PROVE  Within(Transition(p, found, state, op, action))
  <2> DEFINE after == [status[p] EXCEPT !.state = state, !.op = op, !.remote = Keep(found.remote, @)]
  <2>1. status[p] \in Statuses BY DEF TypeInv, TypeOK
  <2>2. after \in Statuses
    <3>1. Keep(found.remote, status[p].remote) \in Nat BY <2>1 DEF Keep, Statuses, Oids
    <3>2. state \in GitStates BY DEF PlannedStates, GitStates
    <3> QED BY <2>1, <3>1, <3>2, Zenon DEF Statuses, Oids
  <2> HIDE DEF after
  <2>3. ApplyTransition(status[p], after, action).failures = NextFailures(status[p].failures, action)
    BY <2>2 DEF ApplyTransition, Statuses
  <2>4. NextFailures(status[p].failures, action) \in {0, status[p].failures} BY DEF NextFailures
  <2> QED BY <2>3, <2>4, PauseThresholdAssumption DEF Transition, Within, after
<1>2. status[p].op \in Nat BY DEF TypeInv, TypeOK, Statuses
<1>3. \A row \in Rows : Journal(row) \in CountedWrites
  BY JournalWriteType, JournalWrites DEF CountedWrites
<1>4. ASSUME NEW state \in PlannedStates, NEW op \in Nat, NEW action \in {"preserve", "reset"}
      PROVE  Status(p, found, state, op, action) \in CountedWrites
  <2>1. state \in GitStates \cup {"absent"} /\ action \in FailureActions
    BY DEF PlannedStates, GitStates, FailureActions
  <2>2. Status(p, found, state, op, action) \in Writes BY <2>1, StatusWriteType
  <2>3. Status(p, found, state, op, action)[2] = Transition(p, found, state, op, action) BY DEF Status
  <2> QED BY <1>1, <2>2, <2>3 DEF CountedWrites
<1>5. ASSUME NEW state \in PlannedStates PROVE Published(p, found, state) \in CountedWrites
  <2>1. state \in GitStates \cup {"absent"} BY DEF PlannedStates, GitStates
  <2>2. Published(p, found, state) \in Writes BY <2>1, StatusWriteType
  <2>3. Published(p, found, state)[2] = Transition(p, found, state, status[p].op, "preserve") BY DEF Published
  <2> QED BY <1>1, <1>2, <2>2, <2>3 DEF CountedWrites
<1> QED BY <1>3, <1>4, <1>5 DEF KeepsTo

LEMMA RecoverBaseCounted == ASSUME TypeInv, Counted, NEW p \in Paths, RecoverBase(p) PROVE Counted'
<1>0. UNCHANGED <<phase, queue, status>> /\ phase = "recovering" /\ co.pc = "free" BY DEF RecoverBase, Free, durable
<1>1. CASE UNCHANGED co
  <2>1. HolderCounted' BY <1>0, <1>1 DEF Counted, HolderCounted, NoneWaits
  <2> QED BY <1>0, <2>1, CountedWrite
<1>2. ASSUME NEW found, found.remote \in Nat, NEW plan, plan = RecoveryPlan(p, found),
             co' = [Idle EXCEPT !.pc = "recover", !.path = p, !.op = RecoveredRow(p),
                                !.plan = plan.writes, !.fallback = plan.fallback]
      PROVE  Counted'
  <2>1. Within(status[p]) BY <1>0 DEF Counted
  <2>2. plan.writes \in Seq(CountedWrites) /\ plan.fallback \in Seq(CountedWrites)
    BY <1>2, <2>1, KeepsCounted, RecoveryPlanKeeps
  <2>3. co'.pc = "recover" /\ co'.prev = NoStatus /\ co'.plan = plan.writes /\ co'.fallback = plan.fallback
    BY <1>2 DEF Idle
  <2>4. HolderCounted' BY <2>2, <2>3, PauseThresholdAssumption DEF HolderCounted, RowLabels, JobLabels, Within, NoStatus
  <2> QED BY <1>0, <2>4, CountedWrite
<1>3. Uninspected.remote \in Nat BY DEF Uninspected, Found
<1> QED BY <1>1, <1>2, <1>3, InspectedType DEF RecoverBase

LEMMA ApplyWriteCounted == ASSUME TypeInv, Serial, Counted, ApplyWrite PROVE Counted'
<1> DEFINE p == co.path
           write == Head(co.plan)
           rest == Tail(co.plan)
<1>0. /\ co.pc = "recover" /\ co.plan # <<>> /\ p \in Paths /\ UNCHANGED <<phase, queue>>
      /\ co.plan \in Seq(CountedWrites) /\ co.fallback \in Seq(CountedWrites) /\ Within(co.prev)
  BY RepoType DEF ApplyWrite, Counted, HolderCounted, Withdrawing, JobLabels
<1>1. write \in CountedWrites /\ rest \in Seq(CountedWrites) BY <1>0, HeadTailProperties
<1>2. <<>> \in Seq(CountedWrites) BY EmptySeq
<1> HIDE DEF write, rest
<1>3. \E left \in Seq(CountedWrites) : NextWrite(left) BY <1>0, <1>1, <1>2 DEF ApplyWrite, write, rest
<1>4. HolderCounted'
  <2>1. PICK left \in Seq(CountedWrites) : NextWrite(left) BY <1>3
  <2>2. CASE co' = Idle BY <2>2, ReleaseCounted DEF Release
  <2>3. CASE co' = [co EXCEPT !.plan = left]
    <3>1. co'.pc = "recover" /\ co'.prev = co.prev /\ co'.plan = left /\ co'.fallback = co.fallback
      BY <1>0, <2>3, RepoType DEF Locals
    <3> QED BY <1>0, <3>1 DEF HolderCounted, RowLabels, JobLabels
  <2> QED BY <2>1, <2>2, <2>3 DEF NextWrite
<1>5. UNCHANGED status \/ (IsStatusWrite(write) /\ status' = [status EXCEPT ![p] = write[2]])
  BY DEF ApplyWrite, IsStatusWrite, write
<1>6. /\ \A q \in Paths : q # p => status'[q] = status[q]
      /\ status'[p] = status[p] \/ Within(status'[p])
  BY <1>0, <1>1, <1>5 DEF CountedWrites, TypeInv, TypeOK
<1> HIDE DEF p
<1> QED BY <1>0, <1>4, <1>6, CountedWrite

\* A process that ends in RecoverLocal, and what happens around the manager.
LEMMA ProcessCounted ==
  ASSUME TypeInv, Serial, Counted, ~Stop, RecoveryStep \/ Exit \/ Surroundings PROVE Counted'
<1> USE DEF durable, memory
<1>1. CASE \E p \in Paths : RecoverBase(p) BY <1>1, RecoverBaseCounted
<1>2. CASE ApplyWrite BY <1>2, ApplyWriteCounted
<1>3. CASE Serve
  <2>0. UNCHANGED status /\ phase = "recovering" BY <1>3 DEF Serve
  <2>1. \A q \in Paths : Within(status[q]) BY <2>0 DEF Counted
  <2>2. CASE Down
    <3>1. Release /\ queue' = <<>> /\ phase' = "down" BY <2>2 DEF Down, Release
    <3>2. \A k \in DOMAIN queue' : queue'[k].op = 0 BY <3>1
    <3> QED BY <2>0, <2>1, <3>1, <3>2, ReleaseCounted, CountedStep
  <2>3. CASE UNCHANGED <<memory, co>> /\ phase' = "serving"
    <3>1. HolderCounted' BY <2>0, <2>3 DEF Counted, HolderCounted, NoneWaits
    <3> QED BY <2>0, <2>3, <3>1, CountedStep DEF Counted
  <2> QED BY <1>3, <2>2, <2>3 DEF Serve
<1>4. CASE Boot
  <2>1. UNCHANGED <<status, queue, co>> /\ phase = "down" /\ phase' = "recovering" BY <1>4 DEF Boot
  <2>2. HolderCounted' BY <2>1 DEF Counted, HolderCounted, NoneWaits
  <2> QED BY <2>1, <2>2, CountedStep DEF Counted
<1>5. CASE \E p \in Paths : NoteWrite(p) \/ OtherDevicePush(p)
  <2>1. UNCHANGED <<status, phase, queue, co>> BY <1>5 DEF NoteWrite, OtherDevicePush, process
  <2>2. HolderCounted' BY <2>1 DEF Counted, HolderCounted, NoneWaits
  <2> QED BY <2>1, <2>2, CountedStep DEF Counted
<1>6. ~Exit BY DEF Exit, Counted
<1>7. ~Close /\ ~Crash BY DEF Close, Crash
<1> QED BY <1>1, <1>2, <1>3, <1>4, <1>5, <1>6, <1>7 DEF RecoveryStep, Surroundings

LEMMA InitCounted == ASSUME Init PROVE Breaker
<1> USE PauseThresholdAssumption
<1>1. \A p \in Paths : Within(status[p]) BY DEF Init, ConnectedStatus, NoStatus, Within
<1>2. co = Idle /\ queue = <<>> /\ phase = "down" BY DEF Init
<1>3. co.pc = "free" /\ co.prev = NoStatus BY <1>2 DEF Idle
<1>4. HolderCounted BY <1>3 DEF HolderCounted, RowLabels, JobLabels, Within, NoStatus
<1>5. \A k \in DOMAIN queue : queue[k].op = 0 BY <1>2
<1> QED BY <1>1, <1>2, <1>4, <1>5 DEF Breaker, Counted, Calm

LEMMA BreakerStep == ASSUME TypeInv, Serial, Fence, Breaker, [Next]_vars PROVE Breaker'
<1> SUFFICES ASSUME spent'.stops = 0 PROVE Counted' BY DEF Breaker
<1>1. Counted /\ ~Stop BY StopsGrow DEF Breaker
<1>2. CASE UNCHANGED vars
  <2>1. UNCHANGED <<status, phase, queue, co>> BY <1>2 DEF vars, durable, process, memory
  <2>2. HolderCounted' BY <1>1, <2>1 DEF Counted, HolderCounted, NoneWaits
  <2> QED BY <1>1, <2>1, <2>2, CountedStep DEF Counted
<1> QED
  BY <1>1, <1>2, RequestsCounted, AdmissionCounted, TakeCounted, JobCounted, ProcessCounted DEF Next

\* Invariance of Breaker: what keeps the failures of every base within its breaker.
THEOREM BreakerInvariant == Spec => []Breaker
<1>1. Init => Breaker BY InitCounted
<1>2. TypeInv /\ Serial /\ Fence /\ Breaker /\ [Next]_vars => Breaker' BY BreakerStep
<1> QED BY <1>1, <1>2, TypesInvariant, SerialInvariant, FenceInvariant, PTL DEF Spec

\* While the process lives, a base with PauseThreshold failures in a row is not one the
\* scheduler submits: only Resume or a new configuration starts its count again.
THEOREM BreakerStops == Spec => []BreakerHolds
<1>1. TypeInv /\ Breaker => BreakerHolds
  <2> SUFFICES ASSUME TypeInv, Breaker, spent.stops = 0, NEW p \in Paths, status[p].failures >= PauseThreshold
               PROVE  status[p].state = "paused"
    BY DEF BreakerHolds
  <2>1. Calm(status[p]) BY DEF Breaker, Counted
  <2>2. status[p].failures \in Nat BY DEF TypeInv, TypeOK, Statuses
  <2> QED BY <2>1, <2>2, PauseThresholdAssumption DEF Calm, Within
<1> QED BY <1>1, TypesInvariant, BreakerInvariant, PTL

-----------------------------------------------------------------------------
(* Every accepted operation has its job. *)

\* The steps of a job whose row has not ended.
WorkLabels == JobLabels \ ReportLabels

Waits(p) == \E k \in DOMAIN queue : queue[k].path = p /\ queue[k].op = inFlight[p]
Works(p) == co.pc \in WorkLabels /\ co.path = p /\ co.op = inFlight[p]
Admitting(p) == co.pc = "admit_status" /\ co.path = p

Account(p) ==
  /\ inFlight[p] # 0 => Waits(p) \/ Works(p)
  /\ ActiveRows(p) # {} => inFlight[p] # 0 \/ Admitting(p)
WorkInFlight == co.pc \in WorkLabels => inFlight[co.path] = co.op
Accounted ==
  /\ phase # "closing" /\ co.pc # "undo" /\ WorkInFlight
  /\ \A p \in Paths : Account(p)

\* The inductive invariant.
Accepted == spent.stops = 0 /\ spent.faults = 0 => Accounted

\* A base that no step touches keeps its job.
LEMMA OthersAccount ==
  ASSUME TypeInv, NEW q \in Paths, Account(q), journal'[q] = journal[q], inFlight'[q] = inFlight[q],
         \A k \in DOMAIN queue : queue[k].path = q /\ queue[k].op # 0 =>
           \E n \in DOMAIN queue' : queue'[n] = queue[k],
         co.path # q \/ co.pc \notin WorkLabels \cup {"admit_status"}
  PROVE  Account(q)'
<1>1. ActiveRows(q)' = ActiveRows(q) BY DEF ActiveRows, Op
<1>2. ~Works(q) /\ ~Admitting(q) BY DEF Works, Admitting
<1>3. ASSUME inFlight'[q] # 0 PROVE Waits(q)'
  <2>1. PICK k \in DOMAIN queue : queue[k].path = q /\ queue[k].op = inFlight[q]
    BY <1>2, <1>3 DEF Account, Waits
  <2>2. PICK n \in DOMAIN queue' : queue'[n] = queue[k] BY <1>3, <2>1
  <2> QED BY <2>1, <2>2 DEF Waits
<1> QED BY <1>1, <1>2, <1>3 DEF Account

\* A step of a holder without an unfinished job, which leaves the journal, inFlight and
\* the jobs of the queue.
LEMMA IdleAccounted ==
  ASSUME TypeInv, Accounted, co.pc \notin WorkLabels \cup {"admit_status"}, co'.pc \notin WorkLabels \cup {"undo"},
         phase' # "closing", UNCHANGED <<journal, inFlight>>,
         \A k \in DOMAIN queue : queue[k].op # 0 => \E n \in DOMAIN queue' : queue'[n] = queue[k]
  PROVE  Accounted'
<1>1. \A q \in Paths : Account(q)' BY OthersAccount DEF Accounted
<1> QED BY <1>1 DEF Accounted, WorkInFlight

\* The end of the last row of a base.
LEMMA RowEnded ==
  ASSUME TypeInv, OnlyLastRowActive, NEW p \in Paths, NEW i \in Op(p), i = Len(journal[p]), NEW row,
         WriteRow(p, i, row), row.state \notin ActiveStates
  PROVE  ActiveRows(p)' = {} /\ \A q \in Paths : q # p => journal'[q] = journal[q]
<1>1. journal'[p][i] = row BY RowWrittenAt
<1>2. /\ DOMAIN journal'[p] = DOMAIN journal[p] /\ \A j : j # i => journal'[p][j] = journal[p][j]
  BY WriteFacts
<1>3. \A j \in Op(p) : j # i => journal[p][j].state \notin ActiveStates
  BY DEF OnlyLastRowActive, ActiveRows
<1>4. \A j \in Op(p)' : journal'[p][j].state \notin ActiveStates BY <1>1, <1>2, <1>3 DEF Op
<1>5. \A q \in Paths : q # p => journal'[q] = journal[q] BY DEF WriteRow, TypeInv, TypeOK
<1> QED BY <1>4, <1>5 DEF ActiveRows

\* The end of the operation of a base, in the journal and in inFlight, and of its job.
LEMMA EndedAccounted ==
  ASSUME TypeInv, Serial, Accounted, NEW p \in Paths, NEW i \in Op(p), i = Len(journal[p]), NEW row,
         WriteRow(p, i, row), row.state \notin ActiveStates, inFlight' = [inFlight EXCEPT ![p] = 0],
         co.pc \in RowLabels \cup {"refresh"}, co.pc # "admit_status", co.path = p,
         co'.pc \notin WorkLabels \cup {"undo"}, UNCHANGED phase,
         \A k \in DOMAIN queue : queue[k].op # 0 /\ queue[k].path # p => \E n \in DOMAIN queue' : queue'[n] = queue[k]
  PROVE  Accounted'
<1>1. ActiveRows(p)' = {} /\ \A q \in Paths : q # p => journal'[q] = journal[q]
  BY RowEnded DEF Serial
<1>2. inFlight'[p] = 0 /\ \A q \in Paths : q # p => inFlight'[q] = inFlight[q] BY DEF TypeInv, TypeOK
<1>3. Account(p)' BY <1>1, <1>2 DEF Account
<1>4. \A q \in Paths : q # p => Account(q)' BY <1>1, <1>2, OthersAccount DEF Accounted
<1> QED BY <1>3, <1>4 DEF Accounted, WorkInFlight

\* A step of a job whose row goes on.
LEMMA GoingAccounted ==
  ASSUME TypeInv, Accounted, UNCHANGED <<phase, queue, inFlight>>, NEW p \in Paths, p = co.path,
         co.pc \in WorkLabels, co'.pc \in WorkLabels, co'.path = p, co'.op = co.op,
         \A q \in Paths : q # p => journal'[q] = journal[q]
  PROVE  Accounted'
<1>1. \A q \in Paths : q # p => Account(q)' BY OthersAccount DEF Accounted
<1>2. inFlight[p] = co.op BY DEF Accounted, WorkInFlight
<1>3. co.op # 0
  <2>1. co.op \in Op(p) BY DEF TypeInv, RowsExist, WorkLabels, RowLabels
  <2> QED BY <2>1, OpFacts
<1>4. Works(p)' BY <1>2 DEF Works
<1>5. Account(p)' BY <1>2, <1>3, <1>4 DEF Account
<1>6. co'.pc # "undo" BY DEF WorkLabels, JobLabels
<1> QED BY <1>1, <1>2, <1>5, <1>6 DEF Accounted, WorkInFlight

LEMMA JobAccounted == ASSUME TypeInv, Serial, Fence, Accounted, ~Fault, JobStep PROVE Accounted'
<1>0. co \in Locals /\ phase # "closing" BY RepoType DEF Accounted
<1> PICK p \in Paths : p = co.path BY RepoType
<1>1. CASE QuietStep
  <2>1. UNCHANGED <<phase, queue, inFlight, journal>> /\ co.pc \in RowLabels \ ReportLabels
    BY <1>1, QuietMoves DEF QuietStep
  <2>2. RunsOn BY <1>0, <1>1, QuietRuns DEF Stranded
  <2>3. co.pc # "admit_status" /\ co.pc # "undo"
    BY <1>1 DEF QuietStep, Publish, Leave, Preflight, Probe, CreateRepository, Fetch, Trust, OpenSnapshot, Commit,
       MergeNeeded, RunMerge, Push, Settle, VerifyCompletion, CommitMerge, SyncIndex, SaveConflictPushing,
       VerifyAbort, AbortMerge, Aborted, AbortStatus, Failed
  <2>4. co.pc \in WorkLabels BY <2>1, <2>3 DEF WorkLabels, RowLabels
  <2>5. co'.pc \in WorkLabels /\ co'.path = p /\ co'.op = co.op BY <2>2 DEF RunsOn, RunLabels, WorkLabels
  <2> QED BY <2>1, <2>4, <2>5, GoingAccounted
<1>2. CASE Checkpoint
  <2>1. /\ UNCHANGED <<phase, queue, inFlight>> /\ WriteRow(p, co.op, Checkpointed(Row, co.ck)) /\ Goto("publish")
    BY <1>0, <1>2 DEF Checkpoint, Interrupted, WorkerFrame, MemoryFrame, process
  <2>2. "publish" \in Labels /\ {"publish", "journal"} \subseteq WorkLabels
    BY DEF Labels, RowLabels, JobLabels, WorkLabels, ReportLabels
  <2>3. co'.pc = "publish" /\ co'.path = p /\ co'.op = co.op BY <1>0, <2>1, <2>2, GotoType
  <2>4. \A q \in Paths : q # p => journal'[q] = journal[q] BY <2>1 DEF WriteRow, TypeInv, TypeOK
  <2>5. co.pc \in WorkLabels BY <1>2, <2>2 DEF Checkpoint
  <2> QED BY <2>1, <2>2, <2>3, <2>4, <2>5, GoingAccounted
<1>3. CASE FinishStale \/ AbortJournal \/ SucceedJournal \/ FailJournal
  <2>0. UNCHANGED <<phase, queue>> /\ co.pc \in RowLabels /\ co.pc # "admit_status"
    BY <1>3 DEF FinishStale, AbortJournal, SucceedJournal, FailJournal, WorkerFrame, process, RowLabels, JobLabels
  <2>1. Row \in Rows /\ co.op \in Op(p) /\ co.op = Len(journal[p])
    BY <2>0, RowType DEF TypeInv, RowsExist, Serial, HolderLast
  <2>2. PICK state \in FinalStates : \E stage, res :
          WriteRow(p, co.op, Finished(Row, state, stage, res)) /\ inFlight' = [inFlight EXCEPT ![p] = 0]
    BY <1>3 DEF FinishStale, AbortJournal, SucceedJournal, FailJournal, FinishRow, completeTerminal, FailedState,
       FinalStates
  <2>3. PICK stage, res :
          WriteRow(p, co.op, Finished(Row, state, stage, res)) /\ inFlight' = [inFlight EXCEPT ![p] = 0]
    BY <2>2
  <2> DEFINE row == Finished(Row, state, stage, res)
  <2>4. row.state \notin ActiveStates BY <2>1, StateOf DEF FinalStates, ActiveStates
  <2>5. WriteRow(p, co.op, row) BY <2>3
  <2> HIDE DEF row
  <2>6. co'.pc \in {"free"} \cup ReportLabels
    <3>1. Release \/ \E label \in ReportLabels : Goto(label)
      BY <1>3 DEF FinishStale, AbortJournal, SucceedJournal, FailJournal, FinishRow, ReportLabels
    <3> QED BY <1>0, <3>1, NextPc, ReleasePc
  <2>7. co'.pc \notin WorkLabels \cup {"undo"} BY <2>6 DEF WorkLabels, JobLabels, ReportLabels
  <2> QED BY <2>0, <2>1, <2>3, <2>4, <2>5, <2>7, EndedAccounted
<1>4. CASE SucceedStatus \/ FailStatus
  <2>1. /\ UNCHANGED <<phase, queue, inFlight, journal>> /\ Release
        /\ co.pc \notin WorkLabels \cup {"admit_status"}
    BY <1>4 DEF SucceedStatus, FailStatus, WorkerFrame, MemoryFrame, process, WorkLabels, ReportLabels
  <2>2. co'.pc \notin WorkLabels \cup {"undo"} BY <2>1, ReleasePc DEF WorkLabels, JobLabels
  <2> QED BY <1>0, <2>1, <2>2, IdleAccounted
<1>5. ~Abandon BY <1>0 DEF Abandon
<1> QED BY <1>1, <1>2, <1>3, <1>4, <1>5 DEF JobStep, QuietStep

\* A step around the manager.
LEMMA StutterAccounted ==
  ASSUME Accounted, UNCHANGED <<journal, queue, inFlight, co>>, phase' # "closing" PROVE Accounted'
BY DEF Accounted, WorkInFlight, Account, Waits, Works, Admitting, ActiveRows, Op

\* A request adopts no row: an unfinished operation has its job already.
LEMMA NoneAdopted ==
  ASSUME TypeInv, Accounted, NEW p \in Paths, co.pc # "admit_status", ActiveByPath(p) # 0 PROVE inFlight[p] # 0
<1>1. ActiveByPath(p) \in ActiveRows(p) BY DEF ActiveByPath
<1> QED BY <1>1 DEF Accounted, Account, Admitting

LEMMA CreateAccounted ==
  ASSUME TypeInv, Accounted, UNCHANGED <<phase, queue, inFlight>>, NEW p \in Paths, NEW row \in Rows, Create(p, row),
         co.pc \notin WorkLabels \cup {"admit_status"}
  PROVE  Accounted'
<1>1. co'.pc = "admit_status" /\ co'.path = p
  <2>1. "admit_status" \in Labels /\ Len(journal[p]) + 1 \in Nat BY OpFacts DEF Labels, RowLabels
  <2> QED BY <2>1, RepoType, Zenon DEF Create, Locals
<1>2. \A q \in Paths : q # p => journal'[q] = journal[q] BY CreateFacts DEF Create
<1>3. \A q \in Paths : q # p => Account(q)' BY <1>2, OthersAccount DEF Accounted
<1>4. Account(p)'
  <2>1. inFlight[p] # 0 => Waits(p) BY DEF Accounted, Account, Works
  <2> QED BY <1>1, <2>1 DEF Account, Waits, Admitting
<1>5. co'.pc \notin WorkLabels BY <1>1 DEF WorkLabels, JobLabels
<1> QED BY <1>1, <1>3, <1>4, <1>5 DEF Accounted, WorkInFlight

\* Every label of a request is a step without a job.
LEMMA RequestSteps ==
  /\ RequestLabels \cap (WorkLabels \cup {"admit_status", "undo"}) = {}
  /\ AdmissionLabels \cup {"free", "refresh", "create_resumed", "rollback", "save_config", "restore_status", "recover"}
       \subseteq RequestLabels
BY DEF RequestLabels, AdmissionLabels, WorkLabels, JobLabels

\* A request or a step of it that leaves the journal, the queue and inFlight.
LEMMA PlainAccounted ==
  ASSUME TypeInv, Accounted, UNCHANGED <<phase, journal, queue, inFlight>>,
         co.pc \in RequestLabels, co'.pc \in RequestLabels
  PROVE  Accounted'
<1>1. /\ co.pc \notin WorkLabels \cup {"admit_status"} /\ co'.pc \notin WorkLabels \cup {"undo"}
      /\ phase' # "closing"
  BY RequestSteps DEF Accounted
<1> QED BY <1>1, IdleAccounted

LEMMA RequestsAccounted == ASSUME TypeInv, Serial, Accounted, ~Fault, Requests PROVE Accounted'
<1> USE DEF durable, process, memory
<1>0. \A p \in Paths : config[p] \in Configs \cup {NoConfig} BY DEF TypeInv, TypeOK
<1>1. ASSUME NEW p \in Paths, NEW label \in AdmissionLabels, NEW cfg \in Configs \cup {NoConfig},
             Request(p, label, cfg), UNCHANGED <<phase, journal, queue, inFlight>>
      PROVE  Accounted'
  <2>1. co'.pc \in RequestLabels BY <1>1, RequestPc
  <2>2. co.pc \in RequestLabels BY <1>1, RequestSteps DEF Request, Free
  <2> QED BY <1>1, <2>1, <2>2, PlainAccounted
<1>2. ASSUME NEW p \in Paths, QueueSync(p) \/ Resume(p) PROVE Accounted'
  <2>1. /\ \E label \in AdmissionLabels : Request(p, label, config[p])
        /\ UNCHANGED <<phase, journal, queue, inFlight>>
    BY <1>2 DEF QueueSync, Resume, AdmissionLabels
  <2> QED BY <1>0, <1>1, <2>1
<1>3. ASSUME NEW p \in Paths, NEW cfg \in Configs, QueueInitialize(p, cfg) PROVE Accounted'
  <2>1. UNCHANGED <<phase, journal, queue, inFlight>> BY <1>3 DEF QueueInitialize
  <2>2. "admit_initialize" \in AdmissionLabels BY DEF AdmissionLabels
  <2>3. CASE Request(p, "admit_initialize", cfg) BY <1>1, <2>1, <2>2, <2>3
  <2>4. CASE UNCHANGED co
    <3>1. phase' # "closing" BY <2>1 DEF Accounted
    <3> QED BY <2>1, <2>4, <3>1, StutterAccounted
  <2> QED BY <1>3, <2>3, <2>4 DEF QueueInitialize
<1>4. ASSUME NEW p \in Paths, NEW cfg, ChangeStatus(p, cfg) PROVE Accounted'
  <2>1. UNCHANGED <<phase, journal, queue, inFlight>> /\ co.pc = "free" BY <1>4 DEF ChangeStatus, Free
  <2>2. co'.pc \in {"save_config", "restore_status"} BY <1>4 DEF ChangeStatus, Changing, Idle
  <2> QED BY <2>1, <2>2, RequestSteps, PlainAccounted
<1>5. ASSUME NEW p \in Paths, NEW kind \in ConflictKinds, QueueConflict(p, kind) PROVE Accounted'
  <2> DEFINE o == currentConflictOperation(p)
             row == QueuedRow(kind, journal[p][o].cfg, CheckpointOf(journal[p][o]))
  <2>1. UNCHANGED <<phase, queue>> /\ co.pc = "free" /\ inFlight[p] = 0 BY <1>5 DEF QueueConflict, Free
  <2>2. co.pc \notin WorkLabels \cup {"admit_status"} BY <2>1, RequestSteps
  <2>3. ActiveByPath(p) = 0 BY <2>1, NoneAdopted
  <2>4. Create(p, row) /\ UNCHANGED inFlight BY <1>5, <2>3 DEF QueueConflict
  <2>5. row \in Rows
    <3>1. o \in Op(p) BY <1>5 DEF QueueConflict, currentConflictOperation
    <3> HIDE DEF o
    <3>2. CheckpointOf(journal[p][o]) \in Checkpoints /\ journal[p][o].cfg \in Configs \cup {NoConfig}
      BY <3>1, RowAt DEF CheckpointOf, Checkpoints, Rows
    <3> QED BY <3>2, QueuedRowType DEF ConflictKinds, OperationKinds
  <2> HIDE DEF row
  <2> QED BY <2>1, <2>2, <2>4, <2>5, CreateAccounted
<1>6. ASSUME NEW p \in Paths, EnqueueResolve(p) PROVE Accounted'
  <2> DEFINE job == [path |-> p, op |-> 0, cfg |-> NoConfig]
  <2>1. /\ UNCHANGED <<phase, journal, inFlight, co>> /\ queue' = Append(queue, job) /\ job \in Jobs
        /\ co.pc # "admit_status"
    BY <1>6 DEF EnqueueResolve, Jobs, MutexHeld
  <2> HIDE DEF job
  <2>2. \A k \in DOMAIN queue : \E n \in DOMAIN queue' : queue'[n] = queue[k] BY <2>1, AppendedQueue
  <2>3. \A q \in Paths : inFlight'[q] # 0 => Waits(q)' \/ Works(q)'
    BY <2>1, <2>2 DEF Accounted, Account, Waits, Works
  <2>4. \A q \in Paths : ActiveRows(q)' # {} => inFlight'[q] # 0 \/ Admitting(q)'
    BY <2>1 DEF Accounted, Account, ActiveRows, Op, Admitting
  <2> QED BY <2>1, <2>3, <2>4 DEF Accounted, Account, WorkInFlight
<1> QED BY <1>2, <1>3, <1>4, <1>5, <1>6 DEF Requests, Configure, Disable

LEMMA RefreshAccounted == ASSUME TypeInv, Serial, Accounted, ~Fault, RefreshQueued PROVE Accounted'
<1> PICK p \in Paths : p = co.path BY RepoType
<1>1. UNCHANGED phase /\ co.pc = "refresh" /\ Goto(co.next) /\ inFlight' = [inFlight EXCEPT ![p] = 0]
  BY DEF RefreshQueued, process
<1>2. PICK k \in StaleJobs(p) :
        /\ WriteRow(p, queue[k].op, Finished(journal[p][queue[k].op], "failed", "queued", NoResult))
        /\ queue' = Without(k)
  BY DEF RefreshQueued
<1> DEFINE i == queue[k].op
           row == Finished(journal[p][i], "failed", "queued", NoResult)
<1>3. k \in DOMAIN queue /\ queue[k].path = p /\ i # 0 BY DEF StaleJobs
<1>4. i \in Op(p) /\ i = Len(journal[p]) BY <1>3 DEF TypeInv, RowsExist, Serial, JobsLast
<1>5. row.state \notin ActiveStates
  <2> HIDE DEF i
  <2>0. journal[p][i] \in Rows BY <1>4, RowAt
  <2> HIDE DEF row
  <2>1. row.state = "failed" BY <2>0, StateOf DEF row
  <2> QED BY <2>1 DEF ActiveStates
<1>6. co'.pc \notin WorkLabels \cup {"undo"}
  <2>1. co.next \in AdmissionLabels BY <1>1 DEF TypeInv, RowsExist
  <2>2. co'.pc = co.next BY <1>1, RepoType, NextPc
  <2> QED BY <2>1, <2>2, RequestSteps
<1>7. WriteRow(p, i, row) BY <1>2
<1> HIDE DEF row, i
<1>8. \A j \in DOMAIN queue : queue[j].op # 0 /\ queue[j].path # p => \E n \in DOMAIN queue' : queue'[n] = queue[j]
  BY <1>2, <1>3, WithdrawnQueue
<1> QED BY <1>1, <1>4, <1>5, <1>6, <1>7, <1>8, EndedAccounted

LEMMA AdmitAccounted ==
  ASSUME TypeInv, Accounted, NEW kind \in OperationKinds, NEW label \in AdmissionLabels, Admit(kind, label)
  PROVE  Accounted'
<1> PICK p \in Paths : p = co.path BY RepoType
<1> DEFINE row == QueuedRow(kind, co.cfg, EmptyCheckpoint(TrustedOrEmpty(p)))
<1>0. row \in Rows
  BY RepoType, TrustType, QueuedRowType, EmptyCheckpointType DEF Locals
<1>1. UNCHANGED <<phase, queue>> /\ co.pc \in RequestLabels BY RequestSteps DEF Admit, process
<1>2. co.pc \notin WorkLabels \cup {"admit_status"} BY <1>1, RequestSteps
<1>3. ActiveByPath(p) # 0 => inFlight[p] # 0 BY <1>2, NoneAdopted
<1> HIDE DEF row
<1>4. UNCHANGED inFlight /\ (Create(p, row) \/ (Release /\ UNCHANGED journal)) BY <1>3 DEF Admit, row
<1>5. CASE Create(p, row) BY <1>0, <1>1, <1>2, <1>4, <1>5, CreateAccounted
<1>6. CASE Release /\ UNCHANGED journal
  <2>1. co'.pc \in RequestLabels BY <1>6, ReleasePc
  <2> QED BY <1>1, <1>4, <1>6, <2>1, PlainAccounted
<1> QED BY <1>4, <1>5, <1>6

LEMMA AdmitStatusAccounted == ASSUME TypeInv, Serial, Accounted, ~Fault, AdmitStatus PROVE Accounted'
<1> PICK p \in Paths : p = co.path BY RepoType
<1> DEFINE job == [path |-> p, op |-> co.op, cfg |-> config[p]]
<1>1. /\ UNCHANGED <<phase, journal>> /\ Release /\ inFlight' = [inFlight EXCEPT ![p] = co.op]
      /\ queue' = Append(queue, job) /\ co.pc \in RowLabels
  BY DEF AdmitStatus, QueueAfter, process, RowLabels
<1>2. co.op \in Op(p) /\ co.op # 0 BY <1>1, OpFacts DEF TypeInv, RowsExist
<1>3. job \in Jobs BY RepoType DEF Jobs, Locals, TypeInv, TypeOK
<1>4. job.path = p /\ job.op = co.op OBVIOUS
<1> HIDE DEF job
<1>5. /\ \A k \in DOMAIN queue : \E n \in DOMAIN queue' : queue'[n] = queue[k]
      /\ \E n \in DOMAIN queue' : queue'[n] = job
  BY <1>1, <1>3, AppendedQueue
<1>6. inFlight'[p] = co.op /\ \A q \in Paths : q # p => inFlight'[q] = inFlight[q] BY <1>1 DEF TypeInv, TypeOK
<1>7. \A q \in Paths : q # p => Account(q)' BY <1>1, <1>5, <1>6, OthersAccount DEF Accounted
<1>8. Account(p)' BY <1>2, <1>4, <1>5, <1>6 DEF Account, Waits
<1>9. co'.pc = "free" BY <1>1, ReleasePc
<1> QED BY <1>1, <1>7, <1>8, <1>9, RequestSteps DEF Accounted, WorkInFlight

LEMMA AdmissionAccounted == ASSUME TypeInv, Serial, Accounted, ~Fault, AdmissionStep PROVE Accounted'
<1>0. co \in Locals BY RepoType
<1>1. CASE AdmitSync \/ AdmitInitialize
  BY <1>1, AdmitAccounted DEF AdmitSync, AdmitInitialize, OperationKinds, AdmissionLabels
<1>2. CASE CreateResumed /\ ~Goto("rollback")
  <2> PICK p \in Paths : p = co.path BY RepoType
  <2> DEFINE row == QueuedRow("sync", co.cfg, EmptyCheckpoint(TrustedOrEmpty(p)))
  <2>0. row \in Rows
    BY RepoType, TrustType, QueuedRowType, EmptyCheckpointType DEF Locals, OperationKinds
  <2>1. UNCHANGED <<phase, queue, inFlight>> /\ co.pc \in RequestLabels
    BY <1>2, RequestSteps DEF CreateResumed, process, memory
  <2>2. Create(p, row) BY <1>2 DEF CreateResumed
  <2> HIDE DEF row
  <2> QED BY <2>0, <2>1, <2>2, RequestSteps, CreateAccounted
<1>3. ~Undo BY DEF Undo, Accounted
<1>4. CASE AdmitResume
  <2> PICK p \in Paths : p = co.path BY RepoType
  <2>1. UNCHANGED <<phase, queue, journal>> /\ co.pc \in RequestLabels
    <3>1. "admit_resume" \in AdmissionLabels BY DEF AdmissionLabels
    <3> QED BY <1>4, <3>1, RequestSteps DEF AdmitResume, process
  <2>2. ActiveByPath(p) # 0 => inFlight[p] # 0 BY <2>1, RequestSteps, NoneAdopted
  <2>3. UNCHANGED inFlight BY <1>4, <2>2 DEF AdmitResume
  <2>4. co'.pc \in {"free", "create_resumed"}
    <3>1. "create_resumed" \in Labels BY DEF Labels, RequestLabels
    <3> QED BY <1>0, <1>4, <3>1, ReleasePc, Zenon DEF AdmitResume, Locals
  <2> QED BY <2>1, <2>3, <2>4, RequestSteps, PlainAccounted
<1>5. CASE Rollback \/ RestoreStatus \/ SaveConfig \/ (CreateResumed /\ Goto("rollback"))
  <2>1. UNCHANGED <<phase, journal, queue, inFlight>> /\ co.pc \in RequestLabels
    <3>1. {"create_resumed", "rollback", "save_config", "restore_status"} \subseteq RequestLabels BY RequestSteps
    <3>2. Goto("rollback") => ~Create(co.path, QueuedRow("sync", co.cfg, EmptyCheckpoint(TrustedOrEmpty(co.path))))
      <4>1. SUFFICES ASSUME Goto("rollback"),
                       Create(co.path, QueuedRow("sync", co.cfg, EmptyCheckpoint(TrustedOrEmpty(co.path))))
                     PROVE FALSE
        OBVIOUS
      <4>2. co'.pc = "rollback" BY <1>0, <4>1, NextPc
      <4>3. co'.pc = "admit_status" BY <1>0, <4>1 DEF Create, Locals
      <4> QED BY <4>2, <4>3
    <3> QED BY <1>5, <3>1, <3>2 DEF Rollback, RestoreStatus, SaveConfig, CreateResumed, process, memory
  <2>2. Release \/ Goto("rollback")
    BY <1>5 DEF Rollback, RestoreStatus, SaveConfig
  <2>3. co'.pc \in {"free", "rollback"} BY <1>0, <2>2, NextPc, ReleasePc
  <2> QED BY <2>1, <2>3, RequestSteps, PlainAccounted
<1> QED BY <1>1, <1>2, <1>3, <1>4, <1>5, RefreshAccounted, AdmitStatusAccounted DEF AdmissionStep

LEMMA TakeAccounted == ASSUME TypeInv, Serial, Accounted, TakeJob PROVE Accounted'
<1>1. UNCHANGED <<phase, journal, inFlight>> /\ co.pc = "free" /\ queue # <<>> /\ queue' = RestOfQueue
  BY DEF TakeJob, Begin, ResolveConflict, durable, process, WorkerFrame, Free
<1>2. /\ 1 \in DOMAIN queue /\ Head(queue) = queue[1]
      /\ \A j \in DOMAIN queue : j # 1 => \E k \in DOMAIN queue' : queue'[k] = queue[j]
  BY <1>1, TakenQueue
<1>3. co.pc \notin WorkLabels \cup {"admit_status"} BY <1>1, RequestSteps
<1>4. CASE Begin
  <2> DEFINE job == queue[1]
  <2>1. job.op # 0 /\ job.path \in Paths BY <1>2, <1>4, QueueFacts DEF Begin
  <2>2. co'.pc \in {"stale", "journal"} /\ co'.path = job.path /\ co'.op = job.op
    <3> DEFINE head == Head(queue)
    <3>1. PICK pc \in {"stale", "journal"} : \E ck, next :
            co' = [Idle EXCEPT !.path = head.path, !.op = head.op, !.cfg = head.cfg, !.pc = pc, !.ck = ck, !.next = next]
      BY <1>4 DEF Begin
    <3> HIDE DEF head
    <3>2. co'.pc = pc /\ co'.path = head.path /\ co'.op = head.op BY <3>1 DEF Idle
    <3> QED BY <1>2, <3>2 DEF head
  <2>3. inFlight[job.path] = job.op BY <1>2, <2>1 DEF Serial, QueuedJobIsActive
  <2> HIDE DEF job
  <2>4. PICK p \in Paths : p = job.path BY <2>1
  <2>5. co'.pc \in WorkLabels BY <2>2 DEF WorkLabels, JobLabels, ReportLabels
  <2>6. Works(p)' BY <1>1, <2>2, <2>3, <2>4, <2>5 DEF Works
  <2>7. Account(p)' BY <1>1, <2>1, <2>3, <2>4, <2>6 DEF Account
  <2>8. ASSUME NEW q \in Paths, q # p PROVE Account(q)'
    <3>1. \A k \in DOMAIN queue : queue[k].path = q => k # 1 BY <2>4, <2>8 DEF job
    <3>2. Account(q) BY DEF Accounted
    <3> QED BY <1>1, <1>2, <1>3, <3>1, <3>2, OthersAccount
  <2>9. WorkInFlight' BY <1>1, <2>2, <2>3 DEF WorkInFlight
  <2>10. phase' # "closing" /\ co'.pc # "undo" BY <1>1, <2>2 DEF Accounted
  <2> QED BY <2>7, <2>8, <2>9, <2>10 DEF Accounted
<1>5. CASE ResolveConflict
  <2>1. UNCHANGED co /\ queue[1].op = 0 BY <1>2, <1>5 DEF ResolveConflict
  <2>2. \A k \in DOMAIN queue : queue[k].op # 0 => k # 1 BY <2>1
  <2>3. phase' # "closing" /\ co'.pc \notin WorkLabels \cup {"undo"} BY <1>1, <2>1, <1>3 DEF Accounted
  <2> QED BY <1>1, <1>2, <1>3, <2>2, <2>3, IdleAccounted
<1> QED BY <1>4, <1>5 DEF TakeJob

\* Before the manager serves, no base has an unfinished operation.
LEMMA NothingUnfinished ==
  ASSUME TypeInv, Serial, Accounted, phase = "recovering", NEW p \in Paths PROVE inFlight[p] = 0 /\ ActiveRows(p) = {}
<1>1. queue = <<>> /\ co.pc \in {"free", "recover"} BY DEF Serial, Phased
<1>2. DOMAIN queue = {} BY <1>1, QueueFacts
<1>3. ~Waits(p) /\ ~Works(p) /\ ~Admitting(p)
  BY <1>1, <1>2, RequestSteps DEF Waits, Works, Admitting
<1> QED BY <1>3 DEF Accounted, Account

\* Then a recovery has no row to write.
LEMMA ApplyWriteAccounted == ASSUME TypeInv, Serial, Alive, Accounted, ~Fault, ApplyWrite PROVE Accounted'
<1>0. /\ co.pc = "recover" /\ co.plan # <<>> /\ co.path \in Paths /\ UNCHANGED <<phase, queue, inFlight>>
      /\ phase = "recovering" /\ co.plan \in Seq(Writes)
  BY RepoType DEF ApplyWrite, Serial, Phased, Locals
<1>1. /\ co.op \in {0, Len(journal[co.path])}
      /\ HasRows(co.plan) => co.op # 0 /\ Row.state \in ActiveStates
  BY <1>0 DEF Serial, HolderLast, Alive, HolderAlive
<1>2. ~HasRows(co.plan)
  <2> PICK p \in Paths : p = co.path BY <1>0
  <2>1. SUFFICES ASSUME HasRows(co.plan) PROVE FALSE OBVIOUS
  <2>2. co.op \in Op(p) BY <1>1, <2>1, OpFacts
  <2>3. co.op \in ActiveRows(p) BY <1>1, <2>1, <2>2 DEF ActiveRows, Row
  <2> QED BY <1>0, <2>3, NothingUnfinished
<1>3. ~IsRow(Head(co.plan))
  <2>1. 1 \in DOMAIN co.plan /\ Head(co.plan) = co.plan[1]
    <3>1. Len(co.plan) \in Nat /\ DOMAIN co.plan = 1 .. Len(co.plan) /\ Len(co.plan) # 0
      BY <1>0, EmptySeq, LenProperties
    <3> QED BY <3>1, <1>0, HeadTailProperties
  <2> QED BY <1>2, <2>1 DEF HasRows
<1>4. UNCHANGED journal /\ \E rest : NextWrite(rest) BY <1>3 DEF ApplyWrite, IsRow
<1>5. co'.pc \in {"free", "recover"}
  BY <1>0, <1>4, RepoType DEF NextWrite, Idle, Locals
<1>6. /\ co.pc \notin WorkLabels \cup {"admit_status"} /\ co'.pc \notin WorkLabels \cup {"undo"}
      /\ phase' # "closing"
  BY <1>0, <1>5, RequestSteps
<1> QED BY <1>0, <1>4, <1>6, IdleAccounted

\* A process that ends in RecoverLocal, and what happens around the manager.
LEMMA ProcessAccounted ==
  ASSUME TypeInv, Serial, Alive, Accounted, ~Stop, ~Fault, RecoveryStep \/ Exit \/ Surroundings PROVE Accounted'
<1> USE DEF durable, memory
<1>1. ASSUME NEW p \in Paths, RecoverBase(p) PROVE Accounted'
  <2>1. UNCHANGED <<phase, journal, queue, inFlight>> /\ phase = "recovering" /\ co.pc = "free"
    BY <1>1 DEF RecoverBase, Free
  <2>2. co'.pc = "recover" BY <1>1 DEF RecoverBase, Idle
  <2> QED BY <2>1, <2>2, RequestSteps, PlainAccounted
<1>2. CASE ApplyWrite BY <1>2, ApplyWriteAccounted
<1>3. CASE Serve
  <2>1. UNCHANGED journal /\ phase = "recovering" BY <1>3 DEF Serve
  <2>2. CASE Down
    <3>1. ASSUME NEW q \in Paths PROVE Account(q)'
      <4>1. inFlight'[q] = 0 BY <2>2 DEF Down
      <4>2. ActiveRows(q)' = {} BY <2>1, NothingUnfinished DEF ActiveRows, Op
      <4> QED BY <4>1, <4>2 DEF Account
    <3>2. phase' = "down" /\ co'.pc = "free" BY <2>2 DEF Down, Idle
    <3> QED BY <3>1, <3>2, RequestSteps DEF Accounted, WorkInFlight
  <2>3. CASE UNCHANGED <<memory, co>> /\ phase' = "serving" BY <2>1, <2>3, StutterAccounted
  <2> QED BY <1>3, <2>2, <2>3 DEF Serve
<1>4. CASE Boot BY <1>4, StutterAccounted DEF Boot
<1>5. CASE \E p \in Paths : NoteWrite(p) \/ OtherDevicePush(p)
  <2>1. UNCHANGED <<journal, phase, queue, inFlight, co>> BY <1>5 DEF NoteWrite, OtherDevicePush, process
  <2>2. phase' # "closing" BY <2>1 DEF Accounted
  <2> QED BY <2>1, <2>2, StutterAccounted
<1>6. ~Exit BY DEF Exit, Accounted
<1>7. ~Close /\ ~Crash BY DEF Close, Crash
<1> QED BY <1>1, <1>2, <1>3, <1>4, <1>5, <1>6, <1>7 DEF RecoveryStep, Surroundings

LEMMA InitAccounted == ASSUME Init PROVE Accepted
<1>1. co.pc = "free" /\ phase = "down" BY DEF Init, Idle
<1>2. ASSUME NEW p \in Paths PROVE Account(p)
  <2>1. inFlight[p] = 0 BY DEF Init
  <2>2. ActiveRows(p) = {} BY DEF Init, ActiveRows, Op, ConnectedRow, ActiveStates
  <2> QED BY <2>1, <2>2 DEF Account
<1> QED BY <1>1, <1>2, RequestSteps DEF Accepted, Accounted, WorkInFlight

LEMMA AcceptedStep == ASSUME TypeInv, Serial, Alive, Fence, Accepted, [Next]_vars PROVE Accepted'
<1> SUFFICES ASSUME spent'.stops = 0, spent'.faults = 0 PROVE Accounted' BY DEF Accepted
<1>1. Accounted /\ ~Stop /\ ~Fault BY StopsGrow, FaultsGrow DEF Accepted
<1>2. CASE UNCHANGED vars
  <2>1. UNCHANGED <<journal, phase, queue, inFlight, co>> BY <1>2 DEF vars, durable, process, memory
  <2>2. phase' # "closing" BY <1>1, <2>1 DEF Accounted
  <2> QED BY <1>1, <2>1, <2>2, StutterAccounted
<1> QED
  BY <1>1, <1>2, RequestsAccounted, AdmissionAccounted, TakeAccounted, JobAccounted, ProcessAccounted DEF Next

\* While no process stopped and no write failed, an operation in inFlight has its job in
\* the queue or in the worker, and an unfinished row is in inFlight, or about to be.
THEOREM AcceptedInvariant == Spec => []Accepted
<1>1. Init => Accepted BY InitAccounted
<1>2. TypeInv /\ Serial /\ Alive /\ Fence /\ Accepted /\ [Next]_vars => Accepted' BY AcceptedStep
<1> QED BY <1>1, <1>2, TypesInvariant, SerialInvariant, AliveInvariant, FenceInvariant, PTL DEF Spec

\* An operation that queueOperation accepted is waiting in the queue or being run until it
\* is out of inFlight: a base never stays busy with a job nobody has.
THEOREM AcceptedOperationHasJob == Spec => []AcceptedHasJob
<1>1. Accepted => AcceptedHasJob BY DEF Accepted, Accounted, Account, Waits, Works, AcceptedHasJob
<1> QED BY <1>1, AcceptedInvariant, PTL

-----------------------------------------------------------------------------
(* What the status tells. *)

Busy(s) == s.state \in {"syncing", "initializing"}

\* The recovery at work on a base has still to write its status.
Shows(plan) == \E k \in DOMAIN plan : IsStatusWrite(plan[k])
Planned(p) == co.pc = "recover" /\ co.path = p /\ Shows(co.plan)
RestingWrites == {w \in Writes : IsStatusWrite(w) => ~Busy(w[2])}

\* The bases that are not shown at work: those not configured, those with a job that is
\* out of date, those recovered, and the base of a step that ends what it shows.
RestLabels == {"stale", "save_config", "abort_journal"}
Rested(p) ==
  \/ config[p] = NoConfig \/ StaleJobs(p) # {}
  \/ co.pc \in RestLabels /\ co.path = p
  \/ phase = "recovering" /\ p \notin pending /\ ~Planned(p)

\* The row has ended, the status follows.
Reporting(p) == co.pc \in ReportLabels /\ co.path = p

Shown(p) ==
  Busy(status[p]) =>
    /\ ~Rested(p)
    /\ phase \in {"serving", "closing"} => status[p].op \in ActiveRows(p) \/ Reporting(p)
HolderTold ==
  /\ co.pc \notin {"restore_status", "undo"}
  /\ co.pc \in {"create_resumed", "rollback"} => ~Busy(co.prev)
  /\ co.pc = "recover" => co.plan \in Seq(RestingWrites)
Told == ~broken /\ HolderTold /\ \A p \in Paths : Shown(p)

\* The inductive invariant.
Working == spent.faults = 0 => Told

\* A base whose status a step leaves, while the manager runs.
LEMMA SameShown ==
  ASSUME NEW p \in Paths, Shown(p), status'[p] = status[p], config'[p] = config[p],
         status[p].op \in ActiveRows(p) => status[p].op \in ActiveRows(p)', ~Reporting(p) \/ Reporting(p)',
         phase \in {"serving", "closing"}, phase' # "recovering",
         \A k \in DOMAIN queue' : queue'[k].op # 0 /\ queue'[k].path = p => \E j \in DOMAIN queue : queue[j] = queue'[k],
         co'.pc \notin RestLabels \/ co'.path # p
  PROVE  Shown(p)'
<1>1. StaleJobs(p) = {} => StaleJobs(p)' = {} BY DEF StaleJobs
<1>2. Rested(p)' => Rested(p) BY <1>1 DEF Rested
<1> QED BY <1>2 DEF Shown

\* A base that is not shown at work.
LEMMA RestShown == ASSUME NEW p \in Paths, ~Busy(status'[p]) PROVE Shown(p)'
BY DEF Shown

\* A step that is about one base.
LEMMA BaseTold ==
  ASSUME Told, NEW p \in Paths, phase \in {"serving", "closing"}, UNCHANGED <<phase, broken>>,
         \A q \in Paths : q # p => /\ status'[q] = status[q] /\ config'[q] = config[q]
                                   /\ journal'[q] = journal[q],
         \A k \in DOMAIN queue' : queue'[k].op # 0 /\ queue'[k].path # p => \E j \in DOMAIN queue : queue[j] = queue'[k],
         co.pc \notin ReportLabels \/ co.path = p, co'.pc \notin RestLabels \/ co'.path = p,
         Shown(p)', HolderTold'
  PROVE  Told'
<1>1. ASSUME NEW q \in Paths, q # p PROVE Shown(q)'
  <2>1. ActiveRows(q)' = ActiveRows(q) BY <1>1 DEF ActiveRows, Op
  <2>2. Shown(q) /\ ~Reporting(q) BY <1>1 DEF Told, Reporting
  <2>3. \A k \in DOMAIN queue' : queue'[k].op # 0 /\ queue'[k].path = q => \E j \in DOMAIN queue : queue[j] = queue'[k]
    BY <1>1
  <2>4. co'.pc \notin RestLabels \/ co'.path # q BY <1>1
  <2> QED BY <1>1, <2>1, <2>2, <2>3, <2>4, SameShown
<1> QED BY <1>1 DEF Told

\* A step that shows nothing and ends nothing.
LEMMA PlainTold ==
  ASSUME Told, phase \in {"serving", "closing"}, UNCHANGED <<phase, broken, status, config>>,
         \A q \in Paths : ActiveRows(q) \subseteq ActiveRows(q)',
         \A k \in DOMAIN queue' : queue'[k].op # 0 => \E j \in DOMAIN queue : queue[j] = queue'[k],
         co.pc \notin ReportLabels, co'.pc \notin RestLabels, HolderTold'
  PROVE  Told'
<1>1. ASSUME NEW q \in Paths PROVE Shown(q)'
  <2>1. Shown(q) /\ ~Reporting(q) BY DEF Told, Reporting
  <2> QED BY <2>1, SameShown
<1> QED BY <1>1 DEF Told

\* The holder of a request, or none.
LEMMA RequestTold ==
  ASSUME co'.pc \in AdmissionLabels \cup {"free", "refresh", "admit_status"} PROVE HolderTold' /\ co'.pc \notin RestLabels \cup ReportLabels
BY DEF HolderTold, AdmissionLabels, RestLabels, ReportLabels

\* What an outcome shows of a base.
LEMMA AppliedShows ==
  ASSUME TypeInv, NEW p \in Paths, NEW s \in Statuses, NEW action \in FailureActions, applyStatus(p, s, action)
  PROVE  /\ \A q \in Paths : q # p => status'[q] = status[q]
         /\ status'[p].op = s.op /\ (~Busy(s) => ~Busy(status'[p]))
<1>1. /\ status'[p] = ApplyTransition(status[p], s, action)
      /\ \A q \in Paths : q # p => status'[q] = status[q]
  BY DEF applyStatus, TypeInv, TypeOK
<1>2. /\ ApplyTransition(status[p], s, action).op = s.op
      /\ ApplyTransition(status[p], s, action).state \in {s.state, "paused"}
  BY DEF ApplyTransition, NextState, Statuses
<1> QED BY <1>1, <1>2 DEF Busy

\* A new row leaves the others unfinished.
LEMMA CreatedActive ==
  ASSUME TypeInv, NEW p \in Paths, NEW row \in Rows, CreateQueued(p, row), NEW q \in Paths
  PROVE  ActiveRows(q) \subseteq ActiveRows(q)'
<1>1. CASE q # p
  <2>1. journal'[q] = journal[q] BY <1>1, CreateFacts
  <2> QED BY <2>1 DEF ActiveRows, Op
<1>2. CASE q = p
  <2>1. /\ Len(journal[p]) \in Nat /\ Op(p) = 1 .. Len(journal[p])
        /\ Op(p)' = 1 .. Len(journal[p]) + 1
    BY OpFacts, CreateFacts DEF Op
  <2>2. \A j \in Op(p) : j \in Op(p)' /\ journal'[p][j] = journal[p][j] BY <2>1, CreateFacts
  <2> QED BY <1>2, <2>2 DEF ActiveRows
<1> QED BY <1>1, <1>2

LEMMA CreateTold ==
  ASSUME TypeInv, Told, phase \in {"serving", "closing"}, UNCHANGED <<phase, broken, status, config, queue>>,
         co.pc \notin ReportLabels, NEW p \in Paths, NEW row \in Rows, Create(p, row)
  PROVE  Told'
<1>1. co'.pc = "admit_status"
  <2>1. "admit_status" \in Labels /\ Len(journal[p]) + 1 \in Nat BY OpFacts DEF Labels, RowLabels
  <2> QED BY <2>1, RepoType, Zenon DEF Create, Locals
<1>2. \A q \in Paths : ActiveRows(q) \subseteq ActiveRows(q)' BY CreatedActive DEF Create
<1> QED BY <1>1, <1>2, RequestTold, PlainTold

\* A step that leaves the journal.
LEMMA StillTold ==
  ASSUME Told, phase \in {"serving", "closing"}, UNCHANGED <<phase, broken, status, config, journal>>,
         \A k \in DOMAIN queue' : queue'[k].op # 0 => \E j \in DOMAIN queue : queue[j] = queue'[k],
         co.pc \notin ReportLabels, co'.pc \notin RestLabels, HolderTold'
  PROVE  Told'
<1>1. \A q \in Paths : ActiveRows(q)' = ActiveRows(q) BY DEF ActiveRows, Op
<1> QED BY <1>1, PlainTold

\* A step of a manager that runs, which leaves the holder.
LEMMA StutterTold ==
  ASSUME Told, phase \in {"serving", "closing"}, UNCHANGED <<phase, broken, status, config, journal, co>>,
         \A k \in DOMAIN queue' : queue'[k].op # 0 => \E j \in DOMAIN queue : queue[j] = queue'[k]
  PROVE  Told'
<1>1. ASSUME NEW q \in Paths PROVE Shown(q)'
  <2>1. StaleJobs(q) = {} => StaleJobs(q)' = {} BY DEF StaleJobs
  <2>2. Rested(q)' => Rested(q) BY <2>1 DEF Rested
  <2>3. Shown(q) BY DEF Told
  <2>4. ActiveRows(q)' = ActiveRows(q) /\ Reporting(q)' = Reporting(q) BY DEF ActiveRows, Op, Reporting
  <2> QED BY <2>2, <2>3, <2>4 DEF Shown
<1> QED BY <1>1 DEF Told, HolderTold

LEMMA RequestsTold == ASSUME TypeInv, Serial, Told, ~Fault, Requests PROVE Told'
<1> USE DEF durable, process, memory, Serving
<1>0. \A p \in Paths : config[p] \in Configs \cup {NoConfig} BY DEF TypeInv, TypeOK
<1>1. ASSUME NEW p \in Paths, NEW label \in AdmissionLabels, NEW cfg \in Configs \cup {NoConfig},
             Request(p, label, cfg), UNCHANGED <<phase, broken, status, config, journal, queue>>
      PROVE  Told'
  <2>1. co'.pc \in {label, "refresh"} BY <1>1 DEF Request, Idle
  <2>2. co.pc = "free" /\ phase = "serving" BY <1>1 DEF Request, Free
  <2>3. HolderTold' /\ co'.pc \notin RestLabels BY <2>1, RequestTold
  <2>4. co.pc \notin ReportLabels BY <2>2 DEF ReportLabels
  <2> QED BY <1>1, <2>2, <2>3, <2>4, StillTold
<1>2. ASSUME NEW p \in Paths, QueueSync(p) \/ Resume(p) PROVE Told'
  <2>1. /\ \E label \in AdmissionLabels : Request(p, label, config[p])
        /\ UNCHANGED <<phase, broken, status, config, journal, queue>>
    BY <1>2 DEF QueueSync, Resume, AdmissionLabels
  <2> QED BY <1>0, <1>1, <2>1
<1>3. ASSUME NEW p \in Paths, NEW cfg \in Configs, QueueInitialize(p, cfg) PROVE Told'
  <2>1. UNCHANGED <<phase, broken, status, config, journal, queue>> /\ phase = "serving"
    BY <1>3 DEF QueueInitialize
  <2>2. "admit_initialize" \in AdmissionLabels BY DEF AdmissionLabels
  <2>3. CASE Request(p, "admit_initialize", cfg) BY <1>1, <2>1, <2>2, <2>3
  <2>4. CASE UNCHANGED co BY <2>1, <2>4, StutterTold
  <2> QED BY <1>3, <2>3, <2>4 DEF QueueInitialize
<1>4. ASSUME NEW p \in Paths, NEW cfg, ChangeStatus(p, cfg) PROVE Told'
  <2>1. /\ UNCHANGED <<phase, broken, journal, queue, config>> /\ co.pc = "free" /\ phase = "serving"
        /\ status' = [status EXCEPT ![p] = NewStatus(p, cfg)] /\ Changing(p, cfg, "save_config")
    BY <1>4 DEF ChangeStatus, Free
  <2>2. co'.pc = "save_config" /\ co'.path = p BY <2>1 DEF Changing, Idle
  <2>3. status'[p] = NewStatus(p, cfg) /\ \A q \in Paths : q # p => status'[q] = status[q]
    BY <2>1 DEF TypeInv, TypeOK
  <2>4. ~Busy(NewStatus(p, cfg)) BY DEF NewStatus, NoStatus, Busy
  <2>5. Shown(p)' BY <2>3, <2>4, RestShown
  <2>6. HolderTold' BY <2>2 DEF HolderTold
  <2>7. co.pc \notin ReportLabels BY <2>1 DEF ReportLabels
  <2> QED BY <2>1, <2>2, <2>3, <2>5, <2>6, <2>7, BaseTold
<1>5. ASSUME NEW p \in Paths, NEW kind \in ConflictKinds, QueueConflict(p, kind) PROVE Told'
  <2> DEFINE o == currentConflictOperation(p)
             row == QueuedRow(kind, journal[p][o].cfg, CheckpointOf(journal[p][o]))
  <2>1. UNCHANGED <<phase, broken, status, config, queue>> /\ co.pc = "free" /\ phase = "serving"
    BY <1>5 DEF QueueConflict, Free
  <2>2. CASE UNCHANGED <<journal, co>> BY <2>1, <2>2, StutterTold
  <2>3. CASE Create(p, row)
    <3>1. o \in Op(p) BY <1>5 DEF QueueConflict, currentConflictOperation
    <3>2. row \in Rows
      <4> HIDE DEF o
      <4>1. CheckpointOf(journal[p][o]) \in Checkpoints /\ journal[p][o].cfg \in Configs \cup {NoConfig}
        BY <3>1, RowAt DEF CheckpointOf, Checkpoints, Rows
      <4> QED BY <4>1, QueuedRowType DEF ConflictKinds, OperationKinds
    <3>3. co.pc \notin ReportLabels BY <2>1 DEF ReportLabels
    <3> HIDE DEF row
    <3> QED BY <2>1, <2>3, <3>2, <3>3, CreateTold
  <2> QED BY <1>5, <2>2, <2>3 DEF QueueConflict
<1>6. ASSUME NEW p \in Paths, EnqueueResolve(p) PROVE Told'
  <2> DEFINE job == [path |-> p, op |-> 0, cfg |-> NoConfig]
  <2>1. /\ UNCHANGED <<phase, broken, status, config, journal, co>> /\ phase = "serving"
        /\ queue' = Append(queue, job) /\ job \in Jobs /\ job.op = 0
    BY <1>6 DEF EnqueueResolve, Jobs
  <2> HIDE DEF job
  <2>2. \A k \in DOMAIN queue' : queue'[k].op # 0 => \E j \in DOMAIN queue : queue[j] = queue'[k]
    BY <2>1, AppendedQueue
  <2> QED BY <2>1, <2>2, StutterTold
<1> QED BY <1>2, <1>3, <1>4, <1>5, <1>6 DEF Requests, Configure, Disable

LEMMA RefreshTold == ASSUME TypeInv, Serial, Told, ~Fault, RefreshQueued PROVE Told'
<1> PICK p \in Paths : p = co.path BY RepoType
<1>1. /\ UNCHANGED <<phase, broken, status, config>> /\ co.pc = "refresh" /\ Goto(co.next)
  BY DEF RefreshQueued, process
<1>2. PICK k \in StaleJobs(p) : queue' = Without(k) BY DEF RefreshQueued
<1>3. \A q \in Paths : q # p => journal'[q] = journal[q]
  BY DEF RefreshQueued, WriteRow, TypeInv, TypeOK
<1>4. k \in DOMAIN queue BY DEF StaleJobs
<1>5. ~Busy(status[p]) BY <1>2 DEF Told, Shown, Rested
<1>6. Shown(p)' BY <1>1, <1>5, RestShown
<1>7. co'.pc \in AdmissionLabels
  <2>1. co.next \in AdmissionLabels BY <1>1 DEF TypeInv, RowsExist
  <2> QED BY <1>1, <2>1, RepoType, NextPc
<1>8. phase \in {"serving", "closing"} /\ co.pc \notin ReportLabels
  BY <1>1, ServingPc DEF ReportLabels, TypeInv, TypeOK, Phases
<1>9. \A n \in DOMAIN queue' : \E j \in DOMAIN queue : queue[j] = queue'[n] BY <1>2, <1>4, WithdrawnQueue
<1> QED BY <1>1, <1>3, <1>6, <1>7, <1>8, <1>9, RequestTold, BaseTold

\* A request that ends.
LEMMA ReleaseTold ==
  ASSUME Told, phase \in {"serving", "closing"}, UNCHANGED <<phase, broken, status, config, journal, queue>>,
         co.pc \notin ReportLabels, Release
  PROVE  Told'
<1>1. co'.pc = "free" BY ReleasePc
<1> QED BY <1>1, RequestTold, StillTold

LEMMA AdmitTold ==
  ASSUME TypeInv, Serial, Told, NEW kind \in OperationKinds, NEW label \in AdmissionLabels, Admit(kind, label)
  PROVE  Told'
<1> PICK p \in Paths : p = co.path BY RepoType
<1> DEFINE row == QueuedRow(kind, co.cfg, EmptyCheckpoint(TrustedOrEmpty(p)))
<1>0. row \in Rows
  BY RepoType, TrustType, QueuedRowType, EmptyCheckpointType DEF Locals
<1>1. UNCHANGED <<phase, broken, status, config, queue>> /\ co.pc \in AdmissionLabels BY DEF Admit, process
<1>2. phase \in {"serving", "closing"} /\ co.pc \notin ReportLabels
  BY <1>1, ServingPc DEF ReportLabels, AdmissionLabels, TypeInv, TypeOK, Phases
<1>3. Create(p, row) \/ (Release /\ UNCHANGED journal) BY DEF Admit
<1> HIDE DEF row
<1> QED BY <1>0, <1>1, <1>2, <1>3, CreateTold, ReleaseTold

LEMMA AdmitResumeTold == ASSUME TypeInv, Serial, Told, ~Fault, AdmitResume PROVE Told'
<1> PICK p \in Paths : p = co.path BY RepoType
<1> DEFINE s == [status[p] EXCEPT !.state = "ready", !.op = 0]
<1>1. UNCHANGED <<phase, broken, config, journal, queue>> /\ co.pc = "admit_resume" BY DEF AdmitResume, process
<1>2. phase \in {"serving", "closing"} /\ co.pc \notin ReportLabels
  BY <1>1, ServingPc DEF ReportLabels, TypeInv, TypeOK, Phases
<1>3. CASE Release /\ UNCHANGED status BY <1>1, <1>2, <1>3, ReleaseTold
<1>4. CASE /\ status[p].state = "paused" /\ applyStatus(p, s, "reset")
           /\ co' = [co EXCEPT !.pc = "create_resumed", !.resumed = TRUE, !.prev = status[p]]
  <2>1. "ready" \in GitStates /\ "reset" \in FailureActions BY DEF GitStates, FailureActions
  <2>2. s \in Statuses BY <2>1, StatusExceptType
  <2>3. s.state = "ready" BY DEF TypeInv, TypeOK, Statuses
  <2> HIDE DEF s
  <2>4. ~Busy(status'[p]) /\ \A q \in Paths : q # p => status'[q] = status[q]
    BY <1>4, <2>1, <2>2, <2>3, AppliedShows DEF Busy
  <2>5. Shown(p)' BY <2>4, RestShown
  <2>6. co'.pc = "create_resumed" /\ co'.prev = status[p] BY <1>4, RepoType DEF Locals
  <2>7. HolderTold' /\ co'.pc \notin RestLabels BY <1>4, <2>6 DEF HolderTold, Busy, RestLabels
  <2> QED BY <1>1, <1>2, <2>4, <2>5, <2>7, BaseTold
<1> QED BY <1>3, <1>4 DEF AdmitResume

LEMMA AdmitStatusTold == ASSUME TypeInv, Serial, Fence, Told, ~Fault, AdmitStatus PROVE Told'
<1> PICK p \in Paths : p = co.path BY RepoType
<1> DEFINE s == AdmittedStatus(p, co.op)
           job == [path |-> p, op |-> co.op, cfg |-> config[p]]
<1>1. /\ UNCHANGED <<phase, broken, config, journal>> /\ Release /\ applyStatus(p, s, "preserve")
      /\ queue' = Append(queue, job) /\ co.pc = "admit_status" /\ co.pc \in RowLabels
  BY DEF AdmitStatus, QueueAfter, process, RowLabels
<1>2. phase \in {"serving", "closing"} /\ co.pc \notin ReportLabels
  BY <1>1, ServingPc DEF ReportLabels, TypeInv, TypeOK, Phases
<1>3. s \in Statuses /\ "preserve" \in FailureActions BY <1>1, AdmittedStatusType DEF FailureActions
<1>4. s.op = co.op
  <2>1. status[p] \in Statuses BY DEF TypeInv, TypeOK
  <2> QED BY <2>1 DEF AdmittedStatus, WorkingStatus, Statuses
<1>5. co.op \in ActiveRows(p)
  <2>1. co.op \in Op(p) /\ journal[p][co.op].state = "queued" BY <1>1 DEF TypeInv, RowsExist, Serial, HolderLast
  <2> QED BY <2>1 DEF ActiveRows, ActiveStates
<1>6. job \in Jobs BY RepoType DEF Jobs, Locals, TypeInv, TypeOK
<1>7. job.path = p /\ job.cfg = config[p] OBVIOUS
<1> HIDE DEF s, job
<1>8. \A k \in DOMAIN queue' : queue'[k] = job \/ \E j \in DOMAIN queue : queue'[k] = queue[j]
  BY <1>1, <1>6, AppendedQueue
<1>9. co'.pc = "free" BY <1>1, ReleasePc
<1>10. status'[p].op = co.op /\ \A q \in Paths : q # p => status'[q] = status[q]
  BY <1>1, <1>3, <1>4, AppliedShows
<1>11. Shown(p)'
  <2>1. config[p] # NoConfig BY <1>1, JobKnows
  <2>2. NoneWaits(p) BY <1>1 DEF Serial, HolderLast
  <2>3. StaleJobs(p)' = {} BY <1>1, <1>7, <1>8, <2>2 DEF StaleJobs, NoneWaits
  <2>4. ~Rested(p)' BY <1>1, <1>2, <1>9, <2>1, <2>3 DEF Rested, RestLabels
  <2>5. co.op \in ActiveRows(p)' BY <1>1, <1>5 DEF ActiveRows, Op
  <2> QED BY <1>10, <2>4, <2>5 DEF Shown
<1> QED BY <1>1, <1>2, <1>7, <1>8, <1>9, <1>10, <1>11, RequestTold, BaseTold

LEMMA AdmissionTold == ASSUME TypeInv, Serial, Fence, Told, ~Fault, AdmissionStep PROVE Told'
<1>0. co \in Locals BY RepoType
<1>1. CASE AdmitSync \/ AdmitInitialize
  BY <1>1, AdmitTold DEF AdmitSync, AdmitInitialize, OperationKinds, AdmissionLabels
<1>2. CASE CreateResumed
  <2> PICK p \in Paths : p = co.path BY RepoType
  <2> DEFINE row == QueuedRow("sync", co.cfg, EmptyCheckpoint(TrustedOrEmpty(p)))
  <2>1. row \in Rows
    BY RepoType, TrustType, QueuedRowType, EmptyCheckpointType DEF Locals, OperationKinds
  <2>2. UNCHANGED <<phase, broken, status, config, queue>> /\ co.pc = "create_resumed"
    BY <1>2 DEF CreateResumed, process, memory
  <2>3. phase \in {"serving", "closing"} /\ co.pc \notin ReportLabels
    BY <2>2, ServingPc DEF ReportLabels, TypeInv, TypeOK, Phases
  <2>4. Create(p, row) \/ (Goto("rollback") /\ UNCHANGED journal) BY <1>2 DEF CreateResumed
  <2> HIDE DEF row
  <2>5. CASE Goto("rollback") /\ UNCHANGED journal
    <3>1. co'.pc = "rollback" /\ co'.prev = co.prev BY <1>0, <2>5, Zenon DEF Goto, Locals
    <3>2. HolderTold' /\ co'.pc \notin RestLabels BY <2>2, <3>1 DEF Told, HolderTold, RestLabels
    <3> QED BY <2>2, <2>3, <2>5, <3>2, StillTold
  <2> QED BY <2>1, <2>2, <2>3, <2>4, <2>5, CreateTold
<1>3. CASE Rollback
  <2> PICK p \in Paths : p = co.path BY RepoType
  <2>1. /\ UNCHANGED <<phase, broken, config, journal, queue>> /\ co.pc = "rollback" /\ Release
        /\ status' = [status EXCEPT ![p] = co.prev]
    BY <1>3 DEF Rollback, process, memory
  <2>2. phase \in {"serving", "closing"} /\ co.pc \notin ReportLabels
    BY <2>1, ServingPc DEF ReportLabels, TypeInv, TypeOK, Phases
  <2>3. status'[p] = co.prev /\ \A q \in Paths : q # p => status'[q] = status[q]
    BY <2>1 DEF TypeInv, TypeOK
  <2>4. ~Busy(co.prev) BY <2>1 DEF Told, HolderTold
  <2>5. Shown(p)' BY <2>3, <2>4, RestShown
  <2>6. co'.pc = "free" BY <2>1, ReleasePc
  <2> QED BY <2>1, <2>2, <2>3, <2>5, <2>6, RequestTold, BaseTold
<1>4. CASE SaveConfig
  <2> PICK p \in Paths : p = co.path BY RepoType
  <2>1. /\ UNCHANGED <<phase, broken, status, journal, queue>> /\ co.pc = "save_config" /\ Release
        /\ config' = [config EXCEPT ![p] = co.cfg]
    BY <1>4 DEF SaveConfig, process
  <2>2. phase \in {"serving", "closing"} /\ co.pc \notin ReportLabels
    BY <2>1, ServingPc DEF ReportLabels, TypeInv, TypeOK, Phases
  <2>3. \A q \in Paths : q # p => config'[q] = config[q] BY <2>1 DEF TypeInv, TypeOK
  <2>4. ~Busy(status[p]) BY <2>1 DEF Told, Shown, Rested, RestLabels
  <2>5. Shown(p)' BY <2>1, <2>4, RestShown
  <2>6. co'.pc = "free" BY <2>1, ReleasePc
  <2> QED BY <2>1, <2>2, <2>3, <2>5, <2>6, RequestTold, BaseTold
<1>5. ~Undo /\ ~RestoreStatus BY DEF Undo, RestoreStatus, Told, HolderTold
<1> QED BY <1>1, <1>2, <1>3, <1>4, <1>5, RefreshTold, AdmitResumeTold, AdmitStatusTold DEF AdmissionStep

LEMMA TakeTold == ASSUME TypeInv, Serial, Told, TakeJob PROVE Told'
<1>1. /\ UNCHANGED <<phase, broken, status, config, journal>> /\ queue # <<>> /\ queue' = RestOfQueue
      /\ phase = "serving" /\ co.pc = "free"
  BY DEF TakeJob, Begin, ResolveConflict, durable, process, WorkerFrame, Free, Serving
<1>2. /\ 1 \in DOMAIN queue /\ Head(queue) = queue[1]
      /\ \A k \in DOMAIN queue' : \E j \in DOMAIN queue : queue[j] = queue'[k]
  BY <1>1, TakenQueue
<1>3. CASE Begin
  <2> PICK job \in Jobs : job = queue[1] BY <1>2, QueueFacts
  <2> PICK p \in Paths : p = job.path BY DEF Jobs
  <2>1. job.op # 0 BY <1>2, <1>3 DEF Begin
  <2>2. PICK ck, next :
          co' = [Idle EXCEPT !.path = p, !.op = job.op, !.cfg = job.cfg,
                             !.pc = IF config[p] # job.cfg THEN "stale" ELSE "journal", !.ck = ck, !.next = next]
    BY <1>2, <1>3 DEF Begin
  <2>3. co'.path = p /\ co'.pc = IF config[p] # job.cfg THEN "stale" ELSE "journal" BY <2>2 DEF Idle
  <2>4. HolderTold' BY <2>3 DEF HolderTold
  <2>5. co.pc \notin ReportLabels BY <1>1 DEF ReportLabels
  <2>6. CASE config[p] # job.cfg
    <3>1. 1 \in StaleJobs(p) BY <1>2, <2>1, <2>6 DEF StaleJobs
    <3>2. ~Busy(status[p]) BY <2>1, <3>1 DEF Told, Shown, Rested
    <3>3. ~Busy(status'[p]) BY <1>1, <3>2
    <3>4. Shown(p)' BY <2>1, <3>3, RestShown
    <3> QED BY <1>1, <1>2, <2>3, <2>4, <2>5, <3>4, BaseTold
  <2>7. CASE config[p] = job.cfg
    <3>1. co'.pc \notin RestLabels BY <2>3, <2>7 DEF RestLabels
    <3> QED BY <1>1, <1>2, <2>4, <2>5, <3>1, StillTold
  <2> QED BY <2>6, <2>7
<1>4. CASE ResolveConflict
  <2>1. UNCHANGED co BY <1>4 DEF ResolveConflict
  <2> QED BY <1>1, <1>2, <2>1, StutterTold
<1> QED BY <1>3, <1>4 DEF TakeJob

-----------------------------------------------------------------------------
(* The job. *)

\* A checkpoint shows the base at work on the row of the job.
LEMMA PublishTold == ASSUME TypeInv, Serial, Fence, Alive, Told, ~Fault, Publish, RunsOn PROVE Told'
<1> PICK p \in Paths : p = co.path BY RepoType
<1> DEFINE s == WorkingStatus(p, co.op, JobState, co.ck.remote)
<1>1. /\ UNCHANGED <<phase, broken, config, journal, queue>> /\ co.pc = "publish"
  BY DEF Publish, WorkerFrame, process
<1>2. phase \in {"serving", "closing"} BY <1>1, ServingPc DEF TypeInv, TypeOK, Phases
<1>3. co.pc \in RowLabels \ ReportLabels BY <1>1 DEF RowLabels, JobLabels, ReportLabels
<1>4. co'.path = p /\ co'.pc \notin RestLabels
  <2>1. co'.pc # "abort_journal" BY <1>1 DEF RunsOn, AbortStatus
  <2> QED BY <2>1 DEF RunsOn, RunLabels, JobLabels, RestLabels
<1>5. HolderTold' BY DEF HolderTold, RunsOn, RunLabels, JobLabels
<1>6. ActiveRows(p)' = ActiveRows(p) BY <1>1 DEF ActiveRows, Op
<1>7. CASE UNCHANGED status BY <1>1, <1>2, <1>3, <1>4, <1>5, <1>7, StillTold
<1>8. CASE applyStatus(p, s, "preserve")
  <2>1. s \in Statuses /\ "preserve" \in FailureActions /\ s.op = co.op
    <3>1. JobState \in GitStates BY DEF JobState, GitStates, WorkingState
    <3>2. co.ck.remote \in Nat /\ co.op \in Nat BY RepoType DEF Checkpoints, Oids, Locals
    <3>3. status[p] \in Statuses BY DEF TypeInv, TypeOK
    <3>4. s.op = co.op BY <3>3 DEF WorkingStatus, Statuses
    <3> QED BY <3>1, <3>2, <3>4, WorkingStatusType DEF FailureActions
  <2> HIDE DEF s
  <2>2. status'[p].op = co.op /\ \A q \in Paths : q # p => status'[q] = status[q]
    BY <1>8, <2>1, AppliedShows
  <2>3. co.op \in ActiveRows(p)
    BY <1>3 DEF TypeInv, RowsExist, Alive, HolderAlive, Row, ActiveRows
  <2>4. config[p] # NoConfig BY <1>1, <1>3, JobKnows
  <2>5. NoneWaits(p) BY <1>3 DEF Serial, HolderLast
  <2>6. StaleJobs(p)' = {} BY <1>1, <2>5 DEF StaleJobs, NoneWaits
  <2>7. ~Rested(p)' BY <1>1, <1>2, <1>4, <2>4, <2>6 DEF Rested
  <2>8. Shown(p)' BY <1>6, <2>2, <2>3, <2>7 DEF Shown
  <2> QED BY <1>1, <1>2, <1>3, <1>4, <1>5, <2>2, <2>8, BaseTold
<1> QED BY <1>7, <1>8 DEF Publish

\* A finished abort pauses its base.
LEMMA AbortStatusTold == ASSUME TypeInv, Serial, Told, ~Fault, AbortStatus, RunsOn PROVE Told'
<1> PICK p \in Paths : p = co.path BY RepoType
<1> DEFINE s == [status[p] EXCEPT !.state = "paused", !.op = co.op, !.remote = Row.remote]
<1>1. /\ UNCHANGED <<phase, broken, config, journal, queue>> /\ co.pc = "abort_status"
      /\ applyStatus(p, s, "preserve")
  BY DEF AbortStatus, WorkerFrame, MemoryFrame, process
<1>2. phase \in {"serving", "closing"} /\ co.pc \notin ReportLabels
  BY <1>1, ServingPc DEF TypeInv, TypeOK, Phases, ReportLabels
<1>3. co'.path = p BY DEF RunsOn
<1>4. HolderTold' BY DEF HolderTold, RunsOn, RunLabels, JobLabels
<1>5. s \in Statuses /\ ~Busy(s) /\ "preserve" \in FailureActions
  <2>1. Row.remote \in Nat
    <3>1. co.pc \in RowLabels BY <1>1 DEF RowLabels, JobLabels
    <3> QED BY <3>1, RowType DEF Rows, Oids
  <2>2. status[p] \in Statuses /\ co.op \in Nat /\ "paused" \in GitStates
    BY RepoType DEF TypeInv, TypeOK, GitStates, Locals
  <2>3. s \in Statuses BY <2>1, <2>2, Zenon DEF Statuses, Oids
  <2>4. s.state = "paused" BY <2>2 DEF Statuses
  <2> QED BY <2>3, <2>4 DEF Busy, FailureActions
<1> HIDE DEF s
<1>6. ~Busy(status'[p]) /\ \A q \in Paths : q # p => status'[q] = status[q] BY <1>1, <1>5, AppliedShows
<1>7. Shown(p)' BY <1>6, RestShown
<1> QED BY <1>1, <1>2, <1>3, <1>4, <1>6, <1>7, BaseTold

\* The other steps of a job that leave the journal leave the status too.
LEMMA QuietTold == ASSUME TypeInv, Serial, Fence, Alive, Told, ~Fault, QuietStep PROVE Told'
<1>1. UNCHANGED <<phase, queue, journal>> /\ co.pc \in RowLabels \ ReportLabels BY QuietMoves DEF QuietStep
<1>2. UNCHANGED <<broken, config>>
  <2> USE DEF CommandFrame, RepoFrame, WorkerFrame, process
  <2>1. CASE Preflight \/ Probe \/ CreateRepository \/ Fetch \/ Trust \/ OpenSnapshot \/ Commit \/ MergeNeeded
    BY <2>1 DEF Preflight, Probe, CreateRepository, Fetch, Trust, OpenSnapshot, Commit, MergeNeeded
  <2>2. CASE RunMerge \/ Push \/ Settle \/ VerifyCompletion \/ CommitMerge \/ SyncIndex \/ SaveConflictPushing
    BY <2>2 DEF RunMerge, Push, Settle, VerifyCompletion, CommitMerge, SyncIndex, SaveConflictPushing
  <2>3. CASE VerifyAbort \/ AbortMerge \/ Leave \/ Aborted \/ Failed \/ Publish \/ AbortStatus
    BY <2>3 DEF VerifyAbort, AbortMerge, Leave, Aborted, Failed, Publish, AbortStatus
  <2> QED BY <2>1, <2>2, <2>3 DEF QuietStep
<1>3. phase \in {"serving", "closing"} BY <1>1, ServingPc DEF TypeInv, TypeOK, Phases, RowLabels, JobLabels
<1>4. CASE Publish BY <1>4, PublishRuns, PublishTold
<1>5. CASE AbortStatus
  <2>1. co'.pc = "abort_journal" BY <1>5, RepoType, NextPc DEF AbortStatus
  <2>2. RunsOn BY <1>5, <2>1, QuietRuns, ReleasePc DEF Stranded
  <2> QED BY <1>5, <2>2, AbortStatusTold
<1>6. CASE UNCHANGED status /\ RunsOn /\ ~AbortStatus
  <2>1. co'.pc \notin RestLabels BY <1>6 DEF RunsOn, RunLabels, JobLabels, RestLabels
  <2>2. HolderTold' BY <1>6 DEF HolderTold, RunsOn, RunLabels, JobLabels
  <2> QED BY <1>1, <1>2, <1>3, <1>6, <2>1, <2>2, StillTold
<1>7. CASE UNCHANGED status /\ Stranded
  <2>1. Release BY <1>7 DEF Stranded
  <2> QED BY <1>1, <1>2, <1>3, <1>7, <2>1, ReleaseTold
<1>8. ~Publish /\ ~AbortStatus => UNCHANGED status
  <2> USE DEF CommandFrame, RepoFrame
  <2>1. CASE Preflight \/ Probe \/ CreateRepository \/ Fetch \/ Trust \/ OpenSnapshot \/ Commit \/ MergeNeeded
    BY <2>1 DEF Preflight, Probe, CreateRepository, Fetch, Trust, OpenSnapshot, Commit, MergeNeeded
  <2>2. CASE RunMerge \/ Push \/ Settle \/ VerifyCompletion \/ CommitMerge \/ SyncIndex \/ SaveConflictPushing
    BY <2>2 DEF RunMerge, Push, Settle, VerifyCompletion, CommitMerge, SyncIndex, SaveConflictPushing
  <2>3. CASE VerifyAbort \/ AbortMerge \/ Leave \/ Aborted \/ Failed
    BY <2>3 DEF VerifyAbort, AbortMerge, Leave, Aborted, Failed
  <2> QED BY <2>1, <2>2, <2>3 DEF QuietStep
<1> QED BY <1>4, <1>5, <1>6, <1>7, <1>8, QuietRuns

LEMMA CheckpointTold == ASSUME TypeInv, Serial, Told, Checkpoint PROVE Told'
<1> PICK p \in Paths : p = co.path BY RepoType
<1>1. UNCHANGED <<phase, broken, status, config, queue>> /\ co.pc = "journal"
  BY DEF Checkpoint, WorkerFrame, MemoryFrame, process
<1>2. phase \in {"serving", "closing"} /\ co.pc \notin ReportLabels /\ co.pc \in RowLabels
  BY <1>1, ServingPc DEF TypeInv, TypeOK, Phases, ReportLabels, RowLabels, JobLabels
<1>3. co'.pc \in {"publish", "leave", "failed"} BY RepoType, NextPc DEF Checkpoint
<1>4. HolderTold' /\ co'.pc \notin RestLabels BY <1>3 DEF HolderTold, RestLabels
<1>5. ASSUME NEW q \in Paths PROVE ActiveRows(q) \subseteq ActiveRows(q)'
  <2>1. CASE UNCHANGED journal BY <2>1 DEF ActiveRows, Op
  <2>2. CASE WriteRow(p, co.op, Checkpointed(Row, co.ck))
    <3> DEFINE row == Checkpointed(Row, co.ck)
    <3>1. co.op \in Op(p) /\ Row \in Rows BY <1>2, RowType DEF TypeInv, RowsExist
    <3>2. row.state = "running" BY <3>1 DEF Checkpointed, Rows
    <3>3. WriteRow(p, co.op, row) BY <2>2
    <3> HIDE DEF row
    <3>4. journal'[p][co.op] = row BY <3>1, <3>3, RowWrittenAt
    <3>5. /\ DOMAIN journal'[q] = DOMAIN journal[q]
          /\ \A j : q # p \/ j # co.op => journal'[q][j] = journal[q][j]
      BY <3>3, WriteFacts
    <3> QED BY <3>2, <3>4, <3>5 DEF ActiveRows, Op, ActiveStates
  <2> QED BY <2>1, <2>2 DEF Checkpoint
<1> QED BY <1>1, <1>2, <1>4, <1>5, PlainTold

\* A job that leaves its row ends what it shows, or shows the end at once.
LEMMA EndTold ==
  ASSUME TypeInv, Serial, Told, UNCHANGED <<phase, broken, config, queue>>, NEW p \in Paths, p = co.path,
         co.pc \in JobLabels, co'.pc \in {"free"} \cup ReportLabels, co'.pc \in ReportLabels => co'.path = p,
         \A q \in Paths : q # p => status'[q] = status[q] /\ journal'[q] = journal[q],
         ~Busy(status'[p]) \/ (co.pc \notin RestLabels /\ co'.pc \in ReportLabels /\ UNCHANGED status)
  PROVE  Told'
<1>1. phase \in {"serving", "closing"} BY ServingPc DEF TypeInv, TypeOK, Phases, JobLabels
<1>2. HolderTold' /\ co'.pc \notin RestLabels BY DEF HolderTold, ReportLabels, RestLabels
<1>3. Shown(p)'
  <2>1. CASE ~Busy(status'[p]) BY <2>1, RestShown
  <2>2. CASE co.pc \notin RestLabels /\ co'.pc \in ReportLabels /\ UNCHANGED status
    <3>1. Reporting(p)' BY <2>2 DEF Reporting
    <3>2. StaleJobs(p)' = StaleJobs(p) BY DEF StaleJobs
    <3>3. Rested(p)' => Rested(p) BY <1>1, <1>2, <3>2 DEF Rested
    <3> QED BY <2>2, <3>1, <3>3 DEF Told, Shown
  <2> QED BY <2>1, <2>2
<1> QED BY <1>1, <1>2, <1>3, BaseTold

LEMMA JobTold == ASSUME TypeInv, Serial, Fence, Alive, Told, ~Fault, JobStep PROVE Told'
<1>0. co \in Locals BY RepoType
<1> PICK p \in Paths : p = co.path BY RepoType
<1>1. CASE QuietStep BY <1>1, QuietTold
<1>2. CASE Checkpoint BY <1>2, CheckpointTold
<1>3. CASE Abandon
  <2>1. UNCHANGED <<phase, broken, status, config, journal, queue>> /\ Release /\ phase = "closing"
        /\ co.pc \in {"stale", "journal"}
    BY <1>3 DEF Abandon, durable, process, memory
  <2> QED BY <2>1, ReleaseTold DEF ReportLabels
<1>4. CASE FinishStale \/ AbortJournal \/ SucceedJournal \/ FailJournal
  <2>1. /\ UNCHANGED <<phase, broken, config, queue, status>> /\ co.pc \in JobLabels
        /\ co.pc \in {"stale", "abort_journal", "succeed_journal", "fail_journal"}
    BY <1>4 DEF FinishStale, AbortJournal, SucceedJournal, FailJournal, WorkerFrame, process, JobLabels
  <2>2. \A q \in Paths : q # p => journal'[q] = journal[q]
    BY <1>4 DEF FinishStale, AbortJournal, SucceedJournal, FailJournal, FinishRow, WriteRow, TypeInv, TypeOK
  <2>3. CASE FinishStale \/ AbortJournal
    <3>1. Release /\ co.pc \in RestLabels BY <2>3 DEF FinishStale, AbortJournal, RestLabels
    <3>2. ~Busy(status[p]) BY <3>1 DEF Told, Shown, Rested
    <3>3. co'.pc = "free" BY <3>1, ReleasePc
    <3> QED BY <2>1, <2>2, <3>2, <3>3, EndTold DEF ReportLabels
  <2>4. CASE SucceedJournal \/ FailJournal
    <3>1. \E label \in ReportLabels : Goto(label)
      BY <2>4 DEF SucceedJournal, FailJournal, FinishRow, ReportLabels
    <3>2. ReportLabels \subseteq Labels BY DEF ReportLabels, Labels, RowLabels, JobLabels
    <3>3. co'.pc \in ReportLabels /\ co'.path = p BY <1>0, <3>1, <3>2, GotoType
    <3>4. co.pc \notin RestLabels BY <2>4 DEF SucceedJournal, FailJournal, RestLabels
    <3> QED BY <2>1, <2>2, <3>3, <3>4, EndTold
  <2> QED BY <1>4, <2>3, <2>4
<1>5. CASE SucceedStatus
  <2> DEFINE s == [status[p] EXCEPT !.state = "ready", !.op = co.op, !.remote = Result.remote]
  <2>1. /\ UNCHANGED <<phase, broken, config, queue, journal>> /\ Release /\ applyStatus(p, s, "reset")
        /\ co.pc = "succeed_status"
    BY <1>5 DEF SucceedStatus, WorkerFrame, MemoryFrame, process
  <2>2. s \in Statuses /\ ~Busy(s) /\ "reset" \in FailureActions
    <3>1. Result.remote \in Nat /\ co.op \in Nat /\ status[p] \in Statuses
      BY <1>0, RepoType DEF Result, Checkpoints, Oids, Locals, TypeInv, TypeOK
    <3>2. "ready" \in GitStates BY DEF GitStates
    <3>3. s \in Statuses BY <3>1, <3>2, Zenon DEF Statuses, Oids
    <3>4. s.state = "ready" BY <3>1 DEF Statuses
    <3> QED BY <3>3, <3>4 DEF Busy, FailureActions
  <2> HIDE DEF s
  <2>3. ~Busy(status'[p]) /\ \A q \in Paths : q # p => status'[q] = status[q] BY <2>1, <2>2, AppliedShows
  <2>4. co'.pc = "free" /\ co.pc \in JobLabels BY <2>1, ReleasePc DEF JobLabels
  <2> QED BY <2>1, <2>3, <2>4, EndTold DEF ReportLabels
<1>6. CASE FailStatus
  <2> DEFINE outcome == ClassifyGitOutcome(Kind, FailedState, status[p].state, co.err)
             s == [status[p] EXCEPT !.state = outcome.state, !.op = co.op, !.remote = FailedOID(status[p])]
  <2>1. /\ UNCHANGED <<phase, broken, config, queue, journal>> /\ Release /\ applyStatus(p, s, outcome.failures)
        /\ co.pc = "fail_status"
    BY <1>6 DEF FailStatus, WorkerFrame, MemoryFrame, process
  <2>2. outcome.state \in GitStates /\ outcome.failures \in FailureActions BY ClassifyType
  <2>3. outcome.state \notin {"syncing", "initializing"} BY DEF ClassifyGitOutcome, Outcome
  <2> HIDE DEF outcome
  <2>4. co'.pc = "free" /\ co.pc \in JobLabels /\ co.pc \in RowLabels BY <2>1, ReleasePc DEF JobLabels, RowLabels
  <2>5. s \in Statuses /\ ~Busy(s)
    <3>1. FailedOID(status[p]) \in Nat /\ co.op \in Nat /\ status[p] \in Statuses
      BY <1>0, <2>4, RowType DEF FailedOID, Keep, Rows, Statuses, Locals, Results, Oids, TypeInv, TypeOK
    <3>2. s \in Statuses BY <2>2, <3>1, Zenon DEF Statuses, Oids
    <3>3. s.state = outcome.state BY <3>1 DEF Statuses
    <3> QED BY <2>3, <3>2, <3>3 DEF Busy
  <2> HIDE DEF s
  <2>6. ~Busy(status'[p]) /\ \A q \in Paths : q # p => status'[q] = status[q] BY <2>1, <2>2, <2>5, AppliedShows
  <2> QED BY <2>1, <2>4, <2>6, EndTold DEF ReportLabels
<1> QED BY <1>1, <1>2, <1>3, <1>4, <1>5, <1>6 DEF JobStep, QuietStep

-----------------------------------------------------------------------------
(* What recovery plans: it always shows the base anew, and never at work. *)

LEMMA ShowsOf ==
  ASSUME NEW a, NEW b, IsStatusWrite(a) \/ IsStatusWrite(b)
  PROVE  Shows(<<a, b>>) /\ \A k, c : Shows((IF c THEN <<k>> ELSE <<>>) \o <<a, b>>)
<1>1. DOMAIN <<a, b>> = {1, 2} /\ <<a, b>>[1] = a /\ <<a, b>>[2] = b OBVIOUS
<1> HIDE DEF IsStatusWrite
<1>2. Shows(<<a, b>>) BY <1>1 DEF Shows
<1>3. ASSUME NEW k, NEW c PROVE Shows((IF c THEN <<k>> ELSE <<>>) \o <<a, b>>)
  <2> DEFINE S == {a, b, k}
             u == IF c THEN <<k>> ELSE <<>>
             v == <<a, b>>
             w == u \o v
  <2>1. v \in Seq(S) /\ Len(v) = 2 /\ v[1] = a /\ v[2] = b OBVIOUS
  <2>2. u \in Seq(S)
    <3>1. <<k>> \in Seq(S) OBVIOUS
    <3>2. <<>> \in Seq(S) BY EmptySeq
    <3> QED BY <3>1, <3>2
  <2> HIDE DEF S, u, v
  <2>3. /\ w \in Seq(S) /\ Len(w) = Len(u) + Len(v)
        /\ \A n \in 1 .. Len(u) + Len(v) : w[n] = IF n <= Len(u) THEN u[n] ELSE v[n - Len(u)]
    BY <2>1, <2>2, ConcatProperties
  <2>4. Len(u) \in Nat BY <2>2, LenProperties
  <2>5. /\ w \in Seq(S) /\ Len(w) = Len(u) + 2 /\ Len(u) \in Nat
        /\ \A n \in 1 .. Len(u) + 2 : w[n] = IF n <= Len(u) THEN u[n] ELSE v[n - Len(u)]
    BY <2>1, <2>3, <2>4
  <2>6. DOMAIN w = 1 .. Len(u) + 2 BY <2>5, LenProperties
  <2> HIDE DEF w
  <2>7. /\ Len(u) + 1 \in DOMAIN w /\ w[Len(u) + 1] = a
        /\ Len(u) + 2 \in DOMAIN w /\ w[Len(u) + 2] = b
    BY <2>1, <2>5, <2>6
  <2>8. Shows(w) BY <2>7 DEF Shows
  <2> QED BY <2>8 DEF w, u, v
<1> QED BY <1>2, <1>3

LEMMA ShowsAlone == ASSUME NEW a, IsStatusWrite(a) PROVE Shows(<<a>>)
<1>1. 1 \in DOMAIN <<a>> /\ <<a>>[1] = a OBVIOUS
<1> HIDE DEF IsStatusWrite
<1> QED BY <1>1 DEF Shows

\* Every plan writes a status.
LEMMA PlanShows == ASSUME NEW p, NEW found PROVE Shows(RecoveryPlan(p, found).writes)
<1> DEFINE i == ActiveByPath(p)
           row == journal[p][i]
           state == Settled(p, found)
<1>0. /\ \A s, j, action : IsStatusWrite(Status(p, found, s, j, action))
      /\ \A s : IsStatusWrite(Published(p, found, s))
  BY DEF Status, Published, IsStatusWrite
<1> HIDE DEF i, row, state
<1>1. Shows(RecoverSettled(p, found).writes)
  <2>1. \/ RecoverSettled(p, found).writes = <<Status(p, found, "error", recoveryOperation(p), "preserve")>>
        \/ RecoverSettled(p, found).writes = <<Published(p, found, state)>>
    BY DEF RecoverSettled, Plan, state
  <2> QED BY <1>0, <2>1, ShowsAlone
<1>2. Shows(RecoverAbort(p, row, found).writes)
  <2> DEFINE s == Status(p, found, "paused", i, "preserve")
             t == Status(p, found, "conflict", originalConflict(p), "preserve")
             j == Journal(Finished(row, "succeeded", "completed", NoResult))
             k == Journal(Finished(row, "failed", "queued", NoResult))
  <2>1. RecoverAbort(p, row, found).writes \in {<<s, j>>, <<k, t>>} BY DEF RecoverAbort, Plan, i
  <2>2. IsStatusWrite(s) /\ IsStatusWrite(t) BY <1>0
  <2> HIDE DEF s, t, j, k
  <2> QED BY <2>1, <2>2, ShowsOf
<1>3. Shows(RecoverCompletion(p, row, found).writes)
  <2> DEFINE reindexed == Checkpointed(row, [CheckpointOf(row) EXCEPT !.stage = "conflict_reindexed"])
             current == IF found.state = "needs_reindex" THEN reindexed ELSE row
             s == Status(p, found, "ready", i, "reset")
             j == Journal(Finished(row, "succeeded", "completed", [remote |-> found.remote, push |-> 0]))
             t == Status(p, found, "error", i, "preserve")
             k == Journal(Finished(current, "failed", "queued", NoResult))
             c == current # row
             l == Journal(current)
  <2>1. \/ RecoverCompletion(p, row, found).writes = <<s, j>>
        \/ RecoverCompletion(p, row, found).writes = (IF c THEN <<l>> ELSE <<>>) \o <<t, k>>
    BY Zenon DEF RecoverCompletion, Plan, i
  <2>2. IsStatusWrite(s) /\ IsStatusWrite(t) BY <1>0
  <2> HIDE DEF s, t, j, k, c, l
  <2>3. Shows(<<s, j>>) /\ Shows((IF c THEN <<l>> ELSE <<>>) \o <<t, k>>) BY <2>2, ShowsOf
  <2> QED BY <2>1, <2>3
<1>4. Shows(RecoverInterrupted(p, row, found).writes)
  <2> DEFINE conflict == found.conflict \/ durableConflict(p)
             trusted == Checkpointed(row, [CheckpointOf(row) EXCEPT !.remote = found.remote])
             c == found.remote # 0 /\ found.remote # row.remote
             current == IF c THEN trusted ELSE row
             l == Journal(trusted)
             k == Journal(Finished(current, IF conflict THEN "conflict" ELSE "failed", "queued", NoResult))
             t == Published(p, found, state)
  <2>1. RecoverInterrupted(p, row, found).writes = (IF c THEN <<l>> ELSE <<>>) \o <<k, t>>
    BY Zenon DEF RecoverInterrupted, Plan, state
  <2>2. IsStatusWrite(t) BY <1>0
  <2> HIDE DEF c, l, k, t
  <2>3. Shows((IF c THEN <<l>> ELSE <<>>) \o <<k, t>>) BY <2>2, ShowsOf
  <2> QED BY <2>1, <2>3
<1>5. RecoveryPlan(p, found) \in {RecoverSettled(p, found), RecoverAbort(p, row, found),
                                  RecoverCompletion(p, row, found), RecoverInterrupted(p, row, found)}
  BY Zenon DEF RecoveryPlan, i, row
<1> QED BY <1>1, <1>2, <1>3, <1>4, <1>5

LEMMA KeepsResting ==
  ASSUME TypeInv, NEW p \in Paths, NEW found, found.remote \in Nat
  PROVE  KeepsTo(RestingWrites, p, found)
<1>1. \A row \in Rows : Journal(row) \in RestingWrites
  BY JournalWriteType, JournalWrites DEF RestingWrites
<1>2. \A state \in PlannedStates : state \in GitStates \cup {"absent"} /\ state \notin {"syncing", "initializing"}
  BY DEF PlannedStates, GitStates
<1>3. ASSUME NEW state \in PlannedStates, NEW op \in Nat, NEW action \in {"preserve", "reset"}
      PROVE  Status(p, found, state, op, action) \in RestingWrites
  <2>1. action \in FailureActions /\ action # "increment" BY DEF FailureActions
  <2>2. Status(p, found, state, op, action) \in Writes BY <1>2, <2>1, StatusWriteType
  <2>3. Status(p, found, state, op, action)[2].state = state BY <2>1, TransitionState DEF Status
  <2> QED BY <1>2, <2>2, <2>3 DEF RestingWrites, Busy
<1>4. ASSUME NEW state \in PlannedStates PROVE Published(p, found, state) \in RestingWrites
  <2>1. Published(p, found, state) \in Writes BY <1>2, StatusWriteType
  <2>2. Published(p, found, state)[2].state = state BY TransitionState DEF Published
  <2> QED BY <1>2, <2>1, <2>2 DEF RestingWrites, Busy
<1> QED BY <1>1, <1>3, <1>4 DEF KeepsTo

-----------------------------------------------------------------------------
(* Recovery, the surroundings, and the whole. *)

\* A base that recovery inspects is not yet rested: its plan has still to show it.
LEMMA RecoverBaseTold == ASSUME TypeInv, Told, ~Fault, NEW p \in Paths, RecoverBase(p) PROVE Told'
<1>1. /\ UNCHANGED <<config, journal, status, phase, queue>> /\ phase = "recovering" /\ co.pc = "free"
      /\ pending' = pending \ {p}
  BY DEF RecoverBase, Free, durable
<1> DEFINE found == Inspected(p, recoveryOperation(p))
           plan == RecoveryPlan(p, found)
<1>2. /\ UNCHANGED broken
      /\ co' = [Idle EXCEPT !.pc = "recover", !.path = p, !.op = RecoveredRow(p),
                            !.plan = plan.writes, !.fallback = plan.fallback]
  BY DEF RecoverBase
<1>3. co'.pc = "recover" /\ co'.path = p /\ co'.plan = plan.writes BY <1>2 DEF Idle
<1>4. plan.writes \in Seq(RestingWrites) BY InspectedType, KeepsResting, RecoveryPlanKeeps
<1>5. Shows(plan.writes) BY PlanShows
<1> HIDE DEF found, plan
<1>6. HolderTold' BY <1>3, <1>4 DEF HolderTold
<1>7. ASSUME NEW q \in Paths PROVE Shown(q)'
  <2>1. StaleJobs(q)' = StaleJobs(q) BY <1>1 DEF StaleJobs
  <2>2. q = p => Planned(q)' BY <1>3, <1>5 DEF Planned
  <2>3. q # p => (q \in pending' <=> q \in pending) /\ ~Planned(q) BY <1>1 DEF Planned
  <2>4. Rested(q)' => Rested(q) BY <1>1, <1>3, <2>1, <2>2, <2>3 DEF Rested, RestLabels
  <2>5. Shown(q) BY DEF Told
  <2> QED BY <1>1, <2>4, <2>5 DEF Shown
<1> QED BY <1>2, <1>6, <1>7 DEF Told

LEMMA ApplyWriteTold == ASSUME TypeInv, Serial, Told, ~Fault, ApplyWrite PROVE Told'
<1> PICK p \in Paths : p = co.path BY RepoType
<1> DEFINE write == Head(co.plan)
           rest == Tail(co.plan)
<1>1. /\ UNCHANGED <<config, phase, pending, queue, broken>> /\ co.pc = "recover" /\ co.plan # <<>>
      /\ NextWrite(rest)
  BY DEF ApplyWrite
<1>2. phase = "recovering" BY <1>1 DEF Serial, Phased
<1>3. co.plan \in Seq(RestingWrites) BY <1>1 DEF Told, HolderTold
<1>4. write \in RestingWrites /\ rest \in Seq(RestingWrites) BY <1>1, <1>3, HeadTailProperties
<1>5. IsStatusWrite(write) \/ (Shows(co.plan) => Shows(rest))
  <2>1. /\ Len(co.plan) \in Nat /\ DOMAIN co.plan = 1 .. Len(co.plan) /\ write = co.plan[1]
        /\ Len(rest) = Len(co.plan) - 1 /\ \A k \in 1 .. Len(rest) : rest[k] = co.plan[k + 1]
    BY <1>1, <1>3, HeadTailProperties, LenProperties
  <2>2. DOMAIN rest = 1 .. Len(rest) BY <1>4, LenProperties
  <2> HIDE DEF write, rest, IsStatusWrite
  <2>3. \A k \in DOMAIN co.plan : k = 1 \/ (k - 1 \in DOMAIN rest /\ rest[k - 1] = co.plan[k])
    BY <2>1, <2>2
  <2> QED BY <2>1, <2>3 DEF Shows
<1>6. /\ \A q \in Paths : q # p => status'[q] = status[q]
      /\ \/ ~IsStatusWrite(write) /\ status'[p] = status[p]
         \/ IsStatusWrite(write) /\ status'[p] = write[2]
  BY DEF ApplyWrite, IsStatusWrite, TypeInv, TypeOK
<1>7. Shows(rest) => rest # <<>> BY DEF Shows
<1> HIDE DEF write, rest
<1>8. \/ co' = Idle /\ rest = <<>>
      \/ co'.pc = "recover" /\ co'.path = p /\ co'.plan = rest
  BY <1>1, RepoType DEF NextWrite, Locals
<1>9. co'.pc \in {"free", "recover"} BY <1>8 DEF Idle
<1>10. HolderTold' BY <1>4, <1>8, <1>9 DEF HolderTold, Idle
<1>11. ASSUME NEW q \in Paths PROVE Shown(q)'
  <2>1. StaleJobs(q)' = StaleJobs(q) BY <1>1 DEF StaleJobs
  <2>2. Shown(q) BY DEF Told
  <2>3. CASE q # p
    <3>1. ~Planned(q) BY <2>3 DEF Planned
    <3>2. Rested(q)' => Rested(q) BY <1>1, <1>9, <2>1, <3>1 DEF Rested, RestLabels
    <3> QED BY <1>1, <1>2, <1>6, <2>2, <2>3, <3>2 DEF Shown
  <2>4. CASE q = p /\ IsStatusWrite(write)
    <3>1. ~Busy(status'[p]) BY <1>4, <1>6, <2>4 DEF RestingWrites
    <3> QED BY <2>4, <3>1, RestShown
  <2>5. CASE q = p /\ ~IsStatusWrite(write)
    <3>1. Planned(p) => Planned(p)' BY <1>5, <1>7, <1>8, <2>5 DEF Planned
    <3>2. Rested(p)' => Rested(p) BY <1>1, <1>9, <2>1, <2>5, <3>1 DEF Rested, RestLabels
    <3> QED BY <1>1, <1>2, <1>6, <2>2, <2>5, <3>2 DEF Shown
  <2> QED BY <2>3, <2>4, <2>5
<1> QED BY <1>1, <1>10, <1>11 DEF Told

\* The memory of a process goes with it, and with it every job that is out of date.
LEMMA DownTold == ASSUME Told, Down, UNCHANGED <<config, status>> PROVE Told'
<1>1. phase' = "down" /\ ~broken' /\ queue' = <<>> /\ co'.pc = "free" BY DEF Down, Idle
<1>2. HolderTold' BY <1>1 DEF HolderTold
<1>3. ASSUME NEW q \in Paths PROVE Shown(q)'
  <2>1. StaleJobs(q)' = {} BY <1>1 DEF StaleJobs
  <2>2. Rested(q)' => Rested(q) BY <1>1, <2>1 DEF Rested, RestLabels
  <2> QED BY <1>1, <2>2 DEF Told, Shown
<1> QED BY <1>1, <1>2, <1>3 DEF Told

LEMMA ProcessTold ==
  ASSUME TypeInv, Serial, Told, ~Fault, RecoveryStep \/ Exit \/ Surroundings PROVE Told'
<1> USE DEF durable, memory, process
<1>1. CASE \E p \in Paths : RecoverBase(p) BY <1>1, RecoverBaseTold
<1>2. CASE ApplyWrite BY <1>2, ApplyWriteTold
<1>3. CASE Serve
  <2>1. /\ UNCHANGED <<status, broken, co>> /\ phase = "recovering" /\ pending = {} /\ co.pc = "free"
    BY <1>3 DEF Serve, Told, Free
  <2>2. ASSUME NEW q \in Paths PROVE Shown(q)'
    <3>1. Rested(q) BY <2>1 DEF Rested, Planned
    <3>2. ~Busy(status'[q]) BY <2>1, <3>1 DEF Told, Shown
    <3> QED BY <3>2, RestShown
  <2> QED BY <2>1, <2>2 DEF Told, HolderTold
<1>4. CASE Boot
  <2>1. /\ UNCHANGED <<status, config, queue, co>> /\ phase' = "recovering" /\ ~broken'
        /\ pending' = {p \in Paths : config[p] # NoConfig}
    BY <1>4 DEF Boot
  <2>2. ASSUME NEW q \in Paths PROVE Shown(q)'
    <3>1. StaleJobs(q)' = StaleJobs(q) BY <2>1 DEF StaleJobs
    <3>2. Rested(q)' => Rested(q) BY <2>1, <3>1 DEF Rested
    <3> QED BY <2>1, <3>2 DEF Told, Shown
  <2> QED BY <2>1, <2>2 DEF Told, HolderTold
<1>5. CASE Close \/ \E p \in Paths : NoteWrite(p) \/ OtherDevicePush(p)
  <2>1. /\ UNCHANGED <<status, config, journal, queue, co, pending, broken>>
        /\ phase' = phase \/ (phase = "serving" /\ phase' = "closing")
    BY <1>5 DEF Close, NoteWrite, OtherDevicePush, Serving
  <2>2. ASSUME NEW q \in Paths PROVE Shown(q)'
    <3>1. /\ StaleJobs(q)' = StaleJobs(q) /\ ActiveRows(q)' = ActiveRows(q)
          /\ Planned(q)' = Planned(q) /\ Reporting(q)' = Reporting(q)
      BY <2>1 DEF StaleJobs, ActiveRows, Op, Planned, Reporting
    <3>2. Rested(q)' => Rested(q) BY <2>1, <3>1 DEF Rested
    <3> QED BY <2>1, <3>1, <3>2 DEF Told, Shown
  <2> QED BY <2>1, <2>2 DEF Told, HolderTold
<1>6. CASE Exit \/ Crash BY <1>6, DownTold DEF Exit, Crash
<1> QED BY <1>1, <1>2, <1>3, <1>4, <1>5, <1>6 DEF RecoveryStep, Surroundings

LEMMA InitTold == ASSUME Init PROVE Working
<1>1. /\ status = [p \in Paths |-> IF p \in Connected THEN ConnectedStatus ELSE NoStatus]
      /\ ~broken /\ co = Idle
  BY DEF Init
<1>2. \A p \in Paths : ~Busy(status[p]) BY <1>1 DEF ConnectedStatus, NoStatus, Busy
<1>3. co.pc = "free" BY <1>1 DEF Idle
<1> QED BY <1>1, <1>2, <1>3 DEF Working, Told, HolderTold, Shown

LEMMA WorkingStep == ASSUME TypeInv, Serial, Alive, Fence, Working, [Next]_vars PROVE Working'
<1> SUFFICES ASSUME spent'.faults = 0 PROVE Told' BY DEF Working
<1>1. Told /\ ~Fault BY FaultsGrow DEF Working
<1>2. CASE UNCHANGED vars
  <2>1. UNCHANGED <<config, status, journal, phase, pending, broken, queue, co>>
    BY <1>2 DEF vars, durable, process, memory
  <2>2. ASSUME NEW q \in Paths PROVE Shown(q)'
    <3>1. /\ StaleJobs(q)' = StaleJobs(q) /\ ActiveRows(q)' = ActiveRows(q)
          /\ Planned(q)' = Planned(q) /\ Reporting(q)' = Reporting(q)
      BY <2>1 DEF StaleJobs, ActiveRows, Op, Planned, Reporting
    <3>2. Rested(q)' => Rested(q) BY <2>1, <3>1 DEF Rested
    <3> QED BY <1>1, <2>1, <3>1, <3>2 DEF Told, Shown
  <2> QED BY <1>1, <2>1, <2>2 DEF Told, HolderTold
<1> QED
  BY <1>1, <1>2, RequestsTold, AdmissionTold, TakeTold, JobTold, ProcessTold DEF Next

\* Invariance of Working: what keeps a base from being shown at work that has no work.
THEOREM WorkingInvariant == Spec => []Working
<1>1. Init => Working BY InitTold
<1>2. TypeInv /\ Serial /\ Alive /\ Fence /\ Working /\ [Next]_vars => Working' BY WorkingStep
<1> QED BY <1>1, <1>2, TypesInvariant, SerialInvariant, AliveInvariant, FenceInvariant, PTL DEF Spec

\* As long as no write fails, a base shown at work, in a process that serves it and between
\* two holders of the coordinator, has the unfinished operation that its status names: what
\* the poller and the scheduler wait for.  A restart does not lose it: recovery shows
\* every configured base anew before it is served.
THEOREM ShownWorkIsUnfinished == Spec => []WorkingMeansUnfinished
<1>1. ASSUME Working PROVE WorkingMeansUnfinished
  <2> SUFFICES ASSUME Serving, Free, spent.faults = 0, NEW p \in Paths, Busy(status[p])
               PROVE  status[p].op \in ActiveRows(p)
    BY DEF WorkingMeansUnfinished, Busy
  <2>1. Shown(p) /\ ~Reporting(p) BY <1>1 DEF Working, Told, Reporting, Free, ReportLabels
  <2> QED BY <2>1 DEF Shown, Serving
<1> QED BY <1>1, WorkingInvariant, PTL
=============================================================================
