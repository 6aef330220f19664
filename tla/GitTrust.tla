------------------------------ MODULE GitTrust -------------------------------
(***************************************************************************)
(* What the manager trusts, reports and pushes, proved for every set of    *)
(* bases, every set of configurations and every bound: a trusted commit and *)
(* the commit of a successful operation have been the head of the remote,   *)
(* and a push replaces the remote head by one of its descendants only.      *)
(*                                                                         *)
(* None of these is inductive.  The commit a job pushes is frozen in its    *)
(* checkpoint many steps before the push, and the journal row, the status   *)
(* and the trusted ref get their OIDs from that checkpoint, or, after a     *)
(* restart, from one another.  So the invariant follows the checkpoint of   *)
(* the holder of the coordinator along its way (Holder), and the OIDs of    *)
(* rows, statuses and repositories (Data).                                  *)
(***************************************************************************)
EXTENDS GitSerial

\* The steps a checkpoint is saved for, and those that follow the end of a worktree
\* transaction.
Steps == JobLabels \ {"journal", "publish"}
Returns == {"fetch", "push", "sync_index", "aborted", "succeed_journal"}

\* What a step of a job needs of its checkpoint, and of the step after its worktree
\* transaction: the push the frozen merge of a candidate, the steps after it a
\* published commit, the merge a published candidate.
Needs(label, ck, after, row, r, pub) ==
  /\ label \in {"push", "sync_index", "save_conflict_pushing"} =>
       ck.push = r.head /\ r.head \in r.history /\ ck.candidate \in r.history
  /\ label \in {"settle", "succeed_journal", "succeed_status"} => ck.push \in pub
  /\ \/ label \in {"trust", "open_snapshot", "merge", "run_merge", "commit_merge"}
     \/ label = "commit" /\ row.kind = "sync"
     => ck.candidate \in pub
  /\ label = "verify_completion" => ck.candidate = row.candidate
  /\ label \in {"probe", "create_repository"} => row.kind = "initialize"
  /\ label = "open_snapshot" => row.kind = "sync"
  /\ label \in {"verify_abort", "abort_merge", "aborted", "abort_status", "abort_journal"} =>
       row.kind = "conflict_abort"
  /\ label \in {"merge", "run_merge"} => after = "push"
  /\ label = "commit" => after = IF row.kind = "sync" THEN "push" ELSE "fetch"
  /\ label = "abort_merge" => after = "aborted"

\* The holder is at that step, or will be when its checkpoint is saved.
Ahead(c, label) == c.pc = label \/ (c.pc \in {"journal", "publish"} /\ c.next = label)
\* It will leave the worktree, without an error.
Leaves(c) == Ahead(c, "leave") /\ c.err = NoError
\* It will report the commit of its row.
Reports(c) == Ahead(c, "succeed_journal") \/ (Leaves(c) /\ c.after = "succeed_journal")

Flow(c, row, r, pub) ==
  /\ Needs(c.pc, c.ck, c.after, row, r, pub)
  /\ c.pc \in {"journal", "publish"} => c.next \in Steps /\ Needs(c.next, c.ck, c.after, row, r, pub)
  /\ Leaves(c) => c.after \in Returns /\ Needs(c.after, c.ck, c.after, row, r, pub)
  /\ Reports(c) /\ c.pc # "journal" => row.push = c.ck.push

RowFine(row, pub) ==
  /\ row.remote \in pub \cup {0} /\ row.candidate \in pub \cup {0}
  /\ row.state = "succeeded" /\ row.kind # "conflict_abort" => row.push \in pub
StatusFine(s, pub) == s.remote \in pub \cup {0}
RepoFine(r, pub) ==
  /\ r.managed \in pub \cup {0} /\ 0 \notin r.history
  /\ IF r.head = 0 THEN r.history = {} ELSE r.head \in r.history
  /\ r.merge # "none" => r.mergeHead \in pub
WriteFine(w, pub) == IF w[1] = "journal" THEN RowFine(w[2], pub) ELSE StatusFine(w[2], pub)

HolderFine(c, row, r, pub) ==
  /\ c.pc = "free" => c = Idle
  /\ {c.ck.remote, c.ck.candidate, c.res.remote, c.prev.remote} \subseteq pub \cup {0}
  /\ c.pc = "recover" => /\ \A k \in DOMAIN c.plan : WriteFine(c.plan[k], pub)
                         /\ \A k \in DOMAIN c.fallback : WriteFine(c.fallback[k], pub)
  /\ Flow(c, row, r, pub)

\* The inductive invariant.
ServerFine == \A p \in Paths : server[p] \in published[p] /\ 0 \notin published[p]
RowsFine == \A p \in Paths : \A i \in Op(p) : RowFine(journal[p][i], published[p])
StatusesFine == \A p \in Paths : StatusFine(status[p], published[p])
ReposFine == \A p \in Paths : RepoFine(repo[p], published[p])
Data == ServerFine /\ RowsFine /\ StatusesFine /\ ReposFine
Holder == HolderFine(co, Row, Repo, published[co.path])
Trusted == Data /\ Holder

-----------------------------------------------------------------------------
(* How the parts of the invariant survive a change. *)

\* Nothing is ever unpublished.
Grows == \A p \in Paths : published[p] \subseteq published'[p]

LEMMA FineGrows ==
  ASSUME NEW pub, NEW bigger, pub \subseteq bigger
  PROVE  /\ \A row : RowFine(row, pub) => RowFine(row, bigger)
         /\ \A s : StatusFine(s, pub) => StatusFine(s, bigger)
         /\ \A w : WriteFine(w, pub) => WriteFine(w, bigger)
BY DEF RowFine, StatusFine, WriteFine

\* A repository whose merge and refs a step leaves alone.
LEMMA RepoGrows ==
  ASSUME NEW pub, NEW bigger, pub \subseteq bigger, NEW r, RepoFine(r, pub), NEW s,
         s.managed = r.managed, s.history = r.history, s.head = r.head, s.merge = r.merge,
         s.mergeHead = r.mergeHead
  PROVE  RepoFine(s, bigger)
BY DEF RepoFine

\* An UPDATE of a row of the journal.
LEMMA WriteAt ==
  ASSUME TypeInv, NEW p \in Paths, NEW i \in Op(p), NEW row, WriteRow(p, i, row)
  PROVE  journal'[p][i] = row
<1>1. journal[p] \in Seq(Rows) BY DEF TypeInv, TypeOK
<1> QED BY <1>1 DEF WriteRow, Op, TypeInv, TypeOK

LEMMA RowsWrite ==
  ASSUME TypeInv, RowsFine, Grows, NEW p \in Paths, NEW i, NEW row, WriteRow(p, i, row),
         RowFine(row, published'[p])
  PROVE  RowsFine'
<1> SUFFICES ASSUME NEW q \in Paths, NEW j \in Op(q)' PROVE RowFine(journal'[q][j], published'[q])
  BY DEF RowsFine
<1>1. j \in Op(q) BY WriteFacts DEF Op
<1>2. CASE q = p /\ j = i BY <1>1, <1>2, WriteAt
<1>3. CASE q # p \/ j # i
  <2>1. journal'[q][j] = journal[q][j] BY <1>3, WriteFacts
  <2>2. RowFine(journal[q][j], published[q]) BY <1>1 DEF RowsFine
  <2> QED BY <2>1, <2>2, FineGrows DEF Grows
<1> QED BY <1>2, <1>3

LEMMA RowsCreate ==
  ASSUME TypeInv, RowsFine, Grows, NEW p \in Paths, NEW row \in Rows, CreateQueued(p, row),
         RowFine(row, published'[p])
  PROVE  RowsFine'
<1> SUFFICES ASSUME NEW q \in Paths, NEW j \in Op(q)' PROVE RowFine(journal'[q][j], published'[q])
  BY DEF RowsFine
<1>1. CASE q # p
  <2>1. journal'[q] = journal[q] BY <1>1, CreateFacts
  <2>2. RowFine(journal[q][j], published[q]) BY <2>1 DEF RowsFine, Op
  <2> QED BY <2>1, <2>2, FineGrows DEF Grows
<1>2. CASE q = p
  <2>1. j \in 1 .. Len(journal[p]) + 1 BY <1>2, CreateFacts DEF Op
  <2>2. CASE j = Len(journal[p]) + 1 BY <1>2, <2>2, CreateFacts
  <2>3. CASE j # Len(journal[p]) + 1
    <3>1. j \in 1 .. Len(journal[p]) BY <2>1, <2>3, OpFacts
    <3>2. journal'[q][j] = journal[q][j] BY <1>2, <3>1, CreateFacts
    <3>3. RowFine(journal[q][j], published[q]) BY <1>2, <3>1, OpFacts DEF RowsFine
    <3> QED BY <3>2, <3>3, FineGrows DEF Grows
  <2> QED BY <2>2, <2>3
<1> QED BY <1>1, <1>2

\* The rows, the statuses, or the repositories as they were.
LEMMA SameData ==
  ASSUME Grows
  PROVE  /\ RowsFine /\ UNCHANGED journal => RowsFine'
         /\ StatusesFine /\ UNCHANGED status => StatusesFine'
         /\ ReposFine /\ UNCHANGED repo => ReposFine'
<1>1. RowsFine /\ UNCHANGED journal => RowsFine' BY FineGrows DEF Grows, RowsFine, Op
<1>2. StatusesFine /\ UNCHANGED status => StatusesFine' BY FineGrows DEF Grows, StatusesFine
<1>3. ReposFine /\ UNCHANGED repo => ReposFine' BY RepoGrows DEF Grows, ReposFine
<1> QED BY <1>1, <1>2, <1>3

LEMMA StatusWrite ==
  ASSUME TypeInv, StatusesFine, Grows, NEW p \in Paths, NEW s, status' = [status EXCEPT ![p] = s],
         StatusFine(s, published'[p])
  PROVE  StatusesFine'
BY FineGrows DEF Grows, StatusesFine, TypeInv, TypeOK

\* ApplyTransition keeps the OID it is given.
LEMMA StatusApply ==
  ASSUME TypeInv, StatusesFine, Grows, NEW p \in Paths, NEW s \in Statuses, NEW action,
         applyStatus(p, s, action), StatusFine(s, published'[p])
  PROVE  StatusesFine'
<1>1. StatusFine(ApplyTransition(status[p], s, action), published'[p])
  BY DEF StatusFine, ApplyTransition, Statuses
<1>2. status' = [status EXCEPT ![p] = ApplyTransition(status[p], s, action)]
  BY DEF applyStatus, TypeInv, TypeOK
<1> QED BY <1>1, <1>2, StatusWrite

LEMMA RepoWrite ==
  ASSUME TypeInv, ReposFine, Grows, NEW p \in Paths, NEW r, UpdateRepo(p, r),
         RepoFine(r, published'[p])
  PROVE  ReposFine'
BY RepoGrows DEF Grows, ReposFine, UpdateRepo, TypeInv, TypeOK

-----------------------------------------------------------------------------
(* How the holder survives a change. *)

LEMMA IdleFine ==
  ASSUME NEW row, NEW r, NEW pub PROVE HolderFine(Idle, row, r, pub)
BY DEF HolderFine, Flow, Needs, Idle, Ahead, Leaves, Reports, NoResult, NoStatus

\* The labels of Flow: a holder at none of them has only its OIDs to show.
LEMMA OutsideFlow ==
  ASSUME NEW c, c.pc \notin JobLabels, NEW row, NEW r, NEW pub
  PROVE  Flow(c, row, r, pub)
BY DEF Flow, Needs, Ahead, Leaves, Reports, JobLabels

\* The same holder over a row and a repository whose relevant parts are the same.
LEMMA SameHolder ==
  ASSUME NEW c, NEW row, NEW r, NEW pub, HolderFine(c, row, r, pub),
         NEW row2, row2.kind = row.kind, row2.push = row.push, row2.candidate = row.candidate,
         NEW s, s.head = r.head, s.history = r.history, NEW bigger, pub \subseteq bigger
  PROVE  HolderFine(c, row2, s, bigger)
<1>1. Flow(c, row2, s, bigger) BY DEF HolderFine, Flow, Needs
<1>2. \A w : WriteFine(w, pub) => WriteFine(w, bigger) BY FineGrows
<1> QED BY <1>1, <1>2 DEF HolderFine

\* What a step of a job knows.
LEMMA JobFacts ==
  ASSUME TypeInv, Trusted, co.pc \in JobLabels
  PROVE  /\ co \in Locals /\ co.path \in Paths /\ co.op \in Op(co.path)
         /\ Row \in Rows /\ Repo \in Repos /\ status[co.path] \in Statuses
         /\ RowFine(Row, published[co.path]) /\ RepoFine(Repo, published[co.path])
         /\ StatusFine(status[co.path], published[co.path])
         /\ server[co.path] \in published[co.path] /\ 0 \notin published[co.path]
         /\ HolderFine(co, Row, Repo, published[co.path])
<1>1. co.pc \in RowLabels BY DEF RowLabels
<1>2. co.path \in Paths /\ Row \in Rows /\ co.op \in Op(co.path) BY <1>1, RowType DEF TypeInv, RowsExist
<1> QED BY <1>2 DEF Trusted, Data, ServerFine, RowsFine, StatusesFine, ReposFine, Holder, Row, Repo,
                    TypeInv, TypeOK

\* A step that may change its repository and nothing else of what is durable.
LEMMA CommandFine ==
  ASSUME TypeInv, Trusted, co.pc \in JobLabels, NEW r, UpdateRepo(co.path, r) \/ (r = Repo /\ UNCHANGED repo),
         UNCHANGED <<journal, status, server, published>>, co'.path = co.path, co'.op = co.op,
         RepoFine(r, published[co.path]), HolderFine(co', Row, r, published[co.path])
  PROVE  Trusted'
<1>1. co.path \in Paths BY JobFacts
<1>2. Grows BY DEF Grows
<1>3. ReposFine' BY <1>1, <1>2, RepoWrite, SameData DEF Trusted, Data
<1>4. Data' BY <1>2, <1>3, SameData DEF Trusted, Data, ServerFine
<1>5. Row' = Row /\ Repo' = r /\ published'[co'.path] = published[co.path]
  BY <1>1 DEF Row, Repo, UpdateRepo, TypeInv, TypeOK
<1> QED BY <1>4, <1>5 DEF Trusted, Holder

\* A failure keeps the OIDs and needs nothing.
LEMMA FailFine ==
  ASSUME co \in Locals, NEW code \in ErrorCodes \ {NoError}, Fail(code), NEW row, NEW r, NEW pub, NEW old,
         HolderFine(co, row, old, pub)
  PROVE  \A any : HolderFine(co', any, r, pub) /\ co'.path = co.path /\ co'.op = co.op
<1>1. /\ co'.pc \in {"leave", "failed"} /\ co'.err # NoError
      /\ co'.ck = co.ck /\ co'.res = co.res /\ co'.prev = co.prev /\ co'.path = co.path /\ co'.op = co.op
  BY DEF Fail, Locals, NoError
<1> QED BY <1>1 DEF HolderFine, Flow, Needs, Ahead, Leaves, Reports

\* A checkpoint is to be saved, whose step finds what it needs.
LEMMA NextFine ==
  ASSUME NEW c, NEW row, NEW r, NEW pub, c.pc = "journal", c.next \in Steps \ {"leave"},
         Needs(c.next, c.ck, c.after, row, r, pub),
         {c.ck.remote, c.ck.candidate, c.res.remote, c.prev.remote} \subseteq pub \cup {0}
  PROVE  HolderFine(c, row, r, pub)
<1>1. Flow(c, row, r, pub) BY DEF Flow, Needs, Ahead, Leaves, Reports
<1> QED BY <1>1 DEF HolderFine

LEMMA SaveFine ==
  ASSUME co \in Locals, NEW ck, NEW label \in Steps \ {"leave"}, Save(ck, label), NEW row, NEW old, NEW r, NEW pub,
         HolderFine(co, row, old, pub), {ck.remote, ck.candidate} \subseteq pub \cup {0},
         Needs(label, ck, co.after, row, r, pub)
  PROVE  HolderFine(co', row, r, pub) /\ co'.path = co.path /\ co'.op = co.op
<1>1. /\ co'.pc = "journal" /\ co'.next = label /\ co'.ck = ck /\ co'.after = co.after
      /\ co'.res = co.res /\ co'.prev = co.prev /\ co'.path = co.path /\ co'.op = co.op
  BY DEF Save, Locals
<1> QED BY <1>1, NextFine DEF HolderFine

\* The last checkpoint before the worktree is left.
LEMMA LeaveFine ==
  ASSUME NEW c, NEW row, NEW r, NEW pub, c.pc = "journal", c.next = "leave",
         c.err = NoError => c.after \in Returns /\ Needs(c.after, c.ck, c.after, row, r, pub),
         {c.ck.remote, c.ck.candidate, c.res.remote, c.prev.remote} \subseteq pub \cup {0}
  PROVE  HolderFine(c, row, r, pub)
<1>1. Flow(c, row, r, pub) BY DEF Flow, Needs, Ahead, Leaves, Reports, Steps, JobLabels
<1> QED BY <1>1 DEF HolderFine

\* A step that is not about a checkpoint, the worktree or the report.
LEMMA StepFine ==
  ASSUME NEW c, NEW row, NEW r, NEW pub, c.pc \in Steps \ {"leave", "succeed_journal"},
         Needs(c.pc, c.ck, c.after, row, r, pub),
         {c.ck.remote, c.ck.candidate, c.res.remote, c.prev.remote} \subseteq pub \cup {0}
  PROVE  HolderFine(c, row, r, pub)
<1>1. Flow(c, row, r, pub) BY DEF Flow, Needs, Ahead, Leaves, Reports, Steps
<1> QED BY <1>1 DEF HolderFine, Steps, JobLabels

-----------------------------------------------------------------------------
(* The Git commands of sync and initialize. *)

LEMMA PreflightTrusted == ASSUME TypeInv, Trusted, Preflight PROVE Trusted'
<1> DEFINE pub == published[co.path]
<1>1. co.pc = "preflight" /\ co.pc \in JobLabels BY DEF Preflight, JobLabels
<1>2. /\ co \in Locals /\ HolderFine(co, Row, Repo, pub) /\ RepoFine(Repo, pub)
      /\ UNCHANGED <<journal, status, server, published, repo>>
  BY <1>1, JobFacts DEF Preflight, CommandFrame, RepoFrame, WorkerFrame
<1>3. co'.path = co.path /\ co'.op = co.op /\ HolderFine(co', Row, Repo, pub)
  <2>1. CASE co' = [co EXCEPT !.tx = TRUE, !.err = "git_conflict", !.ck = At("merging"),
                              !.pc = "journal", !.next = "leave"]
    <3>1. /\ co'.pc = "journal" /\ co'.next = "leave" /\ co'.err = "git_conflict" /\ co'.res = co.res
          /\ co'.prev = co.prev /\ co'.path = co.path /\ co'.op = co.op
          /\ co'.ck.remote = co.ck.remote /\ co'.ck.candidate = co.ck.candidate
      BY <1>2, <2>1 DEF Locals, At, Checkpoints
    <3>2. co'.err # NoError BY <3>1 DEF NoError
    <3> QED BY <1>2, <3>1, <3>2, LeaveFine DEF HolderFine
  <2>2. CASE Save(At("fetching"), "fetch")
    <3>1. Needs("fetch", At("fetching"), co.after, Row, Repo, pub) /\ "fetch" \in Steps \ {"leave"}
      BY DEF Needs, Steps, JobLabels
    <3>2. {At("fetching").remote, At("fetching").candidate} \subseteq pub \cup {0}
      BY <1>2 DEF HolderFine, At, Locals, Checkpoints
    <3> QED BY <1>2, <2>2, <3>1, <3>2, SaveFine
  <2>3. CASE Fail(IF ~Repo.origin \/ Repo.managed # Row.remote THEN "needs_reconnect" ELSE "git_command_failed")
    BY <1>2, <2>3, FailFine DEF ErrorCodes, SafetyCodes, OperationalCodes, NoError
  <2> QED BY <2>1, <2>2, <2>3 DEF Preflight
<1> QED BY <1>1, <1>2, <1>3, CommandFine

\* The codes a command fails with.
LEMMA Codes ==
  {"git_command_failed", "git_conflict", "needs_reconnect", "operation_interrupted",
   "remote_history_rewritten", "push_rejected", "git_recovery_required"} \subseteq ErrorCodes \ {NoError}
BY DEF ErrorCodes, SafetyCodes, OperationalCodes, NoError

\* The stage of a checkpoint says nothing of its OIDs.
LEMMA AtKeeps ==
  ASSUME co \in Locals, NEW stage
  PROVE  /\ At(stage).remote = co.ck.remote /\ At(stage).candidate = co.ck.candidate
         /\ At(stage).push = co.ck.push /\ At(stage).local = co.ck.local
BY DEF At, Locals, Checkpoints

LEMMA ProbeTrusted == ASSUME TypeInv, Trusted, Probe PROVE Trusted'
<1> DEFINE pub == published[co.path]
<1>1. co.pc = "probe" /\ co.pc \in JobLabels BY DEF Probe, JobLabels
<1>2. /\ co \in Locals /\ HolderFine(co, Row, Repo, pub) /\ RepoFine(Repo, pub)
      /\ UNCHANGED <<journal, status, server, published, repo>>
  BY <1>1, JobFacts DEF Probe, CommandFrame, RepoFrame, WorkerFrame
<1>3. co'.path = co.path /\ co'.op = co.op /\ HolderFine(co', Row, Repo, pub)
  <2>1. CASE Save(At("probing"), "create_repository")
    <3>1. Needs("create_repository", At("probing"), co.after, Row, Repo, pub)
      BY <1>1, <1>2 DEF HolderFine, Flow, Needs
    <3>2. "create_repository" \in Steps \ {"leave"} BY DEF Steps, JobLabels
    <3>3. {At("probing").remote, At("probing").candidate} \subseteq pub \cup {0} BY <1>2, AtKeeps DEF HolderFine
    <3> QED BY <1>2, <2>1, <3>1, <3>2, <3>3, SaveFine
  <2>2. CASE \E code \in {"remote_history_rewritten", "git_command_failed"} : Fail(code)
    BY <1>2, <2>2, FailFine, Codes
  <2> QED BY <2>1, <2>2 DEF Probe
<1> QED BY <1>1, <1>2, <1>3, CommandFine

LEMMA CreateRepositoryTrusted == ASSUME TypeInv, Trusted, CreateRepository PROVE Trusted'
<1> DEFINE pub == published[co.path]
           made == [Repo EXCEPT !.origin = TRUE]
<1>1. co.pc = "create_repository" /\ co.pc \in JobLabels BY DEF CreateRepository, JobLabels
<1>2. /\ co \in Locals /\ HolderFine(co, Row, Repo, pub) /\ RepoFine(Repo, pub) /\ Repo \in Repos
      /\ UNCHANGED <<journal, status, server, published>>
  BY <1>1, JobFacts DEF CreateRepository, CommandFrame, RepoFrame, WorkerFrame
<1>3. RepoFine(made, pub) BY <1>2 DEF RepoFine, Repos
<1>4. \A r : co'.path = co.path /\ co'.op = co.op /\ HolderFine(co', Row, r, pub)
  <2>1. CASE co' = [co EXCEPT !.tx = TRUE, !.after = "fetch", !.ck = At("snapshotting"),
                              !.pc = "journal", !.next = "commit"]
    <3>1. /\ co'.pc = "journal" /\ co'.next = "commit" /\ co'.after = "fetch" /\ co'.res = co.res
          /\ co'.prev = co.prev /\ co'.path = co.path /\ co'.op = co.op
          /\ co'.ck.remote = co.ck.remote /\ co'.ck.candidate = co.ck.candidate
      BY <1>2, <2>1, AtKeeps DEF Locals
    <3>2. Row.kind = "initialize" BY <1>1, <1>2 DEF HolderFine, Flow, Needs
    <3>3. \A r : Needs("commit", co'.ck, "fetch", Row, r, pub) BY <3>2 DEF Needs
    <3>4. "commit" \in Steps \ {"leave"} BY DEF Steps, JobLabels
    <3> QED BY <1>2, <3>1, <3>3, <3>4, NextFine DEF HolderFine
  <2>2. CASE Fail("git_command_failed") BY <1>2, <2>2, FailFine, Codes
  <2> QED BY <2>1, <2>2 DEF CreateRepository, FailsWith
<1>5. UpdateRepo(co.path, made) \/ UNCHANGED repo BY DEF CreateRepository, FailsWith
<1> HIDE DEF made
<1> QED BY <1>1, <1>2, <1>3, <1>4, <1>5, CommandFine

\* What is fetched has been the head of the remote.
LEMMA FetchTrusted == ASSUME TypeInv, Trusted, Fetch PROVE Trusted'
<1> DEFINE pub == published[co.path]
           head == server[co.path]
           fetched == [Repo EXCEPT !.private = {ref \in @ : ref[1] # co.op} \cup {<<co.op, head>>}]
<1>1. co.pc = "fetch" /\ co.pc \in JobLabels BY DEF Fetch, JobLabels
<1>2. /\ co \in Locals /\ HolderFine(co, Row, Repo, pub) /\ RepoFine(Repo, pub) /\ Repo \in Repos
      /\ head \in pub /\ UNCHANGED <<journal, status, server, published>>
  BY <1>1, JobFacts DEF Fetch, CommandFrame, RepoFrame, WorkerFrame
<1>3. RepoFine(fetched, pub)
  <2>1. /\ fetched.managed = Repo.managed /\ fetched.history = Repo.history /\ fetched.head = Repo.head
        /\ fetched.merge = Repo.merge /\ fetched.mergeHead = Repo.mergeHead
    BY <1>2 DEF Repos
  <2> HIDE DEF fetched
  <2> QED BY <1>2, <2>1 DEF RepoFine
<1>4. \A r : co'.path = co.path /\ co'.op = co.op /\ HolderFine(co', Row, r, pub)
  <2> DEFINE ck == [At("fetching") EXCEPT !.candidate = head]
  <2>1. CASE Save(ck, "trust")
    <3>1. ck.candidate = head /\ ck.remote = co.ck.remote
      BY <1>2, AtKeeps DEF At, Locals, Checkpoints
    <3> HIDE DEF ck
    <3>2. \A r : Needs("trust", ck, co.after, Row, r, pub) BY <1>2, <3>1 DEF Needs
    <3>3. "trust" \in Steps \ {"leave"} BY DEF Steps, JobLabels
    <3>4. {ck.remote, ck.candidate} \subseteq pub \cup {0} BY <1>2, <3>1 DEF HolderFine
    <3> QED BY <1>2, <2>1, <3>2, <3>3, <3>4, SaveFine
  <2>2. CASE Fail("git_command_failed") BY <1>2, <2>2, FailFine, Codes
  <2> QED BY <2>1, <2>2 DEF Fetch, FailsWith
<1>5. UpdateRepo(co.path, fetched) \/ UNCHANGED repo BY DEF Fetch, FailsWith
<1> HIDE DEF fetched
<1> QED BY <1>1, <1>2, <1>3, <1>4, <1>5, CommandFine

\* The trusted ref moves to a published candidate.
LEMMA TrustTrusted == ASSUME TypeInv, Trusted, Trust PROVE Trusted'
<1> DEFINE pub == published[co.path]
           trusted == [Repo EXCEPT !.managed = co.ck.candidate]
<1>1. co.pc = "trust" /\ co.pc \in JobLabels BY DEF Trust, JobLabels
<1>2. /\ co \in Locals /\ HolderFine(co, Row, Repo, pub) /\ RepoFine(Repo, pub) /\ Repo \in Repos
      /\ UNCHANGED <<journal, status, server, published>>
  BY <1>1, JobFacts DEF Trust, RepoFrame, WorkerFrame
<1>3. co.ck.candidate \in pub BY <1>1, <1>2 DEF HolderFine, Flow, Needs
<1>4. RepoFine(trusted, pub) BY <1>2, <1>3 DEF RepoFine, Repos
<1>5. \A r : co'.path = co.path /\ co'.op = co.op /\ HolderFine(co', Row, r, pub)
  <2>1. CASE co' = [co EXCEPT !.ck = [At("fetching") EXCEPT !.remote = co.ck.candidate],
                              !.tx = Kind = "initialize", !.after = "push", !.pc = "journal",
                              !.next = IF Kind = "sync" THEN "open_snapshot" ELSE "merge"]
    <3>1. /\ co'.pc = "journal" /\ co'.next = IF Row.kind = "sync" THEN "open_snapshot" ELSE "merge"
          /\ co'.after = "push" /\ co'.res = co.res /\ co'.prev = co.prev /\ co'.path = co.path
          /\ co'.op = co.op /\ co'.ck = [At("fetching") EXCEPT !.remote = co.ck.candidate]
      BY <1>2, <2>1 DEF Locals, Kind
    <3>2. co'.ck.remote = co.ck.candidate /\ co'.ck.candidate = co.ck.candidate
      BY <1>2, <3>1, AtKeeps DEF At, Locals, Checkpoints
    <3>3. \A r : Needs(co'.next, co'.ck, "push", Row, r, pub) BY <1>3, <3>1, <3>2 DEF Needs
    <3>4. co'.next \in Steps \ {"leave"} BY <3>1 DEF Steps, JobLabels
    <3>5. {co'.ck.remote, co'.ck.candidate, co'.res.remote, co'.prev.remote} \subseteq pub \cup {0} BY <1>2, <1>3, <3>1, <3>2 DEF HolderFine
    <3> QED BY <3>1, <3>3, <3>4, <3>5, NextFine
  <2>2. CASE Fail("git_command_failed") BY <1>2, <2>2, FailFine, Codes
  <2> QED BY <2>1, <2>2 DEF Trust, NotMoved
<1>6. UpdateRepo(co.path, trusted) \/ UNCHANGED repo BY DEF Trust, NotMoved
<1> HIDE DEF trusted
<1> QED BY <1>1, <1>2, <1>4, <1>5, <1>6, CommandFine

LEMMA OpenSnapshotTrusted == ASSUME TypeInv, Trusted, OpenSnapshot PROVE Trusted'
<1> DEFINE pub == published[co.path]
<1>1. co.pc = "open_snapshot" /\ co.pc \in JobLabels BY DEF OpenSnapshot, JobLabels
<1>2. /\ co \in Locals /\ HolderFine(co, Row, Repo, pub) /\ RepoFine(Repo, pub) /\ Repo \in Repos
      /\ UNCHANGED <<journal, status, server, published, repo>>
  BY <1>1, JobFacts DEF OpenSnapshot, CommandFrame, RepoFrame, WorkerFrame
<1>3. co.ck.candidate \in pub /\ Row.kind = "sync" BY <1>1, <1>2 DEF HolderFine, Flow, Needs
<1>4. co'.path = co.path /\ co'.op = co.op /\ HolderFine(co', Row, Repo, pub)
  <2>1. /\ co'.pc = "journal" /\ co'.next = "commit" /\ co'.after = "push" /\ co'.prev = co.prev
        /\ co'.path = co.path /\ co'.op = co.op /\ co'.res = [remote |-> co.ck.candidate, push |-> 0]
        /\ co'.ck = [At("snapshotting") EXCEPT !.local = Keep(@, Repo.head)]
    BY <1>2 DEF OpenSnapshot, Locals
  <2>2. co'.ck.remote = co.ck.remote /\ co'.ck.candidate = co.ck.candidate /\ co'.res.remote = co.ck.candidate
    BY <1>2, <2>1, AtKeeps DEF At, Locals, Checkpoints
  <2>3. Needs("commit", co'.ck, "push", Row, Repo, pub) BY <1>3, <2>2 DEF Needs
  <2>4. "commit" \in Steps \ {"leave"} BY DEF Steps, JobLabels
  <2>5. {co'.ck.remote, co'.ck.candidate, co'.res.remote, co'.prev.remote} \subseteq pub \cup {0} BY <1>2, <1>3, <2>1, <2>2 DEF HolderFine
  <2> QED BY <2>1, <2>3, <2>4, <2>5, NextFine
<1> QED BY <1>1, <1>2, <1>4, CommandFine

-----------------------------------------------------------------------------
(* Commit, merge and push. *)

\* A commit is reached by the HEAD it becomes.
LEMMA NewCommitFine ==
  ASSUME NEW r \in Repos, NEW pub, RepoFine(r, pub), NEW history \in SUBSET Nat, 0 \notin history
  PROVE  /\ RepoFine(NewCommit(r, history), pub) /\ history \subseteq NewCommit(r, history).history
         /\ NewCommit(r, history).head \in NewCommit(r, history).history
         /\ NewCommit(r, history).merge = r.merge /\ NewCommit(r, history).managed = r.managed
<1> DEFINE n == NewCommit(r, history)
<1>1. /\ n.head = r.last + 1 /\ n.history = history \cup {r.last + 1} /\ n.managed = r.managed
      /\ n.merge = r.merge /\ n.mergeHead = r.mergeHead
  BY DEF NewCommit, Repos
<1>2. r.last + 1 \in Nat /\ r.last + 1 # 0 BY DEF Repos, Oids
<1> HIDE DEF n
<1>3. RepoFine(n, pub) BY <1>1, <1>2 DEF RepoFine
<1> QED BY <1>1, <1>3 DEF n

LEMMA CommitTrusted == ASSUME TypeInv, Trusted, Commit PROVE Trusted'
<1> DEFINE pub == published[co.path]
           new == NewCommit(Repo, Repo.history)
           after == IF Repo.dirty THEN [new EXCEPT !.dirty = FALSE] ELSE Repo
<1>1. co.pc = "commit" /\ co.pc \in JobLabels BY DEF Commit, JobLabels
<1>2. /\ co \in Locals /\ HolderFine(co, Row, Repo, pub) /\ RepoFine(Repo, pub) /\ Repo \in Repos
      /\ UNCHANGED <<journal, status, server, published>>
  BY <1>1, JobFacts DEF Commit, CommandFrame, RepoFrame, WorkerFrame
<1>3. Repo.history \in SUBSET Nat /\ 0 \notin Repo.history BY <1>2 DEF Repos, Oids, RepoFine
<1>4. RepoFine(after, pub)
  <2>1. new \in Repos /\ RepoFine(new, pub) BY <1>2, <1>3, NewCommitType, NewCommitFine
  <2> HIDE DEF new
  <2>2. [new EXCEPT !.dirty = FALSE].managed = new.managed /\ [new EXCEPT !.dirty = FALSE].history = new.history
        /\ [new EXCEPT !.dirty = FALSE].head = new.head /\ [new EXCEPT !.dirty = FALSE].merge = new.merge
        /\ [new EXCEPT !.dirty = FALSE].mergeHead = new.mergeHead
    BY <2>1 DEF Repos
  <2> QED BY <1>2, <2>1, <2>2 DEF RepoFine
<1> HIDE DEF new
<1> DEFINE oid == after.head
<1> HIDE DEF after
<1>5. \A r : co'.path = co.path /\ co'.op = co.op /\ HolderFine(co', Row, r, pub)
  <2>1. CASE Row.kind = "sync" /\ co' = [co EXCEPT !.ck.local = oid, !.pc = "merge"]
    <3>1. /\ co'.pc = "merge" /\ co'.res = co.res /\ co'.prev = co.prev /\ co'.path = co.path
          /\ co'.op = co.op /\ co'.after = co.after
          /\ co'.ck.remote = co.ck.remote /\ co'.ck.candidate = co.ck.candidate
      BY <1>2, <2>1 DEF Locals, Checkpoints
    <3>2. co.ck.candidate \in pub /\ co.after = "push"
      BY <1>1, <1>2, <2>1 DEF HolderFine, Flow, Needs
    <3>3. \A r : Needs("merge", co'.ck, co'.after, Row, r, pub) BY <3>1, <3>2 DEF Needs
    <3>4. "merge" \in Steps \ {"leave", "succeed_journal"} BY DEF Steps, JobLabels
    <3>5. {co'.ck.remote, co'.ck.candidate, co'.res.remote, co'.prev.remote} \subseteq pub \cup {0}
      BY <1>2, <3>1 DEF HolderFine
    <3> QED BY <3>1, <3>3, <3>4, <3>5, StepFine
  <2>2. CASE /\ Row.kind # "sync"
             /\ co' = [co EXCEPT !.ck = [At("snapshotting") EXCEPT !.local = oid],
                                 !.pc = "journal", !.next = "leave"]
    <3>1. /\ co'.pc = "journal" /\ co'.next = "leave" /\ co'.res = co.res /\ co'.prev = co.prev
          /\ co'.path = co.path /\ co'.op = co.op /\ co'.after = co.after
          /\ co'.ck.remote = co.ck.remote /\ co'.ck.candidate = co.ck.candidate
      BY <1>2, <2>2 DEF Locals, Checkpoints, At
    <3>2. co.after = "fetch" BY <1>1, <1>2, <2>2 DEF HolderFine, Flow, Needs
    <3>3. \A r : Needs("fetch", co'.ck, "fetch", Row, r, pub) BY DEF Needs
    <3>4. "fetch" \in Returns BY DEF Returns
    <3>5. {co'.ck.remote, co'.ck.candidate, co'.res.remote, co'.prev.remote} \subseteq pub \cup {0}
      BY <1>2, <3>1 DEF HolderFine
    <3> QED BY <3>1, <3>2, <3>3, <3>4, <3>5, LeaveFine
  <2>3. CASE Fail("git_command_failed") BY <1>2, <2>3, FailFine, Codes
  <2> QED BY <2>1, <2>2, <2>3 DEF Commit, FailsWith, Kind, oid, after, new
<1>6. UpdateRepo(co.path, after) \/ UNCHANGED repo BY DEF Commit, FailsWith, after, new
<1> QED BY <1>1, <1>2, <1>4, <1>5, <1>6, CommandFine

\* The frozen HEAD, which has the candidate in its history, is what will be pushed.
LEMMA SaveMergedFine ==
  ASSUME co \in Locals, NEW r, NEW pub, NEW row, NEW old, HolderFine(co, row, old, pub), co.after = "push",
         r.head \in r.history, co.ck.candidate \in r.history, SaveMerged(r.head)
  PROVE  HolderFine(co', row, r, pub) /\ co'.path = co.path /\ co'.op = co.op
<1>1. /\ co'.pc = "journal" /\ co'.next = "leave" /\ co'.prev = co.prev
      /\ co'.path = co.path /\ co'.op = co.op /\ co'.after = co.after
      /\ co'.ck = [At("reindexing") EXCEPT !.push = r.head] /\ co'.res.remote = co.res.remote
  BY DEF SaveMerged, Locals, Results
<1>2. co'.ck.push = r.head /\ co'.ck.remote = co.ck.remote /\ co'.ck.candidate = co.ck.candidate
  BY <1>1 DEF At, Locals, Checkpoints
<1>3. Needs("push", co'.ck, "push", row, r, pub) BY <1>2 DEF Needs
<1>4. "push" \in Returns BY DEF Returns
<1>5. {co'.ck.remote, co'.ck.candidate, co'.res.remote, co'.prev.remote} \subseteq pub \cup {0}
  BY <1>1, <1>2 DEF HolderFine
<1> QED BY <1>1, <1>3, <1>4, <1>5, LeaveFine

LEMMA MergeNeededTrusted == ASSUME TypeInv, Trusted, MergeNeeded PROVE Trusted'
<1> DEFINE pub == published[co.path]
<1>1. co.pc = "merge" /\ co.pc \in JobLabels BY DEF MergeNeeded, JobLabels
<1>2. /\ co \in Locals /\ HolderFine(co, Row, Repo, pub) /\ RepoFine(Repo, pub) /\ Repo \in Repos
      /\ UNCHANGED <<journal, status, server, published, repo>>
  BY <1>1, JobFacts DEF MergeNeeded, CommandFrame, RepoFrame, WorkerFrame
<1>3. co.ck.candidate \in pub /\ co.after = "push" BY <1>1, <1>2 DEF HolderFine, Flow, Needs
<1>4. co'.path = co.path /\ co'.op = co.op /\ HolderFine(co', Row, Repo, pub)
  <2>1. CASE Merged /\ SaveMerged(Repo.head)
    <3>1. co.ck.candidate \in Repo.history /\ Repo.head \in Repo.history
      BY <1>2, <2>1 DEF Merged, RepoFine
    <3> QED BY <1>2, <1>3, <2>1, <3>1, SaveMergedFine
  <2>2. CASE Save(At("merging"), "run_merge")
    <3>1. Needs("run_merge", At("merging"), co.after, Row, Repo, pub) BY <1>2, <1>3, AtKeeps DEF Needs
    <3>2. "run_merge" \in Steps \ {"leave"} BY DEF Steps, JobLabels
    <3>3. {At("merging").remote, At("merging").candidate} \subseteq pub \cup {0}
      BY <1>2, AtKeeps DEF HolderFine
    <3> QED BY <1>2, <2>2, <3>1, <3>2, <3>3, SaveFine
  <2> QED BY <2>1, <2>2 DEF MergeNeeded
<1> QED BY <1>1, <1>2, <1>4, CommandFine

\* What a merge leaves reaches the candidate.
LEMMA MergeResultFine ==
  ASSUME TypeInv, RepoFine(Repo, published[co.path]), co.ck.candidate \in published[co.path],
         0 \notin published[co.path], Repo \in Repos
  PROVE  /\ RepoFine(MergeResult, published[co.path]) /\ MergeResult.head \in MergeResult.history
         /\ co.ck.candidate \in MergeResult.history
<1> DEFINE pub == published[co.path]
           history == Repo.history \cup CandidateHistory
<1>1. co.ck.candidate \in CandidateHistory /\ CandidateHistory \subseteq pub
  BY RepoType DEF CandidateHistory, Checkpoints, Oids
<1>2. history \in SUBSET Nat /\ 0 \notin history BY <1>1, HistoryType DEF RepoFine
<1>3. CASE Repo.head \in CandidateHistory
  <2>1. MergeResult = [Repo EXCEPT !.head = co.ck.candidate, !.history = history]
    BY <1>3 DEF MergeResult
  <2>2. /\ MergeResult.head = co.ck.candidate /\ MergeResult.history = history
        /\ MergeResult.managed = Repo.managed /\ MergeResult.merge = Repo.merge
        /\ MergeResult.mergeHead = Repo.mergeHead
    BY <2>1 DEF Repos
  <2> QED BY <1>1, <1>2, <2>2 DEF RepoFine
<1>4. CASE Repo.head \notin CandidateHistory
  <2>1. MergeResult = NewCommit(Repo, history) BY <1>4 DEF MergeResult
  <2> QED BY <1>1, <1>2, <2>1, NewCommitFine
<1> QED BY <1>3, <1>4

LEMMA RunMergeTrusted == ASSUME TypeInv, Trusted, RunMerge PROVE Trusted'
<1> DEFINE pub == published[co.path]
<1>1. co.pc = "run_merge" /\ co.pc \in JobLabels BY DEF RunMerge, JobLabels
<1>2. /\ co \in Locals /\ HolderFine(co, Row, Repo, pub) /\ RepoFine(Repo, pub) /\ Repo \in Repos
      /\ 0 \notin pub /\ UNCHANGED <<journal, status, server, published>>
  BY <1>1, JobFacts DEF RunMerge, RepoFrame, WorkerFrame
<1>3. co.ck.candidate \in pub /\ co.after = "push" BY <1>1, <1>2 DEF HolderFine, Flow, Needs
<1>4. /\ RepoFine(MergeResult, pub) /\ MergeResult.head \in MergeResult.history
      /\ co.ck.candidate \in MergeResult.history
  BY <1>2, <1>3, MergeResultFine
<1>5. CASE UpdateRepo(co.path, MergeResult) /\ SaveMerged(MergeResult.head)
  BY <1>1, <1>2, <1>3, <1>4, <1>5, SaveMergedFine, CommandFine
<1>6. ASSUME SaveConflict
      PROVE  \A r : co'.path = co.path /\ co'.op = co.op /\ HolderFine(co', Row, r, pub)
  <2>1. /\ co'.pc = "journal" /\ co'.next = "leave" /\ co'.err = "git_conflict" /\ co'.res = co.res
        /\ co'.prev = co.prev /\ co'.path = co.path /\ co'.op = co.op /\ co'.ck = co.ck
    BY <1>2, <1>6 DEF SaveConflict, Locals
  <2>2. co'.err # NoError BY <2>1 DEF NoError
  <2>3. {co'.ck.remote, co'.ck.candidate, co'.res.remote, co'.prev.remote} \subseteq pub \cup {0}
    BY <1>2, <2>1 DEF HolderFine
  <2> QED BY <2>1, <2>2, <2>3, LeaveFine
<1>7. CASE SaveConflict \/ Fail("git_command_failed")
  <2>1. \A r : co'.path = co.path /\ co'.op = co.op /\ HolderFine(co', Row, r, pub)
    BY <1>2, <1>6, <1>7, FailFine, Codes
  <2>2. ASSUME NEW merge \in {"conflict", "resolved"}, Stopped(merge) PROVE Trusted'
    <3> DEFINE stopped == [Repo EXCEPT !.merge = merge, !.mergeHead = co.ck.candidate]
    <3>1. UpdateRepo(co.path, stopped) BY <2>2 DEF Stopped
    <3>2. RepoFine(stopped, pub) BY <1>2, <1>3 DEF RepoFine, Repos
    <3> HIDE DEF stopped
    <3> QED BY <1>1, <1>2, <2>1, <3>1, <3>2, CommandFine
  <2>3. CASE UpdateRepo(co.path, MergeResult) BY <1>1, <1>2, <1>4, <2>1, <2>3, CommandFine
  <2>4. CASE UNCHANGED repo BY <1>1, <1>2, <2>1, <2>4, CommandFine
  <2> QED BY <1>7, <1>5, <2>2, <2>3, <2>4 DEF RunMerge
<1> QED BY <1>5, <1>7 DEF RunMerge

\* A step of a job that changes no table and no repository, and may publish more.
LEMMA PublishFine ==
  ASSUME TypeInv, Trusted, co.pc \in JobLabels, UNCHANGED <<journal, status, repo>>,
         Grows, ServerFine', co'.path = co.path, co'.op = co.op,
         HolderFine(co', Row, Repo, published'[co.path])
  PROVE  Trusted'
<1>1. Data' BY SameData DEF Trusted, Data
<1>2. Row' = Row /\ Repo' = Repo BY DEF Row, Repo
<1> QED BY <1>1, <1>2 DEF Trusted, Holder

\* The pushed commit has the whole history of the repository published with it.
LEMMA PushTrusted == ASSUME TypeInv, Trusted, Push PROVE Trusted'
<1> DEFINE p == co.path
           pub == published[p]
<1>1. co.pc = "push" /\ co.pc \in JobLabels BY DEF Push, JobLabels
<1>2. /\ co \in Locals /\ HolderFine(co, Row, Repo, pub) /\ RepoFine(Repo, pub) /\ Repo \in Repos
      /\ p \in Paths /\ UNCHANGED <<journal, status, repo>>
  BY <1>1, JobFacts DEF Push
<1>3. co.ck.push = Repo.head /\ Repo.head \in Repo.history
  BY <1>1, <1>2 DEF HolderFine, Flow, Needs
<1>4. ServerFine BY DEF Trusted, Data
<1>5. CASE /\ UNCHANGED <<server, published>>
           /\ Retry \/ \E code \in {"git_command_failed", "push_rejected"} : Fail(code)
  <2>1. Grows /\ ServerFine' BY <1>4, <1>5 DEF Grows, ServerFine
  <2>2. co'.path = p /\ co'.op = co.op /\ HolderFine(co', Row, Repo, pub)
    <3>1. CASE \E code \in {"git_command_failed", "push_rejected"} : Fail(code)
      BY <1>2, <3>1, FailFine, Codes
    <3>2. CASE Retry
      <4>1. /\ co'.pc = "journal" /\ co'.next = "fetch" /\ co'.res = co.res /\ co'.prev = co.prev
            /\ co'.path = p /\ co'.op = co.op
            /\ co'.ck.remote = co.ck.remote /\ co'.ck.candidate = co.ck.candidate
        BY <1>2, <3>2, AtKeeps DEF Retry, Locals
      <4>2. Needs("fetch", co'.ck, co'.after, Row, Repo, pub) BY DEF Needs
      <4>3. "fetch" \in Steps \ {"leave"} BY DEF Steps, JobLabels
      <4>4. {co'.ck.remote, co'.ck.candidate, co'.res.remote, co'.prev.remote} \subseteq pub \cup {0}
        BY <1>2, <4>1 DEF HolderFine
      <4> QED BY <4>1, <4>2, <4>3, <4>4, NextFine
    <3> QED BY <1>5, <3>1, <3>2
  <2>3. HolderFine(co', Row, Repo, published'[p]) BY <1>5, <2>2
  <2> QED BY <1>1, <1>2, <2>1, <2>2, <2>3, PublishFine
<1>6. CASE /\ server' = [server EXCEPT ![p] = co.ck.push]
           /\ published' = [published EXCEPT ![p] = @ \cup Repo.history]
           /\ Goto("settle") \/ Fail("git_command_failed")
  <2> DEFINE bigger == pub \cup Repo.history
  <2>1. published'[p] = bigger /\ pub \subseteq bigger BY <1>2, <1>6 DEF TypeInv, TypeOK
  <2>2. Grows BY <1>2, <1>6 DEF Grows, TypeInv, TypeOK
  <2>3. ServerFine'
    <3>1. 0 \notin bigger BY <1>2, <1>4 DEF ServerFine, RepoFine
    <3>2. Repo.head \in bigger BY <1>3
    <3> QED BY <1>2, <1>3, <1>4, <1>6, <3>1, <3>2 DEF ServerFine, TypeInv, TypeOK
  <2>4. HolderFine(co, Row, Repo, bigger) BY <1>2, <2>1, SameHolder
  <2>5. co'.path = p /\ co'.op = co.op /\ HolderFine(co', Row, Repo, bigger)
    <3>1. CASE Fail("git_command_failed") BY <1>2, <2>4, <3>1, FailFine, Codes
    <3>2. CASE Goto("settle")
      <4>1. /\ co'.pc = "settle" /\ co'.res = co.res /\ co'.prev = co.prev /\ co'.ck = co.ck
            /\ co'.path = p /\ co'.op = co.op
        BY <1>2, <3>2 DEF Goto, Locals
      <4>2. Needs("settle", co'.ck, co'.after, Row, Repo, bigger) BY <1>3, <4>1 DEF Needs
      <4>3. "settle" \in Steps \ {"leave", "succeed_journal"} BY DEF Steps, JobLabels
      <4>4. {co'.ck.remote, co'.ck.candidate, co'.res.remote, co'.prev.remote} \subseteq bigger \cup {0}
        BY <2>4, <4>1 DEF HolderFine
      <4> QED BY <4>1, <4>2, <4>3, <4>4, StepFine
    <3> QED BY <1>6, <3>1, <3>2
  <2> HIDE DEF bigger
  <2> QED BY <1>1, <1>2, <2>1, <2>2, <2>3, <2>5, PublishFine
<1> QED BY <1>5, <1>6 DEF Push, FailsWith

\* The pushed commit becomes the trusted one.
LEMMA SettleTrusted == ASSUME TypeInv, Trusted, Settle PROVE Trusted'
<1> DEFINE pub == published[co.path]
           settled == [Repo EXCEPT !.managed = co.ck.push]
<1>1. co.pc = "settle" /\ co.pc \in JobLabels BY DEF Settle, JobLabels
<1>2. /\ co \in Locals /\ HolderFine(co, Row, Repo, pub) /\ RepoFine(Repo, pub) /\ Repo \in Repos
      /\ UNCHANGED <<journal, status, server, published>>
  BY <1>1, JobFacts DEF Settle, RepoFrame, WorkerFrame
<1>3. co.ck.push \in pub BY <1>1, <1>2 DEF HolderFine, Flow, Needs
<1>4. RepoFine(settled, pub) BY <1>2, <1>3 DEF RepoFine, Repos
<1>5. /\ SettledCheckpoint.push = co.ck.push /\ SettledCheckpoint.remote = co.ck.push
      /\ SettledCheckpoint.candidate \in {co.ck.candidate, co.ck.push}
  BY <1>2 DEF SettledCheckpoint, At, Locals, Checkpoints
<1>6. \A r : Needs("succeed_journal", SettledCheckpoint, "succeed_journal", Row, r, pub)
             /\ Needs("succeed_journal", SettledCheckpoint, co.after, Row, r, pub)
  BY <1>3, <1>5 DEF Needs
<1>7. {SettledCheckpoint.remote, SettledCheckpoint.candidate} \subseteq pub \cup {0}
  BY <1>2, <1>3, <1>5 DEF HolderFine
<1>8. \A r : co'.path = co.path /\ co'.op = co.op /\ HolderFine(co', Row, r, pub)
  <2>1. CASE co' = [co EXCEPT !.ck = SettledCheckpoint, !.tx = TRUE, !.after = "succeed_journal",
                              !.pc = "journal", !.next = "leave"]
    <3>1. /\ co'.pc = "journal" /\ co'.next = "leave" /\ co'.after = "succeed_journal" /\ co'.res = co.res
          /\ co'.prev = co.prev /\ co'.path = co.path /\ co'.op = co.op /\ co'.ck = SettledCheckpoint
      BY <1>2, <2>1 DEF Locals
    <3>2. {co'.ck.remote, co'.ck.candidate, co'.res.remote, co'.prev.remote} \subseteq pub \cup {0}
      BY <1>2, <1>7, <3>1 DEF HolderFine
    <3>3. "succeed_journal" \in Returns BY DEF Returns
    <3> QED BY <1>6, <3>1, <3>2, <3>3, LeaveFine
  <2>2. CASE Save(SettledCheckpoint, "succeed_journal")
    <3>1. "succeed_journal" \in Steps \ {"leave"} BY DEF Steps, JobLabels
    <3> QED BY <1>2, <1>6, <1>7, <2>2, <3>1, SaveFine
  <2>3. CASE Fail("git_command_failed") BY <1>2, <2>3, FailFine, Codes
  <2> QED BY <2>1, <2>2, <2>3 DEF Settle, NotMoved, FailsWith
<1>9. UpdateRepo(co.path, settled) \/ UNCHANGED repo BY DEF Settle, NotMoved, FailsWith
<1> HIDE DEF settled
<1> QED BY <1>1, <1>2, <1>4, <1>8, <1>9, CommandFine

-----------------------------------------------------------------------------
(* Completion and abort. *)

\* A completion starts from a merge of the published candidate of its row.
LEMMA VerifyCompletionTrusted == ASSUME TypeInv, Trusted, VerifyCompletion PROVE Trusted'
<1> DEFINE pub == published[co.path]
<1>1. co.pc = "verify_completion" /\ co.pc \in JobLabels BY DEF VerifyCompletion, JobLabels
<1>2. /\ co \in Locals /\ HolderFine(co, Row, Repo, pub) /\ RepoFine(Repo, pub) /\ Repo \in Repos
      /\ UNCHANGED <<journal, status, server, published, repo>>
  BY <1>1, JobFacts DEF VerifyCompletion, CommandFrame, RepoFrame, WorkerFrame
<1>3. co'.path = co.path /\ co'.op = co.op /\ HolderFine(co', Row, Repo, pub)
  <2>1. CASE Inspectable(Repo, Row) /\ Save(At("conflict_completing"), "commit_merge")
    <3>1. co.ck.candidate = Row.candidate BY <1>1, <1>2 DEF HolderFine, Flow, Needs
    <3>2. Row.candidate \in pub BY <1>2, <2>1 DEF Inspectable, RepoFine
    <3>3. Needs("commit_merge", At("conflict_completing"), co.after, Row, Repo, pub)
      BY <1>2, <3>1, <3>2, AtKeeps DEF Needs
    <3>4. "commit_merge" \in Steps \ {"leave"} BY DEF Steps, JobLabels
    <3>5. {At("conflict_completing").remote, At("conflict_completing").candidate} \subseteq pub \cup {0}
      BY <1>2, AtKeeps DEF HolderFine
    <3> QED BY <1>2, <2>1, <3>3, <3>4, <3>5, SaveFine
  <2>2. CASE Fail("git_recovery_required") BY <1>2, <2>2, FailFine, Codes
  <2> QED BY <2>1, <2>2 DEF VerifyCompletion
<1> QED BY <1>1, <1>2, <1>3, CommandFine

LEMMA CommitMergeTrusted == ASSUME TypeInv, Trusted, CommitMerge PROVE Trusted'
<1> DEFINE pub == published[co.path]
           new == NewCommit(Repo, Repo.history \cup CandidateHistory)
           after == [new EXCEPT !.merge = "none", !.mergeHead = 0]
<1>1. co.pc = "commit_merge" /\ co.pc \in JobLabels BY DEF CommitMerge, JobLabels
<1>2. /\ co \in Locals /\ HolderFine(co, Row, Repo, pub) /\ RepoFine(Repo, pub) /\ Repo \in Repos
      /\ 0 \notin pub /\ UNCHANGED <<journal, status, server, published>>
  BY <1>1, JobFacts DEF CommitMerge, CommandFrame, RepoFrame, WorkerFrame
<1>3. co.ck.candidate \in pub BY <1>1, <1>2 DEF HolderFine, Flow, Needs
<1>4. co.ck.candidate \in CandidateHistory /\ CandidateHistory \subseteq pub
  BY <1>3, RepoType DEF CandidateHistory, Checkpoints, Oids
<1>5. Repo.history \cup CandidateHistory \in SUBSET Nat /\ 0 \notin Repo.history \cup CandidateHistory
  BY <1>2, <1>4, HistoryType DEF RepoFine
<1>6. RepoFine(after, pub) /\ after.head \in after.history /\ co.ck.candidate \in after.history
  <2>1. /\ new \in Repos /\ RepoFine(new, pub) /\ new.head \in new.history /\ co.ck.candidate \in new.history
    BY <1>2, <1>4, <1>5, NewCommitType, NewCommitFine
  <2> HIDE DEF new
  <2>2. after.managed = new.managed /\ after.history = new.history /\ after.head = new.head /\ after.merge = "none"
    BY <2>1 DEF Repos
  <2> HIDE DEF after
  <2> QED BY <2>1, <2>2 DEF RepoFine
<1>7. CASE /\ UpdateRepo(co.path, after)
           /\ co' = [co EXCEPT !.ck = [At("conflict_committed") EXCEPT !.push = after.head],
                               !.tx = TRUE, !.after = "sync_index", !.pc = "journal", !.next = "leave"]
  <2> HIDE DEF after
  <2>1. /\ co'.pc = "journal" /\ co'.next = "leave" /\ co'.after = "sync_index" /\ co'.res = co.res
        /\ co'.prev = co.prev /\ co'.path = co.path /\ co'.op = co.op
        /\ co'.ck = [At("conflict_committed") EXCEPT !.push = after.head]
    BY <1>2, <1>7 DEF Locals
  <2>2. co'.ck.push = after.head /\ co'.ck.remote = co.ck.remote /\ co'.ck.candidate = co.ck.candidate
    BY <1>2, <2>1 DEF At, Locals, Checkpoints
  <2>3. Needs("sync_index", co'.ck, "sync_index", Row, after, pub) BY <1>6, <2>2 DEF Needs
  <2>4. "sync_index" \in Returns BY DEF Returns
  <2>5. {co'.ck.remote, co'.ck.candidate, co'.res.remote, co'.prev.remote} \subseteq pub \cup {0}
    BY <1>2, <2>1, <2>2 DEF HolderFine
  <2>6. HolderFine(co', Row, after, pub) BY <2>1, <2>3, <2>4, <2>5, LeaveFine
  <2> QED BY <1>1, <1>2, <1>6, <1>7, <2>1, <2>6, CommandFine
<1>8. CASE Fail("git_recovery_required") /\ (UpdateRepo(co.path, after) \/ UNCHANGED repo)
  <2> HIDE DEF after
  <2>1. \A r : co'.path = co.path /\ co'.op = co.op /\ HolderFine(co', Row, r, pub)
    BY <1>2, <1>8, FailFine, Codes
  <2> QED BY <1>1, <1>2, <1>6, <1>8, <2>1, CommandFine
<1> QED BY <1>7, <1>8 DEF CommitMerge, FailsWith

LEMMA SyncIndexTrusted == ASSUME TypeInv, Trusted, SyncIndex \/ SaveConflictPushing PROVE Trusted'
<1> DEFINE pub == published[co.path]
<1>1. co.pc \in {"sync_index", "save_conflict_pushing"} /\ co.pc \in JobLabels
  BY DEF SyncIndex, SaveConflictPushing, JobLabels
<1>2. /\ co \in Locals /\ HolderFine(co, Row, Repo, pub) /\ RepoFine(Repo, pub) /\ Repo \in Repos
      /\ UNCHANGED <<journal, status, server, published, repo>>
  BY <1>1, JobFacts DEF SyncIndex, SaveConflictPushing, CommandFrame, RepoFrame, WorkerFrame
<1>3. co.ck.push = Repo.head /\ Repo.head \in Repo.history /\ co.ck.candidate \in Repo.history
  BY <1>1, <1>2 DEF HolderFine, Flow, Needs
<1>4. co'.path = co.path /\ co'.op = co.op /\ HolderFine(co', Row, Repo, pub)
  <2>1. ASSUME NEW stage, NEW label \in {"save_conflict_pushing", "push"}, Save(At(stage), label)
        PROVE  co'.path = co.path /\ co'.op = co.op /\ HolderFine(co', Row, Repo, pub)
    <3>1. Needs(label, At(stage), co.after, Row, Repo, pub) BY <1>2, <1>3, AtKeeps DEF Needs
    <3>2. label \in Steps \ {"leave"} BY DEF Steps, JobLabels
    <3>3. {At(stage).remote, At(stage).candidate} \subseteq pub \cup {0} BY <1>2, AtKeeps DEF HolderFine
    <3> QED BY <1>2, <2>1, <3>1, <3>2, <3>3, SaveFine
  <2>2. CASE Fail("git_command_failed") BY <1>2, <2>2, FailFine, Codes
  <2> QED BY <2>1, <2>2 DEF SyncIndex, SaveConflictPushing
<1> QED BY <1>1, <1>2, <1>4, CommandFine

LEMMA VerifyAbortTrusted == ASSUME TypeInv, Trusted, VerifyAbort PROVE Trusted'
<1> DEFINE pub == published[co.path]
<1>1. co.pc = "verify_abort" /\ co.pc \in JobLabels BY DEF VerifyAbort, JobLabels
<1>2. /\ co \in Locals /\ HolderFine(co, Row, Repo, pub) /\ RepoFine(Repo, pub) /\ Repo \in Repos
      /\ UNCHANGED <<journal, status, server, published, repo>>
  BY <1>1, JobFacts DEF VerifyAbort, CommandFrame, RepoFrame, WorkerFrame
<1>3. co'.path = co.path /\ co'.op = co.op /\ HolderFine(co', Row, Repo, pub)
  <2>1. CASE co' = [co EXCEPT !.tx = TRUE, !.after = "aborted", !.ck = At("conflict_aborting"),
                              !.pc = "journal", !.next = "abort_merge"]
    <3>1. /\ co'.pc = "journal" /\ co'.next = "abort_merge" /\ co'.after = "aborted" /\ co'.res = co.res
          /\ co'.prev = co.prev /\ co'.path = co.path /\ co'.op = co.op
          /\ co'.ck.remote = co.ck.remote /\ co'.ck.candidate = co.ck.candidate
      BY <1>2, <2>1, AtKeeps DEF Locals
    <3>2. Row.kind = "conflict_abort" BY <1>1, <1>2 DEF HolderFine, Flow, Needs
    <3>3. Needs("abort_merge", co'.ck, "aborted", Row, Repo, pub) BY <3>2 DEF Needs
    <3>4. "abort_merge" \in Steps \ {"leave"} BY DEF Steps, JobLabels
    <3>5. {co'.ck.remote, co'.ck.candidate, co'.res.remote, co'.prev.remote} \subseteq pub \cup {0}
      BY <1>2, <3>1 DEF HolderFine
    <3> QED BY <3>1, <3>3, <3>4, <3>5, NextFine
  <2>2. CASE Fail("git_recovery_required") BY <1>2, <2>2, FailFine, Codes
  <2> QED BY <2>1, <2>2 DEF VerifyAbort
<1> QED BY <1>1, <1>2, <1>3, CommandFine

LEMMA AbortMergeTrusted == ASSUME TypeInv, Trusted, AbortMerge PROVE Trusted'
<1> DEFINE pub == published[co.path]
           aborted == [Repo EXCEPT !.merge = "none", !.mergeHead = 0]
<1>1. co.pc = "abort_merge" /\ co.pc \in JobLabels BY DEF AbortMerge, JobLabels
<1>2. /\ co \in Locals /\ HolderFine(co, Row, Repo, pub) /\ RepoFine(Repo, pub) /\ Repo \in Repos
      /\ UNCHANGED <<journal, status, server, published>>
  BY <1>1, JobFacts DEF AbortMerge, CommandFrame, RepoFrame, WorkerFrame
<1>3. RepoFine(aborted, pub) BY <1>2 DEF RepoFine, Repos
<1>4. \A r : co'.path = co.path /\ co'.op = co.op /\ HolderFine(co', Row, r, pub)
  <2>1. CASE Goto("leave")
    <3>1. /\ co'.pc = "leave" /\ co'.res = co.res /\ co'.prev = co.prev /\ co'.ck = co.ck
          /\ co'.path = co.path /\ co'.op = co.op /\ co'.after = co.after
      BY <1>2, <2>1 DEF Goto, Locals
    <3>2. co.after = "aborted" /\ Row.kind = "conflict_abort" BY <1>1, <1>2 DEF HolderFine, Flow, Needs
    <3>3. \A r : Flow(co', Row, r, pub)
      BY <3>1, <3>2 DEF Flow, Needs, Ahead, Leaves, Reports, Returns
    <3> QED BY <1>2, <3>1, <3>3 DEF HolderFine
  <2>2. CASE Fail("git_recovery_required") BY <1>2, <2>2, FailFine, Codes
  <2> QED BY <2>1, <2>2 DEF AbortMerge, FailsWith
<1>5. UpdateRepo(co.path, aborted) \/ UNCHANGED repo BY DEF AbortMerge, FailsWith
<1> HIDE DEF aborted
<1> QED BY <1>1, <1>2, <1>3, <1>4, <1>5, CommandFine

-----------------------------------------------------------------------------
(* Checkpoints, and the ends of a job. *)

\* A step that writes to the tables only.
LEMMA TablesFine ==
  ASSUME Trusted, UNCHANGED <<repo, server, published>>, RowsFine', StatusesFine', Holder'
  PROVE  Trusted'
<1>1. Grows BY DEF Grows
<1> QED BY <1>1, SameData DEF Trusted, Data, ServerFine

LEMMA ReleaseFine == ASSUME Release PROVE Holder'
BY IdleFine DEF Release, Holder

\* A step of a job that writes its row, or nothing.
LEMMA RowStep ==
  ASSUME TypeInv, Trusted, co.pc \in JobLabels, NEW row,
         WriteRow(co.path, co.op, row) \/ (row = Row /\ UNCHANGED journal),
         UNCHANGED <<status, repo, server, published>>, RowFine(row, published[co.path]),
         \/ Release
         \/ co'.path = co.path /\ co'.op = co.op /\ HolderFine(co', row, Repo, published[co.path])
  PROVE  Trusted'
<1>1. co.path \in Paths /\ co.op \in Op(co.path) /\ Grows BY JobFacts DEF Grows
<1>2. RowsFine'
  <2>1. CASE WriteRow(co.path, co.op, row) BY <1>1, <2>1, RowsWrite DEF Trusted, Data
  <2>2. CASE UNCHANGED journal BY <1>1, <2>2, SameData DEF Trusted, Data
  <2> QED BY <2>1, <2>2
<1>3. StatusesFine' BY <1>1, SameData DEF Trusted, Data
<1>4. Holder'
  <2>1. CASE Release BY <2>1, ReleaseFine
  <2>2. CASE co'.path = co.path /\ co'.op = co.op /\ HolderFine(co', row, Repo, published[co.path])
    <3>1. journal'[co.path][co.op] = row BY <1>1, WriteAt DEF Row
    <3>2. Row' = row /\ Repo' = Repo /\ published'[co'.path] = published[co.path]
      BY <2>2, <3>1 DEF Row, Repo
    <3> QED BY <2>2, <3>2 DEF Holder
  <2> QED BY <2>1, <2>2
<1> QED BY <1>2, <1>3, <1>4, TablesFine

\* A step of a job that writes the status of its base, or nothing.
LEMMA StatusStep ==
  ASSUME TypeInv, Trusted, co.pc \in JobLabels, NEW s \in Statuses, NEW action,
         applyStatus(co.path, s, action) \/ UNCHANGED status,
         UNCHANGED <<journal, repo, server, published>>, StatusFine(s, published[co.path]),
         \/ Release
         \/ co'.path = co.path /\ co'.op = co.op /\ HolderFine(co', Row, Repo, published[co.path])
  PROVE  Trusted'
<1>1. co.path \in Paths /\ Grows BY JobFacts DEF Grows
<1>2. StatusesFine'
  <2>1. CASE applyStatus(co.path, s, action) BY <1>1, <2>1, StatusApply DEF Trusted, Data
  <2>2. CASE UNCHANGED status BY <1>1, <2>2, SameData DEF Trusted, Data
  <2> QED BY <2>1, <2>2
<1>3. RowsFine' BY <1>1, SameData DEF Trusted, Data
<1>4. Holder'
  <2>1. CASE Release BY <2>1, ReleaseFine
  <2>2. CASE co'.path = co.path /\ co'.op = co.op /\ HolderFine(co', Row, Repo, published[co.path])
    <3>1. Row' = Row /\ Repo' = Repo /\ published'[co'.path] = published[co.path]
      BY <2>2 DEF Row, Repo
    <3> QED BY <2>2, <3>1 DEF Holder
  <2> QED BY <2>1, <2>2
<1> QED BY <1>2, <1>3, <1>4, TablesFine

\* Finish adds the OIDs of the result to a row that lacks them.
LEMMA FinishFine ==
  ASSUME NEW row \in Rows, NEW pub, RowFine(row, pub), NEW state, NEW stage, NEW res,
         res.remote \in pub \cup {0},
         state = "succeeded" /\ row.kind # "conflict_abort" => Keep(row.push, res.push) \in pub
  PROVE  RowFine(Finished(row, state, stage, res), pub)
<1> DEFINE new == Finished(row, state, stage, res)
<1>1. /\ new.remote = Keep(row.remote, res.remote) /\ new.push = Keep(row.push, res.push)
      /\ new.candidate = row.candidate /\ new.kind = row.kind /\ new.state = state
  BY DEF Finished, Rows
<1>2. Keep(row.remote, res.remote) \in pub \cup {0} BY DEF Keep, RowFine
<1> HIDE DEF new
<1>3. RowFine(new, pub) BY <1>1, <1>2 DEF RowFine
<1> QED BY <1>3 DEF new

LEMMA CheckpointTrusted == ASSUME TypeInv, Trusted, Checkpoint PROVE Trusted'
<1> DEFINE pub == published[co.path]
           row == Checkpointed(Row, co.ck)
<1>1. co.pc = "journal" /\ co.pc \in JobLabels BY DEF Checkpoint, JobLabels
<1>2. /\ co \in Locals /\ HolderFine(co, Row, Repo, pub) /\ RowFine(Row, pub) /\ Row \in Rows
      /\ UNCHANGED <<status, repo, server, published>>
  BY <1>1, JobFacts DEF Checkpoint, WorkerFrame
<1>3. CASE WriteRow(co.path, co.op, row) /\ Goto("publish")
  <2>1. /\ row.kind = Row.kind /\ row.state = "running" /\ row.remote = co.ck.remote
        /\ row.candidate = co.ck.candidate /\ row.push = co.ck.push
    BY <1>2 DEF Checkpointed, Rows
  <2> HIDE DEF row
  <2>2. RowFine(row, pub) BY <1>2, <2>1 DEF RowFine, HolderFine
  <2>3. /\ co'.pc = "publish" /\ co'.next = co.next /\ co'.ck = co.ck /\ co'.after = co.after
        /\ co'.err = co.err /\ co'.res = co.res /\ co'.prev = co.prev
        /\ co'.path = co.path /\ co'.op = co.op
    BY <1>2, <1>3 DEF Goto, Locals
  <2>4. Flow(co', row, Repo, pub)
    BY <1>1, <1>2, <2>1, <2>3 DEF HolderFine, Flow, Needs, Ahead, Leaves, Reports
  <2>5. HolderFine(co', row, Repo, pub) BY <1>2, <2>3, <2>4 DEF HolderFine
  <2> QED BY <1>1, <1>2, <1>3, <2>2, <2>3, <2>5, RowStep
<1>4. CASE Fail("git_command_failed") /\ UNCHANGED journal
  <2>1. co'.path = co.path /\ co'.op = co.op /\ HolderFine(co', Row, Repo, pub)
    BY <1>2, <1>4, FailFine, Codes
  <2> QED BY <1>1, <1>2, <1>4, <2>1, RowStep
<1> QED BY <1>3, <1>4 DEF Checkpoint

LEMMA PublishTrusted == ASSUME TypeInv, Trusted, Publish PROVE Trusted'
<1> DEFINE pub == published[co.path]
           s == WorkingStatus(co.path, co.op, JobState, co.ck.remote)
<1>1. co.pc = "publish" /\ co.pc \in JobLabels BY DEF Publish, JobLabels
<1>2. /\ co \in Locals /\ HolderFine(co, Row, Repo, pub) /\ status[co.path] \in Statuses
      /\ StatusFine(status[co.path], pub) /\ UNCHANGED <<journal, repo, server, published>>
  BY <1>1, JobFacts DEF Publish, WorkerFrame
<1>3. CASE /\ applyStatus(co.path, s, "preserve")
           /\ co' = [co EXCEPT !.pc = co.next, !.cleared = @ \/ Reindexed]
  <2>1. s \in Statuses /\ StatusFine(s, pub)
    <3>1. s \in Statuses
      <4>1. JobState \in GitStates BY DEF JobState, WorkingState, GitStates
      <4> QED BY <1>2, <4>1, WorkingStatusType DEF Locals, Checkpoints, Oids
    <3>2. s.remote = co.ck.remote BY <1>2 DEF WorkingStatus, Statuses
    <3> HIDE DEF s
    <3> QED BY <1>2, <3>1, <3>2 DEF HolderFine, StatusFine
  <2>2. /\ co'.pc = co.next /\ co'.next = co.next /\ co'.ck = co.ck /\ co'.after = co.after
        /\ co'.err = co.err /\ co'.res = co.res /\ co'.prev = co.prev
        /\ co'.path = co.path /\ co'.op = co.op
    BY <1>2, <1>3 DEF Locals
  <2>3. Flow(co', Row, Repo, pub)
    BY <1>1, <1>2, <2>2 DEF HolderFine, Flow, Needs, Ahead, Leaves, Reports, Steps
  <2>4. HolderFine(co', Row, Repo, pub)
    BY <1>1, <1>2, <2>2, <2>3 DEF HolderFine, Flow, Steps, JobLabels
  <2> HIDE DEF s
  <2> QED BY <1>1, <1>2, <1>3, <2>1, <2>2, <2>4, StatusStep
<1>4. CASE Fail("git_command_failed") /\ UNCHANGED status
  <2>1. co'.path = co.path /\ co'.op = co.op /\ HolderFine(co', Row, Repo, pub)
    BY <1>2, <1>4, FailFine, Codes
  <2> QED BY <1>1, <1>2, <1>4, <2>1, StatusStep
<1> QED BY <1>3, <1>4 DEF Publish

LEMMA LeaveTrusted == ASSUME TypeInv, Trusted, Leave PROVE Trusted'
<1> DEFINE pub == published[co.path]
<1>1. co.pc = "leave" /\ co.pc \in JobLabels BY DEF Leave, JobLabels
<1>2. /\ co \in Locals /\ HolderFine(co, Row, Repo, pub) /\ RepoFine(Repo, pub) /\ Repo \in Repos
      /\ UNCHANGED <<journal, status, server, published, repo>>
  BY <1>1, JobFacts DEF Leave, WorkerFrame
<1>3. co'.path = co.path /\ co'.op = co.op /\ HolderFine(co', Row, Repo, pub)
  <2>1. CASE co'.pc = "failed" /\ co'.ck = co.ck /\ co'.res = co.res /\ co'.prev = co.prev
             /\ co'.path = co.path /\ co'.op = co.op
    <3>1. Needs("failed", co'.ck, co'.after, Row, Repo, pub) BY DEF Needs
    <3>2. "failed" \in Steps \ {"leave", "succeed_journal"} BY DEF Steps, JobLabels
    <3>3. {co'.ck.remote, co'.ck.candidate, co'.res.remote, co'.prev.remote} \subseteq pub \cup {0}
      BY <1>2, <2>1 DEF HolderFine
    <3> QED BY <2>1, <3>1, <3>2, <3>3, StepFine
  <2>2. CASE co.err = NoError /\ co' = AfterLeave
    <3>1. /\ co.after \in Returns /\ Needs(co.after, co.ck, co.after, Row, Repo, pub)
          /\ co.after = "succeed_journal" => Row.push = co.ck.push
      BY <1>1, <1>2, <2>2 DEF HolderFine, Flow, Ahead, Leaves, Reports
    <3>2. CASE co.after \in DOMAIN StageOfNetwork
      <4>1. /\ co'.pc = "journal" /\ co'.next = co.after /\ co'.after = co.after /\ co'.res = co.res
            /\ co'.prev = co.prev /\ co'.path = co.path /\ co'.op = co.op
            /\ co'.ck.remote = co.ck.remote /\ co'.ck.candidate = co.ck.candidate /\ co'.ck.push = co.ck.push
        BY <1>2, <2>2, <3>2, AtKeeps DEF AfterLeave, Locals
      <4>2. Needs(co'.next, co'.ck, co'.after, Row, Repo, pub) BY <3>1, <3>2, <4>1 DEF Needs, StageOfNetwork
      <4>3. co'.next \in Steps \ {"leave"} BY <3>2, <4>1 DEF Steps, JobLabels, StageOfNetwork
      <4>4. {co'.ck.remote, co'.ck.candidate, co'.res.remote, co'.prev.remote} \subseteq pub \cup {0}
        BY <1>2, <4>1 DEF HolderFine
      <4> QED BY <4>1, <4>2, <4>3, <4>4, NextFine
    <3>3. CASE co.after \notin DOMAIN StageOfNetwork
      <4>1. /\ co'.pc = co.after /\ co'.after = co.after /\ co'.res = co.res /\ co'.ck = co.ck
            /\ co'.prev = co.prev /\ co'.path = co.path /\ co'.op = co.op
        BY <1>2, <2>2, <3>3 DEF AfterLeave, Locals
      <4>2. Flow(co', Row, Repo, pub)
        BY <3>1, <4>1 DEF Flow, Ahead, Leaves, Reports, Returns
      <4> QED BY <1>2, <3>1, <4>1, <4>2 DEF HolderFine, Returns
    <3> QED BY <3>2, <3>3
  <2>3. co' = AfterLeave /\ co.err # NoError => co' = [co EXCEPT !.tx = FALSE, !.pc = "failed"]
    BY DEF AfterLeave
  <2>4. co' = [co EXCEPT !.tx = FALSE, !.pc = "failed"]
        \/ co' = [co EXCEPT !.tx = FALSE, !.pc = "failed",
                            !.err = IF @ = NoError THEN "git_command_failed" ELSE @]
        => co'.pc = "failed" /\ co'.ck = co.ck /\ co'.res = co.res /\ co'.prev = co.prev
           /\ co'.path = co.path /\ co'.op = co.op
    BY <1>2 DEF Locals
  <2> QED BY <2>1, <2>2, <2>3, <2>4 DEF Leave
<1> QED BY <1>1, <1>2, <1>3, CommandFine

LEMMA FailedTrusted == ASSUME TypeInv, Trusted, Failed PROVE Trusted'
<1> DEFINE pub == published[co.path]
<1>1. co.pc = "failed" /\ co.pc \in JobLabels BY DEF Failed, JobLabels
<1>2. /\ co \in Locals /\ HolderFine(co, Row, Repo, pub) /\ RepoFine(Repo, pub)
      /\ UNCHANGED <<journal, status, server, published, repo>>
  BY <1>1, JobFacts DEF Failed, WorkerFrame
<1>3. /\ co'.pc = "fail_journal" /\ co'.ck = co.ck /\ co'.res = co.res /\ co'.prev = co.prev
      /\ co'.path = co.path /\ co'.op = co.op
  BY <1>2 DEF Failed, Locals
<1>4. Needs("fail_journal", co'.ck, co'.after, Row, Repo, pub) BY DEF Needs
<1>5. "fail_journal" \in Steps \ {"leave", "succeed_journal"} BY DEF Steps, JobLabels
<1>6. {co'.ck.remote, co'.ck.candidate, co'.res.remote, co'.prev.remote} \subseteq pub \cup {0}
  BY <1>2, <1>3 DEF HolderFine
<1>7. HolderFine(co', Row, Repo, pub) BY <1>3, <1>4, <1>5, <1>6, StepFine
<1> QED BY <1>1, <1>2, <1>3, <1>7, CommandFine

\* A failure takes what it reports from its results, and no credit.
LEMMA FailJournalTrusted == ASSUME TypeInv, Trusted, FailJournal PROVE Trusted'
<1> DEFINE pub == published[co.path]
           row == Finished(Row, FailedState, "queued", co.res)
<1>1. co.pc = "fail_journal" /\ co.pc \in JobLabels BY DEF FailJournal, JobLabels
<1>2. /\ co \in Locals /\ HolderFine(co, Row, Repo, pub) /\ RowFine(Row, pub) /\ Row \in Rows
      /\ UNCHANGED <<status, repo, server, published>>
  BY <1>1, JobFacts DEF FailJournal, WorkerFrame
<1>3. RowFine(row, pub)
  <2>1. FailedState # "succeeded" BY DEF FailedState
  <2>2. co.res.remote \in pub \cup {0} BY <1>2 DEF HolderFine
  <2> QED BY <1>2, <2>1, <2>2, FinishFine
<1>4. /\ co'.pc = "fail_status" /\ co'.ck = co.ck /\ co'.res = co.res /\ co'.prev = co.prev
      /\ co'.path = co.path /\ co'.op = co.op
  BY <1>2 DEF FailJournal, FinishRow, Goto, Locals
<1>5. \A any : HolderFine(co', any, Repo, pub)
  <2>1. \A any : Needs("fail_status", co'.ck, co'.after, any, Repo, pub) BY DEF Needs
  <2>2. "fail_status" \in Steps \ {"leave", "succeed_journal"} BY DEF Steps, JobLabels
  <2>3. {co'.ck.remote, co'.ck.candidate, co'.res.remote, co'.prev.remote} \subseteq pub \cup {0}
    BY <1>2, <1>4 DEF HolderFine
  <2> QED BY <1>4, <2>1, <2>2, <2>3, StepFine
<1>6. WriteRow(co.path, co.op, row) \/ UNCHANGED journal BY DEF FailJournal, FinishRow
<1> HIDE DEF row
<1> QED BY <1>1, <1>2, <1>3, <1>4, <1>5, <1>6, RowStep

LEMMA FailStatusTrusted == ASSUME TypeInv, Trusted, FailStatus PROVE Trusted'
<1> DEFINE pub == published[co.path]
           s == status[co.path]
<1>1. co.pc = "fail_status" /\ co.pc \in JobLabels BY DEF FailStatus, JobLabels
<1>2. /\ co \in Locals /\ HolderFine(co, Row, Repo, pub) /\ RowFine(Row, pub) /\ StatusFine(s, pub)
      /\ s \in Statuses /\ UNCHANGED <<journal, repo, server, published>>
  BY <1>1, JobFacts DEF FailStatus, WorkerFrame
<1>3. FailedOID(s) \in pub \cup {0} BY <1>2 DEF FailedOID, Keep, HolderFine, RowFine, StatusFine
<1>4. FailStatus => \/ UNCHANGED status
                    \/ \E t \in Statuses : \E action : t.remote = FailedOID(s) /\ applyStatus(co.path, t, action)
  <2> DEFINE outcome == ClassifyGitOutcome(Kind, FailedState, s.state, co.err)
             t == [s EXCEPT !.state = outcome.state, !.op = co.op, !.remote = FailedOID(s)]
  <2>1. t \in Statuses
    <3>1. FailedOID(s) \in Nat
      BY <1>2, JobFacts, <1>1 DEF FailedOID, Keep, Rows, Statuses, Locals, Results, Oids
    <3>2. outcome.state \in GitStates BY <1>2, ClassifyType, JobFacts, <1>1 DEF Kind, Rows, Statuses, Locals
    <3> HIDE DEF outcome
    <3> QED BY <1>2, <3>1, <3>2 DEF Statuses, Locals, Oids
  <2>2. t.remote = FailedOID(s) BY <1>2 DEF Statuses
  <2> HIDE DEF t
  <2>3. FailStatus => UNCHANGED status \/ applyStatus(co.path, t, outcome.failures)
    BY DEF FailStatus, t
  <2> QED BY <2>1, <2>2, <2>3
<1>5. Release BY DEF FailStatus
<1>6. CASE UNCHANGED status BY <1>1, <1>2, <1>5, <1>6, StatusStep
<1>7. ASSUME NEW t \in Statuses, NEW action, t.remote = FailedOID(s), applyStatus(co.path, t, action)
      PROVE  Trusted'
  <2>1. StatusFine(t, pub) BY <1>3, <1>7 DEF StatusFine
  <2> QED BY <1>1, <1>2, <1>5, <1>7, <2>1, StatusStep
<1> QED BY <1>4, <1>6, <1>7

\* The row of a success has the commit its checkpoint pushed.
LEMMA SucceedJournalTrusted == ASSUME TypeInv, Trusted, SucceedJournal PROVE Trusted'
<1> DEFINE pub == published[co.path]
           row == Finished(Row, "succeeded", "completed", Result)
<1>1. co.pc = "succeed_journal" /\ co.pc \in JobLabels BY DEF SucceedJournal, JobLabels
<1>2. /\ co \in Locals /\ HolderFine(co, Row, Repo, pub) /\ RowFine(Row, pub) /\ Row \in Rows
      /\ UNCHANGED <<status, repo, server, published>>
  BY <1>1, JobFacts DEF SucceedJournal, WorkerFrame
<1>3. co.ck.push \in pub /\ Row.push = co.ck.push
  BY <1>1, <1>2 DEF HolderFine, Flow, Needs, Ahead, Reports
<1>4. RowFine(row, pub)
  <2>1. Result.remote = co.ck.push /\ Result.push = co.ck.push BY DEF Result
  <2>2. Keep(Row.push, Result.push) = co.ck.push BY <1>3, <2>1 DEF Keep
  <2> QED BY <1>2, <1>3, <2>1, <2>2, FinishFine
<1>5. /\ co'.pc = "succeed_status" /\ co'.ck = co.ck /\ co'.res = co.res /\ co'.prev = co.prev
      /\ co'.path = co.path /\ co'.op = co.op
  BY <1>2 DEF SucceedJournal, FinishRow, Goto, Locals
<1>6. \A any : HolderFine(co', any, Repo, pub)
  <2>1. \A any : Needs("succeed_status", co'.ck, co'.after, any, Repo, pub) BY <1>3, <1>5 DEF Needs
  <2>2. "succeed_status" \in Steps \ {"leave", "succeed_journal"} BY DEF Steps, JobLabels
  <2>3. {co'.ck.remote, co'.ck.candidate, co'.res.remote, co'.prev.remote} \subseteq pub \cup {0}
    BY <1>2, <1>5 DEF HolderFine
  <2> QED BY <1>5, <2>1, <2>2, <2>3, StepFine
<1>7. WriteRow(co.path, co.op, row) \/ UNCHANGED journal BY DEF SucceedJournal, FinishRow
<1> HIDE DEF row
<1> QED BY <1>1, <1>2, <1>4, <1>5, <1>6, <1>7, RowStep

LEMMA SucceedStatusTrusted == ASSUME TypeInv, Trusted, SucceedStatus PROVE Trusted'
<1> DEFINE pub == published[co.path]
           s == [status[co.path] EXCEPT !.state = "ready", !.op = co.op, !.remote = Result.remote]
<1>1. co.pc = "succeed_status" /\ co.pc \in JobLabels BY DEF SucceedStatus, JobLabels
<1>2. /\ co \in Locals /\ HolderFine(co, Row, Repo, pub) /\ StatusFine(status[co.path], pub)
      /\ status[co.path] \in Statuses /\ UNCHANGED <<journal, repo, server, published>>
  BY <1>1, JobFacts DEF SucceedStatus, WorkerFrame
<1>3. co.ck.push \in pub BY <1>1, <1>2 DEF HolderFine, Flow, Needs
<1>4. Result.remote = co.ck.push /\ Result.remote \in Nat BY <1>2 DEF Result, Locals, Checkpoints, Oids
<1>5. s \in Statuses /\ s.remote = co.ck.push
  <2>1. s.remote = co.ck.push BY <1>2, <1>4 DEF Statuses
  <2>2. "ready" \in GitStates BY DEF GitStates
  <2> QED BY <1>2, <1>4, <2>1, <2>2 DEF Statuses, Locals, Oids
<1>6. Release /\ (applyStatus(co.path, s, "reset") \/ UNCHANGED status) BY DEF SucceedStatus
<1> HIDE DEF s
<1>7. StatusFine(s, pub) BY <1>3, <1>5 DEF StatusFine
<1> QED BY <1>1, <1>2, <1>5, <1>6, <1>7, StatusStep

LEMMA AbortedTrusted == ASSUME TypeInv, Trusted, Aborted PROVE Trusted'
<1> DEFINE pub == published[co.path]
<1>1. co.pc = "aborted" /\ co.pc \in JobLabels BY DEF Aborted, JobLabels
<1>2. /\ co \in Locals /\ HolderFine(co, Row, Repo, pub) /\ RowFine(Row, pub)
      /\ UNCHANGED <<journal, status, server, published, repo>>
  BY <1>1, JobFacts DEF Aborted, WorkerFrame
<1>3. CASE Goto("abort_status")
  <2>1. /\ co'.pc = "abort_status" /\ co'.ck = co.ck /\ co'.res = co.res /\ co'.prev = co.prev
        /\ co'.path = co.path /\ co'.op = co.op
    BY <1>2, <1>3 DEF Goto, Locals
  <2>2. Row.kind = "conflict_abort" BY <1>1, <1>2 DEF HolderFine, Flow, Needs
  <2>3. Needs("abort_status", co'.ck, co'.after, Row, Repo, pub) BY <2>2 DEF Needs
  <2>4. "abort_status" \in Steps \ {"leave", "succeed_journal"} BY DEF Steps, JobLabels
  <2>5. {co'.ck.remote, co'.ck.candidate, co'.res.remote, co'.prev.remote} \subseteq pub \cup {0}
    BY <1>2, <2>1 DEF HolderFine
  <2>6. HolderFine(co', Row, Repo, pub) BY <2>1, <2>3, <2>4, <2>5, StepFine
  <2> QED BY <1>1, <1>2, <2>1, <2>6, RowStep
<1>4. CASE Strand BY <1>1, <1>2, <1>4, RowStep DEF Strand
<1> QED BY <1>3, <1>4 DEF Aborted

LEMMA AbortStatusTrusted == ASSUME TypeInv, Trusted, AbortStatus PROVE Trusted'
<1> DEFINE pub == published[co.path]
           s == [status[co.path] EXCEPT !.state = "paused", !.op = co.op, !.remote = Row.remote]
<1>1. co.pc = "abort_status" /\ co.pc \in JobLabels BY DEF AbortStatus, JobLabels
<1>2. /\ co \in Locals /\ HolderFine(co, Row, Repo, pub) /\ RowFine(Row, pub) /\ Row \in Rows
      /\ status[co.path] \in Statuses /\ UNCHANGED <<journal, repo, server, published>>
  BY <1>1, JobFacts DEF AbortStatus, WorkerFrame
<1>3. s \in Statuses /\ s.remote = Row.remote
  <2>1. "paused" \in GitStates BY DEF GitStates
  <2>2. Row.remote \in Nat BY <1>2 DEF Rows, Oids
  <2> QED BY <1>2, <2>1, <2>2 DEF Statuses, Locals, Oids
<1>4. \/ applyStatus(co.path, s, "preserve") /\ Goto("abort_journal")
      \/ Release /\ UNCHANGED status
  BY DEF AbortStatus
<1> HIDE DEF s
<1>5. StatusFine(s, pub) BY <1>2, <1>3 DEF StatusFine, RowFine
<1>6. CASE applyStatus(co.path, s, "preserve") /\ Goto("abort_journal")
  <2>1. /\ co'.pc = "abort_journal" /\ co'.ck = co.ck /\ co'.res = co.res /\ co'.prev = co.prev
        /\ co'.path = co.path /\ co'.op = co.op
    BY <1>2, <1>6 DEF Goto, Locals
  <2>2. Row.kind = "conflict_abort" BY <1>1, <1>2 DEF HolderFine, Flow, Needs
  <2>3. Needs("abort_journal", co'.ck, co'.after, Row, Repo, pub) BY <2>2 DEF Needs
  <2>4. "abort_journal" \in Steps \ {"leave", "succeed_journal"} BY DEF Steps, JobLabels
  <2>5. {co'.ck.remote, co'.ck.candidate, co'.res.remote, co'.prev.remote} \subseteq pub \cup {0}
    BY <1>2, <2>1 DEF HolderFine
  <2>6. HolderFine(co', Row, Repo, pub) BY <2>1, <2>3, <2>4, <2>5, StepFine
  <2> QED BY <1>1, <1>2, <1>3, <1>5, <1>6, <2>1, <2>6, StatusStep
<1>7. CASE Release /\ UNCHANGED status BY <1>1, <1>2, <1>3, <1>5, <1>7, StatusStep
<1> QED BY <1>4, <1>6, <1>7

LEMMA AbortJournalTrusted == ASSUME TypeInv, Trusted, AbortJournal PROVE Trusted'
<1> DEFINE pub == published[co.path]
           row == Finished(Row, "succeeded", "completed", NoResult)
<1>1. co.pc = "abort_journal" /\ co.pc \in JobLabels BY DEF AbortJournal, JobLabels
<1>2. /\ co \in Locals /\ HolderFine(co, Row, Repo, pub) /\ RowFine(Row, pub) /\ Row \in Rows
      /\ UNCHANGED <<status, repo, server, published>>
  BY <1>1, JobFacts DEF AbortJournal, WorkerFrame
<1>3. Row.kind = "conflict_abort" BY <1>1, <1>2 DEF HolderFine, Flow, Needs
<1>4. RowFine(row, pub)
  <2>1. NoResult.remote \in pub \cup {0} BY DEF NoResult
  <2> QED BY <1>2, <1>3, <2>1, FinishFine
<1>5. Release /\ (WriteRow(co.path, co.op, row) \/ UNCHANGED journal) BY DEF AbortJournal
<1> HIDE DEF row
<1> QED BY <1>1, <1>2, <1>4, <1>5, RowStep

LEMMA FinishStaleTrusted == ASSUME TypeInv, Trusted, FinishStale \/ Abandon PROVE Trusted'
<1> DEFINE pub == published[co.path]
           row == Finished(Row, "failed", "queued", NoResult)
<1>1. co.pc \in JobLabels BY DEF FinishStale, Abandon, JobLabels
<1>2. /\ RowFine(Row, pub) /\ Row \in Rows /\ UNCHANGED <<status, repo, server, published>>
  BY <1>1, JobFacts DEF FinishStale, Abandon, WorkerFrame, durable
<1>3. RowFine(row, pub)
  <2>1. NoResult.remote \in pub \cup {0} BY DEF NoResult
  <2> QED BY <1>2, <2>1, FinishFine
<1>4. Release /\ (WriteRow(co.path, co.op, row) \/ UNCHANGED journal)
  BY DEF FinishStale, Abandon, durable
<1> HIDE DEF row
<1> QED BY <1>1, <1>2, <1>3, <1>4, RowStep

\* Every step of a job preserves the invariant.
LEMMA JobTrusted == ASSUME TypeInv, Trusted, JobStep PROVE Trusted'
<1>1. CASE Preflight \/ Probe \/ CreateRepository \/ Fetch \/ Trust \/ OpenSnapshot \/ Commit
  BY <1>1, PreflightTrusted, ProbeTrusted, CreateRepositoryTrusted, FetchTrusted, TrustTrusted,
     OpenSnapshotTrusted, CommitTrusted
<1>2. CASE MergeNeeded \/ RunMerge \/ Push \/ Settle
  BY <1>2, MergeNeededTrusted, RunMergeTrusted, PushTrusted, SettleTrusted
<1>3. CASE VerifyCompletion \/ CommitMerge \/ SyncIndex \/ SaveConflictPushing
  BY <1>3, VerifyCompletionTrusted, CommitMergeTrusted, SyncIndexTrusted
<1>4. CASE VerifyAbort \/ AbortMerge \/ Aborted \/ AbortStatus \/ AbortJournal
  BY <1>4, VerifyAbortTrusted, AbortMergeTrusted, AbortedTrusted, AbortStatusTrusted,
     AbortJournalTrusted
<1>5. CASE Checkpoint \/ Publish \/ Leave \/ FinishStale \/ Abandon
  BY <1>5, CheckpointTrusted, PublishTrusted, LeaveTrusted, FinishStaleTrusted
<1>6. CASE SucceedJournal \/ SucceedStatus \/ Failed \/ FailJournal \/ FailStatus
  BY <1>6, SucceedJournalTrusted, SucceedStatusTrusted, FailedTrusted, FailJournalTrusted,
     FailStatusTrusted
<1> QED BY <1>1, <1>2, <1>3, <1>4, <1>5, <1>6 DEF JobStep

-----------------------------------------------------------------------------
(* Requests and admissions. *)

\* A request, an admission or a settings change has only its OIDs to show.
LEMMA RequestFine ==
  ASSUME NEW c, NEW row, NEW r, NEW pub, c.pc \notin JobLabels \cup {"free", "recover"},
         {c.ck.remote, c.ck.candidate, c.res.remote, c.prev.remote} \subseteq pub \cup {0}
  PROVE  HolderFine(c, row, r, pub)
BY OutsideFlow DEF HolderFine

\* The OIDs of a holder.
LEMMA HolderOids ==
  ASSUME Trusted
  PROVE  {co.ck.remote, co.ck.candidate, co.res.remote, co.prev.remote} \subseteq published[co.path] \cup {0}
BY DEF Trusted, Holder, HolderFine

\* A step that changes the holder only.
LEMMA HolderStep ==
  ASSUME Trusted, UNCHANGED <<journal, status, repo, server, published>>, Holder' PROVE Trusted'
<1>1. Grows BY DEF Grows
<1> QED BY <1>1, SameData, TablesFine DEF Trusted, Data

\* Nothing but the memory of the manager changes.
LEMMA MemoryStep ==
  ASSUME Trusted, UNCHANGED <<journal, status, repo, server, published, co>> PROVE Trusted'
<1>1. Holder' BY DEF Trusted, Holder, Row, Repo
<1> QED BY <1>1, HolderStep

LEMMA RequestsHolder ==
  ASSUME NEW p \in Paths, NEW label \in AdmissionLabels, NEW cfg \in Configs \cup {NoConfig}, Request(p, label, cfg)
  PROVE  Holder'
<1>1. ASSUME NEW pc \in AdmissionLabels \cup {"refresh"},
             co' = [Idle EXCEPT !.pc = pc, !.path = p, !.next = label, !.cfg = cfg]
      PROVE  Holder'
  <2>1. co'.pc = pc /\ co'.ck = Idle.ck /\ co'.res = NoResult /\ co'.prev = NoStatus BY <1>1 DEF Idle
  <2>2. pc \notin JobLabels \cup {"free", "recover"} BY DEF AdmissionLabels, JobLabels
  <2>3. {co'.ck.remote, co'.ck.candidate, co'.res.remote, co'.prev.remote} = {0}
    BY <2>1 DEF Idle, NoResult, NoStatus
  <2> QED BY <2>1, <2>2, <2>3, RequestFine DEF Holder
<1> QED BY <1>1 DEF Request

\* The status, or the status a settings change makes of it.
LEMMA ChangeStatusTrusted ==
  ASSUME TypeInv, Trusted, NEW p \in Paths, NEW cfg \in Configs \cup {NoConfig}, ChangeStatus(p, cfg)
  PROVE  Trusted'
<1>1. Grows /\ UNCHANGED <<journal, repo, server, published>> BY DEF ChangeStatus, Grows
<1>2. StatusFine(status[p], published[p]) BY DEF Trusted, Data, StatusesFine
<1>3. Holder'
  <2>1. ASSUME NEW label \in {"save_config", "restore_status"}, Changing(p, cfg, label) PROVE Holder'
    <3>1. /\ co'.pc = label /\ co'.path = p /\ co'.ck = Idle.ck /\ co'.res = NoResult
          /\ co'.prev = status[p]
      BY <2>1 DEF Changing, Idle
    <3>2. label \notin JobLabels \cup {"free", "recover"} BY DEF JobLabels
    <3>3. {co'.ck.remote, co'.ck.candidate, co'.res.remote, co'.prev.remote}
            \subseteq published[p] \cup {0}
      BY <1>2, <3>1 DEF Idle, NoResult, StatusFine
    <3> QED BY <1>1, <3>1, <3>2, <3>3, RequestFine DEF Holder
  <2> QED BY <2>1 DEF ChangeStatus
<1>4. StatusFine(NewStatus(p, cfg), published'[p]) BY <1>1, <1>2 DEF NewStatus, NoStatus, StatusFine
<1>5. StatusesFine'
  BY <1>1, <1>4, StatusWrite, SameData DEF ChangeStatus, Trusted, Data
<1>6. RowsFine' BY <1>1, SameData DEF Trusted, Data
<1> QED BY <1>1, <1>3, <1>5, <1>6, TablesFine

\* A new row has the OIDs of a checkpoint, and its admission those of its request.
LEMMA CreateTrusted ==
  ASSUME TypeInv, Trusted, NEW p \in Paths, NEW row \in Rows, Create(p, row),
         RowFine(row, published[p]), UNCHANGED <<status, repo, server, published>>,
         {co.ck.remote, co.ck.candidate, co.res.remote, co.prev.remote} \subseteq published[p] \cup {0}
  PROVE  Trusted'
<1>1. Grows BY DEF Grows
<1>2. RowsFine' BY <1>1, RowsCreate DEF Create, Trusted, Data
<1>3. StatusesFine' BY <1>1, SameData DEF Trusted, Data
<1>4. /\ co'.pc = "admit_status" /\ co'.path = p /\ co'.ck = co.ck /\ co'.res = co.res
      /\ co'.prev = co.prev
  BY RepoType DEF Create, Locals
<1>5. "admit_status" \notin JobLabels \cup {"free", "recover"} BY DEF JobLabels
<1>6. Holder' BY <1>4, <1>5, RequestFine DEF Holder
<1> QED BY <1>2, <1>3, <1>6, TablesFine

LEMMA QueueConflictTrusted ==
  ASSUME TypeInv, Trusted, NEW p \in Paths, NEW kind \in ConflictKinds, QueueConflict(p, kind)
  PROVE  Trusted'
<1> DEFINE o == currentConflictOperation(p)
           old == journal[p][o]
           row == QueuedRow(kind, old.cfg, CheckpointOf(old))
<1>1. UNCHANGED <<status, repo, server, published>> BY DEF QueueConflict
<1>2. CASE UNCHANGED <<journal, co>> BY <1>1, <1>2, MemoryStep
<1>3. CASE Create(p, row)
  <2>1. o \in Op(p) BY DEF QueueConflict, currentConflictOperation
  <2>2. old \in Rows /\ RowFine(old, published[p]) BY <2>1, RowAt DEF Trusted, Data, RowsFine
  <2> HIDE DEF old
  <2>3. row \in Rows
    <3>1. CheckpointOf(old) \in Checkpoints /\ old.cfg \in Configs \cup {NoConfig}
      BY <2>2 DEF CheckpointOf, Checkpoints, Rows
    <3> QED BY <3>1, QueuedRowType DEF ConflictKinds, OperationKinds
  <2>4. RowFine(row, published[p]) BY <2>2 DEF RowFine, QueuedRow, CheckpointOf
  <2>5. co = Idle BY DEF QueueConflict, Free, Trusted, Holder, HolderFine
  <2>6. {co.ck.remote, co.ck.candidate, co.res.remote, co.prev.remote} \subseteq published[p] \cup {0}
    BY <2>5 DEF Idle, NoResult, NoStatus
  <2> HIDE DEF row
  <2> QED BY <1>1, <1>3, <2>3, <2>4, <2>6, CreateTrusted
<1> QED BY <1>2, <1>3 DEF QueueConflict

LEMMA RequestsTrusted == ASSUME TypeInv, Trusted, Requests PROVE Trusted'
<1>1. PICK p \in Paths :
        \/ QueueSync(p) \/ Resume(p) \/ EnqueueResolve(p) \/ Disable(p)
        \/ \E kind \in ConflictKinds : QueueConflict(p, kind)
        \/ \E cfg \in Configs : Configure(p, cfg) \/ QueueInitialize(p, cfg)
  BY DEF Requests
<1>0. config[p] \in Configs \cup {NoConfig} BY DEF TypeInv, TypeOK
<1>2. CASE QueueSync(p) \/ Resume(p)
  <2>1. \E label \in AdmissionLabels : Request(p, label, config[p])
    BY <1>2 DEF QueueSync, Resume, AdmissionLabels
  <2>2. UNCHANGED <<journal, status, repo, server, published>>
    BY <1>2 DEF QueueSync, Resume, durable
  <2> QED BY <1>0, <2>1, <2>2, RequestsHolder, HolderStep
<1>3. ASSUME NEW cfg \in Configs, QueueInitialize(p, cfg) PROVE Trusted'
  <2>1. UNCHANGED <<journal, status, repo, server, published>> BY <1>3 DEF QueueInitialize, durable
  <2>2. CASE Request(p, "admit_initialize", cfg)
    BY <2>1, <2>2, RequestsHolder, HolderStep DEF AdmissionLabels
  <2>3. CASE UNCHANGED co BY <2>1, <2>3, MemoryStep
  <2> QED BY <1>3, <2>2, <2>3 DEF QueueInitialize
<1>4. CASE EnqueueResolve(p) BY <1>4, MemoryStep DEF EnqueueResolve, durable
<1> QED BY <1>1, <1>2, <1>3, <1>4, QueueConflictTrusted, ChangeStatusTrusted DEF Configure, Disable

\* The trusted OID of an admission is that of the status, or of the last row.
LEMMA TrustedOidFine ==
  ASSUME TypeInv, Trusted, NEW p \in Paths
  PROVE  TrustedOrEmpty(p) \in published[p] \cup {0}
<1>1. CASE journal[p] = <<>> BY <1>1 DEF TrustedOrEmpty
<1>2. CASE journal[p] # <<>>
  <2> DEFINE row == journal[p][LatestByPath(p)]
             s == status[p]
  <2>1. LatestByPath(p) \in Op(p)
    <3>1. journal[p] \in Seq(Rows) BY DEF TypeInv, TypeOK
    <3>2. Len(journal[p]) # 0 BY <1>2, <3>1, EmptySeq
    <3> QED BY <3>2, OpFacts DEF LatestByPath
  <2>2. RowFine(row, published[p]) /\ StatusFine(s, published[p])
    BY <2>1 DEF Trusted, Data, RowsFine, StatusesFine
  <2>3. OperationTrustedOID(row, s) \in {row.remote, s.remote} BY DEF OperationTrustedOID
  <2>4. TrustedOrEmpty(p) = Keep(s.remote, OperationTrustedOID(row, s))
    BY <1>2 DEF TrustedOrEmpty, AdmissionTrust
  <2> HIDE DEF row, s
  <2> QED BY <2>2, <2>3, <2>4 DEF Keep, RowFine, StatusFine
<1> QED BY <1>1, <1>2

\* The row of an admission.
LEMMA AdmittedRowFine ==
  ASSUME TypeInv, Trusted, NEW kind \in OperationKinds
  PROVE  LET row == QueuedRow(kind, co.cfg, EmptyCheckpoint(TrustedOrEmpty(co.path)))
         IN  row \in Rows /\ RowFine(row, published[co.path])
<1> DEFINE oid == TrustedOrEmpty(co.path)
           ck == EmptyCheckpoint(oid)
           row == QueuedRow(kind, co.cfg, ck)
<1>1. co.path \in Paths /\ co \in Locals BY RepoType
<1>2. oid \in Nat /\ oid \in published[co.path] \cup {0} BY <1>1, TrustType, TrustedOidFine
<1> HIDE DEF oid
<1>3. row \in Rows
  <2>1. ck \in Checkpoints BY <1>2, EmptyCheckpointType
  <2> QED BY <1>1, <2>1, QueuedRowType DEF Locals
<1>4. row.remote = oid /\ row.candidate = 0 /\ row.state = "queued"
  BY DEF QueuedRow, EmptyCheckpoint, Idle
<1> HIDE DEF row
<1>5. RowFine(row, published[co.path]) BY <1>2, <1>4 DEF RowFine
<1> QED BY <1>3, <1>5 DEF row, oid

\* A request that is refused.
LEMMA RefusedTrusted ==
  ASSUME Trusted, Release, UNCHANGED <<journal, status, repo, server, published>> PROVE Trusted'
BY ReleaseFine, HolderStep

LEMMA AdmitTrusted ==
  ASSUME TypeInv, Trusted, NEW kind \in OperationKinds, NEW label, Admit(kind, label) PROVE Trusted'
<1> DEFINE row == QueuedRow(kind, co.cfg, EmptyCheckpoint(TrustedOrEmpty(co.path)))
<1>1. UNCHANGED <<status, repo, server, published>> BY DEF Admit
<1>2. CASE Release /\ UNCHANGED journal BY <1>1, <1>2, RefusedTrusted
<1>3. CASE Create(co.path, row)
  <2>1. row \in Rows /\ RowFine(row, published[co.path]) BY AdmittedRowFine
  <2> HIDE DEF row
  <2> QED BY <1>1, <1>3, <2>1, RepoType, HolderOids, CreateTrusted
<1> HIDE DEF row
<1> QED BY <1>2, <1>3 DEF Admit, row

LEMMA CreateResumedTrusted == ASSUME TypeInv, Trusted, CreateResumed PROVE Trusted'
<1> DEFINE row == QueuedRow("sync", co.cfg, EmptyCheckpoint(TrustedOrEmpty(co.path)))
<1>1. UNCHANGED <<status, repo, server, published>> BY DEF CreateResumed
<1>2. CASE Goto("rollback") /\ UNCHANGED journal
  <2>1. /\ co'.pc = "rollback" /\ co'.path = co.path /\ co'.ck = co.ck /\ co'.res = co.res
        /\ co'.prev = co.prev
    BY <1>2, RepoType DEF Goto, Locals
  <2>2. "rollback" \notin JobLabels \cup {"free", "recover"} BY DEF JobLabels
  <2>3. Holder' BY <1>1, <2>1, <2>2, HolderOids, RequestFine DEF Holder
  <2> QED BY <1>1, <1>2, <2>3, HolderStep
<1>3. CASE Create(co.path, row)
  <2>1. row \in Rows /\ RowFine(row, published[co.path]) BY AdmittedRowFine DEF OperationKinds
  <2> HIDE DEF row
  <2> QED BY <1>1, <1>3, <2>1, RepoType, HolderOids, CreateTrusted
<1> HIDE DEF row
<1> QED BY <1>2, <1>3 DEF CreateResumed, row

\* A request goes on to a step that has only its OIDs to show.
LEMMA GotoHolder ==
  ASSUME TypeInv, Trusted, UNCHANGED published, NEW label, label \notin JobLabels \cup {"free", "recover"},
         Goto(label)
  PROVE  Holder'
<1>1. co'.pc = label /\ co'.path = co.path /\ co'.ck = co.ck /\ co'.res = co.res /\ co'.prev = co.prev
  BY RepoType DEF Goto, Locals
<1> QED BY <1>1, HolderOids, RequestFine DEF Holder

\* A row that ends without a result.
LEMMA FailedRowFine ==
  ASSUME TypeInv, Trusted, NEW p \in Paths, NEW i \in Op(p)
  PROVE  RowFine(Finished(journal[p][i], "failed", "queued", NoResult), published[p])
<1>1. journal[p][i] \in Rows /\ RowFine(journal[p][i], published[p]) BY RowAt DEF Trusted, Data, RowsFine
<1>2. NoResult.remote \in published[p] \cup {0} BY DEF NoResult
<1> QED BY <1>1, <1>2, FinishFine

LEMMA RefreshQueuedTrusted == ASSUME TypeInv, Trusted, RefreshQueued PROVE Trusted'
<1>1. UNCHANGED <<status, repo, server, published>> /\ Grows BY DEF RefreshQueued, Grows
<1>2. Holder'
  <2>1. CASE Goto(co.next)
    <3>1. co.next \in AdmissionLabels BY DEF RefreshQueued, TypeInv, RowsExist
    <3>2. co.next \notin JobLabels \cup {"free", "recover"} BY <3>1 DEF AdmissionLabels, JobLabels
    <3> QED BY <1>1, <2>1, <3>2, GotoHolder
  <2>2. CASE Release BY <2>2, ReleaseFine
  <2> QED BY <2>1, <2>2 DEF RefreshQueued
<1>3. RowsFine'
  <2>1. ASSUME NEW k \in StaleJobs(co.path),
               WriteRow(co.path, queue[k].op,
                        Finished(journal[co.path][queue[k].op], "failed", "queued", NoResult))
        PROVE  RowsFine'
    <3>1. co.path \in Paths /\ queue[k].op \in Op(co.path) BY RepoType DEF StaleJobs, TypeInv, RowsExist
    <3> QED BY <1>1, <2>1, <3>1, FailedRowFine, RowsWrite DEF Trusted, Data
  <2>2. CASE UNCHANGED journal BY <1>1, <2>2, SameData DEF Trusted, Data
  <2> QED BY <2>1, <2>2 DEF RefreshQueued
<1>4. StatusesFine' BY <1>1, SameData DEF Trusted, Data
<1> QED BY <1>1, <1>2, <1>3, <1>4, TablesFine

LEMMA AdmitResumeTrusted == ASSUME TypeInv, Trusted, AdmitResume PROVE Trusted'
<1> DEFINE p == co.path
           s == [status[p] EXCEPT !.state = "ready", !.op = 0]
<1>1. p \in Paths /\ co \in Locals BY RepoType
<1>2. UNCHANGED <<journal, repo, server, published>> /\ Grows BY DEF AdmitResume, Grows
<1>3. status[p] \in Statuses /\ StatusFine(status[p], published[p])
  BY <1>1 DEF Trusted, Data, StatusesFine, TypeInv, TypeOK
<1>4. RowsFine' BY <1>2, SameData DEF Trusted, Data
<1>5. CASE Release /\ UNCHANGED status BY <1>2, <1>5, RefusedTrusted
<1>6. CASE /\ applyStatus(p, s, "reset")
           /\ co' = [co EXCEPT !.pc = "create_resumed", !.resumed = TRUE, !.prev = status[p]]
  <2>1. s \in Statuses /\ s.remote = status[p].remote
    BY <1>1, <1>3, StatusExceptType DEF GitStates, Statuses
  <2> HIDE DEF s
  <2>2. StatusesFine'
    <3>1. StatusFine(s, published'[p]) BY <1>2, <1>3, <2>1 DEF StatusFine
    <3> QED BY <1>1, <1>2, <1>6, <2>1, <3>1, StatusApply DEF Trusted, Data
  <2>3. Holder'
    <3>1. co'.pc = "create_resumed" /\ co'.path = p /\ co'.ck = co.ck /\ co'.res = co.res /\ co'.prev = status[p]
      BY <1>1, <1>6 DEF Locals
    <3>2. {co'.ck.remote, co'.ck.candidate, co'.res.remote, co'.prev.remote} \subseteq published[p] \cup {0}
      BY <1>3, <3>1, HolderOids DEF StatusFine
    <3>3. "create_resumed" \notin JobLabels \cup {"free", "recover"} BY DEF JobLabels
    <3> QED BY <1>2, <3>1, <3>2, <3>3, RequestFine DEF Holder
  <2> QED BY <1>2, <1>4, <2>2, <2>3, TablesFine
<1> QED BY <1>5, <1>6 DEF AdmitResume, s

\* The status a change began with comes back.
LEMMA PreviousTrusted ==
  ASSUME TypeInv, Trusted, Release, UNCHANGED <<journal, repo, server, published>>,
         status' = [status EXCEPT ![co.path] = co.prev] \/ UNCHANGED status
  PROVE  Trusted'
<1>1. Grows /\ co.path \in Paths BY RepoType DEF Grows
<1>2. StatusFine(co.prev, published'[co.path]) BY HolderOids DEF StatusFine
<1>3. StatusesFine' BY <1>1, <1>2, StatusWrite, SameData DEF Trusted, Data
<1>4. RowsFine' BY <1>1, SameData DEF Trusted, Data
<1> QED BY <1>3, <1>4, ReleaseFine, TablesFine

LEMMA AdmitStatusTrusted == ASSUME TypeInv, Trusted, AdmitStatus PROVE Trusted'
<1> DEFINE p == co.path
           s == AdmittedStatus(p, co.op)
<1>1. p \in Paths /\ co.op \in Op(p) /\ co.pc \in RowLabels
  BY RepoType DEF AdmitStatus, TypeInv, RowsExist, RowLabels
<1>2. UNCHANGED <<journal, repo, server, published>> /\ Grows BY DEF AdmitStatus, Grows
<1>3. status[p] \in Statuses /\ StatusFine(status[p], published[p]) /\ RowFine(Row, published[p])
  BY <1>1 DEF Trusted, Data, StatusesFine, RowsFine, Row, TypeInv, TypeOK
<1>4. s \in Statuses BY <1>1, AdmittedStatusType
<1>5. s.remote \in {status[p].remote, Row.remote} BY <1>3 DEF AdmittedStatus, WorkingStatus, Statuses
<1> HIDE DEF s
<1>6. StatusesFine'
  <2>1. CASE applyStatus(p, s, "preserve")
    <3>1. StatusFine(s, published'[p]) BY <1>2, <1>3, <1>5 DEF StatusFine, RowFine
    <3> QED BY <1>1, <1>2, <1>4, <2>1, <3>1, StatusApply DEF Trusted, Data
  <2>2. CASE UNCHANGED status BY <1>2, <2>2, SameData DEF Trusted, Data
  <2> QED BY <2>1, <2>2 DEF AdmitStatus, s
<1>7. Holder'
  <2>1. "undo" \notin JobLabels \cup {"free", "recover"} BY DEF JobLabels
  <2>2. Release \/ Goto("undo") BY DEF AdmitStatus
  <2> QED BY <1>2, <2>1, <2>2, ReleaseFine, GotoHolder
<1>8. RowsFine' BY <1>2, SameData DEF Trusted, Data
<1> QED BY <1>2, <1>6, <1>7, <1>8, TablesFine

LEMMA UndoTrusted == ASSUME TypeInv, Trusted, Undo PROVE Trusted'
<1>1. UNCHANGED <<status, repo, server, published>> /\ Grows BY DEF Undo, Grows
<1>2. co.path \in Paths /\ co.op \in Op(co.path) BY RepoType DEF Undo, TypeInv, RowsExist, RowLabels
<1>3. RowsFine'
  <2>1. CASE WriteRow(co.path, co.op, Finished(Row, "failed", "queued", NoResult))
    BY <1>1, <1>2, <2>1, FailedRowFine, RowsWrite DEF Trusted, Data, Row
  <2>2. CASE UNCHANGED journal BY <1>1, <2>2, SameData DEF Trusted, Data
  <2> QED BY <2>1, <2>2 DEF Undo
<1>4. Holder'
  <2>1. "rollback" \notin JobLabels \cup {"free", "recover"} BY DEF JobLabels
  <2>2. Release \/ Goto("rollback") BY DEF Undo
  <2> QED BY <1>1, <2>1, <2>2, ReleaseFine, GotoHolder
<1>5. StatusesFine' BY <1>1, SameData DEF Trusted, Data
<1> QED BY <1>1, <1>3, <1>4, <1>5, TablesFine

LEMMA SaveConfigTrusted == ASSUME TypeInv, Trusted, SaveConfig PROVE Trusted'
<1>1. UNCHANGED <<journal, status, repo, server, published>> BY DEF SaveConfig
<1>2. "restore_status" \notin JobLabels \cup {"free", "recover"} BY DEF JobLabels
<1>3. Release \/ Goto("restore_status") BY DEF SaveConfig
<1> QED BY <1>1, <1>2, <1>3, ReleaseFine, GotoHolder, HolderStep

\* Every step of an admission or a settings change preserves the invariant.
LEMMA AdmissionTrusted == ASSUME TypeInv, Trusted, AdmissionStep PROVE Trusted'
<1>1. CASE AdmitSync \/ AdmitInitialize
  BY <1>1, AdmitTrusted DEF AdmitSync, AdmitInitialize, OperationKinds
<1>2. CASE Rollback \/ RestoreStatus BY <1>2, PreviousTrusted DEF Rollback, RestoreStatus
<1> QED BY <1>1, <1>2, RefreshQueuedTrusted, AdmitResumeTrusted, CreateResumedTrusted,
           AdmitStatusTrusted, UndoTrusted, SaveConfigTrusted DEF AdmissionStep

-----------------------------------------------------------------------------
(* Taking a job. *)

LEMMA BeginTrusted == ASSUME TypeInv, Trusted, Begin PROVE Trusted'
<1> DEFINE job == Head(queue)
           p == job.path
           row == journal[p][job.op]
           ck == CheckpointOf(row)
           label == FirstStep(row.kind)
<1>1. UNCHANGED <<journal, status, repo, server, published>> BY DEF Begin, durable
<1>2. p \in Paths /\ job.op \in Op(p) BY QueueTailType DEF Begin, Jobs
<1>3. row \in Rows /\ RowFine(row, published[p]) BY <1>2, RowAt DEF Trusted, Data, RowsFine
<1>4. co' = [Idle EXCEPT !.path = p, !.op = job.op, !.cfg = job.cfg,
                         !.pc = IF config[p] # job.cfg THEN "stale" ELSE "journal",
                         !.ck = ck, !.next = label]
  BY DEF Begin
<1>5. co'.path = p /\ co'.op = job.op /\ co'.ck = ck /\ co'.next = label
      /\ co'.pc \in {"stale", "journal"} /\ co'.res = NoResult /\ co'.prev = NoStatus /\ co'.after = "free"
  BY <1>4 DEF Idle
<1>6. ck.remote = row.remote /\ ck.candidate = row.candidate BY DEF CheckpointOf
<1>7. label \in Steps \ {"leave"} /\ Needs(label, ck, "free", row, repo[p], published[p])
  BY <1>3, <1>6 DEF FirstStep, Needs, Rows, OperationKinds, Steps, JobLabels
<1> HIDE DEF row, ck, label, job
<1>8. {co'.ck.remote, co'.ck.candidate, co'.res.remote, co'.prev.remote} \subseteq published[p] \cup {0}
  BY <1>3, <1>5, <1>6 DEF RowFine, NoResult, NoStatus
<1>9. HolderFine(co', row, repo[p], published[p])
  <2>1. CASE co'.pc = "journal" BY <1>5, <1>7, <1>8, <2>1, NextFine
  <2>2. CASE co'.pc = "stale"
    <3>1. co'.pc \in Steps \ {"leave", "succeed_journal"} /\ Needs(co'.pc, ck, "free", row, repo[p], published[p])
      BY <2>2 DEF Steps, JobLabels, Needs
    <3> QED BY <1>5, <1>8, <3>1, StepFine
  <2> QED BY <1>5, <2>1, <2>2
<1>10. Row' = row /\ Repo' = repo[p] /\ published'[co'.path] = published[p]
  BY <1>1, <1>5 DEF Row, Repo, row
<1>11. Holder' BY <1>5, <1>9, <1>10 DEF Holder
<1> QED BY <1>1, <1>11, HolderStep

\* Settling the last conflict leaves HEAD and its history.
LEMMA ResolveConflictTrusted == ASSUME TypeInv, Trusted, ResolveConflict PROVE Trusted'
<1> DEFINE p == Head(queue).path
<1>1. UNCHANGED <<journal, status, server, published, co>> /\ Grows
  BY DEF ResolveConflict, WorkerFrame, Grows
<1>2. p \in Paths BY QueueTailType DEF ResolveConflict, Jobs
<1>3. co = Idle BY DEF ResolveConflict, Free, Trusted, Holder, HolderFine
<1>4. Holder' BY <1>1, <1>3, IdleFine DEF Holder
<1>5. ReposFine'
  <2>1. ASSUME NEW merge \in {"conflict", "resolved"}, repo[p].merge = "conflict",
               UpdateRepo(p, [repo[p] EXCEPT !.merge = merge])
        PROVE  ReposFine'
    <3> DEFINE r == [repo[p] EXCEPT !.merge = merge]
    <3>1. repo[p] \in Repos /\ RepoFine(repo[p], published[p]) BY <1>2 DEF Trusted, Data, ReposFine, TypeInv, TypeOK
    <3>2. r.managed = repo[p].managed /\ r.history = repo[p].history /\ r.head = repo[p].head
          /\ r.mergeHead = repo[p].mergeHead
      BY <3>1 DEF Repos
    <3> HIDE DEF r
    <3>3. RepoFine(r, published'[p]) BY <1>1, <2>1, <3>1, <3>2 DEF RepoFine
    <3> QED BY <1>1, <1>2, <2>1, <3>3, RepoWrite DEF Trusted, Data, r
  <2>2. CASE UNCHANGED repo BY <1>1, <2>2, SameData DEF Trusted, Data
  <2> QED BY <2>1, <2>2 DEF ResolveConflict
<1>6. Data' BY <1>1, <1>5, SameData DEF Trusted, Data, ServerFine
<1> QED BY <1>4, <1>6 DEF Trusted

-----------------------------------------------------------------------------
(* Recovery.  What it finds, and so what it plans to write, has published   *)
(* OIDs; a completion it reports as pushed has its push in the trusted ref. *)

FineWrites(p) == {w \in Writes : WriteFine(w, published[p])}

LEMMA SeqsOf ==
  ASSUME NEW S
  PROVE  /\ <<>> \in Seq(S)
         /\ \A a \in S : <<a>> \in Seq(S)
         /\ \A a, b \in S : <<a, b>> \in Seq(S)
         /\ \A u, v \in Seq(S) : u \o v \in Seq(S)
<1>1. \A u, v \in Seq(S) : u \o v \in Seq(S) BY ConcatProperties
<1>2. \A a \in S : <<a>> \in Seq(S) OBVIOUS
<1>3. \A a, b \in S : <<a, b>> \in Seq(S) OBVIOUS
<1> QED BY <1>1, <1>2, <1>3, EmptySeq

LEMMA InspectedFine ==
  ASSUME TypeInv, Trusted, NEW p \in Paths
  PROVE  Inspected(p, recoveryOperation(p)).remote \in published[p] \cup {0}
<1> DEFINE i == recoveryOperation(p)
<1>1. i \in Op(p) \cup {0} BY RecoveryOps
<1> HIDE DEF i
<1>2. repo[p].managed \in published[p] \cup {0} BY DEF Trusted, Data, ReposFine, RepoFine
<1>3. recoveryRemoteOID(p, i).oid \in published[p] \cup {0}
  <2>1. CASE i = 0 BY <1>2, <2>1 DEF recoveryRemoteOID
  <2>2. CASE i \in Op(p) /\ i # 0
    <3>1. RowFine(journal[p][i], published[p]) BY <2>2 DEF Trusted, Data, RowsFine
    <3> QED BY <1>2, <2>2, <3>1 DEF recoveryRemoteOID, RowFine
  <2> QED BY <1>1, <2>1, <2>2
<1>4. Inspected(p, i).remote \in {0, recoveryRemoteOID(p, i).oid} BY DEF Inspected, Found
<1> QED BY <1>3, <1>4 DEF i

LEMMA PushedFine ==
  ASSUME TypeInv, Serial, Trusted, NEW p \in Paths, ActiveByPath(p) # 0,
         Inspected(p, recoveryOperation(p)).state = "pushed"
  PROVE  journal[p][ActiveByPath(p)].push \in published[p]
<1> DEFINE i == recoveryOperation(p)
           row == journal[p][i]
<1>1. recoveryConflictState(p, i) = "pushed"
  <2> DEFINE state == recoveryConflictState(p, i)
  <2>1. Inspected(p, i).state \in {"none", "conflict", "can_complete", "ambiguous", state}
    BY DEF Inspected, Found
  <2> HIDE DEF state
  <2> QED BY <2>1 DEF state
<1> HIDE DEF i
<1>2. i # 0 /\ row.kind = "conflict_complete" /\ recoveryPushOID(row) # 0
      /\ repo[p].managed = recoveryPushOID(row)
  BY <1>1 DEF recoveryConflictState, Pushed
<1>3. row.push = repo[p].managed /\ row.push # 0 BY <1>2 DEF recoveryPushOID
<1>4. i = ActiveByPath(p)
  <2>1. CASE unfinishedTransition(p) BY <2>1 DEF recoveryOperation, i
  <2>2. CASE ~unfinishedTransition(p) /\ status[p].state = "conflict"
    <3>1. i = recoveryConflictOperation(p) BY <2>2 DEF recoveryOperation, i
    <3>2. Original(row) BY <1>2, <3>1 DEF recoveryConflictOperation, Settles
    <3> QED BY <1>2, <3>2 DEF Original
  <2>3. CASE ~unfinishedTransition(p) /\ status[p].state # "conflict"
    <3>1. i = LatestByPath(p) BY <1>2, <2>3 DEF recoveryOperation, i
    <3>2. ActiveRows(p) # {} BY DEF ActiveByPath
    <3>3. ActiveByPath(p) \in ActiveRows(p) BY <3>2 DEF ActiveByPath
    <3> QED BY <3>1, <3>3 DEF Serial, OnlyLastRowActive, LatestByPath
  <2> QED BY <2>1, <2>2, <2>3
<1>5. repo[p].managed \in published[p] \cup {0} BY DEF Trusted, Data, ReposFine, RepoFine
<1> QED BY <1>3, <1>4, <1>5

\* What recovery writes to the status has the OID it found, or that of the status.
LEMMA StatusWriteFine ==
  ASSUME TypeInv, Trusted, NEW p \in Paths, NEW found, found.remote \in Nat,
         found.remote \in published[p] \cup {0}, NEW state \in GitStates \cup {"absent"}
  PROVE  /\ \A op \in Nat, action \in FailureActions : Status(p, found, state, op, action) \in FineWrites(p)
         /\ Published(p, found, state) \in FineWrites(p)
<1>1. status[p] \in Statuses /\ StatusFine(status[p], published[p]) /\ status[p].op \in Nat
  BY DEF Trusted, Data, StatusesFine, TypeInv, TypeOK, Statuses
<1>2. ASSUME NEW op \in Nat, NEW action \in FailureActions, NEW name \in {"status", "publish"}
      PROVE  WriteFine(<<name, Transition(p, found, state, op, action)>>, published[p])
  <2>1. Transition(p, found, state, op, action).remote = Keep(found.remote, status[p].remote)
    BY <1>1 DEF Transition, ApplyTransition, Statuses
  <2>2. Keep(found.remote, status[p].remote) \in published[p] \cup {0} BY <1>1 DEF Keep, StatusFine
  <2> QED BY <2>1, <2>2 DEF WriteFine, StatusFine
<1>3. "preserve" \in FailureActions BY DEF FailureActions
<1> QED BY <1>1, <1>2, <1>3, StatusWriteType DEF Status, Published, FineWrites

LEMMA JournalWriteFine ==
  ASSUME NEW p, NEW row \in Rows, RowFine(row, published[p]) PROVE Journal(row) \in FineWrites(p)
BY JournalWriteType DEF FineWrites, WriteFine, Journal

\* A row that failed, or met a conflict, reports nothing.
LEMMA EndedFine ==
  ASSUME NEW p, NEW row \in Rows, RowFine(row, published[p]), NEW state \in {"failed", "conflict"}
  PROVE  Journal(Finished(row, state, "queued", NoResult)) \in FineWrites(p)
<1>1. Finished(row, state, "queued", NoResult) \in Rows
  BY FinishedType, NoResultType DEF OperationStates, Stages
<1>2. NoResult.remote \in published[p] \cup {0} BY DEF NoResult
<1>3. RowFine(Finished(row, state, "queued", NoResult), published[p]) BY <1>2, FinishFine
<1> QED BY <1>1, <1>3, JournalWriteFine

\* A running row reports nothing either.
LEMMA RunningFine ==
  ASSUME NEW p, NEW row \in Rows, RowFine(row, published[p]), NEW ck \in Checkpoints,
         {ck.remote, ck.candidate} \subseteq published[p] \cup {0}
  PROVE  Checkpointed(row, ck) \in Rows /\ RowFine(Checkpointed(row, ck), published[p])
<1> DEFINE new == Checkpointed(row, ck)
<1>1. new \in Rows BY CheckpointedType
<1>2. new.state = "running" /\ new.remote = ck.remote /\ new.candidate = ck.candidate
  BY DEF Checkpointed, Rows
<1> HIDE DEF new
<1>3. RowFine(new, published[p]) BY <1>2 DEF RowFine
<1> QED BY <1>1, <1>3 DEF new

LEMMA RecoverAbortFine ==
  ASSUME TypeInv, Trusted, NEW p \in Paths, NEW row \in Rows, RowFine(row, published[p]),
         row.kind = "conflict_abort", NEW found, found.remote \in Nat,
         found.remote \in published[p] \cup {0}, ActiveByPath(p) # 0
  PROVE  /\ RecoverAbort(p, row, found).writes \in Seq(FineWrites(p))
         /\ RecoverAbort(p, row, found).fallback \in Seq(FineWrites(p))
<1>1. ActiveByPath(p) \in Nat /\ originalConflict(p) \in Nat BY ActiveType, RecoveryOps, RowAt
<1>2. {"paused", "conflict"} \subseteq GitStates /\ "preserve" \in FailureActions
  BY DEF GitStates, FailureActions
<1>3. /\ Status(p, found, "paused", ActiveByPath(p), "preserve") \in FineWrites(p)
      /\ Status(p, found, "conflict", originalConflict(p), "preserve") \in FineWrites(p)
  BY <1>1, <1>2, StatusWriteFine
<1>4. Journal(Finished(row, "succeeded", "completed", NoResult)) \in FineWrites(p)
  <2>1. Finished(row, "succeeded", "completed", NoResult) \in Rows
    BY FinishedType, NoResultType DEF OperationStates, Stages
  <2>2. NoResult.remote \in published[p] \cup {0} BY DEF NoResult
  <2>3. RowFine(Finished(row, "succeeded", "completed", NoResult), published[p]) BY <2>2, FinishFine
  <2> QED BY <2>1, <2>3, JournalWriteFine
<1>5. Journal(Finished(row, "failed", "queued", NoResult)) \in FineWrites(p) BY EndedFine
<1> QED BY <1>3, <1>4, <1>5, SeqsOf, Zenon DEF RecoverAbort, Plan

LEMMA RecoverCompletionFine ==
  ASSUME TypeInv, Trusted, NEW p \in Paths, NEW row \in Rows, RowFine(row, published[p]),
         NEW found, found.remote \in Nat, found.remote \in published[p] \cup {0}, ActiveByPath(p) # 0,
         found.state = "pushed" => row.push \in published[p]
  PROVE  /\ RecoverCompletion(p, row, found).writes \in Seq(FineWrites(p))
         /\ RecoverCompletion(p, row, found).fallback \in Seq(FineWrites(p))
<1> DEFINE ck == [CheckpointOf(row) EXCEPT !.stage = "conflict_reindexed"]
           reindexed == Checkpointed(row, ck)
           current == IF found.state = "needs_reindex" THEN reindexed ELSE row
           res == [remote |-> found.remote, push |-> 0]
           i == ActiveByPath(p)
<1>1. i \in Nat BY ActiveType
<1>2. reindexed \in Rows /\ RowFine(reindexed, published[p])
  <2>1. CheckpointOf(row) \in Checkpoints /\ "conflict_reindexed" \in Stages
    BY DEF CheckpointOf, Checkpoints, Rows, Stages
  <2>2. ck \in Checkpoints /\ ck.remote = row.remote /\ ck.candidate = row.candidate
    BY <2>1 DEF Checkpoints, CheckpointOf
  <2> HIDE DEF ck
  <2> QED BY <2>2, RunningFine DEF RowFine
<1>3. current \in Rows /\ RowFine(current, published[p]) BY <1>2
<1>4. res \in Results /\ res.remote = found.remote /\ res.push = 0 BY DEF Results, Oids
<1> HIDE DEF res, current, reindexed, i, ck
<1>5. {"ready", "error"} \subseteq GitStates /\ {"reset", "preserve"} \subseteq FailureActions
  BY DEF GitStates, FailureActions
<1>6. /\ Status(p, found, "ready", i, "reset") \in FineWrites(p)
      /\ Status(p, found, "error", i, "preserve") \in FineWrites(p)
  BY <1>1, <1>5, StatusWriteFine
<1>7. /\ Journal(Finished(current, "failed", "queued", NoResult)) \in FineWrites(p)
      /\ Journal(current) \in FineWrites(p)
  BY <1>3, EndedFine, JournalWriteFine
<1>8. ASSUME found.state = "pushed"
      PROVE  Journal(Finished(row, "succeeded", "completed", res)) \in FineWrites(p)
  <2>1. Finished(row, "succeeded", "completed", res) \in Rows
    BY <1>4, FinishedType DEF OperationStates, Stages
  <2>2. Keep(row.push, res.push) \in published[p] BY <1>4, <1>8 DEF Keep
  <2>3. RowFine(Finished(row, "succeeded", "completed", res), published[p]) BY <1>4, <2>2, FinishFine
  <2> QED BY <2>1, <2>3, JournalWriteFine
<1>9. CASE found.state = "pushed"
  <2>1. <<Status(p, found, "ready", i, "reset"), Journal(Finished(row, "succeeded", "completed", res))>>
          \in Seq(FineWrites(p))
    BY <1>6, <1>8, <1>9, SeqsOf
  <2> QED BY <1>9, <2>1, SeqsOf, Zenon DEF RecoverCompletion, Plan, res, i
<1>10. CASE found.state # "pushed"
  <2>1. (IF current # row THEN <<Journal(current)>> ELSE <<>>) \in Seq(FineWrites(p)) BY <1>7, SeqsOf
  <2>2. <<Status(p, found, "error", i, "preserve"), Journal(Finished(current, "failed", "queued", NoResult))>>
          \in Seq(FineWrites(p))
    BY <1>6, <1>7, SeqsOf
  <2> QED BY <1>10, <2>1, <2>2, SeqsOf, Zenon DEF RecoverCompletion, Plan, i, current, reindexed, ck
<1> QED BY <1>9, <1>10

LEMMA RecoverInterruptedFine ==
  ASSUME TypeInv, Trusted, NEW p \in Paths, NEW row \in Rows, RowFine(row, published[p]),
         NEW found, found.remote \in Nat, found.remote \in published[p] \cup {0}
  PROVE  /\ RecoverInterrupted(p, row, found).writes \in Seq(FineWrites(p))
         /\ RecoverInterrupted(p, row, found).fallback \in Seq(FineWrites(p))
<1> DEFINE conflict == found.conflict \/ durableConflict(p)
           ck == [CheckpointOf(row) EXCEPT !.remote = found.remote]
           trusted == Checkpointed(row, ck)
           advanced == found.remote # 0 /\ found.remote # row.remote
           current == IF advanced THEN trusted ELSE row
           final == IF conflict THEN "conflict" ELSE "failed"
           last == IF conflict THEN "conflict" ELSE "needs_reconnect"
           state == Settled(p, found)
<1>1. trusted \in Rows /\ RowFine(trusted, published[p])
  <2>1. CheckpointOf(row) \in Checkpoints BY DEF CheckpointOf, Checkpoints, Rows
  <2>2. ck \in Checkpoints /\ ck.remote = found.remote /\ ck.candidate = row.candidate
    BY <2>1 DEF Checkpoints, Oids, CheckpointOf
  <2> HIDE DEF ck
  <2> QED BY <2>2, RunningFine DEF RowFine
<1>2. current \in Rows /\ RowFine(current, published[p]) BY <1>1
<1>3. final \in {"failed", "conflict"} /\ last \in GitStates BY DEF GitStates
<1>4. state \in GitStates BY SettledType
<1> HIDE DEF conflict, ck, trusted, advanced, current, final, last, state
<1>5. Journal(trusted) \in FineWrites(p) /\ Journal(Finished(current, final, "queued", NoResult)) \in FineWrites(p)
  BY <1>1, <1>2, <1>3, EndedFine, JournalWriteFine
<1>6. Published(p, found, state) \in FineWrites(p) /\ Published(p, found, last) \in FineWrites(p)
  BY <1>3, <1>4, StatusWriteFine
<1>7. (IF advanced THEN <<Journal(trusted)>> ELSE <<>>) \in Seq(FineWrites(p)) BY <1>5, SeqsOf
<1>8. <<Journal(Finished(current, final, "queued", NoResult)), Published(p, found, state)>> \in Seq(FineWrites(p))
  BY <1>5, <1>6, SeqsOf
<1>9. <<Published(p, found, last)>> \in Seq(FineWrites(p)) BY <1>6, SeqsOf
<1>10. RecoverInterrupted(p, row, found) =
         Plan((IF advanced THEN <<Journal(trusted)>> ELSE <<>>) \o
                <<Journal(Finished(current, final, "queued", NoResult)), Published(p, found, state)>>,
              Gates(state), <<Published(p, found, last)>>)
  BY Zenon DEF RecoverInterrupted, conflict, ck, trusted, advanced, current, final, last, state
<1>11. (IF advanced THEN <<Journal(trusted)>> ELSE <<>>) \o
         <<Journal(Finished(current, final, "queued", NoResult)), Published(p, found, state)>> \in Seq(FineWrites(p))
  BY <1>7, <1>8, SeqsOf
<1> QED BY <1>9, <1>10, <1>11, SMT DEF Plan

LEMMA RecoverSettledFine ==
  ASSUME TypeInv, Trusted, NEW p \in Paths, NEW found, found.remote \in Nat,
         found.remote \in published[p] \cup {0}
  PROVE  /\ RecoverSettled(p, found).writes \in Seq(FineWrites(p))
         /\ RecoverSettled(p, found).fallback \in Seq(FineWrites(p))
<1> DEFINE i == recoveryOperation(p)
           state == Settled(p, found)
<1>1. i \in Nat BY RecoveryOps, RowAt
<1>2. state \in GitStates BY SettledType
<1> HIDE DEF i, state
<1>3. Status(p, found, "error", i, "preserve") \in FineWrites(p) /\ Published(p, found, state) \in FineWrites(p)
  BY <1>1, <1>2, StatusWriteFine DEF GitStates, FailureActions
<1>4. CASE i # 0 /\ journal[p][i].kind = "conflict_complete" /\ found.state \in Halfway
  BY <1>3, <1>4, SeqsOf, Zenon DEF RecoverSettled, Plan, i
<1>5. CASE ~(i # 0 /\ journal[p][i].kind = "conflict_complete" /\ found.state \in Halfway)
  BY <1>3, <1>5, SeqsOf, Zenon DEF RecoverSettled, Plan, i, state
<1> QED BY <1>4, <1>5

\* Whatever recovery finds, it plans to write published OIDs.
LEMMA RecoveryPlanFine ==
  ASSUME TypeInv, Trusted, NEW p \in Paths, NEW found, found.remote \in Nat,
         found.remote \in published[p] \cup {0},
         ActiveByPath(p) # 0 /\ found.state = "pushed" =>
           journal[p][ActiveByPath(p)].push \in published[p]
  PROVE  /\ RecoveryPlan(p, found).writes \in Seq(FineWrites(p))
         /\ RecoveryPlan(p, found).fallback \in Seq(FineWrites(p))
<1> DEFINE i == ActiveByPath(p)
           row == journal[p][i]
<1>1. CASE i = 0 BY <1>1, RecoverSettledFine DEF RecoveryPlan
<1>2. CASE i # 0
  <2>1. row \in Rows /\ RowFine(row, published[p])
    BY <1>2, ActiveType, RowAt DEF Trusted, Data, RowsFine
  <2>2. \/ RecoveryPlan(p, found) = RecoverAbort(p, row, found) /\ row.kind = "conflict_abort"
        \/ RecoveryPlan(p, found) \in {RecoverCompletion(p, row, found), RecoverInterrupted(p, row, found)}
    BY <1>2 DEF RecoveryPlan
  <2> QED BY <1>2, <2>1, <2>2, RecoverAbortFine, RecoverCompletionFine, RecoverInterruptedFine
<1> QED BY <1>1, <1>2

\* A recovery that has planned its writes.
LEMMA PlannedFine ==
  ASSUME NEW p \in Paths, NEW c, c.pc = "recover", c.path = p,
         {c.ck.remote, c.ck.candidate, c.res.remote, c.prev.remote} \subseteq published[p] \cup {0},
         c.plan \in Seq(FineWrites(p)), c.fallback \in Seq(FineWrites(p)), NEW row, NEW r
  PROVE  HolderFine(c, row, r, published[p])
<1>1. c.pc \notin JobLabels BY DEF JobLabels
<1>2. /\ \A k \in DOMAIN c.plan : WriteFine(c.plan[k], published[p])
      /\ \A k \in DOMAIN c.fallback : WriteFine(c.fallback[k], published[p])
  BY LenProperties, ElementOfSeq DEF FineWrites
<1> QED BY <1>1, <1>2, OutsideFlow DEF HolderFine

LEMMA RecoverBaseTrusted ==
  ASSUME TypeInv, Serial, Trusted, NEW p \in Paths, RecoverBase(p) PROVE Trusted'
<1>1. UNCHANGED <<journal, status, repo, server, published>> BY DEF RecoverBase, durable
<1>2. CASE UNCHANGED co BY <1>1, <1>2, MemoryStep
<1>3. ASSUME NEW found \in {Inspected(p, recoveryOperation(p)), Uninspected},
             co' = [Idle EXCEPT !.pc = "recover", !.path = p, !.op = RecoveredRow(p),
                                !.plan = RecoveryPlan(p, found).writes,
                                !.fallback = RecoveryPlan(p, found).fallback]
      PROVE  Trusted'
  <2>1. found.remote \in Nat /\ found.remote \in published[p] \cup {0}
    BY InspectedType, InspectedFine DEF Uninspected, Found
  <2>2. ActiveByPath(p) # 0 /\ found.state = "pushed" => journal[p][ActiveByPath(p)].push \in published[p]
    BY PushedFine DEF Uninspected, Found
  <2>3. /\ RecoveryPlan(p, found).writes \in Seq(FineWrites(p))
        /\ RecoveryPlan(p, found).fallback \in Seq(FineWrites(p))
    BY <2>1, <2>2, RecoveryPlanFine
  <2>4. /\ co'.pc = "recover" /\ co'.path = p /\ co'.plan = RecoveryPlan(p, found).writes
        /\ co'.fallback = RecoveryPlan(p, found).fallback
        /\ co'.ck = Idle.ck /\ co'.res = NoResult /\ co'.prev = NoStatus
    BY <1>3 DEF Idle
  <2>5. {co'.ck.remote, co'.ck.candidate, co'.res.remote, co'.prev.remote} \subseteq published[p] \cup {0}
    BY <2>4 DEF Idle, NoResult, NoStatus
  <2>6. Holder' BY <1>1, <2>3, <2>4, <2>5, PlannedFine DEF Holder
  <2> QED BY <1>1, <2>6, HolderStep
<1> QED BY <1>2, <1>3 DEF RecoverBase

LEMMA ApplyWriteTrusted == ASSUME TypeInv, Trusted, ApplyWrite PROVE Trusted'
<1> DEFINE p == co.path
           pub == published[p]
           write == Head(co.plan)
           rest == Tail(co.plan)
           Planned(w) == \A k \in DOMAIN w : WriteFine(w[k], pub)
<1>1. UNCHANGED <<repo, server, published>> /\ Grows BY DEF ApplyWrite, Grows
<1>2. /\ p \in Paths /\ co \in Locals /\ co.pc = "recover" /\ co.plan # <<>>
      /\ co.plan \in Seq(Writes) /\ co.fallback \in Seq(Writes)
  BY RepoType DEF ApplyWrite, Locals
<1>3. Planned(co.plan) /\ Planned(co.fallback) BY <1>2 DEF Trusted, Holder, HolderFine
<1>4. /\ write \in Writes /\ WriteFine(write, pub) /\ Planned(rest)
  <2>1. /\ Len(co.plan) \in Nat /\ Len(co.plan) # 0 /\ DOMAIN co.plan = 1 .. Len(co.plan)
        /\ rest \in Seq(Writes) /\ Len(rest) = Len(co.plan) - 1 /\ write \in Writes
        /\ \A k \in 1 .. Len(rest) : rest[k] = co.plan[k + 1]
    BY <1>2, LenProperties, EmptySeq, HeadTailProperties
  <2>2. DOMAIN rest = 1 .. Len(co.plan) - 1 BY <2>1, LenProperties
  <2>3. write = co.plan[1] BY <1>2
  <2>4. 1 \in DOMAIN co.plan /\ \A k \in DOMAIN rest : k + 1 \in DOMAIN co.plan /\ rest[k] = co.plan[k + 1]
    BY <2>1, <2>2
  <2> QED BY <1>3, <2>1, <2>3, <2>4
<1>5. ASSUME NEW next, Planned(next), NextWrite(next) PROVE Holder'
  <2>1. CASE co' = Idle BY <2>1, IdleFine DEF Holder
  <2>2. CASE co' = [co EXCEPT !.plan = next]
    <3>1. /\ co'.pc = "recover" /\ co'.path = p /\ co'.plan = next /\ co'.fallback = co.fallback
          /\ co'.ck = co.ck /\ co'.res = co.res /\ co'.prev = co.prev
      BY <1>2, <2>2 DEF Locals
    <3>2. co'.pc \notin JobLabels BY <3>1 DEF JobLabels
    <3>3. Flow(co', Row', Repo', pub) BY <3>2, OutsideFlow
    <3>4. HolderFine(co', Row', Repo', pub)
      BY <1>3, <1>5, <3>1, <3>3, HolderOids DEF HolderFine
    <3> QED BY <1>1, <3>1, <3>4 DEF Holder
  <2> QED BY <1>5, <2>1, <2>2 DEF NextWrite
<1>6. Holder'
  <2>1. Planned(IF write[1] = "journal" THEN co.fallback ELSE <<>>)
    <3>1. Planned(<<>>) OBVIOUS
    <3> QED BY <1>3, <3>1
  <2>2. NextWrite(rest) \/ NextWrite(IF write[1] = "journal" THEN co.fallback ELSE <<>>) BY DEF ApplyWrite
  <2> HIDE DEF Planned, rest, write
  <2> QED BY <1>4, <1>5, <2>1, <2>2
<1> HIDE DEF Planned, rest
<1>7. RowsFine'
  <2>1. CASE write[1] = "journal" /\ WriteRow(p, co.op, write[2])
    <3>1. RowFine(write[2], published'[p]) BY <1>1, <1>4, <2>1 DEF WriteFine
    <3> QED BY <1>1, <1>2, <2>1, <3>1, RowsWrite DEF Trusted, Data
  <2>2. CASE UNCHANGED journal BY <1>1, <2>2, SameData DEF Trusted, Data
  <2> QED BY <2>1, <2>2 DEF ApplyWrite
<1>8. StatusesFine'
  <2>1. CASE write[1] # "journal" /\ status' = [status EXCEPT ![p] = write[2]]
    <3>1. StatusFine(write[2], published'[p]) BY <1>1, <1>4, <2>1 DEF WriteFine
    <3> QED BY <1>1, <1>2, <2>1, <3>1, StatusWrite DEF Trusted, Data
  <2>2. CASE UNCHANGED status BY <1>1, <2>2, SameData DEF Trusted, Data
  <2> QED BY <2>1, <2>2 DEF ApplyWrite
<1> QED BY <1>1, <1>6, <1>7, <1>8, TablesFine

\* A process that goes down leaves the tables and the repositories.
LEMMA DownTrusted == ASSUME Trusted, Down, UNCHANGED durable PROVE Trusted'
BY HolderStep, ReleaseFine DEF Down, Release, durable

LEMMA NoteWriteTrusted == ASSUME TypeInv, Trusted, NEW p \in Paths, NoteWrite(p) PROVE Trusted'
<1> DEFINE r == [repo[p] EXCEPT !.dirty = TRUE]
<1>1. UNCHANGED <<journal, status, server, published, co>> /\ Grows BY DEF NoteWrite, Grows
<1>2. repo[p] \in Repos /\ RepoFine(repo[p], published[p])
  BY DEF Trusted, Data, ReposFine, TypeInv, TypeOK
<1>3. /\ r.managed = repo[p].managed /\ r.history = repo[p].history /\ r.head = repo[p].head
      /\ r.merge = repo[p].merge /\ r.mergeHead = repo[p].mergeHead
  BY <1>2 DEF Repos
<1>4. UpdateRepo(p, r) BY DEF NoteWrite
<1> HIDE DEF r
<1>5. RepoFine(r, published'[p]) BY <1>1, <1>2, <1>3, RepoGrows
<1>6. ReposFine' BY <1>1, <1>4, <1>5, RepoWrite DEF Trusted, Data
<1>7. Repo'.head = Repo.head /\ Repo'.history = Repo.history /\ Row' = Row
  BY <1>1, <1>3, <1>4, RepoType DEF Repo, Row, UpdateRepo, TypeInv, TypeOK
<1>8. Holder' BY <1>1, <1>7, SameHolder DEF Trusted, Holder
<1> QED BY <1>1, <1>6, <1>8, SameData DEF Trusted, Data, ServerFine

LEMMA OtherDevicePushTrusted == ASSUME TypeInv, Trusted, NEW p \in Paths, OtherDevicePush(p) PROVE Trusted'
<1> DEFINE oid == repo[p].last + 1
           r == [repo[p] EXCEPT !.last = oid]
<1>1. UNCHANGED <<journal, status, co>> BY DEF OtherDevicePush
<1>2. /\ server' = [server EXCEPT ![p] = oid]
      /\ published' = [published EXCEPT ![p] = @ \cup {oid}]
      /\ UpdateRepo(p, r)
  BY DEF OtherDevicePush
<1>3. repo[p] \in Repos /\ RepoFine(repo[p], published[p])
  BY DEF Trusted, Data, ReposFine, TypeInv, TypeOK
<1>4. oid # 0
  <2>1. repo[p].last \in Nat BY <1>3 DEF Repos, Oids
  <2> QED BY <2>1
<1>5. /\ r.managed = repo[p].managed /\ r.history = repo[p].history /\ r.head = repo[p].head
      /\ r.merge = repo[p].merge /\ r.mergeHead = repo[p].mergeHead
  BY <1>3 DEF Repos
<1> HIDE DEF r, oid
<1>6. Grows BY <1>2 DEF Grows, TypeInv, TypeOK
<1>7. ServerFine' BY <1>2, <1>4 DEF ServerFine, Trusted, Data, TypeInv, TypeOK
<1>8. ReposFine'
  <2>1. RepoFine(r, published'[p]) BY <1>3, <1>5, <1>6, RepoGrows DEF Grows
  <2> QED BY <1>2, <1>6, <2>1, RepoWrite DEF Trusted, Data
<1>9. Repo'.head = Repo.head /\ Repo'.history = Repo.history /\ Row' = Row
  BY <1>1, <1>2, <1>5, RepoType DEF Repo, Row, UpdateRepo, TypeInv, TypeOK
<1>10. Holder'
  <2>1. published[co.path] \subseteq published'[co.path] BY <1>6, RepoType DEF Grows
  <2> QED BY <1>1, <1>9, <2>1, SameHolder DEF Trusted, Holder
<1> QED BY <1>1, <1>6, <1>7, <1>8, <1>10, SameData DEF Trusted, Data

\* The steps of the process and its surroundings.
LEMMA WorldTrusted ==
  ASSUME TypeInv, Serial, Trusted, RecoveryStep \/ Exit \/ Surroundings PROVE Trusted'
<1>1. CASE Serve
  <2>1. CASE Down BY <1>1, <2>1, DownTrusted DEF Serve
  <2>2. CASE UNCHANGED co BY <1>1, <2>2, MemoryStep DEF Serve, durable
  <2> QED BY <1>1, <2>1, <2>2 DEF Serve
<1>2. CASE Exit \/ Crash BY <1>2, DownTrusted DEF Exit, Crash
<1>3. CASE Close \/ Boot BY <1>3, MemoryStep DEF Close, Boot, durable
<1> QED BY <1>1, <1>2, <1>3, ApplyWriteTrusted, RecoverBaseTrusted, NoteWriteTrusted, OtherDevicePushTrusted
    DEF RecoveryStep, Surroundings

-----------------------------------------------------------------------------
(* The theorems. *)

LEMMA InitTrusted == ASSUME Init PROVE Trusted
<1>1. PICK cfg \in Configs :
        journal = [p \in Paths |-> IF p \in Connected THEN <<ConnectedRow(cfg)>> ELSE <<>>]
  BY DEF Init
<1>2. /\ status = [p \in Paths |-> IF p \in Connected THEN ConnectedStatus ELSE NoStatus]
      /\ repo = [p \in Paths |-> IF p \in Connected THEN ConnectedRepo ELSE FreshRepo]
      /\ server = [p \in Paths |-> 1] /\ published = [p \in Paths |-> {1}] /\ co = Idle
  BY DEF Init
<1>3. ServerFine BY <1>2 DEF ServerFine
<1>4. RowsFine
  <2>1. RowFine(ConnectedRow(cfg), {1}) BY DEF RowFine, ConnectedRow
  <2>2. ASSUME NEW p \in Paths, NEW i \in Op(p) PROVE journal[p][i] = ConnectedRow(cfg)
    BY <1>1 DEF Op
  <2> QED BY <1>2, <2>1, <2>2 DEF RowsFine
<1>5. StatusesFine BY <1>2 DEF StatusesFine, StatusFine, ConnectedStatus, NoStatus
<1>6. ReposFine
  <2>1. RepoFine(ConnectedRepo, {1}) BY DEF RepoFine, ConnectedRepo
  <2>2. RepoFine(FreshRepo, {1})
    <3>1. /\ FreshRepo.managed = 0 /\ FreshRepo.history = {} /\ FreshRepo.head = 0
          /\ FreshRepo.merge = "none"
      BY DEF FreshRepo, ConnectedRepo
    <3> QED BY <3>1 DEF RepoFine
  <2> QED BY <1>2, <2>1, <2>2 DEF ReposFine
<1>7. Holder BY <1>2, IdleFine DEF Holder
<1> QED BY <1>3, <1>4, <1>5, <1>6, <1>7 DEF Trusted, Data

\* The induction step, by group of actions.
LEMMA TrustedStep == ASSUME TypeInv, Serial, Trusted, [Next]_vars PROVE Trusted'
<1>1. CASE UNCHANGED vars BY <1>1, MemoryStep DEF vars, durable
<1> QED BY <1>1, RequestsTrusted, AdmissionTrusted, BeginTrusted, ResolveConflictTrusted, JobTrusted, WorldTrusted
    DEF Next, TakeJob

\* The inductive invariant: every OID in a row, a status, a ref, a plan of recovery
\* or the checkpoint of a job is published, and what the next step of a job pushes,
\* merges or reports is what its checkpoint froze.
THEOREM TrustInvariant == Spec => []Trusted
<1>1. Init => Trusted BY InitTrusted
<1>2. TypeInv /\ Serial /\ Trusted /\ [Next]_vars => Trusted' BY TrustedStep
<1> QED BY <1>1, <1>2, TypesInvariant, SerialInvariant, PTL DEF Spec

\* What the manager trusts, in the status, in the journal and in the ref of the
\* repository, has been the head of the remote branch.
THEOREM TrustedIsPublished == Spec => []TrustedWasPublished
<1>1. Trusted => TrustedWasPublished
  BY DEF Trusted, Data, RowsFine, StatusesFine, ReposFine, RowFine, StatusFine, RepoFine,
         TrustedWasPublished
<1> QED BY <1>1, TrustInvariant, PTL

\* An operation reported successful has its commit on the remote, also one whose
\* push outcome a restart had to prove.
THEOREM SuccessIsPublished == Spec => []SuccessWasPublished
<1>1. Trusted => SuccessWasPublished
  BY DEF Trusted, Data, ServerFine, RowsFine, RowFine, SuccessWasPublished
<1> QED BY <1>1, TrustInvariant, PTL

\* Only a push of the worker, or of another device, moves the remote branch.
LEMMA ServerMoves ==
  ASSUME [Next]_vars
  PROVE  UNCHANGED server \/ Push \/ \E p \in Paths : OtherDevicePush(p)
<1>1. CASE Requests
  BY <1>1 DEF Requests, QueueSync, Resume, EnqueueResolve, Disable, QueueConflict, Configure,
     QueueInitialize, ChangeStatus, durable
<1>2. CASE AdmissionStep
  BY <1>2 DEF AdmissionStep, RefreshQueued, AdmitSync, AdmitInitialize, Admit, AdmitResume, CreateResumed,
     Rollback, AdmitStatus, Undo, SaveConfig, RestoreStatus
<1>3. CASE TakeJob BY <1>3 DEF TakeJob, Begin, ResolveConflict, WorkerFrame, durable
<1>4. CASE JobStep
  BY <1>4 DEF JobStep, FinishStale, Abandon, Checkpoint, Publish, Leave, Preflight, Probe,
     CreateRepository, Fetch, Trust, OpenSnapshot, Commit, MergeNeeded, RunMerge, Settle,
     VerifyCompletion, CommitMerge, SyncIndex, SaveConflictPushing, VerifyAbort, AbortMerge, Aborted,
     AbortStatus, AbortJournal, SucceedJournal, SucceedStatus, Failed, FailJournal, FailStatus,
     CommandFrame, RepoFrame, WorkerFrame, durable
<1>5. CASE RecoveryStep \/ Exit
  BY <1>5 DEF RecoveryStep, ApplyWrite, Serve, RecoverBase, Exit, durable
<1>6. CASE Surroundings BY <1>6 DEF Surroundings, Close, Crash, Boot, NoteWrite, durable
<1>7. CASE UNCHANGED vars BY <1>7 DEF vars, durable
<1> QED BY <1>1, <1>2, <1>3, <1>4, <1>5, <1>6, <1>7 DEF Next

\* A push of the manager replaces the remote head by one of its descendants: the
\* head it replaces is in the history of the commit it pushes.
THEOREM PushesAreFastForward == Spec => PushIsFastForward
<1>1. ASSUME TypeInv, Trusted, [Next]_vars, NEW p \in Paths, server'[p] # server[p],
             repo'[p].last = repo[p].last
      PROVE  server[p] \in repo[p].history /\ server'[p] = repo[p].head
  <2>1. CASE Push
    <3>1. co.pc = "push" /\ co.pc \in JobLabels BY <2>1 DEF Push, JobLabels
    <3>2. p = co.path /\ LeaseHeld /\ server'[p] = co.ck.push
      BY <1>1, <2>1 DEF Push, FailsWith, TypeInv, TypeOK
    <3>3. co.ck.push = Repo.head /\ co.ck.candidate \in Repo.history
      BY <1>1, <3>1, JobFacts DEF HolderFine, Flow, Needs
    <3> QED BY <3>2, <3>3 DEF LeaseHeld, Repo
  <2>2. ASSUME NEW q \in Paths, OtherDevicePush(q) PROVE FALSE
    <3>1. q = p /\ repo[p].last \in Nat /\ repo'[p].last = repo[p].last + 1
      BY <1>1, <2>2 DEF OtherDevicePush, UpdateRepo, TypeInv, TypeOK, Repos, Oids
    <3> QED BY <1>1, <3>1
  <2> QED BY <1>1, <2>1, <2>2, ServerMoves
<1>2. TypeInv /\ Trusted /\ [Next]_vars =>
        [\A p \in Paths : server'[p] # server[p] /\ repo'[p].last = repo[p].last =>
           server[p] \in repo[p].history /\ server'[p] = repo[p].head]_vars
  BY <1>1
<1> QED BY <1>2, TypesInvariant, TrustInvariant, PTL DEF Spec, PushIsFastForward
=============================================================================
