----------------------------- MODULE GitRecovery -----------------------------
(***************************************************************************)
(* RecoverLocal: what a starting process makes of every configured base    *)
(* from its journal, its status and its repository, with no network.  The  *)
(* inspection of a base decides a list of writes and the gate; the writes  *)
(* follow one by one, and one that fails keeps the server from starting.   *)
(***************************************************************************)
EXTENDS GitWorker

Same(p, i)    == sameManagerIdentity(journal[p][i], config[p])
Settles(p, i) == i \in Op(p) /\ Original(journal[p][i]) /\ Same(p, i)

unfinishedTransition(p) ==
  LET i == ActiveByPath(p) IN i # 0 /\ Same(p, i) /\ journal[p][i].kind \in ConflictKinds

recoveryConflictOperation(p) ==
  CASE status[p].state # "conflict"           -> 0
    [] OTHER -> IF Settles(p, status[p].op) THEN status[p].op
                ELSE IF Settles(p, LatestConflictByPath(p)) THEN LatestConflictByPath(p) ELSE 0

recoveryOperation(p) ==
  LET latest == LatestByPath(p) IN
  IF unfinishedTransition(p) THEN ActiveByPath(p)
  ELSE IF status[p].state = "conflict" THEN recoveryConflictOperation(p)
  ELSE IF latest # 0 /\ Same(p, latest) THEN latest ELSE 0

\* The conflict an unfinished abort or completion, or the base, stands in.
originalConflict(p) ==
  LET latest == LatestByPath(p) IN
  IF unfinishedTransition(p)
  THEN IF recoveryConflictOperation(p) # 0 THEN recoveryConflictOperation(p)
       ELSE IF Settles(p, LatestConflictByPath(p)) THEN LatestConflictByPath(p) ELSE 0
  ELSE IF status[p].state = "conflict" THEN recoveryConflictOperation(p)
  ELSE IF Settles(p, latest) /\ journal[p][latest].state = "conflict" THEN latest ELSE 0

durableConflict(p) == ~unfinishedTransition(p) /\ originalConflict(p) # 0

-----------------------------------------------------------------------------
(* Service.RecoverLocal on the recovery operation i of base p, 0 for none. *)

recoveryPushOID(row) ==
  IF row.kind = "conflict_complete"
       /\ row.stage \in {"conflict_committed", "conflict_reindexed", "conflict_pushing", "completed"}
  THEN row.push ELSE 0

provenRecoveryCandidate(p, i) ==
  LET candidate == journal[p][i].candidate IN
  candidate # 0 /\ repo[p].managed = candidate /\ <<i, candidate>> \in repo[p].private

\* The trusted OID, 0 for none; "ambiguous" when the ref contradicts the journal.
recoveryRemoteOID(p, i) ==
  LET r == repo[p]
      row == journal[p][i]
      Proven(oid) == [oid |-> oid, ambiguous |-> FALSE] IN
  IF i = 0 THEN Proven(r.managed)
  ELSE IF row.remote # 0 /\ r.managed = row.remote THEN Proven(row.remote)
  ELSE IF row.push # 0 /\ r.managed = row.push /\ r.head = row.push THEN Proven(row.push)
  ELSE IF provenRecoveryCandidate(p, i) THEN Proven(row.candidate)
  ELSE IF row.remote # 0 \/ row.candidate # 0 THEN [oid |-> 0, ambiguous |-> TRUE]
  ELSE Proven(r.managed)

\* Variant: the local merge is taken for the proof of its push.
Unproven(r, push) == r.head = push

Pushed(r, push) == r.managed = push

recoveryConflictState(p, i) ==
  LET r == repo[p]
      row == journal[p][i]
      push == recoveryPushOID(row) IN
  IF i = 0 THEN "none"
  ELSE IF row.kind = "conflict_abort"
  THEN IF row.state \in ActiveStates /\ r.head = row.local THEN "aborted" ELSE "ambiguous"
  ELSE IF row.kind = "conflict_complete"
  THEN IF push = 0 \/ r.head # push THEN "ambiguous"
       ELSE IF row.stage = "conflict_committed" THEN "needs_reindex"
       ELSE IF row.stage = "conflict_reindexed" THEN "push_pending"
       ELSE IF Pushed(r, push) THEN "pushed" ELSE "push_unknown"
  ELSE IF row.state = "conflict" THEN "ambiguous" ELSE "none"

Found(remote, state, conflict, blocking) ==
  [remote |-> remote, state |-> state, conflict |-> conflict, blocking |-> blocking]

Inspected(p, i) ==
  LET trust == recoveryRemoteOID(p, i)
      state == recoveryConflictState(p, i) IN
  IF ~repo[p].origin THEN Found(0, "none", FALSE, TRUE)
  ELSE IF repo[p].merge = "conflict" THEN Found(trust.oid, "conflict", TRUE, TRUE)
  ELSE IF repo[p].merge = "resolved" THEN Found(trust.oid, "can_complete", FALSE, TRUE)
  ELSE IF state = "ambiguous" \/ (trust.ambiguous /\ state \in {"none", "pushed"})
  THEN Found(trust.oid, "ambiguous", FALSE, TRUE)
  ELSE Found(trust.oid, state, FALSE, FALSE)

\* An index.lock, a missing directory: an inspection that ends at once.
Uninspected == Found(0, "locked", FALSE, TRUE)

-----------------------------------------------------------------------------
(* What the manager writes for what the inspection found. *)

Halfway == {"needs_reindex", "push_pending", "push_unknown"}

Journal(row) == <<"journal", row>>
Transition(p, found, state, op, action) ==
  ApplyTransition(status[p], [status[p] EXCEPT !.state = state, !.op = op,
                                !.remote = Keep(found.remote, @)], action)
Status(p, found, state, op, action) == <<"status", Transition(p, found, state, op, action)>>

\* The status a base without transition ends with; if lost, the gate stays as it is.
Published(p, found, state) ==
  <<"publish", Transition(p, found, state, status[p].op, "preserve")>>

Plan(writes, gated, fallback) == [writes |-> writes, gated |-> gated, fallback |-> fallback]

\* Variant: a base keeps the state it stopped in.
Kept(p, found) ==
  IF found.conflict \/ durableConflict(p) THEN "conflict"
  ELSE IF found.blocking THEN "needs_reconnect" ELSE status[p].state

\* The state a base is published in that has no completion or abort to settle.
Settled(p, found) ==
  IF found.conflict \/ durableConflict(p) THEN "conflict"
  ELSE IF found.blocking THEN "needs_reconnect"
  ELSE IF status[p].state = "paused" THEN "paused" ELSE "ready"

\* Variant: a conflict is left to its status.
GatesReconnect(state) == state = "needs_reconnect"

Gates(state) == state \in {"conflict", "needs_reconnect"}

RecoverAbort(p, row, found) ==
  LET i == ActiveByPath(p) IN
  IF found.state = "aborted"
  THEN Plan(<<Status(p, found, "paused", i, "preserve"),
              Journal(Finished(row, "succeeded", "completed", NoResult))>>, FALSE, <<>>)
  ELSE Plan(<<Journal(Finished(row, "failed", "queued", NoResult)),
              Status(p, found, "conflict", originalConflict(p), "preserve")>>, TRUE, <<>>)

RecoverCompletion(p, row, found) ==
  LET i == ActiveByPath(p)
      reindexed == Checkpointed(row, [CheckpointOf(row) EXCEPT !.stage = "conflict_reindexed"])
      current == IF found.state = "needs_reindex" THEN reindexed ELSE row IN
  IF found.state = "pushed"
  THEN Plan(<<Status(p, found, "ready", i, "reset"),
              Journal(Finished(row, "succeeded", "completed",
                               [remote |-> found.remote, push |-> 0]))>>, FALSE, <<>>)
  ELSE Plan((IF current # row THEN <<Journal(current)>> ELSE <<>>) \o
            <<Status(p, found, "error", i, "preserve"),
              Journal(Finished(current, "failed", "queued", NoResult))>>, FALSE, <<>>)

\* Any other operation ends with the process that ran it.
RecoverInterrupted(p, row, found) ==
  LET conflict == found.conflict \/ durableConflict(p)
      trusted == Checkpointed(row, [CheckpointOf(row) EXCEPT !.remote = found.remote])
      advanced == found.remote # 0 /\ found.remote # row.remote
      current == IF advanced THEN trusted ELSE row
      state == Settled(p, found) IN
  Plan((IF advanced THEN <<Journal(trusted)>> ELSE <<>>) \o
       <<Journal(Finished(current, IF conflict THEN "conflict" ELSE "failed", "queued", NoResult)),
         Published(p, found, state)>>,
       Gates(state),
       <<Published(p, found, IF conflict THEN "conflict" ELSE "needs_reconnect")>>)

RecoverSettled(p, found) ==
  LET i == recoveryOperation(p)
      state == Settled(p, found) IN
  IF i # 0 /\ journal[p][i].kind = "conflict_complete" /\ found.state \in Halfway
  THEN Plan(<<Status(p, found, "error", i, "preserve")>>, FALSE, <<>>)
  ELSE Plan(<<Published(p, found, state)>>, Gates(state), <<>>)

RecoveryPlan(p, found) ==
  LET i == ActiveByPath(p)
      row == journal[p][i] IN
  IF i = 0 THEN RecoverSettled(p, found)
  ELSE IF row.kind = "conflict_abort" /\ \/ found.state = "aborted"
                                         \/ /\ found.conflict \/ durableConflict(p)
                                            /\ originalConflict(p) # 0
  THEN RecoverAbort(p, row, found)
  ELSE IF row.kind = "conflict_complete" /\ found.state \in Halfway \cup {"pushed"}
  THEN RecoverCompletion(p, row, found)
  ELSE RecoverInterrupted(p, row, found)

-----------------------------------------------------------------------------
Boot ==
  /\ phase = "down" /\ phase' = "recovering"
  /\ pending' = {p \in Paths : config[p] # NoConfig} /\ broken' = FALSE
  /\ UNCHANGED <<durable, memory, co, spent>>

Regate(p, gated) == gate' = IF gated THEN gate \cup {p} ELSE gate \ {p}

\* SyncFS of a base whose merge is committed, which may fail.
Reindexes(p) ==
  LET state == Inspected(p, recoveryOperation(p)).state IN
  state = "needs_reindex" \/ (state = "pushed" /\ ActiveByPath(p) # 0)

\* Variant: a transition is finished on the row of its conflict.
ConflictRow(p) == LatestConflictByPath(p)

RecoveredRow(p) == ActiveByPath(p)

RecoverBase(p) ==
  /\ phase = "recovering" /\ Free /\ p \in pending
  /\ pending' = pending \ {p}
  /\ \/ \E found \in {Inspected(p, recoveryOperation(p)), Uninspected} :
          LET plan == RecoveryPlan(p, found) IN
          /\ IF found = Uninspected THEN Fault ELSE NoFault
          /\ Regate(p, plan.gated) /\ UNCHANGED broken
          /\ co' = [Idle EXCEPT !.pc = "recover", !.path = p, !.op = RecoveredRow(p),
                                !.plan = plan.writes, !.fallback = plan.fallback]
     \/ /\ Reindexes(p) /\ Fault /\ Regate(p, TRUE) /\ broken' = TRUE /\ UNCHANGED co
  /\ UNCHANGED <<durable, phase, queue, inFlight, connecting, degraded>>

\* Variant: the coordinator stays locked after the last write.
Stuck(rest) == co' = [co EXCEPT !.plan = rest]

NextWrite(rest) == co' = IF rest = <<>> THEN Idle ELSE [co EXCEPT !.plan = rest]

ApplyWrite ==
  /\ co.pc = "recover" /\ co.plan # <<>>
  /\ LET p == co.path
         write == Head(co.plan)
         rest == Tail(co.plan) IN
     \/ /\ write[1] = "journal" /\ WriteRow(p, co.op, write[2]) /\ NextWrite(rest)
        /\ NoFault /\ UNCHANGED <<status, gate, broken>>
     \/ /\ write[1] # "journal" /\ status' = [status EXCEPT ![p] = write[2]] /\ NextWrite(rest)
        /\ NoFault /\ UNCHANGED <<journal, gate, broken>>
     \/ /\ Fault /\ broken' = TRUE
        /\ gate' = IF write[1] = "publish" THEN gate ELSE gate \cup {p}
        /\ NextWrite(IF write[1] = "journal" THEN co.fallback ELSE <<>>)
        /\ UNCHANGED <<journal, status>>
  /\ UNCHANGED <<config, repo, server, published, phase, pending, queue, inFlight, connecting, degraded>>

\* Memory goes with the process.
Down ==
  /\ phase' = "down" /\ pending' = {} /\ broken' = FALSE
  /\ gate' = {} /\ queue' = <<>> /\ inFlight' = [p \in Paths |-> 0]
  /\ connecting' = {} /\ degraded' = FALSE /\ co' = Idle

\* main: an error of RecoverLocal ends the start, otherwise HTTP is served.
Serve ==
  /\ phase = "recovering" /\ Free /\ pending = {}
  /\ \/ broken /\ Down
     \/ ~broken /\ phase' = "serving" /\ UNCHANGED <<pending, broken, memory, co>>
  /\ UNCHANGED <<durable, spent>>
=============================================================================
