--------------------------- MODULE SchedulerProofs ---------------------------
(***************************************************************************)
(* The autosync scheduler, for every number of bases, every set of         *)
(* intervals and all delays: no change of a status or of the configuration *)
(* is missed, and no base is submitted before its interval has passed.     *)
(***************************************************************************)
EXTENDS GitScheduler, TLAPS, FiniteSetTheorems, WellFoundedInduction

USE DEF Never, Latest, Earlier, None, Least, Most

LEMMA HorizonFacts ==
  /\ Horizon \in Nat /\ Intervals \subseteq Nat /\ \A i \in Intervals \cup {0} : i \in Nat /\ i <= Horizon
<1>1. PICK i \in Intervals : \A j \in Intervals : j <= i BY SizesAssumption
<1>2. Horizon \in Intervals /\ \A j \in Intervals : j <= Horizon BY <1>1 DEF Horizon
<1> QED BY <1>2, SizesAssumption

LEMMA AgeFacts ==
  /\ 0 \in Ages /\ Horizon \in Ages /\ \A a \in Ages : a \in Nat /\ a <= Horizon
  /\ \A a \in Ages : Least(a + 1, Horizon) \in Ages
<1> QED BY HorizonFacts DEF Ages

LEMMA StatusFacts ==
  /\ Reconnect \in Statuses /\ NoCandidate \in [interval : Intervals \cup {0}, status : Statuses, same : BOOLEAN]
  /\ \A s \in Statuses : Aged(s) \in Statuses /\ Kept(s) \in Statuses
  /\ \A s \in Statuses : /\ s.state \in {"idle", "working", "waiting"}
                         /\ s.attempt \in Attempts /\ s.age \in Ages
<1>1. Reconnect \in Statuses BY AgeFacts DEF Reconnect, Statuses, Attempts
<1>2. \A s \in Statuses : Aged(s) \in Statuses BY AgeFacts DEF Aged, Statuses
<1> QED BY <1>1, <1>2 DEF NoCandidate, Kept, Statuses

\* The countdown a new entry gets is a natural number.
LEMMA SlotIsNat ==
  ASSUME NEW b \in Bases, lag \in Nat
  PROVE  Slot(b) \in Nat
<1> DEFINE S == {c \in 1 .. b : Eligible(c)}
<1>1. b \in Nat BY SizesAssumption DEF Bases
<1>2. IsFiniteSet(1 .. b) BY <1>1, FS_Interval
<1>3. IsFiniteSet(S) BY <1>2, FS_Subset
<1>4. Cardinality(S) \in Nat BY <1>3, FS_CardinalityType
<1>5. \A x, y \in Nat : x * y \in Nat OBVIOUS
<1>6. Stagger * Cardinality(S) \in Nat BY <1>4, <1>5, SizesAssumption
<1> QED BY <1>6 DEF Slot

LEMMA LeastNatural ==
  ASSUME NEW T \in SUBSET Nat, T # {}
  PROVE  \E d \in T : \A e \in T : d <= e
<1>1. \E d \in T : \A e \in T : ~ (<<e, d>> \in OpToRel(<, Nat))
  BY NatLessThanWellFounded, WFMin, Zenon
<1>2. \E d \in T : \A e \in T : ~ (e < d) BY <1>1, Zenon DEF OpToRel
<1> QED BY <1>2

LEMMA DelayIsNat ==
  ASSUME NEW ents, NEW again \in Nat \cup {-1}, \A b \in Bases : ents[b].in \in Nat
  PROVE  nextDelay(ents, again) \in Nat
<1>1. Countdowns(ents, again) \in SUBSET Nat BY DEF Countdowns
<1>2. CASE Countdowns(ents, again) = {} BY <1>2, SizesAssumption DEF nextDelay
<1>3. CASE Countdowns(ents, again) # {}
  <2>1. \E d \in Countdowns(ents, again) : \A e \in Countdowns(ents, again) : d <= e
    BY <1>1, <1>3, LeastNatural
  <2> QED BY <1>1, <1>3, <2>1 DEF nextDelay
<1> QED BY <1>2, <1>3

-----------------------------------------------------------------------------
(* Type correctness. *)

LEMMA HolderFacts ==
  /\ Nobody \in Holders
  /\ \A c \in Holders : /\ c.base \in Bases /\ c.prev \in Statuses /\ c.cfg \in Intervals \cup {0}
                        /\ [c EXCEPT !.started = TRUE] \in Holders
                        /\ [c EXCEPT !.prev = Aged(@)] \in Holders
  /\ \A b \in Bases : [Nobody EXCEPT !.holder = "job", !.base = b] \in Holders
  /\ \A b \in Bases, s \in Statuses, i \in Intervals \cup {0} :
       [Nobody EXCEPT !.holder = "settings", !.base = b, !.prev = s, !.cfg = i] \in Holders
<1>1. 1 \in Bases BY SizesAssumption DEF Bases
<1>2. Nobody \in Holders BY <1>1, StatusFacts DEF Nobody, Holders
<1> QED BY <1>1, <1>2, StatusFacts DEF Nobody, Holders

LEMMA ChangedStatuses ==
  \A s \in Statuses :
    /\ \A x \in {"idle", "working", "waiting"} : [s EXCEPT !.state = x] \in Statuses
    /\ [s EXCEPT !.attempt = Latest, !.age = 0] \in Statuses
<1> QED BY AgeFacts DEF Statuses, Attempts

LEMMA SpentFacts ==
  ASSUME spent \in [user : Nat, faults : Nat], User \/ Fault \/ UNCHANGED spent
  PROVE  spent' \in [user : Nat, faults : Nat]
<1> QED BY DEF User, Fault

LEMMA InitTypes == Init => TypeOK
<1> SUFFICES ASSUME Init PROVE TypeOK OBVIOUS
<1>1. status \in [Bases -> Statuses]
  BY AgeFacts, StatusFacts DEF Init, Statuses, Attempts, Reconnect
<1>2. entries \in [Bases -> Entries] BY DEF Init, Entries, NoEntry, Attempts
<1>3. seen \in [Bases -> Candidates] BY StatusFacts DEF Init, Candidates
<1>4. SystemOK BY <1>1, HolderFacts DEF Init, SystemOK
<1>5. SchedulerOK BY <1>2, <1>3, SizesAssumption DEF Init, SchedulerOK
<1> QED BY <1>4, <1>5 DEF TypeOK

\* Asleep again, with entries of the right kind.
LEMMA SleepTypes ==
  ASSUME NEW ents \in [Bases -> Entries], NEW again \in Nat \cup {-1}, Sleep(ents, again)
  PROVE  SchedulerOK'
<1>1. \A b \in Bases : ents[b].in \in Nat BY DEF Entries
<1>2. timer' \in Nat BY <1>1, DelayIsNat DEF Sleep
<1>3. seen' \in [Bases -> Candidates] BY StatusFacts DEF Sleep, Candidates
<1>4. 1 \in 1 .. N + 1 BY SizesAssumption
<1> QED BY <1>2, <1>3, <1>4 DEF SchedulerOK, Sleep

LEMMA UnchangedTypes ==
  /\ SchedulerOK /\ UNCHANGED scheduler => SchedulerOK'
  /\ SystemOK /\ UNCHANGED <<config, reachable, manager, channels, closed, silent, spent>> => SystemOK'
<1> QED BY DEF SchedulerOK, SystemOK, scheduler, manager, channels

LEMMA ManagerTypes ==
  ASSUME TypeOK, \/ Notify \/ StartAttempt \/ EndJob \/ SaveGit \/ RestoreGit \/ Close
                 \/ \E b \in Bases : \/ Request(b) \/ BeginJob(b) \/ ChangeDirectory(b)
                                     \/ \E interval \in Intervals \cup {0} : ChangeGit(b, interval)
  PROVE  TypeOK'
<1> USE DEF TypeOK, manager, channels, Publish
<1>1. CASE Notify BY <1>1, UnchangedTypes DEF Notify, notifyStatusChanged, SystemOK
<1>2. CASE StartAttempt
  <2>1. \A e \in Entries : [e EXCEPT !.attempt = Older(@)] \in Entries
    BY DEF Entries, Older, Attempts
  <2>2. \A c \in Candidates : [c EXCEPT !.status.attempt = Older(@)] \in Candidates
    BY DEF Candidates, Statuses, Older, Attempts
  <2>3. status' \in [Bases -> Statuses]
    <3>1. co.base \in Bases /\ status \in [Bases -> Statuses] BY HolderFacts DEF SystemOK
    <3> QED BY <1>2, <3>1, ChangedStatuses DEF StartAttempt
  <2>4. entries' \in [Bases -> Entries] BY <1>2, <2>1 DEF StartAttempt, SchedulerOK
  <2>5. seen' \in [Bases -> Candidates] BY <1>2, <2>2 DEF StartAttempt, SchedulerOK
  <2>6. SystemOK' BY <1>2, <2>3, HolderFacts DEF StartAttempt, SystemOK
  <2>7. SchedulerOK' BY <1>2, <2>4, <2>5 DEF StartAttempt, SchedulerOK
  <2> QED BY <2>6, <2>7
<1>3. CASE EndJob
  <2>1. spent' \in [user : Nat, faults : Nat] BY <1>3, SpentFacts DEF EndJob, SystemOK
  <2>2. status' \in [Bases -> Statuses] /\ unsent' \in BOOLEAN
    <3>1. CASE UNCHANGED <<status, unsent>> BY <3>1 DEF SystemOK
    <3>2. ASSUME NEW x \in {"idle", "waiting"}, Publish(co.base, [status[co.base] EXCEPT !.state = x])
          PROVE  status' \in [Bases -> Statuses] /\ unsent' \in BOOLEAN
      <4>1. co.base \in Bases /\ status \in [Bases -> Statuses] BY HolderFacts DEF SystemOK
      <4> QED BY <3>2, <4>1, ChangedStatuses
    <3> QED BY <1>3, <3>1, <3>2 DEF EndJob
  <2>3. SystemOK' BY <1>3, <2>1, <2>2, HolderFacts DEF EndJob, SystemOK
  <2> QED BY <1>3, <2>3, UnchangedTypes DEF EndJob
<1>4. CASE SaveGit BY <1>4, HolderFacts, UnchangedTypes DEF SaveGit, SystemOK
<1>5. CASE RestoreGit
  <2>1. spent' \in [user : Nat, faults : Nat] BY <1>5, SpentFacts DEF RestoreGit, SystemOK
  <2>2. SystemOK' BY <1>5, <2>1, HolderFacts DEF RestoreGit, SystemOK
  <2> QED BY <1>5, <2>2, UnchangedTypes DEF RestoreGit
<1>6. CASE Close BY <1>6, UnchangedTypes DEF Close, SystemOK
<1>7. ASSUME NEW b \in Bases, Request(b) PROVE TypeOK'
  <2>1. spent' \in [user : Nat, faults : Nat] BY <1>7, SpentFacts DEF Request, SystemOK
  <2>2. status' \in [Bases -> Statuses] /\ unsent' \in BOOLEAN
    <3>1. status \in [Bases -> Statuses] BY DEF SystemOK
    <3>2. status[b] \in Statuses /\ [status[b] EXCEPT !.state = "working"] \in Statuses
      BY <3>1, ChangedStatuses
    <3> QED BY <1>7, <3>1, <3>2 DEF Request
  <2>3. SystemOK' BY <1>7, <2>1, <2>2 DEF Request, SystemOK
  <2> QED BY <1>7, <2>3, UnchangedTypes DEF Request
<1>8. ASSUME NEW b \in Bases, BeginJob(b) PROVE TypeOK'
  BY <1>8, HolderFacts, UnchangedTypes DEF BeginJob, SystemOK
<1>9. ASSUME NEW b \in Bases, ChangeDirectory(b) PROVE TypeOK'
  <2>1. spent' \in [user : Nat, faults : Nat] BY <1>9, SpentFacts DEF ChangeDirectory, SystemOK
  <2> QED BY <1>9, <2>1, UnchangedTypes DEF ChangeDirectory, SystemOK
<1>10. ASSUME NEW b \in Bases, NEW interval \in Intervals \cup {0}, ChangeGit(b, interval) PROVE TypeOK'
  <2>1. spent' \in [user : Nat, faults : Nat] BY <1>10, SpentFacts DEF ChangeGit, SystemOK
  <2>2. co' \in Holders /\ status' \in [Bases -> Statuses]
    BY <1>10, HolderFacts, StatusFacts DEF ChangeGit, SystemOK
  <2> QED BY <1>10, <2>1, <2>2, UnchangedTypes DEF ChangeGit, SystemOK
<1> QED BY <1>1, <1>2, <1>3, <1>4, <1>5, <1>6, <1>7, <1>8, <1>9, <1>10

LEMMA EntryFacts ==
  \A e \in Entries :
    /\ e.in \in Nat /\ e.attempt \in Attempts /\ e.interval \in Intervals \cup {0}
    /\ [e EXCEPT !.in = Most(@ - 1, 0)] \in Entries
    /\ \A d \in Nat, l \in Nat : [e EXCEPT !.in = Most(d - l, 0)] \in Entries
<1> QED BY DEF Entries

LEMMA TickTypes == ASSUME TypeOK, Tick PROVE TypeOK'
<1>1. status' \in [Bases -> Statuses] BY StatusFacts DEF Tick, TypeOK, SystemOK
<1>2. co' \in Holders BY HolderFacts DEF Tick, TypeOK, SystemOK
<1>3. entries' \in [Bases -> Entries] BY EntryFacts DEF Tick, TypeOK, SchedulerOK
<1>4. lag' \in Nat /\ timer' \in Nat BY HorizonFacts DEF Tick, TypeOK, SchedulerOK
<1>5. retry' \in Nat \cup {-1} BY DEF Tick, TypeOK, SchedulerOK
<1>6. SystemOK' BY <1>1, <1>2 DEF Tick, TypeOK, SystemOK, channels
<1>7. SchedulerOK' BY <1>3, <1>4, <1>5 DEF Tick, TypeOK, SchedulerOK
<1> QED BY <1>6, <1>7 DEF TypeOK

LEMMA ReconciledTypes ==
  ASSUME TypeOK, NEW b \in Bases
  PROVE  Reconciled(b) \in Entries
<1> DEFINE c == seen[b]
<1>1. c \in Candidates BY DEF TypeOK, SchedulerOK
<1>2. c.interval \in Intervals \cup {0} /\ c.status \in Statuses BY <1>1 DEF Candidates
<1>3. c.status.attempt \in Attempts /\ c.status.age \in Nat /\ c.interval \in Nat
  BY <1>2, StatusFacts, AgeFacts, HorizonFacts
<1>4. Slot(b) \in Nat BY SlotIsNat DEF TypeOK, SchedulerOK
<1>5. gitScheduleDue(Slot(b), c.status, c.interval) \in Nat BY <1>3, <1>4 DEF gitScheduleDue
<1>6. NoEntry \in Entries /\ Blocked(c.interval) \in Entries BY <1>2 DEF NoEntry, Blocked, Entries, Attempts
<1>7. entries[b] \in Entries BY DEF TypeOK, SchedulerOK
<1>8. [kind |-> "open", interval |-> c.interval, attempt |-> c.status.attempt,
       in |-> gitScheduleDue(Slot(b), c.status, c.interval)] \in Entries
  BY <1>2, <1>3, <1>5 DEF Entries
<1> QED BY <1>6, <1>7, <1>8 DEF Reconciled

\* A reconciliation that fails keeps the entries.
LEMMA FailsTypes ==
  ASSUME TypeOK, Fails, Fault \/ UNCHANGED spent
  PROVE  TypeOK'
<1>1. SchedulerOK'
  <2>1. entries \in [Bases -> Entries] /\ Retry \in Nat \cup {-1}
    BY SizesAssumption DEF TypeOK, SchedulerOK
  <2>2. Sleep(entries, Retry) BY DEF Fails
  <2> QED BY <2>1, <2>2, SleepTypes
<1>2. spent' \in [user : Nat, faults : Nat] BY SpentFacts DEF TypeOK, SystemOK
<1>3. SystemOK' BY <1>2 DEF Fails, TypeOK, SystemOK, manager, channels
<1> QED BY <1>1, <1>3 DEF TypeOK

LEMMA LoopTypes ==
  ASSUME TypeOK, \/ ReceiveChange \/ TimerFires \/ Stop \/ SubmitEnds \/ Snapshots \/ ReadStatus \/ Reconcile
                 \/ \E b \in Bases : Submit(b)
  PROVE  TypeOK'
<1> USE DEF manager, channels, Awake
<1>1. CASE ReceiveChange \/ TimerFires \/ Stop \/ SubmitEnds
  <2>1. SystemOK' BY <1>1 DEF ReceiveChange, TimerFires, Stop, SubmitEnds, TypeOK, SystemOK
  <2>2. SchedulerOK' BY <1>1 DEF ReceiveChange, TimerFires, Stop, SubmitEnds, TypeOK, SchedulerOK
  <2> QED BY <2>1, <2>2 DEF TypeOK
<1>2. CASE Snapshots
  <2>1. CASE Fails BY <1>2, <2>1, FailsTypes DEF Snapshots
  <2>2. CASE ~Fails
    <3>1. \A i \in Intervals \cup {0} : [NoCandidate EXCEPT !.interval = i] \in Candidates
      BY StatusFacts DEF NoCandidate, Candidates
    <3>2. seen' \in [Bases -> Candidates] BY <1>2, <2>2, <3>1 DEF Snapshots, TypeOK, SystemOK
    <3>3. SchedulerOK' BY <1>2, <2>2, <3>2, SizesAssumption DEF Snapshots, TypeOK, SchedulerOK
    <3>4. SystemOK' BY <1>2, <2>2 DEF Snapshots, TypeOK, SystemOK
    <3> QED BY <3>3, <3>4 DEF TypeOK
  <2> QED BY <2>1, <2>2
<1>3. CASE ReadStatus
  <2>1. CASE Fails BY <1>3, <2>1, FailsTypes DEF ReadStatus
  <2>2. CASE ~Fails
    <3>1. next' \in 1 .. N + 1 BY <1>3, <2>2, SizesAssumption DEF ReadStatus, Bases
    <3>2. next \in Bases => Kept(status[next]) \in Statuses /\ unchangedAttempt(next) \in BOOLEAN
      BY StatusFacts DEF TypeOK, SystemOK, unchangedAttempt
    <3>3. \A c \in Candidates, s \in Statuses, x \in BOOLEAN :
            [c EXCEPT !.status = s, !.same = x] \in Candidates
      BY DEF Candidates
    <3>4. seen' \in [Bases -> Candidates]
      <4>1. seen \in [Bases -> Candidates] /\ next \in Bases
        BY <1>3 DEF ReadStatus, TypeOK, SchedulerOK
      <4>2. DEFINE c == [seen[next] EXCEPT !.status = Kept(status[next]), !.same = unchangedAttempt(next)]
      <4>3. c \in Candidates BY <3>2, <3>3, <4>1
      <4>4. \/ UNCHANGED seen
            \/ seen' = [seen EXCEPT ![next] = c]
        BY <1>3, <2>2, <4>1 DEF ReadStatus
      <4> QED BY <4>1, <4>3, <4>4
    <3>5. SchedulerOK' BY <1>3, <2>2, <3>1, <3>4 DEF ReadStatus, TypeOK, SchedulerOK
    <3>6. SystemOK' BY <1>3, <2>2 DEF ReadStatus, TypeOK, SystemOK
    <3> QED BY <3>5, <3>6 DEF TypeOK
  <2> QED BY <2>1, <2>2
<1>4. CASE Reconcile
  <2>1. [b \in Bases |-> Reconciled(b)] \in [Bases -> Entries] BY ReconciledTypes
  <2>2. SchedulerOK' BY <1>4, <2>1, SleepTypes DEF Reconcile
  <2> QED BY <1>4, <2>2, UnchangedTypes DEF Reconcile, TypeOK
<1>5. ASSUME NEW b \in Bases, Submit(b) PROVE TypeOK'
  <2>1. spent' \in [user : Nat, faults : Nat] BY <1>5, SpentFacts DEF Submit, TypeOK, SystemOK
  <2>2. status' \in [Bases -> Statuses]
    <3>1. status \in [Bases -> Statuses] BY DEF TypeOK, SystemOK
    <3>2. [status[b] EXCEPT !.state = "working"] \in Statuses BY <3>1, ChangedStatuses
    <3> QED BY <1>5, <3>1, <3>2 DEF Submit
  <2>3. entries' \in [Bases -> Entries]
    <3>1. entries \in [Bases -> Entries] /\ lag \in Nat BY DEF TypeOK, SchedulerOK
    <3>2. entries[b].interval \in Nat BY <3>1, EntryFacts, HorizonFacts
    <3>3. \A d \in Nat : Resubmitted(b, d) \in [Bases -> Entries] BY <3>1, EntryFacts DEF Resubmitted
    <3> QED BY <1>5, <3>2, <3>3, SizesAssumption DEF Submit
  <2>4. SystemOK' BY <1>5, <2>1, <2>2 DEF Submit, TypeOK, SystemOK, notifyStatusChanged
  <2>5. SchedulerOK' BY <1>5, <2>3 DEF Submit, TypeOK, SchedulerOK
  <2> QED BY <2>4, <2>5 DEF TypeOK
<1> QED BY <1>1, <1>2, <1>3, <1>4, <1>5

LEMMA NextCases ==
  ASSUME Next
  PROVE  \/ Tick
         \/ \/ Notify \/ StartAttempt \/ EndJob \/ SaveGit \/ RestoreGit \/ Close
            \/ \E b \in Bases : \/ Request(b) \/ BeginJob(b) \/ ChangeDirectory(b)
                                \/ \E interval \in Intervals \cup {0} : ChangeGit(b, interval)
         \/ \/ ReceiveChange \/ TimerFires \/ Stop \/ SubmitEnds \/ Snapshots \/ ReadStatus \/ Reconcile
            \/ \E b \in Bases : Submit(b)
<1> QED BY DEF Next, SchedulerStep, ManagerStep, Surroundings

LEMMA TypeStep == TypeOK /\ [Next]_vars => TypeOK'
<1> SUFFICES ASSUME TypeOK, [Next]_vars PROVE TypeOK' OBVIOUS
<1>1. CASE UNCHANGED vars BY <1>1, UnchangedTypes DEF vars, TypeOK
<1>2. CASE Next BY <1>2, NextCases, TickTypes, ManagerTypes, LoopTypes
<1> QED BY <1>1, <1>2

\* Every reachable state of the scheduler and of what it watches is well typed.
THEOREM SchedulerTypes == Spec => []TypeOK
<1> QED BY InitTypes, TypeStep, PTL DEF Spec

-----------------------------------------------------------------------------
(* No change is missed.  The invariant follows a reconciliation: what it    *)
(* has read of a base is what it would read now, or something will bring    *)
(* the scheduler back to that base.                                         *)

\* A notification is due or under way, or a settings change holds the status of b.
Noticed(b) ==
  \/ statusChanged \/ configChanged \/ unsent \/ silent
  \/ co.holder = "settings" /\ co.base = b

\* What reconcile has read of b is what it would read now.
Seen(b) ==
  /\ seen[b].interval = config[b]
  /\ b < next /\ config[b] # 0 =>
       /\ gitScheduleBlocked(seen[b].status) = gitScheduleBlocked(status[b])
       /\ ~gitScheduleBlocked(status[b]) => seen[b].status.attempt = status[b].attempt

SameAttempt(b) ==
  seen[b].same /\ ~gitScheduleBlocked(seen[b].status) => entries[b].attempt = seen[b].status.attempt

NotedAt(b) ==
  /\ pc = "read" => (Seen(b) \/ Noticed(b)) /\ SameAttempt(b)
  /\ pc = "wait" /\ retry = None => Rests(b) \/ Noticed(b)

Noted == \A b \in Bases : NotedAt(b)

\* A step that leaves the scheduler alone is noticed, or leaves b alone too.
LEMMA QuietStep ==
  ASSUME NEW b \in Bases, NotedAt(b), UNCHANGED scheduler,
         Noticed(b)' \/ (~Noticed(b) /\ config'[b] = config[b] /\ status'[b] = status[b])
  PROVE  NotedAt(b)'
<1> QED BY DEF NotedAt, Seen, SameAttempt, Rests, scheduler

LEMMA ManagerNoted ==
  ASSUME TypeOK, NEW b \in Bases, NotedAt(b),
         \/ Notify \/ StartAttempt \/ EndJob \/ SaveGit \/ RestoreGit \/ Close
         \/ \E c \in Bases : \/ Request(c) \/ BeginJob(c) \/ ChangeDirectory(c)
                             \/ \E interval \in Intervals \cup {0} : ChangeGit(c, interval)
  PROVE  NotedAt(b)'
<1> USE DEF manager, channels, Publish, Idle
<1>1. CASE Notify BY <1>1, QuietStep DEF Notify, notifyStatusChanged, Noticed
<1>2. CASE StartAttempt
  <2>1. Noticed(b)' /\ pc' = pc BY <1>2 DEF StartAttempt, Noticed
  <2>2. pc = "read" => SameAttempt(b)'
    <3>1. CASE co.base = b
      <4>1. /\ entries[b] \in Entries /\ seen[b] \in Candidates
            /\ entries' = [entries EXCEPT ![b].attempt = Older(@)]
            /\ seen' = [seen EXCEPT ![b].status.attempt = Older(@)]
        BY <1>2, <3>1 DEF StartAttempt, TypeOK, SchedulerOK
      <4>2. /\ entries'[b].attempt = Older(entries[b].attempt)
            /\ seen'[b].status.attempt = Older(seen[b].status.attempt)
            /\ seen'[b].same = seen[b].same /\ seen'[b].status.state = seen[b].status.state
        BY <4>1 DEF TypeOK, SchedulerOK, Entries, Candidates, Statuses
      <4> QED BY <4>2 DEF NotedAt, SameAttempt, gitScheduleBlocked
    <3>2. CASE co.base # b
      <4>1. entries'[b] = entries[b] /\ seen'[b] = seen[b]
        BY <1>2, <3>2 DEF StartAttempt, TypeOK, SchedulerOK
      <4> QED BY <4>1 DEF NotedAt, SameAttempt, gitScheduleBlocked
    <3> QED BY <3>1, <3>2
  <2> QED BY <2>1, <2>2 DEF NotedAt
<1>3. CASE EndJob
  <2>1. UNCHANGED <<config, scheduler, statusChanged, configChanged, silent>> /\ co.holder = "job"
    BY <1>3 DEF EndJob
  <2>2. unsent' \/ UNCHANGED <<status, unsent>> BY <1>3 DEF EndJob
  <2> QED BY <2>1, <2>2, QuietStep DEF Noticed
<1>4. CASE SaveGit BY <1>4, QuietStep DEF SaveGit, Noticed
<1>5. CASE RestoreGit BY <1>5, QuietStep DEF RestoreGit, Noticed
<1>6. CASE Close BY <1>6, QuietStep DEF Close, Noticed
<1>7. ASSUME NEW c \in Bases, Request(c) PROVE NotedAt(b)' BY <1>7, QuietStep DEF Request, Noticed
<1>8. ASSUME NEW c \in Bases, BeginJob(c) PROVE NotedAt(b)'
  BY <1>8, QuietStep DEF BeginJob, Noticed, Nobody
<1>9. ASSUME NEW c \in Bases, ChangeDirectory(c) PROVE NotedAt(b)'
  BY <1>9, QuietStep DEF ChangeDirectory, Noticed
<1>10. ASSUME NEW c \in Bases, NEW i \in Intervals \cup {0}, ChangeGit(c, i) PROVE NotedAt(b)'
  <2>1. co'.holder = "settings" /\ co'.base = c BY <1>10 DEF ChangeGit, Nobody
  <2>2. b # c => status'[b] = status[b] BY <1>10 DEF ChangeGit, TypeOK, SystemOK
  <2>3. UNCHANGED <<config, scheduler, statusChanged, configChanged, silent, unsent>>
    BY <1>10 DEF ChangeGit
  <2>4. co.holder = "free" BY <1>10 DEF ChangeGit
  <2> QED BY <2>1, <2>2, <2>3, <2>4, QuietStep DEF Noticed
<1> QED BY <1>1, <1>2, <1>3, <1>4, <1>5, <1>6, <1>7, <1>8, <1>9, <1>10

LEMMA TickNoted == ASSUME TypeOK, NEW b \in Bases, NotedAt(b), Tick PROVE NotedAt(b)'
<1>1. pc' = pc /\ pc # "read" BY DEF Tick, Asleep
<1>2. /\ status'[b].state = status[b].state /\ status'[b].attempt = status[b].attempt
  BY DEF Tick, TypeOK, SystemOK, Statuses, Aged
<1>3. entries'[b] = [entries[b] EXCEPT !.in = Most(@ - 1, 0)] BY DEF Tick
<1>4. /\ entries'[b].kind = entries[b].kind /\ entries'[b].interval = entries[b].interval
      /\ entries'[b].attempt = entries[b].attempt
  BY <1>3 DEF TypeOK, SchedulerOK, Entries
<1>5. Noticed(b)' <=> Noticed(b) BY HolderFacts DEF Tick, Noticed, channels, TypeOK, SystemOK, Holders
<1>6. retry' = None => retry = None BY DEF Tick, TypeOK, SchedulerOK
<1>7. config' = config BY DEF Tick
<1>8. Rests(b) => Rests(b)' BY <1>2, <1>4, <1>7 DEF Rests, gitScheduleBlocked
<1> QED BY <1>1, <1>5, <1>6, <1>8 DEF NotedAt

LEMMA LoopNoted ==
  ASSUME TypeOK, NEW b \in Bases, NotedAt(b),
         \/ ReceiveChange \/ TimerFires \/ Stop \/ SubmitEnds \/ Snapshots \/ ReadStatus \/ Reconcile
         \/ \E c \in Bases : Submit(c)
  PROVE  NotedAt(b)'
<1> USE DEF manager, channels
<1>1. CASE ReceiveChange \/ TimerFires \/ Stop \/ SubmitEnds \/ \E c \in Bases : Submit(c)
  BY <1>1 DEF ReceiveChange, TimerFires, Stop, SubmitEnds, Submit, Awake, NotedAt
<1>2. ASSUME Fails PROVE NotedAt(b)' BY <1>2, SizesAssumption DEF Fails, Sleep, NotedAt
<1>3. CASE Snapshots /\ ~Fails
  <2>1. pc' = "read" /\ next' = 1 /\ config' = config /\ seen'[b] = [NoCandidate EXCEPT !.interval = config[b]]
    BY <1>3 DEF Snapshots
  <2>2. ~(b < 1) BY SizesAssumption DEF Bases
  <2> QED BY <2>1, <2>2 DEF NotedAt, Seen, SameAttempt, NoCandidate
<1>4. CASE ReadStatus /\ ~Fails
  <2>1. /\ pc = "read" /\ pc' = "read" /\ next' = next + 1 /\ next \in Bases
        /\ UNCHANGED <<config, status, entries, co, unsent, statusChanged, configChanged, silent>>
    BY <1>4 DEF ReadStatus
  <2>2. Noticed(b)' <=> Noticed(b) BY <2>1 DEF Noticed
  <2>3. CASE b # next
    <3>1. seen'[b] = seen[b] BY <1>4, <2>3 DEF ReadStatus, TypeOK, SchedulerOK
    <3>2. b < next + 1 <=> b < next BY <2>1, <2>3, SizesAssumption DEF Bases
    <3> QED BY <2>1, <2>2, <3>1, <3>2 DEF NotedAt, Seen, SameAttempt
  <2>4. CASE b = next /\ seen[b].interval = 0
    <3>1. seen' = seen BY <1>4, <2>4 DEF ReadStatus
    <3> QED BY <2>1, <2>2, <2>4, <3>1 DEF NotedAt, Seen, SameAttempt
  <2>5. CASE b = next /\ seen[b].interval # 0
    <3>1. seen' = [seen EXCEPT ![b].status = Kept(status[b]), ![b].same = unchangedAttempt(b)]
      BY <1>4, <2>5 DEF ReadStatus
    <3>2. /\ seen'[b].interval = seen[b].interval /\ seen'[b].status = Kept(status[b])
          /\ seen'[b].same = unchangedAttempt(b)
      BY <3>1 DEF TypeOK, SchedulerOK, Candidates
    <3>3. /\ gitScheduleBlocked(Kept(status[b])) = gitScheduleBlocked(status[b])
          /\ ~gitScheduleBlocked(status[b]) => Kept(status[b]) = status[b]
      BY DEF gitScheduleBlocked, Kept, Reconnect
    <3> QED BY <2>1, <2>2, <3>2, <3>3 DEF NotedAt, Seen, SameAttempt, unchangedAttempt
  <2> QED BY <2>3, <2>4, <2>5
<1>5. CASE Reconcile
  <2>1. /\ pc = "read" /\ pc' = "wait" /\ b < next /\ entries'[b] = Reconciled(b)
        /\ UNCHANGED <<config, status, co, unsent, statusChanged, configChanged, silent>>
    BY <1>5, SizesAssumption DEF Reconcile, Sleep, Bases
  <2>2. Noticed(b)' <=> Noticed(b) BY <2>1 DEF Noticed
  <2>3. ASSUME Seen(b) PROVE Rests(b)'
    <3>1. CASE config[b] = 0 BY <2>1, <2>3, <3>1 DEF Seen, Reconciled, Rests, NoEntry
    <3>2. CASE config[b] # 0 /\ gitScheduleBlocked(status[b])
      BY <2>1, <2>3, <3>2 DEF Seen, Reconciled, Rests, Blocked, NoEntry
    <3>3. CASE config[b] # 0 /\ ~gitScheduleBlocked(status[b])
      <4>1. CASE unchanged(b)
        BY <2>1, <2>3, <3>3, <4>1 DEF Seen, Reconciled, Rests, unchanged, Open, NotedAt, SameAttempt
      <4>2. CASE ~unchanged(b) BY <2>1, <2>3, <3>3, <4>2 DEF Seen, Reconciled, Rests
      <4> QED BY <4>1, <4>2
    <3> QED BY <3>1, <3>2, <3>3
  <2> QED BY <2>1, <2>2, <2>3 DEF NotedAt
<1> QED BY <1>1, <1>2, <1>3, <1>4, <1>5

LEMMA NotedStep == TypeOK /\ Noted /\ [Next]_vars => Noted'
<1> SUFFICES ASSUME TypeOK, Noted, [Next]_vars, NEW b \in Bases PROVE NotedAt(b)' BY DEF Noted
<1>1. NotedAt(b) BY DEF Noted
<1>2. CASE UNCHANGED vars
  BY <1>1, <1>2 DEF vars, manager, channels, scheduler, NotedAt, Seen, SameAttempt, Rests, Noticed
<1>3. CASE Next BY <1>1, <1>3, NextCases, TickNoted, ManagerNoted, LoopNoted
<1> QED BY <1>2, <1>3

\* A scheduler that sleeps with empty channels and no retry ahead rests on the status
\* and the interval of every base as they are: coalescing the notifications into one
\* slot, and reading the statuses one by one while they change, loses nothing.
THEOREM NothingMissed == Spec => []NoMissedChange
<1>1. Init => Noted BY DEF Init, Noted, NotedAt
<1>2. Noted => NoMissedChange BY DEF Noted, NotedAt, Noticed, NoMissedChange
<1> QED BY <1>1, <1>2, NotedStep, SchedulerTypes, PTL DEF Spec

-----------------------------------------------------------------------------
(* The interval counts from the last attempt.  The countdown of an entry    *)
(* and the age of the attempt it knows make up the interval between them; a *)
(* status that a settings change may put back is followed like the real one.*)

Paced(e, c, reading, s) ==
  /\ s.attempt # Earlier
  /\ e.kind = "open" /\ s.attempt = Latest /\ e.attempt = Latest => e.in + s.age >= e.interval
  /\ reading /\ s.attempt = Latest /\ ~gitScheduleBlocked(c.status) /\ c.status.attempt = Latest
       => s.age >= c.status.age

PacedAt(b) ==
  /\ Paced(entries[b], seen[b], pc = "read", status[b])
  /\ co.holder = "settings" /\ co.base = b =>
       gitScheduleBlocked(status[b]) /\ Paced(entries[b], seen[b], pc = "read", co.prev)
  /\ pc = "submit" /\ b \in due => Open(b) /\ entries[b].in = 0

AllPaced == \A b \in Bases : PacedAt(b)

\* What a base has, in its ranges.
LEMMA BaseFacts ==
  ASSUME TypeOK, NEW b \in Bases
  PROVE  /\ status[b] \in Statuses /\ entries[b] \in Entries /\ seen[b] \in Candidates
         /\ status[b].age \in Nat /\ status[b].attempt \in Attempts
         /\ seen[b].status \in Statuses /\ seen[b].status.age \in Nat
         /\ seen[b].status.attempt \in Attempts /\ seen[b].interval \in Nat
         /\ entries[b].in \in Nat /\ entries[b].interval \in Nat
<1>1. status[b] \in Statuses /\ entries[b] \in Entries /\ seen[b] \in Candidates
  BY DEF TypeOK, SystemOK, SchedulerOK
<1>2. seen[b].status \in Statuses /\ seen[b].interval \in Intervals \cup {0} BY <1>1 DEF Candidates
<1> QED BY <1>1, <1>2, StatusFacts, AgeFacts, EntryFacts, HorizonFacts

\* A step that leaves the entry, the candidate and the status of a base alone,
\* and starts no settings change of it, leaves it paced.
LEMMA QuietPaced ==
  ASSUME NEW b \in Bases, PacedAt(b), pc' = pc, due' = due,
         entries'[b] = entries[b], seen'[b] = seen[b], status'[b].attempt = status[b].attempt,
         status'[b].age = status[b].age, UNCHANGED <<co, status>> \/ co'.holder # "settings"
  PROVE  PacedAt(b)'
<1> QED BY DEF PacedAt, Paced, Open

\* An entry does not match a status without an attempt.
LEMMA NeverPaced == ASSUME NEW e, NEW c, NEW r, NEW s, s.attempt = Never PROVE Paced(e, c, r, s)
<1> QED BY DEF Paced

LEMMA ManagerPaced ==
  ASSUME TypeOK, NEW b \in Bases, PacedAt(b),
         \/ Notify \/ StartAttempt \/ EndJob \/ SaveGit \/ RestoreGit \/ Close
         \/ \E c \in Bases : \/ Request(c) \/ BeginJob(c) \/ ChangeDirectory(c)
                             \/ \E interval \in Intervals \cup {0} : ChangeGit(c, interval)
  PROVE  PacedAt(b)'
<1> USE DEF manager, channels, Publish, Idle, scheduler
<1>1. CASE Notify BY <1>1, QuietPaced DEF Notify
<1>2. CASE StartAttempt
  <2>1. pc' = pc /\ due' = due /\ co'.holder = "job" /\ co.base \in Bases
    BY <1>2, HolderFacts DEF StartAttempt, TypeOK, SystemOK, Holders
  <2>2. CASE co.base = b
    <3>1. status'[b].attempt = Latest BY <1>2, <2>2, BaseFacts DEF StartAttempt, TypeOK, SystemOK, Statuses
    <3>2. /\ entries'[b].attempt = Older(entries[b].attempt) /\ entries'[b].kind = entries[b].kind
          /\ entries'[b].in = entries[b].in
      BY <1>2, <2>2 DEF StartAttempt, TypeOK, SchedulerOK, Entries
    <3>3. seen'[b].status.attempt = Older(seen[b].status.attempt)
      BY <1>2, <2>2 DEF StartAttempt, TypeOK, SchedulerOK, Candidates, Statuses
    <3>4. entries'[b].attempt # Latest /\ seen'[b].status.attempt # Latest BY <3>2, <3>3 DEF Older
    <3> QED BY <2>1, <3>1, <3>2, <3>4 DEF PacedAt, Paced, Open
  <2>3. CASE co.base # b
    BY <1>2, <2>1, <2>3, QuietPaced DEF StartAttempt, TypeOK, SystemOK, SchedulerOK
  <2> QED BY <2>2, <2>3
<1>3. CASE EndJob
  <2>1. status'[b].attempt = status[b].attempt /\ status'[b].age = status[b].age
    <3>1. status \in [Bases -> Statuses] BY DEF TypeOK, SystemOK
    <3> QED BY <1>3, <3>1 DEF EndJob, Statuses
  <2> QED BY <1>3, <2>1, QuietPaced DEF EndJob, Nobody
<1>4. CASE SaveGit BY <1>4, QuietPaced DEF SaveGit, Nobody
<1>5. CASE RestoreGit
  <2>1. status'[b] = IF b = co.base THEN co.prev ELSE status[b]
    BY <1>5 DEF RestoreGit, TypeOK, SystemOK
  <2>2. UNCHANGED scheduler /\ co.holder = "settings" /\ co'.holder = "free" BY <1>5 DEF RestoreGit, Nobody
  <2> QED BY <2>1, <2>2 DEF PacedAt, Open
<1>6. CASE Close BY <1>6, QuietPaced DEF Close
<1>7. ASSUME NEW c \in Bases, Request(c) PROVE PacedAt(b)'
  <2>1. status'[b].attempt = status[b].attempt /\ status'[b].age = status[b].age
    <3>1. status \in [Bases -> Statuses] BY DEF TypeOK, SystemOK
    <3> QED BY <1>7, <3>1 DEF Request, Statuses
  <2> QED BY <1>7, <2>1, QuietPaced DEF Request
<1>8. ASSUME NEW c \in Bases, BeginJob(c) PROVE PacedAt(b)' BY <1>8, QuietPaced DEF BeginJob, Nobody
<1>9. ASSUME NEW c \in Bases, ChangeDirectory(c) PROVE PacedAt(b)'
  BY <1>9, QuietPaced DEF ChangeDirectory
<1>10. ASSUME NEW c \in Bases, NEW i \in Intervals \cup {0}, ChangeGit(c, i) PROVE PacedAt(b)'
  <2>1. co'.base = c /\ co'.prev = status[c] /\ UNCHANGED scheduler BY <1>10 DEF ChangeGit, Nobody
  <2>2. status'[b] = IF b = c THEN Reconnect ELSE status[b] BY <1>10 DEF ChangeGit, TypeOK, SystemOK
  <2>3. \A r \in BOOLEAN : Paced(entries[b], seen[b], r, Reconnect) BY NeverPaced DEF Reconnect
  <2>4. gitScheduleBlocked(Reconnect) BY DEF gitScheduleBlocked, Reconnect
  <2> QED BY <2>1, <2>2, <2>3, <2>4 DEF PacedAt, Open
<1> QED BY <1>1, <1>2, <1>3, <1>4, <1>5, <1>6, <1>7, <1>8, <1>9, <1>10

\* Time that passes lets the countdown shrink no faster than the attempt ages.
LEMMA AgedPaced ==
  ASSUME NEW e \in Entries, NEW c, NEW s \in Statuses, Paced(e, c, FALSE, s)
  PROVE  Paced([e EXCEPT !.in = Most(@ - 1, 0)], c, FALSE, Aged(s))
<1>1. e.in \in Nat /\ e.interval \in Nat /\ e.interval <= Horizon BY EntryFacts, HorizonFacts
<1>2. s.age \in Nat BY StatusFacts, AgeFacts
<1>3. Aged(s).attempt = s.attempt /\ Aged(s).age = Least(s.age + 1, Horizon) BY DEF Aged, Statuses
<1> DEFINE f == [e EXCEPT !.in = Most(@ - 1, 0)]
<1>4. f.kind = e.kind /\ f.attempt = e.attempt /\ f.interval = e.interval /\ f.in = Most(e.in - 1, 0)
  BY DEF Entries
<1> HIDE DEF f
<1>5. Paced(f, c, FALSE, Aged(s)) BY <1>1, <1>2, <1>3, <1>4, HorizonFacts DEF Paced
<1> QED BY <1>5 DEF f

LEMMA TickPaced == ASSUME TypeOK, NEW b \in Bases, PacedAt(b), Tick PROVE PacedAt(b)'
<1>1. pc' = pc /\ pc # "read" /\ due' = due /\ seen' = seen BY DEF Tick, Asleep
<1>2. status'[b] = Aged(status[b]) /\ entries'[b] = [entries[b] EXCEPT !.in = Most(@ - 1, 0)]
  BY DEF Tick
<1>3. co'.holder = co.holder /\ co'.base = co.base /\ co'.prev = Aged(co.prev)
  BY DEF Tick, TypeOK, SystemOK, Holders
<1>4. co.prev \in Statuses BY HolderFacts DEF TypeOK, SystemOK
<1>5. Paced(entries'[b], seen'[b], FALSE, status'[b])
  <2>1. Paced(entries[b], seen[b], FALSE, status[b]) BY DEF PacedAt, Paced
  <2>2. status[b] \in Statuses /\ entries[b] \in Entries BY BaseFacts
  <2>3. Paced([entries[b] EXCEPT !.in = Most(@ - 1, 0)], seen[b], FALSE, Aged(status[b]))
    BY <2>1, <2>2, AgedPaced
  <2> QED BY <1>1, <1>2, <2>3
<1>6. ASSUME co.holder = "settings", co.base = b
      PROVE  Paced(entries'[b], seen'[b], FALSE, co'.prev)
  <2>1. Paced(entries[b], seen[b], FALSE, co.prev) BY <1>6 DEF PacedAt, Paced
  <2>2. entries[b] \in Entries BY BaseFacts
  <2>3. Paced([entries[b] EXCEPT !.in = Most(@ - 1, 0)], seen[b], FALSE, Aged(co.prev))
    BY <1>4, <2>1, <2>2, AgedPaced
  <2> QED BY <1>1, <1>2, <1>3, <2>3
<1>7. Open(b) /\ entries[b].in = 0 => Open(b)' /\ entries'[b].in = 0
  BY <1>2, BaseFacts DEF Open, Entries
<1>8. gitScheduleBlocked(status[b]) => gitScheduleBlocked(status'[b])
  <2>1. status[b] \in Statuses BY BaseFacts
  <2> QED BY <1>2, <2>1 DEF Aged, gitScheduleBlocked, Statuses
<1> QED BY <1>1, <1>3, <1>5, <1>6, <1>7, <1>8 DEF PacedAt, Paced

\* The entry a reconciliation makes of what it has read.
LEMMA ReconciledPaced ==
  ASSUME TypeOK, NEW b \in Bases, NEW s, s.age \in Nat, NEW c,
         Paced(entries[b], seen[b], TRUE, s)
  PROVE  Paced(Reconciled(b), c, FALSE, s)
<1>1. CASE Reconciled(b) = entries[b] BY <1>1 DEF Paced
<1>2. CASE Reconciled(b).kind # "open" BY <1>2 DEF Paced
<1>3. CASE Reconciled(b) # entries[b] /\ Reconciled(b).kind = "open"
  <2> DEFINE d == gitScheduleDue(Slot(b), seen[b].status, seen[b].interval)
  <2>1. /\ Reconciled(b) = [kind |-> "open", interval |-> seen[b].interval,
                            attempt |-> seen[b].status.attempt, in |-> d]
        /\ ~gitScheduleBlocked(seen[b].status)
    BY <1>3 DEF Reconciled, NoEntry, Blocked
  <2>2. seen[b].status.attempt = Latest => d >= seen[b].interval - seen[b].status.age
    <3>1. Slot(b) \in Nat BY SlotIsNat DEF TypeOK, SchedulerOK
    <3>2. seen[b].interval - seen[b].status.age \in Int BY BaseFacts
    <3> QED BY <3>1, <3>2 DEF gitScheduleDue
  <2>3. d \in Nat
    <3>1. Reconciled(b) \in Entries BY ReconciledTypes
    <3> HIDE DEF d
    <3>2. Reconciled(b).in = d BY <2>1
    <3> QED BY <3>1, <3>2 DEF Entries
  <2>4. seen[b].interval \in Nat /\ seen[b].status.age \in Nat BY BaseFacts
  <2> HIDE DEF d
  <2> QED BY <2>1, <2>2, <2>3, <2>4 DEF Paced
<1> QED BY <1>1, <1>2, <1>3

LEMMA LoopPaced ==
  ASSUME TypeOK, NEW b \in Bases, PacedAt(b),
         \/ ReceiveChange \/ TimerFires \/ Stop \/ SubmitEnds \/ Snapshots \/ ReadStatus \/ Reconcile
         \/ \E c \in Bases : Submit(c)
  PROVE  PacedAt(b)'
<1> USE DEF manager, channels
<1>1. CASE ReceiveChange \/ TimerFires \/ Stop \/ SubmitEnds
  BY <1>1 DEF ReceiveChange, TimerFires, Stop, SubmitEnds, Awake, PacedAt, Paced, Open
<1>2. ASSUME Fails PROVE PacedAt(b)' BY <1>2 DEF Fails, Sleep, PacedAt, Paced
<1>3. CASE Snapshots /\ ~Fails
  <2>1. pc' = "read" /\ UNCHANGED <<entries, status, co>> BY <1>3 DEF Snapshots
  <2>2. seen'[b].status = Reconnect
    BY <1>3 DEF Snapshots, NoCandidate
  <2>3. gitScheduleBlocked(Reconnect) BY DEF gitScheduleBlocked, Reconnect
  <2> QED BY <2>1, <2>2, <2>3 DEF PacedAt, Paced
<1>4. CASE ReadStatus /\ ~Fails
  <2>1. pc = "read" /\ pc' = "read" /\ UNCHANGED <<entries, status, co>> BY <1>4 DEF ReadStatus
  <2>2. CASE seen'[b] = seen[b] BY <2>1, <2>2 DEF PacedAt, Paced
  <2>3. CASE seen'[b] # seen[b]
    <3>1. seen' = [seen EXCEPT ![b].status = Kept(status[b]), ![b].same = unchangedAttempt(b)]
      BY <1>4, <2>3 DEF ReadStatus, TypeOK, SchedulerOK
    <3>2. seen'[b].status = Kept(status[b]) BY <3>1 DEF TypeOK, SchedulerOK, Candidates
    <3>3. gitScheduleBlocked(seen'[b].status) \/ seen'[b].status = status[b]
      BY <3>2 DEF Kept, Reconnect, gitScheduleBlocked
    <3>4. status[b].age \in Nat BY BaseFacts
    <3>5. Paced(entries'[b], seen'[b], TRUE, status'[b])
      BY <2>1, <3>3, <3>4 DEF PacedAt, Paced
    <3>6. co.holder = "settings" /\ co.base = b =>
            gitScheduleBlocked(status[b]) /\ Paced(entries'[b], seen'[b], TRUE, co.prev)
      <4>1. gitScheduleBlocked(status[b]) => gitScheduleBlocked(seen'[b].status)
        BY <3>2 DEF Kept, Reconnect, gitScheduleBlocked
      <4> QED BY <2>1, <4>1 DEF PacedAt, Paced
    <3> QED BY <2>1, <3>5, <3>6 DEF PacedAt, Paced
  <2> QED BY <2>2, <2>3
<1>5. CASE Reconcile
  <2>1. pc = "read" /\ pc' = "wait" /\ entries'[b] = Reconciled(b) /\ UNCHANGED <<status, co>>
    BY <1>5 DEF Reconcile, Sleep
  <2>2. Paced(Reconciled(b), seen'[b], FALSE, status[b])
    <3>1. Paced(entries[b], seen[b], TRUE, status[b]) BY <2>1 DEF PacedAt, Paced
    <3>2. status[b].age \in Nat BY BaseFacts
    <3> QED BY <3>1, <3>2, ReconciledPaced
  <2>3. ASSUME co.holder = "settings", co.base = b
        PROVE  Paced(Reconciled(b), seen'[b], FALSE, co.prev)
    <3>1. Paced(entries[b], seen[b], TRUE, co.prev) BY <2>1, <2>3 DEF PacedAt, Paced
    <3>2. co.prev.age \in Nat BY HolderFacts, StatusFacts, AgeFacts DEF TypeOK, SystemOK
    <3> QED BY <3>1, <3>2, ReconciledPaced
  <2> QED BY <2>1, <2>2, <2>3 DEF PacedAt, Paced
<1>6. ASSUME NEW c \in Bases, Submit(c) PROVE PacedAt(b)'
  <2>1. /\ pc = "submit" /\ pc' = pc /\ due' = due \ {c} /\ c \in due /\ co.holder = "free"
        /\ UNCHANGED <<co, seen>>
    BY <1>6 DEF Submit, Idle
  <2>2. status'[b].attempt = status[b].attempt /\ status'[b].age = status[b].age
    <3>1. status \in [Bases -> Statuses] BY DEF TypeOK, SystemOK
    <3> QED BY <1>6, <3>1 DEF Submit, Statuses
  <2>3. CASE b # c
    <3>1. entries'[b] = entries[b] BY <1>6, <2>3 DEF Submit, Resubmitted, TypeOK, SchedulerOK
    <3>2. Paced(entries'[b], seen'[b], FALSE, status'[b])
      BY <2>1, <2>2, <3>1 DEF PacedAt, Paced
    <3>3. b \in due => Open(b)' /\ entries'[b].in = 0 BY <2>1, <3>1 DEF PacedAt, Open
    <3> QED BY <2>1, <3>2, <3>3 DEF PacedAt, Paced
  <2>4. CASE b = c
    <3>1. entries[b].in = 0 /\ Open(b) BY <2>1, <2>4 DEF PacedAt
    <3>2. /\ entries'[b].attempt = entries[b].attempt /\ entries'[b].interval = entries[b].interval
          /\ entries'[b].kind = entries[b].kind /\ entries'[b].in \in Nat
      <4>1. entries[b] \in Entries /\ lag \in Nat BY BaseFacts DEF TypeOK, SchedulerOK
      <4>2. PICK d \in Nat : entries' = Resubmitted(b, d)
        BY <1>6, <2>4, BaseFacts, SizesAssumption DEF Submit
      <4>3. entries'[b] = [entries[b] EXCEPT !.in = Most(d - lag, 0)]
        BY <4>2 DEF Resubmitted, TypeOK, SchedulerOK
      <4> QED BY <4>1, <4>3 DEF Entries
    <3>3. status[b].age \in Nat /\ entries[b].interval \in Nat BY BaseFacts
    <3>4. Paced(entries'[b], seen'[b], FALSE, status'[b])
      BY <2>1, <2>2, <3>1, <3>2, <3>3 DEF PacedAt, Paced, Open
    <3> QED BY <2>1, <2>4, <3>4 DEF PacedAt, Paced
  <2> QED BY <2>3, <2>4
<1> QED BY <1>1, <1>2, <1>3, <1>4, <1>5, <1>6

LEMMA PacedStep == TypeOK /\ AllPaced /\ [Next]_vars => AllPaced'
<1> SUFFICES ASSUME TypeOK, AllPaced, [Next]_vars, NEW b \in Bases PROVE PacedAt(b)' BY DEF AllPaced
<1>1. PacedAt(b) BY DEF AllPaced
<1>2. CASE UNCHANGED vars
  BY <1>1, <1>2 DEF vars, manager, channels, scheduler, PacedAt, Paced, Open
<1>3. CASE Next BY <1>1, <1>3, NextCases, TickPaced, ManagerPaced, LoopPaced
<1> QED BY <1>2, <1>3

LEMMA InitPaced == Init => AllPaced
<1> SUFFICES ASSUME Init, NEW b \in Bases PROVE PacedAt(b) BY DEF AllPaced
<1>1. status[b].attempt \in {Latest, Never} BY DEF Init, Reconnect
<1>2. entries[b].kind = "none" /\ pc = "reconcile" /\ co.holder = "free" BY DEF Init, NoEntry, Nobody
<1> QED BY <1>1, <1>2 DEF PacedAt, Paced

\* The scheduler never submits a base whose last attempt it knows before the interval
\* has passed since that attempt: neither restarts of the timer, retries, staggered
\* slots and the time spent in locks, nor a status changed, cleared and put back,
\* shorten it.
THEOREM IntervalIsKept == Spec => IntervalKept
<1>1. TypeOK /\ AllPaced /\ [Next]_vars =>
        [\A b \in Bases :
           /\ pc = "submit" /\ b \in due /\ b \notin due' /\ b \in queued' \ queued
           /\ status[b].attempt # Never /\ entries[b].attempt = status[b].attempt
           => status[b].age >= entries[b].interval]_vars
  <2> SUFFICES ASSUME TypeOK, AllPaced, NEW b \in Bases, pc = "submit", b \in due,
                      status[b].attempt # Never, entries[b].attempt = status[b].attempt
               PROVE  status[b].age >= entries[b].interval
    OBVIOUS
  <2>1. PacedAt(b) BY DEF AllPaced
  <2>2. entries[b].in = 0 /\ Open(b) /\ status[b].attempt = Latest
    BY <2>1, BaseFacts DEF PacedAt, Paced, Attempts
  <2>3. status[b].age \in Nat /\ entries[b].interval \in Nat BY BaseFacts
  <2> QED BY <2>1, <2>2, <2>3 DEF PacedAt, Paced, Open
<1> QED BY <1>1, InitPaced, PacedStep, SchedulerTypes, PTL DEF Spec, IntervalKept
=============================================================================
