---------------------------- MODULE GitScheduler ----------------------------
(***************************************************************************)
(* The autosync scheduler: one goroutine that keeps an entry per base,     *)
(* sleeps until the earliest due time, submits the due bases to the        *)
(* manager and reconciles its entries after every notification.  Around    *)
(* it, as far as it can see them: the manager (a status written, then a    *)
(* notification that a channel of one slot coalesces), the settings (a     *)
(* status rewritten without notification, then config.json and its         *)
(* notification), the user and the directories of the bases.               *)
(*                                                                         *)
(* Time is relative.  A due time is the countdown `in`, 0 once it has      *)
(* passed.  A last attempt is Latest, the newest one of its base, or       *)
(* Earlier, or Never; its age counts up to Horizon.  Every base here has   *)
(* Git configured; config is its interval, 0 for auto_sync off.            *)
(***************************************************************************)
EXTENDS Integers, FiniteSets

CONSTANTS N,          \* the bases are 1 .. N, in the order of the configuration
          Intervals,  \* the intervals of the configurations
          Stagger,    \* gitSchedulerStagger
          Retry,      \* gitSchedulerRetryDelay
          MaxUser,    \* bound: requests of the user and changes of directories
          MaxFaults   \* bound: failed reads and writes of the database

Bases == 1 .. N
Horizon == CHOOSE i \in Intervals : \A j \in Intervals : j <= i
Never == 0
Latest == 1
Earlier == 2
Attempts == {Never, Latest, Earlier}

ASSUME SizesAssumption ==
  /\ N \in Nat \ {0} /\ Stagger \in Nat /\ Retry \in Nat \ {0}
  /\ Intervals \subseteq Nat \ {0} /\ \E i \in Intervals : \A j \in Intervals : j <= i
  /\ MaxUser \in Nat /\ MaxFaults \in Nat

VARIABLES
  config,         \* interval of every base, 0 for auto_sync off
  reachable,      \* bases whose directory can be resolved
  status,         \* git_status, as far as the scheduler reads it
  co,             \* the holder of the coordinator
  queued,         \* bases with a job in the queue of the manager
  unsent,         \* a status is written, its notification not yet sent
  statusChanged,  \* s.statusChanged holds a notification
  configChanged,  \* s.configChanges holds a notification
  closed,         \* Close has canceled the lifetime of the manager
  pc,             \* where run is
  entries,        \* s.entries
  retry,          \* countdown of s.metadataRetry, None when it is zero
  timer,          \* countdown of the timer
  due,            \* queueDue: the bases it has still to submit
  lag,            \* queueDue: the time since the `now` it was called with
  next,           \* reconcile: the base whose status is read next
  seen,           \* reconcile: the candidates read so far
  silent,         \* a failed settings change restored a status unnoticed
  spent           \* how much of every bound is used

manager   == <<status, co, queued, unsent>>
channels  == <<statusChanged, configChanged>>
scheduler == <<pc, entries, retry, timer, due, lag, next, seen>>
vars      == <<config, reachable, manager, channels, closed, scheduler, silent, spent>>

None == -1
Ages == 0 .. Horizon
\* waiting: paused, conflict, needs_reconnect, unconfigured, no row or five
\* failures; working: initializing and syncing; idle: every other status.
Statuses == [state : {"idle", "working", "waiting"}, attempt : Attempts, age : Ages]
Reconnect == [state |-> "waiting", attempt |-> Never, age |-> Horizon]
NoEntry == [kind |-> "none", in |-> 0, attempt |-> Never, interval |-> 0]
Blocked(interval) == [NoEntry EXCEPT !.kind = "blocked", !.interval = interval]
NoCandidate == [interval |-> 0, status |-> Reconnect, same |-> FALSE]
Nobody == [holder |-> "free", base |-> 1, started |-> FALSE, prev |-> Reconnect, cfg |-> 0]
Least(a, b) == IF a <= b THEN a ELSE b
Most(a, b) == IF a >= b THEN a ELSE b

Init ==
  /\ config \in [Bases -> Intervals \cup {0}]
  /\ reachable = Bases
  /\ status \in [Bases -> {[state |-> "idle", attempt |-> Latest, age |-> a] : a \in Ages}
                          \cup {Reconnect, [Reconnect EXCEPT !.state = "idle"]}]
  /\ co = Nobody /\ queued = {} /\ unsent = FALSE
  /\ statusChanged = FALSE /\ configChanged = FALSE /\ closed = FALSE
  /\ pc = "reconcile" /\ entries = [b \in Bases |-> NoEntry] /\ retry = None
  /\ timer = 0 /\ due = {} /\ lag = 0 /\ next = 1
  /\ seen = [b \in Bases |-> NoCandidate]
  /\ silent = FALSE /\ spent = [user |-> 0, faults |-> 0]

User  == spent.user < MaxUser /\ spent' = [spent EXCEPT !.user = @ + 1]
Fault == spent.faults < MaxFaults /\ spent' = [spent EXCEPT !.faults = @ + 1]

-----------------------------------------------------------------------------
(* The manager.  Who writes a status holds the coordinator until the        *)
(* notification is sent.                                                    *)

Idle == co.holder = "free" /\ ~unsent

\* Variant: an unbuffered channel takes only what somebody waits for.
Unbuffered == pc = "wait"

notifyStatusChanged == TRUE

Publish(b, new) == status' = [status EXCEPT ![b] = new] /\ unsent' = TRUE

Notify ==
  /\ unsent /\ unsent' = FALSE
  /\ statusChanged' = (statusChanged \/ notifyStatusChanged)
  /\ UNCHANGED <<config, reachable, status, co, queued, configChanged, closed, scheduler, silent, spent>>

(* A request of the user: sync, initialize or resume turn the status to     *)
(* working, a conflict completion or abort leaves it.                       *)
Request(b) ==
  /\ Idle /\ ~closed /\ b \notin queued /\ b \in reachable /\ User
  /\ queued' = queued \cup {b}
  /\ \/ Publish(b, [status[b] EXCEPT !.state = "working"])
     \/ status[b].state = "waiting" /\ Publish(b, status[b])
  /\ UNCHANGED <<config, reachable, co, channels, closed, scheduler, silent>>

BeginJob(b) ==
  /\ Idle /\ ~closed /\ b \in queued
  /\ queued' = queued \ {b}
  /\ co' = [Nobody EXCEPT !.holder = "job", !.base = b]
  /\ UNCHANGED <<config, reachable, status, unsent, channels, closed, scheduler, silent, spent>>

\* progress: the first checkpoint of a job stamps the status with its attempt.
Older(attempt) == IF attempt = Latest THEN Earlier ELSE attempt

StartAttempt ==
  /\ co.holder = "job" /\ ~co.started /\ ~unsent
  /\ co' = [co EXCEPT !.started = TRUE]
  /\ Publish(co.base, [status[co.base] EXCEPT !.attempt = Latest, !.age = 0])
  /\ entries' = [entries EXCEPT ![co.base].attempt = Older(@)]
  /\ seen' = [seen EXCEPT ![co.base].status.attempt = Older(@)]
  /\ UNCHANGED <<config, reachable, queued, channels, closed, pc, retry, timer, due, lag, next,
                 silent, spent>>

\* A job ends before or after its first checkpoint; its status write may fail.
EndJob ==
  /\ co.holder = "job" /\ ~unsent /\ co' = Nobody
  /\ \/ /\ \E state \in {"idle", "waiting"} :
             Publish(co.base, [status[co.base] EXCEPT !.state = state])
        /\ UNCHANGED spent
     \/ Fault /\ UNCHANGED <<status, unsent>>
  /\ UNCHANGED <<config, reachable, queued, channels, closed, scheduler, silent>>

Close == ~closed /\ closed' = TRUE
         /\ UNCHANGED <<config, reachable, manager, channels, scheduler, silent, spent>>

(* ConfigureGit and DisableGit hold the settings lock from the status write *)
(* to the save; a failed save puts the status back, without a notification. *)
ChangeGit(b, interval) ==
  /\ Idle /\ ~closed /\ b \in reachable /\ User
  /\ co' = [Nobody EXCEPT !.holder = "settings", !.base = b, !.prev = status[b], !.cfg = interval]
  /\ status' = [status EXCEPT ![b] = Reconnect]
  /\ UNCHANGED <<config, reachable, queued, unsent, channels, closed, scheduler, silent>>

SaveGit ==
  /\ co.holder = "settings" /\ co' = Nobody
  /\ config' = [config EXCEPT ![co.base] = co.cfg] /\ configChanged' = TRUE
  /\ queued' = queued \ {co.base}      \* its job is stale: it ends without a status
  /\ UNCHANGED <<reachable, status, unsent, statusChanged, closed, scheduler, silent, spent>>

RestoreGit ==
  /\ co.holder = "settings" /\ Fault /\ co' = Nobody
  /\ status' = [status EXCEPT ![co.base] = co.prev] /\ silent' = TRUE
  /\ UNCHANGED <<config, reachable, queued, unsent, channels, closed, scheduler>>

ChangeDirectory(b) ==
  /\ User /\ reachable' = IF b \in reachable THEN reachable \ {b} ELSE reachable \cup {b}
  /\ UNCHANGED <<config, manager, channels, closed, scheduler, silent>>

(* Time passes while the scheduler sleeps or waits for a lock: its own      *)
(* steps, and the two reads of a reconciliation, take none.  Nothing after  *)
(* Close depends on it.                                                     *)
Asleep == /\ ~closed
          /\ \/ pc = "wait"
             \/ pc = "submit" /\ ~Idle
             \/ pc = "reconcile" /\ co.holder = "settings"

Aged(s) == [s EXCEPT !.age = Least(@ + 1, Horizon)]

Tick ==
  /\ Asleep
  /\ status' = [b \in Bases |-> Aged(status[b])]
  /\ co' = [co EXCEPT !.prev = Aged(@)]
  /\ entries' = [b \in Bases |-> [entries[b] EXCEPT !.in = Most(@ - 1, 0)]]
  /\ retry' = IF retry = None THEN None ELSE Most(retry - 1, 0)
  /\ timer' = Most(timer - 1, 0)
  /\ lag' = IF pc = "wait" THEN 0 ELSE Least(lag + 1, Horizon)
  /\ UNCHANGED <<config, reachable, queued, unsent, channels, closed, pc, due, next, seen, silent,
                 spent>>

-----------------------------------------------------------------------------
(* The loop of run. *)

Open(b) == entries[b].kind = "open"

\* The countdowns nextDelay takes the least of.
Countdowns(ents, again) ==
  {ents[b].in : b \in {b \in Bases : ents[b].kind = "open"}} \cup ({again} \ {None})
nextDelay(ents, again) ==
  IF Countdowns(ents, again) = {} THEN Retry
  ELSE CHOOSE d \in Countdowns(ents, again) : \A e \in Countdowns(ents, again) : d <= e

\* reconcileAndLog returns to the select, the timer set anew.
Sleep(ents, again) ==
  /\ pc' = "wait" /\ entries' = ents /\ retry' = again /\ timer' = nextDelay(ents, again)
  /\ lag' = 0 /\ next' = 1 /\ seen' = [b \in Bases |-> NoCandidate] /\ due' = {}

\* Awake, the scheduler sets the timer and the retry anew before it reads them.
Awake(label) == /\ pc' = label /\ lag' = 0 /\ timer' = 0 /\ retry' = None
                /\ UNCHANGED <<entries, next, seen>>

ReceiveChange ==
  /\ pc = "wait" /\ due' = due
  /\ \/ configChanged /\ configChanged' = FALSE /\ UNCHANGED statusChanged
     \/ statusChanged /\ statusChanged' = FALSE /\ UNCHANGED configChanged
  /\ Awake("reconcile")
  /\ UNCHANGED <<config, reachable, manager, closed, silent, spent>>

TimerFires ==
  /\ pc = "wait" /\ timer = 0
  /\ Awake("submit")
  /\ due' = {b \in Bases : Open(b) /\ entries[b].in = 0}
  /\ UNCHANGED <<config, reachable, manager, channels, closed, silent, spent>>

\* Variant: the select has no case for the canceled context.
NeverDone == FALSE

\* ctx.Done of the select.
ctxDone == closed

Stop ==
  /\ pc = "wait" /\ ctxDone /\ pc' = "done"
  /\ UNCHANGED <<config, reachable, manager, channels, closed, entries, retry, timer, due, lag,
                 next, seen, silent, spent>>

-----------------------------------------------------------------------------
(* queueDue.  Due times that have passed are not told apart by their        *)
(* countdowns: the overdue bases are submitted in any order.                *)

\* The entry a submission leaves behind, its `now` being lag ago.
Resubmitted(b, delay) == [entries EXCEPT ![b].in = Most(delay - lag, 0)]

\* QueueSync refuses: the snapshot is stale or unreachable, the status waits.
Refused(b) == config[b] # entries[b].interval \/ b \notin reachable \/ status[b].state = "waiting"

\* ... or finds the operation in flight, or admits a new one.
Submit(b) ==
  /\ pc = "submit" /\ b \in due /\ ~closed /\ Idle
  /\ due' = due \ {b}
  /\ \/ /\ entries' = Resubmitted(b, Retry)
        /\ IF Refused(b) THEN UNCHANGED spent ELSE Fault
        /\ UNCHANGED <<status, queued, statusChanged>>
     \/ /\ ~Refused(b)
        /\ entries' = Resubmitted(b, entries[b].interval)
        /\ IF b \in queued THEN UNCHANGED <<status, queued, statusChanged>>
           ELSE /\ status' = [status EXCEPT ![b].state = "working"]
                /\ queued' = queued \cup {b}
                /\ statusChanged' = (statusChanged \/ notifyStatusChanged)
        /\ UNCHANGED spent
  /\ UNCHANGED <<config, reachable, co, unsent, configChanged, closed, pc, retry, timer, lag, next,
                 seen, silent>>

SubmitEnds ==
  /\ pc = "submit"
  /\ \/ due = {} /\ Awake("reconcile")
     \/ due # {} /\ closed /\ pc' = "done" /\ UNCHANGED <<entries, retry, timer, lag, next, seen>>
  /\ UNCHANGED <<config, reachable, manager, channels, closed, due, silent, spent>>

-----------------------------------------------------------------------------
(* reconcile *)

Fails == Sleep(entries, Retry) /\ UNCHANGED <<config, reachable, manager, channels, closed, silent>>

\* OrderedGitSnapshots fails for all bases when one directory is missing.
Snapshots ==
  /\ pc = "reconcile" /\ co.holder # "settings"
  /\ IF reachable # Bases THEN Fails /\ UNCHANGED spent
     ELSE /\ pc' = "read" /\ next' = 1
          /\ seen' = [b \in Bases |-> [NoCandidate EXCEPT !.interval = config[b]]]
          /\ UNCHANGED <<config, reachable, manager, channels, closed, entries, retry, timer, due, lag,
                         silent, spent>>

gitScheduleBlocked(s) == s.state # "idle"

\* Nothing more is asked of a blocked status.
Kept(s) == IF gitScheduleBlocked(s) THEN Reconnect ELSE s

\* s.entries does not change while the statuses are read.
unchangedAttempt(b) == entries[b].attempt = status[b].attempt

ReadStatus ==
  /\ pc = "read" /\ next \in Bases
  /\ IF seen[next].interval = 0
     THEN /\ next' = next + 1 /\ UNCHANGED <<pc, entries, retry, timer, due, lag, seen, spent>>
          /\ UNCHANGED <<config, reachable, manager, channels, closed, silent>>
     ELSE \/ /\ seen' = [seen EXCEPT ![next].status = Kept(status[next]),
                                     ![next].same = unchangedAttempt(next)]
             /\ next' = next + 1
             /\ UNCHANGED <<config, reachable, manager, channels, closed, pc, entries, retry, timer,
                            due, lag, silent, spent>>
          \/ Fails /\ IF closed THEN UNCHANGED spent ELSE Fault

\* The slots of the bases: a stagger for each that is not blocked.
Eligible(b) == seen[b].interval # 0 /\ ~gitScheduleBlocked(seen[b].status)
Slot(b) == Most(Stagger * Cardinality({c \in 1 .. b : Eligible(c)}) - lag, 0)

\* Variant: the slot alone decides.
SlotOnly(slot, s, interval) == slot

\* gitScheduleDue: not before an interval has passed since the last attempt.
gitScheduleDue(slot, s, interval) ==
  IF s.attempt = Never THEN slot ELSE Most(slot, interval - s.age)

\* Variant: an entry that was blocked counts as unchanged.
UnchangedBlocked(b) == entries[b].interval = seen[b].interval /\ seen[b].same

unchanged(b) == Open(b) /\ entries[b].interval = seen[b].interval /\ seen[b].same

Reconciled(b) ==
  LET c == seen[b] IN
  IF c.interval = 0 THEN NoEntry
  ELSE IF gitScheduleBlocked(c.status) THEN Blocked(c.interval)
  ELSE IF unchanged(b) THEN entries[b]
  ELSE [kind |-> "open", interval |-> c.interval, attempt |-> c.status.attempt,
        in |-> gitScheduleDue(Slot(b), c.status, c.interval)]

Reconcile ==
  /\ pc = "read" /\ next = N + 1
  /\ Sleep([b \in Bases |-> Reconciled(b)], None)
  /\ UNCHANGED <<config, reachable, manager, channels, closed, silent, spent>>

-----------------------------------------------------------------------------
SchedulerStep == ReceiveChange \/ SubmitEnds \/ Snapshots \/ ReadStatus \/ Reconcile
ManagerStep   == Notify \/ StartAttempt \/ EndJob \/ SaveGit \/ RestoreGit
Surroundings  == Close \/ \E b \in Bases :
                   \/ Request(b) \/ ChangeDirectory(b)
                   \/ \E interval \in Intervals \cup {0} : ChangeGit(b, interval)

Next == \/ SchedulerStep \/ TimerFires \/ Stop \/ ManagerStep \/ Surroundings \/ Tick
        \/ \E b \in Bases : Submit(b) \/ BeginJob(b)

Spec == Init /\ [][Next]_vars

(* The goroutines run on and time passes.  A select that finds several      *)
(* cases ready takes one at random, and the mutex of the coordinator hands  *)
(* itself to a waiter that starves: strong fairness.                        *)
Fairness ==
  /\ WF_vars(SchedulerStep) /\ WF_vars(ManagerStep) /\ WF_vars(Tick)
  /\ SF_vars(TimerFires) /\ SF_vars(Stop) /\ SF_vars(Snapshots)
  /\ \A b \in Bases : SF_vars(Submit(b)) /\ SF_vars(BeginJob(b))

FairSpec == Spec /\ Fairness

-----------------------------------------------------------------------------
Holders == [holder : {"free", "job", "settings"}, base : Bases, started : BOOLEAN,
            prev : Statuses, cfg : Intervals \cup {0}]
Entries == [kind : {"none", "blocked", "open"}, in : Nat, attempt : Attempts,
            interval : Intervals \cup {0}]
Candidates == [interval : Intervals \cup {0}, status : Statuses, same : BOOLEAN]

SystemOK ==
  /\ config \in [Bases -> Intervals \cup {0}] /\ reachable \subseteq Bases
  /\ status \in [Bases -> Statuses] /\ co \in Holders
  /\ queued \subseteq Bases /\ unsent \in BOOLEAN
  /\ statusChanged \in BOOLEAN /\ configChanged \in BOOLEAN /\ closed \in BOOLEAN
  /\ silent \in BOOLEAN /\ spent \in [user : Nat, faults : Nat]

SchedulerOK ==
  /\ pc \in {"wait", "submit", "reconcile", "read", "done"}
  /\ entries \in [Bases -> Entries] /\ seen \in [Bases -> Candidates]
  /\ retry \in Nat \cup {None} /\ timer \in Nat /\ due \subseteq Bases /\ lag \in Nat
  /\ next \in 1 .. N + 1

TypeOK == SystemOK /\ SchedulerOK

(* No change is missed: when the scheduler sleeps with nothing in its       *)
(* channels and no retry ahead, every entry rests on the status and the     *)
(* interval of now, the coalesced notifications notwithstanding.  The       *)
(* exceptions are a change not yet published and a status a failed settings *)
(* change restored.                                                         *)
Rests(b) ==
  LET e == entries[b] IN
  IF config[b] = 0 THEN e.kind = "none"
  ELSE /\ e.interval = config[b]
       /\ IF gitScheduleBlocked(status[b]) THEN e.kind = "blocked"
          ELSE e.kind = "open" /\ e.attempt = status[b].attempt

NoMissedChange ==
  pc = "wait" /\ ~statusChanged /\ ~configChanged /\ retry = None /\ ~unsent /\ ~silent =>
    \A b \in Bases : Rests(b) \/ (co.holder = "settings" /\ co.base = b)

(* The interval counts from the last attempt: the scheduler does not submit *)
(* a base of whose last attempt it knows before the interval has passed.    *)
IntervalKept ==
  [][\A b \in Bases :
       /\ pc = "submit" /\ b \in due /\ b \notin due' /\ b \in queued' \ queued
       /\ status[b].attempt # Never /\ entries[b].attempt = status[b].attempt
       => status[b].age >= entries[b].interval]_vars

(* The scheduler never forgets a base: one that is idle past its interval   *)
(* is submitted at last, or changes, or a directory is missing.             *)
Overdue(b) == config[b] # 0 /\ status[b].state = "idle" /\ status[b].age >= config[b]

OverdueIsTried ==
  \A b \in Bases : Overdue(b) ~> ~Overdue(b) \/ reachable # Bases \/ closed

(* Close ends the scheduler, whatever it waits for. *)
SchedulerStops == closed ~> pc = "done"
=============================================================================
