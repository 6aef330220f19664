----------------------------- MODULE BaseSettings -----------------------------
(***************************************************************************)
(* The settings service over the note store: config.json and the Git       *)
(* statuses of SQLite have to tell the same bases, and the open directory   *)
(* has to be the one of the current base, whatever write fails and         *)
(* whenever the process stops.                                              *)
(*                                                                         *)
(* An operation holds the coordinator and the settings' lock from its      *)
(* first check to its last write.  It writes the Git statuses one by one,   *)
(* then config.json, or, to switch the base, config.json inside a           *)
(* transaction of the index, and takes the statuses back when that fails.   *)
(* Of a base the Git fields are one flag, of a status the state.            *)
(***************************************************************************)
EXTENDS NoteStore, FiniteSets, Functions

CONSTANTS Names,    \* names of bases
          NoRow     \* a path without a Git status

ASSUME SettingsAssumption ==
  /\ Names # {} /\ IsFiniteSet(Names)
  /\ NoRow \notin [base : Names, state : {"needs_reconnect", "ready", "conflict"}]

VARIABLES
  config,    \* s.config
  stored,    \* config.json
  rows,      \* table git_status
  degraded,  \* s.degraded
  phase,     \* the process is up or down
  flagged,   \* it was started with --base, and no settings were saved since
  torn,      \* an operation was cut by a crash, or left the settings degraded
  op         \* the settings operation that holds the coordinator

settings == <<config, stored, rows, degraded, phase, flagged, torn, op>>
vars == <<files, store, gate, spent, settings>>

Bases   == [path : Paths, git : BOOLEAN]
Configs == [bases : UNION {[N -> Bases] : N \in (SUBSET Names) \ {{}}},
            current : Names, setup : BOOLEAN]
States  == {"needs_reconnect", "ready", "conflict"}
Rows    == [base : Names, state : States]

Connected(bases) == {n \in DOMAIN bases : bases[n].git}
PathsOf(bases)   == {bases[n].path : n \in DOMAIN bases}
CurrentPath(c)   == c.bases[c.current].path
needsReconnect(name) == [base |-> name, state |-> "needs_reconnect"]

\* validateUniqueGitRepositoryPaths
UniqueRepositories(bases) ==
  /\ \A n \in Connected(bases) : bases[n].path \in present
  /\ \A m, n \in Connected(bases) : bases[m].path = bases[n].path => m = n

-----------------------------------------------------------------------------
(* existingGitStatusPath: the row of a base is found by its name, and two   *)
(* of one name are refused.                                                 *)

Named(name)     == {p \in Paths : rows[p] # NoRow /\ rows[p].base = name}
Ambiguous(name) == Cardinality(Named(name)) > 1
Owned(name)     == Named(name) # {}
StatusPath(name) == IF Owned(name) THEN CHOOSE p \in Named(name) : TRUE
                    ELSE config.bases[name].path

NoChanges == [p \in {} |-> NoRow]

\* Base `old` becomes base `new` at a path: its row moves, or is renamed.
StatusChanges(old, new, path, git) ==
  LET from == StatusPath(old) IN
  IF old = new /\ path = config.bases[old].path THEN NoChanges
  ELSE IF from = path
  THEN IF Owned(old) /\ old # new THEN [p \in {path} |-> [rows[p] EXCEPT !.base = new]]
       ELSE NoChanges
  ELSE [p \in (IF Owned(old) THEN {from} ELSE {}) \cup (IF git THEN {path} ELSE {}) |->
          IF git /\ p = path THEN needsReconnect(new) ELSE NoRow]

\* The row of a base that is gone.
Removed(name) == [p \in Named(name) |-> NoRow]

\* captureConflictReconciliationSnapshot: the paths whose conflict no base of
\* `next` keeps.  A retained path that cannot be resolved keeps them all, unless
\* a status that changes names it.
Identified(changes) ==
  {p \in DOMAIN changes : /\ rows[p] # NoRow /\ rows[p].base \in Connected(config.bases)
                          /\ config.bases[rows[p].base].path = p}
\* Variant: the conflict of every old path is forgotten.
AllCleared(next, changes) == {p \in PathsOf(config.bases) : gate[p] = "live"}

Cleared(next, changes) ==
  LET stable == present \cup Identified(changes)
      kept == PathsOf(next.bases) IN
  IF kept \subseteq stable
  THEN {p \in (PathsOf(config.bases) \cap stable) \ kept : p \in present /\ gate[p] = "live"}
  ELSE {}

-----------------------------------------------------------------------------
(* An operation, from its checks to its last write. *)

Idle == [pc |-> "free"]
Free == op.pc = "free"
Up == phase = "up"
\* baseMu is held inside the transaction of a base switch.
BaseMuFree == op.pc \notin {"save", "commit"}

Change == spent.changes < MaxChanges /\ spent' = [spent EXCEPT !.changes = @ + 1]

\* An operation whose checks passed: the configuration and the rows it asks for,
\* and whether it may open another base.
Start(next, changes, switches) ==
  /\ op' = [pc |-> "statuses", next |-> next, after |-> changes,
            before |-> [p \in DOMAIN changes |-> rows[p]], todo |-> DOMAIN changes,
            switches |-> switches, clear |-> Cleared(next, changes)]
  /\ Change

Begin == Up /\ Free /\ ~degraded
         /\ UNCHANGED <<store, gate, config, stored, rows, degraded, phase, flagged, torn>>

\* The directory of a new base exists, or is created.
BaseDirectory(p, create) ==
  IF create THEN p \notin present /\ present' = present \cup {p} /\ UNCHANGED disk
  ELSE p \in present /\ UNCHANGED files

CompleteSetup(n, p, create) ==
  /\ Begin /\ ~config.setup /\ BaseDirectory(p, create)
  /\ Start([bases |-> [m \in {n} |-> [path |-> p, git |-> FALSE]], current |-> n,
            setup |-> TRUE], NoChanges, TRUE)

AddBase(n, p, create) ==
  /\ Begin /\ n \notin DOMAIN config.bases /\ BaseDirectory(p, create)
  /\ Start([config EXCEPT !.bases = [m \in DOMAIN @ \cup {n} |->
              IF m = n THEN [path |-> p, git |-> FALSE] ELSE @[m]]], NoChanges, FALSE)

UpdateBase(old, new, p) ==
  /\ Begin /\ old \in DOMAIN config.bases /\ p \in present
  /\ new \notin DOMAIN config.bases \ {old}
  /\ LET git == config.bases[old].git
         bases == [m \in (DOMAIN config.bases \ {old}) \cup {new} |->
                     IF m = new THEN [path |-> p, git |-> git] ELSE config.bases[m]] IN
     /\ git => UniqueRepositories(bases)
     /\ ~Ambiguous(old) \/ (old = new /\ p = config.bases[old].path)
     /\ Start([config EXCEPT !.bases = bases,
                             !.current = IF @ = old THEN new ELSE @],
              StatusChanges(old, new, p, git), config.current = old)
  /\ UNCHANGED files

ForgetBase(n) ==
  /\ Begin /\ n \in DOMAIN config.bases \ {config.current} /\ ~Ambiguous(n)
  /\ Start([config EXCEPT !.bases = [m \in DOMAIN @ \ {n} |-> @[m]]], Removed(n), FALSE)
  /\ UNCHANGED files

SwitchBase(n) ==
  /\ Begin /\ n \in DOMAIN config.bases
  /\ Start([config EXCEPT !.current = n], NoChanges, TRUE)
  /\ UNCHANGED files

ConfigureGit(n) ==
  /\ Begin /\ config.setup /\ n \in DOMAIN config.bases
  /\ LET p == config.bases[n].path
         next == [config EXCEPT !.bases[n].git = TRUE] IN
     /\ p \in present /\ ~Locked(p) /\ UniqueRepositories(next.bases)
     /\ Start(next, [q \in {p} |-> needsReconnect(n)], FALSE)
  /\ UNCHANGED files

DisableGit(n) ==
  /\ Begin /\ config.setup /\ n \in DOMAIN config.bases /\ ~Ambiguous(n)
  /\ config.bases[n].path \in present => ~Locked(config.bases[n].path)
  /\ ~Locked(StatusPath(n))
  /\ Start([config EXCEPT !.bases[n].git = FALSE], Removed(n), FALSE)
  /\ UNCHANGED files

-----------------------------------------------------------------------------
(* PUT /api/config: a base of the new configuration is the old one of its   *)
(* name, or else the one old base left at its path.                         *)

Unmatched == -1
matchReplaceConfigBases(bases) ==
  LET old == DOMAIN config.bases
      at(m) == {k \in old \ DOMAIN bases : config.bases[k].path = bases[m].path}
      candidate(m) == m \notin old /\ Cardinality(at(m)) = 1
      claims(k) == {m \in DOMAIN bases : candidate(m) /\ k \in at(m)} IN
  [m \in DOMAIN bases |->
     IF m \in old THEN {m}
     ELSE IF candidate(m) THEN {k \in at(m) : claims(k) = {m}} ELSE {}]

\* The old paths are resolved only for a new name.
PathsResolve(bases) ==
  DOMAIN bases \subseteq DOMAIN config.bases
  \/ \A k \in DOMAIN config.bases \ DOMAIN bases : config.bases[k].path \in present

\* A row that a matched base writes wins over one that a removed base deletes.
ReplaceChanges(bases, match) ==
  LET kept == {m \in DOMAIN bases : match[m] # {}}
      of(m) == StatusChanges(CHOOSE k \in match[m] : TRUE, m, bases[m].path, bases[m].git)
      gone == DOMAIN config.bases \ UNION {match[m] : m \in kept}
      writers(p) == {m \in kept : p \in DOMAIN of(m) /\ of(m)[p] # NoRow}
      touched == (UNION {DOMAIN of(m) : m \in kept}) \cup UNION {Named(k) : k \in gone} IN
  [p \in touched |-> IF writers(p) = {} THEN NoRow
                     ELSE LET m == CHOOSE m \in writers(p) : TRUE IN of(m)[p]]

ReplaceConfig(next) ==
  /\ Begin /\ next.current \in DOMAIN next.bases /\ (config.setup => next.setup)
  /\ PathsOf(next.bases) \subseteq present /\ PathsResolve(next.bases)
  /\ LET match == matchReplaceConfigBases(next.bases) IN
     /\ \A m \in DOMAIN next.bases :
          next.bases[m].git = \E k \in match[m] : config.bases[k].git
     /\ UniqueRepositories(next.bases)
     /\ \A k \in DOMAIN config.bases : ~Ambiguous(k)
     /\ Start(next, ReplaceChanges(next.bases, match), TRUE)
  /\ UNCHANGED files

-----------------------------------------------------------------------------
(* The writes of the operation. *)

Goto(label) == op' = [op EXCEPT !.pc = label]
\* Variant: only the rows still to be written are taken back.
RestoreUnwritten == op' = [op EXCEPT !.pc = "restore"]

Restore == op' = [op EXCEPT !.pc = "restore", !.todo = DOMAIN op.after]

writeGitStatusChange(p) ==
  /\ op.pc = "statuses" /\ p \in op.todo
  /\ \/ rows' = [rows EXCEPT ![p] = op.after[p]] /\ UNCHANGED spent
        /\ op' = [op EXCEPT !.todo = @ \ {p}]
     \/ Fault /\ Restore /\ UNCHANGED rows
  /\ UNCHANGED <<files, store, gate, config, stored, degraded, phase, flagged, torn>>

Publish(next) ==
  /\ config' = next /\ stored' = next /\ flagged' = FALSE /\ op' = Idle
  /\ gate' = [p \in Paths |-> IF p \in op.clear THEN "none" ELSE gate[p]]

\* Variant: the new configuration is saved whatever directory is open.
AnyDirectory == op.next.current \in DOMAIN op.next.bases

\* baseIdentityLocked: the directory at the path is the one that is open.
OpenDirectory == root.live /\ root.path = CurrentPath(op.next)

persistConfig ==
  LET target == CurrentPath(op.next) IN
  /\ op.pc = "statuses" /\ op.todo = {}
  /\ IF ~Open \/ target \notin present THEN Restore /\ UNCHANGED <<config, stored, flagged, gate, spent>>
     ELSE IF OpenDirectory
     THEN \/ Publish(op.next) /\ UNCHANGED spent
          \/ Fault /\ Restore /\ UNCHANGED <<config, stored, flagged, gate>>
     ELSE /\ IF op.switches THEN Goto("prepare") ELSE Restore
          /\ UNCHANGED <<config, stored, flagged, gate, spent>>
  /\ UNCHANGED <<files, store, rows, degraded, phase, torn>>

\* A write of the index or of the settings fails, and the base with it: the
\* settings stay degraded until a restart.
Degrade(outcomes) == failClosed(outcomes) /\ degraded' = TRUE /\ Restore

\* Variant: a base that failed closed since persistConfig is switched.
Switched == op.pc = "prepare"

\* switchBaseTransaction looks at baseErr again: baseMu was free.
Switchable == Open

prepareBaseSwitch ==
  LET target == CurrentPath(op.next) IN
  /\ op.pc = "prepare"
  /\ \/ /\ Switchable /\ target \in present /\ UNCHANGED <<store, degraded, spent>>
        /\ op' = [pc |-> "save", next |-> op.next, after |-> op.after, before |-> op.before,
                  todo |-> {}, clear |-> op.clear, scan |-> Scan(target), live |-> TRUE,
                  edited |-> FALSE]
     \/ /\ IF Switchable /\ target \in present THEN Fault ELSE UNCHANGED spent
        /\ Restore /\ UNCHANGED <<store, degraded>>
     \/ Switchable /\ target \in present /\ Fault /\ Degrade({index})
  /\ UNCHANGED <<files, gate, config, stored, rows, phase, flagged, torn>>

saveConfig ==
  /\ op.pc = "save"
  /\ \/ stored' = op.next /\ Goto("commit") /\ UNCHANGED <<store, degraded, spent>>
     \/ Fault /\ Restore /\ UNCHANGED <<store, stored, degraded>>
     \/ Fault /\ Degrade({index}) /\ UNCHANGED stored
  /\ UNCHANGED <<files, gate, config, rows, phase, flagged, torn>>

commitBaseSwitch ==
  /\ op.pc = "commit"
  /\ \/ /\ index' = op.scan /\ root' = [path |-> CurrentPath(op.next), live |-> op.live]
        /\ open' = "ok" /\ synced' = "done" /\ drift' = op.edited
        /\ Publish(op.next) /\ UNCHANGED <<degraded, spent>>
     \/ /\ Fault /\ Degrade({index, op.scan})
        /\ stored' \in {op.next, config}
        /\ UNCHANGED <<config, flagged, gate>>
  /\ UNCHANGED <<files, rows, phase, torn>>

restoreGitStatus(p) ==
  /\ op.pc = "restore" /\ p \in op.todo
  /\ op' = [op EXCEPT !.todo = @ \ {p}]
  /\ \/ rows' = [rows EXCEPT ![p] = op.before[p]] /\ UNCHANGED <<degraded, spent>>
     \/ Fault /\ degraded' = TRUE /\ UNCHANGED rows
  /\ UNCHANGED <<files, store, gate, config, stored, phase, flagged, torn>>

Fail == /\ op.pc = "restore" /\ op.todo = {} /\ op' = Idle
        /\ UNCHANGED <<files, store, gate, spent, config, stored, rows, degraded, phase,
                       flagged, torn>>

-----------------------------------------------------------------------------
(* The Git manager, whose jobs hold the coordinator too. *)

Job == Up /\ Free /\ Change
       /\ UNCHANGED <<files, store, config, stored, degraded, phase, flagged, torn, op>>

GitConflict(n) ==
  LET p == config.bases[n].path IN
  /\ Job /\ config.setup /\ config.bases[n].git /\ p \in present
  /\ rows' = [rows EXCEPT ![p] = [base |-> n, state |-> "conflict"]]
  /\ gate' = [gate EXCEPT ![p] = "live"]

GitSettled(n) ==
  LET p == config.bases[n].path IN
  /\ Job /\ config.bases[n].git /\ p \in present /\ Locked(p)
  /\ rows' = [rows EXCEPT ![p] = [base |-> n, state |-> "ready"]]
  /\ gate' = [gate EXCEPT ![p] = "none"]

-----------------------------------------------------------------------------
(* The process and the other programs. *)

Stop == spent.stops < MaxStops /\ Room /\ spent' = [spent EXCEPT !.stops = @ + 1]

Crash ==
  /\ Up /\ Stop /\ phase' = "down" /\ op' = Idle /\ config' = stored
  /\ torn' = (torn \/ ~Free \/ degraded) /\ degraded' = FALSE /\ flagged' = FALSE
  /\ open' = "down" /\ synced' = "pending" /\ drift' = FALSE
  /\ gate' = [p \in Paths |-> "none"]
  /\ UNCHANGED <<files, index, root, stored, rows>>

\* main, with the base of --base or config.json: the manager locks the bases
\* whose status is a conflict before HTTP is served.
Boot(n) ==
  /\ phase = "down" /\ n \in DOMAIN stored.bases /\ stored.bases[n].path \in present
  /\ \A m \in Connected(stored.bases) : stored.bases[m].path \in present
  /\ phase' = "up" /\ config' = [stored EXCEPT !.current = n]
  /\ flagged' = (n # stored.current)
  /\ root' = [path |-> stored.bases[n].path, live |-> TRUE] /\ open' = "ok"
  /\ gate' = [p \in Paths |->
       IF rows[p] # NoRow /\ rows[p].state = "conflict"
          /\ \E m \in Connected(stored.bases) : stored.bases[m].path = p
       THEN "live" ELSE "none"]
  /\ UNCHANGED <<files, index, synced, drift, spent, stored, rows, degraded, torn, op>>

MakeDirectory(p) ==
  /\ p \notin present /\ present' = present \cup {p}
  /\ UNCHANGED <<disk, store, gate, spent, settings>>

RemoveDirectory(p) ==
  /\ p \in present /\ Stop
  /\ present' = present \ {p} /\ disk' = [disk EXCEPT ![p] = Empty]
  /\ root' = [root EXCEPT !.live = @ /\ root.path # p]
  /\ gate' = [gate EXCEPT ![p] = IF @ = "live" THEN "dead" ELSE @]
  /\ IF op.pc \in {"save", "commit"} /\ CurrentPath(op.next) = p
     THEN op' = [op EXCEPT !.live = FALSE] ELSE UNCHANGED op
  /\ UNCHANGED <<index, open, synced, drift, config, stored, rows, degraded, phase, flagged, torn>>

Elsewhere(p, id, entry) ==
  /\ EditOutside(p, id, entry)
  /\ IF op.pc \in {"save", "commit"} /\ CurrentPath(op.next) = p
     THEN op' = [op EXCEPT !.edited = TRUE] ELSE UNCHANGED op
  /\ UNCHANGED <<config, stored, rows, degraded, phase, flagged, torn>>

Notes ==
  /\ Up /\ BaseMuFree
  /\ \/ \E id \in Ids, entry \in {"dir"} \cup Contents : CreateNode(id, entry)
     \/ \E id \in Ids, content \in Contents : SaveNote(id, content)
     \/ \E id \in Ids : DeleteNode(id)
     \/ \E id \in Ids, name \in FileNames : RenameNode(id, name)
     \/ SyncFS
     \/ Free /\ \E id \in Ids, entry \in Entries : MutateActiveFilesystem(id, entry)
  /\ UNCHANGED settings

Settings ==
  \/ \E n \in Names, p \in Paths, create \in BOOLEAN :
       CompleteSetup(n, p, create) \/ AddBase(n, p, create)
  \/ \E m, n \in Names, p \in Paths : UpdateBase(m, n, p)
  \/ \E n \in Names : ForgetBase(n) \/ SwitchBase(n) \/ ConfigureGit(n) \/ DisableGit(n)
  \/ \E next \in Configs : ReplaceConfig(next)

Writes ==
  \/ \E p \in Paths : writeGitStatusChange(p) \/ restoreGitStatus(p)
  \/ persistConfig \/ prepareBaseSwitch \/ saveConfig \/ commitBaseSwitch \/ Fail

Others ==
  \/ \E n \in DOMAIN config.bases : GitConflict(n) \/ GitSettled(n)
  \/ Crash
  \/ \E n \in Names : Boot(n)
  \/ \E p \in Paths : MakeDirectory(p) \/ RemoveDirectory(p)
  \/ \E p \in Paths, id \in Ids, entry \in Entries : Elsewhere(p, id, entry)

Next == Notes \/ Settings \/ Writes \/ Others

\* A directory with a note in it.
Folder == LET name == CHOOSE n \in FileNames : TRUE IN
  [id \in Ids |-> IF id = <<name>> THEN "dir"
                  ELSE IF id[1] = name THEN CHOOSE c \in Contents : TRUE ELSE "absent"]

\* An installation whose setup is done or not, before the process starts.
Init ==
  /\ present = Paths
  /\ \E p \in Paths : disk = [q \in Paths |-> IF q = p THEN Folder ELSE Empty]
  /\ index = {} /\ open = "down" /\ synced = "pending" /\ drift = FALSE
  /\ gate = [p \in Paths |-> "none"]
  /\ stored \in {c \in Configs : /\ c.current \in DOMAIN c.bases /\ UniqueRepositories(c.bases)
                                 /\ (~c.setup => Connected(c.bases) = {}
                                                 /\ Cardinality(DOMAIN c.bases) = 1)}
  /\ config = stored /\ root = [path |-> CurrentPath(stored), live |-> TRUE]
  /\ \E state \in [Names -> {"ready", "conflict"}] :
       rows = [p \in Paths |->
         IF \E n \in Connected(stored.bases) : stored.bases[n].path = p
         THEN LET n == CHOOSE n \in Connected(stored.bases) : stored.bases[n].path = p
              IN [base |-> n, state |-> state[n]]
         ELSE NoRow]
  /\ degraded = FALSE /\ phase = "down" /\ flagged = FALSE /\ torn = FALSE /\ op = Idle
  /\ spent = [edits |-> 0, faults |-> 0, changes |-> 0, stops |-> 0]

Spec == Init /\ [][Next]_vars

-----------------------------------------------------------------------------
\* GET /api/git/status: what it says of a base.
statusForBase(n) ==
  LET base == config.bases[n] IN
  IF ~base.git THEN "unconfigured"
  ELSE IF rows[base.path] = NoRow THEN "needs_reconnect" ELSE rows[base.path].state

Settled == Up /\ Free /\ ~degraded

(* Between two operations the open directory is the one config.json gives   *)
(* the current base, and memory and config.json agree, but for the base     *)
(* --base chose: through switches, updates of the open base, failed writes, *)
(* restarts, and directories removed and made again.                        *)
RuntimeMatchesConfig ==
  Settled /\ Open => /\ CurrentPath(config) = root.path
                     /\ stored = config \/ (flagged /\ stored = [config EXCEPT !.current = stored.current])

(* The Git statuses are those of the configured bases, one for each, under  *)
(* its name and path: bases are renamed, moved, swapped and forgotten, and  *)
(* an operation that fails takes its rows back.  A crash in between, or a    *)
(* restoring write that fails, may leave rows that differ.                  *)
StatusesMatchConfig ==
  Settled /\ ~torn =>
    \A p \in Paths, n \in Names :
      (rows[p] # NoRow /\ rows[p].base = n)
      <=> (n \in Connected(config.bases) /\ config.bases[n].path = p)

(* A base that is shown in conflict is locked for notes: no rename, no      *)
(* replaced configuration, no failed write, no restart and no directory     *)
(* removed and made again opens it.  A crash between two writes, or a       *)
(* restoring write that fails, may leave the row of a conflict at a path    *)
(* where no base has it; a base that is moved there later shows it and is   *)
(* not locked.                                                              *)
ConflictLocksNotes ==
  Settled /\ ~torn => \A n \in DOMAIN config.bases :
    statusForBase(n) = "conflict" => Locked(config.bases[n].path)

(* A base that failed closed, its index in doubt, stays closed and keeps    *)
(* its index until the process restarts: no sync, no switch opens it.       *)
ClosedStaysClosed ==
  [][open = "failed" /\ phase' = "up" => open' = "failed" /\ index' = index]_vars
=============================================================================
