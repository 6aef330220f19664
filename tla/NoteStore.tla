------------------------------ MODULE NoteStore ------------------------------
(***************************************************************************)
(* The note service: the directory of the open base, pinned by a           *)
(* descriptor, and the table notes, an index of its files.  Every          *)
(* operation holds baseMu, so that it is one step, but it touches the disk *)
(* and the index one after the other, and the second may fail.  Other      *)
(* programs change the files at any time.                                  *)
(*                                                                         *)
(* An id is a path of one or two names, the second from Inner.  An entry   *)
(* is a directory or the content of a note, which stands for its revision  *)
(* too.  Hidden directories, assets and files of other kinds are not        *)
(* scanned and left out.                                                   *)
(***************************************************************************)
EXTENDS Naturals, Sequences

CONSTANTS Paths,       \* canonical paths of base directories
          FileNames,   \* names of notes and directories
          Inner,       \* those used inside of a directory
          Contents,    \* contents of notes
          MaxEdits,    \* bound: operations on notes and changes by other programs
          MaxFaults,   \* bound: failed writes of SQLite and config.json, failed scans
          MaxChanges,  \* bound: settings and Git operations
          MaxStops,    \* bound: crashes, and base directories removed
          MaxEvents    \* bound: edits and stops together

ASSUME StoreAssumption ==
  /\ Inner \subseteq FileNames /\ Paths # {} /\ Contents # {} /\ "dir" \notin Contents /\ "absent" \notin Contents
  /\ MaxEdits \in Nat /\ MaxFaults \in Nat /\ MaxChanges \in Nat /\ MaxStops \in Nat /\ MaxEvents \in Nat

VARIABLES
  present,  \* paths that are directories
  disk,     \* the files of every path
  index,    \* table notes: the ids of its rows
  root,     \* s.baseRoot, s.basePath: the pinned directory
  open,     \* s.baseErr: none, failed closed, or the process is down
  synced,   \* initialSyncDone and initialSyncErr
  gate,     \* the conflict snapshot of the coordinator
  drift,    \* the index may lag behind: see TreeIsDisk
  spent     \* how much of every bound is used

files  == <<present, disk>>
store  == <<index, root, open, synced, drift>>

Ids == {<<n>> : n \in FileNames} \cup (FileNames \X Inner)
Below(id) == {i \in Ids : i = id \/ (Len(i) > Len(id) /\ i[1] = id[1])}
Above(id) == IF Len(id) = 2 THEN {<<id[1]>>} ELSE {}
Entries == {"absent", "dir"} \cup Contents
Empty == [id \in Ids |-> "absent"]
Scan(p) == {id \in Ids : disk[p][id] # "absent"}

\* A descriptor is dead once its directory has been removed.
Roots == [path : Paths, live : BOOLEAN]

\* An edit or a stop more fits the bound on their sum.
Room  == spent.edits + spent.stops < MaxEvents
Edit  == spent.edits < MaxEdits /\ Room /\ spent' = [spent EXCEPT !.edits = @ + 1]
Fault == spent.faults < MaxFaults /\ spent' = [spent EXCEPT !.faults = @ + 1]
\* An operation on a note one of whose writes fails.
FaultyEdit == /\ spent.edits < MaxEdits /\ spent.faults < MaxFaults /\ Room
              /\ spent' = [spent EXCEPT !.edits = @ + 1, !.faults = @ + 1]

Open == open = "ok"
Locked(p) == gate[p] # "none"
Readable == Open /\ synced = "done"

-----------------------------------------------------------------------------
(* replaceIndexLocked: BeginReplaceAll, then commit, whose outcome is       *)
(* unknown when it fails.                                                   *)

failClosed(outcomes) ==
  /\ open' = "failed" /\ index' \in outcomes
  /\ synced' = IF synced = "pending" THEN "done" ELSE synced
  /\ UNCHANGED <<root, drift>>

\* The index of the entries the directory has after the step.
Reindexed(scan) == /\ index' = scan /\ synced' = "done" /\ drift' = FALSE
                   /\ UNCHANGED <<root, open>>

NotReindexed == drift' = TRUE /\ UNCHANGED <<index, root, open, synced>>

ScanOf(entries) == {id \in Ids : entries[id] # "absent"}

replaceIndex(entries) ==
  \/ Reindexed(ScanOf(entries)) /\ Edit
  \/ FaultyEdit /\ NotReindexed
  \/ FaultyEdit /\ failClosed({index, ScanOf(entries)})

-----------------------------------------------------------------------------
(* Note operations of a base that is open, not gated and still there. *)

Mutable == Open /\ root.live /\ ~Locked(root.path)
Files == disk[root.path]
Write(entries) == disk' = [disk EXCEPT ![root.path] = entries] /\ UNCHANGED present

\* ensureRootDir makes the missing parents, which get no row.
Put(entries, id, entry) ==
  [i \in Ids |-> IF i = id THEN entry ELSE IF i \in Above(id) THEN "dir" ELSE entries[i]]
ParentIsFile(id) == \E a \in Above(id) : Files[a] \in Contents
Orphan(id) == \E a \in Above(id) : Files[a] = "absent"

CreateNode(id, entry) ==
  /\ Mutable /\ Files[id] = "absent" /\ ~ParentIsFile(id)
  /\ Write(Put(Files, id, entry))
  /\ \/ index' = index \cup {id} /\ drift' = (drift \/ Orphan(id)) /\ Edit
     \/ UNCHANGED index /\ drift' = TRUE /\ FaultyEdit
  /\ UNCHANGED <<root, open, synced, gate>>

\* SaveNote: with the revision it was read at, or, by old clients, without.
SaveNote(id, content) ==
  /\ Mutable /\ Files[id] # "dir" /\ ~ParentIsFile(id)
  /\ Write(Put(Files, id, content)) /\ Edit
  /\ drift' = (drift \/ Files[id] = "absent")
  /\ UNCHANGED <<index, root, open, synced, gate>>

\* Variant: DELETE without the rows below the id.
RowOnly(id) == {id}

RowsOf(id) == Below(id)

DeleteNode(id) ==
  /\ Mutable
  /\ Write([i \in Ids |-> IF i \in Below(id) THEN "absent" ELSE Files[i]])
  /\ \/ index' = index \ RowsOf(id) /\ UNCHANGED drift /\ Edit
     \/ UNCHANGED index /\ drift' = TRUE /\ FaultyEdit
  /\ UNCHANGED <<root, open, synced, gate>>

\* The id under which an entry below `from` is found after the renaming.
Moved(from, name, i) == [i EXCEPT ![Len(from)] = name]
Source(from, name, i) == [i EXCEPT ![Len(from)] = from[Len(from)]]

RenameNode(id, name) ==
  LET to == Moved(id, name, id)
      renamed == [i \in Ids |-> IF i \in Below(id) THEN "absent"
                                ELSE IF i \in Below(to) THEN Files[Source(id, name, i)]
                                ELSE Files[i]] IN
  /\ Mutable /\ to \in Ids /\ Files[id] # "absent" /\ Files[to] = "absent"
  /\ Write(renamed) /\ replaceIndex(renamed)
  /\ UNCHANGED gate

(* POST /api/sync, and the first scan of a process. *)
SyncFS ==
  /\ Open
  /\ LET scan == IF root.live THEN Scan(root.path) ELSE {} IN
     \/ Reindexed(scan) /\ IF synced = "pending" THEN UNCHANGED spent ELSE Edit
     \/ /\ Fault
        /\ synced' = IF synced = "pending" THEN "error" ELSE synced
        /\ UNCHANGED <<index, root, open, drift>>
     \/ Fault /\ failClosed({index, scan})
  /\ UNCHANGED <<files, gate>>

(* MutateActiveFilesystem, for the jobs of the Git manager: it bypasses the *)
(* gate, reindexes whatever its callback did, and closes the base when that *)
(* fails.                                                                   *)
MutateActiveFilesystem(id, entry) ==
  /\ Open /\ root.live /\ ~ParentIsFile(id)
  /\ LET merged == Put([i \in Ids |-> IF i \in Below(id) THEN "absent" ELSE Files[i]], id, entry) IN
     /\ Write(merged)
     /\ \/ Reindexed(ScanOf(merged)) /\ Edit
        \/ FaultyEdit /\ failClosed({index, ScanOf(merged)})
  /\ UNCHANGED gate

-----------------------------------------------------------------------------
(* Other programs. *)

EditOutside(p, id, entry) ==
  /\ p \in present /\ disk[p][id] # entry /\ Edit
  /\ disk' = [disk EXCEPT ![p] =
       IF entry = "absent" THEN [i \in Ids |-> IF i \in Below(id) THEN "absent" ELSE @[i]]
       ELSE Put(@, id, entry)]
  /\ drift' = (drift \/ (p = root.path /\ root.live))
  /\ UNCHANGED <<present, index, root, open, synced, gate>>

-----------------------------------------------------------------------------
(* The tree that is served has the notes of the open base, through          *)
(* creations, deletions and renamings, merges, base switches and restarts.  *)
(* It may lag behind, until the next scan, after other programs changed the *)
(* files, after a write of the index failed, and when a note was saved or   *)
(* created below a folder that was gone.                                    *)
TreeIsDisk == Readable /\ root.live /\ ~drift => index = Scan(root.path)
=============================================================================
