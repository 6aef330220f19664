-------------------------- MODULE ConflictResolution --------------------------
(***************************************************************************)
(* The resolution of one conflict of an unfinished merge: from what the    *)
(* user chose, ResolveConflict makes a plan of files to write and to        *)
(* remove, carries it out file by file in the base, and stages it with one  *)
(* git add.  Any step may fail, and the process may stop between two of     *)
(* them; then the user asks again.  Other programs write files and use git  *)
(* on the base at any time.                                                 *)
(*                                                                         *)
(* A path stands for a regular file or a link, a content for its bytes and  *)
(* its mode.  Directories, unsafe paths and conflicts that Git reports in    *)
(* an ambiguous way are refused and left out.                               *)
(***************************************************************************)
EXTENDS Naturals, FiniteSets

CONSTANTS Paths,      \* paths of the repository
          NoPath,     \* a conflict without an original path
          MaxEdits,   \* bound: changes by other programs
          MaxFaults   \* bound: failed steps and crashes

ASSUME ResolutionAssumption ==
  /\ NoPath \notin Paths /\ MaxEdits \in Nat /\ MaxFaults \in Nat

VARIABLES
  tree,       \* the files of the base
  unmerged,   \* index: the conflicts, by their path
  tracked,    \* index: the entries of stage zero
  op,         \* the resolution that runs
  begun,      \* the last request that began to write
  disturbed,  \* paths other programs changed since then
  spent       \* how much of every bound is used

vars == <<tree, unmerged, tracked, op, begun, disturbed, spent>>

Written  == {"local", "remote", "manual"}
Contents == Written \cup {"markers", "foreign", "note", "torn"}
Entries  == Contents \cup {"absent"}
Sides    == {"local", "remote"}

\* buildConflicts: `sides` are the versions that exist.
Conflicts == [kind : {"content", "add_add", "modify_delete", "rename_delete"},
              sides : (SUBSET Sides) \ {{}}, text : BOOLEAN, original : Paths \cup {NoPath}]

resolutionSources(p, c) == {p} \cup ({c.original} \ {NoPath})
Unresolved == DOMAIN unmerged

-----------------------------------------------------------------------------
(* The plan. *)

\* conflictActions, with the output paths the user gives.
At(content) == {[q \in {p} |-> content] : p \in Paths}
KeepBoth == UNION {{[q \in {p, o} |-> IF q = p THEN "local" ELSE "remote"] : o \in Paths \ {p}} : p \in Paths}
Delete == {[q \in {} |-> "absent"]}
Offered(c) ==
  (UNION {At(side) : side \in c.sides})
  \cup (IF c.text THEN At("manual") ELSE {})
  \cup (IF c.kind = "add_add" \/ (c.kind = "content" /\ ~c.text) THEN KeepBoth ELSE {})
  \cup (IF c.kind \in {"modify_delete", "rename_delete"} THEN Delete ELSE {})

Requests == UNION {[path : {p}, conflict : {unmerged[p]}, writes : Offered(unmerged[p])] : p \in Unresolved}
Sources(r) == resolutionSources(r.path, r.conflict)
Outputs(r) == DOMAIN r.writes
RemovePaths(r) == Sources(r) \ Outputs(r)

\* Variant: only the outputs are staged.
OutputsOnly(r) == Outputs(r)

\* The removed path of a rename is not in the index: git add would refuse it.
StagePaths(r) == Outputs(r) \cup (RemovePaths(r) \ {r.conflict.original})

\* Variant: outputs may be the sources of another conflict.
AnyPath(r) == Outputs(r) \subseteq Paths

\* rejectResolutionCollision
Apart(r) == \A p \in Unresolved \ {r.path} :
  resolutionSources(p, unmerged[p]) \cap (Sources(r) \cup Outputs(r)) = {}

Current(r) == r.path \in Unresolved /\ unmerged[r.path] = r.conflict

\* Variant: an output that exists is refused, whatever it holds.
OnlyAbsent(r, q) == tree[q] = "absent"

\* verifyResolutionDestinations: an output is a source, or untracked, and then
\* absent or already what the plan writes.
SafeOutput(r, q) == tree[q] \in {"absent", r.writes[q]}
Verified(r) == \A q \in Outputs(r) \ Sources(r) : tracked[q] = "absent" /\ SafeOutput(r, q)

-----------------------------------------------------------------------------
Idle == [pc |-> "idle", todo |-> {}]
Fault == spent.faults < MaxFaults /\ spent' = [spent EXCEPT !.faults = @ + 1]
Edit  == spent.edits < MaxEdits /\ spent' = [spent EXCEPT !.edits = @ + 1]

Done(q) == op' = [op EXCEPT !.todo = @ \ {q}]
Refuse  == op' = Idle
Then(pc, todo) == op' = [op EXCEPT !.pc = pc, !.todo = todo]
Set(q, content) == tree' = [tree EXCEPT ![q] = content]

\* The first inspection and plan, before the worktree is locked.
ResolveConflict(r) ==
  /\ op = Idle /\ Apart(r)
  /\ op' = [pc |-> "planned", request |-> r, todo |-> {}, ready |-> {}]
  /\ UNCHANGED <<tree, unmerged, tracked, begun, disturbed, spent>>

Asked == op.request

\* Under the lock: the same plan again, and the destinations.
Verify ==
  /\ op.pc = "planned"
  /\ IF Current(Asked) /\ Apart(Asked) /\ Verified(Asked)
     THEN /\ Then("write", Outputs(Asked) \ Sources(Asked))
          /\ begun' = {Asked} /\ disturbed' = {}
     ELSE Refuse /\ UNCHANGED <<begun, disturbed>>
  /\ UNCHANGED <<tree, unmerged, tracked, spent>>

\* Variant: what appeared at the path is truncated.
Truncated(q) == Set(q, Asked.writes[q]) /\ Done(q)

\* writeConflictEntry: created exclusively, or found as it should be.
Create(q) ==
  \/ tree[q] = "absent" /\ Set(q, Asked.writes[q]) /\ Done(q)
  \/ tree[q] = Asked.writes[q] /\ UNCHANGED tree /\ Done(q)
  \/ tree[q] \notin {"absent", Asked.writes[q]} /\ UNCHANGED tree /\ Refuse

WriteOutput(q) ==
  /\ q \in op.todo /\ (op.pc = "write" \/ (op.pc = "rewrite" /\ q \in op.ready))
  /\ \/ Create(q) /\ UNCHANGED spent
     \/ tree[q] = "absent" /\ Set(q, "torn") /\ Refuse /\ Fault
  /\ UNCHANGED <<unmerged, tracked, begun, disturbed>>

RemoveSource(q) ==
  /\ op.pc = "remove" /\ q \in op.todo
  /\ Set(q, "absent") /\ Done(q)
  /\ UNCHANGED <<unmerged, tracked, begun, disturbed, spent>>

\* removeMismatchedSourceResolutionOutput
ClearSource(q) ==
  /\ op.pc = "rewrite" /\ q \in op.todo \ op.ready
  /\ IF tree[q] \in {"absent", Asked.writes[q]} THEN UNCHANGED tree ELSE Set(q, "absent")
  /\ op' = [op EXCEPT !.ready = @ \cup {q}]
  /\ UNCHANGED <<unmerged, tracked, begun, disturbed, spent>>

Continue ==
  /\ op.pc \in {"write", "remove", "rewrite"} /\ op.todo = {}
  /\ CASE op.pc = "write"   -> Then("remove", RemovePaths(Asked))
       [] op.pc = "remove"  -> Then("rewrite", Outputs(Asked) \cap Sources(Asked))
       [] op.pc = "rewrite" -> Then("add", {})
  /\ UNCHANGED <<tree, unmerged, tracked, begun, disturbed, spent>>

\* git add -A: it refuses a path that is neither a file nor in the index.
Known(q) == tree[q] # "absent" \/ tracked[q] # "absent" \/ q \in Unresolved
Staged(paths) ==
  /\ tracked' = [q \in Paths |-> IF q \in paths THEN tree[q] ELSE tracked[q]]
  /\ unmerged' = [q \in Unresolved \ paths |-> unmerged[q]]

Stage ==
  /\ op.pc = "add" /\ Refuse
  /\ IF \A q \in StagePaths(Asked) : Known(q) THEN Staged(StagePaths(Asked))
     ELSE UNCHANGED <<tracked, unmerged>>
  /\ UNCHANGED <<tree, begun, disturbed, spent>>

\* A step fails, or the process stops.
Fail == /\ op # Idle /\ Fault /\ Refuse
        /\ UNCHANGED <<tree, unmerged, tracked, begun, disturbed>>

-----------------------------------------------------------------------------
(* Other programs. *)

WriteOutside(q, content) ==
  /\ tree[q] # content /\ Edit /\ Set(q, content)
  /\ disturbed' = disturbed \cup {q}
  /\ UNCHANGED <<unmerged, tracked, op, begun>>

\* git add in a terminal settles a conflict, or tracks a file.
AddOutside(q) ==
  /\ Known(q) /\ Edit /\ Staged({q})
  /\ disturbed' = disturbed \cup {q}
  /\ UNCHANGED <<tree, op, begun>>

-----------------------------------------------------------------------------
Resolver == \/ \E r \in Requests : ResolveConflict(r)
            \/ Verify
            \/ \E q \in Paths : WriteOutput(q) \/ RemoveSource(q) \/ ClearSource(q)
            \/ Continue \/ Stage \/ Fail
Outside == \E q \in Paths : AddOutside(q) \/ \E content \in {"foreign", "absent"} : WriteOutside(q, content)
Next == Resolver \/ Outside

\* What git merge leaves at a path in conflict.
Left(c) == IF c.sides = Sides THEN "markers" ELSE CHOOSE side \in c.sides : TRUE
PossibleConflict(p, c) ==
  /\ c.kind \in {"content", "add_add"} <=> c.sides = Sides
  /\ c.kind = "rename_delete" <=> c.original # NoPath
  /\ c.original # p

\* An unfinished merge: conflicts that share no path, and notes at other paths.
Init ==
  /\ \E s \in (SUBSET Paths) \ {{}} : unmerged \in {u \in [s -> Conflicts] :
       /\ \A p \in s : PossibleConflict(p, u[p])
       /\ \A p, q \in s : p # q => resolutionSources(p, u[p]) \cap resolutionSources(q, u[q]) = {}}
  /\ \E notes \in SUBSET (Paths \ UNION {resolutionSources(p, unmerged[p]) : p \in Unresolved}) :
       /\ tracked = [p \in Paths |-> IF p \in notes THEN "note" ELSE "absent"]
       /\ tree = [p \in Paths |-> IF p \in Unresolved THEN Left(unmerged[p])
                                  ELSE IF p \in notes THEN "note" ELSE "absent"]
  /\ op = Idle /\ begun = {} /\ disturbed = {}
  /\ spent = [edits |-> 0, faults |-> 0]

Spec == Init /\ [][Next]_vars

-----------------------------------------------------------------------------
\* Steps of the resolution, not of another program.
Ours == op # Idle /\ spent.edits' = spent.edits

(* A resolution never replaces or removes a file that is not the conflict's *)
(* own, not even one that appears at an output after the check of the       *)
(* destinations.                                                            *)
FilesKept ==
  [][Ours => \A p \in Paths \ Sources(Asked) : tree[p] # "absent" => tree'[p] = tree[p]]_vars

(* It leaves the files and the stages of every other conflict as they are,  *)
(* however many requests failed half-way before.                            *)
OthersKept ==
  [][Ours => \A p \in Unresolved \ {Asked.path} :
       /\ p \in DOMAIN unmerged' /\ unmerged'[p] = unmerged[p]
       /\ \A q \in resolutionSources(p, unmerged[p]) : tree'[q] = tree[q]]_vars

(* A resolution takes effect in the index at once and as a whole: the       *)
(* conflict is gone, every output holds what was asked for, its path has no *)
(* entry but as an output, and the rest of the index is the same, unless    *)
(* other programs changed these paths meanwhile.                            *)
StagesTheRequest ==
  [][Ours /\ (tracked' # tracked \/ unmerged' # unmerged) /\ disturbed = {} =>
       /\ Asked.path \notin DOMAIN unmerged'
       /\ \A q \in Paths :
            tracked'[q] = IF q \in Outputs(Asked) THEN Asked.writes[q]
                          ELSE IF q = Asked.path THEN "absent" ELSE tracked[q]]_vars

(* A request that failed half-way passes every check when it is made again, *)
(* unless other programs changed these paths or an output is half-written.  *)
Retriable ==
  \A r \in begun : op = Idle /\ disturbed = {} /\ r.path \in Unresolved =>
    \/ Current(r) /\ Apart(r) /\ Verified(r)
    \/ \E q \in Outputs(r) \ Sources(r) : tree[q] = "torn"
=============================================================================
