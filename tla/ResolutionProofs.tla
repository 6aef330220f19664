-------------------------- MODULE ResolutionProofs --------------------------
(***************************************************************************)
(* The resolution of a conflict, for every repository, every unfinished     *)
(* merge and any number of failures and changes by other programs: files    *)
(* and conflicts that are not its own stay as they are, the index takes a   *)
(* request as a whole, and one that was cut off can be made again.          *)
(***************************************************************************)
EXTENDS ConflictResolution, TLAPS

Asks == [path : Paths, conflict : Conflicts, writes : UNION {[s -> Written] : s \in SUBSET Paths}]
Running == {"write", "remove", "rewrite", "add"}
Jobs == [pc : {"planned"} \cup Running, request : Asks, todo : SUBSET Paths, ready : SUBSET Paths]

TypeOK ==
  /\ tree \in [Paths -> Entries] /\ tracked \in [Paths -> Entries]
  /\ unmerged \in UNION {[s -> Conflicts] : s \in SUBSET Paths}
  /\ op \in Jobs \cup {Idle} /\ begun \subseteq Asks /\ disturbed \subseteq Paths
  /\ spent \in [edits : Nat, faults : Nat]

\* No conflict is its own original, and no request is for one.
Proper(r) == r.conflict.original # r.path
Renames ==
  /\ \A p \in Unresolved : unmerged[p].original # p
  /\ op # Idle => Proper(op.request)
  /\ \A r \in begun : Proper(r)

\* What a running request has still to do are files of its own kind, and it is
\* apart from the conflicts that are left.
Own ==
  op # Idle =>
    /\ op.pc = "write" => op.todo \subseteq Outputs(Asked) \ Sources(Asked)
    /\ op.pc = "remove" => op.todo \subseteq RemovePaths(Asked)
    /\ op.pc = "rewrite" => op.todo \subseteq Outputs(Asked) \cap Sources(Asked)
    /\ op.pc \in Running => Apart(Asked) /\ begun = {Asked}

\* What it has done is still there, unless another program was at it.
Made ==
  op # Idle /\ op.pc \in Running /\ disturbed = {} =>
    /\ \A q \in Outputs(Asked) \ Sources(Asked) :
         op.pc # "write" \/ q \notin op.todo => tree[q] = Asked.writes[q]
    /\ \A q \in RemovePaths(Asked) :
         op.pc \in {"rewrite", "add"} \/ (op.pc = "remove" /\ q \notin op.todo) => tree[q] = "absent"
    /\ \A q \in Outputs(Asked) \cap Sources(Asked) :
         op.pc = "add" \/ (op.pc = "rewrite" /\ q \notin op.todo) => tree[q] = Asked.writes[q]

\* A request that began to write and whose conflict is left would pass every check.
Again ==
  \A r \in begun : disturbed = {} /\ r.path \in Unresolved =>
    /\ Current(r) /\ Apart(r)
    /\ \A q \in Outputs(r) \ Sources(r) :
         tracked[q] = "absent" /\ tree[q] \in {"absent", "torn", r.writes[q]}

IInv == TypeOK /\ Renames /\ Own /\ Made /\ Again

-----------------------------------------------------------------------------
(* Requests and single steps. *)

LEMMA RunningOp ==
  ASSUME op \in Jobs \cup {Idle}
  PROVE  /\ (op.pc = "idle") <=> (op = Idle)
         /\ op # Idle => op \in Jobs /\ Asked \in Asks
<1>1. \A o \in Jobs : o.pc # "idle" BY DEF Jobs, Running
<1> QED BY <1>1 DEF Idle, Jobs, Asked

LEMMA AskFacts ==
  ASSUME NEW r \in Asks
  PROVE  /\ r.path \in Paths /\ r.path \in Sources(r) /\ Sources(r) \subseteq Paths
         /\ Outputs(r) \subseteq Paths /\ RemovePaths(r) \subseteq Sources(r)
         /\ StagePaths(r) \subseteq Outputs(r) \cup Sources(r) /\ StagePaths(r) \subseteq Paths
         /\ \A q \in Outputs(r) : r.writes[q] \in Written
<1>1. r.conflict \in Conflicts /\ r.path \in Paths BY DEF Asks
<1>2. r.conflict.original \in Paths \cup {NoPath} BY <1>1 DEF Conflicts
<1>3. PICK s \in SUBSET Paths : r.writes \in [s -> Written] BY DEF Asks
<1> QED BY <1>1, <1>2, <1>3 DEF Sources, resolutionSources, Outputs, RemovePaths, StagePaths

LEMMA RequestTypes ==
  ASSUME TypeOK, NEW r \in Requests
  PROVE  r \in Asks /\ r.path \in Unresolved /\ r.conflict = unmerged[r.path]
<1>1. PICK p \in Unresolved :
        r \in [path : {p}, conflict : {unmerged[p]}, writes : Offered(unmerged[p])]
  BY DEF Requests
<1>2. p \in Paths /\ unmerged[p] \in Conflicts BY DEF TypeOK, Unresolved
<1>3. unmerged[p].sides \subseteq Sides BY <1>2 DEF Conflicts
<1>4. \A w \in Offered(unmerged[p]) : \E s \in SUBSET Paths : w \in [s -> Written]
  <2> SUFFICES ASSUME NEW w \in Offered(unmerged[p]) PROVE \E s \in SUBSET Paths : w \in [s -> Written]
    OBVIOUS
  <2>1. \A content \in Written : w \in At(content) => \E s \in SUBSET Paths : w \in [s -> Written]
    BY DEF At
  <2>2. ASSUME w \in KeepBoth PROVE \E s \in SUBSET Paths : w \in [s -> Written]
    <3>1. PICK a \in Paths, b \in Paths : w = [q \in {a, b} |-> IF q = a THEN "local" ELSE "remote"]
      BY <2>2 DEF KeepBoth
    <3>2. w \in [{a, b} -> Written] BY <3>1 DEF Written
    <3> QED BY <3>2
  <2>3. w \in Delete => \E s \in SUBSET Paths : w \in [s -> Written] BY DEF Delete
  <2>4. \/ \E side \in unmerged[p].sides : w \in At(side)
        \/ w \in At("manual") \/ w \in KeepBoth \/ w \in Delete
    BY DEF Offered
  <2>5. unmerged[p].sides \subseteq Written /\ "manual" \in Written BY <1>3 DEF Sides, Written
  <2> QED BY <2>1, <2>2, <2>3, <2>4, <2>5
<1>5. r.path = p /\ r.conflict = unmerged[p] /\ r.writes \in Offered(unmerged[p])
      /\ r = [path |-> r.path, conflict |-> r.conflict, writes |-> r.writes]
  BY <1>1
<1>6. r.writes \in UNION {[s -> Written] : s \in SUBSET Paths} BY <1>4, <1>5
<1> QED BY <1>2, <1>5, <1>6 DEF Asks

\* Conflicts that go leave a request as far apart as it was.
LEMMA ApartStays ==
  ASSUME NEW r, Apart(r), Unresolved' \subseteq Unresolved,
         \A p \in Unresolved' : unmerged'[p] = unmerged[p]
  PROVE  \A p \in Unresolved' \ {r.path} :
           resolutionSources(p, unmerged'[p]) \cap (Sources(r) \cup Outputs(r)) = {}
<1> QED BY DEF Apart

LEMMA StagedFacts ==
  ASSUME TypeOK, NEW paths \in SUBSET Paths, Staged(paths)
  PROVE  /\ tracked' \in [Paths -> Entries]
         /\ \A q \in Paths : tracked'[q] = IF q \in paths THEN tree[q] ELSE tracked[q]
         /\ Unresolved' = Unresolved \ paths
         /\ unmerged' \in UNION {[s -> Conflicts] : s \in SUBSET Paths}
         /\ \A p \in Unresolved' : unmerged'[p] = unmerged[p]
<1>1. PICK s \in SUBSET Paths : unmerged \in [s -> Conflicts] BY DEF TypeOK
<1>2. unmerged' \in [s \ paths -> Conflicts] BY <1>1 DEF Staged, Unresolved
<1> QED BY <1>1, <1>2 DEF TypeOK, Staged, Unresolved

-----------------------------------------------------------------------------
(* The invariant is inductive: one lemma per action. *)

\* Nothing is asked: only types, originals and old requests are left to show.
LEMMA Refused ==
  ASSUME IInv, op' = Idle, TypeOK', Renames', Again'
  PROVE  IInv'
<1>1. op'.pc = "idle" BY DEF Idle
<1> QED BY <1>1 DEF IInv, Own, Made

LEMMA AgainStays ==
  ASSUME Again, UNCHANGED <<tree, unmerged, tracked, begun, disturbed>>
  PROVE  Again'
<1> QED BY DEF Again, Current, Apart, Unresolved

LEMMA ResolvePreserves ==
  ASSUME IInv, NEW r \in Requests, ResolveConflict(r)
  PROVE  IInv'
<1>1. r \in Asks /\ r.path \in Unresolved /\ r.conflict = unmerged[r.path]
  BY RequestTypes DEF IInv
<1>2. op' \in Jobs /\ op'.pc = "planned" /\ op'.request = r /\ op' # Idle
  BY <1>1 DEF ResolveConflict, Jobs, Running, Idle
<1>3. TypeOK' BY <1>2 DEF IInv, TypeOK, ResolveConflict
<1>4. Renames' BY <1>1, <1>2 DEF IInv, Renames, Proper, ResolveConflict, Unresolved
<1>5. Own' /\ Made' BY <1>2 DEF Own, Made, Running
<1>6. Again' BY AgainStays DEF IInv, ResolveConflict
<1> QED BY <1>3, <1>4, <1>5, <1>6 DEF IInv

LEMMA VerifyPreserves ==
  ASSUME IInv, Verify
  PROVE  IInv'
<1>1. op \in Jobs /\ Asked \in Asks /\ op # Idle BY RunningOp DEF IInv, TypeOK, Verify
<1>2. UNCHANGED <<tree, unmerged, tracked, spent>> BY DEF Verify
<1>3. CASE Current(Asked) /\ Apart(Asked) /\ Verified(Asked)
  <2>1. begun' = {Asked} /\ disturbed' = {} BY <1>3 DEF Verify
  <2>2. op' = [op EXCEPT !.pc = "write", !.todo = Outputs(Asked) \ Sources(Asked)]
    BY <1>3 DEF Verify, Then
  <2>3. op' \in Jobs /\ op'.pc = "write" /\ op'.request = Asked /\ op' # Idle
        /\ op'.todo = Outputs(Asked) \ Sources(Asked)
    BY <1>1, <2>2, AskFacts DEF Jobs, Running, Asked, Idle
  <2>4. TypeOK' BY <1>1, <1>2, <2>1, <2>3 DEF IInv, TypeOK
  <2>5. Renames' BY <1>1, <1>2, <2>1, <2>3 DEF IInv, Renames, Asked, Unresolved
  <2>6. Own' BY <1>2, <1>3, <2>1, <2>3 DEF Own, Asked, Apart, Unresolved
  <2>7. Made' BY <2>3 DEF Made, Asked
  <2>8. Again' BY <1>2, <1>3, <2>1 DEF Again, Current, Apart, Verified, SafeOutput, Unresolved
  <2> QED BY <2>4, <2>5, <2>6, <2>7, <2>8 DEF IInv
<1>4. CASE ~(Current(Asked) /\ Apart(Asked) /\ Verified(Asked))
  <2>1. op' = Idle /\ UNCHANGED <<begun, disturbed>> BY <1>4 DEF Verify, Refuse
  <2>2. TypeOK' BY <1>2, <2>1 DEF IInv, TypeOK
  <2>3. Renames' BY <1>2, <2>1 DEF IInv, Renames, Unresolved
  <2>4. Again' BY <1>2, <2>1, AgainStays DEF IInv
  <2> QED BY <2>1, <2>2, <2>3, <2>4, Refused
<1> QED BY <1>3, <1>4

LEMMA FailPreserves ==
  ASSUME IInv, Fail
  PROVE  IInv'
<1>1. op' = Idle /\ UNCHANGED <<tree, unmerged, tracked, begun, disturbed>> BY DEF Fail, Refuse
<1>2. TypeOK' BY <1>1 DEF IInv, TypeOK, Fail, Fault
<1>3. Renames' BY <1>1 DEF IInv, Renames, Unresolved
<1>4. Again' BY <1>1, AgainStays DEF IInv
<1> QED BY <1>1, <1>2, <1>3, <1>4, Refused

\* A step of the running request on one of its files.
LEMMA FilePreserves ==
  ASSUME IInv, op \in Jobs, NEW q \in Paths, NEW content \in Entries,
         op.pc \in {"write", "remove", "rewrite"}, q \in op.todo,
         tree' = [tree EXCEPT ![q] = content],
         op.pc = "write" => content \in {"absent", "torn", Asked.writes[q]},
         UNCHANGED <<unmerged, tracked, begun, disturbed>>, spent' \in [edits : Nat, faults : Nat],
         \/ op' = Idle
         \/ op' = [op EXCEPT !.todo = @ \ {q}] /\ content = IF op.pc = "remove" THEN "absent" ELSE Asked.writes[q]
         \/ op.pc = "rewrite" /\ op' = [op EXCEPT !.ready = @ \cup {q}]
  PROVE  IInv'
<1>1. op # Idle /\ Asked \in Asks BY DEF Idle, Jobs, Asked
<1>2. begun = {Asked} /\ Apart(Asked) BY <1>1 DEF IInv, Own, Running
<1>3. q \in (IF op.pc = "write" THEN Outputs(Asked) \ Sources(Asked)
             ELSE IF op.pc = "remove" THEN RemovePaths(Asked) ELSE Outputs(Asked) \cap Sources(Asked))
  BY <1>1 DEF IInv, Own
<1>4. tree' \in [Paths -> Entries] /\ \A p \in Paths : tree'[p] = IF p = q THEN content ELSE tree[p]
  BY DEF IInv, TypeOK
<1>5. op' \in Jobs \cup {Idle} BY DEF Jobs
<1>6. TypeOK' BY <1>4, <1>5 DEF IInv, TypeOK
<1>7. op' # Idle => op'.pc = op.pc /\ op'.request = op.request /\ op'.todo \subseteq op.todo
  BY DEF Jobs
<1>8. Renames' BY <1>1, <1>7 DEF IInv, Renames, Unresolved
<1>9. Again'
  <2>1. \A p \in Outputs(Asked) \ Sources(Asked) :
          p \in Paths /\ tree'[p] \in {"absent", "torn", Asked.writes[p], tree[p]}
    BY <1>1, <1>3, <1>4, AskFacts DEF RemovePaths
  <2> QED BY <1>2, <2>1 DEF IInv, Again, Current, Apart, Unresolved
<1>10. Own' BY <1>1, <1>7 DEF IInv, Own, Asked, Apart, Unresolved
<1>11. Made'
  <2> SUFFICES ASSUME op' # Idle, disturbed = {} PROVE Made' BY DEF Made
  <2>1. op'.pc = op.pc /\ op'.request = op.request BY <1>7
  <2>2. \A p \in Outputs(Asked) \cup Sources(Asked) : p \in Paths BY <1>1, AskFacts
  <2>3. \A p \in Paths : p # q => tree'[p] = tree[p] /\ (p \in op'.todo <=> p \in op.todo) BY <1>4 DEF Jobs
  <2>4. q \in op'.todo \/ tree'[q] = IF op.pc = "remove" THEN "absent" ELSE Asked.writes[q]
    BY <1>4 DEF Jobs
  <2> QED BY <1>1, <1>3, <2>1, <2>2, <2>3, <2>4 DEF IInv, Made, Asked, Running, RemovePaths
<1> QED BY <1>6, <1>8, <1>9, <1>10, <1>11 DEF IInv

LEMMA FileStepsPreserve ==
  ASSUME IInv, NEW q \in Paths, WriteOutput(q) \/ RemoveSource(q) \/ ClearSource(q)
  PROVE  IInv'
<1>1. op.pc \in {"write", "remove", "rewrite"} /\ q \in op.todo
  BY DEF WriteOutput, RemoveSource, ClearSource
<1>2. op \in Jobs /\ op # Idle /\ Asked \in Asks BY <1>1, RunningOp DEF IInv, TypeOK, Idle
<1>3. /\ UNCHANGED <<unmerged, tracked, begun, disturbed>> /\ spent' \in [edits : Nat, faults : Nat]
  BY DEF WriteOutput, RemoveSource, ClearSource, Fault, IInv, TypeOK
<1>4. /\ tree \in [Paths -> Entries] /\ tree[q] \in Entries /\ {"absent", "torn"} \subseteq Entries
      /\ tree = [tree EXCEPT ![q] = tree[q]]
  BY DEF IInv, TypeOK, Entries, Contents
<1>5. op.pc \in {"write", "rewrite"} => Asked.writes[q] \in Entries
  BY <1>1, <1>2, AskFacts DEF IInv, Own, Entries, Contents
<1>6. CASE WriteOutput(q)
  <2>1. op.pc \in {"write", "rewrite"} BY <1>6 DEF WriteOutput
  <2>2. CASE tree[q] = "absent" /\ Set(q, Asked.writes[q]) /\ Done(q)
    BY <1>1, <1>2, <1>3, <1>5, <2>1, <2>2, FilePreserves DEF Set, Done
  <2>3. CASE tree[q] = Asked.writes[q] /\ UNCHANGED tree /\ Done(q)
    BY <1>1, <1>2, <1>3, <1>4, <2>1, <2>3, FilePreserves DEF Done
  <2>4. CASE UNCHANGED tree /\ Refuse /\ tree[q] \notin {"absent", Asked.writes[q]}
    <3>1. TypeOK' /\ op' = Idle BY <1>3, <2>4 DEF IInv, TypeOK, Refuse
    <3>2. Renames' BY <1>3, <3>1 DEF IInv, Renames, Unresolved
    <3>3. Again' BY <1>3, <2>4, AgainStays DEF IInv
    <3> QED BY <3>1, <3>2, <3>3, Refused
  <2>5. CASE tree[q] = "absent" /\ Set(q, "torn") /\ Refuse
    BY <1>1, <1>2, <1>3, <1>4, <2>1, <2>5, FilePreserves DEF Set, Refuse
  <2> QED BY <1>6, <2>2, <2>3, <2>4, <2>5 DEF WriteOutput, Create
<1>7. CASE RemoveSource(q)
  BY <1>1, <1>2, <1>3, <1>4, <1>7, FilePreserves DEF RemoveSource, Set, Done
<1>8. CASE ClearSource(q)
  <2>1. tree' = [tree EXCEPT ![q] = tree[q]] \/ tree' = [tree EXCEPT ![q] = "absent"]
    BY <1>4, <1>8 DEF ClearSource, Set
  <2>2. op.pc = "rewrite" /\ op' = [op EXCEPT !.ready = @ \cup {q}] BY <1>8 DEF ClearSource
  <2> QED BY <1>1, <1>2, <1>3, <1>4, <2>1, <2>2, FilePreserves
<1> QED BY <1>6, <1>7, <1>8

LEMMA ContinuePreserves ==
  ASSUME IInv, Continue
  PROVE  IInv'
<1>1. op.pc \in {"write", "remove", "rewrite"} /\ op.todo = {} BY DEF Continue
<1>2. op \in Jobs /\ op # Idle /\ Asked \in Asks BY <1>1, RunningOp DEF IInv, TypeOK, Idle
<1>3. UNCHANGED <<tree, unmerged, tracked, begun, disturbed, spent>> BY DEF Continue
<1>4. \/ op.pc = "write" /\ op' = [op EXCEPT !.pc = "remove", !.todo = RemovePaths(Asked)]
      \/ op.pc = "remove" /\ op' = [op EXCEPT !.pc = "rewrite", !.todo = Outputs(Asked) \cap Sources(Asked)]
      \/ op.pc = "rewrite" /\ op' = [op EXCEPT !.pc = "add", !.todo = {}]
  BY <1>1 DEF Continue, Then
<1>5. /\ op' \in Jobs /\ op' # Idle /\ op'.request = Asked
      /\ \/ op.pc = "write" /\ op'.pc = "remove" /\ op'.todo = RemovePaths(Asked)
         \/ op.pc = "remove" /\ op'.pc = "rewrite" /\ op'.todo = Outputs(Asked) \cap Sources(Asked)
         \/ op.pc = "rewrite" /\ op'.pc = "add" /\ op'.todo = {}
  <2>1. RemovePaths(Asked) \subseteq Paths /\ Outputs(Asked) \cap Sources(Asked) \subseteq Paths
    BY <1>2, AskFacts
  <2>2. op' \in Jobs BY <1>2, <1>4, <2>1 DEF Jobs, Running
  <2> QED BY <1>2, <1>4, <2>2 DEF Jobs, Asked, Idle
<1>6. TypeOK' BY <1>3, <1>5 DEF IInv, TypeOK
<1>7. Renames' BY <1>2, <1>3, <1>5 DEF IInv, Renames, Asked, Unresolved
<1>8. Own' BY <1>1, <1>2, <1>3, <1>5 DEF IInv, Own, Asked, Running, Apart, Unresolved
<1>9. Made' BY <1>1, <1>2, <1>3, <1>5 DEF IInv, Made, Asked, Running
<1>10. Again' BY <1>3, AgainStays DEF IInv
<1> QED BY <1>6, <1>7, <1>8, <1>9, <1>10 DEF IInv

LEMMA StagePreserves ==
  ASSUME IInv, Stage
  PROVE  IInv'
<1>1. op.pc = "add" /\ op' = Idle /\ UNCHANGED <<tree, begun, disturbed, spent>> BY DEF Stage, Refuse
<1>2. op \in Jobs /\ op # Idle /\ Asked \in Asks BY <1>1, RunningOp DEF IInv, TypeOK, Idle
<1>3. CASE Staged(StagePaths(Asked))
  <2>1. StagePaths(Asked) \in SUBSET Paths BY <1>2, AskFacts
  <2>2. /\ tracked' \in [Paths -> Entries]
        /\ Unresolved' = Unresolved \ StagePaths(Asked)
        /\ unmerged' \in UNION {[s -> Conflicts] : s \in SUBSET Paths}
        /\ \A p \in Unresolved' : unmerged'[p] = unmerged[p]
    BY <1>3, <2>1, StagedFacts DEF IInv
  <2>3. TypeOK' BY <1>1, <2>2 DEF IInv, TypeOK
  <2>4. Renames' BY <1>1, <2>2 DEF IInv, Renames
  <2>5. Asked.path \in StagePaths(Asked) BY <1>2, AskFacts DEF IInv, Renames, Proper, StagePaths, RemovePaths, Asked
  <2>6. begun' = {Asked} BY <1>1, <1>2 DEF IInv, Own, Running
  <2>7. Again' BY <2>2, <2>5, <2>6 DEF Again
  <2> QED BY <1>1, <2>3, <2>4, <2>7, Refused
<1>4. CASE UNCHANGED <<tracked, unmerged>>
  <2>1. TypeOK' BY <1>1, <1>4 DEF IInv, TypeOK
  <2>2. Renames' BY <1>1, <1>4 DEF IInv, Renames, Unresolved
  <2>3. Again' BY <1>1, <1>4, AgainStays DEF IInv
  <2> QED BY <1>1, <2>1, <2>2, <2>3, Refused
<1> QED BY <1>3, <1>4 DEF Stage

\* Other programs: every file they touch is disturbed, and conflicts only go.
LEMMA OutsidePreserves ==
  ASSUME IInv, NEW q \in Paths, disturbed' = disturbed \cup {q}, UNCHANGED <<op, begun>>,
         tree' \in [Paths -> Entries], tracked' \in [Paths -> Entries],
         spent' \in [edits : Nat, faults : Nat],
         unmerged' \in UNION {[s -> Conflicts] : s \in SUBSET Paths},
         Unresolved' \subseteq Unresolved, \A p \in Unresolved' : unmerged'[p] = unmerged[p]
  PROVE  IInv'
<1>1. TypeOK' BY DEF IInv, TypeOK
<1>2. Renames' BY DEF IInv, Renames
<1>3. Own' BY ApartStays DEF IInv, Own, Asked, Apart
<1>4. Made' /\ Again' BY DEF Made, Again
<1> QED BY <1>1, <1>2, <1>3, <1>4 DEF IInv

LEMMA OthersPreserve ==
  ASSUME IInv, Outside
  PROVE  IInv'
<1>1. PICK q \in Paths : AddOutside(q) \/ \E content \in {"foreign", "absent"} : WriteOutside(q, content)
  BY DEF Outside
<1>2. /\ disturbed' = disturbed \cup {q} /\ UNCHANGED <<op, begun>>
      /\ spent' \in [edits : Nat, faults : Nat]
  BY <1>1 DEF AddOutside, WriteOutside, Edit, IInv, TypeOK
<1>3. CASE AddOutside(q)
  <2>1. Staged({q}) /\ UNCHANGED tree BY <1>3 DEF AddOutside
  <2> QED BY <1>2, <2>1, StagedFacts, OutsidePreserves DEF IInv, TypeOK
<1>4. CASE \E content \in {"foreign", "absent"} : WriteOutside(q, content)
  <2>1. tree' \in [Paths -> Entries] /\ UNCHANGED <<unmerged, tracked>>
    BY <1>4 DEF WriteOutside, Set, IInv, TypeOK, Entries, Contents
  <2> QED BY <1>2, <2>1, OutsidePreserves DEF IInv, TypeOK, Unresolved
<1> QED BY <1>1, <1>3, <1>4

LEMMA InitIsFine ==
  ASSUME Init
  PROVE  IInv
<1>1. op = Idle /\ begun = {} /\ disturbed = {} /\ spent = [edits |-> 0, faults |-> 0] BY DEF Init
<1>2. PICK s \in (SUBSET Paths) \ {{}} : /\ unmerged \in [s -> Conflicts]
                                       /\ \A p \in s : PossibleConflict(p, unmerged[p])
  BY DEF Init
<1>3. Unresolved = s BY <1>2 DEF Unresolved
<1>4. tracked \in [Paths -> Entries] BY DEF Init, Entries, Contents
<1>5. \A p \in s : Left(unmerged[p]) \in Entries
  <2> SUFFICES ASSUME NEW p \in s PROVE Left(unmerged[p]) \in Entries OBVIOUS
  <2>1. unmerged[p].sides \in (SUBSET Sides) \ {{}} BY <1>2 DEF Conflicts
  <2>2. \E side : side \in unmerged[p].sides BY <2>1
  <2>3. (CHOOSE side \in unmerged[p].sides : TRUE) \in Sides BY <2>1, <2>2
  <2> QED BY <2>3 DEF Left, Entries, Contents, Sides, Written
<1>6. tree \in [Paths -> Entries] BY <1>3, <1>5 DEF Init, Entries, Contents
<1>7. TypeOK BY <1>1, <1>2, <1>4, <1>6 DEF TypeOK
<1>8. Renames BY <1>1, <1>2, <1>3 DEF Renames, PossibleConflict
<1> QED BY <1>1, <1>7, <1>8 DEF IInv, Own, Made, Again

LEMMA NextPreserves ==
  ASSUME IInv, [Next]_vars
  PROVE  IInv'
<1>1. CASE UNCHANGED vars
  <2>1. TypeOK' /\ Renames' BY <1>1 DEF IInv, TypeOK, Renames, vars, Unresolved
  <2>2. Own' BY <1>1 DEF IInv, Own, Asked, Apart, Unresolved, vars
  <2>3. Made' BY <1>1 DEF IInv, Made, Asked, vars
  <2>4. Again' BY <1>1, AgainStays DEF IInv, vars
  <2> QED BY <2>1, <2>2, <2>3, <2>4 DEF IInv
<1>2. CASE Outside BY <1>2, OthersPreserve
<1>3. CASE Resolver
  BY <1>3, ResolvePreserves, VerifyPreserves, FileStepsPreserve, ContinuePreserves, StagePreserves,
     FailPreserves DEF Resolver
<1> QED BY <1>1, <1>2, <1>3 DEF Next

\* Every state of a resolution is well typed; a request writes only what it owns, stays
\* apart from the other conflicts, and leaves what it made or removed in its place.
THEOREM ResolutionInvariant == Spec => []IInv
<1>1. Init => IInv BY InitIsFine
<1>2. IInv /\ [Next]_vars => IInv' BY NextPreserves
<1> QED BY <1>1, <1>2, PTL DEF Spec

-----------------------------------------------------------------------------
(* The properties. *)

\* A step of the resolution is not one of another program.
LEMMA OursIsResolver ==
  ASSUME IInv, Ours, [Next]_vars
  PROVE  \/ UNCHANGED vars \/ Verify \/ Continue \/ Stage \/ Fail
         \/ \E q \in Paths : WriteOutput(q) \/ RemoveSource(q) \/ ClearSource(q)
<1>1. ~ Outside
  <2> SUFFICES ASSUME NEW q \in Paths, AddOutside(q) \/ \E content \in {"foreign", "absent"} : WriteOutside(q, content)
               PROVE  FALSE
    BY DEF Outside
  <2>1. spent'.edits = spent.edits + 1 /\ spent.edits \in Nat
    BY DEF AddOutside, WriteOutside, Edit, IInv, TypeOK
  <2> QED BY <2>1 DEF Ours
<1>2. \A r \in Requests : ~ ResolveConflict(r) BY DEF Ours, ResolveConflict
<1> QED BY <1>1, <1>2 DEF Next, Resolver

\* A step on one file touches that file only, one of the request's, which it creates
\* where there is none unless it is a source.
LEMMA FileSteps ==
  ASSUME IInv, NEW q \in Paths, WriteOutput(q) \/ RemoveSource(q) \/ ClearSource(q)
  PROVE  /\ UNCHANGED <<unmerged, tracked>> /\ \A p \in Paths : p # q => tree'[p] = tree[p]
         /\ q \in Outputs(Asked) \cup Sources(Asked) /\ Apart(Asked)
         /\ q \in Sources(Asked) \/ tree[q] = "absent" \/ tree'[q] = tree[q]
<1>1. op.pc \in {"write", "remove", "rewrite"} /\ q \in op.todo
  BY DEF WriteOutput, RemoveSource, ClearSource
<1>2. op \in Jobs /\ op # Idle /\ Asked \in Asks BY <1>1, RunningOp DEF IInv, TypeOK, Idle
<1>3. tree \in [Paths -> Entries] BY DEF IInv, TypeOK
<1>4. Apart(Asked) /\ (IF op.pc = "write" THEN q \in Outputs(Asked) ELSE q \in Sources(Asked))
  BY <1>1, <1>2 DEF IInv, Own, Running, RemovePaths
<1>5. /\ \A p \in Paths : p # q => tree'[p] = tree[p] /\ UNCHANGED <<unmerged, tracked>>
      /\ op.pc = "write" => tree[q] = "absent" \/ UNCHANGED tree
  BY <1>1, <1>3 DEF WriteOutput, Create, RemoveSource, ClearSource, Set
<1> QED BY <1>4, <1>5 DEF WriteOutput, RemoveSource, ClearSource

LEMMA FileStepCases ==
  ASSUME IInv, Ours, [Next]_vars
  PROVE  \/ UNCHANGED <<tree, unmerged, tracked>>
         \/ Stage
         \/ \E q \in Paths : WriteOutput(q) \/ RemoveSource(q) \/ ClearSource(q)
<1> QED BY OursIsResolver DEF vars, Verify, Continue, Fail

\* A file that is not the conflict's own is neither replaced nor removed by a resolution,
\* and none that appears at an output after the check of the destinations.
THEOREM FilesAreKept == Spec => FilesKept
<1>1. ASSUME IInv, [Next]_vars, Ours PROVE \A p \in Paths \ Sources(Asked) : tree[p] # "absent" => tree'[p] = tree[p]
  <2>1. CASE UNCHANGED tree BY <2>1
  <2>2. CASE \E q \in Paths : WriteOutput(q) \/ RemoveSource(q) \/ ClearSource(q)
    BY <1>1, <2>2, FileSteps
  <2> QED BY <1>1, <2>1, <2>2, FileStepCases DEF Stage
<1>2. IInv /\ [Next]_vars => [Ours => \A p \in Paths \ Sources(Asked) : tree[p] # "absent" => tree'[p] = tree[p]]_vars
  BY <1>1
<1> QED BY <1>2, ResolutionInvariant, PTL DEF Spec, FilesKept

\* Every other conflict keeps its files and its stages, whatever failed before.
THEOREM OthersAreKept == Spec => OthersKept
<1> DEFINE Kept == \A p \in Unresolved \ {Asked.path} :
                     /\ p \in DOMAIN unmerged' /\ unmerged'[p] = unmerged[p]
                     /\ \A q \in resolutionSources(p, unmerged[p]) : tree'[q] = tree[q]
<1>1. ASSUME IInv, [Next]_vars, Ours PROVE Kept
  <2>1. CASE UNCHANGED <<tree, unmerged>> BY <2>1 DEF Unresolved
  <2>2. CASE \E q \in Paths : WriteOutput(q) \/ RemoveSource(q) \/ ClearSource(q)
    <3>1. PICK q \in Paths : WriteOutput(q) \/ RemoveSource(q) \/ ClearSource(q) BY <2>2
    <3>2. /\ UNCHANGED unmerged /\ \A p \in Paths : p # q => tree'[p] = tree[p]
          /\ q \in Outputs(Asked) \cup Sources(Asked) /\ Apart(Asked)
      BY <1>1, <3>1, FileSteps
    <3>3. \A p \in Unresolved : resolutionSources(p, unmerged[p]) \subseteq Paths
      BY <1>1 DEF IInv, TypeOK, Unresolved, Conflicts, resolutionSources
    <3> QED BY <3>2, <3>3 DEF Apart, Unresolved
  <2>3. CASE Stage /\ ~ UNCHANGED unmerged
    <3>1. Staged(StagePaths(Asked)) /\ UNCHANGED tree /\ op.pc = "add" BY <2>3 DEF Stage
    <3>2. Asked \in Asks /\ Apart(Asked) BY <1>1, <3>1, RunningOp DEF IInv, TypeOK, Own, Running, Idle
    <3>3. StagePaths(Asked) \subseteq Outputs(Asked) \cup Sources(Asked) /\ StagePaths(Asked) \in SUBSET Paths
      BY <3>2, AskFacts
    <3>4. Unresolved' = Unresolved \ StagePaths(Asked) /\ \A p \in Unresolved' : unmerged'[p] = unmerged[p]
      BY <1>1, <3>1, <3>3, StagedFacts DEF IInv
    <3>5. \A p \in Unresolved \ {Asked.path} : p \notin StagePaths(Asked)
      BY <3>2, <3>3 DEF Apart, resolutionSources
    <3> QED BY <3>1, <3>4, <3>5 DEF Unresolved
  <2> QED BY <1>1, <2>1, <2>2, <2>3, FileStepCases DEF Stage
<1>2. IInv /\ [Next]_vars => [Ours => Kept]_vars BY <1>1
<1> QED BY <1>2, ResolutionInvariant, PTL DEF Spec, OthersKept

\* The index takes a resolution at once: the conflict goes, each output holds what was
\* asked for, and no other entry changes.
THEOREM RequestIsStaged == Spec => StagesTheRequest
<1> DEFINE Whole == /\ Asked.path \notin DOMAIN unmerged'
                    /\ \A q \in Paths :
                         tracked'[q] = IF q \in Outputs(Asked) THEN Asked.writes[q]
                                       ELSE IF q = Asked.path THEN "absent" ELSE tracked[q]
<1>1. ASSUME IInv, [Next]_vars, Ours, tracked' # tracked \/ unmerged' # unmerged, disturbed = {} PROVE Whole
  <2>1. Stage BY <1>1, FileStepCases, FileSteps
  <2>2. Staged(StagePaths(Asked)) /\ op.pc = "add" BY <1>1, <2>1 DEF Stage
  <2>3. Asked \in Asks /\ op # Idle BY <1>1, <2>2, RunningOp DEF IInv, TypeOK, Idle
  <2>4. Asked.path \in StagePaths(Asked) /\ StagePaths(Asked) \in SUBSET Paths
    BY <1>1, <2>3, AskFacts DEF IInv, Renames, Proper, StagePaths, RemovePaths, Asked
  <2>5. /\ Unresolved' = Unresolved \ StagePaths(Asked)
        /\ \A q \in Paths : tracked'[q] = IF q \in StagePaths(Asked) THEN tree[q] ELSE tracked[q]
    BY <1>1, <2>2, <2>4, StagedFacts DEF IInv
  <2>6. \A q \in Outputs(Asked) : q \in StagePaths(Asked) /\ tree[q] = Asked.writes[q]
    BY <1>1, <2>2, <2>3 DEF IInv, Made, Running, StagePaths
  <2>7. \A q \in StagePaths(Asked) \ Outputs(Asked) : q = Asked.path /\ tree[q] = "absent"
    BY <1>1, <2>2, <2>3 DEF IInv, Made, Running, StagePaths, RemovePaths, Sources, resolutionSources
  <2> QED BY <2>4, <2>5, <2>6, <2>7 DEF Unresolved
<1>2. IInv /\ [Next]_vars => [Ours /\ (tracked' # tracked \/ unmerged' # unmerged) /\ disturbed = {} => Whole]_vars
  BY <1>1
<1> QED BY <1>2, ResolutionInvariant, PTL DEF Spec, StagesTheRequest

\* A request that was cut off is not refused because of what it left, half-written
\* outputs apart.
THEOREM RequestsAreRetriable == Spec => []Retriable
<1>1. IInv => Retriable
  <2> SUFFICES ASSUME IInv, NEW r \in begun, disturbed = {}, r.path \in Unresolved,
                      \A q \in Outputs(r) \ Sources(r) : tree[q] # "torn"
               PROVE  Current(r) /\ Apart(r) /\ Verified(r)
    BY DEF Retriable
  <2> QED BY DEF IInv, Again, Verified, SafeOutput
<1> QED BY <1>1, ResolutionInvariant, PTL
=============================================================================
