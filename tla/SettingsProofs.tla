---------------------------- MODULE SettingsProofs ----------------------------
(***************************************************************************)
(* The note store and the settings, for every set of paths, bases, notes   *)
(* and contents and every number of operations, faults, edits and stops:   *)
(* the open directory is the one of the configuration, the statuses are    *)
(* those of its bases, a base in conflict is gated, the index is that of   *)
(* the directory, and a base that failed closed stays so.                  *)
(*                                                                         *)
(* The invariants follow an operation from its checks to its last write:   *)
(* what it would put back matches the configuration it began with, what it *)
(* writes the one it is about to publish.                                  *)
(***************************************************************************)
EXTENDS BaseSettings, FiniteSetTheorems, TLAPS

Maybe == Rows \cup {NoRow}
Changes == UNION {[D -> Maybe] : D \in SUBSET Paths}

\* The current base is one of the bases, and Git is connected after the setup.
GoodConfigs == {c \in Configs : c.current \in DOMAIN c.bases /\ (~c.setup => Connected(c.bases) = {})}

\* An operation that writes statuses, and one inside the transaction of the index.
Begun == [pc : {"statuses", "prepare", "restore"}, next : GoodConfigs, after : Changes, before : Changes,
          todo : SUBSET Paths, switches : BOOLEAN, clear : SUBSET Paths]
Switching == [pc : {"save", "commit", "restore"}, next : GoodConfigs, after : Changes, before : Changes,
              todo : SUBSET Paths, clear : SUBSET Paths, scan : SUBSET Ids, live : BOOLEAN,
              edited : BOOLEAN]

OpOK ==
  /\ op = Idle \/ op \in Begun \/ op \in Switching
  /\ ~Free => DOMAIN op.before = DOMAIN op.after /\ op.todo \subseteq DOMAIN op.after

SettingsOK ==
  /\ config \in GoodConfigs /\ stored \in GoodConfigs /\ rows \in [Paths -> Maybe]
  /\ degraded \in BOOLEAN /\ flagged \in BOOLEAN /\ torn \in BOOLEAN /\ phase \in {"up", "down"}
  /\ OpOK

StoreOK ==
  /\ present \subseteq Paths /\ disk \in [Paths -> [Ids -> Entries]] /\ index \subseteq Ids
  /\ root \in Roots /\ open \in {"down", "ok", "failed"} /\ synced \in {"pending", "done", "error"}
  /\ drift \in BOOLEAN /\ gate \in [Paths -> {"none", "live", "dead"}]

TypeOK == StoreOK /\ SettingsOK

\* What a start finds, and what a switch may rely on.
Process ==
  /\ phase = "down" => open = "down" /\ Free /\ synced = "pending" /\ ~degraded
  /\ op.pc \in {"save", "commit"} => Open

\* Memory, config.json and the open directory agree until the switch is saved.
Runtime ==
  ~degraded /\ op.pc # "commit" =>
    /\ Open => CurrentPath(config) = root.path
    /\ stored = config \/ (flagged /\ stored = [config EXCEPT !.current = stored.current])

\* The rows are those of the connected bases, one for each.
Matches(r, c) ==
  \A p \in Paths, n \in Names :
    (r[p] # NoRow /\ r[p].base = n) <=> (n \in Connected(c.bases) /\ c.bases[n].path = p)

\* The rows as they were when the operation began, and as it leaves them.
Updated(changes) == [p \in Paths |-> IF p \in DOMAIN changes THEN changes[p] ELSE rows[p]]
Before == IF Free THEN rows ELSE Updated(op.before)
After  == Updated(op.after)

InConflict(r) == {p \in Paths : r[p] # NoRow /\ r[p].state = "conflict"}

\* No crash and no failed restoration has cut an operation.
Whole == ~torn /\ ~degraded

Written ==
  /\ op.pc \in {"statuses", "prepare", "save", "commit"} =>
       \A p \in DOMAIN op.after \ op.todo : rows[p] = op.after[p]
  /\ op.pc \in {"prepare", "save", "commit"} => op.todo = {}
  /\ op.pc = "restore" /\ ~degraded => \A p \in DOMAIN op.after \ op.todo : rows[p] = op.before[p]

Aligned ==
  Whole => Matches(Before, config) /\ (~Free => Matches(After, op.next))

Gated ==
  Whole => /\ Up => \A p \in InConflict(Before) : Locked(p)
           /\ ~Free => /\ InConflict(After) \subseteq InConflict(Before)
                       /\ op.clear \cap PathsOf(op.next.bases) = {}

\* An entry lies in a directory that is there, or below a file.
Rooted(entries) == \A id \in Ids : \A a \in Above(id) : entries[id] # "absent" => entries[a] # "absent"

\* The index that a switch commits is that of the new directory, unless it
\* was removed or changed by other programs since it was scanned.
Scanned ==
  op.pc \in {"save", "commit"} /\ op.live /\ ~op.edited => op.scan = Scan(CurrentPath(op.next))

Tree ==
  /\ \A p \in Paths : Rooted(disk[p])
  /\ TreeIsDisk
  /\ Scanned

\* The inductive invariant.
IInv == TypeOK /\ Process /\ Runtime /\ Written /\ Aligned /\ Gated /\ Tree

-----------------------------------------------------------------------------
(* Facts about ids, bases, changes and operations. *)

LEMMA IdFacts ==
  ASSUME NEW id \in Ids
  PROVE  /\ \/ \E n \in FileNames : id = <<n>>
            \/ \E n \in FileNames, m \in Inner : id = <<n, m>>
         /\ id \in Below(id) /\ Below(id) \subseteq Ids /\ Above(id) \subseteq Ids
         /\ \A a \in Above(id) : Above(a) = {}
         /\ \A i \in Ids : \A a \in Above(i) : a \in Below(id) => i \in Below(id)
<1>1. \A i \in Ids : (\E n \in FileNames : i = <<n>>) \/ (\E n \in FileNames, m \in Inner : i = <<n, m>>)
  BY DEF Ids
<1>2. \A n : Len(<<n>>) = 1 /\ <<n>>[1] = n OBVIOUS
<1>3. \A n, m : Len(<<n, m>>) = 2 /\ <<n, m>>[1] = n OBVIOUS
<1>4. \A n \in FileNames : <<n>> \in Ids /\ Above(<<n>>) = {} BY <1>2 DEF Ids, Above
<1>5. \A n \in FileNames, m \in Inner : <<n, m>> \in Ids /\ Above(<<n, m>>) = {<<n>>} BY <1>3 DEF Ids, Above
<1>6. Above(id) \subseteq Ids BY <1>1, <1>4, <1>5
<1>7. \A a \in Above(id) : Above(a) = {} BY <1>1, <1>4, <1>5
<1>8. ASSUME NEW i \in Ids, NEW a \in Above(i), a \in Below(id) PROVE i \in Below(id)
  <2>1. PICK n \in FileNames, m \in Inner : i = <<n, m>> BY <1>1, <1>4, <1>8
  <2>2. a = <<n>> BY <1>5, <1>8, <2>1
  <2>3. id = <<n>>
    <3>1. a = id \/ Len(a) > Len(id) BY <1>8 DEF Below
    <3>2. Len(id) \in {1, 2} BY <1>1, <1>2, <1>3
    <3> QED BY <1>2, <2>2, <3>1, <3>2
  <2> QED BY <1>2, <1>3, <2>1, <2>3 DEF Below
<1>9. id \in Below(id) /\ Below(id) \subseteq Ids BY DEF Below
<1> QED BY <1>1, <1>6, <1>7, <1>8, <1>9

LEMMA BasesFacts ==
  ASSUME NEW c \in GoodConfigs
  PROVE  /\ DOMAIN c.bases \subseteq Names /\ c.bases \in [DOMAIN c.bases -> Bases] /\ c.current \in DOMAIN c.bases
         /\ c.current \in Names /\ c.setup \in BOOLEAN /\ CurrentPath(c) \in Paths
         /\ PathsOf(c.bases) \subseteq Paths
         /\ \A n \in DOMAIN c.bases : c.bases[n].path \in Paths /\ c.bases[n].git \in BOOLEAN
         /\ c = [bases |-> c.bases, current |-> c.current, setup |-> c.setup]
         /\ ~c.setup => Connected(c.bases) = {}
<1>1. c \in Configs /\ c.current \in DOMAIN c.bases /\ (~c.setup => Connected(c.bases) = {}) BY DEF GoodConfigs
<1>2. PICK N \in (SUBSET Names) \ {{}} : c.bases \in [N -> Bases] BY <1>1 DEF Configs
<1>3. DOMAIN c.bases = N BY <1>2
<1>4. \A n \in DOMAIN c.bases : c.bases[n].path \in Paths /\ c.bases[n].git \in BOOLEAN
  BY <1>2, <1>3 DEF Bases
<1>5. c = [bases |-> c.bases, current |-> c.current, setup |-> c.setup] /\ c.current \in Names /\ c.setup \in BOOLEAN
  BY <1>1 DEF Configs
<1> QED BY <1>1, <1>2, <1>3, <1>4, <1>5 DEF CurrentPath, PathsOf

LEMMA ConfigMade ==
  ASSUME NEW N \in SUBSET Names, NEW b \in [N -> Bases], NEW n \in N, NEW s \in BOOLEAN,
         ~s => \A m \in N : ~b[m].git
  PROVE  [bases |-> b, current |-> n, setup |-> s] \in GoodConfigs
<1>1. N # {} /\ DOMAIN b = N OBVIOUS
<1>2. b \in UNION {[M -> Bases] : M \in (SUBSET Names) \ {{}}} BY <1>1
<1>3. [bases |-> b, current |-> n, setup |-> s] \in Configs BY <1>2 DEF Configs
<1>4. ~s => Connected(b) = {} BY <1>1 DEF Connected
<1> QED BY <1>1, <1>3, <1>4 DEF GoodConfigs

LEMMA ChangesFacts ==
  ASSUME NEW c \in Changes
  PROVE  DOMAIN c \subseteq Paths /\ \A p \in DOMAIN c : c[p] \in Maybe
<1>1. PICK D \in SUBSET Paths : c \in [D -> Maybe] BY DEF Changes
<1> QED BY <1>1

LEMMA ChangesMade ==
  ASSUME NEW D \in SUBSET Paths, NEW c \in [D -> Maybe]
  PROVE  c \in Changes
BY DEF Changes

LEMMA RowFacts ==
  ASSUME NEW r \in Maybe
  PROVE  /\ NoRow \notin Rows
         /\ r # NoRow => r \in Rows /\ r.base \in Names /\ r.state \in States
         /\ \A n \in Names : /\ needsReconnect(n) \in Rows /\ needsReconnect(n).base = n
                             /\ needsReconnect(n).state = "needs_reconnect"
BY SettingsAssumption DEF Maybe, Rows, States, needsReconnect

\* The record of an operation under way.
LEMMA OpFacts ==
  ASSUME OpOK, ~Free
  PROVE  /\ op.next \in GoodConfigs /\ op.after \in Changes /\ op.before \in Changes
         /\ op.todo \subseteq DOMAIN op.after /\ DOMAIN op.before = DOMAIN op.after
         /\ op.clear \subseteq Paths
         /\ op.pc \in {"statuses", "prepare", "save", "commit", "restore"}
         /\ op.pc \in {"statuses", "prepare"} => op \in Begun
         /\ op.pc \in {"save", "commit"} =>
              op \in Switching /\ op.scan \subseteq Ids /\ op.live \in BOOLEAN /\ op.edited \in BOOLEAN
<1>1. op # Idle BY DEF Free, Idle
<1>2. CASE op \in Begun BY <1>2 DEF OpOK, Begun
<1>3. CASE op \in Switching BY <1>3 DEF OpOK, Switching
<1> QED BY <1>1, <1>2, <1>3 DEF OpOK

-----------------------------------------------------------------------------
(* The notes: what an action of the note service does to the files and to   *)
(* the index.                                                               *)

LEMMA EntryFacts == "absent" \in Entries /\ "dir" \in Entries /\ Contents \subseteq Entries /\ "absent" # "dir"
                    /\ "absent" \notin Contents
BY StoreAssumption DEF Entries

\* A removed entry takes with it what is below.
LEMMA RemovedFacts ==
  ASSUME NEW entries \in [Ids -> Entries], NEW id \in Ids
  PROVE  LET e == [i \in Ids |-> IF i \in Below(id) THEN "absent" ELSE entries[i]] IN
         e \in [Ids -> Entries] /\ (Rooted(entries) => Rooted(e))
<1> DEFINE e == [i \in Ids |-> IF i \in Below(id) THEN "absent" ELSE entries[i]]
<1>1. e \in [Ids -> Entries] BY EntryFacts
<1>2. ASSUME Rooted(entries), NEW i \in Ids, NEW a \in Above(i), e[i] # "absent" PROVE e[a] # "absent"
  <2>1. a \in Ids /\ i \notin Below(id) /\ entries[i] # "absent" BY <1>2, IdFacts
  <2>2. a \notin Below(id) BY <2>1, IdFacts
  <2>3. entries[a] # "absent" BY <1>2, <2>1 DEF Rooted
  <2> QED BY <2>1, <2>2, <2>3
<1> QED BY <1>1, <1>2 DEF Rooted

LEMMA PutFacts ==
  ASSUME NEW entries \in [Ids -> Entries], NEW id \in Ids, NEW entry \in Entries
  PROVE  LET e == Put(entries, id, entry) IN
         /\ e \in [Ids -> Entries]
         /\ Rooted(entries) /\ (entry # "absent" \/ \A i \in Below(id) : entries[i] = "absent") => Rooted(e)
<1> DEFINE e == Put(entries, id, entry)
<1>1. e = [i \in Ids |-> IF i = id THEN entry ELSE IF i \in Above(id) THEN "dir" ELSE entries[i]] BY DEF Put
<1>2. e \in [Ids -> Entries] BY <1>1, EntryFacts
<1>3. ASSUME Rooted(entries), entry # "absent" \/ \A i \in Below(id) : entries[i] = "absent",
             NEW i \in Ids, NEW a \in Above(i), e[i] # "absent"
      PROVE  e[a] # "absent"
  <2>1. a \in Ids /\ Above(a) = {} /\ i # a BY <1>3, IdFacts
  <2>2. i \notin Above(id) BY <1>3, IdFacts
  <2>3. CASE a = id
    <3>1. i \in Below(id) BY <2>3, IdFacts
    <3>2. e[i] = entries[i] /\ e[a] = entry BY <1>1, <2>1, <2>2, <2>3
    <3> QED BY <1>3, <3>1, <3>2
  <2>4. CASE a \in Above(id) /\ a # id BY <1>1, <2>1, <2>4
  <2>5. CASE a \notin Above(id) /\ a # id
    <3>1. i # id BY <1>3, <2>5
    <3>2. e[i] = entries[i] /\ e[a] = entries[a] BY <1>1, <2>1, <2>2, <2>5, <3>1
    <3> QED BY <1>3, <3>2 DEF Rooted
  <2> QED BY <2>3, <2>4, <2>5
<1> HIDE DEF e
<1> QED BY <1>2, <1>3 DEF Rooted, e

\* What is written becomes the files of the open directory.
LEMMA WriteFacts ==
  ASSUME StoreOK, NEW entries \in [Ids -> Entries], Write(entries)
  PROVE  /\ disk' \in [Paths -> [Ids -> Entries]] /\ present' = present /\ root.path \in Paths
         /\ disk'[root.path] = entries
         /\ \A p \in Paths : p # root.path => disk'[p] = disk[p]
         /\ (\A p \in Paths : Rooted(disk[p])) /\ Rooted(entries) => \A p \in Paths : Rooted(disk'[p])
<1>1. root.path \in Paths /\ disk' = [disk EXCEPT ![root.path] = entries] /\ present' = present
  BY DEF StoreOK, Roots, Write
<1>2. disk'[root.path] = entries /\ \A p \in Paths : p # root.path => disk'[p] = disk[p] BY <1>1 DEF StoreOK
<1>3. disk' \in [Paths -> [Ids -> Entries]] BY <1>1 DEF StoreOK
<1>4. ASSUME \A p \in Paths : Rooted(disk[p]), Rooted(entries), NEW p \in Paths PROVE Rooted(disk'[p])
  BY <1>2, <1>4
<1> QED BY <1>1, <1>2, <1>3, <1>4

\* The index after a write: that of the new files, or one in doubt.
LEMMA IndexedTree ==
  ASSUME StoreOK, disk' \in [Paths -> [Ids -> Entries]], UNCHANGED root, NEW entries, disk'[root.path] = entries,
         \/ Reindexed(ScanOf(entries))
         \/ NotReindexed
         \/ failClosed({index, ScanOf(entries)}) /\ Open
  PROVE  /\ TreeIsDisk' /\ index' \subseteq Ids /\ synced' \in {"pending", "done", "error"} /\ drift' \in BOOLEAN
         /\ open' = open \/ (open = "ok" /\ open' = "failed")
<1>1. root.path \in Paths /\ ScanOf(entries) \subseteq Ids BY DEF StoreOK, Roots, ScanOf
<1>2. Scan(root.path)' = ScanOf(entries) BY <1>1 DEF Scan, ScanOf
<1>3. CASE Reindexed(ScanOf(entries)) BY <1>1, <1>2, <1>3 DEF Reindexed, TreeIsDisk
<1>4. CASE NotReindexed BY <1>4 DEF NotReindexed, TreeIsDisk, StoreOK
<1>5. CASE failClosed({index, ScanOf(entries)}) /\ Open
  <2>1. open' = "failed" /\ open = "ok" BY <1>5 DEF failClosed, Open
  <2>2. ~Readable' BY <2>1 DEF Readable, Open
  <2> QED BY <1>1, <1>5, <2>1, <2>2 DEF failClosed, TreeIsDisk, StoreOK
<1> QED BY <1>3, <1>4, <1>5

\* Below a directory that is renamed the names stay, a note has none below it.
LEMMA MovedFacts ==
  ASSUME NEW id \in Ids, NEW name \in FileNames, Moved(id, name, id) \in Ids
  PROVE  LET to == Moved(id, name, id) IN
         /\ \A i \in Below(to) : Source(id, name, i) \in Ids
         /\ Source(id, name, to) = id
         /\ \A i \in Below(to) : \A a \in Above(i) : a = to \/ a \in Above(to)
         /\ \A a \in Above(to) : a \in Above(id)
<1> DEFINE to == Moved(id, name, id)
<1>1. \A n : Len(<<n>>) = 1 /\ <<n>>[1] = n /\ \A b : [<<n>> EXCEPT ![1] = b] = <<b>> OBVIOUS
<1>2. \A n, m : Len(<<n, m>>) = 2 /\ <<n, m>>[1] = n /\ <<n, m>>[2] = m OBVIOUS
<1>3. \A n, m, b : [<<n, m>> EXCEPT ![1] = b] = <<b, m>> /\ [<<n, m>> EXCEPT ![2] = b] = <<n, b>> OBVIOUS
<1>4. \A n \in FileNames : <<n>> \in Ids /\ Above(<<n>>) = {} BY <1>2, <1>1 DEF Ids, Above
<1>5. \A n \in FileNames, m \in Inner : <<n, m>> \in Ids /\ Above(<<n, m>>) = {<<n>>} BY <1>2, <1>1 DEF Ids, Above
<1>6. \A n \in FileNames : Below(<<n>>) = {<<n>>} \cup {<<n, m>> : m \in Inner}
  <2> SUFFICES ASSUME NEW n \in FileNames, NEW i PROVE i \in Below(<<n>>) <=> i = <<n>> \/ \E m \in Inner : i = <<n, m>>
    BY Zenon
  <2>1. ASSUME i \in Below(<<n>>) PROVE i = <<n>> \/ \E m \in Inner : i = <<n, m>>
    <3>1. i \in Ids /\ (i = <<n>> \/ (Len(i) > 1 /\ i[1] = n)) BY <1>1, <2>1 DEF Below
    <3> QED BY <1>1, <1>2, <3>1 DEF Ids
  <2>2. ASSUME i = <<n>> \/ \E m \in Inner : i = <<n, m>> PROVE i \in Below(<<n>>)
    <3>1. i \in Ids BY <1>4, <1>5, <2>2
    <3>2. i = <<n>> \/ (Len(i) > Len(<<n>>) /\ i[1] = <<n>>[1]) BY <1>1, <1>2, <2>2
    <3> QED BY <3>1, <3>2 DEF Below
  <2> QED BY <2>1, <2>2
<1>7. \A n \in FileNames, m \in Inner : Below(<<n, m>>) = {<<n, m>>}
  <2>1. \A i \in Ids : Len(i) = 1 \/ Len(i) = 2 BY <1>1, <1>2 DEF Ids
  <2>2. ASSUME NEW i \in Ids PROVE ~(Len(i) > 2)
    <3>1. CASE Len(i) = 1 BY <3>1
    <3>2. CASE Len(i) = 2 BY <3>2
    <3> QED BY <2>1, <3>1, <3>2
  <2> QED BY <1>2, <1>5, <2>2 DEF Below
<1>8. CASE \E n \in FileNames : id = <<n>>
  <2>1. PICK n \in FileNames : id = <<n>> BY <1>8
  <2>2. to = <<name>> BY <1>1, <2>1 DEF Moved
  <2>3. \A i : Source(id, name, i) = [i EXCEPT ![1] = n] BY <1>1, <2>1 DEF Source
  <2>4. \A i \in Below(to) : Source(id, name, i) \in Ids BY <1>1, <1>3, <1>4, <1>5, <1>6, <2>2, <2>3
  <2>5. Source(id, name, to) = id /\ Above(to) = {} BY <1>1, <1>4, <2>1, <2>2, <2>3
  <2>6. \A i \in Below(to) : \A a \in Above(i) : a = to
    <3>1. ASSUME NEW m \in Inner PROVE Above(<<name, m>>) = {to} BY <1>5, <2>2
    <3> QED BY <1>4, <1>6, <2>2, <3>1
  <2> QED BY <2>4, <2>5, <2>6
<1>9. CASE \E n \in FileNames, m \in Inner : id = <<n, m>>
  <2>1. PICK n \in FileNames, m \in Inner : id = <<n, m>> BY <1>9
  <2>2. to = <<n, name>> BY <1>2, <1>3, <2>1 DEF Moved
  <2>3. name \in Inner BY <1>1, <1>2, <2>2 DEF Ids
  <2>4. \A i : Source(id, name, i) = [i EXCEPT ![2] = m] BY <1>2, <2>1 DEF Source
  <2> QED BY <1>1, <1>3, <1>4, <1>5, <1>7, <2>1, <2>2, <2>3, <2>4
<1> QED BY <1>8, <1>9 DEF Ids

\* What an entry lies in is not below it.
LEMMA AboveFacts ==
  ASSUME NEW id \in Ids, NEW a \in Above(id)
  PROVE  a \notin Below(id)
<1>1. PICK n \in FileNames, m \in Inner : id = <<n, m>> BY IdFacts DEF Above
<1>2. Len(id) = 2 /\ id[1] = n BY <1>1
<1>3. a = <<n>> BY <1>2 DEF Above
<1>4. Len(a) = 1 BY <1>3
<1>5. ~(Len(a) > Len(id)) BY <1>2, <1>4
<1> QED BY <1>2, <1>4, <1>5 DEF Below

LEMMA RenamedFacts ==
  ASSUME NEW entries \in [Ids -> Entries], NEW id \in Ids, NEW name \in FileNames, Moved(id, name, id) \in Ids,
         Rooted(entries), entries[id] # "absent"
  PROVE  LET to == Moved(id, name, id)
             e == [i \in Ids |-> IF i \in Below(id) THEN "absent"
                                 ELSE IF i \in Below(to) THEN entries[Source(id, name, i)] ELSE entries[i]] IN
         entries[to] = "absent" => e \in [Ids -> Entries] /\ Rooted(e)
<1> DEFINE to == Moved(id, name, id)
           e == [i \in Ids |-> IF i \in Below(id) THEN "absent"
                               ELSE IF i \in Below(to) THEN entries[Source(id, name, i)] ELSE entries[i]]
<1>1. \A i \in Below(to) : Source(id, name, i) \in Ids BY MovedFacts
<1>2. e \in [Ids -> Entries] BY <1>1, EntryFacts
<1>3. ASSUME entries[to] = "absent", NEW i \in Ids, NEW a \in Above(i), e[i] # "absent" PROVE e[a] # "absent"
  <2>1. a \in Ids /\ i \notin Below(id) BY <1>3, IdFacts
  <2>2. a \notin Below(id) BY <1>3, <2>1, IdFacts
  <2>3. to # id /\ (to \in Below(to) /\ id \in Below(id)) BY <1>3, IdFacts
  <2>4. CASE i \in Below(to)
    <3>1. a = to \/ a \in Above(to) BY <2>4, <1>3, MovedFacts
    <3>2. CASE a = to
      <4>1. e[a] = entries[Source(id, name, to)] BY <2>1, <2>2, <2>3, <3>2
      <4>2. Source(id, name, to) = id BY MovedFacts
      <4> QED BY <4>1, <4>2
    <3>3. CASE a \in Above(to) /\ a # to
      <4>1. a \in Above(id) BY <3>3, MovedFacts
      <4>2. entries[a] # "absent" BY <4>1 DEF Rooted
      <4>3. a \notin Below(to) BY <3>3, AboveFacts
      <4> QED BY <2>1, <2>2, <4>2, <4>3
    <3> QED BY <3>1, <3>2, <3>3
  <2>5. CASE i \notin Below(to)
    <3>1. e[i] = entries[i] BY <2>1, <2>5
    <3>2. entries[a] # "absent" BY <1>3, <3>1 DEF Rooted
    <3>3. a \notin Below(to) BY <2>5, <1>3, IdFacts
    <3> QED BY <2>1, <2>2, <3>2, <3>3
  <2> QED BY <2>4, <2>5
<1> HIDE DEF e
<1> QED BY <1>2, <1>3 DEF Rooted, e

\* What every action of the note service keeps.
NotesKept ==
  /\ StoreOK' /\ TreeIsDisk' /\ (\A p \in Paths : Rooted(disk'[p]))
  /\ Open /\ open' \in {"ok", "failed"} /\ UNCHANGED <<root, gate, present>>

LEMMA CreateStep ==
  ASSUME StoreOK, TreeIsDisk, \A p \in Paths : Rooted(disk[p]),
         NEW id \in Ids, NEW entry \in {"dir"} \cup Contents, CreateNode(id, entry)
  PROVE  NotesKept
<1> DEFINE e == Put(Files, id, entry)
<1>1. Open /\ Files[id] = "absent" /\ Write(e) /\ UNCHANGED <<root, open, synced, gate>>
  BY DEF CreateNode, Mutable
<1>2. entry \in Entries /\ entry # "absent" BY EntryFacts
<1>3. root.path \in Paths /\ Files \in [Ids -> Entries] /\ Rooted(Files) BY DEF StoreOK, Roots, Files
<1>4. e \in [Ids -> Entries] /\ Rooted(e) BY <1>2, <1>3, PutFacts
<1>5. (index' = index \cup {id} /\ drift' = (drift \/ Orphan(id))) \/ (index' = index /\ drift' = TRUE)
  BY DEF CreateNode
<1>6. e = [i \in Ids |-> IF i = id THEN entry ELSE IF i \in Above(id) THEN "dir" ELSE Files[i]] BY DEF Put
<1> HIDE DEF e
<1>7. /\ disk' \in [Paths -> [Ids -> Entries]] /\ present' = present /\ disk'[root.path] = e
      /\ \A p \in Paths : Rooted(disk'[p])
  BY <1>1, <1>4, WriteFacts
<1>8. StoreOK'
  <2>1. index' \subseteq Ids /\ drift' \in BOOLEAN BY <1>5 DEF StoreOK
  <2> QED BY <1>1, <1>7, <2>1 DEF StoreOK
<1>9. ASSUME Readable', root'.live, ~drift' PROVE index' = Scan(root.path)'
  <2>1. index' = index \cup {id} /\ ~drift /\ ~Orphan(id) BY <1>5, <1>9
  <2>2. Readable /\ root.live /\ root' = root BY <1>1, <1>9 DEF Readable, Open
  <2>3. index = {i \in Ids : Files[i] # "absent"} BY <2>1, <2>2 DEF TreeIsDisk, Scan, Files
  <2>4. \A a \in Above(id) : Files[a] # "absent" BY <2>1 DEF Orphan
  <2>5. \A i \in Ids : e[i] # "absent" <=> (Files[i] # "absent" \/ i = id) BY <1>2, <1>6, <2>4, EntryFacts
  <2>6. Scan(root.path)' = {i \in Ids : e[i] # "absent"} BY <1>7, <2>2 DEF Scan
  <2> QED BY <2>1, <2>3, <2>5, <2>6
<1> QED BY <1>1, <1>7, <1>8, <1>9 DEF NotesKept, TreeIsDisk, Open

LEMMA SaveStep ==
  ASSUME StoreOK, TreeIsDisk, \A p \in Paths : Rooted(disk[p]),
         NEW id \in Ids, NEW content \in Contents, SaveNote(id, content)
  PROVE  NotesKept
<1> DEFINE e == Put(Files, id, content)
<1>1. Open /\ Write(e) /\ UNCHANGED <<index, root, open, synced, gate>> /\ drift' = (drift \/ Files[id] = "absent")
  BY DEF SaveNote, Mutable
<1>2. content \in Entries /\ content # "absent" BY EntryFacts
<1>3. root.path \in Paths /\ Files \in [Ids -> Entries] /\ Rooted(Files) BY DEF StoreOK, Roots, Files
<1>4. e \in [Ids -> Entries] /\ Rooted(e) BY <1>2, <1>3, PutFacts
<1>5. e = [i \in Ids |-> IF i = id THEN content ELSE IF i \in Above(id) THEN "dir" ELSE Files[i]] BY DEF Put
<1> HIDE DEF e
<1>6. /\ disk' \in [Paths -> [Ids -> Entries]] /\ present' = present /\ disk'[root.path] = e
      /\ \A p \in Paths : Rooted(disk'[p])
  BY <1>1, <1>4, WriteFacts
<1>7. StoreOK' BY <1>1, <1>6 DEF StoreOK
<1>8. ASSUME Readable', root'.live, ~drift' PROVE index' = Scan(root.path)'
  <2>1. index' = index /\ ~drift /\ Files[id] # "absent" BY <1>1, <1>8
  <2>2. Readable /\ root.live /\ root' = root BY <1>1, <1>8 DEF Readable, Open
  <2>3. index = {i \in Ids : Files[i] # "absent"} BY <2>1, <2>2 DEF TreeIsDisk, Scan, Files
  <2>4. \A a \in Above(id) : Files[a] # "absent" BY <1>3, <2>1 DEF Rooted
  <2>5. \A i \in Ids : e[i] # "absent" <=> Files[i] # "absent" BY <1>2, <1>5, <2>1, <2>4, EntryFacts
  <2>6. Scan(root.path)' = {i \in Ids : e[i] # "absent"} BY <1>6, <2>2 DEF Scan
  <2> QED BY <2>1, <2>3, <2>5, <2>6
<1> QED BY <1>1, <1>6, <1>7, <1>8 DEF NotesKept, TreeIsDisk, Open

LEMMA DeleteStep ==
  ASSUME StoreOK, TreeIsDisk, \A p \in Paths : Rooted(disk[p]), NEW id \in Ids, DeleteNode(id)
  PROVE  NotesKept
<1> DEFINE e == [i \in Ids |-> IF i \in Below(id) THEN "absent" ELSE Files[i]]
<1>1. Open /\ Write(e) /\ UNCHANGED <<root, open, synced, gate>> BY DEF DeleteNode, Mutable
<1>2. (index' = index \ Below(id) /\ drift' = drift) \/ (index' = index /\ drift' = TRUE)
  BY DEF DeleteNode, RowsOf
<1>3. root.path \in Paths /\ Files \in [Ids -> Entries] /\ Rooted(Files) BY DEF StoreOK, Roots, Files
<1>4. e \in [Ids -> Entries] /\ Rooted(e) BY <1>3, RemovedFacts
<1>5. \A i \in Ids : e[i] # "absent" <=> Files[i] # "absent" /\ i \notin Below(id) OBVIOUS
<1> HIDE DEF e
<1>6. /\ disk' \in [Paths -> [Ids -> Entries]] /\ present' = present /\ disk'[root.path] = e
      /\ \A p \in Paths : Rooted(disk'[p])
  BY <1>1, <1>4, WriteFacts
<1>7. StoreOK'
  <2>1. index' \subseteq Ids /\ drift' \in BOOLEAN BY <1>2 DEF StoreOK
  <2> QED BY <1>1, <1>6, <2>1 DEF StoreOK
<1>8. ASSUME Readable', root'.live, ~drift' PROVE index' = Scan(root.path)'
  <2>1. index' = index \ Below(id) /\ ~drift BY <1>2, <1>8
  <2>2. Readable /\ root.live /\ root' = root BY <1>1, <1>8 DEF Readable, Open
  <2>3. index = {i \in Ids : Files[i] # "absent"} BY <2>1, <2>2 DEF TreeIsDisk, Scan, Files
  <2>4. Scan(root.path)' = {i \in Ids : e[i] # "absent"} BY <1>6, <2>2 DEF Scan
  <2> QED BY <1>5, <2>1, <2>3, <2>4
<1> QED BY <1>1, <1>6, <1>7, <1>8 DEF NotesKept, TreeIsDisk, Open

LEMMA RenameStep ==
  ASSUME StoreOK, \A p \in Paths : Rooted(disk[p]), NEW id \in Ids, NEW name \in FileNames, RenameNode(id, name)
  PROVE  NotesKept
<1> DEFINE to == Moved(id, name, id)
           e == [i \in Ids |-> IF i \in Below(id) THEN "absent"
                               ELSE IF i \in Below(to) THEN Files[Source(id, name, i)] ELSE Files[i]]
<1>1. /\ Open /\ to \in Ids /\ Files[id] # "absent" /\ Files[to] = "absent"
      /\ Write(e) /\ replaceIndex(e) /\ UNCHANGED gate
  BY DEF RenameNode, Mutable
<1>2. root.path \in Paths /\ Files \in [Ids -> Entries] /\ Rooted(Files) BY DEF StoreOK, Roots, Files
<1>3. e \in [Ids -> Entries] /\ Rooted(e) BY <1>1, <1>2, RenamedFacts
<1> HIDE DEF e
<1>4. /\ disk' \in [Paths -> [Ids -> Entries]] /\ present' = present /\ disk'[root.path] = e
      /\ \A p \in Paths : Rooted(disk'[p])
  BY <1>1, <1>2, <1>3, WriteFacts
<1>5. UNCHANGED root /\ (Reindexed(ScanOf(e)) \/ NotReindexed \/ failClosed({index, ScanOf(e)}))
  BY <1>1 DEF replaceIndex, Reindexed, NotReindexed, failClosed
<1>6. /\ TreeIsDisk' /\ index' \subseteq Ids /\ synced' \in {"pending", "done", "error"} /\ drift' \in BOOLEAN
      /\ open' = open \/ (open = "ok" /\ open' = "failed")
  BY <1>1, <1>4, <1>5, IndexedTree
<1>7. StoreOK' BY <1>1, <1>4, <1>5, <1>6 DEF StoreOK
<1> QED BY <1>1, <1>4, <1>5, <1>6, <1>7 DEF NotesKept, Open

LEMMA SyncStep ==
  ASSUME StoreOK, TreeIsDisk, \A p \in Paths : Rooted(disk[p]), SyncFS
  PROVE  NotesKept
<1> DEFINE scan == IF root.live THEN Scan(root.path) ELSE {}
<1>1. /\ Open /\ UNCHANGED <<present, disk, gate>>
      /\ \/ Reindexed(scan)
         \/ synced' = (IF synced = "pending" THEN "error" ELSE synced) /\ UNCHANGED <<index, root, open, drift>>
         \/ failClosed({index, scan})
  BY DEF SyncFS, files
<1>2. scan \subseteq Ids BY DEF Scan
<1>3. root.live => scan = Scan(root.path) OBVIOUS
<1> HIDE DEF scan
<1>4. CASE Reindexed(scan)
  <2>1. StoreOK' BY <1>1, <1>2, <1>4 DEF Reindexed, StoreOK
  <2>2. TreeIsDisk' BY <1>1, <1>3, <1>4 DEF Reindexed, TreeIsDisk, Scan
  <2> QED BY <1>1, <1>4, <2>1, <2>2 DEF NotesKept, Reindexed, Open
<1>5. CASE synced' = (IF synced = "pending" THEN "error" ELSE synced) /\ UNCHANGED <<index, root, open, drift>>
  <2>1. StoreOK' BY <1>1, <1>5 DEF StoreOK
  <2>2. Readable' => Readable BY <1>5 DEF Readable, Open
  <2>3. TreeIsDisk' BY <1>1, <1>5, <2>2 DEF TreeIsDisk, Scan
  <2> QED BY <1>1, <1>5, <2>1, <2>3 DEF NotesKept, Open
<1>6. CASE failClosed({index, scan})
  <2>1. StoreOK' BY <1>1, <1>2, <1>6 DEF failClosed, StoreOK
  <2>2. open' = "failed" BY <1>6 DEF failClosed
  <2>3. TreeIsDisk' BY <2>2 DEF TreeIsDisk, Readable, Open
  <2> QED BY <1>1, <1>6, <2>1, <2>2, <2>3 DEF NotesKept, failClosed
<1> QED BY <1>1, <1>4, <1>5, <1>6

LEMMA MutateStep ==
  ASSUME StoreOK, \A p \in Paths : Rooted(disk[p]), NEW id \in Ids, NEW entry \in Entries,
         MutateActiveFilesystem(id, entry)
  PROVE  NotesKept
<1> DEFINE cleared == [i \in Ids |-> IF i \in Below(id) THEN "absent" ELSE Files[i]]
           e == Put(cleared, id, entry)
<1>1. /\ Open /\ Write(e) /\ UNCHANGED gate
      /\ Reindexed(ScanOf(e)) \/ failClosed({index, ScanOf(e)})
  BY DEF MutateActiveFilesystem
<1>2. root.path \in Paths /\ Files \in [Ids -> Entries] /\ Rooted(Files) BY DEF StoreOK, Roots, Files
<1>3. cleared \in [Ids -> Entries] /\ Rooted(cleared) BY <1>2, RemovedFacts
<1>4. \A i \in Below(id) : cleared[i] = "absent" BY IdFacts
<1> HIDE DEF cleared
<1>5. e \in [Ids -> Entries] /\ Rooted(e) BY <1>3, <1>4, PutFacts
<1> HIDE DEF e
<1>6. /\ disk' \in [Paths -> [Ids -> Entries]] /\ present' = present /\ disk'[root.path] = e
      /\ \A p \in Paths : Rooted(disk'[p])
  BY <1>1, <1>2, <1>5, WriteFacts
<1>7. UNCHANGED root BY <1>1 DEF Reindexed, failClosed
<1>8. /\ TreeIsDisk' /\ index' \subseteq Ids /\ synced' \in {"pending", "done", "error"} /\ drift' \in BOOLEAN
      /\ open' = open \/ (open = "ok" /\ open' = "failed")
  BY <1>1, <1>6, <1>7, IndexedTree
<1>9. StoreOK' BY <1>1, <1>6, <1>7, <1>8 DEF StoreOK
<1> QED BY <1>1, <1>6, <1>7, <1>8, <1>9 DEF NotesKept, Open

LEMMA NotesStep ==
  ASSUME StoreOK, TreeIsDisk, \A p \in Paths : Rooted(disk[p]), Notes
  PROVE  NotesKept /\ Up /\ BaseMuFree /\ UNCHANGED settings
<1>1. ASSUME \E id \in Ids, entry \in {"dir"} \cup Contents : CreateNode(id, entry) PROVE NotesKept BY <1>1, CreateStep
<1>2. ASSUME \E id \in Ids, content \in Contents : SaveNote(id, content) PROVE NotesKept BY <1>2, SaveStep
<1>3. ASSUME \E id \in Ids : DeleteNode(id) PROVE NotesKept BY <1>3, DeleteStep
<1>4. ASSUME \E id \in Ids, name \in FileNames : RenameNode(id, name) PROVE NotesKept BY <1>4, RenameStep
<1>5. ASSUME SyncFS PROVE NotesKept BY <1>5, SyncStep
<1>6. ASSUME \E id \in Ids, entry \in Entries : MutateActiveFilesystem(id, entry) PROVE NotesKept BY <1>6, MutateStep
<1> QED BY <1>1, <1>2, <1>3, <1>4, <1>5, <1>6 DEF Notes

-----------------------------------------------------------------------------
(* The settings operation. *)

\* The part of the invariant about the settings.
SInv == SettingsOK /\ Process /\ Runtime /\ Written /\ Aligned /\ Gated

\* The record goes to a label, or back to take its rows back.
LEMMA RestoreFacts ==
  ASSUME OpOK, ~Free, Restore
  PROVE  /\ op'.pc = "restore" /\ ~Free' /\ OpOK' /\ op'.todo = DOMAIN op.after
         /\ op'.next = op.next /\ op'.after = op.after /\ op'.before = op.before /\ op'.clear = op.clear
<1>1. op # Idle BY DEF Free, Idle
<1>2. DOMAIN op.before = DOMAIN op.after /\ DOMAIN op.after \subseteq Paths BY OpFacts, ChangesFacts
<1>3. op' = [op EXCEPT !.pc = "restore", !.todo = DOMAIN op.after] BY DEF Restore
<1>4. CASE op \in Begun
  <2>1. op'.pc = "restore" /\ op'.todo = DOMAIN op.after BY <1>3, <1>4 DEF Begun
  <2>2. op'.next = op.next /\ op'.after = op.after /\ op'.before = op.before /\ op'.clear = op.clear
    BY <1>3, <1>4 DEF Begun
  <2>3. op' \in Begun BY <1>2, <1>3, <1>4 DEF Begun
  <2> QED BY <1>2, <2>1, <2>2, <2>3 DEF OpOK, Free
<1>5. CASE op \in Switching
  <2>1. op'.pc = "restore" /\ op'.todo = DOMAIN op.after BY <1>3, <1>5 DEF Switching
  <2>2. op'.next = op.next /\ op'.after = op.after /\ op'.before = op.before /\ op'.clear = op.clear
    BY <1>3, <1>5 DEF Switching
  <2>3. op' \in Switching BY <1>2, <1>3, <1>5 DEF Switching
  <2> QED BY <1>2, <2>1, <2>2, <2>3 DEF OpOK, Free
<1> QED BY <1>1, <1>4, <1>5 DEF OpOK

LEMMA TodoFacts ==
  ASSUME OpOK, ~Free, NEW p, op' = [op EXCEPT !.todo = @ \ {p}]
  PROVE  /\ op'.pc = op.pc /\ ~Free' /\ OpOK' /\ op'.todo = op.todo \ {p}
         /\ op'.next = op.next /\ op'.after = op.after /\ op'.before = op.before /\ op'.clear = op.clear
<1>1. op # Idle BY DEF Free, Idle
<1>2. DOMAIN op.before = DOMAIN op.after /\ op.todo \subseteq DOMAIN op.after /\ DOMAIN op.after \subseteq Paths
  BY OpFacts, ChangesFacts
<1>4. CASE op \in Begun
  <2>1. op'.pc = op.pc /\ op'.todo = op.todo \ {p} BY <1>4 DEF Begun
  <2>2. op'.next = op.next /\ op'.after = op.after /\ op'.before = op.before /\ op'.clear = op.clear
    BY <1>4 DEF Begun
  <2>3. op' \in Begun BY <1>2, <1>4 DEF Begun
  <2> QED BY <1>2, <2>1, <2>2, <2>3 DEF OpOK, Free
<1>5. CASE op \in Switching
  <2>1. op'.pc = op.pc /\ op'.todo = op.todo \ {p} BY <1>5 DEF Switching
  <2>2. op'.next = op.next /\ op'.after = op.after /\ op'.before = op.before /\ op'.clear = op.clear
    BY <1>5 DEF Switching
  <2>3. op' \in Switching BY <1>2, <1>5 DEF Switching
  <2> QED BY <1>2, <2>1, <2>2, <2>3 DEF OpOK, Free
<1> QED BY <1>1, <1>4, <1>5 DEF OpOK

LEMMA GotoFacts ==
  ASSUME OpOK, NEW label, Goto(label),
         (op.pc = "statuses" /\ label = "prepare") \/ (op.pc = "save" /\ label = "commit")
  PROVE  /\ op'.pc = label /\ ~Free' /\ OpOK' /\ op'.todo = op.todo
         /\ op'.next = op.next /\ op'.after = op.after /\ op'.before = op.before /\ op'.clear = op.clear
         /\ label = "commit" => op'.scan = op.scan /\ op'.live = op.live /\ op'.edited = op.edited
<1>1. op # Idle /\ ~Free BY DEF Free, Idle
<1>2. DOMAIN op.before = DOMAIN op.after /\ op.todo \subseteq DOMAIN op.after BY <1>1, OpFacts
<1>3. op' = [op EXCEPT !.pc = label] BY DEF Goto
<1>4. CASE op \in Begun
  <2>0. label = "prepare" BY <1>4 DEF Begun
  <2>1. op'.pc = label /\ op'.todo = op.todo BY <1>3, <1>4 DEF Begun
  <2>2. op'.next = op.next /\ op'.after = op.after /\ op'.before = op.before /\ op'.clear = op.clear
    BY <1>3, <1>4 DEF Begun
  <2>3. op' \in Begun BY <2>0, <1>3, <1>4 DEF Begun
  <2> QED BY <1>2, <2>0, <2>1, <2>2, <2>3 DEF OpOK, Free
<1>5. CASE op \in Switching
  <2>0. label = "commit" BY <1>5 DEF Switching
  <2>1. op'.pc = label /\ op'.todo = op.todo BY <1>3, <1>5 DEF Switching
  <2>2. op'.next = op.next /\ op'.after = op.after /\ op'.before = op.before /\ op'.clear = op.clear
    BY <1>3, <1>5 DEF Switching
  <2>3. op'.scan = op.scan /\ op'.live = op.live /\ op'.edited = op.edited BY <1>3, <1>5 DEF Switching
  <2>4. op' \in Switching BY <2>0, <1>3, <1>5 DEF Switching
  <2> QED BY <1>2, <2>0, <2>1, <2>2, <2>3, <2>4 DEF OpOK, Free
<1> QED BY <1>1, <1>4, <1>5 DEF OpOK

LEMMA SaveFacts ==
  ASSUME OpOK, op.pc = "prepare", NEW s \in SUBSET Ids,
         op' = [pc |-> "save", next |-> op.next, after |-> op.after, before |-> op.before,
                todo |-> {}, clear |-> op.clear, scan |-> s, live |-> TRUE, edited |-> FALSE]
  PROVE  /\ op'.pc = "save" /\ ~Free' /\ OpOK' /\ op'.todo = {}
         /\ op'.next = op.next /\ op'.after = op.after /\ op'.before = op.before /\ op'.clear = op.clear
         /\ op'.scan = s /\ op'.live = TRUE /\ op'.edited = FALSE
<1>1. /\ op.next \in GoodConfigs /\ op.after \in Changes /\ op.before \in Changes /\ op.clear \subseteq Paths
      /\ DOMAIN op.before = DOMAIN op.after
  BY OpFacts DEF Free
<1>2. op' \in Switching BY <1>1 DEF Switching
<1> QED BY <1>1, <1>2 DEF OpOK, Free

\* An operation goes on.
LEMMA Carried ==
  ASSUME Aligned, Gated, ~Free, ~Free', op'.next = op.next, op'.clear = op.clear,
         op'.before = op.before, op'.after = op.after, config' = config, phase' = phase, Whole' => Whole,
         Updated(op.before)' = Updated(op.before), Updated(op.after)' = Updated(op.after),
         \A p \in Paths : Locked(p) => Locked(p)'
  PROVE  Aligned' /\ Gated'
<1>1. Before' = Before /\ After' = After
  <2>1. Updated(op.before)' = [p \in Paths |-> IF p \in DOMAIN op'.before THEN op'.before[p] ELSE rows'[p]]
    BY DEF Updated
  <2>2. Updated(op.after)' = [p \in Paths |-> IF p \in DOMAIN op'.after THEN op'.after[p] ELSE rows'[p]]
    BY DEF Updated
  <2> QED BY <2>1, <2>2 DEF Before, After
<1> QED BY <1>1 DEF Aligned, Gated, Up, Matches, InConflict, PathsOf, Connected

\* Of an operation that goes back only the record and the degradation change.
LEMMA RestoreStep ==
  ASSUME SInv, ~Free, op.pc # "commit" \/ degraded', Restore,
         UNCHANGED <<rows, config, phase, gate, torn, flagged, root>>,
         stored' = stored \/ (degraded' /\ stored' \in {op.next, config}),
         open' = open \/ degraded', degraded' = degraded \/ degraded' = TRUE
  PROVE  SInv'
<1>1. OpOK /\ SettingsOK BY DEF SInv, SettingsOK
<1>2. /\ op'.pc = "restore" /\ ~Free' /\ OpOK' /\ op'.todo = DOMAIN op.after
      /\ op'.next = op.next /\ op'.after = op.after /\ op'.before = op.before /\ op'.clear = op.clear
  BY <1>1, RestoreFacts
<1>3. degraded' \in BOOLEAN /\ (degraded => degraded') BY <1>1 DEF SettingsOK
<1>4. stored' \in GoodConfigs BY <1>1, OpFacts DEF SettingsOK
<1>5. SettingsOK' BY <1>1, <1>2, <1>3, <1>4 DEF SettingsOK
<1>6. phase = "up" BY DEF SInv, Process, SettingsOK
<1>7. Process' BY <1>2, <1>6 DEF Process
<1>8. Runtime'
  <2> SUFFICES ASSUME ~degraded' PROVE Runtime' BY DEF Runtime
  <2>1. ~degraded /\ op.pc # "commit" /\ stored' = stored /\ open' = open BY <1>3
  <2> QED BY <2>1 DEF SInv, Runtime, Open, CurrentPath
<1>9. Written' BY <1>2 DEF Written
<1>10. Updated(op.before)' = Updated(op.before) /\ Updated(op.after)' = Updated(op.after)
  BY <1>2 DEF Updated
<1>11. (Whole' => Whole) /\ \A p \in Paths : Locked(p) => Locked(p)' BY <1>3 DEF Whole, Locked
<1>12. Aligned' /\ Gated' BY <1>2, <1>10, <1>11, Carried DEF SInv
<1> QED BY <1>5, <1>7, <1>8, <1>9, <1>12 DEF SInv

LEMMA RowStep ==
  ASSUME SInv, ~Free, NEW p \in op.todo, NEW r \in Maybe, rows' = [rows EXCEPT ![p] = r],
         op' = [op EXCEPT !.todo = @ \ {p}], UNCHANGED <<config, stored, gate, degraded, phase, flagged, torn, root, open>>,
         (op.pc = "statuses" /\ r = op.after[p]) \/ (op.pc = "restore" /\ r = op.before[p])
  PROVE  SInv'
<1>1. OpOK /\ SettingsOK BY DEF SInv, SettingsOK
<1>2. /\ op'.pc = op.pc /\ ~Free' /\ OpOK' /\ op'.todo = op.todo \ {p}
      /\ op'.next = op.next /\ op'.after = op.after /\ op'.before = op.before /\ op'.clear = op.clear
  BY <1>1, TodoFacts
<1>3. /\ op.todo \subseteq DOMAIN op.after /\ DOMAIN op.before = DOMAIN op.after /\ DOMAIN op.after \subseteq Paths
      /\ rows \in [Paths -> Maybe]
  BY <1>1, OpFacts, ChangesFacts DEF SettingsOK
<1>4. rows' \in [Paths -> Maybe] BY <1>3
<1>5. SettingsOK' BY <1>1, <1>2, <1>4 DEF SettingsOK
<1>6. Process' /\ Runtime' BY <1>2 DEF SInv, Process, Runtime, Open, CurrentPath, Free
<1>7. rows'[p] = r /\ \A q \in Paths : q # p => rows'[q] = rows[q] BY <1>3
<1>8. Written' BY <1>2, <1>3, <1>7 DEF SInv, Written
<1>9. Updated(op.before)' = Updated(op.before) /\ Updated(op.after)' = Updated(op.after)
  BY <1>2, <1>3, <1>7 DEF Updated
<1>10. (Whole' => Whole) /\ \A q \in Paths : Locked(q) => Locked(q)' BY DEF Whole, Locked
<1>11. Aligned' /\ Gated' BY <1>2, <1>9, <1>10, Carried DEF SInv
<1> QED BY <1>5, <1>6, <1>8, <1>11 DEF SInv

\* The rows are written before config.json is.
LEMMA AllWritten ==
  ASSUME SettingsOK, NEW c, \A p \in DOMAIN c : rows[p] = c[p]
  PROVE  Updated(c) = rows
BY DEF Updated, SettingsOK

LEMMA PublishStep ==
  ASSUME SInv, StoreOK, op.pc \in {"statuses", "commit"}, op.todo = {}, Publish(op.next),
         UNCHANGED <<rows, degraded, torn, phase>>, CurrentPath(op.next) = root'.path
  PROVE  SInv'
<1>1. OpOK /\ SettingsOK /\ ~Free BY DEF SInv, SettingsOK, Free
<1>2. /\ op.next \in GoodConfigs /\ op.after \in Changes /\ op' = Idle /\ Free' /\ config' = op.next
      /\ stored' = op.next /\ flagged' = FALSE
  BY <1>1, OpFacts DEF Publish, Idle, Free
<1>3. op'.pc = "free" BY <1>2 DEF Free
<1>4. SettingsOK' BY <1>1, <1>2 DEF SettingsOK, OpOK
<1>5. phase = "up" BY <1>1 DEF SInv, Process, SettingsOK
<1>6. Process' /\ Written' BY <1>3, <1>5 DEF Process, Written
<1>7. Runtime' BY <1>2 DEF Runtime, CurrentPath
<1>8. After = rows
  <2>1. \A p \in DOMAIN op.after : rows[p] = op.after[p]
    <3>1. CASE op.pc = "statuses" BY <3>1 DEF SInv, Written
    <3>2. CASE op.pc = "commit" BY <3>2 DEF SInv, Written
    <3> QED BY <3>1, <3>2
  <2> QED BY <1>1, <2>1, AllWritten DEF After
<1>9. Before' = rows BY <1>2 DEF Before
<1>10. ASSUME Whole' PROVE Whole /\ Matches(rows, op.next) BY <1>1, <1>8, <1>10 DEF SInv, Whole, Aligned
<1>11. Aligned' BY <1>2, <1>9, <1>10 DEF Aligned, Matches, Connected
<1>12. ASSUME Whole', NEW p \in InConflict(rows) PROVE Locked(p)'
  <2>1. Locked(p) /\ op.clear \cap PathsOf(op.next.bases) = {}
    BY <1>1, <1>5, <1>8, <1>10, <1>12 DEF SInv, Gated, Up
  <2>2. p \in Paths /\ rows[p] # NoRow /\ rows[p] \in Maybe BY <1>1, <1>12 DEF InConflict, SettingsOK
  <2>3. rows[p].base \in Names BY <2>2, RowFacts
  <2>4. rows[p].base \in DOMAIN op.next.bases /\ op.next.bases[rows[p].base].path = p
    BY <1>10, <1>12, <2>2, <2>3 DEF Matches, Connected
  <2>5. p \notin op.clear BY <2>1, <2>4 DEF PathsOf
  <2>6. gate'[p] = gate[p] BY <2>2, <2>5 DEF Publish
  <2> QED BY <2>1, <2>6 DEF Locked
<1>13. Gated' BY <1>2, <1>9, <1>12 DEF Gated, InConflict
<1> QED BY <1>4, <1>6, <1>7, <1>11, <1>13 DEF SInv

\* A step of the settings outside of a switch leaves the files and the index.
LEMMA Unswitched ==
  ASSUME StoreOK, Tree, SInv', UNCHANGED <<present, disk, index, root, open, synced, drift>>,
         gate' \in [Paths -> {"none", "live", "dead"}] \/ gate' = gate, op'.pc \notin {"save", "commit"}
  PROVE  IInv'
<1>1. StoreOK' BY DEF StoreOK
<1>2. TreeIsDisk' BY DEF Tree, TreeIsDisk, Readable, Open, Scan
<1>3. Tree' BY <1>2 DEF Tree, Scanned
<1> QED BY <1>1, <1>3 DEF IInv, TypeOK, SInv

LEMMA StatusWriteStep ==
  ASSUME IInv, NEW p \in Paths, writeGitStatusChange(p)
  PROVE  IInv'
<1>1. SInv /\ StoreOK /\ Tree /\ OpOK BY DEF IInv, TypeOK, SInv, SettingsOK
<1>2. op.pc = "statuses" /\ p \in op.todo /\ ~Free BY DEF writeGitStatusChange, Free
<1>3. UNCHANGED <<files, store, gate, config, stored, degraded, phase, flagged, torn>> BY DEF writeGitStatusChange
<1>4. UNCHANGED <<present, disk, index, root, open, synced, drift, gate>> BY <1>3 DEF files, store
<1>5. CASE rows' = [rows EXCEPT ![p] = op.after[p]] /\ op' = [op EXCEPT !.todo = @ \ {p}]
  <2>1. op.after[p] \in Maybe BY <1>1, <1>2, OpFacts, ChangesFacts
  <2>2. SInv' BY <1>1, <1>2, <1>3, <1>4, <1>5, <2>1, RowStep
  <2>3. op'.pc = "statuses" BY <1>1, <1>2, <1>5, TodoFacts
  <2> QED BY <1>1, <1>4, <2>2, <2>3, Unswitched
<1>6. CASE Restore /\ rows' = rows
  <2>1. SInv' BY <1>1, <1>2, <1>3, <1>4, <1>6, RestoreStep
  <2>2. op'.pc = "restore" BY <1>1, <1>2, <1>6, RestoreFacts
  <2> QED BY <1>1, <1>4, <2>1, <2>2, Unswitched
<1> QED BY <1>5, <1>6 DEF writeGitStatusChange

LEMMA StatusRestoreStep ==
  ASSUME IInv, NEW p \in Paths, restoreGitStatus(p)
  PROVE  IInv'
<1>1. SInv /\ StoreOK /\ Tree /\ OpOK BY DEF IInv, TypeOK, SInv, SettingsOK
<1>2. op.pc = "restore" /\ p \in op.todo /\ ~Free /\ op' = [op EXCEPT !.todo = @ \ {p}]
  BY DEF restoreGitStatus, Free
<1>3. UNCHANGED <<files, store, gate, config, stored, phase, flagged, torn>> BY DEF restoreGitStatus
<1>4. UNCHANGED <<present, disk, index, root, open, synced, drift, gate>> BY <1>3 DEF files, store
<1>5. /\ op'.pc = "restore" /\ ~Free' /\ OpOK' /\ op'.todo = op.todo \ {p}
      /\ op'.next = op.next /\ op'.after = op.after /\ op'.before = op.before /\ op'.clear = op.clear
  BY <1>1, <1>2, TodoFacts
<1>6. CASE rows' = [rows EXCEPT ![p] = op.before[p]] /\ UNCHANGED degraded
  <2>1. op.before[p] \in Maybe BY <1>1, <1>2, OpFacts, ChangesFacts
  <2>2. SInv' BY <1>1, <1>2, <1>3, <1>4, <1>6, <2>1, RowStep
  <2> QED BY <1>1, <1>4, <1>5, <2>2, Unswitched
<1>7. CASE degraded' = TRUE /\ UNCHANGED rows
  <2>1. SettingsOK' BY <1>1, <1>3, <1>5, <1>7 DEF SInv, SettingsOK
  <2>2. phase = "up" BY <1>1, <1>2 DEF SInv, Process, SettingsOK, Free
  <2>3. Process' /\ Runtime' /\ Written' /\ Aligned' /\ Gated'
    BY <1>3, <1>5, <1>7, <2>2 DEF Process, Runtime, Written, Aligned, Gated, Whole
  <2>4. SInv' BY <2>1, <2>3 DEF SInv
  <2> QED BY <1>1, <1>4, <1>5, <2>4, Unswitched
<1> QED BY <1>6, <1>7 DEF restoreGitStatus

LEMMA PersistStep ==
  ASSUME IInv, persistConfig
  PROVE  IInv'
<1>1. SInv /\ StoreOK /\ Tree /\ OpOK BY DEF IInv, TypeOK, SInv, SettingsOK
<1>2. op.pc = "statuses" /\ op.todo = {} /\ ~Free BY DEF persistConfig, Free
<1>3. UNCHANGED <<files, store, rows, degraded, phase, torn>> BY DEF persistConfig
<1>4. UNCHANGED <<present, disk, index, root, open, synced, drift>> BY <1>3 DEF files, store
<1>5. CASE Restore /\ UNCHANGED <<config, stored, flagged, gate>>
  <2>1. SInv' BY <1>1, <1>2, <1>3, <1>4, <1>5, RestoreStep
  <2>2. op'.pc = "restore" BY <1>1, <1>2, <1>5, RestoreFacts
  <2> QED BY <1>1, <1>4, <1>5, <2>1, <2>2, Unswitched
<1>6. CASE OpenDirectory /\ Publish(op.next)
  <2>1. root'.path = CurrentPath(op.next) BY <1>4, <1>6 DEF OpenDirectory
  <2>2. SInv' BY <1>1, <1>2, <1>3, <1>6, <2>1, PublishStep
  <2>3. op'.pc = "free" BY <1>6 DEF Publish, Idle
  <2>4. gate' \in [Paths -> {"none", "live", "dead"}] BY <1>1, <1>6 DEF Publish, StoreOK
  <2> QED BY <1>1, <1>4, <2>2, <2>3, <2>4, Unswitched
<1>7. CASE Goto("prepare") /\ UNCHANGED <<config, stored, flagged, gate>>
  <2>1. /\ op'.pc = "prepare" /\ ~Free' /\ OpOK' /\ op'.todo = op.todo
        /\ op'.next = op.next /\ op'.after = op.after /\ op'.before = op.before /\ op'.clear = op.clear
    BY <1>1, <1>2, <1>7, GotoFacts
  <2>2. SettingsOK' BY <1>1, <1>3, <1>7, <2>1 DEF SInv, SettingsOK
  <2>3. Process' /\ Runtime' BY <1>1, <1>2, <1>3, <1>4, <1>7, <2>1 DEF SInv, Process, Runtime, Open, CurrentPath, Free
  <2>4. Written' BY <1>1, <1>2, <1>3, <2>1 DEF SInv, Written
  <2>5. Updated(op.before)' = Updated(op.before) /\ Updated(op.after)' = Updated(op.after)
    BY <1>3, <2>1 DEF Updated
  <2>6. (Whole' => Whole) /\ \A q \in Paths : Locked(q) => Locked(q)' BY <1>3, <1>7 DEF Whole, Locked
  <2>7. Aligned' /\ Gated' BY <1>1, <1>2, <1>3, <1>7, <2>1, <2>5, <2>6, Carried DEF SInv
  <2>8. SInv' BY <2>2, <2>3, <2>4, <2>7 DEF SInv
  <2> QED BY <1>1, <1>4, <1>7, <2>1, <2>8, Unswitched
<1> QED BY <1>5, <1>6, <1>7 DEF persistConfig

\* Files, index and open directory after a switch that goes back.
LEMMA DegradeStep ==
  ASSUME IInv, ~Free, Degrade({index}) \/ (\E s \in SUBSET Ids : Degrade({index, s})),
         stored' \in {op.next, config} \/ stored' = stored,
         UNCHANGED <<present, disk, gate, config, rows, phase, flagged, torn>>
  PROVE  IInv'
<1>1. SInv /\ StoreOK /\ Tree /\ OpOK BY DEF IInv, TypeOK, SInv, SettingsOK
<1>2. /\ Restore /\ degraded' = TRUE /\ open' = "failed" /\ index' \subseteq Ids /\ UNCHANGED <<root, drift>>
      /\ synced' = (IF synced = "pending" THEN "done" ELSE synced)
  BY <1>1 DEF Degrade, failClosed, StoreOK
<1>3. SInv' BY <1>1, <1>2, RestoreStep
<1>4. StoreOK' BY <1>1, <1>2 DEF StoreOK
<1>5. op'.pc = "restore" BY <1>1, <1>2, RestoreFacts
<1>6. TreeIsDisk' BY <1>2 DEF TreeIsDisk, Readable, Open
<1>7. Tree' BY <1>1, <1>5, <1>6 DEF Tree, Scanned
<1> QED BY <1>3, <1>4, <1>7 DEF IInv, TypeOK, SInv

LEMMA PrepareStep ==
  ASSUME IInv, prepareBaseSwitch
  PROVE  IInv'
<1> DEFINE s == Scan(CurrentPath(op.next))
<1>1. SInv /\ StoreOK /\ Tree /\ OpOK BY DEF IInv, TypeOK, SInv, SettingsOK
<1>2. op.pc = "prepare" /\ ~Free BY DEF prepareBaseSwitch, Free
<1>3. UNCHANGED <<present, disk, gate, config, stored, rows, phase, flagged, torn>> BY DEF prepareBaseSwitch, files
<1>4. s \in SUBSET Ids BY DEF Scan
<1>5. CASE /\ Open /\ UNCHANGED <<store, degraded>>
           /\ op' = [pc |-> "save", next |-> op.next, after |-> op.after, before |-> op.before, todo |-> {},
                     clear |-> op.clear, scan |-> s, live |-> TRUE, edited |-> FALSE]
  <2> HIDE DEF s
  <2>1. /\ op'.pc = "save" /\ ~Free' /\ OpOK' /\ op'.todo = {}
        /\ op'.next = op.next /\ op'.after = op.after /\ op'.before = op.before /\ op'.clear = op.clear
        /\ op'.scan = s /\ op'.live = TRUE /\ op'.edited = FALSE
    BY <1>1, <1>2, <1>4, <1>5, SaveFacts
  <2>2. UNCHANGED <<index, root, open, synced, drift>> BY <1>5 DEF store
  <2>3. SettingsOK' BY <1>1, <1>3, <1>5, <2>1 DEF SInv, SettingsOK
  <2>4. Process' /\ Runtime' BY <1>1, <1>2, <1>3, <1>5, <2>1, <2>2 DEF SInv, Process, Runtime, Open, CurrentPath, Free
  <2>5. Written' BY <1>1, <1>2, <1>3, <2>1 DEF SInv, Written
  <2>6. Updated(op.before)' = Updated(op.before) /\ Updated(op.after)' = Updated(op.after)
    BY <1>3, <2>1 DEF Updated
  <2>7. (Whole' => Whole) /\ \A q \in Paths : Locked(q) => Locked(q)' BY <1>3, <1>5 DEF Whole, Locked
  <2>8. Aligned' /\ Gated' BY <1>1, <1>2, <1>3, <2>1, <2>6, <2>7, Carried DEF SInv
  <2>9. StoreOK' /\ TreeIsDisk' BY <1>1, <1>3, <2>2 DEF StoreOK, Tree, TreeIsDisk, Readable, Open, Scan
  <2>10. Scanned' BY <1>3, <2>1 DEF Scanned, Scan, CurrentPath, s
  <2>11. Tree' BY <1>1, <1>3, <2>9, <2>10 DEF Tree
  <2> QED BY <2>3, <2>4, <2>5, <2>8, <2>9, <2>11 DEF IInv, TypeOK
<1>6. CASE Restore /\ UNCHANGED <<store, degraded>>
  <2>1. UNCHANGED <<index, root, open, synced, drift>> BY <1>6 DEF store
  <2>2. SInv' BY <1>1, <1>2, <1>3, <1>6, <2>1, RestoreStep
  <2>3. op'.pc = "restore" BY <1>1, <1>2, <1>6, RestoreFacts
  <2> QED BY <1>1, <1>3, <2>1, <2>2, <2>3, Unswitched
<1>7. CASE Degrade({index}) BY <1>2, <1>3, <1>7, DegradeStep
<1> QED BY <1>5, <1>6, <1>7 DEF prepareBaseSwitch, Switchable

LEMMA SaveConfigStep ==
  ASSUME IInv, saveConfig
  PROVE  IInv'
<1>1. SInv /\ StoreOK /\ Tree /\ OpOK BY DEF IInv, TypeOK, SInv, SettingsOK
<1>2. op.pc = "save" /\ ~Free BY DEF saveConfig, Free
<1>3. UNCHANGED <<present, disk, gate, config, rows, phase, flagged, torn>> BY DEF saveConfig, files
<1>4. CASE stored' = op.next /\ Goto("commit") /\ UNCHANGED <<store, degraded>>
  <2>1. /\ op'.pc = "commit" /\ ~Free' /\ OpOK' /\ op'.todo = op.todo
        /\ op'.next = op.next /\ op'.after = op.after /\ op'.before = op.before /\ op'.clear = op.clear
        /\ op'.scan = op.scan /\ op'.live = op.live /\ op'.edited = op.edited
    BY <1>1, <1>2, <1>4, GotoFacts
  <2>2. UNCHANGED <<index, root, open, synced, drift>> BY <1>4 DEF store
  <2>3. stored' \in GoodConfigs BY <1>1, <1>2, <1>4, OpFacts
  <2>4. SettingsOK' BY <1>1, <1>3, <1>4, <2>1, <2>3 DEF SInv, SettingsOK
  <2>5. Process' /\ Runtime' BY <1>1, <1>2, <1>3, <2>1, <2>2 DEF SInv, Process, Runtime, Open, Free
  <2>6. Written' BY <1>1, <1>2, <1>3, <2>1 DEF SInv, Written
  <2>7. Updated(op.before)' = Updated(op.before) /\ Updated(op.after)' = Updated(op.after)
    BY <1>3, <2>1 DEF Updated
  <2>8. (Whole' => Whole) /\ \A q \in Paths : Locked(q) => Locked(q)' BY <1>3, <1>4 DEF Whole, Locked
  <2>9. Aligned' /\ Gated' BY <1>1, <1>2, <1>3, <2>1, <2>7, <2>8, Carried DEF SInv
  <2>10. StoreOK' /\ TreeIsDisk' BY <1>1, <1>3, <2>2 DEF StoreOK, Tree, TreeIsDisk, Readable, Open, Scan
  <2>11. Scanned' BY <1>1, <1>2, <1>3, <2>1 DEF Tree, Scanned, Scan, CurrentPath
  <2>12. Tree' BY <1>1, <1>3, <2>10, <2>11 DEF Tree
  <2> QED BY <2>4, <2>5, <2>6, <2>9, <2>10, <2>12 DEF IInv, TypeOK
<1>5. CASE Restore /\ UNCHANGED <<store, stored, degraded>>
  <2>1. UNCHANGED <<index, root, open, synced, drift>> BY <1>5 DEF store
  <2>2. SInv' BY <1>1, <1>2, <1>3, <1>5, <2>1, RestoreStep
  <2>3. op'.pc = "restore" BY <1>1, <1>2, <1>5, RestoreFacts
  <2> QED BY <1>1, <1>3, <2>1, <2>2, <2>3, Unswitched
<1>6. CASE Degrade({index}) /\ UNCHANGED stored BY <1>2, <1>3, <1>6, DegradeStep
<1> QED BY <1>4, <1>5, <1>6 DEF saveConfig

LEMMA CommitStep ==
  ASSUME IInv, commitBaseSwitch
  PROVE  IInv'
<1>1. SInv /\ StoreOK /\ Tree /\ OpOK BY DEF IInv, TypeOK, SInv, SettingsOK
<1>2. op.pc = "commit" /\ ~Free /\ op.todo = {} BY <1>1 DEF commitBaseSwitch, Free, SInv, Written
<1>3. UNCHANGED <<present, disk, rows, phase, torn>> BY DEF commitBaseSwitch, files
<1>4. op.next \in GoodConfigs /\ op.scan \subseteq Ids /\ op.live \in BOOLEAN /\ op.edited \in BOOLEAN
  BY <1>1, <1>2, OpFacts
<1>5. CASE /\ index' = op.scan /\ root' = [path |-> CurrentPath(op.next), live |-> op.live]
           /\ open' = "ok" /\ synced' = "done" /\ drift' = op.edited /\ Publish(op.next) /\ UNCHANGED degraded
  <2>1. root'.path = CurrentPath(op.next) /\ root'.live = op.live BY <1>5
  <2>2. SInv' BY <1>1, <1>2, <1>3, <1>5, <2>1, PublishStep
  <2>3. CurrentPath(op.next) \in Paths BY <1>4, BasesFacts
  <2>4. root' \in Roots BY <1>4, <1>5, <2>3 DEF Roots
  <2>5. gate' \in [Paths -> {"none", "live", "dead"}] BY <1>1, <1>5 DEF Publish, StoreOK
  <2>6. StoreOK' BY <1>1, <1>3, <1>4, <1>5, <2>4, <2>5 DEF StoreOK
  <2>7. TreeIsDisk' BY <1>1, <1>2, <1>3, <1>5, <2>1 DEF Tree, Scanned, TreeIsDisk, Scan
  <2>8. op'.pc = "free" BY <1>5 DEF Publish, Idle
  <2>9. Tree' BY <1>1, <1>3, <2>7, <2>8 DEF Tree, Scanned
  <2> QED BY <2>2, <2>6, <2>9 DEF IInv, TypeOK, SInv
<1>6. CASE Degrade({index, op.scan}) /\ stored' \in {op.next, config} /\ UNCHANGED <<config, flagged, gate>>
  BY <1>2, <1>3, <1>4, <1>6, DegradeStep
<1> QED BY <1>5, <1>6 DEF commitBaseSwitch

LEMMA FailStep ==
  ASSUME IInv, Fail
  PROVE  IInv'
<1>1. SInv /\ StoreOK /\ Tree /\ OpOK BY DEF IInv, TypeOK, SInv, SettingsOK
<1>2. op.pc = "restore" /\ op.todo = {} /\ ~Free /\ op'.pc = "free" /\ Free' /\ op' = Idle BY DEF Fail, Free, Idle
<1>3. UNCHANGED <<present, disk, index, root, open, synced, drift, gate, config, stored, rows, degraded, phase,
                  flagged, torn>>
  BY DEF Fail, files, store
<1>4. SettingsOK' BY <1>1, <1>2, <1>3 DEF SInv, SettingsOK, OpOK
<1>5. Process' /\ Runtime' /\ Written'
  BY <1>1, <1>2, <1>3 DEF SInv, Process, Runtime, Written, Open, CurrentPath
<1>6. ASSUME Whole' PROVE Before = rows
  <2>1. ~degraded BY <1>3, <1>6 DEF Whole
  <2>2. DOMAIN op.before = DOMAIN op.after BY <1>1, <1>2, OpFacts
  <2>3. \A p \in DOMAIN op.before : rows[p] = op.before[p] BY <1>1, <1>2, <2>1, <2>2 DEF SInv, Written
  <2> QED BY <1>1, <1>2, <2>3, AllWritten DEF Before, SInv
<1>7. Before' = rows BY <1>2, <1>3 DEF Before
<1>8. Aligned' BY <1>1, <1>2, <1>3, <1>6, <1>7 DEF SInv, Aligned, Whole, Matches, Connected
<1>9. Gated' BY <1>1, <1>2, <1>3, <1>6, <1>7 DEF SInv, Gated, Whole, InConflict, Locked, Up
<1>10. SInv' BY <1>4, <1>5, <1>8, <1>9 DEF SInv
<1> QED BY <1>1, <1>2, <1>3, <1>10, Unswitched

LEMMA WritesStep ==
  ASSUME IInv, Writes
  PROVE  IInv'
BY StatusWriteStep, StatusRestoreStep, PersistStep, PrepareStep, SaveConfigStep, CommitStep, FailStep DEF Writes

-----------------------------------------------------------------------------
(* The Git manager, the process and the other programs. *)

\* A job sets the status of a connected base under its name and path.
LEMMA GitStep ==
  ASSUME IInv, NEW n \in DOMAIN config.bases, GitConflict(n) \/ GitSettled(n)
  PROVE  IInv'
<1> DEFINE p == config.bases[n].path
<1>1. SInv /\ StoreOK /\ Tree /\ config \in GoodConfigs BY DEF IInv, TypeOK, SInv, SettingsOK
<1>2. /\ Free /\ Up /\ config.bases[n].git
      /\ UNCHANGED <<files, store, config, stored, degraded, phase, flagged, torn, op>>
  BY DEF GitConflict, GitSettled, Job
<1>3. UNCHANGED <<present, disk, index, root, open, synced, drift>> BY <1>2 DEF files, store
<1>4. p \in Paths /\ n \in Names BY <1>1, BasesFacts
<1>5. PICK state \in {"conflict", "ready"} :
        /\ rows' = [rows EXCEPT ![p] = [base |-> n, state |-> state]]
        /\ gate' = [gate EXCEPT ![p] = IF state = "conflict" THEN "live" ELSE "none"]
  BY DEF GitConflict, GitSettled
<1> HIDE DEF p
<1>6. [base |-> n, state |-> state] \in Rows BY <1>4 DEF Rows, States
<1>7. rows' \in [Paths -> Maybe] /\ gate' \in [Paths -> {"none", "live", "dead"}]
  BY <1>1, <1>5, <1>6 DEF SInv, SettingsOK, StoreOK, Maybe
<1>8. /\ rows'[p] = [base |-> n, state |-> state] /\ rows'[p] # NoRow
      /\ \A q \in Paths : q # p => rows'[q] = rows[q] /\ gate'[q] = gate[q]
      /\ state = "conflict" => gate'[p] = "live"
  BY <1>1, <1>4, <1>5, <1>6, RowFacts DEF SInv, SettingsOK, StoreOK
<1>9. SettingsOK' BY <1>1, <1>2, <1>7 DEF SInv, SettingsOK, OpOK, Free
<1>10. Process' /\ Runtime' /\ Written'
  BY <1>1, <1>2, <1>3 DEF SInv, Process, Runtime, Written, Free, Open, CurrentPath
<1>11. Free' /\ Before' = rows' /\ Before = rows BY <1>2 DEF Before, Free
<1>12. ASSUME Whole' PROVE Matches(rows', config)
  <2>1. Matches(rows, config) BY <1>1, <1>2, <1>11, <1>12 DEF SInv, Aligned, Whole
  <2>2. n \in Connected(config.bases) /\ config.bases[n].path = p BY <1>2 DEF Connected, p
  <2>3. rows[p] # NoRow /\ rows[p].base = n BY <1>4, <2>1, <2>2 DEF Matches
  <2>4. rows'[p].base = n BY <1>8
  <2> QED BY <1>8, <2>1, <2>2, <2>3, <2>4 DEF Matches
<1>13. Aligned' BY <1>2, <1>11, <1>12 DEF Aligned, Matches, Connected
<1>14. ASSUME Whole', NEW q \in Paths, rows'[q] # NoRow, rows'[q].state = "conflict" PROVE Locked(q)'
  <2>1. CASE q = p BY <1>8, <1>14, <2>1 DEF Locked
  <2>2. CASE q # p
    <3>1. q \in InConflict(Before) BY <1>8, <1>11, <1>14, <2>2 DEF InConflict
    <3>2. Locked(q) BY <1>1, <1>2, <1>14, <3>1 DEF SInv, Gated, Whole
    <3> QED BY <1>8, <2>2, <3>2 DEF Locked
  <2> QED BY <2>1, <2>2
<1>15. Gated' BY <1>11, <1>14 DEF Gated, InConflict
<1>16. SInv' BY <1>9, <1>10, <1>13, <1>15 DEF SInv
<1>17. op'.pc \notin {"save", "commit"} BY <1>2 DEF Free
<1> QED BY <1>1, <1>3, <1>7, <1>16, <1>17, Unswitched

\* Configurations that differ in their current base only.
LEMMA SameBases ==
  ASSUME Runtime, SettingsOK, ~degraded, op.pc # "commit"
  PROVE  stored.bases = config.bases
BY BasesFacts DEF Runtime, SettingsOK

LEMMA CrashStep ==
  ASSUME IInv, Crash
  PROVE  IInv'
<1>1. SInv /\ StoreOK /\ Tree BY DEF IInv, TypeOK, SInv
<1>2. /\ phase' = "down" /\ op' = Idle /\ config' = stored /\ torn' = (torn \/ ~Free \/ degraded)
      /\ degraded' = FALSE /\ flagged' = FALSE /\ open' = "down" /\ synced' = "pending" /\ drift' = FALSE
      /\ gate' = [p \in Paths |-> "none"] /\ UNCHANGED <<present, disk, index, root, stored, rows>>
  BY DEF Crash, files
<1>3. op'.pc = "free" /\ Free' BY <1>2 DEF Idle, Free
<1>4. StoreOK' BY <1>1, <1>2 DEF StoreOK
<1>5. torn' \in BOOLEAN BY <1>2
<1>6. SettingsOK' BY <1>1, <1>2, <1>5 DEF SInv, SettingsOK, OpOK, Free, Idle
<1>7. Process' /\ Runtime' /\ Written' BY <1>2, <1>3 DEF Process, Runtime, Written, Open
<1>8. ASSUME Whole' PROVE Matches(rows, stored)
  <2>1. ~torn /\ Free /\ ~degraded BY <1>2, <1>8 DEF Whole
  <2>2. Matches(rows, config) BY <1>1, <2>1 DEF SInv, Aligned, Whole, Before
  <2>3. stored.bases = config.bases BY <1>1, <2>1, SameBases DEF SInv, Free
  <2> QED BY <2>2, <2>3 DEF Matches
<1>9. Aligned' BY <1>2, <1>3, <1>8 DEF Aligned, Before, Matches, Connected
<1>10. Gated' BY <1>2, <1>3 DEF Gated, Up
<1>11. TreeIsDisk' BY <1>2 DEF TreeIsDisk, Readable
<1>12. Tree' BY <1>1, <1>2, <1>3, <1>11 DEF Tree, Scanned
<1> QED BY <1>4, <1>6, <1>7, <1>9, <1>10, <1>12 DEF IInv, TypeOK

LEMMA BootStep ==
  ASSUME IInv, NEW n \in Names, Boot(n)
  PROVE  IInv'
<1>1. SInv /\ StoreOK /\ Tree /\ stored \in GoodConfigs BY DEF IInv, TypeOK, SInv, SettingsOK
<1>2. /\ phase = "down" /\ phase' = "up" /\ n \in DOMAIN stored.bases /\ config' = [stored EXCEPT !.current = n]
      /\ flagged' = (n # stored.current) /\ root' = [path |-> stored.bases[n].path, live |-> TRUE] /\ open' = "ok"
      /\ UNCHANGED <<present, disk, index, synced, drift, stored, rows, degraded, torn, op>>
  BY DEF Boot, files
<1>3. gate' = [p \in Paths |->
                IF rows[p] # NoRow /\ rows[p].state = "conflict"
                   /\ \E m \in Connected(stored.bases) : stored.bases[m].path = p
                THEN "live" ELSE "none"]
  BY DEF Boot
<1>4. Free /\ synced = "pending" /\ ~degraded /\ op.pc = "free" BY <1>1, <1>2 DEF SInv, Process, Free
<1>5. /\ stored = [bases |-> stored.bases, current |-> stored.current, setup |-> stored.setup]
      /\ stored.bases[n].path \in Paths /\ stored.bases \in [DOMAIN stored.bases -> Bases]
      /\ DOMAIN stored.bases \in SUBSET Names /\ stored.setup \in BOOLEAN
      /\ ~stored.setup => \A m \in DOMAIN stored.bases : ~stored.bases[m].git
  BY <1>1, <1>2, BasesFacts DEF Connected
<1>6. config' = [bases |-> stored.bases, current |-> n, setup |-> stored.setup] BY <1>2, <1>5
<1>7. config' \in GoodConfigs
  <2> DEFINE bases == stored.bases
             setup == stored.setup
  <2>1. /\ DOMAIN bases \in SUBSET Names /\ bases \in [DOMAIN bases -> Bases] /\ n \in DOMAIN bases
        /\ setup \in BOOLEAN /\ (~setup => \A m \in DOMAIN bases : ~bases[m].git)
    BY <1>2, <1>5
  <2>2. config' = [bases |-> bases, current |-> n, setup |-> setup] BY <1>6
  <2> HIDE DEF bases, setup
  <2> QED BY <2>1, <2>2, ConfigMade
<1>8. StoreOK'
  <2>1. root' \in Roots BY <1>2, <1>5 DEF Roots
  <2>2. gate' \in [Paths -> {"none", "live", "dead"}] BY <1>3
  <2> QED BY <1>1, <1>2, <2>1, <2>2 DEF StoreOK
<1>9. flagged' \in BOOLEAN BY <1>2
<1>10. SettingsOK' BY <1>1, <1>2, <1>4, <1>7, <1>9 DEF SInv, SettingsOK, OpOK, Free
<1>11. Process' BY <1>2, <1>4 DEF Process
<1>12. Runtime'
  <2>1. config'.current = n /\ config'.bases = stored.bases BY <1>6
  <2>2. CurrentPath(config)' = root'.path BY <1>2, <2>1 DEF CurrentPath
  <2>3. stored = [config' EXCEPT !.current = stored.current] BY <1>5, <1>6
  <2>4. CASE n = stored.current
    <3>1. config' = stored BY <1>5, <1>6, <2>4
    <3> QED BY <1>2, <2>2, <3>1 DEF Runtime
  <2>5. CASE n # stored.current BY <1>2, <2>2, <2>3, <2>5 DEF Runtime
  <2> QED BY <2>4, <2>5
<1>13. Written' BY <1>2, <1>4 DEF Written
<1>14. Free' /\ Before' = rows /\ Before = rows BY <1>2, <1>4 DEF Free, Before
<1>15. ASSUME Whole' PROVE Matches(rows, stored)
  <2>1. Matches(rows, config) BY <1>1, <1>2, <1>4, <1>14, <1>15 DEF SInv, Aligned, Whole
  <2>2. stored.bases = config.bases BY <1>1, <1>4, SameBases DEF SInv, Free
  <2> QED BY <2>1, <2>2 DEF Matches
<1>16. Aligned' BY <1>6, <1>14, <1>15 DEF Aligned, Matches
<1>17. ASSUME Whole', NEW p \in InConflict(rows) PROVE Locked(p)'
  <2>1. p \in Paths /\ rows[p] # NoRow /\ rows[p].state = "conflict" /\ rows[p] \in Maybe
    BY <1>1, <1>17 DEF InConflict, SInv, SettingsOK
  <2>2. rows[p].base \in Names BY <2>1, RowFacts
  <2>3. rows[p].base \in Connected(stored.bases) /\ stored.bases[rows[p].base].path = p
    BY <1>15, <1>17, <2>1, <2>2 DEF Matches
  <2>4. gate'[p] = "live" BY <1>3, <2>1, <2>3
  <2> QED BY <2>4 DEF Locked
<1>18. Gated' BY <1>14, <1>17 DEF Gated
<1>19. TreeIsDisk' BY <1>2, <1>4 DEF TreeIsDisk, Readable
<1>20. Tree' BY <1>1, <1>2, <1>4, <1>19 DEF Tree, Scanned
<1> QED BY <1>8, <1>10, <1>11, <1>12, <1>13, <1>16, <1>18, <1>20 DEF IInv, TypeOK

\* A directory that is removed or changed under a switch leaves a mark in its record.
LEMMA MarkedFacts ==
  ASSUME OpOK, \/ op' = op
               \/ op.pc \in {"save", "commit"} /\ op' = [op EXCEPT !.live = FALSE]
               \/ op.pc \in {"save", "commit"} /\ op' = [op EXCEPT !.edited = TRUE]
  PROVE  /\ op'.pc = op.pc /\ (Free <=> Free') /\ OpOK'
         /\ ~Free => /\ op'.todo = op.todo /\ op'.next = op.next /\ op'.after = op.after
                     /\ op'.before = op.before /\ op'.clear = op.clear
         /\ op.pc \in {"save", "commit"} => /\ op'.scan = op.scan /\ (op'.live => op.live)
                                            /\ (op.edited => op'.edited)
<1>1. CASE op' = op BY <1>1 DEF OpOK, Free
<1>2. CASE op.pc \in {"save", "commit"} /\ op' = [op EXCEPT !.live = FALSE]
  <2>1. ~Free /\ op \in Switching /\ DOMAIN op.before = DOMAIN op.after /\ op.todo \subseteq DOMAIN op.after
    BY <1>2, OpFacts DEF Free
  <2>2. /\ op'.pc = op.pc /\ op'.todo = op.todo /\ op'.next = op.next /\ op'.after = op.after
        /\ op'.before = op.before /\ op'.clear = op.clear /\ op'.scan = op.scan /\ op'.live = FALSE
        /\ op'.edited = op.edited
    BY <1>2, <2>1 DEF Switching
  <2>3. op' \in Switching BY <1>2, <2>1 DEF Switching
  <2> QED BY <2>1, <2>2, <2>3 DEF OpOK, Free
<1>3. CASE op.pc \in {"save", "commit"} /\ op' = [op EXCEPT !.edited = TRUE]
  <2>1. ~Free /\ op \in Switching /\ DOMAIN op.before = DOMAIN op.after /\ op.todo \subseteq DOMAIN op.after
    BY <1>3, OpFacts DEF Free
  <2>2. /\ op'.pc = op.pc /\ op'.todo = op.todo /\ op'.next = op.next /\ op'.after = op.after
        /\ op'.before = op.before /\ op'.clear = op.clear /\ op'.scan = op.scan /\ op'.live = op.live
        /\ op'.edited = TRUE
    BY <1>3, <2>1 DEF Switching
  <2>3. op' \in Switching BY <1>3, <2>1 DEF Switching
  <2> QED BY <2>1, <2>2, <2>3 DEF OpOK, Free
<1> QED BY <1>1, <1>2, <1>3

LEMMA MarkedStep ==
  ASSUME SInv, \/ op' = op
               \/ op.pc \in {"save", "commit"} /\ op' = [op EXCEPT !.live = FALSE]
               \/ op.pc \in {"save", "commit"} /\ op' = [op EXCEPT !.edited = TRUE],
         UNCHANGED <<config, stored, rows, degraded, phase, flagged, torn, open, synced>>, root'.path = root.path,
         \A p \in Paths : Locked(p) => Locked(p)'
  PROVE  SInv'
<1>1. SettingsOK /\ OpOK BY DEF SInv, SettingsOK
<1>2. /\ op'.pc = op.pc /\ (Free <=> Free') /\ OpOK'
      /\ ~Free => /\ op'.todo = op.todo /\ op'.next = op.next /\ op'.after = op.after
                  /\ op'.before = op.before /\ op'.clear = op.clear
  BY <1>1, MarkedFacts
<1>3. SettingsOK' BY <1>1, <1>2 DEF SettingsOK
<1>4. Process' /\ Runtime' /\ Written'
  <2>1. Process' /\ Runtime' BY <1>2 DEF SInv, Process, Runtime, Open, CurrentPath
  <2>2. Written'
    <3>1. CASE Free BY <1>2, <3>1 DEF Written, Free
    <3>2. CASE ~Free BY <1>2, <3>2 DEF SInv, Written
    <3> QED BY <3>1, <3>2
  <2> QED BY <2>1, <2>2
<1>5. Aligned' /\ Gated'
  <2>1. CASE Free
    <3>1. Before' = Before BY <1>2, <2>1 DEF Before
    <3> QED BY <1>2, <2>1, <3>1 DEF SInv, Aligned, Gated, Whole, Up, Matches, InConflict
  <2>2. CASE ~Free
    <3>1. Updated(op.before)' = Updated(op.before) /\ Updated(op.after)' = Updated(op.after)
      BY <1>2, <2>2 DEF Updated
    <3>2. Whole' => Whole BY DEF Whole
    <3> QED BY <1>2, <2>2, <3>1, <3>2, Carried DEF SInv
  <2> QED BY <2>1, <2>2
<1> QED BY <1>3, <1>4, <1>5 DEF SInv

LEMMA MakeStep ==
  ASSUME IInv, NEW p \in Paths, MakeDirectory(p)
  PROVE  IInv'
<1>1. SInv /\ StoreOK /\ Tree BY DEF IInv, TypeOK, SInv
<1>2. /\ present' = present \cup {p}
      /\ UNCHANGED <<disk, index, root, open, synced, drift, gate, config, stored, rows, degraded, phase,
                     flagged, torn, op>>
  BY DEF MakeDirectory, store, settings
<1>3. SInv'
  <2>1. root'.path = root.path /\ \A q \in Paths : Locked(q) => Locked(q)' BY <1>2 DEF Locked
  <2> QED BY <1>1, <1>2, <2>1, MarkedStep
<1>4. StoreOK' BY <1>1, <1>2 DEF StoreOK
<1>5. TreeIsDisk' BY <1>1, <1>2 DEF Tree, TreeIsDisk, Readable, Open, Scan
<1>6. Tree' BY <1>1, <1>2, <1>5 DEF Tree, Scanned, Scan, CurrentPath
<1> QED BY <1>3, <1>4, <1>6 DEF IInv, TypeOK, SInv

LEMMA RemoveStep ==
  ASSUME IInv, NEW p \in Paths, RemoveDirectory(p)
  PROVE  IInv'
<1>1. SInv /\ StoreOK /\ Tree /\ OpOK BY DEF IInv, TypeOK, SInv, SettingsOK
<1>2. /\ present' = present \ {p} /\ disk' = [disk EXCEPT ![p] = Empty]
      /\ root' = [root EXCEPT !.live = @ /\ root.path # p]
      /\ gate' = [gate EXCEPT ![p] = IF @ = "live" THEN "dead" ELSE @]
      /\ UNCHANGED <<index, open, synced, drift, config, stored, rows, degraded, phase, flagged, torn>>
  BY DEF RemoveDirectory
<1>3. \/ op' = op /\ ~(op.pc \in {"save", "commit"} /\ CurrentPath(op.next) = p)
      \/ op.pc \in {"save", "commit"} /\ op' = [op EXCEPT !.live = FALSE] /\ CurrentPath(op.next) = p
  BY DEF RemoveDirectory
<1>4. root \in Roots /\ disk \in [Paths -> [Ids -> Entries]] /\ gate \in [Paths -> {"none", "live", "dead"}]
  BY <1>1 DEF StoreOK
<1>5. root' = [path |-> root.path, live |-> (root.live /\ root.path # p)] BY <1>2, <1>4 DEF Roots
<1>6. root'.path = root.path /\ root.path \in Paths /\ (root'.live => root.live /\ root.path # p)
  BY <1>4, <1>5 DEF Roots
<1>7. root' \in Roots BY <1>4, <1>5 DEF Roots
<1>8. gate' \in [Paths -> {"none", "live", "dead"}] /\ \A q \in Paths : Locked(q) => Locked(q)'
  BY <1>2, <1>4 DEF Locked
<1>9. SInv' BY <1>1, <1>2, <1>3, <1>6, <1>8, MarkedStep
<1>10. Empty \in [Ids -> Entries] /\ Rooted(Empty) BY EntryFacts, IdFacts DEF Empty, Rooted
<1>11. disk' \in [Paths -> [Ids -> Entries]] /\ disk'[p] = Empty /\ \A q \in Paths : q # p => disk'[q] = disk[q]
  BY <1>2, <1>4, <1>10
<1>12. StoreOK' BY <1>1, <1>2, <1>7, <1>8, <1>11 DEF StoreOK
<1>13. TreeIsDisk' BY <1>1, <1>2, <1>6, <1>11 DEF Tree, TreeIsDisk, Readable, Open, Scan
<1>14. Scanned'
  <2> SUFFICES ASSUME op'.pc \in {"save", "commit"}, op'.live, ~op'.edited
               PROVE  op'.scan = Scan(CurrentPath(op.next))'
    BY DEF Scanned
  <2>1. op.pc \in {"save", "commit"} /\ ~Free BY <1>1, <1>3, MarkedFacts DEF Free
  <2>2. op.live /\ ~op.edited /\ op'.scan = op.scan /\ op'.next = op.next BY <1>1, <1>3, <2>1, MarkedFacts
  <2>3. CurrentPath(op.next) # p
    <3>1. CASE op' = op /\ ~(op.pc \in {"save", "commit"} /\ CurrentPath(op.next) = p) BY <2>1, <3>1
    <3>2. CASE op' = [op EXCEPT !.live = FALSE]
      <4>1. op'.live = FALSE BY <1>1, <2>1, <3>2, OpFacts DEF Switching
      <4> QED BY <4>1
    <3> QED BY <1>3, <3>1, <3>2
  <2>4. CurrentPath(op.next) \in Paths BY <1>1, <2>1, OpFacts, BasesFacts
  <2>5. op.scan = Scan(CurrentPath(op.next)) BY <1>1, <2>1, <2>2 DEF Tree, Scanned
  <2>6. CurrentPath(op.next)' = CurrentPath(op.next) BY <2>2 DEF CurrentPath
  <2> QED BY <1>11, <2>2, <2>3, <2>4, <2>5, <2>6 DEF Scan
<1>15. Tree' BY <1>1, <1>10, <1>11, <1>13, <1>14 DEF Tree
<1> QED BY <1>9, <1>12, <1>15 DEF IInv, TypeOK, SInv

LEMMA ElsewhereStep ==
  ASSUME IInv, NEW p \in Paths, NEW id \in Ids, NEW entry \in Entries, Elsewhere(p, id, entry)
  PROVE  IInv'
<1> DEFINE removed == [i \in Ids |-> IF i \in Below(id) THEN "absent" ELSE disk[p][i]]
           e == IF entry = "absent" THEN removed ELSE Put(disk[p], id, entry)
<1>1. SInv /\ StoreOK /\ Tree /\ OpOK BY DEF IInv, TypeOK, SInv, SettingsOK
<1>2. disk \in [Paths -> [Ids -> Entries]] /\ disk[p] \in [Ids -> Entries] /\ Rooted(disk[p]) BY <1>1 DEF StoreOK, Tree
<1>3. disk' = [disk EXCEPT ![p] = e] BY <1>2 DEF Elsewhere, EditOutside
<1>4. /\ drift' = (drift \/ (p = root.path /\ root.live))
      /\ UNCHANGED <<present, index, root, open, synced, gate, config, stored, rows, degraded, phase, flagged, torn>>
  BY DEF Elsewhere, EditOutside
<1>5. \/ op' = op /\ ~(op.pc \in {"save", "commit"} /\ CurrentPath(op.next) = p)
      \/ op.pc \in {"save", "commit"} /\ op' = [op EXCEPT !.edited = TRUE] /\ CurrentPath(op.next) = p
  BY DEF Elsewhere
<1>6. e \in [Ids -> Entries] /\ Rooted(e)
  <2>1. removed \in [Ids -> Entries] /\ Rooted(removed) BY <1>2, RemovedFacts
  <2>2. Put(disk[p], id, entry) \in [Ids -> Entries] /\ (entry # "absent" => Rooted(Put(disk[p], id, entry)))
    BY <1>2, PutFacts
  <2> HIDE DEF removed
  <2>3. CASE entry = "absent" BY <2>1, <2>3
  <2>4. CASE entry # "absent" BY <2>2, <2>4
  <2> QED BY <2>3, <2>4
<1> HIDE DEF e
<1>7. SInv'
  <2>1. root'.path = root.path /\ \A q \in Paths : Locked(q) => Locked(q)' BY <1>4 DEF Locked
  <2> QED BY <1>1, <1>4, <1>5, <2>1, MarkedStep
<1>8. disk' \in [Paths -> [Ids -> Entries]] /\ disk'[p] = e /\ \A q \in Paths : q # p => disk'[q] = disk[q]
  BY <1>2, <1>3, <1>6
<1>9. drift' \in BOOLEAN BY <1>1, <1>4 DEF StoreOK, Roots
<1>10. StoreOK' BY <1>1, <1>4, <1>8, <1>9 DEF StoreOK
<1>11. root.path \in Paths BY <1>1 DEF StoreOK, Roots
<1>12. TreeIsDisk' BY <1>1, <1>4, <1>8, <1>11 DEF Tree, TreeIsDisk, Readable, Open, Scan
<1>13. Scanned'
  <2> SUFFICES ASSUME op'.pc \in {"save", "commit"}, op'.live, ~op'.edited
               PROVE  op'.scan = Scan(CurrentPath(op.next))'
    BY DEF Scanned
  <2>1. op.pc \in {"save", "commit"} /\ ~Free BY <1>1, <1>5, MarkedFacts DEF Free
  <2>2. op.live /\ ~op.edited /\ op'.scan = op.scan /\ op'.next = op.next BY <1>1, <1>5, <2>1, MarkedFacts
  <2>3. CurrentPath(op.next) # p
    <3>1. CASE op' = op /\ ~(op.pc \in {"save", "commit"} /\ CurrentPath(op.next) = p) BY <2>1, <3>1
    <3>2. CASE op' = [op EXCEPT !.edited = TRUE]
      <4>1. op'.edited = TRUE BY <1>1, <2>1, <3>2, OpFacts DEF Switching
      <4> QED BY <4>1
    <3> QED BY <1>5, <3>1, <3>2
  <2>4. CurrentPath(op.next) \in Paths BY <1>1, <2>1, OpFacts, BasesFacts
  <2>5. op.scan = Scan(CurrentPath(op.next)) BY <1>1, <2>1, <2>2 DEF Tree, Scanned
  <2>6. CurrentPath(op.next)' = CurrentPath(op.next) BY <2>2 DEF CurrentPath
  <2> QED BY <1>8, <2>2, <2>3, <2>4, <2>5, <2>6 DEF Scan
<1>14. Tree' BY <1>1, <1>6, <1>8, <1>12, <1>13 DEF Tree
<1> QED BY <1>7, <1>10, <1>14 DEF IInv, TypeOK, SInv

LEMMA OthersStep ==
  ASSUME IInv, Others
  PROVE  IInv'
BY GitStep, CrashStep, BootStep, MakeStep, RemoveStep, ElsewhereStep DEF Others

\* The notes leave the settings and, but for a base that fails closed, the base.
LEMMA NotesKeepIInv ==
  ASSUME IInv, Notes
  PROVE  IInv'
<1>1. SInv /\ StoreOK /\ Tree BY DEF IInv, TypeOK, SInv
<1>2. NotesKept /\ Up /\ BaseMuFree /\ UNCHANGED settings BY <1>1, NotesStep DEF Tree
<1>3. UNCHANGED <<config, stored, rows, degraded, phase, flagged, torn, op, root, gate>>
  BY <1>2 DEF settings, NotesKept
<1>4. op.pc \notin {"save", "commit"} /\ phase = "up" BY <1>2 DEF BaseMuFree, Up
<1>5. Open' => Open BY <1>2 DEF NotesKept
<1>6. SettingsOK' BY <1>1, <1>3 DEF SInv, SettingsOK, OpOK, Free
<1>7. Process' BY <1>3, <1>4 DEF Process
<1>8. Runtime' BY <1>1, <1>3, <1>5 DEF SInv, Runtime, CurrentPath
<1>9. Written' BY <1>1, <1>3 DEF SInv, Written
<1>10. Aligned' BY <1>1, <1>3 DEF SInv, Aligned, Whole, Matches, Before, After, Updated, Free, Connected
<1>11. Gated'
  <2>1. Before' = Before /\ After' = After BY <1>3 DEF Before, After, Updated, Free
  <2> QED BY <1>1, <1>3, <2>1 DEF SInv, Gated, Whole, Up, Free, InConflict, Locked, PathsOf
<1>12. Tree' BY <1>2, <1>3, <1>4 DEF NotesKept, Tree, Scanned
<1>13. StoreOK' BY <1>2 DEF NotesKept
<1> QED BY <1>6, <1>7, <1>8, <1>9, <1>10, <1>11, <1>12, <1>13 DEF IInv, TypeOK

-----------------------------------------------------------------------------
(* The operations, from their checks. *)

\* What the checks of an operation establish.
Sound(next, changes) ==
  Whole => Matches(Updated(changes), next) /\ InConflict(Updated(changes)) \subseteq InConflict(rows)

LEMMA ClearedFacts ==
  ASSUME config \in GoodConfigs, NEW next, NEW changes
  PROVE  Cleared(next, changes) \subseteq Paths /\ Cleared(next, changes) \cap PathsOf(next.bases) = {}
<1> PathsOf(config.bases) \subseteq Paths BY BasesFacts
<1> DEFINE stable == present \cup Identified(changes)
           kept == PathsOf(next.bases)
           cleared == {p \in (PathsOf(config.bases) \cap stable) \ kept : p \in present /\ gate[p] = "live"}
<1>1. cleared \subseteq Paths /\ cleared \cap kept = {} OBVIOUS
<1>2. Cleared(next, changes) = IF kept \subseteq stable THEN cleared ELSE {} BY DEF Cleared
<1> HIDE DEF cleared
<1> QED BY <1>1, <1>2

LEMMA BeganStep ==
  ASSUME IInv, Begin, present' \subseteq Paths, UNCHANGED disk,
         NEW next \in GoodConfigs, NEW changes \in Changes, NEW switches \in BOOLEAN,
         Start(next, changes, switches), Sound(next, changes)
  PROVE  IInv'
<1>1. SInv /\ StoreOK /\ Tree BY DEF IInv, TypeOK, SInv
<1>2. /\ Up /\ Free /\ ~degraded
      /\ UNCHANGED <<index, root, open, synced, drift, gate, config, stored, rows, degraded, phase, flagged, torn>>
  BY DEF Begin, store
<1> DEFINE old == [p \in DOMAIN changes |-> rows[p]]
           clear == Cleared(next, changes)
<1>3. op' = [pc |-> "statuses", next |-> next, after |-> changes, before |-> old, todo |-> DOMAIN changes,
             switches |-> switches, clear |-> clear]
  BY DEF Start
<1>4. DOMAIN changes \subseteq Paths BY ChangesFacts
<1>5. old \in Changes
  <2>1. old \in [DOMAIN changes -> Maybe] BY <1>1, <1>4 DEF SInv, SettingsOK
  <2> HIDE DEF old
  <2> QED BY <1>4, <2>1, ChangesMade
<1>6. clear \subseteq Paths /\ clear \cap PathsOf(next.bases) = {} BY <1>1, ClearedFacts DEF SInv, SettingsOK
<1>7. DOMAIN old = DOMAIN changes /\ \A p \in DOMAIN old : rows[p] = old[p] OBVIOUS
<1> HIDE DEF old, clear
<1>8. op' \in Begun BY <1>3, <1>4, <1>5, <1>6 DEF Begun
<1>9. /\ op'.pc = "statuses" /\ op'.next = next /\ op'.after = changes /\ op'.before = old
      /\ op'.todo = DOMAIN changes /\ op'.clear = clear
  BY <1>3
<1>10. ~Free' BY <1>9 DEF Free
<1>11. SettingsOK' BY <1>1, <1>2, <1>7, <1>8, <1>9 DEF SInv, SettingsOK, OpOK
<1>12. op.pc = "free" /\ phase = "up" BY <1>2 DEF Free, Up
<1>13. Process' /\ Runtime' /\ Written'
  BY <1>1, <1>2, <1>9, <1>12 DEF SInv, Process, Runtime, Written, Open, CurrentPath
<1>14. Updated(old) = rows BY <1>1, <1>7, AllWritten DEF SInv
<1>15. Before' = rows /\ After' = Updated(changes)
  <2>1. Before' = Updated(old)
    BY <1>2, <1>9, <1>10 DEF Before, Updated
  <2>2. After' = Updated(changes) BY <1>2, <1>9 DEF After, Updated
  <2> QED BY <1>14, <2>1, <2>2
<1>16. Before = rows BY <1>2 DEF Before
<1>17. ASSUME Whole'
       PROVE  /\ Matches(rows, config) /\ Matches(Updated(changes), next)
              /\ InConflict(Updated(changes)) \subseteq InConflict(rows)
              /\ \A p \in InConflict(rows) : Locked(p)
  <2>1. Whole BY <1>2, <1>17 DEF Whole
  <2> QED BY <1>1, <1>2, <1>16, <2>1 DEF Sound, SInv, Aligned, Gated
<1>18. Aligned' BY <1>2, <1>9, <1>15, <1>17 DEF Aligned, Matches, Connected
<1>19. Gated' BY <1>2, <1>6, <1>9, <1>15, <1>17 DEF Gated, InConflict, Locked, PathsOf
<1>20. StoreOK' BY <1>1, <1>2 DEF StoreOK
<1>21. TreeIsDisk' BY <1>1, <1>2 DEF Tree, TreeIsDisk, Readable, Open, Scan
<1>22. Tree' BY <1>1, <1>9, <1>21 DEF Tree, Scanned
<1> QED BY <1>11, <1>13, <1>18, <1>19, <1>20, <1>22 DEF IInv, TypeOK

\* Between two operations a base has its row, if any, at its path.
LEMMA RowsMatch ==
  ASSUME IInv, Free, Whole
  PROVE  /\ Matches(rows, config)
         /\ \A n \in Names : \A p \in Paths : p \in Named(n) <=> n \in Connected(config.bases) /\ config.bases[n].path = p
         /\ \A n \in DOMAIN config.bases : /\ Owned(n) <=> config.bases[n].git
                                           /\ StatusPath(n) = config.bases[n].path
<1>1. config \in GoodConfigs /\ Matches(rows, config) BY DEF IInv, TypeOK, SettingsOK, Aligned, Before
<1>2. ASSUME NEW n \in Names, NEW p \in Paths
      PROVE  p \in Named(n) <=> n \in Connected(config.bases) /\ config.bases[n].path = p
  BY <1>1 DEF Named, Matches
<1>3. ASSUME NEW n \in DOMAIN config.bases
      PROVE  (Owned(n) <=> config.bases[n].git) /\ StatusPath(n) = config.bases[n].path
  <2>1. n \in Names /\ config.bases[n].path \in Paths BY <1>1, BasesFacts
  <2>2. Named(n) \subseteq Paths BY DEF Named
  <2>3. CASE config.bases[n].git
    <3>1. Named(n) = {config.bases[n].path} BY <1>2, <2>1, <2>2, <2>3 DEF Connected
    <3> QED BY <2>3, <3>1 DEF Owned, StatusPath
  <2>4. CASE ~config.bases[n].git
    <3>1. Named(n) = {} BY <1>2, <2>1, <2>2, <2>4 DEF Connected
    <3> QED BY <2>4, <3>1 DEF Owned, StatusPath
  <2> QED BY <2>3, <2>4
<1> QED BY <1>1, <1>2, <1>3

\* No row changes.
LEMMA NothingChanged ==
  ASSUME IInv
  PROVE  NoChanges \in Changes /\ Updated(NoChanges) = rows
<1>1. NoChanges \in [{} -> Maybe] /\ DOMAIN NoChanges = {} BY DEF NoChanges
<1>2. NoChanges \in Changes BY <1>1, ChangesMade
<1>3. Updated(NoChanges) = rows BY <1>1, AllWritten DEF IInv, TypeOK
<1> QED BY <1>2, <1>3

\* The same connected bases at the same paths.
LEMMA SameRows ==
  ASSUME IInv, Free, NEW next,
         \A n \in Names, p \in Paths : (n \in Connected(next.bases) /\ next.bases[n].path = p)
                                       <=> (n \in Connected(config.bases) /\ config.bases[n].path = p)
  PROVE  Sound(next, NoChanges)
<1>1. Updated(NoChanges) = rows BY NothingChanged
<1>2. ASSUME Whole PROVE Matches(rows, next) BY <1>2, RowsMatch DEF Matches
<1> QED BY <1>1, <1>2 DEF Sound

LEMMA DirectoryFacts ==
  ASSUME StoreOK, NEW p \in Paths, NEW create \in BOOLEAN, BaseDirectory(p, create)
  PROVE  present' \subseteq Paths /\ UNCHANGED disk
BY DEF BaseDirectory, StoreOK, files

\* A configuration with other bases.
LEMMA BasesMade ==
  ASSUME config \in GoodConfigs, NEW N \in SUBSET Names, NEW b \in [N -> Bases], NEW n \in N,
         ~config.setup => \A m \in N : ~b[m].git,
         NEW next, next = [config EXCEPT !.bases = b, !.current = n]
  PROVE  next \in GoodConfigs /\ next.bases = b
<1> DEFINE setup == config.setup
<1>1. config = [bases |-> config.bases, current |-> config.current, setup |-> setup] /\ setup \in BOOLEAN
  BY BasesFacts
<1>2. next = [bases |-> b, current |-> n, setup |-> setup] BY <1>1
<1>3. ~setup => \A m \in N : ~b[m].git OBVIOUS
<1> HIDE DEF setup
<1>4. [bases |-> b, current |-> n, setup |-> setup] \in GoodConfigs BY <1>1, <1>3, ConfigMade
<1> QED BY <1>2, <1>4

LEMMA SetupStep ==
  ASSUME IInv, NEW n \in Names, NEW p \in Paths, NEW create \in BOOLEAN, CompleteSetup(n, p, create)
  PROVE  IInv'
<1> DEFINE b == [m \in {n} |-> [path |-> p, git |-> FALSE]]
           next == [bases |-> b, current |-> n, setup |-> TRUE]
<1>1. StoreOK /\ config \in GoodConfigs BY DEF IInv, TypeOK, SettingsOK
<1>2. Begin /\ Free /\ ~config.setup /\ Start(next, NoChanges, TRUE) /\ BaseDirectory(p, create)
  BY DEF CompleteSetup, Begin
<1>3. present' \subseteq Paths /\ UNCHANGED disk BY <1>1, <1>2, DirectoryFacts
<1>4. b \in [{n} -> Bases] /\ {n} \in SUBSET Names /\ ~b[n].git BY DEF Bases
<1>5. next.bases = b /\ Connected(b) = {} BY <1>4 DEF Connected
<1>6. Connected(config.bases) = {} BY <1>1, <1>2, BasesFacts
<1> HIDE DEF b
<1>7. next \in GoodConfigs BY <1>4, ConfigMade
<1> HIDE DEF next
<1>8. Sound(next, NoChanges) BY <1>2, <1>5, <1>6, SameRows
<1> QED BY <1>2, <1>3, <1>7, <1>8, NothingChanged, BeganStep

LEMMA AddStep ==
  ASSUME IInv, NEW n \in Names, NEW p \in Paths, NEW create \in BOOLEAN, AddBase(n, p, create)
  PROVE  IInv'
<1> DEFINE N == DOMAIN config.bases \cup {n}
           b == [m \in N |-> IF m = n THEN [path |-> p, git |-> FALSE] ELSE config.bases[m]]
           next == [config EXCEPT !.bases = b, !.current = config.current]
<1>1. StoreOK /\ config \in GoodConfigs BY DEF IInv, TypeOK, SettingsOK
<1>2. /\ DOMAIN config.bases \subseteq Names /\ config.bases \in [DOMAIN config.bases -> Bases]
      /\ config.current \in DOMAIN config.bases
      /\ config = [bases |-> config.bases, current |-> config.current, setup |-> config.setup]
      /\ ~config.setup => \A m \in DOMAIN config.bases : ~config.bases[m].git
  BY <1>1, BasesFacts DEF Connected
<1>3. [config EXCEPT !.bases = b] = next BY <1>2
<1>4. Begin /\ Free /\ n \notin DOMAIN config.bases /\ BaseDirectory(p, create) /\ Start(next, NoChanges, FALSE)
  <2>1. Start([config EXCEPT !.bases = b], NoChanges, FALSE) BY <1>2 DEF AddBase
  <2> HIDE DEF b
  <2>2. Start(next, NoChanges, FALSE) BY <1>3, <2>1
  <2> HIDE DEF next
  <2> QED BY <2>2 DEF AddBase, Begin
<1>5. present' \subseteq Paths /\ UNCHANGED disk BY <1>1, <1>4, DirectoryFacts
<1>6. N \in SUBSET Names /\ config.current \in N BY <1>2
<1>7. b \in [N -> Bases] BY <1>2 DEF Bases
<1>8. \A m \in N : b[m].git <=> m \in DOMAIN config.bases /\ config.bases[m].git BY <1>4
<1>9. \A m \in DOMAIN config.bases : b[m] = config.bases[m] BY <1>4
<1> HIDE DEF b
<1>10. next \in GoodConfigs /\ next.bases = b
  <2>1. ~config.setup => \A m \in N : ~b[m].git BY <1>2, <1>8
  <2> DEFINE n0 == config.current
  <2>2. next = [config EXCEPT !.bases = b, !.current = n0] /\ n0 \in N BY <1>6
  <2> HIDE DEF N, next, n0
  <2> QED BY <1>1, <1>6, <1>7, <2>1, <2>2, BasesMade
<1> HIDE DEF next
<1>11. \A m \in Names, q \in Paths : (m \in Connected(next.bases) /\ next.bases[m].path = q)
                                     <=> (m \in Connected(config.bases) /\ config.bases[m].path = q)
  BY <1>7, <1>8, <1>9, <1>10 DEF Connected
<1>12. Sound(next, NoChanges) BY <1>4, <1>11, SameRows
<1> QED BY <1>4, <1>5, <1>10, <1>12, NothingChanged, BeganStep

LEMMA SwitchStep ==
  ASSUME IInv, NEW n \in Names, SwitchBase(n)
  PROVE  IInv'
<1> DEFINE next == [config EXCEPT !.bases = config.bases, !.current = n]
           N == DOMAIN config.bases
<1>1. StoreOK /\ config \in GoodConfigs BY DEF IInv, TypeOK, SettingsOK
<1>2. /\ N \subseteq Names /\ config.bases \in [N -> Bases]
      /\ config = [bases |-> config.bases, current |-> config.current, setup |-> config.setup]
      /\ ~config.setup => \A m \in N : ~config.bases[m].git
  BY <1>1, BasesFacts DEF Connected
<1>3. [config EXCEPT !.current = n] = next BY <1>2
<1>4. Begin /\ Free /\ n \in N /\ Start(next, NoChanges, TRUE) /\ UNCHANGED files
  BY <1>3 DEF SwitchBase, Begin
<1>5. present' \subseteq Paths /\ UNCHANGED disk BY <1>1, <1>4 DEF files, StoreOK
<1>6. next \in GoodConfigs /\ next.bases = config.bases
  <2> DEFINE b == config.bases
  <2>1. N \in SUBSET Names /\ b \in [N -> Bases] /\ n \in N /\ (~config.setup => \A m \in N : ~b[m].git)
    BY <1>2, <1>4
  <2>2. next = [config EXCEPT !.bases = b, !.current = n] OBVIOUS
  <2> HIDE DEF b, N, next
  <2>3. next \in GoodConfigs /\ next.bases = b BY <1>1, <2>1, <2>2, BasesMade
  <2> QED BY <2>3 DEF b
<1> HIDE DEF next
<1>7. Sound(next, NoChanges) BY <1>4, <1>6, SameRows
<1> QED BY <1>4, <1>5, <1>6, <1>7, NothingChanged, BeganStep

\* The row of a base that is removed, or whose Git is.
LEMMA RemovedSound ==
  ASSUME IInv, Free, NEW n \in Names, NEW next,
         \A m \in Names, p \in Paths : (m \in Connected(next.bases) /\ next.bases[m].path = p)
                                       <=> (m # n /\ m \in Connected(config.bases) /\ config.bases[m].path = p)
  PROVE  Removed(n) \in Changes /\ Sound(next, Removed(n))
<1>1. Named(n) \subseteq Paths BY DEF Named
<1>2. Removed(n) \in [Named(n) -> Maybe] /\ DOMAIN Removed(n) = Named(n) BY DEF Removed, Maybe
<1>3. Removed(n) \in Changes BY <1>1, <1>2, ChangesMade
<1>4. \A p \in Paths : Updated(Removed(n))[p] = IF p \in Named(n) THEN NoRow ELSE rows[p]
  BY <1>2 DEF Updated, Removed
<1>5. ASSUME Whole PROVE Matches(Updated(Removed(n)), next)
  <2>1. \A p \in Paths : p \in Named(n) <=> rows[p] # NoRow /\ rows[p].base = n BY DEF Named
  <2>2. Matches(rows, config) BY <1>5, RowsMatch
  <2> QED BY <1>4, <2>1, <2>2 DEF Matches
<1>6. InConflict(Updated(Removed(n))) \subseteq InConflict(rows) BY <1>4 DEF InConflict
<1> QED BY <1>3, <1>5, <1>6 DEF Sound

LEMMA ForgetStep ==
  ASSUME IInv, NEW n \in Names, ForgetBase(n)
  PROVE  IInv'
<1> DEFINE N == DOMAIN config.bases \ {n}
           b == [m \in N |-> config.bases[m]]
           current == config.current
           next == [config EXCEPT !.bases = b, !.current = current]
<1>1. StoreOK /\ config \in GoodConfigs BY DEF IInv, TypeOK, SettingsOK
<1>2. /\ DOMAIN config.bases \subseteq Names /\ config.bases \in [DOMAIN config.bases -> Bases]
      /\ config.current \in DOMAIN config.bases
      /\ config = [bases |-> config.bases, current |-> config.current, setup |-> config.setup]
      /\ ~config.setup => \A m \in DOMAIN config.bases : ~config.bases[m].git
  BY <1>1, BasesFacts DEF Connected
<1>3. [config EXCEPT !.bases = b] = next BY <1>2
<1>4. Begin /\ Free /\ current \in N /\ UNCHANGED files /\ Start(next, Removed(n), FALSE)
  <2>1. Start([config EXCEPT !.bases = b], Removed(n), FALSE) BY <1>2 DEF ForgetBase
  <2> HIDE DEF b
  <2>2. Start(next, Removed(n), FALSE) BY <1>3, <2>1
  <2> HIDE DEF next
  <2> QED BY <2>2, <1>2 DEF ForgetBase, Begin
<1>5. present' \subseteq Paths /\ UNCHANGED disk BY <1>1, <1>4 DEF files, StoreOK
<1>6. /\ N \in SUBSET Names /\ b \in [N -> Bases] /\ (\A m \in N : b[m] = config.bases[m])
      /\ ~config.setup => \A m \in N : ~b[m].git
  BY <1>2
<1>7. next \in GoodConfigs /\ next.bases = b
  <2>1. next = [config EXCEPT !.bases = b, !.current = current] OBVIOUS
  <2>2. N \in SUBSET Names /\ b \in [N -> Bases] /\ current \in N BY <1>4, <1>6
  <2>3. ~config.setup => \A m \in N : ~b[m].git BY <1>6
  <2> HIDE DEF N, b, next, current
  <2> QED BY <1>1, <2>1, <2>2, <2>3, BasesMade
<1> HIDE DEF b, next
<1>8. \A m \in Names, p \in Paths : (m \in Connected(next.bases) /\ next.bases[m].path = p)
                                    <=> (m # n /\ m \in Connected(config.bases) /\ config.bases[m].path = p)
  BY <1>6, <1>7 DEF Connected
<1>9. Removed(n) \in Changes /\ Sound(next, Removed(n)) BY <1>4, <1>8, RemovedSound
<1> QED BY <1>4, <1>5, <1>7, <1>9, BeganStep

\* A base with or without Git.
WithGit(n, git) == [config EXCEPT !.bases[n].git = git]

LEMMA GitMade ==
  ASSUME config \in GoodConfigs, config.setup, NEW n \in DOMAIN config.bases, NEW git \in BOOLEAN,
         NEW next, next = WithGit(n, git)
  PROVE  /\ next \in GoodConfigs /\ DOMAIN next.bases = DOMAIN config.bases
         /\ next.bases[n].git = git /\ next.bases[n].path = config.bases[n].path
         /\ \A m \in DOMAIN config.bases : m # n => next.bases[m] = config.bases[m]
<1> DEFINE N == DOMAIN config.bases
           b == [config.bases EXCEPT ![n] = [path |-> config.bases[n].path, git |-> git]]
           current == config.current
<1>1. /\ N \in SUBSET Names /\ config.bases \in [N -> Bases] /\ current \in N
      /\ config = [bases |-> config.bases, current |-> current, setup |-> config.setup]
      /\ config.bases[n].path \in Paths
  BY BasesFacts
<1>2. config.bases[n] = [path |-> config.bases[n].path, git |-> config.bases[n].git] BY <1>1 DEF Bases
<1>3. [config.bases[n] EXCEPT !.git = git] = [path |-> config.bases[n].path, git |-> git] BY <1>2
<1>4. next = [config EXCEPT !.bases = [config.bases EXCEPT ![n] = [config.bases[n] EXCEPT !.git = git]]]
  BY DEF WithGit
<1>5. next = [config EXCEPT !.bases = b] BY <1>3, <1>4
<1>6. [path |-> config.bases[n].path, git |-> git] \in Bases BY <1>1 DEF Bases
<1>7. /\ b \in [N -> Bases] /\ b[n].git = git /\ b[n].path = config.bases[n].path
      /\ \A m \in N : m # n => b[m] = config.bases[m]
  BY <1>1, <1>6
<1>8. next = [config EXCEPT !.bases = b, !.current = current]
  <2> HIDE DEF b
  <2> QED BY <1>1, <1>5
<1>9. next \in GoodConfigs /\ next.bases = b
  <2>1. N \in SUBSET Names /\ b \in [N -> Bases] /\ current \in N BY <1>1, <1>7
  <2>2. ~config.setup => \A m \in N : ~b[m].git OBVIOUS
  <2>3. config \in GoodConfigs OBVIOUS
  <2> HIDE DEF N, b, current
  <2> QED BY ONLY <1>8, <2>1, <2>2, <2>3, BasesMade
<1>10. DOMAIN b = N BY <1>7
<1> HIDE DEF b
<1> QED BY <1>7, <1>9, <1>10

LEMMA ConfigureStep ==
  ASSUME IInv, NEW n \in Names, ConfigureGit(n)
  PROVE  IInv'
<1> DEFINE p == config.bases[n].path
           next == WithGit(n, TRUE)
           changes == [q \in {p} |-> needsReconnect(n)]
<1>1. StoreOK /\ config \in GoodConfigs BY DEF IInv, TypeOK, SettingsOK
<1>2. /\ Begin /\ Free /\ config.setup /\ n \in DOMAIN config.bases /\ UNCHANGED files
      /\ UniqueRepositories(next.bases) /\ Start(next, changes, FALSE)
  BY DEF ConfigureGit, Begin, WithGit
<1>3. present' \subseteq Paths /\ UNCHANGED disk BY <1>1, <1>2 DEF files, StoreOK
<1>4. p \in Paths /\ DOMAIN config.bases \subseteq Names BY <1>1, <1>2, BasesFacts
<1> DEFINE on == TRUE
<1>5. next = WithGit(n, on) /\ on \in BOOLEAN OBVIOUS
<1> HIDE DEF next, on
<1>6. /\ next \in GoodConfigs /\ DOMAIN next.bases = DOMAIN config.bases
      /\ next.bases[n].git = on /\ next.bases[n].path = p
      /\ \A m \in DOMAIN config.bases : m # n => next.bases[m] = config.bases[m]
  BY <1>1, <1>2, <1>5, GitMade
<1>7. needsReconnect(n) \in Maybe /\ needsReconnect(n) # NoRow /\ needsReconnect(n).base = n
      /\ needsReconnect(n).state # "conflict"
  BY RowFacts DEF Maybe, needsReconnect
<1> HIDE DEF p
<1>8. changes \in [{p} -> Maybe] /\ changes[p] = needsReconnect(n) BY <1>7
<1>9. changes \in Changes BY <1>4, <1>8, ChangesMade
<1>10. \A q \in Paths : Updated(changes)[q] = IF q = p THEN needsReconnect(n) ELSE rows[q] BY <1>8 DEF Updated
<1> HIDE DEF changes
<1>11. ASSUME Whole PROVE Matches(Updated(changes), next)
  <2> SUFFICES ASSUME NEW q \in Paths, NEW m \in Names
               PROVE  (Updated(changes)[q] # NoRow /\ Updated(changes)[q].base = m)
                      <=> (m \in Connected(next.bases) /\ next.bases[m].path = q)
    BY DEF Matches
  <2>1. Matches(rows, config) BY <1>2, <1>11, RowsMatch
  <2>2. n \in Connected(next.bases) BY <1>2, <1>6 DEF Connected, on
  <2>3. CASE q = p
    <3>1. (m \in Connected(next.bases) /\ next.bases[m].path = q) <=> m = n
      BY <1>2, <1>6, <2>2, <2>3 DEF UniqueRepositories
    <3> QED BY <1>7, <1>10, <2>3, <3>1
  <2>4. CASE q # p
    <3>1. Updated(changes)[q] = rows[q] BY <1>10, <2>4
    <3>2. (m \in Connected(next.bases) /\ next.bases[m].path = q)
          <=> (m \in Connected(config.bases) /\ config.bases[m].path = q)
      BY <1>6, <2>4 DEF Connected, p
    <3> QED BY <2>1, <3>1, <3>2 DEF Matches
  <2> QED BY <2>3, <2>4
<1>12. InConflict(Updated(changes)) \subseteq InConflict(rows) BY <1>7, <1>10 DEF InConflict
<1>13. Sound(next, changes) BY <1>11, <1>12 DEF Sound
<1> QED BY <1>2, <1>3, <1>6, <1>9, <1>13, BeganStep

LEMMA DisableStep ==
  ASSUME IInv, NEW n \in Names, DisableGit(n)
  PROVE  IInv'
<1> DEFINE next == WithGit(n, FALSE)
<1>1. StoreOK /\ config \in GoodConfigs BY DEF IInv, TypeOK, SettingsOK
<1>2. /\ Begin /\ Free /\ config.setup /\ n \in DOMAIN config.bases /\ UNCHANGED files
      /\ Start(next, Removed(n), FALSE)
  BY DEF DisableGit, Begin, WithGit
<1>3. present' \subseteq Paths /\ UNCHANGED disk BY <1>1, <1>2 DEF files, StoreOK
<1> DEFINE on == FALSE
<1>4. next = WithGit(n, on) /\ on \in BOOLEAN OBVIOUS
<1> HIDE DEF next, on
<1>5. /\ next \in GoodConfigs /\ DOMAIN next.bases = DOMAIN config.bases
      /\ next.bases[n].git = on
      /\ \A m \in DOMAIN config.bases : m # n => next.bases[m] = config.bases[m]
  BY <1>1, <1>2, <1>4, GitMade
<1>6. \A m \in Names, p \in Paths : (m \in Connected(next.bases) /\ next.bases[m].path = p)
                                    <=> (m # n /\ m \in Connected(config.bases) /\ config.bases[m].path = p)
  BY <1>5 DEF Connected, on
<1>7. Removed(n) \in Changes /\ Sound(next, Removed(n)) BY <1>2, <1>6, RemovedSound
<1> QED BY <1>2, <1>3, <1>5, <1>7, BeganStep

\* The rows that a base which is renamed or moved asks for.
LEMMA StatusChangesType ==
  ASSUME IInv, NEW old \in DOMAIN config.bases, NEW new \in Names, NEW path \in Paths, NEW git \in BOOLEAN
  PROVE  StatusChanges(old, new, path, git) \in Changes
<1> DEFINE from == StatusPath(old)
           renamed == [p \in {path} |-> [rows[p] EXCEPT !.base = new]]
           D == (IF Owned(old) THEN {from} ELSE {}) \cup (IF git THEN {path} ELSE {})
           moved == [p \in D |-> IF git /\ p = path THEN needsReconnect(new) ELSE NoRow]
<1>1. config \in GoodConfigs /\ rows \in [Paths -> Maybe] BY DEF IInv, TypeOK, SettingsOK
<1>2. Owned(old) => from \in Named(old)
  <2>1. ASSUME Owned(old) PROVE from \in Named(old)
    <3>1. Named(old) # {} /\ from = CHOOSE p \in Named(old) : TRUE BY <2>1 DEF Owned, StatusPath
    <3> QED BY <3>1
  <2> QED BY <2>1
<1>3. from \in Paths BY <1>1, <1>2, BasesFacts DEF Named, StatusPath
<1>4. ASSUME Owned(old), from = path PROVE renamed \in Changes
  <2>1. rows[path] # NoRow /\ rows[path] \in Maybe BY <1>1, <1>2, <1>4 DEF Named
  <2>2. rows[path] \in Rows BY <2>1 DEF Maybe
  <2>3. [rows[path] EXCEPT !.base = new] \in Rows BY <2>2 DEF Rows
  <2>4. renamed \in [{path} -> Maybe] BY <2>3 DEF Maybe
  <2> HIDE DEF renamed
  <2> QED BY <2>4, ChangesMade
<1>5. moved \in Changes
  <2>1. D \in SUBSET Paths BY <1>3
  <2>2. needsReconnect(new) \in Maybe /\ NoRow \in Maybe BY RowFacts DEF Maybe
  <2>3. moved \in [D -> Maybe] BY <2>2
  <2> HIDE DEF moved, D
  <2> QED BY <2>1, <2>3, ChangesMade
<1>6. \/ StatusChanges(old, new, path, git) = NoChanges
      \/ Owned(old) /\ from = path /\ StatusChanges(old, new, path, git) = renamed
      \/ StatusChanges(old, new, path, git) = moved
  BY DEF StatusChanges
<1> HIDE DEF renamed, moved
<1> QED BY <1>4, <1>5, <1>6, NothingChanged

\* The rows of a connected base that becomes `new` at a path: none when it
\* stays, otherwise its own is gone or renamed and one is at the path.
Moves(c, old, new, path) ==
  LET from == config.bases[old].path
      stays == old = new /\ path = from IN
  /\ stays \/ ~config.bases[old].git => DOMAIN c = {}
  /\ ~stays /\ config.bases[old].git =>
       /\ DOMAIN c = {from, path} /\ c[path] # NoRow /\ c[path].base = new
       /\ c[path].state = "conflict" => path \in InConflict(rows)
       /\ from # path => c[from] = NoRow

LEMMA StatusChangesFacts ==
  ASSUME IInv, Free, Whole, NEW old \in DOMAIN config.bases, NEW new \in Names, NEW path \in Paths
  PROVE  Moves(StatusChanges(old, new, path, config.bases[old].git), old, new, path)
<1> DEFINE git == config.bases[old].git
           c == StatusChanges(old, new, path, git)
           from == config.bases[old].path
           stays == old = new /\ path = from
           renamed == [p \in {path} |-> [rows[p] EXCEPT !.base = new]]
           D == (IF git THEN {from} ELSE {}) \cup (IF git THEN {path} ELSE {})
           moved == [p \in D |-> IF git /\ p = path THEN needsReconnect(new) ELSE NoRow]
<1>1. StatusPath(old) = from /\ (Owned(old) <=> git) /\ Matches(rows, config) BY RowsMatch
<1>2. config \in GoodConfigs /\ rows \in [Paths -> Maybe] BY DEF IInv, TypeOK, SettingsOK
<1>3. old \in Names /\ from \in Paths /\ git \in BOOLEAN BY <1>2, BasesFacts
<1>4. c = IF stays THEN NoChanges
          ELSE IF from = path THEN IF git /\ old # new THEN renamed ELSE NoChanges
          ELSE moved
  BY <1>1 DEF StatusChanges
<1>5. DOMAIN NoChanges = {} BY DEF NoChanges
<1> HIDE DEF c, renamed, moved
<1>6. CASE stays \/ ~git
  <2>1. from # path /\ ~stays => c = moved BY <1>4
  <2>2. ~git => DOMAIN moved = {} BY DEF moved
  <2>3. DOMAIN c = {} BY <1>4, <1>5, <1>6, <2>1, <2>2
  <2> QED BY <1>6, <2>3 DEF c, Moves
<1>7. CASE ~stays /\ git /\ from = path
  <2>1. c = renamed BY <1>4, <1>7
  <2>2. rows[path] # NoRow /\ rows[path].base = old BY <1>1, <1>3, <1>7 DEF Matches, Connected
  <2>3. rows[path] \in Rows BY <1>2, <2>2 DEF Maybe
  <2>4. c[path] = [rows[path] EXCEPT !.base = new] /\ DOMAIN c = {path} BY <2>1 DEF renamed
  <2>5. c[path].base = new /\ c[path].state = rows[path].state /\ c[path] \in Rows BY <2>3, <2>4 DEF Rows
  <2>6. c[path] # NoRow BY <2>5, RowFacts DEF Maybe
  <2>7. rows[path].state = "conflict" => path \in InConflict(rows) BY <2>2 DEF InConflict
  <2> QED BY <1>7, <2>4, <2>5, <2>6, <2>7 DEF c, Moves
<1>8. CASE ~stays /\ git /\ from # path
  <2>1. c = moved /\ D = {from, path} BY <1>4, <1>8
  <2>2. DOMAIN c = {from, path} /\ c[path] = needsReconnect(new) /\ c[from] = NoRow BY <1>8, <2>1 DEF moved
  <2>3. c[path] # NoRow /\ c[path].base = new /\ c[path].state = "needs_reconnect"
    BY <2>2, RowFacts DEF Maybe
  <2> QED BY <1>8, <2>2, <2>3 DEF c, Moves
<1> QED BY <1>6, <1>7, <1>8

LEMMA UpdateStep ==
  ASSUME IInv, NEW old \in Names, NEW new \in Names, NEW p \in Paths, UpdateBase(old, new, p)
  PROVE  IInv'
<1> DEFINE git == config.bases[old].git
           from == config.bases[old].path
           N == (DOMAIN config.bases \ {old}) \cup {new}
           b == [m \in N |-> IF m = new THEN [path |-> p, git |-> git] ELSE config.bases[m]]
           current == IF config.current = old THEN new ELSE config.current
           next == [config EXCEPT !.bases = b, !.current = current]
           c == StatusChanges(old, new, p, git)
           switches == config.current = old
<1>1. StoreOK /\ config \in GoodConfigs BY DEF IInv, TypeOK, SettingsOK
<1>2. /\ Begin /\ Free /\ old \in DOMAIN config.bases /\ new \notin DOMAIN config.bases \ {old} /\ UNCHANGED files
      /\ git => UniqueRepositories(b)
  BY DEF UpdateBase, Begin
<1>3. Start(next, c, switches)
  <2>1. Start([config EXCEPT !.bases = b, !.current = IF @ = old THEN new ELSE @], c, switches)
    BY DEF UpdateBase
  <2> HIDE DEF b, c
  <2> QED BY <2>1
<1>4. present' \subseteq Paths /\ UNCHANGED disk BY <1>1, <1>2 DEF files, StoreOK
<1>5. /\ DOMAIN config.bases \subseteq Names /\ config.bases \in [DOMAIN config.bases -> Bases]
      /\ config.current \in DOMAIN config.bases /\ from \in Paths /\ git \in BOOLEAN
      /\ ~config.setup => \A m \in DOMAIN config.bases : ~config.bases[m].git
  BY <1>1, <1>2, BasesFacts DEF Connected
<1>6. [path |-> p, git |-> git] \in Bases BY <1>5 DEF Bases
<1>7. /\ DOMAIN b = N /\ b[new].path = p /\ (b[new].git <=> git)
      /\ \A m \in N : m # new => b[m] = config.bases[m]
  BY <1>5
<1>8. next \in GoodConfigs /\ next.bases = b
  <2>1. next = [config EXCEPT !.bases = b, !.current = current] OBVIOUS
  <2>2. N \in SUBSET Names /\ current \in N BY <1>2, <1>5
  <2>3. b \in [N -> Bases] BY <1>5, <1>6
  <2>4. ~config.setup => \A m \in N : ~b[m].git BY <1>2, <1>5, <1>7
  <2> HIDE DEF N, b, next, current
  <2> QED BY <1>1, <2>1, <2>2, <2>3, <2>4, BasesMade
<1>9. c \in Changes BY <1>2, <1>5, StatusChangesType
<1>10. switches \in BOOLEAN OBVIOUS
<1> HIDE DEF b, next, c, switches
<1>11. \A q \in Paths : Updated(c)[q] = IF q \in DOMAIN c THEN c[q] ELSE rows[q] BY DEF Updated
<1>12. ASSUME Whole PROVE Matches(Updated(c), next) /\ InConflict(Updated(c)) \subseteq InConflict(rows)
  <2>1. Matches(rows, config) BY <1>2, <1>12, RowsMatch
  <2>2. /\ (old = new /\ p = from) \/ ~git => DOMAIN c = {}
        /\ ~(old = new /\ p = from) /\ git =>
             /\ DOMAIN c = {from, p} /\ c[p] # NoRow /\ c[p].base = new
             /\ c[p].state = "conflict" => p \in InConflict(rows)
             /\ from # p => c[from] = NoRow
    <3>1. Moves(c, old, new, p) BY <1>2, <1>12, StatusChangesFacts DEF c
    <3> QED BY <3>1 DEF Moves
  <2>3. ASSUME NEW q \in Paths, NEW m \in Names
        PROVE  (m \in Connected(next.bases) /\ next.bases[m].path = q)
               <=> \/ m = new /\ git /\ q = p
                   \/ m # new /\ m # old /\ m \in Connected(config.bases) /\ config.bases[m].path = q
    BY <1>7, <1>8 DEF Connected
  <2>4. CASE (old = new /\ p = from) \/ ~git
    <3>1. \A q \in Paths : Updated(c)[q] = rows[q] BY <1>11, <2>2, <2>4
    <3>2. ASSUME NEW q \in Paths, NEW m \in Names
          PROVE  (m \in Connected(next.bases) /\ next.bases[m].path = q)
                 <=> (m \in Connected(config.bases) /\ config.bases[m].path = q)
      BY <1>2, <2>3, <2>4 DEF Connected
    <3>3. Matches(Updated(c), next) BY <2>1, <3>1, <3>2 DEF Matches
    <3> QED BY <3>1, <3>3 DEF InConflict
  <2>5. CASE ~(old = new /\ p = from) /\ git
    <3>1. old \in Connected(config.bases) BY <1>2, <2>5 DEF Connected
    <3>2. ASSUME NEW q \in Paths, NEW m \in Names
          PROVE  (Updated(c)[q] # NoRow /\ Updated(c)[q].base = m)
                 <=> (m \in Connected(next.bases) /\ next.bases[m].path = q)
      <4>1. CASE q = p
        <5>1. new \in Connected(b) /\ b[new].path = p BY <1>7, <2>5 DEF Connected
        <5>2. (m \in Connected(next.bases) /\ next.bases[m].path = q) <=> m = new
          BY <1>2, <1>8, <2>5, <4>1, <5>1 DEF UniqueRepositories
        <5> QED BY <1>11, <2>2, <2>5, <4>1, <5>2
      <4>2. CASE q = from /\ q # p
        <5>1. Updated(c)[q] = NoRow BY <1>11, <2>2, <2>5, <4>2
        <5>2. rows[q] # NoRow /\ rows[q].base = old BY <2>1, <3>1, <4>2 DEF Matches
        <5>3. ~(m # old /\ m \in Connected(config.bases) /\ config.bases[m].path = q) BY <2>1, <5>2 DEF Matches
        <5> QED BY <2>3, <4>2, <5>1, <5>3
      <4>3. CASE q # from /\ q # p
        <5>1. Updated(c)[q] = rows[q] BY <1>11, <2>2, <2>5, <4>3
        <5>2. (rows[q] # NoRow /\ rows[q].base = m) <=> (m \in Connected(config.bases) /\ config.bases[m].path = q)
          BY <2>1 DEF Matches
        <5>3. m \in {old, new} => ~(m \in Connected(config.bases) /\ config.bases[m].path = q)
          BY <1>2, <4>3 DEF Connected
        <5> QED BY <2>3, <4>3, <5>1, <5>2, <5>3
      <4> QED BY <4>1, <4>2, <4>3
    <3>3. \A q \in InConflict(Updated(c)) : q \in InConflict(rows)
      BY <1>11, <2>2, <2>5 DEF InConflict
    <3> QED BY <3>2, <3>3 DEF Matches
  <2> QED BY <2>4, <2>5
<1>13. Sound(next, c) BY <1>12 DEF Sound
<1> QED BY <1>2, <1>3, <1>4, <1>8, <1>9, <1>10, <1>13, BeganStep

\* A base of the new configuration stands for at most one old base, which no
\* other stands for.
LEMMA MatchFacts ==
  ASSUME config \in GoodConfigs, NEW bases, DOMAIN bases \subseteq Names
  PROVE  LET match == matchReplaceConfigBases(bases) IN
         /\ \A m \in DOMAIN bases : match[m] \subseteq DOMAIN config.bases
         /\ \A m \in DOMAIN bases : \A k, l \in match[m] : k = l
         /\ \A m \in DOMAIN bases : m \in DOMAIN config.bases => match[m] = {m}
         /\ \A m \in DOMAIN bases : \A k \in match[m] : k # m => config.bases[k].path = bases[m].path
         /\ \A l, m \in DOMAIN bases : \A k \in match[l] \cap match[m] : l = m
<1> DEFINE old == DOMAIN config.bases
           at(m) == {k \in old \ DOMAIN bases : config.bases[k].path = bases[m].path}
           candidate(m) == m \notin old /\ Cardinality(at(m)) = 1
           claims(k) == {m \in DOMAIN bases : candidate(m) /\ k \in at(m)}
           match == [m \in DOMAIN bases |->
                       IF m \in old THEN {m}
                       ELSE IF candidate(m) THEN {k \in at(m) : claims(k) = {m}} ELSE {}]
<1>1. match = matchReplaceConfigBases(bases) BY DEF matchReplaceConfigBases
<1>2. \A m : at(m) \subseteq old \ DOMAIN bases OBVIOUS
<1>3. \A m : \A k \in at(m) : config.bases[k].path = bases[m].path OBVIOUS
<1>4. old \subseteq Names BY BasesFacts
<1>5. ASSUME NEW m, candidate(m), NEW k \in at(m), NEW l \in at(m) PROVE k = l
  <2>1. at(m) \subseteq Names BY <1>2, <1>4
  <2>2. IsFiniteSet(at(m)) /\ Cardinality(at(m)) = 1 BY <1>5, <2>1, SettingsAssumption, FS_Subset
  <2> HIDE DEF at
  <2>3. PICK x : at(m) = {x} BY <2>2, FS_Singleton
  <2> QED BY <1>5, <2>3
<1> HIDE DEF at, candidate, claims
<1>6. \A m \in DOMAIN bases : m \in old => match[m] = {m} OBVIOUS
<1>7. \A m \in DOMAIN bases : m \notin old => \A k \in match[m] : candidate(m) /\ k \in at(m) /\ claims(k) = {m}
  OBVIOUS
<1> HIDE DEF match
<1>8. \A m \in DOMAIN bases : match[m] \subseteq old BY <1>2, <1>6, <1>7
<1>9. \A m \in DOMAIN bases : \A k, l \in match[m] : k = l BY <1>5, <1>6, <1>7
<1>10. \A m \in DOMAIN bases : \A k \in match[m] : k # m => config.bases[k].path = bases[m].path
  BY <1>3, <1>6, <1>7
<1>11. ASSUME NEW l \in DOMAIN bases, NEW m \in DOMAIN bases, NEW k \in match[l] \cap match[m] PROVE l = m
  BY <1>2, <1>6, <1>7
<1> QED BY <1>1, <1>6, <1>8, <1>9, <1>10, <1>11

\* The rows a replaced configuration asks for, with the new bases that write one.
LEMMA ReplaceFacts ==
  ASSUME IInv, Free, NEW next \in Configs, NEW match, match = matchReplaceConfigBases(next.bases),
         \A m \in DOMAIN next.bases : next.bases[m].git = \E k \in match[m] : config.bases[k].git,
         UniqueRepositories(next.bases)
  PROVE  ReplaceChanges(next.bases, match) \in Changes /\ Sound(next, ReplaceChanges(next.bases, match))
<1> DEFINE bases == next.bases
<1>a. PICK N \in SUBSET Names : bases \in [N -> Bases] BY DEF Configs
<1>b. /\ match = matchReplaceConfigBases(bases) /\ UniqueRepositories(bases)
      /\ \A m \in DOMAIN bases : bases[m].git <=> \E k \in match[m] : config.bases[k].git
  OBVIOUS
<1> HIDE DEF bases
<1> DEFINE source(m) == CHOOSE k \in match[m] : TRUE
           kept == {m \in DOMAIN bases : match[m] # {}}
           of(m) == StatusChanges(source(m), m, bases[m].path, bases[m].git)
           gone == DOMAIN config.bases \ UNION {match[m] : m \in kept}
           writers(p) == {m \in kept : p \in DOMAIN of(m) /\ of(m)[p] # NoRow}
           touched == (UNION {DOMAIN of(m) : m \in kept}) \cup UNION {Named(k) : k \in gone}
           writer(p) == CHOOSE m \in writers(p) : TRUE
           changes == [p \in touched |-> IF writers(p) = {} THEN NoRow ELSE of(writer(p))[p]]
           stays(m) == source(m) = m /\ bases[m].path = config.bases[m].path
<1>1. changes = ReplaceChanges(bases, match) BY DEF ReplaceChanges
<1>2. config \in GoodConfigs /\ rows \in [Paths -> Maybe] BY DEF IInv, TypeOK, SettingsOK
<1>3. DOMAIN bases = N /\ \A m \in N : bases[m].path \in Paths /\ bases[m].git \in BOOLEAN BY <1>a DEF Bases
<1>4. \A m \in kept : /\ m \in N /\ source(m) \in match[m] /\ source(m) \in DOMAIN config.bases
                      /\ match[m] = {source(m)}
  <2> SUFFICES ASSUME NEW m \in kept
               PROVE  /\ m \in N /\ source(m) \in match[m] /\ source(m) \in DOMAIN config.bases
                      /\ match[m] = {source(m)}
    OBVIOUS
  <2>1. m \in DOMAIN bases /\ m \in N /\ match[m] # {} BY <1>3
  <2>2. source(m) \in match[m] BY <2>1
  <2>3. match[m] \subseteq DOMAIN config.bases /\ \A k, l \in match[m] : k = l BY <1>b, <1>2, <1>3, <2>1, MatchFacts
  <2> HIDE DEF source
  <2> QED BY <2>1, <2>2, <2>3
<1>5. \A l, m \in kept : source(l) = source(m) => l = m
  <2>1. \A l, m \in DOMAIN bases : \A k \in match[l] \cap match[m] : l = m BY <1>b, <1>2, <1>3, MatchFacts
  <2> HIDE DEF source
  <2> QED BY <1>3, <1>4, <2>1
<1>6. \A m \in N : bases[m].git <=> m \in kept /\ config.bases[source(m)].git
  <2> HIDE DEF source
  <2> SUFFICES ASSUME NEW m \in N PROVE bases[m].git <=> m \in kept /\ config.bases[source(m)].git
    OBVIOUS
  <2>1. CASE m \in kept
    <3>1. match[m] = {source(m)} BY <1>4, <2>1
    <3> QED BY <1>b, <1>3, <2>1, <3>1
  <2>2. CASE m \notin kept
    <3>1. match[m] = {} BY <1>3, <2>2
    <3> QED BY <1>b, <1>3, <2>2, <3>1
  <2> QED BY <2>1, <2>2
<1>7. \A k \in DOMAIN config.bases : k \in gone \/ \E m \in kept : source(m) = k
  <2> HIDE DEF source
  <2> QED BY <1>4
<1>8. \A k \in gone : k \in DOMAIN config.bases /\ \A m \in kept : source(m) # k
  <2> HIDE DEF source
  <2> QED BY <1>4
<1>9. \A m \in kept : of(m) \in Changes
  <2> SUFFICES ASSUME NEW m \in kept PROVE of(m) \in Changes OBVIOUS
  <2>1. source(m) \in DOMAIN config.bases /\ m \in Names /\ bases[m].path \in Paths /\ bases[m].git \in BOOLEAN
    BY <1>3, <1>4
  <2> HIDE DEF source, kept
  <2> QED BY <2>1, StatusChangesType
<1>10. ASSUME Whole, NEW m \in kept PROVE Moves(of(m), source(m), m, bases[m].path)
  <2>1. source(m) \in DOMAIN config.bases /\ m \in N /\ m \in Names /\ bases[m].path \in Paths BY <1>3, <1>4
  <2>2. config.bases[source(m)].git \in BOOLEAN /\ bases[m].git \in BOOLEAN BY <1>2, <1>3, <2>1, BasesFacts
  <2>3. bases[m].git <=> config.bases[source(m)].git BY <1>6, <2>1, <1>10
  <2>4. bases[m].git = config.bases[source(m)].git BY <2>2, <2>3
  <2>5. Moves(StatusChanges(source(m), m, bases[m].path, config.bases[source(m)].git), source(m), m, bases[m].path)
    <3> HIDE DEF source, kept
    <3> QED BY <1>10, <2>1, StatusChangesFacts
  <2> QED BY <2>4, <2>5
<1> HIDE DEF source, of
<1>11. \A p : writers(p) # {} => writer(p) \in kept /\ p \in DOMAIN of(writer(p)) /\ of(writer(p))[p] # NoRow
  OBVIOUS
<1>12. touched \subseteq Paths BY <1>9, ChangesFacts DEF Named
<1>13. \A p \in touched : changes[p] = IF writers(p) = {} THEN NoRow ELSE of(writer(p))[p] OBVIOUS
<1>14. \A p : p \in touched <=> (\E m \in kept : p \in DOMAIN of(m)) \/ \E k \in gone : p \in Named(k) OBVIOUS
<1>15. \A p, m : m \in kept /\ p \in DOMAIN of(m) /\ of(m)[p] # NoRow => writers(p) # {} OBVIOUS
<1>16. changes \in [touched -> {changes[p] : p \in touched}] /\ DOMAIN changes = touched OBVIOUS
<1> HIDE DEF writer, writers, touched, changes, gone, kept
<1>17. changes \in Changes
  <2>1. \A p \in touched : changes[p] \in Maybe BY <1>9, <1>11, <1>13, ChangesFacts DEF Maybe
  <2>2. changes \in [touched -> Maybe] BY <1>16, <2>1
  <2> QED BY <1>12, <2>2, ChangesMade
<1>18. \A q \in Paths : Updated(changes)[q] = IF q \in touched THEN changes[q] ELSE rows[q] BY <1>16 DEF Updated
<1>19. ASSUME Whole
       PROVE  \A q \in Paths :
              /\ \A n \in Names : LET r == Updated(changes)[q] IN
                   (r # NoRow /\ r.base = n) <=> (n \in Connected(bases) /\ bases[n].path = q)
              /\ q \in InConflict(Updated(changes)) => q \in InConflict(rows)
  <2>1. Matches(rows, config) BY <1>19, RowsMatch
  <2>2. \A n \in Names : n \in Connected(bases) <=> n \in kept /\ source(n) \in Connected(config.bases)
    BY <1>3, <1>4, <1>6 DEF Connected
  <2>3. \A m \in kept : stays(m) \/ source(m) \notin Connected(config.bases) => DOMAIN of(m) = {}
    BY <1>4, <1>10, <1>19 DEF Moves, Connected
  <2>4. \A m \in kept : ~stays(m) /\ source(m) \in Connected(config.bases) =>
          /\ DOMAIN of(m) = {config.bases[source(m)].path, bases[m].path}
          /\ of(m)[bases[m].path] # NoRow /\ of(m)[bases[m].path].base = m
          /\ of(m)[bases[m].path].state = "conflict" => bases[m].path \in InConflict(rows)
          /\ config.bases[source(m)].path # bases[m].path => of(m)[config.bases[source(m)].path] = NoRow
    BY <1>4, <1>10, <1>19 DEF Moves, Connected
  <2>5. ASSUME NEW q, NEW m \in kept, q \in DOMAIN of(m), of(m)[q] # NoRow
        PROVE  /\ q = bases[m].path /\ of(m)[q].base = m /\ m \in Connected(bases)
               /\ of(m)[q].state = "conflict" => q \in InConflict(rows)
    <3>1. ~stays(m) /\ source(m) \in Connected(config.bases) BY <2>3, <2>5
    <3>2. m \in Connected(bases) BY <1>4, <2>2, <3>1
    <3> DEFINE p == bases[m].path
               from == config.bases[source(m)].path
               c == of(m)
    <3>3. /\ DOMAIN c = {from, p} /\ c[p].base = m /\ (c[p].state = "conflict" => p \in InConflict(rows))
          /\ (from # p => c[from] = NoRow)
      BY <2>4, <3>1
    <3>4. q \in DOMAIN c /\ c[q] # NoRow BY <2>5
    <3> HIDE DEF p, from, c
    <3>5. q = p BY <3>3, <3>4
    <3>6. c[q].base = m /\ (c[q].state = "conflict" => q \in InConflict(rows)) BY <3>3, <3>5
    <3> QED BY <3>2, <3>5, <3>6 DEF p, c
  <2>6. \A l, m \in Connected(bases) : bases[l].path = bases[m].path => l = m BY <1>b DEF UniqueRepositories
  <2> SUFFICES ASSUME NEW q \in Paths, NEW n \in Names
               PROVE  /\ (Updated(changes)[q] # NoRow /\ Updated(changes)[q].base = n)
                         <=> (n \in Connected(bases) /\ bases[n].path = q)
                      /\ q \in InConflict(Updated(changes)) => q \in InConflict(rows)
    BY SettingsAssumption
  <2>7. CASE q \in touched /\ writers(q) # {}
    <3> DEFINE w == writer(q)
    <3>1. w \in kept /\ q \in DOMAIN of(w) /\ of(w)[q] # NoRow BY <1>11, <2>7
    <3>2. Updated(changes)[q] = of(w)[q] BY <1>13, <1>18, <2>7
    <3> HIDE DEF w
    <3>3. /\ q = bases[w].path /\ of(w)[q].base = w /\ w \in Connected(bases)
          /\ of(w)[q].state = "conflict" => q \in InConflict(rows)
      BY <2>5, <3>1
    <3>4. (n \in Connected(bases) /\ bases[n].path = q) <=> n = w BY <2>6, <3>3
    <3> QED BY <3>1, <3>2, <3>3, <3>4 DEF InConflict
  <2>8. CASE q \in touched /\ writers(q) = {}
    <3>1. Updated(changes)[q] = NoRow BY <1>13, <1>18, <2>8
    <3>2. ASSUME n \in Connected(bases), bases[n].path = q PROVE FALSE
      <4>1. n \in kept /\ source(n) \in Connected(config.bases) BY <2>2, <3>2
      <4>2. stays(n) BY <1>15, <2>4, <2>8, <3>2, <4>1
      <4>3. config.bases[n].path = q /\ n \in Connected(config.bases) /\ source(n) = n BY <3>2, <4>1, <4>2
      <4>4. rows[q] # NoRow /\ rows[q].base = n BY <2>1, <4>3 DEF Matches
      <4>5. CASE \E m \in kept : q \in DOMAIN of(m)
        <5>1. PICK m \in kept : q \in DOMAIN of(m) BY <4>5
        <5>2. ~stays(m) /\ source(m) \in Connected(config.bases) BY <2>3, <5>1
        <5>3. m # n BY <4>2, <5>2
        <5>4. source(m) \in Names /\ m \in Names BY <1>2, <1>4, BasesFacts
        <5>5. q # config.bases[source(m)].path
          <6>1. source(m) # n BY <1>5, <4>1, <4>3, <5>3
          <6> QED BY <2>1, <4>4, <5>2, <5>4, <6>1 DEF Matches
        <5>6. q = bases[m].path
          <6>1. DOMAIN of(m) = {config.bases[source(m)].path, bases[m].path} BY <2>4, <5>2
          <6> QED BY <5>1, <5>5, <6>1
        <5> QED BY <2>2, <2>6, <3>2, <5>2, <5>3, <5>4, <5>6
      <4>6. CASE \E k \in gone : q \in Named(k)
        <5>1. PICK k \in gone : rows[q].base = k BY <4>6 DEF Named
        <5> QED BY <1>8, <4>1, <4>3, <4>4, <5>1
      <4> QED BY <1>14, <2>8, <4>5, <4>6
    <3> QED BY <3>1, <3>2 DEF InConflict
  <2>9. CASE q \notin touched
    <3>1. Updated(changes)[q] = rows[q] BY <1>18, <2>9
    <3>2. ASSUME rows[q] # NoRow, rows[q].base = n PROVE n \in Connected(bases) /\ bases[n].path = q
      <4>1. n \in Connected(config.bases) /\ config.bases[n].path = q BY <2>1, <3>2 DEF Matches
      <4>2. q \in Named(n) /\ n \in DOMAIN config.bases BY <3>2, <4>1 DEF Named, Connected
      <4>3. PICK m \in kept : source(m) = n BY <1>7, <1>14, <2>9, <4>2
      <4>4. stays(m)
        <5> SUFFICES ASSUME ~stays(m) PROVE FALSE OBVIOUS
        <5>1. q \in DOMAIN of(m) BY <2>4, <4>1, <4>3
        <5> QED BY <1>14, <2>9, <5>1
      <4> QED BY <2>2, <4>1, <4>3, <4>4
    <3>3. ASSUME n \in Connected(bases), bases[n].path = q PROVE rows[q] # NoRow /\ rows[q].base = n
      <4>1. n \in kept /\ source(n) \in Connected(config.bases) BY <2>2, <3>3
      <4>2. stays(n)
        <5> SUFFICES ASSUME ~stays(n) PROVE FALSE OBVIOUS
        <5>1. q \in DOMAIN of(n) BY <2>4, <3>3, <4>1
        <5> QED BY <1>14, <2>9, <4>1, <5>1
      <4>3. config.bases[n].path = q /\ n \in Connected(config.bases) BY <3>3, <4>1, <4>2
      <4> QED BY <2>1, <4>3 DEF Matches
    <3> QED BY <3>1, <3>2, <3>3 DEF InConflict
  <2> QED BY <2>7, <2>8, <2>9
<1>20. Whole => Matches(Updated(changes), next) BY <1>19 DEF Matches, bases
<1>21. Whole => InConflict(Updated(changes)) \subseteq InConflict(rows) BY <1>19 DEF InConflict
<1>22. changes \in Changes /\ Sound(next, changes) BY <1>17, <1>20, <1>21 DEF Sound
<1> QED BY <1>1, <1>22 DEF bases

LEMMA ReplaceStep ==
  ASSUME IInv, NEW next \in Configs, ReplaceConfig(next)
  PROVE  IInv'
<1> DEFINE match == matchReplaceConfigBases(next.bases)
           changes == ReplaceChanges(next.bases, match)
<1>1. StoreOK /\ config \in GoodConfigs BY DEF IInv, TypeOK, SettingsOK
<1>2. /\ Begin /\ Free /\ next.current \in DOMAIN next.bases /\ (config.setup => next.setup) /\ UNCHANGED files
      /\ \A m \in DOMAIN next.bases : next.bases[m].git = \E k \in match[m] : config.bases[k].git
      /\ UniqueRepositories(next.bases) /\ Start(next, changes, TRUE)
  BY DEF ReplaceConfig, Begin
<1>3. present' \subseteq Paths /\ UNCHANGED disk BY <1>1, <1>2 DEF files, StoreOK
<1>4. PICK N \in SUBSET Names : next.bases \in [N -> Bases] BY DEF Configs
<1>5. DOMAIN next.bases = N BY <1>4
<1>6. next \in GoodConfigs
  <2> SUFFICES ASSUME ~next.setup, NEW m \in DOMAIN next.bases, next.bases[m].git PROVE FALSE
    BY <1>2 DEF GoodConfigs, Connected
  <2>1. PICK k \in match[m] : config.bases[k].git BY <1>2
  <2>2. match[m] \subseteq DOMAIN config.bases BY <1>1, <1>5, MatchFacts
  <2>3. k \in Connected(config.bases) BY <2>1, <2>2 DEF Connected
  <2> QED BY <1>1, <1>2, <2>3, BasesFacts
<1> HIDE DEF match
<1>7. changes \in Changes /\ Sound(next, changes)
  <2>1. match = matchReplaceConfigBases(next.bases) BY DEF match
  <2> QED BY <1>2, <2>1, ReplaceFacts
<1> HIDE DEF changes
<1> QED BY <1>2, <1>3, <1>6, <1>7, BeganStep

LEMMA SettingsStep ==
  ASSUME IInv, Settings
  PROVE  IInv'
BY SetupStep, AddStep, UpdateStep, ForgetStep, SwitchStep, ConfigureStep, DisableStep, ReplaceStep DEF Settings

-----------------------------------------------------------------------------
(* The inductive invariant, and what follows from it. *)

LEMMA FolderFacts == Folder \in [Ids -> Entries] /\ Rooted(Folder) /\ Empty \in [Ids -> Entries] /\ Rooted(Empty)
<1> DEFINE name == CHOOSE n \in FileNames : TRUE
           content == CHOOSE c \in Contents : TRUE
<1>1. content \in Contents BY StoreAssumption
<1>2. Folder = [id \in Ids |-> IF id = <<name>> THEN "dir" ELSE IF id[1] = name THEN content ELSE "absent"]
  BY DEF Folder
<1>3. Empty = [id \in Ids |-> "absent"] BY DEF Empty
<1> HIDE DEF name, content
<1>4. Folder \in [Ids -> Entries] /\ Empty \in [Ids -> Entries] BY <1>1, <1>2, <1>3, EntryFacts
<1>5. ASSUME NEW id \in Ids, NEW a \in Above(id), Folder[id] # "absent" PROVE Folder[a] # "absent"
  <2>1. PICK n \in FileNames, m \in Inner : id = <<n, m>> BY IdFacts DEF Above
  <2>2. id[1] = n /\ Len(id) = 2 BY <2>1
  <2>3. a = <<n>> /\ a \in Ids BY <2>2, IdFacts DEF Above
  <2>4. Len(a) = 1 BY <2>3
  <2>5. n = name
    <3>1. CASE id = <<name>>
      <4>1. Len(id) = 1 BY <3>1
      <4> QED BY <2>2, <4>1
    <3>2. CASE id # <<name>> BY <1>2, <1>5, <2>2, <3>2
    <3> QED BY <3>1, <3>2
  <2> QED BY <1>2, <2>3, <2>5
<1>6. Rooted(Empty) BY <1>3 DEF Rooted
<1> QED BY <1>4, <1>5, <1>6 DEF Rooted

LEMMA InitIInv == Init => IInv
<1> SUFFICES ASSUME Init PROVE IInv OBVIOUS
<1>1. /\ config = stored /\ stored \in Configs /\ stored.current \in DOMAIN stored.bases
      /\ UniqueRepositories(stored.bases) /\ (~stored.setup => Connected(stored.bases) = {})
  BY DEF Init
<1>2. stored \in GoodConfigs BY <1>1 DEF GoodConfigs
<1>3. /\ op = Idle /\ op.pc = "free" /\ phase = "down" /\ open = "down" /\ synced = "pending" /\ degraded = FALSE
      /\ flagged = FALSE /\ torn = FALSE /\ index = {} /\ drift = FALSE /\ present = Paths
      /\ gate = [p \in Paths |-> "none"] /\ root = [path |-> CurrentPath(stored), live |-> TRUE]
  BY DEF Init, Idle
<1>4. CurrentPath(stored) \in Paths BY <1>2, BasesFacts
<1>5. disk \in [Paths -> [Ids -> Entries]] /\ \A p \in Paths : Rooted(disk[p])
  <2>1. PICK p \in Paths : disk = [q \in Paths |-> IF q = p THEN Folder ELSE Empty] BY DEF Init
  <2> QED BY <2>1, FolderFacts
<1>6. StoreOK
  <2>1. root \in Roots BY <1>3, <1>4 DEF Roots
  <2> QED BY <1>3, <1>5, <2>1 DEF StoreOK
<1>7. PICK state \in [Names -> {"ready", "conflict"}] :
        rows = [p \in Paths |->
                 IF \E n \in Connected(stored.bases) : stored.bases[n].path = p
                 THEN LET n == CHOOSE n \in Connected(stored.bases) : stored.bases[n].path = p
                      IN [base |-> n, state |-> state[n]]
                 ELSE NoRow]
  BY DEF Init
<1>8. DOMAIN stored.bases \subseteq Names /\ Connected(stored.bases) \subseteq Names BY <1>2, BasesFacts DEF Connected
<1>9. ASSUME NEW p \in Paths, NEW n \in Connected(stored.bases), stored.bases[n].path = p
      PROVE  rows[p].base = n /\ rows[p] \in Rows
  <2> DEFINE k == CHOOSE m \in Connected(stored.bases) : stored.bases[m].path = p
  <2>1. k \in Connected(stored.bases) /\ stored.bases[k].path = p BY <1>9
  <2>2. rows[p] = [base |-> k, state |-> state[k]] BY <1>7, <1>9
  <2> HIDE DEF k
  <2>3. k = n BY <1>1, <1>9, <2>1 DEF UniqueRepositories
  <2>4. state[n] \in States BY <1>8 DEF States
  <2> QED BY <1>8, <2>2, <2>3, <2>4 DEF Rows
<1>10. ASSUME NEW p \in Paths, \A n \in Connected(stored.bases) : stored.bases[n].path # p PROVE rows[p] = NoRow
  BY <1>7, <1>10
<1>11. rows \in [Paths -> Maybe]
  <2>1. \A p \in Paths : rows[p] \in Maybe BY <1>9, <1>10 DEF Maybe
  <2> QED BY <1>7, <2>1
<1>12. SettingsOK BY <1>1, <1>2, <1>3, <1>11 DEF SettingsOK, OpOK, Free
<1>13. Free /\ Process /\ Runtime /\ Written /\ ~Up BY <1>1, <1>3 DEF Free, Process, Runtime, Written, Open, Up
<1>14. Before = rows BY <1>13 DEF Before
<1>15. Matches(rows, config)
  <2> SUFFICES ASSUME NEW p \in Paths, NEW n \in Names
               PROVE  (rows[p] # NoRow /\ rows[p].base = n)
                      <=> (n \in Connected(config.bases) /\ config.bases[n].path = p)
    BY DEF Matches
  <2>1. ASSUME rows[p] # NoRow, rows[p].base = n PROVE n \in Connected(stored.bases) /\ stored.bases[n].path = p
    <3>1. PICK m \in Connected(stored.bases) : stored.bases[m].path = p BY <1>10, <2>1
    <3>2. rows[p].base = m BY <1>9, <3>1
    <3> QED BY <2>1, <3>1, <3>2
  <2>2. ASSUME n \in Connected(stored.bases), stored.bases[n].path = p PROVE rows[p] # NoRow /\ rows[p].base = n
    <3>1. rows[p] \in Rows /\ rows[p].base = n BY <1>9, <2>2
    <3> QED BY <3>1, RowFacts DEF Maybe
  <2> QED BY <1>1, <2>1, <2>2
<1>16. Aligned /\ Gated BY <1>13, <1>14, <1>15 DEF Aligned, Gated
<1>17. Tree BY <1>3, <1>5 DEF Tree, TreeIsDisk, Readable, Open, Scanned
<1> QED BY <1>6, <1>12, <1>13, <1>16, <1>17 DEF IInv, TypeOK

LEMMA NextIInv == IInv /\ [Next]_vars => IInv'
<1> SUFFICES ASSUME IInv, [Next]_vars PROVE IInv' OBVIOUS
<1>1. CASE Notes BY <1>1, NotesKeepIInv
<1>2. CASE Settings BY <1>2, SettingsStep
<1>3. CASE Writes BY <1>3, WritesStep
<1>4. CASE Others BY <1>4, OthersStep
<1>5. CASE UNCHANGED vars
  <2>1. SInv /\ StoreOK /\ Tree BY DEF IInv, TypeOK, SInv
  <2>2. UNCHANGED <<present, disk, index, root, open, synced, drift, gate, config, stored, rows, degraded, phase,
                    flagged, torn, op>>
    BY <1>5 DEF vars, files, store, settings
  <2>3. SInv'
    <3>1. root'.path = root.path /\ \A p \in Paths : Locked(p) => Locked(p)' BY <2>2 DEF Locked
    <3> QED BY <2>1, <2>2, <3>1, MarkedStep
  <2>4. StoreOK' BY <2>1, <2>2 DEF StoreOK
  <2>5. TreeIsDisk' BY <2>1, <2>2 DEF Tree, TreeIsDisk, Readable, Open, Scan
  <2>6. Tree' BY <2>1, <2>2, <2>5 DEF Tree, Scanned, Scan, CurrentPath
  <2> QED BY <2>3, <2>4, <2>6 DEF IInv, TypeOK, SInv
<1> QED BY <1>1, <1>2, <1>3, <1>4, <1>5 DEF Next

\* Every state of the note store and the settings satisfies the invariant:
\* types, the steps of an operation, and the five parts about memory, rows,
\* gates and files.
THEOREM SettingsInvariant == Spec => []IInv
<1> QED BY InitIInv, NextIInv, PTL DEF Spec

\* The tree that is served has the notes of the open base: no sequence of note
\* operations, merges, switches, failures and restarts leaves a row or a file out
\* unless the index is known to lag behind.
THEOREM TreeFollowsDisk == Spec => []TreeIsDisk
<1>1. IInv => TreeIsDisk BY DEF IInv, Tree
<1> QED BY <1>1, SettingsInvariant, PTL

\* Between two operations the service has open the directory that config.json
\* gives the current base.
THEOREM RuntimeFollowsConfig == Spec => []RuntimeMatchesConfig
<1>1. IInv => RuntimeMatchesConfig BY DEF IInv, Runtime, RuntimeMatchesConfig, Settled, Free
<1> QED BY <1>1, SettingsInvariant, PTL

\* The Git statuses are those of the connected bases, however bases are renamed,
\* moved, swapped, replaced and forgotten, and whatever write fails.
THEOREM StatusesFollowConfig == Spec => []StatusesMatchConfig
<1>1. ASSUME IInv PROVE StatusesMatchConfig
  <2>1. Settled /\ ~torn => Matches(rows, config) BY <1>1, RowsMatch DEF Settled, Whole
  <2> QED BY <2>1 DEF StatusesMatchConfig, Matches
<1> QED BY <1>1, SettingsInvariant, PTL

\* Unless a crash or a failed restoration cut an operation, a base whose status
\* is a conflict is closed to note operations.
THEOREM ConflictIsLocked == Spec => []ConflictLocksNotes
<1>1. ASSUME IInv PROVE ConflictLocksNotes
  <2> SUFFICES ASSUME Settled, ~torn, NEW n \in DOMAIN config.bases, statusForBase(n) = "conflict"
               PROVE  Locked(config.bases[n].path)
    BY DEF ConflictLocksNotes
  <2>1. config \in GoodConfigs BY <1>1 DEF IInv, TypeOK, SettingsOK
  <2>2. config.bases[n].path \in Paths BY <2>1, BasesFacts
  <2>3. rows[config.bases[n].path] # NoRow /\ rows[config.bases[n].path].state = "conflict"
    BY DEF statusForBase
  <2>4. config.bases[n].path \in InConflict(Before) BY <2>2, <2>3 DEF InConflict, Before, Settled
  <2> QED BY <1>1, <2>4 DEF IInv, Gated, Whole, Settled
<1> QED BY <1>1, SettingsInvariant, PTL

\* No step but a restart opens a base that failed closed, or changes its index.
THEOREM ClosedIsFinal == Spec => ClosedStaysClosed
<1>1. ASSUME IInv, [Next]_vars, open = "failed", phase' = "up" PROVE open' = "failed" /\ index' = index
  <2>1. StoreOK /\ Tree /\ Process BY <1>1 DEF IInv, TypeOK
  <2>2. ~Open BY <1>1 DEF Open
  <2>3. CASE Notes BY <2>1, <2>2, <2>3, NotesStep DEF Tree, NotesKept
  <2>4. CASE Settings
    <3>1. UNCHANGED store
      BY <2>4 DEF Settings, CompleteSetup, AddBase, UpdateBase, ForgetBase, SwitchBase, ConfigureGit, DisableGit,
                  ReplaceConfig, Begin
    <3> QED BY <1>1, <3>1 DEF store
  <2>5. CASE Writes
    <3>1. op.pc \notin {"save", "commit"} BY <2>1, <2>2 DEF Process
    <3>2. UNCHANGED store
      BY <2>2, <2>5, <3>1 DEF Writes, writeGitStatusChange, restoreGitStatus, persistConfig, prepareBaseSwitch,
                              Switchable, saveConfig, commitBaseSwitch, Fail
    <3> QED BY <1>1, <3>2 DEF store
  <2>6. CASE Others
    <3>1. phase # "down" BY <1>1, <2>1 DEF Process
    <3>2. UNCHANGED <<index, open>>
      BY <1>1, <2>6, <3>1 DEF Others, GitConflict, GitSettled, Job, Crash, Boot, MakeDirectory, RemoveDirectory,
                              Elsewhere, EditOutside, store
    <3> QED BY <1>1, <3>2
  <2>7. CASE UNCHANGED vars BY <1>1, <2>7 DEF vars, store
  <2> QED BY <1>1, <2>3, <2>4, <2>5, <2>6, <2>7 DEF Next
<1>2. IInv /\ [Next]_vars => [open = "failed" /\ phase' = "up" => open' = "failed" /\ index' = index]_vars
  BY <1>1
<1> QED BY <1>2, SettingsInvariant, PTL DEF Spec, ClosedStaysClosed
=============================================================================
