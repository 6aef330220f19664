---------------------------- MODULE EditorProofs ----------------------------
(***************************************************************************)
(* The editor, for every set of notes and every number of texts,           *)
(* synchronisations, failures and clicks: what was typed is kept until it  *)
(* is on disk or the user drops it, no text is overwritten that the editor *)
(* has not shown, and the poller neither stops nor doubles.                *)
(*                                                                         *)
(* While odd is false a request is never overtaken: the note a save or the *)
(* dialog is about stays open, and a reload reads a note only over a state *)
(* in which nothing is unsaved.                                            *)
(***************************************************************************)
EXTENDS NoteEditor, TLAPS

Some == Notes \cup {None}
Editors == [active : Some, content : Nat, revision : Nat, dirty : BOOLEAN, armed : BOOLEAN,
            skip : BOOLEAN, watch : BOOLEAN, stale : [mine : Nat, disk : Int], pending : BOOLEAN,
            failed : BOOLEAN]
Saves   == [pc : {"none", "sent", "done", "staging", "stuck"}, note : Some, text : Nat, rev : Int,
            known : SUBSET Nat, answer : Int]
Stages  == [pc : {"none", "sent", "done"}, by : {"save", "reload", "dialog"}, note : Some,
            mine : Nat, answer : Int]
Openers == [pc : {"none", "flush", "get", "last"}, note : Some, answer : Nat]
Reloads == [pc : {"none", "wait", "tree", "staging", "get", "got"}, op : Nat, path : Some,
            note : Some, text : Nat, live : BOOLEAN, answer : Nat]
Polls   == [pc : {"none", "loading", "answered", "ends"}, current : BOOLEAN, queued : BOOLEAN,
            timer : BOOLEAN, op : Nat, path : Some]
Spents  == [texts : Nat, syncs : Nat, faults : Nat, clicks : Nat]

\* The answers that stand for a text are texts.
Answers ==
  /\ save.pc = "done" => save.answer \in Nat \cup {Lost}
  /\ dialog.pc = "done" => dialog.answer \in Nat \cup {Lost}
  /\ stage.pc = "done" => stage.answer \in Nat \cup {Lost}
  /\ ed.stale # NoStale => ed.stale.disk \in Nat

TypeOK ==
  /\ disk \in [Notes -> Nat] /\ git \in [op : Nat, path : Some, terminal : BOOLEAN]
  /\ ed \in Editors /\ save \in Saves /\ stage \in Stages /\ dialog \in Saves
  /\ opener \in Openers /\ reload \in Reloads /\ poll \in Polls
  /\ processed \subseteq Nat /\ known \subseteq Nat /\ typed \in Nat /\ odd \in BOOLEAN
  /\ spent \in Spents
  /\ Answers

\* A request is about a note, and so is what is unsaved.
Addressed ==
  /\ save.pc # "none" => save.note \in Notes
  /\ dialog.pc # "none" => dialog.note \in Notes
  /\ stage.pc # "none" => stage.note \in Notes
  /\ opener.pc # "none" => opener.note \in Notes
  /\ reload.pc # "none" => reload.path \in Notes
  /\ reload.pc \in {"get", "got"} => reload.note \in Notes
  /\ ed.dirty \/ ed.stale # NoStale => ed.active \in Notes

\* Every text has been counted, so that the next one is new.
Counted ==
  /\ ed.content <= spent.texts /\ save.text <= spent.texts /\ dialog.text <= spent.texts
  /\ reload.text <= spent.texts /\ typed <= spent.texts
  /\ opener.answer <= spent.texts /\ reload.answer <= spent.texts
  /\ stage.answer <= spent.texts /\ stage.mine <= spent.texts
  /\ ed.stale.disk <= spent.texts /\ ed.stale.mine <= spent.texts
  /\ \A n \in Notes : disk[n] <= spent.texts

-----------------------------------------------------------------------------
(* Who may be at work together. *)

Saving == save.pc \in {"sent", "done", "staging"}
Reading == reload.pc \in {"tree", "get", "got"}

\* One read of a stale note at a time, of the request that waits for it.
Staging ==
  /\ ed.pending <=> stage.pc # "none"
  /\ stage.pc # "none" =>
       /\ stage.by = "save" => save.pc = "staging"
       /\ stage.by = "reload" => reload.pc = "staging"
       /\ stage.by = "dialog" => dialog.pc = "staging"

\* A poll brings its paths when the reload of the last one has ended.
OneReload == poll.pc # "ends" => reload.pc = "none"

(* Over a dialog, and while a save is behind the dialog that answered the   *)
(* same text, no reload reads: it came when the save was under way and      *)
(* waits for its end, or it is the one that opened the dialog.              *)
Ordered ==
  ~odd =>
    /\ dialog.pc \in {"sent", "done", "staging"} => ed.stale # NoStale
    /\ ed.stale # NoStale /\ Saving => ~Reading
    /\ Saving /\ ~ed.dirty => ~Reading
    /\ ed.stale # NoStale /\ reload.pc \in {"get", "got"} => ed.dirty

-----------------------------------------------------------------------------
(* What is kept. *)

\* The server's answer to a text settles it.
Settled ==
  /\ save.pc = "done" /\ save.answer \notin {Lost, Missing} =>
       save.answer = save.text /\ typed \in {0} \cup (Nat \ {save.text})
  /\ dialog.pc = "done" /\ dialog.answer \notin {Lost, Missing} =>
       dialog.answer = dialog.text /\ typed \in {0} \cup (Nat \ {dialog.text})

Unsaved == typed # 0 /\ ~odd

\* A typed text is in the editor, and the effect that follows a dialog is awake.
Kept ==
  Unsaved =>
    /\ typed = ed.content /\ Open(ed) /\ ~ed.skip /\ ed.watch
    /\ ed.dirty \/ Recovering(ed)
    /\ reload.pc \in {"get", "got"} => typed # reload.text

(* The revisions the editor sends are of texts it knows of the open note.    *)
Shown ==
  /\ ~odd =>
       /\ Open(ed) => ed.revision \in known
       /\ ed.stale # NoStale => Open(ed) /\ ed.stale.disk \in known
       /\ Saving => save.note = ed.active /\ save.text \in known
       /\ dialog.pc \in {"sent", "done", "staging"} => dialog.note = ed.active /\ dialog.text \in known
  /\ save.pc = "sent" /\ ~odd => save.rev \in save.known
  /\ dialog.pc = "sent" /\ ~odd => dialog.rev \in dialog.known

\* The inductive invariant.
Rest == Addressed /\ Counted /\ Staging /\ OneReload /\ Ordered /\ Settled /\ Kept /\ Shown
IInv == TypeOK /\ PollsOnce /\ Rest

-----------------------------------------------------------------------------
(* Type correctness. *)

LEMMA EditorFacts ==
  ASSUME NEW e \in Editors
  PROVE  /\ Effect(e) \in Editors /\ resetEditorState(e) \in Editors
         /\ \A n \in Some, text \in Nat : applyLoadedNote(e, n, text) \in Editors
         /\ Sending(e) \in Editors /\ Failed(e) \in Editors
         /\ known \subseteq Nat => Sent(e) \in Saves
<1>1. NoStale \in [mine : Nat, disk : Int] /\ None \in Some BY DEF NoStale, Lost, Some
<1>2. \A x \in BOOLEAN : /\ [e EXCEPT !.skip = x] \in Editors /\ [e EXCEPT !.watch = x] \in Editors
                        /\ [e EXCEPT !.dirty = x] \in Editors /\ [e EXCEPT !.armed = x] \in Editors
                        /\ [e EXCEPT !.pending = x] \in Editors /\ [e EXCEPT !.failed = x] \in Editors
  BY DEF Editors
<1>3. Open(e) \in BOOLEAN BY DEF Open
<1>4. Effect(e) \in Editors
  <2>1. \A x, y \in BOOLEAN : [e EXCEPT !.skip = x, !.watch = y] \in Editors BY DEF Editors
  <2>2. [e EXCEPT !.watch = TRUE, !.dirty = TRUE, !.armed = TRUE] \in Editors BY DEF Editors
  <2> QED BY <1>2, <1>3, <2>1, <2>2 DEF Effect
<1>5. ASSUME NEW n \in Some, NEW text \in Nat PROVE applyLoadedNote(e, n, text) \in Editors
  BY <1>1 DEF Editors, applyLoadedNote
<1>6. resetEditorState(e) \in Editors
  <2>1. applyLoadedNote(e, None, 0) \in Editors BY <1>1, <1>5
  <2> QED BY <2>1 DEF resetEditorState, Editors
<1>7. Sending(e) \in Editors BY DEF Sending, Editors
<1>8. ASSUME known \subseteq Nat PROVE Sent(e) \in Saves
  <2>1. e.active \in Some /\ e.content \in Nat /\ e.revision \in Int BY DEF Editors
  <2>2. known \cup {e.content} \in SUBSET Nat BY <1>8, <2>1
  <2> QED BY <2>1, <2>2 DEF Sent, Saves
<1> QED BY <1>2, <1>4, <1>5, <1>6, <1>7, <1>8 DEF Failed

LEMMA ReactTypes == ASSUME NEW e \in Editors, React(e) PROVE ed' \in Editors
BY EditorFacts DEF React

LEMMA ConstantTypes ==
  /\ NoSave \in Saves /\ NoStage \in Stages /\ NoOpener \in Openers /\ NoReload \in Reloads
  /\ NoPoll \in Polls /\ NoStale \in [mine : Nat, disk : Int] /\ None \in Some /\ Notes \subseteq Some
BY DEF NoSave, Saves, NoStage, Stages, NoOpener, Openers, NoReload, Reloads, NoPoll, Polls, NoStale,
       Some, Lost

LEMMA InitTypes == Init => TypeOK
<1> SUFFICES ASSUME Init PROVE TypeOK OBVIOUS
<1>1. ed \in Editors /\ ed.stale = NoStale BY ConstantTypes, BoundsAssumption DEF Init, Editors
<1>2. poll \in Polls BY ConstantTypes DEF Init, Polls
<1>3. disk \in [Notes -> Nat] /\ git \in [op : Nat, path : Some, terminal : BOOLEAN]
  BY ConstantTypes DEF Init
<1>6. spent \in Spents BY DEF Init, Spents
<1>7. processed \subseteq Nat /\ known \subseteq Nat /\ typed \in Nat BY DEF Init
<1>8. odd \in BOOLEAN BY DEF Init
<1>4. save \in Saves /\ stage \in Stages /\ dialog \in Saves /\ opener \in Openers /\ reload \in Reloads
  BY ConstantTypes DEF Init
<1>5. Answers BY <1>1 DEF Init, Answers, NoSave, NoStage
<1> QED BY <1>1, <1>2, <1>3, <1>4, <1>5, <1>6, <1>7, <1>8 DEF TypeOK

\* What a bound leaves of the counters, and that the text it gives is new.
LEMMA SpentTypes ==
  ASSUME spent \in Spents
  PROVE  /\ Fresh \in Nat /\ Fresh > spent.texts /\ spent.texts \in Nat
         /\ UNCHANGED spent \/ Click \/ Fault => spent' \in Spents /\ spent'.texts = spent.texts
         /\ NewText => spent' \in Spents /\ spent'.texts = Fresh
<1>1. Fresh \in Nat /\ Fresh > spent.texts /\ spent.texts \in Nat BY DEF Spents, Fresh
<1>2. Click => spent' \in Spents /\ spent'.texts = spent.texts BY DEF Click, Spend, Spents
<1>3. Fault => spent' \in Spents /\ spent'.texts = spent.texts BY DEF Fault, Spend, Spents
<1>4. NewText => spent' \in Spents /\ spent'.texts = Fresh BY DEF NewText, Spend, Spents, Fresh
<1> QED BY <1>1, <1>2, <1>3, <1>4

LEMMA PutTypes ==
  ASSUME disk \in [Notes -> Nat], typed \in Nat, NEW r \in Saves, Put(r) \/ UNCHANGED <<disk, typed>>
  PROVE  disk' \in [Notes -> Nat] /\ typed' \in Nat
<1>1. r.text \in Nat BY DEF Saves
<1>2. [disk EXCEPT ![r.note] = r.text] \in [Notes -> Nat] BY <1>1
<1> QED BY <1>2 DEF Put

LEMMA AnsweredTypes ==
  ASSUME NEW r \in Saves
  PROVE  /\ Answered(r) \in Saves /\ Answered(r).answer \in Nat \cup {Lost}
         /\ [r EXCEPT !.pc = "done", !.answer = Lost] \in Saves
<1>1. ASSUME NEW a \in Int PROVE [r EXCEPT !.pc = "done", !.answer = a] \in Saves BY DEF Saves
<1> DEFINE a == IF disk[r.note] = Missing THEN Lost
                ELSE IF Accepts(disk[r.note], r.rev) THEN r.text ELSE Missing
<1>2. a \in Nat \cup {Lost} /\ Lost \in Int BY DEF Saves, Lost, Missing
<1>3. Answered(r) = [r EXCEPT !.pc = "done", !.answer = a] BY DEF Answered
<1>4. a \in Int BY <1>2
<1>5. Answered(r).answer = a BY <1>3 DEF Saves
<1> QED BY <1>1, <1>2, <1>3, <1>4, <1>5

LEMMA RequestFacts ==
  /\ \A r \in Saves : \A x \in {"none", "sent", "done", "staging", "stuck"} : [r EXCEPT !.pc = x] \in Saves
  /\ \A r \in Reloads : \A x \in {"none", "wait", "tree", "staging"} : [r EXCEPT !.pc = x] \in Reloads
  /\ \A r \in Reloads : [r EXCEPT !.live = FALSE] \in Reloads
  /\ \A r \in Stages, a \in Int : [r EXCEPT !.pc = "done", !.answer = a] \in Stages
  /\ \A r \in Openers, n \in Notes : [NoOpener EXCEPT !.pc = "flush", !.note = n] \in Openers
  /\ \A r \in Openers : [r EXCEPT !.pc = "get"] \in Openers
  /\ \A r \in Openers, a \in Nat : [r EXCEPT !.pc = "last", !.answer = a] \in Openers
BY ConstantTypes DEF Saves, Reloads, Stages, Openers

LEMMA StageTypes ==
  ASSUME NEW e \in Editors, NEW by \in {"save", "reload", "dialog"}, NEW n \in Some, NEW mine \in Nat,
         Stage(e, by, n, mine)
  PROVE  stage' \in Stages /\ stage'.pc = "sent" /\ ed' \in Editors /\ ed'.stale = e.stale
<1>1. stage' \in Stages /\ stage'.pc = "sent" BY ConstantTypes DEF Stage, Stages
<1> DEFINE f == [e EXCEPT !.pending = TRUE, !.armed = FALSE]
<1>2. f \in Editors /\ f.stale = e.stale BY DEF Editors
<1>3. React(f) BY DEF Stage
<1>4. ed' \in Editors BY <1>2, <1>3, ReactTypes
<1>5. ed'.stale = f.stale BY <1>2, <1>3 DEF React, Effect, Editors
<1> QED BY <1>1, <1>2, <1>4, <1>5

LEMMA SaveEndTypes ==
  ASSUME reload \in Reloads, opener \in Openers, NEW e \in Editors, NEW ok \in BOOLEAN, SaveEnds(e, ok)
  PROVE  save' = NoSave /\ reload' \in Reloads /\ opener' \in Openers
<1>1. GoesOn(e, ok) \in Reloads BY RequestFacts, ConstantTypes DEF GoesOn
<1> QED BY <1>1, ConstantTypes DEF SaveEnds

\* The effect marks the note as unsaved, and changes nothing else of it.
LEMMA ReactFacts ==
  ASSUME ed \in Editors, NEW e \in Editors, React(e)
  PROVE  /\ ed' \in Editors
         /\ ed'.active = e.active /\ ed'.content = e.content /\ ed'.revision = e.revision
         /\ ed'.stale = e.stale /\ ed'.pending = e.pending
         /\ e.dirty => ed'.dirty
         /\ ed'.dirty => e.dirty \/ (Open(e) /\ ~Recovering(e))
         /\ ed'.skip => e.skip
<1>1. ed' \in Editors BY ReactTypes
<1>2. CASE ~Triggered(e) BY <1>1, <1>2 DEF React
<1>3. CASE Triggered(e) /\ e.skip
  <2>1. ed' = [e EXCEPT !.skip = FALSE, !.watch = FALSE] BY <1>3 DEF React, Effect
  <2> QED BY <1>1, <1>3, <2>1 DEF Editors
<1>4. CASE Triggered(e) /\ ~e.skip /\ Open(e) /\ ~Recovering(e)
  <2>1. ed' = [e EXCEPT !.watch = TRUE, !.dirty = TRUE, !.armed = TRUE] BY <1>4 DEF React, Effect
  <2> QED BY <1>1, <1>4, <2>1 DEF Editors
<1>5. CASE Triggered(e) /\ ~e.skip /\ ~(Open(e) /\ ~Recovering(e))
  <2>1. ed' = [e EXCEPT !.watch = Open(e)] BY <1>5 DEF React, Effect
  <2> QED BY <1>1, <1>5, <2>1 DEF Editors
<1> QED BY <1>2, <1>3, <1>4, <1>5

-----------------------------------------------------------------------------
(* Types, action by action. *)

LEMMA StutterTypes == TypeOK /\ UNCHANGED vars => TypeOK'
BY DEF TypeOK, Answers, vars, requests, ghosts

LEMMA ServerTypes ==
  ASSUME TypeOK, Publish \/ \E n \in Notes : Pull(n)
  PROVE  TypeOK'
<1> USE DEF TypeOK, Answers, requests, ghosts
<1>1. CASE Publish
  <2>1. git' \in [op : Nat, path : Some, terminal : BOOLEAN] BY <1>1 DEF Publish
  <2> QED BY <1>1, <2>1 DEF Publish
<1>2. ASSUME NEW n \in Notes, Pull(n) PROVE TypeOK'
  <2>1. git' \in [op : Nat, path : Some, terminal : BOOLEAN] BY <1>2, ConstantTypes DEF Pull
  <2>2. disk' \in [Notes -> Nat] BY <1>2, SpentTypes DEF Pull, Missing
  <2>3. spent' \in Spents
    <3>1. spent.syncs + 1 \in Nat /\ spent.texts + 1 \in Nat BY DEF Spents
    <3> DEFINE s == spent.syncs + 1
               t == spent.texts + 1
    <3>2. spent' \in {[spent EXCEPT !.syncs = s, !.texts = t], [spent EXCEPT !.syncs = s]}
      BY <1>2 DEF Pull
    <3>3. s \in Nat /\ t \in Nat BY <3>1
    <3> HIDE DEF s, t
    <3>4. [spent EXCEPT !.syncs = s, !.texts = t] \in Spents BY <3>3 DEF Spents
    <3>5. [spent EXCEPT !.syncs = s] \in Spents BY <3>3 DEF Spents
    <3> QED BY <3>2, <3>4, <3>5
  <2> QED BY <1>2, <2>1, <2>2, <2>3 DEF Pull
<1> QED BY <1>1, <1>2

(* The four ends of a save, and the texts it goes on with. *)
Answer == IF ed.active = save.note THEN [ed EXCEPT !.revision = save.answer] ELSE ed
Again == ed.active = save.note /\ ~savedAll(ed) /\ ed.dirty
Done == IF Answer.active = save.note /\ savedAll(Answer) THEN [Answer EXCEPT !.dirty = FALSE] ELSE Answer

LEMMA SaveAnsweredCases ==
  ASSUME SaveAnswered, ed \in Editors
  PROVE  /\ save.pc = "done" /\ UNCHANGED <<disk, git, dialog, poll, processed, typed, odd, spent>>
         /\ \/ save.answer = Lost /\ React(Failed(ed)) /\ SaveEnds(ed, FALSE) /\ UNCHANGED <<stage, known>>
            \/ save.answer = Missing /\ ed.pending /\ SaveEnds(ed, TRUE) /\ UNCHANGED <<ed, stage, known>>
            \/ /\ save.answer = Missing /\ ~ed.pending /\ Stage(ed, "save", save.note, 0)
               /\ save' = [save EXCEPT !.pc = "staging"] /\ UNCHANGED <<opener, reload, known>>
            \/ /\ save.answer \notin {Lost, Missing} /\ Again /\ React(Sending(Answer)) /\ Send(Answer)
               /\ UNCHANGED <<stage, opener, reload>>
            \/ /\ save.answer \notin {Lost, Missing} /\ ~Again /\ React(Done) /\ SaveEnds(Done, TRUE)
               /\ UNCHANGED <<stage, known>>
<1>1. ed.pending \in BOOLEAN /\ Lost # Missing BY DEF Editors, Lost, Missing
<1>2. CASE save.answer = Lost BY <1>1, <1>2 DEF SaveAnswered
<1>3. CASE save.answer = Missing /\ ed.pending BY <1>1, <1>3 DEF SaveAnswered
<1>4. CASE save.answer = Missing /\ ~ed.pending BY <1>1, <1>4 DEF SaveAnswered
<1>5. CASE save.answer \notin {Lost, Missing} BY <1>1, <1>5 DEF SaveAnswered, Answer, Again, Done
<1> QED BY <1>1, <1>2, <1>3, <1>4, <1>5

LEMMA SaveTypes ==
  ASSUME TypeOK, Type \/ TimerFires \/ saveNow \/ PutSave \/ LoseSave \/ SaveAnswered
  PROVE  TypeOK'
<1> USE DEF TypeOK, Answers, requests, ghosts
<1>1. CASE Type
  <2>1. [ed EXCEPT !.content = Fresh] \in Editors BY SpentTypes DEF Editors
  <2>2. ed' \in Editors /\ ed'.stale = ed.stale BY <1>1, <2>1, ReactFacts DEF Type, Editors
  <2>3. typed' \in Nat /\ spent' \in Spents BY <1>1, SpentTypes DEF Type
  <2> QED BY <1>1, <2>2, <2>3 DEF Type
<1>2. CASE TimerFires
  <2>1. Sending(ed) \in Editors /\ [ed EXCEPT !.armed = FALSE] \in Editors BY EditorFacts DEF Editors
  <2>2. Sending(ed).stale = ed.stale BY DEF Sending, Editors
  <2>3. ed' \in Editors /\ ed'.stale = ed.stale BY <1>2, <2>1, <2>2, ReactFacts DEF TimerFires, Editors
  <2>4. Sent(ed) \in Saves /\ Sent(ed).pc = "sent" BY EditorFacts DEF Sent
  <2>5. known' \subseteq Nat BY <1>2 DEF TimerFires, Send, Editors
  <2> QED BY <1>2, <2>3, <2>4, <2>5 DEF TimerFires, Send
<1>3. CASE saveNow
  <2> DEFINE e == [Sending(ed) EXCEPT !.dirty = TRUE]
  <2>1. e \in Editors /\ e.stale = ed.stale BY EditorFacts DEF Editors, Sending
  <2>2. ed' \in Editors /\ ed'.stale = ed.stale BY <1>3, <2>1, ReactFacts DEF saveNow
  <2>3. Sent(ed) \in Saves /\ Sent(ed).pc = "sent" BY EditorFacts DEF Sent
  <2>4. known' \subseteq Nat BY <1>3 DEF saveNow, Send, Editors
  <2>5. spent' \in Spents BY <1>3, SpentTypes DEF saveNow
  <2> QED BY <1>3, <2>2, <2>3, <2>4, <2>5 DEF saveNow, Send
<1>4. CASE PutSave
  <2>1. disk' \in [Notes -> Nat] /\ typed' \in Nat BY <1>4, PutTypes DEF PutSave
  <2> QED BY <1>4, <2>1, AnsweredTypes DEF PutSave
<1>5. CASE LoseSave
  <2>1. disk' \in [Notes -> Nat] /\ typed' \in Nat BY <1>5, PutTypes DEF LoseSave
  <2>2. spent' \in Spents BY <1>5, SpentTypes DEF LoseSave
  <2>3. save' \in Saves /\ save'.answer = Lost BY <1>5, AnsweredTypes DEF LoseSave, Saves
  <2> QED BY <1>5, <2>1, <2>2, <2>3 DEF LoseSave
<1>6. CASE SaveAnswered
  <2>1. /\ save.pc = "done" /\ UNCHANGED <<disk, git, dialog, poll, processed, typed, odd, spent>>
        /\ save.answer \in Nat \cup {Lost}
    BY <1>6, SaveAnsweredCases
  <2>2. CASE save.answer = Lost /\ React(Failed(ed)) /\ SaveEnds(ed, FALSE) /\ UNCHANGED <<stage, known>>
    <3>1. Failed(ed) \in Editors /\ Failed(ed).stale = ed.stale BY EditorFacts DEF Failed, Editors
    <3>2. ed' \in Editors /\ ed'.stale = ed.stale BY <2>2, <3>1, ReactFacts
    <3>3. save' = NoSave /\ reload' \in Reloads /\ opener' \in Openers BY <2>2, SaveEndTypes
    <3> QED BY <2>1, <2>2, <3>2, <3>3, ConstantTypes DEF NoSave
  <2>3. CASE save.answer = Missing /\ ed.pending /\ SaveEnds(ed, TRUE) /\ UNCHANGED <<ed, stage, known>>
    <3>1. save' = NoSave /\ reload' \in Reloads /\ opener' \in Openers BY <2>3, SaveEndTypes
    <3> QED BY <2>1, <2>3, <3>1, ConstantTypes DEF NoSave
  <2>4. CASE /\ save.answer = Missing /\ ~ed.pending /\ Stage(ed, "save", save.note, 0)
             /\ save' = [save EXCEPT !.pc = "staging"] /\ UNCHANGED <<opener, reload, known>>
    <3>1. save.note \in Some BY DEF Saves
    <3>2. stage' \in Stages /\ stage'.pc = "sent" /\ ed' \in Editors /\ ed'.stale = ed.stale
      BY <2>4, <3>1, StageTypes
    <3>3. save' \in Saves /\ save'.pc = "staging" BY <2>4, RequestFacts DEF Saves
    <3> QED BY <2>1, <2>4, <3>2, <3>3
  <2>5. ASSUME save.answer \notin {Lost, Missing}
        PROVE  Answer \in Editors /\ Answer.stale = ed.stale /\ Done \in Editors /\ Done.stale = ed.stale
    <3>1. Answer \in Editors /\ Answer.stale = ed.stale BY <2>1, <2>5 DEF Answer, Editors
    <3> QED BY <3>1 DEF Done, Editors
  <2>6. CASE /\ save.answer \notin {Lost, Missing} /\ Again /\ React(Sending(Answer)) /\ Send(Answer)
             /\ UNCHANGED <<stage, opener, reload>>
    <3>1. Sending(Answer) \in Editors BY <2>5, <2>6, EditorFacts
    <3>2. Sending(Answer).stale = ed.stale BY <2>5, <2>6 DEF Sending, Editors
    <3>3. ed' \in Editors /\ ed'.stale = ed.stale BY <2>6, <3>1, <3>2, ReactFacts
    <3>4. Sent(Answer) \in Saves /\ Sent(Answer).pc = "sent" /\ Answer.content \in Nat
      BY <2>5, <2>6, EditorFacts DEF Sent, Editors
    <3> QED BY <2>1, <2>6, <3>3, <3>4 DEF Send
  <2>7. CASE /\ save.answer \notin {Lost, Missing} /\ ~Again /\ React(Done) /\ SaveEnds(Done, TRUE)
             /\ UNCHANGED <<stage, known>>
    <3>1. ed' \in Editors /\ ed'.stale = ed.stale BY <2>5, <2>7, ReactFacts
    <3>2. save' = NoSave /\ reload' \in Reloads /\ opener' \in Openers BY <2>5, <2>7, SaveEndTypes
    <3> QED BY <2>1, <2>7, <3>1, <3>2, ConstantTypes DEF NoSave
  <2> QED BY <1>6, <2>2, <2>3, <2>4, <2>6, <2>7, SaveAnsweredCases
<1> QED BY <1>1, <1>2, <1>3, <1>4, <1>5, <1>6

\* A read of a stale note ends: the note in conflict, or the dialog closed.
StageMine == stage.answer # Lost /\ ed.active = stage.note
StageResult ==
  IF StageMine THEN Staled(Cleared)
  ELSE IF stage.answer = Lost /\ stage.by = "save" THEN Failed(Cleared) ELSE Cleared

LEMMA StageDoneCases ==
  ASSUME StageDone, stage \in Stages
  PROVE  /\ stage.pc = "done" /\ stage' = NoStage /\ UNCHANGED <<disk, git, poll, typed, odd, spent>>
         /\ React(StageResult) /\ known' = IF StageMine THEN known \cup {stage.answer} ELSE known
         /\ \/ /\ stage.by = "save" /\ SaveEnds(StageResult, stage.answer # Lost)
               /\ UNCHANGED <<dialog, processed>>
            \/ /\ stage.by = "reload" /\ reload' = NoReload /\ UNCHANGED <<save, dialog, opener>>
               /\ processed' = IF stage.answer # Lost THEN processed \cup {reload.op} ELSE processed
            \/ /\ stage.by = "dialog" /\ UNCHANGED <<save, opener, reload, processed>>
               /\ dialog' = IF stage.answer # Lost THEN NoSave ELSE [dialog EXCEPT !.pc = "stuck"]
<1>1. stage.by \in {"save", "reload", "dialog"} BY DEF Stages
<1>2. StageEndsFor(StageResult, stage.answer # Lost)
  BY DEF StageDone, StageResult, StageMine
<1>3. React(StageResult) /\ known' = IF StageMine THEN known \cup {stage.answer} ELSE known
  BY DEF StageDone, StageResult, StageMine
<1> QED BY <1>1, <1>2, <1>3 DEF StageDone, StageEndsFor

LEMMA StageResultTypes ==
  ASSUME ed \in Editors, stage \in Stages
  PROVE  /\ StageResult \in Editors /\ StageResult.active = ed.active /\ StageResult.content = ed.content
         /\ StageResult.revision = ed.revision /\ StageResult.skip = ed.skip /\ StageResult.watch = ed.watch
         /\ ~StageResult.pending /\ (ed.dirty => StageResult.dirty)
         /\ StageMine => StageResult.dirty /\ StageResult.stale.disk = stage.answer
         /\ StageMine => StageResult.stale.mine \in {ed.content, stage.mine}
         /\ ~StageMine => StageResult.stale = ed.stale
<1>1. Cleared \in Editors BY DEF Cleared, Editors
<1> DEFINE m == IF stage.mine = 0 THEN ed.content ELSE stage.mine
           st == [mine |-> m, disk |-> stage.answer]
<1>2. st \in [mine : Nat, disk : Int] BY DEF Stages, Editors
<1>3. Staled(Cleared) = [ed EXCEPT !.pending = FALSE, !.dirty = TRUE, !.failed = FALSE, !.stale = st]
  BY <1>1 DEF Staled, Cleared, Editors
<1> HIDE DEF st
<1>4. CASE StageMine
  <2>1. StageResult = Staled(Cleared) BY <1>4 DEF StageResult
  <2>2. st.disk = stage.answer /\ st.mine \in {ed.content, stage.mine} BY DEF st
  <2> QED BY <1>2, <1>3, <1>4, <2>1, <2>2 DEF Editors
<1>5. CASE ~StageMine
  <2>1. StageResult \in {Failed(Cleared), Cleared} BY <1>5 DEF StageResult
  <2> QED BY <1>5, <2>1 DEF Failed, Cleared, Editors
<1> QED BY <1>4, <1>5

\* The dialog's answer: another note, a text typed meanwhile, or the end of it.
DialogResult ==
  IF ed.active # dialog.note THEN ed
  ELSE IF ed.content # dialog.text
       THEN [ed EXCEPT !.revision = dialog.answer, !.dirty = TRUE, !.failed = FALSE,
                       !.stale = [mine |-> ed.content, disk |-> dialog.answer]]
       ELSE [ed EXCEPT !.revision = dialog.answer, !.dirty = FALSE, !.skip = TRUE,
                       !.stale = NoStale, !.failed = FALSE]

LEMMA DialogAnsweredCases ==
  ASSUME DialogAnswered, ed \in Editors
  PROVE  /\ dialog.pc = "done" /\ UNCHANGED <<disk, git, save, opener, reload, poll, processed, ghosts, spent>>
         /\ \/ dialog.answer = Lost /\ React(Failed(ed)) /\ dialog' = NoSave /\ UNCHANGED stage
            \/ dialog.answer = Missing /\ ed.pending /\ dialog' = NoSave /\ UNCHANGED <<ed, stage>>
            \/ /\ dialog.answer = Missing /\ ~ed.pending
               /\ Stage(ed, "dialog", dialog.note, dialog.text) /\ dialog' = [dialog EXCEPT !.pc = "staging"]
            \/ /\ dialog.answer \notin {Lost, Missing} /\ dialog' = NoSave /\ UNCHANGED stage
               /\ React(DialogResult)
<1>1. ed.pending \in BOOLEAN /\ Lost # Missing BY DEF Editors, Lost, Missing
<1>2. CASE dialog.answer = Lost BY <1>1, <1>2 DEF DialogAnswered
<1>3. CASE dialog.answer = Missing /\ ed.pending BY <1>1, <1>3 DEF DialogAnswered
<1>4. CASE dialog.answer = Missing /\ ~ed.pending BY <1>1, <1>4 DEF DialogAnswered
<1>5. CASE dialog.answer \notin {Lost, Missing} BY <1>1, <1>5 DEF DialogAnswered, DialogResult
<1> QED BY <1>1, <1>2, <1>3, <1>4, <1>5

LEMMA DialogResultTypes ==
  ASSUME ed \in Editors, dialog \in Saves, dialog.answer \in Nat
  PROVE  /\ DialogResult \in Editors /\ DialogResult.active = ed.active
         /\ DialogResult.content = ed.content /\ DialogResult.pending = ed.pending
         /\ DialogResult.watch = ed.watch
         /\ DialogResult.stale.disk \in {ed.stale.disk, dialog.answer, Lost}
         /\ DialogResult.stale.mine \in {ed.stale.mine, ed.content, 0}
<1> DEFINE st == [mine |-> ed.content, disk |-> dialog.answer]
<1>1. st \in [mine : Nat, disk : Int] /\ st.disk = dialog.answer
      /\ st.mine = ed.content
  BY DEF Editors
<1>2. NoStale \in [mine : Nat, disk : Int] /\ NoStale.disk = Lost /\ NoStale.mine = 0
  BY ConstantTypes DEF NoStale
<1> HIDE DEF st
<1>3. CASE ed.active # dialog.note BY <1>3 DEF DialogResult
<1>4. CASE ed.active = dialog.note /\ ed.content # dialog.text
  <2>1. DialogResult = [ed EXCEPT !.revision = dialog.answer, !.dirty = TRUE, !.failed = FALSE, !.stale = st]
    BY <1>4 DEF DialogResult, st
  <2> QED BY <1>1, <2>1 DEF Editors
<1>5. CASE ed.active = dialog.note /\ ed.content = dialog.text
  <2>1. DialogResult = [ed EXCEPT !.revision = dialog.answer, !.dirty = FALSE, !.skip = TRUE,
                                  !.stale = NoStale, !.failed = FALSE]
    BY <1>5 DEF DialogResult
  <2> QED BY <1>2, <2>1 DEF Editors
<1> QED BY <1>3, <1>4, <1>5

LEMMA AppliedTypes ==
  ASSUME ed \in Editors, NEW n \in Some, NEW text \in Nat
  PROVE  LET e == applyLoadedNote(ed, n, text) IN
         /\ e \in Editors /\ e.active = n /\ e.content = text /\ e.revision = text /\ e.skip /\ ~e.dirty
         /\ e.stale = NoStale /\ e.pending = ed.pending /\ e.watch = ed.watch
<1>1. applyLoadedNote(ed, n, text) \in Editors BY EditorFacts
<1> QED BY <1>1 DEF applyLoadedNote, Editors

LEMMA ResetTypes ==
  ASSUME ed \in Editors
  PROVE  LET e == resetEditorState(ed) IN
         /\ e \in Editors /\ e.active = None /\ e.content = 0 /\ ~e.dirty /\ ~e.pending /\ e.stale = NoStale
<1>1. applyLoadedNote(ed, None, 0) \in Editors /\ applyLoadedNote(ed, None, 0).active = None
      /\ applyLoadedNote(ed, None, 0).content = 0 /\ ~applyLoadedNote(ed, None, 0).dirty
      /\ applyLoadedNote(ed, None, 0).stale = NoStale
  BY AppliedTypes, ConstantTypes
<1> HIDE DEF applyLoadedNote
<1> QED BY <1>1 DEF resetEditorState, Editors

LEMMA ApplyTypes ==
  ASSUME ed \in Editors, odd \in BOOLEAN, NEW n \in Some, NEW text \in Nat, NEW races \in BOOLEAN,
         Apply(n, text, races)
  PROVE  /\ ed' \in Editors /\ ed'.stale = NoStale /\ ed'.active = n /\ ed'.content = text
         /\ ed'.revision = text /\ ed'.pending = ed.pending
         /\ known' = {text} /\ known' \subseteq Nat /\ odd' = (odd \/ races) /\ odd' \in BOOLEAN
<1> DEFINE e == applyLoadedNote(ed, n, text)
<1>1. /\ e \in Editors /\ e.active = n /\ e.content = text /\ e.revision = text
      /\ e.stale = NoStale /\ e.pending = ed.pending
  BY AppliedTypes
<1>2. React(e) /\ known' = {text} /\ odd' = (odd \/ races) BY DEF Apply
<1> HIDE DEF e
<1>3. ed' \in Editors /\ ed'.stale = NoStale /\ ed'.active = n /\ ed'.content = text
      /\ ed'.revision = text /\ ed'.pending = ed.pending
  BY <1>1, <1>2, ReactFacts
<1>4. odd' \in BOOLEAN BY <1>2
<1> QED BY <1>2, <1>3, <1>4

LEMMA ResetsTypes ==
  ASSUME ed \in Editors, odd \in BOOLEAN, save \in Saves, NEW races \in BOOLEAN, Reset(races)
  PROVE  /\ ed' \in Editors /\ ed'.stale = NoStale /\ ed'.active = None /\ ed'.content = 0 /\ ~ed'.pending
         /\ known' = {} /\ stage' = NoStage /\ save' \in {save, NoSave}
         /\ save' = IF save.pc = "staging" THEN NoSave ELSE save
         /\ odd' = (odd \/ races) /\ odd' \in BOOLEAN
<1> DEFINE e == resetEditorState(ed)
<1>1. e \in Editors /\ e.active = None /\ e.content = 0 /\ ~e.pending /\ e.stale = NoStale BY ResetTypes
<1>2. React(e) /\ known' = {} /\ odd' = (odd \/ races) /\ stage' = NoStage
      /\ save' = IF save.pc = "staging" THEN NoSave ELSE save
  BY DEF Reset
<1> HIDE DEF e
<1>3. ed' \in Editors /\ ed'.stale = NoStale /\ ed'.active = None /\ ed'.content = 0 /\ ~ed'.pending
  BY <1>1, <1>2, ReactFacts
<1>4. odd' \in BOOLEAN BY <1>2
<1> QED BY <1>2, <1>3, <1>4


LEMMA ReloadTreeCases ==
  ASSUME ReloadTree, ed \in Editors
  PROVE  /\ reload.pc = "tree" /\ UNCHANGED <<disk, git, save, dialog, opener, poll, ghosts, spent>>
         /\ \/ Mark /\ UNCHANGED <<ed, stage>>
            \/ /\ ed.active = reload.path /\ ed.stale = NoStale /\ ed.dirty /\ ~ed.pending
               /\ Stage(ed, "reload", ed.active, 0) /\ reload' = [reload EXCEPT !.pc = "staging"]
               /\ UNCHANGED processed
            \/ /\ ed.active = reload.path /\ ed.stale = NoStale /\ ~ed.dirty
               /\ reload' = [reload EXCEPT !.pc = "get", !.note = ed.active, !.live = TRUE, !.text = ed.content]
               /\ UNCHANGED <<ed, stage, processed>>
<1>1. ed.pending \in BOOLEAN /\ ed.dirty \in BOOLEAN BY DEF Editors
<1>2. CASE ed.active # reload.path \/ ed.stale # NoStale \/ (ed.dirty /\ ed.pending)
  BY <1>1, <1>2 DEF ReloadTree
<1>3. CASE ed.active = reload.path /\ ed.stale = NoStale /\ ed.dirty /\ ~ed.pending
  BY <1>1, <1>3 DEF ReloadTree
<1>4. CASE ed.active = reload.path /\ ed.stale = NoStale /\ ~ed.dirty BY <1>1, <1>4 DEF ReloadTree
<1> QED BY <1>1, <1>2, <1>3, <1>4

LEMMA MarkTypes ==
  ASSUME reload \in Reloads, processed \subseteq Nat, Mark
  PROVE  reload' = NoReload /\ reload' \in Reloads /\ processed' \subseteq Nat
<1>1. reload.op \in Nat BY DEF Reloads
<1> QED BY <1>1, ConstantTypes DEF Mark

LEMMA DialogTypes ==
  ASSUME TypeOK, Addressed, \/ StageRead \/ StageDone \/ LoadDisk \/ saveStaleNote \/ PutDialog \/ LoseDialog
                            \/ DialogAnswered
  PROVE  TypeOK'
<1> USE DEF TypeOK, Answers, requests, ghosts
<1>1. CASE StageRead
  <2>1. \A n \in Notes : disk[n] \in Nat OBVIOUS
  <2>2. spent' \in Spents BY <1>1, SpentTypes DEF StageRead
  <2>3. PICK a : stage' = [stage EXCEPT !.pc = "done", !.answer = a] /\ a \in {disk[stage.note], Lost}
    BY <1>1 DEF StageRead
  <2>4. stage.note \in Notes BY <1>1 DEF StageRead, Addressed
  <2>5. a \in Nat \cup {Lost} /\ a \in Int BY <2>1, <2>3, <2>4 DEF Lost
  <2>6. stage' \in Stages /\ stage'.answer = a BY <2>3, <2>5 DEF Stages
  <2> QED BY <1>1, <2>2, <2>5, <2>6 DEF StageRead
<1>2. CASE StageDone
  <2>1. /\ stage.pc = "done" /\ stage' = NoStage /\ UNCHANGED <<disk, git, poll, typed, odd, spent>>
        /\ React(StageResult) /\ known' = IF StageMine THEN known \cup {stage.answer} ELSE known
    BY <1>2, StageDoneCases
  <2>2. ed' \in Editors /\ ed'.stale = StageResult.stale BY <2>1, StageResultTypes, ReactFacts
  <2>3. stage.answer \in Nat \cup {Lost} BY <2>1
  <2>4. known' \subseteq Nat BY <2>1, <2>3 DEF StageMine
  <2>5. ed'.stale # NoStale => ed'.stale.disk \in Nat
    BY <2>2, <2>3, StageResultTypes DEF StageMine
  <2>6. save' \in {save, NoSave} /\ reload' \in Reloads /\ opener' \in Openers /\ processed' \subseteq Nat
        /\ dialog' \in Saves /\ (dialog'.pc # "done" \/ dialog' = dialog)
    <3>1. (stage.answer # Lost) \in BOOLEAN OBVIOUS
    <3>2. CASE stage.by = "save" /\ SaveEnds(StageResult, stage.answer # Lost) /\ UNCHANGED <<dialog, processed>>
      BY <3>1, <3>2, StageResultTypes, SaveEndTypes
    <3>3. CASE /\ stage.by = "reload" /\ reload' = NoReload /\ UNCHANGED <<save, dialog, opener>>
               /\ processed' = IF stage.answer # Lost THEN processed \cup {reload.op} ELSE processed
      <4>1. reload.op \in Nat BY DEF Reloads
      <4> QED BY <3>3, <4>1, ConstantTypes
    <3>4. CASE /\ stage.by = "dialog" /\ UNCHANGED <<save, opener, reload, processed>>
               /\ dialog' = IF stage.answer # Lost THEN NoSave ELSE [dialog EXCEPT !.pc = "stuck"]
      <4>1. [dialog EXCEPT !.pc = "stuck"] \in Saves /\ [dialog EXCEPT !.pc = "stuck"].pc = "stuck"
        BY RequestFacts DEF Saves
      <4> QED BY <3>4, <4>1, ConstantTypes DEF NoSave
    <3> QED BY <1>2, <3>2, <3>3, <3>4, StageDoneCases
  <2>7. save' \in Saves /\ (save'.pc = "done" => save'.answer \in Nat \cup {Lost})
    BY <2>6, ConstantTypes DEF NoSave
  <2>8. dialog'.pc = "done" => dialog'.answer \in Nat \cup {Lost} BY <2>6
  <2> QED BY <2>1, <2>2, <2>4, <2>5, <2>6, <2>7, <2>8, ConstantTypes DEF NoStage
<1>3. CASE LoadDisk
  <2> DEFINE races == save.pc # "none"
  <2>1. ed.stale # NoStale /\ ed.stale.disk \in Nat BY <1>3 DEF LoadDisk, DialogOpen
  <2>2. CASE ed.stale.disk = Missing
    <3>1. Reset(races) /\ reload' = Unblocked /\ typed' = 0
          /\ UNCHANGED <<disk, git, dialog, opener, poll, processed, spent>>
      BY <1>3, <2>2 DEF LoadDisk
    <3>2. Unblocked \in Reloads BY RequestFacts DEF Unblocked
    <3>3. /\ ed' \in Editors /\ ed'.stale = NoStale /\ known' = {} /\ stage' = NoStage
          /\ save' \in {save, NoSave} /\ odd' \in BOOLEAN
      BY <3>1, ResetsTypes
    <3>4. save' \in Saves /\ (save'.pc = "done" => save'.answer \in Nat \cup {Lost})
      BY <3>3, ConstantTypes DEF NoSave
    <3> QED BY <3>1, <3>2, <3>3, <3>4, ConstantTypes DEF NoStage
  <2>3. CASE ed.stale.disk # Missing
    <3>1. Apply(ed.active, ed.stale.disk, races) /\ typed' = 0
          /\ UNCHANGED <<disk, git, save, stage, reload, dialog, opener, poll, processed, spent>>
      BY <1>3, <2>3 DEF LoadDisk
    <3>2. ed.active \in Some BY DEF Editors
    <3> QED BY <2>1, <3>1, <3>2, ApplyTypes
  <2> QED BY <2>2, <2>3
<1>4. CASE saveStaleNote
  <2>1. ed.stale # NoStale /\ ed.stale.disk \in Nat /\ ed.stale.mine \in Nat
    BY <1>4 DEF saveStaleNote, DialogOpen, Editors
  <2>2. spent' \in Spents /\ Fresh \in Nat BY <1>4, SpentTypes DEF saveStaleNote
  <2>3. PICK t : t \in {ed.stale.mine, Fresh} /\ dialog' = [Sent(ed) EXCEPT !.text = t, !.rev = ed.stale.disk]
    BY <1>4 DEF saveStaleNote
  <2>4. t \in Nat BY <2>1, <2>2, <2>3
  <2>5. dialog' \in Saves /\ dialog'.pc = "sent" /\ dialog'.text = t
    <3>1. Sent(ed) \in Saves /\ Sent(ed).pc = "sent" BY EditorFacts DEF Sent
    <3> DEFINE d == ed.stale.disk
    <3>2. d \in Int BY <2>1
    <3>3. dialog' = [Sent(ed) EXCEPT !.text = t, !.rev = d] BY <2>3
    <3> HIDE DEF d
    <3> QED BY <2>4, <3>1, <3>2, <3>3 DEF Saves
  <2>6. known' \subseteq Nat BY <1>4, <2>4, <2>5 DEF saveStaleNote
  <2> QED BY <1>4, <2>2, <2>5, <2>6 DEF saveStaleNote
<1>5. CASE PutDialog
  <2>1. disk' \in [Notes -> Nat] /\ typed' \in Nat BY <1>5, PutTypes DEF PutDialog
  <2> QED BY <1>5, <2>1, AnsweredTypes DEF PutDialog
<1>6. CASE LoseDialog
  <2>1. disk' \in [Notes -> Nat] /\ typed' \in Nat BY <1>6, PutTypes DEF LoseDialog
  <2>2. spent' \in Spents BY <1>6, SpentTypes DEF LoseDialog
  <2>3. dialog' \in Saves /\ dialog'.answer = Lost BY <1>6, AnsweredTypes DEF LoseDialog, Saves
  <2> QED BY <1>6, <2>1, <2>2, <2>3 DEF LoseDialog
<1>7. CASE DialogAnswered
  <2>1. /\ dialog.pc = "done" /\ UNCHANGED <<disk, git, save, opener, reload, poll, processed, ghosts, spent>>
        /\ dialog.answer \in Nat \cup {Lost}
    BY <1>7, DialogAnsweredCases
  <2>2. CASE dialog.answer = Lost /\ React(Failed(ed)) /\ dialog' = NoSave /\ UNCHANGED stage
    <3>1. Failed(ed) \in Editors /\ Failed(ed).stale = ed.stale BY EditorFacts DEF Failed, Editors
    <3>2. ed' \in Editors /\ ed'.stale = ed.stale BY <2>2, <3>1, ReactFacts
    <3> QED BY <2>1, <2>2, <3>2, ConstantTypes DEF NoSave
  <2>3. CASE dialog.answer = Missing /\ ed.pending /\ dialog' = NoSave /\ UNCHANGED <<ed, stage>>
    BY <2>1, <2>3, ConstantTypes DEF NoSave
  <2>4. CASE /\ dialog.answer = Missing /\ ~ed.pending
             /\ Stage(ed, "dialog", dialog.note, dialog.text) /\ dialog' = [dialog EXCEPT !.pc = "staging"]
    <3>1. dialog.note \in Some /\ dialog.text \in Nat BY DEF Saves
    <3>2. stage' \in Stages /\ stage'.pc = "sent" /\ ed' \in Editors /\ ed'.stale = ed.stale
      BY <2>4, <3>1, StageTypes
    <3>3. dialog' \in Saves /\ dialog'.pc = "staging" BY <2>4, RequestFacts DEF Saves
    <3> QED BY <2>1, <2>4, <3>2, <3>3
  <2>5. CASE /\ dialog.answer \notin {Lost, Missing} /\ dialog' = NoSave /\ UNCHANGED stage
             /\ React(DialogResult)
    <3>1. dialog.answer \in Nat BY <2>1, <2>5
    <3>2. ed' \in Editors /\ ed'.stale = DialogResult.stale BY <2>5, <3>1, DialogResultTypes, ReactFacts
    <3>3. ed'.stale # NoStale => ed'.stale.disk \in Nat
      <4>1. DialogResult.stale \in {ed.stale, NoStale} \/ DialogResult.stale = [mine |-> ed.content, disk |-> dialog.answer]
        BY <3>1 DEF DialogResult, Editors
      <4> QED BY <3>1, <3>2, <4>1
    <3> QED BY <2>1, <2>5, <3>2, <3>3, ConstantTypes DEF NoSave
  <2> QED BY <1>7, <2>2, <2>3, <2>4, <2>5, DialogAnsweredCases
<1> QED BY <1>1, <1>2, <1>3, <1>4, <1>5, <1>6, <1>7

LEMMA LoadTypes ==
  ASSUME TypeOK, Addressed, \/ Flush \/ OpenerRead \/ OpenerApply \/ ReloadTree \/ ReloadRead \/ ReloadApply
                            \/ \E n \in Notes : loadNote(n)
  PROVE  TypeOK'
<1> USE DEF TypeOK, Answers, requests, ghosts
<1>1. ASSUME NEW n \in Notes, loadNote(n) PROVE TypeOK'
  <2>1. spent' \in Spents BY <1>1, SpentTypes DEF loadNote
  <2>2. opener' \in Openers BY <1>1, RequestFacts DEF loadNote
  <2>3. reload' \in Reloads BY <1>1, RequestFacts DEF loadNote
  <2> QED BY <1>1, <2>1, <2>2, <2>3 DEF loadNote
<1>2. CASE Flush
  <2>1. CASE Recovering(ed)
    <3>1. opener' = NoOpener /\ React(Failed(ed)) /\ UNCHANGED <<save, known>> BY <1>2, <2>1 DEF Flush
    <3>2. Failed(ed) \in Editors /\ Failed(ed).stale = ed.stale BY EditorFacts DEF Failed, Editors
    <3>3. ed' \in Editors /\ ed'.stale = ed.stale BY <3>1, <3>2, ReactFacts
    <3> QED BY <1>2, <3>1, <3>3, ConstantTypes DEF Flush
  <2>2. CASE ~Recovering(ed) /\ ed.dirty
    <3>1. React(Sending(ed)) /\ Send(ed) /\ UNCHANGED opener BY <1>2, <2>2 DEF Flush
    <3>2. Sending(ed) \in Editors /\ Sending(ed).stale = ed.stale BY EditorFacts DEF Sending, Editors
    <3>3. ed' \in Editors /\ ed'.stale = ed.stale BY <3>1, <3>2, ReactFacts
    <3>4. Sent(ed) \in Saves /\ Sent(ed).pc = "sent" /\ ed.content \in Nat BY EditorFacts DEF Sent, Editors
    <3> QED BY <1>2, <3>1, <3>3, <3>4 DEF Flush, Send
  <2>3. CASE ~Recovering(ed) /\ ~ed.dirty
    <3>1. opener' = [opener EXCEPT !.pc = "get"] /\ UNCHANGED <<ed, save, known>> BY <1>2, <2>3 DEF Flush
    <3> QED BY <1>2, <3>1, RequestFacts DEF Flush
  <2> QED BY <2>1, <2>2, <2>3
<1>3. CASE OpenerRead
  <2>1. opener.note \in Notes /\ disk[opener.note] \in Nat BY <1>3 DEF OpenerRead, Addressed
  <2> DEFINE d == disk[opener.note]
  <2>4. opener' \in {NoOpener, [opener EXCEPT !.pc = "last", !.answer = d]} BY <1>3 DEF OpenerRead
  <2>5. d \in Nat BY <2>1
  <2> HIDE DEF d
  <2>2. opener' \in Openers BY <2>4, <2>5, ConstantTypes DEF Openers
  <2>3. spent' \in Spents BY <1>3, SpentTypes DEF OpenerRead
  <2> QED BY <1>3, <2>2, <2>3 DEF OpenerRead
<1>4. CASE OpenerApply
  <2>1. opener.note \in Some /\ opener.answer \in Nat /\ Apply(opener.note, opener.answer, FALSE)
    BY <1>4 DEF OpenerApply, Openers
  <2>2. ed' \in Editors /\ ed'.stale = NoStale /\ known' \subseteq Nat /\ odd' \in BOOLEAN
    BY <2>1, ApplyTypes
  <2> QED BY <1>4, <2>2, ConstantTypes DEF OpenerApply
<1>5. CASE ReloadTree
  <2>1. reload.pc = "tree" /\ UNCHANGED <<disk, git, save, dialog, opener, poll, ghosts, spent>>
    BY <1>5, ReloadTreeCases
  <2>2. CASE Mark /\ UNCHANGED <<ed, stage>> BY <2>1, <2>2, MarkTypes
  <2>3. CASE /\ ed.active = reload.path /\ ed.stale = NoStale /\ ed.dirty /\ ~ed.pending
             /\ Stage(ed, "reload", ed.active, 0) /\ reload' = [reload EXCEPT !.pc = "staging"]
             /\ UNCHANGED processed
    <3>1. ed.active \in Some BY DEF Editors
    <3>2. stage' \in Stages /\ stage'.pc = "sent" /\ ed' \in Editors /\ ed'.stale = ed.stale
      BY <2>3, <3>1, StageTypes
    <3> QED BY <2>1, <2>3, <3>2, RequestFacts
  <2>4. CASE /\ ed.active = reload.path /\ ed.stale = NoStale /\ ~ed.dirty
             /\ reload' = [reload EXCEPT !.pc = "get", !.note = ed.active, !.live = TRUE, !.text = ed.content]
             /\ UNCHANGED <<ed, stage, processed>>
    <3>1. ed.active \in Some /\ ed.content \in Nat BY DEF Editors
    <3>2. \A n \in Some, t \in Nat :
            [reload EXCEPT !.pc = "get", !.note = n, !.live = TRUE, !.text = t] \in Reloads
      BY DEF Reloads
    <3>3. reload' \in Reloads BY <2>4, <3>1, <3>2
    <3> QED BY <2>1, <2>4, <3>3
  <2> QED BY <1>5, <2>2, <2>3, <2>4, ReloadTreeCases
<1>6. CASE ReloadRead
  <2>1. reload.note \in Notes /\ disk[reload.note] \in Nat BY <1>6 DEF ReloadRead, Addressed
  <2>2. \A a \in Nat : [reload EXCEPT !.pc = "got", !.answer = a] \in Reloads BY DEF Reloads
  <2>3. reload' \in Reloads BY <1>6, <2>1, <2>2, ConstantTypes DEF ReloadRead
  <2>4. spent' \in Spents BY <1>6, SpentTypes DEF ReloadRead
  <2> QED BY <1>6, <2>3, <2>4 DEF ReloadRead
<1>7. CASE ReloadApply
  <2> DEFINE races == ed.dirty \/ ed.content # reload.text \/ save.pc # "none"
  <2>1. CASE ~reload.live \/ ed.active # reload.note
    <3>1. /\ reload' = NoReload
          /\ UNCHANGED <<ed, save, stage, processed, opener, known, odd, disk, git, dialog, poll, typed, spent>>
      BY <1>7, <2>1 DEF ReloadApply
    <3> QED BY <3>1, ConstantTypes
  <2>2. CASE reload.live /\ ed.active = reload.note /\ reload.answer = Missing
    <3>1. /\ Mark /\ Reset(races) /\ opener' = NoOpener
          /\ UNCHANGED <<disk, git, dialog, poll, typed, spent>>
      BY <1>7, <2>2 DEF ReloadApply
    <3>2. /\ ed' \in Editors /\ ed'.stale = NoStale /\ known' = {} /\ stage' = NoStage
          /\ save' \in {save, NoSave} /\ odd' \in BOOLEAN
      BY <3>1, ResetsTypes DEF Editors
    <3>3. save' \in Saves /\ (save'.pc = "done" => save'.answer \in Nat \cup {Lost})
      BY <3>2, ConstantTypes DEF NoSave
    <3> QED BY <3>1, <3>2, <3>3, MarkTypes, ConstantTypes DEF NoStage
  <2>3. CASE reload.live /\ ed.active = reload.note /\ reload.answer # Missing
    <3>1. /\ Mark /\ Apply(reload.note, reload.answer, races) /\ UNCHANGED <<save, stage, opener>>
          /\ UNCHANGED <<disk, git, dialog, poll, typed, spent>>
      BY <1>7, <2>3 DEF ReloadApply
    <3>2. reload.note \in Some /\ reload.answer \in Nat BY DEF Reloads
    <3>3. ed' \in Editors /\ ed'.stale = NoStale /\ known' \subseteq Nat /\ odd' \in BOOLEAN
      BY <3>1, <3>2, ApplyTypes
    <3> QED BY <3>1, <3>3, MarkTypes
  <2> QED BY <2>1, <2>2, <2>3 DEF Reloads
<1> QED BY <1>1, <1>2, <1>3, <1>4, <1>5, <1>6, <1>7

\* The poller keeps its one run or its timer.
LEMMA PollTypes ==
  ASSUME TypeOK, PollsOnce, PollRead \/ PollAnswered \/ PollEnds \/ PollTimer \/ refresh
  PROVE  TypeOK' /\ PollsOnce'
<1> USE DEF TypeOK, Answers, requests, ghosts
<1>1. CASE PollRead
  <2>1. git.op \in Nat /\ git.path \in Some OBVIOUS
  <2> DEFINE path == IF git.terminal THEN git.path ELSE None
  <2>2. path \in Some BY <2>1, ConstantTypes
  <2>3. poll' \in {[poll EXCEPT !.pc = "answered", !.op = git.op, !.path = path], [poll EXCEPT !.pc = "ends"]}
    BY <1>1 DEF PollRead
  <2> HIDE DEF path
  <2>4. poll' \in Polls /\ poll'.pc # "none" /\ poll'.current = poll.current /\ poll'.queued = poll.queued
        /\ poll'.timer = poll.timer
    BY <2>1, <2>2, <2>3 DEF Polls
  <2>5. spent' \in Spents BY <1>1, SpentTypes DEF PollRead
  <2> QED BY <1>1, <2>4, <2>5 DEF PollRead, PollsOnce
<1>2. CASE PollAnswered
  <2>1. poll.op \in Nat /\ poll.path \in Some BY DEF Polls
  <2>2. \A pc \in {"wait", "tree"} : [NoReload EXCEPT !.op = poll.op, !.path = poll.path, !.pc = pc] \in Reloads
    BY <2>1, ConstantTypes DEF Reloads
  <2>3. reload' \in Reloads BY <1>2, <2>2 DEF PollAnswered
  <2>4. poll' \in Polls /\ poll'.pc # "none" /\ poll'.current = poll.current /\ poll'.queued = poll.queued
        /\ poll'.timer = poll.timer
    BY <1>2 DEF PollAnswered, Polls
  <2> QED BY <1>2, <2>3, <2>4 DEF PollAnswered, PollsOnce
<1>3. CASE PollEnds
  <2>1. poll.current \in BOOLEAN BY DEF Polls
  <2>2. poll' = [NoPoll EXCEPT !.pc = IF poll.queued THEN "loading" ELSE "none", !.timer = poll.current]
    BY <1>3 DEF PollEnds, stillCurrent
  <2>3. poll' \in Polls BY <2>1, <2>2, ConstantTypes DEF Polls
  <2>4. PollsOnce' BY <1>3, <2>1, <2>2 DEF PollEnds, PollsOnce, NoPoll
  <2> QED BY <1>3, <2>3, <2>4 DEF PollEnds
<1>4. CASE PollTimer
  <2>1. poll.pc = "none" BY <1>4 DEF PollTimer, PollsOnce, Polls
  <2>2. poll' = [NoPoll EXCEPT !.pc = "loading"] BY <1>4, <2>1 DEF PollTimer
  <2>3. poll' \in Polls /\ PollsOnce' BY <2>2, ConstantTypes DEF Polls, PollsOnce, NoPoll
  <2> QED BY <1>4, <2>3 DEF PollTimer
<1>5. CASE refresh
  <2>1. spent' \in Spents BY <1>5, SpentTypes DEF refresh
  <2>2. CASE poll.pc = "none"
    <3>1. poll' = [NoPoll EXCEPT !.pc = "loading"] BY <1>5, <2>2 DEF refresh
    <3>2. poll' \in Polls /\ PollsOnce' BY <3>1, ConstantTypes DEF Polls, PollsOnce, NoPoll
    <3> QED BY <1>5, <2>1, <3>2 DEF refresh
  <2>3. CASE poll.pc # "none"
    <3>1. poll' = [poll EXCEPT !.current = FALSE, !.queued = TRUE, !.timer = FALSE]
      BY <1>5, <2>3 DEF refresh
    <3>2. poll' \in Polls /\ PollsOnce' BY <2>3, <3>1 DEF Polls, PollsOnce
    <3> QED BY <1>5, <2>1, <3>2 DEF refresh
  <2> QED BY <2>2, <2>3
<1> QED BY <1>1, <1>2, <1>3, <1>4, <1>5

LEMMA TypesStep ==
  ASSUME TypeOK, Addressed, PollsOnce, [Next]_vars
  PROVE  TypeOK' /\ PollsOnce'
<1>1. CASE PollRead \/ PollAnswered \/ PollEnds \/ PollTimer \/ refresh BY <1>1, PollTypes
<1>2. CASE Publish \/ \E n \in Notes : Pull(n)
  BY <1>2, ServerTypes DEF Publish, Pull, PollsOnce
<1>3. CASE Type \/ TimerFires \/ saveNow \/ PutSave \/ LoseSave \/ SaveAnswered
  <2>1. UNCHANGED poll BY <1>3 DEF Type, TimerFires, saveNow, PutSave, LoseSave, SaveAnswered, requests
  <2> QED BY <1>3, <2>1, SaveTypes DEF PollsOnce
<1>4. CASE \/ StageRead \/ StageDone \/ LoadDisk \/ saveStaleNote \/ PutDialog \/ LoseDialog
           \/ DialogAnswered
  <2>1. UNCHANGED poll
    BY <1>4 DEF StageRead, StageDone, LoadDisk, saveStaleNote, PutDialog, LoseDialog, DialogAnswered
  <2> QED BY <1>4, <2>1, DialogTypes DEF PollsOnce
<1>5. CASE \/ Flush \/ OpenerRead \/ OpenerApply \/ ReloadTree \/ ReloadRead \/ ReloadApply
           \/ \E n \in Notes : loadNote(n)
  <2>1. UNCHANGED poll
    BY <1>5 DEF Flush, OpenerRead, OpenerApply, ReloadTree, ReloadRead, ReloadApply, loadNote
  <2> QED BY <1>5, <2>1, LoadTypes DEF PollsOnce
<1>6. CASE UNCHANGED vars BY <1>6, StutterTypes DEF vars, PollsOnce
<1> QED BY <1>1, <1>2, <1>3, <1>4, <1>5, <1>6 DEF Next, Browser, Network, User

-----------------------------------------------------------------------------
(* The rest of the invariant. *)

USE DEF Rest, Addressed, Counted, Staging, OneReload, Ordered, Settled, Kept, Shown, Unsaved,
        Saving, Reading

LEMMA RecordTypes ==
  ASSUME TypeOK
  PROVE  /\ ed.active \in Some /\ ed.content \in Nat /\ ed.revision \in Nat /\ ed.stale.disk \in Int
         /\ ed.stale.mine \in Nat /\ ed.dirty \in BOOLEAN /\ ed.skip \in BOOLEAN /\ ed.watch \in BOOLEAN
         /\ ed.pending \in BOOLEAN
         /\ save.text \in Nat /\ dialog.text \in Nat /\ save.known \subseteq Nat /\ dialog.known \subseteq Nat
         /\ save.rev \in Int /\ dialog.rev \in Int
         /\ reload.text \in Nat /\ reload.answer \in Nat /\ opener.answer \in Nat /\ stage.answer \in Int
         /\ stage.by \in {"save", "reload", "dialog"} /\ stage.mine \in Nat
         /\ spent.texts \in Nat /\ typed \in Nat /\ odd \in BOOLEAN
         /\ \A n \in Notes : disk[n] \in Nat
BY DEF TypeOK, Editors, Saves, Stages, Openers, Reloads, Spents

LEMMA InitRest == Init => Rest /\ PollsOnce
<1> SUFFICES ASSUME Init PROVE Rest /\ PollsOnce OBVIOUS
<1> USE DEF Init, NoStale, NoSave, NoStage, NoOpener, NoReload, NoPoll, Lost
<1>1. Addressed OBVIOUS
<1>2. Counted BY DEF Init
<1>3. Staging /\ OneReload OBVIOUS
<1>4. Ordered OBVIOUS
<1>5. Settled OBVIOUS
<1>6. Kept OBVIOUS
<1>7. Shown BY DEF Open
<1>8. PollsOnce BY DEF PollsOnce
<1> QED BY <1>1, <1>2, <1>3, <1>4, <1>5, <1>6, <1>7, <1>8

\* Steps of the poller and of the synchronisation.
LEMMA PollRest ==
  ASSUME TypeOK, Rest, PollRead \/ PollAnswered \/ PollEnds \/ PollTimer \/ refresh
  PROVE  Rest'
<1> USE RecordTypes DEF requests, ghosts
<1>1. CASE PollRead
  <2>1. poll'.pc \in {"answered", "ends"} /\ spent'.texts = spent.texts
    BY <1>1, SpentTypes DEF PollRead, TypeOK, Polls
  <2> QED BY <1>1, <2>1 DEF PollRead
<1>2. CASE PollAnswered
  <2>1. poll'.pc = "ends" BY <1>2 DEF PollAnswered, TypeOK, Polls
  <2>2. \/ UNCHANGED reload
        \/ /\ reload'.pc \in {"wait", "tree"} /\ (reload'.pc = "tree" => save.pc = "none")
           /\ reload'.path \in Notes /\ reload'.text = 0 /\ reload'.answer = 0
    <3>1. poll.path # None => poll.path \in Notes BY DEF TypeOK, Polls, Some
    <3> QED BY <1>2, <3>1 DEF PollAnswered, NoReload
  <2>3. reload.pc = "none" BY <1>2 DEF PollAnswered
  <2>4. UNCHANGED <<disk, git, ed, save, stage, dialog, opener, processed, ghosts, spent>>
    BY <1>2 DEF PollAnswered
  <2>5. Addressed' /\ Counted' BY <2>2, <2>4
  <2>6. Staging' BY <2>3, <2>4
  <2>7. OneReload' BY <2>1
  <2>8. Ordered' BY <2>2, <2>4
  <2>9. Settled' /\ Kept' /\ Shown' BY <2>2, <2>4
  <2> QED BY <2>5, <2>6, <2>7, <2>8, <2>9
<1>3. CASE PollEnds BY <1>3 DEF PollEnds
<1>4. CASE PollTimer BY <1>4 DEF PollTimer
<1>5. CASE refresh
  <2>1. spent'.texts = spent.texts BY <1>5, SpentTypes DEF refresh, TypeOK
  <2>2. poll'.pc = "ends" => poll.pc = "ends"
    BY <1>5, ConstantTypes DEF refresh, TypeOK, Polls, NoPoll
  <2>3. poll'.pc # "ends" => reload.pc = "none" BY <1>5 DEF refresh, TypeOK, Polls
  <2> QED BY <1>5, <2>1, <2>3 DEF refresh
<1> QED BY <1>1, <1>2, <1>3, <1>4, <1>5

LEMMA ServerRest ==
  ASSUME TypeOK, Rest, Publish \/ \E n \in Notes : Pull(n)
  PROVE  Rest'
<1> USE RecordTypes DEF requests, ghosts
<1>1. CASE Publish BY <1>1 DEF Publish
<1>2. ASSUME NEW n \in Notes, Pull(n) PROVE Rest'
  <2>1. \/ spent'.texts = Fresh /\ disk' = [disk EXCEPT ![n] = Fresh]
        \/ spent'.texts = spent.texts /\ disk' = [disk EXCEPT ![n] = Missing]
    BY <1>2 DEF Pull, TypeOK, Spents, Fresh
  <2>2. \A m \in Notes : disk'[m] <= spent'.texts
    BY <2>1 DEF TypeOK, Fresh, Missing
  <2>3. spent'.texts \in Nat /\ spent'.texts >= spent.texts BY <2>1 DEF Fresh
  <2> QED BY <1>2, <2>2, <2>3 DEF Pull
<1> QED BY <1>1, <1>2

-----------------------------------------------------------------------------
(* What the editor, a save and a read do to what is kept. *)

(* While nothing of the note changes and it stays unsaved or in recovery,   *)
(* the effect stays awake, and marks it when the recovery is over.          *)
LEMMA Awake ==
  ASSUME ed \in Editors, NEW e \in Editors, React(e),
         Open(ed), ~ed.skip, ed.watch, ed.dirty \/ Recovering(ed),
         e.active = ed.active, e.content = ed.content, e.skip = ed.skip, e.watch = ed.watch,
         ed.dirty => e.dirty
  PROVE  Open(ed') /\ ~ed'.skip /\ ed'.watch /\ (ed'.dirty \/ Recovering(ed'))
<1>1. Open(e) /\ ed.dirty \in BOOLEAN /\ e.dirty \in BOOLEAN /\ e.pending \in BOOLEAN /\ ed.pending \in BOOLEAN
  BY DEF Open, Editors
<1>2. CASE ~Triggered(e)
  <2>1. ed' = e BY <1>2 DEF React
  <2>2. e.stale = ed.stale /\ e.pending = ed.pending BY <1>2 DEF Triggered
  <2> QED BY <1>1, <2>1, <2>2 DEF Recovering
<1>3. CASE Triggered(e) /\ ~Recovering(e)
  <2>1. ed' = [e EXCEPT !.watch = TRUE, !.dirty = TRUE, !.armed = TRUE] BY <1>1, <1>3 DEF React, Effect
  <2> QED BY <1>1, <2>1 DEF Editors, Open
<1>4. CASE Triggered(e) /\ Recovering(e)
  <2>1. ed' = [e EXCEPT !.watch = Open(e)] BY <1>1, <1>4 DEF React, Effect
  <2>2. ed' = [e EXCEPT !.watch = TRUE] BY <1>1, <2>1
  <2> QED BY <1>1, <1>4, <2>2 DEF Editors, Open, Recovering
<1> QED BY <1>2, <1>3, <1>4

\* A step that leaves the text, its note and the mark alone keeps what was typed.
LEMMA KeptOn ==
  ASSUME TypeOK, Kept, NEW e \in Editors, React(e), typed' \in {0, typed}, odd' = odd,
         e.active = ed.active, e.content = ed.content,
         Unsaved => e.skip = ed.skip /\ e.watch = ed.watch /\ (ed.dirty => e.dirty),
         reload'.pc \in {"get", "got"} => reload.pc \in {"get", "got"} /\ reload'.text = reload.text
  PROVE  Kept'
<1> SUFFICES ASSUME Unsaved' PROVE Kept' OBVIOUS
<1>1. Unsaved /\ typed' = typed BY DEF TypeOK
<1>2. Open(ed') /\ ~ed'.skip /\ ed'.watch /\ (ed'.dirty \/ Recovering(ed'))
  BY <1>1, Awake DEF TypeOK
<1>3. ed'.content = e.content BY ReactFacts DEF TypeOK
<1> QED BY <1>1, <1>2, <1>3

LEMMA PutFacts ==
  ASSUME TypeOK, Counted, NEW r \in {save, dialog}, r.pc = "sent", r.note \in Notes,
         Put(r) \/ UNCHANGED <<disk, typed>>
  PROVE  /\ typed' \in {0, typed} /\ \A n \in Notes : disk'[n] <= spent.texts
         /\ disk'[r.note] # disk[r.note] => disk[r.note] = r.rev
<1>1. disk \in [Notes -> Nat] /\ r.text \in Nat /\ r.text <= spent.texts BY RecordTypes DEF TypeOK
<1> QED BY <1>1 DEF Put, Accepts

LEMMA AnsweredFacts ==
  ASSUME TypeOK, NEW r \in {save, dialog}, r.pc = "sent", r.note \in Notes, Put(r)
  PROVE  LET s == Answered(r) IN
         /\ s.pc = "done" /\ s.note = r.note /\ s.text = r.text
         /\ s.answer \notin {Lost, Missing} => s.answer = s.text /\ typed' \in {0} \cup (Nat \ {s.text})
<1>1. r \in Saves /\ r.text \in Nat /\ typed \in Nat BY RecordTypes DEF TypeOK
<1>2. Answered(r).pc = "done" /\ Answered(r).note = r.note /\ Answered(r).text = r.text
  BY <1>1 DEF Answered, Saves
<1>3. Answered(r).answer = IF disk[r.note] = Missing THEN Lost
                           ELSE IF Accepts(disk[r.note], r.rev) THEN r.text ELSE Missing
  BY <1>1 DEF Answered, Saves
<1>4. CASE disk[r.note] # Missing /\ Accepts(disk[r.note], r.rev)
  <2>1. typed' = IF typed = r.text THEN 0 ELSE typed BY <1>4 DEF Put
  <2> QED BY <1>1, <1>2, <1>3, <1>4, <2>1
<1>5. CASE ~(disk[r.note] # Missing /\ Accepts(disk[r.note], r.rev))
  BY <1>2, <1>3, <1>5
<1> QED BY <1>4, <1>5

-----------------------------------------------------------------------------
(* The save. *)

LEMMA SendRest ==
  ASSUME TypeOK, Rest, NEW e \in Editors, React(e), Send(e), e.active = ed.active, e.content = ed.content,
         e.stale = ed.stale, e.pending = ed.pending, e.skip = ed.skip, e.watch = ed.watch,
         e.dirty, e.active \in Notes, odd \/ e.revision \in known,
         save.pc = "done" \/ (save.pc = "none" /\ ed.stale = NoStale),
         UNCHANGED <<disk, stage, dialog, opener, reload, poll, typed, odd>>, spent'.texts = spent.texts
  PROVE  Rest'
<1> USE RecordTypes
<1>1. /\ save'.pc = "sent" /\ save'.note = e.active /\ save'.text = e.content /\ save'.rev = e.revision
      /\ save'.known = known \cup {e.content} /\ known' = save'.known
  BY DEF Send, Sent
<1>2. /\ ed'.active = ed.active /\ ed'.content = ed.content /\ ed'.revision = e.revision
      /\ ed'.stale = ed.stale /\ ed'.pending = ed.pending /\ ed'.dirty
  BY ReactFacts DEF TypeOK
<1>3. Addressed' BY <1>1, <1>2
<1>4. Counted' BY <1>1, <1>2
<1>5. Staging' /\ OneReload' BY <1>2
<1>6. Ordered' BY <1>1, <1>2
<1>7. Settled' BY <1>1
<1>8. Kept' BY KeptOn
<1>9. Shown' BY <1>1, <1>2 DEF Open
<1> QED BY <1>3, <1>4, <1>5, <1>6, <1>7, <1>8, <1>9

\* The save under way ends; e is what becomes of the editor.
LEMMA SaveEndRest ==
  ASSUME TypeOK, Rest, NEW e \in Editors, NEW ok \in BOOLEAN, React(e), SaveEnds(e, ok),
         save.pc \in {"done", "staging"}, stage'.pc # "none" => stage.by # "save",
         e.active = ed.active, e.content = ed.content, e.skip = ed.skip, e.watch = ed.watch,
         UNCHANGED <<disk, dialog, poll, typed, odd, spent>>,
         Unsaved => (ed.dirty => e.dirty),
         e.dirty \/ e.stale # NoStale => e.active \in Notes,
         e.stale.disk <= spent.texts, e.stale.mine <= spent.texts,
         e.pending <=> stage'.pc # "none",
         stage' \in {stage, NoStage}, known \subseteq known',
         dialog.pc \in {"sent", "done", "staging"} => odd \/ e.stale # NoStale,
         e.stale # NoStale /\ reload.pc \in {"get", "got"} => odd \/ e.dirty,
         Open(e) => odd \/ e.revision \in known',
         e.stale # NoStale => odd \/ (Open(e) /\ e.stale.disk \in known')
  PROVE  Rest'
<1> USE RecordTypes
<1>1. /\ save' = NoSave
      /\ opener' \in {opener, NoOpener}
      /\ \/ UNCHANGED reload
         \/ reload.pc = "wait" /\ reload' \in {NoReload, [reload EXCEPT !.pc = "tree"]}
  BY DEF SaveEnds, GoesOn
<1>2. /\ ed'.active = ed.active /\ ed'.content = ed.content /\ ed'.revision = e.revision
      /\ ed'.stale = e.stale /\ ed'.pending = e.pending /\ (e.dirty => ed'.dirty)
      /\ (ed'.dirty => e.dirty \/ Open(e))
  BY ReactFacts DEF TypeOK
<1>3. /\ reload'.pc # "none" => reload'.path = reload.path
      /\ reload'.note = reload.note \/ reload'.pc = "none"
      /\ reload'.text \in {reload.text, 0} /\ reload'.answer \in {reload.answer, 0}
      /\ reload'.pc \in {"get", "got"} => UNCHANGED reload
      /\ reload.pc = "none" => reload'.pc = "none"
      /\ reload.pc = "staging" => reload'.pc = "staging"
  BY <1>1 DEF TypeOK, Reloads, NoReload
<1>4. save'.pc = "none" /\ save'.text = 0 /\ opener'.answer \in {0, opener.answer}
      /\ (opener'.pc # "none" => opener' = opener)
      /\ stage'.answer \in {stage.answer, 0} /\ stage'.mine \in {stage.mine, 0}
  BY <1>1 DEF NoSave, NoOpener, NoStage
<1>5. Addressed'
  <2>1. ed'.dirty \/ ed'.stale # NoStale => ed'.active \in Notes
    BY <1>2 DEF Open, TypeOK, Editors, Some
  <2> QED BY <1>1, <1>3, <1>4, <2>1 DEF NoStage
<1>6. Counted' BY <1>2, <1>3, <1>4
<1>7. Staging' BY <1>2, <1>3, <1>4 DEF NoStage
<1>8. OneReload' BY <1>3
<1>9. Ordered' BY <1>2, <1>3, <1>4
<1>10. Settled' BY <1>4
<1>11. Kept' BY <1>3, KeptOn
<1>12. Shown' BY <1>2, <1>4 DEF Open
<1> QED BY <1>5, <1>6, <1>7, <1>8, <1>9, <1>10, <1>11, <1>12

LEMMA TypeRest == ASSUME TypeOK, Rest, Type PROVE Rest'
<1> USE RecordTypes DEF requests
<1>1. spent'.texts = Fresh /\ Fresh \in Nat /\ Fresh > spent.texts BY SpentTypes DEF Type, TypeOK
<1> DEFINE e == [ed EXCEPT !.content = Fresh]
<1>2. /\ e \in Editors /\ e.content = Fresh /\ e.active = ed.active /\ e.revision = ed.revision
      /\ e.stale = ed.stale /\ e.pending = ed.pending /\ e.skip = ed.skip /\ e.dirty = ed.dirty
  BY <1>1 DEF TypeOK, Editors
<1>3. React(e) /\ Open(ed) /\ UNCHANGED <<disk, git, requests, poll, processed, known, odd>>
      /\ typed' = IF ed.skip /\ typed = 0 THEN 0 ELSE Fresh
  BY DEF Type
<1>4. Triggered(e) BY <1>1, <1>2 DEF Triggered
<1>5. ed' = Effect(e) BY <1>3, <1>4 DEF React
<1> HIDE DEF e
<1>6. /\ ed' \in Editors /\ ed'.active = ed.active /\ ed'.content = Fresh /\ ed'.revision = ed.revision
      /\ ed'.stale = ed.stale /\ ed'.pending = ed.pending /\ (ed.dirty => ed'.dirty)
      /\ (ed'.dirty => ed.dirty \/ Open(ed))
  BY <1>2, <1>3, ReactFacts DEF TypeOK, Open
<1>7. Addressed' BY <1>3, <1>6 DEF Open, Some
<1>8. Counted'
  <2>1. spent'.texts \in Nat /\ spent'.texts > spent.texts /\ typed' <= spent'.texts BY <1>1, <1>3
  <2> QED BY <1>1, <1>3, <1>6, <2>1
<1>9. Staging' /\ OneReload' BY <1>3, <1>6
<1>10. Ordered' BY <1>3, <1>6
<1>11. Settled' BY <1>1, <1>3
<1>12. Kept'
  <2> SUFFICES ASSUME Unsaved' PROVE Kept' OBVIOUS
  <2>1. typed' = Fresh /\ ~odd /\ ~(ed.skip /\ typed = 0) BY <1>3
  <2>2. ~e.skip BY <1>2, <2>1
  <2>3. Open(e) /\ Recovering(e) = Recovering(ed) BY <1>2, <1>3 DEF Open, Recovering
  <2>4. CASE Recovering(e)
    <3>1. ed' = [e EXCEPT !.watch = Open(e)] BY <1>5, <2>2, <2>4 DEF Effect
    <3>2. ed' = [e EXCEPT !.watch = TRUE] BY <2>3, <3>1
    <3>3. ~ed'.skip /\ ed'.watch BY <1>2, <2>2, <3>2 DEF Editors
    <3> QED BY <1>1, <1>2, <1>3, <1>6, <2>1, <2>4, <3>3 DEF Open, Recovering
  <2>5. CASE ~Recovering(e)
    <3>1. ed' = [e EXCEPT !.watch = TRUE, !.dirty = TRUE, !.armed = TRUE] BY <1>5, <2>2, <2>3, <2>5 DEF Effect
    <3>2. ~ed'.skip /\ ed'.watch /\ ed'.dirty BY <1>2, <2>2, <3>1 DEF Editors
    <3> QED BY <1>1, <1>2, <1>3, <1>6, <2>1, <3>2 DEF Open
  <2> QED BY <2>4, <2>5
<1>13. Shown' BY <1>3, <1>6 DEF Open
<1> QED BY <1>7, <1>8, <1>9, <1>10, <1>11, <1>12, <1>13

\* A reaction of the editor alone.
LEMMA EditorRest ==
  ASSUME TypeOK, Rest, NEW e \in Editors, React(e), e.active = ed.active, e.content = ed.content,
         e.stale = ed.stale, e.pending = ed.pending, e.skip = ed.skip, e.watch = ed.watch,
         e.revision = ed.revision, e.dirty = ed.dirty, opener' \in {opener, NoOpener},
         UNCHANGED <<disk, save, stage, dialog, reload, poll, known, typed, odd>>,
         spent'.texts = spent.texts
  PROVE  Rest'
<1> USE RecordTypes
<1>1. /\ ed'.active = ed.active /\ ed'.content = ed.content /\ ed'.revision = ed.revision
      /\ ed'.stale = ed.stale /\ ed'.pending = ed.pending /\ (ed.dirty => ed'.dirty)
      /\ (ed'.dirty => ed.dirty \/ Open(ed))
  BY ReactFacts DEF TypeOK, Open
<1>2. Addressed' BY <1>1 DEF Open, Some, NoOpener
<1>3. Counted' BY <1>1 DEF NoOpener
<1>4. Staging' /\ OneReload' /\ Ordered' BY <1>1
<1>5. Settled' OBVIOUS
<1>6. Kept' BY KeptOn
<1>7. Shown' BY <1>1 DEF Open
<1> QED BY <1>2, <1>3, <1>4, <1>5, <1>6, <1>7

LEMMA TimerRest == ASSUME TypeOK, Rest, TimerFires \/ saveNow PROVE Rest'
<1> USE RecordTypes DEF requests
<1>1. CASE TimerFires
  <2>1. CASE ed.dirty /\ ~Recovering(ed)
    <3>1. React(Sending(ed)) /\ Send(ed) BY <1>1, <2>1 DEF TimerFires
    <3> DEFINE e == Sending(ed)
    <3>2. /\ e \in Editors /\ e.active = ed.active /\ e.content = ed.content /\ e.stale = ed.stale
          /\ e.pending = ed.pending /\ e.skip = ed.skip /\ e.watch = ed.watch /\ e.dirty
          /\ e.revision = ed.revision
      BY <2>1, EditorFacts DEF Sending, TypeOK, Editors
    <3>3. React(e) /\ Send(e) BY <3>1, <3>2 DEF Send, Sent
    <3> HIDE DEF e
    <3>4. save.pc = "none" /\ ed.stale = NoStale BY <1>1, <2>1 DEF TimerFires, Recovering
    <3>5. odd \/ e.revision \in known BY <2>1, <3>2, BoundsAssumption DEF Open
    <3> QED BY <1>1, <2>1, <3>2, <3>3, <3>4, <3>5, SendRest DEF TimerFires
  <2>2. CASE ~(ed.dirty /\ ~Recovering(ed))
    <3> DEFINE e == [ed EXCEPT !.armed = FALSE]
    <3>1. React(e) /\ UNCHANGED <<save, known>> BY <1>1, <2>2 DEF TimerFires
    <3>2. /\ e \in Editors /\ e.active = ed.active /\ e.content = ed.content /\ e.stale = ed.stale
          /\ e.pending = ed.pending /\ e.skip = ed.skip /\ e.watch = ed.watch /\ e.dirty = ed.dirty
          /\ e.revision = ed.revision
      BY DEF TypeOK, Editors
    <3> HIDE DEF e
    <3> QED BY <1>1, <3>1, <3>2, EditorRest DEF TimerFires
  <2> QED BY <2>1, <2>2
<1>2. CASE saveNow
  <2> DEFINE e == [Sending(ed) EXCEPT !.dirty = TRUE]
  <2>1. /\ e \in Editors /\ e.active = ed.active /\ e.content = ed.content /\ e.stale = ed.stale
        /\ e.pending = ed.pending /\ e.skip = ed.skip /\ e.watch = ed.watch /\ e.dirty
        /\ e.revision = ed.revision
    BY DEF Sending, TypeOK, Editors
  <2>2. React(e) /\ Send(ed) BY <1>2 DEF saveNow
  <2>3. Send(e) BY <2>1, <2>2 DEF Send, Sent
  <2> HIDE DEF e
  <2>4. save.pc = "none" /\ ed.stale = NoStale /\ e.active \in Notes
    BY <1>2, <2>1 DEF saveNow, Recovering, Open, Some
  <2>5. odd \/ e.revision \in known BY <1>2, <2>1 DEF saveNow
  <2>6. spent'.texts = spent.texts BY <1>2, SpentTypes DEF saveNow, TypeOK
  <2> QED BY <1>2, <2>1, <2>2, <2>3, <2>4, <2>5, <2>6, SendRest DEF saveNow
<1> QED BY <1>1, <1>2

LEMMA PutSaveRest == ASSUME TypeOK, Rest, PutSave \/ LoseSave PROVE Rest'
<1> USE RecordTypes
<1>1. /\ save.pc = "sent" /\ save.note \in Notes /\ (Put(save) \/ UNCHANGED <<disk, typed>>)
      /\ UNCHANGED <<ed, stage, dialog, opener, reload, poll, known, odd>>
      /\ spent'.texts = spent.texts
  BY SpentTypes DEF PutSave, LoseSave, Put, TypeOK
<1>2. typed' \in {0, typed} /\ \A n \in Notes : disk'[n] <= spent.texts BY <1>1, PutFacts
<1>3. /\ save'.pc = "done" /\ save'.note = save.note /\ save'.text = save.text
      /\ save'.answer \notin {Lost, Missing} =>
           save'.answer = save'.text /\ typed' \in {0} \cup (Nat \ {save'.text})
  <2>1. CASE PutSave BY <1>1, <2>1, AnsweredFacts DEF PutSave
  <2>2. CASE LoseSave
    <3>1. save' = [save EXCEPT !.pc = "done", !.answer = Lost] BY <2>2 DEF LoseSave
    <3> QED BY <3>1 DEF TypeOK, Saves
  <2> QED BY <2>1, <2>2
<1>4. Addressed' /\ Counted' BY <1>1, <1>2, <1>3
<1>5. Staging' /\ OneReload' /\ Ordered' BY <1>1, <1>3
<1>6. Settled' BY <1>1, <1>2, <1>3
<1>7. Kept' BY <1>1, <1>2
<1>8. Shown' BY <1>1, <1>3
<1> QED BY <1>4, <1>5, <1>6, <1>7, <1>8

\* A request for the text on disk.
LEMMA StageRest ==
  ASSUME TypeOK, Rest, NEW by \in {"save", "reload", "dialog"}, NEW n \in Notes,
         NEW mine \in Nat, mine <= spent.texts, Stage(ed, by, n, mine),
         UNCHANGED <<disk, opener, poll, known, typed, odd, spent>>, ~ed.pending,
         \/ /\ by = "save" /\ save.pc = "done" /\ save' = [save EXCEPT !.pc = "staging"]
            /\ UNCHANGED <<dialog, reload>>
         \/ /\ by = "dialog" /\ dialog.pc = "done" /\ dialog' = [dialog EXCEPT !.pc = "staging"]
            /\ UNCHANGED <<save, reload>>
         \/ /\ by = "reload" /\ reload.pc = "tree" /\ reload' = [reload EXCEPT !.pc = "staging"]
            /\ UNCHANGED <<save, dialog>>
  PROVE  Rest'
<1> USE RecordTypes
<1> DEFINE e == [ed EXCEPT !.pending = TRUE, !.armed = FALSE]
<1>1. /\ e \in Editors /\ e.active = ed.active /\ e.content = ed.content /\ e.stale = ed.stale
      /\ e.pending /\ e.skip = ed.skip /\ e.watch = ed.watch /\ e.dirty = ed.dirty
      /\ e.revision = ed.revision
  BY DEF TypeOK, Editors
<1>2. React(e) BY DEF Stage
<1> HIDE DEF e
<1>3. /\ ed'.active = ed.active /\ ed'.content = ed.content /\ ed'.revision = ed.revision
      /\ ed'.stale = ed.stale /\ ed'.pending /\ (ed.dirty => ed'.dirty) /\ (ed'.dirty => ed.dirty)
  BY <1>1, <1>2, ReactFacts DEF TypeOK, Recovering
<1>4. stage'.pc = "sent" /\ stage'.by = by /\ stage'.note = n /\ stage'.answer = 0 /\ stage'.mine = mine
  BY DEF Stage, NoStage
<1>5. /\ save'.note = save.note /\ save'.text = save.text /\ save'.pc \in {save.pc, "staging"}
      /\ save'.pc # "staging" => UNCHANGED save
      /\ save.pc = "none" => save'.pc = "none"
      /\ save'.pc = "staging" => save.pc \in {"done", "staging"}
      /\ save.pc = "staging" => save'.pc = "staging"
      /\ by = "save" => save'.pc = "staging"
  BY DEF TypeOK, Saves
<1>6. /\ dialog'.note = dialog.note /\ dialog'.text = dialog.text
      /\ dialog'.pc # "staging" => UNCHANGED dialog
      /\ dialog'.pc = "staging" => dialog.pc \in {"done", "staging"}
      /\ dialog.pc = "staging" => dialog'.pc = "staging"
      /\ by = "dialog" => dialog'.pc = "staging"
  BY DEF TypeOK, Saves
<1>7. /\ reload'.note = reload.note /\ reload'.text = reload.text /\ reload'.path = reload.path
      /\ reload'.answer = reload.answer
      /\ reload'.pc # "staging" => UNCHANGED reload
      /\ reload.pc = "none" => reload'.pc = "none"
      /\ reload'.pc = "staging" => reload.pc \in {"tree", "staging"}
      /\ by = "reload" => reload'.pc = "staging"
  BY DEF TypeOK, Reloads
<1>8. Addressed' /\ Counted' BY <1>3, <1>4, <1>5, <1>6, <1>7
<1>9. Staging' /\ OneReload' BY <1>3, <1>4, <1>5, <1>6, <1>7
<1>10. Ordered' BY <1>3, <1>5, <1>6, <1>7
<1>11. Settled' BY <1>5, <1>6
<1>12. Kept' BY <1>1, <1>2, <1>7, KeptOn
<1>13. Shown' BY <1>3, <1>5, <1>6 DEF Open
<1> QED BY <1>8, <1>9, <1>10, <1>11, <1>12, <1>13

LEMMA SaveAnsweredRest == ASSUME TypeOK, Rest, SaveAnswered PROVE Rest'
<1> USE RecordTypes DEF requests
<1>1. save.pc = "done" /\ UNCHANGED <<disk, git, dialog, poll, processed, typed, odd, spent>>
  BY SaveAnsweredCases DEF TypeOK
<1>2. stage.pc # "none" => stage.by # "save" BY <1>1
<1>3. CASE save.answer = Lost /\ React(Failed(ed)) /\ SaveEnds(ed, FALSE) /\ UNCHANGED <<stage, known>>
  <2> DEFINE e == Failed(ed)
  <2>1. /\ e \in Editors /\ e.active = ed.active /\ e.content = ed.content /\ e.stale = ed.stale
        /\ e.pending = ed.pending /\ e.skip = ed.skip /\ e.watch = ed.watch /\ e.dirty = ed.dirty
        /\ e.revision = ed.revision
    BY DEF Failed, TypeOK, Editors
  <2>2. React(e) /\ SaveEnds(e, FALSE) BY <1>3 DEF SaveEnds, GoesOn
  <2> HIDE DEF e
  <2> QED BY <1>1, <1>2, <1>3, <2>1, <2>2, SaveEndRest DEF Open
<1>4. CASE save.answer = Missing /\ ed.pending /\ SaveEnds(ed, TRUE) /\ UNCHANGED <<ed, stage, known>>
  <2>1. ed \in Editors /\ React(ed)
    BY <1>4 DEF TypeOK, React, Triggered
  <2> QED BY <1>1, <1>2, <1>4, <2>1, SaveEndRest DEF Open
<1>5. CASE /\ save.answer = Missing /\ ~ed.pending /\ Stage(ed, "save", save.note, 0)
           /\ save' = [save EXCEPT !.pc = "staging"] /\ UNCHANGED <<opener, reload, known>>
  BY <1>1, <1>5, StageRest
<1>6. ASSUME save.answer \notin {Lost, Missing}
      PROVE  /\ Answer \in Editors /\ Answer.active = ed.active /\ Answer.content = ed.content
             /\ Answer.stale = ed.stale /\ Answer.pending = ed.pending /\ Answer.skip = ed.skip
             /\ Answer.watch = ed.watch /\ Answer.dirty = ed.dirty
             /\ Open(Answer) => odd \/ Answer.revision \in known
  <2>1. save.answer \in Nat BY <1>1, <1>6 DEF TypeOK, Answers
  <2>2. CASE ed.active = save.note
    <3>1. Answer = [ed EXCEPT !.revision = save.answer] BY <2>2 DEF Answer
    <3> QED BY <1>1, <1>6, <2>1, <2>2, <3>1 DEF TypeOK, Editors
  <2>3. CASE ed.active # save.note
    <3>1. Answer = ed BY <2>3 DEF Answer
    <3> QED BY <3>1 DEF TypeOK, Open
  <2> QED BY <2>2, <2>3
<1>7. CASE /\ save.answer \notin {Lost, Missing} /\ Again /\ React(Sending(Answer)) /\ Send(Answer)
           /\ UNCHANGED <<stage, opener, reload>>
  <2> DEFINE e == Sending(Answer)
  <2>1. /\ e \in Editors /\ e.active = ed.active /\ e.content = ed.content /\ e.stale = ed.stale
        /\ e.pending = ed.pending /\ e.skip = ed.skip /\ e.watch = ed.watch /\ e.dirty
        /\ e.revision = Answer.revision
    BY <1>6, <1>7 DEF Sending, Editors, Again
  <2>2. React(e) /\ Send(e) BY <1>6, <1>7, <2>1 DEF Send, Sent
  <2> HIDE DEF e
  <2>3. e.active \in Notes BY <1>1, <1>7, <2>1 DEF Again
  <2>4. odd \/ e.revision \in known BY <1>6, <1>7, <2>1, <2>3, BoundsAssumption DEF Open
  <2> QED BY <1>1, <1>7, <2>1, <2>2, <2>3, <2>4, SendRest
<1>8. CASE /\ save.answer \notin {Lost, Missing} /\ ~Again /\ React(Done) /\ SaveEnds(Done, TRUE)
           /\ UNCHANGED <<stage, known>>
  <2>1. /\ Done \in Editors /\ Done.active = ed.active /\ Done.content = ed.content
        /\ Done.stale = ed.stale /\ Done.pending = ed.pending /\ Done.skip = ed.skip
        /\ Done.watch = ed.watch /\ Done.revision = Answer.revision
        /\ Done.dirty => ed.dirty
        /\ Done.dirty # ed.dirty => ed.content = save.text
    BY <1>6, <1>8 DEF Done, savedAll, Editors
  <2>2. Open(Done) = Open(Answer) BY <1>6, <1>8, <2>1 DEF Open
  <2>3. Unsaved => (ed.dirty => Done.dirty) BY <1>1, <1>8, <2>1
  <2> DEFINE e == Done
  <2>4. React(e) /\ SaveEnds(e, TRUE) /\ e \in Editors BY <1>8, <2>1
  <2>5. e.dirty \/ e.stale # NoStale => e.active \in Notes BY <2>1
  <2>6. e.stale.disk <= spent.texts /\ e.stale.mine <= spent.texts /\ (e.pending <=> stage'.pc # "none") BY <1>8, <2>1
  <2>7. /\ dialog.pc \in {"sent", "done", "staging"} => odd \/ e.stale # NoStale
        /\ e.stale # NoStale /\ reload.pc \in {"get", "got"} => odd \/ e.dirty
    BY <1>1, <2>1
  <2>8. /\ Open(e) => odd \/ e.revision \in known'
        /\ e.stale # NoStale => odd \/ (Open(e) /\ e.stale.disk \in known')
    BY <1>6, <1>8, <2>1, <2>2 DEF Open
  <2>9. /\ e.active = ed.active /\ e.content = ed.content /\ e.skip = ed.skip /\ e.watch = ed.watch
        /\ Unsaved => (ed.dirty => e.dirty)
    BY <2>1, <2>3
  <2> HIDE DEF e
  <2> QED BY <1>1, <1>2, <1>8, <2>4, <2>5, <2>6, <2>7, <2>8, <2>9, SaveEndRest
<1> QED BY <1>3, <1>4, <1>5, <1>7, <1>8, SaveAnsweredCases DEF TypeOK

-----------------------------------------------------------------------------
(* The dialog. *)

\* The editor becomes e when the read or the dialog ends.
LEMMA EditRest ==
  ASSUME TypeOK, Rest, NEW e \in Editors, React(e), reload' \in {reload, NoReload},
         dialog' \in {dialog, NoSave, [dialog EXCEPT !.pc = "stuck"]},
         dialog.pc = "none" => dialog'.pc = "none", stage' \in {stage, NoStage},
         UNCHANGED <<disk, save, opener, poll, typed, odd>>, spent'.texts = spent.texts,
         stage'.pc # "none" => /\ stage.by = "reload" => reload' = reload
                               /\ stage.by = "dialog" => dialog' = dialog,
         e.active = ed.active, e.content = ed.content,
         Unsaved => e.skip = ed.skip /\ e.watch = ed.watch /\ (ed.dirty => e.dirty),
         e.dirty \/ e.stale # NoStale => e.active \in Notes,
         e.stale.disk <= spent.texts, e.stale.mine <= spent.texts,
         e.pending <=> stage'.pc # "none",
         known \subseteq known',
         dialog'.pc \in {"sent", "done", "staging"} => odd \/ e.stale # NoStale,
         (e.stale # NoStale \/ ~e.dirty) /\ Saving /\ Reading' => odd,
         e.stale # NoStale /\ reload'.pc \in {"get", "got"} => odd \/ e.dirty,
         Open(e) => odd \/ e.revision \in known',
         e.stale # NoStale => odd \/ (Open(e) /\ e.stale.disk \in known')
  PROVE  Rest'
<1> USE RecordTypes
<1>1. /\ ed'.active = ed.active /\ ed'.content = ed.content /\ ed'.revision = e.revision
      /\ ed'.stale = e.stale /\ ed'.pending = e.pending /\ (e.dirty => ed'.dirty)
      /\ (ed'.dirty => e.dirty \/ Open(e))
  BY ReactFacts DEF TypeOK
<1>2. /\ reload'.pc # "none" => UNCHANGED reload
      /\ reload'.text \in {reload.text, 0} /\ reload'.answer \in {reload.answer, 0}
      /\ reload.pc = "none" => reload'.pc = "none"
  BY DEF TypeOK, NoReload
<1>3. /\ dialog'.pc \in {"sent", "done", "staging"} => UNCHANGED dialog
      /\ dialog'.pc # "none" => dialog'.note = dialog.note /\ dialog.pc # "none"
      /\ dialog'.text \in {dialog.text, 0}
  BY DEF TypeOK, Saves, NoSave
<1>4. stage'.pc # "none" => UNCHANGED stage BY DEF NoStage
<1>5. Addressed'
  <2>1. ed'.dirty \/ ed'.stale # NoStale => ed'.active \in Notes
    BY <1>1 DEF Open, TypeOK, Editors, Some
  <2> QED BY <1>2, <1>3, <1>4, <2>1
<1>6. Counted' BY <1>1, <1>2, <1>3 DEF NoStage
<1>7. Staging' BY <1>1, <1>2, <1>3, <1>4
<1>8. OneReload' BY <1>2
<1>9. Ordered' BY <1>1, <1>2, <1>3
<1>10. Settled' BY <1>3
<1>11. Kept' BY <1>2, KeptOn
<1>12. Shown' BY <1>1, <1>3 DEF Open
<1> QED BY <1>5, <1>6, <1>7, <1>8, <1>9, <1>10, <1>11, <1>12

LEMMA StageDoneRest == ASSUME TypeOK, Rest, StageDone PROVE Rest'
<1> USE RecordTypes DEF requests
<1>1. /\ stage.pc = "done" /\ stage' = NoStage /\ UNCHANGED <<disk, git, poll, typed, odd, spent>>
      /\ React(StageResult) /\ known' = IF StageMine THEN known \cup {stage.answer} ELSE known
  BY StageDoneCases DEF TypeOK
<1> DEFINE e == StageResult
<1>2. /\ e \in Editors /\ e.active = ed.active /\ e.content = ed.content
      /\ e.revision = ed.revision /\ e.skip = ed.skip /\ e.watch = ed.watch
      /\ ~e.pending /\ (ed.dirty => e.dirty)
  BY StageResultTypes DEF TypeOK
<1>3. /\ StageMine => e.dirty /\ e.stale.disk = stage.answer /\ stage.answer \in Nat /\ ed.active \in Notes
      /\ StageMine => e.stale.mine \in {ed.content, stage.mine}
      /\ ~StageMine => e.stale = ed.stale
      /\ ~StageMine => e.dirty = ed.dirty
  <2>1. stage.note \in Notes BY <1>1
  <2>2. StageMine => stage.answer \in Nat /\ ed.active \in Notes BY <1>1, <2>1 DEF StageMine, TypeOK, Answers
  <2>3. ~StageMine => e.dirty = ed.dirty
    BY DEF StageResult, Failed, Cleared, TypeOK, Editors
  <2>4. StageMine => e.stale.mine \in {ed.content, stage.mine} BY StageResultTypes DEF TypeOK
  <2> QED BY <2>2, <2>3, <2>4, StageResultTypes DEF TypeOK
<1>4. e.dirty \/ e.stale # NoStale => e.active \in Notes BY <1>2, <1>3
<1>5. e.stale.disk <= spent.texts /\ e.stale.mine <= spent.texts BY <1>2, <1>3
<1>6. known \subseteq known' /\ stage'.pc = "none" BY <1>1 DEF NoStage
<1>7. StageMine => e.stale # NoStale BY <1>3 DEF NoStale, Lost
<1>8. dialog.pc \in {"sent", "done", "staging"} => odd \/ e.stale # NoStale BY <1>3, <1>7
<1>9. Open(e) => odd \/ e.revision \in known' BY <1>2, <1>6 DEF Open
<1>10. e.stale # NoStale => odd \/ (Open(e) /\ e.stale.disk \in known')
  BY <1>1, <1>2, <1>3, BoundsAssumption DEF Open
<1>11. React(e) BY <1>1
<1> HIDE DEF e
<1>12. CASE stage.by = "save" /\ SaveEnds(StageResult, stage.answer # Lost) /\ UNCHANGED <<dialog, processed>>
  <2>1. SaveEnds(e, stage.answer # Lost) /\ save.pc = "staging" BY <1>1, <1>12 DEF e
  <2>2. e.stale # NoStale /\ reload.pc \in {"get", "got"} => odd \/ e.dirty BY <1>3
  <2>3. (stage.answer # Lost) \in BOOLEAN OBVIOUS
  <2> QED BY <1>1, <1>2, <1>4, <1>5, <1>6, <1>8, <1>9, <1>10, <1>11, <1>12, <2>1, <2>2, <2>3, SaveEndRest
<1>13. CASE /\ stage.by = "reload" /\ reload' = NoReload /\ UNCHANGED <<save, dialog, opener>>
            /\ processed' = IF stage.answer # Lost THEN processed \cup {reload.op} ELSE processed
  <2>1. reload'.pc = "none" BY <1>13 DEF NoReload
  <2> QED BY <1>1, <1>2, <1>4, <1>5, <1>6, <1>8, <1>9, <1>10, <1>11, <1>13, <2>1, EditRest
<1>14. CASE /\ stage.by = "dialog" /\ UNCHANGED <<save, opener, reload, processed>>
            /\ dialog' = IF stage.answer # Lost THEN NoSave ELSE [dialog EXCEPT !.pc = "stuck"]
  <2>1. dialog.pc = "staging" BY <1>1, <1>14
  <2>2. dialog'.pc \in {"none", "stuck"} BY <1>14 DEF TypeOK, Saves, NoSave
  <2>3. ~odd => ed.stale # NoStale BY <2>1
  <2>4. (e.stale # NoStale \/ ~e.dirty) /\ Saving /\ Reading' => odd BY <1>2, <1>14, <2>3
  <2>5. e.stale # NoStale /\ reload'.pc \in {"get", "got"} => odd \/ e.dirty BY <1>3, <1>14
  <2> QED BY <1>1, <1>2, <1>4, <1>5, <1>6, <1>8, <1>9, <1>10, <1>11, <1>14, <2>1, <2>2, <2>4, <2>5, EditRest
<1> QED BY <1>12, <1>13, <1>14, StageDoneCases DEF TypeOK

LEMMA DialogAnsweredRest == ASSUME TypeOK, Rest, DialogAnswered PROVE Rest'
<1> USE RecordTypes DEF requests
<1>1. /\ dialog.pc = "done" /\ UNCHANGED <<disk, git, save, opener, reload, poll, processed, ghosts, spent>>
      /\ dialog.note \in Notes
  BY DialogAnsweredCases DEF TypeOK
<1>2. UNCHANGED <<known, typed, odd>> BY <1>1 DEF ghosts
<1>3. stage.pc # "none" => stage.by # "dialog" BY <1>1
<1>4. CASE dialog.answer = Lost /\ React(Failed(ed)) /\ dialog' = NoSave /\ UNCHANGED stage
  <2> DEFINE e == Failed(ed)
  <2>1. /\ e \in Editors /\ e.active = ed.active /\ e.content = ed.content /\ e.stale = ed.stale
        /\ e.pending = ed.pending /\ e.skip = ed.skip /\ e.watch = ed.watch /\ e.dirty = ed.dirty
        /\ e.revision = ed.revision
    BY DEF Failed, TypeOK, Editors
  <2>2. React(e) /\ dialog'.pc = "none" BY <1>4 DEF NoSave
  <2> HIDE DEF e
  <2> QED BY <1>1, <1>2, <1>3, <1>4, <2>1, <2>2, EditRest DEF Open
<1>5. CASE dialog.answer = Missing /\ ed.pending /\ dialog' = NoSave /\ UNCHANGED <<ed, stage>>
  <2>1. ed \in Editors /\ React(ed) /\ dialog'.pc = "none" BY <1>5 DEF TypeOK, React, Triggered, NoSave
  <2> QED BY <1>1, <1>2, <1>3, <1>5, <2>1, EditRest DEF Open
<1>6. CASE /\ dialog.answer = Missing /\ ~ed.pending
           /\ Stage(ed, "dialog", dialog.note, dialog.text) /\ dialog' = [dialog EXCEPT !.pc = "staging"]
  BY <1>1, <1>2, <1>6, StageRest
<1>7. CASE /\ dialog.answer \notin {Lost, Missing} /\ dialog' = NoSave /\ UNCHANGED stage
           /\ React(DialogResult)
  <2>1. dialog.answer \in Nat /\ dialog.answer = dialog.text BY <1>1, <1>7 DEF TypeOK, Answers
  <2> DEFINE e == DialogResult
  <2>2. /\ e \in Editors /\ e.active = ed.active /\ e.content = ed.content /\ e.pending = ed.pending
        /\ e.watch = ed.watch /\ e.stale.disk \in {ed.stale.disk, dialog.answer, Lost}
        /\ e.stale.mine \in {ed.stale.mine, ed.content, 0}
    BY <2>1, DialogResultTypes DEF TypeOK
  <2>3. React(e) /\ dialog'.pc = "none" BY <1>7 DEF NoSave
  <2>4. \/ e = ed /\ (odd \/ ed.active # dialog.note)
        \/ /\ ed.active = dialog.note /\ e.dirty /\ e.skip = ed.skip /\ e.stale.disk = dialog.answer
           /\ e.revision = dialog.answer
        \/ /\ ed.active = dialog.note /\ ed.content = dialog.text /\ e.stale = NoStale
           /\ e.revision = dialog.answer /\ ~e.dirty
    BY <2>1 DEF DialogResult, TypeOK, Editors
  <2> HIDE DEF e
  <2>5. ~odd => ed.active = dialog.note /\ dialog.answer \in known BY <1>1, <2>1
  <2>6. ~odd => ed.stale # NoStale BY <1>1
  <2>7. Unsaved => e.skip = ed.skip /\ e.watch = ed.watch /\ (ed.dirty => e.dirty)
    BY <1>1, <1>7, <2>1, <2>2, <2>4, <2>5
  <2>8. e.dirty \/ e.stale # NoStale => e.active \in Notes BY <1>1, <2>2, <2>4
  <2>9. e.stale.disk <= spent.texts /\ e.stale.mine <= spent.texts BY <2>1, <2>2 DEF Lost
  <2>10. (e.stale # NoStale \/ ~e.dirty) /\ Saving /\ Reading' => odd BY <1>1, <2>6
  <2>11. e.stale # NoStale /\ reload'.pc \in {"get", "got"} => odd \/ e.dirty BY <1>1, <2>4, <2>5
  <2>12. /\ Open(e) => odd \/ e.revision \in known'
         /\ e.stale # NoStale => odd \/ (Open(e) /\ e.stale.disk \in known')
    BY <1>1, <1>2, <2>2, <2>4, <2>5, BoundsAssumption DEF Open
  <2> QED BY <1>1, <1>2, <1>3, <1>7, <2>2, <2>3, <2>7, <2>8, <2>9, <2>10, <2>11, <2>12, EditRest
<1> QED BY <1>4, <1>5, <1>6, <1>7, DialogAnsweredCases DEF TypeOK

LEMMA StageReadRest == ASSUME TypeOK, Rest, StageRead PROVE Rest'
<1> USE RecordTypes
<1>1. stage.pc = "sent" /\ stage.note \in Notes /\ UNCHANGED <<disk, git, ed, save, dialog, opener, reload, poll, processed, ghosts>>
  BY DEF StageRead
<1>2. spent'.texts = spent.texts BY SpentTypes DEF StageRead, TypeOK
<1>3. /\ stage'.pc = "done" /\ stage'.by = stage.by /\ stage'.note = stage.note /\ stage'.mine = stage.mine
      /\ stage'.answer \in {disk[stage.note], Lost}
  BY DEF StageRead, TypeOK, Stages
<1> QED BY <1>1, <1>2, <1>3 DEF ghosts, Lost

LEMMA PutDialogRest == ASSUME TypeOK, Rest, PutDialog \/ LoseDialog PROVE Rest'
<1> USE RecordTypes
<1>1. /\ dialog.pc = "sent" /\ dialog.note \in Notes /\ (Put(dialog) \/ UNCHANGED <<disk, typed>>)
      /\ UNCHANGED <<ed, save, stage, opener, reload, poll, known, odd>>
      /\ spent'.texts = spent.texts
  BY SpentTypes DEF PutDialog, LoseDialog, Put, TypeOK
<1>2. typed' \in {0, typed} /\ \A n \in Notes : disk'[n] <= spent.texts BY <1>1, PutFacts
<1>3. /\ dialog'.pc = "done" /\ dialog'.note = dialog.note /\ dialog'.text = dialog.text
      /\ dialog'.answer \notin {Lost, Missing} =>
           dialog'.answer = dialog'.text /\ typed' \in {0} \cup (Nat \ {dialog'.text})
  <2>1. CASE PutDialog BY <1>1, <2>1, AnsweredFacts DEF PutDialog
  <2>2. CASE LoseDialog
    <3>1. dialog' = [dialog EXCEPT !.pc = "done", !.answer = Lost] BY <2>2 DEF LoseDialog
    <3> QED BY <3>1 DEF TypeOK, Saves
  <2> QED BY <2>1, <2>2
<1>4. Addressed' /\ Counted' BY <1>1, <1>2, <1>3
<1>5. Staging' /\ OneReload' /\ Ordered' BY <1>1, <1>3
<1>6. Settled' BY <1>1, <1>2, <1>3
<1>7. Kept' BY <1>1, <1>2
<1>8. Shown' BY <1>1, <1>3
<1> QED BY <1>4, <1>5, <1>6, <1>7, <1>8

LEMMA SaveStaleRest == ASSUME TypeOK, Rest, saveStaleNote PROVE Rest'
<1> USE RecordTypes
<1>1. /\ ed.stale # NoStale /\ dialog.pc = "none" /\ ed.active \in Notes
      /\ UNCHANGED <<disk, git, ed, save, stage, opener, reload, poll, processed, typed, odd>>
  BY DEF saveStaleNote, DialogOpen
<1>2. spent'.texts \in Nat /\ spent'.texts >= spent.texts
  BY SpentTypes DEF saveStaleNote, TypeOK
<1>3. PICK t \in Nat : /\ dialog' = [Sent(ed) EXCEPT !.text = t, !.rev = ed.stale.disk]
                       /\ t <= spent'.texts
  <2>1. CASE dialog' = [Sent(ed) EXCEPT !.text = ed.stale.mine, !.rev = ed.stale.disk]
    <3>1. ed.stale.mine \in Nat /\ ed.stale.mine <= spent'.texts BY <1>2
    <3> QED BY <2>1, <3>1, Zenon
  <2>2. CASE NewText /\ dialog' = [Sent(ed) EXCEPT !.text = Fresh, !.rev = ed.stale.disk]
    <3>1. Fresh \in Nat /\ Fresh <= spent'.texts BY <2>2, SpentTypes DEF TypeOK
    <3> QED BY <2>2, <3>1, Zenon
  <2>3. \/ dialog' = [Sent(ed) EXCEPT !.text = ed.stale.mine, !.rev = ed.stale.disk]
        \/ NewText /\ dialog' = [Sent(ed) EXCEPT !.text = Fresh, !.rev = ed.stale.disk]
    BY DEF saveStaleNote
  <2> QED BY <2>1, <2>2, <2>3
<1>4. /\ dialog'.pc = "sent" /\ dialog'.note = ed.active /\ dialog'.text = t /\ dialog'.rev = ed.stale.disk
      /\ dialog'.known = known \cup {ed.content}
  BY <1>3 DEF Sent
<1>5. known' = known \cup {t} BY <1>4 DEF saveStaleNote
<1>6. stage.pc # "none" => stage.by # "dialog" BY <1>1
<1>7. Addressed' BY <1>1, <1>4
<1>8. Counted' BY <1>1, <1>2, <1>3, <1>4
<1>9. Staging' BY <1>1, <1>6
<1>10. OneReload' /\ Ordered' BY <1>1, <1>4
<1>11. Settled' /\ Kept' BY <1>1, <1>4
<1>12. Shown' BY <1>1, <1>4, <1>5
<1> QED BY <1>7, <1>8, <1>9, <1>10, <1>11, <1>12

-----------------------------------------------------------------------------
(* Another text or no note is shown. *)

(* What is shown is taken from the server: unless it races with an edit or  *)
(* with a save, nothing typed is lost and no request is about the note.     *)
LEMMA TakenRest ==
  ASSUME TypeOK, Rest, NEW races \in BOOLEAN,
         ed'.stale = NoStale, ed'.content \in Nat, ed'.content <= spent.texts,
         ed'.dirty => ed'.active \in Notes, Open(ed') => ed'.revision \in known',
         ed'.pending <=> stage'.pc # "none",
         odd' = (odd \/ races), typed' \in {0, typed}, typed' = 0 \/ odd \/ races,
         odd \/ races \/ save.pc = "none",
         odd \/ races \/ dialog.pc \notin {"sent", "done", "staging"},
         save' \in {save, NoSave}, stage' \in {stage, NoStage}, opener' \in {opener, NoOpener},
         reload' \in {reload, NoReload, [reload EXCEPT !.live = FALSE], [reload EXCEPT !.pc = "tree"]},
         reload.pc = "none" => reload'.pc = "none",
         stage'.pc # "none" => save' = save /\ (reload.pc = "staging" => reload'.pc = "staging"),
         UNCHANGED <<disk, dialog, poll, spent>>
  PROVE  Rest'
<1> USE RecordTypes
<1>1. /\ reload'.pc # "none" => reload'.path = reload.path /\ reload.pc # "none"
      /\ reload'.pc \in {"get", "got"} => reload'.note = reload.note /\ reload.pc = reload'.pc
      /\ reload'.text \in {reload.text, 0} /\ reload'.answer \in {reload.answer, 0}
  BY DEF TypeOK, Reloads, NoReload
<1>2. /\ save'.pc # "none" => UNCHANGED save
      /\ save'.text \in {save.text, 0}
      /\ save.pc = "none" => save'.pc = "none"
  BY DEF NoSave
<1>3. stage'.answer \in {stage.answer, 0} /\ stage'.mine \in {stage.mine, 0} /\ (stage'.pc # "none" => UNCHANGED stage)
  BY DEF NoStage
<1>4. opener'.answer \in {opener.answer, 0} /\ (opener'.pc # "none" => UNCHANGED opener)
  BY DEF NoOpener
<1>5. Addressed' BY <1>1, <1>2, <1>3, <1>4
<1>6. Counted'
  <2>1. NoStale.disk = Lost /\ NoStale.mine = 0 BY DEF NoStale
  <2> QED BY <1>1, <1>2, <1>3, <1>4, <2>1 DEF Lost
<1>7. Staging' BY <1>1, <1>2, <1>3
<1>8. OneReload' BY <1>1
<1>9. Ordered' BY <1>2
<1>10. Settled' BY <1>2
<1>11. Kept' OBVIOUS
<1>12. Shown' BY <1>2
<1> QED BY <1>5, <1>6, <1>7, <1>8, <1>9, <1>10, <1>11, <1>12

LEMMA LoadDiskRest == ASSUME TypeOK, Rest, LoadDisk PROVE Rest'
<1> USE RecordTypes
<1> DEFINE races == save.pc # "none"
<1>1. /\ ed.stale # NoStale /\ dialog.pc = "none" /\ ed.active \in Notes /\ typed' = 0
      /\ UNCHANGED <<disk, git, dialog, opener, poll, processed, spent>>
  BY DEF LoadDisk, DialogOpen
<1>2. races \in BOOLEAN OBVIOUS
<1>3. ed.stale.disk \in Nat BY <1>1 DEF TypeOK, Answers
<1>4. CASE ed.stale.disk = Missing
  <2>1. Reset(races) /\ reload' = Unblocked BY <1>4 DEF LoadDisk
  <2> HIDE DEF races
  <2>2. /\ ed' \in Editors /\ ed'.stale = NoStale /\ ed'.active = None /\ ed'.content = 0 /\ ~ed'.pending
        /\ known' = {} /\ stage' = NoStage /\ save' \in {save, NoSave} /\ odd' = (odd \/ races)
    BY <1>2, <2>1, ResetsTypes DEF TypeOK
  <2>3. ~Open(ed') BY <2>2 DEF Open
  <2>4. ~ed'.dirty
    <3>1. React(resetEditorState(ed)) BY <2>1 DEF Reset
    <3>2. resetEditorState(ed) \in Editors /\ ~resetEditorState(ed).dirty /\ ~Open(resetEditorState(ed))
      BY ResetTypes DEF TypeOK, Open
    <3> QED BY <3>1, <3>2, ReactFacts DEF TypeOK
  <2>5. stage'.pc = "none" BY <2>2 DEF NoStage
  <2>6. /\ reload' \in {[reload EXCEPT !.live = FALSE], [reload EXCEPT !.pc = "tree"]}
        /\ reload.pc = "none" => reload' = [reload EXCEPT !.live = FALSE]
    BY <2>1 DEF Unblocked
  <2>7. reload.pc = "none" => reload'.pc = "none" BY <2>6 DEF TypeOK, Reloads
  <2>8. odd \/ races \/ save.pc = "none" BY DEF races
  <2>9. ed'.dirty => ed'.active \in Notes BY <2>4
  <2> QED BY <1>1, <1>2, <2>2, <2>3, <2>5, <2>6, <2>7, <2>8, <2>9, TakenRest
<1>5. CASE ed.stale.disk # Missing
  <2>1. Apply(ed.active, ed.stale.disk, races) /\ UNCHANGED <<save, stage, reload>> BY <1>5 DEF LoadDisk
  <2> HIDE DEF races
  <2>2. /\ ed'.stale = NoStale /\ ed'.active = ed.active /\ ed'.content = ed.stale.disk
        /\ ed'.revision = ed.stale.disk /\ ed'.pending = ed.pending
        /\ known' = {ed.stale.disk} /\ odd' = (odd \/ races)
    BY <1>2, <1>3, <2>1, ApplyTypes DEF TypeOK
  <2>3. odd \/ races \/ save.pc = "none" BY DEF races
  <2> QED BY <1>1, <1>2, <1>3, <2>1, <2>2, <2>3, TakenRest
<1> QED BY <1>4, <1>5

LEMMA OpenerApplyRest == ASSUME TypeOK, Rest, OpenerApply PROVE Rest'
<1> USE RecordTypes
<1> DEFINE races == FALSE
<1>1. /\ opener.note \in Notes /\ save.pc = "none" /\ ~ed.dirty /\ ~Recovering(ed)
      /\ opener' = NoOpener /\ Apply(opener.note, opener.answer, races)
      /\ UNCHANGED <<disk, git, save, stage, dialog, reload, poll, processed, typed, spent>>
  BY DEF OpenerApply
<1>2. opener.note \in Some /\ races \in BOOLEAN BY <1>1, ConstantTypes
<1> HIDE DEF races
<1>3. /\ ed'.stale = NoStale /\ ed'.active = opener.note /\ ed'.content = opener.answer
      /\ ed'.revision = opener.answer /\ ed'.pending = ed.pending
      /\ known' = {opener.answer} /\ odd' = (odd \/ races)
  BY <1>1, <1>2, ApplyTypes DEF TypeOK
<1>4. typed = 0 \/ odd BY <1>1
<1>5. odd \/ dialog.pc \notin {"sent", "done", "staging"} BY <1>1 DEF Recovering
<1> QED BY <1>1, <1>2, <1>3, <1>4, <1>5, TakenRest

LEMMA ReloadApplyRest == ASSUME TypeOK, Rest, ReloadApply PROVE Rest'
<1> USE RecordTypes
<1> DEFINE races == ed.dirty \/ ed.content # reload.text \/ save.pc # "none"
<1>1. /\ reload.pc = "got" /\ reload.note \in Notes /\ UNCHANGED <<disk, git, dialog, poll, typed, spent>>
  BY DEF ReloadApply
<1>2. races \in BOOLEAN OBVIOUS
<1>3. CASE reload' = NoReload /\ UNCHANGED <<ed, save, stage, processed, opener, known, odd>>
  <2>1. reload'.pc = "none" /\ reload'.text = 0 /\ reload'.answer = 0 BY <1>3 DEF NoReload
  <2> QED BY <1>1, <1>3, <2>1
<1>4. CASE Mark /\ reload.live /\ ed.active = reload.note /\
           IF reload.answer = Missing THEN Reset(races) /\ opener' = NoOpener
           ELSE Apply(reload.note, reload.answer, races) /\ UNCHANGED <<save, stage, opener>>
  <2>1. odd \/ races \/ save.pc = "none" OBVIOUS
  <2>2. odd \/ races \/ typed = 0 BY <1>1
  <2>3. odd \/ races \/ dialog.pc \notin {"sent", "done", "staging"} BY <1>1
  <2>4. reload' = NoReload /\ reload'.pc = "none" BY <1>4 DEF Mark, NoReload
  <2>5. stage.pc # "none" => reload.pc # "staging" BY <1>1
  <2>6. CASE reload.answer = Missing
    <3>1. Reset(races) /\ opener' = NoOpener BY <1>4, <2>6
    <3> HIDE DEF races
    <3>2. /\ ed'.stale = NoStale /\ ed'.active = None /\ ed'.content = 0 /\ ~ed'.pending
          /\ known' = {} /\ stage' = NoStage /\ save' \in {save, NoSave} /\ odd' = (odd \/ races)
      BY <1>2, <3>1, ResetsTypes DEF TypeOK
    <3>3. ~Open(ed') BY <3>2 DEF Open
    <3>4. ~ed'.dirty
      <4>1. React(resetEditorState(ed)) BY <3>1 DEF Reset
      <4>2. resetEditorState(ed) \in Editors /\ ~resetEditorState(ed).dirty /\ ~Open(resetEditorState(ed))
        BY ResetTypes DEF TypeOK, Open
      <4> QED BY <4>1, <4>2, ReactFacts DEF TypeOK
    <3>5. stage'.pc = "none" BY <3>2 DEF NoStage
    <3> QED BY <1>1, <1>2, <2>1, <2>2, <2>3, <2>4, <3>1, <3>2, <3>3, <3>4, <3>5, TakenRest
  <2>7. CASE reload.answer # Missing
    <3>1. Apply(reload.note, reload.answer, races) /\ UNCHANGED <<save, stage, opener>> BY <1>4, <2>7
    <3>2. reload.note \in Some BY <1>1, ConstantTypes
    <3> HIDE DEF races
    <3>3. /\ ed'.stale = NoStale /\ ed'.active = reload.note /\ ed'.content = reload.answer
          /\ ed'.revision = reload.answer /\ ed'.pending = ed.pending
          /\ known' = {reload.answer} /\ odd' = (odd \/ races)
      BY <1>2, <3>1, <3>2, ApplyTypes DEF TypeOK
    <3> QED BY <1>1, <1>2, <2>1, <2>2, <2>3, <2>4, <2>5, <3>1, <3>3, TakenRest
  <2> QED BY <2>6, <2>7
<1>5. \/ reload' = NoReload /\ UNCHANGED <<ed, save, stage, processed, opener, known, odd>>
      \/ Mark /\ reload.live /\ ed.active = reload.note /\
           IF reload.answer = Missing THEN Reset(races) /\ opener' = NoOpener
           ELSE Apply(reload.note, reload.answer, races) /\ UNCHANGED <<save, stage, opener>>
  BY DEF ReloadApply
<1> QED BY <1>3, <1>4, <1>5

-----------------------------------------------------------------------------
(* The change of note and the reload. *)

LEMMA OpenerRest ==
  ASSUME TypeOK, Rest, (\E n \in Notes : loadNote(n)) \/ OpenerRead
  PROVE  Rest'
<1> USE RecordTypes DEF requests, ghosts
<1>1. ASSUME NEW n \in Notes, loadNote(n) PROVE Rest'
  <2>1. /\ UNCHANGED <<disk, git, ed, save, stage, dialog, poll, processed, ghosts>>
        /\ spent'.texts = spent.texts
    BY <1>1, SpentTypes DEF loadNote, TypeOK
  <2>2. opener'.note = n /\ opener'.answer = 0 BY <1>1 DEF loadNote, NoOpener
  <2>3. /\ reload'.pc = reload.pc /\ reload'.path = reload.path /\ reload'.note = reload.note
        /\ reload'.text = reload.text /\ reload'.answer = reload.answer
    BY <1>1 DEF loadNote, TypeOK, Reloads
  <2> QED BY <2>1, <2>2, <2>3
<1>2. CASE OpenerRead
  <2>1. /\ opener.note \in Notes /\ UNCHANGED <<disk, git, ed, save, stage, dialog, reload, poll, processed, ghosts>>
        /\ spent'.texts = spent.texts
    BY <1>2, SpentTypes DEF OpenerRead, TypeOK
  <2>2. \/ opener' = NoOpener
        \/ opener' = [opener EXCEPT !.pc = "last", !.answer = disk[opener.note]]
    BY <1>2 DEF OpenerRead
  <2>3. opener'.answer \in {0, disk[opener.note]} /\ (opener'.pc # "none" => opener'.note = opener.note)
    <3> DEFINE a == disk[opener.note]
    <3>1. \/ opener' = NoOpener
          \/ opener' = [opener EXCEPT !.pc = "last", !.answer = a]
      BY <2>2
    <3> HIDE DEF a
    <3>2. opener'.answer \in {0, a} /\ (opener'.pc # "none" => opener'.note = opener.note)
      <4>1. CASE opener' = NoOpener
        <5>1. NoOpener.pc = "none" /\ NoOpener.answer = 0 BY DEF NoOpener
        <5> QED BY <4>1, <5>1
      <4>2. CASE opener' = [opener EXCEPT !.pc = "last", !.answer = a]
        BY <4>2 DEF TypeOK, Openers
      <4> QED BY <3>1, <4>1, <4>2
    <3> QED BY <3>2 DEF a
  <2> QED BY <2>1, <2>3
<1> QED BY <1>1, <1>2

LEMMA FlushRest == ASSUME TypeOK, Rest, Flush PROVE Rest'
<1> USE RecordTypes
<1>1. /\ opener.pc \in {"flush", "last"} /\ save.pc = "none" /\ opener.note \in Notes
      /\ UNCHANGED <<disk, git, stage, dialog, reload, poll, processed, typed, odd, spent>>
  BY DEF Flush
<1>2. CASE opener' = NoOpener /\ React(Failed(ed)) /\ UNCHANGED <<save, known>>
  <2> DEFINE e == Failed(ed)
  <2>1. /\ e \in Editors /\ e.active = ed.active /\ e.content = ed.content /\ e.stale = ed.stale
        /\ e.pending = ed.pending /\ e.skip = ed.skip /\ e.watch = ed.watch /\ e.dirty = ed.dirty
        /\ e.revision = ed.revision
    BY DEF Failed, TypeOK, Editors
  <2>2. React(e) BY <1>2
  <2> HIDE DEF e
  <2> QED BY <1>1, <1>2, <2>1, <2>2, EditorRest
<1>3. CASE ~Recovering(ed) /\ ed.dirty /\ React(Sending(ed)) /\ Send(ed) /\ UNCHANGED opener
  <2> DEFINE e == Sending(ed)
  <2>1. /\ e \in Editors /\ e.active = ed.active /\ e.content = ed.content /\ e.stale = ed.stale
        /\ e.pending = ed.pending /\ e.skip = ed.skip /\ e.watch = ed.watch /\ e.dirty
        /\ e.revision = ed.revision
    BY <1>3, EditorFacts DEF Sending, TypeOK, Editors
  <2>2. React(e) /\ Send(e) BY <1>3, <2>1 DEF Send, Sent
  <2> HIDE DEF e
  <2>3. ed.stale = NoStale BY <1>3 DEF Recovering
  <2>4. odd \/ e.revision \in known BY <1>3, <2>1, BoundsAssumption DEF Open
  <2> QED BY <1>1, <1>3, <2>1, <2>2, <2>3, <2>4, SendRest
<1>4. CASE opener' = [opener EXCEPT !.pc = "get"] /\ UNCHANGED <<ed, save, known>>
  <2>1. opener'.note = opener.note /\ opener'.answer = opener.answer BY <1>4 DEF TypeOK, Openers
  <2> QED BY <1>1, <1>4, <2>1
<1> QED BY <1>2, <1>3, <1>4 DEF Flush

LEMMA ReloadTreeRest == ASSUME TypeOK, Rest, ReloadTree PROVE Rest'
<1> USE RecordTypes
<1>1. /\ reload.pc = "tree" /\ reload.path \in Notes
      /\ UNCHANGED <<disk, git, save, dialog, opener, poll, known, typed, odd, spent>>
  BY ReloadTreeCases DEF TypeOK, ghosts
<1>2. stage.pc # "none" => stage.by # "reload" BY <1>1
<1>3. CASE Mark /\ UNCHANGED <<ed, stage>>
  <2>1. reload'.pc = "none" /\ reload'.text = 0 /\ reload'.answer = 0 BY <1>3 DEF Mark, NoReload
  <2> QED BY <1>1, <1>2, <1>3, <2>1
<1>4. CASE /\ ed.active = reload.path /\ ed.stale = NoStale /\ ed.dirty /\ ~ed.pending
           /\ Stage(ed, "reload", ed.active, 0) /\ reload' = [reload EXCEPT !.pc = "staging"]
           /\ UNCHANGED processed
  BY <1>1, <1>4, StageRest
<1>5. CASE /\ ed.active = reload.path /\ ed.stale = NoStale /\ ~ed.dirty
           /\ reload' = [reload EXCEPT !.pc = "get", !.note = ed.active, !.live = TRUE, !.text = ed.content]
           /\ UNCHANGED <<ed, stage, processed>>
  <2>1. /\ reload'.pc = "get" /\ reload'.note = ed.active /\ reload'.path = reload.path
        /\ reload'.text = ed.content /\ reload'.answer = reload.answer
    BY <1>5 DEF TypeOK, Reloads
  <2>2. ~Unsaved
    <3> SUFFICES ASSUME Unsaved PROVE FALSE OBVIOUS
    <3>1. ed.pending BY <1>5 DEF Recovering
    <3>2. stage.pc # "none" /\ stage.by \in {"save", "dialog"} BY <1>2, <3>1
    <3>3. CASE stage.by = "save" BY <1>1, <1>5, <3>2, <3>3
    <3>4. CASE stage.by = "dialog" BY <1>5, <3>2, <3>4
    <3> QED BY <3>2, <3>3, <3>4
  <2>3. Addressed' /\ Counted' BY <1>1, <1>5, <2>1
  <2>4. Staging' /\ OneReload' /\ Ordered' BY <1>1, <1>2, <1>5, <2>1
  <2>5. Settled' /\ Kept' /\ Shown' BY <1>1, <1>5, <2>1, <2>2
  <2> QED BY <2>3, <2>4, <2>5
<1> QED BY <1>3, <1>4, <1>5, ReloadTreeCases DEF TypeOK

LEMMA ReloadReadRest == ASSUME TypeOK, Rest, ReloadRead PROVE Rest'
<1> USE RecordTypes DEF ghosts
<1>1. /\ reload.pc = "get" /\ reload.note \in Notes
      /\ UNCHANGED <<disk, git, ed, save, stage, dialog, opener, poll, processed, ghosts>>
      /\ spent'.texts = spent.texts
  BY SpentTypes DEF ReloadRead, TypeOK
<1>2. \/ reload' = [reload EXCEPT !.pc = "got", !.answer = disk[reload.note]]
      \/ reload' = NoReload
  BY DEF ReloadRead
<1>3. /\ reload'.pc \in {"got", "none"} /\ (reload'.pc # "none" => reload'.path = reload.path /\ reload'.note = reload.note)
      /\ reload'.text \in {reload.text, 0} /\ reload'.answer \in {disk[reload.note], 0}
      /\ reload'.pc = "got" => reload'.text = reload.text
  <2>1. CASE reload' = NoReload BY <1>1, <2>1 DEF NoReload
  <2>2. CASE reload' = [reload EXCEPT !.pc = "got", !.answer = disk[reload.note]]
    <3> DEFINE a == disk[reload.note]
    <3>1. reload' = [reload EXCEPT !.pc = "got", !.answer = a] BY <2>2
    <3> HIDE DEF a
    <3>2. /\ reload'.pc = "got" /\ reload'.path = reload.path /\ reload'.note = reload.note
          /\ reload'.text = reload.text /\ reload'.answer = a
      BY <3>1 DEF TypeOK, Reloads
    <3> QED BY <3>2 DEF a
  <2> QED BY <1>2, <2>1, <2>2
<1> QED BY <1>1, <1>3

LEMMA RestStep == TypeOK /\ Rest /\ [Next]_vars => Rest'
<1> SUFFICES ASSUME TypeOK, Rest, [Next]_vars PROVE Rest' OBVIOUS
<1>1. CASE Browser
  BY <1>1, TimerRest, SaveAnsweredRest, StageDoneRest, DialogAnsweredRest, FlushRest, OpenerApplyRest,
     ReloadTreeRest, ReloadApplyRest, PollRest DEF Browser
<1>2. CASE Network
  BY <1>2, PutSaveRest, PutDialogRest, StageReadRest, OpenerRest, ReloadReadRest, PollRest DEF Network
<1>3. CASE User
  BY <1>3, TypeRest, TimerRest, LoadDiskRest, SaveStaleRest, PollRest, OpenerRest DEF User
<1>4. CASE LoseSave \/ LoseDialog BY <1>4, PutSaveRest, PutDialogRest
<1>5. CASE Publish \/ \E n \in Notes : Pull(n) BY <1>5, ServerRest
<1>6. CASE UNCHANGED vars BY <1>6 DEF vars, requests, ghosts
<1> QED BY <1>1, <1>2, <1>3, <1>4, <1>5, <1>6 DEF Next

-----------------------------------------------------------------------------
(* The theorems. *)

LEMMA InvariantStep == IInv /\ [Next]_vars => IInv' /\ PollsOnce'
BY TypesStep, RestStep DEF IInv

\* The inductive invariant holds in every state of the editor.
THEOREM EditorInvariant == Spec => []IInv
<1>1. Init => IInv BY InitTypes, InitRest DEF IInv
<1>2. IInv /\ [Next]_vars => IInv' BY InvariantStep
<1> QED BY <1>1, <1>2, PTL DEF Spec

(* What was typed is in the editor, marked as unsaved, or in the dialog     *)
(* until it is on disk, whatever the autosave, the change of note, the      *)
(* dialog and the reload of persistCurrentNote and processChangedPaths do   *)
(* between a request and its answer.                                        *)
THEOREM TypedTextIsKept == Spec => []TypedIsKept
<1>1. IInv => TypedIsKept BY DEF IInv, TypedIsKept
<1> QED BY <1>1, EditorInvariant, PTL

(* The poller of git-status-poller has always one run that counts or a      *)
(* timer for the next one, however many refreshes make runs stale.          *)
THEOREM OnePoll == Spec => []PollsOnce
<1>1. IInv => PollsOnce BY DEF IInv
<1> QED BY <1>1, EditorInvariant, PTL

\* The notes on the server are changed by requests and synchronisations.
LEMMA DiskSteps ==
  ASSUME [Next]_vars, disk' # disk
  PROVE  PutSave \/ LoseSave \/ PutDialog \/ LoseDialog \/ \E n \in Notes : Pull(n)
<1>1. ~UNCHANGED vars BY DEF vars
<1>2. ~Browser
  BY DEF Browser, TimerFires, SaveAnswered, StageDone, DialogAnswered, Flush, OpenerApply, ReloadTree,
         ReloadApply, PollAnswered, PollEnds, PollTimer
<1>3. ~(StageRead \/ OpenerRead \/ ReloadRead \/ PollRead) BY DEF StageRead, OpenerRead, ReloadRead, PollRead
<1>4. ~User BY DEF User, Type, saveNow, LoadDisk, saveStaleNote, refresh, loadNote
<1>5. ~Publish BY DEF Publish
<1> QED BY <1>1, <1>2, <1>3, <1>4, <1>5 DEF Next, Network

\* A request that is answered replaces only the revision it was sent over.
LEMMA OverwriteStep ==
  ASSUME IInv, [Next]_vars, NEW r \in {save, dialog}, ~odd,
         \/ r = save /\ Overwrites(save, save')
         \/ r = dialog /\ Overwrites(dialog, dialog')
  PROVE  disk[r.note] \in r.known
<1> USE RecordTypes DEF IInv
<1>1. r.pc = "sent" /\ r.note \in Notes /\ disk'[r.note] # disk[r.note] BY DEF Overwrites
<1>2. r.rev \in r.known BY <1>1
<1>3. Put(r) \/ UNCHANGED <<disk, typed>>
  <2>1. CASE r = save /\ Overwrites(save, save')
    <3>1. ~UNCHANGED save BY <2>1 DEF Overwrites
    <3>2. PutSave \/ LoseSave BY <1>1, <3>1, DiskSteps DEF PutDialog, LoseDialog, Pull, requests
    <3> QED BY <2>1, <3>2 DEF PutSave, LoseSave
  <2>2. CASE r = dialog /\ Overwrites(dialog, dialog')
    <3>1. ~UNCHANGED dialog BY <2>2 DEF Overwrites
    <3>2. PutDialog \/ LoseDialog BY <1>1, <3>1, DiskSteps DEF PutSave, LoseSave, Pull, requests
    <3> QED BY <2>2, <3>2 DEF PutDialog, LoseDialog
  <2> QED BY <2>1, <2>2
<1> QED BY <1>1, <1>2, <1>3, PutFacts

(* A save or the dialog replaces on the server only a text the editor has   *)
(* shown as this note's or has sent itself: never what a synchronisation    *)
(* brought in between.                                                      *)
THEOREM NothingOverwrittenBlindly == Spec => NoBlindOverwrite
<1>1. IInv /\ [Next]_vars =>
        [/\ Overwrites(save, save') /\ ~odd => disk[save.note] \in save.known
         /\ Overwrites(dialog, dialog') /\ ~odd => disk[dialog.note] \in dialog.known]_vars
  BY OverwriteStep
<1> QED BY <1>1, EditorInvariant, PTL DEF Spec, NoBlindOverwrite
=============================================================================
