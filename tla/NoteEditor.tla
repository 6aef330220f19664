----------------------------- MODULE NoteEditor -----------------------------
(***************************************************************************)
(* The editor in the browser: autosave, the change of note, the dialog of  *)
(* a stale note, and the changed paths that the status poller brings, over *)
(* a server whose synchronisations change the notes.  JavaScript runs one  *)
(* action at a time; between a request and its answer everything moves.    *)
(*                                                                         *)
(* One base and the editor screen.  A text is a number that no other text  *)
(* has, and its own revision.                                              *)
(***************************************************************************)
EXTENDS Integers

CONSTANTS Notes, None,
          First,      \* the note that is open at the start
          MaxTexts,   \* bound: texts typed, merged or brought by a synchronisation
          MaxSyncs,   \* bound: synchronisations that change a note
          MaxFaults,  \* bound: requests that fail
          MaxClicks   \* bound: changes of note, saves by hand and refreshes of the status

ASSUME BoundsAssumption ==
  /\ None \notin Notes /\ First \in Notes /\ MaxTexts \in Nat /\ MaxSyncs \in Nat
  /\ MaxFaults \in Nat /\ MaxClicks \in Nat

VARIABLES
  disk,    \* the notes on the server, Missing when there is none
  git,     \* the newest operation, the path it changed, whether it is terminal
  ed,      \* what App.svelte keeps of the open note
  save,    \* the loop of persistCurrentNote
  stage,   \* the request of stageStaleNote
  dialog,  \* the request of saveStaleNote
  opener,  \* loadNote
  reload,  \* processChangedPaths
  poll,    \* git-status-poller: the run at the head of the chain, and the timer
  processed, \* processedChangedPathBuckets
  known,   \* the texts of the open note the editor has shown or sent
  typed,   \* the newest typed text that is not on disk, 0 when there is none
  odd,     \* the editor took a text over an edit or a save in flight
  spent    \* how much of every bound is used

requests == <<save, stage, dialog, opener, reload>>
ghosts   == <<known, typed, odd>>
vars     == <<disk, git, ed, requests, poll, processed, ghosts, spent>>

Missing == 0
Lost == -1
NoStale == [mine |-> 0, disk |-> Lost]
NoSave  == [pc |-> "none", note |-> None, text |-> 0, rev |-> 0, known |-> {}, answer |-> 0]
NoStage == [pc |-> "none", by |-> "save", note |-> None, mine |-> 0, answer |-> 0]
NoOpener == [pc |-> "none", note |-> None, answer |-> 0]
NoReload == [pc |-> "none", op |-> 0, path |-> None, note |-> None, text |-> 0, live |-> FALSE,
             answer |-> 0]
NoPoll == [pc |-> "none", current |-> TRUE, queued |-> FALSE, timer |-> FALSE, op |-> 0, path |-> None]

\* A note is open and clean, another one may be opened.
Init ==
  /\ disk = [n \in Notes |-> IF n = First THEN 1 ELSE 2]
  /\ ed = [active |-> First, content |-> 1, revision |-> 1, dirty |-> FALSE, armed |-> FALSE,
           skip |-> FALSE, watch |-> FALSE, stale |-> NoStale, pending |-> FALSE, failed |-> FALSE]
  /\ known = {1} /\ typed = 0 /\ odd = FALSE
  /\ git = [op |-> 0, path |-> None, terminal |-> TRUE]
  /\ save = NoSave /\ stage = NoStage /\ dialog = NoSave /\ opener = NoOpener /\ reload = NoReload
  /\ poll = [NoPoll EXCEPT !.pc = "loading"] /\ processed = {}
  /\ spent = [texts |-> 2, syncs |-> 0, faults |-> 0, clicks |-> 0]

Fresh == spent.texts + 1
Spend(bound, max) == spent[bound] < max /\ spent' = [spent EXCEPT ![bound] = @ + 1]
NewText == Spend("texts", MaxTexts + 2)
Fault == Spend("faults", MaxFaults)
Click == Spend("clicks", MaxClicks)

-----------------------------------------------------------------------------
(* The server. *)

\* Variant: the server takes every text.
AcceptsAll(on, rev) == TRUE

\* The server takes a text only over the revision the editor expects.
Accepts(on, rev) == on = rev

\* A note that is gone is an error, not a change.
Put(r) ==
  /\ r.pc = "sent"
  /\ IF disk[r.note] = Missing THEN UNCHANGED <<disk, typed>>
     ELSE IF Accepts(disk[r.note], r.rev)
          THEN disk' = [disk EXCEPT ![r.note] = r.text] /\ typed' = IF typed = r.text THEN 0 ELSE typed
          ELSE UNCHANGED <<disk, typed>>

Answered(r) == [r EXCEPT !.pc = "done",
                  !.answer = IF disk[r.note] = Missing THEN Lost
                             ELSE IF Accepts(disk[r.note], r.rev) THEN r.text ELSE Missing]

\* A synchronisation changes or removes a note, and then publishes its status.
Pull(n) ==
  /\ git.terminal /\ spent.syncs < MaxSyncs
  /\ \/ /\ Fresh <= MaxTexts + 2 /\ disk' = [disk EXCEPT ![n] = Fresh]
        /\ spent' = [spent EXCEPT !.syncs = @ + 1, !.texts = @ + 1]
     \/ /\ disk[n] # Missing /\ disk' = [disk EXCEPT ![n] = Missing]
        /\ spent' = [spent EXCEPT !.syncs = @ + 1]
  /\ git' = [op |-> git.op + 1, path |-> n, terminal |-> FALSE]
  /\ UNCHANGED <<ed, requests, poll, processed, ghosts>>

Publish ==
  /\ ~git.terminal /\ git' = [git EXCEPT !.terminal = TRUE]
  /\ UNCHANGED <<disk, ed, requests, poll, processed, ghosts, spent>>

-----------------------------------------------------------------------------
(* The editor.  After every action the effect runs if the content or the    *)
(* note changed, or, once it has read them, the dialog or the pending flag. *)

Open(e) == e.active # None
Recovering(e) == e.stale # NoStale \/ e.pending

Triggered(new) ==
  \/ new.active # ed.active \/ new.content # ed.content
  \/ ed.watch /\ (new.stale # ed.stale \/ new.pending # ed.pending)

Effect(new) ==
  IF new.skip THEN [new EXCEPT !.skip = FALSE, !.watch = FALSE]
  ELSE IF Open(new) /\ ~Recovering(new)
       THEN [new EXCEPT !.watch = TRUE, !.dirty = TRUE, !.armed = TRUE]
       ELSE [new EXCEPT !.watch = Open(new)]

React(new) == ed' = IF Triggered(new) THEN Effect(new) ELSE new

applyLoadedNote(e, n, text) ==
  [e EXCEPT !.active = n, !.content = text, !.revision = text, !.skip = TRUE, !.dirty = FALSE,
            !.armed = FALSE, !.stale = NoStale, !.failed = FALSE]

resetEditorState(e) == [applyLoadedNote(e, None, 0) EXCEPT !.pending = FALSE]

Type ==
  /\ Open(ed) /\ opener.pc = "none" /\ NewText
  /\ React([ed EXCEPT !.content = Fresh])
  /\ typed' = IF ed.skip /\ typed = 0 THEN 0 ELSE Fresh
  /\ UNCHANGED <<disk, git, requests, poll, processed, known, odd>>

\* One turn of the loop of persistCurrentNote: what the editor holds is sent.
Sent(e) == [pc |-> "sent", note |-> e.active, text |-> e.content, rev |-> e.revision,
            known |-> known \cup {e.content}, answer |-> 0]
Sending(e) == [e EXCEPT !.armed = FALSE, !.failed = FALSE]

Send(e) == save' = Sent(e) /\ known' = known \cup {e.content}

\* The timer of the autosave; fired during a save it waits for its end.
TimerFires ==
  /\ ed.armed /\ save.pc = "none"
  /\ IF ed.dirty /\ ~Recovering(ed)
     THEN React(Sending(ed)) /\ Send(ed)
     ELSE React([ed EXCEPT !.armed = FALSE]) /\ UNCHANGED <<save, known>>
  /\ UNCHANGED <<disk, git, stage, dialog, opener, reload, poll, processed, typed, odd, spent>>

saveNow ==
  /\ Open(ed) /\ ~Recovering(ed) /\ save.pc = "none" /\ opener.pc = "none" /\ Click
  /\ React([Sending(ed) EXCEPT !.dirty = TRUE]) /\ Send(ed)
  /\ UNCHANGED <<disk, git, stage, dialog, opener, reload, poll, processed, typed, odd>>

PutSave ==
  /\ Put(save) /\ save' = Answered(save)
  /\ UNCHANGED <<git, ed, stage, dialog, opener, reload, poll, processed, known, odd, spent>>

\* A request fails before the server or its answer is lost.
LoseSave ==
  /\ save.pc = "sent" /\ Fault /\ save' = [save EXCEPT !.pc = "done", !.answer = Lost]
  /\ Put(save) \/ UNCHANGED <<disk, typed>>
  /\ UNCHANGED <<git, ed, stage, dialog, opener, reload, poll, processed, known, odd>>

\* Variant: the reload goes on only after a save that left nothing behind.
GoesOnWhenSaved(e, ok) ==
  IF ok /\ ~Recovering(e) THEN [reload EXCEPT !.pc = "tree"] ELSE reload

\* The reload that waited for a save goes on, or leaves the change to the next poll.
GoesOn(e, ok) ==
  IF ok /\ ~Recovering(e) THEN [reload EXCEPT !.pc = "tree"] ELSE NoReload

\* The save ends; who flushes fails with it.
SaveEnds(e, ok) ==
  /\ save' = NoSave
  /\ opener' = IF ~ok /\ opener.pc \in {"flush", "last"} THEN NoOpener ELSE opener
  /\ reload' = IF reload.pc = "wait" THEN GoesOn(e, ok) ELSE reload

Failed(e) == [e EXCEPT !.failed = TRUE]

\* stageStaleNote asks for the text on disk, unless somebody already does.
Stage(e, by, n, mine) ==
  /\ stage' = [NoStage EXCEPT !.pc = "sent", !.by = by, !.note = n, !.mine = mine]
  /\ React([e EXCEPT !.pending = TRUE, !.armed = FALSE])

\* Variant: the text typed during the save counts as saved.
SavedAll(e) == TRUE

savedAll(e) == e.content = save.text

SaveAnswered ==
  /\ save.pc = "done"
  /\ LET e == IF ed.active = save.note THEN [ed EXCEPT !.revision = save.answer] ELSE ed IN
     CASE save.answer = Lost ->
            React(Failed(ed)) /\ SaveEnds(ed, FALSE) /\ UNCHANGED <<stage, known>>
       [] save.answer = Missing /\ ed.pending ->
            SaveEnds(ed, TRUE) /\ UNCHANGED <<ed, stage, known>>
       [] save.answer = Missing /\ ~ed.pending ->
            /\ Stage(ed, "save", save.note, 0) /\ save' = [save EXCEPT !.pc = "staging"]
            /\ UNCHANGED <<opener, reload, known>>
       [] save.answer \notin {Lost, Missing} ->
            IF ed.active = save.note /\ ~savedAll(ed) /\ ed.dirty
            THEN React(Sending(e)) /\ Send(e) /\ UNCHANGED <<stage, opener, reload>>
            ELSE LET done == IF e.active = save.note /\ savedAll(e) THEN [e EXCEPT !.dirty = FALSE] ELSE e
                 IN React(done) /\ SaveEnds(done, TRUE) /\ UNCHANGED <<stage, known>>
  /\ UNCHANGED <<disk, git, dialog, poll, processed, typed, odd, spent>>

-----------------------------------------------------------------------------
(* The dialog of a stale note. *)

StageRead ==
  /\ stage.pc = "sent"
  /\ \/ stage' = [stage EXCEPT !.pc = "done", !.answer = disk[stage.note]] /\ UNCHANGED spent
     \/ Fault /\ stage' = [stage EXCEPT !.pc = "done", !.answer = Lost]
  /\ UNCHANGED <<disk, git, ed, save, dialog, opener, reload, poll, processed, ghosts>>

\* The read ends for the one that asked: an error leaves a dialog busy for good.
StageEndsFor(e, ok) ==
  CASE stage.by = "save"   -> SaveEnds(e, ok) /\ UNCHANGED <<dialog, processed>>
    [] stage.by = "reload" ->
         /\ reload' = NoReload
         /\ processed' = IF ok THEN processed \cup {reload.op} ELSE processed
         /\ UNCHANGED <<save, dialog, opener>>
    [] stage.by = "dialog" ->
         /\ dialog' = IF ok THEN NoSave ELSE [dialog EXCEPT !.pc = "stuck"]
         /\ UNCHANGED <<save, opener, reload, processed>>

Staled(e) == [e EXCEPT !.dirty = TRUE, !.failed = FALSE,
                !.stale = [mine |-> IF stage.mine = 0 THEN e.content ELSE stage.mine, disk |-> stage.answer]]

\* Variant: only a read that succeeds clears stalePending.
ClearedWhenRead == IF stage.answer = Lost THEN ed ELSE [ed EXCEPT !.pending = FALSE]

Cleared == [ed EXCEPT !.pending = FALSE]

StageDone ==
  /\ stage.pc = "done" /\ stage' = NoStage
  /\ LET free == Cleared
         mine == stage.answer # Lost /\ ed.active = stage.note
         e == IF mine THEN Staled(free)
              ELSE IF stage.answer = Lost /\ stage.by = "save" THEN Failed(free) ELSE free
     IN /\ React(e) /\ StageEndsFor(e, stage.answer # Lost)
        /\ known' = IF mine THEN known \cup {stage.answer} ELSE known
  /\ UNCHANGED <<disk, git, poll, typed, odd, spent>>

DialogOpen == ed.stale # NoStale /\ dialog.pc = "none"

\* applyLoadedNote
Apply(n, text, races) ==
  /\ React(applyLoadedNote(ed, n, text)) /\ known' = {text} /\ odd' = (odd \/ races)

\* resetEditorState; a read of stageStaleNote under way will find no note.
Reset(races) ==
  /\ React(resetEditorState(ed)) /\ known' = {} /\ stage' = NoStage
  /\ save' = IF save.pc = "staging" THEN NoSave ELSE save
  /\ odd' = (odd \/ races)

Unblocked == IF reload.pc = "wait" /\ save.pc = "staging" THEN [reload EXCEPT !.pc = "tree"]
             ELSE [reload EXCEPT !.live = FALSE]

LoadDisk ==
  /\ DialogOpen /\ typed' = 0
  /\ LET races == save.pc # "none" IN
     IF ed.stale.disk = Missing THEN Reset(races) /\ reload' = Unblocked
     ELSE Apply(ed.active, ed.stale.disk, races) /\ UNCHANGED <<save, stage, reload>>
  /\ UNCHANGED <<disk, git, dialog, opener, poll, processed, spent>>

\* The user keeps the own version, or writes one out of both.
saveStaleNote ==
  /\ DialogOpen /\ ed.stale.disk # Missing
  /\ \/ dialog' = [Sent(ed) EXCEPT !.text = ed.stale.mine, !.rev = ed.stale.disk] /\ UNCHANGED spent
     \/ NewText /\ dialog' = [Sent(ed) EXCEPT !.text = Fresh, !.rev = ed.stale.disk]
  /\ known' = known \cup {dialog'.text}
  /\ UNCHANGED <<disk, git, ed, save, stage, opener, reload, poll, processed, typed, odd>>

PutDialog ==
  /\ Put(dialog) /\ dialog' = Answered(dialog)
  /\ UNCHANGED <<git, ed, save, stage, opener, reload, poll, processed, known, odd, spent>>

LoseDialog ==
  /\ dialog.pc = "sent" /\ Fault /\ dialog' = [dialog EXCEPT !.pc = "done", !.answer = Lost]
  /\ Put(dialog) \/ UNCHANGED <<disk, typed>>
  /\ UNCHANGED <<git, ed, save, stage, opener, reload, poll, processed, known, odd>>

DialogAnswered ==
  /\ dialog.pc = "done"
  /\ CASE dialog.answer = Lost -> React(Failed(ed)) /\ dialog' = NoSave /\ UNCHANGED stage
       [] dialog.answer = Missing /\ ed.pending -> dialog' = NoSave /\ UNCHANGED <<ed, stage>>
       [] dialog.answer = Missing /\ ~ed.pending ->
            Stage(ed, "dialog", dialog.note, dialog.text) /\ dialog' = [dialog EXCEPT !.pc = "staging"]
       [] dialog.answer \notin {Lost, Missing} ->
            /\ dialog' = NoSave /\ UNCHANGED stage
            /\ React(IF ed.active # dialog.note THEN ed
                     ELSE IF ed.content # dialog.text
                          THEN [ed EXCEPT !.revision = dialog.answer, !.dirty = TRUE, !.failed = FALSE,
                                  !.stale = [mine |-> ed.content, disk |-> dialog.answer]]
                          ELSE [ed EXCEPT !.revision = dialog.answer, !.dirty = FALSE, !.skip = TRUE,
                                  !.stale = NoStale, !.failed = FALSE])
  /\ UNCHANGED <<disk, git, save, opener, reload, poll, processed, ghosts, spent>>

-----------------------------------------------------------------------------
(* loadNote: flush, read, flush, apply. *)

loadNote(n) ==
  /\ opener.pc = "none" /\ n # ed.active /\ ed.stale = NoStale /\ Click
  /\ opener' = [NoOpener EXCEPT !.pc = "flush", !.note = n]
  /\ reload' = [reload EXCEPT !.live = FALSE]
  /\ UNCHANGED <<disk, git, ed, save, stage, dialog, poll, processed, ghosts>>

\* flushPendingSave, until nothing is left to save.
Flush ==
  /\ opener.pc \in {"flush", "last"} /\ save.pc = "none"
  /\ IF Recovering(ed) THEN opener' = NoOpener /\ React(Failed(ed)) /\ UNCHANGED <<save, known>>
     ELSE IF ed.dirty THEN React(Sending(ed)) /\ Send(ed) /\ UNCHANGED opener
     ELSE opener.pc = "flush" /\ opener' = [opener EXCEPT !.pc = "get"] /\ UNCHANGED <<ed, save, known>>
  /\ UNCHANGED <<disk, git, stage, dialog, reload, poll, processed, typed, odd, spent>>

OpenerRead ==
  /\ opener.pc = "get"
  /\ \/ /\ UNCHANGED spent
        /\ opener' = IF disk[opener.note] = Missing THEN NoOpener
                     ELSE [opener EXCEPT !.pc = "last", !.answer = disk[opener.note]]
     \/ Fault /\ opener' = NoOpener
  /\ UNCHANGED <<disk, git, ed, save, stage, dialog, reload, poll, processed, ghosts>>

OpenerApply ==
  /\ opener.pc = "last" /\ save.pc = "none" /\ ~ed.dirty /\ ~Recovering(ed)
  /\ opener' = NoOpener /\ Apply(opener.note, opener.answer, FALSE)
  /\ UNCHANGED <<disk, git, save, stage, dialog, reload, poll, processed, typed, spent>>

-----------------------------------------------------------------------------
(* processChangedPaths *)

\* The tree is read anew; then the open note is staged or read again.
Mark == reload' = NoReload /\ processed' = processed \cup {reload.op}

ReloadTree ==
  /\ reload.pc = "tree"
  /\ CASE ed.active # reload.path \/ ed.stale # NoStale \/ (ed.dirty /\ ed.pending) ->
            Mark /\ UNCHANGED <<ed, stage>>
       [] ed.active = reload.path /\ ed.stale = NoStale /\ ed.dirty /\ ~ed.pending ->
            /\ Stage(ed, "reload", ed.active, 0) /\ reload' = [reload EXCEPT !.pc = "staging"]
            /\ UNCHANGED processed
       [] ed.active = reload.path /\ ed.stale = NoStale /\ ~ed.dirty ->
            /\ reload' = [reload EXCEPT !.pc = "get", !.note = ed.active, !.live = TRUE, !.text = ed.content]
            /\ UNCHANGED <<ed, stage, processed>>
  /\ UNCHANGED <<disk, git, save, dialog, opener, poll, ghosts, spent>>

ReloadRead ==
  /\ reload.pc = "get"
  /\ \/ UNCHANGED spent /\ reload' = [reload EXCEPT !.pc = "got", !.answer = disk[reload.note]]
     \/ Fault /\ reload' = NoReload
  /\ UNCHANGED <<disk, git, ed, save, stage, dialog, opener, poll, processed, ghosts>>

\* What was typed or saved since the read began is not looked at.
ReloadApply ==
  /\ reload.pc = "got"
  /\ LET races == ed.dirty \/ ed.content # reload.text \/ save.pc # "none" IN
     IF ~reload.live \/ ed.active # reload.note
     THEN reload' = NoReload /\ UNCHANGED <<ed, save, stage, processed, opener, known, odd>>
     ELSE /\ Mark
          /\ IF reload.answer = Missing THEN Reset(races) /\ opener' = NoOpener
             ELSE Apply(reload.note, reload.answer, races) /\ UNCHANGED <<save, stage, opener>>
  /\ UNCHANGED <<disk, git, dialog, poll, typed, spent>>

-----------------------------------------------------------------------------
(* The poller.  A refresh makes the run under way stale and queues a new    *)
(* one behind it; runs that are stale before they begin leave no trace.     *)

PollRead ==
  /\ poll.pc = "loading"
  /\ \/ /\ UNCHANGED spent
        /\ poll' = [poll EXCEPT !.pc = "answered", !.op = git.op,
                      !.path = IF git.terminal THEN git.path ELSE None]
     \/ Fault /\ poll' = [poll EXCEPT !.pc = "ends"]
  /\ UNCHANGED <<disk, git, ed, requests, processed, ghosts>>

PollAnswered ==
  /\ poll.pc = "answered"
  /\ poll' = [poll EXCEPT !.pc = "ends"]
  /\ reload' = IF poll.current /\ poll.path # None /\ poll.op \notin processed
               THEN [NoReload EXCEPT !.op = poll.op, !.path = poll.path,
                       !.pc = IF save.pc # "none" THEN "wait" ELSE "tree"]
               ELSE reload
  /\ UNCHANGED <<disk, git, ed, save, stage, dialog, opener, processed, ghosts, spent>>

\* Variant: the timer is set whatever came between.
Always == TRUE

stillCurrent == poll.current

\* A run ends when its callbacks have: the newest one sets the timer.
PollEnds ==
  /\ poll.pc = "ends" /\ reload.pc = "none"
  /\ poll' = [NoPoll EXCEPT !.pc = IF poll.queued THEN "loading" ELSE "none", !.timer = stillCurrent]
  /\ UNCHANGED <<disk, git, ed, requests, processed, ghosts, spent>>

PollTimer ==
  /\ poll.timer
  /\ poll' = IF poll.pc = "none" THEN [NoPoll EXCEPT !.pc = "loading"]
             ELSE [poll EXCEPT !.timer = FALSE, !.queued = TRUE]
  /\ UNCHANGED <<disk, git, ed, requests, processed, ghosts, spent>>

refresh ==
  /\ Click
  /\ poll' = IF poll.pc = "none" THEN [NoPoll EXCEPT !.pc = "loading"]
             ELSE [poll EXCEPT !.current = FALSE, !.queued = TRUE, !.timer = FALSE]
  /\ UNCHANGED <<disk, git, ed, requests, processed, ghosts>>

-----------------------------------------------------------------------------
Browser == \/ TimerFires \/ SaveAnswered \/ StageDone \/ DialogAnswered \/ Flush \/ OpenerApply
           \/ ReloadTree \/ ReloadApply \/ PollAnswered \/ PollEnds \/ PollTimer
Network == PutSave \/ PutDialog \/ StageRead \/ OpenerRead \/ ReloadRead \/ PollRead
User    == Type \/ saveNow \/ LoadDisk \/ saveStaleNote \/ refresh \/ \E n \in Notes : loadNote(n)

Next == \/ Browser \/ Network \/ User \/ LoseSave \/ LoseDialog \/ Publish
        \/ \E n \in Notes : Pull(n)

Spec == Init /\ [][Next]_vars

(* Requests are answered, timers fire and a synchronisation ends; nothing   *)
(* is asked of the user.                                                    *)
Fairness ==
  /\ WF_vars(PutSave \/ SaveAnswered) /\ WF_vars(PutDialog \/ DialogAnswered)
  /\ WF_vars(StageRead \/ StageDone) /\ WF_vars(TimerFires)
  /\ WF_vars(Flush \/ OpenerRead \/ OpenerApply)
  /\ WF_vars(ReloadTree \/ ReloadRead \/ ReloadApply)
  /\ WF_vars(PollRead \/ PollAnswered \/ PollEnds \/ PollTimer) /\ WF_vars(Publish)

FairSpec == Spec /\ Fairness

-----------------------------------------------------------------------------
(* Nothing is overwritten blindly: a text replaces on the server only what  *)
(* the editor has shown as this note's, or has sent itself.                 *)
Overwrites(r, rr) == r.pc = "sent" /\ rr.pc = "done" /\ disk[r.note] # disk'[r.note]

NoBlindOverwrite ==
  [][/\ Overwrites(save, save') /\ ~odd => disk[save.note] \in save.known
     /\ Overwrites(dialog, dialog') /\ ~odd => disk[dialog.note] \in dialog.known]_vars

(* What was typed is kept: the newest typed text that is not on disk is in  *)
(* the editor, marked as unsaved, or in the dialog; only the user drops it. *)
TypedIsKept ==
  typed # 0 /\ ~odd => (ed.dirty \/ Recovering(ed)) /\ typed \in {ed.content, ed.stale.mine}

(* The poller neither stops nor doubles: always one current run, or the     *)
(* timer for the next one.                                                  *)
PollsOnce ==
  (poll.pc # "none" /\ poll.current /\ ~poll.queued /\ ~poll.timer)
  \/ (poll.pc # "none" /\ ~poll.current /\ poll.queued /\ ~poll.timer)
  \/ (poll.pc = "none" /\ poll.timer)

(* What was typed is saved at last, unless the dialog opens or an error is  *)
(* shown.                                                                   *)
EditsEndUp ==
  \A t \in 3 .. MaxTexts + 2 :
    typed = t ~> typed # t \/ ed.stale # NoStale \/ ed.failed \/ odd

(* A change that a synchronisation reports is dealt with at last, unless    *)
(* the next one begins: no wait of the reload and the poller is for ever.   *)
Reported(op) == git.op = op /\ git.terminal

ChangesAreTaken ==
  \A op \in 1 .. MaxSyncs : Reported(op) ~> op \in processed \/ git.op # op
=============================================================================
