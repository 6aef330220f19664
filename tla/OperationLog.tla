---------------------------- MODULE OperationLog ----------------------------
(***************************************************************************)
(* What the journal of Git operations promises the rest of the program.    *)
(* Every base has a log.  An operation enters it queued, and only while no *)
(* other is unfinished; it runs, and ends once; what ended never changes,  *)
(* and an operation that succeeded with commits to deliver delivered them. *)
(***************************************************************************)
EXTENDS Naturals, Sequences

CONSTANT Bases

VARIABLE log      \* of every base, the states of its operations, oldest first

Finals == {"succeeded", "failed", "conflict"}

Unfinished(b) == {i \in DOMAIN log[b] : log[b][i] \notin Finals}

Init == log \in [Bases -> {<<>>, <<"succeeded">>}]

Submit(b) == /\ Unfinished(b) = {}
             /\ log' = [log EXCEPT ![b] = Append(@, "queued")]

Move(b, i, states) == /\ i \in Unfinished(b)
                      /\ \E state \in states : log' = [log EXCEPT ![b][i] = state]

Run(b, i)    == Move(b, i, {"running"})
Finish(b, i) == Move(b, i, Finals)

Next == \E b \in Bases : \/ Submit(b)
                         \/ \E i \in DOMAIN log[b] : Run(b, i) \/ Finish(b, i)

Spec == Init /\ [][Next]_log
=============================================================================
