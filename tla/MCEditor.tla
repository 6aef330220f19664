------------------------------ MODULE MCEditor ------------------------------
(* The instance of NoteEditor that TLC checks. *)
EXTENDS NoteEditor
=============================================================================
