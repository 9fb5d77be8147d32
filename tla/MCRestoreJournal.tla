-------------------------- MODULE MCRestoreJournal --------------------------
(* RestoreJournal with the two processes of the app. *)
EXTENDS RestoreJournal

CONSTANTS main, bg

Processes == {main, bg}

=============================================================================
