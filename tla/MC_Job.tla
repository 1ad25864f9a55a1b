------------------------------- MODULE MC_Job -------------------------------
(***************************************************************************)
(* Small instances of Job for TLC.                                         *)
(***************************************************************************)
EXTENDS Job

\* Which messages are said inside a thread.
NoThreads       == {}
FirstThread     == {1}
FirstTwoThreads == {1, 2}
=============================================================================
