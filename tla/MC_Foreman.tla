----------------------------- MODULE MC_Foreman -----------------------------
(***************************************************************************)
(* Small instances of Foreman for TLC.                                     *)
(***************************************************************************)
EXTENDS Foreman

\* Which messages are said inside a thread.
NoThreads    == {}
SecondThread == {2}
FirstTwo     == {1, 2}

\* Whether the foreman's room is there already.
Roomed    == {TRUE}
Unroomed  == {FALSE}
EitherWay == BOOLEAN
=============================================================================
