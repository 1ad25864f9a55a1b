------------------------------ MODULE Exchange ------------------------------
(***************************************************************************)
(* What a turn relies on of the conversation it holds: a question is put    *)
(* once the session is settled, messages are handed over one at a time to   *)
(* a question that has been put, and an answer is to the question.          *)
(***************************************************************************)
EXTENDS Integers

VARIABLES
  phase,    (* "Opening", "Prompting" or "Over"                             *)
  handing,  (* whether a message is being handed over                       *)
  answered  (* whether it ended with an answer                              *)

Init == phase = "Opening" /\ ~handing /\ ~answered

Put ==
  /\ phase = "Opening"
  /\ phase' = "Prompting"
  /\ UNCHANGED <<handing, answered>>

Hand ==
  /\ phase = "Prompting" /\ ~handing
  /\ handing' = TRUE
  /\ UNCHANGED <<phase, answered>>

\* What became of it is said while the question is still open.
Told ==
  /\ phase = "Prompting" /\ handing
  /\ handing' = FALSE
  /\ UNCHANGED <<phase, answered>>

End ==
  /\ phase # "Over"
  /\ phase' = "Over"
  /\ answered' \in {FALSE, phase = "Prompting"}
  /\ UNCHANGED handing

Next == Put \/ Hand \/ Told \/ End

Spec == Init /\ [][Next]_<<phase, handing, answered>>

=============================================================================
