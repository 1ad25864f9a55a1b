--------------------------- MODULE MC_Conversation ---------------------------
(* Instances of Conversation for TLC.                                       *)
EXTENDS Conversation

\* The model may be the one asked for already; the effort may not be there yet.
Few == {[o \in Option |-> "Other"],
        [o \in Option |-> IF o = Options THEN "None" ELSE "Asked"]}

=============================================================================
