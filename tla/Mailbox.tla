------------------------------ MODULE Mailbox ------------------------------
(***************************************************************************)
(* What an inbox promises: one sequence of messages in order of arrival,   *)
(* and what each operation answers with.  Module Inbox implements it.      *)
(***************************************************************************)
EXTENDS Mail

CONSTANT Limit    (* messages that arrive                                  *)

VARIABLES
  box,      (* the messages, and how many of them are in hand               *)
  arrived,  (* how many have arrived so far                                 *)
  answer    (* what the last operation answered with                        *)

vars == <<box, arrived, answer>>

Init ==
  /\ box = [mail |-> <<>>, given |-> 0]
  /\ arrived = 0
  /\ answer = <<>>

Arrives ==
  /\ arrived < Limit
  /\ arrived' = arrived + 1
  /\ box' = Receive(box, arrived')
  /\ answer' = <<>>

\* The oldest message waiting is given, and named.
Gives ==
  /\ \/ /\ HasNext(box)
        /\ box' = Give(box)
        /\ answer' = <<LastGiven(box')>>
     \/ /\ ~HasNext(box)
        /\ answer' = <<>>
        /\ UNCHANGED box
  /\ UNCHANGED arrived

HandsBack ==
  /\ box' = HandBack(box)
  /\ answer' = <<>>
  /\ UNCHANGED arrived

\* What was in hand is answered with, the oldest first.
Finishes ==
  /\ box' = Finish(box)
  /\ answer' = SubSeq(box.mail, 1, box.given)
  /\ UNCHANGED arrived

\* Everything is answered with, the oldest first.
Drains ==
  /\ box' = Drain(box)
  /\ answer' = box.mail
  /\ UNCHANGED arrived

Next == Arrives \/ Gives \/ HandsBack \/ Finishes \/ Drains

Spec == Init /\ [][Next]_vars

=============================================================================
