------------------------------- MODULE Inbox -------------------------------
(***************************************************************************)
(* The inbox of a job as the code holds it: what the turn in flight has    *)
(* been given, and what waits, front first.  Each operation is a method of *)
(* the code's type, and the whole implements Mailbox, whose operators the  *)
(* specification of a job is built from.                                   *)
(***************************************************************************)
EXTENDS Integers, Sequences

CONSTANT Limit    (* messages that arrive                                  *)

ASSUME InboxAssumption == Limit \in Nat

VARIABLES
  given,    (* in hand: what the turn in flight has been given              *)
  waiting,  (* not yet given, the front next                                *)
  arrived,  (* how many messages have arrived so far                        *)
  answer    (* what the last operation answered with                        *)

vars == <<given, waiting, arrived, answer>>

Init ==
  /\ given = <<>>
  /\ waiting = <<>>
  /\ arrived = 0
  /\ answer = <<>>

receive ==
  /\ arrived < Limit
  /\ arrived' = arrived + 1
  /\ waiting' = Append(waiting, arrived')
  /\ answer' = <<>>
  /\ UNCHANGED given

give ==
  /\ \/ /\ waiting # <<>>
        /\ given' = Append(given, Head(waiting))
        /\ waiting' = Tail(waiting)
        /\ answer' = <<Head(waiting)>>
     \/ /\ waiting = <<>>
        /\ answer' = <<>>
        /\ UNCHANGED <<given, waiting>>
  /\ UNCHANGED arrived

\* A mistake: handed back behind what has arrived since.
HandsBackBehind ==
  /\ \/ /\ given # <<>>
        /\ waiting' = Append(waiting, given[Len(given)])
        /\ given' = SubSeq(given, 1, Len(given) - 1)
     \/ /\ given = <<>>
        /\ UNCHANGED <<given, waiting>>
  /\ answer' = <<>>
  /\ UNCHANGED arrived

hand_back ==
  /\ \/ /\ given # <<>>
        /\ waiting' = <<given[Len(given)]>> \o waiting
        /\ given' = SubSeq(given, 1, Len(given) - 1)
     \/ /\ given = <<>>
        /\ UNCHANGED <<given, waiting>>
  /\ answer' = <<>>
  /\ UNCHANGED arrived

finish ==
  /\ answer' = given
  /\ given' = <<>>
  /\ UNCHANGED <<waiting, arrived>>

drain ==
  /\ answer' = given \o waiting
  /\ given' = <<>>
  /\ waiting' = <<>>
  /\ UNCHANGED arrived

Next == receive \/ give \/ hand_back \/ finish \/ drain

Spec == Init /\ [][Next]_vars

----------------------------------------------------------------------------
(* Correctness. *)

Whole == INSTANCE Mailbox WITH
           box <- [mail |-> given \o waiting, given |-> Len(given)]

\* Every message is an arrival, in hand or waiting.
TypeOK ==
  /\ given \in Seq(1..arrived)
  /\ waiting \in Seq(1..arrived)
  /\ arrived \in 0..Limit
  /\ answer \in Seq(1..arrived)

\* The two sequences, one after the other, are the one sequence Mailbox keeps,
\* and every method of the code's type does to it, and answers with, what
\* Mailbox says: so what module Job says of an inbox, built from the same
\* operators, it says of the one the code has.
Implements == Whole!Spec

=============================================================================
