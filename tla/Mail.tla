-------------------------------- MODULE Mail -------------------------------
(***************************************************************************)
(* The messages sent to a job, as one sequence in order of arrival.  The   *)
(* first j.given of them are in hand, given to the turn in flight, and the *)
(* rest wait: giving a message and handing it back move that boundary by   *)
(* one.  j is any record with these two fields.                            *)
(***************************************************************************)
EXTENDS Integers, Sequences

Receive(j, m) == [j EXCEPT !.mail = Append(@, m)]

HasNext(j) == j.given < Len(j.mail)

Give(j) == [j EXCEPT !.given = @ + 1]

LastGiven(j) == j.mail[j.given]

InHand(j) == {j.mail[i] : i \in 1..j.given}

Held(j) == {j.mail[i] : i \in 1..Len(j.mail)}

\* A mistake: handing back to the wrong end of what waits.
HandsBackLast(j) ==
  IF j.given = 0 THEN j
  ELSE [j EXCEPT !.mail = SubSeq(@, 1, j.given - 1)
                            \o SubSeq(@, j.given + 1, Len(@)) \o <<@[j.given]>>,
                 !.given = @ - 1]

HandBack(j) == IF j.given = 0 THEN j ELSE [j EXCEPT !.given = @ - 1]

\* A mistake: the turn's end forgets which messages it had been given.
FinishesNothing(j) == [j EXCEPT !.given = 0]

Finish(j) == [j EXCEPT !.mail = SubSeq(@, j.given + 1, Len(@)), !.given = 0]

Drain(j) == [j EXCEPT !.mail = <<>>, !.given = 0]

=============================================================================
