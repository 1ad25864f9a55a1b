-------------------------------- MODULE Page --------------------------------
(***************************************************************************)
(* How an open page learns of change: the world bumps a version as a write of *)
(* the instance's file lands, a stream hands each bump to the page as a tick   *)
(* that carries nothing, and the page reads again. The stream breaks, and is     *)
(* reopened after a pause; a page's read is an event with an identifier of its      *)
(* own, and the answer that carries another is for nobody.                        *)
(***************************************************************************)
EXTENDS Naturals, Sequences

CONSTANTS
  MaxEdits,        (* changes to what the page shows                        *)
  MaxBreaks,       (* times the stream breaks                               *)
  FirstIsLate      (* whether a write lands before the first stream opens     *)

PageAssumption == {MaxEdits, MaxBreaks} \subseteq Nat /\ FirstIsLate \in BOOLEAN

Nobody == 0

VARIABLES
  now,         (* what the instance holds, counted in changes               *)
  landed,      (* what the last write that landed held                      *)
  stream,      (* "Shut", "Due" or "Open"                                   *)
  seen,        (* the version the stream's receiver has seen                *)
  frames,      (* frames sent and not yet read                              *)
  again,       (* whether a stream ended before                             *)
  connected,   (* the mark: "Unknown", "Live" or "NotLive"                   *)
  next,        (* the last identifier minted                                *)
  reading,     (* the read the page waits on, by identifier                 *)
  answers,     (* answers on their way, each with its identifier              *)
  shown,       (* what the page shows                                       *)
  breaks

vars == <<now, landed, stream, seen, frames, again, connected, next, reading, answers, shown,
          breaks>>

TypeOK ==
  /\ {now, landed, seen, shown} \subseteq 0..MaxEdits /\ landed <= now /\ seen <= landed
  /\ stream \in {"Shut", "Due", "Open"} /\ frames \in Seq({"open", "tick"})
  /\ again \in BOOLEAN /\ connected \in {"Unknown", "Live", "NotLive"}
  /\ reading \in 0..next /\ breaks \in 0..MaxBreaks

\* The page is read while it renders, and arrives complete.
Init ==
  /\ now = 0 /\ landed = 0 /\ stream = "Due" /\ seen = 0 /\ frames = <<>>
  /\ again = FALSE /\ connected = "Unknown"
  /\ next = 0 /\ reading = Nobody /\ answers = {} /\ shown = 0 /\ breaks = 0

Change ==
  /\ now < MaxEdits /\ now' = now + 1
  /\ FirstIsLate \/ again \/ stream = "Open"
  /\ UNCHANGED <<landed, stream, seen, frames, again, connected, next, reading, answers, shown,
                 breaks>>

\* A write holds what there is as it begins; one that lands says what it held.
Lands ==
  /\ landed < now
  /\ landed' \in landed+1..now
  /\ UNCHANGED <<now, stream, seen, frames, again, connected, next, reading, answers, shown,
                 breaks>>

\* The stream opens having seen every write before it, and says that it is open.
Opens ==
  /\ stream = "Due"
  /\ stream' = "Open" /\ seen' = landed /\ frames' = <<"open">>
  /\ UNCHANGED <<now, landed, again, connected, next, reading, answers, shown, breaks>>

\* Bumps since the last tick are one.
Ticks ==
  /\ stream = "Open" /\ seen # landed
  /\ seen' = landed /\ frames' = Append(frames, "tick")
  /\ UNCHANGED <<now, landed, stream, again, connected, next, reading, answers, shown, breaks>>

\* The page reads again: what it waited on before is waited on no longer.
Reads == next' = next + 1 /\ reading' = next + 1
Keeps == UNCHANGED <<next, reading>>

OnTicks(frame) == frame = "tick"
ReadsOn(frame) == OnTicks(frame) \/ again

Follows ==
  /\ stream = "Open" /\ frames # <<>>
  /\ frames' = Tail(frames)
  /\ connected' = IF Head(frames) = "open" THEN "Live" ELSE connected
  /\ IF ReadsOn(Head(frames)) THEN Reads ELSE Keeps
  /\ UNCHANGED <<now, landed, stream, seen, again, answers, shown, breaks>>

\* The instance answers with what it holds, under the identifier it was asked by.
Answers ==
  /\ reading # Nobody /\ ~\E answer \in answers : answer.id = reading
  /\ answers' = answers \union {[id |-> reading, holds |-> now]}
  /\ UNCHANGED <<now, landed, stream, seen, frames, again, connected, next, reading, shown,
                 breaks>>

\* An answer reaches whoever waits for it, and otherwise has nowhere to go.
Shows ==
  \E answer \in answers :
    /\ answers' = answers \ {answer}
    /\ IF answer.id = reading THEN shown' = answer.holds /\ reading' = Nobody
       ELSE UNCHANGED <<shown, reading>>
    /\ UNCHANGED <<now, landed, stream, seen, frames, again, connected, next, breaks>>

\* The daemon goes from under the page: its stream ends and its read fails.
Breaks ==
  /\ stream = "Open" /\ breaks < MaxBreaks /\ breaks' = breaks + 1
  /\ stream' = "Shut" /\ frames' = <<>> /\ again' = TRUE
  /\ reading' = Nobody /\ answers' = {}
  /\ UNCHANGED <<now, landed, seen, connected, next, shown>>

\* A while later it is asked for again.
Pauses ==
  /\ stream = "Shut"
  /\ stream' = "Due" /\ connected' = "NotLive"
  /\ UNCHANGED <<now, landed, seen, frames, again, next, reading, answers, shown, breaks>>

Step == Lands \/ Opens \/ Ticks \/ Follows \/ Answers \/ Shows \/ Pauses

Next == Change \/ Breaks \/ Step

Spec == Init /\ [][Next]_vars /\ WF_vars(Lands) /\ WF_vars(Opens) /\ WF_vars(Ticks)
        /\ WF_vars(Follows) /\ WF_vars(Answers) /\ WF_vars(Shows) /\ WF_vars(Pauses)

\* A page that shows what is no longer so comes to show what is (docs/decisions/0071:
\* "a tick missed between two connections costs one read").
CatchesUp == (shown # now) ~> (shown = now)
=============================================================================
