------------------------------- MODULE Calls -------------------------------
(***************************************************************************)
(* What the tools endpoint does with the calls of the agents it runs: the  *)
(* head of a request kept until its body is read, the warrant it presents  *)
(* judged then, and what each tool does and answers -- at once, with the   *)
(* platform's answer to a post, or once what it changed is on the disk.    *)
(* Beside it, what a call meets: turns that start, end and are abandoned   *)
(* with the write they waited on, writes that land and fail, and an        *)
(* instance that dies.                                                     *)
(*                                                                         *)
(* Agents call concurrently, an old turn's as well as a running one's, so  *)
(* a body can arrive any number of turns after its head. What is said, on  *)
(* which kit a job is begun and what the tools are described as is left    *)
(* out; the credential a wrapper asks for on the same listener is in       *)
(* module Credentials.                                                     *)
(***************************************************************************)
EXTENDS Naturals, Sequences, FiniteSets

CONSTANTS
  Requests,     (* calls made in one behaviour                              *)
  Projects,
  Jobs,         (* the jobs of those projects, whosever                     *)
  Rooms,        (* the rooms there are, beside each foreman's own           *)
  MaxTurns,     (* turns taken, by all the speakers                         *)
  MaxSaving,    (* writes in flight at once                                 *)
  MaxMishaps,   (* writes that fail, and times the instance dies             *)
  AnyAnswer     (* whether "already watching" is taken for a promise        *)

CallsAssumption ==
  /\ {MaxTurns, MaxSaving, MaxMishaps} \subseteq Nat
  /\ IsFiniteSet(Requests) /\ AnyAnswer \in BOOLEAN

Speakers == Projects \union Jobs
\* A foreman's own room goes by its project's name.
Own(p)   == p
AllRooms == Rooms \union {Own(p) : p \in Projects}

\* A warrant is the turn it was minted for, and where that was asked: a
\* room, for a foreman's.
Warrants == [speaker : Speakers, turn : 1..MaxTurns, place : AllRooms]

VARIABLES
  turns,     (* how many turns have been taken                              *)
  running,   (* the running turns: which each is, and what it has claimed, by whose warrant *)
  warrants,  (* the warrants that buy something                             *)
  handed,    (* history: those an agent was run with                        *)
  kept,      (* the rooms each project watches, and the calls that began a job *)
  disk,      (* the same, on the disk                                       *)
  saving,    (* the writes in flight, each with what waits on it            *)
  calls,     (* each call: where it is, what it presents, what it came to   *)
  latest,    (* history: the last call that changed whether a room is watched *)
  mishaps

vars == <<turns, running, warrants, handed, kept, disk, saving, calls, latest, mishaps>>

Nothing == [watched |-> [p \in Projects |-> {}], begun |-> {}]
NoTurns == [s \in {} |-> 0]
Free    == [at |-> "Free", bearer |-> {}, came |-> "Nothing", room |-> {}]

Init ==
  /\ turns = 0
  /\ running = NoTurns
  /\ warrants = {} /\ handed = {}
  /\ kept = Nothing /\ disk = Nothing
  /\ saving = <<>>
  /\ calls = [r \in Requests |-> Free]
  /\ latest = [p \in Projects |-> [room \in AllRooms |-> {}]]
  /\ mishaps = 0

Running(s) == s \in DOMAIN running
Of(s)      == {w \in warrants : w.speaker = s}

----------------------------------------------------------------------------
(* The write a step ends with, and what waits on it.                        *)

\* A step that changed something is written, and what it held back waits on
\* that; what another held back goes at once.
Written(answers, starts) ==
  /\ Len(saving) < MaxSaving
  /\ saving' = Append(saving, [kept |-> kept', answers |-> answers, starts |-> starts])

\* How a call is answered, or held, in the step that decides it.
Came(r, at, came, room) ==
  [calls EXCEPT ![r] = [at |-> at, bearer |-> {}, came |-> came, room |-> room]]
Answered(r) == Came(r, "Answered", "Said", {})

\* A turn's first command has gone out, so its agent has its warrant.
Begins(starts) == handed' = handed \union {w \in warrants : w.speaker \in starts}

Lands ==
  /\ saving # <<>>
  /\ LET landed == Head(saving) IN
       /\ disk' = landed.kept
       /\ calls' = [r \in Requests |-> IF r \in landed.answers
                                       THEN [calls[r] EXCEPT !.at = "Answered"] ELSE calls[r]]
       /\ Begins(landed.starts)
  /\ saving' = Tail(saving)
  /\ UNCHANGED <<turns, running, warrants, kept, latest, mishaps>>

\* What waited on a write that failed: a turn's first command is not given,
\* and the turn abandoned; an answer is dropped.
Fails ==
  /\ saving # <<>> /\ mishaps < MaxMishaps /\ mishaps' = mishaps + 1
  /\ LET failed == Head(saving) IN
       /\ calls' = [r \in Requests |-> IF r \in failed.answers
                                       THEN [calls[r] EXCEPT !.at = "Lost"] ELSE calls[r]]
       /\ running' = [s \in DOMAIN running \ failed.starts |-> running[s]]
       /\ warrants' = {w \in warrants : w.speaker \notin failed.starts}
       \* A job abandoned is recorded as failed, which is a change of its own.
       /\ saving' = IF failed.starts \intersect Jobs = {} THEN Tail(saving)
                    ELSE Append(Tail(saving), [kept |-> kept, answers |-> {}, starts |-> {}])
  /\ UNCHANGED <<turns, handed, kept, disk, latest>>

\* The instance dies, and wakes with what is on the disk: no turn, no
\* warrant and no connection is left of before.
Dies ==
  /\ mishaps < MaxMishaps /\ mishaps' = mishaps + 1
  /\ kept' = disk /\ saving' = <<>>
  /\ running' = NoTurns /\ warrants' = {}
  /\ calls' = [r \in Requests |-> IF calls[r].at \in {"Free", "Answered", "Lost"}
                                  THEN calls[r] ELSE [Free EXCEPT !.at = "Gone"]]
  /\ UNCHANGED <<turns, handed, disk, latest>>

----------------------------------------------------------------------------
(* Turns.                                                                   *)

\* Where a turn is asked: a job's in its room, of which nothing is asked here.
Asked(s) == IF s \in Projects THEN Rooms \union {Own(s)} ELSE {CHOOSE room \in Rooms : TRUE}

\* A turn is registered, and a warrant minted for it that replaces whatever
\* its speaker held. Its first command waits on this step's write, or where
\* it changed nothing on the last one in flight.
TurnStarts(s, place, recorded) ==
  /\ ~Running(s) /\ turns < MaxTurns
  /\ place \in Asked(s)
  /\ turns' = turns + 1
  /\ running' = [t \in DOMAIN running \union {s} |->
                   IF t = s THEN [turn |-> turns', claims |-> {}] ELSE running[t]]
  /\ warrants' = (warrants \ Of(s)) \union {[speaker |-> s, turn |-> turns', place |-> place]}
  /\ kept' = kept
  /\ \/ recorded /\ Written({}, {s}) /\ UNCHANGED handed
     \/ /\ ~recorded /\ saving # <<>>
        /\ saving' = [saving EXCEPT ![Len(saving)].starts = @ \union {s}]
        /\ UNCHANGED handed
     \/ /\ ~recorded /\ saving = <<>>
        /\ handed' = handed \union (warrants' \ warrants)
        /\ UNCHANGED saving
  /\ UNCHANGED <<disk, calls, latest, mishaps>>

\* A turn that ends buys nothing more.
Withdrawn(s) == warrants \ Of(s)

\* A turn under way ends, however it does, and its end is recorded.
TurnEnds(s) ==
  /\ Running(s) /\ Of(s) \subseteq handed
  /\ running' = [t \in DOMAIN running \ {s} |-> running[t]]
  /\ warrants' = Withdrawn(s)
  /\ kept' = kept /\ Written({}, {})
  /\ UNCHANGED <<turns, handed, disk, calls, latest, mishaps>>

----------------------------------------------------------------------------
(* A call.                                                                  *)

\* Its head: what it presented is kept, and judged once the body is there.
Called(r, w) ==
  /\ calls[r].at = "Free"
  /\ calls' = [calls EXCEPT ![r].at = "Reading", ![r].bearer = {w}]
  /\ UNCHANGED <<turns, running, warrants, handed, kept, disk, saving, latest, mishaps>>

\* A path or a method that is none of the endpoint's, refused at its head.
Elsewhere(r) ==
  /\ calls[r].at = "Free"
  /\ calls' = Answered(r)
  /\ UNCHANGED <<turns, running, warrants, handed, kept, disk, saving, latest, mishaps>>

\* Whom a call speaks for: nobody, for a warrant that buys nothing now.
Warranted(r) == calls[r].bearer \intersect warrants

\* A body that cannot be read, is no call, or comes with a warrant this
\* instance does not hold.
Refused(r) ==
  /\ calls[r].at = "Reading"
  /\ calls' = Answered(r)
  /\ UNCHANGED <<turns, running, warrants, handed, kept, disk, saving, latest, mishaps>>

\* A greeting, a listing, a notification, and a tool there is none of or that
\* is not this bearer's: answered, and nothing changes.
Told(r) ==
  /\ calls[r].at = "Reading" /\ Warranted(r) # {}
  /\ calls' = Answered(r)
  /\ UNCHANGED <<turns, running, warrants, handed, kept, disk, saving, latest, mishaps>>

\* Which tools a bearer is offered, and may call.
Offered(s) ==
  {"say"} \union (IF s \in Jobs THEN {"stopping"}
                 ELSE {"start_job", "watch_room", "stop_watching"})
MayCall(r, w, tool) ==
  calls[r].at = "Reading" /\ w \in Warranted(r) /\ tool \in Offered(w.speaker)

\* A job says why it is stopping, of the turn it has running.
stopping_because(r, w) ==
  /\ MayCall(r, w, "stopping")
  /\ calls' = Answered(r)
  /\ \/ /\ Running(w.speaker)
        /\ running' = [running EXCEPT ![w.speaker].claims = @ \union calls[r].bearer]
     \/ ~Running(w.speaker) /\ UNCHANGED running
  /\ UNCHANGED <<turns, warrants, handed, kept, disk, saving, latest, mishaps>>

\* Something is said, in a room of the speaker's own or, for a foreman, one
\* it names: answered when the platform has answered the post, or the post
\* was dropped with the write it waited on.
saying(r, w) ==
  /\ MayCall(r, w, "say")
  /\ calls' = Came(r, "Asking", "Nothing", {})
  /\ UNCHANGED <<turns, running, warrants, handed, kept, disk, saving, latest, mishaps>>

posted(r) ==
  /\ calls[r].at = "Asking"
  /\ calls' = Answered(r)
  /\ UNCHANGED <<turns, running, warrants, handed, kept, disk, saving, latest, mishaps>>

\* A foreman begins a job: recorded, and answered once the record is on the
\* disk.
starting_a_job(r, w) ==
  /\ MayCall(r, w, "start_job")
  /\ kept' = [kept EXCEPT !.begun = @ \union {r}]
  /\ calls' = Came(r, "Held", "Started", {}) /\ Written({r}, {})
  /\ UNCHANGED <<turns, running, warrants, handed, disk, latest, mishaps>>

\* A room is named from the foreman's own only; naming the room the turn was
\* asked in is naming none.
MayName(w, room) == room = w.place \/ w.place = Own(w.speaker)

WatchedElsewhere(p, room) == \E q \in Projects \ {p} : room \in kept.watched[q]

\* A foreman watches a room, or stops: changed, and answered once that is
\* on the disk, or found as it was asked to be, and answered at once.
watching(r, w, room, starts) ==
  LET p == w.speaker IN
  /\ MayCall(r, w, IF starts THEN "watch_room" ELSE "stop_watching")
  /\ MayName(w, room) /\ ~(starts /\ WatchedElsewhere(p, room))
  /\ LET changes == starts # (room \in kept.watched[p])
         came    == IF starts THEN "Watching" ELSE "Not"
     IN  \/ /\ changes
            /\ kept' = [kept EXCEPT !.watched[p] = IF starts THEN @ \union {room} ELSE @ \ {room}]
            /\ calls' = Came(r, "Held", came, {room})
            /\ latest' = [latest EXCEPT ![p][room] = {r}]
            /\ Written({r}, {})
         \/ /\ ~changes
            /\ calls' = Came(r, "Answered", came, {room})
            /\ latest' = IF AnyAnswer THEN [latest EXCEPT ![p][room] = {r}] ELSE latest
            /\ UNCHANGED <<kept, saving>>
  /\ UNCHANGED <<turns, running, warrants, handed, disk, mishaps>>

Body(r) ==
  \/ Refused(r) \/ Told(r)
  \/ \E w \in Warranted(r) :
       \/ stopping_because(r, w) \/ saying(r, w) \/ starting_a_job(r, w)
       \/ \E room \in AllRooms, starts \in BOOLEAN : watching(r, w, room, starts)

Next ==
  \/ Lands \/ Fails \/ Dies
  \/ \E s \in Speakers : \/ TurnEnds(s)
                         \/ \E place \in AllRooms, recorded \in BOOLEAN :
                              TurnStarts(s, place, recorded)
  \/ \E r \in Requests : \/ Elsewhere(r) \/ Body(r) \/ posted(r)
                         \/ \E w \in handed : Called(r, w)

Spec == Init /\ [][Next]_vars

\* The world reads a body or says it cannot, answers a post, and makes a
\* write or says it cannot.
Fairness ==
  /\ \A r \in Requests : WF_vars(Body(r)) /\ WF_vars(posted(r))
  /\ WF_vars(Lands)

FairSpec == Spec /\ Fairness

----------------------------------------------------------------------------
(* Correctness.                                                             *)

TypeOK ==
  /\ turns \in 0..MaxTurns
  /\ DOMAIN running \subseteq Speakers
  /\ warrants \subseteq Warrants /\ handed \subseteq Warrants
  /\ \A s \in Speakers : Cardinality(Of(s)) <= 1
  /\ \A k \in {kept, disk} : /\ \A p \in Projects : k.watched[p] \subseteq AllRooms
                             /\ k.begun \subseteq Requests
  /\ \A r \in Requests :
       calls[r].at \in {"Free", "Reading", "Asking", "Held", "Answered", "Lost", "Gone"}
  /\ mishaps \in 0..MaxMishaps

\* A room is watched by one project (watching), whichever foremen ask, from
\* whichever rooms, whatever of it has reached the disk.
WatchedByOne ==
  \A p, q \in Projects : p # q => kept.watched[p] \intersect kept.watched[q] = {}

\* What a turn has claimed was claimed by its own agent: a call of an earlier
\* turn's, however late its body is read, says nothing of this one's.
ClaimIsOfItsTurn ==
  \A s \in DOMAIN running : \A w \in running[s].claims : w.turn = running[s].turn

\* What a foreman was told it had done is so, and stays so whatever fails or
\* dies, until it asks otherwise: a job begun is on record, a room it was
\* told is watched is watched, and one it was told is not is not.
ToldIsKept ==
  \A r \in Requests : calls[r].at = "Answered" =>
    /\ calls[r].came = "Started" => r \in kept.begun
    /\ \A p \in Projects, room \in calls[r].room : r \in latest[p][room] =>
         /\ calls[r].came = "Watching" => room \in kept.watched[p]
         /\ calls[r].came = "Not" => room \notin kept.watched[p]

\* A call that waits is known to what will answer it.
IsHeld ==
  \A r \in Requests :
    calls[r].at = "Held" <=> \E i \in 1..Len(saving) : r \in saving[i].answers

\* Every call comes to an end: answered, or let go with its write or with
\* the instance.
Waits(r) == calls[r].at \in {"Reading", "Asking", "Held"}
CallsEnd == \A r \in Requests : Waits(r) ~> ~Waits(r)

\* Every tool answers within its own call.
EveryCallIsAnswered == \A r \in Requests : calls[r].at # "Lost"
=============================================================================
