------------------------------- MODULE Turns -------------------------------
(***************************************************************************)
(* What a turn goes through before its agent is spoken to, and how it ends:    *)
(* an image, built once for everyone who needs it, a container, a wrapper, a      *)
(* checkout, a process. One command is out for each turn at a time; a stop is       *)
(* looked at when it is answered, or cancels the question asked. What an agent       *)
(* says about why it stops is held until it does.                             *)
(***************************************************************************)
EXTENDS Naturals, FiniteSets

CONSTANTS
  Jobs, Foremen,
  Image,         (* the image a speaker's container is made of              *)
  MaxTurns,      (* turns of each                                           *)
  MaxStops,      (* stops asked for, in all                                 *)
  MaxMessages    (* messages handed to a turn that talks                    *)

Speakers == Jobs \union Foremen
Images   == {Image[s] : s \in Speakers}

TurnsAssumption ==
  /\ Jobs \intersect Foremen = {} /\ DOMAIN Image = Speakers
  /\ {MaxTurns, MaxStops, MaxMessages} \subseteq Nat

VARIABLES
  stage,       (* what each turn waits on                                   *)
  stopping,    (* the turns asked to stop, those not registered among them   *)
  prompted,    (* those whose question was put to the agent                 *)
  closing,     (* those whose process was told to close                     *)
  building,    (* who waits on each image being built                       *)
  present,      (* the images there are                                      *)
  made,        (* whose container there is                                  *)
  overdue,     (* bounds on a cancel, each of whose which turn it was        *)
  turns,       (* how many turns each has had                               *)
  lands,       (* how many messages have landed in each turn                *)
  delivery,    (* whether a message handed over is not answered for          *)
  claimed,     (* what each said of stopping: when, by messages landed       *)
  stops

images  == <<building, present, made>>
talk    == <<lands, delivery, claimed>>
vars    == <<stage, stopping, prompted, closing, images, overdue, turns, talk, stops>>

Unsaid == MaxMessages + 1

\* Each has a command out, but those that wait on a build or on the agent.
Commanded == {"Looking", "Creating", "Starting", "Wrapping", "CheckingOut"}

\* The turn is over, whatever it was at: nothing of it is kept.
Ended(s) ==
  /\ stage' = [stage EXCEPT ![s] = "None"]
  /\ stopping' = stopping \ {s} /\ prompted' = prompted \ {s} /\ closing' = closing \ {s}

To(s, next) == stage' = [stage EXCEPT ![s] = next] /\ UNCHANGED <<stopping, prompted, closing>>

Silent == UNCHANGED <<overdue, turns, talk, stops>>

----------------------------------------------------------------------------
(* Registering a turn, and the commands it waits on.                         *)

\* Something is to be done: its thread is read, or its room made, first.
Start(s) ==
  /\ stage[s] = "None" /\ turns[s] < MaxTurns
  /\ To(s, "Working")
  /\ UNCHANGED <<images, overdue, turns, talk, stops>>

\* The turn is registered, in the container there is or in one to be made.
Turn(s) ==
  /\ stage[s] = "Working"
  /\ To(s, IF s \in made THEN "Starting" ELSE "Looking")
  /\ turns' = [turns EXCEPT ![s] = @ + 1]
  /\ lands' = [lands EXCEPT ![s] = 0] /\ claimed' = [claimed EXCEPT ![s] = Unsaid]
  /\ delivery' = [delivery EXCEPT ![s] = "Open"]
  /\ UNCHANGED <<images, overdue, stops>>

\* A slip: who asks first is the one the build is for.
BuildsForOne(s) ==
  /\ To(s, "Building")
  /\ building' = [building EXCEPT ![Image[s]] = IF @ = {} THEN {s} ELSE @]

\* The image is there, or has to be built: by one build, however many wait.
Build(s) ==
  /\ To(s, "Building")
  /\ building' = [building EXCEPT ![Image[s]] = @ \union {s}]

Looked(s) ==
  /\ stage[s] = "Looking"
  /\ \/ s \in stopping /\ Ended(s) /\ UNCHANGED building
     \/ s \notin stopping /\ Image[s] \in present /\ To(s, "Creating") /\ UNCHANGED building
     \/ s \notin stopping /\ Image[s] \notin present /\ Build(s)
  /\ UNCHANGED <<present, made>> /\ Silent

\* The build ended: everyone who waited goes on, or fails with it, but for
\* those stopped meanwhile.
Built(image, ok) ==
  LET waiting == building[image]
      goes == IF ok THEN waiting \ stopping ELSE {}
  IN
  /\ waiting # {}
  /\ building' = [building EXCEPT ![image] = {}]
  /\ present' = IF ok THEN present \union {image} ELSE present
  /\ stage' = [s \in Speakers |-> IF s \in goes THEN "Creating"
                                  ELSE IF s \in waiting THEN "None" ELSE stage[s]]
  /\ stopping' = stopping \ waiting
  /\ UNCHANGED <<prompted, closing, made>> /\ Silent

\* What a command leads to, where it did what it was to and nobody stopped it.
Answered(s, at, next, ok) ==
  /\ stage[s] = at
  /\ IF s \in stopping \/ ~ok THEN Ended(s) ELSE To(s, next)

Made(s, ok) ==
  /\ Answered(s, "Creating", "Starting", ok)
  /\ made' = IF ok THEN made \union {s} ELSE made
  /\ UNCHANGED <<building, present>> /\ Silent

\* Only a job's container is given a wrapper, and only a new one a checkout.
Held(s, ok) ==
  /\ Answered(s, "Starting", IF s \in Jobs THEN "Wrapping" ELSE "Talking", ok)
  /\ UNCHANGED images /\ Silent

Wrapped(s, ok) ==
  /\ \/ Answered(s, "Wrapping", "Talking", ok)
     \/ Answered(s, "Wrapping", "CheckingOut", ok)
  /\ UNCHANGED images /\ Silent

\* No purse to charge ends the turn here.
CheckedOut(s, ok) ==
  /\ Answered(s, "CheckingOut", "Talking", ok)
  /\ UNCHANGED images /\ Silent

----------------------------------------------------------------------------
(* Talking.                                                                  *)

Rests == UNCHANGED <<images, overdue, turns, stops>>

Prompts(s) ==
  /\ stage[s] = "Talking" /\ s \notin prompted
  /\ prompted' = prompted \union {s}
  /\ UNCHANGED <<stage, stopping, closing, talk>> /\ Rests

\* The conversation is over, and its process told to close.
Over(s) ==
  /\ stage[s] = "Talking"
  /\ stage' = [stage EXCEPT ![s] = "Closing"]
  /\ closing' = closing \union {s}
  /\ UNCHANGED <<stopping, prompted, talk>> /\ Rests

\* The process ended, told to or not.
ProcessEnds(s) ==
  /\ stage[s] \in {"Talking", "Closing"}
  /\ Ended(s)
  /\ UNCHANGED talk /\ Rests

\* The agent says why it is about to stop: noted, and nothing else.
StoppingBecause(s) ==
  /\ s \in Jobs /\ stage[s] \in {"Talking", "Closing"}
  /\ claimed' = [claimed EXCEPT ![s] = lands[s]]
  /\ UNCHANGED <<stage, stopping, prompted, closing, lands, delivery>> /\ Rests

Deliver(s) ==
  /\ s \in Jobs \ stopping /\ stage[s] = "Talking" /\ s \in prompted
  /\ delivery[s] = "Open" /\ lands[s] < MaxMessages
  /\ delivery' = [delivery EXCEPT ![s] = "InFlight"]
  /\ UNCHANGED <<stage, stopping, prompted, closing, lands, claimed>> /\ Rests

\* A message landed: what was said of stopping before it is withdrawn.
Withdrawn(s) == claimed' = [claimed EXCEPT ![s] = Unsaid]

Steered(s) ==
  /\ stage[s] = "Talking" /\ delivery[s] = "InFlight"
  /\ \/ /\ delivery' = [delivery EXCEPT ![s] = "Open"]
        /\ lands' = [lands EXCEPT ![s] = @ + 1]
        /\ Withdrawn(s)
     \/ /\ delivery' = [delivery EXCEPT ![s] = "Declined"]
        /\ UNCHANGED <<lands, claimed>>
  /\ UNCHANGED <<stage, stopping, prompted, closing>> /\ Rests

----------------------------------------------------------------------------
(* Stopping.                                                                 *)

Bound(s) == overdue' = overdue \union {[who |-> s, turn |-> turns[s]]}

\* A turn whose question was put is cancelled, within a bound; one talking
\* without is closed; any other ends when its command is answered, and one not
\* registered yet as soon as it is.
StopTurn(s) ==
  /\ s \in Jobs /\ stage[s] # "None"
  /\ stops < MaxStops /\ stops' = stops + 1
  /\ stopping' = stopping \union {s}
  /\ CASE stage[s] = "Talking" /\ s \in prompted -> Bound(s) /\ UNCHANGED closing
       [] stage[s] = "Talking" /\ s \notin prompted ->
            closing' = closing \union {s} /\ UNCHANGED overdue
       [] OTHER -> UNCHANGED <<closing, overdue>>
  /\ UNCHANGED <<stage, prompted, images, turns, talk>>

\* A bound went off: a turn that talks and stops is closed after all.
CancelOverdue(t) ==
  /\ overdue' = overdue \ {t}
  /\ closing' = IF stage[t.who] = "Talking" /\ t.who \in stopping
                THEN closing \union {t.who} ELSE closing
  /\ UNCHANGED <<stage, stopping, prompted, images, turns, talk, stops>>

----------------------------------------------------------------------------
Init ==
  /\ stage = [s \in Speakers |-> "None"]
  /\ stopping = {} /\ prompted = {} /\ closing = {} /\ overdue = {}
  /\ building = [i \in Images |-> {}] /\ present = {} /\ made = {}
  /\ turns = [s \in Speakers |-> 0] /\ stops = 0
  /\ lands = [s \in Speakers |-> 0] /\ delivery = [s \in Speakers |-> "Open"]
  /\ claimed = [s \in Speakers |-> Unsaid]

RuntimeAnswers(s) ==
  \/ Looked(s)
  \/ \E ok \in BOOLEAN : Made(s, ok) \/ Held(s, ok) \/ Wrapped(s, ok) \/ CheckedOut(s, ok)
BuildAnswers(i) == \E ok \in BOOLEAN : Built(i, ok)
AgentTalks(s)   == Prompts(s) \/ Over(s) \/ StoppingBecause(s) \/ Steered(s)
Closes(s)       == s \in closing /\ ProcessEnds(s)
GoesOff         == \E t \in overdue : CancelOverdue(t)

Next ==
  \/ \E s \in Speakers : \/ Start(s) \/ Turn(s) \/ RuntimeAnswers(s) \/ AgentTalks(s)
                         \/ ProcessEnds(s) \/ Deliver(s) \/ StopTurn(s)
  \/ \E i \in Images : BuildAnswers(i)
  \/ GoesOff

Spec == Init /\ [][Next]_vars

\* The runtime does what it is told, a process told to close ends, bounds go
\* off, and what a turn waits on to be registered is answered. An agent may
\* never say anything.
Fairness ==
  /\ \A s \in Speakers : WF_vars(Turn(s)) /\ WF_vars(RuntimeAnswers(s)) /\ WF_vars(Closes(s))
  /\ \A i \in Images : WF_vars(BuildAnswers(i))
  /\ WF_vars(GoesOff)

FairSpec == Spec /\ Fairness

----------------------------------------------------------------------------
\* What is known of each turn has its type, and only one that talks has had a
\* question put.
TypeOK ==
  /\ stage \in [Speakers -> Commanded \union {"None", "Working", "Building", "Talking", "Closing"}]
  /\ closing \subseteq {s \in Speakers : stage[s] \in {"Talking", "Closing"}}
  /\ prompted \subseteq {s \in Speakers : stage[s] \in {"Talking", "Closing"}}
  /\ stopping \subseteq {s \in Jobs : stage[s] # "None"}

\* A turn that waits on an image is one the build of that image will tell, and
\* nobody else is told (Running::build, built).
WaitsOnABuild ==
  \A s \in Speakers, i \in Images :
    s \in building[i] <=> stage[s] = "Building" /\ Image[s] = i

\* What an agent said about stopping, it said after the last message that
\* reached it (Running::steered).
ClaimIsCurrent == \A s \in Jobs : claimed[s] \in {Unsaid, lands[s]}

\* A stop always ends the turn, at whatever step it comes and whatever the
\* agent does (Running::stop_turn, stopped_before, cancel_overdue).
StopsInTheEnd == \A s \in Jobs : s \in stopping ~> s \notin stopping

\* A cancelled turn is given its time to end before its process is closed
\* after all (turns.rs, CANCEL_WITHIN).
GivenItsTime ==
  [][\A t \in overdue \ overdue' : closing' # closing => t.turn = turns[t.who]]_vars
=============================================================================
