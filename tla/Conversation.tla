---------------------------- MODULE Conversation ----------------------------
(***************************************************************************)
(* The conversation of one turn with its agent, line by line: a session     *)
(* made or found, the kit set one option at a time, the question, messages  *)
(* handed to the running turn, and the answer.                              *)
(*                                                                         *)
(* stage to verdict are the conversation's own; agent and last are the       *)
(* adapter at the other end of the pipe, which may refuse, ignore, garble   *)
(* or repeat an answer, ask for something itself, or die.                   *)
(***************************************************************************)
EXTENDS Integers, Sequences, FiniteSets

CONSTANTS
  Openings,    (* ways it may open: "Fresh", "Resumed"                      *)
  Steerables,  (* whether the adapter may say it can be handed messages     *)
  Options,     (* how many options the kit spells                           *)
  Defaults,    (* what a session may report them to be when made or loaded  *)
  MaxSteers,   (* messages handed over                                      *)
  MaxAsks,     (* requests of the agent's own                               *)
  MaxWords,    (* pieces of text it says                                    *)
  MaxCancels,  (* times it is asked to stop                                 *)
  MaxFaults,   (* times the adapter breaks its side, and writes refused     *)
  MaxRepeats   (* times it gives its last answer again                      *)

Option == 1..Options

\* What a session reports an option to be: not reported, what the kit asks
\* for, the adapter's own spelling of that, or something else.
Reading == {"None", "Asked", "Alias", "Other"}

ASSUME ConversationAssumption ==
  /\ Openings \subseteq {"Fresh", "Resumed"}
  /\ Steerables \subseteq BOOLEAN
  /\ {Options, MaxSteers, MaxAsks, MaxWords, MaxCancels,
      MaxFaults, MaxRepeats} \subseteq Nat
  /\ Defaults \subseteq [Option -> Reading]

Said == [kind : {"Initialize", "NewSession", "ListSessions", "LoadSession",
                 "SetOption", "Prompt", "Steer", "Cancel", "Permitted", "Unserved"},
         id : Nat, option : {0} \union Option]

Says(kind, id) == [kind |-> kind, id |-> id, option |-> 0]

\* A line of the agent's: what it answers or asks, and what its answer says.
Heard == [kind : {"Answered", "Refused", "Notified", "Asked"}, id : Nat,
          says : {"Yes", "No", "Junk"}, readings : [Option -> Reading]]

NoLine == [kind |-> "None"]

Stage == [kind : {"Initialising", "Opening", "Listing", "Loading", "Settling",
                  "Prompting", "Over"},
          asked : Nat, option : {0} \union Option, before : Reading,
          remaining : Seq(Option)]

At(kind, asked) == [kind |-> kind, asked |-> asked, option |-> 0,
                    before |-> "None", remaining |-> <<>>]

Verdict == {"None", "Answered", "Unreadable", "NothingToResume", "Ignored",
            "RefusedOption", "Protocol", "Stopped"}

VARIABLES
  opening,     (* whether it makes a session or finds one                   *)
  stage,       (* where it has got to                                       *)
  next,        (* the next identifier it mints                              *)
  steerable,   (* whether the adapter said it can be handed messages        *)
  steering,    (* the message being handed over, by its identifier, or 0    *)
  advertised,  (* what the session last reported its options to be          *)
  text,        (* how much of the agent's text it keeps                     *)
  verdict,     (* how it ended, or "None"                                   *)
  delayed,     (* the line handing a message over, while its write is not   *)
               (* answered, or 0                                            *)
  toAgent,     (* lines to the agent                                        *)
  toUs,        (* lines from it                                             *)
  agent,       (* the agent's side                                          *)
  last,        (* the last answer it gave, or NoLine                          *)
  used         (* how much of each bound is spent                           *)

settings == <<opening, steerable, advertised, text>>
lines    == <<toAgent, toUs>>
ours     == <<stage, next, steering, verdict, delayed>>
theirs   == <<agent, last, used>>
vars     == <<settings, ours, lines, theirs>>

Spent(bound) == used' = [used EXCEPT ![bound] = @ + 1]

----------------------------------------------------------------------------
(* What is asked, and what each answer leads to. *)

\* What a kit is spelled as, in the order it is set: the mode, the model, and
\* the effort where the model has one.
Wired == [i \in Option |-> i]

\* A mistake: an answer is enough.
TookAnyway(before, after) == TRUE

\* A set took if the reading moved, or was what was asked for already.
Took(before, after) == after # "None" /\ (before = "Asked" \/ after # before)

Goes(s, said) ==
  /\ stage' = s
  /\ next' = next + 1
  /\ toAgent' = Append(toAgent, said)
  /\ UNCHANGED <<steering, verdict, delayed>>

Ends(v) ==
  /\ stage' = At("Over", 0)
  /\ verdict' = v
  /\ UNCHANGED <<next, steering, delayed, toAgent>>

\* The next option of the kit, or the question once every one is set.
Settle(readings, remaining) ==
  IF remaining = <<>>
    THEN Goes(At("Prompting", next), Says("Prompt", next))
    ELSE LET o == Head(remaining) IN
         Goes([kind |-> "Settling", asked |-> next, option |-> o,
               before |-> readings[o], remaining |-> Tail(remaining)],
              [Says("SetOption", next) EXCEPT !.option = o])

Initialised(h) ==
  /\ stage.kind = "Initialising"
  /\ steerable' = (h.says = "Yes")
  /\ IF opening = "Fresh"
       THEN Goes(At("Opening", next), Says("NewSession", next))
       ELSE Goes(At("Listing", next), Says("ListSessions", next))
  /\ UNCHANGED <<opening, advertised, text>>

Listed(h) ==
  /\ stage.kind = "Listing"
  /\ CASE h.says = "Junk" -> Ends("Unreadable")
       [] h.says = "No"   -> Ends("NothingToResume")
       [] OTHER           -> Goes(At("Loading", next), Says("LoadSession", next))
  /\ UNCHANGED settings

\* A session was made, or loaded.
Opened(h) ==
  /\ stage.kind \in {"Opening", "Loading"}
  /\ IF h.says = "Junk"
       THEN Ends("Unreadable") /\ UNCHANGED advertised
       ELSE advertised' = h.readings /\ Settle(h.readings, Wired)
  /\ UNCHANGED <<opening, steerable, text>>

Set(h) ==
  /\ stage.kind = "Settling"
  /\ IF h.says = "Junk"
       THEN Ends("Unreadable") /\ UNCHANGED advertised
       ELSE /\ advertised' = h.readings
            /\ IF Took(stage.before, h.readings[stage.option])
                 THEN Settle(h.readings, stage.remaining)
                 ELSE Ends("Ignored")
  /\ UNCHANGED <<opening, steerable, text>>

Prompted(h) ==
  /\ stage.kind = "Prompting"
  /\ Ends(IF h.says = "Junk" THEN "Unreadable" ELSE "Answered")
  /\ UNCHANGED settings

\* A mistake: any answer is the one being waited for.
AnyAnswer(id) == TRUE

WaitingOn(id) == id = stage.asked

Ignores == UNCHANGED <<settings, ours, toAgent>>

\* What became of the message being handed over.
SteerAnswered ==
  /\ steering' = 0
  /\ UNCHANGED <<settings, stage, next, verdict, delayed, toAgent>>

Answered(h) ==
  \/ h.id = steering /\ SteerAnswered
  \/ h.id # steering /\ ~WaitingOn(h.id) /\ Ignores
  \/ /\ h.id # steering /\ WaitingOn(h.id)
     /\ Initialised(h) \/ Listed(h) \/ Opened(h) \/ Set(h) \/ Prompted(h)

\* A message refused waits; a setting refused, or anything else, is the end.
RefusedBy(h) ==
  \/ h.id = steering /\ SteerAnswered
  \/ h.id # steering /\ ~WaitingOn(h.id) /\ Ignores
  \/ /\ h.id # steering /\ WaitingOn(h.id)
     /\ Ends(IF stage.kind = "Settling" THEN "RefusedOption" ELSE "Protocol")
     /\ UNCHANGED settings

\* Something said unasked: its text is kept.
Noted ==
  /\ text' = text + 1
  /\ UNCHANGED <<opening, steerable, advertised, ours, toAgent>>

\* A mistake: what is not served is let be.
AskedInVain(h) == Ignores

\* Something the agent asks is answered: permission is given, and anything
\* else is said not to be served.
Asked(h) ==
  /\ toAgent' = Append(toAgent,
                       Says(IF h.says = "Yes" THEN "Permitted" ELSE "Unserved", h.id))
  /\ UNCHANGED <<settings, ours>>

\* A line from the agent; once over, what it says is its own business.
HearLine ==
  LET h == Head(toUs) IN
  /\ toUs # <<>>
  /\ toUs' = Tail(toUs)
  /\ UNCHANGED theirs
  /\ IF stage.kind = "Over" THEN Ignores
     ELSE \/ h.kind = "Answered" /\ Answered(h)
          \/ h.kind = "Refused" /\ RefusedBy(h)
          \/ h.kind = "Notified" /\ Noted
          \/ h.kind = "Asked" /\ Asked(h)

\* The process ended, and every line it wrote has been heard.
ProcessEnded ==
  /\ ~agent.alive /\ toUs = <<>>
  /\ stage.kind # "Over"
  /\ Ends("Stopped")
  /\ UNCHANGED <<settings, toUs, theirs>>

----------------------------------------------------------------------------
(* What the turn asks of it. *)

\* A mistake: a message is handed over before the question is put.
CanSteerEarly == steerable /\ steering = 0 /\ stage.kind # "Over"

CanSteer == steerable /\ steering = 0 /\ stage.kind = "Prompting"

\* A message is handed over; its line waits on the write that records it.
Steer ==
  /\ CanSteer
  /\ used.steers < MaxSteers
  /\ Spent("steers")
  /\ steering' = next
  /\ delayed' = next
  /\ next' = next + 1
  /\ UNCHANGED <<settings, stage, verdict, lines, agent, last>>

\* The write landed, or failed and the line is dropped.
SteerSent ==
  /\ delayed # 0
  /\ delayed' = 0
  /\ toAgent' = Append(toAgent, Says("Steer", delayed))
  /\ UNCHANGED <<settings, stage, next, steering, verdict, toUs, theirs>>

SteerDropped ==
  /\ delayed # 0
  /\ used.drops < MaxFaults
  /\ Spent("drops")
  /\ delayed' = 0
  /\ UNCHANGED <<settings, stage, next, steering, verdict, lines, agent, last>>

\* The turn in progress is asked to stop, once a question waits on an answer.
Cancel ==
  /\ stage.kind = "Prompting"
  /\ used.cancels < MaxCancels
  /\ Spent("cancels")
  /\ toAgent' = Append(toAgent, Says("Cancel", 0))
  /\ UNCHANGED <<settings, ours, toUs, agent, last>>

----------------------------------------------------------------------------
(* The agent. *)

Unread == [o \in Option |-> "None"]

Line(kind, id, says, readings) ==
  [kind |-> kind, id |-> id, says |-> says, readings |-> readings]

Replies(h) == toUs' = Append(toUs, h) /\ last' = h

\* An answer as it should be, to the first line waiting.
Initialized(said) ==
  /\ said.kind = "Initialize"
  /\ \E s \in Steerables :
       Replies(Line("Answered", said.id, IF s THEN "Yes" ELSE "No", Unread))
  /\ UNCHANGED agent

SessionMade(said) ==
  /\ said.kind = "NewSession"
  /\ \E d \in Defaults :
       /\ agent' = [agent EXCEPT !.session = TRUE, !.holds = d]
       /\ Replies(Line("Answered", said.id, "Yes", d))

SessionsHeld(said) ==
  /\ said.kind = "ListSessions"
  /\ Replies(Line("Answered", said.id, IF agent.session THEN "Yes" ELSE "No", Unread))
  /\ UNCHANGED agent

\* A session loaded has forgotten what it was set to.
SessionLoaded(said) ==
  /\ said.kind = "LoadSession"
  /\ \E d \in Defaults :
       /\ agent' = [agent EXCEPT !.holds = d]
       /\ Replies(Line("Answered", said.id, "Yes", d))

\* An option set resets those that depend on it; one it does not have now is
\* refused.
OptionSet(said) ==
  /\ said.kind = "SetOption"
  /\ \/ /\ agent.holds[said.option] # "None"
        /\ \E held \in {f \in [Option -> Reading] :
                          /\ f[said.option] \in {"Asked", "Alias"}
                          /\ \A o \in Option :
                               /\ o < said.option => f[o] = agent.holds[o]
                               /\ o > said.option => f[o] \in {"Asked", "Other"}} :
             /\ agent' = [agent EXCEPT !.holds = held]
             /\ Replies(Line("Answered", said.id, "Yes", held))
     \/ /\ agent.holds[said.option] = "None"
        /\ Replies(Line("Refused", said.id, "No", Unread))
        /\ UNCHANGED agent

TurnStarted(said) ==
  /\ said.kind = "Prompt"
  /\ agent' = [agent EXCEPT !.turn = said.id]
  /\ UNCHANGED <<toUs, last>>

\* A message is taken into the running turn, or there is none.
Steered(said) ==
  /\ said.kind = "Steer"
  /\ Replies(Line("Answered", said.id, IF agent.turn # 0 THEN "Yes" ELSE "No", Unread))
  /\ UNCHANGED agent

EndsTurn ==
  /\ agent.turn # 0
  /\ agent' = [agent EXCEPT !.turn = 0, !.asking = {}, !.done = TRUE]
  /\ Replies(Line("Answered", agent.turn, "Yes", Unread))

TurnCancelled(said) ==
  /\ said.kind = "Cancel"
  /\ \/ EndsTurn
     \/ agent.turn = 0 /\ UNCHANGED <<toUs, last, agent>>

\* It goes on with what it was asking for.
AskAnswered(said) ==
  /\ said.kind \in {"Permitted", "Unserved"}
  /\ agent' = [agent EXCEPT !.asking = @ \ {said.id}]
  /\ UNCHANGED <<toUs, last>>

\* Or the adapter breaks its side: it refuses, garbles, or leaves as it was
\* an option it says it set.
Breaks(said) ==
  /\ said.kind \notin {"Cancel", "Permitted", "Unserved"}
  /\ used.faults < MaxFaults
  /\ Spent("faults")
  /\ UNCHANGED agent
  /\ \/ Replies(Line("Refused", said.id, "No", Unread))
     \/ said.kind # "Initialize" /\ Replies(Line("Answered", said.id, "Junk", Unread))
     \/ said.kind = "SetOption" /\ Replies(Line("Answered", said.id, "Yes", agent.holds))

AgentReads ==
  LET said == Head(toAgent) IN
  /\ agent.alive /\ toAgent # <<>>
  /\ toAgent' = Tail(toAgent)
  /\ UNCHANGED <<settings, ours>>
  /\ \/ /\ \/ Initialized(said) \/ SessionMade(said) \/ SessionsHeld(said)
           \/ SessionLoaded(said) \/ OptionSet(said) \/ TurnStarted(said)
           \/ Steered(said) \/ TurnCancelled(said) \/ AskAnswered(said)
        /\ UNCHANGED used
     \/ Breaks(said)

\* In its turn the agent talks, asks for permission or for something else and
\* waits, or answers.
AgentTalks ==
  /\ agent.alive /\ agent.turn # 0 /\ agent.asking = {}
  /\ \/ /\ used.words < MaxWords
        /\ Spent("words")
        /\ toUs' = Append(toUs, Line("Notified", 0, "Yes", Unread))
        /\ UNCHANGED <<agent, last>>
     \/ /\ used.asks < MaxAsks
        /\ Spent("asks")
        /\ agent' = [agent EXCEPT !.asking = {used.asks + 1}]
        /\ \E permission \in {"Yes", "No"} :
             toUs' = Append(toUs, Line("Asked", used.asks + 1, permission, Unread))
        /\ UNCHANGED last
     \/ EndsTurn /\ UNCHANGED used
  /\ UNCHANGED <<settings, ours, toAgent>>

AgentRepeats ==
  /\ agent.alive
  /\ used.repeats < MaxRepeats
  /\ Spent("repeats")
  /\ last # NoLine /\ toUs' = Append(toUs, last)
  /\ UNCHANGED <<settings, ours, toAgent, agent, last>>

\* It ends when its conversation is over, and may before.
AgentEnds ==
  /\ agent.alive
  /\ agent' = [agent EXCEPT !.alive = FALSE, !.turn = 0, !.asking = {}]
  /\ \/ stage.kind = "Over" /\ UNCHANGED used
     \/ stage.kind # "Over" /\ used.faults < MaxFaults /\ Spent("faults")
  /\ UNCHANGED <<settings, ours, lines, last>>

----------------------------------------------------------------------------
Init ==
  /\ opening \in Openings
  /\ stage = At("Initialising", 1)
  /\ next = 2
  /\ steerable = FALSE
  /\ steering = 0
  /\ advertised = Unread
  /\ text = 0
  /\ verdict = "None"
  /\ delayed = 0
  /\ toAgent = <<Says("Initialize", 1)>>
  /\ toUs = <<>>
  /\ \E held \in {FALSE, opening = "Resumed"} :
       agent = [session |-> held, holds |-> Unread, turn |-> 0, asking |-> {},
                done |-> FALSE, alive |-> TRUE]
  /\ last = NoLine
  /\ used = [steers |-> 0, asks |-> 0, words |-> 0, faults |-> 0, repeats |-> 0,
             cancels |-> 0, drops |-> 0]

Next ==
  \/ HearLine \/ ProcessEnded
  \/ Steer \/ SteerSent \/ SteerDropped \/ Cancel
  \/ AgentReads \/ AgentTalks \/ AgentRepeats \/ AgentEnds

Spec == Init /\ [][Next]_vars

\* Lines cross the pipe, writes are answered, and the adapter reads what it is
\* sent.  Its agent may talk for ever.
Fairness ==
  /\ WF_vars(HearLine) /\ WF_vars(ProcessEnded)
  /\ WF_vars(SteerSent \/ SteerDropped)
  /\ WF_vars(AgentReads)

FairSpec == Spec /\ Fairness

----------------------------------------------------------------------------
(* Correctness. *)

\* Every variable has its type.
TypeOK ==
  /\ opening \in Openings
  /\ stage \in Stage /\ stage.asked \in 0..next - 1
  /\ next \in Nat
  /\ steerable \in BOOLEAN
  /\ {steering, delayed} \subseteq 0..next - 1
  /\ advertised \in [Option -> Reading]
  /\ text \in 0..used.words
  /\ verdict \in Verdict
  /\ toAgent \in Seq(Said)
  /\ toUs \in Seq(Heard)
  /\ agent \in [session : BOOLEAN, holds : [Option -> Reading], turn : 0..next - 1,
                asking : SUBSET (1..MaxAsks), done : BOOLEAN, alive : BOOLEAN]
  /\ last \in Heard \union {NoLine}

\* A turn that fails fails for something its agent did, and one that succeeds
\* has the answer to its question: answers repeated, answers to messages handed
\* over, requests of the agent's own and words between them are told apart.
VerdictIsTheAgents ==
  /\ verdict \notin {"None", "Answered", "NothingToResume"} => used.faults > 0
  /\ verdict = "NothingToResume" => ~agent.session \/ used.faults > 0
  /\ verdict = "Answered" => agent.done

\* An agent works on the kit asked for: every option holds when it begins, and
\* none was taken back by one set after it.
WorksOnItsKit ==
  agent.turn # 0 => \A o \in Option : agent.holds[o] \in {"Asked", "Alias"}

\* A session opens or the turn fails; an agent that waits on an answer to a
\* request of its own gets one; and of a message handed over something is
\* heard, unless its line was dropped with a failed write.
NobodyWaits ==
  /\ stage.kind \notin {"Prompting", "Over"} ~> stage.kind \in {"Prompting", "Over"}
  /\ \A a \in 1..MaxAsks : a \in agent.asking ~> a \notin agent.asking
  /\ steering # 0 ~> steering = 0 \/ stage.kind = "Over" \/ used.drops > 0

E1 == INSTANCE Exchange WITH
        phase <- IF stage.kind \in {"Prompting", "Over"} THEN stage.kind ELSE "Opening",
        handing <- steering # 0,
        answered <- verdict = "Answered"

\* What a turn relies on of its conversation.
ServesTheTurn == E1!Spec

=============================================================================
