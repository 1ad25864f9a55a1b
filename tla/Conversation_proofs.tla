------------------------ MODULE Conversation_proofs ------------------------
(***************************************************************************)
(* A conversation gives its turn what the turn relies on, whatever the      *)
(* adapter answers, refuses, garbles or repeats, and however many messages  *)
(* are handed over: its protocol implements Exchange.                       *)
(*                                                                         *)
(* What makes it so is how stages follow one another: a message is handed   *)
(* over only once the question is put, and nothing leaves "Prompting" but   *)
(* for "Over", which nothing leaves.                                        *)
(***************************************************************************)
EXTENDS Conversation, TLAPS

Kinds == {"Initialising", "Opening", "Listing", "Loading", "Settling",
          "Prompting", "Over"}

Held ==
  /\ stage.kind \in Kinds
  /\ next \in Nat \ {0}
  /\ steering # 0 => stage.kind \in {"Prompting", "Over"}
  /\ verdict = "Answered" => stage.kind = "Over"

\* What Exchange sees of a conversation.
Phase == IF stage.kind \in {"Prompting", "Over"} THEN stage.kind ELSE "Opening"
View  == <<Phase, steering # 0, verdict = "Answered">>

----------------------------------------------------------------------------
(* What each end of a step makes of what is held, and is to Exchange.       *)

LEMMA Ending ==
  ASSUME Held, stage.kind # "Over", NEW v, Ends(v),
         v = "Answered" => stage.kind = "Prompting"
  PROVE  Held' /\ E1!End
  BY DEF Ends, Held, At, E1!End, Kinds

LEMMA Going ==
  ASSUME Held, NEW s, NEW said, Goes(s, said), s.kind \in Kinds \ {"Over"},
         stage.kind \in Kinds \ {"Prompting", "Over"}
  PROVE  Held' /\ (E1!Put \/ UNCHANGED View)
  BY DEF Goes, Held, E1!Put, Kinds, Phase, View

LEMMA Settling ==
  ASSUME Held, NEW readings, NEW remaining, Settle(readings, remaining),
         stage.kind \in Kinds \ {"Prompting", "Over"}
  PROVE  Held' /\ (E1!Put \/ UNCHANGED View)
  BY Going DEF Settle, At, Kinds

LEMMA Steadily ==
  ASSUME Held, UNCHANGED <<stage, next, steering, verdict>>
  PROVE  Held' /\ UNCHANGED View
  BY DEF Held, View, Phase

LEMMA ToldOf ==
  ASSUME Held, stage.kind # "Over", SteerAnswered
  PROVE  Held' /\ (E1!Told \/ UNCHANGED View)
  BY DEF SteerAnswered, Held, E1!Told, View, Phase

----------------------------------------------------------------------------
(* What is heard. *)

LEMMA AnswerLeads ==
  ASSUME Held, stage.kind # "Over", NEW h,
         Initialised(h) \/ Listed(h) \/ Opened(h) \/ Set(h) \/ Prompted(h)
  PROVE  Held' /\ (E1!Next \/ UNCHANGED View)
<1>1. CASE Initialised(h)
  <2>1. stage.kind \in Kinds \ {"Prompting", "Over"}  BY <1>1 DEF Initialised, Kinds
  <2>. QED  BY <1>1, <2>1, Going DEF Initialised, At, Kinds, E1!Next
<1>2. CASE Listed(h)
  <2>1. stage.kind \in Kinds \ {"Prompting", "Over"}  BY <1>2 DEF Listed, Kinds
  <2>2. CASE h.says = "Junk"
    <3>1. Ends("Unreadable")  BY <1>2, <2>2 DEF Listed
    <3>. QED  BY <3>1, Ending DEF E1!Next
  <2>3. CASE h.says = "No"
    <3>1. Ends("NothingToResume")  BY <1>2, <2>3 DEF Listed
    <3>. QED  BY <3>1, Ending DEF E1!Next
  <2>4. CASE h.says \notin {"Junk", "No"}
    <3>1. Goes(At("Loading", next), Says("LoadSession", next))  BY <1>2, <2>4 DEF Listed
    <3>. QED  BY <3>1, <2>1, Going DEF At, Kinds, E1!Next
  <2>. QED  BY <1>2, <2>2, <2>3, <2>4 DEF Listed
<1>3. CASE Opened(h)
  <2>1. stage.kind \in Kinds \ {"Prompting", "Over"}  BY <1>3 DEF Opened, Kinds
  <2>. QED  BY <1>3, <2>1, Ending, Settling DEF Opened, E1!Next
<1>4. CASE Set(h)
  <2>1. stage.kind \in Kinds \ {"Prompting", "Over"}  BY <1>4 DEF Set, Kinds
  <2>. QED  BY <1>4, <2>1, Ending, Settling DEF Set, E1!Next
<1>5. CASE Prompted(h)
  BY <1>5, Ending DEF Prompted, E1!Next
<1>. QED  BY <1>1, <1>2, <1>3, <1>4, <1>5

LEMMA HearLineLeads ==
  ASSUME Held, HearLine
  PROVE  Held' /\ (E1!Next \/ UNCHANGED View)
<1> DEFINE h == Head(toUs)
<1> HIDE DEF h
<1>1. Ignores => Held' /\ UNCHANGED View  BY Steadily DEF Ignores, ours
<1>2. CASE stage.kind = "Over"
  BY <1>1, <1>2 DEF HearLine
<1>3. CASE stage.kind # "Over" /\ Answered(h)
  BY <1>1, <1>3, ToldOf, AnswerLeads DEF Answered, E1!Next
<1>4. CASE stage.kind # "Over" /\ RefusedBy(h)
  BY <1>1, <1>4, ToldOf, Ending DEF RefusedBy, E1!Next
<1>5. CASE Noted
  BY <1>5, Steadily DEF Noted, ours
<1>6. CASE Asked(h)
  BY <1>6, Steadily DEF Asked, ours
<1>. QED  BY <1>2, <1>3, <1>4, <1>5, <1>6 DEF HearLine, h

----------------------------------------------------------------------------
\* Every step keeps what is held, and is a step of Exchange or none.
LEMMA Steps ==
  ASSUME Held, [Next]_vars
  PROVE  Held' /\ (E1!Next \/ UNCHANGED View)
<1>1. CASE HearLine
  BY <1>1, HearLineLeads
<1>2. CASE ProcessEnded
  BY <1>2, Ending DEF ProcessEnded, E1!Next
<1>3. CASE Steer
  BY <1>3 DEF Steer, CanSteer, Held, E1!Next, E1!Hand
<1>4. CASE SteerSent \/ SteerDropped \/ Cancel \/ AgentReads \/ AgentTalks
           \/ AgentRepeats \/ AgentEnds
  BY <1>4, Steadily DEF SteerSent, SteerDropped, Cancel, AgentReads, AgentTalks,
                        AgentRepeats, AgentEnds, ours
<1>5. CASE UNCHANGED vars
  BY <1>5, Steadily DEF vars, ours
<1>. QED  BY <1>1, <1>2, <1>3, <1>4, <1>5 DEF Next

LEMMA Begins == Init => Held /\ E1!Init
  BY DEF Init, Held, At, E1!Init, Kinds

\* What a conversation holds is what the steps keep of it.
THEOREM Invariance == Spec => []Held
<1>1. Held /\ [Next]_vars => Held'  BY Steps
<1>. QED  BY <1>1, Begins, PTL DEF Spec

\* However many messages, words, requests, faults and repeats there are, and
\* whatever a kit spells, a conversation puts its question once, hands over one
\* message at a time to a question that was put, and ends once, with an answer
\* only to that (Conversation::answered, refused, line).
THEOREM ConversationImplementsExchange == Spec => ServesTheTurn
<1>1. Init => E1!Init  BY Begins
<1>2. Held /\ [Next]_vars => [E1!Next]_<<IF stage.kind \in {"Prompting", "Over"}
                                         THEN stage.kind ELSE "Opening",
                                       steering # 0, verdict = "Answered">>
  BY Steps DEF View, Phase
<1>. QED  BY <1>1, <1>2, Invariance, PTL DEF Spec, ServesTheTurn, E1!Spec

----------------------------------------------------------------------------
(* What its lines are. *)

Lines(q) == {q[i] : i \in 1..Len(q)}

LEMMA AppendLines ==
  ASSUME NEW S, NEW q \in Seq(S), NEW x \in S
  PROVE  /\ Append(q, x) \in Seq(S)
         /\ Lines(Append(q, x)) = Lines(q) \union {x}
<1> DEFINE r == Append(q, x)
<1>1. r \in Seq(S) /\ Len(r) = Len(q) + 1 /\ r[Len(q) + 1] = x
      /\ \A i \in 1..Len(q) : r[i] = q[i]
  OBVIOUS
<1>2. Len(q) \in Nat  OBVIOUS
<1> HIDE DEF r
<1>3. \A y \in Lines(r) : y \in Lines(q) \union {x}
  <2>1. TAKE y \in Lines(r)
  <2>2. PICK i \in 1..Len(q) + 1 : y = r[i]  BY <1>1 DEF Lines
  <2>. QED  BY <1>1, <1>2, <2>2 DEF Lines
<1>4. x \in Lines(r)  BY <1>1, <1>2 DEF Lines
<1>5. \A y \in Lines(q) : y \in Lines(r)
  <2>1. TAKE y \in Lines(q)
  <2>2. PICK i \in 1..Len(q) : y = q[i]  BY DEF Lines
  <2>3. y = r[i] /\ i \in 1..Len(r)  BY <1>1, <1>2, <2>2
  <2>. QED  BY <2>3 DEF Lines
<1>. QED  BY <1>1, <1>3, <1>4, <1>5 DEF r

LEMMA TailLines ==
  ASSUME NEW S, NEW q \in Seq(S), q # <<>>
  PROVE  /\ Head(q) \in S /\ Tail(q) \in Seq(S)
         /\ Head(q) \in Lines(q)
         /\ Lines(Tail(q)) \subseteq Lines(q)
<1> DEFINE r == Tail(q)
<1>1. r \in Seq(S) /\ Len(r) = Len(q) - 1 /\ Len(q) \in Nat /\ Len(q) > 0
      /\ \A i \in 1..Len(r) : r[i] = q[i + 1]
  OBVIOUS
<1>2. Head(q) = q[1] /\ Head(q) \in S  OBVIOUS
<1> HIDE DEF r
<1>3. \A y \in Lines(r) : y \in Lines(q)
  <2>1. TAKE y \in Lines(r)
  <2>2. PICK i \in 1..Len(r) : y = r[i]  BY DEF Lines
  <2>3. y = q[i + 1] /\ i + 1 \in 1..Len(q)  BY <1>1, <2>2
  <2>. QED  BY <2>3 DEF Lines
<1>. QED  BY <1>1, <1>2, <1>3 DEF r, Lines

LEMMA LinesAre ==
  ASSUME NEW S, NEW q \in Seq(S)
  PROVE  \A x \in Lines(q) : x \in S
  BY DEF Lines

----------------------------------------------------------------------------
(* Everything has its type. *)

Agent == [session : BOOLEAN, holds : [Option -> Reading], turn : Nat,
          asking : SUBSET Nat, done : BOOLEAN, alive : BOOLEAN]

Bounds == {"steers", "asks", "words", "faults", "repeats", "cancels", "drops"}

Typed ==
  /\ opening \in Openings
  /\ stage \in Stage
  /\ next \in Nat \ {0}
  /\ steering \in Nat /\ delayed \in Nat
  /\ verdict \in Verdict
  /\ toAgent \in Seq(Said)
  /\ toUs \in Seq(Heard)
  /\ agent \in Agent
  /\ last \in Heard \union {NoLine}
  /\ used \in [Bounds -> Nat]

LEMMA Begun == Init => Typed
<1> SUFFICES ASSUME Init PROVE Typed  OBVIOUS
<1>1. stage \in Stage /\ next \in Nat \ {0}  BY DEF Init, At, Stage, Reading
<1>2. Says("Initialize", 1) \in Said  BY DEF Says, Said
<1>3. toAgent \in Seq(Said) /\ toUs \in Seq(Heard)  BY <1>2 DEF Init
<1>4. Unread \in [Option -> Reading]  BY DEF Unread, Reading
<1>5. agent \in Agent
  <2>1. PICK held \in {FALSE, opening = "Resumed"} :
          agent = [session |-> held, holds |-> Unread, turn |-> 0, asking |-> {},
                   done |-> FALSE, alive |-> TRUE]
    BY Zenon DEF Init
  <2>2. held \in BOOLEAN  BY Zenon
  <2>. QED  BY <1>4, <2>1, <2>2 DEF Agent
<1>6. used \in [Bounds -> Nat]
  BY DEF Init, Bounds
<1>. QED  BY <1>1, <1>3, <1>5, <1>6 DEF Init, Typed, Verdict

LEMMA Spending ==
  ASSUME used \in [Bounds -> Nat], NEW b \in Bounds, Spent(b)
  PROVE  /\ used' \in [Bounds -> Nat]
         /\ used'[b] = used[b] + 1
         /\ \A c \in Bounds \ {b} : used'[c] = used[c]
  BY DEF Spent

LEMMA WiredIs ==
  /\ Wired \in Seq(Option) /\ Len(Wired) = Options
  /\ \A i \in 1..Options : Wired[i] = i
<1>1. Options \in Nat  BY ConversationAssumption
<1>. QED  BY <1>1 DEF Wired, Option

LEMMA GoesTyped ==
  ASSUME Typed, NEW s \in Stage, NEW said \in Said, Goes(s, said)
  PROVE  /\ stage' \in Stage /\ next' \in Nat \ {0} /\ steering' \in Nat
         /\ delayed' \in Nat /\ verdict' \in Verdict /\ toAgent' \in Seq(Said)
  BY AppendLines DEF Goes, Typed

LEMMA EndsTyped ==
  ASSUME Typed, NEW v \in Verdict, Ends(v)
  PROVE  /\ stage' \in Stage /\ next' \in Nat \ {0} /\ steering' \in Nat
         /\ delayed' \in Nat /\ verdict' \in Verdict /\ toAgent' \in Seq(Said)
<1>1. At("Over", 0) \in Stage  BY DEF At, Stage, Reading
<1>. QED  BY <1>1 DEF Ends, Typed

LEMMA StageAt ==
  ASSUME NEW k \in Kinds, NEW id \in Nat PROVE At(k, id) \in Stage
  BY DEF At, Stage, Reading, Kinds

LEMMA SaysSaid ==
  ASSUME NEW k \in {"Initialize", "NewSession", "ListSessions", "LoadSession",
                    "SetOption", "Prompt", "Steer", "Cancel", "Permitted", "Unserved"},
         NEW id \in Nat
  PROVE  Says(k, id) \in Said
  BY DEF Says, Said

LEMMA SettleTyped ==
  ASSUME Typed, NEW readings \in [Option -> Reading], NEW remaining \in Seq(Option),
         Settle(readings, remaining)
  PROVE  /\ stage' \in Stage /\ next' \in Nat \ {0} /\ steering' \in Nat
         /\ delayed' \in Nat /\ verdict' \in Verdict /\ toAgent' \in Seq(Said)
<1>1. next \in Nat  BY DEF Typed
<1>2. CASE remaining = <<>>
  <2>1. Goes(At("Prompting", next), Says("Prompt", next))  BY <1>2 DEF Settle
  <2>2. At("Prompting", next) \in Stage  BY <1>1, StageAt DEF Kinds
  <2>3. Says("Prompt", next) \in Said  BY <1>1, SaysSaid
  <2>. QED  BY <2>1, <2>2, <2>3, GoesTyped
<1>3. CASE remaining # <<>>
  <2> DEFINE o == Head(remaining)
             s == [kind |-> "Settling", asked |-> next, option |-> o,
                   before |-> readings[o], remaining |-> Tail(remaining)]
             said == [Says("SetOption", next) EXCEPT !.option = o]
  <2>1. o \in Option /\ Tail(remaining) \in Seq(Option)  BY <1>3, TailLines
  <2>2. s \in Stage  BY <1>1, <2>1 DEF Stage
  <2>3. said \in Said  BY <1>1, <2>1 DEF Said, Says
  <2>4. Goes(s, said)  BY <1>3 DEF Settle
  <2> HIDE DEF s, said
  <2>. QED  BY <2>2, <2>3, <2>4, GoesTyped
<1>. QED  BY <1>2, <1>3

LEMMA AnswerTyped ==
  ASSUME Typed, NEW h \in Heard,
         Initialised(h) \/ Listed(h) \/ Opened(h) \/ Set(h) \/ Prompted(h)
  PROVE  /\ stage' \in Stage /\ next' \in Nat \ {0} /\ steering' \in Nat
         /\ delayed' \in Nat /\ verdict' \in Verdict /\ toAgent' \in Seq(Said)
         /\ UNCHANGED opening
<1>1. next \in Nat /\ stage.remaining \in Seq(Option)  BY DEF Typed, Stage
<1>2. h.readings \in [Option -> Reading]  BY DEF Heard
<1>3. \A k \in Kinds : At(k, next) \in Stage  BY <1>1, StageAt
<1>4. CASE Initialised(h)
  <2>1. Says("NewSession", next) \in Said /\ Says("ListSessions", next) \in Said
    BY <1>1, SaysSaid
  <2>. QED  BY <1>3, <1>4, <2>1, GoesTyped DEF Initialised, Kinds
<1>5. CASE Listed(h)
  <2>1. Says("LoadSession", next) \in Said  BY <1>1, SaysSaid
  <2>2. Ends("Unreadable") \/ Ends("NothingToResume")
        \/ Goes(At("Loading", next), Says("LoadSession", next))
    BY <1>5 DEF Listed
  <2>3. "Unreadable" \in Verdict /\ "NothingToResume" \in Verdict  BY DEF Verdict
  <2>. QED  BY <1>3, <1>5, <2>1, <2>2, <2>3, GoesTyped, EndsTyped
            DEF Listed, Kinds, settings
<1>6. CASE Opened(h)
  <2>1. "Unreadable" \in Verdict  BY DEF Verdict
  <2>. QED  BY <1>2, <1>6, <2>1, WiredIs, SettleTyped, EndsTyped DEF Opened
<1>7. CASE Set(h)
  <2>1. "Unreadable" \in Verdict /\ "Ignored" \in Verdict  BY DEF Verdict
  <2>. QED  BY <1>1, <1>2, <1>7, <2>1, SettleTyped, EndsTyped DEF Set
<1>8. CASE Prompted(h)
  <2>1. "Unreadable" \in Verdict /\ "Answered" \in Verdict  BY DEF Verdict
  <2>. QED  BY <1>8, <2>1, EndsTyped DEF Prompted, settings
<1>. QED  BY <1>4, <1>5, <1>6, <1>7, <1>8

LEMMA HearTyped ==
  ASSUME Typed, HearLine
  PROVE  Typed'
<1> DEFINE h == Head(toUs)
<1> HIDE DEF h
<1>1. toUs # <<>> /\ toUs' = Tail(toUs) /\ UNCHANGED theirs  BY DEF HearLine
<1>2. h \in Heard /\ toUs' \in Seq(Heard)  BY <1>1, TailLines DEF Typed, h
<1>3. agent' \in Agent /\ last' \in Heard \union {NoLine} /\ used' \in [Bounds -> Nat]
  BY <1>1 DEF theirs, Typed
<1> DEFINE T == /\ stage' \in Stage /\ next' \in Nat \ {0} /\ steering' \in Nat
                /\ delayed' \in Nat /\ verdict' \in Verdict /\ toAgent' \in Seq(Said)
                /\ UNCHANGED opening
<1>4. Ignores => T  BY DEF Ignores, ours, settings, Typed
<1>5. SteerAnswered => T  BY DEF SteerAnswered, settings, Typed
<1>6. ASSUME Answered(h) PROVE T
  BY <1>2, <1>4, <1>5, <1>6, AnswerTyped DEF Answered
<1>7. ASSUME RefusedBy(h) PROVE T
  <2>1. {"RefusedOption", "Protocol"} \subseteq Verdict  BY DEF Verdict
  <2>. QED  BY <1>4, <1>5, <1>7, <2>1, EndsTyped DEF RefusedBy, settings
<1>8. ASSUME Noted PROVE T  BY <1>8 DEF Noted, ours, Typed
<1>9. ASSUME Asked(h) PROVE T
  <2>1. h.id \in Nat  BY <1>2 DEF Heard
  <2>2. Says("Permitted", h.id) \in Said /\ Says("Unserved", h.id) \in Said
    BY <2>1, SaysSaid
  <2>3. toAgent' \in Seq(Said)  BY <1>9, <2>2, AppendLines DEF Asked, Typed
  <2>. QED  BY <1>9, <2>3 DEF Asked, settings, ours, Typed
<1>10. T  BY <1>4, <1>6, <1>7, <1>8, <1>9 DEF HearLine, h
<1>. QED  BY <1>2, <1>3, <1>10 DEF Typed

\* Only Breaks and what is counted change what is spent.
LEMMA ReadSpends ==
  ASSUME Typed, AgentReads
  PROVE  /\ used' \in [Bounds -> Nat]
         /\ used'.faults >= used.faults /\ used.faults \in Nat
<1>1. used.faults \in Nat  BY DEF Typed, Bounds
<1>2. CASE UNCHANGED used  BY <1>1, <1>2 DEF Typed
<1>3. CASE Spent("faults")  BY <1>1, <1>3 DEF Typed, Spent, Bounds
<1>. QED  BY <1>2, <1>3 DEF AgentReads, Breaks

LEMMA ReplyTyped ==
  ASSUME Typed, NEW h \in Heard, Replies(h)
  PROVE  toUs' \in Seq(Heard) /\ last' \in Heard \union {NoLine}
  BY AppendLines DEF Replies, Typed

LEMMA LineHeard ==
  ASSUME NEW k \in {"Answered", "Refused", "Notified", "Asked"}, NEW id \in Nat,
         NEW says \in {"Yes", "No", "Junk"}, NEW readings \in [Option -> Reading]
  PROVE  /\ Line(k, id, says, readings) \in Heard
         /\ Line(k, id, says, readings).kind = k
         /\ Line(k, id, says, readings).id = id
         /\ Line(k, id, says, readings).says = says
         /\ Line(k, id, says, readings).readings = readings
  BY DEF Line, Heard

LEMMA DefaultTyped ==
  /\ \A d \in Defaults : d \in [Option -> Reading]
  /\ Unread \in [Option -> Reading]
  BY ConversationAssumption DEF Unread, Reading

\* What the agent makes of a line: at most one answer, and its own state.
LEMMA ReadsAnswer ==
  ASSUME Typed, AgentReads
  PROVE  \/ UNCHANGED <<toUs, last>>
         \/ \E h \in Heard : Replies(h)
<1> DEFINE said == Head(toAgent)
<1> HIDE DEF said
<1>1. said \in Said  BY TailLines DEF AgentReads, Typed, said
<1>2. said.id \in Nat  BY <1>1 DEF Said
<1>3. agent.holds \in [Option -> Reading] /\ agent.turn \in Nat  BY DEF Typed, Agent
<1>4. \/ Initialized(said) \/ SessionMade(said) \/ SessionsHeld(said)
      \/ SessionLoaded(said) \/ OptionSet(said) \/ TurnStarted(said)
      \/ Steered(said) \/ TurnCancelled(said) \/ AskAnswered(said) \/ Breaks(said)
  BY DEF AgentReads, said
<1>5. CASE Initialized(said) \/ SessionsHeld(said) \/ Steered(said)
  <2>1. PICK says \in {"Yes", "No"} :
          Replies(Line("Answered", said.id, says, Unread))
    BY <1>5 DEF Initialized, SessionsHeld, Steered
  <2>. QED  BY <1>2, <2>1, LineHeard, DefaultTyped
<1>6. CASE SessionMade(said) \/ SessionLoaded(said)
  <2>1. PICK d \in Defaults : Replies(Line("Answered", said.id, "Yes", d))
    BY <1>6 DEF SessionMade, SessionLoaded
  <2>2. d \in [Option -> Reading]  BY DefaultTyped
  <2>3. Line("Answered", said.id, "Yes", d) \in Heard  BY <1>2, <2>2, LineHeard
  <2>. QED  BY <2>1, <2>3
<1>7. CASE OptionSet(said)
  BY <1>2, <1>7, LineHeard, DefaultTyped DEF OptionSet
<1>8. CASE TurnStarted(said) \/ AskAnswered(said)
  BY <1>8 DEF TurnStarted, AskAnswered
<1>9. CASE TurnCancelled(said)
  BY <1>3, <1>9, LineHeard, DefaultTyped DEF TurnCancelled, EndsTurn
<1>10. CASE Breaks(said)
  BY <1>2, <1>3, <1>10, LineHeard, DefaultTyped DEF Breaks
<1>. QED  BY <1>4, <1>5, <1>6, <1>7, <1>8, <1>9, <1>10

LEMMA ReadsAgent ==
  ASSUME Typed, AgentReads
  PROVE  agent' \in Agent
<1> DEFINE said == Head(toAgent)
<1> HIDE DEF said
<1>1. said \in Said  BY TailLines DEF AgentReads, Typed, said
<1>2. said.id \in Nat  BY <1>1 DEF Said
<1>3. agent \in Agent  BY DEF Typed
<1>4. \/ Initialized(said) \/ SessionMade(said) \/ SessionsHeld(said)
      \/ SessionLoaded(said) \/ OptionSet(said) \/ TurnStarted(said)
      \/ Steered(said) \/ TurnCancelled(said) \/ AskAnswered(said) \/ Breaks(said)
  BY DEF AgentReads, said
<1>5. CASE UNCHANGED agent  BY <1>3, <1>5
<1>6. CASE SessionMade(said) \/ SessionLoaded(said)
  BY <1>3, <1>6, DefaultTyped DEF SessionMade, SessionLoaded, Agent
<1>7. CASE OptionSet(said)
  BY <1>3, <1>5, <1>7 DEF OptionSet, Agent
<1>8. CASE TurnStarted(said)
  BY <1>2, <1>3, <1>8 DEF TurnStarted, Agent
<1>9. CASE AskAnswered(said)
  BY <1>3, <1>9 DEF AskAnswered, Agent
<1>10. CASE EndsTurn
  BY <1>3, <1>10 DEF EndsTurn, Agent
<1>. QED  BY <1>4, <1>5, <1>6, <1>7, <1>8, <1>9, <1>10
          DEF Initialized, SessionsHeld, Steered, TurnCancelled, Breaks

LEMMA ReadTyped ==
  ASSUME Typed, AgentReads
  PROVE  Typed'
<1>1. toAgent' \in Seq(Said)  BY TailLines DEF AgentReads, Typed
<1>2. toUs' \in Seq(Heard) /\ last' \in Heard \union {NoLine}
  BY ReadsAnswer, ReplyTyped DEF Typed
<1>3. UNCHANGED <<opening, stage, next, steering, verdict, delayed>>
  BY DEF AgentReads, settings, ours
<1>. QED  BY <1>1, <1>2, <1>3, ReadsAgent, ReadSpends DEF Typed

LEMMA TalkTyped ==
  ASSUME Typed, AgentTalks
  PROVE  Typed'
<1>1. UNCHANGED <<opening, stage, next, steering, verdict, delayed, toAgent>>
  BY DEF AgentTalks, settings, ours
<1>2. agent \in Agent /\ used \in [Bounds -> Nat] /\ agent.turn \in Nat
  BY DEF Typed, Agent
<1>3. used.asks + 1 \in Nat  BY <1>2 DEF Bounds
<1>4. CASE Spent("words") /\ UNCHANGED <<agent, last>>
           /\ toUs' = Append(toUs, Line("Notified", 0, "Yes", Unread))
  <2>1. Line("Notified", 0, "Yes", Unread) \in Heard  BY LineHeard, DefaultTyped
  <2>2. toUs' \in Seq(Heard)  BY <1>4, <2>1, AppendLines DEF Typed
  <2>3. used' \in [Bounds -> Nat]  BY <1>2, <1>4, Spending DEF Bounds
  <2>. QED  BY <1>1, <1>4, <2>2, <2>3 DEF Typed
<1>5. CASE /\ Spent("asks") /\ UNCHANGED last
           /\ agent' = [agent EXCEPT !.asking = {used.asks + 1}]
           /\ \E permission \in {"Yes", "No"} :
                toUs' = Append(toUs, Line("Asked", used.asks + 1, permission, Unread))
  <2>1. \A p \in {"Yes", "No"} : Line("Asked", used.asks + 1, p, Unread) \in Heard
    BY <1>3, LineHeard, DefaultTyped
  <2>2. toUs' \in Seq(Heard)  BY <1>5, <2>1, AppendLines DEF Typed
  <2>3. used' \in [Bounds -> Nat]  BY <1>2, <1>5, Spending DEF Bounds
  <2>4. agent' \in Agent  BY <1>2, <1>3, <1>5 DEF Agent
  <2>. QED  BY <1>1, <1>5, <2>2, <2>3, <2>4 DEF Typed
<1>6. CASE EndsTurn /\ UNCHANGED used
  <2>1. Line("Answered", agent.turn, "Yes", Unread) \in Heard
    BY <1>2, LineHeard, DefaultTyped
  <2>2. agent' \in Agent  BY <1>2, <1>6 DEF EndsTurn, Agent
  <2>. QED  BY <1>1, <1>2, <1>6, <2>1, <2>2, ReplyTyped DEF EndsTurn, Typed
<1>. QED  BY <1>4, <1>5, <1>6 DEF AgentTalks

LEMMA TypedSteps ==
  ASSUME Typed, [Next]_vars
  PROVE  Typed'
<1>1. CASE HearLine  BY <1>1, HearTyped
<1>2. CASE ProcessEnded
  <2>1. "Stopped" \in Verdict  BY DEF Verdict
  <2>. QED  BY <1>2, <2>1, EndsTyped DEF ProcessEnded, settings, theirs, Typed
<1>3. CASE Steer
  <2>1. used' \in [Bounds -> Nat]  BY <1>3, Spending DEF Steer, Typed, Bounds
  <2>. QED  BY <1>3, <2>1 DEF Steer, settings, lines, Typed
<1>4. CASE SteerSent
  <2>1. Says("Steer", delayed) \in Said  BY SaysSaid DEF Typed
  <2>2. toAgent' \in Seq(Said)  BY <1>4, <2>1, AppendLines DEF SteerSent, Typed
  <2>. QED  BY <1>4, <2>2 DEF SteerSent, settings, theirs, Typed
<1>5. CASE SteerDropped
  <2>1. used' \in [Bounds -> Nat]  BY <1>5, Spending DEF SteerDropped, Typed, Bounds
  <2>. QED  BY <1>5, <2>1 DEF SteerDropped, settings, lines, Typed
<1>6. CASE Cancel
  <2>1. used' \in [Bounds -> Nat]  BY <1>6, Spending DEF Cancel, Typed, Bounds
  <2>2. Says("Cancel", 0) \in Said  BY SaysSaid
  <2>3. toAgent' \in Seq(Said)  BY <1>6, <2>2, AppendLines DEF Cancel, Typed
  <2>. QED  BY <1>6, <2>1, <2>3 DEF Cancel, settings, ours, Typed
<1>7. CASE AgentReads  BY <1>7, ReadTyped
<1>8. CASE AgentTalks  BY <1>8, TalkTyped
<1>9. CASE AgentRepeats
  <2>1. used' \in [Bounds -> Nat]  BY <1>9, Spending DEF AgentRepeats, Typed, Bounds
  <2>2. toUs' \in Seq(Heard)  BY <1>9, AppendLines DEF AgentRepeats, Typed
  <2>. QED  BY <1>9, <2>1, <2>2 DEF AgentRepeats, settings, ours, Typed
<1>10. CASE AgentEnds
  <2>1. used' \in [Bounds -> Nat]  BY <1>10, Spending DEF AgentEnds, Typed, Bounds
  <2>2. agent' \in Agent  BY <1>10 DEF AgentEnds, Typed, Agent
  <2>. QED  BY <1>10, <2>1, <2>2 DEF AgentEnds, settings, ours, lines, Typed
<1>11. CASE UNCHANGED vars
  BY <1>11 DEF vars, settings, ours, lines, theirs, Typed
<1>. QED  BY <1>1, <1>2, <1>3, <1>4, <1>5, <1>6, <1>7, <1>8, <1>9, <1>10, <1>11 DEF Next

----------------------------------------------------------------------------
(* Whose answer is whose. *)

Told == Lines(toUs) \union ({last} \ {NoLine})

Setup == {"Initialising", "Opening", "Listing", "Loading", "Settling"}
Later == {"Prompt", "Steer", "Cancel", "Permitted", "Unserved"}
Good  == {"Asked", "Alias"}

Asks == [Initialising |-> "Initialize", Opening |-> "NewSession",
         Listing |-> "ListSessions", Loading |-> "LoadSession",
         Settling |-> "SetOption"]

\* What a stage before the question waits on.
Request == [kind |-> Asks[stage.kind], id |-> stage.asked, option |-> stage.option]

\* What answers, answers something that was asked: no identifier is used twice,
\* and a message handed over is never taken for the question.
Identified ==
  /\ stage.asked < next /\ delayed < next /\ agent.turn < next
  /\ \A h \in Told : h.kind \in {"Answered", "Refused"} => h.id < next
  /\ \A s \in Lines(toAgent) :
       s.kind \notin {"Cancel", "Permitted", "Unserved"} => s.id < next
  /\ stage.kind = "Prompting" =>
       /\ stage.asked \notin {0, delayed}
       /\ \A s \in Lines(toAgent) : s.kind = "Steer" => s.id # stage.asked
       /\ \A h \in Told : h.kind = "Answered" /\ h.id = stage.asked /\ h.says # "Junk"
            => agent.done

\* One thing is asked at a time, and answered once, before the question.
Asking == stage.kind \in Setup =>
  /\ agent.turn = 0 /\ delayed = 0
  /\ toAgent \in {<<>>, <<Request>>}
  /\ \A h \in Told : h.kind \in {"Answered", "Refused"}
  /\ toAgent # <<>> => \A h \in Told : h.id # stage.asked

\* What an answer says of the session is so.
Answering ==
  \A h \in Told : h.id = stage.asked /\ h.kind = "Answered" /\ h.says # "Junk" =>
    /\ stage.kind \in {"Opening", "Loading", "Settling"} => h.readings = agent.holds
    /\ stage.kind = "Settling" => agent.holds[stage.option] \in Good \union {stage.before}
    /\ stage.kind = "Listing" /\ h.says = "No" => ~agent.session \/ used.faults > 0

\* Options are set in their order, and those set stay so.
Settles == stage.kind = "Settling" =>
  /\ stage.option \in Option
  /\ \A o \in Option : o < stage.option => agent.holds[o] \in Good
  /\ Len(stage.remaining) = Options - stage.option
  /\ \A i \in 1..Len(stage.remaining) : stage.remaining[i] = stage.option + i
  /\ toAgent # <<>> => stage.before = agent.holds[stage.option]

AllSet == \A o \in Option : agent.holds[o] \in Good

\* The question waits on every option.
Kit ==
  /\ agent.alive /\ stage.kind \in {"Prompting", "Over"} =>
       \A s \in Lines(toAgent) : s.kind \in Later
  /\ stage.kind = "Prompting" => AllSet
  /\ agent.turn # 0 \/ (agent.alive /\ \E s \in Lines(toAgent) : s.kind = "Prompt")
       => AllSet

\* How it ended is what it was told.
Truthful ==
  /\ verdict = "NothingToResume" => ~agent.session \/ used.faults > 0
  /\ verdict = "Answered" => agent.done
  /\ verdict # "None" => stage.kind = "Over"

Proper == Typed /\ Held /\ Identified /\ Asking /\ Answering /\ Settles /\ Kit /\ Truthful

\* The parts that look at what was told, on both sides of a step.
LEMMA Quietly ==
  ASSUME Proper, Typed', Held', UNCHANGED <<stage, next, verdict, delayed, toAgent, agent>>,
         Told' \subseteq Told, used'.faults >= used.faults
  PROVE  Proper'
<1>0. used.faults \in Nat /\ used'.faults \in Nat  BY DEF Proper, Typed, Bounds
<1>1. Identified'  BY DEF Proper, Identified
<1>2. Asking'  BY DEF Proper, Asking, Request
<1>3. Answering'  BY <1>0 DEF Proper, Answering
<1>4. Settles'  BY DEF Proper, Settles
<1>5. Kit'  BY DEF Proper, Kit, AllSet
<1>6. Truthful'  BY <1>0 DEF Proper, Truthful
<1>. QED  BY <1>1, <1>2, <1>3, <1>4, <1>5, <1>6 DEF Proper

LEMMA ToldIs ==
  ASSUME Typed
  PROVE  /\ \A h \in Told : h \in Heard
         /\ \A h \in Lines(toUs) : h \in Told
  BY LinesAre DEF Typed, Told

LEMMA ToldOfReply ==
  ASSUME Typed, NEW h \in Heard, Replies(h)
  PROVE  \A x \in Told' : x \in Told \/ x = h
<1>1. Lines(toUs') = Lines(toUs) \union {h}  BY AppendLines DEF Replies, Typed
<1>. QED  BY <1>1 DEF Told, Replies

LEMMA ToldOfMore ==
  ASSUME Typed, NEW h \in Heard, toUs' = Append(toUs, h), UNCHANGED last
  PROVE  \A x \in Told' : x \in Told \/ x = h
<1>1. Lines(toUs') = Lines(toUs) \union {h}  BY AppendLines DEF Typed
<1>. QED  BY <1>1 DEF Told

LEMMA ToldOfLess ==
  ASSUME Typed, toUs # <<>>, toUs' = Tail(toUs), UNCHANGED last
  PROVE  Told' \subseteq Told /\ Head(toUs) \in Told
<1>1. Lines(toUs') \subseteq Lines(toUs) /\ Head(toUs) \in Lines(toUs)
  BY TailLines DEF Typed
<1>. QED  BY <1>1 DEF Told

\* It ends.
LEMMA EndsProper ==
  ASSUME Proper, Typed', Held', NEW v \in Verdict, Ends(v), stage.kind # "Over",
         UNCHANGED <<agent, used>>, Told' \subseteq Told,
         stage.kind \in Setup => toAgent = <<>> \/ ~agent.alive,
         v = "Answered" => agent.done,
         v = "NothingToResume" => ~agent.session \/ used.faults > 0
  PROVE  Proper'
<1>1. stage' = At("Over", 0) /\ verdict' = v /\ UNCHANGED <<next, delayed, toAgent>>
  BY DEF Ends
<1>2. stage'.kind = "Over" /\ stage'.asked = 0  BY <1>1 DEF At
<1>3. next \in Nat \ {0}  BY DEF Proper, Typed
<1>4. Identified'  BY <1>1, <1>2, <1>3 DEF Proper, Identified
<1>5. Asking' /\ Answering' /\ Settles'  BY <1>2 DEF Asking, Answering, Settles, Setup
<1>6. Lines(<<>>) = {}  BY DEF Lines
<1>7. agent.alive => \A s \in Lines(toAgent) : s.kind \in Later
  BY <1>6 DEF Proper, Held, Kit, Kinds, Setup
<1>8. Kit'  BY <1>1, <1>2, <1>7 DEF Proper, Kit, AllSet
<1>9. Truthful'  BY <1>1, <1>2 DEF Truthful
<1>. QED  BY <1>4, <1>5, <1>8, <1>9 DEF Proper

\* It goes on to something else to ask for.
LEMMA GoesProper ==
  ASSUME Proper, Typed', Held', NEW s, NEW said \in Said, Goes(s, said),
         stage.kind \in Setup, toAgent = <<>>, UNCHANGED <<agent, used>>,
         Told' \subseteq Told,
         s.kind \in Setup, s.asked = next,
         said.kind = Asks[s.kind], said.id = next, said.option = s.option,
         s.kind = "Settling" =>
            /\ s.option \in Option
            /\ \A o \in Option : o < s.option => agent.holds[o] \in Good
            /\ Len(s.remaining) = Options - s.option
            /\ \A i \in 1..Len(s.remaining) : s.remaining[i] = s.option + i
            /\ s.before = agent.holds[s.option]
  PROVE  Proper'
<1>1. stage' = s /\ next' = next + 1 /\ toAgent' = <<said>>
      /\ UNCHANGED <<verdict, delayed>>
  BY DEF Goes
<1>2. next \in Nat \ {0}  BY DEF Proper, Typed
<1>3. delayed = 0 /\ agent.turn = 0 /\ \A h \in Told : h.kind \in {"Answered", "Refused"}
  BY DEF Proper, Asking
<1>4. \A h \in Told : h.id < next /\ h.id # next
  <2>1. TAKE h \in Told
  <2>2. h.id < next  BY <1>3 DEF Proper, Identified
  <2>3. h.id \in Nat  BY ToldIs DEF Proper, Heard
  <2>. QED  BY <1>2, <2>2, <2>3
<1>5. Lines(toAgent') = {said}  BY <1>1 DEF Lines
<1>6. stage'.kind \notin {"Prompting", "Over"}  BY <1>1 DEF Setup
<1>7. said = Request'  BY <1>1 DEF Said, Request
<1>8. Identified'
  <2>1. \A h \in Told' : h.id < next + 1
    <3>1. TAKE h \in Told'
    <3>2. h \in Told /\ h.id \in Nat  BY ToldIs DEF Proper, Heard
    <3>. QED  BY <1>2, <1>4, <3>2
  <2>. QED  BY <1>1, <1>2, <1>3, <1>5, <1>6, <2>1 DEF Identified
<1>9. Asking'
  BY <1>1, <1>3, <1>4, <1>7 DEF Asking
<1>10. Answering'
  BY <1>1, <1>4 DEF Answering
<1>11. Settles'
  BY <1>1 DEF Settles
<1>12. Kit'
  <2>1. said.kind # "Prompt"  BY DEF Asks, Setup
  <2>. QED  BY <1>1, <1>3, <1>5, <1>6, <2>1 DEF Kit
<1>13. Truthful'
  BY <1>1 DEF Proper, Truthful, Setup
<1>. QED  BY <1>8, <1>9, <1>10, <1>11, <1>12, <1>13 DEF Proper

\* It puts the question.
LEMMA PutsProper ==
  ASSUME Proper, Typed', Held', Goes(At("Prompting", next), Says("Prompt", next)),
         stage.kind \in Setup, toAgent = <<>>, UNCHANGED <<agent, used>>,
         Told' \subseteq Told, AllSet
  PROVE  Proper'
<1> DEFINE said == Says("Prompt", next)
<1>1. stage' = At("Prompting", next) /\ next' = next + 1 /\ toAgent' = <<said>>
      /\ UNCHANGED <<verdict, delayed>>
  BY DEF Goes
<1>2. next \in Nat \ {0}  BY DEF Proper, Typed
<1>3. delayed = 0 /\ agent.turn = 0 /\ \A h \in Told : h.kind \in {"Answered", "Refused"}
  BY DEF Proper, Asking
<1>4. \A h \in Told : h.id < next /\ h.id # next
  <2>1. TAKE h \in Told
  <2>2. h.id < next  BY <1>3 DEF Proper, Identified
  <2>3. h.id \in Nat  BY ToldIs DEF Proper, Heard
  <2>. QED  BY <1>2, <2>2, <2>3
<1>5. Lines(toAgent') = {said}  BY <1>1 DEF Lines
<1>6. stage'.kind = "Prompting" /\ stage'.asked = next  BY <1>1 DEF At
<1>7. said.kind = "Prompt" /\ said.id = next  BY DEF Says
<1> HIDE DEF said
<1>8. Identified'
  <2>1. \A h \in Told' : h.id < next + 1
    <3>1. TAKE h \in Told'
    <3>2. h \in Told /\ h.id \in Nat  BY ToldIs DEF Proper, Heard
    <3>. QED  BY <1>2, <1>4, <3>2
  <2>. QED  BY <1>1, <1>2, <1>3, <1>4, <1>5, <1>6, <1>7, <2>1 DEF Identified
<1>9. Asking' /\ Settles'
  BY <1>6 DEF Asking, Settles, Setup
<1>10. Answering'
  BY <1>4, <1>6 DEF Answering
<1>12. Kit'
  BY <1>1, <1>3, <1>5, <1>6, <1>7 DEF Kit, Later, AllSet
<1>13. Truthful'
  BY <1>1, <1>6 DEF Proper, Truthful, Setup
<1>. QED  BY <1>8, <1>9, <1>10, <1>12, <1>13 DEF Proper

\* The next option, or the question.
LEMMA SettleProper ==
  ASSUME Proper, Typed', Held', NEW remaining \in Seq(Option),
         Settle(agent.holds, remaining),
         stage.kind \in Setup, toAgent = <<>>, UNCHANGED <<agent, used>>,
         Told' \subseteq Told,
         NEW n \in Nat, Len(remaining) = Options - n,
         \A i \in 1..Len(remaining) : remaining[i] = n + i,
         \A o \in Option : o <= n => agent.holds[o] \in Good
  PROVE  Proper'
<1>1. Options \in Nat  BY ConversationAssumption
<1>2. CASE remaining = <<>>
  <2>1. AllSet  BY <1>1, <1>2 DEF AllSet, Option
  <2>2. Goes(At("Prompting", next), Says("Prompt", next))  BY <1>2 DEF Settle
  <2>. QED  BY <2>1, <2>2, PutsProper
<1>3. CASE remaining # <<>>
  <2> DEFINE o == Head(remaining)
             rest == Tail(remaining)
             s == [kind |-> "Settling", asked |-> next, option |-> o,
                   before |-> agent.holds[o], remaining |-> rest]
             said == [Says("SetOption", next) EXCEPT !.option = o]
  <2>1. next \in Nat  BY DEF Proper, Typed
  <2>2. o \in Option /\ o = n + 1  BY <1>3
  <2>3. Len(rest) = Options - o /\ \A i \in 1..Len(rest) : rest[i] = o + i
    <3>1. /\ Len(remaining) \in Nat /\ Len(rest) = Len(remaining) - 1
          /\ \A i \in 1..Len(rest) : rest[i] = remaining[i + 1] /\ i + 1 \in 1..Len(remaining)
      BY <1>3
    <3> HIDE DEF rest, o
    <3>. QED  BY <1>1, <2>2, <3>1
  <2>4. Goes(s, said)  BY <1>3 DEF Settle
  <2>5. said \in Said /\ said.kind = Asks["Settling"] /\ said.id = next /\ said.option = o
    BY <2>1, <2>2 DEF Said, Says, Asks
  <2>6. /\ s.kind = "Settling" /\ s.asked = next /\ s.option = o
        /\ s.before = agent.holds[o] /\ s.remaining = rest
    OBVIOUS
  <2>7. \A x \in Option : x < o => x <= n  BY <1>1, <2>2 DEF Option
  <2> HIDE DEF s, said, rest, o
  <2>. QED  BY <2>2, <2>3, <2>4, <2>5, <2>6, <2>7, GoesProper DEF Setup
<1>. QED  BY <1>2, <1>3

LEMMA AnswerProper ==
  ASSUME Proper, Typed', Held', NEW h \in Told, h.kind = "Answered", h.id = stage.asked,
         Initialised(h) \/ Listed(h) \/ Opened(h) \/ Set(h) \/ Prompted(h),
         UNCHANGED <<agent, used>>, Told' \subseteq Told
  PROVE  Proper'
<1>1. stage.kind \in Setup => toAgent = <<>>  BY DEF Proper, Asking
<1>2. next \in Nat /\ stage \in Stage /\ Options \in Nat
  BY ConversationAssumption DEF Proper, Typed
<1>3. CASE Initialised(h)
  <2>1. \E k \in {"Opening", "Listing"} : Goes(At(k, next), Says(Asks[k], next))
    BY <1>3 DEF Initialised, Asks
  <2>2. \A k \in {"Opening", "Listing"} :
          /\ Says(Asks[k], next) \in Said /\ Says(Asks[k], next).kind = Asks[k]
          /\ Says(Asks[k], next).id = next
          /\ Says(Asks[k], next).option = At(k, next).option
          /\ At(k, next).kind = k /\ At(k, next).asked = next
    BY <1>2 DEF Says, Said, At, Asks
  <2>. QED  BY <1>1, <1>3, <2>1, <2>2, GoesProper DEF Initialised, Setup
<1>4. CASE Listed(h)
  <2>1. CASE h.says = "Junk"
    <3>1. Ends("Unreadable")  BY <1>4, <2>1 DEF Listed
    <3>. QED  BY <1>1, <1>4, <3>1, EndsProper DEF Listed, Verdict, Setup
  <2>2. CASE h.says = "No"
    <3>1. Ends("NothingToResume")  BY <1>4, <2>2 DEF Listed
    <3>2. ~agent.session \/ used.faults > 0
      BY <1>4, <2>2 DEF Listed, Proper, Answering
    <3>. QED  BY <1>1, <1>4, <3>1, <3>2, EndsProper DEF Listed, Verdict, Setup
  <2>3. CASE h.says \notin {"Junk", "No"}
    <3>1. Goes(At("Loading", next), Says("LoadSession", next))
      BY <1>4, <2>3 DEF Listed
    <3>2. /\ Says("LoadSession", next) \in Said
          /\ Says("LoadSession", next).kind = Asks["Loading"]
          /\ Says("LoadSession", next).id = next
          /\ Says("LoadSession", next).option = At("Loading", next).option
          /\ At("Loading", next).kind = "Loading" /\ At("Loading", next).asked = next
      BY <1>2 DEF Says, Said, At, Asks
    <3>. QED  BY <1>1, <1>4, <3>1, <3>2, GoesProper DEF Listed, Setup
  <2>. QED  BY <2>1, <2>2, <2>3
<1>5. CASE Opened(h)
  <2>1. stage.kind \in Setup  BY <1>5 DEF Opened, Setup
  <2>2. CASE h.says = "Junk"
    <3>1. Ends("Unreadable")  BY <1>5, <2>2 DEF Opened
    <3>. QED  BY <1>1, <2>1, <3>1, EndsProper DEF Verdict, Setup
  <2>3. CASE h.says # "Junk"
    <3>1. h.readings = agent.holds  BY <1>5, <2>3 DEF Opened, Proper, Answering
    <3>2. Settle(agent.holds, Wired)  BY <1>5, <2>3, <3>1 DEF Opened
    <3> HIDE DEF Wired
    <3>3. Len(Wired) = Options - 0 /\ \A i \in 1..Len(Wired) : Wired[i] = 0 + i
      BY <1>2, WiredIs
    <3>4. \A o \in Option : o <= 0 => agent.holds[o] \in Good  BY <1>2 DEF Option
    <3>. QED  BY <1>1, <2>1, <3>2, <3>3, <3>4, WiredIs, SettleProper
  <2>. QED  BY <2>2, <2>3
<1>6. CASE Set(h)
  <2>1. stage.kind = "Settling" /\ stage.kind \in Setup  BY <1>6 DEF Set, Setup
  <2>2. CASE h.says = "Junk"
    <3>1. Ends("Unreadable")  BY <1>6, <2>2 DEF Set
    <3>. QED  BY <1>1, <2>1, <3>1, EndsProper DEF Verdict, Setup
  <2>3. CASE h.says # "Junk" /\ ~Took(stage.before, h.readings[stage.option])
    <3>1. Ends("Ignored")  BY <1>6, <2>3 DEF Set
    <3>. QED  BY <1>1, <2>1, <3>1, EndsProper DEF Verdict, Setup
  <2>4. CASE h.says # "Junk" /\ Took(stage.before, h.readings[stage.option])
    <3>1. h.readings = agent.holds /\ agent.holds[stage.option] \in Good \union {stage.before}
      BY <2>1, <2>4 DEF Proper, Answering
    <3>2. Settle(agent.holds, stage.remaining)  BY <1>6, <2>4, <3>1 DEF Set
    <3>3. agent.holds[stage.option] \in Good  BY <2>4, <3>1 DEF Took, Good
    <3>4. /\ stage.option \in Option
          /\ \A o \in Option : o < stage.option => agent.holds[o] \in Good
          /\ Len(stage.remaining) = Options - stage.option
          /\ \A i \in 1..Len(stage.remaining) : stage.remaining[i] = stage.option + i
      BY <2>1 DEF Proper, Settles
    <3>5. \A o \in Option : o <= stage.option => agent.holds[o] \in Good
      <4>1. TAKE o \in Option
      <4>2. CASE o = stage.option  BY <3>3, <4>2
      <4>3. CASE o # stage.option  BY <3>4, <4>3 DEF Option
      <4>. QED  BY <4>2, <4>3
    <3>6. stage.remaining \in Seq(Option) /\ stage.option \in Nat
      BY <1>2, <3>4 DEF Stage, Option
    <3>. QED  BY <1>1, <2>1, <3>2, <3>4, <3>5, <3>6, SettleProper
  <2>. QED  BY <2>2, <2>3, <2>4
<1>7. CASE Prompted(h)
  <2>1. stage.kind = "Prompting"  BY <1>7 DEF Prompted
  <2>2. CASE h.says = "Junk"
    <3>1. Ends("Unreadable")  BY <1>7, <2>2 DEF Prompted
    <3>. QED  BY <2>1, <3>1, EndsProper DEF Verdict, Setup
  <2>3. CASE h.says # "Junk"
    <3>1. Ends("Answered")  BY <1>7, <2>3 DEF Prompted
    <3>2. agent.done  BY <2>1, <2>3 DEF Proper, Identified
    <3>. QED  BY <2>1, <3>1, <3>2, EndsProper DEF Verdict, Setup
  <2>. QED  BY <2>2, <2>3
<1>. QED  BY <1>3, <1>4, <1>5, <1>6, <1>7

\* It is asked for something, and answers it.
LEMMA AskedProper ==
  ASSUME Proper, Typed', Held', NEW said \in Said, said.kind \in {"Permitted", "Unserved"},
         toAgent' = Append(toAgent, said), stage.kind \notin Setup,
         UNCHANGED <<stage, next, verdict, delayed, agent, used>>, Told' \subseteq Told
  PROVE  Proper'
<1>1. Lines(toAgent') = Lines(toAgent) \union {said}  BY AppendLines DEF Proper, Typed
<1>2. Identified'  BY <1>1 DEF Proper, Identified
<1>3. Asking' /\ Settles'  BY DEF Asking, Settles, Setup
<1>4. Answering'  BY DEF Proper, Answering
<1>5. Kit'  BY <1>1 DEF Proper, Kit, AllSet, Later
<1>6. Truthful'  BY DEF Proper, Truthful
<1>. QED  BY <1>2, <1>3, <1>4, <1>5, <1>6 DEF Proper

LEMMA HearProper ==
  ASSUME Proper, HearLine
  PROVE  Proper'
<1> DEFINE h == Head(toUs)
<1>1. Typed' /\ Held'  BY HearTyped, HearLineLeads DEF Proper
<1>2. toUs # <<>> /\ toUs' = Tail(toUs) /\ UNCHANGED <<agent, last, used>>
  BY DEF HearLine, theirs
<1>3. Told' \subseteq Told /\ h \in Told /\ h \in Heard  BY <1>2, ToldOfLess, ToldIs DEF Proper
<1>4. HearLine => IF stage.kind = "Over" THEN Ignores
                  ELSE \/ h.kind = "Answered" /\ Answered(h)
                       \/ h.kind = "Refused" /\ RefusedBy(h)
                       \/ h.kind = "Notified" /\ Noted
                       \/ h.kind = "Asked" /\ Asked(h)
  BY DEF HearLine
<1> HIDE DEF h
<1>5. used.faults \in Nat  BY DEF Proper, Typed, Bounds
<1>6. CASE UNCHANGED <<stage, next, verdict, delayed, toAgent>>
  BY <1>1, <1>2, <1>3, <1>5, <1>6, Quietly
<1>7. Ignores \/ SteerAnswered \/ Noted => UNCHANGED <<stage, next, verdict, delayed, toAgent>>
  BY DEF Ignores, SteerAnswered, Noted, ours
<1>8. CASE stage.kind # "Over" /\ h.kind = "Answered" /\ h.id = stage.asked
           /\ (Initialised(h) \/ Listed(h) \/ Opened(h) \/ Set(h) \/ Prompted(h))
  BY <1>1, <1>2, <1>3, <1>8, AnswerProper
<1>9. CASE stage.kind # "Over" /\ h.id = stage.asked /\ h.kind = "Refused"
           /\ Ends(IF stage.kind = "Settling" THEN "RefusedOption" ELSE "Protocol")
  <2>1. stage.kind \in Setup => toAgent = <<>>  BY <1>3, <1>9 DEF Proper, Asking
  <2>2. PICK v \in {"RefusedOption", "Protocol"} : Ends(v)  BY <1>9
  <2>. QED  BY <1>1, <1>2, <1>3, <1>9, <2>1, <2>2, EndsProper DEF Verdict
<1>10. CASE stage.kind # "Over" /\ h.kind = "Asked" /\ Asked(h)
  <2>1. stage.kind \notin Setup  BY <1>3, <1>10 DEF Proper, Asking
  <2>2. h.id \in Nat  BY <1>3 DEF Heard
  <2>3. PICK k \in {"Permitted", "Unserved"} : toAgent' = Append(toAgent, Says(k, h.id))
    BY <1>10 DEF Asked
  <2>4. Says(k, h.id) \in Said /\ Says(k, h.id).kind = k  BY <2>2, SaysSaid DEF Says
  <2>5. UNCHANGED <<stage, next, verdict, delayed>>  BY <1>10 DEF Asked, ours
  <2> DEFINE said == Says(k, h.id)
  <2> HIDE DEF said
  <2>6. toAgent' = Append(toAgent, said) /\ said \in Said /\ said.kind \in {"Permitted", "Unserved"}
    BY <2>3, <2>4 DEF said
  <2>. QED  BY <1>1, <1>2, <1>3, <2>1, <2>5, <2>6, AskedProper
<1>. QED
  BY <1>4, <1>6, <1>7, <1>8, <1>9, <1>10 DEF Answered, RefusedBy, WaitingOn

\* The agent answers what is asked before the question.
LEMMA AnswersProper ==
  ASSUME Proper, Typed', Held', stage.kind \in Setup, toAgent = <<Request>>, toAgent' = <<>>,
         UNCHANGED <<stage, next, verdict, delayed>>, used'.faults >= used.faults,
         NEW h \in Heard, Replies(h), h.id = stage.asked, h.kind \in {"Answered", "Refused"},
         agent'.turn = 0,
         stage.kind = "Settling" =>
            \A o \in Option : o < stage.option => agent'.holds[o] = agent.holds[o],
         h.kind = "Answered" /\ h.says # "Junk" =>
            /\ stage.kind \in {"Opening", "Loading", "Settling"} => h.readings = agent'.holds
            /\ stage.kind = "Settling" =>
                 agent'.holds[stage.option] \in Good \union {stage.before}
            /\ stage.kind = "Listing" /\ h.says = "No" => ~agent'.session \/ used'.faults > 0
  PROVE  Proper'
<1>1. \A x \in Told' : x \in Told \/ x = h  BY ToldOfReply DEF Proper
<1>2. \A x \in Told : x.id # stage.asked /\ x.kind \in {"Answered", "Refused"}
  BY DEF Proper, Asking
<1>3. Lines(toAgent') = {}  BY DEF Lines
<1>4. next \in Nat \ {0} /\ stage.kind \notin {"Prompting", "Over"} /\ stage.asked < next
  BY DEF Proper, Typed, Setup, Identified
<1>5. Identified'
  BY <1>1, <1>3, <1>4 DEF Proper, Identified
<1>6. Asking'
  BY <1>1, <1>2 DEF Proper, Asking
<1>7. Answering'
  BY <1>1, <1>2 DEF Answering
<1>8. Settles'
  BY DEF Proper, Settles
<1>9. Kit'
  BY <1>3, <1>4 DEF Kit
<1>10. Truthful'
  BY <1>4 DEF Proper, Truthful
<1>. QED  BY <1>5, <1>6, <1>7, <1>8, <1>9, <1>10 DEF Proper

\* Or does something once the question is put.
LEMMA LaterProper ==
  ASSUME Proper, Typed', Held', stage.kind \notin Setup,
         UNCHANGED <<stage, next, verdict, delayed>>, used'.faults >= used.faults,
         Lines(toAgent') \subseteq Lines(toAgent),
         agent'.holds = agent.holds, agent'.session = agent.session,
         agent'.alive => agent.alive, agent.done => agent'.done,
         agent'.turn < next, agent'.turn # 0 => AllSet,
         \A x \in Told' : x \in Told \/
            /\ x.kind \in {"Answered", "Refused"} => x.id < next
            /\ stage.kind = "Prompting" /\ x.kind = "Answered" /\ x.id = stage.asked
               /\ x.says # "Junk" => agent'.done
  PROVE  Proper'
<1>0. used.faults \in Nat /\ used'.faults \in Nat  BY DEF Proper, Typed, Bounds
<1>1. Identified'  BY DEF Proper, Identified
<1>2. Asking' /\ Settles'  BY DEF Asking, Settles, Setup
<1>3. Answering'  BY DEF Answering, Setup
<1>4. AllSet' <=> AllSet  BY DEF AllSet
<1>5. Kit'  BY <1>4 DEF Proper, Kit
<1>6. Truthful'  BY <1>0 DEF Proper, Truthful
<1>. QED  BY <1>1, <1>2, <1>3, <1>5, <1>6 DEF Proper

LEMMA ReadProper ==
  ASSUME Proper, AgentReads
  PROVE  Proper'
<1> DEFINE said == Head(toAgent)
<1>1. Typed'  BY ReadTyped DEF Proper
<1>2. UNCHANGED <<stage, next, steering, verdict, delayed>>  BY DEF AgentReads, ours
<1>3. Held'  BY <1>2, Steadily DEF Proper
<1>4. used'.faults >= used.faults /\ used.faults \in Nat  BY ReadSpends DEF Proper
<1>5. toAgent # <<>> /\ toAgent' = Tail(toAgent) /\ agent.alive  BY DEF AgentReads
<1>6. /\ said \in Said /\ said \in Lines(toAgent) /\ Lines(toAgent') \subseteq Lines(toAgent)
  BY <1>5, TailLines DEF Proper, Typed
<1>7. \/ (\/ Initialized(said) \/ SessionMade(said) \/ SessionsHeld(said)
          \/ SessionLoaded(said) \/ OptionSet(said) \/ TurnStarted(said)
          \/ Steered(said) \/ TurnCancelled(said) \/ AskAnswered(said))
      \/ Breaks(said)
  BY DEF AgentReads
<1>8. /\ agent \in Agent /\ agent.holds \in [Option -> Reading] /\ agent.turn \in Nat
      /\ stage \in Stage /\ next \in Nat
  BY DEF Proper, Typed, Agent
<1>9. stage.kind \in Setup => toAgent = <<Request>> /\ said = Request /\ toAgent' = <<>>
  BY SMTT(30), <1>5 DEF Proper, Asking
<1> HIDE DEF said
<1>10. said.id \in Nat  BY <1>6 DEF Said
<1>11. CASE stage.kind \in Setup
  <2>1. /\ toAgent = <<Request>> /\ toAgent' = <<>>
        /\ said.kind = Asks[stage.kind] /\ said.id = stage.asked /\ said.option = stage.option
    BY <1>9, <1>11 DEF Request
  <2>2. agent.turn = 0  BY <1>11 DEF Proper, Asking
  <2>3. stage.kind = "Settling" => stage.option \in Option /\ stage.before = agent.holds[stage.option]
    BY <2>1 DEF Proper, Settles
  <2>4. CASE Initialized(said)
    <3>1. PICK says \in {"Yes", "No"} : Replies(Line("Answered", said.id, says, Unread))
      BY <2>4 DEF Initialized
    <3>2. stage.kind = "Initialising" /\ UNCHANGED agent
      BY <1>11, <2>1, <2>4 DEF Initialized, Asks, Setup
    <3> DEFINE h == Line("Answered", said.id, says, Unread)
    <3>3. h \in Heard /\ h.kind = "Answered" /\ h.id = said.id
      BY <1>10, LineHeard, DefaultTyped
    <3> HIDE DEF h
    <3>4. Replies(h)  BY <3>1 DEF h
    <3>. QED  BY <1>1, <1>2, <1>3, <1>4, <1>11, <2>1, <2>2, <3>2, <3>3, <3>4, AnswersProper
  <2>5. CASE SessionsHeld(said)
    <3>1. PICK says \in {"Yes", "No"} : /\ Replies(Line("Answered", said.id, says, Unread))
                                        /\ says = "No" => ~agent.session
      BY <2>5 DEF SessionsHeld
    <3>2. stage.kind = "Listing" /\ UNCHANGED agent
      BY <1>11, <2>1, <2>5 DEF SessionsHeld, Asks, Setup
    <3> DEFINE h == Line("Answered", said.id, says, Unread)
    <3>3. h \in Heard /\ h.kind = "Answered" /\ h.id = said.id /\ h.says = says
      BY <1>10, LineHeard, DefaultTyped
    <3> HIDE DEF h
    <3>4. Replies(h)  BY <3>1 DEF h
    <3>. QED  BY <1>1, <1>2, <1>3, <1>4, <1>11, <2>1, <2>2, <3>1, <3>2, <3>3, <3>4, AnswersProper
  <2>6. CASE SessionMade(said) \/ SessionLoaded(said)
    <3>1. PICK d \in Defaults : /\ Replies(Line("Answered", said.id, "Yes", d))
                                /\ \/ agent' = [agent EXCEPT !.session = TRUE, !.holds = d]
                                   \/ agent' = [agent EXCEPT !.holds = d]
      BY <2>6 DEF SessionMade, SessionLoaded
    <3>2. stage.kind \in {"Opening", "Loading"}
      <4>1. said.kind \in {"NewSession", "LoadSession"}
        BY <2>6 DEF SessionMade, SessionLoaded
      <4>. QED  BY <1>11, <2>1, <4>1 DEF Asks, Setup
    <3>3. agent'.turn = 0 /\ agent'.holds = d  BY <1>8, <2>2, <3>1 DEF Agent
    <3>4. d \in [Option -> Reading]  BY DefaultTyped
    <3> DEFINE h == Line("Answered", said.id, "Yes", d)
    <3>5. h \in Heard /\ h.kind = "Answered" /\ h.id = said.id /\ h.readings = d
      BY <1>10, <3>4, LineHeard
    <3> HIDE DEF h
    <3>6. Replies(h)  BY <3>1 DEF h
    <3>. QED  BY <1>1, <1>2, <1>3, <1>4, <1>11, <2>1, <3>2, <3>3, <3>5, <3>6, AnswersProper
  <2>7. CASE OptionSet(said)
    <3>1. stage.kind = "Settling"  BY <1>11, <2>1, <2>7 DEF OptionSet, Asks, Setup
    <3>2. CASE /\ Replies(Line("Refused", said.id, "No", Unread)) /\ UNCHANGED agent
      <4> DEFINE h == Line("Refused", said.id, "No", Unread)
      <4>1. h \in Heard /\ h.kind = "Refused" /\ h.id = said.id
        BY <1>10, LineHeard, DefaultTyped
      <4> HIDE DEF h
      <4>2. Replies(h)  BY <3>2 DEF h
      <4>. QED  BY <1>1, <1>2, <1>3, <1>4, <1>11, <2>1, <2>2, <3>2, <4>1, <4>2, AnswersProper
    <3>3. CASE agent.holds[said.option] # "None"
      <4>1. PICK held \in {f \in [Option -> Reading] :
                            /\ f[said.option] \in {"Asked", "Alias"}
                            /\ \A o \in Option :
                                 /\ o < said.option => f[o] = agent.holds[o]
                                 /\ o > said.option => f[o] \in {"Asked", "Other"}} :
               /\ agent' = [agent EXCEPT !.holds = held]
               /\ Replies(Line("Answered", said.id, "Yes", held))
        BY <2>7, <3>3 DEF OptionSet
      <4>2. /\ held \in [Option -> Reading] /\ held[said.option] \in Good
            /\ \A o \in Option : o < said.option => held[o] = agent.holds[o]
        BY DEF Good
      <4>3. agent'.turn = 0 /\ agent'.holds = held  BY <1>8, <2>2, <4>1 DEF Agent
      <4> DEFINE h == Line("Answered", said.id, "Yes", held)
      <4>4. h \in Heard /\ h.kind = "Answered" /\ h.id = said.id /\ h.readings = held
        BY <1>10, <4>2, LineHeard
      <4> HIDE DEF h
      <4>5. Replies(h)  BY <4>1 DEF h
      <4>. QED  BY <1>1, <1>2, <1>3, <1>4, <1>11, <2>1, <2>3, <3>1, <4>2, <4>3, <4>4, <4>5,
                  AnswersProper
    <3>. QED  BY <2>7, <3>2, <3>3 DEF OptionSet
  <2>8. CASE Breaks(said)
    <3>1. PICK h \in Heard : /\ Replies(h) /\ h.id = said.id
                             /\ \/ h.kind = "Refused"
                                \/ h.kind = "Answered" /\ h.says = "Junk"
                                \/ /\ h.kind = "Answered" /\ h.readings = agent.holds
                                   /\ said.kind = "SetOption"
      BY <1>8, <1>10, <2>8, LineHeard, DefaultTyped DEF Breaks
    <3>2. UNCHANGED agent  BY <2>8 DEF Breaks
    <3>3. said.kind = "SetOption" => stage.kind = "Settling"
      BY <1>11, <2>1 DEF Asks, Setup
    <3>. QED  BY <1>1, <1>2, <1>3, <1>4, <1>11, <2>1, <2>2, <2>3, <3>1, <3>2, <3>3,
                AnswersProper
  <2>9. said.kind \notin Later  BY <1>11, <2>1 DEF Later, Asks, Setup
  <2>. QED  BY <1>7, <2>4, <2>5, <2>6, <2>7, <2>8, <2>9
            DEF TurnStarted, Steered, TurnCancelled, AskAnswered, Later
<1>12. CASE stage.kind \notin Setup
  <2>1. said.kind \in Later  BY <1>5, <1>6, <1>12 DEF Proper, Held, Kit, Kinds, Setup
  <2>2. agent.turn < next /\ (agent.turn # 0 => AllSet)  BY DEF Proper, Identified, Kit
  <2>3. CASE TurnStarted(said)
    <3>1. said.id < next /\ AllSet  BY <1>5, <1>6, <2>3 DEF TurnStarted, Proper, Identified, Kit
    <3>2. /\ agent'.turn = said.id /\ agent'.holds = agent.holds /\ agent'.done = agent.done
          /\ agent'.session = agent.session /\ agent'.alive = agent.alive
      BY <1>8, <2>3 DEF TurnStarted, Agent
    <3>3. Told' = Told  BY <2>3 DEF TurnStarted, Told
    <3>. QED  BY <1>1, <1>2, <1>3, <1>4, <1>6, <1>12, <3>1, <3>2, <3>3, LaterProper
  <2>4. CASE Steered(said)
    <3>1. PICK h \in Heard : Replies(h) /\ h.id = said.id
      <4>1. PICK says \in {"Yes", "No"} : Replies(Line("Answered", said.id, says, Unread))
        BY <2>4 DEF Steered
      <4>. QED  BY <1>10, <4>1, LineHeard, DefaultTyped
    <3>2. said.id < next /\ (stage.kind = "Prompting" => said.id # stage.asked)
      BY <1>6, <2>4 DEF Steered, Proper, Identified
    <3>3. \A x \in Told' : x \in Told \/ x = h  BY <3>1, ToldOfReply DEF Proper
    <3>4. UNCHANGED agent  BY <2>4 DEF Steered
    <3>. QED  BY <1>1, <1>2, <1>3, <1>4, <1>6, <1>12, <2>2, <3>1, <3>2, <3>3, <3>4, LaterProper
  <2>5. CASE AskAnswered(said)
    <3>1. /\ agent'.turn = agent.turn /\ agent'.holds = agent.holds /\ agent'.done = agent.done
          /\ agent'.session = agent.session /\ agent'.alive = agent.alive
      BY <1>8, <2>5 DEF AskAnswered, Agent
    <3>2. Told' = Told  BY <2>5 DEF AskAnswered, Told
    <3>. QED  BY <1>1, <1>2, <1>3, <1>4, <1>6, <1>12, <2>2, <3>1, <3>2, LaterProper
  <2>6. CASE EndsTurn
    <3>1. /\ agent'.turn = 0 /\ agent'.holds = agent.holds /\ agent'.done
          /\ agent'.session = agent.session /\ agent'.alive = agent.alive
      BY <1>8, <2>6 DEF EndsTurn, Agent
    <3>2. PICK h \in Heard : Replies(h) /\ h.id = agent.turn
      BY <1>8, <2>6, LineHeard, DefaultTyped DEF EndsTurn
    <3>3. \A x \in Told' : x \in Told \/ x = h  BY <3>2, ToldOfReply DEF Proper
    <3>. QED  BY <1>1, <1>2, <1>3, <1>4, <1>6, <1>8, <1>12, <2>2, <3>1, <3>2, <3>3, LaterProper
  <2>7. CASE UNCHANGED <<toUs, last, agent>>
    <3>1. Told' = Told  BY <2>7 DEF Told
    <3>. QED  BY <1>1, <1>2, <1>3, <1>4, <1>6, <1>12, <2>2, <2>7, <3>1, LaterProper
  <2>8. CASE Breaks(said)
    <3>1. said.kind \in {"Prompt", "Steer"}  BY <2>1, <2>8 DEF Breaks, Later
    <3>2. said.id < next  BY <1>6, <3>1 DEF Proper, Identified
    <3>3. PICK h \in Heard : Replies(h) /\ h.id = said.id
                             /\ (h.kind = "Refused" \/ h.says = "Junk")
      BY <1>10, <2>8, <3>1, LineHeard, DefaultTyped DEF Breaks
    <3>4. \A x \in Told' : x \in Told \/ x = h  BY <3>3, ToldOfReply DEF Proper
    <3>5. UNCHANGED agent  BY <2>8 DEF Breaks
    <3>. QED  BY <1>1, <1>2, <1>3, <1>4, <1>6, <1>12, <2>2, <3>2, <3>3, <3>4, <3>5, LaterProper
  <2>. QED  BY <1>7, <2>1, <2>3, <2>4, <2>5, <2>6, <2>7, <2>8
            DEF Initialized, SessionMade, SessionsHeld, SessionLoaded, OptionSet,
                TurnCancelled, Later
<1>. QED  BY <1>11, <1>12

LEMMA TalkProper ==
  ASSUME Proper, AgentTalks
  PROVE  Proper'
<1>1. Typed'  BY TalkTyped DEF Proper
<1>2. UNCHANGED <<stage, next, steering, verdict, delayed, toAgent>>  BY DEF AgentTalks, ours
<1>3. Held'  BY <1>2, Steadily DEF Proper
<1>4. /\ agent \in Agent /\ agent.turn \in Nat /\ next \in Nat
      /\ used.asks + 1 \in Nat /\ used.faults \in Nat
  BY DEF Proper, Typed, Agent, Bounds
<1>5. agent.turn # 0 /\ agent.turn < next /\ AllSet
  BY DEF AgentTalks, Proper, Identified, Kit
<1>6. stage.kind \notin Setup  BY <1>5 DEF Proper, Asking
<1>7. \A b \in {"words", "asks"} : Spent(b) => used'.faults = used.faults
  BY Spending DEF Proper, Typed, Bounds
<1>8. CASE /\ Spent("words") /\ UNCHANGED <<agent, last>>
           /\ toUs' = Append(toUs, Line("Notified", 0, "Yes", Unread))
  <2> DEFINE h == Line("Notified", 0, "Yes", Unread)
  <2>1. h \in Heard /\ h.kind = "Notified"  BY LineHeard, DefaultTyped
  <2> HIDE DEF h
  <2>2. toUs' = Append(toUs, h)  BY <1>8 DEF h
  <2>3. \A x \in Told' : x \in Told \/ x = h  BY <1>8, <2>1, <2>2, ToldOfMore DEF Proper
  <2>. QED  BY <1>1, <1>2, <1>3, <1>4, <1>5, <1>6, <1>7, <1>8, <2>1, <2>3, LaterProper
<1>9. CASE /\ Spent("asks") /\ UNCHANGED last
           /\ agent' = [agent EXCEPT !.asking = {used.asks + 1}]
           /\ \E permission \in {"Yes", "No"} :
                toUs' = Append(toUs, Line("Asked", used.asks + 1, permission, Unread))
  <2>1. PICK p \in {"Yes", "No"} :
          toUs' = Append(toUs, Line("Asked", used.asks + 1, p, Unread))
    BY <1>9
  <2> DEFINE h == Line("Asked", used.asks + 1, p, Unread)
  <2>2. h \in Heard /\ h.kind = "Asked"  BY <1>4, LineHeard, DefaultTyped
  <2> HIDE DEF h
  <2>3. toUs' = Append(toUs, h)  BY <2>1 DEF h
  <2>4. \A x \in Told' : x \in Told \/ x = h  BY <1>9, <2>2, <2>3, ToldOfMore DEF Proper
  <2>5. /\ agent'.turn = agent.turn /\ agent'.holds = agent.holds /\ agent'.done = agent.done
        /\ agent'.session = agent.session /\ agent'.alive = agent.alive
    BY <1>4, <1>9 DEF Agent
  <2>. QED  BY <1>1, <1>2, <1>3, <1>4, <1>5, <1>6, <1>7, <1>9, <2>2, <2>4, <2>5, LaterProper
<1>10. CASE EndsTurn /\ UNCHANGED used
  <2>1. /\ agent'.turn = 0 /\ agent'.holds = agent.holds /\ agent'.done
        /\ agent'.session = agent.session /\ agent'.alive = agent.alive
    BY <1>4, <1>10 DEF EndsTurn, Agent
  <2>2. PICK h \in Heard : Replies(h) /\ h.id = agent.turn
    BY <1>4, <1>10, LineHeard, DefaultTyped DEF EndsTurn
  <2>3. \A x \in Told' : x \in Told \/ x = h  BY <2>2, ToldOfReply DEF Proper
  <2>. QED  BY <1>1, <1>2, <1>3, <1>4, <1>5, <1>6, <1>10, <2>1, <2>2, <2>3, LaterProper
<1>. QED  BY <1>8, <1>9, <1>10 DEF AgentTalks

LEMMA RepeatProper ==
  ASSUME Proper, AgentRepeats
  PROVE  Proper'
<1>1. Typed' /\ Held'  BY TypedSteps, Steps DEF Next, Proper
<1>2. UNCHANGED <<stage, next, verdict, delayed, toAgent, agent>>
  BY DEF AgentRepeats, ours
<1>3. last \in Heard /\ last \in Told /\ toUs' = Append(toUs, last) /\ UNCHANGED last
  BY DEF AgentRepeats, Proper, Typed, Told
<1>4. Told' \subseteq Told
  <2>1. Lines(toUs') = Lines(toUs) \union {last}  BY <1>3, AppendLines DEF Proper, Typed
  <2>. QED  BY <1>3, <2>1 DEF Told
<1>5. used'.faults = used.faults /\ used.faults \in Nat
  BY Spending DEF AgentRepeats, Proper, Typed, Bounds
<1>. QED  BY <1>1, <1>2, <1>4, <1>5, Quietly

LEMMA EndProper ==
  ASSUME Proper, AgentEnds
  PROVE  Proper'
<1>1. Typed' /\ Held'  BY TypedSteps, Steps DEF Next, Proper
<1>2. UNCHANGED <<stage, next, verdict, delayed, toAgent>> /\ Told' = Told
  BY DEF AgentEnds, ours, lines, Told
<1>3. /\ agent'.turn = 0 /\ ~agent'.alive /\ agent'.holds = agent.holds
      /\ agent'.done = agent.done /\ agent'.session = agent.session
  BY DEF AgentEnds, Proper, Typed, Agent
<1>4. used'.faults >= used.faults /\ used.faults \in Nat
  <2>1. used.faults \in Nat  BY DEF Proper, Typed, Bounds
  <2>2. Spent("faults") => used'.faults = used.faults + 1
    BY Spending DEF Proper, Typed, Bounds
  <2>. QED  BY <2>1, <2>2 DEF AgentEnds
<1>5. next \in Nat \ {0}  BY DEF Proper, Typed
<1>6. Identified'  BY <1>2, <1>3, <1>5 DEF Proper, Identified
<1>7. Asking'  BY <1>2, <1>3 DEF Proper, Asking, Request
<1>8. Answering'
  <2>1. used'.faults \in Nat  BY <1>1 DEF Typed, Bounds
  <2>. QED  BY <1>2, <1>3, <1>4, <2>1 DEF Proper, Answering
<1>9. Settles'  BY <1>2, <1>3 DEF Proper, Settles
<1>10. Kit'  BY <1>2, <1>3 DEF Proper, Kit, AllSet
<1>11. Truthful'
  <2>1. used'.faults \in Nat  BY <1>1 DEF Typed, Bounds
  <2>. QED  BY <1>2, <1>3, <1>4, <2>1 DEF Proper, Truthful
<1>. QED  BY <1>1, <1>6, <1>7, <1>8, <1>9, <1>10, <1>11 DEF Proper

LEMMA SteerProper ==
  ASSUME Proper, Steer
  PROVE  Proper'
<1>1. Typed' /\ Held'  BY TypedSteps, Steps DEF Next, Proper
<1>2. /\ stage.kind = "Prompting" /\ delayed' = next /\ next' = next + 1
      /\ UNCHANGED <<stage, verdict, toAgent, agent>> /\ Told' = Told
  BY DEF Steer, CanSteer, lines, Told
<1>3. used'.faults = used.faults  BY Spending DEF Steer, Proper, Typed, Bounds
<1>4. /\ next \in Nat \ {0} /\ agent.turn \in Nat /\ stage.asked \in Nat
  BY DEF Proper, Typed, Agent, Stage
<1>5. \A h \in Told : h.id \in Nat  BY ToldIs DEF Proper, Heard
<1>6. \A s \in Lines(toAgent) : s.id \in Nat
  <2>1. \A s \in Lines(toAgent) : s \in Said  BY LinesAre DEF Proper, Typed
  <2>. QED  BY <2>1 DEF Said
<1>7. Identified'  BY <1>2, <1>4, <1>5, <1>6 DEF Proper, Identified
<1>8. Asking' /\ Settles'  BY <1>2 DEF Asking, Settles, Setup
<1>9. Answering'  BY <1>2 DEF Answering
<1>10. Kit'  BY <1>2 DEF Proper, Kit, AllSet
<1>11. Truthful'  BY <1>2, <1>3 DEF Proper, Truthful
<1>. QED  BY <1>1, <1>7, <1>8, <1>9, <1>10, <1>11 DEF Proper

LEMMA SentProper ==
  ASSUME Proper, NEW said \in Said, said.kind \in {"Steer", "Cancel"},
         toAgent' = Append(toAgent, said), stage.kind \notin Setup, Typed', Held',
         delayed' \in {0, delayed}, used'.faults = used.faults,
         said.kind = "Steer" => said.id = delayed,
         UNCHANGED <<stage, next, verdict, agent, toUs, last>>
  PROVE  Proper'
<1>1. Lines(toAgent') = Lines(toAgent) \union {said}  BY AppendLines DEF Proper, Typed
<1>2. Told' = Told  BY DEF Told
<1>3. next \in Nat \ {0}  BY DEF Proper, Typed
<1>6. Identified'  BY <1>1, <1>2, <1>3 DEF Proper, Identified
<1>7. Asking' /\ Settles'  BY DEF Asking, Settles, Setup
<1>8. Answering'  BY <1>2 DEF Proper, Answering
<1>9. Kit'  BY <1>1 DEF Proper, Kit, AllSet, Later
<1>10. Truthful'  BY DEF Proper, Truthful
<1>. QED  BY <1>6, <1>7, <1>8, <1>9, <1>10 DEF Proper

LEMMA ProperSteps ==
  ASSUME Proper, [Next]_vars
  PROVE  Proper'
<1>1. Typed' /\ Held'  BY TypedSteps, Steps DEF Proper
<1>2. CASE HearLine  BY <1>2, HearProper
<1>3. CASE ProcessEnded
  <2>1. /\ ~agent.alive /\ Ends("Stopped") /\ UNCHANGED <<agent, used, toUs, last>>
        /\ stage.kind # "Over"
    BY <1>3 DEF ProcessEnded, theirs
  <2>2. Told' = Told  BY <2>1 DEF Told
  <2>. QED  BY <1>1, <2>1, <2>2, EndsProper DEF Verdict
<1>4. CASE Steer  BY <1>4, SteerProper
<1>5. CASE SteerSent
  <2> DEFINE said == Says("Steer", delayed)
  <2>1. said \in Said /\ said.kind = "Steer" /\ said.id = delayed
    BY SaysSaid DEF Proper, Typed, Says
  <2>2. stage.kind \notin Setup  BY <1>5 DEF SteerSent, Proper, Asking
  <2>3. toAgent' = Append(toAgent, said) /\ delayed' = 0
        /\ UNCHANGED <<stage, next, verdict, agent, toUs, last, used>>
    BY <1>5 DEF SteerSent, theirs
  <2> HIDE DEF said
  <2>. QED  BY <1>1, <2>1, <2>2, <2>3, SentProper
<1>6. CASE SteerDropped
  <2>1. delayed' = 0 /\ UNCHANGED <<stage, next, verdict, toAgent, toUs, agent, last>>
    BY <1>6 DEF SteerDropped, lines
  <2>2. used'.faults = used.faults  BY <1>6, Spending DEF SteerDropped, Proper, Typed, Bounds
  <2>3. stage.kind \notin Setup  BY <1>6 DEF SteerDropped, Proper, Asking
  <2>4. Told' = Told  BY <2>1 DEF Told
  <2>5. next \in Nat \ {0}  BY DEF Proper, Typed
  <2>6. Identified'  BY <2>1, <2>4, <2>5 DEF Proper, Identified
  <2>7. Asking' /\ Settles'  BY <2>1, <2>3 DEF Asking, Settles, Setup
  <2>8. Answering'  BY <2>1, <2>2, <2>4 DEF Proper, Answering
  <2>9. Kit'  BY <2>1 DEF Proper, Kit, AllSet
  <2>10. Truthful'  BY <2>1, <2>2 DEF Proper, Truthful
  <2>. QED  BY <1>1, <2>6, <2>7, <2>8, <2>9, <2>10 DEF Proper
<1>7. CASE Cancel
  <2> DEFINE said == Says("Cancel", 0)
  <2>1. said \in Said /\ said.kind = "Cancel"  BY SaysSaid DEF Says
  <2>2. stage.kind \notin Setup  BY <1>7 DEF Cancel, Setup
  <2>3. toAgent' = Append(toAgent, said) /\ UNCHANGED <<stage, next, verdict, delayed, agent, toUs, last>>
    BY <1>7 DEF Cancel, ours
  <2>4. used'.faults = used.faults  BY <1>7, Spending DEF Cancel, Proper, Typed, Bounds
  <2> HIDE DEF said
  <2>. QED  BY <1>1, <2>1, <2>2, <2>3, <2>4, SentProper
<1>8. CASE AgentReads  BY <1>8, ReadProper
<1>9. CASE AgentTalks  BY <1>9, TalkProper
<1>10. CASE AgentRepeats  BY <1>10, RepeatProper
<1>11. CASE AgentEnds  BY <1>11, EndProper
<1>12. CASE UNCHANGED vars
  <2>1. UNCHANGED <<stage, next, verdict, delayed, toAgent, agent, used, toUs, last>>
    BY <1>12 DEF vars, ours, lines, theirs
  <2>2. Told' = Told  BY <2>1 DEF Told
  <2>3. used.faults \in Nat  BY DEF Proper, Typed, Bounds
  <2>. QED  BY <1>1, <2>1, <2>2, <2>3, Quietly
<1>. QED  BY <1>2, <1>3, <1>4, <1>5, <1>6, <1>7, <1>8, <1>9, <1>10, <1>11, <1>12 DEF Next

LEMMA ProperAtFirst == Init => Proper
<1> SUFFICES ASSUME Init PROVE Proper  OBVIOUS
<1>1. Typed /\ Held  BY Begun, Begins
<1>2. /\ stage.kind = "Initialising" /\ stage.asked = 1 /\ stage.option = 0 /\ next = 2
      /\ delayed = 0 /\ toAgent = <<Says("Initialize", 1)>> /\ toUs = <<>> /\ last = NoLine
      /\ verdict = "None"
  BY DEF Init, At
<1>3. agent.turn = 0
  <2>1. PICK held \in {FALSE, opening = "Resumed"} :
          agent = [session |-> held, holds |-> Unread, turn |-> 0, asking |-> {},
                   done |-> FALSE, alive |-> TRUE]
    BY Zenon DEF Init
  <2>. QED  BY <2>1
<1>4. Told = {}
  <2>1. Lines(<<>>) = {}  BY DEF Lines
  <2>. QED  BY <1>2, <2>1 DEF Told
<1>5. Lines(toAgent) = {Says("Initialize", 1)}  BY <1>2 DEF Lines
<1>6. Says("Initialize", 1) = Request  BY <1>2 DEF Says, Request, Asks
<1>7. Identified  BY <1>2, <1>3, <1>4, <1>5 DEF Identified, Says
<1>8. Asking  BY <1>2, <1>3, <1>4, <1>6 DEF Asking
<1>9. Answering /\ Settles  BY <1>2, <1>4 DEF Answering, Settles
<1>10. Kit  BY <1>2, <1>3, <1>5 DEF Kit, Says
<1>11. Truthful  BY <1>2 DEF Truthful
<1>. QED  BY <1>1, <1>7, <1>8, <1>9, <1>10, <1>11 DEF Proper

THEOREM ProperInvariance == Spec => []Proper
<1>. QED  BY ProperAtFirst, ProperSteps, PTL DEF Spec

\* Whatever a session reports and resets, refuses or passes over, and whenever
\* its answers come, an agent begins its work with every option of the kit as
\* it was asked for (Conversation::settle, took).
THEOREM WorksOnTheKit == Spec => []WorksOnItsKit
<1>1. Proper => WorksOnItsKit  BY DEF Proper, Kit, AllSet, Good, WorksOnItsKit
<1>. QED  BY <1>1, ProperInvariance, PTL

----------------------------------------------------------------------------
(* What an agent that keeps its side is told.                              *)

\* A session has the kit's first option, and reports it either as the kit
\* spells it or as something else: took compares spellings, and cannot tell one
\* that was the same all along, spelled otherwise, from one passed over.
Plain == \A d \in Defaults : 1 \in Option => d[1] \in {"Asked", "Other"}

Fresh == {"Asked", "Other"}

\* Without a fault it answers everything, and every option takes.
Faultless == used.faults = 0 =>
  /\ \A h \in Told : h.kind # "Refused" /\ (h.kind = "Answered" => h.says # "Junk")
  /\ ~agent.alive => stage.kind = "Over"
  /\ stage.kind = "Settling" => stage.before \in Fresh
  /\ stage.kind = "Settling" /\ toAgent = <<>> =>
       /\ agent.holds[stage.option] \in Good
       /\ \A o \in Option : o > stage.option => agent.holds[o] \in Fresh
  /\ stage.kind \in {"Opening", "Loading"} /\ toAgent = <<>> =>
       (1 \in Option => agent.holds[1] \in Fresh)
  /\ verdict \in {"None", "Answered", "NothingToResume"}

LEMMA FaultsKept ==
  ASSUME Proper, [Next]_vars
  PROVE  used.faults \in Nat /\ used'.faults \in Nat /\ used'.faults >= used.faults
<1>0. used \in [Bounds -> Nat] /\ used.faults \in Nat  BY DEF Proper, Typed, Bounds
<1>1. \A b \in Bounds : Spent(b) => used'.faults \in {used.faults, used.faults + 1}
  BY <1>0, Spending DEF Bounds
<1>2. UNCHANGED used \/ \E b \in Bounds : Spent(b)
  BY DEF Next, vars, theirs, HearLine, ProcessEnded, Steer, SteerSent, SteerDropped,
         Cancel, AgentReads, Breaks, AgentTalks, AgentRepeats, AgentEnds, Bounds
<1>. QED  BY <1>0, <1>1, <1>2

\* A question in answer to a settled session.
LEMMA SettleFaultless ==
  ASSUME Proper, Faultless, Typed', used.faults = 0, used'.faults = 0,
         NEW remaining \in Seq(Option), Settle(agent.holds, remaining),
         stage.kind # "Over", UNCHANGED agent, Told' \subseteq Told,
         remaining # <<>> => agent.holds[Head(remaining)] \in Fresh
  PROVE  Faultless'
<1>1. verdict' = verdict /\ stage'.kind \notin {"Opening", "Loading", "Over"}
  BY DEF Settle, Goes, At
<1>2. stage'.kind = "Settling" => stage'.before \in Fresh /\ toAgent' # <<>>
  BY AppendLines DEF Settle, Goes, At, Proper, Typed
<1>. QED  BY <1>1, <1>2 DEF Faultless

LEMMA HearFaultless ==
  ASSUME Proper, Faultless, HearLine
  PROVE  Faultless'
<1> DEFINE h == Head(toUs)
<1> SUFFICES ASSUME used'.faults = 0 PROVE Faultless'  BY DEF Faultless
<1>1. toUs # <<>> /\ toUs' = Tail(toUs) /\ UNCHANGED <<agent, last, used>>
  BY DEF HearLine, theirs
<1>2. used.faults = 0 /\ Typed'  BY <1>1, HearTyped DEF Proper
<1>3. Told' \subseteq Told /\ h \in Told /\ h \in Heard  BY <1>1, ToldOfLess, ToldIs DEF Proper
<1>4. IF stage.kind = "Over" THEN Ignores
      ELSE \/ h.kind = "Answered" /\ Answered(h)
           \/ h.kind = "Refused" /\ RefusedBy(h)
           \/ h.kind = "Notified" /\ Noted
           \/ h.kind = "Asked" /\ Asked(h)
  BY DEF HearLine
<1> HIDE DEF h
<1>5. h.kind # "Refused" /\ (h.kind = "Answered" => h.says # "Junk")
  BY <1>2, <1>3 DEF Faultless
<1>6. CASE UNCHANGED <<stage, verdict, toAgent>>
  BY <1>1, <1>2, <1>3, <1>6 DEF Faultless
<1>7. Ignores \/ SteerAnswered \/ Noted => UNCHANGED <<stage, verdict, toAgent>>
  BY DEF Ignores, SteerAnswered, Noted, ours
<1>8. CASE stage.kind # "Over" /\ Asked(h) /\ h.kind = "Asked"
  <2>1. stage.kind \notin Setup  BY <1>3, <1>8 DEF Proper, Asking
  <2>2. UNCHANGED <<stage, verdict>>  BY <1>8 DEF Asked, ours
  <2>. QED  BY <1>1, <1>2, <1>3, <2>1, <2>2 DEF Faultless, Setup
<1>9. CASE stage.kind # "Over" /\ h.kind = "Answered" /\ h.id = stage.asked
           /\ (Initialised(h) \/ Listed(h) \/ Opened(h) \/ Set(h) \/ Prompted(h))
  <2>1. h.says # "Junk"  BY <1>5, <1>9
  <2>2. agent.alive  BY <1>2, <1>9 DEF Faultless
  <2>3. stage.kind \in Setup => toAgent = <<>>  BY <1>3, <1>9 DEF Proper, Asking
  <2>4. Options \in Nat /\ stage \in Stage
    BY ConversationAssumption DEF Proper, Typed
  <2>5. CASE Initialised(h)
    <3>1. PICK k \in {"Opening", "Listing"} : Goes(At(k, next), Says(Asks[k], next))
      BY <2>5 DEF Initialised, Asks
    <3>2. Says(Asks[k], next) \in Said
      BY SaysSaid DEF Proper, Typed, Asks
    <3> DEFINE said == Says(Asks[k], next)
    <3>3. toAgent' = Append(toAgent, said) /\ said \in Said /\ stage'.kind = k
          /\ verdict' = verdict
      BY <3>1, <3>2 DEF Goes, At
    <3> HIDE DEF said
    <3>4. toAgent' # <<>>  BY <3>3 DEF Proper, Typed
    <3>. QED  BY <1>1, <1>2, <1>3, <2>2, <3>3, <3>4 DEF Faultless
  <2>6. CASE Listed(h)
    <3>1. CASE h.says = "No"
      <4>1. Ends("NothingToResume")  BY <2>6, <3>1 DEF Listed
      <4>2. stage'.kind = "Over" /\ verdict' = "NothingToResume"  BY <4>1 DEF Ends, At
      <4>. QED  BY <1>2, <1>3, <4>2 DEF Faultless
    <3>2. CASE h.says # "No"
      <4>1. Goes(At("Loading", next), Says("LoadSession", next))
        BY <2>1, <2>6, <3>2 DEF Listed
      <4> DEFINE said == Says("LoadSession", next)
      <4>2. said \in Said  BY SaysSaid DEF Proper, Typed
      <4>3. toAgent' = Append(toAgent, said) /\ stage'.kind = "Loading" /\ verdict' = verdict
        BY <4>1 DEF Goes, At
      <4> HIDE DEF said
      <4>4. toAgent' # <<>>  BY <4>2, <4>3 DEF Proper, Typed
      <4>. QED  BY <1>1, <1>2, <1>3, <2>2, <4>3, <4>4 DEF Faultless
    <3>. QED  BY <3>1, <3>2
  <2>7. CASE Opened(h)
    <3>1. stage.kind \in {"Opening", "Loading"} /\ h.readings = agent.holds
      BY <1>3, <1>9, <2>1, <2>7 DEF Opened, Proper, Answering
    <3>2. Settle(agent.holds, Wired)  BY <2>1, <2>7, <3>1 DEF Opened
    <3>3. 1 \in Option => agent.holds[1] \in Fresh
      BY <1>2, <2>3, <3>1 DEF Faultless, Setup
    <3> HIDE DEF Wired
    <3>4. Wired # <<>> => Head(Wired) = 1 /\ 1 \in Option
      BY <2>4, WiredIs DEF Option
    <3>. QED  BY <1>1, <1>2, <1>3, <1>9, <3>2, <3>3, <3>4, WiredIs, SettleFaultless
  <2>8. CASE Set(h)
    <3>1. stage.kind = "Settling" /\ h.readings = agent.holds
      BY <1>3, <1>9, <2>1, <2>8 DEF Set, Proper, Answering
    <3>2. /\ stage.before \in Fresh /\ agent.holds[stage.option] \in Good
          /\ \A o \in Option : o > stage.option => agent.holds[o] \in Fresh
      BY <1>2, <2>3, <3>1 DEF Faultless, Setup
    <3>3. Took(stage.before, agent.holds[stage.option])
      BY <3>2 DEF Took, Fresh, Good
    <3>4. Settle(agent.holds, stage.remaining)
      BY <2>1, <2>8, <3>1, <3>3 DEF Set
    <3>5. stage.remaining \in Seq(Option) /\ stage.option \in Option
      BY <2>4, <3>1 DEF Stage, Proper, Settles
    <3>6. stage.remaining # <<>> =>
            Head(stage.remaining) \in Option /\ Head(stage.remaining) = stage.option + 1
      BY <3>1, <3>5 DEF Proper, Settles
    <3>7. stage.remaining # <<>> => agent.holds[Head(stage.remaining)] \in Fresh
      BY <3>2, <3>5, <3>6 DEF Option
    <3>. QED  BY <1>1, <1>2, <1>3, <1>9, <3>4, <3>5, <3>7, SettleFaultless
  <2>9. CASE Prompted(h)
    <3>1. Ends("Answered")  BY <2>1, <2>9 DEF Prompted
    <3>2. stage'.kind = "Over" /\ verdict' = "Answered"  BY <3>1 DEF Ends, At
    <3>. QED  BY <1>2, <1>3, <3>2 DEF Faultless
  <2>. QED  BY <1>9, <2>5, <2>6, <2>7, <2>8, <2>9
<1>. QED  BY <1>4, <1>5, <1>6, <1>7, <1>8, <1>9 DEF Answered, WaitingOn

\* What an agent that keeps its side answers before the question.
LEMMA ReadFaultless ==
  ASSUME Plain, Proper, Faultless, AgentReads
  PROVE  Faultless'
<1> DEFINE said == Head(toAgent)
<1> SUFFICES ASSUME used'.faults = 0 PROVE Faultless'  BY DEF Faultless
<1>1. used.faults = 0 /\ Proper'
  BY FaultsKept, ReadProper DEF Next
<1>2. UNCHANGED <<stage, verdict>> /\ agent.alive /\ toAgent # <<>>
      /\ toAgent' = Tail(toAgent)
  BY DEF AgentReads, ours
<1>3. said \in Said  BY <1>2, TailLines DEF Proper, Typed
<1>4. \/ Initialized(said) \/ SessionMade(said) \/ SessionsHeld(said)
      \/ SessionLoaded(said) \/ OptionSet(said) \/ TurnStarted(said)
      \/ Steered(said) \/ TurnCancelled(said) \/ AskAnswered(said)
  <2>1. Spent("faults") => used'.faults = used.faults + 1
    BY Spending DEF Proper, Typed, Bounds
  <2>. QED  BY <1>1, <2>1 DEF AgentReads, Breaks
<1>5. stage.kind \in Setup => toAgent = <<Request>> /\ said = Request /\ toAgent' = <<>>
  <2>1. toAgent # <<>> /\ toAgent' = Tail(toAgent)  BY <1>2
  <2>2. stage.kind \in Setup => toAgent = <<Request>>  BY <2>1 DEF Proper, Asking
  <2> DEFINE r == Request
  <2>3. Head(<<r>>) = r /\ Tail(<<r>>) = <<>>  BY SMT
  <2>. QED  BY <2>1, <2>2, <2>3
<1>6. agent \in Agent /\ stage \in Stage  BY DEF Proper, Typed
<1> HIDE DEF said
<1>7. said.id \in Nat  BY <1>3 DEF Said
<1>8. stage.kind \in Setup => said.kind = Asks[stage.kind] /\ said.option = stage.option
  BY <1>5 DEF Request
<1>9. stage.kind = "Settling" => agent.holds[stage.option] \in Fresh
  BY <1>1, <1>2, <1>5 DEF Setup, Proper, Settles, Faultless
\* No line it sends is a refusal, or unreadable.
<1>10. \A x \in Told' : x.kind # "Refused" /\ (x.kind = "Answered" => x.says # "Junk")
  <2>1. CASE UNCHANGED <<toUs, last>>
    BY <1>1, <2>1 DEF Told, Faultless
  <2>2. CASE \E h \in Heard : Replies(h) /\ h.kind = "Answered" /\ h.says # "Junk"
    <3>1. PICK h \in Heard : Replies(h) /\ h.kind = "Answered" /\ h.says # "Junk"  BY <2>2
    <3>2. \A x \in Told' : x \in Told \/ x = h  BY <3>1, ToldOfReply DEF Proper
    <3>. QED  BY <1>1, <3>1, <3>2 DEF Faultless
  <2>3. CASE Initialized(said) \/ SessionsHeld(said) \/ Steered(said)
    <3>1. PICK says \in {"Yes", "No"} : Replies(Line("Answered", said.id, says, Unread))
      BY <2>3 DEF Initialized, SessionsHeld, Steered
    <3>. QED  BY <1>7, <2>2, <3>1, LineHeard, DefaultTyped
  <2>4. CASE SessionMade(said) \/ SessionLoaded(said)
    <3>1. PICK d \in Defaults : Replies(Line("Answered", said.id, "Yes", d))
      BY <2>4 DEF SessionMade, SessionLoaded
    <3>2. d \in [Option -> Reading]  BY DefaultTyped
    <3>. QED  BY <1>7, <2>2, <3>1, <3>2, LineHeard
  <2>5. CASE OptionSet(said)
    <3>1. stage.kind = "Settling"
      <4>1. said.kind = "SetOption"  BY <2>5 DEF OptionSet
      <4>2. stage.kind \in Setup
        BY <1>2, <1>3, <4>1, TailLines DEF said, Proper, Typed, Held, Kit, Later, Kinds, Setup
      <4>. QED  BY <1>8, <4>1, <4>2 DEF Asks, Setup
    <3>2. agent.holds[said.option] # "None"  BY <1>8, <1>9, <3>1 DEF Fresh, Setup
    <3>3. PICK held \in [Option -> Reading] : Replies(Line("Answered", said.id, "Yes", held))
      BY <2>5, <3>2 DEF OptionSet
    <3>. QED  BY <1>7, <2>2, <3>3, LineHeard
  <2>6. CASE EndsTurn
    <3>1. agent.turn \in Nat  BY <1>6 DEF Agent
    <3>. QED  BY <2>2, <2>6, <3>1, LineHeard, DefaultTyped DEF EndsTurn
  <2>. QED  BY <1>4, <2>1, <2>3, <2>4, <2>5, <2>6 DEF TurnStarted, TurnCancelled, AskAnswered
<1>11. agent'.alive
  BY <1>2, <1>4, <1>6 DEF Initialized, SessionMade, SessionsHeld, SessionLoaded, OptionSet,
     TurnStarted, Steered, TurnCancelled, AskAnswered, EndsTurn, Agent
<1>12. stage.kind = "Settling" =>
         /\ agent'.holds[stage.option] \in Good
         /\ \A o \in Option : o > stage.option => agent'.holds[o] \in Fresh
  <2> SUFFICES ASSUME stage.kind = "Settling"
               PROVE  /\ agent'.holds[stage.option] \in Good
                      /\ \A o \in Option : o > stage.option => agent'.holds[o] \in Fresh
    OBVIOUS
  <2>1. said.kind = "SetOption" /\ said.option = stage.option
    BY <1>8 DEF Asks, Setup
  <2>2. OptionSet(said) /\ agent.holds[said.option] # "None"
    BY <1>4, <1>9, <2>1 DEF Initialized, SessionMade, SessionsHeld, SessionLoaded,
       TurnStarted, Steered, TurnCancelled, AskAnswered, Fresh
  <2>3. PICK held \in {f \in [Option -> Reading] :
                        /\ f[said.option] \in {"Asked", "Alias"}
                        /\ \A o \in Option :
                             /\ o < said.option => f[o] = agent.holds[o]
                             /\ o > said.option => f[o] \in {"Asked", "Other"}} :
          agent' = [agent EXCEPT !.holds = held]
    BY <2>2 DEF OptionSet
  <2>4. agent'.holds = held  BY <1>6, <2>3 DEF Agent
  <2>. QED  BY <2>1, <2>4 DEF Good, Fresh
<1>13. stage.kind \in {"Opening", "Loading"} => (1 \in Option => agent'.holds[1] \in Fresh)
  <2> SUFFICES ASSUME stage.kind \in {"Opening", "Loading"}, 1 \in Option
               PROVE  agent'.holds[1] \in Fresh
    OBVIOUS
  <2>1. said.kind \in {"NewSession", "LoadSession"}  BY <1>8 DEF Asks, Setup
  <2>2. SessionMade(said) \/ SessionLoaded(said)
    BY <1>4, <2>1 DEF Initialized, SessionsHeld, OptionSet, TurnStarted, Steered,
       TurnCancelled, AskAnswered
  <2>3. PICK d \in Defaults : \/ agent' = [agent EXCEPT !.session = TRUE, !.holds = d]
                              \/ agent' = [agent EXCEPT !.holds = d]
    BY <2>2 DEF SessionMade, SessionLoaded
  <2>4. agent'.holds = d  BY <1>6, <2>3 DEF Agent
  <2>. QED  BY <2>4 DEF Plain, Fresh
<1>. QED  BY <1>1, <1>2, <1>10, <1>11, <1>12, <1>13 DEF Faultless

LEMMA FaultlessSteps ==
  ASSUME Plain, Proper, Faultless, [Next]_vars
  PROVE  Faultless'
<1> SUFFICES ASSUME used'.faults = 0 PROVE Faultless'  BY DEF Faultless
<1>1. used.faults = 0  BY FaultsKept
<1>2. CASE HearLine  BY <1>2, HearFaultless
<1>3. CASE ProcessEnded  BY <1>1, <1>3 DEF ProcessEnded, Faultless
<1>4. CASE Steer \/ SteerSent \/ SteerDropped \/ Cancel
  <2>1. UNCHANGED <<stage, verdict, agent>> /\ Told' = Told
    BY <1>4 DEF Steer, SteerSent, SteerDropped, Cancel, lines, theirs, ours, Told
  <2>2. stage.kind \in Setup => UNCHANGED toAgent
    BY <1>4 DEF Steer, CanSteer, SteerSent, SteerDropped, Cancel, lines, Setup, Proper, Asking
  <2>. QED  BY <1>1, <2>1, <2>2 DEF Faultless, Setup
<1>5. CASE AgentReads  BY <1>5, ReadFaultless
<1>6. CASE AgentTalks
  <2>1. UNCHANGED <<stage, verdict, toAgent>>  BY <1>6 DEF AgentTalks, ours
  <2>2. /\ agent \in Agent /\ agent.turn \in Nat /\ used.asks + 1 \in Nat /\ agent.alive
    BY SMTT(30), <1>6 DEF AgentTalks, Proper, Typed, Agent, Bounds
  <2>3. stage.kind \notin Setup  BY <1>6 DEF AgentTalks, Proper, Asking
  <2>4. agent'.alive  BY <1>6, <2>2 DEF AgentTalks, EndsTurn, Agent
  <2>5. \A x \in Told' : x.kind # "Refused" /\ (x.kind = "Answered" => x.says # "Junk")
    <3>1. CASE \E h \in Heard : /\ toUs' = Append(toUs, h) /\ last' \in {last, h}
                                /\ h.kind # "Refused" /\ h.says # "Junk"
      <4>1. PICK h \in Heard : /\ toUs' = Append(toUs, h) /\ last' \in {last, h}
                               /\ h.kind # "Refused" /\ h.says # "Junk"
        BY <3>1
      <4>2. Lines(toUs') = Lines(toUs) \union {h}  BY <4>1, AppendLines DEF Proper, Typed
      <4>. QED  BY <1>1, <4>1, <4>2 DEF Told, Faultless
    <3>2. CASE toUs' = Append(toUs, Line("Notified", 0, "Yes", Unread)) /\ UNCHANGED last
      BY <3>1, <3>2, LineHeard, DefaultTyped
    <3>3. CASE /\ UNCHANGED last
               /\ \E permission \in {"Yes", "No"} :
                    toUs' = Append(toUs, Line("Asked", used.asks + 1, permission, Unread))
      BY <2>2, <3>1, <3>3, LineHeard, DefaultTyped
    <3>4. CASE EndsTurn
      BY <2>2, <3>1, <3>4, LineHeard, DefaultTyped DEF EndsTurn, Replies
    <3>. QED  BY <1>6, <3>2, <3>3, <3>4 DEF AgentTalks
  <2>. QED  BY <1>1, <2>1, <2>3, <2>4, <2>5 DEF Faultless, Setup
<1>7. CASE AgentRepeats
  <2>1. UNCHANGED <<stage, verdict, toAgent, agent>>  BY <1>7 DEF AgentRepeats, ours
  <2>2. last \in Heard /\ last \in Told /\ toUs' = Append(toUs, last) /\ UNCHANGED last
    BY <1>7 DEF AgentRepeats, Proper, Typed, Told
  <2>3. Lines(toUs') = Lines(toUs) \union {last}  BY <2>2, AppendLines DEF Proper, Typed
  <2>4. Told' \subseteq Told  BY <2>2, <2>3 DEF Told
  <2>. QED  BY <1>1, <2>1, <2>4 DEF Faultless
<1>8. CASE AgentEnds
  <2>1. stage.kind = "Over"
    <3>1. Spent("faults") => used'.faults = used.faults + 1
      BY Spending DEF Proper, Typed, Bounds
    <3>. QED  BY <1>1, <1>8, <3>1 DEF AgentEnds
  <2>2. UNCHANGED <<stage, verdict, toAgent>> /\ Told' = Told
    BY <1>8 DEF AgentEnds, ours, lines, Told
  <2>. QED  BY <1>1, <2>1, <2>2 DEF Faultless
<1>9. CASE UNCHANGED vars
  BY <1>1, <1>9 DEF vars, ours, lines, theirs, Told, Faultless
<1>. QED  BY <1>2, <1>3, <1>4, <1>5, <1>6, <1>7, <1>8, <1>9 DEF Next

LEMMA FaultlessAtFirst == Init => Faultless
<1> SUFFICES ASSUME Init PROVE Faultless  OBVIOUS
<1>1. /\ stage.kind = "Initialising" /\ toUs = <<>> /\ last = NoLine /\ verdict = "None"
  BY DEF Init, At
<1>2. agent.alive
  <2>1. PICK held \in {FALSE, opening = "Resumed"} :
          agent = [session |-> held, holds |-> Unread, turn |-> 0, asking |-> {},
                   done |-> FALSE, alive |-> TRUE]
    BY Zenon DEF Init
  <2>. QED  BY <2>1
<1>3. Lines(<<>>) = {}  BY DEF Lines
<1>. QED  BY <1>1, <1>2, <1>3 DEF Faultless, Told

\* Whatever is repeated, handed over, asked and said between, a turn is answered
\* only by the answer to its question, and fails only for a fault of its agent's
\* (Conversation::line, answered, refused), where sessions report options plainly.
THEOREM VerdictsAreTheAgents == Plain => (Spec => []VerdictIsTheAgents)
<1> SUFFICES ASSUME Plain PROVE Spec => []VerdictIsTheAgents  OBVIOUS
<1>1. Proper /\ Faultless /\ [Next]_vars => Faultless'
  BY FaultlessSteps
<1>2. Proper /\ Faultless => VerdictIsTheAgents
  <2> SUFFICES ASSUME Proper, Faultless PROVE VerdictIsTheAgents  OBVIOUS
  <2>1. used.faults \in Nat  BY DEF Proper, Typed, Bounds
  <2>. QED  BY <2>1 DEF Proper, Truthful, Faultless, VerdictIsTheAgents
<1>. QED  BY <1>1, <1>2, FaultlessAtFirst, ProperInvariance, PTL DEF Spec
=============================================================================
