------------------------- MODULE Containers_proofs -------------------------
(***************************************************************************)
(* For any number of jobs, strays, visitors, turns and faults: no container *)
(* goes under its agent, and none of another instance's is touched.         *)
(*                                                                         *)
(* Neither is inductive. The first rests on the order of what the runtime   *)
(* was told: a turn's start is the last thing it was told of its container, *)
(* and its agent talks only once nothing is left to do. The second rests on *)
(* where labels are kept on the way: in a listing, and in the questions made *)
(* of one.                                                                  *)
(***************************************************************************)
EXTENDS Containers, SequenceTheorems, TLAPS

Commands == {"Start", "Halt", "Discard"}

Questions == [kind : {"Listing", "Labelled", "Probing", "Probe", "Port"},
              name : Containers \union {"All"}, port : Places \union {0}, seen : Seen]

\* What each question is about.
IsAbout(q) == /\ q.kind # "Listing" => q.name \in Containers
              /\ q.kind = "Port" => q.name \in Jobs

Typed ==
  /\ TypeOK
  /\ commands \in [Containers -> Seq(Commands)]
  /\ asked \subseteq Questions /\ \A q \in asked : IsAbout(q)

Last(told) == told[Len(told)]

\* A turn's start is the last thing told; its agent talks once it is done.
StartIsLast ==
  \A j \in Jobs :
    /\ agent[j] = "Starting" => commands[j] = <<>> \/ Last(commands[j]) = "Start"
    /\ agent[j] = "Talking" => commands[j] = <<>> /\ container[j] = "Up"

Ours(c) == c \in Strays => started[c] = "Ours"

\* What is known of a stray as this instance's is.
LabelsAreTrue ==
  /\ \A q \in asked : q.kind \in {"Probing", "Probe"} => Ours(q.name)
  /\ \A c \in DOMAIN listing : listing[c] = "Ours" => Ours(c)
  /\ OthersAreLeft

----------------------------------------------------------------------------
(* What was told, one at a time. *)

LEMMA AppendTold ==
  ASSUME NEW s \in Seq(Commands), NEW command \in Commands
  PROVE  /\ Append(s, command) \in Seq(Commands)
         /\ Append(s, command) # <<>>
         /\ Last(Append(s, command)) = command
  BY AppendProperties DEF Last

LEMMA TailTold ==
  ASSUME NEW s \in Seq(Commands), s # <<>>
  PROVE  /\ Tail(s) \in Seq(Commands) /\ Head(s) \in Commands
         /\ Tail(s) = <<>> \/ Last(Tail(s)) = Last(s)
         /\ Last(s) = "Start" /\ ~Told(Tail(s), "Start") => Tail(s) = <<>>
<1>1. /\ Len(s) \in Nat \ {0} /\ Head(s) \in Commands
      /\ Tail(s) \in Seq(Commands) /\ Len(Tail(s)) = Len(s) - 1
      /\ \A i \in 1..Len(Tail(s)) : Tail(s)[i] = s[i + 1]
  BY EmptySeq, LenProperties, HeadTailProperties
<1>2. CASE Tail(s) = <<>>
  BY <1>1, <1>2
<1>3. CASE Tail(s) # <<>>
  <2>1. Len(Tail(s)) \in 1..Len(Tail(s))  BY <1>1, <1>3, EmptySeq, LenProperties
  <2>2. Last(Tail(s)) = Last(s)  BY <1>1, <2>1 DEF Last
  <2>. QED  BY <1>1, <2>1, <2>2 DEF Last, Told
<1>. QED  BY <1>2, <1>3

LEMMA DoesTyped ==
  ASSUME Typed, NEW c \in Containers, NEW command \in Commands
  PROVE  Does(c, command) \in [Containers -> Seq(Commands)]
  BY AppendTold DEF Does, Typed

LEMMA DiscardTyped ==
  ASSUME Typed, NEW cs
  PROVE  Discard(cs) \in [Containers -> Seq(Commands)]
  BY AppendTold DEF Discard, Typed, Commands

LEMMA UnseenTyped == Unseen \in Seen
  BY DEF Unseen, Seen

LEMMA QuestionTyped ==
  ASSUME NEW kind \in {"Labelled", "Probing", "Probe", "Port"},
         NEW c \in Containers, kind = "Port" => c \in Jobs
  PROVE  Question(kind, c) \in Questions /\ IsAbout(Question(kind, c))
         /\ Question(kind, c).kind = kind /\ Question(kind, c).name = c
  BY UnseenTyped DEF Question, Questions, IsAbout

LEMMA ProbesTyped ==
  ASSUME NEW cs \in SUBSET Containers
  PROVE  /\ Probes(cs) \subseteq Questions
         /\ \A q \in Probes(cs) : IsAbout(q) /\ q.kind = "Probing" /\ q.name \in cs
  BY QuestionTyped DEF Probes

LEMMA RestingWithin ==
  ASSUME NEW labels, DOMAIN labels \subseteq Containers
  PROVE  Resting(labels) \in SUBSET Containers
  BY DEF Resting

----------------------------------------------------------------------------
(* What a step may do to what was asked and told, by who does it.            *)

\* A halt goes to a container with no turn in it, and asks nothing.
LEMMA TunnelAnswered ==
  ASSUME Typed, NEW c \in Containers, NEW answering \in BOOLEAN,
         tunnel_answered(c, answering, Forgotten(c))
  PROVE  /\ tunnels' \subseteq Jobs
         /\ commands' \in [Containers -> Seq(Commands)]
         /\ \A d \in Containers :
              \/ commands'[d] = commands[d]
              \/ d = c /\ ~(c \in Jobs /\ agent[c] # "None")
<1>1. commands \in [Containers -> Seq(Commands)] /\ tunnels \subseteq Jobs
  BY DEF Typed, TypeOK
<1>2. Does(c, "Halt") \in [Containers -> Seq(Commands)]
  BY DoesTyped DEF Commands
<1>3. \A d \in Containers : d # c => Does(c, "Halt")[d] = commands[d]
  BY <1>1 DEF Does
<1>4. CASE answering \/ (c \in Jobs /\ agent[c] # "None")
  BY <1>1, <1>4 DEF tunnel_answered
<1>5. CASE ~(answering \/ (c \in Jobs /\ agent[c] # "None"))
  BY <1>1, <1>2, <1>3, <1>5 DEF tunnel_answered, Forgotten, Halt
<1>. QED  BY <1>4, <1>5

\* What an answer leaves out of what was asked, and adds to it.
LEMMA LabelledAsks ==
  ASSUME Typed, LabelsAreTrue, NEW q \in asked, NEW label,
         q.name \in Containers, label = "Ours" => Ours(q.name), labelled(q, label)
  PROVE  /\ asked' \subseteq Questions /\ DOMAIN listing' \subseteq Containers
         /\ \A p \in asked' : IsAbout(p) /\ (p.kind \in {"Probing", "Probe"} => Ours(p.name))
         /\ \A c \in DOMAIN listing' : listing'[c] = "Ours" => Ours(c)
         /\ UNCHANGED <<commands, paths>>
<1> DEFINE labels == [c \in DOMAIN listing |-> IF c = q.name THEN label ELSE listing[c]]
<1>1. DOMAIN labels \subseteq Containers /\ \A c \in DOMAIN labels : labels[c] = "Ours" => Ours(c)
  BY DEF Typed, TypeOK, LabelsAreTrue
<1>2. Resting(labels) \in SUBSET Containers  BY <1>1, RestingWithin
<1>3. \A c \in Resting(labels) : Ours(c)
  <2>1. \A c \in Resting(labels) : c \in Jobs \/ (c \in DOMAIN labels /\ labels[c] = "Ours")
    BY DEF Resting, belonging
  <2>2. \A c \in Jobs : Ours(c)  BY ContainersAssumption DEF Ours
  <2>. QED  BY <1>1, <2>1, <2>2
<1>4. /\ Probes(Resting(labels)) \subseteq Questions
      /\ \A p \in Probes(Resting(labels)) : IsAbout(p) /\ Ours(p.name)
  BY <1>2, <1>3, ProbesTyped
<1>5. \/ listing' = labels /\ asked' = asked \ {q}
      \/ listing' = Nobody /\ asked' = (asked \ {q}) \union Probes(Resting(labels))
  BY DEF labelled
<1>6. DOMAIN Nobody = {}  BY DEF Nobody
<1>7. UNCHANGED <<commands, paths>>  BY DEF labelled
<1>8. asked \subseteq Questions /\ \A p \in asked : IsAbout(p)  BY DEF Typed
<1>9. \A p \in asked : p.kind \in {"Probing", "Probe"} => Ours(p.name)  BY DEF LabelsAreTrue
<1> HIDE DEF labels
<1>. QED  BY <1>1, <1>4, <1>5, <1>6, <1>7, <1>8, <1>9

Inv == Typed /\ StartIsLast /\ LabelsAreTrue

\* A job's turn begins: its start is the last thing told.
LEMMA Beginning ==
  ASSUME Inv, NEW j \in Jobs, commands' = Start(j),
         agent' = [agent EXCEPT ![j] = "Starting"],
         UNCHANGED <<world, listing, asked>>
  PROVE  /\ commands' \in [Containers -> Seq(Commands)]
         /\ StartIsLast' /\ LabelsAreTrue'
<1>1. j \in Containers /\ j \notin Strays /\ Jobs \subseteq Containers
  BY ContainersAssumption DEF Containers
<1>2. commands \in [Containers -> Seq(Commands)] /\ agent \in [Jobs -> {"None", "Starting", "Talking"}]
  BY DEF Inv, Typed, TypeOK
<1>3. Start(j) \in [Containers -> Seq(Commands)]
  BY <1>1, DoesTyped DEF Inv, Start, Commands
<1>4. Start(j)[j] = Append(commands[j], "Start") /\ \A c \in Containers \ {j} : Start(j)[c] = commands[c]
  BY <1>1, <1>2 DEF Start, Does
<1>5. Last(Start(j)[j]) = "Start"
  BY <1>1, <1>2, <1>4, AppendTold DEF Commands
<1>6. StartIsLast'
  BY <1>1, <1>2, <1>4, <1>5 DEF Inv, StartIsLast, world, Last
<1>7. LabelsAreTrue'
  BY <1>1, <1>4 DEF Inv, LabelsAreTrue, OthersAreLeft, Ours, world, Containers
<1>. QED  BY <1>3, <1>6, <1>7

LEMMA TurnBeginsKeeps == ASSUME Inv, NEW j \in Jobs, TurnBegins(j) PROVE Inv'
<1>1. /\ commands' \in [Containers -> Seq(Commands)]
      /\ StartIsLast' /\ LabelsAreTrue'
  BY Beginning DEF TurnBegins
<1>2. Typed'
  BY <1>1 DEF Inv, Typed, TypeOK, TurnBegins, world
<1>. QED  BY <1>1, <1>2 DEF Inv

LEMMA NextTurnKeeps == ASSUME Inv, NEW j \in Jobs, NextTurn(j) PROVE Inv'
<1>1. /\ commands' \in [Containers -> Seq(Commands)]
      /\ StartIsLast' /\ LabelsAreTrue'
  BY Beginning DEF NextTurn
<1>2. Typed'
  BY <1>1 DEF Inv, Typed, TypeOK, NextTurn, world
<1>. QED  BY <1>1, <1>2 DEF Inv

LEMMA job_endedKeeps == ASSUME Inv, NEW j \in Jobs, job_ended(j) PROVE Inv'
<1>1. j \in Containers /\ j \notin Strays  BY ContainersAssumption DEF Containers
<1>2. /\ Question("Probing", j) \in Questions /\ IsAbout(Question("Probing", j))
      /\ Question("Probing", j).name = j
  BY <1>1, QuestionTyped
<1>3. asked' = asked \union {Question("Probing", j)}  BY DEF job_ended
<1>4. Typed'
  <2>1. \A q \in asked' : q.seen \in Seen /\ IsAbout(q)
    BY <1>2, <1>3 DEF Inv, Typed, TypeOK, Questions
  <2>. QED  BY <1>2, <1>3, <2>1 DEF Inv, Typed, TypeOK, job_ended, world, paths, Questions
<1>5. StartIsLast'
  BY DEF Inv, Typed, TypeOK, StartIsLast, job_ended, world, Last
<1>6. LabelsAreTrue'
  BY <1>1, <1>2, <1>3 DEF Inv, LabelsAreTrue, OthersAreLeft, Ours, job_ended, world
<1>. QED  BY <1>4, <1>5, <1>6 DEF Inv

LEMMA retireKeeps == ASSUME Inv, NEW j \in Jobs, retire(j) PROVE Inv'
<1>1. j \in Containers /\ j \notin Strays /\ Jobs \subseteq Containers
  BY ContainersAssumption DEF Containers
<1>2. commands' \in [Containers -> Seq(Commands)]  BY DiscardTyped DEF Inv, retire
<1>3. \A c \in Containers \ {j} : commands'[c] = commands[c]  BY DEF retire, Discard
<1>4. agent[j] = "None"  BY DEF Inv, Typed, TypeOK, retire
<1>5. Typed'  BY <1>2, <1>4 DEF Inv, Typed, TypeOK, retire, world
<1>6. StartIsLast'
  BY <1>1, <1>3, <1>4 DEF Inv, StartIsLast, retire, world, Last
<1>7. LabelsAreTrue'
  BY <1>1, <1>3 DEF Inv, LabelsAreTrue, OthersAreLeft, Ours, retire, world, Containers
<1>. QED  BY <1>5, <1>6, <1>7 DEF Inv

LEMMA tunnel_askedKeeps ==
  ASSUME Inv, NEW j \in Jobs, NEW v \in Visitors, tunnel_asked(v, j) PROVE Inv'
<1>1. j \in Containers  BY DEF Containers
<1>2. /\ Question("Port", j) \in Questions /\ IsAbout(Question("Port", j))
      /\ Question("Port", j).kind = "Port"
  BY <1>1, QuestionTyped
<1>3. asked' \in {asked, asked \union {Question("Port", j)}}  BY DEF tunnel_asked
<1>4. routing' \in [Jobs -> SUBSET Visitors] /\ answered' \subseteq Visitors
  BY DEF Inv, Typed, TypeOK, tunnel_asked
<1>5. Typed'
  <2>1. \A q \in asked' : q.seen \in Seen /\ IsAbout(q)
    BY <1>2, <1>3 DEF Inv, Typed, TypeOK, Questions
  <2>2. asked' \subseteq Questions  BY <1>2, <1>3 DEF Inv, Typed
  <2>. QED  BY <1>4, <2>1, <2>2 DEF Inv, Typed, TypeOK, tunnel_asked, world, records
<1>6. StartIsLast'
  BY DEF Inv, StartIsLast, tunnel_asked, world, records, Last
<1>7. LabelsAreTrue'
  BY <1>2, <1>3 DEF Inv, LabelsAreTrue, OthersAreLeft, Ours, tunnel_asked, world
<1>. QED  BY <1>5, <1>6, <1>7 DEF Inv

----------------------------------------------------------------------------
(* What the runtime says. *)

\* A step of the runtime's answers keeps what each of them does.
LEMMA Answering ==
  ASSUME Inv, UNCHANGED <<records, world>>,
         asked' \subseteq Questions, DOMAIN listing' \subseteq Containers,
         \A p \in asked' : IsAbout(p) /\ (p.kind \in {"Probing", "Probe"} => Ours(p.name)),
         \A c \in DOMAIN listing' : listing'[c] = "Ours" => Ours(c),
         tunnels' \subseteq Jobs, answered' \subseteq Visitors,
         routing' \in [Jobs -> SUBSET Visitors],
         commands' \in [Containers -> Seq(Commands)],
         \A c \in Containers : \/ commands'[c] = commands[c]
                               \/ Ours(c) /\ ~(c \in Jobs /\ agent[c] # "None")
  PROVE  Inv'
<1>1. Typed'
  <2>1. \A q \in asked' : q.seen \in Seen  BY DEF Questions
  <2>. QED  BY <2>1 DEF Inv, Typed, TypeOK, records, world
<1>2. StartIsLast'
  BY DEF Inv, StartIsLast, records, world, Last, Containers
<1>3. LabelsAreTrue'
  BY DEF Inv, LabelsAreTrue, OthersAreLeft, Ours, world, Containers
<1>. QED  BY <1>1, <1>2, <1>3 DEF Inv

LEMMA settle_laterKeeps == ASSUME Inv, settle_later PROVE Inv'
<1>1. /\ Question("Listing", "All") \in Questions /\ IsAbout(Question("Listing", "All"))
      /\ Question("Listing", "All").kind = "Listing"
  BY UnseenTyped DEF Question, Questions, IsAbout
<1>2. asked' = asked \union {Question("Listing", "All")}  BY DEF settle_later
<1>. QED
  BY <1>1, <1>2, Answering DEF Inv, Typed, TypeOK, LabelsAreTrue, settle_later, records, world, paths

LEMMA LooksKeeps == ASSUME Inv, NEW name, Looks(name) PROVE Inv'
<1>1. PICK q \in asked :
        asked' = (asked \ {q}) \union
            {[q EXCEPT !.seen =
                [looked  |-> TRUE,
                 up      |-> IF q.kind = "Listing"
                               THEN {c \in Containers : container[c] = "Up"} ELSE {},
                 port    |-> IF q.kind \in {"Port", "Probing"} /\ q.name \in Jobs
                                  /\ container[q.name] = "Up"
                               THEN port[q.name] ELSE 0,
                 answers |-> /\ q.kind = "Probe"
                             /\ q.name \in showing
                             /\ q.port = port[q.name]]]}
  BY DEF Looks
<1> DEFINE seen == [looked  |-> TRUE,
                 up      |-> IF q.kind = "Listing"
                               THEN {c \in Containers : container[c] = "Up"} ELSE {},
                 port    |-> IF q.kind \in {"Port", "Probing"} /\ q.name \in Jobs
                                  /\ container[q.name] = "Up"
                               THEN port[q.name] ELSE 0,
                 answers |-> /\ q.kind = "Probe"
                             /\ q.name \in showing
                             /\ q.port = port[q.name]]
<1>2. seen \in Seen  BY DEF Inv, Typed, TypeOK, Seen
<1> DEFINE told == [q EXCEPT !.seen = seen]
<1>3. asked' = (asked \ {q}) \union {told}  BY <1>1
<1> HIDE DEF seen
<1>4. q \in Questions /\ IsAbout(q)  BY DEF Inv, Typed
<1>5. told \in Questions /\ told.kind = q.kind /\ told.name = q.name
  BY <1>2, <1>4 DEF Questions
<1>6. IsAbout(told)  BY <1>4, <1>5 DEF IsAbout
<1> HIDE DEF told
<1>7. \A p \in asked' : p \in Questions /\ IsAbout(p)
                        /\ (p.kind \in {"Probing", "Probe"} => Ours(p.name))
  BY <1>3, <1>5, <1>6 DEF Inv, Typed, LabelsAreTrue
<1>. QED
  BY <1>7, Answering DEF Looks, Inv, Typed, TypeOK, LabelsAreTrue, paths

LEMMA AnswersKeeps == ASSUME Inv, NEW name, Answers(name) PROVE Inv'
<1>1. PICK q \in asked : \/ listing_named(q)
                         \/ q.kind = "Labelled" /\ labelled(q, LabelOf(q.name))
                         \/ probing(q)
                         \/ probedBack(q)
                         \/ port_found(q)
  BY DEF Answers
<1>2. UNCHANGED <<records, world, faults>>  BY DEF Answers
<1>3. /\ q \in Questions /\ IsAbout(q) /\ q.seen \in Seen
      /\ q.kind \in {"Probing", "Probe"} => Ours(q.name)
  BY DEF Inv, Typed, TypeOK, LabelsAreTrue
<1>4. /\ \A p \in asked : p \in Questions /\ IsAbout(p)
                          /\ (p.kind \in {"Probing", "Probe"} => Ours(p.name))
      /\ DOMAIN listing \subseteq Containers
      /\ \A c \in DOMAIN listing : listing[c] = "Ours" => Ours(c)
      /\ tunnels \subseteq Jobs /\ answered \subseteq Visitors
      /\ routing \in [Jobs -> SUBSET Visitors]
      /\ commands \in [Containers -> Seq(Commands)]
  BY DEF Inv, Typed, TypeOK, LabelsAreTrue
<1>5. CASE listing_named(q)
  <2>1. q.seen.up \subseteq Containers  BY <1>3 DEF Seen
  <2> DEFINE more == {Question("Labelled", c) : c \in q.seen.up}
  <2>2. \A p \in more : p \in Questions /\ IsAbout(p) /\ p.kind = "Labelled"
    BY <2>1, QuestionTyped
  <2>3. /\ listing' = [c \in q.seen.up |-> "Unread"] /\ asked' = (asked \ {q}) \union more
        /\ UNCHANGED <<commands, paths>>
    BY <1>5 DEF listing_named
  <2> HIDE DEF more
  <2>. QED  BY <1>2, <1>4, <2>1, <2>2, <2>3, Answering DEF paths
<1>6. CASE q.kind = "Labelled" /\ labelled(q, LabelOf(q.name))
  <2>1. q.name \in Containers  BY <1>3, <1>6 DEF IsAbout
  <2>2. LabelOf(q.name) = "Ours" => Ours(q.name)
    BY ContainersAssumption DEF LabelOf, Ours
  <2>. QED  BY <1>2, <1>4, <1>6, <2>1, <2>2, LabelledAsks, Answering DEF Inv, paths
<1>7. CASE probing(q)
  <2>1. q.name \in Containers  BY <1>3, <1>7 DEF IsAbout, probing
  <2>2. Ours(q.name)  BY <1>3, <1>7 DEF probing
  <2>3. CASE q.seen.port = 0
    <3>1. /\ tunnel_answered(q.name, FALSE, Forgotten(q.name)) /\ asked' = asked \ {q}
          /\ UNCHANGED <<listing, routing, answered>>
      BY <1>7, <2>3 DEF probing
    <3>. QED  BY <1>2, <1>4, <2>1, <2>2, <3>1, TunnelAnswered, Answering DEF Inv
  <2>4. CASE q.seen.port # 0
    <3> DEFINE probe == [Question("Probe", q.name) EXCEPT !.port = q.seen.port]
    <3>1. /\ probe \in Questions /\ IsAbout(probe)
          /\ probe.kind = "Probe" /\ probe.name = q.name
      BY <1>3, <2>1, UnseenTyped DEF Question, Questions, IsAbout, Seen
    <3>2. asked' = (asked \ {q}) \union {probe}
      BY <1>7, <2>4 DEF probing
    <3>3. UNCHANGED <<tunnels, commands, listing, routing, answered>>
      BY <1>7, <2>4 DEF probing
    <3> HIDE DEF probe
    <3>. QED  BY <1>2, <1>4, <2>2, <3>1, <3>2, <3>3, Answering
  <2>. QED  BY <2>3, <2>4
<1>8. CASE probedBack(q)
  <2>1. q.name \in Containers  BY <1>3, <1>8 DEF IsAbout, probedBack
  <2>2. Ours(q.name) /\ q.seen.answers \in BOOLEAN  BY <1>3, <1>8 DEF probedBack, Seen
  <2>3. /\ tunnel_answered(q.name, q.seen.answers, Forgotten(q.name)) /\ asked' = asked \ {q}
        /\ UNCHANGED <<listing, routing, answered>>
    BY <1>8 DEF probedBack
  <2>. QED  BY <1>2, <1>4, <2>1, <2>2, <2>3, TunnelAnswered, Answering DEF Inv
<1>9. CASE port_found(q)
  <2>1. q.name \in Jobs  BY <1>3, <1>9 DEF IsAbout, port_found
  <2>2. /\ tunnels' \subseteq Jobs /\ answered' \subseteq Visitors
        /\ routing' \in [Jobs -> SUBSET Visitors]
    BY <1>4, <1>9, <2>1 DEF port_found
  <2>3. asked' = asked \ {q} /\ UNCHANGED <<listing, commands>>  BY <1>9 DEF port_found
  <2>. QED  BY <1>2, <1>4, <2>2, <2>3, Answering
<1>. QED  BY <1>1, <1>5, <1>6, <1>7, <1>8, <1>9

LEMMA LabelUnreadKeeps == ASSUME Inv, LabelUnread PROVE Inv'
<1>1. PICK q \in asked : q.name \in Strays /\ labelled(q, "Unlabelled")  BY DEF LabelUnread
<1>2. q.name \in Containers  BY <1>1 DEF Containers
<1>. QED  BY <1>1, <1>2, LabelledAsks, Answering DEF LabelUnread, Inv, Typed, TypeOK, paths

----------------------------------------------------------------------------
(* What the runtime does. *)

LEMMA ObeysKeeps == ASSUME Inv, NEW c \in Containers, Obeys(c) PROVE Inv'
<1> DEFINE told == commands[c]
<1>1. /\ told \in Seq(Commands) /\ told # <<>>
      /\ commands \in [Containers -> Seq(Commands)]
      /\ commands' = [commands EXCEPT ![c] = Tail(told)]
  BY DEF Inv, Typed, Obeys
<1>2. /\ Tail(told) \in Seq(Commands) /\ Head(told) \in Commands
      /\ Tail(told) = <<>> \/ Last(Tail(told)) = Last(told)
      /\ Last(told) = "Start" /\ ~Told(Tail(told), "Start") => Tail(told) = <<>>
  BY <1>1, TailTold
<1>3. /\ commands'[c] = Tail(told)
      /\ \A d \in Containers \ {c} : commands'[d] = commands[d]
      /\ commands' \in [Containers -> Seq(Commands)]
  BY <1>1, <1>2
<1>4. /\ agent \in [Jobs -> {"None", "Starting", "Talking"}] /\ port \in [Jobs -> Places]
      /\ container \in [Containers -> {"None", "Stopped", "Up"}]
      /\ showing \subseteq {d \in Containers : container[d] = "Up"}
      /\ Jobs \subseteq Containers
  BY DEF Inv, Typed, TypeOK, Containers
<1>5. c \in Jobs => agent[c] # "Talking"
  BY <1>1 DEF Inv, StartIsLast
<1>6. UNCHANGED <<progress, turns, started, paths, listing, asked, faults>>
  BY DEF Obeys
<1>9. LabelsAreTrue'
  <2>1. c \in Strays => started[c] = "Ours"
    BY <1>1 DEF Inv, LabelsAreTrue, OthersAreLeft
  <2>2. OthersAreLeft'
    BY <1>3, <1>6, <2>1 DEF Inv, LabelsAreTrue, OthersAreLeft, Containers
  <2>. QED  BY <1>6, <2>2 DEF Inv, LabelsAreTrue, Ours
<1> HIDE DEF told
<1>7. CASE Head(told) = "Start"
  <2>1. /\ container' = [container EXCEPT ![c] = IF @ = "None" THEN @ ELSE "Up"]
        /\ port' = [port EXCEPT ![c] = IF container[c] = "Stopped" THEN 3 - @ ELSE @]
        /\ agent' = [agent EXCEPT ![c] = IF /\ container[c] # "None" /\ @ = "Starting"
                                            /\ ~Told(Tail(told), "Start")
                                           THEN "Talking" ELSE @]
        /\ UNCHANGED showing
    BY <1>7 DEF Obeys, told
  <2>2. /\ container' \in [Containers -> {"None", "Stopped", "Up"}]
        /\ showing' \subseteq {d \in Containers : container'[d] = "Up"}
    BY <1>4, <2>1
  <2>3. port' \in [Jobs -> Places]
    <3>1. \A p \in Places : 3 - p \in Places  BY DEF Places
    <3>. QED  BY <1>4, <2>1, <3>1
  <2>4. /\ agent' \in [Jobs -> {"None", "Starting", "Talking"}]
        /\ \A j \in Jobs : agent'[j] # "None" <=> agent[j] # "None"
    BY <1>4, <2>1
  <2>5. ASSUME NEW j \in Jobs
        PROVE  /\ agent'[j] = "Starting" => commands'[j] = <<>> \/ Last(commands'[j]) = "Start"
               /\ agent'[j] = "Talking" => commands'[j] = <<>> /\ container'[j] = "Up"
    <3>1. CASE j # c
      BY <1>3, <1>4, <2>1, <3>1 DEF Inv, StartIsLast
    <3>2. CASE j = c /\ agent'[j] = "Talking"
      <4>1. /\ agent[c] = "Starting" /\ container[c] # "None"
            /\ ~Told(Tail(told), "Start")
        BY <1>4, <1>5, <2>1, <3>2
      <4>2. Last(told) = "Start"  BY <1>1, <3>2, <4>1 DEF Inv, StartIsLast, told
      <4>. QED  BY <1>2, <1>3, <1>4, <2>1, <3>2, <4>1, <4>2
    <3>3. CASE j = c /\ agent'[j] = "Starting"
      <4>1. agent[c] = "Starting"  BY <1>4, <2>1, <3>3
      <4>2. Last(told) = "Start"  BY <1>1, <3>3, <4>1 DEF Inv, StartIsLast, told
      <4>. QED  BY <1>2, <1>3, <3>3, <4>2
    <3>. QED  BY <3>1, <3>2, <3>3
  <2>6. StartIsLast'  BY <2>5 DEF StartIsLast
  <2>. QED
    <3>1. TypeOK'
      BY <1>6, <2>2, <2>3, <2>4 DEF Inv, Typed, TypeOK, paths
    <3>. QED  BY <1>3, <1>6, <1>9, <2>6, <3>1 DEF Inv, Typed
<1>8. CASE Head(told) \in {"Halt", "Discard"}
  <2>1. /\ container' \in [Containers -> {"None", "Stopped", "Up"}]
        /\ showing' = showing \ {c} /\ UNCHANGED <<port, agent>>
        /\ \A d \in Containers \ {c} : container'[d] = container[d]
    BY <1>4, <1>8 DEF Obeys, told
  <2>2. showing' \subseteq {d \in Containers : container'[d] = "Up"}
    BY <1>4, <2>1
  <2>3. ASSUME NEW j \in Jobs
        PROVE  /\ agent[j] = "Starting" => commands'[j] = <<>> \/ Last(commands'[j]) = "Start"
               /\ agent[j] = "Talking" => commands'[j] = <<>> /\ container'[j] = "Up"
    <3>1. CASE j # c
      BY <1>3, <1>4, <2>1, <3>1 DEF Inv, StartIsLast
    <3>2. CASE j = c
      BY <1>1, <1>2, <1>3, <1>5, <3>2 DEF Inv, StartIsLast, told
    <3>. QED  BY <3>1, <3>2
  <2>4. StartIsLast'  BY <2>1, <2>3 DEF StartIsLast
  <2>. QED
    <3>1. TypeOK'
      BY <1>6, <2>1, <2>2 DEF Inv, Typed, TypeOK, paths
    <3>. QED  BY <1>3, <1>6, <1>9, <2>4, <3>1 DEF Inv, Typed
<1>. QED  BY <1>2, <1>7, <1>8 DEF Commands

LEMMA ShowsKeeps == ASSUME Inv, NEW c \in Containers, Shows(c) \/ Silenced(c) PROVE Inv'
<1>1. UNCHANGED <<records, started, container, port, paths, listing, asked, commands, faults>>
  BY DEF Shows, Silenced
<1>2. showing' \subseteq {d \in Containers : container'[d] = "Up"}
  BY <1>1 DEF Inv, Typed, TypeOK, Shows, Silenced
<1>3. Typed'  BY <1>1, <1>2 DEF Inv, Typed, TypeOK, records, paths
<1>4. StartIsLast'  BY <1>1 DEF Inv, StartIsLast, records, Last
<1>5. LabelsAreTrue'  BY <1>1 DEF Inv, LabelsAreTrue, OthersAreLeft, Ours
<1>. QED  BY <1>3, <1>4, <1>5 DEF Inv

LEMMA wakingKeeps == ASSUME Inv, waking PROVE Inv'
<1> DEFINE Labels(unread) ==
             [c \in Containers |-> IF c \in unread THEN "Unlabelled" ELSE LabelOf(c)]
           present == {j \in Jobs : container[j] # "None"}
           working == {j \in present : progress[j] = "Working"}
           idle    == {j \in present : progress[j] = "Idle" /\ container[j] = "Up"}
<1>1. PICK kept \in {commands, [c \in Containers |-> <<>>]}, unread \in {{}, Strays} :
        /\ commands' = [c \in Containers |->
                         CASE c \in Cleared(Labels(unread)) -> Append(kept[c], "Discard")
                           [] c \in working -> Append(kept[c], "Start")
                           [] OTHER -> kept[c]]
        /\ progress' = [j \in Jobs |-> IF j \in present THEN progress[j] ELSE "Retired"]
        /\ agent' = [j \in Jobs |-> IF j \in working THEN "Starting" ELSE "None"]
        /\ asked' = Probes(idle)
  BY DEF waking
<1>2. /\ listing' = Nobody /\ tunnels' = {} /\ answered' = Visitors
      /\ routing' = [j \in Jobs |-> {}] /\ UNCHANGED <<turns, world>>
  BY DEF waking
<1>3. /\ Jobs \subseteq Containers /\ Strays \subseteq Containers /\ Jobs \cap Strays = {}
      /\ progress \in [Jobs -> {"Idle", "Working", "Retired"}]
      /\ commands \in [Containers -> Seq(Commands)]
  BY ContainersAssumption DEF Containers, Inv, Typed, TypeOK
<1> DEFINE cleared == Cleared(Labels(unread))
<1>4. \A c \in Strays : c \in cleared => started[c] = "Ours"
  BY <1>3 DEF Cleared, LabelOf, belonging
<1>5. cleared \cap working = {} /\ working \subseteq Jobs /\ idle \subseteq Jobs
  BY <1>3 DEF Cleared
<1>6. kept \in [Containers -> Seq(Commands)]
  <2>1. <<>> \in Seq(Commands)  OBVIOUS
  <2>2. [c \in Containers |-> <<>>] \in [Containers -> Seq(Commands)]  BY <2>1
  <2>3. kept = commands \/ kept = [c \in Containers |-> <<>>]  BY <1>1
  <2>. QED  BY <1>3, <2>2, <2>3
<1> HIDE DEF cleared, working
<1>7. \A c \in Containers : /\ c \in cleared => commands'[c] = Append(kept[c], "Discard")
                            /\ c \in working => commands'[c] = Append(kept[c], "Start")
                            /\ c \notin cleared \union working => commands'[c] = kept[c]
  BY <1>1, <1>5 DEF cleared, working
<1>8. commands' \in [Containers -> Seq(Commands)]
  <2>1. \A c \in Containers : commands'[c] \in Seq(Commands)
    BY <1>6, <1>7, AppendTold DEF Commands
  <2>2. commands' = [c \in Containers |-> commands'[c]]  BY <1>1
  <2>. QED  BY <2>1, <2>2
<1>9. /\ Probes(idle) \subseteq Questions
      /\ \A q \in Probes(idle) : IsAbout(q) /\ q.kind = "Probing" /\ q.name \in Jobs
  BY <1>3, <1>5, ProbesTyped
<1>10. Typed'
  <2>1. /\ progress' \in [Jobs -> {"Idle", "Working", "Retired"}]
        /\ agent' \in [Jobs -> {"None", "Starting", "Talking"}]
        /\ \A j \in Jobs : agent'[j] # "None" <=> progress'[j] = "Working"
    BY <1>1, <1>3 DEF working
  <2>2. \A q \in asked' : q.seen \in Seen  BY <1>1, <1>9 DEF Questions
  <2>3. DOMAIN listing' \subseteq Containers  BY <1>2 DEF Nobody
  <2>4. routing' \in [Jobs -> SUBSET Visitors]  BY <1>2
  <2>5. TypeOK'  BY <1>2, <2>1, <2>2, <2>3, <2>4 DEF Inv, Typed, TypeOK, world
  <2>. QED  BY <1>1, <1>8, <1>9, <2>5 DEF Typed
<1>11. StartIsLast'
  BY <1>1, <1>3, <1>5, <1>6, <1>7, AppendTold DEF StartIsLast, Commands
<1>12. LabelsAreTrue'
  <2>1. \A q \in asked' : Ours(q.name)'  BY <1>1, <1>3, <1>9 DEF Ours
  <2>2. \A c \in Strays : started[c] # "Ours" => kept[c] = <<>>
    BY <1>3 DEF Inv, LabelsAreTrue, OthersAreLeft
  <2>3. OthersAreLeft'
    BY <1>2, <1>3, <1>4, <1>5, <1>7, <2>2 DEF OthersAreLeft, world
  <2>. QED  BY <1>2, <2>1, <2>3 DEF LabelsAreTrue, Nobody
<1>. QED  BY <1>10, <1>11, <1>12 DEF Inv

----------------------------------------------------------------------------
LEMMA Begins == Init => Inv
<1> SUFFICES ASSUME Init PROVE Inv  OBVIOUS
<1>1. Jobs \subseteq Containers /\ Strays \subseteq Containers  BY DEF Containers
<1>2. TypeOK  BY DEF Init, TypeOK, Nobody, Places
<1>3. commands \in [Containers -> Seq(Commands)]  BY DEF Init
<1>4. StartIsLast  BY <1>1 DEF Init, StartIsLast
<1>5. LabelsAreTrue  BY <1>1 DEF Init, LabelsAreTrue, OthersAreLeft, Nobody
<1>. QED  BY <1>2, <1>3, <1>4, <1>5 DEF Inv, Typed, Init

LEMMA Steps == ASSUME Inv, [Next]_vars PROVE Inv'
<1>1. CASE \E j \in Jobs : \/ TurnBegins(j) \/ job_ended(j) \/ NextTurn(j) \/ retire(j)
                          \/ \E v \in Visitors : tunnel_asked(v, j)
  BY <1>1, TurnBeginsKeeps, job_endedKeeps, NextTurnKeeps, retireKeeps, tunnel_askedKeeps
<1>2. CASE \E c \in Containers : Shows(c) \/ Silenced(c) \/ Obeys(c)
  BY <1>2, ShowsKeeps, ObeysKeeps
<1>3. CASE \E name \in Containers \union {"All"} : Looks(name) \/ Answers(name)
  BY <1>3, LooksKeeps, AnswersKeeps
<1>4. CASE settle_later
  BY <1>4, settle_laterKeeps
<1>5. CASE LabelUnread
  BY <1>5, LabelUnreadKeeps
<1>6. CASE waking
  BY <1>6, wakingKeeps
<1>7. CASE UNCHANGED vars
  BY <1>7 DEF vars, records, world, paths, Inv, Typed, TypeOK, StartIsLast, Last,
              LabelsAreTrue, OthersAreLeft, Ours
<1>. QED  BY <1>1, <1>2, <1>3, <1>4, <1>5, <1>6, <1>7 DEF Next

\* The invariant of what was asked and told.
THEOREM Invariance == Spec => []Inv
<1>1. Inv /\ [Next]_vars => Inv'  BY Steps
<1>. QED  BY <1>1, Begins, PTL DEF Spec

\* Whatever is asked, told, begun, ended, labelled or died, every variable of
\* the containers keeps its type, and a job works exactly while it has a turn.
THEOREM TypeCorrect == Spec => []TypeOK
<1>1. Inv => TypeOK  BY DEF Inv, Typed
<1>. QED  BY <1>1, Invariance, PTL

\* For any number of jobs, turns and faults, no halt, verdict, sweep or restart
\* on its way takes a container from under the agent talking in it
\* (Running::tunnel_answered, tunnel.rs:516; settle and waking, sweep.rs).
THEOREM StaysUpUnderItsAgent == Spec => []UpUnderItsAgent
<1>1. Inv => UpUnderItsAgent  BY DEF Inv, StartIsLast, UpUnderItsAgent
<1>. QED  BY <1>1, Invariance, PTL

\* Whichever labels are read, unread or late, nothing is told of a container that
\* another instance started (Running::belonging, sweep.rs:88).
THEOREM NothingOfOthers == Spec => []OthersAreLeft
<1>1. Inv => OthersAreLeft  BY DEF Inv, LabelsAreTrue
<1>. QED  BY <1>1, Invariance, PTL
=============================================================================
