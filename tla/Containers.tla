----------------------------- MODULE Containers -----------------------------
(***************************************************************************)
(* The containers an instance keeps, reconciled with its records: once on   *)
(* waking, and every so often from a listing; and the tunnel each shows its *)
(* work on, asked for before it is forwarded to and before a container is    *)
(* stopped.                                                                 *)
(*                                                                         *)
(* The runtime answers a question with what it saw when it looked, which is *)
(* earlier than the answer arrives. It does what it is told to one          *)
(* container in the order it was told.                                      *)
(***************************************************************************)
EXTENDS Integers, Sequences, FiniteSets

CONSTANTS
  Jobs,          (* jobs on record                                          *)
  Strays,        (* containers no record accounts for                       *)
  NamesAJob,     (* those among them whose name is a job's                  *)
  Visitors,      (* requests for a tunnel, of the one job each asks for     *)
  MaxTurns,      (* turns of the jobs                                       *)
  MaxFaults      (* deaths, labels that cannot be read, and listings asked  *)
                 (* for while one is being assembled                        *)

ASSUME ContainersAssumption ==
  /\ Jobs \intersect Strays = {}
  /\ NamesAJob \subseteq Strays
  /\ {MaxTurns, MaxFaults} \subseteq Nat

Containers == Jobs \union Strays

\* The ports there are to publish a tunnel on: a new one, and the last one.
Places == 1..2

\* Questions out to the runtime: seen is what it saw, or "Nothing" so far. A
\* port asked for is that of its container, 0 where there is none.
Unseen == [looked |-> FALSE, up |-> {}, port |-> 0, answers |-> FALSE]
Seen == [looked : BOOLEAN, up : SUBSET Containers, port : Places \union {0}, answers : BOOLEAN]

Question(kind, name) == [kind |-> kind, name |-> name, port |-> 0, seen |-> Unseen]

VARIABLES
  progress,    (* of each job, as recorded                                  *)
  agent,       (* of each job: no turn, one starting its container, or one  *)
               (* with its agent talking                                    *)
  started,     (* which instance started each stray, its label says          *)
  container,   (* what there is of each                                     *)
  showing,     (* those something answers in                                *)
  port,        (* where the runtime publishes each job's tunnel             *)
  tunnels,     (* jobs whose tunnel was found                               *)
  routing,     (* visitors waiting for the place to be found                *)
  answered,    (* visitors answered                                         *)
  listing,     (* the listing being assembled: the label of each, so far    *)
  asked,       (* the questions out                                         *)
  commands,    (* what the runtime was told to do to each and has not done  *)
  turns,       (* turns begun                                               *)
  faults       (* faults so far                                             *)

records == <<progress, agent, turns>>
world   == <<started, container, showing, port>>
paths   == <<tunnels, routing, answered>>
vars    == <<records, world, paths, listing, asked, commands, faults>>

Nobody == [n \in {} |-> "Unread"]

Does(name, command) == [commands EXCEPT ![name] = Append(@, command)]

Told(told, command) == \E i \in 1..Len(told) : told[i] = command

Start(j) == Does(j, "Start")
Halt(c) == Does(c, "Halt")
Discard(cs) == [c \in Containers |->
                  IF c \in cs THEN Append(commands[c], "Discard") ELSE commands[c]]

----------------------------------------------------------------------------
(* A job's turns, as its container meets them. *)

\* A message finds the job idle, and its container is started again, which
\* publishes its tunnel afresh.
TurnBegins(j) ==
  /\ progress[j] = "Idle" /\ turns < MaxTurns
  /\ progress' = [progress EXCEPT ![j] = "Working"]
  /\ agent' = [agent EXCEPT ![j] = "Starting"]
  /\ turns' = turns + 1
  /\ tunnels' = tunnels \ {j}
  /\ commands' = Start(j)
  /\ UNCHANGED <<world, routing, answered, listing, asked, faults>>

\* It ends, stopped, failed or answered, once the runtime has said whether the
\* container is up; and the container is asked about.
job_ended(j) ==
  /\ agent[j] = "Talking" \/ (agent[j] = "Starting" /\ ~Told(commands[j], "Start"))
  /\ progress' = [progress EXCEPT ![j] = "Idle"]
  /\ agent' = [agent EXCEPT ![j] = "None"]
  /\ asked' = asked \union {Question("Probing", j)}
  /\ UNCHANGED <<world, paths, listing, commands, turns, faults>>

\* It ends with a message waiting, which starts the next at once.
NextTurn(j) ==
  /\ agent[j] = "Talking" /\ turns < MaxTurns
  /\ agent' = [agent EXCEPT ![j] = "Starting"]
  /\ turns' = turns + 1
  /\ tunnels' = tunnels \ {j}
  /\ commands' = Start(j)
  /\ UNCHANGED <<progress, world, routing, answered, listing, asked, faults>>

\* A verdict ends the job; pressed again, its container is asked to go again.
retire(j) ==
  /\ progress[j] \in {"Idle", "Retired"}
  /\ ~Told(commands[j], "Discard")
  /\ container[j] # "None"
  /\ progress' = [progress EXCEPT ![j] = "Retired"]
  /\ tunnels' = tunnels \ {j}
  /\ commands' = Discard({j})
  /\ UNCHANGED <<agent, turns, world, routing, answered, listing, asked, faults>>

----------------------------------------------------------------------------
(* What is behind a tunnel. *)

\* A mistake: the turn that may have begun meanwhile is not looked for.
HaltsAnyway(c, answering, forgotten) ==
  IF answering
    THEN UNCHANGED <<tunnels, commands>>
    ELSE /\ tunnels' = forgotten
         /\ commands' = Halt(c)

\* A container is stopped where nothing answers, unless a turn has begun in it.
tunnel_answered(c, answering, forgotten) ==
  IF answering \/ (c \in Jobs /\ agent[c] # "None")
    THEN UNCHANGED <<tunnels, commands>>
    ELSE /\ tunnels' = forgotten
         /\ commands' = Halt(c)

Forgotten(c) == tunnels \ {c}

\* The runtime said where it is published, on the way to probing it.
probing(q) ==
  /\ q.kind = "Probing"
  /\ IF q.seen.port = 0
       THEN /\ tunnel_answered(q.name, FALSE, Forgotten(q.name))
            /\ asked' = asked \ {q}
       ELSE /\ asked' = (asked \ {q}) \union
                          {[Question("Probe", q.name) EXCEPT !.port = q.seen.port]}
            /\ UNCHANGED <<tunnels, commands>>
  /\ UNCHANGED <<listing, routing, answered>>

probedBack(q) ==
  /\ q.kind = "Probe"
  /\ tunnel_answered(q.name, q.seen.answers, Forgotten(q.name))
  /\ asked' = asked \ {q}
  /\ UNCHANGED <<listing, routing, answered>>

\* Somebody visits a job's tunnel. One question is out for all who wait.
tunnel_asked(v, j) ==
  /\ v \notin answered /\ \A k \in Jobs : v \notin routing[k]
  /\ CASE progress[j] = "Retired" \/ j \in tunnels ->
            answered' = answered \union {v} /\ UNCHANGED <<routing, asked>>
       [] OTHER ->
            /\ routing' = [routing EXCEPT ![j] = @ \union {v}]
            /\ asked' = IF routing[j] = {} THEN asked \union {Question("Port", j)} ELSE asked
            /\ UNCHANGED answered
  /\ UNCHANGED <<records, world, tunnels, listing, commands, faults>>

\* A mistake: those who wait are answered when there is somewhere to send them.
AnswersWhenFound(q) ==
  /\ q.kind = "Port"
  /\ IF q.seen.port # 0
       THEN /\ tunnels' = tunnels \union {q.name}
            /\ answered' = answered \union routing[q.name]
            /\ routing' = [routing EXCEPT ![q.name] = {}]
       ELSE UNCHANGED <<tunnels, answered, routing>>
  /\ asked' = asked \ {q}
  /\ UNCHANGED <<listing, commands>>

\* Everybody waiting is answered with where it was found, or that it is nowhere.
port_found(q) ==
  /\ q.kind = "Port"
  /\ tunnels' = IF q.seen.port # 0 THEN tunnels \union {q.name} ELSE tunnels
  /\ answered' = answered \union routing[q.name]
  /\ routing' = [routing EXCEPT ![q.name] = {}]
  /\ asked' = asked \ {q}
  /\ UNCHANGED <<listing, commands>>

----------------------------------------------------------------------------
(* The settling sweep. *)

\* A mistake: a label nobody could read is taken for this instance's.
BelongingUnlessSaid(label) == IF label = "Elsewhere" THEN label ELSE "Ours"

\* A label that says nothing, or could not be read, leaves a container alone.
belonging(label) == IF label \in {"Ours", "Elsewhere"} THEN label ELSE "Unlabelled"

\* What the sweep asks about: idle and finished jobs, and this instance's
\* containers that name a job it has no record of.
Resting(labels) ==
  {c \in DOMAIN labels :
     \/ c \in Jobs /\ progress[c] # "Working"
     \/ c \in NamesAJob /\ belonging(labels[c]) = "Ours"}

Probes(cs) == {Question("Probing", c) : c \in cs}

\* The timer goes off, with nothing else going on, or with the last label of a
\* listing still to come.
settle_later ==
  /\ Cardinality(asked) <= 1 /\ \A q \in asked : q.kind = "Labelled"
  /\ asked # {} => faults < MaxFaults
  /\ faults' = IF asked # {} THEN faults + 1 ELSE faults
  /\ \A c \in Containers : commands[c] = <<>>
  /\ asked' = asked \union {Question("Listing", "All")}
  /\ UNCHANGED <<records, world, paths, listing, commands>>

\* The names came back, and each is asked for its label. One being assembled
\* is given up.
listing_named(q) ==
  /\ q.kind = "Listing"
  /\ listing' = [c \in q.seen.up |-> "Unread"]
  /\ asked' = (asked \ {q}) \union {Question("Labelled", c) : c \in q.seen.up}
  /\ UNCHANGED <<commands, paths>>

LabelOf(c) == IF c \in Jobs THEN "Ours" ELSE started[c]

\* A mistake: the first label to come finishes the listing.
LabelledAtOnce(q, label) ==
  /\ q.kind = "Labelled"
  /\ LET labels == [c \in DOMAIN listing |-> IF c = q.name THEN label ELSE listing[c]] IN
     /\ listing' = Nobody
     /\ asked' = (asked \ {q}) \union Probes(Resting(labels))
  /\ UNCHANGED <<commands, paths>>

\* A label came back. The listing is finished when none is left to come.
labelled(q, label) ==
  /\ q.kind = "Labelled"
  /\ LET labels == [c \in DOMAIN listing |-> IF c = q.name THEN label ELSE listing[c]]
         others == {p \in asked \ {q} : p.kind = "Labelled"} IN
     IF others # {}
       THEN listing' = labels /\ asked' = asked \ {q}
       ELSE /\ listing' = Nobody
            /\ asked' = (asked \ {q}) \union Probes(Resting(labels))
  /\ UNCHANGED <<commands, paths>>

----------------------------------------------------------------------------
(* The runtime. *)

\* It looks, and what it sees is on its way. A stray publishes nothing.
Looks(name) ==
  /\ \E q \in asked :
       /\ ~q.seen.looked /\ q.kind # "Labelled" /\ q.name = name
       /\ asked' = (asked \ {q}) \union
            {[q EXCEPT !.seen =
                [looked  |-> TRUE,
                 up      |-> IF q.kind = "Listing"
                               THEN {c \in Containers : container[c] = "Up"} ELSE {},
                 port    |-> IF q.kind \in {"Port", "Probing"} /\ q.name \in Jobs
                                  /\ container[q.name] = "Up"
                               THEN port[q.name] ELSE 0,
                 answers |-> /\ q.kind = "Probe"
                             /\ q.name \in showing
                             /\ q.port = port[q.name]]]}
  /\ UNCHANGED <<records, world, paths, listing, commands, faults>>

Answers(name) ==
  /\ \E q \in asked :
       /\ q.seen.looked \/ q.kind = "Labelled"
       /\ q.name = name
       /\ \/ listing_named(q)
          \/ q.kind = "Labelled" /\ labelled(q, LabelOf(q.name))
          \/ probing(q)
          \/ probedBack(q)
          \/ port_found(q)
  /\ UNCHANGED <<records, world, faults>>

LabelUnread ==
  /\ faults < MaxFaults
  /\ \E q \in asked : q.name \in Strays /\ labelled(q, "Unlabelled")
  /\ faults' = faults + 1
  /\ UNCHANGED <<records, world>>

\* It does the next thing it was told. A container started afresh is
\* published somewhere new.
Obeys(c) ==
  /\ commands[c] # <<>>
  /\ commands' = [commands EXCEPT ![c] = Tail(@)]
  /\ CASE Head(commands[c]) = "Start" ->
            /\ container' = [container EXCEPT ![c] = IF @ = "None" THEN @ ELSE "Up"]
            /\ port' = [port EXCEPT ![c] = IF container[c] = "Stopped" THEN 3 - @ ELSE @]
            /\ agent' = [agent EXCEPT ![c] =
                           IF /\ container[c] # "None" /\ @ = "Starting"
                              /\ ~Told(Tail(commands[c]), "Start")
                             THEN "Talking" ELSE @]
            /\ UNCHANGED showing
       [] Head(commands[c]) = "Halt" ->
            /\ container' = [container EXCEPT ![c] = IF @ = "None" THEN @ ELSE "Stopped"]
            /\ showing' = showing \ {c}
            /\ UNCHANGED <<port, agent>>
       [] Head(commands[c]) = "Discard" ->
            /\ container' = [container EXCEPT ![c] = "None"]
            /\ showing' = showing \ {c}
            /\ UNCHANGED <<port, agent>>
  /\ UNCHANGED <<progress, turns, started, paths, listing, asked, faults>>

\* An agent leaves something listening in its container, or what listens ends.
Shows(c) ==
  /\ container[c] = "Up" /\ c \notin showing
  /\ c \in Jobs /\ agent[c] = "Talking"
  /\ showing' = showing \union {c}
  /\ UNCHANGED <<records, started, container, port, paths, listing, asked, commands, faults>>

Silenced(c) ==
  /\ c \in showing
  /\ showing' = showing \ {c}
  /\ UNCHANGED <<records, started, container, port, paths, listing, asked, commands, faults>>

----------------------------------------------------------------------------
(* A death, and waking. *)

\* What waking removes: containers of jobs that are over, and what this
\* instance started and cannot account for.
Cleared(labels) ==
  {c \in Containers : /\ container[c] # "None"
                      /\ \/ c \in Jobs /\ progress[c] = "Retired"
                         \/ c \in Strays /\ belonging(labels[c]) = "Ours"}

\* The instance dies, with what it was told to do done or not, and wakes to
\* what the runtime holds: containers it cannot account for go if they are its
\* own, a job without one is over, a working one is resumed, an idle one that
\* is up is asked about.
waking ==
  /\ faults < MaxFaults
  /\ faults' = faults + 1
  /\ \E kept \in {commands, [c \in Containers |-> <<>>]},
        unread \in {{}, Strays} :
       LET labels  == [c \in Containers |-> IF c \in unread THEN "Unlabelled" ELSE LabelOf(c)]
           present == {j \in Jobs : container[j] # "None"}
           working == {j \in present : progress[j] = "Working"}
           idle    == {j \in present : progress[j] = "Idle" /\ container[j] = "Up"} IN
       /\ commands' = [c \in Containers |->
                         CASE c \in Cleared(labels) -> Append(kept[c], "Discard")
                           [] c \in working -> Append(kept[c], "Start")
                           [] OTHER -> kept[c]]
       /\ progress' = [j \in Jobs |-> IF j \in present THEN progress[j] ELSE "Retired"]
       /\ agent' = [j \in Jobs |-> IF j \in working THEN "Starting" ELSE "None"]
       /\ asked' = Probes(idle)
  /\ listing' = Nobody
  /\ tunnels' = {}
  /\ answered' = Visitors /\ routing' = [j \in Jobs |-> {}]
  /\ UNCHANGED <<turns, world>>

----------------------------------------------------------------------------

Init ==
  /\ started \in [Strays -> {"Ours", "Elsewhere"}]
  /\ progress = [j \in Jobs |-> "Working"] /\ agent = [j \in Jobs |-> "Talking"]
  /\ container = [c \in Containers |-> "Up"]
  /\ showing = {} /\ port = [j \in Jobs |-> 1]
  /\ tunnels = {} /\ routing = [j \in Jobs |-> {}] /\ answered = {}
  /\ listing = Nobody /\ asked = {} /\ commands = [c \in Containers |-> <<>>]
  /\ turns = 0 /\ faults = 0

Next ==
  \/ \E j \in Jobs : \/ TurnBegins(j)
                     \/ job_ended(j)
                     \/ NextTurn(j)
                     \/ retire(j)
                     \/ \E v \in Visitors : tunnel_asked(v, j)
  \/ \E c \in Containers : Shows(c) \/ Silenced(c) \/ Obeys(c)
  \/ \E name \in Containers \union {"All"} : Looks(name) \/ Answers(name)
  \/ settle_later
  \/ LabelUnread
  \/ waking

Spec == Init /\ [][Next]_vars

\* The runtime does what it is told and answers what it is asked, and the
\* settling timer, always set again, keeps coming round.
FairSpec ==
  /\ Spec
  /\ WF_vars(settle_later)
  /\ WF_vars(\E name \in Containers \union {"All"} : Looks(name))
  /\ WF_vars(\E name \in Containers \union {"All"} : Answers(name))
  /\ WF_vars(\E c \in Containers : Obeys(c))

----------------------------------------------------------------------------

TypeOK ==
  /\ progress \in [Jobs -> {"Idle", "Working", "Retired"}]
  /\ agent \in [Jobs -> {"None", "Starting", "Talking"}]
  /\ started \in [Strays -> {"Ours", "Elsewhere"}]
  /\ container \in [Containers -> {"None", "Stopped", "Up"}]
  /\ showing \subseteq {c \in Containers : container[c] = "Up"}
  /\ port \in [Jobs -> Places] /\ tunnels \subseteq Jobs
  /\ routing \in [Jobs -> SUBSET Visitors] /\ answered \subseteq Visitors
  /\ DOMAIN listing \subseteq Containers
  /\ \A q \in asked : q.seen \in Seen
  /\ \A j \in Jobs : agent[j] # "None" <=> progress[j] = "Working"

\* No container is stopped or removed under an agent talking in it, whichever
\* probe, sweep, verdict or restart was on its way when its turn began
\* (tunnel.rs:516, sweep.rs:159, :496).
UpUnderItsAgent == \A j \in Jobs : agent[j] = "Talking" => container[j] = "Up"

\* Nothing is done to a container that another instance started, or that does
\* not say who did, or whose label could not be read in time (sweep.rs:88).
OthersAreLeft == \A c \in Strays : started[c] # "Ours" => commands[c] = <<>>

\* Settled(c): it is up with a reason to be.
Settled(c) == container[c] # "Up" \/ c \in showing \/ (c \in Jobs /\ agent[c] # "None")

\* A container of this instance's that shows nothing and has no turn in it does
\* not stay up, whatever probe of it was overtaken and whatever died; unless its
\* name says no job's, which only waking looks at (sweep.rs:484, lib.rs:1010).
NothingStaysUp ==
  \A c \in Jobs \union NamesAJob :
    []<>(Settled(c) \/ (c \in NamesAJob /\ started[c] # "Ours"))

\* Everybody who asked for a tunnel is answered, though the job is halted,
\* retired or given a turn while the place is looked for (tunnel.rs:437).
VisitorsAreAnswered ==
  \A v \in Visitors, j \in Jobs : v \in routing[j] ~> v \in answered

=============================================================================
