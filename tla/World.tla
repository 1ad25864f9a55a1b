------------------------------- MODULE World -------------------------------
(***************************************************************************)
(* What performs the instance's effects (src/world/src/lib.rs). One loop takes  *)
(* events one at a time, steps the instance, and performs what it asks, in     *)
(* order; a write is performed where the loop awaits it, and everything else on  *)
(* tasks of its own: three for a process kept open, one for a socket, one for a   *)
(* request being held, one for each question asked once. Each task sends the       *)
(* loop events. The instance here asks for anything it may ask for.                *)
(*                                                                         *)
(* A process may die at any moment, or the machine under it, leaving the file   *)
(* to the next start.                                                          *)
(***************************************************************************)
EXTENDS Naturals, Sequences, FiniteSets

CONSTANTS
  Processes, Sockets, Visitors,
  Exercised,          \* the sets of these a behaviour exercises one of
  MaxWrites, MaxSaid, MaxSends, MaxBodies,    \* bounds on each
  EarlyDisconnects    \* whether a socket is let go of while it is being opened

VARIABLES
  exercised, down,
  loop,               \* "Waiting" for an event, "Stepping", or "Writing"
  events,             \* the channel to the loop
  file, temporary,    \* what is under the file's name, and beside it
  writing, writes,    \* how far a write has come, and how many were asked for
  question,           \* how far each question has come, and how it was answered
  process, socket,    \* each as its tasks and the loop see it
  visitor, bodies,    \* where each request is, and how often its body was read
  held,               \* requests held open, by who answers them
  owes, over          \* what the instance has heard: whom it owes an answer, what ended

\* What is asked once, and answered once.
Questions == {"Read", "Run", "Wake", "Bind", "Request", "Probe", "Derive"}

disk == <<file, temporary, writing, writes>>
requests == <<visitor, bodies, held, owes>>
vars == <<exercised, down, loop, events, disk, question, process, socket, requests, over>>

WorldAssumption ==
  /\ \A e \in Exercised : e \subseteq Questions \union Processes \union Sockets \union Visitors
  \* What is asked, opened and connected, and who visits, have names of their own.
  /\ (Questions \union {"File"}) \intersect (Processes \union Sockets \union Visitors) = {}
  /\ Processes \intersect (Sockets \union Visitors) = {} /\ Sockets \intersect Visitors = {}
  /\ {MaxWrites, MaxSaid, MaxSends, MaxBodies} \subseteq Nat
  /\ EarlyDisconnects \in BOOLEAN

Event == [kind : {"Answered"}, of : Questions] \union [kind : {"Line", "Ended"}, of : Processes]
         \union [kind : {"Frame", "Disconnected"}, of : Sockets]
         \union [kind : {"Arrived", "Body"}, of : Visitors] \union [kind : {"Written"}, of : {"File"}]

Tell(kind, of) == events' = Append(events, [kind |-> kind, of |-> of])

\* What is asked for is asked for by a step, and performed before what follows.
Asks == ~down /\ loop = "Stepping"

----------------------------------------------------------------------------
\* The loop (run).
Step ==
  /\ ~down /\ loop = "Waiting" /\ events # <<>>
  /\ LET event == Head(events)
     IN  /\ owes' = IF event.kind \in {"Arrived", "Body"} THEN owes \union {event.of} ELSE owes
         /\ over' = IF event.kind \in {"Answered", "Ended", "Disconnected"}
                    THEN over \union {event.of} ELSE over
  /\ events' = Tail(events) /\ loop' = "Stepping"
  /\ UNCHANGED <<exercised, down, disk, question, process, socket, visitor, bodies, held>>

StepDone ==
  /\ Asks /\ loop' = "Waiting"
  /\ UNCHANGED <<exercised, down, events, disk, question, process, socket, requests, over>>

\* A write is made beside the file, reaches the disk, and takes its name
\* (write_atomically). 0 is a file with nothing in it, or part of something.
Write ==
  /\ Asks /\ writes < MaxWrites
  /\ loop' = "Writing" /\ writes' = writes + 1 /\ writing' = "Create"
  /\ UNCHANGED <<exercised, down, events, file, temporary, question, process, socket, requests, over>>

Writes(from, to) ==
  /\ ~down /\ loop = "Writing" /\ writing = from /\ writing' = to
  /\ UNCHANGED <<exercised, down, writes, question, process, socket, requests, over>>

Creates ==
  /\ Writes("Create", "Fill") /\ temporary' = [there |-> TRUE, content |-> 0, synced |-> FALSE]
  /\ UNCHANGED <<loop, events, file>>

Fills ==
  /\ Writes("Fill", "Sync") /\ temporary' = [temporary EXCEPT !.content = writes]
  /\ UNCHANGED <<loop, events, file>>

Syncs ==
  /\ Writes("Sync", "Rename") /\ temporary' = [temporary EXCEPT !.synced = TRUE]
  /\ UNCHANGED <<loop, events, file>>

NothingBeside == [there |-> FALSE, content |-> 0, synced |-> FALSE]

Renames ==
  /\ Writes("Rename", "None")
  /\ file' = [content |-> temporary.content, synced |-> temporary.synced]
  /\ temporary' = NothingBeside
  /\ loop' = "Stepping" /\ Tell("Written", "File")

CannotWrite ==
  /\ writing # "None" /\ Writes(writing, "None")
  /\ temporary' = NothingBeside /\ UNCHANGED file
  /\ loop' = "Stepping" /\ Tell("Written", "File")

\* A question goes to a task of its own, which answers it once, whatever came of it.
Ask(q) ==
  /\ Asks /\ q \in exercised /\ question[q] = "Unasked"
  /\ question' = [question EXCEPT ![q] = "Asked"]
  /\ UNCHANGED <<exercised, down, loop, events, disk, process, socket, requests, over>>

QuestionStep(q, from) ==
  /\ ~down /\ question[q] = from
  /\ UNCHANGED <<exercised, down, loop, disk, process, socket, requests, over>>

GoesOn(q, to) == question' = [question EXCEPT ![q] = to] /\ UNCHANGED events
Answered(q, how) == question' = [question EXCEPT ![q] = how] /\ Tell("Answered", q)

\* A file is there, absent or unreadable.
Reads == QuestionStep("Read", "Asked") /\ Answered("Read", "Answered")

\* A program is started, given its input whole, and waited for; one whose input
\* cannot be written is let go of, and killed by that (run_once).
Runs ==
  \/ QuestionStep("Run", "Asked") /\ (GoesOn("Run", "Started") \/ Answered("Run", "NotFound"))
  \/ QuestionStep("Run", "Started") /\ (GoesOn("Run", "Fed") \/ Answered("Run", "Failed"))
  \/ QuestionStep("Run", "Fed") /\ Answered("Run", "Answered")

Wakes == QuestionStep("Wake", "Asked") /\ Answered("Wake", "Answered")

\* An address taken is accepted on from being taken (binding, accepting).
Binds ==
  /\ QuestionStep("Bind", "Asked")
  /\ Answered("Bind", "Bound") \/ Answered("Bind", "Failed")

\* What is requested is answered with its head and then its body, in time or not.
Requests ==
  \/ QuestionStep("Request", "Asked") /\ (GoesOn("Request", "Headed") \/ Answered("Request", "Failed"))
  \/ QuestionStep("Request", "Headed") /\ (Answered("Request", "Answered") \/ Answered("Request", "Failed"))

\* A port takes the connection or refuses it, and then speaks, closes or says nothing.
Probes ==
  \/ QuestionStep("Probe", "Asked") /\ (GoesOn("Probe", "Accepted") \/ Answered("Probe", "Refused"))
  \/ QuestionStep("Probe", "Accepted") /\ \E how \in {"Spoke", "Closed", "Silent"} : Answered("Probe", how)

Derives ==
  /\ QuestionStep("Derive", "Asked")
  /\ Answered("Derive", "Answered") \/ Answered("Derive", "Failed")

Answers(q) ==
  \/ q = "Read" /\ Reads
  \/ q = "Run" /\ Runs
  \/ q = "Wake" /\ Wakes
  \/ q = "Bind" /\ Binds
  \/ q = "Request" /\ Requests
  \/ q = "Probe" /\ Probes
  \/ q = "Derive" /\ Derives

----------------------------------------------------------------------------
\* A process kept open: a task for its input, one for its output, one for its
\* life, and what the loop reaches it through while it is in the map.
ProcessAt(p, stage) == ~down /\ process[p].stage = stage

ProcessStep ==
  UNCHANGED <<exercised, down, loop, disk, question, socket, requests, over>>

Started(p) ==
  /\ process' = [process EXCEPT ![p].stage = "Alive", ![p].handle = TRUE]
  /\ UNCHANGED events

CannotStart(p) ==
  /\ process' = [process EXCEPT ![p].stage = "Ended"] /\ Tell("Ended", p)

Open(p) ==
  /\ Asks /\ p \in exercised /\ ProcessAt(p, "Unopened") /\ ProcessStep
  /\ Started(p) \/ CannotStart(p)

\* A line sent to what is no longer in the map goes nowhere (tell).
Send(p) ==
  /\ Asks /\ process[p].handle /\ process[p].sent < MaxSends /\ ProcessStep
  /\ process' = [process EXCEPT ![p].sent = @ + 1, ![p].queued = @ + 1]
  /\ UNCHANGED events

Close(p) ==
  /\ Asks /\ process[p].handle /\ ProcessStep
  /\ process' = [process EXCEPT ![p].handle = FALSE, ![p].closing = TRUE]
  /\ UNCHANGED events

IsWrittenTo(p) ==
  /\ ~down /\ process[p].queued > 0 /\ ProcessStep
  /\ process' = [process EXCEPT ![p].queued = @ - 1] /\ UNCHANGED events

Says(p) ==
  /\ ProcessAt(p, "Alive") /\ process[p].said < MaxSaid /\ ProcessStep
  /\ process' = [process EXCEPT ![p].said = @ + 1, ![p].pipe = @ + 1] /\ UNCHANGED events

Dies(p) ==
  /\ ProcessAt(p, "Alive") /\ ProcessStep
  /\ process' = [process EXCEPT ![p].stage = "Dead"] /\ UNCHANGED events

Killed(p) == process[p].closing /\ Dies(p)

LineRead(p) ==
  /\ ~down /\ process[p].pipe > 0 /\ ProcessStep
  /\ process' = [process EXCEPT ![p].pipe = @ - 1] /\ Tell("Line", p)

\* Its end is said after the last line it said.
Ends(p) ==
  /\ ProcessAt(p, "Dead") /\ process[p].pipe = 0 /\ ProcessStep
  /\ process' = [process EXCEPT ![p].stage = "Ended", ![p].handle = FALSE] /\ Tell("Ended", p)

----------------------------------------------------------------------------
\* A socket: one task opens it, reads it and sends on it. It is in the map from
\* being open, and not from being asked for.
SocketAt(s, stage) == ~down /\ socket[s].stage = stage

SocketStep ==
  UNCHANGED <<exercised, down, loop, disk, question, process, requests, over>>

SocketOver(s) ==
  /\ socket' = [socket EXCEPT ![s].stage = "Over", ![s].handle = FALSE]
  /\ Tell("Disconnected", s)

Connect(s) ==
  /\ Asks /\ s \in exercised /\ SocketAt(s, "Unopened") /\ SocketStep
  /\ socket' = [socket EXCEPT ![s].stage = "Connecting"] /\ UNCHANGED events

Connected(s) ==
  /\ SocketAt(s, "Connecting") /\ SocketStep
  /\ \/ socket' = [socket EXCEPT ![s].stage = "Open", ![s].handle = TRUE] /\ UNCHANGED events
     \/ SocketOver(s)

Transmit(s) ==
  /\ Asks /\ socket[s].handle /\ socket[s].sent < MaxSends /\ SocketStep
  /\ socket' = [socket EXCEPT ![s].sent = @ + 1, ![s].queued = @ + 1] /\ UNCHANGED events

\* Letting go of what is not in the map is nothing (disconnect): of one that
\* ended, and of one that is still being opened.
Disconnect(s) ==
  /\ Asks /\ socket[s].stage # "Unopened" /\ ~socket[s].told /\ SocketStep
  /\ EarlyDisconnects \/ socket[s].stage # "Connecting"
  /\ socket' = [socket EXCEPT ![s].handle = FALSE, ![s].told = TRUE] /\ UNCHANGED events

FarSide(s) ==
  /\ SocketAt(s, "Open") /\ ~socket[s].gone /\ SocketStep /\ UNCHANGED events
  /\ \/ /\ socket[s].said < MaxSaid
        /\ socket' = [socket EXCEPT ![s].said = @ + 1, ![s].unread = @ + 1]
     \/ socket' = [socket EXCEPT ![s].gone = TRUE]

\* What the far side said first is heard first, and then what is to be sent is
\* sent (spoken).
Hears(s) ==
  /\ SocketAt(s, "Open") /\ socket[s].unread > 0 /\ SocketStep
  /\ socket' = [socket EXCEPT ![s].unread = @ - 1] /\ Tell("Frame", s)

Sends(s) ==
  /\ SocketAt(s, "Open") /\ socket[s].unread = 0 /\ ~socket[s].gone /\ socket[s].queued > 0
  /\ SocketStep
  /\ socket' = [socket EXCEPT ![s].queued = @ - 1] /\ UNCHANGED events

Breaks(s) == SocketAt(s, "Open") /\ SocketStep /\ SocketOver(s)

LetGo(s) ==
  /\ SocketAt(s, "Open") /\ socket[s].unread = 0 /\ SocketStep
  /\ socket[s].gone \/ (~socket[s].handle /\ socket[s].queued = 0)
  /\ SocketOver(s)

----------------------------------------------------------------------------
\* A request arriving at an address that was taken is held, and then said; what is
\* answered to it reaches the task that holds its connection (asked, holding, answer).
VisitorStep ==
  UNCHANGED <<exercised, down, loop, disk, question, process, socket, over>>

Arrives(v) ==
  /\ ~down /\ v \in exercised /\ visitor[v] = "Away" /\ question["Bind"] = "Bound" /\ VisitorStep
  /\ visitor' = [visitor EXCEPT ![v] = "Waiting"] /\ held' = held \union {v}
  /\ Tell("Arrived", v) /\ UNCHANGED <<bodies, owes>>

Answer(v, how) ==
  /\ Asks /\ v \in owes /\ VisitorStep
  /\ how = "Reading" => bodies[v] < MaxBodies
  /\ owes' = owes \ {v} /\ held' = held \ {v}
  /\ visitor' = IF v \in held /\ visitor[v] = "Waiting" THEN [visitor EXCEPT ![v] = how] ELSE visitor
  /\ UNCHANGED <<events, bodies>>

\* A body is read and the request held again, for the answer that follows.
BodyRead(v) ==
  /\ ~down /\ visitor[v] = "Reading" /\ VisitorStep
  /\ visitor' = [visitor EXCEPT ![v] = "Waiting"] /\ held' = held \union {v}
  /\ bodies' = [bodies EXCEPT ![v] = @ + 1]
  /\ Tell("Body", v) /\ UNCHANGED owes

Relayed(v) ==
  /\ ~down /\ visitor[v] = "Proxied" /\ VisitorStep
  /\ visitor' = [visitor EXCEPT ![v] = "Answered"] /\ UNCHANGED <<events, bodies, held, owes>>

Leaves(v) ==
  /\ ~down /\ visitor[v] \in {"Waiting", "Reading", "Proxied"} /\ VisitorStep
  /\ visitor' = [visitor EXCEPT ![v] = "Gone"] /\ UNCHANGED <<events, bodies, held, owes>>

----------------------------------------------------------------------------
\* The process dies, or the machine does: what had not reached the disk may be
\* lost, whatever name it had taken.
Crash ==
  /\ ~down /\ down' = TRUE
  /\ \/ UNCHANGED file
     \/ ~file.synced /\ file' = [file EXCEPT !.content = 0]
  /\ UNCHANGED <<exercised, loop, events, temporary, writing, writes, question, process, socket,
                 requests, over>>

Init ==
  /\ exercised \in Exercised /\ down = FALSE
  /\ loop = "Stepping" /\ events = <<>>
  /\ file = [content |-> MaxWrites + 1, synced |-> TRUE] /\ temporary = NothingBeside
  /\ writing = "None" /\ writes = 0
  /\ question = [q \in Questions |-> "Unasked"]
  /\ process = [p \in Processes |-> [stage |-> "Unopened", handle |-> FALSE, closing |-> FALSE,
                                     sent |-> 0, queued |-> 0, said |-> 0, pipe |-> 0]]
  /\ socket = [s \in Sockets |-> [stage |-> "Unopened", handle |-> FALSE, told |-> FALSE,
                                  gone |-> FALSE, sent |-> 0, queued |-> 0, said |-> 0, unread |-> 0]]
  /\ visitor = [v \in Visitors |-> "Away"] /\ bodies = [v \in Visitors |-> 0]
  /\ held = {} /\ owes = {} /\ over = {}

Performs == Creates \/ Fills \/ Syncs \/ Renames \/ CannotWrite

Next ==
  \/ Step \/ StepDone \/ Write \/ Performs \/ Crash
  \/ \E q \in Questions : Ask(q) \/ Answers(q)
  \/ \E p \in Processes :
       \/ Open(p) \/ Send(p) \/ Close(p) \/ IsWrittenTo(p)
       \/ Says(p) \/ Dies(p) \/ LineRead(p) \/ Ends(p)
  \/ \E s \in Sockets :
       \/ Connect(s) \/ Connected(s) \/ Transmit(s) \/ Disconnect(s)
       \/ FarSide(s) \/ Hears(s) \/ Sends(s) \/ Breaks(s) \/ LetGo(s)
  \/ \E v \in Visitors :
       \/ Arrives(v) \/ BodyRead(v) \/ Relayed(v) \/ Leaves(v)
       \/ \E how \in {"Answered", "Proxied", "Reading"} : Answer(v, how)

Spec == Init /\ [][Next]_vars

\* The loop goes on, tasks run, what is killed dies, and a connection is made or
\* is not; nobody is made to speak, to leave or to ask.
Fairness ==
  /\ WF_vars(Step) /\ WF_vars(StepDone) /\ WF_vars(Performs)
  /\ \A q \in Questions : WF_vars(Answers(q))
  /\ \A p \in Processes : WF_vars(Killed(p)) /\ WF_vars(LineRead(p)) /\ WF_vars(Ends(p))
  /\ \A s \in Sockets : WF_vars(Connected(s)) /\ WF_vars(Hears(s)) /\ WF_vars(Sends(s)) /\ WF_vars(LetGo(s))

FairSpec == Spec /\ Fairness

----------------------------------------------------------------------------
TypeOK ==
  /\ exercised \in Exercised /\ down \in BOOLEAN
  /\ loop \in {"Waiting", "Stepping", "Writing"} /\ events \in Seq(Event)
  /\ file.content \in 0..MaxWrites + 1 /\ temporary.content \in 0..MaxWrites
  /\ writing # "None" <=> loop = "Writing"
  /\ \A p \in Processes : process[p].handle => process[p].stage \in {"Alive", "Dead"}
  /\ \A s \in Sockets : socket[s].handle => socket[s].stage = "Open"
  /\ held \subseteq Visitors /\ owes \subseteq Visitors
  /\ over \subseteq Questions \union Processes \union Sockets

IsEnd(event) == event.kind \in {"Answered", "Ended", "Disconnected"}

\* Whatever is asked for, opened or connected ends once, and nothing is heard of
\* it after its end (Event::Line, Event::Ended, Event::Disconnected).
OneEnd ==
  \A x \in Questions \union Processes \union Sockets :
    /\ \A i, j \in DOMAIN events :
         events[i].of = x /\ events[j].of = x /\ i < j => ~IsEnd(events[i])
    /\ x \in over => \A i \in DOMAIN events : events[i].of # x

\* A request being waited on is held, and the instance has heard of it and not
\* answered, or will.
IsHeld ==
  \A v \in Visitors : visitor[v] = "Waiting" =>
    v \in held /\ (v \in owes \/ \E i \in DOMAIN events : events[i].kind \in {"Arrived", "Body"} /\ events[i].of = v)

\* Whatever dies and when, the file holds the whole of one write (write_atomically).
FileIsWhole == file.content # 0

\* What was asked for, told to close or let go of.
Waits(who) ==
  /\ ~down /\ who \notin over
  /\ \/ who \in Questions /\ question[who] # "Unasked"
     \/ who \in Processes /\ process[who].stage \in {"Alive", "Dead"} /\ ~process[who].handle
     \/ who \in Sockets /\ socket[who].told
EndsWhenTold == \A who \in Questions \union Processes \union Sockets : Waits(who) ~> ~Waits(who)
=============================================================================
