------------------------------ MODULE Foreman ------------------------------
(***************************************************************************)
(* The foreman of one project: the message in hand and those behind it,    *)
(* what is asked before a turn (its room, the thread the message was said  *)
(* in, its container), the turn, the rest of the container when nothing is *)
(* left to do, the sweep that settles it, and a restart.                   *)
(*                                                                         *)
(* One action is one step of the instance.  project is what a write        *)
(* carries to the disk; the variables from turn to halts are held in       *)
(* memory only.  The message in hand is the first of project.mail, and the *)
(* foreman is idle when there is none.                                     *)
(***************************************************************************)
EXTENDS Integers, Sequences, FiniteSets, Mail

CONSTANTS
  MaxMessages,  (* messages said to the foreman                             *)
  Threaded,     (* those of them said inside a thread                       *)
  Rooms,        (* whether its room is already made when the model begins   *)
  Forgets,      (* whether the project may be forgotten                     *)
  Serialises,   (* whether the runtime runs a stop asked for before a start *)
                (* before it                                                *)
  MaxHalts,     (* stops in flight above which the sweep's timer waits      *)
  MaxRefusals,  (* housekeeping commands the runtime refuses                *)
  MaxFailures,  (* writes the disk refuses                                  *)
  MaxCrashes    (* times the instance dies and starts again                 *)

Message == 1..MaxMessages
NoMessage == 0

ASSUME ForemanAssumption ==
  /\ {MaxMessages, MaxHalts, MaxRefusals, MaxFailures, MaxCrashes} \subseteq Nat
  /\ Threaded \subseteq Message
  /\ Rooms \subseteq BOOLEAN
  /\ {Forgets, Serialises} \subseteq BOOLEAN

(* A foreman's turn runs no wrapper and checks nothing out: from a started  *)
(* container it goes straight to its agent.                                *)
Commanding == {"Looking", "Building", "Creating", "Starting"}
Speaking   == {"Opening", "Prompting"}

Turn ==
  [stage    : Commanding \union Speaking \union {"Closing", "None"},
   message  : {NoMessage} \union Message,  \* what it is put
   shown    : {NoMessage} \union Message,  \* whose thread it is shown
   again    : BOOLEAN,                     \* it is told it was interrupted
   answered : BOOLEAN]                     \* how a closing turn ended

NoTurn == [stage |-> "None", message |-> NoMessage, shown |-> NoMessage,
           again |-> FALSE, answered |-> FALSE]

Project == [watched : BOOLEAN, room : BOOLEAN, mail : Seq(Message)]
Unwatched == [watched |-> FALSE, room |-> FALSE, mail |-> <<>>]

(* What a step may hold back until a write lands: the making of the room,  *)
(* a thread read, the look at the container, what is said of a message     *)
(* (seen, done, or that its turn did not finish), the container's removal. *)
Effect == [kind : {"Room", "Read", "Inspect", "Seen", "Done", "Stuck", "Discard"},
           of : {NoMessage} \union Message]

MakeRoom  == [kind |-> "Room", of |-> NoMessage]
Inspect   == [kind |-> "Inspect", of |-> NoMessage]
Discard   == [kind |-> "Discard", of |-> NoMessage]
Read(m)   == [kind |-> "Read", of |-> m]
Seen(m)   == [kind |-> "Seen", of |-> m]
Done(m)   == [kind |-> "Done", of |-> m]
Stuck(m)  == [kind |-> "Stuck", of |-> m]
Reads     == {e \in Effect : e.kind = "Read"}
Facts     == {e \in Effect : e.kind \in {"Seen", "Done", "Stuck"}}

VARIABLES
  project,      (* the record in memory                                     *)
  turn,         (* the turn registered for the foreman, or NoTurn           *)
  pending,      (* whether a turn waits on a thread being read              *)
  read,         (* the message whose thread was read and not yet used       *)
  interrupted,  (* whether waking found the message in hand                 *)
  listing,      (* the sweep's question: "None", "Names", "Labels"          *)
  halts,        (* stops of the container asked for and not answered        *)
  deferred,     (* writes asked for, each with what waits on it             *)
  disk,         (* the record as the file has it                            *)
  out,          (* what the world has been asked for and has not answered;  *)
                (* what was said of messages stays                          *)
  container,    (* "None", "Down" or "Up"                                   *)
  said,         (* how many messages have been said                         *)
  fate,         (* history: what became of each message                     *)
  put,          (* history: how often each was put to the agent as new      *)
  stranded,     (* history: whether a failed write has taken the next thing *)
                (* to do for the message in hand, in this life              *)
  announced,    (* whether a write has landed since the instance woke       *)
  used          (* how much of each bound on the environment is spent       *)

memory  == <<turn, pending, read, interrupted>>
sweep   == <<listing, halts>>
history == <<fate, put, stranded>>
world   == <<disk, container, said, announced, used>>
vars    == <<project, memory, sweep, deferred, out, history, world>>

Becomes(ms, f) == [m \in Message |-> IF m \in ms THEN f ELSE fate[m]]

----------------------------------------------------------------------------
(* The end of a step: what it held back waits on the write of what it      *)
(* changed, or goes at once.                                               *)

\* A mistake: what a step asks for goes without waiting on the record.
GoesAtOnce(q, o, effects) ==
  /\ deferred' = Append(q, [snap |-> project', effects |-> {}])
  /\ out' = o \union effects

Write(q, o, effects) ==
  /\ deferred' = Append(q, [snap |-> project', effects |-> effects])
  /\ out' = o

Release(q, o, effects) ==
  /\ deferred' = q
  /\ out' = o \union effects

----------------------------------------------------------------------------
(* What is asked before a turn: the room once, then the thread of the      *)
(* message in hand if it was said in one, then the container.              *)

\* A thread already being read is left to start the turn when answered.
Goes(p, waits, have) ==
  IF waits THEN {}
  ELSE IF have = NoMessage /\ p.mail # <<>> /\ Head(p.mail) \in Threaded
    THEN {Read(Head(p.mail))}
  ELSE {Inspect}

LooksFirst(p, waits, have) ==
  IF p.room THEN Goes(p, waits, have) ELSE {MakeRoom}

Awaits(waits, asks) == waits \/ asks \intersect Reads # {}

----------------------------------------------------------------------------
(* Messages. *)

\* A mistake: every message starts the loop, not only the one that finds the
\* foreman idle.
AnyStarts(p) == TRUE

Starts(p) == p.mail = <<>>

\* A message is taken or queued; the one that finds the foreman idle starts
\* its loop.
Say ==
  LET m == said + 1
      asks == IF Starts(project)
                THEN LooksFirst(Receive(project, m), pending, read) ELSE {}
  IN  /\ said < MaxMessages
      /\ project.watched
      /\ said' = m
      /\ project' = Receive(project, m)
      /\ fate' = Becomes({m}, "Held")
      /\ pending' = Awaits(pending, asks)
      /\ Write(deferred, out, {Seen(m)} \union asks)
      /\ UNCHANGED <<turn, read, interrupted, sweep, put, stranded,
                     disk, container, announced, used>>

\* The room was made, and is recorded if there is still a project to have it.
RoomMade ==
  /\ MakeRoom \in out
  /\ \/ /\ project.watched
        /\ project' = [project EXCEPT !.room = TRUE]
        /\ LET asks == Goes(project', pending, read) IN
             /\ pending' = Awaits(pending, asks)
             /\ Write(deferred, out \ {MakeRoom}, asks)
     \/ /\ ~project.watched
        /\ UNCHANGED <<project, pending>>
        /\ Release(deferred, out \ {MakeRoom}, {})
  /\ UNCHANGED <<turn, read, interrupted, sweep, history, world>>

\* It was not made, or never asked for, and the turn goes on without it.
Roomless(q, o) ==
  LET asks == Goes(project, pending, read) IN
  /\ pending' = Awaits(pending, asks)
  /\ Release(q, o, asks)
  /\ UNCHANGED project

RoomRefused ==
  /\ MakeRoom \in out
  /\ Roomless(deferred, out \ {MakeRoom})
  /\ UNCHANGED <<turn, read, interrupted, sweep, history, world>>

\* The thread was read, or could not be, which is said in its place.
ThreadRead(m) ==
  /\ Read(m) \in out
  /\ read' = m
  /\ pending' = FALSE
  /\ Release(deferred, out \ {Read(m)}, IF pending THEN {Inspect} ELSE {})
  /\ UNCHANGED <<project, turn, interrupted, sweep, history, world>>

\* A mistake: what was read for one message is kept for the next.
ThreadKept == UNCHANGED read

ThreadTaken == read' = NoMessage

\* The container was looked at, and a turn starts on the message in hand: in
\* it if it is there, and otherwise from its image.
Inspected(present) ==
  /\ Inspect \in out
  /\ present => container # "None"
  /\ ThreadTaken
  /\ \/ /\ turn.stage = "None" /\ project.mail # <<>>
        /\ turn' = [NoTurn EXCEPT !.stage = IF present THEN "Starting" ELSE "Looking",
                                  !.message = Head(project.mail), !.shown = read,
                                  !.again = interrupted]
        /\ interrupted' = FALSE
     \/ /\ turn.stage # "None" \/ project.mail = <<>>
        /\ UNCHANGED <<turn, interrupted>>
  /\ Release(deferred, out \ {Inspect}, {})
  /\ UNCHANGED <<project, pending, sweep, history, world>>

----------------------------------------------------------------------------
(* A turn. *)

\* A turn ended: its message is put down, and said to be done or not, and the
\* next picked up.  With none, the container rests if the turn had one.  In a
\* project that was forgotten there is nothing to put down, and none to rest.
Ended(answered) ==
  /\ turn' = NoTurn
  /\ interrupted' = FALSE
  /\ UNCHANGED <<read, listing, put, stranded>>
  /\ \/ /\ project.mail # <<>>
        /\ LET m == Head(project.mail)
               made == turn.stage \notin Commanding \/ turn.stage = "Starting"
               asks == IF project'.mail # <<>>
                         THEN LooksFirst(project', pending, read) ELSE {}
           IN  /\ project' = [project EXCEPT !.mail = Tail(@)]
               /\ fate' = Becomes({m}, IF answered THEN "Done" ELSE "Stuck")
               /\ pending' = Awaits(pending, asks)
               /\ halts' = IF project'.mail = <<>> /\ made THEN halts + 1 ELSE halts
               /\ Write(deferred, out,
                        {IF answered THEN Done(m) ELSE Stuck(m)} \union asks)
     \/ /\ project.mail = <<>>
        /\ UNCHANGED <<project, fate, pending, halts>>
        /\ Write(deferred, out, {})

\* The turn goes on to its next stage, unless the answer was a failure.
GoesOn(failed, stage) ==
  \/ failed /\ Ended(FALSE)
  \/ /\ ~failed
     /\ turn' = [turn EXCEPT !.stage = stage]
     /\ UNCHANGED <<project, pending, read, interrupted, sweep, deferred, out, history>>

Looked(ok) ==
  /\ turn.stage = "Looking"
  /\ GoesOn(FALSE, IF ok THEN "Creating" ELSE "Building")
  /\ UNCHANGED world

Built(ok) ==
  /\ turn.stage = "Building"
  /\ GoesOn(~ok, "Creating")
  /\ UNCHANGED world

Made(ok) ==
  /\ turn.stage = "Creating"
  /\ ok => container = "None"
  /\ GoesOn(~ok, "Starting")
  /\ container' = IF ok THEN "Down" ELSE container
  /\ UNCHANGED <<disk, said, announced, used>>

\* The container started, and its agent is run: unless the purse its kit
\* charges, taken when the turn began, is no longer held.
Up(ok, charged) ==
  /\ turn.stage = "Starting"
  /\ ok => container # "None"
  /\ Serialises => halts = 0
  /\ GoesOn(~ok \/ ~charged, "Opening")
  /\ container' = IF ok THEN "Up" ELSE container
  /\ UNCHANGED <<disk, said, announced, used>>

CommandAnswered ==
  \E ok, charged \in BOOLEAN :
    Looked(ok) \/ Built(ok) \/ Made(ok) \/ Up(ok, charged)

\* The session is settled, so the message is put to the agent.
AgentReady ==
  /\ turn.stage = "Opening"
  /\ turn' = [turn EXCEPT !.stage = "Prompting"]
  /\ put' = IF turn.again THEN put ELSE [put EXCEPT ![turn.message] = @ + 1]
  /\ UNCHANGED <<project, pending, read, interrupted, sweep, deferred, out,
                 fate, stranded, world>>

AgentAnswered(answered) ==
  /\ \/ turn.stage = "Prompting"
     \/ turn.stage = "Opening" /\ ~answered
  /\ turn' = [turn EXCEPT !.stage = "Closing", !.answered = answered]
  /\ UNCHANGED <<project, pending, read, interrupted, sweep, deferred, out,
                 history, world>>

ProcessEnded ==
  /\ turn.stage \in Speaking \union {"Closing"}
  /\ Ended(turn.stage = "Closing" /\ turn.answered)
  /\ UNCHANGED world

----------------------------------------------------------------------------
(* The container at rest. *)

\* The runtime may refuse what housekeeping asks of it.
Refused(ok) ==
  /\ ok \/ used.refusals < MaxRefusals
  /\ used' = IF ok THEN used ELSE [used EXCEPT !.refusals = @ + 1]

Halted(ok) ==
  /\ halts > 0
  /\ Refused(ok)
  /\ halts' = halts - 1
  /\ container' = IF ok /\ container = "Up" THEN "Down" ELSE container
  /\ UNCHANGED <<project, memory, listing, deferred, out, history,
                 disk, said, announced>>

\* Every minute the sweep asks which containers are up.
Settle ==
  /\ listing = "None" /\ halts < MaxHalts
  /\ listing' = "Names"
  /\ UNCHANGED <<project, memory, halts, deferred, out, history, world>>

\* Each that is up is asked for its labels.
Named(ok) ==
  /\ listing = "Names"
  /\ Refused(ok)
  /\ listing' = IF ok /\ container = "Up" THEN "Labels" ELSE "None"
  /\ UNCHANGED <<project, memory, halts, deferred, out, history,
                 disk, container, said, announced>>

\* Mistakes: the sweep passes foremen over, or does not ask whether one has a
\* message or a turn.
PassedOver == FALSE
RestingBusy == project.watched

Resting == project.watched /\ project.mail = <<>> /\ turn.stage = "None"

\* A foreman's that holds no message and has no turn is stopped.
Labelled ==
  /\ listing = "Labels"
  /\ listing' = "None"
  /\ halts' = IF Resting THEN halts + 1 ELSE halts
  /\ UNCHANGED <<project, memory, deferred, out, history, world>>

\* The project is forgotten, whatever its foreman is doing: only its jobs are
\* asked about.
Forget ==
  /\ Forgets
  /\ project.watched
  /\ project' = Unwatched
  /\ fate' = Becomes(Held(project), "Dropped")
  /\ Write(deferred, out, {Discard})
  /\ UNCHANGED <<memory, sweep, put, stranded, world>>

Discarded(ok) ==
  /\ Discard \in out
  /\ ok => container # "None"
  /\ Refused(ok \/ container = "None")
  /\ out' = out \ {Discard}
  /\ container' = IF ok THEN "None" ELSE container
  /\ UNCHANGED <<project, memory, sweep, deferred, history, disk, said, announced>>

----------------------------------------------------------------------------
(* The disk, and a restart. *)

Landed ==
  /\ deferred # <<>>
  /\ disk' = Head(deferred).snap
  /\ Release(Tail(deferred), out, Head(deferred).effects)
  /\ announced' = TRUE
  /\ UNCHANGED <<project, memory, sweep, history, container, said, used>>

\* What waited on a write that failed is dropped.  A room not asked for is a
\* room not made, and the turn goes on; a thread not read, or a container not
\* looked at, and the turn does not start.
Unwritten ==
  LET gone == Head(deferred).effects
      q    == Tail(deferred)
  IN  /\ deferred # <<>>
      /\ announced
      /\ used.failures < MaxFailures
      /\ used' = [used EXCEPT !.failures = @ + 1]
      /\ stranded' = (stranded \/ (gone \intersect (Reads \union {Inspect}) # {}
                                   /\ project.mail # <<>>))
      /\ \/ /\ MakeRoom \in gone
            /\ Roomless(q, out)
         \/ /\ MakeRoom \notin gone
            /\ pending' = (pending /\ gone \intersect Reads = {})
            /\ Release(q, out, {})
            /\ UNCHANGED project
      /\ UNCHANGED <<turn, read, interrupted, sweep, fate, put,
                     disk, container, said, announced>>

\* What the commands in flight may have made of the container by the time the
\* instance is back.
Left ==
  {container}
    \union {c \in {"Down"} : turn.stage = "Creating" /\ container = "None"}
    \union {c \in {"Up"}   : turn.stage = "Starting" /\ container # "None"}
    \union {c \in {"Down"} : halts > 0 /\ container = "Up"}
    \union {c \in {"None"} : Discard \in out}

\* Mistakes: waking leaves a foreman holding a message to the next arrival, or
\* does not say that it was interrupted.
PicksNothingUp(p) == {}
NotTold(p) == FALSE

PicksUp(p) == IF p.mail = <<>> THEN {} ELSE LooksFirst(p, FALSE, NoMessage)
Interrupted(p) == p.mail # <<>>

\* The instance dies, with any of the writes in flight having reached the
\* disk, and wakes: a message in hand is picked up, a container with nothing
\* to do is stopped, and one of a project forgotten is removed.
Restart ==
  /\ used.crashes < MaxCrashes
  /\ used' = [used EXCEPT !.crashes = @ + 1]
  /\ disk' \in {disk} \union {deferred[i].snap : i \in DOMAIN deferred}
  /\ project' = disk'
  /\ container' \in Left
  /\ turn' = NoTurn
  /\ read' = NoMessage
  /\ interrupted' = Interrupted(project')
  /\ listing' = "None"
  /\ halts' = IF project'.watched /\ project'.mail = <<>> /\ container' = "Up"
                THEN 1 ELSE 0
  /\ pending' = Awaits(FALSE, PicksUp(project'))
  /\ Write(<<>>, (out \intersect Facts) \union
                 (IF ~project'.watched /\ container' # "None"
                    THEN {Discard} ELSE {}), PicksUp(project'))
  /\ announced' = FALSE
  /\ stranded' = FALSE
  /\ fate' = [m \in Message |->
                IF m \in Held(project') THEN "Held"
                ELSE IF fate[m] = "Held" THEN "Forgotten" ELSE fate[m]]
  /\ UNCHANGED <<said, put>>

----------------------------------------------------------------------------
Init ==
  /\ \E made \in Rooms : project = [watched |-> TRUE, room |-> made, mail |-> <<>>]
  /\ turn = NoTurn
  /\ pending = FALSE
  /\ read = NoMessage
  /\ interrupted = FALSE
  /\ listing = "None"
  /\ halts = 0
  /\ deferred = <<>>
  /\ disk = project
  /\ out = {}
  /\ container = "None"
  /\ said = 0
  /\ fate = [m \in Message |-> "Unsaid"]
  /\ put = [m \in Message |-> 0]
  /\ stranded = FALSE
  /\ announced = TRUE
  /\ used = [refusals |-> 0, failures |-> 0, crashes |-> 0]

RoomAnswered   == RoomMade \/ RoomRefused
WriteAnswered  == Landed \/ Unwritten
LookAnswered   == \E present \in BOOLEAN : Inspected(present)
ThreadAnswered == \E m \in Message : ThreadRead(m)
HaltAnswered   == \E ok \in BOOLEAN : Halted(ok)
ListAnswered   == Labelled \/ \E ok \in BOOLEAN : Named(ok)
DiscardAnswered == \E ok \in BOOLEAN : Discarded(ok)

Agent  == AgentReady \/ \E ok \in BOOLEAN : AgentAnswered(ok)
Person == Say \/ Forget

Next ==
  \/ Person \/ Agent
  \/ RoomAnswered \/ WriteAnswered \/ LookAnswered \/ ThreadAnswered
  \/ CommandAnswered \/ ProcessEnded
  \/ HaltAnswered \/ Settle \/ ListAnswered \/ DiscardAnswered
  \/ Restart

Spec == Init /\ [][Next]_vars

\* The world answers what it was asked, timers go off, and a process ends that
\* was told to or whose container is gone.  An agent may talk for ever.
Fairness ==
  /\ WF_vars(RoomAnswered)
  /\ WF_vars(WriteAnswered)
  /\ WF_vars(LookAnswered)
  /\ WF_vars(ThreadAnswered)
  /\ WF_vars(CommandAnswered)
  /\ WF_vars(HaltAnswered)
  /\ WF_vars(Settle)
  /\ WF_vars(ListAnswered)
  /\ WF_vars(DiscardAnswered)
  /\ WF_vars((turn.stage = "Closing" \/ container # "Up") /\ ProcessEnded)

FairSpec == Spec /\ Fairness

----------------------------------------------------------------------------
(* Correctness. *)

Fates == {"Unsaid", "Held", "Done", "Stuck", "Forgotten", "Dropped"}

\* Every variable has its type.
TypeOK ==
  /\ project \in Project
  /\ turn \in Turn
  /\ pending \in BOOLEAN
  /\ read \in {NoMessage} \union Message
  /\ interrupted \in BOOLEAN
  /\ listing \in {"None", "Names", "Labels"}
  /\ halts \in Nat
  /\ deferred \in Seq([snap : Project, effects : SUBSET Effect])
  /\ disk \in Project
  /\ out \subseteq Effect
  /\ container \in {"None", "Down", "Up"}
  /\ said \in Nat
  /\ fate \in [Message -> Fates]
  /\ put \in [Message -> Nat]
  /\ stranded \in BOOLEAN
  /\ announced \in BOOLEAN
  /\ used \in [refusals : Nat, failures : Nat, crashes : Nat]

(* What the loop asks for, each with where it is: 0 if it has gone, i if it *)
(* waits on the i-th write in flight.                                      *)
At(q, o, i) == IF i = 0 THEN o ELSE q[i].effects

AskedIn(q, o) ==
  {d \in (0..Len(q)) \X (Reads \union {MakeRoom, Inspect}) : d[2] \in At(q, o, d[1])}

Asked == AskedIn(deferred, out)

\* One thing at a time is done about the messages of a foreman: a room made, a
\* thread read, its container looked at, or a turn.  And about the one in hand
\* something is, unless a failed write took it.  Draining the inbox is one
\* loop, however many messages arrive while it runs.
OneLoop ==
  /\ \A d, e \in Asked : d = e
  /\ turn.stage # "None" => Asked = {}
  /\ project.mail # <<>> => turn.stage # "None" \/ Asked # {} \/ stranded

\* A turn is shown the thread its message was said in, and no other.
ShownItsOwnThread ==
  turn.stage # "None" =>
    turn.shown = IF turn.message \in Threaded THEN turn.message ELSE NoMessage

\* A message on which the eyes reaction was put is never lost to a crash, and
\* one said to be done or stuck is not done again.
SaidIsTrue ==
  \A m \in Message :
    /\ Seen(m) \in out => fate[m] # "Forgotten"
    /\ {Done(m), Stuck(m)} \intersect out # {} =>
         m \notin Held(disk) \union Held(project)

\* A turn never starts on the strength of an inbox that is not on the disk.
TurnIsOnDisk ==
  turn.stage = "Starting" \/ turn.stage = "Looking" =>
    turn.message \in Held(disk) \/ ~project.watched

\* Nothing is said or begun on the strength of a record that is not on the disk
\* (Running::written, and the assertion of it).
WriteAhead == SaidIsTrue /\ TurnIsOnDisk

\* A message is put to the agent as new once: whatever a crash repeats is said
\* to have been interrupted.
NeverTwiceAsNew ==
  \A m \in Message : put[m] <= 1

\* No stop of the container reaches it while an agent talks in it, if the
\* runtime runs a stop and a later start in order (decision 0066).
NotStoppedWhileSpeaking ==
  turn.stage \in Speaking /\ project.watched => container = "Up" /\ halts = 0

\* A foreman's container with nothing to do is stopped, whatever the runtime
\* refused and whenever the instance died.
RestsWhenIdle ==
  project.mail = <<>> ~> \/ container # "Up"
                         \/ project.mail # <<>>
                         \/ ~project.watched

\* Every message is come to, unless an agent talks for ever before it or a
\* failed write took the loop's next step.
Drains ==
  \A m \in Message :
    fate[m] = "Held" ~> fate[m] # "Held" \/ turn.stage \in Speaking \/ stranded

\* Forgetting a project reclaims its foreman's container, unless its agent
\* talks for ever.
ForgottenIsReclaimed ==
  ~project.watched ~> container = "None" \/ turn.stage \in Speaking

=============================================================================
