-------------------------------- MODULE Job --------------------------------
(***************************************************************************)
(* One job of a stageman instance, from the commission that begins it to   *)
(* the verdict that retires it: its record, the inbox in that record, the  *)
(* turn an agent runs for it, the thread read before a turn, the stop a    *)
(* person asks for, the write every change waits on, and a restart.        *)
(*                                                                         *)
(* One action is one step of the instance: an event of the world is        *)
(* handled whole, and the step ends by flushing (Write, AfterWrites or     *)
(* Release below).  What is recorded (job) is what a write carries to the  *)
(* disk; turn, pending, read, stopsHeld and timers are held in memory only *)
(* and a restart begins with none of them.                                 *)
(*                                                                         *)
(* The inbox keeps two sequences in the code, what the running turn has    *)
(* been given and what waits.  Here they are the one sequence of module    *)
(* Mail, and module Inbox, which has the code's two, implements it.        *)
(***************************************************************************)
EXTENDS Integers, Sequences, FiniteSets, Mail

CONSTANTS
  MaxMessages,  (* messages people say in the job's room                    *)
  Threaded,     (* those of them said inside a thread                       *)
  MaxStops,     (* times a person presses stop                              *)
  MaxRetires,   (* times a person presses retire                            *)
  MaxFailures,  (* writes the disk refuses                                  *)
  MaxCrashes    (* times the instance dies and starts again                 *)

Message == 1..MaxMessages
NoMessage == 0

ASSUME JobAssumption ==
  /\ MaxMessages \in Nat
  /\ Threaded \subseteq Message
  /\ MaxStops \in Nat
  /\ MaxRetires \in Nat
  /\ MaxFailures \in Nat
  /\ MaxCrashes \in Nat

(* Idle is split by why the job waits; an agent's claim, asked or proposed, *)
(* is one value. Retired is a person's verdict, Lost is waking's.           *)
Idle == {"Claimed", "Silent", "Paused", "Failed"}
Over == {"Retired", "Lost"}
Progress == {"Unbegun", "Working"} \union Idle \union Over

(* The steps of a turn that wait on a command the container runtime runs,  *)
(* in the order a fresh turn takes them, and those with an agent's process *)
(* open.                                                                   *)
Commanding ==
  {"Looking", "Building", "Creating", "Starting", "Wrapping", "CheckingOut"}
Speaking == {"Opening", "Prompting"}
Stage == Commanding \union Speaking \union {"Closing"}

Turn ==
  [stage     : Stage \union {"None"},
   fresh     : BOOLEAN,               \* begins the job, rather than resumes it
   stopping  : BOOLEAN,               \* a person asked this turn to stop
   claimed   : BOOLEAN,               \* the agent said why it is stopping
   delivery  : {"Open", "InFlight", "Declined"},
   question  : {NoMessage} \union Message,  \* the message the turn is put
   shown     : {NoMessage} \union Message,  \* whose thread it is shown
   steerable : BOOLEAN,               \* the adapter takes messages mid-turn
   steering  : BOOLEAN,               \* one is being handed to it
   closed    : BOOLEAN,               \* the process has been told to end
   answered  : BOOLEAN]               \* how a closing conversation ended

NoTurn ==
  [stage |-> "None", fresh |-> FALSE, stopping |-> FALSE, claimed |-> FALSE,
   delivery |-> "Open", question |-> NoMessage, shown |-> NoMessage,
   steerable |-> FALSE, steering |-> FALSE, closed |-> FALSE,
   answered |-> FALSE]

(* What the job's record holds of all this.                                *)
Record == [progress : Progress, room : BOOLEAN,
           mail : Seq(Message), given : Nat]

(* What a step may hold back until a write lands: the next command of the  *)
(* job's turn, the making of its room, a thread read for a message about   *)
(* to be given ("Start") or handed over ("Hand"), the line that hands one  *)
(* over, the reaction that says a message was received, and the removal of *)
(* the job's container.                                                    *)
Effect == [kind : {"Step", "Room", "Discard", "Start", "Hand", "Steer", "Seen"},
           of : {NoMessage} \union Message]

Step      == [kind |-> "Step", of |-> NoMessage]
MakeRoom  == [kind |-> "Room", of |-> NoMessage]
Discard   == [kind |-> "Discard", of |-> NoMessage]
Start(m)  == [kind |-> "Start", of |-> m]
Hand(m)   == [kind |-> "Hand", of |-> m]
Steer(m)  == [kind |-> "Steer", of |-> m]
Seen(m)   == [kind |-> "Seen", of |-> m]
Reads     == {e \in Effect : e.kind \in {"Start", "Hand"}}

VARIABLES
  job,        (* the record in memory                                       *)
  turn,       (* the turn registered for the job, or NoTurn                 *)
  stopsHeld,  (* a stop asked for before the turn was registered            *)
  pending,    (* what waits on a thread being read: "None", "Job", "Steer"  *)
  read,       (* the message whose thread was read and not yet used         *)
  timers,     (* bounds on an unanswered cancel still to go off             *)
  deferred,   (* writes asked for, each with what waits on it               *)
  disk,       (* the record as the file has it                              *)
  out,        (* what the world has been asked for and has not answered;    *)
              (* reactions stay, being facts about the room                 *)
  container,  (* whether the job's container exists                         *)
  said,       (* how many messages have been said in the room               *)
  fate,       (* history: what became of each message                       *)
  put,        (* history: how often each was put to the agent as new        *)
  announced,  (* whether a write has landed since the instance woke         *)
  used        (* how much of each bound on the environment is spent         *)

memory == <<turn, stopsHeld, pending, read, timers>>
world  == <<disk, container, said, put, announced, used>>
vars   == <<job, memory, deferred, out, fate, world>>

----------------------------------------------------------------------------
Becomes(ms, f) == [m \in Message |-> IF m \in ms THEN f ELSE fate[m]]

----------------------------------------------------------------------------
(* The end of a step.  q is the queue of writes and o what the world has   *)
(* been asked for, as the rest of the step left them.                      *)

\* A mistake: what a step asks for goes without waiting on the record.
GoesAtOnce(q, o, effects) ==
  /\ deferred' = Append(q, [snap |-> job', effects |-> {}])
  /\ out' = o \union effects

\* A changed record is asked to be written, and what the step held back
\* waits on that write.
Write(q, o, effects) ==
  /\ deferred' = Append(q, [snap |-> job', effects |-> effects])
  /\ out' = o

\* Nothing changed: what waits for every write in flight waits on the last.
AfterWrites(q, o, effects) ==
  IF q = <<>>
    THEN deferred' = q /\ out' = o \union effects
    ELSE /\ deferred' = [q EXCEPT ![Len(q)].effects = @ \union effects]
         /\ out' = o

\* Nothing changed: what the step held back goes at once.
Release(q, o, effects) ==
  /\ deferred' = q
  /\ out' = o \union effects

----------------------------------------------------------------------------
(* Starting a turn, and handing a message to one. *)

\* A turn resumes the job's container, on message m with the thread r shown
\* to it.  A stop held for it takes effect as it is registered.
Resumed(m, r) ==
  [NoTurn EXCEPT !.stage = "Starting", !.question = m, !.shown = r,
                 !.stopping = stopsHeld]

Registered(t) == turn' = t /\ stopsHeld' = FALSE

\* Starts the turn of the message just given: at once, or after its thread
\* has been read if it was said in one.  The record j is always a change.
StartGiven(j, q, o, effects) ==
  LET m == LastGiven(j) IN
  /\ job' = j
  /\ \/ /\ m \in Threaded
        /\ pending' = "Job"
        /\ turn' = NoTurn
        /\ UNCHANGED <<read, stopsHeld>>
        /\ Write(q, o, effects \union {Start(m)})
     \/ /\ m \notin Threaded
        /\ Registered(Resumed(m, read))
        /\ read' = NoMessage
        /\ UNCHANGED pending
        /\ Write(q, o, effects \union {Step})

CanSteer(t) == t.stage = "Prompting" /\ t.steerable /\ ~t.steering

Deliverable(j, t) ==
  /\ pending = "None"
  /\ t.delivery = "Open"
  /\ CanSteer(t)
  /\ HasNext(j)

\* Hands the next message waiting to the running turn t.
Deliver(j, t, o, effects) ==
  LET m == j.mail[j.given + 1] IN
  /\ job' = Give(j)
  /\ \/ /\ m \in Threaded
        /\ turn' = [t EXCEPT !.delivery = "InFlight"]
        /\ pending' = "Steer"
        /\ UNCHANGED read
        /\ Write(deferred, o, effects \union {Hand(m)})
     \/ /\ m \notin Threaded
        /\ turn' = [t EXCEPT !.delivery = "InFlight", !.steering = TRUE]
        /\ read' = NoMessage
        /\ UNCHANGED pending
        /\ Write(deferred, o, effects \union {Steer(m)})
  /\ UNCHANGED stopsHeld

----------------------------------------------------------------------------
(* The end of a turn. *)

\* A line to a process that has ended reaches nobody, released or not.
Unsteered(effects) == {e \in effects : e.kind # "Steer"}
Unspoken(q) == [i \in DOMAIN q |-> [q[i] EXCEPT !.effects = Unsteered(@)]]

Outcome(t, answered) ==
  CASE t.stopping               -> "Paused"
    [] ~t.stopping /\ ~answered -> "Failed"
    [] OTHER                    -> IF t.claimed THEN "Claimed" ELSE "Silent"

\* The turn ends: what it was given is finished with, a message still being
\* handed over waits again, and what waits is told (after a stop) or starts
\* the next turn.  o is what the world has yet to answer.
Ended(answered, o) ==
  LET back == IF turn.delivery = "InFlight" THEN HandBack(job) ELSE job
      left == [Finish(back) EXCEPT !.progress = Outcome(turn, answered)]
      q    == Unspoken(deferred)
  IN  /\ UNCHANGED timers
      /\ \/ /\ turn.stopping
            /\ job' = Drain(left)
            /\ fate' = [m \in Message |->
                          IF m \in InHand(back) THEN "Finished"
                          ELSE IF m \in Held(left) THEN "Told" ELSE fate[m]]
            /\ turn' = NoTurn
            /\ UNCHANGED <<stopsHeld, pending, read>>
            /\ Write(q, Unsteered(o), {})
         \/ /\ ~turn.stopping /\ ~HasNext(left)
            /\ job' = left
            /\ fate' = Becomes(InHand(back), "Finished")
            /\ turn' = NoTurn
            /\ UNCHANGED <<stopsHeld, pending, read>>
            /\ Write(q, Unsteered(o), {})
         \/ /\ ~turn.stopping /\ HasNext(left)
            /\ fate' = Becomes(InHand(back), "Finished")
            /\ StartGiven([Give(left) EXCEPT !.progress = "Working"],
                          q, Unsteered(o), {})

\* A mistake: the messages of a turn abandoned stay behind.
LeavesTheInbox(q, o) ==
  /\ job' = [job EXCEPT !.progress = "Failed"]
  /\ turn' = NoTurn
  /\ stopsHeld' = FALSE
  /\ UNCHANGED fate
  /\ Write(q, o, {})

\* A turn that will not be started: the job says so and holds nothing after.
Abandoned(q, o) ==
  /\ job' = [Drain(job) EXCEPT !.progress = "Failed"]
  /\ fate' = Becomes(Held(job), "Told")
  /\ turn' = NoTurn
  /\ stopsHeld' = FALSE
  /\ Write(q, o, {})

----------------------------------------------------------------------------
(* The job begins. *)

\* A job is commissioned: recorded as working, and its room asked for once
\* the record has landed.
Begin ==
  /\ job.progress = "Unbegun"
  /\ job' = [job EXCEPT !.progress = "Working"]
  /\ Write(deferred, out, {MakeRoom})
  /\ UNCHANGED <<memory, fate, world>>

\* The room was made and is recorded, and the first turn is started.  (A
\* record without a warrant, or with a reserved variable, takes a file edited
\* by hand; what the code makes of one is left out.)
RoomMade ==
  /\ MakeRoom \in out
  /\ job' = [job EXCEPT !.room = TRUE]
  /\ Registered([NoTurn EXCEPT !.stage = "Looking", !.fresh = TRUE,
                               !.stopping = stopsHeld])
  /\ Write(deferred, out \ {MakeRoom}, {Step})
  /\ UNCHANGED <<pending, read, timers, fate, world>>

\* A mistake: a room that was not made is logged and no more.
LoggedOnly(q, o) ==
  /\ deferred' = q
  /\ out' = o
  /\ UNCHANGED <<job, turn, stopsHeld, fate>>

\* It could not be made, or was not asked for, and the job fails.
Roomless(q, o) ==
  /\ job' = [job EXCEPT !.progress = "Failed"]
  /\ Write(q, o, {})
  /\ UNCHANGED <<turn, stopsHeld, fate>>

RoomRefused ==
  /\ MakeRoom \in out
  /\ Roomless(deferred, out \ {MakeRoom})
  /\ UNCHANGED <<pending, read, timers, world>>

----------------------------------------------------------------------------
(* Messages. *)

\* A person says the next message in the job's room.
Say ==
  LET m == said + 1 IN
  /\ job.room
  /\ m \in Message
  /\ said' = m
  /\ \/ /\ job.progress = "Working"
        /\ fate' = Becomes({m}, "Held")
        /\ LET j == Receive(job, m) IN
           IF Deliverable(j, turn)
             THEN Deliver(j, turn, out, {Seen(m)})
             ELSE /\ job' = j
                  /\ Write(deferred, out, {Seen(m)})
                  /\ UNCHANGED <<turn, stopsHeld, pending, read>>
     \/ /\ job.progress \in Idle
        /\ fate' = Becomes({m}, "Held")
        /\ StartGiven([Give(Receive(job, m)) EXCEPT !.progress = "Working"],
                      deferred, out, {Seen(m)})
     \/ /\ job.progress \in Over
        /\ fate' = Becomes({m}, "Refused")
        /\ UNCHANGED <<job, turn, stopsHeld, pending, read, deferred, out>>
  /\ UNCHANGED <<timers, disk, container, put, announced, used>>

\* A message being handed over that the turn cannot take waits again.
NotTaken(q, o) ==
  /\ turn' = [turn EXCEPT !.delivery = "Open"]
  /\ job' = HandBack(job)
  /\ Write(q, o, {})

\* A thread was read, or could not be.  What was read is kept until a turn
\* or a handing takes it; what waited goes on, whatever it waited for.
ThreadRead(e) ==
  LET o == out \ {e} IN
  /\ e \in out \intersect Reads
  /\ pending' = "None"
  /\ \/ /\ pending = "Job" /\ job.given > 0
        /\ Registered(Resumed(LastGiven(job), e.of))
        /\ read' = NoMessage
        /\ UNCHANGED job
        /\ AfterWrites(deferred, o, {Step})
     \/ /\ pending = "Steer" /\ job.given > 0
        /\ read' = NoMessage
        /\ UNCHANGED stopsHeld
        /\ IF CanSteer(turn)
             THEN /\ turn' = [turn EXCEPT !.steering = TRUE]
                  /\ UNCHANGED job
                  /\ AfterWrites(deferred, o, {Steer(LastGiven(job))})
             ELSE NotTaken(deferred, o)
     \/ /\ pending = "None" \/ job.given = 0
        /\ read' = e.of
        /\ UNCHANGED <<job, turn, stopsHeld>>
        /\ Release(deferred, o, {})
  /\ UNCHANGED <<timers, fate, world>>

----------------------------------------------------------------------------
(* The commands of a turn, each answered in its turn. *)

Answered(stage) == turn.stage = stage /\ Step \in out

\* The turn goes on to its next stage, and asks for its command if it has
\* one: unless the answer was a failure, or a person has stopped the turn.
GoesOn(failed, stage) ==
  IF turn.stopping \/ failed
    THEN Ended(FALSE, out \ {Step})
    ELSE /\ turn' = [turn EXCEPT !.stage = stage]
         /\ out' = IF stage = "Opening" THEN out \ {Step} ELSE out
         /\ UNCHANGED <<job, stopsHeld, pending, read, timers, deferred, fate>>

Looked(ok) ==
  /\ Answered("Looking")
  /\ GoesOn(FALSE, IF ok THEN "Creating" ELSE "Building")
  /\ UNCHANGED world

Built(ok) ==
  /\ Answered("Building")
  /\ GoesOn(~ok, "Creating")
  /\ UNCHANGED world

Made(ok) ==
  /\ Answered("Creating")
  /\ GoesOn(~ok, "Starting")
  /\ container' = (container \/ ok)
  /\ UNCHANGED <<disk, said, put, announced, used>>

Up(ok) ==
  /\ Answered("Starting")
  /\ ok => container
  /\ GoesOn(~ok, "Wrapping")
  /\ UNCHANGED world

Wrapped(ok) ==
  /\ Answered("Wrapping")
  /\ GoesOn(~ok, IF turn.fresh THEN "CheckingOut" ELSE "Opening")
  /\ UNCHANGED world

CheckedOut(ok) ==
  /\ Answered("CheckingOut")
  /\ GoesOn(~ok, "Opening")
  /\ UNCHANGED world

CommandAnswered ==
  \E ok \in BOOLEAN : \/ Looked(ok) \/ Built(ok) \/ Made(ok)
                      \/ Up(ok) \/ Wrapped(ok) \/ CheckedOut(ok)

----------------------------------------------------------------------------
(* The conversation with the agent, a line at a time. *)

\* t is the turn after a line was heard: a message waiting is handed over the
\* moment it can be.
HandedOn(t, o) ==
  IF Deliverable(job, t)
    THEN Deliver(job, t, o, {})
    ELSE /\ turn' = t
         /\ out' = o
         /\ UNCHANGED <<job, stopsHeld, pending, read, deferred>>

\* The session is there and settled, so the question is put: a message, the
\* kickoff, or what a restart says again.
AgentReady(steerable) ==
  /\ turn.stage = "Opening"
  /\ HandedOn([turn EXCEPT !.stage = "Prompting", !.steerable = steerable], out)
  /\ put' = [m \in Message |->
               IF m = turn.question /\ ~turn.closed THEN put[m] + 1 ELSE put[m]]
  /\ UNCHANGED <<timers, fate, disk, container, said, announced, used>>

\* Any line at all, which matters when a message is waiting.
AgentSpoke ==
  /\ Deliverable(job, turn)
  /\ HandedOn(turn, out)
  /\ UNCHANGED <<timers, fate, world>>

\* The agent, through its tool, says why it is about to stop.
Claim ==
  /\ turn.stage \in Speaking \union {"Closing"}
  /\ ~turn.claimed
  /\ turn' = [turn EXCEPT !.claimed = TRUE]
  /\ UNCHANGED <<job, stopsHeld, pending, read, timers, deferred, out, fate, world>>

\* The message handed over landed, and what the agent claimed before it no
\* longer holds.
SteerLanded(m) ==
  /\ turn.stage = "Prompting" /\ turn.steering
  /\ Steer(m) \in out
  /\ HandedOn([turn EXCEPT !.delivery = "Open", !.steering = FALSE,
                           !.claimed = FALSE], out \ {Steer(m)})
  /\ put' = [put EXCEPT ![m] = @ + 1]
  /\ UNCHANGED <<timers, fate, disk, container, said, announced, used>>

\* Or the adapter would not take it, and nothing more is handed to this turn.
SteerWaits(m) ==
  /\ turn.stage = "Prompting" /\ turn.steering
  /\ Steer(m) \in out
  /\ turn' = [turn EXCEPT !.delivery = "Declined", !.steering = FALSE]
  /\ job' = HandBack(job)
  /\ Write(deferred, out \ {Steer(m)}, {})
  /\ UNCHANGED <<stopsHeld, pending, read, timers, fate, world>>

\* The conversation is over: the question was answered, or the session could
\* not be opened.  The process is told to end, and its end ends the turn.
AgentAnswered(answered) ==
  /\ \/ turn.stage = "Prompting"
     \/ turn.stage = "Opening" /\ ~answered
  /\ turn' = [turn EXCEPT !.stage = "Closing", !.closed = TRUE,
                          !.answered = answered]
  /\ UNCHANGED <<job, stopsHeld, pending, read, timers, deferred, out, fate, world>>

\* The process ended, on its own or because it was told to.
ProcessEnded ==
  /\ turn.stage \in Speaking \union {"Closing"}
  /\ Ended(turn.stage = "Closing" /\ turn.answered, out)
  /\ UNCHANGED world

----------------------------------------------------------------------------
(* What a person asks of the job on the dashboard. *)

\* A mistake: a turn talking with no question put yet is only marked.
StopMarksOnly ==
  /\ used.stops < MaxStops
  /\ used' = [used EXCEPT !.stops = @ + 1]
  /\ turn.stage # "None"
  /\ turn' = [turn EXCEPT !.stopping = TRUE]
  /\ timers' = IF turn.stage = "Prompting" THEN timers + 1 ELSE timers
  /\ UNCHANGED <<job, stopsHeld, pending, read, deferred, out, fate,
                 disk, container, said, put, announced>>

\* Stopping asks rather than kills: a question put is cancelled, and the
\* process closed only if that is not answered in time.  A turn not yet
\* talking stops at its next step, and one not yet registered once it is.
Stop ==
  /\ used.stops < MaxStops
  /\ used' = [used EXCEPT !.stops = @ + 1]
  /\ \/ /\ turn.stage # "None"
        /\ turn' = [turn EXCEPT !.stopping = TRUE,
                                !.closed = @ \/ turn.stage = "Opening"]
        /\ timers' = IF turn.stage = "Prompting" THEN timers + 1 ELSE timers
        /\ UNCHANGED stopsHeld
     \/ /\ turn.stage = "None" /\ job.progress = "Working"
        /\ stopsHeld' = TRUE
        /\ UNCHANGED <<turn, timers>>
  /\ UNCHANGED <<job, pending, read, deferred, out, fate,
                 disk, container, said, put, announced>>

\* The bound on a cancel goes off, whichever of the job's turns it was for.
CancelOverdue ==
  /\ timers > 0
  /\ timers' = timers - 1
  /\ turn' = [turn EXCEPT !.closed = @ \/ (turn.stopping /\ turn.stage \in Speaking)]
  /\ UNCHANGED <<job, stopsHeld, pending, read, deferred, out, fate, world>>

\* A mistake: the container's removal does not wait for the verdict.
RetireAtOnce ==
  /\ used.retires < MaxRetires
  /\ used' = [used EXCEPT !.retires = @ + 1]
  /\ job.progress \in Idle
  /\ job' = [job EXCEPT !.progress = "Retired"]
  /\ GoesAtOnce(deferred, out, {Discard})
  /\ UNCHANGED <<memory, fate, disk, container, said, put, announced>>

\* The verdict of a person; pressed again on a job that is over, it is the
\* container's removal alone that is asked for again.
Retire ==
  /\ used.retires < MaxRetires
  /\ used' = [used EXCEPT !.retires = @ + 1]
  /\ \/ /\ job.progress \in Idle
        /\ job' = [job EXCEPT !.progress = "Retired"]
        /\ Write(deferred, out, {Discard})
     \/ /\ job.progress \in Over
        /\ UNCHANGED job
        /\ Release(deferred, out, {Discard})
  /\ UNCHANGED <<memory, fate, disk, container, said, put, announced>>

\* One that could not be removed is left for the next start to try again.
Discarded(ok) ==
  /\ Discard \in out
  /\ out' = out \ {Discard}
  /\ container' = (container /\ ~ok)
  /\ UNCHANGED <<job, memory, deferred, fate, disk, said, put, announced, used>>

----------------------------------------------------------------------------
(* The disk. *)

\* The oldest write landed, and what waited on it goes.
Landed ==
  /\ deferred # <<>>
  /\ disk' = Head(deferred).snap
  /\ Release(Tail(deferred), out, Head(deferred).effects)
  /\ announced' = TRUE
  /\ UNCHANGED <<job, memory, fate, container, said, put, used>>

\* The oldest write failed, and what waited on it is dropped: a turn whose
\* first command that was is abandoned, a room is not made, and a thread is
\* not read.  Anything else is forgotten without a word.
Unwritten ==
  LET gone == Head(deferred).effects
      q    == Tail(deferred)
      unasked == gone \intersect Reads # {}
  IN  /\ deferred # <<>>
      /\ announced
      /\ used.failures < MaxFailures
      /\ used' = [used EXCEPT !.failures = @ + 1]
      /\ pending' = IF unasked THEN "None" ELSE pending
      /\ \/ /\ Step \in gone \/ (unasked /\ pending = "Job")
            /\ Abandoned(q, out)
         \/ /\ Step \notin gone /\ unasked /\ pending = "Steer"
            /\ NotTaken(q, out)
            /\ UNCHANGED <<stopsHeld, fate>>
         \/ /\ MakeRoom \in gone
            /\ Roomless(q, out)
         \/ /\ {Step, MakeRoom} \intersect gone = {}
            /\ unasked => pending = "None"
            /\ Release(q, out, {})
            /\ UNCHANGED <<job, turn, stopsHeld, fate>>
      /\ UNCHANGED <<read, timers, disk, container, said, put, announced>>

----------------------------------------------------------------------------
(* A restart. *)

\* What a start makes of a record: a job not working drops what its inbox
\* held, and one with no container to run in is lost.
Opened(j) == IF j.progress = "Working" THEN j ELSE Drain(j)

Waking(j, there) ==
  IF j.progress \in {"Unbegun"} \union Over \/ there
    THEN j ELSE [j EXCEPT !.progress = "Lost"]

\* The instance dies, with any of the writes in flight having reached the
\* disk, and wakes: a working job is resumed, and told again what it had been
\* given.
Restart ==
  /\ used.crashes < MaxCrashes
  /\ used' = [used EXCEPT !.crashes = @ + 1]
  /\ disk' \in {disk} \union {deferred[i].snap : i \in DOMAIN deferred}
  /\ container' \in {container,
                     container \/ Answered("Creating"),
                     container /\ Discard \notin out}
  /\ job' = Waking(Opened(disk'), container')
  /\ turn' = IF job'.progress = "Working"
               THEN [NoTurn EXCEPT !.stage = "Starting"] ELSE NoTurn
  /\ stopsHeld' = FALSE
  /\ pending' = "None"
  /\ read' = NoMessage
  /\ timers' = 0
  /\ announced' = FALSE
  /\ Write(<<>>, {e \in out : e.kind = "Seen"}
                 \union (IF turn'.stage = "Starting" THEN {Step} ELSE {})
                 \union (IF job'.progress \in Over /\ container'
                           THEN {Discard} ELSE {}), {})
  /\ fate' = [m \in Message |->
                IF m \in Held(job') THEN "Held"
                ELSE IF fate[m] # "Held" THEN fate[m]
                ELSE IF m \in Held(disk') THEN "Dropped" ELSE "Forgotten"]
  /\ UNCHANGED <<said, put>>

----------------------------------------------------------------------------
Init ==
  /\ job = [progress |-> "Unbegun", room |-> FALSE, mail |-> <<>>, given |-> 0]
  /\ turn = NoTurn
  /\ stopsHeld = FALSE
  /\ pending = "None"
  /\ read = NoMessage
  /\ timers = 0
  /\ deferred = <<>>
  /\ disk = job
  /\ out = {}
  /\ container = FALSE
  /\ said = 0
  /\ fate = [m \in Message |-> "Unsaid"]
  /\ put = [m \in Message |-> 0]
  /\ announced = TRUE
  /\ used = [stops |-> 0, retires |-> 0, failures |-> 0, crashes |-> 0]

\* What answers the instance, sooner or later.
RoomAnswered   == RoomMade \/ RoomRefused
WriteAnswered  == Landed \/ Unwritten
ThreadAnswered == \E e \in Reads : ThreadRead(e)

\* What an agent does, in its own time.
Agent ==
  \/ \E b \in BOOLEAN : AgentReady(b) \/ AgentAnswered(b)
  \/ AgentSpoke
  \/ Claim
  \/ \E m \in Message : SteerLanded(m) \/ SteerWaits(m)

\* What a person does.
Person == Begin \/ Say \/ Stop \/ Retire

Next ==
  \/ Person \/ Agent
  \/ RoomAnswered \/ WriteAnswered \/ ThreadAnswered \/ CommandAnswered
  \/ ProcessEnded \/ CancelOverdue
  \/ \E ok \in BOOLEAN : Discarded(ok)
  \/ Restart

Spec == Init /\ [][Next]_vars

\* The world answers what it was asked, a process told to end ends, and a
\* timer goes off.  Nothing is assumed of people, or of an agent's speed.
Fairness ==
  /\ WF_vars(RoomAnswered)
  /\ WF_vars(WriteAnswered)
  /\ WF_vars(ThreadAnswered)
  /\ WF_vars(CommandAnswered)
  /\ WF_vars(turn.closed /\ ProcessEnded)
  /\ WF_vars(CancelOverdue)

FairSpec == Spec /\ Fairness

----------------------------------------------------------------------------
(* Correctness. *)

Fates == {"Unsaid", "Held", "Finished", "Told", "Refused", "Forgotten", "Dropped"}

Deferred == [snap : Record, effects : SUBSET Effect]

\* Every variable has its type.
TypeOK ==
  /\ job \in Record
  /\ turn \in Turn
  /\ stopsHeld \in BOOLEAN
  /\ pending \in {"None", "Job", "Steer"}
  /\ read \in {NoMessage} \union Message
  /\ timers \in Nat
  /\ deferred \in Seq(Deferred)
  /\ disk \in Record
  /\ out \subseteq Effect
  /\ container \in BOOLEAN
  /\ said \in Nat
  /\ fate \in [Message -> Fates]
  /\ put \in [Message -> Nat]
  /\ announced \in BOOLEAN
  /\ used \in [stops : Nat, retires : Nat, failures : Nat, crashes : Nat]

\* The inbox keeps the order of arrival, through every giving and handing
\* back and every restart (decision 0069: "arrival order holds").
InboxInOrder ==
  /\ job.given <= Len(job.mail)
  /\ \A i, k \in 1..Len(job.mail) : i < k => job.mail[i] < job.mail[k]
  /\ Held(job) \subseteq 1..said

\* A job that is not working has an empty inbox, whatever ended its turn and
\* whichever write failed.  A job lost on waking is the exception, which
\* NothingRunningNothingWaiting below is about.
NothingWaiting ==
  job.progress \notin {"Working", "Lost"} => job.mail = <<>>

\* As the repository states it, of every job that is not working.
NothingRunningNothingWaiting ==
  job.progress # "Working" => job.mail = <<>>

Coming(e) == e \in out \/ \E i \in DOMAIN deferred : e \in deferred[i].effects

\* A job never says working with nothing running in it, "which a reply could
\* never reach": its turn is registered, or the thread its turn waits for is
\* being read, or its room is being made, and the answer is still to come.
WorkingHasSomethingComing ==
  job.progress = "Working" =>
    \/ turn.stage # "None"
    \/ pending = "Job" /\ \E e \in Reads : Coming(e)
    \/ Coming(MakeRoom)

\* One turn per job at a time, each waiting on one command at most: what is
\* asked of the container runtime, or held back, is the registered turn's
\* next command and nothing else.
OneStepInFlight ==
  /\ turn.stage \in Commanding <=> Coming(Step)
  /\ turn.stage # "None" => job.progress = "Working"
  /\ \A i \in DOMAIN deferred :
       Step \in deferred[i].effects =>
         /\ Step \notin out
         /\ \A k \in DOMAIN deferred : Step \in deferred[k].effects => i = k

\* The eyes reaction is a promise: a message it was put on is never forgotten
\* by a crash, because the reaction waits for the record that holds it.
SeenNeverForgotten ==
  \A m \in Message : Seen(m) \in out => fate[m] # "Forgotten"

\* A message is put to the agent as new at most once, as the question of a
\* turn or by being handed to one.
NeverTwiceAsNew ==
  \A m \in Message : put[m] <= 1

\* What is handed to a turn, or put to it as its question, is on the disk as
\* given before anything outside hears of it.
RecordedBeforeHanded ==
  \A m \in Message :
    \/ Steer(m) \in out
    \/ Step \in out /\ turn.question = m
    => m \in InHand(disk)

\* Both, of a job nobody has stopped: the thread read for a message being
\* handed over outlives a stopped turn, and is taken for the next one's.
HandedOverOnce == used.stops = 0 => NeverTwiceAsNew /\ RecordedBeforeHanded

\* A turn is shown the thread its own message was said in, or none.
ShownItsOwnThread ==
  turn.shown \in {NoMessage, turn.question}

\* A container is removed on the strength of a verdict on the disk.
DiscardAfterVerdict ==
  [][container /\ ~container' => disk.progress \in Over]_vars

\* A person who stops a turn sees it end, whatever stage it is in and however
\* long the agent would have talked.
StopEndsTurn ==
  turn.stopping ~> ~turn.stopping

\* A message held is dealt with, unless an agent keeps talking to the turn
\* before it or the job was lost: no path strands it.
HeldIsDealtWith ==
  \A m \in Message :
    fate[m] = "Held" ~> \/ fate[m] # "Held"
                        \/ turn.stage \in Speaking
                        \/ job.progress = "Lost"

=============================================================================
