# stageman, specified

TLA+ models of stageman, the configurations that check them with TLC, and
theorems about them that TLAPS proves. `PROJECT.json` lists the components, the
runs, the definition-to-source map, the hazards and the theorems; this file says
what they mean.

## The system

An instance (`instance/src`) is one deterministic state machine:
`Instance::step(now, event)` handles one event of the world and answers with
effects for the world to perform. The world (`world/src`, `app/src/world.rs`)
runs commands, opens processes and sockets, sends requests, serves pages, and
writes the instance's one file; each of its answers is another event. So the
concurrency is never inside a step. It is between an effect and its answer,
while other events are handled; between a change in memory and the write that
carries it; between a page and what it shows; and between a life of the instance
and the next one.

| Component | State it keeps | Operations | What makes it correct |
|---|---|---|---|
| Inbox of a job (`core` `Inbox`) | `given`, `waiting` | receive, give, hand back, finish, drain | one order of arrival, nothing lost or doubled |
| A job's life (`jobs`, `replies`, `turns`, `threads`, `requests`) | the job's record; its turn, held stop, pending thread read and thread kept | begin, say, command answered, agent's lines, stop, cancel bound, retire | no message stranded or told twice; working means something is coming; a stop ends the turn |
| A turn's commands (`turns`) | who waits on each build, bounds on cancels, what an agent claimed | build, create, provision, check out, open, steer, stop | everyone who waits on a build is told; a claim is of now; a stop ends |
| The step and its writes (`lib`, `file`, `snapshot`) | `dirty`, `staged`, `deferred` | flush, written, dropped, after_writes | nothing goes out on a record that is not on the disk |
| The record (`core`, `file`, `agent`) | projects, purses, kits, jobs, sealed credentials | seal, open, migrate, hand out, clear | what is opened is what was sealed; an agent pays with its own kit's purse |
| Booting (`boot`, `paths`) | what is found so far | runtime, key, file, password, listing, ports | nothing is written over what could not be read; one identity |
| Waking and sweep (`sweep`) | the listing of containers | waking, settle, listed, probed | what was working is resumed; nothing in use is removed; nothing idle stays up |
| Agent conversation (`agent/conversation`) | stage, ids of outstanding requests | open, prompt, steer, cancel, line | each answer told from the others |
| Foreman (`instance/foreman`) | message in hand, queue, room, dispatched count | take, look before turning, turn, rest, pick up | messages in order, one turn at a time, none stranded |
| Posting and transcript (`channel`, `transcript`) | one chain of posts per room, runs open | enqueue, next post, respond, unsent, grow, close | in order, whole, never silent |
| Hearing (`listening`, `replies`, `channel/slack`) | recent messages, rooms, watches | frame, mention, route | heard once, whole, by whom it is for |
| Listening (`listening`, `apps`) | sockets, introductions, retries | listen, introduce, refresh, disconnect, try again | one stream of each app; connected in the end |
| Containers, tunnels (`tunnel`, `job`) | tunnels, probes | probe, halt, route | a container with a turn in it is not halted |
| Images (`agent`, `turns`, `sweep`) | builds in flight | look, build, create from, reclaim | an image in use stays |
| Tools (`tools`) | warrants, calls held | stopping, watch, start a job, say, credential | a dead turn's warrant buys nothing; what an agent was told is so |
| Requests, checks, installations, workspaces, apps | held changes, tabs out, minted tokens, callers waiting | hold, checked, mint, arrive, forget | what is named is held; every caller answered once |
| Sessions (`session`) | password, sessions, grants, failures | gate, login, derive, set password, enter | every visitor gets somewhere; the setup link is for the first |
| Project form (`app/dashboard`) | the cards of one form | list, try, tab back, edit, save | what it lets through is not refused |
| Pages and views (`live`, `views`, `wire`) | what a page shows | tick, read, press | it catches up; what it offers is taken |
| World (`world`, `app/world`) | tasks, sockets, processes, requests held | perform, answer | one end of each thing; the file whole |
| Words (`core`, `agent`, `channel`, `tunnel`, `threads`) | none: what is meant, put into words, and taken from them | arguments and parse, request and call, name and decode, pieces, thread_context | what comes back is what was meant |
| Providers, platforms, release watch, packaging | none | render, read | |

What is hard about all of this, line by line, is the `hazards` list of
`PROJECT.json`.

## The modules

```
Mail        one sequence of messages, a boundary in it (operators only)
 |-- Mailbox    what an inbox promises         <-- implemented by
 |                                             Inbox   the code's two sequences
 |                                               |-- Inbox_proofs
 |-- Job        one job, from commission to verdict
 |    |-- MC_Job, Job_proofs
 |-- Foreman    the foreman of one project
      |-- MC_Foreman, Foreman_proofs
Exchange    what a turn relies on of its conversation  <-- implemented by
            Conversation   the protocol, line by line
             |-- MC_Conversation, Conversation_proofs
Posting     one room: its chain of posts, the transcript of turns
 |-- Posting_proofs
Containers  what the runtime keeps, the sweep, the tunnels
 |-- Containers_proofs
Services    one of:  Boot Sessions Listening Credentials Turns World Page Calls
 |-- MC_Services, Services_proofs
Holdings    one of:  Configuration Record Form Hearing Images Dashboard Wording
 |-- MC_Holdings, Holdings_proofs     (MC_Configuration: Configuration alone)
```

`Services` and `Holdings` put parts beside one another that share no state: a
behaviour is of one part, chosen at the start, the variables of the others
holding nothing. A behaviour of all of them at once is a behaviour of each, as
no step of one reads or writes what another keeps, so a property of a part is
that of the whole, and one run asks one question of all of them. `Services` has
those something waits on, and so has fairness; `Holdings` those about which only
safety is asked.

**Inbox, Mailbox, Mail.** The code keeps what a turn has been given and what
waits as two sequences (`core/src/lib.rs`, `Inbox`). `Inbox` has those two and
one action per method. `Mailbox` is the promise: one sequence in order of
arrival, with a boundary that giving and handing back move by one. `Implements`
says that the first does, and answers with, what the second would. `Mail` holds
the operators, which `Job` and `Foreman` use too: what they say of an inbox
therefore holds of the code's.

**Job.** One action is one step of the instance as one job meets it.

| In the module | In the code |
|---|---|
| `job` | the `Job` record of `core`: progress, whether a room is recorded, inbox |
| `turn` | the `Turn` registered in `turns` for the job, with the conversation's own stage folded in (`Opening`, `Prompting`, `Closing`) |
| `stopsHeld`, `pending`, `read` | `stops_held`, `pending_threads`, `threads_read` |
| `deferred` | the queue of writes in flight, each with the effects that wait on it |
| `disk` | the file |
| `out` | effects the world has and has not answered; reactions stay in it, being facts about the room |
| `timers` | bounds on unanswered cancels, counted: they are keyed by the speaker, so one may go off in a later turn |
| `container`, `said` | the world: the job's container, how much has been said |
| `fate`, `put` | history, read by no action: what became of each message, how often the agent was given it as new |
| `used` | how much of each bound on the environment is spent |

`Write`, `AfterWrites` and `Release` are the end of a step (`flush`,
`after_writes`). A message to an idle or running job is `Say` (`route`,
`replied`); commands are `Looked` to `CheckedOut`; the agent's lines are
`AgentReady`, `AgentSpoke`, `Claim`, `SteerLanded`, `SteerWaits` and
`AgentAnswered`; the end of the process is `ProcessEnded`, which runs `Ended`,
the whole of `ended`. `Landed` and `Unwritten` are the two answers to a write,
`Restart` is a crash and all of `waking`. `Threaded` is which of the messages
were said inside a thread.

What is abstracted: the job's warrant, its variables, its purse and its channel
are always there (their absence takes a file edited by hand, and each then ends
the turn as a failed command does), and sealing the file does not fail. The
container goes only by `Discard`, or not at all; the settling sweep, tunnels and
the sharing of a build are in `Containers` and `Turns`, posts in `Posting`. The
reaction that says a message was received is kept, as `Seen`, for it is a
promise. `put` counts a question put to an open process, and a handed message
the adapter said it took; one taken whose answer was never heard the code cannot
know of. A crash may leave any write in flight as the file's content, which is
more than can happen. The first write of a life failing ends the process, which
`Restart` covers.

**Foreman.** One action is one step of the instance as one project's foreman
meets it. `project` is the project as far as its foreman goes: watched or
forgotten, `foreman_room`, `attending`, whose message in hand is the first of
`mail`. `turn` is the `Turn` registered for the foreman, with what it is put and
shown; `listing` and `halts` are the sweep's listing and the stops asked of the
runtime; `stranded` is history, a failed write having taken the next thing to do
for the message in hand; the rest is as in `Job`. An arrival is `Say`
(`for_foreman`); before a turn come `RoomMade` or `RoomRefused`, `ThreadRead`,
and `Inspected`; the turn is `Looked` to `ProcessEnded`, and `Ended` is
`foreman_ended` with `move_on`. `Settle`, `Named`, `Labelled` and `Halted` are
the sweep and a stop; `Forget` and `Discarded` are the project forgotten.
`Rooms` is whether the room is already made, `Forgets` whether the project may
be forgotten, and `Serialises` whether the runtime runs a stop asked for before
a start before it, which decision 0066 measured of Docker and leaves to the
runtime. Abstracted: the container is always of the agent the project names, so
it is never replaced; deciding a turn does not fail; a foreman's turn is neither
stopped nor steered by anybody; two sweeps do not overlap (in `Containers` they
do).

**Exchange, Conversation.** `Conversation` is `agent/src/conversation.rs`: each
line either way an action, `stage` the code's `Stage`, and the adapter at the
other end, which answers late, twice, with an error or with what cannot be read,
asks for permissions itself, or dies. `Exchange` is what `Job`, `Foreman` and
`Turns` take a conversation to be (a phase, one message being handed over, how
it ended); `ServesTheTurn` is that the first implements the second. What an
entry of the transcript looks like is left out.

**Posting.** One room: `inFlight` and `waiting` are its chain (`channel.rs`),
`kept` the messages of the transcript with what each last sent, and what it
knows of the message's identity (`transcript.rs`), `writes` the writes with what
waits on each, `room` what the platform shows. Entries, notices and posts the
agent asks for itself arrive in any order with answers, refusals, timers and
writes that land or fail.

**Containers.** A job's record, its agent, its container, its tunnel; the
runtime's answers are of when it looked (`seen`), which is earlier than when
they arrive; a listing is assembled of labels while another may be asked for;
`commands` is per container, in order. Waking, `settle`, `listed`, the probe and
the halt after it, retirement and a restart are its actions.

**The parts of `Services`.**

| Module | Source | State | What is abstracted |
|---|---|---|---|
| `Boot` | `boot.rs`, `paths.rs`, `file.rs` | the phase, questions out, facts found, the disk with keys and files at each place, containers | what each command says beyond yes, no, unreadable |
| `Sessions` | `session.rs`, the tunnel's gate | password, sessions, grants and entries, derivations and changes of password in flight, the page each visitor is on | the arithmetic of the wait: it is a wait or none |
| `Listening` | `listening.rs`, `apps.rs` | who listens with what, questions, sockets, those draining, waits | what is said on a socket (in `Hearing`) |
| `Credentials` | `installations.rs`, `tools.rs` | installations and how often set up, tokens kept, mintings, who waits, listings of forms | pages of a listing are one answer |
| `Turns` | `turns.rs` | each speaker's stage, builds and who waits on each, bounds on cancels with the turn they were set in, claims | what a turn records (in `Job`, `Foreman`) |
| `World` | `world/src/lib.rs`, `app/src/world.rs` | the loop, its channel of events, the file's replacement step by step, the tasks of processes, sockets and requests | what a command or address does; the instance asks for anything |
| `Page` | `live.rs`, `app/src/world.rs` | the version, the stream, what the page waits on and shows | what is shown, which is a count of changes |
| `Calls` | `tools.rs`, `lib.rs` | turns, warrants, what foremen watch and began, in memory and on disk, writes, calls | what is said, which kit |

**The parts of `Holdings`.**

| Module | Source | State | What is abstracted |
|---|---|---|---|
| `Configuration` | `requests.rs`, `checks.rs`, `installations.rs`, `workspaces.rs`, `apps.rs`, `core` | the state requests change, tabs begun, exchanges, held changes | a credential is accepted or not; settings of one value |
| `Record` | `core`, `file.rs`, `agent/src/lib.rs`, `jobs.rs` | the state, the file in either release's words, containers' environments, what each process is given | a credential is a name; text in the clear |
| `Form` | `project_settings_view.rs`, `env_file.rs`, `wire`, `requests.rs` | the cards, listings, tabs, a panel, a save; the project as the instance has it | one card edited in a behaviour; drawing |
| `Hearing` | `channel/src/slack.rs`, `listening.rs`, `replies.rs`, `core` | whose each room is, what was said, frames not acknowledged, to whom each went | a message's words are told from the line that stands for them |
| `Images` | `agent/src/lib.rs`, `turns.rs`, `sweep.rs`, `requests.rs` | turns on their way to a container, builds, commands and replies, copies under names | a recipe is a number |
| `Dashboard` | `views.rs`, `wire`, `home_view.rs`, `jobs_view.rs`, `agents_view.rs` | jobs' standings and when they changed, what links are made from, a page as last read | everything that only draws |
| `Wording` | `agent/src/lib.rs`, `channel/src/slack.rs`, `channel/src/lib.rs`, `core`, `tunnel.rs`, `threads.rs`, `job`, `foreman` | one meaning, the words it was put into, what they are taken for | a word of an argument list, a field of a request and a host's name are atoms; a name and a text are characters, of as many kinds as the code tells apart |

Each module's header and the comments of its variables say the rest.

## The runs

| Run | What it asks |
|---|---|
| `inbox` | does `Inbox` implement `Mailbox`: 6 messages, every order of the five methods |
| `job_all` | do a job's record, its turn and what the world was asked for agree, whatever order people, the agent, writes and a restart come in |
| `job_live` | does a stopped turn end, and is a held message dealt with |
| `foreman` | is a foreman's loop one, on the record, about the right thread, in a container that stays up |
| `foreman_live` | is every message come to, and an idle container stopped |
| `conversation` | does the protocol give a turn what it relies on, with an adapter that breaks it |
| `posting` | is a room in order, whole and never silent |
| `containers` | does a container go under its agent, stay up for nothing, or belong to another; is a visitor answered |
| `services` | over its eight parts: one of what there is one of, nobody waiting on nothing, nothing kept that no longer holds, the disk replaced only by what was read of it, and what is asked for ending |
| `holdings` | over its seven parts: what is held is whole, checked and paid for; what is heard is heard once, whole, by its owner; images stay; what is shown is so, and what it offers is taken |
| `job_retired_twice`, `configuration_replaced` | the least instances of two differences between the code and its words (below) |

What the properties say, by module:

- `Job`. `InboxInOrder`: the order people spoke in. `NothingWaiting`: no message
  waits on a job that is not working. `WorkingHasSomethingComing`: what works
  has a turn, a command, a write or a request on its way, so it cannot hang.
  `SeenNeverForgotten`: a message acknowledged is on the disk or answered for.
  `HandedOverOnce`: a message is given as new once, and is on the disk before
  that. `DiscardAfterVerdict`: a container goes once its job's end is on the disk.
- `Foreman`. `OneLoop` counts what can go on with the loop (a room, a thread or a
  look on its way, a turn) and finds one while a message is in hand.
  `WriteAhead` relates it to the disk, `ShownItsOwnThread` what was read to what
  is answered, `NotStoppedWhileSpeaking` the turn to the stops that turns' ends
  and sweeps ask for, `NeverTwiceAsNew` two lives to one message.
- `Conversation`. `VerdictIsTheAgents`, `WorksOnItsKit`, `NobodyWaits` (its
  liveness), and the refinement `ServesTheTurn`.
- `Posting`. `LandInOrder`, `ShownWhole` (once nothing is on its way, a room shows
  what its agent said, as it finally read), `ChainGoesOn`.
- `Containers`. `UpUnderItsAgent`, `OthersAreLeft`, and two of liveness,
  `NothingStaysUp` and `VisitorsAreAnswered`.
- `Services`. Each property is a conjunction, over the parts, of a named property
  of the part: `OneOfEach` (one stream of each app, one key, one identity, one end
  of each thing the world opens, one foreman watching a room),
  `NobodyIsForgotten` (who waits is known to what answers), `NothingIsStale` (a
  token, a setup link, a claim, a warrant, a thing told), `NothingOverwritten`,
  and `EndsInTheEnd`, which says of each `who` that its wait ends.
- `Holdings`, likewise: `Consistent` and `WorkIsPaidFor` of what is configured and
  of the record; `ReachIsItsOwn`; `ShowsWhatIsSo` and `PagesAgree` of the form and
  the lists; `HeardAsSaid` and `ForItsOwner` of what is heard; `ImageStays`. `HeardAsSaid`
  has the parts of `Wording` too: a command, a call, an address or a reference is
  taken as it was meant however it is spelled on the way (`TakenAsMeant`), a job's
  name leads back to the job from its page, its container and its room
  (`NamesLeadBack`), a long text is posted whole (`PostedWhole`), and an agent is
  shown what was asked of it in a thread and not answered (`AskedIsShown`).

**Bounds.** All are on the environment (people, agents, faults, what is bound or
changed); nothing inside the instance is bounded. Each is a constant declared
with a comment and given in the run's `.cfg`.

- Three messages are what the inbox's cases need: one in the turn, one being
  handed to it, one arriving behind. A second stop or failure meets a state of
  the same shape as the first, since each leaves the job idle, or a turn
  registered anew; what a second retirement does is the subject of a run of its
  own. One restart starts from every record that can have reached the disk.
- For the foreman, three messages are one in hand, one queued behind it, and one
  that arrives with the foreman idle again, or not; two stops in flight are one
  from a turn's end and one from the sweep.
- `posting`: messages of two entries and three entries said are one message cut
  and another open; a notice, a post of the agent's and a fault are each what can
  come between a post and its answer.
- `containers`: a job and a container of a name a job could have but which no
  record accounts for; a turn, so that each of probe, sweep and verdict can be
  overtaken by it; one fault.
- `services`: two of whatever competes (visitors, ears of apps, workspaces,
  installations, wrappers of one project, jobs of one image, calls, projects that
  watch) and one of whatever does not; two starts, so that one reads what another
  wrote or left half written; two turns of each, so that a bound or a body can
  come a turn late; one fault or restart. `World` exercises one thing that is
  waited on at a time (`Exercised`), as its tasks share only the loop's channel,
  whose order is what matters and is kept.
- `holdings`: two purses, one of them held from the start, and two projects that may
  share a purse and a workspace; an instance opened with nothing, or with a project
  that a token reaches, so that one change makes a second one, reached through an
  installation and spoken with by an app of its own or through a token and in the
  workspace; one installation and one workspace to lose, which come back under a tab;
  two changes held at once, which is the least that can conflict, of two projects or
  of one; a project moved to the other purse while its job charges the first; a record
  opened twice, by either key; two repositories and three things brought to a form; three
  projects in two workspaces, one with an app of its own; two jobs and two releases
  of images; two jobs on a page. `Wording`'s caps are scaled
  down together (40, 8, 24, 80, 8, 12000, 250, 253 and 63 in the code), so that
  titles, texts, purposes and hosts of a few characters are at, under and over each of
  them. `SYMMETRY Alike` permutes the repositories of a
  form and the purses of a page, which only safety properties look at.

`CHECK_DEADLOCK FALSE` wherever it is said: when people have no more to say the
system rests, and that is its normal state.

**Fairness.** Weak fairness of what answers the instance, and of nothing else:
commands, writes, requests, timers, the end of a process told to end, the tasks
of the world. The world performs each on a task that answers with success or
failure, whose requests and commands have time limits (`world/src/lib.rs`), so
each is answered. Nothing is assumed of people, and nothing of an agent: a turn
that talks for ever is allowed, and `HeldIsDealtWith` and `Drains` except it.
`StopEndsTurn` and `EndsInTheEnd` do not: that is what the bound on a cancel is
for. `Drains` excepts a failed write that took the loop's next step too: a foreman
whose inspection or thread read was dropped holds its message with no turn, and
whatever arrives queues behind it until the instance starts again. threads.rs
says so of the thread read (`thread_unasked`), and nothing says so of the
inspection. `NobodyWaits` excepts a message whose line was dropped with a failed
write, in which case the turn's end says what became of it.

**What the passing runs take as given.** `foreman` and `foreman_live` that the
runtime runs a stop and a later start in order, `foreman` that the room is made;
`posting` that a turn's messages are shown before the next turn begins (it has
one turn); and the constants that are `FALSE` in `Services.cfg` and
`Holdings.cfg`, each of which, set to `TRUE`, is a difference listed below.

## What is proved

For every value of the constants their modules' named assumptions allow
(`InboxAssumption`, `JobAssumption`, `ForemanAssumption`,
`ConversationAssumption`, `ContainersAssumption`, `PostingAssumption`,
`ServicesAssumption`, `HoldingsAssumption`), with nothing else assumed:

- `Inbox_proofs`: `InboxImplementsMailbox`. The invariant is that both sequences
  are sequences of arrivals, and each action an equation on their concatenation.
- `Job_proofs`: `TypeCorrect`, `InboxStaysInOrder`. The order is not inductive by
  itself: a restart takes the record from the disk, and the disk takes its from a
  write in flight. So `Inv` says it of every record there is: the job's, the
  disk's, and the one in each element of `deferred`, none holding a message later
  than the last said. The argument has four layers: the operators of `Mail` on
  ordered sequences; a queue of writes of which each is `Kept`; one lemma for each
  end of a step or of a turn (`WriteKept`, `EndedKept`, `DeliverKept`,
  `AbandonedKept`); one for each group of actions (`StepPersons` to `StepRest`).
  `Invariance` puts them together.
- `Job_proofs`, further: the other five of `Job`, in two more invariants. All are about
  where an effect held back stands among the writes in flight: `Places` is the
  set of writes (0 is the world) that hold an effect, and each end of a step has a
  lemma on how it moves it.
  - `NothingIsLeftWaiting`, `WorkingIsNeverIdle`, `OneStepAtATime`, `SeenIsKept`
    and `RemovedAfterVerdict`, from `PromisesInvariance`. That a working job
    has something coming is inductive only with its record's stage in
    every write: what a restart asks again is read of the disk, and what a lost
    write drops is asked of the record as it then is. What drives a job stands in
    one place (`OneStepInFlight`). `RemovedAfterVerdict` has
    `MaxRetires <= 1` as its hypothesis: with two, a job retired twice is removed
    on a verdict that is not written, which is the run `job_retired_twice`.
  - `PutToTheAgentOnce` (`HandedOverOnce`), from `OnceInvariance`. A message put to
    the agent waits in no record a crash may bring back (`Settled`); a question not
    yet put is recorded as given wherever its next command could leave from
    (`Asks`); and what is being handed over is the last given, waits on one thing,
    and is read in a place that knows it (`Hands`). All of it is of a job nobody has
    stopped, as the property is: the thread being read for a message handed over
    outlives a stopped turn (`Job_thread_after_stop.cfg`).
- `Foreman_proofs`: `OneLoopAlways`, `ThreadsStayApart`, `NeverStoppedWhileSpeaking`
  and the types. That a foreman's loop is one is a fact about effects wherever
  they are: asked of the world, or waiting on any write in flight. `Looping` has a
  set `S` of at most one thing asked for; `Carries` says that `S` is everything of
  the loop's in `out` and in all writes, each in one place only; `Stands` says how
  `S` stands to the room pending, the turn, the message in hand and the thread it
  was said in. Every step either leaves `S`, or replaces it by what it asks for
  next. `NeverStoppedWhileSpeaking` adds `Unharmed`, and has `Serialises` as its
  hypothesis, which is the run's constant: without it the property does not hold.
  Then `WrittenFirst` (`WriteAhead`) and `PutAsNewOnce`
  (`NeverTwiceAsNew`). `Ahead` takes the records by their position, the disk's at
  0 and the `i`-th write's at `i`; the fact an effect needs holds in the record it
  waits on and in every one after, so that it holds on the disk when the effect
  leaves. `PutInHand` and `AsNew` say the same of the question put and of a turn
  that has not put its own. The hypothesis is `Housed`, the run's constant: before
  the room is made a turn goes on at once from a write that failed
  (`Foreman_unwritten.cfg`).
- `Conversation_proofs`: `ConversationImplementsExchange`, the whole of
  `ServesTheTurn`. What has to be known of a reachable state is `Held`: a message
  is being handed over only once the question has been put, and the stage leaves
  `Prompting` only for the end. One lemma for each operator that ends, goes on with
  or settles an exchange, one step for each line. And `WorksOnTheKit`
  (`WorksOnItsKit`) and `VerdictsAreTheAgents` (`VerdictIsTheAgents`), from `Proper`:
  each request held is the client's next or older, each was asked once, what settles
  it is its answer, and the kit is confirmed before anything is put. The second
  has `Plain` as its hypothesis: `took` (`src/agent/src/lib.rs:1066`) compares the
  kit's spellings, so an agent that repeats another spelling is not believed.
- `Containers_proofs`: `StaysUpUnderItsAgent` (`UpUnderItsAgent`) and
  `NothingOfOthers` (`OthersAreLeft`), with the types. The first needs
  `StartIsLast`: while a turn has a container, its start is the last thing the
  runtime was told of it, or is done with nothing after it; so no halt, however
  long decided, is behind it. The second needs `LabelsAreTrue`: whatever a listing
  being assembled, a question or a command takes for ours, is.
- `Posting_proofs`: `PostsLandInOrder` (`LandInOrder`) and `TheChainGoesOn`
  (`ChainGoesOn`), with the types. Of a room's posts, one is out or waits on one
  write (`Going`), the others wait behind it in order (`InOrder`), and what the
  room shows is before them all. While the answer to that one is dealt with none
  is on its way and the room still says that one is; `Landing` is what is then
  known, and `NextPost` leads from it back to `InOrder`. Both are of the memory a
  step works on, so each operator has one lemma that says what it preserves of
  them, whatever action uses it. A step tends as many messages as a turn has, and
  that the chain survives it is by induction on their number: `Induction`, which
  is proved here of any set of naturals from `WFMin` of the library.
- `Services_proofs`: `NobodyForgotten` (`NobodyIsForgotten`), `NothingStale`
  (`NothingIsStale`) and `OverwritesNothing` (`NothingOverwritten`). No part of
  `Services` reads another's state, so six of them have an inductive invariant each
  (`BootHeld` to `CallsHeld`, together `Held`), and a lemma for each action. What
  these add to the promise itself: that a file opened is the one on the disk; that a
  minting in flight is of what its project reaches now; that a file has what it is
  to hold before it takes its name; that a call held is answered with one write, and
  what it came to is so in the record it is answered with and in every one after.
  `NothingStale` has `~MidMint` and `~AnyAnswer` as hypotheses, the values the run
  gives them: with either, the code does leave something stale (see below).
  Then `OneOfEachAlways` (`OneOfEach`), from four more (`OneHeld`). `ListeningHeld` is
  the one that takes an argument: an identifier is above every one in use, so that
  what is out is told apart (`Apart`); whatever is out for a listener is what it
  waits on, and it waits on one thing (`Stands`); an app's token is one listener's
  (`OneHolder`), and one that stopped has told all its sockets to close. A second
  live stream would be a second thing waited on. `KeysHeld` says the key of what is
  sealed can be had again wherever a start is killed; `EndsHeld` that what has ended
  is not asked again before its end is heard of; `WatchedHeld` says it of every record
  on its way to the disk. Its hypotheses are `~Rebinds` and `~LateFails`, the run's
  values (see below).
- `Holdings_proofs`: `AskedFromWhatIsThere`, the second half of `ImageStays`
  (`Images!ThereWhenMade`), of an instance alone on its runtime (`OneHost`: the names
  of images are the runtime's, and two instances of two releases would remove each
  other's). That an image is there when a container is asked for rests on an answer
  read some time after the look that gave it, in any order, and on builds that may
  outlive who asked for them. So `ImagesHeld` says that whatever the runtime is told
  is about what the release of who tells it uses (`IsToldAsUsed`), so that nothing it
  uses is ever told to go; that an image said to be there still is (`IsSoSaid`); and
  that who waits on a build uses its image (`WaitsAsUsed`). `LateLooks` and `Lingers`
  may be either. The first half, that the image of a container already made stays, is
  false with either of them (see below), and without them is only model-checked.
  Then `WorkIsAlwaysPaidFor` (`WorkIsPaidFor`), of any instance, and
  `AlwaysConsistent` (`Consistent`), where nobody registers over an app in use
  (`~Replaces`: with it the code does lose what a project names, as
  `configuration_replaced` finds). Each is of two parts. Of `Configuration`,
  `BaseHeld` says that the kits a project offers and the purse of each job that is
  not over are held, that tabs are told apart and that a slot still waits for
  something only of the request it holds: requests change the state with others held
  beside them, and what a held change is kept with is checked against the state it is
  kept in, not the one it was drafted in (`Kept`). `WholeHeld` adds that everything a
  project names is held, and that there is one registration at a time (`Alone`): one
  answered after another would drop the installations made with the other. Of `Record`,
  `RecordHeld` says that the file is what was last written of a state that reads back
  (`ReadableIs`), that one of the last release's charges no purse and holds one
  credential (`Older`), that what the instance goes on from has every job the file
  has (`Follows`), and that a container's warrant is its job's. Its writing and
  reading back have lemmas of their own, of any state and any key.
  Last `ReachIsAlwaysItsOwn` (`ReachIsItsOwn`), of any instance, whatever else is
  changed and kept while a change is held. A change is read when it is checked and
  again when it is kept, and may have come to something else by then: `reread` is a
  history of the projects that happened to, and the property excepts them from all
  but having a token accepted somewhere. `ReachHeld` says of each project that it
  reaches what was accepted, unless it is in `reread` (`Vouched`); and of each change
  held (`Stands`) that it was read to one thing, of the kind its draft says
  (`OfItsKind`), which either is what its project reached already (`AsItWas`), or was
  asked and is unanswered, refused or accepted (`AsAccepted`). What was accepted and
  what was read again only grow, so others kept in between leave each so
  (`VouchedKept`), and what is kept at last is either what was asked about, and so
  accepted, or enters `reread`. An instance may be opened with projects in it,
  of which a file says what a kept change would have left (`Found`).

## Only model-checked

- Liveness, which rests on fairness and is out of the prover's reach:
  `StopEndsTurn`, `HeldIsDealtWith`, `Drains`, `RestsWhenIdle`, `NobodyWaits`,
  `NothingStaysUp`, `VisitorsAreAnswered`, `EndsInTheEnd`.
- That the image a container was made from stays (`Images!ImageStays`).
- `ShownWhole` of `Posting`, which compares two filtered and flattened sequences.
- Of `Holdings`, what its other promises say: `ShowsWhatIsSo`, `HeardAsSaid`,
  `PagesAgree` and `ForItsOwner`.

The library's induction theorems take an operator, which the provers cannot
instantiate. `Posting_proofs` has induction on a set of naturals in their stead,
which serves for the recursive functions there (`TendAll`, `Unsent`); what the
folds of `Holdings` and the filters of `ShownWhole` compute is only checked.
No module declares a recursive operator.

## Where the code and its words differ

Two have runs of their own, which must find the violation, and are the `findings`:
`job_retired_twice` and `configuration_replaced`. The others were met while
modelling. Each has a configuration in this directory that is not a run, a
constant that is `FALSE` in `Holdings.cfg` or `Services.cfg` and, set to `TRUE`,
violates the property named, a definition that TLC finds violated, or an exception a
property makes. Line numbers are of `src/`.

| Where | What the code does | Shown by |
|---|---|---|
| `instance/src/transcript.rs:492`, `:550` | the last run of a turn, grown while its post is in flight, can be shown after the next turn's first | `Posting_next_turn.cfg` |
| `instance/src/channel.rs:296`, `lib.rs:1196` | a post is followed by the next in its chain on a record not yet on the disk | `Posting_unwritten.cfg` |
| `instance/src/listening.rs:440`, `:686` | a workspace bound anew while its app is introduced is listened to with what was asked before | `Rebinds` (`Listening!HearsItsOwn`) |
| `instance/src/listening.rs`, retries | an introduction failing late, after another succeeded, opens a second stream; a token rotated is not picked up | `LateFails`, `Rotates` (`OneOfEach`, `EndsInTheEnd`) |
| `instance/src/lib.rs:1276` | a job whose write is lost keeps an inbox nothing comes for | `Job_lost.cfg` |
| `instance/src/threads.rs:190` | a thread read for a turn that was stopped is kept for the next; it may be another's | `Job_thread_after_stop.cfg` |
| `instance/src/foreman.rs`, `lib.rs:1196` | before the room is made, a failed write lets a foreman's turn run ahead of its record, and be put twice | `Foreman_unwritten.cfg` |
| `instance/src/requests.rs:694` | only working jobs keep a project from being forgotten: its foreman may be speaking, and its container then stays up | `Foreman_forgotten.cfg` |
| `instance/src/turns.rs:586`, `:599` | the bound on a cancel is keyed by the speaker (`:57`), and may go off in a later turn | both modules let it; no property forbids it |
| `instance/src/turns.rs:634`–`667` | a look that found no image, read after another turn's build of it, has it built again: its name moves off a container's | `LateLooks` (`ImageStays`) |
| `agent/src/lib.rs`, `BUILDING` | a build outlives the process it is said to end with, and moves the name off a container's image | `Lingers` (`ImageStays`) |
| `instance/src/sweep.rs:391`, `requests.rs:885` | an image is reclaimed by two paths with different ideas of what is in use (decision 0051:83) | `Images!Reclaimed`, violated |
| `instance/src/checks.rs:377`, `requests.rs:552`, `:645` | a change held while platforms are asked is read again when it is kept. One leaving its token unsaid with another repository, held while another replaces that token, is kept with a token nobody checked there, recorded as the old token's owner's; so is one whose tab came back meanwhile with another installation (`installations.rs:333`). The code says "A credential checked against its platform before it is kept" (`checks.rs:1`) | `reread`, which `ReachIsItsOwn` excepts and without which TLC finds it violated |
| `instance/src/installations.rs:979` | a token is minted for a project whose installation changed meanwhile | `MidMint` (`NothingIsStale`) |
| `instance/src/apps.rs`, `register_channel_app` | another client's app drops workspaces in use; an exchange begun under the old one is kept under the new | `Replaces` with two `Clients` (`Consistent`) |
| `instance/src/tools.rs`, `lib.rs:1276` | a call whose answer waited on a write that failed is never answered, though "Every tool answers within its own call" | `Calls`, `Unwritten` |
| `instance/src/tools.rs`, `watch` | "already watching" is answered before it is on the disk | `AnyAnswer` (`NothingIsStale`) |
| `core/src/lib.rs:2557`, `:2593` | a room watched by one project and a job's of another is routed to the watcher | `WatchesAnothers` (`ForItsOwner`) |
| `instance/src/listening.rs`, dedupe | a frame delivered again after its acknowledgement was lost to a restart, or to two apps, is heard twice | `LosesAcks`, `MentionsByApps` (`HeardAsSaid`) |
| `instance/src/jobs.rs:137`, `:286` | a job is told of the variables there are when it is begun, and its container is made with those there are later (decision 0046) | `Record!ToldWhatItHolds`, violated |
| `project_settings_view.rs:1903` | forgetting is offered of what the instance refuses to forget | `Dashboard!ForgettingIsTaken`, violated |
| `instance/src/views.rs:341` | a job's link is made from its channel's present workspace, which may not be where its room is (decision 0070) | `Rebinding`, `Relocating` (`Dashboard!LinksOnlyWhatIsTrue`) |
| `project_settings_view.rs`, checks | a check answered after its panel was closed still moves the form | `EarlyMoves` (`ShowsWhatIsSo`) |
| `app/src/dashboard/live.rs` | a first reading that arrives after the stream's first tick puts back an older page (decision 0071) | `FirstIsLate` (`EndsInTheEnd`) |
| `world/src/lib.rs:182` | a socket told to close before it is open stays open | `EarlyDisconnects` (`EndsInTheEnd`) |

## Not modelled

- **Release watch**: a constant and a function of it.
- **Providers and platforms**: each renders a request or reads an answer, with no
  state; the modules see which kind of answer it was. `Hearing` has of
  `channel/src/slack.rs` what decides whether a message is heard.
- **Drawing and wording**: prompts, notices, what a page looks like, the shape of a
  transcript's entries; of a command line, what its words carry is in `Wording`.
  An address in brackets and a port's number are not, nor a repository whose name
  ends in `.git`, which the platform gives none. A text one line's end longer than
  a post is followed by an empty one (`pieces`), which `PostedWhole` allows.
- **Settings of one value**, whose requests assign and save.
- **The queue of writes shared by every speaker at once** has no module of its own:
  each speaker meets it, in `Job`, `Foreman`, `Posting` and `Calls`, with its own
  part of the record. A write that carries two speakers' changes lands or fails for
  both, which to each is a write of its own landing or failing.
- **A foreman's container of another agent**, replaced before its turn, and a turn
  whose commands cannot be decided.
- **The scenario harness**, tests, `xtask`, packaging: not the program.
