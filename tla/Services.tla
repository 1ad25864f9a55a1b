------------------------------ MODULE Services ------------------------------
(***************************************************************************)
(* The parts of the program that keep state of their own and share none: how  *)
(* it wakes, who is signed in, what it listens to, which tokens it holds, how a *)
(* turn's commands go, what its agent's calls do, how what it asks for is performed, *)
(* and how a page learns of it. Since no step of one reads or writes what another keeps, a behaviour of  *)
(* all of them is one of each: this module takes them one at a time, chosen at the  *)
(* start, so that one run checks them all.                                          *)
(***************************************************************************)
EXTENDS Naturals

CONSTANTS
  Candidates, Names, Given, MaxRuns, MaxWrites,                 (* Boot        *)
  Visitors, Rooms, Passwords, MaxTyped, MaxLapses, MaxAsks,     (* Sessions    *)
  Teams, Ears, Rebinds, Rotates, LateFails,                     (* Listening   *)
  MaxMoves, MaxFaults, MaxRenewals,
  Projects,                                  (* Listening and Credentials       *)
  Installations, Repositories, Wrappers, JobOf, Forms, MidMint, (* Credentials *)
  MaxChanges, MaxExpiries,
  Jobs, Foremen, Image, MaxTurns, MaxStops, MaxMessages,        (* Turns       *)
  Processes, Sockets, Callers, Exercised, MaxPuts,              (* World       *)
  MaxSaid, MaxSends, MaxBodies, EarlyDisconnects,
  MaxEdits, MaxBreaks, FirstIsLate,                             (* Page        *)
  Asking, Watchers, Workers, Channels, MaxTaken, MaxSaving,     (* Calls       *)
  MaxMishaps, AnyAnswer

VARIABLES
  part,          (* the part this behaviour is of                           *)
  environment, phase, pending, facts, addresses, presenting, found, disk, left,
  runs, writes,
  password, setup, sessions, entered, grants, deriving, setting, failures,
  retired, at, typed, lapses, asks,
  own, app, listeners, questions, sockets, draining, timers, moves, faults,
  renewals,
  installed, access, repository, minted, minting, awaiting, told,
  listing_tokens, reaches, reaching, changes, expiries,
  stage, stopping, prompted, closing, building, present, made, overdue, turns,
  lands, delivery, claimed, stops,
  exercised, down, loop, events, file, temporary, writing, puts, question,
  process, socket, visitor, bodies, held, owes, over,
  now, landed, stream, seen, frames, again, connected, next, reading, answers,
  shown, breaks,
  taken, running, warrants, handed, kept, saved, saving, calls, latest, mishaps

B == INSTANCE Boot
S == INSTANCE Sessions WITH Jobs <- Rooms
L == INSTANCE Listening
K == INSTANCE Credentials
T == INSTANCE Turns
W == INSTANCE World WITH writes <- puts, MaxWrites <- MaxPuts, Visitors <- Callers
P == INSTANCE Page
C == INSTANCE Calls WITH turns <- taken, disk <- saved, MaxTurns <- MaxTaken,
                         Projects <- Watchers, Jobs <- Workers, Rooms <- Channels,
                         Requests <- Asking

boot == <<environment, phase, pending, facts, addresses, presenting, found, disk,
          left, runs, writes>>
signing == <<password, setup, sessions, entered, grants, deriving, setting, failures,
             retired, at, typed, lapses, asks>>
listening == <<own, app, listeners, questions, sockets, draining, timers, moves,
               faults, renewals>>
credentials == <<installed, access, repository, minted, minting, awaiting, told,
                 listing_tokens, reaches, reaching, changes, expiries>>
turning == <<stage, stopping, prompted, closing, building, present, made, overdue,
             turns, lands, delivery, claimed, stops>>
performing == <<exercised, down, loop, events, file, temporary, writing, puts, question,
                process, socket, visitor, bodies, held, owes, over>>
reading_on == <<now, landed, stream, seen, frames, again, connected, next, reading,
                answers, shown, breaks>>
calling == <<taken, running, warrants, handed, kept, saved, saving, calls, latest,
             mishaps>>
vars == <<part, boot, signing, listening, credentials, turning, performing, reading_on, calling>>

ASSUME ServicesAssumption ==
  /\ B!BootAssumption /\ S!SessionsAssumption /\ L!ListeningAssumption
  /\ K!CredentialsAssumption /\ T!TurnsAssumption /\ W!WorldAssumption
  /\ P!PageAssumption /\ C!CallsAssumption

\* A step of one part is a step of no other.
OfBoot ==
  part = "Boot" /\ UNCHANGED <<part, signing, listening, credentials, turning, performing, reading_on, calling>>
OfSessions ==
  part = "Sessions" /\ UNCHANGED <<part, boot, listening, credentials, turning, performing, reading_on, calling>>
OfListening ==
  part = "Listening" /\ UNCHANGED <<part, boot, signing, credentials, turning, performing, reading_on, calling>>
OfCredentials ==
  part = "Credentials" /\ UNCHANGED <<part, boot, signing, listening, turning, performing, reading_on, calling>>
OfTurns ==
  part = "Turns" /\ UNCHANGED <<part, boot, signing, listening, credentials, performing, reading_on, calling>>
OfWorld ==
  part = "World" /\ UNCHANGED <<part, boot, signing, listening, credentials, turning, reading_on, calling>>

OfPage ==
  part = "Page" /\ UNCHANGED <<part, boot, signing, listening, credentials, turning, performing, calling>>

OfCalls ==
  part = "Calls" /\ UNCHANGED <<part, boot, signing, listening, credentials, turning, performing, reading_on>>

\* What is not looked at has no state.
NoBoot ==
  /\ environment = 0 /\ phase = 0 /\ pending = 0 /\ facts = 0 /\ addresses = 0
  /\ presenting = 0 /\ found = 0 /\ disk = 0 /\ left = 0 /\ runs = 0 /\ writes = 0
NoSessions ==
  /\ password = 0 /\ setup = 0 /\ sessions = 0 /\ entered = 0 /\ grants = 0
  /\ deriving = 0 /\ setting = 0 /\ failures = 0 /\ retired = 0 /\ at = 0
  /\ typed = 0 /\ lapses = 0 /\ asks = 0
NoListening ==
  /\ own = 0 /\ app = 0 /\ listeners = 0 /\ questions = 0 /\ sockets = 0
  /\ draining = 0 /\ timers = 0 /\ moves = 0 /\ faults = 0 /\ renewals = 0
NoCredentials ==
  /\ installed = 0 /\ access = 0 /\ repository = 0 /\ minted = 0 /\ minting = 0
  /\ awaiting = 0 /\ told = 0 /\ listing_tokens = 0 /\ reaches = 0 /\ reaching = 0
  /\ changes = 0 /\ expiries = 0
NoTurns ==
  /\ stage = 0 /\ stopping = 0 /\ prompted = 0 /\ closing = 0 /\ building = 0
  /\ present = 0 /\ made = 0 /\ overdue = 0 /\ turns = 0 /\ lands = 0
  /\ delivery = 0 /\ claimed = 0 /\ stops = 0
NoWorld ==
  /\ exercised = 0 /\ down = 0 /\ loop = 0 /\ events = 0 /\ file = 0 /\ temporary = 0
  /\ writing = 0 /\ puts = 0 /\ question = 0 /\ process = 0 /\ socket = 0 /\ visitor = 0
  /\ bodies = 0 /\ held = 0 /\ owes = 0 /\ over = 0

NoPage ==
  /\ now = 0 /\ landed = 0 /\ stream = 0 /\ seen = 0 /\ frames = 0 /\ again = 0
  /\ connected = 0 /\ next = 0 /\ reading = 0 /\ answers = 0 /\ shown = 0 /\ breaks = 0

NoCalls ==
  /\ taken = 0 /\ running = 0 /\ warrants = 0 /\ handed = 0 /\ kept = 0 /\ saved = 0
  /\ saving = 0 /\ calls = 0 /\ latest = 0 /\ mishaps = 0

Parts == {"Boot", "Sessions", "Listening", "Credentials", "Turns", "World", "Page", "Calls"}

Init ==
  /\ part \in Parts
  /\ IF part = "Boot" THEN B!Init ELSE NoBoot
  /\ IF part = "Sessions" THEN S!Init ELSE NoSessions
  /\ IF part = "Listening" THEN L!Init ELSE NoListening
  /\ IF part = "Credentials" THEN K!Init ELSE NoCredentials
  /\ IF part = "Turns" THEN T!Init ELSE NoTurns
  /\ IF part = "World" THEN W!Init ELSE NoWorld
  /\ IF part = "Page" THEN P!Init ELSE NoPage
  /\ IF part = "Calls" THEN C!Init ELSE NoCalls

Next ==
  \/ OfBoot /\ B!Next
  \/ OfSessions /\ S!Next
  \/ OfListening /\ L!Next
  \/ OfCredentials /\ K!Next
  \/ OfTurns /\ T!Next
  \/ OfWorld /\ W!Next
  \/ OfPage /\ P!Next
  \/ OfCalls /\ C!Next

Spec == Init /\ [][Next]_vars

\* The fairness of each part, as its module states it.
Fairness ==
  /\ WF_boot(part = "Boot" /\ B!Answers)
  /\ \A which \in {"Dashboard", "Tools"} : WF_boot(part = "Boot" /\ B!Bound(which))
  /\ WF_boot(part = "Boot" /\ B!Presenting)
  /\ \A v \in Visitors : /\ WF_signing(part = "Sessions" /\ S!Follows(v))
                         /\ WF_signing(part = "Sessions" /\ S!Derived(v))
  /\ WF_listening(part = "Listening" /\ L!Answered) /\ WF_listening(part = "Listening" /\ L!Greets)
  /\ WF_listening(part = "Listening" /\ L!Closing) /\ WF_listening(part = "Listening" /\ L!Tries)
  /\ \A p \in Projects :
       WF_credentials(part = "Credentials" /\ \E answered \in BOOLEAN : K!MintedAnswered(p, answered))
  /\ WF_credentials(part = "Credentials" /\ K!PlatformLists)
  /\ \A s \in Jobs \union Foremen : /\ WF_turning(part = "Turns" /\ T!Turn(s))
                                    /\ WF_turning(part = "Turns" /\ T!RuntimeAnswers(s))
                                    /\ WF_turning(part = "Turns" /\ T!Closes(s))
  /\ \A i \in T!Images : WF_turning(part = "Turns" /\ T!BuildAnswers(i))
  /\ WF_turning(part = "Turns" /\ T!GoesOff)
  /\ WF_reading_on(part = "Page" /\ P!Lands) /\ WF_reading_on(part = "Page" /\ P!Opens)
  /\ WF_reading_on(part = "Page" /\ P!Ticks) /\ WF_reading_on(part = "Page" /\ P!Follows)
  /\ WF_reading_on(part = "Page" /\ P!Answers) /\ WF_reading_on(part = "Page" /\ P!Shows)
  /\ WF_reading_on(part = "Page" /\ P!Pauses)
  /\ WF_performing(part = "World" /\ W!Step) /\ WF_performing(part = "World" /\ W!StepDone)
  /\ WF_performing(part = "World" /\ W!Performs)
  /\ WF_performing(part = "World" /\ \E q \in W!Questions : W!Answers(q))
  /\ \A p \in Processes : /\ WF_performing(part = "World" /\ W!Killed(p))
                          /\ WF_performing(part = "World" /\ W!LineRead(p))
                          /\ WF_performing(part = "World" /\ W!Ends(p))
  /\ \A s \in Sockets : /\ WF_performing(part = "World" /\ W!Connected(s))
                        /\ WF_performing(part = "World" /\ W!Hears(s))
                        /\ WF_performing(part = "World" /\ W!Sends(s))
                        /\ WF_performing(part = "World" /\ W!LetGo(s))
  /\ \A r \in Asking : /\ WF_calling(part = "Calls" /\ C!Body(r))
                         /\ WF_calling(part = "Calls" /\ C!posted(r))
  /\ WF_calling(part = "Calls" /\ C!Lands)

FairSpec == Spec /\ Fairness

----------------------------------------------------------------------------
\* Each part keeps what its module says it keeps.
TypeOK ==
  CASE part = "Boot"        -> B!TypeOK
    [] part = "Sessions"    -> S!TypeOK
    [] part = "Listening"   -> L!TypeOK
    [] part = "Credentials" -> K!TypeOK
    [] part = "Turns"       -> T!TypeOK
    [] part = "World"       -> W!TypeOK
    [] part = "Page"        -> P!TypeOK
    [] part = "Calls"       -> C!TypeOK

\* There is one of what there must be one of: one stream of each app's events,
\* one key for what is sealed, one identity across every start, one end of what is
\* opened or asked for, one foreman that watches a room.
OneOfEach ==
  /\ part = "Listening" => L!OneStream
  /\ part = "Boot" => B!KeyIsKept /\ B!OneIdentity
  /\ part = "World" => W!OneEnd
  /\ part = "Calls" => C!WatchedByOne

\* Whoever waits is known to what will answer: a wrapper to the minting of its
\* token, a form to its listing, a turn to the build of its image, a visitor to the
\* answer to its request, a call to the write it is answered with.
NobodyIsForgotten ==
  /\ part = "Credentials" => K!SomethingIsComing
  /\ part = "Turns" => T!WaitsOnABuild
  /\ part = "World" => W!IsHeld
  /\ part = "Calls" => C!IsHeld

\* What is kept is withdrawn by what it no longer holds for: a token when what
\* its project reaches changes, the setup link when there is a password, what
\* an agent said of stopping when a message lands after it, a warrant when its
\* turn ends; and what a foreman was told is done stays so.
NothingIsStale ==
  /\ part = "Credentials" => K!KeptForNow
  /\ part = "Sessions" => S!LinkIsForTheFirst
  /\ part = "Turns" => T!ClaimIsCurrent
  /\ part = "Calls" => C!ClaimIsOfItsTurn /\ C!ToldIsKept

\* What is on the disk is replaced only by what was read of it and changed
\* since, with its own key (Boot::read, file::opened), and by the whole of it,
\* whatever dies meanwhile (write_atomically).
NothingOverwritten ==
  [][/\ part = "Boot" => B!ReadBeforeWritten
     /\ part = "World" => W!FileIsWhole']_vars

\* What is asked for ends: waking, a page a visitor asks for, the wait to listen
\* to an app there is, to have a token or to list what one reaches, a turn told to
\* stop, a process or a socket told to close, a page's showing what is no longer so, and an agent's call.
Waits(who) ==
  CASE part = "Boot"        -> B!IsWaking
    [] part = "Sessions"    -> who \in Visitors /\ ~S!Rests(who)
    [] part = "Listening"   -> who \in Ears /\ ~L!Served(who)
    [] part = "Credentials" -> \/ who \in Wrappers /\ ~K!Told(who)
                               \/ who \in Forms /\ ~K!Listed(who)
    [] part = "Turns"       -> who \in stopping
    [] part = "World"       -> who = "World" /\ \E asked \in exercised \ Callers : W!Waits(asked)
    [] part = "Page"        -> who = "Page" /\ shown # now
    [] part = "Calls"       -> who \in Asking /\ C!Waits(who)

EndsInTheEnd ==
  \A who \in Visitors \union Ears \union Wrappers \union Forms \union Jobs \union Asking
             \union {"World", "Page"} :
    Waits(who) ~> ~Waits(who)
=============================================================================
