------------------------------ MODULE Holdings ------------------------------
(***************************************************************************)
(* The parts of the program that decide what is held and what is shown of it, *)
(* each apart from the others: what an instance may be configured with, what of *)
(* it the file keeps and hands to containers, what a form makes of it, whose      *)
(* what is said in a room is, which images the containers stand on, what a    *)
(* page lists and offers, and what is put into words. As in Services, a behaviour is of one part, chosen at    *)
(* the start; nothing here waits on anything, so every property is of safety.     *)
(***************************************************************************)
EXTENDS Naturals

CONSTANTS
  Payers, Trackable, Installations, Workspaces, Clients, Ears,    (* Configuration *)
  Beginnings, Drafts, Remembered, Replaces,
  MaxHeld, MaxAsked, MaxTabs, MaxReturns, MaxApps,
  Keys, Oats, Apis, Tasked, Variables, MaxChanges, MaxStarts,      (* Record       *)
  MaxRuns, ByHand,
  Repositories, Names, Sections, MaxIds, MaxRows, MaxEdits,      (* Form         *)
  MaxMeddles, MaxSaves, EarlyMoves,
  Projects, Owning, Teams, TeamsOf, TeamOf, MaxSaid, MaxHappens, (* Hearing      *)
  LosesAcks, MentionsByApps, WatchesAnothers,
  Hosts, Turning, HostOf, Recipes, MaxCopies, MaxRestarts,       (* Images       *)
  MaxRetired, LateLooks, Lingers,
  Followed, Tasks, OnProject, Purses, Spaces, Sources, SpaceOf,   (* Dashboard    *)
  SourceOf, MaxClock, Rebinding, Relocating,
  Carried, MaxTitle, MaxText, MaxThread, TitleAtMost, SuffixChars, (* Wording   *)
  ProjectAtMost, NameAtMost, IdentifierChars, PostAtMost, DescriptionAtMost, HostnameLimit, LabelLimit

VARIABLES
  part,          (* the part this behaviour is of                           *)
  configured, begun, wbegun, registering, exchanging, installs, exchanges, checking,
  accepted, spent, reread, heard, tabbed, returns, apps,
  up, state, file, written, containers, running, changes, starts, runs,
  filling, section, started, project, read, purses, access, binding, name, fits, rows,
  opening, tabs, pending, panel, trying, saving, asked, refused, left, ids, edits,
  meddles, saves,
  bound, jobs_rooms, foreman_room, watched, said, frames, posting, reached, shifts,
  release, step, halting, builds, concluded, runtime, replies, images, madeof, copies,
  restarts, discards,
  watching, clock, standing, since, created, charging, fitted, purse, speaks, known,
  source, place, opened, page, lied, waited,
  meant, words, taken, at

C == INSTANCE Configuration WITH
       state <- configured, asked <- heard, tabs <- tabbed, Purses <- Payers,
       Projects <- Trackable, Starts <- Beginnings
R == INSTANCE Record WITH Jobs <- Tasked, Edited <- ByHand
F == INSTANCE Form
H == INSTANCE Hearing
I == INSTANCE Images
D == INSTANCE Dashboard WITH Watched <- Followed
W == INSTANCE Wording

configuring == <<configured, begun, wbegun, registering, exchanging, installs,
                 exchanges, checking, accepted, spent, reread, heard, tabbed, returns, apps>>
recording == <<up, state, file, written, containers, running, changes, starts, runs>>
filling_in == <<filling, section, started, project, read, purses, access, binding, name,
                fits, rows, opening, tabs, pending, panel, trying, saving, asked,
                refused, left, ids, edits, meddles, saves>>
hearing == <<bound, jobs_rooms, foreman_room, watched, said, frames, posting, reached,
             shifts>>
imaging == <<release, step, halting, builds, concluded, runtime, replies, images,
             madeof, copies, restarts, discards>>
showing == <<watching, clock, standing, since, created, charging, fitted, purse, speaks,
             known, source, place, opened, page, lied, waited>>
wording == <<meant, words, taken, at>>
vars == <<part, configuring, recording, filling_in, hearing, imaging, showing, wording>>

ASSUME HoldingsAssumption ==
  /\ C!ConfigurationAssumption /\ C!DraftsAssumption /\ C!StartsAssumption /\ R!RecordAssumption
  /\ F!FormAssumption /\ H!HearingAssumption /\ I!ImagesAssumption
  /\ D!DashboardAssumption /\ W!WordingAssumption

\* A step of one part is a step of no other.
OfConfiguration ==
  part = "Configuration" /\ UNCHANGED <<part, recording, filling_in, hearing, imaging, showing, wording>>
OfRecord ==
  part = "Record" /\ UNCHANGED <<part, configuring, filling_in, hearing, imaging, showing, wording>>
OfForm ==
  part = "Form" /\ UNCHANGED <<part, configuring, recording, hearing, imaging, showing, wording>>
OfHearing ==
  part = "Hearing" /\ UNCHANGED <<part, configuring, recording, filling_in, imaging, showing, wording>>
OfImages ==
  part = "Images" /\ UNCHANGED <<part, configuring, recording, filling_in, hearing, showing, wording>>
OfDashboard ==
  part = "Dashboard" /\ UNCHANGED <<part, configuring, recording, filling_in, hearing, imaging, wording>>
OfWording ==
  part = "Wording" /\ UNCHANGED <<part, configuring, recording, filling_in, hearing, imaging, showing>>

\* What is not looked at has no state.
NoConfiguration ==
  /\ configured = 0 /\ begun = 0 /\ wbegun = 0 /\ registering = 0 /\ exchanging = 0
  /\ installs = 0 /\ exchanges = 0 /\ checking = 0 /\ accepted = 0 /\ spent = 0 /\ reread = 0
  /\ heard = 0 /\ tabbed = 0 /\ returns = 0 /\ apps = 0
NoRecord ==
  /\ up = 0 /\ state = 0 /\ file = 0 /\ written = 0 /\ containers = 0 /\ running = 0
  /\ changes = 0 /\ starts = 0 /\ runs = 0
NoForm ==
  /\ filling = 0 /\ section = 0 /\ started = 0 /\ project = 0 /\ read = 0 /\ purses = 0
  /\ access = 0 /\ binding = 0 /\ name = 0 /\ fits = 0 /\ rows = 0 /\ opening = 0
  /\ tabs = 0 /\ pending = 0 /\ panel = 0 /\ trying = 0 /\ saving = 0 /\ asked = 0
  /\ refused = 0 /\ left = 0 /\ ids = 0 /\ edits = 0 /\ meddles = 0 /\ saves = 0
NoHearing ==
  /\ bound = 0 /\ jobs_rooms = 0 /\ foreman_room = 0 /\ watched = 0 /\ said = 0
  /\ frames = 0 /\ posting = 0 /\ reached = 0 /\ shifts = 0
NoImages ==
  /\ release = 0 /\ step = 0 /\ halting = 0 /\ builds = 0 /\ concluded = 0
  /\ runtime = 0 /\ replies = 0 /\ images = 0 /\ madeof = 0 /\ copies = 0
  /\ restarts = 0 /\ discards = 0
NoDashboard ==
  /\ watching = 0 /\ clock = 0 /\ standing = 0 /\ since = 0 /\ created = 0
  /\ charging = 0 /\ fitted = 0 /\ purse = 0 /\ speaks = 0 /\ known = 0 /\ source = 0
  /\ place = 0 /\ opened = 0 /\ page = 0 /\ lied = 0 /\ waited = 0
NoWording == meant = 0 /\ words = 0 /\ taken = 0 /\ at = 0

Parts == {"Configuration", "Record", "Form", "Hearing", "Images", "Dashboard", "Wording"}

Init ==
  /\ part \in Parts
  /\ IF part = "Configuration" THEN C!Init ELSE NoConfiguration
  /\ IF part = "Record" THEN R!Init ELSE NoRecord
  /\ IF part = "Form" THEN F!Init ELSE NoForm
  /\ IF part = "Hearing" THEN H!Init ELSE NoHearing
  /\ IF part = "Images" THEN I!Init ELSE NoImages
  /\ IF part = "Dashboard" THEN D!Init ELSE NoDashboard
  /\ IF part = "Wording" THEN W!Init ELSE NoWording

Next ==
  \/ OfConfiguration /\ C!Next
  \/ OfRecord /\ R!Next
  \/ OfForm /\ F!Next
  \/ OfHearing /\ H!Next
  \/ OfImages /\ I!Next
  \/ OfDashboard /\ D!Next
  \/ OfWording /\ W!Next

Spec == Init /\ [][Next]_vars

----------------------------------------------------------------------------
\* What is held is whole, and is what a start reads back: each project's purses,
\* its installation and its workspace are among those held (State::check), and
\* a file opened with the key it was sealed under says what was held, in this
\* release's words and in the last one's (agent.rs, file.rs), and with any other,
\* or spoilt, is refused.
Consistent ==
  /\ part = "Configuration" => C!Consistent
  /\ part = "Record" => R!ReadsBackAsWritten

\* Who is to pay for work can pay for it, and pays: the purse of a job that is
\* not over is held (forget_purse), and an agent authenticates with the purse its
\* kit charges as it was held when it was run, with no other beside it.
WorkIsPaidFor ==
  /\ part = "Configuration" => C!WorkIsPaidFor
  /\ part = "Record" => R!PaidByItsPurse

\* What a project reaches is what a platform said its access reaches, whoever
\* changed what meanwhile, unless its change came to something else than was asked
\* about when it was read again (checks.rs); each tab that brought an access is
\* spent on one change; and a container is asked for with the warrant of its own job.
ReachIsItsOwn ==
  /\ part = "Configuration" => C!ReachWasChecked /\ C!ArrivalsSpentOnce
  /\ part = "Record" => R!FetchesItsOwn

\* What a page shows is so: a form holds no repository its access does not reach
\* but the one it opened with, and shows as asking only what is being answered;
\* what waits is listed longest first; and what is offered by a page that is
\* as the record is taken.
ShowsWhatIsSo ==
  /\ part = "Form" => F!SettledIsReached /\ F!AskedFor
  /\ part = "Dashboard" => D!LongestWaitsFirst /\ D!OfferedIsTaken

\* A page decides nothing alone: what a form lets through the instance refuses
\* for nothing the form looked at, and no page, however old, changes how a job
\* that is over ended.
PagesAgree ==
  [][/\ part = "Form" => F!Foresees
     /\ part = "Dashboard" => D!Stands]_vars

\* What is said is heard as it was said: not at all when this instance said it,
\* once however often it is delivered, and whole. What is put into words is taken as
\* it was meant: a command and a call by who reads them back, a name wherever it
\* is met, a long text by its room, and a thread by who was asked something in it.
HeardAsSaid ==
  /\ part = "Hearing" => H!NeverItself /\ H!HeardOnce /\ H!WordsAreItsOwn
  /\ part = "Wording" => /\ W!TakenAsMeant /\ W!NamesLeadBack
                         /\ W!PostedWhole /\ W!AskedIsShown

\* What is said reaches the job whose room it was said in, else the foreman, and
\* a mention is not missed.
ForItsOwner ==
  [][part = "Hearing" => H!ReachesItsOwner /\ H!IsReached]_vars

\* The image a container was made from stays while it does, and one is asked for
\* from an image that is there.
ImageStays ==
  part = "Images" => I!ImageStays /\ I!ThereWhenMade
=============================================================================
