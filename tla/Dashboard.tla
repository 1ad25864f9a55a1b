----------------------------- MODULE Dashboard -----------------------------
(***************************************************************************)
(* What a page is shown of the record, and what is pressed on it: jobs by how *)
(* long they wait, the controls each is offered with, and the addresses it is  *)
(* linked to. A page may be older than the record when something on it is      *)
(* pressed.                                                                    *)
(***************************************************************************)
EXTENDS Naturals, Sequences, FiniteSets, SequencesExt

CONSTANTS
  Watched,      (* projects                                                 *)
  Tasks,        (* jobs there may be                                        *)
  OnProject,    (* the project of each                                      *)
  Purses,       (* purses that can be held                                  *)
  Spaces,       (* workspaces a project may be bound to                     *)
  Sources,      (* repositories a project may be of                         *)
  SpaceOf,      (* the workspace each is bound to at first                   *)
  SourceOf,     (* the repository each is of at first                        *)
  MaxClock,     (* moments told apart                                       *)
  Rebinding,    (* whether a project is moved to another workspace          *)
  Relocating    (* whether it is moved to another repository                *)

DashboardAssumption ==
  /\ OnProject \in [Tasks -> Watched]
  /\ SpaceOf \in [Watched -> Spaces] /\ SourceOf \in [Watched -> Sources]
  /\ Tasks \subseteq Nat /\ Spaces \subseteq Nat \ {0} /\ Sources \subseteq Nat \ {0}
  /\ Purses # {} /\ MaxClock \in Nat \ {0} /\ {Rebinding, Relocating} \subseteq BOOLEAN

VARIABLES
  watching,   (* projects on record                                         *)
  clock,      (* the time the world tells with a step                       *)
  standing,   (* of each job on record, where it has got to                 *)
  since,      (* when that last changed, as recorded: 0 where nothing was   *)
  created,    (* when it was made                                           *)
  charging,   (* the purse each job's kit charges                           *)
  fitted,     (* the purse each project's kit charges                       *)
  purse,      (* purses held                                                *)
  speaks,     (* the workspace each project is bound to                     *)
  known,      (* workspaces the channel said who this instance is in         *)
  source,     (* the repository each project is of                          *)
  place,      (* the workspace each job's room was made in                  *)
  opened,     (* the repository its pull requests are opened in             *)
  page,       (* what the page offers, as last read                         *)
  lied,       (* what was refused, of what a page as the record offered      *)
  waited      (* since when each job that waits truly has                   *)

moments == <<standing, since, created, waited>>
paying == <<charging, fitted, purse>>
linked == <<speaks, known, source, place, opened>>
vars == <<watching, clock, moments, paying, linked, page, lied>>

Waits == {"Asked", "Silent"}
Over == {"Done", "Lost"}
Recorded == {j \in Tasks : standing[j] # "None"}
At(p) == {j \in Recorded : OnProject[j] = p}

----------------------------------------------------------------------------
(* What a page is told. *)

\* Who this instance is where a project speaks, once told: 0 where it is not.
identity_of(p) == IF speaks[p] \in known THEN speaks[p] ELSE 0

\* A moment that is none is before every other.
Earlier(i, j) ==
  \/ since[i] < since[j]
  \/ since[i] = since[j] /\ created[i] < created[j]
  \/ since[i] = since[j] /\ created[i] = created[j] /\ i < j

charges(q) ==
  (\E p \in watching : fitted[p] = q) \/ (\E j \in Recorded : standing[j] \notin Over /\ charging[j] = q)

room_link(j) == identity_of(OnProject[j])
pull_request_link(j) == source[OnProject[j]]

\* The jobs that wait, longest first.
needs_you == SetToSortSeq({j \in Recorded : standing[j] \in Waits}, Earlier)

\* What a page is told that decides what it offers.
listing == [jobs     |-> [j \in Recorded |-> standing[j]],
            held     |-> purse,
            charged  |-> {q \in Purses : charges(q)},
            watching |-> watching]

----------------------------------------------------------------------------
(* Jobs, as they go on. *)

\* A mistake: the moment of a change is not kept.
Changes(j, to) == standing' = [standing EXCEPT ![j] = to] /\ UNCHANGED since

record(j, to) ==
  /\ standing' = [standing EXCEPT ![j] = to]
  /\ since' = [since EXCEPT ![j] = clock]

\* The world and the agents go on, and the page stays as it was read.
Unread == UNCHANGED <<page, lied>>

\* A job is begun, on the kit its project has: its room is made where the project
\* speaks, and its work is checked out of the repository the project is of.
begin(j) ==
  /\ standing[j] = "None" /\ OnProject[j] \in watching
  /\ record(j, "Working")
  /\ created' = [created EXCEPT ![j] = clock]
  /\ charging' = [charging EXCEPT ![j] = fitted[OnProject[j]]]
  /\ place' = [place EXCEPT ![j] = speaks[OnProject[j]]]
  /\ opened' = [opened EXCEPT ![j] = source[OnProject[j]]]
  /\ UNCHANGED <<watching, clock, fitted, purse, speaks, known, source>>

\* A message starts what waits; a turn ends, and with a message waiting the next begins.
received(j) ==
  /\ standing[j] \in Waits
  /\ record(j, "Working")
  /\ UNCHANGED <<watching, clock, created, paying, linked>>

job_ended(j) ==
  /\ standing[j] = "Working"
  /\ \E to \in Waits \union {"Working"} : record(j, to)
  /\ UNCHANGED <<watching, clock, created, paying, linked>>

\* The channel says who this instance is in a workspace.
introduced(w) ==
  /\ w \notin known /\ \E p \in watching : speaks[p] = w
  /\ known' = known \union {w}
  /\ UNCHANGED <<watching, clock, standing, since, created, paying, speaks, source, place, opened>>

\* Nobody is known after a restart, and a job whose container went is lost.
Wakes ==
  /\ known' = {}
  /\ \E lost \in SUBSET {j \in Recorded : standing[j] \notin Over} :
       /\ standing' = [j \in Tasks |-> IF j \in lost THEN "Lost" ELSE standing[j]]
       /\ since' = [j \in Tasks |-> IF j \in lost THEN clock ELSE since[j]]
  /\ UNCHANGED <<watching, clock, created, paying, speaks, source, place, opened>>

Ticks ==
  /\ clock < MaxClock
  /\ clock' = clock + 1
  /\ UNCHANGED <<watching, standing, since, created, paying, linked>>

\* A project is amended: its kit charges a purse that is held, it is bound elsewhere,
\* or it is of another repository. Its jobs are left as they are.
amended(p) ==
  /\ p \in watching
  /\ \E q \in purse, w \in (IF Rebinding THEN Spaces ELSE {speaks[p]}),
        r \in (IF Relocating THEN Sources ELSE {source[p]}) :
       /\ fitted' = [fitted EXCEPT ![p] = q]
       /\ speaks' = [speaks EXCEPT ![p] = w]
       /\ source' = [source EXCEPT ![p] = r]
  /\ UNCHANGED <<watching, clock, standing, since, created, charging, purse, known, place, opened>>

hold_purse(q) ==
  /\ q \notin purse
  /\ purse' = purse \union {q}
  /\ UNCHANGED <<watching, clock, standing, since, created, charging, fitted, linked>>

Goes ==
  \/ \E j \in Tasks : begin(j) \/ received(j) \/ job_ended(j)
  \/ \E w \in Spaces : introduced(w)
  \/ Wakes \/ Ticks
  \/ \E p \in Watched : amended(p)
  \/ \E q \in Purses : hold_purse(q)

----------------------------------------------------------------------------
(* What is pressed on a page: what it offers of what it shows, which may be old. *)

\* A press is answered by a new listing, or refused.
Press(on, refused) ==
  /\ lied' = IF refused /\ page = listing THEN {on} ELSE {}
  /\ page' = IF refused THEN page ELSE listing'

Refused(on) ==
  UNCHANGED <<watching, clock, standing, since, created, paying, linked>> /\ Press(on, TRUE)

Taken(on) ==
  UNCHANGED <<watching, clock, standing, since, created, paying, linked>> /\ Press(on, FALSE)

\* A working job is asked to stop: its turn ends when it does.
stop(j) ==
  /\ j \in DOMAIN page.jobs /\ page.jobs[j] = "Working"
  /\ IF j \in Recorded THEN Taken("job") ELSE Refused("job")

\* Which jobs are offered to be retired.
OffersRetiring(j) == page.jobs[j] \notin Over \union {"Working"}

retire(j) ==
  /\ j \in DOMAIN page.jobs /\ OffersRetiring(j)
  /\ \/ (j \notin Recorded \/ standing[j] = "Working") /\ Refused("job")
     \/ standing[j] \in Over /\ Taken("job")
     \/ /\ standing[j] \in Waits /\ record(j, "Done")
        /\ UNCHANGED <<watching, clock, created, paying, linked>>
        /\ Press("job", FALSE)

\* Forgetting a purse is greyed while something charges it.
OffersForgetting == page.held \ page.charged

forget_purse(q) ==
  /\ q \in OffersForgetting
  /\ \/ charges(q) /\ Refused("purse")
     \/ /\ ~charges(q) /\ purse' = purse \ {q}
        /\ UNCHANGED <<watching, clock, standing, since, created, charging, fitted, linked>>
        /\ Press("purse", FALSE)

\* A project is offered to be forgotten whatever it does, and is with its jobs, unless
\* one works.
forget(p) ==
  /\ p \in page.watching
  /\ IF p \notin watching \/ \E j \in At(p) : standing[j] = "Working"
       THEN Refused("project")
       ELSE /\ watching' = watching \ {p}
            /\ standing' = [j \in Tasks |-> IF j \in At(p) THEN "None" ELSE standing[j]]
            /\ UNCHANGED <<clock, since, created, paying, linked>>
            /\ Press("project", FALSE)

Presses ==
  \/ \E j \in Tasks : stop(j) \/ retire(j)
  \/ \E q \in Purses : forget_purse(q)
  \/ \E p \in Watched : forget(p)

\* The page is read again.
Reads ==
  /\ UNCHANGED <<watching, clock, standing, since, created, paying, linked, lied>>
  /\ page' = listing

\* A record of before moments were kept has none for what waits.
Init ==
  /\ watching = Watched
  /\ clock = 1
  /\ standing \in [Tasks -> {"None", "Silent"}]
  /\ since = [j \in Tasks |-> 0]
  /\ created = [j \in Tasks |-> 0]
  /\ fitted \in [Watched -> Purses]
  /\ charging = [j \in Tasks |-> fitted[OnProject[j]]]
  /\ purse = Purses
  /\ speaks = SpaceOf /\ known = {}
  /\ source = SourceOf
  /\ place = [j \in Tasks |-> SpaceOf[OnProject[j]]]
  /\ opened = [j \in Tasks |-> SourceOf[OnProject[j]]]
  /\ page = listing /\ lied = {}
  /\ waited = [j \in Tasks |-> 0]

Next ==
  /\ (Goes /\ Unread) \/ Presses \/ Reads
  /\ waited' = [j \in Tasks |-> IF standing'[j] = standing[j] THEN waited[j]
                                ELSE IF standing'[j] \in Waits THEN clock ELSE 0]

Spec == Init /\ [][Next]_vars

----------------------------------------------------------------------------

\* A page read now lists what waits with who has waited longest first, whichever way
\* each came to wait (views.rs, home: "longest waiting first").
LongestWaitsFirst ==
  \A i, j \in 1..Len(needs_you) : i < j => waited[needs_you[i]] <= waited[needs_you[j]]

\* What a page that is as the record offers of a job or a purse is never refused
\* (jobs_view.rs, JobControls; agents_view.rs, PurseRow; requests.rs).
OfferedIsTaken == lied \subseteq {"project"}

\* So is forgetting a project (wire/src/lib.rs, Project::idle: "a page that offered a
\* control the instance would refuse would be lying").
ForgettingIsTaken == lied = {}

\* A page links only what is true: a room in the workspace it was made in, a pull
\* request in the repository it was opened in (views.rs, room_address; docs/decisions/0070).
LinksOnlyWhatIsTrue ==
  \A j \in Recorded : room_link(j) \in {0, place[j]} /\ pull_request_link(j) = opened[j]

\* No page, however old, changes how a job that is over ended (requests.rs, retire).
Stands ==
  \A j \in Recorded : standing[j] \in Over => standing'[j] \in {standing[j], "None"}

VerdictStands == [][Stands]_vars

DashboardTypeOK ==
  /\ watching \subseteq Watched /\ clock \in 1..MaxClock
  /\ standing \in [Tasks -> {"None", "Working"} \union Waits \union Over]
  /\ since \in [Tasks -> 0..clock] /\ created \in [Tasks -> 0..clock]
  /\ {charging[j] : j \in Tasks} \union {fitted[p] : p \in Watched} \subseteq Purses
  /\ known \subseteq Spaces /\ \A j \in Tasks : place[j] \in Spaces \union {0}
=============================================================================
