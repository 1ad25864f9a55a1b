------------------------------ MODULE Hearing ------------------------------
(***************************************************************************)
(* What is said on a workspace, what the platform delivers of it, and who  *)
(* it is handed to: a person's mention arrives twice and is read once, an  *)
(* app's message is read only where a project watches, what this instance  *)
(* says comes back and is nobody's, and a room decides among the projects  *)
(* that share the workspace.                                               *)
(*                                                                         *)
(* Everything said is delivered once on each connection the platform has,  *)
(* in any order, until it is acknowledged. Which sockets those are, and    *)
(* how they are opened and replaced and when the platform has said who this *)
(* instance is, is in module Listening; what is done  *)
(* with a message by whom it is handed to, in Job and Foreman. A thread    *)
(* decides nothing here. What is said is known by who said it and by where *)
(* in the message the words are.                                           *)
(***************************************************************************)
EXTENDS Naturals, Sequences, FiniteSets

CONSTANTS
  Projects,        (* numbers: projects are looked at in their order         *)
  Owning,          (* those bound through an app of their own                *)
  Teams,           (* the workspaces                                         *)
  TeamsOf,         (* where each app is installed                            *)
  TeamOf,          (* the workspace each room is in                          *)
  MaxSaid,         (* things said, by anyone                                 *)
  MaxHappens,      (* things said, and changes of whose a room is            *)
  LosesAcks,       (* whether an acknowledgement may be lost                 *)
  MentionsByApps,  (* whether the platform delivers an app's mention as one  *)
  WatchesAnothers  (* whether a room may be watched that is another project's *)

Shared == 0                          (* the instance's own app *)
Apps   == {Shared} \union Owning
AppOf(p) == IF p \in Owning THEN p ELSE Shared
Rooms  == DOMAIN TeamOf

HearingAssumption ==
  /\ Projects \subseteq Nat \ {Shared} /\ Owning \subseteq Projects /\ IsFiniteSet(Projects)
  /\ TeamsOf \in [Apps -> SUBSET Teams] /\ TeamOf \in [Rooms -> Teams]
  /\ {MaxSaid, MaxHappens} \subseteq Nat
  /\ {LosesAcks, MentionsByApps, WatchesAnothers} \subseteq BOOLEAN

VARIABLES
  bound,         (* the workspace each project is bound to, if any           *)
  jobs_rooms,    (* the rooms of each project's jobs                         *)
  foreman_room,  (* its foreman's room, once it has one                      *)
  watched,       (* the rooms each watches                                   *)
  said,          (* what has been said                                       *)
  frames,        (* what the platform has yet to be acknowledged             *)
  posting,       (* what this instance is saying                             *)
  reached,         (* to whom each thing said has been handed, by which app    *)
  shifts         (* how many changes there have been                         *)

vars == <<bound, jobs_rooms, foreman_room, watched, said, frames, posting,
          reached, shifts>>
ownership == <<bound, jobs_rooms, foreman_room, watched>>

Init ==
  /\ bound \in {[p \in Projects |-> {team[p]}] : team \in [Projects -> Teams]}
  /\ \A p \in Projects : bound[p] \subseteq TeamsOf[AppOf(p)]
  /\ jobs_rooms = [p \in Projects |-> {}]
  /\ foreman_room = [p \in Projects |-> {}]
  /\ watched = [p \in Projects |-> {}]
  /\ said = <<>> /\ frames = {} /\ posting = {} /\ reached = <<>>
  /\ shifts = 0

----------------------------------------------------------------------------
(* What is said.                                                            *)

\* Where an app puts its words: in the text; in blocks, with a line for
\* notifications in the text; or in an attachment, with no text.
InText   == [text |-> "Content", blocks |-> FALSE, attached |-> FALSE]
InBlocks == [text |-> "Fallback", blocks |-> TRUE, attached |-> FALSE]
Attached == [text |-> "Nothing", blocks |-> FALSE, attached |-> TRUE]

Utterance(by, voice, marks, shape, wording, room, names) ==
  [by |-> by, voice |-> voice, marks |-> marks, shape |-> shape, wording |-> wording,
   room |-> room, names |-> names]

Installed(room) == {app \in Apps : TeamOf[room] \in TeamsOf[app]}

MaySay == Len(said) < MaxSaid /\ Len(said) + shifts < MaxHappens

\* The platform delivers a message to the apps that are in its room, whether
\* or not they are named, and a mention to those it names.
Utter(u, present) ==
  /\ MaySay
  /\ said' = Append(said, u)
  /\ reached' = Append(reached, {})
  /\ frames' = frames \union
       [kind : {"message"}, app : present, of : {Len(said')}] \union
       [kind : {"app_mention"}, app : u.names, of : {Len(said')}]

PersonSays(room, names, shape, present) ==
  /\ shape = "Edit" => names = {}
  /\ Utter(Utterance("Person", Shared, {"user"}, shape, InText, room, names), present)
  /\ UNCHANGED <<ownership, posting, shifts>>

\* An app's follow-up is a broadcast, and comes beside edits of what it follows.
AppSays(room, names, shape, wording, present) ==
  /\ wording = InText \/ shape = "Plain" \/ (shape = "Broadcast" /\ wording = Attached)
  /\ Utter(Utterance("App", Shared, {"bot", "user"}, shape, wording, room, names), present)
  /\ UNCHANGED <<ownership, posting, shifts>>

\* An agent, or the instance itself, has something to say.
Speaks(p, room) ==
  /\ TeamOf[room] \in bound[p] /\ posting = {}
  /\ posting' = {[voice |-> AppOf(p), room |-> room]}
  /\ UNCHANGED <<ownership, said, frames, reached, shifts>>

\* It is said, and delivered like anything else: marked as the app's bot's, as
\* its user's or as both, and naming whom the words happen to name.
WeSay(post, marks, names, present) ==
  /\ post \in posting /\ posting' = posting \ {post}
  /\ Utter(Utterance("Us", post.voice, marks, "Plain", InText, post.room, names), present)
  /\ UNCHANGED <<ownership, shifts>>

\* The platform refuses it, in an answer that may say it succeeded.
Unsaid(post) ==
  /\ post \in posting /\ posting' = posting \ {post}
  /\ UNCHANGED <<ownership, said, frames, reached, shifts>>

----------------------------------------------------------------------------
(* Whose a room is.                                                         *)

MayShift == Len(said) + shifts < MaxHappens
Shift == MayShift /\ shifts' = shifts + 1
IsFresh(room) ==
  /\ \A p \in Projects : room \notin jobs_rooms[p] \union foreman_room[p] \union watched[p]
  /\ \A n \in 1..Len(said) : said[n].room # room
  /\ \A post \in posting : post.room # room

\* The platform makes a room for a job, or a foreman: one nobody has spoken in.
RoomMade(p, room) ==
  /\ TeamOf[room] \in bound[p] /\ IsFresh(room)
  /\ \/ /\ jobs_rooms' = [jobs_rooms EXCEPT ![p] = @ \union {room}]
        /\ UNCHANGED foreman_room
     \/ /\ foreman_room[p] = {}
        /\ foreman_room' = [foreman_room EXCEPT ![p] = {room}]
        /\ UNCHANGED jobs_rooms
  /\ Shift /\ UNCHANGED <<bound, watched, said, frames, posting, reached>>

IsAnothers(p, room) == \E q \in Projects \ {p} : room \in jobs_rooms[q] \union foreman_room[q]

Watches(p, room) ==
  /\ TeamOf[room] \in bound[p]
  /\ \A q \in Projects : room \notin watched[q]
  /\ IsAnothers(p, room) => WatchesAnothers
  /\ watched' = [watched EXCEPT ![p] = @ \union {room}]
  /\ Shift /\ UNCHANGED <<bound, jobs_rooms, foreman_room, said, frames, posting, reached>>

StopsWatching(p, room) ==
  /\ room \in watched[p]
  /\ watched' = [watched EXCEPT ![p] = @ \ {room}]
  /\ Shift /\ UNCHANGED <<bound, jobs_rooms, foreman_room, said, frames, posting, reached>>

\* A project's binding is changed: the rooms it had stay on its record.
Binds(p, team) ==
  /\ team \subseteq TeamsOf[AppOf(p)] /\ Cardinality(team) <= 1 /\ team # bound[p]
  /\ bound' = [bound EXCEPT ![p] = team]
  /\ Shift /\ UNCHANGED <<jobs_rooms, foreman_room, watched, said, frames, posting, reached>>

----------------------------------------------------------------------------
(* A frame.                                                                 *)

\* A mistake: this instance is known by its bot and not by its user as well.
OursByItsBot(u, app) == u.by = "Us" /\ u.voice = app /\ "bot" \in u.marks

\* Recognised by either of this instance's identifiers.
Ours(u, app) == u.by = "Us" /\ u.voice = app /\ u.marks \intersect {"bot", "user"} # {}

AnotherApp(u, app) == u.by # "Person" /\ "bot" \in u.marks /\ ~Ours(u, app)

IsPlain(u) == u.shape \in {"Plain", "Bot"}

\* What an app said: the blocks where there are any, else the text; then what
\* is attached.
Reading(u) ==
  (IF u.wording.blocks THEN {"Content"} ELSE {u.wording.text} \ {"Nothing"}) \union
  (IF u.wording.attached THEN {"Content"} ELSE {})

\* A thread decoded as its messages are: whose each is, and its words.
Message(u, app) ==
  [from_us |-> Ours(u, app), app |-> AnotherApp(u, app), room |-> u.room,
   words |-> IF AnotherApp(u, app) THEN Reading(u) ELSE {u.wording.text}]

\* What a frame means: a mention whoever made it, this instance's own words,
\* and another app's. A person's message is the copy of a mention, and is not
\* read; an edit is not a thing said.
Decoded(f) ==
  LET u == said[f.of] IN
  IF \/ f.kind = "app_mention"
     \/ Ours(u, f.app) /\ IsPlain(u)
     \/ AnotherApp(u, f.app) /\ (IsPlain(u) \/ u.shape = "Broadcast")
  THEN {Message(u, f.app)} ELSE {}

\* The projects a message can be for: the app's own, or those bound to the
\* workspace it is from.
Candidates(app, team) ==
  IF app = Shared THEN {p \in Projects \ Owning : team \in bound[p]} ELSE {app}

First(some) == {p \in some : \A q \in some : p <= q}

\* A mistake: the rooms a foreman watches are not looked at.
OwnerFirst(among, m) ==
  {p \in among : m.room \in jobs_rooms[p] \union foreman_room[p]}

\* The projects that have a room: a job's, the foreman's, or one watched.
Owners(among, m) ==
  {p \in among : m.room \in jobs_rooms[p] \union foreman_room[p] \union watched[p]}

\* Who a message is for. What this instance said is nobody's, before anything
\* else; an app's is a watching project's foreman's; a person's is the first
\* project's that has the room, its job's where it is a job's; else the one
\* project's there is; and where there are several, all are pointed to.
recipient_among(among, m) ==
  CASE m.from_us -> [to |-> "Nobody", of |-> {}]
    [] ~m.from_us /\ m.app ->
         LET watching == {p \in among : m.room \in watched[p]}
         IN  [to |-> IF watching = {} THEN "Nobody" ELSE "Foreman", of |-> First(watching)]
    [] ~m.from_us /\ ~m.app /\ Owners(among, m) # {} ->
         LET p == First(Owners(among, m))
         IN  [to |-> IF \E q \in p : m.room \in jobs_rooms[q] THEN "Job" ELSE "Foreman", of |-> p]
    [] OTHER ->
         [to |-> CASE among = {} -> "Nobody" [] Cardinality(among) = 1 -> "Foreman"
                   [] OTHER -> "Unowned",
          of |-> among]

\* What is left to be acknowledged once a frame has been.
Acknowledged(f, lost) == IF lost THEN frames ELSE frames \ {f}

\* A frame is read, for the app it came to and the workspace it names, and
\* acknowledged whatever is decided about it; what it says is handed over. With
\* several projects and none that has the room, the room is told where to ask.
frame(f, lost) ==
  LET u    == said[f.of]
      team == TeamOf[u.room]
      one  == {[app |-> f.app, words |-> m.words,
                for |-> recipient_among(Candidates(f.app, team), m)] : m \in Decoded(f)}
      handed == {g \in one : g.for.to # "Nobody"}
  IN  /\ f \in frames
      /\ lost => reached[f.of] = {}
      /\ frames' = Acknowledged(f, lost)
      /\ reached' = [reached EXCEPT ![f.of] =
                     @ \union {[nth |-> Cardinality(reached[f.of]), handed |-> g] : g \in handed}]
      /\ posting' = posting \union
           {[voice |-> f.app, room |-> u.room] : g \in {h \in handed : h.for.to = "Unowned"}}
      /\ UNCHANGED <<ownership, said, shifts>>

Next ==
  \/ MaySay /\ \E room \in Rooms : \E names, present \in SUBSET Installed(room) :
       \/ \E shape \in {"Plain", "Edit"} : PersonSays(room, names, shape, present)
       \/ (names = {} \/ MentionsByApps) /\ \E shape \in {"Plain", "Bot", "Broadcast", "Edit"},
             wording \in {InText, InBlocks, Attached} : AppSays(room, names, shape, wording, present)
  \/ posting = {} /\ \E p \in Projects, room \in Rooms : Speaks(p, room)
  \/ MayShift /\ \E p \in Projects, room \in Rooms :
       RoomMade(p, room) \/ Watches(p, room) \/ StopsWatching(p, room)
  \/ \E post \in posting :
       \/ Unsaid(post)
       \/ MaySay /\ \E marks \in SUBSET {"bot", "user"} \ {{}}, names \in SUBSET {post.voice},
             present \in SUBSET Installed(post.room) : WeSay(post, marks, names, present)
  \/ MayShift /\ \E p \in Projects, team \in SUBSET Teams : Binds(p, team)
  \/ \E f \in frames, lost \in (IF LosesAcks THEN BOOLEAN ELSE {FALSE}) : frame(f, lost)

Spec == Init /\ [][Next]_vars

----------------------------------------------------------------------------
(* Correctness.                                                             *)

Frames == [kind : {"message", "app_mention"}, app : Apps, of : 1..Len(said)]

TypeOK ==
  /\ \A p \in Projects : /\ bound[p] \subseteq TeamsOf[AppOf(p)] /\ Cardinality(bound[p]) <= 1
                         /\ jobs_rooms[p] \union foreman_room[p] \union watched[p] \subseteq Rooms
  /\ frames \subseteq Frames /\ Len(reached) = Len(said)
  /\ posting \subseteq [voice : Apps, room : Rooms]
  /\ shifts \in 0..MaxHappens

\* Nothing this instance said is handed to anyone, whichever way it is marked,
\* whomever it names and wherever it is said -- so that no agent answers
\* itself, and no notice answers a notice.
NeverItself == \A n \in 1..Len(said) : said[n].by = "Us" => reached[n] = {}

\* What is said is handed over once, however many times it is delivered: a
\* mention beside the copy of it, an app's follow-up beside its edits.
HeardOnce == \A n \in 1..Len(said) : \A app \in Apps : 
  Cardinality({g \in reached[n] : g.handed.app = app}) <= 1

\* What an app says is handed over whole: what it says, wherever in its
\* message it put it, and never the line that stands for it.
WordsAreItsOwn ==
  \A n \in 1..Len(said) : \A g \in reached[n] : g.handed.words = {"Content"}

\* Who a thing said is for, by whose its room is: a job's room is that job's,
\* whoever watches it.
HasTheRoom(among, m, for) ==
  LET its_job == {p \in among : m.room \in jobs_rooms[p]}
      its     == {p \in among : m.room \in foreman_room[p] \union watched[p]}
  IN  IF its_job # {} THEN for.to = "Job" /\ for.of = its_job
      ELSE IF its # {} THEN for.to = "Foreman" /\ for.of \subseteq its
      ELSE for.of = among

\* A person's mention reaches the job whose room it is in, else the foreman
\* whose room it is, else everyone it could be for; an app's words reach the
\* foreman that watches the room as they are read, and no other.
ReachesItsOwner ==
  \A n \in 1..Len(said) : \A g \in reached'[n] \ reached[n] :
    LET u == said[n]
        among == Candidates(g.handed.app, TeamOf[u.room])
    IN IF u.by = "App"
       THEN /\ g.handed.for.to = "Foreman" /\ Cardinality(g.handed.for.of) = 1
            /\ \A p \in g.handed.for.of : p \in among /\ u.room \in watched[p]
       ELSE HasTheRoom(among, [room |-> u.room], g.handed.for)

ForItsOwner == [][ReachesItsOwner]_vars

\* A mention is not missed: until it is acknowledged the platform has it, and
\* what is acknowledged has been handed over, if there was anyone to hand it to.
IsReached ==
  \A f \in frames \ frames' :
    LET u == said[f.of]
    IN  u.by = "Person" /\ f.kind = "app_mention" /\ Candidates(f.app, TeamOf[u.room]) # {} =>
          \E g \in reached'[f.of] : g.handed.app = f.app

MentionsReach == [][IsReached]_vars
=============================================================================
