--------------------------- MODULE Configuration ---------------------------
(***************************************************************************)
(* What an instance is configured with: the purses it charges, the projects *)
(* it watches, the App it owns on the platform with where it is installed,   *)
(* the app it owns on the channel with the workspaces it is installed on.     *)
(*                                                                         *)
(* A project names purses, an installation and a workspace that others can   *)
(* forget; a change that carries a credential is held while platforms are    *)
(* asked about it, and kept only when the last has answered, by when what     *)
(* it names may have gone. A form names an installation or a workspace only   *)
(* by the state of the tab it opened, once the tab has come back.             *)
(***************************************************************************)
EXTENDS Integers, FiniteSets

CONSTANTS
  Purses,          (* the purses there are to hold                          *)
  Projects,        (* identifiers minted for projects                       *)
  Installations,   (* where the App can be installed                        *)
  Workspaces,      (* where the channel's app can be installed              *)
  Clients,         (* apps there are to register on the channel             *)
  Ears,            (* app-level tokens, of apps of a project's own           *)
  Starts,          (* states to be opened with                              *)
  Drafts,          (* what the forms send                                   *)
  Remembered,      (* how many tabs begun are remembered                    *)
  Replaces,        (* whether people register over an app in use            *)
  MaxHeld,         (* changes held at once                                  *)
  MaxAsked,        (* changes asked that are held                           *)
  MaxTabs,         (* tabs opened                                           *)
  MaxReturns,      (* times a tab comes back                                *)
  MaxApps          (* times the App is registered                           *)

None == "None"

\* An arrival is a tab's state; a form that names none, as it leaves a token
\* untyped, means what the project holds.
Unsaid == 0

ConfigurationAssumption ==
  /\ {Remembered, MaxHeld, MaxAsked, MaxTabs, MaxReturns, MaxApps} \subseteq Nat
  /\ Replaces \in BOOLEAN
  /\ None \notin Projects \union Clients \union Installations \union Workspaces

\* What a form says: an access, by the tab of an install or a token, none typed
\* being the one held; and a binding. One that says a token types one.
Said ==
  [foreman : Purses, kits : (SUBSET Purses) \ {{}}, repository : STRING,
   access  : [kind : {"App"}, arrival : Nat] \union [kind : {"Token"}, token : STRING],
   binding : [kind : {"Kept"}] \union [kind : {"Own"}, ear : Ears]
               \union [kind : {"Workspace"}, arrival : Nat]]

DraftsAssumption == Drafts \subseteq Said

Tabs == 1..MaxTabs
Slots == 1..MaxHeld

Token(secret, owner) == [kind |-> "Token", secret |-> secret, owner |-> owner]
Installed(id)        == [kind |-> "Installation", id |-> id]
Own(ear)             == [kind |-> "Own", ear |-> ear]
Workspace(team)      == [kind |-> "Workspace", team |-> team]

Accesses == [kind : {"Token"}, secret : STRING, owner : STRING \union {None}]
              \union [kind : {"Installation"}, id : Installations]
Bindings == [kind : {"Own"}, ear : Ears] \union [kind : {"Workspace"}, team : Workspaces]
Jobs     == [progress : {"Working", "Idle", "Retired"}, purse : Purses \union {None}]

Unwatched == [status |-> "Unwatched"]
Forgotten == [status |-> "Forgotten"]
NoJob     == [progress |-> "Retired", purse |-> None]

VARIABLES
  state,       (* purses, projects, the platform's App, the channel's app   *)
  begun,       (* tabs out installing the App, and what came back, if any   *)
  wbegun,      (* tabs out installing the channel's app                     *)
  registering, (* registrations of the App whose form was given             *)
  exchanging,  (* registrations whose code is being exchanged               *)
  installs,    (* installations being fetched with the App's key            *)
  exchanges,   (* workspaces' codes being exchanged                         *)
  checking,    (* changes held while what they carry is checked             *)
  accepted,    (* what platforms said an access reaches, and whose it is     *)
  spent,       (* changes kept that named each tab                          *)
  reread,      (* projects kept once other than they were asked about        *)
  asked, tabs, returns, apps  (* how many there have been, bounded          *)

pending == <<registering, exchanging, installs, exchanges>>
counted == <<asked, tabs, returns, apps>>
vars    == <<state, begun, wbegun, pending, checking, accepted, spent, reread, counted>>

----------------------------------------------------------------------------
(* What the state says.                                                     *)

Watched(s) == {p \in Projects : s.projects[p].status = "Watched"}

Unfinished(s) == {p \in Watched(s) : s.projects[p].job.progress # "Retired"}

\* A mistake: a job that is not over is taken to charge what its project offers now.
ChargedByNow(s, purse) ==
  {p \in Watched(s) : s.projects[p].foreman = purse \/ purse \in s.projects[p].kits}

\* Those whose foreman or a kit of theirs charges a purse, or a job of theirs
\* that is not over.
ChargedBy(s, purse) ==
  {p \in Watched(s) : \/ s.projects[p].foreman = purse
                      \/ purse \in s.projects[p].kits
                      \/ p \in Unfinished(s) /\ s.projects[p].job.purse = purse}

ReachingThrough(s, ids) ==
  {p \in Watched(s) : \E id \in ids : s.projects[p].access = Installed(id)}

BoundTo(s, teams) ==
  {p \in Watched(s) : \E team \in teams : s.projects[p].binding = Workspace(team)}

\* A project is consistent with what it names; and the whole is.
ProjectIsWhole(s, p) ==
  LET project == s.projects[p] IN
  /\ project.kits # {}
  /\ project.foreman \in s.purses /\ project.kits \subseteq s.purses
  /\ project.access.kind = "Installation" => project.access.id \in s.app.installations
  /\ project.binding.kind = "Workspace" => project.binding.team \in s.channelApp.workspaces

Check(s) == \A p \in Watched(s) : ProjectIsWhole(s, p)

\* What a project reaches, a token by what it is whoever it is said to be of.
Reach(drafted) ==
  <<IF drafted.access.kind = "Token" THEN drafted.access.secret ELSE drafted.access.id,
    drafted.repository>>

\* What a file says that was written of an instance: its projects are whole, each
\* token is its owner's, and what is not finished is paid for.
Found ==
  [status : {"Watched"}, foreman : Purses, kits : SUBSET Purses, repository : STRING,
   access : Accesses, binding : Bindings, job : Jobs]

StartsAssumption ==
  \A s \in Starts :
    /\ s \in [purses : SUBSET Purses, projects : [Projects -> {Unwatched} \union Found],
              app : [key : {0, 1}, installations : SUBSET Installations],
              channelApp : [client : Clients \union {None}, ear : Ears \union {None},
                            workspaces : SUBSET Workspaces]]
    /\ s.app.key = 0 => s.app.installations = {}
    /\ s.channelApp.client = None => s.channelApp.workspaces = {}
    /\ Check(s)
    /\ \A p \in Unfinished(s) : s.projects[p].job.purse \in s.purses
    /\ \A p \in Watched(s) : LET access == s.projects[p].access IN
         access.kind = "Token" => access.owner = access.secret /\ access.owner # None

----------------------------------------------------------------------------
(* What a draft comes to, for a project held or for a new one: nothing when  *)
(* it is refused.                                                           *)

Arrived(tabsBegun, tab) ==
  {t.brought : t \in {t \in tabsBegun : t.tab = tab /\ t.brought # None}}

AccessOf(said, held) ==
  IF said.kind = "App"
  THEN IF said.arrival = Unsaid
       THEN {p.access : p \in {p \in held : p.access.kind = "Installation"}}
       ELSE {Installed(id) : id \in Arrived(begun, said.arrival)}
  ELSE IF said.token = None
       THEN {p.access : p \in {p \in held : p.access.kind = "Token"}}
       ELSE {Token(said.token, None)}

BindingOf(said, held) ==
  CASE said.kind = "Kept"      -> {p.binding : p \in held}
    [] said.kind = "Own"       -> {Own(said.ear)}
    [] said.kind = "Workspace" -> IF said.arrival = Unsaid
                                  THEN {p.binding : p \in {p \in held : p.binding.kind = "Workspace"}}
                                  ELSE {Workspace(t) : t \in Arrived(wbegun, said.arrival)}

\* Held is the project as a set: none for one that does not exist yet.
Drafted(draft, held) ==
  {[foreman |-> draft.foreman, kits |-> draft.kits, repository |-> draft.repository,
    access |-> access, binding |-> binding] :
     access \in AccessOf(draft.access, held), binding \in BindingOf(draft.binding, held)}

AccessChanged(drafted, held) == \A p \in held : p.access # drafted.access

ReachChanged(drafted, held) ==
  \A p \in held : p.access # drafted.access \/ p.repository # drafted.repository

ChannelsChanged(drafted, held) == \A p \in held : p.binding # drafted.binding

\* The project a request is about, as a set.
HeldBy(request) ==
  IF request.op = "Amend" /\ request.project \in Watched(state)
  THEN {state.projects[request.project]}
  ELSE {}

\* What is asked of the platforms before a request is kept.
ChecksOf(drafted, held) ==
  (IF ~ReachChanged(drafted, held) THEN {}
   ELSE IF drafted.access.kind = "Token" THEN {"Token", "Owner"} ELSE {"Covered"})
  \union
  (IF ChannelsChanged(drafted, held) /\ drafted.binding.kind = "Own"
   THEN {"Speaking", "Listening"} ELSE {})

\* Refused before any platform is asked: an installation the App no longer
\* holds, and an app of a project's own that is the instance's.
Askable(drafted, held) ==
  /\ ReachChanged(drafted, held) /\ drafted.access.kind = "Installation"
       => drafted.access.id \in state.app.installations
  /\ ChannelsChanged(drafted, held) /\ drafted.binding.kind = "Own"
       => drafted.binding.ear # state.channelApp.ear

----------------------------------------------------------------------------
(* A request kept, asked of a copy: the copies that are whole, none when it  *)
(* is refused.                                                              *)

\* An access with what a check learned of its token, where one did.
ToldOf(access, learned) ==
  IF access.kind = "Token" /\ learned # None THEN Token(access.secret, learned) ELSE access

Project(drafted, learned, job) ==
  [status |-> "Watched", foreman |-> drafted.foreman, kits |-> drafted.kits,
   repository |-> drafted.repository, access |-> ToldOf(drafted.access, learned),
   binding |-> drafted.binding, job |-> job]

WithProject(p, project) == [state EXCEPT !.projects[p] = project]

Created(request, learned) ==
  {WithProject(p, Project(d, learned, NoJob)) :
     d \in Drafted(request.draft, {}),
     p \in {p \in Projects : state.projects[p] = Unwatched}}

Amended(request, learned) ==
  {WithProject(request.project, Project(d, learned, state.projects[request.project].job)) :
     d \in {d \in Drafted(request.draft, HeldBy(request)) : HeldBy(request) # {}}}

\* The workspaces stay when the app is the same one.
ChannelAppRegistered(request) ==
  [state EXCEPT !.channelApp =
    [client |-> request.client, ear |-> request.ear,
     workspaces |-> IF state.channelApp.client = request.client
                    THEN state.channelApp.workspaces ELSE {}]]

\* A mistake: what was drafted is not looked at again when it is kept.
TakenAsDrafted(request, learned) ==
  CASE request.op = "Create"    -> Created(request, learned)
    [] request.op = "Amend"     -> Amended(request, learned)
    [] request.op = "HoldPurse" -> {[state EXCEPT !.purses = @ \union {request.purse}]}
    [] request.op = "RegisterChannelApp" -> {ChannelAppRegistered(request)}

Candidates(request, learned) ==
  CASE request.op = "Create"    -> {c \in Created(request, learned) : Check(c)}
    [] request.op = "Amend"     -> {c \in Amended(request, learned) : Check(c)}
    [] request.op = "HoldPurse" -> {[state EXCEPT !.purses = @ \union {request.purse}]}
    [] request.op = "RegisterChannelApp" -> {ChannelAppRegistered(request)}

\* The tabs a draft names.
AccessTabs(request) ==
  IF "draft" \in DOMAIN request /\ request.draft.access.kind = "App"
  THEN {request.draft.access.arrival} \ {Unsaid} ELSE {}

BindingTabs(request) ==
  IF "draft" \in DOMAIN request /\ request.draft.binding.kind = "Workspace"
  THEN {request.draft.binding.arrival} \ {Unsaid} ELSE {}

Named(request) == AccessTabs(request) \union BindingTabs(request)

Spend(tabsBegun, named) == {t \in tabsBegun : t.tab \notin named}

\* The projects a request kept gives another reach than what was asked about: read
\* again, it came to something else.
Otherwise(candidate, drafted) ==
  {p \in Watched(candidate) :
     /\ candidate.projects[p] # state.projects[p]
     /\ \A d \in drafted : Reach(d) # Reach(candidate.projects[p])}

Respond(request, drafted, learned) ==
  LET candidates == Candidates(request, learned) IN
  \/ /\ candidates = {}
     /\ UNCHANGED <<state, begun, wbegun, spent, reread>>
  \/ \E candidate \in candidates :
       /\ state' = candidate
       /\ begun' = Spend(begun, AccessTabs(request))
       /\ wbegun' = Spend(wbegun, BindingTabs(request))
       /\ spent' = [t \in Tabs |-> IF t \in Named(request) THEN spent[t] + 1 ELSE spent[t]]
       /\ reread' = reread \union Otherwise(candidate, drafted)

----------------------------------------------------------------------------
(* Requests held while what they carry is checked.                          *)

NoRequest == [op |-> "None"]

Requests ==
  [op : {"Create"}, draft : Drafts]
    \union [op : {"Amend"}, project : Projects, draft : Drafts]
    \union [op : {"HoldPurse"}, purse : Purses]
    \union [op : {"RegisterChannelApp"}, client : Clients, ear : Ears]

\* What a request is held for: each reading of it with the checks it needs.
\* Nothing when it is refused before anything is asked.
HeldFor(request) ==
  CASE request.op \in {"Create", "Amend"} ->
         LET held == HeldBy(request) IN
         {[request |-> request, drafted |-> {d}, outstanding |-> ChecksOf(d, held),
           refused |-> FALSE, learned |-> None] :
            d \in {d \in Drafted(request.draft, held) :
                     /\ Askable(d, held)
                     /\ request.op = "Amend" => held # {}}}
    [] request.op = "HoldPurse" ->
         {[request |-> request, drafted |-> {}, outstanding |-> {"Purse"},
           refused |-> FALSE, learned |-> None]}
    [] request.op = "RegisterChannelApp" ->
         {[request |-> request, drafted |-> {}, outstanding |-> {"Listening"},
           refused |-> FALSE, learned |-> None]}

HeldSlots == {i \in Slots : checking[i].request.op # "None"}

NotHeld == [request |-> NoRequest, drafted |-> {}, outstanding |-> {},
            refused |-> FALSE, learned |-> None]

FreeSlot == CHOOSE i \in Slots : i \notin HeldSlots

\* People may be made to leave the apps in use alone.
HeldOf(op) == {checking[i].request : i \in {i \in HeldSlots : checking[i].request.op = op}}

Clear(request) ==
  /\ ~Replaces /\ request.op = "RegisterChannelApp" =>
       /\ state.channelApp.client \in {None, request.client}
       /\ HeldOf("RegisterChannelApp") = {}

Requested(request) ==
  /\ Clear(request)
  /\ \E held \in HeldFor(request) :
       IF held.outstanding = {}
       THEN /\ Respond(request, held.drafted, None)
            /\ UNCHANGED <<checking, asked>>
       ELSE /\ asked < MaxAsked /\ HeldSlots # Slots
            /\ checking' = [checking EXCEPT ![FreeSlot] = held]
            /\ asked' = asked + 1
            /\ UNCHANGED <<state, begun, wbegun, spent, reread>>
  /\ UNCHANGED <<pending, accepted, tabs, returns, apps>>

\* A platform answered one check: what it accepts is remembered here, and the
\* request is answered with the last.
Checked(i, check, accepts) ==
  LET held == checking[i]
      now  == [held EXCEPT !.outstanding = @ \ {check}, !.refused = @ \/ ~accepts,
                           !.learned = IF check = "Owner" /\ accepts
                                       THEN (CHOOSE d \in held.drafted : TRUE).access.secret
                                       ELSE @]
  IN
  /\ check \in held.outstanding
  /\ accepted' = IF check \in {"Token", "Covered"} /\ accepts
                 THEN accepted \union {Reach(d) : d \in held.drafted} ELSE accepted
  /\ IF now.outstanding # {}
     THEN /\ checking' = [checking EXCEPT ![i] = now]
          /\ UNCHANGED <<state, begun, wbegun, spent, reread>>
     ELSE /\ checking' = [checking EXCEPT ![i] = NotHeld]
          /\ IF now.refused
             THEN UNCHANGED <<state, begun, wbegun, spent, reread>>
             ELSE Respond(held.request, held.drafted, now.learned)
  /\ UNCHANGED <<pending, counted>>

----------------------------------------------------------------------------
(* What is forgotten, and refused while something names it.                  *)

Keep(s) == state' = s /\ UNCHANGED <<pending, checking, accepted, spent, reread, counted>>

ForgetPurse(purse) ==
  /\ ChargedBy(state, purse) = {}
  /\ Keep([state EXCEPT !.purses = @ \ {purse}])
  /\ UNCHANGED <<begun, wbegun>>

Forget(p) ==
  /\ p \in Watched(state)
  /\ state.projects[p].job.progress # "Working"
  /\ Keep(WithProject(p, Forgotten))
  /\ UNCHANGED <<begun, wbegun>>

ForgetApp ==
  /\ state.app.key # 0
  /\ ReachingThrough(state, Installations) = {}
  /\ Keep([state EXCEPT !.app = [key |-> 0, installations |-> {}]])
  /\ begun' = {}
  /\ UNCHANGED wbegun

ForgetInstallation(id) ==
  /\ id \in state.app.installations
  /\ ReachingThrough(state, {id}) = {}
  /\ Keep([state EXCEPT !.app.installations = @ \ {id}])
  /\ UNCHANGED <<begun, wbegun>>

ForgetChannelApp ==
  /\ state.channelApp.client # None
  /\ BoundTo(state, Workspaces) = {}
  /\ Keep([state EXCEPT !.channelApp = [client |-> None, ear |-> None, workspaces |-> {}]])
  /\ wbegun' = {}
  /\ UNCHANGED begun

ForgetWorkspace(team) ==
  /\ team \in state.channelApp.workspaces
  /\ BoundTo(state, {team}) = {}
  /\ Keep([state EXCEPT !.channelApp.workspaces = @ \ {team}])
  /\ UNCHANGED <<begun, wbegun>>

----------------------------------------------------------------------------
(* Jobs, which keep the purse of the kit they were started on.               *)

JobMoves(p, from, progress) ==
  /\ p \in Watched(state)
  /\ state.projects[p].job.progress \in from
  /\ Keep([state EXCEPT !.projects[p].job.progress = progress])
  /\ UNCHANGED <<begun, wbegun>>

Start(p, purse) ==
  /\ p \in Watched(state)
  /\ purse \in state.projects[p].kits
  /\ state.projects[p].job.progress = "Retired"
  /\ Keep([state EXCEPT !.projects[p].job = [progress |-> "Working", purse |-> purse]])
  /\ UNCHANGED <<begun, wbegun>>

TurnEnds(p)   == JobMoves(p, {"Working"}, "Idle")
Reply(p)      == JobMoves(p, {"Idle"}, "Working")
Retire(p)     == JobMoves(p, {"Idle"}, "Retired")

----------------------------------------------------------------------------
(* Registering the App: a form given, the browser back with a code, and the  *)
(* code exchanged.                                                          *)

Register ==
  /\ apps < MaxApps
  /\ Replaces \/ (state.app.key = 0 /\ registering + exchanging = 0)
  /\ registering' = IF registering = Remembered THEN registering ELSE registering + 1
  /\ apps' = apps + 1
  /\ UNCHANGED <<state, begun, wbegun, exchanging, installs, exchanges, checking,
                 accepted, spent, reread, asked, tabs, returns>>

CameBack ==
  /\ registering > 0
  /\ registering' = registering - 1
  /\ exchanging' = exchanging + 1
  /\ UNCHANGED <<state, begun, wbegun, installs, exchanges, checking, accepted, spent, reread,
                 counted>>

\* Each App the platform makes is another: as many were made, or not asked for any
\* more, as forms were given that are not out.
Minted == 2 + apps - (registering + exchanging)

\* The App is kept installed nowhere, whatever was kept before.
Exchanged(accepts) ==
  /\ exchanging > 0
  /\ exchanging' = exchanging - 1
  /\ state' = IF accepts
              THEN [state EXCEPT !.app = [key |-> Minted, installations |-> {}]]
              ELSE state
  /\ UNCHANGED <<begun, wbegun, registering, installs, exchanges, checking,
                 accepted, spent, reread, counted>>

----------------------------------------------------------------------------
(* Tabs, opened from a form on the platform's page or the channel's, and     *)
(* coming back with where the app was installed: under a state remembered    *)
(* here, one spent or forgotten since, or none, which is Unsaid.             *)

Opened(tabsBegun) ==
  LET more == tabsBegun \union {[tab |-> tabs + 1, brought |-> None]}
      oldest == {t \in more : \A u \in more : t.tab <= u.tab} IN
  IF Cardinality(more) > Remembered THEN more \ oldest ELSE more

OpenTab ==
  /\ tabs < MaxTabs
  /\ tabs' = tabs + 1
  /\ UNCHANGED <<state, pending, checking, accepted, spent, reread, asked, returns, apps>>

InstallLink ==
  /\ OpenTab
  /\ state.app.key # 0
  /\ begun' = Opened(begun)
  /\ UNCHANGED wbegun

WorkspaceLink ==
  /\ OpenTab
  /\ state.channelApp.client # None
  /\ wbegun' = Opened(wbegun)
  /\ UNCHANGED begun

ComesBack(tab) ==
  /\ returns < MaxReturns
  /\ tab \in 0..tabs
  /\ returns' = returns + 1
  /\ UNCHANGED <<state, begun, wbegun, registering, exchanging, checking, accepted, spent, reread,
                 asked, tabs, apps>>

CameBackInstalled(tab, id) ==
  /\ ComesBack(tab)
  /\ state.app.key # 0
  /\ installs' = installs \union {[tab |-> tab, id |-> id, key |-> state.app.key]}
  /\ UNCHANGED exchanges

CameBackWorkspace(tab, team) ==
  /\ ComesBack(tab)
  /\ state.channelApp.client # None
  /\ exchanges' = exchanges \union {[tab |-> tab, team |-> team]}
  /\ UNCHANGED installs

Returned(tabsBegun, tab, brought) ==
  {[tab |-> t.tab, brought |-> IF t.tab = tab THEN brought ELSE t.brought] : t \in tabsBegun}

\* The installation is fetched, and says which App it is of: another's, when
\* the App was registered anew meanwhile, is not kept.
InstalledAnswered(install, accepts) ==
  /\ installs' = installs \ {install}
  /\ IF accepts /\ install.key = state.app.key
     THEN /\ state' = [state EXCEPT !.app.installations = @ \union {install.id}]
          /\ begun' = Returned(begun, install.tab, install.id)
     ELSE UNCHANGED <<state, begun>>
  /\ UNCHANGED <<wbegun, registering, exchanging, exchanges, checking, accepted, spent, reread,
                 counted>>

WorkspaceExchanged(exchange, accepts) ==
  /\ exchanges' = exchanges \ {exchange}
  /\ IF accepts /\ state.channelApp.client # None
     THEN /\ state' = [state EXCEPT !.channelApp.workspaces = @ \union {exchange.team}]
          /\ wbegun' = Returned(wbegun, exchange.tab, exchange.team)
     ELSE UNCHANGED <<state, wbegun>>
  /\ UNCHANGED <<begun, registering, exchanging, installs, checking, accepted, spent, reread,
                 counted>>

----------------------------------------------------------------------------
Init ==
  /\ state \in Starts
  /\ begun = {} /\ wbegun = {}
  /\ registering = 0 /\ exchanging = 0
  /\ installs = {} /\ exchanges = {}
  /\ checking = [i \in Slots |-> NotHeld]
  /\ accepted = {Reach(state.projects[p]) : p \in Watched(state)}
  /\ spent = [t \in Tabs |-> 0] /\ reread = {}
  /\ asked = 0 /\ tabs = 0 /\ returns = 0 /\ apps = 0

Asks    == \E request \in Requests : Requested(request)
Answers ==
  \/ \E i \in Slots, accepts \in BOOLEAN : \E check \in checking[i].outstanding :
       Checked(i, check, accepts)
  \/ \E accepts \in BOOLEAN : Exchanged(accepts)
  \/ \E install \in installs, accepts \in BOOLEAN : InstalledAnswered(install, accepts)
  \/ \E exchange \in exchanges, accepts \in BOOLEAN : WorkspaceExchanged(exchange, accepts)
Forgets ==
  \/ \E purse \in Purses : ForgetPurse(purse)
  \/ \E p \in Projects : Forget(p)
  \/ ForgetApp
  \/ \E id \in Installations : ForgetInstallation(id)
  \/ ForgetChannelApp
  \/ \E team \in Workspaces : ForgetWorkspace(team)
Works ==
  \E p \in Projects :
    \/ \E purse \in Purses : Start(p, purse)
    \/ TurnEnds(p) \/ Reply(p) \/ Retire(p)
Installing ==
  \/ Register \/ CameBack
  \/ InstallLink \/ WorkspaceLink
  \/ \E tab \in Tabs \union {Unsaid}, id \in Installations : CameBackInstalled(tab, id)
  \/ \E tab \in Tabs \union {Unsaid}, team \in Workspaces : CameBackWorkspace(tab, team)

Next == Asks \/ Answers \/ Forgets \/ Works \/ Installing

Spec == Init /\ [][Next]_vars

----------------------------------------------------------------------------
\* The state has its type.
TypeOK ==
  /\ state.purses \subseteq Purses
  /\ \A p \in Watched(state) : LET project == state.projects[p] IN
       /\ project.foreman \in Purses /\ project.kits \subseteq Purses
       /\ project.access.kind \in {"Token", "Installation"}
       /\ project.binding \in Bindings
       /\ project.job \in Jobs
  /\ state.app.installations \subseteq Installations
  /\ state.channelApp.workspaces \subseteq Workspaces
  /\ \A i \in Slots : checking[i].request.op # "None" => checking[i].outstanding # {}
  /\ Cardinality(begun) <= Remembered /\ Cardinality(wbegun) <= Remembered

\* What a step leaves can be written and opened again: every purse, every
\* installation and every workspace a project names is held (State::check,
\* asserted after every step and asked before every write).
Consistent == Check(state)

\* The purse of a job that is not over is held, whatever its project offers by
\* now: no check of the state looks at jobs, only forgetting a purse does
\* (State::charged_by).
WorkIsPaidFor ==
  \A p \in Unfinished(state) : state.projects[p].job.purse \in state.purses

\* What a project reaches its repository with, the platform accepted for that
\* repository, and a token is recorded as its owner's, although a change is read to
\* be checked and read again to be kept, with others kept in between: unless it came
\* to something else by then, which the code does not look at (checks.rs, checked;
\* requests.rs, amend). Even so a token has been accepted for some repository.
ReachWasChecked ==
  /\ \A p \in Watched(state) \ reread :
       /\ Reach(state.projects[p]) \in accepted
       /\ state.projects[p].access.kind = "Token" =>
            state.projects[p].access.owner = state.projects[p].access.secret
  /\ \A p \in Watched(state) : state.projects[p].access.kind = "Token" =>
       \E reach \in accepted : reach[1] = state.projects[p].access.secret

\* What a tab came back with goes to one project: a second change naming it,
\* held while the first was kept, is refused.
ArrivalsSpentOnce == \A t \in Tabs : spent[t] <= 1
============================================================================
