------------------------------- MODULE Record -------------------------------
(***************************************************************************)
(* What an instance keeps, how it is sealed for the file and opened from   *)
(* it again -- by this release or from what the last one wrote -- and what *)
(* of it is handed to the processes it runs: a container's environment     *)
(* when it is made, and a purse when an agent is run in it.                *)
(*                                                                         *)
(* A credential is a name for one; the project is one project; a kit is    *)
(* the purse it charges. A file's credentials are all sealed under one     *)
(* key, so the file carries the key and not each credential. What a model  *)
(* is set to, what rooms there are and what a job was told in words is     *)
(* left out: it goes into the file in the clear and comes back the same.   *)
(***************************************************************************)
EXTENDS Naturals, FiniteSets

CONSTANTS
  Keys,         \* the keys a file can be sealed under or opened with
  Oats,         \* credentials whose first characters say a subscription
  Apis,         \* and the others
  Jobs,         \* names of jobs
  Variables,    \* what an operator calls the project's variables
  MaxChanges,   \* changes asked of the instance in one behaviour
  MaxStarts,    \* starts of the instance
  MaxRuns,      \* times an agent is run
  Edited        \* whether somebody alters the file by hand while it is down

RecordAssumption == /\ Oats \cap Apis = {} /\ Keys # {}
                    /\ {MaxChanges, MaxStarts, MaxRuns} \subseteq Nat
                    /\ Edited \in BOOLEAN

Credentials == Oats \cup Apis
PurseNames == {"key", "subscription"}

\* What a credential is shaped like, which is the purse the last release
\* delivered it as.
ShapedLike(c) == IF c \in Oats THEN "subscription" ELSE "key"

\* The variable an agent reads each purse from, and all that is reserved.
PurseVariable(p) == IF p = "key" THEN "API_KEY" ELSE "OAUTH_TOKEN"
PurseVariables == {PurseVariable(p) : p \in PurseNames}
reserved == PurseVariables \cup {"GH_TOKEN", "WARRANT"}

None == "none"

\* A table with one more entry, or another in its place.
With(table, k, x) == [i \in DOMAIN table \cup {k} |-> IF i = k THEN x ELSE table[i]]

-----------------------------------------------------------------------------
(* State.                                                                  *)

VARIABLES
  up,         \* whether the instance runs
  state,      \* what it holds
  file,       \* what is on the disk
  written,    \* history: the state this release last sealed into the file, if any
  containers, \* what each container's environment holds, of those there are
  running,    \* the agents being run: who pays, and what the process sees
  changes, starts, runs

vars == <<up, state, file, written, containers, running, changes, starts, runs>>

Speakers == Jobs \cup {"foreman"}
NoPurses == [p \in {} |-> None]
NoJobs == [j \in {} |-> None]
Jobless == [here |-> TRUE, foreman |-> "key", kits |-> {"key"}, access |-> "token",
            binding |-> "own", variables |-> {},
            jobs |-> NoJobs]
NoProject == [Jobless EXCEPT !.here = FALSE, !.access = None, !.binding = None]
Empty == [purses |-> NoPurses, project |-> NoProject, installed |-> FALSE,
          joined |-> FALSE, password |-> FALSE]

HasProject(s) == s.project.here
Warrant(j) == j

\* What a purse not forgotten would leave without a payer.
ChargedBy(s, p) ==
  IF ~HasProject(s) THEN {}
  ELSE (IF s.project.foreman = p THEN {"foreman"} ELSE {})
       \cup (IF p \in s.project.kits THEN {"kit"} ELSE {})
       \cup {j \in DOMAIN s.project.jobs :
                 ~s.project.jobs[j].over /\ s.project.jobs[j].kit = p}

Inconsistent(s) ==
  IF ~HasProject(s) THEN {}
  ELSE (IF s.project.kits = {} THEN {"NoKits"} ELSE {})
       \cup (IF {s.project.foreman} \cup s.project.kits \subseteq DOMAIN s.purses
             THEN {} ELSE {"PurseNotHeld"})
       \cup (IF s.project.access = "installation" /\ ~s.installed
             THEN {"UnknownInstallation"} ELSE {})
       \cup (IF s.project.binding = "workspace" /\ ~s.joined
             THEN {"UnknownWorkspace"} ELSE {})

-----------------------------------------------------------------------------
(* The file. `under` is the key its credentials are sealed with; `spoilt`  *)
(* says one of them was altered. What this release writes names a purse on *)
(* every kit and holds no agent's credential; what the last one wrote held *)
(* one credential under the agent's name, and kits that name no purse, a   *)
(* token without an owner, variables without notes, jobs without warrants. *)

Written(s, k) ==
  [under |-> k, spoilt |-> FALSE, agent |-> None,
   purses |-> {<<p, s.purses[p]>> : p \in DOMAIN s.purses}, repeated |-> FALSE,
   project |-> s.project, listens |-> TRUE,
   installed |-> s.installed, joined |-> s.joined, password |-> s.password]

\* A kit as it is written: its purse, or none in the last release's file.
Older(c, listens, job) ==
  [under |-> CHOOSE k \in Keys : TRUE, spoilt |-> FALSE, agent |-> c,
   purses |-> {}, repeated |-> FALSE,
   project |-> [Jobless EXCEPT
     !.foreman = None, !.kits = {None}, !.variables = Variables \ reserved,
     !.jobs = IF job = None THEN NoJobs
              ELSE With(NoJobs, job, [kit |-> None, over |-> FALSE, warrant |-> None,
                                   told |-> {}])],
   listens |-> listens, installed |-> FALSE, joined |-> FALSE, password |-> FALSE]

\* How many credentials a file holds: with none, nothing says whose key it is.
Holds(f) == \/ f.purses # {} \/ f.agent # None \/ f.password \/ f.installed \/ f.joined
            \/ /\ HasProject(f)
               /\ \/ f.project.access = "token" \/ f.project.binding = "own"
                  \/ f.project.variables # {}
                  \/ \E j \in DOMAIN f.project.jobs : f.project.jobs[j].warrant # None

\* The purse the last release's one credential becomes, where no purse is
\* written.
Bridged(f) == IF f.purses = {} /\ f.agent # None THEN ShapedLike(f.agent) ELSE None

ReadKit(k, bridged) == IF k = None THEN bridged ELSE k

OpenedPurses(f) ==
  LET held == [p \in {q[1] : q \in f.purses} |-> (CHOOSE q \in f.purses : q[1] = p)[2]]
  IN  IF Bridged(f) = None THEN held ELSE With(held, Bridged(f), f.agent)

OpenedJob(j, bridged) == [j EXCEPT !.kit = ReadKit(@, bridged)]

OpenedProject(f) ==
  IF ~HasProject(f) THEN NoProject
  ELSE [f.project EXCEPT
          !.foreman = ReadKit(@, Bridged(f)),
          !.kits = {ReadKit(k, Bridged(f)) : k \in @},
          \* A binding without the credential that listens is no binding.
          !.binding = IF @ = "own" /\ ~f.listens THEN None ELSE @,
          !.jobs = [j \in DOMAIN @ |-> OpenedJob(@[j], Bridged(f))]]

KitsWritten(f) == IF ~HasProject(f) THEN {}
                  ELSE {f.project.foreman} \cup f.project.kits
                       \cup {f.project.jobs[j].kit : j \in DOMAIN f.project.jobs}

StateOf(f) == [purses |-> OpenedPurses(f), project |-> OpenedProject(f),
               installed |-> f.installed, joined |-> f.joined, password |-> f.password]

\* Why a file is refused, with the key it is opened with.
OpenErrors(f, k) ==
  (IF Holds(f) /\ (f.under # k \/ f.spoilt) THEN {"Cipher"} ELSE {})
  \cup (IF f.repeated THEN {"PurseRepeated"} ELSE {})
  \cup (IF None \in KitsWritten(f) /\ Bridged(f) = None THEN {"KitWithoutPurse"} ELSE {})
  \cup Inconsistent(StateOf(f))

-----------------------------------------------------------------------------
(* What is handed out.                                                     *)

\* A job's container, when it is made: its warrant, and the project's own
\* variables. A foreman's holds nothing.
Rendered(s, who) ==
  IF who = "foreman" THEN [v \in {} |-> None]
  ELSE [v \in {"WARRANT"} \cup s.project.variables |->
          IF v = "WARRANT" THEN s.project.jobs[who].warrant ELSE "value"]

\* A hand-edited file can hold a name this project delivers itself.
RenderFails(s, who) == who # "foreman" /\ s.project.variables \cap reserved # {}

KitOf(s, who) == IF who = "foreman" THEN s.project.foreman ELSE s.project.jobs[who].kit

\* What is cleared for the agent's process: every purse but its own.
Cleared(p) == PurseVariables \ {PurseVariable(p)}

\* What a process sees: the container's environment, what is forwarded into
\* it, and none of what is cleared.
AgentRun(s, who) ==
  LET p == KitOf(s, who)
      seen == With(containers[who], PurseVariable(p), s.purses[p])
  IN  [paying |-> p, held |-> s.purses[p],
       sees |-> [v \in DOMAIN seen \ Cleared(p) |-> seen[v]]]

\* Which of what it sees an agent authenticates with: a key, when it finds
\* one.
AuthenticatesWith(sees) ==
  IF "API_KEY" \in DOMAIN sees THEN sees["API_KEY"]
  ELSE IF "OAUTH_TOKEN" \in DOMAIN sees THEN sees["OAUTH_TOKEN"] ELSE None

-----------------------------------------------------------------------------
(* Init: a new instance, one in use, or one upgraded, whose containers     *)
(* were made with the credential in them.                                  *)

OlderContainer(c) ==
  [v \in {"GH_TOKEN", PurseVariable(ShapedLike(c))} |-> IF v = "GH_TOKEN" THEN "token" ELSE c]

InUse(c) == [Empty EXCEPT !.purses = With(@, ShapedLike(c), c),
                          !.project = [Jobless EXCEPT !.foreman = ShapedLike(c),
                                                      !.kits = {ShapedLike(c)}]]

Init ==
  /\ up = FALSE /\ state = Empty /\ written = {}
  /\ running = [w \in {} |-> None]
  /\ changes = 0 /\ starts = 0 /\ runs = 0
  /\ \/ /\ file = Written(Empty, CHOOSE k \in Keys : TRUE)
        /\ containers = [w \in {} |-> None]
     \/ \E c \in Credentials :
          /\ file = Written(InUse(c), CHOOSE k \in Keys : TRUE)
          /\ containers = [w \in {"foreman"} |-> Rendered(InUse(c), w)]
     \/ \E c \in Credentials, listens \in BOOLEAN, job \in Jobs \cup {None} :
          /\ file = Older(c, listens, job)
          /\ containers = [w \in {"foreman", job} \ {None} |-> OlderContainer(c)]

-----------------------------------------------------------------------------
(* The instance.                                                           *)

Changed(s) == /\ up /\ changes < MaxChanges
              /\ state' = s /\ changes' = changes + 1
              /\ UNCHANGED <<up, file, written, containers, running, starts, runs>>

HoldPurse(p, c) == /\ ShapedLike(c) = p
                   /\ Changed([state EXCEPT !.purses = With(@, p, c)])

ForgetPurse(p) == /\ p \in DOMAIN state.purses
                  /\ ChargedBy(state, p) = {}
                  /\ Changed([state EXCEPT
                       !.purses = [q \in DOMAIN @ \ {p} |-> @[q]]])

\* A draft kept: a candidate is checked, and becomes the state.
Kept(s) == Inconsistent(s) = {} /\ Changed(s)

Create(f, access, binding) ==
  /\ ~HasProject(state)
  /\ Kept([state EXCEPT !.project = [Jobless EXCEPT
       !.foreman = f, !.kits = {f}, !.access = access, !.binding = binding]])

Amend(f, kits, access) ==
  /\ HasProject(state)
  /\ Kept([state EXCEPT !.project.foreman = f, !.project.kits = kits,
                        !.project.access = access])

SetVariable(v) == /\ HasProject(state) /\ v \notin reserved
                  /\ Changed([state EXCEPT !.project.variables = @ \cup {v}])

DropVariable(v) == /\ HasProject(state) /\ v \in state.project.variables
                   /\ Changed([state EXCEPT !.project.variables = @ \ {v}])

\* An app of the instance's own, with an installation, or a workspace.
Arrives == \/ ~state.installed /\ Changed([state EXCEPT !.installed = TRUE])
           \/ ~state.joined /\ Changed([state EXCEPT !.joined = TRUE])

SetPassword == ~state.password /\ Changed([state EXCEPT !.password = TRUE])

\* A job is begun on one of the project's kits, its warrant minted with it,
\* told of the variables there are.
Begin(j, k) ==
  /\ HasProject(state) /\ j \notin DOMAIN state.project.jobs
  /\ k \in state.project.kits /\ state.project.binding # None
  /\ Changed([state EXCEPT !.project.jobs =
       With(@, j, [kit |-> k, over |-> FALSE, warrant |-> Warrant(j),
                   told |-> state.project.variables])])

Retire(j) ==
  /\ HasProject(state) /\ j \in DOMAIN state.project.jobs
  /\ ~state.project.jobs[j].over /\ j \notin DOMAIN running
  /\ Changed([state EXCEPT !.project.jobs[j].over = TRUE])

\* A state that would not open again is not written.
Write == /\ up /\ Inconsistent(state) = {}
         /\ file' = Written(state, file.under) /\ written' = {state}
         /\ UNCHANGED <<up, state, containers, running, changes, starts, runs>>

\* Whether what a turn rests on is on the disk.
OnDisk(who) == \/ who = "foreman"
               \/ /\ HasProject(file)
                  /\ who \in DOMAIN file.project.jobs

\* A turn's first commands go out once its record is on the disk.
MayBeMade(who) == OnDisk(who)

Make(who) ==
  /\ up /\ HasProject(state) /\ who \notin DOMAIN containers
  /\ who # "foreman" => /\ who \in DOMAIN state.project.jobs
                        /\ ~state.project.jobs[who].over
                        /\ state.project.jobs[who].warrant # None
  /\ MayBeMade(who) /\ ~RenderFails(state, who)
  /\ containers' = With(containers, who, Rendered(state, who))
  /\ UNCHANGED <<up, state, file, written, running, changes, starts, runs>>

\* An agent is run in a container that is up, with the purse held now; a
\* purse not held ends the turn.
Run(who) ==
  /\ up /\ HasProject(state) /\ runs < MaxRuns
  /\ who \in DOMAIN containers \ DOMAIN running
  /\ who # "foreman" => /\ who \in DOMAIN state.project.jobs
                        /\ ~state.project.jobs[who].over
  /\ KitOf(state, who) \in DOMAIN state.purses
  /\ running' = With(running, who, AgentRun(state, who))
  /\ runs' = runs + 1
  /\ UNCHANGED <<up, state, file, written, containers, changes, starts>>

Ends(who) == /\ who \in DOMAIN running
             /\ running' = [w \in DOMAIN running \ {who} |-> running[w]]
             /\ UNCHANGED <<up, state, file, written, containers, changes, starts, runs>>

\* A retired job's container goes once the verdict is on the disk.
Discard(j) ==
  /\ up /\ j \in DOMAIN containers /\ HasProject(file)
  /\ j \in DOMAIN file.project.jobs /\ file.project.jobs[j].over
  /\ containers' = [w \in DOMAIN containers \ {j} |-> containers[w]]
  /\ UNCHANGED <<up, state, file, written, running, changes, starts, runs>>

-----------------------------------------------------------------------------
(* Stopping, and starting from the file.                                   *)

Die == /\ up /\ up' = FALSE
       /\ running' = [w \in {} |-> None]
       /\ UNCHANGED <<state, file, written, containers, changes, starts, runs>>

Start(k) ==
  /\ ~up /\ starts < MaxStarts
  /\ starts' = starts + 1
  /\ \/ /\ OpenErrors(file, k) = {}
        /\ up' = TRUE /\ state' = StateOf(file)
        /\ file' = [file EXCEPT !.under = k]
     \/ /\ OpenErrors(file, k) # {}
        /\ UNCHANGED <<up, state, file>>
  /\ UNCHANGED <<written, containers, running, changes, runs>>

\* The file is text: somebody can alter it.
AlterByHand ==
  /\ Edited /\ ~up /\ starts = 1
  /\ \/ Holds(file) /\ ~file.spoilt /\ file' = [file EXCEPT !.spoilt = TRUE]
     \/ file.purses # {} /\ ~file.repeated /\ file' = [file EXCEPT !.repeated = TRUE]
     \/ /\ HasProject(file) /\ written # {}
        /\ \/ file' = [file EXCEPT !.project.kits = {}]
           \/ file' = [file EXCEPT !.purses = {}]
           \/ file' = [file EXCEPT !.project.variables = @ \cup {"GH_TOKEN"}]
  /\ written' = {}
  /\ UNCHANGED <<up, state, containers, running, changes, starts, runs>>

Next ==
  \/ \E p \in PurseNames : ForgetPurse(p) \/ \E c \in Credentials : HoldPurse(p, c)
  \/ \E f \in PurseNames, a \in {"token", "installation"} :
       \/ \E b \in {"own", "workspace"} : Create(f, a, b)
       \/ \E kits \in SUBSET PurseNames \ {{}} : Amend(f, kits, a)
  \/ \E v \in Variables : SetVariable(v) \/ DropVariable(v)
  \/ Arrives \/ SetPassword \/ Write
  \/ \E j \in Jobs : Retire(j) \/ Discard(j) \/ \E k \in PurseNames : Begin(j, k)
  \/ \E who \in Speakers : Make(who) \/ Run(who) \/ Ends(who)
  \/ Die \/ \E k \in Keys : Start(k)
  \/ AlterByHand

Spec == Init /\ [][Next]_vars

-----------------------------------------------------------------------------
(* Properties.                                                             *)

TypeOK ==
  /\ up \in BOOLEAN
  /\ DOMAIN state.purses \subseteq PurseNames
  /\ \A p \in DOMAIN state.purses : state.purses[p] \in Credentials
  /\ HasProject(state) => /\ state.project.foreman \in PurseNames
                          /\ state.project.kits \subseteq PurseNames
                          /\ DOMAIN state.project.jobs \subseteq Jobs
  /\ DOMAIN containers \subseteq Speakers
  /\ DOMAIN running \subseteq DOMAIN containers
  /\ changes \in 0..MaxChanges /\ starts \in 0..MaxStarts /\ runs \in 0..MaxRuns

\* What was sealed is what is opened, whole, with the key it was sealed
\* with: and with another, or altered, nothing is. What the last release
\* wrote opens to a project every kit of which charges the one credential it
\* held, under the variable that release delivered it in.
ReadsBackAsWritten ==
  /\ \A s \in written : OpenErrors(file, file.under) = {} /\ StateOf(file) = s
  /\ Holds(file) => \A k \in Keys :
       k # file.under \/ file.spoilt => OpenErrors(file, k) # {}
  /\ file.agent # None /\ OpenErrors(file, file.under) = {} =>
       LET s == StateOf(file) IN
       \A who \in {"foreman"} \cup DOMAIN s.project.jobs :
         /\ PurseVariable(KitOf(s, who)) = PurseVariable(ShapedLike(file.agent))
         /\ s.purses[KitOf(s, who)] = file.agent

\* An agent authenticates with the purse its kit charges, as it was held
\* when the agent was run -- in a container the last release made with
\* another in it, after the kit moved, after the purse was replaced -- and
\* sees no other.
PaidByItsPurse ==
  \A who \in DOMAIN running :
    /\ AuthenticatesWith(running[who].sees) = running[who].held
    /\ DOMAIN running[who].sees \cap PurseVariables = {PurseVariable(running[who].paying)}

\* Whatever was lost with a write or a start in between, a container made by
\* this release for a job that is not over holds the warrant the instance
\* knows that job by, and no other of the names this project delivers; and a
\* container whose job the instance never recorded does not exist.
FetchesItsOwn ==
  up => \A j \in DOMAIN containers \cap Jobs :
    "WARRANT" \in DOMAIN containers[j] =>
      /\ HasProject(state) /\ j \in DOMAIN state.project.jobs
      /\ containers[j]["WARRANT"] = state.project.jobs[j].warrant
      /\ DOMAIN containers[j] \cap reserved = {"WARRANT"}

\* A job's agent holds the variables it was told of when it was begun.
ToldWhatItHolds ==
  up => \A j \in DOMAIN containers \cap Jobs :
    "WARRANT" \in DOMAIN containers[j] =>
      DOMAIN containers[j] \ reserved = state.project.jobs[j].told
=============================================================================
