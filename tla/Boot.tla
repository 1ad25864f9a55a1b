-------------------------------- MODULE Boot --------------------------------
(***************************************************************************)
(* Waking up: a run of the program finds a container runtime, its key, the    *)
(* instance's file, a password and what the last run left behind, one question *)
(* after another, while its two addresses are taken; it is awake once all of    *)
(* it is in, or it exits. A run may be killed at any point, and the next is      *)
(* started with another environment.                                         *)
(***************************************************************************)
EXTENDS Naturals, FiniteSets

CONSTANTS
  Candidates,   (* how many container runtimes are looked for               *)
  Names,        (* names a container may have                               *)
  Given,        (* the environments the program is started with             *)
  MaxRuns,      (* times it is started                                      *)
  MaxWrites     (* changes written by what is awake, in all                 *)

None == "None"
Labels == {"Instance", "Agent"}

BootAssumption ==
  /\ {Candidates, MaxRuns, MaxWrites} \subseteq Nat
  /\ Given # {} /\ \A g \in Given :
       /\ g.key \in {None, "Person", "Unreadable"}
       /\ {g.home, g.absolute, g.told, g.password} \subseteq BOOLEAN

VARIABLES
  environment,   (* what this run was started with                          *)
  phase,         (* where waking has got to                                 *)
  pending,       (* the questions of the phase still out                    *)
  facts,         (* what was found so far                                   *)
  addresses,     (* what the dashboard and the tools listen on              *)
  presenting,    (* whether the server that shows pages has said where       *)
  found,         (* the containers listed, and what their labels say         *)
  disk,          (* keys and instances on the disk, each at its place        *)
  left,          (* containers there are: whose each is                     *)
  runs, writes

state == <<environment, phase, pending, facts, addresses, presenting, found>>
world == <<disk, left>>
vars  == <<state, world, runs, writes>>

Going  == {"Runtime", "Key", "KeyWritten", "File", "Password", "Listing", "Labels"}

----------------------------------------------------------------------------
(* Where things are kept.                                                    *)

\* The instance is where it was said to be, or where the platform keeps such
\* files for whoever's home this is.
DataPlace(g) ==
  IF g.told THEN "Told" ELSE IF g.absolute THEN "Absolute" ELSE "Home"

ConfigurationPlace(g) == IF g.absolute THEN "Absolute" ELSE "Home"

HasKeyFile(g)      == g.home
HasInstanceFile(g) == g.told \/ g.home

Places == {"Told", "Absolute", "Home"}

NoFile == [sealed |-> 0, secrets |-> FALSE, password |-> FALSE, id |-> 0, holds |-> 0]

\* Keys are numbered by the run that made them; a person's is the last.
Person == MaxRuns + 1

\* A slip: a file that cannot be opened is taken for none.
OpensAnyway(file, key) == TRUE

\* What is read with a key: a new instance where there is no file, and
\* nothing where its credentials are sealed with another.
Opens(file, key) == file = NoFile \/ ~file.secrets \/ file.sealed = key

----------------------------------------------------------------------------
(* What each phase asks next.                                                *)

NoFacts == [runtime |-> 0, key |-> 0, opened |-> FALSE, file |-> NoFile,
            password |-> None]

\* A question is of a thing, and to one of several where there are.
In(name, asks) == phase' = name /\ pending' = {name} \X asks

Once == {"Once"}

Refuse == In("Refused", {}) /\ UNCHANGED <<facts, found>>

TryCandidate(candidate) ==
  IF candidate > Candidates
  THEN Refuse
  ELSE In("Runtime", {candidate}) /\ UNCHANGED <<facts, found>>

AskFile(known) == In("File", Once) /\ facts' = known /\ UNCHANGED found

AskKey(known) ==
  CASE environment.key = "Person" -> AskFile([known EXCEPT !.key = Person])
    [] environment.key = "Unreadable" -> Refuse
    [] OTHER -> IF HasKeyFile(environment)
                THEN In("Key", Once) /\ facts' = known /\ UNCHANGED found
                ELSE Refuse

AskListing(known) == In("Listing", {"All", "Up"}) /\ facts' = known /\ UNCHANGED found

AskPasswordOrListing(known) ==
  IF known.file.password \/ ~environment.password
  THEN AskListing([known EXCEPT !.password = IF known.file.password THEN "Kept" ELSE None])
  ELSE In("Password", Once) /\ facts' = known /\ UNCHANGED found

\* Awake once everything is in: addresses, the pages' server, and what the
\* last run left.
MaybeAwake(at, taken, presents) ==
  IF at = "Ready" /\ presents /\ \A a \in DOMAIN taken : taken[a] # "Asked"
  THEN "Awake" ELSE at

----------------------------------------------------------------------------
(* What the world answers.                                                   *)

Rests == UNCHANGED <<environment, addresses, presenting, world, runs, writes>>

\* A runtime answered with its version, answered with a complaint, or is not
\* there.
RuntimeAnswered(candidate) ==
  /\ phase = "Runtime" /\ <<phase, candidate>> \in pending
  /\ \/ AskKey([facts EXCEPT !.runtime = candidate])
     \/ Refuse
     \/ TryCandidate(candidate + 1)
  /\ Rests

KeyPlace == ConfigurationPlace(environment)

\* No key is kept yet: one is made, and nothing is opened with it before it
\* is written.
MakeKey ==
  /\ In("KeyWritten", Once)
  /\ facts' = [facts EXCEPT !.key = runs]
  /\ UNCHANGED found

KeyRead ==
  /\ phase = "Key"
  /\ \/ Refuse
     \/ disk.key[KeyPlace] # 0 /\ AskFile([facts EXCEPT !.key = disk.key[KeyPlace]])
     \/ disk.key[KeyPlace] = 0 /\ MakeKey
  /\ Rests

KeyWritten ==
  /\ phase = "KeyWritten"
  /\ \/ Refuse /\ UNCHANGED disk
     \/ /\ disk' = [disk EXCEPT !.key[KeyPlace] = facts.key]
        /\ AskFile(facts)
  /\ UNCHANGED <<environment, addresses, presenting, left, runs, writes>>

FilePlace == DataPlace(environment)

FileRead ==
  /\ phase = "File"
  /\ \/ Refuse
     \/ /\ Opens(disk.file[FilePlace], facts.key)
        /\ AskPasswordOrListing([facts EXCEPT !.opened = TRUE, !.file = disk.file[FilePlace]])
  /\ Rests

Derived ==
  /\ phase = "Password"
  /\ \/ Refuse
     \/ AskListing([facts EXCEPT !.file.password = TRUE, !.password = "Environment"])
  /\ Rests

\* Both listings are in: what each container's labels say is asked, where
\* there are any.
Listed(which) ==
  /\ phase = "Listing" /\ <<phase, which>> \in pending
  /\ \/ Refuse
     \/ /\ pending # {<<phase, which>>}
        /\ pending' = pending \ {<<phase, which>>}
        /\ UNCHANGED <<phase, facts, found>>
     \/ /\ pending = {<<phase, which>>}
        /\ found' = [name \in {n \in Names : left[n] # 0} |-> [l \in Labels |-> 0]]
        /\ IF DOMAIN found' = {} THEN In(MaybeAwake("Ready", addresses, presenting), {})
                                 ELSE In("Labels", (DOMAIN found') \X Labels)
        /\ UNCHANGED facts
  /\ Rests

\* A label that cannot be read is as one that says nothing.
Labelled(asked) ==
  /\ phase = "Labels" /\ <<phase, asked>> \in pending
  /\ pending' = pending \ {<<phase, asked>>}
  /\ \E says \in {0, left[asked[1]]} : found' = [found EXCEPT ![asked[1]][asked[2]] = says]
  /\ phase' = IF pending' = {} THEN MaybeAwake("Ready", addresses, presenting) ELSE phase
  /\ UNCHANGED facts
  /\ Rests

\* An address was taken, or not: the dashboard's is refused over, the tools'
\* is done without.
Bound(which) ==
  /\ phase \notin {"Awake", "Off"} /\ addresses[which] = "Asked"
  /\ \E outcome \in {"Taken", "Failed"} :
       IF which = "Dashboard" /\ outcome = "Failed"
       THEN Refuse /\ UNCHANGED addresses
       ELSE /\ addresses' = [addresses EXCEPT ![which] = outcome]
            /\ phase' = MaybeAwake(phase, addresses', presenting)
            /\ UNCHANGED <<pending, facts, found>>
  /\ UNCHANGED <<environment, presenting, world, runs, writes>>

Presenting ==
  /\ phase \notin {"Awake", "Off"} /\ ~presenting
  /\ presenting' = TRUE
  /\ phase' = MaybeAwake(phase, addresses, TRUE)
  /\ UNCHANGED <<environment, pending, facts, addresses, found, world, runs, writes>>

----------------------------------------------------------------------------
(* What it does once awake, and how a run ends.                              *)

\* The instance is named what its file names it, and given a name otherwise.
Id == IF facts.file.id # 0 THEN facts.file.id ELSE runs

\* A change is written, sealed with the key; and a container is made for the
\* instance once its record is on the disk.
Writes ==
  /\ phase = "Awake" /\ writes < MaxWrites
  /\ \E secrets \in BOOLEAN :
       facts' = [facts EXCEPT !.file.sealed = facts.key, !.file.secrets = secrets,
                              !.file.id = Id, !.file.holds = @ + 1]
  /\ disk' = [disk EXCEPT !.file[FilePlace] = facts'.file]
  /\ writes' = writes + 1
  /\ UNCHANGED <<environment, phase, pending, addresses, presenting, found, left, runs>>

Provisions(name) ==
  /\ phase = "Awake" /\ facts.file.holds > 0 /\ left[name] = 0
  /\ left' = [left EXCEPT ![name] = Id]
  /\ UNCHANGED <<state, disk, runs, writes>>

\* The program is started: an address it cannot keep anything at is an exit.
Start ==
  /\ phase \in {"Off", "Refused"} /\ runs < MaxRuns
  /\ runs' = runs + 1
  /\ environment' \in Given
  /\ facts' = NoFacts /\ presenting' = FALSE /\ found' = [n \in {} |-> 0]
  /\ IF HasInstanceFile(environment')
     THEN /\ addresses' = [a \in {"Dashboard", "Tools"} |-> "Asked"]
          /\ IF Candidates = 0 THEN In("Refused", {}) ELSE In("Runtime", {1})
     ELSE addresses' = [a \in {"Dashboard", "Tools"} |-> "Taken"] /\ In("Refused", {})
  /\ UNCHANGED <<world, writes>>

\* The program is killed; a key on its way to the disk may be there.
Killed ==
  /\ phase # "Off"
  /\ In("Off", {})
  /\ \/ UNCHANGED disk
     \/ /\ phase = "KeyWritten"
        /\ disk' = [disk EXCEPT !.key[KeyPlace] = facts.key]
  /\ UNCHANGED <<environment, facts, addresses, presenting, found, left, runs, writes>>

Init ==
  /\ phase = "Off" /\ pending = {} /\ facts = NoFacts
  /\ environment = CHOOSE g \in Given : TRUE
  /\ addresses = [a \in {"Dashboard", "Tools"} |-> "Asked"] /\ presenting = FALSE
  /\ found = [n \in {} |-> 0]
  /\ disk = [key |-> [p \in Places |-> 0], file |-> [p \in Places |-> NoFile]]
  /\ left = [n \in Names |-> 0]
  /\ runs = 0 /\ writes = 0

Answers ==
  \/ \E c \in 1..Candidates : RuntimeAnswered(c)
  \/ KeyRead \/ KeyWritten \/ FileRead \/ Derived
  \/ \E which \in {"All", "Up"} : Listed(which)
  \/ \E asked \in Names \X Labels : Labelled(asked)

Next ==
  \/ Answers
  \/ \E which \in {"Dashboard", "Tools"} : Bound(which)
  \/ Presenting
  \/ Writes \/ \E name \in Names : Provisions(name)
  \/ Start \/ Killed

Spec == Init /\ [][Next]_vars

\* The world answers what it is asked, and the pages' server says where it is.
Fairness ==
  /\ WF_vars(Answers)
  /\ \A which \in {"Dashboard", "Tools"} : WF_vars(Bound(which))
  /\ WF_vars(Presenting)

FairSpec == Spec /\ Fairness

----------------------------------------------------------------------------
\* Every phase that asks has a question out, and what is found has its type.
TypeOK ==
  /\ phase \in Going \union {"Ready", "Awake", "Refused", "Off"}
  /\ (phase \in Going) <=> pending # {}
  /\ phase \in {"Ready", "Awake"} => facts.runtime # 0 /\ facts.key # 0 /\ facts.opened
  /\ \A n \in DOMAIN found : n \in Names

\* What was written is only ever replaced by what was read of it and changed
\* since: a file that does not open is not taken for none (file::opened,
\* Boot::read).
ReadBeforeWritten ==
  \A p \in Places : disk.file[p] # NoFile /\ disk'.file[p] # disk.file[p] =>
    /\ disk'.file[p].holds = disk.file[p].holds + 1
    /\ disk.file[p].secrets => disk'.file[p].sealed = disk.file[p].sealed

NothingOverwritten == [][ReadBeforeWritten]_vars

\* What credentials are sealed with can be had again: it is a person's, or on
\* the disk (Boot::read, written).
KeyIsKept ==
  \A p \in Places : disk.file[p].secrets =>
    disk.file[p].sealed \in {Person} \union {disk.key[q] : q \in Places}

\* A container is always its instance's, however often that was started: one
\* named for another would never be reclaimed (Running::woken).
OneIdentity ==
  \A n \in Names : left[n] # 0 => \E p \in Places : disk.file[p].id = left[n]

\* Waking ends: awake, or over.
IsWaking == phase \in Going \union {"Ready"}

WakesOrExits == IsWaking ~> ~IsWaking
=============================================================================
