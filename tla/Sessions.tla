------------------------------ MODULE Sessions ------------------------------
(***************************************************************************)
(* The password and the sessions it buys: signing in, out and through the      *)
(* setup link, changing the password, and being let onto a job's own address     *)
(* with a grant a signed-in page carries there. Each password is checked by a     *)
(* derivation that is answered later, when what it was asked against may have      *)
(* been replaced. A visitor follows every redirect.                            *)
(***************************************************************************)
EXTENDS Naturals, FiniteSets

CONSTANTS
  Visitors,
  Jobs,
  Passwords,     (* long enough to be set; what is typed may be none of them *)
  MaxTyped,      (* passwords typed, or changes asked for                   *)
  MaxLapses,     (* sessions, grants and waits that run out                 *)
  MaxAsks        (* pages asked for by hand                                 *)

Empty == "Empty"
None  == "None"

SessionsAssumption ==
  /\ {Empty, None} \intersect (Passwords \union Jobs) = {}
  /\ {MaxTyped, MaxLapses, MaxAsks} \subseteq Nat

VARIABLES
  password,   (* the one on file                                            *)
  setup,      (* whether the link printed at the start still lets in         *)
  sessions,   (* who is signed in                                           *)
  entered,    (* who is let onto which job's address                        *)
  grants,     (* grants not used yet, and whose browser carries each         *)
  deriving,   (* passwords typed to sign in, being checked                  *)
  setting,    (* changes of the password, being checked and then hashed      *)
  failures,   (* visitors who have to wait after a wrong password           *)
  retired,    (* jobs whose address answers nobody                          *)
  at,         (* the page each visitor is on, or is asking for              *)
  typed, lapses, asks

counted == <<typed, lapses, asks>>
held    == <<password, setup, sessions, entered, grants, deriving, setting, failures, retired>>
vars    == <<held, at, counted>>

\* Pages a visitor rests on, and requests that have not been answered.
Page(name, job) == [page |-> name, job |-> job]
Login(job)   == Page("Login", job)
Shown(job)   == Page("Shown", job)
Nobody       == Page("NoJobAnswers", None)
Resting      == {"Login", "Shown", "NoJobAnswers", "Start"}
Destination(job) == IF job = None THEN Page("Dashboard", None) ELSE Page("Enter", job)

SetPage(v, page) == at' = [at EXCEPT ![v] = page]
Stays(v)         == UNCHANGED at

----------------------------------------------------------------------------
(* Pages behind the gate.                                                    *)

\* A visitor asks for the dashboard, or for a job's address.
Asks(v) ==
  /\ asks < MaxAsks /\ asks' = asks + 1
  /\ at[v].page \in Resting
  /\ \/ SetPage(v, Page("Dashboard", None))
     \/ \E j \in Jobs : SetPage(v, Page("Tunnel", j))
  /\ UNCHANGED <<held, typed, lapses>>

\* A page of the dashboard, for who is signed in.
Gated(v) ==
  /\ at[v].page = "Dashboard"
  /\ SetPage(v, IF v \in sessions THEN Shown(None) ELSE Login(None))
  /\ UNCHANGED <<held, counted>>

\* A job's address is asked for through the dashboard: who is signed in is
\* sent back there with a grant.
EntryGranted(v) ==
  LET j == at[v].job IN
  /\ at[v].page = "Enter"
  /\ IF v \notin sessions
     THEN SetPage(v, Login(j)) /\ UNCHANGED grants
     ELSE IF j \in retired
     THEN SetPage(v, Nobody) /\ UNCHANGED grants
     ELSE SetPage(v, Page("Entry", j)) /\ grants' = grants \union {<<v, j>>}
  /\ UNCHANGED <<password, setup, sessions, entered, deriving, setting, failures, retired, counted>>

\* On the job's own address: let in by its own session, with a grant, or sent
\* for one; where no password is set, let in. A retired job's answers nobody.
GateTunnel(v) ==
  LET j == at[v].job
      shows == IF j \in retired THEN Nobody ELSE Shown(j)
  IN
  /\ \/ /\ at[v].page = "Entry" /\ password # None
        /\ grants' = grants \ {<<v, j>>}
        /\ IF <<v, j>> \in grants
           THEN entered' = entered \union {<<v, j>>} /\ SetPage(v, Page("Tunnel", j))
           ELSE UNCHANGED entered /\ SetPage(v, Page("Enter", j))
     \/ /\ at[v].page = "Entry" /\ password = None
        /\ SetPage(v, shows) /\ UNCHANGED <<grants, entered>>
     \/ /\ at[v].page = "Tunnel"
        /\ SetPage(v, IF password = None \/ <<v, j>> \in entered THEN shows ELSE Page("Enter", j))
        /\ UNCHANGED <<grants, entered>>
  /\ UNCHANGED <<password, setup, sessions, deriving, setting, failures, retired, counted>>

SetupVisited(v) ==
  /\ at[v].page \in Resting /\ setup /\ v \notin sessions
  /\ sessions' = sessions \union {v}
  /\ SetPage(v, Page("Dashboard", None))
  /\ UNCHANGED <<password, setup, entered, grants, deriving, setting, failures, retired, counted>>

SignedOut(v) ==
  /\ at[v].page = "Shown" /\ at[v].job = None /\ v \in sessions
  /\ sessions' = sessions \ {v}
  /\ SetPage(v, Login(None))
  /\ UNCHANGED <<password, setup, entered, grants, deriving, setting, failures, retired, counted>>

----------------------------------------------------------------------------
(* Signing in.                                                               *)

Types == typed < MaxTyped /\ typed' = typed + 1 /\ UNCHANGED <<lapses, asks>>

\* The form was read: sent back to wait, on to the page where no password is
\* set, or checked against the one on file.
LoginRead(v, with) ==
  /\ at[v].page = "Login" /\ Types
  /\ CASE v \in failures -> Stays(v) /\ UNCHANGED <<failures, deriving>>
       [] v \notin failures /\ password = None ->
            SetPage(v, Destination(at[v].job)) /\ UNCHANGED <<failures, deriving>>
       [] v \notin failures /\ password # None /\ with = Empty ->
            failures' = failures \union {v} /\ Stays(v) /\ UNCHANGED deriving
       [] OTHER ->
            /\ deriving' = deriving \union {[who |-> v, typed |-> with, expected |-> password]}
            /\ SetPage(v, Page("Checking", at[v].job))
            /\ UNCHANGED failures
  /\ UNCHANGED <<password, setup, sessions, entered, grants, setting, retired>>

\* The check was made, or could not be.
LoginDerived(d, derived) ==
  LET v == d.who IN
  /\ deriving' = deriving \ {d}
  /\ CASE derived /\ d.typed = d.expected ->
            /\ sessions' = sessions \union {v} /\ failures' = failures \ {v}
            /\ SetPage(v, Destination(at[v].job))
       [] derived /\ d.typed # d.expected ->
            /\ failures' = failures \union {v}
            /\ SetPage(v, Login(at[v].job)) /\ UNCHANGED sessions
       [] OTHER -> SetPage(v, Page("Start", None)) /\ UNCHANGED <<sessions, failures>>
  /\ UNCHANGED <<password, setup, entered, grants, setting, retired, counted>>

----------------------------------------------------------------------------
(* Changing the password.                                                    *)

\* A change too short is refused, one of a password on file waits for what was
\* given as that to be checked, and the first is hashed.
SetPassword(v, current, new) ==
  /\ at[v] = Shown(None) /\ Types
  /\ setting' = IF new \notin Passwords THEN setting
                ELSE setting \union {[who |-> v, new |-> new, current |-> current,
                       expected |-> password,
                       step |-> IF password = None THEN "Hashing" ELSE "Checking"]}
  /\ SetPage(v, IF new \notin Passwords THEN Shown(None) ELSE Page("Setting", None))
  /\ UNCHANGED <<password, setup, sessions, entered, grants, deriving, failures, retired>>

\* The setup link is no longer good once there is a password.
LinkGoes == setup' = FALSE

PasswordDerived(c, derived) ==
  /\ \/ /\ ~derived \/ (c.step = "Checking" /\ c.current # c.expected)
        /\ setting' = setting \ {c}
        /\ SetPage(c.who, Shown(None)) /\ UNCHANGED <<password, setup>>
     \/ /\ derived /\ c.step = "Checking" /\ c.current = c.expected
        /\ setting' = (setting \ {c}) \union {[c EXCEPT !.step = "Hashing"]}
        /\ UNCHANGED <<at, password, setup>>
     \/ /\ derived /\ c.step = "Hashing"
        /\ setting' = setting \ {c}
        /\ password' = c.new /\ LinkGoes
        /\ SetPage(c.who, Shown(None))
  /\ UNCHANGED <<sessions, entered, grants, deriving, failures, retired, counted>>

----------------------------------------------------------------------------
(* What runs out, and what ends.                                             *)

Lapses ==
  /\ lapses < MaxLapses /\ lapses' = lapses + 1
  /\ \/ \E v \in sessions : sessions' = sessions \ {v} /\ UNCHANGED <<entered, grants, failures>>
     \/ \E e \in entered : entered' = entered \ {e} /\ UNCHANGED <<sessions, grants, failures>>
     \/ \E g \in grants : grants' = grants \ {g} /\ UNCHANGED <<sessions, entered, failures>>
     \/ \E v \in failures : failures' = failures \ {v} /\ UNCHANGED <<sessions, entered, grants>>
  /\ UNCHANGED <<password, setup, deriving, setting, retired, at, typed, asks>>

Retires(j) ==
  /\ j \notin retired /\ retired' = retired \union {j}
  /\ UNCHANGED <<password, setup, sessions, entered, grants, deriving, setting, failures, at, counted>>

Init ==
  /\ password \in Passwords \union {None} /\ setup = (password = None)
  /\ sessions = {} /\ entered = {} /\ grants = {} /\ deriving = {} /\ setting = {}
  /\ failures = {} /\ retired = {}
  /\ at = [v \in Visitors |-> Page("Start", None)]
  /\ typed = 0 /\ lapses = 0 /\ asks = 0

Follows(v) == Gated(v) \/ EntryGranted(v) \/ GateTunnel(v)
Derived(v) ==
  \/ \E d \in deriving, ok \in BOOLEAN : d.who = v /\ LoginDerived(d, ok)
  \/ \E c \in setting, ok \in BOOLEAN : c.who = v /\ PasswordDerived(c, ok)

Next ==
  \/ \E v \in Visitors : Asks(v) \/ Follows(v) \/ Derived(v) \/ SetupVisited(v) \/ SignedOut(v)
  \/ \E v \in Visitors, with \in Passwords \union {Empty} : LoginRead(v, with)
  \/ \E v \in Visitors, current, new \in Passwords \union {Empty} : SetPassword(v, current, new)
  \/ Lapses
  \/ \E j \in Jobs : Retires(j)

Spec == Init /\ [][Next]_vars

\* Requests are answered as they come, and derivations in the end.
Fairness == \A v \in Visitors : WF_vars(Follows(v)) /\ WF_vars(Derived(v))

FairSpec == Spec /\ Fairness

----------------------------------------------------------------------------
\* What is held has its type, and who is being checked waits for it.
TypeOK ==
  /\ password \in Passwords \union {None}
  /\ sessions \subseteq Visitors /\ failures \subseteq Visitors
  /\ entered \subseteq Visitors \X Jobs /\ grants \subseteq Visitors \X Jobs
  /\ \A v \in Visitors :
       /\ at[v].page = "Checking" <=> \E d \in deriving : d.who = v
       /\ at[v].page = "Setting" <=> \E c \in setting : c.who = v

\* The link printed at the start lets in only while no password is set, however
\* many changes were in flight (Running::password_derived, setup_visited).
LinkIsForTheFirst == setup => password = None

\* A page asked for is shown, or the visitor is asked to sign in or told no
\* job answers: no redirect leads back to itself, and every password typed is
\* answered (Running::gate, gate_tunnel, entry_granted, derived).
Rests(v) == at[v].page \in Resting

GetsSomewhere == \A v \in Visitors : ~Rests(v) ~> Rests(v)
=============================================================================
