---------------------------- MODULE Credentials ----------------------------
(***************************************************************************)
(* Tokens minted on the App's installations: one for each project, handed to *)
(* its jobs' wrappers while it is good and minted again when it is not, every *)
(* wrapper that asks meanwhile waiting on the one minting; and one for each     *)
(* installation, to list for a form what an access reaches.                   *)
(***************************************************************************)
EXTENDS Naturals, FiniteSets

CONSTANTS
  Projects, Installations, Repositories,
  Wrappers,     (* wrappers of jobs, each of one project                    *)
  JobOf,        (* the project a wrapper's job is of                        *)
  Forms,        (* questions of forms, asked once each                      *)
  MidMint,      (* whether what is reached changes while a token is minted   *)
  MaxChanges,   (* changes to what is reached                               *)
  MaxExpiries   (* tokens whose hour is up                                  *)

None == "None"

CredentialsAssumption ==
  /\ JobOf \in [Wrappers -> Projects]
  /\ None \notin Installations \union Repositories
  /\ MidMint \in BOOLEAN /\ MaxChanges \in Nat /\ MaxExpiries \in Nat

VARIABLES
  installed,   (* how many times each installation was set up: none if 0    *)
  access,      (* what each project reaches: an installation, a token, none  *)
  repository,  (* the one repository each is for                            *)
  minted,      (* the token kept for each project                           *)
  minting,     (* what the token being minted for it is for                 *)
  awaiting,    (* the wrappers waiting on it                                *)
  told,        (* what each wrapper was last told                           *)
  listing_tokens,   (* the token kept to list each installation             *)
  reaches,     (* the questions out to list what an access reaches          *)
  reaching,    (* what is listed so far for each form                       *)
  changes, expiries

ours   == <<installed, access, repository>>
jobs   == <<minted, minting, awaiting, told>>
lists  == <<listing_tokens, reaches, reaching>>
counts == <<changes, expiries>>
vars   == <<ours, jobs, lists, counts>>

\* What a token is for: an installation as it was set up, and a repository.
For(i, r) == [inst |-> i, repo |-> r, setUp |-> installed[i]]
Nothing   == [inst |-> None, repo |-> None, setUp |-> 0]
NoToken   == [for |-> Nothing, good |-> FALSE]
Reached(p) == For(access[p], repository[p])

Waiting == [told |-> "Waiting"]
Refused == [told |-> "Refused"]
Idle    == [told |-> "Idle"]
Handed(token) == [told |-> "Handed", token |-> token]
Own     == [told |-> "Handed", token |-> Nothing]

OnInstallation(p) == access[p] \in Installations

----------------------------------------------------------------------------
(* A wrapper asks for its job's credential.                                  *)

\* Everyone waiting on a project's token hears the same.
TokenWaitingAnswered(p, waiting, answer) ==
  /\ told' = [w \in Wrappers |-> IF w \in waiting THEN answer ELSE told[w]]
  /\ awaiting' = [awaiting EXCEPT ![p] = {}]

\* Answered from the token kept while it is good; held otherwise, while the
\* one minting for the project is out. A minting that cannot be asked for
\* answers everyone at once.
CredentialFromInstallation(w, p) ==
  IF minted[p].good
  THEN /\ told' = [told EXCEPT ![w] = Handed(minted[p].for)]
       /\ UNCHANGED <<awaiting, minting>>
  ELSE IF minting[p] # Nothing
  THEN /\ awaiting' = [awaiting EXCEPT ![p] = @ \union {w}]
       /\ told' = [told EXCEPT ![w] = Waiting]
       /\ UNCHANGED minting
  ELSE \/ /\ awaiting' = [awaiting EXCEPT ![p] = @ \union {w}]
          /\ told' = [told EXCEPT ![w] = Waiting]
          /\ minting' = [minting EXCEPT ![p] = Reached(p)]
       \/ /\ TokenWaitingAnswered(p, awaiting[p] \union {w}, Refused)
          /\ UNCHANGED minting

CredentialAsked(w) ==
  LET p == JobOf[w] IN
  /\ told[w].told # "Waiting"
  /\ CASE access[p] = "Token" -> told' = [told EXCEPT ![w] = Own] /\ UNCHANGED <<awaiting, minting>>
       [] access[p] = None -> told' = [told EXCEPT ![w] = Refused] /\ UNCHANGED <<awaiting, minting>>
       [] OTHER -> CredentialFromInstallation(w, p)
  /\ UNCHANGED <<ours, minted, lists, counts>>

\* A token was minted, or could not be: kept, and everyone waiting told.
MintedAnswered(p, answered) ==
  /\ minting[p] # Nothing
  /\ minting' = [minting EXCEPT ![p] = Nothing]
  /\ IF answered
     THEN /\ minted' = [minted EXCEPT ![p] = [for |-> minting[p], good |-> TRUE]]
          /\ TokenWaitingAnswered(p, awaiting[p], Handed(minting[p]))
     ELSE UNCHANGED minted /\ TokenWaitingAnswered(p, awaiting[p], Refused)
  /\ UNCHANGED <<ours, lists, counts>>

----------------------------------------------------------------------------
(* A form asks what an access reaches.                                       *)

Unasked  == "Unasked"
Answered == "Answered"

Question(f, stage, i) == [form |-> f, stage |-> stage, inst |-> i]

\* What is asked of an access: two reads of a token; of an installation its
\* listing, with a token minted for it where none good is kept.
ReachToken(f) == {Question(f, "Readable", None), Question(f, "Owner", None)}

ReachInstallation(f, i) ==
  IF installed[i] = 0 THEN {}
  ELSE IF listing_tokens[i] = "Good"
  THEN {Question(f, "Listing", i)}
  ELSE {Question(f, "Minting", i)}

\* Held while anything is out, answered at once otherwise.
Asks(f, questions) ==
  /\ reaching[f] = Unasked
  /\ reaches' = reaches \union questions
  /\ reaching' = [reaching EXCEPT ![f] = IF questions = {} THEN Answered ELSE "Reaching"]
  /\ UNCHANGED <<ours, jobs, listing_tokens, counts>>

Reaches(f) ==
  \/ \E p \in Projects :
       Asks(f, CASE access[p] = "Token" -> ReachToken(f)
                 [] access[p] = None -> {}
                 [] OTHER -> ReachInstallation(f, access[p]))
  \/ Asks(f, ReachToken(f))
  \/ \E i \in Installations : Asks(f, ReachInstallation(f, i))

\* One answer landed: a token to list with asks for the listing with it, and
\* the form is answered with the last.
ReachedAnswered(q, answered) ==
  LET asked == IF answered /\ q.stage = "Minting"
               THEN {Question(q.form, "Listing", q.inst)} ELSE {}
      out == (reaches \ {q}) \union asked
  IN
  /\ reaches' = out
  /\ listing_tokens' =
       IF answered /\ q.stage = "Minting"
       THEN [listing_tokens EXCEPT ![q.inst] = "Good"]
       ELSE listing_tokens
  /\ reaching' = IF \E r \in out : r.form = q.form THEN reaching
                 ELSE [reaching EXCEPT ![q.form] = Answered]
  /\ UNCHANGED <<ours, jobs, counts>>

----------------------------------------------------------------------------
(* What is reached changes.                                                  *)

Changes == changes < MaxChanges /\ changes' = changes + 1 /\ UNCHANGED expiries
Settled(p) == MidMint \/ minting[p] = Nothing

\* A slip: the token is kept until its hour is up.
KeepsItsToken(p) == UNCHANGED minted

\* A project is watched through something else, or for another repository:
\* the token kept for it goes.
AccessAmended(p) == minted' = [minted EXCEPT ![p] = NoToken]

\* An installation a project names is one the App holds.
Amended(p, to, r) ==
  /\ Changes /\ Settled(p)
  /\ <<to, r>> # <<access[p], repository[p]>>
  /\ to \in Installations => installed[to] > 0
  /\ access' = [access EXCEPT ![p] = to]
  /\ repository' = [repository EXCEPT ![p] = r]
  /\ AccessAmended(p)
  /\ UNCHANGED <<installed, minting, awaiting, told, lists>>

\* An installation is set up, or set up again: what was minted on it goes.
InstalledAnswered(i) ==
  LET onIt == {p \in Projects : access[p] = i} IN
  /\ Changes
  /\ \A p \in onIt : Settled(p)
  /\ installed' = [installed EXCEPT ![i] = @ + 1]
  /\ minted' = [p \in Projects |-> IF p \in onIt THEN NoToken ELSE minted[p]]
  /\ listing_tokens' = [listing_tokens EXCEPT ![i] = None]
  /\ UNCHANGED <<access, repository, minting, awaiting, told, reaches, reaching>>

\* An installation no project reaches through is forgotten, and the App with
\* all of them.
ForgetInstallation(i) ==
  /\ Changes
  /\ installed[i] > 0 /\ \A p \in Projects : access[p] # i
  /\ installed' = [installed EXCEPT ![i] = 0]
  /\ listing_tokens' = [listing_tokens EXCEPT ![i] = None]
  /\ UNCHANGED <<access, repository, jobs, reaches, reaching>>

ForgetApp ==
  /\ Changes
  /\ \A p \in Projects : ~OnInstallation(p)
  /\ installed' = [i \in Installations |-> 0]
  /\ listing_tokens' = [i \in Installations |-> None]
  /\ minted' = [p \in Projects |-> NoToken]
  /\ UNCHANGED <<access, repository, minting, awaiting, told, reaches, reaching>>

\* The hour of a token kept is nearly up.
Expires ==
  /\ expiries < MaxExpiries /\ expiries' = expiries + 1
  /\ \/ \E p \in Projects :
          /\ minted[p].good
          /\ minted' = [minted EXCEPT ![p].good = FALSE]
          /\ UNCHANGED listing_tokens
     \/ \E i \in Installations :
          /\ listing_tokens[i] = "Good"
          /\ listing_tokens' = [listing_tokens EXCEPT ![i] = "Stale"]
          /\ UNCHANGED minted
  /\ UNCHANGED <<ours, minting, awaiting, told, reaches, reaching, changes>>

----------------------------------------------------------------------------
Init ==
  /\ installed = [i \in Installations |-> 1]
  /\ access \in [Projects -> Installations]
  /\ \E r \in Repositories : repository = [p \in Projects |-> r]
  /\ minted = [p \in Projects |-> NoToken] /\ minting = [p \in Projects |-> Nothing]
  /\ awaiting = [p \in Projects |-> {}] /\ told = [w \in Wrappers |-> Idle]
  /\ listing_tokens = [i \in Installations |-> None]
  /\ reaches = {} /\ reaching = [f \in Forms |-> Unasked]
  /\ changes = 0 /\ expiries = 0

PlatformMints == \E p \in Projects, answered \in BOOLEAN : MintedAnswered(p, answered)
PlatformLists == \E q \in reaches, answered \in BOOLEAN : ReachedAnswered(q, answered)

Next ==
  \/ \E w \in Wrappers : CredentialAsked(w)
  \/ \E f \in Forms : Reaches(f)
  \/ PlatformMints \/ PlatformLists
  \/ \E p \in Projects, to \in Installations \union {"Token", None}, r \in Repositories :
       Amended(p, to, r)
  \/ \E i \in Installations : InstalledAnswered(i) \/ ForgetInstallation(i)
  \/ ForgetApp \/ Expires

Spec == Init /\ [][Next]_vars

\* The platform answers, or is found not to.
Fairness ==
  /\ \A p \in Projects : WF_vars(\E answered \in BOOLEAN : MintedAnswered(p, answered))
  /\ WF_vars(PlatformLists)

FairSpec == Spec /\ Fairness

----------------------------------------------------------------------------
\* What is kept of each token has its type, and a token minted is minted for
\* an installation.
TypeOK ==
  /\ access \in [Projects -> Installations \union {"Token", None}]
  /\ \A p \in Projects : minted[p] # NoToken => minted[p].for.inst \in Installations
  /\ \A w \in Wrappers : told[w].told \in {"Idle", "Waiting", "Refused", "Handed"}
  /\ \A f \in Forms : reaching[f] \in {Unasked, Answered, "Reaching"}

\* The token kept for a project is for what it reaches now, on its
\* installation as it was last set up (Running::access_amended,
\* installed_answered).
KeptForNow == \A p \in Projects : minted[p] # NoToken => minted[p].for = Reached(p)

\* A wrapper told nothing yet is one a minting will answer, and a form one
\* some listing will (Running::credential_from_installation, reached_answered).
SomethingIsComing ==
  /\ \A w \in Wrappers : told[w] = Waiting <=>
       \E p \in Projects : w \in awaiting[p] /\ minting[p] # Nothing
  /\ \A f \in Forms : reaching[f] = "Reaching" <=> \E q \in reaches : q.form = f

\* Everyone who waits on the platform is answered in the end.
Told(w)   == told[w] # Waiting
Listed(f) == reaching[f] # "Reaching"

AnsweredInTheEnd ==
  /\ \A w \in Wrappers : ~Told(w) ~> Told(w)
  /\ \A f \in Forms : ~Listed(f) ~> Listed(f)
============================================================================
