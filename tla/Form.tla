-------------------------------- MODULE Form --------------------------------
(***************************************************************************)
(* The form a project is made and changed in: what each card holds while    *)
(* tabs are out on the platforms, tokens are tried in panels and listings     *)
(* come back; what a save is let through with; and what the instance makes of   *)
(* it, the project it names having been changed meanwhile from another page.     *)
(*                                                                         *)
(* A card holds one slot per shape, the one the form is on and the other        *)
(* remembered, so that going back is going back to something. A repository         *)
(* carried onto another access waits to be settled against what that one reaches.   *)
(***************************************************************************)
EXTENDS Naturals, Sequences, FiniteSets, SequencesExt

CONSTANTS
  Repositories,    (* the repositories there are to reach                   *)
  Names,           (* names a variable may have, which no container refuses  *)
  Sections,        (* cards a person edits, one in each behaviour            *)
  MaxIds,          (* identifies what is brought or typed: 2..MaxIds          *)
  MaxRows,         (* kits, and variables, at once                           *)
  MaxEdits,        (* edits of rows                                         *)
  MaxMeddles,      (* changes from elsewhere                                 *)
  MaxSaves,        (* saves pressed                                         *)
  EarlyMoves       (* whether the form moves before the first listing comes    *)

FormAssumption ==
  /\ {MaxIds, MaxRows, MaxEdits, MaxMeddles, MaxSaves} \subseteq Nat
  /\ Sections \subseteq {"GitHub", "Slack", "Agents", "Environment"}
  /\ EarlyMoves \in BOOLEAN
  /\ {"asking", "unlisted"} \cap Repositories = {}

None == "None"

\* What a slot holds: the project's own, or what was brought or typed here.
Nothing == 0
Held    == 1
Ids     == 2..MaxIds

\* A listing, or why there is none.
Asking   == {"asking"}
Unlisted == {"unlisted"}
Listings == {Unlisted} \union SUBSET Repositories
IsListed(listing) == listing \notin {Asking, Unlisted}

NoSlot == [of |-> Nothing, listing |-> Asking]

VARIABLES
  filling,      (* "Creating" or "Amending"                                 *)
  section,      (* the card edited in this behaviour                        *)
  started,      (* the project when the form opened                          *)
  project,      (* the project as the instance holds it                       *)
  read,         (* the project as the page last read it                        *)
  purses,       (* the purses held                                           *)
  access,       (* the GitHub card: Access                                  *)
  binding,      (* the Slack card: Binding                                  *)
  name, fits, rows,  (* the name; the kits, the foreman's first; the variables *)
  opening,      (* whether what the project holds is still being listed       *)
  tabs,         (* tabs opened on a platform: "Out", "Back" or "Forgotten"     *)
  pending,      (* the tab a card waits on                                   *)
  panel, trying,  (* whether a token's panel is open; what is being tried       *)
  saving, asked, refused,  (* a save out, with what; what the last came to      *)
  left,         (* whether the form has been left                           *)
  ids, edits, meddles, saves

cards   == <<access, binding, name, fits, rows>>
tabbing == <<tabs, pending, panel, trying>>
saved   == <<saving, asked, refused, left>>
counted == <<ids, edits, meddles, saves>>
world   == <<filling, section, started, project, read, purses>>
vars    == <<world, cards, opening, tabbing, saved, counted>>

----------------------------------------------------------------------------
(* The GitHub card.                                                         *)

SlotOf(card) == IF card.shape = "App" THEN card.app
                ELSE IF card.shape = "Token" THEN card.token ELSE NoSlot

\* Without a shape nothing is asked for.
Listing(card) == IF card.shape = None THEN Unlisted ELSE SlotOf(card).listing
Busy(card)    == card.shape # None /\ Listing(card) = Asking
Reachables(card) == IF IsListed(Listing(card)) THEN Listing(card) ELSE {}

Moved(card, shape) == [card EXCEPT !.shape = shape, !.carried = TRUE]

Settle(card) ==
  LET reached == card.repository \in Listing(card) IN
  CASE ~IsListed(Listing(card)) -> card
    [] IsListed(Listing(card)) /\ card.repository # None ->
         IF reached THEN [card EXCEPT !.carried = FALSE]
         ELSE IF card.carried THEN [card EXCEPT !.repository = None, !.carried = FALSE]
         ELSE card
    [] OTHER ->
         [card EXCEPT !.carried = FALSE,
            !.repository = IF \E r \in Repositories : Listing(card) = {r}
                           THEN CHOOSE r \in Repositories : Listing(card) = {r} ELSE None]

\* Every change to the card is settled as it is made.
Apply(card) == access' = Settle(card)

AccessStarting(held) ==
  LET slot == [of |-> Held, listing |-> Asking] IN
  [shape |-> held.access.shape, repository |-> held.repository, carried |-> FALSE,
   app   |-> IF held.access.shape = "App" THEN slot ELSE NoSlot,
   token |-> IF held.access.shape = "Token" THEN slot ELSE NoSlot]

AccessDraft == [shape |-> access.shape, of |-> SlotOf(access).of,
                repository |-> access.repository]

(* The Slack card: which shape, and what it remembers of each.              *)

BindingStarting(held) ==
  [shape |-> held.binding.shape,
   own |-> IF held.binding.shape = "Own" THEN Held ELSE Nothing,
   workspace |-> IF held.binding.shape = "Workspace" THEN Held ELSE Nothing]

\* A pair the project holds never reaches a browser, and is kept.
BindingDraft ==
  CASE binding.shape = None -> [shape |-> "Kept", of |-> Nothing]
    [] binding.shape = "Own" -> [shape |-> IF binding.own \in Ids THEN "Own" ELSE "Kept",
                                 of |-> IF binding.own \in Ids THEN binding.own ELSE Nothing]
    [] binding.shape = "Workspace" -> [shape |-> "Workspace", of |-> binding.workspace]

(* The agents: a kit is an agent fitted with a purse, a model and an effort. *)

Models == {"Default", "Haiku"}
TakesEffort(model) == model = "Default"
Efforts == {"Low", "High"}

\* An agent as it comes: the first purse held, its first model and effort.
Seeded == [purse |-> IF purses = {} THEN None ELSE CHOOSE p \in purses : TRUE,
           model |-> "Default", effort |-> "Low"]

\* A mistake: the model is changed and the effort it may not have is kept.
WithModelAlone(fitted, model) == [fitted EXCEPT !.model = model]

WithModel(fitted, model) ==
  [fitted EXCEPT !.model = model,
     !.effort = IF ~TakesEffort(model) THEN None
                ELSE IF fitted.effort = None THEN "Low" ELSE fitted.effort]

FittedIsComplete(fitted) == fitted.purse # None

----------------------------------------------------------------------------
(* What a save is let through with.                                         *)

Draft == [name |-> name, access |-> AccessDraft, binding |-> BindingDraft, fits |-> fits,
          rows |-> rows, held |-> read.variables]

Creating == filling = "Creating"

IsReached(said) ==
  /\ said.shape # None
  /\ said.of \in Ids \/ ~Creating

IsSettled(said) == said.of \in Ids \/ ~Creating

KitNames(kits) == {kits[i].name : i \in 2..Len(kits)}
Distinct(kits) == Cardinality(KitNames(kits)) = Len(kits) - 1

\* The foreman is fitted first and the kits after it. Held are the variables
\* the project holds as the page last read it.
Problems(draft) ==
  {part \in {"Name", "Access", "Repository", "Agents", "Channel", "Variables"} :
     CASE part = "Name"       -> ~draft.name
       [] part = "Access"     -> ~IsReached(draft.access)
       [] part = "Repository" -> draft.access.shape = None \/ draft.access.repository = None
       [] part = "Agents"     -> \/ Len(draft.fits) < 2
                                 \/ \E i \in DOMAIN draft.fits :
                                      \/ ~FittedIsComplete(draft.fits[i].fitted)
                                      \/ i > 1 /\ draft.fits[i].name = None
                                      \/ i > 1 /\ ~draft.fits[i].described
                                 \/ ~Distinct(draft.fits)
       [] part = "Channel"    -> ~IsSettled(draft.binding)
       [] part = "Variables"  -> \E i \in DOMAIN draft.rows :
                                   \/ draft.rows[i].name = None
                                   \/ ~draft.rows[i].filled /\ draft.rows[i].name \notin draft.held}

----------------------------------------------------------------------------
(* What the instance makes of it: drafted.                                  *)

Refusals == {"UnknownProject", "Name", "Access", "ArrivalUnknown", "Repository", "Agents",
             "Channel", "Row", "Variables", "Purse", "Check", "Failed"}

HasArrived(tab) == tabs[tab] = "Back"

AccessRefused(said) ==
  CASE said.shape = None -> "Access"
    [] said.shape = "App" /\ said.of \in Ids -> IF HasArrived(said.of) THEN None ELSE "ArrivalUnknown"
    [] said.shape = "Token" /\ said.of \in Ids -> None
    [] OTHER -> IF project.access.shape = said.shape THEN None ELSE "Access"

KitRefused(fitted) ==
  \/ fitted.purse = None
  \/ TakesEffort(fitted.model) # (fitted.effort # None)

KitsRefused(kits) ==
  \/ \E i \in DOMAIN kits : KitRefused(kits[i].fitted)
  \/ Len(kits) < 2 \/ \E i \in 2..Len(kits) : kits[i].name = None \/ ~kits[i].described
  \/ \E i, j \in 2..Len(kits) : i # j /\ kits[i].name = kits[j].name

Bound(said) ==
  CASE said.shape = "Kept" -> IF project.binding.shape = None THEN "Channel" ELSE None
    [] said.shape = "Own" -> None
    [] said.of \in Ids -> IF HasArrived(said.of) THEN None ELSE "ArrivalUnknown"
    [] OTHER -> IF project.binding.shape = "Workspace" THEN None ELSE "Channel"

\* "Row" is what no form refuses: a name a container could not be given or stageman
\* gives itself, or one of an earlier row.
Resolved(given) ==
  LET ill(i) == given[i].name \notin Names \/ \E j \in 1..i-1 : given[j].name = given[i].name
      short(i) == ~given[i].filled /\ given[i].name \notin project.variables
      wrong == {i \in DOMAIN given : ill(i) \/ short(i)} IN
  IF wrong = {} THEN None
  ELSE LET first == CHOOSE i \in wrong : \A j \in wrong : i <= j IN
       IF ill(first) THEN "Row" ELSE "Variables"

PursesHeld(kits) == \A i \in DOMAIN kits : kits[i].fitted.purse \in purses

\* What is wrong first, in the order the instance looks.
Drafted(draft) ==
  LET reasons ==
        <<IF project.gone THEN "UnknownProject" ELSE None,
          IF draft.name THEN None ELSE "Name",
          AccessRefused(draft.access),
          IF draft.access.repository = None THEN "Repository" ELSE None,
          IF KitsRefused(draft.fits) THEN "Agents" ELSE None,
          Bound(draft.binding),
          Resolved(draft.rows),
          IF PursesHeld(draft.fits) THEN None ELSE "Purse">>
      wrong == {i \in DOMAIN reasons : reasons[i] # None} IN
  IF wrong = {} THEN None ELSE reasons[CHOOSE i \in wrong : \A j \in wrong : i <= j]

\* What the platforms are asked about before it is kept.
IsChecked(draft) ==
  \/ draft.access.of \in Ids \/ draft.access.repository # project.repository
  \/ draft.binding.shape = "Own"

----------------------------------------------------------------------------
NoProject == [gone |-> FALSE, access |-> [shape |-> None], repository |-> None,
              binding |-> [shape |-> None], variables |-> {}]
SomeProjects ==
  [gone : {FALSE}, access : [shape : {"App", "Token"}], repository : Repositories,
   binding : [shape : {"Own", "Workspace"}], variables : {{CHOOSE n \in Names : TRUE}}]

\* A plain kit, as a form for a project that does not exist yet opens with one,
\* and as a project may hold.
SeededKits ==
  <<[name |-> None, described |-> FALSE, fitted |-> Seeded],
    [name |-> "a", described |-> TRUE, fitted |-> Seeded]>>

\* A form for a project that does not exist yet opens empty; the cards this
\* behaviour does not edit a person has filled in already.
FilledIn == 2
Typed(repository) ==
  [shape |-> "Token", repository |-> repository, carried |-> FALSE, app |-> NoSlot,
   token |-> [of |-> FilledIn, listing |-> Repositories]]
Paired == [shape |-> "Own", own |-> FilledIn, workspace |-> Nothing]

Starting(held) ==
  /\ name = (filling = "Amending" \/ section # "Agents")
  /\ IF filling = "Amending" \/ section = "GitHub" THEN access = AccessStarting(held)
     ELSE access \in {Typed(r) : r \in Repositories}
  /\ binding = IF filling = "Amending" \/ section = "Slack" THEN BindingStarting(held)
               ELSE Paired
  /\ fits = SeededKits
  /\ rows = SetToSeq({[name |-> n, filled |-> FALSE] : n \in held.variables})
  /\ opening = (filling = "Amending")

Init ==
  /\ section \in Sections
  /\ filling \in {"Creating", "Amending"}
  /\ started \in IF filling = "Creating" THEN {NoProject} ELSE SomeProjects
  /\ project = started /\ read = started
  /\ purses = {"p", "q"}
  /\ Starting(started)
  /\ tabs = [id \in Ids |-> "No"] /\ pending = Nothing /\ panel = FALSE /\ trying = Nothing
  /\ saving = FALSE /\ asked = Draft /\ refused = None /\ left = FALSE
  /\ ids = FilledIn /\ edits = 0 /\ meddles = 0 /\ saves = 0

Open(card) == ~left /\ section = card
CanMove == EarlyMoves \/ ~opening

\* The listing of what the project holds is put where the form is on by then.
HeldListed ==
  /\ ~left /\ opening
  /\ opening' = FALSE
  /\ \E listing \in Listings :
       Apply(IF access.shape = "App" THEN [access EXCEPT !.app.listing = listing]
             ELSE [access EXCEPT !.token.listing = listing])
  /\ UNCHANGED <<world, binding, name, fits, rows, tabbing, saved, counted>>

\* A tab is opened, and waited on in place of any other.
Opens ==
  /\ ~panel /\ ids < MaxIds
  /\ ids' = ids + 1
  /\ tabs' = [tabs EXCEPT ![ids + 1] = "Out"] /\ pending' = ids + 1
  /\ UNCHANGED <<world, cards, opening, panel, trying, saved, edits, meddles, saves>>

\* Offered where an App, and an app on the channel, is registered, as they are here.
Install ==
  /\ Open("GitHub") /\ (access.shape = "Token" => access.app.of = Nothing)
  /\ Opens

InstallWorkspace ==
  /\ Open("Slack") /\ (binding.shape = "Own" => binding.workspace = Nothing)
  /\ Opens

TabComesBack(tab) ==
  /\ tabs[tab] = "Out"
  /\ tabs' = [tabs EXCEPT ![tab] = "Back"]
  /\ UNCHANGED <<world, cards, opening, pending, panel, trying, saved, counted>>

\* On a tick the tab waited on is asked about; the form moves onto what it brought.
Arriving ==
  /\ Open("GitHub") /\ pending # Nothing /\ tabs[pending] # "Out"
  /\ pending' = Nothing
  /\ \/ /\ tabs[pending] = "Back" /\ CanMove
        /\ \E listing \in Listings \ {Unlisted} :
             Apply(Moved([access EXCEPT !.app = [of |-> pending, listing |-> listing]], "App"))
     \/ UNCHANGED access
  /\ UNCHANGED <<world, binding, name, fits, rows, opening, tabs, panel, trying, saved, counted>>

WorkspaceArriving ==
  /\ Open("Slack") /\ pending # Nothing /\ tabs[pending] # "Out"
  /\ pending' = Nothing
  /\ binding' = IF tabs[pending] = "Back"
                THEN [binding EXCEPT !.shape = "Workspace", !.workspace = pending]
                ELSE binding
  /\ UNCHANGED <<world, access, name, fits, rows, opening, tabs, panel, trying, saved, counted>>

\* The panel a token, or an app's pair, is tried in.
UseToken ==
  /\ \/ Open("GitHub") /\ (access.shape = "App" => access.token.of = Nothing)
     \/ Open("Slack") /\ (binding.shape = "Workspace" => binding.own = Nothing)
  /\ ~panel /\ panel' = TRUE
  /\ UNCHANGED <<world, cards, opening, tabs, pending, trying, saved, counted>>

ClosePanel ==
  /\ ~left /\ panel /\ panel' = FALSE
  /\ UNCHANGED <<world, cards, opening, tabs, pending, trying, saved, counted>>

Try ==
  /\ ~left /\ panel /\ trying = Nothing /\ ids < MaxIds
  /\ ids' = ids + 1 /\ trying' = ids + 1
  /\ UNCHANGED <<world, cards, opening, tabs, pending, panel, saved, edits, meddles, saves>>

\* What was tried is accepted or not, whether or not its panel was closed.
TokenTried ==
  /\ Open("GitHub") /\ trying # Nothing
  /\ trying' = Nothing
  /\ \/ /\ CanMove /\ panel' = FALSE
        /\ \E listing \in Listings \ {Unlisted} :
             Apply(Moved([access EXCEPT !.token = [of |-> trying, listing |-> listing]], "Token"))
     \/ UNCHANGED <<access, panel>>
  /\ UNCHANGED <<world, binding, name, fits, rows, opening, tabs, pending, saved, counted>>

OwnTried ==
  /\ Open("Slack") /\ trying # Nothing
  /\ trying' = Nothing
  /\ \/ panel' = FALSE /\ binding' = [binding EXCEPT !.shape = "Own", !.own = trying]
     \/ UNCHANGED <<binding, panel>>
  /\ UNCHANGED <<world, access, name, fits, rows, opening, tabs, pending, saved, counted>>

BackToToken ==
  /\ Open("GitHub") /\ ~panel /\ CanMove /\ access.shape = "App" /\ access.token.of # Nothing
  /\ Apply(Moved(access, "Token"))
  /\ UNCHANGED <<world, binding, name, fits, rows, opening, tabbing, saved, counted>>

BackToApp ==
  /\ Open("GitHub") /\ ~panel /\ CanMove /\ access.shape = "Token" /\ access.app.of # Nothing
  /\ Apply(Moved(access, "App"))
  /\ UNCHANGED <<world, binding, name, fits, rows, opening, tabbing, saved, counted>>

BackToOther ==
  /\ Open("Slack") /\ ~panel
  /\ \/ /\ binding.shape = "Workspace" /\ binding.own # Nothing
        /\ binding' = [binding EXCEPT !.shape = "Own"]
     \/ /\ binding.shape = "Own" /\ binding.workspace # Nothing
        /\ binding' = [binding EXCEPT !.shape = "Workspace"]
  /\ UNCHANGED <<world, access, name, fits, rows, opening, tabbing, saved, counted>>

Pick(repository) ==
  /\ Open("GitHub") /\ ~panel /\ repository \in Reachables(access)
  /\ Apply([access EXCEPT !.repository = repository, !.carried = FALSE])
  /\ UNCHANGED <<world, binding, name, fits, rows, opening, tabbing, saved, counted>>

----------------------------------------------------------------------------
(* Rows.                                                                    *)

Edits(card) == Open(card) /\ edits < MaxEdits /\ edits' = edits + 1

Edited == UNCHANGED <<world, access, binding, opening, tabbing, saved, ids, meddles, saves>>

TypeName ==
  /\ Edits("Agents") /\ name' = ~name
  /\ UNCHANGED <<fits, rows>> /\ Edited

AddKit ==
  /\ Edits("Agents") /\ Len(fits) <= MaxRows
  /\ fits' = Append(fits, [name |-> None, described |-> FALSE, fitted |-> Seeded])
  /\ UNCHANGED <<name, rows>> /\ Edited

RemoveKit(i) ==
  /\ Edits("Agents") /\ fits' = RemoveAt(fits, i)
  /\ UNCHANGED <<name, rows>> /\ Edited

\* A kit is named and said what it is for; the foreman's is only fitted.
DescribeKit(i) ==
  /\ Edits("Agents")
  /\ \E called \in {"a", "b", None}, said \in BOOLEAN :
       fits' = [fits EXCEPT ![i].name = called, ![i].described = said]
  /\ UNCHANGED <<name, rows>> /\ Edited

Refit(i) ==
  /\ Edits("Agents")
  /\ LET fitted == fits[i].fitted IN
     \/ \E model \in Models : fits' = [fits EXCEPT ![i].fitted = WithModel(fitted, model)]
     \/ \E effort \in Efforts : /\ TakesEffort(fitted.model)
                                /\ fits' = [fits EXCEPT ![i].fitted.effort = effort]
     \/ \E purse \in purses : fits' = [fits EXCEPT ![i].fitted.purse = purse]
     \/ fits' = [fits EXCEPT ![i].fitted = Seeded]
  /\ UNCHANGED <<name, rows>> /\ Edited

\* A row is added bare, or read whole from a file that was pasted.
AddVariable ==
  /\ Edits("Environment") /\ Len(rows) < MaxRows
  /\ \E called \in Names \union {None}, filled \in BOOLEAN :
       /\ called = None => ~filled
       /\ rows' = Append(rows, [name |-> called, filled |-> filled])
  /\ UNCHANGED <<name, fits>> /\ Edited

RemoveVariable(i) ==
  /\ Edits("Environment") /\ rows' = RemoveAt(rows, i)
  /\ UNCHANGED <<name, fits>> /\ Edited

TypeVariable(i) ==
  /\ Edits("Environment")
  /\ \E called \in Names \union {None, "reserved"}, filled \in BOOLEAN :
       rows' = [rows EXCEPT ![i] = [name |-> called, filled |-> filled]]
  /\ UNCHANGED <<name, fits>> /\ Edited

----------------------------------------------------------------------------
\* A save is asked for only when nothing on the page says it cannot be.
Save ==
  /\ ~left /\ ~panel /\ ~saving /\ saves < MaxSaves
  /\ saves' = saves + 1
  /\ Problems(Draft) = {}
  /\ saving' = TRUE /\ asked' = Draft /\ refused' = None
  /\ UNCHANGED <<world, cards, opening, tabbing, left, ids, edits, meddles>>

\* It is kept and the form left, or refused: for what is wrong with it, for what
\* a platform said, or because the instance could not be asked.
Answered ==
  /\ saving /\ saving' = FALSE
  /\ LET why == Drafted(asked) IN
     \/ /\ why = None /\ left' = TRUE /\ UNCHANGED refused
        /\ project' = [project EXCEPT
             !.access.shape = asked.access.shape, !.repository = asked.access.repository,
             !.binding.shape = IF asked.binding.shape = "Kept" THEN @ ELSE asked.binding.shape,
             !.variables = {asked.rows[i].name : i \in DOMAIN asked.rows}]
     \/ /\ refused' \in (IF why = None THEN {} ELSE {why})
                        \union (IF why = None /\ IsChecked(asked) THEN {"Check"} ELSE {})
                        \union {"Failed"}
        /\ UNCHANGED <<left, project>>
  /\ UNCHANGED <<filling, section, started, read, purses, cards, opening, tabbing, asked,
                 counted>>

\* Another page changes what the card edited is of, or forgets the project, or a
\* purse nothing charges.
Meddle ==
  /\ filling = "Amending" /\ meddles < MaxMeddles /\ meddles' = meddles + 1
  /\ \/ /\ section = "GitHub"
        /\ \E shape \in {"App", "Token"} : project' = [project EXCEPT !.access.shape = shape]
     \/ /\ section = "Slack"
        /\ \E shape \in {"Own", "Workspace"} : project' = [project EXCEPT !.binding.shape = shape]
     \/ /\ section = "Environment"
        /\ \E held \in SUBSET Names : project' = [project EXCEPT !.variables = held]
     \/ project' = [project EXCEPT !.gone = TRUE]
  /\ project' # project /\ ~project.gone
  /\ UNCHANGED <<filling, section, started, read, purses, cards, opening, tabbing, saved, ids,
                 edits, saves>>

ForgetPurse ==
  /\ filling = "Creating" /\ section = "Agents" /\ meddles < MaxMeddles /\ meddles' = meddles + 1
  /\ \E purse \in purses : purses' = purses \ {purse}
  /\ UNCHANGED <<filling, section, started, project, read, cards, opening, tabbing, saved, ids,
                 edits, saves>>

\* The tabs begun are in memory alone.
Restarts ==
  /\ section \in {"GitHub", "Slack"} /\ meddles < MaxMeddles /\ meddles' = meddles + 1
  /\ tabs' = [id \in Ids |-> IF tabs[id] = "No" THEN "No" ELSE "Forgotten"]
  /\ UNCHANGED <<world, cards, opening, pending, panel, trying, saved, ids, edits, saves>>

\* The page reads again on a tick; a form whose project is gone is left.
Reads ==
  /\ ~left /\ read # project
  /\ read' = project /\ left' = project.gone
  /\ UNCHANGED <<filling, section, started, project, purses, cards, opening, tabbing, saving,
                 asked, refused, counted>>

Next ==
  \/ HeldListed \/ Install \/ InstallWorkspace
  \/ \E tab \in Ids : TabComesBack(tab)
  \/ Arriving \/ WorkspaceArriving
  \/ UseToken \/ ClosePanel \/ Try \/ TokenTried \/ OwnTried
  \/ BackToToken \/ BackToApp \/ BackToOther
  \/ \E repository \in Repositories : Pick(repository)
  \/ TypeName \/ AddKit
  \/ \E i \in 2..Len(fits) : RemoveKit(i) \/ DescribeKit(i)
  \/ \E i \in DOMAIN fits : Refit(i)
  \/ AddVariable
  \/ \E i \in DOMAIN rows : RemoveVariable(i) \/ TypeVariable(i)
  \/ Save \/ Answered
  \/ Meddle \/ ForgetPurse \/ Restarts \/ Reads

Spec == Init /\ [][Next]_vars

----------------------------------------------------------------------------
TypeOK ==
  /\ filling \in {"Creating", "Amending"} /\ section \in Sections
  /\ {project.repository, access.repository} \subseteq Repositories \union {None}
  /\ access.shape \in {None, "App", "Token"} /\ access.carried \in BOOLEAN
  /\ \A slot \in {access.app, access.token} :
       slot.of \in 0..MaxIds /\ slot.listing \in Listings \union {Asking}
  /\ binding.shape \in {None, "Own", "Workspace"}
  /\ {binding.own, binding.workspace, pending, trying} \subseteq 0..MaxIds
  /\ {name, opening, panel, saving, left} \subseteq BOOLEAN
  /\ refused \in Refusals \union {None}
  /\ tabs \in [Ids -> {"No", "Out", "Back", "Forgotten"}]

\* A repository the access the form is on does not reach is none the form would
\* send, except the one the project had under the access it had (Access::settle:
\* "a repository the person did not choose is not theirs to save").
SettledIsReached ==
  (IsListed(Listing(access)) /\ access.repository \notin Listing(access) \union {None})
    => /\ SlotOf(access).of = Held /\ access.shape = started.access.shape
       /\ access.repository = started.repository

\* A card that says it is asking is being answered (Access::busy: "Whether the
\* current shape's listing is still being asked for").
AskedFor == Busy(access) => opening

\* What the form lets through the instance does not refuse for what the form
\* looked at (Draft::problems: "The same conditions the instance enforces"),
\* unless the project has changed since it was looked at.
Foreseen == {"Name", "Access", "Repository", "Agents", "Channel", "Variables"}
Foresees ==
  saving /\ refused' \in Foreseen
    => \/ project.access # started.access \/ project.binding # started.binding
       \/ project.variables # asked.held

LetThrough == [][Foresees]_vars
=============================================================================
