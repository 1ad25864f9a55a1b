----------------------------- MODULE Listening -----------------------------
(***************************************************************************)
(* Listening to a channel: one connection for a project's own app, and one   *)
(* for the instance's app with a voice for each workspace it is installed     *)
(* on. Every connection begins by asking who this instance is with every       *)
(* voice, then where to connect; the platform greets on it, warns before it    *)
(* closes it, and closes it. One that fails is tried again after a wait, by     *)
(* when it may have been stopped.                                            *)
(***************************************************************************)
EXTENDS Integers

CONSTANTS
  Projects,      (* projects, each bound to an app of its own or not        *)
  Teams,         (* workspaces the instance's app is installed on, ordered   *)
  Ears,          (* app-level tokens, one for each app there is              *)
  Rebinds,       (* whether an app is listened with again before what was    *)
                 (* asked and opened for the last one is over                 *)
  Rotates,       (* whether the token of an app listened to is replaced      *)
  LateFails,     (* whether a question a connection does not wait on fails     *)
  MaxMoves,      (* changes of what is bound                                *)
  MaxFaults,     (* questions and connections that fail                     *)
  MaxRenewals    (* connections the platform replaces                       *)

None == "None"
App  == "App"
Sole == 0

ListeningAssumption ==
  /\ Teams \subseteq Nat \ {Sole}
  /\ App \notin Projects /\ None \notin Ears
  /\ {Rebinds, Rotates, LateFails} \subseteq BOOLEAN
  /\ {MaxMoves, MaxFaults, MaxRenewals} \subseteq Nat

Listenings == Projects \union {App}

VARIABLES
  own,        (* the token of each project's own app, if it has one         *)
  app,        (* the instance's app: its token, and where it is installed   *)
  listeners,  (* what each listens with, the voices told who they are, and   *)
              (* where its connection has got to                             *)
  questions,  (* the questions out, and what they were asked with           *)
  sockets,    (* the connections open, each to the app its token is of       *)
  draining,   (* those replaced, read until they close                      *)
  timers,     (* waits before trying again                                  *)
  moves, faults, renewals

bindings == <<own, app>>
out      == <<questions, sockets, draining, timers>>
counted  == <<moves, faults, renewals>>
vars     == <<bindings, listeners, out, counted>>

NoListener == [ear |-> None, voices |-> {}, known |-> {}, at |-> "Nowhere", on |-> {}]

IsListener(l) == listeners[l].ear # None

Ids == {q.id : q \in questions} \union {s.id : s \in sockets} \union {t.id : t \in timers}
         \union UNION {listeners[l].on : l \in Listenings}

\* An identifier above every one that something is known by, or is taken in
\* this step.
FreshId(taken) ==
  LET used == Ids \union taken \union {0}
  IN 1 + CHOOSE n \in used : \A i \in used : i <= n

\* What there is to listen with.
EarOf(l)    == IF l = App THEN app.ear ELSE own[l]
VoicesOf(l) == IF l = App THEN app.teams ELSE {Sole}

Introducing(l, team, id, ear) ==
  [what |-> "Introducing", listening |-> l, team |-> team, id |-> id, ear |-> ear]
Locating(l, id, ear) ==
  [what |-> "Locating", listening |-> l, team |-> Sole, id |-> id, ear |-> ear]

\* A question for every voice, each under an identifier of its own.
IntroducingEach(l, voices, ear, taken) ==
  {Introducing(l, v, FreshId(taken) + v, ear) : v \in voices}

IdsOf(asked) == {q.id : q \in asked}

----------------------------------------------------------------------------
(* Steps of a listener, on what is listened with as it would be: each says    *)
(* what becomes of the listeners and of what is out.                         *)

\* The listeners that have the stream of an app open.
Holders(ls, ear) == {l \in Listenings : ls[l].ear = ear}

\* Starts listening, where there is something to listen with, it is not
\* listened to already, and nobody has that app's stream open: the questions
\* to ask, none where it does not.
Listen(ls, l, ear, voices, taken) ==
  IF ear # None /\ voices # {} /\ ls[l].ear = None /\ Holders(ls, ear) = {}
  THEN IntroducingEach(l, voices, ear, taken)
  ELSE {}

Begun(ls, l, ear, voices, asked) ==
  IF asked = {} THEN ls
  ELSE [ls EXCEPT ![l] = [ear |-> ear, voices |-> voices, known |-> {},
                          at |-> "Introducing", on |-> IdsOf(asked)]]

\* Begins another connection: every voice is introduced again.
Again(l) ==
  IF IsListener(l)
  THEN LET asked == IntroducingEach(l, listeners[l].voices, listeners[l].ear, {}) IN
       /\ listeners' = [listeners EXCEPT ![l].at = "Introducing", ![l].on = IdsOf(asked)]
       /\ questions' = questions \union asked
  ELSE UNCHANGED <<listeners, questions>>

\* Waits before trying again, whatever the listener was doing.
TryAgainLater(l) ==
  LET timer == [id |-> FreshId({}), listening |-> l] IN
  /\ timers' = timers \union {timer}
  /\ listeners' = [listeners EXCEPT ![l].at = "Waiting", ![l].on = {timer.id}]

\* Stops listening: the listener goes, its wait with it, and its sockets are
\* told to close.
Stopped(l)       == [listeners EXCEPT ![l] = NoListener]
TimersWithout(l) == IF listeners[l].at = "Waiting"
                    THEN {t \in timers : t.id \notin listeners[l].on} ELSE timers
ToldToClose(ls)  == {IF s.listening \in ls THEN [s EXCEPT !.told = TRUE] ELSE s : s \in sockets}

----------------------------------------------------------------------------
(* What the platform answers, and what ends.                                 *)

FailsSometimes == faults < MaxFaults /\ faults' = faults + 1

\* A question was not answered, or not with what was asked; or it was never
\* made, because the write it waited on never landed.
CouldNotListen(q) ==
  /\ FailsSometimes
  /\ LateFails \/ ~IsListener(q.listening) \/ q.id \in listeners[q.listening].on
  /\ questions' = questions \ {q}
  /\ IF IsListener(q.listening)
     THEN TryAgainLater(q.listening)
     ELSE UNCHANGED <<listeners, timers>>
  /\ UNCHANGED <<bindings, sockets, draining, moves, renewals>>

\* Told who this instance is with one voice: with the last of those asked
\* for, the next question is where to connect.
Introduced(q) ==
  LET l        == q.listening
      listener == listeners[l]
      told     == [listener EXCEPT !.known = @ \union ({q.team} \intersect listener.voices)]
      asked    == listener.on \ {q.id}
      locating == Locating(l, FreshId({}), listener.ear)
  IN
  /\ q.what = "Introducing"
  /\ IF ~IsListener(l)
     THEN questions' = questions \ {q} /\ UNCHANGED listeners
     ELSE IF listener.at # "Introducing" \/ asked # {}
     THEN /\ questions' = questions \ {q}
          /\ listeners' = [listeners EXCEPT ![l] =
               IF listener.at = "Introducing" THEN [told EXCEPT !.on = asked] ELSE told]
     ELSE /\ questions' = (questions \ {q}) \union {locating}
          /\ listeners' = [listeners EXCEPT ![l] =
               [told EXCEPT !.at = "Locating", !.on = {locating.id}]]
  /\ UNCHANGED <<bindings, sockets, draining, timers, counted>>

\* Told where to connect: the socket is opened, to the app that was asked
\* about.
Located(q) ==
  LET socket == [id |-> FreshId({}), listening |-> q.listening, ear |-> q.ear, told |-> FALSE,
                 greeted |-> FALSE, warned |-> FALSE]
  IN
  /\ q.what = "Locating"
  /\ questions' = questions \ {q}
  /\ IF IsListener(q.listening)
     THEN /\ sockets' = sockets \union {socket}
          /\ listeners' = [listeners EXCEPT ![q.listening].at = "Connecting",
                                            ![q.listening].on = {socket.id}]
     ELSE UNCHANGED <<sockets, listeners>>
  /\ UNCHANGED <<bindings, draining, timers, counted>>

\* A frame that names no workspace is read with the first voice, once that
\* has been told who it is.
Reads(l) ==
  /\ IsListener(l)
  /\ \E v \in listeners[l].known : \A w \in listeners[l].voices : v <= w

\* The platform greets on a socket, once: the listener is up, where that is
\* the one it waits on and the greeting is read.
Greeted(s) ==
  LET l == s.listening IN
  /\ ~s.greeted
  /\ sockets' = (sockets \ {s}) \union {[s EXCEPT !.greeted = TRUE]}
  /\ listeners' = IF Reads(l) /\ listeners[l].at = "Connecting" /\ s.id \in listeners[l].on
                  THEN [listeners EXCEPT ![l].at = "Listening"] ELSE listeners
  /\ UNCHANGED <<bindings, questions, draining, timers, counted>>

\* The platform warns that it is about to close a socket: replaced at once, if
\* the listener is on it, and read until it closes.
Refresh(s) ==
  LET l == s.listening IN
  /\ renewals < MaxRenewals /\ renewals' = renewals + 1
  /\ ~s.warned
  /\ sockets' = (sockets \ {s}) \union {[s EXCEPT !.warned = TRUE]}
  /\ IF Reads(l) /\ listeners[l].at = "Listening" /\ s.id \in listeners[l].on
     THEN draining' = draining \union {s.id} /\ Again(l)
     ELSE UNCHANGED <<draining, listeners, questions>>
  /\ UNCHANGED <<bindings, timers, moves, faults>>

\* A slip: the end of a connection that was replaced is one more to replace.
ReplacesDrained(s) ==
  /\ sockets' = sockets \ {s}
  /\ draining' = draining \ {s.id}
  /\ IF IsListener(s.listening)
     THEN TryAgainLater(s.listening)
     ELSE UNCHANGED <<listeners, timers>>
  /\ UNCHANGED <<bindings, questions, moves, renewals>>

\* A socket ended: one being drained had been replaced; any other is the
\* listener's, which tries again.
Disconnected(s) ==
  /\ sockets' = sockets \ {s}
  /\ draining' = draining \ {s.id}
  /\ IF s.id \notin draining /\ IsListener(s.listening)
     THEN TryAgainLater(s.listening)
     ELSE UNCHANGED <<listeners, timers>>
  /\ UNCHANGED <<bindings, questions, moves, renewals>>

Ends(s)  == s.told \/ s.warned
Fails(s) == FailsSometimes /\ Disconnected(s)
Closes(s) == Ends(s) /\ Disconnected(s) /\ UNCHANGED faults

TryAgain(t) ==
  /\ timers' = timers \ {t}
  /\ Again(t.listening)
  /\ UNCHANGED <<bindings, sockets, draining, counted>>

----------------------------------------------------------------------------
(* What is bound, and what becomes of what listens for it.                   *)

Moves == moves < MaxMoves /\ moves' = moves + 1 /\ UNCHANGED <<draining, faults, renewals>>

\* Whether nothing is left of an earlier listener there.
Quiet(l) == \A x \in questions \union sockets \union timers : x.listening # l

StartsQuietly(l) == Rebinds \/ IsListener(l) \/ Quiet(l)

\* A project's binding is kept as an app of its own, or it has none any more:
\* what it listened with is stopped, the instance's app is listened to where
\* it was waiting on that stream, and its own app is.
Bind(p, ear) ==
  LET left  == Stopped(p)
      askedApp == Listen(left, App, app.ear, app.teams, {})
      freed == Begun(left, App, app.ear, app.teams, askedApp)
      askedOwn == Listen(freed, p, ear, {Sole}, IdsOf(askedApp))
  IN
  /\ Moves
  /\ own[p] # ear
  /\ ear # None => ear # app.ear
  /\ Rebinds \/ Quiet(p)  \/ ear = None
  /\ StartsQuietly(App)
  /\ own' = [own EXCEPT ![p] = ear]
  /\ listeners' = Begun(freed, p, ear, {Sole}, askedOwn)
  /\ questions' = questions \union askedApp \union askedOwn
  /\ timers' = TimersWithout(p)
  /\ sockets' = ToldToClose({p})
  /\ UNCHANGED app

\* The instance's app is registered, or its token replaced, its workspaces
\* kept where it is the same app.
RegisterChannelApp(ear, same) ==
  /\ Moves
  /\ ear # app.ear
  /\ Rotates \/ app.teams = {}
  /\ app' = [ear |-> ear, teams |-> IF same THEN app.teams ELSE {}]
  /\ UNCHANGED <<own, listeners, questions, sockets, timers>>

StopApp ==
  /\ listeners' = Stopped(App)
  /\ timers' = TimersWithout(App)
  /\ sockets' = ToldToClose({App})

ForgetChannelApp ==
  /\ Moves
  /\ app.ear # None
  /\ app' = [ear |-> None, teams |-> {}]
  /\ StopApp
  /\ UNCHANGED <<own, questions>>

\* A workspace is heard from now: with a voice of its own on the connection
\* there is, or by the first connection.
WorkspaceAdded(team) ==
  LET teams == app.teams \union {team}
      voice == Introducing(App, team, FreshId({}), listeners[App].ear)
      asked == IF IsListener(App) THEN {voice} ELSE Listen(listeners, App, app.ear, teams, {})
  IN
  /\ Moves
  /\ app.ear # None
  /\ StartsQuietly(App)
  /\ app' = [app EXCEPT !.teams = teams]
  /\ questions' = questions \union asked
  /\ listeners' =
       IF IsListener(App)
       THEN [listeners EXCEPT ![App].voices = @ \union {team}, ![App].known = @ \ {team},
                              ![App].on = IF listeners[App].at = "Introducing"
                                          THEN @ \union {voice.id} ELSE @]
       ELSE Begun(listeners, App, app.ear, teams, asked)
  /\ UNCHANGED <<own, sockets, timers>>

WorkspaceDropped(team) ==
  /\ Moves
  /\ team \in app.teams
  /\ app' = [app EXCEPT !.teams = @ \ {team}]
  /\ IF IsListener(App) /\ listeners[App].voices = {team}
     THEN StopApp
     ELSE /\ listeners' = [listeners EXCEPT ![App].voices = @ \ {team},
                                            ![App].known = @ \ {team}]
          /\ UNCHANGED <<sockets, timers>>
  /\ UNCHANGED <<own, questions>>

----------------------------------------------------------------------------
Init ==
  /\ own = [p \in Projects |-> None]
  /\ app = [ear |-> None, teams |-> {}]
  /\ listeners = [l \in Listenings |-> NoListener]
  /\ questions = {} /\ sockets = {} /\ draining = {} /\ timers = {}
  /\ moves = 0 /\ faults = 0 /\ renewals = 0

Answered == \E q \in questions : Introduced(q) \/ Located(q)
Greets   == \E s \in sockets : Greeted(s)
Closing  == \E s \in sockets : Closes(s)
Tries    == \E t \in timers : TryAgain(t)

Next ==
  \/ \E q \in questions : CouldNotListen(q)
  \/ Answered \/ Greets \/ Closing \/ Tries
  \/ \E s \in sockets : Refresh(s) \/ Fails(s)
  \/ \E p \in Projects, ear \in Ears \union {None} : Bind(p, ear)
  \/ \E ear \in Ears, same \in BOOLEAN : RegisterChannelApp(ear, same)
  \/ ForgetChannelApp
  \/ \E team \in Teams : WorkspaceAdded(team) \/ WorkspaceDropped(team)

Spec == Init /\ [][Next]_vars

\* The platform answers what it is asked, greets on what it opens and closes
\* what it was told to or said it would; the waits end.
Fairness == WF_vars(Answered) /\ WF_vars(Greets) /\ WF_vars(Closing) /\ WF_vars(Tries)

FairSpec == Spec /\ Fairness

----------------------------------------------------------------------------
\* What is known of each listener, question, socket and wait has its type.
TypeOK ==
  /\ own \in [Projects -> Ears \union {None}]
  /\ app \in [ear : Ears \union {None}, teams : SUBSET Teams]
  /\ \A l \in Listenings :
       /\ listeners[l].ear \in Ears \union {None}
       /\ listeners[l].known \subseteq listeners[l].voices
       /\ listeners[l].at \in {"Nowhere", "Introducing", "Locating", "Connecting",
                               "Listening", "Waiting"}
  /\ draining \subseteq {s.id : s \in sockets}

\* An app has one connection that is neither closing nor being drained: the
\* platform hands each event to one of them, and a second would hear half of
\* what is said (Running::listen, refresh, disconnected).
OneStream ==
  \A ear \in Ears :
    LET live == {s \in sockets : s.ear = ear /\ ~s.told /\ s.id \notin draining}
    IN \A s, t \in live : s = t

\* What a connection brings is read as the app it is bound to: a question in
\* flight when listening stopped answers to nobody (Running::stop_listening).
HearsItsOwn ==
  \A s \in sockets : ~s.told /\ IsListener(s.listening) => s.ear = listeners[s.listening].ear

\* An app there is something to listen with is listened to in the end, by
\* whoever has its stream, whatever failed and whoever had it before.
Wanted(ear) == ear \in {EarOf(l) : l \in {l \in Listenings : VoicesOf(l) # {}}}
Heard(ear)  == \E l \in Holders(listeners, ear), s \in sockets :
  s.ear = ear /\ listeners[l].at \in {"Connecting", "Listening"} /\ s.id \in listeners[l].on

Served(ear) == Wanted(ear) => Heard(ear)

IsHeard == \A ear \in Ears : ~Served(ear) ~> Served(ear)
============================================================================
