---------------------------- MODULE MC_Holdings ----------------------------
EXTENDS Holdings, Sequences, TLC

\* Configuration: opened with nothing, or with what was left: a project whose
\* repository is reached by a token, spoken with in a workspace.
Opened0 == [purses |-> {}, projects |-> [p \in Trackable |-> [status |-> "Unwatched"]],
            app |-> [key |-> 0, installations |-> {}],
            channelApp |-> [client |-> "None", ear |-> "None", workspaces |-> {}]]
Left == [status |-> "Watched", foreman |-> "claude", kits |-> {"claude"}, repository |-> "r1",
         access |-> [kind |-> "Token", secret |-> "t1", owner |-> "t1"],
         binding |-> [kind |-> "Workspace", team |-> "w"],
         job |-> [progress |-> "Retired", purse |-> "None"]]
Left0 == [Opened0 EXCEPT !.purses = {"claude"}, !.projects["p"] = Left,
                         !.channelApp = [client |-> "ours", ear |-> "app", workspaces |-> {"w"}]]
EitherStart == {Opened0, Left0}

\* The few drafts that tell its properties apart: two a project can be created by,
\* with an installation and an app of its own or a token and a workspace; for each
\* one that leaves these unsaid and moves it to another repository; and two that
\* move a project to another purse, whole or not, and nothing else.
Draft(foreman, kit, through, repository, channel) ==
  [foreman |-> foreman, kits |-> {kit}, access |-> through, repository |-> repository,
   binding |-> channel]
Typed(t) == [kind |-> "Token", token |-> t]
App(tab) == [kind |-> "App", arrival |-> tab]
Team(tab) == [kind |-> "Workspace", arrival |-> tab]
Kept == [kind |-> "Kept"]
FewDrafts ==
  {Draft("claude", "claude", App(1), "r1", [kind |-> "Own", ear |-> "own"]),
   Draft("claude", "claude", App(0), "r2", Kept),
   Draft("claude", "claude", Typed("t2"), "r1", Team(1)),
   Draft("claude", "claude", Typed("None"), "r2", Team(0)),
   Draft("codex", "codex", Typed("None"), "r1", Kept),
   Draft("codex", "claude", Typed("None"), "r1", Kept)}

\* Hearing: the instance's app has a workspace with a room, an owned app another.
Installs == (0 :> {1}) @@ [p \in Owning |-> {2}]
Where    == ("a" :> 1) @@ ("b" :> 2)

\* Images: a release that changes what both jobs' image is built from.
First == [s \in Turning |-> 1]
Second == [s \in Turning |-> 3]
Edited2 == <<First, Second>>
OnOne == [s \in Turning |-> "here"]

\* Dashboard: one project with two jobs.
Placed == [j \in Tasks |-> 1]
Bound == [p \in Followed |-> 1]

\* No property tells one repository of a form, or one purse of a page, from the other.
Alike == Permutations(Repositories) \union Permutations(Purses)
=============================================================================
