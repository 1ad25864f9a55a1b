-------------------------- MODULE MC_Configuration --------------------------
(***************************************************************************)
(* An instance opened with nothing, or with everything there is to hold,     *)
(* and the few drafts that tell its properties apart.                        *)
(***************************************************************************)
EXTENDS Configuration

Opened0 == [purses |-> {}, projects |-> [p \in Projects |-> Unwatched],
            app |-> [key |-> 0, installations |-> {}],
            channelApp |-> [client |-> None, ear |-> None, workspaces |-> {}]]

Held0 == [Opened0 EXCEPT !.purses = Purses,
                         !.app = [key |-> 1, installations |-> {}],
                         !.channelApp = [client |-> "ours", ear |-> "app", workspaces |-> {}]]

EitherStart == {Opened0, Held0}

Draft(foreman, kit, access, repository, binding) ==
  [foreman |-> foreman, kits |-> {kit}, access |-> access, repository |-> repository,
   binding |-> binding]

Typed(t)  == [kind |-> "Token", token |-> t]
App(tab)  == [kind |-> "App", arrival |-> tab]
Pair(ear) == [kind |-> "Own", ear |-> ear]
Team(tab) == [kind |-> "Workspace", arrival |-> tab]
KeptIt    == [kind |-> "Kept"]

FewDrafts ==
  {Draft("claude", "claude", App(1), "r1", Pair("own")),
   Draft("codex", "codex", App(0), "r2", KeptIt),
   Draft("claude", "claude", Typed("t1"), "r1", Team(1)),
   Draft("claude", "codex", Typed(None), "r2", Team(0))}
=============================================================================
