----------------------------- MODULE KeycloakRepo -----------------------------
(***************************************************************************)
(* The Keycloak sources the lab builds: scripts/keycloak-repo.sh, and the  *)
(* builds of dev.sh that call it.  One run at a time works command by      *)
(* command on the checkout .runtime/keycloak-source; a command may fail,   *)
(* and a run may be interrupted in any of them.                            *)
(*                                                                         *)
(* All callers write `resolve_keycloak_repo ... || die`, which switches    *)
(* errexit off inside the function: a command that fails there is not the  *)
(* end of the run, and the commands after it work on what it left.  And a  *)
(* git command in a directory whose .git is no repository any more works   *)
(* on the repository around it, which is the lab's own.                    *)
(***************************************************************************)
CONSTANTS
  Commit,  \* commits of the Keycloak fork
  Pinned,  \* the one OIDC4AC_LAB_KEYCLOAK_REF names by default
  None     \* no commit

ASSUME KeycloakRepoAssumption == Pinned \in Commit /\ None \notin Commit

VARIABLES
  submodule,  \* HEAD of keycloak-oidc4ac, None while it is not initialized
  remote,     \* the tip of the fork's branch
  own,        \* the user's OIDC4AC_LAB_KEYCLOAK_REPO checkout
  lab,        \* the lab's own repository: "kept", or "changed" by a run
  dir,        \* .runtime/keycloak-source
  archive,    \* what .build/keycloak.tar.gz was built from
  run         \* the running shell

vars == <<submodule, remote, own, lab, dir, archive, run>>

\* A .git directory is "ok", "gutted" (HEAD is there, objects are missing),
\* "broken" (git does not take it for a repository) or not there.  whole: the
\* tracked files are exactly those of HEAD.
Dir == [exists : BOOLEAN, git : {"ok", "gutted", "broken", "none"},
        head : Commit \cup {None}, mvnw : BOOLEAN, whole : BOOLEAN]
Missing == [exists |-> FALSE, git |-> "none", head |-> None, mvnw |-> FALSE, whole |-> FALSE]
Emptied == [Missing EXCEPT !.exists = TRUE]
Checkout(c) == [exists |-> TRUE, git |-> "ok", head |-> c, mvnw |-> TRUE, whole |-> TRUE]

\* What is left of d when rm -rf does not come to its end, and of a clone of c
\* whose checkout does not.
GitLeftovers(git) ==
  CASE git = "ok" -> {"ok", "gutted", "broken", "none"}
    [] git = "gutted" -> {"gutted", "broken", "none"}
    [] OTHER -> {git, "none"}
Remains(d, git, mvnw) ==
  [d EXCEPT !.git = git, !.head = IF git \in {"ok", "gutted"} THEN @ ELSE None,
            !.mvnw = @ /\ mvnw, !.whole = FALSE]
Leftovers(d) == {Remains(d, g, m) : g \in GitLeftovers(d.git), m \in BOOLEAN}
PartClones(c) == {[Checkout(c) EXCEPT !.mvnw = m, !.whole = FALSE] : m \in BOOLEAN}

\* .build/keycloak.tar.gz: the commit and the state of the tree it was built from.
Archive == [commit : Commit, whole : BOOLEAN]

\* A run: its command, the ref (or own checkout) it is configured with,
\* source_commit, FETCH_HEAD, KEYCLOAK_REPO, KEYCLOAK_REPO_MANAGED, and (history)
\* whether a command failed that need not have.
Run == [pc : {"idle", "died", "resolve", "remove", "clone_source", "detach", "clone",
              "fetch", "reset", "clean", "finish", "clean_before", "build", "clean_after"},
        command : {"build", "provider-build"}, ref : {"own", "pinned", "branch"},
        source_commit : Commit \cup {None}, fetched : Commit \cup {None},
        repo : {"", "checkout", "own"}, managed : BOOLEAN, fault : BOOLEAN]
Idle == [pc |-> "idle", command |-> "build", ref |-> "pinned", source_commit |-> None,
         fetched |-> None, repo |-> "", managed |-> FALSE, fault |-> FALSE]

Init ==
  /\ submodule \in Commit \cup {None}
  /\ remote \in Commit
  /\ own \in {"missing", "clean", "edited"}
  /\ lab = "kept"
  /\ dir = Missing
  /\ archive = None
  /\ run = Idle

At(p) == run.pc = p
Goto(p) == run' = [run EXCEPT !.pc = p]
FailTo(p) == run' = [run EXCEPT !.pc = p, !.fault = TRUE]
Ended == run.pc \in {"idle", "died"}

Invoke(command, ref) ==
  /\ Ended
  /\ run' = [Idle EXCEPT !.pc = "resolve", !.command = command, !.ref = ref]
  /\ UNCHANGED <<submodule, remote, own, lab, dir, archive>>

-------------------------------------------------------------------------------
(* resolve_keycloak_repo: a configured checkout *)

ResolveConfiguredManaged ==
  /\ At("resolve") /\ run.ref = "own"
  /\ \/ own # "missing" /\ run' = [run EXCEPT !.pc = "clean_before", !.repo = "own",
                                               !.managed = TRUE]
     \/ own = "missing" /\ Goto("died")
  /\ UNCHANGED <<submodule, remote, own, lab, dir, archive>>
ResolveConfigured ==
  /\ At("resolve") /\ run.ref = "own"
  /\ \/ own # "missing" /\ run' = [run EXCEPT !.pc = "clean_before", !.repo = "own",
                                               !.managed = FALSE]
     \/ own = "missing" /\ Goto("died")
  /\ UNCHANGED <<submodule, remote, own, lab, dir, archive>>

-------------------------------------------------------------------------------
(* stage_bundled_keycloak_repo: the submodule is initialized *)

\* rev-parse fails, or prints the lab's HEAD, where .git is no repository.
StagedSome(c) == dir.git \in {"ok", "gutted"} /\ dir.mvnw
Staged(c) == dir.git \in {"ok", "gutted"} /\ dir.mvnw /\ dir.head = c

StageUnread ==
  /\ At("resolve") /\ run.ref # "own" /\ submodule # None
  /\ Goto(IF Staged(submodule) THEN "finish" ELSE "remove")
  /\ UNCHANGED <<submodule, remote, own, lab, dir, archive>>
Stage ==
  /\ At("resolve") /\ run.ref # "own" /\ submodule # None
  /\ run' = [run EXCEPT !.pc = IF Staged(submodule) THEN "finish" ELSE "remove",
                        !.source_commit = submodule]
  /\ UNCHANGED <<submodule, remote, own, lab, dir, archive>>

KeepOldCheckout ==
  /\ At("remove")
  /\ Goto("clone_source")
  /\ UNCHANGED <<submodule, remote, own, lab, dir, archive>>
RemoveOldCheckout ==
  /\ At("remove")
  /\ \/ dir' = Missing /\ Goto("clone_source")
     \/ dir.exists /\ dir' \in Leftovers(dir) /\ FailTo("clone_source")
  /\ UNCHANGED <<submodule, remote, own, lab, archive>>

\* git clone refuses a directory that is not empty, removes what it has created
\* when the transfer fails, and leaves it when the checkout does.
Clone(c, pc) ==
  IF dir \in {Missing, Emptied}
  THEN \/ dir' = Checkout(c) /\ Goto(pc)
       \/ dir' \in {dir} \cup PartClones(c) /\ FailTo(pc)
  ELSE UNCHANGED dir /\ Goto(pc)

CloneSource ==
  /\ At("clone_source")
  /\ Clone(run.source_commit, "detach")
  /\ UNCHANGED <<submodule, remote, own, lab, archive>>

\* checkout --detach and clean -fdx.  In an old checkout that could not be
\* removed the commit may be unknown, and the files that differ from the old
\* commit's are written again; in the lab's repository the commit is unknown.
Detach ==
  LET c == run.source_commit
      Switched == {d \in Dir : /\ d.exists /\ d.git = "ok" /\ d.head = c
                               /\ dir.mvnw => d.mvnw
                               /\ dir.whole => d.whole
                               /\ d.whole => d.mvnw}
  IN
  /\ At("detach")
  /\ dir' \in CASE dir.git = "ok" /\ dir.head # c -> {dir} \cup Switched
              [] dir.exists /\ dir.git \in {"broken", "none"} -> {Emptied}
              [] OTHER -> {dir}
  /\ Goto("finish")
  /\ UNCHANGED <<submodule, remote, own, lab, archive>>

-------------------------------------------------------------------------------
(* resolve_keycloak_repo: the remote fallback *)

ResolveRemote ==
  /\ At("resolve") /\ run.ref # "own" /\ submodule = None
  /\ Goto(IF ~dir.exists THEN "clone"
          ELSE IF dir.mvnw /\ dir.git # "none" THEN "fetch"
          ELSE "died")
  /\ UNCHANGED <<submodule, remote, own, lab, dir, archive>>

\* A branch is cloned as such; for a commit the default branch is, at first.
CloneRemote ==
  /\ At("clone")
  /\ Clone(remote, IF run.ref = "pinned" THEN "fetch" ELSE "finish")
  /\ UNCHANGED <<submodule, remote, own, lab, archive>>

\* remote set-url and fetch; a fetch that fails leaves FETCH_HEAD empty.
Fetch ==
  LET c == IF run.ref = "pinned" THEN Pinned ELSE remote IN
  /\ At("fetch")
  /\ \/ dir.exists /\ run' = [run EXCEPT !.pc = "reset", !.fetched = c]
     \/ run' = [run EXCEPT !.pc = "reset", !.fetched = None, !.fault = TRUE]
  /\ lab' = IF dir.git = "broken" THEN "changed" ELSE lab
  /\ UNCHANGED <<submodule, remote, own, dir, archive>>

\* reset --hard FETCH_HEAD and clean -fdx.
ResetToFetched ==
  LET c == run.fetched IN
  /\ At("reset")
  /\ IF c = None THEN UNCHANGED <<dir, lab>> /\ Goto("clean")
     ELSE IF dir.git = "broken" THEN lab' = "changed" /\ UNCHANGED dir /\ Goto("clean")
     ELSE /\ \/ dir' = Checkout(c) /\ Goto("clean")
             \/ dir' = [dir EXCEPT !.whole = FALSE] /\ FailTo("clean")
          /\ UNCHANGED lab
  /\ UNCHANGED <<submodule, remote, own, archive>>

CleanFetched ==
  /\ At("clean")
  /\ dir' = IF dir.git = "broken" THEN Emptied ELSE dir
  /\ Goto("finish")
  /\ UNCHANGED <<submodule, remote, own, lab, archive>>

-------------------------------------------------------------------------------
(* The end of both, and the builds *)

\* KEYCLOAK_REPO is empty if there is no directory to enter.
Finish ==
  /\ At("finish")
  /\ run' = [run EXCEPT !.pc = "clean_before", !.managed = TRUE,
                        !.repo = IF dir.exists THEN "checkout" ELSE ""]
  /\ UNCHANGED <<submodule, remote, own, lab, dir, archive>>

\* mvnw is executable there.
Usable == run.repo = "own" \/ (run.repo = "checkout" /\ dir.mvnw)

NotUsable ==
  /\ At("clean_before") /\ ~Usable
  /\ Goto("died")
  /\ UNCHANGED <<submodule, remote, own, lab, dir, archive>>

\* clean_managed_keycloak_repo, with errexit on.
SkipClean(pc) == Goto(pc) /\ UNCHANGED <<own, lab, dir>>
CleanManaged(pc) ==
  CASE ~run.managed -> Goto(pc) /\ UNCHANGED <<own, lab, dir>>
    [] run.managed /\ run.repo = "own" ->
         own' = "clean" /\ Goto(pc) /\ UNCHANGED <<lab, dir>>
    [] run.managed /\ run.repo = "checkout" /\ dir.git = "ok" ->
         /\ \/ dir' = Checkout(dir.head) /\ Goto(pc)
            \/ dir' = [dir EXCEPT !.whole = FALSE] /\ FailTo("died")
         /\ UNCHANGED <<own, lab>>
    [] run.managed /\ run.repo = "checkout" /\ dir.git = "gutted" ->
         Goto("died") /\ UNCHANGED <<own, lab, dir>>
    [] OTHER ->
         lab' = "changed" /\ dir' = Emptied /\ Goto(pc) /\ UNCHANGED own

CleanBefore ==
  /\ At("clean_before") /\ Usable
  /\ CleanManaged("build")
  /\ UNCHANGED <<submodule, remote, archive>>

\* Maven succeeds or fails, and changes tracked files either way.
Build ==
  /\ At("build")
  /\ IF run.repo = "own" THEN own' = "edited" /\ UNCHANGED dir
     ELSE UNCHANGED own /\ dir' \in {dir, [dir EXCEPT !.whole = FALSE]}
  /\ \/ FailTo("died") /\ UNCHANGED archive
     \/ /\ run.repo = "own" \/ dir.git = "ok"
        /\ archive' = IF run.command = "provider-build" THEN archive
                      ELSE IF run.repo = "own" THEN None
                      ELSE [commit |-> dir.head, whole |-> dir.whole]
        /\ Goto("clean_after")
  /\ UNCHANGED <<submodule, remote, lab>>

CleanAfter ==
  /\ At("clean_after")
  /\ CleanManaged("idle")
  /\ UNCHANGED <<submodule, remote, archive>>

\* Ctrl-C, or the machine stops, in the middle of a command.
Interrupt ==
  /\ ~Ended
  /\ CASE At("remove") -> dir' \in {dir} \cup Leftovers(dir)
       [] At("clone_source") /\ dir \in {Missing, Emptied} ->
            dir' \in {dir} \cup PartClones(run.source_commit)
       [] At("clone") -> dir' \in {dir, Emptied} \cup PartClones(remote)
       [] run.pc \in {"reset", "clean_before", "build", "clean_after"} ->
            dir' \in {dir, [dir EXCEPT !.whole = FALSE]}
       [] OTHER -> UNCHANGED dir
  /\ FailTo("idle")
  /\ UNCHANGED <<submodule, remote, own, lab, archive>>

-------------------------------------------------------------------------------
(* Between runs *)

\* git submodule update, or deinit; the branch of the fork moves.
MoveSubmodule == /\ Ended
                 /\ submodule' \in Commit \cup {None}
                 /\ UNCHANGED <<remote, own, lab, dir, archive, run>>
MoveRemote == /\ remote' \in Commit
              /\ UNCHANGED <<submodule, own, lab, dir, archive, run>>
EditOwn == /\ Ended /\ own = "clean"
           /\ own' = "edited"
           /\ UNCHANGED <<submodule, remote, lab, dir, archive, run>>

\* ./dev.sh clean removes .runtime and .build; it, too, may be interrupted.
CleanLab == /\ Ended
            /\ \/ dir' = Missing /\ archive' = None
               \/ dir.exists /\ dir' \in {Missing} \cup Leftovers(dir) /\ UNCHANGED archive
            /\ UNCHANGED <<submodule, remote, own, lab, run>>

Resolve ==
  \/ ResolveConfigured
  \/ Stage \/ RemoveOldCheckout \/ CloneSource \/ Detach
  \/ ResolveRemote \/ CloneRemote \/ Fetch \/ ResetToFetched \/ CleanFetched
  \/ Finish

Next ==
  \/ \E command \in {"build", "provider-build"}, ref \in {"own", "pinned", "branch"} :
       Invoke(command, ref)
  \/ Resolve
  \/ NotUsable \/ CleanBefore \/ Build \/ CleanAfter
  \/ Interrupt
  \/ MoveSubmodule \/ MoveRemote \/ EditOwn \/ CleanLab

Spec == Init /\ [][Next]_vars

-------------------------------------------------------------------------------
(* Properties *)

\* Every variable keeps its shape, and a tree that is whole has a repository it is
\* whole in.
TypeOK ==
  /\ submodule \in Commit \cup {None}
  /\ remote \in Commit
  /\ own \in {"missing", "clean", "edited"}
  /\ lab \in {"kept", "changed"}
  /\ dir \in Dir
  /\ dir.whole => dir.git = "ok" /\ dir.mvnw
  /\ dir.git \in {"ok", "gutted"} <=> dir.head # None
  /\ archive \in Archive \cup {None}
  /\ run \in Run

\* Whatever an earlier run left (files Maven changed, half a clone, half a
\* removal), a managed build starts from the whole, unchanged tree of one commit:
\* clean_managed_keycloak_repo comes before Maven and stops the run if it fails.
BuiltFromWholeTree == archive # None => archive.whole

\* A run that stages the bundled submodule, and in which nothing fails, builds the
\* commit the submodule had when it began, through all reuse of the checkout: it may
\* have been staged for another commit, fetched by the remote fallback, or left half
\* removed.  (A removal that fails with nobody noticing may leave the old commit.)
BuiltFromPinned ==
  [][run.pc = "build" /\ run'.pc = "clean_after" /\ run.source_commit # None /\ ~run.fault
       => dir.head = run.source_commit]_vars

\* With the submodule initialized, a run in which nothing fails is not stopped by
\* what earlier runs left behind, unless that is a checkout without its objects:
\* stage_bundled_keycloak_repo looks at HEAD and mvnw only and reuses it.
StagingRecovers ==
  [][run'.pc = "died" /\ run.pc # "died" /\ run.source_commit # None /\ ~run'.fault
       => dir.git = "gutted"]_vars

\* docs/configuration-reference.md: an explicit checkout is used directly; edits in
\* it survive every build, since only managed checkouts are reset.
OwnEditsKept == [][own = "edited" => own' = "edited"]_vars

\* The comment in resolve_keycloak_repo says that repeated runs cannot silently
\* reuse a stale implementation: a run that got its sources from the fork goes on
\* with the configured commit only.
FetchedIsConfigured ==
  At("build") /\ run.repo = "checkout" /\ run.source_commit = None /\ run.ref = "pinned"
    => dir.head = Pinned

\* docs/configuration-reference.md says that the helper may reset the generated
\* directory: the lab's own repository is not what it resets.
LabKept == lab = "kept"
===============================================================================
