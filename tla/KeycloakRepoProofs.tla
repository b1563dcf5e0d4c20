-------------------------- MODULE KeycloakRepoProofs --------------------------
(***************************************************************************)
(* Theorems about the Keycloak sources, for any number of commits and any  *)
(* history of runs, failures, interruptions and moves of the submodule and *)
(* the branch.                                                             *)
(***************************************************************************)
EXTENDS KeycloakRepo, TLAPS

(***************************************************************************)
(* The checkout.                                                           *)
(***************************************************************************)

\* The conjuncts of TypeOK about .runtime/keycloak-source, and that a repository is
\* somewhere.
DirOK(d) ==
  /\ d \in Dir
  /\ d.git # "none" => d.exists
  /\ d.whole => d.git = "ok" /\ d.mvnw
  /\ d.git \in {"ok", "gutted"} <=> d.head # None

LEMMA NoneIsNoCommit == None \notin Commit /\ Pinned \in Commit
BY KeycloakRepoAssumption

LEMMA MissingOK == DirOK(Missing) /\ DirOK(Emptied) /\ Emptied.git = "none" /\ Missing.git = "none"
BY DEF DirOK, Dir, Missing, Emptied

LEMMA CheckoutOK ==
  ASSUME NEW c \in Commit
  PROVE  /\ DirOK(Checkout(c))
         /\ \A d \in PartClones(c) : DirOK(d)
         /\ Checkout(c).head = c /\ Checkout(c).git = "ok" /\ Checkout(c).mvnw
         /\ Checkout(c).exists /\ Checkout(c).whole
BY NoneIsNoCommit DEF DirOK, Dir, Checkout, PartClones

\* What a removal leaves behind is a checkout that is not whole.
LEMMA LeftoversOK ==
  ASSUME NEW d, DirOK(d), NEW e \in Leftovers(d) PROVE DirOK(e)
<1>1. PICK g \in GitLeftovers(d.git), m \in BOOLEAN : e = Remains(d, g, m)
  BY DEF Leftovers
<1>2. d \in Dir /\ g \in {"ok", "gutted", "broken", "none"}
  BY DEF DirOK, Dir, GitLeftovers
<1>3. (g \in {"ok", "gutted"} => d.git \in {"ok", "gutted"}) /\ (g # "none" => d.git # "none")
  BY <1>2 DEF GitLeftovers, Dir
<1>4. e \in Dir
  BY <1>1, <1>2 DEF Remains, Dir
<1>5. e.git = g /\ e.exists = d.exists /\ ~e.whole /\ e.head = IF g \in {"ok", "gutted"} THEN d.head ELSE None
  BY <1>1, <1>2 DEF Remains, Dir
<1> QED BY <1>3, <1>4, <1>5 DEF DirOK

\* Maven, an interrupted reset or clean: the tree is no longer whole.
LEMMA SpoiltOK ==
  ASSUME NEW d, DirOK(d)
  PROVE  /\ DirOK([d EXCEPT !.whole = FALSE])
         /\ [d EXCEPT !.whole = FALSE].git = d.git /\ [d EXCEPT !.whole = FALSE].head = d.head
         /\ [d EXCEPT !.whole = FALSE].mvnw = d.mvnw /\ [d EXCEPT !.whole = FALSE].exists = d.exists
         /\ ~[d EXCEPT !.whole = FALSE].whole
BY DEF DirOK, Dir

(***************************************************************************)
(* The inductive invariant.                                                *)
(***************************************************************************)

\* The submodule's commit is read before anything else, and by the bundled way only.
SourceInv ==
  /\ run.pc \in {"resolve", "clone", "fetch", "reset", "clean"} => run.source_commit = None
  /\ run.pc \in {"remove", "clone_source", "detach"} => run.source_commit # None

\* From clean_before on a run works on the user's checkout, which it does not reset, or on
\* the generated one, which it does.
ManagedInv ==
  run.pc \in {"clean_before", "build", "clean_after"} => (run.managed <=> run.repo # "own")

\* Maven starts on a whole tree, unless there is no repository at all.
WholeInv ==
  /\ run.pc = "build" /\ run.repo # "own" /\ dir.git = "ok" => dir.whole
  /\ BuiltFromWholeTree

\* A run that stages the submodule and in which nothing has failed yet: what each of its
\* commands finds.
AtSource == dir.head = run.source_commit
PinnedInv ==
  run.source_commit # None /\ ~run.fault =>
    /\ run.pc = "clone_source" => dir = Missing
    /\ run.pc = "detach" => dir = Checkout(run.source_commit)
    /\ run.pc = "finish" => dir.exists /\ dir.mvnw /\ AtSource
    /\ run.pc \in {"clean_before", "build", "clean_after"} =>
         run.repo = "checkout" /\ dir.mvnw /\ AtSource
    /\ run.pc = "build" => dir.git = "ok"

Typed == TypeOK /\ DirOK(dir)
Inv == Typed /\ SourceInv /\ ManagedInv /\ WholeInv /\ PinnedInv

-------------------------------------------------------------------------------
(* Moves of a run *)

PCs == {"idle", "died", "resolve", "remove", "clone_source", "detach", "clone",
        "fetch", "reset", "clean", "finish", "clean_before", "build", "clean_after"}

LEMMA GotoRun ==
  ASSUME run \in Run, NEW p \in PCs, Goto(p)
  PROVE  /\ run' \in Run /\ run'.pc = p
         /\ run'.source_commit = run.source_commit /\ run'.fault = run.fault
         /\ run'.repo = run.repo /\ run'.managed = run.managed
BY DEF Goto, Run, PCs
LEMMA FailRun ==
  ASSUME run \in Run, NEW p \in PCs, FailTo(p)
  PROVE  /\ run' \in Run /\ run'.pc = p /\ run'.fault
         /\ run'.source_commit = run.source_commit
         /\ run'.repo = run.repo /\ run'.managed = run.managed
BY DEF FailTo, Run, PCs

\* What the invariant says, for the provers.
LEMMA Types ==
  ASSUME Inv
  PROVE  /\ run \in Run /\ DirOK(dir) /\ dir \in Dir /\ submodule \in Commit \cup {None}
         /\ remote \in Commit /\ lab \in {"kept", "changed"}
         /\ own \in {"missing", "clean", "edited"}
         /\ run.source_commit \in Commit \cup {None} /\ run.fetched \in Commit \cup {None}
         /\ dir.git = "ok" => dir.head \in Commit
         /\ archive \in Archive \cup {None}
BY NoneIsNoCommit DEF Inv, Typed, TypeOK, DirOK, Run, Dir

\* The types again, from their parts.
LEMMA TypesAgain ==
  ASSUME run' \in Run, DirOK(dir)', submodule' \in Commit \cup {None}, remote' \in Commit,
         lab' \in {"kept", "changed"}, own' \in {"missing", "clean", "edited"},
         archive' \in Archive \cup {None}
  PROVE  Typed'
BY DEF Typed, TypeOK, DirOK

\* A run that is at its end, or that is interrupted, is asked nothing.
LEMMA EndedInv ==
  ASSUME run'.pc \in {"idle", "died"}, BuiltFromWholeTree' PROVE
         SourceInv' /\ ManagedInv' /\ WholeInv' /\ PinnedInv'
BY DEF SourceInv, ManagedInv, WholeInv, PinnedInv

-------------------------------------------------------------------------------
(* Every step keeps the invariant *)

LEMMA InitInv == Init => Inv
<1> SUFFICES ASSUME Init PROVE Inv
  OBVIOUS
<1>1. run = Idle /\ Idle \in Run /\ Idle.pc = "idle"
  BY DEF Init, Idle, Run
<1>2. Typed
  BY <1>1, MissingOK DEF Init, Typed, TypeOK, DirOK
<1>3. SourceInv /\ ManagedInv /\ WholeInv /\ PinnedInv
  BY <1>1 DEF Init, SourceInv, ManagedInv, WholeInv, PinnedInv, BuiltFromWholeTree
<1> QED BY <1>2, <1>3 DEF Inv

LEMMA InvokeInv ==
  ASSUME Inv, NEW command \in {"build", "provider-build"}, NEW ref \in {"own", "pinned", "branch"},
         Invoke(command, ref)
  PROVE  Inv'
<1>1. /\ run' = [Idle EXCEPT !.pc = "resolve", !.command = command, !.ref = ref]
      /\ UNCHANGED <<submodule, remote, own, lab, dir, archive>>
  BY DEF Invoke
<1>2. run' \in Run /\ run'.pc = "resolve" /\ run'.source_commit = None
  BY <1>1 DEF Idle, Run
<1>3. Typed'
  BY <1>1, <1>2, Types, TypesAgain DEF DirOK
<1>4. SourceInv' /\ ManagedInv' /\ WholeInv' /\ PinnedInv'
  BY <1>1, <1>2 DEF Inv, SourceInv, ManagedInv, WholeInv, PinnedInv, BuiltFromWholeTree
<1> QED BY <1>3, <1>4 DEF Inv

LEMMA ConfiguredInv == ASSUME Inv, ResolveConfigured PROVE Inv'
<1>1. run \in Run /\ run.source_commit = None /\ UNCHANGED <<submodule, remote, own, lab, dir, archive>>
  BY Types DEF ResolveConfigured, At, Inv, SourceInv
<1>2. CASE run' = [run EXCEPT !.pc = "clean_before", !.repo = "own", !.managed = FALSE]
  <2>1. /\ run' \in Run /\ run'.pc = "clean_before" /\ run'.repo = "own" /\ ~run'.managed
        /\ run'.source_commit = None
    BY <1>1, <1>2 DEF Run
  <2>2. Typed'
    BY <1>1, <2>1, Types, TypesAgain DEF DirOK
  <2>3. SourceInv' /\ ManagedInv' /\ WholeInv' /\ PinnedInv'
    BY <1>1, <2>1 DEF Inv, SourceInv, ManagedInv, WholeInv, PinnedInv, BuiltFromWholeTree
  <2> QED BY <2>2, <2>3 DEF Inv
<1>3. CASE Goto("died")
  <2>1. run' \in Run /\ run'.pc = "died"
    BY <1>1, <1>3, GotoRun DEF PCs
  <2>2. Typed'
    BY <1>1, <2>1, Types, TypesAgain DEF DirOK
  <2> QED BY <1>1, <2>1, <2>2, EndedInv DEF Inv, WholeInv, BuiltFromWholeTree
<1> QED BY <1>2, <1>3 DEF ResolveConfigured

\* A checkout of the submodule's commit is reused; anything else is removed.
LEMMA StageInv == ASSUME Inv, Stage PROVE Inv'
<1>1. /\ run' = [run EXCEPT !.pc = IF Staged(submodule) THEN "finish" ELSE "remove",
                            !.source_commit = submodule]
      /\ submodule \in Commit /\ submodule # None
      /\ UNCHANGED <<submodule, remote, own, lab, dir, archive>>
  BY Types, NoneIsNoCommit DEF Stage
<1>2. /\ run' \in Run /\ run'.source_commit = submodule
      /\ run'.pc = IF Staged(submodule) THEN "finish" ELSE "remove"
  BY <1>1, Types DEF Run
<1>3. Typed'
  BY <1>1, <1>2, Types, TypesAgain DEF DirOK
<1>4. SourceInv' /\ ManagedInv' /\ WholeInv'
  BY <1>1, <1>2 DEF Inv, SourceInv, ManagedInv, WholeInv, BuiltFromWholeTree
<1>5. PinnedInv'
  <2>1. Staged(submodule) => dir.exists /\ dir.mvnw /\ dir.head = submodule
    BY Types DEF Staged, DirOK
  <2>2. dir' = dir /\ submodule' = submodule
    BY <1>1
  <2> QED BY <1>2, <2>1, <2>2 DEF PinnedInv, AtSource
<1> QED BY <1>3, <1>4, <1>5 DEF Inv

\* What the commands before clean_before leave of the invariant.
LEMMA Staging ==
  ASSUME Inv, run'.pc \notin {"clean_before", "build", "clean_after"}, archive' = archive
  PROVE  ManagedInv' /\ WholeInv'
BY DEF Inv, ManagedInv, WholeInv, BuiltFromWholeTree

LEMMA Faulty == ASSUME run'.fault \/ run'.source_commit = None PROVE PinnedInv'
BY DEF PinnedInv

LEMMA RemoveInv == ASSUME Inv, RemoveOldCheckout PROVE Inv'
<1>1. /\ run \in Run /\ run.source_commit # None /\ DirOK(dir)
      /\ UNCHANGED <<submodule, remote, own, lab, archive>>
  BY Types DEF RemoveOldCheckout, At, Inv, SourceInv
<1>2. /\ run' \in Run /\ run'.pc = "clone_source" /\ run'.source_commit # None
      /\ DirOK(dir') /\ (run'.fault \/ dir' = Missing)
  <2>1. CASE dir' = Missing /\ Goto("clone_source")
    BY <1>1, <2>1, GotoRun, MissingOK DEF PCs
  <2>2. CASE dir' \in Leftovers(dir) /\ FailTo("clone_source")
    BY <1>1, <2>2, FailRun, LeftoversOK DEF PCs
  <2> QED BY <2>1, <2>2 DEF RemoveOldCheckout
<1>3. Typed'
  BY <1>1, <1>2, Types, TypesAgain
<1>4. SourceInv' /\ PinnedInv'
  BY <1>2 DEF SourceInv, PinnedInv
<1> QED BY <1>1, <1>2, <1>3, <1>4, Staging DEF Inv

\* git clone: of a directory that was not there nothing is missing, or something failed.
LEMMA CloneDoes ==
  ASSUME Inv, NEW c \in Commit, NEW p \in PCs, Clone(c, p)
  PROVE  /\ run' \in Run /\ run'.pc = p /\ run'.source_commit = run.source_commit
         /\ DirOK(dir')
         /\ run'.fault \/ (run'.fault = run.fault /\ (dir = Missing => dir' = Checkout(c)))
<1>1. run \in Run /\ DirOK(dir)
  BY Types
<1>2. CASE dir' = Checkout(c) /\ Goto(p)
  BY <1>1, <1>2, GotoRun, CheckoutOK
<1>3. CASE dir' \in {dir} \cup PartClones(c) /\ FailTo(p)
  BY <1>1, <1>3, FailRun, CheckoutOK
<1>4. CASE dir \notin {Missing, Emptied} /\ UNCHANGED dir /\ Goto(p)
  BY <1>1, <1>4, GotoRun
<1> QED BY <1>2, <1>3, <1>4 DEF Clone

LEMMA CloneSourceInv == ASSUME Inv, CloneSource PROVE Inv'
<1>1. /\ run.pc = "clone_source" /\ run.source_commit \in Commit /\ run.source_commit # None
      /\ Clone(run.source_commit, "detach") /\ UNCHANGED <<submodule, remote, own, lab, archive>>
  BY Types DEF CloneSource, At, Inv, SourceInv
<1>2. /\ run' \in Run /\ run'.pc = "detach" /\ run'.source_commit = run.source_commit
      /\ DirOK(dir')
      /\ run'.fault \/ (run'.fault = run.fault /\ (dir = Missing => dir' = Checkout(run.source_commit)))
  BY <1>1, CloneDoes DEF PCs
<1>3. Typed'
  BY <1>1, <1>2, Types, TypesAgain
<1>4. SourceInv'
  BY <1>1, <1>2 DEF SourceInv
<1>5. PinnedInv'
  BY <1>1, <1>2 DEF Inv, PinnedInv
<1> QED BY <1>1, <1>2, <1>3, <1>4, <1>5, Staging DEF Inv

LEMMA CloneRemoteInv == ASSUME Inv, CloneRemote PROVE Inv'
<1> DEFINE p == IF run.ref = "pinned" THEN "fetch" ELSE "finish"
<1>1. /\ run.pc = "clone" /\ remote \in Commit /\ run.source_commit = None
      /\ Clone(remote, p) /\ UNCHANGED <<submodule, remote, own, lab, archive>>
  BY Types DEF CloneRemote, At, Inv, SourceInv
<1>2. p \in PCs /\ p \in {"fetch", "finish"}
  BY DEF PCs
<1>3. /\ run' \in Run /\ run'.pc = p /\ run'.source_commit = None /\ DirOK(dir')
  BY <1>1, <1>2, CloneDoes
<1>4. Typed'
  BY <1>1, <1>3, Types, TypesAgain
<1>5. SourceInv' /\ PinnedInv'
  BY <1>2, <1>3, Faulty DEF SourceInv
<1> QED BY <1>1, <1>2, <1>3, <1>4, <1>5, Staging DEF Inv

\* A fresh clone of the commit stays what it is.
LEMMA DetachInv == ASSUME Inv, Detach PROVE Inv'
<1>1. /\ run.pc = "detach" /\ run.source_commit \in Commit /\ run.source_commit # None
      /\ run \in Run /\ DirOK(dir) /\ Goto("finish")
      /\ UNCHANGED <<submodule, remote, own, lab, archive>>
  BY Types DEF Detach, At, Inv, SourceInv
<1>2. /\ run' \in Run /\ run'.pc = "finish" /\ run'.source_commit = run.source_commit
      /\ run'.fault = run.fault
  BY <1>1, GotoRun DEF PCs
<1>3. DirOK(dir')
  <2>1. CASE dir.git = "ok" /\ dir.head # run.source_commit
    BY <1>1, <2>1, NoneIsNoCommit DEF Detach, DirOK
  <2>2. CASE dir.exists /\ dir.git \in {"broken", "none"}
    BY <1>1, <2>2, MissingOK DEF Detach
  <2>3. CASE ~(dir.git = "ok" /\ dir.head # run.source_commit)
             /\ ~(dir.exists /\ dir.git \in {"broken", "none"})
    BY <1>1, <2>3 DEF Detach
  <2> QED BY <2>1, <2>2, <2>3
<1>4. Typed'
  BY <1>1, <1>2, <1>3, Types, TypesAgain
<1>5. PinnedInv'
  <2>1. SUFFICES ASSUME ~run.fault PROVE PinnedInv'
    BY <1>2, Faulty DEF PinnedInv
  <2>2. dir = Checkout(run.source_commit)
    BY <1>1, <2>1 DEF Inv, PinnedInv
  <2>3. /\ dir.git = "ok" /\ dir.head = run.source_commit /\ dir.mvnw /\ dir.exists
    BY <1>1, <2>2, CheckoutOK
  <2>4. dir' = dir
    BY <2>3 DEF Detach
  <2> QED BY <1>2, <2>3, <2>4 DEF PinnedInv, AtSource
<1>6. SourceInv'
  BY <1>2 DEF SourceInv
<1> QED BY <1>1, <1>2, <1>4, <1>5, <1>6, Staging DEF Inv
-------------------------------------------------------------------------------
(* The remote fallback: no commit of the submodule is read *)

LEMMA ResolveRemoteInv == ASSUME Inv, ResolveRemote PROVE Inv'
<1>1. /\ run \in Run /\ run.source_commit = None
      /\ UNCHANGED <<submodule, remote, own, lab, dir, archive>>
  BY Types DEF ResolveRemote, At, Inv, SourceInv
<1>2. \E p \in {"clone", "fetch", "died"} : Goto(p)
  BY DEF ResolveRemote
<1>3. run' \in Run /\ run'.pc \in {"clone", "fetch", "died"} /\ run'.source_commit = None
  BY <1>1, <1>2, GotoRun DEF PCs
<1>4. Typed'
  BY <1>1, <1>3, Types, TypesAgain DEF DirOK
<1>5. SourceInv' /\ PinnedInv'
  BY <1>3, Faulty DEF SourceInv
<1> QED BY <1>1, <1>3, <1>4, <1>5, Staging DEF Inv

LEMMA FetchInv == ASSUME Inv, Fetch PROVE Inv'
<1> DEFINE c == IF run.ref = "pinned" THEN Pinned ELSE remote
<1>1. /\ run \in Run /\ run.source_commit = None /\ c \in Commit
      /\ UNCHANGED <<submodule, remote, own, dir, archive>>
  BY Types, NoneIsNoCommit DEF Fetch, At, Inv, SourceInv
<1>2. \/ run' = [run EXCEPT !.pc = "reset", !.fetched = c]
      \/ run' = [run EXCEPT !.pc = "reset", !.fetched = None, !.fault = TRUE]
  BY DEF Fetch
<1>3. run' \in Run /\ run'.pc = "reset" /\ run'.source_commit = None
  BY <1>1, <1>2 DEF Run
<1>4. lab' \in {"kept", "changed"}
  BY Types DEF Fetch
<1>5. Typed'
  BY <1>1, <1>3, <1>4, Types, TypesAgain DEF DirOK
<1>6. SourceInv' /\ PinnedInv'
  BY <1>3, Faulty DEF SourceInv
<1> QED BY <1>1, <1>3, <1>5, <1>6, Staging DEF Inv

LEMMA ResetInv == ASSUME Inv, ResetToFetched PROVE Inv'
<1>1. /\ run \in Run /\ run.source_commit = None /\ run.fetched \in Commit \cup {None}
      /\ DirOK(dir) /\ UNCHANGED <<submodule, remote, own, archive>>
  BY Types DEF ResetToFetched, At, Inv, SourceInv
<1>2. /\ DirOK(dir') /\ lab' \in {"kept", "changed"} /\ (Goto("clean") \/ FailTo("clean"))
  <2>1. CASE dir' = dir
    BY <1>1, <2>1, Types, CheckoutOK DEF ResetToFetched
  <2>2. CASE run.fetched # None /\ dir' = Checkout(run.fetched)
    BY <1>1, <2>2, Types, CheckoutOK DEF ResetToFetched
  <2>3. CASE dir' = [dir EXCEPT !.whole = FALSE]
    BY <1>1, <2>3, Types, SpoiltOK DEF ResetToFetched
  <2> QED BY <2>1, <2>2, <2>3 DEF ResetToFetched
<1>3. run' \in Run /\ run'.pc = "clean" /\ run'.source_commit = None
  BY <1>1, <1>2, GotoRun, FailRun DEF PCs
<1>4. Typed'
  BY <1>1, <1>2, <1>3, Types, TypesAgain
<1>5. SourceInv' /\ PinnedInv'
  BY <1>3, Faulty DEF SourceInv
<1> QED BY <1>1, <1>3, <1>4, <1>5, Staging DEF Inv

LEMMA CleanFetchedInv == ASSUME Inv, CleanFetched PROVE Inv'
<1>1. /\ run \in Run /\ run.source_commit = None /\ Goto("finish") /\ DirOK(dir)
      /\ UNCHANGED <<submodule, remote, own, lab, archive>>
  BY Types DEF CleanFetched, At, Inv, SourceInv
<1>2. run' \in Run /\ run'.pc = "finish" /\ run'.source_commit = None
  BY <1>1, GotoRun DEF PCs
<1>3. DirOK(dir')
  BY <1>1, MissingOK DEF CleanFetched
<1>4. Typed'
  BY <1>1, <1>2, <1>3, Types, TypesAgain
<1>5. SourceInv' /\ PinnedInv'
  BY <1>2, Faulty DEF SourceInv
<1> QED BY <1>1, <1>2, <1>4, <1>5, Staging DEF Inv

-------------------------------------------------------------------------------
(* The end of both, and the builds *)

LEMMA FinishInv == ASSUME Inv, Finish PROVE Inv'
<1>1. /\ run \in Run /\ run.pc = "finish"
      /\ run' = [run EXCEPT !.pc = "clean_before", !.managed = TRUE,
                            !.repo = IF dir.exists THEN "checkout" ELSE ""]
      /\ UNCHANGED <<submodule, remote, own, lab, dir, archive>>
  BY Types DEF Finish, At
<1>2. /\ run' \in Run /\ run'.pc = "clean_before" /\ run'.managed /\ run'.repo # "own"
      /\ run'.repo = (IF dir.exists THEN "checkout" ELSE "")
      /\ run'.source_commit = run.source_commit /\ run'.fault = run.fault
  BY <1>1 DEF Run
<1>3. Typed'
  BY <1>1, <1>2, Types, TypesAgain DEF DirOK
<1>4. SourceInv' /\ ManagedInv' /\ WholeInv'
  BY <1>1, <1>2 DEF Inv, SourceInv, ManagedInv, WholeInv, BuiltFromWholeTree
<1>5. PinnedInv'
  <2>1. dir' = dir
    BY <1>1
  <2> QED BY <1>1, <1>2, <2>1 DEF Inv, PinnedInv, AtSource
<1> QED BY <1>3, <1>4, <1>5 DEF Inv

LEMMA NotUsableInv == ASSUME Inv, NotUsable PROVE Inv'
<1>1. run \in Run /\ Goto("died") /\ UNCHANGED <<submodule, remote, own, lab, dir, archive>>
  BY Types DEF NotUsable
<1>2. run' \in Run /\ run'.pc = "died"
  BY <1>1, GotoRun DEF PCs
<1>3. Typed'
  BY <1>1, <1>2, Types, TypesAgain DEF DirOK
<1> QED BY <1>1, <1>2, <1>3, EndedInv DEF Inv, WholeInv, BuiltFromWholeTree

\* clean_managed_keycloak_repo: a run that goes on has a whole tree, or no repository, in
\* the generated checkout, and the commit is the same.
LEMMA CleanDoes ==
  ASSUME Inv, NEW p \in {"build", "idle"}, CleanManaged(p),
         run.pc \in {"clean_before", "clean_after"}
  PROVE  /\ run' \in Run /\ run'.pc \in {p, "died"}
         /\ run'.source_commit = run.source_commit /\ run'.repo = run.repo
         /\ run'.managed = run.managed
         /\ run'.fault \/ run'.fault = run.fault
         /\ DirOK(dir') /\ lab' \in {"kept", "changed"} /\ own' \in {"missing", "clean", "edited"}
         /\ own' = own
         /\ run'.pc = p /\ run.repo # "own" /\ dir'.git = "ok" => dir'.whole
         /\ run'.pc = p /\ run.repo = "checkout" /\ dir.head # None =>
              dir'.git = "ok" /\ dir'.mvnw /\ dir'.head = dir.head
<1>1. /\ run \in Run /\ DirOK(dir) /\ lab \in {"kept", "changed"}
      /\ own \in {"missing", "clean", "edited"} /\ (run.managed <=> run.repo # "own")
      /\ dir.git = "ok" => dir.head \in Commit
      /\ p \in PCs /\ "died" \in PCs
  BY Types DEF Inv, ManagedInv, PCs
<1>2. CASE ~run.managed
  BY <1>1, <1>2, GotoRun DEF CleanManaged
<1>3. CASE run.managed /\ run.repo = "checkout" /\ dir.git = "ok"
  <2>1. CASE dir' = Checkout(dir.head) /\ Goto(p)
    BY <1>1, <1>3, <2>1, GotoRun, CheckoutOK DEF CleanManaged
  <2>2. CASE dir' = [dir EXCEPT !.whole = FALSE] /\ FailTo("died")
    BY <1>1, <1>3, <2>2, FailRun, SpoiltOK DEF CleanManaged
  <2> QED BY <1>1, <1>3, <2>1, <2>2 DEF CleanManaged
<1>4. CASE run.managed /\ run.repo = "checkout" /\ dir.git = "gutted"
  BY <1>1, <1>4, GotoRun DEF CleanManaged
<1>5. CASE /\ run.managed /\ run.repo # "own"
           /\ ~(run.repo = "checkout" /\ dir.git = "ok")
           /\ ~(run.repo = "checkout" /\ dir.git = "gutted")
  <2>1. lab' = "changed" /\ dir' = Emptied /\ Goto(p) /\ UNCHANGED own
    BY <1>5 DEF CleanManaged
  <2>2. run.repo = "checkout" => dir.head = None
    BY <1>1, <1>5 DEF DirOK
  <2> QED BY <1>1, <2>1, <2>2, GotoRun, MissingOK
<1> QED BY <1>1, <1>2, <1>3, <1>4, <1>5

LEMMA CleanBeforeInv == ASSUME Inv, CleanBefore PROVE Inv'
<1>1. /\ run.pc = "clean_before" /\ CleanManaged("build")
      /\ UNCHANGED <<submodule, remote, archive>>
  BY DEF CleanBefore, At
<1>2. /\ run' \in Run /\ run'.pc \in {"build", "died"}
      /\ run'.source_commit = run.source_commit /\ run'.repo = run.repo
      /\ run'.managed = run.managed
      /\ run'.fault \/ run'.fault = run.fault
      /\ DirOK(dir') /\ lab' \in {"kept", "changed"} /\ own' \in {"missing", "clean", "edited"}
      /\ run'.pc = "build" /\ run.repo # "own" /\ dir'.git = "ok" => dir'.whole
      /\ run'.pc = "build" /\ run.repo = "checkout" /\ dir.head # None =>
           dir'.git = "ok" /\ dir'.mvnw /\ dir'.head = dir.head
  BY <1>1, CleanDoes
<1>3. Typed'
  BY <1>1, <1>2, Types, TypesAgain
<1>4. SourceInv' /\ ManagedInv' /\ WholeInv'
  BY <1>1, <1>2 DEF Inv, SourceInv, ManagedInv, WholeInv, BuiltFromWholeTree
<1>5. PinnedInv'
  BY <1>1, <1>2 DEF Inv, PinnedInv, AtSource
<1> QED BY <1>3, <1>4, <1>5 DEF Inv

LEMMA CleanAfterInv == ASSUME Inv, CleanAfter PROVE Inv'
<1>1. /\ run.pc = "clean_after" /\ CleanManaged("idle")
      /\ UNCHANGED <<submodule, remote, archive>>
  BY DEF CleanAfter, At
<1>2. /\ run' \in Run /\ run'.pc \in {"idle", "died"}
      /\ DirOK(dir') /\ lab' \in {"kept", "changed"} /\ own' \in {"missing", "clean", "edited"}
  BY <1>1, CleanDoes
<1>3. Typed'
  BY <1>1, <1>2, Types, TypesAgain
<1> QED BY <1>1, <1>2, <1>3, EndedInv DEF Inv, WholeInv, BuiltFromWholeTree

\* The archive is made of the tree clean_before left, whatever Maven then does to it.
LEMMA BuildInv == ASSUME Inv, Build PROVE Inv'
<1>1. /\ run \in Run /\ run.pc = "build" /\ DirOK(dir) /\ archive \in Archive \cup {None}
      /\ (run.managed <=> run.repo # "own")
      /\ run.repo # "own" /\ dir.git = "ok" => dir.whole
      /\ dir.git = "ok" => dir.head \in Commit
      /\ UNCHANGED <<submodule, remote, lab>>
  BY Types DEF Build, At, Inv, ManagedInv, WholeInv
<1>2. /\ DirOK(dir') /\ dir'.git = dir.git /\ dir'.head = dir.head /\ dir'.mvnw = dir.mvnw
      /\ own' \in {"missing", "clean", "edited"}
  <2>1. CASE dir' = dir
    BY <1>1, <2>1, Types DEF Build
  <2>2. CASE run.repo # "own" /\ dir' = [dir EXCEPT !.whole = FALSE]
    BY <1>1, <2>2, Types, SpoiltOK DEF Build
  <2> QED BY <2>1, <2>2 DEF Build
<1>3. CASE FailTo("died") /\ UNCHANGED archive
  <2>1. run' \in Run /\ run'.pc = "died"
    BY <1>1, <1>3, FailRun DEF PCs
  <2>2. Typed'
    BY <1>1, <1>2, <1>3, <2>1, Types, TypesAgain
  <2> QED BY <1>3, <2>1, <2>2, EndedInv DEF Inv, WholeInv, BuiltFromWholeTree
<1>4. CASE /\ run.repo = "own" \/ dir.git = "ok"
           /\ archive' = IF run.command = "provider-build" THEN archive
                         ELSE IF run.repo = "own" THEN None
                         ELSE [commit |-> dir.head, whole |-> dir.whole]
           /\ Goto("clean_after")
  <2>1. /\ run' \in Run /\ run'.pc = "clean_after"
        /\ run'.source_commit = run.source_commit /\ run'.fault = run.fault
        /\ run'.repo = run.repo /\ run'.managed = run.managed
    BY <1>1, <1>4, GotoRun DEF PCs
  <2>2. archive' \in Archive \cup {None} /\ BuiltFromWholeTree'
    <3>1. CASE archive' \in {archive, None}
      BY <1>1, <3>1 DEF BuiltFromWholeTree, Inv, WholeInv
    <3>2. CASE archive' = [commit |-> dir.head, whole |-> dir.whole] /\ run.repo # "own"
      <4>1. dir.whole /\ dir.head \in Commit
        BY <1>1, <1>4, <3>2
      <4>2. archive' \in Archive /\ archive'.whole
        BY <1>1, <3>2, <4>1 DEF Archive, DirOK, Dir
      <4> QED BY <4>2 DEF BuiltFromWholeTree
    <3> QED BY <1>4, <3>1, <3>2
  <2>3. Typed'
    BY <1>1, <1>2, <2>1, <2>2, Types, TypesAgain
  <2>4. SourceInv' /\ ManagedInv' /\ WholeInv'
    BY <1>1, <2>1, <2>2 DEF Inv, SourceInv, ManagedInv, WholeInv
  <2>5. PinnedInv'
    BY <1>1, <1>2, <2>1 DEF Inv, PinnedInv, AtSource
  <2> QED BY <2>3, <2>4, <2>5 DEF Inv
<1> QED BY <1>3, <1>4 DEF Build

-------------------------------------------------------------------------------
(* Interruptions, and what happens between runs *)

LEMMA InterruptInv == ASSUME Inv, Interrupt PROVE Inv'
<1>1. /\ run \in Run /\ DirOK(dir) /\ remote \in Commit /\ FailTo("idle")
      /\ run.pc = "clone_source" => run.source_commit \in Commit
      /\ UNCHANGED <<submodule, remote, own, lab, archive>>
  BY Types DEF Interrupt, Inv, SourceInv
<1>2. run' \in Run /\ run'.pc = "idle"
  BY <1>1, FailRun DEF PCs
<1>3. DirOK(dir')
  <2>1. CASE dir' \in {dir, Emptied} \cup Leftovers(dir)
    BY <1>1, <2>1, MissingOK, LeftoversOK
  <2>2. CASE run.pc = "clone_source" /\ dir' \in PartClones(run.source_commit)
    BY <1>1, <2>2, CheckoutOK
  <2>3. CASE dir' \in PartClones(remote)
    BY <1>1, <2>3, CheckoutOK
  <2>4. CASE dir' = [dir EXCEPT !.whole = FALSE]
    BY <1>1, <2>4, SpoiltOK
  <2> QED BY <2>1, <2>2, <2>3, <2>4 DEF Interrupt, At
<1>4. Typed'
  BY <1>1, <1>2, <1>3, Types, TypesAgain
<1> QED BY <1>1, <1>2, <1>4, EndedInv DEF Inv, WholeInv, BuiltFromWholeTree

LEMMA BetweenInv ==
  ASSUME Inv, MoveSubmodule \/ MoveRemote \/ EditOwn PROVE Inv'
<1>1. /\ UNCHANGED <<lab, dir, archive, run>>
      /\ submodule' \in Commit \cup {None} /\ remote' \in Commit
      /\ own' \in {"missing", "clean", "edited"}
  BY Types DEF MoveSubmodule, MoveRemote, EditOwn
<1>2. Typed'
  BY <1>1, Types, TypesAgain DEF DirOK
<1>3. SourceInv' /\ ManagedInv' /\ WholeInv' /\ PinnedInv'
  BY <1>1 DEF Inv, SourceInv, ManagedInv, WholeInv, PinnedInv, AtSource, BuiltFromWholeTree
<1> QED BY <1>2, <1>3 DEF Inv

LEMMA CleanLabInv == ASSUME Inv, CleanLab PROVE Inv'
<1>1. /\ run \in Run /\ DirOK(dir) /\ run'.pc \in {"idle", "died"} /\ run' = run
      /\ UNCHANGED <<submodule, remote, own, lab>>
  BY Types DEF CleanLab, Ended
<1>2. DirOK(dir') /\ archive' \in {archive, None}
  BY <1>1, MissingOK, LeftoversOK DEF CleanLab
<1>3. Typed'
  BY <1>1, <1>2, Types, TypesAgain
<1>4. BuiltFromWholeTree'
  BY <1>2 DEF Inv, WholeInv, BuiltFromWholeTree
<1> QED BY <1>1, <1>3, <1>4, EndedInv DEF Inv

LEMMA StutterInv == ASSUME Inv, UNCHANGED vars PROVE Inv'
<1>1. UNCHANGED <<submodule, remote, own, lab, dir, archive, run>>
  BY DEF vars
<1>2. Typed'
  BY <1>1, Types, TypesAgain DEF DirOK
<1>3. SourceInv' /\ ManagedInv' /\ WholeInv' /\ PinnedInv'
  BY <1>1 DEF Inv, SourceInv, ManagedInv, WholeInv, PinnedInv, AtSource, BuiltFromWholeTree
<1> QED BY <1>2, <1>3 DEF Inv

LEMMA NextInv == Inv /\ [Next]_vars => Inv'
<1> SUFFICES ASSUME Inv, [Next]_vars PROVE Inv'
  OBVIOUS
<1>1. CASE \E command \in {"build", "provider-build"}, ref \in {"own", "pinned", "branch"} :
             Invoke(command, ref)
  BY <1>1, InvokeInv
<1>2. CASE Resolve
  BY <1>2, ConfiguredInv, StageInv, RemoveInv, CloneSourceInv, DetachInv, ResolveRemoteInv,
     CloneRemoteInv, FetchInv, ResetInv, CleanFetchedInv, FinishInv DEF Resolve
<1>3. CASE NotUsable \/ CleanBefore \/ Build \/ CleanAfter
  BY <1>3, NotUsableInv, CleanBeforeInv, BuildInv, CleanAfterInv
<1>4. CASE Interrupt \/ MoveSubmodule \/ MoveRemote \/ EditOwn \/ CleanLab
  BY <1>4, InterruptInv, BetweenInv, CleanLabInv
<1>5. CASE UNCHANGED vars
  BY <1>5, StutterInv
<1> QED BY <1>1, <1>2, <1>3, <1>4, <1>5 DEF Next

-------------------------------------------------------------------------------
(* The theorems *)

\* The invariant: what every command of the script finds, whatever the runs before it left.
THEOREM Invariance == Spec => []Inv
BY InitInv, NextInv, PTL DEF Spec

\* Every variable keeps its shape, and a checkout that is whole is a repository with the
\* tree of its commit, through all clones, removals and resets that end half way.
THEOREM TypeCorrect == Spec => []TypeOK
<1>1. Inv => TypeOK
  BY DEF Inv, Typed
<1> QED BY <1>1, Invariance, PTL

\* What .build/keycloak.tar.gz was built from is the unchanged tree of one commit:
\* clean_managed_keycloak_repo stands before every managed Maven run.
THEOREM WholeTree == Spec => []BuiltFromWholeTree
<1>1. Inv => BuiltFromWholeTree
  BY DEF Inv, WholeInv
<1> QED BY <1>1, Invariance, PTL

\* A run that stages the submodule, and in which nothing fails, builds its commit, whatever
\* checkout stage_bundled_keycloak_repo found.
THEOREM BuildsPinned == Spec => BuiltFromPinned
<1>1. Inv /\ [Next]_vars =>
        [run.pc = "build" /\ run'.pc = "clean_after" /\ run.source_commit # None /\ ~run.fault
           => dir.head = run.source_commit]_vars
  BY DEF Inv, PinnedInv, AtSource
<1> QED BY <1>1, Invariance, PTL DEF Spec, BuiltFromPinned

\* A run that stages the submodule dies of what it finds only when that is a checkout
\* without its objects.
THEOREM Recovers == Spec => StagingRecovers
<1>1. Inv /\ [Next]_vars =>
        [run'.pc = "died" /\ run.pc # "died" /\ run.source_commit # None /\ ~run'.fault
           => dir.git = "gutted"]_vars
  <2> SUFFICES ASSUME Inv, Next, run'.pc = "died", run.pc # "died",
                      run.source_commit # None, ~run'.fault
               PROVE  dir.git = "gutted"
    OBVIOUS
  <2>1. run \in Run /\ DirOK(dir) /\ SourceInv /\ ManagedInv /\ PinnedInv
    BY Types DEF Inv
  <2>2. \A p \in PCs : (Goto(p) => run'.pc = p /\ run'.fault = run.fault)
                     /\ (FailTo(p) => run'.fault)
    BY <2>1, GotoRun, FailRun
  <2>3. CASE NotUsable
    <3>1. run.pc = "clean_before" /\ run'.fault = run.fault /\ ~Usable
      BY <2>2, <2>3 DEF NotUsable, At, PCs
    <3> QED BY <2>1, <3>1 DEF PinnedInv, Usable
  <2>4. CASE CleanBefore \/ CleanAfter
    <3>1. PICK p \in {"build", "idle"} : CleanManaged(p)
      BY <2>4 DEF CleanBefore, CleanAfter
    <3>2. ~Goto(p) /\ ~FailTo("died") /\ p \in PCs
      BY <2>2 DEF PCs
    <3> QED BY <3>1, <3>2 DEF CleanManaged
  <2>5. CASE Build
    BY <2>2, <2>5 DEF Build, PCs
  <2>6. CASE Interrupt
    BY <2>2, <2>6 DEF Interrupt, PCs
  <2>7. CASE ResolveConfigured \/ ResolveRemote
    BY <2>1, <2>7 DEF ResolveConfigured, ResolveRemote, At, SourceInv
  <2>8. CASE MoveSubmodule \/ MoveRemote \/ EditOwn \/ CleanLab
    BY <2>8 DEF MoveSubmodule, MoveRemote, EditOwn, CleanLab
  <2>9. CASE \E command \in {"build", "provider-build"}, ref \in {"own", "pinned", "branch"} :
               Invoke(command, ref)
    BY <2>9 DEF Invoke, Idle
  <2>10. CASE Stage \/ Finish
    BY <2>1, <2>10 DEF Stage, Finish, Run
  <2>11. CASE Fetch
    BY <2>1, <2>11 DEF Fetch, Run
  <2>12. CASE \/ RemoveOldCheckout \/ CloneSource \/ Detach \/ CloneRemote
              \/ ResetToFetched \/ CleanFetched
    <3>1. \E p \in PCs \ {"died"} : Goto(p) \/ FailTo(p)
      BY <2>12 DEF RemoveOldCheckout, CloneSource, Detach, CloneRemote, Clone, ResetToFetched,
         CleanFetched, PCs
    <3> QED BY <2>2, <3>1
  <2> QED BY <2>3, <2>4, <2>5, <2>6, <2>7, <2>8, <2>9, <2>10, <2>11, <2>12 DEF Next, Resolve
<1> QED BY <1>1, Invariance, PTL DEF Spec, StagingRecovers

\* Edits in an explicit checkout survive every build: the script resets managed checkouts,
\* and an explicit one is never managed.
THEOREM EditsKept == Spec => OwnEditsKept
<1>1. Inv /\ [Next]_vars => [own = "edited" => own' = "edited"]_vars
  <2> SUFFICES ASSUME Inv, Next, own = "edited" PROVE own' = "edited"
    OBVIOUS
  <2>1. CASE CleanBefore \/ CleanAfter
    <3>1. /\ run.pc \in {"clean_before", "clean_after"}
          /\ \E p \in {"build", "idle"} : CleanManaged(p)
      BY <2>1 DEF CleanBefore, CleanAfter, At
    <3> QED BY <3>1, CleanDoes
  <2>2. CASE Build
    BY <2>2 DEF Build
  <2>3. CASE MoveSubmodule \/ MoveRemote \/ EditOwn \/ CleanLab
    BY <2>3 DEF MoveSubmodule, MoveRemote, EditOwn, CleanLab
  <2>4. CASE Interrupt \/ NotUsable
    BY <2>4 DEF Interrupt, NotUsable
  <2>5. CASE Resolve
    BY <2>5 DEF Resolve, ResolveConfigured, Stage, RemoveOldCheckout, CloneSource, Detach,
       ResolveRemote, CloneRemote, Fetch, ResetToFetched, CleanFetched, Finish
  <2>6. CASE \E command \in {"build", "provider-build"}, ref \in {"own", "pinned", "branch"} :
               Invoke(command, ref)
    BY <2>6 DEF Invoke
  <2> QED BY <2>1, <2>2, <2>3, <2>4, <2>5, <2>6 DEF Next
<1> QED BY <1>1, Invariance, PTL DEF Spec, OwnEditsKept
===============================================================================
