----------------------------- MODULE LabLifecycle -----------------------------
(***************************************************************************)
(* The life of the lab's Keycloak: dev.sh in one or more terminals, and    *)
(* scripts/start-keycloak.sh, which becomes the server.  They share the    *)
(* pid file, the archive and the port, and nothing locks them.  A terminal *)
(* moves command by command; a server reads the archive, binds the port,   *)
(* and exits when it likes.  How the sources are found and built is the    *)
(* subject of KeycloakRepo: here a build gives a new archive, or fails.    *)
(***************************************************************************)
EXTENDS Naturals

CONSTANTS
  Shell,     \* terminals
  Pid,       \* process ids
  None,      \* no process: the pid file is missing
  Lsof,      \* whether lsof is installed
  MaxBuilds  \* bound: no command that builds is given after so many builds

ASSUME LabLifecycleAssumption ==
  None \notin Pid /\ Lsof \in BOOLEAN /\ MaxBuilds \in Nat

VARIABLES
  archive,   \* .build/keycloak.tar.gz: the number of its build, 0 while missing
  builds,    \* how many builds there were
  pid_file,  \* .runtime/keycloak.pid
  current,   \* history: the pid file was written since the machine started
  process,   \* process[p]: what runs as p
  shell      \* shell[s]: the dev.sh of terminal s

vars == <<archive, builds, pid_file, current, process, shell>>

\* "lab": a server some dev.sh started; of the programs of somebody else, "alike" has
\* keycloak, kc.sh or quarkus in its command line, as a Keycloak has, another Quarkus
\* application, or an editor of such a file, and "other" has not.  dist: the build it
\* was unpacked from, 0 before that.  port: it listens at the issuer's port.  term: it
\* was sent TERM.  lost (history): the dev.sh that started it was interrupted before it
\* wrote the pid file.
Process == [kind : {"none", "lab", "alike", "other"}, dist : Nat,
            port : BOOLEAN, term : BOOLEAN, lost : BOOLEAN]
NoProcess == [kind |-> "none", dist |-> 0, port |-> FALSE, term |-> FALSE, lost |-> FALSE]

StopPC == {"stop", "stop_wait", "stop_remove"}
StartPC == {"check", "reuse", "conflict", "conflict_wait", "probe", "spawn", "record",
            "wait", "alive"}
PC == {"idle", "compose", "build", "ready", "foreground", "clean"} \cup StopPC \cup StartPC

\* A dev.sh: where it is, its command, KILL_ENVIRONMENT, the build it made (0: none),
\* the pid it works on, where stop_host_keycloak returns to, and whether the server it
\* reports ready is one it started.
DevSh == [pc : PC, command : {"run", "start", "build", "down", "clean"}, kill : BOOLEAN,
          dist : Nat, pid : Pid \cup {None},
          return : {"conflict", "failed", "done", "exit"}, fresh : BOOLEAN]
Idle == [pc |-> "idle", command |-> "down", kill |-> TRUE, dist |-> 0, pid |-> None,
         return |-> "done", fresh |-> FALSE]

Init ==
  /\ archive = 0
  /\ builds = 0
  /\ pid_file = None
  /\ current = FALSE
  /\ process = [p \in Pid |-> NoProcess]
  /\ shell = [s \in Shell |-> Idle]

-------------------------------------------------------------------------------
(* Helpers *)

At(s, pc) == shell[s].pc = pc
Become(s, sh) == shell' = [shell EXCEPT ![s] = sh]
Goto(s, pc) == Become(s, [shell[s] EXCEPT !.pc = pc])

Alive(p) == process[p].kind # "none"
LooksLikeKeycloak(p) == process[p].kind \in {"lab", "alike"}
Listener == {p \in Pid : process[p].port}

\* curl may get an answer at the issuer: from whatever listens there.
Answers == Listener # {}

\* kill -0 on the pid in the file.
PidIsRunning == pid_file # None /\ Alive(pid_file)

Term(p) == process' = [process EXCEPT ![p].term = TRUE]

Stop(s, return) == Become(s, [shell[s] EXCEPT !.pc = "stop", !.return = return])

\* die, a failing command or Ctrl-C: `run` stops Keycloak in its EXIT trap, unless it
\* is in that trap.
AbortAgain(s) == IF shell[s].command = "run" THEN Stop(s, "exit") ELSE Become(s, Idle)
Abort(s) ==
  IF shell[s].command = "run" /\ ~(shell[s].pc \in StopPC /\ shell[s].return = "exit")
  THEN Stop(s, "exit")
  ELSE Become(s, Idle)

-------------------------------------------------------------------------------
(* Commands.  "start" is any that calls start_lab, with or without a test. *)

Invoke(s, command, kill) ==
  /\ At(s, "idle")
  /\ command \in {"run", "start", "build"} =>
       builds < MaxBuilds /\ \E p \in Pid : ~Alive(p)
  /\ Become(s, [Idle EXCEPT !.pc = IF command = "build" THEN "build" ELSE "compose",
                            !.command = command, !.kill = kill])
  /\ UNCHANGED <<archive, builds, pid_file, current, process>>

\* clean_docker_services and start_smtp4dev, or compose down.
Compose(s) ==
  /\ At(s, "compose")
  /\ IF shell[s].command \in {"down", "clean"} THEN Stop(s, "done") ELSE Goto(s, "build")
  /\ UNCHANGED <<archive, builds, pid_file, current, process>>

\* build_keycloak and build_provider.
Build(s) ==
  /\ At(s, "build")
  /\ builds' = builds + 1
  /\ archive' = builds + 1
  /\ Become(s, IF shell[s].command = "build" THEN Idle
               ELSE [shell[s] EXCEPT !.pc = "check", !.dist = builds + 1])
  /\ UNCHANGED <<pid_file, current, process>>

\* Docker, git, Maven or a readiness check may fail, and so may, once Keycloak is
\* ready, the test client; compose up ends when the services are taken down.
Fails(s) ==
  /\ shell[s].pc \in {"compose", "build", "check", "ready", "foreground"}
  /\ Abort(s)
  /\ UNCHANGED <<archive, builds, pid_file, current, process>>

CtrlC(s) ==
  /\ ~At(s, "idle")
  /\ Abort(s)
  /\ process' = IF At(s, "record") THEN [process EXCEPT ![shell[s].pid].lost = Alive(shell[s].pid)]
                ELSE process
  /\ UNCHANGED <<archive, builds, pid_file, current>>

\* rm -rf .runtime .build, at the end of clean.
Clean(s) ==
  /\ At(s, "clean")
  /\ archive' = 0
  /\ pid_file' = None
  /\ Become(s, Idle)
  /\ UNCHANGED <<builds, current, process>>

-------------------------------------------------------------------------------
(* stop_host_keycloak *)

Return(s) ==
  CASE shell[s].return = "conflict" -> Goto(s, "conflict")
    [] shell[s].return = "failed" -> Abort(s)
    [] shell[s].return = "done" ->
         IF shell[s].command = "clean" THEN Goto(s, "clean") ELSE Become(s, Idle)
    [] shell[s].return = "exit" -> Become(s, Idle)

StopUnread(s) ==
  /\ At(s, "stop")
  /\ IF PidIsRunning
     THEN Term(pid_file) /\ Goto(s, "stop_wait") /\ UNCHANGED pid_file
     ELSE pid_file' = None /\ Return(s) /\ UNCHANGED process
  /\ UNCHANGED <<archive, builds, current>>
StopHost(s) ==
  /\ At(s, "stop")
  /\ IF PidIsRunning
     THEN /\ Term(pid_file)
          /\ Become(s, [shell[s] EXCEPT !.pc = "stop_wait", !.pid = pid_file])
          /\ UNCHANGED pid_file
     ELSE /\ pid_file' = None
          /\ Return(s)
          /\ UNCHANGED process
  /\ UNCHANGED <<archive, builds, current>>

\* It is gone, or 30 seconds have passed: TERM again.
StopWaitForever(s) ==
  /\ At(s, "stop_wait")
  /\ ~Alive(shell[s].pid)
  /\ Goto(s, "stop_remove")
  /\ UNCHANGED <<archive, builds, pid_file, current, process>>
StopWait(s) ==
  /\ At(s, "stop_wait")
  /\ IF Alive(shell[s].pid) THEN Term(shell[s].pid) ELSE UNCHANGED process
  /\ Goto(s, "stop_remove")
  /\ UNCHANGED <<archive, builds, pid_file, current>>

StopRemove(s) ==
  /\ At(s, "stop_remove")
  /\ pid_file' = None
  /\ Return(s)
  /\ UNCHANGED <<archive, builds, current, process>>

-------------------------------------------------------------------------------
(* start_host_keycloak *)

Check(s) ==
  /\ At(s, "check")
  /\ Goto(s, IF PidIsRunning THEN "reuse" ELSE "conflict")
  /\ UNCHANGED <<archive, builds, pid_file, current, process>>

\* While somebody answers, what the pid file names is kept; after 5 seconds without an
\* answer it is stopped.
ReuseOrForget(s) ==
  /\ At(s, "reuse")
  /\ \/ Answers /\ Goto(s, "ready")
     \/ Goto(s, "conflict")
  /\ UNCHANGED <<archive, builds, pid_file, current, process>>
Reuse(s) ==
  /\ At(s, "reuse")
  /\ \/ Answers /\ Goto(s, "ready")
     \/ Stop(s, "conflict")
  /\ UNCHANGED <<archive, builds, pid_file, current, process>>

\* stop_conflicting_keycloak: the listener is sent TERM if its command line looks
\* like that of a Keycloak.
ConflictUnseen(s) ==
  /\ At(s, "conflict")
  /\ Goto(s, IF shell[s].kill THEN "spawn" ELSE "probe")
  /\ UNCHANGED <<archive, builds, pid_file, current, process>>
AnyListener == IF Lsof THEN Listener ELSE {}
Conflicting == IF Lsof THEN {p \in Listener : LooksLikeKeycloak(p)} ELSE {}
Conflict(s) ==
  /\ At(s, "conflict")
  /\ IF shell[s].kill /\ Conflicting # {}
     THEN \E p \in Conflicting :
            /\ Term(p)
            /\ Become(s, [shell[s] EXCEPT !.pc = "conflict_wait", !.pid = p])
     ELSE /\ Goto(s, IF shell[s].kill THEN "spawn" ELSE "probe")
          /\ UNCHANGED process
  /\ UNCHANGED <<archive, builds, pid_file, current>>

\* It is gone, or after 30 seconds it is killed.
ConflictWait(s) ==
  /\ At(s, "conflict_wait")
  /\ process' = [process EXCEPT ![shell[s].pid] = NoProcess]
  /\ Goto(s, "spawn")
  /\ UNCHANGED <<archive, builds, pid_file, current>>

\* --no-kill: an answer within 2 seconds is the end of the command.
Probe(s) ==
  /\ At(s, "probe")
  /\ \/ Answers /\ Abort(s)
     \/ Goto(s, "spawn")
  /\ UNCHANGED <<archive, builds, pid_file, current, process>>

Spawn(s, p) ==
  /\ At(s, "spawn")
  /\ ~Alive(p)
  /\ process' = [process EXCEPT ![p] = [NoProcess EXCEPT !.kind = "lab"]]
  /\ Become(s, [shell[s] EXCEPT !.pc = "record", !.pid = p])
  /\ UNCHANGED <<archive, builds, pid_file, current>>

Record(s) ==
  /\ At(s, "record")
  /\ pid_file' = shell[s].pid
  /\ current' = TRUE
  /\ Goto(s, "wait")
  /\ UNCHANGED <<archive, builds, process>>

\* Somebody answers, or 180 seconds have passed.
WaitForUrl(s) ==
  /\ At(s, "wait")
  /\ \/ Answers /\ Goto(s, "alive")
     \/ Stop(s, "failed")
  /\ UNCHANGED <<archive, builds, pid_file, current, process>>

AliveCheck(s) ==
  /\ At(s, "alive")
  /\ IF PidIsRunning
     THEN /\ Become(s, [shell[s] EXCEPT !.pc = "ready", !.fresh = TRUE])
          /\ UNCHANGED pid_file
     ELSE /\ pid_file' = None
          /\ Abort(s)
  /\ UNCHANGED <<archive, builds, current, process>>

\* run stays in the foreground; the others end and leave Keycloak running.
Ready(s) ==
  /\ At(s, "ready")
  /\ IF shell[s].command = "run" THEN Goto(s, "foreground") ELSE Become(s, Idle)
  /\ UNCHANGED <<archive, builds, pid_file, current, process>>

-------------------------------------------------------------------------------
(* The server, and the machine *)

\* start-keycloak.sh unpacks the archive; without one it exits (Exit).
Unpack(p) ==
  /\ process[p].kind = "lab" /\ process[p].dist = 0 /\ archive # 0
  /\ process' = [process EXCEPT ![p].dist = archive]
  /\ UNCHANGED <<archive, builds, pid_file, current, shell>>

\* If the port is taken it exits, sooner or later.
Bind(p) ==
  /\ process[p].kind = "lab" /\ process[p].dist # 0 /\ ~process[p].term
  /\ Listener = {}
  /\ process' = [process EXCEPT ![p].port = TRUE]
  /\ UNCHANGED <<archive, builds, pid_file, current, shell>>

\* A process ends when it was told to, when it cannot start, or by itself.
Exit(p) ==
  /\ Alive(p)
  /\ process' = [process EXCEPT ![p] = NoProcess]
  /\ UNCHANGED <<archive, builds, pid_file, current, shell>>

\* Somebody starts something else while no dev.sh runs.  It takes no pid the pid file
\* names, unless that was written before the machine last started.
StartOther(p, kind, port) ==
  /\ \A s \in Shell : At(s, "idle")
  /\ ~Alive(p)
  /\ current => p # pid_file
  /\ port => Listener = {}
  /\ process' = [process EXCEPT ![p] = [NoProcess EXCEPT !.kind = kind, !.port = port]]
  /\ UNCHANGED <<archive, builds, pid_file, current, shell>>

\* The machine stops and starts again; files stay.
Reboot ==
  /\ process' = [p \in Pid |-> NoProcess]
  /\ shell' = [s \in Shell |-> Idle]
  /\ current' = FALSE
  /\ UNCHANGED <<archive, builds, pid_file>>

StopHostKeycloak(s) == StopHost(s) \/ StopWait(s) \/ StopRemove(s)

StartHostKeycloak(s) ==
  \/ Check(s) \/ Reuse(s) \/ Conflict(s) \/ ConflictWait(s) \/ Probe(s)
  \/ \E p \in Pid : Spawn(s, p)
  \/ Record(s) \/ WaitForUrl(s) \/ AliveCheck(s)

\* What a dev.sh does by itself.
Step(s) ==
  Compose(s) \/ Build(s) \/ Ready(s) \/ Clean(s) \/ StopHostKeycloak(s) \/ StartHostKeycloak(s)

Next ==
  \/ \E s \in Shell, command \in {"run", "start", "build", "down", "clean"}, kill \in BOOLEAN :
       Invoke(s, command, kill)
  \/ \E s \in Shell : Step(s) \/ Fails(s) \/ CtrlC(s)
  \/ \E p \in Pid : Unpack(p) \/ Bind(p) \/ Exit(p)
  \/ \E p \in Pid, kind \in {"alike", "other"}, port \in BOOLEAN : StartOther(p, kind, port)
  \/ Reboot

\* A dev.sh runs on.  Nothing is assumed of servers, least of all that they exit.
Spec == Init /\ [][Next]_vars /\ \A s \in Shell : WF_vars(Step(s))

-------------------------------------------------------------------------------
(* Properties *)

\* A dev.sh works on a process it started or found, and only one that has started a
\* server reports it fresh.
TypeOK ==
  /\ archive \in 0 .. builds
  /\ builds \in Nat
  /\ pid_file \in Pid \cup {None}
  /\ current \in BOOLEAN
  /\ process \in [Pid -> Process]
  /\ \A p, q \in Listener : p = q
  /\ shell \in [Shell -> DevSh]
  /\ \A s \in Shell : shell[s].pc \in {"stop_wait", "stop_remove", "conflict_wait", "record"}
                        => shell[s].pid \in Pid
  /\ \A s \in Shell : shell[s].dist =< builds

\* With one dev.sh at a time, every server it ever started is named in the pid file,
\* so that status shows it and down stops it, or was already sent TERM; whatever
\* failed, crashed or was interrupted in between.  Only an interrupt between `nohup &`
\* and `echo $!` loses one.
TrackedOrTold ==
  \A p \in Pid :
    process[p].kind = "lab" =>
      \/ pid_file = p
      \/ process[p].term
      \/ process[p].lost
      \/ \E s \in Shell : At(s, "record") /\ shell[s].pid = p

\* "Keycloak is ready" is no mistake: when a dev.sh that may stop other servers has
\* started one, what listens at the port and looks like a Keycloak is that one, and it
\* is the build this dev.sh made; unless a lost one listens.  (A program that does not
\* look like a Keycloak may hold the port and answer: curl takes any success.)
ReadyIsOwnBuild ==
  \A s \in Shell, p \in Pid :
    /\ At(s, "ready") /\ shell[s].fresh /\ shell[s].kill
    /\ process[p].port /\ LooksLikeKeycloak(p) /\ ~process[p].lost
    => p = shell[s].pid /\ process[p].dist = shell[s].dist

\* No dev.sh sends TERM to a program of somebody else whose command line has nothing of
\* Keycloak's: not when it holds the port, and not through the pid file, unless that is
\* from before a reboot (stop_conflicting_keycloak, stop_host_keycloak).  Of a program
\* whose command line has, Keycloak or not, it is not said: while it holds the port it
\* is told to end, and killed.
OthersSpared ==
  [][\A p \in Pid :
       process[p].kind = "other" /\ process'[p].term /\ ~process[p].term
         => p = pid_file /\ ~current]_vars

\* The steps a dev.sh has before it at most: by its place, and in stop_host_keycloak by
\* what that returns to.
StepsAt == [clean |-> 4, foreground |-> 4, ready |-> 5, alive |-> 6, wait |-> 8, record |-> 9,
            spawn |-> 10, probe |-> 11, conflict_wait |-> 11, conflict |-> 12, reuse |-> 16,
            check |-> 17, build |-> 18, compose |-> 19]
StepsToReturn == [stop |-> 3, stop_wait |-> 2, stop_remove |-> 1]
StepsAfter == [exit |-> 0, failed |-> 4, done |-> 4, conflict |-> 12]
StepsOf(sh) ==
  CASE sh.pc = "idle" -> 0
    [] sh.pc \in StopPC -> StepsToReturn[sh.pc] + StepsAfter[sh.return]
    [] OTHER -> StepsAt[sh.pc]
StepsLeft(s) == StepsOf(shell[s])

\* A command only ever gets nearer to its end: with each step it takes, and with
\* whatever happens to it, failures and Ctrl-C at any point included; no wait is begun
\* again, and the EXIT trap is not (start_lab, run, stop_host_keycloak).
CommandsRunOut ==
  [][\A s \in Shell : ~At(s, "idle") /\ (Step(s) \/ shell'[s] # shell[s])
                       => StepsLeft(s)' < StepsLeft(s)]_vars

\* Every command comes to an end or to the foreground, whatever servers do: each wait
\* has its deadline, and the EXIT trap does not run into itself.
CommandEnds ==
  \A s \in Shell : ~At(s, "idle") ~> shell[s].pc \in {"idle", "foreground"}

\* docs/troubleshooting.md says that the default run cleans a Keycloak process on its
\* configured port: the lab's server that answers once a run is ready is of the build
\* that run has made, not one found running.
ReadyIsNewBuild ==
  \A s \in Shell, p \in Pid :
    /\ At(s, "ready") /\ shell[s].command = "run" /\ shell[s].kill
    /\ process[p].port /\ process[p].kind = "lab"
    => process[p].dist = shell[s].dist
===============================================================================
