-------------------------- MODULE LabLifecycleProofs --------------------------
(***************************************************************************)
(* Theorems about the life of the lab's Keycloak, for any number of        *)
(* processes and builds, with and without lsof: in any number of           *)
(* terminals, and for one dev.sh at a time.                                *)
(***************************************************************************)
EXTENDS LabLifecycle, TLAPS

(***************************************************************************)
(* Type correctness.                                                       *)
(***************************************************************************)

Working == {"stop_wait", "stop_remove", "conflict_wait", "record"}

\* The conjuncts of TypeOK about processes, and about terminals.
ProcessOK ==
  /\ process \in [Pid -> Process]
  /\ \A p, q \in Listener : p = q
ShellOK ==
  /\ shell \in [Shell -> DevSh]
  /\ \A s \in Shell : shell[s].pc \in Working => shell[s].pid \in Pid
  /\ \A s \in Shell : shell[s].dist =< builds

\* A step that keeps both, and the files and their history.
LEMMA PartsType ==
  ASSUME ProcessOK', ShellOK', builds' \in Nat, archive' \in 0 .. builds',
         pid_file' \in Pid \cup {None}, current' \in BOOLEAN
  PROVE  TypeOK'
BY DEF TypeOK, ProcessOK, ShellOK, Working
LEMMA SameProcesses == ASSUME TypeOK, UNCHANGED process PROVE ProcessOK'
BY DEF TypeOK, ProcessOK, Listener
LEMMA SameShells == ASSUME TypeOK, UNCHANGED <<shell, builds>> PROVE ShellOK'
BY DEF TypeOK, ShellOK, Working
LEMMA SameFiles ==
  ASSUME TypeOK, UNCHANGED <<archive, builds, pid_file, current>>
  PROVE  /\ builds' \in Nat /\ archive' \in 0 .. builds'
         /\ pid_file' \in Pid \cup {None} /\ current' \in BOOLEAN
BY DEF TypeOK

\* An idle terminal is well formed, and no process is a process.
LEMMA Nothing ==
  /\ Idle \in DevSh /\ Idle.pc = "idle" /\ Idle.dist = 0
  /\ NoProcess \in Process /\ NoProcess.kind = "none"
  /\ ~NoProcess.port /\ ~NoProcess.term
BY DEF Idle, DevSh, PC, NoProcess, Process

\* A terminal that is put into a well-formed state leaves all of them well formed.
LEMMA BecomeType ==
  ASSUME TypeOK, NEW s \in Shell, NEW sh \in DevSh, Become(s, sh),
         builds' \in Nat, builds =< builds', sh.dist =< builds',
         sh.pc \in Working => sh.pid \in Pid
  PROVE  ShellOK' /\ shell'[s] = sh /\ \A u \in Shell : u # s => shell'[u] = shell[u]
<1>1. shell \in [Shell -> DevSh] /\ shell'[s] = sh /\ shell' \in [Shell -> DevSh]
  BY DEF TypeOK, Become
<1>2. \A u \in Shell : u # s => shell'[u] = shell[u]
  BY <1>1 DEF Become
<1>3. \A u \in Shell : u # s => shell'[u].dist =< builds'
  BY <1>1, <1>2 DEF TypeOK, DevSh
<1>4. \A u \in Shell : u # s => (shell'[u].pc \in Working => shell'[u].pid \in Pid)
  BY <1>2 DEF TypeOK, Working
<1> QED BY <1>1, <1>2, <1>3, <1>4 DEF ShellOK

\* Goto moves one terminal, and changes nothing but where it is.
LEMMA GotoType ==
  ASSUME TypeOK, NEW s \in Shell, NEW pc \in PC, Goto(s, pc), UNCHANGED builds,
         pc \in Working => shell[s].pid \in Pid
  PROVE  /\ ShellOK'
         /\ shell'[s] = [shell[s] EXCEPT !.pc = pc]
         /\ \A u \in Shell : u # s => shell'[u] = shell[u]
<1> DEFINE sh == [shell[s] EXCEPT !.pc = pc]
<1>1. sh \in DevSh /\ sh.pc = pc /\ sh.pid = shell[s].pid /\ sh.dist = shell[s].dist
  BY DEF TypeOK, DevSh
<1>2. Become(s, sh)
  BY DEF Goto
<1>3. sh.dist =< builds' /\ builds' \in Nat /\ builds =< builds'
  BY <1>1 DEF TypeOK, DevSh
<1> HIDE DEF sh
<1>4. ShellOK' /\ shell'[s] = sh /\ \A u \in Shell : u # s => shell'[u] = shell[u]
  BY <1>1, <1>2, <1>3, BecomeType
<1> QED BY <1>4 DEF sh

\* Stop is the call of stop_host_keycloak; it remembers what comes after.
LEMMA StopType ==
  ASSUME TypeOK, NEW s \in Shell, NEW r \in {"conflict", "failed", "done", "exit"},
         Stop(s, r), UNCHANGED builds
  PROVE  /\ ShellOK'
         /\ shell'[s] = [shell[s] EXCEPT !.pc = "stop", !.return = r]
         /\ \A u \in Shell : u # s => shell'[u] = shell[u]
<1> DEFINE sh == [shell[s] EXCEPT !.pc = "stop", !.return = r]
<1>1. sh \in DevSh /\ sh.pc = "stop" /\ sh.dist = shell[s].dist
  <2>1. shell[s] \in DevSh /\ "stop" \in PC
    BY DEF TypeOK, PC, StopPC
  <2> QED BY <2>1 DEF DevSh
<1>2. Become(s, sh)
  BY DEF Stop
<1>3. sh.dist =< builds' /\ builds' \in Nat /\ builds =< builds' /\ sh.pc \notin Working
  BY <1>1 DEF TypeOK, DevSh, Working
<1> HIDE DEF sh
<1>4. ShellOK' /\ shell'[s] = sh /\ \A u \in Shell : u # s => shell'[u] = shell[u]
  BY <1>1, <1>2, <1>3, BecomeType
<1> QED BY <1>4 DEF sh

\* A dev.sh that ends.
LEMMA IdleType ==
  ASSUME TypeOK, NEW s \in Shell, Become(s, Idle), UNCHANGED builds
  PROVE  /\ ShellOK'
         /\ shell'[s] = Idle
         /\ \A u \in Shell : u # s => shell'[u] = shell[u]
<1>1. builds' \in Nat /\ builds =< builds' /\ Idle.dist =< builds' /\ Idle.pc \notin Working
  BY Nothing DEF TypeOK, Working
<1> QED BY <1>1, Nothing, BecomeType

\* die, errexit and Ctrl-C lead to the EXIT trap or to the end.
LEMMA AbortType ==
  ASSUME TypeOK, NEW s \in Shell, Abort(s), UNCHANGED builds
  PROVE  /\ ShellOK'
         /\ \/ shell'[s] = Idle
            \/ shell'[s] = [shell[s] EXCEPT !.pc = "stop", !.return = "exit"]
         /\ \A u \in Shell : u # s => shell'[u] = shell[u]
BY StopType, IdleType DEF Abort

\* stop_host_keycloak returns to what called it.
LEMMA ReturnType ==
  ASSUME TypeOK, NEW s \in Shell, Return(s), UNCHANGED builds
  PROVE  /\ ShellOK'
         /\ \/ shell'[s] = Idle
            \/ shell'[s] = [shell[s] EXCEPT !.pc = "stop", !.return = "exit"]
            \/ shell'[s] = [shell[s] EXCEPT !.pc = "clean"]
            \/ /\ shell[s].return = "conflict"
               /\ shell'[s] = [shell[s] EXCEPT !.pc = "conflict"]
         /\ \A u \in Shell : u # s => shell'[u] = shell[u]
<1>1. shell[s].return \in {"conflict", "failed", "done", "exit"}
  BY DEF TypeOK, DevSh
<1>2. {"conflict", "clean"} \subseteq PC /\ {"conflict", "clean"} \cap Working = {}
  BY DEF PC, StartPC, StopPC, Working
<1>3. CASE shell[s].return = "conflict"
  BY <1>2, <1>3, GotoType DEF Return
<1>4. CASE shell[s].return = "failed"
  BY <1>4, AbortType DEF Return
<1>5. CASE shell[s].return = "done" /\ shell[s].command = "clean"
  BY <1>2, <1>5, GotoType DEF Return
<1>6. CASE shell[s].return = "done" /\ shell[s].command # "clean"
  BY <1>6, IdleType DEF Return
<1>7. CASE shell[s].return = "exit"
  BY <1>7, IdleType DEF Return
<1> QED BY <1>1, <1>3, <1>4, <1>5, <1>6, <1>7

\* A process that is sent TERM stays what it is.
LEMMA TermType ==
  ASSUME TypeOK, NEW p \in Pid, Term(p)
  PROVE  /\ ProcessOK'
         /\ process'[p] = [process[p] EXCEPT !.term = TRUE]
         /\ \A q \in Pid : q # p => process'[q] = process[q]
<1>1. process \in [Pid -> Process] /\ process'[p] = [process[p] EXCEPT !.term = TRUE]
  BY DEF TypeOK, Term
<1>2. process' \in [Pid -> Process] /\ \A q \in Pid : q # p => process'[q] = process[q]
  BY <1>1 DEF Term, Process
<1>3. \A q \in Pid : process'[q].port = process[q].port
  BY <1>1, <1>2 DEF Process
<1> QED BY <1>1, <1>2, <1>3 DEF ProcessOK, TypeOK, Listener

\* A process that changes leaves one listener at most, if it does not listen, or
\* nobody does, or it did before.
LEMMA ProcessType ==
  ASSUME TypeOK, NEW p \in Pid, NEW r \in Process, process' = [process EXCEPT ![p] = r],
         r.port => Listener = {} \/ process[p].port
  PROVE  /\ ProcessOK'
         /\ process'[p] = r
         /\ \A q \in Pid : q # p => process'[q] = process[q]
<1>1. process \in [Pid -> Process] /\ process'[p] = r /\ process' \in [Pid -> Process]
  BY DEF TypeOK
<1>2. \A q \in Pid : q # p => process'[q] = process[q]
  BY <1>1
<1>3. ASSUME NEW q1 \in Listener', NEW q2 \in Listener' PROVE q1 = q2
  BY <1>1, <1>2, <1>3 DEF TypeOK, Listener
<1> QED BY <1>1, <1>2, <1>3 DEF ProcessOK

-------------------------------------------------------------------------------
(* Programs of others *)

\* The pid file of this start of the machine names no program of somebody else; nor
\* does a dev.sh that is about to write the file.  One that waits for such a program
\* has told it already (the file was older than the machine's start).
SpareInv ==
  /\ current /\ pid_file \in Pid => process[pid_file].kind # "other"
  /\ \A s \in Shell : At(s, "stop_wait") /\ process[shell[s].pid].kind = "other"
                        => process[shell[s].pid].term
  /\ \A s \in Shell : At(s, "record") => process[shell[s].pid].kind # "other"

\* The step that OthersSpared speaks of.
Spares ==
  \A p \in Pid : process[p].kind = "other" /\ process'[p].term /\ ~process[p].term
                   => p = pid_file /\ ~current

Safe == TypeOK /\ SpareInv

\* A terminal that goes somewhere else than to the two waits, while processes stay and
\* the pid file stays or goes.
LEMMA MoveSpares ==
  ASSUME Safe, NEW s \in Shell, UNCHANGED <<process, current>>, pid_file' \in {pid_file, None},
         shell'[s].pc \notin {"stop_wait", "record"},
         \A u \in Shell : u # s => shell'[u] = shell[u]
  PROVE  SpareInv' /\ Spares
BY LabLifecycleAssumption DEF Safe, SpareInv, Spares, At

\* A process that changes without becoming a program of somebody else.
LEMMA ChangeSpares ==
  ASSUME Safe, NEW p \in Pid, \A q \in Pid : q # p => process'[q] = process[q],
         process'[p].kind # "other", process'[p].term => process[p].kind # "other",
         UNCHANGED <<pid_file, current>>,
         \A u \in Shell : \/ shell'[u] = shell[u]
                          \/ shell'[u].pc \notin {"stop_wait", "record"}
                          \/ shell'[u].pid = p
  PROVE  SpareInv' /\ Spares
<1>1. \A u \in Shell : shell[u].pc \in {"stop_wait", "record"} => shell[u].pid \in Pid
  BY DEF Safe, TypeOK
<1>2. SpareInv'
  BY <1>1 DEF Safe, SpareInv, At
<1>3. Spares
  BY DEF Spares
<1> QED BY <1>2, <1>3

LEMMA InitSafe == Init => Safe
<1> SUFFICES ASSUME Init PROVE Safe
  OBVIOUS
<1>1. TypeOK
  <2>1. process \in [Pid -> Process] /\ Listener = {}
    BY Nothing DEF Init, Listener
  <2>2. shell \in [Shell -> DevSh] /\ \A s \in Shell : shell[s].pc = "idle" /\ shell[s].dist = 0
    BY Nothing DEF Init
  <2>3. builds = 0 /\ archive = 0 /\ pid_file = None /\ current = FALSE
    BY DEF Init
  <2>4. ASSUME NEW s \in Shell PROVE shell[s].dist =< builds
    <3>1. shell[s].dist = 0 /\ builds = 0 /\ 0 =< 0
      BY <2>2, <2>3
    <3> QED BY <3>1
  <2>5. ProcessOK
    BY <2>1 DEF ProcessOK
  <2>6. ShellOK
    BY <2>2, <2>4 DEF ShellOK, Working
  <2>7. builds \in Nat /\ archive \in 0 .. builds
    BY <2>3
  <2> QED BY <2>3, <2>5, <2>6, <2>7 DEF TypeOK, ProcessOK, ShellOK, Working
<1>2. SpareInv
  BY LabLifecycleAssumption, Nothing DEF Init, SpareInv, At
<1> QED BY <1>1, <1>2 DEF Safe

\* A command given, Compose, a failure and Ctrl-C change no process.
LEMMA InvokeSafe ==
  ASSUME Safe, NEW s \in Shell, NEW command \in {"run", "start", "build", "down", "clean"},
         NEW kill \in BOOLEAN, Invoke(s, command, kill)
  PROVE  Safe' /\ Spares
<1> DEFINE sh == [Idle EXCEPT !.pc = IF command = "build" THEN "build" ELSE "compose",
                              !.command = command, !.kill = kill]
<1>1. sh \in DevSh /\ sh.pc \in {"build", "compose"} /\ sh.dist = 0
  BY Nothing DEF Idle, DevSh, PC
<1>2. Become(s, sh) /\ UNCHANGED <<archive, builds, pid_file, current, process>>
  BY DEF Invoke
<1>3. builds' \in Nat /\ builds =< builds' /\ sh.dist =< builds' /\ sh.pc \notin Working
  BY <1>1, <1>2 DEF Safe, TypeOK, Working
<1> HIDE DEF sh
<1>4. ShellOK' /\ shell'[s] = sh /\ \A u \in Shell : u # s => shell'[u] = shell[u]
  BY <1>1, <1>2, <1>3, BecomeType DEF Safe
<1>5. TypeOK'
  BY <1>2, <1>4, SameProcesses, SameFiles, PartsType DEF Safe
<1>6. SpareInv' /\ Spares
  BY <1>1, <1>2, <1>4, MoveSpares
<1> QED BY <1>5, <1>6 DEF Safe

\* What is left of a step once its shell is known: nothing else changes.
LEMMA MoveSafe ==
  ASSUME Safe, NEW s \in Shell, UNCHANGED <<archive, builds, current, process>>,
         pid_file' \in {pid_file, None}, ShellOK',
         shell'[s].pc \notin {"stop_wait", "record"},
         \A u \in Shell : u # s => shell'[u] = shell[u]
  PROVE  Safe' /\ Spares
<1>1. TypeOK'
  BY SameProcesses, PartsType DEF Safe, TypeOK
<1>2. SpareInv' /\ Spares
  BY MoveSpares
<1> QED BY <1>1, <1>2 DEF Safe

LEMMA GotoSafe ==
  ASSUME Safe, NEW s \in Shell, NEW pc \in PC \ Working, Goto(s, pc),
         UNCHANGED <<archive, builds, current, process>>, pid_file' \in {pid_file, None}
  PROVE  Safe' /\ Spares
<1>1. /\ ShellOK'
      /\ shell'[s] = [shell[s] EXCEPT !.pc = pc]
      /\ \A u \in Shell : u # s => shell'[u] = shell[u]
  BY GotoType DEF Safe
<1>2. shell'[s].pc \notin {"stop_wait", "record"}
  BY <1>1 DEF Safe, TypeOK, DevSh, Working
<1> QED BY <1>1, <1>2, MoveSafe

LEMMA StopSafe ==
  ASSUME Safe, NEW s \in Shell, NEW r \in {"conflict", "failed", "done", "exit"}, Stop(s, r),
         UNCHANGED <<archive, builds, current, process>>, pid_file' \in {pid_file, None}
  PROVE  Safe' /\ Spares
<1>1. /\ ShellOK'
      /\ shell'[s] = [shell[s] EXCEPT !.pc = "stop", !.return = r]
      /\ \A u \in Shell : u # s => shell'[u] = shell[u]
  BY StopType DEF Safe
<1>2. shell'[s].pc \notin {"stop_wait", "record"}
  BY <1>1 DEF Safe, TypeOK, DevSh
<1> QED BY <1>1, <1>2, MoveSafe

LEMMA IdleSafe ==
  ASSUME Safe, NEW s \in Shell, Become(s, Idle),
         UNCHANGED <<archive, builds, current, process>>, pid_file' \in {pid_file, None}
  PROVE  Safe' /\ Spares
<1>1. ShellOK' /\ shell'[s] = Idle /\ \A u \in Shell : u # s => shell'[u] = shell[u]
  BY IdleType DEF Safe
<1> QED BY <1>1, Nothing, MoveSafe

LEMMA AbortSafe ==
  ASSUME Safe, NEW s \in Shell, Abort(s),
         UNCHANGED <<archive, builds, current, process>>, pid_file' \in {pid_file, None}
  PROVE  Safe' /\ Spares
BY StopSafe, IdleSafe DEF Abort

LEMMA ReturnSafe ==
  ASSUME Safe, NEW s \in Shell, Return(s),
         UNCHANGED <<archive, builds, current, process>>, pid_file' \in {pid_file, None}
  PROVE  Safe' /\ Spares
<1>1. /\ ShellOK'
      /\ \/ shell'[s] = Idle
         \/ shell'[s] = [shell[s] EXCEPT !.pc = "stop", !.return = "exit"]
         \/ shell'[s] = [shell[s] EXCEPT !.pc = "clean"]
         \/ shell'[s] = [shell[s] EXCEPT !.pc = "conflict"]
      /\ \A u \in Shell : u # s => shell'[u] = shell[u]
  BY ReturnType DEF Safe
<1>2. shell'[s].pc \notin {"stop_wait", "record"}
  BY <1>1, Nothing DEF Safe, TypeOK, DevSh
<1> QED BY <1>1, <1>2, MoveSafe

\* stop_host_keycloak sends TERM to what the pid file names.
LEMMA StopHostSafe == ASSUME Safe, NEW s \in Shell, StopHost(s) PROVE Safe' /\ Spares
<1>1. CASE ~PidIsRunning
  BY <1>1, ReturnSafe DEF StopHost
<1>2. CASE PidIsRunning
  <2> DEFINE sh == [shell[s] EXCEPT !.pc = "stop_wait", !.pid = pid_file]
  <2>1. pid_file \in Pid /\ Term(pid_file) /\ Become(s, sh)
        /\ UNCHANGED <<archive, builds, current, pid_file>>
    BY <1>2 DEF StopHost, PidIsRunning, Safe, TypeOK
  <2>2. sh \in DevSh /\ sh.pc = "stop_wait" /\ sh.pid = pid_file /\ sh.dist = shell[s].dist
    <3>1. shell[s] \in DevSh /\ "stop_wait" \in PC
      BY DEF Safe, TypeOK, PC, StopPC
    <3> QED BY <2>1, <3>1 DEF DevSh
  <2>3. builds' \in Nat /\ builds =< builds' /\ sh.dist =< builds'
    BY <2>1, <2>2 DEF Safe, TypeOK
  <2> HIDE DEF sh
  <2>4. ShellOK' /\ shell'[s] = sh /\ \A u \in Shell : u # s => shell'[u] = shell[u]
    BY <2>1, <2>2, <2>3, BecomeType DEF Safe
  <2>5. /\ ProcessOK'
        /\ process'[pid_file] = [process[pid_file] EXCEPT !.term = TRUE]
        /\ \A q \in Pid : q # pid_file => process'[q] = process[q]
    BY <2>1, TermType DEF Safe
  <2>6. process'[pid_file].kind = process[pid_file].kind /\ process'[pid_file].term
    BY <2>1, <2>5 DEF Safe, TypeOK, Process
  <2>7. TypeOK'
    BY <2>1, <2>4, <2>5, SameFiles, PartsType DEF Safe
  <2>8. SpareInv'
    <3>1. \A u \in Shell : shell[u].pc \in {"stop_wait", "record"} => shell[u].pid \in Pid
      BY DEF Safe, TypeOK
    <3>2. \A q \in Pid : process'[q].kind = process[q].kind /\ (process[q].term => process'[q].term)
      BY <2>5, <2>6
    <3> QED BY <2>1, <2>2, <2>4, <2>6, <3>1, <3>2 DEF Safe, SpareInv, At
  <2>9. Spares
    BY <2>1, <2>5 DEF Safe, SpareInv, Spares
  <2> QED BY <2>7, <2>8, <2>9 DEF Safe
<1> QED BY <1>1, <1>2

\* It sends TERM again to what it has been waiting for: a program of somebody else has
\* had its TERM already.
LEMMA StopWaitSafe == ASSUME Safe, NEW s \in Shell, StopWait(s) PROVE Safe' /\ Spares
<1> DEFINE p == shell[s].pid
<1>1. p \in Pid /\ Goto(s, "stop_remove") /\ UNCHANGED <<archive, builds, pid_file, current>>
  BY DEF StopWait, At, Safe, TypeOK
<1>2. "stop_remove" \in PC /\ "stop_remove" \in Working
  BY DEF PC, StopPC, Working
<1>3. /\ ShellOK'
      /\ shell'[s] = [shell[s] EXCEPT !.pc = "stop_remove"]
      /\ \A u \in Shell : u # s => shell'[u] = shell[u]
  BY <1>1, <1>2, GotoType DEF Safe
<1>4. shell'[s].pc = "stop_remove"
  BY <1>3 DEF Safe, TypeOK, DevSh
<1>5. CASE ~Alive(p)
  BY <1>1, <1>3, <1>4, <1>5, MoveSafe DEF StopWait
<1>6. CASE Alive(p)
  <2>1. Term(p)
    BY <1>6 DEF StopWait
  <2>2. /\ ProcessOK'
        /\ process'[p] = [process[p] EXCEPT !.term = TRUE]
        /\ \A q \in Pid : q # p => process'[q] = process[q]
    BY <1>1, <2>1, TermType DEF Safe
  <2>3. process'[p].kind = process[p].kind /\ process'[p].term
    BY <1>1, <2>2 DEF Safe, TypeOK, Process
  <2>4. TypeOK'
    BY <1>1, <1>3, <2>2, SameFiles, PartsType DEF Safe
  <2>5. SpareInv'
    <3>1. \A u \in Shell : shell[u].pc \in {"stop_wait", "record"} => shell[u].pid \in Pid
      BY DEF Safe, TypeOK
    <3>2. \A q \in Pid : process'[q].kind = process[q].kind /\ (process[q].term => process'[q].term)
      BY <2>2, <2>3
    <3> QED BY <1>1, <1>3, <1>4, <3>1, <3>2 DEF Safe, SpareInv, At
  <2>6. process[p].kind = "other" => process[p].term
    BY DEF Safe, SpareInv, StopWait, At
  <2>7. Spares
    BY <2>2, <2>6 DEF Spares
  <2> QED BY <2>4, <2>5, <2>7 DEF Safe
<1> QED BY <1>5, <1>6

LEMMA StopRemoveSafe == ASSUME Safe, NEW s \in Shell, StopRemove(s) PROVE Safe' /\ Spares
BY ReturnSafe DEF StopRemove

\* start_host_keycloak up to the conflict: nothing is sent to anyone.
LEMMA CheckSafe ==
  ASSUME Safe, NEW s \in Shell, Check(s) \/ Reuse(s) \/ Probe(s) \/ WaitForUrl(s) \/ Ready(s)
  PROVE  Safe' /\ Spares
<1>1. {"reuse", "conflict", "ready", "spawn", "alive", "foreground"} \subseteq PC \ Working
  BY DEF PC, StartPC, StopPC, Working
<1>2. CASE Check(s)
  BY <1>1, <1>2, GotoSafe DEF Check
<1>3. CASE Reuse(s)
  BY <1>1, <1>3, GotoSafe, StopSafe DEF Reuse
<1>4. CASE Probe(s)
  BY <1>1, <1>4, GotoSafe, AbortSafe DEF Probe
<1>5. CASE WaitForUrl(s)
  BY <1>1, <1>5, GotoSafe, StopSafe DEF WaitForUrl
<1>6. CASE Ready(s)
  BY <1>1, <1>6, GotoSafe, IdleSafe DEF Ready
<1> QED BY <1>2, <1>3, <1>4, <1>5, <1>6

\* stop_conflicting_keycloak sends TERM to a listener that looks like a Keycloak.
LEMMA ConflictSafe == ASSUME Safe, NEW s \in Shell, Conflict(s) PROVE Safe' /\ Spares
<1>1. CASE ~(shell[s].kill /\ Conflicting # {})
  <2>1. {"spawn", "probe"} \subseteq PC \ Working
    BY DEF PC, StartPC, Working
  <2> QED BY <1>1, <2>1, GotoSafe DEF Conflict
<1>2. CASE shell[s].kill /\ Conflicting # {}
  <2>1. PICK p \in Conflicting :
          /\ Term(p)
          /\ Become(s, [shell[s] EXCEPT !.pc = "conflict_wait", !.pid = p])
    BY <1>2 DEF Conflict
  <2> DEFINE sh == [shell[s] EXCEPT !.pc = "conflict_wait", !.pid = p]
  <2>2. p \in Pid /\ LooksLikeKeycloak(p) /\ UNCHANGED <<archive, builds, pid_file, current>>
    BY DEF Conflict, Conflicting, Listener
  <2>3. sh \in DevSh /\ sh.pc = "conflict_wait" /\ sh.pid = p /\ sh.dist = shell[s].dist
    <3>1. shell[s] \in DevSh /\ "conflict_wait" \in PC
      BY DEF Safe, TypeOK, PC, StartPC
    <3> QED BY <2>2, <3>1 DEF DevSh
  <2>4. builds' \in Nat /\ builds =< builds' /\ sh.dist =< builds'
    BY <2>2, <2>3 DEF Safe, TypeOK
  <2>5. Become(s, sh)
    BY <2>1
  <2> HIDE DEF sh
  <2>6. ShellOK' /\ shell'[s] = sh /\ \A u \in Shell : u # s => shell'[u] = shell[u]
    BY <2>2, <2>3, <2>4, <2>5, BecomeType DEF Safe
  <2>7. /\ ProcessOK'
        /\ process'[p] = [process[p] EXCEPT !.term = TRUE]
        /\ \A q \in Pid : q # p => process'[q] = process[q]
    BY <2>1, <2>2, TermType DEF Safe
  <2>8. process'[p].kind = process[p].kind /\ process[p].kind # "other"
    BY <2>2, <2>7 DEF Safe, TypeOK, Process, LooksLikeKeycloak
  <2>9. TypeOK'
    BY <2>2, <2>6, <2>7, SameFiles, PartsType DEF Safe
  <2>10. SpareInv' /\ Spares
    <3>1. \A u \in Shell : shell'[u] = shell[u] \/ shell'[u].pc \notin {"stop_wait", "record"}
      BY <2>3, <2>6
    <3>2. process'[p].kind # "other" /\ (\A q \in Pid : q # p => process'[q] = process[q])
      BY <2>7, <2>8
    <3> QED BY <2>2, <2>8, <3>1, <3>2, ChangeSpares
  <2> QED BY <2>9, <2>10 DEF Safe
<1> QED BY <1>1, <1>2

\* SIGKILL leaves no process; spawning leaves one of the lab's.
LEMMA ReplaceSafe ==
  ASSUME Safe, NEW s \in Shell, NEW p \in Pid, NEW r \in Process, NEW pc \in PC, NEW i \in Pid,
         process' = [process EXCEPT ![p] = r], ~r.port, ~r.term, r.kind # "other",
         Become(s, [shell[s] EXCEPT !.pc = pc, !.pid = i]),
         pc \in {"stop_wait", "record"} => i = p,
         UNCHANGED <<archive, builds, pid_file, current>>
  PROVE  Safe' /\ Spares
<1> DEFINE sh == [shell[s] EXCEPT !.pc = pc, !.pid = i]
<1>1. sh \in DevSh /\ sh.pc = pc /\ sh.pid = i /\ sh.dist = shell[s].dist
  BY DEF Safe, TypeOK, DevSh
<1>2. builds' \in Nat /\ builds =< builds' /\ sh.dist =< builds' /\ Become(s, sh)
  BY <1>1 DEF Safe, TypeOK
<1> HIDE DEF sh
<1>3. ShellOK' /\ shell'[s] = sh /\ \A u \in Shell : u # s => shell'[u] = shell[u]
  BY <1>1, <1>2, BecomeType DEF Safe
<1>4. ProcessOK' /\ process'[p] = r /\ \A q \in Pid : q # p => process'[q] = process[q]
  BY ProcessType DEF Safe
<1>5. TypeOK'
  BY <1>3, <1>4, SameFiles, PartsType DEF Safe
<1>6. SpareInv' /\ Spares
  BY <1>1, <1>3, <1>4, ChangeSpares
<1> QED BY <1>5, <1>6 DEF Safe

LEMMA ConflictWaitSafe == ASSUME Safe, NEW s \in Shell, ConflictWait(s) PROVE Safe' /\ Spares
<1>1. shell[s].pid \in Pid
  BY DEF Safe, TypeOK, ConflictWait, At
<1>2. "spawn" \in PC
  BY DEF PC, StartPC
<1>3. [shell[s] EXCEPT !.pc = "spawn", !.pid = shell[s].pid] = [shell[s] EXCEPT !.pc = "spawn"]
  BY DEF Safe, TypeOK, DevSh
<1>4. Become(s, [shell[s] EXCEPT !.pc = "spawn", !.pid = shell[s].pid])
  BY <1>3 DEF ConflictWait, Goto
<1> QED BY <1>1, <1>2, <1>4, Nothing, ReplaceSafe DEF ConflictWait

LEMMA SpawnSafe ==
  ASSUME Safe, NEW s \in Shell, NEW p \in Pid, Spawn(s, p) PROVE Safe' /\ Spares
<1> DEFINE r == [NoProcess EXCEPT !.kind = "lab"]
<1>1. r \in Process /\ ~r.port /\ ~r.term /\ r.kind # "other"
  BY DEF NoProcess, Process
<1>2. "record" \in PC
  BY DEF PC, StartPC
<1> QED BY <1>1, <1>2, ReplaceSafe DEF Spawn

\* The pid that is written is that of a process of the lab, or of none.
LEMMA RecordSafe == ASSUME Safe, NEW s \in Shell, Record(s) PROVE Safe' /\ Spares
<1>1. "wait" \in PC \ Working
  BY DEF PC, StartPC, Working
<1>2. /\ ShellOK'
      /\ shell'[s] = [shell[s] EXCEPT !.pc = "wait"]
      /\ \A u \in Shell : u # s => shell'[u] = shell[u]
  BY <1>1, GotoType DEF Record, Safe
<1>3. shell'[s].pc = "wait"
  BY <1>2 DEF Safe, TypeOK, DevSh
<1>4. /\ shell[s].pid \in Pid /\ process[shell[s].pid].kind # "other"
      /\ pid_file' = shell[s].pid /\ current' = TRUE /\ UNCHANGED <<archive, builds, process>>
  BY DEF Record, At, Safe, TypeOK, SpareInv
<1>5. TypeOK'
  BY <1>2, <1>4, SameProcesses, PartsType DEF Safe, TypeOK
<1>6. SpareInv' /\ Spares
  BY <1>2, <1>3, <1>4 DEF Safe, SpareInv, Spares, At
<1> QED BY <1>5, <1>6 DEF Safe

LEMMA AliveCheckSafe == ASSUME Safe, NEW s \in Shell, AliveCheck(s) PROVE Safe' /\ Spares
<1>1. CASE ~PidIsRunning
  BY <1>1, AbortSafe DEF AliveCheck
<1>2. CASE PidIsRunning
  <2> DEFINE sh == [shell[s] EXCEPT !.pc = "ready", !.fresh = TRUE]
  <2>1. Become(s, sh) /\ UNCHANGED <<archive, builds, pid_file, current, process>>
    BY <1>2 DEF AliveCheck
  <2>2. sh \in DevSh /\ sh.pc = "ready" /\ sh.dist = shell[s].dist
    <3>1. "ready" \in PC /\ shell[s] \in DevSh /\ TRUE \in BOOLEAN
      BY DEF Safe, TypeOK, PC
    <3> QED BY <3>1 DEF DevSh
  <2>3. builds' \in Nat /\ builds =< builds' /\ sh.dist =< builds' /\ sh.pc \notin Working
    BY <2>1, <2>2 DEF Safe, TypeOK, Working
  <2> HIDE DEF sh
  <2>4. ShellOK' /\ shell'[s] = sh /\ \A u \in Shell : u # s => shell'[u] = shell[u]
    BY <2>1, <2>2, <2>3, BecomeType DEF Safe
  <2> QED BY <2>1, <2>2, <2>4, MoveSafe
<1> QED BY <1>1, <1>2

LEMMA BuildSafe == ASSUME Safe, NEW s \in Shell, Build(s) PROVE Safe' /\ Spares
<1> DEFINE sh == IF shell[s].command = "build" THEN Idle
                 ELSE [shell[s] EXCEPT !.pc = "check", !.dist = builds + 1]
<1>1. /\ builds' = builds + 1 /\ archive' = builds + 1 /\ Become(s, sh)
      /\ UNCHANGED <<pid_file, current, process>>
  BY DEF Build
<1>2. builds \in Nat /\ builds' \in Nat /\ builds =< builds' /\ archive' \in 0 .. builds'
  BY <1>1 DEF Safe, TypeOK
<1>3. sh \in DevSh /\ sh.pc \in {"idle", "check"} /\ sh.dist \in {0, builds + 1}
  <2>1. "check" \in PC /\ builds + 1 \in Nat /\ shell[s] \in DevSh
    BY <1>2 DEF Safe, TypeOK, PC, StartPC
  <2>2. CASE shell[s].command = "build"
    BY <2>2, Nothing
  <2>3. CASE shell[s].command # "build"
    BY <2>1, <2>3 DEF DevSh
  <2> QED BY <2>2, <2>3
<1>4. sh.dist =< builds' /\ sh.pc \notin Working
  BY <1>1, <1>2, <1>3 DEF Working
<1> HIDE DEF sh
<1>5. ShellOK' /\ shell'[s] = sh /\ \A u \in Shell : u # s => shell'[u] = shell[u]
  BY <1>1, <1>2, <1>3, <1>4, BecomeType DEF Safe
<1>6. TypeOK'
  BY <1>1, <1>2, <1>5, SameProcesses, PartsType DEF Safe, TypeOK
<1>7. SpareInv' /\ Spares
  BY <1>1, <1>3, <1>5, MoveSpares
<1> QED BY <1>6, <1>7 DEF Safe

LEMMA CleanSafe == ASSUME Safe, NEW s \in Shell, Clean(s) PROVE Safe' /\ Spares
<1>1. ShellOK' /\ shell'[s] = Idle /\ \A u \in Shell : u # s => shell'[u] = shell[u]
  BY IdleType DEF Clean, Safe
<1>2. TypeOK'
  BY <1>1, SameProcesses, PartsType DEF Clean, Safe, TypeOK
<1>3. SpareInv' /\ Spares
  BY <1>1, Nothing, MoveSpares DEF Clean
<1> QED BY <1>2, <1>3 DEF Safe

LEMMA ComposeSafe == ASSUME Safe, NEW s \in Shell, Compose(s) PROVE Safe' /\ Spares
<1>1. "build" \in PC \ Working
  BY DEF PC, Working
<1> QED BY <1>1, GotoSafe, StopSafe DEF Compose

LEMMA CtrlCSafe == ASSUME Safe, NEW s \in Shell, CtrlC(s) PROVE Safe' /\ Spares
<1>1. CASE ~At(s, "record")
  BY <1>1, AbortSafe DEF CtrlC
<1>2. CASE At(s, "record")
  <2> DEFINE p == shell[s].pid
             r == [process[p] EXCEPT !.lost = Alive(p)]
  <2>1. p \in Pid /\ process[p].kind # "other"
    BY <1>2 DEF Safe, TypeOK, SpareInv, At
  <2>2. /\ process' = [process EXCEPT ![p] = r] /\ Abort(s)
        /\ UNCHANGED <<archive, builds, pid_file, current>>
    BY <1>2 DEF CtrlC, Safe, TypeOK
  <2>3. /\ r \in Process /\ r.kind = process[p].kind
        /\ r.port = process[p].port /\ r.term = process[p].term
    <3>1. process[p] \in Process /\ Alive(p) \in BOOLEAN
      BY <2>1 DEF Safe, TypeOK, Alive
    <3> QED BY <3>1 DEF Process
  <2> HIDE DEF r
  <2>4. ProcessOK' /\ process'[p] = r /\ \A q \in Pid : q # p => process'[q] = process[q]
    BY <2>1, <2>2, <2>3, ProcessType DEF Safe
  <2>5. /\ ShellOK'
        /\ \/ shell'[s] = Idle
           \/ shell'[s] = [shell[s] EXCEPT !.pc = "stop", !.return = "exit"]
        /\ \A u \in Shell : u # s => shell'[u] = shell[u]
    BY <2>2, AbortType DEF Safe
  <2>6. shell'[s].pc \notin {"stop_wait", "record"}
    BY <2>5, Nothing DEF Safe, TypeOK, DevSh
  <2>7. TypeOK'
    BY <2>2, <2>4, <2>5, SameFiles, PartsType DEF Safe
  <2>8. SpareInv' /\ Spares
    BY <2>1, <2>2, <2>3, <2>4, <2>5, <2>6, ChangeSpares
  <2> QED BY <2>7, <2>8 DEF Safe
<1> QED BY <1>1, <1>2

\* A server that goes its way becomes no program of somebody else.
LEMMA ServerSafe ==
  ASSUME Safe, NEW p \in Pid, Unpack(p) \/ Bind(p) \/ Exit(p) PROVE Safe' /\ Spares
<1>1. PICK r \in Process :
        /\ process' = [process EXCEPT ![p] = r]
        /\ r.kind # "other"
        /\ r.term => process[p].kind # "other"
        /\ r.port => Listener = {} \/ process[p].port
  <2>a. process \in [Pid -> Process] /\ process[p] \in Process /\ archive \in Nat
    BY DEF Safe, TypeOK
  <2>1. CASE Unpack(p)
    <3> DEFINE r == [process[p] EXCEPT !.dist = archive]
    <3>1. /\ r \in Process /\ r.kind = process[p].kind
          /\ r.port = process[p].port /\ r.term = process[p].term
      BY <2>a DEF Process
    <3>2. process' = [process EXCEPT ![p] = r] /\ process[p].kind = "lab"
      BY <2>1, <2>a DEF Unpack
    <3> HIDE DEF r
    <3> QED BY <3>1, <3>2
  <2>2. CASE Bind(p)
    <3> DEFINE r == [process[p] EXCEPT !.port = TRUE]
    <3>1. /\ r \in Process /\ r.kind = process[p].kind /\ r.term = process[p].term
      BY <2>a DEF Process
    <3>2. process' = [process EXCEPT ![p] = r] /\ process[p].kind = "lab" /\ Listener = {}
      BY <2>2, <2>a DEF Bind
    <3> HIDE DEF r
    <3> QED BY <3>1, <3>2
  <2>3. CASE Exit(p)
    BY <2>3, Nothing DEF Exit
  <2> QED BY <2>1, <2>2, <2>3
<1>2. UNCHANGED <<archive, builds, pid_file, current, shell>>
  BY DEF Unpack, Bind, Exit
<1>3. ProcessOK' /\ process'[p] = r /\ \A q \in Pid : q # p => process'[q] = process[q]
  BY <1>1, ProcessType DEF Safe
<1>4. TypeOK'
  BY <1>2, <1>3, SameShells, SameFiles, PartsType DEF Safe
<1>5. SpareInv' /\ Spares
  BY <1>1, <1>2, <1>3, ChangeSpares
<1> QED BY <1>4, <1>5 DEF Safe

\* Somebody starts a program while no dev.sh is at work, and with a pid that the
\* present pid file does not name.
LEMMA StartOtherSafe ==
  ASSUME Safe, NEW p \in Pid, NEW kind \in {"alike", "other"}, NEW port \in BOOLEAN,
         StartOther(p, kind, port)
  PROVE  Safe' /\ Spares
<1> DEFINE r == [NoProcess EXCEPT !.kind = kind, !.port = port]
<1>1. r \in Process /\ r.port = port /\ ~r.term /\ r.kind = kind
  BY DEF NoProcess, Process
<1>2. /\ \A s \in Shell : shell[s].pc = "idle"
      /\ current => p # pid_file
      /\ port => Listener = {}
      /\ process' = [process EXCEPT ![p] = r]
      /\ UNCHANGED <<archive, builds, pid_file, current, shell>>
  BY DEF StartOther, At
<1> HIDE DEF r
<1>3. ProcessOK' /\ process'[p] = r /\ \A q \in Pid : q # p => process'[q] = process[q]
  BY <1>1, <1>2, ProcessType DEF Safe
<1>4. TypeOK'
  BY <1>2, <1>3, SameShells, SameFiles, PartsType DEF Safe
<1>5. SpareInv'
  BY <1>2, <1>3 DEF Safe, SpareInv, At
<1>6. Spares
  BY <1>1, <1>3 DEF Spares
<1> QED BY <1>4, <1>5, <1>6 DEF Safe

LEMMA RebootSafe == ASSUME Safe, Reboot PROVE Safe' /\ Spares
<1>1. /\ process' = [p \in Pid |-> NoProcess]
      /\ shell' = [s \in Shell |-> Idle]
      /\ current' = FALSE
      /\ UNCHANGED <<archive, builds, pid_file>>
  BY DEF Reboot
<1>2. ProcessOK'
  BY <1>1, Nothing DEF ProcessOK, Listener
<1>3. shell' \in [Shell -> DevSh] /\ \A s \in Shell : shell'[s].pc = "idle" /\ shell'[s].dist = 0
  BY <1>1, Nothing
<1>4. builds' \in Nat /\ 0 =< builds'
  BY <1>1 DEF Safe, TypeOK
<1>5. ShellOK'
  BY <1>3, <1>4 DEF ShellOK, Working
<1>6. TypeOK'
  BY <1>1, <1>2, <1>5, PartsType DEF Safe, TypeOK
<1>7. SpareInv' /\ Spares
  BY <1>1, <1>3, Nothing DEF SpareInv, Spares, At
<1> QED BY <1>6, <1>7 DEF Safe

\* Every step keeps the invariant, and tells nobody to end who is not to be told.
LEMMA NextSafe == ASSUME Safe, Next PROVE Safe' /\ Spares
<1>1. ASSUME NEW s \in Shell, Step(s) PROVE Safe' /\ Spares
  <2>1. CASE StopHostKeycloak(s)
    BY <2>1, StopHostSafe, StopWaitSafe, StopRemoveSafe DEF StopHostKeycloak
  <2>2. CASE StartHostKeycloak(s)
    BY <2>2, CheckSafe, ConflictSafe, ConflictWaitSafe, SpawnSafe, RecordSafe, AliveCheckSafe
       DEF StartHostKeycloak
  <2> QED BY <1>1, <2>1, <2>2, ComposeSafe, BuildSafe, CheckSafe, CleanSafe DEF Step
<1>2. ASSUME NEW s \in Shell, Fails(s) PROVE Safe' /\ Spares
  BY <1>2, AbortSafe DEF Fails
<1> QED BY <1>1, <1>2, InvokeSafe, CtrlCSafe, ServerSafe, StartOtherSafe, RebootSafe DEF Next

THEOREM SafeInvariance == Spec => []Safe
<1>1. Safe /\ [Next]_vars => Safe'
  <2>1. ASSUME Safe, UNCHANGED vars PROVE Safe'
    <3>1. TypeOK'
      BY <2>1, SameProcesses, SameShells, SameFiles, PartsType DEF vars, Safe
    <3> QED BY <2>1, <3>1 DEF vars, Safe, SpareInv, At
  <2> QED BY <2>1, NextSafe
<1> QED BY <1>1, InitSafe, PTL DEF Spec

\* The files, the processes and every dev.sh are what the scripts make of them; one
\* process at most listens.
THEOREM TypeCorrect == Spec => []TypeOK
<1>1. Safe => TypeOK
  BY DEF Safe
<1> QED BY <1>1, SafeInvariance, PTL

\* stop_host_keycloak and stop_conflicting_keycloak tell no program but a Keycloak to
\* end, however many terminals are at work; a pid file of before a reboot excepted.
THEOREM OthersAreSpared == Spec => OthersSpared
<1>1. ASSUME Safe, [Next]_vars PROVE [Spares]_vars
  BY <1>1, NextSafe
<1> QED BY <1>1, SafeInvariance, PTL DEF Spec, OthersSpared, Spares

-------------------------------------------------------------------------------
(* One dev.sh at a time *)

OneTerminal == \A s, u \in Shell : s = u

\* Where no server is at work that would have to be in the pid file.
Cleared == {"conflict", "conflict_wait", "probe", "spawn", "record", "clean"}

\* TrackedOrTold does not say what becomes of a server while the file is removed or
\* overwritten.  It was told to end before the file goes, and when a new server is
\* spawned all that are left were told.
TrackInv ==
  /\ TrackedOrTold
  /\ \A s \in Shell : shell[s].pc \in {"stop_wait", "stop_remove"} =>
       /\ pid_file = shell[s].pid
       /\ process[shell[s].pid].kind = "lab" => process[shell[s].pid].term
  /\ \A s \in Shell : shell[s].pc \in Cleared =>
       \A p \in Pid : process[p].kind = "lab" =>
         \/ process[p].term
         \/ process[p].lost
         \/ shell[s].pc = "record" /\ shell[s].pid = p

Tracked == OneTerminal /\ Safe /\ TrackInv

\* A step after which every server was one before, and told or lost if it was, and
\* whose terminal goes on to some place where nothing more is asked.
LEMMA MoveTracks ==
  ASSUME Tracked, NEW s \in Shell, UNCHANGED pid_file,
         \A p \in Pid : process'[p].kind = "lab" =>
           /\ process[p].kind = "lab"
           /\ process[p].term => process'[p].term
           /\ process[p].lost => process'[p].lost,
         shell[s].pc # "record",
         shell'[s].pc \notin Cleared \cup {"stop_wait", "stop_remove"}
  PROVE  TrackInv'
<1>1. \A u \in Shell : u = s
  BY DEF Tracked, OneTerminal
<1>2. TrackedOrTold'
  BY <1>1 DEF Tracked, TrackInv, TrackedOrTold, At
<1> QED BY <1>1, <1>2 DEF TrackInv

\* A step after which all servers are told or lost: whatever becomes of the pid file.
LEMMA ClearedTracks ==
  ASSUME Tracked, NEW s \in Shell,
         \A p \in Pid : process'[p].kind = "lab" => process'[p].term \/ process'[p].lost,
         shell'[s].pc \notin {"stop_wait", "stop_remove"}
  PROVE  TrackInv'
<1>1. \A u \in Shell : u = s
  BY DEF Tracked, OneTerminal
<1> QED BY <1>1 DEF TrackInv, TrackedOrTold

\* Where the moves of a terminal lead.
LEMMA GotoPlace ==
  ASSUME TypeOK, NEW s \in Shell, NEW pc \in PC, Goto(s, pc)
  PROVE  shell'[s].pc = pc /\ shell'[s].pid = shell[s].pid
BY DEF TypeOK, Goto, Become, DevSh
LEMMA StopPlace ==
  ASSUME TypeOK, NEW s \in Shell, NEW r \in {"conflict", "failed", "done", "exit"}, Stop(s, r)
  PROVE  shell'[s].pc = "stop"
BY DEF TypeOK, Stop, Become, DevSh
LEMMA IdlePlace == ASSUME TypeOK, NEW s \in Shell, Become(s, Idle) PROVE shell'[s].pc = "idle"
BY Nothing DEF TypeOK, Become
LEMMA AbortPlace ==
  ASSUME TypeOK, NEW s \in Shell, Abort(s) PROVE shell'[s].pc \in {"idle", "stop"}
BY StopPlace, IdlePlace DEF Abort
LEMMA ReturnPlace ==
  ASSUME TypeOK, NEW s \in Shell, Return(s)
  PROVE  shell'[s].pc \in {"idle", "stop", "clean", "conflict"}
<1>1. shell[s].return \in {"conflict", "failed", "done", "exit"}
  BY DEF TypeOK, DevSh
<1>2. {"conflict", "clean"} \subseteq PC
  BY DEF PC, StartPC
<1>3. CASE shell[s].return = "conflict"
  BY <1>2, <1>3, GotoPlace DEF Return
<1>4. CASE shell[s].return = "failed"
  BY <1>4, AbortPlace DEF Return
<1>5. CASE shell[s].return = "done"
  BY <1>2, <1>5, GotoPlace, IdlePlace DEF Return
<1>6. CASE shell[s].return = "exit"
  BY <1>6, IdlePlace DEF Return
<1> QED BY <1>1, <1>3, <1>4, <1>5, <1>6

\* Servers of which the pid file says nothing were told or lost.
LEMMA Untracked ==
  ASSUME Tracked, NEW s \in Shell, ~PidIsRunning, shell[s].pc # "record"
  PROVE  \A p \in Pid : process[p].kind = "lab" => process[p].term \/ process[p].lost
BY LabLifecycleAssumption
   DEF Tracked, OneTerminal, TrackInv, TrackedOrTold, PidIsRunning, Alive, At

\* Steps that change no process and no file: a new command, Compose, failures, waiting.
LEMMA QuietTracks ==
  ASSUME Tracked, NEW s \in Shell,
         \/ \E command \in {"run", "start", "build", "down", "clean"}, kill \in BOOLEAN :
              Invoke(s, command, kill)
         \/ Compose(s) \/ Build(s) \/ Fails(s) \/ Reuse(s) \/ WaitForUrl(s) \/ Ready(s)
  PROVE  TrackInv'
<1>1. TypeOK
  BY DEF Tracked, Safe
<1>2. UNCHANGED <<pid_file, process>> /\ shell[s].pc # "record"
  BY DEF Invoke, Compose, Build, Fails, Reuse, WaitForUrl, Ready, At
<1>3. shell'[s].pc \in {"idle", "compose", "build", "check", "stop", "ready", "alive", "foreground"}
  <2>1. {"idle", "compose", "build", "check", "stop", "ready", "alive", "foreground"} \subseteq PC
    BY DEF PC, StartPC, StopPC
  <2>2. ASSUME NEW command \in {"run", "start", "build", "down", "clean"}, NEW kill \in BOOLEAN,
               Invoke(s, command, kill)
        PROVE  shell'[s].pc \in {"build", "compose"}
    BY <1>1, <2>2 DEF Invoke, Become, Idle, TypeOK
  <2>3. CASE Build(s)
    <3>1. Idle.pc = "idle" /\ shell[s] \in DevSh
      BY <1>1, Nothing DEF TypeOK
    <3>2. shell'[s] = IF shell[s].command = "build" THEN Idle
                      ELSE [shell[s] EXCEPT !.pc = "check", !.dist = builds + 1]
      BY <1>1, <2>3 DEF Build, Become, TypeOK
    <3> QED BY <3>1, <3>2 DEF DevSh
  <2>4. CASE Compose(s) \/ Reuse(s) \/ WaitForUrl(s) \/ Ready(s)
    BY <1>1, <2>1, <2>4, GotoPlace, StopPlace, IdlePlace DEF Compose, Reuse, WaitForUrl, Ready
  <2>5. CASE Fails(s)
    BY <1>1, <2>5, AbortPlace DEF Fails
  <2> QED BY <2>2, <2>3, <2>4, <2>5
<1> QED BY <1>2, <1>3, MoveTracks DEF Cleared

\* Of all that is started, only Keycloaks that were started by others end when the
\* port is wanted: what is left of the lab's was told, or lost.
LEMMA ClearTracks ==
  ASSUME Tracked, NEW s \in Shell,
         Check(s) \/ Conflict(s) \/ ConflictWait(s) \/ Probe(s) \/ AliveCheck(s) \/ Clean(s)
  PROVE  TrackInv'
<1>1. TypeOK
  BY DEF Tracked, Safe
<1>2. {"reuse", "conflict", "probe", "spawn", "ready"} \subseteq PC
  BY DEF PC, StartPC
<1>3. CASE Check(s)
  <2>1. UNCHANGED <<pid_file, process>> /\ shell[s].pc # "record"
    BY <1>3 DEF Check, At
  <2>2. CASE PidIsRunning
    BY <1>1, <1>2, <1>3, <2>1, <2>2, GotoPlace, MoveTracks DEF Check, Cleared
  <2>3. CASE ~PidIsRunning
    BY <1>1, <1>2, <1>3, <2>1, <2>3, GotoPlace, Untracked, ClearedTracks DEF Check
  <2> QED BY <2>2, <2>3
<1>4. CASE Conflict(s)
  <2>1. \A p \in Pid : process[p].kind = "lab" => process[p].term \/ process[p].lost
    BY <1>4 DEF Tracked, TrackInv, Cleared, Conflict, At
  <2>2. CASE shell[s].kill /\ Conflicting # {}
    <3>1. PICK p \in Conflicting :
            /\ Term(p)
            /\ Become(s, [shell[s] EXCEPT !.pc = "conflict_wait", !.pid = p])
      BY <1>4, <2>2 DEF Conflict
    <3>2. p \in Pid
      BY DEF Conflicting, Listener
    <3>3. /\ process'[p] = [process[p] EXCEPT !.term = TRUE]
          /\ \A q \in Pid : q # p => process'[q] = process[q]
      BY <1>1, <3>1, <3>2, TermType
    <3>4. process'[p].term
      BY <1>1, <3>2, <3>3 DEF TypeOK, Process
    <3>5. shell'[s].pc = "conflict_wait"
      BY <1>1, <3>1 DEF TypeOK, DevSh, Become
    <3> QED BY <2>1, <3>3, <3>4, <3>5, ClearedTracks
  <2>3. CASE ~(shell[s].kill /\ Conflicting # {})
    <3>1. UNCHANGED process /\ shell'[s].pc \in {"spawn", "probe"}
      BY <1>1, <1>2, <1>4, <2>3, GotoPlace DEF Conflict
    <3> QED BY <2>1, <3>1, ClearedTracks
  <2> QED BY <2>2, <2>3
<1>5. CASE ConflictWait(s)
  <2>1. \A p \in Pid : process[p].kind = "lab" => process[p].term \/ process[p].lost
    BY <1>5 DEF Tracked, TrackInv, Cleared, ConflictWait, At
  <2>2. shell'[s].pc = "spawn"
    BY <1>1, <1>2, <1>5, GotoPlace DEF ConflictWait
  <2>3. \A q \in Pid : process'[q] \in {NoProcess, process[q]}
    BY <1>1, <1>5 DEF ConflictWait, TypeOK
  <2>4. \A q \in Pid : process'[q].kind = "lab" => process'[q].term \/ process'[q].lost
    BY <2>1, <2>3, Nothing
  <2> QED BY <2>2, <2>4, ClearedTracks
<1>6. CASE Probe(s)
  <2>1. \A p \in Pid : process[p].kind = "lab" => process[p].term \/ process[p].lost
    BY <1>6 DEF Tracked, TrackInv, Cleared, Probe, At
  <2>2. UNCHANGED process /\ shell'[s].pc \in {"idle", "stop", "spawn"}
    BY <1>1, <1>2, <1>6, GotoPlace, AbortPlace DEF Probe
  <2> QED BY <2>1, <2>2, ClearedTracks
<1>7. CASE AliveCheck(s)
  <2>1. UNCHANGED process /\ shell[s].pc # "record"
    BY <1>7 DEF AliveCheck, At
  <2>2. CASE PidIsRunning
    <3>1. /\ shell'[s] = [shell[s] EXCEPT !.pc = "ready", !.fresh = TRUE]
          /\ UNCHANGED pid_file
      BY <1>1, <1>7, <2>2 DEF AliveCheck, Become, TypeOK
    <3>2. shell'[s].pc = "ready"
      BY <1>1, <3>1 DEF TypeOK, DevSh
    <3> QED BY <2>1, <3>1, <3>2, MoveTracks DEF Cleared
  <2>3. CASE ~PidIsRunning
    <3>1. shell'[s].pc \in {"idle", "stop"}
      BY <1>1, <1>7, <2>3, AbortPlace DEF AliveCheck
    <3> QED BY <2>1, <2>3, <3>1, Untracked, ClearedTracks
  <2> QED BY <2>2, <2>3
<1>8. CASE Clean(s)
  <2>1. \A p \in Pid : process[p].kind = "lab" => process[p].term \/ process[p].lost
    BY <1>8 DEF Tracked, TrackInv, Cleared, Clean, At
  <2>2. UNCHANGED process /\ shell'[s].pc = "idle"
    BY <1>1, <1>8, IdlePlace DEF Clean
  <2> QED BY <2>1, <2>2, ClearedTracks
<1> QED BY <1>3, <1>4, <1>5, <1>6, <1>7, <1>8

\* stop_host_keycloak removes the pid file after it has told the server.
LEMMA StopTracks ==
  ASSUME Tracked, NEW s \in Shell, StopHost(s) \/ StopWait(s) \/ StopRemove(s) PROVE TrackInv'
<1>1. TypeOK /\ \A u \in Shell : u = s
  BY DEF Tracked, Safe, OneTerminal
<1>2. CASE StopHost(s)
  <2>1. CASE ~PidIsRunning
    <3>1. UNCHANGED process /\ shell[s].pc # "record"
      BY <1>2, <2>1 DEF StopHost, At
    <3>2. shell'[s].pc \in {"idle", "stop", "clean", "conflict"}
      BY <1>1, <1>2, <2>1, ReturnPlace DEF StopHost
    <3> QED BY <2>1, <3>1, <3>2, Untracked, ClearedTracks
  <2>2. CASE PidIsRunning
    <3>1. pid_file \in Pid /\ Term(pid_file) /\ UNCHANGED pid_file
      BY <1>1, <1>2, <2>2 DEF StopHost, PidIsRunning, TypeOK
    <3>2. shell'[s] = [shell[s] EXCEPT !.pc = "stop_wait", !.pid = pid_file]
      BY <1>1, <1>2, <2>2 DEF StopHost, Become, TypeOK
    <3>3. shell'[s].pc = "stop_wait" /\ shell'[s].pid = pid_file
      BY <1>1, <3>2 DEF TypeOK, DevSh
    <3>4. /\ process'[pid_file] = [process[pid_file] EXCEPT !.term = TRUE]
          /\ \A q \in Pid : q # pid_file => process'[q] = process[q]
      BY <1>1, <3>1, TermType
    <3>5. process'[pid_file].term
      BY <1>1, <3>1, <3>4 DEF TypeOK, Process
    <3>6. \A q \in Pid : process'[q].kind = "lab" => pid_file' = q \/ process'[q].term \/ process'[q].lost
      BY <1>1, <1>2, <3>1, <3>4, <3>5 DEF Tracked, TrackInv, TrackedOrTold, StopHost, At
    <3> QED BY <1>1, <3>1, <3>3, <3>5, <3>6 DEF TrackInv, TrackedOrTold, Cleared
  <2> QED BY <2>1, <2>2
<1>3. CASE StopWait(s)
  <2> DEFINE p == shell[s].pid
  <2>1. p \in Pid /\ pid_file = p /\ UNCHANGED pid_file
    BY <1>1, <1>3 DEF StopWait, At, TypeOK, Tracked, TrackInv
  <2>2. shell'[s].pc = "stop_remove" /\ shell'[s].pid = p
    <3>1. "stop_remove" \in PC
      BY DEF PC, StopPC
    <3> QED BY <1>1, <1>3, <3>1, GotoPlace DEF StopWait
  <2>3. /\ process'[p].kind = "lab" => process'[p].term
        /\ \A q \in Pid : q # p => process'[q] = process[q]
    <3>1. CASE Alive(p)
      <4>1. /\ process'[p] = [process[p] EXCEPT !.term = TRUE]
            /\ \A q \in Pid : q # p => process'[q] = process[q]
        BY <1>1, <1>3, <2>1, <3>1, TermType DEF StopWait
      <4> QED BY <1>1, <2>1, <4>1 DEF TypeOK, Process
    <3>2. CASE ~Alive(p)
      BY <1>3, <3>2 DEF StopWait, Alive
    <3> QED BY <3>1, <3>2
  <2>4. \A q \in Pid : process'[q].kind = "lab" => pid_file' = q \/ process'[q].term \/ process'[q].lost
    BY <1>1, <1>3, <2>1, <2>3 DEF Tracked, TrackInv, TrackedOrTold, StopWait, At
  <2> QED BY <1>1, <2>1, <2>2, <2>3, <2>4 DEF TrackInv, TrackedOrTold, Cleared
<1>4. CASE StopRemove(s)
  <2>1. UNCHANGED process /\ shell'[s].pc \in {"idle", "stop", "clean", "conflict"}
    BY <1>1, <1>4, ReturnPlace DEF StopRemove
  <2>2. \A p \in Pid : process[p].kind = "lab" => process[p].term \/ process[p].lost
    BY <1>1, <1>4 DEF Tracked, TrackInv, TrackedOrTold, StopRemove, At
  <2> QED BY <2>1, <2>2, ClearedTracks
<1> QED BY <1>2, <1>3, <1>4

\* From nohup to the pid file the new server is the terminal's; Ctrl-C loses it.
LEMMA SpawnTracks ==
  ASSUME Tracked, NEW s \in Shell, (\E p \in Pid : Spawn(s, p)) \/ Record(s) \/ CtrlC(s)
  PROVE  TrackInv'
<1>1. TypeOK /\ \A u \in Shell : u = s
  BY DEF Tracked, Safe, OneTerminal
<1>2. ASSUME NEW p \in Pid, Spawn(s, p) PROVE TrackInv'
  <2>1. \A q \in Pid : q # p => process'[q] = process[q]
    BY <1>1, <1>2 DEF Spawn, TypeOK
  <2>2. "record" \in PC /\ shell'[s] = [shell[s] EXCEPT !.pc = "record", !.pid = p]
    BY <1>1, <1>2 DEF Spawn, Become, TypeOK, PC, StartPC
  <2>3. shell'[s].pc = "record" /\ shell'[s].pid = p
    BY <1>1, <2>2 DEF TypeOK, DevSh
  <2>4. \A q \in Pid : process[q].kind = "lab" => process[q].term \/ process[q].lost
    BY <1>2 DEF Tracked, TrackInv, Cleared, Spawn, At
  <2> QED BY <1>1, <2>1, <2>3, <2>4 DEF TrackInv, TrackedOrTold, At
<1>3. CASE Record(s)
  <2>1. "wait" \in PC
    BY DEF PC, StartPC
  <2>2. shell'[s].pc = "wait" /\ pid_file' = shell[s].pid /\ UNCHANGED process
    BY <1>1, <1>3, <2>1, GotoPlace DEF Record
  <2>3. \A q \in Pid : process[q].kind = "lab" =>
          process[q].term \/ process[q].lost \/ shell[s].pid = q
    BY <1>3 DEF Tracked, TrackInv, Cleared, Record, At
  <2> QED BY <1>1, <2>2, <2>3 DEF TrackInv, TrackedOrTold, Cleared
<1>4. CASE CtrlC(s)
  <2>1. shell'[s].pc \in {"idle", "stop"}
    BY <1>1, <1>4, AbortPlace DEF CtrlC
  <2>2. CASE At(s, "record")
    <3> DEFINE p == shell[s].pid
    <3>1. p \in Pid /\ process' = [process EXCEPT ![p].lost = Alive(p)]
      BY <1>1, <1>4, <2>2 DEF CtrlC, TypeOK, At
    <3>2. /\ process'[p] = [process[p] EXCEPT !.lost = Alive(p)]
          /\ \A q \in Pid : q # p => process'[q] = process[q]
      BY <1>1, <3>1 DEF TypeOK
    <3>3. process'[p].kind = process[p].kind /\ process'[p].lost = Alive(p)
      BY <1>1, <3>1, <3>2 DEF TypeOK, Process
    <3>4. \A q \in Pid : process[q].kind = "lab" => process[q].term \/ process[q].lost \/ p = q
      BY <2>2 DEF Tracked, TrackInv, Cleared, At
    <3>5. \A q \in Pid : process'[q].kind = "lab" => process'[q].term \/ process'[q].lost
      BY <3>2, <3>3, <3>4 DEF Alive
    <3> QED BY <2>1, <3>5, ClearedTracks
  <2>3. CASE ~At(s, "record")
    BY <1>4, <2>1, <2>3, MoveTracks DEF CtrlC, At, Cleared
  <2> QED BY <2>2, <2>3
<1> QED BY <1>2, <1>3, <1>4

\* Servers and others: no server appears, and none that was told is no longer told.
LEMMA MachineTracks ==
  ASSUME Tracked,
         \/ \E p \in Pid : Unpack(p) \/ Bind(p) \/ Exit(p)
         \/ \E p \in Pid, kind \in {"alike", "other"}, port \in BOOLEAN :
              StartOther(p, kind, port)
         \/ Reboot
  PROVE  TrackInv'
<1>1. TypeOK
  BY DEF Tracked, Safe
<1>2. ASSUME UNCHANGED <<pid_file, shell>>,
             \A q \in Pid : process'[q].kind = "lab" =>
               /\ process[q].kind = "lab"
               /\ process'[q].term = process[q].term
               /\ process'[q].lost = process[q].lost
      PROVE  TrackInv'
  BY <1>1, <1>2 DEF Tracked, TrackInv, TrackedOrTold, At, Cleared, TypeOK
<1>3. ASSUME NEW p \in Pid, Unpack(p) \/ Bind(p) \/ Exit(p) PROVE TrackInv'
  BY <1>1, <1>2, <1>3, Nothing DEF Unpack, Bind, Exit, TypeOK, Process
<1>4. ASSUME NEW p \in Pid, NEW kind \in {"alike", "other"}, NEW port \in BOOLEAN,
             StartOther(p, kind, port)
      PROVE  TrackInv'
  BY <1>1, <1>2, <1>4 DEF StartOther, TypeOK, NoProcess
<1>5. CASE Reboot
  BY <1>5, Nothing DEF Reboot, TrackInv, TrackedOrTold, Cleared
<1> QED BY <1>3, <1>4, <1>5

LEMMA NextTracks == ASSUME Tracked, Next PROVE Tracked'
<1>1. ASSUME NEW s \in Shell, Step(s) PROVE TrackInv'
  BY <1>1, QuietTracks, ClearTracks, StopTracks, SpawnTracks
     DEF Step, StopHostKeycloak, StartHostKeycloak
<1>2. TrackInv'
  BY <1>1, QuietTracks, SpawnTracks, MachineTracks DEF Next
<1>3. Safe'
  BY NextSafe DEF Tracked
<1> QED BY <1>2, <1>3 DEF Tracked, OneTerminal

LEMMA TrackedInvariance == OneTerminal /\ Spec => []Tracked
<1>1. OneTerminal /\ Init => Tracked
  <2> SUFFICES ASSUME OneTerminal, Init PROVE Tracked
    OBVIOUS
  <2>1. TrackInv
    BY Nothing DEF Init, TrackInv, TrackedOrTold, Cleared
  <2> QED BY <2>1, InitSafe DEF Tracked
<1>2. Tracked /\ [Next]_vars => Tracked'
  <2>1. ASSUME Tracked, UNCHANGED vars PROVE Tracked'
    <3>1. Safe'
      <4>1. TypeOK'
        BY <2>1, SameProcesses, SameShells, SameFiles, PartsType DEF vars, Tracked, Safe
      <4> QED BY <2>1, <4>1 DEF vars, Tracked, Safe, SpareInv, At
    <3>2. TrackInv'
      BY <2>1 DEF vars, Tracked, TrackInv, TrackedOrTold, At
    <3> QED BY <2>1, <3>1, <3>2 DEF Tracked, OneTerminal
  <2> QED BY <2>1, NextTracks
<1> QED BY <1>1, <1>2, PTL DEF Spec

\* With one dev.sh at a time, every server it started is in the pid file, or was told
\* to end, or was lost by an interrupt between `nohup &` and `echo $!`.
THEOREM ServersAreTracked == OneTerminal /\ Spec => []TrackedOrTold
<1>1. Tracked => TrackedOrTold
  BY DEF Tracked, TrackInv
<1> QED BY <1>1, TrackedInvariance, PTL

-------------------------------------------------------------------------------
(* The server that answers is the one that was started *)

\* A dev.sh between its build and "Keycloak is ready", stop_host_keycloak included.
InStart(s) ==
  \/ shell[s].pc \in StartPC \cup {"ready"}
  \/ shell[s].pc \in StopPC /\ shell[s].return = "conflict"

\* It has a server of its own.
Started(s) ==
  \/ shell[s].pc \in {"record", "wait", "alive"}
  \/ shell[s].pc = "ready" /\ shell[s].fresh

\* A server has its distribution before it has the port.
PortInv == \A p \in Pid : process[p].kind = "lab" /\ process[p].port => process[p].dist # 0

\* Keycloaks that listen once the port has been cleared: this server, or lost ones.
PortCleared(s) ==
  shell[s].kill /\ (shell[s].pc \in {"conflict_wait", "spawn"} \/ Started(s)) =>
    \A p \in Pid : process[p].port /\ LooksLikeKeycloak(p) =>
      process[p].lost \/ (shell[s].pc # "spawn" /\ p = shell[s].pid)

Own(s) ==
  /\ InStart(s) => shell[s].dist = archive
  /\ InStart(s) /\ shell[s].pc # "ready" => ~shell[s].fresh
  /\ shell[s].pc \in {"compose", "build"} => ~shell[s].fresh
  /\ shell[s].pc = "probe" => ~shell[s].kill
  /\ Started(s) =>
       /\ shell[s].pid \in Pid
       /\ process[shell[s].pid].kind # "alike"
       /\ process[shell[s].pid].kind = "lab" => process[shell[s].pid].dist \in {0, archive}
  /\ Started(s) /\ shell[s].pc # "record" => pid_file = shell[s].pid
  /\ PortCleared(s)

Owned == Lsof /\ Tracked /\ PortInv /\ \A s \in Shell : Own(s)

\* The only terminal, and its types.
LEMMA Only ==
  ASSUME Owned, NEW s \in Shell
  PROVE  /\ TypeOK /\ Own(s) /\ shell[s] \in DevSh /\ process \in [Pid -> Process]
         /\ \A u \in Shell : u = s
BY DEF Owned, Tracked, OneTerminal, Safe, TypeOK

\* A terminal that is not, or no longer, about to start a server.
LEMMA LeaveOwns ==
  ASSUME Owned, NEW s \in Shell, PortInv',
         shell'[s].pc \notin StartPC \cup {"ready"},
         shell'[s].pc \in StopPC => shell'[s].return # "conflict",
         shell'[s].pc \in {"compose", "build"} => ~shell'[s].fresh
  PROVE  PortInv' /\ \A u \in Shell : Own(u)'
<1>1. ~InStart(s)' /\ ~Started(s)'
  BY DEF InStart, Started, StartPC
<1>2. Own(s)'
  BY <1>1 DEF Own, PortCleared, StartPC
<1> QED BY <1>2, Only

\* Where Abort leads.
LEMMA AbortLeaves ==
  ASSUME Owned, NEW s \in Shell, Abort(s)
  PROVE  /\ shell'[s].pc \in {"idle", "stop"}
         /\ shell'[s].pc = "stop" => shell'[s].return = "exit"
<1>1. shell \in [Shell -> DevSh] /\ shell[s] \in DevSh
  BY Only DEF TypeOK
<1>2. CASE Become(s, Idle)
  BY <1>1, <1>2, Nothing DEF Become
<1>3. CASE Stop(s, "exit")
  <2>1. shell'[s] = [shell[s] EXCEPT !.pc = "stop", !.return = "exit"]
    BY <1>1, <1>3 DEF Stop, Become
  <2> QED BY <1>1, <2>1 DEF DevSh
<1> QED BY <1>2, <1>3 DEF Abort

LEMMA AbortOwns ==
  ASSUME Owned, NEW s \in Shell, Abort(s), PortInv' PROVE PortInv' /\ \A u \in Shell : Own(u)'
BY AbortLeaves, LeaveOwns DEF StartPC, StopPC

\* A terminal that goes on before the port is cleared, or finds a server running.
LEMMA StartOwns ==
  ASSUME Owned, NEW s \in Shell, PortInv', InStart(s), UNCHANGED archive,
         shell'[s].dist = shell[s].dist,
         shell[s].pc # "ready", shell'[s].fresh = shell[s].fresh,
         shell'[s].pc \notin {"compose", "build", "probe", "conflict_wait", "spawn", "record",
                              "wait", "alive"}
  PROVE  PortInv' /\ \A u \in Shell : Own(u)'
<1>1. Own(s) /\ \A u \in Shell : u = s
  BY Only
<1>2. ~shell'[s].fresh /\ shell'[s].dist = archive'
  BY <1>1 DEF Own
<1>3. ~Started(s)'
  BY <1>2 DEF Started
<1>4. Own(s)'
  BY <1>2, <1>3 DEF Own, PortCleared
<1> QED BY <1>1, <1>4

\* A call of stop_host_keycloak and a move of the terminal, field by field.
LEMMA GotoFields ==
  ASSUME Owned, NEW s \in Shell, NEW pc \in PC, Goto(s, pc)
  PROVE  /\ shell'[s].pc = pc /\ shell'[s].dist = shell[s].dist
         /\ shell'[s].fresh = shell[s].fresh /\ shell'[s].kill = shell[s].kill
         /\ shell'[s].return = shell[s].return /\ shell'[s].pid = shell[s].pid
<1>1. shell \in [Shell -> DevSh] /\ shell[s] \in DevSh
  BY Only DEF TypeOK
<1>2. shell'[s] = [shell[s] EXCEPT !.pc = pc]
  BY <1>1 DEF Goto, Become
<1> QED BY <1>1, <1>2 DEF DevSh
LEMMA StopFields ==
  ASSUME Owned, NEW s \in Shell, NEW r \in {"conflict", "failed", "done", "exit"}, Stop(s, r)
  PROVE  /\ shell'[s].pc = "stop" /\ shell'[s].return = r
         /\ shell'[s].dist = shell[s].dist /\ shell'[s].fresh = shell[s].fresh
<1>1. shell \in [Shell -> DevSh] /\ shell[s] \in DevSh
  BY Only DEF TypeOK
<1>2. shell'[s] = [shell[s] EXCEPT !.pc = "stop", !.return = r]
  BY <1>1 DEF Stop, Become
<1> QED BY <1>1, <1>2 DEF DevSh

LEMMA SamePorts == ASSUME Owned, UNCHANGED process PROVE PortInv'
BY DEF Owned, PortInv

\* A new command, and what comes before the build and after the end.
LEMMA OutsideOwns ==
  ASSUME Owned, NEW s \in Shell,
         \/ \E command \in {"run", "start", "build", "down", "clean"}, kill \in BOOLEAN :
              Invoke(s, command, kill)
         \/ Compose(s) \/ Fails(s) \/ Ready(s) \/ Clean(s)
  PROVE  PortInv' /\ \A u \in Shell : Own(u)'
<1>1. PortInv'
  BY SamePorts DEF Invoke, Compose, Fails, Ready, Clean
<1>2. ASSUME NEW command \in {"run", "start", "build", "down", "clean"}, NEW kill \in BOOLEAN,
             Invoke(s, command, kill)
      PROVE  PortInv' /\ \A u \in Shell : Own(u)'
  <2>1. shell'[s] = [Idle EXCEPT !.pc = IF command = "build" THEN "build" ELSE "compose",
                                 !.command = command, !.kill = kill]
    BY <1>2, Only DEF Invoke, Become, TypeOK
  <2>2. shell'[s].pc \in {"build", "compose"} /\ ~shell'[s].fresh
    BY <2>1 DEF Idle
  <2> QED BY <1>1, <2>2, LeaveOwns DEF StartPC, StopPC
<1>3. CASE Compose(s)
  <2>1. ~shell[s].fresh
    BY <1>3, Only DEF Compose, At, Own
  <2>2. "build" \in PC
    BY DEF PC
  <2>3. CASE Stop(s, "done")
    BY <1>1, <2>3, StopFields, LeaveOwns DEF StartPC, StopPC
  <2>4. CASE Goto(s, "build")
    BY <1>1, <2>1, <2>2, <2>4, GotoFields, LeaveOwns DEF StartPC, StopPC
  <2> QED BY <1>3, <2>3, <2>4 DEF Compose
<1>4. CASE Fails(s)
  BY <1>1, <1>4, AbortOwns DEF Fails
<1>5. CASE Ready(s)
  <2>1. "foreground" \in PC
    BY DEF PC
  <2>2. CASE Goto(s, "foreground")
    BY <1>1, <2>1, <2>2, GotoFields, LeaveOwns DEF StartPC, StopPC
  <2>3. CASE Become(s, Idle)
    BY <1>1, <2>3, Only, IdlePlace, LeaveOwns DEF StartPC, StopPC
  <2> QED BY <1>5, <2>2, <2>3 DEF Ready
<1>6. CASE Clean(s)
  BY <1>1, <1>6, Only, IdlePlace, LeaveOwns DEF Clean, StartPC, StopPC
<1> QED BY <1>2, <1>3, <1>4, <1>5, <1>6

LEMMA BuildOwns ==
  ASSUME Owned, NEW s \in Shell, Build(s) PROVE PortInv' /\ \A u \in Shell : Own(u)'
<1>1. PortInv' /\ ~shell[s].fresh /\ archive' = builds + 1
  BY SamePorts, Only DEF Build, At, Own
<1>2. CASE shell[s].command = "build"
  <2>1. shell'[s].pc = "idle"
    BY <1>2, Only, IdlePlace DEF Build
  <2> QED BY <1>1, <2>1, LeaveOwns DEF StartPC, StopPC
<1>3. CASE shell[s].command # "build"
  <2>1. shell \in [Shell -> DevSh] /\ shell[s] \in DevSh
    BY Only DEF TypeOK
  <2>2. shell'[s] = [shell[s] EXCEPT !.pc = "check", !.dist = builds + 1]
    BY <1>3, <2>1 DEF Build, Become
  <2>3. shell'[s].pc = "check" /\ shell'[s].dist = archive' /\ ~shell'[s].fresh
    BY <1>1, <2>1, <2>2 DEF DevSh
  <2>4. ~Started(s)'
    BY <2>3 DEF Started
  <2>5. Own(s)'
    BY <2>3, <2>4 DEF Own, PortCleared
  <2> QED BY <1>1, <2>5, Only
<1> QED BY <1>2, <1>3

\* TERM changes neither who listens nor what was unpacked.
LEMMA TermPorts ==
  ASSUME Owned, NEW p \in Pid, Term(p)
  PROVE  /\ PortInv'
         /\ \A q \in Pid : /\ process'[q].kind = process[q].kind
                           /\ process'[q].port = process[q].port
                           /\ process'[q].dist = process[q].dist
                           /\ process'[q].lost = process[q].lost
<1>1. process \in [Pid -> Process]
  BY DEF Owned, Tracked, Safe, TypeOK
<1>2. \A q \in Pid : /\ process'[q].kind = process[q].kind
                     /\ process'[q].port = process[q].port
                     /\ process'[q].dist = process[q].dist
                     /\ process'[q].lost = process[q].lost
  BY <1>1 DEF Term, Process
<1> QED BY <1>2 DEF Owned, PortInv

\* stop_host_keycloak leads back into start_host_keycloak, or out of it.
LEMMA ReturnOwns ==
  ASSUME Owned, NEW s \in Shell, Return(s), PortInv', UNCHANGED archive, shell[s].pc \in StopPC
  PROVE  PortInv' /\ \A u \in Shell : Own(u)'
<1>1. shell[s].return \in {"conflict", "failed", "done", "exit"} /\ TypeOK
  BY Only DEF DevSh
<1>2. {"conflict", "clean"} \subseteq PC
  BY DEF PC, StartPC
<1>3. CASE shell[s].return = "conflict"
  <2>1. InStart(s) /\ shell[s].pc # "ready"
    BY <1>3 DEF InStart, StopPC
  <2>2. /\ shell'[s].pc = "conflict"
        /\ shell'[s].dist = shell[s].dist /\ shell'[s].fresh = shell[s].fresh
    BY <1>2, <1>3, GotoFields DEF Return
  <2> QED BY <2>1, <2>2, StartOwns
<1>4. CASE shell[s].return = "failed"
  BY <1>4, AbortOwns DEF Return
<1>5. CASE shell[s].return = "done" /\ shell[s].command = "clean"
  BY <1>2, <1>5, GotoFields, LeaveOwns DEF Return, StartPC, StopPC
<1>6. CASE shell[s].return = "exit" \/ (shell[s].return = "done" /\ shell[s].command # "clean")
  BY <1>1, <1>6, IdlePlace, LeaveOwns DEF Return, StartPC, StopPC
<1> QED BY <1>1, <1>3, <1>4, <1>5, <1>6

LEMMA StopHostOwns ==
  ASSUME Owned, NEW s \in Shell, StopHostKeycloak(s) PROVE PortInv' /\ \A u \in Shell : Own(u)'
<1>1. shell[s].pc \in StopPC /\ UNCHANGED archive
  BY DEF StopHostKeycloak, StopHost, StopWait, StopRemove, At, StopPC
<1>2. shell \in [Shell -> DevSh] /\ shell[s] \in DevSh /\ TypeOK
  BY Only DEF TypeOK
<1>3. ASSUME PortInv', shell'[s].pc \in StopPC, shell'[s].return = shell[s].return,
             shell'[s].dist = shell[s].dist, shell'[s].fresh = shell[s].fresh
      PROVE  PortInv' /\ \A u \in Shell : Own(u)'
  <2>1. CASE shell[s].return = "conflict"
    <3>1. InStart(s) /\ shell[s].pc # "ready"
      BY <1>1, <2>1 DEF InStart, StopPC
    <3> QED BY <1>1, <1>3, <3>1, StartOwns DEF StopPC
  <2>2. CASE shell[s].return # "conflict"
    BY <1>3, <2>2, LeaveOwns DEF StopPC, StartPC
  <2> QED BY <2>1, <2>2
<1>4. CASE StopHost(s)
  <2>1. CASE ~PidIsRunning
    BY <1>1, <1>4, <2>1, SamePorts, ReturnOwns DEF StopHost
  <2>2. CASE PidIsRunning
    <3>1. pid_file \in Pid /\ Term(pid_file)
      BY <1>2, <1>4, <2>2 DEF StopHost, PidIsRunning, TypeOK
    <3>2. shell'[s] = [shell[s] EXCEPT !.pc = "stop_wait", !.pid = pid_file]
      BY <1>2, <1>4, <2>2 DEF StopHost, Become
    <3>3. /\ shell'[s].pc = "stop_wait" /\ shell'[s].return = shell[s].return
          /\ shell'[s].dist = shell[s].dist /\ shell'[s].fresh = shell[s].fresh
      BY <1>2, <3>2 DEF DevSh
    <3> QED BY <1>3, <3>1, <3>3, TermPorts DEF StopPC
  <2> QED BY <2>1, <2>2
<1>5. CASE StopWait(s)
  <2>1. shell[s].pid \in Pid
    BY <1>2, <1>5 DEF StopWait, At, TypeOK
  <2>2. PortInv'
    BY <1>5, <2>1, TermPorts, SamePorts DEF StopWait
  <2>3. "stop_remove" \in PC
    BY DEF PC, StopPC
  <2> QED BY <1>3, <1>5, <2>2, <2>3, GotoFields DEF StopWait, StopPC
<1>6. CASE StopRemove(s)
  BY <1>1, <1>6, SamePorts, ReturnOwns DEF StopRemove
<1> QED BY <1>4, <1>5, <1>6 DEF StopHostKeycloak

\* Check and Reuse: a server that is found running is not reported fresh.
LEMMA CheckOwns ==
  ASSUME Owned, NEW s \in Shell, Check(s) \/ Reuse(s) PROVE PortInv' /\ \A u \in Shell : Own(u)'
<1>1. /\ PortInv' /\ UNCHANGED archive /\ shell[s].pc \in {"check", "reuse"}
  BY SamePorts DEF Check, Reuse, At
<1>2. InStart(s)
  BY <1>1 DEF InStart, StartPC
<1>3. {"reuse", "conflict", "ready"} \subseteq PC
  BY DEF PC, StartPC
<1>4. /\ shell'[s].pc \in {"reuse", "conflict", "ready", "stop"}
      /\ shell'[s].dist = shell[s].dist /\ shell'[s].fresh = shell[s].fresh
  BY <1>3, GotoFields, StopFields DEF Check, Reuse
<1> QED BY <1>1, <1>2, <1>4, StartOwns

\* stop_conflicting_keycloak: with lsof, a Keycloak that holds the port is found.
LEMMA ConflictOwns ==
  ASSUME Owned, NEW s \in Shell, Conflict(s) PROVE PortInv' /\ \A u \in Shell : Own(u)'
<1>1. /\ shell \in [Shell -> DevSh] /\ shell[s] \in DevSh /\ TypeOK
      /\ process \in [Pid -> Process] /\ \A u \in Shell : u = s
  BY Only DEF TypeOK
<1>2. InStart(s) /\ shell[s].dist = archive /\ ~shell[s].fresh /\ UNCHANGED archive
  BY Only DEF Conflict, At, Own, InStart, StartPC
<1>3. CASE shell[s].kill /\ Conflicting # {}
  <2>1. PICK p \in Conflicting :
          /\ Term(p)
          /\ Become(s, [shell[s] EXCEPT !.pc = "conflict_wait", !.pid = p])
    BY <1>3 DEF Conflict
  <2>2. p \in Pid /\ p \in Listener
    BY DEF Conflicting, Listener
  <2>3. shell'[s] = [shell[s] EXCEPT !.pc = "conflict_wait", !.pid = p]
    BY <1>1, <2>1 DEF Become
  <2>4. /\ shell'[s].pc = "conflict_wait" /\ shell'[s].pid = p
        /\ shell'[s].dist = archive' /\ ~shell'[s].fresh
    BY <1>1, <1>2, <2>3 DEF DevSh
  <2>5. PortInv' /\ \A q \in Pid : process'[q].port = process[q].port
    BY <2>1, <2>2, TermPorts
  <2>6. \A q \in Pid : process'[q].port => q = p
    BY <1>1, <2>2, <2>5 DEF TypeOK, Listener
  <2>7. ~Started(s)'
    BY <2>4 DEF Started
  <2>8. Own(s)'
    BY <2>4, <2>6, <2>7 DEF Own, PortCleared
  <2> QED BY <1>1, <2>5, <2>8
<1>4. CASE ~(shell[s].kill /\ Conflicting # {})
  <2>1. {"spawn", "probe"} \subseteq PC
    BY DEF PC, StartPC
  <2>2. /\ Goto(s, IF shell[s].kill THEN "spawn" ELSE "probe")
        /\ UNCHANGED process /\ PortInv'
    BY <1>4, SamePorts DEF Conflict
  <2>3. /\ shell'[s].pc = (IF shell[s].kill THEN "spawn" ELSE "probe")
        /\ shell'[s].dist = archive' /\ ~shell'[s].fresh /\ shell'[s].kill = shell[s].kill
    BY <1>2, <2>1, <2>2, GotoFields
  <2>4. shell[s].kill => \A p \in Pid : ~(process[p].port /\ LooksLikeKeycloak(p))
    BY <1>4 DEF Owned, Conflicting, Listener
  <2>5. ~Started(s)'
    BY <2>3 DEF Started
  <2>6. PortCleared(s)'
    BY <2>2, <2>3, <2>4 DEF PortCleared, LooksLikeKeycloak, Started
  <2>7. Own(s)'
    BY <2>3, <2>5, <2>6 DEF Own
  <2> QED BY <1>1, <2>2, <2>7
<1> QED BY <1>3, <1>4

\* What ended no longer listens, and no lost server is found again.
LEMMA ConflictWaitOwns ==
  ASSUME Owned, NEW s \in Shell, ConflictWait(s) PROVE PortInv' /\ \A u \in Shell : Own(u)'
<1>1. /\ process \in [Pid -> Process] /\ Own(s) /\ \A u \in Shell : u = s
      /\ shell[s].pid \in Pid /\ shell[s].pc = "conflict_wait" /\ UNCHANGED archive
  BY Only DEF ConflictWait, At, TypeOK
<1>2. process'[shell[s].pid] = NoProcess
      /\ \A q \in Pid : q # shell[s].pid => process'[q] = process[q]
  BY <1>1 DEF ConflictWait
<1>3. PortInv'
  BY <1>1, <1>2, Nothing DEF Owned, PortInv
<1>4. "spawn" \in PC
  BY DEF PC, StartPC
<1>5. /\ shell'[s].pc = "spawn" /\ shell'[s].dist = shell[s].dist
      /\ shell'[s].fresh = shell[s].fresh /\ shell'[s].kill = shell[s].kill
  BY <1>4, GotoFields DEF ConflictWait
<1>6. shell[s].dist = archive /\ ~shell[s].fresh
  BY <1>1 DEF Own, InStart, StartPC
<1>7. shell[s].kill => \A q \in Pid : process[q].port /\ LooksLikeKeycloak(q) =>
                         process[q].lost \/ q = shell[s].pid
  BY <1>1 DEF Own, PortCleared
<1>8. ~Started(s)'
  BY <1>5 DEF Started
<1>9. PortCleared(s)'
  BY <1>2, <1>5, <1>7, Nothing DEF PortCleared, LooksLikeKeycloak
<1>10. Own(s)'
  BY <1>1, <1>5, <1>6, <1>8, <1>9 DEF Own
<1> QED BY <1>1, <1>3, <1>10

\* --no-kill goes on without clearing the port.
LEMMA ProbeOwns ==
  ASSUME Owned, NEW s \in Shell, Probe(s) PROVE PortInv' /\ \A u \in Shell : Own(u)'
<1>1. /\ PortInv' /\ Own(s) /\ shell[s].pc = "probe" /\ UNCHANGED archive
      /\ \A u \in Shell : u = s
  BY SamePorts, Only DEF Probe, At
<1>2. CASE Abort(s)
  BY <1>1, <1>2, AbortOwns
<1>3. CASE Goto(s, "spawn")
  <2>1. "spawn" \in PC
    BY DEF PC, StartPC
  <2>2. /\ shell'[s].pc = "spawn" /\ shell'[s].dist = shell[s].dist
        /\ shell'[s].fresh = shell[s].fresh /\ shell'[s].kill = shell[s].kill
    BY <1>3, <2>1, GotoFields
  <2>3. shell[s].dist = archive /\ ~shell[s].fresh /\ ~shell[s].kill
    BY <1>1 DEF Own, InStart, StartPC
  <2>4. ~Started(s)'
    BY <2>2 DEF Started
  <2>5. Own(s)'
    BY <1>1, <2>2, <2>3, <2>4 DEF Own, PortCleared
  <2> QED BY <1>1, <2>5
<1> QED BY <1>2, <1>3 DEF Probe

LEMMA SpawnOwns ==
  ASSUME Owned, NEW s \in Shell, NEW p \in Pid, Spawn(s, p)
  PROVE  PortInv' /\ \A u \in Shell : Own(u)'
<1>1. /\ shell \in [Shell -> DevSh] /\ shell[s] \in DevSh
      /\ process \in [Pid -> Process] /\ Own(s) /\ \A u \in Shell : u = s
      /\ shell[s].pc = "spawn" /\ UNCHANGED archive
  BY Only DEF Spawn, At, TypeOK
<1>2. process'[p] = [NoProcess EXCEPT !.kind = "lab"]
      /\ \A q \in Pid : q # p => process'[q] = process[q]
  BY <1>1 DEF Spawn
<1>3. process'[p].kind = "lab" /\ process'[p].dist = 0 /\ ~process'[p].port
  BY <1>2 DEF NoProcess
<1>4. PortInv'
  BY <1>2, <1>3 DEF Owned, PortInv
<1>5. shell'[s] = [shell[s] EXCEPT !.pc = "record", !.pid = p]
  BY <1>1 DEF Spawn, Become
<1>6. /\ shell'[s].pc = "record" /\ shell'[s].pid = p /\ shell'[s].dist = shell[s].dist
      /\ shell'[s].fresh = shell[s].fresh /\ shell'[s].kill = shell[s].kill
  BY <1>1, <1>5 DEF DevSh
<1>7. shell[s].dist = archive /\ ~shell[s].fresh
  BY <1>1 DEF Own, InStart, StartPC
<1>8. shell[s].kill => \A q \in Pid : process[q].port /\ LooksLikeKeycloak(q) => process[q].lost
  BY <1>1 DEF Own, PortCleared
<1>9. PortCleared(s)'
  BY <1>2, <1>3, <1>6, <1>8 DEF PortCleared, LooksLikeKeycloak
<1>10. Own(s)'
  BY <1>1, <1>3, <1>6, <1>7, <1>9 DEF Own
<1> QED BY <1>1, <1>4, <1>10

\* From the pid file on, the server is the one it names.
LEMMA RecordOwns ==
  ASSUME Owned, NEW s \in Shell, Record(s) PROVE PortInv' /\ \A u \in Shell : Own(u)'
<1>1. /\ PortInv' /\ Own(s) /\ \A u \in Shell : u = s
      /\ shell[s].pc = "record" /\ pid_file' = shell[s].pid /\ UNCHANGED <<archive, process>>
  BY SamePorts, Only DEF Record, At
<1>2. "wait" \in PC
  BY DEF PC, StartPC
<1>3. /\ shell'[s].pc = "wait" /\ shell'[s].pid = shell[s].pid
      /\ shell'[s].dist = shell[s].dist /\ shell'[s].fresh = shell[s].fresh
      /\ shell'[s].kill = shell[s].kill
  BY <1>2, GotoFields DEF Record
<1>4. /\ InStart(s) /\ Started(s)
  BY <1>1 DEF InStart, Started, StartPC
<1>5. PortCleared(s)'
  BY <1>1, <1>3, <1>4 DEF Own, PortCleared, LooksLikeKeycloak
<1>6. Own(s)'
  BY <1>1, <1>3, <1>4, <1>5 DEF Own
<1> QED BY <1>1, <1>6

LEMMA WaitOwns ==
  ASSUME Owned, NEW s \in Shell, WaitForUrl(s) PROVE PortInv' /\ \A u \in Shell : Own(u)'
<1>1. /\ PortInv' /\ Own(s) /\ \A u \in Shell : u = s
      /\ shell[s].pc = "wait" /\ UNCHANGED <<archive, process, pid_file>>
  BY SamePorts, Only DEF WaitForUrl, At
<1>2. CASE Stop(s, "failed")
  BY <1>1, <1>2, StopFields, LeaveOwns DEF StartPC, StopPC
<1>3. CASE Goto(s, "alive")
  <2>1. "alive" \in PC
    BY DEF PC, StartPC
  <2>2. /\ shell'[s].pc = "alive" /\ shell'[s].pid = shell[s].pid
        /\ shell'[s].dist = shell[s].dist /\ shell'[s].fresh = shell[s].fresh
        /\ shell'[s].kill = shell[s].kill
    BY <1>3, <2>1, GotoFields
  <2>3. /\ InStart(s) /\ Started(s)
    BY <1>1 DEF InStart, Started, StartPC
  <2>4. PortCleared(s)'
    BY <1>1, <2>2, <2>3 DEF Own, PortCleared, LooksLikeKeycloak
  <2>5. Own(s)'
    BY <1>1, <2>2, <2>3, <2>4 DEF Own
  <2> QED BY <1>1, <2>5
<1> QED BY <1>2, <1>3 DEF WaitForUrl

LEMMA AliveOwns ==
  ASSUME Owned, NEW s \in Shell, AliveCheck(s) PROVE PortInv' /\ \A u \in Shell : Own(u)'
<1>1. /\ PortInv' /\ Own(s) /\ \A u \in Shell : u = s
      /\ shell[s].pc = "alive" /\ UNCHANGED <<archive, process>>
      /\ shell \in [Shell -> DevSh] /\ shell[s] \in DevSh
  BY SamePorts, Only DEF AliveCheck, At, TypeOK
<1>2. CASE ~PidIsRunning
  BY <1>1, <1>2, AbortOwns DEF AliveCheck
<1>3. CASE PidIsRunning
  <2>1. /\ shell'[s] = [shell[s] EXCEPT !.pc = "ready", !.fresh = TRUE]
        /\ UNCHANGED pid_file
    BY <1>1, <1>3 DEF AliveCheck, Become
  <2>2. /\ shell'[s].pc = "ready" /\ shell'[s].pid = shell[s].pid
        /\ shell'[s].dist = shell[s].dist /\ shell'[s].kill = shell[s].kill
    BY <1>1, <2>1 DEF DevSh
  <2>3. /\ InStart(s) /\ Started(s)
    BY <1>1 DEF InStart, Started, StartPC
  <2>4. PortCleared(s)'
    BY <1>1, <2>2, <2>3 DEF Own, PortCleared, LooksLikeKeycloak
  <2>5. Own(s)'
    BY <1>1, <2>1, <2>2, <2>3, <2>4 DEF Own
  <2> QED BY <1>1, <2>5
<1> QED BY <1>2, <1>3

LEMMA CtrlCOwns ==
  ASSUME Owned, NEW s \in Shell, CtrlC(s) PROVE PortInv' /\ \A u \in Shell : Own(u)'
<1>1. CASE At(s, "record")
  <2> DEFINE p == shell[s].pid
  <2>1. /\ process \in [Pid -> Process] /\ p \in Pid
        /\ process' = [process EXCEPT ![p].lost = Alive(p)]
    BY <1>1, Only DEF CtrlC, TypeOK, At
  <2>2. \A q \in Pid : /\ process'[q].kind = process[q].kind
                       /\ process'[q].port = process[q].port
                       /\ process'[q].dist = process[q].dist
    BY <2>1 DEF Process
  <2>3. PortInv'
    BY <2>2 DEF Owned, PortInv
  <2> QED BY <2>3, AbortOwns DEF CtrlC
<1>2. CASE ~At(s, "record")
  BY <1>2, SamePorts, AbortOwns DEF CtrlC
<1> QED BY <1>1, <1>2

\* A server of the lab that may still take the port is lost, or this terminal's.
LEMMA Binder ==
  ASSUME Owned, NEW s \in Shell, NEW p \in Pid, process[p].kind = "lab", ~process[p].term,
         shell[s].pc \in {"conflict_wait", "spawn"} \/ Started(s)
  PROVE  process[p].lost \/ (shell[s].pc # "spawn" /\ p = shell[s].pid)
<1>1. TrackInv /\ Own(s) /\ \A u \in Shell : u = s
  BY Only DEF Owned, Tracked
<1>2. CASE shell[s].pc \in {"conflict_wait", "spawn", "record"}
  BY <1>1, <1>2 DEF TrackInv, Cleared
<1>3. CASE shell[s].pc \in {"wait", "alive", "ready"}
  <2>1. Started(s) /\ pid_file = shell[s].pid
    BY <1>1, <1>3 DEF Started, Own
  <2> QED BY <1>1, <1>3, <2>1 DEF TrackInv, TrackedOrTold, At
<1> QED BY <1>2, <1>3 DEF Started

\* A server unpacks what the terminal has built, takes the port when it is free, ends.
LEMMA ServerOwns ==
  ASSUME Owned, NEW p \in Pid, Unpack(p) \/ Bind(p) \/ Exit(p)
  PROVE  PortInv' /\ \A u \in Shell : Own(u)'
<1>1. /\ process \in [Pid -> Process] /\ PortInv
      /\ UNCHANGED <<archive, pid_file, shell>>
  BY DEF Owned, Tracked, Safe, TypeOK, Unpack, Bind, Exit
<1>2. CASE Unpack(p)
  <2>1. /\ process[p].kind = "lab" /\ archive # 0
        /\ process'[p] = [process[p] EXCEPT !.dist = archive]
        /\ \A q \in Pid : q # p => process'[q] = process[q]
    BY <1>1, <1>2 DEF Unpack
  <2>2. /\ process'[p].kind = "lab" /\ process'[p].dist = archive
        /\ process'[p].port = process[p].port /\ process'[p].lost = process[p].lost
    BY <1>1, <2>1 DEF Process
  <2>3. PortInv'
    BY <1>1, <2>1, <2>2 DEF PortInv
  <2>4. ASSUME NEW s \in Shell PROVE Own(s)'
    <3>1. PortCleared(s)'
      <4>1. PortCleared(s)
        BY Only DEF Own
      <4>2. \A q \in Pid : /\ process'[q].kind = process[q].kind
                           /\ process'[q].port => process[q].port
                           /\ process[q].lost => process'[q].lost
        BY <2>1, <2>2
      <4> QED BY <1>1, <4>1, <4>2 DEF PortCleared, LooksLikeKeycloak, Started
    <3>2. Started(s)' => /\ shell'[s].pid \in Pid
                         /\ process'[shell'[s].pid].kind # "alike"
                         /\ process'[shell'[s].pid].kind = "lab" =>
                              process'[shell'[s].pid].dist \in {0, archive'}
      <4>1. Started(s)' = Started(s)
        BY <1>1 DEF Started
      <4>2. Started(s) => /\ shell[s].pid \in Pid
                          /\ process[shell[s].pid].kind # "alike"
                          /\ process[shell[s].pid].kind = "lab" =>
                               process[shell[s].pid].dist \in {0, archive}
        BY Only DEF Own
      <4>3. CASE shell[s].pid = p
        <5>1. Started(s) => (process[p].kind = "lab" => process[p].dist \in {0, archive})
          BY <4>2, <4>3
        <5>2. /\ process'[p].kind = "lab" /\ shell'[s].pid = p /\ archive' = archive
              /\ process[p].kind = "lab" /\ process'[p].dist \in {process[p].dist, archive}
          BY <1>1, <2>1, <2>2, <4>3
        <5> QED BY <4>1, <5>1, <5>2, <4>3
      <4>4. CASE shell[s].pid # p
        BY <1>1, <2>1, <4>1, <4>2, <4>4
      <4> QED BY <4>3, <4>4
    <3> QED BY <1>1, <3>1, <3>2, Only DEF Own, InStart, Started
  <2> QED BY <2>3, <2>4
<1>3. CASE Bind(p)
  <2>1. /\ process[p].kind = "lab" /\ process[p].dist # 0 /\ ~process[p].term
        /\ process'[p] = [process[p] EXCEPT !.port = TRUE]
        /\ \A q \in Pid : q # p => process'[q] = process[q]
    BY <1>1, <1>3 DEF Bind
  <2>2. /\ process'[p].kind = "lab" /\ process'[p].dist = process[p].dist
        /\ process'[p].lost = process[p].lost
    BY <1>1, <2>1 DEF Process
  <2>3. PortInv'
    BY <1>1, <2>1, <2>2 DEF PortInv
  <2>4. ASSUME NEW s \in Shell PROVE Own(s)'
    <3>1. PortCleared(s)'
      <4>1. PortCleared(s)
        BY Only DEF Own
      <4>2. shell[s].pc \in {"conflict_wait", "spawn"} \/ Started(s) =>
              process[p].lost \/ (shell[s].pc # "spawn" /\ p = shell[s].pid)
        BY <2>1, Binder
      <4> QED BY <1>1, <2>1, <2>2, <4>1, <4>2 DEF PortCleared, LooksLikeKeycloak, Started
    <3>2. Started(s)' => /\ shell'[s].pid \in Pid
                         /\ process'[shell'[s].pid].kind # "alike"
                         /\ process'[shell'[s].pid].kind = "lab" =>
                              process'[shell'[s].pid].dist \in {0, archive'}
      <4>1. Started(s)' = Started(s)
        BY <1>1 DEF Started
      <4>2. Started(s) => /\ shell[s].pid \in Pid
                          /\ process[shell[s].pid].kind # "alike"
                          /\ process[shell[s].pid].kind = "lab" =>
                               process[shell[s].pid].dist \in {0, archive}
        BY Only DEF Own
      <4>3. CASE shell[s].pid = p
        <5>1. Started(s) => (process[p].kind = "lab" => process[p].dist \in {0, archive})
          BY <4>2, <4>3
        <5>2. /\ process'[p].kind = "lab" /\ shell'[s].pid = p /\ archive' = archive
              /\ process[p].kind = "lab" /\ process'[p].dist \in {process[p].dist, archive}
          BY <1>1, <2>1, <2>2, <4>3
        <5> QED BY <4>1, <5>1, <5>2, <4>3
      <4>4. CASE shell[s].pid # p
        BY <1>1, <2>1, <4>1, <4>2, <4>4
      <4> QED BY <4>3, <4>4
    <3> QED BY <1>1, <3>1, <3>2, Only DEF Own, InStart, Started
  <2> QED BY <2>3, <2>4
<1>4. CASE Exit(p)
  <2>1. process'[p] = NoProcess /\ \A q \in Pid : q # p => process'[q] = process[q]
    BY <1>1, <1>4 DEF Exit
  <2>2. PortInv'
    BY <1>1, <2>1, Nothing DEF PortInv
  <2>3. ASSUME NEW s \in Shell PROVE Own(s)'
    <3>1. PortCleared(s)'
      BY <1>1, <2>1, Nothing, Only DEF Own, PortCleared, LooksLikeKeycloak, Started
    <3>2. Started(s)' => /\ shell'[s].pid \in Pid
                         /\ process'[shell'[s].pid].kind # "alike"
                         /\ process'[shell'[s].pid].kind = "lab" =>
                              process'[shell'[s].pid].dist \in {0, archive'}
      <4>1. Started(s)' = Started(s)
        BY <1>1 DEF Started
      <4>2. Started(s) => /\ shell[s].pid \in Pid
                          /\ process[shell[s].pid].kind # "alike"
                          /\ process[shell[s].pid].kind = "lab" =>
                               process[shell[s].pid].dist \in {0, archive}
        BY Only DEF Own
      <4>3. CASE shell[s].pid = p
        BY <1>1, <2>1, <4>1, <4>2, <4>3, Nothing
      <4>4. CASE shell[s].pid # p
        BY <1>1, <2>1, <4>1, <4>2, <4>4
      <4> QED BY <4>3, <4>4
    <3> QED BY <1>1, <3>1, <3>2, Only DEF Own, InStart, Started
  <2> QED BY <2>2, <2>3
<1> QED BY <1>2, <1>3, <1>4

\* While nobody is at work nothing is asked.
LEMMA IdleOwns ==
  ASSUME Owned, \A s \in Shell : shell'[s].pc = "idle",
         \A q \in Pid : process'[q].kind = "lab" => process'[q] = process[q]
  PROVE  PortInv' /\ \A u \in Shell : Own(u)'
<1>1. PortInv'
  BY DEF Owned, PortInv
<1>2. ASSUME NEW s \in Shell PROVE Own(s)'
  <2>1. ~InStart(s)' /\ ~Started(s)'
    BY DEF InStart, Started, StartPC, StopPC
  <2> QED BY <2>1 DEF Own, PortCleared
<1> QED BY <1>1, <1>2

LEMMA NextOwns == ASSUME Owned, Next PROVE Owned'
<1>1. ASSUME NEW s \in Shell, Step(s) PROVE PortInv' /\ \A u \in Shell : Own(u)'
  <2>1. CASE StartHostKeycloak(s)
    BY <2>1, CheckOwns, ConflictOwns, ConflictWaitOwns, ProbeOwns, SpawnOwns, RecordOwns,
       WaitOwns, AliveOwns DEF StartHostKeycloak
  <2> QED BY <1>1, <2>1, OutsideOwns, BuildOwns, StopHostOwns DEF Step
<1>2. ASSUME NEW p \in Pid, NEW kind \in {"alike", "other"}, NEW port \in BOOLEAN,
             StartOther(p, kind, port)
      PROVE  PortInv' /\ \A u \in Shell : Own(u)'
  <2>1. \A q \in Pid : process'[q].kind = "lab" => process'[q] = process[q]
    BY <1>2 DEF StartOther, NoProcess, Owned, Tracked, Safe, TypeOK
  <2> QED BY <1>2, <2>1, IdleOwns DEF StartOther, At
<1>3. ASSUME Reboot PROVE PortInv' /\ \A u \in Shell : Own(u)'
  <2>1. \A s \in Shell : shell'[s].pc = "idle"
    BY <1>3, Nothing DEF Reboot
  <2>2. \A q \in Pid : process'[q].kind = "lab" => process'[q] = process[q]
    BY <1>3, Nothing DEF Reboot
  <2> QED BY <2>1, <2>2, IdleOwns
<1>4. PortInv' /\ \A u \in Shell : Own(u)'
  <2>1. ASSUME NEW s \in Shell, Fails(s) \/ CtrlC(s)
        PROVE  PortInv' /\ \A u \in Shell : Own(u)'
    BY <2>1, OutsideOwns, CtrlCOwns
  <2>2. ASSUME NEW s \in Shell, NEW command \in {"run", "start", "build", "down", "clean"},
               NEW kill \in BOOLEAN, Invoke(s, command, kill)
        PROVE  PortInv' /\ \A u \in Shell : Own(u)'
    BY <2>2, OutsideOwns
  <2>3. ASSUME NEW p \in Pid, Unpack(p) \/ Bind(p) \/ Exit(p)
        PROVE  PortInv' /\ \A u \in Shell : Own(u)'
    BY <2>3, ServerOwns
  <2> QED BY <1>1, <1>2, <1>3, <2>1, <2>2, <2>3 DEF Next
<1>5. Tracked'
  BY NextTracks DEF Owned
<1> QED BY <1>4, <1>5 DEF Owned

\* "Keycloak is ready" is true of the server this dev.sh has started, and of its own
\* build, when nothing else is at work, other servers may be stopped, and lsof finds
\* them; lost servers excepted.
THEOREM ReadyServerIsOwn == Lsof /\ OneTerminal /\ Spec => []ReadyIsOwnBuild
<1>1. Lsof /\ OneTerminal /\ Init => Owned
  <2> SUFFICES ASSUME Lsof, OneTerminal, Init PROVE Owned
    OBVIOUS
  <2>1. Tracked
    <3>1. TrackInv
      BY Nothing DEF Init, TrackInv, TrackedOrTold, Cleared
    <3> QED BY <3>1, InitSafe DEF Tracked
  <2>2. PortInv
    BY Nothing DEF Init, PortInv
  <2>3. ASSUME NEW s \in Shell PROVE Own(s)
    <3>1. shell[s].pc = "idle"
      BY Nothing DEF Init
    <3> QED BY <3>1 DEF Own, PortCleared, InStart, Started, StartPC, StopPC
  <2> QED BY <2>1, <2>2, <2>3 DEF Owned
<1>2. Owned /\ [Next]_vars => Owned'
  <2>1. ASSUME Owned, UNCHANGED vars PROVE Owned'
    <3>1. Safe'
      <4>1. TypeOK'
        BY <2>1, SameProcesses, SameShells, SameFiles, PartsType DEF vars, Owned, Tracked, Safe
      <4> QED BY <2>1, <4>1 DEF vars, Owned, Tracked, Safe, SpareInv, At
    <3>2. TrackInv'
      BY <2>1 DEF vars, Owned, Tracked, TrackInv, TrackedOrTold, At
    <3>3. PortInv' /\ \A s \in Shell : Own(s)'
      BY <2>1 DEF vars, Owned, PortInv, Own, PortCleared, InStart, Started, LooksLikeKeycloak
    <3> QED BY <2>1, <3>1, <3>2, <3>3 DEF Owned, Tracked, OneTerminal
  <2> QED BY <2>1, NextOwns
<1>3. ASSUME Owned PROVE ReadyIsOwnBuild
  <2> SUFFICES ASSUME NEW s \in Shell, NEW p \in Pid,
                      At(s, "ready"), shell[s].fresh, shell[s].kill,
                      process[p].port, LooksLikeKeycloak(p), ~process[p].lost
               PROVE  p = shell[s].pid /\ process[p].dist = shell[s].dist
    BY DEF ReadyIsOwnBuild
  <2>1. Own(s) /\ PortInv /\ Started(s) /\ InStart(s)
    BY <1>3 DEF Owned, Started, InStart, At
  <2>2. p = shell[s].pid
    BY <2>1 DEF Own, PortCleared
  <2>3. process[p].kind = "lab" /\ process[p].dist \in {0, archive} /\ shell[s].dist = archive
    BY <2>1, <2>2 DEF Own, LooksLikeKeycloak
  <2> QED BY <2>1, <2>2, <2>3 DEF PortInv
<1> QED BY <1>1, <1>2, <1>3, PTL DEF Spec

-------------------------------------------------------------------------------
(* How far a command has to go *)

\* The steps left at each place.
LEMMA Places ==
  ASSUME NEW sh \in DevSh
  PROVE  /\ sh.pc = "idle" => StepsOf(sh) = 0
         /\ sh.pc \in {"clean", "foreground"} => StepsOf(sh) = 4
         /\ sh.pc = "ready" => StepsOf(sh) = 5
         /\ sh.pc = "alive" => StepsOf(sh) = 6
         /\ sh.pc = "wait" => StepsOf(sh) = 8
         /\ sh.pc = "record" => StepsOf(sh) = 9
         /\ sh.pc = "spawn" => StepsOf(sh) = 10
         /\ sh.pc \in {"probe", "conflict_wait"} => StepsOf(sh) = 11
         /\ sh.pc = "conflict" => StepsOf(sh) = 12
         /\ sh.pc = "reuse" => StepsOf(sh) = 16
         /\ sh.pc = "check" => StepsOf(sh) = 17
         /\ sh.pc = "build" => StepsOf(sh) = 18
         /\ sh.pc = "compose" => StepsOf(sh) = 19
BY DEF StepsOf, StepsAt, StopPC

\* In stop_host_keycloak they are those of its own and those after it.
LEMMA Returning ==
  ASSUME NEW sh \in DevSh, sh.pc \in StopPC
  PROVE  /\ StepsOf(sh) = StepsToReturn[sh.pc] + StepsAfter[sh.return]
         /\ StepsToReturn[sh.pc] = IF sh.pc = "stop" THEN 3 ELSE IF sh.pc = "stop_wait" THEN 2 ELSE 1
         /\ StepsAfter[sh.return] = IF sh.return = "exit" THEN 0
                                    ELSE IF sh.return = "conflict" THEN 12 ELSE 4
<1>1. sh.pc \in {"stop", "stop_wait", "stop_remove"}
  BY DEF StopPC
<1>2. StepsOf(sh) = StepsToReturn[sh.pc] + StepsAfter[sh.return]
  BY <1>1 DEF StepsOf, StopPC
<1>3. StepsToReturn[sh.pc] = IF sh.pc = "stop" THEN 3 ELSE IF sh.pc = "stop_wait" THEN 2 ELSE 1
  BY <1>1 DEF StepsToReturn
<1>4. sh.return \in {"conflict", "failed", "done", "exit"}
  BY DEF DevSh
<1>5. StepsAfter[sh.return] = IF sh.return = "exit" THEN 0
                             ELSE IF sh.return = "conflict" THEN 12 ELSE 4
  BY <1>4 DEF StepsAfter
<1> QED BY <1>2, <1>3, <1>5

\* A dev.sh that is not idle has a step left, and outside its EXIT trap more than the
\* trap takes.
LEMMA SomeLeft ==
  ASSUME NEW sh \in DevSh
  PROVE  /\ StepsOf(sh) \in 0 .. 19
         /\ sh.pc # "idle" => 0 < StepsOf(sh)
         /\ sh.pc # "idle" /\ ~(sh.pc \in StopPC /\ sh.return = "exit") => 3 < StepsOf(sh)
<1>1. CASE sh.pc \in StopPC
  <2>1. sh.pc # "idle"
    BY <1>1 DEF StopPC
  <2> QED BY <1>1, <2>1, Returning
<1>2. CASE sh.pc \notin StopPC
  <2>1. sh.pc \in {"idle", "clean", "foreground", "ready", "alive", "wait", "record", "spawn",
                   "probe", "conflict_wait", "conflict", "reuse", "check", "build", "compose"}
    BY <1>2 DEF DevSh, PC, StartPC
  <2> QED BY <1>2, <2>1, Places
<1> QED BY <1>1, <1>2

\* The terminals a step leaves alone, and the one it brings nearer to the end.
Nearer(s) ==
  /\ StepsLeft(s)' < StepsLeft(s)
  /\ \A u \in Shell : u # s => shell'[u] = shell[u]

LEMMA GotoNearer ==
  ASSUME TypeOK, NEW s \in Shell, NEW pc \in PC, Goto(s, pc)
  PROVE  /\ shell[s] \in DevSh /\ shell'[s] \in DevSh
         /\ shell'[s].pc = pc /\ shell'[s].return = shell[s].return
         /\ \A u \in Shell : u # s => shell'[u] = shell[u]
<1>1. shell \in [Shell -> DevSh] /\ shell[s] \in DevSh
  BY DEF TypeOK
<1>2. shell' = [shell EXCEPT ![s] = [shell[s] EXCEPT !.pc = pc]]
  BY DEF Goto, Become
<1>3. shell'[s] = [shell[s] EXCEPT !.pc = pc]
  BY <1>1, <1>2
<1> QED BY <1>1, <1>2, <1>3 DEF DevSh

LEMMA StopNearer ==
  ASSUME TypeOK, NEW s \in Shell, NEW r \in {"conflict", "failed", "done", "exit"}, Stop(s, r)
  PROVE  /\ shell[s] \in DevSh
         /\ StepsLeft(s)' = IF r = "exit" THEN 3 ELSE IF r = "conflict" THEN 15 ELSE 7
         /\ \A u \in Shell : u # s => shell'[u] = shell[u]
<1>1. shell \in [Shell -> DevSh] /\ shell[s] \in DevSh
  BY DEF TypeOK
<1>2. shell' = [shell EXCEPT ![s] = [shell[s] EXCEPT !.pc = "stop", !.return = r]]
  BY DEF Stop, Become
<1>3. shell'[s] = [shell[s] EXCEPT !.pc = "stop", !.return = r]
  BY <1>1, <1>2
<1>4. "stop" \in PC /\ "stop" \in StopPC
  BY DEF PC, StopPC
<1>5. shell'[s] \in DevSh /\ shell'[s].pc = "stop" /\ shell'[s].return = r
  BY <1>1, <1>3, <1>4 DEF DevSh
<1>6. StepsOf(shell'[s]) = IF r = "exit" THEN 3 ELSE IF r = "conflict" THEN 15 ELSE 7
  BY <1>4, <1>5, Returning
<1> QED BY <1>1, <1>2, <1>6 DEF StepsLeft

LEMMA IdleNearer ==
  ASSUME TypeOK, NEW s \in Shell, ~At(s, "idle"), Become(s, Idle)
  PROVE  Nearer(s)
<1>1. shell \in [Shell -> DevSh] /\ shell[s] \in DevSh
  BY DEF TypeOK
<1>2. shell'[s] = Idle /\ \A u \in Shell : u # s => shell'[u] = shell[u]
  BY <1>1 DEF Become
<1>3. StepsOf(shell'[s]) = 0 /\ 0 < StepsOf(shell[s])
  BY <1>1, <1>2, Nothing, Places, SomeLeft DEF At
<1> QED BY <1>2, <1>3 DEF Nearer, StepsLeft

\* A failure or Ctrl-C: the EXIT trap is short, and is not begun again.
LEMMA AbortNearer ==
  ASSUME TypeOK, NEW s \in Shell, ~At(s, "idle"), Abort(s)
  PROVE  Nearer(s)
<1>1. CASE Become(s, Idle)
  BY <1>1, IdleNearer
<1>2. CASE /\ Stop(s, "exit")
           /\ ~(shell[s].pc \in StopPC /\ shell[s].return = "exit")
  <2>1. /\ shell[s] \in DevSh /\ StepsLeft(s)' = 3
        /\ \A u \in Shell : u # s => shell'[u] = shell[u]
    BY <1>2, StopNearer
  <2>2. 3 < StepsOf(shell[s])
    BY <1>2, <2>1, SomeLeft DEF At
  <2> QED BY <2>1, <2>2 DEF Nearer, StepsLeft
<1> QED BY <1>1, <1>2 DEF Abort

\* stop_host_keycloak returns from wherever it is.
LEMMA ReturnNearer ==
  ASSUME TypeOK, NEW s \in Shell, shell[s].pc \in StopPC, Return(s)
  PROVE  Nearer(s)
<1>1. shell[s] \in DevSh /\ ~At(s, "idle")
  BY DEF TypeOK, At, StopPC
<1>2. shell[s].return \in {"conflict", "failed", "done", "exit"}
  BY <1>1 DEF DevSh
<1>3. "conflict" \in PC /\ "clean" \in PC
  BY DEF PC, StartPC
<1>4. StepsOf(shell[s]) \in 0 .. 19
  BY <1>1, SomeLeft
<1>5. CASE shell[s].return = "conflict"
  <2>1. /\ shell'[s] \in DevSh /\ shell'[s].pc = "conflict"
        /\ \A u \in Shell : u # s => shell'[u] = shell[u]
    BY <1>3, <1>5, GotoNearer DEF Return
  <2>2. StepsOf(shell'[s]) = 12 /\ StepsOf(shell[s]) >= 13
    BY <1>1, <1>5, <2>1, Places, Returning
  <2> QED BY <1>4, <2>1, <2>2 DEF Nearer, StepsLeft
<1>6. CASE shell[s].return = "failed"
  BY <1>1, <1>6, AbortNearer DEF Return
<1>7. CASE shell[s].return = "done" /\ shell[s].command = "clean"
  <2>1. /\ shell'[s] \in DevSh /\ shell'[s].pc = "clean"
        /\ \A u \in Shell : u # s => shell'[u] = shell[u]
    BY <1>3, <1>7, GotoNearer DEF Return
  <2>2. StepsOf(shell'[s]) = 4 /\ StepsOf(shell[s]) >= 5
    BY <1>1, <1>7, <2>1, Places, Returning
  <2> QED BY <1>4, <2>1, <2>2 DEF Nearer, StepsLeft
<1>8. CASE shell[s].return = "done" /\ shell[s].command # "clean"
  BY <1>1, <1>8, IdleNearer DEF Return
<1>9. CASE shell[s].return = "exit"
  BY <1>1, <1>9, IdleNearer DEF Return
<1> QED BY <1>2, <1>5, <1>6, <1>7, <1>8, <1>9

\* A command on its way from one place to a later one.
LEMMA MoveNearer ==
  ASSUME TypeOK, NEW s \in Shell, NEW pc \in PC, Goto(s, pc),
         <<shell[s].pc, pc>> \in {<<"compose", "build">>, <<"check", "reuse">>,
           <<"check", "conflict">>, <<"reuse", "ready">>, <<"conflict", "spawn">>,
           <<"conflict", "probe">>, <<"probe", "spawn">>, <<"conflict_wait", "spawn">>,
           <<"record", "wait">>, <<"wait", "alive">>, <<"ready", "foreground">>}
  PROVE  Nearer(s)
<1>1. /\ shell[s] \in DevSh /\ shell'[s] \in DevSh /\ shell'[s].pc = pc
      /\ \A u \in Shell : u # s => shell'[u] = shell[u]
  BY GotoNearer
<1>2. StepsOf(shell'[s]) < StepsOf(shell[s])
  BY <1>1, Places
<1> QED BY <1>1, <1>2 DEF Nearer, StepsLeft

\* A dev.sh that is at another place, of whatever else has changed.
LEMMA BecomeNearer ==
  ASSUME TypeOK, NEW s \in Shell, NEW sh \in DevSh, Become(s, sh),
         StepsOf(sh) < StepsOf(shell[s])
  PROVE  Nearer(s)
<1>1. shell \in [Shell -> DevSh]
  BY DEF TypeOK
<1>2. shell'[s] = sh /\ \A u \in Shell : u # s => shell'[u] = shell[u]
  BY <1>1 DEF Become
<1> QED BY <1>2 DEF Nearer, StepsLeft

LEMMA ComposeNearer == ASSUME TypeOK, NEW s \in Shell, Compose(s) PROVE Nearer(s)
<1>1. "build" \in PC
  BY DEF PC
<1>2. CASE Stop(s, "done")
  <2>1. /\ shell[s] \in DevSh /\ StepsLeft(s)' = 7
        /\ \A u \in Shell : u # s => shell'[u] = shell[u]
    BY <1>2, StopNearer
  <2>2. StepsOf(shell[s]) = 19
    BY <2>1, Places DEF Compose, At
  <2> QED BY <2>1, <2>2 DEF Nearer, StepsLeft
<1>3. CASE Goto(s, "build")
  BY <1>1, <1>3, MoveNearer DEF Compose, At
<1> QED BY <1>2, <1>3 DEF Compose

LEMMA BuildNearer == ASSUME TypeOK, NEW s \in Shell, Build(s) PROVE Nearer(s)
<1>1. shell[s] \in DevSh /\ shell[s].pc = "build" /\ ~At(s, "idle") /\ builds + 1 \in Nat
  BY DEF TypeOK, Build, At
<1>2. CASE shell[s].command = "build"
  BY <1>1, <1>2, IdleNearer DEF Build
<1>3. CASE shell[s].command # "build"
  <2> DEFINE sh == [shell[s] EXCEPT !.pc = "check", !.dist = builds + 1]
  <2>1. "check" \in PC
    BY DEF PC, StartPC
  <2>2. sh \in DevSh /\ sh.pc = "check"
    BY <1>1, <2>1 DEF DevSh
  <2>3. Become(s, sh)
    BY <1>3 DEF Build
  <2> HIDE DEF sh
  <2>4. StepsOf(sh) < StepsOf(shell[s])
    BY <1>1, <2>2, Places
  <2> QED BY <2>2, <2>3, <2>4, BecomeNearer
<1> QED BY <1>2, <1>3

LEMMA StopHostNearer ==
  ASSUME TypeOK, NEW s \in Shell, StopHostKeycloak(s) PROVE Nearer(s)
<1>1. shell[s] \in DevSh
  BY DEF TypeOK
<1>2. CASE StopHost(s)
  <2>1. shell[s].pc = "stop" /\ shell[s].pc \in StopPC
    BY <1>2 DEF StopHost, At, StopPC
  <2>2. CASE ~PidIsRunning
    BY <1>2, <2>1, <2>2, ReturnNearer DEF StopHost
  <2>3. CASE PidIsRunning
    <3> DEFINE sh == [shell[s] EXCEPT !.pc = "stop_wait", !.pid = pid_file]
    <3>1. pid_file \in Pid \cup {None} /\ "stop_wait" \in PC /\ "stop_wait" \in StopPC
      BY DEF TypeOK, PC, StopPC
    <3>2. sh \in DevSh /\ sh.pc = "stop_wait" /\ sh.return = shell[s].return
      BY <1>1, <3>1 DEF DevSh
    <3>3. Become(s, sh)
      BY <1>2, <2>3 DEF StopHost
    <3> HIDE DEF sh
    <3>4. StepsOf(sh) < StepsOf(shell[s])
      BY <1>1, <2>1, <3>1, <3>2, Returning
    <3> QED BY <3>2, <3>3, <3>4, BecomeNearer
  <2> QED BY <2>2, <2>3
<1>3. CASE StopWait(s)
  <2>1. shell[s].pc = "stop_wait" /\ {"stop_wait", "stop_remove"} \subseteq StopPC
        /\ "stop_remove" \in PC
    BY <1>3 DEF StopWait, At, PC, StopPC
  <2>2. /\ shell'[s] \in DevSh /\ shell'[s].pc = "stop_remove"
        /\ shell'[s].return = shell[s].return
        /\ \A u \in Shell : u # s => shell'[u] = shell[u]
    BY <1>3, <2>1, GotoNearer DEF StopWait
  <2>3. StepsOf(shell'[s]) < StepsOf(shell[s])
    BY <1>1, <2>1, <2>2, Returning
  <2> QED BY <2>2, <2>3 DEF Nearer, StepsLeft
<1>4. CASE StopRemove(s)
  BY <1>4, ReturnNearer DEF StopRemove, At, StopPC
<1> QED BY <1>2, <1>3, <1>4 DEF StopHostKeycloak

LEMMA StartHostNearer ==
  ASSUME TypeOK, NEW s \in Shell, StartHostKeycloak(s) PROVE Nearer(s)
<1>1. shell[s] \in DevSh
  BY DEF TypeOK
<1>2. StartPC \subseteq PC /\ {"ready", "foreground"} \subseteq PC
  BY DEF PC
<1>3. {"reuse", "conflict", "conflict_wait", "probe", "spawn", "record", "wait", "alive"}
        \subseteq StartPC
  BY DEF StartPC
<1>4. CASE Check(s)
  BY <1>2, <1>3, <1>4, MoveNearer DEF Check, At
<1>5. CASE Reuse(s)
  <2>1. CASE Goto(s, "ready")
    BY <1>2, <1>5, <2>1, MoveNearer DEF Reuse, At
  <2>2. CASE Stop(s, "conflict")
    <3>1. StepsLeft(s)' = 15 /\ \A u \in Shell : u # s => shell'[u] = shell[u]
      BY <2>2, StopNearer
    <3>2. StepsOf(shell[s]) = 16
      BY <1>1, <1>5, Places DEF Reuse, At
    <3> QED BY <3>1, <3>2 DEF Nearer, StepsLeft
  <2> QED BY <1>5, <2>1, <2>2 DEF Reuse
<1>6. CASE Conflict(s)
  <2>1. CASE ~(shell[s].kill /\ Conflicting # {})
    BY <1>2, <1>3, <1>6, <2>1, MoveNearer DEF Conflict, At
  <2>2. CASE shell[s].kill /\ Conflicting # {}
    <3>1. PICK p \in Conflicting :
            Become(s, [shell[s] EXCEPT !.pc = "conflict_wait", !.pid = p])
      BY <1>6, <2>2 DEF Conflict
    <3> DEFINE sh == [shell[s] EXCEPT !.pc = "conflict_wait", !.pid = p]
    <3>2. p \in Pid /\ "conflict_wait" \in PC
      BY <1>2, <1>3 DEF Conflicting, Listener
    <3>3. sh \in DevSh /\ sh.pc = "conflict_wait"
      BY <1>1, <3>2 DEF DevSh
    <3>4. Become(s, sh)
      BY <3>1
    <3> HIDE DEF sh
    <3>5. shell[s].pc = "conflict"
      BY <1>6 DEF Conflict, At
    <3>6. StepsOf(shell[s]) = 12 /\ StepsOf(sh) = 11
      BY <1>1, <3>3, <3>5, Places
    <3> QED BY <3>3, <3>4, <3>6, BecomeNearer
  <2> QED BY <2>1, <2>2
<1>7. CASE ConflictWait(s)
  BY <1>2, <1>3, <1>7, MoveNearer DEF ConflictWait, At
<1>8. CASE Probe(s)
  BY <1>2, <1>3, <1>8, MoveNearer, AbortNearer DEF Probe, At
<1>9. CASE \E p \in Pid : Spawn(s, p)
  <2>1. PICK p \in Pid : Spawn(s, p)
    BY <1>9
  <2> DEFINE sh == [shell[s] EXCEPT !.pc = "record", !.pid = p]
  <2>2. "record" \in PC /\ shell[s].pc = "spawn" /\ Become(s, sh)
    BY <1>2, <1>3, <2>1 DEF Spawn, At
  <2>3. sh \in DevSh /\ sh.pc = "record"
    BY <1>1, <2>2 DEF DevSh
  <2> HIDE DEF sh
  <2>4. StepsOf(sh) < StepsOf(shell[s])
    BY <1>1, <2>2, <2>3, Places
  <2> QED BY <2>2, <2>3, <2>4, BecomeNearer
<1>10. CASE Record(s)
  BY <1>2, <1>3, <1>10, MoveNearer DEF Record, At
<1>11. CASE WaitForUrl(s)
  <2>1. CASE Goto(s, "alive")
    BY <1>2, <1>3, <1>11, <2>1, MoveNearer DEF WaitForUrl, At
  <2>2. CASE Stop(s, "failed")
    <3>1. StepsLeft(s)' = 7 /\ \A u \in Shell : u # s => shell'[u] = shell[u]
      BY <2>2, StopNearer
    <3>2. StepsOf(shell[s]) = 8
      BY <1>1, <1>11, Places DEF WaitForUrl, At
    <3> QED BY <3>1, <3>2 DEF Nearer, StepsLeft
  <2> QED BY <1>11, <2>1, <2>2 DEF WaitForUrl
<1>12. CASE AliveCheck(s)
  <2>1. shell[s].pc = "alive" /\ ~At(s, "idle")
    BY <1>12 DEF AliveCheck, At
  <2>2. CASE ~PidIsRunning
    BY <1>12, <2>1, <2>2, AbortNearer DEF AliveCheck
  <2>3. CASE PidIsRunning
    <3> DEFINE sh == [shell[s] EXCEPT !.pc = "ready", !.fresh = TRUE]
    <3>1. sh \in DevSh /\ sh.pc = "ready"
      BY <1>1, <1>2 DEF DevSh
    <3>2. Become(s, sh)
      BY <1>12, <2>3 DEF AliveCheck
    <3> HIDE DEF sh
    <3>3. StepsOf(sh) < StepsOf(shell[s])
      BY <1>1, <2>1, <3>1, Places
    <3> QED BY <3>1, <3>2, <3>3, BecomeNearer
  <2> QED BY <2>2, <2>3
<1> QED BY <1>4, <1>5, <1>6, <1>7, <1>8, <1>9, <1>10, <1>11, <1>12 DEF StartHostKeycloak

LEMMA StepNearer == ASSUME TypeOK, NEW s \in Shell, Step(s) PROVE Nearer(s)
<1>1. CASE Ready(s)
  <2>1. "foreground" \in PC
    BY DEF PC
  <2> QED BY <1>1, <2>1, MoveNearer, IdleNearer DEF Ready, At
<1>2. CASE Clean(s)
  BY <1>2, IdleNearer DEF Clean, At
<1> QED BY <1>1, <1>2, ComposeNearer, BuildNearer, StopHostNearer, StartHostNearer DEF Step

\* What is not a step of the dev.sh itself: it is stopped, or another one moves.
LEMMA StoppedNearer ==
  ASSUME TypeOK, NEW s \in Shell, Fails(s) \/ CtrlC(s) PROVE Nearer(s)
<1>1. ~At(s, "idle") /\ Abort(s)
  BY DEF Fails, CtrlC, At
<1> QED BY <1>1, AbortNearer

\* A command only ever gets nearer to its end, in any number of terminals and whatever
\* servers do: this is what bounds it, and with the fairness of Step why it ends.
THEOREM CommandsAreBounded ==
  Spec => [](\A s \in Shell : StepsLeft(s) \in 0 .. 19) /\ CommandsRunOut
<1>1. TypeOK => \A s \in Shell : StepsLeft(s) \in 0 .. 19
  BY SomeLeft DEF TypeOK, StepsLeft
<1>2. TypeOK /\ [Next]_vars
        => [\A s \in Shell : ~At(s, "idle") /\ (Step(s) \/ shell'[s] # shell[s])
                              => StepsLeft(s)' < StepsLeft(s)]_vars
  <2> SUFFICES ASSUME TypeOK, Next, NEW s \in Shell, ~At(s, "idle"),
                      Step(s) \/ shell'[s] # shell[s]
               PROVE  StepsLeft(s)' < StepsLeft(s)
    OBVIOUS
  <2>1. CASE Step(s)
    BY <2>1, StepNearer DEF Nearer
  <2>2. CASE \E u \in Shell : Step(u) \/ Fails(u) \/ CtrlC(u)
    <3>1. PICK u \in Shell : Step(u) \/ Fails(u) \/ CtrlC(u)
      BY <2>2
    <3>2. Nearer(u)
      BY <3>1, StepNearer, StoppedNearer
    <3> QED BY <2>1, <3>2 DEF Nearer
  <2>3. CASE \E u \in Shell, command \in {"run", "start", "build", "down", "clean"},
               kill \in BOOLEAN : Invoke(u, command, kill)
    <3>1. PICK u \in Shell, command \in {"run", "start", "build", "down", "clean"},
               kill \in BOOLEAN : Invoke(u, command, kill)
      BY <2>3
    <3>2. u # s
      BY <3>1 DEF Invoke
    <3>3. shell'[s] = shell[s]
      BY <3>1, <3>2 DEF Invoke, Become, TypeOK
    <3> QED BY <2>1, <3>3
  <2>4. CASE \/ \E p \in Pid : Unpack(p) \/ Bind(p) \/ Exit(p)
             \/ \E p \in Pid, kind \in {"alike", "other"}, port \in BOOLEAN :
                  StartOther(p, kind, port)
    <3>1. shell' = shell
      BY <2>4 DEF Unpack, Bind, Exit, StartOther
    <3> QED BY <2>1, <3>1
  <2>5. CASE Reboot
    <3>1. shell[s] \in DevSh /\ shell'[s] = Idle
      BY <2>5 DEF Reboot, TypeOK
    <3>2. StepsOf(shell'[s]) = 0 /\ 0 < StepsOf(shell[s])
      BY <3>1, Nothing, Places, SomeLeft DEF At
    <3> QED BY <3>2 DEF StepsLeft
  <2> QED BY <2>2, <2>3, <2>4, <2>5 DEF Next
<1> QED BY <1>1, <1>2, TypeCorrect, PTL DEF Spec, CommandsRunOut
===============================================================================
