----------------------- MODULE CompatibilityMatrixProofs -----------------------
(***************************************************************************)
(* Theorems about the compatibility matrix, for any number of runs, any    *)
(* time, and interruptions and failures anywhere.                          *)
(***************************************************************************)
EXTENDS CompatibilityMatrix, TLAPS

(***************************************************************************)
(* The scenarios.                                                          *)
(***************************************************************************)

LEMMA NoneIsNoValue ==
  /\ None \notin Int /\ None \notin Nat /\ None \notin Providers /\ None \notin Services
  /\ None # "pwd" /\ None # "pop"
  /\ None # <<"pwd">> /\ None # <<"pop">> /\ None # <<"pwd", "otp">>
  /\ Transitions \in Nat
<1>1. <<"pwd">> \in Seq(Methods) /\ <<"pop">> \in Seq(Methods) /\ <<"pwd", "otp">> \in Seq(Methods)
  BY DEF Methods
<1>2. Nat \subseteq Int /\ "pwd" \in Methods /\ "pop" \in Methods
  BY DEF Methods
<1> QED BY <1>1, <1>2, MatrixAssumption

LEMMA ScenariosAre ==
  /\ Len(Scenarios) = 6 /\ DOMAIN Scenarios = 1 .. 6
  /\ \A i \in 1 .. 6 : Scenarios[i].at \in Providers
  /\ Scenarios[1].at = "disabled" /\ Scenarios[2].at = "enabled" /\ Scenarios[3].at = "disabled"
  /\ Scenarios[4].at = "disabled" /\ Scenarios[5].at = "enabled" /\ Scenarios[6].at = "enabled"
  /\ \A i \in 1 .. 6 : Scenarios[i].session \in 1 .. 4
  /\ \A i \in 1 .. 6 : Scenarios[i].claims \in {None, "pwd", "pop"}
  /\ \A i \in 1 .. 6 : (i = 6 => Scenarios[i].rebinds) /\ (i # 6 => ~Scenarios[i].rebinds)
  /\ \A i \in 1 .. 6 : (i # 4 => Scenarios[i].configured) /\ (i = 4 => ~Scenarios[i].configured)
  /\ \A i \in 1 .. 5 : Scenarios[i].claims \in {None, "pwd"}
  /\ Scenarios[6].claims = "pop"
<1>1. /\ Scenarios[1] = OrdinarySuccess("disabled", 1, TRUE)
      /\ Scenarios[2] = OrdinarySuccess("enabled", 2, TRUE)
      /\ Scenarios[3] = OrdinarySuccess("disabled", 1, FALSE)
      /\ Scenarios[4] = Scenario("disabled", FALSE, "pwd", 1, FALSE, FALSE)
      /\ Scenarios[5] = Scenario("enabled", TRUE, "pwd", 3, TRUE, FALSE)
      /\ Scenarios[6] = Scenario("enabled", TRUE, "pop", 4, TRUE, TRUE)
      /\ Len(Scenarios) = 6 /\ DOMAIN Scenarios = 1 .. 6
  BY DEF Scenarios
<1>2. \A i \in 1 .. 6 : i = 1 \/ i = 2 \/ i = 3 \/ i = 4 \/ i = 5 \/ i = 6
  OBVIOUS
<1>3. /\ Scenarios[1].at = "disabled" /\ Scenarios[2].at = "enabled" /\ Scenarios[3].at = "disabled"
      /\ Scenarios[4].at = "disabled" /\ Scenarios[5].at = "enabled" /\ Scenarios[6].at = "enabled"
  BY <1>1 DEF OrdinarySuccess, Scenario
<1>4. /\ Scenarios[1].session = 1 /\ Scenarios[2].session = 2 /\ Scenarios[3].session = 1
      /\ Scenarios[4].session = 1 /\ Scenarios[5].session = 3 /\ Scenarios[6].session = 4
  BY <1>1 DEF OrdinarySuccess, Scenario
<1>5. /\ Scenarios[1].claims = None /\ Scenarios[2].claims = None /\ Scenarios[3].claims = None
      /\ Scenarios[4].claims = "pwd" /\ Scenarios[5].claims = "pwd" /\ Scenarios[6].claims = "pop"
  BY <1>1 DEF OrdinarySuccess, Scenario
<1>6. /\ ~Scenarios[1].rebinds /\ ~Scenarios[2].rebinds /\ ~Scenarios[3].rebinds
      /\ ~Scenarios[4].rebinds /\ ~Scenarios[5].rebinds /\ Scenarios[6].rebinds
  BY <1>1 DEF OrdinarySuccess, Scenario
<1>7. /\ Scenarios[1].configured /\ Scenarios[2].configured /\ Scenarios[3].configured
      /\ ~Scenarios[4].configured /\ Scenarios[5].configured /\ Scenarios[6].configured
  BY <1>1 DEF OrdinarySuccess, Scenario
<1> QED
  <2>1. \A i \in 1 .. 6 : Scenarios[i].at \in Providers
    BY <1>2, <1>3 DEF Providers
  <2>2. \A i \in 1 .. 6 : Scenarios[i].session \in 1 .. 4
    BY <1>2, <1>4
  <2>3. \A i \in 1 .. 6 : Scenarios[i].claims \in {None, "pwd", "pop"}
    BY <1>2, <1>5
  <2>4. \A i \in 1 .. 6 : (i = 6 => Scenarios[i].rebinds) /\ (i # 6 => ~Scenarios[i].rebinds)
    BY <1>2, <1>6
  <2>5. \A i \in 1 .. 6 : (i # 4 => Scenarios[i].configured) /\ (i = 4 => ~Scenarios[i].configured)
    BY <1>2, <1>7
  <2>6. \A i \in 1 .. 5 : Scenarios[i].claims \in {None, "pwd"}
    BY <1>2, <1>5
  <2> QED BY <1>1, <1>3, <1>5, <2>1, <2>2, <2>3, <2>4, <2>5, <2>6

LEMMA ScenarioAt ==
  /\ DOMAIN Scenarios = 1 .. 6
  /\ \A i \in 1 .. 6 : Scenarios[i].at \in Providers
  /\ Scenarios[1].at = "disabled" /\ Scenarios[2].at = "enabled" /\ Scenarios[3].at = "disabled"
  /\ Scenarios[4].at = "disabled" /\ Scenarios[5].at = "enabled" /\ Scenarios[6].at = "enabled"
BY ScenariosAre

LEMMA ScenarioSession == \A i \in 1 .. 6 : Scenarios[i].session \in 1 .. 4
BY ScenariosAre
LEMMA ScenarioConfigured ==
  \A i \in 1 .. 6 : (i # 4 => Scenarios[i].configured) /\ (i = 4 => ~Scenarios[i].configured)
BY ScenariosAre
LEMMA ScenarioRebinds ==
  \A i \in 1 .. 6 : (i = 6 => Scenarios[i].rebinds) /\ (i # 6 => ~Scenarios[i].rebinds)
BY ScenariosAre

LEMMA ScenarioClaims ==
  (\A i \in 1 .. 5 : Scenarios[i].claims \in {None, "pwd"}) /\ Scenarios[6].claims = "pop"
BY ScenariosAre

(***************************************************************************)
(* The inductive invariant.                                                *)
(***************************************************************************)

\* The program has an answer to its request, or waits for one.
LogIn == {"broken", "username", "password", "login", "otp", "code", "result"}
InMatrix == {"rebind", "request"} \cup LogIn

\* TypeOK, and that there are services while a run goes on.
Typed ==
  /\ TypeOK
  /\ clock \in Nat /\ fault \in BOOLEAN
  /\ services \in Services \cup {None} /\ inherited \in Services \cup {None}
  /\ script.phase # "idle" => services \in Services
  /\ script.phase = "idle" => inherited = services

\* The runner is configured for the provider of the scenario, or still for that of the
\* scenario before.
ClientInv ==
  /\ script.phase \in LogIn => script.client = scenario.at
  /\ script.phase \in {"rebind", "request"} /\ script.at > 1 =>
       script.client = Scenarios[script.at - 1].at
  /\ script.phase = "rebind" => script.at = 6
  /\ script.phase \in {"idle", "wait", "bind", "client"} => script.at = 1
  /\ PassedAsLabelled

\* A code that a provider has taken was taken by an earlier run, or is not after the last
\* one current_totp gave, which is in flight in phase "code" only.
Inherited(p, c) == inherited # None /\ c \in inherited.used[p]
OwnCode(c) ==
  script.last \in Int /\ (c < script.last \/ (c = script.last /\ script.phase # "code"))
CodeInv ==
  /\ script.phase = "code" =>
       script.code \in Nat /\ script.code = script.last /\ clock - script.code \in {0, 1}
  /\ script.phase \in {"idle", "wait", "bind", "client"} => script.last = None
  /\ script.phase \in InMatrix => script.last \in Int
  /\ services # None =>
       \A p \in Providers : \A c \in services.used[p] : Inherited(p, c) \/ OwnCode(c)
  /\ RejectedOnlyIfReused

\* The planner is bound until the last scenario, unless an earlier run unbound it.
Unbound == inherited # None /\ inherited.flow["enabled"] = "browser"
FlowInv ==
  /\ services # None /\ services.flow["enabled"] = "browser" => Unbound \/ script.at = 6
  /\ ProcessedUnlessRebound

Inv == Typed /\ ClientInv /\ CodeInv /\ FlowInv

-------------------------------------------------------------------------------
(* Parts of steps *)

LEMMA Types ==
  ASSUME Inv
  PROVE  /\ script \in Script /\ clock \in Nat /\ fault \in BOOLEAN
         /\ services \in Services \cup {None} /\ inherited \in Services \cup {None}
         /\ script.at \in 1 .. 6 /\ scenario.at \in Providers
         /\ services \in Services => \A p \in Providers : services.used[p] \subseteq 0 .. clock
<1>1. /\ script \in Script /\ clock \in Nat /\ fault \in BOOLEAN
      /\ services \in Services \cup {None} /\ inherited \in Services \cup {None}
      /\ services # None => \A p \in Providers : services.used[p] \subseteq 0 .. clock
  BY DEF Inv, Typed, TypeOK
<1>2. script.at \in 1 .. 6
  BY <1>1, ScenariosAre DEF Script
<1>3. scenario.at \in Providers
  BY <1>2, ScenarioAt DEF scenario
<1> QED BY <1>1, <1>2, <1>3, NoneIsNoValue

LEMMA IdleIs ==
  /\ Idle \in Script /\ Idle.phase = "idle" /\ Idle.at = 1 /\ Idle.last = None
  /\ Idle.client = None /\ Idle.left = 0
BY ScenariosAre, NoneIsNoValue DEF Idle, Script, Phases

LEMMA GotoScript ==
  ASSUME script \in Script, NEW p \in Phases, Goto(p)
  PROVE  /\ script' \in Script /\ script'.phase = p /\ script'.at = script.at
         /\ script'.client = script.client /\ script'.code = script.code
         /\ script'.last = script.last /\ script'.left = script.left
         /\ script'.signed = script.signed
BY DEF Goto, Script

LEMMA FreshIs ==
  /\ Fresh \in Services /\ Fresh.flow["enabled"] = "planner"
  /\ \A p \in Providers : Fresh.used[p] = {}
BY DEF Fresh, Services, Flows, Providers

LEMMA RebindIs ==
  ASSUME services \in Services, NEW q \in Providers, Rebind(q)
  PROVE  /\ services' \in Services
         /\ \A p \in Providers : services'.used[p] = services.used[p]
         /\ services'.flow[q] = "browser"
         /\ \A p \in Providers : p # q => services'.flow[p] = services.flow[p]
BY DEF Rebind, Services, Flows

LEMMA UseCodeIs ==
  ASSUME services \in Services, script \in Script, script.client \in Providers,
         script.code \in Nat, UseCode
  PROVE  /\ services' \in Services
         /\ services'.flow = services.flow
         /\ services'.used[script.client] = services.used[script.client] \cup {script.code}
         /\ \A p \in Providers : p # script.client => services'.used[p] = services.used[p]
BY DEF UseCode, Services, Flows

LEMMA SignedInIs ==
  ASSUME Inv, script.client = scenario.at
  PROVE  /\ SignedIn \in Script /\ SignedIn.phase = "result" /\ SignedIn.at = script.at
         /\ SignedIn.last = script.last /\ SignedIn.client = script.client
         /\ SignedIn.left = script.left
<1>1. <<script.client, scenario.session>> \in Providers \X (1 .. 4) /\ script \in Script
  BY Types, ScenarioSession DEF scenario
<1> QED BY <1>1 DEF SignedIn, Script, Phases

-------------------------------------------------------------------------------
(* Every step keeps the invariant *)

LEMMA InitInv == Init => Inv
<1> SUFFICES ASSUME Init PROVE Inv
  OBVIOUS
<1>1. Typed
  BY IdleIs, NoneIsNoValue DEF Init, Typed, TypeOK
<1>2. ClientInv /\ CodeInv /\ FlowInv
  BY IdleIs, NoneIsNoValue
     DEF Init, ClientInv, CodeInv, FlowInv, PassedAsLabelled, RejectedOnlyIfReused,
         ProcessedUnlessRebound, LogIn, InMatrix
<1> QED BY <1>1, <1>2 DEF Inv

\* A run that is over: what it leaves is what the next one inherits.
LEMMA OverInv ==
  ASSUME Inv, Stop, clock' = clock, inherited' = services', services' \in {services, None}
  PROVE  Inv'
<1>1. script' = Idle /\ passed' = {} /\ fault' = FALSE /\ rejected' = {}
  BY DEF Stop
<1>2. Typed'
  BY <1>1, Types, IdleIs, NoneIsNoValue DEF Typed, TypeOK, Inv
<1>3. ClientInv'
  BY <1>1, IdleIs DEF ClientInv, PassedAsLabelled, LogIn
<1>4. CodeInv'
  BY <1>1, IdleIs DEF CodeInv, Inherited, RejectedOnlyIfReused, InMatrix, LogIn
<1>5. FlowInv'
  BY <1>1 DEF FlowInv, Unbound, ProcessedUnlessRebound
<1> QED BY <1>2, <1>3, <1>4, <1>5 DEF Inv

LEMMA LeaveInv == ASSUME Inv, Leave PROVE Inv'
BY OverInv DEF Leave

LEMMA DownInv == ASSUME Inv, Down PROVE Inv'
BY OverInv DEF Down, RemoveAll

LEMMA UpInv == ASSUME Inv, Up PROVE Inv'
<1>1. /\ script.phase = "idle" /\ inherited = services
      /\ services' = IF services = None THEN Fresh ELSE services
      /\ UNCHANGED <<clock, passed, fault, inherited, rejected>>
  BY DEF Up, Inv, Typed
<1>2. PICK ready \in BOOLEAN : script' = [Idle EXCEPT !.phase = "wait", !.healthy = ready]
  BY DEF Up
<1>3. /\ script' \in Script /\ script'.phase = "wait" /\ script'.at = 1 /\ script'.last = None
  BY <1>2, IdleIs DEF Script, Phases
<1>4. Typed'
  BY <1>1, <1>3, Types, FreshIs, NoneIsNoValue DEF Inv, Typed, TypeOK
<1>5. ClientInv'
  BY <1>1, <1>3 DEF Inv, ClientInv, PassedAsLabelled, LogIn
<1>6. CodeInv'
  BY <1>1, <1>3, FreshIs DEF Inv, CodeInv, Inherited, RejectedOnlyIfReused, InMatrix, LogIn
<1>7. FlowInv'
  BY <1>1, <1>3, FreshIs DEF Inv, FlowInv, Unbound, ProcessedUnlessRebound
<1> QED BY <1>4, <1>5, <1>6, <1>7 DEF Inv

\* A step of the script alone, which may be a failure.
LEMMA StepInv ==
  ASSUME Inv, fault' \in BOOLEAN,
         UNCHANGED <<clock, services, passed, inherited, rejected>>, script.phase # "idle",
         script' \in Script, script'.phase # "idle", script'.at = script.at,
         script'.last \in -1 .. clock \cup {None},
         script'.phase \in LogIn => script'.client = scenario.at,
         script'.phase \in {"rebind", "request"} /\ script.at > 1 =>
           script'.client = Scenarios[script.at - 1].at,
         script'.phase = "rebind" => script.at = 6,
         script'.phase \in {"wait", "bind", "client"} => script.at = 1,
         script'.phase = "code" =>
           script'.code \in Nat /\ script'.code = script'.last /\ clock - script'.code \in {0, 1},
         script'.phase \in {"wait", "bind", "client"} => script'.last = None,
         script'.phase \in InMatrix => script'.last \in Int,
         \A c \in Nat : OwnCode(c) => OwnCode(c)'
  PROVE  Inv'
<1>1. UNCHANGED <<clock, services, passed, inherited, rejected>>
  OBVIOUS
<1>2. Typed'
  <2>1. TypeOK'
    BY <1>1 DEF Inv, Typed, TypeOK
  <2> QED BY <1>1, <2>1 DEF Inv, Typed
<1>3. ClientInv'
  <2>1. scenario' = scenario
    BY DEF scenario
  <2> QED BY <1>1, <2>1 DEF Inv, ClientInv, PassedAsLabelled
<1>4. CodeInv'
  <2>1. ASSUME services # None, NEW p \in Providers, NEW c \in services.used[p]
        PROVE  Inherited(p, c)' \/ OwnCode(c)'
    <3>1. c \in Nat
      BY <2>1, Types DEF Services
    <3>2. Inherited(p, c) \/ OwnCode(c)
      BY <2>1 DEF Inv, CodeInv
    <3> QED BY <1>1, <3>1, <3>2 DEF Inherited
  <2>2. RejectedOnlyIfReused'
    BY <1>1 DEF Inv, CodeInv, RejectedOnlyIfReused
  <2> QED BY <1>1, <2>1, <2>2 DEF CodeInv
<1>5. FlowInv'
  BY <1>1 DEF Inv, FlowInv, Unbound, ProcessedUnlessRebound
<1> QED BY <1>2, <1>3, <1>4, <1>5 DEF Inv

LEMMA QuietInv ==
  ASSUME Inv, Same, script.phase # "idle",
         script' \in Script, script'.phase # "idle", script'.at = script.at,
         script'.last \in -1 .. clock \cup {None},
         script'.phase \in LogIn => script'.client = scenario.at,
         script'.phase \in {"rebind", "request"} /\ script.at > 1 =>
           script'.client = Scenarios[script.at - 1].at,
         script'.phase = "rebind" => script.at = 6,
         script'.phase \in {"wait", "bind", "client"} => script.at = 1,
         script'.phase = "code" =>
           script'.code \in Nat /\ script'.code = script'.last /\ clock - script'.code \in {0, 1},
         script'.phase \in {"wait", "bind", "client"} => script'.last = None,
         script'.phase \in InMatrix => script'.last \in Int,
         \A c \in Nat : OwnCode(c) => OwnCode(c)'
  PROVE  Inv'
BY StepInv, Types DEF Same

LEMMA WaitReadyInv == ASSUME Inv, WaitReady PROVE Inv'
<1>1. CASE Leave
  BY <1>1, LeaveInv
<1>2. CASE Goto("bind") /\ Same
  <2>1. script.phase = "wait" /\ script.at = 1 /\ script.last = None
    BY DEF WaitReady, Inv, ClientInv, CodeInv
  <2>2. script' \in Script /\ script'.phase = "bind" /\ script'.at = 1 /\ script'.last = None
    BY <1>2, <2>1, Types, GotoScript DEF Phases
  <2>3. \A c \in Nat : ~OwnCode(c)
    BY <2>1, NoneIsNoValue DEF OwnCode
  <2> QED BY <1>2, <2>1, <2>2, <2>3, QuietInv DEF LogIn, InMatrix
<1> QED BY <1>1, <1>2 DEF WaitReady

\* A curl that is held up, or answered at last, changes nothing else of the script.
LEMMA HeldIs ==
  ASSUME Inv, HoldUp \/ AnswerAtLast
  PROVE  /\ Same /\ script' \in Script /\ script.phase \in Curls /\ script'.phase = script.phase
         /\ script'.at = script.at /\ script'.last = script.last /\ script'.left = script.left
         /\ script.at = 1 /\ script.last = None
<1>1. /\ script.phase \in Curls /\ Same /\ script \in Script
      /\ script.at = 1 /\ script.last = None
  BY Types DEF HoldUp, AnswerAtLast, Held, Curls, Inv, ClientInv, CodeInv
<1>2. PICK b \in BOOLEAN : script' = [script EXCEPT !.blocked = b]
  BY DEF HoldUp, AnswerAtLast
<1> QED BY <1>1, <1>2 DEF Script

LEMMA HeldInv == ASSUME Inv, HoldUp \/ AnswerAtLast PROVE Inv'
<1>1. \A c \in Nat : ~OwnCode(c)
  BY HeldIs, NoneIsNoValue DEF OwnCode
<1> QED BY <1>1, HeldIs, QuietInv DEF Curls, LogIn, InMatrix

LEMMA StartClientInv == ASSUME Inv, StartClient PROVE Inv'
<1>1. CASE Leave
  BY <1>1, LeaveInv
<1>2. CASE script' = [script EXCEPT !.phase = "request", !.last = -1] /\ Same
  <2>1. script.phase = "client" /\ script.at = 1 /\ script.last = None
    BY DEF StartClient, Inv, ClientInv, CodeInv
  <2>2. script' \in Script /\ script'.phase = "request" /\ script'.at = 1 /\ script'.last = -1
    <3>1. script \in Script /\ -1 \in Int
      BY Types
    <3> QED BY <1>2, <2>1, <3>1 DEF Script, Phases
  <2>3. \A c \in Nat : ~OwnCode(c)
    BY <2>1, NoneIsNoValue DEF OwnCode
  <2>4. script'.last \in -1 .. clock
    BY <2>2, Types
  <2> QED BY <1>2, <2>1, <2>2, <2>3, <2>4, QuietInv DEF LogIn, InMatrix
<1> QED BY <1>1, <1>2 DEF StartClient

\* Phases of the program whose next phase does not change the last code.
LEMMA ProgramInv ==
  ASSUME Inv, Same, script.phase \in InMatrix \ {"code"},
         script' \in Script, script'.at = script.at, script'.last = script.last,
         script'.phase \in LogIn \cup {"end"}, script'.phase # "code",
         script'.phase # "end" => script'.client = scenario.at
  PROVE  Inv'
<1>1. \A c \in Nat : OwnCode(c) => OwnCode(c)'
  BY DEF OwnCode
<1>2. script'.last \in -1 .. clock \cup {None} /\ script'.last \in Int
  BY DEF Inv, Typed, TypeOK, CodeInv
<1> QED BY <1>1, <1>2, QuietInv DEF LogIn, InMatrix

\* The first page of the provider of the scenario, which the runner is configured for.
LEMMA RequestIs ==
  ASSUME Inv, Request
  PROVE  /\ script.phase = "request" /\ Same
         /\ script' \in Script /\ script'.at = script.at /\ script'.last = script.last
         /\ \/ script'.phase = "end" /\ ~DiscoveryChecked(scenario)
            \/ /\ script'.phase \in {"result", FirstPage(scenario.at)}
               /\ script'.phase \in {"login", "username", "broken", "result"}
               /\ script'.client = scenario.at /\ script'.left = Transitions
<1> DEFINE client == IF scenario.configured THEN Configure(script.client, scenario.at)
                                            ELSE script.client
           sso == ~scenario.prompt /\ <<client, scenario.session>> \in script.signed
           page == IF sso THEN "result" ELSE FirstPage(client)
<1>1. script.phase = "request" /\ Same /\ script \in Script
  BY Types DEF Request
<1>2. client = scenario.at
  <2>1. CASE script.at = 4
    <3>1. script.client = Scenarios[3].at
      BY <1>1, <2>1 DEF Inv, ClientInv
    <3>2. ~scenario.configured
      BY <2>1, ScenarioConfigured DEF scenario
    <3>3. client = script.client
      BY <3>2
    <3> QED BY <2>1, <3>1, <3>3, ScenarioAt DEF scenario
  <2>2. CASE script.at # 4
    <3>1. scenario.configured
      BY <2>2, Types, ScenarioConfigured DEF scenario
    <3> QED BY <3>1 DEF Configure
  <2> QED BY <2>1, <2>2
<1>3. CASE ~DiscoveryChecked(scenario) /\ Goto("end")
  BY <1>1, <1>3, GotoScript DEF Phases
<1>4. CASE script' = [script EXCEPT !.client = client, !.left = Transitions, !.phase = page]
  <2>1. /\ page \in {"result", FirstPage(client)}
        /\ page \in {"login", "username", "broken", "result"}
    BY DEF FirstPage
  <2>2. client \in Providers /\ Transitions \in 0 .. Transitions
    BY <1>2, Types, NoneIsNoValue
  <2>3. /\ script' \in Script /\ script'.at = script.at /\ script'.last = script.last
        /\ script'.client = client /\ script'.phase = page /\ script'.left = Transitions
    <3> HIDE DEF client, page
    <3> QED BY <1>1, <1>4, <2>1, <2>2 DEF Script, Phases
  <2> QED
    <3> HIDE DEF client, page
    <3> QED BY <1>1, <1>2, <2>1, <2>3
<1> QED BY <1>3, <1>4 DEF Request

LEMMA RequestInv == ASSUME Inv, Request PROVE Inv'
BY RequestIs, ProgramInv DEF InMatrix, LogIn

LEMMA GiveUpInv == ASSUME Inv, GiveUp PROVE Inv'
<1>1. script.phase \in InMatrix \ {"code"} /\ Same /\ Goto("end") /\ script \in Script
  BY Types DEF GiveUp, Forms, InMatrix, LogIn
<1> QED BY <1>1, GotoScript, ProgramInv DEF Phases

\* A form leads to the next page, and uses up a transition.
LEMMA SubmitFormIs ==
  ASSUME Inv, SubmitForm
  PROVE  /\ Same /\ script' \in Script /\ script'.at = script.at /\ script'.last = script.last
         /\ script'.client = scenario.at /\ script'.left = script.left - 1
         /\ \/ script.phase = "username" /\ script'.phase = "password"
            \/ script.phase = "password" /\ script'.phase = "result"
            \/ script.phase = "login" /\ script'.phase = "otp"
<1>1. /\ script.phase \in {"username", "password", "login"} /\ Same /\ script \in Script
      /\ script.left \in 1 .. Transitions /\ script.client = scenario.at
  BY Types, NoneIsNoValue DEF SubmitForm, Forms, Script, Inv, ClientInv, LogIn
<1>2. script.left - 1 \in 0 .. Transitions
  BY <1>1, NoneIsNoValue
<1>3. CASE script.phase = "password"
  <2>1. script' = [SignedIn EXCEPT !.left = script.left - 1]
    BY <1>3 DEF SubmitForm, Looked
  <2> QED BY <1>1, <1>2, <1>3, <2>1, SignedInIs DEF Script
<1>4. CASE script.phase # "password"
  <2> DEFINE page == IF script.phase = "username" THEN "password" ELSE "otp"
  <2>1. script' = [[script EXCEPT !.phase = page] EXCEPT !.left = script.left - 1]
    BY <1>4 DEF SubmitForm, PageAfter, Looked
  <2>2. page \in Phases
    BY DEF Phases
  <2>3. /\ script' \in Script /\ script'.at = script.at /\ script'.last = script.last
        /\ script'.client = script.client /\ script'.left = script.left - 1 /\ script'.phase = page
    <3> HIDE DEF page
    <3> QED BY <1>1, <1>2, <2>1, <2>2 DEF Script
  <2> QED BY <1>1, <1>4, <2>3
<1> QED BY <1>3, <1>4

LEMMA SubmitFormInv == ASSUME Inv, SubmitForm PROVE Inv'
BY SubmitFormIs, ProgramInv DEF InMatrix, LogIn

\* A new code is later than all that were given before.
LEMMA CurrentTotpIs ==
  ASSUME Inv, CurrentTotp
  PROVE  /\ script.phase = "otp" /\ Same /\ script.last \in Int /\ script.last < clock
         /\ script' \in Script /\ script'.phase = "code" /\ script'.at = script.at
         /\ script'.client = scenario.at /\ script'.code = clock /\ script'.last = clock
         /\ script'.left = script.left - 1
<1>1. /\ script.phase = "otp" /\ Same /\ script \in Script /\ clock \in Nat
      /\ script.left \in 1 .. Transitions /\ script.client = scenario.at
      /\ script.last \in Int /\ script.last =< clock /\ script.last # clock
  BY Types, NoneIsNoValue
     DEF CurrentTotp, Script, Inv, ClientInv, CodeInv, LogIn, InMatrix, UnusedCounter, Counter,
         Typed, TypeOK
<1>2. script' = [script EXCEPT !.phase = "code", !.last = clock, !.code = clock,
                               !.left = script.left - 1]
  BY DEF CurrentTotp, Counter, Looked
<1>3. script.left - 1 \in 0 .. Transitions
  BY <1>1, NoneIsNoValue
<1>4. /\ script' \in Script /\ script'.phase = "code" /\ script'.at = script.at
      /\ script'.client = script.client /\ script'.code = clock /\ script'.last = clock
      /\ script'.left = script.left - 1
  <2>1. clock \in Nat \cup {None} /\ clock \in Int \cup {None}
    BY <1>1
  <2> QED BY <1>1, <1>2, <1>3, <2>1 DEF Script, Phases
<1>5. script.last < clock
  BY <1>1
<1> QED BY <1>1, <1>4, <1>5

LEMMA CurrentTotpInv == ASSUME Inv, CurrentTotp PROVE Inv'
<1>1. clock \in Nat
  BY Types
<1>2. \A c \in Nat : OwnCode(c) => OwnCode(c)'
  BY <1>1, CurrentTotpIs DEF OwnCode
<1>3. script'.last \in -1 .. clock /\ clock - script'.code \in {0, 1}
  BY <1>1, CurrentTotpIs
<1> QED BY <1>1, <1>2, <1>3, CurrentTotpIs, QuietInv DEF LogIn, InMatrix

\* Time passes.
LEMMA TimeInv ==
  ASSUME Inv, clock' = clock + 1, script.phase = "code" => clock = script.code,
         UNCHANGED <<services, script, passed, fault, inherited, rejected>>
  PROVE  Inv'
<1>1. clock \in Nat /\ clock + 1 \in Nat
  BY Types
<1>2. Typed'
  <2>1. services # None => \A p \in Providers : services.used[p] \subseteq 0 .. clock'
    <3> SUFFICES ASSUME services # None, NEW p \in Providers, NEW c \in services.used[p]
                 PROVE  c \in 0 .. clock'
      OBVIOUS
    <3>1. c \in 0 .. clock
      BY DEF Inv, Typed, TypeOK
    <3> QED BY <1>1, <3>1
  <2>2. script.last \in -1 .. clock' \cup {None}
    BY <1>1 DEF Inv, Typed, TypeOK
  <2>3. rejected \subseteq Providers \X (0 .. clock')
    <3>1. rejected \subseteq Providers \X (0 .. clock)
      BY DEF Inv, Typed, TypeOK
    <3>2. 0 .. clock \subseteq 0 .. clock'
      BY <1>1
    <3> QED BY <3>1, <3>2
  <2>4. TypeOK'
    BY <2>1, <2>2, <2>3 DEF Inv, Typed, TypeOK
  <2> QED BY <1>1, <2>4 DEF Inv, Typed
<1>3. ClientInv'
  BY DEF Inv, ClientInv, PassedAsLabelled, scenario
<1>4. CodeInv'
  <2>1. script.phase = "code" => clock' - script.code \in {0, 1}
    BY <1>1
  <2>2. RejectedOnlyIfReused'
    BY DEF Inv, CodeInv, RejectedOnlyIfReused
  <2>3. services # None =>
          \A p \in Providers : \A c \in services.used[p] : Inherited(p, c)' \/ OwnCode(c)'
    BY DEF Inv, CodeInv, Inherited, OwnCode
  <2> QED BY <2>1, <2>2, <2>3 DEF Inv, CodeInv
<1>5. FlowInv'
  BY DEF Inv, FlowInv, Unbound, ProcessedUnlessRebound
<1> QED BY <1>2, <1>3, <1>4, <1>5 DEF Inv

LEMMA TickInv == ASSUME Inv, Tick PROVE Inv'
BY TimeInv DEF Tick
LEMMA SleepInv == ASSUME Inv, Sleep PROVE Inv'
BY TimeInv DEF Sleep

\* The realm of a provider is rebound, or not, and the script goes on.
LEMMA BoundInv ==
  ASSUME Inv, script.phase \in {"bind", "rebind"}, NEW p \in {"client", "request", "end"}, Goto(p),
         p = "client" <=> script.phase = "bind", fault' \in BOOLEAN,
         \/ UNCHANGED services
         \/ Rebind(IF script.phase = "bind" THEN "disabled" ELSE scenario.at),
         UNCHANGED <<clock, passed, inherited, rejected>>
  PROVE  Inv'
<1> DEFINE q == IF script.phase = "bind" THEN "disabled" ELSE scenario.at
<1>1. /\ script' \in Script /\ script'.phase = p /\ script'.at = script.at
      /\ script'.client = script.client /\ script'.last = script.last
      /\ script \in Script /\ clock \in Nat /\ services \in Services /\ q \in Providers
  BY Types, GotoScript DEF Phases, Inv, Typed, Providers
<1>2. /\ services' \in Services
      /\ \A r \in Providers : services'.used[r] = services.used[r]
      /\ services'.flow["enabled"] = services.flow["enabled"] \/ q = "enabled"
  <2>1. CASE UNCHANGED services
    BY <1>1, <2>1
  <2>2. CASE Rebind(q)
    <3> HIDE DEF q
    <3>1. "enabled" \in Providers
      BY DEF Providers
    <3> QED BY <1>1, <2>2, <3>1, RebindIs
  <2> QED BY <2>1, <2>2
<1>3. Typed'
  <2>1. \A r \in Providers : services'.used[r] \subseteq 0 .. clock
    BY <1>1, <1>2, Types
  <2>2. TypeOK'
    BY <1>1, <1>2, <2>1 DEF Inv, Typed, TypeOK
  <2> QED BY <1>1, <1>2, <2>2 DEF Inv, Typed
<1>4. ClientInv'
  BY <1>1 DEF Inv, ClientInv, PassedAsLabelled, LogIn, scenario
<1>5. CodeInv'
  <2>1. \A r \in Providers : \A c \in services'.used[r] : Inherited(r, c)' \/ OwnCode(c)'
    <3>1. services # None
      BY <1>1, NoneIsNoValue
    <3> QED BY <1>1, <1>2, <3>1 DEF Inv, CodeInv, Inherited, OwnCode
  <2>2. RejectedOnlyIfReused'
    BY DEF Inv, CodeInv, RejectedOnlyIfReused
  <2>3. script.phase = "rebind" => script.last \in Int
    BY DEF Inv, CodeInv, InMatrix
  <2>4. script.phase = "bind" => script.last = None
    BY DEF Inv, CodeInv
  <2> QED BY <1>1, <2>1, <2>2, <2>3, <2>4 DEF CodeInv, InMatrix, LogIn
<1>6. FlowInv'
  <2>1. ProcessedUnlessRebound'
    BY DEF Inv, FlowInv, ProcessedUnlessRebound
  <2>2. q = "enabled" => script.at = 6
    BY DEF Inv, ClientInv
  <2>3. services # None
    BY <1>1, NoneIsNoValue
  <2> QED BY <1>1, <1>2, <2>1, <2>2, <2>3 DEF Inv, FlowInv, Unbound
<1> QED BY <1>3, <1>4, <1>5, <1>6 DEF Inv

LEMMA BindDisabledInv == ASSUME Inv, BindDisabled PROVE Inv'
<1>1. fault' \in BOOLEAN
  BY Types DEF BindDisabled
<1> QED BY <1>1, BoundInv DEF BindDisabled

LEMMA UseFlowInv == ASSUME Inv, UseFlowWithoutPlanner PROVE Inv'
BY BoundInv, Types DEF UseFlowWithoutPlanner

\* The provider takes the code in flight.
LEMMA UseCodeInv ==
  ASSUME Inv, script.phase = "code", UseCode, fault' \in BOOLEAN,
         script' \in Script, script'.phase \in {"result", "end"}, script'.at = script.at,
         script'.last = script.last, script'.client = script.client,
         UNCHANGED <<clock, passed, inherited, rejected>>
  PROVE  Inv'
<1>1. /\ script \in Script /\ services \in Services /\ services # None /\ clock \in Nat
      /\ script.client \in Providers /\ script.code \in Nat /\ script.code =< clock
      /\ script.code = script.last /\ script.client = scenario.at /\ script.last \in Int
  BY Types, NoneIsNoValue DEF Inv, Typed, ClientInv, CodeInv, LogIn
<1>2. /\ services' \in Services
      /\ services'.flow = services.flow
      /\ services'.used[script.client] = services.used[script.client] \cup {script.code}
      /\ \A p \in Providers : p # script.client => services'.used[p] = services.used[p]
  BY <1>1, UseCodeIs
<1>3. ASSUME NEW p \in Providers, NEW c \in services'.used[p]
      PROVE  c \in services.used[p] \/ c = script.code
  BY <1>2, <1>3
<1>4. Typed'
  <2>1. ASSUME NEW p \in Providers, NEW c \in services'.used[p] PROVE c \in 0 .. clock
    BY <1>1, <1>3, <2>1, Types
  <2>2. TypeOK'
    BY <1>1, <1>2, <2>1 DEF Inv, Typed, TypeOK
  <2> QED BY <1>1, <1>2, <2>2 DEF Inv, Typed
<1>5. ClientInv'
  BY <1>1 DEF Inv, ClientInv, PassedAsLabelled, LogIn, scenario
<1>6. CodeInv'
  <2>1. ASSUME NEW p \in Providers, NEW c \in services'.used[p]
        PROVE  Inherited(p, c)' \/ OwnCode(c)'
    <3>1. CASE c \in services.used[p]
      <4>1. Inherited(p, c) \/ OwnCode(c)
        BY <1>1, <3>1 DEF Inv, CodeInv
      <4> QED BY <4>1 DEF Inherited, OwnCode
    <3>2. CASE c = script.code
      BY <1>1, <3>2 DEF OwnCode
    <3> QED BY <1>3, <2>1, <3>1, <3>2
  <2>2. RejectedOnlyIfReused'
    BY DEF Inv, CodeInv, RejectedOnlyIfReused
  <2> QED BY <1>1, <2>1, <2>2 DEF CodeInv
<1>7. FlowInv'
  BY <1>1, <1>2 DEF Inv, FlowInv, Unbound, ProcessedUnlessRebound
<1> QED BY <1>4, <1>5, <1>6, <1>7 DEF Inv

\* A code in flight is new to the provider, unless an earlier run used it.
LEMMA RefusedIsInherited ==
  ASSUME Inv, script.phase = "code", ~Accepts(script.client, script.code)
  PROVE  Inherited(script.client, script.code)
<1>1. /\ script.client \in Providers /\ script.code = script.last
      /\ clock - script.code \in {0, 1} /\ services # None /\ script.code \in Nat
  BY Types, NoneIsNoValue DEF Inv, Typed, ClientInv, CodeInv, LogIn
<1>2. script.code \in services.used[script.client]
  BY <1>1 DEF Accepts
<1>3. ~OwnCode(script.code)
  BY <1>1 DEF OwnCode
<1> QED BY <1>1, <1>2, <1>3 DEF Inv, CodeInv

LEMMA CheckCodeInv == ASSUME Inv, CheckCode PROVE Inv'
<1>1. /\ script.phase = "code" /\ UNCHANGED <<clock, passed, runs, fault, inherited>>
      /\ script \in Script /\ fault \in BOOLEAN /\ script.client = scenario.at
  BY Types DEF CheckCode, Inv, ClientInv, LogIn
<1>2. CASE script' = SignedIn /\ UseCode /\ UNCHANGED rejected
  BY <1>1, <1>2, SignedInIs, UseCodeInv
<1>3. CASE /\ ~Accepts(script.client, script.code) /\ Goto("otp") /\ UNCHANGED services
           /\ rejected' = rejected \cup {<<script.client, script.code>>}
  <2>1. Inherited(script.client, script.code)
    BY <1>1, <1>3, RefusedIsInherited
  <2>2. /\ script' \in Script /\ script'.phase = "otp" /\ script'.at = script.at
        /\ script'.client = script.client /\ script'.last = script.last
    BY <1>1, <1>3, GotoScript DEF Phases
  <2>3. /\ script.code \in 0 .. clock /\ script.client \in Providers /\ script.last \in Int
    BY <1>1, Types DEF Inv, CodeInv
  <2>4. Typed'
    <3>1. rejected' \subseteq Providers \X (0 .. clock)
      BY <1>3, <2>3 DEF Inv, Typed, TypeOK
    <3>2. TypeOK'
      BY <1>1, <1>3, <2>2, <3>1 DEF Inv, Typed, TypeOK
    <3> QED BY <1>1, <1>3, <2>2, <3>2 DEF Inv, Typed
  <2>5. ClientInv'
    BY <1>1, <2>2 DEF Inv, ClientInv, PassedAsLabelled, LogIn, scenario
  <2>6. CodeInv'
    <3>1. RejectedOnlyIfReused'
      BY <1>1, <1>3, <2>1 DEF Inv, CodeInv, RejectedOnlyIfReused, Inherited
    <3>2. services # None =>
            \A p \in Providers : \A c \in services.used[p] : Inherited(p, c)' \/ OwnCode(c)'
      BY <1>1, <2>2 DEF Inv, CodeInv, Inherited, OwnCode
    <3> QED BY <1>3, <2>2, <2>3, <3>1, <3>2 DEF CodeInv
  <2>7. FlowInv'
    BY <1>1, <1>3, <2>2 DEF Inv, FlowInv, Unbound, ProcessedUnlessRebound
  <2> QED BY <2>4, <2>5, <2>6, <2>7 DEF Inv
<1> QED BY <1>1, <1>2, <1>3 DEF CheckCode

LEMMA RequestFailsInv == ASSUME Inv, RequestFails PROVE Inv'
<1>1. /\ script.phase \in Asking /\ Goto("end") /\ fault' = TRUE /\ script \in Script
      /\ UNCHANGED <<clock, passed, inherited, rejected>>
  BY Types DEF RequestFails
<1>2. /\ script' \in Script /\ script'.phase = "end" /\ script'.at = script.at
      /\ script'.last = script.last /\ script'.client = script.client
  BY <1>1, GotoScript DEF Phases
<1>3. CASE UNCHANGED services
  <2>1. \A c \in Nat : OwnCode(c) => OwnCode(c)'
    BY <1>2 DEF OwnCode
  <2>2. script'.last \in -1 .. clock \cup {None} /\ script.phase # "idle"
    BY <1>1, <1>2 DEF Inv, Typed, TypeOK, Asking
  <2> QED BY <1>1, <1>2, <1>3, <2>1, <2>2, StepInv DEF LogIn, InMatrix
<1>4. CASE script.phase = "rebind" /\ Rebind(scenario.at)
  BY <1>1, <1>4, BoundInv
<1>5. CASE script.phase = "code" /\ UseCode
  BY <1>1, <1>2, <1>5, UseCodeInv
<1> QED BY <1>3, <1>4, <1>5 DEF RequestFails

\* The next scenario, or the end.
LEMMA ConcludeIs ==
  ASSUME Inv, Conclude
  PROVE  LET answer == AnswerTo(script.client, scenario.claims)
             line == <<script.at, answer.provider, answer.processed>>
             ok == Checked(scenario, answer.details)
         IN  /\ script.phase = "result" /\ UNCHANGED <<clock, services, fault, inherited, rejected>>
             /\ script.client = scenario.at /\ script.client \in Providers
             /\ script.at \in 1 .. 6 /\ services # None /\ script.last \in Int
             /\ line = <<script.at, script.client, Processed(script.client)>>
             /\ passed' = IF ok THEN passed \cup {line} ELSE passed
             /\ script' \in Script /\ script'.client = script.client /\ script'.last = script.last
             /\ \/ script'.phase = "end" /\ script'.at = script.at /\ (ok => script.at = 6)
                \/ /\ ok /\ script.at < 6 /\ script'.at = script.at + 1
                   /\ script'.phase = IF script'.at = 6 THEN "rebind" ELSE "request"
<1> DEFINE answer == AnswerTo(script.client, scenario.claims)
           line == <<script.at, answer.provider, answer.processed>>
           ok == Checked(scenario, answer.details)
           next == script.at + 1
           phase == IF Scenarios[next].rebinds THEN "rebind" ELSE "request"
<1>1. /\ script.phase = "result" /\ UNCHANGED <<clock, services, fault, inherited, rejected>>
      /\ script \in Script /\ script.client = scenario.at /\ script.at \in 1 .. 6
      /\ script.client \in Providers /\ services # None /\ script.last \in Int
  BY Types, NoneIsNoValue DEF Conclude, Inv, Typed, ClientInv, CodeInv, LogIn, InMatrix
<1>2. line = <<script.at, script.client, Processed(script.client)>>
  BY DEF AnswerTo
<1>3. passed' = IF ok THEN passed \cup {line} ELSE passed
  BY DEF Conclude
<1>4. \/ (~ok \/ next > 6) /\ Goto("end")
      \/ ok /\ next =< 6 /\ script' = [script EXCEPT !.at = next, !.phase = phase]
  <2> HIDE DEF ok
  <2>1. IF ~ok \/ next > 6 THEN Goto("end")
                           ELSE script' = [script EXCEPT !.at = next, !.phase = phase]
    BY ScenariosAre DEF Conclude, ok
  <2>2. next > 6 \/ next =< 6
    BY <1>1
  <2> QED BY <2>1, <2>2
<1>5. /\ script' \in Script /\ script'.client = script.client /\ script'.last = script.last
      /\ \/ script'.phase = "end" /\ script'.at = script.at /\ (ok => script.at = 6)
         \/ /\ ok /\ script.at < 6 /\ script'.at = script.at + 1
            /\ script'.phase = IF script'.at = 6 THEN "rebind" ELSE "request"
  <2> HIDE DEF ok
  <2>1. CASE (~ok \/ next > 6) /\ Goto("end")
    <3>1. next > 6 => script.at = 6
      BY <1>1
    <3> QED BY <1>1, <2>1, <3>1, GotoScript DEF Phases
  <2>2. CASE ok /\ next =< 6 /\ script' = [script EXCEPT !.at = next, !.phase = phase]
    <3>1. next \in 1 .. 6 /\ next \in DOMAIN Scenarios /\ script.at < 6
      BY <1>1, <2>2, ScenarioAt
    <3>2. phase = IF next = 6 THEN "rebind" ELSE "request"
      BY <3>1, ScenarioRebinds
    <3>3. phase \in Phases
      BY DEF Phases
    <3>4. /\ script' \in Script /\ script'.client = script.client /\ script'.last = script.last
          /\ script'.at = next /\ script'.phase = phase
      <4> HIDE DEF next, phase
      <4> QED BY <1>1, <2>2, <3>1, <3>3 DEF Script
    <3> QED
      <4> HIDE DEF phase
      <4> QED BY <2>2, <3>1, <3>2, <3>4
  <2> QED BY <1>4, <2>1, <2>2
<1> QED BY <1>1, <1>2, <1>3, <1>5

\* The line a scenario prints is about the provider that answered.
LEMMA ConcludeInv == ASSUME Inv, Conclude PROVE Inv'
<1> DEFINE answer == AnswerTo(script.client, scenario.claims)
           line == <<script.at, answer.provider, answer.processed>>
<1>1. /\ script.phase = "result" /\ UNCHANGED <<clock, services, fault, inherited, rejected>>
      /\ script.client = scenario.at /\ script.at \in 1 .. 6
      /\ script.client \in Providers /\ services # None /\ script.last \in Int
  BY ConcludeIs
<1>2. line = <<script.at, script.client, Processed(script.client)>>
  BY ConcludeIs
<1>3. passed' \in {passed, passed \cup {line}}
  BY ConcludeIs
<1>5. /\ script' \in Script /\ script'.client = script.client /\ script'.last = script.last
      /\ \/ script'.phase = "end" /\ script'.at = script.at
         \/ /\ script.at < 6 /\ script'.at = script.at + 1
            /\ script'.phase \in {"rebind", "request"}
            /\ script'.phase = "rebind" => script'.at = 6
  BY ConcludeIs
<1>6. Typed'
  <2>1. line \in (DOMAIN Scenarios) \X Providers \X BOOLEAN
    <3>1. Processed(script.client) \in BOOLEAN
      BY DEF Processed
    <3> QED BY <1>1, <1>2, <3>1, ScenarioAt
  <2>2. TypeOK'
    <3> HIDE DEF line
    <3> QED BY <1>1, <1>3, <1>5, <2>1 DEF Inv, Typed, TypeOK
  <2> QED BY <1>1, <1>5, <2>2 DEF Inv, Typed
<1>7. ClientInv'
  <2>1. line[1] = script.at /\ line[2] = script.client
    BY <1>2
  <2>2. PassedAsLabelled'
    <3> HIDE DEF line
    <3> QED BY <1>1, <1>3, <2>1 DEF Inv, ClientInv, PassedAsLabelled, scenario
  <2>3. script'.phase \in {"rebind", "request"} => script'.client = Scenarios[script'.at - 1].at
    <3>1. (script.at + 1) - 1 = script.at
      BY <1>1
    <3> QED BY <1>1, <1>5, <3>1 DEF scenario
  <2> QED BY <1>5, <2>2, <2>3 DEF ClientInv, LogIn
<1>8. CodeInv'
  <2>1. \A p \in Providers : \A c \in services.used[p] : Inherited(p, c)' \/ OwnCode(c)'
    BY <1>1, <1>5 DEF Inv, CodeInv, Inherited, OwnCode
  <2>2. RejectedOnlyIfReused'
    BY <1>1 DEF Inv, CodeInv, RejectedOnlyIfReused
  <2> QED BY <1>1, <1>5, <2>1, <2>2 DEF CodeInv
<1>9. FlowInv'
  <2>1. script.at = 5 => Processed(script.client) \/ Unbound
    <3>1. services.flow["enabled"] \in Flows
      BY <1>1, Types DEF Services, Providers
    <3>2. script.at = 5 => script.client = "enabled"
      BY <1>1, ScenarioAt DEF scenario
    <3> QED BY <1>1, <3>1, <3>2 DEF Inv, FlowInv, Processed, Flows
  <2>2. line[1] = script.at /\ line[3] = Processed(script.client)
    BY <1>2
  <2>3. ProcessedUnlessRebound'
    <3> HIDE DEF line
    <3>1. \A p \in passed : p[1] = 5 => p[3] \/ Unbound
      BY DEF Inv, FlowInv, ProcessedUnlessRebound, Unbound
    <3>2. line[1] = 5 => line[3] \/ Unbound
      BY <2>1, <2>2
    <3>3. \A p \in passed' : p[1] = 5 => p[3] \/ Unbound
      BY <1>3, <3>1, <3>2
    <3> QED BY <1>1, <3>3 DEF ProcessedUnlessRebound, Unbound
  <2>4. script.at < 6 => script.at # 6
    BY <1>1
  <2> QED BY <1>1, <1>5, <2>3, <2>4 DEF Inv, FlowInv, Unbound
<1> QED BY <1>6, <1>7, <1>8, <1>9 DEF Inv

LEMMA StutterInv == ASSUME Inv, UNCHANGED vars PROVE Inv'
<1>1. UNCHANGED <<clock, services, script, passed, runs, fault, inherited, rejected>>
  BY DEF vars
<1> QED
  BY <1>1 DEF Inv, Typed, TypeOK, ClientInv, PassedAsLabelled, scenario, CodeInv, Inherited, OwnCode,
     RejectedOnlyIfReused, FlowInv, Unbound, ProcessedUnlessRebound

LEMMA NextInv == Inv /\ [Next]_vars => Inv'
<1> SUFFICES ASSUME Inv, [Next]_vars PROVE Inv'
  OBVIOUS
<1>1. CASE Up \/ Wrapper
  BY <1>1, UpInv, WaitReadyInv, BindDisabledInv, StartClientInv, DownInv DEF Wrapper
<1>2. CASE Program
  BY <1>2, UseFlowInv, RequestInv, GiveUpInv, SubmitFormInv, CurrentTotpInv, SleepInv,
     CheckCodeInv, ConcludeInv DEF Program
<1>3. CASE RequestFails \/ Interrupt \/ Tick
  BY <1>3, RequestFailsInv, LeaveInv, TickInv DEF Interrupt
<1>4. CASE HoldUp \/ AnswerAtLast
  BY <1>4, HeldInv
<1>5. CASE Done \/ UNCHANGED vars
  BY <1>5, StutterInv DEF Done
<1> QED BY <1>1, <1>2, <1>3, <1>4, <1>5 DEF Next, Go

\* The invariant: whom the program talks to, whose codes the providers have taken, and
\* who unbound the planner.
THEOREM Invariance == Spec => []Inv
BY InitInv, NextInv, PTL DEF Spec

-------------------------------------------------------------------------------
(* What follows from it *)

\* The clock, the services, the program and what it has printed keep their shapes.
THEOREM TypeCorrect == Spec => []TypeOK
<1>1. Inv => TypeOK
  BY DEF Inv, Typed
<1> QED BY <1>1, Invariance, PTL

\* Every PASS line is about the provider it names: configure is called where it must be, and
\* the direct request still finds the fallback's provider configured.
THEOREM Labelled == Spec => []PassedAsLabelled
<1>1. Inv => PassedAsLabelled
  BY DEF Inv, ClientInv
<1> QED BY <1>1, Invariance, PTL

\* "structured request processed and projected" is printed of a request that the planner
\* processed, unless the services of a stopped run were still unbound.
THEOREM ProcessedIfBound == Spec => []ProcessedUnlessRebound
<1>1. Inv => ProcessedUnlessRebound
  BY DEF Inv, FlowInv
<1> QED BY <1>1, Invariance, PTL

\* current_totp gives no code twice and none too early to be new: a provider refuses only
\* what a stopped run had used there.
THEOREM OwnCodesAccepted == Spec => []RejectedOnlyIfReused
<1>1. Inv => RejectedOnlyIfReused
  BY DEF Inv, CodeInv
<1> QED BY <1>1, Invariance, PTL

(***************************************************************************)
(* A run in which nothing failed passes.                                   *)
(***************************************************************************)

\* All codes of earlier runs are of this time or before.
InheritedUntil(time) ==
  inherited # None => \A p \in Providers : \A c \in inherited.used[p] : c =< time

\* The scenarios before the present one have passed.
PassedInv ==
  /\ script.phase \in InMatrix =>
       \A i \in 1 .. 6 : i < script.at => \E p \in passed : p[1] = i
  /\ FailsOnlyOnFault

\* The disabled provider was bound, and the other rebound for the last scenario.
BoundFlowsInv ==
  /\ script.phase \in {"client"} \cup InMatrix => fault \/ services.flow["disabled"] = "browser"
  /\ script.phase \in {"request"} \cup LogIn /\ script.at = 6 =>
       services.flow["enabled"] = "browser"
  /\ script.phase = "broken" => fault

\* The transitions that are left suffice: one code may be refused, but then the next
\* one is later than all that earlier runs have used.
EnoughLeft ==
  /\ InheritedUntil(clock)
  /\ script.phase = "login" => script.left >= 3
  /\ script.phase = "username" => script.left >= 2
  /\ script.phase = "password" => script.left >= 1
  /\ script.phase = "otp" =>
       script.left >= 2 \/ (script.left >= 1 /\ InheritedUntil(script.last))
  /\ script.phase = "code" =>
       InheritedUntil(script.last) /\ (script.left >= 1 \/ InheritedUntil(script.last - 1))

PassInv == PassedInv /\ BoundFlowsInv /\ EnoughLeft

LEMMA InitPass == Init => PassInv
BY IdleIs
   DEF Init, PassInv, PassedInv, FailsOnlyOnFault, BoundFlowsInv, EnoughLeft, InheritedUntil,
       InMatrix, LogIn

\* An answer from the provider the scenario is about is the one that main checks for.
LEMMA AnswerIsChecked ==
  ASSUME Inv, script.phase = "result", script.at = 6 => services.flow["enabled"] = "browser"
  PROVE  Checked(scenario, AnswerTo(scenario.at, scenario.claims).details)
<1> DEFINE details == AnswerTo(scenario.at, scenario.claims).details
<1>1. /\ scenario.at \in Providers /\ script.at \in 1 .. 6 /\ services \in Services
  BY Types DEF Inv, Typed
<1>2. details = IF scenario.at = "disabled" \/ scenario.claims = None THEN None
                ELSE IF Processed(scenario.at) THEN <<scenario.claims>> ELSE <<"pwd", "otp">>
  BY DEF AnswerTo
<1>3. CASE scenario.at = "disabled" \/ scenario.claims = None
  <2>1. script.at # 6
    BY <1>3, ScenarioAt, ScenarioClaims, NoneIsNoValue DEF scenario
  <2>2. ~scenario.rebinds
    BY <1>1, <2>1, ScenarioRebinds DEF scenario
  <2> HIDE DEF details
  <2>3. Checked(scenario, details)
    BY <1>2, <1>3, <2>2 DEF Checked
  <2> QED BY <2>3 DEF details
<1>4. CASE scenario.at # "disabled" /\ scenario.claims # None /\ script.at = 6
  <2>1. ~Processed(scenario.at) /\ scenario.rebinds
    BY <1>1, <1>4, ScenarioRebinds DEF Processed, scenario, Providers
  <2>2. details = <<"pwd", "otp">>
    BY <1>2, <1>4, <2>1
  <2>3. Contains(<<"pwd", "otp">>, "pwd") /\ ~Contains(<<"pwd", "otp">>, "pop")
    BY DEF Contains
  <2> HIDE DEF details
  <2>4. Checked(scenario, details)
    BY <1>4, <2>1, <2>2, <2>3, NoneIsNoValue DEF Checked
  <2> QED BY <2>4 DEF details
<1>5. CASE scenario.at # "disabled" /\ scenario.claims # None /\ script.at # 6
  <2>1. ~scenario.rebinds /\ scenario.claims = "pwd"
    BY <1>1, <1>5, ScenarioRebinds, ScenarioClaims DEF scenario
  <2>2. details \in {<<"pwd">>, <<"pwd", "otp">>}
    BY <1>2, <1>5, <2>1
  <2> HIDE DEF details
  <2>3. details # None /\ details[1] = "pwd"
    BY <2>2, NoneIsNoValue
  <2>4. Checked(scenario, details)
    BY <1>5, <2>1, <2>3 DEF Checked
  <2> QED BY <2>4 DEF details
<1> QED BY <1>3, <1>4, <1>5

\* Steps of a run between its scenarios' ends: what was printed stays.
LEMMA PassedStep ==
  ASSUME PassedInv, passed' = passed, script'.at = script.at,
         script'.phase \in InMatrix => script.phase \in InMatrix \/ script.at = 1,
         script'.phase = "end" => fault'
  PROVE  PassedInv'
<1>1. ASSUME script'.phase \in InMatrix, NEW i \in 1 .. 6, i < script.at
      PROVE  \E p \in passed : p[1] = i
  BY <1>1 DEF PassedInv
<1> QED BY <1>1 DEF PassedInv, FailsOnlyOnFault

\* Steps that leave the realms alone.
LEMMA FlowStep ==
  ASSUME BoundFlowsInv, services' = services, script'.at = script.at, fault => fault',
         script'.phase \in {"client"} \cup InMatrix => script.phase \in {"client"} \cup InMatrix,
         script'.phase \in {"request"} \cup LogIn =>
           script.phase \in {"request"} \cup LogIn \/ script.at = 1,
         script'.phase = "broken" => fault'
  PROVE  BoundFlowsInv'
BY DEF BoundFlowsInv

\* Phases in which nothing is said of the transitions.
LEMMA LeftStep ==
  ASSUME EnoughLeft, clock' = clock, inherited' = inherited,
         script'.phase \notin {"login", "username", "password", "otp", "code"}
  PROVE  EnoughLeft'
BY DEF EnoughLeft, InheritedUntil

LEMMA OverPass ==
  ASSUME Inv, Stop, clock' = clock, inherited' = services', services' \in {services, None}
  PROVE  PassInv'
<1>1. script' = Idle /\ Idle.phase = "idle"
  BY IdleIs DEF Stop
<1>2. InheritedUntil(clock)'
  <2> SUFFICES ASSUME services # None, NEW p \in Providers, NEW c \in services.used[p]
               PROVE  c =< clock
    BY DEF InheritedUntil
  <2>1. c \in 0 .. clock
    BY DEF Inv, Typed, TypeOK
  <2> QED BY <2>1, Types
<1> QED
  BY <1>1, <1>2
     DEF PassInv, PassedInv, FailsOnlyOnFault, BoundFlowsInv, EnoughLeft, InMatrix, LogIn

LEMMA LeavePass == ASSUME Inv, Leave PROVE PassInv'
BY OverPass DEF Leave
LEMMA DownPass == ASSUME Inv, Down PROVE PassInv'
BY OverPass DEF Down, RemoveAll

LEMMA UpPass == ASSUME Inv, PassInv, Up PROVE PassInv'
<1>1. clock' = clock /\ inherited' = inherited
  BY DEF Up
<1>2. PICK ready \in BOOLEAN : script' = [Idle EXCEPT !.phase = "wait", !.healthy = ready]
  BY DEF Up
<1>3. script'.phase = "wait"
  BY <1>2, IdleIs DEF Script
<1> QED
  BY <1>1, <1>3, LeftStep
     DEF PassInv, PassedInv, FailsOnlyOnFault, BoundFlowsInv, InMatrix, LogIn

LEMMA WaitReadyPass == ASSUME Inv, PassInv, WaitReady PROVE PassInv'
<1>1. CASE Leave
  BY <1>1, LeavePass
<1>2. CASE Goto("bind") /\ Same
  <2>1. script'.phase = "bind" /\ script'.at = script.at
    BY <1>2, Types, GotoScript DEF Phases
  <2> QED BY <1>2, <2>1, PassedStep, FlowStep, LeftStep DEF PassInv, Same, InMatrix, LogIn
<1> QED BY <1>1, <1>2 DEF WaitReady

LEMMA HeldPass == ASSUME Inv, PassInv, HoldUp \/ AnswerAtLast PROVE PassInv'
BY HeldIs, PassedStep, FlowStep, LeftStep DEF PassInv, Same, Curls, InMatrix, LogIn

LEMMA StartClientPass == ASSUME Inv, PassInv, StartClient PROVE PassInv'
<1>1. CASE Leave
  BY <1>1, LeavePass
<1>2. CASE script' = [script EXCEPT !.phase = "request", !.last = -1] /\ Same
  <2>1. script.phase = "client" /\ script.at = 1 /\ script \in Script
    BY Types DEF StartClient, Inv, ClientInv
  <2>2. script'.phase = "request" /\ script'.at = 1
    BY <1>2, <2>1 DEF Script
  <2> QED BY <1>2, <2>1, <2>2, PassedStep, FlowStep, LeftStep DEF PassInv, Same, InMatrix, LogIn
<1> QED BY <1>1, <1>2 DEF StartClient

\* Binding the disabled provider, and rebinding the other.
LEMMA BindDisabledPass == ASSUME Inv, PassInv, BindDisabled PROVE PassInv'
<1>1. /\ script'.phase = "client" /\ script'.at = script.at /\ clock' = clock
      /\ script.at = 1 /\ passed' = passed /\ inherited' = inherited /\ services \in Services
      /\ fault' \/ Rebind("disabled")
  BY Types, GotoScript DEF BindDisabled, Phases, Inv, Typed, ClientInv
<1>2. BoundFlowsInv'
  <2>1. fault' \/ services'.flow["disabled"] = "browser"
    BY <1>1, RebindIs DEF Providers
  <2> QED BY <1>1, <2>1 DEF BoundFlowsInv, LogIn
<1> QED BY <1>1, <1>2, PassedStep, LeftStep DEF PassInv, InMatrix, LogIn

LEMMA UseFlowPass == ASSUME Inv, PassInv, UseFlowWithoutPlanner PROVE PassInv'
<1>1. /\ script.phase = "rebind" /\ script'.phase = "request" /\ script'.at = script.at
      /\ script.at = 6 /\ clock' = clock /\ passed' = passed /\ inherited' = inherited
      /\ fault' = fault /\ services \in Services /\ Rebind("enabled")
  BY Types, GotoScript, ScenarioAt
     DEF UseFlowWithoutPlanner, Phases, Inv, Typed, ClientInv, scenario
<1>2. services'.flow["enabled"] = "browser" /\ services'.flow["disabled"] = services.flow["disabled"]
  BY <1>1, RebindIs DEF Providers
<1>3. BoundFlowsInv'
  BY <1>1, <1>2 DEF PassInv, BoundFlowsInv, InMatrix, LogIn
<1> QED BY <1>1, <1>3, PassedStep, LeftStep DEF PassInv, InMatrix, LogIn

\* A failure is one.
LEMMA RequestFailsPass == ASSUME Inv, PassInv, RequestFails PROVE PassInv'
<1>1. script'.phase = "end" /\ script'.at = script.at /\ fault'
  BY Types, GotoScript DEF RequestFails, Phases
<1>2. clock' = clock /\ passed' = passed /\ inherited' = inherited
  BY DEF RequestFails
<1>3. BoundFlowsInv'
  BY <1>1 DEF BoundFlowsInv, InMatrix, LogIn
<1> QED BY <1>1, <1>2, <1>3, PassedStep, LeftStep DEF PassInv, InMatrix, LogIn

LEMMA RequestPass == ASSUME Transitions >= 3, Inv, PassInv, Request PROVE PassInv'
<1>1. /\ script.phase = "request" /\ Same /\ script'.at = script.at
      /\ scenario.at \in Providers /\ services \in Services /\ script.at \in 1 .. 6
  BY RequestIs, Types DEF Inv, Typed
<1>2. DiscoveryChecked(scenario)
  <2>1. scenario.rebinds => script.at = 6
    BY <1>1, ScenarioRebinds DEF scenario
  <2>2. script.at = 6 => scenario.at = "enabled"
    BY ScenarioAt DEF scenario
  <2> QED BY <1>1, <2>1, <2>2 DEF DiscoveryChecked, PassInv, BoundFlowsInv
<1>3. /\ script'.phase \in {"result", FirstPage(scenario.at)} /\ script'.left = Transitions
      /\ script'.phase \in {"login", "username", "broken", "result"}
  BY <1>2, RequestIs
<1>4. script'.phase = "broken" => fault
  <2>1. FirstPage(scenario.at) = "broken" => services.flow["disabled"] # "browser"
    BY <1>1 DEF FirstPage, Providers
  <2> QED BY <1>1, <1>3, <2>1 DEF PassInv, BoundFlowsInv, InMatrix
<1>5. EnoughLeft'
  <2>1. InheritedUntil(clock)'
    BY <1>1 DEF Same, PassInv, EnoughLeft, InheritedUntil
  <2>2. Transitions \in Int
    BY NoneIsNoValue
  <2> QED BY <1>3, <2>1, <2>2 DEF EnoughLeft
<1> QED BY <1>1, <1>3, <1>4, <1>5, PassedStep, FlowStep DEF PassInv, Same, InMatrix, LogIn

\* There is a page to answer, and a transition left for it.
LEMMA GiveUpPass == ASSUME Inv, PassInv, GiveUp PROVE PassInv'
<1>1. /\ script'.phase = "end" /\ script'.at = script.at /\ Same
      /\ script.phase \in Forms => script.left = 0
      /\ script.phase \in Forms \cup {"broken"}
  BY Types, GotoScript DEF GiveUp, Phases
<1>2. script.phase = "broken"
  BY <1>1 DEF PassInv, EnoughLeft, Forms
<1>3. fault'
  BY <1>1, <1>2 DEF PassInv, BoundFlowsInv, Same
<1> QED BY <1>1, <1>2, <1>3, PassedStep, FlowStep, LeftStep DEF PassInv, Same, InMatrix, LogIn

LEMMA SubmitFormPass == ASSUME Inv, PassInv, SubmitForm PROVE PassInv'
<1>1. /\ Same /\ script'.at = script.at /\ script'.left = script.left - 1
      /\ \/ script.phase = "username" /\ script'.phase = "password"
         \/ script.phase = "password" /\ script'.phase = "result"
         \/ script.phase = "login" /\ script'.phase = "otp"
  BY SubmitFormIs
<1>2. EnoughLeft'
  <2>1. script.left \in Int
    BY Types, NoneIsNoValue DEF Script
  <2>2. InheritedUntil(clock)'
    BY <1>1 DEF Same, PassInv, EnoughLeft, InheritedUntil
  <2> QED BY <1>1, <2>1, <2>2 DEF PassInv, EnoughLeft
<1> QED BY <1>1, <1>2, PassedStep, FlowStep DEF PassInv, Same, InMatrix, LogIn

\* A second code is later than the first, and so than all that are inherited.
LEMMA CurrentTotpPass == ASSUME Inv, PassInv, CurrentTotp PROVE PassInv'
<1>1. /\ script.phase = "otp" /\ Same /\ script.last \in Int /\ script.last < clock
      /\ script'.phase = "code" /\ script'.at = script.at /\ script'.last = clock
      /\ script'.left = script.left - 1 /\ clock \in Nat /\ script.left \in Int
  BY CurrentTotpIs, Types, NoneIsNoValue DEF Script
<1>2. InheritedUntil(clock)' /\ InheritedUntil(script.last)'
  BY <1>1 DEF Same, PassInv, EnoughLeft, InheritedUntil
<1>3. script'.left >= 1 \/ InheritedUntil(script.last - 1)'
  <2>1. CASE script.left >= 2
    BY <1>1, <2>1
  <2>2. CASE InheritedUntil(script.last)
    <3> SUFFICES ASSUME inherited # None, NEW p \in Providers, NEW c \in inherited.used[p]
                 PROVE  c =< clock - 1
      BY <1>1 DEF InheritedUntil, Same
    <3>1. c =< script.last
      BY <2>2 DEF InheritedUntil
    <3>2. c \in Int
      BY Types DEF Services
    <3> QED BY <1>1, <3>1, <3>2
  <2> QED BY <1>1, <2>1, <2>2 DEF PassInv, EnoughLeft
<1>4. EnoughLeft'
  BY <1>1, <1>2, <1>3 DEF EnoughLeft, InheritedUntil
<1> QED BY <1>1, <1>4, PassedStep, FlowStep DEF PassInv, Same, InMatrix, LogIn

LEMMA TimePass ==
  ASSUME Inv, PassInv, clock' = clock + 1,
         UNCHANGED <<services, script, passed, fault, inherited, rejected>>
  PROVE  PassInv'
<1>1. InheritedUntil(clock)'
  <2> SUFFICES ASSUME inherited # None, NEW p \in Providers, NEW c \in inherited.used[p]
               PROVE  c =< clock + 1
    BY DEF InheritedUntil
  <2>1. c \in Int /\ clock \in Int
    BY Types DEF Services
  <2>2. c =< clock
    BY DEF PassInv, EnoughLeft, InheritedUntil
  <2> QED BY <2>1, <2>2
<1>2. EnoughLeft'
  BY <1>1 DEF PassInv, EnoughLeft, InheritedUntil
<1> QED BY <1>2 DEF PassInv, PassedInv, FailsOnlyOnFault, BoundFlowsInv

LEMMA TickPass == ASSUME Inv, PassInv, Tick PROVE PassInv'
BY TimePass DEF Tick
LEMMA SleepPass == ASSUME Inv, PassInv, Sleep PROVE PassInv'
BY TimePass DEF Sleep

\* Only a first code may be refused.
LEMMA CheckCodePass == ASSUME Inv, PassInv, CheckCode PROVE PassInv'
<1>1. /\ script.phase = "code" /\ UNCHANGED <<clock, passed, fault, inherited>>
      /\ script \in Script /\ script.client = scenario.at /\ script.client \in Providers
      /\ script.code = script.last /\ script.last \in Int /\ services \in Services
      /\ script.code \in Nat
  BY Types DEF CheckCode, Inv, Typed, ClientInv, CodeInv, LogIn
<1>2. CASE script' = SignedIn /\ UseCode
  <2>1. script'.phase = "result" /\ script'.at = script.at
    BY <1>1, <1>2, SignedInIs
  <2>2. services'.flow = services.flow
    BY <1>1, <1>2, UseCodeIs
  <2>3. BoundFlowsInv'
    BY <1>1, <2>1, <2>2 DEF PassInv, BoundFlowsInv, InMatrix, LogIn
  <2> QED BY <1>1, <2>1, <2>3, PassedStep, LeftStep DEF PassInv, InMatrix, LogIn
<1>3. CASE ~Accepts(script.client, script.code) /\ Goto("otp") /\ UNCHANGED services
  <2>1. /\ script'.phase = "otp" /\ script'.at = script.at /\ script'.left = script.left
        /\ script'.last = script.last
    BY <1>1, <1>3, GotoScript DEF Phases
  <2>2. ~InheritedUntil(script.last - 1)
    <3>1. Inherited(script.client, script.code)
      BY <1>1, <1>3, RefusedIsInherited
    <3> QED BY <1>1, <3>1 DEF Inherited, InheritedUntil
  <2>3. script.left >= 1 /\ InheritedUntil(script.last) /\ InheritedUntil(clock)
    BY <1>1, <2>2 DEF PassInv, EnoughLeft
  <2>4. EnoughLeft'
    BY <1>1, <2>1, <2>3 DEF EnoughLeft, InheritedUntil
  <2> QED BY <1>1, <1>3, <2>1, <2>4, PassedStep, FlowStep DEF PassInv, InMatrix, LogIn
<1> QED BY <1>1, <1>2, <1>3 DEF CheckCode

LEMMA ConcludePass == ASSUME Inv, PassInv, Conclude PROVE PassInv'
<1> DEFINE line == <<script.at, script.client, Processed(script.client)>>
<1>1. Checked(scenario, AnswerTo(script.client, scenario.claims).details)
  <2>1. script.phase = "result" /\ script.client = scenario.at
    BY ConcludeIs
  <2>2. script.at = 6 => services.flow["enabled"] = "browser"
    BY <2>1 DEF PassInv, BoundFlowsInv, LogIn
  <2> QED BY <2>1, <2>2, AnswerIsChecked
<1>2. /\ script.phase = "result" /\ UNCHANGED <<clock, services, fault, inherited>>
      /\ script.at \in 1 .. 6 /\ passed' = passed \cup {line}
      /\ \/ script'.phase = "end" /\ script'.at = script.at /\ script.at = 6
         \/ /\ script.at < 6 /\ script'.at = script.at + 1
            /\ script'.phase = IF script'.at = 6 THEN "rebind" ELSE "request"
  BY <1>1, ConcludeIs
<1>3. \A i \in 1 .. 6 : i =< script.at => \E p \in passed' : p[1] = i
  <2>1. line[1] = script.at /\ line \in passed'
    BY <1>2
  <2> HIDE DEF line
  <2> SUFFICES ASSUME NEW i \in 1 .. 6, i =< script.at PROVE \E p \in passed' : p[1] = i
    OBVIOUS
  <2>2. CASE i = script.at
    BY <2>1, <2>2
  <2>3. CASE i < script.at
    BY <1>2, <2>3 DEF PassInv, PassedInv, InMatrix, LogIn
  <2> QED BY <1>2, <2>2, <2>3
<1>4. PassedInv'
  <2>1. ASSUME script'.phase = "end" PROVE {p[1] : p \in passed'} = DOMAIN Scenarios
    <3>1. \A i \in 1 .. 6 : i \in {p[1] : p \in passed'}
      BY <1>2, <1>3, <2>1
    <3>2. \A p \in passed' : p[1] \in DOMAIN Scenarios
      BY ConcludeInv DEF Inv, Typed, TypeOK
    <3> QED BY <3>1, <3>2, ScenarioAt
  <2>2. ASSUME script'.phase \in InMatrix, NEW i \in 1 .. 6, i < script'.at
        PROVE  \E p \in passed' : p[1] = i
    <3>1. i =< script.at
      BY <1>2, <2>2
    <3> QED BY <1>3, <3>1
  <2> QED BY <2>1, <2>2 DEF PassedInv, FailsOnlyOnFault
<1>5. BoundFlowsInv'
  BY <1>2 DEF PassInv, BoundFlowsInv, InMatrix, LogIn
<1>6. EnoughLeft'
  BY <1>2, LeftStep DEF PassInv
<1> QED BY <1>4, <1>5, <1>6 DEF PassInv

LEMMA StutterPass == ASSUME PassInv, UNCHANGED vars PROVE PassInv'
BY DEF vars, PassInv, PassedInv, FailsOnlyOnFault, BoundFlowsInv, EnoughLeft, InheritedUntil

\* The 16 looks of authorize are more than enough: with three, and nothing that failed, no
\* run fails, whatever the runs before it have used, left bound, or left up.
THEOREM PassesUnlessFault == Transitions >= 3 /\ Spec => []FailsOnlyOnFault
<1>1. ASSUME Transitions >= 3, Inv, PassInv, [Next]_vars PROVE PassInv'
  <2>1. CASE Up \/ Wrapper
    BY <1>1, <2>1, UpPass, WaitReadyPass, BindDisabledPass, StartClientPass, DownPass DEF Wrapper
  <2>2. CASE Program
    BY <1>1, <2>2, UseFlowPass, RequestPass, GiveUpPass, SubmitFormPass, CurrentTotpPass,
       SleepPass, CheckCodePass, ConcludePass DEF Program
  <2>3. CASE RequestFails \/ Interrupt \/ Tick
    BY <1>1, <2>3, RequestFailsPass, LeavePass, TickPass DEF Interrupt
  <2>4. CASE HoldUp \/ AnswerAtLast
    BY <1>1, <2>4, HeldPass
  <2>5. CASE Done \/ UNCHANGED vars
    BY <1>1, <2>5, StutterPass DEF Done
  <2> QED BY <1>1, <2>1, <2>2, <2>3, <2>4, <2>5 DEF Next, Go
<1>2. PassInv => FailsOnlyOnFault
  BY DEF PassInv, PassedInv
<1>3. ASSUME Transitions >= 3 PROVE Spec => []FailsOnlyOnFault
  <2>1. Inv /\ PassInv /\ [Next]_vars => PassInv'
    BY <1>1, <1>3
  <2> QED BY <1>2, <2>1, InitPass, Invariance, PTL DEF Spec
<1> QED BY <1>3

-------------------------------------------------------------------------------
(* The steps that are left *)

\* StepsInScenario and StepsLeft, of a script and the time.
InScenarioAt(s, now) ==
  CASE s.phase = "rebind" -> 3 * Transitions + 5
    [] s.phase = "request" -> 3 * Transitions + 4
    [] s.phase = "otp" -> 3 * s.left + (IF now = s.last THEN 3 ELSE 2)
    [] s.phase = "code" -> 3 * s.left + 4
    [] s.phase = "result" -> 1
    [] OTHER -> 3 * s.left + 3
StepsAt(s, now) ==
  CASE s.phase = "idle" -> 0
    [] s.phase = "end" -> 1
    [] s.phase = "client" -> AllSteps - 2
    [] s.phase = "bind" -> AllSteps - 1
    [] s.phase = "wait" -> AllSteps
    [] OTHER -> (6 - s.at) * (3 * Transitions + 6) + InScenarioAt(s, now) + 1

\* They are the steps left before a step and after it.
LEMMA StepsLeftIs ==
  StepsLeft = StepsAt(script, clock) /\ StepsLeft' = StepsAt(script', clock')
BY DEF StepsLeft, StepsInScenario, StepsAt, InScenarioAt, AllSteps

\* What the scenarios after the present one take, and all that a scenario may take.
Later(at) == (6 - at) * (3 * Transitions + 6)

LEMMA LaterIs ==
  /\ Transitions \in Nat /\ AllSteps = 18 * Transitions + 40
  /\ \A at \in 1 .. 6 : Later(at) \in Nat /\ Later(at) =< 15 * Transitions + 30
  /\ \A at \in 1 .. 5 : Later(at) = Later(at + 1) + 3 * Transitions + 6
<1> DEFINE K == 3 * Transitions + 6
<1>1. Transitions \in Nat /\ K \in Nat
  BY NoneIsNoValue
<1>2. /\ Later(1) = 5 * K /\ Later(2) = 4 * K /\ Later(3) = 3 * K
      /\ Later(4) = 2 * K /\ Later(5) = K /\ Later(6) = 0
  <2> HIDE DEF K
  <2>1. /\ (6 - 1) * K = 5 * K /\ (6 - 2) * K = 4 * K /\ (6 - 3) * K = 3 * K
        /\ (6 - 4) * K = 2 * K /\ (6 - 5) * K = K /\ (6 - 6) * K = 0
    BY <1>1
  <2> QED BY <2>1 DEF Later, K
<1>3. AllSteps = 18 * Transitions + 40
  BY <1>1 DEF AllSteps
<1>4. \A at \in 1 .. 6 : at = 1 \/ at = 2 \/ at = 3 \/ at = 4 \/ at = 5 \/ at = 6
  OBVIOUS
<1>5. ASSUME NEW at \in 1 .. 6 PROVE Later(at) \in Nat /\ Later(at) =< 15 * Transitions + 30
  BY <1>1, <1>2, <1>4
<1>6. ASSUME NEW at \in 1 .. 5 PROVE Later(at) = Later(at + 1) + K
  <2>1. at = 1 \/ at = 2 \/ at = 3 \/ at = 4 \/ at = 5
    OBVIOUS
  <2> QED BY <1>1, <1>2, <2>1
<1> QED BY <1>1, <1>3, <1>5, <1>6

\* Within the scenarios the steps left are those of this one and of the later ones.
LEMMA StepsInMatrix ==
  ASSUME NEW s \in Script, NEW now \in Nat, s.phase \in InMatrix
  PROVE  /\ s.at \in 1 .. 6 /\ s.left \in 0 .. Transitions
         /\ StepsAt(s, now) = Later(s.at) + InScenarioAt(s, now) + 1
         /\ InScenarioAt(s, now) \in 1 .. 3 * Transitions + 5
<1>1. s.at \in 1 .. 6 /\ s.left \in 0 .. Transitions /\ Transitions \in Nat
  BY ScenariosAre, NoneIsNoValue DEF Script
<1>2. StepsAt(s, now) = Later(s.at) + InScenarioAt(s, now) + 1
  BY DEF StepsAt, Later, InMatrix, LogIn
<1>3. s.phase = "code" => 3 * s.left + 4 \in 1 .. 3 * Transitions + 5
  BY <1>1
<1>4. InScenarioAt(s, now) \in 1 .. 3 * Transitions + 5
  BY <1>1, <1>3 DEF InScenarioAt
<1> QED BY <1>1, <1>2, <1>4

\* There are at least as many steps left as it takes to end, and AllSteps at most.
LEMMA StepsBound ==
  ASSUME NEW s \in Script, NEW now \in Nat
  PROVE  /\ StepsAt(s, now) \in 0 .. AllSteps
         /\ s.phase # "idle" => StepsAt(s, now) >= 1
         /\ s.phase \in InMatrix => StepsAt(s, now) >= 2 /\ StepsAt(s, now) =< AllSteps - 4
<1>1. Transitions \in Nat /\ AllSteps = 18 * Transitions + 40
  BY LaterIs
<1>2. CASE s.phase \in InMatrix
  <2>1. /\ s.at \in 1 .. 6
        /\ StepsAt(s, now) = Later(s.at) + InScenarioAt(s, now) + 1
        /\ InScenarioAt(s, now) \in 1 .. 3 * Transitions + 5
    BY <1>2, StepsInMatrix
  <2>2. Later(s.at) \in Nat /\ Later(s.at) =< 15 * Transitions + 30
    BY <2>1, LaterIs
  <2> QED BY <1>1, <2>1, <2>2
<1>3. CASE s.phase \notin InMatrix
  <2>1. s.phase \in {"idle", "end", "client", "bind", "wait"}
    BY <1>3 DEF Script, Phases, InMatrix, LogIn
  <2>2. StepsAt(s, now) \in {0, 1, AllSteps - 2, AllSteps - 1, AllSteps}
        /\ (s.phase # "idle" => StepsAt(s, now) # 0 \/ AllSteps \in {0, 1, 2})
    BY <2>1 DEF StepsAt
  <2> QED BY <1>1, <1>3, <2>2
<1> QED BY <1>2, <1>3

\* To the end, or out.
LEMMA EndNear ==
  ASSUME Inv, script.phase \notin {"idle", "end"}, script'.phase \in {"idle", "end"}
  PROVE  StepsLeft' < StepsLeft
<1>1. script \in Script /\ clock \in Nat /\ Transitions \in Nat /\ AllSteps = 18 * Transitions + 40
  BY Types, LaterIs
<1>2. StepsAt(script', clock') \in {0, 1}
  BY DEF StepsAt
<1>3. StepsAt(script, clock) \in Int /\ StepsAt(script, clock) >= 2
  <2>1. CASE script.phase \in InMatrix
    BY <1>1, <2>1, StepsBound
  <2>2. CASE script.phase \notin InMatrix
    <3>1. script.phase \in {"client", "bind", "wait"}
      BY <1>1, <2>2 DEF Script, Phases, InMatrix, LogIn
    <3> QED BY <1>1, <3>1 DEF StepsAt
  <2> QED BY <2>1, <2>2
<1>4. \A a \in {0, 1}, b \in Int : b >= 2 => a < b
  OBVIOUS
<1> QED BY <1>2, <1>3, <1>4, StepsLeftIs

\* Out, from anywhere.
LEMMA LeaveNear ==
  ASSUME Inv, Stop, script.phase # "idle"
  PROVE  StepsLeft' < StepsLeft
<1>1. script'.phase = "idle"
  BY IdleIs DEF Stop
<1>2. CASE script.phase = "end"
  BY <1>1, <1>2, StepsLeftIs DEF StepsAt
<1>3. CASE script.phase # "end"
  BY <1>1, <1>3, EndNear
<1> QED BY <1>2, <1>3

\* Within a scenario.
LEMMA ScenarioNear ==
  ASSUME Inv, script.phase \in InMatrix, script' \in Script, clock' \in Nat,
         script'.phase \in InMatrix, script'.at = script.at,
         InScenarioAt(script', clock') < InScenarioAt(script, clock)
  PROVE  StepsLeft' < StepsLeft
<1>1. script \in Script /\ clock \in Nat
  BY Types
<1> DEFINE s1 == InScenarioAt(script, clock)
           s2 == InScenarioAt(script', clock')
<1>2. StepsLeft = Later(script.at) + s1 + 1 /\ s1 \in 1 .. 3 * Transitions + 5 /\ script.at \in 1 .. 6
  BY <1>1, StepsInMatrix, StepsLeftIs
<1>3. StepsLeft' = Later(script.at) + s2 + 1 /\ s2 \in 1 .. 3 * Transitions + 5
  BY StepsInMatrix, StepsLeftIs
<1>4. Later(script.at) \in Nat /\ s1 \in Nat /\ s2 \in Nat /\ s2 < s1
  BY <1>2, <1>3, LaterIs
<1> HIDE DEF s1, s2
<1> QED BY <1>2, <1>3, <1>4

\* The wrapper's steps before the program: each phase has one step less.
LEMMA WrapperNear == ASSUME Inv, Wrapper PROVE StepsLeft' < StepsLeft
<1>1. script \in Script /\ clock \in Nat /\ AllSteps \in Nat /\ AllSteps = 18 * Transitions + 40
  BY Types, LaterIs
<1>2. CASE WaitReady
  <2>1. script.phase = "wait"
    BY <1>2 DEF WaitReady
  <2>2. CASE Leave
    BY <2>1, <2>2, LeaveNear DEF Leave
  <2>3. CASE Goto("bind")
    <3>1. script'.phase = "bind"
      BY <1>1, <2>3, GotoScript DEF Phases
    <3>2. StepsAt(script, clock) = AllSteps /\ StepsAt(script', clock') = AllSteps - 1
      BY <2>1, <3>1 DEF StepsAt
    <3> QED BY <1>1, <3>2, StepsLeftIs
  <2> QED BY <1>2, <2>2, <2>3 DEF WaitReady
<1>3. CASE BindDisabled
  <2>1. script.phase = "bind" /\ script'.phase = "client"
    BY <1>1, <1>3, GotoScript DEF BindDisabled, Phases
  <2>2. StepsAt(script, clock) = AllSteps - 1 /\ StepsAt(script', clock') = AllSteps - 2
    BY <2>1 DEF StepsAt
  <2> QED BY <1>1, <2>2, StepsLeftIs
<1>4. CASE StartClient
  <2>1. script.phase = "client"
    BY <1>4 DEF StartClient
  <2>2. CASE Leave
    BY <2>1, <2>2, LeaveNear DEF Leave
  <2>3. CASE script' = [script EXCEPT !.phase = "request", !.last = -1] /\ Same
    <3>1. script' \in Script /\ script'.phase = "request" /\ clock' \in Nat
      <4>1. -1 \in Int \cup {None}
        OBVIOUS
      <4> QED BY <1>1, <2>3, <4>1 DEF Script, Phases, Same
    <3>2. StepsAt(script', clock') \in Int /\ StepsAt(script', clock') =< AllSteps - 4
      BY <1>1, <3>1, StepsBound DEF InMatrix
    <3>3. StepsAt(script, clock) = AllSteps - 2
      BY <2>1 DEF StepsAt
    <3> QED BY <1>1, <3>2, <3>3, StepsLeftIs
  <2> QED BY <1>4, <2>2, <2>3 DEF StartClient
<1>5. CASE Down
  BY <1>5, LeaveNear DEF Down
<1> QED BY <1>2, <1>3, <1>4, <1>5 DEF Wrapper

\* A request, and what comes before it and after.
LEMMA RequestNear ==
  ASSUME Inv, UseFlowWithoutPlanner \/ Request \/ GiveUp PROVE StepsLeft' < StepsLeft
<1>1. script \in Script /\ clock \in Nat /\ Transitions \in Nat
  BY Types, LaterIs
<1>2. CASE UseFlowWithoutPlanner
  <2>1. /\ script.phase = "rebind" /\ script' \in Script /\ script'.phase = "request"
        /\ script'.at = script.at /\ clock' = clock
    BY <1>1, <1>2, GotoScript DEF UseFlowWithoutPlanner, Phases
  <2>2. /\ InScenarioAt(script, clock) = 3 * Transitions + 5
        /\ InScenarioAt(script', clock') = 3 * Transitions + 4
    BY <2>1 DEF InScenarioAt
  <2>3. InScenarioAt(script', clock') < InScenarioAt(script, clock)
    BY <1>1, <2>2
  <2> QED BY <1>1, <2>1, <2>3, ScenarioNear DEF InMatrix
<1>3. CASE Request
  <2>1. /\ script.phase = "request" /\ Same /\ script' \in Script /\ script'.at = script.at
        /\ \/ script'.phase = "end"
           \/ /\ script'.phase \in {"login", "username", "broken", "result"}
              /\ script'.left = Transitions
    BY <1>3, RequestIs
  <2>2. CASE script'.phase = "end"
    BY <2>1, <2>2, EndNear
  <2>3. CASE script'.phase # "end"
    <3>1. clock' = clock
      BY <2>1 DEF Same
    <3>2. /\ InScenarioAt(script, clock) = 3 * Transitions + 4
          /\ InScenarioAt(script', clock') \in {1, 3 * Transitions + 3}
      BY <2>1, <2>3 DEF InScenarioAt
    <3>3. InScenarioAt(script', clock') < InScenarioAt(script, clock)
      BY <1>1, <3>2
    <3> QED BY <1>1, <2>1, <2>3, <3>1, <3>3, ScenarioNear DEF InMatrix, LogIn
  <2> QED BY <2>2, <2>3
<1>4. CASE GiveUp
  <2>1. script.phase \in InMatrix /\ script'.phase = "end"
    BY <1>1, <1>4, GotoScript DEF GiveUp, Phases, Forms, InMatrix, LogIn
  <2> QED BY <2>1, EndNear DEF InMatrix, LogIn
<1> QED BY <1>2, <1>3, <1>4

\* A form takes one of the looks that are left.
LEMMA SubmitFormNear == ASSUME Inv, SubmitForm PROVE StepsLeft' < StepsLeft
<1> DEFINE n == script.left
           s1 == InScenarioAt(script, clock)
           s2 == InScenarioAt(script', clock')
<1>1. /\ script \in Script /\ script' \in Script /\ clock' = clock /\ clock \in Nat
      /\ script'.at = script.at /\ script'.left = n - 1 /\ n \in Nat /\ n > 0
      /\ script.phase \in {"username", "password", "login"}
      /\ script'.phase \in {"password", "result", "otp"}
  BY SubmitFormIs, Types, NoneIsNoValue DEF SubmitForm, Same, Script
<1>2. s1 = 3 * n + 3
  BY <1>1 DEF InScenarioAt
<1>3. s2 \in {3 * (n - 1) + 3, 3 * (n - 1) + 2, 1}
  BY <1>1 DEF InScenarioAt
<1>4. s2 < s1
  <2> HIDE DEF n, s1, s2
  <2> QED BY <1>1, <1>2, <1>3
<1> QED BY <1>1, <1>4, ScenarioNear DEF InMatrix, LogIn

\* A code takes a look; before it the program sleeps once at most, since the clock has
\* then passed the last counter.
LEMMA TotpNear == ASSUME Inv, CurrentTotp \/ Sleep PROVE StepsLeft' < StepsLeft
<1> DEFINE n == script.left
           s1 == InScenarioAt(script, clock)
           s2 == InScenarioAt(script', clock')
<1>1. /\ script \in Script /\ clock \in Nat /\ script.phase = "otp" /\ n \in Nat /\ n > 0
      /\ script.last \in Int /\ script.last =< clock
  BY Types, NoneIsNoValue
     DEF CurrentTotp, Sleep, Script, Inv, Typed, TypeOK, CodeInv, InMatrix, LogIn
<1>2. CASE CurrentTotp
  <2>1. /\ script' \in Script /\ script'.phase = "code" /\ script'.at = script.at
        /\ script'.left = n - 1 /\ clock' = clock
    BY <1>2, CurrentTotpIs DEF Same
  <2>2. s1 \in {3 * n + 2, 3 * n + 3} /\ s2 = 3 * (n - 1) + 4
    BY <1>1, <2>1 DEF InScenarioAt
  <2>3. s2 < s1
    <3> HIDE DEF n, s1, s2
    <3> QED BY <1>1, <2>2
  <2> QED BY <1>1, <2>1, <2>3, ScenarioNear DEF InMatrix, LogIn
<1>3. CASE Sleep
  <2>1. script' = script /\ clock' = clock + 1 /\ clock = script.last
    BY <1>3 DEF Sleep, UnusedCounter, Counter
  <2>2. clock' # script'.last /\ clock' \in Nat
    BY <1>1, <2>1
  <2>3. s1 = 3 * n + 3 /\ s2 = 3 * n + 2
    BY <1>1, <2>1, <2>2 DEF InScenarioAt
  <2>4. s2 < s1
    <3> HIDE DEF n, s1, s2
    <3> QED BY <1>1, <2>3
  <2> QED BY <1>1, <2>1, <2>2, <2>4, ScenarioNear DEF InMatrix, LogIn
<1> QED BY <1>2, <1>3

\* A code is accepted, or another one is asked for.
LEMMA CheckCodeNear == ASSUME Inv, CheckCode PROVE StepsLeft' < StepsLeft
<1> DEFINE n == script.left
           s1 == InScenarioAt(script, clock)
           s2 == InScenarioAt(script', clock')
<1>1. /\ script \in Script /\ clock \in Nat /\ clock' = clock /\ script.phase = "code"
      /\ n \in Nat /\ script.client = scenario.at
  BY Types, NoneIsNoValue DEF CheckCode, Script, Inv, ClientInv, LogIn
<1>2. /\ script' \in Script /\ script'.at = script.at /\ script'.left = n
      /\ script'.phase \in {"result", "otp"}
  <2>1. CASE script' = SignedIn
    BY <1>1, <2>1, SignedInIs
  <2>2. CASE Goto("otp")
    BY <1>1, <2>2, GotoScript DEF Phases
  <2> QED BY <2>1, <2>2 DEF CheckCode
<1>3. s1 = 3 * n + 4 /\ s2 \in {1, 3 * n + 2, 3 * n + 3}
  BY <1>1, <1>2 DEF InScenarioAt
<1>4. s2 < s1
  <2> HIDE DEF n, s1, s2
  <2> QED BY <1>1, <1>3
<1> QED BY <1>1, <1>2, <1>4, ScenarioNear DEF InMatrix, LogIn

\* The next scenario has the steps that the present one left for it.
LEMMA ConcludeNear == ASSUME Inv, Conclude PROVE StepsLeft' < StepsLeft
<1>1. script \in Script /\ clock \in Nat /\ clock' = clock /\ script.phase = "result"
  BY Types DEF Conclude
<1>2. /\ script' \in Script /\ script.at \in 1 .. 6
      /\ \/ script'.phase = "end"
         \/ /\ script.at < 6 /\ script'.at = script.at + 1
            /\ script'.phase \in {"rebind", "request"}
  BY ConcludeIs
<1>3. CASE script'.phase = "end"
  BY <1>1, <1>3, EndNear
<1>4. CASE script'.phase # "end"
  <2> DEFINE s2 == InScenarioAt(script', clock')
             l1 == Later(script.at)
             l2 == Later(script'.at)
  <2>1. /\ script.at \in 1 .. 5 /\ script'.at = script.at + 1
        /\ script'.phase \in InMatrix /\ script.phase \in InMatrix
    BY <1>1, <1>2, <1>4 DEF InMatrix, LogIn
  <2>2. StepsLeft = l1 + 2
    <3>1. InScenarioAt(script, clock) = 1
      BY <1>1 DEF InScenarioAt
    <3>2. StepsLeft = l1 + 1 + 1 /\ l1 \in Nat
      BY <1>1, <1>2, <2>1, <3>1, StepsInMatrix, StepsLeftIs, LaterIs
    <3> HIDE DEF l1
    <3> QED BY <3>2
  <2>3. StepsLeft' = l2 + s2 + 1 /\ s2 \in 1 .. 3 * Transitions + 5
    BY <1>1, <1>2, <2>1, StepsInMatrix, StepsLeftIs
  <2>4. l1 = l2 + 3 * Transitions + 6 /\ l2 \in Nat /\ Transitions \in Nat
    <3>1. script'.at \in 1 .. 6
      BY <2>1
    <3> QED BY <2>1, <3>1, LaterIs
  <2> HIDE DEF l1, l2, s2
  <2> QED BY <2>2, <2>3, <2>4
<1> QED BY <1>3, <1>4

\* Every step of the script.
LEMMA GoNear == ASSUME Inv, Go PROVE StepsLeft' < StepsLeft
<1>1. CASE Wrapper
  BY <1>1, WrapperNear
<1>2. CASE Program
  BY <1>2, RequestNear, SubmitFormNear, TotpNear, CheckCodeNear, ConcludeNear DEF Program
<1> QED BY <1>1, <1>2 DEF Go

\* Time passes: before a code it can only spare the program its sleep.
LEMMA TickNear ==
  ASSUME Inv, Tick PROVE StepsLeft' =< StepsLeft
<1>1. /\ script \in Script /\ clock \in Nat /\ script' = script /\ clock' = clock + 1
      /\ script.last \in -1 .. clock \cup {None}
  BY Types DEF Tick, Inv, Typed, TypeOK
<1>2. StepsAt(script, clock) \in Int
  BY <1>1, StepsBound, LaterIs
<1>3. CASE script.phase # "otp"
  <2>1. StepsAt(script', clock') = StepsAt(script, clock)
    BY <1>1, <1>3 DEF StepsAt, InScenarioAt
  <2> QED BY <1>2, <2>1, StepsLeftIs
<1>4. CASE script.phase = "otp"
  <2> DEFINE n == script.left
             l == Later(script.at)
             s1 == InScenarioAt(script, clock)
             s2 == InScenarioAt(script', clock')
  <2>1. clock' # script.last /\ clock' \in Nat
    BY <1>1, NoneIsNoValue
  <2>2. s1 \in {3 * n + 2, 3 * n + 3} /\ s2 = 3 * n + 2
    BY <1>1, <1>4, <2>1 DEF InScenarioAt
  <2>3. StepsLeft = l + s1 + 1 /\ StepsLeft' = l + s2 + 1 /\ n \in Nat /\ script.at \in 1 .. 6
    BY <1>1, <1>4, <2>1, StepsInMatrix, StepsLeftIs DEF InMatrix, LogIn
  <2>4. l \in Nat
    BY <2>3, LaterIs
  <2> HIDE DEF n, l, s1, s2
  <2> QED BY <2>2, <2>3, <2>4
<1> QED BY <1>3, <1>4

\* No other step puts the end off.
LEMMA NothingPutsOff ==
  ASSUME Inv, [Next]_vars, script.phase # "idle" PROVE StepsLeft' =< StepsLeft
<1>1. script \in Script /\ clock \in Nat
  BY Types
<1>2. StepsLeft \in Int
  BY <1>1, StepsBound, StepsLeftIs, LaterIs
<1>3. \A b \in Int : StepsLeft' < b => StepsLeft' =< b
  <2>1. StepsLeft' \in Int
    <3>1. script' \in Script /\ clock' \in Nat
      <4>1. Inv'
        BY NextInv
      <4> QED BY <4>1 DEF Inv, Typed, TypeOK
    <3> QED BY <3>1, StepsBound, StepsLeftIs, LaterIs
  <2> QED BY <2>1
<1>4. CASE Go
  BY <1>2, <1>3, <1>4, GoNear
<1>5. CASE RequestFails
  <2>1. script.phase \in Asking /\ script'.phase = "end"
    BY <1>1, <1>5, GotoScript DEF RequestFails, Phases
  <2> QED BY <1>2, <1>3, <2>1, EndNear DEF Asking
<1>6. CASE Interrupt
  BY <1>2, <1>3, <1>6, LeaveNear DEF Interrupt, Leave
<1>7. CASE Tick
  BY <1>7, TickNear
<1>8. CASE Up \/ Done
  BY <1>8 DEF Up, Done
<1>9. CASE UNCHANGED vars
  <2>1. StepsLeft' = StepsLeft
    BY <1>9, StepsLeftIs DEF vars
  <2> QED BY <1>2, <2>1
<1>10. CASE HoldUp \/ AnswerAtLast
  <2>1. StepsAt(script', clock') = StepsAt(script, clock)
    BY <1>10, HeldIs DEF StepsAt, Curls
  <2> QED BY <1>2, <2>1, StepsLeftIs
<1> QED BY <1>4, <1>5, <1>6, <1>7, <1>8, <1>9, <1>10 DEF Next

\* wait_url, authorize and current_totp: no loop goes on for ever.  Every step of the
\* script brings its end nearer, nothing puts it off, and AllSteps are enough for a run,
\* whatever codes, flows and services it meets and however time runs.  It counts steps:
\* how long a single curl takes, or whether it ends, is another matter (MatrixEnds).
THEOREM RunsAreBounded == Spec => [](StepsLeft \in 0 .. AllSteps) /\ StepsRunOut
<1>1. Inv => StepsLeft \in 0 .. AllSteps
  BY Types, StepsBound, StepsLeftIs
<1>2. Inv /\ [Next]_vars => [/\ Go => StepsLeft' < StepsLeft
                             /\ script.phase # "idle" => StepsLeft' <= StepsLeft]_vars
  BY GoNear, NothingPutsOff
<1> QED BY <1>1, <1>2, Invariance, PTL DEF Spec, StepsRunOut

===============================================================================
