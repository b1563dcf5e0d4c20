-------------------------- MODULE CompatibilityMatrix --------------------------
(***************************************************************************)
(* evaluation/compatibility: run-compatibility-matrix.sh brings up two     *)
(* providers, one with OIDC4AC and one without, and has                    *)
(* oidc4ac-compatibility-matrix.py log in at them with the functions of    *)
(* e2e/http/run.py.  Keycloak and its one-time codes are external.         *)
(*                                                                         *)
(* The program is sequential; what makes it hard is what it shares: the    *)
(* runner's globals, the sessions handed from one scenario to another, the *)
(* realm it rebinds, codes that are accepted once, and services that       *)
(* survive a run that was stopped.                                         *)
(***************************************************************************)
EXTENDS Integers, Sequences, SequencesExt

CONSTANTS
  None,
  Transitions,  \* pages authorize looks at: 16, less the redirects it follows
  MaxRuns,      \* bound: starts of the wrapper
  MaxTime       \* bound: the clock, when nothing waits for it

VARIABLES
  clock,        \* int(time.time()) // 30
  services,     \* None, or the flow of each provider's realm and the codes it took
  script,       \* the wrapper and the Python program it runs
  passed,       \* the scenarios that passed, and how each was answered
  runs,
  fault,        \* history: something this run asked for failed
  inherited,    \* history: the services as a run left them that was stopped, or None
  rejected      \* history: the codes of this run that were refused, and where

vars == <<clock, services, script, passed, runs, fault, inherited, rejected>>

Providers == {"enabled", "disabled"}
Flows == {"planner", "browser"}
Methods == {"pwd", "otp", "pop"}
Services == [flow : [Providers -> Flows], used : [Providers -> SUBSET Nat]]

ASSUME MatrixAssumption ==
  /\ Transitions \in Nat
  /\ None \notin Int /\ None \notin Providers /\ None \notin Methods
  /\ None \notin Services /\ None \notin Seq(Methods)

-------------------------------------------------------------------------------
(* main: the scenarios *)

\* Requests without claims, and with an essential method.
Scenario(at, configured, claims, session, prompt, rebinds) ==
  [at |-> at, configured |-> configured, claims |-> claims,
   session |-> session, prompt |-> prompt, rebinds |-> rebinds]
OrdinarySuccess(at, session, prompt) == Scenario(at, TRUE, None, session, prompt, FALSE)

\* Sessions are numbered; the fallback and the direct request use the first one's, and
\* have a PASS line in common.
Scenarios ==
  << OrdinarySuccess("disabled", 1, TRUE),                \* legacy RP / legacy OP
     OrdinarySuccess("enabled", 2, TRUE),                 \* legacy RP / OIDC4AC OP
     OrdinarySuccess("disabled", 1, FALSE),               \* OIDC4AC RP / legacy OP fallback
     Scenario("disabled", FALSE, "pwd", 1, FALSE, FALSE), \* OIDC4AC RP / legacy OP
     Scenario("enabled", TRUE, "pwd", 3, TRUE, FALSE),    \* OIDC4AC RP / OIDC4AC OP
     Scenario("enabled", TRUE, "pop", 4, TRUE, TRUE) >>   \* ... / informational-only OP

\* configure: run.CLIENT, which authorize uses, whatever endpoint main has in mind.
ConfigureOnce(client, endpoint) == IF client = None THEN endpoint ELSE client
Configure(client, endpoint) == endpoint

\* The amr_details of an answer: None, or the methods in the order they were executed.
Checked(scenario, details) ==
  CASE scenario.claims = None \/ scenario.at = "disabled" -> details = None
    [] scenario.rebinds -> details # None /\ Contains(details, "pwd") /\ ~Contains(details, "pop")
    [] OTHER -> details # None /\ details[1] = "pwd"

\* discovery: amr_details is advertised by the one provider and not by the other,
\* always; the informational-only one says that it doesn't process requests.
DiscoveryChecked(scenario) ==
  scenario.rebinds => services.flow[scenario.at] = "browser"

-------------------------------------------------------------------------------
(* Keycloak: the flows of the realm *)

FirstPage(provider) ==
  CASE services.flow[provider] = "browser" -> "login"
    [] provider = "enabled" -> "username"
    [] OTHER -> "broken"          \* a planner that this server does not have

PageAfter(page) == IF page = "username" THEN "password" ELSE "otp"
Processed(provider) == provider = "enabled" /\ services.flow[provider] = "planner"

\* The planner executes the method asked for; the built-in flow both factors of the
\* account, in their order, whatever is asked for.
AnswerTo(provider, claims) ==
  [provider |-> provider, processed |-> Processed(provider),
   details |-> IF provider = "disabled" \/ claims = None THEN None
               ELSE IF Processed(provider) THEN <<claims>> ELSE <<"pwd", "otp">>]

Accepts(provider, code) == code \notin services.used[provider] /\ clock - code \in {0, 1}

-------------------------------------------------------------------------------
(* The program's position *)

scenario == Scenarios[script.at]
Goto(phase) == script' = [script EXCEPT !.phase = phase]
Same == UNCHANGED <<clock, services, passed, runs, fault, inherited, rejected>>
Idle == [phase |-> "idle", healthy |-> TRUE, blocked |-> FALSE, at |-> 1, client |-> None, code |-> None,
         last |-> None, left |-> 0, signed |-> {}]

Phases == {"idle", "wait", "bind", "client", "rebind", "request", "broken",
           "username", "password", "login", "otp", "code", "result", "end"}
Script == [phase : Phases, healthy : BOOLEAN,
           blocked : BOOLEAN,               \* a curl of the wrapper waits for its answer
           at : DOMAIN Scenarios,
           client : Providers \cup {None}, code : Nat \cup {None},
           last : Int \cup {None},          \* LAST_TOTP_COUNTER
           left : 0 .. Transitions, signed : SUBSET (Providers \X (1 .. 4))]

TypeOK ==
  /\ services # None => /\ services \in Services
                        /\ \A p \in Providers : services.used[p] \subseteq 0 .. clock
  /\ script \in Script
  /\ script.last \in -1 .. clock \cup {None}
  /\ passed \subseteq (DOMAIN Scenarios) \X Providers \X BOOLEAN
  /\ rejected \subseteq Providers \X (0 .. clock)

Init ==
  /\ clock = 0 /\ services = None /\ script = Idle /\ passed = {} /\ runs = 0
  /\ fault = FALSE /\ inherited = None /\ rejected = {}

-------------------------------------------------------------------------------
(* run-compatibility-matrix.sh *)

Fresh == [flow |-> [p \in Providers |-> "planner"], used |-> [p \in Providers |-> {}]]

\* What is said of a run is forgotten with it.
Stop == script' = Idle /\ passed' = {} /\ fault' = FALSE /\ rejected' = {}

\* up: services that are there already are used as they are.
Up ==
  /\ script.phase = "idle" /\ runs < MaxRuns /\ runs' = runs + 1
  /\ services' = IF services = None THEN Fresh ELSE services
  /\ \E ready \in BOOLEAN : script' = [Idle EXCEPT !.phase = "wait", !.healthy = ready]
  /\ UNCHANGED <<clock, passed, fault, inherited, rejected>>

\* An early exit: nothing is taken down.
Leave == Stop /\ inherited' = services /\ UNCHANGED <<clock, services, runs>>

\* curl has no time limit: any one of the wrapper's is held up by a service that takes
\* the connection and does not answer, for a while or for ever.  What such a request
\* has done is seen when it is over.
Curls == {"wait", "bind", "client"}
Held == script.phase \in Curls /\ script.blocked
HoldUp ==
  /\ script.phase \in Curls /\ ~script.blocked
  /\ script' = [script EXCEPT !.blocked = TRUE] /\ Same
AnswerAtLast ==
  /\ Held
  /\ script' = [script EXCEPT !.blocked = FALSE] /\ Same

\* wait_url: until the providers answer, or 180 times.
WaitEndlessly ==
  /\ script.phase = "wait" /\ ~script.blocked
  /\ script.healthy /\ Goto("bind") /\ Same
WaitReady ==
  /\ script.phase = "wait" /\ ~script.blocked
  /\ IF script.healthy THEN Goto("bind") /\ Same ELSE Leave

Rebind(provider) == services' = [services EXCEPT !.flow[provider] = "browser"]

\* Nothing looks at the result of the curls: the program starts anyway.
BindDisabled ==
  /\ script.phase = "bind" /\ ~script.blocked /\ Goto("client")
  /\ \/ Rebind("disabled") /\ UNCHANGED fault
     \/ fault' = TRUE /\ UNCHANGED services
  /\ UNCHANGED <<clock, passed, runs, inherited, rejected>>

\* The second client, and LAST_TOTP_COUNTER as main sets it.
StartClient ==
  /\ script.phase = "client" /\ ~script.blocked
  /\ \/ script' = [script EXCEPT !.phase = "request", !.last = -1] /\ Same
     \/ Leave

\* rm and down, when the program has ended, well or not.
LeaveUp == UNCHANGED services
RemoveAll == services' = None
Down ==
  /\ script.phase = "end" /\ Stop
  /\ RemoveAll /\ inherited' = None
  /\ UNCHANGED <<clock, runs>>

Interrupt == script.phase # "idle" /\ Leave

-------------------------------------------------------------------------------
(* oidc4ac-compatibility-matrix.py and authorize *)

Asking == {"rebind", "request", "username", "password", "login", "code"}

UseCode == services' = [services EXCEPT !.used[script.client] = @ \cup {script.code}]

\* A request that fails, or is answered after more than 15 seconds, ends the program;
\* the provider may have done what it was asked for.
RequestFails ==
  /\ script.phase \in Asking /\ Goto("end") /\ fault' = TRUE
  /\ \/ UNCHANGED services
     \/ script.phase = "rebind" /\ Rebind(scenario.at)
     \/ script.phase = "code" /\ Accepts(script.client, script.code) /\ UseCode
  /\ UNCHANGED <<clock, passed, runs, inherited, rejected>>

UseFlowWithoutPlanner ==
  /\ script.phase = "rebind" /\ Rebind(scenario.at) /\ Goto("request")
  /\ UNCHANGED <<clock, passed, runs, fault, inherited, rejected>>

\* discovery, configure, and authorize as far as the provider's answer to /login.
\* A check that fails ends the program.
Request ==
  LET client == IF scenario.configured THEN Configure(script.client, scenario.at)
                                       ELSE script.client
      sso == ~scenario.prompt /\ <<client, scenario.session>> \in script.signed
  IN  /\ script.phase = "request"
      /\ IF DiscoveryChecked(scenario)
           THEN script' = [script EXCEPT !.client = client, !.left = Transitions,
                             !.phase = IF sso THEN "result" ELSE FirstPage(client)]
           ELSE Goto("end")
      /\ Same

\* The 16 looks at a response are used up, or the page is not one of the lab's.
Forms == {"username", "password", "login", "otp"}
GiveUp ==
  /\ script.phase \in Forms \cup {"broken"}
  /\ script.phase \in Forms => script.left = 0
  /\ Goto("end") /\ Same

SignedIn ==
  [script EXCEPT !.phase = "result",
                 !.signed = @ \cup {<<script.client, scenario.session>>}]

\* A response that is looked at is one of the 16.
Uncounted == script.left
Looked == script.left - 1

\* A form with the username, the password or both; the planner is content then.
SubmitForm ==
  /\ script.phase \in Forms \ {"otp"} /\ script.left > 0
  /\ script' = [(IF script.phase = "password" THEN SignedIn
                 ELSE [script EXCEPT !.phase = PageAfter(script.phase)])
                EXCEPT !.left = Looked]
  /\ Same

\* current_totp: a counter is used once; the program sleeps until there is another.
RoundedUp == clock + 1
Counter == clock
AnyCounter == TRUE
UnusedCounter == Counter # script.last
CurrentTotp ==
  /\ script.phase = "otp" /\ script.left > 0 /\ UnusedCounter
  /\ script' = [script EXCEPT !.phase = "code", !.last = Counter, !.code = Counter,
                              !.left = Looked]
  /\ Same
Sleep ==
  /\ script.phase = "otp" /\ script.left > 0 /\ ~UnusedCounter
  /\ clock' = clock + 1
  /\ UNCHANGED <<services, script, passed, runs, fault, inherited, rejected>>

\* The code was computed before it is checked: a step may pass in between.
CheckCode ==
  /\ script.phase = "code"
  /\ IF Accepts(script.client, script.code)
       THEN script' = SignedIn /\ UseCode /\ UNCHANGED rejected
       ELSE /\ Goto("otp") /\ UNCHANGED services
            /\ rejected' = rejected \cup {<<script.client, script.code>>}
  /\ UNCHANGED <<clock, passed, runs, fault, inherited>>

\* require_success and the checks of main; the next scenario, or the end.
Conclude ==
  LET answer == AnswerTo(script.client, scenario.claims)
      ok == Checked(scenario, answer.details)
      next == script.at + 1
  IN  /\ script.phase = "result"
      /\ passed' = IF ok THEN passed \cup {<<script.at, answer.provider, answer.processed>>}
                         ELSE passed
      /\ IF ~ok \/ next > Len(Scenarios) THEN Goto("end")
         ELSE script' = [script EXCEPT !.at = next,
                !.phase = IF Scenarios[next].rebinds THEN "rebind" ELSE "request"]
      /\ UNCHANGED <<clock, services, runs, fault, inherited, rejected>>

\* Time: a code in flight is checked, or given up, within 15 of a step's 30 seconds.
Tick ==
  /\ clock < MaxTime
  /\ script.phase = "code" => clock = script.code
  /\ clock' = clock + 1
  /\ UNCHANGED <<services, script, passed, runs, fault, inherited, rejected>>

Wrapper == WaitReady \/ BindDisabled \/ StartClient \/ Down
Program == UseFlowWithoutPlanner \/ Request \/ GiveUp \/ SubmitForm
             \/ CurrentTotp \/ Sleep \/ CheckCode \/ Conclude
Go == Wrapper \/ Program

\* A bound: when the runs are used up the wrapper is not started again.
Done == script.phase = "idle" /\ runs = MaxRuns /\ UNCHANGED vars

Next == Up \/ Go \/ HoldUp \/ AnswerAtLast \/ RequestFails \/ Interrupt \/ Tick \/ Done

\* The script goes on, and a wait ends in spite of curls that are held up again and
\* again: there are 180 of them at most.  That a service answers is not assumed.
Spec == Init /\ [][Next]_vars /\ SF_vars(Go)

-------------------------------------------------------------------------------
(* Properties *)

\* A scenario passes at the provider its PASS line names: whichever scenario configured the
\* runner last, and whether the scenario configures it at all (configure, main).
PassedAsLabelled == \A p \in passed : p[2] = Scenarios[p[1]].at

\* "structured request processed and projected": the planner processed the request of
\* the scenario that says so, unless the services are those of a run that was stopped
\* after it had rebound the realm.  Then the built-in flow, which ignores the request,
\* passes as well (use_flow_without_planner, run-compatibility-matrix.sh).
ProcessedUnlessRebound ==
  \A p \in passed : p[1] = 5 =>
    p[3] \/ (inherited # None /\ inherited.flow["enabled"] = "browser")

\* The matrix fails only if something failed: no scenario, whatever an earlier run has
\* left behind and however the clock runs, uses a code twice until the 16 transitions
\* are used up, or finds the wrong flow, session or answer (main, authorize,
\* current_totp).
FailsOnlyOnFault ==
  script.phase = "end" => fault \/ {p[1] : p \in passed} = DOMAIN Scenarios

\* A code is refused only when a run that was stopped used it at the same provider:
\* codes of one run never collide, nor do they become too old (current_totp).
RejectedOnlyIfReused ==
  \A r \in rejected : inherited # None /\ r[2] \in inherited.used[r[1]]

\* What the script may still do before it ends: a scenario takes a rebinding, a request,
\* for each look a form, or a code with a sleep before and a refusal after it, and the
\* conclusion.
StepsInScenario ==
  CASE script.phase = "rebind" -> 3 * Transitions + 5
    [] script.phase = "request" -> 3 * Transitions + 4
    [] script.phase = "otp" -> 3 * script.left + (IF clock = script.last THEN 3 ELSE 2)
    [] script.phase = "code" -> 3 * script.left + 4
    [] script.phase = "result" -> 1
    [] OTHER -> 3 * script.left + 3
AllSteps == 6 * (3 * Transitions + 6) + 4
StepsLeft ==
  CASE script.phase = "idle" -> 0
    [] script.phase = "end" -> 1
    [] script.phase = "client" -> AllSteps - 2
    [] script.phase = "bind" -> AllSteps - 1
    [] script.phase = "wait" -> AllSteps
    [] OTHER -> (6 - script.at) * (3 * Transitions + 6) + StepsInScenario + 1

\* Each step of the script brings its end nearer, whatever codes and flows it meets, and
\* nothing else puts the end off: not time, nor a request that fails (authorize,
\* current_totp, main).
StepsRunOut ==
  [][/\ Go => StepsLeft' < StepsLeft
     /\ script.phase # "idle" => StepsLeft' <= StepsLeft]_vars

\* The wrapper ends: no wait, no loop of authorize and no sleep goes on for ever.  What
\* can keep it from its end is a single curl of its own, at a service that takes the
\* connection and never answers: there the script stays until it is interrupted
\* (wait_url, and the requests that bind the flow).
MatrixEnds == []<>(script.phase = "idle") \/ <>[]Held
===============================================================================
