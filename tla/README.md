# Verification of the OIDC4AC lab

TLA+ models of the lab's own programs, their TLC runs, and TLAPS proofs. The
lab surrounds a modified Keycloak: a Flask relying party that sends Claim
Request Objects, an email factor plugged into Keycloak, shell scripts that build
and run everything, and drivers that test and measure it. Keycloak itself is a
submodule whose contents are not in this repository: it is external here, and so
are Authlib, Flask, git and the browsers, which are modelled from how this
repository's code uses them.

All paths below are relative to the repository's root.

## 1. Inventory

| Component | State it keeps | Operations | What is hard |
| --- | --- | --- | --- |
| Test client, `test-client/app.py` | `AUTHORIZATION_CACHE`, `TOKEN_CACHE` under one lock; the Flask session, which is a cookie of the browser; dicts shared by threads after the lock is released | `/`, `/preview`, `/login`, `/callback`, `/refresh`, `prune_caches`; `/discovery`, `/tools`, `/otp` | threads interleave between lock sections; three provider calls per callback, each may fail; callbacks delivered twice; cookies replaced as a whole by whichever response comes last; entries expire under a request in flight |
| Email authenticator, `providers/oidc4ac-test-email/.../OIDC4ACEmailAuthenticator.java` | two notes (code, time of issue) of the authentication session, each kept as auth note and as client note | `authenticate`, `action`, `issueCodeIfNeeded` | the planner forks sessions and copies one kind of note; restarts clear the other; mail is slow or fails; codes expire while the form is open |
| Email details provider, `.../OIDC4ACEmailAuthenticationMethodDetailsProviderFactory.java` | none | constant details of the method | - |
| Keycloak sources, `scripts/keycloak-repo.sh` with `build_*` of `dev.sh` | `.runtime/keycloak-source`, `.build/keycloak.tar.gz`, the variables of the run | stage the submodule, or fetch the fork, or use a configured checkout; reset; build; clean | any command may fail with errexit off; runs are interrupted; the submodule and the branch move between runs; builds modify tracked files |
| Lab lifecycle, `dev.sh`, `scripts/start-keycloak.sh`, `scripts/verify.sh` | the pid file, the Keycloak process, its data directory, Compose services | `run`, `start`, `tests`, `verify`, `status`, `down`, `clean` | stale pid files, reuse of a running server, a server that does not stop, the foreground trap, several invocations |
| Request builder, `test-client/templates/home.html` | the tree of factor cards and groups, the form, the JSON editor, the suggestions | edits of cards and rows, `applyBuilder`, `loadJson`, `loadPreset`, `loadDiscovery` | two representations of one request; fields that guess types; partial conversion; discovery arriving between any two edits |
| Discovery normalisation, `builder_discovery_metadata` in `app.py` | none | malformed or partial documents become builder metadata | shapes nobody wrote a test for |
| HTTP driver, `e2e/http/run.py` | cookies per session, `LAST_TOTP_COUNTER`, the globals `CLIENT` and endpoints | `authorize` through forms and redirects, `current_totp`; scenarios against Keycloak | a TOTP is accepted once; a code is computed in one step and checked in the next |
| Browser drivers, `e2e/browser/run.py`, `evaluation/benchmark/browser_flow.py` and its users | seen mails, the page | `complete_factors` | mail later than the driver waits for |
| Timing benchmark, `evaluation/benchmark/timing-benchmark.py`, `analyze.py`, `make-fixtures.py` | samples | slots of interleaved variants, statistics | order and number of slots when some fail |
| Compatibility matrix, `evaluation/compatibility` | the driver's globals, sessions shared by scenarios, the realm's flow, PASS lines | the wrapper, `configure`, `use_flow_without_planner`, six scenarios | services that survive a run that was stopped; codes used by it; a rebound realm |
| Deployment, feature-disabled test | none | one-shot scripts, Compose files, `config/realm-import.json` | - |

How they interact. The browser carries the test client's session and visits
Keycloak with `state` and `nonce`; Keycloak redirects back to `/callback`, and
the test client calls Keycloak's token, JWKS and discovery endpoints while
holding no lock. Keycloak calls the email authenticator once per challenge and
once per submitted form; the planner forks authentication sessions between such
calls. `dev.sh` sources `keycloak-repo.sh`, builds with Maven in a container that
mounts the checkout, and starts Keycloak from the archive it built; the drivers
use what it started.

What makes each correct:

- test client: one authorization request is answered once; what a page shows and
  what a refresh uses belong to one request, in any interleaving; tabs and users
  don't take each other's pending requests; only expired entries are dropped;
- email factor: the code asked for is one that was mailed, its age is its own, it is
  accepted once, not after its time, and not replaced while it is valid;
- sources: what is built is the whole tree of the commit that was asked for, after any
  history of failed and interrupted runs; the user's checkout, the submodule and the
  lab's repository are left alone;
- lifecycle: the pid file names the lab's Keycloak, so that `down` stops it; the one that
  answers is the one that was started, of the build that was made; programs whose command
  line does not look like a Keycloak's are left alone; every command ends;
- builder and discovery: the JSON says what the builder shows, exactly for the requests the
  builder can show; what is applied can be loaded again; suggestions are those the issuer
  advertises for the selected method, whatever shape its document has;
- compatibility matrix: a PASS line is about the provider and the processing it names; a run
  fails only if something failed, whatever the run before it left; it ends, unless one of the
  wrapper's `curl` calls is never answered;
- browser drivers (planned): a submitted code is fresh and of the right kind; a flow that can
  succeed does.

## 2. Modules

| Module | Models | Checked by |
| --- | --- | --- |
| `RelyingParty` | the promise: the life of an authorization request | refined by `TestClient` |
| `TestClient` | `test-client/app.py` with the browser's tabs and cookie | `MCTestClient` |
| `TestClientProofs` | theorems about `TestClient` | tlapm |
| `OneTimeCode` | the promise: the life of a mailed code | refined by `EmailFactor` |
| `EmailFactor` | `OIDC4ACEmailAuthenticator.java` | `MCEmailFactor` |
| `EmailFactorProofs` | theorems about `EmailFactor` | tlapm |
| `KeycloakRepo` | `scripts/keycloak-repo.sh` and the builds of `dev.sh` | `MCKeycloakRepo` |
| `KeycloakRepoProofs` | theorems about `KeycloakRepo` | tlapm |
| `LabLifecycle` | starting and stopping Keycloak: `dev.sh`, `scripts/start-keycloak.sh` | `MCLabLifecycle` |
| `LabLifecycleProofs` | theorems about `LabLifecycle` | tlapm |
| `DiscoveryMetadata` | `builder_discovery_metadata` of `app.py` | `MCWorkbench` |
| `BuilderCards` | the cards and rows of the builder in `home.html`, and their suggestions | `MCWorkbench` |
| `CardClaims` | the two representations of one method in `home.html`, card and JSON, and the conversions | `MCWorkbench` |
| `CardClaimsProofs` | theorems about `CardClaims` | tlapm |
| `ClaimsBuilder` | the two representations of a whole request, and the conversions | `MCWorkbench` |
| `SuggestedCards` | the promise: cards whose suggestions follow their method | refined by `Workbench` |
| `SuggestedCardsProofs` | theorems about `DiscoveryMetadata` and `SuggestedCards` | tlapm |
| `Workbench` | the page `home.html`, with the answers of `app.py` to it | `MCWorkbench` |
| `WorkbenchProofs` | theorems about `ClaimsBuilder` and `Workbench` | tlapm |
| `CompatibilityMatrix` | `evaluation/compatibility`, with `authorize` and `current_totp` of `e2e/http/run.py` | `MCCompatibilityMatrix` |
| `CompatibilityMatrixProofs` | theorems about `CompatibilityMatrix` | tlapm |

Some definitions come in two versions, such as `PeekContext` beside `PopContext`
or `SkipClean` beside `CleanManaged`. The first is a plausible fault of the code
(a lookup without removal, a reset that is left out); no specification uses it.
Put in place of the second it must break a property: that is how each property
was seen to depend on the code. The pairs are listed in `PROJECT.json`
(`mutants`), and so are the lines each definition stands for (`map`).

### TestClient

A *thread* serves one request of one tab and moves in the steps other threads can
observe: a section under `CACHE_LOCK`, an unlocked write to a shared dict, a call
to the provider, the response. A handler's local variables are the fields of its
thread; `prune_caches` reads the clock in one step and deletes in another,
because the code computes the cutoff before it takes the lock.

| Variable | In the code |
| --- | --- |
| `context`, `authorization_cache` | the dicts of `login` and the keys of `AUTHORIZATION_CACHE`; a popped dict stays in `context`, as it stays in the thread that popped it |
| `cached`, `token_cache` | the dicts of `callback`, held by threads after they left the cache, and the keys of `TOKEN_CACHE` |
| `cookie` | the session of each browser: Authlib's state entries and `oidc4ac_result` |
| `thread`, `page` | requests in flight; what each tab shows and the address it would reload |
| `issued`, `redeemed` | the provider's codes: a code is exchanged once |
| `raced` | history: requests whose cookie was set while another login or callback of the browser was in flight |

The handlers are `Login`, `Callback`, `Refresh` and the page visits; every early
return, error page and exception is an action. An uncaught exception is a response
too: Flask saves the session with the 500 page, so `RenderCallbackFails` sets
the cookie. Tabs are duplicated at the provider and callback addresses are
reloaded, so that callbacks arrive twice, at once, and with several codes.

Data: a Claim Request Object is a member of `Claims`; a refresh token is named
by the request whose grant it belongs to; nonce and state are one value, since
`login` draws them together. `secrets.token_urlsafe` never repeats
(`Unused`). Authlib (pinned to 1.4.1) keeps its state data in the session,
since `OAuth(app)` is given no cache; that its entries expire after an hour is
left out, so what is said of states is said of callbacks within that hour (the
caches live for less, but only requests other than `/callback` prune them). A
request that is aborted by the browser is left out, and `SetCookie` always succeeds: browsers
drop a cookie above about 4 KB, so that a session with a state entry that large (a very long
claims request) would lose its state without any overlap.

`RelyingParty` is what this should look like from outside: a request is unused,
pending, claimed by one callback, then closed, and gives at most one result. The
refinement mapping (`StatusBar`, `ResultOfBar`) reads a request's status off the
caches and the threads.

### EmailFactor

One step per call of `authenticate` or `action`: Keycloak serializes the requests
of one authentication session. A step that mails a code takes time (`SendTimes`),
and the code is stored with the time read after the mail was sent. `getSessionNote`
reads each note separately, auth note first. `Fork` and `RestartFlow` are the
planner's (external): a fork copies the client notes, a restart clears the auth notes.
`storedAt` and `accepted` are history.

`OneTimeCode` is what this should look like from outside: a session expects one code, from
the moment it was issued until it is accepted or too old, and a fork expects the code of the
session it came from, at the same age. The refinement mapping reads the code with
`getSessionNote`; a restart of the flow is a stutter.

### KeycloakRepo

One run at a time, one step per command. `run.pc` is the command that comes next.
Each command may succeed, fail, or be interrupted; a failure matters in different ways,
because every caller writes `resolve_keycloak_repo ... || die`, which switches errexit
off inside the function, while `clean_managed_keycloak_repo` runs with errexit on.
`dir` is `.runtime/keycloak-source`, told apart by what the scripts and git look at:
whether it is there, whether `.git` is a repository (`ok`), answers `rev-parse` only
(`gutted`), is not one (`broken`) or is missing, HEAD, an executable `mvnw`, and
whether the tracked files are those of HEAD. `fault` is history. The reference is
never empty (`${OIDC4AC_LAB_KEYCLOAK_REF:-...}`), so lines 107-109 and 124-134 of the
script are dead and not modelled.

Assumed of the environment: git 2.x as Debian ships it (a failed fetch empties
FETCH_HEAD; a directory whose `.git` lacks HEAD or `objects/` belongs to the
repository around it; git removes its lock files when it is interrupted); the lab is
a git clone; the submodule does not move during a run; there is one run at a time. A
clone that is killed before it has a HEAD is as good as one without `mvnw`: both are
removed, or refused, because `mvnw` is missing.

### LabLifecycle

`shell[s]` is the `dev.sh` of terminal `s`; its `pc` is the command that comes next in
`start_lab` or `run` and in the functions they call, and `return` says where
`stop_host_keycloak` goes back to. `process` is what the machine runs: the lab's servers
(from `nohup` through unpacking and binding the port to the end) and programs of others, of
which there are two kinds. `stop_conflicting_keycloak` looks for `keycloak`, `kc.sh` or
`quarkus` anywhere in the command line of the listener (`LooksLikeKeycloak`), so that another
Keycloak, but also any other Quarkus application, or a program with `keycloak` in a path, is
`"alike"`: it is told to end and then killed. `OthersSpared` speaks of the `"other"` ones only.
`curl --fail` takes any success from anybody who listens (`Answers`). `pid_file`, `archive` and the port are shared, and nothing locks them. A build is one
step here, which makes a new archive or fails; how it comes about is the subject of
`KeycloakRepo`. `Abort` is what `die`, errexit and Ctrl-C have in common: `run` goes
through its EXIT trap, the other commands just end. A wait may end by its deadline at any
time, and a server may exit at any time, or never.

Assumed: a pid is not given to another program between the time it is written and the next
reboot; nobody starts other programs on the port while a `dev.sh` is at work; SIGKILL
frees the port at once; `kc.sh` execs Java, so that the pid stays the same. Compose services,
the log stream and the commands that start no host Keycloak are left out.

### DiscoveryMetadata, BuilderCards, CardClaims, ClaimsBuilder, Workbench

The first four are pure, and each EXTENDS the one before: operators for
`builder_discovery_metadata`, for the cards and rows of the builder and their edits, for
`factorExpression` and `factorModel`, for `buildClaims` and `expressionModel`, and, where the script
throws, a predicate that says when it does not (`FactorOK`, `FactorModelOK`, `BuildOK`,
`ExpressionOK`). `CardClaims` also says what JSON the conversions are given (`IsFactor`) and
which of it a card can show (`PlainFactor`), `ClaimsBuilder` the same of a whole request
(`IsExpression`, `IsForest`; `PlainExpression`, `PlainDetails`). `Workbench` EXTENDS them and is
the page in time: the user edits the builder and the editor in any order, and the answer of
`/discovery` comes between any two edits, or never.

The builder's nodes and an expression in JSON are trees of any depth. Each is one function from
*paths* to nodes or objects: a node's path is that of its parent and its place among the siblings,
so that `<<2, 1>>` is the first child of the second node. A node of the page is a card or a group
with its operator; in JSON an array of expressions is the value `Items`, and its elements are at the
paths below. What the script does by recursion, node by node (`nodeExpression`,
`expressionModel`, the `appendNode` of every child), is then one function of the whole tree, and
what it does with a node in its list is a change of paths: `Graft` appends a subtree, `Moved` with
`Renumber` removes a node or swaps two, and those after it, or below it, go along. `NodeOK` and
`BuildOK` say of every node what a throw anywhere in the recursion prevents.

| Variable | In the code |
| --- | --- |
| `root`, `form` | the cards and groups under the builder's root, the fields for the whole request |
| `editor` | the text of the JSON editor |
| `fetch`, `discovery` | `loadDiscovery` in flight or done; the page's `discovery` |
| `served`, `loaded`, a card's `removed` | history: the document behind `discovery`; the request last loaded, until the builder is edited; whether a row before another was removed |

A JSON object is a function from member names to values, so the order of members is not
modelled. A text in the editor is an object with its claims, or blank, malformed, an array, or
too long: what `parse_claims` and `JSON.parse` tell apart. A text is the sequence of its
words between commas, because `values` splits there. A scalar is a value a field can show: its
`text` is what `valueForInput` makes of it, its `string` what `String` does, and they differ for
arrays and objects. The conversions are tables, whose entries an instance chooses, and the proofs
hold for any that meet `ScalarsAssumption`:

- `Trimmed`, what `trim` leaves of a word. Every use of a text field trims it, so the fields of
  a card are known by what is left;
- `Json`, from each text that is JSON, as a whole, to what `JSON.parse` makes of it: `5.0` the
  number 5, `[1, 2]` an array, a text in quotes the string without them, which may be empty, have
  commas or blanks, or be JSON again. `ParseScalar` takes any other text as it is;
- `Numbers`, from each text that a number field accepts to its `Number`. The bounds of a range
  and the maximum age go through such fields: `NumberField` shows a string `"5"` as 5, and
  nothing of `"abc"`, `true` or null. The identifier goes through a text field, which makes a string
  of it.

Left out of the conversions: blanks next to a comma, JSON escapes that stand for one (`\u002c`),
members `essential` that are not Boolean, names with commas, and the names that JavaScript
objects inherit: a row named `constructor` finds a function where `refreshConstraintSuggestions`
looks for the values of its name, and the script throws; `__proto__` is no member when it is assigned.
The user's edits reach nodes at every depth, also of groups that were loaded. The seven presets are one of each shape of the sixteen.
`AdvertisedNames` and `AdvertisedValues` say member by member what a document gives for a
method; they are the reference that `SuggestionsFollowMethod` compares the page with, and are
written without the code's loops and sorting.

`SuggestedCards` has the cards without the tree, the editor and the JSON: the page has the
metadata of one document at most, cards are made for the metadata there is and edited with it, and
an answer reaches all of them at once. The refinement mapping takes the set of the cards in the
tree, at whatever depth (`Cards`).

### CompatibilityMatrix

One program, one step per request. `script.phase` is where the wrapper or the Python program
is; `services` is what the wrapper's Compose project holds: the realm's flow at each of the two
providers and the one-time codes each has accepted; it outlives a run that is stopped
(`Interrupt`, or an early `exit 1` of the wrapper, in any step). `script.client` is the global
`CLIENT` that `configure` sets and `authorize` uses, whatever endpoint `main` has in mind.
`passed` has the scenarios that passed; the third, the fallback, and the fourth, the direct request,
have one PASS line in common, which the code prints after both. The `curl` calls of the wrapper
have no time limit: any of them may be held up (`HoldUp`), for ever if the service never answers,
or until it does (`AnswerAtLast`).
`authorize` looks at 16 responses; `Transitions` is that number less the redirects among them.
`current_totp` reads the clock, and the code is checked in a later step. `fault`, `inherited`
and `rejected` are history.

External, and modelled from what the driver expects of it: Keycloak's flows (the planner
executes the requested method, the built-in flow executes password and then code whatever
was requested), single sign-on, and the check of a code (the present or the last 30 s step,
once per provider). Assumed: images don't change between runs, so that containers of a stopped
run are reused; the realm's database is in the container, so that `down` forgets it; a code in
flight is checked, or given up (15 s timeout), before the step after the next one.

## 3. Runs

Two tabs, two requests and two results are the smallest instance in which a callback
can take another request's place, a later cookie replace an earlier one, or two
refreshes write the same dict; every step of a tab involves one request and one
result, and the proofs hold for any number of each.

| Run | Instance | Shows |
| --- | --- | --- |
| `overlap` | one browser, two tabs, two requests, two results, two claims, two codes per request, no clock | `TypeOK`, `OneResultPerRequest`, `ResultPageIsOneRequest`, `StoredTokenIsOwn`, `StateLostOnlyToOverlap`, and that the handlers implement `RelyingParty` |
| `users` | two browsers with a tab each, lifetime 1, clock to 3 | nobody loses a pending request to another *user*; only expired entries are pruned; a pruned result is not revived; the refinement with expiry |
| `cookie` | as `overlap` with one code | `PendingRequestNotOverwritten` fails for parallel *tabs* (finding 1) |
| `codes` | a session and two forks, three codes, lifespan 1, mails that take 0 or 1, clock to 4 | `NotesBelongTogether`, `StoredCodeWasMailed`, `AcceptedOncePerSession`, `ExpiredNeverAccepted`, `ValidCodeStays`, and that the factor implements `OneTimeCode` |
| `fork` | the same | `CodeRemovedOnSuccess` fails (finding 2) |
| `staging` | the pinned commit and two others | `BuiltFromWholeTree`, `BuiltFromPinned`, `StagingRecovers`, `OwnEditsKept` |
| `offline` | the same | `FetchedIsConfigured` fails (finding 3) |
| `lab` | the same | `LabKept` fails (finding 4) |
| `terminal` | one terminal, three processes, two builds, `lsof` installed | `TrackedOrTold`, `ReadyIsOwnBuild`, `OthersSpared`, `CommandsRunOut`, and `CommandEnds`, a liveness property |
| `reuse` | the same | `ReadyIsNewBuild` fails (finding 5) |
| `workbench` | three documents (complete; partial with wrong types and duplicates; no list at all), some seventy texts, four events after the page was opened | `LoadedIsShown`, `AppliedLoadsBack`, `SuggestionsFollowMethod`, and that the page implements `SuggestedCards` |
| `matrix` | three runs of the wrapper, 8 transitions, clock to 5 | `PassedAsLabelled`, `ProcessedUnlessRebound`, `FailsOnlyOnFault`, `RejectedOnlyIfReused`, `StepsRunOut`, and `MatrixEnds`, a liveness property |

Bounds. `MaxCodes` (codes per request): two, so that a request is answered with a code
and with another. `MaxTime`: in `users` an entry can be made, expire and be pruned while
a refresh of it is in flight, and another be made after; in `codes` a code can expire, be
replaced, and the replacement expire after a slow mail. Three codes let a fork and
its parent replace the code they share independently. Three commits let the checkout be
at one, the submodule at another, the fork's branch at a third. Three processes are a server
that got lost or does not stop, the one that is tracked, and a program of somebody else; two
builds are an old and a new one. In `workbench`, four events suffice for type, load, edit,
apply with the answer of `/discovery` anywhere among them; two nodes and two rows for the
order of siblings, a row after a removed one and two rows of one name; the
texts contain what the conversions tell apart of expressions, constraints, time conditions and
groups: what comes back in a few full texts, each thing that does not in a text of its own. In `matrix`, the first run may be stopped, the second find what it left and be
stopped too, and the third find what both left; `MaxTime` bounds the time that passes while nothing waits
for it, and `Sleep` may go beyond. Symmetry permutes names
only: requests, results, claims, tabs of one browser, codes, forks, commits that are not
pinned, processes. `Root` and `Pinned` keep their names, and the run with the liveness
property (`terminal`) has no symmetry.

Deadlock is checked in every run: a tab can always make a request, a form can always be
reloaded, a command can always be given, the page can always be opened anew. In `matrix` the
wrapper rests when its runs are used up (`Done`).

Fairness is assumed of two things. In `LabLifecycle`, a `dev.sh` that can go on does
(`WF_vars(Step(s))`): bash executes the next command, every wait in the script counts its
seconds, and `curl` is given `--max-time`; that Docker and Maven come to an end is part of the
assumption. In `CompatibilityMatrix`, the script goes on (`SF_vars(Go)`): a form that is shown is
submitted, `Sleep` ends because a 30 s step does, and a step whose requests are held up again and
again is over in the end, since `wait_url` makes 180 of them at most. Of the service nothing is
assumed: a `curl` of the wrapper that is never answered stays in `HoldUp`'s state for ever, and
`MatrixEnds` names it (`<>[]Held`) as the one thing that keeps a run from its end. What is assumed is
that Docker commands end, and that a request of the Python program does: its timeout of 15 s bounds
each silence of the server, not an answer that trickles in. Servers, users and failures have no
fairness. The other modules claim no
liveness: a browser may never send the next request, the provider may never answer a
token request (Authlib is given no timeout), a mail may never be read, and `/discovery` may
never answer the page.

### Findings

1. **Parallel tabs can lose a pending request.** The state entry of each login is in the
   session cookie, and a response that touches the session replaces the whole cookie. Two
   overlapping logins leave the entry of one. `docs/test-client.md` and a comment at
   `authorize_redirect` promise the opposite. `StateLostOnlyToOverlap` says how far the
   damage goes: nothing but such an overlap loses a state.
2. **An accepted code stays in the session that was forked.** `action` removes the notes of
   its own session only, against the comment that the code is removed on every terminal
   path.
3. **A failed fetch builds the old sources.** errexit is off where the fetch fails.
4. **A broken `.git` sends the reset to the lab's repository.** After an interrupted
   removal that leaves `mvnw` and a `.git` directory without HEAD or `objects/`.
5. **A run keeps an old server.** `start_host_keycloak` is content with the tracked Keycloak if it
   answers, although `start_lab` and `run` have just built another distribution.

Also visible in `KeycloakRepo`, and documented nowhere: a removal that fails unnoticed (not
interrupted) may leave the old checkout, which is then built in place of the submodule's
commit (`BuiltFromPinned` speaks of runs in which nothing fails); and a checkout
whose objects are gone but whose HEAD is there is reused and stops every run until
it is removed by hand (`StagingRecovers` names it as the exception).

Also visible in `Workbench`. The script ends with `loadPreset` on every page, so a text that
`/login` or `/preview` refused is overwritten on the page that shows the error, and
`DEFAULT_CLAIMS` is never seen (`SubmitRejected` is `OpenedPage`). `addConstraint` numbers a
row's datalist by the rows that are there, so after the removal of an earlier row two rows may
share one, and the later shows the suggestions of the earlier; `SuggestionsFollowMethod` leaves
those rows out. A load that fails has already cleared the builder (`LoadJsonFails`). An empty
group gets a default factor; a value that is a string but JSON by itself (`"5"`, `"[1, 2]"`) comes
back as the number or the array; a bound that is a numeric string comes back as the number, any
other that is no number is dropped; an identifier 5 comes back as `"5"`; blanks at the ends of a string or
a name are cut; and a string with a comma becomes two in `values`. `Expressible` is the set of
requests without such a detail, and `LoadedIsShown` says that these, and no others, survive. Not
among them either are a member with the empty name, and an empty object where the builder would write
none (`PlainConstraint`, `PlainTime`, `PlainObject`). The other way round, `AppliedLoadsBack` has one
exception: a user who types a string in quotes that is blank, has blanks at its ends or is itself
JSON gets that string into the JSON, but its field shows it without the quotes after a load, and
then it is written as something else, or not at all.
The result page shows the document
filtered by the prefixes `amr_`, `pwd_`, `otp_` and `pop_` (`discovery_metadata`), so `email_`
members, which the builder used, are missing from what `docs/test-client.md` calls the
discovery document used by the builder.

Also visible in `LabLifecycle`: any Quarkus application on the issuer's port, and any program there
with `keycloak` in its command line, is sent TERM and then KILL by a `dev.sh` that may stop
Keycloaks (`dev.sh`, lines 111-126); and one that does not look like a Keycloak but answers at the
issuer's path is taken for a server that is ready.

Also visible in `CompatibilityMatrix`. After a run that was stopped between the rebinding and
`down`, the next one reuses the rebound realm, and its line "structured request processed and
projected" passes although the built-in flow ignored the request (`ProcessedUnlessRebound`
names it as the exception); codes the stopped run used are refused, which costs transitions
but no failure (`FailsOnlyOnFault`). The wrapper does not check the requests that bind the
disabled provider, an early `exit 1` leaves the services up, and a service that takes a
connection and never answers stops the wrapper in one `curl` for good (`Held`).

## 4. Proofs

`TestClientProofs` proves every property the runs of `TestClient` check, for any sets of
browsers, tabs, requests, results and claims, any lifetime and any clock bound, from
`TestClientAssumption` alone (each tab has a browser; `None` is none of the values;
the bounds are naturals).

| Theorem | States |
| --- | --- |
| `TypeCorrect` | `Spec => []TypeOK` |
| `OneResult` | `Spec => []OneResultPerRequest` |
| `ResultPages` | `Spec => []ResultPageIsOneRequest` |
| `StoredTokens` | `Spec => []StoredTokenIsOwn` |
| `StateLost` | `Spec => []StateLostOnlyToOverlap` |
| `Pruned` | `Spec => PrunedStaysGone` |
| `Expiry` | `Spec => OnlyExpiredArePruned` |
| `Refinement` | `Spec => ImplementsRelyingParty` |
| `TurnsKeepState` | `Spec /\ []SessionsApart => []PendingRequestNotOverwritten` |
| `OneTabKeepsState` | `OneTabPerBrowser /\ Spec => []PendingRequestNotOverwritten` |
| `ResultsForGood` | the request a stored result was obtained for never changes |
| `ClosedForGood` | a request that is neither pending nor claimed gets no further result |

`TypeOK` is inductive by itself, once it says which local variables a handler has set at
each of its steps (`HasKeys`). The others need `Inv`, five conjuncts that are proved
one after the other, each step by step of `Next`:

- `KeysInv`: a key drawn by a login is nobody else's until its context is cached, so that
  `InsertContext` cannot give a second request the same name;
- `ClaimInv`: a request is in one place, the cache, one thread that popped it, or one result.
  `OneResultPerRequest` says nothing of the threads between pop and store, so it is not
  inductive without this;
- `ResultInv`: what a thread carries (a dict, a token, claims) is of one request, and so is
  what it will write without the lock or show;
- `SessionInv`: the state of a pending request that can still be answered is in the cookie *and in
  every session loaded by a request in flight*, since each of those may become the
  cookie; unless the request is in `raced`;
- `CutoffInv`: a cutoff read before the lock only gets older.

`Refinement` classifies the steps: `InsertContext` begins a request, `PopContext` claims it,
`StoreResult` grants, three failures close it, pruning forgets some, and the rest (`Quiet`)
leave the mapped state as it is. `ResultsForGood` and `ClosedForGood` then follow from
`RelyingParty`, whose steps are few, without another look at the handlers.

`PendingRequestNotOverwritten` does not hold as it stands (finding 1). `TurnsKeepState` says under
which condition it does: no two requests that save the session of one browser, logins or
callbacks, are in flight together (`SessionsApart`). Nothing else that tabs do, reloading
callbacks, duplicating the provider's page, refreshing, letting requests expire, loses a state.
Users with a tab each meet the condition (`OneTabKeepsState`); that is the run `users`.

`EmailFactorProofs` proves every property of the run `codes`, for any sessions and codes, any
lifespan, mail delays and clock bound.

| Theorem | States |
| --- | --- |
| `TypeCorrect` | `Spec => []TypeOK` |
| `NotesTogether` | `Spec => []NotesBelongTogether` |
| `CodeWasMailed` | `Spec => []StoredCodeWasMailed` |
| `AcceptedOnce` | `Spec => []AcceptedOncePerSession` |
| `ExpiredRefused` | `Spec => ExpiredNeverAccepted` |
| `ValidStays` | `Spec => ValidCodeStays` |
| `Refinement` | `Spec => ImplementsOneTimeCode` |

The properties speak of what `getSessionNote` returns, which is put together from two kinds of
notes and so not inductive. `NotesInv` is what makes it so: the client notes are whole (code and
time of one issue, or neither) and the auth notes are unset or equal to them, so each read gives the
client note (`ReadsClientNotes`). `ForkInv` (a session still to be forked has no past) and
`AcceptInv` (an accepted code was mailed and is in the session's notes no more) carry the history.
`Refinement` rests on the same reading (`ExpectedInClientNotes`, `HasCodeIsValid`): what the form
compares and what `isExpired` computes are the abstract code and its age.

`SuggestedCardsProofs`, for any documents, names, identifiers, inputs and number of cards:

| Theorem | States |
| --- | --- |
| `SuggestionsAreAdvertised` | the normalised document, looked up by method, list and name, gives what the document lists |
| `SuggestionsFollow` | `Spec => []CardsFollow`, of `SuggestedCards` |

The documents are those of `IsDocument` (members are lists or of another type, elements names or of
another type), which is all that `builder_discovery_metadata` tells apart. `CardInv` is the invariant: the names and values a card suggests are those of
the *page's* metadata for its present identifier and the row's present name, and rows are
numbered in order until one is removed; with `SuggestionsAreAdvertised` that is `CardsFollow`.

`CardClaimsProofs`, for any words, names and values, any number of rows and members, and a page
with any metadata:

| Theorem | States |
| --- | --- |
| `FactorsReturn` | an expression of one method is loaded and written again as it was, with no error on the way, if *and only if* `PlainFactor` |
| `CardsReturn` | whatever a user fills into a card, if it is written at all then it can be loaded and is written again the same, unless a field holds a string in quotes that needs them (`Requoted`) |

They are what `LoadedIsShown` and `AppliedLoadsBack` say of one card. The argument goes from small to
large, and at each level both ways, since an "only if" at the top needs one below:
`ScalarReturns` (text field and `parseScalar`), `NumberReturns` (number field and `Number`),
`ConstraintReturns` (row and constraint, by the kind of constraint), `ObjectReturns` (list of rows and object; of two rows of one name the last is
written), `TimeReturns`, `IdentifierReturns`. Each says of what was loaded that it is written back
exactly if it was plain: "only if" needs that the fields and their conversions never give back a
value that is not (`TypedScalar`, `WrittenTrims`). `values` needs that flattening singletons gives their
elements (`FlattenSingletons`); it is a recursive function of the library, and the proof takes the least
index at which it would be wrong (`Least`). Assumed are `ScalarsAssumption`, finite objects, that the
identifiers in the page's metadata are names (`BuilderMetadata` keeps strings only), and for
`CardsReturn` that null and `Other` are no objects and that no row is `Requoted`, as in
`AppliedLoadsBack`. The attempt to prove the "only if" is
what showed that `PlainFactor` had to leave out null bounds, a null `max_age` and the empty name;
`MCWorkbench` has a text for each of these now.

`WorkbenchProofs` proves every property of the run `workbench`, for any documents, texts, identifiers
and inputs, any `MaxNodes`, `MaxRows` and `MaxEvents`, and trees of any depth and width.

| Theorem | States |
| --- | --- |
| `TypesHold` | `NoObjects` implies `Spec => []TypeOK` |
| `LoadedStaysShown` | `NoObjects` implies `Spec => []LoadedIsShown` |
| `AppliedReturns` | `NoObjects` implies `Spec => []AppliedLoadsBack` |
| `SuggestionsFollowInTree` | `NoObjects` implies `Spec => []SuggestionsFollowMethod` |
| `WorkbenchImplementsCards` | `NoObjects` implies `Spec => ImplementsSuggestedCards` |

`NoObjects` says that null and `Other` are no JSON objects: they are values without a
definition, of which nothing else tells the prover that they are not functions. The other
assumptions are those the modules declare and TLC evaluates: `ScalarsAssumption`, `DiscoveryAssumption`,
`BuilderAssumption`, `ItemsAssumption` (`Items` is neither null nor `Other`) and
`WorkbenchAssumption` (texts are JSON as far as the page looks into it, inputs are what the fields
can hold, and so are the 60 seconds of a preset).

`WorkbenchInv` is the invariant: types, that a page without an answer has no document
(`fetch`, `served`), that the tree is a forest of filled cards (`NodesOK`), the invariant of
`SuggestedCards` for the set of its cards (`P!Inv`), and `LoadedIsShown`. `NextInv` proves of each
step at once that it keeps this and is a step of `SuggestedCards`; the theorems above follow from it.
The argument has four parts:

- trees: appending a subtree, removing a node and moving it up or down give a forest again, with
  the same nodes at other paths, so that an edit of the tree is no edit of a card (`GraftForest`,
  `MovedForest`, `RenumberedNodes`). The others set one card, or the operator of one group;
- cards: each way to make or edit a card keeps what its fields hold and its `CardInv`, and is a
  `NewCard` or `EditedCard`; an answer refreshes every card;
- conversions: `FactorsReturn` and `CardsReturn` are lifted from one method to trees. A loaded
  expression is written back exactly if `PlainExpression` holds of it (both directions, path by
  path: a child that a default factor replaces, a group with members beside its array or an object
  with both arrays is where "only if" bites), then for the root, where `essential` joins the
  expression's members, and for the locations;
- time: the answer of `/discovery` changes suggestions only, and no suggestion reaches the JSON
  (`SameBuild`), which is why `LoadedIsShown` is kept by a step between load and apply.

`KeycloakRepoProofs` proves every property of the run `staging`, for any commits and any history.

| Theorem | States |
| --- | --- |
| `TypeCorrect` | `Spec => []TypeOK` |
| `WholeTree` | `Spec => []BuiltFromWholeTree` |
| `BuildsPinned` | `Spec => BuiltFromPinned` |
| `Recovers` | `Spec => StagingRecovers` |
| `EditsKept` | `Spec => OwnEditsKept` |

`BuiltFromWholeTree` speaks of the archive only; `WholeInv` adds that Maven starts on a whole
tree, unless there is no repository (then it can't succeed). `ManagedInv` says that from
`clean_before` on the generated checkout is managed and the user's is not: with a stale
`KEYCLOAK_REPO_MANAGED` neither `WholeTree` nor `EditsKept` would hold. `PinnedInv` follows a run that
stages the submodule and in which nothing failed: what each command finds, from the empty directory
after the removal to the commit at `build`. `SourceInv` says where `source_commit` is read.

`LabLifecycleProofs`, for any processes and builds:

| Theorem | States |
| --- | --- |
| `TypeCorrect` | `Spec => []TypeOK`, any number of terminals |
| `OthersAreSpared` | `Spec => OthersSpared`, any number of terminals |
| `ServersAreTracked` | `OneTerminal /\ Spec => []TrackedOrTold` |
| `ReadyServerIsOwn` | `Lsof /\ OneTerminal /\ Spec => []ReadyIsOwnBuild` |
| `CommandsAreBounded` | `Spec => [](\A s \in Shell : StepsLeft(s) \in 0 .. 19) /\ CommandsRunOut`, any number of terminals |

`OneTerminal` (one `dev.sh` at a time) and `Lsof` (`lsof` is installed, so that the port
can be cleared) are hypotheses, and needed: with two terminals the `rm` of one removes the pid file of the
other's server, and without `lsof` another Keycloak may hold the port. `OthersAreSpared` is about
programs whose command line has nothing of Keycloak's; the others it does not spare, nor does the
code. `SpareInv`: no
pid file of this start of the machine names a program of somebody else, nor does a `dev.sh` that is
about to write one. `TrackInv`: a server was told to end before its file goes, and when a new one
is spawned all that are left were told or lost. `Owned` adds, for the place a `dev.sh` is at,
that its distribution is the archive's, that the server it started is the one in the
pid file, and that who listens is that server or a lost one (`PortCleared`).
`CommandsAreBounded` is the safety half of `CommandEnds`. `StepsLeft` counts the commands a `dev.sh`
has before it at most, by its place and, in `stop_host_keycloak`, by what that returns to. Each step
lowers it, other terminals and servers leave it alone, and so a command is in at most 19 steps at its
end or in the foreground. The point is in the branches that look back: a Keycloak that does not answer is
stopped before the conflict is looked at (15 of 16), a start that failed runs `stop_host_keycloak` and then
the EXIT trap runs it again (7 of 8, then 3), and the trap does not start over when it is interrupted.
That each of these steps is eventually taken is the fairness of `Step`.

`CompatibilityMatrixProofs` proves every safety property of the run `matrix`, for any number of
runs, any time, and interruptions and failures anywhere, from `MatrixAssumption` (`Transitions`
is a natural number; `None` is none of the values).

| Theorem | States |
| --- | --- |
| `TypeCorrect` | `Spec => []TypeOK` |
| `Labelled` | `Spec => []PassedAsLabelled` |
| `ProcessedIfBound` | `Spec => []ProcessedUnlessRebound` |
| `OwnCodesAccepted` | `Spec => []RejectedOnlyIfReused` |
| `PassesUnlessFault` | `Transitions >= 3 /\ Spec => []FailsOnlyOnFault` |
| `RunsAreBounded` | `Spec => [](StepsLeft \in 0 .. AllSteps) /\ StepsRunOut` |

`ClientInv`: while a scenario waits for an answer the runner is configured for its provider, and between
scenarios for that of the one before, which is why the fourth, which does not configure it, still asks
the right one. `CodeInv`: a code that a provider has taken was taken by a stopped run, or is not after
the last one `current_totp` gave. `FlowInv`: the planner is bound until the last scenario, unless a
stopped run unbound it. `PassesUnlessFault` adds `PassInv`: the scenarios before the present one
passed, the realms are bound as it needs them, and `EnoughLeft`, its core: a form's page has the
transitions left that lead through it. A code may be refused once, but the next one is later
than all that stopped runs used (`InheritedUntil`), so three transitions are enough; with two, TLC
finds a run that fails without a fault. `authorize` has 16, less one for each redirect
it follows. `HeldIs` says that a `curl` that is held up, or answered at last, leaves everything else of a
run alone. `RunsAreBounded` is the safety half of `MatrixEnds`; it counts steps, and says nothing of a
single `curl` that never returns: `StepsLeft` adds up the scenarios
to come and, in the present one, three steps for each transition left (a form, or a code, the sleep
before it and its refusal). Two things could put the end off and do not: a refusal leads back to the form,
but a look was counted; and time passes, but `Sleep` is taken at most once for a code, as the clock
never falls back behind the last counter.

Only model-checked: the liveness properties `CommandEnds` and `MatrixEnds`, of which the bounds above are
proved and the rest, that under fairness an enabled step is taken, is out of the prover's reach (`ENABLED`);
and the properties of the runs that expect a violation, which the code does not have. Every other property
of a run is a theorem, under the hypotheses named above.

## 5. Plan

Done: `RelyingParty` and `TestClient`, `EmailFactor`, `KeycloakRepo`, `LabLifecycle`, each with its
proofs; `DiscoveryMetadata`, `BuilderCards`, `CardClaims`, `ClaimsBuilder` and `Workbench`, with proofs of the
suggestions, of the conversions of a card and of the whole page; `CompatibilityMatrix` with its proofs, which
covers `current_totp` and `authorize`. What could follow, in the order of what it is worth:

1. `LabLifecycle` with two terminals (`docs/test-client.md` suggests `down` from another one) and
   `--no-kill` against `docs/troubleshooting.md`; an abstract `OneServer` as what `run` promises.
2. `FactorDriver` composed with `EmailFactor`: `complete_factors` of `browser_flow.py`
   against late mail. Here a liveness property makes sense: with mail that arrives, the
   driver's eight rounds suffice.
3. `BenchmarkSlots`: the slot schedule of `timing-benchmark.py` when some slots fail.

Not to be modelled: pages that keep no state (`/healthz`, `/tools`, `/otp`), the scenarios of
`e2e/http/run.py`, which are tests of Keycloak, constant factories, argument parsing,
statistics over measured data, fixtures, Compose files, linting. Left out of the present models,
as hazards without a property in `PROJECT.json`: serial numbers of rotated refresh tokens, and limits on retries and on the size of the caches, which the code does not promise.
