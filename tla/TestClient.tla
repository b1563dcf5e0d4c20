------------------------------ MODULE TestClient ------------------------------
(***************************************************************************)
(* The test client, test-client/app.py: a threaded Flask process with two  *)
(* in-memory caches behind one lock, a session that lives in the browser's *)
(* cookie, and an OpenID provider it talks to with no lock held.           *)
(*                                                                         *)
(* Each tab has at most one request in flight, served by a thread of its   *)
(* own.  A thread moves in the steps other threads can interleave with:    *)
(* each acquisition of CACHE_LOCK, each unlocked write, each call over the *)
(* network, and the response, whose Set-Cookie replaces the browser's      *)
(* whole session cookie.  A cookie is read once, when the request is sent. *)
(***************************************************************************)
EXTENDS Integers

CONSTANTS
  Browser,    \* cookie jars
  Tab,        \* browser tabs
  BrowserOf,  \* BrowserOf[t]: the browser tab t belongs to
  ContextId,  \* values of `state`; each goes with a nonce of its own
  ResultId,   \* values of `result_id`
  Claims,     \* Claim Request Objects users submit
  None,       \* Python's None
  TTL,        \* CACHE_TTL_SECONDS
  MaxTime,    \* bound: the clock stops here
  MaxCodes    \* bound: authorization codes the provider issues per request

ASSUME TestClientAssumption ==
  /\ BrowserOf \in [Tab -> Browser]
  /\ None \notin ContextId \cup ResultId \cup Claims
  /\ TTL \in Nat
  /\ MaxTime \in Nat
  /\ MaxCodes \in Nat

VARIABLES
  now,                  \* time.time()
  context,              \* context[c]: the dict /login made for c, cached or not
  authorization_cache,  \* keys of AUTHORIZATION_CACHE
  cached,               \* cached[r]: the dict /callback made for r, cached or not
  token_cache,          \* keys of TOKEN_CACHE
  cookie,               \* cookie[b]: the session cookie browser b holds
  thread,               \* thread[t]: the server thread of tab t's request
  page,                 \* page[t]: what tab t shows
  issued,               \* provider: number of codes issued for request c
  redeemed,             \* provider: the codes exchanged for tokens
  raced                 \* history: requests whose cookie was set while another
                        \* login or callback of the same browser was in flight

clientVars   == <<context, authorization_cache, cached, token_cache>>
providerVars == <<issued, redeemed>>
vars == <<now, clientVars, cookie, thread, page, providerVars, raced>>

-------------------------------------------------------------------------------
(* Data *)

\* A session cookie: the keys of the `_state_keycloak_<state>` entries Authlib
\* keeps in it, and session["oidc4ac_result"].
Jar == [states : SUBSET ContextId, result : ResultId \cup {None}]
EmptyJar == [states |-> {}, result |-> None]

\* Dicts of AUTHORIZATION_CACHE; claims is None while the key is unused.
Context == [claims : Claims \cup {None}, created_at : Nat]

\* Dicts of TOKEN_CACHE.  A refresh token is told apart by the request whose
\* grant it belongs to; request (history) is the one the dict was made for.
Cached == [request : ContextId \cup {None}, refresh_token : ContextId \cup {None},
           claims : Claims \cup {None}, created_at : Nat]

PrunePC    == {"home_prune", "login_prune", "refresh_prune"}
LoginPC    == {"login_prune", "login_insert", "login_redirect"}
CallbackPC == {"callback_pop", "callback_exchange", "callback_store", "callback_render"}
RefreshPC  == {"refresh_prune", "refresh_get", "refresh_fetch", "refresh_write",
               "refresh_touch", "refresh_render"}
PC == {"idle", "home_prune"} \cup LoginPC \cup CallbackPC \cup RefreshPC

\* Handlers that modify the session, so that their response sets the cookie.
SessionPC == LoginPC \cup CallbackPC

\* Threads that hold a dict of TOKEN_CACHE.
HoldsCachedPC == {"callback_render", "refresh_fetch", "refresh_write",
                  "refresh_touch", "refresh_render"}

\* A thread: where it is, the session it loaded, and its local variables.
Thread == [pc : PC, session : Jar, context_id : ContextId \cup {None},
           code : Nat, result_id : ResultId \cup {None},
           claims : Claims \cup {None}, cutoff : Int, token : ContextId \cup {None}]
Idle == [pc |-> "idle", session |-> EmptyJar, context_id |-> None, code |-> 0,
         result_id |-> None, claims |-> None, cutoff |-> 0, token |-> None]

\* A page: state and code are those of its URL (code 0: another URL), or, on a
\* result page, the request its ID Token answers; claims and result_id are shown.
Page == [kind : {"home", "provider", "result", "error"}, state : ContextId \cup {None},
         code : Nat, result_id : ResultId \cup {None}, claims : Claims \cup {None}]
PageOf(kind, c, n) ==
  [kind |-> kind, state |-> c, code |-> n, result_id |-> None, claims |-> None]

Init ==
  /\ now = 0
  /\ context = [c \in ContextId |-> [claims |-> None, created_at |-> 0]]
  /\ authorization_cache = {}
  /\ cached = [r \in ResultId |-> [request |-> None, refresh_token |-> None,
                                   claims |-> None, created_at |-> 0]]
  /\ token_cache = {}
  /\ cookie = [b \in Browser |-> EmptyJar]
  /\ thread = [t \in Tab |-> Idle]
  /\ page = [t \in Tab |-> PageOf("home", None, 0)]
  /\ issued = [c \in ContextId |-> 0]
  /\ redeemed = {}
  /\ raced = {}

-------------------------------------------------------------------------------
(* Helpers *)

At(t, p) == thread[t].pc = p
Jump(t, r) == thread' = [thread EXCEPT ![t] = r]
Goto(t, p) == Jump(t, [thread[t] EXCEPT !.pc = p])

\* Tab t sends a request: the thread loads the session from the cookie.
Send(t, r) ==
  /\ At(t, "idle")
  /\ Jump(t, [r EXCEPT !.session = cookie[BrowserOf[t]]])

\* The response reaches tab t, without or with a Set-Cookie header.
Respond(t, p) ==
  /\ Jump(t, Idle)
  /\ page' = [page EXCEPT ![t] = p]
SetCookie(t, jar) == cookie' = [cookie EXCEPT ![BrowserOf[t]] = jar]

\* The session once Authlib has added the entry of the thread's state ...
WithState(t) == [thread[t].session EXCEPT !.states = @ \cup {thread[t].context_id}]

\* ... and once it has taken that entry out.
WithoutState(t) ==
  [thread[t].session EXCEPT !.states = @ \ {thread[t].context_id}]

\* prune_caches reads the clock before it takes the lock ...
Cutoff == now - TTL

ExpiredInclusive(created_at, cutoff) == created_at =< cutoff
Expired(created_at, cutoff) == created_at < cutoff

\* ... and drops what that cutoff says is too old once it has it.
PruneCaches(t) ==
  LET cutoff == thread[t].cutoff IN
  /\ authorization_cache' =
       {c \in authorization_cache : ~Expired(context[c].created_at, cutoff)}
  /\ token_cache' =
       {r \in token_cache : ~Expired(cached[r].created_at, cutoff)}
  /\ UNCHANGED <<context, cached>>

-------------------------------------------------------------------------------
(* Pages that only prune: GET /, and /preview or /login with invalid JSON *)

RequestHome(t) ==
  /\ Send(t, [Idle EXCEPT !.pc = "home_prune", !.cutoff = Cutoff])
  /\ UNCHANGED <<now, clientVars, cookie, page, providerVars, raced>>

HomeResponse(t) ==
  /\ At(t, "home_prune")
  /\ PruneCaches(t)
  /\ Respond(t, PageOf("home", None, 0))
  /\ UNCHANGED <<now, cookie, providerVars, raced>>

-------------------------------------------------------------------------------
(* POST /login *)

\* The form is posted with a valid Claim Request Object (or omit_claims).  The
\* key comes from token_urlsafe, which never repeats itself.
Unused(c) == /\ context[c].claims = None
             /\ \A u \in Tab : thread[u].context_id # c

RequestLogin(t, claims, c) ==
  /\ page[t].kind = "home"
  /\ Unused(c)
  /\ Send(t, [Idle EXCEPT !.pc = "login_prune", !.cutoff = Cutoff,
                          !.context_id = c, !.claims = claims])
  /\ UNCHANGED <<now, clientVars, cookie, page, providerVars, raced>>

LoginPrune(t) ==
  /\ At(t, "login_prune")
  /\ PruneCaches(t)
  /\ Goto(t, "login_insert")
  /\ UNCHANGED <<now, cookie, page, providerVars, raced>>

InsertContext(t) ==
  LET c == thread[t].context_id IN
  /\ At(t, "login_insert")
  /\ context' = [context EXCEPT ![c] = [claims |-> thread[t].claims, created_at |-> now]]
  /\ authorization_cache' = authorization_cache \cup {c}
  /\ Goto(t, "login_redirect")
  /\ UNCHANGED <<now, cached, token_cache, cookie, page, providerVars, raced>>

\* authorize_redirect has the provider's metadata: the browser stores the state
\* entry and follows the redirect.
RedirectUnsaved(t) ==
  /\ At(t, "login_redirect")
  /\ Respond(t, PageOf("provider", thread[t].context_id, 0))
  /\ UNCHANGED <<now, clientVars, cookie, providerVars, raced>>
AuthorizeRedirect(t) ==
  LET c == thread[t].context_id
      others == {u \in Tab \ {t} : /\ BrowserOf[u] = BrowserOf[t]
                                   /\ thread[u].pc \in SessionPC}
  IN
  /\ At(t, "login_redirect")
  /\ SetCookie(t, WithState(t))
  /\ Respond(t, PageOf("provider", c, 0))
  /\ raced' = IF others = {} THEN raced ELSE raced \cup {c}
  /\ UNCHANGED <<now, clientVars, providerVars>>

\* ... or fetching the metadata raises: 500, and the context stays cached.
AuthorizeRedirectFails(t) ==
  /\ At(t, "login_redirect")
  /\ Respond(t, PageOf("error", None, 0))
  /\ UNCHANGED <<now, clientVars, cookie, providerVars, raced>>

-------------------------------------------------------------------------------
(* The provider and the browser (external) *)

\* The user is authenticated: the provider redirects to /callback with a code.
AuthorizeAtProvider(t) ==
  LET c == page[t].state IN
  /\ page[t].kind = "provider"
  /\ issued[c] < MaxCodes
  /\ issued' = [issued EXCEPT ![c] = @ + 1]
  /\ Send(t, [Idle EXCEPT !.pc = "callback_pop", !.context_id = c, !.code = issued[c] + 1])
  /\ UNCHANGED <<now, clientVars, cookie, page, redeemed, raced>>

\* A tab duplicated, or an address opened again, while it is at the provider.
DuplicateTab(t, u) ==
  /\ BrowserOf[u] = BrowserOf[t]
  /\ page[t].kind = "provider"
  /\ At(t, "idle") /\ At(u, "idle")
  /\ page' = [page EXCEPT ![u] = page[t]]
  /\ UNCHANGED <<now, clientVars, cookie, thread, providerVars, raced>>

\* A callback address reloaded (u = t), or opened in another tab of the browser.
ReopenCallback(t, u) ==
  /\ BrowserOf[u] = BrowserOf[t]
  /\ page[t].code > 0
  /\ Send(u, [Idle EXCEPT !.pc = "callback_pop", !.context_id = page[t].state,
                          !.code = page[t].code])
  /\ UNCHANGED <<now, clientVars, cookie, page, providerVars, raced>>

Tick ==
  /\ now < MaxTime
  /\ now' = now + 1
  /\ UNCHANGED <<clientVars, cookie, thread, page, providerVars, raced>>

-------------------------------------------------------------------------------
(* GET /callback *)

\* The user cancelled: `error` is answered before the context is looked up.
CallbackError(t) ==
  /\ page[t].kind = "provider"
  /\ At(t, "idle")
  /\ page' = [page EXCEPT ![t] = PageOf("error", None, 0)]
  /\ UNCHANGED <<now, clientVars, cookie, thread, providerVars, raced>>

PeekContext(t) ==
  /\ At(t, "callback_pop")
  /\ thread[t].context_id \in authorization_cache
  /\ Goto(t, "callback_exchange")
  /\ UNCHANGED <<now, clientVars, cookie, page, providerVars, raced>>

PopContext(t) ==
  /\ At(t, "callback_pop")
  /\ thread[t].context_id \in authorization_cache
  /\ authorization_cache' = authorization_cache \ {thread[t].context_id}
  /\ Goto(t, "callback_exchange")
  /\ UNCHANGED <<now, context, cached, token_cache, cookie, page, providerVars, raced>>

CallbackPage(t, kind) == PageOf(kind, thread[t].context_id, thread[t].code)

MissingContext(t) ==
  /\ At(t, "callback_pop")
  /\ thread[t].context_id \notin authorization_cache
  /\ Respond(t, CallbackPage(t, "error"))
  /\ UNCHANGED <<now, clientVars, cookie, providerVars, raced>>

\* Authlib does not find the state in the session and raises; nothing in the
\* session has changed, so the response sets no cookie.
MismatchingState(t) ==
  /\ At(t, "callback_exchange")
  /\ thread[t].context_id \notin thread[t].session.states
  /\ Respond(t, CallbackPage(t, "error"))
  /\ UNCHANGED <<now, clientVars, cookie, providerVars, raced>>

\* authorize_access_token, parse_id_token and userinfo succeed.
ExchangeCode(t) ==
  LET code == <<thread[t].context_id, thread[t].code>> IN
  /\ At(t, "callback_exchange")
  /\ thread[t].context_id \in thread[t].session.states
  /\ code \notin redeemed
  /\ redeemed' = redeemed \cup {code}
  /\ Jump(t, [thread[t] EXCEPT !.pc = "callback_store", !.session = WithoutState(t),
                               !.token = thread[t].context_id])
  /\ UNCHANGED <<now, clientVars, cookie, page, issued, raced>>

RestoreContext(t) ==
  /\ At(t, "callback_exchange")
  /\ authorization_cache' = authorization_cache \cup {thread[t].context_id}
  /\ SetCookie(t, WithoutState(t))
  /\ Respond(t, CallbackPage(t, "error"))
  /\ UNCHANGED <<now, context, cached, token_cache, providerVars, raced>>

\* One of the three fails, before or after the code is spent.
ExchangeFails(t) ==
  /\ At(t, "callback_exchange")
  /\ thread[t].context_id \in thread[t].session.states
  /\ \/ UNCHANGED redeemed
     \/ redeemed' = redeemed \cup {<<thread[t].context_id, thread[t].code>>}
  /\ SetCookie(t, WithoutState(t))
  /\ Respond(t, CallbackPage(t, "error"))
  /\ UNCHANGED <<now, clientVars, issued, raced>>

\* The token response is stored under a fresh identifier; it may have brought no
\* refresh token.
StoreInClearedSession(t, r) ==
  LET c == thread[t].context_id IN
  /\ At(t, "callback_store")
  /\ cached[r].request = None
  /\ \E refresh_token \in {None, thread[t].token} :
       cached' = [cached EXCEPT ![r] =
                    [request |-> c, refresh_token |-> refresh_token,
                     claims |-> context[c].claims, created_at |-> now]]
  /\ token_cache' = token_cache \cup {r}
  /\ Jump(t, [thread[t] EXCEPT !.pc = "callback_render", !.result_id = r,
                               !.session = [EmptyJar EXCEPT !.result = r]])
  /\ UNCHANGED <<now, context, authorization_cache, cookie, page, providerVars, raced>>
StoreResult(t, r) ==
  LET c == thread[t].context_id IN
  /\ At(t, "callback_store")
  /\ cached[r].request = None
  /\ \E refresh_token \in {None, thread[t].token} :
       cached' = [cached EXCEPT ![r] =
                    [request |-> c, refresh_token |-> refresh_token,
                     claims |-> context[c].claims, created_at |-> now]]
  /\ token_cache' = token_cache \cup {r}
  /\ Jump(t, [thread[t] EXCEPT !.pc = "callback_render", !.result_id = r,
                               !.session.result = r])
  /\ UNCHANGED <<now, context, authorization_cache, cookie, page, providerVars, raced>>

SessionResultPage(t, n, claims) ==
  [kind |-> "result", state |-> thread[t].token, code |-> n,
   result_id |-> IF thread[t].session.result = None THEN thread[t].result_id
                 ELSE thread[t].session.result,
   claims |-> claims]
ResultPage(t, n, claims) ==
  [kind |-> "result", state |-> thread[t].token, code |-> n,
   result_id |-> thread[t].result_id, claims |-> claims]

RenderCallback(t) ==
  /\ At(t, "callback_render")
  /\ SetCookie(t, thread[t].session)
  /\ Respond(t, ResultPage(t, thread[t].code, context[thread[t].context_id].claims))
  /\ UNCHANGED <<now, clientVars, providerVars, raced>>

\* render_result fetches discovery outside every try: 500 once all is stored.
\* Flask saves the session with that response too.
RenderCallbackFails(t) ==
  /\ At(t, "callback_render")
  /\ SetCookie(t, thread[t].session)
  /\ Respond(t, CallbackPage(t, "error"))
  /\ UNCHANGED <<now, clientVars, providerVars, raced>>

-------------------------------------------------------------------------------
(* POST /refresh *)

\* The form carries the page's result_id; without one the session's is used.
RequestRefresh(t) ==
  /\ page[t].kind = "result"
  /\ \E r \in {page[t].result_id, cookie[BrowserOf[t]].result} :
       Send(t, [Idle EXCEPT !.pc = "refresh_prune", !.cutoff = Cutoff, !.result_id = r])
  /\ UNCHANGED <<now, clientVars, cookie, page, providerVars, raced>>

RefreshPrune(t) ==
  /\ At(t, "refresh_prune")
  /\ PruneCaches(t)
  /\ Goto(t, "refresh_get")
  /\ UNCHANGED <<now, cookie, page, providerVars, raced>>

\* The thread keeps the dict it found whatever becomes of the cache.
Refreshable(r) == r \in token_cache /\ cached[r].refresh_token # None

GetUnchecked(t) ==
  /\ At(t, "refresh_get")
  /\ Goto(t, "refresh_fetch")
  /\ UNCHANGED <<now, clientVars, cookie, page, providerVars, raced>>
GetCached(t) ==
  /\ At(t, "refresh_get")
  /\ Refreshable(thread[t].result_id)
  /\ Goto(t, "refresh_fetch")
  /\ UNCHANGED <<now, clientVars, cookie, page, providerVars, raced>>

NoRefreshToken(t) ==
  /\ At(t, "refresh_get")
  /\ ~Refreshable(thread[t].result_id)
  /\ Respond(t, PageOf("error", None, 0))
  /\ UNCHANGED <<now, clientVars, cookie, providerVars, raced>>

\* The refresh grant, for the token the dict holds by now.
FetchRefreshed(t) ==
  /\ At(t, "refresh_fetch")
  /\ Jump(t, [thread[t] EXCEPT !.pc = "refresh_write",
                               !.token = cached[thread[t].result_id].refresh_token])
  /\ UNCHANGED <<now, clientVars, cookie, page, providerVars, raced>>

RefreshFails(t) ==
  /\ At(t, "refresh_fetch")
  /\ Respond(t, PageOf("error", None, 0))
  /\ UNCHANGED <<now, clientVars, cookie, providerVars, raced>>

\* Written with no lock held ...
WriteToSessionResult(t) ==
  /\ At(t, "refresh_write")
  /\ cached' = [cached EXCEPT ![thread[t].session.result].refresh_token = thread[t].token]
  /\ Goto(t, "refresh_touch")
  /\ UNCHANGED <<now, context, authorization_cache, token_cache, cookie, page,
                 providerVars, raced>>
WriteRefreshToken(t) ==
  /\ At(t, "refresh_write")
  /\ cached' = [cached EXCEPT ![thread[t].result_id].refresh_token = thread[t].token]
  /\ Goto(t, "refresh_touch")
  /\ UNCHANGED <<now, context, authorization_cache, token_cache, cookie, page,
                 providerVars, raced>>

\* ... and the age reset under the lock, into the dict and not into the cache.
ReinsertCached(t) ==
  /\ At(t, "refresh_touch")
  /\ cached' = [cached EXCEPT ![thread[t].result_id].created_at = now]
  /\ token_cache' = token_cache \cup {thread[t].result_id}
  /\ Goto(t, "refresh_render")
  /\ UNCHANGED <<now, context, authorization_cache, cookie, page, providerVars, raced>>

TouchCached(t) ==
  /\ At(t, "refresh_touch")
  /\ cached' = [cached EXCEPT ![thread[t].result_id].created_at = now]
  /\ Goto(t, "refresh_render")
  /\ UNCHANGED <<now, context, authorization_cache, token_cache, cookie, page,
                 providerVars, raced>>

RenderRefresh(t) ==
  /\ At(t, "refresh_render")
  /\ Respond(t, ResultPage(t, 0, cached[thread[t].result_id].claims))
  /\ UNCHANGED <<now, clientVars, cookie, providerVars, raced>>

RenderRefreshFails(t) ==
  /\ At(t, "refresh_render")
  /\ Respond(t, PageOf("error", None, 0))
  /\ UNCHANGED <<now, clientVars, cookie, providerVars, raced>>

-------------------------------------------------------------------------------

Login(t) ==
  \/ \E claims \in Claims, c \in ContextId : RequestLogin(t, claims, c)
  \/ LoginPrune(t) \/ InsertContext(t)
  \/ AuthorizeRedirect(t) \/ AuthorizeRedirectFails(t)

Callback(t) ==
  \/ CallbackError(t)
  \/ PopContext(t) \/ MissingContext(t)
  \/ MismatchingState(t) \/ ExchangeCode(t) \/ ExchangeFails(t)
  \/ \E r \in ResultId : StoreResult(t, r)
  \/ RenderCallback(t) \/ RenderCallbackFails(t)

Refresh(t) ==
  \/ RequestRefresh(t) \/ RefreshPrune(t)
  \/ GetCached(t) \/ NoRefreshToken(t)
  \/ FetchRefreshed(t) \/ RefreshFails(t)
  \/ WriteRefreshToken(t) \/ TouchCached(t)
  \/ RenderRefresh(t) \/ RenderRefreshFails(t)

Visit(t) ==
  \/ RequestHome(t) \/ HomeResponse(t)
  \/ AuthorizeAtProvider(t)
  \/ \E u \in Tab : DuplicateTab(t, u) \/ ReopenCallback(t, u)

Next ==
  \/ Tick
  \/ \E t \in Tab : Visit(t) \/ Login(t) \/ Callback(t) \/ Refresh(t)

Spec == Init /\ [][Next]_vars

-------------------------------------------------------------------------------
(* Properties *)

HasKeys(r) ==
  /\ r.pc \in SessionPC => r.context_id \in ContextId
  /\ r.pc \in LoginPC => r.claims \in Claims
  /\ r.pc \in HoldsCachedPC => r.result_id \in ResultId
  /\ r.pc \in {"callback_store", "callback_render"} => r.token = r.context_id

\* Pages from which a tab can reach /callback.
NamesRequest(p) == p.kind = "provider" \/ p.code > 0

\* Every variable holds values of the shape app.py gives it: a handler past its
\* lookup has the key it looked up, and an address leads to a request made before.
TypeOK ==
  /\ now \in Nat
  /\ context \in [ContextId -> Context]
  /\ authorization_cache \subseteq ContextId
  /\ cached \in [ResultId -> Cached]
  /\ token_cache \subseteq ResultId
  /\ cookie \in [Browser -> Jar]
  /\ thread \in [Tab -> Thread]
  /\ \A t \in Tab : HasKeys(thread[t])
  /\ page \in [Tab -> Page]
  /\ \A t \in Tab : NamesRequest(page[t]) => page[t].state \in ContextId
  /\ issued \in [ContextId -> Nat]
  /\ redeemed \subseteq ContextId \X Nat
  /\ raced \subseteq ContextId

\* However often a callback address is delivered, reloaded or reached with
\* another code, by however many threads at once, one authorization request
\* gives at most one stored result: /callback pops the context under CACHE_LOCK.
OneResultPerRequest ==
  \A r, s \in ResultId :
    cached[r].request # None /\ cached[r].request = cached[s].request => r = s

\* What a result page shows belongs together, also after any number of parallel
\* logins and refreshes in the browser: the submitted claims, the ID Token and
\* the result_id in the refresh form are those of one authorization request.
ResultPageIsOneRequest ==
  \A t \in Tab :
    page[t].kind = "result" =>
      /\ page[t].claims = context[page[t].state].claims
      /\ cached[page[t].result_id].request = page[t].state

\* A stored refresh token is one of the grant the dict was made for, whatever
\* refreshes write without the lock; the claims beside it are that request's.
StoredTokenIsOwn ==
  \A r \in ResultId :
    cached[r].request # None =>
      /\ cached[r].refresh_token \in {None, cached[r].request}
      /\ cached[r].claims = context[cached[r].request].claims

\* prune_caches works with a cutoff read before the lock, yet what leaves a
\* cache without having been popped by its callback is older than the TTL.
OnlyExpiredArePruned ==
  [][/\ \A c \in authorization_cache \ authorization_cache' :
          \/ now - context[c].created_at > TTL
          \/ \E t \in Tab : PopContext(t) /\ thread[t].context_id = c
     /\ \A r \in token_cache \ token_cache' : now - cached[r].created_at > TTL]_vars

\* A result pruned while a refresh of it is in flight stays gone: the refresh
\* updates a dict no cache holds any more.
PrunedStaysGone ==
  [][\A r \in ResultId : cached[r].request # None /\ r \notin token_cache
       => r \notin token_cache']_vars

\* A callback that found its context finds its state in the session too, unless
\* the login's cookie was set while another login or callback of the same
\* browser was in flight: a cookie is lost to an overlap and to nothing else.
\* (Authlib's own expiry of the entry, after an hour, is not modelled.)
StateLostOnlyToOverlap ==
  \A t \in Tab :
    At(t, "callback_exchange") /\ thread[t].context_id \notin raced
      => thread[t].context_id \in thread[t].session.states

\* docs/test-client.md says that parallel tabs do not overwrite one another's
\* pending request: every callback that found its context finds its state.
PendingRequestNotOverwritten ==
  \A t \in Tab : At(t, "callback_exchange")
                   => thread[t].context_id \in thread[t].session.states

(* Why these hold: an inductive invariant, in parts. *)

Used(c) == context[c].claims # None

FreshPC == {"login_prune", "login_insert"}
ClaimPC == {"callback_exchange", "callback_store"}
RefreshedPC == {"refresh_write", "refresh_touch", "refresh_render"}

\* The key of a login that has not cached its context yet is nobody else's, and
\* every other key there is belongs to a context that was cached.
KeysInv ==
  /\ \A t \in Tab : thread[t].pc \in FreshPC =>
       /\ ~Used(thread[t].context_id)
       /\ \A u \in Tab \ {t} : thread[u].context_id # thread[t].context_id
  /\ \A t \in Tab : thread[t].pc \in SessionPC \ FreshPC => Used(thread[t].context_id)
  /\ \A t \in Tab : NamesRequest(page[t]) => Used(page[t].state)
  /\ \A c \in authorization_cache : Used(c)
  /\ \A r \in ResultId : cached[r].request # None => Used(cached[r].request)

\* A request is in one place: the cache, one thread that popped it, or a result.
ClaimInv ==
  /\ \A t \in Tab : thread[t].pc \in ClaimPC =>
       /\ thread[t].context_id \notin authorization_cache
       /\ \A u \in Tab \ {t} : thread[u].pc \in ClaimPC =>
            thread[u].context_id # thread[t].context_id
       /\ \A r \in ResultId : cached[r].request # thread[t].context_id
  /\ \A r \in ResultId : cached[r].request \notin authorization_cache
  /\ OneResultPerRequest

\* A thread that holds a dict of TOKEN_CACHE holds tokens of the same request.
ResultInv ==
  /\ \A r \in token_cache : cached[r].request # None
  /\ \A t \in Tab :
       LET entry == cached[thread[t].result_id] IN
       /\ thread[t].pc \in HoldsCachedPC => entry.request # None
       /\ thread[t].pc = "callback_render" => entry.request = thread[t].context_id
       /\ thread[t].pc = "refresh_fetch" => entry.refresh_token # None
       /\ thread[t].pc \in RefreshedPC => entry.request = thread[t].token
  /\ \A t \in Tab : page[t].kind = "result" =>
       page[t].state \in ContextId /\ page[t].result_id \in ResultId
  /\ StoredTokenIsOwn
  /\ ResultPageIsOneRequest

\* A request some page or callback of browser b can still be answered for.
NamedIn(b, c) ==
  \E t \in Tab :
    /\ BrowserOf[t] = b
    /\ \/ NamesRequest(page[t]) /\ page[t].state = c
       \/ thread[t].pc = "callback_pop" /\ thread[t].context_id = c

\* While it waits for its callback, its state is in the browser's cookie and in
\* every session that may replace that cookie, unless its own cookie raced.
SessionInv ==
  /\ \A b \in Browser, c \in authorization_cache \ raced :
       NamedIn(b, c) =>
         /\ c \in cookie[b].states
         /\ \A t \in Tab : BrowserOf[t] = b /\ thread[t].pc \in SessionPC
                            => c \in thread[t].session.states
  /\ StateLostOnlyToOverlap

\* A cutoff only gets older while its thread waits for the lock.
CutoffInv == \A t \in Tab : thread[t].pc \in PrunePC => thread[t].cutoff =< Cutoff

Inv == KeysInv /\ ClaimInv /\ ResultInv /\ SessionInv /\ CutoffInv

(* The promise of RelyingParty, under a refinement mapping *)

Claimed(c) == \E t \in Tab : thread[t].pc \in ClaimPC /\ thread[t].context_id = c

StatusBar ==
  [c \in ContextId |-> IF context[c].claims = None THEN "unused"
                       ELSE IF c \in authorization_cache THEN "pending"
                       ELSE IF Claimed(c) THEN "claimed"
                       ELSE "closed"]
ResultOfBar == [r \in ResultId |-> cached[r].request]

RP == INSTANCE RelyingParty WITH status <- StatusBar, resultOf <- ResultOfBar

\* Each request is claimed by one callback and yields at most one result, for
\* good: the handlers of app.py implement RelyingParty.
ImplementsRelyingParty == RP!Spec
===============================================================================
