--------------------------- MODULE TestClientProofs ---------------------------
(***************************************************************************)
(* Theorems about the test client, for any number of browsers, tabs,       *)
(* requests and results, any lifetime and any clock.                       *)
(***************************************************************************)
EXTENDS TestClient, TLAPS

(***************************************************************************)
(* Type correctness.                                                       *)
(***************************************************************************)

\* A tab with no request in flight is well formed.
LEMMA IdleThread == Idle \in Thread /\ HasKeys(Idle)
BY DEF Idle, Thread, EmptyJar, Jar, PC, HasKeys, SessionPC, LoginPC, CallbackPC,
       HoldsCachedPC

\* A cutoff may be negative, but it is a number.
LEMMA CutoffType == TypeOK => Cutoff \in Int
BY TestClientAssumption DEF TypeOK, Cutoff

\* The pages that are no result pages are pages.
LEMMA PageOfType ==
  ASSUME NEW kind \in {"home", "provider", "result", "error"},
         NEW c \in ContextId \cup {None}, NEW n \in Nat
  PROVE  PageOf(kind, c, n) \in Page
BY DEF PageOf, Page

\* A step that gives thread t a well-formed state leaves all of them well formed.
LEMMA JumpType ==
  ASSUME TypeOK, NEW t \in Tab, NEW r, Jump(t, r), r \in Thread, HasKeys(r)
  PROVE  /\ thread' \in [Tab -> Thread]
         /\ \A u \in Tab : HasKeys(thread'[u])
BY DEF TypeOK, Jump

\* A response leaves threads and pages well formed if its page is.
LEMMA RespondType ==
  ASSUME TypeOK, NEW t \in Tab, NEW p, Respond(t, p), p \in Page,
         NamesRequest(p) => p.state \in ContextId
  PROVE  /\ thread' \in [Tab -> Thread]
         /\ \A u \in Tab : HasKeys(thread'[u])
         /\ page' \in [Tab -> Page]
         /\ \A u \in Tab : NamesRequest(page'[u]) => page'[u].state \in ContextId
<1>1. Jump(t, Idle)
  BY DEF Respond
<1>2. /\ thread' \in [Tab -> Thread]
      /\ \A u \in Tab : HasKeys(thread'[u])
  BY <1>1, JumpType, IdleThread
<1>3. /\ page' \in [Tab -> Page]
      /\ \A u \in Tab : NamesRequest(page'[u]) => page'[u].state \in ContextId
  BY DEF Respond, TypeOK
<1> QED BY <1>2, <1>3

\* Pruning only takes keys out of the caches.
LEMMA PruneType ==
  ASSUME TypeOK, NEW t \in Tab, PruneCaches(t)
  PROVE  /\ authorization_cache' \subseteq ContextId
         /\ token_cache' \subseteq ResultId
         /\ UNCHANGED <<context, cached>>
BY DEF TypeOK, PruneCaches

\* What Goto leaves of a thread's shape.
LEMMA GotoType ==
  ASSUME TypeOK, NEW t \in Tab, NEW p \in PC, Goto(t, p),
         p \in SessionPC => thread[t].pc \in SessionPC,
         p \in LoginPC => thread[t].pc \in LoginPC,
         p \in HoldsCachedPC => thread[t].result_id \in ResultId,
         p \notin {"callback_store", "callback_render"}
  PROVE  /\ thread' \in [Tab -> Thread]
         /\ \A u \in Tab : HasKeys(thread'[u])
<1> DEFINE r == [thread[t] EXCEPT !.pc = p]
<1>1. r \in Thread
  BY DEF TypeOK, Thread
<1>2. HasKeys(r)
  BY DEF TypeOK, Thread, HasKeys
<1>3. Jump(t, r)
  BY DEF Goto
<1> QED BY <1>1, <1>2, <1>3, JumpType

\* A new request starts in a well-formed thread with the browser's cookie.
LEMMA SendType ==
  ASSUME TypeOK, NEW t \in Tab, NEW r \in Thread, HasKeys(r), Send(t, r)
  PROVE  /\ thread' \in [Tab -> Thread]
         /\ \A u \in Tab : HasKeys(thread'[u])
<1> DEFINE q == [r EXCEPT !.session = cookie[BrowserOf[t]]]
<1>1. cookie[BrowserOf[t]] \in Jar
  BY TestClientAssumption DEF TypeOK
<1>2. q \in Thread /\ HasKeys(q)
  BY <1>1 DEF Thread, HasKeys
<1>3. Jump(t, q)
  BY DEF Send
<1> QED BY <1>2, <1>3, JumpType

\* The sessions the responses store are sessions.
LEMMA SessionType ==
  ASSUME TypeOK, NEW t \in Tab, thread[t].pc \in SessionPC
  PROVE  /\ thread[t].session \in Jar
         /\ WithState(t) \in Jar
         /\ WithoutState(t) \in Jar
BY DEF TypeOK, Thread, HasKeys, Jar, WithState, WithoutState

\* A session is a cookie.
LEMMA SetCookieType ==
  ASSUME TypeOK, NEW t \in Tab, NEW jar \in Jar, SetCookie(t, jar)
  PROVE  cookie' \in [Browser -> Jar]
BY DEF TypeOK, SetCookie

\* An error page of /callback keeps the address of a request.
LEMMA CallbackPageType ==
  ASSUME TypeOK, NEW t \in Tab, thread[t].pc \in CallbackPC
  PROVE  /\ CallbackPage(t, "error") \in Page
         /\ CallbackPage(t, "error").state \in ContextId
<1>1. thread[t].context_id \in ContextId /\ thread[t].code \in Nat
  BY DEF TypeOK, Thread, HasKeys, SessionPC
<1> QED BY <1>1 DEF CallbackPage, PageOf, Page

-------------------------------------------------------------------------------

\* Page visits and what happens at the provider keep TypeOK.
LEMMA VisitType == ASSUME TypeOK, NEW t \in Tab, Visit(t) PROVE TypeOK'
<1> USE TestClientAssumption
<1>1. CASE RequestHome(t)
  <2> DEFINE r == [Idle EXCEPT !.pc = "home_prune", !.cutoff = Cutoff]
  <2>1. r \in Thread /\ HasKeys(r)
    BY IdleThread, CutoffType DEF Thread, PC, HasKeys, SessionPC, LoginPC, CallbackPC,
                                  HoldsCachedPC
  <2>2. Send(t, r)
    BY <1>1 DEF RequestHome
  <2>3. thread' \in [Tab -> Thread] /\ \A u \in Tab : HasKeys(thread'[u])
    BY <2>1, <2>2, SendType
  <2> QED BY <1>1, <2>3 DEF RequestHome, TypeOK, clientVars, providerVars
<1>2. CASE HomeResponse(t)
  <2>1. /\ PageOf("home", None, 0) \in Page
        /\ ~NamesRequest(PageOf("home", None, 0))
    BY PageOfType DEF PageOf, NamesRequest
  <2> QED
    BY <1>2, <2>1, PruneType, RespondType DEF HomeResponse, TypeOK, providerVars
<1>3. CASE AuthorizeAtProvider(t)
  <2> DEFINE c == page[t].state
             r == [Idle EXCEPT !.pc = "callback_pop", !.context_id = c,
                               !.code = issued[c] + 1]
  <2>1. c \in ContextId
    BY <1>3 DEF AuthorizeAtProvider, TypeOK, NamesRequest
  <2>a. issued[c] + 1 \in Nat
    BY <2>1 DEF TypeOK
  <2>2. r \in Thread /\ HasKeys(r)
    BY <2>1, <2>a, IdleThread DEF Thread, PC, HasKeys, SessionPC, LoginPC,
                                  CallbackPC, HoldsCachedPC
  <2>3. Send(t, r)
    BY <1>3 DEF AuthorizeAtProvider
  <2>4. thread' \in [Tab -> Thread] /\ \A u \in Tab : HasKeys(thread'[u])
    BY <2>2, <2>3, SendType
  <2>5. issued' \in [ContextId -> Nat]
    BY <1>3, <2>1 DEF AuthorizeAtProvider, TypeOK
  <2> QED BY <1>3, <2>4, <2>5 DEF AuthorizeAtProvider, TypeOK, clientVars
<1>4. ASSUME NEW u \in Tab, DuplicateTab(t, u) PROVE TypeOK'
  BY <1>4 DEF DuplicateTab, TypeOK, clientVars, providerVars
<1>5. ASSUME NEW u \in Tab, ReopenCallback(t, u) PROVE TypeOK'
  <2> DEFINE r == [Idle EXCEPT !.pc = "callback_pop", !.context_id = page[t].state,
                               !.code = page[t].code]
  <2>1. page[t].state \in ContextId /\ page[t].code \in Nat
    BY <1>5 DEF ReopenCallback, TypeOK, NamesRequest, Page
  <2>2. r \in Thread /\ HasKeys(r)
    BY <2>1, IdleThread DEF Thread, PC, HasKeys, SessionPC, LoginPC,
                            CallbackPC, HoldsCachedPC
  <2>3. Send(u, r)
    BY <1>5 DEF ReopenCallback
  <2>4. thread' \in [Tab -> Thread] /\ \A v \in Tab : HasKeys(thread'[v])
    BY <2>2, <2>3, SendType
  <2> QED BY <1>5, <2>4 DEF ReopenCallback, TypeOK, clientVars, providerVars
<1> QED BY <1>1, <1>2, <1>3, <1>4, <1>5 DEF Visit

\* POST /login keeps TypeOK.
LEMMA LoginType == ASSUME TypeOK, NEW t \in Tab, Login(t) PROVE TypeOK'
<1> USE TestClientAssumption
<1>1. ASSUME NEW claims \in Claims, NEW c \in ContextId, RequestLogin(t, claims, c)
      PROVE  TypeOK'
  <2> DEFINE r == [Idle EXCEPT !.pc = "login_prune", !.cutoff = Cutoff,
                               !.context_id = c, !.claims = claims]
  <2>1. r \in Thread /\ HasKeys(r)
    BY IdleThread, CutoffType DEF Thread, PC, HasKeys, SessionPC, LoginPC, CallbackPC,
                                  HoldsCachedPC
  <2>2. Send(t, r)
    BY <1>1 DEF RequestLogin
  <2>3. thread' \in [Tab -> Thread] /\ \A u \in Tab : HasKeys(thread'[u])
    BY <2>1, <2>2, SendType
  <2> QED BY <1>1, <2>3 DEF RequestLogin, TypeOK, clientVars, providerVars
<1>2. CASE LoginPrune(t)
  <2>1. thread' \in [Tab -> Thread] /\ \A u \in Tab : HasKeys(thread'[u])
    BY <1>2, GotoType DEF LoginPrune, At, PC, SessionPC, LoginPC, HoldsCachedPC
  <2> QED BY <1>2, <2>1, PruneType DEF LoginPrune, TypeOK, providerVars
<1>3. CASE InsertContext(t)
  <2>1. thread' \in [Tab -> Thread] /\ \A u \in Tab : HasKeys(thread'[u])
    BY <1>3, GotoType DEF InsertContext, At, PC, SessionPC, LoginPC, HoldsCachedPC
  <2>2. thread[t].context_id \in ContextId /\ thread[t].claims \in Claims
    BY <1>3 DEF InsertContext, At, TypeOK, HasKeys, SessionPC, LoginPC
  <2>3. [claims |-> thread[t].claims, created_at |-> now] \in Context
    BY <2>2 DEF Context, TypeOK
  <2> QED BY <1>3, <2>1, <2>2, <2>3 DEF InsertContext, TypeOK, providerVars
<1>4. CASE AuthorizeRedirect(t)
  <2> DEFINE p == PageOf("provider", thread[t].context_id, 0)
  <2>1. thread[t].pc \in SessionPC /\ thread[t].context_id \in ContextId
    BY <1>4 DEF AuthorizeRedirect, At, TypeOK, HasKeys, SessionPC, LoginPC
  <2>2. p \in Page /\ p.state \in ContextId
    BY <2>1 DEF PageOf, Page
  <2>3. Respond(t, p) /\ SetCookie(t, WithState(t))
    BY <1>4 DEF AuthorizeRedirect
  <2>4. cookie' \in [Browser -> Jar]
    BY <2>1, <2>3, SessionType, SetCookieType
  <2>5. raced' \subseteq ContextId
    BY <1>4, <2>1 DEF AuthorizeRedirect, TypeOK
  <2> QED
    BY <1>4, <2>2, <2>3, <2>4, <2>5, RespondType
    DEF AuthorizeRedirect, TypeOK, clientVars, providerVars
<1>5. CASE AuthorizeRedirectFails(t)
  <2>1. /\ PageOf("error", None, 0) \in Page
        /\ ~NamesRequest(PageOf("error", None, 0))
    BY PageOfType DEF PageOf, NamesRequest
  <2> QED
    BY <1>5, <2>1, RespondType
    DEF AuthorizeRedirectFails, TypeOK, clientVars, providerVars
<1> QED BY <1>1, <1>2, <1>3, <1>4, <1>5 DEF Login

\* GET /callback keeps TypeOK.
LEMMA CallbackType == ASSUME TypeOK, NEW t \in Tab, Callback(t) PROVE TypeOK'
<1> USE TestClientAssumption
<1>1. CASE CallbackError(t)
  <2>1. /\ PageOf("error", None, 0) \in Page
        /\ ~NamesRequest(PageOf("error", None, 0))
    BY PageOfType DEF PageOf, NamesRequest
  <2> QED BY <1>1, <2>1 DEF CallbackError, TypeOK, clientVars, providerVars
<1>2. CASE PopContext(t)
  <2>1. thread' \in [Tab -> Thread] /\ \A u \in Tab : HasKeys(thread'[u])
    BY <1>2, GotoType
    DEF PopContext, At, PC, CallbackPC, SessionPC, LoginPC, HoldsCachedPC
  <2> QED BY <1>2, <2>1 DEF PopContext, TypeOK, providerVars
<1>3. CASE MissingContext(t)
  <2>1. thread[t].pc \in CallbackPC
    BY <1>3 DEF MissingContext, At, CallbackPC
  <2> QED
    BY <1>3, <2>1, CallbackPageType, RespondType
    DEF MissingContext, TypeOK, clientVars, providerVars
<1>4. CASE MismatchingState(t)
  <2>1. thread[t].pc \in CallbackPC
    BY <1>4 DEF MismatchingState, At, CallbackPC
  <2> QED
    BY <1>4, <2>1, CallbackPageType, RespondType
    DEF MismatchingState, TypeOK, clientVars, providerVars
<1>5. CASE ExchangeCode(t)
  <2> DEFINE r == [thread[t] EXCEPT !.pc = "callback_store", !.session = WithoutState(t),
                                    !.token = thread[t].context_id]
  <2>1. thread[t].pc \in CallbackPC /\ thread[t].pc \in SessionPC
    BY <1>5 DEF ExchangeCode, At, CallbackPC, SessionPC
  <2>2. thread[t].context_id \in ContextId /\ thread[t].code \in Nat
    BY <2>1 DEF TypeOK, Thread, HasKeys
  <2>a. thread[t] \in Thread /\ WithoutState(t) \in Jar
    BY <2>1, SessionType DEF TypeOK
  <2>3. r \in Thread /\ HasKeys(r)
    BY <2>a, <2>2
    DEF Thread, PC, HasKeys, SessionPC, LoginPC, CallbackPC, HoldsCachedPC
  <2>4. Jump(t, r)
    BY <1>5 DEF ExchangeCode
  <2>5. thread' \in [Tab -> Thread] /\ \A u \in Tab : HasKeys(thread'[u])
    BY <2>3, <2>4, JumpType
  <2>6. redeemed' \subseteq ContextId \X Nat
    BY <1>5, <2>2 DEF ExchangeCode, TypeOK
  <2> QED BY <1>5, <2>5, <2>6 DEF ExchangeCode, TypeOK, clientVars
<1>6. CASE ExchangeFails(t)
  <2>1. thread[t].pc \in CallbackPC /\ thread[t].pc \in SessionPC
    BY <1>6 DEF ExchangeFails, At, CallbackPC, SessionPC
  <2>2. thread[t].context_id \in ContextId /\ thread[t].code \in Nat
    BY <2>1 DEF TypeOK, Thread, HasKeys
  <2>3. redeemed' \subseteq ContextId \X Nat
    BY <1>6, <2>2 DEF ExchangeFails, TypeOK
  <2>4. cookie' \in [Browser -> Jar]
    BY <1>6, <2>1, SessionType, SetCookieType DEF ExchangeFails
  <2> QED
    BY <1>6, <2>1, <2>3, <2>4, CallbackPageType, RespondType
    DEF ExchangeFails, TypeOK, clientVars
<1>7. ASSUME NEW r \in ResultId, StoreResult(t, r) PROVE TypeOK'
  <2> DEFINE q == [thread[t] EXCEPT !.pc = "callback_render", !.result_id = r,
                                    !.session.result = r]
  <2>1. thread[t].pc \in CallbackPC /\ thread[t].pc \in SessionPC
    BY <1>7 DEF StoreResult, At, CallbackPC, SessionPC
  <2>2. thread[t].context_id \in ContextId /\ thread[t].token \in ContextId \cup {None}
    BY <2>1 DEF TypeOK, Thread, HasKeys
  <2>3. [thread[t].session EXCEPT !.result = r] \in Jar
    BY <2>1, SessionType DEF Jar
  <2>a. thread[t] \in Thread
    BY DEF TypeOK
  <2>b. thread[t].token = thread[t].context_id
    BY <1>7 DEF StoreResult, At, TypeOK, HasKeys
  <2>4. q \in Thread /\ HasKeys(q)
    BY <2>a, <2>b, <2>2, <2>3
    DEF Thread, PC, HasKeys, SessionPC, LoginPC, CallbackPC, HoldsCachedPC
  <2>5. Jump(t, q)
    BY <1>7 DEF StoreResult
  <2>6. thread' \in [Tab -> Thread] /\ \A u \in Tab : HasKeys(thread'[u])
    BY <2>4, <2>5, JumpType
  <2>7. cached' \in [ResultId -> Cached]
    <3>1. context[thread[t].context_id].claims \in Claims \cup {None}
      BY <2>2 DEF TypeOK, Context
    <3>2. PICK refresh_token \in {None, thread[t].token} :
            cached' = [cached EXCEPT ![r] =
                         [request |-> thread[t].context_id, refresh_token |-> refresh_token,
                          claims |-> context[thread[t].context_id].claims,
                          created_at |-> now]]
      BY <1>7 DEF StoreResult
    <3> QED BY <2>2, <3>1, <3>2 DEF TypeOK, Cached
  <2> QED BY <1>7, <2>6, <2>7 DEF StoreResult, TypeOK, providerVars
<1>8. CASE RenderCallback(t)
  <2> DEFINE p == ResultPage(t, thread[t].code, context[thread[t].context_id].claims)
  <2>1. thread[t].pc \in SessionPC /\ thread[t].pc \in HoldsCachedPC
    BY <1>8 DEF RenderCallback, At, CallbackPC, SessionPC, HoldsCachedPC
  <2>2. /\ thread[t].context_id \in ContextId
        /\ thread[t].result_id \in ResultId
        /\ thread[t].code \in Nat
        /\ thread[t].token \in ContextId \cup {None}
    BY <2>1 DEF TypeOK, Thread, HasKeys
  <2>3. context[thread[t].context_id].claims \in Claims \cup {None}
    BY <2>2 DEF TypeOK, Context
  <2>4. p \in Page
    BY <2>2, <2>3 DEF ResultPage, Page
  <2>5. p.state \in ContextId
    BY <1>8, <2>2 DEF RenderCallback, At, TypeOK, HasKeys, ResultPage
  <2> QED
    BY <1>8, <2>1, <2>4, <2>5, SessionType, SetCookieType, RespondType
    DEF RenderCallback, TypeOK, clientVars, providerVars
<1>9. CASE RenderCallbackFails(t)
  <2>1. thread[t].pc \in CallbackPC /\ thread[t].pc \in SessionPC
    BY <1>9 DEF RenderCallbackFails, At, CallbackPC, SessionPC
  <2> QED
    BY <1>9, <2>1, CallbackPageType, SessionType, SetCookieType, RespondType
    DEF RenderCallbackFails, TypeOK, clientVars, providerVars
<1> QED BY <1>1, <1>2, <1>3, <1>4, <1>5, <1>6, <1>7, <1>8, <1>9 DEF Callback

\* POST /refresh keeps TypeOK.
LEMMA RefreshType == ASSUME TypeOK, NEW t \in Tab, Refresh(t) PROVE TypeOK'
<1> USE TestClientAssumption
<1>a. /\ PageOf("error", None, 0) \in Page
      /\ ~NamesRequest(PageOf("error", None, 0))
  BY PageOfType DEF PageOf, NamesRequest
<1>1. CASE RequestRefresh(t)
  <2>1. PICK r \in {page[t].result_id, cookie[BrowserOf[t]].result} :
          Send(t, [Idle EXCEPT !.pc = "refresh_prune", !.cutoff = Cutoff,
                               !.result_id = r])
    BY <1>1 DEF RequestRefresh
  <2> DEFINE q == [Idle EXCEPT !.pc = "refresh_prune", !.cutoff = Cutoff,
                               !.result_id = r]
  <2>2. r \in ResultId \cup {None}
    BY DEF TypeOK, Page, Jar
  <2>3. q \in Thread /\ HasKeys(q)
    <3>1. "refresh_prune" \in PC /\ Cutoff \in Int
      BY CutoffType DEF PC, RefreshPC
    <3>2. q \in Thread /\ q.pc = "refresh_prune"
      BY <2>2, <3>1, IdleThread DEF Thread
    <3> HIDE DEF q
    <3>3. HasKeys(q)
      BY <3>2 DEF HasKeys, SessionPC, LoginPC, CallbackPC, HoldsCachedPC
    <3> QED BY <3>2, <3>3
  <2>4. thread' \in [Tab -> Thread] /\ \A u \in Tab : HasKeys(thread'[u])
    BY <2>1, <2>3, SendType
  <2> QED BY <1>1, <2>4 DEF RequestRefresh, TypeOK, clientVars, providerVars
<1>2. CASE RefreshPrune(t)
  <2>1. thread' \in [Tab -> Thread] /\ \A u \in Tab : HasKeys(thread'[u])
    BY <1>2, GotoType
    DEF RefreshPrune, PC, RefreshPC, SessionPC, LoginPC, CallbackPC, HoldsCachedPC
  <2> QED BY <1>2, <2>1, PruneType DEF RefreshPrune, TypeOK, providerVars
<1>3. CASE GetCached(t)
  <2>1. thread[t].result_id \in ResultId
    BY <1>3 DEF GetCached, Refreshable, TypeOK
  <2>2. thread' \in [Tab -> Thread] /\ \A u \in Tab : HasKeys(thread'[u])
    BY <1>3, <2>1, GotoType
    DEF GetCached, PC, RefreshPC, SessionPC, LoginPC, CallbackPC, HoldsCachedPC
  <2> QED BY <1>3, <2>2 DEF GetCached, TypeOK, clientVars, providerVars
<1>4. CASE NoRefreshToken(t)
  BY <1>4, <1>a, RespondType DEF NoRefreshToken, TypeOK, clientVars, providerVars
<1>5. CASE FetchRefreshed(t)
  <2> DEFINE r == [thread[t] EXCEPT !.pc = "refresh_write",
                                    !.token = cached[thread[t].result_id].refresh_token]
  <2>1. thread[t] \in Thread /\ thread[t].result_id \in ResultId
    BY <1>5 DEF FetchRefreshed, At, TypeOK, HasKeys, HoldsCachedPC
  <2>2. cached[thread[t].result_id].refresh_token \in ContextId \cup {None}
    BY <2>1 DEF TypeOK, Cached
  <2>3. r \in Thread /\ HasKeys(r)
    BY <2>1, <2>2
    DEF Thread, PC, HasKeys, SessionPC, LoginPC, CallbackPC, RefreshPC, HoldsCachedPC
  <2>4. Jump(t, r)
    BY <1>5 DEF FetchRefreshed
  <2>5. thread' \in [Tab -> Thread] /\ \A u \in Tab : HasKeys(thread'[u])
    BY <2>3, <2>4, JumpType
  <2> QED BY <1>5, <2>5 DEF FetchRefreshed, TypeOK, clientVars, providerVars
<1>6. CASE RefreshFails(t)
  BY <1>6, <1>a, RespondType DEF RefreshFails, TypeOK, clientVars, providerVars
<1>7. CASE WriteRefreshToken(t)
  <2>1. thread[t].result_id \in ResultId /\ thread[t].token \in ContextId \cup {None}
    BY <1>7 DEF WriteRefreshToken, At, TypeOK, Thread, HasKeys, HoldsCachedPC
  <2>2. thread' \in [Tab -> Thread] /\ \A u \in Tab : HasKeys(thread'[u])
    BY <1>7, <2>1, GotoType
    DEF WriteRefreshToken, PC, RefreshPC, SessionPC, LoginPC, CallbackPC, HoldsCachedPC
  <2>3. cached' \in [ResultId -> Cached]
    BY <1>7, <2>1 DEF WriteRefreshToken, TypeOK, Cached
  <2> QED BY <1>7, <2>2, <2>3 DEF WriteRefreshToken, TypeOK, providerVars
<1>8. CASE TouchCached(t)
  <2>1. thread[t].result_id \in ResultId
    BY <1>8 DEF TouchCached, At, TypeOK, HasKeys, HoldsCachedPC
  <2>2. thread' \in [Tab -> Thread] /\ \A u \in Tab : HasKeys(thread'[u])
    BY <1>8, <2>1, GotoType
    DEF TouchCached, PC, RefreshPC, SessionPC, LoginPC, CallbackPC, HoldsCachedPC
  <2>3. cached' \in [ResultId -> Cached]
    BY <1>8, <2>1 DEF TouchCached, TypeOK, Cached
  <2> QED BY <1>8, <2>2, <2>3 DEF TouchCached, TypeOK, providerVars
<1>9. CASE RenderRefresh(t)
  <2> DEFINE p == ResultPage(t, 0, cached[thread[t].result_id].claims)
  <2>1. /\ thread[t].result_id \in ResultId
        /\ thread[t].token \in ContextId \cup {None}
    BY <1>9 DEF RenderRefresh, At, TypeOK, Thread, HasKeys, HoldsCachedPC
  <2>2. cached[thread[t].result_id].claims \in Claims \cup {None}
    BY <2>1 DEF TypeOK, Cached
  <2>3. p \in Page /\ ~NamesRequest(p)
    BY <2>1, <2>2 DEF ResultPage, Page, NamesRequest
  <2> QED
    BY <1>9, <2>3, RespondType DEF RenderRefresh, TypeOK, clientVars, providerVars
<1>10. CASE RenderRefreshFails(t)
  BY <1>10, <1>a, RespondType DEF RenderRefreshFails, TypeOK, clientVars, providerVars
<1> QED
  BY <1>1, <1>2, <1>3, <1>4, <1>5, <1>6, <1>7, <1>8, <1>9, <1>10 DEF Refresh

\* The clock keeps TypeOK.
LEMMA TickType == ASSUME TypeOK, Tick PROVE TypeOK'
BY DEF Tick, TypeOK, clientVars, providerVars

\* A started process has well-formed, empty state.
LEMMA InitType == Init => TypeOK
<1> SUFFICES ASSUME Init PROVE TypeOK
  OBVIOUS
<1>1. EmptyJar \in Jar
  BY DEF EmptyJar, Jar
<1>2. PageOf("home", None, 0) \in Page /\ ~NamesRequest(PageOf("home", None, 0))
  BY PageOfType DEF PageOf, NamesRequest
<1>3. [request |-> None, refresh_token |-> None, claims |-> None, created_at |-> 0] \in Cached
  BY DEF Cached
<1>4. [claims |-> None, created_at |-> 0] \in Context
  BY DEF Context
<1> QED BY <1>1, <1>2, <1>3, <1>4, IdleThread DEF Init, TypeOK

\* In every behaviour, whatever the number of tabs and requests, the variables
\* hold values of the shape app.py gives them and handlers have their keys.
THEOREM TypeCorrect == Spec => []TypeOK
<1>1. ASSUME TypeOK, [Next]_vars PROVE TypeOK'
  <2>1. CASE Tick
    BY <1>1, <2>1, TickType
  <2>2. ASSUME NEW t \in Tab, Visit(t) PROVE TypeOK'
    BY <1>1, <2>2, VisitType
  <2>3. ASSUME NEW t \in Tab, Login(t) PROVE TypeOK'
    BY <1>1, <2>3, LoginType
  <2>4. ASSUME NEW t \in Tab, Callback(t) PROVE TypeOK'
    BY <1>1, <2>4, CallbackType
  <2>5. ASSUME NEW t \in Tab, Refresh(t) PROVE TypeOK'
    BY <1>1, <2>5, RefreshType
  <2>6. CASE UNCHANGED vars
    BY <1>1, <2>6 DEF vars, clientVars, providerVars, TypeOK
  <2> QED BY <1>1, <2>1, <2>2, <2>3, <2>4, <2>5, <2>6 DEF Next
<1> QED BY <1>1, InitType, PTL DEF Spec

(***************************************************************************)
(* The inductive invariant: each action of a thread keeps each part of it. *)
(* The steps follow the handlers: pages, /login, /callback, /refresh.      *)
(***************************************************************************)

\* Keys: a login draws a key no thread, page or dict has, and whatever a callback
\* is sent with comes from an address that names a cached request.
LEMMA KeysStep ==
  ASSUME TypeOK, KeysInv, NEW t \in Tab,
         Visit(t) \/ Login(t) \/ Callback(t) \/ Refresh(t)
  PROVE  KeysInv'
<1> USE TestClientAssumption
    DEF TypeOK, HasKeys, Thread, NamesRequest, SessionPC, LoginPC, CallbackPC, HoldsCachedPC,
        clientVars, providerVars, At, Jump, Goto, Send, Respond, Idle,
        KeysInv, Used, FreshPC
<1>1. CASE RequestHome(t)
  BY <1>1 DEF RequestHome
<1>2. CASE HomeResponse(t)
  BY <1>2 DEF HomeResponse, PruneCaches, PageOf
<1>3. CASE AuthorizeAtProvider(t)
  BY <1>3 DEF AuthorizeAtProvider
<1>4. ASSUME NEW u \in Tab, DuplicateTab(t, u) PROVE KeysInv'
  BY <1>4 DEF DuplicateTab
<1>5. ASSUME NEW u \in Tab, ReopenCallback(t, u) PROVE KeysInv'
  BY <1>5 DEF ReopenCallback
<1>6. ASSUME NEW claims \in Claims, NEW c \in ContextId, RequestLogin(t, claims, c) PROVE KeysInv'
  BY <1>6 DEF RequestLogin, Unused
<1>7. CASE LoginPrune(t)
  BY <1>7 DEF LoginPrune, PruneCaches
<1>8. CASE InsertContext(t)
  BY <1>8 DEF InsertContext
<1>9. CASE AuthorizeRedirect(t)
  BY <1>9 DEF AuthorizeRedirect, PageOf
<1>10. CASE AuthorizeRedirectFails(t)
  BY <1>10 DEF AuthorizeRedirectFails, PageOf
<1>11. CASE CallbackError(t)
  BY <1>11 DEF CallbackError, PageOf
<1>12. CASE PopContext(t)
  BY <1>12 DEF PopContext
<1>13. CASE MissingContext(t)
  BY <1>13 DEF MissingContext, CallbackPage, PageOf
<1>14. CASE MismatchingState(t)
  BY <1>14 DEF MismatchingState, CallbackPage, PageOf
<1>15. CASE ExchangeCode(t)
  BY <1>15 DEF ExchangeCode
<1>16. CASE ExchangeFails(t)
  BY <1>16 DEF ExchangeFails, CallbackPage, PageOf
<1>17. ASSUME NEW r \in ResultId, StoreResult(t, r) PROVE KeysInv'
  BY <1>17 DEF StoreResult
<1>18. CASE RenderCallback(t)
  BY <1>18 DEF RenderCallback, ResultPage
<1>19. CASE RenderCallbackFails(t)
  BY <1>19 DEF RenderCallbackFails, CallbackPage, PageOf
<1>20. CASE RequestRefresh(t)
  BY <1>20 DEF RequestRefresh
<1>21. CASE RefreshPrune(t)
  BY <1>21 DEF RefreshPrune, PruneCaches
<1>22. CASE GetCached(t)
  BY <1>22 DEF GetCached, Refreshable
<1>23. CASE NoRefreshToken(t)
  BY <1>23 DEF NoRefreshToken, PageOf
<1>24. CASE FetchRefreshed(t)
  BY <1>24 DEF FetchRefreshed
<1>25. CASE RefreshFails(t)
  BY <1>25 DEF RefreshFails, PageOf
<1>26. CASE WriteRefreshToken(t)
  BY <1>26 DEF WriteRefreshToken
<1>27. CASE TouchCached(t)
  BY <1>27 DEF TouchCached
<1>28. CASE RenderRefresh(t)
  BY <1>28 DEF RenderRefresh, ResultPage
<1>29. CASE RenderRefreshFails(t)
  BY <1>29 DEF RenderRefreshFails, PageOf
<1> QED
  BY <1>1, <1>2, <1>3, <1>4, <1>5, <1>6, <1>7, <1>8, <1>9, <1>10,
     <1>11, <1>12, <1>13, <1>14, <1>15, <1>16, <1>17, <1>18, <1>19,
     <1>20, <1>21, <1>22, <1>23, <1>24, <1>25, <1>26, <1>27, <1>28, <1>29
  DEF Visit, Login, Callback, Refresh

\* Claims: only PopContext moves a request from the cache to a thread, only
\* StoreResult from that thread to a result, and only InsertContext, which has a
\* key of its own, puts one into the cache.
LEMMA ClaimStep ==
  ASSUME TypeOK, KeysInv, ClaimInv, NEW t \in Tab,
         Visit(t) \/ Login(t) \/ Callback(t) \/ Refresh(t)
  PROVE  ClaimInv'
<1> USE TestClientAssumption
    DEF TypeOK, HasKeys, Thread, NamesRequest, SessionPC, LoginPC, CallbackPC, HoldsCachedPC,
        clientVars, providerVars, At, Jump, Goto, Send, Respond, Idle,
        KeysInv, ClaimInv, OneResultPerRequest, Used, FreshPC, ClaimPC
<1>1. CASE RequestHome(t)
  BY <1>1 DEF RequestHome
<1>2. CASE HomeResponse(t)
  BY <1>2 DEF HomeResponse, PruneCaches, PageOf
<1>3. CASE AuthorizeAtProvider(t)
  BY <1>3 DEF AuthorizeAtProvider
<1>4. ASSUME NEW u \in Tab, DuplicateTab(t, u) PROVE ClaimInv'
  BY <1>4 DEF DuplicateTab
<1>5. ASSUME NEW u \in Tab, ReopenCallback(t, u) PROVE ClaimInv'
  BY <1>5 DEF ReopenCallback
<1>6. ASSUME NEW claims \in Claims, NEW c \in ContextId, RequestLogin(t, claims, c) PROVE ClaimInv'
  BY <1>6 DEF RequestLogin, Unused
<1>7. CASE LoginPrune(t)
  BY <1>7 DEF LoginPrune, PruneCaches
<1>8. CASE InsertContext(t)
  BY <1>8 DEF InsertContext
<1>9. CASE AuthorizeRedirect(t)
  BY <1>9 DEF AuthorizeRedirect, PageOf
<1>10. CASE AuthorizeRedirectFails(t)
  BY <1>10 DEF AuthorizeRedirectFails, PageOf
<1>11. CASE CallbackError(t)
  BY <1>11 DEF CallbackError, PageOf
<1>12. CASE PopContext(t)
  BY <1>12 DEF PopContext
<1>13. CASE MissingContext(t)
  BY <1>13 DEF MissingContext, CallbackPage, PageOf
<1>14. CASE MismatchingState(t)
  BY <1>14 DEF MismatchingState, CallbackPage, PageOf
<1>15. CASE ExchangeCode(t)
  BY <1>15 DEF ExchangeCode
<1>16. CASE ExchangeFails(t)
  BY <1>16 DEF ExchangeFails, CallbackPage, PageOf
<1>17. ASSUME NEW r \in ResultId, StoreResult(t, r) PROVE ClaimInv'
  BY <1>17 DEF StoreResult
<1>18. CASE RenderCallback(t)
  BY <1>18 DEF RenderCallback, ResultPage
<1>19. CASE RenderCallbackFails(t)
  BY <1>19 DEF RenderCallbackFails, CallbackPage, PageOf
<1>20. CASE RequestRefresh(t)
  BY <1>20 DEF RequestRefresh
<1>21. CASE RefreshPrune(t)
  BY <1>21 DEF RefreshPrune, PruneCaches
<1>22. CASE GetCached(t)
  BY <1>22 DEF GetCached, Refreshable
<1>23. CASE NoRefreshToken(t)
  BY <1>23 DEF NoRefreshToken, PageOf
<1>24. CASE FetchRefreshed(t)
  BY <1>24 DEF FetchRefreshed
<1>25. CASE RefreshFails(t)
  BY <1>25 DEF RefreshFails, PageOf
<1>26. CASE WriteRefreshToken(t)
  BY <1>26 DEF WriteRefreshToken
<1>27. CASE TouchCached(t)
  BY <1>27 DEF TouchCached
<1>28. CASE RenderRefresh(t)
  BY <1>28 DEF RenderRefresh, ResultPage
<1>29. CASE RenderRefreshFails(t)
  BY <1>29 DEF RenderRefreshFails, PageOf
<1> QED
  BY <1>1, <1>2, <1>3, <1>4, <1>5, <1>6, <1>7, <1>8, <1>9, <1>10,
     <1>11, <1>12, <1>13, <1>14, <1>15, <1>16, <1>17, <1>18, <1>19,
     <1>20, <1>21, <1>22, <1>23, <1>24, <1>25, <1>26, <1>27, <1>28, <1>29
  DEF Visit, Login, Callback, Refresh

\* A refresh writes the token of its own request into the dict, or none.
LEMMA DictStep ==
  ASSUME TypeOK, ResultInv, NEW t \in Tab, thread[t].pc \in RefreshedPC,
         NEW pc \in RefreshedPC, Goto(t, pc), UNCHANGED <<context, token_cache, page>>,
         \A r \in ResultId :
           /\ cached'[r].request = cached[r].request /\ cached'[r].claims = cached[r].claims
           /\ \/ cached'[r].refresh_token = cached[r].refresh_token
              \/ r = thread[t].result_id /\ cached'[r].refresh_token = thread[t].token
  PROVE  ResultInv'
<1>1. /\ token_cache \subseteq ResultId
      /\ \A u \in Tab : thread[u].pc \in HoldsCachedPC => thread[u].result_id \in ResultId
  BY DEF TypeOK, HasKeys
<1>2. /\ thread'[t].pc = pc /\ thread'[t].context_id = thread[t].context_id
      /\ thread'[t].result_id = thread[t].result_id /\ thread'[t].token = thread[t].token
      /\ \A u \in Tab : u # t => thread'[u] = thread[u]
  <2>1. thread \in [Tab -> Thread] /\ thread[t] \in Thread
    BY DEF TypeOK
  <2>2. thread' = [thread EXCEPT ![t] = [thread[t] EXCEPT !.pc = pc]]
    BY DEF Goto, Jump
  <2> QED BY <2>1, <2>2 DEF Thread
<1>3. pc \in HoldsCachedPC /\ pc \notin {"callback_render", "refresh_fetch"}
  BY DEF RefreshedPC, HoldsCachedPC
<1>4. /\ thread[t].pc \in HoldsCachedPC /\ thread[t].result_id \in ResultId
      /\ thread[t].token = cached[thread[t].result_id].request /\ thread[t].token # None
  <2>1. thread[t].pc \in HoldsCachedPC
    BY DEF RefreshedPC, HoldsCachedPC
  <2> QED BY <1>1, <2>1 DEF ResultInv
<1>5. ASSUME NEW u \in Tab
      PROVE  LET entry == cached'[thread'[u].result_id] IN
             /\ thread'[u].pc \in HoldsCachedPC => entry.request # None
             /\ thread'[u].pc = "callback_render" => entry.request = thread'[u].context_id
             /\ thread'[u].pc = "refresh_fetch" => entry.refresh_token # None
             /\ thread'[u].pc \in RefreshedPC => entry.request = thread'[u].token
  <2>1. CASE u = t
    BY <1>2, <1>3, <1>4, <2>1
  <2>2. CASE u # t
    <3>1. "callback_render" \in HoldsCachedPC /\ "refresh_fetch" \in HoldsCachedPC
          /\ RefreshedPC \subseteq HoldsCachedPC
      BY DEF RefreshedPC, HoldsCachedPC
    <3> QED BY <1>1, <1>2, <1>4, <2>2, <3>1 DEF ResultInv
  <2> QED BY <2>1, <2>2
<1>6. StoredTokenIsOwn'
  BY <1>4 DEF ResultInv, StoredTokenIsOwn
<1>7. ResultPageIsOneRequest'
  BY DEF ResultInv, ResultPageIsOneRequest
<1> QED BY <1>1, <1>5, <1>6, <1>7 DEF ResultInv

\* Results: the dict of a result is written for one request, and a context is
\* never written again once it was cached.
LEMMA ResultStep ==
  ASSUME TypeOK, KeysInv, ResultInv, NEW t \in Tab,
         Visit(t) \/ Login(t) \/ Callback(t) \/ Refresh(t)
  PROVE  ResultInv'
<1> USE TestClientAssumption
    DEF TypeOK, HasKeys, Thread, NamesRequest, SessionPC, LoginPC, CallbackPC, HoldsCachedPC,
        clientVars, providerVars, At, Jump, Goto, Send, Respond, Idle,
        KeysInv, ResultInv, StoredTokenIsOwn, ResultPageIsOneRequest, Used,
        FreshPC, RefreshedPC
<1>1. CASE RequestHome(t)
  BY <1>1 DEF RequestHome
<1>2. CASE HomeResponse(t)
  BY <1>2 DEF HomeResponse, PruneCaches, PageOf
<1>3. CASE AuthorizeAtProvider(t)
  BY <1>3 DEF AuthorizeAtProvider
<1>4. ASSUME NEW u \in Tab, DuplicateTab(t, u) PROVE ResultInv'
  BY <1>4 DEF DuplicateTab
<1>5. ASSUME NEW u \in Tab, ReopenCallback(t, u) PROVE ResultInv'
  BY <1>5 DEF ReopenCallback
<1>6. ASSUME NEW claims \in Claims, NEW c \in ContextId, RequestLogin(t, claims, c) PROVE ResultInv'
  BY <1>6 DEF RequestLogin, Unused
<1>7. CASE LoginPrune(t)
  BY <1>7 DEF LoginPrune, PruneCaches
<1>8. CASE InsertContext(t)
  BY <1>8 DEF InsertContext
<1>9. CASE AuthorizeRedirect(t)
  BY <1>9 DEF AuthorizeRedirect, PageOf
<1>10. CASE AuthorizeRedirectFails(t)
  BY <1>10 DEF AuthorizeRedirectFails, PageOf
<1>11. CASE CallbackError(t)
  BY <1>11 DEF CallbackError, PageOf
<1>12. CASE PopContext(t)
  BY <1>12 DEF PopContext
<1>13. CASE MissingContext(t)
  BY <1>13 DEF MissingContext, CallbackPage, PageOf
<1>14. CASE MismatchingState(t)
  BY <1>14 DEF MismatchingState, CallbackPage, PageOf
<1>15. CASE ExchangeCode(t)
  BY <1>15 DEF ExchangeCode
<1>16. CASE ExchangeFails(t)
  BY SMTT(30), <1>16 DEF ExchangeFails, CallbackPage, PageOf
<1>17. ASSUME NEW r \in ResultId, StoreResult(t, r) PROVE ResultInv'
  BY <1>17 DEF StoreResult
<1>18. CASE RenderCallback(t)
  BY SMTT(30), <1>18 DEF RenderCallback, ResultPage
<1>19. CASE RenderCallbackFails(t)
  BY <1>19 DEF RenderCallbackFails, CallbackPage, PageOf
<1>20. CASE RequestRefresh(t)
  BY <1>20 DEF RequestRefresh
<1>21. CASE RefreshPrune(t)
  BY <1>21 DEF RefreshPrune, PruneCaches
<1>22. CASE GetCached(t)
  BY <1>22 DEF GetCached, Refreshable
<1>23. CASE NoRefreshToken(t)
  BY <1>23 DEF NoRefreshToken, PageOf
<1>24. CASE FetchRefreshed(t)
  BY SMTT(30), <1>24 DEF FetchRefreshed
<1>25. CASE RefreshFails(t)
  BY <1>25 DEF RefreshFails, PageOf
<1>26. CASE WriteRefreshToken(t)
  <2>1. \A r \in ResultId :
          /\ cached'[r].request = cached[r].request /\ cached'[r].claims = cached[r].claims
          /\ \/ cached'[r].refresh_token = cached[r].refresh_token
             \/ r = thread[t].result_id /\ cached'[r].refresh_token = thread[t].token
    BY <1>26 DEF WriteRefreshToken, Cached
  <2>2. /\ thread[t].pc = "refresh_write" /\ Goto(t, "refresh_touch")
        /\ UNCHANGED <<context, token_cache, page>>
    BY <1>26 DEF WriteRefreshToken
  <2> HIDE DEF TypeOK, ResultInv, HasKeys, KeysInv, Thread, Goto, Jump
  <2> QED BY <2>1, <2>2, DictStep DEF RefreshedPC
<1>27. CASE TouchCached(t)
  <2>1. \A r \in ResultId :
          /\ cached'[r].request = cached[r].request /\ cached'[r].claims = cached[r].claims
          /\ cached'[r].refresh_token = cached[r].refresh_token
    BY <1>27 DEF TouchCached, Cached
  <2>2. /\ thread[t].pc = "refresh_touch" /\ Goto(t, "refresh_render")
        /\ UNCHANGED <<context, token_cache, page>>
    BY <1>27 DEF TouchCached
  <2> HIDE DEF TypeOK, ResultInv, HasKeys, KeysInv, Thread, Goto, Jump
  <2> QED BY <2>1, <2>2, DictStep DEF RefreshedPC
<1>28. CASE RenderRefresh(t)
  BY SMTT(30), <1>28 DEF RenderRefresh, ResultPage
<1>29. CASE RenderRefreshFails(t)
  BY <1>29 DEF RenderRefreshFails, PageOf
<1> QED
  BY <1>1, <1>2, <1>3, <1>4, <1>5, <1>6, <1>7, <1>8, <1>9, <1>10,
     <1>11, <1>12, <1>13, <1>14, <1>15, <1>16, <1>17, <1>18, <1>19,
     <1>20, <1>21, <1>22, <1>23, <1>24, <1>25, <1>26, <1>27, <1>28, <1>29
  DEF Visit, Login, Callback, Refresh

\* The session of a callback that has loaded it becomes the cookie.
LEMMA RenderedSession ==
  ASSUME TypeOK, SessionInv, NEW t \in Tab, thread[t].pc \in SessionPC, thread'[t].pc = "idle",
         \A u \in Tab : u # t => thread'[u] = thread[u],
         UNCHANGED <<authorization_cache, raced>>,
         \A b \in Browser, c \in authorization_cache : NamedIn(b, c)' => NamedIn(b, c),
         \A b \in Browser : b # BrowserOf[t] => cookie'[b] = cookie[b],
         cookie'[BrowserOf[t]] = thread[t].session
  PROVE  SessionInv'
<1>1. "idle" \notin SessionPC
  BY DEF SessionPC, LoginPC, CallbackPC
<1>2. ASSUME NEW b \in Browser, NEW c \in authorization_cache \ raced, NamedIn(b, c)'
      PROVE  /\ c \in cookie'[b].states
             /\ \A u \in Tab : BrowserOf[u] = b /\ thread'[u].pc \in SessionPC
                                => c \in thread'[u].session.states
  <2>1. /\ c \in cookie[b].states
        /\ \A u \in Tab : BrowserOf[u] = b /\ thread[u].pc \in SessionPC
                           => c \in thread[u].session.states
    BY <1>2 DEF SessionInv
  <2>2. c \in cookie'[b].states
    BY <2>1
  <2>3. ASSUME NEW u \in Tab, BrowserOf[u] = b, thread'[u].pc \in SessionPC
        PROVE  c \in thread'[u].session.states
    <3>1. u # t
      BY <1>1, <2>3
    <3> QED BY <2>1, <2>3, <3>1
  <2> QED BY <2>2, <2>3
<1>3. StateLostOnlyToOverlap'
  BY DEF SessionInv, StateLostOnlyToOverlap, At
<1> QED BY <1>2, <1>3 DEF SessionInv

\* Sessions: a response replaces the cookie by a session that holds the state of
\* every waiting request of the browser, less the one its own callback popped.
LEMMA SessionStep ==
  ASSUME TypeOK, KeysInv, ClaimInv, ResultInv, SessionInv, NEW t \in Tab,
         Visit(t) \/ Login(t) \/ Callback(t) \/ Refresh(t)
  PROVE  SessionInv'
<1> USE TestClientAssumption
    DEF TypeOK, HasKeys, Thread, NamesRequest, SessionPC, LoginPC, CallbackPC, HoldsCachedPC,
        clientVars, providerVars, At, Jump, Goto, Send, Respond, Idle,
        KeysInv, ClaimInv, SessionInv, StateLostOnlyToOverlap, NamedIn, Used, FreshPC,
        ClaimPC, Jar, SetCookie, WithState, WithoutState
<1>1. CASE RequestHome(t)
  BY <1>1 DEF RequestHome
<1>2. CASE HomeResponse(t)
  BY <1>2 DEF HomeResponse, PruneCaches, PageOf
<1>3. CASE AuthorizeAtProvider(t)
  BY <1>3 DEF AuthorizeAtProvider
<1>4. ASSUME NEW u \in Tab, DuplicateTab(t, u) PROVE SessionInv'
  BY <1>4 DEF DuplicateTab
<1>5. ASSUME NEW u \in Tab, ReopenCallback(t, u) PROVE SessionInv'
  BY <1>5 DEF ReopenCallback
<1>6. ASSUME NEW claims \in Claims, NEW c \in ContextId, RequestLogin(t, claims, c) PROVE SessionInv'
  BY <1>6 DEF RequestLogin, Unused
<1>7. CASE LoginPrune(t)
  BY <1>7 DEF LoginPrune, PruneCaches
<1>8. CASE InsertContext(t)
  BY <1>8 DEF InsertContext
<1>9. CASE AuthorizeRedirect(t)
  BY <1>9 DEF AuthorizeRedirect, PageOf
<1>10. CASE AuthorizeRedirectFails(t)
  BY <1>10 DEF AuthorizeRedirectFails, PageOf
<1>11. CASE CallbackError(t)
  BY <1>11 DEF CallbackError, PageOf
<1>12. CASE PopContext(t)
  BY <1>12 DEF PopContext
<1>13. CASE MissingContext(t)
  BY <1>13 DEF MissingContext, CallbackPage, PageOf
<1>14. CASE MismatchingState(t)
  BY <1>14 DEF MismatchingState, CallbackPage, PageOf
<1>15. CASE ExchangeCode(t)
  BY <1>15 DEF ExchangeCode
<1>16. CASE ExchangeFails(t)
  BY <1>16 DEF ExchangeFails, CallbackPage, PageOf
<1>17. ASSUME NEW r \in ResultId, StoreResult(t, r) PROVE SessionInv'
  BY <1>17 DEF StoreResult
<1>18. CASE RenderCallback(t)
  <2>1. thread[t].context_id \notin authorization_cache
    BY <1>18 DEF RenderCallback, ResultInv
  <2>2. \A b \in Browser, c \in authorization_cache : NamedIn(b, c)' => NamedIn(b, c)
    BY <1>18, <2>1 DEF RenderCallback, ResultPage
  <2>3. \A b \in Browser : b # BrowserOf[t] => cookie'[b] = cookie[b]
    BY <1>18 DEF RenderCallback
  <2>4. cookie'[BrowserOf[t]] = thread[t].session
    BY <1>18 DEF RenderCallback
  <2>5. /\ thread[t].pc \in SessionPC /\ thread'[t].pc = "idle"
        /\ \A u \in Tab : u # t => thread'[u] = thread[u]
        /\ UNCHANGED <<authorization_cache, raced>>
    BY <1>18 DEF RenderCallback
  <2> HIDE DEF TypeOK, HasKeys, NamesRequest, KeysInv, ClaimInv, SessionInv, NamedIn, SessionPC,
               StateLostOnlyToOverlap
  <2> QED BY <2>2, <2>3, <2>4, <2>5, RenderedSession
<1>19. CASE RenderCallbackFails(t)
  <2>1. thread[t].context_id \notin authorization_cache
    BY <1>19 DEF RenderCallbackFails, ResultInv
  <2>2. \A b \in Browser, c \in authorization_cache : NamedIn(b, c)' => NamedIn(b, c)
    BY <1>19, <2>1 DEF RenderCallbackFails, CallbackPage, PageOf
  <2>3. \A b \in Browser : b # BrowserOf[t] => cookie'[b] = cookie[b]
    BY <1>19 DEF RenderCallbackFails
  <2>4. cookie'[BrowserOf[t]] = thread[t].session
    BY <1>19 DEF RenderCallbackFails
  <2>5. /\ thread[t].pc \in SessionPC /\ thread'[t].pc = "idle"
        /\ \A u \in Tab : u # t => thread'[u] = thread[u]
        /\ UNCHANGED <<authorization_cache, raced>>
    BY <1>19 DEF RenderCallbackFails
  <2> HIDE DEF TypeOK, HasKeys, NamesRequest, KeysInv, ClaimInv, SessionInv, NamedIn, SessionPC,
               StateLostOnlyToOverlap
  <2> QED BY <2>2, <2>3, <2>4, <2>5, RenderedSession
<1>20. CASE RequestRefresh(t)
  BY <1>20 DEF RequestRefresh
<1>21. CASE RefreshPrune(t)
  BY <1>21 DEF RefreshPrune, PruneCaches
<1>22. CASE GetCached(t)
  BY <1>22 DEF GetCached, Refreshable
<1>23. CASE NoRefreshToken(t)
  BY <1>23 DEF NoRefreshToken, PageOf
<1>24. CASE FetchRefreshed(t)
  BY <1>24 DEF FetchRefreshed
<1>25. CASE RefreshFails(t)
  BY <1>25 DEF RefreshFails, PageOf
<1>26. CASE WriteRefreshToken(t)
  BY <1>26 DEF WriteRefreshToken
<1>27. CASE TouchCached(t)
  BY <1>27 DEF TouchCached
<1>28. CASE RenderRefresh(t)
  BY <1>28 DEF RenderRefresh, ResultPage
<1>29. CASE RenderRefreshFails(t)
  BY <1>29 DEF RenderRefreshFails, PageOf
<1> QED
  BY <1>1, <1>2, <1>3, <1>4, <1>5, <1>6, <1>7, <1>8, <1>9, <1>10,
     <1>11, <1>12, <1>13, <1>14, <1>15, <1>16, <1>17, <1>18, <1>19,
     <1>20, <1>21, <1>22, <1>23, <1>24, <1>25, <1>26, <1>27, <1>28, <1>29
  DEF Visit, Login, Callback, Refresh

\* Cutoffs: each request computes its own, and the clock does not run back.
LEMMA CutoffStep ==
  ASSUME TypeOK, CutoffInv, NEW t \in Tab,
         Visit(t) \/ Login(t) \/ Callback(t) \/ Refresh(t)
  PROVE  CutoffInv'
<1> USE TestClientAssumption
    DEF TypeOK, HasKeys, Thread, NamesRequest, SessionPC, LoginPC, CallbackPC, HoldsCachedPC,
        clientVars, providerVars, At, Jump, Goto, Send, Respond, Idle,
        CutoffInv, Cutoff, PrunePC, RefreshPC
<1>1. CASE RequestHome(t)
  BY <1>1 DEF RequestHome
<1>2. CASE HomeResponse(t)
  BY <1>2 DEF HomeResponse, PruneCaches, PageOf
<1>3. CASE AuthorizeAtProvider(t)
  BY <1>3 DEF AuthorizeAtProvider
<1>4. ASSUME NEW u \in Tab, DuplicateTab(t, u) PROVE CutoffInv'
  BY <1>4 DEF DuplicateTab
<1>5. ASSUME NEW u \in Tab, ReopenCallback(t, u) PROVE CutoffInv'
  BY <1>5 DEF ReopenCallback
<1>6. ASSUME NEW claims \in Claims, NEW c \in ContextId, RequestLogin(t, claims, c) PROVE CutoffInv'
  BY <1>6 DEF RequestLogin, Unused
<1>7. CASE LoginPrune(t)
  BY <1>7 DEF LoginPrune, PruneCaches
<1>8. CASE InsertContext(t)
  BY <1>8 DEF InsertContext
<1>9. CASE AuthorizeRedirect(t)
  BY <1>9 DEF AuthorizeRedirect, PageOf
<1>10. CASE AuthorizeRedirectFails(t)
  BY <1>10 DEF AuthorizeRedirectFails, PageOf
<1>11. CASE CallbackError(t)
  BY <1>11 DEF CallbackError, PageOf
<1>12. CASE PopContext(t)
  BY <1>12 DEF PopContext
<1>13. CASE MissingContext(t)
  BY <1>13 DEF MissingContext, CallbackPage, PageOf
<1>14. CASE MismatchingState(t)
  BY <1>14 DEF MismatchingState, CallbackPage, PageOf
<1>15. CASE ExchangeCode(t)
  BY <1>15 DEF ExchangeCode
<1>16. CASE ExchangeFails(t)
  BY <1>16 DEF ExchangeFails, CallbackPage, PageOf
<1>17. ASSUME NEW r \in ResultId, StoreResult(t, r) PROVE CutoffInv'
  BY <1>17 DEF StoreResult
<1>18. CASE RenderCallback(t)
  BY <1>18 DEF RenderCallback, ResultPage
<1>19. CASE RenderCallbackFails(t)
  BY <1>19 DEF RenderCallbackFails, CallbackPage, PageOf
<1>20. CASE RequestRefresh(t)
  BY <1>20 DEF RequestRefresh
<1>21. CASE RefreshPrune(t)
  BY <1>21 DEF RefreshPrune, PruneCaches
<1>22. CASE GetCached(t)
  BY <1>22 DEF GetCached, Refreshable
<1>23. CASE NoRefreshToken(t)
  BY <1>23 DEF NoRefreshToken, PageOf
<1>24. CASE FetchRefreshed(t)
  BY <1>24 DEF FetchRefreshed
<1>25. CASE RefreshFails(t)
  BY <1>25 DEF RefreshFails, PageOf
<1>26. CASE WriteRefreshToken(t)
  BY <1>26 DEF WriteRefreshToken
<1>27. CASE TouchCached(t)
  BY <1>27 DEF TouchCached
<1>28. CASE RenderRefresh(t)
  BY <1>28 DEF RenderRefresh, ResultPage
<1>29. CASE RenderRefreshFails(t)
  BY <1>29 DEF RenderRefreshFails, PageOf
<1> QED
  BY <1>1, <1>2, <1>3, <1>4, <1>5, <1>6, <1>7, <1>8, <1>9, <1>10,
     <1>11, <1>12, <1>13, <1>14, <1>15, <1>16, <1>17, <1>18, <1>19,
     <1>20, <1>21, <1>22, <1>23, <1>24, <1>25, <1>26, <1>27, <1>28, <1>29
  DEF Visit, Login, Callback, Refresh

\* Time disturbs no part of the invariant: cutoffs only get older.
LEMMA TickStep == ASSUME TypeOK, Inv, Tick PROVE Inv'
BY TestClientAssumption
DEF TypeOK, Thread, Inv, KeysInv, ClaimInv, ResultInv, SessionInv, CutoffInv, Cutoff, Tick,
    clientVars, providerVars, NamedIn, Used, OneResultPerRequest, StoredTokenIsOwn,
    ResultPageIsOneRequest, StateLostOnlyToOverlap, At

\* The invariant speaks of the variables only.
LEMMA StutterStep == ASSUME TypeOK, Inv, UNCHANGED vars PROVE Inv'
BY DEF vars, Inv, KeysInv, ClaimInv, ResultInv, SessionInv, CutoffInv, Cutoff,
       clientVars, providerVars, NamedIn, Used, OneResultPerRequest, StoredTokenIsOwn,
       ResultPageIsOneRequest, StateLostOnlyToOverlap, At

\* Nothing is cached, claimed or pending when the process starts.
LEMMA InitInv == Init => Inv
BY TestClientAssumption
DEF Init, Inv, KeysInv, ClaimInv, ResultInv, SessionInv, CutoffInv, Idle, PageOf, EmptyJar,
    NamesRequest, NamedIn, Used, FreshPC, ClaimPC, RefreshedPC, SessionPC, LoginPC, CallbackPC,
    PrunePC, HoldsCachedPC, OneResultPerRequest, StoredTokenIsOwn, ResultPageIsOneRequest,
    StateLostOnlyToOverlap, At

\* The inductive invariant holds in every state of every behaviour.
LEMMA Invariance == Spec => [](TypeOK /\ Inv)
<1>1. ASSUME TypeOK, Inv, [Next]_vars PROVE Inv'
  <2>1. ASSUME NEW t \in Tab, Visit(t) \/ Login(t) \/ Callback(t) \/ Refresh(t)
        PROVE  Inv'
    BY <1>1, <2>1, KeysStep, ClaimStep, ResultStep, SessionStep, CutoffStep DEF Inv
  <2> QED BY <1>1, <2>1, TickStep, StutterStep DEF Next
<1> QED BY <1>1, InitInv, TypeCorrect, PTL DEF Spec

-------------------------------------------------------------------------------

\* One authorization request gives at most one stored result, however callback
\* addresses are repeated: in every behaviour, for any number of threads.
THEOREM OneResult == Spec => []OneResultPerRequest
BY Invariance, PTL DEF Inv, ClaimInv

\* A result page shows the claims, the ID Token and the result_id of one
\* authorization request: in every behaviour.
THEOREM ResultPages == Spec => []ResultPageIsOneRequest
BY Invariance, PTL DEF Inv, ResultInv

\* Unlocked writes of concurrent refreshes never mix two grants.
THEOREM StoredTokens == Spec => []StoredTokenIsOwn
BY Invariance, PTL DEF Inv, ResultInv

\* The state of a pending request disappears from the session only if the login
\* that set it overlapped another login or callback of the same browser.
THEOREM StateLost == Spec => []StateLostOnlyToOverlap
BY Invariance, PTL DEF Inv, SessionInv

\* No two handlers that save the session of one browser are in flight at once.
SessionsApart ==
  \A t, u \in Tab : t # u /\ BrowserOf[t] = BrowserOf[u]
                     => ~(thread[t].pc \in SessionPC /\ thread[u].pc \in SessionPC)

\* Every browser has at most one tab, and with it one request in flight.
OneTabPerBrowser == \A t, u \in Tab : BrowserOf[t] = BrowserOf[u] => t = u

\* Only a redirect that overlaps another session of its browser sets its cookie
\* in a race.
LEMMA RacedStep == ASSUME SessionsApart, raced = {}, [Next]_vars PROVE raced' = {}
<1> USE DEF clientVars, providerVars
<1>1. ASSUME NEW t \in Tab, Visit(t) PROVE raced' = {}
  BY <1>1 DEF Visit, RequestHome, HomeResponse, AuthorizeAtProvider, DuplicateTab, ReopenCallback
<1>2. ASSUME NEW t \in Tab, AuthorizeRedirect(t) PROVE raced' = {}
  <2>1. thread[t].pc \in SessionPC
    BY <1>2 DEF AuthorizeRedirect, At, SessionPC, LoginPC
  <2>2. {u \in Tab \ {t} : BrowserOf[u] = BrowserOf[t] /\ thread[u].pc \in SessionPC} = {}
    BY <2>1 DEF SessionsApart
  <2> QED BY <1>2, <2>2 DEF AuthorizeRedirect
<1>3. ASSUME NEW t \in Tab, Login(t) PROVE raced' = {}
  BY <1>2, <1>3 DEF Login, RequestLogin, LoginPrune, InsertContext, AuthorizeRedirectFails
<1>4. ASSUME NEW t \in Tab, Callback(t) PROVE raced' = {}
  BY <1>4 DEF Callback, CallbackError, PopContext, MissingContext, MismatchingState,
              ExchangeCode, ExchangeFails, StoreResult, RenderCallback, RenderCallbackFails
<1>5. ASSUME NEW t \in Tab, Refresh(t) PROVE raced' = {}
  BY <1>5 DEF Refresh, RequestRefresh, RefreshPrune, GetCached, NoRefreshToken, FetchRefreshed,
              RefreshFails, WriteRefreshToken, TouchCached, RenderRefresh, RenderRefreshFails
<1> QED BY <1>1, <1>3, <1>4, <1>5 DEF Next, Tick, vars

\* docs/test-client.md is right about tabs that take turns: as long as no two logins
\* or callbacks of one browser are in flight together, a callback that found its
\* context finds its state in the session, whatever was reloaded or duplicated.
THEOREM TurnsKeepState == Spec /\ []SessionsApart => []PendingRequestNotOverwritten
<1>1. Init => raced = {}
  BY DEF Init
<1>2. Inv /\ raced = {} => PendingRequestNotOverwritten
  BY DEF Inv, SessionInv, StateLostOnlyToOverlap, PendingRequestNotOverwritten
<1>3. SessionsApart /\ raced = {} /\ [Next]_vars => (raced = {})'
  BY RacedStep
<1> QED BY <1>1, <1>2, <1>3, Invariance, PTL DEF Spec

\* Users with a tab each never lose a pending request, however many they are.
THEOREM OneTabKeepsState == OneTabPerBrowser /\ Spec => []PendingRequestNotOverwritten
<1>1. OneTabPerBrowser => SessionsApart
  BY DEF OneTabPerBrowser, SessionsApart
<1>2. OneTabPerBrowser => []OneTabPerBrowser
  <2>1. OneTabPerBrowser => OneTabPerBrowser'
    BY DEF OneTabPerBrowser
  <2> QED BY <2>1, PTL
<1> QED BY <1>1, <1>2, TurnsKeepState, PTL

-------------------------------------------------------------------------------
(* What leaves and enters the caches *)

\* Only a result of its own that was never stored before enters TOKEN_CACHE.
LEMMA TokenCacheStep ==
  ASSUME TypeOK, Inv, [Next]_vars
  PROVE  \A r \in ResultId : cached[r].request # None /\ r \notin token_cache
                               => r \notin token_cache'
<1>1. ASSUME NEW t \in Tab, Visit(t) \/ Login(t) \/ Callback(t) \/ Refresh(t)
      PROVE  \/ token_cache' \subseteq token_cache
             \/ \E r \in ResultId : /\ cached[r].request = None
                                    /\ token_cache' = token_cache \cup {r}
  BY <1>1
  DEF Visit, Login, Callback, Refresh, RequestHome, HomeResponse, AuthorizeAtProvider,
      DuplicateTab, ReopenCallback, RequestLogin, LoginPrune, InsertContext,
      AuthorizeRedirect, AuthorizeRedirectFails, CallbackError, PopContext,
      MissingContext, MismatchingState, ExchangeCode, ExchangeFails, StoreResult,
      RenderCallback, RenderCallbackFails, RequestRefresh, RefreshPrune, GetCached,
      NoRefreshToken, FetchRefreshed, RefreshFails, WriteRefreshToken, TouchCached,
      RenderRefresh, RenderRefreshFails, PruneCaches, clientVars
<1>2. Tick \/ UNCHANGED vars => token_cache' = token_cache
  BY DEF Tick, vars, clientVars
<1> QED BY <1>1, <1>2 DEF Next

\* What leaves a cache has been popped or was found expired by a prune.
LEMMA PruneStep ==
  ASSUME TypeOK, CutoffInv, NEW t \in Tab, thread[t].pc \in PrunePC, PruneCaches(t)
  PROVE  /\ \A c \in authorization_cache \ authorization_cache' :
              now - context[c].created_at > TTL
         /\ \A r \in token_cache \ token_cache' : now - cached[r].created_at > TTL
<1>1. thread[t].cutoff \in Int /\ thread[t].cutoff =< now - TTL
  BY DEF TypeOK, Thread, CutoffInv, Cutoff
<1>2. /\ now \in Nat /\ TTL \in Nat
      /\ \A c \in ContextId : context[c].created_at \in Nat
      /\ \A r \in ResultId : cached[r].created_at \in Nat
  BY TestClientAssumption DEF TypeOK, Context, Cached
<1>3. authorization_cache \subseteq ContextId /\ token_cache \subseteq ResultId
  BY DEF TypeOK
<1> QED BY <1>1, <1>2, <1>3 DEF PruneCaches, Expired

\* Every other step leaves both caches alone or adds to them, PopContext aside.
LEMMA ExpiryStep ==
  ASSUME TypeOK, Inv, [Next]_vars
  PROVE  /\ \A c \in authorization_cache \ authorization_cache' :
              \/ now - context[c].created_at > TTL
              \/ \E t \in Tab : PopContext(t) /\ thread[t].context_id = c
         /\ \A r \in token_cache \ token_cache' : now - cached[r].created_at > TTL
<1>1. ASSUME NEW t \in Tab, Visit(t) \/ Login(t) \/ Callback(t) \/ Refresh(t)
      PROVE  \/ thread[t].pc \in PrunePC /\ PruneCaches(t)
             \/ /\ PopContext(t)
                /\ authorization_cache' = authorization_cache \ {thread[t].context_id}
                /\ token_cache' = token_cache
             \/ authorization_cache \subseteq authorization_cache' /\ token_cache \subseteq token_cache'
  BY <1>1
  DEF Visit, Login, Callback, Refresh, RequestHome, HomeResponse, AuthorizeAtProvider,
      DuplicateTab, ReopenCallback, RequestLogin, LoginPrune, InsertContext,
      AuthorizeRedirect, AuthorizeRedirectFails, CallbackError, PopContext,
      MissingContext, MismatchingState, ExchangeCode, ExchangeFails, StoreResult,
      RenderCallback, RenderCallbackFails, RequestRefresh, RefreshPrune, GetCached,
      NoRefreshToken, FetchRefreshed, RefreshFails, WriteRefreshToken, TouchCached,
      RenderRefresh, RenderRefreshFails, PrunePC, At, clientVars
<1>2. Tick \/ UNCHANGED vars
        => authorization_cache' = authorization_cache /\ token_cache' = token_cache
  BY DEF Tick, vars, clientVars
<1> QED BY <1>1, <1>2, PruneStep DEF Next, Inv

-------------------------------------------------------------------------------
(* The refinement mapping to RelyingParty *)

\* A thread that leaves ClaimPC gives up its request and no other.
LEMMA Unclaimed ==
  ASSUME TypeOK, ClaimInv, NEW t \in Tab, thread[t].pc \in ClaimPC,
         NEW r, Jump(t, r), r.pc \notin ClaimPC
  PROVE  \A c \in ContextId : Claimed(c)' <=> Claimed(c) /\ c # thread[t].context_id
BY DEF TypeOK, ClaimInv, Claimed, Jump, ClaimPC

\* A thread that does not enter or leave ClaimPC changes no claim.
LEMMA StillClaimed ==
  ASSUME TypeOK, NEW t \in Tab, NEW r, Jump(t, r),
         r.pc \in ClaimPC <=> thread[t].pc \in ClaimPC,
         r.pc \in ClaimPC => r.context_id = thread[t].context_id
  PROVE  \A c \in ContextId : Claimed(c)' <=> Claimed(c)
BY DEF TypeOK, Claimed, Jump

\* A prune forgets the contexts it drops.
LEMMA PruneForgets ==
  ASSUME TypeOK, Inv, NEW t \in Tab, PruneCaches(t),
         \A c \in ContextId : Claimed(c)' <=> Claimed(c)
  PROVE  \E S \in SUBSET ContextId : RP!Forget(S)
<1> DEFINE S == authorization_cache \ authorization_cache'
<1>1. S \in SUBSET ContextId /\ authorization_cache' \subseteq authorization_cache
  BY DEF TypeOK, PruneCaches
<1>2. context' = context /\ cached' = cached
  BY DEF PruneCaches
<1>3. \A c \in authorization_cache : context[c].claims # None /\ ~Claimed(c)
  BY DEF Inv, KeysInv, ClaimInv, Used, Claimed
<1>4. \A c \in S : StatusBar[c] = "pending"
  BY <1>1, <1>3 DEF StatusBar
<1>5. \A c \in ContextId : StatusBar'[c] = IF c \in S THEN "closed" ELSE StatusBar[c]
  BY <1>1, <1>2, <1>3 DEF StatusBar
<1>6. StatusBar' = [c \in ContextId |-> IF c \in S THEN "closed" ELSE StatusBar[c]]
  BY <1>5 DEF StatusBar
<1>7. ResultOfBar' = ResultOfBar
  BY <1>2 DEF ResultOfBar
<1> QED BY <1>1, <1>4, <1>6, <1>7 DEF RP!Forget

\* Caching a context begins its request.
LEMMA InsertBegins ==
  ASSUME TypeOK, Inv, NEW t \in Tab, InsertContext(t)
  PROVE  RP!Begin(thread[t].context_id)
<1> DEFINE c == thread[t].context_id
<1>1. c \in ContextId /\ thread[t].claims # None /\ ~Used(c)
  BY TestClientAssumption
  DEF InsertContext, At, TypeOK, HasKeys, SessionPC, LoginPC, Inv, KeysInv, FreshPC
<1>2. \A d \in ContextId : Claimed(d)' <=> Claimed(d)
  <2> DEFINE q == [thread[t] EXCEPT !.pc = "login_redirect"]
  <2>1. Jump(t, q) /\ thread[t].pc \notin ClaimPC
    BY DEF InsertContext, Goto, At, ClaimPC
  <2>2. q.pc \notin ClaimPC
    BY DEF TypeOK, Thread, ClaimPC
  <2> QED BY <2>1, <2>2, StillClaimed
<1>3. ~Claimed(c)
  BY <1>1 DEF Inv, KeysInv, Claimed, ClaimPC, SessionPC, FreshPC, CallbackPC
<1>4. \A d \in ContextId : StatusBar'[d] = IF d = c THEN "pending" ELSE StatusBar[d]
  BY <1>1, <1>2 DEF InsertContext, StatusBar, TypeOK
<1>5. StatusBar' = [StatusBar EXCEPT ![c] = "pending"]
  BY <1>4 DEF StatusBar
<1> QED BY <1>1, <1>5 DEF RP!Begin, InsertContext, StatusBar, ResultOfBar, Used

\* Popping a context claims its request.
LEMMA PopClaims ==
  ASSUME TypeOK, Inv, NEW t \in Tab, PopContext(t)
  PROVE  thread[t].context_id \in ContextId /\ RP!Claim(thread[t].context_id)
<1> DEFINE c == thread[t].context_id
<1>1. c \in ContextId /\ c \in authorization_cache /\ context[c].claims # None
  BY DEF PopContext, TypeOK, Inv, KeysInv, Used
<1>2. \A d \in ContextId : Claimed(d)' <=> Claimed(d) \/ d = c
  BY DEF PopContext, At, Goto, Jump, Claimed, ClaimPC, TypeOK
<1>4. \A d \in ContextId : StatusBar'[d] = IF d = c THEN "claimed" ELSE StatusBar[d]
  <2>1. /\ context' = context
        /\ \A d \in ContextId \ {c} :
             d \in authorization_cache' <=> d \in authorization_cache
        /\ c \notin authorization_cache'
    BY DEF PopContext
  <2> QED BY <1>1, <1>2, <2>1 DEF StatusBar
<1>5. StatusBar' = [StatusBar EXCEPT ![c] = "claimed"]
  BY <1>4 DEF StatusBar
<1> QED BY <1>1, <1>5 DEF RP!Claim, PopContext, StatusBar, ResultOfBar

\* A callback that lets go of its request closes it.
LEMMA Closes ==
  ASSUME TypeOK, Inv, NEW t \in Tab, thread[t].pc \in ClaimPC,
         NEW r, Jump(t, r), r.pc \notin ClaimPC,
         UNCHANGED <<context, authorization_cache>>
  PROVE  /\ thread[t].context_id \in ContextId
         /\ StatusBar[thread[t].context_id] = "claimed"
         /\ StatusBar' = [StatusBar EXCEPT ![thread[t].context_id] = "closed"]
<1> DEFINE c == thread[t].context_id
<1>1. c \in ContextId /\ Claimed(c) /\ Used(c) /\ c \notin authorization_cache
  BY DEF TypeOK, HasKeys, Claimed, ClaimPC, SessionPC, LoginPC, CallbackPC,
         Inv, KeysInv, ClaimInv, FreshPC
<1>2. \A d \in ContextId : Claimed(d)' <=> Claimed(d) /\ d # c
  BY Unclaimed DEF Inv
<1>3. \A d \in ContextId : StatusBar'[d] = IF d = c THEN "closed" ELSE StatusBar[d]
  BY <1>1, <1>2 DEF StatusBar, Used
<1>4. StatusBar' = [StatusBar EXCEPT ![c] = "closed"]
  BY <1>3 DEF StatusBar
<1> QED BY <1>1, <1>4 DEF StatusBar, Used

\* A mismatching state and a failed exchange end a claimed request.
LEMMA FailureFails ==
  ASSUME TypeOK, Inv, NEW t \in Tab, MismatchingState(t) \/ ExchangeFails(t)
  PROVE  thread[t].context_id \in ContextId /\ RP!Fail(thread[t].context_id)
<1>1. /\ thread[t].pc \in ClaimPC
      /\ Jump(t, Idle)
      /\ UNCHANGED <<context, authorization_cache, cached>>
  BY DEF MismatchingState, ExchangeFails, At, ClaimPC, Respond, clientVars
<1>2. Idle.pc \notin ClaimPC
  BY DEF Idle, ClaimPC
<1> QED BY <1>1, <1>2, Closes DEF RP!Fail, ResultOfBar

\* Storing a token response grants the request the thread had claimed.
LEMMA StoreGrants ==
  ASSUME TypeOK, Inv, NEW t \in Tab, NEW r \in ResultId, StoreResult(t, r)
  PROVE  thread[t].context_id \in ContextId /\ RP!Grant(thread[t].context_id, r)
<1> DEFINE c == thread[t].context_id
           q == [thread[t] EXCEPT !.pc = "callback_render", !.result_id = r,
                                  !.session.result = r]
<1>1. /\ thread[t].pc \in ClaimPC
      /\ Jump(t, q)
      /\ UNCHANGED <<context, authorization_cache>>
      /\ cached[r].request = None
  BY DEF StoreResult, At, ClaimPC
<1>2. q.pc \notin ClaimPC
  BY DEF TypeOK, Thread, ClaimPC
<1>3. \A s \in ResultId : cached'[s].request = IF s = r THEN c ELSE cached[s].request
  BY DEF StoreResult, TypeOK, Cached
<1>4. ResultOfBar' = [ResultOfBar EXCEPT ![r] = c]
  BY <1>3 DEF ResultOfBar
<1>5. ResultOfBar[r] = None
  BY <1>1 DEF ResultOfBar
<1>6. /\ c \in ContextId
      /\ StatusBar[c] = "claimed"
      /\ StatusBar' = [StatusBar EXCEPT ![c] = "closed"]
  BY <1>1, <1>2, Closes
<1> QED BY <1>4, <1>5, <1>6 DEF RP!Grant

\* Every other step claims nothing, lets go of nothing and stores nothing.
Quiet ==
  /\ \A u \in Tab : /\ thread'[u].pc \in ClaimPC <=> thread[u].pc \in ClaimPC
                    /\ thread[u].pc \in ClaimPC
                         => thread'[u].context_id = thread[u].context_id
  /\ UNCHANGED context
  /\ \A r \in ResultId : cached'[r].request = cached[r].request

\* ... namely each of these, a prune among them or not.
LEMMA QuietStep ==
  ASSUME TypeOK, NEW t \in Tab, Visit(t) \/ Login(t) \/ Callback(t) \/ Refresh(t)
  PROVE  \/ InsertContext(t) \/ PopContext(t)
         \/ MismatchingState(t) \/ ExchangeFails(t)
         \/ \E r \in ResultId : StoreResult(t, r)
         \/ Quiet /\ (PruneCaches(t) \/ UNCHANGED authorization_cache)
<1> DEFINE Q == Quiet /\ (PruneCaches(t) \/ UNCHANGED authorization_cache)
<1> USE DEF TypeOK, Thread, Cached, ClaimPC, At, Jump, Goto, Send, Respond, Idle, Quiet,
            clientVars, providerVars
<1>1. CASE RequestHome(t)
  BY <1>1 DEF RequestHome
<1>2. CASE HomeResponse(t)
  BY <1>2 DEF HomeResponse, PruneCaches
<1>3. CASE AuthorizeAtProvider(t)
  BY <1>3 DEF AuthorizeAtProvider
<1>4. ASSUME NEW u \in Tab, DuplicateTab(t, u) PROVE Q
  BY <1>4 DEF DuplicateTab
<1>5. ASSUME NEW u \in Tab, ReopenCallback(t, u) PROVE Q
  BY <1>5 DEF ReopenCallback
<1>6. ASSUME NEW claims \in Claims, NEW c \in ContextId, RequestLogin(t, claims, c) PROVE Q
  BY <1>6 DEF RequestLogin
<1>7. CASE LoginPrune(t)
  BY <1>7 DEF LoginPrune, PruneCaches
<1>8. CASE AuthorizeRedirect(t)
  BY <1>8 DEF AuthorizeRedirect
<1>9. CASE AuthorizeRedirectFails(t)
  BY <1>9 DEF AuthorizeRedirectFails
<1>10. CASE CallbackError(t)
  BY <1>10 DEF CallbackError
<1>11. CASE MissingContext(t)
  BY <1>11 DEF MissingContext
<1>12. CASE ExchangeCode(t)
  BY <1>12 DEF ExchangeCode
<1>13. CASE RenderCallback(t)
  BY <1>13 DEF RenderCallback
<1>14. CASE RenderCallbackFails(t)
  BY <1>14 DEF RenderCallbackFails
<1>15. CASE RequestRefresh(t)
  BY <1>15 DEF RequestRefresh
<1>16. CASE RefreshPrune(t)
  BY <1>16 DEF RefreshPrune, PruneCaches
<1>17. CASE GetCached(t)
  BY <1>17 DEF GetCached
<1>18. CASE NoRefreshToken(t)
  BY <1>18 DEF NoRefreshToken
<1>19. CASE FetchRefreshed(t)
  BY <1>19 DEF FetchRefreshed
<1>20. CASE RefreshFails(t)
  BY <1>20 DEF RefreshFails
<1>21. CASE WriteRefreshToken(t)
  BY <1>21 DEF WriteRefreshToken
<1>22. CASE TouchCached(t)
  BY <1>22 DEF TouchCached
<1>23. CASE RenderRefresh(t)
  BY <1>23 DEF RenderRefresh
<1>24. CASE RenderRefreshFails(t)
  BY <1>24 DEF RenderRefreshFails
<1> QED
  BY <1>1, <1>2, <1>3, <1>4, <1>5, <1>6, <1>7, <1>8, <1>9, <1>10, <1>11, <1>12,
     <1>13, <1>14, <1>15, <1>16, <1>17, <1>18, <1>19, <1>20, <1>21, <1>22, <1>23, <1>24
  DEF Visit, Login, Callback, Refresh

\* A quiet step that leaves the authorization cache alone is a stutter.
LEMMA QuietStutters ==
  ASSUME TypeOK, Quiet, UNCHANGED authorization_cache
  PROVE  UNCHANGED <<StatusBar, ResultOfBar>>
<1>1. \A c \in ContextId : Claimed(c)' <=> Claimed(c)
  BY DEF Quiet, Claimed
<1> QED BY <1>1 DEF Quiet, StatusBar, ResultOfBar

\* Every step of the client is a step or a stutter of RelyingParty.
LEMMA StepRefines ==
  ASSUME TypeOK, Inv, [Next]_vars
  PROVE  [RP!Next]_(RP!rpVars)
<1>1. ASSUME NEW t \in Tab, Visit(t) \/ Login(t) \/ Callback(t) \/ Refresh(t)
      PROVE  [RP!Next]_(RP!rpVars)
  <2>1. CASE InsertContext(t)
    <3>1. thread[t].context_id \in ContextId
      BY <2>1 DEF InsertContext, At, TypeOK, HasKeys, SessionPC, LoginPC
    <3> QED BY <2>1, <3>1, InsertBegins DEF RP!Next
  <2>2. CASE PopContext(t)
    BY <2>2, PopClaims DEF RP!Next
  <2>3. CASE MismatchingState(t) \/ ExchangeFails(t)
    BY <2>3, FailureFails DEF RP!Next
  <2>4. ASSUME NEW r \in ResultId, StoreResult(t, r) PROVE RP!Next
    BY <2>4, StoreGrants DEF RP!Next
  <2>5. CASE Quiet /\ PruneCaches(t)
    <3>1. \A c \in ContextId : Claimed(c)' <=> Claimed(c)
      BY <2>5 DEF Quiet, Claimed
    <3> QED BY <2>5, <3>1, PruneForgets DEF RP!Next
  <2>6. CASE Quiet /\ UNCHANGED authorization_cache
    BY <2>6, QuietStutters DEF RP!rpVars
  <2> QED BY <1>1, <2>1, <2>2, <2>3, <2>4, <2>5, <2>6, QuietStep
<1>2. CASE Tick \/ UNCHANGED vars
  <2>1. Quiet /\ UNCHANGED authorization_cache
    BY <1>2 DEF Tick, vars, clientVars, Quiet
  <2> QED BY <2>1, QuietStutters DEF RP!rpVars
<1> QED BY <1>1, <1>2 DEF Next

\* The empty caches are RelyingParty's initial state.
LEMMA InitRefines == Init => RP!Init
<1> SUFFICES ASSUME Init PROVE RP!Init
  OBVIOUS
<1>1. \A c \in ContextId : context[c].claims = None
  BY DEF Init
<1>2. \A r \in ResultId : cached[r].request = None
  BY DEF Init
<1> QED BY <1>1, <1>2 DEF RP!Init, StatusBar, ResultOfBar

-------------------------------------------------------------------------------

\* A dict that was pruned while a refresh held it never returns to the cache, for
\* any number of refreshes and prunes in flight.
THEOREM Pruned == Spec => PrunedStaysGone
BY Invariance, TokenCacheStep, PTL DEF Spec, PrunedStaysGone

\* Neither cache loses an entry to a prune before its lifetime is over, although
\* the cutoff was computed before the lock was taken.
THEOREM Expiry == Spec => OnlyExpiredArePruned
BY Invariance, ExpiryStep, PTL DEF Spec, OnlyExpiredArePruned

\* The handlers of app.py implement RelyingParty: every request is claimed once
\* and answered at most once, in every behaviour.
THEOREM Refinement == Spec => ImplementsRelyingParty
BY Invariance, InitRefines, StepRefines, PTL DEF Spec, ImplementsRelyingParty, RP!Spec

\* What RelyingParty promises for good: a result stays that of its request, and a
\* request that is closed gets no further result.
LEMMA PromiseKept ==
  ASSUME NEW c \in ContextId, NEW r \in ResultId, [RP!Next]_(RP!rpVars)
  PROVE  /\ ResultOfBar[r] # None => ResultOfBar'[r] = ResultOfBar[r]
         /\ StatusBar[c] = "closed" /\ ResultOfBar'[r] = c => ResultOfBar[r] = c
<1>1. CASE RP!Next
  <2>1. ASSUME NEW d \in ContextId, RP!Begin(d) \/ RP!Claim(d) \/ RP!Fail(d)
        PROVE  UNCHANGED ResultOfBar
    BY <2>1 DEF RP!Begin, RP!Claim, RP!Fail
  <2>2. ASSUME NEW S \in SUBSET ContextId, RP!Forget(S) PROVE UNCHANGED ResultOfBar
    BY <2>2 DEF RP!Forget
  <2>3. ASSUME NEW d \in ContextId, NEW s \in ResultId, RP!Grant(d, s)
        PROVE  /\ ResultOfBar[r] # None => ResultOfBar'[r] = ResultOfBar[r]
               /\ StatusBar[c] = "closed" /\ ResultOfBar'[r] = c => ResultOfBar[r] = c
    <3>1. /\ StatusBar[d] = "claimed" /\ ResultOfBar[s] = None
          /\ ResultOfBar' = [ResultOfBar EXCEPT ![s] = d]
      BY <2>3 DEF RP!Grant
    <3>2. CASE r = s
      BY <3>1, <3>2 DEF ResultOfBar
    <3>3. CASE r # s
      BY <3>1, <3>3 DEF ResultOfBar
    <3> QED BY <3>2, <3>3
  <2> QED BY <1>1, <2>1, <2>2, <2>3 DEF RP!Next
<1>2. CASE UNCHANGED RP!rpVars
  BY <1>2 DEF RP!rpVars
<1> QED BY <1>1, <1>2

\* The dict made for a request is never made over to another one, whatever is
\* refreshed, pruned or logged in later.
THEOREM ResultsForGood ==
  Spec => [][\A r \in ResultId : cached[r].request # None
               => cached'[r].request = cached[r].request]_vars
<1> DEFINE Kept == \A r \in ResultId : cached[r].request # None
                                       => cached'[r].request = cached[r].request
<1>1. ASSUME TypeOK, Inv, [Next]_vars PROVE Kept
  <2>1. ASSUME NEW r \in ResultId, cached[r].request # None
        PROVE  cached'[r].request = cached[r].request
    <3>1. ResultOfBar[r] = cached[r].request /\ ResultOfBar'[r] = cached'[r].request
      BY DEF ResultOfBar
    <3>2. cached[r].request \in ContextId
      BY <1>1, <2>1 DEF TypeOK, Cached
    <3> QED BY <1>1, <2>1, <3>1, <3>2, StepRefines, PromiseKept
  <2> QED BY <2>1
<1> QED BY <1>1, Invariance, PTL DEF Spec

\* A request whose callback failed, or whose context was pruned, is over: no later
\* callback, with another code or in another tab, gets a result for it.
THEOREM ClosedForGood ==
  Spec => [][\A c \in ContextId :
               Used(c) /\ c \notin authorization_cache /\ ~Claimed(c)
                 => \A r \in ResultId : cached'[r].request = c => cached[r].request = c]_vars
<1> DEFINE Over(c) == Used(c) /\ c \notin authorization_cache /\ ~Claimed(c)
           Closed == \A c \in ContextId : Over(c) =>
                       \A r \in ResultId : cached'[r].request = c => cached[r].request = c
<1>1. ASSUME TypeOK, Inv, [Next]_vars PROVE Closed
  <2>1. ASSUME NEW c \in ContextId, Over(c), NEW r \in ResultId, cached'[r].request = c
        PROVE  cached[r].request = c
    <3>1. ResultOfBar[r] = cached[r].request /\ ResultOfBar'[r] = cached'[r].request
      BY DEF ResultOfBar
    <3>2. StatusBar[c] = "closed"
      BY <2>1 DEF StatusBar, Used
    <3> QED BY <1>1, <2>1, <3>1, <3>2, StepRefines, PromiseKept
  <2> QED BY <2>1
<1> QED BY <1>1, Invariance, PTL DEF Spec
===============================================================================
