------------------------------ MODULE EmailFactor ------------------------------
(***************************************************************************)
(* The email factor, OIDC4ACEmailAuthenticator.java: a one-time code       *)
(* mailed to the user and remembered in notes of the authentication        *)
(* session, twice: in the auth notes, which the flow clears when it        *)
(* restarts, and in the client notes, which Keycloak copies when the       *)
(* planner forks the session.  Each request runs as one step, in which the *)
(* clock advances while the mail is being sent.                            *)
(***************************************************************************)
EXTENDS Integers

CONSTANTS
  Session,    \* authentication sessions
  Root,       \* the one that exists at first; the others are forks
  Code,       \* codes RANDOM draws, each at most once
  Wrong,      \* anything else a user may submit
  None,       \* a note that is not set
  Lifespan,   \* CODE_LIFESPAN_MILLIS
  SendTimes,  \* how long sending a mail may take
  MaxTime     \* bound: no request starts, and no time passes, after this

ASSUME EmailFactorAssumption ==
  /\ Root \in Session
  /\ None \notin Code \cup Nat /\ Wrong \notin Code /\ Wrong # None
  /\ Lifespan \in Nat /\ SendTimes \subseteq Nat /\ MaxTime \in Nat

VARIABLES
  now,       \* System.currentTimeMillis()
  live,      \* authentication sessions that exist
  auth,      \* auth[s]: the auth notes CODE_NOTE and ISSUED_AT_NOTE
  client,    \* client[s]: the client notes of the same names
  mailed,    \* codes in the user's mailbox
  storedAt,  \* history: when the code was put into notes
  accepted   \* history: accepted[s]: codes session s succeeded with

vars == <<now, live, auth, client, mailed, storedAt, accepted>>

Notes == [code : Code \cup {None}, issued_at : Nat \cup {None}]
NoNotes == [code |-> None, issued_at |-> None]

Init ==
  /\ now = 0
  /\ live = {Root}
  /\ auth = [s \in Session |-> NoNotes]
  /\ client = [s \in Session |-> NoNotes]
  /\ mailed = {}
  /\ storedAt = [c \in Code |-> None]
  /\ accepted = [s \in Session |-> {}]

-------------------------------------------------------------------------------
(* Notes *)

\* getSessionNote: the auth note if it is set, else the client note.  The two
\* notes are read one by one.
Read(s, n) == IF auth[s][n] # None THEN auth[s][n] ELSE client[s][n]
Expected(s) == Read(s, "code")
IssuedAt(s) == Read(s, "issued_at")

\* isExpired: a missing timestamp counts as expired.
IsExpired(issued_at) == issued_at = None \/ now - issued_at > Lifespan

\* action accepts a code, and issueCodeIfNeeded keeps one, in this case only.
HasAnyCode(s) == Expected(s) # None
HasCode(s) == Expected(s) # None /\ ~IsExpired(IssuedAt(s))

\* setSessionNote and removeSessionNote, for both names.
SetCodeAndAuthTime(s, notes) ==
  /\ auth' = [auth EXCEPT ![s] = notes]
  /\ client' = [client EXCEPT ![s].code = notes.code]
SetNotes(s, notes) ==
  /\ auth' = [auth EXCEPT ![s] = notes]
  /\ client' = [client EXCEPT ![s] = notes]
RemoveAuthNotes(s) ==
  /\ auth' = [auth EXCEPT ![s] = NoNotes]
  /\ UNCHANGED client
RemoveNotes(s) == SetNotes(s, NoNotes)

-------------------------------------------------------------------------------
(* Mail *)

\* A code is drawn and mailed; only then is it stored, with the time it is by then.
StoreBeforeSend(s) ==
  \E c \in {c \in Code \ mailed : storedAt[c] = None} :
    /\ SetNotes(s, [code |-> c, issued_at |-> now])
    /\ storedAt' = [storedAt EXCEPT ![c] = now]
    /\ \/ mailed' = mailed \cup {c}
       \/ UNCHANGED mailed
    /\ UNCHANGED now
Issue(s) ==
  \E c \in {c \in Code \ mailed : storedAt[c] = None}, d \in SendTimes :
    /\ mailed' = mailed \cup {c}
    /\ now' = now + d
    /\ SetNotes(s, [code |-> c, issued_at |-> now + d])
    /\ storedAt' = [storedAt EXCEPT ![c] = now + d]

\* No address, no SMTP configuration, or the server refuses: EmailException.
SendFails == \E d \in SendTimes : now' = now + d /\ UNCHANGED <<mailed, storedAt>>

Running(s) == s \in live /\ now < MaxTime

-------------------------------------------------------------------------------
(* authenticate *)

\* A valid code is kept: the form is shown again and nothing is mailed.
AuthenticateAgain(s) ==
  /\ Running(s)
  /\ HasCode(s)
  /\ UNCHANGED vars

AuthenticateIssues(s) ==
  /\ Running(s)
  /\ ~HasCode(s)
  /\ Issue(s)
  /\ UNCHANGED <<live, accepted>>

\* The error page; expired notes stay as they are.
AuthenticateFails(s) ==
  /\ Running(s)
  /\ ~HasCode(s)
  /\ SendFails
  /\ UNCHANGED <<live, auth, client, accepted>>

-------------------------------------------------------------------------------
(* action: the user submits a code from the mailbox, or something else *)

AcceptAnything(s, submitted) ==
  /\ Running(s)
  /\ HasCode(s)
  /\ RemoveNotes(s)
  /\ accepted' = [accepted EXCEPT ![s] = @ \cup {submitted}]
  /\ UNCHANGED <<now, live, mailed, storedAt>>
Accept(s, submitted) ==
  /\ Running(s)
  /\ HasCode(s)
  /\ Expected(s) = submitted
  /\ RemoveNotes(s)
  /\ accepted' = [accepted EXCEPT ![s] = @ \cup {submitted}]
  /\ UNCHANGED <<now, live, mailed, storedAt>>

\* Invalid credentials; the code stays, and may be tried again without limit.
RejectAndForget(s, submitted) ==
  /\ Running(s)
  /\ HasCode(s)
  /\ Expected(s) # submitted
  /\ RemoveNotes(s)
  /\ UNCHANGED <<now, live, mailed, storedAt, accepted>>
Reject(s, submitted) ==
  /\ Running(s)
  /\ HasCode(s)
  /\ Expected(s) # submitted
  /\ UNCHANGED vars

\* No code, or an expired one, whatever is submitted: a new one is mailed.
Reissue(s) ==
  /\ Running(s)
  /\ ~HasCode(s)
  /\ Issue(s)
  /\ UNCHANGED <<live, accepted>>

ReissueFails(s) ==
  /\ Running(s)
  /\ ~HasCode(s)
  /\ RemoveNotes(s)
  /\ SendFails
  /\ UNCHANGED <<live, accepted>>

-------------------------------------------------------------------------------
(* Keycloak (external) and time *)

\* The planner forks session s while a factor is challenged: the client notes
\* are copied, the auth notes are not, and s itself stays.
Fork(s, f) ==
  /\ s \in live
  /\ f \notin live
  /\ live' = live \cup {f}
  /\ client' = [client EXCEPT ![f] = client[s]]
  /\ UNCHANGED <<now, auth, mailed, storedAt, accepted>>

\* The flow restarts: the auth notes go, the client notes stay.
RestartFlow(s) ==
  /\ s \in live
  /\ auth' = [auth EXCEPT ![s] = NoNotes]
  /\ UNCHANGED <<now, live, client, mailed, storedAt, accepted>>

Tick ==
  /\ now < MaxTime
  /\ now' = now + 1
  /\ UNCHANGED <<live, auth, client, mailed, storedAt, accepted>>

Authenticate(s) == AuthenticateAgain(s) \/ AuthenticateIssues(s) \/ AuthenticateFails(s)

Action(s) ==
  \/ \E submitted \in mailed \cup {Wrong} : Accept(s, submitted) \/ Reject(s, submitted)
  \/ Reissue(s) \/ ReissueFails(s)

Next ==
  \/ Tick
  \/ \E s \in Session : Authenticate(s) \/ Action(s) \/ RestartFlow(s)
  \/ \E s, f \in Session : Fork(s, f)

Spec == Init /\ [][Next]_vars

-------------------------------------------------------------------------------
(* Properties *)

\* Every variable holds values of the shape the authenticator gives it.
TypeOK ==
  /\ now \in Nat
  /\ live \subseteq Session
  /\ auth \in [Session -> Notes]
  /\ client \in [Session -> Notes]
  /\ mailed \subseteq Code
  /\ storedAt \in [Code -> Nat \cup {None}]
  /\ accepted \in [Session -> SUBSET Code]

\* getSessionNote reads the code and its timestamp one by one, each from the
\* auth notes or from the client notes.  After any forks, restarts, failed mails
\* and retries the two belong together: the timestamp is that of the code.
NotesBelongTogether ==
  \A s \in Session : Expected(s) # None => IssuedAt(s) = storedAt[Expected(s)]

\* The user can always know the code the form asks for: issueCodeIfNeeded stores
\* a code after mailing it, so that a failed mail leaves no code behind.
StoredCodeWasMailed ==
  \A s \in Session : Expected(s) \in mailed \cup {None}

\* A session succeeds with a code at most once: through restarts of its flow and
\* forks from it, a code it has accepted is never the one it expects again.
AcceptedOncePerSession ==
  \A s \in Session : Expected(s) \notin accepted[s]

\* No code is accepted later than its lifespan after it was stored, in whichever
\* copy of the session: a fork inherits the timestamp with the code.
ExpiredNeverAccepted ==
  [][\A s \in Session : accepted'[s] # accepted[s] =>
       \A c \in accepted'[s] : c \notin accepted[s] => now - storedAt[c] =< Lifespan]_vars

\* A valid code stays the expected one until it is accepted: neither wrong
\* submissions nor repeated challenges nor a restart replace it.
ValidCodeStays ==
  [][\A s \in Session :
       HasCode(s) => \/ Expected(s)' = Expected(s)
                     \/ Expected(s) \in accepted'[s]]_vars

\* The comment in setSessionNote says that the transient code is removed on every
\* terminal path: a code that was accepted is in no note any more.
CodeRemovedOnSuccess ==
  \A s, u \in Session : Expected(u) \notin accepted[s]

(* The promise of OneTimeCode, under a refinement mapping *)

OTC == INSTANCE OneTimeCode WITH
  open <- live,
  code <- [s \in Session |-> Expected(s)],
  issued <- storedAt,
  used <- accepted

\* Two notes kept twice, slow and failing mail, forks and restarts of the flow
\* amount to a code that a session expects until it is accepted or too old: notes
\* are forgotten for no other reason, and a restart is not even seen.
ImplementsOneTimeCode == OTC!Spec
===============================================================================
