-------------------------- MODULE EmailFactorProofs --------------------------
(***************************************************************************)
(* Theorems about the email factor, for any number of sessions and codes,  *)
(* any lifespan, and mails that take any time.                             *)
(***************************************************************************)
EXTENDS EmailFactor, TLAPS

(***************************************************************************)
(* The inductive invariant.                                                *)
(***************************************************************************)

\* A pair of notes is set as a whole, to a code that was mailed and its time.
Whole(n) ==
  \/ n = NoNotes
  \/ /\ n.code \in mailed
     /\ n.issued_at = storedAt[n.code]
     /\ n.issued_at \in Nat

\* The client notes are whole, and the auth notes repeat them or are not set: this
\* is what makes it harmless that getSessionNote reads the two notes one by one.
NotesInv == \A s \in Session : Whole(client[s]) /\ auth[s] \in {NoNotes, client[s]}

\* A session that is still to be forked has no past.
ForkInv ==
  \A s \in Session \ live : auth[s] = NoNotes /\ client[s] = NoNotes /\ accepted[s] = {}

\* What a session accepted had been mailed, and is in its notes no more.
AcceptInv == \A s \in Session : accepted[s] \subseteq mailed /\ client[s].code \notin accepted[s]

Inv == TypeOK /\ NotesInv /\ ForkInv /\ AcceptInv

-------------------------------------------------------------------------------
(* Lemmas *)

\* With the invariant, the two notes getSessionNote reads are the client notes.
LEMMA ReadsClientNotes ==
  ASSUME Inv, NEW s \in Session
  PROVE  Expected(s) = client[s].code /\ IssuedAt(s) = client[s].issued_at
BY EmailFactorAssumption
   DEF Inv, TypeOK, Notes, NotesInv, Whole, NoNotes, Expected, IssuedAt, Read

\* No code is the value of a note that is not set.
LEMMA NoneIsNoCode == None \notin Code /\ None \notin Nat
BY EmailFactorAssumption

LEMMA NoNotesType == NoNotes \in Notes /\ NoNotes.code = None
BY DEF NoNotes, Notes

\* Storing a pair of notes, and removing them, keeps the shape of both maps.
LEMMA SetNotesType ==
  ASSUME TypeOK, NEW s \in Session, NEW n \in Notes, SetNotes(s, n)
  PROVE  /\ auth' \in [Session -> Notes]
         /\ client' \in [Session -> Notes]
         /\ \A u \in Session : /\ auth'[u] = IF u = s THEN n ELSE auth[u]
                               /\ client'[u] = IF u = s THEN n ELSE client[u]
BY DEF TypeOK, SetNotes

\* RemoveNotes keeps the part of the invariant that speaks of notes.
LEMMA RemoveNotesInv ==
  ASSUME Inv, NEW s \in Session, RemoveNotes(s), UNCHANGED <<mailed, storedAt>>
  PROVE  /\ auth' \in [Session -> Notes]
         /\ client' \in [Session -> Notes]
         /\ NotesInv'
         /\ \A u \in Session : auth'[u] \in {NoNotes, auth[u]} /\ client'[u] \in {NoNotes, client[u]}
         /\ client'[s] = NoNotes
<1>1. NoNotes \in Notes
  BY NoNotesType
<1>2. TypeOK /\ SetNotes(s, NoNotes)
  BY DEF Inv, RemoveNotes
<1>3. /\ auth' \in [Session -> Notes]
      /\ client' \in [Session -> Notes]
      /\ \A u \in Session : /\ auth'[u] = IF u = s THEN NoNotes ELSE auth[u]
                            /\ client'[u] = IF u = s THEN NoNotes ELSE client[u]
  BY <1>1, <1>2, SetNotesType
<1>4. NotesInv'
  BY <1>3 DEF Inv, NotesInv, Whole
<1> QED BY <1>3, <1>4

\* issueCodeIfNeeded keeps the invariant when it mails a code: the code is new, so
\* neither the times of other codes nor what was accepted is about it.
LEMMA IssueInv ==
  ASSUME Inv, NEW s \in Session, s \in live, Issue(s), UNCHANGED <<live, accepted>>
  PROVE  Inv'
<1>1. PICK c \in {k \in Code \ mailed : storedAt[k] = None}, d \in SendTimes :
        /\ mailed' = mailed \cup {c}
        /\ now' = now + d
        /\ SetNotes(s, [code |-> c, issued_at |-> now + d])
        /\ storedAt' = [storedAt EXCEPT ![c] = now + d]
  BY DEF Issue
<1> DEFINE n == [code |-> c, issued_at |-> now + d]
<1>2. now \in Nat /\ now + d \in Nat
  BY EmailFactorAssumption DEF Inv, TypeOK
<1>3. n \in Notes /\ n.code = c /\ n.issued_at = now + d
  BY <1>2 DEF Notes
<1>4. /\ auth' \in [Session -> Notes]
      /\ client' \in [Session -> Notes]
      /\ \A u \in Session : /\ auth'[u] = IF u = s THEN n ELSE auth[u]
                            /\ client'[u] = IF u = s THEN n ELSE client[u]
  BY <1>1, <1>3, SetNotesType DEF Inv
<1>5. storedAt'[c] = now + d /\ \A k \in Code : k # c => storedAt'[k] = storedAt[k]
  BY <1>1 DEF Inv, TypeOK
<1>6. TypeOK'
  BY <1>1, <1>2, <1>4 DEF Inv, TypeOK
<1>7. NotesInv'
  <2> SUFFICES ASSUME NEW u \in Session
               PROVE  Whole(client[u])' /\ auth'[u] \in {NoNotes, client'[u]}
    BY DEF NotesInv
  <2>1. CASE u = s
    BY <1>1, <1>2, <1>3, <1>4, <1>5, <2>1 DEF Whole
  <2>2. CASE u # s
    <3>1. auth'[u] = auth[u] /\ client'[u] = client[u]
      BY <1>4, <2>2
    <3>2. Whole(client[u]) /\ auth[u] \in {NoNotes, client[u]}
      BY DEF Inv, NotesInv
    <3>3. client[u] # NoNotes => client[u].code \in mailed /\ client[u].code \in Code /\ client[u].code # c
      BY <3>2 DEF Whole, Inv, TypeOK
    <3>4. Whole(client[u])'
      BY <1>1, <1>5, <3>1, <3>2, <3>3 DEF Whole
    <3> QED BY <3>1, <3>2, <3>4
  <2> QED BY <2>1, <2>2
<1>8. ForkInv'
  BY <1>4 DEF Inv, ForkInv
<1>9. AcceptInv'
  BY <1>1, <1>3, <1>4 DEF Inv, AcceptInv
<1> QED BY <1>6, <1>7, <1>8, <1>9 DEF Inv

-------------------------------------------------------------------------------

\* The session starts without notes.
LEMMA InitInv == Init => Inv
<1> SUFFICES ASSUME Init PROVE Inv
  OBVIOUS
<1>1. TypeOK
  BY EmailFactorAssumption, NoNotesType DEF Init, TypeOK
<1>2. NotesInv /\ ForkInv /\ AcceptInv
  BY DEF Init, NotesInv, Whole, ForkInv, AcceptInv
<1> QED BY <1>1, <1>2 DEF Inv

\* Every step of the authenticator, of Keycloak and of the clock keeps the invariant.
LEMMA NextInv == Inv /\ [Next]_vars => Inv'
<1> SUFFICES ASSUME Inv, [Next]_vars PROVE Inv'
  OBVIOUS
<1>1. ASSUME UNCHANGED vars PROVE Inv'
  BY <1>1 DEF vars, Inv, TypeOK, NotesInv, Whole, ForkInv, AcceptInv
<1>2. CASE Tick
  <2>1. now' \in Nat /\ UNCHANGED <<live, auth, client, mailed, storedAt, accepted>>
    BY <1>2 DEF Tick, Inv, TypeOK
  <2> QED BY <2>1 DEF Inv, TypeOK, NotesInv, Whole, ForkInv, AcceptInv
<1>3. ASSUME NEW s \in Session, AuthenticateIssues(s) \/ Reissue(s) PROVE Inv'
  BY <1>3, IssueInv DEF AuthenticateIssues, Reissue, Running
<1>4. ASSUME NEW s \in Session, AuthenticateFails(s) PROVE Inv'
  <2>1. now' \in Nat /\ UNCHANGED <<live, auth, client, mailed, storedAt, accepted>>
    BY <1>4, EmailFactorAssumption DEF AuthenticateFails, SendFails, Inv, TypeOK
  <2> QED BY <2>1 DEF Inv, TypeOK, NotesInv, Whole, ForkInv, AcceptInv
<1>5. ASSUME NEW s \in Session, ReissueFails(s) PROVE Inv'
  <2>1. /\ now' \in Nat
        /\ RemoveNotes(s)
        /\ UNCHANGED <<live, mailed, storedAt, accepted>>
    BY <1>5, EmailFactorAssumption DEF ReissueFails, SendFails, Inv, TypeOK
  <2>2. /\ auth' \in [Session -> Notes]
        /\ client' \in [Session -> Notes]
        /\ NotesInv'
        /\ \A u \in Session : auth'[u] \in {NoNotes, auth[u]} /\ client'[u] \in {NoNotes, client[u]}
    BY <2>1, RemoveNotesInv
  <2>3. TypeOK'
    BY <2>1, <2>2 DEF Inv, TypeOK
  <2>4. ForkInv'
    BY <2>1, <2>2 DEF Inv, ForkInv
  <2>5. AcceptInv'
    BY <2>1, <2>2, NoNotesType, NoneIsNoCode DEF Inv, TypeOK, AcceptInv
  <2> QED BY <2>2, <2>3, <2>4, <2>5 DEF Inv
<1>6. ASSUME NEW s \in Session, NEW submitted \in mailed \cup {Wrong}, Accept(s, submitted)
      PROVE  Inv'
  <2>1. /\ s \in live
        /\ RemoveNotes(s)
        /\ UNCHANGED <<now, live, mailed, storedAt>>
        /\ accepted' = [accepted EXCEPT ![s] = @ \cup {submitted}]
    BY <1>6 DEF Accept, Running
  <2>2. /\ auth' \in [Session -> Notes]
        /\ client' \in [Session -> Notes]
        /\ NotesInv'
        /\ \A u \in Session : auth'[u] \in {NoNotes, auth[u]} /\ client'[u] \in {NoNotes, client[u]}
        /\ client'[s] = NoNotes
    BY <2>1, RemoveNotesInv
  <2>3. submitted \in mailed /\ submitted \in Code
    <3>1. Expected(s) = client[s].code
      BY ReadsClientNotes
    <3>2. client[s].code = submitted /\ submitted # None
      BY <1>6, <3>1 DEF Accept, HasCode
    <3>3. Whole(client[s])
      BY DEF Inv, NotesInv
    <3> QED BY <3>2, <3>3, NoNotesType DEF Whole, Inv, TypeOK
  <2>4. TypeOK'
    BY <2>1, <2>2, <2>3 DEF Inv, TypeOK
  <2>5. ForkInv'
    BY <2>1, <2>2 DEF Inv, TypeOK, ForkInv
  <2>6. AcceptInv'
    <3> SUFFICES ASSUME NEW u \in Session
                 PROVE  accepted'[u] \subseteq mailed' /\ client'[u].code \notin accepted'[u]
      BY DEF AcceptInv
    <3>1. accepted[u] \subseteq mailed /\ client[u].code \notin accepted[u] /\ accepted[u] \subseteq Code
      BY DEF Inv, TypeOK, AcceptInv
    <3>2. CASE u = s
      BY <2>1, <2>2, <2>3, <3>1, <3>2, NoNotesType, NoneIsNoCode DEF Inv, TypeOK
    <3>3. CASE u # s
      BY <2>1, <2>2, <3>1, <3>3, NoNotesType, NoneIsNoCode DEF Inv, TypeOK
    <3> QED BY <3>2, <3>3
  <2> QED BY <2>2, <2>4, <2>5, <2>6 DEF Inv
<1>7. ASSUME NEW s \in Session, RestartFlow(s) PROVE Inv'
  <2>1. /\ auth' = [auth EXCEPT ![s] = NoNotes]
        /\ UNCHANGED <<now, live, client, mailed, storedAt, accepted>>
    BY <1>7 DEF RestartFlow
  <2>2. TypeOK'
    BY <2>1, NoNotesType DEF Inv, TypeOK
  <2>3. NotesInv' /\ ForkInv' /\ AcceptInv'
    BY <2>1 DEF Inv, TypeOK, NotesInv, Whole, ForkInv, AcceptInv
  <2> QED BY <2>2, <2>3 DEF Inv
<1>8. ASSUME NEW s \in Session, NEW f \in Session, Fork(s, f) PROVE Inv'
  <2>1. /\ f \notin live
        /\ live' = live \cup {f}
        /\ client' = [client EXCEPT ![f] = client[s]]
        /\ UNCHANGED <<now, auth, mailed, storedAt, accepted>>
    BY <1>8 DEF Fork
  <2>2. auth[f] = NoNotes /\ accepted[f] = {}
    BY <2>1 DEF Inv, ForkInv
  <2>3. TypeOK'
    BY <2>1 DEF Inv, TypeOK
  <2>4. NotesInv'
    BY <2>1, <2>2 DEF Inv, TypeOK, NotesInv, Whole
  <2>5. ForkInv'
    BY <2>1 DEF Inv, TypeOK, ForkInv
  <2>6. AcceptInv'
    BY <2>1, <2>2 DEF Inv, TypeOK, AcceptInv
  <2> QED BY <2>3, <2>4, <2>5, <2>6 DEF Inv
<1>9. ASSUME NEW s \in Session, Authenticate(s) PROVE Inv'
  BY <1>1, <1>3, <1>4, <1>9 DEF Authenticate, AuthenticateAgain
<1>10. ASSUME NEW s \in Session, Action(s) PROVE Inv'
  BY <1>1, <1>3, <1>5, <1>6, <1>10 DEF Action, Reject
<1> QED BY <1>1, <1>2, <1>7, <1>8, <1>9, <1>10 DEF Next

\* The invariant holds in every reachable state.
THEOREM Invariance == Spec => []Inv
BY InitInv, NextInv, PTL DEF Spec

-------------------------------------------------------------------------------
(* What follows from it *)

\* Every variable holds values of the shape the authenticator gives it.
THEOREM TypeCorrect == Spec => []TypeOK
<1>1. Inv => TypeOK
  BY DEF Inv
<1> QED BY <1>1, Invariance, PTL

\* The timestamp getSessionNote returns is that of the code it returns, after any
\* forks, restarts, failed mails and retries.
THEOREM NotesTogether == Spec => []NotesBelongTogether
<1>1. ASSUME Inv PROVE NotesBelongTogether
  <2> SUFFICES ASSUME NEW s \in Session, Expected(s) # None
               PROVE  IssuedAt(s) = storedAt[Expected(s)]
    BY DEF NotesBelongTogether
  <2>1. Expected(s) = client[s].code /\ IssuedAt(s) = client[s].issued_at
    BY <1>1, ReadsClientNotes
  <2>2. Whole(client[s])
    BY <1>1 DEF Inv, NotesInv
  <2> QED BY <2>1, <2>2, NoNotesType DEF Whole
<1> QED BY <1>1, Invariance, PTL

\* The code a form asks for was mailed: issueCodeIfNeeded stores it after sending.
THEOREM CodeWasMailed == Spec => []StoredCodeWasMailed
<1>1. ASSUME Inv PROVE StoredCodeWasMailed
  <2> SUFFICES ASSUME NEW s \in Session PROVE Expected(s) \in mailed \cup {None}
    BY DEF StoredCodeWasMailed
  <2>1. Expected(s) = client[s].code
    BY <1>1, ReadsClientNotes
  <2>2. Whole(client[s])
    BY <1>1 DEF Inv, NotesInv
  <2> QED BY <2>1, <2>2, NoNotesType DEF Whole
<1> QED BY <1>1, Invariance, PTL

\* A session that has accepted a code never asks for it again, whatever is forked
\* from it or restarted.
THEOREM AcceptedOnce == Spec => []AcceptedOncePerSession
<1>1. ASSUME Inv PROVE AcceptedOncePerSession
  BY <1>1, ReadsClientNotes DEF AcceptedOncePerSession, Inv, AcceptInv
<1> QED BY <1>1, Invariance, PTL

\* action accepts a code within CODE_LIFESPAN_MILLIS of the time it was stored, in
\* whichever copy of the session.
THEOREM ExpiredRefused == Spec => ExpiredNeverAccepted
<1> DEFINE InTime ==
      \A s \in Session : accepted'[s] # accepted[s] =>
        \A c \in accepted'[s] : c \notin accepted[s] => now - storedAt[c] =< Lifespan
<1>1. ASSUME Inv, Next PROVE InTime
  <2>1. ASSUME UNCHANGED accepted PROVE InTime
    BY <2>1
  <2>2. ASSUME NEW u \in Session, NEW submitted \in mailed \cup {Wrong}, Accept(u, submitted)
        PROVE  InTime
    <3>1. /\ Expected(u) = submitted /\ submitted # None
          /\ IssuedAt(u) # None /\ ~(now - IssuedAt(u) > Lifespan)
      BY <2>2 DEF Accept, HasCode, IsExpired
    <3>2. IssuedAt(u) = storedAt[submitted] /\ IssuedAt(u) \in Nat
      <4>1. Expected(u) = client[u].code /\ IssuedAt(u) = client[u].issued_at
        BY <1>1, ReadsClientNotes
      <4>2. Whole(client[u])
        BY <1>1 DEF Inv, NotesInv
      <4> QED BY <3>1, <4>1, <4>2, NoNotesType DEF Whole
    <3>3. now - storedAt[submitted] =< Lifespan
      BY <1>1, <3>1, <3>2, EmailFactorAssumption DEF Inv, TypeOK
    <3>4. \A s \in Session : \A c \in accepted'[s] : c \notin accepted[s] => c = submitted
      BY <1>1, <2>2 DEF Accept, Inv, TypeOK
    <3> QED BY <3>3, <3>4
  <2>3. ASSUME NEW s \in Session, Authenticate(s) PROVE UNCHANGED accepted
    BY <2>3 DEF Authenticate, AuthenticateAgain, AuthenticateIssues, AuthenticateFails, vars
  <2>4. ASSUME NEW s \in Session, Action(s) PROVE InTime
    <3>1. ASSUME NEW submitted \in mailed \cup {Wrong}, Reject(s, submitted)
          PROVE  UNCHANGED accepted
      BY <3>1 DEF Reject, vars
    <3>2. ASSUME Reissue(s) \/ ReissueFails(s) PROVE UNCHANGED accepted
      BY <3>2 DEF Reissue, ReissueFails
    <3> QED BY <2>1, <2>2, <2>4, <3>1, <3>2 DEF Action
  <2>5. ASSUME NEW s \in Session, NEW f \in Session, RestartFlow(s) \/ Fork(s, f) \/ Tick
        PROVE  UNCHANGED accepted
    BY <2>5 DEF RestartFlow, Fork, Tick
  <2>6. ASSUME Tick PROVE UNCHANGED accepted
    BY <2>6 DEF Tick
  <2> HIDE DEF InTime
  <2> QED BY <1>1, <2>1, <2>3, <2>4, <2>5, <2>6 DEF Next
<1>2. ASSUME Inv, [Next]_vars PROVE [InTime]_vars
  BY <1>1, <1>2
<1> QED BY <1>2, Invariance, PTL DEF Spec, ExpiredNeverAccepted

\* No wrong submission, repeated challenge, restart or fork replaces a valid code.
THEOREM ValidStays == Spec => ValidCodeStays
<1> DEFINE Stays ==
      \A s \in Session :
        HasCode(s) => \/ Expected(s)' = Expected(s)
                      \/ Expected(s) \in accepted'[s]
<1>1. ASSUME Inv, Inv', Next PROVE Stays
  <2> SUFFICES ASSUME NEW s \in Session, HasCode(s)
               PROVE  \/ Expected(s)' = Expected(s)
                      \/ Expected(s) \in accepted'[s]
    OBVIOUS
  <2>1. Expected(s) = client[s].code /\ client[s].code # None
    BY <1>1, ReadsClientNotes DEF HasCode
  <2>2. Expected(s)' = client'[s].code
    BY <1>1, EmailFactorAssumption
       DEF Inv, TypeOK, Notes, NotesInv, Whole, NoNotes, Expected, Read
  <2>3. ASSUME client'[s] = client[s] PROVE Expected(s)' = Expected(s)
    BY <2>1, <2>2, <2>3
  <2>4. CASE UNCHANGED client
    BY <2>3, <2>4
  <2>5. ASSUME NEW u \in Session, NEW n \in Notes, SetNotes(u, n), u # s
        PROVE  client'[s] = client[s]
    BY <1>1, <2>5, SetNotesType DEF Inv
  <2>6. ASSUME NEW u \in Session, Issue(u), u # s PROVE client'[s] = client[s]
    <3>1. PICK c \in Code, d \in SendTimes : SetNotes(u, [code |-> c, issued_at |-> now + d])
      BY <2>6 DEF Issue
    <3>2. [code |-> c, issued_at |-> now + d] \in Notes
      BY <1>1, EmailFactorAssumption DEF Inv, TypeOK, Notes
    <3> QED BY <2>5, <2>6, <3>1, <3>2
  <2>7. ASSUME NEW u \in Session, RemoveNotes(u), u # s PROVE client'[s] = client[s]
    BY <2>5, <2>7, NoNotesType DEF RemoveNotes
  <2>8. ASSUME NEW u \in Session, Authenticate(u)
        PROVE  UNCHANGED client \/ client'[s] = client[s]
    BY <2>6, <2>8 DEF Authenticate, AuthenticateAgain, AuthenticateIssues, AuthenticateFails, vars
  <2>9. ASSUME NEW u \in Session, Action(u)
        PROVE  UNCHANGED client \/ client'[s] = client[s] \/ Expected(s) \in accepted'[s]
    <3>1. ASSUME NEW submitted \in mailed \cup {Wrong}, Accept(u, submitted)
          PROVE  client'[s] = client[s] \/ Expected(s) \in accepted'[s]
      BY <1>1, <2>7, <3>1 DEF Accept, Inv, TypeOK
    <3>2. ASSUME NEW submitted \in mailed \cup {Wrong}, Reject(u, submitted)
          PROVE  UNCHANGED client
      BY <3>2 DEF Reject, vars
    <3>3. ASSUME Reissue(u) \/ ReissueFails(u) PROVE client'[s] = client[s]
      BY <2>6, <2>7, <3>3 DEF Reissue, ReissueFails
    <3> QED BY <2>9, <3>1, <3>2, <3>3 DEF Action
  <2>10. ASSUME NEW u \in Session, NEW f \in Session, Fork(u, f) PROVE client'[s] = client[s]
    <3>1. f # s
      BY <1>1, <2>1, <2>10, NoNotesType DEF Inv, ForkInv, Fork
    <3> QED BY <1>1, <2>10, <3>1 DEF Fork, Inv, TypeOK
  <2>11. ASSUME NEW u \in Session, RestartFlow(u) PROVE UNCHANGED client
    BY <2>11 DEF RestartFlow
  <2>12. CASE Tick
    BY <2>4, <2>12 DEF Tick
  <2> QED BY <1>1, <2>3, <2>4, <2>8, <2>9, <2>10, <2>11, <2>12 DEF Next
<1>2. ASSUME Inv, Inv', [Next]_vars PROVE [Stays]_vars
  BY <1>1, <1>2
<1> QED BY <1>2, Invariance, PTL DEF Spec, ValidCodeStays

-------------------------------------------------------------------------------
(* The email factor implements OneTimeCode *)

\* The code every session expects.
ExpectedCodes == [s \in Session |-> Expected(s)]

\* It is the one in the client notes, before and after a step.
LEMMA ExpectedInClientNotes ==
  ASSUME Inv, Inv'
  PROVE  /\ ExpectedCodes = [s \in Session |-> client[s].code]
         /\ ExpectedCodes' = [s \in Session |-> client'[s].code]
<1>1. \A s \in Session : Expected(s) = client[s].code
  BY ReadsClientNotes
<1>2. \A s \in Session : Expected(s)' = client'[s].code
  BY EmailFactorAssumption
     DEF Inv, TypeOK, Notes, NotesInv, Whole, NoNotes, Expected, Read
<1> QED BY <1>1, <1>2 DEF ExpectedCodes

\* The authenticator takes a code for valid exactly when its age is: a session has
\* no timestamp but that of its code.
LEMMA HasCodeIsValid ==
  ASSUME Inv, NEW s \in Session
  PROVE  HasCode(s) <=> OTC!Valid(s)
<1>1. Expected(s) = client[s].code /\ IssuedAt(s) = client[s].issued_at
  BY ReadsClientNotes
<1>2. Whole(client[s])
  BY DEF Inv, NotesInv
<1>3. CASE client[s] = NoNotes
  BY <1>1, <1>3 DEF NoNotes, HasCode, OTC!Valid
<1>4. CASE client[s] # NoNotes
  <2>1. /\ client[s].code # None
        /\ storedAt[client[s].code] = client[s].issued_at
        /\ client[s].issued_at \in Nat /\ client[s].issued_at # None
    BY <1>2, <1>4, NoneIsNoCode DEF Whole, Inv, TypeOK
  <2>2. HasCode(s) <=> ~(now - client[s].issued_at > Lifespan)
    BY <1>1, <2>1 DEF HasCode, IsExpired
  <2>3. OTC!Valid(s) <=> now - client[s].issued_at =< Lifespan
    BY <1>1, <2>1 DEF OTC!Valid
  <2> QED BY <2>1, <2>2, <2>3, EmailFactorAssumption DEF Inv, TypeOK
<1> QED BY <1>3, <1>4

\* Notes that stay are a code that stays, and notes that are set one that is given.
LEMMA ClientNotesStay ==
  ASSUME Inv, Inv', UNCHANGED client
  PROVE  UNCHANGED ExpectedCodes
BY ExpectedInClientNotes

LEMMA ClientNotesSet ==
  ASSUME Inv, Inv', NEW s \in Session, NEW n \in Notes, SetNotes(s, n)
  PROVE  ExpectedCodes' = [ExpectedCodes EXCEPT ![s] = n.code]
<1>1. \A u \in Session : client'[u] = IF u = s THEN n ELSE client[u]
  BY SetNotesType DEF Inv
<1> QED BY <1>1, ExpectedInClientNotes

\* A step in which the code of no session changes, while time passes or not.
LEMMA PassStep ==
  ASSUME Inv, Inv', UNCHANGED <<live, client, storedAt, accepted>>, now' >= now
  PROVE  OTC!Next
<1>1. UNCHANGED ExpectedCodes
  BY ClientNotesStay
<1>2. now' \in Nat
  BY DEF Inv, TypeOK
<1> QED BY <1>1, <1>2 DEF OTC!Next, OTC!Pass, OTC!TimePasses, ExpectedCodes

\* issueCodeIfNeeded gives the session a code that is as old as its notes.
LEMMA GiveStep ==
  ASSUME Inv, Inv', NEW s \in Session, Running(s), ~HasCode(s), Issue(s),
         UNCHANGED <<live, accepted>>
  PROVE  OTC!Next
<1>1. PICK c \in {k \in Code \ mailed : storedAt[k] = None}, d \in SendTimes :
        /\ now' = now + d
        /\ SetNotes(s, [code |-> c, issued_at |-> now + d])
        /\ storedAt' = [storedAt EXCEPT ![c] = now + d]
  BY DEF Issue
<1>2. now \in Nat /\ now + d \in Nat /\ now + d >= now
  BY EmailFactorAssumption DEF Inv, TypeOK
<1>3. [code |-> c, issued_at |-> now + d] \in Notes
  BY <1>2 DEF Notes
<1>4. ExpectedCodes' = [ExpectedCodes EXCEPT ![s] = c]
  BY <1>1, <1>3, ClientNotesSet
<1>5. ~OTC!Valid(s)
  BY HasCodeIsValid
<1>6. OTC!Give(s, c)
  BY <1>1, <1>2, <1>4, <1>5 DEF OTC!Give, OTC!TimePasses, ExpectedCodes, Running
<1> QED BY <1>6 DEF OTC!Next

\* action accepts the code that is expected and removes it.
LEMMA AcceptStep ==
  ASSUME Inv, Inv', NEW s \in Session, NEW submitted \in mailed \cup {Wrong},
         Accept(s, submitted)
  PROVE  OTC!Next
<1>1. /\ s \in live /\ HasCode(s) /\ submitted = Expected(s)
      /\ SetNotes(s, NoNotes)
      /\ accepted' = [accepted EXCEPT ![s] = @ \cup {submitted}]
      /\ UNCHANGED <<now, live, storedAt>>
  BY DEF Accept, Running, RemoveNotes
<1>2. ExpectedCodes' = [ExpectedCodes EXCEPT ![s] = None]
  BY <1>1, ClientNotesSet, NoNotesType
<1>3. OTC!Valid(s)
  BY <1>1, HasCodeIsValid
<1>4. accepted' = [accepted EXCEPT ![s] = @ \cup {ExpectedCodes[s]}]
  BY <1>1 DEF ExpectedCodes
<1>5. OTC!Accept(s)
  BY <1>1, <1>2, <1>3, <1>4 DEF OTC!Accept, ExpectedCodes
<1> QED BY <1>5 DEF OTC!Next

\* The notes are gone when the mail with a new code fails in action.
LEMMA LapseStep ==
  ASSUME Inv, Inv', NEW s \in Session, ReissueFails(s)
  PROVE  OTC!Next
<1>1. PICK d \in SendTimes : now' = now + d
  BY DEF ReissueFails, SendFails
<1>2. /\ s \in live /\ ~HasCode(s) /\ SetNotes(s, NoNotes)
      /\ UNCHANGED <<live, storedAt, accepted>>
  BY DEF ReissueFails, SendFails, Running, RemoveNotes
<1>3. now' \in Nat /\ now' >= now
  BY <1>1, EmailFactorAssumption DEF Inv, TypeOK
<1>4. ExpectedCodes' = [ExpectedCodes EXCEPT ![s] = None]
  BY <1>2, ClientNotesSet, NoNotesType
<1>5. ~OTC!Valid(s)
  BY <1>2, HasCodeIsValid
<1>6. OTC!Lapse(s)
  BY <1>2, <1>3, <1>4, <1>5 DEF OTC!Lapse, OTC!TimePasses, ExpectedCodes
<1> QED BY <1>6 DEF OTC!Next

\* A fork copies the client notes, and with them the code.
LEMMA ForkStep ==
  ASSUME Inv, Inv', NEW s \in Session, NEW f \in Session, Fork(s, f)
  PROVE  OTC!Next
<1>1. \A u \in Session : client'[u] = IF u = f THEN client[s] ELSE client[u]
  BY DEF Fork, Inv, TypeOK
<1>2. ExpectedCodes' = [ExpectedCodes EXCEPT ![f] = ExpectedCodes[s]]
  BY <1>1, ExpectedInClientNotes
<1>3. OTC!Fork(s, f)
  BY <1>2 DEF Fork, OTC!Fork, ExpectedCodes
<1> QED BY <1>3 DEF OTC!Next

\* Notes kept twice, mails that take time or fail, forks and restarts amount to one
\* code per session, expected from the time it was issued until it is accepted or
\* too old.
THEOREM Refinement == Spec => ImplementsOneTimeCode
<1>1. Init => OTC!Init
  <2> SUFFICES ASSUME Init PROVE OTC!Init
    OBVIOUS
  <2>1. \A s \in Session : Expected(s) = None
    BY NoNotesType DEF Init, Expected, Read, NoNotes
  <2> QED BY <2>1 DEF Init, OTC!Init
<1>2. ASSUME Inv, Inv', [Next]_vars PROVE [OTC!Next]_(OTC!otcVars)
  <2>1. CASE UNCHANGED vars
    BY <1>2, <2>1, ClientNotesStay DEF vars, OTC!otcVars, ExpectedCodes
  <2>2. CASE Tick
    <3>1. now' >= now /\ UNCHANGED <<live, client, storedAt, accepted>>
      BY <1>2, <2>2 DEF Tick, Inv, TypeOK
    <3> QED BY <1>2, <3>1, PassStep
  <2>3. ASSUME NEW s \in Session, AuthenticateIssues(s) \/ Reissue(s) PROVE OTC!Next
    BY <1>2, <2>3, GiveStep DEF AuthenticateIssues, Reissue
  <2>4. ASSUME NEW s \in Session, AuthenticateFails(s) PROVE OTC!Next
    <3>1. now' >= now /\ UNCHANGED <<live, client, storedAt, accepted>>
      BY <1>2, <2>4, EmailFactorAssumption DEF AuthenticateFails, SendFails, Inv, TypeOK
    <3> QED BY <1>2, <3>1, PassStep
  <2>5. ASSUME NEW s \in Session, Authenticate(s) PROVE OTC!Next \/ UNCHANGED vars
    BY <2>3, <2>4, <2>5 DEF Authenticate, AuthenticateAgain
  <2>6. ASSUME NEW s \in Session, Action(s) PROVE OTC!Next \/ UNCHANGED vars
    <3>1. ASSUME NEW submitted \in mailed \cup {Wrong}, Accept(s, submitted)
          PROVE  OTC!Next
      BY <1>2, <3>1, AcceptStep
    <3>2. ASSUME NEW submitted \in mailed \cup {Wrong}, Reject(s, submitted)
          PROVE  UNCHANGED vars
      BY <3>2 DEF Reject
    <3>3. ASSUME ReissueFails(s) PROVE OTC!Next
      BY <1>2, <3>3, LapseStep
    <3> QED BY <2>3, <2>6, <3>1, <3>2, <3>3 DEF Action
  <2>7. ASSUME NEW s \in Session, RestartFlow(s) PROVE OTC!Next
    <3>1. now' >= now /\ UNCHANGED <<live, client, storedAt, accepted>>
      BY <1>2, <2>7 DEF RestartFlow, Inv, TypeOK
    <3> QED BY <1>2, <3>1, PassStep
  <2>8. ASSUME NEW s \in Session, NEW f \in Session, Fork(s, f) PROVE OTC!Next
    BY <1>2, <2>8, ForkStep
  <2>9. CASE Next
    BY <2>1, <2>2, <2>5, <2>6, <2>7, <2>8, <2>9 DEF Next
  <2> QED BY <1>2, <2>1, <2>9
<1> QED BY <1>1, <1>2, Invariance, PTL DEF Spec, ImplementsOneTimeCode, OTC!Spec
===============================================================================
