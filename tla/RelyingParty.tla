----------------------------- MODULE RelyingParty -----------------------------
(***************************************************************************)
(* What the relying party promises about an authorization request, with    *)
(* neither threads nor cookies nor caches: every correlation key is issued *)
(* once, is claimed by at most one callback, and yields at most one        *)
(* result, which stays the result of that request for good.                *)
(***************************************************************************)
CONSTANTS
  ContextId,  \* correlation keys: the `state` values of /login
  ResultId,   \* identifiers of stored token responses
  None        \* "no such value"

VARIABLES
  status,     \* status[c]: how far the request with key c has got
  resultOf    \* resultOf[r]: the key result r was obtained for, None before

rpVars == <<status, resultOf>>

Status == {"unused", "pending", "claimed", "closed"}

Init ==
  /\ status = [c \in ContextId |-> "unused"]
  /\ resultOf = [r \in ResultId |-> None]

\* A login issues a key nobody has used.
Begin(c) ==
  /\ status[c] = "unused"
  /\ status' = [status EXCEPT ![c] = "pending"]
  /\ UNCHANGED resultOf

\* One callback takes the request; no other one can.
Claim(c) ==
  /\ status[c] = "pending"
  /\ status' = [status EXCEPT ![c] = "claimed"]
  /\ UNCHANGED resultOf

\* The callback that claimed the request stores what it obtained.
Grant(c, r) ==
  /\ status[c] = "claimed"
  /\ resultOf[r] = None
  /\ status' = [status EXCEPT ![c] = "closed"]
  /\ resultOf' = [resultOf EXCEPT ![r] = c]

\* The callback that claimed the request could not verify the response.
Fail(c) ==
  /\ status[c] = "claimed"
  /\ status' = [status EXCEPT ![c] = "closed"]
  /\ UNCHANGED resultOf

\* Requests nobody claimed are forgotten, any number of them at a time.
Forget(S) ==
  /\ \A c \in S : status[c] = "pending"
  /\ status' = [c \in ContextId |-> IF c \in S THEN "closed" ELSE status[c]]
  /\ UNCHANGED resultOf

Next ==
  \/ \E c \in ContextId : Begin(c) \/ Claim(c) \/ Fail(c)
  \/ \E c \in ContextId, r \in ResultId : Grant(c, r)
  \/ \E S \in SUBSET ContextId : Forget(S)

Spec == Init /\ [][Next]_rpVars
===============================================================================
