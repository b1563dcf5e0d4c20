------------------------------ MODULE OneTimeCode ------------------------------
(***************************************************************************)
(* What the email factor promises about the codes it mails, with neither   *)
(* notes nor mail: a session expects one code at a time, from the moment   *)
(* the code was issued until it is accepted or too old, and a fork expects *)
(* the code of the session it was forked from, at the same age.            *)
(***************************************************************************)
EXTENDS Integers

CONSTANTS
  Session,    \* authentication sessions
  Root,       \* the one that exists at first
  Code,       \* codes, each issued at most once
  None,       \* "no such value"
  Lifespan    \* how long a code can be accepted

VARIABLES
  now,      \* the time
  open,     \* sessions that exist
  code,     \* code[s]: the code session s expects, or None
  issued,   \* issued[c]: when code c was issued, or None
  used      \* used[s]: the codes session s has accepted

otcVars == <<now, open, code, issued, used>>

Valid(s) == code[s] # None /\ now - issued[code[s]] =< Lifespan

Init ==
  /\ now = 0
  /\ open = {Root}
  /\ code = [s \in Session |-> None]
  /\ issued = [c \in Code |-> None]
  /\ used = [s \in Session |-> {}]

TimePasses == now' \in Nat /\ now' >= now

\* A session without a valid code is given a new one, as old as its arrival.
Give(s, c) ==
  /\ s \in open
  /\ ~Valid(s) /\ issued[c] = None
  /\ TimePasses
  /\ code' = [code EXCEPT ![s] = c]
  /\ issued' = [issued EXCEPT ![c] = now']
  /\ UNCHANGED <<open, used>>

\* A valid code is accepted, and not expected again.
Accept(s) ==
  /\ s \in open
  /\ Valid(s)
  /\ code' = [code EXCEPT ![s] = None]
  /\ used' = [used EXCEPT ![s] = @ \cup {code[s]}]
  /\ UNCHANGED <<now, open, issued>>

\* A code that is too old is forgotten, because no other could be sent.
Lapse(s) ==
  /\ s \in open
  /\ ~Valid(s)
  /\ TimePasses
  /\ code' = [code EXCEPT ![s] = None]
  /\ UNCHANGED <<open, issued, used>>

Fork(s, f) ==
  /\ s \in open /\ f \notin open
  /\ open' = open \cup {f}
  /\ code' = [code EXCEPT ![f] = code[s]]
  /\ UNCHANGED <<now, issued, used>>

Pass ==
  /\ TimePasses
  /\ UNCHANGED <<open, code, issued, used>>

Next ==
  \/ Pass
  \/ \E s \in Session : Accept(s) \/ Lapse(s) \/ \E c \in Code : Give(s, c)
  \/ \E s, f \in Session : Fork(s, f)

Spec == Init /\ [][Next]_otcVars
===============================================================================
