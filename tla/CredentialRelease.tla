-------------------------- MODULE CredentialRelease --------------------------
(***************************************************************************)
(* What APW promises about a credential request, without sockets,          *)
(* processes or timeouts: a credential leaves the native app only after    *)
(* the user approved that request; the external provider is used only when *)
(* the caller asked for it with --external-fallback and the user was never *)
(* given a decision to make; and a request ends once.                      *)
(***************************************************************************)
CONSTANTS
  Requests,  \* credential requests
  OptIn      \* the ones made with --external-fallback

VARIABLES
  decision,  \* what the user answered for each request
  outcome    \* how each request ended

vars == <<decision, outcome>>

Init ==
  /\ decision = [r \in Requests |-> "none"]
  /\ outcome = [r \in Requests |-> "pending"]

\* The user answers; the caller may already have given up.
Decide(r) ==
  /\ decision[r] = "none"
  /\ outcome[r] \notin {"released", "external"}
  /\ \E d \in {"approved", "denied"} : decision' = [decision EXCEPT ![r] = d]
  /\ UNCHANGED outcome

Release(r) ==
  /\ outcome[r] = "pending"
  /\ decision[r] = "approved"
  /\ outcome' = [outcome EXCEPT ![r] = "released"]
  /\ UNCHANGED decision

Fallback(r) ==
  /\ outcome[r] = "pending"
  /\ r \in OptIn
  /\ decision[r] = "none"
  /\ outcome' = [outcome EXCEPT ![r] = "external"]
  /\ UNCHANGED decision

Refuse(r) ==
  /\ outcome[r] = "pending"
  /\ outcome' = [outcome EXCEPT ![r] = "refused"]
  /\ UNCHANGED decision

Next == \E r \in Requests : Decide(r) \/ Release(r) \/ Fallback(r) \/ Refuse(r)

Spec == Init /\ [][Next]_vars
=============================================================================
