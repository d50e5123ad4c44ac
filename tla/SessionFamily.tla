--------------------------- MODULE SessionFamily -----------------------------
(***************************************************************************)
(* What the refresh tokens of an account promise, with no rows, locks or   *)
(* requests: a family has at most one token that can be exchanged, an      *)
(* exchange voids it and gives another one in one step, what ends a family *)
(* ends that family alone and for good, and nothing is exchanged past the  *)
(* time its login gave it.                                                 *)
(*                                                                         *)
(* Sessions implements it: FamilyImplementation.                           *)
(***************************************************************************)
EXTENDS Integers

CONSTANTS Names, Tokens, Lifetime

VARIABLES
  live,     \* by family: its token, or none once it has ended
  until,    \* by family: when it expires
  void,     \* tokens that were exchanged or revoked
  now

vars == <<live, until, void, now>>

Empty == [name \in {} |-> {}]

Init ==
  /\ live = Empty
  /\ until = Empty
  /\ void = {}
  /\ now = 0

Issued == void \cup UNION {live[f] : f \in DOMAIN live}

Extended(function, f, value) ==
  [g \in DOMAIN function \cup {f} |-> IF g = f THEN value ELSE function[g]]

Login(f, token) ==
  /\ f \notin DOMAIN live
  /\ token \notin Issued
  /\ live' = Extended(live, f, {token})
  /\ until' = Extended(until, f, now + Lifetime)
  /\ UNCHANGED <<void, now>>

Exchange(f, token) ==
  /\ live[f] # {}
  /\ now < until[f]
  /\ token \notin Issued
  /\ live' = [live EXCEPT ![f] = {token}]
  /\ void' = void \cup live[f]
  /\ UNCHANGED <<until, now>>

End(f) ==
  /\ live[f] # {}
  /\ live' = [live EXCEPT ![f] = {}]
  /\ void' = void \cup live[f]
  /\ UNCHANGED <<until, now>>

Wait ==
  /\ now' = now + 1
  /\ UNCHANGED <<live, until, void>>

Next ==
  \/ \E f \in Names, token \in Tokens : Login(f, token)
  \/ \E f \in DOMAIN live : End(f) \/ \E token \in Tokens : Exchange(f, token)
  \/ Wait

Spec == Init /\ [][Next]_vars

==============================================================================
