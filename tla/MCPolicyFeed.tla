----------------------------- MODULE MCPolicyFeed -----------------------------
(* PolicyFeed on a small instance: one consumer with two grants, another   *)
(* with one, and a request of the first.                                        *)
EXTENDS PolicyFeed

CONSTANTS c1, c2, g1, g2, g3, t1, t2, r1

MCOwner == [g \in {g1, g2, g3} |-> IF g = g3 THEN c2 ELSE c1]
MCToken == [r \in Requests |-> [sub |-> c1, jti |-> t1]]

GrantOf(g, status) ==
  [kind |-> "grant", consumer |-> MCOwner[g], id |-> g, service |-> ServiceName,
   status |-> status, scopes |-> {Scope}]
Revocation(j, g, c) == [kind |-> "revocation", jti |-> j, id |-> g, consumer |-> c]

MCCoreMessages ==
  {GrantOf(g1, "active"), GrantOf(g1, "expired"), GrantOf(g1, "suspended"),
   GrantOf(g2, "active"), [GrantOf(g2, "active") EXCEPT !.scopes = {"mqtt.register"}],
   [GrantOf(g2, "active") EXCEPT !.service = "scheduler"],
   GrantOf(g3, "active"),
   Revocation(t1, Nil, Nil), Revocation(Nil, g1, Nil), Revocation(Nil, Nil, c1),
   Revocation(t2, g3, c2)}
=============================================================================
