------------------------------ MODULE MCPublish ------------------------------
(* Publish on a small instance: two threads that serve the requests of one *)
(* addon, which names itself or another in them.                           *)
EXTENDS Publish, TLC

CONSTANTS a1, a2, g1, t1

MCOwner == [g \in {g1} |-> a1]
MCToken == [r \in Requests |-> [sub |-> a1, jti |-> t1]]

Good ==
  [alg |-> "HS256", signed |-> TRUE, exp |-> Now + 1, sub |-> a1, jti |-> t1,
   aud |-> Audience, scp |-> {Scope}]
Own(level) == Append(Namespace(a1), level)
Filled == [type |-> "state", source_addon_id |-> a1, timestamp |-> "now", data |-> Plain]

Call(op, addon, topic, type, payload) ==
  [op |-> op, token |-> Good, addon |-> addon, topic |-> topic, type |-> type, payload |-> payload]

MCCalls ==
  {\* the publish endpoint: well-formed, another addon's, no envelope, too late
   Call("publish", Nil, Own("state"), Blank, Filled),
   Call("publish", Nil, Append(Namespace(a2), "state"), Blank, Filled),
   Call("publish", Nil, Own("state"), Blank, Plain),
   [Call("publish", Nil, Own("state"), Blank, Filled) EXCEPT !.token.exp = Now],
   \* the gateway: a default topic that the scopes may lack, no type
   Call("gateway", a1, <<>>, "event", Plain),
   Call("gateway", a1, <<>>, Blank, Plain),
   \* Home Assistant: a sensor, one paho refuses, a state
   Call("sensor", a1, <<"homeassistant", "sensor", "s1", "config">>, Blank, Plain),
   Call("sensor", a1, <<"homeassistant", "sensor", "+", "config">>, Blank, Plain),
   Call("state", a1, Own("state"), Blank, Plain)}

\* Both checks on, both off, and the two settings that refuse everything.
MCSettings ==
  {[auth |-> "on", enforced |-> TRUE], [auth |-> "off", enforced |-> FALSE],
   [auth |-> "off", enforced |-> TRUE], [auth |-> "on, without a key", enforced |-> TRUE]}

File(entry) == [a \in Addons |-> IF a = a1 THEN entry ELSE Nil]
MCFirst == File([scopes |-> {Own("state")}, ha |-> TRUE])
MCRegistered ==
  {MCFirst, File([scopes |-> {Append(Namespace(a1), "+")}, ha |-> FALSE])}

GrantOf(status) ==
  [kind |-> "grant", consumer |-> a1, id |-> g1, service |-> ServiceName,
   status |-> status, scopes |-> {Scope}]
MCFirstGrants == {GrantOf("active")}
MCFeed ==
  {GrantOf("active"), GrantOf("suspended"), [kind |-> "revocation", jti |-> t1, id |-> Nil, consumer |-> Nil]}

ThreadSymmetry == Permutations(Requests)
=============================================================================
