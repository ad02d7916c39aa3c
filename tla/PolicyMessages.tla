---------------------------- MODULE PolicyMessages ----------------------------
(***************************************************************************)
(* The messages Core publishes on <base>/policy/grants/+ and               *)
(* <base>/policy/revocations/+, as app/services/policy_cache.py reads      *)
(* them.  A payload that is no JSON object, or a grant that names no       *)
(* consumer, is ignored by the cache and is no message here.               *)
(* A grant that names no service is for this one.                           *)
(***************************************************************************)
CONSTANTS
  Consumers,    \* addons that hold service tokens (the sub claim)
  GrantIds,
  Tokens,       \* jti claims
  Owner,        \* the consumer each grant id was issued to
  Nil           \* an absent field, or an absent grant

ASSUME OwnerAssumption == Owner \in [GrantIds -> Consumers]
ASSUME NilAssumption == Nil \notin Consumers \cup GrantIds \cup Tokens

Scope == "mqtt.publish"      \* the scope every gated operation asks for
ServiceName == "mqtt"        \* the addon id PolicyCache is built with

Statuses == {"active", "suspended", "revoked", "expired"}
ScopeSets == {{}, {Scope}, {"mqtt.register"}}

\* Core issues a grant id to one consumer; a grant may have no id.
GrantMessages ==
  {m \in [kind : {"grant"}, consumer : Consumers, id : GrantIds \cup {Nil},
          service : {ServiceName, "scheduler"}, status : Statuses, scopes : ScopeSets] :
     m.id # Nil => Owner[m.id] = m.consumer}

\* A revocation names a token, a grant, a consumer, or several of them.
RevocationMessages ==
  [kind : {"revocation"}, jti : Tokens \cup {Nil}, id : GrantIds \cup {Nil},
   consumer : Consumers \cup {Nil}]

Messages == GrantMessages \cup RevocationMessages

\* "if grant.scopes and required_scope not in grant.scopes": no list, no limit.
Covers(scopes) == scopes = {} \/ Scope \in scopes
=============================================================================
