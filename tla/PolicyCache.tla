----------------------------- MODULE PolicyCache -----------------------------
(***************************************************************************)
(* app/services/policy_cache.py with SYNTHIA_POLICY_ENFORCEMENT on: the    *)
(* cache of grants and revocations that MQTT messages fill on the client's *)
(* network thread and that publish requests read on theirs.                *)
(*                                                                         *)
(* Messages arrive here in any order and any number of times; PolicyFeed   *)
(* adds the broker that decides which ones do.                             *)
(***************************************************************************)
EXTENDS PolicyMessages

CONSTANTS
  Requests,     \* publish requests that can be under way at once
  Token         \* the claims each request presents: [sub, jti]

ASSUME TokenAssumption == Token \in [Requests -> [sub : Consumers, jti : Tokens]]

\* The grants the cache stores, and none of them is Nil.
Records ==
  [id : GrantIds \cup {Nil}, status : {"active", "suspended"}, scopes : ScopeSets]
ASSUME RecordAssumption == Nil \notin Records

VARIABLES
  grants,            \* _grants_by_consumer; Nil where there is none
  revokedJti,        \* _revoked_jti
  revokedGrantIds,   \* _revoked_grant_ids
  revokedConsumers,  \* _revoked_consumers
  request            \* where each request is in authorize()

cacheVars == <<grants, revokedJti, revokedGrantIds, revokedConsumers>>
policyVars == <<cacheVars, request>>

EmptyCache ==
  /\ grants = [c \in Consumers |-> Nil]
  /\ revokedJti = {} /\ revokedGrantIds = {} /\ revokedConsumers = {}

PolicyInit == EmptyCache /\ request = [r \in Requests |-> "idle"]

-----------------------------------------------------------------------------
(* ingest, on the network thread.                                          *)

\* Mutant: an expired grant is stored like the others.
OnlyRevoked == {"revoked"}
Ended == {"revoked", "expired"}
Present(x) == {x} \ {Nil}
WithoutGrant(C) == [c \in Consumers |-> IF c \in C THEN Nil ELSE grants[c]]

\* Mutant: the scopes of the grant are not found in the message.
Unscoped(m) == [id |-> m.id, status |-> m.status, scopes |-> {}]
Record(m) == [id |-> m.id, status |-> m.status, scopes |-> m.scopes]

\* Mutant: a grant leaves the revocation of its consumer in place.
ForgivenNone(m) == {}

\* The consumer a grant takes off the revocation list.
Forgiven(m) == {m.consumer}

\* A grant of another service changes nothing.
ApplyGrant(m) ==
  /\ \/ /\ m.service # ServiceName
        /\ UNCHANGED <<grants, revokedConsumers, revokedGrantIds>>
     \/ /\ m.service = ServiceName /\ m.status \in Ended
        /\ grants' = WithoutGrant({m.consumer})
        /\ revokedGrantIds' = revokedGrantIds \cup Present(m.id)
        /\ UNCHANGED revokedConsumers
     \/ /\ m.service = ServiceName /\ m.status \notin Ended
        /\ grants' = [grants EXCEPT ![m.consumer] = Record(m)]
        /\ revokedConsumers' = revokedConsumers \ Forgiven(m)
        /\ revokedGrantIds' = revokedGrantIds \ Present(m.id)
  /\ UNCHANGED revokedJti

Holders(id) == {c \in Consumers : grants[c] # Nil /\ id # Nil /\ grants[c].id = id}

\* Mutant: a revoked token takes the place of the earlier ones.
LastTokenOnly(m) ==
  /\ revokedJti' = Present(m.jti)
  /\ revokedGrantIds' = revokedGrantIds \cup Present(m.id)
  /\ revokedConsumers' = revokedConsumers \cup Present(m.consumer)
  /\ grants' = WithoutGrant(Holders(m.id) \cup Present(m.consumer))

ApplyRevocation(m) ==
  /\ revokedJti' = revokedJti \cup Present(m.jti)
  /\ revokedGrantIds' = revokedGrantIds \cup Present(m.id)
  /\ revokedConsumers' = revokedConsumers \cup Present(m.consumer)
  /\ grants' = WithoutGrant(Holders(m.id) \cup Present(m.consumer))

Ingest(m) ==
  /\ \/ m \in GrantMessages /\ ApplyGrant(m)
     \/ m \in RevocationMessages /\ ApplyRevocation(m)
  /\ UNCHANGED request

-----------------------------------------------------------------------------
(* authorize, on the thread of a request: the token against _revoked_jti   *)
(* without the lock, then the grant under it.                              *)

\* Mutant: the token is not looked up.
TokenUnchecked(r) == TRUE
TokenGood(r) == Token[r].jti \notin revokedJti

CheckToken(r) ==
  /\ request[r] = "idle"
  /\ request' = [request EXCEPT ![r] = IF TokenGood(r) THEN "checked" ELSE "denied"]
  /\ UNCHANGED cacheVars

\* Does the locked section of authorize pass for consumer c?
GrantGood(c) ==
  /\ c \notin revokedConsumers
  /\ grants[c] # Nil
  /\ grants[c].status = "active"
  /\ grants[c].id = Nil \/ grants[c].id \notin revokedGrantIds
  /\ Covers(grants[c].scopes)

CheckGrant(r) ==
  /\ request[r] = "checked"
  /\ request' = [request EXCEPT
       ![r] = IF GrantGood(Token[r].sub) THEN "allowed" ELSE "denied"]
  /\ UNCHANGED cacheVars

\* The request has published, or answered 403.
Answer(r) ==
  /\ request[r] \in {"allowed", "denied"}
  /\ request' = [request EXCEPT ![r] = "idle"]
  /\ UNCHANGED cacheVars

Authorize(r) == CheckToken(r) \/ CheckGrant(r) \/ Answer(r)

\* The process is restarted: a new cache, the requests are gone.
Reboot ==
  /\ grants' = [c \in Consumers |-> Nil]
  /\ revokedJti' = {} /\ revokedGrantIds' = {} /\ revokedConsumers' = {}
  /\ request' = [r \in Requests |-> "idle"]

PolicyNext ==
  \/ \E m \in Messages : Ingest(m)
  \/ \E r \in Requests : Authorize(r)
  \/ Reboot

PolicySpec == PolicyInit /\ [][PolicyNext]_policyVars

-----------------------------------------------------------------------------
(* Properties.                                                             *)

\* Every variable has its type; an ended grant is never stored.
PolicyTypeOK ==
  /\ grants \in [Consumers -> Records \cup {Nil}]
  /\ revokedJti \subseteq Tokens
  /\ revokedGrantIds \subseteq GrantIds
  /\ revokedConsumers \subseteq Consumers
  /\ request \in [Requests -> {"idle", "checked", "allowed", "denied"}]

\* A stored grant is never under a tombstone, of its id or of its consumer: no
\* order of grants and revocations leaves the two in contradiction, so that a
\* consumer Core grants again is never refused for an old revocation.
NoTombstoneOverGrant ==
  \A c \in Consumers : grants[c] # Nil =>
    c \notin revokedConsumers /\ grants[c].id \notin revokedGrantIds

\* The cache with its tombstones decides like the ledger that has none.
Standing ==
  [c \in Consumers |-> [ok |-> GrantGood(c),
                        id |-> IF GrantGood(c) THEN grants[c].id ELSE Nil]]
Ledger == INSTANCE GrantLedger WITH standing <- Standing, burned <- revokedJti
LedgerSpec == Ledger!Spec

\* Each message moves the standing of every consumer exactly as the ledger says
\* that very message does, whatever tombstones earlier messages have left; a
\* grant of another service moves nothing.
DecidesLikeLedger ==
  [][/\ \A m \in GrantMessages : ApplyGrant(m) =>
          IF m.service = ServiceName THEN Ledger!Grant(m) ELSE UNCHANGED Ledger!ledgerVars
     /\ \A m \in RevocationMessages : ApplyRevocation(m) => Ledger!Revoke(m)]_policyVars
=============================================================================
