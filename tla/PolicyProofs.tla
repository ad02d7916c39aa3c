----------------------------- MODULE PolicyProofs -----------------------------
(***************************************************************************)
(* Theorems about the policy cache, for any consumers, grants, tokens and  *)
(* requests, and for messages that arrive in any order, any number of      *)
(* times, or never.                                                        *)
(***************************************************************************)
EXTENDS PolicyCache, TLAPS

\* A stored grant belongs to the consumer Core issued its id to.
OwnedGrants ==
  \A c \in Consumers :
    grants[c] # Nil /\ grants[c].id # Nil => Owner[grants[c].id] = c

\* The inductive invariant.
CacheInv == PolicyTypeOK /\ NoTombstoneOverGrant /\ OwnedGrants

\* The fields of a grant that the cache accepts.
LEMMA GrantFields ==
  ASSUME NEW m \in GrantMessages
  PROVE  /\ m.consumer \in Consumers
         /\ m.id \in GrantIds \cup {Nil}
         /\ m.status \in Statuses
         /\ m.scopes \in ScopeSets
         /\ m.id # Nil => Owner[m.id] = m.consumer
         /\ m.status \notin Ended => Record(m) \in Records
BY DEF GrantMessages, Statuses, Ended, Record, Records

\* Initially, and after a restart, the cache is empty.
LEMMA EmptyCacheInv ==
  ASSUME grants = [c \in Consumers |-> Nil],
         revokedJti = {}, revokedGrantIds = {}, revokedConsumers = {},
         request = [r \in Requests |-> "idle"]
  PROVE  CacheInv
BY DEF CacheInv, PolicyTypeOK, NoTombstoneOverGrant, OwnedGrants

\* ingest of a grant keeps the invariant.
LEMMA GrantKeepsInv ==
  ASSUME CacheInv, NEW m \in GrantMessages, ApplyGrant(m), UNCHANGED request
  PROVE  CacheInv'
<1>1. CASE m.service # ServiceName
  BY <1>1 DEF ApplyGrant, CacheInv, PolicyTypeOK, NoTombstoneOverGrant, OwnedGrants
<1>2. CASE m.service = ServiceName /\ m.status \in Ended
  <2>1. /\ grants' = [c \in Consumers |-> IF c = m.consumer THEN Nil ELSE grants[c]]
        /\ revokedGrantIds' = revokedGrantIds \cup Present(m.id)
        /\ UNCHANGED <<revokedConsumers, revokedJti>>
    BY <1>2 DEF ApplyGrant, WithoutGrant
  <2>2. PolicyTypeOK'
    BY <2>1, GrantFields DEF CacheInv, PolicyTypeOK, Present
  <2>3. NoTombstoneOverGrant'
    <3> SUFFICES ASSUME NEW c \in Consumers, grants'[c] # Nil
                 PROVE  c \notin revokedConsumers' /\ grants'[c].id \notin revokedGrantIds'
      BY DEF NoTombstoneOverGrant
    <3>1. c # m.consumer /\ grants'[c] = grants[c]
      BY <2>1
    <3>2. grants[c].id # Nil => grants[c].id # m.id
      BY <3>1, GrantFields DEF CacheInv, OwnedGrants
    <3> QED
      BY <2>1, <3>1, <3>2 DEF CacheInv, NoTombstoneOverGrant, Present
  <2>4. OwnedGrants'
    BY <2>1 DEF CacheInv, OwnedGrants
  <2> QED
    BY <2>2, <2>3, <2>4 DEF CacheInv
<1>3. CASE m.service = ServiceName /\ m.status \notin Ended
  <2>1. /\ grants' = [grants EXCEPT ![m.consumer] = Record(m)]
        /\ revokedConsumers' = revokedConsumers \ {m.consumer}
        /\ revokedGrantIds' = revokedGrantIds \ Present(m.id)
        /\ UNCHANGED revokedJti
    BY <1>3 DEF ApplyGrant, Forgiven
  <2>2. PolicyTypeOK'
    BY <2>1, <1>3, GrantFields DEF CacheInv, PolicyTypeOK, Present
  <2>3. \A c \in Consumers :
          grants'[c] = IF c = m.consumer THEN Record(m) ELSE grants[c]
    BY <2>1 DEF CacheInv, PolicyTypeOK
  <2>4. NoTombstoneOverGrant'
    BY <2>1, <2>3, NilAssumption
    DEF CacheInv, NoTombstoneOverGrant, PolicyTypeOK, Record, Present
  <2>5. OwnedGrants'
    BY <2>3, GrantFields DEF CacheInv, OwnedGrants, Record
  <2> QED
    BY <2>2, <2>4, <2>5 DEF CacheInv
<1> QED
  BY <1>1, <1>2, <1>3

\* ingest of a revocation keeps the invariant.
LEMMA RevocationKeepsInv ==
  ASSUME CacheInv, NEW m \in RevocationMessages, ApplyRevocation(m), UNCHANGED request
  PROVE  CacheInv'
<1>1. /\ m.jti \in Tokens \cup {Nil} /\ m.id \in GrantIds \cup {Nil}
      /\ m.consumer \in Consumers \cup {Nil}
  BY DEF RevocationMessages
<1>2. /\ revokedJti' = revokedJti \cup Present(m.jti)
      /\ revokedGrantIds' = revokedGrantIds \cup Present(m.id)
      /\ revokedConsumers' = revokedConsumers \cup Present(m.consumer)
      /\ grants' = [c \in Consumers |->
           IF c \in Holders(m.id) \cup Present(m.consumer) THEN Nil ELSE grants[c]]
  BY DEF ApplyRevocation, WithoutGrant
<1>3. PolicyTypeOK'
  BY <1>1, <1>2 DEF CacheInv, PolicyTypeOK, Present
<1>4. NoTombstoneOverGrant'
  BY <1>1, <1>2 DEF CacheInv, NoTombstoneOverGrant, Present, Holders
<1>5. OwnedGrants'
  BY <1>2 DEF CacheInv, OwnedGrants
<1> QED
  BY <1>3, <1>4, <1>5 DEF CacheInv

\* Every step of the cache keeps the invariant.
LEMMA StepKeepsInv ==
  ASSUME CacheInv, [PolicyNext]_policyVars
  PROVE  CacheInv'
<1>1. CASE UNCHANGED policyVars
  BY <1>1 DEF policyVars, cacheVars, CacheInv, PolicyTypeOK, NoTombstoneOverGrant,
              OwnedGrants
<1>2. ASSUME NEW m \in Messages, Ingest(m)
      PROVE  CacheInv'
  BY <1>2, GrantKeepsInv, RevocationKeepsInv DEF Ingest, Messages
<1>3. ASSUME NEW r \in Requests, Authorize(r)
      PROVE  CacheInv'
  <2>1. UNCHANGED cacheVars
    BY <1>3 DEF Authorize, CheckToken, CheckGrant, Answer
  <2>2. request' \in [Requests -> {"idle", "checked", "allowed", "denied"}]
    BY <1>3 DEF Authorize, CheckToken, CheckGrant, Answer, CacheInv, PolicyTypeOK
  <2> QED
    BY <2>1, <2>2 DEF cacheVars, CacheInv, PolicyTypeOK, NoTombstoneOverGrant, OwnedGrants
<1>4. CASE Reboot
  BY <1>4 DEF Reboot, CacheInv, PolicyTypeOK, NoTombstoneOverGrant, OwnedGrants
<1> QED
  BY <1>1, <1>2, <1>3, <1>4 DEF PolicyNext

\* The cache keeps its types, keeps tombstones and grants apart and holds every
\* grant under its owner, whatever messages arrive and in whatever order.
THEOREM CacheInvariant == PolicySpec => []CacheInv
<1>1. PolicyInit => CacheInv
  BY EmptyCacheInv DEF PolicyInit, EmptyCache
<1>2. CacheInv /\ [PolicyNext]_policyVars => CacheInv'
  BY StepKeepsInv
<1> QED
  BY <1>1, <1>2, PTL DEF PolicySpec

\* Every variable of the cache has its type; an expired or revoked grant is
\* never stored (_apply_grant).
THEOREM CacheTypes == PolicySpec => []PolicyTypeOK
<1>1. CacheInv => PolicyTypeOK
  BY DEF CacheInv
<1> QED
  BY <1>1, CacheInvariant, PTL

\* No stored grant lies under a tombstone of its id or of its consumer, in any
\* order of grants and revocations (_apply_grant, _apply_revocation).
THEOREM TombstonesApart == PolicySpec => []NoTombstoneOverGrant
<1>1. CacheInv => NoTombstoneOverGrant
  BY DEF CacheInv
<1> QED
  BY <1>1, CacheInvariant, PTL

-----------------------------------------------------------------------------
(* The cache implements the ledger.                                        *)

\* What Standing says of one consumer, before and after a step.
LEMMA StandingOf ==
  ASSUME NEW c \in Consumers
  PROVE  /\ GrantGood(c) => /\ Standing[c] = Ledger!Entitled(grants[c].id)
                            /\ Standing[c].id = grants[c].id
         /\ ~GrantGood(c) => Standing[c] = Ledger!NotEntitled /\ Standing[c].id = Nil
         /\ GrantGood(c)' => Standing'[c] = Ledger!Entitled(grants'[c].id)
         /\ ~GrantGood(c)' => Standing'[c] = Ledger!NotEntitled
BY DEF Standing, GrantGood, Ledger!Entitled, Ledger!NotEntitled

\* Steps that leave the cache alone leave the standing of everyone alone.
LEMMA SameCacheSameLedger ==
  ASSUME UNCHANGED cacheVars
  PROVE  UNCHANGED Ledger!ledgerVars
BY DEF cacheVars, Ledger!ledgerVars, Standing, GrantGood

\* A grant message is a Grant step of the ledger, or a stutter if it is about
\* another service.
LEMMA GrantRefines ==
  ASSUME CacheInv, CacheInv', NEW m \in GrantMessages, ApplyGrant(m)
  PROVE  IF m.service = ServiceName THEN Ledger!Grant(m) ELSE UNCHANGED Ledger!ledgerVars
<1> USE DEF Present
<1>0. CASE m.service # ServiceName
  BY <1>0, SameCacheSameLedger DEF ApplyGrant, cacheVars
<1>1. ASSUME m.service = ServiceName, NEW c \in Consumers, c # m.consumer
      PROVE  GrantGood(c)' = GrantGood(c) /\ grants'[c] = grants[c]
  <2>1. grants'[c] = grants[c]
    BY <1>1 DEF ApplyGrant, WithoutGrant, CacheInv, PolicyTypeOK
  <2>2. c \in revokedConsumers' <=> c \in revokedConsumers
    BY <1>1 DEF ApplyGrant, Forgiven
  <2>3. ASSUME grants[c] # Nil, grants[c].id # Nil
        PROVE  grants[c].id \in revokedGrantIds' <=> grants[c].id \in revokedGrantIds
    <3>1. grants[c].id # m.id
      BY <1>1, <2>3, GrantFields DEF CacheInv, OwnedGrants
    <3> QED
      BY <1>1, <3>1 DEF ApplyGrant
  <2> QED
    BY <2>1, <2>2, <2>3 DEF GrantGood
<1>2. ASSUME m.service = ServiceName
      PROVE  /\ GrantGood(m.consumer)' <=> (m.status = "active" /\ Covers(m.scopes))
             /\ GrantGood(m.consumer)' => grants'[m.consumer].id = m.id
  <2>1. m.consumer \in Consumers
    BY GrantFields
  <2>2. CASE m.status \in Ended
    BY <1>2, <2>1, <2>2 DEF ApplyGrant, WithoutGrant, GrantGood, Ended
  <2>3. CASE m.status \notin Ended
    <3>1. grants'[m.consumer] = Record(m) /\ Record(m) # Nil
      BY <1>2, <2>1, <2>3, GrantFields, RecordAssumption
      DEF ApplyGrant, CacheInv, PolicyTypeOK
    <3>2. m.consumer \notin revokedConsumers'
      BY <1>2, <2>3 DEF ApplyGrant, Forgiven
    <3>3. m.id = Nil \/ m.id \notin revokedGrantIds'
      BY <1>2, <2>3 DEF ApplyGrant
    <3> QED
      BY <3>1, <3>2, <3>3 DEF GrantGood, Record
  <2> QED
    BY <2>2, <2>3
<1>3. ASSUME m.service = ServiceName
      PROVE  Ledger!Grant(m)
  <2>1. m.consumer \in Consumers
    BY GrantFields
  <2>2. Ledger!Covers(m.scopes) = Covers(m.scopes)
    BY DEF Covers, Ledger!Covers, Scope, Ledger!Scope
  <2> DEFINE after == IF m.status = "active" /\ Covers(m.scopes)
                      THEN Ledger!Entitled(m.id) ELSE Ledger!NotEntitled
  <2>3. Standing' = [c \in Consumers |->
          [ok |-> GrantGood(c)', id |-> IF GrantGood(c)' THEN grants'[c].id ELSE Nil]]
    BY DEF Standing
  <2>4. ASSUME NEW c \in Consumers
        PROVE  Standing'[c] = IF c = m.consumer THEN after ELSE Standing[c]
    <3>1. CASE c = m.consumer
      BY <1>2, <1>3, <3>1, StandingOf
    <3>2. CASE c # m.consumer
      BY <1>1, <1>3, <3>2, StandingOf
    <3> QED
      BY <3>1, <3>2
  <2>5. Standing' = [Standing EXCEPT ![m.consumer] = after]
    <3> HIDE DEF after
    <3>1. DOMAIN Standing = Consumers
      BY DEF Standing
    <3>2. Standing' = [c \in Consumers |-> Standing'[c]]
      BY <2>3
    <3> QED
      BY <2>4, <3>1, <3>2
  <2>6. UNCHANGED revokedJti
    BY DEF ApplyGrant
  <2> QED
    BY <1>3, <2>2, <2>5, <2>6 DEF Ledger!Grant, ServiceName, Ledger!ServiceName
<1> QED
  BY <1>0, <1>3

\* A revocation message is a Revoke step of the ledger.
LEMMA RevocationRefines ==
  ASSUME CacheInv, NEW m \in RevocationMessages, ApplyRevocation(m)
  PROVE  Ledger!Revoke(m)
<1>1. \A c \in Consumers :
        grants'[c] = IF c \in Holders(m.id) \cup Present(m.consumer) THEN Nil ELSE grants[c]
  BY DEF ApplyRevocation, WithoutGrant
<1>2. ASSUME NEW c \in Consumers, c = m.consumer \/ (m.id # Nil /\ Standing[c].id = m.id)
      PROVE  ~GrantGood(c)'
  <2>1. c # Nil
    BY NilAssumption
  <2>2. c \in Holders(m.id) \cup Present(m.consumer)
    BY <1>2, <2>1, StandingOf DEF Holders, Present, GrantGood
  <2> QED
    BY <1>1, <2>2 DEF GrantGood
<1>3. ASSUME NEW c \in Consumers, ~(c = m.consumer \/ (m.id # Nil /\ Standing[c].id = m.id))
      PROVE  GrantGood(c)' = GrantGood(c) /\ (GrantGood(c) => grants'[c] = grants[c])
  <2>1. c \in revokedConsumers' <=> c \in revokedConsumers
    BY <1>3 DEF ApplyRevocation, Present
  <2>2. CASE c \in Holders(m.id)
    <3>1. ~GrantGood(c)
      BY <1>3, <2>2, StandingOf DEF Holders
    <3> QED
      BY <1>1, <2>2, <3>1 DEF GrantGood
  <2>3. CASE c \notin Holders(m.id)
    <3>1. grants'[c] = grants[c]
      BY <1>1, <1>3, <2>3 DEF Present
    <3>2. grants[c] # Nil => (grants[c].id = Nil \/ grants[c].id \notin revokedGrantIds'
                               <=> grants[c].id = Nil \/ grants[c].id \notin revokedGrantIds)
      BY <2>3 DEF ApplyRevocation, Holders, Present
    <3> QED
      BY <2>1, <3>1, <3>2 DEF GrantGood
  <2> QED
    BY <2>2, <2>3
<1>4. Standing' = [c \in Consumers |->
        [ok |-> GrantGood(c)', id |-> IF GrantGood(c)' THEN grants'[c].id ELSE Nil]]
  BY DEF Standing
<1>5. ASSUME NEW c \in Consumers
      PROVE  Standing'[c] = IF c = m.consumer \/ (m.id # Nil /\ Standing[c].id = m.id)
                            THEN Ledger!NotEntitled ELSE Standing[c]
  BY <1>2, <1>3, StandingOf
<1>6. Standing' = [c \in Consumers |->
        IF c = m.consumer \/ (m.id # Nil /\ Standing[c].id = m.id)
        THEN Ledger!NotEntitled ELSE Standing[c]]
  BY <1>4, <1>5
<1> QED
  BY <1>6 DEF Ledger!Revoke, ApplyRevocation, Present

\* A cache without grants gives nobody standing.
LEMMA NobodyStands ==
  ASSUME grants = [c \in Consumers |-> Nil]
  PROVE  Standing = [c \in Consumers |-> Ledger!NotEntitled]
BY DEF Standing, GrantGood, Ledger!NotEntitled

\* A restart is a Forget step of the ledger.
LEMMA RebootRefines ==
  ASSUME Reboot
  PROVE  Ledger!Forget
<1>1. Standing' = [c \in Consumers |-> Ledger!NotEntitled]
  BY DEF Reboot, Standing, GrantGood, Ledger!NotEntitled
<1> QED
  BY <1>1 DEF Reboot, Ledger!Forget

\* The cache with its tombstones implements the ledger without them: whatever
\* the order of messages, a consumer is entitled exactly if the last message
\* about it since the last restart left it so (ingest, authorize).
THEOREM CacheImplementsLedger == PolicySpec => LedgerSpec
<1>1. PolicyInit => Ledger!Init
  BY NobodyStands DEF PolicyInit, EmptyCache, Ledger!Init
<1>2. CacheInv /\ CacheInv' /\ [PolicyNext]_policyVars => [Ledger!Next]_(Ledger!ledgerVars)
  <2> SUFFICES ASSUME CacheInv, CacheInv', [PolicyNext]_policyVars
               PROVE  [Ledger!Next]_(Ledger!ledgerVars)
    OBVIOUS
  <2>1. CASE UNCHANGED policyVars
    BY <2>1, SameCacheSameLedger DEF policyVars
  <2>2. ASSUME NEW m \in Messages, Ingest(m)
        PROVE  [Ledger!Next]_(Ledger!ledgerVars)
    <3>1. CASE m \in GrantMessages /\ ApplyGrant(m)
      <4>1. m \in Ledger!GrantMessages
        BY <3>1 DEF GrantMessages, Ledger!GrantMessages, ServiceName, Ledger!ServiceName,
                    Statuses, Ledger!Statuses, ScopeSets, Ledger!ScopeSets,
                    Scope, Ledger!Scope
      <4> QED
        BY <3>1, <4>1, GrantRefines DEF Ledger!Next
    <3>2. CASE m \in RevocationMessages /\ ApplyRevocation(m)
      <4>1. m \in Ledger!RevocationMessages
        BY <3>2 DEF RevocationMessages, Ledger!RevocationMessages
      <4> QED
        BY <3>2, <4>1, RevocationRefines DEF Ledger!Next
    <3> QED
      BY <2>2, <3>1, <3>2 DEF Ingest
  <2>3. ASSUME NEW r \in Requests, Authorize(r)
        PROVE  UNCHANGED Ledger!ledgerVars
    BY <2>3, SameCacheSameLedger DEF Authorize, CheckToken, CheckGrant, Answer
  <2>4. CASE Reboot
    BY <2>4, RebootRefines DEF Ledger!Next
  <2> QED
    BY <2>1, <2>2, <2>3, <2>4 DEF PolicyNext
<1> QED
  BY <1>1, <1>2, CacheInvariant, PTL DEF PolicySpec, LedgerSpec, Ledger!Spec

\* Each message does to the standings exactly what the ledger says it does, in
\* every state the cache can be in (_apply_grant, _apply_revocation).
THEOREM CacheFollowsLedger == PolicySpec => DecidesLikeLedger
<1> DEFINE Follows ==
      /\ \A m \in GrantMessages : ApplyGrant(m) =>
           IF m.service = ServiceName THEN Ledger!Grant(m) ELSE UNCHANGED Ledger!ledgerVars
      /\ \A m \in RevocationMessages : ApplyRevocation(m) => Ledger!Revoke(m)
<1>1. CacheInv /\ CacheInv' => Follows
  BY GrantRefines, RevocationRefines
<1>2. CacheInv /\ CacheInv' => [Follows]_policyVars
  BY <1>1
<1> QED
  BY <1>2, CacheInvariant, PTL DEF DecidesLikeLedger
=============================================================================
