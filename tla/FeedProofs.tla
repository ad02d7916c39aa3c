------------------------------- MODULE FeedProofs -------------------------------
(***************************************************************************)
(* What the policy cache holds behind its subscription, for any messages   *)
(* Core may publish, any consumers, grants, tokens and requests, and any   *)
(* number of lost connections and restarts.                                *)
(***************************************************************************)
EXTENDS PolicyFeed, PolicyProofs, FiniteSetTheorems, SequenceTheorems

-----------------------------------------------------------------------------
(* The inductive invariant.                                                *)

IsRevocationOf(m, c) == m.kind = "revocation" /\ m.consumer = c
IsGrantOf(m, c) == m.kind = "grant" /\ m.consumer = c

BrokerTypes ==
  /\ retained \subseteq Messages /\ IsFiniteSet(retained)
  /\ inflight \in Seq(Messages)
  /\ word = [c \in Consumers |-> word[c]]

\* A revocation that is Core's last word is retained: later connections get it.
WordRetained ==
  \A c \in Consumers : word[c] = "revoked" => \E m \in retained : IsRevocationOf(m, c)

\* On a subscribed connection it is behind every grant of its consumer that is
\* still to come, and on its way unless the cache refuses the consumer already.
PendingAfter(c, i) == \E j \in 1..Len(inflight) : j > i /\ IsRevocationOf(inflight[j], c)
GrantsOvertaken(c) ==
  \A i \in 1..Len(inflight) : IsGrantOf(inflight[i], c) => PendingAfter(c, i)
OnItsWay(c) == GrantGood(c) => PendingAfter(c, 0)
WordFollows ==
  link = "live" =>
    \A c \in Consumers : word[c] = "revoked" => GrantsOvertaken(c) /\ OnItsWay(c)

\* A request that came in with a revoked token is refused from then on.
BarredDenied == barred \subseteq Requests /\ \A r \in barred : request[r] = "denied"

FeedInv == CacheInv /\ BrokerTypes /\ WordRetained /\ WordFollows /\ BarredDenied

-----------------------------------------------------------------------------
(* The cache behind the feed.                                              *)

\* Every step of the feed is a step of the cache, or leaves it alone.
LEMMA FeedStepsCache ==
  ASSUME inflight \in Seq(Messages), [Next]_vars
  PROVE  [PolicyNext]_policyVars
<1>1. CASE UNCHANGED vars
  BY <1>1 DEF vars
<1>2. CASE Next
  <2>1. ASSUME NEW m \in CoreMessages, Publish(m)
        PROVE  UNCHANGED policyVars
    BY <2>1 DEF Publish
  <2>2. ASSUME NEW m \in retained, Clear(m)
        PROVE  UNCHANGED policyVars
    BY <2>2 DEF Clear
  <2>3. CASE Connect \/ SubscribeFirst \/ SubscribeSecond \/ Disconnect
    BY <2>3 DEF Connect, SubscribeFirst, SubscribeSecond, Subscribe, Disconnect
  <2>4. CASE Deliver
    <3>1. Head(inflight) \in Messages
      BY <2>4 DEF Deliver
    <3> QED
      BY <2>4, <3>1 DEF Deliver, PolicyNext
  <2>5. CASE Restart
    BY <2>5 DEF Restart, PolicyNext
  <2>6. ASSUME NEW r \in Requests, Serve(r)
        PROVE  PolicyNext
    BY <2>6 DEF Serve, PolicyNext
  <2> QED
    BY <1>2, <2>1, <2>2, <2>3, <2>4, <2>5, <2>6 DEF Next
<1> QED
  BY <1>1, <1>2

\* A message decides about nobody but its consumer, short of a revocation that
\* refuses the holder of a grant.
LEMMA IngestGrants ==
  ASSUME CacheInv, NEW m \in Messages, Ingest(m), NEW c \in Consumers,
         GrantGood(c)', ~IsGrantOf(m, c)
  PROVE  GrantGood(c) /\ ~IsRevocationOf(m, c)
<1>1. CacheInv'
  BY GrantKeepsInv, RevocationKeepsInv DEF Ingest
<1>2. Standing[c].ok = GrantGood(c) /\ Standing'[c].ok = GrantGood(c)'
  BY DEF Standing
<1>3. CASE m \in GrantMessages /\ ApplyGrant(m)
  <2>1. m.kind = "grant" /\ m.consumer # c
    BY <1>3 DEF GrantMessages, IsGrantOf
  <2>2. Standing'[c] = Standing[c]
    <3>1. DOMAIN Standing = Consumers
      BY DEF Standing
    <3>2. CASE m.service # ServiceName
      BY <1>1, <1>3, <3>2, GrantRefines DEF Ledger!ledgerVars
    <3>3. CASE m.service = ServiceName
      BY <1>1, <1>3, <2>1, <3>1, <3>3, GrantRefines
      DEF Ledger!Grant, ServiceName, Ledger!ServiceName
    <3> QED
      BY <3>2, <3>3
  <2> QED
    BY <1>2, <2>1, <2>2 DEF IsRevocationOf
<1>4. CASE m \in RevocationMessages /\ ApplyRevocation(m)
  <2>1. Standing'[c] = IF c = m.consumer \/ (m.id # Nil /\ Standing[c].id = m.id)
                       THEN Ledger!NotEntitled ELSE Standing[c]
    BY <1>4, RevocationRefines DEF Ledger!Revoke
  <2>2. Ledger!NotEntitled.ok = FALSE
    BY DEF Ledger!NotEntitled
  <2> QED
    BY <1>2, <2>1, <2>2 DEF IsRevocationOf
<1> QED
  BY <1>3, <1>4 DEF Ingest

-----------------------------------------------------------------------------
(* One lemma for each kind of step.                                        *)

\* Steps that leave the cache and the requests alone.
LEMMA CacheStands ==
  ASSUME CacheInv, BarredDenied, UNCHANGED <<policyVars, barred>>
  PROVE  CacheInv' /\ BarredDenied' /\ \A c \in Consumers : GrantGood(c)' = GrantGood(c)
<1>1. CacheInv'
  BY StepKeepsInv
<1> QED
  BY <1>1 DEF policyVars, cacheVars, BarredDenied, GrantGood

\* Tuples are equal part by part.
LEMMA SameFour ==
  ASSUME NEW a, NEW b, NEW c, NEW d, NEW e, NEW f, NEW g, NEW h,
         <<a, b, c, d>> = <<e, f, g, h>>
  PROVE  a = e /\ d = h
OBVIOUS

\* Two messages on the topic of a revocation are the same revocation.
LEMMA OneRevocationPerTopic ==
  ASSUME NEW m \in Messages, NEW x \in Messages, x.kind = "revocation",
         Topic(x) = Topic(m)
  PROVE  x.kind = m.kind /\ x.consumer = m.consumer
<1>1. Topic(x) = <<x.kind, x.jti, x.id, x.consumer>>
  BY DEF Topic
<1>2. CASE m.kind = "grant"
  BY <1>1, <1>2 DEF Topic
<1>3. CASE m.kind # "grant"
  <2>1. Topic(m) = <<m.kind, m.jti, m.id, m.consumer>>
    BY <1>3 DEF Topic
  <2>2. <<x.kind, x.jti, x.id, x.consumer>> = <<m.kind, m.jti, m.id, m.consumer>>
    BY <1>1, <2>1
  <2> QED
    BY <2>2, SameFour
<1> QED
  BY <1>2, <1>3

\* Core publishes: the last word of a consumer changes with its message only,
\* and a message forwarded is behind all that are on their way.
LEMMA PublishKeepsInv ==
  ASSUME FeedInv, NEW m \in CoreMessages, Publish(m)
  PROVE  FeedInv'
<1>1. m \in Messages /\ (m.kind = "grant" \/ m.kind = "revocation")
  BY CoreAssumption DEF Messages, GrantMessages, RevocationMessages
<1>2. CacheInv' /\ BarredDenied' /\ \A c \in Consumers : GrantGood(c)' = GrantGood(c)
  BY CacheStands DEF FeedInv, Publish
<1>3. BrokerTypes'
  <2>1. IsFiniteSet({x \in retained : Topic(x) # Topic(m)})
    BY FS_Subset DEF FeedInv, BrokerTypes
  <2>2. IsFiniteSet(retained')
    BY <2>1, FS_AddElement DEF Publish
  <2> QED
    BY <1>1, <2>2 DEF FeedInv, BrokerTypes, Publish
<1>4. ASSUME NEW c \in Consumers, word'[c] = "revoked"
      PROVE  IsRevocationOf(m, c) \/ (m.consumer # c /\ word[c] = "revoked")
  BY <1>1, <1>4 DEF Publish, WordOf, IsRevocationOf
<1>5. WordRetained'
  <2> SUFFICES ASSUME NEW c \in Consumers, word'[c] = "revoked"
               PROVE  \E x \in retained' : IsRevocationOf(x, c)
    BY DEF WordRetained, IsRevocationOf
  <2>1. CASE IsRevocationOf(m, c)
    BY <2>1 DEF Publish
  <2>2. CASE m.consumer # c /\ word[c] = "revoked"
    <3>1. PICK x \in retained : IsRevocationOf(x, c)
      BY <2>2 DEF FeedInv, WordRetained
    <3>2. Topic(x) # Topic(m)
      BY <1>1, <2>2, <3>1, OneRevocationPerTopic DEF FeedInv, BrokerTypes, IsRevocationOf
    <3> QED
      BY <3>1, <3>2 DEF Publish
  <2> QED
    BY <1>4, <2>1, <2>2
<1>6. WordFollows'
  <2> SUFFICES ASSUME link' = "live", NEW c \in Consumers, word'[c] = "revoked"
               PROVE  GrantsOvertaken(c)' /\ OnItsWay(c)'
    BY DEF WordFollows
  <2>1. inflight \in Seq(Messages) /\ inflight' = Append(inflight, m) /\ link = "live"
    BY DEF FeedInv, BrokerTypes, Publish, Subscribed
  <2>2. /\ Len(inflight') = Len(inflight) + 1
        /\ \A i \in 1..Len(inflight) : inflight'[i] = inflight[i]
        /\ inflight'[Len(inflight) + 1] = m
    BY <1>1, <2>1
  <2>3. CASE IsRevocationOf(m, c)
    <3>1. ~IsGrantOf(m, c)
      BY <2>3 DEF IsRevocationOf, IsGrantOf
    <3>2. \A i \in 0..Len(inflight) : PendingAfter(c, i)'
      BY <2>1, <2>2, <2>3 DEF PendingAfter
    <3>3. ASSUME NEW i \in 1..Len(inflight'), IsGrantOf(inflight'[i], c)
          PROVE  i \in 0..Len(inflight)
      BY <2>1, <2>2, <3>1, <3>3
    <3> QED
      BY <2>1, <3>2, <3>3 DEF GrantsOvertaken, OnItsWay, PendingAfter, IsRevocationOf, IsGrantOf
  <2>4. CASE m.consumer # c /\ word[c] = "revoked"
    <3>1. GrantsOvertaken(c) /\ OnItsWay(c)
      BY <2>1, <2>4 DEF FeedInv, WordFollows
    <3>2. \A i \in 0..Len(inflight) : PendingAfter(c, i) => PendingAfter(c, i)'
      BY <2>1, <2>2 DEF PendingAfter, IsRevocationOf
    <3>3. ASSUME NEW i \in 1..Len(inflight'), IsGrantOf(inflight'[i], c)
          PROVE  i \in 1..Len(inflight) /\ IsGrantOf(inflight[i], c)
      BY <2>1, <2>2, <2>4, <3>3 DEF IsGrantOf
    <3>4. GrantsOvertaken(c)'
      BY <2>1, <3>1, <3>2, <3>3 DEF GrantsOvertaken, PendingAfter, IsRevocationOf, IsGrantOf
    <3>5. OnItsWay(c)'
      BY <1>2, <2>1, <3>1, <3>2 DEF OnItsWay, PendingAfter
    <3> QED
      BY <3>4, <3>5
  <2> QED
    BY <1>4, <2>3, <2>4
<1> QED
  BY <1>2, <1>3, <1>5, <1>6 DEF FeedInv

\* Core clears a message: of a consumer whose last word it was, nothing is said.
LEMMA ClearKeepsInv ==
  ASSUME FeedInv, NEW m \in retained, Clear(m)
  PROVE  FeedInv'
<1>1. CacheInv' /\ BarredDenied' /\ \A c \in Consumers : GrantGood(c)' = GrantGood(c)
  BY CacheStands DEF FeedInv, Clear
<1>2. BrokerTypes'
  BY FS_RemoveElement DEF FeedInv, BrokerTypes, Clear
<1>3. ASSUME NEW c \in Consumers, word'[c] = "revoked"
      PROVE  word[c] = "revoked" /\ ~IsRevocationOf(m, c)
  BY <1>3 DEF Clear, WordOf, IsRevocationOf
<1>4. WordRetained'
  BY <1>3 DEF FeedInv, WordRetained, Clear, IsRevocationOf
<1>5. WordFollows'
  BY <1>1, <1>3 DEF FeedInv, WordFollows, Clear, GrantsOvertaken, OnItsWay, PendingAfter,
                    IsRevocationOf, IsGrantOf
<1> QED
  BY <1>1, <1>2, <1>4, <1>5 DEF FeedInv

\* A sequence of a finite set has all its members.
LEMMA SequencedAll ==
  ASSUME NEW S, IsFiniteSet(S), NEW s \in SetToSeqs(S)
  PROVE  /\ s \in Seq(S) /\ Len(s) = Cardinality(S)
         /\ \A x \in S : \E i \in 1..Len(s) : s[i] = x
<1> DEFINE n == Cardinality(S)
<1>1. n \in Nat
  BY FS_CardinalityType
<1>2. s \in [1..n -> S] /\ \A i, j \in 1..n : i # j => s[i] # s[j]
  BY DEF SetToSeqs
<1>3. s \in Injection(1..n, S)
  BY <1>2 DEF Injection, IsInjective
<1>4. IsFiniteSet(1..n) /\ Cardinality(1..n) = n
  BY <1>1, FS_Interval
<1>5. s \in Surjection(1..n, S)
  BY <1>3, <1>4, FS_Injection
<1>6. \A x \in S : \E i \in 1..n : s[i] = x
  BY <1>5 DEF Surjection
<1>7. s \in Seq(S) /\ Len(s) = n
  BY <1>1, <1>2
<1> QED
  BY <1>6, <1>7

\* The answer to a subscription comes behind what is on its way.  The second one
\* brings the revocations: whatever grant is before them, they end it.
LEMMA SubscribeKeepsInv ==
  ASSUME FeedInv, SubscribeFirst \/ SubscribeSecond
  PROVE  FeedInv'
<1>1. CacheInv' /\ BarredDenied' /\ \A c \in Consumers : GrantGood(c)' = GrantGood(c)
  BY CacheStands DEF FeedInv, SubscribeFirst, SubscribeSecond, Subscribe, historyVars
<1>2. UNCHANGED <<retained, word>>
  BY DEF SubscribeFirst, SubscribeSecond, Subscribe, historyVars
<1>3. PICK kind, s : /\ s \in SetToSeqs(RetainedOf(kind)) /\ inflight' = inflight \o s
                     /\ link' = "live" => kind = "revocation"
  BY DEF SubscribeFirst, SubscribeSecond, Subscribe, FirstSubscribed, SecondSubscribed
<1>4. /\ s \in Seq(RetainedOf(kind))
      /\ \A x \in RetainedOf(kind) : \E i \in 1..Len(s) : s[i] = x
  <2>1. IsFiniteSet(RetainedOf(kind))
    BY FS_Subset DEF FeedInv, BrokerTypes, RetainedOf
  <2> QED
    BY <1>3, <2>1, SequencedAll
<1>5. s \in Seq(Messages)
  BY <1>4 DEF FeedInv, BrokerTypes, RetainedOf
<1>6. BrokerTypes'
  BY <1>2, <1>3, <1>5 DEF FeedInv, BrokerTypes
<1>7. WordRetained'
  BY <1>2 DEF FeedInv, WordRetained, IsRevocationOf
<1>8. WordFollows'
  <2> SUFFICES ASSUME link' = "live", NEW c \in Consumers, word'[c] = "revoked"
               PROVE  GrantsOvertaken(c)' /\ OnItsWay(c)'
    BY DEF WordFollows
  <2>1. /\ inflight \in Seq(Messages) /\ Len(inflight') = Len(inflight) + Len(s)
        /\ Len(inflight) \in Nat /\ Len(s) \in Nat
        /\ \A i \in 1..Len(s) : inflight'[Len(inflight) + i] = s[i]
    BY <1>3, <1>5 DEF FeedInv, BrokerTypes
  <2>2. PICK x \in retained : IsRevocationOf(x, c)
    BY <1>2 DEF FeedInv, WordRetained
  <2>3. PICK k \in 1..Len(s) : s[k] = x
    BY <1>3, <1>4, <2>2 DEF RetainedOf, IsRevocationOf
  <2>4. \A i \in 0..Len(inflight) : PendingAfter(c, i)'
    <3>1. Len(inflight) + k \in 1..Len(inflight') /\ IsRevocationOf(inflight'[Len(inflight) + k], c)
      BY <2>1, <2>2, <2>3
    <3> QED
      BY <2>1, <3>1 DEF PendingAfter
  <2>5. ASSUME NEW i \in 1..Len(inflight'), IsGrantOf(inflight'[i], c)
        PROVE  i \in 0..Len(inflight)
    <3>1. SUFFICES ASSUME i > Len(inflight) PROVE FALSE
      BY <2>1
    <3>2. i - Len(inflight) \in 1..Len(s)
      BY <2>1, <3>1
    <3>3. inflight'[i] = s[i - Len(inflight)]
      BY <2>1, <3>2
    <3>4. s[i - Len(inflight)].kind = "revocation"
      BY <1>3, <1>4, <3>2 DEF RetainedOf
    <3> QED
      BY <2>5, <3>3, <3>4 DEF IsGrantOf
  <2> QED
    BY <2>1, <2>4, <2>5 DEF GrantsOvertaken, OnItsWay, PendingAfter, IsGrantOf, IsRevocationOf
<1> QED
  BY <1>1, <1>6, <1>7, <1>8 DEF FeedInv

\* The oldest message is ingested.  A grant of a consumer with a revocation to
\* come leaves that one pending; the revocation itself ends the consumer's grant.
LEMMA DeliverKeepsInv ==
  ASSUME FeedInv, Deliver
  PROVE  FeedInv'
<1> DEFINE m == Head(inflight)
<1>1. /\ inflight \in Seq(Messages) /\ inflight # <<>> /\ m \in Messages /\ m = inflight[1]
      /\ inflight' = Tail(inflight) /\ inflight' \in Seq(Messages)
      /\ Ingest(m) /\ UNCHANGED <<retained, link, word, request, barred>>
  BY DEF FeedInv, BrokerTypes, Deliver, Ingest
<1>2. /\ Len(inflight) \in Nat \ {0} /\ Len(inflight') = Len(inflight) - 1
      /\ \A i \in 1..Len(inflight') : inflight'[i] = inflight[i + 1]
  BY <1>1
<1>3. CacheInv' /\ BarredDenied'
  BY <1>1, GrantKeepsInv, RevocationKeepsInv DEF FeedInv, BarredDenied, Ingest
<1>4. BrokerTypes' /\ WordRetained'
  BY <1>1 DEF FeedInv, BrokerTypes, WordRetained, IsRevocationOf
<1>5. WordFollows'
  <2> SUFFICES ASSUME link' = "live", NEW c \in Consumers, word'[c] = "revoked"
               PROVE  GrantsOvertaken(c)' /\ OnItsWay(c)'
    BY DEF WordFollows
  <2>1. GrantsOvertaken(c) /\ OnItsWay(c)
    BY <1>1 DEF FeedInv, WordFollows
  <2>2. ASSUME NEW i \in 1..Len(inflight), PendingAfter(c, i)
        PROVE  PendingAfter(c, i - 1)'
    <3>1. PICK j \in 1..Len(inflight) : j > i /\ IsRevocationOf(inflight[j], c)
      BY <2>2 DEF PendingAfter
    <3>2. j - 1 \in 1..Len(inflight') /\ inflight'[j - 1] = inflight[j] /\ j - 1 > i - 1
      BY <1>2, <3>1
    <3> QED
      BY <3>1, <3>2 DEF PendingAfter
  <2>3. GrantsOvertaken(c)'
    <3> SUFFICES ASSUME NEW i \in 1..Len(inflight'), IsGrantOf(inflight'[i], c)
                 PROVE  PendingAfter(c, i)'
      BY DEF GrantsOvertaken, PendingAfter, IsGrantOf, IsRevocationOf
    <3>1. i + 1 \in 1..Len(inflight) /\ (i + 1) - 1 = i
      BY <1>2
    <3>2. PendingAfter(c, i + 1)
      BY <1>2, <2>1, <3>1 DEF GrantsOvertaken
    <3>3. PendingAfter(c, (i + 1) - 1)'
      BY <2>2, <3>1, <3>2
    <3> QED
      BY <3>1, <3>3
  <2>4. OnItsWay(c)'
    <3> SUFFICES ASSUME GrantGood(c)' PROVE PendingAfter(c, 0)'
      BY DEF OnItsWay
    <3>1. 1 \in 1..Len(inflight) /\ 1 - 1 = 0
      BY <1>2
    <3>2. PendingAfter(c, 1)
      <4>1. CASE IsGrantOf(m, c)
        BY <1>1, <2>1, <3>1, <4>1 DEF GrantsOvertaken
      <4>2. CASE ~IsGrantOf(m, c)
        <5>1. GrantGood(c) /\ ~IsRevocationOf(m, c)
          BY <1>1, <4>2, IngestGrants DEF FeedInv
        <5>2. PendingAfter(c, 0)
          BY <2>1, <5>1 DEF OnItsWay
        <5> QED
          BY <1>1, <1>2, <5>1, <5>2 DEF PendingAfter
      <4> QED
        BY <4>1, <4>2
    <3>3. PendingAfter(c, 1 - 1)'
      BY <2>2, <3>1, <3>2
    <3> QED
      BY <3>1, <3>3
  <2> QED
    BY <2>3, <2>4
<1> QED
  BY <1>3, <1>4, <1>5 DEF FeedInv

\* Without a connection nothing is on its way and nothing is asked of the cache.
LEMMA LinkKeepsInv ==
  ASSUME FeedInv, Connect \/ Disconnect \/ Restart
  PROVE  FeedInv'
<1>1. link' # "live" /\ UNCHANGED <<retained, word>>
      /\ inflight' \in {inflight, <<>>}
  BY DEF Connect, AfterConnect, Disconnect, Restart, Break, historyVars
<1>2. BrokerTypes'
  <2>1. <<>> \in Seq(Messages)
    OBVIOUS
  <2>2. inflight' \in Seq(Messages)
    BY <1>1, <2>1 DEF FeedInv, BrokerTypes
  <2> QED
    BY <1>1, <2>2 DEF FeedInv, BrokerTypes
<1>3. WordRetained'
  BY <1>1 DEF FeedInv, WordRetained, IsRevocationOf
<1>4. WordFollows'
  BY <1>1 DEF WordFollows
<1>5. CacheInv' /\ BarredDenied'
  <2>1. CASE Connect \/ Disconnect
    BY <2>1, CacheStands DEF FeedInv, Connect, Disconnect, historyVars
  <2>2. CASE Restart
    BY <2>2, StepKeepsInv DEF FeedInv, Restart, BarredDenied, PolicyNext
  <2> QED
    BY <2>1, <2>2
<1> QED
  BY <1>2, <1>3, <1>4, <1>5 DEF FeedInv

\* A request with a revoked token is denied at once, and stays so until it is
\* answered.
LEMMA ServeKeepsInv ==
  ASSUME FeedInv, NEW r \in Requests, Serve(r)
  PROVE  FeedInv'
<1>1. UNCHANGED <<cacheVars, retained, link, inflight, word>>
  BY DEF Serve, Authorize, CheckToken, CheckGrant, Answer, feedVars
<1>2. CacheInv'
  BY StepKeepsInv DEF FeedInv, Serve, PolicyNext
<1>3. BrokerTypes' /\ WordRetained'
  BY <1>1 DEF FeedInv, BrokerTypes, WordRetained, IsRevocationOf
<1>4. WordFollows'
  BY <1>1 DEF FeedInv, WordFollows, GrantsOvertaken, OnItsWay, PendingAfter, GrantGood,
              cacheVars, IsRevocationOf, IsGrantOf
<1>5. BarredDenied'
  <2>1. /\ request = [x \in Requests |-> request[x]]
        /\ barred \subseteq Requests /\ \A x \in barred : request[x] = "denied"
    BY DEF FeedInv, BarredDenied, CacheInv, PolicyTypeOK
  <2>2. CASE CheckToken(r)
    <3>1. ~Answer(r)
      BY <2>2 DEF CheckToken, Answer
    <3>2. barred' = IF Token[r].jti \in revokedJti THEN barred \cup {r} ELSE barred
      BY <2>2, <3>1 DEF Serve
    <3>3. r \notin barred
      BY <2>1, <2>2 DEF CheckToken
    <3> QED
      BY <2>1, <2>2, <3>2, <3>3 DEF CheckToken, TokenGood, BarredDenied
  <2>3. CASE CheckGrant(r)
    <3>1. ~CheckToken(r) /\ ~Answer(r) /\ r \notin barred
      BY <2>1, <2>3 DEF CheckToken, CheckGrant, Answer
    <3>2. barred' = barred
      BY <3>1 DEF Serve
    <3> QED
      BY <2>1, <2>3, <3>1, <3>2 DEF CheckGrant, BarredDenied
  <2>4. CASE Answer(r)
    <3>1. ~CheckToken(r)
      BY <2>4 DEF CheckToken, Answer
    <3>2. barred' = barred \ {r}
      BY <2>4, <3>1 DEF Serve
    <3> QED
      BY <2>1, <2>4, <3>2 DEF Answer, BarredDenied
  <2> QED
    BY <2>2, <2>3, <2>4 DEF Serve, Authorize
<1> QED
  BY <1>2, <1>3, <1>4, <1>5 DEF FeedInv

\* Every step keeps the invariant.
LEMMA NextKeepsFeedInv ==
  ASSUME FeedInv, [Next]_vars
  PROVE  FeedInv'
<1>1. CASE UNCHANGED vars
  <2>1. UNCHANGED <<policyVars, barred, retained, inflight, word, link>>
    BY <1>1 DEF vars, feedVars, historyVars
  <2>2. CacheInv' /\ BarredDenied' /\ \A c \in Consumers : GrantGood(c)' = GrantGood(c)
    BY <2>1, CacheStands DEF FeedInv
  <2> QED
    BY <2>1, <2>2 DEF FeedInv, BrokerTypes, WordRetained, WordFollows, GrantsOvertaken,
                      OnItsWay, PendingAfter, IsRevocationOf, IsGrantOf
<1>2. CASE Next
  BY <1>2, PublishKeepsInv, ClearKeepsInv, SubscribeKeepsInv, DeliverKeepsInv,
     LinkKeepsInv, ServeKeepsInv DEF Next
<1> QED
  BY <1>1, <1>2

-----------------------------------------------------------------------------
(* The theorems.                                                           *)

\* Whatever Core publishes, whenever connections are lost and processes die: a
\* revocation that is Core's last word is retained, and once the connection
\* subscribes it is behind every grant it must overtake.
THEOREM FeedInvariant == Spec => []FeedInv
<1>1. Init => FeedInv
  <2> SUFFICES ASSUME Init PROVE FeedInv
    OBVIOUS
  <2>1. CacheInv
    BY EmptyCacheInv DEF Init, PolicyInit, EmptyCache
  <2>2. BrokerTypes
    BY FS_EmptySet DEF Init, BrokerTypes
  <2> QED
    BY <2>1, <2>2 DEF Init, FeedInv, WordRetained, WordFollows, BarredDenied
<1>2. FeedInv /\ [Next]_vars => FeedInv'
  BY NextKeepsFeedInv
<1> QED
  BY <1>1, <1>2, PTL DEF Spec

\* Once all that the broker has for a connection is ingested, a consumer whose
\* revocation is Core's last word is refused (_subscribe_policy_topics asks for
\* the revocations after the grants).
THEOREM QuietMeansRevoked == Spec => []RevokedWhenQuiet
<1>1. FeedInv => RevokedWhenQuiet
  BY DEF FeedInv, WordFollows, RevokedWhenQuiet, OnItsWay, PendingAfter
<1> QED
  BY <1>1, FeedInvariant, PTL

\* A request that came in with a revoked token is never let through, whatever
\* grants arrive before it is answered (authorize).
THEOREM BarredNeverAllowed == Spec => []NoBarredRequestAllowed
<1>1. FeedInv => NoBarredRequestAllowed
  BY DEF FeedInv, BarredDenied, NoBarredRequestAllowed
<1> QED
  BY <1>1, FeedInvariant, PTL

\* The feed drives the cache as PolicyCache has it, so that every theorem about
\* the cache holds behind the subscription: it decides like the ledger.
THEOREM FeedImplementsLedger ==
  Spec => PolicySpec /\ LedgerSpec /\ DecidesLikeLedger /\ []PolicyTypeOK
          /\ []NoTombstoneOverGrant
<1>1. Init => PolicyInit
  BY DEF Init
<1>2. FeedInv /\ [Next]_vars => [PolicyNext]_policyVars
  BY FeedStepsCache DEF FeedInv, BrokerTypes
<1>3. Spec => PolicySpec
  BY <1>1, <1>2, FeedInvariant, PTL DEF Spec, PolicySpec
<1> QED
  BY <1>3, CacheImplementsLedger, CacheFollowsLedger, CacheTypes, TombstonesApart
=============================================================================
