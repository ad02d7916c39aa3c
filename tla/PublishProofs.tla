----------------------------- MODULE PublishProofs -----------------------------
(***************************************************************************)
(* What the topic checks guarantee for every topic and filter, and what the *)
(* four publishing endpoints send, for any threads, requests, grants,      *)
(* registrations and settings: each check a request passes has seen its    *)
(* condition hold while the request was under way.                         *)
(***************************************************************************)
EXTENDS Publish, PolicyProofs, FiniteSetTheorems, SequenceTheorems

-----------------------------------------------------------------------------
(* The matcher.                                                            *)

\* Within the topic the loop returns at exactly the levels that do not fit.
LEMMA ReturnsUnlessFits ==
  ASSUME NEW S, NEW filter \in Seq(S), NEW topic \in Seq(S),
         NEW i \in 1..Len(filter)
  PROVE  ~Returns(filter, topic, i) <=> i <= Len(topic) /\ LevelFits(filter, topic, i)
BY DEF Returns, LevelFits

\* _mqtt_topic_matches decides as MQTT does for every filter and topic; a "#"
\* before the end of a filter matches nothing.
THEOREM MatchesIsMqtt ==
  ASSUME NEW S, NEW filter \in Seq(S), NEW topic \in Seq(S), filter # <<>>
  PROVE  Matches(filter, topic) <=> MqttMatches(filter, topic)
<1> DEFINE n == Len(filter)
           fits(k) == \A i \in 1..k : i <= Len(topic) /\ LevelFits(filter, topic, i)
<1>1. n \in Nat \ {0} /\ Len(topic) \in Nat
  OBVIOUS
<1>2. \A k \in 0..n : (\A i \in 1..k : ~Returns(filter, topic, i)) <=> fits(k)
  BY <1>1, ReturnsUnlessFits
<1>3. (\E i \in 1..n : /\ \A j \in 1..(i - 1) : ~Returns(filter, topic, j)
                       /\ filter[i] = "#" /\ i = n)
        <=> fits(n - 1) /\ filter[n] = "#"
  BY <1>1, <1>2
<1>4. fits(n - 1) <=> /\ Len(topic) >= n - 1
                      /\ \A i \in 1..(n - 1) : LevelFits(filter, topic, i)
  BY <1>1
<1>5. Len(topic) = n => (fits(n) <=> \A i \in 1..n : LevelFits(filter, topic, i))
  OBVIOUS
<1>6. (\A i \in 1..n : ~Returns(filter, topic, i)) <=> fits(n)
  BY <1>1, <1>2
<1> QED
  BY <1>3, <1>4, <1>5, <1>6 DEF Matches, MqttMatches

-----------------------------------------------------------------------------
(* The namespaces.                                                         *)

\* A topic two addons may both publish makes them the same addon: no addon can
\* publish in the namespace of another.
THEOREM NamespacesDisjoint ==
  ASSUME NEW S, NEW topic \in Seq(S), NEW a, NEW b,
         a # Anonymous, b # Anonymous,
         PublishTopicOK(topic, a), PublishTopicOK(topic, b)
  PROVE  a = b
<1>1. \A x : Under(topic, Namespace(x)) => topic[3] = x
  <2> SUFFICES ASSUME NEW x, Under(topic, Namespace(x)) PROVE topic[3] = x
    OBVIOUS
  <2>1. Len(Namespace(x)) = 3 /\ Namespace(x)[3] = x
    BY DEF Namespace
  <2>2. Len(topic) > 3 /\ SubSeq(topic, 1, 3) = Namespace(x)
    BY <2>1 DEF Under
  <2>3. SubSeq(topic, 1, 3)[3] = topic[3]
    BY <2>2
  <2> QED
    BY <2>1, <2>2, <2>3
<1> QED
  BY <1>1 DEF PublishTopicOK

\* What an addon publishes through the publish and gateway endpoints is always
\* on a platform topic, so that its payload is always checked, and never on a
\* reserved one.
THEOREM AddonsPublishEnvelopes ==
  ASSUME NEW S, NEW topic \in Seq(S), NEW a, a # Anonymous, PublishTopicOK(topic, a)
  PROVE  IsPlatform(topic) /\ ~IsReserved(topic)
<1>1. Len(Namespace(a)) = 3 /\ Namespace(a)[1] = "synthia" /\ Namespace(a)[2] = "addons"
  BY DEF Namespace
<1>2. Len(topic) > 3 /\ SubSeq(topic, 1, 3) = Namespace(a)
  BY <1>1 DEF PublishTopicOK, Under
<1>3. topic[1] = "synthia" /\ topic[2] = "addons"
  <2>1. SubSeq(topic, 1, 3)[1] = topic[1] /\ SubSeq(topic, 1, 3)[2] = topic[2]
    BY <1>2
  <2> QED
    BY <1>1, <1>2, <2>1
<1>4. SubSeq(topic, 1, 2) = <<"synthia", "addons">>
  <2>1. SubSeq(topic, 1, 2) \in Seq(S) /\ Len(SubSeq(topic, 1, 2)) = 2
    BY <1>2
  <2>2. SubSeq(topic, 1, 2)[1] = topic[1] /\ SubSeq(topic, 1, 2)[2] = topic[2]
    BY <1>2
  <2>3. /\ topic[1] \in S /\ topic[2] \in S
        /\ <<topic[1], topic[2]>> \in Seq(S) /\ Len(<<topic[1], topic[2]>>) = 2
    BY <1>2
  <2>4. \A i \in 1..2 : SubSeq(topic, 1, 2)[i] = <<topic[1], topic[2]>>[i]
    BY <2>2
  <2>5. SubSeq(topic, 1, 2) = <<topic[1], topic[2]>>
    BY <2>1, <2>3, <2>4, SeqEqual
  <2> QED
    BY <1>3, <2>5
<1> QED
  BY <1>2, <1>4 DEF PublishTopicOK, IsPlatform, Under

-----------------------------------------------------------------------------
(* The inductive invariant.                                                *)

IsJob(j) ==
  j = [at |-> j.at, n |-> j.n, call |-> j.call, registration |-> j.registration,
       outcome |-> j.outcome, log |-> j.log]

\* Requests under way have numbers of their own, up to the last one received.
JobsOK ==
  /\ job = [r \in Requests |-> job[r]]
  /\ request = [r \in Requests |-> request[r]]
  /\ seen = [r \in Requests |-> seen[r]]
  /\ served \in Nat
  /\ registrations = Torn \/ registrations \in Registered
  /\ \A r \in Requests : job[r] # Nil =>
       /\ IsJob(job[r]) /\ job[r].n \in 1..served /\ job[r].call \in Calls
       /\ mode.auth = "off" \/ job[r].call.token.sub = Token[r].sub
  /\ \A r, s \in Requests :
       job[r] # Nil /\ job[s] # Nil /\ job[r].n = job[s].n => r = s

\* What a registration allows, as MQTT reads its scopes.
LetsThrough(found, call) ==
  /\ found # Nil
  /\ call.op \in {"sensor", "state"} => found.ha
  /\ call.op = "gateway" => \E f \in found.scopes : MqttMatches(f, TopicOf(call))

\* A request that waits has seen the condition of every check behind it; of the
\* registration it read, if that allows it.
Checked(r) ==
  /\ job[r].at # "gate" => "setup" \in seen[r]
  /\ job[r].at \notin {"gate", "token"} => "not revoked" \in seen[r]
  /\ job[r].at = "grant" => Sub(r) # Anonymous
  /\ job[r].at \in {"registration", "decide", "send"} => "granted" \in seen[r]
  /\ job[r].at = "registration" => job[r].call.op # "publish"
  /\ job[r].at \in {"decide", "send"} =>
       IF job[r].call.op = "publish" THEN "registered" \in seen[r]
       ELSE /\ \E f \in Registered, a \in Addons : job[r].registration = f[a]
            /\ job[r].registration # Nil
            /\ LetsThrough(job[r].registration, job[r].call) => "registered" \in seen[r]
  /\ job[r].at = "send" => Acceptable(r)

PublishInv == JobsOK /\ \A r \in Requests : Waiting(r) => Checked(r)

-----------------------------------------------------------------------------
(* The steps of one request.                                               *)

\* The other requests stay; this one ends, or keeps its number and its call.
JobStep(r) ==
  /\ job' = [s \in Requests |-> job'[s]]
  /\ \A s \in Requests : s # r => job'[s] = job[s]
  /\ \/ job'[r] = Nil
     \/ /\ job[r] # Nil /\ IsJob(job'[r])
        /\ job'[r].n = job[r].n /\ job'[r].call = job[r].call

\* A request that goes on to another step.
LEMMA MoveFields ==
  ASSUME JobsOK, NEW r \in Requests, job[r] # Nil, NEW step \in Steps, Move(r, step)
  PROVE  /\ JobStep(r)
         /\ job'[r] = [at |-> step, n |-> job[r].n, call |-> job[r].call,
                       registration |-> job[r].registration,
                       outcome |-> job[r].outcome, log |-> job[r].log]
<1>1. job[r] = [at |-> job[r].at, n |-> job[r].n, call |-> job[r].call,
                registration |-> job[r].registration,
                outcome |-> job[r].outcome, log |-> job[r].log]
  BY DEF JobsOK, IsJob
<1>2. job' = [job EXCEPT ![r] = [job[r] EXCEPT !.at = step]]
  BY DEF Move
<1>3. /\ job' = [s \in Requests |-> job'[s]]
      /\ \A s \in Requests : s # r => job'[s] = job[s]
      /\ job'[r] = [job[r] EXCEPT !.at = step]
  BY <1>2 DEF JobsOK
<1>4. job'[r] = [at |-> step, n |-> job[r].n, call |-> job[r].call,
                 registration |-> job[r].registration,
                 outcome |-> job[r].outcome, log |-> job[r].log]
  BY <1>1, <1>3
<1> QED
  BY <1>3, <1>4 DEF JobStep, IsJob

\* A request whose outcome is clear has its trace to write.
LEMMA OutcomeFields ==
  ASSUME JobsOK, NEW r \in Requests, job[r] # Nil, NEW outcome, Outcome(r, outcome)
  PROVE  /\ JobStep(r) /\ job'[r].at = "trace"
         /\ job'[r].n = job[r].n /\ job'[r].outcome = outcome
<1>1. job[r] = [at |-> job[r].at, n |-> job[r].n, call |-> job[r].call,
                registration |-> job[r].registration,
                outcome |-> job[r].outcome, log |-> job[r].log]
  BY DEF JobsOK, IsJob
<1>2. /\ job' = [s \in Requests |-> job'[s]]
      /\ \A s \in Requests : s # r => job'[s] = job[s]
      /\ job'[r] = [[job[r] EXCEPT !.at = "trace"] EXCEPT !.outcome = outcome]
  BY DEF Outcome, JobsOK
<1>3. job'[r] = [at |-> "trace", n |-> job[r].n, call |-> job[r].call,
                 registration |-> job[r].registration,
                 outcome |-> outcome, log |-> job[r].log]
  BY <1>1, <1>2
<1> QED
  BY <1>2, <1>3 DEF JobStep, IsJob

\* A request that is answered is gone.
LEMMA ReplyFields ==
  ASSUME JobsOK, NEW r \in Requests, NEW answer, Reply(r, answer)
  PROVE  /\ JobStep(r) /\ job'[r] = Nil
         /\ request' = [s \in Requests |-> request'[s]]
BY DEF Reply, JobsOK, JobStep, Answer, policyVars

-----------------------------------------------------------------------------
(* What a request has seen.                                                *)

\* What holds after a step has been seen, and what was seen before is kept.
LEMMA SeenGrows ==
  ASSUME Observe, NEW r \in Requests, Waiting(r)'
  PROVE  /\ Holding(r)' \subseteq seen'[r]
         /\ Waiting(r) => seen[r] \subseteq seen'[r]
BY DEF Observe

\* A step of one request keeps the jobs in order.
LEMMA JobsStayOK ==
  ASSUME JobsOK, NEW r \in Requests, JobStep(r), UNCHANGED <<mode, served, registrations>>,
         request' = [s \in Requests |-> request'[s]], Observe
  PROVE  JobsOK'
<1>1. seen' = [s \in Requests |-> seen'[s]]
  BY DEF Observe
<1>2. \A s \in Requests : job'[s] # Nil =>
        /\ job[s] # Nil /\ IsJob(job'[s])
        /\ job'[s].n = job[s].n /\ job'[s].call = job[s].call
  BY DEF JobsOK, JobStep
<1> QED
  BY <1>1, <1>2 DEF JobsOK, JobStep

\* A request that a step does not touch has seen no less after it.
LEMMA UntouchedStaysChecked ==
  ASSUME NEW r \in Requests, job'[r] = job[r], UNCHANGED mode, Observe,
         Waiting(r) => Checked(r), Waiting(r)'
  PROVE  Checked(r)'
<1>1. Waiting(r) /\ Checked(r)
  BY DEF Waiting
<1>2. seen[r] \subseteq seen'[r]
  BY <1>1, SeenGrows
<1>3. Sub(r)' = Sub(r)
  BY DEF Sub
<1>4. Acceptable(r)' = Acceptable(r)
  BY <1>3 DEF Acceptable, Publisher, ScopesOK
<1> QED
  BY <1>1, <1>2, <1>3, <1>4 DEF Checked

\* A finished setup has been seen after the gate.
LEMMA GateSeesSetup ==
  ASSUME JobsOK, Observe, NEW r \in Requests, CheckGate(r), Waiting(r)'
  PROVE  Checked(r)'
<1>1. job[r] # Nil
  BY DEF CheckGate, At
<1>2. session # Torn /\ GateOpen(session) /\ Move(r, "token")
  <2>1. CASE Reply(r, "500")
    BY <2>1, ReplyFields DEF Waiting
  <2>2. CASE Deny(r)
    BY <1>1, <2>2, OutcomeFields DEF Deny, Waiting
  <2> QED
    BY <2>1, <2>2 DEF CheckGate
<1>3. job'[r].at = "token"
  <2>1. "token" \in Steps
    BY DEF Steps
  <2>2. job'[r] = [at |-> "token", n |-> job[r].n, call |-> job[r].call,
                   registration |-> job[r].registration,
                   outcome |-> job[r].outcome, log |-> job[r].log]
    BY <1>1, <1>2, <2>1, MoveFields
  <2> QED
    BY <2>2
<1>4. session' = session
  BY DEF CheckGate, world
<1>5. "setup" \in Holding(r)'
  BY <1>2, <1>4 DEF Holding, Holds, Conditions, GateOpen
<1>6. "setup" \in seen'[r]
  BY <1>5, SeenGrows
<1> QED
  BY <1>3, <1>6 DEF Checked

\* Where a request goes once it is authorized.
LEMMA AuthorizedFields ==
  ASSUME JobsOK, NEW r \in Requests, job[r] # Nil, Authorized(r)
  PROVE  /\ JobStep(r) /\ job'[r].call = job[r].call
         /\ job'[r].at = IF job[r].call.op = "publish" THEN "decide" ELSE "registration"
<1> DEFINE next == IF job[r].call.op = "publish" THEN "decide" ELSE "registration"
<1>1. Move(r, next)
  BY DEF Authorized
<1>2. next \in Steps
  BY DEF Steps
<1>3. next = IF job[r].call.op = "publish" THEN "decide" ELSE "registration"
  OBVIOUS
<1> HIDE DEF next
<1>4. /\ JobStep(r)
      /\ job'[r] = [at |-> next, n |-> job[r].n, call |-> job[r].call,
                    registration |-> job[r].registration,
                    outcome |-> job[r].outcome, log |-> job[r].log]
  BY <1>1, <1>2, MoveFields
<1> QED
  BY <1>3, <1>4 DEF JobStep

\* authorize looks at the token first.
LEMMA TokenCheckSeesRevocations ==
  ASSUME JobsOK, Observe, NEW r \in Requests, AuthorizeToken(r), Waiting(r)', Checked(r)
  PROVE  Checked(r)'
<1>1. /\ job[r] # Nil /\ job[r].at = "token" /\ Waiting(r)
      /\ UNCHANGED <<mode, session, registrations>>
  BY DEF AuthorizeToken, At, Waiting, world
<1>2. "setup" \in seen'[r]
  BY <1>1, SeenGrows DEF Checked
<1>3. CASE ~mode.enforced /\ Authorized(r)
  <2>1. /\ job'[r].call = job[r].call
        /\ job'[r].at = IF job[r].call.op = "publish" THEN "decide" ELSE "registration"
    BY <1>1, <1>3, AuthorizedFields
  <2>2. "not revoked" \in Holding(r)' /\ "granted" \in Holding(r)'
    BY <1>1, <1>3 DEF Holding, Holds, Conditions
  <2>3. job[r].call.op = "publish" => "registered" \in Holding(r)'
    BY <2>1 DEF Holding, Holds, Conditions
  <2>4. /\ "not revoked" \in seen'[r] /\ "granted" \in seen'[r]
        /\ job[r].call.op = "publish" => "registered" \in seen'[r]
    BY <2>2, <2>3, SeenGrows
  <2>5. CASE job[r].call.op = "publish"
    BY <1>2, <2>1, <2>4, <2>5 DEF Checked
  <2>6. CASE job[r].call.op # "publish"
    BY <1>2, <2>1, <2>4, <2>6 DEF Checked
  <2> QED
    BY <2>5, <2>6
<1>4. CASE Deny(r)
  BY <1>1, <1>4, OutcomeFields DEF Deny, Waiting
<1>5. CASE Sub(r) # Anonymous /\ CheckToken(r) /\ request'[r] = "checked" /\ Move(r, "grant")
  <2>1. Token[r].jti \notin revokedJti /\ UNCHANGED revokedJti
    BY <1>5 DEF CheckToken, TokenGood, JobsOK, cacheVars
  <2>2. "not revoked" \in Holding(r)'
    BY <2>1 DEF Holding, Holds, Conditions
  <2>3. "not revoked" \in seen'[r]
    BY <2>2, SeenGrows
  <2>4. job'[r].at = "grant" /\ job'[r].call = job[r].call
    <3>1. "grant" \in Steps
      BY DEF Steps
    <3>2. job'[r] = [at |-> "grant", n |-> job[r].n, call |-> job[r].call,
                     registration |-> job[r].registration,
                     outcome |-> job[r].outcome, log |-> job[r].log]
      BY <1>1, <1>5, <3>1, MoveFields
    <3> QED
      BY <3>2
  <2>5. Sub(r)' # Anonymous
    BY <1>1, <1>5, <2>4 DEF Sub
  <2> QED
    BY <1>2, <2>3, <2>4, <2>5 DEF Checked
<1> QED
  BY <1>3, <1>4, <1>5 DEF AuthorizeToken

\* and then at the grant of the token's addon.
LEMMA GrantCheckSeesGrant ==
  ASSUME JobsOK, Observe, NEW r \in Requests, AuthorizeGrant(r), Waiting(r)', Checked(r)
  PROVE  Checked(r)'
<1>1. /\ job[r] # Nil /\ job[r].at = "grant" /\ Waiting(r)
      /\ UNCHANGED <<mode, session, registrations>>
  BY DEF AuthorizeGrant, At, Waiting, world
<1>2. "setup" \in seen'[r] /\ "not revoked" \in seen'[r] /\ Sub(r) # Anonymous
  BY <1>1, SeenGrows DEF Checked
<1>3. CASE request'[r] # "allowed"
  BY <1>1, <1>3, OutcomeFields DEF AuthorizeGrant, Deny, Waiting
<1>4. CASE request'[r] = "allowed"
  <2>1. Authorized(r) /\ CheckGrant(r)
    BY <1>4 DEF AuthorizeGrant
  <2>2. /\ job'[r].call = job[r].call
        /\ job'[r].at = IF job[r].call.op = "publish" THEN "decide" ELSE "registration"
    BY <1>1, <2>1, AuthorizedFields
  <2>3. GrantGood(Token[r].sub)
    BY <1>4, <2>1 DEF CheckGrant, JobsOK
  <2>4. Sub(r) = Token[r].sub
    <3>1. mode.auth # "off"
      BY <1>2 DEF Sub, Subject, Anonymous
    <3> QED
      BY <1>1, <3>1 DEF Sub, Subject, JobsOK
  <2>5. Sub(r)' = Sub(r)
    BY <1>1, <2>2 DEF Sub
  <2>6. GrantGood(Sub(r))'
    <3>1. UNCHANGED cacheVars
      BY <2>1 DEF CheckGrant
    <3> QED
      BY <2>3, <2>4, <2>5, <3>1 DEF GrantGood, cacheVars
  <2>7. "granted" \in Holding(r)'
    BY <1>2, <2>5, <2>6 DEF Holding, Holds, Conditions
  <2>8. job[r].call.op = "publish" => "registered" \in Holding(r)'
    BY <2>2 DEF Holding, Holds, Conditions
  <2>9. /\ "granted" \in seen'[r]
        /\ job[r].call.op = "publish" => "registered" \in seen'[r]
    BY <2>7, <2>8, SeenGrows
  <2>10. CASE job[r].call.op = "publish"
    BY <1>2, <2>2, <2>9, <2>10 DEF Checked
  <2>11. CASE job[r].call.op # "publish"
    BY <1>2, <2>2, <2>9, <2>11 DEF Checked
  <2> QED
    BY <2>10, <2>11
<1> QED
  BY <1>3, <1>4

\* The registration is seen as it is read; whether it lets the request through is
\* decided later.
LEMMA LookUpSeesRegistration ==
  ASSUME JobsOK, Observe, NEW r \in Requests, LookUp(r), Waiting(r)', Checked(r)
  PROVE  Checked(r)'
<1> DEFINE found == Registration(job[r].call.addon)
<1>1. /\ job[r] # Nil /\ job[r].at = "registration" /\ Waiting(r)
      /\ UNCHANGED <<mode, session, registrations>>
  BY DEF LookUp, At, Waiting, world
<1>2. /\ "setup" \in seen'[r] /\ "not revoked" \in seen'[r] /\ "granted" \in seen'[r]
      /\ job[r].call.op # "publish"
  BY <1>1, SeenGrows DEF Checked
<1>3. CASE found = Nil
  BY <1>1, <1>3, OutcomeFields DEF LookUp, Deny, Waiting
<1>4. CASE found # Nil
  <2>1. job'[r] = [[job[r] EXCEPT !.at = "decide"] EXCEPT !.registration = found]
    BY <1>4 DEF LookUp, JobsOK
  <2>2. job[r] = [at |-> job[r].at, n |-> job[r].n, call |-> job[r].call,
                  registration |-> job[r].registration,
                  outcome |-> job[r].outcome, log |-> job[r].log]
    BY <1>1 DEF JobsOK, IsJob
  <2> HIDE DEF found
  <2>3. job'[r].at = "decide" /\ job'[r].call = job[r].call /\ job'[r].registration = found
    BY <2>1, <2>2
  <2>4. registrations \in Registered /\ found = registrations[job[r].call.addon]
    BY <1>4 DEF found, Registration, JobsOK
  <2>5. job[r].call.addon \in Addons
    BY <1>1, <1>2, CallsAssumption DEF JobsOK
  <2>6. LetsThrough(found, job[r].call) => "registered" \in Holding(r)'
    <3>1. Registration(job[r].call.addon)' = found
      BY <1>1, <2>3 DEF found, Registration
    <3>2. LetsThrough(found, job[r].call) => RegistrationAllows(job[r].call)'
      BY <2>3, <3>1 DEF LetsThrough, RegistrationAllows
    <3> QED
      BY <3>2 DEF Holding, Holds, Conditions
  <2>7. LetsThrough(found, job[r].call) => "registered" \in seen'[r]
    BY <2>6, SeenGrows
  <2> QED
    BY <1>2, <1>4, <2>3, <2>4, <2>5, <2>7 DEF Checked
<1> QED
  BY <1>3, <1>4

\* Nothing that was seen is forgotten before the message goes out.
LEMMA DecideKeepsSeen ==
  ASSUME JobsOK, Observe, NEW r \in Requests, Decide(r), Waiting(r)', Checked(r)
  PROVE  Checked(r)'
<1>1. /\ job[r] # Nil /\ job[r].at = "decide" /\ Waiting(r)
      /\ UNCHANGED mode
  BY DEF Decide, At, Waiting, world
<1>2. seen[r] \subseteq seen'[r]
  BY <1>1, SeenGrows
<1>3. Acceptable(r) /\ Move(r, "send")
  <2>1. CASE Reply(r, "422")
    BY <2>1, ReplyFields DEF Waiting
  <2>2. CASE Deny(r)
    BY <1>1, <2>2, OutcomeFields DEF Deny, Waiting
  <2> QED
    BY <2>1, <2>2 DEF Decide
<1>4. /\ job'[r].at = "send" /\ job'[r].call = job[r].call
      /\ job'[r].registration = job[r].registration
  <2>1. "send" \in Steps
    BY DEF Steps
  <2>2. job'[r] = [at |-> "send", n |-> job[r].n, call |-> job[r].call,
                   registration |-> job[r].registration,
                   outcome |-> job[r].outcome, log |-> job[r].log]
    BY <1>1, <1>3, <2>1, MoveFields
  <2> QED
    BY <2>2
<1>5. Acceptable(r)'
  <2>1. Sub(r)' = Sub(r)
    BY <1>1, <1>4 DEF Sub
  <2> QED
    BY <1>3, <1>4, <2>1 DEF Acceptable, Publisher, ScopesOK
<1>6. Sub(r)' = Sub(r)
  BY <1>1, <1>4 DEF Sub
<1> QED
  BY <1>1, <1>2, <1>4, <1>5 DEF Checked

-----------------------------------------------------------------------------
(* The invariant.                                                          *)

\* A request that hands its message over, or has, waits for no check any more.
Telling(r) ==
  Send(r) \/ ReadTraces(r) \/ OpenTraces(r) \/ FillTraces(r) \/ Finish(r) \/ Fail(r)

\* Such a step leaves the request waiting for nothing.
LEMMA TellingFields ==
  ASSUME JobsOK, NEW r \in Requests, Telling(r)
  PROVE  /\ JobStep(r) /\ ~Waiting(r)'
         /\ request' = [s \in Requests |-> request'[s]]
<1>1. CASE Send(r)
  <2>1. CASE Reply(r, "500")
    BY <2>1, ReplyFields DEF Waiting
  <2>2. CASE Outcome(r, IF online THEN "success" ELSE "error") /\ UNCHANGED policyVars
    <3>1. job[r] # Nil
      BY <1>1 DEF Send, At
    <3> QED
      BY <2>2, <3>1, OutcomeFields DEF Waiting, policyVars, JobsOK
  <2> QED
    BY <1>1, <2>1, <2>2 DEF Send
<1>2. CASE ReadTraces(r)
  <2>1. /\ job[r] = [at |-> job[r].at, n |-> job[r].n, call |-> job[r].call,
                     registration |-> job[r].registration,
                     outcome |-> job[r].outcome, log |-> job[r].log]
        /\ job[r] # Nil
    BY <1>2 DEF ReadTraces, At, JobsOK, IsJob
  <2>2. /\ job' = [s \in Requests |-> job'[s]]
        /\ \A s \in Requests : s # r => job'[s] = job[s]
        /\ job'[r] = [[job[r] EXCEPT !.at = "save trace"] EXCEPT !.log = Loaded(traces)]
    BY <1>2 DEF ReadTraces, JobsOK
  <2>3. job'[r] = [at |-> "save trace", n |-> job[r].n, call |-> job[r].call,
                   registration |-> job[r].registration,
                   outcome |-> job[r].outcome, log |-> Loaded(traces)]
    BY <2>1, <2>2
  <2>4. JobStep(r) /\ ~Waiting(r)'
    BY <2>1, <2>2, <2>3 DEF JobStep, IsJob, Waiting
  <2> QED
    BY <1>2, <2>4 DEF ReadTraces, policyVars, JobsOK
<1>3. ASSUME NEW step, step = "fill trace" \/ step = "answer",
             job[r] # Nil, Move(r, step), UNCHANGED policyVars
      PROVE  /\ JobStep(r) /\ ~Waiting(r)'
             /\ request' = [s \in Requests |-> request'[s]]
  <2>1. step \in Steps
    BY <1>3 DEF Steps
  <2>2. /\ JobStep(r)
        /\ job'[r] = [at |-> step, n |-> job[r].n, call |-> job[r].call,
                      registration |-> job[r].registration,
                      outcome |-> job[r].outcome, log |-> job[r].log]
    BY <1>3, <2>1, MoveFields
  <2>3. job'[r].at = step
    BY <2>2
  <2>4. ~Waiting(r)'
    BY <1>3, <2>3 DEF Waiting
  <2> QED
    BY <1>3, <2>2, <2>4 DEF policyVars, JobsOK
<1>4. CASE OpenTraces(r)
  BY <1>3, <1>4 DEF OpenTraces, At
<1>5. CASE FillTraces(r)
  BY <1>3, <1>5 DEF FillTraces, At
<1>6. CASE Finish(r)
  BY <1>6, ReplyFields DEF Finish, Waiting
<1>7. CASE Fail(r)
  BY <1>7, ReplyFields DEF Fail, Waiting
<1> QED
  BY <1>1, <1>2, <1>4, <1>5, <1>6, <1>7 DEF Telling

\* The steps of a request before its message goes out.
Checking(r) ==
  CheckGate(r) \/ AuthorizeToken(r) \/ AuthorizeGrant(r) \/ LookUp(r) \/ Decide(r)

\* Such a step keeps the number and the call of the request.
LEMMA CheckingFields ==
  ASSUME JobsOK, NEW r \in Requests, Checking(r)
  PROVE  /\ JobStep(r) /\ Waiting(r)
         /\ request' = [s \in Requests |-> request'[s]]
<1>1. job[r] # Nil /\ Waiting(r)
  BY DEF Checking, CheckGate, AuthorizeToken, AuthorizeGrant, LookUp, Decide, At, Waiting
<1>2. ASSUME NEW step \in {"token", "grant", "send"}, Move(r, step)
      PROVE  JobStep(r)
  <2>1. step \in Steps
    BY DEF Steps
  <2> QED
    BY <1>1, <1>2, <2>1, MoveFields
<1>3. ASSUME Deny(r)
      PROVE  JobStep(r)
  BY <1>1, <1>3, OutcomeFields DEF Deny
<1>4. ASSUME UNCHANGED policyVars
      PROVE  request' = [s \in Requests |-> request'[s]]
  BY <1>4 DEF policyVars, JobsOK
<1>5. CASE CheckGate(r)
  BY <1>1, <1>2, <1>3, <1>4, <1>5, ReplyFields DEF CheckGate
<1>6. CASE AuthorizeToken(r)
  <2>1. JobStep(r)
    BY <1>1, <1>2, <1>3, <1>6, AuthorizedFields DEF AuthorizeToken
  <2>2. CASE UNCHANGED policyVars
    BY <1>1, <1>4, <2>1, <2>2
  <2>3. CASE CheckToken(r)
    BY <1>1, <2>1, <2>3 DEF CheckToken, JobsOK
  <2> QED
    BY <1>6, <2>2, <2>3 DEF AuthorizeToken
<1>7. CASE AuthorizeGrant(r)
  <2>1. JobStep(r)
    BY <1>1, <1>3, <1>7, AuthorizedFields DEF AuthorizeGrant
  <2> QED
    BY <1>1, <1>7, <2>1 DEF AuthorizeGrant, CheckGrant, JobsOK
<1>8. CASE LookUp(r)
  <2> DEFINE found == Registration(job[r].call.addon)
  <2>1. CASE Deny(r)
    BY <1>1, <1>3, <1>4, <1>8, <2>1 DEF LookUp
  <2>2. CASE job' = [job EXCEPT ![r].at = "decide", ![r].registration = found]
    <3>1. job[r] = [at |-> job[r].at, n |-> job[r].n, call |-> job[r].call,
                    registration |-> job[r].registration,
                    outcome |-> job[r].outcome, log |-> job[r].log]
      BY <1>1 DEF JobsOK, IsJob
    <3> HIDE DEF found
    <3>2. /\ job' = [s \in Requests |-> job'[s]]
          /\ \A s \in Requests : s # r => job'[s] = job[s]
          /\ job'[r] = [[job[r] EXCEPT !.at = "decide"] EXCEPT !.registration = found]
      BY <2>2 DEF JobsOK
    <3>3. job'[r] = [at |-> "decide", n |-> job[r].n, call |-> job[r].call,
                     registration |-> found,
                     outcome |-> job[r].outcome, log |-> job[r].log]
      BY <3>1, <3>2
    <3> QED
      BY <1>1, <1>4, <1>8, <3>2, <3>3 DEF LookUp, JobStep, IsJob
  <2> QED
    BY <1>8, <2>1, <2>2 DEF LookUp
<1>9. CASE Decide(r)
  BY <1>1, <1>2, <1>3, <1>4, <1>9, ReplyFields DEF Decide
<1> QED
  BY <1>5, <1>6, <1>7, <1>8, <1>9 DEF Checking

\* A step of a handler keeps the invariant.
LEMMA HandleKeepsInv ==
  ASSUME PublishInv, Observe, NEW r \in Requests, Handle(r)
  PROVE  PublishInv'
<1>1. Checking(r) \/ Telling(r)
  BY DEF Handle, Checking, Telling
<1>2. UNCHANGED <<mode, served, registrations>>
  BY DEF Handle, CheckGate, AuthorizeToken, AuthorizeGrant, LookUp, Decide, Send, ReadTraces,
         OpenTraces, FillTraces, Finish, Fail, world, bounds
<1>3. JobStep(r) /\ request' = [s \in Requests |-> request'[s]]
  BY <1>1, CheckingFields, TellingFields DEF PublishInv
<1>4. JobsOK'
  BY <1>2, <1>3, JobsStayOK DEF PublishInv
<1>5. ASSUME NEW s \in Requests, s # r, Waiting(s)'
      PROVE  Checked(s)'
  <2>1. job'[s] = job[s]
    BY <1>3, <1>5 DEF JobStep
  <2> QED
    BY <1>2, <1>5, <2>1, UntouchedStaysChecked DEF PublishInv
<1>6. ASSUME Waiting(r)'
      PROVE  Checked(r)'
  <2>1. Checking(r)
    BY <1>1, <1>6, TellingFields DEF PublishInv
  <2>2. JobsOK /\ Checked(r)
    BY <2>1, CheckingFields DEF PublishInv
  <2> QED
    BY <1>6, <2>1, <2>2, GateSeesSetup, TokenCheckSeesRevocations, GrantCheckSeesGrant,
       LookUpSeesRegistration, DecideKeepsSeen DEF Checking
<1> QED
  BY <1>4, <1>5, <1>6 DEF PublishInv

\* A new request has a new number, and with a token the sub of its thread.
LEMMA ReceiveKeepsInv ==
  ASSUME PublishInv, Observe, NEW r \in Requests, NEW call \in Calls, Receive(r, call)
  PROVE  PublishInv'
<1> DEFINE new == [at |-> "gate", n |-> served + 1, call |-> call, registration |-> Nil,
                   outcome |-> Nil, log |-> Nil]
<1>1. /\ UNCHANGED <<mode, registrations, request>>
      /\ served' = served + 1
      /\ HasClaim(call.token, "sub") => call.token.sub = Token[r].sub
  BY DEF Receive, world, policyVars
<1>2. seen' = [s \in Requests |-> seen'[s]]
  BY DEF Observe
<1>3. CASE UNCHANGED job
  <2>1. JobsOK'
    BY <1>1, <1>2, <1>3 DEF PublishInv, JobsOK
  <2>2. \A s \in Requests : Waiting(s)' => Checked(s)'
    BY <1>1, <1>3, UntouchedStaysChecked DEF PublishInv
  <2> QED
    BY <2>1, <2>2 DEF PublishInv
<1>4. CASE TokenOK(mode.auth, call.token, Scope, Now) /\ job' = [job EXCEPT ![r] = new]
  <2>1. /\ job' = [s \in Requests |-> job'[s]]
        /\ job'[r] = new
        /\ \A s \in Requests : s # r => job'[s] = job[s]
    BY <1>4 DEF PublishInv, JobsOK
  <2>2. mode.auth = "off" \/ call.token.sub = Token[r].sub
    BY <1>1, <1>4 DEF TokenOK
  <2>3. IsJob(new) /\ new.n = served + 1 /\ new.call = call /\ new.at = "gate"
    BY DEF IsJob
  <2> HIDE DEF new
  <2>4. JobsOK'
    BY <1>1, <1>2, <2>1, <2>2, <2>3 DEF PublishInv, JobsOK
  <2>5. ASSUME NEW s \in Requests, s # r, Waiting(s)'
        PROVE  Checked(s)'
    <3>1. job'[s] = job[s]
      BY <2>1, <2>5
    <3> QED
      BY <1>1, <2>5, <3>1, UntouchedStaysChecked DEF PublishInv
  <2>6. Checked(r)'
    BY <2>1, <2>3 DEF Checked
  <2> QED
    BY <2>4, <2>5, <2>6 DEF PublishInv
<1> QED
  BY <1>3, <1>4, Zenon DEF Receive

\* What happens around the requests touches none of them.
LEMMA AroundKeepsInv ==
  ASSUME PublishInv, Observe, UNCHANGED <<mode, served, job>>,
         request' = [s \in Requests |-> request'[s]],
         registrations' = Torn \/ registrations' \in Registered
  PROVE  PublishInv'
<1>1. JobsOK'
  BY DEF PublishInv, JobsOK, Observe
<1>2. \A s \in Requests : Waiting(s)' => Checked(s)'
  BY UntouchedStaysChecked DEF PublishInv
<1> QED
  BY <1>1, <1>2 DEF PublishInv

\* A restart forgets the requests.
LEMMA CrashKeepsInv ==
  ASSUME PublishInv, Observe, Crash
  PROVE  PublishInv'
<1>1. /\ job' = [r \in Requests |-> Nil]
      /\ request' = [r \in Requests |-> "idle"]
      /\ UNCHANGED <<mode, served, registrations>>
  BY DEF Crash, Reboot
<1>2. JobsOK'
  BY <1>1 DEF PublishInv, JobsOK, Observe
<1> QED
  BY <1>1, <1>2 DEF PublishInv, Waiting

\* Every step keeps the invariant.
LEMMA PublishNextKeepsInv ==
  ASSUME PublishInv, [Next]_pubVars
  PROVE  PublishInv'
<1>1. CASE Next
  <2>1. ASSUME NEW r \in Requests, NEW call \in Calls, Receive(r, call)
        PROVE  PublishInv'
    BY <1>1, <2>1, ReceiveKeepsInv DEF Next
  <2>2. ASSUME NEW r \in Requests, Handle(r)
        PROVE  PublishInv'
    BY <1>1, <2>2, HandleKeepsInv DEF Next
  <2>3. CASE ChangeSession \/ ChangeLink
    BY <1>1, <2>3, AroundKeepsInv
       DEF Next, ChangeSession, ChangeLink, Change, policyVars, PublishInv, JobsOK
  <2>4. CASE ChangeRegistrations
    BY <1>1, <2>4, AroundKeepsInv
       DEF Next, ChangeRegistrations, Change, policyVars, PublishInv, JobsOK
  <2>5. ASSUME NEW m \in Feed, Hear(m)
        PROVE  PublishInv'
    BY <1>1, <2>5, AroundKeepsInv DEF Next, Hear, Change, Ingest, PublishInv, JobsOK
  <2>6. CASE Crash
    BY <1>1, <2>6, CrashKeepsInv DEF Next
  <2> QED
    BY <1>1, <2>1, <2>2, <2>3, <2>4, <2>5, <2>6 DEF Next
<1>2. CASE UNCHANGED pubVars
  <2>1. UNCHANGED <<mode, served, registrations, job, request, seen>>
    BY <1>2 DEF pubVars, policyVars, world, bounds
  <2>2. JobsOK'
    BY <2>1 DEF PublishInv, JobsOK
  <2>3. ASSUME NEW r \in Requests, Waiting(r)'
        PROVE  Checked(r)'
    <3>1. Waiting(r) /\ Checked(r)
      BY <2>1, <2>3 DEF Waiting, PublishInv
    <3>2. Acceptable(r)' = Acceptable(r) /\ Sub(r)' = Sub(r)
      BY <2>1 DEF Acceptable, Publisher, ScopesOK, Sub
    <3> QED
      BY <2>1, <3>1, <3>2 DEF Checked
  <2> QED
    BY <2>2, <2>3 DEF PublishInv
<1> QED
  BY <1>1, <1>2

\* The invariant holds at the start.
LEMMA PublishInitInv ==
  ASSUME Init
  PROVE  PublishInv
<1>1. /\ job = [r \in Requests |-> Nil]
      /\ request = [r \in Requests |-> "idle"]
      /\ seen = [r \in Requests |-> {}]
      /\ served = 0 /\ registrations = FirstRegistered
  BY DEF Init
<1>2. JobsOK
  BY <1>1, RegisteredAssumption DEF JobsOK
<1> QED
  BY <1>1, <1>2 DEF PublishInv, Waiting

\* Each check a request has passed has seen its condition hold since the request
\* came in, whatever has changed since then.
THEOREM PublishInvariant == Spec => []PublishInv
<1> QED
  BY PublishInitInv, PublishNextKeepsInv, PTL DEF Spec

-----------------------------------------------------------------------------
(* What goes out.                                                          *)

\* A topic that a request comes to is a sequence of levels.
LEMMA TopicOfIsTopic ==
  ASSUME NEW call \in Calls
  PROVE  \E S : TopicOf(call) \in Seq(S)
<1>1. CASE TopicOf(call) = call.topic
  BY <1>1, CallsAssumption DEF IsTopic
<1>2. CASE TopicOf(call) = Append(Namespace(call.addon), call.type)
  <2> DEFINE S == {"synthia", "addons", call.addon, call.type}
  <2>1. Namespace(call.addon) \in Seq(S)
    BY DEF Namespace
  <2>2. TopicOf(call) \in Seq(S)
    BY <1>2, <2>1
  <2> QED
    BY <2>2
<1> QED
  BY <1>1, <1>2 DEF TopicOf

\* The code's matching of the scopes allows only what MQTT does.
LEMMA CoveredIsMqtt ==
  ASSUME NEW call \in Calls, NEW f \in Registered, NEW a \in Addons, f[a] # Nil,
         CoveredBy(TopicOf(call), f[a].scopes)
  PROVE  \E s \in f[a].scopes : MqttMatches(s, TopicOf(call))
<1>1. PICK s \in f[a].scopes : Matches(s, TopicOf(call))
  BY DEF CoveredBy
<1>2. IsTopic(s) /\ s # <<>>
  BY RegisteredAssumption
<1>3. PICK S : TopicOf(call) \in Seq(S)
  BY TopicOfIsTopic
<1> DEFINE T == S \cup {s[i] : i \in DOMAIN s}
<1>4. TopicOf(call) \in Seq(T) /\ s \in Seq(T)
  <2>1. S \subseteq T /\ {s[i] : i \in DOMAIN s} \subseteq T
    OBVIOUS
  <2> HIDE DEF T
  <2>2. TopicOf(call) \in Seq(T)
    BY <1>3, <2>1, SeqMonotonic
  <2>3. s \in Seq(T)
    BY <1>2, <2>1, SeqMonotonic DEF IsTopic
  <2> QED
    BY <2>2, <2>3
<1> HIDE DEF T
<1>5. MqttMatches(s, TopicOf(call))
  BY <1>1, <1>2, <1>4, MatchesIsMqtt
<1> QED
  BY <1>5

\* The topic of a Home Assistant sensor is outside the platform's namespaces.
LEMMA SensorTopicNotReserved ==
  ASSUME NEW call \in Calls, call.op = "sensor"
  PROVE  ~IsReserved(TopicOf(call))
<1>1. TopicOf(call) = call.topic /\ call.topic[1] = "homeassistant"
  BY CallsAssumption DEF TopicOf
<1>2. PICK S : TopicOf(call) \in Seq(S)
  BY TopicOfIsTopic
<1> SUFFICES ASSUME NEW x \in Reserved, Under(TopicOf(call), <<"synthia", x>>)
             PROVE  FALSE
  BY DEF IsReserved
<1>3. SubSeq(TopicOf(call), 1, 2) = <<"synthia", x>> /\ Len(TopicOf(call)) > 2
  BY DEF Under
<1>4. SubSeq(TopicOf(call), 1, 2)[1] = TopicOf(call)[1]
  BY <1>2, <1>3
<1>5. <<"synthia", x>>[1] = "synthia"
  OBVIOUS
<1>6. TopicOf(call)[1] = "synthia"
  BY <1>3, <1>4, <1>5
<1>7. TopicOf(call)[1] = "homeassistant"
  BY <1>1
<1> QED
  BY <1>6, <1>7

\* Only a request at its send hands a message over, one with its own number.
LEMMA OnlySendHandsOver ==
  ASSUME [Next]_pubVars
  PROVE  \/ handed' = handed
         \/ \E r \in Requests : At(r, "send") /\ handed' = handed \cup {Message(r)}
<1>1. CASE UNCHANGED pubVars
  BY <1>1 DEF pubVars, effects
<1>2. ASSUME NEW r \in Requests, NEW call \in Calls, Receive(r, call)
      PROVE  handed' = handed
  BY <1>2, Zenon DEF Receive
<1>3. ASSUME NEW r \in Requests, Handle(r)
      PROVE  \/ handed' = handed
             \/ At(r, "send") /\ handed' = handed \cup {Message(r)}
  <2>1. CASE Send(r)
    BY <2>1, Zenon DEF Send
  <2>2. CASE ~Send(r)
    BY <1>3, <2>2 DEF Handle, CheckGate, AuthorizeToken, AuthorizeGrant, LookUp, Decide,
         ReadTraces, OpenTraces, FillTraces, Finish, Fail, effects
  <2> QED
    BY <2>1, <2>2
<1>4. CASE Crash \/ ChangeSession \/ ChangeRegistrations \/ ChangeLink \/ \E m \in Feed : Hear(m)
  BY <1>4 DEF Crash, ChangeSession, ChangeRegistrations, ChangeLink, Hear, Change, effects
<1> QED
  BY <1>1, <1>2, <1>3, <1>4, Zenon DEF Next

\* A request at its send has met every condition, and its message is its own.
LEMMA ReadyToSend ==
  ASSUME PublishInv, NEW r \in Requests, At(r, "send")
  PROVE  LET m == Message(r) IN
         /\ Conditions \subseteq seen[r]
         /\ ~IsReserved(m.topic)
         /\ job[r].call.op # "sensor" /\ Publisher(r) # Anonymous =>
              Under(m.topic, Namespace(Publisher(r)))
         /\ job[r].call.op \in {"publish", "gateway"} /\ IsPlatform(m.topic) =>
              {"type", "source_addon_id", "timestamp", "data"} \subseteq DOMAIN m.payload
<1> DEFINE call == job[r].call
<1>1. /\ job[r].at = "send" /\ call \in Calls
      /\ Checked(r) /\ Acceptable(r)
  <2>1. job[r] # Nil /\ Waiting(r)
    BY DEF At, Waiting
  <2> QED
    BY <2>1 DEF PublishInv, JobsOK, Checked, At
<1>2. Message(r).topic = TopicOf(call) /\ Message(r).payload = PayloadOf(call)
  BY DEF Message
<1>3. "registered" \in seen[r]
  <2>1. CASE call.op = "publish"
    BY <1>1, <2>1 DEF Checked
  <2>2. CASE call.op # "publish"
    <3>1. PICK f \in Registered, a \in Addons : job[r].registration = f[a] /\ f[a] # Nil
      BY <1>1, <2>2 DEF Checked
    <3>2. call.op \in {"sensor", "state"} => job[r].registration.ha
      BY <1>1 DEF Acceptable
    <3>3. call.op = "gateway" =>
            \E s \in job[r].registration.scopes : MqttMatches(s, TopicOf(call))
      BY <1>1, <3>1, CoveredIsMqtt DEF Acceptable, ScopesOK
    <3>4. LetsThrough(job[r].registration, call)
      BY <3>1, <3>2, <3>3 DEF LetsThrough
    <3> QED
      BY <1>1, <2>2, <3>4 DEF Checked
  <2> QED
    BY <2>1, <2>2
<1>4. Conditions \subseteq seen[r]
  BY <1>1, <1>3 DEF Checked, Conditions
<1>5. call.op # "sensor" => PublishTopicOK(TopicOf(call), Publisher(r))
  BY <1>1 DEF Acceptable
<1>6. ~IsReserved(TopicOf(call))
  BY <1>1, <1>5, SensorTopicNotReserved DEF PublishTopicOK
<1>7. call.op # "sensor" /\ Publisher(r) # Anonymous =>
        Under(TopicOf(call), Namespace(Publisher(r)))
  BY <1>5 DEF PublishTopicOK
<1>8. call.op \in {"publish", "gateway"} /\ IsPlatform(TopicOf(call)) =>
        {"type", "source_addon_id", "timestamp", "data"} \subseteq DOMAIN PayloadOf(call)
  BY <1>1 DEF Acceptable, EnvelopeOK, HasText
<1> QED
  BY <1>2, <1>4, <1>6, <1>7, <1>8

\* A message goes out only for a request that met every condition while it was
\* under way, on a topic of its own addon that is not reserved, and with an
\* envelope where the platform asks for one.
THEOREM SendsWhileAllowed == Spec => SentWhileAllowed
<1>1. ASSUME PublishInv, [Next]_pubVars
      PROVE  \A r \in Requests : At(r, "send") =>
               \A m \in handed' \ handed : m.n = job[r].n => m = Message(r)
  <2> SUFFICES ASSUME NEW r \in Requests, At(r, "send"),
                      NEW m \in handed' \ handed, m.n = job[r].n
               PROVE  m = Message(r)
    OBVIOUS
  <2>1. PICK s \in Requests : At(s, "send") /\ handed' = handed \cup {Message(s)}
    BY <1>1, OnlySendHandsOver
  <2>2. m = Message(s) /\ m.n = job[s].n
    BY <2>1 DEF Message
  <2>3. r = s
    BY <1>1, <2>1, <2>2 DEF At, PublishInv, JobsOK
  <2> QED
    BY <2>2, <2>3
<1>2. PublishInv /\ [Next]_pubVars =>
        [\A r \in Requests : At(r, "send") =>
           \A m \in handed' \ handed : m.n = job[r].n =>
             /\ Conditions \subseteq seen[r]
             /\ ~IsReserved(m.topic)
             /\ job[r].call.op # "sensor" /\ Publisher(r) # Anonymous =>
                  Under(m.topic, Namespace(Publisher(r)))
             /\ job[r].call.op \in {"publish", "gateway"} /\ IsPlatform(m.topic) =>
                  {"type", "source_addon_id", "timestamp", "data"} \subseteq DOMAIN m.payload]_pubVars
  BY <1>1, ReadyToSend
<1> QED
  BY <1>2, PublishInvariant, PTL DEF Spec, SentWhileAllowed

-----------------------------------------------------------------------------
(* What a request comes to: its message, its trace, its usage, its answer. *)

Out(n) == \E m \in handed : m.n = n

\* Until it is answered, a request has no usage, and no trace before its last
\* step; its message is out if its outcome is clear and not a refusal.
Fate(r) ==
  /\ answers[job[r].n] = Nil /\ job[r].n \notin usage
  /\ Traced(job[r].n) = IF job[r].at = "answer" THEN {job[r].outcome} ELSE {}
  /\ Waiting(r) => ~Out(job[r].n)
  /\ ~Waiting(r) => /\ job[r].outcome \in Outcomes
                    /\ Out(job[r].n) <=> job[r].outcome # "denied"

Agrees(n) ==
  /\ answers[n] = "ok" => Out(n) /\ n \in usage /\ Traced(n) = {"success"}
  /\ answers[n] = "4xx" => ~Out(n) /\ Traced(n) = {"denied"}
  /\ answers[n] \in {"401", "422"} => ~Out(n) /\ Traced(n) = {}
  /\ n \in usage => answers[n] = "ok"
  /\ Traced(n) \cap {"success", "error"} # {} => Out(n)

Untold(n) ==
  /\ ~Out(n) /\ n \notin usage /\ Traced(n) = {}
  /\ n <= MaxRequests => answers[n] = Nil

HeardOK ==
  /\ heard \in Seq([n : Nat, entry : Entries])
  /\ \A i \in DOMAIN heard : heard[i].n > 0 <=> heard[i].entry.op \in Ops

FateInv ==
  /\ HeardOK
  /\ \A r \in Requests : job[r] # Nil => Fate(r)
  /\ \A n \in 1..served : Agrees(n)
  /\ \A n \in Nat : n > served => Untold(n)
  /\ served <= MaxRequests /\ DOMAIN answers = 1..MaxRequests

\* A step that says nothing about n.
Fixed(n) ==
  /\ (\E m \in handed' : m.n = n) <=> Out(n)
  /\ n \in usage' <=> n \in usage
  /\ Traced(n)' = Traced(n)
  /\ n \in DOMAIN answers => answers'[n] = answers[n]

\* The effects of a step of request k.
EffectsOf(k) ==
  /\ handed' = handed \/ \E m : m.n = k /\ handed' = handed \cup {m}
  /\ usage' = usage \/ usage' = usage \cup {k}
  /\ answers' = answers \/ \E x : answers' = [answers EXCEPT ![k] = x]
  /\ heard' = heard \/ \E x \in [n : Nat, entry : Entries] : x.n = k /\ heard' = Append(heard, x)

\* What is traced of a request after an append.
LEMMA TracedAppended ==
  ASSUME HeardOK, NEW x \in [n : Nat, entry : Entries], heard' = Append(heard, x), NEW k \in Nat
  PROVE  Traced(k)' = Traced(k) \cup (IF x.n = k THEN {x.entry.outcome} ELSE {})
<1> DEFINE H == [n : Nat, entry : Entries]
<1>1. heard \in Seq(H)
  BY DEF HeardOK
<1> HIDE DEF H
<1>2. /\ DOMAIN heard = 1..Len(heard) /\ Len(heard) \in Nat
      /\ DOMAIN heard' = 1..(Len(heard) + 1)
      /\ \A i \in DOMAIN heard : heard'[i] = heard[i]
      /\ heard'[Len(heard) + 1] = x
  <2>1. x \in H
    BY DEF H
  <2> QED
    BY <1>1, <2>1
<1>3. \A i : i \in DOMAIN heard' <=> i \in DOMAIN heard \/ i = Len(heard) + 1
  BY <1>2
<1>4. Traced(k)' = {heard'[i].entry.outcome : i \in {j \in DOMAIN heard' : heard'[j].n = k}}
  BY DEF Traced
<1>5. Traced(k) = {heard[i].entry.outcome : i \in {j \in DOMAIN heard : heard[j].n = k}}
  BY DEF Traced
<1>6. CASE x.n = k
  BY <1>2, <1>3, <1>4, <1>5, <1>6
<1>7. CASE x.n # k
  BY <1>2, <1>3, <1>4, <1>5, <1>7
<1> QED
  BY <1>6, <1>7

\* The effects of one request are about no other.
LEMMA OtherFixed ==
  ASSUME HeardOK, NEW k \in Nat, EffectsOf(k)
  PROVE  /\ \A n \in Nat : n # k => Fixed(n)
         /\ DOMAIN answers' = DOMAIN answers
<1>1. DOMAIN answers' = DOMAIN answers
  BY DEF EffectsOf
<1>2. ASSUME NEW n \in Nat, n # k
      PROVE  Fixed(n)
  <2>1. (\E m \in handed' : m.n = n) <=> Out(n)
    BY <1>2 DEF EffectsOf, Out
  <2>2. n \in usage' <=> n \in usage
    BY <1>2 DEF EffectsOf
  <2>3. n \in DOMAIN answers => answers'[n] = answers[n]
    BY <1>2 DEF EffectsOf
  <2>4. Traced(n)' = Traced(n)
    <3>1. CASE heard' = heard
      BY <3>1 DEF Traced
    <3>2. CASE \E x \in [n : Nat, entry : Entries] : x.n = k /\ heard' = Append(heard, x)
      BY <1>2, <3>2, TracedAppended
    <3> QED
      BY <3>1, <3>2 DEF EffectsOf
  <2> QED
    BY <2>1, <2>2, <2>3, <2>4 DEF Fixed
<1> QED
  BY <1>1, <1>2

\* A step of one request keeps the invariant if it does so for that request.
LEMMA OthersAgree ==
  ASSUME JobsOK, FateInv, HeardOK', NEW r \in Requests, NEW k \in Nat,
         job[r] # Nil, k = job[r].n, JobStep(r), served' = served,
         EffectsOf(k), Agrees(k)', job'[r] # Nil => Fate(r)'
  PROVE  FateInv'
<1>1. /\ \A n \in Nat : n # k => Fixed(n)
      /\ DOMAIN answers' = DOMAIN answers
  BY OtherFixed DEF FateInv
<1>2. k \in 1..served /\ served \in Nat
  BY DEF JobsOK
<1>3. \A n \in 1..served : n \in DOMAIN answers
  BY <1>2, PublishBounds DEF FateInv
<1>4. ASSUME NEW s \in Requests, job'[s] # Nil
      PROVE  Fate(s)'
  <2>1. CASE s = r
    BY <1>4, <2>1
  <2>2. CASE s # r
    <3>1. job'[s] = job[s]
      BY <2>2 DEF JobStep
    <3>2. PICK n \in 1..served : n = job[s].n /\ n # k
      BY <1>4, <2>2, <3>1 DEF JobsOK
    <3>3. Fate(s) /\ Fixed(n) /\ n \in DOMAIN answers
      BY <1>1, <1>2, <1>4, <1>3, <3>1, <3>2 DEF FateInv
    <3>4. Waiting(s)' <=> Waiting(s)
      BY <3>1 DEF Waiting
    <3>5. /\ answers[n] = Nil /\ n \notin usage
          /\ Traced(n) = IF job[s].at = "answer" THEN {job[s].outcome} ELSE {}
          /\ Waiting(s) => ~Out(n)
          /\ ~Waiting(s) => job[s].outcome \in Outcomes /\ (Out(n) <=> job[s].outcome # "denied")
      BY <3>2, <3>3 DEF Fate
    <3>6. /\ answers'[n] = Nil /\ n \notin usage'
          /\ Traced(n)' = IF job[s].at = "answer" THEN {job[s].outcome} ELSE {}
          /\ Out(n)' <=> Out(n)
      BY <3>3, <3>5 DEF Fixed, Out
    <3>7. job'[s].n = n
      BY <3>1, <3>2
    <3> QED
      BY ONLY <3>1, <3>4, <3>5, <3>6, <3>7 DEF Fate
  <2> QED
    BY <2>1, <2>2
<1>5. ASSUME NEW n \in 1..served
      PROVE  Agrees(n)'
  <2>1. CASE n = k
    BY <2>1
  <2>2. CASE n # k
    <3>1. Agrees(n) /\ Fixed(n) /\ n \in DOMAIN answers
      BY <1>1, <1>2, <1>3, <2>2 DEF FateInv
    <3>2. Out(n)' <=> Out(n)
      BY <3>1 DEF Fixed, Out
    <3> QED
      BY <3>1, <3>2 DEF Fixed, Agrees
  <2> QED
    BY <2>1, <2>2
<1>6. ASSUME NEW n \in Nat, n > served
      PROVE  Untold(n)'
  <2>1. Untold(n) /\ Fixed(n)
    BY <1>1, <1>2, <1>6 DEF FateInv
  <2>2. Out(n)' <=> Out(n)
    BY <2>1 DEF Fixed, Out
  <2>3. n <= MaxRequests => n \in DOMAIN answers
    BY <1>2, <1>6, PublishBounds DEF FateInv
  <2> QED
    BY <2>1, <2>2, <2>3 DEF Fixed, Untold
<1> QED
  BY <1>1, <1>4, <1>5, <1>6 DEF FateInv

\* What the invariant says of a request under way, by its number.
LEMMA OwnFate ==
  ASSUME JobsOK, FateInv, NEW r \in Requests, job[r] # Nil, NEW k, k = job[r].n
  PROVE  /\ k \in 1..served /\ k \in Nat \ {0} /\ k \in DOMAIN answers
         /\ answers[k] = Nil /\ k \notin usage
         /\ Traced(k) = IF job[r].at = "answer" THEN {job[r].outcome} ELSE {}
         /\ Waiting(r) => ~Out(k)
         /\ ~Waiting(r) => job[r].outcome \in Outcomes /\ (Out(k) <=> job[r].outcome # "denied")
<1>1. k \in 1..served /\ k \in Nat \ {0} /\ k \in DOMAIN answers
  BY PublishBounds DEF JobsOK, FateInv
<1>2. Fate(r)
  BY DEF FateInv
<1> QED
  BY <1>1, <1>2 DEF Fate

\* What a check leaves of its request, if it does not end it.
Undecided(r) ==
  /\ job'[r].n = job[r].n
  /\ \/ job'[r].at \in {"gate", "token", "grant", "registration", "decide", "send"}
     \/ job'[r].at = "trace" /\ job'[r].outcome = "denied"

\* A check lets the request wait for the next one, refuses it, or ends it.
LEMMA CheckingOutcome ==
  ASSUME JobsOK, NEW r \in Requests, Checking(r)
  PROVE  /\ job[r] # Nil
         /\ UNCHANGED <<served, handed, usage, heard, traces, spoiled>>
         /\ \/ UNCHANGED answers /\ Undecided(r)
            \/ /\ job'[r] = Nil
               /\ \E x \in {"422", "500"} : answers' = [answers EXCEPT ![job[r].n] = x]
<1>1. job[r] # Nil
  BY DEF Checking, CheckGate, AuthorizeToken, AuthorizeGrant, LookUp, Decide, At
<1>2. UNCHANGED <<served, handed, usage, heard, traces, spoiled>>
  BY DEF Checking, CheckGate, AuthorizeToken, AuthorizeGrant, LookUp, Decide,
         world, bounds, effects, record
<1>3. ASSUME NEW step \in {"token", "grant", "registration", "decide", "send"}, Move(r, step)
      PROVE  Undecided(r)
  <2>1. step \in Steps
    BY DEF Steps
  <2>2. job'[r] = [at |-> step, n |-> job[r].n, call |-> job[r].call,
                   registration |-> job[r].registration,
                   outcome |-> job[r].outcome, log |-> job[r].log]
    BY <1>1, <1>3, <2>1, MoveFields
  <2>3. job'[r].at = step /\ job'[r].n = job[r].n
    BY <2>2
  <2> QED
    BY <2>3 DEF Undecided
<1>4. ASSUME Deny(r)
      PROVE  Undecided(r)
  BY <1>1, <1>4, OutcomeFields DEF Deny, Undecided
<1>5. ASSUME Authorized(r)
      PROVE  Undecided(r)
  BY <1>1, <1>3, <1>5 DEF Authorized
<1>6. ASSUME NEW x, Reply(r, x)
      PROVE  job'[r] = Nil /\ answers' = [answers EXCEPT ![job[r].n] = x]
  BY <1>6, ReplyFields DEF Reply
<1>7. CASE CheckGate(r)
  BY <1>1, <1>2, <1>3, <1>4, <1>6, <1>7 DEF CheckGate
<1>8. CASE AuthorizeToken(r)
  BY <1>1, <1>2, <1>3, <1>4, <1>5, <1>8 DEF AuthorizeToken, effects
<1>9. CASE AuthorizeGrant(r)
  BY <1>1, <1>2, <1>4, <1>5, <1>9 DEF AuthorizeGrant, effects
<1>10. CASE LookUp(r)
  <2> DEFINE found == Registration(job[r].call.addon)
  <2>1. UNCHANGED answers
    BY <1>10 DEF LookUp, effects
  <2>2. CASE Deny(r)
    BY <1>1, <1>2, <1>4, <2>1, <2>2
  <2>3. CASE job' = [job EXCEPT ![r].at = "decide", ![r].registration = found]
    <3>1. job[r] = [at |-> job[r].at, n |-> job[r].n, call |-> job[r].call,
                    registration |-> job[r].registration,
                    outcome |-> job[r].outcome, log |-> job[r].log]
      BY <1>1 DEF JobsOK, IsJob
    <3> HIDE DEF found
    <3>2. job'[r] = [[job[r] EXCEPT !.at = "decide"] EXCEPT !.registration = found]
      BY <2>3 DEF JobsOK
    <3>3. job'[r] = [at |-> "decide", n |-> job[r].n, call |-> job[r].call,
                     registration |-> found,
                     outcome |-> job[r].outcome, log |-> job[r].log]
      BY <3>1, <3>2
    <3>4. job'[r].at = "decide" /\ job'[r].n = job[r].n
      BY <3>3
    <3> QED
      BY <1>1, <1>2, <2>1, <3>4 DEF Undecided
  <2> QED
    BY <1>10, <2>2, <2>3 DEF LookUp
<1>11. CASE Decide(r)
  BY <1>1, <1>2, <1>3, <1>4, <1>6, <1>11 DEF Decide
<1> QED
  BY <1>7, <1>8, <1>9, <1>10, <1>11 DEF Checking

\* A check leaves no message, trace or usage of its request.
LEMMA CheckingKeepsFate ==
  ASSUME JobsOK, FateInv, NEW r \in Requests, Checking(r)
  PROVE  FateInv'
<1>1. job[r] # Nil /\ JobStep(r) /\ Waiting(r)
  BY CheckingFields, CheckingOutcome
<1>2. PICK k \in Nat : k = job[r].n
  BY <1>1, OwnFate
<1>3. /\ k \in DOMAIN answers /\ answers[k] = Nil /\ k \notin usage
      /\ Traced(k) = {} /\ ~Out(k)
  BY <1>1, <1>2, OwnFate DEF Waiting
<1>4. UNCHANGED <<served, handed, usage, heard>>
  BY CheckingOutcome
<1>5. Traced(k)' = {} /\ ~Out(k)' /\ k \notin usage' /\ HeardOK'
  BY <1>3, <1>4 DEF Traced, Out, HeardOK, FateInv
<1>6. CASE UNCHANGED answers /\ Undecided(r)
  <2>1. EffectsOf(k)
    BY <1>4, <1>6 DEF EffectsOf
  <2>2. Agrees(k)'
    BY <1>3, <1>5, <1>6, OutcomesAssumption DEF Agrees, Answers
  <2>3. ASSUME job'[r] # Nil
        PROVE  Fate(r)'
    <3>1. job'[r].n = k
      BY <1>2, <1>6 DEF Undecided
    <3>2. job'[r].at # "answer"
      BY <1>6 DEF Undecided
    <3>3. ~Waiting(r)' => job'[r].outcome = "denied"
      BY <1>6, <2>3 DEF Undecided, Waiting
    <3> QED
      BY <1>3, <1>5, <1>6, <3>1, <3>2, <3>3 DEF Fate, Outcomes, Out
  <2> QED
    BY <1>1, <1>2, <1>4, <1>5, <2>1, <2>2, <2>3, OthersAgree
<1>7. ASSUME NEW x \in {"422", "500"}, job'[r] = Nil, answers' = [answers EXCEPT ![k] = x]
      PROVE  FateInv'
  <2>1. EffectsOf(k)
    BY <1>4, <1>7 DEF EffectsOf
  <2>2. Agrees(k)'
    <3>1. answers'[k] = x
      BY <1>3, <1>7
    <3> QED
      BY <1>5, <1>7, <3>1 DEF Agrees
  <2> QED
    BY <1>1, <1>2, <1>4, <1>5, <1>7, <2>1, <2>2, OthersAgree
<1> QED
  BY <1>2, <1>6, <1>7, CheckingOutcome

\* A message that goes out makes the outcome clear.
LEMMA SendKeepsFate ==
  ASSUME JobsOK, FateInv, NEW r \in Requests, Send(r)
  PROVE  FateInv'
<1>1. /\ job[r] # Nil /\ JobStep(r) /\ Waiting(r)
      /\ UNCHANGED <<served, usage, heard>>
  BY TellingFields DEF Send, At, Waiting, Telling, bounds, record
<1>2. PICK k \in Nat : k = job[r].n
  BY <1>1, OwnFate
<1>3. /\ k \in DOMAIN answers /\ answers[k] = Nil /\ k \notin usage
      /\ Traced(k) = {} /\ ~Out(k)
  BY <1>1, <1>2, OwnFate DEF Waiting
<1>4. Traced(k)' = {} /\ k \notin usage' /\ HeardOK'
  BY <1>1, <1>3 DEF Traced, HeardOK, FateInv
<1>5. CASE Reply(r, "500") /\ UNCHANGED handed
  <2>1. job'[r] = Nil /\ answers' = [answers EXCEPT ![k] = "500"]
    BY <1>2, <1>5, ReplyFields DEF Reply
  <2>2. EffectsOf(k)
    BY <1>1, <1>5, <2>1 DEF EffectsOf
  <2>3. Agrees(k)'
    <3>1. answers'[k] = "500"
      BY <1>3, <2>1
    <3> QED
      BY <1>4, <3>1 DEF Agrees
  <2> QED
    BY <1>1, <1>2, <1>4, <2>1, <2>2, <2>3, OthersAgree
<1>6. CASE /\ handed' = handed \cup {Message(r)}
           /\ Outcome(r, IF online THEN "success" ELSE "error")
           /\ UNCHANGED answers
  <2> DEFINE m == Message(r)
  <2>1. m.n = k
    BY <1>2 DEF Message
  <2> HIDE DEF m
  <2>2. handed' = handed \cup {m}
    BY <1>6 DEF m
  <2>3. EffectsOf(k)
    BY <1>1, <1>6, <2>1, <2>2 DEF EffectsOf
  <2>4. Out(k)'
    BY <2>1, <2>2 DEF Out
  <2>5. Agrees(k)'
    BY <1>3, <1>4, <1>6, OutcomesAssumption DEF Agrees, Answers
  <2>6. ASSUME job'[r] # Nil
        PROVE  Fate(r)'
    <3>1. PICK outcome \in {"success", "error"} :
            job'[r].at = "trace" /\ job'[r].n = k /\ job'[r].outcome = outcome
      BY <1>1, <1>2, <1>6, OutcomeFields
    <3>2. ~Waiting(r)'
      BY <3>1 DEF Waiting
    <3> QED
      BY <1>3, <1>4, <1>6, <2>4, <3>1, <3>2 DEF Fate, Outcomes, Out
  <2> QED
    BY <1>1, <1>2, <1>4, <2>3, <2>5, <2>6, OthersAgree
<1> QED
  BY <1>5, <1>6 DEF Send

\* The entry of a request whose outcome is clear.
LEMMA EntryIsEntry ==
  ASSUME JobsOK, NEW r \in Requests, job[r] # Nil, job[r].outcome \in Outcomes
  PROVE  /\ Entry(r) \in Entries
         /\ Entry(r).op \in Ops /\ Entry(r).outcome = job[r].outcome
<1>1. job[r].call \in Calls /\ job[r].call.op \in Ops
  BY CallsAssumption DEF JobsOK
<1>2. Publisher(r) \in Publishers
  <2>1. CASE job[r].call.op = "publish"
    <3>1. Token[r].sub \in Consumers
      BY TokenAssumption
    <3>2. Sub(r) \in Consumers \cup {Anonymous}
      BY <3>1 DEF JobsOK, Sub, Subject, Anonymous
    <3> QED
      BY <2>1, <3>2 DEF Publisher, Publishers
  <2>2. CASE job[r].call.op # "publish"
    BY <1>1, <2>2, CallsAssumption DEF Publisher, Publishers
  <2> QED
    BY <2>1, <2>2
<1>3. Entry(r) = [op |-> job[r].call.op, addon |-> Publisher(r), outcome |-> job[r].outcome]
  BY DEF Entry
<1> QED
  BY <1>1, <1>2, <1>3 DEF Entries

\* A request that reads the trace file keeps what it came to.
LEMMA ReadFields ==
  ASSUME JobsOK, NEW r \in Requests, ReadTraces(r)
  PROVE  /\ job[r] # Nil /\ JobStep(r)
         /\ job'[r].at = "save trace" /\ job'[r].n = job[r].n
         /\ job'[r].outcome = job[r].outcome /\ job'[r].log = Loaded(traces)
<1>1. /\ job[r] = [at |-> job[r].at, n |-> job[r].n, call |-> job[r].call,
                   registration |-> job[r].registration,
                   outcome |-> job[r].outcome, log |-> job[r].log]
      /\ job[r] # Nil
  BY DEF ReadTraces, At, JobsOK, IsJob
<1>2. PICK step : step = "save trace"
  OBVIOUS
<1>3. job'[r] = [[job[r] EXCEPT !.at = step] EXCEPT !.log = Loaded(traces)]
  BY <1>2 DEF ReadTraces, JobsOK
<1>4. job'[r] = [at |-> step, n |-> job[r].n, call |-> job[r].call,
                 registration |-> job[r].registration,
                 outcome |-> job[r].outcome, log |-> Loaded(traces)]
  BY <1>1, <1>3
<1>5. /\ job'[r].at = step /\ job'[r].n = job[r].n
      /\ job'[r].outcome = job[r].outcome /\ job'[r].log = Loaded(traces)
  BY <1>4
<1>6. JobStep(r)
  BY TellingFields DEF Telling
<1> QED
  BY <1>1, <1>2, <1>5, <1>6

\* So does one that goes on to another step.
LEMMA MoveKeeps ==
  ASSUME JobsOK, NEW r \in Requests, job[r] # Nil, NEW step \in Steps, Move(r, step)
  PROVE  /\ JobStep(r)
         /\ job'[r].at = step /\ job'[r].n = job[r].n
         /\ job'[r].outcome = job[r].outcome /\ job'[r].log = job[r].log
<1>1. /\ JobStep(r)
      /\ job'[r] = [at |-> step, n |-> job[r].n, call |-> job[r].call,
                    registration |-> job[r].registration,
                    outcome |-> job[r].outcome, log |-> job[r].log]
  BY MoveFields
<1>2. /\ job'[r].at = step /\ job'[r].n = job[r].n
      /\ job'[r].outcome = job[r].outcome /\ job'[r].log = job[r].log
  BY <1>1
<1> QED
  BY <1>1, <1>2

\* Such as one that empties the file, or fills it again.
LEMMA WriteFields ==
  ASSUME JobsOK, NEW r \in Requests, OpenTraces(r) \/ FillTraces(r)
  PROVE  /\ job[r] # Nil /\ JobStep(r)
         /\ job'[r].at = IF job[r].at = "save trace" THEN "fill trace" ELSE "answer"
         /\ job'[r].n = job[r].n
         /\ job'[r].outcome = job[r].outcome /\ job'[r].log = job[r].log
<1>1. /\ job[r] # Nil
      /\ \/ job[r].at = "save trace" /\ Move(r, "fill trace")
         \/ job[r].at = "fill trace" /\ Move(r, "answer")
  BY DEF OpenTraces, FillTraces, At
<1>2. "fill trace" \in Steps /\ "answer" \in Steps
  BY DEF Steps
<1> QED
  BY <1>1, <1>2, MoveKeeps

\* Before the trace is written it says nothing.
LEMMA OpeningKeepsFate ==
  ASSUME JobsOK, FateInv, NEW r \in Requests, ReadTraces(r) \/ OpenTraces(r)
  PROVE  FateInv'
<1>1. /\ job[r] # Nil /\ JobStep(r) /\ job[r].at \in {"trace", "save trace"}
      /\ job'[r].at \in {"save trace", "fill trace"}
      /\ job'[r].n = job[r].n /\ job'[r].outcome = job[r].outcome
  BY ReadFields, WriteFields DEF ReadTraces, OpenTraces, At
<1>2. UNCHANGED <<served, handed, usage, answers, heard>>
  BY DEF ReadTraces, OpenTraces, bounds, effects, record
<1>3. PICK k \in Nat : k = job[r].n
  BY <1>1, OwnFate
<1>4. ~Waiting(r)
  BY <1>1 DEF Waiting
<1>5. /\ answers[k] = Nil /\ k \notin usage /\ Traced(k) = {}
      /\ job[r].outcome \in Outcomes /\ (Out(k) <=> job[r].outcome # "denied")
  BY <1>1, <1>3, <1>4, OwnFate
<1>6. EffectsOf(k) /\ HeardOK'
  BY <1>2 DEF EffectsOf, HeardOK, FateInv
<1>7. Traced(k)' = {} /\ (Out(k)' <=> Out(k))
  BY <1>2, <1>5 DEF Traced, Out
<1>8. Agrees(k)'
  BY <1>2, <1>5, <1>7, OutcomesAssumption DEF Agrees, Answers
<1>9. Fate(r)'
  <2>1. ~Waiting(r)' /\ job'[r].at # "answer" /\ job'[r].n = k
    BY <1>1, <1>3 DEF Waiting
  <2> QED
    BY <1>1, <1>2, <1>5, <1>7, <2>1 DEF Fate, Out
<1> QED
  BY <1>1, <1>2, <1>3, <1>6, <1>8, <1>9, OthersAgree

\* The trace says what the request came to.
LEMMA FillKeepsFate ==
  ASSUME JobsOK, FateInv, NEW r \in Requests, FillTraces(r)
  PROVE  FateInv'
<1>1. /\ job[r] # Nil /\ JobStep(r) /\ job[r].at = "fill trace"
      /\ job'[r].at = "answer"
      /\ job'[r].n = job[r].n /\ job'[r].outcome = job[r].outcome
  BY WriteFields DEF FillTraces, At
<1>2. UNCHANGED <<served, handed, usage, answers>>
  BY DEF FillTraces, bounds, effects
<1>3. PICK k \in Nat \ {0} : k = job[r].n
  BY <1>1, OwnFate
<1>4. ~Waiting(r)
  BY <1>1 DEF Waiting
<1>5. /\ answers[k] = Nil /\ k \notin usage /\ Traced(k) = {}
      /\ job[r].outcome \in Outcomes /\ (Out(k) <=> job[r].outcome # "denied")
  BY <1>1, <1>3, <1>4, OwnFate
<1>6. PICK x : x = [n |-> job[r].n, entry |-> Entry(r)]
  OBVIOUS
<1>7. /\ x \in [n : Nat, entry : Entries] /\ x.n = k /\ x.entry.op \in Ops
      /\ x.entry.outcome = job[r].outcome
      /\ heard' = Append(heard, x)
  BY <1>1, <1>3, <1>5, <1>6, EntryIsEntry DEF FillTraces
<1>8. EffectsOf(k)
  BY <1>2, <1>7 DEF EffectsOf
<1>9. HeardOK'
  <2> DEFINE H == [n : Nat, entry : Entries]
  <2>1. heard \in Seq(H) /\ x \in H
    BY <1>7 DEF FateInv, HeardOK
  <2> HIDE DEF H
  <2>2. heard' \in Seq(H)
    BY <1>7, <2>1
  <2>3. ASSUME NEW i \in DOMAIN heard'
        PROVE  heard'[i].n > 0 <=> heard'[i].entry.op \in Ops
    <3>1. \/ i \in DOMAIN heard /\ heard'[i] = heard[i]
          \/ heard'[i] = x
      BY <1>7, <2>1, <2>3
    <3> QED
      BY <1>3, <1>7, <3>1 DEF FateInv, HeardOK
  <2> QED
    BY <2>2, <2>3 DEF H, HeardOK
<1>10. Traced(k)' = {job[r].outcome}
  BY <1>5, <1>7, TracedAppended DEF FateInv
<1>11. Out(k)' <=> Out(k)
  BY <1>2 DEF Out
<1>12. Agrees(k)'
  BY <1>2, <1>5, <1>10, <1>11, OutcomesAssumption DEF Agrees, Answers
<1>13. Fate(r)'
  <2>1. ~Waiting(r)' /\ job'[r].n = k
    BY <1>1, <1>3 DEF Waiting
  <2> QED
    BY <1>1, <1>2, <1>5, <1>10, <1>11, <2>1 DEF Fate, Out
<1> QED
  BY <1>1, <1>2, <1>3, <1>8, <1>9, <1>12, <1>13, OthersAgree

\* The answer and the usage follow from the outcome.
LEMMA FinishKeepsFate ==
  ASSUME JobsOK, FateInv, NEW r \in Requests, Finish(r)
  PROVE  FateInv'
<1>1. /\ job[r] # Nil /\ job[r].at = "answer" /\ job'[r] = Nil /\ JobStep(r)
      /\ UNCHANGED <<served, handed, heard>>
  BY ReplyFields DEF Finish, At, bounds, record
<1>2. PICK k \in Nat : k = job[r].n
  BY <1>1, OwnFate
<1>3. PICK o \in Outcomes : o = job[r].outcome
  BY <1>1, OwnFate DEF Waiting
<1>4. /\ k \in DOMAIN answers /\ k \notin usage /\ Traced(k) = {o}
      /\ (Out(k) <=> o # "denied")
  BY <1>1, <1>2, <1>3, OwnFate DEF Waiting
<1>5. /\ answers' = [answers EXCEPT ![k] = AnswerOf(o)]
      /\ usage' = IF o = "success" THEN usage \cup {k} ELSE usage
  BY <1>2, <1>3 DEF Finish, Reply, Succeeded
<1>6. EffectsOf(k) /\ HeardOK'
  BY <1>1, <1>5 DEF EffectsOf, HeardOK, FateInv
<1>7. Agrees(k)'
  <2>1. Traced(k)' = {o} /\ (Out(k)' <=> o # "denied")
    BY <1>1, <1>4 DEF Traced, Out
  <2>2. answers'[k] = AnswerOf(o)
    BY <1>4, <1>5
  <2>3. CASE o = "success"
    BY <1>5, <2>1, <2>2, <2>3 DEF Agrees, AnswerOf
  <2>4. CASE o = "denied"
    BY <1>4, <1>5, <2>1, <2>2, <2>4 DEF Agrees, AnswerOf
  <2>5. CASE o = "error"
    BY <1>4, <1>5, <2>1, <2>2, <2>5 DEF Agrees, AnswerOf
  <2> QED
    BY <2>3, <2>4, <2>5 DEF Outcomes
<1> QED
  BY <1>1, <1>2, <1>6, <1>7, OthersAgree

\* A handler that fails says 500, whatever has gone out.
LEMMA FailKeepsFate ==
  ASSUME JobsOK, FateInv, NEW r \in Requests, Fail(r)
  PROVE  FateInv'
<1>1. /\ job[r] # Nil /\ job[r].at \in {"save trace", "fill trace", "answer"}
      /\ job'[r] = Nil /\ JobStep(r)
      /\ UNCHANGED <<served, handed, usage, heard>>
  BY ReplyFields DEF Fail, At
<1>2. PICK k \in Nat : k = job[r].n
  BY <1>1, OwnFate
<1>3. /\ k \in DOMAIN answers /\ k \notin usage
      /\ Traced(k) \subseteq {job[r].outcome}
      /\ (Out(k) <=> job[r].outcome # "denied")
  BY <1>1, <1>2, OwnFate DEF Waiting
<1>4. answers' = [answers EXCEPT ![k] = "500"]
  BY <1>2 DEF Fail, Reply
<1>5. EffectsOf(k) /\ HeardOK'
  BY <1>1, <1>4 DEF EffectsOf, HeardOK, FateInv
<1>6. Agrees(k)'
  <2>1. Traced(k)' = Traced(k) /\ (Out(k)' <=> Out(k)) /\ k \notin usage'
    BY <1>1, <1>3 DEF Traced, Out
  <2>2. answers'[k] = "500"
    BY <1>3, <1>4
  <2> QED
    BY <1>3, <2>1, <2>2 DEF Agrees
<1> QED
  BY <1>1, <1>2, <1>5, <1>6, OthersAgree

\* A step that changes nothing of what the requests came to.
LEMMA FateFrame ==
  ASSUME JobsOK, FateInv, UNCHANGED <<served, effects, heard>>,
         \A r \in Requests : job'[r] = Nil \/ job'[r] = job[r]
  PROVE  FateInv'
<1>1. UNCHANGED <<handed, usage, answers>> /\ HeardOK'
  BY DEF effects, HeardOK, FateInv
<1>2. \A n \in Nat : (Out(n)' <=> Out(n)) /\ Traced(n)' = Traced(n)
  BY <1>1 DEF Out, Traced
<1>3. ASSUME NEW r \in Requests, job'[r] # Nil
      PROVE  Fate(r)'
  <2>1. PICK k \in Nat : k = job[r].n
    BY <1>3, OwnFate
  <2>2. job'[r] = job[r] /\ (Waiting(r)' <=> Waiting(r)) /\ job'[r].n = k
    BY <1>3, <2>1 DEF Waiting
  <2>3. Fate(r)
    BY <1>3, <2>2 DEF FateInv
  <2> QED
    BY <1>1, <1>2, <2>1, <2>2, <2>3 DEF Fate
<1>4. \A n \in 1..served : Agrees(n)'
  <2>1. \A n \in 1..served : n \in Nat
    BY DEF JobsOK
  <2> QED
    BY <1>1, <1>2, <2>1 DEF FateInv, Agrees
<1>5. \A n \in Nat : n > served => Untold(n)'
  BY <1>1, <1>2 DEF FateInv, Untold
<1> QED
  BY <1>1, <1>3, <1>4, <1>5 DEF FateInv

\* Nothing has come of a new request, save for a refusal of its token.
LEMMA ReceiveKeepsFate ==
  ASSUME JobsOK, FateInv, NEW r \in Requests, NEW call \in Calls, Receive(r, call)
  PROVE  FateInv'
<1>1. /\ job[r] = Nil /\ served < MaxRequests
      /\ served' = served + 1 /\ UNCHANGED <<handed, usage, heard>>
  BY DEF Receive, record
<1>2. served \in Nat
  BY DEF JobsOK
<1>3. PICK k \in Nat : k = served + 1
  BY <1>2
<1>4. /\ k \in DOMAIN answers /\ answers[k] = Nil
      /\ ~Out(k) /\ k \notin usage /\ Traced(k) = {}
  BY <1>1, <1>2, <1>3, PublishBounds DEF FateInv, Untold
<1>5. \A n \in Nat : (Out(n)' <=> Out(n)) /\ Traced(n)' = Traced(n)
  BY <1>1 DEF Out, Traced
<1>6. /\ DOMAIN answers' = DOMAIN answers /\ answers'[k] \in {Nil, "401"}
      /\ \A n \in DOMAIN answers : n # k => answers'[n] = answers[n]
  BY <1>3, <1>4 DEF Receive
<1>7. HeardOK'
  BY <1>1 DEF HeardOK, FateInv
<1>8. ASSUME NEW s \in Requests, job'[s] # Nil
      PROVE  Fate(s)'
  <2>1. CASE s # r
    <3>1. job'[s] = job[s]
      BY <2>1 DEF Receive, JobsOK
    <3>2. PICK n \in Nat : n = job[s].n
      BY <1>8, <3>1, OwnFate
    <3>3. n # k /\ n \in DOMAIN answers
      BY <1>2, <1>3, <1>8, <3>1, <3>2, OwnFate
    <3>4. Fate(s) /\ (Waiting(s)' <=> Waiting(s)) /\ job'[s].n = n
      BY <1>8, <3>1, <3>2 DEF FateInv, Waiting
    <3> QED
      BY <1>1, <1>5, <1>6, <3>1, <3>2, <3>3, <3>4 DEF Fate
  <2>2. CASE s = r
    <3> DEFINE new == [at |-> "gate", n |-> served + 1, call |-> call, registration |-> Nil,
                       outcome |-> Nil, log |-> Nil]
    <3>1. job' = [job EXCEPT ![r] = new] /\ UNCHANGED answers
      BY <1>1, <1>8, <2>2, Zenon DEF Receive
    <3>2. job'[r] = new
      BY <3>1 DEF JobsOK
    <3>3. new.at = "gate" /\ new.n = k
      BY <1>3
    <3> HIDE DEF new
    <3>4. job'[s].at = "gate" /\ job'[s].n = k
      BY <2>2, <3>2, <3>3
    <3>5. Waiting(s)' /\ job'[s].at # "answer"
      BY <1>8, <3>4 DEF Waiting
    <3> QED
      BY <1>1, <1>4, <1>5, <3>1, <3>4, <3>5 DEF Fate
  <2> QED
    BY <2>1, <2>2
<1>9. ASSUME NEW n \in 1..served'
      PROVE  Agrees(n)'
  <2>1. CASE n = k
    BY <1>1, <1>4, <1>5, <1>6, <2>1, OutcomesAssumption DEF Agrees, Answers
  <2>2. CASE n # k
    <3>1. n \in 1..served /\ n \in Nat /\ n \in DOMAIN answers
      BY <1>1, <1>2, <1>3, <1>9, <2>2, PublishBounds DEF FateInv
    <3>2. Agrees(n) /\ answers'[n] = answers[n]
      BY <1>6, <2>2, <3>1 DEF FateInv
    <3> QED
      BY <1>1, <1>5, <3>1, <3>2 DEF Agrees
  <2> QED
    BY <2>1, <2>2
<1>10. ASSUME NEW n \in Nat, n > served'
       PROVE  Untold(n)'
  <2>1. Untold(n) /\ n # k
    BY <1>1, <1>2, <1>3, <1>10 DEF FateInv
  <2>2. n <= MaxRequests => n \in DOMAIN answers
    BY <1>1, <1>2, <1>10, PublishBounds DEF FateInv
  <2> QED
    BY <1>1, <1>5, <1>6, <2>1, <2>2 DEF Untold
<1>11. served' <= MaxRequests /\ DOMAIN answers' = 1..MaxRequests
  BY <1>1, <1>2, <1>6, PublishBounds DEF FateInv
<1> QED
  BY <1>7, <1>8, <1>9, <1>10, <1>11 DEF FateInv

\* Every step keeps the invariant.
LEMMA PublishNextKeepsFate ==
  ASSUME JobsOK, FateInv, [Next]_pubVars
  PROVE  FateInv'
<1>1. ASSUME NEW r \in Requests, NEW call \in Calls, Receive(r, call)
      PROVE  FateInv'
  BY <1>1, ReceiveKeepsFate
<1>2. ASSUME NEW r \in Requests, Handle(r)
      PROVE  FateInv'
  BY <1>2, CheckingKeepsFate, SendKeepsFate, OpeningKeepsFate, FillKeepsFate,
     FinishKeepsFate, FailKeepsFate
     DEF Handle, Checking
<1>3. CASE ChangeSession \/ ChangeRegistrations \/ ChangeLink \/ \E m \in Feed : Hear(m)
  BY <1>3, FateFrame DEF ChangeSession, ChangeRegistrations, ChangeLink, Hear, Change, record
<1>4. CASE Crash
  BY <1>4, FateFrame DEF Crash
<1>5. CASE UNCHANGED pubVars
  BY <1>5, FateFrame DEF pubVars, bounds, record
<1> QED
  BY <1>1, <1>2, <1>3, <1>4, <1>5 DEF Next

\* Nothing has come of anything at the start.
LEMMA PublishInitFate ==
  ASSUME Init
  PROVE  FateInv
<1>1. /\ job = [r \in Requests |-> Nil] /\ served = 0
      /\ handed = {} /\ usage = {} /\ answers = [n \in 1..MaxRequests |-> Nil]
      /\ heard = <<[n |-> 0, entry |-> Earlier]>>
  BY DEF Init
<1>2. PICK a \in Addons : Earlier = [op |-> "registration", addon |-> a, outcome |-> "success"]
  BY OutcomesAssumption DEF Earlier
<1>3. Earlier \in Entries /\ Earlier.op = "registration"
  BY <1>2 DEF Entries, Publishers, Outcomes
<1>4. PICK x : x = [n |-> 0, entry |-> Earlier]
  OBVIOUS
<1>5. x \in [n : Nat, entry : Entries] /\ x.n = 0 /\ x.entry.op = "registration"
  BY <1>3, <1>4
<1>6. HeardOK
  <2> DEFINE H == [n : Nat, entry : Entries]
  <2>1. x \in H /\ heard = <<x>>
    BY <1>1, <1>4, <1>5
  <2> HIDE DEF H
  <2>2. heard \in Seq(H) /\ DOMAIN heard = {1} /\ heard[1] = x
    BY <2>1
  <2> QED
    BY <1>5, <2>2 DEF HeardOK, H, Ops
<1>7. ASSUME NEW n \in Nat, n > 0
      PROVE  Traced(n) = {}
  <2>1. DOMAIN heard = {1} /\ heard[1].n = 0
    BY <1>1, <1>4, <1>5
  <2> QED
    BY <1>7, <2>1 DEF Traced
<1> QED
  BY <1>1, <1>6, <1>7, PublishBounds DEF FateInv, Untold, Out

\* What a request is answered, what it sent, traced and billed agree, for any
\* requests, overlaps, failed writes and crashes.
THEOREM FateInvariant == Spec => []FateInv
<1>1. PublishInv /\ FateInv /\ [Next]_pubVars => FateInv'
  BY PublishNextKeepsFate DEF PublishInv
<1> QED
  BY <1>1, PublishInitFate, PublishInvariant, PTL DEF Spec

-----------------------------------------------------------------------------
(* The trace file.                                                         *)

\* The file is never longer than it may be, and every job has its type.
JobTypes ==
  /\ traces # Torn => traces \in Seq(Entries) /\ Len(traces) <= MaxEntries
  /\ \A r \in Requests : job[r] # Nil =>
       /\ job[r] \in Jobs
       /\ job[r].at \in {"save trace", "fill trace"} => job[r].log \in Seq(Entries)

\* A job that is put together of a step, an outcome and a list has its type.
LEMMA JobTyped ==
  ASSUME JobsOK, JobTypes, NEW r \in Requests, job[r] # Nil,
         NEW step \in Steps, NEW registration \in RecordsIn(Registered) \cup {Nil},
         NEW outcome \in Outcomes \cup {Nil}, NEW log \in Seq(Entries) \cup {Nil},
         job'[r] = [at |-> step, n |-> job[r].n, call |-> job[r].call,
                    registration |-> registration, outcome |-> outcome, log |-> log]
  PROVE  job'[r] \in Jobs /\ job'[r].at = step /\ job'[r].log = log
<1>1. job[r].n \in 1..MaxRequests /\ job[r].call \in Calls
  BY DEF JobTypes, Jobs
<1>2. job'[r] \in Jobs
  BY <1>1 DEF Jobs
<1> QED
  BY <1>2

\* The fields that a step of a request leaves alone.
LEMMA JobFieldTypes ==
  ASSUME JobTypes, NEW r \in Requests, job[r] # Nil
  PROVE  /\ job[r].registration \in RecordsIn(Registered) \cup {Nil}
         /\ job[r].outcome \in Outcomes \cup {Nil} /\ job[r].log \in Seq(Entries) \cup {Nil}
BY DEF JobTypes, Jobs

\* A request that goes on has the types of its new step.
LEMMA MoveTyped ==
  ASSUME JobsOK, JobTypes, NEW r \in Requests, job[r] # Nil, NEW step \in Steps, Move(r, step)
  PROVE  job'[r] \in Jobs /\ job'[r].at = step /\ job'[r].log = job[r].log
<1>1. job'[r] = [at |-> step, n |-> job[r].n, call |-> job[r].call,
                 registration |-> job[r].registration,
                 outcome |-> job[r].outcome, log |-> job[r].log]
  BY MoveFields
<1> QED
  BY <1>1, JobFieldTypes, JobTyped

\* So has one whose outcome is clear.
LEMMA OutcomeTyped ==
  ASSUME JobsOK, JobTypes, NEW r \in Requests, job[r] # Nil,
         NEW outcome \in Outcomes, Outcome(r, outcome)
  PROVE  job'[r] \in Jobs /\ job'[r].at = "trace"
<1>1. job[r] = [at |-> job[r].at, n |-> job[r].n, call |-> job[r].call,
                registration |-> job[r].registration,
                outcome |-> job[r].outcome, log |-> job[r].log]
  BY DEF JobsOK, IsJob
<1>2. PICK step \in Steps : step = "trace"
  BY DEF Steps
<1>3. job'[r] = [[job[r] EXCEPT !.at = step] EXCEPT !.outcome = outcome]
  BY <1>2 DEF Outcome, JobsOK
<1>4. job'[r] = [at |-> step, n |-> job[r].n, call |-> job[r].call,
                 registration |-> job[r].registration,
                 outcome |-> outcome, log |-> job[r].log]
  BY <1>1, <1>3
<1>5. job'[r] \in Jobs /\ job'[r].at = step
  BY <1>4, JobFieldTypes, JobTyped
<1> QED
  BY <1>2, <1>5

\* A registration that is found has its type.
LEMMA LookUpTyped ==
  ASSUME PublishInv, JobTypes, NEW r \in Requests, LookUp(r), ~Deny(r)
  PROVE  job'[r] \in Jobs /\ job'[r].at = "decide"
<1> DEFINE found == Registration(job[r].call.addon)
<1>1. job[r] # Nil /\ job[r].at = "registration" /\ JobsOK
  BY DEF LookUp, At, PublishInv
<1>2. found # Nil /\ job' = [job EXCEPT ![r].at = "decide", ![r].registration = found]
  BY DEF LookUp
<1>3. job[r] = [at |-> job[r].at, n |-> job[r].n, call |-> job[r].call,
                registration |-> job[r].registration,
                outcome |-> job[r].outcome, log |-> job[r].log]
  BY <1>1 DEF JobsOK, IsJob
<1>4. job[r].call.op # "publish"
  <2>1. Waiting(r)
    BY <1>1 DEF Waiting
  <2> QED
    BY <1>1, <2>1 DEF PublishInv, Checked
<1>5. job[r].call.addon \in Addons
  BY <1>1, <1>4, CallsAssumption DEF JobsOK
<1>6. registrations \in Registered /\ found = registrations[job[r].call.addon]
  BY <1>1, <1>2 DEF Registration, JobsOK
<1>7. found \in RecordsIn(Registered) \cup {Nil}
  <2>1. found \in {registrations[a] : a \in Addons}
    BY <1>5, <1>6
  <2>2. found \in UNION {{g[a] : a \in Addons} : g \in Registered}
    BY <1>6, <2>1
  <2> QED
    BY <1>2, <2>2 DEF RecordsIn
<1> HIDE DEF found
<1>8. PICK step \in Steps : step = "decide"
  BY DEF Steps
<1>9. job'[r] = [[job[r] EXCEPT !.at = step] EXCEPT !.registration = found]
  BY <1>1, <1>2, <1>8 DEF JobsOK
<1>10. job'[r] = [at |-> step, n |-> job[r].n, call |-> job[r].call,
                  registration |-> found,
                  outcome |-> job[r].outcome, log |-> job[r].log]
  BY <1>3, <1>9
<1>11. job'[r] \in Jobs /\ job'[r].at = step
  BY <1>1, <1>7, <1>10, JobFieldTypes, JobTyped
<1> QED
  BY <1>8, <1>11

\* A check leaves a job of its type, or none.
LEMMA CheckingTyped ==
  ASSUME PublishInv, JobTypes, NEW r \in Requests, Checking(r)
  PROVE  \/ job'[r] = Nil
         \/ job'[r] \in Jobs /\ job'[r].at \notin {"save trace", "fill trace"}
<1> DEFINE Typed == job'[r] \in Jobs /\ job'[r].at \notin {"save trace", "fill trace"}
<1>1. job[r] # Nil /\ Waiting(r) /\ JobsOK
  BY CheckingFields, CheckingOutcome DEF PublishInv
<1>2. ASSUME NEW step \in {"token", "grant", "registration", "decide", "send"}, Move(r, step)
      PROVE  Typed
  <2>1. step \in Steps
    BY DEF Steps
  <2>2. job'[r] \in Jobs /\ job'[r].at = step
    BY <1>1, <1>2, <2>1, MoveTyped
  <2> QED
    BY <2>2
<1>3. ASSUME Deny(r)
      PROVE  Typed
  <2>1. PICK o \in Outcomes : o = "denied"
    BY DEF Outcomes
  <2>2. Outcome(r, o)
    BY <1>3, <2>1 DEF Deny
  <2>3. job'[r] \in Jobs /\ job'[r].at = "trace"
    BY <1>1, <2>2, OutcomeTyped
  <2> QED
    BY <2>3
<1>4. ASSUME Authorized(r)
      PROVE  Typed
  BY <1>2, <1>4 DEF Authorized
<1>5. ASSUME NEW x, Reply(r, x)
      PROVE  job'[r] = Nil
  BY <1>1, <1>5, ReplyFields
<1>6. CASE CheckGate(r)
  BY <1>2, <1>3, <1>5, <1>6 DEF CheckGate
<1>7. CASE AuthorizeToken(r)
  BY <1>2, <1>3, <1>4, <1>7 DEF AuthorizeToken
<1>8. CASE AuthorizeGrant(r)
  BY <1>3, <1>4, <1>8 DEF AuthorizeGrant
<1>9. CASE LookUp(r)
  <2>1. CASE Deny(r)
    BY <1>3, <2>1
  <2>2. CASE ~Deny(r)
    BY <1>9, <2>2, LookUpTyped
  <2> QED
    BY <2>1, <2>2
<1>10. CASE Decide(r)
  BY <1>2, <1>3, <1>5, <1>10 DEF Decide
<1> QED
  BY <1>6, <1>7, <1>8, <1>9, <1>10 DEF Checking

\* What an append writes is a list that is not too long.
LEMMA WithEntryType ==
  ASSUME NEW S, NEW list \in Seq(S), NEW e \in S
  PROVE  WithEntry(list, e) \in Seq(S) /\ Len(WithEntry(list, e)) <= MaxEntries
<1>1. PICK longer \in Seq(S) : longer = Append(list, e)
  <2>1. Append(list, e) \in Seq(S)
    OBVIOUS
  <2> QED
    BY <2>1
<1>2. WithEntry(list, e) = KeepNewest(longer)
  BY <1>1 DEF WithEntry
<1>3. CASE Len(longer) > MaxEntries
  <2>1. /\ Len(longer) - MaxEntries + 1 \in 1..(Len(longer) + 1) /\ Len(longer) \in Nat
        /\ Len(longer) - MaxEntries + 1 <= Len(longer) /\ MaxEntries \in Nat
    BY <1>3, MaxEntriesAssumption
  <2>2. PICK first \in Nat \ {0} : first = Len(longer) - MaxEntries + 1
    BY <2>1
  <2>3. KeepNewest(longer) = SubSeq(longer, first, Len(longer))
    BY <1>3, <2>2 DEF KeepNewest
  <2>4. /\ SubSeq(longer, first, Len(longer)) \in Seq(S)
        /\ Len(SubSeq(longer, first, Len(longer))) = MaxEntries
    BY <2>1, <2>2
  <2> QED
    BY <1>2, <2>1, <2>3, <2>4
<1>4. CASE ~(Len(longer) > MaxEntries)
  BY <1>2, <1>4, MaxEntriesAssumption DEF KeepNewest
<1> QED
  BY <1>3, <1>4

\* The list a request reads has its type.
LEMMA ReadTyped ==
  ASSUME JobsOK, JobTypes, NEW r \in Requests, ReadTraces(r)
  PROVE  /\ job'[r] \in Jobs /\ job'[r].at = "save trace"
         /\ job'[r].log \in Seq(Entries)
<1>1. job[r] # Nil
  BY DEF ReadTraces, At
<1>2. job[r] = [at |-> job[r].at, n |-> job[r].n, call |-> job[r].call,
                registration |-> job[r].registration,
                outcome |-> job[r].outcome, log |-> job[r].log]
  BY <1>1 DEF JobsOK, IsJob
<1>3. PICK log \in Seq(Entries) : log = Loaded(traces)
  <2>1. <<>> \in Seq(Entries)
    OBVIOUS
  <2>2. Loaded(traces) \in Seq(Entries)
    BY <2>1 DEF JobTypes, Loaded
  <2> QED
    BY <2>2
<1>4. PICK step \in Steps : step = "save trace"
  BY DEF Steps
<1>5. job'[r] = [[job[r] EXCEPT !.at = step] EXCEPT !.log = log]
  BY <1>3, <1>4 DEF ReadTraces, JobsOK
<1>6. job'[r] = [at |-> step, n |-> job[r].n, call |-> job[r].call,
                 registration |-> job[r].registration,
                 outcome |-> job[r].outcome, log |-> log]
  BY <1>2, <1>5
<1>7. job'[r] \in Jobs /\ job'[r].at = step /\ job'[r].log = log
  BY <1>1, <1>6, JobFieldTypes, JobTyped
<1> QED
  BY <1>4, <1>7

\* A step that tells what a request came to keeps the types.
LEMMA TellingTyped ==
  ASSUME PublishInv, FateInv, JobTypes, NEW r \in Requests, Telling(r)
  PROVE  /\ \/ job'[r] = Nil
            \/ /\ job'[r] \in Jobs
               /\ job'[r].at \in {"save trace", "fill trace"} => job'[r].log \in Seq(Entries)
         /\ traces' # Torn => traces' \in Seq(Entries) /\ Len(traces') <= MaxEntries
<1>1. job[r] # Nil /\ JobsOK
  BY DEF Telling, Send, ReadTraces, OpenTraces, FillTraces, Finish, Fail, At, PublishInv
<1>2. CASE Send(r)
  <2>1. UNCHANGED traces
    BY <1>2 DEF Send
  <2>2. CASE Reply(r, "500")
    BY <1>1, <2>1, <2>2, ReplyFields DEF JobTypes
  <2>3. CASE Outcome(r, IF online THEN "success" ELSE "error")
    <3>1. PICK o \in Outcomes : o = IF online THEN "success" ELSE "error"
      BY DEF Outcomes
    <3>2. job'[r] \in Jobs /\ job'[r].at = "trace"
      BY <1>1, <2>3, <3>1, OutcomeTyped
    <3> QED
      BY <2>1, <3>2 DEF JobTypes
  <2> QED
    BY <1>2, <2>2, <2>3 DEF Send
<1>3. CASE ReadTraces(r)
  BY <1>1, <1>3, ReadTyped DEF ReadTraces, JobTypes
<1>4. CASE OpenTraces(r)
  <2>1. "fill trace" \in Steps
    BY DEF Steps
  <2>2. /\ job'[r] \in Jobs /\ job'[r].log = job[r].log
        /\ job[r].at = "save trace" /\ traces' = Torn
    BY <1>1, <1>4, <2>1, MoveTyped DEF OpenTraces, At
  <2> QED
    BY <1>1, <2>2 DEF JobTypes
<1>5. CASE FillTraces(r)
  <2>1. "answer" \in Steps
    BY DEF Steps
  <2>2. job'[r] \in Jobs /\ job'[r].at = "answer" /\ job[r].at = "fill trace"
    BY <1>1, <1>5, <2>1, MoveTyped DEF FillTraces, At
  <2>3. job[r].log \in Seq(Entries)
    BY <1>1, <2>2 DEF JobTypes
  <2>4. job[r].outcome \in Outcomes
    BY <1>1, <2>2, OwnFate DEF Waiting
  <2>5. Entry(r) \in Entries
    BY <1>1, <2>4, EntryIsEntry
  <2>6. traces' \in Seq(Entries) /\ Len(traces') <= MaxEntries
    BY <1>5, <2>3, <2>5, WithEntryType DEF FillTraces
  <2> QED
    BY <2>2, <2>6
<1>6. CASE Finish(r) \/ Fail(r)
  <2>1. job'[r] = Nil /\ UNCHANGED traces
    BY <1>1, <1>6, ReplyFields DEF Finish, Fail
  <2> QED
    BY <2>1 DEF JobTypes
<1> QED
  BY <1>2, <1>3, <1>4, <1>5, <1>6 DEF Telling

\* Every step keeps the types.
LEMMA PublishNextKeepsTypes ==
  ASSUME PublishInv, FateInv, JobTypes, [Next]_pubVars
  PROVE  JobTypes'
<1>1. ASSUME NEW r \in Requests, NEW call \in Calls, Receive(r, call)
      PROVE  JobTypes'
  <2>1. UNCHANGED traces
    BY <1>1 DEF Receive
  <2>2. CASE UNCHANGED job
    BY <2>1, <2>2 DEF JobTypes
  <2>3. CASE job' = [job EXCEPT ![r] = [at |-> "gate", n |-> served + 1, call |-> call,
                                         registration |-> Nil, outcome |-> Nil, log |-> Nil]]
    <3>1. PICK step \in Steps : step = "gate"
      BY DEF Steps
    <3>2. /\ job'[r] = [at |-> step, n |-> served + 1, call |-> call,
                        registration |-> Nil, outcome |-> Nil, log |-> Nil]
          /\ \A s \in Requests : s # r => job'[s] = job[s]
      BY <2>3, <3>1 DEF PublishInv, JobsOK
    <3>3. served + 1 \in 1..MaxRequests
      BY <1>1, PublishBounds DEF Receive, PublishInv, JobsOK
    <3>4. job'[r] \in Jobs
      BY <3>2, <3>3 DEF Jobs
    <3>5. job'[r].at = step
      BY <3>2
    <3> QED
      BY <2>1, <3>1, <3>2, <3>4, <3>5 DEF JobTypes
  <2> QED
    BY <1>1, <2>2, <2>3, Zenon DEF Receive
<1>2. ASSUME NEW r \in Requests, Handle(r)
      PROVE  JobTypes'
  <2>1. \A s \in Requests : s # r => job'[s] = job[s]
    BY <1>2, CheckingFields, TellingFields DEF Handle, Checking, Telling, PublishInv, JobStep
  <2>2. CASE Checking(r)
    <3>1. UNCHANGED traces
      BY <2>2, CheckingOutcome DEF PublishInv
    <3> QED
      BY <2>1, <2>2, <3>1, CheckingTyped DEF JobTypes
  <2>3. CASE Telling(r)
    BY <2>1, <2>3, TellingTyped DEF JobTypes
  <2> QED
    BY <1>2, <2>2, <2>3 DEF Handle, Checking, Telling
<1>3. CASE ChangeSession \/ ChangeRegistrations \/ ChangeLink \/ \E m \in Feed : Hear(m)
  BY <1>3 DEF ChangeSession, ChangeRegistrations, ChangeLink, Hear, Change, JobTypes
<1>4. CASE Crash
  BY <1>4 DEF Crash, JobTypes
<1>5. CASE UNCHANGED pubVars
  BY <1>5 DEF pubVars, JobTypes
<1> QED
  BY <1>1, <1>2, <1>3, <1>4, <1>5 DEF Next

\* The types hold at the start.
LEMMA PublishInitTypes ==
  ASSUME Init
  PROVE  JobTypes
<1>1. PICK a \in Addons : Earlier = [op |-> "registration", addon |-> a, outcome |-> "success"]
  BY OutcomesAssumption DEF Earlier
<1>2. PICK e \in Entries : e = Earlier
  BY <1>1 DEF Entries, Publishers, Outcomes
<1>3. traces = <<e>> /\ job = [r \in Requests |-> Nil]
  BY <1>2 DEF Init
<1>4. traces \in Seq(Entries) /\ Len(traces) = 1
  BY <1>3
<1> QED
  BY <1>3, <1>4, MaxEntriesAssumption DEF JobTypes

Kept(h) == IF Len(h) < MaxEntries THEN Len(h) ELSE MaxEntries

\* The newest outcomes of a history, the newest last.
NewestOf(h) == [i \in 1..Kept(h) |-> h[Len(h) - Kept(h) + i].entry]

\* Short of appends that overlap or are cut off, at most one request appends, to
\* the newest outcomes, and the file has those unless that request has emptied it.
FileInv ==
  ~spoiled =>
    /\ \A r, s \in Appending : r = s
    /\ \A r \in Appending : job[r].log = NewestOf(heard)
    /\ IF traces = Torn THEN \E r \in Requests : At(r, "fill trace")
       ELSE traces = NewestOf(heard)

\* An append to the newest outcomes leaves the newest outcomes.
LEMMA NewestAppended ==
  ASSUME NEW h \in Seq([n : Nat, entry : Entries]), NEW x \in [n : Nat, entry : Entries]
  PROVE  /\ NewestOf(h) \in Seq(Entries)
         /\ WithEntry(NewestOf(h), x.entry) = NewestOf(Append(h, x))
<1> DEFINE H == [n : Nat, entry : Entries]
<1>1. h \in Seq(H) /\ x \in H /\ \A y \in H : y.entry \in Entries
  OBVIOUS
<1> HIDE DEF H
<1>2. MaxEntries \in Nat \ {0}
  BY MaxEntriesAssumption
<1>3. PICK len \in Nat : len = Len(h)
  BY <1>1
<1>4. PICK k \in Nat : k = Kept(h)
  BY <1>2, <1>3 DEF Kept
<1>5. /\ k <= len /\ k <= MaxEntries
      /\ k = IF len < MaxEntries THEN len ELSE MaxEntries
  BY <1>2, <1>3, <1>4 DEF Kept
<1>6. PICK list : list = NewestOf(h)
  OBVIOUS
<1>7. \A i \in 1..k : h[len - k + i].entry \in Entries
  BY <1>1, <1>3, <1>5
<1>8. list = [i \in 1..k |-> h[len - k + i].entry]
  BY <1>3, <1>4, <1>6 DEF NewestOf
<1>9. list \in Seq(Entries) /\ Len(list) = k
  BY <1>7, <1>8
<1>10. PICK e \in Entries : e = x.entry
  BY <1>1
<1>11. PICK longer : longer = Append(list, e)
  OBVIOUS
<1>12. /\ longer \in Seq(Entries) /\ Len(longer) = k + 1
       /\ longer[k + 1] = e
       /\ \A i \in 1..k : longer[i] = h[len - k + i].entry
  BY <1>8, <1>9, <1>11
<1>13. PICK g : g = Append(h, x)
  OBVIOUS
<1>14. /\ Len(g) = len + 1 /\ g[len + 1] = x
       /\ \A i \in 1..len : g[i] = h[i]
  BY <1>1, <1>3, <1>13
<1>15. WithEntry(list, e) = KeepNewest(longer)
  BY <1>11 DEF WithEntry
<1>16. KeepNewest(longer) = NewestOf(g)
  <2>1. CASE len < MaxEntries
    <3>1. k = len /\ Kept(g) = len + 1
      BY <1>2, <1>5, <1>14, <2>1 DEF Kept
    <3>2. NewestOf(g) = [i \in 1..(len + 1) |-> g[i].entry]
      BY <1>14, <3>1 DEF NewestOf
    <3>3. KeepNewest(longer) = longer
      BY <1>2, <1>12, <2>1, <3>1 DEF KeepNewest
    <3>4. \A i \in 1..(len + 1) : longer[i] = g[i].entry
      BY <1>10, <1>12, <1>14, <3>1
    <3>5. longer = [i \in 1..(len + 1) |-> longer[i]]
      BY <1>12, <3>1
    <3> QED
      BY <3>2, <3>3, <3>4, <3>5
  <2>2. CASE ~(len < MaxEntries)
    <3>1. k = MaxEntries /\ Kept(g) = MaxEntries
      BY <1>2, <1>5, <1>14, <2>2 DEF Kept
    <3>2. NewestOf(g) = [i \in 1..k |-> g[len + 1 - k + i].entry]
      BY <1>14, <3>1 DEF NewestOf
    <3>3. KeepNewest(longer) = SubSeq(longer, 2, k + 1)
      BY <1>2, <1>12, <3>1 DEF KeepNewest
    <3>4. SubSeq(longer, 2, k + 1) = [i \in 1..k |-> longer[i + 1]]
      BY <1>2, <1>12, <3>1
    <3>5. \A i \in 1..k : longer[i + 1] = g[len + 1 - k + i].entry
      <4> SUFFICES ASSUME NEW i \in 1..k
                   PROVE  longer[i + 1] = g[len + 1 - k + i].entry
        OBVIOUS
      <4>1. CASE i = k
        BY <1>3, <1>10, <1>12, <1>14, <4>1
      <4>2. CASE i # k
        <5>1. i + 1 \in 1..k /\ len - k + (i + 1) = len + 1 - k + i
          BY <1>3, <1>4, <4>2
        <5>2. len + 1 - k + i \in 1..len
          BY <1>3, <1>4, <1>5, <4>2
        <5> QED
          BY <1>12, <1>14, <5>1, <5>2
      <4> QED
        BY <4>1, <4>2
    <3> QED
      BY <3>2, <3>3, <3>4, <3>5
  <2> QED
    BY <2>1, <2>2
<1> QED
  BY <1>6, <1>9, <1>10, <1>13, <1>15, <1>16

\* A step of requests that append neither before it nor after it.
LEMMA FileFrame ==
  ASSUME FileInv, UNCHANGED <<traces, heard>>, spoiled => spoiled',
         \A s \in Requests : At(s, "save trace")' \/ At(s, "fill trace")' => job'[s] = job[s],
         \A s \in Requests : At(s, "fill trace") => job'[s] = job[s]
  PROVE  FileInv'
<1>1. \A s \in Requests : s \in Appending' => s \in Appending /\ job'[s] = job[s]
  BY DEF Appending, At
<1>2. \A s \in Requests : At(s, "fill trace") => At(s, "fill trace")'
  BY DEF At
<1>3. Appending' \subseteq Requests
  BY DEF Appending
<1> QED
  BY <1>1, <1>2, <1>3 DEF FileInv

\* One request reads the file while no other appends.
LEMMA ReadKeepsFile ==
  ASSUME JobsOK, FileInv, NEW r \in Requests, ReadTraces(r)
  PROVE  FileInv'
<1> SUFFICES ASSUME ~spoiled'
             PROVE  /\ \A q, s \in Appending' : q = s
                    /\ \A s \in Appending' : job'[s].log = NewestOf(heard')
                    /\ traces' # Torn /\ traces' = NewestOf(heard')
  BY DEF FileInv
<1>1. ~spoiled /\ Appending = {} /\ UNCHANGED <<traces, heard>>
  BY DEF ReadTraces
<1>2. traces # Torn /\ traces = NewestOf(heard)
  BY <1>1 DEF FileInv, Appending
<1>3. /\ job'[r].log = Loaded(traces)
      /\ \A s \in Requests : s # r => job'[s] = job[s]
  BY ReadFields DEF JobStep
<1>4. \A s \in Appending' : s = r
  BY <1>1, <1>3 DEF Appending, At
<1> QED
  BY <1>1, <1>2, <1>3, <1>4 DEF Loaded

\* It empties the file.
LEMMA OpenKeepsFile ==
  ASSUME JobsOK, JobTypes, FileInv, NEW r \in Requests, OpenTraces(r)
  PROVE  FileInv'
<1>1. UNCHANGED <<heard, spoiled>> /\ traces' = Torn
  BY DEF OpenTraces, record
<1>2. job[r] # Nil /\ At(r, "save trace") /\ r \in Appending
  BY DEF OpenTraces, At, Appending
<1>3. /\ job'[r].at = "fill trace" /\ job'[r].log = job[r].log
      /\ \A s \in Requests : s # r => job'[s] = job[s]
  BY <1>2, WriteFields DEF JobStep, At
<1>4. job'[r] # Nil
  <2>1. "fill trace" \in Steps
    BY DEF Steps
  <2> QED
    BY <1>2, <2>1, MoveTyped, OutcomesAssumption DEF OpenTraces
<1>5. At(r, "fill trace")'
  BY <1>3, <1>4 DEF At
<1>6. \A s \in Appending' : s \in Appending /\ job'[s].log = job[s].log
  BY <1>2, <1>3 DEF Appending, At
<1> QED
  BY <1>1, <1>5, <1>6 DEF FileInv

\* It fills it with the newest outcomes.
LEMMA FillKeepsFile ==
  ASSUME JobsOK, FateInv, FateInv', FileInv, NEW r \in Requests, FillTraces(r)
  PROVE  FileInv'
<1> SUFFICES ASSUME ~spoiled'
             PROVE  /\ Appending' = {}
                    /\ traces' # Torn /\ traces' = NewestOf(heard')
  BY DEF FileInv
<1>1. ~spoiled
  BY DEF FillTraces
<1>2. job[r] # Nil /\ job[r].at = "fill trace" /\ r \in Appending
  BY DEF FillTraces, At, Appending
<1>3. Appending \subseteq {r} /\ job[r].log = NewestOf(heard)
  BY <1>1, <1>2 DEF FileInv
<1>4. /\ job'[r].at = "answer"
      /\ \A s \in Requests : s # r => job'[s] = job[s]
  BY <1>2, WriteFields DEF JobStep
<1>5. Appending' = {}
  <2>1. \A s \in Requests : s # r => s \notin Appending
    BY <1>3
  <2>2. \A s \in Requests : s # r => s \notin Appending'
    BY <1>4, <2>1 DEF Appending, At
  <2>3. r \notin Appending'
    BY <1>4 DEF Appending, At
  <2>4. Appending' \subseteq Requests
    BY DEF Appending
  <2> QED
    BY <2>2, <2>3, <2>4
<1>6. job[r].outcome \in Outcomes /\ job[r].n \in Nat
  BY <1>2, OwnFate DEF Waiting
<1>7. PICK x : x = [n |-> job[r].n, entry |-> Entry(r)]
  OBVIOUS
<1>8. x \in [n : Nat, entry : Entries] /\ x.entry = Entry(r) /\ heard' = Append(heard, x)
  BY <1>2, <1>6, <1>7, EntryIsEntry DEF FillTraces
<1>9. heard \in Seq([n : Nat, entry : Entries]) /\ heard' \in Seq([n : Nat, entry : Entries])
  BY DEF FateInv, HeardOK
<1>10. traces' = WithEntry(NewestOf(heard), x.entry)
  BY <1>3, <1>8 DEF FillTraces
<1>11. traces' = NewestOf(heard')
  BY <1>8, <1>9, <1>10, NewestAppended
<1>12. NewestOf(heard') \in Seq(Entries)
  BY <1>8, <1>9, NewestAppended
<1> QED
  BY <1>5, <1>11, <1>12, OutcomesAssumption

\* A write that fails leaves the file as it was, or spoils it.
LEMMA FailKeepsFile ==
  ASSUME JobsOK, FileInv, NEW r \in Requests, Fail(r)
  PROVE  FileInv'
<1>1. /\ job'[r] = Nil /\ UNCHANGED <<traces, heard>> /\ (spoiled => spoiled')
      /\ \A s \in Requests : s # r => job'[s] = job[s]
  BY ReplyFields DEF Fail, JobStep
<1>2. CASE At(r, "fill trace")
  BY <1>2 DEF Fail, FileInv
<1>3. CASE ~At(r, "fill trace")
  <2>1. \A s \in Requests : At(s, "save trace")' \/ At(s, "fill trace")' => job'[s] = job[s]
    BY <1>1 DEF At
  <2>2. \A s \in Requests : At(s, "fill trace") => job'[s] = job[s]
    BY <1>1, <1>3
  <2> QED
    BY <1>1, <2>1, <2>2, FileFrame
<1> QED
  BY <1>2, <1>3

\* Every step keeps the invariant.
LEMMA PublishNextKeepsFile ==
  ASSUME JobsOK, FateInv, FateInv', JobTypes, FileInv, [Next]_pubVars
  PROVE  FileInv'
<1>1. ASSUME NEW r \in Requests, NEW call \in Calls, Receive(r, call)
      PROVE  FileInv'
  <2>1. UNCHANGED <<traces, heard, spoiled>> /\ job[r] = Nil
    BY <1>1 DEF Receive, record
  <2>2. \A s \in Requests : s # r => job'[s] = job[s]
    BY <1>1 DEF Receive, JobsOK
  <2>3. ~At(r, "save trace")' /\ ~At(r, "fill trace")'
    <3> DEFINE new == [at |-> "gate", n |-> served + 1, call |-> call, registration |-> Nil,
                       outcome |-> Nil, log |-> Nil]
    <3>1. new.at = "gate"
      OBVIOUS
    <3>2. UNCHANGED job \/ job' = [job EXCEPT ![r] = new]
      BY <1>1, Zenon DEF Receive
    <3> HIDE DEF new
    <3>3. job'[r] = job[r] \/ job'[r] = new
      BY <3>2 DEF JobsOK
    <3> QED
      BY <2>1, <3>1, <3>3 DEF At
  <2> QED
    BY <2>1, <2>2, <2>3, FileFrame DEF At
<1>2. ASSUME NEW r \in Requests, Handle(r)
      PROVE  FileInv'
  <2>1. \A s \in Requests : s # r => job'[s] = job[s]
    BY <1>2, CheckingFields, TellingFields DEF Handle, Checking, Telling, JobStep
  <2>2. ASSUME UNCHANGED <<traces, heard, spoiled>>, ~At(r, "fill trace"),
               job'[r] = Nil \/ job'[r].at \notin {"save trace", "fill trace"}
        PROVE  FileInv'
    BY <2>1, <2>2, FileFrame DEF At
  <2>3. CASE Checking(r)
    <3>1. Waiting(r)
      BY <2>3, CheckingFields
    <3> QED
      BY <2>2, <2>3, <3>1, CheckingOutcome DEF At, Waiting, Undecided
  <2>4. CASE Send(r)
    <3>1. UNCHANGED <<traces, heard, spoiled>> /\ job[r] # Nil /\ job[r].at = "send"
      BY <2>4 DEF Send, At, record
    <3>2. job'[r] = Nil \/ job'[r].at = "trace"
      BY <2>4, <3>1, ReplyFields, OutcomeFields DEF Send
    <3> QED
      BY <2>2, <3>1, <3>2 DEF At
  <2>5. CASE Finish(r)
    <3>1. UNCHANGED <<traces, heard, spoiled>> /\ job[r].at = "answer" /\ job'[r] = Nil
      BY <2>5, ReplyFields DEF Finish, At, record
    <3> QED
      BY <2>2, <3>1 DEF At
  <2> QED
    BY <1>2, <2>3, <2>4, <2>5, ReadKeepsFile, OpenKeepsFile, FillKeepsFile, FailKeepsFile
       DEF Handle, Checking
<1>3. CASE ChangeSession \/ ChangeRegistrations \/ ChangeLink \/ \E m \in Feed : Hear(m)
  <2>1. UNCHANGED <<traces, heard, spoiled, job>>
    BY <1>3 DEF ChangeSession, ChangeRegistrations, ChangeLink, Hear, Change, record
  <2> QED
    BY <2>1, FileFrame
<1>4. CASE Crash
  <2>1. UNCHANGED <<traces, heard>> /\ Appending' = {} /\ (spoiled' <=> spoiled \/ traces = Torn)
    BY <1>4 DEF Crash, Appending, At
  <2> QED
    BY <2>1 DEF FileInv
<1>5. CASE UNCHANGED pubVars
  BY <1>5, FileFrame DEF pubVars, record
<1> QED
  BY <1>1, <1>2, <1>3, <1>4, <1>5 DEF Next

\* The file starts with one outcome.
LEMMA PublishInitFile ==
  ASSUME Init
  PROVE  FileInv
<1>1. /\ traces = <<Earlier>> /\ job = [r \in Requests |-> Nil]
      /\ heard = <<[n |-> 0, entry |-> Earlier]>>
  BY DEF Init
<1>2. PICK x : x = [n |-> 0, entry |-> Earlier]
  OBVIOUS
<1>3. heard = <<x>> /\ x.entry = Earlier
  BY <1>1, <1>2
<1>4. Kept(heard) = 1 /\ Len(heard) = 1
  BY <1>3, MaxEntriesAssumption DEF Kept
<1>5. NewestOf(heard) = <<Earlier>>
  BY <1>3, <1>4 DEF NewestOf
<1>6. Appending = {}
  BY <1>1 DEF Appending, At
<1>7. traces # Torn
  <2> DEFINE H == [n : Nat, entry : Entries]
  <2>1. heard \in Seq(H)
    BY PublishInitFate DEF FateInv, HeardOK
  <2>2. heard[1] \in H
    <3> HIDE DEF H
    <3> QED
      BY <1>4, <2>1
  <2>3. NewestOf(heard) \in Seq(Entries)
    BY <2>1, <2>2, NewestAppended
  <2> QED
    BY <1>1, <1>5, <2>3, OutcomesAssumption
<1> QED
  BY <1>1, <1>5, <1>6, <1>7 DEF FileInv

\* Short of appends that overlap or are cut off, the file has the newest outcomes,
\* for any length that it may have, any threads, failed writes and crashes.
THEOREM FileInvariant == Spec => [](JobTypes /\ FileInv)
<1>1. Init => JobTypes /\ FileInv
  BY PublishInitTypes, PublishInitFile
<1>2. /\ PublishInv /\ FateInv /\ FateInv' /\ JobTypes /\ FileInv /\ [Next]_pubVars
      => JobTypes' /\ FileInv'
  BY PublishNextKeepsTypes, PublishNextKeepsFile DEF PublishInv
<1> QED
  BY <1>1, <1>2, PublishInvariant, FateInvariant, PTL DEF Spec

-----------------------------------------------------------------------------
(* What the metrics count.                                                 *)

\* The newest outcomes of the history are as many as are kept.
LEMMA NewestKept ==
  ASSUME HeardOK
  PROVE  /\ Newest = (Len(heard) - Kept(heard) + 1)..Len(heard)
         /\ Kept(heard) \in Nat /\ Kept(heard) <= MaxEntries
         /\ Len(heard) \in Nat /\ Kept(heard) <= Len(heard)
         /\ Cardinality(Newest) = Kept(heard)
<1> DEFINE H == [n : Nat, entry : Entries]
<1>1. heard \in Seq(H)
  BY DEF HeardOK
<1> HIDE DEF H
<1>2. PICK len \in Nat : len = Len(heard) /\ DOMAIN heard = 1..len
  BY <1>1
<1>3. MaxEntries \in Nat \ {0}
  BY MaxEntriesAssumption
<1>4. PICK k \in Nat : k = Kept(heard)
  BY <1>2, <1>3 DEF Kept
<1>5. k = IF len < MaxEntries THEN len ELSE MaxEntries
  BY <1>2, <1>4 DEF Kept
<1>6. Newest = (len - k + 1)..len
  <2>1. \A i : i \in Newest <=> i \in 1..len /\ i > len - MaxEntries
    BY <1>2 DEF Newest
  <2>2. \A i : i \in (len - k + 1)..len => i \in 1..len /\ i > len - MaxEntries
    BY <1>3, <1>5
  <2>3. \A i : i \in 1..len /\ i > len - MaxEntries => i \in (len - k + 1)..len
    BY <1>3, <1>5
  <2> QED
    BY <2>1, <2>2, <2>3
<1>7. Cardinality((len - k + 1)..len) = k
  <2>1. PICK first \in Int : first = len - k + 1
    OBVIOUS
  <2>2. Cardinality(first..len) = IF first > len THEN 0 ELSE len - first + 1
    BY <2>1, FS_Interval
  <2> QED
    BY <1>3, <1>5, <2>1, <2>2
<1>8. k <= MaxEntries /\ k <= len
  BY <1>3, <1>5
<1> QED
  BY <1>2, <1>4, <1>6, <1>7, <1>8

\* The metrics count what the history has.
LEMMA CountIsHeard ==
  ASSUME MaxEntries <= 1000, HeardOK, traces # Torn, traces = NewestOf(heard),
         NEW a, NEW o
  PROVE  Count(a, o) = Cardinality({i \in Newest : /\ heard[i].n > 0 /\ heard[i].entry.addon = a
                                                   /\ heard[i].entry.outcome = o})
<1>1. PICK len \in Nat, k \in Nat :
        /\ len = Len(heard) /\ k = Kept(heard) /\ k <= len /\ k <= MaxEntries
        /\ Newest = (len - k + 1)..len /\ DOMAIN heard = 1..len
  <2>1. DOMAIN heard = 1..Len(heard)
    <3> DEFINE H == [n : Nat, entry : Entries]
    <3>1. heard \in Seq(H)
      BY DEF HeardOK
    <3> HIDE DEF H
    <3> QED
      BY <3>1
  <2> QED
    BY <2>1, NewestKept
<1>2. MaxEntries \in Nat \ {0}
  BY MaxEntriesAssumption
<1>3. traces = [i \in 1..k |-> heard[len - k + i].entry]
  BY <1>1 DEF NewestOf
<1>4. Len(traces) = k
  BY <1>1, <1>3
<1>5. PICK recent : recent = Recent(traces, 1000)
  OBVIOUS
<1>6. recent = [i \in 1..k |-> traces[k + 1 - i]]
  BY <1>1, <1>2, <1>4, <1>5 DEF Recent, Loaded
<1>7. ASSUME NEW i \in 1..k
      PROVE  recent[i] = heard[len + 1 - i].entry /\ len + 1 - i \in Newest
  <2>1. k + 1 - i \in 1..k /\ len - k + (k + 1 - i) = len + 1 - i
    OBVIOUS
  <2>2. recent[i] = heard[len + 1 - i].entry
    BY <1>3, <1>6, <2>1
  <2> QED
    BY <1>1, <2>2
<1> DEFINE A == {i \in DOMAIN recent : /\ IsPublish(recent[i]) /\ recent[i].addon = a
                                       /\ recent[i].outcome = o}
           B == {i \in Newest : /\ heard[i].n > 0 /\ heard[i].entry.addon = a
                                /\ heard[i].entry.outcome = o}
           f == [i \in A |-> len + 1 - i]
<1>8. Count(a, o) = Cardinality(A)
  BY <1>5 DEF Count
<1>9. \A i \in 1..k : i \in A <=> len + 1 - i \in B
  <2> SUFFICES ASSUME NEW i \in 1..k
               PROVE  i \in A <=> len + 1 - i \in B
    OBVIOUS
  <2>1. recent[i] = heard[len + 1 - i].entry /\ len + 1 - i \in Newest /\ i \in DOMAIN recent
    BY <1>6, <1>7
  <2>2. len + 1 - i \in DOMAIN heard
    BY <1>1, <2>1
  <2>3. IsPublish(recent[i]) <=> heard[len + 1 - i].n > 0
    BY <2>1, <2>2 DEF HeardOK, IsPublish
  <2> QED
    BY <2>1, <2>3
<1>10. A \subseteq 1..k /\ B \subseteq Newest
  BY <1>6
<1>11. IsFiniteSet(A)
  <2>1. IsFiniteSet(1..k)
    BY FS_Interval
  <2> QED
    BY <1>10, <2>1, FS_Subset
<1> HIDE DEF A, B
<1>12. f \in [A -> B]
  BY <1>9, <1>10
<1>13. \A i, j \in A : f[i] = f[j] => i = j
  BY <1>10
<1>14. ASSUME NEW j \in B
       PROVE  \E i \in A : f[i] = j
  <2>1. j \in (len - k + 1)..len
    BY <1>1, <1>10, <1>14
  <2>2. PICK i \in 1..k : len + 1 - i = j
    <3>1. len + 1 - j \in 1..k /\ len + 1 - (len + 1 - j) = j
      BY <2>1
    <3> QED
      BY <3>1
  <2>3. i \in A
    BY <1>9, <2>2
  <2> QED
    BY <2>2, <2>3
<1>15. ExistsBijection(A, B)
  BY <1>12, <1>13, <1>14, Zenon DEF ExistsBijection, Bijection, Injection, Surjection, IsInjective
<1>16. Cardinality(A) = Cardinality(B)
  BY <1>11, <1>15, FS_Bijection
<1> QED
  BY <1>8, <1>16 DEF B

\* For a file that the metrics read as a whole: what the addon is told, what went
\* out, what was traced and what is billed agree, for overlapping requests, failed
\* writes and crashes; short of appends that overlap or are cut off, the trace file
\* has the newest outcomes in order, and the metrics count exactly those.
THEOREM OutcomesAlwaysAgree ==
  ASSUME MaxEntries <= 1000
  PROVE  Spec => []OutcomesAgree
<1>1. ASSUME FateInv, FileInv
      PROVE  OutcomesAgree
  <2>1. \A n \in 1..served : Agrees(n)
    BY <1>1 DEF FateInv
  <2>2. ASSUME ~spoiled, traces # Torn
        PROVE  /\ traces = [i \in 1..Cardinality(Newest) |->
                              heard[Len(heard) - Cardinality(Newest) + i].entry]
               /\ \A a \in Publishers, o \in Outcomes :
                    Count(a, o) = Cardinality({i \in Newest : /\ heard[i].n > 0
                                                              /\ heard[i].entry.addon = a
                                                              /\ heard[i].entry.outcome = o})
    <3>1. traces = NewestOf(heard) /\ HeardOK
      BY <1>1, <2>2 DEF FileInv, FateInv
    <3>2. Cardinality(Newest) = Kept(heard)
      BY <3>1, NewestKept
    <3> QED
      BY <2>2, <3>1, <3>2, CountIsHeard DEF NewestOf
  <2> QED
    BY <2>1, <2>2 DEF OutcomesAgree, Agrees, Out
<1> QED
  BY <1>1, FateInvariant, FileInvariant, PTL

-----------------------------------------------------------------------------
(* The cache under the endpoints, and the types.                           *)

\* An answer ends the request's part of the cache, if it has one.
LEMMA ReplyIsPolicyStep ==
  ASSUME NEW r \in Requests, NEW answer, Reply(r, answer)
  PROVE  [PolicyNext]_policyVars
BY DEF Reply, PolicyNext, Authorize

\* Every step of the endpoints is one of the cache, or leaves it alone.
LEMMA PublishStepIsPolicyStep ==
  ASSUME [Next]_pubVars
  PROVE  [PolicyNext]_policyVars
<1>1. ASSUME NEW r \in Requests, NEW call \in Calls, Receive(r, call)
      PROVE  UNCHANGED policyVars
  BY <1>1, Zenon DEF Receive
<1>2. ASSUME NEW r \in Requests, Handle(r)
      PROVE  [PolicyNext]_policyVars
  <2>1. CASE AuthorizeToken(r)
    BY <2>1, Zenon DEF AuthorizeToken, PolicyNext, Authorize
  <2>2. CASE AuthorizeGrant(r)
    BY <2>2, Zenon DEF AuthorizeGrant, PolicyNext, Authorize
  <2>3. CASE CheckGate(r) \/ Decide(r) \/ Send(r) \/ Finish(r) \/ Fail(r)
    BY <2>3, ReplyIsPolicyStep, Zenon DEF CheckGate, Decide, Send, Finish, Fail
  <2>4. CASE LookUp(r) \/ ReadTraces(r) \/ OpenTraces(r) \/ FillTraces(r)
    BY <2>4, Zenon DEF LookUp, ReadTraces, OpenTraces, FillTraces
  <2> QED
    BY <1>2, <2>1, <2>2, <2>3, <2>4 DEF Handle
<1>3. CASE ChangeSession \/ ChangeRegistrations \/ ChangeLink
  BY <1>3, Zenon DEF ChangeSession, ChangeRegistrations, ChangeLink
<1>4. ASSUME NEW m \in Feed, Hear(m)
      PROVE  PolicyNext
  BY <1>4, FeedAssumption DEF Hear, PolicyNext
<1>5. CASE Crash
  BY <1>5 DEF Crash, PolicyNext
<1>6. CASE UNCHANGED pubVars
  BY <1>6 DEF pubVars
<1> QED
  BY <1>1, <1>2, <1>3, <1>4, <1>5, <1>6 DEF Next

\* The cache starts empty, or with one grant that is in force or suspended.
LEMMA FirstCacheInv ==
  ASSUME Init
  PROVE  CacheInv
<1>1. /\ revokedJti = {} /\ revokedGrantIds = {} /\ revokedConsumers = {}
      /\ request = [r \in Requests |-> "idle"]
  BY DEF Init
<1>2. CASE grants = [c \in Consumers |-> Nil]
  BY <1>1, <1>2, EmptyCacheInv
<1>3. ASSUME NEW m \in FirstGrants,
             grants = [c \in Consumers |-> IF c = m.consumer THEN Record(m) ELSE Nil]
      PROVE  CacheInv
  <2>1. m \in GrantMessages /\ m.status \notin Ended
    BY FeedAssumption
  <2>2. /\ Record(m) \in Records /\ Record(m).id = m.id
        /\ m.id # Nil => Owner[m.id] = m.consumer
    BY <2>1, GrantFields DEF Record
  <2>3. grants \in [Consumers -> Records \cup {Nil}]
    BY <1>3, <2>2
  <2>4. OwnedGrants
    BY <1>3, <2>2 DEF OwnedGrants
  <2> QED
    BY <1>1, <2>3, <2>4 DEF CacheInv, PolicyTypeOK, NoTombstoneOverGrant
<1> QED
  BY <1>2, <1>3 DEF Init

\* The endpoints use the cache as its own module says: what is proved of its
\* steps holds under them, with the grants it starts with.
THEOREM PublishUsesCache == Spec => [][PolicyNext]_policyVars /\ []CacheInv
<1>1. [Next]_pubVars => [PolicyNext]_policyVars
  BY PublishStepIsPolicyStep
<1>2. CacheInv /\ [PolicyNext]_policyVars => CacheInv'
  BY StepKeepsInv
<1> QED
  BY <1>1, <1>2, FirstCacheInv, PTL DEF Spec

\* The types that no invariant above has.
WorldTypes ==
  /\ mode \in Settings /\ online \in BOOLEAN
  /\ session \in {"ready", "degraded", "configuring", Torn}
  /\ changes \in 0..MaxChanges
  /\ usage \subseteq 1..served /\ {m.n : m \in handed} \subseteq 1..served
  /\ answers \in [1..MaxRequests -> Answers \cup {Nil}]
  /\ seen \in [Requests -> SUBSET Conditions]
  /\ spoiled \in BOOLEAN

\* A request is in the cache's part of its way only during authorize and after.
AuthorizingOK ==
  \A r \in Requests : request[r] # "idle" =>
    mode.enforced /\ job[r] # Nil /\ job[r].at \notin {"gate", "token"}

\* What a step of a request has for the world.
LEMMA HandleKeepsWorld ==
  ASSUME JobsOK, FateInv, WorldTypes, NEW r \in Requests, Handle(r), Observe
  PROVE  WorldTypes'
<1>1. job[r] # Nil
  BY DEF Handle, CheckGate, AuthorizeToken, AuthorizeGrant, LookUp, Decide, Send, ReadTraces,
         OpenTraces, FillTraces, Finish, Fail, At
<1>2. PICK k \in 1..served : k = job[r].n /\ k \in 1..MaxRequests
  BY <1>1, OwnFate DEF FateInv
<1>3. UNCHANGED <<mode, online, session, served>>
  BY DEF Handle, CheckGate, AuthorizeToken, AuthorizeGrant, LookUp, Decide, Send, ReadTraces,
         OpenTraces, FillTraces, Finish, Fail, world, bounds
<1>4. changes' \in 0..MaxChanges
  <2>1. changes' = changes \/ (changes < MaxChanges /\ changes' = changes + 1)
    <3>1. CASE Fail(r)
      BY <3>1 DEF Fail
    <3>2. CASE ~Fail(r)
      BY <3>2 DEF Handle, CheckGate, AuthorizeToken, AuthorizeGrant, LookUp, Decide, Send,
             ReadTraces, OpenTraces, FillTraces, Finish, bounds
    <3> QED
      BY <3>1, <3>2
  <2> QED
    BY <2>1, PublishBounds DEF WorldTypes
<1>5. usage' = usage \/ usage' = usage \cup {k}
  BY <1>2 DEF Handle, CheckGate, AuthorizeToken, AuthorizeGrant, LookUp, Decide, Send,
         ReadTraces, OpenTraces, FillTraces, Finish, Fail, effects
<1>6. handed' = handed \/ \E m : m.n = k /\ handed' = handed \cup {m}
  <2>1. CASE Send(r)
    <3>1. Message(r).n = k
      BY <1>2 DEF Message
    <3>2. handed' = handed \/ handed' = handed \cup {Message(r)}
      BY <2>1, Zenon DEF Send
    <3> QED
      BY <3>1, <3>2
  <2>2. CASE ~Send(r)
    BY <2>2 DEF Handle, CheckGate, AuthorizeToken, AuthorizeGrant, LookUp, Decide,
         ReadTraces, OpenTraces, FillTraces, Finish, Fail, effects
  <2> QED
    BY <2>1, <2>2
<1>7. answers' = answers \/ \E x \in Answers : answers' = [answers EXCEPT ![k] = x]
  <2>1. ASSUME NEW x \in Answers, Reply(r, x)
        PROVE  answers' = [answers EXCEPT ![k] = x]
    BY <1>2, <2>1 DEF Reply
  <2>2. {"500", "422"} \subseteq Answers
    BY DEF Answers
  <2>3. CASE Finish(r)
    <3>1. job[r].outcome \in Outcomes
      BY <1>1, <2>3, OwnFate DEF Finish, At, Waiting
    <3>2. AnswerOf(job[r].outcome) \in Answers
      BY <3>1 DEF AnswerOf, Outcomes, Answers
    <3> QED
      BY <2>1, <2>3, <3>2 DEF Finish
  <2>4. CASE CheckGate(r) \/ Decide(r) \/ Send(r) \/ Fail(r)
    BY <2>1, <2>2, <2>4, Zenon DEF CheckGate, Decide, Send, Fail
  <2>5. CASE \/ AuthorizeToken(r) \/ AuthorizeGrant(r) \/ LookUp(r)
             \/ ReadTraces(r) \/ OpenTraces(r) \/ FillTraces(r)
    BY <2>5 DEF AuthorizeToken, AuthorizeGrant, LookUp, ReadTraces, OpenTraces, FillTraces, effects
  <2> QED
    BY <2>3, <2>4, <2>5 DEF Handle
<1>8. seen' \in [Requests -> SUBSET Conditions]
  BY DEF Observe, WorldTypes, Holding
<1>9. spoiled' \in BOOLEAN
  <2>1. spoiled' = spoiled \/ spoiled' \in BOOLEAN
    BY DEF Handle, CheckGate, AuthorizeToken, AuthorizeGrant, LookUp, Decide, Send,
         ReadTraces, OpenTraces, FillTraces, Finish, Fail, record
  <2> QED
    BY <2>1 DEF WorldTypes
<1>10. /\ usage' \subseteq 1..served'
       /\ {m.n : m \in handed'} \subseteq 1..served'
  BY <1>2, <1>3, <1>5, <1>6 DEF WorldTypes
<1>11. answers' \in [1..MaxRequests -> Answers \cup {Nil}]
  BY <1>2, <1>7 DEF WorldTypes
<1> QED
  BY <1>3, <1>4, <1>8, <1>9, <1>10, <1>11 DEF WorldTypes

\* What the steps around the requests have for it.
LEMMA NextKeepsWorld ==
  ASSUME JobsOK, FateInv, WorldTypes, [Next]_pubVars
  PROVE  WorldTypes'
<1>1. CASE UNCHANGED pubVars
  BY <1>1 DEF pubVars, world, bounds, effects, record, WorldTypes
<1>2. CASE Next
  <2>1. seen' \in [Requests -> SUBSET Conditions]
    BY <1>2 DEF Next, Observe, WorldTypes, Holding
  <2>2. ASSUME NEW r \in Requests, NEW call \in Calls, Receive(r, call)
        PROVE  WorldTypes'
    <3>1. /\ UNCHANGED <<mode, online, session, changes, usage, handed, spoiled>>
          /\ served \in Nat /\ served' = served + 1 /\ served + 1 \in 1..MaxRequests
      BY <2>2, PublishBounds DEF Receive, world, record, JobsOK
    <3>2. answers' = answers \/ answers' = [answers EXCEPT ![served + 1] = "401"]
      BY <2>2, Zenon DEF Receive
    <3>3. answers' \in [1..MaxRequests -> Answers \cup {Nil}]
      BY <3>1, <3>2 DEF WorldTypes, Answers
    <3>4. 1..served \subseteq 1..served'
      BY <3>1
    <3> QED
      BY <2>1, <3>1, <3>3, <3>4 DEF WorldTypes
  <2>3. ASSUME NEW r \in Requests, Handle(r)
        PROVE  WorldTypes'
    BY <1>2, <2>3, HandleKeepsWorld DEF Next
  <2>4. CASE ChangeSession \/ ChangeRegistrations \/ ChangeLink \/ \E m \in Feed : Hear(m)
    <3>1. /\ UNCHANGED <<mode, served, usage, handed, answers, spoiled>>
          /\ changes < MaxChanges /\ changes' = changes + 1
      BY <2>4 DEF ChangeSession, ChangeRegistrations, ChangeLink, Hear, Change, effects, record
    <3>2. session' \in {"ready", "degraded", "configuring", Torn} /\ online' \in BOOLEAN
      BY <2>4 DEF ChangeSession, ChangeRegistrations, ChangeLink, Hear, WorldTypes
    <3>3. changes' \in 0..MaxChanges
      BY <3>1, PublishBounds DEF WorldTypes
    <3> QED
      BY <2>1, <3>1, <3>2, <3>3 DEF WorldTypes
  <2>5. CASE Crash
    <3>1. /\ UNCHANGED <<mode, session, served, usage, handed, answers>>
          /\ changes < MaxChanges /\ changes' = changes + 1
          /\ online' = FALSE /\ spoiled' \in BOOLEAN
      BY <2>5 DEF Crash, effects
    <3>2. changes' \in 0..MaxChanges
      BY <3>1, PublishBounds DEF WorldTypes
    <3> QED
      BY <2>1, <3>1, <3>2 DEF WorldTypes
  <2> QED
    BY <1>2, <2>2, <2>3, <2>4, <2>5 DEF Next
<1> QED
  BY <1>1, <1>2

\* A step of a request keeps its part of the cache within authorize and after.
LEMMA HandleKeepsAuthorizing ==
  ASSUME PublishInv, JobTypes, AuthorizingOK, NEW r \in Requests, Handle(r)
  PROVE  AuthorizingOK'
<1>1. UNCHANGED mode /\ job[r] # Nil /\ JobsOK
  BY DEF PublishInv, Handle, CheckGate, AuthorizeToken, AuthorizeGrant, LookUp, Decide, Send, ReadTraces,
         OpenTraces, FillTraces, Finish, Fail, world, At
<1>2. JobStep(r)
  BY <1>1, CheckingFields, TellingFields DEF Handle, Checking, Telling
<1>3. ASSUME UNCHANGED policyVars, job'[r] # Nil /\ job'[r].at \notin {"gate", "token"}
      PROVE  AuthorizingOK'
  BY <1>1, <1>2, <1>3 DEF AuthorizingOK, JobStep, policyVars
<1>4. ASSUME UNCHANGED policyVars, ~(request[r] # "idle")
       PROVE  AuthorizingOK'
  BY <1>1, <1>2, <1>4 DEF AuthorizingOK, JobStep, policyVars
<1>5. ASSUME NEW x, Reply(r, x)
      PROVE  AuthorizingOK'
  <2>1. /\ request'[r] = "idle"
        /\ \A s \in Requests : s # r => request'[s] = request[s]
    BY <1>1, <1>5 DEF Reply, Answer, policyVars, JobsOK
  <2> QED
    BY <1>1, <1>2, <2>1 DEF AuthorizingOK, JobStep
<1>6. ASSUME NEW step \in {"grant", "registration", "decide", "send", "fill trace", "answer"},
             Move(r, step)
      PROVE  job'[r] # Nil /\ job'[r].at \notin {"gate", "token"}
  <2>1. step \in Steps
    BY <1>6 DEF Steps
  <2>2. job'[r] \in Jobs /\ job'[r].at = step
    BY <1>1, <1>6, <2>1, MoveTyped
  <2> QED
    BY <1>6, <2>2, OutcomesAssumption
<1>7. ASSUME NEW o \in {"success", "denied", "error"}, Outcome(r, o)
      PROVE  job'[r] # Nil /\ job'[r].at \notin {"gate", "token"}
  <2>1. o \in Outcomes
    BY DEF Outcomes
  <2> QED
    BY <1>1, <1>7, <2>1, OutcomeTyped, OutcomesAssumption
<1>8. CASE CheckGate(r)
  <2>1. request[r] = "idle"
    BY <1>8 DEF CheckGate, At, AuthorizingOK
  <2> QED
    BY <1>4, <1>5, <1>8, <2>1, Zenon DEF CheckGate
<1>9. ASSUME request'[r] # request[r],
             \A s \in Requests : s # r => request'[s] = request[s],
             mode.enforced, job'[r] # Nil /\ job'[r].at \notin {"gate", "token"}
      PROVE  AuthorizingOK'
  BY <1>1, <1>2, <1>9 DEF AuthorizingOK, JobStep
<1>10. CASE AuthorizeToken(r)
  <2>1. request[r] = "idle"
    BY <1>10 DEF AuthorizeToken, At, AuthorizingOK
  <2>2. CASE ~mode.enforced /\ Authorized(r) /\ UNCHANGED policyVars
    BY <1>4, <2>1, <2>2, Zenon
  <2>4. CASE Deny(r) /\ UNCHANGED policyVars
    BY <1>4, <2>1, <2>4, Zenon
  <2>3. CASE /\ mode.enforced /\ CheckToken(r)
             /\ IF request'[r] = "checked" THEN Move(r, "grant") ELSE Deny(r)
    <3>1. /\ request'[r] \in {"checked", "denied"}
          /\ \A s \in Requests : s # r => request'[s] = request[s]
      BY <1>1, <2>3 DEF CheckToken, JobsOK
    <3>2. job'[r] # Nil /\ job'[r].at \notin {"gate", "token"}
      BY <1>6, <1>7, <2>3 DEF Deny
    <3> QED
      BY <1>9, <2>1, <2>3, <3>1, <3>2
  <2> QED
    BY <1>10, <2>2, <2>3, <2>4 DEF AuthorizeToken
<1>11. CASE AuthorizeGrant(r)
  <2>1. /\ request[r] = "checked" /\ request'[r] \in {"allowed", "denied"}
        /\ \A s \in Requests : s # r => request'[s] = request[s]
    BY <1>1, <1>11 DEF AuthorizeGrant, CheckGrant, JobsOK
  <2>2. job'[r] # Nil /\ job'[r].at \notin {"gate", "token"}
    BY <1>6, <1>7, <1>11 DEF AuthorizeGrant, Authorized, Deny
  <2>3. mode.enforced
    BY <2>1 DEF AuthorizingOK
  <2> QED
    BY <1>9, <2>1, <2>2, <2>3
<1>12. CASE LookUp(r)
  <2>1. CASE Deny(r)
    BY <1>3, <1>7, <1>12, <2>1 DEF LookUp, Deny
  <2>2. CASE ~Deny(r)
    <3>1. job'[r] # Nil /\ job'[r].at = "decide"
      BY <1>12, <2>2, LookUpTyped, OutcomesAssumption
    <3> QED
      BY <1>3, <1>12, <3>1 DEF LookUp
  <2> QED
    BY <2>1, <2>2
<1>13. CASE Decide(r)
  <2>1. CASE \E x : Reply(r, x)
    BY <1>5, <2>1
  <2>2. CASE Deny(r) /\ UNCHANGED policyVars
    BY <1>3, <1>7, <2>2 DEF Deny
  <2>3. CASE Move(r, "send") /\ UNCHANGED policyVars
    BY <1>3, <1>6, <2>3
  <2> QED
    BY <1>13, <2>1, <2>2, <2>3 DEF Decide
<1>14. CASE Send(r)
  <2>1. CASE \E x : Reply(r, x)
    BY <1>5, <2>1
  <2>2. CASE Outcome(r, IF online THEN "success" ELSE "error") /\ UNCHANGED policyVars
    BY <1>3, <1>7, <2>2
  <2> QED
    BY <1>14, <2>1, <2>2 DEF Send
<1>15. CASE ReadTraces(r)
  <2>1. job'[r] # Nil /\ job'[r].at = "save trace"
    BY <1>1, <1>15, ReadTyped, OutcomesAssumption
  <2> QED
    BY <1>3, <1>15, <2>1 DEF ReadTraces
<1>16. CASE OpenTraces(r) \/ FillTraces(r)
  BY <1>3, <1>6, <1>16 DEF OpenTraces, FillTraces
<1>17. CASE Finish(r) \/ Fail(r)
  BY <1>5, <1>17 DEF Finish, Fail
<1> QED
  BY <1>8, <1>10, <1>11, <1>12, <1>13, <1>14, <1>15, <1>16, <1>17 DEF Handle

\* Every step does.
LEMMA NextKeepsAuthorizing ==
  ASSUME PublishInv, JobTypes, AuthorizingOK, [Next]_pubVars
  PROVE  AuthorizingOK'
<1>1. ASSUME NEW r \in Requests, NEW call \in Calls, Receive(r, call)
      PROVE  AuthorizingOK'
  <2>1. /\ UNCHANGED <<mode, request>> /\ job[r] = Nil
        /\ \A s \in Requests : s # r => job'[s] = job[s]
    BY <1>1 DEF Receive, world, policyVars, PublishInv, JobsOK
  <2>2. ~(request[r] # "idle")
    BY <2>1 DEF AuthorizingOK
  <2> QED
    BY <2>1, <2>2 DEF AuthorizingOK
<1>2. ASSUME NEW r \in Requests, Handle(r)
      PROVE  AuthorizingOK'
  BY <1>2, HandleKeepsAuthorizing
<1>3. CASE ChangeSession \/ ChangeRegistrations \/ ChangeLink \/ \E m \in Feed : Hear(m)
  <2>1. UNCHANGED <<mode, request, job>>
    BY <1>3 DEF ChangeSession, ChangeRegistrations, ChangeLink, Hear, Change, Ingest, policyVars
  <2> QED
    BY <2>1 DEF AuthorizingOK
<1>4. CASE Crash
  BY <1>4 DEF Crash, Reboot, AuthorizingOK
<1>5. CASE UNCHANGED pubVars
  BY <1>5 DEF pubVars, policyVars, world, AuthorizingOK
<1> QED
  BY <1>1, <1>2, <1>3, <1>4, <1>5 DEF Next

\* They hold at the start.
LEMMA FirstTypes ==
  ASSUME Init
  PROVE  WorldTypes /\ AuthorizingOK
<1>1. /\ mode \in Settings /\ session = "ready" /\ online = TRUE
      /\ served = 0 /\ changes = 0 /\ handed = {} /\ usage = {} /\ spoiled = FALSE
      /\ answers = [n \in 1..MaxRequests |-> Nil]
      /\ seen = [r \in Requests |-> {}] /\ request = [r \in Requests |-> "idle"]
  BY DEF Init
<1>2. 0 \in 0..MaxChanges
  BY PublishBounds
<1>3. WorldTypes
  BY <1>1, <1>2 DEF WorldTypes
<1>4. AuthorizingOK
  BY <1>1 DEF AuthorizingOK
<1> QED
  BY <1>3, <1>4

\* Every variable of the endpoints has its type, the trace file never more entries
\* than it may, and a thread is in the cache's part of a request only in authorize
\* and after it, for any threads, requests, grants, registrations and settings.
THEOREM PublishTypes == Spec => []PublishTypeOK
<1>1. ASSUME PublishInv, FateInv, JobTypes, CacheInv, WorldTypes, AuthorizingOK
      PROVE  PublishTypeOK
  <2>1. job \in [Requests -> Jobs \cup {Nil}]
    <3>1. \A r \in Requests : job[r] \in Jobs \cup {Nil}
      BY <1>1 DEF JobTypes
    <3> QED
      BY <1>1, <3>1 DEF PublishInv, JobsOK
  <2>2. served \in 0..MaxRequests
    BY <1>1, PublishBounds DEF PublishInv, JobsOK, FateInv
  <2>3. registrations \in Registered \cup {Torn}
    BY <1>1 DEF PublishInv, JobsOK
  <2> QED
    BY <1>1, <2>1, <2>2, <2>3
       DEF PublishTypeOK, CacheInv, JobTypes, WorldTypes, AuthorizingOK
<1>2. Init => WorldTypes /\ AuthorizingOK
  BY FirstTypes
<1>3. /\ PublishInv /\ FateInv /\ JobTypes /\ WorldTypes /\ AuthorizingOK /\ [Next]_pubVars
      => WorldTypes' /\ AuthorizingOK'
  BY NextKeepsWorld, NextKeepsAuthorizing DEF PublishInv
<1> QED
  BY <1>1, <1>2, <1>3, PublishInvariant, FateInvariant, FileInvariant, PublishUsesCache, PTL
     DEF Spec
=============================================================================
