------------------------------ MODULE PolicyFeed ------------------------------
(***************************************************************************)
(* The policy cache behind its MQTT subscription: Core publishes retained  *)
(* grants and revocations, the broker keeps the last message of each topic *)
(* and forwards the others, and the client (app/services/mqtt_client.py)   *)
(* subscribes again on every connection and hands each message to the      *)
(* cache.  Core and the broker are external: the broker handles the        *)
(* packets of one connection in order, and a clean session loses what was  *)
(* in flight when it ends.                                                 *)
(***************************************************************************)
EXTENDS PolicyCache, Naturals, Sequences, SequencesExt

CONSTANTS
  CoreMessages,    \* the messages Core may publish
  MaxPublishes,    \* bound: messages Core publishes or clears
  MaxBreaks        \* bound: lost connections and restarts of the process

ASSUME CoreAssumption == CoreMessages \subseteq Messages
ASSUME FeedBounds == MaxPublishes \in Nat /\ MaxBreaks \in Nat

VARIABLES
  retained,    \* broker: the last message of each topic
  link,        \* "down", "connected", "half" subscribed or "live"
  inflight,    \* broker to client, in order
  published,   \* messages Core has published or cleared
  breaks,      \* lost connections and restarts so far
  \* history, read by the properties only
  word,        \* Core's last word about each consumer
  heard,       \* consumers whose revocation, Core's last word, has been ingested
  barred       \* requests whose token was revoked when they came in

feedVars == <<retained, link, inflight, published, breaks>>
historyVars == <<word, heard, barred>>
vars == <<policyVars, feedVars, historyVars>>

\* One topic per grant and per target of a revocation.
Topic(m) ==
  IF m.kind = "grant" THEN <<m.kind, m.id>> ELSE <<m.kind, m.jti, m.id, m.consumer>>
RetainedOf(kind) == {m \in retained : m.kind = kind}

\* Mutant: the revocations are subscribed to before the grants.
RevocationsFirst == "revocation"
\* _subscribe_policy_topics subscribes to the grants, then to the revocations.
FirstSubscribed == "grant"
SecondSubscribed == IF FirstSubscribed = "grant" THEN "revocation" ELSE "grant"

Subscribed(kind) ==
  link = "live" \/ (link = "half" /\ kind = FirstSubscribed)

Init ==
  /\ PolicyInit
  /\ retained = {} /\ link = "down" /\ inflight = <<>>
  /\ published = 0 /\ breaks = 0
  /\ word = [c \in Consumers |-> "none"]
  /\ heard = {} /\ barred = {}

-----------------------------------------------------------------------------
(* Core and the broker.                                                    *)

WordOf(m) ==
  IF m.kind = "revocation" THEN "revoked"
  ELSE IF m.status = "active" THEN "granted" ELSE "ended"

Publish(m) ==
  /\ published < MaxPublishes
  /\ published' = published + 1
  /\ retained' = {x \in retained : Topic(x) # Topic(m)} \cup {m}
  /\ inflight' = IF Subscribed(m.kind) THEN Append(inflight, m) ELSE inflight
  /\ word' = [c \in Consumers |-> IF c = m.consumer THEN WordOf(m) ELSE word[c]]
  /\ heard' = heard \ {m.consumer}
  /\ UNCHANGED <<policyVars, link, breaks, barred>>

\* Core clears a retained message.  Its empty payload is no JSON object: the
\* cache ignores it, and only later connections see the difference.
Clear(m) ==
  LET withdrawn == {c \in Consumers : c = m.consumer /\ word[c] = WordOf(m)} IN
  /\ published < MaxPublishes
  /\ published' = published + 1
  /\ retained' = retained \ {m}
  /\ word' = [c \in Consumers |-> IF c \in withdrawn THEN "none" ELSE word[c]]
  /\ heard' = heard \ withdrawn
  /\ UNCHANGED <<policyVars, link, inflight, breaks, barred>>

-----------------------------------------------------------------------------
(* The client.                                                             *)

\* Mutant: only the first connection subscribes.
SubscribesOnce == IF breaks = 0 THEN "connected" ELSE "live"
\* A new session holds no subscription; _on_connect makes them again.
AfterConnect == "connected"

Connect ==
  /\ link = "down"
  /\ link' = AfterConnect
  /\ UNCHANGED <<policyVars, retained, inflight, published, breaks, historyVars>>

\* The broker answers a subscription with the retained messages, in any order.
Subscribe(kind, from, to) ==
  /\ link = from
  /\ link' = to
  /\ \E s \in SetToSeqs(RetainedOf(kind)) : inflight' = inflight \o s
  /\ UNCHANGED <<policyVars, retained, published, breaks, historyVars>>

SubscribeFirst == Subscribe(FirstSubscribed, "connected", "half")
SubscribeSecond == Subscribe(SecondSubscribed, "half", "live")

\* _on_message: the network thread is free once _on_connect has returned.
Deliver ==
  /\ link = "live" /\ inflight # <<>>
  /\ Ingest(Head(inflight))
  /\ inflight' = Tail(inflight)
  /\ heard' = heard \cup
       {c \in Consumers : /\ Head(inflight).kind = "revocation"
                          /\ c = Head(inflight).consumer
                          /\ word[c] = "revoked"}
  /\ UNCHANGED <<retained, link, published, breaks, word, barred>>

Break ==
  /\ breaks < MaxBreaks
  /\ breaks' = breaks + 1
  /\ link' = "down" /\ inflight' = <<>>
  /\ UNCHANGED <<retained, published>>

Disconnect == link # "down" /\ Break /\ UNCHANGED <<policyVars, historyVars>>

Restart ==
  /\ Break
  /\ Reboot
  /\ heard' = {} /\ barred' = {}
  /\ UNCHANGED word

-----------------------------------------------------------------------------
(* Requests.                                                               *)

Serve(r) ==
  /\ Authorize(r)
  /\ barred' = CASE CheckToken(r) /\ Token[r].jti \in revokedJti -> barred \cup {r}
                 [] Answer(r) -> barred \ {r}
                 [] OTHER -> barred
  /\ UNCHANGED <<feedVars, word, heard>>

Next ==
  \/ \E m \in CoreMessages : Publish(m)
  \/ \E m \in retained : Clear(m)
  \/ Connect \/ SubscribeFirst \/ SubscribeSecond \/ Deliver
  \/ Disconnect \/ Restart
  \/ \E r \in Requests : Serve(r)

Spec == Init /\ [][Next]_vars

\* paho reconnects, _on_connect and _on_message run when they have something to
\* do.  Core need not publish; requests need not come.
Fairness ==
  /\ WF_vars(Connect) /\ WF_vars(SubscribeFirst) /\ WF_vars(SubscribeSecond)
  /\ WF_vars(Deliver)
FairSpec == Spec /\ Fairness

-----------------------------------------------------------------------------
(* Properties.                                                             *)

\* Once everything the broker has for a connection is ingested, a consumer whose
\* revocation is Core's last word is refused: the revocations come after the
\* grants of the same burst, whatever order each topic filter is served in.
RevokedWhenQuiet ==
  link = "live" /\ inflight = <<>> =>
    \A c \in Consumers : word[c] = "revoked" => ~GrantGood(c)

\* A request that came in after its token was revoked is never let through, even
\* if grants arrive and the connection is renewed before it is decided.
NoBarredRequestAllowed ==
  \A r \in barred : request[r] # "allowed"

\* A revocation reaches the cache even if Core publishes it while the addon is
\* not connected, unless Core says something else about the consumer first.
RevocationArrives ==
  \A c \in Consumers : word[c] = "revoked" ~> c \in heard \/ word[c] # "revoked"

\* docs/api.md: "Revocations are enforced from cached retained messages".  Once
\* ingested, a revocation that is Core's last word stays in force.
RevocationStaysInForce ==
  \A c \in heard : ~GrantGood(c)
=============================================================================
