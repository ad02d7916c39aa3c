-------------------------------- MODULE Topics --------------------------------
(***************************************************************************)
(* app/services/topic_permissions.py and envelope_validation.py: which     *)
(* topics a publish may name, which topics a registration's scopes cover,  *)
(* and which payloads a platform topic takes.                              *)
(*                                                                         *)
(* A topic, or a filter, is the sequence of its levels.  Two questions the *)
(* code asks of the characters of a level are sets of levels here.  White  *)
(* space around a topic is gone (strip), and no addon id has a slash.      *)
(***************************************************************************)
EXTENDS Naturals, Sequences

CONSTANTS
  WildcardLike,    \* levels with a "+" or a "#" in them
  LifecycleLike    \* levels that begin with "announce" or "health"

ASSUME WildcardAssumption == {"+", "#"} \subseteq WildcardLike
ASSUME LifecycleAssumption == {"announce", "health"} \subseteq LifecycleLike

IsTopic(t) == t \in Seq({t[i] : i \in DOMAIN t})

-----------------------------------------------------------------------------
(* _mqtt_topic_matches.                                                    *)

\* The loop returns at level i of the filter if it gets there.
Returns(filter, topic, i) ==
  \/ filter[i] = "#"
  \/ i > Len(topic)
  \/ filter[i] # "+" /\ filter[i] # topic[i]

\* It is TRUE when the loop ends with no level left of either, or returns at
\* a "#" that is the last level of the filter.
Matches(filter, topic) ==
  \/ /\ \A i \in 1..Len(filter) : ~Returns(filter, topic, i)
     /\ Len(topic) = Len(filter)
  \/ \E i \in 1..Len(filter) :
       /\ \A j \in 1..(i - 1) : ~Returns(filter, topic, j)
       /\ filter[i] = "#" /\ i = Len(filter)

\* The reference, MQTT 4.7.1: "+" stands for one level, and a last "#" for the
\* parent level and everything below it.
LevelFits(filter, topic, i) ==
  filter[i] # "#" /\ (filter[i] = "+" \/ filter[i] = topic[i])

MqttMatches(filter, topic) ==
  LET n == Len(filter) IN
  \/ /\ Len(topic) = n
     /\ \A i \in 1..n : LevelFits(filter, topic, i)
  \/ /\ filter[n] = "#" /\ Len(topic) >= n - 1
     /\ \A i \in 1..(n - 1) : LevelFits(filter, topic, i)

\* topic_allowed_by_scopes
CoveredBy(topic, scopes) == \E f \in scopes : Matches(f, topic)

-----------------------------------------------------------------------------
(* The namespaces.                                                         *)

Under(topic, prefix) ==
  /\ Len(topic) > Len(prefix)
  /\ SubSeq(topic, 1, Len(prefix)) = prefix

Reserved == {"system", "core", "supervisor", "scheduler", "policy", "telemetry"}
IsReserved(topic) == \E x \in Reserved : Under(topic, <<"synthia", x>>)

Namespace(addon) == <<"synthia", "addons", addon>>

\* _validate_lifecycle_pattern: announce and health are topics of the addon
\* itself, never nested.  (The code looks for "/announce" and "/health", so
\* that a first level of that name may have levels below it.)
LifecycleOK(topic, addon) ==
  Under(topic, Namespace(addon)) => \A i \in 5..Len(topic) : topic[i] \notin LifecycleLike

\* validate_publish_topic.  A caller without an addon id is Anonymous: no
\* namespace binds it.
Anonymous == "anonymous"

PublishTopicOK(topic, addon) ==
  /\ topic # <<>>
  /\ \A i \in 1..Len(topic) : topic[i] \notin WildcardLike
  /\ ~IsReserved(topic)
  /\ addon # Anonymous => Under(topic, Namespace(addon)) /\ LifecycleOK(topic, addon)

-----------------------------------------------------------------------------
(* validate_platform_envelope.                                             *)

MessageTypes ==
  {"announce", "health", "event", "state", "command", "telemetry", "policy"}

IsPlatform(topic) == Under(topic, <<"synthia", "addons">>) \/ IsReserved(topic)

\* A JSON object is a record of the fields it has; anything else is no record,
\* and Plain stands for it.  A blank text is no text.
Plain == [plain |-> TRUE]
Blank == ""
HasText(payload, field) == field \in DOMAIN payload /\ payload[field] # Blank

EnvelopeOK(topic, payload) ==
  IsPlatform(topic) =>
    /\ payload # Plain
    /\ HasText(payload, "type") /\ payload.type \in MessageTypes
    /\ HasText(payload, "source_addon_id")
    /\ HasText(payload, "timestamp")
    /\ "data" \in DOMAIN payload
=============================================================================
