-------------------------------- MODULE Publish --------------------------------
(***************************************************************************)
(* The four endpoints that publish for an addon: app/api/mqtt_publish.py   *)
(* (publish and gateway) and app/api/ha_discovery.py (sensor and state),   *)
(* over the policy cache, the registrations, the topic checks, the trace   *)
(* store and the MQTT client.                                              *)
(*                                                                         *)
(* A request runs on a thread of its own and reads the session file, the   *)
(* cache (twice), and the registrations one after the other; Core, the     *)
(* operator and other requests change them in between.  Its message goes   *)
(* to paho, which keeps it while there is no connection; then it appends   *)
(* its outcome to the trace file, without a lock, and tells the telemetry  *)
(* reporter of a success.                                                  *)
(*                                                                         *)
(* mqtt_service is never None once the application serves requests, so     *)
(* that "MQTT service unavailable" has no action.                          *)
(***************************************************************************)
EXTENDS PolicyCache, Topics, ServiceToken, TraceStore, FiniteSets

CONSTANTS
  Addons,
  Settings,        \* the environments it may be started in: [auth, enforced]
  Now,             \* the second the requests come in
  Calls,           \* the requests clients make: see CallFields
  FirstRegistered, \* what the registrations file says at first
  Registered,      \* what it may say: a record or Nil for each addon
  FirstGrants,     \* the grant the cache starts with
  Feed,            \* messages Core publishes while requests run
  MaxRequests,     \* bound: requests served
  MaxChanges       \* bound: what changes around them, failed writes and crashes

Ops == {"publish", "gateway", "sensor", "state"}

\* addon is Nil, and type is blank, where the endpoint takes none; a gateway
\* request may leave topic blank.  The topic of a sensor is the one the
\* handler makes of its unique_id.
CallFields == {"op", "token", "addon", "topic", "type", "payload"}

ASSUME CallsAssumption ==
  \A c \in Calls :
    /\ DOMAIN c = CallFields /\ c.op \in Ops
    /\ c.addon \in IF c.op = "publish" THEN {Nil} ELSE Addons
    /\ IsTopic(c.topic)
    /\ c.op = "sensor" => c.topic # <<>> /\ c.topic[1] = "homeassistant"
ASSUME RegisteredAssumption ==
  /\ FirstRegistered \in Registered
  /\ \A f \in Registered : DOMAIN f = Addons
  /\ \A f \in Registered, a \in Addons :
       f[a] # Nil => \A s \in f[a].scopes : IsTopic(s) /\ s # <<>>
ASSUME FeedAssumption ==
  /\ Feed \subseteq Messages
  /\ FirstGrants \subseteq
       {m \in GrantMessages : m.service = ServiceName /\ m.status \notin Ended}
ASSUME SettingsAssumption == Settings \subseteq [auth : AuthModes, enforced : BOOLEAN]
ASSUME PublishBounds == {MaxRequests, MaxChanges, Now} \subseteq Nat

VARIABLES
  mode,            \* SYNTHIA_AUTH_REQUIRED, SYNTHIA_POLICY_ENFORCEMENT: [auth, enforced]
  session,         \* setup_state in install_state.json, or Torn
  registrations,   \* mqtt_registrations.json, or Torn
  online,          \* has paho a connection
  traces,          \* mqtt_publish_traces.json, or Torn
  job,             \* the request each thread serves, or Nil
  served, changes,
  handed,          \* messages given to paho: [n, topic, payload], n the request
  usage,           \* requests whose success the telemetry reporter was told of
  answers,         \* what each request was answered, or Nil
  \* history, read by the properties only
  seen,            \* for each request under way, what has held since it came
  heard,           \* the entries appended to the trace file, with their requests
  spoiled          \* have two appends overlapped, or was the file left torn

world == <<mode, session, registrations, online>>
bounds == <<served, changes>>
effects == <<handed, usage, answers>>
record == <<heard, spoiled>>
pubVars ==
  <<policyVars, world, traces, job, bounds, effects, record, seen>>

-----------------------------------------------------------------------------

At(r, step) == job[r] # Nil /\ job[r].at = step
Move(r, step) == job' = [job EXCEPT ![r].at = step]

\* A traced refusal, or a traced outcome.
Outcome(r, outcome) == job' = [job EXCEPT ![r].at = "trace", ![r].outcome = outcome]
Deny(r) == Outcome(r, "denied")

\* The handler returns, or raises an HTTPException.
Reply(r, answer) ==
  /\ answers' = [answers EXCEPT ![job[r].n] = answer]
  /\ job' = [job EXCEPT ![r] = Nil]
  /\ IF request[r] = "idle" THEN UNCHANGED policyVars ELSE Answer(r)

Sub(r) == Subject(mode.auth, job[r].call.token)

\* The Authorization header is checked before the handler runs; the thread is
\* the one whose token it presents.
Receive(r, call) ==
  LET n == served + 1
      accepted == TokenOK(mode.auth, call.token, Scope, Now)
  IN
  /\ job[r] = Nil /\ served < MaxRequests
  /\ HasClaim(call.token, "sub") => call.token.sub = Token[r].sub
  /\ served' = n
  /\ IF accepted
     THEN /\ job' = [job EXCEPT ![r] =
                       [at |-> "gate", n |-> n, call |-> call, registration |-> Nil,
                        outcome |-> Nil, log |-> Nil]]
          /\ UNCHANGED answers
     ELSE /\ answers' = [answers EXCEPT ![n] = "401"]
          /\ UNCHANGED job
  /\ UNCHANGED <<policyVars, world, traces, changes, handed, usage, record>>

GateOpen(s) == s \in {"ready", "degraded"}

\* A session file that does not parse: HTTP 500, and no trace.
CheckGate(r) ==
  /\ At(r, "gate")
  /\ \/ session = Torn /\ Reply(r, "500")
     \/ session # Torn /\ GateOpen(session)
        /\ Move(r, "token") /\ UNCHANGED <<policyVars, answers>>
     \/ session # Torn /\ ~GateOpen(session)
        /\ Deny(r) /\ UNCHANGED <<policyVars, answers>>
  /\ UNCHANGED <<world, traces, bounds, handed, usage, record>>

\* A publish goes on to its own checks, the others look up the addon.
Authorized(r) ==
  Move(r, IF job[r].call.op = "publish" THEN "decide" ELSE "registration")

\* policy_cache.authorize, which PolicyCache has in two steps.
AuthorizeToken(r) ==
  /\ At(r, "token")
  /\ \/ ~mode.enforced /\ Authorized(r) /\ UNCHANGED policyVars
     \/ mode.enforced /\ Sub(r) = Anonymous /\ Deny(r) /\ UNCHANGED policyVars
     \/ /\ mode.enforced /\ Sub(r) # Anonymous
        /\ CheckToken(r)
        /\ IF request'[r] = "checked" THEN Move(r, "grant") ELSE Deny(r)
  /\ UNCHANGED <<world, traces, bounds, effects, record>>

AuthorizeGrant(r) ==
  /\ At(r, "grant")
  /\ CheckGrant(r)
  /\ IF request'[r] = "allowed" THEN Authorized(r) ELSE Deny(r)
  /\ UNCHANGED <<world, traces, bounds, effects, record>>

\* get_registration: Nil in a file that does not parse.
Registration(addon) == IF registrations = Torn THEN Nil ELSE registrations[addon]

LookUp(r) ==
  LET found == Registration(job[r].call.addon) IN
  /\ At(r, "registration")
  /\ IF found = Nil THEN Deny(r)
     ELSE job' = [job EXCEPT ![r].at = "decide", ![r].registration = found]
  /\ UNCHANGED <<policyVars, world, traces, bounds, effects, record>>

-----------------------------------------------------------------------------
(* What a handler decides without looking at anything shared.              *)

TopicOf(call) ==
  IF call.op = "gateway" /\ call.topic = <<>>
  THEN Append(Namespace(call.addon), call.type) ELSE call.topic

\* The gateway wraps the payload in an envelope of its own, the sensor handler
\* builds one of Home Assistant's.
Envelope(call) ==
  [type |-> call.type, source_addon_id |-> call.addon, timestamp |-> "now",
   data |-> call.payload]
PayloadOf(call) == IF call.op = "gateway" THEN Envelope(call) ELSE call.payload

\* The addon whose namespace binds the request.
Publisher(r) == IF job[r].call.op = "publish" THEN Sub(r) ELSE job[r].call.addon

\* Mutant: the gateway relies on the namespace alone.
ScopesIgnored(r) == TRUE
ScopesOK(r) ==
  job[r].call.op = "gateway" =>
    CoveredBy(TopicOf(job[r].call), job[r].registration.scopes)

Acceptable(r) ==
  LET call == job[r].call
      op == call.op
  IN
  /\ op \in {"sensor", "state"} => job[r].registration.ha
  /\ op # "sensor" => PublishTopicOK(TopicOf(call), Publisher(r))
  /\ ScopesOK(r)
  /\ op \in {"publish", "gateway"} => EnvelopeOK(TopicOf(call), PayloadOf(call))

NoType(r) == job[r].call.op = "gateway" /\ job[r].call.type = Blank

Decide(r) ==
  /\ At(r, "decide")
  /\ \/ NoType(r) /\ Reply(r, "422")
     \/ ~NoType(r) /\ Acceptable(r)
        /\ Move(r, "send") /\ UNCHANGED <<policyVars, answers>>
     \/ ~NoType(r) /\ ~Acceptable(r)
        /\ Deny(r) /\ UNCHANGED <<policyVars, answers>>
  /\ UNCHANGED <<world, traces, bounds, handed, usage, record>>

-----------------------------------------------------------------------------
(* The message, its trace and its usage.                                   *)

Message(r) ==
  [n |-> job[r].n, topic |-> TopicOf(job[r].call), payload |-> PayloadOf(job[r].call)]

\* A unique_id with a wildcard: paho raises, HTTP 500, no trace.
Unsendable(r) == \E i \in DOMAIN Message(r).topic : Message(r).topic[i] \in WildcardLike

\* mqtt_service.publish.  paho has the message even when it reports an error
\* because there is no connection.
Send(r) ==
  /\ At(r, "send")
  /\ \/ Unsendable(r) /\ Reply(r, "500") /\ UNCHANGED handed
     \/ /\ ~Unsendable(r)
        /\ handed' = handed \cup {Message(r)}
        /\ Outcome(r, IF online THEN "success" ELSE "error")
        /\ UNCHANGED <<policyVars, answers>>
  /\ UNCHANGED <<world, traces, bounds, usage, record>>

\* The addon of an entry: addon_id is the caller's sub on the publish endpoint.
Entry(r) == [op |-> job[r].call.op, addon |-> Publisher(r), outcome |-> job[r].outcome]

Appending == {r \in Requests : At(r, "save trace") \/ At(r, "fill trace")}

ReadTraces(r) ==
  /\ At(r, "trace")
  /\ job' = [job EXCEPT ![r].at = "save trace", ![r].log = Loaded(traces)]
  /\ spoiled' = (spoiled \/ Appending # {})
  /\ UNCHANGED <<policyVars, world, traces, bounds, effects, heard>>

OpenTraces(r) ==
  /\ At(r, "save trace") /\ Move(r, "fill trace")
  /\ traces' = Torn
  /\ UNCHANGED <<policyVars, world, bounds, effects, record>>

FillTraces(r) ==
  /\ At(r, "fill trace") /\ Move(r, "answer")
  /\ traces' = WithEntry(job[r].log, Entry(r))
  /\ heard' = Append(heard, [n |-> job[r].n, entry |-> Entry(r)])
  /\ UNCHANGED <<policyVars, world, bounds, effects, spoiled>>

\* Mutant: usage is counted for every message that reaches paho.
Attempted(r) == job[r].outcome \in {"success", "error"}
Succeeded(r) == job[r].outcome = "success"

AnswerOf(outcome) ==
  CASE outcome = "success" -> "ok" [] outcome = "denied" -> "4xx" [] outcome = "error" -> "500"

\* telemetry_reporter.enqueue_usage, and the answer.
Finish(r) ==
  /\ At(r, "answer")
  /\ usage' = IF Succeeded(r) THEN usage \cup {job[r].n} ELSE usage
  /\ Reply(r, AnswerOf(job[r].outcome))
  /\ UNCHANGED <<world, traces, bounds, handed, record>>

\* The trace file cannot be written, or enqueue_usage raises (Telemetry says
\* when): HTTP 500, whatever the request has done by then.
Fail(r) ==
  /\ \/ At(r, "save trace") \/ At(r, "fill trace")
     \/ At(r, "answer") /\ Succeeded(r)
  /\ changes < MaxChanges /\ changes' = changes + 1
  /\ Reply(r, "500")
  /\ spoiled' = (spoiled \/ At(r, "fill trace"))
  /\ UNCHANGED <<world, traces, served, handed, usage, heard>>

Handle(r) ==
  \/ CheckGate(r) \/ AuthorizeToken(r) \/ AuthorizeGrant(r) \/ LookUp(r) \/ Decide(r)
  \/ Send(r) \/ ReadTraces(r) \/ OpenTraces(r) \/ FillTraces(r) \/ Finish(r) \/ Fail(r)

-----------------------------------------------------------------------------
(* What happens around the requests.                                       *)

Change ==
  /\ changes < MaxChanges /\ changes' = changes + 1
  /\ UNCHANGED <<mode, traces, job, served, effects, record>>

\* The setup handlers write the session file.
ChangeSession ==
  /\ Change
  /\ session' \in {"ready", "degraded", "configuring", Torn} \ {session}
  /\ UNCHANGED <<policyVars, registrations, online>>

\* A registration request writes the registrations file.
ChangeRegistrations ==
  /\ Change
  /\ registrations' \in (Registered \cup {Torn}) \ {registrations}
  /\ UNCHANGED <<policyVars, session, online>>

ChangeLink ==
  /\ Change
  /\ online' = ~online
  /\ UNCHANGED <<policyVars, session, registrations>>

\* The cache takes no message while enforcement is off.
Hear(m) ==
  /\ Change /\ mode.enforced
  /\ Ingest(m)
  /\ UNCHANGED <<session, registrations, online>>

\* The process dies and is started again; it comes back without a connection.
Crash ==
  /\ changes < MaxChanges /\ changes' = changes + 1
  /\ Reboot
  /\ job' = [r \in Requests |-> Nil]
  /\ online' = FALSE
  /\ spoiled' = (spoiled \/ traces = Torn)
  /\ UNCHANGED <<mode, session, registrations, traces, served, effects, heard>>

-----------------------------------------------------------------------------
(* The conditions a message depends on.                                    *)

Conditions == {"setup", "not revoked", "granted", "registered"}

\* Does the registration let the request through?  The gateway's scopes are read
\* as MQTT reads them.
RegistrationAllows(call) ==
  LET found == Registration(call.addon) IN
  /\ found # Nil
  /\ call.op \in {"sensor", "state"} => found.ha
  /\ call.op = "gateway" => \E f \in found.scopes : MqttMatches(f, TopicOf(call))

Holds(condition, r) ==
  CASE condition = "setup" -> session \in {"ready", "degraded"}
    [] condition = "not revoked" -> mode.enforced => Token[r].jti \notin revokedJti
    [] condition = "granted" -> mode.enforced => Sub(r) # Anonymous /\ GrantGood(Sub(r))
    [] condition = "registered" ->
         job[r].call.op # "publish" => RegistrationAllows(job[r].call)

Holding(r) == {c \in Conditions : Holds(c, r)}

\* A request has seen what held when it came and after every step since; what
\* holds after its message went out no longer matters.
Waiting(r) ==
  job[r] # Nil /\ job[r].at \in {"gate", "token", "grant", "registration", "decide", "send"}
Observe ==
  seen' = [r \in Requests |->
             IF Waiting(r)' THEN Holding(r)' \cup IF Waiting(r) THEN seen[r] ELSE {} ELSE {}]

\* An outcome that was traced before: a registration's.
Earlier == [op |-> "registration", addon |-> CHOOSE a \in Addons : TRUE, outcome |-> "success"]

Init ==
  /\ mode \in Settings
  /\ IF mode.enforced
     THEN \E m \in FirstGrants : grants = [c \in Consumers |-> IF c = m.consumer THEN Record(m) ELSE Nil]
     ELSE grants = [c \in Consumers |-> Nil]
  /\ revokedJti = {} /\ revokedGrantIds = {} /\ revokedConsumers = {}
  /\ request = [r \in Requests |-> "idle"]
  /\ online = TRUE
  /\ session = "ready"
  /\ registrations = FirstRegistered
  /\ traces = <<Earlier>>
  /\ job = [r \in Requests |-> Nil]
  /\ served = 0 /\ changes = 0
  /\ handed = {} /\ usage = {} /\ answers = [n \in 1..MaxRequests |-> Nil]
  /\ seen = [r \in Requests |-> {}]
  /\ heard = <<[n |-> 0, entry |-> Earlier]>> /\ spoiled = FALSE

Next ==
  /\ \/ \E r \in Requests, call \in Calls : Receive(r, call)
     \/ \E r \in Requests : Handle(r)
     \/ ChangeSession \/ ChangeRegistrations \/ ChangeLink
     \/ \E m \in Feed : Hear(m)
     \/ Crash
  /\ Observe

Spec == Init /\ [][Next]_pubVars

-----------------------------------------------------------------------------
(* GET /api/mqtt/metrics, from the latest traces.                          *)

IsPublish(entry) == entry.op \in Ops

\* per_addon_usage
Count(addon, outcome) ==
  LET recent == Recent(traces, 1000)
  IN Cardinality({i \in DOMAIN recent : /\ IsPublish(recent[i]) /\ recent[i].addon = addon
                                        /\ recent[i].outcome = outcome})

-----------------------------------------------------------------------------
(* Properties.                                                             *)

Outcomes == {"success", "denied", "error"}
Answers == {"ok", "401", "4xx", "422", "500"}
Publishers == Addons \cup Consumers \cup {Anonymous}
Entries == [op : Ops \cup {"registration"}, addon : Publishers, outcome : Outcomes]
RecordsIn(f) == (UNION {{g[a] : a \in Addons} : g \in f}) \ {Nil}
Steps ==
  {"gate", "token", "grant", "registration", "decide", "send", "trace", "save trace",
   "fill trace", "answer"}
Jobs ==
  [at : Steps, n : 1..MaxRequests, call : Calls, registration : RecordsIn(Registered) \cup {Nil},
   outcome : Outcomes \cup {Nil}, log : Seq(Entries) \cup {Nil}]
ASSUME OutcomesAssumption ==
  Addons # {} /\ Nil \notin Answers /\ Nil \notin Jobs /\ Torn \notin Seq(Entries)

\* Every variable has its type, the file of traces never more entries than it
\* may, and a thread is in PolicyCache's part of a request only during authorize
\* and what follows it.
PublishTypeOK ==
  /\ PolicyTypeOK
  /\ mode \in Settings /\ online \in BOOLEAN
  /\ session \in {"ready", "degraded", "configuring", Torn}
  /\ registrations \in Registered \cup {Torn}
  /\ traces # Torn => traces \in Seq(Entries) /\ Len(traces) <= MaxEntries
  /\ job \in [Requests -> Jobs \cup {Nil}]
  /\ served \in 0..MaxRequests /\ changes \in 0..MaxChanges
  /\ usage \subseteq 1..served /\ {m.n : m \in handed} \subseteq 1..served
  /\ answers \in [1..MaxRequests -> Answers \cup {Nil}]
  /\ seen \in [Requests -> SUBSET Conditions]
  /\ spoiled \in BOOLEAN
  /\ \A r \in Requests : request[r] # "idle" =>
       mode.enforced /\ job[r] # Nil /\ job[r].at \notin {"gate", "token"}

\* A message goes out only for a request that met every condition while it was
\* under way: a finished setup, no revocation of its token, a grant in force, and
\* a registration that allows it.  So one that began after a revocation, a
\* suspension or a change of the registration never gets through, whatever else
\* changes as it runs, while one that met each condition at some point may, even
\* if it never met all of them at once.  Its topic is the caller's or the registered addon's own, never
\* reserved, and what the publish and gateway endpoints put on a platform topic
\* has an envelope.
SentWhileAllowed ==
  [][\A r \in Requests : At(r, "send") =>
       \A m \in handed' \ handed : m.n = job[r].n =>
         /\ Conditions \subseteq seen[r]
         /\ ~IsReserved(m.topic)
         /\ job[r].call.op # "sensor" /\ Publisher(r) # Anonymous =>
              Under(m.topic, Namespace(Publisher(r)))
         /\ job[r].call.op \in {"publish", "gateway"} /\ IsPlatform(m.topic) =>
              {"type", "source_addon_id", "timestamp", "data"} \subseteq DOMAIN m.payload]_pubVars

\* What the addon is told, what went out, what was traced and what is billed
\* agree, for overlapping requests, failed writes and crashes.  A success was
\* handed over, traced and reported; a refusal was not handed over, and traced,
\* save for a bad token and for a gateway request without a type; usage is
\* reported for no other request.  Short of appends that overlap or are cut off, the trace file
\* has the newest outcomes in order, and the metrics count exactly those.
Traced(n) == {heard[i].entry.outcome : i \in {j \in DOMAIN heard : heard[j].n = n}}
Newest == {i \in DOMAIN heard : i > Len(heard) - MaxEntries}
OutcomesAgree ==
  /\ \A n \in 1..served :
       LET out == \E m \in handed : m.n = n IN
       /\ answers[n] = "ok" => out /\ n \in usage /\ Traced(n) = {"success"}
       /\ answers[n] = "4xx" => ~out /\ Traced(n) = {"denied"}
       /\ answers[n] \in {"401", "422"} => ~out /\ Traced(n) = {}
       /\ n \in usage => answers[n] = "ok"
       /\ Traced(n) \cap {"success", "error"} # {} => out
  /\ ~spoiled /\ traces # Torn =>
       /\ traces = [i \in 1..Cardinality(Newest) |->
                      heard[Len(heard) - Cardinality(Newest) + i].entry]
       /\ \A a \in Publishers, o \in Outcomes :
            Count(a, o) = Cardinality({i \in Newest : /\ heard[i].n > 0 /\ heard[i].entry.addon = a
                                                      /\ heard[i].entry.outcome = o})
=============================================================================
