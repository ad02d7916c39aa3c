-------------------------------- MODULE Setup --------------------------------
(***************************************************************************)
(* The setup of the addon: the handlers of app/api/install_workflow.py,    *)
(* broker_admin.py and addon_contract.py that change it, over the two      *)
(* files of app/services/config_store.py, config.json and                  *)
(* install_state.json, and the MQTT client they reload.                    *)
(*                                                                         *)
(* A handler is a list of steps that its thread works through.  An update  *)
(* of a file is three of them, which no lock holds together: read, open    *)
(* (which truncates) and fill.  Between two steps another request may run, *)
(* a step may raise, and the process may die.                              *)
(*                                                                         *)
(* The mode kept in install_state.json is left out: every read replaces it *)
(* by the one of config.json (get_install_session_state).                  *)
(***************************************************************************)
EXTENDS Integers, Sequences, FiniteSets

CONSTANTS
  Threads,      \* threads that serve setup requests
  MaxActive,    \* bound: requests under way at once
  Endpoints,    \* external brokers an operator may enter
  Embedded,     \* the embedded broker's endpoint
  Nil,          \* nothing: no request, no endpoint chosen
  Torn,         \* a file truncated and not filled, or garbled: json.load raises
  Missing       \* no such file

ASSUME EndpointsAssumption ==
  /\ Embedded \notin Endpoints
  /\ Nil \notin Endpoints \cup {Embedded}
ASSUME MaxActiveAssumption == MaxActive \in Nat \ {0}

VARIABLES
  session,      \* install_state.json: a record, Torn or Missing
  conf,         \* config.json: a record or Torn; no file reads as NoConf
  brokerGroup,  \* does desired.json request the "broker" group
  up,           \* is the process running
  client,       \* the endpoint the MQTT client was started with; Nil for the
                \* defaults of the environment, or no client
  req,          \* the request each thread serves, or Nil
  todo,         \* the steps left of its handler
  stage,        \* how far the file update at the head of todo has come
  view,         \* the content that update has read
  failed,       \* has the handler met an error
  \* history, read by the properties only
  last,         \* what the last request that settles the setup did
  okTests       \* endpoints that have passed a connection test

files == <<session, conf, brokerGroup>>
handlers == <<req, todo, stage, view, failed>>
history == <<last, okTests>>
vars == <<files, up, client, handlers, history>>

NoConf == [mode |-> Nil, endpoint |-> Nil]

\* _default_install_session_state.  tested stands for external_test_ok and
\* external_test_signature, which are always written together.
DefaultSession ==
  [setup |-> "unconfigured", configured |-> FALSE, verified |-> FALSE,
   registered |-> FALSE, error |-> FALSE, tested |-> Nil]

Override(old, set) ==
  [f \in DOMAIN old |-> IF f \in DOMAIN set THEN set[f] ELSE old[f]]

\* get_install_session_state: a missing file loads as {}, which is a dict, so
\* the defaults stand and nothing is rebuilt from config.json.
SessionRead == IF session = Missing THEN DefaultSession ELSE session
SessionReadable == session # Torn /\ conf # Torn

-----------------------------------------------------------------------------
(* The handlers.                                                           *)

\* try: an exception of this step is caught and recorded as setup_state=error.
Step(do, set, try) == [do |-> do, set |-> set, try |-> try]
UpdateSession(set) == Step("session", set, FALSE)
\* Mutant: an error leaves the configured flag that apply_install_config has set.
ErroredConfigured == [setup |-> "error", verified |-> FALSE, error |-> TRUE]
Errored == [setup |-> "error", configured |-> FALSE, verified |-> FALSE, error |-> TRUE]
None == [nothing |-> TRUE]      \* an update that changes none of these fields

\* Mutant: the apply does not mark the setup first.
Unmarked == <<>>
\* apply_install marks the setup before it does anything else.
Marked ==
  <<UpdateSession([setup |-> "configuring", configured |-> FALSE,
                   verified |-> FALSE, error |-> FALSE])>>

\* apply_install_config, inside the handler's try.
ApplyConfig(mode, endpoint) ==
  <<Step("conf", [mode |-> mode, endpoint |-> endpoint], TRUE),
    Step("session", [configured |-> TRUE, error |-> FALSE], TRUE)>>

\* Mutant: nobody asks the supervisor for the broker.
BrokerFilesOnly == <<Step("broker files", None, TRUE)>>
\* apply_embedded_runtime, then the "broker" group in the desired state.
BrokerSteps == <<Step("broker files", None, TRUE), Step("broker group", None, TRUE)>>

\* Mutant: the setup is declared ready and the client keeps its old settings.
ReadyUnloaded ==
  <<UpdateSession([setup |-> "ready", configured |-> TRUE, verified |-> TRUE,
                   error |-> FALSE])>>
\* Reload the client, then declare the setup ready.
ReloadAndReady ==
  <<Step("reload", None, FALSE),
    UpdateSession([setup |-> "ready", configured |-> TRUE, verified |-> TRUE,
                   error |-> FALSE])>>

\* POST /api/install/apply
ApplyExternal(r) ==
  Marked \o (IF r.waived THEN <<>> ELSE <<Step("check", None, FALSE)>>)
    \o ApplyConfig("external", r.endpoint) \o ReloadAndReady
ApplyEmbedded ==
  Marked \o ApplyConfig("embedded", Embedded) \o BrokerSteps \o ReloadAndReady

\* POST /api/install/mode
SetMode(r) ==
  <<Step("conf", [mode |-> r.mode], FALSE),
    UpdateSession([setup |-> "configuring", configured |-> FALSE, verified |-> FALSE,
                   error |-> FALSE])>>

\* POST /api/install/core-base-url
SetCoreUrl == <<Step("conf", None, FALSE), Step("desired", None, FALSE)>>

\* POST /api/install/optional-groups and its reset
SetGroups == <<Step("select", None, FALSE), UpdateSession(None)>>

\* POST /api/addon/config
UpdateConfig(r) ==
  <<Step("conf", [endpoint |-> r.endpoint], FALSE), Step("reload", None, FALSE)>>

Handler(r) ==
  CASE r.kind = "apply external" -> ApplyExternal(r)
    [] r.kind = "apply embedded" -> ApplyEmbedded
    [] r.kind = "mode"     -> SetMode(r)
    [] r.kind = "test"     -> <<Step("probe", None, FALSE)>>
    [] r.kind = "register" -> <<Step("core", None, FALSE)>>
    [] r.kind = "restart"  -> <<Step("docker", None, FALSE)>>
    [] r.kind = "reset"    -> <<Step("reset", None, FALSE)>>
    [] r.kind = "core url" -> SetCoreUrl
    [] r.kind = "groups"   -> SetGroups
    [] r.kind = "config"   -> UpdateConfig(r)

Requests ==
  [kind : {"apply external"}, endpoint : Endpoints, waived : BOOLEAN]
    \cup [kind : {"mode"}, mode : {"external", "embedded"}]
    \cup [kind : {"test", "config"}, endpoint : Endpoints]
    \cup [kind : {"groups"}, broker : BOOLEAN]
    \cup [kind : {"apply embedded", "register", "restart", "reset", "core url"}]

IsApply(r) == r.kind \in {"apply external", "apply embedded"}
Busy == {t \in Threads : req[t] # Nil}
At(t, do) == req[t] # Nil /\ todo[t] # <<>> /\ todo[t][1].do = do

\* The step is done; the handler goes on with what is left of it.
Done(t) ==
  /\ todo' = [todo EXCEPT ![t] = Tail(todo[t])]
  /\ UNCHANGED <<req, stage, view, failed>>

\* The step is done and the handler goes on with these steps instead.
GoOn(t, steps) ==
  /\ todo' = [todo EXCEPT ![t] = steps]
  /\ UNCHANGED <<req, stage, view, failed>>

\* The step raises: the handler records the error if it catches it, and fails.
Raise(t) ==
  /\ failed' = [failed EXCEPT ![t] = TRUE]
  /\ todo' = [todo EXCEPT ![t] =
       IF todo[t][1].try THEN <<UpdateSession(Errored)>> ELSE <<>>]
  /\ stage' = [stage EXCEPT ![t] = "start"]
  /\ view' = [view EXCEPT ![t] = Nil]
  /\ UNCHANGED req

-----------------------------------------------------------------------------

Init ==
  /\ session = Missing /\ conf = NoConf /\ brokerGroup = FALSE
  /\ up = TRUE /\ client = Nil
  /\ req = [t \in Threads |-> Nil]
  /\ todo = [t \in Threads |-> <<>>]
  /\ stage = [t \in Threads |-> "start"]
  /\ view = [t \in Threads |-> Nil]
  /\ failed = [t \in Threads |-> FALSE]
  /\ last = "none" /\ okTests = {}

Start(t, r) ==
  /\ up /\ req[t] = Nil /\ Cardinality(Busy) < MaxActive
  /\ req' = [req EXCEPT ![t] = r]
  /\ todo' = [todo EXCEPT ![t] = Handler(r)]
  /\ failed' = [failed EXCEPT ![t] = FALSE]
  /\ UNCHANGED <<files, up, client, stage, view, history>>

\* What the handler of t settles when a write of install_state.json ends it.
Settled(t) ==
  LET kind == req[t].kind IN
  IF Tail(todo[t]) # <<>> THEN last
  ELSE IF IsApply(req[t]) THEN IF failed[t] THEN "apply failed" ELSE "apply ok"
  ELSE IF kind \in {"mode", "test", "reset"} THEN kind ELSE last

Answer(t) ==
  /\ req[t] # Nil /\ todo[t] = <<>>
  /\ req' = [req EXCEPT ![t] = Nil]
  /\ UNCHANGED <<files, up, client, todo, stage, view, failed, history>>

-----------------------------------------------------------------------------
(* Updates of the files: update_install_session_state, and _load_overrides *)
(* followed by _save_overrides.                                            *)

Enter(t, s) == stage' = [stage EXCEPT ![t] = s]

\* What a write leaves in a file that held old: if another thread has filled it
\* since this one truncated it, what is longer there survives behind the new
\* content, and the file is no JSON any more.
Written(new, old) == {new} \cup IF old \in {Torn, new} THEN {} ELSE {Torn}

\* The file cannot be opened, or the disk is full when it is filled.
WriteFails(t) ==
  /\ At(t, "session") \/ At(t, "conf") \/ At(t, "reset")
  /\ stage[t] \in {"read", "open"} \/ At(t, "reset")
  /\ Raise(t)
  /\ UNCHANGED <<files, up, client, history>>

ReadSession(t) ==
  /\ At(t, "session") /\ stage[t] = "start"
  /\ IF SessionReadable
     THEN /\ view' = [view EXCEPT ![t] = SessionRead]
          /\ Enter(t, "read")
          /\ UNCHANGED <<req, todo, failed>>
     ELSE Raise(t)
  /\ UNCHANGED <<files, up, client, history>>

OpenSession(t) ==
  /\ At(t, "session") /\ stage[t] = "read"
  /\ session' = Torn
  /\ Enter(t, "open")
  /\ UNCHANGED <<conf, brokerGroup, up, client, req, todo, view, failed, history>>

FillSession(t) ==
  /\ At(t, "session") /\ stage[t] = "open"
  /\ session' \in Written(Override(view[t], todo[t][1].set), session)
  /\ last' = Settled(t)
  /\ Enter(t, "start")
  /\ view' = [view EXCEPT ![t] = Nil]
  /\ todo' = [todo EXCEPT ![t] = Tail(todo[t])]
  /\ UNCHANGED <<conf, brokerGroup, up, client, req, failed, okTests>>

\* Reading a torn file raises a JSONDecodeError, which is a ValueError.
ReadConf(t) ==
  /\ At(t, "conf") /\ stage[t] = "start"
  /\ IF conf # Torn
     THEN /\ view' = [view EXCEPT ![t] = conf]
          /\ Enter(t, "read")
          /\ UNCHANGED <<req, todo, failed>>
     ELSE Raise(t)
  /\ UNCHANGED <<files, up, client, history>>

OpenConf(t) ==
  /\ At(t, "conf") /\ stage[t] = "read"
  /\ conf' = Torn
  /\ Enter(t, "open")
  /\ UNCHANGED <<session, brokerGroup, up, client, req, todo, view, failed, history>>

\* From here on an apply has changed the configuration.
FillConf(t) ==
  /\ At(t, "conf") /\ stage[t] = "open"
  /\ conf' \in Written(Override(view[t], todo[t][1].set), conf)
  /\ last' = IF IsApply(req[t]) THEN "applying" ELSE last
  /\ Enter(t, "start")
  /\ view' = [view EXCEPT ![t] = Nil]
  /\ todo' = [todo EXCEPT ![t] = Tail(todo[t])]
  /\ UNCHANGED <<session, brokerGroup, up, client, req, failed, okTests>>

-----------------------------------------------------------------------------
(* The other steps.                                                        *)

\* Mutant: any successful test will do.
AnyTest(t) == SessionRead.tested # Nil
\* external_test_ok, and the signature of the endpoint in the request.
TestMatches(t) == SessionRead.tested = req[t].endpoint

Check(t) ==
  /\ At(t, "check")
  /\ IF SessionReadable /\ TestMatches(t) THEN Done(t) ELSE Raise(t)
  /\ UNCHANGED <<files, up, client, history>>

\* test_external_connection, and the update that records its result.
Probe(t) ==
  /\ At(t, "probe")
  /\ \E ok \in BOOLEAN :
       /\ GoOn(t, <<UpdateSession([setup |-> "configuring", verified |-> ok,
                                   error |-> ~ok,
                                   tested |-> IF ok THEN req[t].endpoint ELSE Nil])>>)
       /\ okTests' = IF ok THEN okTests \cup {req[t].endpoint} ELSE okTests
  /\ UNCHANGED <<files, up, client, last>>

\* register_addon_endpoint answers; a refusal is recorded and answered as error.
RegisterAtCore(t) ==
  /\ At(t, "core")
  /\ \E ok \in BOOLEAN :
       GoOn(t, <<UpdateSession([registered |-> ok, error |-> ~ok])>>)
  /\ UNCHANGED <<files, up, client, history>>

\* restart_broker_flow ends: restarted and reachable, or not.
RestartBroker(t) ==
  /\ At(t, "docker")
  /\ \E ok \in BOOLEAN :
       GoOn(t, <<UpdateSession([verified |-> ok, error |-> ~ok])>>)
  /\ UNCHANGED <<files, up, client, history>>

\* write_embedded_broker_files and the compose override: no credentials and no
\* anonymous access, or the files cannot be written.
BrokerFiles(t) ==
  /\ At(t, "broker files")
  /\ Done(t) \/ Raise(t)
  /\ UNCHANGED <<files, up, client, history>>

\* The desired state gets the "broker" group if it lacks it: written, refused
\* with a RuntimeError that the handler records, or the lock times out (or
\* install_state.json cannot be read), which it does not catch.
BrokerGroup(t) ==
  /\ At(t, "broker group")
  /\ \/ brokerGroup /\ Done(t) /\ UNCHANGED brokerGroup
     \/ /\ ~brokerGroup /\ SessionReadable
        /\ brokerGroup' = TRUE
        /\ GoOn(t, <<UpdateSession(None)>> \o Tail(todo[t]))
     \/ ~brokerGroup /\ Raise(t) /\ UNCHANGED brokerGroup
     \/ /\ ~brokerGroup
        /\ failed' = [failed EXCEPT ![t] = TRUE]
        /\ todo' = [todo EXCEPT ![t] = <<>>]
        /\ UNCHANGED <<brokerGroup, req, stage, view>>
  /\ UNCHANGED <<session, conf, up, client, history>>

\* set_requested_optional_groups, from POST /optional-groups and its reset.
SelectGroups(t) ==
  /\ At(t, "select")
  /\ \/ SessionReadable /\ brokerGroup' = req[t].broker /\ Done(t)
     \/ UNCHANGED brokerGroup /\ Raise(t)
  /\ UNCHANGED <<session, conf, up, client, history>>

\* update_desired with the new Core URL; config.json already holds it.
WriteDesired(t) ==
  /\ At(t, "desired")
  /\ Done(t) \/ Raise(t)
  /\ UNCHANGED <<files, up, client, history>>

\* reset_install_session_state writes the defaults without reading the file.
OpenReset(t) ==
  /\ At(t, "reset") /\ stage[t] = "start"
  /\ session' = Torn
  /\ Enter(t, "open")
  /\ UNCHANGED <<conf, brokerGroup, up, client, req, todo, view, failed, history>>

FillReset(t) ==
  /\ At(t, "reset") /\ stage[t] = "open"
  /\ session' \in Written(DefaultSession, session)
  /\ last' = Settled(t)
  /\ Enter(t, "start")
  /\ todo' = [todo EXCEPT ![t] = Tail(todo[t])]
  /\ UNCHANGED <<conf, brokerGroup, up, client, req, view, failed, okTests>>

\* reload_mqtt_service: the old client is stopped before config.json is read.
Reload(t) ==
  /\ At(t, "reload")
  /\ IF conf # Torn
     THEN client' = conf.endpoint /\ Done(t)
     ELSE client' = Nil /\ Raise(t)
  /\ UNCHANGED <<files, up, history>>

-----------------------------------------------------------------------------
(* The process.                                                            *)

\* A kill or a container stop, at any point.
Crash ==
  /\ up
  /\ up' = FALSE /\ client' = Nil
  /\ req' = [t \in Threads |-> Nil]
  /\ todo' = [t \in Threads |-> <<>>]
  /\ stage' = [t \in Threads |-> "start"]
  /\ view' = [t \in Threads |-> Nil]
  /\ failed' = [t \in Threads |-> FALSE]
  /\ UNCHANGED <<files, history>>

\* The container is recreated without install_state.json.
LoseSession ==
  /\ ~up /\ session # Missing
  /\ session' = Missing
  /\ UNCHANGED <<conf, brokerGroup, up, client, handlers, history>>

\* startup_event reloads the client: with a torn config.json it raises, and the
\* process does not come up.
Boot ==
  /\ ~up /\ conf # Torn
  /\ up' = TRUE /\ client' = conf.endpoint
  /\ UNCHANGED <<files, handlers, history>>

Update(t) ==
  \/ ReadSession(t) \/ OpenSession(t) \/ FillSession(t)
  \/ ReadConf(t) \/ OpenConf(t) \/ FillConf(t)
  \/ OpenReset(t) \/ FillReset(t) \/ WriteFails(t)

External(t) ==
  \/ Check(t) \/ Probe(t) \/ RegisterAtCore(t) \/ RestartBroker(t) \/ BrokerFiles(t)
  \/ BrokerGroup(t) \/ SelectGroups(t) \/ WriteDesired(t) \/ Reload(t)

Next ==
  \/ \E t \in Threads, r \in Requests : Start(t, r)
  \/ \E t \in Threads : Update(t) \/ External(t) \/ Answer(t)
  \/ Crash \/ LoseSession \/ Boot

Spec == Init /\ [][Next]_vars

-----------------------------------------------------------------------------
(* Properties.  TLC checks them with one request under way at a time,      *)
(* which is how the setup page drives the addon; README.md says what two   *)
(* requests at once break.                                                 *)

AllEndpoints == Endpoints \cup {Embedded, Nil}
Sessions ==
  [setup : {"unconfigured", "configuring", "ready", "error"}, configured : BOOLEAN,
   verified : BOOLEAN, registered : BOOLEAN, error : BOOLEAN,
   tested : Endpoints \cup {Nil}]
Confs == [mode : {"external", "embedded", Nil}, endpoint : AllEndpoints]

ASSUME ValuesAssumption ==
  /\ Torn # Missing /\ Torn \notin Sessions \cup Confs /\ Missing \notin Sessions
  /\ Nil \notin Requests \cup Sessions

Ready == session \in Sessions /\ session.setup = "ready"

\* Every variable has its type, "error" is only ever stored with the setup not
\* configured and "ready" with a configured one.
SetupTypeOK ==
  /\ session \in Sessions \cup {Torn, Missing}
  /\ session \in Sessions =>
       /\ session.setup = "error" => ~session.configured
       /\ session.setup = "ready" => session.configured
  /\ conf \in Confs \cup {Torn}
  /\ brokerGroup \in BOOLEAN /\ up \in BOOLEAN
  /\ client \in AllEndpoints
  /\ req \in [Threads -> Requests \cup {Nil}]
  /\ stage \in [Threads -> {"start", "read", "open"}]
  /\ failed \in [Threads -> BOOLEAN]
  /\ okTests \subseteq Endpoints

\* The publish gate (setup "ready") is open only behind an apply that went
\* through to its end: whatever an apply that failed or was killed half way has
\* already written to config.json, and whatever other request came in between,
\* the addon never serves an unfinished configuration as a finished one.
GateOpensByApply ==
  Busy = {} /\ Ready => last = "apply ok"

\* While the addon says it is ready, its MQTT client runs with the endpoint that
\* config.json holds and that a restart would use, as long as it can be read.
ClientFollowsConfig ==
  up /\ Busy = {} /\ Ready /\ conf # Torn => client = conf.endpoint

Applied(r) ==
  IF r.kind = "apply embedded" THEN [mode |-> "embedded", endpoint |-> Embedded]
  ELSE [mode |-> "external", endpoint |-> r.endpoint]

\* An apply answered with success has taken effect as a whole: configuration,
\* client and setup state, and for an embedded broker the desired state that
\* makes the supervisor start it.
AnsweredOkMeansApplied ==
  \A t \in Busy :
    IsApply(req[t]) /\ todo[t] = <<>> /\ ~failed[t] =>
      /\ conf = Applied(req[t]) /\ client = conf.endpoint
      /\ Ready /\ session.verified /\ ~session.error
      /\ req[t].kind = "apply embedded" => brokerGroup

\* Without the waiver, an external endpoint is applied only if it has passed a
\* connection test itself: no failed test, other endpoint's test, reset, crash
\* or loss of the session file in between makes another one pass.
OnlyTestedApplied ==
  \A t \in Busy :
    (req[t].kind = "apply external" /\ todo[t] = <<>> /\ ~failed[t] /\ ~req[t].waived)
      => req[t].endpoint \in okTests

\* docs/api.md: "when transient runtime/install_state.json is missing [...],
\* install session state is reconstructed from persisted addon config [...];
\* reconstructed state marks configured setups as setup_state=ready".
RebuiltAfterLoss ==
  up /\ Busy = {} /\ session = Missing /\ last = "apply ok"
    => SessionRead.setup = "ready" /\ SessionRead.configured
=============================================================================
