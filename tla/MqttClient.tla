------------------------------ MODULE MqttClient ------------------------------
(***************************************************************************)
(* app/services/mqtt_client.py with the health service and the reconnect   *)
(* counter it feeds: the client's network thread (paho's loop), its        *)
(* heartbeat thread, the request threads that publish through it, and the  *)
(* thread that replaces it (reload_mqtt_service) or stops it at shutdown.  *)
(*                                                                         *)
(* paho-mqtt and the broker are external.  A QoS 1 message that is not     *)
(* acknowledged stays with the client: publish reports an error if there   *)
(* is no socket, and the message goes out all the same after the next      *)
(* CONNACK, behind what on_connect publishes.  The broker keeps the last   *)
(* retained message of the health topic and publishes the will of a        *)
(* session that ends without DISCONNECT, at the latest when the same       *)
(* client id connects again.                                               *)
(*                                                                         *)
(* One reload or shutdown runs at a time.  The queues hold the health      *)
(* messages only: an announce message is the same every time, and what     *)
(* becomes of a request's message is no part of this module.  The policy   *)
(* subscriptions of on_connect are in PolicyFeed.                          *)
(***************************************************************************)
EXTENDS Integers, Sequences, FiniteSets

CONSTANTS
  Publishers,    \* request threads
  MaxClients,    \* bound: clients created, the first one and one per reload
  MaxBreaks,     \* bound: connections lost or refused
  MaxPending,    \* bound: the heartbeat waits while that many messages do
  MaxPublishes   \* bound: messages of requests

ASSUME ClientBounds ==
  /\ MaxClients \in Nat \ {0} /\ MaxPending \in Nat \ {0}
  /\ MaxBreaks \in Nat /\ MaxPublishes \in Nat

Clients == 1..MaxClients    \* MqttClientService objects, in order of creation
NoClient == 0

VARIABLES
  up,          \* is the process running
  service,     \* the global mqtt_service
  created,     \* clients created so far
  net,         \* what the network thread of each client does next
  heart,       \* what the heartbeat thread of each client does next
  seen,        \* the mqtt_connected its snapshot has read
  stopEvent,   \* _stop_event of each client
  ending,      \* has loop_stop been called
  sock,        \* does the client take itself for connected
  link,        \* do packets get through
  wire,        \* health messages sent and not acknowledged
  backlog,     \* messages to be sent after the next CONNACK
  connected, lastError, offline,    \* HealthService
  counter,     \* mqtt_runtime_metrics.json
  reload,      \* what the reloading thread does next
  goal,        \* "reload" or "shutdown"
  pub,         \* what each request thread does next
  session,     \* broker: the client that holds the session of the client id
  health,      \* broker: the retained health message
  breaks, published,
  drops        \* history: unexpected disconnections reported so far

procVars == <<up, service, created>>
netVars == <<net, sock, link>>
heartVars == <<heart, seen>>
stopVars == <<stopEvent, ending>>
queueVars == <<wire, backlog>>
healthVars == <<connected, lastError, offline>>
countVars == <<counter, drops>>
reloadVars == <<reload, goal>>
brokerVars == <<session, health>>
requestVars == <<pub, published>>
vars == <<procVars, netVars, heartVars, stopVars, queueVars, healthVars, countVars,
          reloadVars, brokerVars, requestVars, breaks>>

\* Mutant: a client that is not connected reports itself offline.
OfflinePayload(isConnected) == IF isConnected THEN "healthy" ELSE "offline"
\* health_payload
PayloadOf(isConnected) == IF isConnected THEN "healthy" ELSE "degraded"

Init ==
  /\ up = TRUE /\ service = NoClient /\ created = 0
  /\ net = [c \in Clients |-> "off"] /\ heart = [c \in Clients |-> "off"]
  /\ seen = [c \in Clients |-> FALSE]
  /\ stopEvent = [c \in Clients |-> FALSE] /\ ending = [c \in Clients |-> FALSE]
  /\ sock = [c \in Clients |-> FALSE] /\ link = [c \in Clients |-> FALSE]
  /\ wire = [c \in Clients |-> <<>>] /\ backlog = [c \in Clients |-> <<>>]
  /\ connected = FALSE /\ lastError = FALSE /\ offline = FALSE
  /\ counter = 0 /\ drops = 0
  /\ reload = "create" /\ goal = "reload"       \* startup_event
  /\ pub = [w \in Publishers |-> "idle"] /\ published = 0
  /\ session = NoClient /\ health = "none" /\ breaks = 0

-----------------------------------------------------------------------------
(* HealthService.                                                          *)

SetConnected(isConnected) ==
  /\ connected' = isConnected
  /\ offline' = (offline /\ ~isConnected)
  /\ lastError' = (lastError /\ ~isConnected)
SetLastError == lastError' = TRUE /\ UNCHANGED <<connected, offline>>

\* snapshot().status
Status ==
  IF offline THEN "offline"
  ELSE IF ~connected \/ lastError THEN "degraded" ELSE "healthy"

-----------------------------------------------------------------------------
(* publish: the message is queued whether or not it can be sent now.       *)

Send(c, m) ==
  IF sock[c] THEN wire' = [wire EXCEPT ![c] = Append(@, m)] /\ UNCHANGED backlog
             ELSE backlog' = [backlog EXCEPT ![c] = Append(@, m)] /\ UNCHANGED wire

-----------------------------------------------------------------------------
(* The network thread.                                                     *)

NetGoto(c, label) == net' = [net EXCEPT ![c] = label]

\* The broker accepts the connection.  If it still has a session of the client
\* id, that one ends here, and its will is published.
Connack(c) ==
  /\ net[c] = "trying" /\ ~ending[c]
  /\ NetGoto(c, "connack")
  /\ sock' = [sock EXCEPT ![c] = TRUE]
  /\ link' = [d \in Clients |-> d = c]
  /\ session' = c
  /\ health' = IF session = NoClient THEN health ELSE "offline"
  /\ UNCHANGED <<procVars, heartVars, stopVars, queueVars, healthVars, countVars,
                 reloadVars, requestVars, breaks>>

\* on_connect with rc 0: the flag, the publishes, then the messages that wait.
OnConnect(c) ==
  /\ net[c] = "connack"
  /\ SetConnected(TRUE)
  /\ NetGoto(c, "health")
  /\ UNCHANGED <<procVars, sock, link, heartVars, stopVars, queueVars, countVars,
                 reloadVars, brokerVars, requestVars, breaks>>

\* _publish_announce and _publish_health.
PublishHealth(c) ==
  /\ net[c] = "health"
  /\ Send(c, PayloadOf(connected))
  /\ NetGoto(c, "resend")
  /\ UNCHANGED <<procVars, sock, link, heartVars, stopVars, healthVars, countVars,
                 reloadVars, brokerVars, requestVars, breaks>>

Resend(c) ==
  /\ net[c] = "resend"
  /\ wire' = [wire EXCEPT ![c] = @ \o backlog[c]]
  /\ backlog' = [backlog EXCEPT ![c] = <<>>]
  /\ NetGoto(c, "online")
  /\ UNCHANGED <<procVars, sock, link, heartVars, stopVars, healthVars, countVars,
                 reloadVars, brokerVars, requestVars, breaks>>

\* The broker refuses the connection: on_connect with rc # 0, after which paho
\* reports a disconnection as well.
Refuse(c) ==
  /\ net[c] = "trying" /\ ~ending[c] /\ breaks < MaxBreaks
  /\ breaks' = breaks + 1
  /\ connected' = FALSE /\ lastError' = TRUE /\ UNCHANGED offline
  /\ NetGoto(c, "lost")
  /\ UNCHANGED <<procVars, sock, link, heartVars, stopVars, queueVars, countVars,
                 reloadVars, brokerVars, requestVars>>

\* The client finds its connection broken.
NoticeLoss(c) ==
  /\ net[c] = "online" /\ ~link[c] /\ ~ending[c]
  /\ sock' = [sock EXCEPT ![c] = FALSE]
  /\ backlog' = [backlog EXCEPT ![c] = @ \o wire[c]]
  /\ wire' = [wire EXCEPT ![c] = <<>>]
  /\ NetGoto(c, "lost")
  /\ UNCHANGED <<procVars, link, heartVars, stopVars, healthVars, countVars,
                 reloadVars, brokerVars, requestVars, breaks>>

\* Mutant: a lost connection leaves the flag alone.
ConnectedAfterLoss == connected
\* on_disconnect with rc # 0: the flag, the counter, the error.
AfterLoss == FALSE

OnDisconnect(c) ==
  /\ net[c] = "lost"
  /\ connected' = AfterLoss
  /\ UNCHANGED <<lastError, offline>>
  /\ drops' = drops + 1
  /\ NetGoto(c, "count")
  /\ UNCHANGED <<procVars, sock, link, heartVars, stopVars, queueVars, counter,
                 reloadVars, brokerVars, requestVars, breaks>>

\* Mutant: every client starts its count afresh.
CountAfresh(c) == IF c = 1 THEN counter + 1 ELSE 1
\* increment_reconnects, on the file that all clients share.
IncrementReconnects(c) == counter + 1

CountReconnect(c) ==
  /\ net[c] = "count"
  /\ counter' = IncrementReconnects(c)
  /\ NetGoto(c, "error")
  /\ UNCHANGED <<procVars, sock, link, heartVars, stopVars, queueVars, healthVars,
                 drops, reloadVars, brokerVars, requestVars, breaks>>

RecordLoss(c) ==
  /\ net[c] = "error"
  /\ SetLastError
  /\ NetGoto(c, "trying")
  /\ UNCHANGED <<procVars, sock, link, heartVars, stopVars, queueVars, countVars,
                 reloadVars, brokerVars, requestVars, breaks>>

\* loop_stop: the thread ends between two callbacks.
NetEnds(c) ==
  /\ ending[c] /\ net[c] \in {"trying", "online"}
  /\ NetGoto(c, "off")
  /\ UNCHANGED <<procVars, sock, link, heartVars, stopVars, queueVars, healthVars,
                 countVars, reloadVars, brokerVars, requestVars, breaks>>

-----------------------------------------------------------------------------
(* The heartbeat thread: _publish_health_forever.                          *)

HeartGoto(c, label) == heart' = [heart EXCEPT ![c] = label]

Beat(c) ==
  /\ heart[c] = "loop" /\ ~stopEvent[c]
  /\ Len(wire[c]) + Len(backlog[c]) < MaxPending
  /\ seen' = [seen EXCEPT ![c] = connected]
  /\ HeartGoto(c, "send")
  /\ UNCHANGED <<procVars, netVars, stopVars, queueVars, healthVars, countVars,
                 reloadVars, brokerVars, requestVars, breaks>>

\* Mutant: the first heartbeat is the only one.
BeatOnce == "off"
\* _stop_event.wait(15), and round again.
AfterBeat == "loop"

SendBeat(c) ==
  /\ heart[c] = "send"
  /\ Send(c, PayloadOf(seen[c]))
  /\ HeartGoto(c, IF sock[c] THEN AfterBeat ELSE "error")
  /\ seen' = [seen EXCEPT ![c] = FALSE]
  /\ UNCHANGED <<procVars, netVars, stopVars, healthVars, countVars,
                 reloadVars, brokerVars, requestVars, breaks>>

BeatFailed(c) ==
  /\ heart[c] = "error"
  /\ SetLastError
  /\ HeartGoto(c, AfterBeat)
  /\ UNCHANGED <<procVars, netVars, seen, stopVars, queueVars, countVars,
                 reloadVars, brokerVars, requestVars, breaks>>

HeartEnds(c) ==
  /\ heart[c] = "loop" /\ stopEvent[c]
  /\ HeartGoto(c, "off")
  /\ UNCHANGED <<procVars, netVars, seen, stopVars, queueVars, healthVars, countVars,
                 reloadVars, brokerVars, requestVars, breaks>>

-----------------------------------------------------------------------------
(* Request threads.                                                        *)

\* mqtt_service_getter() and publish: the client may be stopped by then.
PublishMessage(w) ==
  /\ up /\ pub[w] = "idle" /\ service # NoClient /\ published < MaxPublishes
  /\ published' = published + 1
  /\ pub' = [pub EXCEPT ![w] = IF sock[service] THEN "idle" ELSE "error"]
  /\ UNCHANGED <<procVars, netVars, heartVars, stopVars, queueVars, healthVars,
                 countVars, reloadVars, brokerVars, breaks>>

PublishFailed(w) ==
  /\ pub[w] = "error"
  /\ SetLastError
  /\ pub' = [pub EXCEPT ![w] = "idle"]
  /\ UNCHANGED <<procVars, netVars, heartVars, stopVars, queueVars, countVars,
                 reloadVars, brokerVars, published, breaks>>

-----------------------------------------------------------------------------
(* reload_mqtt_service and shutdown_event: stop the client, create the     *)
(* next one, start it.                                                     *)

Begin(g) ==
  /\ up /\ reload = "idle"
  /\ g = "reload" => created < MaxClients
  /\ g = "shutdown" => \A w \in Publishers : pub[w] = "idle"
  /\ goal' = g
  /\ stopEvent' = [stopEvent EXCEPT ![service] = TRUE]
  /\ reload' = "join"
  /\ UNCHANGED <<procVars, netVars, heartVars, ending, queueVars, healthVars,
                 countVars, brokerVars, requestVars, breaks>>

\* The heartbeat thread has ended: it wakes at once and publish only queues, so
\* that the three seconds of join(timeout=3) do not run out.
JoinHeart ==
  /\ reload = "join" /\ heart[service] = "off"
  /\ reload' = "mark"
  /\ UNCHANGED <<procVars, netVars, heartVars, stopVars, queueVars, healthVars,
                 countVars, goal, brokerVars, requestVars, breaks>>

\* Mutant: the network thread is joined and not told to end.
NoSignal(c) == ending
\* loop_stop tells the network thread to end.
Signal(c) == [ending EXCEPT ![c] = TRUE]

MarkOffline ==
  /\ reload = "mark"
  /\ offline' = TRUE /\ UNCHANGED <<connected, lastError>>
  /\ ending' = Signal(service)
  /\ reload' = "loop stop"
  /\ UNCHANGED <<procVars, netVars, heartVars, stopEvent, queueVars, countVars,
                 goal, brokerVars, requestVars, breaks>>

\* Mutant: nobody waits for the network thread.
NotJoined(c) == TRUE
\* loop_stop joins the network thread.
Joined(c) == net[c] = "off"

LoopStop ==
  /\ reload = "loop stop" /\ Joined(service)
  /\ reload' = "disconnect"
  /\ UNCHANGED <<procVars, netVars, heartVars, stopVars, queueVars, healthVars,
                 countVars, goal, brokerVars, requestVars, breaks>>

\* DISCONNECT, if there is a socket: no will, and on_disconnect with rc 0 on
\* this thread.  What the stopped client had not sent is never sent.
Disconnect ==
  /\ reload = "disconnect"
  /\ IF sock[service]
     THEN /\ connected' = FALSE /\ UNCHANGED <<lastError, offline>>
          /\ session' = IF link[service] THEN NoClient ELSE session
          /\ sock' = [sock EXCEPT ![service] = FALSE]
          /\ link' = [link EXCEPT ![service] = FALSE]
     ELSE UNCHANGED <<healthVars, session, sock, link>>
  /\ wire' = [wire EXCEPT ![service] = <<>>]
  /\ backlog' = [backlog EXCEPT ![service] = <<>>]
  /\ reload' = IF goal = "reload" THEN "create" ELSE "exit"
  /\ UNCHANGED <<procVars, net, heartVars, stopVars, countVars, goal, health,
                 requestVars, breaks>>

\* The global is set before the client is started.
Create ==
  /\ reload = "create"
  /\ created' = created + 1 /\ service' = created + 1
  /\ reload' = "start"
  /\ UNCHANGED <<up, netVars, heartVars, stopVars, queueVars, healthVars, countVars,
                 goal, brokerVars, requestVars, breaks>>

StartClient ==
  /\ reload = "start"
  /\ net' = [net EXCEPT ![service] = "trying"]
  /\ heart' = [heart EXCEPT ![service] = "loop"]
  /\ reload' = "idle"
  /\ UNCHANGED <<procVars, sock, link, seen, stopVars, queueVars, healthVars,
                 countVars, goal, brokerVars, requestVars, breaks>>

-----------------------------------------------------------------------------
(* The broker, the network and the end of the process.                     *)

Deliver(c) ==
  /\ link[c] /\ wire[c] # <<>>
  /\ wire' = [wire EXCEPT ![c] = Tail(@)]
  /\ health' = Head(wire[c])
  /\ UNCHANGED <<procVars, netVars, heartVars, stopVars, backlog, healthVars, countVars,
                 reloadVars, session, requestVars, breaks>>

\* The connection breaks; a message may have arrived and its PUBACK not.
Break(c) ==
  /\ link[c] /\ breaks < MaxBreaks
  /\ breaks' = breaks + 1
  /\ link' = [link EXCEPT ![c] = FALSE]
  /\ UNCHANGED health \/ (wire[c] # <<>> /\ health' = Head(wire[c]))
  /\ UNCHANGED <<procVars, net, sock, heartVars, stopVars, queueVars, healthVars,
                 countVars, reloadVars, session, requestVars>>

\* Mutant: the client sets no will.
NoWill == health
\* The will of __init__.
Will == "offline"

\* The broker finds the client gone.
PublishWill ==
  /\ session # NoClient /\ \A c \in Clients : c = session => ~link[c]
  /\ session' = NoClient
  /\ health' = Will
  /\ UNCHANGED <<procVars, netVars, heartVars, stopVars, queueVars, healthVars, countVars,
                 reloadVars, requestVars, breaks>>

\* Nothing of the process is left: after shutdown, or by a kill.
Gone ==
  /\ up' = FALSE
  /\ net' = [c \in Clients |-> "off"] /\ heart' = [c \in Clients |-> "off"]
  /\ sock' = [c \in Clients |-> FALSE] /\ link' = [c \in Clients |-> FALSE]
  /\ wire' = [c \in Clients |-> <<>>] /\ backlog' = [c \in Clients |-> <<>>]
  /\ pub' = [w \in Publishers |-> "idle"]
  /\ reload' = "gone"
  /\ seen' = [c \in Clients |-> FALSE]
  /\ UNCHANGED <<service, created, stopVars, healthVars, countVars, goal,
                 brokerVars, published, breaks>>

Exit == reload = "exit" /\ Gone
Kill == up /\ breaks < MaxBreaks /\ Gone

-----------------------------------------------------------------------------

Network(c) ==
  \/ OnConnect(c) \/ PublishHealth(c) \/ Resend(c)
  \/ NoticeLoss(c) \/ OnDisconnect(c) \/ CountReconnect(c) \/ RecordLoss(c)
  \/ NetEnds(c)
Heartbeat(c) == Beat(c) \/ SendBeat(c) \/ BeatFailed(c) \/ HeartEnds(c)
Replace ==
  JoinHeart \/ MarkOffline \/ LoopStop \/ Disconnect \/ Create \/ StartClient \/ Exit

Next ==
  \/ \E c \in Clients : \/ Network(c) \/ Heartbeat(c) \/ Connack(c) \/ Refuse(c)
                        \/ Deliver(c) \/ Break(c)
  \/ \E w \in Publishers : PublishMessage(w) \/ PublishFailed(w)
  \/ Begin("reload") \/ Begin("shutdown") \/ Replace
  \/ PublishWill \/ Kill

Spec == Init /\ [][Next]_vars

\* The threads run, paho tries to connect again and again (1 to 30 seconds
\* apart), the broker answers, delivers, and finds dead sessions (keepalive).
\* Reloads, shutdowns, requests and failures need not happen.
Fairness ==
  /\ \A c \in Clients : /\ WF_vars(Network(c)) /\ WF_vars(Heartbeat(c))
                        /\ WF_vars(Connack(c)) /\ WF_vars(Deliver(c))
  /\ \A w \in Publishers : WF_vars(PublishFailed(w))
  /\ WF_vars(Replace) /\ WF_vars(PublishWill)
FairSpec == Spec /\ Fairness

-----------------------------------------------------------------------------
(* Properties.                                                             *)

Payloads == {"healthy", "degraded"}

\* Every variable has its type.
ClientTypeOK ==
  /\ up \in BOOLEAN /\ service \in 0..MaxClients /\ created \in 0..MaxClients
  /\ net \in [Clients -> {"off", "trying", "connack", "health", "resend", "online",
                          "lost", "count", "error"}]
  /\ heart \in [Clients -> {"off", "loop", "send", "error"}]
  /\ seen \in [Clients -> BOOLEAN]
  /\ stopEvent \in [Clients -> BOOLEAN] /\ ending \in [Clients -> BOOLEAN]
  /\ sock \in [Clients -> BOOLEAN] /\ link \in [Clients -> BOOLEAN]
  /\ wire \in [Clients -> Seq(Payloads)] /\ backlog \in [Clients -> Seq(Payloads)]
  /\ connected \in BOOLEAN /\ lastError \in BOOLEAN /\ offline \in BOOLEAN
  /\ counter \in Nat /\ drops \in Nat
  /\ reload \in {"idle", "join", "mark", "loop stop", "disconnect", "create", "start",
                 "exit", "gone"}
  /\ goal \in {"reload", "shutdown"}
  /\ pub \in [Publishers -> {"idle", "error"}]
  /\ session \in 0..MaxClients
  /\ health \in {"none", "healthy", "degraded", "offline"}
  /\ breaks \in Nat /\ published \in Nat

\* What the addon reports of its connection is the state of the client in
\* service, across lost connections and replaced clients: no callback of an
\* earlier client, run on its network thread or on the thread that stopped it,
\* overrides it.  Nor does the goodbye of a stopped client outlast the next one's
\* connection: /health says offline no more, although it may say degraded, for a
\* publish that failed before the reconnect.
FlagFollowsClient ==
  up /\ reload = "idle" =>
    /\ net[service] \in {"online", "health", "resend"} => connected /\ Status # "offline"
    /\ net[service] \in {"trying", "connack"} => ~connected /\ Status # "healthy"

\* One client at a time connects with the client id: a reload never leaves two
\* of them taking the session from each other.
OneClientConnects ==
  Cardinality({c \in Clients : net[c] # "off" \/ sock[c]}) <= 1

\* Every unexpected disconnection is counted once, over all the clients that
\* share the file, whatever reload comes between the callback and the write.
ReconnectsCounted ==
  \/ counter = drops
  \/ counter = drops - 1 /\ \E c \in Clients : net[c] = "count"
  \/ ~up

\* The retained health message does not stay what a stale publish or a late will
\* has made it: messages queued while there was no connection go out after the
\* fresh one of on_connect, and the heartbeat puts it right.  (docs/api.md:
\* "health heartbeat is periodic and announce/health are republished on
\* reconnect".)
RetainedHealthRecovers == <>[](health = "healthy" \/ ~up \/ goal = "shutdown")

\* A process that dies while it holds a session, in whatever step of its threads,
\* ends up offline in the retained health message.
DeathIsAnnounced ==
  (~up /\ session # NoClient) ~> health = "offline"

\* A reload or a shutdown ends: the threads it joins end.
ReplacementEnds == reload \notin {"idle", "gone"} ~> reload \in {"idle", "gone"}
=============================================================================
