----------------------------- MODULE ClientProofs -----------------------------
(***************************************************************************)
(* What the MQTT client's callbacks report, for any number of clients,     *)
(* lost connections, reloads and requests.  That no two clients connect at *)
(* once is what the rest stands on: a reload joins the threads of the old  *)
(* client before it creates the next one.                                  *)
(***************************************************************************)
EXTENDS MqttClient, FiniteSetTheorems, SequenceTheorems, TLAPS

-----------------------------------------------------------------------------
(* The inductive invariant.                                                *)

\* Steps of the network thread at which on_connect has set the flag, and those
\* at which on_disconnect has cleared it, or no client has set it yet.
Flagged == {"health", "resend", "online"}
Cleared == {"trying", "connack", "count", "error"}

\* Only the client in service has a network thread or a socket.
OthersStopped ==
  \A c \in Clients : c # service => net[c] = "off" /\ ~sock[c]

\* A replaced client is gone before the next is created, which fits the bound.
ServiceStands ==
  /\ service = created
  /\ reload \notin {"create", "gone"} => service \in Clients
  /\ reload = "disconnect" => net[service] = "off"
  /\ reload \in {"create", "start", "exit", "gone"} =>
       \A c \in Clients : net[c] = "off" /\ ~sock[c]
  /\ reload = "create" \/ (goal = "reload" /\ reload \in {"join", "mark", "loop stop", "disconnect"})
       => created < MaxClients
  /\ reload = "gone" <=> ~up
  /\ reload \in {"create", "start"} => goal = "reload"

\* paho's loop has a socket exactly between CONNACK and the loss it notices.
SocketStands ==
  \A c \in Clients : /\ net[c] \in {"trying", "lost", "count", "error"} => ~sock[c]
                     /\ net[c] \in {"connack", "health", "resend", "online"} => sock[c]

\* HealthService.connected, at every step of the network thread, and after the
\* last client has gone; mark_offline comes after the last callback that counts.
FlagStands ==
  up =>
    /\ \A c \in Clients : net[c] \in Flagged => connected
    /\ \A c \in Clients : net[c] \in Cleared => ~connected
    /\ (\A c \in Clients : net[c] = "off" /\ ~sock[c]) => ~connected
    /\ reload \in {"idle", "join", "mark"} =>
         \A c \in Clients : net[c] \in Flagged => ~offline

\* The counter is behind by one while a disconnection waits to be counted.
CountStands ==
  up => IF \E c \in Clients : net[c] = "count" THEN counter = drops - 1 ELSE counter = drops

ClientInv ==
  /\ ClientTypeOK
  /\ OthersStopped /\ ServiceStands /\ SocketStands /\ FlagStands /\ CountStands

-----------------------------------------------------------------------------
(* Types.                                                                  *)

\* The types, those of the queues apart.
QueuesOK == wire \in [Clients -> Seq(Payloads)] /\ backlog \in [Clients -> Seq(Payloads)]
ThreadsOK ==
  /\ up \in BOOLEAN /\ service \in 0..MaxClients /\ created \in 0..MaxClients
  /\ net \in [Clients -> {"off", "trying", "connack", "health", "resend", "online",
                          "lost", "count", "error"}]
  /\ heart \in [Clients -> {"off", "loop", "send", "error"}]
  /\ seen \in [Clients -> BOOLEAN]
  /\ stopEvent \in [Clients -> BOOLEAN] /\ ending \in [Clients -> BOOLEAN]
  /\ sock \in [Clients -> BOOLEAN] /\ link \in [Clients -> BOOLEAN]
  /\ reload \in {"idle", "join", "mark", "loop stop", "disconnect", "create", "start",
                 "exit", "gone"}
  /\ goal \in {"reload", "shutdown"}
  /\ pub \in [Publishers -> {"idle", "error"}]
StatesOK ==
  /\ connected \in BOOLEAN /\ lastError \in BOOLEAN /\ offline \in BOOLEAN
  /\ counter \in Nat /\ drops \in Nat
  /\ session \in 0..MaxClients
  /\ health \in {"none", "healthy", "degraded", "offline"}
  /\ breaks \in Nat /\ published \in Nat

\* Together they are the types.
LEMMA TypeParts == ClientTypeOK <=> ThreadsOK /\ StatesOK /\ QueuesOK
BY DEF ClientTypeOK, QueuesOK, ThreadsOK, StatesOK

\* A queue that is emptied, lengthened or shortened is a queue of payloads.
LEMMA QueueFacts ==
  ASSUME QueuesOK, NEW c \in Clients
  PROVE  /\ <<>> \in Seq(Payloads)
         /\ wire[c] \o backlog[c] \in Seq(Payloads)
         /\ backlog[c] \o wire[c] \in Seq(Payloads)
         /\ \A m \in Payloads : /\ Append(wire[c], m) \in Seq(Payloads)
                                /\ Append(backlog[c], m) \in Seq(Payloads)
         /\ wire[c] # <<>> => /\ Head(wire[c]) \in Payloads
                              /\ Tail(wire[c]) \in Seq(Payloads)
<1>1. wire[c] \in Seq(Payloads) /\ backlog[c] \in Seq(Payloads)
  BY DEF QueuesOK
<1>2. <<>> \in Seq(Payloads)
  BY EmptySeq
<1>3. wire[c] \o backlog[c] \in Seq(Payloads) /\ backlog[c] \o wire[c] \in Seq(Payloads)
  BY <1>1, ConcatProperties
<1>4. \A m \in Payloads : /\ Append(wire[c], m) \in Seq(Payloads)
                          /\ Append(backlog[c], m) \in Seq(Payloads)
  BY <1>1, AppendProperties
<1>5. wire[c] # <<>> => Head(wire[c]) \in Payloads /\ Tail(wire[c]) \in Seq(Payloads)
  BY <1>1, HeadTailProperties
<1> QED
  BY <1>2, <1>3, <1>4, <1>5

\* What is sent of a connection is one of the two payloads.
LEMMA PayloadTypes == \A b : PayloadOf(b) \in Payloads
BY DEF PayloadOf, Payloads

\* Every step leaves queues of payloads.
LEMMA QueuesStep ==
  ASSUME QueuesOK, Next
  PROVE  QueuesOK'
<1>1. ASSUME UNCHANGED queueVars
      PROVE  QueuesOK'
  BY <1>1 DEF QueuesOK, queueVars
<1>2. ASSUME NEW c \in Clients, NEW m \in Payloads, Send(c, m)
      PROVE  QueuesOK'
  <2>1. Append(wire[c], m) \in Seq(Payloads) /\ Append(backlog[c], m) \in Seq(Payloads)
    BY QueueFacts
  <2> QED
    BY <1>2, <2>1 DEF QueuesOK, Send
<1>3. ASSUME NEW c \in Clients, Network(c) \/ Connack(c) \/ Refuse(c)
      PROVE  QueuesOK'
  <2>1. CASE Resend(c) \/ NoticeLoss(c)
    BY <2>1, QueueFacts DEF QueuesOK, Resend, NoticeLoss
  <2>2. CASE PublishHealth(c)
    BY <2>2, <1>2, PayloadTypes DEF PublishHealth
  <2> QED
    BY <1>1, <1>3, <2>1, <2>2 DEF Network, Connack, Refuse, OnConnect, OnDisconnect,
      CountReconnect, RecordLoss, NetEnds
<1>4. ASSUME NEW c \in Clients, Heartbeat(c) \/ Deliver(c) \/ Break(c)
      PROVE  QueuesOK'
  <2>1. CASE SendBeat(c)
    BY <2>1, <1>2, PayloadTypes DEF SendBeat
  <2>2. CASE Deliver(c)
    BY <2>2, QueueFacts DEF QueuesOK, Deliver
  <2> QED
    BY <1>1, <1>4, <2>1, <2>2 DEF Heartbeat, Beat, BeatFailed, HeartEnds, Break
<1>5. ASSUME Begin("reload") \/ Begin("shutdown") \/ Replace \/ PublishWill \/ Kill
      PROVE  QueuesOK'
  <2>1. <<>> \in Seq(Payloads)
    BY EmptySeq
  <2>2. CASE Disconnect \/ Gone
    BY <2>1, <2>2 DEF QueuesOK, Disconnect, Gone
  <2> QED
    BY <1>1, <1>5, <2>2 DEF Begin, Replace, JoinHeart, MarkOffline, LoopStop, Create,
      StartClient, Exit, PublishWill, Kill
<1> QED
  BY <1>1, <1>3, <1>4, <1>5 DEF Next, PublishMessage, PublishFailed

\* Every step keeps the types of the threads' variables.
LEMMA ThreadsStep ==
  ASSUME ThreadsOK, connected \in BOOLEAN, ServiceStands, Next
  PROVE  ThreadsOK'
<1> USE DEF ThreadsOK, procVars, netVars, heartVars, stopVars, reloadVars, requestVars
<1>1. ASSUME NEW c \in Clients, Network(c) \/ Connack(c) \/ Refuse(c)
      PROVE  ThreadsOK'
  BY <1>1 DEF Network, NetGoto, Connack, Refuse, OnConnect, PublishHealth, Resend,
    NoticeLoss, OnDisconnect, CountReconnect, RecordLoss, NetEnds
<1>2. ASSUME NEW c \in Clients, Heartbeat(c)
      PROVE  ThreadsOK'
  BY <1>2 DEF Heartbeat, HeartGoto, Beat, SendBeat, BeatFailed, HeartEnds, AfterBeat
<1>3. ASSUME NEW c \in Clients, Deliver(c) \/ Break(c)
      PROVE  ThreadsOK'
  BY <1>3 DEF Deliver, Break
<1>4. ASSUME NEW w \in Publishers, PublishMessage(w) \/ PublishFailed(w)
      PROVE  ThreadsOK'
  BY <1>4 DEF PublishMessage, PublishFailed
<1>5. CASE Begin("reload") \/ Begin("shutdown")
  BY <1>5 DEF Begin
<1>6. CASE JoinHeart \/ MarkOffline \/ LoopStop \/ Disconnect
  BY <1>6 DEF JoinHeart, MarkOffline, Signal, LoopStop, Disconnect
<1>7. CASE Create
  BY <1>7, ClientBounds DEF Create, ServiceStands
<1>8. CASE StartClient
  BY <1>8 DEF StartClient
<1>9. CASE Gone
  BY <1>9 DEF Gone
<1>10. CASE PublishWill
  BY <1>10 DEF PublishWill
<1> QED
  BY <1>1, <1>2, <1>3, <1>4, <1>5, <1>6, <1>7, <1>8, <1>9, <1>10 DEF Next, Replace, Exit, Kill

\* And those of the service's, the broker's and the history's.
LEMMA StatesStep ==
  ASSUME StatesOK, ThreadsOK, QueuesOK, Next
  PROVE  StatesOK'
<1> USE DEF StatesOK, healthVars, countVars, brokerVars, requestVars
<1>1. ASSUME UNCHANGED <<healthVars, countVars, brokerVars, published>>,
             breaks' = breaks \/ breaks' = breaks + 1
      PROVE  StatesOK'
  BY <1>1
<1>2. ASSUME UNCHANGED <<countVars, brokerVars, published, breaks>>,
             SetLastError
      PROVE  StatesOK'
  BY <1>2 DEF SetLastError
<1>3. ASSUME NEW c \in Clients, Network(c) \/ Connack(c) \/ Refuse(c)
      PROVE  StatesOK'
  <2>1. CASE Connack(c)
    BY <2>1, ClientBounds DEF Connack, Clients
  <2>2. CASE OnConnect(c)
    BY <2>2 DEF OnConnect, SetConnected
  <2>3. CASE Refuse(c)
    <3>1. connected' = FALSE /\ lastError' = TRUE /\ offline' = offline
      BY <2>3 DEF Refuse
    <3>2. /\ breaks' = breaks + 1
          /\ UNCHANGED <<counter, drops, session, health, published>>
      BY <2>3 DEF Refuse
    <3>3. connected' \in BOOLEAN /\ lastError' \in BOOLEAN /\ offline' \in BOOLEAN
      BY <3>1
    <3>4. /\ counter' \in Nat /\ drops' \in Nat /\ session' \in 0..MaxClients
          /\ health' \in {"none", "healthy", "degraded", "offline"}
          /\ breaks' \in Nat /\ published' \in Nat
      BY <3>2
    <3> QED
      BY ONLY <3>3, <3>4 DEF StatesOK
  <2>4. CASE OnDisconnect(c)
    <3>1. connected' = FALSE /\ lastError' = lastError /\ offline' = offline
      BY <2>4 DEF OnDisconnect, AfterLoss
    <3>2. /\ drops' = drops + 1
          /\ UNCHANGED <<counter, session, health, published, breaks>>
      BY <2>4 DEF OnDisconnect
    <3>3. connected' \in BOOLEAN /\ lastError' \in BOOLEAN /\ offline' \in BOOLEAN
      BY <3>1
    <3>4. /\ counter' \in Nat /\ drops' \in Nat /\ session' \in 0..MaxClients
          /\ health' \in {"none", "healthy", "degraded", "offline"}
          /\ breaks' \in Nat /\ published' \in Nat
      BY <3>2
    <3> QED
      BY ONLY <3>3, <3>4 DEF StatesOK
  <2>5. CASE CountReconnect(c)
    BY <2>5 DEF CountReconnect, IncrementReconnects
  <2>6. CASE RecordLoss(c)
    BY <2>6, <1>2 DEF RecordLoss
  <2>7. CASE PublishHealth(c) \/ Resend(c) \/ NoticeLoss(c) \/ NetEnds(c)
    BY <2>7, <1>1 DEF PublishHealth, Resend, NoticeLoss, NetEnds
  <2> QED
    BY <1>3, <2>1, <2>2, <2>3, <2>4, <2>5, <2>6, <2>7 DEF Network
<1>4. ASSUME NEW c \in Clients, Heartbeat(c)
      PROVE  StatesOK'
  <2>1. CASE BeatFailed(c)
    BY <2>1, <1>2 DEF BeatFailed
  <2> QED
    BY <1>1, <1>4, <2>1 DEF Heartbeat, Beat, SendBeat, HeartEnds
<1>5. ASSUME NEW c \in Clients, Deliver(c) \/ Break(c)
      PROVE  StatesOK'
  <2>1. wire[c] # <<>> => Head(wire[c]) \in {"healthy", "degraded"}
    BY QueueFacts DEF Payloads
  <2>2. CASE Deliver(c)
    BY <2>1, <2>2 DEF Deliver
  <2>3. CASE Break(c)
    BY <2>1, <2>3 DEF Break
  <2> QED
    BY <1>5, <2>2, <2>3
<1>6. ASSUME NEW w \in Publishers, PublishMessage(w) \/ PublishFailed(w)
      PROVE  StatesOK'
  <2>1. CASE PublishMessage(w)
    BY <2>1 DEF PublishMessage
  <2> QED
    BY <1>2, <1>6, <2>1 DEF PublishFailed
<1>7. ASSUME Begin("reload") \/ Begin("shutdown") \/ Replace \/ Kill \/ PublishWill
      PROVE  StatesOK'
  <2>1. CASE MarkOffline
    BY <2>1 DEF MarkOffline
  <2>2. CASE Disconnect
    <3>1. /\ connected' \in BOOLEAN /\ lastError' \in BOOLEAN /\ offline' \in BOOLEAN
      BY <2>2 DEF Disconnect
    <3>2. session' \in 0..MaxClients
      BY <2>2, ClientBounds DEF Disconnect, NoClient
    <3>3. UNCHANGED <<counter, drops, health, published, breaks>>
      BY <2>2 DEF Disconnect
    <3> QED
      BY ONLY <3>1, <3>2, <3>3, StatesOK DEF StatesOK
  <2>3. CASE PublishWill
    BY <2>3, ClientBounds DEF PublishWill, NoClient, Will
  <2>4. CASE Gone
    BY <2>4 DEF Gone
  <2> QED
    BY <1>1, <1>7, <2>1, <2>2, <2>3, <2>4 DEF Begin, Replace, JoinHeart, LoopStop, Create,
      StartClient, Exit, Kill
<1> QED
  BY <1>3, <1>4, <1>5, <1>6, <1>7 DEF Next

-----------------------------------------------------------------------------
(* One lemma for each thread.                                              *)

Standing == OthersStopped /\ ServiceStands /\ SocketStands /\ FlagStands /\ CountStands

\* What none of the invariants reads may change at will.
LEMMA QuietSteps ==
  ASSUME Standing,
         UNCHANGED <<up, service, created, net, sock, connected, offline, counter, drops,
                     reload, goal>>
  PROVE  Standing'
BY DEF Standing, OthersStopped, ServiceStands, SocketStands, FlagStands, CountStands

\* The only network thread is that of the client in service.
LEMMA NetworkIsServed ==
  ASSUME Standing, ThreadsOK, NEW c \in Clients, net[c] # "off"
  PROVE  /\ c = service /\ up
         /\ reload \in {"idle", "join", "mark", "loop stop"}
BY DEF Standing, OthersStopped, ServiceStands, ThreadsOK

\* A callback leaves the flag and the counter as its step of the thread has them.
LEMMA NetworkSteps ==
  ASSUME Standing, ThreadsOK, StatesOK, NEW c \in Clients,
         Network(c) \/ Connack(c) \/ Refuse(c)
  PROVE  Standing'
<1>1. /\ c = service /\ up /\ reload \in {"idle", "join", "mark", "loop stop"}
      /\ net[c] # "off"
  <2>1. net[c] # "off"
    BY DEF Network, Connack, Refuse, OnConnect, PublishHealth, Resend, NoticeLoss,
      OnDisconnect, CountReconnect, RecordLoss, NetEnds
  <2> QED
    BY <2>1, NetworkIsServed
<1>2. /\ UNCHANGED <<up, service, created, reload, goal>>
      /\ \A d \in Clients : d # c => net'[d] = "off" /\ ~sock'[d]
  <2>1. UNCHANGED <<up, service, created, reload, goal>>
    BY DEF Network, Connack, Refuse, OnConnect, PublishHealth, Resend, NoticeLoss,
      OnDisconnect, CountReconnect, RecordLoss, NetEnds, procVars, reloadVars
  <2>2. /\ \E step : net' = [net EXCEPT ![c] = step]
        /\ sock' = sock \/ \E b : sock' = [sock EXCEPT ![c] = b]
    BY DEF Network, Connack, Refuse, OnConnect, PublishHealth, Resend, NoticeLoss,
      OnDisconnect, CountReconnect, RecordLoss, NetEnds, NetGoto
  <2> QED
    BY <2>1, <2>2, <1>1 DEF Standing, OthersStopped, ThreadsOK
<1>3. OthersStopped' /\ ServiceStands'
  BY <1>1, <1>2 DEF Standing, OthersStopped, ServiceStands
<1>4. ASSUME net'[c] \in {"trying", "lost", "count", "error"} => ~sock'[c],
             net'[c] \in {"connack", "health", "resend", "online"} => sock'[c],
             net'[c] \in Flagged => connected' /\ (reload \in {"idle", "join", "mark"} => ~offline'),
             net'[c] \in Cleared \/ (net'[c] = "off" /\ ~sock'[c]) => ~connected',
             IF net'[c] = "count" THEN counter' = drops' - 1 ELSE counter' = drops'
      PROVE  Standing'
  <2>1. SocketStands'
    BY <1>2, <1>4 DEF SocketStands
  <2>2. FlagStands'
    BY <1>2, <1>4 DEF FlagStands, Flagged, Cleared
  <2>3. CountStands'
    BY <1>2, <1>4 DEF CountStands
  <2> QED
    BY <1>3, <2>1, <2>2, <2>3 DEF Standing
<1>5. /\ net[c] \in {"trying", "lost", "count", "error"} => ~sock[c]
      /\ net[c] \in {"connack", "health", "resend", "online"} => sock[c]
      /\ net[c] \in Flagged => connected /\ (reload \in {"idle", "join", "mark"} => ~offline)
      /\ net[c] \in Cleared => ~connected
      /\ IF net[c] = "count" THEN counter = drops - 1 ELSE counter = drops
  BY <1>1, NetworkIsServed DEF Standing, SocketStands, FlagStands, CountStands
<1>6. \A step : net' = [net EXCEPT ![c] = step] => net'[c] = step
  BY DEF ThreadsOK
<1>7. \A b : sock' = [sock EXCEPT ![c] = b] => sock'[c] = b
  BY DEF ThreadsOK
<1>8. counter \in Int /\ drops \in Int
  BY DEF StatesOK
<1>9. CASE Connack(c)
  <2>1. /\ net[c] = "trying" /\ net'[c] = "connack" /\ sock'[c] = TRUE
        /\ UNCHANGED <<connected, counter, drops>>
    BY <1>6, <1>7, <1>9 DEF Connack, NetGoto, healthVars, countVars
  <2> QED
    BY ONLY <1>4, <1>5, <2>1 DEF Flagged, Cleared
<1>10. CASE OnConnect(c)
  <2>1. /\ net[c] = "connack" /\ net'[c] = "health" /\ connected' = TRUE
        /\ ~offline' /\ UNCHANGED <<sock, counter, drops>>
    BY <1>6, <1>10 DEF OnConnect, NetGoto, SetConnected, countVars
  <2> QED
    BY ONLY <1>4, <1>5, <2>1 DEF Flagged, Cleared
<1>11. CASE PublishHealth(c) \/ Resend(c)
  <2>1. /\ net[c] \in Flagged /\ net'[c] \in {"resend", "online"}
        /\ net[c] # "count"
        /\ UNCHANGED <<sock, connected, offline, counter, drops>>
    BY <1>6, <1>11 DEF PublishHealth, Resend, NetGoto, Flagged, healthVars, countVars
  <2> QED
    BY ONLY <1>4, <1>5, <2>1 DEF Flagged, Cleared
<1>12. CASE Refuse(c)
  <2>1. /\ net[c] = "trying" /\ net'[c] = "lost" /\ connected' = FALSE
        /\ UNCHANGED <<sock, counter, drops>>
    BY <1>6, <1>12 DEF Refuse, NetGoto, countVars
  <2> QED
    BY ONLY <1>4, <1>5, <2>1 DEF Flagged, Cleared
<1>13. CASE NoticeLoss(c)
  <2>1. /\ net[c] = "online" /\ net'[c] = "lost" /\ ~sock'[c]
        /\ UNCHANGED <<counter, drops>>
    BY <1>6, <1>7, <1>13 DEF NoticeLoss, NetGoto, countVars
  <2> QED
    BY ONLY <1>4, <1>5, <2>1 DEF Flagged, Cleared
<1>14. CASE OnDisconnect(c)
  <2>1. /\ net[c] = "lost" /\ net'[c] = "count" /\ connected' = FALSE
        /\ drops' = drops + 1 /\ UNCHANGED <<sock, counter>>
    BY <1>6, <1>14 DEF OnDisconnect, AfterLoss, NetGoto
  <2> QED
    BY ONLY <1>4, <1>5, <1>8, <2>1 DEF Flagged, Cleared
<1>15. CASE CountReconnect(c)
  <2>1. /\ net[c] = "count" /\ net'[c] = "error" /\ counter' = counter + 1
        /\ UNCHANGED <<sock, connected, drops>>
    BY <1>6, <1>15 DEF CountReconnect, IncrementReconnects, NetGoto, healthVars
  <2> QED
    BY ONLY <1>4, <1>5, <1>8, <2>1 DEF Flagged, Cleared
<1>16. CASE RecordLoss(c)
  <2>1. /\ net[c] = "error" /\ net'[c] = "trying"
        /\ UNCHANGED <<sock, connected, counter, drops>>
    BY <1>6, <1>16 DEF RecordLoss, SetLastError, NetGoto, countVars
  <2> QED
    BY ONLY <1>4, <1>5, <2>1 DEF Flagged, Cleared
<1>17. CASE NetEnds(c)
  <2>1. /\ net[c] \in {"trying", "online"} /\ net'[c] = "off"
        /\ UNCHANGED <<sock, connected, counter, drops>>
    BY <1>6, <1>17 DEF NetEnds, NetGoto, healthVars, countVars
  <2> QED
    BY ONLY <1>4, <1>5, <2>1 DEF Flagged, Cleared
<1> QED
  BY <1>9, <1>10, <1>11, <1>12, <1>13, <1>14, <1>15, <1>16, <1>17 DEF Network

\* Where a client is replaced, its network thread has ended or has its say.
LEMMA ReplaceSteps ==
  ASSUME Standing, ThreadsOK, Begin("reload") \/ Begin("shutdown") \/ Replace \/ Kill
  PROVE  Standing'
<1>1. OthersStopped /\ ServiceStands /\ SocketStands /\ FlagStands /\ CountStands
  BY DEF Standing
<1>2. ASSUME OthersStopped', ServiceStands', SocketStands', FlagStands', CountStands'
      PROVE  Standing'
  BY <1>2 DEF Standing
<1>3. ASSUME UNCHANGED <<up, service, created, net, sock, connected, counter, drops>>,
             offline' = offline \/ reload' \notin {"idle", "join", "mark"},
             reload' \in {"join", "mark", "loop stop", "disconnect"},
             reload' \in {"join", "mark"} => reload \in {"idle", "join"},
             reload \in {"idle", "join", "mark", "loop stop"},
             reload = "loop stop" => net[service] = "off",
             reload = "idle" /\ goal' = "reload" => created < MaxClients,
             reload # "idle" => goal' = goal,
             reload' = "disconnect" => reload = "loop stop"
      PROVE  Standing'
  <2>1. OthersStopped' /\ SocketStands' /\ CountStands'
    BY <1>1, <1>3 DEF OthersStopped, SocketStands, CountStands
  <2>2. ServiceStands'
    BY <1>1, <1>3 DEF ServiceStands
  <2>3. FlagStands'
    BY <1>1, <1>3 DEF FlagStands
  <2> QED
    BY <1>2, <2>1, <2>2, <2>3
<1> USE DEF procVars, netVars, healthVars, countVars
<1>4. CASE Begin("reload") \/ Begin("shutdown")
  BY <1>3, <1>4 DEF Begin
<1>5. CASE JoinHeart
  BY <1>3, <1>5 DEF JoinHeart
<1>6. CASE MarkOffline
  BY <1>3, <1>6 DEF MarkOffline
<1>7. CASE LoopStop
  BY <1>3, <1>7 DEF LoopStop, Joined
<1>8. CASE Disconnect
  <2>1. service \in Clients /\ net[service] = "off" /\ up /\ reload = "disconnect"
    BY <1>1, <1>8 DEF Disconnect, ServiceStands
  <2>2. /\ \A c \in Clients : net'[c] = "off" /\ ~sock'[c]
        /\ \A c \in Clients : net[c] = "off"
        /\ UNCHANGED <<up, service, created, net, counter, drops, goal>>
    BY <1>1, <1>8, <2>1 DEF Disconnect, OthersStopped, ThreadsOK
  <2>3. OthersStopped' /\ SocketStands' /\ CountStands'
    BY <1>1, <2>2 DEF OthersStopped, SocketStands, CountStands
  <2>4. ServiceStands'
    BY <1>1, <1>8, <2>2 DEF ServiceStands, Disconnect, ThreadsOK
  <2>5. ~connected'
    <3>1. CASE sock[service]
      BY <3>1, <1>8 DEF Disconnect
    <3>2. CASE ~sock[service]
      BY <3>2, <1>1, <1>8, <2>1, <2>2 DEF Disconnect, FlagStands, OthersStopped
    <3> QED
      BY <3>1, <3>2
  <2>6. FlagStands'
    BY <2>2, <2>5 DEF FlagStands, Flagged
  <2> QED
    BY <1>2, <2>3, <2>4, <2>6
<1>9. CASE Create \/ StartClient
  <2>1. /\ \A c \in Clients : net[c] = "off" /\ ~sock[c]
        /\ up /\ ~connected /\ counter = drops /\ goal = "reload"
        /\ reload \in {"create", "start"}
    BY <1>1, <1>9 DEF Create, StartClient, ServiceStands, FlagStands, CountStands
  <2>2. CASE Create
    <3>1. /\ created' = created + 1 /\ service' = created' /\ reload' = "start"
          /\ UNCHANGED <<up, net, sock, connected, offline, counter, drops, goal>>
          /\ reload = "create"
      BY <2>2 DEF Create
    <3>2. service' \in Clients
      BY <1>1, <3>1, ClientBounds DEF ServiceStands, ThreadsOK, Clients
    <3>3. OthersStopped' /\ SocketStands' /\ CountStands'
      BY <2>1, <3>1 DEF OthersStopped, SocketStands, CountStands
    <3>4. ServiceStands'
      BY <2>1, <3>1, <3>2 DEF ServiceStands
    <3>5. FlagStands'
      BY <2>1, <3>1 DEF FlagStands, Flagged
    <3> QED
      BY <1>2, <3>3, <3>4, <3>5
  <2>3. CASE StartClient
    <3>1. /\ reload' = "idle" /\ net' = [net EXCEPT ![service] = "trying"]
          /\ UNCHANGED <<up, service, created, sock, connected, offline, counter, drops, goal>>
          /\ reload = "start"
      BY <2>3 DEF StartClient
    <3>2. service \in Clients /\ net'[service] = "trying"
          /\ \A c \in Clients : c # service => net'[c] = "off"
      BY <1>1, <2>1, <3>1 DEF ServiceStands, ThreadsOK
    <3>3. \A c \in Clients : net'[c] \in {"off", "trying"} /\ ~sock'[c]
      BY <2>1, <3>1, <3>2
    <3>4. OthersStopped' /\ SocketStands' /\ CountStands'
      BY <2>1, <3>1, <3>2, <3>3 DEF OthersStopped, SocketStands, CountStands
    <3>5. ServiceStands'
      BY <1>1, <2>1, <3>1, <3>2 DEF ServiceStands
    <3>6. FlagStands'
      BY <2>1, <3>1, <3>3 DEF FlagStands, Flagged
    <3> QED
      BY <1>2, <3>4, <3>5, <3>6
  <2> QED
    BY <1>9, <2>2, <2>3
<1>10. CASE Gone
  <2>1. /\ ~up' /\ reload' = "gone" /\ \A c \in Clients : net'[c] = "off" /\ ~sock'[c]
        /\ UNCHANGED <<service, created>>
    BY <1>10 DEF Gone
  <2>2. OthersStopped' /\ SocketStands' /\ CountStands' /\ FlagStands'
    BY <2>1 DEF OthersStopped, SocketStands, CountStands, FlagStands
  <2>3. ServiceStands'
    BY <1>1, <2>1 DEF ServiceStands
  <2> QED
    BY <1>2, <2>2, <2>3
<1> QED
  BY <1>4, <1>5, <1>6, <1>7, <1>8, <1>9, <1>10 DEF Replace, Exit, Kill

-----------------------------------------------------------------------------
(* The theorems.                                                           *)

\* At the start there is no client, and no event to report.
LEMMA InitClientInv == Init => ClientInv
<1> SUFFICES ASSUME Init PROVE ClientInv
  OBVIOUS
<1> USE ClientBounds DEF Init, NoClient
<1>1. ThreadsOK
  BY DEF ThreadsOK
<1>2. StatesOK
  <2>1. connected \in BOOLEAN /\ lastError \in BOOLEAN /\ offline \in BOOLEAN
    OBVIOUS
  <2>2. /\ counter \in Nat /\ drops \in Nat /\ session \in 0..MaxClients
        /\ health \in {"none", "healthy", "degraded", "offline"}
        /\ breaks \in Nat /\ published \in Nat
    OBVIOUS
  <2> QED
    BY <2>1, <2>2 DEF StatesOK
<1>3. QueuesOK
  BY EmptySeq DEF QueuesOK
<1>4. OthersStopped /\ SocketStands /\ FlagStands /\ CountStands
  BY DEF OthersStopped, SocketStands, FlagStands, CountStands, Flagged, Cleared
<1>5. ServiceStands
  BY DEF ServiceStands
<1> QED
  BY <1>1, <1>2, <1>3, <1>4, <1>5, TypeParts DEF ClientInv

\* Every step keeps the invariant.
LEMMA NextClientInv == ClientInv /\ [Next]_vars => ClientInv'
<1> SUFFICES ASSUME ClientInv, [Next]_vars PROVE ClientInv'
  OBVIOUS
<1>1. ThreadsOK /\ StatesOK /\ QueuesOK /\ Standing
  BY TypeParts DEF ClientInv, Standing
<1>2. CASE Next
  <2>1. ThreadsOK' /\ StatesOK' /\ QueuesOK'
    BY <1>1, <1>2, ThreadsStep, StatesStep, QueuesStep DEF Standing, StatesOK
  <2>2. ClientTypeOK'
    BY ONLY <2>1 DEF ClientTypeOK, ThreadsOK, StatesOK, QueuesOK
  <2>3. Standing'
    <3>1. ASSUME NEW c \in Clients, Network(c) \/ Connack(c) \/ Refuse(c)
          PROVE  Standing'
      BY <1>1, <3>1, NetworkSteps
    <3>2. ASSUME NEW c \in Clients, Heartbeat(c) \/ Deliver(c) \/ Break(c)
          PROVE  Standing'
      BY <1>1, <3>2, QuietSteps DEF Heartbeat, Beat, SendBeat, BeatFailed, HeartEnds,
        SetLastError, Deliver, Break, procVars, netVars, healthVars, countVars, reloadVars
    <3>3. ASSUME NEW w \in Publishers, PublishMessage(w) \/ PublishFailed(w)
          PROVE  Standing'
      BY <1>1, <3>3, QuietSteps DEF PublishMessage, PublishFailed, SetLastError,
        procVars, netVars, healthVars, countVars, reloadVars
    <3>4. CASE PublishWill
      BY <1>1, <3>4, QuietSteps DEF PublishWill, procVars, netVars, healthVars, countVars,
        reloadVars
    <3>5. CASE Begin("reload") \/ Begin("shutdown") \/ Replace \/ Kill
      BY <1>1, <3>5, ReplaceSteps
    <3> QED
      BY <1>2, <3>1, <3>2, <3>3, <3>4, <3>5 DEF Next
  <2> QED
    BY <2>2, <2>3 DEF Standing, ClientInv
<1>3. CASE UNCHANGED vars
  <2>1. ClientTypeOK'
    BY <1>3 DEF ClientInv, ClientTypeOK, vars, procVars, netVars, heartVars, stopVars,
      queueVars, healthVars, countVars, reloadVars, brokerVars, requestVars
  <2>2. Standing'
    BY <1>1, <1>3, QuietSteps DEF vars, procVars, netVars, healthVars, countVars, reloadVars
  <2> QED
    BY <2>1, <2>2 DEF Standing, ClientInv
<1> QED
  BY <1>2, <1>3

\* The inductive invariant of the client: one network thread, and the flag, the
\* socket and the counter as the step that thread is at has them.
THEOREM ClientInvariant == Spec => []ClientInv
BY InitClientInv, NextClientInv, PTL DEF Spec

\* Every variable has its type, and no more clients are created than the bound.
THEOREM ClientTypes == Spec => []ClientTypeOK
<1>1. ClientInv => ClientTypeOK
  BY DEF ClientInv
<1> QED
  BY <1>1, ClientInvariant, PTL

\* Two clients never take the session from each other: a reload joins the old
\* one's threads and closes its socket before it creates the next.
THEOREM OneConnects == Spec => []OneClientConnects
<1>1. ClientInv => OneClientConnects
  <2> SUFFICES ASSUME ClientInv PROVE OneClientConnects
    OBVIOUS
  <2> DEFINE S == {c \in Clients : net[c] # "off" \/ sock[c]}
  <2>1. S \subseteq {service}
    BY DEF ClientInv, OthersStopped
  <2>2. IsFiniteSet({service}) /\ Cardinality({service}) = 1
    BY FS_Singleton
  <2>3. Cardinality(S) <= 1
    BY <2>1, <2>2, FS_Subset, FS_CardinalityType
  <2> QED
    BY <2>3 DEF OneClientConnects
<1> QED
  BY <1>1, ClientInvariant, PTL

\* What the addon reports of its connection is the state of the client in service,
\* across any number of lost connections and replaced clients.
THEOREM FlagIsTheClients == Spec => []FlagFollowsClient
<1>1. ClientInv => FlagFollowsClient
  <2> SUFFICES ASSUME ClientInv, up, reload = "idle"
               PROVE  /\ net[service] \in {"online", "health", "resend"} =>
                           connected /\ Status # "offline"
                      /\ net[service] \in {"trying", "connack"} =>
                           ~connected /\ Status # "healthy"
    BY DEF FlagFollowsClient
  <2>1. service \in Clients
    BY DEF ClientInv, ServiceStands
  <2>2. net[service] \in {"online", "health", "resend"} => connected /\ ~offline
    BY <2>1 DEF ClientInv, FlagStands, Flagged
  <2>3. net[service] \in {"trying", "connack"} => ~connected
    BY <2>1 DEF ClientInv, FlagStands, Cleared
  <2> QED
    BY <2>2, <2>3 DEF Status
<1> QED
  BY <1>1, ClientInvariant, PTL

\* Every unexpected disconnection is counted once, whichever client it befell.
THEOREM ReconnectsAreCounted == Spec => []ReconnectsCounted
<1>1. ClientInv => ReconnectsCounted
  BY DEF ClientInv, CountStands, ReconnectsCounted
<1> QED
  BY <1>1, ClientInvariant, PTL
=============================================================================
