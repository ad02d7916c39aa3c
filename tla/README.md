# Synthia MQTT addon: TLA+ models and proofs

This directory models the Synthia MQTT addon (`app/`), checks the models with
TLC on small instances and proves theorems about most of them with TLAPS. It is
written for readers of the code: every definition names, in `PROJECT.json`
(`map`), the lines it stands for.

The addon is a FastAPI process. Its handlers are synchronous, so FastAPI runs
them on a pool of threads: **two requests run at the same time**. Beside them
run paho's network thread, the heartbeat thread of the MQTT client and the
telemetry flusher. State that outlives a request is in memory behind small
locks (policy cache, telemetry buffer, health flags) or in JSON files that are
read, changed and written back whole, mostly without a lock (`desired.json` has
one).

    cd tla
    tlc -config Setup.cfg MCSetup        # any pair of cfg and module below
    tlapm TelemetryProofs.tla            # the proofs

## 1. Inventory

| Component | State | Operations | What is hard |
|---|---|---|---|
| Telemetry reporter (`services/telemetry_reporter.py`) | a bounded queue, its file, a stop event | enqueue from requests, flush loop, stop, load at start | post outside the lock and pop afterwards; snapshots written late; a lock taken twice; shutdown racing the flusher; crash between queue and file |
| Policy cache (`services/policy_cache.py`) | grants by consumer, three sets of revocations | `ingest` on the network thread, `authorize` on request threads | grants and revocations in any order; one check outside the lock |
| Policy feed (subscription in `services/mqtt_client.py`) | none of its own; the broker's retained messages | subscribe on every connection, one ingest per message | redelivery after a reconnect, an empty cache after a restart |
| MQTT client and health (`services/mqtt_client.py`, `health.py`, `mqtt_metrics_store.py`, `main.py`) | the client in service, flags, last error, reconnect counter file, the broker's retained health and will | connect, callbacks, heartbeat, publish, stop, reload | callbacks of two clients and two threads over shared flags; messages queued while offline; join of two threads; death without goodbye |
| Setup workflow (`api/install_workflow.py`, `services/config_store.py`, `api/broker_admin.py`, `api/addon_contract.py`) | `config.json`, `install_state.json` | apply, mode, test, register, restart, reset, groups, core URL, config update | a dozen unlocked writes in one request; failure or crash after any; the publish gate opens on the result |
| Registrations (`api/mqtt_registration.py`, `services/registration_store.py`) | registration file, credential seed, ACL files and notes | upsert, inspection | unlocked read-modify-write by addons that all register at once; rotation of passwords; record saved before its ACL |
| Trace store and metrics (`services/publish_trace_store.py`, `api/mqtt_publish.py`) | the last 250 outcomes | append, list, metrics derived from them | a full list; lost appends; counters that fall |
| Publish, gateway and Home Assistant endpoints (`api/mqtt_publish.py`, `api/ha_discovery.py`) | none | token, gate, policy, registration, topic and envelope checks, publish, trace, usage | checks read once and used later; a failure between message, trace and usage |
| Service tokens (`services/token_auth.py`, `api/auth.py`) | none | take or refuse a header | which claims count in which mode |
| Topic rules (`services/topic_permissions.py`, `envelope_validation.py`, `topic_builder.py`) | none | match filters, publish rules, envelope | wildcards at the ends; prefixes of other addons |
| Desired and runtime state (`services/mounted_state_store.py`, `fs_utils.py`, `lock.py`) | `desired.json` (written), `runtime.json` (read), a file lock | update under lock, replace with in-place fallback | lock timeout; crash in the fallback; readers without the lock |
| Optional groups (`services/config_store.py`, `api/install_workflow.py`) | in `desired.json`, asset directories and `install_state.json` | resolve dependencies, select, reconcile, status | cycles; several files changed by one request; status that mixes desired and reported |
| Broker management (`services/broker_manager.py`, `api/broker_admin.py`) | generated files, a docker container | write files, restart under a lock | 10 s lock against a 20 s wait |
| Core registration (`core_registry.py`) | none | one HTTP call | none that a model would show |

**How they interact.** Setup writes the configuration, reloads the MQTT client
and opens the publish gate. The client feeds health and the policy cache. A
publish passes the token, the gate, the policy, the registration's scopes, then
the client; it leaves a trace and one telemetry event. A group selection writes
`desired.json`; the supervisor follows it and answers in `runtime.json`, from
which the status is made. Shutdown stops telemetry, then the
client. The supervisor, Core, the broker and docker are outside.

**What makes each correct** is stated as the properties of section 3; section 6
lists what is open. The hazards, each at its line and with the properties that
cover it, are in `PROJECT.json` (`hazards`).

## 2. Modules

| Module | Models | Notes |
|---|---|---|
| `Telemetry` | telemetry reporter | one action per section under the lock, post, open and fill of the file |
| `TelemetryProofs` | proofs about it | |
| `PolicyMessages` | what Core publishes | shared vocabulary |
| `GrantLedger` | abstract policy: who may publish | the specification the cache implements |
| `PolicyCache` | the cache and `authorize` | messages in **any** order, any number of times |
| `PolicyFeed` | broker, subscription, reconnect and restart around `PolicyCache` | extends it, and adds the order |
| `PolicyProofs` | proofs about `PolicyCache` | |
| `FeedProofs` | proofs about `PolicyFeed` | extends `PolicyProofs` |
| `Setup` | the setup handlers over the two files, the client, the desired group | a handler is a list of steps |
| `SetupProofs` | proofs about it | extends `Setup` |
| `MqttClient` | client, threads, health, reload, shutdown, will | clients are numbered by creation |
| `ClientProofs` | proofs about it | extends `MqttClient` |
| `TraceStore` | the capped trace file | operators; `Registrations` and `Publish` make the steps of an append |
| `Registrations` | the upsert handler and its files | extends `TraceStore` |
| `RegistrationProofs` | proofs about it | extends `Registrations` |
| `ServiceToken` | `validate_bearer` | operators, claim by claim |
| `Topics` | matching, publish rules, envelope | operators over sequences of levels, beside MQTT's own definition of matching |
| `Publish` | the four publishing endpoints | composes `PolicyCache`, `Topics`, `ServiceToken`, `TraceStore`; session, registrations and connection change around them |
| `PublishProofs` | proofs about `Topics`, then about `Publish` | extends `PolicyProofs` |
| `AtomicRecord` | a record whose writers set one field in one step | the specification `desired.json` implements |
| `DesiredState` | selections, URL changes, applies, the lock, the supervisor, the status | |
| `DesiredProofs` | proofs about it | |
| `MC*` | values for TLC | constants and symmetry only |

Three modules meet the same handlers from different sides. `Setup` has an apply,
a selection or a URL change as steps that succeed or fail, and the session they
leave; `DesiredState` has what those steps do to `desired.json`, its assets and
`config.json`'s URL; `Publish` only sees that the session changes. In the same
way `PolicyFeed` has the order in which policy messages come, and `Publish` lets
some come between any two steps.

### How the code shows up

* **Threads** are functions from a thread to what it does next (`pc` in
  Telemetry, `net`/`heart`/`reload` in MqttClient, `todo` in Setup, `job` in
  Registrations, Publish and DesiredState). An action is what a thread does until another one can step in.
* **Locks.** A section under a lock is one action. Only where the code can wait
  inside a section for a lock (telemetry), or holds it while others look at the
  file (`desired.json.lock`), does the lock appear as a variable.
* **Files.** `write_text` and `open("w")` truncate and then fill: two actions,
  with the value `Torn` in between. A torn file reads as the code reads it:
  `{}`, `[]`, or an exception. Where two threads write at once, what is left may
  also be garbled (Setup, DesiredState).
* **Crash** resets the threads and the memory and keeps the files as they are.
* **Requests** are records from a small set; payloads, passwords and topics are
  what the code tells them apart by. A password is the pair of seed and version
  it is derived from; the topic of a registration is own, nested, reserved or
  foreign, a published one is a sequence of levels.
* **History variables** (marked as such) are read by properties only.
* A definition commented *Mutant:* stands just before the one it would replace:
  a plausible bug that the property named in `PROJECT.json` catches.

## 3. Runs

| Run | What it checks | Result |
|---|---|---|
| `telemetry` | `TypeOK`, `NoHoles`, `KeptUntilDelivered`, `CrashSafeWhenQuiet`, `CleanStopKeeps`, `BlockedOnlyWhenDrained`, `InOrder`, `OnlyFlushBlocks`, `EventuallyFlushed` | hold |
| `telemetry_blocks` | `PublishReturns` | violated: finding 1 |
| `policy_feed` | `PolicyTypeOK`, `NoTombstoneOverGrant`, `RevokedWhenQuiet`, `NoBarredRequestAllowed`, `RevocationArrives`, `DecidesLikeLedger`, and `LedgerSpec`, the refinement | hold |
| `policy_redelivery` | `RevocationStaysInForce` | violated: finding 2 |
| `setup` | `SetupTypeOK`, `GateOpensByApply`, `ClientFollowsConfig`, `AnsweredOkMeansApplied`, `OnlyTestedApplied` | hold, one request at a time |
| `setup_rebuild` | `RebuiltAfterLoss` | violated: finding 3 |
| `mqtt_client` | `ClientTypeOK`, `FlagFollowsClient`, `OneClientConnects`, `ReconnectsCounted`, `RetainedHealthRecovers`, `DeathIsAnnounced`, `ReplacementEnds` | hold, one reload at a time |
| `registrations` | `RegistrationTypeOK`, `RegistrationsKept`, `TopicFileFollowsRecord`, `CredentialsChangeOnRequest` | hold, one request at a time |
| `registrations_race` | `RegistrationsKept` | violated: finding 4 |
| `desired_state` | `DesiredTypeOK`, `SideStateFollows`, `SelectionResolved`, `StatusSettles`, and `DesiredIsAtomic`, the refinement | hold |
| `groups_status` | `FullMeansActive` | violated: finding 5 |
| `publish` | `PublishTypeOK`, `OutcomesAgree`, `SentWhileAllowed` | hold |

Two of them in words:

* `desired_state`. Overlapping selections, URL changes and applies each change
  their own field of `desired.json` in one step (`DesiredIsAtomic`); the groups
  it names always have their assets, and its URL is `config.json`'s
  (`SideStateFollows`), unless a write was cut short, was refused, or overlapped
  another of its kind; a selection comes to the closure of what was asked for,
  in order (`SelectionResolved`); the status ends at what has become of the
  desired groups (`StatusSettles`).
* `publish`. A message goes out only for a request that met every condition
  (setup, revocation, grant, registration) at some point while it ran
  (`SentWhileAllowed`). That is as much as checks made one after the other can
  give: a request need never have met all of them at once. Message,
  answer, trace, usage and metrics agree, also when a request dies on the way
  (`OutcomesAgree`).

### Findings

1. **The flush that finds the queue empty waits for itself.** `_flush_once`
   calls `_persist_queue` inside `with self._lock`, which takes the same
   non-reentrant lock (`telemetry_reporter.py:92`). Core's URL must be set. The
   first drained queue stops telemetry and every publish after it.
   `BlockedOnlyWhenDrained` (proved) says no event is held back by it, and
   `OnlyFlushBlocks` that nothing else blocks a publish or the shutdown.
2. **A redelivered grant lifts a revocation for a while.** After a reconnect the
   retained grants come first (`policy_cache.py:100`). Once everything retained
   has come in, the revocation is in force again: `RevokedWhenQuiet`.
3. **A lost `install_state.json` is not rebuilt**: a missing file loads as `{}`,
   and the branch that reconstructs is not reached (`config_store.py:149`).
4. **Concurrent registrations lose records** (`registration_store.py:31`).
5. **Readiness is judged by the old selection** until the supervisor has run:
   the requested groups come from `runtime.json` whenever it names any
   (`install_workflow.py:183`). `StatusSettles` says this ends.

### Bounds, and why they are enough

* *Telemetry:* two requests so that appends overlap each other and the flusher,
  a queue limit of two so that it overflows, one restart so that a file is
  loaded. The proofs have no bounds.
* *Policy:* two consumers (one revoked, one that must not be touched), three
  grant ids (a consumer with a replaced grant), two tokens, three publications
  or clearings (among them a grant of another service and one without the scope)
  and two breaks: grant, revocation, and one more, with a redelivery between any
  two. The proofs cover every set of consumers, ids and tokens.
* *Setup:* two endpoints (tested and applied may differ), one request at a
  time. There is no bound on the number of requests, failures or crashes: the
  state space is finite by itself. With two requests at once some of the
  properties fail, as section 5 says.
* *MQTT client:* two clients (one replacement), two lost, refused or killed
  connections (one before and one after the replacement), one request, and a
  heartbeat that waits while two messages are queued. The heartbeat's bound
  keeps the backlog finite; a longer backlog holds more of the same messages.
* *Registrations:* two addons (the upsert of one must spare the other), three
  requests (a password, its rotation, one more), one failed write or crash,
  a trace list of two so that three outcomes overflow it.
* *Desired state:* two threads and two requests (a third could only queue for
  the same lock), one crash or failed step, two manifests (a chain, and a cycle
  with an unknown group), three selections (none, one, several), two URLs, and
  the three mounts. The refinement is proved without bounds.
* *Publish:* two requests at once, and two changes around them: one condition
  may fall and another rise between their checks, or one change meet a failure.
  The addons, grants and topics are chosen so that every check has a request it
  stops. The clock is one second (`Now`), against which the tokens are fresh,
  old or early; QoS and retain are handed to paho as they come and left out.
  The trace file holds two entries, so that it is full at once.

`CHECK_DEADLOCK FALSE` stands where the system may stop: the process is down for
good, or torn files keep it from booting (Setup), the bounded inputs are used
up (Policy, MqttClient, Registrations, DesiredState, Publish), the flusher waits
for itself (Telemetry).

### Fairness

* *Telemetry:* every thread that can take a step takes one (an OS scheduler);
  the time to the next round passes. `EventuallyFlushed` also needs a Core that
  accepts posts again and again: strong fairness of a successful post, since
  posts may fail in between. Requests, stop and crashes need not happen.
* *Policy feed:* the client reconnects (`loop_start` retries every 1 to 30 s)
  and takes what the broker has. Core need not publish.
* *MQTT client:* network, heartbeat and reload threads run, the broker answers
  and finds dead sessions (keepalive). Failures and reloads need not happen.
* *Desired state:* the supervisor polls `desired.json` and ends what it starts
  (`docs/supervisor.md`). Requests and their threads need no fairness:
  `StatusSettles` is about a file that stays as it is.
* *Setup, Registrations, Publish:* none; only safety is checked.

## 4. Proofs

Assumptions are those named `ASSUME` in the component's module, which the runs
evaluate, and the conditions a paragraph below names for its theorems: distinct
threads, a positive queue limit, an owner for each grant id, a lock that may be
held by nobody.

**Telemetry** (`TelemetryProofs`), for all threads, limits and numbers of
events. `BufferInvariant` proves the inductive invariant `BufferInv`. The
properties of the run are not inductive: that an event stays in the queue until
Core has it depends on the head of the queue being the one that was posted, also
when an append has cut the queue in between; that in turn on events being
consecutive (`Numbering`, `NoHoles`); that the file covers the queue depends on
what each thread has still to write (`FileCovers`), and a clean stop on the
stopping thread being the last one (`StopCovers`). `HeadPosted` ties a flusher
between post and pop to the head, and `SentFirst` the event last sent to what is
still queued. From `BufferInv` follow `TypeCorrect`, `QueueHasNoHoles`,
`NothingLostInMemory`, `BlockedFlushIsEmpty`, `FileHoldsQueue`,
`ShutdownKeepsEvents` and `EventsInOrder`. The conditions in the properties are
the events the code does lose: an overflow (`saturated`), a `stop()` that gave
up on the flusher (`timedOut`), two writes that overlapped (`raced`).

**Policy** (`PolicyProofs`), for all consumers, grants, tokens and requests, with
messages in any order, repeated at will. `CacheInvariant` strengthens
`NoTombstoneOverGrant` by `OwnedGrants`: a stored grant id belongs to the
consumer it is stored for, as Core issues it; without it a revocation of another
consumer's grant could meet a stored one. From it `CacheTypes`,
`TombstonesApart`, and `CacheImplementsLedger`: every step of the cache is a step
of `GrantLedger` or a stutter. `CacheFollowsLedger` says which one: each message
changes the standings exactly as the ledger says that very message does, whatever
tombstones earlier messages left. So the cache decides as a ledger without
tombstones does.

**Policy feed** (`FeedProofs`), for any consumers, grants and messages of Core,
any number of lost connections and restarts. `QuietMeansRevoked` speaks of a
feed that has nothing left to ingest, which says nothing of how it got there.
`FeedInv` does: a revocation that is Core's last word is retained
(`WordRetained`), and on a subscribed connection it stands behind every grant of
its consumer that is still to come, and is on its way unless the cache refuses
the consumer already (`WordFollows`). That a subscription establishes this rests
on the order in which `_subscribe_policy_topics` asks for the two topics.
`BarredDenied` gives `BarredNeverAllowed`. `FeedImplementsLedger`: every step of
the feed is a step of `PolicyCache` or leaves it alone, so that the theorems
about the cache, the ledger's among them, hold behind the subscription.

**Topics** (`PublishProofs`), for filters and topics of any length over any
levels. `MatchesIsMqtt`: the loop of `_mqtt_topic_matches`, which walks the
levels and returns early, accepts what section 4.7.1 of the MQTT standard says a
filter matches. `NamespacesDisjoint`: a topic that the publish rules accept for
one addon they accept for no other. `AddonsPublishEnvelopes`: whatever an
identified addon may publish is a platform topic and not reserved, so that its
payload is always checked.

**Publish** (`PublishProofs`), for any threads, requests, grants, registrations
and settings. `PublishInvariant` proves `Checked`: a request that waits has seen
the condition of every check behind it (the setup at the gate, the token and the
grant in the two steps of `authorize`, the registration as it was read), however
much has changed since. What the registration allows is decided after it was
read, so that the invariant speaks of the copy the request holds, and
`MatchesIsMqtt` turns the code's matching of its scopes into MQTT's. With
`JobsOK` (requests under way have numbers of their own, and a thread the sub of
its token), `SendsWhileAllowed` follows for every message. Assumed of the
inputs: topics and scopes are sequences of levels, scopes are not empty, and a
sensor's topic begins with `homeassistant`, as its handler makes it.
What becomes of a request takes two more invariants. `FateInvariant`: what a
request under way has sent, traced and billed so far is what its step and its
outcome say (`Fate`), an ended one has left what its answer says (`Agrees`), and
nobody has heard of one that has not come in (`Untold`). `FileInvariant`: short
of appends that overlap or are cut off, at most one request appends, it has read
the newest outcomes, and the file has those too unless that request has just
truncated it. From both `OutcomesAlwaysAgree`, where the metrics read the whole
file: they ask for 1000 entries, so that `MaxEntries <= 1000` is its hypothesis
(the code's cap is 250). `PublishUsesCache` says that each step is a step of
`PolicyCache` or leaves it alone, which carries `CacheInv` over to the endpoints;
with it and the types of what changes around them, `PublishTypes`. Assumed
besides: the values TLC takes as model values are no outcomes, requests or
files (`OutcomesAssumption`), and the cache starts with grants of this service
that have not ended (`FeedAssumption`).

**Registrations** (`RegistrationProofs`), for any threads, addons, requests,
bounds on requests and faults, and any change of the broker mode, as long as one
request is under way at a time (`OneAtATime`, also a condition of the run: with
two, `registrations_race` shows the loss). The three properties hold together or
not at all: `TopicFileFollowsRecord` and `CredentialsChangeOnRequest` rest on a
request's data being what was saved last (`GoodJob`), that on the file being torn
only while a request fills it or after all of it was lost (`TornIsEmpty`), and
the version of a password counts for something only because every password is of
the one seed (`OneSeed`), which is made when no password has been issued. From
them `RegistrationsAreKept`, `TopicFilesFollow` and `CredentialsAreStable`.
`Apart` says that `Nil` is no request and `Torn` no file of records, the two
values TLC takes as model values. `RegistrationTypes` needs no such bound: for
any number of requests at once every stored record has the identity its access
mode and its broker allow. `TypesInv` ties what a request holds to the step it
is at: a table once it has loaded the file, the need of a password until it has
one, a record from then on.

**Desired state** (`DesiredProofs`), for any threads, requests, groups and
manifests. `DesiredInvariant` proves that a thread that writes holds the lock
(`WriterHolds`), that what it will write back is what the file says now
(`WriterIsCurrent`), that nobody makes the file whole while it is filled in place
(`FillingTorn`), and that the file is torn only where the rename is refused
(`TornInPlace`). Each needs the others: without `WriterHolds` a second writer
could make the first one's content old. Most steps are `Passive`: nobody comes to
write, and those who write stay. `DesiredRefinesRecord` then shows `DesiredIsAtomic`:
a commit sets one field, a cut in the middle of an in-place write loses a fragile
record, and every other step leaves the record alone. While the file is being
filled, the record is what the writer has read.
What lies beside the file, the assets of the groups and the URL in
`config.json`, is changed without the lock, before the file or after it.
`SideInv` follows the requests of either kind: two that are under way at once
have met, and know it (`Acquainted`); one that met no other has made what it is
about to write, as far as it has come (`LoneHasMade`); and unless a request of
the kind is changing things, they agree with the file, or a request was cut off,
refused or met another (`Settled`). `SideFollows` is the last of these between
requests. A commit is the step that matters: it sets the field of one kind, so
that the other kind's agreement stands (`WriterKeepsContent`, `CommitContent`).
What the groups come to rests on the resolution, `_resolve_requested_optional_groups` and
its recursive `visit`, which is a recursive function over the groups under way
and the list still to visit. `RecursionExists` shows that a function with such
equations exists: each call goes down in `IsDescent`, fewer groups left to enter
or a shorter list. `VisitIsRight` is by the least call, in that order, that
would return something else, so no induction over an operator is needed; it says that a
visit keeps what it had, adds supported groups with everything they need, each
once, and puts a group after what it needs unless the two need each other (the
code breaks cycles). `ResolveIsRight` follows for every manifest of finitely
many groups (`ManifestAssumption`; the manifest is a literal in the code) and
every list, with unknown groups and repetitions. `ChoiceInvariant` carries it
through the requests: every job is one that its kind can have at its step
(`RightJobs`), and a whole file names the same resolved groups under all three
keys (`Listed`). From it `DesiredTypes`, `SelectionsResolved`,
`SelectionsAreWritten` and `ApplyKeepsGroups`. The lists of `runtime.json` are
sets in the model: the status endpoint sorts them before it compares.

**MQTT client** (`ClientProofs`), for any number of reloads, lost connections,
kills and requests. `ClientInvariant` proves `ClientInv`: a reload stops and
joins the threads of the old client before it creates the next, so that only the
client in service can have a thread or a socket (`OthersStopped`,
`ServiceStands`). All clients share one health service, so that what the flag
says is only meaningful with this; then `FlagStands` fixes it for every step of
the network thread, `SocketStands` when that thread has a socket, and
`CountStands` the counter, which is behind by one between a loss and its count.
From them `ClientTypes`, `OneConnects`, `FlagIsTheClients` and
`ReconnectsAreCounted`.

**Setup** (`SetupProofs`), for any threads, endpoints, requests, failures,
crashes and lost files. All but the last result hold as long as one request is
under way at a time (`OneAtATime`, the bound of the run too; section 5 says what
two break).
`SetupInvariant` proves `SetupInv`. An apply that has not failed is in one of ten
phases, named after its next step; `Stands` says what it has left to do and what
it has made of the session, `config.json`, the desired group and the client. Every other
handler, and an apply that has failed, has at most two steps left, and these
are `Harmless`: they never set `ready`, set `configured` only to false, and record
no test that was not passed. So the gate, which is read from a file that every
handler writes back whole, opens at the end of an apply only (`GateStands`), and
`UpdateStands` carries this over the three steps of an update: what was read from
the file is still what it said when it was truncated. From it `SetupTypes`,
`GateBehindApply`, `ReadyClientFollows` and `AnsweredApplied`.
`AppliedWasTested` needs no such bound. Any number of requests may read, truncate
and fill the two files in any order, and what they leave may be stale or
garbled; but a session is always read and written whole, so that a test named in
the file, or in what a handler has read, was passed at some time (`Honest`,
`ViewHonest`), and no apply gets past its check without one (`TestedApply`).
`TestsInvariant` proves this.
`ValuesAssumption` (in `Setup`) says that `Torn`, `Missing` and `Nil` are none of the records
a file or a request can be, as the model values of the run are not.

**Model-checked only.** Liveness under fairness and everything that needs
ENABLED (`OnlyFlushBlocks`, `EventuallyFlushed`, `RevocationArrives`,
`RetainedHealthRecovers`, `DeathIsAnnounced`, `ReplacementEnds`,
`StatusSettles`). Every other property of a passing run is stated by a theorem.
No module declares a RECURSIVE operator.

## 5. What the code does that the models bring out

These are not checked as violations: no document promises otherwise.

* *Telemetry.* `stop()` waits two seconds, a post may take three: a second flush
  then pops an event the first has posted, or one nobody has. A queue that
  overflows while its head is being posted loses one more event than it must
  (the pop removes the new head). An old snapshot may overwrite a newer file.
* *Setup.* `error` is only stored with `configured` false, which the status
  endpoint turns into `unconfigured`. `degraded` is never stored. A torn
  `config.json` keeps the process from booting; a torn `install_state.json`
  fails every handler but the reset. A mode change that dies between its two
  writes leaves a ready setup with another mode. The reset keeps the mode in
  `config.json`. A lock timeout while the broker group is requested escapes the
  handler and leaves `configuring`. A reload stops the old client before it
  reads the configuration of the new one.
  Two requests at once lose updates of `install_state.json`: each reads it,
  changes it and writes it back whole (`config_store.py:184`), so that a mode
  change beside a finishing apply is undone. With two threads TLC also finds
  `ClientFollowsConfig` and `AnsweredOkMeansApplied` violated, since an apply may
  finish over another's configuration, and `GateOpensByApply`: a registration
  at Core reads a ready session, a mode change completes, and the registration
  writes the ready session back, over another mode. `SetupTypeOK` does not
  survive either, as an apply marks a session configured that another one has
  just set to `error`. `OnlyTestedApplied` does, for any number of requests
  (`AppliedWasTested`).
* *Policy.* A grant that Core clears stays in the cache until the process
  restarts: its empty payload is ignored (`policy_cache.py:99`).
* *Client.* After a reconnect, stale `degraded` messages follow the fresh
  `healthy` one and stand until the next heartbeat. A clean stop sends
  DISCONNECT, the will is dropped, and the retained message stays `healthy`. A
  late `on_connect` can undo `mark_offline` during a stop. A publish that fails
  records its error after the fact (`mqtt_client.py:113`); when `on_connect` has
  come in between, nothing clears it, and the status stays `degraded` until the
  next reconnect.
* *Registrations.* A `gateway_only` or external registration forgets the version
  of a password; the next direct one starts over at the first, also after a
  rotation. The ACL file of an embedded registration outlives an external one. A
  registration whose ACL write fails is stored and reported as HTTP 500. A torn
  file reads as no registrations and the next upsert writes that back.
* *Publish.* A message answered with HTTP 500 because there is no connection is
  in paho's queue and goes out later (at QoS 1); a retry sends it twice. Overlapping appends
  lose entries of the trace file, and with them metrics. A gateway request
  without a type (422) and every error that no handler catches leave no trace,
  while `docs/api.md:210` lists traces of denied attempts. A `unique_id` with a
  wildcard makes paho raise. `README.md:116` and `docs/api.md:196` speak of
  envelope validation in general; the Home Assistant endpoints do not make it.
  The lifecycle check refuses `x/announce` and lets `announce/x` pass
  (`docs/api.md:194`).
* *Desired state.* `docs/supervisor.md:22` promises an atomic replace; where a
  bind mount refuses it, the file is filled in place (`fs_utils.py:24`), and a
  crash loses it whole, the supervisor's fields included. An embedded apply
  reads the desired groups without the lock: it may undo a selection made
  meanwhile, or read a file that is being filled as empty. The assets of the
  groups that go are removed before `desired.json` is rewritten, also when that
  is then refused. `config.json` keeps a Core URL whose update of `desired.json`
  failed.

## 6. Plan

Done: telemetry, policy, setup, client, registrations, the publishing endpoints,
desired state and groups, tokens and topics, in the order of what a failure
costs: a blocked publish, a publish that must not pass, a gate that opens on a
half-applied setup, a wrong health report, a lost registration, lost settings.

Next, in this order:

1. `MqttClient`: two reloads at once (`main.py:52`); requests' QoS 1 messages in
   the queue.
2. `Setup`: the restart of the broker with its lock and its waits
   (`broker_admin.py:20`).

Not modelled: the HMAC of tokens (a flag of the token), compose files, passwords
and docker, the wire format of HTTP calls to Core and the supervisor, the fields
of Home Assistant's discovery payload, a `pending_reconcile` that `runtime.json`
brings itself, the rest of the status endpoints (projections of modelled state),
the operator interface, packaging and scripts. They hold no state, or only
formats and systems outside this repository.
