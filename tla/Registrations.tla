----------------------------- MODULE Registrations -----------------------------
(***************************************************************************)
(* POST /api/mqtt/registrations: the handler of                            *)
(* app/api/mqtt_registration.py over RegistrationStore.upsert and the      *)
(* files it keeps: mqtt_registrations.json, the seed that credentials are  *)
(* derived from, one ACL file or operator's note for each addon, and the   *)
(* publish trace that ends every request.                                  *)
(*                                                                         *)
(* No lock covers an upsert.  Every write_text is two steps, open (which   *)
(* truncates) and fill; between two steps another request may run, the     *)
(* write may fail and the process may die.  (An install_state.json that the *)
(* handler cannot read ends it before it has done anything; Setup has it.) *)
(***************************************************************************)
EXTENDS TraceStore, FiniteSets

CONSTANTS
  Addons,
  Threads,        \* threads that serve registration requests
  TopicRequests,  \* what an addon asks for: [publish, subscribe]
  MaxActive,      \* bound: requests under way at once
  MaxRequests,    \* bound: requests served
  MaxCuts,        \* bound: crashes and failed writes
  Nil             \* nothing: no record, no credentials, no file, no request

\* A topic by what topic_permissions.py asks of it: in the addon's own
\* namespace, with a lifecycle name nested in it, reserved, or neither.
TopicKinds == {"own", "nested", "reserved", "foreign"}

ASSUME TopicsAssumption ==
  TopicRequests \subseteq [publish : SUBSET TopicKinds, subscribe : SUBSET TopicKinds]
ASSUME BoundsAssumption ==
  {MaxActive, MaxRequests, MaxCuts} \subseteq Nat
ASSUME NilAssumption ==
  Nil # Torn /\ \A t \in Threads, n \in 0..MaxRequests : Nil # <<t, n>>

VARIABLES
  setup,          \* broker mode and external_direct_access_mode of the session
  store,          \* mqtt_registrations.json: a record or Nil for each addon, or Torn
  seed,           \* mqtt_credential_seed: who made it, and when; Torn is empty
  topicFiles,     \* for each addon its acl_generated and external_acl_notes files
  traces,         \* mqtt_publish_traces.json
  job,            \* the request each thread serves, or Nil
  served, cuts,   \* requests and interruptions so far
  \* history, read by the properties only
  saved,          \* the record last written for each addon by an upsert of that
                  \* addon; Nil once the file that held it was lost
  cutShort        \* addons whose last upsert ended between the record and its topics

files == <<store, seed, topicFiles, traces>>
history == <<saved, cutShort>>
vars == <<setup, files, job, served, cuts, history>>

\* manual: it names a broker user of its own.  A gateway_only request may carry
\* these flags too; nothing reads them there.
Requests ==
  {r \in [addon : Addons, direct : BOOLEAN, topics : TopicRequests,
          manual : BOOLEAN, reprovision : BOOLEAN] :
     r.manual \/ r.reprovision => r.direct}

\* The access mode counts only for an external broker.
SetupModes ==
  {[mode |-> "embedded", access |-> "gateway_only"]}
    \cup [mode : {"external"}, access : {"gateway_only", "manual_direct_access"}]

Profile(s) == IF s.mode = "embedded" THEN "embedded-generated" ELSE "external-manual"
Profiles == {"embedded-generated", "external-manual"}

-----------------------------------------------------------------------------
(* What an upsert computes.                                                *)

\* The handler's own check, before it calls the store.
Refused(r, s) == r.direct /\ s.mode = "external" /\ s.access = "gateway_only"

\* realize_topic_permissions: otherwise it raises.
Realizable(topics) ==
  /\ topics.publish \subseteq {"own"}
  /\ topics.subscribe \subseteq {"own", "reserved"}

\* Mutant: an external broker's addons get credentials of ours too.
CredentialsAnywhere(r, s) == r.direct
NeedsCredentials(r, s) == r.direct /\ s.mode = "embedded"
Unmapped(r, s) == r.direct /\ s.mode = "external" /\ ~r.manual

NoRecords == [a \in Addons |-> Nil]

\* _load_all: a missing file holds no record, and neither does one that does
\* not parse.
LoadAll == IF store = Torn THEN NoRecords ELSE store

NextVersion(r, old) == IF r.reprovision THEN old + 1 ELSE old

\* _issue_direct_credentials: the password is a digest of the seed, the addon
\* and the version, so those say which password it is.  credential_meta keeps
\* the version; a record without credentials has no credential_meta.
Issue(r, existing, key) ==
  LET old == IF existing # Nil /\ existing.credentials # Nil
             THEN existing.credentials.version ELSE 1
  IN [seed |-> key, version |-> NextVersion(r, old)]

Record(r, s, credentials) ==
  [topics |-> r.topics, direct |-> r.direct, credentials |-> credentials,
   manual |-> r.direct /\ s.mode = "external", profile |-> Profile(s)]

\* Mutant: the upsert saves its own record only.
OnlyOwn(j) == [NoRecords EXCEPT ![j.req.addon] = j.record]
WithRecord(j) == [j.data EXCEPT ![j.req.addon] = j.record]

-----------------------------------------------------------------------------

Init ==
  /\ setup \in SetupModes
  /\ store = NoRecords /\ seed = Nil /\ traces = <<>>
  /\ topicFiles = [a \in Addons |-> [p \in Profiles |-> Nil]]
  /\ job = [t \in Threads |-> Nil]
  /\ served = 0 /\ cuts = 0
  /\ saved = NoRecords /\ cutShort = {}

Busy == {t \in Threads : job[t] # Nil}
At(t, step) == job[t] # Nil /\ job[t].at = step
Move(t, step) == job' = [job EXCEPT ![t].at = step]

\* A ValueError or a TopicPermissionError: a trace, then HTTP 400.
Deny(t, j) == job' = [job EXCEPT ![t] = [j EXCEPT !.at = "trace", !.outcome = "denied"]]

\* The handler reads the session once, at its start.
Receive(t, r) ==
  LET j == [at |-> "load", req |-> r, setup |-> setup, data |-> Nil, record |-> Nil,
            log |-> Nil, outcome |-> "success"]
  IN
  /\ job[t] = Nil /\ Cardinality(Busy) < MaxActive /\ served < MaxRequests
  /\ served' = served + 1
  /\ IF Refused(r, setup) THEN Deny(t, j) ELSE job' = [job EXCEPT ![t] = j]
  /\ UNCHANGED <<setup, files, cuts, history>>

Load(t) ==
  LET r == job[t].req
      s == job[t].setup
      j == [job[t] EXCEPT !.data = LoadAll]
  IN
  /\ At(t, "load")
  /\ \/ /\ ~Realizable(r.topics) \/ Unmapped(r, s)
        /\ Deny(t, j)
     \/ /\ Realizable(r.topics) /\ NeedsCredentials(r, s)
        /\ job' = [job EXCEPT ![t] = [j EXCEPT !.at = "seed"]]
     \/ /\ Realizable(r.topics) /\ ~NeedsCredentials(r, s) /\ ~Unmapped(r, s)
        /\ job' = [job EXCEPT ![t] = [j EXCEPT !.at = "save", !.record = Record(r, s, Nil)]]
  /\ UNCHANGED <<setup, files, served, cuts, history>>

\* The record is complete once the key is known.
WithKey(t, key) ==
  LET j == job[t]
      credentials == Issue(j.req, j.data[j.req.addon], key)
  IN job' = [job EXCEPT ![t] = [j EXCEPT !.at = "save",
                                  !.record = Record(j.req, j.setup, credentials)]]

\* Mutant: the seed is made anew each time.
NeverKept == FALSE
SeedExists == seed # Nil

\* _load_or_create_seed.
LookForSeed(t) ==
  /\ At(t, "seed")
  /\ IF SeedExists THEN WithKey(t, seed) ELSE Move(t, "make seed")
  /\ UNCHANGED <<setup, files, served, cuts, history>>

OpenSeed(t) ==
  /\ At(t, "make seed") /\ Move(t, "fill seed")
  /\ seed' = Torn
  /\ UNCHANGED <<setup, store, topicFiles, traces, served, cuts, history>>

\* secrets.token_bytes: never the same twice.
FreshKey(t) == <<t, served>>

FillSeed(t) ==
  /\ At(t, "fill seed") /\ WithKey(t, FreshKey(t))
  /\ seed' = FreshKey(t)
  /\ UNCHANGED <<setup, store, topicFiles, traces, served, cuts, history>>

\* _save_all
OpenStore(t) ==
  /\ At(t, "save") /\ Move(t, "fill store")
  /\ store' = Torn
  /\ UNCHANGED <<setup, seed, topicFiles, traces, served, cuts, history>>

FillStore(t) ==
  LET j == job[t] IN
  /\ At(t, "fill store") /\ Move(t, "topics")
  /\ store' = WithRecord(j)
  /\ saved' = [saved EXCEPT ![j.req.addon] = j.record]
  /\ UNCHANGED <<setup, seed, topicFiles, traces, served, cuts, cutShort>>

\* _write_embedded_acl, or _write_external_acl_note: the file of the other mode
\* stays as it is.
SetTopicFile(j, content) ==
  topicFiles' = [topicFiles EXCEPT ![j.req.addon][Profile(j.setup)] = content]

OpenTopicFile(t) ==
  /\ At(t, "topics") /\ Move(t, "fill topics")
  /\ SetTopicFile(job[t], Torn)
  /\ UNCHANGED <<setup, store, seed, traces, served, cuts, history>>

\* Mutant: the file keeps what the addon was granted before.
OldTopics(j) == IF j.data[j.req.addon] = Nil THEN Nil ELSE j.data[j.req.addon].topics
NewTopics(j) == j.record.topics

FillTopicFile(t) ==
  /\ At(t, "fill topics") /\ Move(t, "trace")
  /\ SetTopicFile(job[t], NewTopics(job[t]))
  /\ cutShort' = cutShort \ {job[t].req.addon}
  /\ UNCHANGED <<setup, store, seed, traces, served, cuts, saved>>

\* Its record is saved and its topic file is not.
TopicsDue(t) == At(t, "topics") \/ At(t, "fill topics")

Entry(j) == [addon |-> j.req.addon, outcome |-> j.outcome]

\* PublishTraceStore.append
ReadTraces(t) ==
  /\ At(t, "trace")
  /\ job' = [job EXCEPT ![t].at = "save trace",
                        ![t].log = Loaded(traces)]
  /\ UNCHANGED <<setup, files, served, cuts, history>>

OpenTraces(t) ==
  /\ At(t, "save trace") /\ Move(t, "fill trace")
  /\ traces' = Torn
  /\ UNCHANGED <<setup, store, seed, topicFiles, served, cuts, history>>

FillTraces(t) ==
  /\ At(t, "fill trace") /\ Move(t, "answer")
  /\ traces' = WithEntry(job[t].log, Entry(job[t]))
  /\ UNCHANGED <<setup, store, seed, topicFiles, served, cuts, history>>

\* HTTP 200 with the record, or 400.
Answer(t) ==
  /\ At(t, "answer")
  /\ job' = [job EXCEPT ![t] = Nil]
  /\ UNCHANGED <<setup, files, served, cuts, history>>

\* The requests of these threads end where they are.  A file left torn is lost,
\* with all it held.
CutOff(T, storeLost) ==
  /\ cuts < MaxCuts /\ cuts' = cuts + 1
  /\ job' = [t \in Threads |-> IF t \in T THEN Nil ELSE job[t]]
  /\ saved' = IF storeLost THEN NoRecords ELSE saved
  /\ cutShort' = cutShort \cup {job[t].req.addon : t \in {u \in T : TopicsDue(u)}}
  /\ UNCHANGED <<setup, files, served>>

\* An OSError of a write (a full disk): HTTP 500 from wherever the handler is.
Fail(t) ==
  /\ \E step \in {"make seed", "fill seed", "save", "fill store", "topics",
                  "fill topics", "save trace", "fill trace"} : At(t, step)
  /\ CutOff({t}, At(t, "fill store"))

\* The process dies and is started again.
Crash == CutOff(Busy, store = Torn)

\* The operator changes the broker mode, or what external brokers allow.
ChangeSetup ==
  /\ setup' \in SetupModes \ {setup}
  /\ UNCHANGED <<files, job, served, cuts, history>>

Upsert(t) ==
  \/ Load(t) \/ LookForSeed(t) \/ OpenSeed(t) \/ FillSeed(t)
  \/ OpenStore(t) \/ FillStore(t) \/ OpenTopicFile(t) \/ FillTopicFile(t)
  \/ ReadTraces(t) \/ OpenTraces(t) \/ FillTraces(t) \/ Answer(t) \/ Fail(t)

Next ==
  \/ \E t \in Threads, r \in Requests : Receive(t, r)
  \/ \E t \in Threads : Upsert(t)
  \/ Crash \/ ChangeSetup

Spec == Init /\ [][Next]_vars

-----------------------------------------------------------------------------
(* Properties.                                                             *)

Keys == (Threads \X (1..MaxRequests)) \cup {Torn}
Credentials == [seed : Keys, version : Nat \ {0}]
Records ==
  [topics : TopicRequests, direct : BOOLEAN, credentials : Credentials \cup {Nil},
   manual : BOOLEAN, profile : Profiles]
Tables == [Addons -> Records \cup {Nil}]
Outcomes == {"success", "denied"}
Entries == [addon : Addons, outcome : Outcomes]
Steps ==
  {"load", "seed", "make seed", "fill seed", "save", "fill store", "topics",
   "fill topics", "trace", "save trace", "fill trace", "answer"}
Jobs ==
  [at : Steps, req : Requests, setup : SetupModes, data : Tables \cup {Nil},
   record : Records \cup {Nil}, log : Seq(Entries) \cup {Nil}, outcome : Outcomes]

\* Nothing is no request and no password, and a torn file holds no records and no list.
ASSUME ValuesAssumption ==
  Nil \notin Jobs /\ Nil \notin Credentials /\ Torn \notin Tables /\ Torn \notin Seq(Entries)

\* Every variable has its type, and a stored record has the identity its access
\* mode and its broker allow: credentials of ours on the embedded broker, a
\* mapped user on an external one, none for gateway_only.
RegistrationTypeOK ==
  /\ setup \in SetupModes
  /\ store = Torn \/ store \in Tables
  /\ seed \in Keys \cup {Nil}
  /\ topicFiles \in [Addons -> [Profiles -> TopicRequests \cup {Nil, Torn}]]
  /\ traces = Torn \/ traces \in Seq(Entries)
  /\ job \in [Threads -> Jobs \cup {Nil}]
  /\ served \in 0..MaxRequests /\ cuts \in 0..MaxCuts
  /\ saved \in Tables /\ cutShort \subseteq Addons
  /\ store # Torn => \A a \in Addons : store[a] # Nil =>
       LET r == store[a] IN
       /\ (r.credentials # Nil) <=> (r.direct /\ r.profile = "embedded-generated")
       /\ r.manual <=> (r.direct /\ r.profile = "external-manual")

\* docs/api.md: the endpoint "stores or updates approved addon registration".
\* The file holds for each addon the record its own last upsert wrote: no other
\* addon's upsert, denied request, failed write or restart takes it away, short
\* of one that tears the file itself.
RegistrationsKept == store # Torn => store = saved

\* Beside each record lies the ACL file, or the note, of exactly its topics, for
\* the broker it was registered at, unless the upsert that saved it ended
\* before it wrote that file and none of the addon has come through since.
TopicFileFollowsRecord ==
  \A a \in Addons :
    (saved[a] # Nil /\ a \notin cutShort
       /\ \A t \in Busy : job[t].req.addon = a => ~TopicsDue(t))
    => topicFiles[a][saved[a].profile] = saved[a].topics

\* docs/api.md: "direct modes return stable broker credentials derived from
\* persisted local credential metadata", and reprovision rotates the version.
\* From one stored registration of an addon to the next, the password changes
\* only when the request says so, and then to the next version of the same seed;
\* crashes, failed writes and other addons' requests in between change nothing.
CredentialsOf(r) == IF r = Nil THEN Nil ELSE r.credentials
CredentialsChangeOnRequest ==
  [][\A a \in Addons :
       LET old == CredentialsOf(saved[a])
           new == CredentialsOf(saved'[a])
       IN old # Nil /\ new # Nil /\ new # old =>
            /\ new = [old EXCEPT !.version = @ + 1]
            /\ \E t \in Busy : /\ job[t].at = "fill store" /\ job[t].req.addon = a
                              /\ job[t].req.reprovision]_vars
=============================================================================
