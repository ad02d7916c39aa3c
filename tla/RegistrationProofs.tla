--------------------------- MODULE RegistrationProofs ---------------------------
(***************************************************************************)
(* What registrations keep when they come one at a time, for any addons,   *)
(* requests, failed writes and crashes.  With two at once they do not: the *)
(* code has no lock, and the run registrations_race shows the loss.        *)
(***************************************************************************)
EXTENDS Registrations, FiniteSetTheorems, TLAPS

OneAtATime == MaxActive = 1 /\ IsFiniteSet(Threads)

IsJob(j) ==
  j = [at |-> j.at, req |-> j.req, setup |-> j.setup, data |-> j.data,
       record |-> j.record, log |-> j.log, outcome |-> j.outcome]

\* No request is Nil, and no file of records is Torn: both are values of their own.
Apart == ~IsJob(Nil) /\ Torn # [a \in Addons |-> Torn[a]]

-----------------------------------------------------------------------------
(* The inductive invariant.                                                *)

Alone == \A t, u \in Threads : job[t] # Nil /\ job[u] # Nil => t = u

Shapes ==
  /\ job = [t \in Threads |-> job[t]]
  /\ saved = [a \in Addons |-> saved[a]]
  /\ topicFiles = [a \in Addons |-> topicFiles[a]]
  /\ \A a \in Addons : topicFiles[a] = [p \in Profiles |-> topicFiles[a][p]]
  /\ served \in 0..MaxRequests

\* A torn file of records is being filled, or lost with all it held.
TornIsEmpty == store = Torn => saved = NoRecords \/ \E t \in Threads : At(t, "fill store")

\* All passwords are of the seed there is.
OneSeed ==
  \A a \in Addons : CredentialsOf(saved[a]) # Nil =>
    /\ seed # Nil
    /\ CredentialsOf(saved[a]) = [seed |-> seed, version |-> CredentialsOf(saved[a]).version]

\* The record of an upsert is computed from the request and from what was saved
\* last, with the seed there is.
Computed(j) ==
  \E c : /\ j.record = Record(j.req, j.setup, c)
         /\ c = Nil \/ (seed # Nil /\ c = Issue(j.req, j.data[j.req.addon], seed))

GoodJob(j) ==
  /\ IsJob(j) /\ j.req \in Requests /\ j.setup \in SetupModes
  /\ j.at \in {"seed", "make seed", "fill seed", "save", "fill store"} => j.data = saved
  /\ j.at \in {"make seed", "fill seed"} => \A a \in Addons : CredentialsOf(saved[a]) = Nil
  /\ j.at \in {"save", "fill store"} => Computed(j)
  /\ j.at = "fill store" => store = Torn
  /\ j.at \in {"topics", "fill topics"} =>
       /\ j.record = saved[j.req.addon]
       /\ j.record.profile = Profile(j.setup)

JobsGood == \A t \in Threads : job[t] # Nil => GoodJob(job[t])

RegistrationInv ==
  /\ Alone /\ Shapes
  /\ RegistrationsKept /\ TornIsEmpty
  /\ OneSeed
  /\ TopicFileFollowsRecord
  /\ JobsGood

-----------------------------------------------------------------------------
(* The request that is under way.                                          *)

Put(t, j) == job' = [job EXCEPT ![t] = j]

\* With no other request under way, the one that is put is the only one.
LEMMA JobPut ==
  ASSUME RegistrationInv, NEW t \in Threads, NEW j, Put(t, j),
         \A u \in Threads : u # t => job[u] = Nil
  PROVE  /\ job' = [u \in Threads |-> job'[u]]
         /\ job'[t] = j
         /\ \A u \in Threads : u # t => job'[u] = Nil
         /\ Alone'
BY DEF RegistrationInv, Shapes, Put, Alone

\* A request under way is the only one.
LEMMA OthersIdle ==
  ASSUME RegistrationInv, NEW t \in Threads, job[t] # Nil
  PROVE  \A u \in Threads : u # t => job[u] = Nil
BY DEF RegistrationInv, Alone

\* What the invariant says of the request that takes a step.
LEMMA BusyIsGood ==
  ASSUME RegistrationInv, NEW t \in Threads, NEW step, At(t, step)
  PROVE  /\ GoodJob(job[t])
         /\ job[t] = [at |-> step, req |-> job[t].req, setup |-> job[t].setup,
                      data |-> job[t].data, record |-> job[t].record,
                      log |-> job[t].log, outcome |-> job[t].outcome]
         /\ job[t].req.addon \in Addons
         /\ \A u \in Threads : u # t => job[u] = Nil
<1>1. GoodJob(job[t])
  BY DEF RegistrationInv, JobsGood, At
<1>2. \A u \in Threads : u # t => job[u] = Nil
  BY OthersIdle DEF At
<1> QED
  BY <1>1, <1>2 DEF At, GoodJob, IsJob, Requests

\* The files, and what was saved, are functions as Shapes has them.
FileShapes ==
  /\ saved = [a \in Addons |-> saved[a]]
  /\ topicFiles = [a \in Addons |-> topicFiles[a]]
  /\ \A a \in Addons : topicFiles[a] = [p \in Profiles |-> topicFiles[a][p]]
  /\ served \in 0..MaxRequests

\* What a step of the only request must leave behind.
LEMMA StepKeepsInv ==
  ASSUME RegistrationInv, NEW t \in Threads, NEW j, Put(t, j),
         \A u \in Threads : u # t => job[u] = Nil,
         j # Nil => GoodJob(j)',
         FileShapes', RegistrationsKept', TornIsEmpty', OneSeed',
         TopicFileFollowsRecord'
  PROVE  RegistrationInv'
<1>1. /\ job' = [u \in Threads |-> job'[u]]
      /\ job'[t] = j
      /\ \A u \in Threads : u # t => job'[u] = Nil
      /\ Alone'
  BY JobPut
<1>2. Shapes'
  BY <1>1 DEF Shapes, FileShapes
<1>3. JobsGood'
  <2>1. ASSUME NEW u \in Threads, job'[u] # Nil
        PROVE  GoodJob(job[u])'
    <3>1. job'[u] = j /\ j # Nil
      BY <1>1, <2>1
    <3>2. GoodJob(j)'
      BY <3>1
    <3> QED
      BY <3>1, <3>2 DEF GoodJob, IsJob, Computed
  <2> QED
    BY <2>1 DEF JobsGood
<1> QED
  BY <1>1, <1>2, <1>3 DEF RegistrationInv

\* Steps that touch neither records nor topic files.
LEMMA AsideKeepsInv ==
  ASSUME RegistrationInv, NEW t \in Threads, NEW j, Put(t, j),
         \A u \in Threads : u # t => job[u] = Nil,
         UNCHANGED <<store, topicFiles, saved, cutShort>>,
         served' \in 0..MaxRequests,
         ~At(t, "fill store"), ~TopicsDue(t),
         OneSeed', j # Nil => GoodJob(j)'
  PROVE  RegistrationInv'
<1>1. FileShapes'
  BY DEF RegistrationInv, Shapes, FileShapes
<1>2. RegistrationsKept'
  BY DEF RegistrationInv, RegistrationsKept
<1>3. TornIsEmpty'
  BY DEF RegistrationInv, TornIsEmpty, At
<1>4. TopicFileFollowsRecord'
  <2>1. \A u \in Busy : ~TopicsDue(u)
    BY DEF Busy, TopicsDue, At
  <2> QED
    BY <2>1 DEF RegistrationInv, TopicFileFollowsRecord
<1> QED
  BY <1>1, <1>2, <1>3, <1>4, StepKeepsInv

\* Steps that leave the seed alone too.
LEMMA QuietKeepsInv ==
  ASSUME RegistrationInv, NEW t \in Threads, NEW j, Put(t, j),
         \A u \in Threads : u # t => job[u] = Nil,
         UNCHANGED <<store, seed, topicFiles, saved, cutShort>>,
         served' \in 0..MaxRequests,
         ~At(t, "fill store"), ~TopicsDue(t),
         j # Nil => GoodJob(j)
  PROVE  RegistrationInv'
<1>1. OneSeed'
  BY DEF RegistrationInv, OneSeed
<1>2. j # Nil => GoodJob(j)'
  BY DEF GoodJob, IsJob, Computed
<1> QED
  BY <1>1, <1>2, AsideKeepsInv

\* The request as it is, further on.
Later(t, step) ==
  [at |-> step, req |-> job[t].req, setup |-> job[t].setup, data |-> job[t].data,
   record |-> job[t].record, log |-> job[t].log, outcome |-> job[t].outcome]

\* Move changes where the request is, and nothing else of it.
LEMMA MovePut ==
  ASSUME RegistrationInv, NEW t \in Threads, NEW step, At(t, step),
         NEW next, Move(t, next)
  PROVE  Put(t, Later(t, next))
<1>1. job[t] = [at |-> step, req |-> job[t].req, setup |-> job[t].setup,
                data |-> job[t].data, record |-> job[t].record,
                log |-> job[t].log, outcome |-> job[t].outcome]
  BY BusyIsGood
<1>2. [job[t] EXCEPT !.at = next] = Later(t, next)
  BY <1>1 DEF Later
<1> QED
  BY <1>2 DEF Move, Put

\* Before the load and after the files, the invariant asks nothing of a request
\* but its shape.
Plain == {"load", "trace", "save trace", "fill trace", "answer"}
LEMMA PlainIsGood ==
  ASSUME NEW j, IsJob(j), j.req \in Requests, j.setup \in SetupModes, j.at \in Plain
  PROVE  GoodJob(j)
BY DEF GoodJob, Plain

\* A denied request has the shape of one.
LEMMA DenyPut ==
  ASSUME NEW t, NEW at, NEW req \in Requests, NEW mode \in SetupModes, NEW data,
         NEW record, NEW log, NEW outcome, NEW j,
         j = [at |-> at, req |-> req, setup |-> mode, data |-> data,
              record |-> record, log |-> log, outcome |-> outcome],
         Deny(t, j)
  PROVE  \E d : Put(t, d) /\ GoodJob(d) /\ d.at = "trace"
<1>1. PICK d : d = [at |-> "trace", req |-> req, setup |-> mode, data |-> data,
                    record |-> record, log |-> log, outcome |-> "denied"]
  OBVIOUS
<1>2. [j EXCEPT !.at = "trace", !.outcome = "denied"] = d
  <2>1. PICK e : e = [j EXCEPT !.at = "trace"]
    OBVIOUS
  <2>2. e = [at |-> "trace", req |-> req, setup |-> mode, data |-> data,
             record |-> record, log |-> log, outcome |-> outcome]
    BY <2>1
  <2>3. [e EXCEPT !.outcome = "denied"] = d
    BY ONLY <1>1, <2>2
  <2> QED
    BY ONLY <2>1, <2>3
<1>3. Put(t, d)
  BY <1>2 DEF Deny, Put
<1>4. IsJob(d) /\ d.req \in Requests /\ d.setup \in SetupModes /\ d.at = "trace"
  BY <1>1 DEF IsJob
<1>5. GoodJob(d)
  BY <1>4, PlainIsGood DEF Plain
<1> QED
  BY <1>3, <1>4, <1>5

-----------------------------------------------------------------------------
(* One lemma for each step.                                                *)

\* With room for one request, none is under way when the next is received.
LEMMA ReceiveKeepsInv ==
  ASSUME OneAtATime, RegistrationInv, NEW t \in Threads, NEW r \in Requests,
         setup \in SetupModes, Receive(t, r)
  PROVE  RegistrationInv'
<1> DEFINE j == [at |-> "load", req |-> r, setup |-> setup, data |-> Nil,
                 record |-> Nil, log |-> Nil, outcome |-> "success"]
<1>1. \A u \in Threads : job[u] = Nil
  <2>1. IsFiniteSet(Busy)
    <3>1. Busy \subseteq Threads
      BY DEF Busy
    <3> QED
      BY <3>1, FS_Subset DEF OneAtATime
  <2>2. Cardinality(Busy) \in Nat /\ Cardinality(Busy) < 1
    BY <2>1, FS_CardinalityType DEF Receive, OneAtATime
  <2>3. Busy = {}
    BY <2>1, <2>2, FS_EmptySet
  <2> QED
    BY <2>3 DEF Busy
<1>2. IsJob(j) /\ j.req \in Requests /\ j.setup \in SetupModes
  BY DEF IsJob
<1>3. PICK k : Put(t, k) /\ GoodJob(k)
  <2>1. CASE Refused(r, setup)
    <3>1. Deny(t, j)
      BY <2>1 DEF Receive
    <3> QED
      BY <3>1, <1>2, DenyPut
  <2>2. CASE ~Refused(r, setup)
    <3>1. Put(t, j)
      BY <2>2 DEF Receive, Put
    <3>2. GoodJob(j) /\ j.at = "load"
      BY <1>2, PlainIsGood DEF Plain
    <3> QED
      BY <3>1, <3>2
  <2> QED
    BY <2>1, <2>2
<1>4. served' \in 0..MaxRequests
  BY BoundsAssumption DEF RegistrationInv, Shapes, Receive
<1>5. UNCHANGED <<store, seed, topicFiles, saved, cutShort>>
  BY DEF Receive, files, history
<1>6. ~At(t, "fill store") /\ ~TopicsDue(t)
  BY <1>1 DEF At, TopicsDue
<1> QED
  BY <1>1, <1>3, <1>4, <1>5, <1>6, QuietKeepsInv

\* What is loaded is what was saved last, also when the file is torn.
LEMMA LoadKeepsInv ==
  ASSUME RegistrationInv, NEW t \in Threads, Load(t)
  PROVE  RegistrationInv'
<1> DEFINE r == job[t].req
           s == job[t].setup
           j == [job[t] EXCEPT !.data = LoadAll]
<1>1. At(t, "load")
  BY DEF Load
<1>2. /\ GoodJob(job[t])
      /\ job[t] = Later(t, "load")
      /\ \A u \in Threads : u # t => job[u] = Nil
  BY <1>1, BusyIsGood DEF Later
<1>3. LoadAll = saved
  <2>1. ~\E u \in Threads : At(u, "fill store")
    BY <1>1, <1>2 DEF At
  <2> QED
    BY <2>1 DEF RegistrationInv, TornIsEmpty, RegistrationsKept, LoadAll
<1>4. job[t].req \in Requests /\ job[t].setup \in SetupModes
  BY <1>2 DEF GoodJob
<1>5. j = [at |-> "load", req |-> r, setup |-> s, data |-> saved,
           record |-> job[t].record, log |-> job[t].log, outcome |-> job[t].outcome]
  BY <1>2, <1>3 DEF Later
<1> HIDE DEF j
<1>6. PICK k : Put(t, k) /\ GoodJob(k)
  <2>1. CASE Deny(t, j)
    <3>1. \E d : Put(t, d) /\ GoodJob(d) /\ d.at = "trace"
      BY <2>1, <1>4, <1>5, DenyPut
    <3> QED
      BY <3>1
  <2>2. CASE job' = [job EXCEPT ![t] = [j EXCEPT !.at = "seed"]]
    <3>1. PICK k : k = [at |-> "seed", req |-> r, setup |-> s, data |-> saved,
                        record |-> job[t].record, log |-> job[t].log,
                        outcome |-> job[t].outcome]
      OBVIOUS
    <3>2. [j EXCEPT !.at = "seed"] = k
      BY <3>1, <1>5
    <3>3. Put(t, k)
      BY <2>2, <3>2 DEF Put
    <3>4. GoodJob(k) /\ k.at = "seed"
      BY <3>1, <1>4 DEF GoodJob, IsJob
    <3> QED
      BY <3>3, <3>4
  <2>3. CASE job' = [job EXCEPT ![t] = [j EXCEPT !.at = "save", !.record = Record(r, s, Nil)]]
    <3>1. PICK k : k = [at |-> "save", req |-> r, setup |-> s, data |-> saved,
                        record |-> Record(r, s, Nil), log |-> job[t].log,
                        outcome |-> job[t].outcome]
      OBVIOUS
    <3>2. [j EXCEPT !.at = "save", !.record = Record(r, s, Nil)] = k
      <4>1. PICK e : e = [j EXCEPT !.at = "save"]
        OBVIOUS
      <4>2. e = [at |-> "save", req |-> r, setup |-> s, data |-> saved,
                 record |-> job[t].record, log |-> job[t].log,
                 outcome |-> job[t].outcome]
        BY <4>1, <1>5
      <4>3. [e EXCEPT !.record = Record(r, s, Nil)] = k
        BY ONLY <3>1, <4>2
      <4> QED
        BY ONLY <4>1, <4>3
    <3>3. Put(t, k)
      BY <2>3, <3>2 DEF Put
    <3>4. Computed(k)
      BY <3>1 DEF Computed
    <3>5. GoodJob(k) /\ k.at = "save"
      BY <3>1, <3>4, <1>4 DEF GoodJob, IsJob
    <3> QED
      BY <3>3, <3>5
  <2> QED
    BY <2>1, <2>2, <2>3 DEF Load, j
<1>7. UNCHANGED <<store, seed, topicFiles, saved, cutShort>> /\ served' \in 0..MaxRequests
  BY DEF Load, files, history, RegistrationInv, Shapes
<1>8. ~At(t, "fill store") /\ ~TopicsDue(t)
  BY <1>1 DEF At, TopicsDue
<1> QED
  BY <1>2, <1>6, <1>7, <1>8, QuietKeepsInv

\* The request whose record is computed, with this key.
LEMMA WithKeyPut ==
  ASSUME RegistrationInv, NEW t \in Threads, NEW step, step = "seed" \/ step = "fill seed",
         At(t, step), NEW key, WithKey(t, key)
  PROVE  \E k : /\ Put(t, k)
                /\ IsJob(k) /\ k.req \in Requests /\ k.setup \in SetupModes
                /\ k.at = "save" /\ k.data = saved
                /\ k.record = Record(k.req, k.setup, Issue(k.req, k.data[k.req.addon], key))
<1> DEFINE q == job[t].req
           s == job[t].setup
           made == Record(q, s, Issue(q, job[t].data[q.addon], key))
<1>1. GoodJob(job[t]) /\ job[t].data = saved
  BY BusyIsGood DEF GoodJob, At
<1>2. q \in Requests /\ s \in SetupModes
  BY <1>1 DEF GoodJob
<1>3. PICK j, req, mode, data, old, log, outcome :
        /\ j = job[t] /\ req = q /\ mode = s /\ data = saved
        /\ j = [at |-> step, req |-> req, setup |-> mode, data |-> data,
                record |-> old, log |-> log, outcome |-> outcome]
  <2>1. job[t] = [at |-> step, req |-> q, setup |-> s, data |-> saved,
                  record |-> job[t].record, log |-> job[t].log,
                  outcome |-> job[t].outcome]
    BY <1>1, BusyIsGood
  <2> QED
    BY <2>1
<1>5. PICK r : r = made
  OBVIOUS
<1>6. PICK k : k = [at |-> "save", req |-> req, setup |-> mode, data |-> data,
                    record |-> r, log |-> log, outcome |-> outcome]
  OBVIOUS
<1>7. [j EXCEPT !.at = "save", !.record = r] = k
  <2>1. PICK e : e = [j EXCEPT !.at = "save"]
    OBVIOUS
  <2>2. e = [at |-> "save", req |-> req, setup |-> mode, data |-> data,
             record |-> old, log |-> log, outcome |-> outcome]
    BY ONLY <1>3, <2>1
  <2>3. [e EXCEPT !.record = r] = k
    BY ONLY <1>6, <2>2
  <2> QED
    BY ONLY <2>1, <2>3
<1>8. job' = [job EXCEPT ![t] = [j EXCEPT !.at = "save", !.record = r]]
  BY <1>3, <1>5 DEF WithKey
<1>9. Put(t, k)
  BY <1>7, <1>8 DEF Put
<1>10. /\ IsJob(k) /\ k.req = q /\ k.setup = s
       /\ k.at = "save" /\ k.data = saved /\ k.record = r
  BY <1>3, <1>6 DEF IsJob
<1>11. r = Record(q, s, Issue(q, saved[q.addon], key))
  BY <1>1, <1>5
<1> HIDE DEF q, s
<1>12. k.record = Record(k.req, k.setup, Issue(k.req, k.data[k.req.addon], key))
  BY <1>10, <1>11
<1> QED
  BY <1>2, <1>9, <1>10, <1>12

\* A seed that is there is used; without one no password has been issued.
LEMMA LookForSeedKeepsInv ==
  ASSUME RegistrationInv, NEW t \in Threads, LookForSeed(t)
  PROVE  RegistrationInv'
<1>1. At(t, "seed")
  BY DEF LookForSeed
<1>2. /\ GoodJob(job[t])
      /\ job[t].data = saved
      /\ \A u \in Threads : u # t => job[u] = Nil
  BY <1>1, BusyIsGood DEF GoodJob, At
<1>3. PICK k : Put(t, k) /\ GoodJob(k)
  <2>1. CASE SeedExists
    <3>1. PICK k : /\ Put(t, k)
                   /\ IsJob(k) /\ k.req \in Requests /\ k.setup \in SetupModes
                   /\ k.at = "save" /\ k.data = saved
                   /\ k.record = Record(k.req, k.setup,
                                        Issue(k.req, k.data[k.req.addon], seed))
      BY <2>1, <1>1, WithKeyPut DEF LookForSeed
    <3>2. Computed(k)
      BY <2>1, <3>1 DEF Computed, SeedExists
    <3> QED
      BY <3>1, <3>2 DEF GoodJob
  <2>2. CASE ~SeedExists
    <3>1. PICK k : k = Later(t, "make seed")
      OBVIOUS
    <3>2. Put(t, k)
      BY <2>2, <3>1, <1>1, MovePut DEF LookForSeed
    <3>3. \A a \in Addons : CredentialsOf(saved[a]) = Nil
      BY <2>2 DEF SeedExists, RegistrationInv, OneSeed
    <3>4. GoodJob(k)
      BY <3>1, <3>3, <1>2 DEF GoodJob, IsJob, Later
    <3> QED
      BY <3>2, <3>4
  <2> QED
    BY <2>1, <2>2
<1>4. UNCHANGED <<store, seed, topicFiles, saved, cutShort>> /\ served' \in 0..MaxRequests
  BY DEF LookForSeed, files, history, RegistrationInv, Shapes
<1>5. ~At(t, "fill store") /\ ~TopicsDue(t)
  BY <1>1 DEF At, TopicsDue
<1> QED
  BY <1>2, <1>3, <1>4, <1>5, QuietKeepsInv

\* The seed may change only while no password has been issued.
LEMMA OpenSeedKeepsInv ==
  ASSUME RegistrationInv, NEW t \in Threads, OpenSeed(t)
  PROVE  RegistrationInv'
<1>1. At(t, "make seed")
  BY DEF OpenSeed
<1>2. /\ GoodJob(job[t])
      /\ job[t].data = saved
      /\ \A a \in Addons : CredentialsOf(saved[a]) = Nil
      /\ \A u \in Threads : u # t => job[u] = Nil
  BY <1>1, BusyIsGood DEF GoodJob, At
<1>3. PICK k : k = Later(t, "fill seed")
  OBVIOUS
<1>4. Put(t, k)
  BY <1>1, <1>3, MovePut DEF OpenSeed
<1>5. UNCHANGED <<store, topicFiles, saved, cutShort>> /\ served' \in 0..MaxRequests
  BY DEF OpenSeed, history, RegistrationInv, Shapes
<1>6. GoodJob(k)'
  BY <1>2, <1>3, <1>5 DEF GoodJob, IsJob, Later
<1>7. OneSeed'
  BY <1>2, <1>5 DEF OneSeed
<1>8. ~At(t, "fill store") /\ ~TopicsDue(t)
  BY <1>1 DEF At, TopicsDue
<1> QED
  BY <1>2, <1>4, <1>5, <1>6, <1>7, <1>8, AsideKeepsInv

\* The password of the record is of the seed that is stored.
LEMMA FillSeedKeepsInv ==
  ASSUME RegistrationInv, NEW t \in Threads, FillSeed(t)
  PROVE  RegistrationInv'
<1>1. At(t, "fill seed")
  BY DEF FillSeed
<1>2. /\ \A a \in Addons : CredentialsOf(saved[a]) = Nil
      /\ \A u \in Threads : u # t => job[u] = Nil
  BY <1>1, BusyIsGood DEF GoodJob, At
<1>3. PICK key : key = FreshKey(t)
  OBVIOUS
<1>4. key # Nil
  BY <1>3, NilAssumption DEF FreshKey, RegistrationInv, Shapes
<1>5. PICK k : /\ Put(t, k)
               /\ IsJob(k) /\ k.req \in Requests /\ k.setup \in SetupModes
               /\ k.at = "save" /\ k.data = saved
               /\ k.record = Record(k.req, k.setup,
                                    Issue(k.req, k.data[k.req.addon], key))
  BY <1>1, <1>3, WithKeyPut DEF FillSeed
<1>6. UNCHANGED <<store, topicFiles, saved, cutShort>> /\ seed' = key
      /\ served' \in 0..MaxRequests
  BY <1>3 DEF FillSeed, history, RegistrationInv, Shapes
<1>7. Computed(k)'
  BY <1>4, <1>5, <1>6 DEF Computed
<1>8. GoodJob(k)'
  BY <1>5, <1>6, <1>7 DEF GoodJob, IsJob
<1>9. OneSeed'
  BY <1>2, <1>6 DEF OneSeed
<1>10. ~At(t, "fill store") /\ ~TopicsDue(t)
  BY <1>1 DEF At, TopicsDue
<1> QED
  BY <1>2, <1>5, <1>6, <1>8, <1>9, <1>10, AsideKeepsInv

\* What Put makes of the next state, for the properties that read job.
LEMMA NextBusy ==
  ASSUME Apart, RegistrationInv, NEW t \in Threads, NEW j, IsJob(j), Put(t, j),
         \A u \in Threads : u # t => job[u] = Nil
  PROVE  /\ job'[t] = j /\ j # Nil
         /\ Busy' = {t}
         /\ \A step : At(t, step)' <=> j.at = step
<1>1. job'[t] = j /\ j # Nil /\ \A u \in Threads : u # t => job'[u] = Nil
  BY JobPut DEF Apart
<1> QED
  BY <1>1 DEF Busy, At

\* The file is torn by the request that has what was saved last to fill it with.
LEMMA OpenStoreKeepsInv ==
  ASSUME Apart, RegistrationInv, NEW t \in Threads, OpenStore(t)
  PROVE  RegistrationInv'
<1>1. At(t, "save")
  BY DEF OpenStore
<1>2. /\ GoodJob(job[t])
      /\ job[t].data = saved
      /\ Computed(job[t])
      /\ \A u \in Threads : u # t => job[u] = Nil
  BY <1>1, BusyIsGood DEF GoodJob, At
<1>3. PICK k : k = Later(t, "fill store")
  OBVIOUS
<1>4. Put(t, k)
  BY <1>1, <1>3, MovePut DEF OpenStore
<1>5. UNCHANGED <<seed, topicFiles, saved, cutShort, served>> /\ store' = Torn
  BY DEF OpenStore, history
<1>6. Computed(k)'
  BY <1>2, <1>3, <1>5 DEF Computed, Later
<1>7. GoodJob(k)' /\ IsJob(k) /\ k.at = "fill store"
  BY <1>2, <1>3, <1>5, <1>6 DEF GoodJob, IsJob, Later
<1>8. FileShapes' /\ RegistrationsKept' /\ OneSeed'
  BY <1>5 DEF RegistrationInv, Shapes, FileShapes, RegistrationsKept, OneSeed
<1>9. TornIsEmpty'
  <2>1. At(t, "fill store")'
    BY <1>2, <1>4, <1>7, NextBusy
  <2> QED
    BY <2>1 DEF TornIsEmpty
<1>10. TopicFileFollowsRecord'
  <2>1. \A u \in Busy : ~TopicsDue(u)
    BY <1>1, <1>2 DEF Busy, TopicsDue, At
  <2> QED
    BY <2>1, <1>5 DEF RegistrationInv, TopicFileFollowsRecord
<1> QED
  BY <1>2, <1>4, <1>7, <1>8, <1>9, <1>10, StepKeepsInv

\* The record an upsert writes, and the file it then leaves.
LEMMA FillStoreSaves ==
  ASSUME RegistrationInv, NEW t \in Threads, FillStore(t)
  PROVE  /\ job[t].req.addon \in Addons
         /\ job[t].data = saved /\ Computed(job[t])
         /\ store' = [saved EXCEPT ![job[t].req.addon] = job[t].record]
         /\ saved' = store'
<1>1. At(t, "fill store")
  BY DEF FillStore
<1>2. job[t].req.addon \in Addons /\ job[t].data = saved /\ Computed(job[t])
  BY <1>1, BusyIsGood DEF GoodJob, At
<1> QED
  BY <1>2 DEF FillStore, WithRecord

\* The record that is filled in is the one its addon keeps.
LEMMA FillStoreKeepsInv ==
  ASSUME Apart, RegistrationInv, NEW t \in Threads, FillStore(t)
  PROVE  RegistrationInv'
<1> DEFINE a == job[t].req.addon
<1>1. At(t, "fill store")
  BY DEF FillStore
<1>2. GoodJob(job[t]) /\ \A u \in Threads : u # t => job[u] = Nil
  BY <1>1, BusyIsGood
<1>3. /\ a \in Addons /\ job[t].data = saved
      /\ saved' = [saved EXCEPT ![a] = job[t].record]
      /\ store' = saved'
  BY FillStoreSaves
<1>4. PICK c : /\ job[t].record = Record(job[t].req, job[t].setup, c)
               /\ c = Nil \/ (seed # Nil /\ c = Issue(job[t].req, job[t].data[a], seed))
  BY FillStoreSaves DEF Computed
<1>5. PICK k : k = Later(t, "topics")
  OBVIOUS
<1>6. Put(t, k)
  BY <1>1, <1>5, MovePut DEF FillStore
<1>7. UNCHANGED <<seed, topicFiles, cutShort, served>>
  BY DEF FillStore
<1>8. /\ saved' = [b \in Addons |-> saved'[b]]
      /\ saved'[a] = job[t].record
      /\ \A b \in Addons : b # a => saved'[b] = saved[b]
  BY <1>3 DEF RegistrationInv, Shapes
<1>9. IsJob(k) /\ k.at = "topics" /\ k.req = job[t].req /\ k.setup = job[t].setup
      /\ k.record = job[t].record
  BY <1>5 DEF IsJob, Later
<1>10. GoodJob(k)'
  <2>1. job[t].record.profile = Profile(job[t].setup)
    BY <1>4 DEF Record
  <2> QED
    BY <2>1, <1>2, <1>8, <1>9 DEF GoodJob, IsJob
<1>11. FileShapes'
  BY <1>7, <1>8 DEF RegistrationInv, Shapes, FileShapes
<1>12. RegistrationsKept' /\ TornIsEmpty'
  <2>1. store' # Torn
    BY <1>3, <1>8 DEF Apart
  <2> QED
    BY <2>1, <1>3 DEF RegistrationsKept, TornIsEmpty
<1>13. OneSeed'
  <2>1. c # Nil => seed # Nil /\ c = [seed |-> seed, version |-> c.version]
    BY <1>4 DEF Issue
  <2>2. CredentialsOf(saved'[a]) \in {Nil, c}
    BY <1>4, <1>8 DEF CredentialsOf, Record
  <2>3. ASSUME NEW b \in Addons, b # a
        PROVE  CredentialsOf(saved'[b]) = CredentialsOf(saved[b])
    BY <2>3, <1>8
  <2> QED
    BY <2>1, <2>2, <2>3, <1>7 DEF RegistrationInv, OneSeed, CredentialsOf
<1>14. TopicFileFollowsRecord'
  <2>1. Busy' = {t} /\ job'[t] = k /\ At(t, "topics")'
    BY <1>2, <1>6, <1>9, NextBusy
  <2>2. \A u \in Busy : ~TopicsDue(u)
    BY <1>1, <1>2 DEF Busy, TopicsDue, At
  <2>3. TopicsDue(t)' /\ job'[t].req.addon = a
    BY <2>1, <1>9 DEF TopicsDue
  <2> QED
    BY <2>1, <2>2, <2>3, <1>7, <1>8 DEF RegistrationInv, TopicFileFollowsRecord
<1> QED
  BY <1>2, <1>6, <1>10, <1>11, <1>12, <1>13, <1>14, StepKeepsInv

\* While a topic file is written, only that of the addon may change.
LEMMA TopicStep ==
  ASSUME RegistrationInv, NEW t \in Threads, TopicsDue(t)
  PROVE  LET a == job[t].req.addon IN
         /\ GoodJob(job[t]) /\ \A u \in Threads : u # t => job[u] = Nil
         /\ a \in Addons /\ job[t].record = saved[a]
         /\ saved[a].profile = Profile(job[t].setup)
         /\ Profile(job[t].setup) \in Profiles
         /\ \A b \in Addons \ {a} : \A u \in Busy :
              job[u].req.addon = b => ~TopicsDue(u)
<1>1. PICK step : (step = "topics" \/ step = "fill topics") /\ At(t, step)
  BY DEF TopicsDue
<1>2. /\ GoodJob(job[t]) /\ job[t].at = step /\ job[t].req.addon \in Addons
      /\ \A u \in Threads : u # t => job[u] = Nil
  BY <1>1, BusyIsGood DEF At
<1> QED
  BY <1>1, <1>2 DEF GoodJob, Busy, Profile, Profiles

\* A file of topics is opened: its addon is still excused.
LEMMA OpenTopicFileKeepsInv ==
  ASSUME Apart, RegistrationInv, NEW t \in Threads, OpenTopicFile(t)
  PROVE  RegistrationInv'
<1> DEFINE a == job[t].req.addon
           p == Profile(job[t].setup)
<1>1. At(t, "topics") /\ TopicsDue(t)
  BY DEF OpenTopicFile, TopicsDue
<1>2. /\ GoodJob(job[t]) /\ \A u \in Threads : u # t => job[u] = Nil
      /\ a \in Addons /\ job[t].record = saved[a] /\ saved[a].profile = p
      /\ p \in Profiles
      /\ \A b \in Addons \ {a} : \A u \in Busy : job[u].req.addon = b => ~TopicsDue(u)
  BY <1>1, TopicStep
<1>3. PICK k : k = Later(t, "fill topics")
  OBVIOUS
<1>4. Put(t, k)
  BY <1>1, <1>3, MovePut DEF OpenTopicFile
<1>5. /\ UNCHANGED <<store, seed, saved, cutShort, served>>
      /\ topicFiles' = [topicFiles EXCEPT ![a][p] = Torn]
  BY DEF OpenTopicFile, SetTopicFile, history
<1>6. /\ IsJob(k) /\ k.at = "fill topics" /\ k.req = job[t].req
      /\ k.setup = job[t].setup /\ k.record = job[t].record
  BY <1>3 DEF IsJob, Later
<1>7. GoodJob(k)'
  BY <1>2, <1>5, <1>6 DEF GoodJob, IsJob
<1>8. FileShapes' /\ \A b \in Addons \ {a} : topicFiles'[b] = topicFiles[b]
  BY <1>5 DEF RegistrationInv, Shapes, FileShapes
<1>9. RegistrationsKept' /\ OneSeed'
  BY <1>5 DEF RegistrationInv, RegistrationsKept, OneSeed
<1>10. TornIsEmpty'
  BY <1>1, <1>2, <1>5 DEF RegistrationInv, TornIsEmpty, At
<1>11. TopicFileFollowsRecord'
  <2>1. Busy' = {t} /\ job'[t] = k /\ At(t, "fill topics")'
    BY <1>2, <1>4, <1>6, NextBusy
  <2>2. TopicsDue(t)' /\ job'[t].req.addon = a
    BY <2>1, <1>6 DEF TopicsDue
  <2> QED
    BY <2>1, <2>2, <1>2, <1>5, <1>8 DEF RegistrationInv, TopicFileFollowsRecord
<1> QED
  BY <1>2, <1>4, <1>7, <1>8, <1>9, <1>10, <1>11, StepKeepsInv

\* The file then has the topics of the record that is kept.
LEMMA FillTopicFileKeepsInv ==
  ASSUME Apart, RegistrationInv, NEW t \in Threads, FillTopicFile(t)
  PROVE  RegistrationInv'
<1> DEFINE a == job[t].req.addon
           p == Profile(job[t].setup)
<1>1. At(t, "fill topics") /\ TopicsDue(t)
  BY DEF FillTopicFile, TopicsDue
<1>2. /\ GoodJob(job[t]) /\ \A u \in Threads : u # t => job[u] = Nil
      /\ a \in Addons /\ job[t].record = saved[a] /\ saved[a].profile = p
      /\ p \in Profiles
      /\ \A b \in Addons \ {a} : \A u \in Busy : job[u].req.addon = b => ~TopicsDue(u)
  BY <1>1, TopicStep
<1>3. PICK k : k = Later(t, "trace")
  OBVIOUS
<1>4. Put(t, k)
  BY <1>1, <1>3, MovePut DEF FillTopicFile
<1>5. /\ UNCHANGED <<store, seed, saved, served>>
      /\ cutShort' = cutShort \ {a}
      /\ topicFiles' = [topicFiles EXCEPT ![a][p] = saved[a].topics]
  BY <1>2 DEF FillTopicFile, SetTopicFile, NewTopics
<1>6. IsJob(k) /\ k.at = "trace" /\ k.req \in Requests /\ k.setup \in SetupModes
  BY <1>2, <1>3 DEF GoodJob, IsJob, Later
<1>7. GoodJob(k)'
  BY <1>6 DEF GoodJob, IsJob
<1>8. FileShapes' /\ topicFiles'[a][p] = saved[a].topics
      /\ \A b \in Addons \ {a} : topicFiles'[b] = topicFiles[b]
  BY <1>2, <1>5 DEF RegistrationInv, Shapes, FileShapes
<1>9. RegistrationsKept' /\ OneSeed'
  BY <1>5 DEF RegistrationInv, RegistrationsKept, OneSeed
<1>10. TornIsEmpty'
  BY <1>1, <1>2, <1>5 DEF RegistrationInv, TornIsEmpty, At
<1>11. TopicFileFollowsRecord'
  BY <1>2, <1>5, <1>8 DEF RegistrationInv, TopicFileFollowsRecord
<1> QED
  BY <1>2, <1>4, <1>7, <1>8, <1>9, <1>10, <1>11, StepKeepsInv

\* The traces that are read go with the request.
LEMMA ReadTracesPut ==
  ASSUME RegistrationInv, NEW t \in Threads, ReadTraces(t)
  PROVE  \E k : Put(t, k) /\ GoodJob(k)
<1>1. At(t, "trace")
  BY DEF ReadTraces
<1>2. job[t].req \in Requests /\ job[t].setup \in SetupModes
  BY <1>1, BusyIsGood DEF GoodJob
<1>3. PICK j, was, req, mode, data, record, log, outcome :
        /\ j = job[t] /\ req = job[t].req /\ mode = job[t].setup
        /\ j = [at |-> was, req |-> req, setup |-> mode, data |-> data,
                record |-> record, log |-> log, outcome |-> outcome]
  <2>1. job[t] = [at |-> "trace", req |-> job[t].req, setup |-> job[t].setup,
                  data |-> job[t].data, record |-> job[t].record,
                  log |-> job[t].log, outcome |-> job[t].outcome]
    BY <1>1, BusyIsGood
  <2> QED
    BY <2>1
<1>4. PICK new : new = Loaded(traces)
  OBVIOUS
<1>5. PICK e : e = [j EXCEPT !.at = "save trace"]
  OBVIOUS
<1>6. e = [at |-> "save trace", req |-> req, setup |-> mode, data |-> data,
           record |-> record, log |-> log, outcome |-> outcome]
  <2>1. j = [at |-> was, req |-> req, setup |-> mode, data |-> data,
             record |-> record, log |-> log, outcome |-> outcome]
    BY <1>3
  <2> QED
    BY ONLY <2>1, <1>5
<1>7. PICK k : k = [e EXCEPT !.log = new]
  OBVIOUS
<1>8. k = [at |-> "save trace", req |-> req, setup |-> mode, data |-> data,
           record |-> record, log |-> new, outcome |-> outcome]
  BY ONLY <1>6, <1>7
<1>9. job' = [[job EXCEPT ![t].at = "save trace"] EXCEPT ![t].log = new]
  BY <1>4 DEF ReadTraces
<1>10. job' = [job EXCEPT ![t] = [[job[t] EXCEPT !.at = "save trace"] EXCEPT !.log = new]]
  BY <1>9 DEF RegistrationInv, Shapes
<1>11. Put(t, k)
  BY <1>10, <1>3, <1>5, <1>7 DEF Put
<1>12. IsJob(k) /\ k.req \in Requests /\ k.setup \in SetupModes /\ k.at \in Plain
  BY <1>2, <1>3, <1>8 DEF IsJob, Plain
<1> QED
  BY <1>11, <1>12, PlainIsGood

\* The trace of a request touches nothing else.
LEMMA TraceKeepsInv ==
  ASSUME RegistrationInv, NEW t \in Threads,
         ReadTraces(t) \/ OpenTraces(t) \/ FillTraces(t) \/ Answer(t)
  PROVE  RegistrationInv'
<1>1. PICK step : /\ step \in {"trace", "save trace", "fill trace", "answer"}
                  /\ At(t, step)
                  /\ step = "trace" => ReadTraces(t)
                  /\ step = "save trace" => OpenTraces(t)
                  /\ step = "fill trace" => FillTraces(t)
                  /\ step = "answer" => Answer(t)
  BY DEF ReadTraces, OpenTraces, FillTraces, Answer, At
<1>2. GoodJob(job[t]) /\ \A u \in Threads : u # t => job[u] = Nil
  BY <1>1, BusyIsGood
<1>3. job[t].req \in Requests /\ job[t].setup \in SetupModes
  BY <1>2 DEF GoodJob
<1>4. PICK k : Put(t, k) /\ (k # Nil => GoodJob(k))
  <2>1. CASE step = "trace"
    BY <2>1, <1>1, ReadTracesPut
  <2>2. CASE step \in {"save trace", "fill trace"}
    <3>1. PICK next : next \in Plain /\ Move(t, next)
      BY <2>2, <1>1 DEF OpenTraces, FillTraces, Plain
    <3>2. PICK k : k = Later(t, next)
      OBVIOUS
    <3>3. Put(t, k)
      BY <3>1, <3>2, <1>1, MovePut
    <3>4. IsJob(k) /\ k.req \in Requests /\ k.setup \in SetupModes /\ k.at \in Plain
      BY <3>1, <3>2, <1>3 DEF IsJob, Later
    <3> QED
      BY <3>3, <3>4, PlainIsGood
  <2>3. CASE step = "answer"
    BY <2>3, <1>1 DEF Answer, Put
  <2> QED
    BY <2>1, <2>2, <2>3, <1>1
<1>5. UNCHANGED <<store, seed, topicFiles, saved, cutShort>> /\ served' \in 0..MaxRequests
  BY DEF ReadTraces, OpenTraces, FillTraces, Answer, files, history, RegistrationInv, Shapes
<1>6. ~At(t, "fill store") /\ ~TopicsDue(t)
  BY <1>1 DEF At, TopicsDue
<1> QED
  BY <1>2, <1>4, <1>5, <1>6, QuietKeepsInv

\* A request that is cut off leaves its addon excused if its topics were due.  A
\* file torn at that moment is lost, with what was saved in it.
LEMMA CutOffKeepsInv ==
  ASSUME RegistrationInv, NEW T, NEW lost \in BOOLEAN, CutOff(T, lost),
         Busy \subseteq T, T \subseteq Threads,
         lost => store = Torn,
         store = Torn => lost \/ saved = NoRecords
  PROVE  RegistrationInv'
<1>1. /\ job' = [t \in Threads |-> IF t \in T THEN Nil ELSE job[t]]
      /\ saved' = IF lost THEN NoRecords ELSE saved
      /\ cutShort' = cutShort \cup {job[t].req.addon : t \in {u \in T : TopicsDue(u)}}
      /\ UNCHANGED <<store, seed, topicFiles, served>>
  BY DEF CutOff, files
<1>2. \A t \in Threads : job'[t] = Nil
  BY <1>1 DEF Busy
<1>3. Alone' /\ JobsGood' /\ Busy' = {}
  BY <1>2 DEF Alone, JobsGood, Busy
<1>4. saved' = NoRecords \/ saved' = saved
  BY <1>1
<1>5. Shapes'
  BY <1>1, <1>4 DEF RegistrationInv, Shapes, NoRecords
<1>6. RegistrationsKept'
  BY <1>1 DEF RegistrationInv, RegistrationsKept
<1>7. TornIsEmpty'
  BY <1>1 DEF TornIsEmpty
<1>8. OneSeed'
  <2>1. \A a \in Addons : NoRecords[a] = Nil
    BY DEF NoRecords
  <2>2. CASE saved' = NoRecords
    BY <2>1, <2>2 DEF OneSeed, CredentialsOf
  <2>3. CASE saved' = saved
    BY <2>3, <1>1 DEF RegistrationInv, OneSeed
  <2> QED
    BY <2>2, <2>3, <1>4
<1>9. TopicFileFollowsRecord'
  <2>1. SUFFICES ASSUME NEW a \in Addons, saved'[a] # Nil, a \notin cutShort'
                 PROVE  topicFiles'[a][saved'[a].profile] = saved'[a].topics
    BY DEF TopicFileFollowsRecord
  <2>2. saved' = saved
    BY <2>1, <1>4 DEF NoRecords
  <2>3. \A t \in Busy : job[t].req.addon = a => ~TopicsDue(t)
    BY <2>1, <1>1
  <2> QED
    BY <2>1, <2>2, <2>3, <1>1 DEF RegistrationInv, TopicFileFollowsRecord
<1> QED
  BY <1>3, <1>5, <1>6, <1>7, <1>8, <1>9 DEF RegistrationInv

\* A write that fails ends its request; a restart ends them all.
LEMMA FaultKeepsInv ==
  ASSUME RegistrationInv, (\E t \in Threads : Fail(t)) \/ Crash
  PROVE  RegistrationInv'
<1>1. ASSUME NEW t \in Threads, Fail(t)
      PROVE  RegistrationInv'
  <2>1. job[t] # Nil /\ CutOff({t}, At(t, "fill store"))
    BY <1>1 DEF Fail, At
  <2>2. \A u \in Threads : u # t => job[u] = Nil
    BY <2>1, OthersIdle
  <2>3. Busy \subseteq {t}
    BY <2>2 DEF Busy
  <2>4. At(t, "fill store") => store = Torn
    BY DEF RegistrationInv, JobsGood, GoodJob, At
  <2>5. store = Torn => At(t, "fill store") \/ saved = NoRecords
    BY <2>2 DEF RegistrationInv, TornIsEmpty, At
  <2>6. At(t, "fill store") \in BOOLEAN
    BY DEF At
  <2> QED
    BY <2>1, <2>3, <2>4, <2>5, <2>6, CutOffKeepsInv
<1>2. ASSUME Crash
      PROVE  RegistrationInv'
  <2>1. CutOff(Busy, store = Torn) /\ Busy \subseteq Threads
    BY <1>2 DEF Crash, Busy
  <2> QED
    BY <2>1, CutOffKeepsInv
<1> QED
  BY <1>1, <1>2

-----------------------------------------------------------------------------
(* The theorems.                                                           *)

Steady == RegistrationInv /\ setup \in SetupModes

\* At the start nothing is registered and nothing is under way.
LEMMA InitSteady == Init => Steady
<1> SUFFICES ASSUME Init PROVE Steady
  OBVIOUS
<1>1. Alone /\ JobsGood /\ TornIsEmpty
  BY DEF Init, Alone, JobsGood, TornIsEmpty
<1>2. Shapes
  BY BoundsAssumption DEF Init, Shapes, NoRecords
<1>3. RegistrationsKept
  BY DEF Init, RegistrationsKept
<1>4. \A a \in Addons : saved[a] = Nil
  BY DEF Init, NoRecords
<1>5. OneSeed /\ TopicFileFollowsRecord
  BY <1>4 DEF OneSeed, CredentialsOf, TopicFileFollowsRecord
<1> QED
  BY <1>1, <1>2, <1>3, <1>5 DEF Steady, RegistrationInv, Init

\* Every step keeps the invariant.
LEMMA NextSteady ==
  ASSUME OneAtATime, Apart, Steady, [Next]_vars
  PROVE  Steady'
<1>1. RegistrationInv /\ setup \in SetupModes
  BY DEF Steady
<1>2. CASE UNCHANGED vars
  BY <1>1, <1>2 DEF Steady, RegistrationInv, vars, files, history, Alone, Shapes,
    RegistrationsKept, TornIsEmpty, At, OneSeed, TopicFileFollowsRecord, Busy, TopicsDue,
    JobsGood, GoodJob, Computed
<1>3. ASSUME NEW t \in Threads, NEW r \in Requests, Receive(t, r)
      PROVE  Steady'
  BY <1>1, <1>3, ReceiveKeepsInv DEF Steady, Receive
<1>4. ASSUME NEW t \in Threads, Upsert(t)
      PROVE  Steady'
  <2>1. setup' = setup
    BY <1>4 DEF Upsert, Load, LookForSeed, OpenSeed, FillSeed, OpenStore, FillStore,
      OpenTopicFile, FillTopicFile, ReadTraces, OpenTraces, FillTraces, Answer, Fail, CutOff
  <2>2. RegistrationInv'
    BY <1>1, <1>4, LoadKeepsInv, LookForSeedKeepsInv, OpenSeedKeepsInv, FillSeedKeepsInv,
      OpenStoreKeepsInv, FillStoreKeepsInv, OpenTopicFileKeepsInv, FillTopicFileKeepsInv,
      TraceKeepsInv, FaultKeepsInv DEF Upsert
  <2> QED
    BY <1>1, <2>1, <2>2 DEF Steady
<1>5. CASE Crash
  BY <1>1, <1>5, FaultKeepsInv DEF Steady, Crash, CutOff
<1>6. CASE ChangeSetup
  <2>1. UNCHANGED <<files, job, served, cuts, history>> /\ setup' \in SetupModes
    BY <1>6 DEF ChangeSetup
  <2>2. RegistrationInv'
    BY <1>1, <2>1 DEF RegistrationInv, files, history, Alone, Shapes,
      RegistrationsKept, TornIsEmpty, At, OneSeed, TopicFileFollowsRecord, Busy, TopicsDue,
      JobsGood, GoodJob, Computed
  <2> QED
    BY <2>1, <2>2 DEF Steady
<1> QED
  BY <1>2, <1>3, <1>4, <1>5, <1>6 DEF Next

\* The invariant holds of every behaviour whose requests come one at a time.
LEMMA SteadyAlways ==
  ASSUME OneAtATime, Apart
  PROVE  Spec => []Steady
<1>1. Init => Steady
  BY InitSteady
<1>2. Steady /\ [Next]_vars => Steady'
  BY NextSteady
<1> QED
  BY <1>1, <1>2, PTL DEF Spec

\* docs/api.md: the endpoint "stores or updates approved addon registration".  With
\* requests one at a time the file holds what each addon's last upsert wrote,
\* whatever fails or restarts in between.
THEOREM RegistrationsAreKept ==
  ASSUME OneAtATime, Apart
  PROVE  Spec => []RegistrationsKept
<1>1. Steady => RegistrationsKept
  BY DEF Steady, RegistrationInv
<1> QED
  BY <1>1, SteadyAlways, PTL

\* Beside each record lies the ACL file, or the note, of exactly its topics, unless
\* the upsert that saved it ended before it wrote that file.
THEOREM TopicFilesFollow ==
  ASSUME OneAtATime, Apart
  PROVE  Spec => []TopicFileFollowsRecord
<1>1. Steady => TopicFileFollowsRecord
  BY DEF Steady, RegistrationInv
<1> QED
  BY <1>1, SteadyAlways, PTL

\* The action that CredentialsChangeOnRequest allows.
ChangedOnRequest ==
  \A a \in Addons :
    LET old == CredentialsOf(saved[a])
        new == CredentialsOf(saved'[a])
    IN old # Nil /\ new # Nil /\ new # old =>
         /\ new = [old EXCEPT !.version = @ + 1]
         /\ \E t \in Busy : /\ job[t].at = "fill store" /\ job[t].req.addon = a
                           /\ job[t].req.reprovision

\* An upsert that saves another password has been asked to, and the password is
\* the next of the same seed: the request read the record that is still there.
LEMMA FillStoreChangesOnRequest ==
  ASSUME RegistrationInv, NEW t \in Threads, FillStore(t)
  PROVE  ChangedOnRequest
<1> DEFINE q == job[t].req
<1>1. /\ q.addon \in Addons /\ job[t].data = saved
      /\ saved' = [saved EXCEPT ![q.addon] = job[t].record]
  BY FillStoreSaves
<1>2. PICK c : /\ job[t].record = Record(q, job[t].setup, c)
               /\ c = Nil \/ c = Issue(q, saved[q.addon], seed)
  BY FillStoreSaves DEF Computed
<1>3. /\ saved'[q.addon] = job[t].record
      /\ \A b \in Addons : b # q.addon => saved'[b] = saved[b]
  BY <1>1 DEF RegistrationInv, Shapes
<1>4. CredentialsOf(saved'[q.addon]) \in {Nil, c}
  BY <1>2, <1>3 DEF CredentialsOf, Record
<1>5. t \in Busy /\ job[t].at = "fill store"
  BY DEF FillStore, At, Busy
<1>6. ASSUME CredentialsOf(saved[q.addon]) # Nil, CredentialsOf(saved'[q.addon]) # Nil,
             CredentialsOf(saved'[q.addon]) # CredentialsOf(saved[q.addon])
      PROVE  /\ CredentialsOf(saved'[q.addon]) =
                  [CredentialsOf(saved[q.addon]) EXCEPT !.version = @ + 1]
             /\ q.reprovision
  <2>1. PICK old : old = CredentialsOf(saved[q.addon])
    OBVIOUS
  <2>2. old = [seed |-> seed, version |-> old.version]
    BY <1>1, <1>6, <2>1 DEF RegistrationInv, OneSeed
  <2>3. saved[q.addon] # Nil /\ saved[q.addon].credentials = old /\ old # Nil
    BY <1>6, <2>1 DEF CredentialsOf
  <2>4. c = [seed |-> seed, version |-> NextVersion(q, old.version)]
    BY <1>2, <1>4, <1>6, <2>3 DEF Issue
  <2>5. CredentialsOf(saved'[q.addon]) = c
    BY <1>4, <1>6
  <2>6. q.reprovision /\ NextVersion(q, old.version) = old.version + 1
    BY <1>6, <2>1, <2>2, <2>4, <2>5 DEF NextVersion
  <2>7. [old EXCEPT !.version = @ + 1] = [seed |-> seed, version |-> old.version + 1]
    BY <2>2
  <2> QED
    BY <2>1, <2>4, <2>5, <2>6, <2>7
<1>7. ASSUME NEW b \in Addons, b # q.addon
      PROVE  CredentialsOf(saved'[b]) = CredentialsOf(saved[b])
  BY <1>3, <1>7
<1> QED
  BY <1>5, <1>6, <1>7 DEF ChangedOnRequest

\* docs/api.md: "stable broker credentials".  From one stored registration of an
\* addon to the next, the password changes only when the request says so, and then
\* to the next version of the same seed.
THEOREM CredentialsAreStable ==
  ASSUME OneAtATime, Apart
  PROVE  Spec => CredentialsChangeOnRequest
<1>1. Steady /\ [Next]_vars => [ChangedOnRequest]_vars
  <2> SUFFICES ASSUME Steady, [Next]_vars, ~UNCHANGED vars
               PROVE  ChangedOnRequest
    OBVIOUS
  <2>1. RegistrationInv
    BY DEF Steady
  <2>2. ASSUME saved' = saved
        PROVE  ChangedOnRequest
    BY <2>2 DEF ChangedOnRequest
  <2>3. ASSUME saved' = NoRecords
        PROVE  ChangedOnRequest
    BY <2>3 DEF ChangedOnRequest, NoRecords, CredentialsOf
  <2>4. ASSUME NEW t \in Threads, NEW r \in Requests, Receive(t, r)
        PROVE  ChangedOnRequest
    BY <2>4, <2>2 DEF Receive, history
  <2>5. ASSUME NEW t \in Threads, Upsert(t)
        PROVE  ChangedOnRequest
    <3>1. CASE FillStore(t)
      BY <3>1, <2>1, FillStoreChangesOnRequest
    <3>2. CASE ~FillStore(t)
      <4>1. saved' = saved \/ saved' = NoRecords
        BY <2>5, <3>2 DEF Upsert, Load, LookForSeed, OpenSeed, FillSeed, OpenStore,
          OpenTopicFile, FillTopicFile, ReadTraces, OpenTraces, FillTraces, Answer,
          Fail, CutOff, history
      <4> QED
        BY <4>1, <2>2, <2>3
    <3> QED
      BY <3>1, <3>2
  <2>6. CASE Crash
    BY <2>6, <2>2, <2>3 DEF Crash, CutOff
  <2>7. CASE ChangeSetup
    BY <2>7, <2>2 DEF ChangeSetup, history
  <2> QED
    BY <2>4, <2>5, <2>6, <2>7 DEF Next
<1>2. CredentialsChangeOnRequest <=> [][ChangedOnRequest]_vars
  BY DEF CredentialsChangeOnRequest, ChangedOnRequest
<1> QED
  BY <1>1, <1>2, SteadyAlways, PTL DEF Spec

-----------------------------------------------------------------------------
(* The types, for any number of requests at once.                          *)

\* A record has the identity its access mode and its broker allow.
Identified(r) ==
  /\ (r.credentials # Nil) <=> (r.direct /\ r.profile = "embedded-generated")
  /\ r.manual <=> (r.direct /\ r.profile = "external-manual")
GoodTable(d) == d \in Tables /\ \A a \in Addons : d[a] # Nil => Identified(d[a])

\* What a request has computed so far is typed once it has been computed.
Loading == {"seed", "make seed", "fill seed"}
Saving == {"save", "fill store"}
ForTopics == {"topics", "fill topics"}
TypedJob(j) ==
  /\ j \in Jobs
  /\ j.at \in Loading => NeedsCredentials(j.req, j.setup)
  /\ j.at \in Loading \cup Saving => GoodTable(j.data)
  /\ j.at \in Saving \cup ForTopics => j.record \in Records /\ Identified(j.record)
  /\ j.at \in {"save trace", "fill trace"} => j.log \in Seq(Entries)
JobsTyped == \A t \in Threads : job[t] # Nil => TypedJob(job[t]) /\ served > 0

TypesInv == RegistrationTypeOK /\ JobsTyped

\* What a step of one request must leave of the requests.
LEMMA JobPutTyped ==
  ASSUME TypesInv, NEW t \in Threads, NEW k, k = Nil \/ TypedJob(k), Put(t, k),
         served' \in 0..MaxRequests, served' = served \/ served' > 0,
         k # Nil => served' > 0
  PROVE  job' \in [Threads -> Jobs \cup {Nil}] /\ JobsTyped'
<1>1. job' \in [Threads -> Jobs \cup {Nil}]
  BY DEF TypesInv, RegistrationTypeOK, Put, TypedJob
<1>2. \A u \in Threads : job'[u] = IF u = t THEN k ELSE job[u]
  BY DEF TypesInv, RegistrationTypeOK, Put
<1>3. ASSUME NEW u \in Threads, job'[u] # Nil
      PROVE  TypedJob(job'[u]) /\ served' > 0
  BY <1>2, <1>3 DEF TypesInv, JobsTyped
<1> QED
  BY <1>1, <1>3 DEF JobsTyped, TypedJob, GoodTable, Identified

\* The request that takes a step has its type.
LEMMA JobTyped ==
  ASSUME TypesInv, NEW t \in Threads, NEW step, At(t, step)
  PROVE  /\ job[t] \in Jobs /\ TypedJob(job[t]) /\ job[t].at = step
         /\ served > 0 /\ served \in 0..MaxRequests
BY DEF TypesInv, JobsTyped, RegistrationTypeOK, At, TypedJob

\* Another step makes another job of the same type.
LEMMA AtTyped ==
  ASSUME NEW j \in Jobs, NEW next \in Steps
  PROVE  /\ [j EXCEPT !.at = next] \in Jobs
         /\ [j EXCEPT !.at = next].at = next
         /\ [j EXCEPT !.at = next].req = j.req
         /\ [j EXCEPT !.at = next].setup = j.setup
         /\ [j EXCEPT !.at = next].data = j.data
         /\ [j EXCEPT !.at = next].record = j.record
         /\ [j EXCEPT !.at = next].log = j.log
         /\ [j EXCEPT !.at = next].outcome = j.outcome
BY DEF Jobs

\* A request that moves on needs what its next step asks for.
LEMMA MoveTyped ==
  ASSUME TypesInv, NEW t \in Threads, NEW step, At(t, step), NEW next \in Steps,
         Move(t, next), served' = served,
         next \in Loading => step \in Loading,
         next \in Saving => step \in Saving,
         next \in ForTopics => step \in Saving \cup ForTopics,
         next \in {"save trace", "fill trace"} => step \in {"save trace", "fill trace"}
  PROVE  job' \in [Threads -> Jobs \cup {Nil}] /\ JobsTyped'
<1>1. job[t] \in Jobs /\ TypedJob(job[t]) /\ job[t].at = step /\ served > 0
      /\ served \in 0..MaxRequests
  BY JobTyped
<1>2. PICK k : k = [job[t] EXCEPT !.at = next]
  OBVIOUS
<1>3. /\ k \in Jobs /\ k.at = next /\ k.req = job[t].req /\ k.setup = job[t].setup
      /\ k.data = job[t].data /\ k.record = job[t].record /\ k.log = job[t].log
  BY <1>1, <1>2, AtTyped
<1>4. TypedJob(k)
  BY <1>1, <1>3 DEF TypedJob
<1>5. Put(t, k)
  BY <1>2 DEF Move, Put
<1> QED
  BY <1>1, <1>4, <1>5, JobPutTyped

\* A denied request has its type.
LEMMA DenyTyped ==
  ASSUME TypesInv, NEW t \in Threads, NEW j \in Jobs, Deny(t, j),
         served' \in 0..MaxRequests, served' > 0
  PROVE  job' \in [Threads -> Jobs \cup {Nil}] /\ JobsTyped'
<1>1. PICK k : k = [j EXCEPT !.at = "trace", !.outcome = "denied"]
  OBVIOUS
<1>2. k \in Jobs /\ k.at = "trace"
  BY <1>1 DEF Jobs, Steps, Outcomes
<1>3. TypedJob(k)
  BY <1>2 DEF TypedJob, Loading, Saving, ForTopics
<1>4. Put(t, k)
  BY <1>1 DEF Deny, Put
<1> QED
  BY <1>3, <1>4, JobPutTyped

\* The table of a file is typed, also when the file is torn.
LEMMA LoadAllTyped ==
  ASSUME TypesInv
  PROVE  GoodTable(LoadAll)
<1>1. CASE store = Torn
  BY <1>1 DEF LoadAll, GoodTable, NoRecords, Tables
<1>2. CASE store # Torn
  BY <1>2 DEF TypesInv, RegistrationTypeOK, LoadAll, GoodTable, Identified
<1> QED
  BY <1>1, <1>2

\* What an upsert computes is a record with the identity its request asks for.
LEMMA RecordTyped ==
  ASSUME NEW r \in Requests, NEW s \in SetupModes, NEW c \in Credentials \cup {Nil},
         c # Nil <=> NeedsCredentials(r, s)
  PROVE  Record(r, s, c) \in Records /\ Identified(Record(r, s, c))
<1>1. /\ r.topics \in TopicRequests /\ r.direct \in BOOLEAN
      /\ s.mode \in {"embedded", "external"}
  BY DEF Requests, SetupModes
<1>2. Profile(s) \in Profiles
      /\ (Profile(s) = "embedded-generated" <=> s.mode = "embedded")
      /\ (Profile(s) = "external-manual" <=> s.mode = "external")
  BY <1>1 DEF Profile, Profiles
<1> QED
  BY <1>1, <1>2 DEF Record, Records, Identified, NeedsCredentials

\* A new password counts from what the table has of its addon.
LEMMA IssueTyped ==
  ASSUME NEW r \in Requests, NEW key \in Keys, NEW old \in Records \cup {Nil}
  PROVE  Issue(r, old, key) \in Credentials
<1>1. ASSUME NEW n \in Nat \ {0}
      PROVE  NextVersion(r, n) \in Nat \ {0}
  BY <1>1 DEF NextVersion
<1>2. CASE old # Nil /\ old.credentials # Nil
  <2>1. old.credentials \in Credentials
    BY <1>2 DEF Records
  <2>2. old.credentials.version \in Nat \ {0}
    BY <2>1 DEF Credentials
  <2> QED
    BY <1>1, <1>2, <2>2 DEF Issue, Credentials
<1>3. CASE ~(old # Nil /\ old.credentials # Nil)
  BY <1>1, <1>3 DEF Issue, Credentials
<1> QED
  BY <1>2, <1>3

\* With the key the record is complete.
LEMMA WithKeyTyped ==
  ASSUME TypesInv, NEW t \in Threads, NEW key \in Keys, NEW step \in Loading,
         At(t, step), WithKey(t, key), served' = served
  PROVE  job' \in [Threads -> Jobs \cup {Nil}] /\ JobsTyped'
<1> DEFINE j == job[t]
<1>1. /\ j \in Jobs /\ TypedJob(j) /\ j.at = step
      /\ served > 0 /\ served \in 0..MaxRequests
  BY JobTyped
<1>2. /\ j.req \in Requests /\ j.setup \in SetupModes /\ GoodTable(j.data)
      /\ NeedsCredentials(j.req, j.setup) /\ j.req.addon \in Addons
  BY <1>1 DEF TypedJob, Jobs, Requests
<1>3. PICK c : c = Issue(j.req, j.data[j.req.addon], key)
  OBVIOUS
<1>4. c \in Credentials /\ c # Nil
  <2>1. j.data[j.req.addon] \in Records \cup {Nil}
    BY <1>2 DEF GoodTable, Tables
  <2> QED
    BY <1>2, <1>3, <2>1, IssueTyped, ValuesAssumption
<1>5. PICK record : record = Record(j.req, j.setup, c)
  OBVIOUS
<1>6. record \in Records /\ Identified(record)
  BY <1>2, <1>4, <1>5, RecordTyped
<1>7. PICK k : k = [j EXCEPT !.at = "save", !.record = record]
  OBVIOUS
<1>8. k \in Jobs /\ k.at = "save" /\ k.record = record /\ k.data = j.data
  BY <1>1, <1>6, <1>7 DEF Jobs, Steps
<1>9. TypedJob(k)
  BY <1>2, <1>6, <1>8 DEF TypedJob, Loading, Saving
<1>10. Put(t, k)
  BY <1>3, <1>5, <1>7 DEF WithKey, Put
<1> QED
  BY <1>1, <1>9, <1>10, JobPutTyped

\* What a step leaves alone keeps its type.
Rest == <<setup, store, seed, topicFiles, traces, cuts, saved, cutShort>>

\* A step that changes the requests only.
LEMMA JobsOnlyTyped ==
  ASSUME TypesInv, UNCHANGED Rest, served' \in 0..MaxRequests,
         job' \in [Threads -> Jobs \cup {Nil}], JobsTyped'
  PROVE  TypesInv'
BY DEF TypesInv, RegistrationTypeOK, Rest

\* A request that comes in has its type.
LEMMA ReceiveTyped ==
  ASSUME TypesInv, NEW t \in Threads, NEW r \in Requests, Receive(t, r)
  PROVE  TypesInv'
<1>1. PICK j : j = [at |-> "load", req |-> r, setup |-> setup, data |-> Nil, record |-> Nil,
                    log |-> Nil, outcome |-> "success"]
  OBVIOUS
<1>2. j \in Jobs /\ j.at = "load"
  BY <1>1 DEF TypesInv, RegistrationTypeOK, Jobs, Steps, Outcomes
<1>3. served' \in 0..MaxRequests /\ served' > 0
  BY BoundsAssumption DEF Receive, TypesInv, RegistrationTypeOK
<1>4. job' \in [Threads -> Jobs \cup {Nil}] /\ JobsTyped'
  <2>1. CASE Refused(r, setup)
    <3>1. Deny(t, j)
      BY <1>1, <2>1 DEF Receive
    <3> QED
      BY <1>2, <1>3, <3>1, DenyTyped
  <2>2. CASE ~Refused(r, setup)
    <3>1. Put(t, j)
      BY <1>1, <2>2 DEF Receive, Put
    <3>2. TypedJob(j)
      BY <1>2 DEF TypedJob, Loading, Saving, ForTopics
    <3> QED
      BY <1>3, <3>1, <3>2, JobPutTyped
  <2> QED
    BY <2>1, <2>2
<1> QED
  BY <1>3, <1>4, JobsOnlyTyped DEF Receive, Rest, files, history

\* A request that has loaded the file has a table, and a record where it needs no
\* password.
LEMMA LoadTyped ==
  ASSUME TypesInv, NEW t \in Threads, Load(t)
  PROVE  TypesInv'
<1> DEFINE r == job[t].req
           s == job[t].setup
<1>1. PICK j : j = [job[t] EXCEPT !.data = LoadAll]
  OBVIOUS
<1>2. /\ job[t] \in Jobs /\ job[t].at = "load" /\ r \in Requests /\ s \in SetupModes
      /\ served > 0 /\ served \in 0..MaxRequests /\ served' = served
  <2>1. At(t, "load") /\ served' = served
    BY DEF Load
  <2> QED
    BY <2>1, JobTyped DEF Jobs
<1>3. GoodTable(LoadAll) /\ LoadAll \in Tables
  BY LoadAllTyped DEF GoodTable
<1>4. /\ j \in Jobs /\ j.at = "load" /\ j.data = LoadAll /\ j.req = r /\ j.setup = s
  BY <1>1, <1>2, <1>3 DEF Jobs
<1>5. CASE Deny(t, j)
  <2>1. job' \in [Threads -> Jobs \cup {Nil}] /\ JobsTyped'
    BY <1>2, <1>4, <1>5, DenyTyped
  <2> QED
    BY <1>2, <2>1, JobsOnlyTyped DEF Load, Rest, files, history
<1>6. CASE NeedsCredentials(r, s) /\ job' = [job EXCEPT ![t] = [j EXCEPT !.at = "seed"]]
  <2>1. PICK k : k = [j EXCEPT !.at = "seed"]
    OBVIOUS
  <2>2. /\ k \in Jobs /\ k.at = "seed" /\ k.data = LoadAll /\ k.req = r /\ k.setup = s
    BY <1>4, <2>1, AtTyped DEF Steps
  <2>3. TypedJob(k) /\ Put(t, k)
    BY <1>3, <1>6, <2>1, <2>2 DEF TypedJob, Loading, Saving, ForTopics, Put
  <2> QED
    BY <1>2, <2>3, JobPutTyped, JobsOnlyTyped DEF Load, Rest, files, history
<1>7. CASE /\ ~NeedsCredentials(r, s)
           /\ job' = [job EXCEPT ![t] = [j EXCEPT !.at = "save", !.record = Record(r, s, Nil)]]
  <2>1. PICK record : record = Record(r, s, Nil)
    OBVIOUS
  <2>2. record \in Records /\ Identified(record)
    BY <1>2, <1>7, <2>1, RecordTyped
  <2>3. PICK k : k = [j EXCEPT !.at = "save", !.record = record]
    OBVIOUS
  <2>4. /\ k \in Jobs /\ k.at = "save" /\ k.data = LoadAll /\ k.record = record
    BY <1>4, <2>2, <2>3 DEF Jobs, Steps
  <2>5. TypedJob(k) /\ Put(t, k)
    BY <1>3, <1>7, <2>1, <2>2, <2>3, <2>4 DEF TypedJob, Loading, Saving, Put
  <2> QED
    BY <1>2, <2>5, JobPutTyped, JobsOnlyTyped DEF Load, Rest, files, history
<1> QED
  BY <1>1, <1>5, <1>6, <1>7 DEF Load

\* The seed is a key, or torn.
LEMMA SeedTyped ==
  ASSUME TypesInv, NEW t \in Threads, LookForSeed(t) \/ OpenSeed(t) \/ FillSeed(t)
  PROVE  TypesInv'
<1>1. CASE LookForSeed(t)
  <2>1. job' \in [Threads -> Jobs \cup {Nil}] /\ JobsTyped'
    <3>1. At(t, "seed") /\ "seed" \in Loading /\ "make seed" \in Loading \cap Steps
          /\ served' = served
      BY <1>1 DEF LookForSeed, Loading, Steps
    <3>2. CASE SeedExists
      <4>1. WithKey(t, seed) /\ seed \in Keys
        BY <1>1, <3>2 DEF LookForSeed, SeedExists, TypesInv, RegistrationTypeOK
      <4> QED
        BY <3>1, <4>1, WithKeyTyped
    <3>3. CASE ~SeedExists
      <4>1. Move(t, "make seed")
        BY <1>1, <3>3 DEF LookForSeed
      <4> QED
        BY <3>1, <4>1, MoveTyped DEF Saving, ForTopics
    <3> QED
      BY <3>2, <3>3
  <2> QED
    BY <1>1, <2>1, JobsOnlyTyped DEF LookForSeed, Rest, files, history, TypesInv,
                                     RegistrationTypeOK
<1>2. CASE OpenSeed(t)
  <2>1. job' \in [Threads -> Jobs \cup {Nil}] /\ JobsTyped'
    <3>1. At(t, "make seed") /\ Move(t, "fill seed") /\ served' = served
      BY <1>2 DEF OpenSeed
    <3> QED
      BY <3>1, MoveTyped DEF Loading, Saving, ForTopics, Steps
  <2> QED
    BY <1>2, <2>1 DEF OpenSeed, Keys, history, TypesInv, RegistrationTypeOK
<1>3. CASE FillSeed(t)
  <2>1. /\ At(t, "fill seed") /\ "fill seed" \in Loading /\ served' = served
        /\ WithKey(t, FreshKey(t))
    BY <1>3 DEF FillSeed, Loading
  <2>2. FreshKey(t) \in Keys
    <3>1. served > 0 /\ served \in 0..MaxRequests
      BY <2>1, JobTyped
    <3> QED
      BY <3>1, BoundsAssumption DEF FreshKey, Keys
  <2>3. job' \in [Threads -> Jobs \cup {Nil}] /\ JobsTyped'
    BY <2>1, <2>2, WithKeyTyped
  <2> QED
    BY <1>3, <2>2, <2>3 DEF FillSeed, history, TypesInv, RegistrationTypeOK
<1> QED
  BY <1>1, <1>2, <1>3

\* The file of records holds records with their identity.
LEMMA StoreTyped ==
  ASSUME TypesInv, NEW t \in Threads, OpenStore(t) \/ FillStore(t)
  PROVE  TypesInv'
<1>1. CASE OpenStore(t)
  <2>1. job' \in [Threads -> Jobs \cup {Nil}] /\ JobsTyped'
    <3>1. At(t, "save") /\ Move(t, "fill store") /\ served' = served
      BY <1>1 DEF OpenStore
    <3> QED
      BY <3>1, MoveTyped DEF Loading, Saving, ForTopics, Steps
  <2> QED
    BY <1>1, <2>1 DEF OpenStore, history, TypesInv, RegistrationTypeOK
<1>2. CASE FillStore(t)
  <2>1. At(t, "fill store") /\ Move(t, "topics") /\ served' = served
    BY <1>2 DEF FillStore
  <2>2. job' \in [Threads -> Jobs \cup {Nil}] /\ JobsTyped'
    BY <2>1, MoveTyped DEF Loading, Saving, ForTopics, Steps
  <2>3. /\ GoodTable(job[t].data) /\ job[t].record \in Records /\ Identified(job[t].record)
        /\ job[t].req.addon \in Addons
    BY <2>1, JobTyped DEF TypedJob, Saving, Jobs, Requests
  <2>4. GoodTable(WithRecord(job[t]))
    <3>1. WithRecord(job[t]) \in Tables
      BY <2>3 DEF GoodTable, Tables, WithRecord
    <3>2. \A a \in Addons : WithRecord(job[t])[a] =
            IF a = job[t].req.addon THEN job[t].record ELSE job[t].data[a]
      BY <2>3 DEF GoodTable, Tables, WithRecord
    <3> QED
      BY <2>3, <3>1, <3>2 DEF GoodTable
  <2>5. saved' \in Tables
    BY <1>2, <2>3 DEF FillStore, TypesInv, RegistrationTypeOK, Tables
  <2>6. store' = WithRecord(job[t])
    BY <1>2 DEF FillStore
  <2> QED
    BY <1>2, <2>2, <2>4, <2>5, <2>6
    DEF FillStore, TypesInv, RegistrationTypeOK, GoodTable, Identified
<1> QED
  BY <1>1, <1>2

\* A topic file holds topics, or is torn.
LEMMA TopicFileTyped ==
  ASSUME TypesInv, NEW t \in Threads, OpenTopicFile(t) \/ FillTopicFile(t)
  PROVE  TypesInv'
<1>1. PICK step \in ForTopics, next \in {"fill topics", "trace"} :
        At(t, step) /\ Move(t, next) /\ served' = served
  BY DEF OpenTopicFile, FillTopicFile, ForTopics
<1>2. job' \in [Threads -> Jobs \cup {Nil}] /\ JobsTyped'
  BY <1>1, MoveTyped DEF Loading, Saving, ForTopics, Steps
<1>3. /\ job[t].record \in Records /\ job[t].req.addon \in Addons
      /\ Profile(job[t].setup) \in Profiles
  <2>1. job[t] \in Jobs /\ TypedJob(job[t]) /\ job[t].at = step
    BY <1>1, JobTyped
  <2>2. job[t].record \in Records
    BY <2>1 DEF TypedJob
  <2>3. job[t].req.addon \in Addons
    BY <2>1 DEF Jobs, Requests
  <2> QED
    BY <2>2, <2>3 DEF Profile, Profiles
<1>4. NewTopics(job[t]) \in TopicRequests
  BY <1>3 DEF NewTopics, Records
<1>5. ASSUME NEW content \in TopicRequests \cup {Nil, Torn}, SetTopicFile(job[t], content)
      PROVE  topicFiles' \in [Addons -> [Profiles -> TopicRequests \cup {Nil, Torn}]]
  BY <1>3, <1>5 DEF SetTopicFile, TypesInv, RegistrationTypeOK
<1>6. topicFiles' \in [Addons -> [Profiles -> TopicRequests \cup {Nil, Torn}]]
  BY <1>4, <1>5 DEF OpenTopicFile, FillTopicFile
<1>7. UNCHANGED <<setup, store, seed, traces, served, cuts, saved>> /\ cutShort' \subseteq Addons
  BY DEF OpenTopicFile, FillTopicFile, history, TypesInv, RegistrationTypeOK
<1> QED
  BY <1>2, <1>6, <1>7 DEF TypesInv, RegistrationTypeOK

\* A list that is appended to and cut stays a list.
LEMMA WithEntryTyped ==
  ASSUME NEW S, NEW list \in Seq(S), NEW e \in S
  PROVE  WithEntry(list, e) \in Seq(S)
<1>1. PICK longer \in Seq(S) : longer = Append(list, e)
  <2>1. Append(list, e) \in Seq(S)
    OBVIOUS
  <2> QED
    BY <2>1
<1>2. CASE Len(longer) > MaxEntries
  <2>1. PICK first \in Nat \ {0} : first = Len(longer) - MaxEntries + 1
    BY <1>2, MaxEntriesAssumption
  <2>2. SubSeq(longer, first, Len(longer)) \in Seq(S)
    BY <1>2, <2>1, MaxEntriesAssumption
  <2> QED
    BY <1>1, <1>2, <2>1, <2>2 DEF WithEntry, KeepNewest
<1>3. CASE ~(Len(longer) > MaxEntries)
  BY <1>1, <1>3 DEF WithEntry, KeepNewest
<1> QED
  BY <1>2, <1>3

\* The list of traces is a list of outcomes, or torn.
LEMMA TraceTyped ==
  ASSUME TypesInv, NEW t \in Threads,
         ReadTraces(t) \/ OpenTraces(t) \/ FillTraces(t) \/ Answer(t)
  PROVE  TypesInv'
<1>1. CASE ReadTraces(t)
  <2>1. At(t, "trace") /\ served' = served
    BY <1>1 DEF ReadTraces
  <2>2. job[t] \in Jobs /\ served > 0 /\ served \in 0..MaxRequests
    BY <2>1, JobTyped
  <2>3. PICK log \in Seq(Entries) : log = Loaded(traces)
    <3>1. Loaded(traces) \in Seq(Entries)
      BY DEF Loaded, TypesInv, RegistrationTypeOK
    <3> QED
      BY <3>1
  <2>4. PICK k : k = [job[t] EXCEPT !.at = "save trace", !.log = log]
    OBVIOUS
  <2>5. k \in Jobs /\ k.at = "save trace" /\ k.log = log
    BY <2>2, <2>4 DEF Jobs, Steps
  <2>6. TypedJob(k)
    BY <2>5 DEF TypedJob, Loading, Saving, ForTopics
  <2>7. Put(t, k)
    BY <1>1, <2>3, <2>4 DEF ReadTraces, Put, TypesInv, RegistrationTypeOK
  <2> QED
    BY <1>1, <2>1, <2>2, <2>6, <2>7, JobPutTyped, JobsOnlyTyped
    DEF ReadTraces, Rest, files, history
<1>2. CASE OpenTraces(t)
  <2>1. job' \in [Threads -> Jobs \cup {Nil}] /\ JobsTyped'
    <3>1. At(t, "save trace") /\ Move(t, "fill trace") /\ served' = served
      BY <1>2 DEF OpenTraces
    <3> QED
      BY <3>1, MoveTyped DEF Loading, Saving, ForTopics, Steps
  <2> QED
    BY <1>2, <2>1 DEF OpenTraces, history, TypesInv, RegistrationTypeOK
<1>3. CASE FillTraces(t)
  <2>1. At(t, "fill trace") /\ Move(t, "answer") /\ served' = served
    BY <1>3 DEF FillTraces
  <2>2. job' \in [Threads -> Jobs \cup {Nil}] /\ JobsTyped'
    BY <2>1, MoveTyped DEF Loading, Saving, ForTopics, Steps
  <2>3. job[t].log \in Seq(Entries) /\ Entry(job[t]) \in Entries
    BY <2>1, JobTyped DEF TypedJob, Jobs, Requests, Entry, Entries
  <2>4. traces' \in Seq(Entries)
    BY <1>3, <2>3, WithEntryTyped DEF FillTraces
  <2> QED
    BY <1>3, <2>2, <2>4 DEF FillTraces, history, TypesInv, RegistrationTypeOK
<1>4. CASE Answer(t)
  <2>1. At(t, "answer") /\ served' = served /\ Put(t, Nil)
    BY <1>4 DEF Answer, Put
  <2>2. served \in 0..MaxRequests
    BY <2>1, JobTyped
  <2> QED
    BY <1>4, <2>1, <2>2, JobPutTyped, JobsOnlyTyped DEF Answer, Rest, files, history
<1> QED
  BY <1>1, <1>2, <1>3, <1>4

\* Requests that are cut off leave the types as they are.
LEMMA CutOffTyped ==
  ASSUME TypesInv, NEW T \in SUBSET Threads, T \subseteq Busy, NEW lost \in BOOLEAN,
         CutOff(T, lost)
  PROVE  TypesInv'
<1>1. /\ job' = [t \in Threads |-> IF t \in T THEN Nil ELSE job[t]]
      /\ cuts < MaxCuts /\ cuts' = cuts + 1
      /\ saved' = IF lost THEN NoRecords ELSE saved
      /\ cutShort' = cutShort \cup {job[t].req.addon : t \in {u \in T : TopicsDue(u)}}
      /\ UNCHANGED <<setup, store, seed, topicFiles, traces, served>>
  BY DEF CutOff, files
<1>2. job' \in [Threads -> Jobs \cup {Nil}] /\ JobsTyped'
  <2>1. \A t \in Threads : job'[t] = IF t \in T THEN Nil ELSE job[t]
    BY <1>1
  <2>2. job' \in [Threads -> Jobs \cup {Nil}]
    BY <1>1 DEF TypesInv, RegistrationTypeOK
  <2>3. \A t \in Threads : job'[t] # Nil => job'[t] = job[t]
    BY <2>1
  <2> QED
    BY <1>1, <2>2, <2>3 DEF TypesInv, JobsTyped, TypedJob, GoodTable, Identified
<1>3. cutShort' \subseteq Addons
  <2>1. ASSUME NEW t \in Threads, TopicsDue(t)
        PROVE  job[t].req.addon \in Addons
    BY <2>1, JobTyped DEF TopicsDue, Jobs, Requests
  <2> QED
    BY <1>1, <2>1 DEF TypesInv, RegistrationTypeOK
<1>4. saved' \in Tables
  BY <1>1 DEF TypesInv, RegistrationTypeOK, NoRecords, Tables
<1>5. cuts' \in 0..MaxCuts
  BY <1>1, BoundsAssumption DEF TypesInv, RegistrationTypeOK
<1> QED
  BY <1>1, <1>2, <1>3, <1>4, <1>5 DEF TypesInv, RegistrationTypeOK

\* Every step keeps the types.
LEMMA NextKeepsTypes ==
  ASSUME TypesInv, [Next]_vars
  PROVE  TypesInv'
<1>1. CASE UNCHANGED vars
  BY <1>1 DEF vars, files, history, TypesInv, RegistrationTypeOK, JobsTyped
<1>2. ASSUME NEW t \in Threads, Fail(t)
      PROVE  TypesInv'
  <2>1. t \in Busy /\ CutOff({t}, At(t, "fill store")) /\ At(t, "fill store") \in BOOLEAN
    BY <1>2 DEF Fail, At, Busy
  <2> QED
    BY <2>1, CutOffTyped
<1>3. ASSUME NEW t \in Threads, Upsert(t)
      PROVE  TypesInv'
  BY <1>2, <1>3, LoadTyped, SeedTyped, StoreTyped, TopicFileTyped, TraceTyped DEF Upsert
<1>4. CASE Crash
  <2>1. Busy \in SUBSET Threads /\ CutOff(Busy, store = Torn)
    BY <1>4 DEF Crash, Busy
  <2> QED
    BY <2>1, CutOffTyped
<1>5. CASE ChangeSetup
  <2>1. setup' \in SetupModes /\ UNCHANGED <<store, seed, topicFiles, traces, job, served, cuts,
                                             saved, cutShort>>
    BY <1>5 DEF ChangeSetup, files, history
  <2> QED
    BY <2>1 DEF TypesInv, RegistrationTypeOK, JobsTyped
<1> QED
  BY <1>1, <1>3, <1>4, <1>5, ReceiveTyped DEF Next

\* Every variable has its type, and a stored record the identity that its access
\* mode and its broker allow (upsert), however many requests are under way at once,
\* also after writes that overlapped, failed or were cut off.
THEOREM RegistrationTypes == Spec => []RegistrationTypeOK
<1>1. Init => TypesInv
  <2> SUFFICES ASSUME Init PROVE TypesInv
    OBVIOUS
  <2>1. NoRecords \in Tables /\ \A a \in Addons : NoRecords[a] = Nil
    BY DEF NoRecords, Tables
  <2>2. /\ topicFiles \in [Addons -> [Profiles -> TopicRequests \cup {Nil, Torn}]]
        /\ job \in [Threads -> Jobs \cup {Nil}] /\ traces \in Seq(Entries)
        /\ \A t \in Threads : job[t] = Nil
    BY DEF Init
  <2>3. served \in 0..MaxRequests /\ cuts \in 0..MaxCuts
    BY BoundsAssumption DEF Init
  <2> QED
    BY <2>1, <2>2, <2>3 DEF Init, TypesInv, RegistrationTypeOK, JobsTyped
<1>2. TypesInv => RegistrationTypeOK
  BY DEF TypesInv
<1> QED
  BY <1>1, <1>2, NextKeepsTypes, PTL DEF Spec
=============================================================================
