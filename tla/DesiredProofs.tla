----------------------------- MODULE DesiredProofs -----------------------------
(***************************************************************************)
(* desired.json is an atomic record, for any threads, requests, groups and *)
(* manifests: the lock makes read and write one step, wherever the write   *)
(* is a rename, and loses the file as a whole at worst where it is not.    *)
(* What is beside it agrees with it, and the groups in it are resolved:    *)
(* the depth-first visit of the manifest returns what it should, which is  *)
(* proved by recursion and induction over its descent.                     *)
(***************************************************************************)
EXTENDS DesiredState, FiniteSetTheorems, WellFoundedInduction, TLAPS

-----------------------------------------------------------------------------
(* The inductive invariant.                                                *)

IsFile(d) ==
  d = [enabled |-> d.enabled, nested |-> d.nested, legacy |-> d.legacy,
       url |-> d.url, other |-> d.other]
IsJob(j) ==
  j = Idle \/ j = [at |-> j.at, req |-> j.req, data |-> j.data, groups |-> j.groups,
                   met |-> j.met]

Steps == {"clean", "session", "open conf", "fill conf", "mount", "lock", "fill"}

Shapes ==
  /\ desired = Torn \/ IsFile(desired)
  /\ job = [t \in Threads |-> job[t]]
  /\ \A t \in Threads : IsJob(job[t])

\* Whoever writes holds the lock.  Before the write, it has what the file says;
\* during a write in place, nobody else can have made the file whole again.
Writing(t) == At(t, "write") \/ At(t, "fill")
WriterHolds ==
  \A t \in Threads : Writing(t) => lock = t /\ IsFile(job[t].data)
WriterIsCurrent ==
  \A t \in Threads : At(t, "write") => job[t].data = Parsed(desired)
FillingTorn ==
  \A t \in Threads : At(t, "fill") => desired = Torn

\* Only a mount that refuses the rename leaves a torn file.
TornInPlace == desired = Torn => mount = "in place"

DesiredInv == Shapes /\ WriterHolds /\ WriterIsCurrent /\ FillingTorn /\ TornInPlace

-----------------------------------------------------------------------------
(* Shapes.                                                                 *)

\* A record with the keys of desired.json is not the torn file.
LEMMA FileIsNotTorn ==
  ASSUME NEW d, IsFile(d)
  PROVE  d # Torn
<1>1. DOMAIN d = {"enabled", "nested", "legacy", "url", "other"}
  BY DEF IsFile
<1>2. DOMAIN Torn = {"torn"}
  BY DEF Torn
<1>3. "torn" \notin {"enabled", "nested", "legacy", "url", "other"}
  OBVIOUS
<1> QED
  BY <1>1, <1>2, <1>3

\* _load_json_object always returns a record.
LEMMA ParsedIsFile ==
  ASSUME NEW d, d = Torn \/ IsFile(d)
  PROVE  IsFile(Parsed(d))
BY DEF Parsed, IsFile, EmptyFile

\* What a write leaves is a file, and differs in one field from what it read.
LEMMA MutatedIsFile ==
  ASSUME NEW j, IsFile(j.data)
  PROVE  IsFile(Mutated(j))
BY DEF IsFile, Mutated, WithGroups

\* A job in some step that is not "idle" has all its fields.
LEMMA JobMoves ==
  ASSUME NEW t \in Threads, NEW step \in Steps, Shapes, job[t].at # "idle", Move(t, step)
  PROVE  /\ job' = [u \in Threads |-> job'[u]]
         /\ job'[t] = [at |-> step, req |-> job[t].req, data |-> job[t].data,
                       groups |-> job[t].groups, met |-> job[t].met]
         /\ \A u \in Threads : u # t => job'[u] = job[u]
<1>1. job[t] # Idle
  BY DEF Idle
<1>2. job[t] = [at |-> job[t].at, req |-> job[t].req, data |-> job[t].data,
                groups |-> job[t].groups, met |-> job[t].met]
  BY <1>1 DEF Shapes, IsJob
<1>3. job' = [job EXCEPT ![t] = [job[t] EXCEPT !.at = step]]
  BY DEF Move
<1>4. [job[t] EXCEPT !.at = step]
        = [at |-> step, req |-> job[t].req, data |-> job[t].data,
           groups |-> job[t].groups, met |-> job[t].met]
  BY <1>2
<1> QED
  BY <1>3, <1>4 DEF Shapes

\* A request that ends leaves the other threads alone.
LEMMA JobEnds ==
  ASSUME NEW t \in Threads, Shapes, End(t)
  PROVE  /\ job' = [u \in Threads |-> job'[u]]
         /\ job'[t] = Idle
         /\ \A u \in Threads : u # t => job'[u] = job[u]
BY DEF End, Shapes

-----------------------------------------------------------------------------
(* Steps that do not write.                                                *)

\* Nobody comes to write, and those who write stay where they are.
Passive ==
  /\ job' = [u \in Threads |-> job'[u]]
  /\ \A u \in Threads : IsJob(job'[u])
  /\ \A u \in Threads : Writing(u)' =>
       job'[u].at = job[u].at /\ job'[u].data = job[u].data /\ (lock = u => lock' = u)

\* Such a step keeps the invariant.
LEMMA PassiveKeepsInv ==
  ASSUME DesiredInv, UNCHANGED <<mount, desired>>, Passive
  PROVE  DesiredInv'
<1>1. Shapes'
  BY DEF DesiredInv, Shapes, Passive
<1>2. \A u \in Threads : Writing(u)' => Writing(u) /\ lock' = u /\ job'[u].data = job[u].data
  BY DEF DesiredInv, Passive, Writing, At, WriterHolds
<1>3. WriterHolds'
  BY <1>2 DEF DesiredInv, WriterHolds
<1>4. \A u \in Threads : Writing(u)' =>
        job'[u].at = job[u].at /\ job'[u].data = job[u].data /\ desired' = desired
  BY DEF Passive
<1>5. WriterIsCurrent'
  <2> SUFFICES ASSUME NEW u \in Threads, At(u, "write")'
               PROVE  job'[u].data = Parsed(desired)'
    BY DEF WriterIsCurrent
  <2>1. job'[u].at = job[u].at /\ job'[u].data = job[u].data
    BY <1>4 DEF Writing
  <2>2. At(u, "write")
    BY <2>1 DEF At
  <2>3. job[u].data = Parsed(desired)
    BY <2>2 DEF DesiredInv, WriterIsCurrent
  <2> QED
    BY <2>1, <2>3
<1>6. FillingTorn'
  <2> SUFFICES ASSUME NEW u \in Threads, At(u, "fill")'
               PROVE  desired' = Torn
    BY DEF FillingTorn
  <2>1. job'[u].at = job[u].at
    BY <1>4 DEF Writing
  <2>2. At(u, "fill")
    BY <2>1 DEF At
  <2> QED
    BY <2>2 DEF DesiredInv, FillingTorn
<1> QED
  BY <1>1, <1>3, <1>5, <1>6 DEF DesiredInv, TornInPlace

\* A step of one thread that neither writes nor takes the lock, and does not
\* begin to.
LEMMA MoveIsPassive ==
  ASSUME DesiredInv, NEW t \in Threads, NEW step \in Steps, step \notin {"write", "fill"},
         job[t].at # "idle", Move(t, step), UNCHANGED lock
  PROVE  Passive
<1>1. Shapes
  BY DEF DesiredInv
<1>2. \A u \in Threads : IsJob(job'[u])
  BY <1>1, JobMoves DEF Shapes, IsJob
<1>3. job'[t].at = step
  <2>1. job'[t] = [at |-> step, req |-> job[t].req, data |-> job[t].data,
                   groups |-> job[t].groups, met |-> job[t].met]
    BY <1>1, JobMoves
  <2> QED
    BY <2>1
<1>4. \A u \in Threads : Writing(u)' => u # t
  BY <1>3 DEF Writing, At
<1> QED
  BY <1>1, <1>2, <1>4, JobMoves DEF Passive

\* So is the end of a request.
LEMMA EndIsPassive ==
  ASSUME DesiredInv, NEW t \in Threads, End(t), UNCHANGED lock
  PROVE  Passive
BY JobEnds DEF DesiredInv, Shapes, IsJob, Idle, Passive, Writing, At

\* The unlocked read of an apply is passive.
LEMMA LookIsPassive ==
  ASSUME DesiredInv, NEW t \in Threads, Look(t)
  PROVE  Passive
<1>1. CASE End(t)
  BY <1>1, EndIsPassive DEF Look
<1>2. ASSUME NEW list, job' = [job EXCEPT ![t].at = "prepare", ![t].groups = list]
      PROVE  Passive
  <2>1. job[t] # Idle
    BY DEF Look, At, Idle
  <2>2. job[t] = [at |-> job[t].at, req |-> job[t].req, data |-> job[t].data,
                  groups |-> job[t].groups, met |-> job[t].met]
    BY <2>1 DEF DesiredInv, Shapes, IsJob
  <2>3. job'[t] = [at |-> "prepare", req |-> job[t].req, data |-> job[t].data,
                   groups |-> list, met |-> job[t].met]
    BY <1>2, <2>2 DEF DesiredInv, Shapes
  <2>4. \A u \in Threads : u # t => job'[u] = job[u]
    BY <1>2 DEF DesiredInv, Shapes
  <2>5. job' = [u \in Threads |-> job'[u]]
    BY <1>2 DEF DesiredInv, Shapes
  <2>6. \A u \in Threads : IsJob(job'[u])
    BY <2>3, <2>4 DEF DesiredInv, Shapes, IsJob
  <2>7. \A u \in Threads : Writing(u)' => u # t
    BY <2>3 DEF Writing, At
  <2> QED
    BY <2>4, <2>5, <2>6, <2>7 DEF Look, Passive
<1> QED
  BY <1>1, <1>2 DEF Look

\* So is the arrival of a request.
LEMMA ReceiveIsPassive ==
  ASSUME DesiredInv, NEW t \in Threads, NEW r \in Requests, Receive(t, r)
  PROVE  Passive
<1>1. PICK j, rivals :
        /\ j = [at |-> j.at, req |-> j.req, data |-> j.data, groups |-> j.groups,
                met |-> j.met]
        /\ j.at = FirstStep[r.kind]
        /\ rivals \subseteq Busy
        /\ job' = [u \in Threads |-> IF u = t THEN j
                                    ELSE IF u \in rivals THEN [job[u] EXCEPT !.met = @ \cup {t}]
                                    ELSE job[u]]
  <2> DEFINE rivals == {u \in Busy : Kind(job[u].req) = Kind(r)}
             j == [at |-> FirstStep[r.kind], req |-> r, data |-> EmptyFile,
                   groups |-> IF r.kind = "select" THEN Resolve(manifest, r.list) ELSE <<>>,
                   met |-> rivals]
  <2>1. job' = [u \in Threads |-> IF u = t THEN j
                                ELSE IF u \in rivals THEN [job[u] EXCEPT !.met = @ \cup {t}]
                                ELSE job[u]]
    BY Zenon DEF Receive
  <2>2. /\ j = [at |-> j.at, req |-> j.req, data |-> j.data, groups |-> j.groups,
                met |-> j.met]
        /\ j.at = FirstStep[r.kind]
        /\ rivals \subseteq Busy
    OBVIOUS
  <2> HIDE DEF rivals, j
  <2> QED
    BY <2>1, <2>2, Zenon
<1> DEFINE touched(u) == [job[u] EXCEPT !.met = @ \cup {t}]
<1>2. ASSUME NEW u \in rivals
      PROVE  touched(u) = [at |-> job[u].at, req |-> job[u].req, data |-> job[u].data,
                           groups |-> job[u].groups, met |-> job[u].met \cup {t}]
  <2>1. job[u] # Idle
    BY <1>1 DEF Busy, At, Idle
  <2>2. job[u] = [at |-> job[u].at, req |-> job[u].req, data |-> job[u].data,
                  groups |-> job[u].groups, met |-> job[u].met]
    BY <1>1, <2>1 DEF DesiredInv, Shapes, IsJob, Busy
  <2> QED
    BY <2>2
<1>3. j.at \notin {"write", "fill"}
  BY <1>1 DEF FirstStep, Requests
<1> HIDE DEF touched
<1>4. /\ job'[t] = j
      /\ \A u \in Threads : u # t => job'[u] = IF u \in rivals THEN touched(u) ELSE job[u]
  BY <1>1 DEF touched
<1>5. \A u \in Threads : IsJob(job'[u])
  BY <1>1, <1>2, <1>4 DEF IsJob, DesiredInv, Shapes
<1>6. \A u \in Threads : u # t => job'[u].at = job[u].at /\ job'[u].data = job[u].data
  BY <1>2, <1>4
<1>7. \A u \in Threads : Writing(u)' => u # t
  BY <1>3, <1>4 DEF Writing, At
<1>8. job' = [u \in Threads |-> job'[u]]
  BY <1>1
<1> QED
  BY <1>5, <1>6, <1>7, <1>8 DEF Passive, Receive

\* Requests, crashes and failures cut short.
LEMMA CutOffIsPassive ==
  ASSUME DesiredInv, NEW T \in SUBSET Threads, CutOff(T)
  PROVE  Passive
<1>1. /\ job' = [u \in Threads |-> IF u \in T THEN Idle ELSE job[u]]
      /\ lock' = IF lock \in T THEN Nil ELSE lock
  BY DEF CutOff
<1>2. \A u \in Threads : IsJob(job'[u])
  BY <1>1 DEF DesiredInv, Shapes, IsJob
<1>3. \A u \in Threads : Writing(u)' => u \notin T
  BY <1>1 DEF Writing, At, Idle
<1>4. job' = [u \in Threads |-> job'[u]]
  BY <1>1
<1> QED
  BY <1>1, <1>2, <1>3, <1>4 DEF Passive

\* The steps of a thread before it has the lock.
Preparing(t) ==
  \/ Look(t) \/ Prepare(t) \/ Clean(t) \/ ReadSession(t) \/ ReadConf(t)
  \/ OpenConf(t) \/ FillConf(t) \/ CheckMount(t) \/ LockTimeout(t) \/ Fail(t)

\* All the steps a thread takes before it has the lock are passive.
LEMMA PreparingIsPassive ==
  ASSUME DesiredInv, NEW t \in Threads, Preparing(t)
  PROVE  Passive /\ UNCHANGED <<mount, desired>>
<1>1. CASE Look(t)
  BY <1>1, LookIsPassive DEF Look, setting
<1>2. CASE Prepare(t)
  <2>1. job[t].at # "idle" /\ Move(t, "clean") /\ UNCHANGED lock
    BY <1>2 DEF Prepare, At
  <2> QED
    BY <1>2, <2>1, MoveIsPassive DEF Steps, Prepare, setting
<1>3. CASE Clean(t)
  <2>1. job[t].at # "idle" /\ Move(t, "session") /\ UNCHANGED lock
    BY <1>3 DEF Clean, At
  <2> QED
    BY <1>3, <2>1, MoveIsPassive DEF Steps, Clean, setting
<1>4. CASE ReadSession(t)
  <2>1. job[t].at # "idle" /\ Move(t, "mount") /\ UNCHANGED lock
    BY <1>4 DEF ReadSession, At
  <2> QED
    BY <1>4, <2>1, MoveIsPassive DEF Steps, ReadSession, setting
<1>5. CASE ReadConf(t)
  <2>1. CASE Move(t, "open conf")
    <3>1. job[t].at # "idle" /\ UNCHANGED lock
      BY <1>5 DEF ReadConf, At
    <3> QED
      BY <1>5, <2>1, <3>1, MoveIsPassive DEF Steps, ReadConf, setting
  <2>2. CASE End(t)
    BY <1>5, <2>2, EndIsPassive DEF ReadConf, setting
  <2> QED
    BY <1>5, <2>1, <2>2 DEF ReadConf
<1>6. CASE OpenConf(t)
  <2>1. job[t].at # "idle" /\ Move(t, "fill conf") /\ UNCHANGED lock
    BY <1>6 DEF OpenConf, At
  <2> QED
    BY <1>6, <2>1, MoveIsPassive DEF Steps, OpenConf, setting
<1>7. CASE FillConf(t)
  <2>1. job[t].at # "idle" /\ Move(t, "mount") /\ UNCHANGED lock
    BY <1>7 DEF FillConf, At
  <2> QED
    BY <1>7, <2>1, MoveIsPassive DEF Steps, FillConf, setting
<1>8. CASE CheckMount(t)
  <2>1. CASE Move(t, "lock")
    <3>1. job[t].at # "idle" /\ UNCHANGED lock
      BY <1>8 DEF CheckMount, At
    <3> QED
      BY <1>8, <2>1, <3>1, MoveIsPassive DEF Steps, CheckMount, setting
  <2>2. CASE End(t)
    BY <1>8, <2>2, EndIsPassive DEF CheckMount, setting
  <2> QED
    BY <1>8, <2>1, <2>2 DEF CheckMount
<1>9. CASE LockTimeout(t)
  BY <1>9, EndIsPassive DEF LockTimeout, setting
<1>10. CASE Fail(t)
  BY <1>10, CutOffIsPassive DEF Fail, setting
<1> QED
  BY <1>1, <1>2, <1>3, <1>4, <1>5, <1>6, <1>7, <1>8, <1>9, <1>10 DEF Preparing

-----------------------------------------------------------------------------
(* Steps that write.                                                       *)

\* With the lock free, nobody writes; the thread that takes it has read the file
\* in the same step.
LEMMA AcquireKeepsInv ==
  ASSUME DesiredInv, NEW t \in Threads, AcquireAndLoad(t)
  PROVE  /\ DesiredInv'
         /\ \A u \in Threads : ~Writing(u) /\ ~At(u, "fill")'
<1>1. \A u \in Threads : ~Writing(u)
  BY NilAssumption DEF AcquireAndLoad, LockFree, DesiredInv, WriterHolds
<1>2. job[t] = [at |-> job[t].at, req |-> job[t].req, data |-> job[t].data,
                groups |-> job[t].groups, met |-> job[t].met]
  BY DEF AcquireAndLoad, At, Idle, DesiredInv, Shapes, IsJob
<1>3. job' = [job EXCEPT ![t] = [[job[t] EXCEPT !.at = "write"] EXCEPT !.data = Parsed(desired)]]
  BY DEF AcquireAndLoad, DesiredInv, Shapes
<1>4. /\ job' = [u \in Threads |-> job'[u]]
      /\ \A u \in Threads : u # t => job'[u] = job[u]
      /\ job'[t] = [[job[t] EXCEPT !.at = "write"] EXCEPT !.data = Parsed(desired)]
  BY <1>3 DEF DesiredInv, Shapes
<1>5. job'[t] = [at |-> "write", req |-> job[t].req, data |-> Parsed(desired),
                 groups |-> job[t].groups, met |-> job[t].met]
  BY <1>2, <1>4
<1>6. /\ lock' = t
      /\ desired' = desired /\ mount' = mount
  BY DEF AcquireAndLoad, setting
<1>7. \A u \in Threads : Writing(u)' => u = t
  BY <1>1, <1>4 DEF Writing, At
<1>8. Shapes'
  BY <1>4, <1>5, <1>6 DEF DesiredInv, Shapes, IsJob
<1>9. WriterHolds'
  <2>1. job'[t].data = Parsed(desired)
    BY <1>5
  <2>2. IsFile(Parsed(desired))
    BY ParsedIsFile DEF DesiredInv, Shapes
  <2> QED
    BY <1>6, <1>7, <2>1, <2>2 DEF WriterHolds
<1>10. WriterIsCurrent'
  <2> SUFFICES ASSUME NEW u \in Threads, At(u, "write")'
               PROVE  job'[u].data = Parsed(desired)'
    BY DEF WriterIsCurrent
  <2>1. u = t
    BY <1>7 DEF Writing
  <2>2. job'[t].data = Parsed(desired)
    BY <1>5
  <2> QED
    BY <1>6, <2>1, <2>2
<1>11. \A u \in Threads : ~At(u, "fill")'
  BY <1>1, <1>4, <1>5 DEF Writing, At
<1>12. FillingTorn'
  BY <1>11 DEF FillingTorn
<1>13. TornInPlace'
  BY <1>6 DEF DesiredInv, TornInPlace
<1> QED
  BY <1>1, <1>8, <1>9, <1>10, <1>11, <1>12, <1>13 DEF DesiredInv

\* Nobody else writes.
LEMMA OneWriter ==
  ASSUME DesiredInv, NEW t \in Threads, Writing(t)
  PROVE  \A u \in Threads : Writing(u) => u = t
BY DEF DesiredInv, WriterHolds

\* The write that ends a request leaves nobody writing.
LEMMA CommitKeepsInv ==
  ASSUME DesiredInv, NEW t \in Threads, Writing(t), Commit(t)
  PROVE  /\ DesiredInv'
         /\ \A u \in Threads : ~Writing(u)'
<1>1. /\ job' = [u \in Threads |-> job'[u]]
      /\ job'[t] = Idle
      /\ \A u \in Threads : u # t => job'[u] = job[u]
  BY JobEnds DEF Commit, DesiredInv
<1>2. \A u \in Threads : ~Writing(u)'
  BY <1>1, OneWriter DEF Writing, At, Idle
<1>3. IsFile(desired') /\ mount' = mount
  BY MutatedIsFile DEF Commit, DesiredInv, WriterHolds, setting
<1>4. Shapes'
  BY <1>1, <1>3 DEF DesiredInv, Shapes, IsJob
<1>5. TornInPlace'
  BY <1>3, FileIsNotTorn DEF TornInPlace
<1>6. WriterHolds' /\ WriterIsCurrent' /\ FillingTorn'
  BY <1>2 DEF WriterHolds, WriterIsCurrent, FillingTorn, Writing
<1> QED
  BY <1>2, <1>4, <1>5, <1>6 DEF DesiredInv

\* The truncation of the file, by the one thread that writes.
LEMMA TruncateKeepsInv ==
  ASSUME DesiredInv, NEW t \in Threads, Truncate(t)
  PROVE  /\ DesiredInv'
         /\ At(t, "fill")' /\ job'[t].data = job[t].data
         /\ \A u \in Threads : ~At(u, "fill")
<1>1. job[t].at # "idle" /\ Writing(t)
  BY DEF Truncate, At, Writing
<1>2. /\ job' = [u \in Threads |-> job'[u]]
      /\ job'[t] = [at |-> "fill", req |-> job[t].req, data |-> job[t].data,
                    groups |-> job[t].groups, met |-> job[t].met]
      /\ \A u \in Threads : u # t => job'[u] = job[u]
  <2>1. Shapes /\ Move(t, "fill")
    BY DEF Truncate, DesiredInv
  <2> QED
    BY <1>1, <2>1, JobMoves DEF Steps
<1>3. /\ At(t, "fill")' /\ ~At(t, "write")'
      /\ job'[t].data = job[t].data
  BY <1>2 DEF At
<1>4. \A u \in Threads : Writing(u)' => u = t
  BY <1>1, <1>2, OneWriter DEF Writing, At
<1>5. lock' = lock /\ mount' = mount /\ mount = "in place" /\ desired' = Torn
  BY DEF Truncate, InPlace, setting
<1>6. Shapes'
  BY <1>2, <1>5 DEF DesiredInv, Shapes, IsJob
<1>7. WriterHolds'
  BY <1>1, <1>3, <1>4, <1>5 DEF DesiredInv, WriterHolds
<1>8. WriterIsCurrent' /\ FillingTorn' /\ TornInPlace'
  BY <1>3, <1>4, <1>5 DEF WriterIsCurrent, FillingTorn, TornInPlace, Writing
<1>9. \A u \in Threads : ~At(u, "fill")
  BY <1>1, OneWriter DEF Truncate, Writing, At
<1> QED
  BY <1>3, <1>6, <1>7, <1>8, <1>9 DEF DesiredInv
-----------------------------------------------------------------------------
(* The invariant.                                                          *)

\* The invariant holds at the start.
LEMMA InitEstablishes ==
  ASSUME Init
  PROVE  DesiredInv
<1>1. PICK groups : FirstSelection(groups)
  BY DEF Init
<1>2. desired = [enabled |-> groups, nested |-> groups, legacy |-> groups,
                 url |-> Nil, other |-> TRUE]
  BY <1>1 DEF FirstSelection, FirstFile, EmptyFile
<1>3. IsFile(desired)
  BY <1>2 DEF IsFile
<1>4. desired # Torn
  BY <1>3, FileIsNotTorn
<1>5. job = [t \in Threads |-> Idle]
  BY DEF Init
<1>6. \A t \in Threads : job[t] = Idle /\ ~Writing(t)
  BY <1>5 DEF Writing, At, Idle
<1>7. Shapes
  BY <1>3, <1>5, <1>6 DEF Shapes, IsJob
<1> QED
  BY <1>4, <1>6, <1>7
     DEF DesiredInv, WriterHolds, WriterIsCurrent, FillingTorn, TornInPlace, Writing

\* Every step either is passive and leaves the file alone, takes the lock, or writes.
LEMMA EveryStep ==
  ASSUME DesiredInv, Next
  PROVE  \/ Passive /\ UNCHANGED <<mount, desired>>
         \/ \E t \in Threads : AcquireAndLoad(t) \/ Truncate(t) \/ (Writing(t) /\ Commit(t))
<1>1. ASSUME NEW t \in Threads, NEW r \in Requests, Receive(t, r)
      PROVE  Passive /\ UNCHANGED <<mount, desired>>
  BY <1>1, ReceiveIsPassive DEF Receive, setting
<1>2. ASSUME NEW t \in Threads, Serve(t)
      PROVE  \/ Preparing(t) \/ AcquireAndLoad(t) \/ Truncate(t)
             \/ (Writing(t) /\ Commit(t))
  BY <1>2 DEF Serve, Preparing, Replace, Fill, Writing
<1>3. CASE Crash
  <2>1. Busy \in SUBSET Threads
    BY DEF Busy
  <2> QED
    BY <1>3, <2>1, CutOffIsPassive DEF Crash, setting
<1>4. CASE Supervisor
  <2>1. UNCHANGED <<job, lock, desired, mount>>
    BY <1>4, Zenon DEF Supervisor, Accept, Settle, setting
  <2> QED
    BY <2>1 DEF Passive, DesiredInv, Shapes
<1> QED
  BY <1>1, <1>2, <1>3, <1>4, PreparingIsPassive, Zenon DEF Next

\* Every step keeps the invariant.
LEMMA NextKeepsInv ==
  ASSUME DesiredInv, [Next]_vars
  PROVE  DesiredInv'
<1>1. CASE Next
  BY <1>1, EveryStep, PassiveKeepsInv, AcquireKeepsInv, CommitKeepsInv, TruncateKeepsInv
<1>2. CASE UNCHANGED vars
  <2>1. UNCHANGED <<job, lock, desired, mount>>
    BY <1>2, Zenon DEF vars, setting
  <2>2. Passive
    BY <2>1 DEF Passive, DesiredInv, Shapes
  <2> QED
    BY <2>1, <2>2, PassiveKeepsInv
<1> QED
  BY <1>1, <1>2

\* At most one thread writes desired.json, it holds the lock, it changes what the
\* file says now and not an older content, and the file is torn only on a mount
\* that refuses the rename.
THEOREM DesiredInvariant == Spec => []DesiredInv
<1> QED
  BY InitEstablishes, NextKeepsInv, PTL DEF Spec

-----------------------------------------------------------------------------
(* The refinement.                                                         *)

\* What the file says, by who is writing it.
LEMMA ContentCases ==
  ASSUME DesiredInv
  PROVE  /\ desired # Torn => Content = desired
         /\ \A t \in Threads : At(t, "fill") => Content = job[t].data
         /\ (\A t \in Threads : ~At(t, "fill")) => Content = Parsed(desired)
<1>1. ASSUME NEW t \in Threads, At(t, "fill")
      PROVE  Content = job[t].data
  BY <1>1 DEF Content, DesiredInv, FillingTorn, WriterHolds, Writing
<1> QED
  BY <1>1 DEF Content, Parsed

\* A step that does not write leaves the content as it is, or it cuts off a write
\* in place and empties the file.
LEMMA PassiveKeepsContent ==
  ASSUME DesiredInv, DesiredInv', Passive, UNCHANGED <<mount, desired>>
  PROVE  Content' = Content \/ (mount = "in place" /\ Content' = EmptyFile)
<1>1. CASE desired # Torn
  BY <1>1, ContentCases DEF Content
<1>2. CASE desired = Torn
  <2>1. CASE \E t \in Threads : At(t, "fill")'
    <3>1. PICK t \in Threads : At(t, "fill")'
      BY <2>1
    <3>2. job'[t].at = job[t].at /\ job'[t].data = job[t].data /\ lock' = lock /\ lock = t
      BY <3>1 DEF Passive, Writing, At, DesiredInv, WriterHolds
    <3>3. At(t, "fill")
      BY <3>1, <3>2 DEF At
    <3>4. Content' = job'[t].data
      BY <1>2, <2>1, <3>2 DEF Content
    <3> QED
      BY <3>2, <3>3, <3>4, ContentCases
  <2>2. CASE ~ \E t \in Threads : At(t, "fill")'
    BY <1>2, <2>2 DEF Content, DesiredInv, TornInPlace
  <2> QED
    BY <2>1, <2>2
<1> QED
  BY <1>1, <1>2

\* A mutator changes what its request is about, and nothing else.
LEMMA MutatedSetsOneField ==
  ASSUME NEW j, IsFile(j.data)
  PROVE  LET old == Promised(j.data)
             new == Promised(Mutated(j))
         IN  new = [old EXCEPT ![Kind(j.req)] = new[Kind(j.req)]]
<1>1. /\ Parsed(j.data) = j.data
      /\ Parsed(Mutated(j)) = Mutated(j)
  BY FileIsNotTorn, MutatedIsFile DEF Parsed
<1>2. CASE j.req.kind = "url"
  <2>1. Mutated(j) = [enabled |-> j.data.enabled, nested |-> j.data.nested,
                      legacy |-> j.data.legacy, url |-> j.req.url, other |-> j.data.other]
    BY <1>2 DEF Mutated, IsFile
  <2>2. GroupsOf(Mutated(j)) = GroupsOf(j.data)
    BY <1>1, <2>1 DEF GroupsOf
  <2>3. Mutated(j).other = j.data.other
    BY <2>1
  <2> QED
    BY <1>2, <2>2, <2>3 DEF Promised, Kind
<1>3. CASE j.req.kind # "url"
  <2>1. Mutated(j) = [enabled |-> j.groups, nested |-> j.groups, legacy |-> j.groups,
                      url |-> j.data.url, other |-> j.data.other]
    BY <1>3 DEF Mutated, WithGroups, IsFile
  <2>2. Mutated(j).url = j.data.url /\ Mutated(j).other = j.data.other
    BY <2>1
  <2> QED
    BY <1>3, <2>2 DEF Promised, Kind
<1> QED
  BY <1>2, <1>3

\* Who takes the lock or truncates the file leaves the content as it is.
LEMMA WriterKeepsContent ==
  ASSUME DesiredInv, NEW t \in Threads, AcquireAndLoad(t) \/ Truncate(t)
  PROVE  UNCHANGED mount /\ Content' = Content
<1>1. CASE AcquireAndLoad(t)
  <2>1. UNCHANGED <<mount, desired>>
    BY <1>1 DEF AcquireAndLoad, setting
  <2>2. \A u \in Threads : ~At(u, "fill") /\ ~At(u, "fill")'
    BY <1>1, AcquireKeepsInv DEF Writing
  <2> QED
    BY <2>1, <2>2 DEF Content
<1>2. CASE Truncate(t)
  <2>1. /\ UNCHANGED mount
        /\ desired' = Torn /\ lock' = lock
        /\ At(t, "write")
    BY <1>2 DEF Truncate, setting
  <2>2. /\ At(t, "fill")' /\ job'[t].data = job[t].data
        /\ \A u \in Threads : ~At(u, "fill")
    BY <1>2, TruncateKeepsInv
  <2>3. Content = job[t].data
    BY <2>1, <2>2, ContentCases DEF DesiredInv, WriterIsCurrent
  <2>4. Content' = job'[t].data
    BY <2>1, <2>2 DEF Content, DesiredInv, WriterHolds, Writing
  <2> QED
    BY <2>1, <2>2, <2>3, <2>4
<1> QED
  BY <1>1, <1>2

\* The write that ends a request turns what the file held just before into what
\* its mutator makes of it.
LEMMA CommitContent ==
  ASSUME DesiredInv, NEW t \in Threads, Writing(t), Commit(t)
  PROVE  /\ IsFile(job[t].data)
         /\ Content = job[t].data
         /\ Content' = Mutated(job[t])
<1>1. Content = job[t].data
  <2>1. CASE At(t, "fill")
    BY <2>1, ContentCases
  <2>2. CASE At(t, "write")
    <3>1. \A u \in Threads : ~At(u, "fill")
      BY <2>2, OneWriter DEF Writing, At
    <3> QED
      BY <2>2, <3>1, ContentCases DEF DesiredInv, WriterIsCurrent
  <2> QED
    BY <2>1, <2>2 DEF Writing
<1>2. IsFile(job[t].data)
  BY DEF DesiredInv, WriterHolds
<1>3. Content' = Mutated(job[t])
  <2>1. desired' = Mutated(job[t]) /\ desired' # Torn
    BY <1>2, MutatedIsFile, FileIsNotTorn DEF Commit
  <2> QED
    BY <2>1 DEF Content
<1> QED
  BY <1>1, <1>2, <1>3

\* It sets one field of it.
LEMMA CommitSetsOneField ==
  ASSUME DesiredInv, NEW t \in Threads, Writing(t), Commit(t)
  PROVE  /\ Promised(Content)' = [Promised(Content) EXCEPT
              ![Kind(job[t].req)] = Promised(Content)'[Kind(job[t].req)]]
         /\ Kind(job[t].req) \in {"groups", "url"}
<1>1. Promised(Content)' = Promised(Mutated(job[t]))
  BY CommitContent DEF Promised, GroupsOf, Parsed, FirstNonEmpty
<1> QED
  BY <1>1, CommitContent, MutatedSetsOneField DEF Kind

\* Every step sets one field of the record, loses a fragile one, or leaves it alone.
LEMMA StepRefines ==
  ASSUME DesiredInv, [Next]_vars
  PROVE  [Record!Next]_(Record!recordVars)
<1> DEFINE rec == Promised(Content)
<1>0. DesiredInv'
  BY NextKeepsInv
<1>1. ASSUME UNCHANGED mount, Content' = Content
      PROVE  UNCHANGED Record!recordVars
  BY <1>1 DEF Record!recordVars, Promised, GroupsOf, Parsed, FirstNonEmpty
<1>2. CASE Passive /\ UNCHANGED <<mount, desired>>
  <2>1. CASE Content' = Content
    BY <1>1, <1>2, <2>1
  <2>2. CASE mount = "in place" /\ Content' = EmptyFile
    <3>1. rec' = Promised(EmptyFile)
      BY <2>2 DEF Promised, GroupsOf, Parsed, FirstNonEmpty
    <3> QED
      BY <1>2, <2>2, <3>1 DEF Record!Next, Record!Lose
  <2> QED
    BY <1>0, <1>2, <2>1, <2>2, PassiveKeepsContent
<1>3. ASSUME NEW t \in Threads, AcquireAndLoad(t) \/ Truncate(t)
      PROVE  UNCHANGED Record!recordVars
  BY <1>1, <1>3, WriterKeepsContent
<1>4. ASSUME NEW t \in Threads, Writing(t), Commit(t)
      PROVE  Record!Next
  <2>1. UNCHANGED mount
    BY <1>4 DEF Commit, setting
  <2>2. \E f \in {"groups", "url"} : rec' = [rec EXCEPT ![f] = rec'[f]]
    BY <1>4, CommitSetsOneField
  <2> QED
    BY <2>1, <2>2 DEF Record!Next, Record!Set
<1>5. CASE UNCHANGED vars
  <2>1. UNCHANGED <<job, lock, desired, mount>>
    BY <1>5, Zenon DEF vars, setting
  <2>2. Content' = Content
    BY <2>1 DEF Content, At
  <2> QED
    BY <1>1, <2>1, <2>2
<1> QED
  BY <1>2, <1>3, <1>4, <1>5, EveryStep

\* However many threads select groups, apply and change the URL at once, wait,
\* give up or die, each write of desired.json sets one field of what the file
\* holds, in one step, and nothing is ever taken back or lost beside it.
THEOREM DesiredRefinesRecord == Spec => DesiredIsAtomic
<1>1. Init => Record!Init
  BY DEF Record!Init
<1> QED
  BY <1>1, DesiredInvariant, StepRefines, PTL DEF Spec, DesiredIsAtomic, Record!Spec

-----------------------------------------------------------------------------
(* What lies beside the file.                                              *)

Kinds == {"groups", "url"}
GroupSteps == {"look", "prepare", "clean", "session", "mount", "lock", "write", "fill"}
UrlSteps == {"conf", "open conf", "fill conf", "mount", "lock", "write", "fill"}

\* A request of this kind is under way.
Serving(t, k) == ~At(t, "idle") /\ Kind(job[t].req) = k

\* It has begun to change what lies beside the file.
Late(t, k) == Serving(t, k) /\ job[t].at \notin {"look", "prepare", "conf", "open conf"}

\* Requests of one kind that are under way at once have met.
KindSteps ==
  \A t \in Threads : /\ Serving(t, "groups") => job[t].at \in GroupSteps
                     /\ Serving(t, "url") => job[t].at \in UrlSteps
Acquainted ==
  \A t, u \in Threads : \A k \in Kinds :
    Serving(t, k) /\ Serving(u, k) /\ t # u => u \in job[t].met

\* What a request has made beside the file before it writes, if it met no other.
Made(t, k) ==
  IF k = "groups" THEN ToSet(job[t].groups) \subseteq assets
  ELSE conf = IF At(t, "fill conf") THEN Torn ELSE job[t].req.url
LoneHasMade(k) == \A t \in Threads : Late(t, k) /\ job[t].met = {} => Made(t, k)

\* What lies beside the file agrees with it while no request of the kind changes it.
Agrees(k) ==
  IF k = "groups" THEN ToSet(GroupsOf(Content)) \subseteq assets ELSE Content.url = conf
Settled(k) == spoiled[k] \/ (\E t \in Threads : Late(t, k)) \/ Agrees(k)

SideInv ==
  /\ spoiled = [k \in Kinds |-> spoiled[k]] /\ \A k \in Kinds : spoiled[k] \in BOOLEAN
  /\ KindSteps /\ Acquainted
  /\ \A k \in Kinds : LoneHasMade(k) /\ Settled(k)

\* A record with the keys has the fields, and keeps what it does not change.
LEMMA ParsedFile ==
  ASSUME NEW d, IsFile(d)
  PROVE  Parsed(d) = d
BY FileIsNotTorn DEF Parsed

\* What a thread's step leaves of the requests: it goes on with its own, or those
\* of some threads end.
Goes(t, step) ==
  /\ \A u \in Threads : u # t => job'[u] = job[u]
  /\ job'[t].at = step /\ job'[t].req = job[t].req /\ job'[t].met = job[t].met
  /\ At(t, "look") \/ job'[t].groups = job[t].groups
Ends(T) == \A u \in Threads : job'[u] = IF u \in T THEN Idle ELSE job[u]

\* A move is such a step.
LEMMA MoveGoes ==
  ASSUME DesiredInv, NEW t \in Threads, NEW step \in Steps, job[t].at # "idle", Move(t, step)
  PROVE  Goes(t, step)
<1>1. /\ job'[t] = [at |-> step, req |-> job[t].req, data |-> job[t].data,
                    groups |-> job[t].groups, met |-> job[t].met]
      /\ \A u \in Threads : u # t => job'[u] = job[u]
  BY JobMoves DEF DesiredInv
<1> QED
  BY <1>1 DEF Goes

\* The end of a request ends those of one thread.
LEMMA EndEnds ==
  ASSUME DesiredInv, NEW t \in Threads, End(t)
  PROVE  Ends({t})
BY JobEnds DEF DesiredInv, Ends

\* Requests that go on keep their kind and whom they met.
LEMMA GoesKeepsJobs ==
  ASSUME SideInv, NEW t \in Threads, NEW step, job[t].at # "idle", Goes(t, step),
         step # "idle",
         step \in IF Kind(job[t].req) = "url" THEN UrlSteps ELSE GroupSteps
  PROVE  /\ KindSteps' /\ Acquainted'
         /\ \A u \in Threads, k \in Kinds : Serving(u, k)' <=> Serving(u, k)
<1>1. \A u \in Threads, k \in Kinds : Serving(u, k)' <=> Serving(u, k)
  BY DEF Goes, Serving, At
<1>2. \A u \in Threads : job'[u].met = job[u].met
  BY DEF Goes
<1>3. Acquainted'
  BY <1>1, <1>2 DEF SideInv, Acquainted
<1>4. KindSteps'
  BY <1>1 DEF SideInv, KindSteps, Goes, Serving, Kinds
<1> QED
  BY <1>1, <1>3, <1>4

\* So do those that are not ended.
LEMMA EndsKeepsJobs ==
  ASSUME SideInv, NEW T \in SUBSET Threads, Ends(T)
  PROVE  /\ KindSteps' /\ Acquainted'
         /\ \A u \in Threads, k \in Kinds :
              Serving(u, k)' <=> Serving(u, k) /\ u \notin T
<1>1. \A u \in Threads, k \in Kinds : Serving(u, k)' <=> Serving(u, k) /\ u \notin T
  BY DEF Ends, Serving, At, Idle
<1>2. \A u \in Threads \ T : job'[u] = job[u]
  BY DEF Ends
<1> QED
  BY <1>1, <1>2 DEF SideInv, Acquainted, KindSteps, Kinds

\* Spoil marks some kinds and clears none.
LEMMA SpoilMarks ==
  ASSUME SideInv, NEW K, Spoil(K)
  PROVE  /\ spoiled' = [k \in Kinds |-> spoiled'[k]]
         /\ \A k \in Kinds : /\ spoiled'[k] \in BOOLEAN
                             /\ spoiled'[k] <=> spoiled[k] \/ k \in K
<1>1. DOMAIN spoiled = Kinds
  BY DEF SideInv
<1>2. spoiled' = [k \in Kinds |-> spoiled[k] \/ k \in K]
  BY <1>1 DEF Spoil
<1> QED
  BY <1>2

-----------------------------------------------------------------------------
(* The content, step by step.                                              *)

\* While a writer in place stays, and none comes or goes, the content stands.
LEMMA FillersStay ==
  ASSUME DesiredInv, DesiredInv', UNCHANGED desired,
         \A u \in Threads : At(u, "fill") <=> At(u, "fill")',
         \A u \in Threads : At(u, "fill") => job'[u].data = job[u].data
  PROVE  Content' = Content
<1>1. CASE desired # Torn
  BY <1>1 DEF Content
<1>2. ASSUME desired = Torn, NEW u \in Threads, At(u, "fill")
      PROVE  Content' = Content
  <2>1. Content = job[u].data
    BY <1>2, ContentCases
  <2>2. At(u, "fill")' /\ lock' = u
    BY <1>2 DEF DesiredInv, WriterHolds, Writing
  <2>3. Content' = job'[u].data
    BY <1>2, <2>2 DEF Content
  <2> QED
    BY <1>2, <2>1, <2>3
<1>3. CASE desired = Torn /\ \A u \in Threads : ~At(u, "fill")
  BY <1>3 DEF Content
<1> QED
  BY <1>1, <1>2, <1>3

\* A thread that goes on and does not write leaves the content alone.
LEMMA GoesKeepsContent ==
  ASSUME DesiredInv, DesiredInv', UNCHANGED desired, NEW t \in Threads, NEW step,
         Goes(t, step), ~At(t, "fill"), step # "fill"
  PROVE  Content' = Content
<1>1. \A u \in Threads : At(u, "fill") <=> At(u, "fill")'
  BY DEF Goes, At
<1>2. \A u \in Threads : At(u, "fill") => job'[u].data = job[u].data
  BY DEF Goes
<1> QED
  BY <1>1, <1>2, FillersStay

\* So does the end of threads that are not writing in place.
LEMMA EndsKeepsContent ==
  ASSUME DesiredInv, DesiredInv', UNCHANGED desired, NEW T \in SUBSET Threads,
         Ends(T), \A u \in T : ~At(u, "fill")
  PROVE  Content' = Content
<1>1. \A u \in Threads : At(u, "fill") <=> At(u, "fill")'
  BY DEF Ends, At, Idle
<1>2. \A u \in Threads : At(u, "fill") => job'[u].data = job[u].data
  BY DEF Ends
<1> QED
  BY <1>1, <1>2, FillersStay

-----------------------------------------------------------------------------
(* Steps that leave what lies beside the file alone.                       *)

Early == {"look", "prepare", "conf", "open conf"}

\* A kind that no request begins or ends to change in this step stays as it is.
LEMMA KindStands ==
  ASSUME SideInv, NEW k \in Kinds,
         \A u \in Threads : Late(u, k)' =>
           /\ Late(u, k)
           /\ job'[u].met = {} => job[u].met = {}
           /\ job'[u].req = job[u].req /\ job'[u].groups = job[u].groups
           /\ At(u, "fill conf")' <=> At(u, "fill conf"),
         \A u \in Threads : Late(u, k) => Late(u, k)' \/ spoiled'[k],
         spoiled'[k] \/ (~spoiled[k] /\ Content' = Content),
         k = "groups" => assets \subseteq assets',
         k = "url" => conf' = conf
  PROVE  LoneHasMade(k)' /\ Settled(k)'
<1>1. LoneHasMade(k) /\ Settled(k)
  BY DEF SideInv
<1>2. LoneHasMade(k)'
  <2> SUFFICES ASSUME NEW u \in Threads, Late(u, k)', job'[u].met = {}
               PROVE  Made(u, k)'
    BY DEF LoneHasMade
  <2>1. Made(u, k)
    BY <1>1 DEF LoneHasMade
  <2> QED
    BY <2>1 DEF Made, Kinds
<1>3. Settled(k)'
  <2>1. CASE spoiled'[k]
    BY <2>1 DEF Settled
  <2>2. CASE ~spoiled'[k] /\ \E u \in Threads : Late(u, k)
    BY <2>2 DEF Settled
  <2>3. CASE ~spoiled'[k] /\ ~ \E u \in Threads : Late(u, k)
    <3>1. Agrees(k) /\ Content' = Content
      BY <1>1, <2>3 DEF Settled
    <3>2. Agrees(k)'
      BY <3>1 DEF Agrees, Kinds, GroupsOf, Parsed, FirstNonEmpty
    <3> QED
      BY <3>2 DEF Settled
  <2> QED
    BY <2>1, <2>2, <2>3
<1> QED
  BY <1>2, <1>3

\* A request that goes on without coming to change anything.
LEMMA QuietKeepsSide ==
  ASSUME SideInv, NEW t \in Threads, NEW step, job[t].at # "idle", Goes(t, step),
         step # "idle", step \in Early <=> job[t].at \in Early,
         step # "fill conf", job[t].at # "fill conf",
         step \in IF Kind(job[t].req) = "url" THEN UrlSteps ELSE GroupSteps,
         UNCHANGED <<conf, assets, spoiled>>, Content' = Content
  PROVE  SideInv'
<1>1. KindSteps' /\ Acquainted'
  BY GoesKeepsJobs
<1>2. \A u \in Threads, k \in Kinds : Late(u, k)' <=> Late(u, k)
  BY GoesKeepsJobs DEF Late, Early, Goes
<1>3. ASSUME NEW k \in Kinds, NEW u \in Threads, Late(u, k)
      PROVE  /\ job'[u].met = job[u].met /\ job'[u].req = job[u].req
             /\ job'[u].groups = job[u].groups
             /\ At(u, "fill conf")' <=> At(u, "fill conf")
  BY <1>3 DEF Late, Goes, At
<1>4. ASSUME NEW k \in Kinds
      PROVE  LoneHasMade(k)' /\ Settled(k)'
  <2>1. CASE spoiled[k]
    BY <1>2, <1>3, <2>1, KindStands
  <2>2. CASE ~spoiled[k]
    BY <1>2, <1>3, <2>2, KindStands
  <2> QED
    BY <2>1, <2>2
<1> QED
  BY <1>1, <1>4 DEF SideInv

\* Requests that end without a write leave a mark if they had begun to change
\* something.  Half-removed assets are of a request that had begun.
LEMMA EndsKeepsSide ==
  ASSUME SideInv, DesiredInv, DesiredInv', NEW T \in SUBSET Threads, NEW K, Ends(T),
         Spoil(K), UNCHANGED <<conf, desired>>,
         \A t \in T, k \in Kinds : Late(t, k) => k \in K,
         (\E t \in T : At(t, "fill")) => Kinds \subseteq K,
         assets \subseteq assets' \/ \E t \in T : Late(t, "groups")
  PROVE  SideInv'
<1>1. KindSteps' /\ Acquainted'
  BY EndsKeepsJobs
<1>2. /\ spoiled' = [k \in Kinds |-> spoiled'[k]] /\ \A k \in Kinds : spoiled'[k] \in BOOLEAN
      /\ \A k \in Kinds : spoiled'[k] <=> spoiled[k] \/ k \in K
  BY SpoilMarks
<1>3. ASSUME NEW k \in Kinds, NEW u \in Threads
      PROVE  /\ Late(u, k)' <=> Late(u, k) /\ u \notin T
             /\ Late(u, k)' => job'[u] = job[u]
  BY EndsKeepsJobs DEF Late, Ends
<1>4. ASSUME NEW k \in Kinds
      PROVE  LoneHasMade(k)' /\ Settled(k)'
  <2>1. ~spoiled'[k] => ~spoiled[k] /\ Content' = Content
    BY <1>2, EndsKeepsContent DEF Kinds
  <2>2. \A u \in Threads : Late(u, k) => Late(u, k)' \/ spoiled'[k]
    BY <1>2, <1>3
  <2>3. CASE k = "url" \/ assets \subseteq assets'
    BY <1>3, <2>1, <2>2, <2>3, KindStands DEF At
  <2>4. CASE k = "groups" /\ \E t \in T : Late(t, "groups")
    <3>1. PICK t \in T : Late(t, "groups")
      BY <2>4
    <3>2. spoiled'[k]
      BY <1>2, <2>4, <3>1
    <3>3. ASSUME NEW u \in Threads, Late(u, k)', job'[u].met = {}
          PROVE  FALSE
      <4>1. Serving(u, k) /\ u \notin T /\ job[u].met = {}
        BY <1>3, <3>3 DEF Late
      <4> QED
        BY <2>4, <3>1, <4>1 DEF SideInv, Acquainted, Late
    <3> QED
      BY <3>2, <3>3 DEF LoneHasMade, Settled
  <2> QED
    BY <2>3, <2>4 DEF Kinds
<1> QED
  BY <1>1, <1>2, <1>4 DEF SideInv

-----------------------------------------------------------------------------
(* Steps that change it.                                                   *)

\* A request that has met no other is alone with its kind.
LEMMA LoneIsAlone ==
  ASSUME SideInv, NEW k \in Kinds, NEW t \in Threads, Serving(t, k),
         NEW u \in Threads, u # t, Late(u, k)
  PROVE  job[u].met # {}
BY DEF SideInv, Acquainted, Late

\* What a request that goes on has changed in its kind is its own business: it is
\* late now, and late ones of its kind that changed nothing now have met it.
LEMMA ChangeKeepsSide ==
  ASSUME SideInv, NEW k \in Kinds, NEW t \in Threads, NEW step, Serving(t, k),
         Goes(t, step), step \notin Early, step # "idle",
         step \in IF Kind(job[t].req) = "url" THEN UrlSteps ELSE GroupSteps,
         UNCHANGED spoiled, Content' = Content,
         job[t].met = {} => Made(t, k)',
         k = "groups" => conf' = conf,
         k = "url" => assets' = assets
  PROVE  SideInv'
<1>1. /\ KindSteps' /\ Acquainted'
      /\ \A u \in Threads, l \in Kinds : Serving(u, l)' <=> Serving(u, l)
  BY GoesKeepsJobs DEF Serving, At
<1>2. Late(t, k)'
  BY <1>1 DEF Late, Goes, Early
<1>3. \A u \in Threads : u # t => job'[u] = job[u]
  BY DEF Goes
<1>4. ASSUME NEW u \in Threads, Late(u, k)', job'[u].met = {}
      PROVE  Made(u, k)'
  <2>1. CASE u = t
    BY <1>4, <2>1 DEF Goes
  <2>2. CASE u # t
    <3>1. Late(u, k) /\ job[u].met = {}
      BY <1>1, <1>3, <1>4, <2>2 DEF Late
    <3> QED
      BY <2>2, <3>1, LoneIsAlone
  <2> QED
    BY <2>1, <2>2
<1>5. LoneHasMade(k)' /\ Settled(k)'
  BY <1>2, <1>4 DEF LoneHasMade, Settled
<1>6. ASSUME NEW l \in Kinds, l # k
      PROVE  LoneHasMade(l)' /\ Settled(l)'
  <2>1. \A u \in Threads : Serving(u, l) => u # t
    BY <1>6 DEF Serving
  <2>2. \A u \in Threads : Late(u, l)' <=> Late(u, l)
    BY <1>1, <1>3, <2>1 DEF Late
  <2>3. \A u \in Threads : Late(u, l) => job'[u] = job[u]
    BY <1>3, <2>1 DEF Late
  <2>4. l = "groups" => assets' = assets
    BY <1>6 DEF Kinds
  <2>5. l = "url" => conf' = conf
    BY <1>6 DEF Kinds
  <2>6. CASE spoiled[l]
    BY <2>2, <2>3, <2>4, <2>5, <2>6, KindStands DEF At
  <2>7. CASE ~spoiled[l]
    BY <2>2, <2>3, <2>4, <2>5, <2>7, KindStands DEF At
  <2> QED
    BY <2>6, <2>7
<1> QED
  BY <1>1, <1>5, <1>6 DEF SideInv

\* The arrival of a request: those of its kind that are under way learn of it, and
\* it of them.
LEMMA ReceiveJobs ==
  ASSUME DesiredInv, NEW t \in Threads, NEW r \in Requests, Receive(t, r)
  PROVE  /\ job'[t].at = FirstStep[r.kind] /\ job'[t].req = r
         /\ \A u \in Threads : ~At(u, "idle") /\ Kind(job[u].req) = Kind(r) => u \in job'[t].met
         /\ \A u \in Threads : u # t =>
              /\ job'[u].at = job[u].at
              /\ ~At(u, "idle") =>
                   /\ job'[u].req = job[u].req /\ job'[u].groups = job[u].groups
                   /\ job'[u].data = job[u].data
                   /\ job[u].met \subseteq job'[u].met
                   /\ Kind(job[u].req) = Kind(r) => t \in job'[u].met
<1> DEFINE rivals == {u \in Busy : Kind(job[u].req) = Kind(r)}
           j == [at |-> FirstStep[r.kind], req |-> r, data |-> EmptyFile,
                 groups |-> IF r.kind = "select" THEN Resolve(manifest, r.list) ELSE <<>>,
                 met |-> rivals]
           touched(u) == [job[u] EXCEPT !.met = @ \cup {t}]
<1>1. job' = [u \in Threads |-> IF u = t THEN j
                              ELSE IF u \in rivals THEN touched(u) ELSE job[u]]
  BY Zenon DEF Receive
<1>2. j.at = FirstStep[r.kind] /\ j.req = r /\ j.met = rivals
  OBVIOUS
<1>3. ASSUME NEW u \in Threads, ~At(u, "idle")
      PROVE  touched(u) = [at |-> job[u].at, req |-> job[u].req, data |-> job[u].data,
                           groups |-> job[u].groups, met |-> job[u].met \cup {t}]
  <2>1. job[u] = [at |-> job[u].at, req |-> job[u].req, data |-> job[u].data,
                  groups |-> job[u].groups, met |-> job[u].met]
    BY <1>3 DEF At, Idle, DesiredInv, Shapes, IsJob
  <2> QED
    BY <2>1
<1>4. \A u \in Threads : u \in rivals <=> ~At(u, "idle") /\ Kind(job[u].req) = Kind(r)
  BY DEF Busy
<1> HIDE DEF j, rivals, touched
<1>5. /\ job'[t] = j
      /\ \A u \in Threads : u # t => job'[u] = IF u \in rivals THEN touched(u) ELSE job[u]
  BY <1>1
<1>6. ASSUME NEW u \in Threads, u # t
      PROVE  /\ job'[u].at = job[u].at
             /\ ~At(u, "idle") =>
                  /\ job'[u].req = job[u].req /\ job'[u].groups = job[u].groups
                  /\ job'[u].data = job[u].data
                  /\ job[u].met \subseteq job'[u].met
                  /\ Kind(job[u].req) = Kind(r) => t \in job'[u].met
  <2>1. CASE u \in rivals
    <3>1. job'[u] = [at |-> job[u].at, req |-> job[u].req, data |-> job[u].data,
                     groups |-> job[u].groups, met |-> job[u].met \cup {t}]
      BY <1>3, <1>4, <1>5, <1>6, <2>1
    <3> QED
      BY <3>1
  <2>2. CASE u \notin rivals
    BY <1>4, <1>5, <1>6, <2>2
  <2> QED
    BY <2>1, <2>2
<1> QED
  BY <1>2, <1>4, <1>5, <1>6

\* A request that arrives has not begun to change anything.
LEMMA ReceiveKeepsSide ==
  ASSUME SideInv, DesiredInv, DesiredInv', NEW t \in Threads, NEW r \in Requests,
         Receive(t, r)
  PROVE  SideInv'
<1>1. At(t, "idle") /\ UNCHANGED <<desired, conf, assets, spoiled>>
  BY DEF Receive, history
<1>2. /\ job'[t].at = FirstStep[r.kind] /\ job'[t].req = r
      /\ job'[t].at \in IF Kind(r) = "url" THEN {"conf"} ELSE {"look", "prepare"}
  BY ReceiveJobs DEF FirstStep, Requests, Kind
<1>3. ASSUME NEW u \in Threads, u # t, NEW k \in Kinds
      PROVE  /\ Serving(u, k)' <=> Serving(u, k)
             /\ Late(u, k)' <=> Late(u, k)
  BY <1>3, ReceiveJobs DEF Serving, Late, At
<1>4. \A k \in Kinds : ~Late(t, k)' /\ ~Late(t, k)
  BY <1>1, <1>2 DEF Late, Serving, At
<1>5. KindSteps'
  <2>1. /\ Serving(t, "groups")' => job'[t].at \in GroupSteps
        /\ Serving(t, "url")' => job'[t].at \in UrlSteps
    BY <1>2 DEF Serving, GroupSteps, UrlSteps
  <2>2. ASSUME NEW u \in Threads, u # t
        PROVE  /\ Serving(u, "groups")' => job'[u].at \in GroupSteps
               /\ Serving(u, "url")' => job'[u].at \in UrlSteps
    BY <1>3, <2>2, ReceiveJobs DEF SideInv, KindSteps, Kinds
  <2> QED
    BY <2>1, <2>2 DEF KindSteps
<1>6. Acquainted'
  <2> SUFFICES ASSUME NEW u \in Threads, NEW v \in Threads, NEW k \in Kinds,
                      Serving(u, k)', Serving(v, k)', u # v
               PROVE  v \in job'[u].met
    BY DEF Acquainted
  <2>1. CASE u = t
    <3>1. Serving(v, k) /\ k = Kind(r)
      BY <1>2, <1>3, <2>1 DEF Serving
    <3> QED
      BY <2>1, <3>1, ReceiveJobs DEF Serving
  <2>2. CASE v = t
    <3>1. Serving(u, k) /\ k = Kind(r)
      BY <1>2, <1>3, <2>2 DEF Serving
    <3> QED
      BY <2>2, <3>1, ReceiveJobs DEF Serving
  <2>3. CASE u # t /\ v # t
    <3>1. Serving(u, k) /\ Serving(v, k)
      BY <1>3, <2>3
    <3>2. v \in job[u].met
      BY <3>1 DEF SideInv, Acquainted
    <3> QED
      BY <2>3, <3>1, <3>2, ReceiveJobs DEF Serving
  <2> QED
    BY <2>1, <2>2, <2>3
<1>7. Content' = Content
  <2>1. \A u \in Threads : At(u, "fill") <=> At(u, "fill")'
    BY <1>1, <1>2, ReceiveJobs DEF At
  <2>2. \A u \in Threads : At(u, "fill") => job'[u].data = job[u].data
    BY <1>1, ReceiveJobs DEF At
  <2> QED
    BY <1>1, <2>1, <2>2, FillersStay
<1>8. ASSUME NEW k \in Kinds
      PROVE  LoneHasMade(k)' /\ Settled(k)'
  <2>1. ASSUME NEW u \in Threads, Late(u, k)'
        PROVE  /\ Late(u, k)
               /\ job'[u].met = {} => job[u].met = {}
               /\ job'[u].req = job[u].req /\ job'[u].groups = job[u].groups
               /\ At(u, "fill conf")' <=> At(u, "fill conf")
    <3>1. u # t /\ Late(u, k) /\ ~At(u, "idle")
      BY <1>3, <1>4, <2>1 DEF Late, Serving
    <3> QED
      BY <3>1, ReceiveJobs DEF At
  <2>2. \A u \in Threads : Late(u, k) => Late(u, k)'
    BY <1>3, <1>4
  <2>3. CASE spoiled[k]
    BY <1>1, <2>1, <2>2, <2>3, KindStands
  <2>4. CASE ~spoiled[k]
    BY <1>1, <1>7, <2>1, <2>2, <2>4, KindStands
  <2> QED
    BY <2>3, <2>4
<1> QED
  BY <1>1, <1>5, <1>6, <1>8 DEF SideInv

\* The write that ends a request leaves a mark if it has met another of its kind;
\* otherwise what it has made is what it writes.
LEMMA CommitKeepsSide ==
  ASSUME SideInv, DesiredInv, NEW t \in Threads, Writing(t), Commit(t)
  PROVE  SideInv'
<1>1. PICK k \in Kinds, l \in Kinds :
        k = Kind(job[t].req) /\ l # k /\ \A x \in Kinds : x = k \/ x = l
  BY DEF Kind, Kinds
<1>2. /\ Ends({t}) /\ UNCHANGED <<conf, assets>>
      /\ spoiled' = [spoiled EXCEPT ![k] = job[t].met # {}]
  BY <1>1, EndEnds DEF Commit
<1>3. /\ spoiled' = [x \in Kinds |-> spoiled'[x]] /\ \A x \in Kinds : spoiled'[x] \in BOOLEAN
      /\ spoiled'[k] <=> job[t].met # {}
      /\ spoiled'[l] = spoiled[l]
  BY <1>1, <1>2 DEF SideInv
<1>4. KindSteps' /\ Acquainted'
  BY <1>2, EndsKeepsJobs
<1>5. ASSUME NEW x \in Kinds, NEW u \in Threads
      PROVE  /\ Late(u, x)' <=> Late(u, x) /\ u # t
             /\ Late(u, x)' => job'[u] = job[u]
  BY <1>2, EndsKeepsJobs DEF Late, Ends
<1>6. Late(t, k) /\ ~Late(t, l)
  BY <1>1 DEF Writing, At, Late, Serving
<1>7. \A x \in Kinds : LoneHasMade(x)'
  <2> SUFFICES ASSUME NEW x \in Kinds, NEW u \in Threads, Late(u, x)', job'[u].met = {}
               PROVE  Made(u, x)'
    BY DEF LoneHasMade
  <2>1. Late(u, x) /\ job'[u] = job[u]
    BY <1>5
  <2>2. Made(u, x)
    BY <2>1 DEF SideInv, LoneHasMade
  <2> QED
    BY <1>2, <2>1, <2>2 DEF Made, At
<1>8. Settled(k)'
  <2> SUFFICES ASSUME ~spoiled'[k] PROVE Agrees(k)'
    BY DEF Settled
  <2>1. Made(t, k) /\ ~At(t, "fill conf")
    BY <1>1, <1>3, <1>6 DEF SideInv, LoneHasMade, Writing, At
  <2>2. IsFile(job[t].data) /\ Content' = Mutated(job[t])
    BY CommitContent
  <2>3. Parsed(Mutated(job[t])) = Mutated(job[t])
    BY <2>2, MutatedIsFile, ParsedFile
  <2>4. CASE job[t].req.kind = "url"
    <3>1. Mutated(job[t]).url = job[t].req.url
      BY <2>2, <2>4 DEF Mutated, IsFile
    <3> QED
      BY <1>2, <2>1, <2>2, <1>1, <2>4, <3>1 DEF Agrees, Made, Kind
  <2>5. CASE job[t].req.kind # "url"
    <3>1. Mutated(job[t]) = [enabled |-> job[t].groups, nested |-> job[t].groups,
                             legacy |-> job[t].groups, url |-> job[t].data.url,
                             other |-> job[t].data.other]
      BY <2>2, <2>5 DEF Mutated, WithGroups, IsFile
    <3>2. GroupsOf(Mutated(job[t])) = job[t].groups
      BY <2>3, <3>1 DEF GroupsOf, FirstNonEmpty
    <3>3. GroupsOf(Content)' = job[t].groups
      BY <2>2, <3>2 DEF GroupsOf, Parsed, FirstNonEmpty
    <3> QED
      BY <1>2, <2>1, <1>1, <2>5, <3>3 DEF Agrees, Made, Kind
  <2> QED
    BY <2>4, <2>5
<1>9. Settled(l)'
  <2>1. CASE spoiled[l]
    BY <1>3, <2>1 DEF Settled
  <2>2. CASE \E u \in Threads : Late(u, l)
    BY <1>1, <1>5, <1>6, <2>2 DEF Settled
  <2>3. CASE ~spoiled[l] /\ ~ \E u \in Threads : Late(u, l)
    <3>1. Agrees(l)
      BY <1>1, <2>3 DEF SideInv, Settled
    <3>2. /\ IsFile(job[t].data) /\ Content = job[t].data /\ Content' = Mutated(job[t])
      BY CommitContent
    <3>3. Promised(Mutated(job[t])) =
            [Promised(Content) EXCEPT ![k] = Promised(Mutated(job[t]))[k]]
      BY <1>1, <3>2, MutatedSetsOneField
    <3>4. /\ GroupsOf(Mutated(job[t])) = Promised(Mutated(job[t])).groups
          /\ Mutated(job[t]).url = Promised(Mutated(job[t])).url
          /\ GroupsOf(Content) = Promised(Content).groups
          /\ Content.url = Promised(Content).url
          /\ DOMAIN Promised(Content) = {"groups", "url", "other"}
      BY DEF Promised
    <3>5. CASE l = "groups"
      <4>1. GroupsOf(Mutated(job[t])) = GroupsOf(Content)
        BY <1>1, <3>3, <3>4, <3>5
      <4>2. GroupsOf(Content)' = GroupsOf(Content)
        BY <3>2, <4>1 DEF GroupsOf, Parsed, FirstNonEmpty
      <4> QED
        BY <1>2, <3>1, <3>5, <4>2 DEF Agrees, Settled
    <3>6. CASE l = "url"
      <4>1. Mutated(job[t]).url = Content.url
        BY <1>1, <3>3, <3>4, <3>6
      <4> QED
        BY <1>2, <3>1, <3>2, <3>6, <4>1 DEF Agrees, Settled
    <3> QED
      BY <1>1, <3>5, <3>6 DEF Kinds
  <2> QED
    BY <2>1, <2>2, <2>3
<1> QED
  BY <1>1, <1>3, <1>4, <1>7, <1>8, <1>9 DEF SideInv

-----------------------------------------------------------------------------
(* Each step of a thread.                                                  *)

\* A request that is cut off leaves a mark wherever it has begun.
LEMMA CutOffMarks ==
  ASSUME SideInv, DesiredInv, NEW T \in SUBSET Threads, CutOff(T)
  PROVE  /\ Ends(T)
         /\ \E K : /\ Spoil(K)
                   /\ \A t \in T, k \in Kinds : Late(t, k) => k \in K
                   /\ (\E t \in T : At(t, "fill")) => Kinds \subseteq K
<1> DEFINE K == (UNION {HalfDone(t) : t \in T})
                \cup IF \E t \in T : At(t, "fill") THEN {"groups", "url"} ELSE {}
<1>1. Ends(T) /\ Spoil(K)
  BY DEF CutOff, Ends
<1>2. ASSUME NEW t \in T, NEW k \in Kinds, Late(t, k)
      PROVE  k \in HalfDone(t)
  BY <1>2 DEF HalfDone, Late, Serving, Kinds
<1>3. \A t \in T, k \in Kinds : Late(t, k) => k \in K
  BY <1>2
<1>4. ASSUME \E t \in T : At(t, "fill")
      PROVE  Kinds \subseteq K
  <2> SUFFICES ASSUME NEW k \in Kinds
               PROVE  k \in IF \E t \in T : At(t, "fill") THEN {"groups", "url"} ELSE {}
    OBVIOUS
  <2> QED
    BY <1>4 DEF Kinds
<1> QED
  BY <1>1, <1>3, <1>4

\* The steps before the lock that change nothing.
LEMMA WaitingKeepsSide ==
  ASSUME SideInv, DesiredInv, DesiredInv', NEW t \in Threads,
         Look(t) \/ ReadSession(t) \/ ReadConf(t) \/ CheckMount(t) \/ LockTimeout(t)
  PROVE  SideInv'
<1>1. /\ job[t].at # "idle" /\ UNCHANGED <<desired, conf, assets>>
      /\ Serving(t, Kind(job[t].req)) /\ Kind(job[t].req) \in Kinds
      /\ ~At(t, "fill") /\ ~At(t, "fill conf")
  BY DEF Look, ReadSession, ReadConf, CheckMount, LockTimeout, At, Serving, Kind, Kinds
<1>2. /\ Kind(job[t].req) = "groups" => job[t].at \in GroupSteps
      /\ Kind(job[t].req) = "url" => job[t].at \in UrlSteps
      /\ Kind(job[t].req) = "groups" \/ Kind(job[t].req) = "url"
  BY <1>1 DEF SideInv, KindSteps, Kinds
<1>3. ASSUME NEW step, Goes(t, step), step # "idle", step # "fill", step # "fill conf",
             step \in Early <=> job[t].at \in Early, UNCHANGED spoiled,
             step \in IF Kind(job[t].req) = "url" THEN UrlSteps ELSE GroupSteps
      PROVE  SideInv'
  <2>1. Content' = Content
    BY <1>1, <1>3, GoesKeepsContent
  <2> QED
    BY <1>1, <1>3, <2>1, QuietKeepsSide DEF At
<1>4. ASSUME End(t), NEW K, Spoil(K), \A k \in Kinds : Late(t, k) => k \in K
      PROVE  SideInv'
  BY <1>1, <1>4, EndEnds, EndsKeepsSide
<1>5. CASE Look(t)
  <2>1. UNCHANGED spoiled /\ job[t].at = "look" /\ job[t].at \in Early
    BY <1>5 DEF Look, history, At, Early
  <2>2. CASE End(t)
    <3>1. Spoil({})
      BY <2>1 DEF Spoil, SideInv
    <3>2. \A k \in Kinds : ~Late(t, k)
      BY <2>1 DEF Late
    <3> QED
      BY <1>4, <2>2, <3>1, <3>2
  <2>3. ASSUME NEW list, job' = [job EXCEPT ![t].at = "prepare", ![t].groups = list]
        PROVE  SideInv'
    <3>0. job[t] # Idle
      BY <2>1 DEF Idle
    <3>1. job[t] = [at |-> job[t].at, req |-> job[t].req, data |-> job[t].data,
                    groups |-> job[t].groups, met |-> job[t].met]
      BY <3>0 DEF DesiredInv, Shapes, IsJob
    <3>2. /\ job'[t] = [at |-> "prepare", req |-> job[t].req, data |-> job[t].data,
                        groups |-> list, met |-> job[t].met]
          /\ \A u \in Threads : u # t => job'[u] = job[u]
      BY <2>3, <3>1 DEF DesiredInv, Shapes
    <3>3. Goes(t, "prepare")
      BY <2>1, <3>2 DEF Goes, At
    <3>4. Kind(job[t].req) # "url"
      BY <1>2, <2>1 DEF UrlSteps
    <3> QED
      BY <1>3, <2>1, <3>3, <3>4 DEF GroupSteps, Early
  <2> QED
    BY <1>5, <2>2, <2>3 DEF Look
<1>6. CASE ReadSession(t)
  <2>1. Goes(t, "mount") /\ UNCHANGED spoiled /\ job[t].at = "session"
    BY <1>1, <1>6, MoveGoes DEF ReadSession, Steps, history, At
  <2> QED
    BY <1>3, <2>1 DEF Early, GroupSteps, UrlSteps
<1>7. CASE ReadConf(t)
  <2>1. UNCHANGED spoiled /\ job[t].at = "conf" /\ job[t].at \in Early
    BY <1>7 DEF ReadConf, history, At, Early
  <2>2. CASE End(t)
    <3>1. Spoil({})
      BY <2>1 DEF Spoil, SideInv
    <3>2. \A k \in Kinds : ~Late(t, k)
      BY <2>1 DEF Late
    <3> QED
      BY <1>4, <2>2, <3>1, <3>2
  <2>3. CASE Move(t, "open conf")
    <3>1. Goes(t, "open conf")
      BY <1>1, <2>3, MoveGoes DEF Steps
    <3>2. Kind(job[t].req) = "url"
      BY <1>2, <2>1 DEF GroupSteps
    <3> QED
      BY <1>3, <2>1, <3>1, <3>2 DEF Early, UrlSteps
  <2> QED
    BY <1>7, <2>2, <2>3 DEF ReadConf
<1>8. CASE CheckMount(t)
  <2>1. job[t].at = "mount"
    BY <1>8 DEF CheckMount, At
  <2>2. CASE End(t) /\ Spoil({Kind(job[t].req)})
    BY <1>4, <2>2 DEF Late, Serving
  <2>3. CASE Move(t, "lock") /\ UNCHANGED spoiled
    <3>1. Goes(t, "lock")
      BY <1>1, <2>3, MoveGoes DEF Steps
    <3> QED
      BY <1>3, <2>1, <2>3, <3>1 DEF Early, GroupSteps, UrlSteps
  <2> QED
    BY <1>8, <2>2, <2>3 DEF CheckMount
<1>9. CASE LockTimeout(t)
  <2>1. End(t) /\ Spoil({Kind(job[t].req)})
    BY <1>9 DEF LockTimeout
  <2> QED
    BY <1>4, <2>1 DEF Late, Serving
<1> QED
  BY <1>5, <1>6, <1>7, <1>8, <1>9

\* Taking the lock, and truncating the file.
LEMMA WriterKeepsSide ==
  ASSUME SideInv, DesiredInv, NEW t \in Threads, AcquireAndLoad(t) \/ Truncate(t)
  PROVE  SideInv'
<1>1. Content' = Content
  BY WriterKeepsContent
<1>2. /\ job[t].at \in {"lock", "write"} /\ job[t].at # "idle"
      /\ UNCHANGED <<conf, assets, spoiled>>
  BY DEF AcquireAndLoad, Truncate, At, history
<1>3. \E step \in {"write", "fill"} : Goes(t, step)
  <2>1. CASE Truncate(t)
    BY <1>2, <2>1, MoveGoes DEF Truncate, Steps
  <2>2. CASE AcquireAndLoad(t)
    <3>1. job[t] = [at |-> job[t].at, req |-> job[t].req, data |-> job[t].data,
                    groups |-> job[t].groups, met |-> job[t].met]
      BY <1>2 DEF DesiredInv, Shapes, IsJob, Idle
    <3>2. job' = [job EXCEPT ![t] = [[job[t] EXCEPT !.at = "write"]
                                        EXCEPT !.data = Parsed(desired)]]
      BY <2>2 DEF AcquireAndLoad, DesiredInv, Shapes
    <3>3. /\ \A u \in Threads : u # t => job'[u] = job[u]
          /\ job'[t] = [[job[t] EXCEPT !.at = "write"] EXCEPT !.data = Parsed(desired)]
      BY <3>2 DEF DesiredInv, Shapes
    <3>4. job'[t] = [at |-> "write", req |-> job[t].req, data |-> Parsed(desired),
                     groups |-> job[t].groups, met |-> job[t].met]
      BY <3>1, <3>3
    <3> QED
      BY <3>3, <3>4 DEF Goes
  <2> QED
    BY <2>1, <2>2
<1> QED
  BY <1>1, <1>2, <1>3, QuietKeepsSide DEF Early, GroupSteps, UrlSteps

\* Making and removing the assets, and writing config.json.
LEMMA MakingKeepsSide ==
  ASSUME SideInv, DesiredInv, DesiredInv', NEW t \in Threads,
         Prepare(t) \/ Clean(t) \/ OpenConf(t) \/ FillConf(t)
  PROVE  SideInv'
<1>1. /\ job[t].at # "idle" /\ UNCHANGED <<desired, spoiled>>
      /\ ~At(t, "fill") /\ ~At(t, "look")
      /\ Serving(t, Kind(job[t].req))
      /\ Kind(job[t].req) = "groups" \/ Kind(job[t].req) = "url"
  BY DEF Prepare, Clean, OpenConf, FillConf, At, Serving, Kind, history
<1>2. /\ Kind(job[t].req) = "groups" => job[t].at \in GroupSteps
      /\ Kind(job[t].req) = "url" => job[t].at \in UrlSteps
  BY <1>1 DEF SideInv, KindSteps
<1>3. ASSUME job[t].met = {}, job[t].at \notin Early
      PROVE  Made(t, Kind(job[t].req))
  BY <1>1, <1>3 DEF SideInv, LoneHasMade, Late, Early, Kinds
<1>4. CASE Prepare(t)
  <2>1. Goes(t, "clean") /\ job[t].at = "prepare" /\ Serving(t, "groups")
    BY <1>1, <1>2, <1>4, MoveGoes DEF Prepare, Steps, At, UrlSteps
  <2>2. Content' = Content
    BY <1>1, <2>1, GoesKeepsContent
  <2>3. Made(t, "groups")' /\ conf' = conf
    BY <1>1, <1>4, <2>1 DEF Made, Prepare, Goes
  <2> QED
    BY <1>1, <2>1, <2>2, <2>3, ChangeKeepsSide DEF Kinds, Early, GroupSteps, Serving
<1>5. CASE Clean(t)
  <2>1. Goes(t, "session") /\ job[t].at = "clean" /\ Serving(t, "groups")
    BY <1>1, <1>2, <1>5, MoveGoes DEF Clean, Steps, At, UrlSteps
  <2>2. Content' = Content
    BY <1>1, <2>1, GoesKeepsContent
  <2>3. job[t].met = {} => Made(t, "groups")
    BY <1>3, <2>1 DEF Early, Serving
  <2>4. (job[t].met = {} => Made(t, "groups")') /\ conf' = conf
    BY <1>1, <1>5, <2>1, <2>3 DEF Made, Clean, Goes
  <2> QED
    BY <1>1, <2>1, <2>2, <2>4, ChangeKeepsSide DEF Kinds, Early, GroupSteps, Serving
<1>6. CASE OpenConf(t)
  <2>1. Goes(t, "fill conf") /\ job[t].at = "open conf" /\ Serving(t, "url")
    BY <1>1, <1>2, <1>6, MoveGoes DEF OpenConf, Steps, At, GroupSteps
  <2>2. Content' = Content
    BY <1>1, <2>1, GoesKeepsContent
  <2>3. Made(t, "url")' /\ assets' = assets
    BY <1>6, <2>1 DEF Made, OpenConf, Goes, At
  <2> QED
    BY <1>1, <2>1, <2>2, <2>3, ChangeKeepsSide DEF Kinds, Early, UrlSteps, Serving
<1>7. CASE FillConf(t)
  <2>1. Goes(t, "mount") /\ job[t].at = "fill conf" /\ Serving(t, "url")
    BY <1>1, <1>2, <1>7, MoveGoes DEF FillConf, Steps, At, GroupSteps
  <2>2. Content' = Content
    BY <1>1, <2>1, GoesKeepsContent
  <2>3. job[t].met = {} => conf = Torn
    BY <1>3, <2>1 DEF Made, At, Early, Serving
  <2>4. (job[t].met = {} => Made(t, "url")') /\ assets' = assets
    BY <1>7, <2>1, <2>3 DEF Made, FillConf, Goes, At
  <2> QED
    BY <1>1, <2>1, <2>2, <2>4, ChangeKeepsSide DEF Kinds, Early, UrlSteps, Serving
<1> QED
  BY <1>4, <1>5, <1>6, <1>7

\* Failures and crashes.
LEMMA FaultKeepsSide ==
  ASSUME SideInv, DesiredInv, DesiredInv', Crash \/ \E t \in Threads : Fail(t)
  PROVE  SideInv'
<1>1. CASE Crash
  <2>1. Busy \in SUBSET Threads /\ CutOff(Busy) /\ UNCHANGED <<conf, desired, assets>>
    BY <1>1 DEF Busy, Crash
  <2> QED
    BY <2>1, CutOffMarks, EndsKeepsSide
<1>2. ASSUME NEW t \in Threads, Fail(t)
      PROVE  SideInv'
  <2>1. CutOff({t}) /\ UNCHANGED <<conf, desired>>
    BY <1>2 DEF Fail
  <2>2. assets \subseteq assets' \/ At(t, "clean")
    BY <1>2 DEF Fail
  <2>3. At(t, "clean") => Late(t, "groups")
    <3>1. Kind(job[t].req) \in Kinds /\ (At(t, "clean") => Serving(t, Kind(job[t].req)))
      BY DEF Kind, Kinds, Serving, At
    <3>2. At(t, "clean") => Kind(job[t].req) = "groups"
      BY <3>1 DEF SideInv, KindSteps, UrlSteps, At, Kinds
    <3> QED
      BY <3>1, <3>2 DEF Late, At
  <2> QED
    BY <2>1, <2>2, <2>3, CutOffMarks, EndsKeepsSide
<1> QED
  BY <1>1, <1>2

\* The supervisor reads, and writes a file of its own.
LEMMA OutsideKeepsSide ==
  ASSUME SideInv, UNCHANGED <<desired, lock, conf, assets, job, spoiled>>
  PROVE  SideInv'
<1>1. Content' = Content
  BY DEF Content, At
<1>2. \A t \in Threads, k \in Kinds : /\ Late(t, k)' <=> Late(t, k)
                                      /\ Serving(t, k)' <=> Serving(t, k)
  BY DEF Late, Serving, At
<1>3. ASSUME NEW k \in Kinds
      PROVE  LoneHasMade(k)' /\ Settled(k)'
  <2>1. CASE spoiled[k]
    BY <1>2, <2>1, KindStands DEF At
  <2>2. CASE ~spoiled[k]
    BY <1>1, <1>2, <2>2, KindStands DEF At
  <2> QED
    BY <2>1, <2>2
<1>4. KindSteps' /\ Acquainted'
  BY <1>2 DEF SideInv, KindSteps, Acquainted, Kinds
<1> QED
  BY <1>3, <1>4 DEF SideInv

\* Every step keeps what lies beside the file in step with it.
LEMMA NextKeepsSide ==
  ASSUME SideInv, DesiredInv, DesiredInv', [Next]_vars
  PROVE  SideInv'
<1>1. ASSUME NEW t \in Threads, Serve(t)
      PROVE  SideInv'
  <2>1. CASE Replace(t) \/ Fill(t)
    BY <2>1, CommitKeepsSide DEF Replace, Fill, Writing
  <2> QED
    BY <1>1, <2>1, WaitingKeepsSide, WriterKeepsSide, MakingKeepsSide, FaultKeepsSide
    DEF Serve
<1>2. CASE Supervisor
  BY <1>2, OutsideKeepsSide DEF Supervisor, Accept, Settle, history
<1>3. CASE UNCHANGED vars
  BY <1>3, OutsideKeepsSide DEF vars, history
<1> QED
  BY <1>1, <1>2, <1>3, ReceiveKeepsSide, FaultKeepsSide DEF Next

\* At the start the supervisor has followed the first selection.
LEMMA InitSide ==
  ASSUME Init
  PROVE  SideInv
<1>1. PICK groups : FirstSelection(groups)
  BY DEF Init
<1>2. desired = [enabled |-> groups, nested |-> groups, legacy |-> groups,
                 url |-> Nil, other |-> TRUE]
  BY <1>1 DEF FirstSelection, FirstFile, EmptyFile
<1>3. IsFile(desired) /\ desired # Torn
  BY <1>2, FileIsNotTorn DEF IsFile
<1>4. GroupsOf(desired) = groups /\ desired.url = Nil
  BY <1>2, <1>3, ParsedFile DEF GroupsOf, FirstNonEmpty
<1>5. \A k \in Kinds : Agrees(k)
  BY <1>1, <1>3, <1>4 DEF Agrees, Content, FirstSelection, Init
<1>6. \A t \in Threads, k \in Kinds : ~Serving(t, k) /\ ~Late(t, k)
  BY DEF Init, Serving, Late, At, Idle
<1>7. spoiled = [k \in Kinds |-> spoiled[k]] /\ \A k \in Kinds : spoiled[k] \in BOOLEAN
  BY DEF Init, Kinds
<1> QED
  BY <1>5, <1>6, <1>7 DEF SideInv, KindSteps, Acquainted, LoneHasMade, Settled, Kinds

\* Between requests the assets of every desired group are there, and desired.json
\* and config.json name the same Core, whatever requests ran at once, unless the
\* last change of that kind was cut short, refused, or met another of its kind.
THEOREM SideFollows == Spec => []SideStateFollows
<1>1. DesiredInv /\ SideInv => SideStateFollows
  <2> SUFFICES ASSUME DesiredInv, SideInv PROVE SideStateFollows
    OBVIOUS
  <2>1. \A t \in Threads, k \in Kinds :
          Late(t, k) => t \in Busy /\ Kind(job[t].req) = k /\ job[t].at \notin {"look", "prepare"}
    BY DEF Late, Serving, Busy
  <2>2. \A k \in Kinds : ~spoiled[k] /\ ~Rewriting(k) => Agrees(k)
    BY <2>1 DEF SideInv, Settled, Rewriting
  <2>3. ~spoiled["groups"] /\ ~Rewriting("groups") => ToSet(GroupsOf(desired)) \subseteq assets
    <3>1. CASE desired # Torn
      BY <2>2, <3>1 DEF Agrees, Content, Kinds
    <3>2. CASE desired = Torn
      <4>1. GroupsOf(desired) = <<>>
        BY <3>2 DEF GroupsOf, Parsed, EmptyFile, FirstNonEmpty
      <4>2. ToSet(<<>>) = {}
        BY DEF ToSet
      <4> QED
        BY <4>1, <4>2
    <3> QED
      BY <3>1, <3>2
  <2>4. ~spoiled["url"] /\ ~Rewriting("url") /\ desired # Torn => desired.url = conf
    BY <2>2 DEF Agrees, Content, Kinds
  <2> QED
    BY <2>3, <2>4 DEF SideStateFollows
<1>2. Init => SideInv
  BY InitSide
<1>3. SideInv /\ DesiredInv /\ DesiredInv' /\ [Next]_vars => SideInv'
  BY NextKeepsSide
<1> QED
  BY <1>1, <1>2, <1>3, DesiredInvariant, PTL DEF Spec

-----------------------------------------------------------------------------
(* Recursion.  A recursive definition is a choice of some function that    *)
(* follows it; that there is one is proved here, from a descent: every set *)
(* of points has a least one, so the least that fails refutes itself.      *)

\* What lies below a point lies below whatever that point is below, and
\* every set of points has a least one.
IsDescent(D, Below) ==
  /\ Below \in [D -> SUBSET D]
  /\ \A x \in D : \A y \in Below[x] : Below[y] \subseteq Below[x]
  /\ \A T \in SUBSET D : T # {} => \E x \in T : Below[x] \cap T = {}

\* A step of a recursion computes the value at a point from those below it.
IsStep(D, R, Below, Phi) ==
  /\ Phi \in [[D -> R] -> [D -> R]]
  /\ \A f, g \in [D -> R], x \in D :
       (\A y \in Below[x] : f[y] = g[y]) => Phi[f][x] = Phi[g][x]

\* The functions that follow the recursion up to a point.
Attempts(D, R, Below, Phi, x) ==
  {f \in [D -> R] : \A y \in Below[x] \cup {x} : f[y] = Phi[f][y]}

\* Two attempts at a point agree up to it.
LEMMA AttemptsAgree ==
  ASSUME NEW D, NEW R, NEW Below, NEW Phi, IsDescent(D, Below), IsStep(D, R, Below, Phi),
         NEW x \in D, NEW f \in Attempts(D, R, Below, Phi, x),
         NEW g \in Attempts(D, R, Below, Phi, x), NEW z \in Below[x] \cup {x}
  PROVE  f[z] = g[z]
<1> DEFINE T == {y \in Below[x] \cup {x} : f[y] # g[y]}
<1>1. SUFFICES ASSUME T # {} PROVE FALSE
  OBVIOUS
<1>2. T \in SUBSET D
  BY DEF IsDescent
<1>3. PICK y \in T : Below[y] \cap T = {}
  BY <1>1, <1>2 DEF IsDescent
<1>4. Below[y] \subseteq Below[x]
  BY <1>3 DEF IsDescent
<1>5. \A w \in Below[y] : f[w] = g[w]
  BY <1>3, <1>4
<1>6. Phi[f][y] = Phi[g][y]
  BY <1>2, <1>3, <1>5 DEF IsStep, Attempts
<1> QED
  BY <1>3, <1>6 DEF Attempts

\* An attempt at a point is one at every point below it.
LEMMA AttemptBelow ==
  ASSUME NEW D, NEW R, NEW Below, NEW Phi, IsDescent(D, Below),
         NEW x \in D, NEW y \in Below[x]
  PROVE  Attempts(D, R, Below, Phi, x) \subseteq Attempts(D, R, Below, Phi, y)
<1>1. Below[y] \cup {y} \subseteq Below[x] \cup {x}
  BY DEF IsDescent
<1> QED
  BY <1>1 DEF Attempts

\* A function that takes, up to a point, the value of an attempt at each point
\* follows the recursion there.
LEMMA Gluing ==
  ASSUME NEW D, NEW R, NEW Below, NEW Phi, IsDescent(D, Below), IsStep(D, R, Below, Phi),
         NEW f \in [D -> R], NEW x \in D, NEW Good \in SUBSET D,
         x \in Good, Below[x] \subseteq Good,
         \A y \in Good : \E a \in Attempts(D, R, Below, Phi, y) : f[y] = a[y]
  PROVE  f[x] = Phi[f][x]
<1>1. PICK a \in Attempts(D, R, Below, Phi, x) : f[x] = a[x]
  OBVIOUS
<1>2. a \in [D -> R] /\ a[x] = Phi[a][x]
  BY DEF Attempts
<1>3. ASSUME NEW y \in Below[x]
      PROVE  f[y] = a[y]
  <2>1. y \in D
    BY DEF IsDescent
  <2>2. PICK b \in Attempts(D, R, Below, Phi, y) : f[y] = b[y]
    BY <1>3
  <2>3. a \in Attempts(D, R, Below, Phi, y)
    BY <1>3, AttemptBelow
  <2> QED
    BY <2>1, <2>2, <2>3, AttemptsAgree
<1>4. Phi[f][x] = Phi[a][x]
  BY <1>2, <1>3 DEF IsStep
<1> QED
  BY <1>1, <1>2, <1>4

\* There is an attempt at every point.
LEMMA AttemptExists ==
  ASSUME NEW D, NEW R, NEW r \in R, NEW Below, NEW Phi,
         IsDescent(D, Below), IsStep(D, R, Below, Phi), NEW x \in D
  PROVE  Attempts(D, R, Below, Phi, x) # {}
<1> DEFINE Here(y) == Attempts(D, R, Below, Phi, y)
           T == {y \in D : Here(y) = {}}
<1>1. SUFFICES ASSUME T # {} PROVE FALSE
  OBVIOUS
<1>2. PICK w \in T : Below[w] \cap T = {}
  BY <1>1, Zenon DEF IsDescent
<1>3. w \in D /\ Below[w] \subseteq D /\ w \notin Below[w] /\ Here(w) = {}
  BY <1>2 DEF IsDescent
<1>4. \A y \in Below[w] : Here(y) # {}
  BY <1>2, <1>3
<1> DEFINE c(y) == CHOOSE a \in Here(y) : TRUE
           f == [y \in D |-> IF y \in Below[w] THEN c(y)[y] ELSE r]
           h == [f EXCEPT ![w] = Phi[f][w]]
<1> HIDE DEF Here
<1>5. \A y \in Below[w] : c(y) \in Here(y)
  BY <1>4
<1>6. \A y \in D : Here(y) \subseteq [D -> R]
  BY DEF Here, Attempts
<1>7. f \in [D -> R]
  BY <1>3, <1>5, <1>6
<1>8. \A y \in Below[w] : f[y] = Phi[f][y]
  <2> TAKE y \in Below[w]
  <2>1. y \in D /\ Below[y] \subseteq Below[w]
    BY <1>3 DEF IsDescent
  <2>2. \A v \in Below[w] : \E a \in Attempts(D, R, Below, Phi, v) : f[v] = a[v]
    BY <1>3, <1>5 DEF Here
  <2> HIDE DEF f
  <2> QED
    BY <1>3, <1>7, <2>1, <2>2, Gluing
<1> HIDE DEF f
<1>9. Phi[f][w] \in R
  BY <1>3, <1>7 DEF IsStep
<1>10. h \in [D -> R] /\ h[w] = Phi[f][w] /\ \A y \in Below[w] : h[y] = f[y]
  BY <1>3, <1>7, <1>9
<1> HIDE DEF h
<1>11. \A y \in Below[w] \cup {w} : Phi[h][y] = Phi[f][y]
  <2> TAKE y \in Below[w] \cup {w}
  <2>1. y \in D /\ Below[y] \subseteq Below[w]
    BY <1>3 DEF IsDescent
  <2> QED
    BY <1>7, <1>10, <2>1 DEF IsStep
<1>12. h \in Here(w)
  BY <1>8, <1>10, <1>11 DEF Here, Attempts
<1> QED
  BY <1>3, <1>12

\* A recursion whose every step looks only below defines a function.
LEMMA RecursionExists ==
  ASSUME NEW D, NEW R, NEW r \in R, NEW Below, NEW Phi,
         IsDescent(D, Below), IsStep(D, R, Below, Phi)
  PROVE  \E f \in [D -> R] : \A x \in D : f[x] = Phi[f][x]
<1> DEFINE Here(y) == Attempts(D, R, Below, Phi, y)
           c(y) == CHOOSE a \in Here(y) : TRUE
           f == [y \in D |-> c(y)[y]]
<1>1. \A y \in D : Here(y) # {}
  BY AttemptExists
<1>2. \A y \in D : Here(y) \subseteq [D -> R]
  BY DEF Attempts
<1> HIDE DEF Here
<1>3. \A y \in D : c(y) \in Here(y)
  BY <1>1
<1>4. f \in [D -> R]
  BY <1>2, <1>3
<1>5. \A y \in D : \E a \in Attempts(D, R, Below, Phi, y) : f[y] = a[y]
  BY <1>3 DEF Here
<1> HIDE DEF f
<1>6. \A x \in D : Below[x] \subseteq D
  BY DEF IsDescent
<1>7. \A x \in D : f[x] = Phi[f][x]
  BY <1>4, <1>5, <1>6, Gluing
<1> QED
  BY <1>4, <1>7

\* Every set of numbers that is not empty has a least one.
LEMMA LeastNumber ==
  ASSUME NEW T \in SUBSET Nat, T # {}
  PROVE  \E n \in T : \A k \in T : n <= k
<1>1. PICK Lt : Lt = OpToRel(<, Nat)
  BY Zenon
<1>2. IsWellFoundedOn(Lt, Nat)
  BY <1>1, NatLessThanWellFounded, Zenon
<1>3. Lt = {ss \in Nat \X Nat : ss[1] < ss[2]}
  BY <1>1, Zenon DEF OpToRel
<1>4. PICK n \in T : \A k \in T : ~(<<k, n>> \in Lt)
  BY <1>2, WFMin
<1>5. \A k \in T : ~(k < n)
  <2> TAKE k \in T
  <2>1. <<k, n>> \in Nat \X Nat /\ <<k, n>>[1] = k /\ <<k, n>>[2] = n
    OBVIOUS
  <2>2. k < n => <<k, n>> \in Lt
    BY <2>1, <1>3, Zenon
  <2> QED
    BY <1>4, <2>2
<1> QED
  BY <1>5

\* Points compared by a number, and by a second one where the first is the same.
Lower(D, a, b) ==
  [x \in D |-> {y \in D : a[y] < a[x] \/ (a[y] = a[x] /\ b[y] < b[x])}]

\* That order is a descent.
LEMMA LowerIsDescent ==
  ASSUME NEW D, NEW a \in [D -> Nat], NEW b \in [D -> Nat]
  PROVE  IsDescent(D, Lower(D, a, b))
<1> DEFINE Below == Lower(D, a, b)
<1>1. Below \in [D -> SUBSET D]
  BY DEF Lower
<1>2. \A x \in D, y \in D : y \in Below[x] <=> a[y] < a[x] \/ (a[y] = a[x] /\ b[y] < b[x])
  BY DEF Lower
<1> HIDE DEF Below
<1>3. ASSUME NEW x \in D, NEW y \in Below[x]
      PROVE  Below[y] \subseteq Below[x]
  <2> SUFFICES ASSUME NEW z \in Below[y] PROVE z \in Below[x]
    OBVIOUS
  <2>1. y \in D /\ z \in D
    BY <1>1
  <2> QED
    BY <1>2, <2>1
<1>4. ASSUME NEW T \in SUBSET D, T # {}
      PROVE  \E x \in T : Below[x] \cap T = {}
  <2> DEFINE As == {a[x] : x \in T}
  <2>1. As \in SUBSET Nat /\ As # {}
    BY <1>4
  <2>2. PICK n \in As : \A k \in As : n <= k
    BY <2>1, LeastNumber
  <2> DEFINE Bs == {b[x] : x \in {y \in T : a[y] = n}}
  <2>3. Bs \in SUBSET Nat /\ Bs # {}
    BY <2>2
  <2>4. PICK p \in Bs : \A k \in Bs : p <= k
    BY <2>3, LeastNumber
  <2>5. PICK x \in T : a[x] = n /\ b[x] = p
    BY <2>4
  <2>6. \A y \in T : ~(a[y] < a[x])
    BY <2>1, <2>2, <2>5
  <2>7. \A y \in T : ~(a[y] = a[x] /\ b[y] < b[x])
    BY <2>3, <2>4, <2>5
  <2>8. x \in T /\ \A y \in T : y \notin Below[x]
    BY <1>2, <2>5, <2>6, <2>7
  <2> QED
    BY <2>8
<1>5. \A T \in SUBSET D : T # {} => \E x \in T : Below[x] \cap T = {}
  BY <1>4
<1> QED
  BY <1>1, <1>3, <1>5 DEF IsDescent, Below

-----------------------------------------------------------------------------
(* The visit of Resolve.                                                   *)

\* One step of the visit, with visit for the rest.
Step(m, visit, v) ==
  IF v.todo = <<>> THEN v.done
  ELSE LET g == Head(v.todo)
           after == IF Skipped(m, g, v) THEN v.done
                    ELSE Append(visit[Visit(m.deps[g], v.visiting \cup {g}, v.done)], g)
       IN visit[Visit(Tail(v.todo), v.visiting, after)]
IsVisit(m, f) == f = [v \in Visits |-> Step(m, f, v)]

\* A visit goes on with more groups under way, or with fewer to visit.
Rank(m) ==
  Lower(Visits, [v \in Visits |-> Cardinality(m.supported \ v.visiting)],
        [v \in Visits |-> Len(v.todo)])

\* So every set of visits has one of least rank.
LEMMA RankIsDescent ==
  ASSUME NEW m \in Manifests
  PROVE  IsDescent(Visits, Rank(m))
<1>1. ASSUME NEW v \in Visits
      PROVE  Cardinality(m.supported \ v.visiting) \in Nat
  <2>1. IsFiniteSet(m.supported \ v.visiting)
    BY ManifestAssumption, FS_Subset
  <2> QED
    BY <2>1, FS_CardinalityType
<1>2. \A v \in Visits : Len(v.todo) \in Nat
  BY DEF Visits, Lists
<1>3. /\ [v \in Visits |-> Cardinality(m.supported \ v.visiting)] \in [Visits -> Nat]
      /\ [v \in Visits |-> Len(v.todo)] \in [Visits -> Nat]
  BY <1>1, <1>2
<1> QED
  BY <1>3, LowerIsDescent DEF Rank

\* A visit is a record of its three parts.
LEMMA VisitParts ==
  ASSUME NEW todo \in Lists, NEW visiting \in SUBSET GroupIds, NEW done \in Lists
  PROVE  /\ Visit(todo, visiting, done) \in Visits
         /\ Visit(todo, visiting, done).todo = todo
         /\ Visit(todo, visiting, done).visiting = visiting
         /\ Visit(todo, visiting, done).done = done
BY DEF Visit, Visits

\* What the head of the list needs is visited with that head under way.
LEMMA DeeperVisit ==
  ASSUME NEW m \in Manifests, NEW v \in Visits, v.todo # <<>>,
         ~Skipped(m, Head(v.todo), v)
  PROVE  LET g == Head(v.todo)
             w == Visit(m.deps[g], v.visiting \cup {g}, v.done)
         IN  w \in Visits /\ w \in Rank(m)[v]
<1> DEFINE g == Head(v.todo)
           w == Visit(m.deps[g], v.visiting \cup {g}, v.done)
           S == m.supported \ v.visiting
<1>1. v.todo \in Lists /\ v.visiting \subseteq GroupIds /\ v.done \in Lists
  BY DEF Visits
<1>2. g \in GroupIds /\ g \in S
  BY <1>1 DEF Lists, Skipped
<1>3. m.deps[g] \in Lists
  BY <1>2, ManifestAssumption DEF Lists
<1>4. w \in Visits /\ w.visiting = v.visiting \cup {g}
  BY <1>1, <1>2, <1>3, VisitParts
<1>5. IsFiniteSet(S)
  BY ManifestAssumption, FS_Subset
<1>6. Cardinality(S) \in Nat /\ Cardinality(S \ {g}) = Cardinality(S) - 1
  BY <1>2, <1>5, FS_CardinalityType, FS_RemoveElement
<1>7. m.supported \ w.visiting = S \ {g}
  BY <1>4
<1> HIDE DEF w, S
<1>8. Cardinality(m.supported \ w.visiting) = Cardinality(S \ {g})
  BY <1>7, Zenon
<1>9. Cardinality(m.supported \ w.visiting) < Cardinality(S)
  BY <1>6, <1>8
<1> QED
  BY <1>4, <1>9 DEF Rank, Lower, w, S

\* Then the rest of the list is visited.
LEMMA NextVisit ==
  ASSUME NEW m \in Manifests, NEW v \in Visits, v.todo # <<>>, NEW after \in Lists
  PROVE  LET w == Visit(Tail(v.todo), v.visiting, after)
         IN  w \in Visits /\ w \in Rank(m)[v]
<1> DEFINE w == Visit(Tail(v.todo), v.visiting, after)
<1>1. v.todo \in Lists /\ v.visiting \subseteq GroupIds
  BY DEF Visits
<1>2. Tail(v.todo) \in Lists /\ Len(Tail(v.todo)) < Len(v.todo)
  BY <1>1 DEF Lists
<1>3. w \in Visits /\ w.visiting = v.visiting /\ w.todo = Tail(v.todo)
  BY <1>1, <1>2, VisitParts
<1> HIDE DEF w
<1> QED
  BY <1>2, <1>3 DEF Rank, Lower, w

\* The value of a step is a list, and depends on deeper and next visits only.
LEMMA StepLooksBelow ==
  ASSUME NEW m \in Manifests, NEW v \in Visits,
         NEW f, \A w \in Rank(m)[v] : f[w] \in Lists
  PROVE  /\ Step(m, f, v) \in Lists
         /\ \A h : (\A w \in Rank(m)[v] : f[w] = h[w]) => Step(m, f, v) = Step(m, h, v)
<1>1. CASE v.todo = <<>>
  BY <1>1 DEF Step, Visits
<1>2. CASE v.todo # <<>> /\ Skipped(m, Head(v.todo), v)
  <2>1. v.done \in Lists
    BY DEF Visits
  <2> DEFINE w == Visit(Tail(v.todo), v.visiting, v.done)
  <2>2. w \in Rank(m)[v]
    BY <1>2, <2>1, NextVisit
  <2>3. \A h : Step(m, h, v) = h[w]
    BY <1>2 DEF Step
  <2> HIDE DEF w
  <2> QED
    BY <2>2, <2>3
<1>3. CASE v.todo # <<>> /\ ~Skipped(m, Head(v.todo), v)
  <2> DEFINE g == Head(v.todo)
             u == Visit(m.deps[g], v.visiting \cup {g}, v.done)
             w(h) == Visit(Tail(v.todo), v.visiting, Append(h[u], g))
  <2>1. u \in Rank(m)[v]
    BY <1>3, DeeperVisit
  <2>2. g \in GroupIds
    BY <1>3 DEF Visits, Lists
  <2>3. \A h : Step(m, h, v) = h[w(h)]
    BY <1>3 DEF Step
  <2>4. f[u] \in Lists
    BY <2>1
  <2> HIDE DEF u, g
  <2>5. Append(f[u], g) \in Lists
    BY <2>2, <2>4 DEF Lists
  <2>6. w(f) \in Rank(m)[v]
    BY <1>3, <2>5, NextVisit
  <2>7. Step(m, f, v) \in Lists
    BY <2>3, <2>6
  <2>8. ASSUME NEW h, \A x \in Rank(m)[v] : f[x] = h[x]
        PROVE  Step(m, f, v) = Step(m, h, v)
    <3>1. f[u] = h[u]
      BY <2>1, <2>8
    <3>2. w(f) = w(h)
      BY <3>1
    <3> HIDE DEF w
    <3>3. f[w(f)] = h[w(f)]
      BY <2>6, <2>8
    <3> QED
      BY <2>3, <3>2, <3>3
  <2> QED
    BY <2>7, <2>8
<1> QED
  BY <1>1, <1>2, <1>3

\* The visit exists.
LEMMA VisitExists ==
  ASSUME NEW m \in Manifests
  PROVE  \E f : IsVisit(m, f)
<1> DEFINE Below == Rank(m)
           Phi == [f \in [Visits -> Lists] |-> [v \in Visits |-> Step(m, f, v)]]
<1>1. IsDescent(Visits, Below)
  BY RankIsDescent
<1>2. \A v \in Visits : Below[v] \subseteq Visits
  BY <1>1 DEF IsDescent
<1>3. \A f \in [Visits -> Lists], v \in Visits : Step(m, f, v) \in Lists
  BY <1>2, StepLooksBelow
<1>4. Phi \in [[Visits -> Lists] -> [Visits -> Lists]]
  BY <1>3
<1>5. \A f, h \in [Visits -> Lists], v \in Visits :
        (\A w \in Below[v] : f[w] = h[w]) => Step(m, f, v) = Step(m, h, v)
  BY <1>2, StepLooksBelow
<1>6. \A f \in [Visits -> Lists], v \in Visits : Phi[f][v] = Step(m, f, v)
  OBVIOUS
<1>7. <<>> \in Lists
  BY DEF Lists
<1> HIDE DEF Phi, Below
<1>8. IsStep(Visits, Lists, Below, Phi)
  BY <1>4, <1>5, <1>6 DEF IsStep
<1>9. PICK f \in [Visits -> Lists] : \A v \in Visits : f[v] = Phi[f][v]
  BY <1>1, <1>7, <1>8, RecursionExists
<1>10. f = [v \in Visits |-> Step(m, f, v)]
  BY <1>6, <1>9
<1> QED
  BY <1>10 DEF IsVisit

\* Resolve takes its value from a visit.
LEMMA ResolveVisits ==
  ASSUME NEW m \in Manifests
  PROVE  \E f : IsVisit(m, f) /\ \A list : Resolve(m, list) = f[Visit(list, {}, <<>>)]
<1>1. PICK f : f = CHOOSE h : IsVisit(m, h)
  BY Zenon
<1>2. IsVisit(m, f)
  BY <1>1, VisitExists, Zenon
<1>3. \A list : Resolve(m, list) = f[Visit(list, {}, <<>>)]
  BY <1>1, Zenon DEF Resolve, IsVisit, Step
<1> QED
  BY <1>2, <1>3

-----------------------------------------------------------------------------
(* Closures.                                                               *)

\* A closure holds what it is made of, and what its members need, and is
\* within any other closed set that holds it.
LEMMA ClosureFacts ==
  ASSUME NEW m, NEW G
  PROVE  /\ Closure(m, G) \subseteq m.supported
         /\ G \cap m.supported \subseteq Closure(m, G)
         /\ Closed(m, Closure(m, G))
         /\ \A C \in SUBSET m.supported :
              G \cap m.supported \subseteq C /\ Closed(m, C) => Closure(m, G) \subseteq C
<1>1. Closure(m, G) \subseteq m.supported
  BY DEF Closure
<1>2. G \cap m.supported \subseteq Closure(m, G)
  BY DEF Closure
<1>3. \A C \in SUBSET m.supported :
        G \cap m.supported \subseteq C /\ Closed(m, C) => Closure(m, G) \subseteq C
  BY DEF Closure
<1>4. ASSUME NEW g \in Closure(m, G), NEW need \in Needs(m, g)
      PROVE  need \in Closure(m, G)
  <2>1. need \in m.supported
    BY <1>4 DEF Needs
  <2>2. ASSUME NEW C \in SUBSET m.supported, G \cap m.supported \subseteq C, Closed(m, C)
        PROVE  need \in C
    <3>1. g \in C
      BY <2>2 DEF Closure
    <3> QED
      BY <2>2, <3>1 DEF Closed
  <2> QED
    BY <2>1, <2>2 DEF Closure
<1> QED
  BY <1>1, <1>2, <1>3, <1>4 DEF Closed

\* The closure of groups that another closure holds is within it.
LEMMA ClosureWithin ==
  ASSUME NEW m, NEW G, NEW H, G \cap m.supported \subseteq Closure(m, H)
  PROVE  Closure(m, G) \subseteq Closure(m, H)
BY ClosureFacts

-----------------------------------------------------------------------------
(* What a visit of some groups adds to the list.                           *)

\* Nothing is in the list twice, and with a group under way goes all that is
\* still to visit.
Ready(m, todo, visiting, done) ==
  /\ IsInjective(done) /\ ToSet(done) \subseteq m.supported
  /\ visiting \subseteq m.supported
  /\ \A u \in visiting : todo \cap m.supported \subseteq Closure(m, {u})

New(done, list) == (Len(done) + 1)..Len(list)

\* The list is longer at its end, by groups that are not under way, in order,
\* of which the groups have need.
Visited(m, todo, visiting, done, list) ==
  /\ list \in Lists /\ Len(done) <= Len(list)
  /\ \A i \in 1..Len(done) : list[i] = done[i]
  /\ IsInjective(list) /\ ToSet(list) \subseteq m.supported
  /\ todo \cap m.supported \subseteq ToSet(list) \cup visiting
  /\ \A i \in New(done, list) :
       /\ list[i] \in Closure(m, todo) \ visiting
       /\ Needs(m, list[i]) \subseteq ToSet(list) \cup visiting
       /\ \A need \in Needs(m, list[i]) :
            \/ \E k \in 1..(i - 1) : list[k] = need
            \/ list[i] \in Closure(m, {need})

\* Nothing to visit, or nothing but what is skipped: the list stays.
LEMMA VisitedSkip ==
  ASSUME NEW m \in Manifests, NEW todo, NEW visiting, NEW done \in Lists,
         Ready(m, todo, visiting, done),
         todo \cap m.supported \subseteq ToSet(done) \cup visiting
  PROVE  Visited(m, todo, visiting, done, done)
<1>1. Len(done) \in Nat /\ New(done, done) = {}
  BY DEF Lists, New
<1> QED
  BY <1>1 DEF Visited, Ready

\* The members of a list, by their places.
LEMMA Members ==
  ASSUME NEW list \in Lists
  PROVE  /\ Len(list) \in Nat /\ DOMAIN list = 1..Len(list)
         /\ \A x : x \in ToSet(list) <=> \E i \in 1..Len(list) : list[i] = x
BY DEF ToSet, Lists

\* A longer list has all members of the one it goes on from.
LEMMA LongerHasAll ==
  ASSUME NEW done \in Lists, NEW list \in Lists, Len(done) <= Len(list),
         \A i \in 1..Len(done) : list[i] = done[i]
  PROVE  ToSet(done) \subseteq ToSet(list)
<1> SUFFICES ASSUME NEW x \in ToSet(done) PROVE x \in ToSet(list)
  OBVIOUS
<1>1. PICK i \in 1..Len(done) : done[i] = x
  BY Members
<1>2. i \in 1..Len(list) /\ list[i] = x
  BY <1>1, Members
<1> QED
  BY <1>2, Members

\* One visit after the other.
LEMMA VisitedTwice ==
  ASSUME NEW m \in Manifests, NEW first, NEW second, NEW visiting,
         NEW done \in Lists, NEW mid, NEW list,
         Visited(m, first, visiting, done, mid),
         Visited(m, second, visiting, mid, list)
  PROVE  Visited(m, first \cup second, visiting, done, list)
<1> DEFINE todo == first \cup second
<1>1. /\ mid \in Lists /\ list \in Lists
      /\ Len(done) \in Nat /\ Len(mid) \in Nat /\ Len(list) \in Nat
      /\ Len(done) <= Len(mid) /\ Len(mid) <= Len(list)
  BY Members DEF Visited
<1>2. /\ \A i \in 1..Len(done) : mid[i] = done[i]
      /\ \A i \in 1..Len(mid) : list[i] = mid[i]
  BY DEF Visited
<1>3. ToSet(mid) \subseteq ToSet(list)
  BY <1>1, <1>2, LongerHasAll
<1>4. Closure(m, first) \subseteq Closure(m, todo) /\ Closure(m, second) \subseteq Closure(m, todo)
  BY ClosureFacts, ClosureWithin
<1>5. \A i \in 1..Len(done) : list[i] = done[i]
  BY <1>1, <1>2
<1>6. todo \cap m.supported \subseteq ToSet(list) \cup visiting
  BY <1>3 DEF Visited
<1> HIDE DEF todo
<1>7. ASSUME NEW i \in New(done, list)
      PROVE  /\ list[i] \in Closure(m, todo) \ visiting
             /\ Needs(m, list[i]) \subseteq ToSet(list) \cup visiting
             /\ \A need \in Needs(m, list[i]) :
                  \/ \E k \in 1..(i - 1) : list[k] = need
                  \/ list[i] \in Closure(m, {need})
  <2>1. CASE i \in New(done, mid)
    <3>1. list[i] = mid[i] /\ \A k \in 1..(i - 1) : list[k] = mid[k]
      BY <1>1, <1>2, <2>1 DEF New
    <3>2. /\ mid[i] \in Closure(m, first) \ visiting
          /\ Needs(m, mid[i]) \subseteq ToSet(mid) \cup visiting
          /\ \A need \in Needs(m, mid[i]) :
                  \/ \E k \in 1..(i - 1) : mid[k] = need
                  \/ mid[i] \in Closure(m, {need})
      BY <2>1 DEF Visited
    <3> QED
      BY <1>3, <1>4, <3>1, <3>2
  <2>2. CASE i \in New(mid, list)
    <3>1. /\ list[i] \in Closure(m, second) \ visiting
          /\ Needs(m, list[i]) \subseteq ToSet(list) \cup visiting
          /\ \A need \in Needs(m, list[i]) :
                  \/ \E k \in 1..(i - 1) : list[k] = need
                  \/ list[i] \in Closure(m, {need})
      BY <2>2 DEF Visited
    <3> QED
      BY <1>4, <3>1
  <2> QED
    BY <1>1, <2>1, <2>2 DEF New
<1>8. IsInjective(list) /\ ToSet(list) \subseteq m.supported /\ Len(done) <= Len(list)
  BY <1>1 DEF Visited
<1>9. Visited(m, todo, visiting, done, list)
  BY <1>1, <1>5, <1>6, <1>7, <1>8 DEF Visited
<1> QED
  BY <1>9 DEF todo

\* A group, after what it needs.
LEMMA VisitedGroup ==
  ASSUME NEW m \in Manifests, NEW g \in m.supported, NEW visiting, NEW done \in Lists,
         NEW mid, Ready(m, {g}, visiting, done), g \notin ToSet(done), g \notin visiting,
         Visited(m, ToSet(m.deps[g]), visiting \cup {g}, done, mid)
  PROVE  Visited(m, {g}, visiting, done, Append(mid, g))
<1> DEFINE list == Append(mid, g)
           n == Len(mid) + 1
<1>1. /\ mid \in Lists /\ Len(mid) \in Nat /\ Len(done) \in Nat /\ Len(done) <= Len(mid)
      /\ g \in GroupIds
  BY Members, ManifestAssumption DEF Visited
<1>2. /\ list \in Lists /\ Len(list) = n /\ list[n] = g
      /\ \A i \in 1..Len(mid) : list[i] = mid[i]
  BY <1>1 DEF Lists
<1> HIDE DEF list
<1>3. ToSet(list) = ToSet(mid) \cup {g}
  BY <1>1, <1>2, Members
<1>4. \A i \in 1..Len(done) : mid[i] = done[i] /\ list[i] = done[i]
  BY <1>1, <1>2 DEF Visited
<1>5. ASSUME NEW i \in 1..Len(mid) PROVE mid[i] # g
  <2>1. CASE i \in 1..Len(done)
    BY <1>4, <2>1, Members
  <2>2. CASE i \in New(done, mid)
    BY <2>2 DEF Visited
  <2> QED
    BY <1>1, <2>1, <2>2 DEF New
<1>6. IsInjective(list)
  <2>1. SUFFICES ASSUME NEW i \in 1..n, NEW k \in 1..n, list[i] = list[k] PROVE i = k
    BY <1>2, Members DEF IsInjective
  <2>2. \A x, y \in 1..Len(mid) : mid[x] = mid[y] => x = y
    BY <1>1, Members DEF Visited, IsInjective
  <2>3. \A x \in 1..n : x = n \/ x \in 1..Len(mid)
    BY <1>1
  <2> QED
    BY <1>2, <1>5, <2>1, <2>2, <2>3
<1>7. ToSet(list) \subseteq m.supported
  BY <1>3 DEF Visited
<1>8. Needs(m, g) \subseteq ToSet(mid) \cup visiting \cup {g}
  BY DEF Needs, Visited
<1>9. g \in Closure(m, {g})
  BY ClosureFacts
<1>10. Closure(m, ToSet(m.deps[g])) \subseteq Closure(m, {g})
  <2>1. Needs(m, g) \subseteq Closure(m, {g})
    BY <1>9, ClosureFacts DEF Closed
  <2> QED
    BY <2>1, ClosureWithin DEF Needs
<1>11. ASSUME NEW i \in New(done, list)
      PROVE  /\ list[i] \in Closure(m, {g}) \ visiting
             /\ Needs(m, list[i]) \subseteq ToSet(list) \cup visiting
             /\ \A need \in Needs(m, list[i]) :
                  \/ \E k \in 1..(i - 1) : list[k] = need
                  \/ list[i] \in Closure(m, {need})
  <2>1. CASE i \in New(done, mid)
    <3>1. list[i] = mid[i] /\ \A k \in 1..(i - 1) : list[k] = mid[k]
      BY <1>1, <1>2, <2>1 DEF New
    <3>2. /\ mid[i] \in Closure(m, ToSet(m.deps[g])) \ visiting
          /\ Needs(m, mid[i]) \subseteq ToSet(mid) \cup visiting \cup {g}
          /\ \A need \in Needs(m, mid[i]) :
                  \/ \E k \in 1..(i - 1) : mid[k] = need
                  \/ mid[i] \in Closure(m, {need})
      BY <2>1 DEF Visited
    <3> QED
      BY <1>3, <1>10, <3>1, <3>2
  <2>2. CASE i = n
    <3>1. list[i] = g
      BY <1>2, <2>2
    <3>2. ASSUME NEW need \in Needs(m, g)
          PROVE  (\E k \in 1..(i - 1) : list[k] = need) \/ g \in Closure(m, {need})
      <4>1. CASE need \in ToSet(mid)
        BY <1>1, <1>2, <2>2, <4>1, Members
      <4>2. CASE need \in visiting
        BY <4>2 DEF Ready
      <4>3. CASE need = g
        BY <1>9, <4>3
      <4> QED
        BY <1>8, <4>1, <4>2, <4>3
    <3> QED
      BY <1>3, <1>8, <1>9, <3>1, <3>2
  <2> QED
    BY <1>1, <1>2, <2>1, <2>2 DEF New
<1>12. {g} \cap m.supported \subseteq ToSet(list) \cup visiting
  BY <1>3
<1>13. Len(done) <= Len(list)
  BY <1>1, <1>2
<1> QED
  BY <1>2, <1>4, <1>6, <1>7, <1>11, <1>12, <1>13 DEF Visited, list

\* What is left to do of a visit that is ready is ready too.
LEMMA ReadyForRest ==
  ASSUME NEW m, NEW todo, NEW rest \in SUBSET todo, NEW visiting, NEW done,
         Ready(m, todo, visiting, done),
         NEW first, NEW list, Visited(m, first, visiting, done, list)
  PROVE  Ready(m, rest, visiting, list)
BY DEF Ready, Visited

\* Before a group comes what it needs, with that group under way.
LEMMA ReadyForNeeds ==
  ASSUME NEW m, NEW g \in m.supported, NEW visiting, NEW done,
         Ready(m, {g}, visiting, done)
  PROVE  Ready(m, ToSet(m.deps[g]), visiting \cup {g}, done)
<1>1. ToSet(m.deps[g]) \cap m.supported = Needs(m, g)
  BY DEF Needs
<1>2. ASSUME NEW u \in visiting \cup {g}
      PROVE  Needs(m, g) \subseteq Closure(m, {u})
  <2>1. g \in Closure(m, {u})
    BY ClosureFacts DEF Ready
  <2> QED
    BY <2>1, ClosureFacts DEF Closed
<1> QED
  BY <1>1, <1>2 DEF Ready

\* A list is its head and the rest.
LEMMA HeadAndTail ==
  ASSUME NEW list \in Lists, list # <<>>
  PROVE  /\ Head(list) \in GroupIds /\ Tail(list) \in Lists
         /\ ToSet(list) = {Head(list)} \cup ToSet(Tail(list))
<1>1. /\ Len(list) \in Nat \ {0} /\ Head(list) = list[1] /\ Tail(list) \in Lists
      /\ Head(list) \in GroupIds /\ Len(Tail(list)) = Len(list) - 1
      /\ \A i \in 1..Len(Tail(list)) : Tail(list)[i] = list[i + 1]
  BY DEF Lists
<1>2. ASSUME NEW x
      PROVE  x \in ToSet(list) <=> x = Head(list) \/ x \in ToSet(Tail(list))
  <2>1. x \in ToSet(list) <=> \E i \in 1..Len(list) : list[i] = x
    BY Members
  <2>2. x \in ToSet(Tail(list)) <=> \E i \in 1..(Len(list) - 1) : list[i + 1] = x
    <3> DEFINE rest == Tail(list)
    <3>1. /\ rest \in Lists /\ Len(rest) = Len(list) - 1
          /\ \A i \in 1..Len(rest) : rest[i] = list[i + 1]
      BY <1>1
    <3> HIDE DEF rest
    <3>2. x \in ToSet(rest) <=> \E i \in 1..Len(rest) : rest[i] = x
      BY <3>1, Members
    <3>3. x \in ToSet(rest) <=> \E i \in 1..(Len(list) - 1) : list[i + 1] = x
      BY <3>1, <3>2
    <3> QED
      BY <3>3 DEF rest
  <2>3. (\E i \in 1..Len(list) : list[i] = x)
          <=> list[1] = x \/ \E i \in 1..(Len(list) - 1) : list[i + 1] = x
    <3>1. \A i \in 1..Len(list) : i = 1 \/ (i - 1 \in 1..(Len(list) - 1) /\ (i - 1) + 1 = i)
      BY <1>1
    <3>2. 1 \in 1..Len(list) /\ \A i \in 1..(Len(list) - 1) : i + 1 \in 1..Len(list)
      BY <1>1
    <3> QED
      BY <3>1, <3>2
  <2> QED
    BY <1>1, <2>1, <2>2, <2>3
<1> QED
  BY <1>1, <1>2

\* Every visit adds what it should: a visit of least rank that did not would
\* rest on visits of lower rank, which do.
LEMMA VisitIsRight ==
  ASSUME NEW m \in Manifests, NEW f, IsVisit(m, f), NEW x \in Visits,
         Ready(m, ToSet(x.todo), x.visiting, x.done)
  PROVE  Visited(m, ToSet(x.todo), x.visiting, x.done, f[x])
<1> DEFINE Right(v) == Ready(m, ToSet(v.todo), v.visiting, v.done)
                         => Visited(m, ToSet(v.todo), v.visiting, v.done, f[v])
           T == {v \in Visits : ~Right(v)}
<1>1. SUFFICES ASSUME T # {} PROVE FALSE
  OBVIOUS
<1>2. PICK v \in T : Rank(m)[v] \cap T = {}
  BY <1>1, RankIsDescent DEF IsDescent
<1>3. v \in Visits /\ ~Right(v) /\ \A w \in Visits : w \in Rank(m)[v] => Right(w)
  BY <1>2
<1>4. Ready(m, ToSet(v.todo), v.visiting, v.done)
  BY <1>3
<1> HIDE DEF T
<1>5. f[v] = Step(m, f, v)
  BY <1>3 DEF IsVisit
<1>6. v.todo \in Lists /\ v.visiting \subseteq GroupIds /\ v.done \in Lists
  BY <1>3 DEF Visits
<1>7. CASE v.todo = <<>>
  <2>1. ToSet(v.todo) = {}
    BY <1>7 DEF ToSet
  <2>2. f[v] = v.done
    BY <1>5, <1>7 DEF Step
  <2> QED
    BY <1>3, <1>4, <1>6, <2>1, <2>2, VisitedSkip
<1>8. CASE v.todo # <<>>
  <2> DEFINE g == Head(v.todo)
             rest == ToSet(Tail(v.todo))
             u == Visit(m.deps[g], v.visiting \cup {g}, v.done)
             after == IF Skipped(m, g, v) THEN v.done ELSE Append(f[u], g)
             w == Visit(Tail(v.todo), v.visiting, after)
  <2>1. f[v] = f[w]
    BY <1>5, <1>8 DEF Step
  <2>2. /\ ToSet(v.todo) = {g} \cup rest /\ g \in GroupIds /\ Tail(v.todo) \in Lists
    BY <1>6, <1>8, HeadAndTail
  <2>3. Ready(m, {g}, v.visiting, v.done)
    BY <1>4, <2>2 DEF Ready
  <2>4. Visited(m, {g}, v.visiting, v.done, after)
    <3>1. CASE Skipped(m, g, v)
      <4>1. {g} \cap m.supported \subseteq ToSet(v.done) \cup v.visiting
        BY <1>6, <3>1, Members DEF Skipped, Contains
      <4> QED
        BY <1>6, <2>3, <3>1, <4>1, VisitedSkip
    <3>2. CASE ~Skipped(m, g, v)
      <4>1. g \in m.supported /\ g \notin ToSet(v.done) /\ g \notin v.visiting
        BY <1>6, <3>2, Members DEF Skipped, Contains
      <4>2. u \in Visits /\ u \in Rank(m)[v]
        BY <1>3, <1>8, <3>2, DeeperVisit
      <4>3. m.deps[g] \in Lists
        BY <4>1, ManifestAssumption DEF Lists
      <4>4. u.todo = m.deps[g] /\ u.visiting = v.visiting \cup {g} /\ u.done = v.done
        BY <1>6, <2>2, <4>3, VisitParts
      <4>5. Ready(m, ToSet(m.deps[g]), v.visiting \cup {g}, v.done)
        BY <2>3, <4>1, ReadyForNeeds
      <4>6. Right(u)
        BY <1>3, <4>2
      <4> HIDE DEF u
      <4>7. Visited(m, ToSet(m.deps[g]), v.visiting \cup {g}, v.done, f[u])
        BY <4>4, <4>5, <4>6
      <4>8. Visited(m, {g}, v.visiting, v.done, Append(f[u], g))
        BY <1>6, <2>3, <4>1, <4>7, VisitedGroup
      <4> QED
        BY <3>2, <4>8
    <3> QED
      BY <3>1, <3>2
  <2> HIDE DEF after
  <2>5. after \in Lists
    BY <2>4 DEF Visited
  <2>6. w \in Visits /\ w \in Rank(m)[v]
    BY <1>3, <1>8, <2>5, NextVisit
  <2>7. w.todo = Tail(v.todo) /\ w.visiting = v.visiting /\ w.done = after
    BY <1>6, <2>2, <2>5, VisitParts
  <2>8. Ready(m, rest, v.visiting, after)
    BY <1>4, <2>2, <2>4, ReadyForRest
  <2>9. Right(w)
    BY <1>3, <2>6
  <2> HIDE DEF w
  <2>10. Visited(m, rest, v.visiting, after, f[w])
    BY <2>7, <2>8, <2>9
  <2>11. Visited(m, {g} \cup rest, v.visiting, v.done, f[w])
    BY <1>6, <2>4, <2>10, VisitedTwice
  <2> QED
    BY <1>3, <2>1, <2>2, <2>11
<1> QED
  BY <1>7, <1>8

\* _resolve_requested_optional_groups, for any manifest and any list of groups:
\* the supported groups the list needs, each once and after those it needs,
\* except where they need each other.
THEOREM ResolveIsRight ==
  ASSUME NEW m \in Manifests, NEW list \in Lists
  PROVE  /\ Resolve(m, list) \in Lists
         /\ Resolved(m, Resolve(m, list))
         /\ ToSet(Resolve(m, list)) = Closure(m, ToSet(list))
<1>1. PICK f : IsVisit(m, f) /\ Resolve(m, list) = f[Visit(list, {}, <<>>)]
  BY ResolveVisits
<1> DEFINE v == Visit(list, {}, <<>>)
           all == f[v]
<1>2. <<>> \in Lists /\ {} \in SUBSET GroupIds
  BY DEF Lists
<1>3. v \in Visits /\ v.todo = list /\ v.visiting = {} /\ v.done = <<>>
  BY <1>2, VisitParts
<1>4. ToSet(<<>>) = {} /\ IsInjective(<<>>) /\ Len(<<>>) = 0
  BY DEF ToSet, IsInjective
<1>5. Ready(m, ToSet(list), {}, <<>>)
  BY <1>4 DEF Ready
<1> HIDE DEF v
<1>6. Visited(m, ToSet(list), {}, <<>>, all)
  BY <1>1, <1>3, <1>5, VisitIsRight
<1> HIDE DEF all
<1>7. all \in Lists /\ IsInjective(all) /\ ToSet(all) \subseteq m.supported
  BY <1>6 DEF Visited
<1>8. \A i \in 1..Len(all) :
        /\ all[i] \in Closure(m, ToSet(list)) /\ Needs(m, all[i]) \subseteq ToSet(all)
        /\ \A need \in Needs(m, all[i]) :
             \/ \E k \in 1..(i - 1) : all[k] = need
             \/ all[i] \in Closure(m, {need})
  <2>1. New(<<>>, all) = 1..Len(all)
    BY <1>4, <1>7, Members DEF New
  <2> QED
    BY <1>6, <2>1 DEF Visited
<1>9. Closed(m, ToSet(all)) /\ ToSet(all) \subseteq Closure(m, ToSet(list))
  BY <1>7, <1>8, Members DEF Closed
<1>10. Closure(m, ToSet(list)) \subseteq ToSet(all)
  <2>1. ToSet(list) \cap m.supported \subseteq ToSet(all)
    BY <1>6 DEF Visited
  <2> QED
    BY <1>7, <1>9, <2>1, ClosureFacts
<1>11. InOrder(m, all)
  BY <1>8 DEF InOrder
<1> QED
  BY <1>1, <1>7, <1>9, <1>10, <1>11 DEF Resolved, v, all

-----------------------------------------------------------------------------
(* Types, and what the groups under way and in the file come to.           *)

\* All keys of the file have the same groups, which are resolved.
Listed(m, d) == Resolved(m, d.enabled) /\ d.nested = d.enabled /\ d.legacy = d.enabled

\* What a request of each kind carries, and what the writer has read.
ConfSteps == {"conf", "open conf", "fill conf"}
RightJobs(m) ==
  {j \in Jobs :
     /\ j.at \in ConfSteps => j.req.kind = "url"
     /\ j.at = "look" => j.req.kind = "apply"
     /\ j.req.kind = "select" =>
          /\ Resolved(m, j.groups)
          /\ ToSet(j.groups) = Closure(m, ToSet(j.req.list))
     /\ j.req.kind = "apply" /\ j.at # "look" => Resolved(m, j.groups)
     /\ j.at \in {"write", "fill"} => Listed(m, j.data)}

Serviced == job \in [Threads -> RightJobs(manifest) \cup {Idle}]

\* What has a type of its own.
Records ==
  /\ manifest \in Manifests /\ mount \in Mounts
  /\ desired \in Files \cup {Torn}
  /\ lock \in Threads \cup {Nil}
  /\ conf \in Urls \cup {Nil, Torn}
  /\ assets \subseteq GroupIds
  /\ runtime \in [{"requested", "active", "starting", "failed"} -> SUBSET GroupIds]
  /\ served \in Nat /\ cuts \in Nat
  /\ spoiled \in [{"groups", "url"} -> BOOLEAN]

ChoiceInv ==
  /\ Records /\ Serviced
  /\ desired # Torn => Listed(manifest, desired)

\* No groups are a resolved list.
LEMMA NoneResolved ==
  ASSUME NEW m
  PROVE  Resolved(m, <<>>) /\ <<>> \in Lists
<1>1. ToSet(<<>>) = {} /\ IsInjective(<<>>) /\ Len(<<>>) = 0
  BY DEF ToSet, IsInjective
<1> QED
  BY <1>1 DEF Resolved, Closed, InOrder, Lists

\* A file read back, torn or not, is well formed, and so are its groups.
LEMMA ReadFile ==
  ASSUME NEW m, NEW d \in Files \cup {Torn}, d # Torn => Listed(m, d)
  PROVE  /\ Parsed(d) \in Files /\ Listed(m, Parsed(d))
         /\ GroupsOf(d) = Parsed(d).enabled /\ Resolved(m, GroupsOf(d))
         /\ GroupsOf(d) \in Lists /\ ToSet(GroupsOf(d)) \subseteq GroupIds
<1>1. EmptyFile \in Files /\ Listed(m, EmptyFile)
  BY NoneResolved DEF EmptyFile, Files, Listed
<1>2. Parsed(d) \in Files /\ Listed(m, Parsed(d))
  BY <1>1 DEF Parsed
<1>3. GroupsOf(d) = Parsed(d).enabled /\ GroupsOf(d) \in Lists /\ Resolved(m, GroupsOf(d))
  BY <1>2 DEF GroupsOf, FirstNonEmpty, Files, Listed
<1>4. ToSet(GroupsOf(d)) \subseteq GroupIds
  BY <1>3 DEF ToSet, Lists
<1> QED
  BY <1>2, <1>3, <1>4

\* A job in progress is no idle one.
LEMMA BusyJob ==
  ASSUME NEW m, NEW j \in RightJobs(m) \cup {Idle}
  PROVE  /\ j.at # "idle" => j \in RightJobs(m)
         /\ j \in RightJobs(m) => j.at # "idle" /\ j # Idle
<1>1. Idle.at = "idle"
  BY DEF Idle
<1>2. \A k \in RightJobs(m) : k.at # "idle"
  BY DEF RightJobs, Jobs
<1> QED
  BY <1>1, <1>2

\* A job goes on to a step that its request may take.
LEMMA JobGoesOn ==
  ASSUME NEW m, NEW j \in RightJobs(m),
         NEW step \in {"clean", "session", "open conf", "fill conf", "mount", "lock", "fill"},
         j.at # "look", step \in ConfSteps => j.at \in ConfSteps,
         step = "fill" => j.at = "write"
  PROVE  [j EXCEPT !.at = step] \in RightJobs(m)
<1> DEFINE k == [j EXCEPT !.at = step]
<1>1. j \in Jobs
  BY DEF RightJobs
<1>2. /\ k \in Jobs /\ k.at = step /\ k.req = j.req /\ k.data = j.data /\ k.groups = j.groups
  BY <1>1 DEF Jobs
<1> HIDE DEF k
<1>3. k \in RightJobs(m)
  BY <1>2 DEF RightJobs
<1> QED
  BY <1>3 DEF k

\* One thread's job changes.
LEMMA OneJob ==
  ASSUME Serviced, NEW t \in Threads, NEW j \in RightJobs(manifest) \cup {Idle},
         job' = [job EXCEPT ![t] = j], manifest' = manifest
  PROVE  Serviced'
BY DEF Serviced

\* A thread goes on.
LEMMA ThreadGoesOn ==
  ASSUME Serviced, NEW t \in Threads,
         NEW step \in {"clean", "session", "open conf", "fill conf", "mount", "lock", "fill"},
         Move(t, step), manifest' = manifest, job[t].at # "idle",
         job[t].at # "look", step \in ConfSteps => job[t].at \in ConfSteps,
         step = "fill" => job[t].at = "write"
  PROVE  Serviced'
<1>1. job[t] \in RightJobs(manifest)
  BY BusyJob DEF Serviced
<1>2. [job[t] EXCEPT !.at = step] \in RightJobs(manifest)
  BY <1>1, JobGoesOn
<1>3. job' = [job EXCEPT ![t] = [job[t] EXCEPT !.at = step]]
  BY DEF Move
<1> QED
  BY <1>2, <1>3, OneJob

\* A request ends.
LEMMA ThreadEnds ==
  ASSUME Serviced, NEW t \in Threads, End(t), manifest' = manifest
  PROVE  Serviced'
BY OneJob DEF End

\* The groups of a request that is not for a URL, once it has them.
LEMMA JobGroups ==
  ASSUME NEW m, NEW j \in RightJobs(m)
  PROVE  /\ j.groups \in Lists /\ ToSet(j.groups) \subseteq GroupIds
         /\ j.at # "look" /\ j.req.kind # "url" => Resolved(m, j.groups)
         /\ j.req \in Requests /\ j.data \in Files
<1>1. j \in Jobs /\ j.groups \in Lists /\ j.req \in Requests /\ j.data \in Files
  BY DEF RightJobs, Jobs
<1>2. j.req.kind \in {"select", "url", "apply"}
  BY <1>1 DEF Requests
<1>3. ToSet(j.groups) \subseteq GroupIds
  BY <1>1 DEF ToSet, Lists
<1> QED
  BY <1>1, <1>2, <1>3 DEF RightJobs

\* The arrival of a request.
LEMMA ReceiveKeepsChoice ==
  ASSUME ChoiceInv, NEW t \in Threads, NEW r \in Requests, Receive(t, r)
  PROVE  ChoiceInv'
<1> DEFINE rivals == {u \in Busy : Kind(job[u].req) = Kind(r)}
           groups == IF r.kind = "select" THEN Resolve(manifest, r.list) ELSE <<>>
           j == [at |-> FirstStep[r.kind], req |-> r, data |-> EmptyFile,
                 groups |-> groups, met |-> rivals]
           touched(u) == [job[u] EXCEPT !.met = @ \cup {t}]
<1>1. job' = [u \in Threads |-> IF u = t THEN j
                              ELSE IF u \in rivals THEN touched(u) ELSE job[u]]
  BY Zenon DEF Receive
<1>2. \/ r.kind = "select" /\ r.list \in Lists /\ FirstStep[r.kind] = "prepare"
      \/ r.kind = "url" /\ FirstStep[r.kind] = "conf"
      \/ r.kind = "apply" /\ FirstStep[r.kind] = "look"
  BY GroupAssumption DEF Requests, FirstStep, Lists
<1>3. /\ groups \in Lists
      /\ r.kind = "select" => /\ Resolved(manifest, groups)
                              /\ ToSet(groups) = Closure(manifest, ToSet(r.list))
  <2>1. CASE r.kind = "select"
    <3>1. r.list \in Lists /\ manifest \in Manifests
      BY <1>2, <2>1 DEF ChoiceInv, Records
    <3> QED
      BY <2>1, <3>1, ResolveIsRight
  <2>2. CASE r.kind # "select"
    BY <2>2, NoneResolved
  <2> QED
    BY <2>1, <2>2
<1>4. j \in RightJobs(manifest)
  <2> DEFINE step == FirstStep[r.kind]
  <2>1. rivals \subseteq Threads
    BY DEF Busy
  <2>2. EmptyFile \in Files
    BY NoneResolved DEF EmptyFile, Files
  <2>3. /\ step \in {"prepare", "conf", "look"}
        /\ step \in ConfSteps => r.kind = "url"
        /\ r.kind = "apply" <=> step = "look"
        /\ step \notin {"write", "fill"}
    BY <1>2 DEF ConfSteps
  <2> HIDE DEF rivals, groups, step
  <2>4. /\ j \in Jobs /\ j.at = step /\ j.req = r /\ j.groups = groups
    BY <1>3, <2>1, <2>2, <2>3 DEF Jobs, step
  <2> HIDE DEF j
  <2> QED
    BY <1>3, <2>3, <2>4 DEF RightJobs
<1>5. ASSUME NEW u \in rivals
      PROVE  touched(u) \in RightJobs(manifest)
  <2>1. u \in Threads /\ job[u].at # "idle"
    BY DEF Busy, At
  <2>2. job[u] \in RightJobs(manifest)
    BY <2>1, BusyJob DEF ChoiceInv, Serviced
  <2>3. job[u] \in Jobs
    BY <2>2 DEF RightJobs
  <2>4. /\ touched(u) \in Jobs
        /\ touched(u).at = job[u].at /\ touched(u).req = job[u].req
        /\ touched(u).data = job[u].data /\ touched(u).groups = job[u].groups
    BY <2>3 DEF Jobs
  <2> HIDE DEF touched
  <2> QED
    BY <2>2, <2>4 DEF RightJobs
<1>6. manifest' = manifest
  BY DEF Receive, setting
<1> HIDE DEF j, rivals, touched
<1>7. Serviced'
  BY <1>1, <1>4, <1>5, <1>6 DEF ChoiceInv, Serviced
<1>8. /\ UNCHANGED <<manifest, mount, desired, lock, conf, assets, runtime, cuts, spoiled>>
      /\ served' = served + 1
  BY DEF Receive, setting, history
<1> QED
  BY <1>7, <1>8 DEF ChoiceInv, Records

\* An apply that has read the groups.
LEMMA LookKeepsChoice ==
  ASSUME ChoiceInv, NEW t \in Threads, Look(t)
  PROVE  ChoiceInv'
<1> DEFINE wanted == Append(GroupsOf(desired), Broker)
           groups == Resolve(manifest, wanted)
<1>1. UNCHANGED <<manifest, mount, desired, lock, conf, assets, runtime, served, cuts, spoiled>>
  BY DEF Look, setting, bounds, history
<1>2. groups \in Lists /\ Resolved(manifest, groups)
  <2>1. GroupsOf(desired) \in Lists /\ manifest \in Manifests
    BY ReadFile DEF ChoiceInv, Records
  <2>2. wanted \in Lists
    BY <2>1, GroupAssumption DEF Lists
  <2> HIDE DEF wanted
  <2> QED
    BY <2>1, <2>2, ResolveIsRight
<1>3. CASE End(t)
  BY <1>1, <1>3, ThreadEnds DEF ChoiceInv, Records
<1>4. CASE job' = [job EXCEPT ![t].at = "prepare", ![t].groups = groups]
  <2> HIDE DEF groups
  <2>1. job[t] \in RightJobs(manifest) /\ job[t].at = "look"
    BY BusyJob DEF Look, At, ChoiceInv, Serviced
  <2> DEFINE j == [[job[t] EXCEPT !.at = "prepare"] EXCEPT !.groups = groups]
  <2>2. job' = [job EXCEPT ![t] = j]
    BY <1>4 DEF ChoiceInv, Serviced
  <2>3. job[t] \in Jobs
    BY <2>1 DEF RightJobs
  <2>4. /\ j \in Jobs /\ j.at = "prepare" /\ j.groups = groups
        /\ j.req = job[t].req /\ j.data = job[t].data
    BY <1>2, <2>3 DEF Jobs
  <2>5. job[t].req.kind = "apply"
    BY <2>1 DEF RightJobs
  <2> HIDE DEF j
  <2>6. j \in RightJobs(manifest)
    BY <1>2, <2>4, <2>5 DEF RightJobs, ConfSteps
  <2>7. Serviced'
    BY <1>1, <2>2, <2>6, OneJob DEF ChoiceInv
  <2> QED
    BY <1>1, <2>7 DEF ChoiceInv, Records
<1> QED
  BY <1>3, <1>4 DEF Look

\* A mark is a mark.
LEMMA SpoilTyped ==
  ASSUME spoiled \in [{"groups", "url"} -> BOOLEAN], NEW K, Spoil(K)
  PROVE  spoiled' \in [{"groups", "url"} -> BOOLEAN]
BY DEF Spoil

\* The steps that change no groups.
LEMMA MovesKeepChoice ==
  ASSUME ChoiceInv, NEW t \in Threads,
         \/ Prepare(t) \/ Clean(t) \/ ReadSession(t) \/ ReadConf(t)
         \/ OpenConf(t) \/ FillConf(t) \/ CheckMount(t)
  PROVE  ChoiceInv'
<1>1. UNCHANGED <<manifest, mount, desired, lock, runtime, served, cuts>>
  BY DEF Prepare, Clean, ReadSession, ReadConf, OpenConf, FillConf, CheckMount,
         setting, bounds
<1>2. CASE Prepare(t)
  <2>1. Move(t, "clean") /\ job[t].at = "prepare" /\ UNCHANGED <<conf, spoiled>>
    BY <1>2 DEF Prepare, At, history
  <2>2. Serviced'
    BY <1>1, <2>1, ThreadGoesOn DEF ChoiceInv, ConfSteps
  <2>3. ToSet(job[t].groups) \subseteq GroupIds
    BY <2>1, BusyJob, JobGroups DEF ChoiceInv, Serviced
  <2> QED
    BY <1>1, <1>2, <2>1, <2>2, <2>3 DEF ChoiceInv, Records, Prepare
<1>3. CASE Clean(t)
  <2>1. Move(t, "session") /\ job[t].at = "clean" /\ UNCHANGED <<conf, spoiled>>
    BY <1>3 DEF Clean, At, history
  <2>2. Serviced'
    BY <1>1, <2>1, ThreadGoesOn DEF ChoiceInv, ConfSteps
  <2> QED
    BY <1>1, <1>3, <2>1, <2>2 DEF ChoiceInv, Records, Clean
<1>4. CASE ReadSession(t)
  <2>1. Move(t, "mount") /\ job[t].at = "session" /\ UNCHANGED <<conf, assets, spoiled>>
    BY <1>4 DEF ReadSession, At, history
  <2>2. Serviced'
    BY <1>1, <2>1, ThreadGoesOn DEF ChoiceInv, ConfSteps
  <2> QED
    BY <1>1, <2>1, <2>2 DEF ChoiceInv, Records
<1>5. CASE ReadConf(t)
  <2>1. /\ End(t) \/ Move(t, "open conf")
        /\ job[t].at = "conf" /\ UNCHANGED <<conf, assets, spoiled>>
    BY <1>5 DEF ReadConf, At, history
  <2>2. Serviced'
    BY <1>1, <2>1, ThreadGoesOn, ThreadEnds DEF ChoiceInv, ConfSteps
  <2> QED
    BY <1>1, <2>1, <2>2 DEF ChoiceInv, Records
<1>6. CASE OpenConf(t)
  <2>1. /\ Move(t, "fill conf") /\ job[t].at = "open conf"
        /\ UNCHANGED <<assets, spoiled>> /\ conf' = Torn
    BY <1>6 DEF OpenConf, At, history
  <2>2. Serviced'
    BY <1>1, <2>1, ThreadGoesOn DEF ChoiceInv, ConfSteps
  <2> QED
    BY <1>1, <2>1, <2>2 DEF ChoiceInv, Records
<1>7. CASE FillConf(t)
  <2>1. /\ Move(t, "mount") /\ job[t].at = "fill conf" /\ UNCHANGED <<assets, spoiled>>
        /\ conf' \in {job[t].req.url, Torn}
    BY <1>7 DEF FillConf, At, history
  <2>2. Serviced'
    BY <1>1, <2>1, ThreadGoesOn DEF ChoiceInv, ConfSteps
  <2>3. job[t] \in RightJobs(manifest)
    BY <2>1, BusyJob DEF ChoiceInv, Serviced
  <2>4. job[t].req.kind = "url" /\ job[t].req \in Requests
    BY <2>1, <2>3, JobGroups DEF RightJobs, ConfSteps
  <2>5. job[t].req.url \in Urls
    BY <2>4 DEF Requests
  <2> QED
    BY <1>1, <2>1, <2>2, <2>5 DEF ChoiceInv, Records
<1>8. CASE CheckMount(t)
  <2>1. /\ End(t) \/ Move(t, "lock")
        /\ job[t].at = "mount" /\ UNCHANGED <<conf, assets>>
        /\ UNCHANGED spoiled \/ \E K : Spoil(K)
    BY <1>8 DEF CheckMount, At
  <2>2. Serviced'
    BY <1>1, <2>1, ThreadGoesOn, ThreadEnds DEF ChoiceInv, ConfSteps
  <2>3. spoiled' \in [{"groups", "url"} -> BOOLEAN]
    BY <2>1, SpoilTyped DEF ChoiceInv, Records
  <2> QED
    BY <1>1, <2>1, <2>2, <2>3 DEF ChoiceInv, Records
<1> QED
  BY <1>2, <1>3, <1>4, <1>5, <1>6, <1>7, <1>8

\* The lock taken and the file read, or given up.
LEMMA LockKeepsChoice ==
  ASSUME ChoiceInv, NEW t \in Threads, AcquireAndLoad(t) \/ LockTimeout(t)
  PROVE  ChoiceInv'
<1>1. UNCHANGED <<manifest, mount, desired, conf, assets, runtime, served, cuts>>
  BY DEF AcquireAndLoad, LockTimeout, setting, bounds
<1>2. CASE LockTimeout(t)
  <2>1. End(t) /\ UNCHANGED lock /\ \E K : Spoil(K)
    BY <1>2 DEF LockTimeout
  <2>2. spoiled' \in [{"groups", "url"} -> BOOLEAN]
    BY <2>1, SpoilTyped DEF ChoiceInv, Records
  <2>3. Serviced'
    BY <1>1, <2>1, ThreadEnds DEF ChoiceInv
  <2> QED
    BY <1>1, <2>1, <2>2, <2>3 DEF ChoiceInv, Records
<1>3. CASE AcquireAndLoad(t)
  <2>1. job[t] \in RightJobs(manifest) /\ job[t].at = "lock"
    BY <1>3, BusyJob DEF AcquireAndLoad, At, ChoiceInv, Serviced
  <2> DEFINE read == Parsed(desired)
             j == [[job[t] EXCEPT !.at = "write"] EXCEPT !.data = read]
  <2>2. read \in Files /\ Listed(manifest, read)
    BY ReadFile DEF ChoiceInv, Records
  <2>3. job' = [job EXCEPT ![t] = j] /\ lock' = t /\ UNCHANGED spoiled
    BY <1>3 DEF AcquireAndLoad, ChoiceInv, Serviced, history
  <2>4. job[t] \in Jobs
    BY <2>1 DEF RightJobs
  <2> HIDE DEF read
  <2>5. /\ j \in Jobs /\ j.at = "write" /\ j.groups = job[t].groups
        /\ j.req = job[t].req /\ j.data = read
    BY <2>2, <2>4 DEF Jobs
  <2> HIDE DEF j
  <2>6. j \in RightJobs(manifest)
    BY <2>1, <2>2, <2>5 DEF RightJobs, ConfSteps
  <2>7. Serviced'
    BY <1>1, <2>3, <2>6, OneJob DEF ChoiceInv
  <2> QED
    BY <1>1, <2>3, <2>7 DEF ChoiceInv, Records
<1> QED
  BY <1>2, <1>3

\* The file truncated, or written.
LEMMA WriteKeepsChoice ==
  ASSUME ChoiceInv, NEW t \in Threads, Replace(t) \/ Truncate(t) \/ Fill(t)
  PROVE  ChoiceInv'
<1>1. job[t].at \in {"write", "fill"}
  BY DEF Replace, Truncate, Fill, At
<1>2. job[t] \in RightJobs(manifest)
  BY <1>1, BusyJob DEF ChoiceInv, Serviced
<1>3. CASE Truncate(t)
  <2>1. /\ UNCHANGED <<manifest, mount, lock, conf, assets, runtime, served, cuts, spoiled>>
        /\ desired' = Torn /\ Move(t, "fill") /\ job[t].at = "write"
    BY <1>3 DEF Truncate, At, setting, bounds, history
  <2>2. Serviced'
    BY <2>1, ThreadGoesOn DEF ChoiceInv, ConfSteps
  <2> QED
    BY <2>1, <2>2 DEF ChoiceInv, Records
<1>4. CASE Commit(t)
  <2> DEFINE j == job[t]
             d == Mutated(j)
  <2>1. /\ UNCHANGED <<manifest, mount, conf, assets, runtime, served, cuts>>
        /\ lock' = Nil /\ End(t) /\ desired' = d
        /\ spoiled' = [spoiled EXCEPT ![Kind(j.req)] = j.met # {}]
    BY <1>4 DEF Commit, setting, bounds
  <2> HIDE DEF j
  <2>2. /\ j.data \in Files /\ j.groups \in Lists /\ j.req \in Requests
        /\ Listed(manifest, j.data)
        /\ j.req.kind # "url" => Resolved(manifest, j.groups)
    BY <1>1, <1>2, JobGroups DEF RightJobs, j
  <2>3. d \in Files /\ Listed(manifest, d)
    <3>1. CASE j.req.kind = "url"
      <4>1. j.req.url \in Urls
        BY <2>2, <3>1 DEF Requests
      <4>2. d = [j.data EXCEPT !.url = j.req.url]
        BY <3>1 DEF Mutated
      <4>3. /\ d \in Files /\ d.enabled = j.data.enabled
            /\ d.nested = j.data.nested /\ d.legacy = j.data.legacy
        BY <2>2, <4>1, <4>2 DEF Files
      <4> QED
        BY <2>2, <4>3 DEF Listed
    <3>2. CASE j.req.kind # "url"
      <4>1. d = [j.data EXCEPT !.enabled = j.groups, !.nested = j.groups, !.legacy = j.groups]
        BY <3>2 DEF Mutated, WithGroups
      <4>2. d \in Files /\ d.enabled = j.groups /\ d.nested = j.groups /\ d.legacy = j.groups
        BY <2>2, <4>1 DEF Files
      <4> QED
        BY <2>2, <3>2, <4>2 DEF Listed
    <3> QED
      BY <3>1, <3>2
  <2>4. Serviced'
    BY <2>1, ThreadEnds DEF ChoiceInv
  <2>5. spoiled' \in [{"groups", "url"} -> BOOLEAN]
    BY <2>1 DEF ChoiceInv, Records
  <2> HIDE DEF d
  <2> QED
    BY <2>1, <2>3, <2>4, <2>5 DEF ChoiceInv, Records
<1> QED
  BY <1>3, <1>4 DEF Replace, Fill

\* Requests cut short.
LEMMA CutOffKeepsChoice ==
  ASSUME ChoiceInv, NEW T \in SUBSET Threads, CutOff(T), assets' \subseteq GroupIds,
         UNCHANGED <<manifest, mount, desired, conf, runtime, served>>
  PROVE  ChoiceInv'
<1>1. /\ job' = [t \in Threads |-> IF t \in T THEN Idle ELSE job[t]]
      /\ lock' = IF lock \in T THEN Nil ELSE lock
      /\ cuts' = cuts + 1 /\ \E K : Spoil(K)
  BY DEF CutOff
<1>2. Serviced'
  BY <1>1 DEF ChoiceInv, Serviced
<1>3. spoiled' \in [{"groups", "url"} -> BOOLEAN]
  BY <1>1, SpoilTyped DEF ChoiceInv, Records
<1> QED
  BY <1>1, <1>2, <1>3 DEF ChoiceInv, Records

\* A step that fails, and a crash.
LEMMA FaultsKeepChoice ==
  ASSUME ChoiceInv, Crash \/ \E t \in Threads : Fail(t)
  PROVE  ChoiceInv'
<1>1. UNCHANGED <<manifest, mount, desired, conf, runtime, served>>
  BY DEF Crash, Fail, setting
<1>2. CASE Crash
  BY <1>1, <1>2, CutOffKeepsChoice DEF Crash, Busy, ChoiceInv, Records
<1>3. ASSUME NEW t \in Threads, Fail(t)
      PROVE  ChoiceInv'
  <2>1. job[t] \in RightJobs(manifest)
    BY <1>3, BusyJob DEF Fail, Busy, At, ChoiceInv, Serviced
  <2>2. ToSet(job[t].groups) \subseteq GroupIds
    BY <2>1, JobGroups
  <2>3. assets' \subseteq GroupIds
    BY <1>3, <2>2 DEF Fail, ChoiceInv, Records
  <2> QED
    BY <1>1, <1>3, <2>3, CutOffKeepsChoice DEF Fail
<1> QED
  BY <1>2, <1>3

\* The supervisor.
LEMMA SupervisorKeepsChoice ==
  ASSUME ChoiceInv, Supervisor
  PROVE  ChoiceInv'
<1>1. UNCHANGED <<manifest, mount, desired, lock, conf, assets, job, served, cuts, spoiled>>
  BY DEF Supervisor, Accept, Settle, setting, bounds, history
<1>2. runtime' \in [{"requested", "active", "starting", "failed"} -> SUBSET GroupIds]
  <2>1. CASE Accept
    <3> DEFINE wanted == ToSet(GroupsOf(desired))
    <3>1. wanted \subseteq GroupIds
      BY ReadFile DEF ChoiceInv, Records
    <3> HIDE DEF wanted
    <3>2. runtime' = [requested |-> wanted, active |-> wanted \cap runtime.active,
                      starting |-> wanted \ runtime.active, failed |-> {}]
      BY <2>1 DEF Accept, wanted
    <3> QED
      BY <3>1, <3>2
  <2>2. CASE Settle
    BY <2>2 DEF Settle, ChoiceInv, Records
  <2> QED
    BY <2>1, <2>2 DEF Supervisor
<1> QED
  BY <1>1, <1>2 DEF ChoiceInv, Records, Serviced

\* Every step.
LEMMA NextKeepsChoice ==
  ASSUME ChoiceInv, [Next]_vars
  PROVE  ChoiceInv'
<1>1. CASE \E t \in Threads, r \in Requests : Receive(t, r)
  BY <1>1, ReceiveKeepsChoice
<1>2. CASE \E t \in Threads : Serve(t)
  BY <1>2, LookKeepsChoice, MovesKeepChoice, LockKeepsChoice, WriteKeepsChoice,
     FaultsKeepChoice DEF Serve
<1>3. CASE Crash \/ Supervisor
  BY <1>3, FaultsKeepChoice, SupervisorKeepsChoice
<1>4. CASE UNCHANGED vars
  BY <1>4 DEF vars, setting, bounds, history, ChoiceInv, Records, Serviced
<1> QED
  BY <1>1, <1>2, <1>3, <1>4 DEF Next

\* The start.
LEMMA InitChoice ==
  ASSUME Init
  PROVE  ChoiceInv
<1>1. PICK list \in Selections : FirstSelection(Resolve(manifest, list))
  BY DEF Init
<1> DEFINE groups == Resolve(manifest, list)
<1>2. groups \in Lists /\ Resolved(manifest, groups) /\ ToSet(groups) \subseteq GroupIds
  <2>1. manifest \in Manifests /\ list \in Lists
    BY GroupAssumption DEF Init, Lists
  <2>2. groups \in Lists /\ Resolved(manifest, groups)
    BY <2>1, ResolveIsRight
  <2> QED
    BY <2>2 DEF ToSet, Lists
<1> HIDE DEF groups
<1>3. /\ desired = [enabled |-> groups, nested |-> groups, legacy |-> groups,
                    url |-> Nil, other |-> TRUE]
      /\ assets = ToSet(groups)
      /\ runtime = [requested |-> ToSet(groups), active |-> ToSet(groups),
                    starting |-> {}, failed |-> {}]
  BY <1>1 DEF FirstSelection, FirstFile, EmptyFile, groups
<1>4. desired \in Files /\ Listed(manifest, desired)
  BY <1>2, <1>3 DEF Files, Listed
<1>5. runtime \in [{"requested", "active", "starting", "failed"} -> SUBSET GroupIds]
  BY <1>2, <1>3
<1>6. Serviced
  BY DEF Init, Serviced
<1> QED
  BY <1>2, <1>3, <1>4, <1>5, <1>6 DEF Init, ChoiceInv, Records

\* What each request comes to, and what is in the file, is always resolved and well
\* formed.
THEOREM ChoiceInvariant == Spec => []ChoiceInv
<1>1. Init => ChoiceInv
  BY InitChoice
<1>2. ChoiceInv /\ [Next]_vars => ChoiceInv'
  BY NextKeepsChoice
<1> QED
  BY <1>1, <1>2, PTL DEF Spec

\* Every variable has its type whatever runs at once, fails or dies; desired.json is
\* torn or being filled only where the rename is refused.
THEOREM DesiredTypes == Spec => []DesiredTypeOK
<1>1. ChoiceInv /\ DesiredInv => DesiredTypeOK
  <2> SUFFICES ASSUME ChoiceInv, DesiredInv PROVE DesiredTypeOK
    OBVIOUS
  <2>1. job \in [Threads -> Jobs \cup {Idle}]
    BY DEF ChoiceInv, Serviced, RightJobs
  <2>2. (desired = Torn \/ \E t \in Threads : At(t, "fill")) => mount = "in place"
    BY DEF DesiredInv, FillingTorn, TornInPlace
  <2> QED
    BY <2>1, <2>2 DEF ChoiceInv, Records, DesiredTypeOK
<1> QED
  BY <1>1, ChoiceInvariant, DesiredInvariant, PTL

\* Whatever the manifest says and whatever runs at once, desired.json and every
\* selection under way name supported groups, each once, with all they need and
\* after it; a selection, exactly those it needs.
THEOREM SelectionsResolved == Spec => []SelectionResolved
<1>1. ChoiceInv => SelectionResolved
  <2> SUFFICES ASSUME ChoiceInv PROVE SelectionResolved
    OBVIOUS
  <2>1. ASSUME NEW t \in Busy, job[t].req.kind = "select"
        PROVE  /\ Resolved(manifest, job[t].groups)
               /\ ToSet(job[t].groups) = Closure(manifest, ToSet(job[t].req.list))
    <3>1. job[t] \in RightJobs(manifest)
      BY BusyJob DEF Busy, At, ChoiceInv, Serviced
    <3> QED
      BY <2>1, <3>1 DEF RightJobs
  <2> QED
    BY <2>1 DEF ChoiceInv, Listed, SelectionResolved
<1> QED
  BY <1>1, ChoiceInvariant, PTL

\* The groups of a list that already has what it needs, and another: nothing of the
\* list is lost, and only what that group needs is added.
LEMMA ClosureOfMore ==
  ASSUME NEW m \in Manifests, NEW G \in SUBSET m.supported, Closed(m, G), NEW g
  PROVE  Closure(m, G \cup {g}) = G \cup Closure(m, {g})
<1>1. Closed(m, G \cup Closure(m, {g})) /\ G \cup Closure(m, {g}) \subseteq m.supported
  BY ClosureFacts DEF Closed
<1>2. (G \cup {g}) \cap m.supported \subseteq G \cup Closure(m, {g})
  BY ClosureFacts
<1>3. Closure(m, G \cup {g}) \subseteq G \cup Closure(m, {g})
  BY <1>1, <1>2, ClosureFacts
<1>4. G \subseteq Closure(m, G \cup {g}) /\ {g} \cap m.supported \subseteq Closure(m, G \cup {g})
  BY ClosureFacts
<1>5. Closure(m, {g}) \subseteq Closure(m, G \cup {g})
  BY <1>4, ClosureWithin
<1> QED
  BY <1>3, <1>4, <1>5

\* An embedded apply that asks for the broker keeps every group it has read from
\* desired.json, and adds the broker with what it needs and nothing else, whatever
\* other requests have written before.
THEOREM ApplyKeepsGroups ==
  Spec => [][\A t \in Threads : Look(t) /\ ~At(t, "idle")' =>
               ToSet(job'[t].groups)
                 = ToSet(GroupsOf(desired)) \cup Closure(manifest, {Broker})]_vars
<1>1. ASSUME ChoiceInv, NEW t \in Threads, Look(t), ~At(t, "idle")'
      PROVE  ToSet(job'[t].groups) = ToSet(GroupsOf(desired)) \cup Closure(manifest, {Broker})
  <2> DEFINE read == GroupsOf(desired)
             wanted == Append(read, Broker)
             groups == Resolve(manifest, wanted)
  <2>1. /\ manifest \in Manifests /\ read \in Lists
        /\ ToSet(read) \subseteq manifest.supported /\ Closed(manifest, ToSet(read))
    <3>1. /\ manifest \in Manifests /\ desired \in Files \cup {Torn}
          /\ desired # Torn => Listed(manifest, desired)
      BY <1>1 DEF ChoiceInv, Records
    <3>2. read \in Lists /\ Resolved(manifest, read)
      BY <3>1, ReadFile
    <3> QED
      BY <3>1, <3>2 DEF Resolved
  <2>2. ~End(t)
    BY <1>1 DEF End, At, Idle, ChoiceInv, Serviced
  <2>3. job' = [job EXCEPT ![t].at = "prepare", ![t].groups = groups]
    BY <1>1, <2>2 DEF Look
  <2> HIDE DEF read
  <2>4. wanted \in Lists /\ ToSet(wanted) = ToSet(read) \cup {Broker}
    <3>1. /\ wanted \in Lists /\ Len(wanted) = Len(read) + 1 /\ wanted[Len(read) + 1] = Broker
          /\ Len(read) \in Nat /\ \A i \in 1..Len(read) : wanted[i] = read[i]
      BY <2>1, GroupAssumption DEF Lists
    <3> HIDE DEF wanted
    <3> QED
      BY <2>1, <3>1, Members
  <2> HIDE DEF wanted
  <2>5. ToSet(groups) = ToSet(read) \cup Closure(manifest, {Broker})
    <3>1. ToSet(groups) = Closure(manifest, ToSet(wanted))
      BY <2>1, <2>4, ResolveIsRight
    <3>2. Closure(manifest, ToSet(wanted)) = Closure(manifest, ToSet(read) \cup {Broker})
      BY <2>4, Zenon
    <3>3. Closure(manifest, ToSet(read) \cup {Broker})
            = ToSet(read) \cup Closure(manifest, {Broker})
      BY <2>1, ClosureOfMore
    <3> QED
      BY <3>1, <3>2, <3>3
  <2> HIDE DEF groups
  <2>6. job[t] \in RightJobs(manifest)
    BY <1>1, BusyJob DEF Look, At, ChoiceInv, Serviced
  <2>7. job[t] \in Jobs
    BY <2>6 DEF RightJobs
  <2>8. job'[t].groups = groups
    BY <1>1, <2>3, <2>7 DEF ChoiceInv, Serviced, Jobs
  <2> QED
    BY <2>5, <2>8 DEF read
<1>2. ChoiceInv /\ [Next]_vars =>
        [\A t \in Threads : Look(t) /\ ~At(t, "idle")' =>
           ToSet(job'[t].groups)
             = ToSet(GroupsOf(desired)) \cup Closure(manifest, {Broker})]_vars
  BY <1>1
<1> QED
  BY <1>2, ChoiceInvariant, PTL DEF Spec

\* A selection that is written makes desired.json name, under every key, exactly
\* what was asked for with everything that needs, whatever the file said before.
THEOREM SelectionsAreWritten ==
  Spec => [][\A t \in Threads : (Replace(t) \/ Fill(t)) /\ job[t].req.kind = "select" =>
               /\ ToSet(GroupsOf(desired')) = Closure(manifest, ToSet(job[t].req.list))
               /\ Listed(manifest, desired')]_vars
<1>1. ASSUME ChoiceInv, NEW t \in Threads, Replace(t) \/ Fill(t), job[t].req.kind = "select"
      PROVE  /\ ToSet(GroupsOf(desired')) = Closure(manifest, ToSet(job[t].req.list))
             /\ Listed(manifest, desired')
  <2>1. /\ job[t] \in RightJobs(manifest) /\ job[t].at \in {"write", "fill"}
        /\ desired' = WithGroups(job[t].data, job[t].groups)
    BY <1>1, BusyJob DEF Replace, Fill, Commit, Mutated, At, ChoiceInv, Serviced
  <2>2. /\ Resolved(manifest, job[t].groups) /\ job[t].groups \in Lists
        /\ ToSet(job[t].groups) = Closure(manifest, ToSet(job[t].req.list))
        /\ job[t].data \in Files
    BY <1>1, <2>1, JobGroups DEF RightJobs, Jobs
  <2>3. /\ desired'.enabled = job[t].groups /\ desired'.nested = job[t].groups
        /\ desired'.legacy = job[t].groups /\ desired' \in Files
    BY <2>1, <2>2 DEF WithGroups, Files
  <2>4. GroupsOf(desired') = job[t].groups
    <3>1. Torn \notin Files
      BY FileIsNotTorn DEF Files, IsFile
    <3> QED
      BY <2>3, <3>1 DEF GroupsOf, Parsed, FirstNonEmpty
  <2> QED
    BY <2>2, <2>3, <2>4 DEF Listed
<1>2. ChoiceInv /\ [Next]_vars =>
        [\A t \in Threads : (Replace(t) \/ Fill(t)) /\ job[t].req.kind = "select" =>
           /\ ToSet(GroupsOf(desired')) = Closure(manifest, ToSet(job[t].req.list))
           /\ Listed(manifest, desired')]_vars
  BY <1>1
<1> QED
  BY <1>2, ChoiceInvariant, PTL DEF Spec
=============================================================================
