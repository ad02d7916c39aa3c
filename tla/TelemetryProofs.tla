--------------------------- MODULE TelemetryProofs ---------------------------
(***************************************************************************)
(* Theorems about the telemetry buffer, for any number of request threads, *)
(* any queue limit and any number of events and restarts.                  *)
(***************************************************************************)
EXTENDS Telemetry, SequenceTheorems, TLAPS

-----------------------------------------------------------------------------
(* The queue operations.                                                   *)

\* The newest MaxQueue elements, in their order.
LEMMA KeepNewestIsSuffix ==
  ASSUME NEW q \in Seq(Nat)
  PROVE  /\ KeepNewest(q) \in Seq(Nat)
         /\ Len(KeepNewest(q)) <= MaxQueue
         /\ Len(KeepNewest(q)) <= Len(q)
         /\ Len(q) <= MaxQueue => KeepNewest(q) = q
         /\ \A i \in 1..Len(KeepNewest(q)) :
              /\ Len(q) - Len(KeepNewest(q)) + i \in 1..Len(q)
              /\ KeepNewest(q)[i] = q[Len(q) - Len(KeepNewest(q)) + i]
<1>1. CASE Len(q) <= MaxQueue
  <2>1. KeepNewest(q) = q
    BY <1>1, LenProperties, MaxQueueAssumption DEF KeepNewest
  <2> QED
    BY <1>1, <2>1, LenProperties
<1>2. CASE Len(q) > MaxQueue
  <2>1. KeepNewest(q) = SubSeq(q, Len(q) - MaxQueue + 1, Len(q))
    BY <1>2, MaxQueueAssumption DEF KeepNewest
  <2>2. Len(q) \in Nat /\ Len(q) - MaxQueue + 1 \in 1..Len(q)
    BY <1>2, MaxQueueAssumption
  <2>3. KeepNewest(q) \in Seq(Nat) /\ Len(KeepNewest(q)) = MaxQueue
    BY <2>1, <2>2, MaxQueueAssumption, SubSeqProperties
  <2>4. \A i \in 1..MaxQueue : KeepNewest(q)[i] = q[Len(q) - MaxQueue + i]
    BY <2>1, <2>2, MaxQueueAssumption, SubSeqProperties
  <2> QED
    BY <1>2, <2>2, <2>3, <2>4, MaxQueueAssumption
<1> QED
  BY <1>1, <1>2, MaxQueueAssumption

\* What a queue holds after an append.
LEMMA AppendedQueue ==
  ASSUME NEW q \in Seq(Nat), NEW e \in Nat
  PROVE  /\ Append(q, e) \in Seq(Nat)
         /\ Len(Append(q, e)) = Len(q) + 1
         /\ Append(q, e)[Len(q) + 1] = e
         /\ \A i \in 1..Len(q) : Append(q, e)[i] = q[i]
         /\ ToSet(Append(q, e)) = ToSet(q) \cup {e}
BY DEF ToSet

\* What is left of a queue after a pop.
LEMMA PoppedQueue ==
  ASSUME NEW q \in Seq(Nat), q # <<>>
  PROVE  /\ Tail(q) \in Seq(Nat)
         /\ Len(q) \in Nat \ {0}
         /\ Len(Tail(q)) = Len(q) - 1
         /\ \A i \in 1..Len(Tail(q)) : i + 1 \in 1..Len(q) /\ Tail(q)[i] = q[i + 1]
         /\ Head(q) = q[1] /\ Head(q) \in Nat
         /\ ToSet(Tail(q)) \subseteq ToSet(q)
         /\ ToSet(q) \subseteq ToSet(Tail(q)) \cup {Head(q)}
<1>1. /\ Tail(q) \in Seq(Nat)
      /\ Len(q) \in Nat \ {0}
      /\ Len(Tail(q)) = Len(q) - 1
      /\ \A i \in 1..Len(Tail(q)) : i + 1 \in 1..Len(q) /\ Tail(q)[i] = q[i + 1]
      /\ Head(q) = q[1] /\ Head(q) \in Nat
  BY EmptySeq, HeadTailProperties, LenProperties
<1>2. ToSet(Tail(q)) \subseteq ToSet(q)
  BY <1>1, LenProperties DEF ToSet
<1>3. ASSUME NEW i \in 1..Len(q)
      PROVE  q[i] \in ToSet(Tail(q)) \cup {Head(q)}
  <2>1. CASE i = 1
    BY <1>1, <2>1
  <2>2. CASE i # 1
    <3>1. i - 1 \in 1..Len(Tail(q)) /\ Tail(q)[i - 1] = q[i]
      BY <1>1, <2>2
    <3> QED
      BY <1>1, <3>1, LenProperties DEF ToSet
  <2> QED
    BY <2>1, <2>2
<1> QED
  BY <1>1, <1>2, <1>3, LenProperties DEF ToSet

\* Nothing new is in the newest elements.
LEMMA KeepNewestSubset ==
  ASSUME NEW q \in Seq(Nat)
  PROVE  ToSet(KeepNewest(q)) \subseteq ToSet(q)
<1>1. /\ KeepNewest(q) \in Seq(Nat)
      /\ \A i \in 1..Len(KeepNewest(q)) :
           /\ Len(q) - Len(KeepNewest(q)) + i \in 1..Len(q)
           /\ KeepNewest(q)[i] = q[Len(q) - Len(KeepNewest(q)) + i]
  BY KeepNewestIsSuffix
<1>2. DOMAIN KeepNewest(q) = 1..Len(KeepNewest(q)) /\ DOMAIN q = 1..Len(q)
  BY <1>1, LenProperties
<1> QED
  BY <1>1, <1>2 DEF ToSet

\* A write of numbers leaves numbers; a write into a file that is still truncated
\* leaves what was written.
LEMMA OverlayContent ==
  ASSUME NEW s \in Seq(Nat), NEW f \in Seq(Nat) \cup {Corrupt}, NEW g \in Overlay(s, f)
  PROVE  /\ g \in Seq(Nat) \cup {Corrupt}
         /\ f = <<>> => g = s
         /\ \A n \in Nat :
              /\ \A i \in 1..Len(s) : s[i] <= n
              /\ f # Corrupt => \A i \in 1..Len(f) : f[i] <= n
              => (g # Corrupt => \A i \in 1..Len(g) : g[i] <= n)
<1>1. CASE f = Corrupt
  BY <1>1, CorruptAssumption, EmptySeq DEF Overlay
<1>2. CASE f # Corrupt /\ g = Corrupt
  <2>1. f # <<>>
    <3>1. SUFFICES ASSUME f = <<>> PROVE FALSE
      OBVIOUS
    <3>2. IsPrefix(f, s)
      BY <3>1 DEF IsPrefix
    <3>3. Overlay(s, f) = {s \o SubSeq(f, Len(s) + 1, Len(f))}
      BY <1>2, <3>2 DEF Overlay
    <3>4. s \o SubSeq(f, Len(s) + 1, Len(f)) \in Seq(Nat)
      BY <1>2, SubSeqProperties, ConcatProperties
    <3> QED
      BY <1>2, <3>3, <3>4, CorruptAssumption
  <2> QED
    BY <1>2, <2>1
<1>3. CASE f # Corrupt /\ g # Corrupt
  <2> DEFINE rest == SubSeq(f, Len(s) + 1, Len(f))
  <2>1. f \in Seq(Nat) /\ g = s \o rest
    BY <1>3 DEF Overlay
  <2>2. /\ rest \in Seq(Nat)
        /\ \A i \in 1..Len(rest) : Len(s) + i \in 1..Len(f) /\ rest[i] = f[Len(s) + i]
        /\ f = <<>> => rest = <<>>
    BY <2>1, SubSeqProperties, LenProperties
  <2> HIDE DEF rest
  <2>3. g \in Seq(Nat) /\ (f = <<>> => g = s)
    BY <2>1, <2>2
  <2>4. ASSUME NEW i \in 1..Len(g)
        PROVE  \/ i \in 1..Len(s) /\ g[i] = s[i]
               \/ i - Len(s) \in 1..Len(rest) /\ g[i] = rest[i - Len(s)]
    BY <2>1, <2>2, ConcatProperties
  <2>5. ASSUME NEW n \in Nat,
               \A i \in 1..Len(s) : s[i] <= n,
               \A i \in 1..Len(f) : f[i] <= n,
               NEW i \in 1..Len(g)
        PROVE  g[i] <= n
    BY <2>2, <2>4, <2>5
  <2> QED
    BY <1>3, <2>3, <2>5
<1> QED
  BY <1>1, <1>2, <1>3

-----------------------------------------------------------------------------
(* The inductive invariant.                                                *)

\* The threads that run _flush_once.
Flushers == {Flusher, Stopper}

\* Where the threads can be: a process that is down has none and holds no lock;
\* stop() starts when the requests have been answered, and flushes only when
\* the flusher has ended, unless it has given up waiting for it.
Control ==
  /\ up = "down" => lock = Free /\ \A t \in Threads : pc[t] = "off"
  /\ up = "running" => pc[Stopper] = "off" /\ ~timedOut
  /\ up = "stopping" => \A w \in Workers : pc[w] = "idle"
  /\ pc[Stopper] = "join" => ~timedOut
  /\ ~timedOut /\ pc[Stopper] \notin {"off", "join"} => pc[Flusher] = "ended"

\* No event has a number that was not given out.
Numbering ==
  /\ base <= appended /\ lastSent <= appended
  /\ \A t \in Threads : cur[t] <= appended
  /\ file # Corrupt => \A i \in 1..Len(file) : file[i] <= appended
  /\ \A t \in Threads : \A i \in 1..Len(lines[t]) : lines[t][i] <= appended

\* The event being posted is still the head of the queue when it is popped.
HeadPosted ==
  ~saturated /\ ~timedOut =>
    \A t \in Flushers : pc[t] \in {"post", "pop"} =>
      /\ queue # <<>> /\ Head(queue) = cur[t]
      /\ pc[t] = "pop" => cur[t] \in accepted

\* Nothing older than what was sent is left to send.
SentFirst ==
  ~timedOut =>
    /\ lastSent > base =>
         /\ \A i \in 1..Len(queue) : lastSent <= queue[i]
         /\ \A t \in Flushers : pc[t] = "post" => lastSent <= cur[t]
    /\ \A t \in Flushers : pc[t] = "post" /\ cur[t] > base =>
         \A i \in 1..Len(queue) : cur[t] <= queue[i]

\* A thread is about to persist the queue.
Pending == \E u \in Threads : pc[u] = "persist"

\* Unless a thread is about to persist, the file, or the snapshot that is being
\* written into it, holds the queue.
FileCovers ==
  up = "running" /\ ~raced =>
    /\ \A t, u \in Threads : Writing(t) /\ Writing(u) => t = u
    /\ \A t \in Threads : Writing(t) => Pending \/ ToSet(queue) \subseteq ToSet(lines[t])
    /\ (\A t \in Threads : ~Writing(t)) => Pending \/ ToSet(queue) \subseteq Content(file)
    /\ \A t \in Threads : pc[t] = "write" => file = <<>>

\* The last persist of stop() has the queue to itself.
StopCovers ==
  ~timedOut =>
    /\ Writing(Stopper) => lines[Stopper] = queue
    /\ pc[Stopper] = "write" => file = <<>>
    /\ pc[Stopper] = "exit" => ToSet(queue) \subseteq Content(file)

-----------------------------------------------------------------------------
(* Types and control.                                                      *)

\* Every step keeps the types.
LEMMA TypeStep ==
  ASSUME TypeOK, [Next]_vars
  PROVE  TypeOK'
<1> USE DEF TypeOK, Goto, PcLabels, Threads
<1>1. CASE UNCHANGED vars
  BY <1>1 DEF vars
<1>2. ASSUME NEW w \in Workers, Call(w)
      PROVE  TypeOK'
  BY <1>2 DEF Call, bufferVars, coreVars, bootVars
<1>3. ASSUME NEW w \in Workers, Enqueue(w)
      PROVE  TypeOK'
  <2>1. Append(queue, appended + 1) \in Seq(Nat)
    BY AppendedQueue
  <2>2. queue' \in Seq(Nat)
    BY <1>3, <2>1, KeepNewestIsSuffix DEF Enqueue
  <2>3. saturated' \in BOOLEAN
    BY <1>3 DEF Enqueue
  <2>4. known' \in SUBSET Nat
    BY <1>3 DEF Enqueue
  <2> QED
    BY <1>3, <2>2, <2>3, <2>4 DEF Enqueue, AfterAppend, coreVars, bootVars
<1>4. ASSUME NEW t \in Threads, Snapshot(t)
      PROVE  TypeOK'
  <2>1. raced' \in BOOLEAN
    BY <1>4 DEF Snapshot
  <2> QED
    BY <1>4, <2>1 DEF Snapshot, bufferVars, coreVars, bootVars
<1>5. ASSUME NEW t \in Threads, Truncate(t)
      PROVE  TypeOK'
  <2>1. file' \in Seq(Nat)
    BY <1>5, EmptySeq DEF Truncate
  <2> QED
    BY <1>5, <2>1 DEF Truncate, bufferVars, coreVars, bootVars
<1>6. ASSUME NEW t \in Threads, Write(t)
      PROVE  TypeOK'
  <2>1. file' \in Seq(Nat) \cup {Corrupt}
    BY <1>6, OverlayContent DEF Write
  <2>2. lines' \in [Threads -> Seq(Nat)]
    BY <1>6, EmptySeq DEF Write
  <2> QED
    BY <1>6, <2>1, <2>2 DEF Write, bufferVars, coreVars, bootVars
<1>7. ASSUME NEW t \in Flushers, TakeHead(t)
      PROVE  TypeOK'
  <2>1. NextEvent \in Nat
    BY <1>7, PoppedQueue DEF TakeHead, Drained, NextEvent
  <2> QED
    BY <1>7, <2>1 DEF TakeHead, Flushers, bufferVars, coreVars, bootVars
<1>8. ASSUME NEW t \in Flushers, Relock(t)
      PROVE  TypeOK'
  BY <1>8 DEF Relock, Flushers, coreVars, bootVars
<1>9. ASSUME NEW t \in Flushers, PostOk(t)
      PROVE  TypeOK'
  BY <1>9 DEF PostOk, Record, Flushers, bufferVars, bootVars
<1>10. ASSUME NEW t \in Flushers, PostFails(t)
       PROVE  TypeOK'
  BY <1>10 DEF PostFails, Record, Flushers, AfterFailure, ReturnFromFlush,
               bufferVars, coreVars, bootVars
<1>11. ASSUME NEW t \in Flushers, Pop(t)
       PROVE  TypeOK'
  <2>1. queue' \in Seq(Nat)
    BY <1>11, PoppedQueue, EmptySeq DEF Pop
  <2> QED
    BY <1>11, <2>1 DEF Pop, Flushers, coreVars, bootVars
<1>12. CASE RunLoop
  BY <1>12 DEF RunLoop, bufferVars, coreVars, bootVars
<1>13. CASE Stop
  BY <1>13 DEF Stop, bufferVars, coreVars, bootVars
<1>14. CASE Join
  BY <1>14 DEF Join, AfterJoin, bufferVars, coreVars, bootVars
<1>15. ASSUME Gone
       PROVE  TypeOK'
  BY <1>15, EmptySeq DEF Gone, coreVars, bootVars
<1>16. CASE Restart
  <2>1. Loaded(file) \in Seq(Nat)
    BY KeepNewestIsSuffix, EmptySeq DEF Loaded
  <2>2. ToSet(Loaded(file)) \in SUBSET Nat
    BY <2>1, LenProperties, ElementOfSeq DEF ToSet
  <2>3. pc' \in [Threads -> PcLabels]
    BY <1>16 DEF Restart
  <2>4. UNCHANGED <<ret, cur, lines, lock, file, accepted, appended>>
    BY <1>16 DEF Restart
  <2>5. /\ up' = "running" /\ queue' \in Seq(Nat) /\ known' \in SUBSET Nat
        /\ base' \in Nat /\ lastSent' \in Nat /\ restarts' \in Nat
    <3>1. queue' = Loaded(file) /\ known' = ToSet(Loaded(file))
      BY <1>16 DEF Restart
    <3>2. up' = "running" /\ base' = appended /\ lastSent' = 0 /\ restarts' = restarts + 1
      BY <1>16 DEF Restart
    <3> QED
      BY <2>1, <2>2, <3>1, <3>2
  <2>6. saturated' \in BOOLEAN /\ timedOut' \in BOOLEAN /\ raced' \in BOOLEAN
    BY <1>16 DEF Restart
  <2> QED
    BY <2>3, <2>4, <2>5, <2>6
<1> QED
  BY <1>1, <1>2, <1>3, <1>4, <1>5, <1>6, <1>7, <1>8, <1>9, <1>10, <1>11, <1>12,
     <1>13, <1>14, <1>15, <1>16
  DEF Next, Persist, Flush, Flushers, Exit, Crash

\* The initial state has the types.
LEMMA TypeInit == Init => TypeOK
<1> SUFFICES ASSUME Init PROVE TypeOK
  OBVIOUS
<1>1. pc \in [Threads -> PcLabels]
  BY DEF Init, PcLabels
<1>2. /\ ret \in [Threads -> {"idle", "loop", "persist", "exit"}]
      /\ cur \in [Threads -> Nat] /\ lines \in [Threads -> Seq(Nat)]
      /\ queue \in Seq(Nat) /\ file \in Seq(Nat)
  BY EmptySeq DEF Init
<1>3. /\ up = "running" /\ lock = Free
      /\ accepted \in SUBSET Nat /\ known \in SUBSET Nat
      /\ appended \in Nat /\ base \in Nat /\ lastSent \in Nat /\ restarts \in Nat
      /\ saturated \in BOOLEAN /\ timedOut \in BOOLEAN /\ raced \in BOOLEAN
  BY DEF Init
<1> QED
  BY <1>1, <1>2, <1>3 DEF TypeOK

\* Every variable of the telemetry reporter has its type in every behaviour.
THEOREM TypeCorrect == Spec => []TypeOK
<1>1. TypeOK /\ [Next]_vars => TypeOK'
  BY TypeStep
<1> QED
  BY <1>1, TypeInit, PTL DEF Spec

\* Every step keeps the control part of the invariant.
LEMMA ControlStep ==
  ASSUME TypeOK, Control, [Next]_vars
  PROVE  Control'
<1> USE ThreadsAssumption DEF Control, Goto, Threads
<1>0. pc \in [Threads -> PcLabels] /\ ret \in [Threads -> {"idle", "loop", "persist", "exit"}]
  BY DEF TypeOK
<1>1. CASE UNCHANGED vars
  BY <1>1 DEF vars
<1>2. ASSUME NEW w \in Workers, Call(w)
      PROVE  Control'
  BY <1>0, <1>2 DEF Call, bufferVars
<1>3. ASSUME NEW w \in Workers, Enqueue(w)
      PROVE  Control'
  BY <1>0, <1>3 DEF Enqueue, AfterAppend
<1>4. ASSUME NEW t \in Threads, Snapshot(t)
      PROVE  Control'
  BY <1>0, <1>4 DEF Snapshot, bufferVars
<1>5. ASSUME NEW t \in Threads, Truncate(t)
      PROVE  Control'
  BY <1>0, <1>5 DEF Truncate, bufferVars
<1>6. ASSUME NEW t \in Threads, Write(t)
      PROVE  Control'
  BY <1>0, <1>6 DEF Write, bufferVars
<1>7. ASSUME NEW t \in Flushers, TakeHead(t)
      PROVE  Control'
  BY <1>0, <1>7 DEF TakeHead, Flushers, bufferVars
<1>8. ASSUME NEW t \in Flushers, Relock(t)
      PROVE  Control'
  BY <1>0, <1>8 DEF Relock, Flushers
<1>9. ASSUME NEW t \in Flushers, PostOk(t)
      PROVE  Control'
  BY <1>0, <1>9 DEF PostOk, Flushers, bufferVars
<1>10. ASSUME NEW t \in Flushers, PostFails(t)
       PROVE  Control'
  BY <1>0, <1>10 DEF PostFails, AfterFailure, Flushers, bufferVars
<1>11. ASSUME NEW t \in Flushers, Pop(t)
       PROVE  Control'
  BY <1>0, <1>11 DEF Pop, Flushers
<1>12. CASE RunLoop
  BY <1>0, <1>12 DEF RunLoop, bufferVars
<1>13. CASE Stop
  BY <1>0, <1>13 DEF Stop, bufferVars
<1>14. CASE Join
  BY <1>0, <1>14 DEF Join, AfterJoin, bufferVars
<1>15. ASSUME Gone
       PROVE  Control'
  BY <1>15 DEF Gone
<1>16. CASE Restart
  BY <1>0, <1>16 DEF Restart
<1> QED
  BY <1>1, <1>2, <1>3, <1>4, <1>5, <1>6, <1>7, <1>8, <1>9, <1>10, <1>11, <1>12,
     <1>13, <1>14, <1>15, <1>16
  DEF Next, Persist, Flush, Flushers, Exit, Crash

\* Every step keeps the lock free or with a flush that found nothing to send.
LEMMA LockStep ==
  ASSUME TypeOK, Control, BlockedOnlyWhenDrained, [Next]_vars
  PROVE  BlockedOnlyWhenDrained'
<1> USE DEF BlockedOnlyWhenDrained, Goto
<1>0. pc \in [Threads -> PcLabels] /\ lock \in Threads \cup {Free}
  BY DEF TypeOK
<1>1. CASE UNCHANGED vars
  BY <1>1 DEF vars
<1>2. ASSUME NEW w \in Workers, Call(w) \/ Enqueue(w)
      PROVE  BlockedOnlyWhenDrained'
  BY <1>0, <1>2 DEF Call, Enqueue, bufferVars
<1>3. ASSUME NEW t \in Threads, Persist(t)
      PROVE  BlockedOnlyWhenDrained'
  BY <1>0, <1>3 DEF Persist, Snapshot, Truncate, Write, bufferVars
<1>4. ASSUME NEW t \in Flushers, TakeHead(t) \/ PostOk(t) \/ PostFails(t) \/ Pop(t)
      PROVE  BlockedOnlyWhenDrained'
  BY <1>0, <1>4 DEF TakeHead, PostOk, PostFails, Pop, bufferVars
<1>5. ASSUME NEW t \in Flushers, Relock(t)
      PROVE  BlockedOnlyWhenDrained'
  BY <1>0, <1>5 DEF Relock, Drained, Flushers, Threads
<1>6. CASE RunLoop \/ Stop \/ Join
  BY <1>0, <1>6 DEF RunLoop, Stop, Join, bufferVars, Control
<1>7. CASE Gone
  BY <1>7 DEF Gone
<1>8. CASE Restart
  BY <1>8 DEF Restart, Control
<1> QED
  BY <1>1, <1>2, <1>3, <1>4, <1>5, <1>6, <1>7, <1>8
  DEF Next, Flush, Flushers, Exit, Crash

\* Every step keeps the numbering.
LEMMA NumberingStep ==
  ASSUME TypeOK, Numbering, NoHoles, [Next]_vars
  PROVE  Numbering'
<1> USE DEF Numbering
<1>0. /\ queue \in Seq(Nat) /\ file \in Seq(Nat) \cup {Corrupt}
      /\ cur \in [Threads -> Nat] /\ lines \in [Threads -> Seq(Nat)]
      /\ appended \in Nat /\ base \in Nat /\ lastSent \in Nat
  BY DEF TypeOK
<1>a. \A i \in 1..Len(queue) : queue[i] <= appended
  BY <1>0, LenProperties DEF NoHoles
<1>1. CASE UNCHANGED vars
  BY <1>1 DEF vars
<1>2. ASSUME NEW w \in Workers, Call(w)
      PROVE  Numbering'
  BY <1>2 DEF Call, coreVars, bootVars
<1>3. ASSUME NEW w \in Workers, Enqueue(w)
      PROVE  Numbering'
  <2>1. appended' = appended + 1 /\ UNCHANGED <<cur, lines, file, base, lastSent>>
    BY <1>3 DEF Enqueue, coreVars, bootVars
  <2>2. ASSUME file # Corrupt, NEW i \in 1..Len(file)
        PROVE  file[i] \in Nat
    BY <1>0, <2>2, ElementOfSeq
  <2>3. ASSUME NEW t \in Threads, NEW i \in 1..Len(lines[t])
        PROVE  lines[t][i] \in Nat
    BY <1>0, <2>3, ElementOfSeq
  <2> QED
    BY <1>0, <2>1, <2>2, <2>3
<1>4. ASSUME NEW t \in Threads, Snapshot(t)
      PROVE  Numbering'
  BY <1>0, <1>a, <1>4 DEF Snapshot, coreVars, bootVars
<1>5. ASSUME NEW t \in Threads, Truncate(t)
      PROVE  Numbering'
  BY <1>0, <1>5, EmptySeq DEF Truncate, coreVars, bootVars
<1>6. ASSUME NEW t \in Threads, Write(t)
      PROVE  Numbering'
  <2>1. lines' = [lines EXCEPT ![t] = <<>>] /\ file' \in Overlay(lines[t], file)
    BY <1>6 DEF Write
  <2>2. UNCHANGED <<appended, cur, base, lastSent>>
    BY <1>6 DEF Write, coreVars, bootVars
  <2>3. file' # Corrupt => \A i \in 1..Len(file') : file'[i] <= appended
    <3>1. lines[t] \in Seq(Nat) /\ \A i \in 1..Len(lines[t]) : lines[t][i] <= appended
      BY <1>0
    <3> QED
      BY <1>0, <2>1, <3>1, OverlayContent
  <2>4. \A u \in Threads : \A i \in 1..Len(lines'[u]) : lines'[u][i] <= appended
    BY <1>0, <2>1, EmptySeq
  <2> QED
    BY <2>2, <2>3, <2>4
<1>7. ASSUME NEW t \in Flushers, TakeHead(t)
      PROVE  Numbering'
  <2>1. Head(queue) <= appended
    BY <1>0, <1>a, <1>7, PoppedQueue DEF TakeHead, Drained
  <2> QED
    BY <1>0, <1>7, <2>1 DEF TakeHead, NextEvent, coreVars, bootVars
<1>8. ASSUME NEW t \in Flushers, Relock(t) \/ Pop(t)
      PROVE  Numbering'
  BY <1>8 DEF Relock, Pop, coreVars, bootVars
<1>9. ASSUME NEW t \in Flushers, PostOk(t) \/ PostFails(t)
      PROVE  Numbering'
  BY <1>9 DEF PostOk, PostFails, Record, Flushers, Threads, coreVars, bootVars
<1>10. CASE RunLoop \/ Stop \/ Join
  BY <1>10 DEF RunLoop, Stop, Join, coreVars, bootVars
<1>11. CASE Gone
  BY <1>0, <1>11, EmptySeq DEF Gone, coreVars, bootVars
<1>12. CASE Restart
  BY <1>0, <1>12 DEF Restart
<1> QED
  BY <1>1, <1>2, <1>3, <1>4, <1>5, <1>6, <1>7, <1>8, <1>9, <1>10, <1>11, <1>12
  DEF Next, Persist, Flush, Flushers, Exit, Crash

-----------------------------------------------------------------------------
(* The queue.                                                              *)

\* The condition NoHoles puts on one element of a queue, when a events have been
\* appended, b of them before this boot.
Placed(q, a, b) ==
  \A i \in 1..Len(q) :
    IF Len(q) - i < a - b THEN q[i] = a - (Len(q) - i) ELSE q[i] <= b

\* Truncation keeps the newest elements where they were, counted from the end.
LEMMA KeepNewestPlaced ==
  ASSUME NEW q \in Seq(Nat), NEW a \in Nat, NEW b \in Nat, Placed(q, a, b)
  PROVE  Placed(KeepNewest(q), a, b)
<1> DEFINE k == KeepNewest(q)
<1>1. /\ k \in Seq(Nat) /\ Len(k) \in Nat /\ Len(q) \in Nat
      /\ \A i \in 1..Len(k) : Len(q) - Len(k) + i \in 1..Len(q) /\ k[i] = q[Len(q) - Len(k) + i]
  BY KeepNewestIsSuffix, LenProperties
<1> HIDE DEF k
<1>2. ASSUME NEW i \in 1..Len(k)
      PROVE  IF Len(k) - i < a - b THEN k[i] = a - (Len(k) - i) ELSE k[i] <= b
  <2> DEFINE j == Len(q) - Len(k) + i
  <2>1. j \in 1..Len(q) /\ k[i] = q[j] /\ Len(q) - j = Len(k) - i
    BY <1>1
  <2> HIDE DEF j
  <2> QED
    BY <2>1 DEF Placed
<1> QED
  BY <1>2 DEF Placed, k

\* The next event is placed behind the others.
LEMMA AppendPlaced ==
  ASSUME NEW q \in Seq(Nat), NEW a \in Nat, NEW b \in Nat, NEW c \in Nat,
         c = a + 1, b <= a, Placed(q, a, b)
  PROVE  Placed(Append(q, c), c, b)
<1> DEFINE g == Append(q, c)
<1>1. /\ g \in Seq(Nat) /\ Len(g) = Len(q) + 1 /\ Len(q) \in Nat
      /\ g[Len(q) + 1] = c
      /\ \A i \in 1..Len(q) : g[i] = q[i]
  BY AppendedQueue, LenProperties
<1> HIDE DEF g
<1>2. ASSUME NEW i \in 1..Len(g)
      PROVE  IF Len(g) - i < c - b THEN g[i] = c - (Len(g) - i) ELSE g[i] <= b
  <2>1. CASE i = Len(q) + 1
    BY <1>1, <2>1
  <2>2. CASE i # Len(q) + 1
    <3>1. i \in 1..Len(q) /\ g[i] = q[i]
      BY <1>1, <2>2
    <3>2. CASE Len(q) - i < a - b
      <4>1. q[i] = a - (Len(q) - i)
        BY <3>1, <3>2 DEF Placed
      <4> QED
        BY <1>1, <3>1, <3>2, <4>1
    <3>3. CASE ~(Len(q) - i < a - b)
      <4>1. q[i] <= b
        BY <3>1, <3>3 DEF Placed
      <4> QED
        BY <1>1, <3>1, <3>3, <4>1
    <3> QED
      BY <3>2, <3>3
  <2> QED
    BY <2>1, <2>2
<1> QED
  BY <1>2 DEF Placed, g

\* Every step keeps the queue free of holes.
LEMMA NoHolesStep ==
  ASSUME TypeOK, Numbering, NoHoles, [Next]_vars
  PROVE  NoHoles'
<1>0. /\ queue \in Seq(Nat) /\ file \in Seq(Nat) \cup {Corrupt}
      /\ appended \in Nat /\ base \in Nat /\ base <= appended
      /\ Len(queue) \in Nat /\ MaxQueue \in Nat \ {0}
  BY LenProperties, MaxQueueAssumption DEF TypeOK, Numbering
<1>p. NoHoles <=> Len(queue) <= MaxQueue /\ Placed(queue, appended, base)
  BY DEF NoHoles, Placed
<1>q. NoHoles' <=> Len(queue') <= MaxQueue /\ Placed(queue', appended', base')
  BY DEF NoHoles, Placed
<1>1. CASE UNCHANGED <<queue, appended, base>>
  BY <1>1 DEF NoHoles
<1>2. ASSUME NEW w \in Workers, Enqueue(w)
      PROVE  NoHoles'
  <2> DEFINE grown == Append(queue, appended + 1)
  <2>1. queue' = KeepNewest(grown) /\ appended' = appended + 1 /\ base' = base
    BY <1>2 DEF Enqueue, bootVars
  <2>2. grown \in Seq(Nat)
    BY <1>0, AppendedQueue
  <2>3. Placed(grown, appended', base)
    BY <1>0, <1>p, <2>1, AppendPlaced
  <2> HIDE DEF grown
  <2>4. Placed(KeepNewest(grown), appended', base)
    BY <1>0, <2>1, <2>2, <2>3, KeepNewestPlaced
  <2>6. Len(KeepNewest(grown)) <= MaxQueue
    BY <2>2, KeepNewestIsSuffix
  <2> QED
    BY <1>q, <2>1, <2>4, <2>6
<1>3. ASSUME NEW t \in Flushers, Pop(t)
      PROVE  NoHoles'
  <2>1. UNCHANGED <<appended, base>>
    BY <1>3 DEF Pop, bootVars
  <2>2. CASE queue = <<>>
    BY <1>1, <1>3, <2>1, <2>2 DEF Pop
  <2>3. CASE queue # <<>>
    <3>1. queue' = Tail(queue)
      BY <1>3, <2>3 DEF Pop
    <3>2. /\ Len(queue') = Len(queue) - 1
          /\ \A i \in 1..Len(queue') : i + 1 \in 1..Len(queue) /\ queue'[i] = queue[i + 1]
      BY <1>0, <2>3, <3>1, PoppedQueue
    <3>3. ASSUME NEW i \in 1..Len(queue')
          PROVE  IF Len(queue') - i < appended - base
                 THEN queue'[i] = appended - (Len(queue') - i) ELSE queue'[i] <= base
      <4>1. Len(queue) - (i + 1) = Len(queue') - i
        BY <1>0, <3>2
      <4> QED
        BY <1>p, <3>2, <4>1 DEF Placed
    <3> QED
      BY <1>0, <1>p, <1>q, <2>1, <3>2, <3>3 DEF Placed
  <2> QED
    BY <2>2, <2>3
<1>4. CASE Gone
  <2>1. queue' = <<>> /\ Len(queue') = 0
    BY <1>4, EmptySeq DEF Gone
  <2> QED
    BY <1>0, <2>1 DEF NoHoles
<1>5. CASE Restart
  <2>1. queue' = Loaded(file) /\ appended' = appended /\ base' = appended
    BY <1>5 DEF Restart
  <2>2. CASE file = Corrupt
    <3>1. queue' = <<>> /\ Len(queue') = 0
      BY <2>1, <2>2, EmptySeq DEF Loaded
    <3> QED
      BY <1>0, <3>1 DEF NoHoles
  <2>3. CASE file # Corrupt
    <3>1. queue' = KeepNewest(file) /\ file \in Seq(Nat) /\ Len(file) \in Nat
      BY <1>0, <2>1, <2>3, LenProperties DEF Loaded
    <3>2. Placed(file, appended, appended)
      BY <1>0, <2>3, <3>1 DEF Placed, Numbering
    <3>3. Placed(queue', appended, appended) /\ Len(queue') <= MaxQueue
      BY <1>0, <3>1, <3>2, KeepNewestPlaced, KeepNewestIsSuffix
    <3> QED
      BY <1>q, <2>1, <3>3
  <2> QED
    BY <2>2, <2>3
<1> QED
  BY <1>1, <1>2, <1>3, <1>4, <1>5
  DEF Next, vars, Persist, Flush, Flushers, Exit, Crash, bufferVars, bootVars, Call,
      Snapshot, Truncate, Write, TakeHead, Relock, PostOk, PostFails, RunLoop, Stop, Join

-----------------------------------------------------------------------------
(* Delivery.                                                               *)

\* While stop() has not given up on the flusher, one thread flushes at a time.
LEMMA OneFlusher ==
  ASSUME Control, ~timedOut, NEW t \in Flushers, NEW u \in Flushers,
         pc[t] \in {"take", "post", "pop"}, pc[u] \in {"take", "post", "pop"}
  PROVE  t = u
BY DEF Control, Flushers

\* What an append does to the head of the queue when nothing is dropped.
LEMMA AppendKeepsHead ==
  ASSUME NEW q \in Seq(Nat), NEW e \in Nat, Len(Append(q, e)) <= MaxQueue
  PROVE  /\ KeepNewest(Append(q, e)) = Append(q, e)
         /\ q # <<>> => Append(q, e) # <<>> /\ Head(Append(q, e)) = Head(q)
<1>1. Append(q, e) \in Seq(Nat) /\ Len(Append(q, e)) = Len(q) + 1
  BY AppendedQueue
<1>2. KeepNewest(Append(q, e)) = Append(q, e)
  BY <1>1, KeepNewestIsSuffix
<1>3. q # <<>> => Append(q, e) # <<>> /\ Head(Append(q, e)) = Head(q)
  <2> SUFFICES ASSUME q # <<>>
               PROVE  Append(q, e) # <<>> /\ Head(Append(q, e)) = Head(q)
    OBVIOUS
  <2>1. Len(q) \in Nat \ {0} /\ Head(q) = q[1]
    BY PoppedQueue
  <2>2. Append(q, e) # <<>>
    BY <1>1, <2>1, EmptySeq
  <2>3. Head(Append(q, e)) = Append(q, e)[1] /\ Append(q, e)[1] = q[1]
    BY <1>1, <2>1, <2>2, PoppedQueue, AppendedQueue
  <2> QED
    BY <2>1, <2>2, <2>3
<1> QED
  BY <1>2, <1>3

\* Every step keeps the posted event at the head.
LEMMA HeadPostedStep ==
  ASSUME TypeOK, Control, HeadPosted, [Next]_vars
  PROVE  HeadPosted'
<1> USE DEF Goto
<1>0. /\ pc \in [Threads -> PcLabels] /\ cur \in [Threads -> Nat] /\ queue \in Seq(Nat)
      /\ appended \in Nat /\ Flushers \subseteq Threads
      /\ \A w \in Workers : w \notin Flushers
  BY ThreadsAssumption DEF TypeOK, Flushers, Threads
<1>1. CASE UNCHANGED vars
  BY <1>1 DEF vars, HeadPosted
<1>2. ASSUME NEW w \in Workers, Call(w)
      PROVE  HeadPosted'
  BY <1>0, <1>2 DEF Call, HeadPosted, bufferVars, coreVars
<1>3. ASSUME NEW w \in Workers, Enqueue(w)
      PROVE  HeadPosted'
  <2> DEFINE grown == Append(queue, appended + 1)
  <2> SUFFICES ASSUME ~saturated', ~timedOut', NEW t \in Flushers, pc'[t] \in {"post", "pop"}
               PROVE  /\ queue' # <<>> /\ Head(queue') = cur'[t]
                      /\ pc'[t] = "pop" => cur'[t] \in accepted'
    BY DEF HeadPosted
  <2>1. /\ UNCHANGED <<cur, accepted, timedOut>> /\ ~saturated
        /\ ~(Len(grown) > MaxQueue) /\ queue' = KeepNewest(grown)
    BY <1>3 DEF Enqueue, coreVars
  <2>2. pc'[t] = pc[t]
    BY <1>0, <1>3 DEF Enqueue
  <2>3. queue # <<>> /\ Head(queue) = cur[t] /\ (pc[t] = "pop" => cur[t] \in accepted)
    BY <2>1, <2>2 DEF HeadPosted
  <2>4. grown \in Seq(Nat) /\ Len(grown) \in Nat
    BY <1>0, AppendedQueue, LenProperties
  <2>5. Len(grown) <= MaxQueue
    BY <2>1, <2>4, MaxQueueAssumption
  <2>6. queue' # <<>> /\ Head(queue') = Head(queue)
    <3>1. appended + 1 \in Nat
      BY <1>0
    <3>2. /\ KeepNewest(grown) = grown
          /\ queue # <<>> => grown # <<>> /\ Head(grown) = Head(queue)
      BY <1>0, <2>5, <3>1, AppendKeepsHead
    <3> HIDE DEF grown
    <3> QED
      BY <2>1, <2>3, <3>2
  <2> QED
    BY <2>1, <2>2, <2>3, <2>6
<1>4. ASSUME NEW t \in Threads, Persist(t)
      PROVE  HeadPosted'
  <2>1. UNCHANGED <<queue, cur, accepted, saturated, timedOut>>
    BY <1>4 DEF Persist, Snapshot, Truncate, Write, bufferVars, coreVars
  <2>2. \A u \in Threads : pc'[u] \in {"post", "pop"} => pc'[u] = pc[u]
    BY <1>0, <1>4 DEF Persist, Snapshot, Truncate, Write, TypeOK
  <2> QED
    BY <1>0, <2>1, <2>2 DEF HeadPosted
<1>5. ASSUME NEW t \in Flushers, TakeHead(t)
      PROVE  HeadPosted'
  BY <1>0, <1>5 DEF TakeHead, Drained, NextEvent, HeadPosted, bufferVars, coreVars
<1>6. ASSUME NEW t \in Flushers, Relock(t) \/ PostOk(t)
      PROVE  HeadPosted'
  BY <1>0, <1>6 DEF Relock, PostOk, Record, HeadPosted, bufferVars, coreVars
<1>7. ASSUME NEW t \in Flushers, PostFails(t)
      PROVE  HeadPosted'
  BY <1>0, <1>7 DEF PostFails, AfterFailure, Record, HeadPosted, bufferVars, coreVars
<1>8. ASSUME NEW t \in Flushers, Pop(t)
      PROVE  HeadPosted'
  <2> SUFFICES ASSUME ~timedOut', NEW u \in Flushers, pc'[u] \in {"post", "pop"}
               PROVE  FALSE
    BY DEF HeadPosted
  <2>1. u # t /\ pc'[u] = pc[u] /\ ~timedOut /\ pc[t] = "pop"
    BY <1>0, <1>8 DEF Pop
  <2> QED
    BY <2>1, OneFlusher
<1>9. CASE RunLoop \/ Stop
  BY <1>0, <1>9 DEF RunLoop, Stop, HeadPosted, bufferVars, coreVars
<1>10. CASE Join
  <2>1. ~timedOut
    BY <1>10 DEF Join, Control
  <2> QED
    BY <1>0, <1>10, <2>1 DEF Join, AfterJoin, HeadPosted, bufferVars, coreVars
<1>11. CASE Gone
  BY <1>0, <1>11 DEF Gone, HeadPosted
<1>12. CASE Restart
  BY <1>0, <1>12 DEF Restart, HeadPosted
<1> QED
  BY <1>1, <1>2, <1>3, <1>4, <1>5, <1>6, <1>7, <1>8, <1>9, <1>10, <1>11, <1>12
  DEF Next, Flush, Flushers, Exit, Crash

\* Every step keeps each known event in memory or with Core.
LEMMA KeptStep ==
  ASSUME TypeOK, Control, HeadPosted, KeptUntilDelivered, [Next]_vars
  PROVE  KeptUntilDelivered'
<1>0. queue \in Seq(Nat) /\ appended \in Nat /\ file \in Seq(Nat) \cup {Corrupt}
  BY DEF TypeOK
<1>1. CASE UNCHANGED <<up, queue, accepted, known, saturated, timedOut>>
  BY <1>1 DEF KeptUntilDelivered
<1>2. ASSUME NEW w \in Workers, Enqueue(w)
      PROVE  KeptUntilDelivered'
  <2> DEFINE grown == Append(queue, appended + 1)
  <2> SUFFICES ASSUME up' # "down", ~saturated', ~timedOut'
               PROVE  known' \subseteq accepted' \cup ToSet(queue')
    BY DEF KeptUntilDelivered
  <2>1. /\ UNCHANGED <<up, accepted, timedOut>> /\ ~saturated
        /\ ~(Len(grown) > MaxQueue) /\ queue' = KeepNewest(grown)
        /\ known' = known \cup {appended + 1}
    BY <1>2 DEF Enqueue, coreVars
  <2>2. grown \in Seq(Nat) /\ Len(grown) \in Nat /\ ToSet(grown) = ToSet(queue) \cup {appended + 1}
    BY <1>0, AppendedQueue, LenProperties
  <2>3. queue' = grown
    <3> HIDE DEF grown
    <3>1. Len(grown) <= MaxQueue
      BY <2>1, <2>2, MaxQueueAssumption
    <3> QED
      BY <2>1, <2>2, <3>1, KeepNewestIsSuffix
  <2>4. known \subseteq accepted \cup ToSet(queue)
    BY <2>1 DEF KeptUntilDelivered
  <2> HIDE DEF grown
  <2> QED
    BY <2>1, <2>2, <2>3, <2>4
<1>3. ASSUME NEW t \in Flushers, PostOk(t) \/ PostFails(t)
      PROVE  KeptUntilDelivered'
  BY <1>3 DEF PostOk, PostFails, Record, KeptUntilDelivered, bufferVars, coreVars
<1>4. ASSUME NEW t \in Flushers, Pop(t)
      PROVE  KeptUntilDelivered'
  <2> SUFFICES ASSUME up' # "down", ~saturated', ~timedOut'
               PROVE  known' \subseteq accepted' \cup ToSet(queue')
    BY DEF KeptUntilDelivered
  <2>1. UNCHANGED <<up, accepted, known, saturated, timedOut>> /\ pc[t] = "pop"
    BY <1>4 DEF Pop, coreVars
  <2>2. queue # <<>> /\ Head(queue) \in accepted
    BY <2>1 DEF HeadPosted
  <2>3. queue' = Tail(queue)
    BY <1>4, <2>2 DEF Pop
  <2>4. ToSet(queue) \subseteq ToSet(queue') \cup {Head(queue)}
    BY <1>0, <2>2, <2>3, PoppedQueue
  <2>5. known \subseteq accepted \cup ToSet(queue)
    BY <2>1 DEF KeptUntilDelivered
  <2> QED
    BY <2>1, <2>2, <2>4, <2>5
<1>5. CASE Stop
  BY <1>5 DEF Stop, KeptUntilDelivered, bufferVars, coreVars
<1>6. CASE Join
  <2>1. ~timedOut /\ up # "down"
    BY <1>6 DEF Join, Control, Threads
  <2> QED
    BY <1>6, <2>1 DEF Join, KeptUntilDelivered, bufferVars, coreVars
<1>7. CASE Gone
  BY <1>7 DEF Gone, KeptUntilDelivered
<1>8. CASE Restart
  <2>1. queue' = Loaded(file) /\ known' = ToSet(Loaded(file))
    BY <1>8 DEF Restart
  <2> QED
    BY <2>1 DEF KeptUntilDelivered
<1> QED
  BY <1>1, <1>2, <1>3, <1>4, <1>5, <1>6, <1>7, <1>8
  DEF Next, vars, Persist, Flush, Flushers, Exit, Crash, bufferVars, coreVars, bootVars,
      Call, Snapshot, Truncate, Write, TakeHead, Relock, RunLoop

-----------------------------------------------------------------------------
(* Order.                                                                  *)

\* Behind an event of this process there are only later ones.
LEMMA OwnEventsInOrder ==
  ASSUME NEW q \in Seq(Nat), NEW a \in Nat, NEW b \in Nat, Placed(q, a, b),
         q # <<>>, q[1] > b, NEW i \in 1..Len(q)
  PROVE  q[1] <= q[i]
<1>1. Len(q) \in Nat \ {0} /\ 1 \in 1..Len(q)
  BY PoppedQueue
<1>2. q[1] \in Nat /\ q[i] \in Nat
  BY <1>1, ElementOfSeq
<1>3. Len(q) - 1 < a - b /\ q[1] = a - (Len(q) - 1)
  BY <1>1, <1>2 DEF Placed
<1>4. Len(q) - i < a - b
  BY <1>1, <1>3
<1>5. q[i] = a - (Len(q) - i)
  BY <1>4 DEF Placed
<1> QED
  BY <1>1, <1>3, <1>5

\* n is no later than anything in q.
Precedes(n, q) == \A i \in 1..Len(q) : n <= q[i]

\* Truncation and pops leave nothing earlier, and neither does a later event.
LEMMA PrecedesKept ==
  ASSUME NEW n \in Nat, NEW q \in Seq(Nat), Precedes(n, q)
  PROVE  /\ Precedes(n, KeepNewest(q))
         /\ q # <<>> => Precedes(n, Tail(q))
         /\ \A e \in Nat : n <= e => Precedes(n, KeepNewest(Append(q, e)))
<1>1. ASSUME NEW r \in Seq(Nat), Precedes(n, r)
      PROVE  Precedes(n, KeepNewest(r))
  <2>1. \A i \in 1..Len(KeepNewest(r)) :
          /\ Len(r) - Len(KeepNewest(r)) + i \in 1..Len(r)
          /\ KeepNewest(r)[i] = r[Len(r) - Len(KeepNewest(r)) + i]
    BY <1>1, KeepNewestIsSuffix
  <2>2. \A j \in 1..Len(r) : n <= r[j]
    BY <1>1 DEF Precedes
  <2> QED
    BY ONLY <2>1, <2>2 DEF Precedes
<1>2. q # <<>> => Precedes(n, Tail(q))
  BY PoppedQueue DEF Precedes
<1>3. ASSUME NEW e \in Nat, n <= e
      PROVE  Precedes(n, KeepNewest(Append(q, e)))
  <2>1. /\ Append(q, e) \in Seq(Nat) /\ Len(Append(q, e)) = Len(q) + 1 /\ Len(q) \in Nat
        /\ Append(q, e)[Len(q) + 1] = e
        /\ \A i \in 1..Len(q) : Append(q, e)[i] = q[i]
    BY AppendedQueue, LenProperties
  <2>2. ASSUME NEW i \in 1..(Len(q) + 1)
        PROVE  n <= Append(q, e)[i]
    <3>1. CASE i = Len(q) + 1
      BY <1>3, <2>1, <3>1
    <3>2. CASE i # Len(q) + 1
      <4>1. i \in 1..Len(q)
        BY <2>1, <3>2
      <4> QED
        BY <2>1, <4>1 DEF Precedes
    <3> QED
      BY <3>1, <3>2
  <2>3. Precedes(n, Append(q, e))
    BY <2>1, <2>2 DEF Precedes
  <2> QED
    BY <1>1, <2>1, <2>3
<1> QED
  BY <1>1, <1>2, <1>3

\* Every step keeps the older events sent first.
LEMMA SentFirstStep ==
  ASSUME TypeOK, Control, Numbering, NoHoles, SentFirst, [Next]_vars
  PROVE  SentFirst'
<1> USE DEF Goto
<1>0. /\ pc \in [Threads -> PcLabels] /\ cur \in [Threads -> Nat] /\ queue \in Seq(Nat)
      /\ appended \in Nat /\ base \in Nat /\ lastSent \in Nat
      /\ lastSent <= appended /\ \A t \in Threads : cur[t] <= appended
      /\ Flushers \subseteq Threads /\ \A w \in Workers : w \notin Flushers
  BY ThreadsAssumption DEF TypeOK, Numbering, Flushers, Threads
<1>p. SentFirst <=>
        (~timedOut =>
          /\ lastSent > base =>
               /\ Precedes(lastSent, queue)
               /\ \A t \in Flushers : pc[t] = "post" => lastSent <= cur[t]
          /\ \A t \in Flushers : pc[t] = "post" /\ cur[t] > base => Precedes(cur[t], queue))
  BY DEF SentFirst, Precedes
<1>q. SentFirst' <=>
        (~timedOut' =>
          /\ lastSent' > base' =>
               /\ Precedes(lastSent', queue')
               /\ \A t \in Flushers : pc'[t] = "post" => lastSent' <= cur'[t]
          /\ \A t \in Flushers : pc'[t] = "post" /\ cur'[t] > base' => Precedes(cur'[t], queue'))
  BY DEF SentFirst, Precedes
<1>1. CASE UNCHANGED vars
  BY <1>1 DEF vars, SentFirst
<1>2. ASSUME NEW w \in Workers, Call(w)
      PROVE  SentFirst'
  BY <1>0, <1>2 DEF Call, SentFirst, bufferVars, coreVars, bootVars
<1>3. ASSUME NEW w \in Workers, Enqueue(w)
      PROVE  SentFirst'
  <2>1. /\ UNCHANGED <<cur, lastSent, base, timedOut>>
        /\ queue' = KeepNewest(Append(queue, appended + 1))
    BY <1>3 DEF Enqueue, coreVars, bootVars
  <2>2. \A t \in Flushers : pc'[t] = pc[t]
    BY <1>0, <1>3 DEF Enqueue
  <2>3. ASSUME NEW n \in Nat, n <= appended, Precedes(n, queue)
        PROVE  Precedes(n, queue')
    <3>1. appended + 1 \in Nat /\ n <= appended + 1
      BY <1>0, <2>3
    <3> QED
      BY <1>0, <2>1, <2>3, <3>1, PrecedesKept
  <2> QED
    BY <1>0, <1>p, <1>q, <2>1, <2>2, <2>3
<1>4. ASSUME NEW t \in Threads, Persist(t)
      PROVE  SentFirst'
  <2>1. UNCHANGED <<queue, cur, lastSent, base, timedOut>>
    BY <1>4 DEF Persist, Snapshot, Truncate, Write, bufferVars, coreVars, bootVars
  <2>2. \A u \in Threads : pc'[u] = "post" => pc[u] = "post"
    BY <1>0, <1>4 DEF Persist, Snapshot, Truncate, Write, TypeOK
  <2> QED
    BY <1>0, <1>p, <1>q, <2>1, <2>2
<1>5. ASSUME NEW t \in Flushers, TakeHead(t)
      PROVE  SentFirst'
  <2>1. /\ UNCHANGED <<queue, lastSent, base, timedOut>> /\ queue # <<>>
        /\ cur' = [cur EXCEPT ![t] = Head(queue)] /\ pc' = [pc EXCEPT ![t] = "post"]
    BY <1>5 DEF TakeHead, Drained, NextEvent, bufferVars, coreVars, bootVars
  <2>2. Head(queue) = queue[1] /\ 1 \in 1..Len(queue)
    BY <1>0, <2>1, PoppedQueue
  <2>3. Placed(queue, appended, base)
    BY DEF NoHoles, Placed
  <2>4. Head(queue) > base => Precedes(Head(queue), queue)
    BY <1>0, <2>1, <2>2, <2>3, OwnEventsInOrder DEF Precedes
  <2>5. Precedes(lastSent, queue) => lastSent <= Head(queue)
    BY <2>2 DEF Precedes
  <2> QED
    BY <1>0, <1>p, <1>q, <2>1, <2>4, <2>5
<1>6. ASSUME NEW t \in Flushers, Relock(t)
      PROVE  SentFirst'
  BY <1>0, <1>6 DEF Relock, SentFirst, coreVars, bootVars
<1>7. ASSUME NEW t \in Flushers, PostOk(t) \/ PostFails(t)
      PROVE  SentFirst'
  <2>1. /\ UNCHANGED <<queue, cur, base, timedOut>> /\ lastSent' \in {lastSent, cur[t]}
        /\ pc[t] = "post"
    BY <1>7 DEF PostOk, PostFails, Record, bufferVars, coreVars, bootVars
  <2>2. \A u \in Flushers : pc'[u] = "post" => u # t /\ pc[u] = "post"
    BY <1>0, <1>7 DEF PostOk, PostFails, AfterFailure
  <2>3. ~timedOut => \A u \in Flushers : pc'[u] # "post"
    BY <2>1, <2>2, OneFlusher
  <2> QED
    BY <1>0, <1>p, <1>q, <2>1, <2>3
<1>8. ASSUME NEW t \in Flushers, Pop(t)
      PROVE  SentFirst'
  <2>1. /\ UNCHANGED <<cur, lastSent, base, timedOut>>
        /\ queue' = IF queue = <<>> THEN <<>> ELSE Tail(queue)
    BY <1>8 DEF Pop, coreVars, bootVars
  <2>2. \A u \in Flushers : pc'[u] = "post" => pc[u] = "post"
    BY <1>0, <1>8 DEF Pop
  <2>3. ASSUME NEW n \in Nat, Precedes(n, queue)
        PROVE  Precedes(n, queue')
    BY <1>0, <2>1, <2>3, PrecedesKept
  <2> QED
    BY <1>0, <1>p, <1>q, <2>1, <2>2, <2>3
<1>9. CASE RunLoop \/ Stop
  BY <1>0, <1>9 DEF RunLoop, Stop, SentFirst, bufferVars, coreVars, bootVars
<1>10. CASE Join
  <2>1. ~timedOut
    BY <1>10 DEF Join, Control
  <2> QED
    BY <1>0, <1>10, <2>1 DEF Join, AfterJoin, SentFirst, bufferVars, coreVars, bootVars
<1>11. CASE Gone
  <2>1. /\ queue' = <<>> /\ UNCHANGED <<lastSent, base>>
        /\ \A t \in Flushers : pc'[t] = "off"
    BY <1>0, <1>11 DEF Gone, coreVars, bootVars
  <2>2. \A n \in Nat : Precedes(n, queue')
    BY <2>1, EmptySeq DEF Precedes
  <2> QED
    BY <1>0, <1>q, <2>1, <2>2
<1>12. CASE Restart
  <2>1. lastSent' = 0 /\ base' = appended /\ \A t \in Flushers : pc'[t] # "post"
    BY <1>0, <1>12 DEF Restart
  <2> QED
    BY <1>0, <1>q, <2>1
<1> QED
  BY <1>1, <1>2, <1>3, <1>4, <1>5, <1>6, <1>7, <1>8, <1>9, <1>10, <1>11, <1>12
  DEF Next, Flush, Flushers, Exit, Crash

\* No step sends an event of this process after a later one.
LEMMA InOrderStep ==
  ASSUME TypeOK, SentFirst, [Next]_vars,
         lastSent > base, ~timedOut, lastSent' > 0
  PROVE  lastSent' >= lastSent
<1>1. lastSent \in Nat /\ Flushers \subseteq Threads
  BY DEF TypeOK, Flushers, Threads
<1>2. ASSUME NEW t \in Flushers, PostOk(t) \/ PostFails(t)
      PROVE  lastSent' >= lastSent
  <2>1. lastSent' \in {lastSent, cur[t]} /\ pc[t] = "post"
    BY <1>2 DEF PostOk, PostFails, Record, coreVars
  <2>2. cur[t] >= lastSent
    BY <2>1 DEF SentFirst
  <2> QED
    BY <1>1, <2>1, <2>2
<1>3. CASE Restart
  BY <1>3 DEF Restart
<1>4. CASE UNCHANGED lastSent
  BY <1>1, <1>4
<1> QED
  BY <1>2, <1>3, <1>4
  DEF Next, vars, Persist, Flush, Flushers, Exit, Crash, Gone, coreVars, Call, Enqueue,
      Snapshot, Truncate, Write, TakeHead, Relock, Pop, RunLoop, Stop, Join

-----------------------------------------------------------------------------
(* The file.                                                               *)

\* A write into the file its thread has just truncated leaves the snapshot.
LEMMA WriteAlone ==
  ASSUME TypeOK, NEW t \in Threads, Write(t), file = <<>>
  PROVE  file' = lines[t] /\ Content(file') = ToSet(lines[t])
<1>1. lines[t] \in Seq(Nat) /\ file \in Seq(Nat) \cup {Corrupt}
  BY DEF TypeOK
<1>2. file' = lines[t]
  BY <1>1, OverlayContent DEF Write
<1> QED
  BY <1>1, <1>2, CorruptAssumption DEF Content

\* Steps that leave the persists and the file alone, and add nothing to the queue.
LEMMA FileCoversFrame ==
  ASSUME FileCovers, UNCHANGED <<up, raced, lines, file>>,
         ToSet(queue') \subseteq ToSet(queue),
         \A u \in Threads : Persisting(u) \/ Persisting(u)' => pc'[u] = pc[u]
  PROVE  FileCovers'
<1>1. \A u \in Threads : Writing(u)' <=> Writing(u)
  BY DEF Writing, Persisting
<1>2. \A u \in Threads : /\ pc'[u] = "write" <=> pc[u] = "write"
                         /\ pc'[u] = "persist" <=> pc[u] = "persist"
  BY DEF Persisting
<1>3. Pending' <=> Pending
  BY <1>2 DEF Pending
<1> QED
  BY <1>1, <1>2, <1>3 DEF FileCovers, Content

\* Every step keeps the queue covered by the file.
LEMMA FileCoversStep ==
  ASSUME TypeOK, Control, FileCovers, [Next]_vars
  PROVE  FileCovers'
<1> USE DEF Goto
<1>0. /\ pc \in [Threads -> PcLabels] /\ lines \in [Threads -> Seq(Nat)]
      /\ queue \in Seq(Nat) /\ file \in Seq(Nat) \cup {Corrupt}
      /\ Flushers \subseteq Threads /\ Workers \subseteq Threads
  BY DEF TypeOK, Flushers, Threads
<1>1. CASE UNCHANGED vars
  BY <1>1, FileCoversFrame DEF vars
<1>2. ASSUME NEW w \in Workers, Call(w)
      PROVE  FileCovers'
  BY <1>0, <1>2, FileCoversFrame DEF Call, bufferVars, Persisting
<1>3. ASSUME NEW w \in Workers, Enqueue(w)
      PROVE  FileCovers'
  <2>1. pc' = [pc EXCEPT ![w] = "persist"] /\ UNCHANGED <<up, raced, lines, file>>
        /\ pc[w] = "enqueue"
    BY <1>3 DEF Enqueue, AfterAppend
  <2>2. Pending'
    BY <1>0, <2>1 DEF Pending
  <2>3. \A u \in Threads : /\ Writing(u)' <=> Writing(u)
                           /\ pc'[u] = "write" <=> pc[u] = "write"
    BY <1>0, <2>1 DEF Writing
  <2> QED
    BY <2>1, <2>2, <2>3 DEF FileCovers
<1>4. ASSUME NEW t \in Threads, Snapshot(t)
      PROVE  FileCovers'
  <2> SUFFICES ASSUME up' = "running", ~raced'
               PROVE  FileCovers'
    BY DEF FileCovers
  <2>1. /\ \A u \in Threads \ {t} : ~Writing(u)
        /\ pc' = [pc EXCEPT ![t] = "open"] /\ lines' = [lines EXCEPT ![t] = queue]
        /\ queue' = queue
    BY <1>4 DEF Snapshot, bufferVars
  <2>2. \A u \in Threads \ {t} : ~Writing(u)' /\ pc'[u] # "write"
    BY <1>0, <2>1 DEF Writing
  <2>3. Writing(t)' /\ pc'[t] = "open" /\ lines'[t] = queue'
    BY <1>0, <2>1 DEF Writing
  <2> QED
    BY <2>2, <2>3 DEF FileCovers
<1>5. ASSUME NEW t \in Threads, Truncate(t)
      PROVE  FileCovers'
  <2>1. /\ pc[t] = "open" /\ pc' = [pc EXCEPT ![t] = "write"] /\ file' = <<>>
        /\ UNCHANGED <<up, raced, lines, queue>>
    BY <1>5 DEF Truncate, bufferVars
  <2>2. \A u \in Threads : Writing(u)' <=> Writing(u)
    BY <1>0, <2>1 DEF Writing
  <2>3. Pending' <=> Pending
    BY <1>0, <2>1 DEF Pending
  <2>4. Writing(t)
    BY <2>1 DEF Writing
  <2> QED
    BY <2>1, <2>2, <2>3, <2>4 DEF FileCovers
<1>6. ASSUME NEW t \in Threads, Write(t)
      PROVE  FileCovers'
  <2> SUFFICES ASSUME up' = "running", ~raced'
               PROVE  FileCovers'
    BY DEF FileCovers
  <2>1. /\ pc[t] = "write" /\ pc' = [pc EXCEPT ![t] = ret[t]]
        /\ UNCHANGED <<up, raced, queue>> /\ ret[t] \notin {"open", "write"}
    BY <1>6 DEF Write, bufferVars, TypeOK
  <2>2. file = <<>> /\ \A u \in Threads \ {t} : ~Writing(u)
    BY <2>1 DEF FileCovers, Writing
  <2>3. \A u \in Threads : ~Writing(u)' /\ pc'[u] # "write"
    BY <1>0, <2>1, <2>2 DEF Writing
  <2>4. Pending => Pending'
    BY <1>0, <2>1 DEF Pending
  <2>5. Content(file') = ToSet(lines[t])
    BY <1>6, <2>2, WriteAlone
  <2>6. Pending \/ ToSet(queue) \subseteq ToSet(lines[t])
    BY <2>1 DEF FileCovers, Writing
  <2> QED
    BY <2>1, <2>3, <2>4, <2>5, <2>6 DEF FileCovers
<1>7. ASSUME NEW t \in Flushers, TakeHead(t) \/ Relock(t) \/ PostOk(t)
      PROVE  FileCovers'
  BY <1>0, <1>7, FileCoversFrame DEF TakeHead, Relock, PostOk, bufferVars, Persisting
<1>8. ASSUME NEW t \in Flushers, PostFails(t)
      PROVE  FileCovers'
  <2>1. pc' = [pc EXCEPT ![t] = "persist"] /\ UNCHANGED <<up, raced, lines, file>>
        /\ pc[t] = "post"
    BY <1>8 DEF PostFails, AfterFailure
  <2>2. Pending'
    BY <1>0, <2>1 DEF Pending
  <2>3. \A u \in Threads : /\ Writing(u)' <=> Writing(u)
                           /\ pc'[u] = "write" <=> pc[u] = "write"
    BY <1>0, <2>1 DEF Writing
  <2> QED
    BY <2>1, <2>2, <2>3 DEF FileCovers
<1>9. ASSUME NEW t \in Flushers, Pop(t)
      PROVE  FileCovers'
  <2>1. ToSet(queue') \subseteq ToSet(queue)
    BY <1>0, <1>9, PoppedQueue DEF Pop
  <2> QED
    BY <1>0, <1>9, <2>1, FileCoversFrame DEF Pop, Persisting
<1>10. CASE RunLoop
  BY <1>0, <1>10, FileCoversFrame DEF RunLoop, bufferVars, Persisting
<1>11. CASE Stop \/ Join \/ Gone
  <2>1. up' # "running"
    BY <1>11 DEF Stop, Join, Gone, Control
  <2> QED
    BY <2>1 DEF FileCovers
<1>12. CASE Restart
  <2>1. queue' = Loaded(file) /\ file' = file /\ \A u \in Threads : ~Writing(u)' /\ pc'[u] # "write"
    BY <1>12 DEF Restart, Writing
  <2>2. ToSet(Loaded(file)) \subseteq Content(file)
    <3>1. CASE file = Corrupt
      <4>1. Loaded(file) = <<>> /\ DOMAIN Loaded(file) = {}
        BY <3>1, EmptySeq, LenProperties DEF Loaded
      <4> QED
        BY <4>1 DEF ToSet
    <3>2. CASE file # Corrupt
      BY <1>0, <3>2, KeepNewestSubset DEF Loaded, Content
    <3> QED
      BY <3>1, <3>2
  <2> QED
    BY <2>1, <2>2 DEF FileCovers, Content
<1> QED
  BY <1>1, <1>2, <1>3, <1>4, <1>5, <1>6, <1>7, <1>8, <1>9, <1>10, <1>11, <1>12
  DEF Next, Persist, Flush, Flushers, Exit, Crash

\* While stop() persists the queue, no other thread can move.
LEMMA StopperAlone ==
  ASSUME TypeOK, Control, ~timedOut, pc[Stopper] \notin {"off", "join"}
  PROVE  up = "stopping" /\ \A t \in Threads \ {Stopper} : pc[t] \in {"idle", "ended"}
BY DEF TypeOK, Control, Threads

\* Every step keeps the queue covered by the last persist of stop().
LEMMA StopCoversStep ==
  ASSUME TypeOK, Control, StopCovers, [Next]_vars
  PROVE  StopCovers'
<1> USE DEF Goto
<1> DEFINE late == {"open", "write", "exit"}
<1>0. /\ pc \in [Threads -> PcLabels] /\ lines \in [Threads -> Seq(Nat)]
      /\ Stopper \in Threads /\ Flusher \in Threads \ {Stopper}
      /\ \A w \in Workers : w \in Threads \ {Stopper}
      /\ \A t \in Flushers : t \in Threads
  BY ThreadsAssumption DEF TypeOK, Flushers, Threads
<1>a. pc'[Stopper] \notin late => StopCovers'
  BY DEF StopCovers, Writing
<1>1. CASE UNCHANGED vars
  BY <1>1 DEF vars, StopCovers, Writing, Content
<1>2. ASSUME NEW w \in Workers, Call(w) \/ Enqueue(w)
      PROVE  StopCovers'
  <2>1. pc'[Stopper] = pc[Stopper] /\ timedOut' = timedOut
        /\ (up = "running" \/ pc[w] = "enqueue")
    BY <1>0, <1>2 DEF Call, Enqueue
  <2> QED
    BY <1>0, <1>a, <2>1, StopperAlone DEF StopCovers
<1>3. ASSUME NEW t \in Threads \ {Stopper}, Persist(t) \/ Flush(t)
      PROVE  StopCovers'
  <2>1. pc'[Stopper] = pc[Stopper] /\ timedOut' = timedOut /\ pc[t] \notin {"idle", "ended"}
    BY <1>0, <1>3 DEF Persist, Flush, Snapshot, Truncate, Write, TakeHead, Relock, PostOk,
                      PostFails, Pop
  <2> QED
    BY <1>0, <1>a, <2>1, StopperAlone DEF StopCovers
<1>4. CASE Snapshot(Stopper)
  BY <1>0, <1>4 DEF Snapshot, StopCovers, Writing, bufferVars
<1>5. CASE Truncate(Stopper)
  BY <1>0, <1>5 DEF Truncate, StopCovers, Writing, bufferVars
<1>6. CASE Write(Stopper)
  <2> SUFFICES ASSUME ~timedOut'
               PROVE  StopCovers'
    BY DEF StopCovers
  <2>1. /\ pc[Stopper] = "write" /\ pc'[Stopper] \notin {"open", "write"}
        /\ queue' = queue /\ ~timedOut
    BY <1>0, <1>6 DEF Write, bufferVars, TypeOK
  <2>2. file = <<>> /\ lines[Stopper] = queue
    BY <2>1 DEF StopCovers, Writing
  <2>3. Content(file') = ToSet(queue')
    BY <1>0, <1>6, <2>1, <2>2, WriteAlone
  <2> QED
    BY <2>1, <2>3 DEF StopCovers, Writing, Content
<1>7. CASE Flush(Stopper)
  <2>1. pc'[Stopper] \notin late
    BY <1>0, <1>7 DEF Flush, TakeHead, Relock, PostOk, PostFails, AfterFailure, Pop
  <2> QED
    BY <1>a, <2>1
<1>8. CASE RunLoop
  <2>1. pc'[Stopper] = pc[Stopper] /\ timedOut' = timedOut /\ pc[Flusher] = "loop"
    BY <1>0, <1>8 DEF RunLoop
  <2> QED
    BY <1>0, <1>a, <2>1, StopperAlone DEF StopCovers
<1>9. CASE Stop \/ Join \/ Gone \/ Restart
  <2>1. pc'[Stopper] \notin late
    BY <1>0, <1>9, ThreadsAssumption DEF Stop, Join, AfterJoin, Gone, Restart
  <2> QED
    BY <1>a, <2>1
<1> QED
  BY <1>1, <1>2, <1>3, <1>4, <1>5, <1>6, <1>7, <1>8, <1>9
  DEF Next, Persist, Exit, Crash, Flushers, Threads

-----------------------------------------------------------------------------
(* The theorems.                                                           *)

\* The inductive invariant: the properties need each other and the facts above.
BufferInv ==
  /\ TypeOK /\ Control /\ Numbering
  /\ NoHoles /\ BlockedOnlyWhenDrained
  /\ HeadPosted /\ KeptUntilDelivered /\ SentFirst
  /\ FileCovers /\ StopCovers

\* The process starts with nothing in the buffer and nothing in the file.
LEMMA BufferInit == Init => BufferInv
<1> SUFFICES ASSUME Init PROVE BufferInv
  OBVIOUS
<1>1. TypeOK
  BY TypeInit
<1>2. /\ up = "running" /\ lock = Free /\ queue = <<>> /\ file = <<>> /\ accepted = {}
      /\ appended = 0 /\ base = 0 /\ known = {} /\ lastSent = 0
      /\ ~saturated /\ ~timedOut /\ ~raced
      /\ cur = [t \in Threads |-> 0] /\ lines = [t \in Threads |-> <<>>]
  BY DEF Init
<1>3. \A t \in Threads : pc[t] \in {"idle", "loop", "off"}
  BY DEF Init
<1>4. pc[Stopper] = "off"
  BY ThreadsAssumption DEF Init, Threads
<1>5. Len(queue) = 0 /\ Len(file) = 0 /\ ToSet(queue) = {} /\ \A t \in Threads : Len(lines[t]) = 0
  BY <1>2, EmptySeq, LenProperties DEF ToSet
<1>6. Control
  BY <1>2, <1>3, <1>4 DEF Control
<1>7. Numbering
  BY <1>2, <1>5 DEF Numbering
<1>8. NoHoles
  BY <1>2, <1>5, MaxQueueAssumption DEF NoHoles
<1>9. BlockedOnlyWhenDrained /\ KeptUntilDelivered
  BY <1>2 DEF BlockedOnlyWhenDrained, KeptUntilDelivered
<1>10. HeadPosted /\ SentFirst
  BY <1>2, <1>3 DEF HeadPosted, SentFirst, Flushers, Threads
<1>11. FileCovers /\ StopCovers
  BY <1>3, <1>4, <1>5 DEF FileCovers, StopCovers, Writing
<1> QED
  BY <1>1, <1>6, <1>7, <1>8, <1>9, <1>10, <1>11 DEF BufferInv

\* Every step keeps the inductive invariant.
LEMMA BufferStep == BufferInv /\ [Next]_vars => BufferInv'
BY TypeStep, ControlStep, NumberingStep, NoHolesStep, LockStep, HeadPostedStep, KeptStep,
   SentFirstStep, FileCoversStep, StopCoversStep
DEF BufferInv

\* The inductive invariant holds in every behaviour.
THEOREM BufferInvariant == Spec => []BufferInv
BY BufferInit, BufferStep, PTL DEF Spec

\* The buffer respects its limit and loses events at its head only (enqueue_usage,
\* _flush_once, _load_queue).
THEOREM QueueHasNoHoles == Spec => []NoHoles
<1>1. BufferInv => NoHoles
  BY DEF BufferInv
<1> QED
  BY <1>1, BufferInvariant, PTL

\* Until the queue overflows or stop() leaves the flusher behind, no event leaves
\* memory before Core has recorded it (_flush_once).
THEOREM NothingLostInMemory == Spec => []KeptUntilDelivered
<1>1. BufferInv => KeptUntilDelivered
  BY DEF BufferInv
<1> QED
  BY <1>1, BufferInvariant, PTL

\* A flush that waits for its own lock holds back no event (_flush_once).
THEOREM BlockedFlushIsEmpty == Spec => []BlockedOnlyWhenDrained
<1>1. BufferInv => BlockedOnlyWhenDrained
  BY DEF BufferInv
<1> QED
  BY <1>1, BufferInvariant, PTL

\* Between persists that do not overlap, a crash loses nothing (_persist_queue).
THEOREM FileHoldsQueue == Spec => []CrashSafeWhenQuiet
<1>1. BufferInv => CrashSafeWhenQuiet
  BY DEF BufferInv, FileCovers, CrashSafeWhenQuiet, Pending, Writing, Persisting
<1> QED
  BY <1>1, BufferInvariant, PTL

\* An orderly shutdown loses nothing, with or without Core (stop).
THEOREM ShutdownKeepsEvents == Spec => []CleanStopKeeps
<1>1. BufferInv => CleanStopKeeps
  <2> SUFFICES ASSUME BufferInv, pc[Stopper] = "exit", ~saturated, ~timedOut
               PROVE  known \subseteq accepted \cup Content(file)
    BY DEF CleanStopKeeps
  <2>1. up # "down"
    BY DEF BufferInv, Control, Threads
  <2>2. known \subseteq accepted \cup ToSet(queue)
    BY <2>1 DEF BufferInv, KeptUntilDelivered
  <2>3. ToSet(queue) \subseteq Content(file)
    BY DEF BufferInv, StopCovers
  <2> QED
    BY <2>2, <2>3
<1> QED
  BY <1>1, BufferInvariant, PTL

\* Core records the events of a process in the order they were appended
\* (_flush_once).
THEOREM EventsInOrder == Spec => InOrder
<1>1. BufferInv /\ [Next]_vars
        => [lastSent > base /\ ~timedOut /\ lastSent' > 0 => lastSent' >= lastSent]_vars
  BY InOrderStep DEF BufferInv
<1> QED
  BY <1>1, BufferInvariant, PTL DEF Spec, InOrder
=============================================================================
