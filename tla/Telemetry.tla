------------------------------ MODULE Telemetry ------------------------------
(***************************************************************************)
(* app/services/telemetry_reporter.py: the bounded buffer of usage events  *)
(* that publish requests fill, a background thread posts to Core, and      *)
(* telemetry_queue.jsonl mirrors so that a restart can reload it.          *)
(*                                                                         *)
(* Threads: one per publish request being served (FastAPI runs the         *)
(* synchronous handlers in a thread pool), the daemon flusher, and the     *)
(* main thread, which runs stop() at shutdown.  An action is what a thread *)
(* does between two points where another one can step in: a section under  *)
(* self._lock, a post to Core, the truncation of the file, the write.      *)
(* Reporting is enabled (SYNTHIA_TELEMETRY_ENABLED); switched off, every   *)
(* operation but stop()'s persist returns at once.                         *)
(***************************************************************************)
EXTENDS Integers, Sequences, FiniteSets, SequencesExt

CONSTANTS
  Workers,      \* the threads that serve publish requests
  Flusher,      \* the thread of _run_loop
  Stopper,      \* the main thread, which calls stop()
  CoreUrlSet,   \* is CORE_BASE_URL or CORE_URL set in the environment
  MaxQueue,     \* SYNTHIA_TELEMETRY_MAX_QUEUE
  Corrupt,      \* a file content _load_queue cannot parse
  MaxEvents,    \* bound: publish requests over the whole behaviour
  MaxRestarts   \* bound: restarts of the process

ASSUME ThreadsAssumption ==
  /\ Flusher \notin Workers
  /\ Stopper \notin Workers
  /\ Flusher # Stopper
ASSUME MaxQueueAssumption == MaxQueue \in Nat \ {0}
ASSUME CoreUrlAssumption == CoreUrlSet \in BOOLEAN
ASSUME BoundsAssumption == MaxEvents \in Nat /\ MaxRestarts \in Nat
ASSUME CorruptAssumption == Corrupt \notin Seq(Nat)

Free == "free"                     \* nobody holds self._lock
Threads == Workers \cup {Flusher, Stopper}

VARIABLES
  up,        \* "running", "stopping" (stop_event is set) or "down"
  pc,        \* what each thread does next
  ret,       \* where each thread goes when _persist_queue returns
  lock,      \* the thread that keeps holding self._lock, or Free
  queue,     \* self._queue: event numbers, in the order they were appended
  cur,       \* next_event of the flush each thread is in
  lines,     \* the snapshot of the queue each thread is about to write
  file,      \* telemetry_queue.jsonl
  accepted,  \* Core: the events it has recorded
  \* history, read by the properties only
  appended,  \* events appended so far; an event is its number
  base,      \* the value of appended when this process booted
  known,     \* the events this process has loaded or appended
  lastSent,  \* the last event Core recorded from this process, 0 if none
  saturated, \* has this process dropped an event because the queue was full
  timedOut,  \* did stop() give up waiting for the flusher
  raced,     \* did two persists of this process overlap
  restarts   \* restarts so far

threadVars == <<pc, ret, cur, lines>>
bufferVars == <<lock, queue>>
coreVars == <<accepted, lastSent>>
bootVars == <<base, restarts>>
vars == <<up, pc, ret, lock, queue, cur, lines, file, accepted, appended,
          base, known, lastSent, saturated, timedOut, raced, restarts>>

Goto(t, label) == pc' = [pc EXCEPT ![t] = label]

\* A thread is between the truncation of the file and the end of its write, or
\* holds a snapshot that it has not written yet.
Writing(t) == pc[t] \in {"open", "write"}
Persisting(t) == pc[t] \in {"persist", "open", "write"}

\* Mutant: the oldest events are kept.
KeepOldest(q) == IF Len(q) > MaxQueue THEN SubSeq(q, 1, MaxQueue) ELSE q

\* self._queue[-self._max_queue:]
KeepNewest(q) ==
  IF Len(q) > MaxQueue THEN SubSeq(q, Len(q) - MaxQueue + 1, Len(q)) ELSE q

\* The contents a write of lines s at offset 0 can leave when another thread
\* has written f since this one truncated the file: what is longer in f
\* survives after s, and where the two hold different events, whose lines
\* differ in length, the file may stop being parseable.
Overlay(s, f) ==
  IF f = Corrupt THEN {s, Corrupt}
  ELSE {s \o SubSeq(f, Len(s) + 1, Len(f))}
         \cup IF IsPrefix(s, f) \/ IsPrefix(f, s) THEN {} ELSE {Corrupt}

\* Mutant: a line that is no event is kept (no isinstance check).
LoadedUnchecked(f) == IF f = Corrupt THEN <<Corrupt>> ELSE KeepNewest(f)

\* _load_queue
Loaded(f) == IF f = Corrupt THEN <<>> ELSE KeepNewest(f)

\* Mutants of the definitions below, in their order: the file is left to the
\* flush; the flush persists before it looks at the queue; a refused event is
\* dropped, or retried at once; a failure ends the thread; stop() only joins.
AfterAppendReturn == "idle"
DrainedAlways == TRUE
AfterFailureDrop == "pop"
AfterFailureRetry == "take"
ReturnEnds(t) == "ended"
AfterJoinExit == "exit"

\* Where enqueue_usage, _flush_once and stop() go on.
AfterAppend == "persist"       \* enqueue_usage writes the file before it returns
NextEvent == Head(queue)
Drained == queue = <<>>
AfterFailure == "persist"      \* _flush_once persists and returns, to the loop or
ReturnFromFlush(t) ==          \* to stop()'s own persist
  IF t = Flusher THEN "loop" ELSE "persist"
AfterJoin == IF CoreUrlSet THEN "take" ELSE "persist"

Init ==
  /\ up = "running"
  /\ pc = [t \in Threads |-> IF t \in Workers THEN "idle"
                             ELSE IF t = Flusher THEN "loop" ELSE "off"]
  /\ ret = [t \in Threads |-> "idle"]
  /\ lock = Free
  /\ queue = <<>>
  /\ cur = [t \in Threads |-> 0]
  /\ lines = [t \in Threads |-> <<>>]
  /\ file = <<>>
  /\ accepted = {} /\ appended = 0 /\ base = 0 /\ known = {} /\ lastSent = 0
  /\ saturated = FALSE /\ timedOut = FALSE /\ raced = FALSE /\ restarts = 0

-----------------------------------------------------------------------------
(* enqueue_usage, on the thread of a publish request.                      *)

\* The publish has succeeded; the handler reports it.
Call(w) ==
  /\ up = "running" /\ pc[w] = "idle"
  /\ appended + Cardinality({x \in Workers : pc[x] = "enqueue"}) < MaxEvents
  /\ Goto(w, "enqueue")
  /\ UNCHANGED <<up, ret, cur, lines, bufferVars, file, coreVars, bootVars,
                 appended, known, saturated, timedOut, raced>>

Enqueue(w) ==
  LET grown == Append(queue, appended + 1) IN
  /\ pc[w] = "enqueue" /\ lock = Free
  /\ appended' = appended + 1
  /\ known' = known \cup {appended + 1}
  /\ queue' = KeepNewest(grown)
  /\ saturated' = (saturated \/ Len(grown) > MaxQueue)
  /\ Goto(w, AfterAppend)
  /\ ret' = [ret EXCEPT ![w] = "idle"]
  /\ UNCHANGED <<up, lock, cur, lines, file, coreVars, bootVars, timedOut, raced>>

-----------------------------------------------------------------------------
(* _persist_queue, on any thread: snapshot under the lock, then write the  *)
(* file with the lock released.                                            *)

Snapshot(t) ==
  /\ pc[t] = "persist" /\ lock = Free
  /\ lines' = [lines EXCEPT ![t] = queue]
  /\ raced' = (raced \/ \E u \in Threads \ {t} : Writing(u))
  /\ Goto(t, "open")
  /\ UNCHANGED <<up, ret, cur, bufferVars, file, coreVars, bootVars, appended,
                 known, saturated, timedOut>>

Truncate(t) ==
  /\ pc[t] = "open"
  /\ file' = <<>>
  /\ Goto(t, "write")
  /\ UNCHANGED <<up, ret, cur, lines, bufferVars, coreVars, bootVars, appended,
                 known, saturated, timedOut, raced>>

\* The call returns to where ret says: a failed flush inside stop() goes on to
\* stop()'s own persist, after which the process exits.
Write(t) ==
  /\ pc[t] = "write"
  /\ file' \in Overlay(lines[t], file)
  /\ lines' = [lines EXCEPT ![t] = <<>>]
  /\ Goto(t, ret[t])
  /\ ret' = [ret EXCEPT ![t] = IF ret[t] = "persist" THEN "exit" ELSE ret[t]]
  /\ UNCHANGED <<up, cur, bufferVars, coreVars, bootVars, appended, known,
                 saturated, timedOut, raced>>

-----------------------------------------------------------------------------
(* _flush_once, on the flusher and, at shutdown, on the main thread.       *)

TakeHead(t) ==
  /\ pc[t] = "take" /\ lock = Free /\ ~Drained
  /\ cur' = [cur EXCEPT ![t] = NextEvent]
  /\ Goto(t, "post")
  /\ UNCHANGED <<up, ret, lines, bufferVars, file, coreVars, bootVars,
                 appended, known, saturated, timedOut, raced>>

\* The queue is empty: _persist_queue is called inside "with self._lock", and
\* acquires the same non-reentrant lock.  The thread waits for itself.
Relock(t) ==
  /\ pc[t] = "take" /\ lock = Free /\ Drained
  /\ lock' = t
  /\ Goto(t, "relock")
  /\ UNCHANGED <<up, ret, cur, lines, queue, file, coreVars, bootVars,
                 appended, known, saturated, timedOut, raced>>

Record(e) == accepted' = accepted \cup {e} /\ lastSent' = e

PostOk(t) ==
  /\ pc[t] = "post"
  /\ Record(cur[t])
  /\ Goto(t, "pop")
  /\ UNCHANGED <<up, ret, cur, lines, bufferVars, file, bootVars,
                 appended, known, saturated, timedOut, raced>>

\* Mutant: an event that was refused goes to the end of the queue.
RequeuedAtEnd(t) ==
  /\ pc[t] = "post" /\ queue # <<>>
  /\ queue' = Append(Tail(queue), Head(queue))
  /\ Goto(t, AfterFailure)
  /\ ret' = [ret EXCEPT ![t] = ReturnFromFlush(t)]
  /\ UNCHANGED <<up, lock, cur, lines, file, coreVars, bootVars, appended, known,
                 saturated, timedOut, raced>>

\* Core is down, refuses the event, or records it and answers too late.
PostFails(t) ==
  /\ pc[t] = "post"
  /\ Record(cur[t]) \/ UNCHANGED <<accepted, lastSent>>
  /\ Goto(t, AfterFailure)
  /\ ret' = [ret EXCEPT ![t] = ReturnFromFlush(t)]
  /\ UNCHANGED <<up, cur, lines, bufferVars, file, bootVars, appended, known,
                 saturated, timedOut, raced>>

\* "if self._queue: self._queue.pop(0)": the head now, not the event posted.
Pop(t) ==
  /\ pc[t] = "pop" /\ lock = Free
  /\ queue' = IF queue = <<>> THEN <<>> ELSE Tail(queue)
  /\ Goto(t, "take")
  /\ UNCHANGED <<up, ret, lock, cur, lines, file, coreVars, bootVars, appended,
                 known, saturated, timedOut, raced>>

\* The flush interval has passed, or the stop event cuts the wait short.
RunLoop ==
  /\ pc[Flusher] = "loop"
  /\ \/ up = "stopping" /\ Goto(Flusher, "ended")
     \/ up = "running" /\ CoreUrlSet /\ Goto(Flusher, "take")
  /\ UNCHANGED <<up, ret, cur, lines, bufferVars, file, coreVars, bootVars,
                 appended, known, saturated, timedOut, raced>>

-----------------------------------------------------------------------------
(* start and stop of the process (app/main.py).                            *)

\* The server runs the shutdown handler once no request is in progress.
Stop ==
  /\ up = "running"
  /\ \A w \in Workers : pc[w] = "idle"
  /\ up' = "stopping"
  /\ Goto(Stopper, "join")
  /\ UNCHANGED <<ret, cur, lines, bufferVars, file, coreVars, bootVars,
                 appended, known, saturated, timedOut, raced>>

\* join(timeout=2): the thread has ended, or two seconds have passed.
Join ==
  /\ pc[Stopper] = "join"
  /\ timedOut' = (pc[Flusher] # "ended")
  /\ Goto(Stopper, AfterJoin)
  /\ ret' = [ret EXCEPT ![Stopper] = "exit"]
  /\ UNCHANGED <<up, cur, lines, bufferVars, file, coreVars, bootVars,
                 appended, known, saturated, raced>>

\* The process is gone and every thread with it.
Gone ==
  /\ up' = "down"
  /\ pc' = [t \in Threads |-> "off"]
  /\ ret' = [t \in Threads |-> "idle"]
  /\ lines' = [t \in Threads |-> <<>>]
  /\ cur' = [t \in Threads |-> 0]
  /\ lock' = Free /\ queue' = <<>>
  /\ UNCHANGED <<file, coreVars, bootVars, appended, known, saturated,
                 timedOut, raced>>

Exit == pc[Stopper] = "exit" /\ Gone

\* A kill, at any point; the container stop of a process that does not end.
Crash == up # "down" /\ restarts < MaxRestarts /\ Gone

Restart ==
  /\ up = "down" /\ restarts < MaxRestarts
  /\ restarts' = restarts + 1
  /\ up' = "running"
  /\ pc' = [t \in Threads |-> IF t \in Workers THEN "idle"
                              ELSE IF t = Flusher THEN "loop" ELSE "off"]
  /\ queue' = Loaded(file)
  /\ base' = appended
  /\ known' = ToSet(Loaded(file))
  /\ lastSent' = 0
  /\ saturated' = FALSE /\ timedOut' = FALSE /\ raced' = FALSE
  /\ UNCHANGED <<ret, cur, lines, lock, file, accepted, appended>>

-----------------------------------------------------------------------------

Persist(t) == Snapshot(t) \/ Truncate(t) \/ Write(t)
Flush(t) == TakeHead(t) \/ Relock(t) \/ PostOk(t) \/ PostFails(t) \/ Pop(t)

Next ==
  \/ \E w \in Workers : Call(w) \/ Enqueue(w)
  \/ \E t \in Threads : Persist(t)
  \/ \E t \in {Flusher, Stopper} : Flush(t)
  \/ RunLoop \/ Stop \/ Join \/ Exit \/ Crash \/ Restart

Spec == Init /\ [][Next]_vars

\* Threads that can run do run, a lock that is free is eventually granted to a
\* thread that waits for it, the flush timer fires, a post ends (its timeout is
\* three seconds).  Publishes, shutdowns and crashes need not happen.
Fairness ==
  /\ \A w \in Workers : WF_vars(Enqueue(w))
  /\ \A t \in Threads : WF_vars(Persist(t))
  /\ \A t \in {Flusher, Stopper} : WF_vars(Flush(t))
  /\ WF_vars(RunLoop) /\ WF_vars(Join) /\ WF_vars(Exit)

\* Core recovers: a post that is tried again and again gets through.
CoreRecovers == SF_vars(PostOk(Flusher))

FairSpec == Spec /\ Fairness
LiveSpec == FairSpec /\ CoreRecovers

-----------------------------------------------------------------------------
(* Properties.                                                             *)

PcLabels == {"idle", "enqueue", "persist", "open", "write", "loop", "take",
             "post", "pop", "relock", "ended", "off", "join", "exit"}

Content(f) == IF f = Corrupt THEN {} ELSE ToSet(f)

\* Every variable has its type.
TypeOK ==
  /\ up \in {"running", "stopping", "down"}
  /\ pc \in [Threads -> PcLabels]
  /\ ret \in [Threads -> {"idle", "loop", "persist", "exit"}]
  /\ lock \in Threads \cup {Free}
  /\ queue \in Seq(Nat)
  /\ cur \in [Threads -> Nat]
  /\ lines \in [Threads -> Seq(Nat)]
  /\ file \in Seq(Nat) \cup {Corrupt}
  /\ accepted \in SUBSET Nat /\ known \in SUBSET Nat
  /\ appended \in Nat /\ base \in Nat /\ lastSent \in Nat /\ restarts \in Nat
  /\ saturated \in BOOLEAN /\ timedOut \in BOOLEAN /\ raced \in BOOLEAN

\* The buffer never exceeds its limit and loses events at its head only: those
\* of this process that it holds are consecutive and end with the newest one,
\* behind what is left of the reloaded ones.  (The truncation of enqueue_usage
\* and the pop of _flush_once, in any interleaving.)
NoHoles ==
  /\ Len(queue) <= MaxQueue
  /\ \A i \in 1..Len(queue) :
       IF Len(queue) - i < appended - base
       THEN queue[i] = appended - (Len(queue) - i)
       ELSE queue[i] <= base

\* While the queue has not overflowed and stop() has not left the flusher
\* running behind it, an event this process loaded or appended is in memory
\* until Core has recorded it ("Failure-safe: keep buffered queue").
KeptUntilDelivered ==
  up # "down" /\ ~saturated /\ ~timedOut => known \subseteq accepted \cup ToSet(queue)

\* When no persist is under way and none has overlapped another one, the file
\* holds at least what memory holds: a crash here loses nothing.
CrashSafeWhenQuiet ==
  up = "running" /\ ~raced /\ (\A t \in Threads : ~Persisting(t))
    => ToSet(queue) \subseteq Content(file)

\* An orderly shutdown leaves every event either recorded by Core or in the file
\* that the next process loads, whether or not the last flush got through.
CleanStopKeeps ==
  pc[Stopper] = "exit" /\ ~saturated /\ ~timedOut
    => known \subseteq accepted \cup Content(file)

\* When the flush waits for a lock it holds itself, blocking every later
\* publish, the buffer is empty: the blocked process holds no event back.
BlockedOnlyWhenDrained ==
  lock # Free => pc[lock] = "relock" /\ queue = <<>>

\* Core records the events of this process (those past the reloaded ones) in the
\* order they were appended; a retry repeats one and never steps back.
InOrder ==
  [][lastSent > base /\ ~timedOut /\ lastSent' > 0 => lastSent' >= lastSent]_vars

\* A publish request that reports its usage gets its answer (or the process
\* ends), whatever Core does: docs/api.md, "runtime continues operating when
\* Core is offline (no request-path failure on telemetry post failure)".
PublishReturns ==
  \A w \in Workers : pc[w] = "enqueue" ~> pc[w] \in {"idle", "off"}

\* The one thing that can keep enqueue_usage, or stop() at shutdown, from ending
\* is a flush that waits for itself; not a file write, a slow Core, a Core that
\* is down or the other requests.
OnlyFlushBlocks ==
  /\ \A w \in Workers :
       pc[w] = "enqueue" ~> pc[w] \in {"idle", "off"} \/ lock \in {Flusher, Stopper}
  /\ up = "stopping" ~> up = "down" \/ lock \in {Flusher, Stopper}

\* If Core accepts posts again and again, a buffered event leaves the buffer:
\* one failing flush never ends the retries.
EventuallyFlushed ==
  \A e \in 1..MaxEvents : (e \in ToSet(queue)) ~> (e \notin ToSet(queue))
=============================================================================
