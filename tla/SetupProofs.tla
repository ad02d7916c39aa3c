----------------------------- MODULE SetupProofs -----------------------------
(***************************************************************************)
(* That the publish gate opens behind a finished apply only, for any       *)
(* endpoints, requests, failures, crashes and lost files, as long as one   *)
(* request is under way at a time; and, for any number of requests at      *)
(* once, that only a tested endpoint is applied.                           *)
(*                                                                         *)
(* An apply goes through phases, named after the step it makes next.  What *)
(* holds of the files and of the client in each phase is the inductive     *)
(* invariant; every other handler has at most two steps, none of which     *)
(* opens the gate.                                                         *)
(***************************************************************************)
EXTENDS Setup, FiniteSetTheorems, SequenceTheorems, TLAPS

OneAtATime == MaxActive = 1

-----------------------------------------------------------------------------
(* The phases of an apply.                                                 *)

Phases == {"mark", "check", "write", "configured", "files", "group", "note", "load",
           "finish", "done"}

FromOutside(r) == r.kind = "apply external"
NeedsTest(r) == FromOutside(r) /\ ~r.waived

MarkStep == Marked[1]
CheckStep == Step("check", None, FALSE)
WriteStep(r) == ApplyConfig(Applied(r).mode, Applied(r).endpoint)[1]
ConfiguredStep == ApplyConfig("embedded", Embedded)[2]
FilesStep == BrokerSteps[1]
GroupStep == BrokerSteps[2]
NoteStep == UpdateSession(None)
LoadStep == ReloadAndReady[1]
FinishStep == ReloadAndReady[2]

\* Which phases an apply has.
Allowed(r, p) ==
  /\ IsApply(r) /\ p \in Phases
  /\ p = "check" => NeedsTest(r)
  /\ p \in {"files", "group", "note"} => ~FromOutside(r)

\* The step of a phase, and the phase after it.
StepOf(r, p) ==
  CASE p = "mark"       -> MarkStep
    [] p = "check"      -> CheckStep
    [] p = "write"      -> WriteStep(r)
    [] p = "configured" -> ConfiguredStep
    [] p = "files"      -> FilesStep
    [] p = "group"      -> GroupStep
    [] p = "note"       -> NoteStep
    [] p = "load"       -> LoadStep
    [] p = "finish"     -> FinishStep

After(r, p) ==
  CASE p = "mark"       -> IF NeedsTest(r) THEN "check" ELSE "write"
    [] p = "check"      -> "write"
    [] p = "write"      -> "configured"
    [] p = "configured" -> IF FromOutside(r) THEN "load" ELSE "files"
    [] p = "files"      -> "group"
    [] p = "group"      -> "load"
    [] p = "note"       -> "load"
    [] p = "load"       -> "finish"
    [] p = "finish"     -> "done"

\* The steps an apply has left in a phase.
FromLoad == <<LoadStep, FinishStep>>
FromFiles == <<FilesStep, GroupStep, LoadStep, FinishStep>>
FromConfigured(r) ==
  IF FromOutside(r) THEN <<ConfiguredStep, LoadStep, FinishStep>>
  ELSE <<ConfiguredStep, FilesStep, GroupStep, LoadStep, FinishStep>>
FromWrite(r) ==
  IF FromOutside(r) THEN <<WriteStep(r), ConfiguredStep, LoadStep, FinishStep>>
  ELSE <<WriteStep(r), ConfiguredStep, FilesStep, GroupStep, LoadStep, FinishStep>>
FromCheck(r) == <<CheckStep, WriteStep(r), ConfiguredStep, LoadStep, FinishStep>>
FromMark(r) ==
  IF NeedsTest(r)
  THEN <<MarkStep, CheckStep, WriteStep(r), ConfiguredStep, LoadStep, FinishStep>>
  ELSE IF FromOutside(r) THEN <<MarkStep, WriteStep(r), ConfiguredStep, LoadStep, FinishStep>>
  ELSE <<MarkStep, WriteStep(r), ConfiguredStep, FilesStep, GroupStep, LoadStep, FinishStep>>

Left(r, p) ==
  CASE p = "mark"       -> FromMark(r)
    [] p = "check"      -> FromCheck(r)
    [] p = "write"      -> FromWrite(r)
    [] p = "configured" -> FromConfigured(r)
    [] p = "files"      -> FromFiles
    [] p = "group"      -> <<GroupStep, LoadStep, FinishStep>>
    [] p = "note"       -> <<NoteStep, LoadStep, FinishStep>>
    [] p = "load"       -> FromLoad
    [] p = "finish"     -> <<FinishStep>>
    [] p = "done"       -> <<>>

-----------------------------------------------------------------------------
(* The inductive invariant.                                                *)

Closed(content) == content \in Sessions => content.setup \notin {"ready", "error"}

\* What holds when an apply that has not failed is in phase p.
Stands(t, p) ==
  /\ Allowed(req[t], p) /\ todo[t] = Left(req[t], p)
  /\ p \notin {"mark", "done"} => Closed(session) /\ Closed(view[t])
  /\ p \notin {"mark", "check"} /\ NeedsTest(req[t]) => req[t].endpoint \in okTests
  /\ p \notin {"mark", "check", "write"} => conf = Applied(req[t])
  /\ p \in {"note", "load", "finish", "done"} /\ ~FromOutside(req[t]) => brokerGroup
  /\ p \in {"finish", "done"} => client = conf.endpoint
  /\ p = "done" => Ready /\ session.verified /\ ~session.error

Settling == {"apply external", "apply embedded", "mode", "test", "reset"}

\* What a handler that is no apply, or an apply that failed, may set: never
\* "ready", never configured, and no test that has not been passed.
Harmless(tests, r, x) ==
  /\ x.do \notin {"check", "broker files", "broker group"}
  /\ x.do = "probe" => r.kind = "test"
  /\ x.do = "core" => r.kind = "register"
  /\ x.do = "docker" => r.kind = "restart"
  /\ x.do = "select" => r.kind = "groups"
  /\ x.do = "reset" => r.kind = "reset"
  /\ x.do = "session" =>
       /\ "setup" \in DOMAIN x.set => x.set.setup \in {"configuring", "error"}
       /\ "setup" \in DOMAIN x.set => "configured" \in DOMAIN x.set \/ x.set.setup # "error"
       /\ "configured" \in DOMAIN x.set =>
            x.set.configured = FALSE /\ "setup" \in DOMAIN x.set
       /\ "verified" \in DOMAIN x.set => x.set.verified \in BOOLEAN
       /\ "registered" \in DOMAIN x.set => x.set.registered \in BOOLEAN
       /\ "error" \in DOMAIN x.set => x.set.error \in BOOLEAN
       /\ "tested" \in DOMAIN x.set => x.set.tested \in tests \cup {Nil}
       /\ r.kind \in Settling => "setup" \in DOMAIN x.set
  /\ x.do = "conf" =>
       /\ ~IsApply(r)
       /\ "mode" \in DOMAIN x.set => x.set.mode \in {"external", "embedded"}
       /\ "endpoint" \in DOMAIN x.set => r.kind = "config" /\ x.set.endpoint \in Endpoints

Short(tests, r, s) ==
  \/ s = <<>>
  \/ s = <<s[1]>> /\ Harmless(tests, r, s[1])
  \/ s = <<s[1], s[2]>> /\ Harmless(tests, r, s[1]) /\ Harmless(tests, r, s[2])

\* A configuration update that has yet to reload the client.
Loading(t) == req[t].kind = "config" /\ todo[t] = <<Step("reload", None, FALSE)>>

\* How far the update of a file has come, and what it has read.
UpdateStands(t) ==
  /\ stage[t] # "start" => \/ At(t, "session") \/ At(t, "conf")
                           \/ At(t, "reset") /\ stage[t] = "open"
  /\ stage[t] = "open" => IF At(t, "conf") THEN conf = Torn ELSE session = Torn
  /\ stage[t] # "start" /\ At(t, "session") =>
       /\ view[t] \in Sessions /\ view[t].tested \in okTests \cup {Nil}
       /\ view[t].setup = "error" => ~view[t].configured
       /\ view[t].setup = "ready" =>
            view[t].configured /\ last = "apply ok" /\ (conf # Torn => client = conf.endpoint)
  /\ stage[t] # "start" /\ At(t, "conf") =>
       /\ view[t] \in Confs
       /\ Ready => client = view[t].endpoint

HandlerStands(t) ==
  /\ UpdateStands(t)
  /\ IF IsApply(req[t]) /\ ~failed[t] THEN \E p \in Phases : Stands(t, p)
                                       ELSE Short(okTests, req[t], todo[t])
  /\ req[t].kind = "config" =>
       todo[t] \in {UpdateConfig(req[t]), <<Step("reload", None, FALSE)>>, <<>>}

\* Nobody but the threads of requests under way has anything to do.
Served ==
  /\ \A t, u \in Busy : t = u
  /\ \A t \in Threads : req[t] = Nil => stage[t] = "start" /\ todo[t] = <<>>
  /\ Busy # {} => up
  /\ DOMAIN todo = Threads /\ DOMAIN view = Threads

TestsKnown == session \in Sessions => session.tested \in okTests \cup {Nil}
GateStands == Ready => last = "apply ok"
ClientStands ==
  Ready /\ up /\ conf # Torn /\ (\A t \in Busy : ~Loading(t)) => client = conf.endpoint

SetupInv ==
  /\ SetupTypeOK /\ Served
  /\ TestsKnown /\ GateStands /\ ClientStands
  /\ \A t \in Busy : HandlerStands(t)

-----------------------------------------------------------------------------
(* The lists of steps.                                                     *)

\* What a request of each kind carries.
LEMMA RequestFacts ==
  ASSUME NEW r \in Requests
  PROVE  /\ r # Nil
         /\ FromOutside(r) => r.endpoint \in Endpoints /\ r.waived \in BOOLEAN
         /\ r.kind \in {"test", "config"} => r.endpoint \in Endpoints
         /\ r.kind = "mode" => r.mode \in {"external", "embedded"}
         /\ r.kind = "groups" => r.broker \in BOOLEAN
         /\ r.kind \in {"apply external", "apply embedded", "mode", "test", "config",
                        "groups", "register", "restart", "reset", "core url"}
BY ValuesAssumption DEF Requests, FromOutside

\* Head and tail of the longer lists.
LEMMA LongLists ==
  ASSUME NEW a, NEW b, NEW c, NEW d, NEW e, NEW f, NEW g
  PROVE  /\ <<a, b, c, d, e>>[1] = a /\ Tail(<<a, b, c, d, e>>) = <<b, c, d, e>>
         /\ <<a, b, c, d, e, f>>[1] = a /\ Tail(<<a, b, c, d, e, f>>) = <<b, c, d, e, f>>
         /\ <<a, b, c, d, e, f, g>>[1] = a
         /\ Tail(<<a, b, c, d, e, f, g>>) = <<b, c, d, e, f, g>>
         /\ <<a, b, c, d, e>> # <<>> /\ <<a, b, c, d, e, f>> # <<>>
         /\ <<a, b, c, d, e, f, g>> # <<>>
OBVIOUS

\* In each phase of an apply, the next step and what is left after it.
LEMMA LeftFacts ==
  ASSUME NEW r, NEW p, Allowed(r, p), p # "done"
  PROVE  /\ Left(r, p) # <<>> /\ Left(r, p)[1] = StepOf(r, p)
         /\ Tail(Left(r, p)) = Left(r, After(r, p))
         /\ Allowed(r, After(r, p))
<1>1. CASE p = "mark"
  <2>1. Left(r, p) = FromMark(r) /\ StepOf(r, p) = MarkStep
    BY <1>1 DEF Left, StepOf
  <2>2. CASE NeedsTest(r)
    <3>1. /\ After(r, p) = "check" /\ Left(r, "check") = FromCheck(r)
          /\ FromMark(r) = <<MarkStep, CheckStep, WriteStep(r), ConfiguredStep, LoadStep, FinishStep>>
      BY <1>1, <2>2 DEF Left, After, FromMark
    <3>2. Allowed(r, "check")
      BY <2>2 DEF Allowed, Phases
    <3> QED
      BY ONLY <2>1, <3>1, <3>2, LongLists DEF FromCheck
  <2>3. CASE ~NeedsTest(r)
    <3>1. /\ After(r, p) = "write" /\ Left(r, "write") = FromWrite(r)
          /\ FromMark(r) = IF FromOutside(r)
               THEN <<MarkStep, WriteStep(r), ConfiguredStep, LoadStep, FinishStep>>
               ELSE <<MarkStep, WriteStep(r), ConfiguredStep, FilesStep, GroupStep, LoadStep, FinishStep>>
      BY <1>1, <2>3 DEF Left, After, FromMark
    <3>2. Allowed(r, "write")
      BY DEF Allowed, Phases
    <3> QED
      BY ONLY <2>1, <3>1, <3>2, LongLists DEF FromWrite
  <2> QED
    BY <2>2, <2>3
<1>2. CASE p = "check"
  <2>1. /\ Left(r, p) = FromCheck(r) /\ StepOf(r, p) = CheckStep
        /\ After(r, p) = "write" /\ Left(r, "write") = FromWrite(r) /\ FromOutside(r)
    BY <1>2 DEF Left, StepOf, After, Allowed, NeedsTest
  <2> QED
    BY <2>1 DEF FromCheck, FromWrite, Allowed, Phases
<1>3. CASE p = "write"
  <2>1. /\ Left(r, p) = FromWrite(r) /\ StepOf(r, p) = WriteStep(r)
        /\ After(r, p) = "configured" /\ Left(r, "configured") = FromConfigured(r)
    BY <1>3 DEF Left, StepOf, After
  <2>2. Allowed(r, "configured")
    BY DEF Allowed, Phases
  <2> QED
    BY ONLY <2>1, <2>2, LongLists DEF FromWrite, FromConfigured
<1>4. CASE p = "configured"
  <2>1. /\ Left(r, p) = FromConfigured(r) /\ StepOf(r, p) = ConfiguredStep
        /\ After(r, p) = (IF FromOutside(r) THEN "load" ELSE "files")
        /\ Left(r, "load") = FromLoad /\ Left(r, "files") = FromFiles
    BY <1>4 DEF Left, StepOf, After
  <2>2. Allowed(r, IF FromOutside(r) THEN "load" ELSE "files")
    BY <1>4 DEF Allowed, Phases
  <2> QED
    <3>1. CASE FromOutside(r)
      BY ONLY <2>1, <2>2, <3>1 DEF FromConfigured, FromLoad
    <3>2. CASE ~FromOutside(r)
      BY ONLY <2>1, <2>2, <3>2, LongLists DEF FromConfigured, FromFiles
    <3> QED
      BY <3>1, <3>2
<1>5. CASE p = "files"
  <2>1. /\ Left(r, p) = FromFiles /\ StepOf(r, p) = FilesStep /\ After(r, p) = "group"
        /\ Left(r, "group") = <<GroupStep, LoadStep, FinishStep>>
    BY <1>5 DEF Left, StepOf, After
  <2>2. Allowed(r, "group")
    BY <1>5 DEF Allowed, Phases
  <2> QED
    BY ONLY <2>1, <2>2 DEF FromFiles
<1>6. CASE p \in {"group", "note"}
  <2>1. /\ Left(r, p) = <<StepOf(r, p), LoadStep, FinishStep>> /\ After(r, p) = "load"
        /\ Left(r, "load") = FromLoad
    BY <1>6 DEF Left, StepOf, After
  <2> QED
    BY <2>1 DEF FromLoad, Allowed, Phases
<1>7. CASE p = "load"
  <2>1. /\ Left(r, p) = <<LoadStep, FinishStep>> /\ StepOf(r, p) = LoadStep
        /\ After(r, p) = "finish" /\ Left(r, "finish") = <<FinishStep>>
    BY <1>7 DEF Left, StepOf, After, FromLoad
  <2> QED
    BY <2>1 DEF Allowed, Phases
<1>8. CASE p = "finish"
  <2>1. /\ Left(r, p) = <<FinishStep>> /\ StepOf(r, p) = FinishStep
        /\ After(r, p) = "done" /\ Left(r, "done") = <<>>
    BY <1>8 DEF Left, StepOf, After
  <2> QED
    BY <2>1 DEF Allowed, Phases
<1> QED
  BY <1>1, <1>2, <1>3, <1>4, <1>5, <1>6, <1>7, <1>8 DEF Allowed, Phases

\* What the step of a phase does.
LEMMA StepFacts ==
  ASSUME NEW r, NEW p \in Phases \ {"done"}
  PROVE  StepOf(r, p).do =
           (CASE p \in {"mark", "configured", "note", "finish"} -> "session"
              [] p = "check" -> "check"
              [] p = "write" -> "conf"
              [] p = "files" -> "broker files"
              [] p = "group" -> "broker group"
              [] p = "load"  -> "reload")
BY DEF Phases, StepOf, MarkStep, CheckStep, WriteStep, ConfiguredStep, FilesStep, GroupStep,
  NoteStep, LoadStep, FinishStep, Marked, ApplyConfig, BrokerSteps, ReloadAndReady, Step,
  UpdateSession

\* A sequence whose first part is s and whose second part is t.
LEMMA Glued ==
  ASSUME NEW S, NEW s \in Seq(S), NEW t \in Seq(S), NEW u \in Seq(S),
         Len(u) = Len(s) + Len(t),
         \A i \in 1..Len(s) : u[i] = s[i],
         \A i \in 1..Len(t) : u[Len(s) + i] = t[i]
  PROVE  s \o t = u
<1>1. s \o t \in Seq(S) /\ Len(s \o t) = Len(u) /\ Len(s) \in Nat /\ Len(t) \in Nat
  BY ConcatProperties, LenProperties
<1>2. ASSUME NEW i \in 1..Len(u)
      PROVE  (s \o t)[i] = u[i]
  <2>1. CASE i <= Len(s)
    BY <1>1, <2>1, ConcatProperties
  <2>2. CASE i > Len(s)
    <3>1. i - Len(s) \in 1..Len(t) /\ Len(s) + (i - Len(s)) = i
      BY <1>1, <2>2
    <3> QED
      BY <1>1, <2>2, <3>1, ConcatProperties
  <2> QED
    BY <1>1, <2>1, <2>2
<1> QED
  BY <1>1, <1>2, SeqEqual

\* The lists a handler is put together of.
LEMMA Joins ==
  /\ \A a : <<a>> \o <<>> = <<a>>
  /\ \A a, b : <<a>> \o <<b>> = <<a, b>>
  /\ \A a, b, c : <<a>> \o <<b, c>> = <<a, b, c>>
  /\ \A a, b, c, d : <<a, b>> \o <<c, d>> = <<a, b, c, d>>
  /\ \A a, b, c, d, e : <<a, b, c>> \o <<d, e>> = <<a, b, c, d, e>>
  /\ \A a, b, c, d, e, f : <<a, b, c, d>> \o <<e, f>> = <<a, b, c, d, e, f>>
  /\ \A a, b, c, d, e, f, g : <<a, b, c, d, e>> \o <<f, g>> = <<a, b, c, d, e, f, g>>
<1>0. ASSUME NEW a PROVE <<a>> \o <<>> = <<a>>
  <2> DEFINE s == <<a>>
  <2>1. s \in Seq({a})
    OBVIOUS
  <2> HIDE DEF s
  <2>2. s \o <<>> = s
    BY <2>1, ConcatEmptySeq
  <2> QED
    BY <2>2 DEF s
<1>1. ASSUME NEW a, NEW b
      PROVE  <<a>> \o <<b>> = <<a, b>>
  <2> DEFINE S == {a, b}
  <2> DEFINE s == <<a>>
  <2> DEFINE t == <<b>>
  <2> DEFINE u == <<a, b>>
  <2>1. /\ s \in Seq(S) /\ t \in Seq(S) /\ u \in Seq(S)
        /\ Len(s) = 1 /\ Len(t) = 1 /\ Len(u) = 2
        /\ u[1] = s[1] /\ u[2] = t[1]
    OBVIOUS
  <2> HIDE DEF S, s, t, u
  <2>2. \A i \in 1..Len(s) : u[i] = s[i]
    BY <2>1
  <2>3. \A i \in 1..Len(t) : u[Len(s) + i] = t[i]
    BY <2>1
  <2>4. Len(u) = Len(s) + Len(t)
    BY <2>1
  <2>5. s \o t = u
    BY <2>1, <2>2, <2>3, <2>4, Glued
  <2> QED
    BY <2>5 DEF s, t, u
<1>2. ASSUME NEW a, NEW b, NEW c
      PROVE  <<a>> \o <<b, c>> = <<a, b, c>>
  <2> DEFINE S == {a, b, c}
  <2> DEFINE s == <<a>>
  <2> DEFINE t == <<b, c>>
  <2> DEFINE u == <<a, b, c>>
  <2>1. /\ s \in Seq(S) /\ t \in Seq(S) /\ u \in Seq(S)
        /\ Len(s) = 1 /\ Len(t) = 2 /\ Len(u) = 3
        /\ u[1] = s[1] /\ u[2] = t[1] /\ u[3] = t[2]
    OBVIOUS
  <2> HIDE DEF S, s, t, u
  <2>2. \A i \in 1..Len(s) : u[i] = s[i]
    BY <2>1
  <2>3. \A i \in 1..Len(t) : u[Len(s) + i] = t[i]
    BY <2>1
  <2>4. Len(u) = Len(s) + Len(t)
    BY <2>1
  <2>5. s \o t = u
    BY <2>1, <2>2, <2>3, <2>4, Glued
  <2> QED
    BY <2>5 DEF s, t, u
<1>3. ASSUME NEW a, NEW b, NEW c, NEW d
      PROVE  <<a, b>> \o <<c, d>> = <<a, b, c, d>>
  <2> DEFINE S == {a, b, c, d}
  <2> DEFINE s == <<a, b>>
  <2> DEFINE t == <<c, d>>
  <2> DEFINE u == <<a, b, c, d>>
  <2>1. /\ s \in Seq(S) /\ t \in Seq(S) /\ u \in Seq(S)
        /\ Len(s) = 2 /\ Len(t) = 2 /\ Len(u) = 4
        /\ u[1] = s[1] /\ u[2] = s[2] /\ u[3] = t[1] /\ u[4] = t[2]
    OBVIOUS
  <2> HIDE DEF S, s, t, u
  <2>2. \A i \in 1..Len(s) : u[i] = s[i]
    BY <2>1
  <2>3. \A i \in 1..Len(t) : u[Len(s) + i] = t[i]
    BY <2>1
  <2>4. Len(u) = Len(s) + Len(t)
    BY <2>1
  <2>5. s \o t = u
    BY <2>1, <2>2, <2>3, <2>4, Glued
  <2> QED
    BY <2>5 DEF s, t, u
<1>4. ASSUME NEW a, NEW b, NEW c, NEW d, NEW e
      PROVE  <<a, b, c>> \o <<d, e>> = <<a, b, c, d, e>>
  <2> DEFINE S == {a, b, c, d, e}
  <2> DEFINE s == <<a, b, c>>
  <2> DEFINE t == <<d, e>>
  <2> DEFINE u == <<a, b, c, d, e>>
  <2>1. /\ s \in Seq(S) /\ t \in Seq(S) /\ u \in Seq(S)
        /\ Len(s) = 3 /\ Len(t) = 2 /\ Len(u) = 5
        /\ u[1] = s[1] /\ u[2] = s[2] /\ u[3] = s[3] /\ u[4] = t[1] /\ u[5] = t[2]
    OBVIOUS
  <2> HIDE DEF S, s, t, u
  <2>2. \A i \in 1..Len(s) : u[i] = s[i]
    BY <2>1
  <2>3. \A i \in 1..Len(t) : u[Len(s) + i] = t[i]
    BY <2>1
  <2>4. Len(u) = Len(s) + Len(t)
    BY <2>1
  <2>5. s \o t = u
    BY <2>1, <2>2, <2>3, <2>4, Glued
  <2> QED
    BY <2>5 DEF s, t, u
<1>5. ASSUME NEW a, NEW b, NEW c, NEW d, NEW e, NEW f
      PROVE  <<a, b, c, d>> \o <<e, f>> = <<a, b, c, d, e, f>>
  <2> DEFINE S == {a, b, c, d, e, f}
  <2> DEFINE s == <<a, b, c, d>>
  <2> DEFINE t == <<e, f>>
  <2> DEFINE u == <<a, b, c, d, e, f>>
  <2>1. /\ s \in Seq(S) /\ t \in Seq(S) /\ u \in Seq(S)
        /\ Len(s) = 4 /\ Len(t) = 2 /\ Len(u) = 6
        /\ u[1] = s[1] /\ u[2] = s[2] /\ u[3] = s[3] /\ u[4] = s[4] /\ u[5] = t[1]
        /\ u[6] = t[2]
    OBVIOUS
  <2> HIDE DEF S, s, t, u
  <2>2. \A i \in 1..Len(s) : u[i] = s[i]
    BY <2>1
  <2>3. \A i \in 1..Len(t) : u[Len(s) + i] = t[i]
    BY <2>1
  <2>4. Len(u) = Len(s) + Len(t)
    BY <2>1
  <2>5. s \o t = u
    BY <2>1, <2>2, <2>3, <2>4, Glued
  <2> QED
    BY <2>5 DEF s, t, u
<1>6. ASSUME NEW a, NEW b, NEW c, NEW d, NEW e, NEW f, NEW g
      PROVE  <<a, b, c, d, e>> \o <<f, g>> = <<a, b, c, d, e, f, g>>
  <2> DEFINE S == {a, b, c, d, e, f, g}
  <2> DEFINE s == <<a, b, c, d, e>>
  <2> DEFINE t == <<f, g>>
  <2> DEFINE u == <<a, b, c, d, e, f, g>>
  <2>1. /\ s \in Seq(S) /\ t \in Seq(S) /\ u \in Seq(S)
        /\ Len(s) = 5 /\ Len(t) = 2 /\ Len(u) = 7
        /\ u[1] = s[1] /\ u[2] = s[2] /\ u[3] = s[3] /\ u[4] = s[4] /\ u[5] = s[5]
        /\ u[6] = t[1] /\ u[7] = t[2]
    OBVIOUS
  <2> HIDE DEF S, s, t, u
  <2>2. \A i \in 1..Len(s) : u[i] = s[i]
    BY <2>1
  <2>3. \A i \in 1..Len(t) : u[Len(s) + i] = t[i]
    BY <2>1
  <2>4. Len(u) = Len(s) + Len(t)
    BY <2>1
  <2>5. s \o t = u
    BY <2>1, <2>2, <2>3, <2>4, Glued
  <2> QED
    BY <2>5 DEF s, t, u
<1> QED
  BY <1>0, <1>1, <1>2, <1>3, <1>4, <1>5, <1>6

\* The handler of an apply is what is left of it at its beginning.
LEMMA ApplyHandlers ==
  ASSUME NEW r \in Requests, IsApply(r)
  PROVE  Handler(r) = Left(r, "mark") /\ Allowed(r, "mark")
<1>1. Left(r, "mark") = FromMark(r) /\ Allowed(r, "mark")
  BY DEF Left, Allowed, Phases
<1>2. /\ Marked = <<MarkStep>>
      /\ ApplyConfig(Applied(r).mode, Applied(r).endpoint) = <<WriteStep(r), ConfiguredStep>>
      /\ BrokerSteps = <<FilesStep, GroupStep>> /\ ReloadAndReady = <<LoadStep, FinishStep>>
  BY DEF Marked, MarkStep, ApplyConfig, WriteStep, ConfiguredStep, BrokerSteps, FilesStep,
    GroupStep, ReloadAndReady, LoadStep, FinishStep
<1>3. CASE FromOutside(r)
  <2>1. /\ Handler(r) = ApplyExternal(r)
        /\ Applied(r).mode = "external" /\ Applied(r).endpoint = r.endpoint
    BY <1>3 DEF Handler, FromOutside, Applied
  <2>2. ApplyExternal(r) =
          (<<MarkStep>> \o (IF r.waived THEN <<>> ELSE <<CheckStep>>))
            \o <<WriteStep(r), ConfiguredStep>> \o <<LoadStep, FinishStep>>
    BY <1>2, <2>1 DEF ApplyExternal, CheckStep
  <2>3. CASE r.waived
    <3>1. ApplyExternal(r) = <<MarkStep, WriteStep(r), ConfiguredStep, LoadStep, FinishStep>>
      <4>1. <<MarkStep>> \o <<>> = <<MarkStep>>
        BY Joins
      <4>2. <<MarkStep>> \o <<WriteStep(r), ConfiguredStep>>
              = <<MarkStep, WriteStep(r), ConfiguredStep>>
        BY Joins
      <4>3. <<MarkStep, WriteStep(r), ConfiguredStep>> \o <<LoadStep, FinishStep>>
              = <<MarkStep, WriteStep(r), ConfiguredStep, LoadStep, FinishStep>>
        BY Joins
      <4> QED
        BY ONLY <2>2, <2>3, <4>1, <4>2, <4>3, Zenon
    <3> QED
      BY <1>1, <1>3, <2>1, <2>3, <3>1 DEF FromMark, NeedsTest
  <2>4. CASE ~r.waived
    <3>1. ApplyExternal(r) =
            <<MarkStep, CheckStep, WriteStep(r), ConfiguredStep, LoadStep, FinishStep>>
      <4>1. <<MarkStep>> \o <<CheckStep>> = <<MarkStep, CheckStep>>
        BY Joins
      <4>2. <<MarkStep, CheckStep>> \o <<WriteStep(r), ConfiguredStep>>
              = <<MarkStep, CheckStep, WriteStep(r), ConfiguredStep>>
        BY Joins
      <4>3. <<MarkStep, CheckStep, WriteStep(r), ConfiguredStep>> \o <<LoadStep, FinishStep>>
              = <<MarkStep, CheckStep, WriteStep(r), ConfiguredStep, LoadStep, FinishStep>>
        BY Joins
      <4> QED
        BY ONLY <2>2, <2>4, <4>1, <4>2, <4>3, Zenon
    <3> QED
      BY <1>1, <1>3, <2>1, <2>4, <3>1 DEF FromMark, NeedsTest
  <2> QED
    BY <2>3, <2>4
<1>4. CASE ~FromOutside(r)
  <2>1. /\ Handler(r) = ApplyEmbedded /\ ~NeedsTest(r)
        /\ Applied(r).mode = "embedded" /\ Applied(r).endpoint = Embedded
    BY <1>4 DEF Handler, FromOutside, Applied, IsApply, NeedsTest
  <2>2. ApplyEmbedded = <<MarkStep>> \o <<WriteStep(r), ConfiguredStep>>
                          \o <<FilesStep, GroupStep>> \o <<LoadStep, FinishStep>>
    BY <1>2, <2>1 DEF ApplyEmbedded
  <2>3. ApplyEmbedded =
          <<MarkStep, WriteStep(r), ConfiguredStep, FilesStep, GroupStep, LoadStep, FinishStep>>
    <3>1. <<MarkStep>> \o <<WriteStep(r), ConfiguredStep>>
            = <<MarkStep, WriteStep(r), ConfiguredStep>>
      BY Joins
    <3>2. <<MarkStep, WriteStep(r), ConfiguredStep>> \o <<FilesStep, GroupStep>>
            = <<MarkStep, WriteStep(r), ConfiguredStep, FilesStep, GroupStep>>
      BY Joins
    <3>3. <<MarkStep, WriteStep(r), ConfiguredStep, FilesStep, GroupStep>>
            \o <<LoadStep, FinishStep>>
            = <<MarkStep, WriteStep(r), ConfiguredStep, FilesStep, GroupStep, LoadStep, FinishStep>>
      BY Joins
    <3> QED
      BY ONLY <2>2, <3>1, <3>2, <3>3, Zenon
  <2> QED
    BY <1>1, <1>4, <2>1, <2>3 DEF FromMark
<1> QED
  BY <1>3, <1>4

\* A test that has been passed counts as passed from then on.
LEMMA HarmlessKept ==
  ASSUME NEW old, NEW new, old \subseteq new, NEW r, NEW s, Short(old, r, s)
  PROVE  Short(new, r, s)
<1>1. \A x : Harmless(old, r, x) => Harmless(new, r, x)
  BY DEF Harmless
<1> QED
  BY <1>1 DEF Short

\* What a harmless list leaves is harmless.
LEMMA ShortFacts ==
  ASSUME NEW tests, NEW r, NEW s, Short(tests, r, s), s # <<>>
  PROVE  Harmless(tests, r, s[1]) /\ Short(tests, r, Tail(s))
<1>0. (\A a : Tail(<<a>>) = <<>>) /\ (\A a, b : Tail(<<a, b>>) = <<b>>)
  OBVIOUS
<1>1. CASE s = <<s[1]>> /\ Harmless(tests, r, s[1])
  <2>1. Tail(s) = <<>>
    BY ONLY <1>0, <1>1, Zenon
  <2> QED
    BY <1>1, <2>1 DEF Short
<1>2. CASE s = <<s[1], s[2]>> /\ Harmless(tests, r, s[1]) /\ Harmless(tests, r, s[2])
  <2>1. Tail(s) = <<s[2]>>
    BY ONLY <1>0, <1>2, Zenon
  <2>2. Tail(s) = <<Tail(s)[1]>> /\ Tail(s)[1] = s[2]
    BY <2>1
  <2> QED
    BY <1>2, <2>2 DEF Short
<1> QED
  BY <1>1, <1>2 DEF Short

\* One update of install_state.json that is harmless.
LEMMA OneUpdate ==
  ASSUME NEW tests, NEW r, NEW set, Harmless(tests, r, UpdateSession(set))
  PROVE  Short(tests, r, <<UpdateSession(set)>>)
<1> DEFINE s == <<UpdateSession(set)>>
<1>1. s[1] = UpdateSession(set) /\ s = <<s[1]>>
  OBVIOUS
<1> QED
  BY <1>1 DEF Short

\* The error that an exception leaves behind opens nothing.
LEMMA ErroredShort ==
  ASSUME NEW tests, NEW r
  PROVE  Short(tests, r, <<UpdateSession(Errored)>>)
<1>1. Harmless(tests, r, UpdateSession(Errored))
  BY DEF Harmless, UpdateSession, Step, Errored
<1> QED
  BY <1>1, OneUpdate

\* The handlers that are no applies begin with harmless steps.
LEMMA ShortHandlers ==
  ASSUME NEW r \in Requests, ~IsApply(r)
  PROVE  /\ Short(okTests, r, Handler(r))
         /\ r.kind = "config" => Handler(r) = UpdateConfig(r)
<1> USE DEF Harmless, Short, Step, UpdateSession
<1>1. CASE r.kind = "mode"
  BY <1>1, RequestFacts DEF Handler, SetMode
<1>2. CASE r.kind \in {"test", "register", "restart", "reset"}
  BY <1>2, RequestFacts DEF Handler
<1>3. CASE r.kind = "core url"
  BY <1>3, RequestFacts DEF Handler, SetCoreUrl, None
<1>4. CASE r.kind = "groups"
  BY <1>4, RequestFacts DEF Handler, SetGroups, None, Settling
<1>5. CASE r.kind = "config"
  BY <1>5, RequestFacts DEF Handler, UpdateConfig, None
<1> QED
  BY <1>1, <1>2, <1>3, <1>4, <1>5, RequestFacts DEF IsApply

\* An update of the session sets the fields it names and keeps the others.
LEMMA OverrideSession ==
  ASSUME NEW v \in Sessions, NEW set,
         "setup" \in DOMAIN set => set.setup \in {"unconfigured", "configuring", "ready", "error"},
         "configured" \in DOMAIN set => set.configured \in BOOLEAN,
         "verified" \in DOMAIN set => set.verified \in BOOLEAN,
         "registered" \in DOMAIN set => set.registered \in BOOLEAN,
         "error" \in DOMAIN set => set.error \in BOOLEAN,
         "tested" \in DOMAIN set => set.tested \in Endpoints \cup {Nil}
  PROVE  LET w == Override(v, set) IN
         /\ w \in Sessions
         /\ w.setup = IF "setup" \in DOMAIN set THEN set.setup ELSE v.setup
         /\ w.configured = IF "configured" \in DOMAIN set THEN set.configured ELSE v.configured
         /\ w.verified = IF "verified" \in DOMAIN set THEN set.verified ELSE v.verified
         /\ w.error = IF "error" \in DOMAIN set THEN set.error ELSE v.error
         /\ w.tested = IF "tested" \in DOMAIN set THEN set.tested ELSE v.tested
BY DEF Sessions, Override

\* Likewise an update of config.json.
LEMMA OverrideConf ==
  ASSUME NEW v \in Confs, NEW set,
         "mode" \in DOMAIN set => set.mode \in {"external", "embedded", Nil},
         "endpoint" \in DOMAIN set => set.endpoint \in AllEndpoints
  PROVE  LET w == Override(v, set) IN
         /\ w \in Confs /\ w = [mode |-> w.mode, endpoint |-> w.endpoint]
         /\ w.mode = IF "mode" \in DOMAIN set THEN set.mode ELSE v.mode
         /\ w.endpoint = IF "endpoint" \in DOMAIN set THEN set.endpoint ELSE v.endpoint
BY DEF Confs, Override

-----------------------------------------------------------------------------
(* What a step of a thread has to show.                                    *)

\* Nobody else is in the middle of anything.
LEMMA ThreadMoves ==
  ASSUME SetupInv, NEW t \in Busy, UNCHANGED <<req, up>>,
         \A u \in Threads : u # t => stage'[u] = stage[u] /\ todo'[u] = todo[u],
         DOMAIN todo' = Threads, DOMAIN view' = Threads,
         SetupTypeOK', TestsKnown', GateStands',
         Ready' /\ conf' # Torn /\ ~Loading(t)' => client' = conf'.endpoint,
         HandlerStands(t)'
  PROVE  SetupInv'
<1>1. Busy = {t} /\ Busy' = Busy
  BY DEF SetupInv, Served, Busy
<1>2. Served'
  BY <1>1 DEF SetupInv, Served, Busy
<1>3. ClientStands'
  BY <1>1 DEF ClientStands
<1>4. \A u \in Busy' : HandlerStands(u)'
  BY <1>1
<1> QED
  BY <1>2, <1>3, <1>4 DEF SetupInv

\* A thread at the next step of its handler: in a phase of an apply, or in the
\* middle of harmless steps.
LEMMA HeadFacts ==
  ASSUME SetupInv, NEW t \in Busy, todo[t] # <<>>
  PROVE  /\ t \in Threads /\ req[t] \in Requests /\ up
         /\ HandlerStands(t)
         /\ IF IsApply(req[t]) /\ ~failed[t]
            THEN \E p \in Phases \ {"done"} :
                   /\ Stands(t, p) /\ todo[t][1] = StepOf(req[t], p)
                   /\ Tail(todo[t]) = Left(req[t], After(req[t], p))
                   /\ Allowed(req[t], After(req[t], p))
            ELSE /\ Harmless(okTests, req[t], todo[t][1])
                 /\ Short(okTests, req[t], Tail(todo[t]))
<1>1. t \in Threads /\ req[t] \in Requests /\ up /\ HandlerStands(t)
  BY DEF SetupInv, Served, Busy, SetupTypeOK
<1>2. CASE IsApply(req[t]) /\ ~failed[t]
  <2>1. PICK p \in Phases : Stands(t, p)
    BY <1>1, <1>2 DEF HandlerStands
  <2>2. todo[t] = Left(req[t], p) /\ Allowed(req[t], p) /\ p # "done"
    BY <2>1 DEF Stands, Left
  <2> QED
    BY <1>1, <1>2, <2>1, <2>2, LeftFacts
<1>3. CASE ~(IsApply(req[t]) /\ ~failed[t])
  BY <1>1, <1>3, ShortFacts DEF HandlerStands
<1> QED
  BY <1>1, <1>2, <1>3

\* The thread's variables when a step is done, ...
LEMMA DoneFacts ==
  ASSUME SetupInv, NEW t \in Busy, Done(t)
  PROVE  /\ todo'[t] = Tail(todo[t])
         /\ \A u \in Threads : u # t => todo'[u] = todo[u]
         /\ DOMAIN todo' = Threads
         /\ UNCHANGED <<req, stage, view, failed>>
BY DEF SetupInv, Served, Busy, Done

\* ... when the handler goes on with other steps, ...
LEMMA GoOnFacts ==
  ASSUME SetupInv, NEW t \in Busy, NEW steps, GoOn(t, steps)
  PROVE  /\ todo'[t] = steps
         /\ \A u \in Threads : u # t => todo'[u] = todo[u]
         /\ DOMAIN todo' = Threads
         /\ UNCHANGED <<req, stage, view, failed>>
BY DEF SetupInv, Served, Busy, GoOn

\* ... and when a step raises.
LEMMA RaiseFacts ==
  ASSUME SetupInv, NEW t \in Busy, Raise(t)
  PROVE  /\ todo'[t] = IF todo[t][1].try THEN <<UpdateSession(Errored)>> ELSE <<>>
         /\ \A u \in Threads : u # t => todo'[u] = todo[u] /\ stage'[u] = stage[u]
         /\ DOMAIN todo' = Threads /\ DOMAIN view' = Threads
         /\ stage'[t] = "start" /\ failed'[t] = TRUE
         /\ stage' \in [Threads -> {"start", "read", "open"}]
         /\ failed' \in [Threads -> BOOLEAN]
         /\ req' = req
<1>1. /\ t \in Threads /\ DOMAIN todo = Threads /\ DOMAIN view = Threads
      /\ stage \in [Threads -> {"start", "read", "open"}] /\ failed \in [Threads -> BOOLEAN]
  BY DEF SetupInv, Served, Busy, SetupTypeOK
<1>2. /\ todo' = [todo EXCEPT ![t] = IF todo[t][1].try THEN <<UpdateSession(Errored)>> ELSE <<>>]
      /\ stage' = [stage EXCEPT ![t] = "start"] /\ failed' = [failed EXCEPT ![t] = TRUE]
      /\ view' = [view EXCEPT ![t] = Nil] /\ req' = req
  BY DEF Raise
<1> QED
  BY <1>1, <1>2

\* An exception leaves the files as they are, and the gate with them.
LEMMA RaiseStands ==
  ASSUME SetupInv, NEW t \in Busy, todo[t] # <<>>, Raise(t),
         UNCHANGED <<session, conf, brokerGroup, up, last, okTests>>,
         client' = client \/ (client' = Nil /\ conf = Torn),
         Loading(t) => conf = Torn
  PROVE  SetupInv'
<1>1. UNCHANGED <<session, conf, brokerGroup, up, last, okTests>>
  OBVIOUS
<1>2. SetupTypeOK'
  BY <1>1, RaiseFacts DEF SetupInv, SetupTypeOK, AllEndpoints
<1>3. TestsKnown' /\ GateStands'
  BY <1>1 DEF SetupInv, TestsKnown, GateStands, Ready
<1>4. Ready' /\ conf' # Torn => client' = conf'.endpoint
  <2>1. \A u \in Busy : u = t
    BY DEF SetupInv, Served
  <2> QED
    BY <1>1, <2>1, HeadFacts DEF SetupInv, ClientStands, Ready
<1>5. HandlerStands(t)'
  <2>1. Short(okTests, req[t], todo'[t])
    BY RaiseFacts, ErroredShort DEF Short
  <2>2. req[t].kind = "config" => todo'[t] = <<>>
    <3>1. ASSUME req[t].kind = "config"
          PROVE  ~todo[t][1].try
      <4>1. todo[t] \in {UpdateConfig(req[t]), <<Step("reload", None, FALSE)>>}
        BY <3>1, HeadFacts DEF HandlerStands
      <4> QED
        BY <4>1 DEF UpdateConfig, Step
    <3> QED
      BY <3>1, RaiseFacts
  <2>3. UpdateStands(t)'
    BY RaiseFacts DEF UpdateStands
  <2> QED
    BY <2>1, <2>2, <2>3, RaiseFacts DEF HandlerStands
<1> QED
  BY <1>1, <1>2, <1>3, <1>4, <1>5, RaiseFacts, ThreadMoves

-----------------------------------------------------------------------------
(* Updates of install_state.json.                                          *)

\* A thread at an update of the session is no configuration update about to
\* reload the client.
LEMMA AtSession ==
  ASSUME SetupInv, NEW t \in Busy, At(t, "session") \/ At(t, "reset") \/ At(t, "conf")
  PROVE  /\ todo[t] # <<>> /\ ~Loading(t)
         /\ At(t, "session") \/ At(t, "reset") => req[t].kind # "config"
<1>1. todo[t] # <<>> /\ todo[t][1].do \in {"session", "reset", "conf"}
  BY DEF At
<1>2. ~Loading(t)
  BY <1>1 DEF Loading, Step
<1>3. ASSUME req[t].kind = "config"
      PROVE  todo[t][1].do = "conf"
  <2>1. todo[t] = UpdateConfig(req[t])
    BY <1>1, <1>2, <1>3, HeadFacts DEF HandlerStands, Loading
  <2> QED
    BY <2>1 DEF UpdateConfig, Step
<1> QED
  BY <1>1, <1>2, <1>3 DEF At

\* What the session reads as is a session, with a test that has been passed.
LEMMA SessionFacts ==
  ASSUME SetupInv, SessionReadable
  PROVE  /\ SessionRead \in Sessions /\ SessionRead.tested \in okTests \cup {Nil}
         /\ SessionRead.setup = "error" => ~SessionRead.configured
         /\ SessionRead.setup = "ready" => SessionRead.configured /\ Ready
         /\ Closed(session) => Closed(SessionRead)
<1>1. CASE session = Missing
  BY <1>1 DEF SessionRead, DefaultSession, Sessions, Closed
<1>2. CASE session # Missing
  <2>1. session \in Sessions /\ SessionRead = session
    BY <1>2 DEF SetupInv, SetupTypeOK, SessionReadable, SessionRead
  <2> QED
    BY <2>1 DEF SetupInv, SetupTypeOK, TestsKnown, Ready
<1> QED
  BY <1>1, <1>2

\* A read takes over what the file says, or raises.
LEMMA ReadSessionStep ==
  ASSUME SetupInv, NEW t \in Busy, ReadSession(t)
  PROVE  SetupInv'
<1>1. /\ At(t, "session") /\ stage[t] = "start" /\ todo[t] # <<>> /\ ~Loading(t)
      /\ req[t].kind # "config"
      /\ UNCHANGED <<session, conf, brokerGroup, up, client, last, okTests>>
  BY AtSession DEF ReadSession, files, history
<1>2. CASE SessionReadable
  <2>1. /\ view' = [view EXCEPT ![t] = SessionRead] /\ stage' = [stage EXCEPT ![t] = "read"]
        /\ UNCHANGED <<req, todo, failed>>
    BY <1>2 DEF ReadSession, Enter
  <2>2. /\ t \in Threads /\ view'[t] = SessionRead /\ stage'[t] = "read"
        /\ DOMAIN view' = Threads /\ DOMAIN todo' = Threads
        /\ \A u \in Threads : u # t => stage'[u] = stage[u]
        /\ stage' \in [Threads -> {"start", "read", "open"}]
    BY <2>1 DEF SetupInv, Served, Busy, SetupTypeOK
  <2>3. SetupTypeOK' /\ TestsKnown' /\ GateStands'
    BY <1>1, <2>1, <2>2 DEF SetupInv, SetupTypeOK, TestsKnown, GateStands, Ready
  <2>4. Ready /\ conf # Torn => client = conf.endpoint
    BY <1>1, HeadFacts DEF SetupInv, ClientStands, Served
  <2>5. UpdateStands(t)'
    BY <1>1, <1>2, <2>1, <2>2, <2>4, SessionFacts DEF UpdateStands, At, SetupInv, GateStands, Ready
  <2>6. \A p \in Phases : Stands(t, p) => Stands(t, p)'
    BY <1>1, <1>2, <2>1, <2>2, SessionFacts DEF Stands, Ready, Closed
  <2>7. HandlerStands(t)'
    BY <1>1, <2>1, <2>5, <2>6, HeadFacts DEF HandlerStands
  <2> QED
    BY <1>1, <2>1, <2>2, <2>3, <2>4, <2>7, ThreadMoves DEF Ready
<1>3. CASE ~SessionReadable
  BY <1>1, <1>3, RaiseStands DEF ReadSession
<1> QED
  BY <1>2, <1>3

\* Opening truncates the file: the gate is closed until it is filled.
LEMMA OpenSessionStep ==
  ASSUME SetupInv, NEW t \in Busy, OpenSession(t)
  PROVE  SetupInv'
<1>1. /\ At(t, "session") /\ stage[t] = "read" /\ todo[t] # <<>> /\ req[t].kind # "config"
      /\ session' = Torn /\ stage' = [stage EXCEPT ![t] = "open"]
      /\ UNCHANGED <<conf, brokerGroup, up, client, req, todo, view, failed, last, okTests>>
  BY AtSession DEF OpenSession, Enter, history
<1>2. /\ t \in Threads /\ stage'[t] = "open" /\ DOMAIN view' = Threads /\ DOMAIN todo' = Threads
      /\ \A u \in Threads : u # t => stage'[u] = stage[u]
      /\ stage' \in [Threads -> {"start", "read", "open"}]
  BY <1>1 DEF SetupInv, Served, Busy, SetupTypeOK
<1>3. session' \notin Sessions' /\ ~Ready'
  BY <1>1, ValuesAssumption DEF Ready, Sessions
<1>4. SetupTypeOK' /\ TestsKnown' /\ GateStands'
  BY <1>1, <1>2, <1>3 DEF SetupInv, SetupTypeOK, TestsKnown, GateStands, Sessions
<1>5. UpdateStands(t)'
  BY <1>1, <1>2, <1>3, HeadFacts DEF HandlerStands, UpdateStands, At, Sessions
<1>6. \A p \in Phases \ {"done"} : Stands(t, p) => Stands(t, p)'
  BY <1>1, <1>2, <1>3 DEF Stands, Closed, Sessions
<1>7. HandlerStands(t)'
  BY <1>1, <1>5, <1>6, HeadFacts DEF HandlerStands
<1> QED
  BY <1>1, <1>2, <1>3, <1>4, <1>7, ThreadMoves

\* What the thread's variables are after the file has been filled.
LEMMA FillFacts ==
  ASSUME SetupInv, NEW t \in Busy,
         stage' = [stage EXCEPT ![t] = "start"],
         view' = [view EXCEPT ![t] = Nil] \/ view' = view,
         todo' = [todo EXCEPT ![t] = Tail(todo[t])]
  PROVE  /\ t \in Threads /\ stage'[t] = "start" /\ todo'[t] = Tail(todo[t])
         /\ DOMAIN view' = Threads /\ DOMAIN todo' = Threads
         /\ \A u \in Threads : u # t => stage'[u] = stage[u] /\ todo'[u] = todo[u]
         /\ stage' \in [Threads -> {"start", "read", "open"}]
         /\ view'[t] \in {Nil, view[t]}
BY DEF SetupInv, Served, Busy, SetupTypeOK

\* What the update of a phase makes of the session v.
Updates(p, v, w) ==
  /\ w \in Sessions /\ w.tested = v.tested
  /\ w.setup = "error" => ~w.configured
  /\ w.setup = "ready" => w.configured
  /\ p # "finish" => w.setup \notin {"ready", "error"}
  /\ p = "finish" => w.setup = "ready" /\ w.verified /\ ~w.error

\* Only the last update of an apply opens the gate.
LEMMA ApplyUpdates ==
  ASSUME NEW r, NEW p, p \in {"mark", "configured", "note", "finish"}, NEW v \in Sessions,
         NEW x, x = StepOf(r, p),
         v.setup = "error" => ~v.configured,
         v.setup = "ready" => v.configured,
         p # "mark" => v.setup \notin {"ready", "error"}
  PROVE  Updates(p, v, Override(v, x.set))
<1> USE DEF Updates
<1> DEFINE set == x.set
<1>1. CASE p \in {"mark", "finish"}
  <2>1. set = [setup |-> IF p = "mark" THEN "configuring" ELSE "ready",
               configured |-> p = "finish", verified |-> p = "finish", error |-> FALSE]
    BY <1>1 DEF StepOf, MarkStep, Marked, FinishStep, ReloadAndReady, UpdateSession, Step
  <2> HIDE DEF set
  <2>2. /\ DOMAIN set = {"setup", "configured", "verified", "error"}
        /\ set.setup = IF p = "mark" THEN "configuring" ELSE "ready"
        /\ set.configured = (p = "finish") /\ set.verified = (p = "finish")
        /\ set.error = FALSE
    BY <2>1
  <2> QED
    BY <1>1, <2>2, OverrideSession DEF set
<1>2. CASE p = "configured"
  <2>1. set = [configured |-> TRUE, error |-> FALSE]
    BY <1>2 DEF StepOf, ConfiguredStep, ApplyConfig, Step
  <2> HIDE DEF set
  <2>2. DOMAIN set = {"configured", "error"} /\ set.configured = TRUE /\ set.error = FALSE
    BY <2>1
  <2> QED
    BY <1>2, <2>2, OverrideSession DEF set
<1>3. CASE p = "note"
  <2>1. set = [nothing |-> TRUE]
    BY <1>3 DEF StepOf, NoteStep, UpdateSession, Step, None
  <2> HIDE DEF set
  <2>2. DOMAIN set = {"nothing"}
    BY <2>1
  <2> QED
    BY <1>3, <2>2, OverrideSession DEF set
<1> QED
  BY <1>1, <1>2, <1>3

\* What a harmless update writes into the session: it never opens the gate, and
\* leaves it open only if it does not speak of the setup.
LEMMA HarmlessUpdates ==
  ASSUME NEW tests \in SUBSET Endpoints, NEW r, NEW x, Harmless(tests, r, x), x.do = "session",
         NEW v \in Sessions, v.tested \in tests \cup {Nil},
         v.setup = "error" => ~v.configured,
         v.setup = "ready" => v.configured
  PROVE  LET w == Override(v, x.set) IN
         /\ w \in Sessions /\ w.tested \in tests \cup {Nil}
         /\ w.setup = "error" => ~w.configured
         /\ w.setup = "ready" => w.configured /\ v.setup = "ready" /\ r.kind \notin Settling
<1> DEFINE set == x.set
<1>1. /\ "setup" \in DOMAIN set => set.setup \in {"configuring", "error"}
      /\ "setup" \in DOMAIN set => "configured" \in DOMAIN set \/ set.setup # "error"
      /\ "configured" \in DOMAIN set => set.configured = FALSE /\ "setup" \in DOMAIN set
      /\ "verified" \in DOMAIN set => set.verified \in BOOLEAN
      /\ "registered" \in DOMAIN set => set.registered \in BOOLEAN
      /\ "error" \in DOMAIN set => set.error \in BOOLEAN
      /\ "tested" \in DOMAIN set => set.tested \in tests \cup {Nil}
      /\ r.kind \in Settling => "setup" \in DOMAIN set
  BY DEF Harmless
<1> HIDE DEF set
<1>2. /\ Override(v, set) \in Sessions
      /\ Override(v, set).setup = IF "setup" \in DOMAIN set THEN set.setup ELSE v.setup
      /\ Override(v, set).configured = IF "configured" \in DOMAIN set THEN set.configured ELSE v.configured
      /\ Override(v, set).tested = IF "tested" \in DOMAIN set THEN set.tested ELSE v.tested
  BY <1>1, OverrideSession
<1> QED
  BY <1>1, <1>2 DEF set

\* The fill writes what was read with the fields of the update: if this ends an
\* apply, the gate opens.
LEMMA FillSessionStep ==
  ASSUME SetupInv, NEW t \in Busy, FillSession(t)
  PROVE  SetupInv'
<1> DEFINE w == Override(view[t], todo[t][1].set)
<1>1. /\ At(t, "session") /\ stage[t] = "open" /\ todo[t] # <<>> /\ req[t].kind # "config"
      /\ last' = Settled(t)
      /\ UNCHANGED <<conf, brokerGroup, up, client, req, failed, okTests>>
  BY AtSession DEF FillSession
<1>2. /\ t \in Threads /\ stage'[t] = "start" /\ todo'[t] = Tail(todo[t])
      /\ DOMAIN view' = Threads /\ DOMAIN todo' = Threads
      /\ \A u \in Threads : u # t => stage'[u] = stage[u] /\ todo'[u] = todo[u]
      /\ stage' \in [Threads -> {"start", "read", "open"}]
      /\ view'[t] = Nil
  <2>1. /\ stage' = [stage EXCEPT ![t] = "start"] /\ view' = [view EXCEPT ![t] = Nil]
        /\ todo' = [todo EXCEPT ![t] = Tail(todo[t])]
    BY DEF FillSession, Enter
  <2> QED
    BY <2>1, FillFacts DEF SetupInv, Served, Busy
<1>3. /\ todo[t][1].do = "session"
      /\ view[t] \in Sessions /\ view[t].tested \in okTests \cup {Nil}
      /\ view[t].setup = "error" => ~view[t].configured
      /\ view[t].setup = "ready" =>
            view[t].configured /\ last = "apply ok" /\ (conf # Torn => client = conf.endpoint)
      /\ session = Torn
  BY <1>1, HeadFacts DEF HandlerStands, UpdateStands, At
<1>4. session' = w
  BY <1>1, <1>3 DEF FillSession, Written
<1>5. okTests \in SUBSET Endpoints
  BY DEF SetupInv, SetupTypeOK
<1>6. UpdateStands(t)'
  BY <1>2 DEF UpdateStands
<1> HIDE DEF w
<1>7. ASSUME w \in Sessions, w.tested \in okTests \cup {Nil},
             w.setup = "error" => ~w.configured,
             w.setup = "ready" => w.configured /\ last' = "apply ok"
                                   /\ (conf # Torn => client = conf.endpoint),
             IF IsApply(req[t]) /\ ~failed[t] THEN \E p \in Phases : Stands(t, p)'
                                              ELSE Short(okTests, req[t], todo'[t])
      PROVE  SetupInv'
  <2>1. SetupTypeOK'
    BY <1>1, <1>2, <1>4, <1>7 DEF SetupInv, SetupTypeOK
  <2>2. TestsKnown' /\ GateStands'
    BY <1>1, <1>4, <1>7 DEF TestsKnown, GateStands, Ready
  <2>3. Ready' /\ conf' # Torn => client' = conf'.endpoint
    BY <1>1, <1>4, <1>7 DEF Ready
  <2>4. HandlerStands(t)'
    BY <1>1, <1>6, <1>7 DEF HandlerStands
  <2> QED
    BY <1>1, <1>2, <2>1, <2>2, <2>3, <2>4, ThreadMoves
<1>8. CASE IsApply(req[t]) /\ ~failed[t]
  <2>1. PICK p \in Phases \ {"done"} :
          /\ Stands(t, p) /\ todo[t][1] = StepOf(req[t], p)
          /\ Tail(todo[t]) = Left(req[t], After(req[t], p))
          /\ Allowed(req[t], After(req[t], p))
    BY <1>1, <1>8, HeadFacts
  <2>2. p \in {"mark", "configured", "note", "finish"}
    <3>1. StepOf(req[t], p).do = "session"
      BY <1>3, <2>1
    <3> QED
      BY <3>1, StepFacts DEF Phases
  <2>3. p # "mark" => view[t].setup \notin {"ready", "error"}
    BY <1>3, <2>1, <2>2 DEF Stands, Closed
  <2>4. Updates(p, view[t], w)
    <3>1. todo[t][1] = StepOf(req[t], p)
      BY <2>1
    <3> QED
      BY ONLY <1>3, <2>2, <2>3, <3>1, ApplyUpdates DEF w
  <2>5. CASE p = "finish"
    <3>1. After(req[t], p) = "done" /\ todo'[t] = <<>>
      BY <1>2, <2>1, <2>5 DEF After, Left
    <3>2. last' = "apply ok"
      BY <1>1, <1>2, <1>8, <3>1 DEF Settled
    <3>3. Stands(t, "done")'
      BY <1>1, <1>2, <1>4, <2>1, <2>4, <2>5, <3>1 DEF Stands, Ready, Updates
    <3>4. conf # Torn => client = conf.endpoint
      BY <2>1, <2>5 DEF Stands
    <3> QED
      BY <1>3, <1>7, <1>8, <2>4, <2>5, <3>2, <3>3, <3>4 DEF Phases, Updates
  <2>6. CASE p # "finish"
    <3>0. PICK q : q = After(req[t], p)
      OBVIOUS
    <3>1. /\ q \in Phases \ {"mark", "done", "finish", "configured"}
          /\ p # "mark" => q \notin {"check", "write"}
          /\ p = "mark" => q = IF NeedsTest(req[t]) THEN "check" ELSE "write"
          /\ p = "configured" /\ q = "load" => FromOutside(req[t])
          /\ p = "note" => q = "load"
          /\ q # "note"
      BY <2>2, <2>6, <3>0 DEF After, Phases
    <3>2. Closed(session)' /\ Closed(view[t])'
      BY <1>2, <1>4, <2>4, <2>6, ValuesAssumption DEF Closed, Sessions, Updates
    <3>3. Allowed(req[t], q) /\ todo'[t] = Left(req[t], q)
      BY <1>2, <2>1, <3>0
    <3>4. Stands(t, q)'
      <4>1. q \notin {"mark", "check"} /\ NeedsTest(req[t]) => req[t].endpoint \in okTests
        BY <2>1, <2>2, <3>1 DEF Stands
      <4>2. q \notin {"mark", "check", "write"} => conf = Applied(req[t])
        BY <2>1, <2>2, <2>6, <3>1 DEF Stands
      <4>3. q \in {"note", "load", "finish", "done"} /\ ~FromOutside(req[t]) => brokerGroup
        BY <2>1, <2>2, <2>6, <3>1 DEF Stands
      <4>4. q \notin {"finish", "done"}
        BY <3>1
      <4> QED
        BY <1>1, <3>2, <3>3, <4>1, <4>2, <4>3, <4>4 DEF Stands
    <3>5. \E phase \in Phases : Stands(t, phase)'
      BY <3>1, <3>4
    <3>6. w.setup # "error" /\ w.setup # "ready" /\ w.tested \in okTests \cup {Nil}
      BY <1>3, <2>4, <2>6 DEF Updates
    <3> QED
      BY <1>7, <1>8, <2>4, <3>5, <3>6 DEF Updates
  <2> QED
    BY <2>5, <2>6
<1>9. CASE ~(IsApply(req[t]) /\ ~failed[t])
  <2>1. Harmless(okTests, req[t], todo[t][1]) /\ Short(okTests, req[t], Tail(todo[t]))
    BY <1>1, <1>9, HeadFacts
  <2>2. /\ w \in Sessions /\ w.tested \in okTests \cup {Nil}
        /\ w.setup = "error" => ~w.configured
        /\ w.setup = "ready" =>
             w.configured /\ view[t].setup = "ready" /\ req[t].kind \notin Settling
    BY <1>3, <1>5, <2>1, HarmlessUpdates DEF w
  <2>3. req[t].kind \notin Settling => last' = last
    BY <1>1 DEF Settled, Settling, IsApply
  <2> QED
    BY <1>2, <1>3, <1>7, <1>9, <2>1, <2>2, <2>3
<1> QED
  BY <1>8, <1>9

-----------------------------------------------------------------------------
(* Updates of config.json.                                                 *)

\* A configuration update at its first step has both steps left.
LEMMA AtConf ==
  ASSUME SetupInv, NEW t \in Busy, At(t, "conf")
  PROVE  /\ todo[t] # <<>> /\ ~Loading(t) /\ todo[t][1].do = "conf"
         /\ req[t].kind = "config" => todo[t] = UpdateConfig(req[t])
<1>1. todo[t] # <<>> /\ ~Loading(t) /\ todo[t][1].do = "conf"
  BY AtSession DEF At
<1>2. req[t].kind = "config" => todo[t] = UpdateConfig(req[t])
  BY <1>1, HeadFacts DEF HandlerStands, Loading
<1> QED
  BY <1>1, <1>2

\* A configuration is no session.
LEMMA ConfsApart == \A v \in Confs : v \notin Sessions
<1> SUFFICES ASSUME NEW v \in Confs, v \in Sessions PROVE FALSE
  OBVIOUS
<1>1. DOMAIN v = {"mode", "endpoint"}
  BY DEF Confs
<1>2. "setup" \in DOMAIN v
  BY DEF Sessions
<1> QED
  BY <1>1, <1>2

\* A read takes over the configuration, or raises.
LEMMA ReadConfStep ==
  ASSUME SetupInv, NEW t \in Busy, ReadConf(t)
  PROVE  SetupInv'
<1>1. /\ At(t, "conf") /\ stage[t] = "start" /\ todo[t] # <<>> /\ ~Loading(t)
      /\ todo[t][1].do = "conf"
      /\ UNCHANGED <<session, conf, brokerGroup, up, client, last, okTests>>
  BY AtConf DEF ReadConf, files, history
<1>2. CASE conf # Torn
  <2>1. /\ view' = [view EXCEPT ![t] = conf] /\ stage' = [stage EXCEPT ![t] = "read"]
        /\ UNCHANGED <<req, todo, failed>>
    BY <1>2 DEF ReadConf, Enter
  <2>2. /\ t \in Threads /\ view'[t] = conf /\ stage'[t] = "read"
        /\ DOMAIN view' = Threads /\ DOMAIN todo' = Threads
        /\ \A u \in Threads : u # t => stage'[u] = stage[u]
        /\ stage' \in [Threads -> {"start", "read", "open"}]
    BY <2>1 DEF SetupInv, Served, Busy, SetupTypeOK
  <2>3. SetupTypeOK' /\ TestsKnown' /\ GateStands'
    BY <1>1, <2>1, <2>2 DEF SetupInv, SetupTypeOK, TestsKnown, GateStands, Ready
  <2>4. Ready => client = conf.endpoint
    BY <1>1, <1>2, HeadFacts DEF SetupInv, ClientStands, Served
  <2>5. conf \in Confs
    BY <1>2 DEF SetupInv, SetupTypeOK
  <2>6. UpdateStands(t)'
    BY <1>1, <2>1, <2>2, <2>4, <2>5 DEF UpdateStands, At, Ready
  <2>7. \A p \in Phases : Stands(t, p) => Stands(t, p)'
    BY <1>1, <2>1, <2>2, <2>5, ConfsApart DEF Stands, Ready, Closed, Sessions
  <2>8. HandlerStands(t)'
    BY <1>1, <2>1, <2>6, <2>7, HeadFacts DEF HandlerStands
  <2> QED
    BY <1>1, <2>1, <2>2, <2>3, <2>4, <2>8, ThreadMoves DEF Ready
<1>3. CASE conf = Torn
  BY <1>1, <1>3, RaiseStands DEF ReadConf
<1> QED
  BY <1>2, <1>3

\* While the file is torn nobody can start the client from it.
LEMMA OpenConfStep ==
  ASSUME SetupInv, NEW t \in Busy, OpenConf(t)
  PROVE  SetupInv'
<1>1. /\ At(t, "conf") /\ stage[t] = "read" /\ todo[t] # <<>> /\ todo[t][1].do = "conf"
      /\ conf' = Torn /\ stage' = [stage EXCEPT ![t] = "open"]
      /\ UNCHANGED <<session, brokerGroup, up, client, req, todo, view, failed, last, okTests>>
  BY AtConf DEF OpenConf, Enter, history
<1>2. /\ t \in Threads /\ stage'[t] = "open" /\ DOMAIN view' = Threads /\ DOMAIN todo' = Threads
      /\ \A u \in Threads : u # t => stage'[u] = stage[u]
      /\ stage' \in [Threads -> {"start", "read", "open"}]
  BY <1>1 DEF SetupInv, Served, Busy, SetupTypeOK
<1>3. SetupTypeOK' /\ TestsKnown' /\ GateStands'
  BY <1>1, <1>2 DEF SetupInv, SetupTypeOK, TestsKnown, GateStands, Ready
<1>4. UpdateStands(t)'
  BY <1>1, <1>2, HeadFacts DEF HandlerStands, UpdateStands, At, Ready
<1>5. \A p \in Phases \ {"done"} :
        Stands(t, p) /\ todo[t][1] = StepOf(req[t], p) => Stands(t, p)'
  <2> SUFFICES ASSUME NEW p \in Phases \ {"done"}, Stands(t, p),
                      todo[t][1] = StepOf(req[t], p)
               PROVE  Stands(t, p)'
    OBVIOUS
  <2>1. p = "write"
    BY <1>1, StepFacts DEF Phases
  <2> QED
    BY <1>1, <2>1 DEF Stands
<1>6. HandlerStands(t)'
  BY <1>1, <1>4, <1>5, HeadFacts DEF HandlerStands
<1> QED
  BY <1>1, <1>2, <1>3, <1>6, ThreadMoves

\* After its write, a configuration update has only the reload left.
LEMMA ConfigTail ==
  \A r : Tail(UpdateConfig(r)) = <<Step("reload", None, FALSE)>>
<1>1. \A a, b : Tail(<<a, b>>) = <<b>>
  OBVIOUS
<1> QED
  BY <1>1, Zenon DEF UpdateConfig

\* The configuration an apply writes is the one it was asked for.
LEMMA WriteFacts ==
  ASSUME NEW r \in Requests, IsApply(r), NEW v \in Confs, NEW x, x = StepOf(r, "write")
  PROVE  Override(v, x.set) = Applied(r) /\ Applied(r) \in Confs
<1> DEFINE set == x.set
<1>1. /\ Applied(r) \in Confs
      /\ Applied(r) = [mode |-> Applied(r).mode, endpoint |-> Applied(r).endpoint]
  BY RequestFacts DEF Applied, IsApply, FromOutside, Confs, AllEndpoints
<1>2. set = [mode |-> Applied(r).mode, endpoint |-> Applied(r).endpoint]
  BY DEF StepOf, WriteStep, ApplyConfig, Step
<1> HIDE DEF set
<1>3. /\ DOMAIN set = {"mode", "endpoint"}
      /\ set.mode = Applied(r).mode /\ set.endpoint = Applied(r).endpoint
  BY <1>2
<1>4. /\ Applied(r).mode \in {"external", "embedded", Nil}
      /\ Applied(r).endpoint \in AllEndpoints
  BY <1>1 DEF Confs
<1>5. PICK w : w = Override(v, set)
  OBVIOUS
<1>6. /\ w = [mode |-> w.mode, endpoint |-> w.endpoint]
      /\ w.mode = Applied(r).mode /\ w.endpoint = Applied(r).endpoint
  BY <1>3, <1>4, <1>5, OverrideConf
<1>7. w = Applied(r)
  BY ONLY <1>1, <1>6
<1> QED
  BY <1>1, <1>5, <1>7 DEF set

\* The fill writes the new configuration: the client keeps its endpoint unless
\* the gate is closed or a reload follows.
LEMMA FillConfStep ==
  ASSUME SetupInv, NEW t \in Busy, FillConf(t)
  PROVE  SetupInv'
<1> DEFINE w == Override(view[t], todo[t][1].set)
<1>1. /\ At(t, "conf") /\ stage[t] = "open" /\ todo[t] # <<>> /\ todo[t][1].do = "conf"
      /\ req[t].kind = "config" => todo[t] = UpdateConfig(req[t])
      /\ last' = IF IsApply(req[t]) THEN "applying" ELSE last
      /\ UNCHANGED <<session, brokerGroup, up, client, req, failed, okTests>>
  BY AtConf DEF FillConf
<1>2. /\ t \in Threads /\ stage'[t] = "start" /\ todo'[t] = Tail(todo[t])
      /\ DOMAIN view' = Threads /\ DOMAIN todo' = Threads
      /\ \A u \in Threads : u # t => stage'[u] = stage[u] /\ todo'[u] = todo[u]
      /\ stage' \in [Threads -> {"start", "read", "open"}]
      /\ view'[t] = Nil
  <2>1. /\ stage' = [stage EXCEPT ![t] = "start"] /\ view' = [view EXCEPT ![t] = Nil]
        /\ todo' = [todo EXCEPT ![t] = Tail(todo[t])]
    BY DEF FillConf, Enter
  <2> QED
    BY <2>1, FillFacts DEF SetupInv, Served, Busy
<1>3. /\ view[t] \in Confs /\ (Ready => client = view[t].endpoint)
      /\ conf = Torn /\ req[t] \in Requests
  BY <1>1, HeadFacts DEF HandlerStands, UpdateStands
<1>4. conf' = w
  BY <1>1, <1>3 DEF FillConf, Written
<1>5. UpdateStands(t)'
  BY <1>2 DEF UpdateStands
<1> HIDE DEF w
<1>6. ASSUME w \in Confs, Ready => last' = last,
             Ready => client = w.endpoint \/ Loading(t)',
             IF IsApply(req[t]) /\ ~failed[t] THEN \E p \in Phases : Stands(t, p)'
                                              ELSE Short(okTests, req[t], todo'[t]),
             req[t].kind = "config" => todo'[t] = <<Step("reload", None, FALSE)>>
      PROVE  SetupInv'
  <2>1. SetupTypeOK'
    BY <1>1, <1>2, <1>4, <1>6 DEF SetupInv, SetupTypeOK
  <2>2. TestsKnown' /\ GateStands'
    BY <1>1, <1>6 DEF SetupInv, TestsKnown, GateStands, Ready
  <2>3. Ready' /\ conf' # Torn /\ ~Loading(t)' => client' = conf'.endpoint
    BY <1>1, <1>4, <1>6 DEF Ready
  <2>4. HandlerStands(t)'
    BY <1>1, <1>5, <1>6 DEF HandlerStands
  <2> QED
    BY <1>1, <1>2, <2>1, <2>2, <2>3, <2>4, ThreadMoves
<1>7. CASE IsApply(req[t]) /\ ~failed[t]
  <2>1. PICK p \in Phases \ {"done"} :
          /\ Stands(t, p) /\ todo[t][1] = StepOf(req[t], p)
          /\ Tail(todo[t]) = Left(req[t], After(req[t], p))
          /\ Allowed(req[t], After(req[t], p))
    BY <1>1, <1>7, HeadFacts
  <2>2. p = "write" /\ After(req[t], p) = "configured"
    BY <1>1, <2>1, StepFacts DEF Phases, After
  <2>3. w = Applied(req[t]) /\ w \in Confs
    BY <1>3, <1>7, <2>1, <2>2, WriteFacts DEF w
  <2>4. Closed(session) /\ ~Ready
    BY <2>1, <2>2 DEF Stands, Closed, Ready
  <2>5. Closed(view[t])'
    BY <1>2, ValuesAssumption DEF Closed, Sessions
  <2>6. Stands(t, "configured")'
    <3>1. NeedsTest(req[t]) => req[t].endpoint \in okTests
      BY <2>1, <2>2 DEF Stands
    <3>2. Closed(session)'
      BY <1>1, <2>4 DEF Closed, Sessions
    <3> QED
      BY <1>1, <1>2, <1>4, <2>1, <2>2, <2>3, <2>5, <3>1, <3>2 DEF Stands
  <2>7. req[t].kind # "config"
    BY <1>7 DEF IsApply
  <2> QED
    BY <1>6, <1>7, <2>3, <2>4, <2>6, <2>7 DEF Phases
<1>8. CASE ~(IsApply(req[t]) /\ ~failed[t])
  <2> DEFINE set == todo[t][1].set
  <2>1. Harmless(okTests, req[t], todo[t][1]) /\ Short(okTests, req[t], Tail(todo[t]))
    BY <1>1, <1>8, HeadFacts
  <2>2. /\ ~IsApply(req[t])
        /\ "mode" \in DOMAIN set => set.mode \in {"external", "embedded"}
        /\ "endpoint" \in DOMAIN set => req[t].kind = "config" /\ set.endpoint \in Endpoints
    BY <1>1, <2>1 DEF Harmless
  <2> HIDE DEF set
  <2>3. /\ w \in Confs
        /\ w.endpoint = IF "endpoint" \in DOMAIN set THEN set.endpoint ELSE view[t].endpoint
    BY <1>3, <2>2, OverrideConf DEF w, set, AllEndpoints
  <2>4. req[t].kind = "config" => todo'[t] = <<Step("reload", None, FALSE)>>
    BY <1>1, <1>2, ConfigTail
  <2>5. req[t].kind = "config" => Loading(t)'
    BY <1>1, <2>4 DEF Loading
  <2> QED
    BY <1>1, <1>2, <1>3, <1>6, <1>8, <2>1, <2>2, <2>3, <2>4, <2>5
<1> QED
  BY <1>7, <1>8

-----------------------------------------------------------------------------
(* The reset, and failing writes.                                          *)

\* Only the reset, which is no apply, is at this step.
LEMMA AtReset ==
  ASSUME SetupInv, NEW t \in Busy, At(t, "reset")
  PROVE  /\ ~(IsApply(req[t]) /\ ~failed[t])
         /\ Short(okTests, req[t], todo[t]) /\ Short(okTests, req[t], Tail(todo[t]))
<1>1. todo[t] # <<>> /\ todo[t][1].do = "reset"
  BY DEF At
<1>2. ~(IsApply(req[t]) /\ ~failed[t])
  <2> SUFFICES ASSUME IsApply(req[t]) /\ ~failed[t] PROVE FALSE
    OBVIOUS
  <2>1. PICK p \in Phases \ {"done"} : todo[t][1] = StepOf(req[t], p)
    BY <1>1, HeadFacts
  <2> QED
    BY <1>1, <2>1, StepFacts DEF Phases
<1> QED
  BY <1>1, <1>2, HeadFacts DEF HandlerStands

\* The reset truncates the file without reading it.
LEMMA OpenResetStep ==
  ASSUME SetupInv, NEW t \in Busy, OpenReset(t)
  PROVE  SetupInv'
<1>1. /\ At(t, "reset") /\ todo[t] # <<>> /\ todo[t][1].do = "reset" /\ req[t].kind # "config"
      /\ session' = Torn /\ stage' = [stage EXCEPT ![t] = "open"]
      /\ UNCHANGED <<conf, brokerGroup, up, client, req, todo, view, failed, last, okTests>>
  BY AtSession DEF OpenReset, Enter, history, At
<1>2. /\ t \in Threads /\ stage'[t] = "open" /\ DOMAIN view' = Threads /\ DOMAIN todo' = Threads
      /\ \A u \in Threads : u # t => stage'[u] = stage[u]
      /\ stage' \in [Threads -> {"start", "read", "open"}]
  BY <1>1 DEF SetupInv, Served, Busy, SetupTypeOK
<1>3. session' \notin Sessions' /\ ~Ready'
  BY <1>1, ValuesAssumption DEF Ready, Sessions
<1>4. SetupTypeOK' /\ TestsKnown' /\ GateStands'
  BY <1>1, <1>2, <1>3 DEF SetupInv, SetupTypeOK, TestsKnown, GateStands, Sessions
<1>5. UpdateStands(t)'
  BY <1>1, <1>2 DEF UpdateStands, At
<1>6. HandlerStands(t)'
  BY <1>1, <1>5, AtReset DEF HandlerStands
<1> QED
  BY <1>1, <1>2, <1>3, <1>4, <1>6, ThreadMoves

\* The defaults are written: the gate is closed.
LEMMA FillResetStep ==
  ASSUME SetupInv, NEW t \in Busy, FillReset(t)
  PROVE  SetupInv'
<1>1. /\ At(t, "reset") /\ stage[t] = "open" /\ todo[t] # <<>> /\ todo[t][1].do = "reset"
      /\ req[t].kind # "config"
      /\ UNCHANGED <<conf, brokerGroup, up, client, req, view, failed, okTests>>
  BY AtSession DEF FillReset, At
<1>2. /\ t \in Threads /\ stage'[t] = "start" /\ todo'[t] = Tail(todo[t])
      /\ DOMAIN view' = Threads /\ DOMAIN todo' = Threads
      /\ \A u \in Threads : u # t => stage'[u] = stage[u] /\ todo'[u] = todo[u]
      /\ stage' \in [Threads -> {"start", "read", "open"}]
  <2>1. /\ stage' = [stage EXCEPT ![t] = "start"] /\ view' = view
        /\ todo' = [todo EXCEPT ![t] = Tail(todo[t])]
    BY DEF FillReset, Enter
  <2> QED
    BY <2>1, FillFacts
<1>3. session = Torn
  BY <1>1, HeadFacts DEF HandlerStands, UpdateStands, At
<1>4. session' = DefaultSession
  BY <1>3 DEF FillReset, Written
<1>5. /\ DefaultSession \in Sessions /\ DefaultSession.setup = "unconfigured"
      /\ DefaultSession.tested = Nil
  BY DEF DefaultSession, Sessions
<1>6. SetupTypeOK'
  BY <1>1, <1>2, <1>4, <1>5 DEF SetupInv, SetupTypeOK
<1>7. TestsKnown' /\ GateStands' /\ ~Ready'
  BY <1>4, <1>5 DEF TestsKnown, GateStands, Ready
<1>8. UpdateStands(t)'
  BY <1>2 DEF UpdateStands
<1>9. HandlerStands(t)'
  BY <1>1, <1>2, <1>8, AtReset DEF HandlerStands
<1> QED
  BY <1>1, <1>2, <1>6, <1>7, <1>9, ThreadMoves

\* A write that fails leaves the file as it was, or torn.
LEMMA WriteFailsStep ==
  ASSUME SetupInv, NEW t \in Busy, WriteFails(t)
  PROVE  SetupInv'
<1>1. /\ At(t, "session") \/ At(t, "conf") \/ At(t, "reset")
      /\ Raise(t) /\ UNCHANGED <<session, conf, brokerGroup, up, client, last, okTests>>
  BY DEF WriteFails, files, history
<1> QED
  BY <1>1, AtSession, RaiseStands

-----------------------------------------------------------------------------
(* The other steps.                                                        *)

Outside == {"check", "probe", "core", "docker", "broker files", "broker group", "select",
            "desired", "reload"}

\* A thread at one of them has no file update under way.
LEMMA AtOutside ==
  ASSUME SetupInv, NEW t \in Busy, NEW do \in Outside, At(t, do)
  PROVE  /\ t \in Threads /\ todo[t] # <<>> /\ todo[t][1].do = do /\ stage[t] = "start"
         /\ do # "reload" => ~Loading(t) /\ req[t].kind # "config"
<1>1. /\ todo[t] # <<>> /\ todo[t][1].do = do
      /\ do \notin {"session", "conf", "reset"}
  BY DEF At, Outside
<1>2. stage[t] = "start"
  BY <1>1, HeadFacts DEF HandlerStands, UpdateStands, At
<1>3. ASSUME do # "reload"
      PROVE  ~Loading(t) /\ req[t].kind # "config"
  <2>1. ~Loading(t)
    BY <1>1, <1>3 DEF Loading, Step
  <2>2. ASSUME req[t].kind = "config"
        PROVE  FALSE
    <3>1. todo[t] = UpdateConfig(req[t])
      BY <1>1, <2>1, <2>2, HeadFacts DEF HandlerStands, Loading
    <3> QED
      BY <1>1, <3>1 DEF UpdateConfig, Step
  <2> QED
    BY <2>1, <2>2
<1> QED
  BY <1>1, <1>2, <1>3, HeadFacts

\* A step that changes neither files nor client moves its own thread only.
LEMMA Moves ==
  ASSUME SetupInv, NEW t \in Busy, stage[t] = "start", ~Loading(t), req[t].kind # "config",
         UNCHANGED <<session, conf, up, client, req, stage, view, last>>,
         brokerGroup' \in BOOLEAN, failed' \in [Threads -> BOOLEAN],
         okTests \subseteq okTests', okTests' \subseteq Endpoints,
         \A u \in Threads : u # t => todo'[u] = todo[u],
         DOMAIN todo' = Threads,
         IF IsApply(req[t]) /\ ~failed'[t] THEN \E p \in Phases : Stands(t, p)'
                                           ELSE Short(okTests', req[t], todo'[t])
  PROVE  SetupInv'
<1>1. t \in Threads /\ \A u \in Busy : u = t
  BY DEF SetupInv, Served, Busy
<1>2. SetupTypeOK' /\ TestsKnown' /\ GateStands'
  BY DEF SetupInv, SetupTypeOK, TestsKnown, GateStands, Ready
<1>3. Ready' /\ conf' # Torn => client' = conf'.endpoint
  BY <1>1 DEF SetupInv, ClientStands, Served, Ready
<1>4. HandlerStands(t)'
  BY DEF HandlerStands, UpdateStands
<1> QED
  BY <1>2, <1>3, <1>4, ThreadMoves DEF SetupInv, Served

\* The phases by the step they are at.
LEMMA StepKinds ==
  ASSUME NEW r, NEW p \in Phases \ {"done"}
  PROVE  \/ p \in {"mark", "configured", "note", "finish"} /\ StepOf(r, p).do = "session"
         \/ p = "check" /\ StepOf(r, p).do = "check"
         \/ p = "write" /\ StepOf(r, p).do = "conf"
         \/ p = "files" /\ StepOf(r, p).do = "broker files"
         \/ p = "group" /\ StepOf(r, p).do = "broker group"
         \/ p = "load" /\ StepOf(r, p).do = "reload"
<1>1. CASE p \in {"mark", "configured", "note", "finish"}
  BY <1>1, StepFacts
<1>2. CASE p = "check"
  BY <1>2, StepFacts
<1>3. CASE p = "write"
  BY <1>3, StepFacts
<1>4. CASE p = "files"
  BY <1>4, StepFacts
<1>5. CASE p = "group"
  BY <1>5, StepFacts
<1>6. CASE p = "load"
  BY <1>6, StepFacts
<1> QED
  BY <1>1, <1>2, <1>3, <1>4, <1>5, <1>6 DEF Phases

\* A step that is done: the apply enters its next phase, if it has found there
\* what that phase relies on.
LEMMA PassOver ==
  ASSUME SetupInv, NEW t \in Busy, NEW do \in Outside \ {"reload"}, At(t, do), Done(t),
         UNCHANGED <<session, conf, up, client, last, okTests>>,
         brokerGroup' \in BOOLEAN, do # "select" => brokerGroup' = brokerGroup,
         do = "check" => req[t].endpoint \in okTests,
         do = "broker group" => brokerGroup
  PROVE  SetupInv'
<1>1. /\ t \in Threads /\ todo[t] # <<>> /\ todo[t][1].do = do /\ stage[t] = "start"
      /\ ~Loading(t) /\ req[t].kind # "config"
  BY AtOutside
<1>2. /\ todo'[t] = Tail(todo[t]) /\ DOMAIN todo' = Threads
      /\ \A u \in Threads : u # t => todo'[u] = todo[u]
      /\ UNCHANGED <<req, stage, view, failed>>
  BY DoneFacts
<1>3. ASSUME IsApply(req[t]) /\ ~failed[t]
      PROVE  \E p \in Phases : Stands(t, p)'
  <2>1. PICK p \in Phases \ {"done"} :
          /\ Stands(t, p) /\ todo[t][1] = StepOf(req[t], p)
          /\ Tail(todo[t]) = Left(req[t], After(req[t], p))
          /\ Allowed(req[t], After(req[t], p))
    BY <1>1, <1>3, HeadFacts
  <2>2. PICK q : q = After(req[t], p)
    OBVIOUS
  <2>3. \/ do = "check" /\ p = "check" /\ q = "write"
        \/ do = "broker files" /\ p = "files" /\ q = "group"
        \/ do = "broker group" /\ p = "group" /\ q = "load"
    <3>1. StepOf(req[t], p).do = do
      BY <1>1, <2>1
    <3>2. \/ do = "check" /\ p = "check"
          \/ do = "broker files" /\ p = "files"
          \/ do = "broker group" /\ p = "group"
      BY <3>1, StepKinds DEF Outside
    <3> QED
      BY <2>2, <3>2 DEF After
  <2>4. brokerGroup' = brokerGroup
    BY <2>3
  <2>5. Closed(session) /\ Closed(view[t])
    BY <2>1, <2>3 DEF Stands
  <2>6. NeedsTest(req[t]) => req[t].endpoint \in okTests
    BY <2>1, <2>3 DEF Stands
  <2>7. q # "write" => conf = Applied(req[t])
    BY <2>1, <2>3 DEF Stands
  <2>8. q = "load" => brokerGroup
    BY <2>3
  <2>9. q \in {"write", "group", "load"}
    BY <2>3
  <2>10. Allowed(req[t], q) /\ todo'[t] = Left(req[t], q)
    BY <1>2, <2>1, <2>2
  <2>11. Stands(t, q)'
    BY <1>2, <2>4, <2>5, <2>6, <2>7, <2>8, <2>9, <2>10 DEF Stands, Closed, Sessions
  <2> QED
    BY <2>9, <2>11 DEF Phases
<1>4. ASSUME ~(IsApply(req[t]) /\ ~failed[t])
      PROVE  Short(okTests, req[t], todo'[t])
  BY <1>1, <1>2, <1>4, HeadFacts
<1>5. okTests' \subseteq Endpoints /\ failed' \in [Threads -> BOOLEAN]
  BY <1>2 DEF SetupInv, SetupTypeOK
<1> QED
  BY <1>1, <1>2, <1>3, <1>4, <1>5, Moves

\* A step that goes on with one update instead, none of which opens the gate.
LEMMA OnlyShort ==
  ASSUME SetupInv, NEW t \in Busy, NEW do \in {"probe", "core", "docker", "select", "desired"},
         At(t, do)
  PROVE  ~(IsApply(req[t]) /\ ~failed[t]) /\ Harmless(okTests, req[t], todo[t][1])
<1>1. todo[t] # <<>> /\ todo[t][1].do = do
  BY DEF At
<1>2. ~(IsApply(req[t]) /\ ~failed[t])
  <2> SUFFICES ASSUME IsApply(req[t]) /\ ~failed[t] PROVE FALSE
    OBVIOUS
  <2>1. PICK p \in Phases \ {"done"} : StepOf(req[t], p).do = do
    BY <1>1, HeadFacts
  <2>2. StepOf(req[t], p).do \in
          {"session", "check", "conf", "broker files", "broker group", "reload"}
    BY StepKinds
  <2> QED
    BY <2>1, <2>2
<1> QED
  BY <1>1, <1>2, HeadFacts

\* One update follows the test, the registration and the restart.
LEMMA OneUpdateStep ==
  ASSUME SetupInv, NEW t \in Busy, NEW do \in {"probe", "core", "docker"}, At(t, do),
         NEW set, GoOn(t, <<UpdateSession(set)>>), Harmless(okTests', req[t], UpdateSession(set)),
         UNCHANGED <<session, conf, brokerGroup, up, client, last>>,
         okTests \subseteq okTests', okTests' \subseteq Endpoints
  PROVE  SetupInv'
<1>1. /\ stage[t] = "start" /\ ~Loading(t) /\ req[t].kind # "config"
  BY AtOutside DEF Outside
<1>2. /\ todo'[t] = <<UpdateSession(set)>> /\ DOMAIN todo' = Threads
      /\ \A u \in Threads : u # t => todo'[u] = todo[u]
      /\ UNCHANGED <<req, stage, view, failed>>
  BY GoOnFacts
<1>3. Short(okTests', req[t], todo'[t])
  BY <1>2, OneUpdate
<1>4. brokerGroup' \in BOOLEAN /\ failed' \in [Threads -> BOOLEAN]
  BY <1>2 DEF SetupInv, SetupTypeOK
<1>5. ~(IsApply(req[t]) /\ ~failed'[t])
  BY <1>2, OnlyShort
<1> QED
  BY <1>1, <1>2, <1>3, <1>4, <1>5, Moves

\* A test is known as passed from the moment the broker has answered.
LEMMA ProbeStep ==
  ASSUME SetupInv, NEW t \in Busy, Probe(t)
  PROVE  SetupInv'
<1>1. PICK ok \in BOOLEAN :
        /\ GoOn(t, <<UpdateSession([setup |-> "configuring", verified |-> ok, error |-> ~ok,
                                    tested |-> IF ok THEN req[t].endpoint ELSE Nil])>>)
        /\ okTests' = IF ok THEN okTests \cup {req[t].endpoint} ELSE okTests
  BY DEF Probe
<1>2. At(t, "probe") /\ UNCHANGED <<session, conf, brokerGroup, up, client, last>>
  BY DEF Probe, files
<1>3. PICK set : set = [setup |-> "configuring", verified |-> ok, error |-> ~ok,
                        tested |-> IF ok THEN req[t].endpoint ELSE Nil]
  OBVIOUS
<1>4. /\ DOMAIN set = {"setup", "verified", "error", "tested"}
      /\ set.setup = "configuring" /\ set.verified \in BOOLEAN /\ set.error \in BOOLEAN
      /\ set.tested = IF ok THEN req[t].endpoint ELSE Nil
  BY <1>3
<1>5. req[t].endpoint \in Endpoints
  <2>1. req[t].kind = "test" /\ req[t] \in Requests
    BY <1>2, OnlyShort, HeadFacts DEF Harmless, At
  <2> QED
    BY <2>1, RequestFacts
<1>6. okTests \subseteq okTests' /\ okTests' \subseteq Endpoints
  BY <1>1, <1>5 DEF SetupInv, SetupTypeOK
<1>7. Harmless(okTests', req[t], UpdateSession(set))
  BY <1>1, <1>4 DEF Harmless, UpdateSession, Step
<1> QED
  BY <1>1, <1>2, <1>3, <1>6, <1>7, OneUpdateStep

\* A registration is recorded and settles nothing.
LEMMA RegisterAtCoreStep ==
  ASSUME SetupInv, NEW t \in Busy, RegisterAtCore(t)
  PROVE  SetupInv'
<1>1. PICK ok \in BOOLEAN : GoOn(t, <<UpdateSession([registered |-> ok, error |-> ~ok])>>)
  BY DEF RegisterAtCore
<1>2. At(t, "core") /\ UNCHANGED <<session, conf, brokerGroup, up, client, last, okTests>>
  BY DEF RegisterAtCore, files, history
<1>3. PICK set : set = [registered |-> ok, error |-> ~ok]
  OBVIOUS
<1>4. /\ DOMAIN set = {"registered", "error"}
      /\ set.registered \in BOOLEAN /\ set.error \in BOOLEAN
  BY <1>3
<1>5. req[t].kind = "register"
  BY <1>2, OnlyShort DEF Harmless, At
<1>6. Harmless(okTests', req[t], UpdateSession(set))
  BY <1>4, <1>5 DEF Harmless, UpdateSession, Step, Settling
<1>7. okTests \subseteq okTests' /\ okTests' \subseteq Endpoints
  BY <1>2 DEF SetupInv, SetupTypeOK
<1> QED
  BY <1>1, <1>2, <1>3, <1>6, <1>7, OneUpdateStep

\* Nor does a restart of the broker.
LEMMA RestartBrokerStep ==
  ASSUME SetupInv, NEW t \in Busy, RestartBroker(t)
  PROVE  SetupInv'
<1>1. PICK ok \in BOOLEAN : GoOn(t, <<UpdateSession([verified |-> ok, error |-> ~ok])>>)
  BY DEF RestartBroker
<1>2. At(t, "docker") /\ UNCHANGED <<session, conf, brokerGroup, up, client, last, okTests>>
  BY DEF RestartBroker, files, history
<1>3. PICK set : set = [verified |-> ok, error |-> ~ok]
  OBVIOUS
<1>4. /\ DOMAIN set = {"verified", "error"}
      /\ set.verified \in BOOLEAN /\ set.error \in BOOLEAN
  BY <1>3
<1>5. req[t].kind = "restart"
  BY <1>2, OnlyShort DEF Harmless, At
<1>6. Harmless(okTests', req[t], UpdateSession(set))
  BY <1>4, <1>5 DEF Harmless, UpdateSession, Step, Settling
<1>7. okTests \subseteq okTests' /\ okTests' \subseteq Endpoints
  BY <1>2 DEF SetupInv, SetupTypeOK
<1> QED
  BY <1>1, <1>2, <1>3, <1>6, <1>7, OneUpdateStep

\* Only an apply that has not failed looks for a test or asks for the broker.
LEMMA OnlyApply ==
  ASSUME SetupInv, NEW t \in Busy, NEW do \in {"check", "broker files", "broker group"},
         At(t, do)
  PROVE  /\ IsApply(req[t]) /\ ~failed[t]
         /\ \E p \in Phases \ {"done"} :
              /\ Stands(t, p) /\ todo[t][1] = StepOf(req[t], p)
              /\ Tail(todo[t]) = Left(req[t], After(req[t], p))
              /\ (do = "check" => p = "check") /\ (do = "broker group" => p = "group")
<1>1. todo[t] # <<>> /\ todo[t][1].do = do
  BY DEF At
<1>2. IsApply(req[t]) /\ ~failed[t]
  BY <1>1, HeadFacts DEF Harmless
<1>3. PICK p \in Phases \ {"done"} :
        /\ Stands(t, p) /\ todo[t][1] = StepOf(req[t], p)
        /\ Tail(todo[t]) = Left(req[t], After(req[t], p))
  BY <1>1, <1>2, HeadFacts
<1>4. StepOf(req[t], p).do = do
  BY <1>1, <1>3
<1>5. (do = "check" => p = "check") /\ (do = "broker group" => p = "group")
  BY <1>4, StepKinds
<1> QED
  BY <1>2, <1>3, <1>5

\* The test that is found is one of the endpoint in the request, which has been
\* passed.
LEMMA CheckStepStands ==
  ASSUME SetupInv, NEW t \in Busy, Check(t)
  PROVE  SetupInv'
<1>1. /\ At(t, "check")
      /\ UNCHANGED <<session, conf, brokerGroup, up, client, last, okTests>>
  BY DEF Check, files, history
<1>2. CASE SessionReadable /\ TestMatches(t)
  <2>1. Done(t)
    BY <1>2 DEF Check
  <2>2. PICK p \in Phases : Stands(t, p) /\ p = "check"
    BY <1>1, OnlyApply
  <2>3. req[t].endpoint \in Endpoints
    BY <1>1, <2>2, HeadFacts, RequestFacts DEF Stands, Allowed, NeedsTest, At
  <2>4. req[t].endpoint \in okTests
    BY <1>2, <2>3, SessionFacts, EndpointsAssumption DEF TestMatches
  <2>5. brokerGroup' \in BOOLEAN
    BY <1>1 DEF SetupInv, SetupTypeOK
  <2> QED
    BY <1>1, <2>1, <2>4, <2>5, PassOver DEF Outside
<1>3. CASE ~(SessionReadable /\ TestMatches(t))
  <2>1. Raise(t)
    BY <1>3 DEF Check
  <2>2. todo[t] # <<>> /\ ~Loading(t)
    BY <1>1, AtOutside DEF Outside
  <2> QED
    BY <1>1, <2>1, <2>2, RaiseStands
<1> QED
  BY <1>2, <1>3

\* The files of the broker are written, or the apply fails.
LEMMA BrokerFilesStep ==
  ASSUME SetupInv, NEW t \in Busy, BrokerFiles(t)
  PROVE  SetupInv'
<1>1. /\ At(t, "broker files") /\ (Done(t) \/ Raise(t))
      /\ UNCHANGED <<session, conf, brokerGroup, up, client, last, okTests>>
  BY DEF BrokerFiles, files, history
<1>2. todo[t] # <<>> /\ ~Loading(t)
  BY <1>1, AtOutside DEF Outside
<1>3. brokerGroup' \in BOOLEAN
  BY <1>1 DEF SetupInv, SetupTypeOK
<1>4. CASE Done(t)
  BY <1>1, <1>3, <1>4, PassOver DEF Outside
<1>5. CASE Raise(t)
  BY <1>1, <1>2, <1>5, RaiseStands
<1> QED
  BY <1>1, <1>4, <1>5

\* The embedded broker is requested when the apply goes on.
LEMMA BrokerGroupStep ==
  ASSUME SetupInv, NEW t \in Busy, BrokerGroup(t)
  PROVE  SetupInv'
<1>1. At(t, "broker group") /\ UNCHANGED <<session, conf, up, client, last, okTests>>
  BY DEF BrokerGroup, history
<1>2. /\ t \in Threads /\ todo[t] # <<>> /\ stage[t] = "start" /\ ~Loading(t)
      /\ req[t].kind # "config"
  BY <1>1, AtOutside DEF Outside
<1>3. /\ brokerGroup \in BOOLEAN /\ failed \in [Threads -> BOOLEAN]
      /\ okTests' \subseteq Endpoints /\ DOMAIN todo = Threads
  BY <1>1 DEF SetupInv, SetupTypeOK, Served
<1>4. PICK p \in Phases \ {"done"} :
        /\ Stands(t, p) /\ Tail(todo[t]) = Left(req[t], After(req[t], p)) /\ p = "group"
        /\ IsApply(req[t]) /\ ~failed[t]
  BY <1>1, OnlyApply
<1>5. CASE brokerGroup /\ Done(t) /\ UNCHANGED brokerGroup
  BY <1>1, <1>3, <1>5, PassOver DEF Outside
<1>6. CASE /\ brokerGroup' = TRUE
           /\ GoOn(t, <<UpdateSession(None)>> \o Tail(todo[t]))
  <2>1. Tail(todo[t]) = <<LoadStep, FinishStep>>
    BY <1>4 DEF After, Left, FromLoad
  <2>2. <<NoteStep>> \o <<LoadStep, FinishStep>> = <<NoteStep, LoadStep, FinishStep>>
    BY Joins
  <2>3. /\ todo'[t] = <<UpdateSession(None)>> \o Tail(todo[t]) /\ DOMAIN todo' = Threads
        /\ \A u \in Threads : u # t => todo'[u] = todo[u]
        /\ UNCHANGED <<req, stage, view, failed>>
    BY <1>6, GoOnFacts
  <2>4. todo'[t] = <<NoteStep, LoadStep, FinishStep>>
    BY ONLY <2>1, <2>2, <2>3 DEF NoteStep
  <2>5. todo'[t] = Left(req[t], "note")
    BY <2>4 DEF Left
  <2>6. Allowed(req[t], "note")
    BY <1>4 DEF Stands, Allowed, Phases
  <2>7. Closed(session) /\ Closed(view[t]) /\ conf = Applied(req[t])
        /\ (NeedsTest(req[t]) => req[t].endpoint \in okTests)
    BY <1>4 DEF Stands
  <2>8. Stands(t, "note")'
    BY <1>1, <1>6, <2>3, <2>5, <2>6, <2>7 DEF Stands, Closed, Sessions
  <2> QED
    BY <1>1, <1>2, <1>3, <1>4, <1>6, <2>3, <2>8, Moves DEF Phases
<1>7. CASE Raise(t) /\ UNCHANGED brokerGroup
  BY <1>1, <1>2, <1>7, RaiseStands
<1>8. CASE /\ failed' = [failed EXCEPT ![t] = TRUE]
           /\ todo' = [todo EXCEPT ![t] = <<>>]
           /\ UNCHANGED <<brokerGroup, req, stage, view>>
  <2>1. /\ failed'[t] = TRUE /\ failed' \in [Threads -> BOOLEAN]
        /\ todo'[t] = <<>> /\ DOMAIN todo' = Threads
        /\ \A u \in Threads : u # t => todo'[u] = todo[u]
    BY <1>2, <1>3, <1>8
  <2>2. Short(okTests', req[t], todo'[t])
    BY <2>1 DEF Short
  <2> QED
    BY <1>1, <1>2, <1>3, <1>8, <2>1, <2>2, Moves
<1> QED
  BY <1>5, <1>6, <1>7, <1>8 DEF BrokerGroup

\* The desired state says nothing of the setup.
LEMMA SelectGroupsStep ==
  ASSUME SetupInv, NEW t \in Busy, SelectGroups(t)
  PROVE  SetupInv'
<1>1. At(t, "select") /\ UNCHANGED <<session, conf, up, client, last, okTests>>
  BY DEF SelectGroups, history
<1>2. todo[t] # <<>> /\ ~Loading(t)
  BY <1>1, AtOutside DEF Outside
<1>3. CASE brokerGroup' = req[t].broker /\ Done(t)
  <2>1. brokerGroup' \in BOOLEAN
    <3>1. req[t].kind = "groups" /\ req[t] \in Requests
      BY <1>1, OnlyShort, HeadFacts DEF Harmless, At
    <3> QED
      BY <1>3, <3>1, RequestFacts
  <2> QED
    BY <1>1, <1>3, <2>1, PassOver DEF Outside
<1>4. CASE UNCHANGED brokerGroup /\ Raise(t)
  BY <1>1, <1>2, <1>4, RaiseStands
<1> QED
  BY <1>3, <1>4 DEF SelectGroups

\* Nor does the Core URL in it.
LEMMA WriteDesiredStep ==
  ASSUME SetupInv, NEW t \in Busy, WriteDesired(t)
  PROVE  SetupInv'
<1>1. /\ At(t, "desired") /\ (Done(t) \/ Raise(t))
      /\ UNCHANGED <<session, conf, brokerGroup, up, client, last, okTests>>
  BY DEF WriteDesired, files, history
<1>2. todo[t] # <<>> /\ ~Loading(t)
  BY <1>1, AtOutside DEF Outside
<1>3. brokerGroup' \in BOOLEAN
  BY <1>1 DEF SetupInv, SetupTypeOK
<1>4. CASE Done(t)
  BY <1>1, <1>3, <1>4, PassOver DEF Outside
<1>5. CASE Raise(t)
  BY <1>1, <1>2, <1>5, RaiseStands
<1> QED
  BY <1>1, <1>4, <1>5

\* The client is started from what config.json holds.
LEMMA ReloadStep ==
  ASSUME SetupInv, NEW t \in Busy, Reload(t)
  PROVE  SetupInv'
<1>1. /\ At(t, "reload") /\ UNCHANGED <<session, conf, brokerGroup, up, last, okTests>>
  BY DEF Reload, files, history
<1>2. /\ t \in Threads /\ todo[t] # <<>> /\ todo[t][1].do = "reload" /\ stage[t] = "start"
  BY <1>1, AtOutside DEF Outside
<1>3. CASE conf # Torn
  <2>1. client' = conf.endpoint /\ Done(t)
    BY <1>3 DEF Reload
  <2>2. /\ todo'[t] = Tail(todo[t]) /\ DOMAIN todo' = Threads
        /\ \A u \in Threads : u # t => todo'[u] = todo[u]
        /\ UNCHANGED <<req, stage, view, failed>>
    BY <2>1, DoneFacts
  <2>3. SetupTypeOK'
    BY <1>1, <1>3, <2>1, <2>2 DEF SetupInv, SetupTypeOK, Confs
  <2>4. TestsKnown' /\ GateStands'
    BY <1>1 DEF SetupInv, TestsKnown, GateStands, Ready
  <2>5. UpdateStands(t)'
    BY <1>2, <2>2 DEF UpdateStands
  <2>6. ASSUME IsApply(req[t]) /\ ~failed[t]
        PROVE  \E p \in Phases : Stands(t, p)'
    <3>1. PICK p \in Phases \ {"done"} :
            /\ Stands(t, p) /\ todo[t][1] = StepOf(req[t], p)
            /\ Tail(todo[t]) = Left(req[t], After(req[t], p))
            /\ Allowed(req[t], After(req[t], p))
      BY <1>2, <2>6, HeadFacts
    <3>2. StepOf(req[t], p).do = "reload"
      BY <1>2, <3>1
    <3>3. p = "load" /\ After(req[t], p) = "finish"
      BY <3>2, StepKinds DEF After
    <3>4. Stands(t, "finish")'
      BY <1>1, <2>1, <2>2, <3>1, <3>3 DEF Stands, Closed, Sessions
    <3> QED
      BY <3>4 DEF Phases
  <2>7. ASSUME ~(IsApply(req[t]) /\ ~failed[t])
        PROVE  Short(okTests, req[t], todo'[t])
    BY <1>2, <2>2, <2>7, HeadFacts
  <2>8. ASSUME req[t].kind = "config"
        PROVE  todo'[t] = <<>>
    <3>1. todo[t] = <<Step("reload", None, FALSE)>>
      <4>1. todo[t] # UpdateConfig(req[t])
        BY <1>2 DEF UpdateConfig, Step
      <4> QED
        BY <1>2, <2>8, <4>1, HeadFacts DEF HandlerStands
    <3> QED
      BY <2>2, <3>1
  <2>9. HandlerStands(t)'
    BY <1>1, <2>2, <2>5, <2>6, <2>7, <2>8 DEF HandlerStands
  <2> QED
    BY <1>1, <2>1, <2>2, <2>3, <2>4, <2>9, ThreadMoves DEF SetupInv, Served
<1>4. CASE conf = Torn
  BY <1>1, <1>2, <1>4, RaiseStands DEF Reload
<1> QED
  BY <1>3, <1>4

-----------------------------------------------------------------------------
(* The requests and the process.                                           *)

\* With one request at a time, one begins when no other is under way.
LEMMA StartStep ==
  ASSUME OneAtATime, SetupInv, NEW t \in Threads, NEW r \in Requests, Start(t, r)
  PROVE  SetupInv'
<1>1. Busy = {}
  <2> SUFFICES ASSUME NEW u \in Busy PROVE FALSE
    OBVIOUS
  <2>1. Busy = {u}
    BY DEF SetupInv, Served
  <2>2. Cardinality(Busy) = 1
    BY <2>1, FS_Singleton
  <2> QED
    BY <2>2 DEF Start, OneAtATime
<1>2. /\ up /\ req[t] = Nil /\ r # Nil
      /\ UNCHANGED <<session, conf, brokerGroup, up, client, stage, view, last, okTests>>
  BY RequestFacts DEF Start, files, history
<1>3. /\ req' = [req EXCEPT ![t] = r] /\ todo' = [todo EXCEPT ![t] = Handler(r)]
      /\ failed' = [failed EXCEPT ![t] = FALSE]
  BY DEF Start
<1>4. /\ req \in [Threads -> Requests \cup {Nil}] /\ failed \in [Threads -> BOOLEAN]
      /\ stage[t] = "start" /\ DOMAIN todo = Threads
  BY <1>2 DEF SetupInv, SetupTypeOK, Served
<1>5. /\ req'[t] = r /\ todo'[t] = Handler(r) /\ failed'[t] = FALSE
      /\ req' \in [Threads -> Requests \cup {Nil}] /\ failed' \in [Threads -> BOOLEAN]
      /\ \A u \in Threads : u # t => req'[u] = req[u] /\ todo'[u] = todo[u]
      /\ DOMAIN todo' = Threads
  BY <1>3, <1>4
<1>6. Busy' = {t}
  BY <1>1, <1>2, <1>5 DEF Busy
<1>7. SetupTypeOK' /\ TestsKnown' /\ GateStands'
  BY <1>2, <1>5 DEF SetupInv, SetupTypeOK, TestsKnown, GateStands, Ready
<1>8. Served'
  BY <1>2, <1>5, <1>6 DEF SetupInv, Served
<1>9. ClientStands'
  BY <1>1, <1>2 DEF SetupInv, ClientStands, Ready
<1>10. UpdateStands(t)'
  BY <1>2, <1>4 DEF UpdateStands
<1>11. CASE IsApply(r)
  <2>1. Handler(r) = Left(r, "mark") /\ Allowed(r, "mark")
    BY <1>11, ApplyHandlers
  <2>2. Stands(t, "mark")'
    BY <1>5, <2>1 DEF Stands
  <2>3. r.kind # "config"
    BY <1>11 DEF IsApply
  <2>4. HandlerStands(t)'
    BY <1>5, <1>10, <1>11, <2>2, <2>3 DEF HandlerStands, Phases
  <2> QED
    BY <1>6, <1>7, <1>8, <1>9, <2>4 DEF SetupInv
<1>12. CASE ~IsApply(r)
  <2>1. /\ Short(okTests, r, Handler(r))
        /\ r.kind = "config" => Handler(r) = UpdateConfig(r)
    BY <1>12, ShortHandlers
  <2>2. HandlerStands(t)'
    BY <1>2, <1>5, <1>10, <1>12, <2>1 DEF HandlerStands
  <2> QED
    BY <1>6, <1>7, <1>8, <1>9, <2>2 DEF SetupInv
<1> QED
  BY <1>11, <1>12

\* An answered request leaves nobody at work.
LEMMA AnswerStep ==
  ASSUME SetupInv, NEW t \in Threads, Answer(t)
  PROVE  SetupInv'
<1>1. /\ t \in Busy /\ todo[t] = <<>> /\ req' = [req EXCEPT ![t] = Nil]
      /\ UNCHANGED <<session, conf, brokerGroup, up, client, todo, stage, view, failed,
                     last, okTests>>
  BY DEF Answer, files, history, Busy
<1>2. /\ req \in [Threads -> Requests \cup {Nil}] /\ \A u \in Busy : u = t
  BY <1>1 DEF SetupInv, SetupTypeOK, Served
<1>3. req' \in [Threads -> Requests \cup {Nil}] /\ Busy' = {}
  BY <1>1, <1>2 DEF Busy
<1>4. stage[t] = "start"
  BY <1>1 DEF SetupInv, HandlerStands, UpdateStands, At
<1>5. ~Loading(t)
  BY <1>1 DEF Loading
<1>6. SetupTypeOK' /\ TestsKnown' /\ GateStands'
  BY <1>1, <1>3 DEF SetupInv, SetupTypeOK, TestsKnown, GateStands, Ready
<1>7. Served'
  BY <1>1, <1>2, <1>3, <1>4 DEF SetupInv, Served, Busy
<1>8. ClientStands'
  BY <1>1, <1>2, <1>5 DEF SetupInv, ClientStands, Ready
<1> QED
  BY <1>3, <1>6, <1>7, <1>8 DEF SetupInv

\* The process dies with its requests and its client, and the files stay.
LEMMA CrashStep ==
  ASSUME SetupInv, Crash
  PROVE  SetupInv'
<1>1. /\ up' = FALSE /\ client' = Nil
      /\ req' = [t \in Threads |-> Nil] /\ todo' = [t \in Threads |-> <<>>]
      /\ stage' = [t \in Threads |-> "start"] /\ view' = [t \in Threads |-> Nil]
      /\ failed' = [t \in Threads |-> FALSE]
      /\ UNCHANGED <<session, conf, brokerGroup, last, okTests>>
  BY DEF Crash, files, history
<1>2. Busy' = {}
  BY <1>1 DEF Busy
<1>3. SetupTypeOK' /\ TestsKnown' /\ GateStands'
  BY <1>1 DEF SetupInv, SetupTypeOK, TestsKnown, GateStands, Ready, AllEndpoints
<1>4. Served' /\ ClientStands'
  BY <1>1, <1>2 DEF Served, ClientStands
<1> QED
  BY <1>2, <1>3, <1>4 DEF SetupInv

\* Without its session file the addon is not ready.
LEMMA LoseSessionStep ==
  ASSUME SetupInv, LoseSession
  PROVE  SetupInv'
<1>1. /\ ~up /\ session' = Missing
      /\ UNCHANGED <<conf, brokerGroup, up, client, req, todo, stage, view, failed,
                     last, okTests>>
  BY DEF LoseSession, handlers, history
<1>2. Busy' = {}
  BY <1>1 DEF SetupInv, Served, Busy
<1>3. session' \notin Sessions' /\ ~Ready'
  BY <1>1, ValuesAssumption DEF Ready, Sessions
<1>4. SetupTypeOK' /\ TestsKnown' /\ GateStands' /\ ClientStands'
  BY <1>1, <1>3 DEF SetupInv, SetupTypeOK, TestsKnown, GateStands, ClientStands, Sessions
<1>5. Served'
  BY <1>1 DEF SetupInv, Served, Busy
<1> QED
  BY <1>2, <1>4, <1>5 DEF SetupInv

\* A process that comes up runs the client that config.json asks for.
LEMMA BootStep ==
  ASSUME SetupInv, Boot
  PROVE  SetupInv'
<1>1. /\ ~up /\ conf # Torn /\ up' = TRUE /\ client' = conf.endpoint
      /\ UNCHANGED <<session, conf, brokerGroup, req, todo, stage, view, failed,
                     last, okTests>>
  BY DEF Boot, files, handlers, history
<1>2. Busy' = {}
  BY <1>1 DEF SetupInv, Served, Busy
<1>3. SetupTypeOK' /\ TestsKnown' /\ GateStands' /\ ClientStands'
  BY <1>1 DEF SetupInv, SetupTypeOK, TestsKnown, GateStands, ClientStands, Ready, Confs
<1>4. Served'
  BY <1>1 DEF SetupInv, Served, Busy
<1> QED
  BY <1>2, <1>3, <1>4 DEF SetupInv

\* Nothing is configured, and nobody at work, at the beginning.
LEMMA InitSetupInv ==
  ASSUME Init
  PROVE  SetupInv
<1>1. Busy = {} /\ session \notin Sessions
  BY ValuesAssumption DEF Init, Busy
<1>2. SetupTypeOK
  BY <1>1 DEF Init, SetupTypeOK, NoConf, Confs, AllEndpoints
<1>3. Served /\ TestsKnown /\ GateStands /\ ClientStands
  BY <1>1 DEF Init, Served, TestsKnown, GateStands, ClientStands, Ready
<1> QED
  BY <1>1, <1>2, <1>3 DEF SetupInv

\* No step of anybody breaks the invariant.
LEMMA NextSetupInv ==
  ASSUME OneAtATime, SetupInv, [Next]_vars
  PROVE  SetupInv'
<1>1. ASSUME NEW t \in Threads, NEW r \in Requests, Start(t, r)
      PROVE  SetupInv'
  BY <1>1, StartStep
<1>2. ASSUME NEW t \in Threads, Update(t)
      PROVE  SetupInv'
  <2>1. t \in Busy
    BY <1>2 DEF Update, ReadSession, OpenSession, FillSession, ReadConf, OpenConf, FillConf,
      OpenReset, FillReset, WriteFails, At, Busy
  <2> QED
    BY <1>2, <2>1, ReadSessionStep, OpenSessionStep, FillSessionStep, ReadConfStep,
      OpenConfStep, FillConfStep, OpenResetStep, FillResetStep, WriteFailsStep DEF Update
<1>3. ASSUME NEW t \in Threads, External(t)
      PROVE  SetupInv'
  <2>1. t \in Busy
    BY <1>3 DEF External, Check, Probe, RegisterAtCore, RestartBroker, BrokerFiles,
      BrokerGroup, SelectGroups, WriteDesired, Reload, At, Busy
  <2> QED
    BY <1>3, <2>1, CheckStepStands, ProbeStep, RegisterAtCoreStep, RestartBrokerStep,
      BrokerFilesStep, BrokerGroupStep, SelectGroupsStep, WriteDesiredStep, ReloadStep
      DEF External
<1>4. ASSUME NEW t \in Threads, Answer(t)
      PROVE  SetupInv'
  BY <1>4, AnswerStep
<1>5. CASE UNCHANGED vars
  <2>1. UNCHANGED <<session, conf, brokerGroup, up, client, req, todo, stage, view, failed,
                    last, okTests>>
    BY <1>5 DEF vars, files, handlers, history
  <2>2. Busy' = Busy
    BY <2>1 DEF Busy
  <2>3. SetupTypeOK' /\ Served' /\ TestsKnown' /\ GateStands'
    BY <2>1, <2>2 DEF SetupInv, SetupTypeOK, Served, TestsKnown, GateStands, Ready
  <2>4. ClientStands'
    BY <2>1, <2>2 DEF SetupInv, ClientStands, Ready, Loading
  <2>5. ASSUME NEW t \in Busy
        PROVE  HandlerStands(t)'
    <3>1. UpdateStands(t)'
      BY <2>1, <2>5 DEF SetupInv, HandlerStands, UpdateStands, At, Ready
    <3>2. \A p \in Phases : Stands(t, p) => Stands(t, p)'
      BY <2>1 DEF Stands, Ready, Closed
    <3> QED
      BY <2>1, <2>5, <3>1, <3>2 DEF SetupInv, HandlerStands
  <2> QED
    BY <2>2, <2>3, <2>4, <2>5 DEF SetupInv
<1> QED
  BY <1>1, <1>2, <1>3, <1>4, <1>5, CrashStep, LoseSessionStep, BootStep DEF Next

-----------------------------------------------------------------------------
(* The theorems.                                                           *)

\* While one request is under way at a time, the setup is always in a phase of
\* an apply or in the middle of a harmless handler.
THEOREM SetupInvariant ==
  ASSUME OneAtATime
  PROVE  Spec => []SetupInv
BY InitSetupInv, NextSetupInv, PTL DEF Spec

\* The files, the client and the threads keep their types, whatever fails.
THEOREM SetupTypes ==
  ASSUME OneAtATime
  PROVE  Spec => []SetupTypeOK
<1>1. SetupInv => SetupTypeOK
  BY DEF SetupInv
<1> QED
  BY <1>1, SetupInvariant, PTL

\* The gate is open only behind an apply that went through to its end.
THEOREM GateBehindApply ==
  ASSUME OneAtATime
  PROVE  Spec => []GateOpensByApply
<1>1. SetupInv => GateOpensByApply
  BY DEF SetupInv, GateStands, GateOpensByApply
<1> QED
  BY <1>1, SetupInvariant, PTL

\* A ready addon's client runs with what config.json holds.
THEOREM ReadyClientFollows ==
  ASSUME OneAtATime
  PROVE  Spec => []ClientFollowsConfig
<1>1. SetupInv => ClientFollowsConfig
  BY DEF SetupInv, ClientStands, ClientFollowsConfig
<1> QED
  BY <1>1, SetupInvariant, PTL

\* An apply with nothing left and no error is at its last phase.
LEMMA AnsweredIsDone ==
  ASSUME SetupInv, NEW t \in Busy, IsApply(req[t]), todo[t] = <<>>, ~failed[t]
  PROVE  Stands(t, "done")
<1>1. PICK p \in Phases : Stands(t, p)
  BY DEF SetupInv, HandlerStands
<1>2. p = "done"
  BY <1>1, LeftFacts DEF Stands
<1> QED
  BY <1>1, <1>2

\* An apply answered with success has taken effect as a whole.
THEOREM AnsweredApplied ==
  ASSUME OneAtATime
  PROVE  Spec => []AnsweredOkMeansApplied
<1>1. SetupInv => AnsweredOkMeansApplied
  <2> SUFFICES ASSUME SetupInv, NEW t \in Busy,
                      IsApply(req[t]), todo[t] = <<>>, ~failed[t]
               PROVE  /\ conf = Applied(req[t]) /\ client = conf.endpoint
                      /\ Ready /\ session.verified /\ ~session.error
                      /\ req[t].kind = "apply embedded" => brokerGroup
    BY DEF AnsweredOkMeansApplied
  <2>1. Stands(t, "done")
    BY AnsweredIsDone
  <2> QED
    BY <2>1 DEF Stands, FromOutside
<1> QED
  BY <1>1, SetupInvariant, PTL

-----------------------------------------------------------------------------
(* Any number of requests at once.  Much of the above is then lost, but not *)
(* the worth of a connection test: its result goes through reads and writes *)
(* of whole sessions, and none of them makes up another one.               *)

\* An apply that has not failed, in phase p with its endpoint tested.
TestedApply(t, p) ==
  /\ Allowed(req[t], p) /\ todo[t] = Left(req[t], p)
  /\ p \notin {"mark", "check"} /\ NeedsTest(req[t]) => req[t].endpoint \in okTests

\* What a handler has left to do.
Going(t) ==
  IF IsApply(req[t]) /\ ~failed[t] THEN \E p \in Phases : TestedApply(t, p)
                                   ELSE Short(okTests, req[t], todo[t])

\* A session with a test that has been passed, or with none.
Honest(tests, s) == s \in Sessions /\ s.tested \in tests \cup {Nil}

\* What the update of install_state.json has read.
ViewHonest(t) == stage[t] # "start" /\ At(t, "session") => Honest(okTests, view[t])

InUpdate(t) == At(t, "session") \/ At(t, "conf") \/ At(t, "reset")
Updating(t) == stage[t] # "start" => InUpdate(t)

TestInv ==
  /\ session \in Sessions \cup {Torn, Missing}
  /\ session \in Sessions => Honest(okTests, session)
  /\ okTests \subseteq Endpoints
  /\ req \in [Threads -> Requests \cup {Nil}]
  /\ DOMAIN todo = Threads /\ DOMAIN stage = Threads
  /\ DOMAIN view = Threads /\ DOMAIN failed = Threads
  /\ \A t \in Threads : Updating(t)
  /\ \A t \in Busy : Going(t) /\ ViewHonest(t)

\* A thread that does not move is not disturbed by a test another one passes.
LEMMA AnotherMoves ==
  ASSUME TestInv, NEW u \in Busy, okTests \subseteq okTests',
         req'[u] = req[u], todo'[u] = todo[u], stage'[u] = stage[u], view'[u] = view[u],
         failed'[u] = failed[u]
  PROVE  Updating(u)' /\ Going(u)' /\ ViewHonest(u)'
<1>1. Updating(u) /\ Going(u) /\ ViewHonest(u)
  BY DEF TestInv, Busy
<1>2. Updating(u)'
  BY <1>1 DEF Updating, InUpdate, At
<1>3. Going(u)'
  <2>1. CASE IsApply(req[u]) /\ ~failed[u]
    <3>1. PICK p \in Phases : TestedApply(u, p)
      BY <1>1, <2>1 DEF Going
    <3>2. TestedApply(u, p)'
      BY <3>1 DEF TestedApply
    <3> QED
      BY <2>1, <3>2 DEF Going
  <2>2. CASE ~(IsApply(req[u]) /\ ~failed[u])
    BY <1>1, <2>2, HarmlessKept DEF Going
  <2> QED
    BY <2>1, <2>2
<1>4. ViewHonest(u)'
  BY <1>1 DEF ViewHonest, At, Honest
<1> QED
  BY <1>2, <1>3, <1>4

\* So a step has to account for its own thread and for the session it leaves.
LEMMA OneMoves ==
  ASSUME TestInv, NEW t \in Busy, req' = req,
         okTests \subseteq okTests', okTests' \subseteq Endpoints,
         session' \in Sessions \cup {Torn, Missing},
         session' \in Sessions => Honest(okTests', session'),
         DOMAIN todo' = Threads, DOMAIN stage' = Threads, DOMAIN view' = Threads,
         DOMAIN failed' = Threads,
         \A u \in Threads : u # t =>
           /\ todo'[u] = todo[u] /\ stage'[u] = stage[u]
           /\ view'[u] = view[u] /\ failed'[u] = failed[u],
         Updating(t)', Going(t)', ViewHonest(t)'
  PROVE  TestInv'
<1>1. Busy' = Busy
  BY DEF Busy
<1>2. ASSUME NEW u \in Threads, u # t
      PROVE  Updating(u)' /\ (u \in Busy => Going(u)' /\ ViewHonest(u)')
  <2>1. CASE u \in Busy
    BY <1>2, <2>1, AnotherMoves
  <2>2. CASE u \notin Busy
    <3>1. req[u] = Nil /\ req'[u] = Nil /\ Updating(u)
      BY <2>2 DEF Busy, TestInv
    <3> QED
      BY <1>2, <2>2, <3>1 DEF Updating, InUpdate, At
  <2> QED
    BY <2>1, <2>2
<1>3. (\A u \in Threads : Updating(u)') /\ (\A u \in Busy : Going(u)' /\ ViewHonest(u)')
  BY <1>2 DEF Busy
<1> QED
  BY <1>1, <1>3 DEF TestInv

\* The next step of a handler, and what is left after it.
LEMMA NextStep ==
  ASSUME TestInv, NEW t \in Busy, todo[t] # <<>>
  PROVE  /\ t \in Threads /\ req[t] \in Requests
         /\ IF IsApply(req[t]) /\ ~failed[t]
            THEN \E p \in Phases \ {"done"} :
                   /\ TestedApply(t, p) /\ todo[t][1] = StepOf(req[t], p)
                   /\ Tail(todo[t]) = Left(req[t], After(req[t], p))
                   /\ Allowed(req[t], After(req[t], p))
            ELSE /\ Harmless(okTests, req[t], todo[t][1])
                 /\ Short(okTests, req[t], Tail(todo[t]))
<1>1. t \in Threads /\ req[t] \in Requests /\ Going(t)
  BY DEF TestInv, Busy
<1>2. CASE IsApply(req[t]) /\ ~failed[t]
  <2>1. PICK p \in Phases : TestedApply(t, p)
    BY <1>1, <1>2 DEF Going
  <2>2. todo[t] = Left(req[t], p) /\ Allowed(req[t], p) /\ p # "done"
    BY <2>1 DEF TestedApply, Left
  <2> QED
    BY <1>1, <1>2, <2>1, <2>2, LeftFacts
<1>3. CASE ~(IsApply(req[t]) /\ ~failed[t])
  BY <1>1, <1>3, ShortFacts DEF Going
<1> QED
  BY <1>1, <1>2, <1>3

\* A step that is done leaves the handler with what is left of it; a check must
\* have found its test.
LEMMA GoesOn ==
  ASSUME TestInv, NEW t \in Busy, todo[t] # <<>>,
         req'[t] = req[t], failed'[t] = failed[t], todo'[t] = Tail(todo[t]), okTests' = okTests,
         todo[t][1].do = "check" => req[t].endpoint \in okTests
  PROVE  Going(t)'
<1>1. CASE IsApply(req[t]) /\ ~failed[t]
  <2>1. PICK p \in Phases \ {"done"} :
          /\ TestedApply(t, p) /\ todo[t][1] = StepOf(req[t], p)
          /\ Tail(todo[t]) = Left(req[t], After(req[t], p))
          /\ Allowed(req[t], After(req[t], p))
    BY <1>1, NextStep
  <2>2. PICK q : q = After(req[t], p)
    OBVIOUS
  <2>3. Allowed(req[t], q) /\ todo'[t] = Left(req[t], q) /\ q \in Phases
    BY <2>1, <2>2 DEF Allowed
  <2>4. q \notin {"mark", "check"} /\ NeedsTest(req[t]) => req[t].endpoint \in okTests
    <3>1. CASE p = "mark"
      BY <2>2, <3>1 DEF After
    <3>2. CASE p = "check"
      <4>1. StepOf(req[t], p).do = "check"
        BY <3>2, StepKinds
      <4> QED
        BY <2>1, <4>1
    <3>3. CASE p \notin {"mark", "check"}
      BY <2>1, <3>3 DEF TestedApply
    <3> QED
      BY <3>1, <3>2, <3>3
  <2>5. TestedApply(t, q)'
    BY <2>3, <2>4 DEF TestedApply
  <2> QED
    BY <1>1, <2>3, <2>5 DEF Going
<1>2. CASE ~(IsApply(req[t]) /\ ~failed[t])
  BY <1>2, NextStep DEF Going
<1> QED
  BY <1>1, <1>2

\* An exception is not what makes a test pass.
LEMMA RaiseKeepsTests ==
  ASSUME TestInv, NEW t \in Busy, Raise(t), UNCHANGED <<session, okTests>>
  PROVE  TestInv'
<1>1. /\ t \in Threads /\ req' = req /\ DOMAIN todo = Threads /\ DOMAIN stage = Threads
      /\ DOMAIN view = Threads /\ DOMAIN failed = Threads
  BY DEF TestInv, Busy, Raise
<1>2. /\ todo'[t] = IF todo[t][1].try THEN <<UpdateSession(Errored)>> ELSE <<>>
      /\ stage'[t] = "start" /\ failed'[t] = TRUE
      /\ DOMAIN todo' = Threads /\ DOMAIN stage' = Threads
      /\ DOMAIN view' = Threads /\ DOMAIN failed' = Threads
      /\ \A u \in Threads : u # t =>
           /\ todo'[u] = todo[u] /\ stage'[u] = stage[u]
           /\ view'[u] = view[u] /\ failed'[u] = failed[u]
  BY <1>1 DEF Raise
<1>3. Updating(t)' /\ ViewHonest(t)'
  BY <1>2 DEF Updating, ViewHonest
<1>4. Going(t)'
  BY <1>1, <1>2, ErroredShort DEF Going, Short
<1>5. /\ okTests \subseteq okTests' /\ okTests' \subseteq Endpoints
      /\ session' \in Sessions \cup {Torn, Missing}
      /\ session' \in Sessions => Honest(okTests', session')
  BY DEF TestInv
<1> QED
  BY ONLY TestInv, t \in Busy, <1>1, <1>2, <1>3, <1>4, <1>5, OneMoves

\* A step that touches neither session nor tests is done.
LEMMA DoneKeepsTests ==
  ASSUME TestInv, NEW t \in Busy, NEW do \in Outside, At(t, do), Done(t),
         UNCHANGED <<session, okTests>>,
         do = "check" => req[t].endpoint \in okTests
  PROVE  TestInv'
<1>1. /\ t \in Threads /\ req' = req /\ todo[t] # <<>> /\ todo[t][1].do = do
      /\ todo'[t] = Tail(todo[t]) /\ DOMAIN todo' = Threads
      /\ UNCHANGED <<stage, view, failed>>
      /\ \A u \in Threads : u # t => todo'[u] = todo[u]
  BY DEF TestInv, Busy, Done, At
<1>2. stage[t] = "start"
  BY <1>1 DEF TestInv, Updating, InUpdate, At, Outside
<1>3. Updating(t)' /\ ViewHonest(t)'
  BY <1>1, <1>2 DEF Updating, ViewHonest
<1>4. Going(t)'
  BY <1>1, GoesOn
<1>5. /\ okTests \subseteq okTests' /\ okTests' \subseteq Endpoints
      /\ session' \in Sessions \cup {Torn, Missing}
      /\ session' \in Sessions => Honest(okTests', session')
      /\ DOMAIN stage' = Threads /\ DOMAIN view' = Threads /\ DOMAIN failed' = Threads
  BY <1>1 DEF TestInv
<1> QED
  BY ONLY TestInv, t \in Busy, <1>1, <1>3, <1>4, <1>5, OneMoves

\* A handler that is no apply goes on with one harmless update instead.
LEMMA UpdateInstead ==
  ASSUME TestInv, NEW t \in Busy, NEW do \in {"probe", "core", "docker"}, At(t, do),
         NEW tests, okTests' = tests, okTests \subseteq tests, tests \subseteq Endpoints,
         NEW set, GoOn(t, <<UpdateSession(set)>>), Harmless(tests, req[t], UpdateSession(set)),
         session' = session
  PROVE  TestInv'
<1>1. /\ t \in Threads /\ req' = req /\ todo[t] # <<>> /\ todo[t][1].do = do
      /\ todo'[t] = <<UpdateSession(set)>> /\ DOMAIN todo' = Threads
      /\ UNCHANGED <<stage, view, failed>>
      /\ \A u \in Threads : u # t => todo'[u] = todo[u]
  BY DEF TestInv, Busy, GoOn, At
<1>2. stage[t] = "start"
  BY <1>1 DEF TestInv, Updating, InUpdate, At
<1>3. Updating(t)' /\ ViewHonest(t)'
  BY <1>1, <1>2 DEF Updating, ViewHonest
<1>4. Going(t)'
  <2>1. ~(IsApply(req[t]) /\ ~failed[t])
    <3> SUFFICES ASSUME IsApply(req[t]) /\ ~failed[t] PROVE FALSE
      OBVIOUS
    <3>1. PICK p \in Phases \ {"done"} : StepOf(req[t], p).do = do
      BY <1>1, NextStep
    <3> QED
      BY <3>1, StepKinds
  <2>2. Short(tests, req[t], <<UpdateSession(set)>>)
    BY OneUpdate
  <2> QED
    BY <1>1, <2>1, <2>2 DEF Going
<1>5. /\ okTests \subseteq okTests' /\ okTests' \subseteq Endpoints
      /\ session' \in Sessions \cup {Torn, Missing}
      /\ session' \in Sessions => Honest(okTests', session')
      /\ DOMAIN stage' = Threads /\ DOMAIN view' = Threads /\ DOMAIN failed' = Threads
  BY <1>1 DEF TestInv, Honest
<1> QED
  BY ONLY TestInv, t \in Busy, <1>1, <1>3, <1>4, <1>5, OneMoves

\* The fields of a session are written with values of their types, and tested
\* with a test that has been passed.
Typed(tests, set) ==
  /\ "setup" \in DOMAIN set => set.setup \in {"unconfigured", "configuring", "ready", "error"}
  /\ "configured" \in DOMAIN set => set.configured \in BOOLEAN
  /\ "verified" \in DOMAIN set => set.verified \in BOOLEAN
  /\ "registered" \in DOMAIN set => set.registered \in BOOLEAN
  /\ "error" \in DOMAIN set => set.error \in BOOLEAN
  /\ "tested" \in DOMAIN set => set.tested \in tests \cup {Nil}

\* The updates of an apply are of this kind, ...
LEMMA PhasesTyped ==
  ASSUME NEW tests, NEW r, NEW p, p \in {"mark", "configured", "note", "finish"},
         NEW x, x = StepOf(r, p)
  PROVE  Typed(tests, x.set)
<1> DEFINE set == x.set
<1>1. CASE p \in {"mark", "finish"}
  <2>1. set = [setup |-> IF p = "mark" THEN "configuring" ELSE "ready",
               configured |-> p = "finish", verified |-> p = "finish", error |-> FALSE]
    BY <1>1 DEF StepOf, MarkStep, Marked, FinishStep, ReloadAndReady, UpdateSession, Step
  <2> HIDE DEF set
  <2>2. /\ DOMAIN set = {"setup", "configured", "verified", "error"}
        /\ set.setup \in {"configuring", "ready"}
        /\ set.configured \in BOOLEAN /\ set.verified \in BOOLEAN /\ set.error \in BOOLEAN
    BY <2>1
  <2>3. Typed(tests, set)
    BY <2>2 DEF Typed
  <2> QED
    BY <2>3 DEF set
<1>2. CASE p = "configured"
  <2>1. set = [configured |-> TRUE, error |-> FALSE]
    BY <1>2 DEF StepOf, ConfiguredStep, ApplyConfig, Step
  <2> HIDE DEF set
  <2>2. DOMAIN set = {"configured", "error"} /\ set.configured \in BOOLEAN /\ set.error \in BOOLEAN
    BY <2>1
  <2>3. Typed(tests, set)
    BY <2>2 DEF Typed
  <2> QED
    BY <2>3 DEF set
<1>3. CASE p = "note"
  BY <1>3 DEF StepOf, NoteStep, UpdateSession, Step, None, Typed
<1> QED
  BY <1>1, <1>2, <1>3

\* ... and so is every update of the session that a handler makes.
LEMMA UpdatesTyped ==
  ASSUME TestInv, NEW t \in Busy, At(t, "session")
  PROVE  Typed(okTests, todo[t][1].set)
<1>1. todo[t] # <<>> /\ todo[t][1].do = "session"
  BY DEF At
<1>2. CASE IsApply(req[t]) /\ ~failed[t]
  <2>1. PICK p \in Phases \ {"done"} : todo[t][1] = StepOf(req[t], p)
    BY <1>1, <1>2, NextStep
  <2>2. p \in {"mark", "configured", "note", "finish"}
    BY <1>1, <2>1, StepKinds
  <2> QED
    BY <2>1, <2>2, PhasesTyped
<1>3. CASE ~(IsApply(req[t]) /\ ~failed[t])
  <2>1. Harmless(okTests, req[t], todo[t][1])
    BY <1>1, <1>3, NextStep
  <2> QED
    BY <1>1, <2>1 DEF Harmless, Typed
<1> QED
  BY <1>2, <1>3

\* So an honest session stays honest.
LEMMA StaysHonest ==
  ASSUME NEW tests \in SUBSET Endpoints, NEW s, Honest(tests, s), NEW set, Typed(tests, set)
  PROVE  Honest(tests, Override(s, set))
<1>1. /\ Override(s, set) \in Sessions
      /\ Override(s, set).tested = IF "tested" \in DOMAIN set THEN set.tested ELSE s.tested
  BY OverrideSession DEF Honest, Typed
<1> QED
  BY <1>1 DEF Honest, Typed

\* Filling or truncating install_state.json, in any order among the threads,
\* leaves no test in it that was not passed.
LEMMA SessionKeepsTests ==
  ASSUME TestInv, NEW t \in Busy,
         ReadSession(t) \/ OpenSession(t) \/ FillSession(t)
  PROVE  TestInv'
<1>1. /\ t \in Threads /\ At(t, "session") /\ todo[t] # <<>> /\ todo[t][1].do = "session"
      /\ UNCHANGED okTests
  BY DEF ReadSession, OpenSession, FillSession, At, Busy, history
<1>2. /\ DOMAIN todo = Threads /\ DOMAIN stage = Threads /\ DOMAIN view = Threads
      /\ DOMAIN failed = Threads /\ okTests \subseteq Endpoints
      /\ Going(t) /\ ViewHonest(t) /\ Updating(t)
      /\ session \in Sessions \cup {Torn, Missing}
      /\ session \in Sessions => Honest(okTests, session)
  BY <1>1 DEF TestInv
<1>3. CASE ReadSession(t) /\ ~SessionReadable
  BY <1>3, RaiseKeepsTests DEF ReadSession, files, history
<1>4. CASE ReadSession(t) /\ SessionReadable
  <2>1. /\ req' = req /\ todo' = todo /\ failed' = failed /\ session' = session
        /\ view' = [view EXCEPT ![t] = SessionRead]
        /\ stage' = [stage EXCEPT ![t] = "read"]
    BY <1>4 DEF ReadSession, Enter, files
  <2>2. Honest(okTests, SessionRead)
    <3>1. Honest(okTests, DefaultSession)
      BY DEF Honest, DefaultSession, Sessions
    <3> QED
      BY <1>2, <1>4, <3>1 DEF SessionRead, SessionReadable
  <2>3. Updating(t)' /\ ViewHonest(t)'
    BY <1>1, <1>2, <2>1, <2>2 DEF Updating, InUpdate, At, ViewHonest
  <2>4. Going(t)'
    BY <1>1, <1>2, <2>1 DEF Going, TestedApply
  <2> QED
    BY <1>1, <1>2, <2>1, <2>3, <2>4, OneMoves
<1>5. CASE OpenSession(t)
  <2>1. /\ req' = req /\ todo' = todo /\ failed' = failed /\ session' = Torn /\ view' = view
        /\ stage' = [stage EXCEPT ![t] = "open"] /\ stage[t] = "read"
    BY <1>5 DEF OpenSession, Enter
  <2>2. Updating(t)' /\ ViewHonest(t)'
    BY <1>1, <1>2, <2>1 DEF Updating, InUpdate, At, ViewHonest
  <2>3. Going(t)'
    BY <1>1, <1>2, <2>1 DEF Going, TestedApply
  <2>4. session' \notin Sessions
    BY <2>1, ValuesAssumption
  <2> QED
    BY <1>1, <1>2, <2>1, <2>2, <2>3, <2>4, OneMoves
<1>6. CASE FillSession(t)
  <2> DEFINE w == Override(view[t], todo[t][1].set)
  <2>1. /\ req' = req /\ failed' = failed /\ session' \in Written(w, session)
        /\ todo' = [todo EXCEPT ![t] = Tail(todo[t])]
        /\ view' = [view EXCEPT ![t] = Nil]
        /\ stage' = [stage EXCEPT ![t] = "start"] /\ stage[t] = "open"
    BY <1>6 DEF FillSession, Enter
  <2>2. Honest(okTests, w)
    BY <1>1, <1>2, <2>1, UpdatesTyped, StaysHonest DEF ViewHonest
  <2>3. Updating(t)' /\ ViewHonest(t)'
    BY <1>2, <1>1, <2>1 DEF Updating, ViewHonest
  <2>4. Going(t)'
    BY <1>1, <1>2, <2>1, GoesOn
  <2>5. /\ session' \in Sessions \cup {Torn, Missing}
        /\ session' \in Sessions => Honest(okTests', session')
    BY <1>1, <2>1, <2>2, ValuesAssumption DEF Written, Honest
  <2> QED
    BY <1>1, <1>2, <2>1, <2>3, <2>4, <2>5, OneMoves
<1> QED
  BY <1>3, <1>4, <1>5, <1>6

\* Neither does an update of config.json, whatever it reads and leaves there.
LEMMA ConfKeepsTests ==
  ASSUME TestInv, NEW t \in Busy, ReadConf(t) \/ OpenConf(t) \/ FillConf(t)
  PROVE  TestInv'
<1>1. /\ t \in Threads /\ At(t, "conf") /\ todo[t] # <<>> /\ todo[t][1].do = "conf"
      /\ UNCHANGED <<session, okTests>>
  BY DEF ReadConf, OpenConf, FillConf, At, Busy, history, files
<1>2. /\ DOMAIN todo = Threads /\ DOMAIN stage = Threads /\ DOMAIN view = Threads
      /\ DOMAIN failed = Threads /\ okTests \subseteq Endpoints
      /\ Going(t) /\ Updating(t)
      /\ session' \in Sessions \cup {Torn, Missing}
      /\ session' \in Sessions => Honest(okTests, session')
  BY <1>1 DEF TestInv
<1>3. CASE ReadConf(t) /\ conf = Torn
  BY <1>1, <1>3, RaiseKeepsTests DEF ReadConf
<1>4. CASE (ReadConf(t) /\ conf # Torn) \/ OpenConf(t)
  <2>1. /\ req' = req /\ todo' = todo /\ failed' = failed
        /\ DOMAIN view' = Threads /\ DOMAIN stage' = Threads
        /\ \A u \in Threads : u # t => view'[u] = view[u] /\ stage'[u] = stage[u]
    BY <1>2, <1>4 DEF ReadConf, OpenConf, Enter
  <2>2. Updating(t)' /\ ViewHonest(t)'
    BY <1>1, <2>1 DEF Updating, InUpdate, At, ViewHonest
  <2>3. Going(t)'
    BY <1>1, <1>2, <2>1 DEF Going, TestedApply
  <2> QED
    BY <1>1, <1>2, <2>1, <2>2, <2>3, OneMoves
<1>5. CASE FillConf(t)
  <2>1. /\ req' = req /\ failed' = failed
        /\ todo' = [todo EXCEPT ![t] = Tail(todo[t])]
        /\ view' = [view EXCEPT ![t] = Nil]
        /\ stage' = [stage EXCEPT ![t] = "start"]
    BY <1>5 DEF FillConf, Enter
  <2>2. Updating(t)' /\ ViewHonest(t)'
    BY <1>1, <1>2, <2>1 DEF Updating, ViewHonest
  <2>3. Going(t)'
    BY <1>1, <1>2, <2>1, GoesOn
  <2> QED
    BY <1>1, <1>2, <2>1, <2>2, <2>3, OneMoves
<1> QED
  BY <1>3, <1>4, <1>5

\* A reset forgets the test.
LEMMA ResetKeepsTests ==
  ASSUME TestInv, NEW t \in Busy, OpenReset(t) \/ FillReset(t)
  PROVE  TestInv'
<1>1. /\ t \in Threads /\ At(t, "reset") /\ todo[t] # <<>> /\ todo[t][1].do = "reset"
      /\ okTests' = okTests
  BY DEF OpenReset, FillReset, At, Busy, history
<1>2. /\ DOMAIN todo = Threads /\ DOMAIN stage = Threads /\ DOMAIN view = Threads
      /\ DOMAIN failed = Threads /\ okTests \subseteq Endpoints /\ Going(t)
  BY <1>1 DEF TestInv
<1>3. CASE OpenReset(t)
  <2>1. /\ req' = req /\ todo' = todo /\ failed' = failed /\ session' = Torn /\ view' = view
        /\ stage' = [stage EXCEPT ![t] = "open"]
    BY <1>3 DEF OpenReset, Enter
  <2>2. Updating(t)' /\ ViewHonest(t)'
    BY <1>1, <2>1 DEF Updating, InUpdate, At, ViewHonest
  <2>3. Going(t)'
    BY <1>1, <1>2, <2>1 DEF Going, TestedApply
  <2>4. session' \notin Sessions
    BY <2>1, ValuesAssumption
  <2> QED
    BY <1>1, <1>2, <2>1, <2>2, <2>3, <2>4, OneMoves
<1>4. CASE FillReset(t)
  <2>1. /\ req' = req /\ failed' = failed /\ view' = view
        /\ session' \in Written(DefaultSession, session)
        /\ todo' = [todo EXCEPT ![t] = Tail(todo[t])]
        /\ stage' = [stage EXCEPT ![t] = "start"]
    BY <1>4 DEF FillReset, Enter
  <2>2. Honest(okTests, DefaultSession)
    BY DEF Honest, DefaultSession, Sessions
  <2>3. Updating(t)' /\ ViewHonest(t)'
    BY <1>1, <1>2, <2>1 DEF Updating, ViewHonest
  <2>4. Going(t)'
    BY <1>1, <1>2, <2>1, GoesOn
  <2>5. /\ session' \in Sessions \cup {Torn, Missing}
        /\ session' \in Sessions => Honest(okTests', session')
    BY <1>1, <2>1, <2>2, ValuesAssumption DEF Written, Honest
  <2> QED
    BY <1>1, <1>2, <2>1, <2>3, <2>4, <2>5, OneMoves
<1> QED
  BY <1>3, <1>4

\* An external endpoint that an apply has found tested has been: the check
\* compares the endpoint of the request with an honest session.
LEMMA CheckKeepsTests ==
  ASSUME TestInv, NEW t \in Busy, Check(t)
  PROVE  TestInv'
<1>1. At(t, "check") /\ todo[t] # <<>> /\ todo[t][1].do = "check"
      /\ UNCHANGED <<session, okTests>>
  BY DEF Check, At, files, history
<1>2. CASE ~(SessionReadable /\ TestMatches(t))
  BY <1>1, <1>2, RaiseKeepsTests DEF Check
<1>3. CASE SessionReadable /\ TestMatches(t)
  <2>1. Done(t) /\ SessionRead.tested = req[t].endpoint
    BY <1>3 DEF Check, TestMatches
  <2>2. SessionRead.tested \in okTests \cup {Nil}
    <3>1. DefaultSession.tested = Nil
      BY DEF DefaultSession
    <3> QED
      BY <1>3, <3>1 DEF TestInv, SessionRead, SessionReadable, Honest
  <2>3. req[t].endpoint \in Endpoints
    <3>1. IsApply(req[t]) /\ ~failed[t]
      BY <1>1, NextStep DEF Harmless
    <3>2. PICK p \in Phases \ {"done"} : Allowed(req[t], p) /\ StepOf(req[t], p).do = "check"
      BY <1>1, <3>1, NextStep DEF TestedApply
    <3>3. p = "check" /\ req[t] \in Requests
      BY <1>1, <3>2, StepKinds, NextStep
    <3> QED
      BY <3>2, <3>3, RequestFacts DEF Allowed, NeedsTest
  <2>4. req[t].endpoint \in okTests
    BY <2>1, <2>2, <2>3, EndpointsAssumption
  <2> QED
    BY <1>1, <2>1, <2>4, DoneKeepsTests DEF Outside
<1> QED
  BY <1>2, <1>3

\* A probe records the test it has made, and no other.
LEMMA ProbeKeepsTests ==
  ASSUME TestInv, NEW t \in Busy, Probe(t)
  PROVE  TestInv'
<1>1. PICK ok \in BOOLEAN :
        /\ GoOn(t, <<UpdateSession([setup |-> "configuring", verified |-> ok, error |-> ~ok,
                                    tested |-> IF ok THEN req[t].endpoint ELSE Nil])>>)
        /\ okTests' = IF ok THEN okTests \cup {req[t].endpoint} ELSE okTests
  BY DEF Probe
<1>2. /\ At(t, "probe") /\ todo[t] # <<>> /\ todo[t][1].do = "probe" /\ session' = session
  BY DEF Probe, At, files
<1>3. PICK set : set = [setup |-> "configuring", verified |-> ok, error |-> ~ok,
                        tested |-> IF ok THEN req[t].endpoint ELSE Nil]
  OBVIOUS
<1>4. /\ DOMAIN set = {"setup", "verified", "error", "tested"}
      /\ set.setup = "configuring" /\ set.verified \in BOOLEAN /\ set.error \in BOOLEAN
      /\ set.tested = IF ok THEN req[t].endpoint ELSE Nil
  BY <1>3
<1>5. req[t].endpoint \in Endpoints
  <2>1. ~(IsApply(req[t]) /\ ~failed[t])
    <3> SUFFICES ASSUME IsApply(req[t]) /\ ~failed[t] PROVE FALSE
      OBVIOUS
    <3>1. PICK p \in Phases \ {"done"} : StepOf(req[t], p).do = "probe"
      BY <1>2, NextStep
    <3> QED
      BY <3>1, StepKinds
  <2>2. req[t].kind = "test" /\ req[t] \in Requests
    BY <1>2, <2>1, NextStep DEF Harmless
  <2> QED
    BY <2>2, RequestFacts
<1>6. okTests \subseteq okTests' /\ okTests' \subseteq Endpoints
  BY <1>1, <1>5 DEF TestInv
<1>7. Harmless(okTests', req[t], UpdateSession(set))
  BY <1>1, <1>4 DEF Harmless, UpdateSession, Step
<1> QED
  BY <1>1, <1>2, <1>3, <1>6, <1>7, UpdateInstead

\* A registration or a restart of the broker records no test.
LEMMA OutcomeKeepsTests ==
  ASSUME TestInv, NEW t \in Busy, RegisterAtCore(t) \/ RestartBroker(t)
  PROVE  TestInv'
<1>1. PICK do \in {"core", "docker"}, ok \in BOOLEAN :
        /\ At(t, do) /\ todo[t] # <<>> /\ todo[t][1].do = do
        /\ do = "core" => GoOn(t, <<UpdateSession([registered |-> ok, error |-> ~ok])>>)
        /\ do = "docker" => GoOn(t, <<UpdateSession([verified |-> ok, error |-> ~ok])>>)
  BY DEF RegisterAtCore, RestartBroker, At
<1>2. UNCHANGED <<session, okTests>> /\ okTests \subseteq Endpoints
  BY DEF RegisterAtCore, RestartBroker, files, history, TestInv
<1>3. req[t].kind = IF do = "core" THEN "register" ELSE "restart"
  <2>1. ~(IsApply(req[t]) /\ ~failed[t])
    <3> SUFFICES ASSUME IsApply(req[t]) /\ ~failed[t] PROVE FALSE
      OBVIOUS
    <3>1. PICK p \in Phases \ {"done"} : StepOf(req[t], p).do = do
      BY <1>1, NextStep
    <3> QED
      BY <3>1, StepKinds
  <2> QED
    BY <1>1, <2>1, NextStep DEF Harmless
<1>4. CASE do = "core"
  <2>1. PICK set : set = [registered |-> ok, error |-> ~ok]
    OBVIOUS
  <2>2. DOMAIN set = {"registered", "error"} /\ set.registered \in BOOLEAN /\ set.error \in BOOLEAN
    BY <2>1
  <2>3. Harmless(okTests', req[t], UpdateSession(set))
    BY <1>3, <1>4, <2>2 DEF Harmless, UpdateSession, Step, Settling
  <2> QED
    BY <1>1, <1>2, <1>4, <2>1, <2>3, UpdateInstead
<1>5. CASE do = "docker"
  <2>1. PICK set : set = [verified |-> ok, error |-> ~ok]
    OBVIOUS
  <2>2. DOMAIN set = {"verified", "error"} /\ set.verified \in BOOLEAN /\ set.error \in BOOLEAN
    BY <2>1
  <2>3. Harmless(okTests', req[t], UpdateSession(set))
    BY <1>3, <1>5, <2>2 DEF Harmless, UpdateSession, Step, Settling
  <2> QED
    BY <1>1, <1>2, <1>5, <2>1, <2>3, UpdateInstead
<1> QED
  BY <1>4, <1>5

\* The broker group is asked for while the apply goes on.
LEMMA GroupKeepsTests ==
  ASSUME TestInv, NEW t \in Busy, BrokerGroup(t)
  PROVE  TestInv'
<1>1. /\ At(t, "broker group") /\ t \in Threads /\ todo[t] # <<>>
      /\ todo[t][1].do = "broker group" /\ UNCHANGED <<session, okTests>>
  BY DEF BrokerGroup, At, Busy, history
<1>2. stage[t] = "start"
  BY <1>1 DEF TestInv, Updating, InUpdate, At
<1>3. /\ okTests \subseteq okTests' /\ okTests' \subseteq Endpoints
      /\ session' \in Sessions \cup {Torn, Missing}
      /\ session' \in Sessions => Honest(okTests', session')
      /\ DOMAIN todo = Threads /\ DOMAIN stage = Threads /\ DOMAIN view = Threads
      /\ DOMAIN failed = Threads
  BY <1>1 DEF TestInv
<1>4. CASE Done(t)
  BY <1>1, <1>4, DoneKeepsTests DEF Outside
<1>5. CASE GoOn(t, <<UpdateSession(None)>> \o Tail(todo[t]))
  <2>1. /\ todo'[t] = <<UpdateSession(None)>> \o Tail(todo[t]) /\ DOMAIN todo' = Threads
        /\ \A u \in Threads : u # t => todo'[u] = todo[u]
        /\ UNCHANGED <<req, stage, view, failed>>
    BY <1>1, <1>3, <1>5 DEF GoOn
  <2>2. IsApply(req[t]) /\ ~failed[t]
    BY <1>1, NextStep DEF Harmless
  <2>3. PICK p \in Phases \ {"done"} :
          /\ TestedApply(t, p) /\ StepOf(req[t], p).do = "broker group"
          /\ Tail(todo[t]) = Left(req[t], After(req[t], p))
    BY <1>1, <2>2, NextStep
  <2>4. p = "group"
    BY <2>3, StepKinds
  <2>5. Tail(todo[t]) = <<LoadStep, FinishStep>>
    BY <2>3, <2>4 DEF After, Left, FromLoad
  <2>6. <<NoteStep>> \o <<LoadStep, FinishStep>> = <<NoteStep, LoadStep, FinishStep>>
    BY Joins
  <2>7. todo'[t] = <<NoteStep, LoadStep, FinishStep>>
    BY ONLY <2>1, <2>5, <2>6 DEF NoteStep
  <2>8. todo'[t] = Left(req[t], "note") /\ Allowed(req[t], "note")
    BY <2>3, <2>4, <2>7 DEF Left, TestedApply, Allowed, Phases
  <2>9. TestedApply(t, "note")'
    BY <1>1, <2>1, <2>3, <2>4, <2>8 DEF TestedApply
  <2>10. Going(t)'
    BY <2>1, <2>2, <2>9 DEF Going, Phases
  <2>11. Updating(t)' /\ ViewHonest(t)'
    BY <1>2, <2>1 DEF Updating, ViewHonest
  <2>12. req' = req /\ DOMAIN stage' = Threads /\ DOMAIN view' = Threads /\ DOMAIN failed' = Threads
    BY <1>3, <2>1
  <2> QED
    BY ONLY TestInv, t \in Busy, <1>3, <2>1, <2>10, <2>11, <2>12, OneMoves
<1>6. CASE Raise(t)
  BY <1>1, <1>6, RaiseKeepsTests
<1>7. CASE /\ failed' = [failed EXCEPT ![t] = TRUE]
           /\ todo' = [todo EXCEPT ![t] = <<>>]
           /\ UNCHANGED <<brokerGroup, req, stage, view>>
  <2>1. /\ req' = req /\ failed'[t] = TRUE /\ todo'[t] = <<>> /\ UNCHANGED <<stage, view>>
        /\ DOMAIN todo' = Threads /\ DOMAIN stage' = Threads /\ DOMAIN view' = Threads
        /\ DOMAIN failed' = Threads
        /\ \A u \in Threads : u # t =>
             /\ todo'[u] = todo[u] /\ stage'[u] = stage[u]
             /\ view'[u] = view[u] /\ failed'[u] = failed[u]
    BY <1>1, <1>3, <1>7
  <2>2. Going(t)'
    BY <2>1 DEF Going, Short
  <2>3. Updating(t)' /\ ViewHonest(t)'
    BY <1>2, <2>1 DEF Updating, ViewHonest
  <2> QED
    BY ONLY TestInv, t \in Busy, <1>3, <2>1, <2>2, <2>3, OneMoves
<1> QED
  BY <1>4, <1>5, <1>6, <1>7 DEF BrokerGroup

\* The other steps of a handler say nothing of a test.
LEMMA OthersKeepTests ==
  ASSUME TestInv, NEW t \in Busy,
         \/ BrokerFiles(t) \/ SelectGroups(t) \/ WriteDesired(t) \/ Reload(t) \/ WriteFails(t)
  PROVE  TestInv'
<1>1. UNCHANGED <<session, okTests>>
  BY DEF BrokerFiles, SelectGroups, WriteDesired, Reload, WriteFails, files, history
<1>2. \/ Raise(t)
      \/ /\ Done(t)
         /\ \E do \in {"broker files", "select", "desired", "reload"} : At(t, do)
  BY DEF BrokerFiles, SelectGroups, WriteDesired, Reload, WriteFails
<1> QED
  BY <1>1, <1>2, RaiseKeepsTests, DoneKeepsTests DEF Outside

\* A request begins with an honest handler, beside whatever others are doing.
LEMMA StartKeepsTests ==
  ASSUME TestInv, NEW t \in Threads, NEW r \in Requests, Start(t, r)
  PROVE  TestInv'
<1>1. /\ req[t] = Nil /\ UNCHANGED <<session, stage, view, okTests>>
      /\ req' = [req EXCEPT ![t] = r] /\ todo' = [todo EXCEPT ![t] = Handler(r)]
      /\ failed' = [failed EXCEPT ![t] = FALSE]
  BY DEF Start, files, history
<1>2. /\ req \in [Threads -> Requests \cup {Nil}] /\ DOMAIN todo = Threads
      /\ DOMAIN stage = Threads /\ DOMAIN view = Threads /\ DOMAIN failed = Threads
      /\ okTests \subseteq Endpoints
      /\ session \in Sessions \cup {Torn, Missing}
      /\ session \in Sessions => Honest(okTests, session)
  BY DEF TestInv
<1>3. /\ req'[t] = r /\ todo'[t] = Handler(r) /\ failed'[t] = FALSE
      /\ req' \in [Threads -> Requests \cup {Nil}] /\ DOMAIN todo' = Threads
      /\ DOMAIN failed' = Threads
      /\ \A u \in Threads : u # t =>
           req'[u] = req[u] /\ todo'[u] = todo[u] /\ failed'[u] = failed[u]
  BY <1>1, <1>2
<1>4. stage[t] = "start"
  BY <1>1 DEF TestInv, Updating, InUpdate, At
<1>5. Updating(t)' /\ ViewHonest(t)'
  BY <1>1, <1>4 DEF Updating, ViewHonest
<1>6. Going(t)'
  <2>1. CASE IsApply(r)
    <3>1. Handler(r) = Left(r, "mark") /\ Allowed(r, "mark")
      BY <2>1, ApplyHandlers
    <3>2. TestedApply(t, "mark")'
      BY <1>3, <3>1 DEF TestedApply
    <3> QED
      BY <1>3, <2>1, <3>2 DEF Going, Phases
  <2>2. CASE ~IsApply(r)
    BY <1>1, <1>3, <2>2, ShortHandlers DEF Going
  <2> QED
    BY <2>1, <2>2
<1>7. ASSUME NEW u \in Threads, u # t
      PROVE  Updating(u)' /\ (u \in Busy' => Going(u)' /\ ViewHonest(u)')
  <2>1. CASE u \in Busy
    BY <1>1, <1>3, <1>7, <2>1, AnotherMoves
  <2>2. CASE u \notin Busy
    <3>1. req[u] = Nil /\ req'[u] = Nil /\ Updating(u)
      BY <1>3, <1>7, <2>2 DEF Busy, TestInv
    <3> QED
      BY <1>1, <3>1 DEF Updating, InUpdate, At, Busy
  <2> QED
    BY <2>1, <2>2
<1>8. (\A u \in Threads : Updating(u)') /\ (\A u \in Busy' : Going(u)' /\ ViewHonest(u)')
  BY <1>5, <1>6, <1>7 DEF Busy
<1> QED
  BY <1>1, <1>2, <1>3, <1>8 DEF TestInv

\* An answer takes nothing from the others.
LEMMA AnswerKeepsTests ==
  ASSUME TestInv, NEW t \in Threads, Answer(t)
  PROVE  TestInv'
<1>1. /\ req[t] # Nil /\ todo[t] = <<>> /\ req' = [req EXCEPT ![t] = Nil]
      /\ UNCHANGED <<session, todo, stage, view, failed, okTests>>
  BY DEF Answer, files, history
<1>2. /\ req \in [Threads -> Requests \cup {Nil}] /\ DOMAIN todo = Threads
      /\ DOMAIN stage = Threads /\ DOMAIN view = Threads /\ DOMAIN failed = Threads
      /\ okTests \subseteq Endpoints
      /\ session \in Sessions \cup {Torn, Missing}
      /\ session \in Sessions => Honest(okTests, session)
  BY DEF TestInv
<1>3. /\ req'[t] = Nil /\ req' \in [Threads -> Requests \cup {Nil}]
      /\ \A u \in Threads : u # t => req'[u] = req[u]
  BY <1>1, <1>2
<1>4. stage[t] = "start"
  BY <1>1 DEF TestInv, Updating, InUpdate, At
<1>5. ASSUME NEW u \in Threads
      PROVE  Updating(u)' /\ (u \in Busy' => Going(u)' /\ ViewHonest(u)')
  <2>1. CASE u = t
    BY <1>1, <1>3, <1>4, <2>1 DEF Updating, Busy
  <2>2. CASE u # t /\ u \in Busy
    BY <1>1, <1>3, <2>2, AnotherMoves
  <2>3. CASE u # t /\ u \notin Busy
    <3>1. req[u] = Nil /\ req'[u] = Nil /\ Updating(u)
      BY <1>3, <2>3 DEF Busy, TestInv
    <3> QED
      BY <1>1, <3>1 DEF Updating, InUpdate, At, Busy
  <2> QED
    BY <2>1, <2>2, <2>3
<1>6. (\A u \in Threads : Updating(u)') /\ (\A u \in Busy' : Going(u)' /\ ViewHonest(u)')
  BY <1>5 DEF Busy
<1> QED
  BY <1>1, <1>2, <1>3, <1>6 DEF TestInv

\* What the process does as a whole.
LEMMA ProcessKeepsTests ==
  ASSUME TestInv, Crash \/ LoseSession \/ Boot
  PROVE  TestInv'
<1>1. CASE Crash
  <2>1. /\ req' = [t \in Threads |-> Nil] /\ todo' = [t \in Threads |-> <<>>]
        /\ stage' = [t \in Threads |-> "start"] /\ view' = [t \in Threads |-> Nil]
        /\ failed' = [t \in Threads |-> FALSE] /\ UNCHANGED <<session, okTests>>
    BY <1>1 DEF Crash, files, history
  <2>2. Busy' = {}
    BY <2>1 DEF Busy
  <2> QED
    BY <2>1, <2>2 DEF TestInv, Updating, Honest
<1>2. CASE LoseSession \/ Boot
  <2>1. /\ UNCHANGED <<req, todo, stage, view, failed, okTests>>
        /\ session' = Missing \/ session' = session
    BY <1>2 DEF LoseSession, Boot, handlers, history, files
  <2>2. session' \in Sessions => Honest(okTests, session')
    BY <2>1, ValuesAssumption DEF TestInv
  <2>3. session' \in Sessions \cup {Torn, Missing}
    BY <2>1 DEF TestInv
  <2>4. \A u \in Threads : Updating(u)'
    BY <2>1 DEF TestInv, Updating, InUpdate, At
  <2>5. Busy' = Busy /\ \A u \in Busy : Going(u)' /\ ViewHonest(u)'
    BY <2>1, AnotherMoves DEF Busy
  <2> QED
    BY <2>1, <2>2, <2>3, <2>4, <2>5 DEF TestInv
<1> QED
  BY <1>1, <1>2

\* Nothing is tested, and nobody at work, at the beginning.
LEMMA InitTestInv ==
  ASSUME Init
  PROVE  TestInv
<1>1. Busy = {} /\ session \notin Sessions
  BY ValuesAssumption DEF Init, Busy
<1> QED
  BY <1>1 DEF Init, TestInv, Updating

\* No step of any thread makes up a test.
LEMMA NextTestInv ==
  ASSUME TestInv, [Next]_vars
  PROVE  TestInv'
<1>1. ASSUME NEW t \in Threads, NEW r \in Requests, Start(t, r)
      PROVE  TestInv'
  BY <1>1, StartKeepsTests
<1>2. ASSUME NEW t \in Threads, Update(t)
      PROVE  TestInv'
  <2>1. t \in Busy
    BY <1>2 DEF Update, ReadSession, OpenSession, FillSession, ReadConf, OpenConf, FillConf,
      OpenReset, FillReset, WriteFails, At, Busy
  <2> QED
    BY <1>2, <2>1, SessionKeepsTests, ConfKeepsTests, ResetKeepsTests, OthersKeepTests
      DEF Update
<1>3. ASSUME NEW t \in Threads, External(t)
      PROVE  TestInv'
  <2>1. t \in Busy
    BY <1>3 DEF External, Check, Probe, RegisterAtCore, RestartBroker, BrokerFiles,
      BrokerGroup, SelectGroups, WriteDesired, Reload, At, Busy
  <2> QED
    BY <1>3, <2>1, CheckKeepsTests, ProbeKeepsTests, OutcomeKeepsTests, GroupKeepsTests,
      OthersKeepTests DEF External
<1>4. ASSUME NEW t \in Threads, Answer(t)
      PROVE  TestInv'
  BY <1>4, AnswerKeepsTests
<1>5. CASE UNCHANGED vars
  <2>1. UNCHANGED <<session, req, todo, stage, view, failed, okTests>>
    BY <1>5 DEF vars, files, handlers, history
  <2>2. \A u \in Threads : Updating(u)'
    BY <2>1 DEF TestInv, Updating, InUpdate, At
  <2>3. Busy' = Busy /\ \A u \in Busy : Going(u)' /\ ViewHonest(u)'
    BY <2>1, AnotherMoves DEF Busy
  <2> QED
    BY <2>1, <2>2, <2>3 DEF TestInv, Honest
<1> QED
  BY <1>1, <1>2, <1>3, <1>4, <1>5, ProcessKeepsTests DEF Next

\* For any number of requests at once: no session in the file or in the hands of
\* a handler names a test that was not passed, and no apply gets past the check
\* without one.
THEOREM TestsInvariant == Spec => []TestInv
BY InitTestInv, NextTestInv, PTL DEF Spec

\* Without the waiver only an endpoint that has passed a test is applied,
\* whatever requests are under way at once.
THEOREM AppliedWasTested == Spec => []OnlyTestedApplied
<1>1. TestInv => OnlyTestedApplied
  <2> SUFFICES ASSUME TestInv, NEW t \in Busy, req[t].kind = "apply external",
                      todo[t] = <<>>, ~failed[t], ~req[t].waived
               PROVE  req[t].endpoint \in okTests
    BY DEF OnlyTestedApplied
  <2>1. PICK p \in Phases : TestedApply(t, p)
    BY DEF TestInv, Going, IsApply
  <2>2. p = "done"
    BY <2>1, LeftFacts DEF TestedApply
  <2> QED
    BY <2>1, <2>2 DEF TestedApply, NeedsTest, FromOutside
<1> QED
  BY <1>1, TestsInvariant, PTL
=============================================================================
