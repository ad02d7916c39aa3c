----------------------------- MODULE DesiredState -----------------------------
(***************************************************************************)
(* desired.json, through which the addon tells the supervisor what to run: *)
(* app/services/mounted_state_store.py with lock.py and fs_utils.py, and   *)
(* its writers, which are POST /api/install/optional-groups (and /reset),  *)
(* POST /api/install/core-base-url and the end of an embedded apply.       *)
(* Beside the file lie the assets of the groups it requests, and the       *)
(* Core URL that config.json keeps too; runtime.json brings the            *)
(* supervisor's answer, from which GET /api/install/status is made.        *)
(*                                                                         *)
(* An update of desired.json runs under a file lock.  Where a bind mount   *)
(* refuses the rename, the file is truncated and filled in place, and      *)
(* readers take no lock.                                                   *)
(***************************************************************************)
EXTENDS Integers, SequencesExt

CONSTANTS
  GroupIds,     \* service groups: those of the manifest and unknown ones
  Broker,       \* the group an embedded apply asks for
  Manifests,    \* supported groups, what each needs, and which setup requires
  Selections,   \* lists of groups an operator may ask for
  Urls,         \* addresses of Core
  Threads,
  MaxRequests,  \* bound: requests served
  MaxCuts,      \* bound: crashes and failed steps
  Nil           \* nothing: no holder of the lock, no address

ASSUME ManifestAssumption ==
  \A m \in Manifests :
    /\ m.supported \subseteq GroupIds /\ IsFiniteSet(m.supported)
    /\ m.required \subseteq m.supported
    /\ m.deps \in [m.supported -> Seq(GroupIds)]
ASSUME GroupAssumption == Broker \in GroupIds /\ Selections \subseteq Seq(GroupIds)
ASSUME BoundsAssumption == {MaxRequests, MaxCuts} \subseteq Nat
ASSUME NilAssumption == Nil \notin Threads \cup Urls

VARIABLES
  manifest,   \* MANIFEST_OPTIONAL_DOCKER_GROUPS
  mount,      \* what desired.json lies on: a rename works, is refused, or the
              \* update refuses to write there at all
  desired,    \* desired.json: a record or Torn
  lock,       \* the thread that holds desired.json.lock
  conf,       \* core_base_url of config.json, or Torn
  assets,     \* directories of runtime/optional_groups
  runtime,    \* runtime.json, written by the supervisor
  job,        \* the request each thread serves, or Idle
  served, cuts,
  \* history, read by the properties only
  spoiled     \* the last write was cut short or met another of its kind

setting == <<manifest, mount>>
history == <<spoiled>>
bounds == <<served, cuts>>
vars == <<setting, desired, lock, conf, assets, runtime, job, bounds, history>>

Torn == [torn |-> TRUE]      \* a file truncated and not filled, or garbled
Idle == [at |-> "idle"]

Mounts == {"rename", "in place", "refusing"}

Requests ==
  [kind : {"select"}, list : Selections] \cup [kind : {"url"}, url : Urls]
    \cup [kind : {"apply"}]

\* The keys of desired.json the addon knows: enabled_docker_groups, the
\* requested list under runtime.optional_docker_groups,
\* optional_groups_requested, config.env.CORE_URL; and all the others.
EmptyFile ==
  [enabled |-> <<>>, nested |-> <<>>, legacy |-> <<>>, url |-> Nil, other |-> FALSE]

\* What the installation leaves there: no groups and no Core URL yet.
FirstFile == [EmptyFile EXCEPT !.other = TRUE]

\* Mutant: only the newest key is written.
NewestKey(d, list) == [d EXCEPT !.enabled = list]
\* The mutator of _write_desired_optional_groups.
WithGroups(d, list) == [d EXCEPT !.enabled = list, !.nested = list, !.legacy = list]

\* _load_json_object
Parsed(file) == IF file = Torn THEN EmptyFile ELSE file

FirstNonEmpty(a, b, c) == IF a # <<>> THEN a ELSE IF b # <<>> THEN b ELSE c

\* get_desired_optional_groups
GroupsOf(file) ==
  LET d == Parsed(file) IN FirstNonEmpty(d.enabled, d.nested, d.legacy)

-----------------------------------------------------------------------------
(* The groups a request comes to.                                          *)

Lists == Seq(GroupIds)

\* The groups still to visit, those being visited, and those done.
Visits == [todo : Lists, visiting : SUBSET GroupIds, done : Lists]
Visit(todo, visiting, done) == [todo |-> todo, visiting |-> visiting, done |-> done]
Skipped(m, g, v) == g \notin m.supported \/ Contains(v.done, g) \/ g \in v.visiting

\* Mutant: a group comes before the groups it needs.
Preorder(m, list) ==
  LET visit[v \in Visits] ==
        IF v.todo = <<>> THEN v.done
        ELSE LET g == Head(v.todo)
                 after == IF Skipped(m, g, v) THEN v.done
                          ELSE visit[Visit(m.deps[g], v.visiting \cup {g}, Append(v.done, g))]
             IN visit[Visit(Tail(v.todo), v.visiting, after)]
  IN visit[Visit(list, {}, <<>>)]

\* _resolve_requested_optional_groups: depth first, each group after what it needs.
Resolve(m, list) ==
  LET visit[v \in Visits] ==
        IF v.todo = <<>> THEN v.done
        ELSE LET g == Head(v.todo)
                 after == IF Skipped(m, g, v) THEN v.done
                          ELSE Append(visit[Visit(m.deps[g], v.visiting \cup {g}, v.done)], g)
             IN visit[Visit(Tail(v.todo), v.visiting, after)]
  IN visit[Visit(list, {}, <<>>)]

-----------------------------------------------------------------------------

\* An earlier selection has been served, and the supervisor has followed it.
FirstSelection(groups) ==
  /\ desired = [FirstFile EXCEPT !.enabled = groups, !.nested = groups, !.legacy = groups]
  /\ assets = ToSet(groups)
  /\ runtime = [requested |-> ToSet(groups), active |-> ToSet(groups),
                 starting |-> {}, failed |-> {}]

Init ==
  /\ manifest \in Manifests /\ mount \in Mounts
  /\ \E list \in Selections : FirstSelection(Resolve(manifest, list))
  /\ lock = Nil /\ conf = Nil
  /\ job = [t \in Threads |-> Idle]
  /\ served = 0 /\ cuts = 0
  /\ spoiled = [k \in {"groups", "url"} |-> FALSE]

At(t, step) == job[t].at = step
Move(t, step) == job' = [job EXCEPT ![t].at = step]
End(t) == job' = [job EXCEPT ![t] = Idle]
Busy == {t \in Threads : ~At(t, "idle")}

Kind(r) == IF r.kind = "url" THEN "url" ELSE "groups"
FirstStep == [select |-> "prepare", url |-> "conf", apply |-> "look"]

\* met (history): the threads that have served another request of this kind
\* meanwhile.
Receive(t, r) ==
  LET rivals == {u \in Busy : Kind(job[u].req) = Kind(r)}
      j == [at |-> FirstStep[r.kind], req |-> r, data |-> EmptyFile,
            groups |-> IF r.kind = "select" THEN Resolve(manifest, r.list) ELSE <<>>,
            met |-> rivals]
  IN
  /\ At(t, "idle") /\ served < MaxRequests
  /\ served' = served + 1
  /\ job' = [u \in Threads |-> IF u = t THEN j
                               ELSE IF u \in rivals THEN [job[u] EXCEPT !.met = @ \cup {t}]
                               ELSE job[u]]
  /\ UNCHANGED <<setting, desired, lock, conf, assets, runtime, cuts, history>>

\* The apply reads the groups without the lock, and asks for the broker too.
Look(t) ==
  LET wanted == GroupsOf(desired) IN
  /\ At(t, "look")
  /\ IF Contains(wanted, Broker) THEN End(t)
     ELSE job' = [job EXCEPT ![t].at = "prepare",
                             ![t].groups = Resolve(manifest, Append(wanted, Broker))]
  /\ UNCHANGED <<setting, desired, lock, conf, assets, runtime, bounds, history>>

\* _prepare_optional_group_assets: makes what is missing,
Prepare(t) ==
  /\ At(t, "prepare") /\ Move(t, "clean")
  /\ assets' = assets \cup ToSet(job[t].groups)
  /\ UNCHANGED <<setting, desired, lock, conf, runtime, bounds, history>>

\* and removes the directories of all other groups.
Clean(t) ==
  /\ At(t, "clean") /\ Move(t, "session")
  /\ assets' = assets \cap ToSet(job[t].groups)
  /\ UNCHANGED <<setting, desired, lock, conf, runtime, bounds, history>>

\* get_install_session_state reads config.json on its way.
ReadSession(t) ==
  /\ At(t, "session") /\ conf # Torn
  /\ Move(t, "mount")
  /\ UNCHANGED <<setting, desired, lock, conf, assets, runtime, bounds, history>>

-----------------------------------------------------------------------------
(* set_core_base_url writes config.json first.                             *)

ReadConf(t) ==
  /\ At(t, "conf")
  /\ IF conf = Torn THEN End(t) ELSE Move(t, "open conf")
  /\ UNCHANGED <<setting, desired, lock, conf, assets, runtime, bounds, history>>

OpenConf(t) ==
  /\ At(t, "open conf") /\ Move(t, "fill conf")
  /\ conf' = Torn
  /\ UNCHANGED <<setting, desired, lock, assets, runtime, bounds, history>>

\* If another thread has filled the file since this one truncated it, what is
\* longer there may survive behind the new content.
FillConf(t) ==
  /\ At(t, "fill conf") /\ Move(t, "mount")
  /\ conf' \in {job[t].req.url} \cup IF conf \in {Torn, job[t].req.url} THEN {} ELSE {Torn}
  /\ UNCHANGED <<setting, desired, lock, assets, runtime, bounds, history>>

-----------------------------------------------------------------------------
(* MountedStateStore.update_desired.                                       *)

Spoil(kinds) == spoiled' = [k \in DOMAIN spoiled |-> spoiled[k] \/ k \in kinds]

\* The state mount is missing or read-only: a RuntimeError, before the lock.
CheckMount(t) ==
  /\ At(t, "mount")
  /\ IF mount = "refusing" THEN End(t) /\ Spoil({Kind(job[t].req)})
     ELSE Move(t, "lock") /\ UNCHANGED spoiled
  /\ UNCHANGED <<setting, desired, lock, conf, assets, runtime, bounds>>

\* Mutant: the lock is not taken.
Unlocked == TRUE
LockFree == lock = Nil

AcquireAndLoad(t) ==
  /\ At(t, "lock") /\ LockFree
  /\ lock' = t
  /\ job' = [job EXCEPT ![t].at = "write", ![t].data = Parsed(desired)]
  /\ UNCHANGED <<setting, desired, conf, assets, runtime, bounds, history>>

\* filelock.Timeout after 10 s, which no handler catches.
LockTimeout(t) ==
  /\ At(t, "lock") /\ ~LockFree
  /\ End(t) /\ Spoil({Kind(job[t].req)})
  /\ UNCHANGED <<setting, desired, lock, conf, assets, runtime, bounds>>

Mutated(j) ==
  IF j.req.kind = "url" THEN [j.data EXCEPT !.url = j.req.url]
  ELSE WithGroups(j.data, j.groups)

\* The file has its new content and the lock is released.  What follows only
\* changes install_state.json, which Setup has.
Commit(t) ==
  /\ desired' = Mutated(job[t])
  /\ lock' = Nil /\ End(t)
  /\ spoiled' = [spoiled EXCEPT ![Kind(job[t].req)] = job[t].met # {}]
  /\ UNCHANGED <<setting, conf, assets, runtime, bounds>>

\* atomic_write: os.replace, or EBUSY and the file is written in place.
Replace(t) == At(t, "write") /\ mount = "rename" /\ Commit(t)

\* Mutant: the file is opened for writing in any case.
AlwaysInPlace == TRUE
InPlace == mount = "in place"

Truncate(t) ==
  /\ At(t, "write") /\ InPlace /\ Move(t, "fill")
  /\ desired' = Torn
  /\ UNCHANGED <<setting, lock, conf, assets, runtime, bounds, history>>

Fill(t) == At(t, "fill") /\ Commit(t)

-----------------------------------------------------------------------------
(* Interruptions.                                                          *)

\* What requests that end here leave half done.
HalfDone(t) ==
  IF Kind(job[t].req) = "url"
  THEN IF job[t].at \in {"conf", "open conf"} THEN {} ELSE {"url"}
  ELSE IF job[t].at \in {"look", "prepare"} THEN {} ELSE {"groups"}

\* The requests of T end where they are, and the locks they hold are released.
CutOff(T) ==
  /\ cuts < MaxCuts /\ cuts' = cuts + 1
  /\ job' = [t \in Threads |-> IF t \in T THEN Idle ELSE job[t]]
  /\ lock' = IF lock \in T THEN Nil ELSE lock
  /\ Spoil((UNION {HalfDone(t) : t \in T})
           \cup IF \E t \in T : At(t, "fill") THEN {"groups", "url"} ELSE {})

\* A step raises: a disk that is full, a directory another request is using, an
\* install_state.json that cannot be read.  Part of the assets are done.
Fail(t) ==
  /\ t \in Busy /\ ~At(t, "look") /\ ~At(t, "mount") /\ ~At(t, "lock")
  /\ CutOff({t})
  /\ \/ At(t, "prepare") /\ \E some \in SUBSET ToSet(job[t].groups) : assets' = assets \cup some
     \/ At(t, "clean") /\ \E some \in SUBSET (assets \ ToSet(job[t].groups)) :
                            assets' = assets \ some
     \/ ~At(t, "prepare") /\ ~At(t, "clean") /\ UNCHANGED assets
  /\ UNCHANGED <<setting, desired, conf, runtime, served>>

\* The process dies and is started again, which it is not while config.json is
\* torn (Setup has that).
Crash ==
  /\ conf # Torn
  /\ CutOff(Busy)
  /\ UNCHANGED <<setting, desired, conf, assets, runtime, served>>

-----------------------------------------------------------------------------
(* The supervisor, external: it reads desired.json, starts and stops       *)
(* containers, and writes runtime.json with the fields docs/supervisor.md  *)
(* lists.  Their order is left out: the status compares them sorted.       *)

Accept ==
  LET wanted == ToSet(GroupsOf(desired)) IN
  /\ desired # Torn /\ runtime.requested # wanted
  /\ runtime' = [requested |-> wanted, active |-> wanted \cap runtime.active,
                 starting |-> wanted \ runtime.active, failed |-> {}]
  /\ UNCHANGED <<setting, desired, lock, conf, assets, job, bounds, history>>

Settle ==
  /\ \E g \in runtime.starting, outcome \in {"active", "failed"} :
       runtime' = [runtime EXCEPT !.starting = @ \ {g}, ![outcome] = @ \cup {g}]
  /\ UNCHANGED <<setting, desired, lock, conf, assets, job, bounds, history>>

Supervisor == Accept \/ Settle

Serve(t) ==
  \/ Look(t) \/ Prepare(t) \/ Clean(t) \/ ReadSession(t)
  \/ ReadConf(t) \/ OpenConf(t) \/ FillConf(t)
  \/ CheckMount(t) \/ AcquireAndLoad(t) \/ LockTimeout(t)
  \/ Replace(t) \/ Truncate(t) \/ Fill(t) \/ Fail(t)

Next ==
  \/ \E t \in Threads, r \in Requests : Receive(t, r)
  \/ \E t \in Threads : Serve(t)
  \/ Crash \/ Supervisor

Spec == Init /\ [][Next]_vars

\* The supervisor keeps polling desired.json and ends what it starts.
LiveSpec == Spec /\ WF_vars(Supervisor)

-----------------------------------------------------------------------------
(* GET /api/install/status, once the base setup is complete.               *)

Shown(groups) == groups \cap manifest.supported

\* The desired groups, unless runtime.json names requested ones.
StatusRequested ==
  IF Shown(runtime.requested) # {} THEN Shown(runtime.requested)
  ELSE Shown(ToSet(GroupsOf(desired)))

StatusMissing == (StatusRequested \cap manifest.required) \ Shown(runtime.active)

\* optional_groups_pending_reconcile, where runtime.json brings none
StatusPending == StatusRequested # Shown(runtime.active)

\* Mutant: some groups running and others failed is no state of its own.
NeverMixed ==
  CASE StatusRequested = {} -> "idle"
    [] StatusRequested # {} /\ Shown(runtime.failed) # {} /\ Shown(runtime.active) = {} ->
         "failed"
    [] OTHER -> IF Shown(runtime.starting) # {} THEN "starting"
                ELSE IF StatusPending THEN "waiting_for_reconcile" ELSE "active"

\* _optional_reconcile_state
StatusReconcile ==
  CASE StatusRequested = {} -> "idle"
    [] StatusRequested # {} /\ Shown(runtime.failed) # {} /\ Shown(runtime.active) = {} ->
         "failed"
    [] OTHER -> IF Shown(runtime.starting) # {} THEN "starting"
                ELSE IF ~StatusPending THEN "active"
                ELSE IF Shown(runtime.failed) # {} THEN "mixed" ELSE "waiting_for_reconcile"

\* _readiness_state
StatusReadiness ==
  LET active == Shown(runtime.active) IN
  IF StatusRequested = {} \/ (StatusMissing = {} /\ StatusRequested = active) THEN "full"
  ELSE IF StatusMissing # {} /\ active = {} THEN "not_ready" ELSE "partial"

-----------------------------------------------------------------------------
(* Properties.                                                             *)

Files ==
  [enabled : Lists, nested : Lists, legacy : Lists, url : Urls \cup {Nil}, other : BOOLEAN]
Jobs ==
  [at : {"prepare", "clean", "session", "conf", "open conf", "fill conf", "look",
         "mount", "lock", "write", "fill"},
   req : Requests, data : Files, groups : Lists, met : SUBSET Threads]

\* Every variable has its type; desired.json is torn or being written in place
\* only where a rename is refused.
DesiredTypeOK ==
  /\ manifest \in Manifests /\ mount \in Mounts
  /\ desired \in Files \cup {Torn}
  /\ lock \in Threads \cup {Nil}
  /\ conf \in Urls \cup {Nil, Torn}
  /\ assets \subseteq GroupIds
  /\ runtime \in [{"requested", "active", "starting", "failed"} -> SUBSET GroupIds]
  /\ job \in [Threads -> Jobs \cup {Idle}]
  /\ served \in Nat /\ cuts \in Nat
  /\ spoiled \in [{"groups", "url"} -> BOOLEAN]
  /\ (desired = Torn \/ \E t \in Threads : At(t, "fill")) => mount = "in place"

\* docs/supervisor.md: desired.json is written with "lock file + atomic replace"
\* and writers "preserve unrelated JSON fields".  Whatever group selections,
\* applies and URL changes run at once, wait for the lock, give up or die, each
\* changes its own field in one step and no other: a URL never brings back old
\* groups, a selection never an old URL, and neither loses what the supervisor
\* keeps there.  Only where the rename is refused, a write that is cut short
\* empties the file.
Content ==
  IF desired # Torn THEN desired
  ELSE IF \E t \in Threads : At(t, "fill") THEN job[lock].data ELSE EmptyFile
Promised(file) == [groups |-> GroupsOf(file), url |-> file.url, other |-> file.other]
Record == INSTANCE AtomicRecord WITH
            rec <- Promised(Content), fragile <- (mount = "in place"),
            Fields <- {"groups", "url"}, Empty <- Promised(EmptyFile)
DesiredIsAtomic == Record!Spec

\* docs/deployment.md: "selected optional groups get runtime assets prepared",
\* before the supervisor reconciles.  Between requests every desired group has
\* its assets, and desired.json names the Core URL that config.json has, unless
\* the last change of its kind was cut short, was refused, or overlapped another.
Rewriting(kind) ==
  \E t \in Busy : Kind(job[t].req) = kind /\ job[t].at \notin {"look", "prepare"}
SideStateFollows ==
  /\ ~spoiled["groups"] /\ ~Rewriting("groups") => ToSet(GroupsOf(desired)) \subseteq assets
  /\ ~spoiled["url"] /\ ~Rewriting("url") /\ desired # Torn => desired.url = conf

\* What a list of groups needs, by definition: the least set that holds its
\* supported members and, with a group, the supported groups that one needs.
Needs(m, g) == ToSet(m.deps[g]) \cap m.supported
Closed(m, G) == \A g \in G : Needs(m, g) \subseteq G
Closure(m, G) ==
  {g \in m.supported : \A C \in SUBSET m.supported :
     G \cap m.supported \subseteq C /\ Closed(m, C) => g \in C}

\* Whatever the manifest says, cycles and unknown groups included, a selection
\* comes to exactly the supported groups it needs, each of them once and after
\* those it needs, except where they need each other; and so does desired.json.
InOrder(m, list) ==
  \A i \in 1..Len(list) : \A need \in Needs(m, list[i]) :
    \/ \E k \in 1..(i - 1) : list[k] = need
    \/ list[i] \in Closure(m, {need})
Resolved(m, list) ==
  /\ ToSet(list) \subseteq m.supported /\ IsInjective(list)
  /\ Closed(m, ToSet(list)) /\ InOrder(m, list)
SelectionResolved ==
  /\ desired # Torn => Resolved(manifest, desired.enabled)
  /\ \A t \in Busy : job[t].req.kind = "select" =>
       /\ Resolved(manifest, job[t].groups)
       /\ ToSet(job[t].groups) = Closure(manifest, ToSet(job[t].req.list))

\* docs/supervisor.md: "When groups are requested, addon reports pending
\* reconcile until runtime feedback converges."  The wait ends: sooner or later
\* the status shows the groups that desired.json requests, a reset to none
\* included, with what has become of them, unless another selection takes their
\* place or the file is lost.
Outcome(G) ==
  LET active == G \cap runtime.active IN
  IF G = {} THEN "idle" ELSE IF active = G THEN "active"
  ELSE IF active = {} THEN "failed" ELSE "mixed"
StatusSettles ==
  \A G \in SUBSET GroupIds :
    (desired # Torn /\ ToSet(GroupsOf(desired)) = G)
      ~> \/ StatusRequested = G /\ StatusReconcile = Outcome(G)
         \/ desired = Torn \/ ToSet(GroupsOf(desired)) # G

\* docs/deployment.md: "full readiness requires base setup readiness and all
\* requested setup_required groups active".
FullMeansActive ==
  desired # Torn /\ StatusReadiness = "full" =>
    ToSet(GroupsOf(desired)) \cap manifest.required \subseteq runtime.active
=============================================================================
