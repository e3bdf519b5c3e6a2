---------------------------- MODULE Generations ----------------------------
(***************************************************************************)
(* Runtime resource generations: Agent/resources.py (RuntimePluginManager) *)
(* over the generation tables of StateController, with the owners that pin *)
(* a generation (Runs, cached Runtimes of a Session, Cron dispatches) in   *)
(* gateway/runtime_pool.py and gateway/application.py.                     *)
(*                                                                         *)
(* A plugin's file tree is a version; SemOf says which versions differ in  *)
(* formatting only.  A generation id is a hash of parent, manner of        *)
(* production and semantics, so it is modelled by that key: two plans with *)
(* the same key are the same generation, whatever their formatting.        *)
(***************************************************************************)
EXTENDS Naturals, Sequences, FiniteSets

CONSTANTS
    Plugins,        \* plugin ids
    Kind,           \* [Plugins -> {"tool", "observer", "skill"}]
    Requires,       \* [Plugins -> SUBSET Plugins]
    Versions,       \* versions of a plugin's files
    SemOf,          \* [Versions -> Versions]: the version it is a reformatting of
    Absent,         \* no such plugin
    Runs,           \* Run ids; a Cron Run stands for its dispatch as well
    CronRuns,       \* those submitted by a Cron dispatch
    SessionOf,      \* [Runs -> session ids]
    FirstTree,      \* the source tree at the first start
    Threshold,      \* consecutive failures before quarantine
    MaxGens,        \* bound: generations ever planned
    MaxEdits,       \* bound: changes of the source tree
    MaxCrashes      \* bound: process deaths

ASSUME GenAssumption ==
    /\ Kind \in [Plugins -> {"tool", "observer", "skill"}]
    /\ Requires \in [Plugins -> SUBSET Plugins]
    /\ SemOf \in [Versions -> Versions]
    /\ Absent \notin Versions
    /\ CronRuns \subseteq Runs
    /\ Runs = DOMAIN SessionOf
    /\ FirstTree \in [Plugins -> Versions]
    /\ Threshold \in Nat \ {0}
    /\ {MaxGens, MaxEdits, MaxCrashes} \subseteq Nat

VARIABLES
    tree,       \* the editable source: [Plugins -> Versions or Absent]
    disabled,   \* settings.json: plugins switched off
    gens,       \* runtime_resource_generations and the artifact directories
    head,       \* profile head, 0 before the first activation
    acts,       \* generations in the order of their activation (audit rows)
    approved,   \* generations whose plan hash is approved
    streak,     \* runtime_plugin_health.failure_streak
    quar,       \* <<generation, plugin>> pairs marked quarantined
    job,        \* reloads, rollbacks and quarantines under way, one per thread
    run,        \* stage of each Run
    runRef,     \* active reference of a Run, 0 for none
    cronRef,    \* active reference of its Cron dispatch
    sessRef,    \* active reference of a Session's cached Runtime
    cache,      \* RuntimePool._runtimes: generation of the cached Runtime
    boot,       \* "boot", "gc", "up"
    edits, crashes

genVars == <<tree, disabled, gens, head, acts, approved, streak, quar, job,
             run, runRef, cronRef, sessRef, cache, boot, edits, crashes>>

GenIds == 1 .. MaxGens
Sessions == {SessionOf[r] : r \in Runs}
Content == [Plugins -> Versions \cup {Absent}]
Nothing == [p \in Plugins |-> Absent]     \* no row, no directory
Manner == [by : {"reload", "rollback", "disable"}, plugs : SUBSET Plugins, from : 0 .. MaxGens]
Threads == {"api", "watcher", "observer"}
Stages == {"new", "bound", "starting", "active", "ended", "done"}

GenRecord == [parent : 0 .. MaxGens, manner : Manner, sem : Content,
              json : Content, dir : Content, fenced : BOOLEAN,
              status : {"free", "none", "preparing", "active", "retired", "quarantined"}]

Job == [pc : {"idle", "planned", "cleared", "built", "fallback", "mark"},
        gid : 0 .. MaxGens, src : Content, sources : SUBSET GenIds,
        bad : 0 .. MaxGens, plug : Plugins \cup {Absent}]

NoReload == [by |-> "reload", plugs |-> {}, from |-> 0]
NoJob == [pc |-> "idle", gid |-> 0, src |-> Nothing, sources |-> {}, bad |-> 0, plug |-> Absent]
FreeGen == [parent |-> 0, manner |-> NoReload, sem |-> Nothing, json |-> Nothing,
            dir |-> Nothing, fenced |-> FALSE, status |-> "free"]

------------------------------------------------------------------------------
(* Content: discovery, semantics, approval                                   *)

Semantics(c) == [p \in Plugins |-> IF c[p] = Absent THEN Absent ELSE SemOf[c[p]]]

\* What the providers find: installed and not switched off.
Discovered == [p \in Plugins |-> IF p \in disabled THEN Absent ELSE tree[p]]

\* discover() raises when a plugin's dependency is missing.
Closed(c) == \A p \in Plugins : c[p] # Absent => \A q \in Requires[p] : c[q] # Absent

\* The exact files a generation's row says it holds.
Old(g) == IF g = 0 THEN Nothing ELSE gens[g].json

\* _approval_reasons: a new or changed executable plugin, a removed Tool.
NeedsApproval(parent, c) ==
    /\ parent # 0
    /\ \E p \in Plugins :
          \/ /\ Kind[p] # "skill"
             /\ c[p] # Absent
             /\ Semantics(c)[p] # Semantics(Old(parent))[p]
          \/ /\ Kind[p] = "tool"
             /\ c[p] = Absent
             /\ Old(parent)[p] # Absent

\* The hash of a rolled back generation is computed from another payload, so no plan equals it.
Unchanged(c) ==
    /\ head # 0
    /\ gens[head].manner.by # "rollback"
    /\ Semantics(c) = gens[head].sem

\* The plugins that cannot stay when p is taken out of c.
DependantsOf(c, S) == {q \in Plugins : c[q] # Absent /\ Requires[q] \cap S # {}}
DisableSet(c, p) ==
    CHOOSE S \in SUBSET Plugins :
        /\ p \in S
        /\ DependantsOf(c, S) \subseteq S
        /\ \A T \in SUBSET Plugins :
              (p \in T /\ DependantsOf(c, T) \subseteq T) => S \subseteq T

------------------------------------------------------------------------------
(* Identity of a generation                                                  *)

HasKey(g, parent, manner, sem) ==
    /\ gens[g].status # "free"
    /\ <<gens[g].parent, gens[g].manner, gens[g].sem>> = <<parent, manner, sem>>

Known(parent, manner, sem) == \E g \in GenIds : HasKey(g, parent, manner, sem)
Slot == {g \in GenIds : gens[g].status = "free" /\ \A h \in 1 .. g - 1 : gens[h].status # "free"}

\* The ids a plan may have: its own, or the next unused one (none once MaxGens are in use).
IdFor(parent, manner, sem) ==
    IF Known(parent, manner, sem) THEN {g \in GenIds : HasKey(g, parent, manner, sem)} ELSE Slot

\* gens with the identity of g filled in; nothing of it is stored yet.
Planned(g, parent, manner, sem) ==
    IF gens[g].status # "free" THEN gens
    ELSE [gens EXCEPT ![g] = [FreeGen EXCEPT !.parent = parent, !.manner = manner,
                                             !.sem = sem, !.status = "none"]]

Fail(t) == job' = [job EXCEPT ![t] = NoJob]

------------------------------------------------------------------------------
(* The file tree and the settings                                            *)

\* Someone edits, installs or removes a plugin's files.
Edit(p, v) ==
    /\ edits < MaxEdits
    /\ tree[p] # v
    /\ tree' = [tree EXCEPT ![p] = v]
    /\ edits' = edits + 1
    /\ UNCHANGED <<disabled, gens, head, acts, approved, streak, quar, job,
                   run, runRef, cronRef, sessRef, cache, boot, crashes>>

\* set_enabled: dependencies stay consistent; the API reloads afterwards.
SetEnabled(p, on) ==
    /\ boot = "up"
    /\ edits < MaxEdits
    /\ tree[p] # Absent
    /\ IF on THEN /\ p \in disabled
                  /\ Requires[p] \cap disabled = {}
             ELSE /\ p \notin disabled
                  /\ \A q \in Plugins \ disabled : p \in Requires[q] => tree[q] = Absent
    /\ disabled' = IF on THEN disabled \ {p} ELSE disabled \cup {p}
    /\ edits' = edits + 1
    /\ UNCHANGED <<tree, gens, head, acts, approved, streak, quar, job,
                   run, runRef, cronRef, sessRef, cache, boot, crashes>>

------------------------------------------------------------------------------
(* Reload: plan, decide, materialise and smoke test, activate                *)

\* Who may start a reload: the API, and the watcher, which plans until a plan differs from the
\* head (its debounce and its memory of the last plan only make it start less often).
Reloads(t) ==
    /\ boot = "up"
    /\ t \in {"api", "watcher"}
    /\ job[t].pc = "idle"

\* plan_reload: discover, then read the head.
PlanReload(t) ==
    /\ Reloads(t)
    /\ Closed(Discovered)
    /\ ~Unchanged(Discovered)
    /\ \E g \in IdFor(head, NoReload, Semantics(Discovered)) :
          /\ gens' = Planned(g, head, NoReload, Semantics(Discovered))
          /\ job' = [job EXCEPT ![t] = [NoJob EXCEPT !.pc = "planned", !.gid = g,
                                                     !.src = Discovered]]
    /\ UNCHANGED <<tree, disabled, head, acts, approved, streak, quar,
                   run, runRef, cronRef, sessRef, cache, boot, edits, crashes>>

\* A row for g, unless there is one.
WithRow(g, c) ==
    IF gens[g].status = "none"
    THEN [gens EXCEPT ![g].json = c, ![g].status = "preparing"] ELSE gens

\* approve_runtime_reload_plan: the decision is stored with the plan it is about.
Approve(g, c) ==
    /\ approved' = approved \cup {g}
    /\ gens' = WithRow(g, c)

\* The second half of reload(): the head again, then the approval.
\* consent: the caller passed the plan hash as approved.
DecideReload(t, consent) ==
    LET g == job[t].gid
        c == job[t].src
        needs == NeedsApproval(gens[g].parent, c)
    IN /\ job[t].pc = "planned"
       /\ consent => t = "api"
       /\ IF head = g THEN Fail(t) /\ UNCHANGED <<gens, approved>>
          ELSE IF needs /\ consent
          THEN /\ Approve(g, c)
               /\ job' = [job EXCEPT ![t].pc = "cleared"]
          ELSE IF ~needs \/ g \in approved
          THEN /\ job' = [job EXCEPT ![t].pc = "cleared"]
               /\ UNCHANGED <<gens, approved>>
          ELSE \* awaiting approval, or a stored plan with other files: both end the attempt
               /\ gens' = WithRow(g, c)
               /\ Fail(t)
               /\ UNCHANGED approved
       /\ UNCHANGED <<tree, disabled, head, acts, streak, quar,
                      run, runRef, cronRef, sessRef, cache, boot, edits, crashes>>

\* Every file of c is in the tree, or in the artifact of a generation we may copy from.
Available(c, sources) ==
    \A p \in Plugins : c[p] # Absent =>
        \/ tree[p] = c[p]
        \/ \E s \in sources : gens[s].dir[p] = c[p]

\* _smoke_test: every file is compared with the row; ok = FALSE: a module does not load, a Skill
\* does not parse, an extension is rejected.
SmokeTest(dir, c, ok) == ok /\ dir = c

\* _materialize: an existing directory is kept, and tested like a new one.
Materialize(t, ok) ==
    LET g == job[t].gid
        c == job[t].src
        fresh == gens[g].dir = Nothing
    IN /\ job[t].pc = "cleared"
       /\ IF fresh /\ ~Available(c, job[t].sources)
          THEN Fail(t) /\ UNCHANGED gens
          ELSE LET dir == IF fresh THEN c ELSE gens[g].dir IN
               /\ gens' = [gens EXCEPT ![g].dir = dir]
               /\ IF SmokeTest(dir, c, ok) THEN job' = [job EXCEPT ![t].pc = "built"] ELSE Fail(t)
       /\ UNCHANGED <<tree, disabled, head, acts, approved, streak, quar,
                      run, runRef, cronRef, sessRef, cache, boot, edits, crashes>>

\* activate_runtime_generation: the head must still be the parent, and a stored row must agree.
CanActivate(g, c) ==
    /\ gens[g].parent = head
    /\ gens[g].status # "none" => gens[g].json = c

ActivateHead(g, c) ==
    /\ gens' = [h \in GenIds |->
          IF h = g THEN [gens[h] EXCEPT !.json = c, !.status = "active"]
          ELSE IF h = head /\ gens[h].status = "active" THEN [gens[h] EXCEPT !.status = "retired"]
          ELSE gens[h]]
    /\ head' = g
    /\ acts' = Append(acts, g)

Activate(t) ==
    LET g == job[t].gid IN
    /\ job[t].pc = "built"
    /\ IF CanActivate(g, job[t].src)
       THEN /\ ActivateHead(g, job[t].src)
            /\ IF job[t].bad = 0 THEN Fail(t) ELSE job' = [job EXCEPT ![t].pc = "mark"]
       ELSE Fail(t) /\ UNCHANGED <<gens, head, acts>>
    /\ UNCHANGED <<tree, disabled, approved, streak, quar,
                   run, runRef, cronRef, sessRef, cache, boot, edits, crashes>>

------------------------------------------------------------------------------
(* Rollback of one member                                                    *)

\* rollback_member: a new generation on today's head with p as generation `from` has it.
PlanRollback(t, p, from, bad) ==
    /\ head # 0
    /\ gens[from].status \notin {"free", "none"}
    /\ gens[from].json[p] # Absent
    /\ LET c == [Old(head) EXCEPT ![p] = gens[from].json[p]]
           m == [by |-> "rollback", plugs |-> {p}, from |-> from]
       IN \E g \in IdFor(head, m, Semantics(c)) :
             /\ gens' = Planned(g, head, m, Semantics(c))
             /\ job' = [job EXCEPT ![t] = [pc |-> "cleared", gid |-> g, src |-> c,
                                           sources |-> {head, from}, bad |-> bad, plug |-> p]]

OperatorRollback(p, from) ==
    /\ boot = "up"
    /\ job["api"].pc = "idle"
    /\ from # head
    /\ PlanRollback("api", p, from, 0)
    /\ UNCHANGED <<tree, disabled, head, acts, approved, streak, quar,
                   run, runRef, cronRef, sessRef, cache, boot, edits, crashes>>

------------------------------------------------------------------------------
(* Plugin health                                                             *)

\* record_runtime_plugin_failure for a Run bound to g; at the threshold the plugin is quarantined
\* in g, and only the report that crosses the threshold goes on.
ReportFailure(r, p) ==
    LET g == runRef[r]
        n == streak[g][p] + 1
    IN /\ boot = "up"
       /\ run[r] = "active"
       /\ g # 0
       /\ job["observer"].pc = "idle"
       /\ Kind[p] = "observer" /\ gens[g].json[p] # Absent
       /\ n <= Threshold
       /\ streak' = [streak EXCEPT ![g][p] = n]
       /\ IF n = Threshold /\ <<g, p>> \notin quar
          THEN /\ quar' = quar \cup {<<g, p>>}
               /\ gens' = IF gens[g].status = "retired"
                          THEN [gens EXCEPT ![g].status = "quarantined"] ELSE gens
               /\ job' = [job EXCEPT !["observer"] = [NoJob EXCEPT !.pc = "fallback",
                                                         !.bad = g, !.plug = p]]
          ELSE UNCHANGED <<quar, gens, job>>
       /\ UNCHANGED <<tree, disabled, head, acts, approved,
                      run, runRef, cronRef, sessRef, cache, boot, edits, crashes>>

\* record_runtime_plugin_success: clears the streak of a healthy plugin.
ReportSuccess(r, p) ==
    LET g == runRef[r] IN
    /\ boot = "up"
    /\ run[r] = "active"
    /\ g # 0
    /\ Kind[p] = "observer"
    /\ streak[g][p] > 0 /\ <<g, p>> \notin quar
    /\ streak' = [streak EXCEPT ![g][p] = 0]
    /\ UNCHANGED <<tree, disabled, gens, head, acts, approved, quar, job,
                   run, runRef, cronRef, sessRef, cache, boot, edits, crashes>>

\* Positions of acts a rollback of p may start from; the latest is taken.
Fallbacks(p, bad) ==
    {i \in DOMAIN acts :
        /\ acts[i] # bad
        /\ ~gens[acts[i]].fenced
        /\ gens[acts[i]].status \in {"active", "retired"}
        /\ <<acts[i], p>> \notin quar
        /\ gens[acts[i]].json[p] # Absent}

\* _disable_quarantined_member: the next generation does without p and its dependants.
PlanDisable(t, p, bad) ==
    LET S == DisableSet(Old(bad), p)
        c == [q \in Plugins |-> IF q \in S THEN Absent ELSE Old(bad)[q]]
        m == [by |-> "disable", plugs |-> S, from |-> 0]
    IN \E g \in IdFor(bad, m, Semantics(c)) :
          /\ gens' = Planned(g, bad, m, Semantics(c))
          /\ job' = [job EXCEPT ![t] = [pc |-> "cleared", gid |-> g, src |-> c,
                                        sources |-> {bad}, bad |-> bad, plug |-> p]]

\* The rest of report_failure after the threshold: roll back, disable, or only mark.
ChooseFallback ==
    LET t == "observer"
        p == job[t].plug
        bad == job[t].bad
        F == Fallbacks(p, bad)
    IN /\ job[t].pc = "fallback"
       /\ IF F # {}
          THEN PlanRollback(t, p, acts[CHOOSE i \in F : \A k \in F : k <= i], bad)
          ELSE IF head = bad
          THEN PlanDisable(t, p, bad)
          ELSE job' = [job EXCEPT ![t].pc = "mark"] /\ UNCHANGED gens
       /\ UNCHANGED <<tree, disabled, head, acts, approved, streak, quar,
                      run, runRef, cronRef, sessRef, cache, boot, edits, crashes>>

\* mark_runtime_generation_quarantined: refused while the generation is the head.
MarkQuarantined ==
    LET bad == job["observer"].bad IN
    /\ job["observer"].pc = "mark"
    /\ gens' = IF head # bad /\ gens[bad].status = "retired"
               THEN [gens EXCEPT ![bad].status = "quarantined"] ELSE gens
    /\ Fail("observer")
    /\ UNCHANGED <<tree, disabled, head, acts, approved, streak, quar,
                   run, runRef, cronRef, sessRef, cache, boot, edits, crashes>>

------------------------------------------------------------------------------
(* Owners of a generation                                                    *)

\* acquire_runtime_generation_reference refuses a generation that is fenced for deletion.
Usable(g) == g # 0 /\ ~gens[g].fenced

\* create_run binds the head of this moment in the transaction that creates the Run.
CreateRun(r) ==
    /\ boot = "up"
    /\ run[r] = "new" /\ r \notin CronRuns
    /\ Usable(head)
    /\ run' = [run EXCEPT ![r] = "bound"]
    /\ runRef' = [runRef EXCEPT ![r] = head]
    /\ UNCHANGED <<tree, disabled, gens, head, acts, approved, streak, quar, job,
                   cronRef, sessRef, cache, boot, edits, crashes>>

\* _submit_cron_dispatch: the dispatch is bound first and the Run takes over its generation.
BindDispatch(r) ==
    /\ boot = "up"
    /\ run[r] = "new" /\ r \in CronRuns
    /\ cronRef[r] = 0
    /\ Usable(head)
    /\ cronRef' = [cronRef EXCEPT ![r] = head]
    /\ UNCHANGED <<tree, disabled, gens, head, acts, approved, streak, quar, job,
                   run, runRef, sessRef, cache, boot, edits, crashes>>

\* Slip: the Run of a dispatch takes the head of its own moment.
CreateCronRunOnHead(r) ==
    /\ boot = "up"
    /\ run[r] = "new" /\ r \in CronRuns
    /\ cronRef[r] # 0
    /\ run' = [run EXCEPT ![r] = "bound"]
    /\ runRef' = [runRef EXCEPT ![r] = head]
    /\ UNCHANGED <<tree, disabled, gens, head, acts, approved, streak, quar, job,
                   cronRef, sessRef, cache, boot, edits, crashes>>

CreateCronRun(r) ==
    /\ boot = "up"
    /\ run[r] = "new" /\ r \in CronRuns
    /\ cronRef[r] # 0
    /\ Usable(cronRef[r])
    /\ run' = [run EXCEPT ![r] = "bound"]
    /\ runRef' = [runRef EXCEPT ![r] = cronRef[r]]
    /\ UNCHANGED <<tree, disabled, gens, head, acts, approved, streak, quar, job,
                   cronRef, sessRef, cache, boot, edits, crashes>>

\* snapshot and _materialize_profile_view: the profile's files are taken from the artifact, byte for
\* byte as the row lists them.
SnapshotWhole(g) == gens[g].dir = gens[g].json

Busy(s) == \E r \in Runs : SessionOf[r] = s /\ run[r] \in {"starting", "active"}

\* _runtime_for: reuse the cached Runtime of this generation, or close it and build another.  The
\* reference of the Session must then be free or already of this generation: otherwise the Run fails.
StartRuntime(r) ==
    LET s == SessionOf[r]
        g == runRef[r]
        kept == IF cache[s] \in {0, g} THEN sessRef[s] ELSE 0
    IN /\ boot = "up"
       /\ run[r] = "bound"
       /\ ~Busy(s)
       /\ SnapshotWhole(g)
       /\ cache' = [cache EXCEPT ![s] = IF @ = g THEN g ELSE 0]
       /\ IF kept \in {0, g}
          THEN /\ sessRef' = [sessRef EXCEPT ![s] = g]
               /\ run' = [run EXCEPT ![r] = "starting"]
          ELSE /\ sessRef' = [sessRef EXCEPT ![s] = kept]
               /\ run' = [run EXCEPT ![r] = "ended"]
       /\ UNCHANGED <<tree, disabled, gens, head, acts, approved, streak, quar, job,
                      runRef, cronRef, boot, edits, crashes>>

\* The STARTED event puts the Runtime into the cache; a Cron Runtime is never shared.
Started(r) ==
    /\ boot = "up"
    /\ run[r] = "starting"
    /\ run' = [run EXCEPT ![r] = "active"]
    /\ cache' = IF r \in CronRuns THEN cache ELSE [cache EXCEPT ![SessionOf[r]] = runRef[r]]
    /\ UNCHANGED <<tree, disabled, gens, head, acts, approved, streak, quar, job,
                   runRef, cronRef, sessRef, boot, edits, crashes>>

\* The Run reaches its terminal state, before STARTED or after; only a Cron Runtime is closed.
EndRun(r) ==
    /\ boot = "up"
    /\ run[r] \in {"starting", "active"}
    /\ run' = [run EXCEPT ![r] = "ended"]
    /\ sessRef' = IF r \in CronRuns THEN [sessRef EXCEPT ![SessionOf[r]] = 0] ELSE sessRef
    /\ UNCHANGED <<tree, disabled, gens, head, acts, approved, streak, quar, job,
                   runRef, cronRef, cache, boot, edits, crashes>>

\* release_reference of the Run, and of its dispatch when it settles.
ReleaseRun(r) ==
    /\ boot = "up"
    /\ run[r] = "ended"
    /\ run' = [run EXCEPT ![r] = "done"]
    /\ runRef' = [runRef EXCEPT ![r] = 0]
    /\ cronRef' = [cronRef EXCEPT ![r] = 0]
    /\ UNCHANGED <<tree, disabled, gens, head, acts, approved, streak, quar, job,
                   sessRef, cache, boot, edits, crashes>>

\* _reap_idle_once, release_idle_for_maintenance: close an idle cached Runtime.
Reap(s) ==
    /\ boot = "up"
    /\ cache[s] # 0
    /\ ~Busy(s)
    /\ cache' = [cache EXCEPT ![s] = 0]
    /\ sessRef' = [sessRef EXCEPT ![s] = 0]
    /\ UNCHANGED <<tree, disabled, gens, head, acts, approved, streak, quar, job,
                   run, runRef, cronRef, boot, edits, crashes>>

------------------------------------------------------------------------------
(* Process death, start, garbage collection                                  *)

\* Threads and caches are gone; interrupted Runs are submitted again with their binding.
GenCrash ==
    /\ crashes < MaxCrashes
    /\ crashes' = crashes + 1
    /\ boot' = "boot"
    /\ job' = [t \in Threads |-> NoJob]
    /\ cache' = [s \in Sessions |-> 0]
    /\ run' = [r \in Runs |-> IF run[r] \in {"starting", "active"} THEN "bound" ELSE run[r]]
    /\ UNCHANGED <<tree, disabled, gens, head, acts, approved, streak, quar,
                   runRef, cronRef, sessRef, edits>>

\* ensure_initial_generation: publish the first one, or verify the head's artifact.
EnsureInitial ==
    /\ boot = "boot"
    /\ boot' = "gc"
    /\ IF head # 0
       THEN /\ gens[head].dir = gens[head].json \/ Available(gens[head].json, {})
            /\ gens' = [gens EXCEPT ![head].dir = gens[head].json]
            /\ UNCHANGED <<head, acts>>
       ELSE /\ Closed(Discovered)
            /\ \E g \in Slot :
                 /\ gens' = [gens EXCEPT ![g] = [FreeGen EXCEPT !.sem = Semantics(Discovered),
                        !.json = Discovered, !.dir = Discovered, !.status = "active"]]
                 /\ head' = g
                 /\ acts' = Append(acts, g)
    /\ UNCHANGED <<tree, disabled, approved, streak, quar, job,
                   run, runRef, cronRef, sessRef, cache, edits, crashes>>

Referenced(g) ==
    \/ \E r \in Runs : g \in {runRef[r], cronRef[r]}
    \/ \E s \in Sessions : sessRef[s] = g

\* Slip: the active references of a generation are not consulted.
GcFenceUnpinned(g) ==
    /\ boot = "gc"
    /\ gens[g].status \in {"retired", "quarantined"}
    /\ ~gens[g].fenced
    /\ gens' = [gens EXCEPT ![g].fenced = TRUE]
    /\ UNCHANGED <<tree, disabled, head, acts, approved, streak, quar, job,
                   run, runRef, cronRef, sessRef, cache, boot, edits, crashes>>

\* delete_runtime_generation_if_unreferenced: the fence is durable before the directory goes.
GcFence(g) ==
    /\ boot = "gc"
    /\ \A h \in GenIds : gens[h].fenced => gens[h].dir = Nothing
    /\ gens[g].status \in {"retired", "quarantined"}
    /\ ~gens[g].fenced
    /\ ~Referenced(g)
    /\ g # head
    /\ gens' = [gens EXCEPT ![g].fenced = TRUE]
    /\ UNCHANGED <<tree, disabled, head, acts, approved, streak, quar, job,
                   run, runRef, cronRef, sessRef, cache, boot, edits, crashes>>

GcRemove(g) ==
    /\ boot = "gc"
    /\ gens[g].fenced /\ gens[g].dir # Nothing
    /\ gens' = [gens EXCEPT ![g].dir = Nothing]
    /\ UNCHANGED <<tree, disabled, head, acts, approved, streak, quar, job,
                   run, runRef, cronRef, sessRef, cache, boot, edits, crashes>>

\* RuntimePool.start: references of Runtimes and of terminal owners are released.
ReconcileReferences ==
    /\ boot = "gc"
    /\ \A h \in GenIds : gens[h].fenced => gens[h].dir = Nothing
    /\ boot' = "up"
    /\ sessRef' = [s \in Sessions |-> 0]
    /\ runRef' = [r \in Runs |-> IF run[r] \in {"ended", "done"} THEN 0 ELSE runRef[r]]
    /\ cronRef' = [r \in Runs |-> IF run[r] \in {"ended", "done"} THEN 0 ELSE cronRef[r]]
    /\ run' = [r \in Runs |-> IF run[r] = "ended" THEN "done" ELSE run[r]]
    /\ UNCHANGED <<tree, disabled, gens, head, acts, approved, streak, quar, job,
                   cache, edits, crashes>>

------------------------------------------------------------------------------
GenInit ==
    /\ tree = FirstTree
    /\ disabled = {}
    /\ gens = [g \in GenIds |-> FreeGen]
    /\ head = 0
    /\ acts = <<>>
    /\ approved = {}
    /\ streak = [g \in GenIds |-> [p \in Plugins |-> 0]]
    /\ quar = {}
    /\ job = [t \in Threads |-> NoJob]
    /\ run = [r \in Runs |-> "new"]
    /\ runRef = [r \in Runs |-> 0]
    /\ cronRef = [r \in Runs |-> 0]
    /\ sessRef = [s \in Sessions |-> 0]
    /\ cache = [s \in Sessions |-> 0]
    /\ boot = "boot"
    /\ edits = 0
    /\ crashes = 0

GenNext ==
    \/ \E p \in Plugins, v \in Versions \cup {Absent} : Edit(p, v)
    \/ \E p \in Plugins, on \in BOOLEAN : SetEnabled(p, on)
    \/ \E t \in Threads : PlanReload(t)
    \/ \E t \in Threads, consent \in BOOLEAN : DecideReload(t, consent)
    \/ \E t \in Threads, ok \in BOOLEAN : Materialize(t, ok)
    \/ \E t \in Threads : Activate(t)
    \/ \E p \in Plugins, from \in GenIds : OperatorRollback(p, from)
    \/ \E r \in Runs, p \in Plugins : ReportFailure(r, p)
    \/ \E r \in Runs, p \in Plugins : ReportSuccess(r, p)
    \/ ChooseFallback
    \/ MarkQuarantined
    \/ \E r \in Runs : CreateRun(r)
    \/ \E r \in Runs : BindDispatch(r)
    \/ \E r \in Runs : CreateCronRun(r)
    \/ \E r \in Runs : StartRuntime(r)
    \/ \E r \in Runs : Started(r)
    \/ \E r \in Runs : EndRun(r)
    \/ \E r \in Runs : ReleaseRun(r)
    \/ \E s \in Sessions : Reap(s)
    \/ GenCrash
    \/ EnsureInitial
    \/ \E g \in GenIds : GcFence(g)
    \/ \E g \in GenIds : GcRemove(g)
    \/ ReconcileReferences

GenSpec == GenInit /\ [][GenNext]_genVars

------------------------------------------------------------------------------
GenTypeOK ==
    /\ tree \in Content /\ disabled \subseteq Plugins
    /\ gens \in [GenIds -> GenRecord]
    /\ head \in 0 .. MaxGens
    /\ acts \in Seq(GenIds)
    /\ approved \subseteq GenIds
    /\ streak \in [GenIds -> [Plugins -> 0 .. Threshold]]
    /\ quar \subseteq GenIds \X Plugins
    /\ job \in [Threads -> Job]
    /\ run \in [Runs -> Stages]
    /\ {runRef, cronRef} \subseteq [Runs -> 0 .. MaxGens]
    /\ {sessRef, cache} \subseteq [Sessions -> 0 .. MaxGens]
    /\ boot \in {"boot", "gc", "up"}

\* What a Run, a dispatch, a cached Runtime or the profile head relies on is whole on disk, with
\* exactly the files its row lists, and is not fenced for deletion: garbage collection, a death
\* between fence and removal, and a restart never take it away.
HeldIsWhole ==
    \A g \in GenIds : (Referenced(g) \/ g = head) => SnapshotWhole(g) /\ ~gens[g].fenced

\* Heads form a chain: each activated generation was planned on the one before it, so two threads
\* that plan on the same head never both win, and no generation becomes the head twice.
HeadsFormChain ==
    /\ head = (IF acts = <<>> THEN 0 ELSE acts[Len(acts)])
    /\ \A i \in DOMAIN acts : gens[acts[i]].parent = (IF i = 1 THEN 0 ELSE acts[i - 1])
    /\ \A i, k \in DOMAIN acts : acts[i] = acts[k] => i = k

\* A reload that adds or changes executable code is active only after its plan was approved.
ExecutableApproved ==
    \A i \in 2 .. Len(acts) :
        LET g == acts[i] IN
        (gens[g].manner.by = "reload" /\ NeedsApproval(acts[i - 1], gens[g].json)) => g \in approved

\* The history of heads is sound and what anybody relies on is still there.
GenerationsSound == GenTypeOK /\ HeldIsWhole /\ HeadsFormChain /\ ExecutableApproved

\* A Run that is not over keeps the generation it was bound to, through reloads, rollbacks and
\* process deaths; a Cron Run has the generation of its dispatch.
BindingKept ==
    [][\A r \in Runs :
          /\ (runRef[r] # 0 /\ run'[r] \notin {"ended", "done"}) => runRef'[r] = runRef[r]
          /\ (r \in CronRuns /\ runRef'[r] # 0 /\ runRef[r] = 0) => runRef'[r] = cronRef[r]]_genVars

=============================================================================
