--------------------------- MODULE SyncScheduler ---------------------------
(***************************************************************************)
(* When the Primary builds a snapshot of its Core's configuration, and     *)
(* when it pushes one to its Satellites: src/src/service/index.js, with    *)
(* the snapshot cache of service/sync-coordinator.js, the checkpoints of   *)
(* protocol/snapshot.js and the reconnect logic of core/events.js.         *)
(*                                                                         *)
(* JavaScript runs one task at a time, so an action is the code between    *)
(* two awaits.  Time is abstract: an armed timer may fire at any moment.   *)
(* A push is one step, taken when its answer (or its failure) is recorded. *)
(***************************************************************************)
EXTENDS Integers, FiniteSets

CONSTANTS
    Peers,            \* the Satellites in config.peers
    NumSections,      \* a build reads this many groups of Core data in turn
    Values,           \* what one group of Core data can be
    Edits,            \* pairs <<old, new>>: the changes a user makes to a group
    Outcomes,         \* how a push can end, a subset of AllOutcomes
    AutoSync,         \* config.sync.auto_sync
    Limits,           \* bound: how many disturbances of each kind there are
    None,             \* JavaScript null
    Undefined,        \* JavaScript undefined: the hash record() stores on failure
    Mixed             \* objects of two snapshots, left by a failed application

Sections == 1..NumSections
Kinds == {"edit", "request", "failure", "restart"}
Content == [Sections -> Values]
AllOutcomes == {"ok", "refused", "lost", "partial"}

ASSUME ConstantsAssumption ==
    /\ NumSections \in Nat \ {0}
    /\ Limits \subseteq [Kinds -> Nat]
    /\ AutoSync \in BOOLEAN
    /\ Edits \subseteq Values \X Values
    /\ Outcomes \subseteq AllOutcomes
    /\ "ok" \in Outcomes
    /\ None \notin Peers \cup Values

VARIABLES
    \* The Primary's Core and the watcher of its events.
    source,        \* what the Core holds, group by group
    watch,         \* "off", "connecting" (first attempt), "lost", "live" or "late"
    eventDue,      \* a configuration event sits in the debounce window
    gen,           \* auxiliary: how often a watcher went live without a callback
    \* Scheduling state of RemoteSyncService.
    phase,         \* "up"; "stopping", "held" or "closing", in stop(); "starting", in
                   \* the rest of configure(); "down", between two processes
    revision,      \* configurationRevision
    pending,       \* status.pending_changes
    lastHash,      \* status.last_snapshot_hash, the snapshot standing for its hash
    cache,         \* syncCoordinator.cache
    eventTimer, initialTimer, periodicTimer, trailing,
    round,         \* the periodic callback: "idle", "refresh" or "audit"
    toRefresh,     \* Satellites refresh() has not asked yet
    job,           \* the snapshot builds in progress, see IdleJob
    \* Retries and the registry of Satellites.
    retryTimers,   \* Satellites with a timer in retryTimers
    retrying,      \* the snapshot a fired retry timer is pushing
    enabled,       \* peers with peer.enabled
    known,         \* runtime.last_applied_hash
    \* The Satellites.
    applied,       \* the configuration a Satellite has
    satHash,       \* its status.last_snapshot_hash
    budget         \* disturbances of each kind left

coreVars  == <<source, watch, eventDue, gen>>
syncVars  == <<pending, eventTimer, trailing, job>>
roundVars == <<periodicTimer, round, toRefresh>>
retryVars == <<retryTimers, retrying>>
satVars   == <<applied, satHash>>
vars == <<coreVars, syncVars, roundVars, retryVars, satVars, phase, revision,
          lastHash, cache, initialTimer, enabled, known, budget>>

Jobs == {"sync", "manual"}  \* syncNow, and action "sync" of the SatelliteManager

\* A build and the pushes that follow it.  rev is syncRevision, at the next
\* group to read, only the peerId option, todo the peers still to push to.
\* built and gen are auxiliary: the revision and the generation its content, of a
\* build or of the cache, was begun with.
IdleJob ==
    [pc |-> "idle", force |-> FALSE, dry |-> FALSE, only |-> None, rev |-> 0,
     built |-> 0, gen |-> 0, at |-> 1, content |-> [s \in Sections |-> None],
     todo |-> {}, ok |-> TRUE]

Job ==
    [pc: {"idle", "read", "compress", "push"}, force: BOOLEAN, dry: BOOLEAN,
     only: Peers \cup {None}, rev: Nat, built: Nat, gen: Nat, at: 1..NumSections,
     content: [Sections -> Values \cup {None}], todo: SUBSET Peers, ok: BOOLEAN]

Snapshot == [content: Content, rev: Nat, gen: Nat]

TypeOK ==
    /\ source \in Content
    /\ watch \in {"off", "connecting", "lost", "live", "late"}
    /\ eventDue \in BOOLEAN /\ gen \in Nat
    /\ phase \in {"up", "stopping", "held", "closing", "starting", "down"}
    /\ revision \in Nat /\ pending \in BOOLEAN
    /\ lastHash \in Content \cup {None}
    /\ cache \in Snapshot \cup {None}
    /\ eventTimer \in BOOLEAN /\ initialTimer \in BOOLEAN
    /\ periodicTimer \in BOOLEAN /\ trailing \in BOOLEAN
    /\ round \in {"idle", "refresh", "audit"}
    /\ toRefresh \subseteq Peers
    /\ job \in [Jobs -> Job]
    /\ \A j \in Jobs : job[j].pc \in {"compress", "push"} => job[j].content \in Content
    /\ retryTimers \subseteq Peers
    /\ retrying \in [Peers -> Content \cup {None}]
    /\ enabled \subseteq Peers
    /\ known \in [Peers -> Content \cup {None, Undefined}]
    /\ applied \in [Peers -> Content \cup {None, Mixed}]
    /\ satHash \in [Peers -> Content \cup {None}]
    /\ budget \in [Kinds -> Nat]

Init ==
    /\ source \in Content
    /\ watch = "connecting" /\ eventDue = FALSE /\ gen = 0
    /\ phase = "up" /\ revision = 0 /\ pending = FALSE
    /\ lastHash = None /\ cache = None
    /\ eventTimer = FALSE /\ trailing = FALSE
    /\ initialTimer = AutoSync /\ periodicTimer = AutoSync
    /\ round = "idle" /\ toRefresh = {}
    /\ job = [j \in Jobs |-> IdleJob]
    /\ retryTimers = {} /\ retrying = [p \in Peers |-> None]
    /\ enabled = Peers
    /\ known = [p \in Peers |-> None]
    /\ applied = [p \in Peers |-> None]
    /\ satHash = [p \in Peers |-> None]
    /\ budget \in Limits

Spend(kind) == budget[kind] > 0 /\ budget' = [budget EXCEPT ![kind] = @ - 1]

-----------------------------------------------------------------------------
(* syncNow.  Each operator gives the next value of syncVars; timer is the   *)
(* value the caller leaves in eventTimer.                                   *)

\* #scheduleEventSync: whether a timer is armed after the call.
ArmsEventTimer(pend) == AutoSync /\ pend

\* Faulty variant: the finally block does not reschedule.
FinishWithoutTrailing(b, pend, timer) ==
    /\ pending' = pend
    /\ job' = [job EXCEPT !["sync"] = IdleJob]
    /\ eventTimer' = timer
    /\ UNCHANGED trailing

\* The finally block, after the body left pend in pending_changes.
Finish(b, pend, timer) ==
    LET reschedules == ~b.dry /\ (trailing \/ revision # b.rev) IN
    /\ pending' = pend
    /\ job' = [job EXCEPT !["sync"] = IdleJob]
    /\ trailing' = (trailing /\ ~reschedules)
    /\ eventTimer' = IF reschedules THEN ArmsEventTimer(pend) ELSE timer

\* The snapshot of b is there: compare its hash, then choose the peers.
Decide(b, timer) ==
    LET unchanged == ~b.dry /\ ~b.force /\ b.content = lastHash
        targets   == {p \in enabled : b.only \in {None, p}}
        missing   == b.only # None /\ targets = {}
    IN  \/ unchanged /\ Finish(b, revision # b.rev, timer)
        \/ ~unchanged /\ missing /\ Finish(b, pending, timer)
        \/ /\ ~unchanged /\ ~missing
           /\ job' = [job EXCEPT !["sync"] = [b EXCEPT !.pc = "push", !.todo = targets]]
           /\ eventTimer' = timer
           /\ UNCHANGED <<pending, trailing>>

NewJob(force, dry, only) ==
    [IdleJob EXCEPT !.pc = "read", !.force = force, !.dry = dry, !.only = only,
                    !.rev = revision, !.built = revision, !.gen = gen]

\* buildSnapshot: a build that is not forced takes the cache if there is one.
Begin(force, dry, reconcile, only, timer) ==
    LET b      == NewJob(force, dry, only)
        reuses == ~(force \/ reconcile \/ dry) /\ cache # None
    IN  \/ reuses /\ Decide([b EXCEPT !.content = cache.content, !.built = cache.rev,
                                       !.gen = cache.gen], timer)
        \/ /\ ~reuses
           /\ job' = [job EXCEPT !["sync"] = b]
           /\ eventTimer' = timer
           /\ UNCHANGED <<pending, trailing>>

\* loaded: #automaticLoadAllowed refuses an automatic synchronization.
SyncNow(force, dry, reconcile, only, timer, loaded) ==
    LET suppressed == ~dry /\ ~force /\ ~reconcile /\ ~pending
        deferred   == ~suppressed /\ ~dry /\ ~force /\ loaded
        busy       == ~suppressed /\ ~deferred /\ job["sync"].pc # "idle"
    IN  \/ suppressed /\ eventTimer' = timer /\ UNCHANGED <<pending, trailing, job>>
        \/ /\ deferred
           /\ eventTimer' = ArmsEventTimer(pending)
           /\ UNCHANGED <<pending, trailing, job>>
        \/ /\ busy
           /\ trailing' = (trailing \/ (~dry /\ pending))
           /\ eventTimer' = timer
           /\ UNCHANGED <<pending, job>>
        \/ /\ ~suppressed /\ ~deferred /\ ~busy
           /\ Begin(force, dry, reconcile, only, timer)

\* What goes wrong uses up a failure; what goes well is free.
FailsIf(fails) == IF fails THEN Spend("failure") ELSE UNCHANGED budget

-----------------------------------------------------------------------------
(* The Core and its watcher.                                                *)

\* stop() has asked the watcher to stop and waits for it.
Stopping == phase = "stopping"

CoreEdit(s) ==
    /\ \E e \in Edits : e[1] = source[s] /\ source' = [source EXCEPT ![s] = e[2]]
    /\ eventDue' = (eventDue \/ watch \in {"live", "late"})
    /\ Spend("edit")
    /\ UNCHANGED <<watch, gen, syncVars, roundVars, retryVars, satVars, phase, revision,
                   lastHash, cache, initialTimer, enabled, known>>

\* The event stream closes, or the first connection fails.
WatchDrops ==
    /\ watch \in {"live", "connecting", "late"}
    /\ watch' = IF Stopping THEN "off" ELSE "lost"
    /\ Spend("failure")
    /\ UNCHANGED <<source, eventDue, gen, syncVars, roundVars, retryVars, satVars, phase,
                   revision, lastHash, cache, initialTimer, enabled, known>>

\* run() of a stopped watcher ends: it was asleep, or its attempt fails.
WatchEnds ==
    /\ Stopping /\ watch \in {"connecting", "lost"}
    /\ watch' = "off"
    /\ UNCHANGED <<source, eventDue, gen, syncVars, roundVars, retryVars, satVars, phase,
                   revision, lastHash, cache, initialTimer, enabled, known, budget>>

\* watcher.stop() closes nothing while there is no connection yet: the attempt may
\* still succeed, and run() then listens until the session ends.
Connected == IF Stopping THEN "late" ELSE "live"

\* The first connection of a watcher: attempt is 0, reconnectCallback is not called.
WatchConnects ==
    /\ watch = "connecting"
    /\ watch' = Connected /\ gen' = gen + 1
    /\ UNCHANGED <<source, eventDue, syncVars, roundVars, retryVars, satVars, phase, revision,
                   lastHash, cache, initialTimer, enabled, known, budget>>

\* Faulty variant: the revision is not counted up.
NoteChangeUncounted ==
    /\ cache' = None
    /\ pending' = TRUE
    /\ eventTimer' = ArmsEventTimer(TRUE)
    /\ UNCHANGED revision

\* What both the event batch and the reconnect callback do.
NoteChange ==
    /\ revision' = revision + 1
    /\ cache' = None
    /\ pending' = TRUE
    /\ eventTimer' = ArmsEventTimer(TRUE)

WatchReconnects ==
    /\ watch = "lost"
    /\ watch' = Connected
    /\ NoteChange
    /\ UNCHANGED <<source, eventDue, gen, trailing, job, roundVars, retryVars, satVars, phase,
                   lastHash, initialTimer, enabled, known, budget>>

\* #flush of the watcher, then #configurationEvents.
ConfigurationEvents ==
    /\ eventDue /\ eventDue' = FALSE
    /\ IF AutoSync THEN NoteChange
                   ELSE UNCHANGED <<revision, cache, pending, eventTimer>>
    /\ UNCHANGED <<source, watch, gen, trailing, job, roundVars, retryVars, satVars, phase,
                   lastHash, initialTimer, enabled, known, budget>>

-----------------------------------------------------------------------------
(* Timers and requests that call syncNow.                                   *)

EventTimerFires(loaded) ==
    /\ eventTimer
    /\ IF job["sync"].pc # "idle"
       THEN trailing' = TRUE /\ eventTimer' = FALSE /\ UNCHANGED <<pending, job>>
       ELSE SyncNow(FALSE, FALSE, FALSE, None, FALSE, loaded)
    /\ FailsIf(loaded)
    /\ UNCHANGED <<coreVars, roundVars, retryVars, satVars, phase, revision, lastHash, cache,
                   initialTimer, enabled, known>>

InitialTimerFires ==
    /\ initialTimer /\ initialTimer' = FALSE
    /\ SyncNow(TRUE, FALSE, FALSE, None, eventTimer, FALSE)
    /\ UNCHANGED <<coreVars, roundVars, retryVars, satVars, phase, revision, lastHash, cache,
                   enabled, known, budget>>

\* POST /v1/sync, the dashboard's buttons, and action "preview".
RequestSync(force, dry, only, loaded) ==
    /\ phase # "down"
    /\ SyncNow(force, dry, FALSE, only, eventTimer, loaded)
    /\ Spend("request")
    /\ UNCHANGED <<coreVars, roundVars, retryVars, satVars, phase, revision, lastHash, cache,
                   initialTimer, enabled, known>>

-----------------------------------------------------------------------------
(* Builds: SnapshotBuilder.build and SyncCoordinator.buildSnapshot.         *)

\* Action "sync" of the SatelliteManager: syncSinglePeer takes no lock.
RequestManualSync(p) ==
    /\ phase # "down" /\ job["manual"].pc = "idle"
    /\ job' = [job EXCEPT !["manual"] = NewJob(TRUE, FALSE, p)]
    /\ Spend("request")
    /\ UNCHANGED <<coreVars, pending, eventTimer, trailing, roundVars, retryVars, satVars,
                   phase, revision, lastHash, cache, initialTimer, enabled, known>>

\* shouldAbort: only a build that is neither forced nor a preview gives way.
Superseded(b) == ~b.force /\ ~b.dry /\ revision # b.rev

\* Faulty variant: the build reads one group too many.
BuildReadsTooFar(j) ==
    /\ job[j].pc = "read" /\ ~Superseded(job[j])
    /\ job' = [job EXCEPT ![j].at = @ + 1]
    /\ UNCHANGED <<coreVars, pending, eventTimer, trailing, roundVars, retryVars, satVars,
                   phase, revision, lastHash, cache, initialTimer, enabled, known, budget>>

\* The reads up to the next #checkpoint are answered, and #checkpoint runs.
BuildReads(j) ==
    LET b == job[j]
        r == [b EXCEPT !.content[b.at] = source[b.at]]
    IN  /\ b.pc = "read"
        /\ \/ Superseded(b) /\ Finish(b, TRUE, eventTimer)
           \/ /\ ~Superseded(b)
              /\ job' = [job EXCEPT ![j] = IF b.at = NumSections
                                            THEN [r EXCEPT !.pc = "compress"]
                                            ELSE [r EXCEPT !.at = b.at + 1]]
              /\ UNCHANGED <<pending, eventTimer, trailing>>
        /\ UNCHANGED <<coreVars, roundVars, retryVars, satVars, phase, revision, lastHash,
                       cache, initialTimer, enabled, known, budget>>

\* A request to the Core fails, or the snapshot exceeds a limit.
BuildFails(j) ==
    /\ job[j].pc \in {"read", "compress"}
    /\ IF j = "sync" THEN Finish(job[j], pending, eventTimer)
       ELSE /\ job' = [job EXCEPT ![j] = IdleJob]
            /\ UNCHANGED <<pending, eventTimer, trailing>>
    /\ Spend("failure")
    /\ UNCHANGED <<coreVars, roundVars, retryVars, satVars, phase, revision, lastHash, cache,
                   initialTimer, enabled, known>>

\* gzip is done: the snapshot becomes the cache, whatever happened meanwhile.
BuildCompletes(j) ==
    LET b == job[j] IN
    /\ b.pc = "compress"
    /\ cache' = [content |-> b.content, rev |-> b.rev, gen |-> b.gen]
    /\ IF j = "sync" THEN Decide(b, eventTimer)
       ELSE /\ job' = [job EXCEPT ![j].pc = "push", ![j].todo = {b.only}]
            /\ UNCHANGED <<pending, eventTimer, trailing>>
    /\ UNCHANGED <<coreVars, roundVars, retryVars, satVars, phase, revision, lastHash,
                   initialTimer, enabled, known, budget>>

-----------------------------------------------------------------------------
(* Pushes.                                                                  *)

\* What a push of c leaves on Satellite p.  "lost": applied, the answer was not
\* received; "partial": some objects were written, then the application failed.
Deliver(p, c, outcome) ==
    /\ outcome \in Outcomes
    /\ FailsIf(outcome # "ok")
    /\ applied' = CASE outcome \in {"ok", "lost"} -> [applied EXCEPT ![p] = c]
                    [] outcome = "partial" /\ applied[p] # c -> [applied EXCEPT ![p] = Mixed]
                    [] OTHER -> applied
    /\ satHash' = IF outcome \in {"ok", "lost"} THEN [satHash EXCEPT ![p] = c] ELSE satHash

\* #schedulePeerRetry: a timer that exists is kept.
ScheduleRetry(ps) == retryTimers' = IF AutoSync THEN retryTimers \cup ps ELSE retryTimers

\* One turn of syncNow's loop over the peers.
SyncPushes(p, outcome) ==
    LET b  == job["sync"]
        ok == outcome = "ok"
    IN  /\ b.pc = "push" /\ p \in b.todo /\ ~b.dry
        /\ Deliver(p, b.content, outcome)
        /\ known' = [known EXCEPT ![p] = IF ok THEN b.content ELSE Undefined]
        /\ ScheduleRetry(IF ok THEN {} ELSE {p})
        /\ job' = [job EXCEPT !["sync"].todo = b.todo \ {p}, !["sync"].ok = b.ok /\ ok]
        /\ UNCHANGED <<coreVars, pending, eventTimer, trailing, roundVars, retrying, phase,
                       revision, lastHash, cache, initialTimer, enabled>>

\* The same turn of a preview: nothing is applied, the hash is recorded all the same.
SyncPreviews(p, ok) ==
    LET b == job["sync"] IN
    /\ b.pc = "push" /\ p \in b.todo /\ b.dry
    /\ known' = [known EXCEPT ![p] = IF ok THEN b.content ELSE Undefined]
    /\ job' = [job EXCEPT !["sync"].todo = b.todo \ {p}, !["sync"].ok = b.ok /\ ok]
    /\ FailsIf(~ok)
    /\ UNCHANGED <<coreVars, pending, eventTimer, trailing, roundVars, retryVars, satVars,
                   phase, revision, lastHash, cache, initialTimer, enabled>>

\* Faulty variant: success clears pending_changes whatever the revision is.
SyncConcludesBlindly ==
    LET b == job["sync"] IN
    /\ b.pc = "push" /\ b.todo = {} /\ ~b.dry /\ b.ok
    /\ Finish(b, FALSE, eventTimer) /\ lastHash' = b.content
    /\ UNCHANGED <<coreVars, roundVars, retryVars, satVars, phase, revision, cache,
                   initialTimer, enabled, known, budget>>

\* After the loop: the verdict and the finally block.
SyncConcludes ==
    LET b == job["sync"] IN
    /\ b.pc = "push" /\ b.todo = {}
    /\ \/ b.dry /\ Finish(b, pending, eventTimer) /\ UNCHANGED lastHash
       \/ ~b.dry /\ b.ok /\ Finish(b, revision # b.rev, eventTimer) /\ lastHash' = b.content
       \/ ~b.dry /\ ~b.ok /\ Finish(b, TRUE, eventTimer) /\ UNCHANGED lastHash
    /\ UNCHANGED <<coreVars, roundVars, retryVars, satVars, phase, revision, cache,
                   initialTimer, enabled, known, budget>>

\* syncSinglePeer records neither a hash nor a retry.
ManualPushes(outcome) ==
    LET b == job["manual"] IN
    /\ b.pc = "push"
    /\ Deliver(b.only, b.content, outcome)
    /\ job' = [job EXCEPT !["manual"] = IdleJob]
    /\ UNCHANGED <<coreVars, pending, eventTimer, trailing, roundVars, retryVars, phase,
                   revision, lastHash, cache, initialTimer, enabled, known>>

\* A retry timer fires: it pushes the cache, without the lock of syncNow.
RetryFires(p) ==
    /\ p \in retryTimers /\ retrying[p] = None
    /\ retryTimers' = retryTimers \ {p}
    /\ \/ p \notin enabled /\ UNCHANGED <<retrying, pending, eventTimer>>
       \/ /\ p \in enabled /\ cache = None
          /\ pending' = TRUE /\ eventTimer' = ArmsEventTimer(TRUE)
          /\ UNCHANGED retrying
       \/ /\ p \in enabled /\ cache # None
          /\ retrying' = [retrying EXCEPT ![p] = cache.content]
          /\ UNCHANGED <<pending, eventTimer>>
    /\ UNCHANGED <<coreVars, trailing, job, roundVars, satVars, phase, revision, lastHash,
                   cache, initialTimer, enabled, known, budget>>

RetryPushes(p, outcome) ==
    /\ retrying[p] # None
    /\ Deliver(p, retrying[p], outcome)
    /\ retrying' = [retrying EXCEPT ![p] = None]
    /\ known' = IF outcome = "ok" THEN [known EXCEPT ![p] = retrying[p]] ELSE known
    /\ ScheduleRetry(IF outcome = "ok" THEN {} ELSE {p})
    /\ UNCHANGED <<coreVars, syncVars, roundVars, phase, revision, lastHash, cache,
                   initialTimer, enabled>>

-----------------------------------------------------------------------------
(* The periodic callback.                                                   *)

PeriodicFires ==
    /\ periodicTimer /\ round = "idle"
    /\ periodicTimer' = FALSE /\ round' = "refresh" /\ toRefresh' = Peers
    /\ UNCHANGED <<coreVars, syncVars, retryVars, satVars, phase, revision, lastHash, cache,
                   initialTimer, enabled, known, budget>>

\* refresh() asks every peer, enabled or not, for its status.
Refreshes(p, reachable) ==
    /\ round = "refresh" /\ p \in toRefresh
    /\ toRefresh' = toRefresh \ {p}
    /\ known' = IF reachable THEN [known EXCEPT ![p] = satHash[p]] ELSE known
    /\ FailsIf(~reachable)
    /\ UNCHANGED <<coreVars, syncVars, periodicTimer, round, retryVars, satVars, phase,
                   revision, lastHash, cache, initialTimer, enabled>>

Stale == {p \in enabled : known[p] # lastHash}

\* Faulty variant: the daily audit does not ask for a new build.
RoundEndsWithoutReconcile(audit, loaded) ==
    /\ round = "refresh" /\ toRefresh = {}
    /\ ScheduleRetry(Stale)
    /\ round' = "audit"
    /\ SyncNow(FALSE, FALSE, FALSE, None, eventTimer, loaded)
    /\ FailsIf(loaded)
    /\ UNCHANGED <<coreVars, periodicTimer, toRefresh, retrying, satVars, phase, revision,
                   lastHash, cache, initialTimer, enabled, known>>

\* All have answered: retry the stale ones; once a day, audit.
RoundEnds(audit, loaded) ==
    /\ round = "refresh" /\ toRefresh = {}
    /\ ScheduleRetry(Stale)
    /\ \/ /\ audit /\ round' = "audit"
          /\ SyncNow(FALSE, FALSE, TRUE, None, eventTimer, loaded)
          /\ FailsIf(loaded)
          /\ UNCHANGED periodicTimer
       \/ /\ ~audit /\ ~loaded /\ round' = "idle" /\ periodicTimer' = AutoSync
          /\ UNCHANGED <<syncVars, budget>>
    /\ UNCHANGED <<coreVars, toRefresh, retrying, satVars, phase, revision, lastHash, cache,
                   initialTimer, enabled, known>>

\* The awaited syncNow is over: #schedulePeriodic.
AuditEnds ==
    /\ round = "audit" /\ job["sync"].pc = "idle"
    /\ round' = "idle" /\ periodicTimer' = AutoSync
    /\ UNCHANGED <<coreVars, syncVars, toRefresh, retryVars, satVars, phase, revision,
                   lastHash, cache, initialTimer, enabled, known, budget>>

-----------------------------------------------------------------------------
(* Settings and lifecycle.                                                  *)

\* Actions "enable" and "disable" of the SatelliteManager: nothing is scheduled.
Toggle(p) ==
    /\ phase # "down"
    /\ enabled' = IF p \in enabled THEN enabled \ {p} ELSE enabled \cup {p}
    /\ Spend("request")
    /\ UNCHANGED <<coreVars, syncVars, roundVars, retryVars, satVars, phase, revision,
                   lastHash, cache, initialTimer, known>>

\* What stop() clears at once.  A running build, a push and the cache survive it.
StopTimers ==
    /\ eventTimer' = FALSE /\ initialTimer' = FALSE /\ periodicTimer' = FALSE
    /\ trailing' = FALSE /\ eventDue' = FALSE

\* configure() begins with stop(), which waits for the watcher first.
Stop ==
    /\ phase = "up" /\ phase' = "stopping"
    /\ StopTimers
    /\ watch' = IF watch = "live" THEN "off" ELSE watch
    /\ Spend("restart")
    /\ UNCHANGED <<source, gen, revision, pending, lastHash, cache, job, round, toRefresh,
                   retryVars, satVars, enabled, known>>

\* Next it waits for server.close() of the agent, which a tunnel that nobody closes
\* keeps waiting ("held").
WatcherStopped ==
    /\ phase = "stopping" /\ watch = "off"
    /\ phase' \in {"closing", "held"}
    /\ retryTimers' = {}
    /\ UNCHANGED <<coreVars, syncVars, roundVars, retrying, satVars, revision, lastHash,
                   cache, initialTimer, enabled, known, budget>>

\* The tunnel ends after all.
TunnelEnds ==
    /\ phase = "held" /\ phase' = "closing"
    /\ UNCHANGED <<coreVars, syncVars, roundVars, retryVars, satVars, revision, lastHash,
                   cache, initialTimer, enabled, known, budget>>

\* The process dies: only the files survive.  (A push that still lands is one whose
\* outcome was "lost", just before.)
Crash ==
    /\ phase' = "down" /\ watch' = "off"
    /\ StopTimers
    /\ Spend("restart")
    /\ revision' = 0 /\ cache' = None /\ pending' = FALSE /\ lastHash' = None
    /\ job' = [j \in Jobs |-> IdleJob]
    /\ round' = "idle" /\ toRefresh' = {}
    /\ retryTimers' = {} /\ retrying' = [p \in Peers |-> None]
    /\ known' = [p \in Peers |-> IF known[p] = Undefined THEN None ELSE known[p]]
    /\ UNCHANGED <<source, gen, satVars, enabled>>

\* stop() is over, or a new process begins: a new status and client, the agent starts.
Configure ==
    /\ phase \in {"closing", "down"} /\ phase' = "starting"
    /\ pending' = FALSE /\ lastHash' = None
    /\ UNCHANGED <<coreVars, eventTimer, trailing, job, roundVars, retryVars, satVars,
                   revision, cache, initialTimer, enabled, known, budget>>

\* Faulty variant: configure() forgets #schedulePeriodic.
StartedWithoutPeriodic ==
    /\ phase = "starting" /\ phase' = "up"
    /\ watch' = "connecting" /\ initialTimer' = AutoSync
    /\ UNCHANGED <<source, eventDue, gen, syncVars, roundVars, retryVars, satVars, revision,
                   lastHash, cache, enabled, known, budget>>

\* client.ready() has answered: a new watcher and the first timers.
Started ==
    /\ phase = "starting" /\ phase' = "up"
    /\ watch' = "connecting"
    /\ initialTimer' = AutoSync /\ periodicTimer' = AutoSync
    /\ UNCHANGED <<source, eventDue, gen, syncVars, round, toRefresh, retryVars, satVars,
                   revision, lastHash, cache, enabled, known, budget>>

-----------------------------------------------------------------------------

Environment ==
    \/ \E s \in Sections : CoreEdit(s)
    \/ WatchDrops
    \/ \E force, dry, loaded \in BOOLEAN, only \in Peers \cup {None} :
           RequestSync(force, dry, only, loaded)
    \/ \E p \in Peers : RequestManualSync(p) \/ Toggle(p)
    \/ \E j \in Jobs : BuildFails(j)
    \/ Stop \/ TunnelEnds \/ Crash

Watching == WatchConnects \/ WatchReconnects \/ WatchEnds \/ ConfigurationEvents

Syncing ==
    \/ BuildReads("sync") \/ BuildCompletes("sync") \/ SyncConcludes
    \/ \E p \in Peers : (\E o \in Outcomes : SyncPushes(p, o)) \/ (\E ok \in BOOLEAN : SyncPreviews(p, ok))

ManualSync ==
    \/ BuildReads("manual") \/ BuildCompletes("manual")
    \/ \E o \in Outcomes : ManualPushes(o)

Retrying(p) == RetryFires(p) \/ \E o \in Outcomes : RetryPushes(p, o)

Periodic ==
    \/ PeriodicFires \/ AuditEnds
    \/ \E p \in Peers, reachable \in BOOLEAN : Refreshes(p, reachable)
    \/ \E audit, loaded \in BOOLEAN : RoundEnds(audit, loaded)

Next ==
    \/ Environment \/ Watching \/ Syncing \/ ManualSync \/ Periodic
    \/ InitialTimerFires \/ WatcherStopped \/ Configure \/ Started
    \/ \E loaded \in BOOLEAN : EventTimerFires(loaded)
    \/ \E p \in Peers : Retrying(p)

Spec == Init /\ [][Next]_vars

\* An armed timer fires, an awaited call returns; 24 hours pass again and again.
Fairness ==
    /\ WF_vars(WatchConnects) /\ WF_vars(WatchReconnects) /\ WF_vars(WatchEnds)
    /\ WF_vars(ConfigurationEvents)
    /\ WF_vars(\E loaded \in BOOLEAN : EventTimerFires(loaded))
    /\ WF_vars(InitialTimerFires) /\ WF_vars(WatcherStopped)
    /\ WF_vars(Configure) /\ WF_vars(Started)
    /\ WF_vars(Syncing) /\ WF_vars(ManualSync) /\ WF_vars(Periodic)
    /\ SF_vars(\E loaded \in BOOLEAN : RoundEnds(TRUE, loaded))
    /\ \A p \in Peers : WF_vars(Retrying(p))

FairSpec == Spec /\ Fairness

-----------------------------------------------------------------------------
(* Properties.                                                              *)

\* A change of the Core the Primary has not been told of yet.
Owed == eventDue \/ watch # "live"

\* The first upto - 1 groups of a snapshot started at revision r in the
\* watcher's generation g are what the Core holds, unless a change is owed.
Covers(r, g, content, upto) ==
    (r = revision /\ g = gen /\ ~Owed) =>
        \A s \in Sections : s < upto => content[s] = source[s]

\* A build is spread over many requests and the Core may be edited between any
\* two of them.  As long as the revision a build was started with is current and
\* no event is outstanding, what has been read, and the cache, is current:
\* comparing revisions is enough to recognise torn and outdated snapshots
\* (service/index.js syncNow, sync-coordinator.js buildSnapshot).
SnapshotCoverage ==
    /\ cache # None => Covers(cache.rev, cache.gen, cache.content, NumSections + 1)
    /\ \A j \in Jobs : job[j].pc # "idle" =>
          Covers(job[j].built, job[j].gen, job[j].content,
                 IF job[j].pc = "read" THEN job[j].at ELSE NumSections + 1)

\* The snapshot by which a step of syncNow decides: the one of the synchronization in
\* progress, or the cache, if it begins and ends in this step.
Decisive ==
    IF job["sync"].pc # "idle" THEN job["sync"]
    ELSE [IdleJob EXCEPT !.rev = revision, !.built = cache.rev, !.gen = cache.gen,
                         !.content = cache.content]

\* When a synchronization resets pending_changes, its snapshot is what the Core holds,
\* or an event is outstanding: no change made while it ran is written off, except in two
\* cases.  An event emptied the cache while a forced, previewed or manual build ran, and
\* the outdated build became the cache after it and was taken for current; or the
\* snapshot is from before the watcher's first connection, of which nobody is told
\* (service/index.js:317 and :403, sync-coordinator.js:47).
ClearedMeansCurrent ==
    [][ (pending /\ ~pending' /\ ~Owed /\ phase = "up" /\ phase' = "up") =>
            \/ Decisive.content = source
            \/ Decisive.built < Decisive.rev
            \/ Decisive.gen < gen ]_vars

\* pending_changes is set, but no timer and no running synchronization leads
\* to an attempt to clear it.
Stranded ==
    /\ phase = "up" /\ AutoSync /\ pending
    /\ ~eventTimer /\ ~initialTimer
    /\ job["sync"].pc = "idle" \/ job["sync"].dry

\* Pending changes lose their wake-up only because a preview held the lock when
\* the event timer fired, a build failed, a delivery failed, or a request named a
\* Satellite that is not enabled: the timer, the trailing flag and the finally
\* block of syncNow cover every other interleaving.
OnlyFailuresStrand ==
    [][ (~Stranded /\ Stranded') =>
            \/ job["sync"].dry \/ ~job["sync"].ok \/ BuildFails("sync")
            \/ job["sync"].only \notin enabled \cup {None} ]_vars

\* When the user stops editing and the network stops failing, every enabled
\* Satellite ends up with what the Core holds, and nothing is left pending: the
\* periodic refresh and the daily audit repair what events and retries missed.  A
\* reconfiguration may hang, and only then does this fail: on a watcher that
\* connected after it was stopped, or on a tunnel that keeps the agent's server open.
Converged == ~pending /\ \A p \in enabled : applied[p] = source
Convergence == <>[](watch = "late") \/ <>[](phase = "held") \/ <>[]Converged
=============================================================================
