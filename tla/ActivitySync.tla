---------------------------- MODULE ActivitySync ----------------------------
(***************************************************************************)
(* How the on/off state of an activity travels between the Primary and the *)
(* Satellites that mirror it: src/src/service/activity-sync.js.            *)
(*                                                                         *)
(* The Primary turns events of its Core into numbered updates and posts    *)
(* them to one Satellite after the other; several such rounds may overlap. *)
(* A Satellite applies the updates of an activity one at a time and drops  *)
(* those that are not newer than what it applied.  Its copy of the         *)
(* activity consists of a relay step, so that both a user's press and an   *)
(* applied update call back; the latter is suppressed.                     *)
(*                                                                         *)
(* One activity is modelled, and an action is the code between two awaits. *)
(***************************************************************************)
EXTENDS Integers, Sequences, FiniteSets

CONSTANTS
    Order,       \* the enabled Satellites, in the order of config.peers
    MaxTasks,    \* bound: rounds of pushes in progress at one time
    Limits,      \* bound: how many disturbances of each kind there are
    Stateless,   \* entity_change events may leave out the new state
    None         \* an absent map entry

Satellites == {Order[i] : i \in DOMAIN Order}
TaskIds == 1..MaxTasks
Kinds == {"change", "press", "initialize", "failure", "restart"}
States == {"ON", "OFF"}

ASSUME ConstantsAssumption ==
    /\ Order \in Seq(Satellites)
    /\ MaxTasks \in Nat
    /\ Stateless \in BOOLEAN
    /\ Limits \in [Kinds -> Nat]
    /\ None \notin States

VARIABLES
    \* The Primary's Core and the events it sent.
    core,          \* state of the activity
    changes,       \* auxiliary: how often that state changed
    listening,     \* the watcher's WebSocket is connected
    events,        \* entity_change events under way, oldest first
    snapshot,      \* the state the cached snapshot recorded
    \* ActivitySyncManager on the Primary.
    epoch,         \* sourceEpoch
    revision,      \* stateRevisions
    observed,      \* lastObservedStates
    lastPushed,    \* lastPushedStates, by Satellite
    tasks,         \* calls of broadcast and initialize in progress
    sent,          \* requests that have not reached their Satellite
    overlapped,    \* auxiliary: Satellites that two rounds of pushes had to serve
    \* ActivitySyncManager and Core of each Satellite.
    actual,        \* state of the mirrored activity
    applied,       \* appliedStateVersions (state and seen are auxiliary)
    queue,         \* applyQueues: requests being applied, in turn
    phase,         \* where applying the first of them is
    suppressed,    \* relaySuppressions that have not expired
    relays,        \* relay steps the Core has yet to run
    touched,       \* auxiliary: a press or a failed command came after the last update
    collapsed,     \* auxiliary: one suppression had to stand for two relay steps
    budget         \* disturbances left, by kind

primaryVars == <<core, changes, listening, events, snapshot,
                 epoch, revision, observed, lastPushed>>
satelliteVars == <<actual, applied, queue, phase, suppressed, relays, touched, collapsed>>
vars == <<primaryVars, tasks, sent, overlapped, satelliteVars, budget>>

IdleTask == [stage |-> "idle", update |-> None, rest |-> <<>>]

Init ==
    /\ core \in States
    /\ changes = 0
    /\ listening = TRUE
    /\ events = <<>>
    /\ snapshot = [state |-> core, seen |-> 0]
    /\ epoch = 0
    /\ revision = 0
    /\ observed = None
    /\ lastPushed = [p \in Satellites |-> None]
    /\ tasks = [t \in TaskIds |-> IdleTask]
    /\ sent = {}
    /\ overlapped = {}
    /\ actual = [p \in Satellites |-> core]
    /\ applied = [p \in Satellites |-> None]
    /\ queue = [p \in Satellites |-> <<>>]
    /\ phase = [p \in Satellites |-> "idle"]
    /\ suppressed = [p \in Satellites |-> {}]
    /\ relays = [p \in Satellites |-> <<>>]
    /\ touched = [p \in Satellites |-> FALSE]
    /\ collapsed = FALSE
    /\ budget = Limits

Spend(kind) ==
    /\ budget[kind] > 0
    /\ budget' = [budget EXCEPT ![kind] = @ - 1]

-----------------------------------------------------------------------------
(* The Primary: events in, updates out.                                    *)

\* The Core's activity becomes s.  An event may leave the state out, then
\* broadcast() asks the Core for it.
CoreBecomes(s) ==
    /\ core' = s
    /\ IF s = core
         THEN UNCHANGED <<changes, events>>
         ELSE /\ changes' = changes + 1
              /\ \/ /\ listening
                    /\ \E told \in {s} \cup (IF Stateless THEN {None} ELSE {}) :
                         events' = Append(events, [state |-> told, seen |-> changes'])
                 \/ /\ ~listening
                    /\ UNCHANGED events
    /\ UNCHANGED <<listening, snapshot, epoch, revision, observed, lastPushed>>

CoreChanges ==
    /\ Spend("change")
    /\ \E s \in States \ {core} : CoreBecomes(s)
    /\ UNCHANGED <<tasks, sent, overlapped, satelliteVars>>

Stamp(state, seen) ==
    [state |-> state, epoch |-> epoch, revision |-> revision + 1, seen |-> seen]

\* #push returns at once for the first k peers: the state is the last they got.
Skips(state, peers, k) ==
    /\ \A i \in 1..k : lastPushed[peers[i]] = state
    /\ k < Len(peers) => lastPushed[peers[k + 1]] # state

\* Task t goes on with its loop over peers, to the first that needs update u.
Advance(t, u, peers) ==
    LET elsewhere == UNION {{tasks[i].rest[k] : k \in DOMAIN tasks[i].rest} : i \in TaskIds \ {t}}
    IN  /\ overlapped' = overlapped \cup (elsewhere \cap {peers[k] : k \in DOMAIN peers})
        /\ \E k \in 0..Len(peers) :
             /\ Skips(u.state, peers, k)
             /\ IF k = Len(peers)
                THEN /\ tasks' = [tasks EXCEPT ![t] = IdleTask]
                     /\ UNCHANGED sent
                ELSE /\ tasks' = [tasks EXCEPT ![t] =
                             [stage |-> "waiting", update |-> u, rest |-> SubSeq(peers, k + 1, Len(peers))]]
                     /\ sent' = sent \cup {[to |-> peers[k + 1], update |-> u, task |-> t]}

\* broadcast() once the state is known.
Observe(t, state, seen) ==
    IF state = observed
    THEN /\ tasks' = [tasks EXCEPT ![t] = IdleTask]
         /\ UNCHANGED <<observed, revision, sent, overlapped>>
    ELSE /\ observed' = state
         /\ revision' = revision + 1
         /\ Advance(t, Stamp(state, seen), Order)

\* The least idle task: which one runs a call does not matter.
IsFree(t) ==
    /\ tasks[t].stage = "idle"
    /\ \A i \in 1..(t - 1) : tasks[i].stage # "idle"

HandleEvent(t) ==
    /\ events # <<>>
    /\ IsFree(t)
    /\ events' = Tail(events)
    /\ LET event == Head(events)
       IN  IF event.state # None
           THEN Observe(t, event.state, event.seen)
           ELSE /\ tasks' = [tasks EXCEPT ![t].stage = "reading"]
                /\ UNCHANGED <<observed, revision, sent, overlapped>>
    /\ UNCHANGED <<core, changes, listening, snapshot, epoch, lastPushed, satelliteVars, budget>>

CoreAnswers(t) ==
    /\ tasks[t].stage = "reading"
    /\ tasks' = [tasks EXCEPT ![t] = [stage |-> "read", update |-> Stamp(core, changes), rest |-> <<>>]]
    /\ UNCHANGED <<primaryVars, sent, overlapped, satelliteVars, budget>>

CoreFailsToAnswer(t) ==
    /\ tasks[t].stage = "reading"
    /\ Spend("failure")
    /\ tasks' = [tasks EXCEPT ![t] = IdleTask]
    /\ UNCHANGED <<primaryVars, sent, overlapped, satelliteVars>>

StateRead(t) ==
    /\ tasks[t].stage = "read"
    /\ Observe(t, tasks[t].update.state, tasks[t].update.seen)
    /\ UNCHANGED <<core, changes, listening, events, snapshot, epoch, lastPushed, satelliteVars, budget>>

SnapshotReads ==
    /\ budget["initialize"] > 0
    /\ snapshot' = [state |-> core, seen |-> changes]
    /\ UNCHANGED <<core, changes, listening, events, epoch, revision, observed, lastPushed,
                   tasks, sent, overlapped, satelliteVars, budget>>

\* After a snapshot was pushed to p: the state it recorded, as a new revision.
Initialize(p, t) ==
    /\ Spend("initialize")
    /\ IsFree(t)
    /\ revision' = revision + 1
    /\ Advance(t, Stamp(snapshot.state, snapshot.seen), <<p>>)
    /\ UNCHANGED <<core, changes, listening, events, snapshot, epoch, observed, lastPushed, satelliteVars>>

\* The answer to a push arrives, "ok" or not, and the loop goes on.
PushReturns(t) ==
    LET task == tasks[t]
    IN  /\ task.stage \in {"ok", "failed"}
        /\ lastPushed' = IF task.stage = "ok"
                         THEN [lastPushed EXCEPT ![task.rest[1]] = task.update.state]
                         ELSE lastPushed
        /\ Advance(t, task.update, Tail(task.rest))
        /\ UNCHANGED <<core, changes, listening, events, snapshot, epoch, revision, observed, satelliteVars, budget>>

\* The requests of tasks whose answer nobody waits for any more have task 0.
Orphaned(ts, request) ==
    IF request.task \in ts THEN [request EXCEPT !.task = 0] ELSE request

Abandon(ts) ==
    /\ sent' = {Orphaned(ts, m) : m \in sent}
    /\ queue' = [p \in Satellites |-> [i \in DOMAIN queue[p] |-> Orphaned(ts, queue[p][i])]]

\* After 10 s the request is aborted; what was sent may still be applied.
PushTimesOut(t) ==
    /\ tasks[t].stage = "waiting"
    /\ Spend("failure")
    /\ tasks' = [tasks EXCEPT ![t].stage = "failed"]
    /\ Abandon({t})
    /\ UNCHANGED <<primaryVars, overlapped, actual, applied, phase, suppressed, relays, touched, collapsed>>

RequestLost(m) ==
    /\ Spend("failure")
    /\ sent' = sent \ {m}
    /\ tasks' = IF m.task = 0 THEN tasks ELSE [tasks EXCEPT ![m.task].stage = "failed"]
    /\ UNCHANGED <<primaryVars, overlapped, satelliteVars>>

WatchDrops ==
    /\ Spend("failure")
    /\ listening
    /\ listening' = FALSE
    /\ events' = <<>>
    /\ UNCHANGED <<core, changes, snapshot, epoch, revision, observed, lastPushed,
                   tasks, sent, overlapped, satelliteVars>>

WatchConnects ==
    /\ ~listening
    /\ listening' = TRUE
    /\ UNCHANGED <<core, changes, events, snapshot, epoch, revision, observed, lastPushed,
                   tasks, sent, overlapped, satelliteVars, budget>>

\* clear(), when the service is configured anew: the epoch stays.
Clear ==
    /\ revision' = 0
    /\ observed' = None
    /\ lastPushed' = [p \in Satellites |-> None]
    /\ listening' = FALSE
    /\ events' = <<>>
    /\ UNCHANGED <<core, changes, snapshot>>

PrimaryReconfigures ==
    /\ Spend("restart")
    /\ Clear
    /\ UNCHANGED <<epoch, tasks, sent, overlapped, satelliteVars>>

PrimaryRestarts ==
    /\ Spend("restart")
    /\ Clear
    /\ epoch' = epoch + 1
    /\ tasks' = [t \in TaskIds |-> IdleTask]
    /\ Abandon(TaskIds)
    /\ UNCHANGED <<overlapped, actual, applied, phase, suppressed, relays, touched, collapsed>>

-----------------------------------------------------------------------------
(* A Satellite: updates in, relays out.                                    *)

\* Faulty: the newest request is applied at once, before those in progress.
RequestJumpsQueue(m) ==
    /\ sent' = sent \ {m}
    /\ queue' = [queue EXCEPT ![m.to] = <<m>> \o @]
    /\ UNCHANGED <<primaryVars, tasks, overlapped, actual, applied, phase, suppressed, relays, touched, collapsed, budget>>

RequestArrives(m) ==
    /\ sent' = sent \ {m}
    /\ queue' = [queue EXCEPT ![m.to] = Append(@, m)]
    /\ UNCHANGED <<primaryVars, tasks, overlapped, actual, applied, phase, suppressed, relays, touched, collapsed, budget>>

\* Faulty: revisions are not compared, every other update is new ...
IsStaleIfRepeated(p, u) ==
    /\ applied[p] # None
    /\ applied[p] = u

\* ... or every other update of the epoch is old.
IsStaleByEpoch(p, u) ==
    /\ applied[p] # None
    /\ applied[p].epoch = u.epoch

\* #isStaleVersion
IsStale(p, u) ==
    /\ applied[p] # None
    /\ applied[p].epoch = u.epoch
    /\ applied[p].revision >= u.revision

\* Faulty: what was in progress is taken to be in progress still.
AnswerOnly(p, result) ==
    LET t == Head(queue[p]).task
    IN  /\ queue' = [queue EXCEPT ![p] = Tail(@)]
        /\ tasks' = IF t = 0 THEN tasks ELSE [tasks EXCEPT ![t].stage = result]
        /\ UNCHANGED phase

\* #applyStateUpdate returns for the first request of p's queue.
Answer(p, result) ==
    LET t == Head(queue[p]).task
    IN  /\ queue' = [queue EXCEPT ![p] = Tail(@)]
        /\ phase' = [phase EXCEPT ![p] = "idle"]
        /\ tasks' = IF t = 0 THEN tasks ELSE [tasks EXCEPT ![t].stage = result]

RecordVersion(p, u) ==
    applied' = [applied EXCEPT ![p] = u]

\* #applyStateUpdate up to its answer or to executeEntityCommand.
Ignores(p, u) ==
    /\ IsStale(p, u)
    /\ Answer(p, "ok")
    /\ UNCHANGED <<applied, touched, suppressed, collapsed, budget>>

FindsApplied(p, u) ==
    /\ ~IsStale(p, u)
    /\ actual[p] = u.state
    /\ RecordVersion(p, u)
    /\ touched' = [touched EXCEPT ![p] = FALSE]
    /\ Answer(p, "ok")
    /\ UNCHANGED <<suppressed, collapsed, budget>>

\* Faulty: the relay step of the command is not suppressed.
CommandsUnsuppressed(p, u) ==
    /\ ~IsStale(p, u)
    /\ IF actual[p] = u.state THEN Spend("failure") ELSE UNCHANGED budget
    /\ phase' = [phase EXCEPT ![p] = "command"]
    /\ UNCHANGED <<queue, tasks, applied, touched, suppressed, collapsed>>

\* A Core that does not tell the state gets the command in any case.
Commands(p, u) ==
    /\ ~IsStale(p, u)
    /\ IF actual[p] = u.state THEN Spend("failure") ELSE UNCHANGED budget
    /\ suppressed' = [suppressed EXCEPT ![p] = @ \cup {u.state}]
    /\ collapsed' = (collapsed \/ u.state \in suppressed[p])
    /\ phase' = [phase EXCEPT ![p] = "command"]
    /\ UNCHANGED <<queue, tasks, applied, touched>>

Applies(p) ==
    /\ queue[p] # <<>>
    /\ phase[p] = "idle"
    /\ LET u == Head(queue[p]).update
       IN  Ignores(p, u) \/ FindsApplied(p, u) \/ Commands(p, u)
    /\ UNCHANGED <<primaryVars, sent, overlapped, actual, relays>>

\* The Core switches the activity and runs its sequence, a relay step.
Switches(p, s) ==
    /\ actual' = [actual EXCEPT ![p] = s]
    /\ relays' = [relays EXCEPT ![p] = Append(@, s)]

CommandRuns(p) ==
    /\ phase[p] = "command"
    /\ phase' = [phase EXCEPT ![p] = "run"]
    /\ Switches(p, Head(queue[p]).update.state)
    /\ touched' = [touched EXCEPT ![p] = FALSE]
    /\ UNCHANGED <<primaryVars, tasks, sent, overlapped, applied, queue, suppressed, collapsed, budget>>

CommandReturns(p) ==
    /\ phase[p] = "run"
    /\ RecordVersion(p, Head(queue[p]).update)
    /\ Answer(p, "ok")
    /\ UNCHANGED <<primaryVars, sent, overlapped, actual, suppressed, relays, touched, collapsed, budget>>

CommandFails(p) ==
    /\ phase[p] \in {"command", "run"}
    /\ Spend("failure")
    /\ suppressed' = [suppressed EXCEPT ![p] = @ \ {Head(queue[p]).update.state}]
    /\ touched' = [touched EXCEPT ![p] = TRUE]
    /\ Answer(p, "failed")
    /\ UNCHANGED <<primaryVars, sent, overlapped, actual, applied, relays, collapsed>>

UserPresses(p, s) ==
    /\ Spend("press")
    /\ Switches(p, s)
    /\ touched' = [touched EXCEPT ![p] = TRUE]
    /\ UNCHANGED <<primaryVars, tasks, sent, overlapped, applied, queue, phase, suppressed, collapsed>>

\* Faulty: a suppression lasts for its ten seconds.
ForwardsKeeping(p) ==
    /\ relays[p] # <<>>
    /\ relays' = [relays EXCEPT ![p] = Tail(@)]
    /\ IF Head(relays[p]) \in suppressed[p] THEN UNCHANGED primaryVars ELSE CoreBecomes(Head(relays[p]))
    /\ UNCHANGED <<tasks, sent, overlapped, actual, applied, queue, phase, suppressed, touched, collapsed, budget>>

\* forward(), with executeProxyCommand on the Primary.
Forwards(p) ==
    /\ relays[p] # <<>>
    /\ relays' = [relays EXCEPT ![p] = Tail(@)]
    /\ suppressed' = [suppressed EXCEPT ![p] = @ \ {Head(relays[p])}]
    /\ \/ /\ Head(relays[p]) \in suppressed[p]
          /\ UNCHANGED <<primaryVars, budget>>
       \/ /\ Head(relays[p]) \notin suppressed[p]
          /\ CoreBecomes(Head(relays[p]))
          /\ UNCHANGED budget
       \/ /\ Head(relays[p]) \notin suppressed[p]
          /\ Spend("failure")
          /\ UNCHANGED primaryVars
    /\ UNCHANGED <<tasks, sent, overlapped, actual, applied, queue, phase, touched, collapsed>>

\* Ten seconds pass before the relay step runs.
SuppressionExpires(p) ==
    /\ Spend("failure")
    /\ \E s \in suppressed[p] : suppressed' = [suppressed EXCEPT ![p] = @ \ {s}]
    /\ UNCHANGED <<primaryVars, tasks, sent, overlapped, actual, applied, queue, phase, relays, touched, collapsed>>

SatelliteRestarts(p) ==
    LET waiting == {queue[p][i].task : i \in DOMAIN queue[p]}
    IN  /\ Spend("restart")
        /\ applied' = [applied EXCEPT ![p] = None]
        /\ queue' = [queue EXCEPT ![p] = <<>>]
        /\ phase' = [phase EXCEPT ![p] = "idle"]
        /\ suppressed' = [suppressed EXCEPT ![p] = {}]
        /\ tasks' = [t \in TaskIds |-> IF t \in waiting THEN [tasks[t] EXCEPT !.stage = "failed"] ELSE tasks[t]]
        /\ UNCHANGED <<primaryVars, sent, overlapped, actual, relays, touched, collapsed>>

-----------------------------------------------------------------------------
Next ==
    \/ CoreChanges \/ SnapshotReads \/ WatchDrops \/ WatchConnects
    \/ PrimaryReconfigures \/ PrimaryRestarts
    \/ \E t \in TaskIds :
         \/ HandleEvent(t) \/ CoreAnswers(t) \/ CoreFailsToAnswer(t) \/ StateRead(t)
         \/ PushReturns(t) \/ PushTimesOut(t)
         \/ \E p \in Satellites : Initialize(p, t)
    \/ \E m \in sent : RequestArrives(m) \/ RequestLost(m)
    \/ \E p \in Satellites :
         \/ Applies(p) \/ CommandRuns(p) \/ CommandReturns(p) \/ CommandFails(p)
         \/ Forwards(p) \/ SuppressionExpires(p) \/ SatelliteRestarts(p)
         \/ \E s \in States : UserPresses(p, s)

Spec == Init /\ [][Next]_vars
-----------------------------------------------------------------------------
Updates == [state : States, epoch : Nat, revision : Nat \ {0}, seen : Nat]
Requests == [to : Satellites, update : Updates, task : TaskIds \cup {0}]
Stages == {"idle", "reading", "read", "waiting", "ok", "failed"}

\* The types of all variables; a task that waits has a Satellite to wait for, and
\* a Satellite that is applying an update has one.
TypeOK ==
    /\ core \in States
    /\ changes \in Nat
    /\ listening \in BOOLEAN
    /\ events \in Seq([state : States \cup {None}, seen : Nat])
    /\ snapshot \in [state : States, seen : Nat]
    /\ epoch \in Nat
    /\ revision \in Nat
    /\ observed \in States \cup {None}
    /\ lastPushed \in [Satellites -> States \cup {None}]
    /\ tasks \in [TaskIds -> [stage : Stages, update : Updates \cup {None}, rest : Seq(Satellites)]]
    /\ \A t \in TaskIds : /\ tasks[t].stage \in {"waiting", "ok", "failed"} => tasks[t].rest # <<>>
                          /\ tasks[t].stage \notin {"idle", "reading"} => tasks[t].update \in Updates
    /\ sent \subseteq Requests
    /\ overlapped \subseteq Satellites
    /\ actual \in [Satellites -> States]
    /\ applied \in [Satellites -> Updates \cup {None}]
    /\ queue \in [Satellites -> Seq(Requests)]
    /\ phase \in [Satellites -> {"idle", "command", "run"}]
    /\ \A p \in Satellites : phase[p] # "idle" => queue[p] # <<>>
    /\ suppressed \in [Satellites -> SUBSET States]
    /\ relays \in [Satellites -> Seq(States)]
    /\ touched \in [Satellites -> BOOLEAN]
    /\ collapsed \in BOOLEAN
    /\ budget \in [Kinds -> Nat]

\* Within one epoch of the Primary, the revision a Satellite has applied only
\* grows (#isStaleVersion, #recordVersion), although checking it and recording
\* it are two awaits apart: the queue keeps other updates out in between.
VersionsAdvance ==
    [][\A p \in Satellites :
         /\ applied[p] # None
         /\ applied'[p] # None
         /\ applied'[p] # applied[p]
         /\ applied'[p].epoch = applied[p].epoch
         => applied'[p].revision > applied[p].revision]_vars

\* Between two updates a Satellite's activity is in the state of the newest
\* update it applied, unless a user or a failed command changed it since.
NewestApplied ==
    \A p \in Satellites :
        phase[p] = "idle" /\ applied[p] # None /\ ~touched[p] => actual[p] = applied[p].state

Quiet ==
    /\ listening
    /\ events = <<>>
    /\ sent = {}
    /\ \A t \in TaskIds : tasks[t].stage = "idle"
    /\ \A p \in Satellites : queue[p] = <<>> /\ relays[p] = <<>>

\* When nothing is under way, a Satellite shows the state of the Primary's
\* activity, whoever switched it, provided no two rounds of pushes overlapped
\* at it.  Checked without the failures, restarts, initialize() and events
\* without a state that each break it.
Agreement == Quiet => \A p \in Satellites \ overlapped : actual[p] = core

Used(kind) == Limits[kind] - budget[kind]

\* An update the Primary pushed does not come back to it as a command: its
\* activity changes once for each change at its Core and each press, at most
\* (relaySuppressions), unless one suppression had to stand for two relay steps.
\* Checked without failures: an expired suppression lets its relay step through.
NoEcho == ~collapsed => changes <= Used("change") + Used("press")

\* A Satellite is never switched to a state the Primary had before one it has
\* already applied (tests/activity-sync.test.js:55 again).  True of updates made
\* from events; initialize() gives the state an older snapshot recorded a new
\* revision.
OlderNeverOverwrites ==
    [][\A p \in Satellites :
         phase[p] = "command" /\ phase'[p] = "run" /\ applied[p] # None
         /\ applied[p].epoch = Head(queue[p]).update.epoch
         => Head(queue[p]).update.seen >= applied[p].seen]_vars

\* tests/activity-sync.test.js:76: "a new Primary epoch resets activity revision
\* ordering".  An update a Satellite ignores as stale is older than the one it
\* applied.  But clear() restarts the revisions within the epoch.
OnlyOlderIsIgnored ==
    [][\A p \in Satellites :
         /\ phase[p] = "idle"
         /\ queue[p] # <<>>
         /\ queue'[p] = Tail(queue[p])
         /\ actual[p] # Head(queue[p]).update.state
         /\ applied[p] # None
         /\ applied'[p] = applied[p]
         => Head(queue[p]).update.seen <= applied[p].seen]_vars
=============================================================================
