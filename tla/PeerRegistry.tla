---------------------------- MODULE PeerRegistry ----------------------------
(***************************************************************************)
(* The Primary's configuration and what changes it: adding a Satellite     *)
(* (#claimSatellite of src/src/service/index.js), the actions of           *)
(* service/satellite-manager.js, the settings of the dashboard, the setup  *)
(* dialog (setup/index.js), configure() and #deferReconfigure, the store   *)
(* (config/store.js); and what changes the tokens of the Satellites:       *)
(* pairing, the snapshots they get, their own dialog, settings and role.   *)
(*                                                                         *)
(* A configuration is an object.  An action holds the object it started    *)
(* with, changes it in place and saves it; an addition or a change of      *)
(* settings makes a copy, saves it and puts it in place of the object.     *)
(* Several of them may be under way at once, and a restart of the services *)
(* waits only for those that came as a request of the dashboard.           *)
(***************************************************************************)
EXTENDS Integers, Sequences, FiniteSets, SequencesExt

CONSTANTS
    Sats,        \* the Satellites
    Tasks,       \* the operations of a behaviour, numbers from 1
    Programs,    \* bound: what these operations may be
    Registries,  \* bound: the orders of the Satellites known at first
    MaxFaults,   \* bound: lost answers of Satellites, deaths of the driver and
                 \* connections that a stop of the services does not end
    Nothing

InPlace == {"rotate", "unpair", "remove", "refresh", "toggle"}
\* The kinds without an await.
Atomic == {"toggle", "sync"}
Replacing == {"claim", "settings", "sync", "setup"}
\* The kinds that change a Satellite only: a snapshot, which brings the command
\* token; its setup dialog or its settings; a reset of its role.
Remote == {"push", "dialog", "reset"}
Kinds == InPlace \cup Replacing \cup Remote
Op == [kind : Kinds, sat : Sats]

\* The kinds that hold a copy, not the object, while they wait.
CopiesFirst == {"settings", "setup"}
\* The kinds that call the Satellite.
Calls == {"claim", "rotate", "unpair", "remove"}
\* The kinds that take their time over a Satellite's tokens.
Lasting == Calls \cup {"push", "dialog"}

\* A configuration: the entries of the Satellites in their order, and the
\* settings operations whose change it has.  Tokens are named after the task
\* that made them; 0 is the one of the first pairing.
Token == Tasks \cup {0}
Entry == [sat : Sats, token : Token, command : Token, enabled : BOOLEAN, claimed : BOOLEAN]
Config == [peers : Seq(Entry), changes : SUBSET Tasks]

\* A registry has a Satellite once, as #claimSatellite, which replaces the entry
\* it finds, leaves it (the schema does not look for a second one).
ASSUME RegistryAssumption ==
    /\ Tasks \subseteq Nat \ {0} /\ IsFiniteSet(Tasks)
    /\ Programs \subseteq [Tasks -> Op]
    /\ Registries \subseteq Seq(Sats)
    /\ \A order \in Registries : IsInjective(order)
    /\ MaxFaults \in Nat
    /\ Nothing \notin Nat \cup Config

VARIABLES
    program,    \* which operation each task is
    task,       \* how far each of them is, see Fresh
    objects,    \* the configuration objects somebody holds, by number
    current,    \* the number of service.config
    disk,       \* the saved configuration
    timer,      \* reconfigureTimer is armed
    restarts,   \* the calls of configure() that still stop the services
    late,       \* watcherTask does not end: the watcher was connecting
    agent,      \* "up"; "closing": its port is free; "orphan": nobody can stop it
    satellite,  \* the pairing state of each Satellite
    expected,   \* history: the configuration if every change had been atomic
    clash,      \* history: an operation worked on what another one replaced
    doubtful,   \* history: Satellites that changed unknown to the Primary
    faults

vars == <<program, task, objects, current, disk, timer, restarts, late, agent,
          satellite, expected, clash, doubtful, faults>>

\* The first entry of a Satellite.
Find(cfg, s) ==
    CHOOSE i \in DOMAIN cfg.peers :
        cfg.peers[i].sat = s /\ \A j \in 1..i - 1 : cfg.peers[j].sat # s
Has(cfg, s) == \E i \in DOMAIN cfg.peers : cfg.peers[i].sat = s
Of(cfg, s) == cfg.peers[Find(cfg, s)]

\* A task: phase; via tells whether the dashboard asked for it; ref or copy is
\* what it holds; index (for an addition or a snapshot, the command token) and
\* token are what it looked up in it; had is what the dialog of a Satellite
\* read; reply is the Satellite's; crossed: another task met it there; during
\* are the tasks whose change was saved meanwhile.
Fresh == [phase |-> "new", web |-> FALSE, ref |-> 0, copy |-> Nothing, index |-> 0,
          token |-> 0, had |-> Nothing, reply |-> Nothing, crossed |-> FALSE, during |-> {}]

Held == {r \in DOMAIN objects : objects[r] # Nothing}

RegistryTypeOK ==
    /\ program \in [Tasks -> Op]
    /\ \A t \in Tasks :
          /\ task[t].phase \in {"new", "begun", "admitted", "called", "saved", "done"}
          /\ task[t].reply \in {Nothing, "ok", "refused", "lost"}
          /\ task[t].ref # 0 => task[t].ref \in Held
    /\ current \in Held
    /\ \A cfg \in {disk, expected} \cup {objects[r] : r \in Held} :
          /\ cfg.changes \subseteq Tasks
          /\ \A i \in DOMAIN cfg.peers : cfg.peers[i] \in Entry
          /\ \A i, j \in DOMAIN cfg.peers : cfg.peers[i].sat = cfg.peers[j].sat => i = j
    /\ timer \in BOOLEAN /\ late \in BOOLEAN /\ agent \in {"up", "closing", "orphan"}
    /\ \A r \in restarts : r.ref \in Held

Paired(s, order) == \E i \in DOMAIN order : order[i] = s

RegistryInit ==
    /\ program \in Programs
    /\ \E order \in Registries :
          /\ disk = [peers |-> [i \in DOMAIN order |->
                        [sat |-> order[i], token |-> 0, command |-> 0,
                         enabled |-> TRUE, claimed |-> TRUE]],
                     changes |-> {}]
          /\ satellite = [s \in Sats |-> [paired |-> Paired(s, order), token |-> 0, command |-> 0]]
    /\ task = [t \in Tasks |-> Fresh]
    /\ objects = <<disk>> /\ current = 1 /\ expected = disk
    /\ timer = FALSE /\ restarts = {} /\ late = FALSE /\ agent = "up"
    /\ clash = FALSE /\ doubtful = {} /\ faults = 0

Fault == faults < MaxFaults /\ faults' = faults + 1

-----------------------------------------------------------------------------
(* Objects.                                                                *)

Active(t) == task[t].phase \in {"begun", "admitted", "called", "saved"}
Kind(t) == program[t].kind
Sat(t) == program[t].sat

\* Objects nobody holds are gone; numbers are not used again.
Live(held, now, stopping) ==
    {now} \cup ({held[u].ref : u \in Tasks} \ {0}) \cup {r.ref : r \in stopping}
Collected(objs, held, now, stopping) ==
    [r \in DOMAIN objs |-> IF r \in Live(held, now, stopping) THEN objs[r] ELSE Nothing]

-----------------------------------------------------------------------------
(* What an operation does to a configuration, when it ends well.           *)

WithPeers(cfg, peers) == [cfg EXCEPT !.peers = peers]

PutTwice(cfg, e) == WithPeers(cfg, Append(cfg.peers, e))   \* faulty
Put(cfg, e) ==
    WithPeers(cfg, IF Has(cfg, e.sat) THEN [cfg.peers EXCEPT ![Find(cfg, e.sat)] = e]
                   ELSE Append(cfg.peers, e))

\* peers.splice(index, 1): the index was looked up before the Satellite was
\* called.
Splice(cfg, i) ==
    IF i \in DOMAIN cfg.peers THEN WithPeers(cfg, RemoveAt(cfg.peers, i)) ELSE cfg

\* The entry that an addition makes; the one that an action makes of e.
Claimed(t) == [sat |-> Sat(t), token |-> task[t].token, command |-> task[t].index,
               enabled |-> TRUE, claimed |-> TRUE]
Edited(e, t) ==
    CASE Kind(t) = "rotate" -> [e EXCEPT !.token = t, !.command = t]
      [] Kind(t) = "unpair" -> [e EXCEPT !.enabled = FALSE, !.claimed = FALSE]
      [] OTHER -> [e EXCEPT !.enabled = ~e.enabled]

Changed(cfg, t, i) ==
    CASE Kind(t) = "claim" -> Put(cfg, Claimed(t))
      [] Kind(t) \in {"rotate", "unpair", "toggle"} ->
            IF Has(cfg, Sat(t)) THEN Put(cfg, Edited(Of(cfg, Sat(t)), t)) ELSE cfg
      [] Kind(t) = "remove" -> Splice(cfg, i)
      [] Kind(t) = "refresh" -> cfg
      [] OTHER -> [cfg EXCEPT !.changes = cfg.changes \cup {t}]

\* What the operation means, for the configuration that should be there.
Meant(cfg, t) == Changed(cfg, t, IF Has(cfg, Sat(t)) THEN Find(cfg, Sat(t)) ELSE 0)

-----------------------------------------------------------------------------
(* Beginning.                                                              *)

\* Others that are under way for the same Satellite.
Crossing(t) == {u \in Tasks \ {t} : Active(u) /\ Kind(u) \in Lasting /\ Sat(u) = Sat(t)}

\* Setups that are saved and not yet in memory.
Unsettled == {u \in Tasks : Kind(u) = "setup" /\ task[u].phase = "saved"}

\* The dashboard can be used: also through an agent that nobody can stop.
Served == agent \in {"up", "orphan"}

\* An operation begins: a request needs an agent; an action needs an entry.
\* An action keeps the object, its index and the entry's token; an addition
\* learns the Satellite's token by the PIN and keeps the command token; a
\* change of settings copies the object; the dialog reads the store.  A
\* snapshot leaves with both tokens; a Satellite's own dialog keeps what it read.
Begin(t) ==
    LET s == Sat(t)
        cfg == objects[current]
        held == [Fresh EXCEPT !.phase = "begun", !.during = Unsettled] IN
    /\ task[t].phase = "new"
    /\ \E web \in BOOLEAN :
          /\ web => Served
          /\ ~web => Kind(t) \in InPlace \cup {"setup", "push", "dialog"}
          /\ \/ /\ Kind(t) = "claim"
                /\ task' = [task EXCEPT ![t] = [held EXCEPT !.web = web, !.ref = current,
                      !.token = satellite[s].token,
                      !.index = IF Has(cfg, s) THEN Of(cfg, s).command ELSE t]]
             \/ /\ Kind(t) \in InPlace \ Atomic /\ Has(cfg, s)
                /\ Kind(t) = "rotate" => Of(cfg, s).claimed
                /\ task' = [task EXCEPT ![t] = [held EXCEPT !.web = web, !.ref = current,
                      !.token = Of(cfg, s).token, !.index = Find(cfg, s)]]
             \/ /\ Kind(t) = "settings"
                /\ task' = [task EXCEPT ![t] = [held EXCEPT !.web = web, !.copy = cfg]]
             \/ /\ Kind(t) = "setup" /\ ~web
                /\ task' = [task EXCEPT ![t] = [held EXCEPT !.copy = disk, !.during = {}]]
             \/ /\ Kind(t) = "push" /\ Has(cfg, s) /\ Of(cfg, s).enabled
                /\ task' = [task EXCEPT ![t] = [held EXCEPT !.web = web, !.token = Of(cfg, s).token,
                      !.index = Of(cfg, s).command, !.crossed = Crossing(t) # {}]]
             \/ /\ Kind(t) = "dialog" /\ ~web
                /\ task' = [task EXCEPT ![t] = [held EXCEPT !.had = satellite[s],
                                                           !.crossed = Crossing(t) # {}]]
    /\ UNCHANGED <<program, objects, current, disk, timer, restarts, late, agent, satellite,
                   expected, clash, doubtful, faults>>

-----------------------------------------------------------------------------
(* The call to the Satellite (agent/server.js, the callbacks of service/    *)
(* index.js).                                                              *)

\* Faulty: the Satellite keeps its token when the Primary renews it.
AnsweredKeeping(t) ==
    LET s == Sat(t) IN
    CASE Kind(t) = "rotate" -> [satellite[s] EXCEPT !.command = t]
      [] OTHER -> satellite[s]

\* claim, rotate and unpair as the Satellite carries them out.
Answered(t) ==
    LET s == Sat(t) IN
    CASE Kind(t) = "claim"  -> [satellite[s] EXCEPT !.paired = TRUE, !.command = task[t].index]
      [] Kind(t) = "rotate" -> [satellite[s] EXCEPT !.token = t, !.command = t]
      [] OTHER              -> [satellite[s] EXCEPT !.paired = FALSE]

\* A wrong token is answered 401; rotate and unpair by a Primary it is not
\* paired with 409.
Accepts(t) ==
    /\ task[t].token = satellite[Sat(t)].token
    /\ Kind(t) \in {"rotate", "unpair", "remove"} => satellite[Sat(t)].paired

\* The answer to t; whoever else is under way for the Satellite is crossed.
Reply(t, reply) ==
    task' = [u \in Tasks |->
                IF u = t THEN [task[t] EXCEPT !.phase = "called", !.reply = reply,
                                              !.crossed = task[t].crossed \/ Crossing(t) # {}]
                ELSE IF u \in Crossing(t) THEN [task[u] EXCEPT !.crossed = TRUE] ELSE task[u]]

Call(t) ==
    /\ task[t].phase = "begun" /\ Kind(t) \in Calls
    /\ \/ /\ Accepts(t)
          /\ satellite' = [satellite EXCEPT ![Sat(t)] = Answered(t)]
          /\ \/ Reply(t, "ok") /\ UNCHANGED <<doubtful, faults>>
             \/ /\ Fault
                /\ Reply(t, "lost")
                /\ doubtful' = doubtful \cup {Sat(t)}
       \/ /\ ~Accepts(t)
          /\ Reply(t, "refused") /\ UNCHANGED <<satellite, doubtful, faults>>
       \/ /\ Fault
          /\ Reply(t, "lost") /\ UNCHANGED <<satellite, doubtful>>
    /\ UNCHANGED <<program, objects, current, disk, timer, restarts, late, agent,
                   expected, clash>>

-----------------------------------------------------------------------------
(* What changes a Satellite and not the Primary's configuration.            *)

Finished(t) == [Fresh EXCEPT !.phase = "done"]

\* A snapshot is accepted by its token, before it is unpacked; or it fails.
Arrive(t) ==
    /\ Kind(t) = "push" /\ task[t].phase = "begun"
    /\ \/ /\ task[t].token = satellite[Sat(t)].token
          /\ task' = [task EXCEPT ![t] = [task[t] EXCEPT !.phase = "admitted"]] /\ UNCHANGED faults
       \/ /\ task[t].token # satellite[Sat(t)].token
          /\ task' = [task EXCEPT ![t] = Finished(t)] /\ UNCHANGED faults
       \/ Fault /\ task' = [task EXCEPT ![t] = Finished(t)]
    /\ UNCHANGED <<program, objects, current, disk, timer, restarts, late, agent, satellite,
                   expected, clash, doubtful>>

\* How t leaves its Satellite: applyReceived stores the command token that came
\* with the snapshot; the dialog and the settings save all they had read;
\* resetRole makes a new token.  (Who is not paired has no command token that
\* counts.)
Left(t) ==
    CASE Kind(t) = "push"   -> [satellite[Sat(t)] EXCEPT !.command = task[t].index]
      [] Kind(t) = "dialog" -> task[t].had
      [] OTHER              -> [satellite[Sat(t)] EXCEPT !.paired = FALSE, !.token = t]

\* A reset, or what another operation met, leaves its Satellite changed unknown
\* to the Primary, and meets the others.
Upsets(t) == task[t].crossed \/ Kind(t) = "reset"

EndRemote(t) ==
    /\ Kind(t) \in Remote
    /\ task[t].phase = CASE Kind(t) = "push" -> "admitted" [] Kind(t) = "dialog" -> "begun"
                        [] OTHER -> "new"
    /\ satellite' = [satellite EXCEPT ![Sat(t)] = Left(t)]
    /\ task' = [u \in Tasks |->
                   IF u = t THEN Finished(t)
                   ELSE IF Upsets(t) /\ u \in Crossing(t) THEN [task[u] EXCEPT !.crossed = TRUE]
                   ELSE task[u]]
    /\ doubtful' = IF Upsets(t) THEN doubtful \cup {Sat(t)} ELSE doubtful
    /\ UNCHANGED <<program, objects, current, disk, timer, restarts, late, agent,
                   expected, clash, faults>>

-----------------------------------------------------------------------------
(* Ending.                                                                 *)

\* Only a removal goes on without the Satellite's consent.
Succeeds(t) == Kind(t) \in Calls => task[t].reply = "ok" \/ Kind(t) = "remove"
Ready(t) == task[t].phase = IF Kind(t) \in Calls THEN "called" ELSE "begun"

\* The operation fails, and says so.
Refuse(t) ==
    /\ Kind(t) \in Calls /\ Ready(t) /\ ~Succeeds(t)
    /\ task' = [task EXCEPT ![t] = Finished(t)]
    /\ objects' = Collected(objects, task', current, restarts)
    /\ UNCHANGED <<program, current, disk, timer, restarts, late, agent, satellite,
                   expected, clash, doubtful, faults>>

\* History of a save by t: did it build on something that was replaced
\* meanwhile; do the tasks that are under way see it.
Clashes(t) ==
    \E u \in task[t].during :
        \/ Kind(u) \in Replacing \/ Kind(t) \in CopiesFirst
        \/ Kind(u) = "remove" /\ Kind(t) = "remove"
Noted(t, next) ==
    [u \in Tasks |-> IF u = t THEN next
                     ELSE IF Active(u) THEN [task[u] EXCEPT !.during = task[u].during \cup {t}] ELSE task[u]]

\* An addition that nothing crossed settles what the Satellite has.
Doubts(t) ==
    IF task[t].crossed THEN doubtful \cup {Sat(t)}
    ELSE IF Kind(t) = "claim" THEN doubtful \ {Sat(t)} ELSE doubtful

\* What every successful end does to the history.
History(t) ==
    /\ expected' = Meant(expected, t)
    /\ clash' = (clash \/ Clashes(t))
    /\ doubtful' = Doubts(t)

\* An action changes the object it holds and saves that.
EndInPlace(t) ==
    /\ Ready(t) /\ Succeeds(t) /\ Kind(t) \in InPlace
    /\ disk' = Changed(objects[task[t].ref], t, task[t].index)
    /\ task' = Noted(t, Finished(t))
    /\ objects' = Collected([objects EXCEPT ![task[t].ref] = disk'], task', current, restarts)
    /\ History(t)
    /\ UNCHANGED <<program, current, timer, restarts, late, agent, satellite, faults>>

\* An addition copies the object it holds as it is now, settings are changed in
\* the copy; the copy is saved and made current, and a restart is due.
EndReplacing(t) ==
    LET base == IF Kind(t) = "claim" THEN objects[task[t].ref] ELSE task[t].copy IN
    /\ Ready(t) /\ Succeeds(t) /\ Kind(t) \in {"claim", "settings"}
    /\ disk' = Changed(base, t, 0)
    /\ current' = Len(objects) + 1
    /\ task' = Noted(t, Finished(t))
    /\ objects' = Collected(Append(objects, disk'), task', current', restarts)
    /\ timer' = TRUE
    /\ History(t)
    /\ UNCHANGED <<program, restarts, late, agent, satellite, faults>>

\* Enabling a Satellite changes the object, synchronization settings replace
\* it, at once.
AtOnce(t) ==
    /\ task[t].phase = "new" /\ Kind(t) \in Atomic
    /\ Served \/ Kind(t) = "toggle"
    /\ disk' = Changed(objects[current], t, 0)
    /\ task' = Noted(t, Finished(t))
    /\ IF Kind(t) = "toggle"
       THEN /\ objects' = [objects EXCEPT ![current] = disk']
            /\ UNCHANGED <<current, timer>>
       ELSE /\ current' = Len(objects) + 1 /\ timer' = TRUE
            /\ objects' = Collected(Append(objects, disk'), task', current', restarts)
    /\ expected' = Meant(expected, t)
    /\ clash' = (clash \/ Unsettled # {})
    /\ UNCHANGED <<program, restarts, late, agent, satellite, doubtful, faults>>

\* Faulty: the dialog starts from the default settings.
SetUpAnew(t) == [task[t].copy EXCEPT !.changes = {t}]

\* #finish of the dialog: what it read, with a new key.
SetUp(t) == Changed(task[t].copy, t, 0)

\* The dialog saves, and calls configure() later, when the old key is revoked.
EndSetup(t) ==
    /\ Kind(t) = "setup" /\ task[t].phase = "begun"
    /\ disk' = SetUp(t)
    /\ objects' = Append(objects, disk')
    /\ task' = Noted(t, [task[t] EXCEPT !.phase = "saved", !.ref = Len(objects) + 1,
                                        !.copy = Nothing, !.during = {}])
    /\ History(t)
    /\ UNCHANGED <<program, current, timer, restarts, late, agent, satellite, faults>>

-----------------------------------------------------------------------------
(* configure().                                                            *)

\* configure() is called with the object numbered ref.  stop() waits for the
\* watcher first, which does not end if it was connecting.
Stop(ref, by) ==
    /\ restarts' = restarts \cup {[ref |-> ref, by |-> by, seen |-> current, at |-> "watcher",
                                   waits |-> {}, held |-> FALSE]}
    /\ \/ UNCHANGED <<late, faults>>
       \/ Fault /\ late' = TRUE

\* The timer of #deferReconfigure fires.
Reconfigure ==
    /\ timer /\ timer' = FALSE
    /\ Cardinality(restarts) < 2
    /\ Stop(current, 0)
    /\ UNCHANGED <<program, task, objects, current, disk, agent, satellite, expected, clash,
                   doubtful>>

\* The dialog calls configure() with what it saved.
Configure(t) ==
    /\ Kind(t) = "setup" /\ task[t].phase = "saved"
    /\ \A r \in restarts : r.by # t
    /\ Stop(task[t].ref, t)
    /\ UNCHANGED <<program, task, objects, current, disk, timer, agent, satellite, expected,
                   clash, doubtful>>

\* The connection is there after all, and the watcher ends.
WatcherEnds ==
    /\ late /\ late' = FALSE
    /\ UNCHANGED <<program, task, objects, current, disk, timer, restarts, agent, satellite,
                   expected, clash, doubtful, faults>>

\* The requests that the agent serves; others are waited for already.
Requests ==
    {t \in Tasks : Active(t) /\ task[t].web} \ UNION {q.waits : q \in restarts}

\* AgentServer.stop: the port is free at once; server.close ends with the
\* requests, and never if a dock tunnel does not hear of it (held).  Another
\* call that finds the agent closing does not wait, nor does one whose own
\* agent could not start.
AgentCloses(r) ==
    /\ r \in restarts /\ r.at = "watcher" /\ ~late
    /\ \E held \in BOOLEAN :
          /\ held => agent = "up"
          /\ restarts' = (restarts \ {r}) \cup
                {[ref |-> r.ref, by |-> r.by, seen |-> r.seen, at |-> "agent",
                  waits |-> IF agent = "up" THEN Requests ELSE {}, held |-> held]}
          /\ IF held THEN Fault ELSE UNCHANGED faults
    /\ agent' = IF agent = "up" THEN "closing" ELSE agent
    /\ UNCHANGED <<program, task, objects, current, disk, timer, late, satellite, expected,
                   clash, doubtful>>

\* Faulty: it waits for everything that is under way.
DrainedOfAll(r) == r.at = "agent" /\ ~\E t \in Tasks : Active(t)

\* What configure() waits for has ended.
Drained(r) == r.at = "agent" /\ \A t \in r.waits : ~Active(t)

\* The services have stopped, and configure() makes its configuration current.
Configured(r) ==
    /\ r \in restarts /\ Drained(r)
    /\ restarts' = restarts \ {r}
    /\ current' = r.ref
    /\ task' = [t \in Tasks |->
                   IF r.by = t THEN Finished(t)
                   ELSE IF Active(t) /\ r.by # 0
                   THEN [task[t] EXCEPT !.during = task[t].during \cup {r.by}] ELSE task[t]]
    /\ clash' = (clash \/ current # r.seen \/ (r.by # 0 /\ task[r.by].during # {}))
    /\ objects' = Collected(objects, task', current', restarts')
    /\ UNCHANGED <<program, disk, timer, late, satellite, expected, doubtful, faults>>

\* It starts them.
Started(r) == agent = "closing" /\ agent' = "up" /\ Configured(r)

\* Another call has started an agent meanwhile and forgotten it when it set its
\* own: the port is taken, now and for every call to come, and configure() fails.
PortTaken(r) == agent \in {"up", "orphan"} /\ agent' = "orphan" /\ Configured(r)

-----------------------------------------------------------------------------
(* The driver dies and is started again: ConfigStore.load.                 *)

\* What a Satellite carries out goes on.
Survives(t) == Kind(t) = "dialog" \/ task[t].phase = "admitted"

Crash ==
    /\ Fault
    /\ task' = [t \in Tasks |-> IF ~Active(t) THEN task[t]
                                ELSE IF Survives(t) THEN [task[t] EXCEPT !.web = FALSE]
                                ELSE Finished(t)]
    /\ objects' = Append([r \in DOMAIN objects |-> Nothing], disk)
    /\ current' = Len(objects) + 1
    /\ timer' = FALSE /\ restarts' = {} /\ late' = FALSE /\ agent' = "up"
    /\ doubtful' = doubtful \cup
          {Sat(t) : t \in {u \in Tasks : Kind(u) \in Calls /\ task[u].phase = "called"}}
    /\ UNCHANGED <<program, disk, satellite, expected, clash>>

TaskStep(t) ==
    \/ Call(t) \/ Refuse(t) \/ EndInPlace(t) \/ EndReplacing(t) \/ EndSetup(t) \/ Configure(t)
    \/ Arrive(t) \/ (Kind(t) = "push" /\ EndRemote(t))
Restarted(r) == Started(r) \/ PortTaken(r)
RestartStep ==
    \/ Reconfigure
    \/ \E r \in restarts : AgentCloses(r) \/ (~r.held /\ Restarted(r))

RegistryNext ==
    \/ \E t \in Tasks : Begin(t) \/ AtOnce(t) \/ TaskStep(t) \/ EndRemote(t)
    \/ RestartStep \/ (\E r \in restarts : Restarted(r)) \/ WatcherEnds \/ Crash

RegistrySpec == RegistryInit /\ [][RegistryNext]_vars

\* Calls and detections time out; requests end, so that the agent closes, unless
\* a tunnel holds it; nothing ends a late watcher.
RegistryFairness == WF_vars(RestartStep) /\ \A t \in Tasks : WF_vars(TaskStep(t))
RegistryFairSpec == RegistrySpec /\ RegistryFairness

-----------------------------------------------------------------------------
(* Properties.                                                             *)

\* No change of the configuration is lost, in memory or on disk, and none is
\* made to the wrong Satellite, however additions, actions, settings, the
\* dialog, restarts of the services and of the driver interleave: unless one
\* of them built on an object or a copy that another one replaced meanwhile,
\* or two removals overlapped.
ChangesAreKept ==
    ~clash => disk = expected /\ (Unsettled = {} => objects[current] = expected)

\* The Primary can talk to every Satellite it holds as paired: same token, same
\* command token, however pairing, renewals, removals, snapshots and what the
\* Satellite saves of itself interleave: unless an answer was lost, the driver
\* died between an answer and its save, two operations on that Satellite crossed
\* (a snapshot that left before a renewal and arrives after it, a dialog of the
\* Satellite that was open meanwhile), or its role was reset; and adding the
\* Satellite again, with nothing crossing that, brings them together.
CredentialsAgree ==
    \A i \in DOMAIN objects[current].peers :
        LET e == objects[current].peers[i]
            calling == \E t \in Tasks : Kind(t) \in Calls /\ Sat(t) = e.sat
                                        /\ task[t].phase = "called" IN
        e.claimed /\ ~clash /\ e.sat \notin doubtful /\ ~calling =>
            satellite[e.sat] = [paired |-> TRUE, token |-> e.token, command |-> e.command]

\* Every restart of the services ends, also of those that are due when another
\* one waits for the requests of the dashboard, or that find the port taken:
\* unless the watcher was connecting when it was stopped, or a tunnel did not
\* hear that the agent stops.  (service/index.js:184 and :1005)
Hindered == late \/ \E r \in restarts : r.held
RestartsEnd == restarts # {} \/ timer ~> (restarts = {} /\ ~timer) \/ Hindered
=============================================================================
