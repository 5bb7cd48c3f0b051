---------------------------- MODULE Provisioning ----------------------------
(***************************************************************************)
(* Setting up Remote Sync on a remote and adding that remote to a Primary  *)
(* (src/src/setup/index.js, the setup requests of integration/api.js,      *)
(* service/satellite-provisioner.js, pinPair, #assignRoleNow and           *)
(* addSatelliteByPin of service/index.js).                                 *)
(*                                                                         *)
(* A person runs the setup in the remote's own dialog; a Primary's job     *)
(* runs the same setup through the remote's Core.  Either creates an API   *)
(* key on that Core, and neither takes it back when a later step fails.    *)
(* What the driver saves meanwhile is the configuration its service holds. *)
(* Setup messages are handled as they come, while an earlier one still     *)
(* awaits the Core; SetupFlow keeps one state for all of them.             *)
(***************************************************************************)
EXTENDS Integers, FiniteSets

CONSTANTS
    MaxKeys,    \* bound: API keys ever created on the remote's Core
    Calls,      \* setup messages that may be handled at the same time
    MaxErrors,  \* bound: error texts that a page can show
    MaxTroubles \* bound: failures, crashes and doings of a person

ASSUME ProvisioningAssumption ==
    MaxKeys \in Nat \ {0} /\ MaxErrors \in Nat /\ MaxTroubles \in Nat

Keys == 1..MaxKeys
Roles == {"unassigned", "child", "master"}
NoConfig == [role |-> "none", key |-> 0]
Configs == [role : Roles, key : Keys] \cup {NoConfig}

VARIABLES
    keys,      \* the API keys on the remote's Core
    made,      \* how many have been created
    driver,    \* the driver installed there: "none", "old", "current"
    stored,    \* the configuration on the remote's disk
    memory,    \* and the one its service runs with
    serving,   \* the role its agent serves, "none" without an agent
    draft,     \* what the service has read and will save after an await, or NoConfig
    due,       \* a deferred reconfiguration is due
    flow,      \* SetupFlow: state, the key pending, the configuration existing
    calls,     \* SetupFlow.handler: the runs under way
    session,   \* the setup as the Core shows it: its state, the error on the page
    job,       \* the job of the Primary
    peer,      \* the management key in the Primary's configuration, or 0
    revoking,  \* management keys the Primary is revoking in the background
    removal,   \* a removal under way: "none", "revoking", "dropping"
    left,      \* history: keys given up by a step that failed or was overtaken
    saved,     \* history: keys that have been saved
    clash,     \* history: since a setup last saved a new key, somebody saved over
               \* one they had not seen
    severed,   \* history: the Primary ended between the two steps of a removal
    troubles

registry == <<peer, revoking, removal, severed>>
primary == <<job, registry>>
remote == <<stored, memory, serving, draft, due>>
setup == <<flow, calls, session>>
history == <<saved, clash, troubles>>
vars == <<keys, made, driver, remote, setup, primary, left, history>>

NoFlow == [state |-> "pin", pending |-> 0, existing |-> NoConfig]
NoCall == [pc |-> "off", key |-> 0, was |-> NoConfig, confirmed |-> FALSE]
NoJob == [pc |-> "idle", key |-> 0, update |-> FALSE, seen |-> {}, tries |-> 0]

\* On older Cores the text of an error is part of the page; on newer ones only
\* that of an approval is, and all PIN pages are one.
Errors == 0..MaxErrors
Screens == [state : {"none", "running", "ask", "approval", "again", "finished", "OK", "ERROR"},
            error : Errors]
Shows(state, error) == session' = [state |-> state, error |-> error]

\* Types; a job sends the PIN when it starts a setup, and once for each page that
\* asks for it, which pages with different errors are.
ProvisioningTypeOK ==
    /\ keys \subseteq Keys /\ made \in 0..MaxKeys /\ left \subseteq Keys /\ saved \subseteq Keys
    /\ driver \in {"none", "old", "current"}
    /\ stored \in Configs /\ memory \in Configs /\ serving \in Roles \cup {"none"}
    /\ draft \in Configs /\ {due, clash, severed} \subseteq BOOLEAN
    /\ flow \in [state : {"pin", "approval", "done"}, pending : Keys \cup {0}, existing : Configs]
    /\ flow.state = "approval" => flow.pending # 0
    /\ calls \in [Calls -> [pc : {"off", "creating", "checking", "revoking", "configuring"},
                            key : Keys \cup {0}, was : Configs, confirmed : BOOLEAN]]
    /\ session \in Screens /\ job.seen \subseteq Screens
    /\ job.tries \in 0..1 + Cardinality(job.seen)
    /\ peer \in Keys \cup {0} /\ revoking \subseteq Keys
    /\ removal \in {"none", "revoking", "dropping"}

ProvisioningInit ==
    /\ driver \in {"none", "old", "current"}
    /\ stored \in (IF driver = "none" THEN {NoConfig}
                   ELSE {NoConfig, [role |-> "unassigned", key |-> 1],
                         [role |-> "child", key |-> 1]})
    /\ keys = {stored.key} \ {0} /\ made = stored.key
    /\ memory = stored /\ serving = stored.role /\ draft = NoConfig /\ due = FALSE
    /\ flow = NoFlow /\ calls = [c \in Calls |-> NoCall]
    /\ session = [state |-> "none", error |-> 0]
    /\ job = NoJob /\ peer = 0 /\ revoking = {} /\ removal = "none"
    /\ left = {} /\ saved = keys /\ clash = FALSE /\ severed = FALSE /\ troubles = 0

CallKeys == {calls[c].key : c \in Calls} \cup {calls[c].was.key : c \in Calls}

\* Nothing will revoke these keys any more, or they are in use already.
GivesUp(ks) == left' = left \cup (ks \ {0, stored.key})

Trouble == troubles < MaxTroubles /\ troubles' = troubles + 1
NewKey == made < MaxKeys /\ made' = made + 1 /\ keys' = keys \cup {made'}

-----------------------------------------------------------------------------
(* SetupFlow on the remote.                                                *)

\* The Core runs one setup at a time.
InSetup == session.state \notin {"none", "OK", "ERROR"}

\* What the driver tells of a setup reaches the Core's setup, whichever it is.
Told(state, error) ==
    IF session.state = "running" THEN Shows(state, error) ELSE UNCHANGED session

\* DriverSetupRequest, with or without the PIN among the setup data.
Begins(c, pin) ==
    /\ driver # "none" /\ calls[c].pc = "off" /\ ~InSetup
    /\ flow' = [NoFlow EXCEPT !.existing = stored]
    /\ GivesUp({flow.pending})
    /\ calls' = IF pin THEN [calls EXCEPT ![c].pc = "creating"] ELSE calls
    /\ Shows(IF pin THEN "running" ELSE "ask", 0)

\* UserDataResponse
Answers(c) ==
    /\ session.state = "ask" /\ calls[c].pc = "off"
    /\ IF flow.state = "pin"
       THEN calls' = [calls EXCEPT ![c].pc = "creating"] /\ Shows("running", 0)
       ELSE UNCHANGED calls /\ Shows("ERROR", 0)
    /\ UNCHANGED <<flow, left>>

\* UserConfirmationResponse
Confirms(c) ==
    /\ session.state \in {"approval", "again", "finished"} /\ calls[c].pc = "off"
    /\ IF flow.state = "approval"
       THEN /\ calls' = [calls EXCEPT ![c] =
                  [pc |-> "checking", key |-> flow.pending, was |-> flow.existing,
                   confirmed |-> TRUE]]
            /\ Shows("running", 0)
       ELSE UNCHANGED calls /\ Shows(IF flow.state = "done" THEN "OK" ELSE "ERROR", 0)
    /\ UNCHANGED <<flow, left>>

\* AbortDriverSetup: what is under way goes on.
Aborts ==
    /\ InSetup
    /\ flow' = NoFlow /\ Shows("none", 0)
    /\ GivesUp({flow.pending})
    /\ UNCHANGED calls

\* #apply: the Core makes the key, to be approved first on some; or it
\* refuses; or its answer is lost.
Created(c) ==
    /\ calls[c].pc = "creating" /\ NewKey
    /\ flow' = [flow EXCEPT !.pending = made']
    /\ calls' = [calls EXCEPT ![c] =
           [pc |-> "checking", key |-> made', was |-> flow.existing, confirmed |-> FALSE]]
    /\ GivesUp({flow.pending}) /\ UNCHANGED <<session, troubles>>
CreatedInactive(c) ==
    /\ calls[c].pc = "creating" /\ NewKey /\ Trouble
    /\ flow' = [flow EXCEPT !.pending = made', !.state = "approval"]
    /\ calls' = [calls EXCEPT ![c] = NoCall]
    /\ Told("approval", 0) /\ GivesUp({flow.pending})
NotCreated(c) ==
    /\ calls[c].pc = "creating"
    /\ \/ made = MaxKeys /\ UNCHANGED <<keys, made, left, troubles>>
       \/ Trouble /\ UNCHANGED <<keys, made, left>>
       \/ Trouble /\ NewKey /\ left' = left \cup {made'}
    /\ flow' = [flow EXCEPT !.state = "pin"]
    /\ calls' = [calls EXCEPT ![c] = NoCall]
    /\ \E error \in Errors : Told("ask", error)

\* Faulty: the previous key stays.
RevokesNone(was, key) == FALSE

\* #finish revokes the key of the configuration it replaced.
Revokes(was, key) == was.key \notin {0, key}

\* Faulty: what exists wins over the new connection.
SavedKeeping(was, key) == IF was = NoConfig THEN [role |-> "unassigned", key |-> key] ELSE was

\* The configuration #finish saves: the existing one with a new key.
Saved(was, key) == [role |-> IF was = NoConfig THEN "unassigned" ELSE was.role, key |-> key]

\* #finish: the Core accepts the key, the configuration is saved.  A key that
\* two messages have in hand may be saved by one, and revoked before the other.
Checked(c) ==
    LET call == calls[c] IN
    /\ call.pc = "checking"
    /\ stored' = Saved(call.was, call.key)
    /\ calls' = [calls EXCEPT ![c].pc =
                    IF Revokes(call.was, call.key) THEN "revoking" ELSE "configuring"]
    /\ left' = left \cup ({stored.key, memory.key} \ {0, call.key, call.was.key})
    /\ saved' = saved \cup {call.key}
    /\ clash' = (call.key \in saved /\ (clash \/ call.key # stored.key))
    /\ UNCHANGED <<flow, session, keys, memory, serving, draft, due>>

\* An error in #finish: the page is shown again, with the error.
Refused(c) ==
    /\ flow' = IF calls[c].confirmed THEN flow ELSE [flow EXCEPT !.state = "pin"]
    /\ \E error \in Errors : Told(IF calls[c].confirmed THEN "again" ELSE "ask", error)
    /\ calls' = [calls EXCEPT ![c] = NoCall]
NotChecked(c) ==
    /\ calls[c].pc = "checking" /\ Trouble /\ Refused(c)
    /\ left' = left \cup ({calls[c].key} \ {stored.key})
    /\ UNCHANGED <<keys, remote>>

\* deleteApiKeysNamed; a failure is logged.
Revoked(c) ==
    /\ calls[c].pc = "revoking"
    /\ calls' = [calls EXCEPT ![c].pc = "configuring"]
    /\ \/ keys' = keys \ {calls[c].was.key} /\ UNCHANGED <<left, troubles>>
       \/ Trouble /\ left' = left \cup {calls[c].was.key} /\ UNCHANGED keys
    /\ UNCHANGED <<flow, session, remote>>

\* onConfigured: the service runs with what the setup saved; or configure()
\* fails on a port that is taken, perhaps by an agent of its own.
TakesOver(call) ==
    /\ call.pc = "configuring"
    /\ memory' = Saved(call.was, call.key)
    /\ left' = left \cup ({memory.key} \ {0, stored.key, call.key})
    /\ UNCHANGED <<keys, stored, draft, due>>
Configured(c) ==
    /\ TakesOver(calls[c]) /\ serving' = memory'.role
    /\ flow' = [flow EXCEPT !.state = "done"]
    /\ calls' = [calls EXCEPT ![c] = NoCall] /\ Told("finished", 0)
    /\ UNCHANGED troubles
NotConfigured(c) ==
    /\ TakesOver(calls[c]) /\ serving' \in {serving, "none"}
    /\ Trouble /\ Refused(c)

SetupStep(c) ==
    /\ \/ /\ Created(c) \/ CreatedInactive(c) \/ NotCreated(c)
          /\ UNCHANGED <<remote, saved, clash>>
       \/ Checked(c) /\ UNCHANGED <<made, troubles>>
       \/ /\ NotChecked(c) \/ Revoked(c) \/ Configured(c) \/ NotConfigured(c)
          /\ UNCHANGED <<made, saved, clash>>
    /\ UNCHANGED <<driver, primary>>

-----------------------------------------------------------------------------
(* Roles, restarts and the person.                                         *)

\* Whatever the service saves, over a key it knows or not.
Overwrites(config) ==
    /\ stored' = config
    /\ clash' = (clash \/ config.key # stored.key)

\* #assignRoleNow and resetRole save the service's configuration with another
\* role, and reconfigure later.
Assigned(role) ==
    /\ memory # NoConfig
    /\ memory' = [memory EXCEPT !.role = role] /\ Overwrites(memory') /\ due' = TRUE
    /\ left' = left \cup ({stored.key} \ {0, memory.key})
    /\ UNCHANGED <<serving, draft>>

\* markPaired, applyReceived, unpairSatellite, rotateSatelliteCredentials: the
\* service saves the configuration it holds.
Resaved ==
    /\ memory # NoConfig /\ Overwrites(memory)
    /\ left' = left \cup ({stored.key} \ {0, memory.key})
    /\ UNCHANGED <<memory, serving, draft, due>>

\* updateGeneralSettings and the operations of a remote that is a Primary itself
\* save what they had before an await; some of them take it over as well.
Drafts ==
    /\ memory # NoConfig /\ draft = NoConfig /\ draft' = memory
    /\ UNCHANGED <<stored, memory, serving, due, left, clash>>
Saves ==
    /\ draft # NoConfig /\ draft' = NoConfig /\ Overwrites(draft)
    /\ \/ memory' = draft /\ due' = TRUE
          /\ left' = left \cup ({stored.key, memory.key} \ {0, draft.key})
       \/ UNCHANGED <<memory, due>> /\ left' = left \cup ({stored.key} \ {0, draft.key, memory.key})
    /\ UNCHANGED <<keys, made, driver, serving, setup, primary, saved, troubles>>

\* The deferred configure(), which fails on a port that is taken.
Restarts ==
    /\ due /\ due' = FALSE
    /\ \/ serving' = memory.role /\ UNCHANGED troubles
       \/ serving' \in {serving, "none"} /\ Trouble
    /\ UNCHANGED <<keys, made, driver, stored, memory, draft, setup, primary, left, saved, clash>>

\* The driver process ends and starts again; a Core setup is not told.
Stopped ==
    /\ memory' = stored /\ serving' = stored.role /\ draft' = NoConfig /\ due' = FALSE
    /\ flow' = NoFlow /\ calls' = [c \in Calls |-> NoCall]
    /\ Told("ERROR", 0)
    /\ GivesUp({flow.pending, memory.key} \cup CallKeys)
    /\ UNCHANGED stored

\* Somebody uses the dialog or the dashboard of the remote, a Primary calls it,
\* or it restarts.
Person ==
    /\ Trouble
    /\ \/ /\ \/ \E c \in Calls, pin \in BOOLEAN : Begins(c, pin)
             \/ Aborts
          /\ UNCHANGED <<remote, clash>>
       \/ /\ \E role \in Roles \ {memory.role} :
                /\ role = "unassigned" \/ memory.role = "unassigned"
                /\ Assigned(role)
          /\ UNCHANGED setup
       \/ (Resaved \/ Drafts) /\ UNCHANGED setup
       \/ Stopped /\ UNCHANGED clash
    /\ UNCHANGED <<keys, made, driver, primary, saved>>
Dialog ==
    /\ \E c \in Calls : Answers(c) \/ Confirms(c)
    /\ job.pc # "asking"
    /\ UNCHANGED <<keys, made, driver, remote, primary, history>>

-----------------------------------------------------------------------------
(* The Primary's job.                                                      *)

Running == job.pc \notin {"idle", "done", "error"}
Goes(pc) == job' = [job EXCEPT !.pc = pc]

\* Faulty: an error leaves the job running.
FailsSilently == Goes("lost")

\* The catch of addSatelliteByPin.
Fails == Goes("error")

Failed == Fails /\ left' = left \cup ({job.key} \ {0, peer})

\* addSatelliteByPin, one job at a time for an address; update of a Satellite.
\* Bound: not while the Satellite is removed (PeerRegistry has the two cross).
Adds ==
    /\ ~Running /\ removal = "none" /\ Trouble
    /\ \/ job' = [NoJob EXCEPT !.pc = "keying"]
       \/ peer # 0 /\ job' = [NoJob EXCEPT !.pc = "driver", !.key = peer, !.update = TRUE]
    /\ UNCHANGED <<keys, made, driver, remote, setup, registry, left, saved, clash>>

\* A key that is not active yet is given up.
KeyMade ==
    /\ job.pc = "keying" /\ NewKey
    /\ \/ job' = [job EXCEPT !.pc = "driver", !.key = made'] /\ UNCHANGED <<left, troubles>>
       \/ Trouble /\ Fails /\ left' = left \cup {made'}
    /\ UNCHANGED <<driver, remote, setup, registry, saved, clash>>

\* installOrUpdateDriver; installing an update restarts the driver.
DriverChecked ==
    /\ job.pc = "driver"
    /\ Goes(IF driver # "current" THEN "installing" ELSE IF job.update THEN "done" ELSE "role")
    /\ UNCHANGED <<keys, made, driver, remote, setup, registry, left, history>>
Installed ==
    /\ job.pc = "installing" /\ driver # "current" /\ driver' = "current"
    /\ Goes("driver")
    /\ Stopped
    /\ UNCHANGED <<keys, made, registry, history>>

\* agentRole: an agent that does not answer passes for one not set up.
RoleSeen ==
    /\ job.pc = "role"
    /\ \/ serving \in {"child", "unassigned"} /\ Goes("pairing") /\ UNCHANGED troubles
       \/ serving = "none" /\ Goes("start") /\ UNCHANGED troubles
       \/ serving # "none" /\ Trouble /\ Goes("start")
    /\ UNCHANGED <<keys, made, driver, remote, setup, registry, left, saved, clash>>

\* Faulty: the page answered is forgotten.
SeenNothing(page) == {}

Seen(page) == job.seen \cup {page}

\* Only pages to answer; a setup that is being answered shows none.
Asks(page) == page.state \in {"ask", "approval", "again", "finished"}

\* runRemoteDriverSetup: a setup in progress is aborted; every page is
\* answered once; a setup that is gone has ended well.
SetupStarts ==
    /\ job.pc = "start"
    /\ IF InSetup THEN Aborts /\ UNCHANGED job
       ELSE /\ \E c \in Calls : Begins(c, TRUE)
            /\ job' = [job EXCEPT !.pc = "asking", !.tries = 1]
PageAnswered ==
    /\ job.pc = "asking" /\ Asks(session) /\ session \notin job.seen
    /\ \E c \in Calls : Answers(c) \/ Confirms(c)
    /\ job' = [job EXCEPT !.seen = Seen(session),
                          !.tries = IF session.state = "ask" THEN @ + 1 ELSE @]
SetupSeen ==
    /\ job.pc = "asking" /\ session.state \in {"OK", "none"} /\ Goes("waiting")
    /\ UNCHANGED <<setup, left>>
SetupWatch ==
    /\ SetupStarts \/ PageAnswered \/ SetupSeen
    /\ UNCHANGED <<keys, made, driver, remote, registry, history>>

\* waitForAgentRole
RoleAwaited ==
    /\ \/ job.pc = "waiting" /\ serving \in {"child", "unassigned"} /\ Goes("pairing")
       \/ job.pc = "restarting" /\ serving = "child" /\ Goes("claiming")
    /\ UNCHANGED <<keys, made, driver, remote, setup, registry, left, history>>

\* verifyCoreKey and pinPair: an unassigned remote becomes a Satellite.  Whether
\* the job waits for that depends on the role it saw before, too.
PinPaired ==
    /\ job.pc = "pairing" /\ serving \in {"child", "unassigned"} /\ job.key \in keys
    /\ \/ memory.role = "unassigned" /\ Assigned("child") /\ Goes("restarting")
       \/ /\ memory.role = "child" /\ \E pc \in {"restarting", "claiming"} : Goes(pc)
          /\ UNCHANGED <<remote, left, clash>>
    /\ UNCHANGED <<keys, made, driver, setup, registry, saved, troubles>>

\* #claimSatellite: the Satellite saves its configuration, paired (markPaired);
\* the Primary saves its own.  Re-adding a Satellite revokes the management key
\* it had.
ClaimServed ==
    /\ job.pc = "claiming" /\ serving = "child" /\ memory.role = "child"
    /\ Resaved /\ Goes("claimed")
    /\ UNCHANGED <<keys, made, driver, setup, registry, saved, troubles>>
SupersededKey == {peer} \ {0, job.key}
Claimed ==
    /\ job.pc = "claimed" /\ Goes("done")
    /\ revoking' = revoking \cup SupersededKey
    /\ peer' = job.key /\ severed' = FALSE
    /\ UNCHANGED <<keys, made, driver, remote, setup, removal, left, history>>

\* revokeManagementKey; a failure is logged or ignored.
RevokesKey(k) ==
    \/ keys' = keys \ {k} /\ UNCHANGED <<left, troubles>>
    \/ Trouble /\ left' = left \cup {k} /\ UNCHANGED keys

\* That of a Satellite added again, in the background.
KeyRevoked ==
    /\ \E k \in revoking : revoking' = revoking \ {k} /\ RevokesKey(k)
    /\ UNCHANGED <<made, driver, remote, setup, job, peer, removal, severed, saved, clash>>

\* The action "remove": the Satellite is told, which may save its configuration;
\* the key is revoked, and then the Satellite is dropped and that is saved.
RemovalStarts ==
    /\ removal = "none" /\ peer # 0 /\ ~Running /\ Trouble
    /\ removal' = "revoking"
    /\ Resaved \/ UNCHANGED <<remote, left, clash>>
    /\ UNCHANGED <<keys, made, driver, setup, job, peer, revoking, severed, saved>>
RemovalRevokes ==
    /\ removal = "revoking" /\ removal' = "dropping" /\ RevokesKey(peer)
    /\ UNCHANGED <<made, driver, remote, setup, job, peer, revoking, severed, saved, clash>>
Removed ==
    /\ removal = "dropping" /\ removal' = "none"
    /\ peer' = 0 /\ severed' = FALSE
    /\ UNCHANGED <<keys, made, driver, remote, setup, job, revoking, left, history>>
Removal == RemovalStarts \/ RemovalRevokes \/ Removed

\* The Primary ends and starts again: its job and what it was revoking are gone.
PrimaryEnds ==
    /\ Trouble
    /\ job' = NoJob /\ revoking' = {} /\ removal' = "none"
    /\ severed' = (severed \/ peer \notin keys \cup {0})
    /\ left' = left \cup revoking \cup ({job.key} \ {0, peer})
    /\ UNCHANGED <<keys, made, driver, remote, setup, peer, saved, clash>>

\* What the job waits for will not come.
Hopeless ==
    \/ job.pc = "keying" /\ made = MaxKeys
    \/ job.pc = "role" /\ serving = "master"
    \/ job.pc = "start" /\ (driver = "none" \/ \A c \in Calls : calls[c].pc # "off")
    \/ job.pc = "asking" /\ (session.state = "ERROR" \/ session \in job.seen)
    \/ job.pc = "waiting" /\ serving \in {"none", "master"}
    \/ job.pc = "pairing" /\ ({serving, memory.role} \cap {"none", "master"} # {} \/ job.key \notin keys)
    \/ job.pc = "restarting" /\ serving # "child" /\ ~due
    \/ job.pc = "claiming" /\ {serving, memory.role} # {"child"}

\* A request of the job is refused or lost, or a wait of it ends; a setup that
\* takes too long is aborted, one that rejects its input is left as it is.
JobFails ==
    /\ Running
    /\ IF Hopeless THEN UNCHANGED troubles ELSE Trouble
    /\ \/ Failed /\ UNCHANGED setup
       \/ /\ job.pc = "asking" /\ InSetup /\ Fails
          /\ flow' = NoFlow /\ Shows("none", 0) /\ UNCHANGED calls
          /\ left' = left \cup ({flow.pending, job.key} \ {0, peer, stored.key})
    /\ UNCHANGED <<keys, made, driver, remote, registry, saved, clash>>

JobStep ==
    \/ KeyMade \/ DriverChecked \/ Installed \/ RoleSeen \/ SetupWatch
    \/ RoleAwaited \/ PinPaired \/ ClaimServed \/ Claimed \/ JobFails

ProvisioningNext ==
    \/ \E c \in Calls : SetupStep(c)
    \/ Restarts \/ Saves \/ Person \/ Dialog
    \/ Adds \/ JobStep \/ KeyRevoked \/ Removal \/ PrimaryEnds

ProvisioningSpec == ProvisioningInit /\ [][ProvisioningNext]_vars

\* Timers fire, requests are answered or time out.  A person need not act.
ProvisioningFairSpec ==
    /\ ProvisioningSpec
    /\ WF_vars(JobStep) /\ WF_vars(Restarts)
    /\ \A c \in Calls : WF_vars(SetupStep(c))

-----------------------------------------------------------------------------
(* Properties.                                                             *)

\* The keys that the remote and the Primary keep are keys of the Core: neither
\* setup nor claim revokes one in use.  There are two exceptions: a configuration
\* saved over a key its author had not seen, until a setup saves a new one; and a
\* Satellite whose removal has revoked its key, but has not dropped it yet or was
\* cut short by the end of the Primary.
KeysInUseExist ==
    /\ clash \/ stored.key \in keys \cup {0}
    /\ severed \/ removal = "dropping" \/ peer \in keys \cup {0}

\* Keys do not pile up: every one is in use, on its way into use, being
\* revoked, or was given up by a step that failed or was overtaken.
KeysAccounted ==
    keys \subseteq
        {stored.key, memory.key, peer, job.key, flow.pending} \cup revoking \cup left
            \cup CallKeys

\* A job of the Primary ends, and with it the address may be added again.
JobEnds == Running ~> ~Running
=============================================================================
