-------------------------- MODULE SnapshotDelivery --------------------------
(***************************************************************************)
(* How the Primary gets a snapshot to one Satellite: pushSnapshot,         *)
(* postSnapshot and waitForRestartAndResend of                             *)
(* src/src/service/sync-coordinator.js, service/peer-agent-client.js, the  *)
(* discovery cache of pairing/mdns.js and POST /v1/snapshots of            *)
(* agent/server.js.  What the Satellite then does with a snapshot is       *)
(* SatelliteMirror.                                                        *)
(*                                                                         *)
(* A push of syncNow and the push of a retry timer may be under way at the *)
(* same time.  A request that the Primary has given up goes on at the      *)
(* Satellite.  Addresses change hands: the Satellite's old one may belong  *)
(* to another Satellite of the same Primary.                               *)
(***************************************************************************)
EXTENDS SatelliteMirror, Integers, FiniteSets

CONSTANTS
    Pushes,       \* the pushes that may be under way at once
    Addresses,    \* what the Satellite's address may be; all others of the
                  \* Primary's Satellites have one of them, too
    SavedAddress, \* peer.url
    HasMac,       \* peer.mac is known, so a magic packet can be sent
    Restarts,     \* the Satellite is of the kind that answers 202 and restarts
    Descriptors,  \* what GET /v1/capabilities may say
    MaxTries,     \* bound: posts a push makes before its deadline
    Limits        \* bound: sets of allowances for disturbances

Disturbances == {"push", "fault", "sleep", "crash", "move"}

\* protocol/index.js and shared/constants.js.
ApiVersion     == 1
Protocols      == 1..2
SnapshotSchemas == {4, 5, 6}
Legacy == [service |-> "remote-sync", api |-> 1, protocol |-> 1, schema |-> 5,
           capabilities |-> {}]

\* How a post is answered, and how a push ends.
Replies == {"ok", "refused", "busy", "restart"}
Results == {"success", "failed"}

ASSUME DeliveryAssumption ==
    /\ SavedAddress \in Addresses
    /\ {HasMac, Restarts} \subseteq BOOLEAN
    /\ MaxTries \in Nat \ {0}
    /\ Limits \subseteq [Disturbances -> Nat]
    /\ Nothing \notin Addresses \cup Snapshots \cup Pushes \cup Replies \cup Results

VARIABLES
    push,       \* the pushes, see IdlePush
    requests,   \* posts whose body the Satellite has not handled yet
    serving,    \* the post whose snapshot is being applied, or Nothing
    awake,      \* the Satellite answers the network
    address,    \* its address
    other,      \* the address another Satellite of this Primary has
    cached,     \* RemoteSyncDiscovery.cache for the Satellite
    descriptor, \* what the Satellite says of itself
    budget

netVars == <<awake, address, other>>
vars == <<mvars, push, requests, serving, netVars, cached, descriptor, budget>>

\* mode tells where in pushSnapshot the push is; try counts its posts; reply
\* is what came back to the post it waits for.  A request is live while its
\* push waits for it.
IdlePush == [pc |-> "idle", mode |-> "first", snap |-> Nothing, try |-> 0,
             reply |-> Nothing, result |-> Nothing]
Modes == {"first", "second", "wake", "restart"}
Push == [pc : {"idle", "send", "wait"}, mode : Modes,
         snap : Snapshots \cup {Nothing}, try : 0..MaxTries,
         reply : Replies \cup {Nothing}, result : Results \cup {Nothing}]
Request == [by : Pushes, snap : Snapshots, live : BOOLEAN]

\* What the Core has of a snapshot in between is of no concern here.
Missing == [s \in Snapshots |-> Parts]

DeliveryTypeOK ==
    /\ push \in [Pushes -> Push]
    /\ requests \subseteq Request
    /\ serving \in Request \cup {Nothing}
    /\ running = Nothing => serving = Nothing
    /\ awake \in BOOLEAN /\ address \in Addresses /\ other \in Addresses \cup {Nothing}
    /\ cached \in Addresses \cup {Nothing}

DeliveryInit ==
    /\ running = Nothing /\ lacking = Missing /\ warned = {}
    /\ done = {} /\ answer = Nothing
    /\ push = [p \in Pushes |-> IdlePush]
    /\ requests = {} /\ serving = Nothing
    /\ awake \in BOOLEAN
    /\ address \in Addresses /\ other = Nothing
    /\ cached \in {Nothing, SavedAddress}
    /\ descriptor \in Descriptors
    /\ budget \in Limits

Spend(kind) == budget[kind] > 0 /\ budget' = [budget EXCEPT ![kind] = @ - 1]

-----------------------------------------------------------------------------
(* The Primary.                                                            *)

\* pushSnapshot is called with a snapshot, by syncNow or by a retry.
Start(p, s) ==
    /\ push[p].pc = "idle" /\ Spend("push")
    /\ push' = [push EXCEPT ![p] = [IdlePush EXCEPT !.pc = "send", !.snap = s, !.try = 1]]
    /\ UNCHANGED <<mvars, requests, serving, netVars, cached, descriptor>>

Ended(p, result) ==
    push' = [push EXCEPT ![p].pc = "idle", ![p].result = result, ![p].reply = Nothing]

\* Faulty: the deadline lets one more post through; or there is none.
AgainOnceMore(p, mode) ==
    IF push[p].try <= MaxTries
    THEN push' = [push EXCEPT ![p].pc = "send", ![p].mode = mode,
                                 ![p].reply = Nothing, ![p].try = @ + 1]
    ELSE Ended(p, "failed")
AgainForever(p, mode) ==
    push' = [push EXCEPT ![p].pc = "send", ![p].mode = mode, ![p].reply = Nothing]

\* The next post of a loop, unless its deadline has passed.
Again(p, mode) ==
    IF push[p].try < MaxTries
    THEN push' = [push EXCEPT ![p].pc = "send", ![p].mode = mode,
                                 ![p].reply = Nothing, ![p].try = @ + 1]
    ELSE Ended(p, "failed")

\* Faulty: the repeated post goes to the saved address.
ResolvedSaved(p) ==
    IF push[p].mode = "first" /\ cached # Nothing THEN cached ELSE SavedAddress

\* resolvePeerUrl: the cached address unless discovery is forced; a Satellite
\* that does not answer multicast is looked for at its saved address.
Resolved(p) ==
    IF push[p].mode = "first" /\ cached # Nothing THEN cached
    ELSE IF awake THEN address ELSE SavedAddress
Learnt(p) ==
    IF push[p].mode = "first" /\ cached # Nothing THEN cached
    ELSE IF awake THEN address ELSE cached

\* assertProtocolCompatibility with the one capability postSnapshot requires.
Compatible(d) ==
    /\ d.service = "remote-sync"
    /\ d.api = ApiVersion /\ d.protocol \in Protocols
    /\ d.schema \in SnapshotSchemas
    /\ "proxy_entities" \in d.capabilities

\* A transport error.  The first one clears the discovery cache; then a magic
\* packet is sent and the post repeated until the deadline, or, without a
\* hardware address, repeated once.  Sending the packet is part of the step.
Unreachable(p) ==
    LET mode == push[p].mode IN
    /\ CASE mode = "first" /\ HasMac -> Again(p, "wake")
         [] mode = "first" /\ ~HasMac -> Again(p, "second")
         [] mode = "second" -> Ended(p, "failed")
         [] OTHER -> Again(p, mode)
    /\ cached' = IF mode = "second" THEN cached ELSE Nothing
    /\ awake' = (awake \/ (mode = "first" /\ HasMac))

\* postSnapshot up to the request: resolve, ask for the capabilities, post.
\* Another Satellite at that address does not accept the signature (401).
Post(p) ==
    LET to == Resolved(p) IN
    /\ push[p].pc = "send"
    /\ \/ /\ awake /\ to = address /\ Compatible(descriptor)
          /\ push' = [push EXCEPT ![p].pc = "wait"]
          /\ requests' = requests \cup {[by |-> p, snap |-> push[p].snap, live |-> TRUE]}
          /\ cached' = Learnt(p) /\ UNCHANGED <<awake, budget>>
       \/ /\ to = other \/ (awake /\ to = address /\ ~Compatible(descriptor))
          /\ Ended(p, "failed")
          /\ cached' = Learnt(p) /\ UNCHANGED <<awake, budget, requests>>
       \/ /\ to # other
          /\ IF awake /\ to = address THEN Spend("fault") ELSE UNCHANGED budget
          /\ Unreachable(p) /\ UNCHANGED requests
    /\ UNCHANGED <<mvars, serving, address, other, descriptor>>

\* The connection breaks, or three minutes pass.  The Satellite may have the
\* whole body by then, and goes on with it.
PostFails(p) ==
    LET mine == {r \in requests : r.by = p /\ r.live}
        served == serving # Nothing /\ serving.by = p /\ serving.live IN
    /\ push[p].pc = "wait" /\ push[p].reply = Nothing
    /\ IF served \/ (mine # {} /\ awake) THEN Spend("fault") ELSE UNCHANGED budget
    /\ \E kept \in SUBSET mine :
          requests' = (requests \ mine) \cup {[r EXCEPT !.live = FALSE] : r \in kept}
    /\ serving' = IF served THEN [serving EXCEPT !.live = FALSE] ELSE serving
    /\ Unreachable(p)
    /\ UNCHANGED <<mvars, address, other, descriptor>>

\* Faulty: every answer below 300 is a success.
AcceptedBelow300(p) == push[p].reply \in {"ok", "restart"}

\* What the answer to a post means: 200 or 201 is a success; after a 202 the
\* post is repeated, and so it is while the restarting Satellite is busy.
Accepted(p) == push[p].reply = "ok"
Restarting(p) ==
    push[p].reply = "restart" \/ (push[p].reply = "busy" /\ push[p].mode = "restart")

\* pushSnapshot and waitForRestartAndResend on the answer to a post.
Handle(p) ==
    /\ push[p].reply # Nothing
    /\ CASE Accepted(p)   -> Ended(p, "success")
         [] Restarting(p) -> Again(p, "restart")
         [] OTHER         -> Ended(p, "failed")
    /\ cached' = IF push'[p].mode = "restart" THEN Nothing ELSE cached
    /\ UNCHANGED <<mvars, requests, serving, netVars, descriptor, budget>>

-----------------------------------------------------------------------------
(* The Satellite.                                                          *)

\* The answer reaches the post it belongs to, if that still waits.
Reply(r, reply) ==
    push' = IF r.live
            THEN [push EXCEPT ![r.by].reply = reply] ELSE push

Arrive(r) ==
    /\ r \in requests /\ requests' = requests \ {r}
    /\ \/ Busy(r.snap) /\ Reply(r, "busy") /\ UNCHANGED serving
       \/ Repeat(r.snap) /\ UNCHANGED lacking /\ Reply(r, "ok") /\ UNCHANGED serving
       \/ /\ Begin(r.snap) /\ lacking' = Missing
          /\ r.snap \notin done /\ serving' = r /\ UNCHANGED push
    /\ UNCHANGED <<netVars, cached, descriptor, budget>>

\* applyReceived ends.  An old Satellite may want to restart first: it
\* answers 202 and forgets the application.
Applied ==
    /\ serving # Nothing /\ serving' = Nothing
    /\ \/ /\ Succeed /\ lacking' = [Missing EXCEPT ![running] = {}]
          /\ Reply(serving, "ok") /\ UNCHANGED budget
       \/ Fail /\ lacking' = Missing /\ Reply(serving, "refused") /\ Spend("fault")
       \/ /\ Restarts /\ Spend("fault")
          /\ Fail /\ lacking' = Missing /\ Reply(serving, "restart")
    /\ UNCHANGED <<requests, netVars, cached, descriptor>>

-----------------------------------------------------------------------------
(* What happens around them.                                               *)

\* The driver of the Satellite dies, and with it its connections.
SatelliteDies ==
    /\ Spend("crash") /\ Die /\ lacking' = Missing
    /\ requests' = {} /\ serving' = Nothing
    /\ UNCHANGED <<push, netVars, cached, descriptor>>

\* The Satellite goes to standby; while it applies a snapshot it is inhibited.
FallAsleep ==
    /\ Spend("sleep") /\ awake /\ running = Nothing
    /\ awake' = FALSE /\ requests' = {}
    /\ UNCHANGED <<mvars, push, serving, address, other, cached, descriptor>>

\* The Satellite gets another address; its old one may be given away.
Move ==
    /\ Spend("move")
    /\ address' \in Addresses \ {address}
    /\ other' \in {Nothing, address}
    /\ UNCHANGED <<mvars, push, requests, serving, awake, cached, descriptor>>

\* Five minutes pass since the discovery.
CacheExpires ==
    /\ cached # Nothing /\ cached' = Nothing
    /\ UNCHANGED <<mvars, push, requests, serving, netVars, descriptor, budget>>

PushStep(p) == Post(p) \/ PostFails(p) \/ Handle(p)
SatelliteStep == Applied \/ \E r \in requests : Arrive(r)

DeliveryNext ==
    \/ \E p \in Pushes, s \in Snapshots : Start(p, s)
    \/ \E p \in Pushes : PushStep(p)
    \/ SatelliteStep \/ SatelliteDies \/ FallAsleep \/ Move \/ CacheExpires

DeliverySpec == DeliveryInit /\ [][DeliveryNext]_vars

\* The Primary's steps end by their timeouts; a Satellite that is awake and
\* alive handles what it has read, and its calls to the Core time out.
DeliveryFairness ==
    /\ \A p \in Pushes : WF_vars(Post(p)) /\ WF_vars(PostFails(p)) /\ WF_vars(Handle(p))
    /\ WF_vars(Applied) /\ WF_vars(\E r \in requests : Arrive(r))
DeliveryFairSpec == DeliverySpec /\ DeliveryFairness

-----------------------------------------------------------------------------
(* Properties.                                                             *)

\* A push that is recorded as a success was carried out: the Satellite did
\* apply that snapshot, whatever was lost, repeated or answered in between.
SuccessWasApplied ==
    \A p \in Pushes : push[p].result = "success" => push[p].snap \in done

\* Every push comes to an end: the Satellite may die, sleep or move.
PushEnds == \A p \in Pushes : push[p].pc # "idle" ~> push[p].pc = "idle"

\* With nothing disturbed any more, and no other push under way, a push to a
\* Satellite that sleeps or has moved reaches it: the magic packet wakes it, a
\* fresh discovery finds it.  Not if the cached address is another
\* Satellite's: that one answers, and the push ends there.
Calm(p) ==
    /\ \A d \in Disturbances : budget[d] = 0
    /\ \A q \in Pushes \ {p} : push[q].pc = "idle"
    /\ requests = {} /\ running = Nothing
    /\ push[p].pc = "send" /\ push[p].mode = "first"
    /\ Compatible(descriptor)
    /\ awake \/ HasMac
    /\ other \notin {cached, SavedAddress}
SleeperIsReached ==
    \A p \in Pushes : Calm(p) ~> push[p].pc = "idle" /\ push[p].result = "success"
=============================================================================
