----------------------------- MODULE CoreSession -----------------------------
(***************************************************************************)
(* How the driver talks to the Core: the WebSocket session that all calls  *)
(* of a CoreClient share (src/src/core/client.js), the CoreWebSocket it is *)
(* made of, a standby inhibitor and the CoreEventWatcher (core/events.js)  *)
(* that have one of their own, and HTTP requests that wake a remote.       *)
(*                                                                         *)
(* A call is an async function: it gives way where it awaits a connection, *)
(* an answer or a close.  What runs on when a promise settles runs before  *)
(* the next event of a socket or a timer; such steps are "due" below.      *)
(***************************************************************************)
EXTENDS Integers, Sequences, FiniteSets

CONSTANTS
    Calls,       \* the calls of a behaviour
    Programs,    \* bound: what kind each of them is, whether there is a
                 \* watcher, and how many drops, refused connections,
                 \* timeouts and closes there may be
    MaxProbes    \* bound: retries before the wake-up deadline

\* "get": coreMessage("get_..."); "set": any other coreMessage; "batch": a
\* callback of withSharedWebSocket that makes two requests; "http": request();
\* "inhibit": withStandbyInhibitor, around an application to a Satellite.
Kinds == {"get", "set", "batch", "http", "inhibit"}

ASSUME CoreAssumption ==
    /\ IsFiniteSet(Calls)
    /\ Programs \subseteq [kind : [Calls -> Kinds \cup {"none"}], watch : BOOLEAN, faults : Nat]
    /\ MaxProbes \in Nat

VARIABLES
    program,    \* what happens
    call,       \* how far each call is, see NewCall
    objects,    \* the CoreWebSockets: [socket, connecting], 0 for null
    sockets,    \* the connections: [object, state]
    shared,     \* sharedSocket, the number of an object or 0
    timer,      \* sharedIdleTimer is armed
    watcher,    \* CoreEventWatcher.run: [pc, object, stopped]
    late,       \* history: stop() came while the watcher was connecting
    forsaken,   \* history: objects that were closed before their connection was
                \* there, or that a batch opens again after they were dropped
    faults

vars == <<program, call, objects, sockets, shared, timer, watcher, late, forsaken, faults>>

\* object is the ws a call has; socket the one its request went out on; sent
\* counts how often the Core got the request in hand; left the requests to go.
NewCall == [pc |-> "new", object |-> 0, socket |-> 0, try |-> 1, left |-> 1, sent |-> 0,
            result |-> "none"]
Waiting == {"shared", "connect", "wait", "hold", "closing"}
Due == {"sharedOK", "connectOK", "failed"}
Http == {"http", "probe"}

Watcher == [pc |-> "sleep", object |-> 0, socket |-> 0, stopped |-> FALSE]

CoreTypeOK ==
    /\ \A c \in Calls :
          /\ call[c].pc \in {"new", "done"} \cup Waiting \cup Due \cup Http
          /\ call[c].object \in 0..Len(objects) /\ call[c].socket \in 0..Len(sockets)
          /\ call[c].result \in {"none", "ok", "refused", "error"}
          /\ call[c].pc = "wait" => call[c].socket # 0
    /\ \A o \in DOMAIN objects :
          /\ objects[o].socket # 0 => sockets[objects[o].socket].object = o
          /\ objects[o].connecting # 0 => sockets[objects[o].connecting].state = "connecting"
    /\ \A s \in DOMAIN sockets :
          sockets[s].state \in {"connecting", "open", "ended", "closing", "closed"}
    /\ shared \in 0..Len(objects)
    /\ watcher.pc \in {"sleep", "connect", "subscribe", "listening", "closing", "ended"}

CoreInit ==
    /\ program \in Programs
    /\ call = [c \in Calls |->
                  IF program.kind[c] = "none" THEN [NewCall EXCEPT !.pc = "done"] ELSE NewCall]
    /\ watcher = IF program.watch THEN Watcher ELSE [Watcher EXCEPT !.pc = "ended"]
    /\ objects = <<>> /\ sockets = <<>> /\ shared = 0
    /\ timer = FALSE /\ late = FALSE /\ forsaken = {} /\ faults = 0

Kind(c) == program.kind[c]
Fault == faults < program.faults /\ faults' = faults + 1

\* No continuation is due: the event loop turns.
Quiet == \A c \in Calls : call[c].pc \notin Due

-----------------------------------------------------------------------------
(* CoreWebSocket.                                                          *)

Open(o) == objects[o].socket # 0 /\ sockets[objects[o].socket].state = "open"
Connected(o) == o # 0 /\ Open(o)
Connecting(o) == o # 0 /\ objects[o].connecting # 0

Fresh == [socket |-> 0, connecting |-> 0]

\* connect() of object o of objs: open, opening, or one more connection.
Connects(objs, o) ==
    IF \/ objs[o].socket # 0 /\ sockets[objs[o].socket].state = "open"
       \/ objs[o].connecting # 0
    THEN /\ objects' = objs /\ UNCHANGED sockets
    ELSE /\ objects' = [objs EXCEPT ![o].connecting = Len(sockets) + 1]
         /\ sockets' = Append(sockets, [object |-> o, state |-> "connecting"])

\* close() of object o: nothing is closed that is not there yet; the others
\* say goodbye and are closed some time later.
Closes(o) ==
    IF o # 0 /\ objects[o].socket # 0
    THEN LET s == objects[o].socket IN
         /\ objects' = [objects EXCEPT ![o].socket = 0]
         /\ sockets' = [sockets EXCEPT ![s].state = IF @ = "closed" THEN @ ELSE "closing"]
    ELSE UNCHANGED <<objects, sockets>>

\* Faulty: the one that opens the connection is told, others wait on.
SettledOne(o, pc) ==
    LET waiting == {c \in Calls : call[c].pc \in {"shared", "connect"} /\ call[c].object = o} IN
    IF waiting = {} THEN call
    ELSE LET one == CHOOSE c \in waiting : TRUE IN [call EXCEPT ![one].pc = "failed"]

\* Everybody who awaits the connection of o learns how it ended.
Settled(o, ok) ==
    [c \in Calls |->
        IF call[c].pc \in {"shared", "connect"} /\ call[c].object = o
        THEN [call[c] EXCEPT !.pc = IF ~ok THEN "failed"
                                    ELSE IF @ = "shared" THEN "sharedOK" ELSE "connectOK"]
        ELSE call[c]]

\* Faulty: the promise of a connection that failed stays.
SettlesNot(o) == objects

\* connecting is null again, however the connection ended.
Settles(o) == [objects EXCEPT ![o].connecting = 0]

\* The connection is refused or times out.  While the Core answers 503, #open
\* tries again by itself: that is the connection taking longer.
Opened(s) ==
    LET o == sockets[s].object IN
    /\ Quiet /\ sockets[s].state = "connecting"
    /\ sockets' = [sockets EXCEPT ![s].state = "open"]
    /\ objects' = [Settles(o) EXCEPT ![o].socket = s]
    /\ call' = Settled(o, TRUE)
    /\ UNCHANGED <<program, shared, timer, watcher, late, forsaken, faults>>
NotOpened(s) ==
    LET o == sockets[s].object IN
    /\ Quiet /\ sockets[s].state = "connecting" /\ Fault
    /\ sockets' = [sockets EXCEPT ![s].state = "closed"]
    /\ objects' = Settles(o)
    /\ call' = Settled(o, FALSE)
    /\ watcher' = IF watcher.pc = "connect" /\ watcher.object = o
                  THEN [watcher EXCEPT !.pc = "closing"] ELSE watcher
    /\ UNCHANGED <<program, shared, timer, late, forsaken>>

\* The Core ends a session: it is not open any more, and is closed later.
Drop(s) ==
    /\ Quiet /\ sockets[s].state = "open" /\ Fault
    /\ sockets' = [sockets EXCEPT ![s].state = "ended"]
    /\ UNCHANGED <<program, call, objects, shared, timer, watcher, late, forsaken>>

\* The "close" event: whatever awaits an answer on this object is rejected,
\* even if it went out on a later connection of it.
Closed(s) ==
    LET o == sockets[s].object IN
    /\ Quiet /\ sockets[s].state \in {"ended", "closing"}
    /\ sockets' = [sockets EXCEPT ![s].state = "closed"]
    /\ objects' = [objects EXCEPT ![o].socket = IF @ = s THEN 0 ELSE @]
    /\ call' = [c \in Calls |->
                   IF call[c].pc = "wait" /\ call[c].object = o
                   THEN [call[c] EXCEPT !.pc = "failed"] ELSE call[c]]
    /\ watcher' = IF \/ watcher.pc = "subscribe" /\ watcher.object = o
                     \/ watcher.pc = "listening" /\ watcher.socket = s
                  THEN [watcher EXCEPT !.pc = "closing"] ELSE watcher
    /\ UNCHANGED <<program, shared, timer, late, forsaken, faults>>

-----------------------------------------------------------------------------
(* The calls of a client.                                                  *)

InFlight ==
    {c \in Calls : /\ Kind(c) \notin {"http", "inhibit"}
                   /\ call[c].pc \notin {"new", "done", "closing"}}

\* Faulty: a session that is being opened does not count.
SharedIsOpen == Connected(shared)

\* The shared session is open or being opened.
SharedIsUsable == Connected(shared) \/ Connecting(shared)

\* withSharedWebSocket: the session that is there or coming, or a new object.
\* The idle timer is stopped.
Enter(c, try) ==
    LET o == IF SharedIsUsable THEN shared ELSE Len(objects) + 1
        objs == IF o = shared THEN objects ELSE Append(objects, Fresh) IN
    /\ shared' = o /\ timer' = FALSE
    /\ Connects(objs, o)
    /\ call' = [call EXCEPT ![c] = [@ EXCEPT !.object = o, !.try = try,
                   !.left = IF Kind(c) = "batch" THEN 2 ELSE 1,
                   !.pc = IF Connected(shared) THEN "sharedOK" ELSE "shared"]]

Start(c) ==
    /\ Quiet /\ call[c].pc = "new" /\ Kind(c) \notin {"http", "inhibit"}
    /\ Enter(c, 1)
    /\ UNCHANGED <<program, watcher, late, forsaken, faults>>

\* The callback gets whatever sharedSocket is by then: another object, if it
\* was replaced; nothing, if it was closed, and then the callback throws.
\* Its first request connects that object.
Resume(c) ==
    /\ call[c].pc = "sharedOK"
    /\ IF shared = 0
       THEN call' = [call EXCEPT ![c].pc = "failed"] /\ UNCHANGED <<objects, sockets>>
       ELSE /\ Connects(objects, shared)
            /\ call' = [call EXCEPT ![c] = [@ EXCEPT !.object = shared,
                   !.pc = IF Connected(shared) THEN "connectOK" ELSE "connect"]]
    /\ UNCHANGED <<program, shared, timer, watcher, late, forsaken, faults>>

\* The request is sent, unless the connection is gone again.
Send(c) ==
    LET o == call[c].object IN
    /\ call[c].pc = "connectOK"
    /\ call' = [call EXCEPT ![c] =
                   IF Open(o) THEN [@ EXCEPT !.pc = "wait", !.socket = objects[o].socket,
                                             !.sent = call[c].sent + 1]
                   ELSE [@ EXCEPT !.pc = "failed"]]
    /\ UNCHANGED <<program, objects, sockets, shared, timer, watcher, late, forsaken, faults>>

\* Faulty: the finally is left out, a refused call does not release the session.
ReleaseAfter(c, result) == timer' = (InFlight = {c} /\ result = "ok")

\* #releaseShared: the idle timer runs when nobody uses the session.
Released(c, result) == timer' = (InFlight = {c} \/ timer)

Over(c, result) ==
    call' = [call EXCEPT ![c] = [NewCall EXCEPT !.pc = "done", !.sent = call[c].sent,
                                               !.result = result]]
Return(c, result) == Over(c, result) /\ Released(c, result)

\* The next request of c, on the object it has.
NextRequest(c) ==
    LET o == call[c].object IN
    /\ Connects(objects, o)
    /\ call' = [call EXCEPT ![c] = [@ EXCEPT !.left = 1, !.sent = 0,
                   !.pc = IF Open(o) THEN "connectOK" ELSE "connect"]]

\* An answer, if its connection lives: a refusal ends the call; a batch goes on
\* with its next request, on its own object, whether it is still the shared one.
Heard(c) ==
    Quiet /\ call[c].pc = "wait" /\ sockets[call[c].socket].state \in {"open", "closing"}
Answer(c) ==
    /\ Heard(c) /\ Kind(c) # "inhibit"
    /\ \/ Return(c, "refused") /\ UNCHANGED <<objects, sockets, forsaken>>
       \/ call[c].left = 1 /\ Return(c, "ok") /\ UNCHANGED <<objects, sockets, forsaken>>
       \/ /\ call[c].left > 1
          /\ NextRequest(c)
          /\ forsaken' = forsaken \cup ({call[c].object} \ {shared})
          /\ UNCHANGED timer
    /\ UNCHANGED <<program, shared, watcher, late, faults>>

TimeOut(c) ==
    /\ Quiet /\ call[c].pc = "wait"
    /\ IF sockets[call[c].socket].state = "open" THEN Fault ELSE UNCHANGED faults
    /\ call' = [call EXCEPT ![c].pc = "failed"]
    /\ UNCHANGED <<program, objects, sockets, shared, timer, watcher, late, forsaken>>

\* Faulty: every message is tried again.
RetriesAll(c) == Kind(c) # "batch" /\ call[c].try = 1

\* coreMessage repeats a "get_" once.
Retries(c) == Kind(c) = "get" /\ call[c].try = 1

\* The client lets go of its session and closes it; one that is being opened is
\* not there yet to be closed.
DropShared ==
    /\ shared' = 0 /\ Closes(shared)
    /\ forsaken' = IF Connecting(shared) THEN forsaken \cup {shared} ELSE forsaken

\* A call fails.  To repeat it, coreMessage closes the shared session, whoever
\* else has opened or uses it by now, and waits for that.
Fail(c) ==
    /\ call[c].pc = "failed" /\ Kind(c) # "inhibit"
    /\ IF Retries(c)
       THEN /\ Released(c, "error")
            /\ call' = [call EXCEPT ![c] = [@ EXCEPT !.pc = "closing",
                          !.socket = IF shared = 0 THEN 0 ELSE objects[shared].socket]]
            /\ DropShared
       ELSE Return(c, "error") /\ UNCHANGED <<objects, sockets, shared, forsaken>>
    /\ UNCHANGED <<program, watcher, late, faults>>

\* close() is awaited until the connection is closed.
Gone(c) ==
    LET s == call[c].socket IN
    Quiet /\ call[c].pc = "closing" /\ (s # 0 => sockets[s].state = "closed")
Again(c) ==
    /\ Gone(c) /\ Kind(c) # "inhibit"
    /\ Enter(c, 2)
    /\ UNCHANGED <<program, watcher, late, forsaken, faults>>

\* Twenty seconds without a call.
Idle ==
    /\ Quiet /\ timer /\ InFlight = {} /\ timer' = FALSE
    /\ DropShared
    /\ UNCHANGED <<program, call, watcher, late, faults>>

\* The client is closed, when the services stop.
CloseClient ==
    /\ Quiet /\ shared # 0 /\ Fault
    /\ timer' = FALSE /\ DropShared
    /\ UNCHANGED <<program, call, watcher, late>>

-----------------------------------------------------------------------------
(* withStandbyInhibitor: a session beside the shared one, for as long as its *)
(* callback runs.                                                          *)

Inhibit(c) ==
    LET o == Len(objects) + 1 IN
    /\ Quiet /\ call[c].pc = "new" /\ Kind(c) = "inhibit"
    /\ Connects(Append(objects, Fresh), o)
    /\ call' = [call EXCEPT ![c] = [@ EXCEPT !.object = o, !.left = 2, !.pc = "connect"]]
    /\ UNCHANGED <<program, shared, timer, watcher, late, forsaken, faults>>

\* Created, the inhibitor holds while the callback runs; refused, or when it was
\* to be removed, whatever the answer, the finally block is next.
Granted(c) ==
    /\ Heard(c) /\ Kind(c) = "inhibit"
    /\ \/ /\ call[c].left > 1
          /\ call' = [call EXCEPT ![c] = [@ EXCEPT !.pc = "hold", !.left = 1, !.sent = 0]]
       \/ call' = [call EXCEPT ![c].pc = "failed"]
    /\ UNCHANGED <<program, objects, sockets, shared, timer, watcher, late, forsaken, faults>>

\* The callback has ended, one way or the other: the inhibitor is removed, over
\* a new connection if the first was lost.
Remove(c) ==
    /\ Quiet /\ call[c].pc = "hold"
    /\ NextRequest(c)
    /\ UNCHANGED <<program, shared, timer, watcher, late, forsaken, faults>>

\* The session is closed, and that is awaited.
Leave(c) ==
    /\ call[c].pc = "failed" /\ Kind(c) = "inhibit"
    /\ call' = [call EXCEPT ![c] = [@ EXCEPT !.pc = "closing",
                   !.socket = objects[call[c].object].socket]]
    /\ Closes(call[c].object)
    /\ UNCHANGED <<program, shared, timer, watcher, late, forsaken, faults>>
Left(c) ==
    /\ Gone(c) /\ Kind(c) = "inhibit"
    /\ \E result \in {"ok", "error"} : (result = "ok" => call[c].left = 1) /\ Over(c, result)
    /\ UNCHANGED <<program, objects, sockets, shared, timer, watcher, late, forsaken, faults>>

-----------------------------------------------------------------------------
(* request() over HTTP.                                                    *)

\* A transport error, before or after the Core had the request: a magic packet
\* is sent, and the Core probed until it answers; then the request is repeated.
HttpStep(c, executed, to) ==
    /\ call' = [call EXCEPT ![c] = [@ EXCEPT !.pc = to, !.sent = call[c].sent + executed,
                   !.result = IF to = "done" THEN IF executed = 1 THEN "ok" ELSE "error" ELSE "none",
                   !.try = IF to = "probe" THEN call[c].try + 1 ELSE call[c].try]]
    /\ UNCHANGED <<program, objects, sockets, shared, timer, watcher, late, forsaken>>

HttpStart(c) ==
    /\ Quiet /\ Kind(c) = "http" /\ call[c].pc = "new"
    /\ HttpStep(c, 0, "http") /\ UNCHANGED faults
HttpAnswer(c) == call[c].pc = "http" /\ HttpStep(c, 1, "done") /\ UNCHANGED faults
HttpLost(c) ==
    /\ call[c].pc = "http" /\ Fault
    /\ \E executed \in {0, 1} : HttpStep(c, executed, "probe")
Probe(c) ==
    /\ call[c].pc = "probe"
    /\ \/ HttpStep(c, 0, "http") /\ UNCHANGED faults
       \/ call[c].try <= MaxProbes /\ HttpStep(c, 0, "probe") /\ Fault
       \/ call[c].try > MaxProbes /\ HttpStep(c, 0, "done") /\ UNCHANGED faults

-----------------------------------------------------------------------------
(* The watcher.                                                            *)

\* The loop begins a round, unless it is stopped.
Round ==
    /\ watcher.pc = "sleep"
    /\ IF watcher.stopped
       THEN watcher' = [watcher EXCEPT !.pc = "ended"] /\ UNCHANGED <<objects, sockets>>
       ELSE /\ watcher' = [watcher EXCEPT !.pc = "connect", !.object = Len(objects) + 1]
            /\ Connects(Append(objects, Fresh), Len(objects) + 1)
    /\ UNCHANGED <<program, call, shared, timer, late, forsaken, faults>>

\* It is connected, and subscribes; then it listens until the session ends.
Subscribe ==
    /\ watcher.pc = "connect" /\ ~Connecting(watcher.object)
    /\ watcher' = [watcher EXCEPT !.pc = IF Open(watcher.object) THEN "subscribe" ELSE "closing",
                                  !.socket = objects[watcher.object].socket]
    /\ UNCHANGED <<program, call, objects, sockets, shared, timer, late, forsaken, faults>>
Subscribed ==
    /\ watcher.pc = "subscribe" /\ Open(watcher.object)
    /\ \/ watcher' = [watcher EXCEPT !.pc = "listening"] /\ UNCHANGED faults
       \/ watcher' = [watcher EXCEPT !.pc = "closing"] /\ Fault
    /\ UNCHANGED <<program, call, objects, sockets, shared, timer, late, forsaken>>

\* Faulty: an error ends the loop.
RestingNot == "ended"

\* The finally block, and the pause before the next round.
Resting == IF watcher.stopped THEN "ended" ELSE "sleep"
Finally ==
    /\ watcher.pc = "closing"
    /\ watcher' = [watcher EXCEPT !.pc = Resting, !.object = 0, !.socket = 0]
    /\ Closes(watcher.object)
    /\ UNCHANGED <<program, call, shared, timer, late, forsaken, faults>>

\* Faulty: stop() leaves the session alone.
StopsQuietly == UNCHANGED <<objects, sockets>>

\* stop(): closes the session; one that is still being opened is not closed.
Stops == Closes(watcher.object)
Stop ==
    /\ watcher.pc # "ended" /\ ~watcher.stopped
    /\ watcher' = [watcher EXCEPT !.stopped = TRUE]
    /\ late' = Connecting(watcher.object)
    /\ Stops
    /\ UNCHANGED <<program, call, shared, timer, forsaken, faults>>

-----------------------------------------------------------------------------

CallStep(c) ==
    \/ Resume(c) \/ Send(c) \/ Answer(c) \/ TimeOut(c) \/ Fail(c) \/ Again(c)
    \/ Granted(c) \/ Remove(c) \/ Leave(c) \/ Left(c)
    \/ HttpAnswer(c) \/ HttpLost(c) \/ Probe(c)
SocketStep(s) == Opened(s) \/ NotOpened(s) \/ Closed(s)
WatcherStep == Round \/ Subscribe \/ Subscribed \/ Finally

CoreNext ==
    \/ \E c \in Calls : Start(c) \/ Inhibit(c) \/ HttpStart(c) \/ CallStep(c)
    \/ \E s \in DOMAIN sockets : SocketStep(s) \/ Drop(s)
    \/ Idle \/ CloseClient \/ WatcherStep \/ Stop

CoreSpec == CoreInit /\ [][CoreNext]_vars

\* Connections, requests and closes end by their timeouts, timers fire.  The
\* Core is not obliged to end a session.
CoreFairness ==
    /\ \A c \in Calls : WF_vars(CallStep(c))
    /\ WF_vars(\E s \in DOMAIN sockets : SocketStep(s))
    /\ WF_vars(Idle) /\ WF_vars(WatcherStep)
CoreFairSpec == CoreSpec /\ CoreFairness

-----------------------------------------------------------------------------
(* Properties.                                                             *)

Sessions == {s \in DOMAIN sockets : sockets[s].state \in {"connecting", "open"}}

\* What the inhibitors at work have for themselves.
Inhibitors == {call[c].object : c \in {d \in Calls : Kind(d) = "inhibit"}}

\* However many calls there are and whatever fails, a client has one session
\* that they share, one for each inhibitor and one for the watcher.  The only
\* others are of objects that were given up while they were connecting, and of
\* those that a batch opens again.
SharesOneSession ==
    LET others == {s \in Sessions : sockets[s].object \notin {watcher.object} \cup Inhibitors
                                                              \cup forsaken} IN
    /\ \A s \in others : sockets[s].object = shared
    /\ Cardinality(others) <= 1

\* A message that changes the Core is sent once, whatever happens to the
\* session, and a call that reports success was sent.
SentOnce ==
    \A c \in Calls :
        /\ Kind(c) \in {"set", "batch", "inhibit"} => call[c].sent <= 1
        /\ call[c].result = "ok" /\ Kind(c) # "inhibit" => call[c].sent > 0

\* Every call ends, with whatever connection lost, replaced or closed by others.
CallsEnd == \A c \in Calls : call[c].pc # "new" ~> call[c].pc = "done"

\* A client at rest gives every session back, whatever happened before, but for
\* the forsaken ones: nobody has those any more.
AtRest == \A c \in Calls : call[c].pc \in {"new", "done"}
SessionIsReturned ==
    AtRest /\ watcher.pc = "ended" ~>
        (\A s \in Sessions : sockets[s].object \in forsaken) \/ ~AtRest

\* The watcher comes back after every loss of its session until it is stopped;
\* and stopping it ends it, unless it was just connecting.
WatcherReturns == watcher.pc # "ended" ~> watcher.pc = "listening" \/ watcher.stopped
WatcherEnds == watcher.stopped /\ ~late ~> watcher.pc = "ended"
=============================================================================
