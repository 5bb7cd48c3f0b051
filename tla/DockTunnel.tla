----------------------------- MODULE DockTunnel -----------------------------
(***************************************************************************)
(* A Satellite's Core talks to a Dock that only the Primary reaches        *)
(* (src/src/dock/proxy.js, openDockTunnel of service/index.js, the upgrade *)
(* of agent/server.js, the WebSocketPeer of transport/websocket.js).       *)
(* Three connections make a chain:                                         *)
(*                                                                         *)
(*     Core -- local      tunnel -- down      up -- Dock                   *)
(*             Satellite            Primary                                *)
(*                                                                         *)
(* The Satellite and the Primary each relay between two connections, once  *)
(* they have made the second one.  What the first one does before that     *)
(* goes by unheard.                                                        *)
(***************************************************************************)
EXTENDS Integers, Sequences, FiniteSets

CONSTANTS
    Words,      \* what the Core says: "virtual", an authentication with the
                \* token its Dock was given, "wrong", with another, "request"
    MaxSent,    \* bound: messages the Core sends
    MaxFaults   \* bound: connections that break or cannot be made

ASSUME DockAssumption ==
    Words \subseteq {"virtual", "wrong", "request"} /\ MaxSent \in Nat /\ MaxFaults \in Nat

Ends == {"core", "local", "tunnel", "down", "up", "dock"}
Partner == [core |-> "local", local |-> "core", tunnel |-> "down", down |-> "tunnel",
            up |-> "dock", dock |-> "up"]
Outer == {"core", "dock"}
Relays == {"satellite", "primary"}
Left == [satellite |-> "local", primary |-> "down"]
Right == [satellite |-> "tunnel", primary |-> "up"]
RelayOf(e) == IF e \in {"local", "tunnel"} THEN "satellite" ELSE "primary"
Other(e) == IF e = Left[RelayOf(e)] THEN Right[RelayOf(e)] ELSE Left[RelayOf(e)]

VARIABLES
    end,       \* readyState of each end; "none" before it is there
    queue,     \* what is on its way to each end: what was said, and the word now
    relay,     \* each relay: "none", "connecting", "relaying", "over"
    sessions,  \* the relays whose session is tracked, for stop()
    stop,      \* stop() of each side: "no", "waits", "done"
    sent,      \* messages the Core has sent
    reached,   \* what reached the Dock
    refused,   \* what the Core was answered 401
    unheard,   \* history: a connection was closed, or stop() called, too early
    faults

vars == <<end, queue, relay, sessions, stop, sent, reached, refused, unheard, faults>>

\* Types; a session is kept of a relay that began, a relay that began has both
\* its connections, and one that is over has left neither open.
DockTypeOK ==
    /\ end \in [Ends -> {"none", "open", "closing", "closed"}]
    /\ relay \in [Relays -> {"none", "connecting", "relaying", "over"}]
    /\ sessions \subseteq Relays
    /\ \A r \in Relays :
          /\ r \in sessions => relay[r] \in {"relaying", "over"}
          /\ relay[r] = "relaying" => end[Left[r]] # "none" /\ end[Right[r]] # "none"
          /\ relay[r] = "over" => end[Left[r]] # "open" /\ end[Right[r]] # "open"
    /\ stop \in [Relays -> {"no", "waits", "done"}]
    /\ sent \in 0..MaxSent

DockInit ==
    /\ end = [e \in Ends |-> "none"] /\ queue = [e \in Ends |-> <<>>]
    /\ relay = [r \in Relays |-> "none"] /\ sessions = {}
    /\ stop = [r \in Relays |-> "no"]
    /\ sent = 0 /\ reached = <<>> /\ refused = {}
    /\ unheard = FALSE /\ faults = 0

Fault == faults < MaxFaults /\ faults' = faults + 1
Gone(e) == end[e] \in {"closing", "closed"}

\* closePeer: an open end says goodbye, another one is destroyed already.  How
\* the Core and the Dock close their own end is not looked at.
Closing(ends, es) ==
    [e \in Ends |-> IF e \in es /\ ends[e] = "open"
                    THEN IF e \in Outer THEN "closed" ELSE "closing"
                    ELSE ends[e]]

-----------------------------------------------------------------------------
(* Making the chain.                                                       *)

\* The Core connects to the virtual Dock.
CoreConnects ==
    /\ end["core"] = "none" /\ stop["satellite"] = "no"
    /\ end' = [end EXCEPT !["core"] = "open", !["local"] = "open"]
    /\ relay' = [relay EXCEPT !["satellite"] = "connecting"]
    /\ UNCHANGED <<queue, sessions, stop, sent, reached, refused, unheard, faults>>

\* What the relay missed of its left side.
Missed(r) == unheard \/ Gone(Left[r]) \/ stop[r] # "no"

\* The Primary accepts the upgrade; the Satellite relays from now on, whatever
\* has become of the Core's connection.
TunnelOpens ==
    /\ relay["satellite"] = "connecting" /\ stop["primary"] = "no"
    /\ end' = [end EXCEPT !["tunnel"] = "open", !["down"] = "open"]
    /\ relay' = [relay EXCEPT !["satellite"] = "relaying", !["primary"] = "connecting"]
    /\ sessions' = sessions \cup {"satellite"}
    /\ unheard' = Missed("satellite")
    /\ UNCHANGED <<queue, stop, sent, reached, refused, faults>>

\* #dockDetail and the connection to the Dock; then the Primary relays.
DockOpens ==
    /\ relay["primary"] = "connecting"
    /\ end' = [end EXCEPT !["up"] = "open", !["dock"] = "open"]
    /\ relay' = [relay EXCEPT !["primary"] = "relaying"]
    /\ sessions' = sessions \cup {"primary"}
    /\ unheard' = Missed("primary")
    /\ UNCHANGED <<queue, stop, sent, reached, refused, faults>>

\* The second connection cannot be made: the first one is closed.
Fails(r) ==
    /\ relay[r] = "connecting" /\ (Fault \/ (r = "satellite" /\ stop["primary"] # "no"
                                             /\ UNCHANGED faults))
    /\ relay' = [relay EXCEPT ![r] = "over"]
    /\ end' = Closing(end, {Left[r]})
    /\ UNCHANGED <<queue, sessions, stop, sent, reached, refused, unheard>>

-----------------------------------------------------------------------------
(* Messages.                                                               *)

CoreSends(w) ==
    /\ end["core"] = "open" /\ sent < MaxSent /\ sent' = sent + 1
    /\ queue' = [queue EXCEPT !["local"] = Append(@, [said |-> w, word |-> w])]
    /\ UNCHANGED <<end, relay, sessions, stop, reached, refused, unheard, faults>>

\* Faulty: the token is not looked at.
TransformBlind(m) == IF m.word = "request" THEN m ELSE [m EXCEPT !.word = "physical"]

\* The transform of bridgeMasterDockTunnel on what comes from the Satellite:
\* the physical token for the virtual one, and an answer to any other.
Transform(m) ==
    CASE m.word = "virtual" -> [m EXCEPT !.word = "physical"]
      [] m.word = "wrong"   -> [m EXCEPT !.word = "401"]
      [] OTHER              -> m

Moved(e, to, m) ==
    [queue EXCEPT ![e] = Tail(@), ![to] = IF end[to] = "closed" THEN @ ELSE Append(@, m)]

\* The next message arrives at an end.  Without a relay nobody listens; a
\* relay sends it on, or the answer back, while the end to send from is open.
Arrives(e) == queue[e] # <<>> /\ end[e] \in {"open", "closing"}
Relay(e) ==
    LET m == IF e = "down" THEN Transform(Head(queue[e])) ELSE Head(queue[e])
        from == IF e = "down" /\ m.word = "401" THEN e ELSE Other(e) IN
    /\ e \in Ends \ Outer /\ Arrives(e)
    /\ queue' = IF relay[RelayOf(e)] \in {"relaying", "over"} /\ end[from] = "open"
                THEN Moved(e, Partner[from], m)
                ELSE [queue EXCEPT ![e] = Tail(@)]
    /\ UNCHANGED <<end, relay, sessions, stop, sent, reached, refused, unheard, faults>>

\* The two outer ends take what they get.
Take(e) ==
    LET m == Head(queue[e]) IN
    /\ e \in Outer /\ Arrives(e)
    /\ queue' = [queue EXCEPT ![e] = Tail(@)]
    /\ reached' = IF e = "dock" THEN Append(reached, m) ELSE reached
    /\ refused' = IF e = "core" THEN refused \cup {m} ELSE refused
    /\ UNCHANGED <<end, relay, sessions, stop, sent, unheard, faults>>

-----------------------------------------------------------------------------
(* Closing.                                                                *)

\* The Core or the Dock hangs up.
HangUp(e) ==
    /\ e \in Outer /\ end[e] = "open"
    /\ end' = Closing(end, {e})
    /\ queue' = [queue EXCEPT ![e] = <<>>]
    /\ UNCHANGED <<relay, sessions, stop, sent, reached, refused, unheard, faults>>

\* The partner's close frame arrives after everything it has sent.
GoodbyeArrives(e) ==
    /\ end[e] = "open" /\ Gone(Partner[e]) /\ queue[e] = <<>>
    /\ end' = Closing(end, {e})
    /\ UNCHANGED <<queue, relay, sessions, stop, sent, reached, refused, unheard, faults>>

\* A connection breaks at both ends.
Break(e) ==
    /\ end[e] = "open" /\ Fault
    /\ end' = Closing(end, {e, Partner[e]})
    /\ queue' = [queue EXCEPT ![e] = <<>>, ![Partner[e]] = <<>>]
    /\ UNCHANGED <<relay, sessions, stop, sent, reached, refused, unheard>>

\* Faulty: only the left side's end is the relay's end.
FinishesLeft(e) == e \in {Left[r] : r \in Relays}

\* Both sides' "close" events end a relay that is there.
Finishes(e) == e \in {Left[r] : r \in Relays} \cup {Right[r] : r \in Relays}

\* The Satellite's onClose, the Primary's listener on the end below.
Forgotten(e) == IF e = "down" THEN {"primary"} ELSE
                IF e \in {"local", "tunnel"} THEN {"satellite"} ELSE {}

\* The "close" event.  A relay finishes, and closes its other side.
Closed(e) ==
    LET r == RelayOf(e)
        over == Finishes(e) /\ relay[r] = "relaying" IN
    /\ end[e] = "closing"
    /\ end' = IF over THEN Closing([end EXCEPT ![e] = "closed"], {Other(e)})
              ELSE [end EXCEPT ![e] = "closed"]
    /\ relay' = IF over THEN [relay EXCEPT ![r] = "over"] ELSE relay
    /\ sessions' = IF over \/ (r \in sessions /\ relay[r] = "over")
                   THEN sessions \ Forgotten(e) ELSE sessions
    /\ queue' = [queue EXCEPT ![e] = <<>>]
    /\ UNCHANGED <<stop, sent, reached, refused, unheard, faults>>

\* Faulty: the session's close function closes one end only.
ClosesLeft(r) == {Left[r]}
ClosesRight(r) == {Right[r]}

\* The ends that the function returned by relayPeers closes.
Closes(r) == {Left[r], Right[r]}

\* stop() of the virtual Dock server or of the Primary's services: it closes
\* the sessions it knows, then waits for its server's connections to end.
Stop(r) ==
    /\ stop[r] = "no"
    /\ stop' = [stop EXCEPT ![r] = "waits"]
    /\ end' = IF r \in sessions THEN Closing(end, Closes(r)) ELSE end
    /\ relay' = IF r \in sessions THEN [relay EXCEPT ![r] = "over"] ELSE relay
    /\ sessions' = sessions \ {r}
    /\ unheard' = (unheard \/ relay[r] = "connecting")
    /\ UNCHANGED <<queue, sent, reached, refused, faults>>
Stopped(r) ==
    /\ stop[r] = "waits" /\ end[Left[r]] \in {"none", "closed"}
    /\ stop' = [stop EXCEPT ![r] = "done"]
    /\ UNCHANGED <<end, queue, relay, sessions, sent, reached, refused, unheard, faults>>

-----------------------------------------------------------------------------

Opening == TunnelOpens \/ DockOpens \/ \E r \in Relays : Fails(r)
EndStep(e) == Relay(e) \/ Take(e) \/ GoodbyeArrives(e) \/ Closed(e)

DockNext ==
    \/ CoreConnects \/ Opening
    \/ \E w \in Words : CoreSends(w)
    \/ \E e \in Ends : EndStep(e) \/ HangUp(e) \/ Break(e)
    \/ \E r \in Relays : Stop(r) \/ Stopped(r)

DockSpec == DockInit /\ [][DockNext]_vars

\* Connections are made or time out; what is sent arrives or the connection
\* breaks; a closing end is destroyed after two seconds.  Nobody has to hang up.
DockFairness ==
    /\ WF_vars(Opening)
    /\ \A e \in Ends : WF_vars(EndStep(e))
    /\ \A r \in Relays : WF_vars(Stopped(r))
DockFairSpec == DockSpec /\ DockFairness

-----------------------------------------------------------------------------
(* Properties.                                                             *)

\* The Dock never sees a token of the Satellite's: an authentication arrives
\* with the Dock's own token if the Core's was right, and only the Core hears of
\* one that was wrong.
OnlyItsToken ==
    /\ \A i \in DOMAIN reached :
          reached[i].said # "wrong" /\ reached[i].word \in {"physical", "request"}
    /\ \A m \in refused : m.said = "wrong"

\* When any connection of the chain ends, all of them end and nobody keeps a
\* session: unless the first connection of a relay ended, or the relay was
\* told to stop, while it was making the second one.
SomethingEnded == \E e \in Ends : end[e] = "closed"
ChainEnds ==
    SomethingEnded ~>
        unheard \/ (sessions = {} /\ \A e \in Ends : end[e] \in {"none", "closed"})

\* stop() comes to an end, with the same exception: the restart of the
\* services depends on it.
StopEnds == \A r \in Relays : stop[r] = "waits" ~> stop[r] = "done" \/ unheard
=============================================================================
