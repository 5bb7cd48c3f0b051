-------------------------- MODULE DockTunnelProofs --------------------------
(***************************************************************************)
(* Proofs about DockTunnel: its types, what a relay that began or ended    *)
(* says of its connections, and what may be on its way to each end.        *)
(***************************************************************************)
EXTENDS DockTunnel, TLAPS

-----------------------------------------------------------------------------
(* The chain.                                                              *)

EndTypes == end \in [Ends -> {"none", "open", "closing", "closed"}]
RelayTypes ==
    relay \in [Relays -> {"none", "connecting", "relaying", "over"}] /\ sessions \subseteq Relays

\* What the state of a relay says of its two ends.
RelayInv(r) ==
    /\ r \in sessions => relay[r] \in {"relaying", "over"}
    /\ relay[r] \in {"none", "connecting"} => end[Right[r]] = "none"
    /\ relay[r] \in {"connecting", "relaying"} => end[Left[r]] # "none"
    /\ relay[r] = "relaying" => end[Right[r]] # "none"
    /\ relay[r] = "over" => end[Left[r]] # "open" /\ end[Right[r]] # "open"

\* The chain is made from the Core's side to the Dock's.
ChainInv ==
    /\ EndTypes /\ RelayTypes
    /\ \A r \in Relays : RelayInv(r)
    /\ end["core"] = "none" => relay["satellite"] = "none"
    /\ relay["satellite"] \in {"none", "connecting"} => relay["primary"] = "none"

CountTypes == stop \in [Relays -> {"no", "waits", "done"}] /\ sent \in 0..MaxSent

LEMMA EndsOfRelays ==
    /\ Left \in [Relays -> Ends] /\ Right \in [Relays -> Ends]
    /\ \A r \in Relays : Left[r] # "core" /\ Right[r] # "core"
BY DEF Left, Right, Relays, Ends

\* Closing opens nothing, and takes nothing away.
LEMMA ClosingOnlyCloses ==
    ASSUME NEW ends \in [Ends -> {"none", "open", "closing", "closed"}], NEW es
    PROVE  /\ Closing(ends, es) \in [Ends -> {"none", "open", "closing", "closed"}]
           /\ \A e \in Ends : /\ Closing(ends, es)[e] = "none" <=> ends[e] = "none"
                              /\ Closing(ends, es)[e] = "open" => ends[e] = "open"
                              /\ e \in es => Closing(ends, es)[e] # "open"
BY DEF Closing

\* A step that only closes ends, and ends only relays whose ends it leaves closed.
LEMMA ChainCloses ==
    ASSUME ChainInv, EndTypes', RelayTypes',
           \A e \in Ends : /\ end'[e] = "none" <=> end[e] = "none"
                           /\ end'[e] = "open" => end[e] = "open",
           sessions' \subseteq sessions,
           \A r \in Relays :
              \/ relay'[r] = relay[r]
              \/ /\ relay[r] \in {"connecting", "relaying", "over"} /\ relay'[r] = "over"
                 /\ end'[Left[r]] # "open" /\ end'[Right[r]] # "open"
    PROVE  ChainInv'
<1>1. ASSUME NEW r \in Relays PROVE RelayInv(r)'
  <2>1. RelayInv(r) BY DEF ChainInv
  <2>2. Left[r] \in Ends /\ Right[r] \in Ends BY EndsOfRelays
  <2>3. Left' = Left /\ Right' = Right BY DEF Left, Right
  <2>4. CASE relay'[r] = relay[r] BY <2>1, <2>2, <2>3, <2>4 DEF RelayInv
  <2>5. CASE relay'[r] # relay[r] BY <2>1, <2>2, <2>3, <2>5 DEF RelayInv
  <2>6. QED BY <2>4, <2>5
<1>2. (end["core"] = "none" => relay["satellite"] = "none")' BY DEF ChainInv, Ends, Relays
<1>3. (relay["satellite"] \in {"none", "connecting"} => relay["primary"] = "none")'
  BY DEF ChainInv, Relays
<1>4. QED BY <1>1, <1>2, <1>3 DEF ChainInv

LEMMA ChainStep == ASSUME ChainInv, [DockNext]_vars PROVE ChainInv'
<1> USE DEF ChainInv, EndTypes, RelayTypes
<1>1. CASE CoreConnects
  <2>1. ASSUME NEW r \in Relays PROVE RelayInv(r)'
    BY <1>1, <2>1 DEF CoreConnects, RelayInv, Relays, Ends, Left, Right
  <2>2. QED BY <1>1, <2>1 DEF CoreConnects, Relays, Ends
<1>2. CASE TunnelOpens
  <2>1. ASSUME NEW r \in Relays PROVE RelayInv(r)'
    BY <1>2, <2>1 DEF TunnelOpens, RelayInv, Relays, Ends, Left, Right
  <2>2. QED BY <1>2, <2>1 DEF TunnelOpens, Relays, Ends
<1>3. CASE DockOpens
  <2>1. ASSUME NEW r \in Relays PROVE RelayInv(r)'
    BY <1>3, <2>1 DEF DockOpens, RelayInv, Relays, Ends, Left, Right
  <2>2. QED BY <1>3, <2>1 DEF DockOpens, Relays, Ends, RelayInv, Left, Right
<1>4. ASSUME NEW r \in Relays, Fails(r) PROVE ChainInv'
  <2>1. relay' = [relay EXCEPT ![r] = "over"] /\ relay[r] = "connecting"
        /\ end' = Closing(end, {Left[r]}) /\ sessions' = sessions
    BY <1>4 DEF Fails
  <2>2. end[Right[r]] = "none" /\ Left[r] \in Ends /\ Right[r] \in Ends
    BY <2>1, EndsOfRelays DEF RelayInv
  <2>3. end'[Left[r]] # "open" /\ end'[Right[r]] # "open" BY <2>1, <2>2, ClosingOnlyCloses
  <2>4. EndTypes' /\ RelayTypes' BY <2>1, ClosingOnlyCloses
  <2>5. \A e \in Ends : /\ end'[e] = "none" <=> end[e] = "none"
                        /\ end'[e] = "open" => end[e] = "open"
    BY <2>1, ClosingOnlyCloses
  <2>6. \A q \in Relays : q # r => relay'[q] = relay[q] BY <2>1
  <2>7. relay'[r] = "over" BY <2>1
  <2>8. QED BY <2>1, <2>3, <2>4, <2>5, <2>6, <2>7, ChainCloses
<1>5. ASSUME NEW e \in Ends, HangUp(e) \/ GoodbyeArrives(e) \/ Break(e) PROVE ChainInv'
  <2>1. PICK es : end' = Closing(end, es)
    BY <1>5 DEF HangUp, GoodbyeArrives, Break
  <2>2. relay' = relay /\ sessions' = sessions BY <1>5 DEF HangUp, GoodbyeArrives, Break
  <2>3. QED BY <2>1, <2>2, ClosingOnlyCloses, ChainCloses
<1>6. ASSUME NEW e \in Ends, Closed(e) PROVE ChainInv'
  <2> DEFINE r == RelayOf(e)
             over == Finishes(e) /\ relay[r] = "relaying"
             now == [end EXCEPT ![e] = "closed"]
  <2>1. end[e] = "closing" /\ end' = (IF over THEN Closing(now, {Other(e)}) ELSE now)
        /\ relay' = (IF over THEN [relay EXCEPT ![r] = "over"] ELSE relay)
        /\ sessions' \subseteq sessions
    BY <1>6 DEF Closed
  <2>2. r \in Relays BY DEF RelayOf, Relays
  <2>3. now \in [Ends -> {"none", "open", "closing", "closed"}] OBVIOUS
  <2>4. \A d \in Ends : /\ now[d] = "none" <=> end[d] = "none"
                        /\ now[d] = "open" => end[d] = "open"
    BY <2>1
  <2>5. now[e] = "closed" OBVIOUS
  <2>6. CASE ~over
    BY <2>1, <2>3, <2>4, <2>6, ChainCloses
  <2> HIDE DEF now
  <2>7. CASE over
    <3>1. {Left[r], Right[r]} = {e, Other(e)} /\ Other(e) \in Ends
      BY <2>7 DEF Finishes, Other, RelayOf, Left, Right, Relays, Ends
    <3>2. end' = Closing(now, {Other(e)}) /\ relay' = [relay EXCEPT ![r] = "over"]
          /\ relay[r] = "relaying"
      BY <2>1, <2>7
    <3>3. EndTypes' /\ RelayTypes'
      <4>1. EndTypes' BY <2>3, <3>2, ClosingOnlyCloses
      <4>2. RelayTypes' BY <2>1, <2>2, <3>2
      <4>3. QED BY <4>1, <4>2
    <3>4. \A d \in Ends : /\ end'[d] = "none" <=> now[d] = "none"
                          /\ end'[d] = "open" => now[d] = "open"
                          /\ d = Other(e) => end'[d] # "open"
      BY <2>3, <3>2, ClosingOnlyCloses
    <3>5. end'[e] # "open" /\ end'[Other(e)] # "open" BY <2>5, <3>1, <3>4
    <3>6. end'[Left[r]] # "open" /\ end'[Right[r]] # "open" BY <3>1, <3>5
    <3>7. \A d \in Ends : /\ end'[d] = "none" <=> end[d] = "none"
                          /\ end'[d] = "open" => end[d] = "open"
      BY <2>4, <3>4
    <3>8. \A q \in Relays : q # r => relay'[q] = relay[q] BY <3>2
    <3>9. relay'[r] = "over" BY <2>2, <3>2
    <3>10. QED BY <2>1, <3>2, <3>3, <3>6, <3>7, <3>8, <3>9, ChainCloses
  <2>8. QED BY <2>6, <2>7
<1>7. ASSUME NEW r \in Relays, Stop(r) PROVE ChainInv'
  <2>1. CASE r \in sessions
    <3>1. end' = Closing(end, {Left[r], Right[r]}) /\ relay' = [relay EXCEPT ![r] = "over"]
          /\ sessions' = sessions \ {r} /\ relay[r] \in {"relaying", "over"}
      BY <1>7, <2>1 DEF Stop, Closes, RelayInv
    <3>2. end'[Left[r]] # "open" /\ end'[Right[r]] # "open"
      <4>1. \A e \in Ends : e \in {Left[r], Right[r]} => end'[e] # "open"
        BY <3>1, ClosingOnlyCloses
      <4>2. Left[r] \in Ends /\ Right[r] \in Ends BY EndsOfRelays
      <4>3. QED BY <4>1, <4>2
    <3>3. EndTypes' /\ RelayTypes' BY <3>1, ClosingOnlyCloses
    <3>4. \A e \in Ends : /\ end'[e] = "none" <=> end[e] = "none"
                          /\ end'[e] = "open" => end[e] = "open"
      BY <3>1, ClosingOnlyCloses
    <3>5. \A q \in Relays : q # r => relay'[q] = relay[q] BY <3>1
    <3>6. relay'[r] = "over" BY <3>1
    <3>7. QED BY <3>1, <3>2, <3>3, <3>4, <3>5, <3>6, ChainCloses
  <2>2. CASE r \notin sessions
    BY <1>7, <2>2, ChainCloses DEF Stop
  <2>3. QED BY <2>1, <2>2
<1>8. CASE UNCHANGED <<end, relay, sessions>>
  BY <1>8, ChainCloses
<1>9. QED
  BY <1>1, <1>2, <1>3, <1>4, <1>5, <1>6, <1>7, <1>8
     DEF DockNext, vars, Opening, EndStep, CoreSends, Relay, Take, Stopped

LEMMA CountStep == ASSUME CountTypes, [DockNext]_vars PROVE CountTypes'
<1> USE DockAssumption DEF CountTypes
<1>1. ASSUME NEW w \in Words, CoreSends(w) PROVE CountTypes' BY <1>1 DEF CoreSends
<1>2. ASSUME NEW r \in Relays, Stop(r) \/ Stopped(r) PROVE CountTypes'
  BY <1>2 DEF Stop, Stopped
<1>3. CASE UNCHANGED <<stop, sent>> BY <1>3
<1>4. CASE CoreConnects \/ Opening
  BY <1>3, <1>4 DEF CoreConnects, Opening, TunnelOpens, DockOpens, Fails
<1>5. ASSUME NEW e \in Ends, EndStep(e) \/ HangUp(e) \/ Break(e) PROVE CountTypes'
  BY <1>3, <1>5 DEF EndStep, Relay, Take, GoodbyeArrives, Closed, HangUp, Break
<1>6. QED BY <1>1, <1>2, <1>3, <1>4, <1>5 DEF DockNext, vars

\* Types, sessions and relays are as DockTypeOK says, for any number of
\* messages and faults: relayPeers leaves no end open behind a relay that is
\* over, and stop() finds in the sessions only what is relaying.
THEOREM DockTypes == DockSpec => []DockTypeOK
<1>1. DockInit => ChainInv /\ CountTypes
  BY DockAssumption, EndsOfRelays
     DEF DockInit, ChainInv, EndTypes, RelayTypes, RelayInv, CountTypes, Ends, Relays
<1>2. ChainInv /\ CountTypes /\ [DockNext]_vars => (ChainInv /\ CountTypes)'
  BY ChainStep, CountStep
<1>3. ChainInv /\ CountTypes => DockTypeOK
  BY DEF DockTypeOK, ChainInv, EndTypes, RelayTypes, RelayInv, CountTypes
<1>4. QED BY <1>1, <1>2, <1>3, PTL DEF DockSpec

-----------------------------------------------------------------------------
(* The messages.                                                           *)

Messages == [said : {"virtual", "wrong", "request"},
             word : {"virtual", "wrong", "request", "physical", "401"}]

\* What may be on its way to an end.
Fits(e, m) ==
    /\ e \in {"local", "down"} => m.word = m.said
    /\ e = "dock" => m.said # "wrong" /\ m.word \in {"physical", "request"}
    /\ e \in {"tunnel", "core"} => m.said = "wrong"
    /\ e # "up"

QueuesFit ==
    /\ queue \in [Ends -> Seq(Messages)]
    /\ \A e \in Ends : \A i \in 1..Len(queue[e]) : Fits(e, queue[e][i])
ArrivedFit ==
    /\ reached \in Seq(Messages)
    /\ \A i \in 1..Len(reached) : Fits("dock", reached[i])
    /\ \A m \in refused : Fits("core", m)

\* The head of a queue fits where the queue leads, and so does what is left.
LEMMA HeadFits ==
    ASSUME QueuesFit, NEW e \in Ends, queue[e] # <<>>
    PROVE  Head(queue[e]) \in Messages /\ Fits(e, Head(queue[e]))
<1>1. queue[e] \in Seq(Messages) /\ Len(queue[e]) >= 1 BY DEF QueuesFit
<1>2. Head(queue[e]) = queue[e][1] BY <1>1
<1>3. QED BY <1>1, <1>2 DEF QueuesFit

LEMMA TailFits ==
    ASSUME QueuesFit, NEW e \in Ends, queue[e] # <<>>
    PROVE  /\ Tail(queue[e]) \in Seq(Messages)
           /\ \A i \in 1..Len(Tail(queue[e])) : Fits(e, Tail(queue[e])[i])
<1>1. queue[e] \in Seq(Messages) /\ queue[e] # <<>> BY DEF QueuesFit
<1>2. Tail(queue[e]) \in Seq(Messages) /\ Len(Tail(queue[e])) = Len(queue[e]) - 1 BY <1>1
<1>3. ASSUME NEW i \in 1..Len(Tail(queue[e])) PROVE Fits(e, Tail(queue[e])[i])
  <2>1. Tail(queue[e])[i] = queue[e][i + 1] /\ i + 1 \in 1..Len(queue[e]) BY <1>1, <1>2
  <2>2. QED BY <2>1 DEF QueuesFit
<1>4. QED BY <1>2, <1>3

LEMMA AppendFits ==
    ASSUME NEW e, NEW s \in Seq(Messages), \A i \in 1..Len(s) : Fits(e, s[i]),
           NEW m \in Messages, Fits(e, m)
    PROVE  /\ Append(s, m) \in Seq(Messages)
           /\ \A i \in 1..Len(Append(s, m)) : Fits(e, Append(s, m)[i])
<1>1. Append(s, m) \in Seq(Messages) /\ Len(Append(s, m)) = Len(s) + 1 OBVIOUS
<1>2. ASSUME NEW i \in 1..Len(Append(s, m)) PROVE Fits(e, Append(s, m)[i])
  <2>1. CASE i = Len(s) + 1
    <3>1. Append(s, m)[i] = m BY <2>1
    <3>2. QED BY <3>1
  <2>2. CASE i # Len(s) + 1
    <3>1. i \in 1..Len(s) /\ Append(s, m)[i] = s[i] BY <1>1, <2>2
    <3>2. QED BY <3>1
  <2>3. QED BY <2>1, <2>2
<1>3. QED BY <1>1, <1>2

\* Queues that fit one by one.
LEMMA EachFits ==
    ASSUME DOMAIN queue' = Ends, queue' = [e \in Ends |-> queue'[e]],
           \A e \in Ends : /\ queue'[e] \in Seq(Messages)
                           /\ \A i \in 1..Len(queue'[e]) : Fits(e, queue'[e][i])
    PROVE  QueuesFit'
BY DEF QueuesFit, Fits

LEMMA Drop ==
    ASSUME QueuesFit, NEW e \in Ends, queue[e] # <<>>,
           queue' = [queue EXCEPT ![e] = Tail(@)]
    PROVE  QueuesFit'
<1>1. ASSUME NEW d \in Ends
      PROVE  /\ queue'[d] \in Seq(Messages)
             /\ \A i \in 1..Len(queue'[d]) : Fits(d, queue'[d][i])
  <2>1. CASE d = e
    <3>1. queue'[d] = Tail(queue[e]) BY <2>1 DEF QueuesFit
    <3>2. QED BY <2>1, <3>1, TailFits
  <2>2. CASE d # e
    <3>1. queue'[d] = queue[d] BY <2>2 DEF QueuesFit
    <3>2. QED BY <3>1 DEF QueuesFit
  <2>3. QED BY <2>1, <2>2
<1>2. QED BY <1>1, EachFits DEF QueuesFit

LEMMA Put ==
    ASSUME QueuesFit, NEW e \in Ends, NEW m \in Messages, Fits(e, m),
           queue' = [queue EXCEPT ![e] = Append(@, m)]
    PROVE  QueuesFit'
<1>1. ASSUME NEW d \in Ends
      PROVE  /\ queue'[d] \in Seq(Messages)
             /\ \A i \in 1..Len(queue'[d]) : Fits(d, queue'[d][i])
  <2>1. CASE d = e
    <3>1. queue'[d] = Append(queue[e], m) BY <2>1 DEF QueuesFit
    <3>2. QED BY <2>1, <3>1, AppendFits DEF QueuesFit
  <2>2. CASE d # e
    <3>1. queue'[d] = queue[d] BY <2>2 DEF QueuesFit
    <3>2. QED BY <3>1 DEF QueuesFit
  <2>3. QED BY <2>1, <2>2
<1>2. QED BY <1>1, EachFits DEF QueuesFit

\* A relay moves what fits one queue to another one it fits.
LEMMA Move ==
    ASSUME QueuesFit, NEW e \in Ends, NEW to \in Ends, e # to, queue[e] # <<>>,
           NEW m \in Messages, Fits(to, m), queue' = Moved(e, to, m)
    PROVE  QueuesFit'
<1>1. ASSUME NEW d \in Ends
      PROVE  /\ queue'[d] \in Seq(Messages)
             /\ \A i \in 1..Len(queue'[d]) : Fits(d, queue'[d][i])
  <2>1. CASE d = e
    <3>1. queue'[d] = Tail(queue[e]) BY <2>1 DEF QueuesFit, Moved
    <3>2. QED BY <2>1, <3>1, TailFits
  <2>2. CASE d = to /\ end[to] # "closed"
    <3>1. queue'[d] = Append(queue[to], m) BY <2>2 DEF QueuesFit, Moved
    <3>2. QED BY <2>2, <3>1, AppendFits DEF QueuesFit
  <2>3. CASE d # e /\ ~(d = to /\ end[to] # "closed")
    <3>1. queue'[d] = queue[d] BY <2>3 DEF QueuesFit, Moved
    <3>2. QED BY <3>1 DEF QueuesFit
  <2>4. QED BY <2>1, <2>2, <2>3
<1>2. QED BY <1>1, EachFits DEF QueuesFit, Moved

\* Emptying queues.
LEMMA Empty ==
    ASSUME QueuesFit, queue' \in [Ends -> Seq(Messages)],
           \A e \in Ends : queue'[e] = queue[e] \/ queue'[e] = <<>>
    PROVE  QueuesFit'
<1>1. ASSUME NEW d \in Ends PROVE \A i \in 1..Len(queue'[d]) : Fits(d, queue'[d][i])
  <2>1. CASE queue'[d] = queue[d] BY <2>1 DEF QueuesFit
  <2>2. CASE queue'[d] = <<>> BY <2>2
  <2>3. QED BY <2>1, <2>2
<1>2. QED BY <1>1 DEF QueuesFit, Fits

\* What bridgeMasterDockTunnel makes of a message fits the Dock, or the way back.
LEMMA TransformFits ==
    ASSUME NEW m \in Messages, Fits("down", m)
    PROVE  /\ Transform(m) \in Messages
           /\ Transform(m).word = "401" => Fits("tunnel", Transform(m))
           /\ Transform(m).word # "401" => Fits("dock", Transform(m))
BY DEF Messages, Fits, Transform

LEMMA RelayStep == ASSUME QueuesFit, NEW e \in Ends, Relay(e) PROVE QueuesFit'
<1> DEFINE h == Head(queue[e])
           m == IF e = "down" THEN Transform(h) ELSE h
           from == IF e = "down" /\ m.word = "401" THEN e ELSE Other(e)
<1>1. e \in Ends \ Outer /\ queue[e] # <<>> BY DEF Relay, Arrives
<1>2. h \in Messages /\ Fits(e, h) BY <1>1, HeadFits
<1>3. e \in {"local", "tunnel", "down"} BY <1>1, <1>2 DEF Fits, Ends, Outer
<1>4. queue' = Moved(e, Partner[from], m) \/ queue' = [queue EXCEPT ![e] = Tail(@)]
  BY DEF Relay
<1>5. m \in Messages BY <1>2, TransformFits
<1>6. CASE e = "local"
  <2>1. m = h /\ Partner[from] = "down"
    BY <1>6 DEF Other, RelayOf, Left, Right, Relays, Partner
  <2>2. Fits("down", m) BY <1>2, <1>6, <2>1 DEF Fits
  <2>3. QED BY <1>1, <1>4, <1>5, <1>6, <2>1, <2>2, Move, Drop DEF Ends
<1>7. CASE e = "tunnel"
  <2>1. m = h /\ Partner[from] = "core"
    BY <1>7 DEF Other, RelayOf, Left, Right, Relays, Partner
  <2>2. Fits("core", m) BY <1>2, <1>7, <2>1 DEF Fits
  <2>3. QED BY <1>1, <1>4, <1>5, <1>7, <2>1, <2>2, Move, Drop DEF Ends
<1>8. CASE e = "down"
  <2>1. Partner[from] = IF m.word = "401" THEN "tunnel" ELSE "dock"
    BY <1>8 DEF Other, RelayOf, Left, Right, Relays, Partner
  <2>2. Fits(Partner[from], m) BY <1>2, <1>8, <2>1, TransformFits
  <2>3. Partner[from] \in Ends /\ Partner[from] # e BY <1>8, <2>1 DEF Ends
  <2>4. QED BY <1>1, <1>4, <1>5, <2>2, <2>3, Move, Drop
<1>9. QED BY <1>3, <1>6, <1>7, <1>8

LEMMA TakeStep ==
    ASSUME QueuesFit, ArrivedFit, NEW e \in Ends, Take(e) PROVE QueuesFit' /\ ArrivedFit'
<1> DEFINE m == Head(queue[e])
<1>1. /\ queue[e] # <<>> /\ queue' = [queue EXCEPT ![e] = Tail(@)]
      /\ reached' = IF e = "dock" THEN Append(reached, m) ELSE reached
      /\ refused' = IF e = "core" THEN refused \cup {m} ELSE refused
  BY DEF Take, Arrives
<1>2. m \in Messages /\ Fits(e, m) BY <1>1, HeadFits
<1>3. QueuesFit' BY <1>1, Drop
<1>4. reached' \in Seq(Messages) /\ \A i \in 1..Len(reached') : Fits("dock", reached'[i])
  <2>1. CASE e = "dock" BY <1>1, <1>2, <2>1, AppendFits DEF ArrivedFit
  <2>2. CASE e # "dock" BY <1>1, <2>2 DEF ArrivedFit
  <2>3. QED BY <2>1, <2>2
<1>5. \A d \in refused' : Fits("core", d) BY <1>1, <1>2 DEF ArrivedFit
<1>6. ArrivedFit' BY <1>4, <1>5 DEF ArrivedFit, Fits
<1>7. QED BY <1>3, <1>6

LEMMA MessageStep ==
    ASSUME QueuesFit, ArrivedFit, [DockNext]_vars PROVE QueuesFit' /\ ArrivedFit'
<1>1. ASSUME UNCHANGED <<reached, refused>> PROVE ArrivedFit' BY <1>1 DEF ArrivedFit, Fits
<1>2. ASSUME UNCHANGED queue PROVE QueuesFit' BY <1>2 DEF QueuesFit, Fits
<1>3. CASE CoreConnects \/ Opening \/ UNCHANGED vars
  BY <1>1, <1>2, <1>3 DEF CoreConnects, Opening, TunnelOpens, DockOpens, Fails, vars
<1>4. ASSUME NEW w \in Words, CoreSends(w) PROVE QueuesFit' /\ ArrivedFit'
  <2> DEFINE m == [said |-> w, word |-> w]
  <2>1. m \in Messages /\ Fits("local", m) BY DockAssumption DEF Messages, Fits
  <2>2. queue' = [queue EXCEPT !["local"] = Append(@, m)] BY <1>4 DEF CoreSends
  <2>3. QueuesFit' BY <2>1, <2>2, Put DEF Ends
  <2>4. QED BY <1>1, <1>4, <2>3 DEF CoreSends
<1>5. ASSUME NEW e \in Ends, HangUp(e) \/ Break(e) \/ Closed(e) PROVE QueuesFit' /\ ArrivedFit'
  <2>1. UNCHANGED <<reached, refused>> BY <1>5 DEF HangUp, Break, Closed
  <2>2. queue' \in [Ends -> Seq(Messages)]
    <3>1. queue \in [Ends -> Seq(Messages)] /\ <<>> \in Seq(Messages) BY DEF QueuesFit
    <3>2. PICK d \in Ends, f \in Ends : queue' = [queue EXCEPT ![d] = <<>>, ![f] = <<>>]
      <4>1. Partner[e] \in Ends BY DEF Partner, Ends
      <4>2. CASE HangUp(e) \/ Closed(e)
        <5>1. queue' = [queue EXCEPT ![e] = <<>>] BY <4>2 DEF HangUp, Closed
        <5>2. queue' = [queue EXCEPT ![e] = <<>>, ![e] = <<>>] BY <3>1, <5>1
        <5>3. QED BY <5>2
      <4>3. CASE Break(e) BY <4>1, <4>3 DEF Break
      <4>4. QED BY <1>5, <4>2, <4>3
    <3>3. QED BY <3>1, <3>2
  <2>3. \A d \in Ends : queue'[d] = queue[d] \/ queue'[d] = <<>>
    BY <1>5 DEF HangUp, Break, Closed, QueuesFit
  <2>4. QED BY <1>1, <2>1, <2>2, <2>3, Empty
<1>6. ASSUME NEW e \in Ends, GoodbyeArrives(e) PROVE QueuesFit' /\ ArrivedFit'
  BY <1>1, <1>2, <1>6 DEF GoodbyeArrives
<1>7. ASSUME NEW r \in Relays, Stop(r) \/ Stopped(r) PROVE QueuesFit' /\ ArrivedFit'
  BY <1>1, <1>2, <1>7 DEF Stop, Stopped
<1>8. ASSUME NEW e \in Ends, Relay(e) PROVE QueuesFit' /\ ArrivedFit'
  BY <1>1, <1>8, RelayStep DEF Relay
<1>9. ASSUME NEW e \in Ends, Take(e) PROVE QueuesFit' /\ ArrivedFit' BY <1>9, TakeStep
<1>10. QED
  BY <1>3, <1>4, <1>5, <1>6, <1>7, <1>8, <1>9 DEF DockNext, EndStep

\* A Dock hears authentications with its own token only, of Cores that knew
\* the virtual one; only wrong ones are answered by the Primary: however many
\* messages there are, and however the chain is made, broken and closed
\* meanwhile (bridgeMasterDockTunnel).
THEOREM DockHearsItsToken == DockSpec => []OnlyItsToken
<1>1. DockInit => QueuesFit /\ ArrivedFit BY DEF DockInit, QueuesFit, ArrivedFit
<1>2. QueuesFit /\ ArrivedFit /\ [DockNext]_vars => (QueuesFit /\ ArrivedFit)' BY MessageStep
<1>3. ArrivedFit => OnlyItsToken
  <2> SUFFICES ASSUME ArrivedFit PROVE OnlyItsToken OBVIOUS
  <2>1. DOMAIN reached = 1..Len(reached) BY DEF ArrivedFit
  <2>2. QED BY <2>1 DEF ArrivedFit, OnlyItsToken, Fits
<1>4. QED BY <1>1, <1>2, <1>3, PTL DEF DockSpec
=============================================================================
