-------------------------- MODULE CoreSessionProofs --------------------------
(***************************************************************************)
(* Proofs about CoreSession: the types, that a message which changes the   *)
(* Core is sent once, and that calls share one session whatever is lost,   *)
(* for any number of calls of any kind, beside a watcher or not.           *)
(***************************************************************************)
EXTENDS CoreSession, SequenceTheorems, FiniteSetTheorems, TLAPS

SocketStates == {"connecting", "open", "ended", "closing", "closed"}
ObjectType == [socket : Nat, connecting : Nat]
SocketType == [object : Nat, state : SocketStates]

\* Objects and connections know each other: an object has at most one that is
\* being opened and one that it uses, and never both open.
Linked(objs, socks) ==
    /\ objs \in Seq(ObjectType) /\ socks \in Seq(SocketType)
    /\ \A o \in 1..Len(objs) :
          /\ objs[o].socket \in 0..Len(socks) /\ objs[o].connecting \in 0..Len(socks)
          /\ objs[o].socket # 0 =>
                /\ socks[objs[o].socket].object = o
                /\ socks[objs[o].socket].state \in {"open", "ended"}
                /\ objs[o].connecting # 0 => socks[objs[o].socket].state # "open"
          /\ objs[o].connecting # 0 =>
                /\ socks[objs[o].connecting].object = o
                /\ socks[objs[o].connecting].state = "connecting"
    /\ \A s \in 1..Len(socks) :
          /\ socks[s].object \in 1..Len(objs)
          /\ socks[s].state = "connecting" => objs[socks[s].object].connecting = s
          /\ socks[s].state = "open" => objs[socks[s].object].socket = s

-----------------------------------------------------------------------------
(* What happens to objects and connections.                                *)

\* One element of a sequence is replaced.
LEMMA ElementSet ==
    ASSUME NEW S, NEW seq \in Seq(S), NEW i \in 1..Len(seq), NEW e \in S,
           NEW seq2, seq2 = [seq EXCEPT ![i] = e]
    PROVE  /\ seq2 \in Seq(S) /\ Len(seq2) = Len(seq) /\ seq2[i] = e
           /\ \A j \in 1..Len(seq) \ {i} : seq2[j] = seq[j]
BY ExceptSeq

LEMMA ObjectSet ==
    ASSUME NEW obj \in ObjectType, NEW s \in Nat
    PROVE  /\ [obj EXCEPT !.connecting = s] = [socket |-> obj.socket, connecting |-> s]
           /\ [obj EXCEPT !.socket = s] = [socket |-> s, connecting |-> obj.connecting]
BY DEF ObjectType
LEMMA SocketSet ==
    ASSUME NEW socket \in SocketType, NEW state \in SocketStates
    PROVE  [socket EXCEPT !.state = state] = [object |-> socket.object, state |-> state]
BY DEF SocketType

\* A new object has no connection.
LEMMA NewObject ==
    ASSUME NEW objs, NEW socks, Linked(objs, socks), NEW more, more = Append(objs, Fresh)
    PROVE  /\ Linked(more, socks) /\ Len(more) = Len(objs) + 1 /\ Len(objs) \in Nat
           /\ \A o \in 1..Len(objs) : more[o] = objs[o]
           /\ more[Len(objs) + 1] = Fresh
<1>1. Fresh \in ObjectType /\ Fresh.socket = 0 /\ Fresh.connecting = 0
  BY DEF Fresh, ObjectType
<1>2. objs \in Seq(ObjectType) /\ more \in Seq(ObjectType) /\ Len(more) = Len(objs) + 1 /\ Len(objs) \in Nat
      /\ \A o \in 1..Len(objs) : more[o] = objs[o]
      /\ more[Len(objs) + 1] = Fresh
  BY <1>1 DEF Linked
<1>3. Linked(more, socks)
  BY <1>1, <1>2 DEF Linked
<1>4. QED
  BY <1>2, <1>3

\* An object without an open connection opens one.
OpensSocket(objs, socks, objs2, socks2, o) ==
    /\ objs[o].connecting = 0
    /\ objs[o].socket # 0 => socks[objs[o].socket].state # "open"
    /\ objs2 = [objs EXCEPT ![o] = [socket |-> objs[o].socket, connecting |-> Len(socks) + 1]]
    /\ socks2 = Append(socks, [object |-> o, state |-> "connecting"])
LEMMA NewSocket ==
    ASSUME NEW objs, NEW socks, Linked(objs, socks), NEW o \in 1..Len(objs),
           NEW objs2, NEW socks2, OpensSocket(objs, socks, objs2, socks2, o)
    PROVE  /\ Linked(objs2, socks2)
           /\ Len(objs2) = Len(objs) /\ Len(socks) \in Nat /\ Len(socks2) = Len(socks) + 1
           /\ \A p \in 1..Len(objs) \ {o} : objs2[p] = objs[p]
           /\ objs2[o].socket = objs[o].socket /\ objs2[o].connecting = Len(socks) + 1
           /\ \A s \in 1..Len(socks) : socks2[s] = socks[s]
           /\ socks2[Len(socks) + 1].object = o
           /\ socks2[Len(socks) + 1].state = "connecting"
<1> DEFINE e == [socket |-> objs[o].socket, connecting |-> Len(socks) + 1]
           new == [object |-> o, state |-> "connecting"]
<1>1. objs \in Seq(ObjectType) /\ socks \in Seq(SocketType) /\ Len(socks) \in Nat /\ Len(objs) \in Nat
  BY DEF Linked
<1>2. new \in SocketType
  BY DEF SocketStates, SocketType
<1>3. /\ objs[o].connecting = 0
      /\ objs[o].socket # 0 => socks[objs[o].socket].state # "open"
      /\ objs2 = [objs EXCEPT ![o] = e] /\ socks2 = Append(socks, new)
  BY DEF OpensSocket
<1>4. new.object = o /\ new.state = "connecting"
  OBVIOUS
<1> HIDE DEF new
<1>5. socks2 \in Seq(SocketType) /\ Len(socks2) = Len(socks) + 1 /\ socks2[Len(socks) + 1] = new
      /\ \A s \in 1..Len(socks) : socks2[s] = socks[s]
  BY <1>1, <1>2, <1>3
<1>6. /\ objs2 \in Seq(ObjectType) /\ Len(objs2) = Len(objs)
      /\ \A p \in 1..Len(objs) \ {o} : objs2[p] = objs[p]
      /\ objs2[o].socket = objs[o].socket /\ objs2[o].connecting = Len(socks) + 1
  <2>1. objs[o] \in ObjectType
    BY <1>1, ElementOfSeq
  <2>2. e \in ObjectType
    BY <1>1, <2>1 DEF ObjectType
  <2>4. e.socket = objs[o].socket /\ e.connecting = Len(socks) + 1
    OBVIOUS
  <2> HIDE DEF e
  <2>5. /\ objs2 \in Seq(ObjectType) /\ Len(objs2) = Len(objs) /\ objs2[o] = e
        /\ \A p \in 1..Len(objs) \ {o} : objs2[p] = objs[p]
    BY <1>1, <1>3, <2>2, ElementSet
  <2>6. QED
    BY <2>4, <2>5
<1>7. \A p \in 1..Len(objs) :
          /\ objs2[p].socket \in 0..Len(socks2) /\ objs2[p].connecting \in 0..Len(socks2)
          /\ objs2[p].socket # 0 =>
                /\ socks2[objs2[p].socket].object = p
                /\ socks2[objs2[p].socket].state \in {"open", "ended"}
                /\ objs2[p].connecting # 0 => socks2[objs2[p].socket].state # "open"
          /\ objs2[p].connecting # 0 =>
                /\ socks2[objs2[p].connecting].object = p
                /\ socks2[objs2[p].connecting].state = "connecting"
  BY <1>1, <1>3, <1>4, <1>5, <1>6 DEF Linked
<1>8. \A s \in 1..Len(socks2) :
          /\ socks2[s].object \in 1..Len(objs2)
          /\ socks2[s].state = "connecting" => objs2[socks2[s].object].connecting = s
          /\ socks2[s].state = "open" => objs2[socks2[s].object].socket = s
  BY <1>1, <1>3, <1>4, <1>5, <1>6 DEF Linked
<1>9. QED
  BY <1>4, <1>1, <1>5, <1>6, <1>7, <1>8 DEF Linked

\* connect() as it changes objects and connections.
LEMMA ConnectsRecords ==
    ASSUME NEW objs, objs \in Seq(ObjectType), sockets \in Seq(SocketType),
           NEW o \in 1..Len(objs), Connects(objs, o)
    PROVE  \/ /\ \/ objs[o].socket # 0 /\ sockets[objs[o].socket].state = "open"
                 \/ objs[o].connecting # 0
              /\ objects' = objs /\ sockets' = sockets
           \/ OpensSocket(objs, sockets, objects', sockets', o)
<1>1. CASE \/ objs[o].socket # 0 /\ sockets[objs[o].socket].state = "open"
           \/ objs[o].connecting # 0
  BY <1>1 DEF Connects
<1>2. CASE ~ \/ objs[o].socket # 0 /\ sockets[objs[o].socket].state = "open"
             \/ objs[o].connecting # 0
  <2>1. PICK n \in Nat : n = Len(sockets) + 1
    OBVIOUS
  <2>2. PICK r \in ObjectType : r = objs[o]
    BY ElementOfSeq
  <2>3. [r EXCEPT !.connecting = n] = [socket |-> r.socket, connecting |-> n]
    BY ObjectSet
  <2>4. objects' = [objs EXCEPT ![o] = [r EXCEPT !.connecting = n]]
    BY <1>2, <2>1, <2>2 DEF Connects
  <2>5. QED
    BY <1>2, <2>1, <2>2, <2>3, <2>4 DEF Connects, OpensSocket
<1>3. QED
  BY <1>1, <1>2

\* Object o, an old one or a new one, is open or being opened after the step,
\* nothing else is touched; if it was before, nothing happens.
Extends ==
    /\ Len(objects) \in Nat /\ Len(objects') \in Nat /\ Len(objects) <= Len(objects')
    /\ Len(sockets) \in Nat /\ Len(sockets') \in Nat /\ Len(sockets) <= Len(sockets')
Opening(o) ==
    /\ Linked(objects, sockets)' /\ Extends /\ o \in 1..Len(objects')
    /\ \A p \in 1..Len(objects) \ {o} : objects'[p] = objects[p]
    /\ \A s \in 1..Len(sockets) : sockets'[s] = sockets[s]
    /\ \A s \in 1..Len(sockets') : s \notin 1..Len(sockets) =>
          sockets'[s].object = o /\ sockets'[s].state = "connecting"
    /\ objects'[o].socket = IF o \in 1..Len(objects) THEN objects[o].socket ELSE 0
    /\ IF o \in 1..Len(objects) /\ (Open(o) \/ Connecting(o))
       THEN objects' = objects /\ sockets' = sockets
       ELSE objects'[o].connecting # 0

LEMMA ConnectsOpens ==
    ASSUME Linked(objects, sockets), NEW objs, NEW o,
           \/ objs = objects /\ o \in 1..Len(objects)
           \/ objs = Append(objects, Fresh) /\ o = Len(objects) + 1,
           Connects(objs, o)
    PROVE  Opening(o)
<1>1. /\ objects \in Seq(ObjectType) /\ sockets \in Seq(SocketType)
      /\ Len(objects) \in Nat /\ Len(sockets) \in Nat
  BY DEF Linked
<1>2. /\ Linked(objs, sockets) /\ o \in 1..Len(objs) /\ objs \in Seq(ObjectType)
      /\ Len(objs) \in Nat /\ Len(objects) <= Len(objs) /\ Len(objs) <= Len(objects) + 1
      /\ \A p \in 1..Len(objects) : objs[p] = objects[p]
      /\ \A p \in 1..Len(objs) : p = o \/ p \in 1..Len(objects)
      /\ o \notin 1..Len(objects) => objs[o].socket = 0 /\ objs[o].connecting = 0
  <2>1. CASE objs = objects /\ o \in 1..Len(objects)
    BY <1>1, <2>1
  <2>2. CASE objs = Append(objects, Fresh) /\ o = Len(objects) + 1
    <3>1. /\ Linked(objs, sockets) /\ Len(objs) = Len(objects) + 1
          /\ \A p \in 1..Len(objects) : objs[p] = objects[p]
          /\ objs[Len(objects) + 1] = Fresh
      BY <2>2, NewObject
    <3>2. objs \in Seq(ObjectType)
      BY <3>1 DEF Linked
    <3>3. QED
      BY <1>1, <2>2, <3>1, <3>2 DEF Fresh
  <2>3. QED
    BY <2>1, <2>2
<1>3. o \in 1..Len(objects) =>
          (Open(o) \/ Connecting(o) <=>
              \/ objs[o].socket # 0 /\ sockets[objs[o].socket].state = "open"
              \/ objs[o].connecting # 0)
  BY <1>2 DEF Open, Connecting
<1>4. CASE /\ \/ objs[o].socket # 0 /\ sockets[objs[o].socket].state = "open"
              \/ objs[o].connecting # 0
           /\ objects' = objs /\ sockets' = sockets
  <2>1. o \in 1..Len(objects)
    BY <1>2, <1>4
  <2>2. Len(objects) = Len(objs) /\ objs = objects
    BY <1>1, <1>2, <2>1
  <2>3. QED
    BY <1>1, <1>2, <1>3, <1>4, <2>1, <2>2 DEF Opening, Extends
<1>5. CASE OpensSocket(objs, sockets, objects', sockets', o)
  <2>1. /\ Linked(objects', sockets')
        /\ Len(objects') = Len(objs) /\ Len(sockets') = Len(sockets) + 1
        /\ \A p \in 1..Len(objs) \ {o} : objects'[p] = objs[p]
        /\ objects'[o].socket = objs[o].socket /\ objects'[o].connecting = Len(sockets) + 1
        /\ \A s \in 1..Len(sockets) : sockets'[s] = sockets[s]
        /\ sockets'[Len(sockets) + 1].object = o
        /\ sockets'[Len(sockets) + 1].state = "connecting"
    <3>1. Linked(objs, sockets) /\ o \in 1..Len(objs)
      BY <1>2
    <3>2. QED
      BY <1>5, <3>1, NewSocket, SMTT(30)
  <2>2. ~(o \in 1..Len(objects) /\ (Open(o) \/ Connecting(o)))
    <3>1. objs[o].connecting = 0 /\ (objs[o].socket # 0 => sockets[objs[o].socket].state # "open")
      BY <1>5 DEF OpensSocket
    <3>2. QED
      BY <1>3, <3>1
  <2>3. \A s \in 1..Len(sockets') : s \notin 1..Len(sockets) => s = Len(sockets) + 1
    BY <1>1, <2>1
  <2>4. QED
    BY <1>1, <1>2, <2>1, <2>2, <2>3 DEF Opening, Extends
<1>6. QED
  BY <1>2, <1>4, <1>5, ConnectsRecords DEF Linked

\* Connection s of object o changes its state, and the object its record.
Changed(s, o, object, state) ==
    /\ Linked(objects, sockets)' /\ Extends
    /\ Len(objects') = Len(objects) /\ Len(sockets') = Len(sockets)
    /\ objects'[o] = object
    /\ \A p \in 1..Len(objects) \ {o} : objects'[p] = objects[p]
    /\ sockets'[s].object = o /\ sockets'[s].state = state
    /\ \A t \in 1..Len(sockets) \ {s} : sockets'[t] = sockets[t]

\* The five ways in which it does: it is closed by this side; it opens; it is
\* refused; it is lost; it is closed for good.
Change(s, o, object, state) ==
    \/ /\ s = objects[o].socket /\ state = "closing"
       /\ object = [socket |-> 0, connecting |-> objects[o].connecting]
    \/ /\ s = objects[o].connecting /\ state = "open"
       /\ object = [socket |-> s, connecting |-> 0]
    \/ /\ s = objects[o].connecting /\ state = "closed"
       /\ object = [socket |-> objects[o].socket, connecting |-> 0]
    \/ /\ s = objects[o].socket /\ state = "ended" /\ object = objects[o]
    \/ /\ sockets[s].state \in {"ended", "closing"} /\ state = "closed"
       /\ object = [socket |-> IF objects[o].socket = s THEN 0 ELSE objects[o].socket,
                    connecting |-> objects[o].connecting]

\* The step writes both.
Writes(s, o, object, state) ==
    /\ objects' = [objects EXCEPT ![o] = object]
    /\ sockets' = [sockets EXCEPT ![s] = [object |-> o, state |-> state]]

LEMMA ChangesLinked ==
    ASSUME Linked(objects, sockets), NEW s \in 1..Len(sockets), NEW o, o = sockets[s].object,
           NEW object, NEW state, Change(s, o, object, state), Writes(s, o, object, state)
    PROVE  Changed(s, o, object, state)
<1> DEFINE new == [object |-> o, state |-> state]
<1>1. /\ objects \in Seq(ObjectType) /\ sockets \in Seq(SocketType)
      /\ Len(objects) \in Nat /\ Len(sockets) \in Nat /\ o \in 1..Len(objects)
  BY DEF Linked
<1>2. objects[o] \in ObjectType
  BY <1>1, ElementOfSeq
<1>3. object \in ObjectType
  BY <1>2 DEF Change, ObjectType
<1>4. new \in SocketType /\ new.object = o /\ new.state = state
  BY <1>1 DEF Change, SocketType, SocketStates
<1>5. objects' = [objects EXCEPT ![o] = object] /\ sockets' = [sockets EXCEPT ![s] = new]
  BY DEF Writes
<1> HIDE DEF new
<1>6. /\ objects' \in Seq(ObjectType) /\ Len(objects') = Len(objects) /\ objects'[o] = object
      /\ \A p \in 1..Len(objects) \ {o} : objects'[p] = objects[p]
  BY <1>1, <1>3, <1>5, ElementSet
<1>7. /\ sockets' \in Seq(SocketType) /\ Len(sockets') = Len(sockets) /\ sockets'[s] = new
      /\ \A t \in 1..Len(sockets) \ {s} : sockets'[t] = sockets[t]
  BY <1>1, <1>4, <1>5, ElementSet
<1> DEFINE r == objects[o]
<1>8. /\ r \in ObjectType /\ r.socket \in 0..Len(sockets) /\ r.connecting \in 0..Len(sockets)
      /\ r.socket # 0 => /\ sockets[r.socket].object = o
                         /\ sockets[r.socket].state \in {"open", "ended"}
                         /\ r.connecting # 0 => sockets[r.socket].state # "open"
      /\ r.connecting # 0 => /\ sockets[r.connecting].object = o
                             /\ sockets[r.connecting].state = "connecting"
      /\ s # 0
  <2>1. /\ objects[o].socket \in 0..Len(sockets) /\ objects[o].connecting \in 0..Len(sockets)
        /\ objects[o].socket # 0 =>
              /\ sockets[objects[o].socket].object = o
              /\ sockets[objects[o].socket].state \in {"open", "ended"}
              /\ objects[o].connecting # 0 => sockets[objects[o].socket].state # "open"
        /\ objects[o].connecting # 0 =>
              /\ sockets[objects[o].connecting].object = o
              /\ sockets[objects[o].connecting].state = "connecting"
    BY <1>1 DEF Linked
  <2>2. s # 0
    BY <1>1
  <2>3. QED
    BY <1>2, <2>1, <2>2
<1>9. \/ s = r.socket /\ state = "closing" /\ object.socket = 0 /\ object.connecting = r.connecting
      \/ s = r.connecting /\ state = "open" /\ object.socket = s /\ object.connecting = 0
      \/ s = r.connecting /\ state = "closed" /\ object.socket = r.socket /\ object.connecting = 0
      \/ s = r.socket /\ state = "ended" /\ object.socket = s /\ object.connecting = r.connecting
      \/ /\ sockets[s].state \in {"ended", "closing"} /\ state = "closed"
         /\ object.socket = IF r.socket = s THEN 0 ELSE r.socket
         /\ object.connecting = r.connecting
  BY DEF Change
<1>10. \A p \in 1..Len(objects) \ {o} :
          /\ objects[p].socket \in 0..Len(sockets) \ {s}
          /\ objects[p].connecting \in 0..Len(sockets) \ {s}
  BY <1>1, <1>8 DEF Linked
<1> HIDE DEF r
<1>11. /\ object.socket \in 0..Len(sockets) /\ object.connecting \in 0..Len(sockets)
       /\ object.socket # 0 => /\ sockets'[object.socket].object = o
                               /\ sockets'[object.socket].state \in {"open", "ended"}
                               /\ object.connecting # 0 => sockets'[object.socket].state # "open"
       /\ object.connecting # 0 => /\ sockets'[object.connecting].object = o
                                   /\ sockets'[object.connecting].state = "connecting"
  BY <1>1, <1>4, <1>7, <1>8, <1>9
<1>12. \A p \in 1..Len(objects) \ {o} :
          /\ objects'[p].socket \in 0..Len(sockets') /\ objects'[p].connecting \in 0..Len(sockets')
          /\ objects'[p].socket # 0 =>
                /\ sockets'[objects'[p].socket].object = p
                /\ sockets'[objects'[p].socket].state \in {"open", "ended"}
                /\ objects'[p].connecting # 0 => sockets'[objects'[p].socket].state # "open"
          /\ objects'[p].connecting # 0 =>
                /\ sockets'[objects'[p].connecting].object = p
                /\ sockets'[objects'[p].connecting].state = "connecting"
  <2> SUFFICES ASSUME NEW p \in 1..Len(objects) \ {o}
               PROVE  LET q == objects[p] IN
                      /\ q.socket \in 0..Len(sockets) /\ q.connecting \in 0..Len(sockets)
                      /\ q.socket # 0 => /\ sockets'[q.socket].object = p
                                         /\ sockets'[q.socket].state \in {"open", "ended"}
                                         /\ q.connecting # 0 => sockets'[q.socket].state # "open"
                      /\ q.connecting # 0 => /\ sockets'[q.connecting].object = p
                                             /\ sockets'[q.connecting].state = "connecting"
    BY <1>6, <1>7
  <2> DEFINE q == objects[p]
  <2>1. /\ q.socket # 0 => /\ sockets[q.socket].object = p
                           /\ sockets[q.socket].state \in {"open", "ended"}
                           /\ q.connecting # 0 => sockets[q.socket].state # "open"
        /\ q.connecting # 0 => /\ sockets[q.connecting].object = p
                               /\ sockets[q.connecting].state = "connecting"
    BY <1>1 DEF Linked
  <2>2. q.socket \in 0..Len(sockets) \ {s} /\ q.connecting \in 0..Len(sockets) \ {s}
    BY <1>10
  <2> HIDE DEF q
  <2>3. /\ q.socket # 0 => sockets'[q.socket] = sockets[q.socket]
        /\ q.connecting # 0 => sockets'[q.connecting] = sockets[q.connecting]
    <3>1. \A t \in 0..Len(sockets) \ {s} : t # 0 => sockets'[t] = sockets[t]
      BY <1>1, <1>7
    <3>2. QED
      BY <2>2, <3>1
  <2>4. QED
    BY <2>1, <2>2, <2>3 DEF q
<1>13. \A t \in 1..Len(sockets) \ {s} :
          /\ sockets'[t].object \in 1..Len(objects')
          /\ sockets'[t].state = "connecting" => objects'[sockets'[t].object].connecting = t
          /\ sockets'[t].state = "open" => objects'[sockets'[t].object].socket = t
  <2> SUFFICES ASSUME NEW t \in 1..Len(sockets) \ {s}
               PROVE  /\ sockets[t].object \in 1..Len(objects)
                      /\ sockets[t].state = "connecting" => objects'[sockets[t].object].connecting = t
                      /\ sockets[t].state = "open" => objects'[sockets[t].object].socket = t
    BY <1>6, <1>7
  <2>1. /\ sockets[t].object \in 1..Len(objects)
        /\ sockets[t].state = "connecting" => objects[sockets[t].object].connecting = t
        /\ sockets[t].state = "open" => objects[sockets[t].object].socket = t
    BY DEF Linked
  <2>2. CASE sockets[t].object = o
    <3>1. /\ sockets[t].state = "connecting" => r.connecting = t
          /\ sockets[t].state = "open" => r.socket = t
      BY <2>1, <2>2 DEF r
    <3>2. /\ sockets[t].state = "connecting" => object.connecting = t
          /\ sockets[t].state = "open" => object.socket = t
      BY <1>1, <1>8, <1>9, <3>1
    <3>3. QED
      BY <1>6, <2>1, <2>2, <3>2
  <2>3. CASE sockets[t].object # o
    BY <1>6, <2>1, <2>3
  <2>4. QED
    BY <2>2, <2>3
<1>14. /\ sockets'[s].object = o /\ state # "connecting"
       /\ sockets'[s].state = "open" => objects'[o].socket = s
  BY <1>4, <1>6, <1>7, <1>9
<1>15. Linked(objects', sockets')
  <2>1. \A p \in 1..Len(objects') :
          /\ objects'[p].socket \in 0..Len(sockets') /\ objects'[p].connecting \in 0..Len(sockets')
          /\ objects'[p].socket # 0 =>
                /\ sockets'[objects'[p].socket].object = p
                /\ sockets'[objects'[p].socket].state \in {"open", "ended"}
                /\ objects'[p].connecting # 0 => sockets'[objects'[p].socket].state # "open"
          /\ objects'[p].connecting # 0 =>
                /\ sockets'[objects'[p].connecting].object = p
                /\ sockets'[objects'[p].connecting].state = "connecting"
    BY <1>1, <1>6, <1>7, <1>11, <1>12
  <2>2. \A t \in 1..Len(sockets') :
          /\ sockets'[t].object \in 1..Len(objects')
          /\ sockets'[t].state = "connecting" => objects'[sockets'[t].object].connecting = t
          /\ sockets'[t].state = "open" => objects'[sockets'[t].object].socket = t
    BY <1>1, <1>4, <1>6, <1>7, <1>13, <1>14
  <2>3. QED
    BY <1>6, <1>7, <2>1, <2>2 DEF Linked
<1>16. QED
  BY <1>1, <1>4, <1>6, <1>7, <1>15 DEF Changed, Extends

\* A connection that is being opened is the one its object is opening; one that
\* is open is the one its object uses.
LEMMA SocketsObject ==
    ASSUME Linked(objects, sockets), NEW s \in DOMAIN sockets
    PROVE  /\ s \in 1..Len(sockets) /\ sockets[s] \in SocketType
           /\ sockets[s].object \in 1..Len(objects)
           /\ objects[sockets[s].object] \in ObjectType
           /\ sockets[s].state = "connecting" => objects[sockets[s].object].connecting = s
           /\ sockets[s].state = "open" => objects[sockets[s].object].socket = s
<1>1. objects \in Seq(ObjectType) /\ sockets \in Seq(SocketType) /\ s \in 1..Len(sockets)
  BY DEF Linked
<1>2. sockets[s].object \in 1..Len(objects)
  BY <1>1 DEF Linked
<1>3. QED
  BY <1>1, <1>2, ElementOfSeq DEF Linked

\* close() as it changes objects and connections: nothing, or the connection in
\* use is closing.
Closing(o) ==
    IF o # 0 /\ objects[o].socket # 0
    THEN Changed(objects[o].socket, o,
                 [socket |-> 0, connecting |-> objects[o].connecting], "closing")
    ELSE objects' = objects /\ sockets' = sockets
LEMMA ClosesChanges ==
    ASSUME Linked(objects, sockets), NEW o \in 0..Len(objects), Closes(o)
    PROVE  Closing(o) /\ Linked(objects, sockets)' /\ Extends
<1>1. /\ objects \in Seq(ObjectType) /\ sockets \in Seq(SocketType)
      /\ Len(objects) \in Nat /\ Len(sockets) \in Nat
  BY DEF Linked
<1>2. CASE o # 0 /\ objects[o].socket # 0
  <2>1. o \in 1..Len(objects) /\ objects[o].socket \in 1..Len(sockets)
        /\ sockets[objects[o].socket].object = o
        /\ sockets[objects[o].socket].state \in {"open", "ended"}
    BY <1>1, <1>2 DEF Linked
  <2>2. PICK s \in 1..Len(sockets) : s = objects[o].socket
    BY <2>1
  <2>3. PICK r \in ObjectType : r = objects[o]
    BY <1>1, <2>1, ElementOfSeq
  <2>4. PICK t \in SocketType : t = sockets[s]
    BY <1>1, <2>1, ElementOfSeq
  <2>5. objects' = [objects EXCEPT ![o] = [r EXCEPT !.socket = 0]]
    BY <1>2, <2>3 DEF Closes
  <2>6. sockets' = [sockets EXCEPT ![s] = [t EXCEPT !.state = "closing"]]
    BY <1>2, <2>1, <2>2, <2>4 DEF Closes
  <2>7. [r EXCEPT !.socket = 0] = [socket |-> 0, connecting |-> objects[o].connecting]
    BY <2>3, ObjectSet
  <2>8. [t EXCEPT !.state = "closing"] = [object |-> o, state |-> "closing"]
    BY <2>1, <2>2, <2>4, SocketSet DEF SocketStates
  <2> DEFINE new == [socket |-> 0, connecting |-> objects[o].connecting]
  <2>9. Writes(s, o, new, "closing")
    BY <2>5, <2>6, <2>7, <2>8, Zenon DEF Writes
  <2>10. Change(s, o, new, "closing")
    BY <2>2 DEF Change
  <2>11. o = sockets[s].object
    BY <2>1, <2>2
  <2> HIDE DEF new
  <2>12. Changed(s, o, new, "closing")
    BY <2>9, <2>10, <2>11, ChangesLinked
  <2>13. QED
    BY <1>2, <2>2, <2>12 DEF Closing, Changed, new
<1>3. CASE ~(o # 0 /\ objects[o].socket # 0)
  BY <1>1, <1>3 DEF Closes, Closing, Extends
<1>4. QED
  BY <1>2, <1>3

\* The events of connection s, on its object o.
LEMMA SocketWritten ==
    ASSUME Linked(objects, sockets), NEW s \in DOMAIN sockets, NEW state \in SocketStates,
           sockets' = [sockets EXCEPT ![s].state = state]
    PROVE  sockets' = [sockets EXCEPT ![s] = [object |-> sockets[s].object, state |-> state]]
<1>1. PICK t \in SocketType : t = sockets[s]
  BY SocketsObject
<1>2. sockets' = [sockets EXCEPT ![s] = [t EXCEPT !.state = state]]
  BY <1>1
<1>3. [t EXCEPT !.state = state] = [object |-> t.object, state |-> state]
  BY SocketSet
<1>4. sockets' = [sockets EXCEPT ![s] = [object |-> t.object, state |-> state]]
  BY <1>2, <1>3, Zenon
<1>5. QED
  BY <1>1, <1>4

LEMMA OpenedChanges ==
    ASSUME Linked(objects, sockets), NEW s \in DOMAIN sockets, Opened(s), NEW o, o = sockets[s].object
    PROVE  /\ sockets[s].state = "connecting" /\ objects[o].connecting = s
           /\ Changed(s, o, [socket |-> s, connecting |-> 0], "open")
<1>1. /\ s \in 1..Len(sockets) /\ o \in 1..Len(objects) /\ objects[o] \in ObjectType
      /\ sockets[s].state = "connecting" /\ objects[o].connecting = s /\ s \in Nat
  BY SocketsObject DEF Opened, Linked
<1>2. sockets' = [sockets EXCEPT ![s] = [object |-> o, state |-> "open"]]
  BY SocketWritten DEF Opened, SocketStates
<1>3. PICK r \in ObjectType : r = objects[o]
  BY <1>1
<1> DEFINE r0 == [r EXCEPT !.connecting = 0]
<1>4. r0 = [socket |-> r.socket, connecting |-> 0] /\ r0 \in ObjectType
  BY ObjectSet DEF ObjectType
<1>5. Settles(o) = [objects EXCEPT ![o] = r0]
  BY <1>3 DEF Settles
<1> HIDE DEF r0
<1> DEFINE mid == [objects EXCEPT ![o] = r0]
<1>6. objects \in Seq(ObjectType)
  BY DEF Linked
<1>7. mid \in Seq(ObjectType) /\ Len(mid) = Len(objects) /\ mid[o] = r0
      /\ \A p \in 1..Len(objects) \ {o} : mid[p] = objects[p]
  BY <1>1, <1>4, <1>6, ElementSet
<1>8. [r0 EXCEPT !.socket = s] = [socket |-> s, connecting |-> 0]
  <2>1. [r0 EXCEPT !.socket = s] = [socket |-> s, connecting |-> r0.connecting]
    BY <1>1, <1>4, ObjectSet
  <2>2. r0.connecting = 0
    BY <1>4
  <2>3. QED
    BY <2>1, <2>2
<1>9. objects' = [mid EXCEPT ![o] = [r0 EXCEPT !.socket = s]]
  BY <1>5, <1>7 DEF Opened
<1> DEFINE new == [socket |-> s, connecting |-> 0]
<1>10. new \in ObjectType
  BY <1>1 DEF ObjectType
<1>11. objects' = [mid EXCEPT ![o] = new]
  BY <1>8, <1>9, Zenon
<1> HIDE DEF new
<1>12. objects' = [objects EXCEPT ![o] = new]
  BY <1>1, <1>11 DEF mid
<1>13. Writes(s, o, new, "open") /\ Change(s, o, new, "open")
  BY <1>1, <1>2, <1>12 DEF Writes, Change, new
<1>14. Changed(s, o, new, "open")
  BY <1>1, <1>13, ChangesLinked
<1>15. QED
  BY <1>1, <1>14 DEF new

LEMMA NotOpenedChanges ==
    ASSUME Linked(objects, sockets), NEW s \in DOMAIN sockets, NotOpened(s), NEW o, o = sockets[s].object
    PROVE  /\ sockets[s].state = "connecting" /\ objects[o].connecting = s
           /\ Changed(s, o, [socket |-> objects[o].socket, connecting |-> 0], "closed")
<1>1. /\ s \in 1..Len(sockets) /\ o \in 1..Len(objects) /\ objects[o] \in ObjectType
      /\ sockets[s].state = "connecting" /\ objects[o].connecting = s /\ s \in Nat
  BY SocketsObject DEF NotOpened, Linked
<1>2. sockets' = [sockets EXCEPT ![s] = [object |-> o, state |-> "closed"]]
  BY SocketWritten DEF NotOpened, SocketStates
<1>3. PICK r \in ObjectType : r = objects[o]
  BY <1>1
<1>4. objects' = [objects EXCEPT ![o] = [r EXCEPT !.connecting = 0]]
  BY <1>3 DEF NotOpened, Settles
<1>5. [r EXCEPT !.connecting = 0] = [socket |-> objects[o].socket, connecting |-> 0]
  BY <1>3, ObjectSet
<1> DEFINE new == [socket |-> objects[o].socket, connecting |-> 0]
<1>6. objects' = [objects EXCEPT ![o] = new]
  BY <1>4, <1>5, Zenon
<1> HIDE DEF new
<1>7. Writes(s, o, new, "closed") /\ Change(s, o, new, "closed")
  BY <1>1, <1>2, <1>6 DEF Writes, Change, new
<1>8. Changed(s, o, new, "closed")
  BY <1>1, <1>7, ChangesLinked
<1>9. QED
  BY <1>1, <1>8 DEF new

LEMMA DropChanges ==
    ASSUME Linked(objects, sockets), NEW s \in DOMAIN sockets, Drop(s), NEW o, o = sockets[s].object
    PROVE  o \in 1..Len(objects) /\ Changed(s, o, objects[o], "ended")
<1>1. /\ s \in 1..Len(sockets) /\ o \in 1..Len(objects) /\ objects[o] \in ObjectType
      /\ objects[o].socket = s /\ objects \in Seq(ObjectType)
  BY SocketsObject DEF Drop, Linked
<1>2. sockets' = [sockets EXCEPT ![s] = [object |-> o, state |-> "ended"]]
  BY SocketWritten DEF Drop, SocketStates
<1>3. objects' = [objects EXCEPT ![o] = objects[o]]
  BY <1>1 DEF Drop
<1>4. Writes(s, o, objects[o], "ended") /\ Change(s, o, objects[o], "ended")
  BY <1>1, <1>2, <1>3 DEF Writes, Change
<1>5. QED
  BY <1>1, <1>4, ChangesLinked

LEMMA ClosedChanges ==
    ASSUME Linked(objects, sockets), NEW s \in DOMAIN sockets, Closed(s), NEW o, o = sockets[s].object
    PROVE  /\ o \in 1..Len(objects) /\ sockets[s].state \in {"ended", "closing"}
           /\ \E socket \in {0, objects[o].socket} : Changed(s, o, [socket |-> socket,
                                         connecting |-> objects[o].connecting], "closed")
<1>1. /\ s \in 1..Len(sockets) /\ o \in 1..Len(objects) /\ objects[o] \in ObjectType
      /\ sockets[s].state \in {"ended", "closing"} /\ s \in Nat
  BY SocketsObject DEF Closed, Linked
<1>2. sockets' = [sockets EXCEPT ![s] = [object |-> o, state |-> "closed"]]
  BY SocketWritten DEF Closed, SocketStates
<1>3. PICK r \in ObjectType : r = objects[o]
  BY <1>1
<1>4. PICK n : n = IF r.socket = s THEN 0 ELSE r.socket
  OBVIOUS
<1>5. n \in Nat
  BY <1>4 DEF ObjectType
<1>6. objects' = [objects EXCEPT ![o] = [r EXCEPT !.socket = n]]
  BY <1>3, <1>4 DEF Closed
<1>7. [r EXCEPT !.socket = n] = [socket |-> n, connecting |-> objects[o].connecting]
  BY <1>3, <1>5, ObjectSet
<1> DEFINE new == [socket |-> n, connecting |-> objects[o].connecting]
<1>8. objects' = [objects EXCEPT ![o] = new]
  BY <1>6, <1>7, Zenon
<1>9. new = [socket |-> IF objects[o].socket = s THEN 0 ELSE objects[o].socket,
             connecting |-> objects[o].connecting]
  BY <1>3, <1>4
<1> HIDE DEF new
<1>10. Writes(s, o, new, "closed")
  BY <1>2, <1>8 DEF Writes
<1>11. Change(s, o, new, "closed")
  BY <1>1, <1>9 DEF Change
<1>12. Changed(s, o, new, "closed")
  BY <1>1, <1>10, <1>11, ChangesLinked
<1>13. n \in {0, objects[o].socket}
  BY <1>3, <1>4
<1>14. QED
  BY <1>1, <1>12, <1>13 DEF new

-----------------------------------------------------------------------------
(* The invariant.                                                          *)

States == {"new", "done"} \cup Waiting \cup Due \cup Http
CallType == [pc : States, object : Nat, socket : Nat, try : Nat, left : Nat, sent : Nat,
             result : {"none", "ok", "refused", "error"}]
WatcherType == [pc : {"sleep", "connect", "subscribe", "listening", "closing", "ended"},
                object : Nat, socket : Nat, stopped : BOOLEAN]

\* A call that uses an object, from opening it to the answer.
Holding == {"shared", "connect", "sharedOK", "connectOK", "wait", "hold"}

\* What is true of a call of kind k, wherever the sessions are: what changes the
\* Core was not sent before a connection for it was there.
CallFits(r, k) ==
    /\ r.pc \in Holding => r.object # 0
    /\ r.pc = "wait" => r.socket # 0 /\ r.sent > 0
    /\ k = "none" => r.pc = "done"
    /\ k = "http" => r.pc \in Http \cup {"new", "done"}
    /\ r.pc \in Http => k = "http"
    /\ k \in {"set", "batch", "inhibit"} =>
          /\ r.sent <= 1
          /\ r.pc \in {"new"} \cup (Holding \ {"wait"}) => r.sent = 0
    /\ r.pc = "closing" => k \in {"get", "inhibit"}
    /\ r.pc = "hold" => k = "inhibit"
    /\ k = "inhibit" => /\ r.pc \notin {"shared", "sharedOK"}
                        /\ r.pc \in {"new", "done"} <=> r.object = 0
    /\ r.result = "ok" => r.pc = "done" /\ (k # "inhibit" => r.sent > 0)

CallsFit ==
    /\ call \in [Calls -> CallType]
    /\ \A c \in Calls : /\ CallFits(call[c], Kind(c))
                        /\ call[c].object \in 0..Len(objects)
                        /\ call[c].socket \in 0..Len(sockets)

Typed ==
    /\ program \in Programs /\ faults \in Nat
    /\ Linked(objects, sockets) /\ shared \in 0..Len(objects)
    /\ watcher \in WatcherType /\ watcher.object \in 0..Len(objects)

\* The watcher has an object of its own while it is at work, and nobody else
\* opens connections for that one.
Apart ==
    /\ watcher.pc \in {"connect", "subscribe", "listening", "closing"} <=> watcher.object # 0
    /\ watcher.pc \in {"subscribe", "listening", "closing"} => ~Connecting(watcher.object)
    /\ watcher.object # 0 => /\ watcher.object # shared
                             /\ \A c \in Calls : call[c].object # watcher.object

\* So has each inhibitor, and closes it before it ends.
Single ==
    \A c \in Calls : Kind(c) = "inhibit" /\ call[c].object # 0 =>
        /\ call[c].object # shared
        /\ \A d \in Calls \ {c} : call[d].object # call[c].object
        /\ call[c].pc # "connect" => objects[call[c].object].connecting = 0
        /\ call[c].pc = "closing" => objects[call[c].object].socket = 0

\* A session that lives is somebody's, or was forsaken.
Live(s) == sockets[s].state \in {"connecting", "open"}
Owners == {shared, watcher.object} \cup Inhibitors \cup forsaken
Kept == \A s \in 1..Len(sockets) : Live(s) => sockets[s].object \in Owners

CoreInv == Typed /\ CallsFit /\ Apart /\ Single /\ Kept

-----------------------------------------------------------------------------
(* What happens to calls.                                                  *)

\* One call moves: the others are where they were.
LEMMA CallSet ==
    ASSUME call \in [Calls -> CallType], NEW c \in Calls, NEW v \in CallType,
           call' = [call EXCEPT ![c] = v]
    PROVE  call' \in [Calls -> CallType] /\ call'[c] = v /\ \A d \in Calls \ {c} : call'[d] = call[d]
OBVIOUS

\* Only c moved, to v.
Moves(c, v) == v \in CallType /\ call' = [call EXCEPT ![c] = v] /\ program' = program

\* Calls stay fit when one moves to a fit state.
LEMMA MovesFit ==
    ASSUME CallsFit, Extends, NEW c \in Calls, NEW v, Moves(c, v), CallFits(v, Kind(c)),
           v.object \in 0..Len(objects'), v.socket \in 0..Len(sockets')
    PROVE  CallsFit' /\ call'[c] = v /\ \A d \in Calls \ {c} : call'[d] = call[d]
<1>1. call' \in [Calls -> CallType] /\ call'[c] = v /\ \A d \in Calls \ {c} : call'[d] = call[d]
  BY CallSet DEF Moves, CallsFit
<1>2. \A d \in Calls : Kind(d)' = Kind(d)
  BY DEF Moves, Kind
<1>3. \A d \in Calls : /\ CallFits(call[d], Kind(d))
                       /\ call[d].object \in 0..Len(objects)
                       /\ call[d].socket \in 0..Len(sockets)
  BY DEF CallsFit
<1>4. \A n : (n \in 0..Len(objects) => n \in 0..Len(objects'))
             /\ (n \in 0..Len(sockets) => n \in 0..Len(sockets'))
  BY DEF Extends
<1>5. ASSUME NEW d \in Calls
      PROVE  CallFits(call'[d], Kind(d)') /\ call'[d].object \in 0..Len(objects')
             /\ call'[d].socket \in 0..Len(sockets')
  <2>1. CASE d = c
    BY <1>1, <1>2, <2>1
  <2>2. CASE d # c
    BY <1>1, <1>2, <1>3, <1>4, <2>2
  <2>3. QED
    BY <2>1, <2>2
<1>6. QED
  BY <1>1, <1>5 DEF CallsFit

\* Calls stay fit when none moves.
LEMMA RestsFit ==
    ASSUME CallsFit, Extends, call' = call, program' = program
    PROVE  CallsFit'
<1>1. \A d \in Calls : Kind(d)' = Kind(d)
  BY DEF Kind
<1>2. \A n : (n \in 0..Len(objects) => n \in 0..Len(objects'))
             /\ (n \in 0..Len(sockets) => n \in 0..Len(sockets'))
  BY DEF Extends
<1>3. QED
  BY <1>1, <1>2 DEF CallsFit

\* A call that goes on with another pc keeps the rest.
LEMMA CallGoesTo ==
    ASSUME call \in [Calls -> CallType], NEW c \in Calls, NEW pc \in States,
           call' = [call EXCEPT ![c].pc = pc]
    PROVE  \E v \in CallType :
               /\ call' = [call EXCEPT ![c] = v]
               /\ v.pc = pc /\ v.object = call[c].object /\ v.socket = call[c].socket
               /\ v.sent = call[c].sent /\ v.result = call[c].result
<1>1. PICK r \in CallType : r = call[c]
  OBVIOUS
<1> DEFINE v == [r EXCEPT !.pc = pc]
<1>2. v \in CallType /\ v.pc = pc /\ v.object = r.object /\ v.socket = r.socket
      /\ v.sent = r.sent /\ v.result = r.result
  BY DEF CallType
<1>3. call' = [call EXCEPT ![c] = v]
  BY <1>1
<1> HIDE DEF v
<1>4. QED
  BY <1>1, <1>2, <1>3

\* The shared session is taken, or a new one is opened, and the call holds it.
LEMMA EnterMoves ==
    ASSUME Typed, CallsFit, NEW c \in Calls, NEW try \in Nat, Enter(c, try), program' = program
    PROVE  /\ Opening(shared')
           /\ shared' = IF SharedIsUsable THEN shared ELSE Len(objects) + 1
           /\ \E v : /\ Moves(c, v) /\ v.object = shared' /\ v.socket = call[c].socket
                     /\ v.sent = call[c].sent /\ v.result = call[c].result
                     /\ v.pc = IF Connected(shared) THEN "sharedOK" ELSE "shared"
<1>1. Linked(objects, sockets) /\ Len(objects) \in Nat /\ shared \in 0..Len(objects)
      /\ call \in [Calls -> CallType]
  BY DEF Typed, Linked, CallsFit
<1>2. PICK o : o = IF SharedIsUsable THEN shared ELSE Len(objects) + 1
  OBVIOUS
<1>3. PICK objs : objs = IF o = shared THEN objects ELSE Append(objects, Fresh)
  OBVIOUS
<1>4. shared' = o /\ Connects(objs, o)
  BY <1>2, <1>3 DEF Enter
<1>5. SharedIsUsable => shared # 0
  BY DEF SharedIsUsable, Connected, Connecting
<1>6. /\ \/ objs = objects /\ o \in 1..Len(objects)
         \/ objs = Append(objects, Fresh) /\ o = Len(objects) + 1
      /\ o \in Nat
  BY <1>1, <1>2, <1>3, <1>5
<1>7. Opening(o)
  BY <1>1, <1>4, <1>6, ConnectsOpens
<1>8. PICK left \in Nat : left = IF Kind(c) = "batch" THEN 2 ELSE 1
  OBVIOUS
<1>9. PICK pc \in States : pc = IF Connected(shared) THEN "sharedOK" ELSE "shared"
  BY DEF States, Waiting, Due
<1>10. PICK r \in CallType : r = call[c]
  BY <1>1
<1> DEFINE v == [r EXCEPT !.object = o, !.try = try, !.left = left, !.pc = pc]
<1>11. v \in CallType /\ v.pc = pc /\ v.object = o /\ v.socket = r.socket /\ v.sent = r.sent
       /\ v.result = r.result
  BY <1>6 DEF CallType
<1>12. call' = [call EXCEPT ![c] = v]
  BY <1>2, <1>8, <1>9, <1>10 DEF Enter
<1> HIDE DEF v
<1>13. QED
  BY <1>2, <1>4, <1>7, <1>9, <1>10, <1>11, <1>12 DEF Moves

\* A call is over.
LEMMA ReturnMoves ==
    ASSUME CallsFit, NEW c \in Calls, NEW result \in {"ok", "refused", "error"},
           Over(c, result), program' = program
    PROVE  \E v : /\ Moves(c, v) /\ v.pc = "done" /\ v.object = 0 /\ v.socket = 0
                  /\ v.sent = call[c].sent /\ v.result = result
<1>1. PICK r \in CallType : r = call[c]
  BY DEF CallsFit
<1>2. PICK n \in Nat : n = r.sent
  BY DEF CallType
<1>3. PICK new \in CallType : new = NewCall /\ new.object = 0 /\ new.socket = 0
  <2>1. NewCall \in CallType
    BY DEF NewCall, CallType, States
  <2>2. NewCall.object = 0 /\ NewCall.socket = 0
    BY DEF NewCall
  <2>3. QED
    BY <2>1, <2>2
<1> DEFINE v == [new EXCEPT !.pc = "done", !.sent = n, !.result = result]
<1>4. v \in CallType /\ v.pc = "done" /\ v.object = new.object /\ v.socket = new.socket
      /\ v.sent = n /\ v.result = result
  BY DEF CallType, States
<1>5. call' = [call EXCEPT ![c] = v]
  BY <1>1, <1>2, <1>3 DEF Over
<1> HIDE DEF v
<1>6. QED
  BY <1>1, <1>2, <1>3, <1>4, <1>5 DEF Moves

\* What close() leaves: no session of the object, unless one is being opened.
LEMMA ClosingEnds ==
    ASSUME Linked(objects, sockets), NEW o \in 0..Len(objects), Closing(o)
    PROVE  /\ Len(objects') = Len(objects) /\ Len(sockets') = Len(sockets)
           /\ \A p \in 1..Len(objects) : objects'[p].connecting = objects[p].connecting
           /\ \A p \in 1..Len(objects) \ {o} : objects'[p] = objects[p]
           /\ \A s \in 1..Len(sockets) :
                 /\ sockets'[s].object = sockets[s].object
                 /\ sockets[s].object # o => sockets'[s] = sockets[s]
                 /\ sockets'[s].state \in {"connecting", "open"} =>
                       sockets[s].state \in {"connecting", "open"}
                 /\ sockets[s].object = o /\ ~Connecting(o) =>
                       sockets'[s].state \notin {"connecting", "open"}
<1>1. /\ objects \in Seq(ObjectType) /\ sockets \in Seq(SocketType)
      /\ Len(objects) \in Nat /\ Len(sockets) \in Nat
  BY DEF Linked
<1>2. ASSUME NEW s \in 1..Len(sockets), sockets[s].object = o, ~Connecting(o),
             sockets[s].state \in {"connecting", "open"}
      PROVE  o # 0 /\ objects[o].socket = s /\ s # 0
  BY <1>1, <1>2 DEF Linked, Connecting
<1>3. CASE o # 0 /\ objects[o].socket # 0
  <2>1. Changed(objects[o].socket, o, [socket |-> 0, connecting |-> objects[o].connecting], "closing")
    BY <1>3 DEF Closing
  <2>2. PICK n, s1 : n = objects[o].connecting /\ s1 = objects[o].socket
    OBVIOUS
  <2>3. /\ Len(objects') = Len(objects) /\ Len(sockets') = Len(sockets)
        /\ objects'[o].connecting = n
        /\ \A p \in 1..Len(objects) \ {o} : objects'[p] = objects[p]
        /\ sockets'[s1].object = o /\ sockets'[s1].state = "closing"
        /\ \A t \in 1..Len(sockets) \ {s1} : sockets'[t] = sockets[t]
    BY <2>1, <2>2 DEF Changed
  <2>4. sockets[s1].object = o
    BY <1>1, <1>3, <2>2 DEF Linked
  <2>5. QED
    BY <1>2, <2>2, <2>3, <2>4
<1>4. CASE ~(o # 0 /\ objects[o].socket # 0)
  BY <1>2, <1>4 DEF Closing
<1>5. QED
  BY <1>3, <1>4

-----------------------------------------------------------------------------
(* Each action keeps the invariant: the calls.                             *)

\* A session that lived before keeps its owner, unless the owner lets go of
\* an object that has none.
LEMMA KeepsOwners ==
    ASSUME Kept,
           \A s \in 1..Len(sockets') : Live(s)' =>
              \/ sockets'[s].object \in Owners'
              \/ /\ s \in 1..Len(sockets) /\ Live(s)
                 /\ sockets'[s].object = sockets[s].object
                 /\ sockets[s].object \in Owners => sockets[s].object \in Owners'
    PROVE  Kept'
BY DEF Kept

\* Inhibitors that keep their objects.
LEMMA SameInhibitors ==
    ASSUME program' = program,
           \A d \in Calls : Kind(d) = "inhibit" => call'[d].object = call[d].object
    PROVE  Inhibitors' = Inhibitors
BY DEF Inhibitors, Kind

\* An object is opened by one that has it by then; those that let go of an
\* object let go of one without sessions.
LEMMA OpensForOwner ==
    ASSUME Linked(objects, sockets), Kept, NEW o, Opening(o), o \in Owners',
           \A p \in 1..Len(objects) :
              p \in Owners => p \in Owners' \/ (~Open(p) /\ ~Connecting(p))
    PROVE  Kept'
<1>1. SUFFICES ASSUME NEW s \in 1..Len(sockets'), Live(s)'
               PROVE  \/ sockets'[s].object \in Owners'
                      \/ /\ s \in 1..Len(sockets) /\ Live(s)
                         /\ sockets'[s].object = sockets[s].object
                         /\ sockets[s].object \in Owners => sockets[s].object \in Owners'
  BY KeepsOwners
<1>2. CASE s \in 1..Len(sockets)
  <2>1. sockets'[s] = sockets[s] /\ Live(s)
    BY <1>1, <1>2 DEF Opening, Live
  <2>2. /\ sockets[s].object \in 1..Len(objects) /\ s # 0
        /\ Open(sockets[s].object) \/ Connecting(sockets[s].object)
    BY <1>2, <2>1 DEF Linked, Live, Open, Connecting
  <2>3. QED
    BY <1>2, <2>1, <2>2
<1>3. CASE s \notin 1..Len(sockets)
  BY <1>3 DEF Opening
<1>4. QED
  BY <1>2, <1>3

\* The sequences of objects and of connections.
LEMMA Lengths ==
    ASSUME Typed
    PROVE  /\ objects \in Seq(ObjectType) /\ sockets \in Seq(SocketType)
           /\ Len(objects) \in Nat /\ Len(sockets) \in Nat
           /\ DOMAIN objects = 1..Len(objects) /\ DOMAIN sockets = 1..Len(sockets)
BY DEF Typed, Linked

LEMMA EnterKeeps ==
    ASSUME CoreInv, NEW c \in Calls, NEW try \in Nat, Enter(c, try),
           UNCHANGED <<program, watcher, late, forsaken, faults>>,
           call[c].pc \in {"new", "closing"}, Kind(c) \notin {"http", "inhibit"}
    PROVE  CoreInv'
<1>1. Typed /\ CallsFit /\ Apart
  BY DEF CoreInv
<1>2. PICK v : /\ Moves(c, v) /\ v.object = shared' /\ v.socket = call[c].socket
               /\ v.sent = call[c].sent /\ v.result = call[c].result
               /\ v.pc = IF Connected(shared) THEN "sharedOK" ELSE "shared"
  BY <1>1, EnterMoves
<1>3. Opening(shared') /\ shared' = IF SharedIsUsable THEN shared ELSE Len(objects) + 1
  BY <1>1, EnterMoves
<1>4. /\ Linked(objects, sockets)' /\ Extends /\ shared' \in 1..Len(objects')
      /\ Len(objects) \in Nat /\ shared \in 0..Len(objects)
  BY <1>1, <1>3 DEF Opening, Extends, Typed
<1>5. watcher.object \in 0..Len(objects)
  BY <1>1 DEF Typed
<1>6. Typed'
  BY <1>1, <1>4, <1>5 DEF Typed, Extends
<1>7. CallFits(v, Kind(c))
  <2>1. CallFits(call[c], Kind(c))
    BY <1>1 DEF CallsFit
  <2>2. v.pc \in {"shared", "sharedOK"} /\ v.object # 0
    BY <1>2, <1>4
  <2>3. QED
    BY <1>2, <2>1, <2>2 DEF CallFits, Holding, Http
<1>8. v.object \in 0..Len(objects') /\ v.socket \in 0..Len(sockets')
  BY <1>1, <1>2, <1>4 DEF CallsFit, Extends
<1>9. CallsFit' /\ call'[c] = v /\ \A d \in Calls \ {c} : call'[d] = call[d]
  BY <1>1, <1>2, <1>4, <1>7, <1>8, MovesFit
<1>10. Apart'
  <2>1. watcher.object # 0 => watcher.object # shared' /\ watcher.object # v.object
    BY <1>1, <1>2, <1>3, <1>4, <1>5 DEF Apart
  <2>2. watcher.object # 0 => objects'[watcher.object] = objects[watcher.object]
    BY <1>3, <1>4, <1>5, <2>1 DEF Opening
  <2>3. QED
    BY <1>1, <1>9, <2>1, <2>2 DEF Apart, Connecting
<1>11. Single'
  <2> SUFFICES ASSUME NEW i \in Calls, Kind(i) = "inhibit", call'[i].object # 0
               PROVE  /\ call'[i].object # shared'
                      /\ \A d \in Calls \ {i} : call'[d].object # call'[i].object
                      /\ call'[i].pc # "connect" => objects'[call'[i].object].connecting = 0
                      /\ call'[i].pc = "closing" => objects'[call'[i].object].socket = 0
    BY DEF Single, Kind
  <2>1. i # c /\ call'[i] = call[i] /\ call[i].object \in 1..Len(objects)
    BY <1>1, <1>4, <1>9 DEF CallsFit
  <2>2. /\ call[i].object # shared
        /\ \A d \in Calls \ {i} : call[d].object # call[i].object
        /\ call[i].pc # "connect" => objects[call[i].object].connecting = 0
        /\ call[i].pc = "closing" => objects[call[i].object].socket = 0
    BY <2>1 DEF CoreInv, Single
  <2>3. call[i].object # shared'
    BY <1>3, <1>4, <2>1, <2>2
  <2>4. objects'[call[i].object] = objects[call[i].object]
    BY <1>3, <2>1, <2>3 DEF Opening
  <2>5. QED
    BY <1>2, <1>9, <2>1, <2>2, <2>3, <2>4
<1>12. Kept'
  <2>1. Inhibitors' = Inhibitors
    <3>1. \A d \in Calls : Kind(d) = "inhibit" => call'[d].object = call[d].object
      BY <1>9
    <3>2. QED
      BY <3>1, SameInhibitors
  <2>2. shared' \in Owners' /\ Kept
    BY DEF Owners, CoreInv
  <2>3. \A p \in 1..Len(objects) :
            p \in Owners => p \in Owners' \/ (~Open(p) /\ ~Connecting(p))
    BY <1>3, <1>4, <2>1 DEF Owners, SharedIsUsable, Connected, Connecting
  <2>4. QED
    BY <1>1, <1>3, <2>2, <2>3, OpensForOwner DEF Typed
<1>13. QED
  BY <1>6, <1>9, <1>10, <1>11, <1>12 DEF CoreInv

LEMMA StartKeeps == ASSUME CoreInv, NEW c \in Calls, Start(c) PROVE CoreInv'
BY EnterKeeps DEF Start

LEMMA AgainKeeps == ASSUME CoreInv, NEW c \in Calls, Again(c) PROVE CoreInv'
<1>1. call[c].pc = "closing" /\ Kind(c) \notin {"http", "inhibit"}
  BY DEF Again, Gone, CoreInv, CallsFit, CallFits, Http
<1>2. QED
  BY <1>1, EnterKeeps DEF Again

\* A call moves and no object, connection or watcher is touched; an inhibitor
\* gives its object up only when it is closed.
LEMMA MovesAlone ==
    ASSUME CoreInv, NEW c \in Calls, NEW v, Moves(c, v), CallFits(v, Kind(c)),
           UNCHANGED <<objects, sockets, shared, watcher, forsaken>>, faults' \in Nat,
           v.object \in {0, call[c].object, shared}, v.socket \in 0..Len(sockets),
           Kind(c) = "inhibit" =>
              /\ v.object = call[c].object \/ (v.object = 0 /\ call[c].pc = "closing")
              /\ v.pc # "closing" /\ call[c].pc # "connect"
    PROVE  CoreInv'
<1>1. Typed /\ CallsFit /\ Apart /\ Single /\ Kept /\ Extends
  BY Lengths DEF CoreInv, Extends
<1>2. v.object \in 0..Len(objects')
  BY <1>1 DEF CallsFit, Typed, Extends
<1>3. CallsFit' /\ call'[c] = v /\ \A d \in Calls \ {c} : call'[d] = call[d]
  BY <1>1, <1>2, MovesFit
<1>4. Typed'
  BY <1>1 DEF Typed, Moves
<1>5. Apart'
  BY <1>1, <1>3 DEF Apart, Connecting
<1>6. Single'
  <2> SUFFICES ASSUME NEW i \in Calls, Kind(i) = "inhibit", call'[i].object # 0
               PROVE  /\ call'[i].object # shared
                      /\ \A d \in Calls \ {i} : call'[d].object # call'[i].object
                      /\ call'[i].pc # "connect" => objects[call'[i].object].connecting = 0
                      /\ call'[i].pc = "closing" => objects[call'[i].object].socket = 0
    BY DEF Single, Kind, Moves
  <2>1. call'[i].object = call[i].object
    BY <1>3
  <2>2. /\ call[i].object # shared
        /\ \A d \in Calls \ {i} : call[d].object # call[i].object
        /\ call[i].pc # "connect" => objects[call[i].object].connecting = 0
        /\ call[i].pc = "closing" => objects[call[i].object].socket = 0
    BY <1>1, <2>1 DEF Single
  <2>3. QED
    BY <1>3, <2>1, <2>2
<1>7. Kept'
  <2> SUFFICES ASSUME NEW s \in 1..Len(sockets), Live(s), sockets[s].object \in Owners
               PROVE  sockets[s].object \in Owners'
    BY <1>1 DEF Kept, Live
  <2>1. /\ sockets[s].object \in 1..Len(objects) /\ s # 0 /\ sockets[s].object # 0
        /\ Open(sockets[s].object) \/ Connecting(sockets[s].object)
    BY <1>1, Lengths DEF Typed, Linked, Live, Open, Connecting
  <2>2. CASE sockets[s].object \in Inhibitors
    <3>1. PICK i \in Calls : Kind(i) = "inhibit" /\ call[i].object = sockets[s].object
      BY <2>2 DEF Inhibitors
    <3>2. call[i].object # 0
      BY <2>1, <3>1
    <3>3. call[i].pc # "closing"
      BY <1>1, <2>1, <3>1, <3>2 DEF Single, Open, Connecting
    <3>4. call'[i].object = call[i].object
      BY <1>3, <3>1, <3>3
    <3>5. QED
      BY <3>1, <3>4 DEF Owners, Inhibitors, Kind, Moves
  <2>3. CASE sockets[s].object \notin Inhibitors
    BY <2>3 DEF Owners
  <2>4. QED
    BY <2>2, <2>3
<1>8. QED
  BY <1>3, <1>4, <1>5, <1>6, <1>7 DEF CoreInv

\* The kept facts of one call.
LEMMA CallOf ==
    ASSUME CoreInv, NEW c \in Calls
    PROVE  /\ call \in [Calls -> CallType] /\ call[c] \in CallType /\ CallFits(call[c], Kind(c))
           /\ call[c].object \in 0..Len(objects) /\ call[c].socket \in 0..Len(sockets)
           /\ call[c].object \in Nat /\ call[c].socket \in Nat /\ call[c].sent \in Nat
           /\ faults \in Nat /\ Linked(objects, sockets) /\ shared \in 0..Len(objects)
BY DEF CoreInv, CallsFit, Typed, CallType

LEMMA SendKeeps == ASSUME CoreInv, NEW c \in Calls, Send(c) PROVE CoreInv'
<1>1. /\ call \in [Calls -> CallType] /\ CallFits(call[c], Kind(c))
      /\ call[c].object \in 1..Len(objects) /\ call[c].socket \in 0..Len(sockets)
      /\ faults \in Nat /\ Linked(objects, sockets) /\ call[c].pc = "connectOK"
  BY CallOf DEF Send, CallFits, Holding
<1>2. PICK r \in CallType : r = call[c]
  BY <1>1
<1>3. objects[r.object].socket \in 0..Len(sockets) /\ Len(sockets) \in Nat
  BY <1>1, <1>2 DEF Linked
<1>4. CASE Open(call[c].object)
  <2>1. PICK s \in Nat : s = objects[r.object].socket /\ s # 0
    BY <1>2, <1>3, <1>4 DEF Open
  <2>2. PICK n \in Nat : n = r.sent + 1
    BY DEF CallType
  <2> DEFINE v == [r EXCEPT !.pc = "wait", !.socket = s, !.sent = n]
  <2>3. v \in CallType /\ v.pc = "wait" /\ v.object = r.object /\ v.socket = s /\ v.sent = n
        /\ v.result = r.result
    BY DEF CallType, States, Waiting
  <2>4. call' = [call EXCEPT ![c] = v]
    BY <1>2, <1>4, <2>1, <2>2 DEF Send
  <2> HIDE DEF v
  <2>5. Moves(c, v)
    BY <2>3, <2>4 DEF Moves, Send
  <2>6. CallFits(v, Kind(c))
    <3>1. CallFits(r, Kind(c)) /\ r.pc = "connectOK" /\ r.sent \in Nat
      BY <1>1, <1>2 DEF CallType
    <3>2. v.pc = "wait" /\ v.object = r.object /\ v.socket # 0 /\ v.sent = r.sent + 1 /\ v.result = r.result
      BY <2>1, <2>2, <2>3
    <3>3. QED
      BY <3>1, <3>2 DEF CallFits, Holding, Http
  <2>7. QED
    BY <1>1, <1>2, <1>3, <2>1, <2>3, <2>5, <2>6, MovesAlone DEF Send
<1>5. CASE ~Open(call[c].object)
  <2>1. call' = [call EXCEPT ![c] = [r EXCEPT !.pc = "failed"]]
    BY <1>2, <1>5 DEF Send
  <2> DEFINE v == [r EXCEPT !.pc = "failed"]
  <2>2. v \in CallType /\ v.pc = "failed" /\ v.object = r.object /\ v.socket = r.socket
        /\ v.sent = r.sent /\ v.result = r.result
    BY DEF CallType, States, Due
  <2>3. Moves(c, v)
    BY <2>1, <2>2 DEF Moves, Send
  <2> HIDE DEF v
  <2>4. CallFits(v, Kind(c))
    BY <1>1, <1>2, <2>2 DEF CallFits, Holding, Http
  <2>5. QED
    BY <1>1, <1>2, <2>2, <2>3, <2>4, MovesAlone DEF Send
<1>6. QED
  BY <1>4, <1>5

LEMMA TimeOutKeeps == ASSUME CoreInv, NEW c \in Calls, TimeOut(c) PROVE CoreInv'
<1>1. /\ call \in [Calls -> CallType] /\ CallFits(call[c], Kind(c)) /\ faults \in Nat
      /\ call[c].object \in 0..Len(objects) /\ call[c].socket \in 0..Len(sockets)
      /\ call[c].pc = "wait" /\ call' = [call EXCEPT ![c].pc = "failed"]
  BY CallOf DEF TimeOut
<1>2. PICK v \in CallType :
           /\ call' = [call EXCEPT ![c] = v]
           /\ v.pc = "failed" /\ v.object = call[c].object /\ v.socket = call[c].socket
           /\ v.sent = call[c].sent /\ v.result = call[c].result
  BY <1>1, CallGoesTo DEF States, Due
<1>3. Moves(c, v) /\ CallFits(v, Kind(c))
  BY <1>1, <1>2 DEF Moves, TimeOut, CallFits, Holding, Http
<1>4. faults' \in Nat
  BY <1>1 DEF TimeOut, Fault
<1>5. QED
  BY <1>1, <1>2, <1>3, <1>4, MovesAlone DEF TimeOut

\* A call moves and its object, one that is there, is opened again if need be.
LEMMA MovesOpening ==
    ASSUME CoreInv, NEW c \in Calls, NEW v, Moves(c, v), CallFits(v, Kind(c)),
           NEW o \in 1..Len(objects), Opening(o), o \in {shared, call[c].object},
           UNCHANGED <<shared, watcher, faults>>, o # watcher.object,
           v.object = o, v.socket = call[c].socket, forsaken \subseteq forsaken',
           \/ Kind(c) # "inhibit" /\ o \in {shared} \cup forsaken'
           \/ /\ Kind(c) = "inhibit" /\ o = call[c].object /\ call[c].pc # "connect"
              /\ v.pc = IF Open(o) THEN "connectOK" ELSE "connect"
    PROVE  CoreInv'
<1>1. Typed /\ CallsFit /\ Apart /\ Single /\ Kept
  BY DEF CoreInv
<1>2. /\ Linked(objects, sockets)' /\ Extends /\ o \in 1..Len(objects')
      /\ \A p \in 1..Len(objects) \ {o} : objects'[p] = objects[p]
      /\ Open(o) => objects' = objects
  BY DEF Opening
<1>3. v.object \in 0..Len(objects') /\ v.socket \in 0..Len(sockets')
  BY <1>1, <1>2 DEF CallsFit, Extends
<1>4. CallsFit' /\ call'[c] = v /\ \A d \in Calls \ {c} : call'[d] = call[d]
  BY <1>1, <1>2, <1>3, MovesFit
<1>5. Typed'
  BY <1>1, <1>2 DEF Typed, Moves, Extends
<1>6. Apart'
  <2>1. watcher.object \in 0..Len(objects)
    BY <1>1 DEF Typed
  <2>2. watcher.object # 0 => objects'[watcher.object] = objects[watcher.object]
    BY <1>2, <2>1
  <2>3. QED
    BY <1>1, <1>4, <2>2 DEF Apart, Connecting
<1>7. Single'
  <2> SUFFICES ASSUME NEW i \in Calls, Kind(i) = "inhibit", call'[i].object # 0
               PROVE  /\ call'[i].object # shared
                      /\ \A d \in Calls \ {i} : call'[d].object # call'[i].object
                      /\ call'[i].pc # "connect" => objects'[call'[i].object].connecting = 0
                      /\ call'[i].pc = "closing" => objects'[call'[i].object].socket = 0
    BY DEF Single, Kind, Moves
  <2>1. call'[i].object = call[i].object /\ call[i].object \in 1..Len(objects)
    BY <1>1, <1>4, Lengths DEF CallsFit
  <2>2. /\ call[i].object # shared
        /\ \A d \in Calls \ {i} : call[d].object # call[i].object
        /\ call[i].pc # "connect" => objects[call[i].object].connecting = 0
        /\ call[i].pc = "closing" => objects[call[i].object].socket = 0
    BY <1>1, <2>1 DEF Single
  <2>3. \A d \in Calls \ {i} : call'[d].object # call[i].object
    BY <1>4, <2>2
  <2>4. CASE i = c
    BY <1>2, <1>4, <2>1, <2>2, <2>3, <2>4
  <2>5. CASE i # c
    <3>1. call[i].object # o /\ call'[i] = call[i]
      BY <1>4, <2>2, <2>5
    <3>2. objects'[call[i].object] = objects[call[i].object]
      BY <1>2, <2>1, <3>1
    <3>3. QED
      BY <2>2, <2>3, <3>1, <3>2
  <2>6. QED
    BY <2>4, <2>5
<1>8. Kept'
  <2>1. Inhibitors' = Inhibitors
    <3>1. \A d \in Calls : Kind(d) = "inhibit" => call'[d].object = call[d].object
      BY <1>4
    <3>2. QED
      BY <3>1, SameInhibitors DEF Moves
  <2>2. Owners \subseteq Owners'
    BY <2>1 DEF Owners
  <2>3. o \in Owners'
    BY <2>1 DEF Owners, Inhibitors
  <2>4. QED
    BY <1>1, <2>2, <2>3, OpensForOwner DEF Typed
<1>9. QED
  BY <1>4, <1>5, <1>6, <1>7, <1>8 DEF CoreInv

LEMMA ResumeKeeps == ASSUME CoreInv, NEW c \in Calls, Resume(c) PROVE CoreInv'
<1>1. /\ call \in [Calls -> CallType] /\ CallFits(call[c], Kind(c)) /\ faults \in Nat
      /\ call[c].object \in 1..Len(objects) /\ call[c].socket \in 0..Len(sockets)
      /\ Linked(objects, sockets) /\ shared \in 0..Len(objects) /\ call[c].pc = "sharedOK"
  BY CallOf DEF Resume, CallFits, Holding
<1>2. Kind(c) # "inhibit"
  BY <1>1 DEF CallFits
<1>3. CASE shared = 0
  <2>1. call' = [call EXCEPT ![c].pc = "failed"] /\ UNCHANGED <<objects, sockets>>
    BY <1>3 DEF Resume
  <2>2. PICK v \in CallType :
             /\ call' = [call EXCEPT ![c] = v]
             /\ v.pc = "failed" /\ v.object = call[c].object /\ v.socket = call[c].socket
             /\ v.sent = call[c].sent /\ v.result = call[c].result
    BY <1>1, <2>1, CallGoesTo DEF States, Due
  <2>3. Moves(c, v) /\ CallFits(v, Kind(c))
    BY <1>1, <1>2, <1>3, <2>2 DEF Moves, Resume, CallFits, Holding, Http, Connected
  <2>4. QED
    BY <1>1, <1>2, <2>1, <2>2, <2>3, MovesAlone DEF Resume
<1>4. CASE shared # 0
  <2>1. Opening(shared)
    BY <1>1, <1>4, ConnectsOpens DEF Resume
  <2>2. PICK pc \in {"connectOK", "connect"} : pc = IF Connected(shared) THEN "connectOK" ELSE "connect"
    OBVIOUS
  <2>3. PICK r \in CallType : r = call[c]
    BY <1>1
  <2> DEFINE v == [r EXCEPT !.object = shared, !.pc = pc]
  <2>4. v \in CallType /\ v.pc = pc /\ v.object = shared /\ v.socket = r.socket
        /\ v.sent = r.sent /\ v.result = r.result
    <3>1. shared \in Nat /\ pc \in States
      BY <1>1 DEF Linked, States, Waiting, Due
    <3>2. QED
      BY <3>1 DEF CallType
  <2>5. call' = [call EXCEPT ![c] = v]
    BY <1>4, <2>2, <2>3 DEF Resume
  <2> HIDE DEF v
  <2>6. Moves(c, v) /\ CallFits(v, Kind(c))
    BY <1>1, <1>4, <2>2, <2>3, <2>4, <2>5 DEF Moves, Resume, CallFits, Holding, Http
  <2>7. shared # watcher.object
    BY <1>4 DEF CoreInv, Apart
  <2>8. shared \in 1..Len(objects)
    BY <1>1, <1>4 DEF Linked
  <2>9. QED
    BY <1>1, <1>2, <2>1, <2>3, <2>4, <2>6, <2>7, <2>8, MovesOpening DEF Resume
<1>5. QED
  BY <1>3, <1>4

\* The next request of a call goes out on the object it has.
LEMMA NextSent ==
    ASSUME CoreInv, NEW c \in Calls, NextRequest(c), program' = program,
           call[c].object # 0, call[c].pc # "done", Kind(c) \notin {"none", "http"}
    PROVE  /\ Opening(call[c].object)
           /\ \E v : /\ Moves(c, v) /\ CallFits(v, Kind(c)) /\ v.object = call[c].object
                     /\ v.socket = call[c].socket
                     /\ v.pc = IF Open(call[c].object) THEN "connectOK" ELSE "connect"
<1>1. /\ call \in [Calls -> CallType] /\ call[c].object \in 1..Len(objects)
      /\ Linked(objects, sockets) /\ CallFits(call[c], Kind(c))
  BY CallOf DEF Linked
<1>2. Opening(call[c].object)
  BY <1>1, ConnectsOpens DEF NextRequest
<1>3. PICK pc \in {"connectOK", "connect"} :
           pc = IF Open(call[c].object) THEN "connectOK" ELSE "connect"
  OBVIOUS
<1>4. PICK r \in CallType : r = call[c]
  BY <1>1
<1> DEFINE v == [r EXCEPT !.left = 1, !.sent = 0, !.pc = pc]
<1>5. v \in CallType /\ v.pc = pc /\ v.object = r.object /\ v.socket = r.socket
      /\ v.sent = 0 /\ v.result = r.result
  <2>1. pc \in States
    BY DEF States, Waiting, Due
  <2>2. QED
    BY <2>1 DEF CallType
<1>6. call' = [call EXCEPT ![c] = v]
  BY <1>3, <1>4 DEF NextRequest
<1> HIDE DEF v
<1>7. CallFits(v, Kind(c))
  BY <1>1, <1>3, <1>4, <1>5 DEF CallFits, Holding, Http
<1>8. QED
  BY <1>2, <1>3, <1>4, <1>5, <1>6, <1>7 DEF Moves

LEMMA AnswerKeeps == ASSUME CoreInv, NEW c \in Calls, Answer(c) PROVE CoreInv'
<1>1. /\ call \in [Calls -> CallType] /\ CallFits(call[c], Kind(c)) /\ faults \in Nat
      /\ call[c].object \in 1..Len(objects) /\ call[c].socket \in 0..Len(sockets)
      /\ Linked(objects, sockets) /\ call[c].pc = "wait" /\ call[c].sent > 0
      /\ Kind(c) # "inhibit" /\ call[c].result \in {"none", "ok", "refused", "error"}
  BY CallOf DEF Answer, Heard, CallFits, Holding, CallType
<1>2. ASSUME NEW result \in {"refused", "ok"}, Return(c, result),
             UNCHANGED <<objects, sockets, forsaken>>
      PROVE  CoreInv'
  <2>1. PICK v : /\ Moves(c, v) /\ v.pc = "done" /\ v.object = 0 /\ v.socket = 0
                 /\ v.sent = call[c].sent /\ v.result = result
    BY <1>2, ReturnMoves DEF CoreInv, Answer, Return
  <2>2. CallFits(v, Kind(c))
    BY <1>1, <2>1 DEF CallFits, Holding, Http
  <2>3. 0 \in 0..Len(sockets)
    BY <1>1 DEF Linked
  <2>4. QED
    BY <1>1, <1>2, <2>1, <2>2, <2>3, MovesAlone DEF Answer
<1>3. ASSUME NextRequest(c), forsaken' = forsaken \cup ({call[c].object} \ {shared})
      PROVE  CoreInv'
  <2>1. call[c].object # 0 /\ Kind(c) \notin {"none", "http"}
    BY <1>1 DEF CallFits, Http
  <2>2. Opening(call[c].object)
    BY <1>1, <1>3, <2>1, NextSent DEF Answer
  <2>3. PICK v : /\ Moves(c, v) /\ CallFits(v, Kind(c)) /\ v.object = call[c].object
                 /\ v.socket = call[c].socket
    BY <1>1, <1>3, <2>1, NextSent DEF Answer
  <2>4. call[c].object # watcher.object
    BY <2>1 DEF CoreInv, Apart
  <2>5. QED
    BY <1>1, <1>3, <2>2, <2>3, <2>4, MovesOpening DEF Answer
<1>4. QED
  BY <1>2, <1>3 DEF Answer

\* The shared session is closed, or forsaken.
LEMMA SharedCloses ==
    ASSUME CoreInv, DropShared, UNCHANGED <<program, watcher>>, CallsFit',
           \A c \in Calls : call'[c].object = call[c].object,
           \A c \in Calls : Kind(c) = "inhibit" => call'[c] = call[c],
           faults' \in Nat
    PROVE  CoreInv'
<1>1. /\ Typed /\ Apart /\ Kept /\ Single /\ CallsFit
      /\ Linked(objects, sockets) /\ shared \in 0..Len(objects)
  BY DEF CoreInv, Typed
<1>2. Closing(shared) /\ Linked(objects, sockets)' /\ Extends /\ shared' = 0
  BY <1>1, ClosesChanges DEF DropShared
<1>3. Typed'
  BY <1>1, <1>2 DEF Typed, Extends
<1>4. Connecting(watcher.object)' = Connecting(watcher.object)
  <2>1. watcher.object # 0 => watcher.object \in 1..Len(objects)
    BY <1>1, Lengths DEF Typed
  <2>2. \A p \in 1..Len(objects) : objects'[p].connecting = objects[p].connecting
    BY <1>1, <1>2, ClosingEnds
  <2>3. QED
    BY <2>1, <2>2 DEF Connecting
<1>5. Apart'
  BY <1>1, <1>2, <1>4 DEF Apart
<1>6. /\ Len(sockets') = Len(sockets)
      /\ \A p \in 1..Len(objects) \ {shared} : objects'[p] = objects[p]
      /\ \A s \in 1..Len(sockets) :
            /\ sockets'[s].object = sockets[s].object
            /\ Live(s)' => Live(s)
            /\ sockets[s].object = shared /\ ~Connecting(shared) => ~Live(s)'
  BY <1>1, <1>2, ClosingEnds DEF Live
<1>7. Single'
  <2> SUFFICES ASSUME NEW i \in Calls, Kind(i) = "inhibit", call'[i].object # 0
               PROVE  /\ call'[i].object # shared'
                      /\ \A d \in Calls \ {i} : call'[d].object # call'[i].object
                      /\ call'[i].pc # "connect" => objects'[call'[i].object].connecting = 0
                      /\ call'[i].pc = "closing" => objects'[call'[i].object].socket = 0
    BY DEF Single, Kind
  <2>1. call'[i] = call[i] /\ call[i].object \in 1..Len(objects)
    BY <1>1, Lengths DEF CallsFit
  <2>2. /\ call[i].object # shared
        /\ \A d \in Calls \ {i} : call[d].object # call[i].object
        /\ call[i].pc # "connect" => objects[call[i].object].connecting = 0
        /\ call[i].pc = "closing" => objects[call[i].object].socket = 0
    BY <1>1, <2>1 DEF Single
  <2>3. objects'[call[i].object] = objects[call[i].object]
    BY <1>6, <2>1, <2>2
  <2>4. QED
    BY <1>2, <2>1, <2>2, <2>3
<1>8. Inhibitors' = Inhibitors
  BY SameInhibitors
<1>9. Kept'
  <2> SUFFICES ASSUME NEW s \in 1..Len(sockets'), Live(s)'
               PROVE  sockets'[s].object \in Owners'
    BY DEF Kept
  <2>1. Live(s) /\ sockets'[s].object = sockets[s].object /\ sockets[s].object \in Owners
    BY <1>1, <1>6 DEF Kept
  <2>2. sockets[s].object = shared => shared \in forsaken'
    BY <1>6 DEF DropShared
  <2>3. forsaken \subseteq forsaken'
    BY DEF DropShared
  <2>4. QED
    BY <1>8, <2>1, <2>2, <2>3 DEF Owners
<1>10. QED
  BY <1>3, <1>5, <1>7, <1>9 DEF CoreInv

LEMMA FailKeeps == ASSUME CoreInv, NEW c \in Calls, Fail(c) PROVE CoreInv'
<1>1. /\ call \in [Calls -> CallType] /\ CallFits(call[c], Kind(c)) /\ faults \in Nat
      /\ call[c].object \in 0..Len(objects) /\ call[c].socket \in 0..Len(sockets)
      /\ Linked(objects, sockets) /\ shared \in 0..Len(objects)
      /\ call[c].pc = "failed" /\ Kind(c) # "inhibit"
  BY CallOf DEF Fail
<1>2. CASE Retries(c)
  <2>1. Closing(shared) /\ Linked(objects, sockets)' /\ Extends
    BY <1>1, <1>2, ClosesChanges DEF Fail, DropShared
  <2>2. PICK s \in 0..Len(sockets) : s = IF shared = 0 THEN 0 ELSE objects[shared].socket
    BY <1>1 DEF Linked
  <2>3. PICK r \in CallType : r = call[c]
    BY <1>1
  <2> DEFINE v == [r EXCEPT !.pc = "closing", !.socket = s]
  <2>4. v \in CallType /\ v.pc = "closing" /\ v.object = r.object /\ v.socket = s
        /\ v.sent = r.sent /\ v.result = r.result
    <3>1. s \in Nat /\ "closing" \in States
      BY <1>1 DEF States, Waiting, Linked
    <3>2. QED
      BY <3>1 DEF CallType
  <2>5. call' = [call EXCEPT ![c] = v]
    BY <1>2, <2>2, <2>3 DEF Fail
  <2> HIDE DEF v
  <2>6. Moves(c, v) /\ CallFits(v, Kind(c))
    BY <1>1, <1>2, <2>3, <2>4, <2>5 DEF Moves, Fail, Retries, CallFits, Holding, Http
  <2>7. v.object \in 0..Len(objects') /\ v.socket \in 0..Len(sockets')
    BY <1>1, <2>1, <2>2, <2>3, <2>4 DEF Extends
  <2>8. CallsFit' /\ call'[c] = v /\ \A d \in Calls \ {c} : call'[d] = call[d]
    BY <2>1, <2>6, <2>7, MovesFit DEF CoreInv
  <2>9. \A d \in Calls : call'[d].object = call[d].object
    BY <2>3, <2>4, <2>8
  <2>10. \A d \in Calls : Kind(d) = "inhibit" => call'[d] = call[d]
    BY <1>1, <2>8
  <2>11. QED
    BY <1>1, <1>2, <2>8, <2>9, <2>10, SharedCloses DEF Fail
<1>3. CASE ~Retries(c)
  <2>1. PICK v : /\ Moves(c, v) /\ v.pc = "done" /\ v.object = 0 /\ v.socket = 0
                 /\ v.sent = call[c].sent /\ v.result = "error"
    BY <1>3, ReturnMoves DEF CoreInv, Fail, Return
  <2>2. CallFits(v, Kind(c))
    BY <1>1, <2>1 DEF CallFits, Holding, Http
  <2>3. 0 \in 0..Len(sockets)
    BY <1>1 DEF Linked
  <2>4. QED
    BY <1>1, <1>3, <2>1, <2>2, <2>3, MovesAlone DEF Fail
<1>4. QED
  BY <1>2, <1>3

LEMMA IdleKeeps == ASSUME CoreInv, Idle \/ CloseClient PROVE CoreInv'
<1>1. Typed /\ CallsFit /\ faults' \in Nat /\ DropShared /\ UNCHANGED <<program, call, watcher>>
  BY DEF CoreInv, Typed, Idle, CloseClient, Fault
<1>2. Extends
  BY <1>1, ClosesChanges DEF Typed, DropShared
<1>3. CallsFit'
  BY <1>1, <1>2, RestsFit
<1>4. QED
  BY <1>1, <1>3, SharedCloses

\* An inhibitor takes a new object.
LEMMA InhibitKeeps == ASSUME CoreInv, NEW c \in Calls, Inhibit(c) PROVE CoreInv'
<1>1. /\ Typed /\ CallsFit /\ Apart /\ Single /\ Kept /\ call \in [Calls -> CallType]
      /\ Len(objects) \in Nat /\ Len(sockets) \in Nat /\ Linked(objects, sockets)
      /\ shared \in 0..Len(objects) /\ watcher.object \in 0..Len(objects)
      /\ call[c].pc = "new" /\ Kind(c) = "inhibit" /\ CallFits(call[c], Kind(c))
      /\ \A d \in Calls : call[d].object \in 0..Len(objects)
      /\ UNCHANGED <<program, shared, watcher, forsaken, faults>>
  BY Lengths DEF CoreInv, Typed, CallsFit, Inhibit
<1>2. PICK o \in Nat : o = Len(objects) + 1
  BY <1>1
<1>3. Opening(o)
  BY <1>1, <1>2, ConnectsOpens DEF Inhibit
<1>4. PICK r \in CallType : r = call[c]
  BY <1>1
<1> DEFINE v == [r EXCEPT !.object = o, !.left = 2, !.pc = "connect"]
<1>5. v \in CallType /\ v.pc = "connect" /\ v.object = o /\ v.socket = r.socket
      /\ v.sent = r.sent /\ v.result = r.result
  <2>1. "connect" \in States
    BY DEF States, Waiting
  <2>2. QED
    BY <2>1 DEF CallType
<1>6. call' = [call EXCEPT ![c] = v]
  BY <1>2, <1>4 DEF Inhibit
<1> HIDE DEF v
<1>7. Moves(c, v)
  BY <1>1, <1>5, <1>6 DEF Moves
<1>8. CallFits(v, Kind(c))
  BY <1>1, <1>2, <1>4, <1>5 DEF CallFits, Holding, Http
<1>9. /\ Linked(objects, sockets)' /\ Extends /\ o \in 1..Len(objects') /\ o \notin 0..Len(objects)
      /\ \A p \in 1..Len(objects) : objects'[p] = objects[p]
  BY <1>1, <1>2, <1>3 DEF Opening
<1>10. v.object \in 0..Len(objects') /\ v.socket \in 0..Len(sockets')
  BY <1>1, <1>4, <1>5, <1>9 DEF CallsFit, Extends
<1>11. CallsFit' /\ call'[c] = v /\ \A d \in Calls \ {c} : call'[d] = call[d]
  BY <1>1, <1>7, <1>8, <1>9, <1>10, MovesFit
<1>12. Typed'
  BY <1>1, <1>9 DEF Typed, Extends
<1>13. Apart'
  <2>1. watcher.object # 0 => objects'[watcher.object] = objects[watcher.object]
    BY <1>1, <1>9
  <2>2. QED
    BY <1>1, <1>5, <1>9, <1>11, <2>1 DEF Apart, Connecting
<1>14. Single'
  <2> SUFFICES ASSUME NEW i \in Calls, Kind(i) = "inhibit", call'[i].object # 0
               PROVE  /\ call'[i].object # shared
                      /\ \A d \in Calls \ {i} : call'[d].object # call'[i].object
                      /\ call'[i].pc # "connect" => objects'[call'[i].object].connecting = 0
                      /\ call'[i].pc = "closing" => objects'[call'[i].object].socket = 0
    BY <1>1 DEF Single, Kind
  <2>1. CASE i = c
    BY <1>1, <1>5, <1>9, <1>11, <2>1
  <2>2. CASE i # c
    <3>1. call'[i] = call[i] /\ call[i].object \in 1..Len(objects)
      BY <1>1, <1>11, <2>2
    <3>2. /\ call[i].object # shared
          /\ \A d \in Calls \ {i} : call[d].object # call[i].object
          /\ call[i].pc # "connect" => objects[call[i].object].connecting = 0
          /\ call[i].pc = "closing" => objects[call[i].object].socket = 0
      BY <1>1, <3>1 DEF Single
    <3>3. objects'[call[i].object] = objects[call[i].object] /\ call[i].object # o
      BY <1>1, <1>9, <3>1
    <3>4. QED
      BY <1>5, <1>11, <3>1, <3>2, <3>3
  <2>3. QED
    BY <2>1, <2>2
<1>15. Kept'
  <2>1. Inhibitors \ {0} \subseteq Inhibitors'
    <3> SUFFICES ASSUME NEW p \in Inhibitors, p # 0 PROVE p \in Inhibitors'
      OBVIOUS
    <3>1. PICK i \in Calls : Kind(i) = "inhibit" /\ p = call[i].object
      BY DEF Inhibitors
    <3>2. i # c
      BY <1>1, <3>1 DEF CallFits
    <3>3. QED
      BY <1>1, <1>11, <3>1, <3>2 DEF Inhibitors, Kind
  <2>2. o \in Inhibitors'
    BY <1>1, <1>5, <1>11 DEF Inhibitors, Kind
  <2>3. /\ o \in Owners'
        /\ \A p \in 1..Len(objects) : p \in Owners => p \in Owners'
    BY <1>1, <2>1, <2>2 DEF Owners
  <2>4. QED
    BY <1>1, <1>3, <2>3, OpensForOwner
<1>16. QED
  BY <1>11, <1>12, <1>13, <1>14, <1>15 DEF CoreInv

LEMMA GrantedKeeps == ASSUME CoreInv, NEW c \in Calls, Granted(c) PROVE CoreInv'
<1>1. /\ call \in [Calls -> CallType] /\ CallFits(call[c], Kind(c)) /\ faults \in Nat
      /\ call[c].object \in 0..Len(objects) /\ call[c].socket \in 0..Len(sockets)
      /\ call[c].pc = "wait" /\ Kind(c) = "inhibit"
      /\ UNCHANGED <<program, objects, sockets, shared, watcher, forsaken, faults>>
  BY CallOf DEF Granted, Heard
<1>2. ASSUME call' = [call EXCEPT ![c] = [@ EXCEPT !.pc = "hold", !.left = 1, !.sent = 0]]
      PROVE  CoreInv'
  <2>1. PICK r \in CallType : r = call[c]
    BY <1>1
  <2> DEFINE v == [r EXCEPT !.pc = "hold", !.left = 1, !.sent = 0]
  <2>2. v \in CallType /\ v.pc = "hold" /\ v.object = r.object /\ v.socket = r.socket
        /\ v.sent = 0 /\ v.result = r.result
    <3>1. "hold" \in States
      BY DEF States, Waiting
    <3>2. QED
      BY <3>1 DEF CallType
  <2>3. call' = [call EXCEPT ![c] = v]
    BY <1>2, <2>1
  <2> HIDE DEF v
  <2>4. Moves(c, v) /\ CallFits(v, Kind(c))
    BY <1>1, <2>1, <2>2, <2>3 DEF Moves, CallFits, Holding, Http
  <2>5. QED
    BY <1>1, <2>1, <2>2, <2>4, MovesAlone
<1>3. ASSUME call' = [call EXCEPT ![c].pc = "failed"] PROVE CoreInv'
  <2>1. "failed" \in States /\ call \in [Calls -> CallType]
    BY <1>1 DEF States, Due
  <2>2. PICK v \in CallType :
             /\ call' = [call EXCEPT ![c] = v]
             /\ v.pc = "failed" /\ v.object = call[c].object /\ v.socket = call[c].socket
             /\ v.sent = call[c].sent /\ v.result = call[c].result
    BY <1>3, <2>1, CallGoesTo
  <2>3. Moves(c, v) /\ CallFits(v, Kind(c))
    BY <1>1, <2>2 DEF Moves, CallFits, Holding, Http
  <2>4. QED
    BY <1>1, <2>2, <2>3, MovesAlone
<1>4. QED
  BY <1>2, <1>3 DEF Granted

LEMMA RemoveKeeps == ASSUME CoreInv, NEW c \in Calls, Remove(c) PROVE CoreInv'
<1>1. /\ CallFits(call[c], Kind(c)) /\ call[c].pc = "hold" /\ Kind(c) = "inhibit"
      /\ call[c].object \in 0..Len(objects) /\ call[c].object # 0
      /\ NextRequest(c) /\ UNCHANGED <<program, shared, watcher, forsaken, faults>>
  BY CallOf DEF Remove, CallFits, Holding
<1>2. Opening(call[c].object)
  BY <1>1, NextSent
<1>3. PICK v : /\ Moves(c, v) /\ CallFits(v, Kind(c)) /\ v.object = call[c].object
               /\ v.socket = call[c].socket
               /\ v.pc = IF Open(call[c].object) THEN "connectOK" ELSE "connect"
  BY <1>1, NextSent
<1>4. call[c].object # watcher.object /\ call[c].object \in 1..Len(objects)
  BY <1>1, Lengths DEF CoreInv, Apart
<1>5. QED
  BY <1>1, <1>2, <1>3, <1>4, MovesOpening

\* An inhibitor closes its object, which nobody else has.
LEMMA LeaveKeeps == ASSUME CoreInv, NEW c \in Calls, Leave(c) PROVE CoreInv'
<1>1. /\ Typed /\ CallsFit /\ Apart /\ Single /\ Kept /\ call \in [Calls -> CallType]
      /\ Linked(objects, sockets) /\ shared \in 0..Len(objects)
      /\ call[c].pc = "failed" /\ Kind(c) = "inhibit" /\ CallFits(call[c], Kind(c))
      /\ \A d \in Calls : call[d].object \in 0..Len(objects)
      /\ UNCHANGED <<program, shared, watcher, forsaken, faults>>
  BY DEF CoreInv, Typed, CallsFit, Leave
<1>2. PICK o \in 1..Len(objects) : o = call[c].object
  BY <1>1, Lengths DEF CallFits
<1>3. /\ o # shared /\ objects[o].connecting = 0 /\ o # watcher.object
      /\ \A d \in Calls \ {c} : call[d].object # o
  BY <1>1, <1>2, Lengths DEF Single, Apart
<1>4. Closing(o) /\ Linked(objects, sockets)' /\ Extends
  BY <1>1, <1>2, Lengths, ClosesChanges DEF Leave
<1>5. /\ Len(objects') = Len(objects) /\ Len(sockets') = Len(sockets)
      /\ \A p \in 1..Len(objects) : objects'[p].connecting = objects[p].connecting
      /\ \A p \in 1..Len(objects) \ {o} : objects'[p] = objects[p]
      /\ \A s \in 1..Len(sockets) :
            /\ sockets'[s].object = sockets[s].object
            /\ Live(s)' => Live(s)
  BY <1>1, <1>2, <1>4, Lengths, ClosingEnds DEF Live
<1>6. objects'[o].socket = 0
  <2>1. CASE objects[o].socket # 0
    <3>1. Changed(objects[o].socket, o, [socket |-> 0, connecting |-> objects[o].connecting], "closing")
      BY <1>1, <1>2, <1>4, <2>1, Lengths DEF Closing
    <3>2. objects'[o] = [socket |-> 0, connecting |-> objects[o].connecting]
      BY <3>1 DEF Changed
    <3>3. QED
      BY <3>2
  <2>2. CASE objects[o].socket = 0
    BY <1>2, <1>4, <2>2 DEF Closing
  <2>3. QED
    BY <2>1, <2>2
<1>7. PICK s \in Nat : s = objects[o].socket /\ s \in 0..Len(sockets)
  <2>1. objects[o].socket \in 0..Len(sockets)
    BY <1>1, <1>2 DEF Linked
  <2>2. Len(sockets) \in Nat
    BY <1>1, Lengths
  <2>3. objects[o].socket \in Nat
    BY <2>1, <2>2
  <2>4. QED
    BY <2>1, <2>3, Zenon
<1>8. PICK r \in CallType : r = call[c]
  BY <1>1
<1> DEFINE v == [r EXCEPT !.pc = "closing", !.socket = s]
<1>9. v \in CallType /\ v.pc = "closing" /\ v.object = r.object /\ v.socket = s
      /\ v.sent = r.sent /\ v.result = r.result
  <2>1. "closing" \in States
    BY DEF States, Waiting
  <2>2. QED
    BY <2>1 DEF CallType
<1>10. call' = [call EXCEPT ![c] = v]
  BY <1>2, <1>7, <1>8 DEF Leave
<1> HIDE DEF v
<1>11. Moves(c, v) /\ CallFits(v, Kind(c))
  BY <1>1, <1>8, <1>9, <1>10 DEF Moves, CallFits, Holding, Http
<1>12. v.object \in 0..Len(objects') /\ v.socket \in 0..Len(sockets')
  BY <1>1, <1>5, <1>7, <1>8, <1>9
<1>13. CallsFit' /\ call'[c] = v /\ \A d \in Calls \ {c} : call'[d] = call[d]
  BY <1>1, <1>4, <1>11, <1>12, MovesFit
<1>14. \A d \in Calls : call'[d].object = call[d].object
  BY <1>8, <1>9, <1>13
<1>15. Typed'
  BY <1>1, <1>4, <1>5 DEF Typed
<1>16. Apart'
  <2>1. watcher.object # 0 => objects'[watcher.object] = objects[watcher.object]
    BY <1>1, <1>3, <1>5, Lengths DEF Typed
  <2>2. QED
    BY <1>1, <1>14, <2>1 DEF Apart, Connecting
<1>17. Single'
  <2> SUFFICES ASSUME NEW i \in Calls, Kind(i) = "inhibit", call'[i].object # 0
               PROVE  /\ call'[i].object # shared
                      /\ \A d \in Calls \ {i} : call'[d].object # call'[i].object
                      /\ call'[i].pc # "connect" => objects'[call'[i].object].connecting = 0
                      /\ call'[i].pc = "closing" => objects'[call'[i].object].socket = 0
    BY <1>1 DEF Single, Kind
  <2>1. CASE i = c
    BY <1>2, <1>3, <1>5, <1>6, <1>14, <2>1
  <2>2. CASE i # c
    <3>1. call'[i] = call[i] /\ call[i].object \in 1..Len(objects) /\ call[i].object # o
      BY <1>1, <1>3, <1>13, <2>2, Lengths
    <3>2. /\ call[i].object # shared
          /\ \A d \in Calls \ {i} : call[d].object # call[i].object
          /\ call[i].pc # "connect" => objects[call[i].object].connecting = 0
          /\ call[i].pc = "closing" => objects[call[i].object].socket = 0
      BY <1>1, <3>1, Lengths DEF Single
    <3>3. objects'[call[i].object] = objects[call[i].object]
      BY <1>5, <3>1
    <3>4. QED
      BY <1>14, <3>1, <3>2, <3>3
  <2>3. QED
    BY <2>1, <2>2
<1>18. Inhibitors' = Inhibitors
  BY <1>1, <1>14, SameInhibitors
<1>19. Kept'
  <2>1. Owners' = Owners
    BY <1>1, <1>18 DEF Owners
  <2>2. QED
    BY <1>1, <1>5, <2>1, KeepsOwners
<1>20. QED
  BY <1>13, <1>15, <1>16, <1>17, <1>19 DEF CoreInv

LEMMA LeftKeeps == ASSUME CoreInv, NEW c \in Calls, Left(c) PROVE CoreInv'
<1>1. /\ CallFits(call[c], Kind(c)) /\ faults \in Nat /\ Linked(objects, sockets)
      /\ call[c].pc = "closing" /\ Kind(c) = "inhibit"
      /\ UNCHANGED <<program, objects, sockets, shared, watcher, forsaken, faults>>
  BY CallOf DEF Left, Gone
<1>2. PICK result \in {"ok", "error"} : Over(c, result)
  BY DEF Left
<1>3. PICK v : /\ Moves(c, v) /\ v.pc = "done" /\ v.object = 0 /\ v.socket = 0
               /\ v.sent = call[c].sent /\ v.result = result
  BY <1>1, <1>2, ReturnMoves DEF CoreInv
<1>4. CallFits(v, Kind(c))
  BY <1>1, <1>3 DEF CallFits, Holding, Http
<1>5. 0 \in 0..Len(sockets)
  BY <1>1 DEF Linked
<1>6. QED
  BY <1>1, <1>3, <1>4, <1>5, MovesAlone

\* A request over HTTP is no session's.
LEMMA HttpStepKeeps ==
    ASSUME CoreInv, NEW c \in Calls, NEW executed \in {0, 1}, NEW to \in {"http", "probe", "done"},
           HttpStep(c, executed, to), Kind(c) = "http", call[c].pc \in {"new", "http", "probe"},
           faults' \in {faults, faults + 1}
    PROVE  CoreInv'
<1>1. /\ call \in [Calls -> CallType] /\ CallFits(call[c], Kind(c)) /\ faults \in Nat
      /\ call[c].object \in 0..Len(objects) /\ call[c].socket \in 0..Len(sockets)
      /\ Linked(objects, sockets)
  BY CallOf
<1>2. PICK r \in CallType : r = call[c]
  BY <1>1
<1>3. PICK n \in Nat : n = r.sent + executed
  BY DEF CallType
<1>4. PICK try \in Nat : try = IF to = "probe" THEN r.try + 1 ELSE r.try
  BY DEF CallType
<1>5. PICK result \in {"none", "ok", "error"} :
           result = IF to = "done" THEN IF executed = 1 THEN "ok" ELSE "error" ELSE "none"
  OBVIOUS
<1> DEFINE v == [r EXCEPT !.pc = to, !.sent = n, !.result = result, !.try = try]
<1>6. v \in CallType /\ v.pc = to /\ v.object = r.object /\ v.socket = r.socket
      /\ v.sent = n /\ v.result = result
  <2>1. to \in States
    BY DEF States, Http
  <2>2. QED
    BY <2>1 DEF CallType
<1>7. call' = [call EXCEPT ![c] = v]
  BY <1>2, <1>3, <1>4, <1>5 DEF HttpStep
<1> HIDE DEF v
<1>8. Moves(c, v)
  BY <1>6, <1>7 DEF Moves, HttpStep
<1>9. CallFits(v, Kind(c))
  BY <1>1, <1>2, <1>3, <1>5, <1>6 DEF CallFits, Holding, Http, CallType
<1>10. QED
  BY <1>1, <1>2, <1>6, <1>8, <1>9, MovesAlone DEF HttpStep

LEMMA HttpKeeps ==
    ASSUME CoreInv, NEW c \in Calls, HttpStart(c) \/ HttpAnswer(c) \/ HttpLost(c) \/ Probe(c)
    PROVE  CoreInv'
<1>1. call[c].pc \in Http => Kind(c) = "http"
  BY CallOf DEF CallFits
<1>2. CASE HttpStart(c)
  BY <1>2, HttpStepKeeps DEF HttpStart
<1>3. CASE HttpAnswer(c)
  BY <1>1, <1>3, HttpStepKeeps DEF HttpAnswer, Http
<1>4. CASE HttpLost(c)
  BY <1>1, <1>4, HttpStepKeeps DEF HttpLost, Http, Fault
<1>5. CASE Probe(c)
  BY <1>1, <1>5, HttpStepKeeps DEF Probe, Http, Fault
<1>6. QED
  BY <1>2, <1>3, <1>4, <1>5

-----------------------------------------------------------------------------
(* Each action keeps the invariant: the connections.                       *)

\* A call that holds an object goes on, or is told that it failed.
LEMMA PcSet ==
    ASSUME NEW r \in CallType, NEW k, CallFits(r, k), r.pc \in Holding,
           NEW pc \in {"failed", "sharedOK", "connectOK"}, pc # "failed" => r.pc # "wait",
           pc = "sharedOK" => r.pc = "shared", NEW v, v = [r EXCEPT !.pc = pc]
    PROVE  /\ v \in CallType /\ CallFits(v, k) /\ v.pc = pc
           /\ v.object = r.object /\ v.socket = r.socket
<1>1. /\ v \in CallType /\ v.pc = pc /\ v.object = r.object /\ v.socket = r.socket
      /\ v.sent = r.sent /\ v.result = r.result
  <2>1. pc \in States
    BY DEF States, Due
  <2>2. QED
    BY <2>1 DEF CallType
<1>2. CallFits(v, k)
  BY <1>1 DEF CallFits, Holding, Http
<1>3. QED
  BY <1>1, <1>2

\* Each call stays fit that stays as it was or has the new pc.
LEMMA ManyFit ==
    ASSUME CallsFit, Extends, program' = program, DOMAIN call' = Calls,
           call' = [c \in Calls |-> call'[c]],
           \A c \in Calls : \/ call'[c] = call[c]
                            \/ /\ call[c].pc \in Holding
                               /\ \E pc \in {"failed", "sharedOK", "connectOK"} :
                                     /\ pc # "failed" => call[c].pc # "wait"
                                     /\ pc = "sharedOK" => call[c].pc = "shared"
                                     /\ call'[c] = [call[c] EXCEPT !.pc = pc]
    PROVE  CallsFit' /\ \A c \in Calls : call'[c].object = call[c].object
                                         /\ call'[c].socket = call[c].socket
<1>1. ASSUME NEW c \in Calls
      PROVE  /\ call'[c] \in CallType /\ CallFits(call'[c], Kind(c))
             /\ call'[c].object = call[c].object /\ call'[c].socket = call[c].socket
  <2>1. PICK r \in CallType : r = call[c] /\ CallFits(r, Kind(c))
    BY DEF CallsFit
  <2>2. CASE call'[c] = r
    BY <2>1, <2>2
  <2>3. ASSUME r.pc \in Holding, NEW pc \in {"failed", "sharedOK", "connectOK"},
               pc # "failed" => r.pc # "wait", pc = "sharedOK" => r.pc = "shared",
               call'[c] = [r EXCEPT !.pc = pc]
        PROVE  /\ call'[c] \in CallType /\ CallFits(call'[c], Kind(c))
               /\ call'[c].object = r.object /\ call'[c].socket = r.socket
    BY <2>1, <2>3, PcSet
  <2>4. QED
    BY <2>1, <2>2, <2>3
<1>2. \A c \in Calls : Kind(c)' = Kind(c)
  BY DEF Kind
<1>3. \A n : (n \in 0..Len(objects) => n \in 0..Len(objects'))
             /\ (n \in 0..Len(sockets) => n \in 0..Len(sockets'))
  BY DEF Extends
<1>4. call' \in [Calls -> CallType]
  BY <1>1
<1>5. QED
  BY <1>1, <1>2, <1>3, <1>4 DEF CallsFit

LEMMA SettledFit ==
    ASSUME CallsFit, Extends, NEW o, NEW ok \in BOOLEAN, call' = Settled(o, ok), program' = program
    PROVE  /\ CallsFit'
           /\ \A c \in Calls :
                 /\ call'[c].object = call[c].object /\ call'[c].socket = call[c].socket
                 /\ IF call[c].pc \in {"shared", "connect"} /\ call[c].object = o
                    THEN call'[c].pc = IF ~ok THEN "failed"
                                       ELSE IF call[c].pc = "shared" THEN "sharedOK" ELSE "connectOK"
                    ELSE call'[c] = call[c]
<1>1. \A c \in Calls :
          \/ /\ ~(call[c].pc \in {"shared", "connect"} /\ call[c].object = o)
             /\ call'[c] = call[c]
          \/ /\ call[c].pc \in {"shared", "connect"} /\ call[c].object = o
             /\ \E pc \in {"failed", "sharedOK", "connectOK"} :
                   /\ pc = IF ~ok THEN "failed" 
                           ELSE IF call[c].pc = "shared" THEN "sharedOK" ELSE "connectOK"
                   /\ call'[c] = [call[c] EXCEPT !.pc = pc]
  BY DEF Settled
<1>2. DOMAIN call' = Calls /\ call' = [c \in Calls |-> call'[c]]
  BY DEF Settled
<1>3. CallsFit' /\ \A c \in Calls : call'[c].object = call[c].object
                                    /\ call'[c].socket = call[c].socket
  BY <1>1, <1>2, ManyFit DEF Holding
<1>4. ASSUME NEW c \in Calls, NEW pc \in {"failed", "sharedOK", "connectOK"},
             call'[c] = [call[c] EXCEPT !.pc = pc]
      PROVE  call'[c].pc = pc
  <2>1. PICK r \in CallType : r = call[c]
    BY DEF CallsFit
  <2>2. call'[c] = [r EXCEPT !.pc = pc]
    BY <1>4, <2>1
  <2>3. [r EXCEPT !.pc = pc].pc = pc
    BY DEF CallType
  <2>4. QED
    BY <2>2, <2>3, Zenon
<1>5. ASSUME NEW c \in Calls
      PROVE  IF call[c].pc \in {"shared", "connect"} /\ call[c].object = o
             THEN call'[c].pc = IF ~ok THEN "failed"
                                ELSE IF call[c].pc = "shared" THEN "sharedOK" ELSE "connectOK"
             ELSE call'[c] = call[c]
  <2>1. CASE call[c].pc \in {"shared", "connect"} /\ call[c].object = o
    <3>1. PICK pc \in {"failed", "sharedOK", "connectOK"} :
               /\ pc = IF ~ok THEN "failed" 
                       ELSE IF call[c].pc = "shared" THEN "sharedOK" ELSE "connectOK"
               /\ call'[c] = [call[c] EXCEPT !.pc = pc]
      BY <1>1, <2>1, Zenon
    <3>2. call'[c].pc = pc
      BY <1>4, <3>1, Zenon
    <3>3. pc = IF ~ok THEN "failed" ELSE IF call[c].pc = "shared" THEN "sharedOK" ELSE "connectOK"
      BY <3>1, Zenon
    <3>4. QED
      BY <2>1, <3>2, <3>3
  <2>2. CASE ~(call[c].pc \in {"shared", "connect"} /\ call[c].object = o)
    <3>1. call'[c] = call[c]
      BY <1>1, <2>2, Zenon
    <3>2. QED
      BY <2>2, <3>1
  <2>3. QED
    BY <2>1, <2>2
<1>6. QED
  BY <1>3, <1>5

LEMMA WatcherSet ==
    ASSUME watcher \in WatcherType, watcher' = [watcher EXCEPT !.pc = "closing"]
    PROVE  watcher' \in WatcherType /\ watcher'.pc = "closing" /\ watcher'.object = watcher.object
BY DEF WatcherType

\* Something happens to a connection, and at most the watcher gives up.
LEMMA EventKeeps ==
    ASSUME CoreInv, NEW s \in DOMAIN sockets, NEW object, NEW state,
           Changed(s, sockets[s].object, object, state),
           object.connecting \in {0, objects[sockets[s].object].connecting},
           object.socket \in {0, objects[sockets[s].object].socket} \/ sockets[s].state = "connecting",
           state = "open" => sockets[s].state = "connecting", state # "connecting",
           UNCHANGED <<program, shared, forsaken>>, CallsFit',
           \A c \in Calls : call'[c].object = call[c].object,
           watcher' \in WatcherType, watcher'.object = watcher.object,
           \/ watcher' = watcher
           \/ /\ watcher'.pc = "closing" /\ watcher.object # 0
              /\ ~Connecting(watcher.object)',
           faults' \in Nat,
           \A c \in Calls : call'[c] = call[c]
                             \/ /\ call'[c].pc # "closing"
                                /\ call[c].pc # "connect" \/ object.connecting = 0
                                /\ call[c].pc \in Holding /\ call[c].object = sockets[s].object
    PROVE  CoreInv'
<1>1. Typed /\ Apart /\ Single /\ Kept /\ CallsFit
  BY DEF CoreInv
<1>2. /\ Linked(objects, sockets)' /\ Extends /\ Len(objects') = Len(objects)
      /\ objects'[sockets[s].object] = object
      /\ \A p \in 1..Len(objects) \ {sockets[s].object} : objects'[p] = objects[p]
  BY DEF Changed
<1>4. Typed'
  BY <1>1, <1>2 DEF Typed
<1>5. Connecting(watcher.object)' => Connecting(watcher.object)
  <2>1. watcher.object # 0 => watcher.object \in 1..Len(objects)
    BY <1>1, Lengths DEF Typed
  <2>2. QED
    BY <1>2, <2>1 DEF Connecting
<1>6. Apart'
  BY <1>1, <1>5 DEF Apart
<1>7. /\ DOMAIN sockets = 1..Len(sockets) /\ Len(sockets') = Len(sockets)
      /\ sockets'[s].object = sockets[s].object /\ sockets'[s].state = state
      /\ \A t \in 1..Len(sockets) \ {s} : sockets'[t] = sockets[t]
      /\ \A c \in Calls : call[c].object \in 0..Len(objects)
      /\ Linked(objects, sockets)
  BY <1>1, Lengths DEF Changed, CallsFit, Typed
<1>8. Single'
  <2> SUFFICES ASSUME NEW i \in Calls, Kind(i) = "inhibit", call'[i].object # 0
               PROVE  /\ call'[i].object # shared
                      /\ \A d \in Calls \ {i} : call'[d].object # call'[i].object
                      /\ call'[i].pc # "connect" => objects'[call'[i].object].connecting = 0
                      /\ call'[i].pc = "closing" => objects'[call'[i].object].socket = 0
    BY DEF Single, Kind
  <2>1. call'[i].object = call[i].object /\ call[i].object \in 1..Len(objects)
    BY <1>1, <1>7, Lengths
  <2>2. /\ call[i].object # shared
        /\ \A d \in Calls \ {i} : call[d].object # call[i].object
        /\ call[i].pc # "connect" => objects[call[i].object].connecting = 0
        /\ call[i].pc = "closing" => objects[call[i].object].socket = 0
    BY <2>1 DEF CoreInv, Single
  <2>3. CASE call[i].object # sockets[s].object
    <3>1. objects'[call[i].object] = objects[call[i].object]
      BY <1>2, <2>1, <2>3
    <3>2. call'[i] = call[i]
      BY <2>3
    <3>3. QED
      BY <2>1, <2>2, <3>1, <3>2
  <2>4. CASE call[i].object = sockets[s].object
    <3>1. objects'[call[i].object] = object
      BY <1>2, <2>4
    <3>2. object.connecting \in {0, objects[call[i].object].connecting}
      BY <2>4
    <3>3. call'[i].pc # "connect" => object.connecting = 0
      BY <2>2, <3>2
    <3>4. ASSUME call'[i].pc = "closing" PROVE object.socket = 0
      <4>1. call[i].pc = "closing"
        BY <3>4
      <4>2. sockets[s].state = "connecting" => objects[sockets[s].object].connecting = s
        BY <1>7 DEF Linked
      <4>3. sockets[s].state # "connecting"
        BY <1>7, <2>2, <2>4, <4>1, <4>2, Lengths
      <4>4. QED
        BY <2>2, <2>4, <4>1, <4>3
    <3>5. QED
      BY <2>1, <2>2, <3>1, <3>3, <3>4
  <2>5. QED
    BY <2>3, <2>4
<1>9. Owners' = Owners
  BY SameInhibitors DEF Owners
<1>10. Kept'
  <2>1. \A t \in 1..Len(sockets') : Live(t)' => Live(t) /\ sockets'[t].object = sockets[t].object
    BY <1>7 DEF Live
  <2>2. QED
    BY <1>1, <1>7, <1>9, <2>1, KeepsOwners
<1>11. QED
  BY <1>4, <1>6, <1>8, <1>10 DEF CoreInv

LEMMA DropKeeps == ASSUME CoreInv, NEW s \in DOMAIN sockets, Drop(s) PROVE CoreInv'
<1>1. PICK o : o = sockets[s].object
  OBVIOUS
<1>2. Changed(s, o, objects[o], "ended")
  BY <1>1, DropChanges DEF CoreInv, Typed
<1>3. CallsFit'
  BY <1>2, RestsFit DEF CoreInv, Drop, Changed
<1>4. faults' \in Nat
  BY DEF CoreInv, Typed, Drop, Fault
<1>5. QED
  BY <1>1, <1>2, <1>3, <1>4, EventKeeps DEF Drop, CoreInv, Typed

LEMMA NotOpenedKeeps == ASSUME CoreInv, NEW s \in DOMAIN sockets, NotOpened(s) PROVE CoreInv'
<1>1. PICK o : o = sockets[s].object
  OBVIOUS
<1> DEFINE object == [socket |-> objects[o].socket, connecting |-> 0]
<1>2. /\ Changed(s, o, object, "closed") /\ object.connecting = 0
      /\ object.socket = objects[o].socket
  BY <1>1, NotOpenedChanges DEF CoreInv, Typed
<1> HIDE DEF object
<1>3. /\ CallsFit' /\ \A c \in Calls : call'[c].object = call[c].object
      /\ \A c \in Calls : \/ call'[c] = call[c]
                           \/ /\ call[c].pc \in {"shared", "connect"} /\ call[c].object = o
                              /\ call'[c].pc = "failed"
  <2>1. CallsFit /\ Extends /\ call' = Settled(o, FALSE) /\ program' = program /\ FALSE \in BOOLEAN
    BY <1>1, <1>2 DEF CoreInv, NotOpened, Changed
  <2>2. /\ CallsFit'
        /\ \A c \in Calls :
              /\ call'[c].object = call[c].object /\ call'[c].socket = call[c].socket
              /\ IF call[c].pc \in {"shared", "connect"} /\ call[c].object = o
                 THEN call'[c].pc = IF ~FALSE THEN "failed"
                                    ELSE IF call[c].pc = "shared" THEN "sharedOK" ELSE "connectOK"
                 ELSE call'[c] = call[c]
    BY <2>1, SettledFit, Zenon
  <2>3. QED
    BY <2>2
<1>4. faults' \in Nat
  BY DEF CoreInv, Typed, NotOpened, Fault
<1>5. watcher.pc = "connect" => watcher.object # 0
  BY DEF CoreInv, Apart
<1>6. watcher \in WatcherType
  BY DEF CoreInv, Typed
<1>7. /\ watcher' \in WatcherType /\ watcher'.object = watcher.object
      /\ \/ watcher' = watcher
         \/ watcher.pc = "connect" /\ watcher.object = o /\ watcher'.pc = "closing"
  <2>1. CASE watcher.pc = "connect" /\ watcher.object = o
    <3>1. watcher' = [watcher EXCEPT !.pc = "closing"]
      BY <1>1, <2>1 DEF NotOpened
    <3>2. QED
      BY <1>6, <2>1, <3>1, WatcherSet, Zenon
  <2>2. CASE ~(watcher.pc = "connect" /\ watcher.object = o)
    BY <1>1, <1>6, <2>2 DEF NotOpened
  <2>3. QED
    BY <2>1, <2>2
<1>8. watcher.object = o => ~Connecting(watcher.object)'
  BY <1>2, <1>7 DEF Changed, Connecting
<1>9. QED
  BY <1>1, <1>2, <1>3, <1>4, <1>5, <1>7, <1>8, EventKeeps DEF NotOpened, Holding

LEMMA OpenedKeeps == ASSUME CoreInv, NEW s \in DOMAIN sockets, Opened(s) PROVE CoreInv'
<1>1. PICK o : o = sockets[s].object
  OBVIOUS
<1> DEFINE object == [socket |-> s, connecting |-> 0]
<1>2. /\ Changed(s, o, object, "open") /\ object.connecting = 0 /\ object.socket = s
      /\ sockets[s].state = "connecting" /\ objects[o].connecting = s
  BY <1>1, OpenedChanges DEF CoreInv, Typed
<1>3. s \in 1..Len(sockets) /\ s # 0 /\ o \in 1..Len(objects) /\ o # 0
      /\ Len(sockets) \in Nat
  BY <1>1, SocketsObject DEF CoreInv, Typed, Linked
<1> HIDE DEF object
<1>4. /\ CallsFit'
      /\ \A c \in Calls :
            /\ call'[c].object = call[c].object /\ call'[c].socket = call[c].socket
            /\ IF call[c].pc \in {"shared", "connect"} /\ call[c].object = o
               THEN call'[c].pc = IF call[c].pc = "shared" THEN "sharedOK" ELSE "connectOK"
               ELSE call'[c] = call[c]
  <2>1. CallsFit /\ Extends /\ call' = Settled(o, TRUE) /\ program' = program /\ TRUE \in BOOLEAN
    BY <1>1, <1>2 DEF CoreInv, Opened, Changed
  <2>2. /\ CallsFit'
        /\ \A c \in Calls :
              /\ call'[c].object = call[c].object /\ call'[c].socket = call[c].socket
              /\ IF call[c].pc \in {"shared", "connect"} /\ call[c].object = o
                 THEN call'[c].pc = IF ~TRUE THEN "failed"
                                    ELSE IF call[c].pc = "shared" THEN "sharedOK" ELSE "connectOK"
                 ELSE call'[c] = call[c]
    BY <2>1, SettledFit, Zenon
  <2>3. QED
    BY <2>2
<1>5. \A c \in Calls : \/ call'[c] = call[c]
                        \/ /\ call[c].pc \in {"shared", "connect"} /\ call[c].object = o
                           /\ call'[c].pc # "closing"
  BY <1>4
<1>6. QED
  BY <1>1, <1>2, <1>4, <1>5, EventKeeps, CallOf DEF Opened, CoreInv, Typed, Holding

LEMMA ClosedKeeps == ASSUME CoreInv, NEW s \in DOMAIN sockets, Closed(s) PROVE CoreInv'
<1>1. PICK o : o = sockets[s].object
  OBVIOUS
<1>2. PICK socket \in {0, objects[o].socket} :
          Changed(s, o, [socket |-> socket, connecting |-> objects[o].connecting], "closed")
  BY <1>1, ClosedChanges DEF CoreInv, Typed
<1>3. o \in 1..Len(objects) /\ sockets[s].state \in {"ended", "closing"}
  BY <1>1, ClosedChanges DEF CoreInv, Typed
<1> DEFINE object == [socket |-> socket, connecting |-> objects[o].connecting]
<1>4. /\ Changed(s, o, object, "closed") /\ object.connecting = objects[o].connecting
      /\ object.socket \in {0, objects[o].socket}
  BY <1>2
<1> HIDE DEF object
<1>5. CallsFit' /\ \A c \in Calls : /\ call'[c].object = call[c].object
                                    /\ call[c].object # o \/ call[c].pc # "wait" => call'[c] = call[c]
  <2>1. \A c \in Calls :
            \/ call'[c] = call[c]
            \/ /\ call[c].pc \in Holding
               /\ \E pc \in {"failed", "sharedOK", "connectOK"} :
                     /\ pc # "failed" => call[c].pc # "wait"
                     /\ pc = "sharedOK" => call[c].pc = "shared"
                     /\ call'[c] = [call[c] EXCEPT !.pc = pc]
    BY <1>1 DEF Closed, Holding
  <2>2. DOMAIN call' = Calls /\ call' = [c \in Calls |-> call'[c]]
    BY DEF Closed
  <2>3. CallsFit' /\ \A c \in Calls : call'[c].object = call[c].object
    BY <1>4, <2>1, <2>2, ManyFit DEF CoreInv, Closed, Changed
  <2>4. \A c \in Calls : call[c].object # o \/ call[c].pc # "wait" => call'[c] = call[c]
    BY <1>1 DEF Closed
  <2>5. QED
    BY <2>3, <2>4
<1>6. /\ watcher \in WatcherType /\ (watcher.pc \in {"subscribe", "listening"} =>
                                       watcher.object # 0 /\ ~Connecting(watcher.object))
      /\ watcher.object \in 0..Len(objects)
  BY DEF CoreInv, Typed, Apart
<1>7. /\ watcher' \in WatcherType /\ watcher'.object = watcher.object
      /\ \/ watcher' = watcher
         \/ watcher.pc \in {"subscribe", "listening"} /\ watcher'.pc = "closing"
  <2>1. CASE \/ watcher.pc = "subscribe" /\ watcher.object = o
             \/ watcher.pc = "listening" /\ watcher.socket = s
    <3>1. watcher' = [watcher EXCEPT !.pc = "closing"] /\ watcher.pc \in {"subscribe", "listening"}
      BY <1>1, <2>1 DEF Closed
    <3>2. QED
      BY <1>6, <3>1, WatcherSet, Zenon
  <2>2. CASE ~ \/ watcher.pc = "subscribe" /\ watcher.object = o
               \/ watcher.pc = "listening" /\ watcher.socket = s
    BY <1>1, <1>6, <2>2 DEF Closed
  <2>3. QED
    BY <2>1, <2>2
<1>8. objects'[o].connecting = objects[o].connecting /\ Len(objects) \in Nat
      /\ \A p \in 1..Len(objects) \ {o} : objects'[p] = objects[p]
  BY <1>4, Lengths DEF Changed, CoreInv
<1>9. ~Connecting(watcher.object) => ~Connecting(watcher.object)'
  BY <1>6, <1>7, <1>8 DEF Connecting
<1>10. faults' \in Nat /\ UNCHANGED <<program, shared, forsaken>>
  BY DEF CoreInv, Typed, Closed
<1>11. \A c \in Calls : \/ call'[c] = call[c]
                         \/ /\ call[c].pc = "wait" /\ call[c].object = o
                            /\ call'[c].pc # "closing"
  <2> SUFFICES ASSUME NEW c \in Calls, call[c].pc = "wait", call[c].object = o
               PROVE  call'[c].pc # "closing"
    BY <1>5
  <2>1. PICK r \in CallType : r = call[c]
    BY DEF CoreInv, CallsFit
  <2>2. call'[c] = [r EXCEPT !.pc = "failed"]
    BY <1>1, <2>1 DEF Closed
  <2>3. [r EXCEPT !.pc = "failed"].pc = "failed"
    BY DEF CallType
  <2>4. QED
    BY <2>2, <2>3
<1>12. QED
  BY <1>1, <1>3, <1>4, <1>5, <1>6, <1>7, <1>9, <1>10, <1>11, EventKeeps DEF Holding

-----------------------------------------------------------------------------
(* Each action keeps the invariant: the watcher.                           *)

\* The watcher goes on with the object it has.
LEMMA WatcherGoes ==
    ASSUME CoreInv, UNCHANGED <<program, call, objects, sockets, shared, forsaken>>,
           watcher' \in WatcherType, watcher'.object = watcher.object,
           watcher'.pc \in {"connect", "subscribe", "listening", "closing"} <=> watcher.object # 0,
           watcher.object # 0 => ~Connecting(watcher.object) \/ watcher'.pc = watcher.pc,
           faults' \in Nat
    PROVE  CoreInv'
<1>1. Typed' /\ Extends
  BY Lengths DEF CoreInv, Typed, Extends
<1>2. CallsFit'
  BY <1>1, RestsFit DEF CoreInv
<1>3. Apart'
  BY DEF CoreInv, Apart, Connecting
<1>4. Single'
  BY DEF CoreInv, Single, Kind
<1>5. Kept'
  BY DEF CoreInv, Kept, Live, Owners, Inhibitors, Kind
<1>6. QED
  BY <1>1, <1>2, <1>3, <1>4, <1>5 DEF CoreInv

\* The watcher takes a new object.
LEMMA RoundKeeps == ASSUME CoreInv, Round PROVE CoreInv'
<1>1. /\ Typed /\ CallsFit /\ Apart /\ watcher \in WatcherType /\ watcher.pc = "sleep"
      /\ watcher.object = 0 /\ Len(objects) \in Nat /\ Len(sockets) \in Nat
      /\ Linked(objects, sockets) /\ shared \in 0..Len(objects) /\ faults \in Nat
      /\ DOMAIN sockets = 1..Len(sockets)
  BY Lengths DEF CoreInv, Typed, Round, Apart
<1>2. CASE watcher.stopped
  <2> DEFINE v == [watcher EXCEPT !.pc = "ended"]
  <2>1. watcher' = v /\ UNCHANGED <<program, call, shared, forsaken, faults, objects, sockets>>
    BY <1>2 DEF Round
  <2>2. v \in WatcherType /\ v.pc = "ended" /\ v.object = watcher.object
    BY <1>1 DEF WatcherType
  <2> HIDE DEF v
  <2>3. QED
    BY <1>1, <2>1, <2>2, WatcherGoes
<1>3. CASE ~watcher.stopped
  <2>1. PICK o \in Nat : o = Len(objects) + 1
    BY <1>1
  <2>2. Connects(Append(objects, Fresh), o) /\ watcher' = [watcher EXCEPT !.pc = "connect", !.object = o]
    BY <1>3, <2>1 DEF Round
  <2>3. Opening(o)
    BY <1>1, <2>1, <2>2, ConnectsOpens
  <2>4. watcher' \in WatcherType /\ watcher'.pc = "connect" /\ watcher'.object = o
    <3>1. /\ [watcher EXCEPT !.pc = "connect", !.object = o] \in WatcherType
          /\ [watcher EXCEPT !.pc = "connect", !.object = o].pc = "connect"
          /\ [watcher EXCEPT !.pc = "connect", !.object = o].object = o
      BY <1>1 DEF WatcherType
    <3>2. QED
      BY <2>2, <3>1, Zenon
  <2>5. /\ Linked(objects, sockets)' /\ Extends /\ o \in 1..Len(objects') /\ o \notin 1..Len(objects)
        /\ \A p \in 1..Len(objects) : objects'[p] = objects[p]
        /\ \A t \in 1..Len(sockets) : sockets'[t] = sockets[t]
        /\ \A t \in 1..Len(sockets') : t \notin 1..Len(sockets) => sockets'[t].object = o
        /\ DOMAIN sockets' = 1..Len(sockets')
    BY <1>1, <2>1, <2>3 DEF Opening, Linked
  <2>6. UNCHANGED <<program, call, shared, forsaken, faults>>
    BY DEF Round
  <2>7. Typed'
    BY <1>1, <2>4, <2>5, <2>6 DEF Typed, Extends
  <2>8. CallsFit'
    BY <1>1, <2>5, <2>6, RestsFit
  <2>9. Apart'
    <3>1. o # shared /\ \A c \in Calls : call[c].object # o
      BY <1>1, <2>5 DEF CallsFit
    <3>2. QED
      BY <2>1, <2>4, <2>5, <2>6, <3>1 DEF Apart
  <2>10. Single'
    <3> SUFFICES ASSUME NEW i \in Calls, Kind(i) = "inhibit", call[i].object # 0
                 PROVE  /\ call[i].object # shared
                        /\ \A d \in Calls \ {i} : call[d].object # call[i].object
                        /\ call[i].pc # "connect" => objects'[call[i].object].connecting = 0
                        /\ call[i].pc = "closing" => objects'[call[i].object].socket = 0
      BY <2>6 DEF Single, Kind
    <3>1. call[i].object \in 1..Len(objects)
      BY <1>1 DEF CallsFit
    <3>2. QED
      BY <2>5, <3>1 DEF CoreInv, Single
  <2>11. Kept'
    <3>1. Inhibitors' = Inhibitors
      BY <2>6, SameInhibitors
    <3>2. /\ o \in Owners'
          /\ \A p \in 1..Len(objects) : p \in Owners => p \in Owners'
      BY <1>1, <2>4, <2>6, <3>1 DEF Owners
    <3>3. QED
      BY <1>1, <2>3, <3>2, OpensForOwner DEF CoreInv
  <2>12. QED
    BY <2>7, <2>8, <2>9, <2>10, <2>11 DEF CoreInv
<1>4. QED
  BY <1>2, <1>3

LEMMA SubscribeKeeps == ASSUME CoreInv, Subscribe \/ Subscribed PROVE CoreInv'
<1>1. /\ watcher \in WatcherType /\ faults \in Nat /\ watcher.object \in 0..Len(objects)
      /\ watcher.pc \in {"connect", "subscribe"} => watcher.object # 0
      /\ watcher.pc = "subscribe" => ~Connecting(watcher.object)
      /\ Linked(objects, sockets)
  BY DEF CoreInv, Typed, Apart
<1>2. CASE Subscribe
  <2>1. watcher.object \in 1..Len(objects)
    BY <1>1, <1>2 DEF Subscribe, Linked
  <2>2. PICK s \in Nat : s = objects[watcher.object].socket
    BY <1>1, <2>1 DEF Linked
  <2>3. PICK pc \in {"subscribe", "closing"} : pc = IF Open(watcher.object) THEN "subscribe" ELSE "closing"
    OBVIOUS
  <2> DEFINE v == [watcher EXCEPT !.pc = pc, !.socket = s]
  <2>4. watcher' = v
    BY <1>2, <2>2, <2>3 DEF Subscribe
  <2>5. v \in WatcherType /\ v.pc = pc /\ v.object = watcher.object
    BY <1>1 DEF WatcherType
  <2> HIDE DEF v
  <2>6. QED
    BY <1>1, <1>2, <2>1, <2>4, <2>5, WatcherGoes DEF Subscribe
<1>3. CASE Subscribed
  <2>1. PICK pc \in {"listening", "closing"} : watcher' = [watcher EXCEPT !.pc = pc]
    BY <1>3 DEF Subscribed
  <2> DEFINE v == [watcher EXCEPT !.pc = pc]
  <2>2. watcher' = v
    BY <2>1
  <2>3. v \in WatcherType /\ v.pc = pc /\ v.object = watcher.object
    BY <1>1 DEF WatcherType
  <2>4. faults' \in {faults, faults + 1}
    BY <1>3 DEF Subscribed, Fault
  <2> HIDE DEF v
  <2>5. QED
    BY <1>1, <1>3, <2>2, <2>3, <2>4, WatcherGoes DEF Subscribed
<1>4. QED
  BY <1>2, <1>3

\* The watcher closes its session, and lets go of it or not.
LEMMA WatcherCloses ==
    ASSUME CoreInv, Closes(watcher.object), UNCHANGED <<program, call, shared, forsaken, faults>>,
           watcher' \in WatcherType,
           \/ watcher'.pc = watcher.pc /\ watcher'.object = watcher.object
           \/ /\ watcher'.pc \in {"sleep", "ended"} /\ watcher'.object = 0
              /\ watcher.object # 0 /\ ~Connecting(watcher.object)
    PROVE  CoreInv'
<1>1. PICK o : o = watcher.object
  OBVIOUS
<1>2. /\ Typed /\ CallsFit /\ Apart /\ o \in 0..Len(objects) /\ Len(objects) \in Nat
      /\ Linked(objects, sockets) /\ shared \in 0..Len(objects) /\ Len(sockets) \in Nat
      /\ DOMAIN sockets = 1..Len(sockets)
  BY <1>1, Lengths DEF CoreInv, Typed
<1>3. /\ Closing(o) /\ Linked(objects, sockets)' /\ Extends
  BY <1>1, <1>2, ClosesChanges
<1>4. /\ Len(objects') = Len(objects) /\ Len(sockets') = Len(sockets)
      /\ \A p \in 1..Len(objects) : objects'[p].connecting = objects[p].connecting
      /\ \A p \in 1..Len(objects) \ {o} : objects'[p] = objects[p]
      /\ \A s \in 1..Len(sockets) :
            /\ sockets'[s].object = sockets[s].object
            /\ sockets[s].object # o => sockets'[s] = sockets[s]
            /\ sockets'[s].state \in {"connecting", "open"} =>
                  sockets[s].state \in {"connecting", "open"}
            /\ sockets[s].object = o /\ ~Connecting(o) =>
                  sockets'[s].state \notin {"connecting", "open"}
  BY <1>2, <1>3, ClosingEnds
<1>5. Typed'
  BY <1>1, <1>2, <1>3, <1>4 DEF Typed
<1>6. CallsFit'
  BY <1>2, <1>3, RestsFit
<1>7. Apart'
  BY <1>1, <1>2, <1>4 DEF Apart, Connecting
<1>8. Single'
  <2> SUFFICES ASSUME NEW i \in Calls, Kind(i) = "inhibit", call[i].object # 0
               PROVE  /\ call[i].object # shared
                      /\ \A d \in Calls \ {i} : call[d].object # call[i].object
                      /\ call[i].pc # "connect" => objects'[call[i].object].connecting = 0
                      /\ call[i].pc = "closing" => objects'[call[i].object].socket = 0
    BY DEF Single, Kind
  <2>1. call[i].object \in 1..Len(objects) /\ call[i].object # o
    BY <1>1, <1>2 DEF CallsFit, Apart
  <2>2. QED
    BY <1>4, <2>1 DEF CoreInv, Single
<1>9. Kept'
  <2> SUFFICES ASSUME NEW s \in 1..Len(sockets'), Live(s)'
               PROVE  sockets'[s].object \in Owners'
    BY DEF Kept
  <2>1. /\ Live(s) /\ sockets'[s].object = sockets[s].object /\ sockets[s].object \in Owners
        /\ sockets[s].object = o => Connecting(o)
    BY <1>4 DEF CoreInv, Kept, Live
  <2>2. Inhibitors' = Inhibitors
    BY SameInhibitors
  <2>3. sockets[s].object = o => watcher'.object = o
    BY <1>1, <2>1
  <2>4. QED
    BY <1>1, <2>1, <2>2, <2>3 DEF Owners
<1>10. QED
  BY <1>5, <1>6, <1>7, <1>8, <1>9 DEF CoreInv

LEMMA FinallyKeeps == ASSUME CoreInv, Finally \/ Stop PROVE CoreInv'
<1>1. watcher \in WatcherType
  BY DEF CoreInv, Typed
<1>2. CASE Finally
  <2>1. PICK pc \in {"sleep", "ended"} : pc = Resting
    BY DEF Resting
  <2> DEFINE v == [watcher EXCEPT !.pc = pc, !.object = 0, !.socket = 0]
  <2>2. watcher' = v
    BY <1>2, <2>1 DEF Finally
  <2>3. v \in WatcherType /\ v.pc = pc /\ v.object = 0
    BY <1>1 DEF WatcherType
  <2> HIDE DEF v
  <2>4. watcher.object # 0 /\ ~Connecting(watcher.object)
    BY <1>2 DEF CoreInv, Apart, Finally
  <2>5. QED
    BY <1>2, <2>2, <2>3, <2>4, WatcherCloses DEF Finally
<1>3. CASE Stop
  <2> DEFINE v == [watcher EXCEPT !.stopped = TRUE]
  <2>1. watcher' = v
    BY <1>3 DEF Stop
  <2>2. v \in WatcherType /\ v.pc = watcher.pc /\ v.object = watcher.object
    BY <1>1 DEF WatcherType
  <2> HIDE DEF v
  <2>3. QED
    BY <1>3, <2>1, <2>2, WatcherCloses DEF Stop, Stops
<1>4. QED
  BY <1>2, <1>3

-----------------------------------------------------------------------------
(* The theorems.                                                           *)

LEMMA InitKeeps == ASSUME CoreInit PROVE CoreInv
<1>1. NewCall \in CallType
  BY DEF NewCall, CallType, States
<1>2. PICK new \in CallType : /\ new = NewCall /\ new.pc = "new" /\ new.object = 0
                              /\ new.socket = 0 /\ new.sent = 0 /\ new.result = "none"
  BY <1>1 DEF NewCall
<1> DEFINE done == [new EXCEPT !.pc = "done"]
<1>3. done \in CallType /\ done.pc = "done" /\ done.object = 0 /\ done.socket = 0
      /\ done.sent = 0 /\ done.result = "none"
  BY <1>2 DEF CallType, States
<1>4. call = [c \in Calls |-> IF Kind(c) = "none" THEN done ELSE new]
  BY <1>2 DEF CoreInit, Kind
<1> HIDE DEF done
<1>5. program \in Programs /\ objects = <<>> /\ sockets = <<>> /\ shared = 0 /\ faults = 0
  BY DEF CoreInit
<1>6. Linked(objects, sockets) /\ Len(objects) = 0 /\ Len(sockets) = 0
  BY <1>5 DEF Linked
<1>7. watcher \in WatcherType /\ watcher.object = 0 /\ watcher.pc \in {"sleep", "ended"}
  <2> DEFINE idle == [pc |-> "sleep", object |-> 0, socket |-> 0, stopped |-> FALSE]
  <2>1. PICK w \in WatcherType : w = Watcher /\ w.pc = "sleep" /\ w.object = 0
    <3>1. Watcher \in WatcherType /\ Watcher.pc = "sleep" /\ Watcher.object = 0
      BY DEF Watcher, WatcherType
    <3>2. QED
      BY <3>1
  <2> DEFINE ended == [w EXCEPT !.pc = "ended"]
  <2>2. ended \in WatcherType /\ ended.pc = "ended" /\ ended.object = 0
    BY <2>1 DEF WatcherType
  <2>3. watcher = IF program.watch THEN w ELSE ended
    BY <2>1 DEF CoreInit
  <2> HIDE DEF ended
  <2>4. QED
    BY <2>1, <2>2, <2>3
<1>8. CallsFit
  BY <1>2, <1>3, <1>4, <1>6 DEF CallsFit, CallFits, Holding, Http
<1>9. Typed /\ Apart
  BY <1>5, <1>6, <1>7 DEF Typed, Apart
<1>10. Single /\ Kept
  BY <1>2, <1>3, <1>4, <1>6 DEF Single, Kept
<1>11. QED
  BY <1>8, <1>9, <1>10 DEF CoreInv

LEMMA StepKeeps == ASSUME CoreInv, [CoreNext]_vars PROVE CoreInv'
<1>1. ASSUME NEW c \in Calls, CallStep(c) PROVE CoreInv'
  BY <1>1, ResumeKeeps, SendKeeps, AnswerKeeps, TimeOutKeeps, FailKeeps, AgainKeeps, HttpKeeps,
     GrantedKeeps, RemoveKeeps, LeaveKeeps, LeftKeeps DEF CallStep
<1>2. ASSUME NEW c \in Calls, Start(c) \/ Inhibit(c) \/ HttpStart(c) PROVE CoreInv'
  BY <1>2, StartKeeps, InhibitKeeps, HttpKeeps
<1>3. ASSUME NEW s \in DOMAIN sockets, SocketStep(s) \/ Drop(s) PROVE CoreInv'
  BY <1>3, OpenedKeeps, NotOpenedKeeps, ClosedKeeps, DropKeeps DEF SocketStep
<1>4. CASE Idle \/ CloseClient \/ WatcherStep \/ Stop
  BY <1>4, IdleKeeps, RoundKeeps, SubscribeKeeps, FinallyKeeps DEF WatcherStep
<1>5. CASE UNCHANGED vars
  BY <1>5 DEF vars, CoreInv, Typed, CallsFit, Apart, Single, Kept, Kind, Connecting, Live, Owners,
              Inhibitors
<1>6. QED
  BY <1>1, <1>2, <1>3, <1>4, <1>5 DEF CoreNext

\* The invariant holds in every reachable state.
LEMMA InvHolds == CoreSpec => []CoreInv
<1>1. CoreInit => CoreInv
  BY InitKeeps
<1>2. CoreInv /\ [CoreNext]_vars => CoreInv'
  BY StepKeeps
<1>3. QED
  BY <1>1, <1>2, PTL DEF CoreSpec

LEMMA InvTypes == CoreInv => CoreTypeOK
<1> SUFFICES ASSUME CoreInv PROVE CoreTypeOK
  OBVIOUS
<1>1. ASSUME NEW c \in Calls
      PROVE  /\ call[c].pc \in {"new", "done"} \cup Waiting \cup Due \cup Http
             /\ call[c].object \in 0..Len(objects) /\ call[c].socket \in 0..Len(sockets)
             /\ call[c].result \in {"none", "ok", "refused", "error"}
             /\ call[c].pc = "wait" => call[c].socket # 0
  <2>1. call[c] \in CallType /\ CallFits(call[c], Kind(c))
    BY CallOf
  <2>2. call[c].pc \in States /\ call[c].result \in {"none", "ok", "refused", "error"}
    BY <2>1 DEF CallType
  <2>3. QED
    BY <2>1, <2>2, CallOf DEF CallFits, States
<1>2. \A o \in DOMAIN objects :
          /\ objects[o].socket # 0 => sockets[objects[o].socket].object = o
          /\ objects[o].connecting # 0 => sockets[objects[o].connecting].state = "connecting"
  BY Lengths DEF CoreInv, Typed, Linked
<1>3. \A s \in DOMAIN sockets :
          sockets[s].state \in {"connecting", "open", "ended", "closing", "closed"}
  BY SocketsObject DEF CoreInv, Typed, SocketType, SocketStates
<1>4. /\ shared \in 0..Len(objects)
      /\ watcher.pc \in {"sleep", "connect", "subscribe", "listening", "closing", "ended"}
  BY DEF CoreInv, Typed, WatcherType
<1>5. QED
  BY <1>1, <1>2, <1>3, <1>4 DEF CoreTypeOK

LEMMA InvSent == CoreInv => SentOnce
BY CallOf DEF SentOnce, CallFits

\* Two sessions of the shared object would both be the one it opens or uses.
LEMMA InvShares == CoreInv => SharesOneSession
<1> SUFFICES ASSUME CoreInv PROVE SharesOneSession
  OBVIOUS
<1> DEFINE Others == {s \in Sessions : sockets[s].object \notin {watcher.object} \cup Inhibitors
                                                                \cup forsaken}
<1>1. Kept /\ Linked(objects, sockets) /\ DOMAIN sockets = 1..Len(sockets)
  BY Lengths DEF CoreInv, Typed
<1>2. \A s \in Others : s \in 1..Len(sockets) /\ Live(s) /\ sockets[s].object = shared
  BY <1>1 DEF Kept, Sessions, Live, Owners
<1>3. ASSUME NEW s \in Others, NEW t \in Others PROVE s = t
  <2>1. /\ s \in 1..Len(sockets) /\ t \in 1..Len(sockets)
        /\ sockets[s].object = shared /\ sockets[t].object = shared /\ Live(s) /\ Live(t)
    BY <1>2
  <2>2. /\ shared \in 1..Len(objects) /\ s # 0 /\ t # 0
        /\ sockets[s].state = "connecting" => objects[shared].connecting = s
        /\ sockets[s].state = "open" => objects[shared].socket = s
        /\ sockets[t].state = "connecting" => objects[shared].connecting = t
        /\ sockets[t].state = "open" => objects[shared].socket = t
    BY <1>1, <2>1 DEF Linked
  <2>3. objects[shared].socket # 0 /\ objects[shared].connecting # 0 =>
            sockets[objects[shared].socket].state # "open"
    BY <1>1, <2>2 DEF Linked
  <2>4. QED
    BY <2>1, <2>2, <2>3 DEF Live
<1>4. Cardinality(Others) <= 1
  <2>1. CASE Others = {}
    BY <2>1, FS_EmptySet
  <2>2. CASE Others # {}
    <3>1. PICK s \in Others : TRUE
      BY <2>2
    <3>2. Others = {s}
      BY <1>3, <3>1
    <3> HIDE DEF Others
    <3>3. Cardinality(Others) = 1
      BY <3>2, FS_Singleton
    <3>4. QED
      BY <3>3
  <2>3. QED
    BY <2>1, <2>2
<1>5. QED
  BY <1>2, <1>4 DEF SharesOneSession

\* Objects and connections know each other, and a call or the watcher has only
\* such as there are: the types of CoreSession.
THEOREM CoreTypes == CoreSpec => []CoreTypeOK
BY InvHolds, InvTypes, PTL

\* A message that changes the Core goes out once, however many sessions are lost
\* or replaced under it, and a call that reports success went out: only the
\* "get_" messages of coreMessage are repeated.
THEOREM MessagesAreSentOnce == CoreSpec => []SentOnce
BY InvHolds, InvSent, PTL

\* However many calls there are, and whatever is refused, lost, timed out, closed
\* or repeated: the sessions of a client are the one its calls share, one for each
\* inhibitor, the watcher's, and those of forsaken objects.
THEOREM CallsShareASession == CoreSpec => []SharesOneSession
BY InvHolds, InvShares, PTL
=============================================================================
