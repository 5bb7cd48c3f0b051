------------------------- MODULE ActivitySyncProofs -------------------------
(***************************************************************************)
(* Proofs about ActivitySync: the types, that an answer always finds the   *)
(* push that waits for it, that versions advance, the order of updates,    *)
(* that Satellites agree with the Primary, and that no state echoes.       *)
(***************************************************************************)
EXTENDS ActivitySync, SequenceTheorems, FiniteSetTheorems, TLAPS

PrimaryTypes ==
    /\ core \in States
    /\ changes \in Nat
    /\ listening \in BOOLEAN
    /\ events \in Seq([state : States \cup {None}, seen : Nat])
    /\ snapshot \in [state : States, seen : Nat]
    /\ epoch \in Nat
    /\ revision \in Nat
    /\ observed \in States \cup {None}
    /\ lastPushed \in [Satellites -> States \cup {None}]
    /\ budget \in [Kinds -> Nat]

Tasks == [stage : Stages, update : Updates \cup {None}, rest : Seq(Satellites)]

TaskTypes ==
    /\ tasks \in [TaskIds -> Tasks]
    /\ \A t \in TaskIds : /\ tasks[t].stage \in {"waiting", "ok", "failed"} => tasks[t].rest # <<>>
                          /\ tasks[t].stage \notin {"idle", "reading"} => tasks[t].update \in Updates
    /\ sent \subseteq Requests
    /\ overlapped \subseteq Satellites

QueueTypes ==
    /\ queue \in [Satellites -> Seq(Requests)]
    /\ phase \in [Satellites -> {"idle", "command", "run"}]
    /\ \A p \in Satellites : phase[p] # "idle" => queue[p] # <<>>

SatelliteTypes ==
    /\ actual \in [Satellites -> States]
    /\ applied \in [Satellites -> Updates \cup {None}]
    /\ suppressed \in [Satellites -> SUBSET States]
    /\ relays \in [Satellites -> Seq(States)]
    /\ touched \in [Satellites -> BOOLEAN]
    /\ collapsed \in BOOLEAN

\* A task that has a request under way waits, and for that request only.
Awaited ==
    /\ \A m \in sent : m.task # 0 => tasks[m.task].stage = "waiting"
    /\ \A p \in Satellites : \A i \in DOMAIN queue[p] :
           queue[p][i].task # 0 => tasks[queue[p][i].task].stage = "waiting"

Single ==
    /\ \A m, n \in sent : m.task # 0 /\ m.task = n.task => m = n
    /\ \A m \in sent, p \in Satellites : \A i \in DOMAIN queue[p] :
           m.task # 0 => queue[p][i].task # m.task
    /\ \A p, q \in Satellites : \A i \in DOMAIN queue[p], j \in DOMAIN queue[q] :
           queue[p][i].task # 0 /\ queue[p][i].task = queue[q][j].task => p = q /\ i = j

TypeInv == PrimaryTypes /\ TaskTypes /\ QueueTypes /\ SatelliteTypes /\ Awaited /\ Single

LEMMA TypeInvImpliesTypeOK == TypeInv => TypeOK
BY DEF TypeInv, TypeOK, PrimaryTypes, TaskTypes, QueueTypes, SatelliteTypes, Tasks

-----------------------------------------------------------------------------
(* Sequences and the loop over peers.                                      *)

LEMMA OrderTypes == Order \in Seq(Satellites)
BY ConstantsAssumption

LEMMA StampTypes ==
    ASSUME TypeInv, NEW state \in States, NEW seen \in Nat
    PROVE  Stamp(state, seen) \in Updates
BY DEF TypeInv, PrimaryTypes, Stamp, Updates

LEMMA IdleTaskTypes == IdleTask \in Tasks
BY DEF IdleTask, Tasks, Stages

\* A task goes on with its loop.
LEMMA AdvanceTypes ==
    ASSUME TypeInv, NEW t \in TaskIds, NEW u \in Updates, NEW peers \in Seq(Satellites),
           Advance(t, u, peers)
    PROVE  TaskTypes'
<1>1. overlapped' \subseteq Satellites
  <2>1. overlapped' \subseteq overlapped \cup {peers[k] : k \in DOMAIN peers} BY DEF Advance
  <2>2. \A k \in DOMAIN peers : peers[k] \in Satellites OBVIOUS
  <2>3. QED BY <2>1, <2>2 DEF TypeInv, TaskTypes
<1>2. PICK k \in 0..Len(peers) :
        IF k = Len(peers)
        THEN tasks' = [tasks EXCEPT ![t] = IdleTask] /\ sent' = sent
        ELSE /\ tasks' = [tasks EXCEPT ![t] =
                     [stage |-> "waiting", update |-> u, rest |-> SubSeq(peers, k + 1, Len(peers))]]
             /\ sent' = sent \cup {[to |-> peers[k + 1], update |-> u, task |-> t]}
  BY DEF Advance
<1>3. CASE k = Len(peers)
  <2>1. tasks' = [tasks EXCEPT ![t] = IdleTask] /\ sent' = sent BY <1>2, <1>3
  <2>2. QED BY <1>1, <2>1, IdleTaskTypes DEF TypeInv, TaskTypes, IdleTask
<1>4. CASE k # Len(peers)
  <2> DEFINE rest == SubSeq(peers, k + 1, Len(peers))
             busy == [stage |-> "waiting", update |-> u, rest |-> rest]
  <2>1. /\ tasks' = [tasks EXCEPT ![t] = busy]
        /\ sent' = sent \cup {[to |-> peers[k + 1], update |-> u, task |-> t]}
    BY <1>2, <1>4
  <2>2. k + 1 \in 1..Len(peers) BY <1>4
  <2>3. rest \in Seq(Satellites) /\ rest # <<>>
    <3>1. \A i \in (k + 1)..Len(peers) : peers[i] \in Satellites BY <2>2
    <3>2. rest \in Seq(Satellites) /\ Len(rest) = Len(peers) - (k + 1) + 1
      BY <2>2, <3>1, SubSeqProperties
    <3> HIDE DEF rest
    <3>3. rest # <<>> BY <2>2, <3>2, Len(<<>>) = 0
    <3>4. QED BY <3>2, <3>3
  <2>4. busy \in Tasks BY <2>3 DEF Tasks, Stages
  <2>5. [to |-> peers[k + 1], update |-> u, task |-> t] \in Requests
    BY <2>2 DEF Requests
  <2> HIDE DEF rest
  <2>6. tasks' \in [TaskIds -> Tasks] BY <2>1, <2>4 DEF TypeInv, TaskTypes
  <2>7. ASSUME NEW i \in TaskIds
        PROVE  /\ tasks'[i].stage \in {"waiting", "ok", "failed"} => tasks'[i].rest # <<>>
               /\ tasks'[i].stage \notin {"idle", "reading"} => tasks'[i].update \in Updates
    <3>1. CASE i = t BY <2>1, <2>3, <3>1 DEF TypeInv, TaskTypes
    <3>2. CASE i # t BY <2>1, <3>2 DEF TypeInv, TaskTypes
    <3>3. QED BY <3>1, <3>2
  <2>8. sent' \subseteq Requests BY <2>1, <2>5 DEF TypeInv, TaskTypes
  <2>9. QED BY <1>1, <2>6, <2>7, <2>8 DEF TaskTypes
<1>5. QED BY <1>3, <1>4

-----------------------------------------------------------------------------
(* Requests and the tasks that wait for them.                              *)

\* A task that does not wait has no request under way.
LEMMA NothingUnderWay ==
    ASSUME TypeInv, NEW t \in TaskIds, tasks[t].stage # "waiting"
    PROVE  /\ \A m \in sent : m.task # t
           /\ \A p \in Satellites : \A i \in DOMAIN queue[p] : queue[p][i].task # t
<1>1. t # 0 BY DEF TaskIds
<1>2. QED BY <1>1 DEF TypeInv, Awaited

\* Such a task may change.
LEMMA TaskChanges ==
    ASSUME TypeInv, NEW t \in TaskIds, NEW task, tasks[t].stage # "waiting",
           tasks' = [tasks EXCEPT ![t] = task], UNCHANGED <<sent, queue>>
    PROVE  Awaited' /\ Single'
<1>1. \A i \in TaskIds \ {t} : tasks'[i] = tasks[i] BY DEF TypeInv, TaskTypes
<1>2. /\ \A m \in sent : m.task \in TaskIds \cup {0} /\ m.task # t
      /\ \A p \in Satellites : \A i \in DOMAIN queue[p] :
             queue[p][i].task \in TaskIds \cup {0} /\ queue[p][i].task # t
  <2>1. \A m \in sent : m.task \in TaskIds \cup {0} BY DEF TypeInv, TaskTypes, Requests
  <2>2. \A p \in Satellites : \A i \in DOMAIN queue[p] : queue[p][i] \in Requests
    BY DEF TypeInv, QueueTypes
  <2>3. QED BY <2>1, <2>2, NothingUnderWay DEF Requests
<1>3. Awaited' BY <1>1, <1>2 DEF TypeInv, Awaited
<1>4. Single' BY DEF TypeInv, Single
<1>5. QED BY <1>3, <1>4

\* And it may push.
LEMMA TaskPushes ==
    ASSUME TypeInv, NEW t \in TaskIds, NEW task, NEW m, tasks[t].stage # "waiting",
           tasks' = [tasks EXCEPT ![t] = task], task.stage = "waiting",
           sent' = sent \cup {m}, m.task = t, UNCHANGED queue
    PROVE  Awaited' /\ Single'
<1>1. \A i \in TaskIds \ {t} : tasks'[i] = tasks[i] BY DEF TypeInv, TaskTypes
<1>2. /\ \A n \in sent : n.task \in TaskIds \cup {0} /\ n.task # t
      /\ \A p \in Satellites : \A i \in DOMAIN queue[p] :
             queue[p][i].task \in TaskIds \cup {0} /\ queue[p][i].task # t
  <2>1. \A n \in sent : n.task \in TaskIds \cup {0} BY DEF TypeInv, TaskTypes, Requests
  <2>2. \A p \in Satellites : \A i \in DOMAIN queue[p] : queue[p][i] \in Requests
    BY DEF TypeInv, QueueTypes
  <2>3. QED BY <2>1, <2>2, NothingUnderWay DEF Requests
<1>3. tasks'[t].stage = "waiting" BY DEF TypeInv, TaskTypes
<1>4. Awaited' BY <1>1, <1>2, <1>3 DEF TypeInv, Awaited
<1>5. Single' BY <1>2 DEF TypeInv, Single
<1>6. QED BY <1>4, <1>5

LEMMA AdvanceAwaited ==
    ASSUME TypeInv, NEW t \in TaskIds, NEW u, NEW peers,
           tasks[t].stage # "waiting", Advance(t, u, peers), UNCHANGED queue
    PROVE  Awaited' /\ Single'
<1>1. PICK k \in 0..Len(peers) :
        IF k = Len(peers)
        THEN tasks' = [tasks EXCEPT ![t] = IdleTask] /\ sent' = sent
        ELSE /\ tasks' = [tasks EXCEPT ![t] =
                     [stage |-> "waiting", update |-> u, rest |-> SubSeq(peers, k + 1, Len(peers))]]
             /\ sent' = sent \cup {[to |-> peers[k + 1], update |-> u, task |-> t]}
  BY DEF Advance
<1>2. CASE k = Len(peers) BY <1>1, <1>2, TaskChanges
<1>3. CASE k # Len(peers)
  <2> DEFINE task == [stage |-> "waiting", update |-> u, rest |-> SubSeq(peers, k + 1, Len(peers))]
             m == [to |-> peers[k + 1], update |-> u, task |-> t]
  <2>1. tasks' = [tasks EXCEPT ![t] = task] /\ sent' = sent \cup {m} BY <1>1, <1>3
  <2>2. task.stage = "waiting" /\ m.task = t OBVIOUS
  <2> HIDE DEF task, m
  <2>3. QED BY <2>1, <2>2, TaskPushes
<1>4. QED BY <1>2, <1>3

\* A request leaves the network for its Satellite.
LEMMA ArrivesAwaited ==
    ASSUME TypeInv, NEW m \in sent, sent' = sent \ {m},
           queue' = [queue EXCEPT ![m.to] = Append(@, m)], UNCHANGED tasks
    PROVE  Awaited' /\ Single' /\ queue' \in [Satellites -> Seq(Requests)] /\ queue'[m.to] # <<>>
           /\ \A p \in Satellites \ {m.to} : queue'[p] = queue[p]
<1>1. m \in Requests /\ m.to \in Satellites BY DEF TypeInv, TaskTypes, Requests
<1>2. queue \in [Satellites -> Seq(Requests)] BY DEF TypeInv, QueueTypes
<1>3. /\ queue'[m.to] = Append(queue[m.to], m)
      /\ \A p \in Satellites \ {m.to} : queue'[p] = queue[p]
  BY <1>1, <1>2
<1>4. /\ queue'[m.to] \in Seq(Requests) /\ queue'[m.to] # <<>>
      /\ Len(queue'[m.to]) = Len(queue[m.to]) + 1
      /\ \A i \in 1..Len(queue[m.to]) : queue'[m.to][i] = queue[m.to][i]
      /\ queue'[m.to][Len(queue[m.to]) + 1] = m
  BY <1>1, <1>2, <1>3, AppendProperties
<1>5. queue' \in [Satellites -> Seq(Requests)] BY <1>1, <1>2, <1>3, <1>4
\* Every request of a queue was there, or it is m at the end.
<1>6. \A p \in Satellites : \A i \in DOMAIN queue'[p] :
        \/ i \in DOMAIN queue[p] /\ queue'[p][i] = queue[p][i]
        \/ p = m.to /\ i = Len(queue[p]) + 1 /\ queue'[p][i] = m
  <2> SUFFICES ASSUME NEW p \in Satellites, NEW i \in DOMAIN queue'[p], p = m.to
               PROVE  \/ i \in DOMAIN queue[p] /\ queue'[p][i] = queue[p][i]
                      \/ i = Len(queue[p]) + 1 /\ queue'[p][i] = m
    BY <1>3
  <2>1. i \in 1..(Len(queue[p]) + 1) BY <1>4
  <2>2. DOMAIN queue[p] = 1..Len(queue[p]) /\ Len(queue[p]) \in Nat BY <1>2
  <2>3. QED BY <1>4, <2>1, <2>2
<1>7. Awaited' BY <1>6 DEF TypeInv, Awaited
<1>8. Single'
  <2>1. \A k, n \in sent' : k.task # 0 /\ k.task = n.task => k = n BY DEF TypeInv, Single
  <2>2. \A k \in sent' : k \in sent /\ k # m OBVIOUS
  <2>3. \A k \in sent', p \in Satellites : \A i \in DOMAIN queue'[p] :
           k.task # 0 => queue'[p][i].task # k.task
    BY <1>6, <2>2 DEF TypeInv, Single
  <2>4. \A p, q \in Satellites : \A i \in DOMAIN queue'[p], j \in DOMAIN queue'[q] :
           queue'[p][i].task # 0 /\ queue'[p][i].task = queue'[q][j].task => p = q /\ i = j
    BY <1>6 DEF TypeInv, Single
  <2>5. QED BY <2>1, <2>3, <2>4 DEF Single
<1>9. QED BY <1>3, <1>4, <1>5, <1>7, <1>8

\* The first request of a queue is answered.
LEMMA AnswerAwaited ==
    ASSUME TypeInv, NEW p \in Satellites, NEW result, queue[p] # <<>>,
           Answer(p, result), UNCHANGED sent
    PROVE  Awaited' /\ Single'
<1> DEFINE t == Head(queue[p]).task
<1>1. queue \in [Satellites -> Seq(Requests)] BY DEF TypeInv, QueueTypes
<1>2. /\ queue' = [queue EXCEPT ![p] = Tail(@)]
      /\ tasks' = IF t = 0 THEN tasks ELSE [tasks EXCEPT ![t].stage = result]
  BY DEF Answer
<1>3. /\ Head(queue[p]) = queue[p][1] /\ 1 \in DOMAIN queue[p]
      /\ Tail(queue[p]) \in Seq(Requests)
      /\ Len(Tail(queue[p])) = Len(queue[p]) - 1
      /\ \A i \in 1..Len(Tail(queue[p])) : Tail(queue[p])[i] = queue[p][i + 1]
  BY <1>1, HeadTailProperties
<1>4. /\ queue'[p] = Tail(queue[p])
      /\ \A q \in Satellites \ {p} : queue'[q] = queue[q]
  BY <1>1, <1>2
\* What is left of a queue was behind its first request.
<1>5. \A i \in DOMAIN queue'[p] :
        /\ i \in Nat /\ i + 1 \in DOMAIN queue[p] /\ i + 1 # 1
        /\ queue'[p][i] = queue[p][i + 1]
  <2>1. DOMAIN queue'[p] = 1..(Len(queue[p]) - 1) BY <1>3, <1>4
  <2>2. DOMAIN queue[p] = 1..Len(queue[p]) /\ Len(queue[p]) \in Nat BY <1>1
  <2>3. QED BY <1>3, <1>4, <2>1, <2>2
<1> DEFINE old(q, i) == IF q = p THEN i + 1 ELSE i
<1>6. \A q \in Satellites : \A i \in DOMAIN queue'[q] :
        /\ old(q, i) \in DOMAIN queue[q]
        /\ queue'[q][i] = queue[q][old(q, i)]
        /\ ~(q = p /\ old(q, i) = 1)
        /\ \A j \in DOMAIN queue'[q] : old(q, i) = old(q, j) => i = j
  <2> TAKE q \in Satellites
  <2> TAKE i \in DOMAIN queue'[q]
  <2>1. CASE q = p BY <1>5, <2>1
  <2>2. CASE q # p BY <1>4, <2>2
  <2>3. QED BY <2>1, <2>2
<1>7. t \in TaskIds \cup {0} /\ t = queue[p][1].task
  <2>1. Head(queue[p]) \in Requests BY <1>1, HeadTailProperties
  <2>2. QED BY <1>3, <2>1 DEF Requests
<1>8. \A i \in TaskIds : i # t => tasks'[i] = tasks[i]
  BY <1>2, <1>7 DEF TypeInv, TaskTypes
<1> HIDE DEF t, old
<1>9. \A m \in sent : m.task # 0 => m.task \in TaskIds /\ m.task # t
  <2>1. \A m \in sent : m.task \in TaskIds \cup {0} BY DEF TypeInv, TaskTypes, Requests
  <2>2. \A m \in sent : m.task # 0 => m.task # queue[p][1].task
    BY <1>3 DEF TypeInv, Single
  <2>3. QED BY <1>7, <2>1, <2>2
<1>10. \A q \in Satellites : \A i \in DOMAIN queue'[q] :
        queue'[q][i].task # 0 => /\ queue'[q][i].task \in TaskIds /\ queue'[q][i].task # t
                                 /\ tasks[queue'[q][i].task].stage = "waiting"
  <2>1. \A q \in Satellites : \A i \in DOMAIN queue[q] :
          /\ queue[q][i].task \in TaskIds \cup {0}
          /\ queue[q][i].task # 0 => tasks[queue[q][i].task].stage = "waiting"
    <3>1. \A q \in Satellites : \A i \in DOMAIN queue[q] : queue[q][i] \in Requests BY <1>1
    <3>2. QED BY <3>1 DEF TypeInv, Awaited, Requests
  <2>2. \A q \in Satellites : \A i \in DOMAIN queue[q] :
          queue[q][i].task # 0 /\ queue[q][i].task = t => q = p /\ i = 1
    BY <1>3, <1>7 DEF TypeInv, Single
  <2>3. QED BY <1>6, <2>1, <2>2
<1>11. Awaited' BY <1>8, <1>9, <1>10 DEF TypeInv, Awaited
<1>12. Single'
  <2>1. \A m, n \in sent' : m.task # 0 /\ m.task = n.task => m = n BY DEF TypeInv, Single
  <2>2. \A m \in sent', q \in Satellites : \A i \in DOMAIN queue'[q] :
           m.task # 0 => queue'[q][i].task # m.task
    <3>1. \A m \in sent, q \in Satellites : \A i \in DOMAIN queue[q] :
             m.task # 0 => queue[q][i].task # m.task
      BY DEF TypeInv, Single
    <3>2. QED BY <1>6, <3>1
  <2>3. ASSUME NEW q \in Satellites, NEW r \in Satellites,
               NEW i \in DOMAIN queue'[q], NEW j \in DOMAIN queue'[r],
               queue'[q][i].task # 0, queue'[q][i].task = queue'[r][j].task
        PROVE  q = r /\ i = j
    <3>1. q = r /\ old(q, i) = old(r, j)
      <4>1. /\ old(q, i) \in DOMAIN queue[q] /\ queue'[q][i] = queue[q][old(q, i)]
            /\ old(r, j) \in DOMAIN queue[r] /\ queue'[r][j] = queue[r][old(r, j)]
        BY <1>6
      <4>2. QED BY <2>3, <4>1 DEF TypeInv, Single
    <3>2. QED BY <1>6, <3>1
  <2>4. QED BY <2>1, <2>2, <2>3 DEF Single
<1>13. QED BY <1>11, <1>12

\* Requests lose the tasks ts that waited for them.
LEMMA AbandonAwaited ==
    ASSUME TypeInv, NEW ts \in SUBSET TaskIds, Abandon(ts),
           \A i \in TaskIds \ ts : tasks'[i] = tasks[i]
    PROVE  /\ Awaited' /\ Single' /\ sent' \subseteq Requests
           /\ queue' \in [Satellites -> Seq(Requests)]
           /\ \A p \in Satellites : queue[p] # <<>> => queue'[p] # <<>>
<1>1. queue \in [Satellites -> Seq(Requests)] BY DEF TypeInv, QueueTypes
<1>2. \A m \in Requests : Orphaned(ts, m) \in Requests BY DEF Orphaned, Requests
<1>3. \A m \in Requests : /\ Orphaned(ts, m).task \notin ts
                          /\ Orphaned(ts, m).task # 0 => Orphaned(ts, m) = m
  BY DEF Orphaned, Requests, TaskIds
<1>4. sent' = {Orphaned(ts, m) : m \in sent} BY DEF Abandon
<1>5. \A p \in Satellites : queue'[p] = [i \in DOMAIN queue[p] |-> Orphaned(ts, queue[p][i])]
  BY DEF Abandon
<1>6. \A p \in Satellites : /\ DOMAIN queue'[p] = DOMAIN queue[p]
                            /\ \A i \in DOMAIN queue[p] : queue'[p][i] = Orphaned(ts, queue[p][i])
                            /\ \A i \in DOMAIN queue[p] : queue[p][i] \in Requests
  <2> TAKE p \in Satellites
  <2>1. \A i \in DOMAIN queue[p] : queue[p][i] \in Requests BY <1>1
  <2>2. queue'[p] = [i \in DOMAIN queue[p] |-> Orphaned(ts, queue[p][i])] BY <1>5
  <2>3. DOMAIN queue'[p] = DOMAIN queue[p] BY <2>2
  <2>4. \A i \in DOMAIN queue[p] : queue'[p][i] = Orphaned(ts, queue[p][i]) BY <2>2
  <2>5. QED BY <2>1, <2>3, <2>4
<1>7. \A p \in Satellites : queue'[p] \in Seq(Requests)
  <2> TAKE p \in Satellites
  <2>1. queue'[p] \in [1..Len(queue[p]) -> Requests]
    <3>1. DOMAIN queue[p] = 1..Len(queue[p]) BY <1>1
    <3>2. QED BY <1>2, <1>5, <1>6, <3>1
  <2>2. Len(queue[p]) \in Nat BY <1>1
  <2>3. QED BY <2>1, <2>2
<1>8. queue' \in [Satellites -> Seq(Requests)]
  <2>1. queue' = [p \in Satellites |-> queue'[p]] BY DEF Abandon
  <2>2. QED BY <1>7, <2>1
<1>9. \A p \in Satellites : queue[p] # <<>> => queue'[p] # <<>> BY <1>1, <1>6
<1>10. sent' \subseteq Requests BY <1>2, <1>4 DEF TypeInv, TaskTypes
<1>11. \A m \in sent' : m.task # 0 => m \in sent /\ m.task \in TaskIds \ ts
  <2>1. \A m \in sent : m \in Requests BY DEF TypeInv, TaskTypes
  <2>2. QED BY <1>2, <1>3, <1>4, <2>1 DEF Requests
<1>12. \A p \in Satellites : \A i \in DOMAIN queue'[p] :
         queue'[p][i].task # 0 => /\ i \in DOMAIN queue[p] /\ queue'[p][i] = queue[p][i]
                                  /\ queue'[p][i].task \in TaskIds \ ts
  BY <1>2, <1>3, <1>6 DEF Requests
<1>13. Awaited' BY <1>11, <1>12 DEF TypeInv, Awaited
<1>14. Single' BY <1>11, <1>12 DEF TypeInv, Single
<1>15. QED BY <1>8, <1>9, <1>10, <1>13, <1>14

\* The task of a request under way can be told that the request failed.
LEMMA LostAwaited ==
    ASSUME TypeInv, NEW m \in sent, sent' = sent \ {m}, UNCHANGED queue,
           tasks' = IF m.task = 0 THEN tasks ELSE [tasks EXCEPT ![m.task].stage = "failed"]
    PROVE  Awaited' /\ Single'
<1>1. m.task \in TaskIds \cup {0} BY DEF TypeInv, TaskTypes, Requests
<1>2. \A i \in TaskIds : i # m.task => tasks'[i] = tasks[i] BY <1>1 DEF TypeInv, TaskTypes
<1>3. \A n \in sent' : n \in sent /\ (n.task # 0 => n.task \in TaskIds /\ n.task # m.task)
  BY DEF TypeInv, TaskTypes, Requests, Single
<1>4. \A p \in Satellites : \A i \in DOMAIN queue[p] :
        queue[p][i].task # 0 => queue[p][i].task \in TaskIds /\ queue[p][i].task # m.task
  <2>1. \A p \in Satellites : \A i \in DOMAIN queue[p] : queue[p][i] \in Requests
    BY DEF TypeInv, QueueTypes
  <2>2. QED BY <2>1 DEF TypeInv, Single, Requests
<1>5. Awaited' BY <1>2, <1>3, <1>4 DEF TypeInv, Awaited
<1>6. Single' BY <1>3 DEF TypeInv, Single
<1>7. QED BY <1>5, <1>6

LEMMA RestartAwaited ==
    ASSUME TypeInv, NEW p \in Satellites, SatelliteRestarts(p)
    PROVE  TaskTypes' /\ QueueTypes' /\ Awaited' /\ Single'
<1> DEFINE waiting == {queue[p][i].task : i \in DOMAIN queue[p]}
<1>1. /\ queue' = [queue EXCEPT ![p] = <<>>]
      /\ phase' = [phase EXCEPT ![p] = "idle"]
      /\ tasks' = [t \in TaskIds |-> IF t \in waiting THEN [tasks[t] EXCEPT !.stage = "failed"] ELSE tasks[t]]
      /\ sent' = sent /\ overlapped' = overlapped
  BY DEF SatelliteRestarts
<1>2. \A t \in TaskIds : t \in waiting => tasks[t].stage = "waiting"
  BY DEF TypeInv, Awaited, TaskIds
<1> HIDE DEF waiting
<1>3. TaskTypes'
  <2>1. \A t \in TaskIds : tasks[t] \in Tasks BY DEF TypeInv, TaskTypes
  <2>2. \A t \in TaskIds : t \in waiting =>
          /\ tasks'[t] \in Tasks /\ tasks'[t].stage = "failed"
          /\ tasks'[t].rest = tasks[t].rest /\ tasks'[t].update = tasks[t].update
    BY <1>1, <2>1 DEF Tasks, Stages
  <2>3. \A t \in TaskIds : t \notin waiting => tasks'[t] = tasks[t] BY <1>1
  <2>4. tasks' \in [TaskIds -> Tasks] BY <1>1, <2>1, <2>2, <2>3
  <2>5. QED BY <1>1, <1>2, <2>2, <2>3, <2>4 DEF TypeInv, TaskTypes
<1>4. queue'[p] = <<>> /\ \A q \in Satellites \ {p} : queue'[q] = queue[q]
  BY <1>1 DEF TypeInv, QueueTypes
<1>5. QueueTypes' BY <1>1 DEF TypeInv, QueueTypes
<1>6. /\ \A m \in sent : m.task # 0 => m.task \in TaskIds \ waiting
      /\ \A q \in Satellites : \A i \in DOMAIN queue'[q] :
           /\ q # p /\ i \in DOMAIN queue[q] /\ queue'[q][i] = queue[q][i]
           /\ queue[q][i].task # 0 => queue[q][i].task \in TaskIds \ waiting
  <2>1. \A m \in sent : m.task \in TaskIds \cup {0} BY DEF TypeInv, TaskTypes, Requests
  <2>2. \A q \in Satellites : \A i \in DOMAIN queue[q] : queue[q][i].task \in TaskIds \cup {0}
    <3>1. \A q \in Satellites : \A i \in DOMAIN queue[q] : queue[q][i] \in Requests
      BY DEF TypeInv, QueueTypes
    <3>2. QED BY <3>1 DEF Requests
  <2>3. \A m \in sent : m.task # 0 => m.task \notin waiting BY DEF waiting, TypeInv, Single
  <2>4. \A q \in Satellites \ {p} : \A i \in DOMAIN queue[q] :
          queue[q][i].task # 0 => queue[q][i].task \notin waiting
    BY DEF waiting, TypeInv, Single
  <2>5. \A q \in Satellites : \A i \in DOMAIN queue'[q] : q # p
    BY <1>4
  <2>6. QED BY <1>4, <2>1, <2>2, <2>3, <2>4, <2>5
<1>7. \A t \in TaskIds \ waiting : tasks'[t] = tasks[t] BY <1>1
<1>8. Awaited' BY <1>1, <1>6, <1>7 DEF TypeInv, Awaited
<1>9. Single' BY <1>1, <1>6 DEF TypeInv, Single
<1>10. QED BY <1>3, <1>5, <1>8, <1>9

-----------------------------------------------------------------------------
(* The actions of the Primary.                                             *)

LEMMA CoreBecomesTypes ==
    ASSUME TypeInv, NEW s \in States, CoreBecomes(s), budget' \in [Kinds -> Nat]
    PROVE  PrimaryTypes'
<1>1. core' = s /\ UNCHANGED <<listening, snapshot, epoch, revision, observed, lastPushed>>
  BY DEF CoreBecomes
<1>2. changes' \in Nat /\ events' \in Seq([state : States \cup {None}, seen : Nat])
  <2>1. CASE s = core BY <2>1 DEF CoreBecomes, TypeInv, PrimaryTypes
  <2>2. CASE s # core
    <3>1. changes' \in Nat BY <2>2 DEF CoreBecomes, TypeInv, PrimaryTypes
    <3>2. CASE UNCHANGED events BY <3>1, <3>2 DEF TypeInv, PrimaryTypes
    <3>3. CASE \E told \in {s} \cup (IF Stateless THEN {None} ELSE {}) :
                 events' = Append(events, [state |-> told, seen |-> changes'])
      <4>1. PICK told \in States \cup {None} : events' = Append(events, [state |-> told, seen |-> changes'])
        BY <3>3
      <4>2. [state |-> told, seen |-> changes'] \in [state : States \cup {None}, seen : Nat]
        BY <3>1, <4>1
      <4>3. QED BY <3>1, <4>1, <4>2, AppendProperties DEF TypeInv, PrimaryTypes
    <3>4. QED BY <2>2, <3>2, <3>3 DEF CoreBecomes
  <2>3. QED BY <2>1, <2>2
<1>3. QED BY <1>1, <1>2 DEF TypeInv, PrimaryTypes

LEMMA SpendTypes ==
    ASSUME TypeInv, NEW kind \in Kinds, Spend(kind)
    PROVE  budget' \in [Kinds -> Nat]
BY DEF Spend, TypeInv, PrimaryTypes

\* broadcast(), for a task without a request under way.
LEMMA ObserveTypes ==
    ASSUME TypeInv, NEW t \in TaskIds, NEW state \in States, NEW seen \in Nat,
           tasks[t].stage # "waiting", Observe(t, state, seen), UNCHANGED queue
    PROVE  /\ TaskTypes' /\ Awaited' /\ Single'
           /\ observed' \in States \cup {None} /\ revision' \in Nat
<1>1. CASE state = observed
  <2>1. /\ tasks' = [tasks EXCEPT ![t] = IdleTask]
        /\ UNCHANGED <<observed, revision, sent, overlapped>>
    BY <1>1 DEF Observe
  <2>2. TaskTypes' BY <2>1, IdleTaskTypes DEF TypeInv, TaskTypes, IdleTask
  <2>3. QED BY <2>1, <2>2, TaskChanges DEF TypeInv, PrimaryTypes
<1>2. CASE state # observed
  <2>1. observed' = state /\ revision' = revision + 1 /\ Advance(t, Stamp(state, seen), Order)
    BY <1>2 DEF Observe
  <2>2. QED BY <2>1, OrderTypes, StampTypes, AdvanceTypes, AdvanceAwaited DEF TypeInv, PrimaryTypes
<1>3. QED BY <1>1, <1>2

LEMMA ClearTypes ==
    ASSUME TypeInv, Clear, epoch' \in Nat, budget' \in [Kinds -> Nat]
    PROVE  PrimaryTypes'
<1>1. events' \in Seq([state : States \cup {None}, seen : Nat])
  <2>1. events' = <<>> BY DEF Clear
  <2>2. QED BY <2>1
<1>2. lastPushed' \in [Satellites -> States \cup {None}] BY DEF Clear
<1>3. /\ revision' = 0 /\ observed' = None /\ listening' = FALSE
      /\ UNCHANGED <<core, changes, snapshot>>
  BY DEF Clear
<1>4. QED BY <1>1, <1>2, <1>3 DEF TypeInv, PrimaryTypes

\* Actions that leave the tasks and the Satellites alone.
LEMMA PrimarySteps ==
    ASSUME TypeInv,
           CoreChanges \/ SnapshotReads \/ WatchDrops \/ WatchConnects \/ PrimaryReconfigures
    PROVE  TypeInv'
<1>1. UNCHANGED <<tasks, sent, overlapped, satelliteVars>>
  BY DEF CoreChanges, SnapshotReads, WatchDrops, WatchConnects, PrimaryReconfigures
<1>2. PrimaryTypes'
  <2>1. CASE CoreChanges
    <3>1. PICK s \in States : CoreBecomes(s) BY <2>1 DEF CoreChanges
    <3>2. budget' \in [Kinds -> Nat] BY <2>1, SpendTypes DEF CoreChanges, Kinds
    <3>3. QED BY <3>1, <3>2, CoreBecomesTypes
  <2>2. CASE SnapshotReads BY <2>2 DEF SnapshotReads, TypeInv, PrimaryTypes
  <2>3. CASE WatchDrops
    <3>1. budget' \in [Kinds -> Nat] BY <2>3, SpendTypes DEF WatchDrops, Kinds
    <3>2. events' \in Seq([state : States \cup {None}, seen : Nat])
      <4>1. events' = <<>> BY <2>3 DEF WatchDrops
      <4>2. QED BY <4>1
    <3>3. /\ listening' = FALSE
          /\ UNCHANGED <<core, changes, snapshot, epoch, revision, observed, lastPushed>>
      BY <2>3 DEF WatchDrops
    <3>4. QED BY <3>1, <3>2, <3>3 DEF TypeInv, PrimaryTypes
  <2>4. CASE WatchConnects BY <2>4 DEF WatchConnects, TypeInv, PrimaryTypes
  <2>5. CASE PrimaryReconfigures
    <3>1. budget' \in [Kinds -> Nat] BY <2>5, SpendTypes DEF PrimaryReconfigures, Kinds
    <3>2. UNCHANGED epoch BY <2>5 DEF PrimaryReconfigures
    <3>3. Clear BY <2>5 DEF PrimaryReconfigures
    <3>4. QED BY <3>1, <3>2, <3>3, ClearTypes DEF TypeInv, PrimaryTypes
  <2>6. QED BY <2>1, <2>2, <2>3, <2>4, <2>5
<1>3. TaskTypes' /\ Awaited' /\ Single' BY <1>1 DEF satelliteVars, TypeInv, TaskTypes, Awaited, Single
<1>4. QueueTypes' /\ SatelliteTypes'
  BY <1>1 DEF satelliteVars, TypeInv, QueueTypes, SatelliteTypes
<1>5. QED BY <1>2, <1>3, <1>4 DEF TypeInv

LEMMA SatellitesUnchanged ==
    ASSUME TypeInv, UNCHANGED satelliteVars
    PROVE  QueueTypes' /\ SatelliteTypes' /\ UNCHANGED queue
BY DEF satelliteVars, TypeInv, QueueTypes, SatelliteTypes

LEMMA HandleEventStep ==
    ASSUME TypeInv, NEW t \in TaskIds, HandleEvent(t)
    PROVE  TypeInv'
<1> DEFINE event == Head(events)
<1>1. /\ event \in [state : States \cup {None}, seen : Nat]
      /\ events' \in Seq([state : States \cup {None}, seen : Nat])
  BY HeadTailProperties DEF HandleEvent, TypeInv, PrimaryTypes
<1>2. QueueTypes' /\ SatelliteTypes' /\ UNCHANGED queue
  BY SatellitesUnchanged DEF HandleEvent
<1>3. tasks[t].stage # "waiting" BY DEF HandleEvent, IsFree
<1>4. /\ TaskTypes' /\ Awaited' /\ Single'
      /\ observed' \in States \cup {None} /\ revision' \in Nat
  <2>1. CASE event.state # None
    <3>1. event.state \in States /\ event.seen \in Nat BY <1>1, <2>1
    <3>2. Observe(t, event.state, event.seen) BY <2>1 DEF HandleEvent
    <3>3. QED BY <1>2, <1>3, <3>1, <3>2, ObserveTypes
  <2>2. CASE event.state = None
    <3>1. tasks' = [tasks EXCEPT ![t].stage = "reading"] /\ UNCHANGED <<observed, revision, sent, overlapped>>
      BY <2>2 DEF HandleEvent
    <3>2. TaskTypes' BY <3>1 DEF TypeInv, TaskTypes, Tasks, Stages
    <3>3. tasks' = [tasks EXCEPT ![t] = [tasks[t] EXCEPT !.stage = "reading"]]
      BY <3>1 DEF TypeInv, TaskTypes
    <3>4. Awaited' /\ Single' BY <1>2, <1>3, <3>1, <3>3, TaskChanges
    <3>5. QED BY <3>1, <3>2, <3>4 DEF TypeInv, PrimaryTypes
  <2>3. QED BY <2>1, <2>2
<1>5. PrimaryTypes' BY <1>1, <1>4 DEF HandleEvent, TypeInv, PrimaryTypes
<1>6. QED BY <1>2, <1>4, <1>5 DEF TypeInv

LEMMA CoreAnswersStep ==
    ASSUME TypeInv, NEW t \in TaskIds, CoreAnswers(t)
    PROVE  TypeInv'
<1> DEFINE task == [stage |-> "read", update |-> Stamp(core, changes), rest |-> <<>>]
<1>1. QueueTypes' /\ SatelliteTypes' /\ UNCHANGED queue
  BY SatellitesUnchanged DEF CoreAnswers
<1>2. /\ tasks[t].stage # "waiting" /\ tasks' = [tasks EXCEPT ![t] = task]
      /\ UNCHANGED <<primaryVars, sent, overlapped, budget>>
  BY DEF CoreAnswers
<1>3. Stamp(core, changes) \in Updates BY StampTypes DEF TypeInv, PrimaryTypes
<1>4. task \in Tasks BY <1>3 DEF Tasks, Stages
<1>5. task.stage = "read" /\ task.update \in Updates BY <1>3
<1> HIDE DEF task
<1>6. TaskTypes' BY <1>2, <1>4, <1>5 DEF TypeInv, TaskTypes
<1>7. Awaited' /\ Single' BY <1>1, <1>2, TaskChanges
<1>8. PrimaryTypes' BY <1>2 DEF primaryVars, TypeInv, PrimaryTypes
<1>9. QED BY <1>1, <1>6, <1>7, <1>8 DEF TypeInv

LEMMA CoreFailsToAnswerStep ==
    ASSUME TypeInv, NEW t \in TaskIds, CoreFailsToAnswer(t)
    PROVE  TypeInv'
<1>1. QueueTypes' /\ SatelliteTypes' /\ UNCHANGED queue
  BY SatellitesUnchanged DEF CoreFailsToAnswer
<1>2. /\ tasks[t].stage # "waiting" /\ tasks' = [tasks EXCEPT ![t] = IdleTask]
      /\ UNCHANGED <<primaryVars, sent, overlapped>>
  BY DEF CoreFailsToAnswer
<1>3. TaskTypes' BY <1>2, IdleTaskTypes DEF TypeInv, TaskTypes, IdleTask
<1>4. Awaited' /\ Single' BY <1>1, <1>2, TaskChanges
<1>5. budget' \in [Kinds -> Nat] BY SpendTypes DEF CoreFailsToAnswer, Kinds
<1>6. PrimaryTypes' BY <1>2, <1>5 DEF primaryVars, TypeInv, PrimaryTypes
<1>7. QED BY <1>1, <1>3, <1>4, <1>6 DEF TypeInv

LEMMA StateReadStep ==
    ASSUME TypeInv, NEW t \in TaskIds, StateRead(t)
    PROVE  TypeInv'
<1>1. QueueTypes' /\ SatelliteTypes' /\ UNCHANGED queue
  BY SatellitesUnchanged DEF StateRead
<1>2. tasks[t].stage = "read" /\ tasks[t].update \in Updates
  BY DEF StateRead, TypeInv, TaskTypes
<1>3. tasks[t].update.state \in States /\ tasks[t].update.seen \in Nat BY <1>2 DEF Updates
<1>4. Observe(t, tasks[t].update.state, tasks[t].update.seen) BY DEF StateRead
<1>5. /\ TaskTypes' /\ Awaited' /\ Single'
      /\ observed' \in States \cup {None} /\ revision' \in Nat
  BY <1>1, <1>2, <1>3, <1>4, ObserveTypes
<1>6. PrimaryTypes' BY <1>5 DEF StateRead, TypeInv, PrimaryTypes
<1>7. QED BY <1>1, <1>5, <1>6 DEF TypeInv

LEMMA InitializeStep ==
    ASSUME TypeInv, NEW t \in TaskIds, NEW p \in Satellites, Initialize(p, t)
    PROVE  TypeInv'
<1> DEFINE u == Stamp(snapshot.state, snapshot.seen)
<1>1. QueueTypes' /\ SatelliteTypes' /\ UNCHANGED queue
  BY SatellitesUnchanged DEF Initialize
<1>2. tasks[t].stage # "waiting" BY DEF Initialize, IsFree
<1>3. u \in Updates BY StampTypes DEF TypeInv, PrimaryTypes
<1>4. Advance(t, u, <<p>>) /\ revision' = revision + 1
      /\ UNCHANGED <<core, changes, listening, events, snapshot, epoch, observed, lastPushed>>
  BY DEF Initialize
<1> HIDE DEF u
<1>5. <<p>> \in Seq(Satellites) OBVIOUS
<1>6. TaskTypes' /\ Awaited' /\ Single' BY <1>1, <1>2, <1>3, <1>4, <1>5, AdvanceTypes, AdvanceAwaited
<1>7. budget' \in [Kinds -> Nat] BY SpendTypes DEF Initialize, Kinds
<1>8. PrimaryTypes' BY <1>4, <1>7 DEF TypeInv, PrimaryTypes
<1>9. QED BY <1>1, <1>6, <1>8 DEF TypeInv

LEMMA PushReturnsStep ==
    ASSUME TypeInv, NEW t \in TaskIds, PushReturns(t)
    PROVE  TypeInv'
<1> DEFINE task == tasks[t]
<1>1. QueueTypes' /\ SatelliteTypes' /\ UNCHANGED queue
  BY SatellitesUnchanged DEF PushReturns
<1>2. /\ task \in Tasks /\ task.stage \in {"ok", "failed"}
      /\ task.rest # <<>> /\ task.update \in Updates
  BY DEF PushReturns, TypeInv, TaskTypes
<1>3. task.rest \in Seq(Satellites) BY <1>2 DEF Tasks
<1>4. Tail(task.rest) \in Seq(Satellites) /\ task.rest[1] \in Satellites
  BY <1>2, <1>3, HeadTailProperties
<1>5. /\ Advance(t, task.update, Tail(task.rest))
      /\ lastPushed' = IF task.stage = "ok"
                       THEN [lastPushed EXCEPT ![task.rest[1]] = task.update.state]
                       ELSE lastPushed
      /\ UNCHANGED <<core, changes, listening, events, snapshot, epoch, revision, observed, budget>>
  BY DEF PushReturns
<1>6. TaskTypes' /\ Awaited' /\ Single'
  BY <1>1, <1>2, <1>4, <1>5, AdvanceTypes, AdvanceAwaited
<1>7. lastPushed' \in [Satellites -> States \cup {None}]
  BY <1>2, <1>4, <1>5 DEF TypeInv, PrimaryTypes, Updates
<1>8. PrimaryTypes' BY <1>5, <1>7 DEF TypeInv, PrimaryTypes
<1>9. QED BY <1>1, <1>6, <1>8 DEF TypeInv

\* The task of a request may be told that it failed, or be given up.
LEMMA PushTimesOutStep ==
    ASSUME TypeInv, NEW t \in TaskIds, PushTimesOut(t)
    PROVE  TypeInv'
<1>1. /\ tasks[t].stage = "waiting" /\ Abandon({t})
      /\ tasks' = [tasks EXCEPT ![t].stage = "failed"]
      /\ UNCHANGED <<primaryVars, overlapped, actual, applied, phase, suppressed, relays, touched, collapsed>>
  BY DEF PushTimesOut
<1>2. \A i \in TaskIds \ {t} : tasks'[i] = tasks[i] BY <1>1 DEF TypeInv, TaskTypes
<1>3. /\ Awaited' /\ Single' /\ sent' \subseteq Requests
      /\ queue' \in [Satellites -> Seq(Requests)]
      /\ \A p \in Satellites : queue[p] # <<>> => queue'[p] # <<>>
  BY <1>1, <1>2, AbandonAwaited
<1>4. TaskTypes'
  <2>1. /\ tasks[t] \in Tasks /\ tasks'[t] = [tasks[t] EXCEPT !.stage = "failed"]
    BY <1>1 DEF TypeInv, TaskTypes
  <2>2. /\ tasks'[t] \in Tasks /\ tasks'[t].rest = tasks[t].rest /\ tasks'[t].update = tasks[t].update
    BY <2>1 DEF Tasks, Stages
  <2>3. tasks' \in [TaskIds -> Tasks] BY <1>1, <2>1, <2>2 DEF TypeInv, TaskTypes
  <2>4. QED BY <1>1, <1>2, <1>3, <2>2, <2>3 DEF TypeInv, TaskTypes
<1>5. QueueTypes' BY <1>1, <1>3 DEF TypeInv, QueueTypes
<1>6. SatelliteTypes' BY <1>1 DEF TypeInv, SatelliteTypes
<1>7. budget' \in [Kinds -> Nat] BY SpendTypes DEF PushTimesOut, Kinds
<1>8. PrimaryTypes' BY <1>1, <1>7 DEF primaryVars, TypeInv, PrimaryTypes
<1>9. QED BY <1>3, <1>4, <1>5, <1>6, <1>8 DEF TypeInv

LEMMA RequestLostStep ==
    ASSUME TypeInv, NEW m \in sent, RequestLost(m)
    PROVE  TypeInv'
<1>1. /\ sent' = sent \ {m} /\ UNCHANGED <<primaryVars, overlapped, satelliteVars>>
      /\ tasks' = IF m.task = 0 THEN tasks ELSE [tasks EXCEPT ![m.task].stage = "failed"]
  BY DEF RequestLost
<1>2. QueueTypes' /\ SatelliteTypes' /\ UNCHANGED queue BY <1>1, SatellitesUnchanged
<1>3. Awaited' /\ Single' BY <1>1, <1>2, LostAwaited
<1>4. TaskTypes'
  <2>1. CASE m.task = 0 BY <1>1, <2>1 DEF TypeInv, TaskTypes
  <2>2. CASE m.task # 0
    <3>1. m.task \in TaskIds /\ tasks[m.task].stage = "waiting"
      BY <2>2 DEF TypeInv, TaskTypes, Awaited, Requests
    <3>2. /\ \A i \in TaskIds : i # m.task => tasks'[i] = tasks[i]
          /\ tasks[m.task] \in Tasks
          /\ tasks'[m.task] = [tasks[m.task] EXCEPT !.stage = "failed"]
      BY <1>1, <2>2, <3>1 DEF TypeInv, TaskTypes
    <3>3. /\ tasks'[m.task] \in Tasks /\ tasks'[m.task].rest = tasks[m.task].rest
          /\ tasks'[m.task].update = tasks[m.task].update
      BY <3>2 DEF Tasks, Stages
    <3>4. tasks' \in [TaskIds -> Tasks] BY <1>1, <2>2, <3>2, <3>3 DEF TypeInv, TaskTypes
    <3>5. QED BY <1>1, <3>1, <3>2, <3>3, <3>4 DEF TypeInv, TaskTypes
  <2>3. QED BY <2>1, <2>2
<1>5. budget' \in [Kinds -> Nat] BY SpendTypes DEF RequestLost, Kinds
<1>6. PrimaryTypes' BY <1>1, <1>5 DEF primaryVars, TypeInv, PrimaryTypes
<1>7. QED BY <1>2, <1>3, <1>4, <1>6 DEF TypeInv

LEMMA PrimaryRestartsStep ==
    ASSUME TypeInv, PrimaryRestarts
    PROVE  TypeInv'
<1>1. /\ Clear /\ epoch' = epoch + 1 /\ Abandon(TaskIds)
      /\ tasks' = [t \in TaskIds |-> IdleTask]
      /\ UNCHANGED <<overlapped, actual, applied, phase, suppressed, relays, touched, collapsed>>
  BY DEF PrimaryRestarts
<1>2. /\ Awaited' /\ Single' /\ sent' \subseteq Requests
      /\ queue' \in [Satellites -> Seq(Requests)]
      /\ \A p \in Satellites : queue[p] # <<>> => queue'[p] # <<>>
  BY <1>1, AbandonAwaited
<1>3. TaskTypes' BY <1>1, <1>2, IdleTaskTypes DEF TypeInv, TaskTypes, IdleTask
<1>4. QueueTypes' BY <1>1, <1>2 DEF TypeInv, QueueTypes
<1>5. SatelliteTypes' BY <1>1 DEF TypeInv, SatelliteTypes
<1>6. budget' \in [Kinds -> Nat] BY SpendTypes DEF PrimaryRestarts, Kinds
<1>7. epoch' \in Nat BY <1>1 DEF TypeInv, PrimaryTypes
<1>8. PrimaryTypes' BY <1>1, <1>6, <1>7, ClearTypes
<1>9. QED BY <1>2, <1>3, <1>4, <1>5, <1>8 DEF TypeInv

-----------------------------------------------------------------------------
(* The actions of a Satellite.                                             *)

LEMMA RequestArrivesStep ==
    ASSUME TypeInv, NEW m \in sent, RequestArrives(m)
    PROVE  TypeInv'
<1>1. /\ sent' = sent \ {m} /\ queue' = [queue EXCEPT ![m.to] = Append(@, m)]
      /\ UNCHANGED <<primaryVars, tasks, overlapped, actual, applied, phase, suppressed,
                     relays, touched, collapsed, budget>>
  BY DEF RequestArrives
<1>2. Awaited' /\ Single' /\ queue' \in [Satellites -> Seq(Requests)] /\ queue'[m.to] # <<>>
      /\ \A p \in Satellites \ {m.to} : queue'[p] = queue[p]
  BY <1>1, ArrivesAwaited
<1>3. QueueTypes' BY <1>1, <1>2 DEF TypeInv, QueueTypes
<1>4. TaskTypes' BY <1>1 DEF TypeInv, TaskTypes
<1>5. PrimaryTypes' /\ SatelliteTypes'
  BY <1>1 DEF primaryVars, TypeInv, PrimaryTypes, SatelliteTypes
<1>6. QED BY <1>2, <1>3, <1>4, <1>5 DEF TypeInv

\* The update at the head of a queue, and what answering it leaves.
LEMMA HeadTypes ==
    ASSUME TypeInv, NEW p \in Satellites, queue[p] # <<>>
    PROVE  /\ Head(queue[p]) \in Requests
           /\ Head(queue[p]).update \in Updates
           /\ Head(queue[p]).update.state \in States
           /\ Tail(queue[p]) \in Seq(Requests)
<1>1. queue[p] \in Seq(Requests) BY DEF TypeInv, QueueTypes
<1>2. Head(queue[p]) \in Requests /\ Tail(queue[p]) \in Seq(Requests)
  BY <1>1, HeadTailProperties
<1>3. QED BY <1>2 DEF Requests, Updates

LEMMA AnswerTypes ==
    ASSUME TypeInv, NEW p \in Satellites, NEW result \in {"ok", "failed"}, queue[p] # <<>>,
           Answer(p, result), UNCHANGED <<sent, overlapped>>
    PROVE  TaskTypes' /\ QueueTypes' /\ Awaited' /\ Single'
<1> DEFINE t == Head(queue[p]).task
<1>1. /\ queue' = [queue EXCEPT ![p] = Tail(@)]
      /\ phase' = [phase EXCEPT ![p] = "idle"]
      /\ tasks' = IF t = 0 THEN tasks ELSE [tasks EXCEPT ![t].stage = result]
  BY DEF Answer
<1>2. t \in TaskIds \cup {0} BY HeadTypes DEF Requests
<1>3. t # 0 => tasks[t].stage = "waiting"
  <2>1. queue[p] \in Seq(Requests) BY DEF TypeInv, QueueTypes
  <2>2. 1 \in DOMAIN queue[p] /\ Head(queue[p]) = queue[p][1] BY <2>1, HeadTailProperties
  <2>3. QED BY <2>2 DEF TypeInv, Awaited
<1> HIDE DEF t
<1>4. TaskTypes'
  <2>1. CASE t = 0 BY <1>1, <2>1 DEF TypeInv, TaskTypes
  <2>2. CASE t # 0
    <3>1. /\ \A i \in TaskIds : i # t => tasks'[i] = tasks[i]
          /\ tasks[t] \in Tasks
          /\ tasks'[t] = [tasks[t] EXCEPT !.stage = result]
      BY <1>1, <1>2, <2>2 DEF TypeInv, TaskTypes
    <3>2. /\ tasks'[t] \in Tasks /\ tasks'[t].rest = tasks[t].rest /\ tasks'[t].update = tasks[t].update
      BY <3>1 DEF Tasks, Stages
    <3>3. tasks' \in [TaskIds -> Tasks] BY <1>1, <1>2, <2>2, <3>1, <3>2 DEF TypeInv, TaskTypes
    <3>4. QED BY <1>2, <1>3, <2>2, <3>1, <3>2, <3>3 DEF TypeInv, TaskTypes
  <2>3. QED BY <2>1, <2>2
<1>5. QueueTypes'
  <2>1. Tail(queue[p]) \in Seq(Requests) BY HeadTypes
  <2>2. queue' \in [Satellites -> Seq(Requests)] BY <1>1, <2>1 DEF TypeInv, QueueTypes
  <2>3. phase' \in [Satellites -> {"idle", "command", "run"}] BY <1>1 DEF TypeInv, QueueTypes
  <2>4. \A q \in Satellites : phase'[q] # "idle" => q # p /\ queue'[q] = queue[q] /\ phase'[q] = phase[q]
    BY <1>1 DEF TypeInv, QueueTypes
  <2>5. QED BY <2>2, <2>3, <2>4 DEF TypeInv, QueueTypes
<1>6. Awaited' /\ Single' BY AnswerAwaited
<1>7. QED BY <1>4, <1>5, <1>6

\* A step that leaves tasks and requests alone.
LEMMA TasksUnchanged ==
    ASSUME TypeInv, UNCHANGED <<tasks, sent, overlapped, queue>>
    PROVE  TaskTypes' /\ Awaited' /\ Single'
BY DEF TypeInv, TaskTypes, Awaited, Single

LEMMA AppliesStep ==
    ASSUME TypeInv, NEW p \in Satellites, Applies(p)
    PROVE  TypeInv'
<1> DEFINE u == Head(queue[p]).update
<1>1. /\ queue[p] # <<>> /\ UNCHANGED <<primaryVars, sent, overlapped, actual, relays>>
      /\ Ignores(p, u) \/ FindsApplied(p, u) \/ Commands(p, u)
  BY DEF Applies
<1>2. u \in Updates /\ u.state \in States BY <1>1, HeadTypes
<1> HIDE DEF u
<1>3. CASE Ignores(p, u)
  <2>1. Answer(p, "ok") /\ UNCHANGED <<applied, touched, suppressed, collapsed, budget>>
    BY <1>3 DEF Ignores
  <2>2. TaskTypes' /\ QueueTypes' /\ Awaited' /\ Single' BY <1>1, <2>1, AnswerTypes
  <2>3. PrimaryTypes' /\ SatelliteTypes'
    BY <1>1, <2>1 DEF primaryVars, TypeInv, PrimaryTypes, SatelliteTypes
  <2>4. QED BY <2>2, <2>3 DEF TypeInv
<1>4. CASE FindsApplied(p, u)
  <2>1. /\ Answer(p, "ok") /\ applied' = [applied EXCEPT ![p] = u]
        /\ touched' = [touched EXCEPT ![p] = FALSE]
        /\ UNCHANGED <<suppressed, collapsed, budget>>
    BY <1>4 DEF FindsApplied, RecordVersion
  <2>2. TaskTypes' /\ QueueTypes' /\ Awaited' /\ Single' BY <1>1, <2>1, AnswerTypes
  <2>3. PrimaryTypes' BY <1>1, <2>1 DEF primaryVars, TypeInv, PrimaryTypes
  <2>4. SatelliteTypes' BY <1>1, <1>2, <2>1 DEF TypeInv, SatelliteTypes
  <2>5. QED BY <2>2, <2>3, <2>4 DEF TypeInv
<1>5. CASE Commands(p, u)
  <2>1. /\ suppressed' = [suppressed EXCEPT ![p] = @ \cup {u.state}]
        /\ collapsed' = (collapsed \/ u.state \in suppressed[p])
        /\ phase' = [phase EXCEPT ![p] = "command"]
        /\ UNCHANGED <<queue, tasks, applied, touched>>
    BY <1>5 DEF Commands
  <2>2. budget' \in [Kinds -> Nat]
    <3>1. UNCHANGED budget \/ Spend("failure") BY <1>5 DEF Commands
    <3>2. CASE UNCHANGED budget BY <3>2 DEF TypeInv, PrimaryTypes
    <3>3. CASE Spend("failure") BY <3>3, SpendTypes DEF Kinds
    <3>4. QED BY <3>1, <3>2, <3>3
  <2>3. TaskTypes' /\ Awaited' /\ Single' BY <1>1, <2>1, TasksUnchanged
  <2>4. QueueTypes' BY <1>1, <2>1 DEF TypeInv, QueueTypes
  <2>5. PrimaryTypes' BY <1>1, <2>2 DEF primaryVars, TypeInv, PrimaryTypes
  <2>6. SatelliteTypes' BY <1>1, <1>2, <2>1 DEF TypeInv, SatelliteTypes
  <2>7. QED BY <2>3, <2>4, <2>5, <2>6 DEF TypeInv
<1>6. QED BY <1>1, <1>3, <1>4, <1>5

\* The Core's activity changes and a relay step is due.
LEMMA SwitchesTypes ==
    ASSUME TypeInv, NEW p \in Satellites, NEW s \in States, NEW b \in BOOLEAN, Switches(p, s),
           touched' = [touched EXCEPT ![p] = b], UNCHANGED <<applied, suppressed, collapsed>>
    PROVE  SatelliteTypes'
<1>1. relays[p] \in Seq(States) BY DEF TypeInv, SatelliteTypes
<1>2. Append(relays[p], s) \in Seq(States) BY <1>1, AppendProperties
<1>3. QED BY <1>2 DEF Switches, TypeInv, SatelliteTypes

LEMMA CommandRunsStep ==
    ASSUME TypeInv, NEW p \in Satellites, CommandRuns(p)
    PROVE  TypeInv'
<1>1. /\ queue[p] # <<>> /\ Switches(p, Head(queue[p]).update.state)
      /\ phase' = [phase EXCEPT ![p] = "run"] /\ touched' = [touched EXCEPT ![p] = FALSE]
      /\ UNCHANGED <<primaryVars, tasks, sent, overlapped, applied, queue, suppressed, collapsed, budget>>
  BY DEF CommandRuns, TypeInv, QueueTypes
<1>2. SatelliteTypes' BY <1>1, HeadTypes, SwitchesTypes
<1>3. TaskTypes' /\ Awaited' /\ Single' BY <1>1, TasksUnchanged
<1>4. QueueTypes' BY <1>1 DEF TypeInv, QueueTypes
<1>5. PrimaryTypes' BY <1>1 DEF primaryVars, TypeInv, PrimaryTypes
<1>6. QED BY <1>2, <1>3, <1>4, <1>5 DEF TypeInv

LEMMA CommandReturnsStep ==
    ASSUME TypeInv, NEW p \in Satellites, CommandReturns(p)
    PROVE  TypeInv'
<1>1. /\ queue[p] # <<>> /\ Answer(p, "ok")
      /\ applied' = [applied EXCEPT ![p] = Head(queue[p]).update]
      /\ UNCHANGED <<primaryVars, sent, overlapped, actual, suppressed, relays, touched, collapsed, budget>>
  BY DEF CommandReturns, RecordVersion, TypeInv, QueueTypes
<1>2. TaskTypes' /\ QueueTypes' /\ Awaited' /\ Single' BY <1>1, AnswerTypes
<1>3. SatelliteTypes' BY <1>1, HeadTypes DEF TypeInv, SatelliteTypes
<1>4. PrimaryTypes' BY <1>1 DEF primaryVars, TypeInv, PrimaryTypes
<1>5. QED BY <1>2, <1>3, <1>4 DEF TypeInv

LEMMA CommandFailsStep ==
    ASSUME TypeInv, NEW p \in Satellites, CommandFails(p)
    PROVE  TypeInv'
<1>1. /\ queue[p] # <<>> /\ Answer(p, "failed")
      /\ suppressed' = [suppressed EXCEPT ![p] = @ \ {Head(queue[p]).update.state}]
      /\ touched' = [touched EXCEPT ![p] = TRUE]
      /\ UNCHANGED <<primaryVars, sent, overlapped, actual, applied, relays, collapsed>>
  BY DEF CommandFails, TypeInv, QueueTypes
<1>2. TaskTypes' /\ QueueTypes' /\ Awaited' /\ Single' BY <1>1, AnswerTypes
<1>3. SatelliteTypes' BY <1>1 DEF TypeInv, SatelliteTypes
<1>4. budget' \in [Kinds -> Nat] BY SpendTypes DEF CommandFails, Kinds
<1>5. PrimaryTypes' BY <1>1, <1>4 DEF primaryVars, TypeInv, PrimaryTypes
<1>6. QED BY <1>2, <1>3, <1>5 DEF TypeInv

LEMMA UserPressesStep ==
    ASSUME TypeInv, NEW p \in Satellites, NEW s \in States, UserPresses(p, s)
    PROVE  TypeInv'
<1>1. /\ Switches(p, s) /\ touched' = [touched EXCEPT ![p] = TRUE]
      /\ UNCHANGED <<primaryVars, tasks, sent, overlapped, applied, queue, phase, suppressed, collapsed>>
  BY DEF UserPresses
<1>2. SatelliteTypes' BY <1>1, SwitchesTypes
<1>3. TaskTypes' /\ Awaited' /\ Single' BY <1>1, TasksUnchanged
<1>4. QueueTypes' BY <1>1 DEF TypeInv, QueueTypes
<1>5. budget' \in [Kinds -> Nat] BY SpendTypes DEF UserPresses, Kinds
<1>6. PrimaryTypes' BY <1>1, <1>5 DEF primaryVars, TypeInv, PrimaryTypes
<1>7. QED BY <1>2, <1>3, <1>4, <1>6 DEF TypeInv

LEMMA ForwardsStep ==
    ASSUME TypeInv, NEW p \in Satellites, Forwards(p)
    PROVE  TypeInv'
<1>1. /\ relays[p] # <<>>
      /\ relays' = [relays EXCEPT ![p] = Tail(@)]
      /\ suppressed' = [suppressed EXCEPT ![p] = @ \ {Head(relays[p])}]
      /\ UNCHANGED <<tasks, sent, overlapped, actual, applied, queue, phase, touched, collapsed>>
  BY DEF Forwards
<1>2. relays[p] \in Seq(States) BY DEF TypeInv, SatelliteTypes
<1>3. Head(relays[p]) \in States /\ Tail(relays[p]) \in Seq(States)
  BY <1>1, <1>2, HeadTailProperties
<1>4. SatelliteTypes' BY <1>1, <1>3 DEF TypeInv, SatelliteTypes
<1>5. PrimaryTypes'
  <2>1. CASE UNCHANGED <<primaryVars, budget>> BY <2>1 DEF primaryVars, TypeInv, PrimaryTypes
  <2>2. CASE CoreBecomes(Head(relays[p])) /\ UNCHANGED budget
    <3>1. budget' \in [Kinds -> Nat] BY <2>2 DEF TypeInv, PrimaryTypes
    <3>2. QED BY <1>3, <2>2, <3>1, CoreBecomesTypes
  <2>3. CASE Spend("failure") /\ UNCHANGED primaryVars
    <3>1. budget' \in [Kinds -> Nat] BY <2>3, SpendTypes DEF Kinds
    <3>2. QED BY <2>3, <3>1 DEF primaryVars, TypeInv, PrimaryTypes
  <2>4. QED BY <2>1, <2>2, <2>3 DEF Forwards
<1>6. TaskTypes' /\ Awaited' /\ Single' BY <1>1, TasksUnchanged
<1>7. QueueTypes' BY <1>1 DEF TypeInv, QueueTypes
<1>8. QED BY <1>4, <1>5, <1>6, <1>7 DEF TypeInv

LEMMA SuppressionExpiresStep ==
    ASSUME TypeInv, NEW p \in Satellites, SuppressionExpires(p)
    PROVE  TypeInv'
<1>1. /\ \E s \in suppressed[p] : suppressed' = [suppressed EXCEPT ![p] = @ \ {s}]
      /\ UNCHANGED <<primaryVars, tasks, sent, overlapped, actual, applied, queue, phase, relays,
                     touched, collapsed>>
  BY DEF SuppressionExpires
<1>2. SatelliteTypes' BY <1>1 DEF TypeInv, SatelliteTypes
<1>3. TaskTypes' /\ Awaited' /\ Single' BY <1>1, TasksUnchanged
<1>4. QueueTypes' BY <1>1 DEF TypeInv, QueueTypes
<1>5. budget' \in [Kinds -> Nat] BY SpendTypes DEF SuppressionExpires, Kinds
<1>6. PrimaryTypes' BY <1>1, <1>5 DEF primaryVars, TypeInv, PrimaryTypes
<1>7. QED BY <1>2, <1>3, <1>4, <1>6 DEF TypeInv

LEMMA SatelliteRestartsStep ==
    ASSUME TypeInv, NEW p \in Satellites, SatelliteRestarts(p)
    PROVE  TypeInv'
<1>1. /\ applied' = [applied EXCEPT ![p] = None] /\ suppressed' = [suppressed EXCEPT ![p] = {}]
      /\ UNCHANGED <<primaryVars, sent, overlapped, actual, relays, touched, collapsed>>
  BY DEF SatelliteRestarts
<1>2. TaskTypes' /\ QueueTypes' /\ Awaited' /\ Single' BY RestartAwaited
<1>3. SatelliteTypes' BY <1>1 DEF TypeInv, SatelliteTypes
<1>4. budget' \in [Kinds -> Nat] BY SpendTypes DEF SatelliteRestarts, Kinds
<1>5. PrimaryTypes' BY <1>1, <1>4 DEF primaryVars, TypeInv, PrimaryTypes
<1>6. QED BY <1>2, <1>3, <1>5 DEF TypeInv

-----------------------------------------------------------------------------
LEMMA TypeInvInit == Init => TypeInv
<1> SUFFICES ASSUME Init PROVE TypeInv OBVIOUS
<1>1. PrimaryTypes
  <2>1. events \in Seq([state : States \cup {None}, seen : Nat])
    <3>1. events = <<>> BY DEF Init
    <3>2. QED BY <3>1
  <2>2. snapshot \in [state : States, seen : Nat] BY DEF Init
  <2>3. budget \in [Kinds -> Nat] BY ConstantsAssumption DEF Init
  <2>4. QED BY <2>1, <2>2, <2>3 DEF Init, PrimaryTypes
<1>2. \A p \in Satellites : queue[p] = <<>> /\ phase[p] = "idle" BY DEF Init
<1>3. QueueTypes
  <2>1. <<>> \in Seq(Requests) OBVIOUS
  <2>2. queue \in [Satellites -> Seq(Requests)] BY <2>1 DEF Init
  <2>3. phase \in [Satellites -> {"idle", "command", "run"}] BY DEF Init
  <2>4. QED BY <1>2, <2>2, <2>3 DEF QueueTypes
<1>4. TaskTypes BY IdleTaskTypes DEF Init, TaskTypes, IdleTask
<1>5. SatelliteTypes
  <2>1. <<>> \in Seq(States) OBVIOUS
  <2>2. relays \in [Satellites -> Seq(States)] BY <2>1 DEF Init
  <2>3. QED BY <2>2 DEF Init, SatelliteTypes
<1>6. sent = {} BY DEF Init
<1>7. \A p \in Satellites : DOMAIN queue[p] = {} BY <1>2
<1>8. Awaited BY <1>6, <1>7 DEF Awaited
<1>9. Single BY <1>6, <1>7 DEF Single
<1>10. QED BY <1>1, <1>3, <1>4, <1>5, <1>8, <1>9 DEF TypeInv

LEMMA TypeInvStep == TypeInv /\ [Next]_vars => TypeInv'
<1> SUFFICES ASSUME TypeInv, [Next]_vars PROVE TypeInv' OBVIOUS
<1>1. CASE CoreChanges \/ SnapshotReads \/ WatchDrops \/ WatchConnects \/ PrimaryReconfigures
  BY <1>1, PrimarySteps
<1>2. CASE PrimaryRestarts BY <1>2, PrimaryRestartsStep
<1>3. ASSUME NEW t \in TaskIds,
             \/ HandleEvent(t) \/ CoreAnswers(t) \/ CoreFailsToAnswer(t) \/ StateRead(t)
             \/ PushReturns(t) \/ PushTimesOut(t)
             \/ \E p \in Satellites : Initialize(p, t)
      PROVE  TypeInv'
  BY <1>3, HandleEventStep, CoreAnswersStep, CoreFailsToAnswerStep, StateReadStep,
     PushReturnsStep, PushTimesOutStep, InitializeStep
<1>4. ASSUME NEW m \in sent, RequestArrives(m) \/ RequestLost(m)
      PROVE  TypeInv'
  BY <1>4, RequestArrivesStep, RequestLostStep
<1>5. ASSUME NEW p \in Satellites,
             \/ Applies(p) \/ CommandRuns(p) \/ CommandReturns(p) \/ CommandFails(p)
             \/ Forwards(p) \/ SuppressionExpires(p) \/ SatelliteRestarts(p)
             \/ \E s \in States : UserPresses(p, s)
      PROVE  TypeInv'
  BY <1>5, AppliesStep, CommandRunsStep, CommandReturnsStep, CommandFailsStep, ForwardsStep,
     SuppressionExpiresStep, SatelliteRestartsStep, UserPressesStep
<1>6. CASE UNCHANGED vars
  <2>1. PrimaryTypes' BY <1>6 DEF vars, primaryVars, TypeInv, PrimaryTypes
  <2>2. QueueTypes' /\ SatelliteTypes' BY <1>6, SatellitesUnchanged DEF vars
  <2>3. TaskTypes' /\ Awaited' /\ Single' BY <1>6, TasksUnchanged DEF vars, satelliteVars
  <2>4. QED BY <2>1, <2>2, <2>3 DEF TypeInv
<1>7. QED BY <1>1, <1>2, <1>3, <1>4, <1>5, <1>6 DEF Next

\* The types hold in every reachable state, and with them that an answer never
\* finds its push gone: the task of a request under way waits for it.
THEOREM ActivityTypes == Spec => []TypeOK
<1>1. Spec => []TypeInv BY TypeInvInit, TypeInvStep, PTL DEF Spec
<1>2. QED BY <1>1, TypeInvImpliesTypeOK, PTL

-----------------------------------------------------------------------------
(* The updates a Satellite applies are ordered,                            *)
(* because the update in progress stays newer than the applied one.        *)

Current(p) == Head(queue[p]).update

\* The update in progress is newer than the one applied, and the activity shows
\* the one or the other.
Ordered(p) ==
    /\ phase[p] # "idle" => ~IsStale(p, Current(p))
    /\ phase[p] # "run" /\ applied[p] # None /\ ~touched[p] => actual[p] = applied[p].state
    /\ phase[p] = "run" /\ ~touched[p] => actual[p] = Current(p).state

OrderInv == \A p \in Satellites : Ordered(p)

LEMMA OrderInvInit == Init => OrderInv
BY DEF Init, OrderInv, Ordered

\* Steps that have nothing to do with p's updates.
LEMMA OrderKept ==
    ASSUME TypeInv, NEW p \in Satellites, Ordered(p),
           phase'[p] = phase[p], applied'[p] = applied[p], actual'[p] = actual[p],
           touched'[p] = touched[p], queue[p] # <<>> => Current(p)' = Current(p)
    PROVE  Ordered(p)'
<1>1. phase[p] # "idle" => Current(p)' = Current(p) BY DEF TypeInv, QueueTypes
<1>2. QED BY <1>1 DEF Ordered, IsStale

\* A press or a failure leaves a mark.
LEMMA OrderTouched ==
    ASSUME TypeInv, NEW p \in Satellites, Ordered(p),
           phase'[p] \in {phase[p], "idle"}, applied'[p] = applied[p], touched'[p] = TRUE,
           phase'[p] # "idle" => Current(p)' = Current(p)
    PROVE  Ordered(p)'
BY DEF Ordered, IsStale

\* Whom a request arrives at keeps the first of its requests.
LEMMA HeadKept ==
    ASSUME TypeInv, NEW m \in sent, RequestArrives(m), NEW p \in Satellites, queue[p] # <<>>
    PROVE  Current(p)' = Current(p)
<1>1. queue \in [Satellites -> Seq(Requests)] /\ m \in Requests /\ m.to \in Satellites
  BY DEF TypeInv, QueueTypes, TaskTypes, Requests
<1>2. queue' = [queue EXCEPT ![m.to] = Append(@, m)] BY DEF RequestArrives
<1>3. CASE p = m.to
  <2>1. queue'[p] = Append(queue[p], m) BY <1>1, <1>2, <1>3
  <2>2. /\ queue[p] \in Seq(Requests) /\ 1 \in 1..Len(queue[p])
        /\ Head(queue[p]) = queue[p][1]
    BY <1>1, HeadTailProperties
  <2>3. /\ queue'[p] \in Seq(Requests) /\ queue'[p] # <<>>
        /\ queue'[p][1] = queue[p][1]
    BY <1>1, <2>1, <2>2, AppendProperties
  <2>4. Head(queue'[p]) = queue'[p][1] BY <2>3, HeadTailProperties
  <2>5. QED BY <2>2, <2>3, <2>4 DEF Current
<1>4. CASE p # m.to BY <1>1, <1>2, <1>4 DEF Current
<1>5. QED BY <1>3, <1>4

\* Requests that lose their task keep their update.
LEMMA AbandonKept ==
    ASSUME TypeInv, NEW ts \in SUBSET TaskIds, Abandon(ts),
           \A i \in TaskIds \ ts : tasks'[i] = tasks[i],
           NEW p \in Satellites, queue[p] # <<>>
    PROVE  Current(p)' = Current(p)
<1>1. queue[p] \in Seq(Requests) BY DEF TypeInv, QueueTypes
<1>2. queue'[p] \in Seq(Requests) /\ queue'[p] # <<>> BY AbandonAwaited
<1>3. queue'[p] = [i \in DOMAIN queue[p] |-> Orphaned(ts, queue[p][i])] BY DEF Abandon
<1>4. 1 \in DOMAIN queue[p] /\ Head(queue[p]) = queue[p][1] /\ queue[p][1] \in Requests
  BY <1>1, HeadTailProperties
<1>5. Head(queue'[p]) = queue'[p][1] BY <1>2, HeadTailProperties
<1>6. queue'[p][1] = Orphaned(ts, queue[p][1]) BY <1>3, <1>4
<1>7. Orphaned(ts, queue[p][1]).update = queue[p][1].update BY <1>4 DEF Orphaned, Requests
<1>8. QED BY <1>4, <1>5, <1>6, <1>7 DEF Current

\* What an answer does to the Satellite that gives it.
LEMMA AnswerPhase ==
    ASSUME TypeInv, NEW p \in Satellites, NEW result, Answer(p, result)
    PROVE  /\ phase'[p] = "idle"
           /\ \A q \in Satellites \ {p} : phase'[q] = phase[q] /\ queue'[q] = queue[q]
BY DEF Answer, TypeInv, QueueTypes

-----------------------------------------------------------------------------
(* The actions of a Satellite.                                             *)

LEMMA AppliesOrder ==
    ASSUME TypeInv, OrderInv, NEW p \in Satellites, Applies(p), NEW q \in Satellites
    PROVE  Ordered(q)'
<1> DEFINE u == Current(p)
<1>1. /\ phase[p] = "idle" /\ queue[p] # <<>> /\ UNCHANGED actual
      /\ Ignores(p, u) \/ FindsApplied(p, u) \/ Commands(p, u)
  BY DEF Applies, Current
<1>2. Ordered(p) /\ Ordered(q) BY DEF OrderInv
<1> HIDE DEF u
<1>3. CASE Ignores(p, u)
  <2>1. Answer(p, "ok") /\ UNCHANGED <<applied, touched>> BY <1>3 DEF Ignores
  <2>2. CASE q = p BY <1>1, <1>2, <2>1, <2>2, AnswerPhase DEF Ordered
  <2>3. CASE q # p
    <3>1. phase'[q] = phase[q] /\ queue'[q] = queue[q] BY <2>1, <2>3, AnswerPhase
    <3>2. QED BY <1>1, <1>2, <2>1, <3>1, OrderKept DEF Current
  <2>4. QED BY <2>2, <2>3
<1>4. CASE FindsApplied(p, u)
  <2>1. /\ Answer(p, "ok") /\ actual[p] = u.state
        /\ applied' = [applied EXCEPT ![p] = u] /\ touched' = [touched EXCEPT ![p] = FALSE]
    BY <1>4 DEF FindsApplied, RecordVersion
  <2>2. CASE q = p
    <3>1. phase'[p] = "idle" /\ applied'[p] = u /\ actual'[p] = u.state
      BY <1>1, <2>1, AnswerPhase DEF TypeInv, SatelliteTypes
    <3>2. QED BY <2>2, <3>1 DEF Ordered
  <2>3. CASE q # p
    <3>1. phase'[q] = phase[q] /\ queue'[q] = queue[q] BY <2>1, <2>3, AnswerPhase
    <3>2. applied'[q] = applied[q] /\ touched'[q] = touched[q]
      BY <2>1, <2>3 DEF TypeInv, SatelliteTypes
    <3>3. QED BY <1>1, <1>2, <3>1, <3>2, OrderKept DEF Current
  <2>4. QED BY <2>2, <2>3
<1>5. CASE Commands(p, u)
  <2>1. /\ ~IsStale(p, u) /\ phase' = [phase EXCEPT ![p] = "command"]
        /\ UNCHANGED <<queue, applied, touched>>
    BY <1>5 DEF Commands
  <2>2. CASE q = p
    <3>1. phase'[p] = "command" /\ Current(p)' = u BY <2>1 DEF TypeInv, QueueTypes, Current, u
    <3>2. QED BY <1>1, <1>2, <2>1, <2>2, <3>1 DEF Ordered, IsStale
  <2>3. CASE q # p
    <3>1. phase'[q] = phase[q] BY <2>1, <2>3 DEF TypeInv, QueueTypes
    <3>2. QED BY <1>1, <1>2, <2>1, <3>1, OrderKept DEF Current
  <2>4. QED BY <2>2, <2>3
<1>6. QED BY <1>1, <1>3, <1>4, <1>5

LEMMA CommandRunsOrder ==
    ASSUME TypeInv, OrderInv, NEW p \in Satellites, CommandRuns(p), NEW q \in Satellites
    PROVE  Ordered(q)'
<1>1. /\ phase[p] = "command" /\ phase' = [phase EXCEPT ![p] = "run"]
      /\ actual' = [actual EXCEPT ![p] = Current(p).state]
      /\ touched' = [touched EXCEPT ![p] = FALSE]
      /\ UNCHANGED <<applied, queue>>
  BY DEF CommandRuns, Switches, Current
<1>2. Ordered(p) /\ Ordered(q) BY DEF OrderInv
<1>3. CASE q = p
  <2>1. phase'[p] = "run" /\ actual'[p] = Current(p).state /\ Current(p)' = Current(p)
    BY <1>1 DEF TypeInv, QueueTypes, SatelliteTypes, Current
  <2>2. QED BY <1>1, <1>2, <1>3, <2>1 DEF Ordered, IsStale
<1>4. CASE q # p
  <2>1. phase'[q] = phase[q] /\ actual'[q] = actual[q] /\ touched'[q] = touched[q]
    BY <1>1, <1>4 DEF TypeInv, QueueTypes, SatelliteTypes
  <2>2. QED BY <1>1, <1>2, <2>1, OrderKept DEF Current
<1>5. QED BY <1>3, <1>4

LEMMA CommandReturnsOrder ==
    ASSUME TypeInv, OrderInv, NEW p \in Satellites, CommandReturns(p), NEW q \in Satellites
    PROVE  Ordered(q)'
<1>1. /\ phase[p] = "run" /\ Answer(p, "ok") /\ applied' = [applied EXCEPT ![p] = Current(p)]
      /\ UNCHANGED <<actual, touched>>
  BY DEF CommandReturns, RecordVersion, Current
<1>2. Ordered(p) /\ Ordered(q) BY DEF OrderInv
<1>3. CASE q = p
  <2>1. phase'[p] = "idle" /\ applied'[p] = Current(p)
    BY <1>1, AnswerPhase DEF TypeInv, SatelliteTypes
  <2>2. QED BY <1>1, <1>2, <1>3, <2>1 DEF Ordered
<1>4. CASE q # p
  <2>1. phase'[q] = phase[q] /\ queue'[q] = queue[q] /\ applied'[q] = applied[q]
    BY <1>1, <1>4, AnswerPhase DEF TypeInv, SatelliteTypes
  <2>2. QED BY <1>1, <1>2, <2>1, OrderKept DEF Current
<1>5. QED BY <1>3, <1>4

LEMMA CommandFailsOrder ==
    ASSUME TypeInv, OrderInv, NEW p \in Satellites, CommandFails(p), NEW q \in Satellites
    PROVE  Ordered(q)'
<1>1. /\ Answer(p, "failed") /\ touched' = [touched EXCEPT ![p] = TRUE]
      /\ UNCHANGED <<actual, applied>>
  BY DEF CommandFails
<1>2. Ordered(p) /\ Ordered(q) BY DEF OrderInv
<1>3. CASE q = p
  <2>1. phase'[p] = "idle" /\ touched'[p] = TRUE
    BY <1>1, AnswerPhase DEF TypeInv, SatelliteTypes
  <2>2. QED BY <1>1, <1>2, <1>3, <2>1, OrderTouched
<1>4. CASE q # p
  <2>1. phase'[q] = phase[q] /\ queue'[q] = queue[q] /\ touched'[q] = touched[q]
    BY <1>1, <1>4, AnswerPhase DEF TypeInv, SatelliteTypes
  <2>2. QED BY <1>1, <1>2, <2>1, OrderKept DEF Current
<1>5. QED BY <1>3, <1>4

LEMMA UserPressesOrder ==
    ASSUME TypeInv, OrderInv, NEW p \in Satellites, NEW s \in States, UserPresses(p, s),
           NEW q \in Satellites
    PROVE  Ordered(q)'
<1>1. /\ actual' = [actual EXCEPT ![p] = s] /\ touched' = [touched EXCEPT ![p] = TRUE]
      /\ UNCHANGED <<applied, queue, phase>>
  BY DEF UserPresses, Switches
<1>2. Ordered(p) /\ Ordered(q) BY DEF OrderInv
<1>3. CASE q = p
  <2>1. touched'[p] = TRUE BY <1>1 DEF TypeInv, SatelliteTypes
  <2>2. QED BY <1>1, <1>2, <1>3, <2>1, OrderTouched DEF Current
<1>4. CASE q # p
  <2>1. actual'[q] = actual[q] /\ touched'[q] = touched[q]
    BY <1>1, <1>4 DEF TypeInv, SatelliteTypes
  <2>2. QED BY <1>1, <1>2, <2>1, OrderKept DEF Current
<1>5. QED BY <1>3, <1>4

LEMMA SatelliteRestartsOrder ==
    ASSUME TypeInv, OrderInv, NEW p \in Satellites, SatelliteRestarts(p), NEW q \in Satellites
    PROVE  Ordered(q)'
<1>1. /\ applied' = [applied EXCEPT ![p] = None] /\ queue' = [queue EXCEPT ![p] = <<>>]
      /\ phase' = [phase EXCEPT ![p] = "idle"] /\ UNCHANGED <<actual, touched>>
  BY DEF SatelliteRestarts
<1>2. Ordered(q) BY DEF OrderInv
<1>3. CASE q = p
  <2>1. phase'[p] = "idle" /\ applied'[p] = None
    BY <1>1 DEF TypeInv, QueueTypes, SatelliteTypes
  <2>2. QED BY <1>3, <2>1 DEF Ordered
<1>4. CASE q # p
  <2>1. phase'[q] = phase[q] /\ queue'[q] = queue[q] /\ applied'[q] = applied[q]
    BY <1>1, <1>4 DEF TypeInv, QueueTypes, SatelliteTypes
  <2>2. QED BY <1>1, <1>2, <2>1, OrderKept DEF Current
<1>5. QED BY <1>3, <1>4

-----------------------------------------------------------------------------
\* No other step concerns the updates of a Satellite.
LEMMA OtherStepsOrder ==
    ASSUME TypeInv, OrderInv, NEW q \in Satellites,
           UNCHANGED <<actual, applied, phase, touched>>,
           \/ UNCHANGED queue
           \/ \E m \in sent : RequestArrives(m)
           \/ \E ts \in SUBSET TaskIds : Abandon(ts) /\ \A i \in TaskIds \ ts : tasks'[i] = tasks[i]
    PROVE  Ordered(q)'
<1>1. queue[q] # <<>> => Current(q)' = Current(q)
  <2> SUFFICES ASSUME queue[q] # <<>> PROVE Current(q)' = Current(q) OBVIOUS
  <2>1. CASE UNCHANGED queue BY <2>1 DEF Current
  <2>2. CASE \E m \in sent : RequestArrives(m) BY <2>2, HeadKept
  <2>3. CASE \E ts \in SUBSET TaskIds : Abandon(ts) /\ \A i \in TaskIds \ ts : tasks'[i] = tasks[i]
    BY <2>3, AbandonKept
  <2>4. QED BY <2>1, <2>2, <2>3
<1>2. Ordered(q) BY DEF OrderInv
<1>3. QED BY <1>1, <1>2, OrderKept

\* The steps that do not: of the Primary, of the network, and relays.
Unrelated ==
    \/ CoreChanges \/ SnapshotReads \/ WatchDrops \/ WatchConnects
    \/ PrimaryReconfigures \/ PrimaryRestarts
    \/ \E t \in TaskIds :
         \/ HandleEvent(t) \/ CoreAnswers(t) \/ CoreFailsToAnswer(t) \/ StateRead(t)
         \/ PushReturns(t) \/ PushTimesOut(t)
         \/ \E p \in Satellites : Initialize(p, t)
    \/ \E m \in sent : RequestArrives(m) \/ RequestLost(m)
    \/ \E p \in Satellites : Forwards(p) \/ SuppressionExpires(p)

LEMMA UnrelatedSteps ==
    ASSUME TypeInv, Unrelated \/ UNCHANGED vars
    PROVE  /\ UNCHANGED <<actual, applied, phase, touched>>
           /\ \/ UNCHANGED queue
              \/ \E m \in sent : RequestArrives(m)
              \/ \E ts \in SUBSET TaskIds : Abandon(ts) /\ \A i \in TaskIds \ ts : tasks'[i] = tasks[i]
<1>1. CASE CoreChanges \/ SnapshotReads \/ WatchDrops \/ WatchConnects \/ PrimaryReconfigures \/ UNCHANGED vars
  BY <1>1 DEF CoreChanges, SnapshotReads, WatchDrops, WatchConnects, PrimaryReconfigures, vars, satelliteVars
<1>2. CASE PrimaryRestarts
  <2>1. Abandon(TaskIds) /\ UNCHANGED <<actual, applied, phase, touched>>
    BY <1>2 DEF PrimaryRestarts
  <2>2. QED BY <2>1
<1>3. ASSUME NEW t \in TaskIds,
             \/ HandleEvent(t) \/ CoreAnswers(t) \/ CoreFailsToAnswer(t) \/ StateRead(t)
             \/ PushReturns(t) \/ \E p \in Satellites : Initialize(p, t)
      PROVE  UNCHANGED <<actual, applied, phase, touched, queue>>
  BY <1>3 DEF HandleEvent, CoreAnswers, CoreFailsToAnswer, StateRead, PushReturns, Initialize, satelliteVars
<1>4. ASSUME NEW t \in TaskIds, PushTimesOut(t)
      PROVE  /\ UNCHANGED <<actual, applied, phase, touched>>
             /\ Abandon({t}) /\ \A i \in TaskIds \ {t} : tasks'[i] = tasks[i]
  <2>1. /\ UNCHANGED <<actual, applied, phase, touched>> /\ Abandon({t})
        /\ tasks' = [tasks EXCEPT ![t].stage = "failed"]
    BY <1>4 DEF PushTimesOut
  <2>2. QED BY <2>1 DEF TypeInv, TaskTypes
<1>5. ASSUME NEW m \in sent, RequestArrives(m) \/ RequestLost(m)
      PROVE  /\ UNCHANGED <<actual, applied, phase, touched>>
             /\ UNCHANGED queue \/ RequestArrives(m)
  BY <1>5 DEF RequestArrives, RequestLost, satelliteVars
<1>6. ASSUME NEW p \in Satellites, Forwards(p) \/ SuppressionExpires(p)
      PROVE  UNCHANGED <<actual, applied, phase, touched, queue>>
  BY <1>6 DEF Forwards, SuppressionExpires
<1>7. QED BY <1>1, <1>2, <1>3, <1>4, <1>5, <1>6 DEF Unrelated

LEMMA NextCases ==
    Next <=> \/ Unrelated
             \/ \E p \in Satellites :
                  \/ Applies(p) \/ CommandRuns(p) \/ CommandReturns(p) \/ CommandFails(p)
                  \/ SatelliteRestarts(p) \/ \E s \in States : UserPresses(p, s)
BY DEF Next, Unrelated

LEMMA OrderInvStep == TypeInv /\ OrderInv /\ [Next]_vars => OrderInv'
<1> SUFFICES ASSUME TypeInv, OrderInv, [Next]_vars, NEW q \in Satellites
             PROVE  Ordered(q)'
  BY DEF OrderInv
<1>1. CASE Unrelated \/ UNCHANGED vars BY <1>1, UnrelatedSteps, OtherStepsOrder
<1>2. ASSUME NEW p \in Satellites,
             \/ Applies(p) \/ CommandRuns(p) \/ CommandReturns(p) \/ CommandFails(p)
             \/ SatelliteRestarts(p) \/ \E s \in States : UserPresses(p, s)
      PROVE  Ordered(q)'
  BY <1>2, AppliesOrder, CommandRunsOrder, CommandReturnsOrder, CommandFailsOrder,
     SatelliteRestartsOrder, UserPressesOrder
<1>3. QED BY <1>1, <1>2, NextCases

LEMMA ActivityInvariants == Spec => [](TypeInv /\ OrderInv)
BY TypeInvInit, TypeInvStep, OrderInvInit, OrderInvStep, PTL DEF Spec

\* Between two updates a Satellite shows the newest update it applied, unless it
\* was touched since (#applyStateUpdate, in the turn of applyQueues).
THEOREM SatelliteShowsNewestApplied == Spec => []NewestApplied
<1>1. OrderInv => NewestApplied BY DEF OrderInv, Ordered, NewestApplied
<1>2. QED BY <1>1, ActivityInvariants, PTL

Advances(p) ==
    /\ applied[p] # None
    /\ applied'[p] # None
    /\ applied'[p] # applied[p]
    /\ applied'[p].epoch = applied[p].epoch
    => applied'[p].revision > applied[p].revision

\* Recording an update that is not stale advances the version.
LEMMA NotStaleAdvances ==
    ASSUME TypeInv, NEW p \in Satellites, NEW q \in Satellites, NEW u \in Updates,
           ~IsStale(p, u), applied' = [applied EXCEPT ![p] = u]
    PROVE  Advances(q)
<1>1. applied[p] \in Updates \cup {None} /\ applied'[p] = u BY DEF TypeInv, SatelliteTypes
<1>2. CASE q = p BY <1>1, <1>2 DEF Advances, IsStale, Updates
<1>3. CASE q # p BY <1>3 DEF Advances, TypeInv, SatelliteTypes
<1>4. QED BY <1>2, <1>3

LEMMA StepAdvances ==
    ASSUME TypeInv, OrderInv, [Next]_vars, NEW q \in Satellites
    PROVE  Advances(q)
<1>1. CASE UNCHANGED applied BY <1>1 DEF Advances
<1>2. ASSUME NEW p \in Satellites, Applies(p) PROVE Advances(q)
  <2>1. /\ queue[p] # <<>>
        /\ \/ Ignores(p, Current(p)) \/ FindsApplied(p, Current(p)) \/ Commands(p, Current(p))
    BY <1>2 DEF Applies, Current
  <2>2. CASE FindsApplied(p, Current(p))
    <3>1. Current(p) \in Updates BY <2>1, HeadTypes DEF Current
    <3>2. ~IsStale(p, Current(p)) /\ applied' = [applied EXCEPT ![p] = Current(p)]
      BY <2>2 DEF FindsApplied, RecordVersion
    <3>3. QED BY <3>1, <3>2, NotStaleAdvances
  <2>3. CASE Ignores(p, Current(p)) \/ Commands(p, Current(p))
    BY <1>1, <2>3 DEF Ignores, Commands
  <2>4. QED BY <2>1, <2>2, <2>3
<1>3. ASSUME NEW p \in Satellites, CommandReturns(p) PROVE Advances(q)
  <2>1. phase[p] = "run" /\ applied' = [applied EXCEPT ![p] = Current(p)]
    BY <1>3 DEF CommandReturns, RecordVersion, Current
  <2>2. queue[p] # <<>> BY <2>1 DEF TypeInv, QueueTypes
  <2>3. Current(p) \in Updates BY <2>2, HeadTypes DEF Current
  <2>4. ~IsStale(p, Current(p)) BY <2>1 DEF OrderInv, Ordered
  <2>5. QED BY <2>1, <2>3, <2>4, NotStaleAdvances
<1>4. ASSUME NEW p \in Satellites, SatelliteRestarts(p) PROVE Advances(q)
  <2>1. applied' = [applied EXCEPT ![p] = None] BY <1>4 DEF SatelliteRestarts
  <2>2. applied'[q] \in {applied[q], None} BY <2>1 DEF TypeInv, SatelliteTypes
  <2>3. QED BY <2>2 DEF Advances
<1>5. ASSUME NEW p \in Satellites,
             CommandRuns(p) \/ CommandFails(p) \/ \E s \in States : UserPresses(p, s)
      PROVE  UNCHANGED applied
  BY <1>5 DEF CommandRuns, CommandFails, UserPresses
<1>6. CASE Unrelated \/ UNCHANGED vars BY <1>1, <1>6, UnrelatedSteps
<1>7. QED BY <1>1, <1>2, <1>3, <1>4, <1>5, <1>6, NextCases

\* The revision a Satellite applied only grows within an epoch: the update in
\* progress was newer when it was checked and, nothing else being applied in
\* between, is newer still when it is recorded (#isStaleVersion, #recordVersion).
THEOREM AppliedVersionsAdvance == Spec => VersionsAdvance
<1>1. TypeInv /\ OrderInv /\ [Next]_vars => [\A p \in Satellites : Advances(p)]_vars
  BY StepAdvances
<1>2. Spec => [][\A p \in Satellites : Advances(p)]_vars
  BY <1>1, ActivityInvariants, PTL DEF Spec
<1>3. QED BY <1>2 DEF VersionsAdvance, Advances

-----------------------------------------------------------------------------
(* Updates follow the order of what they report.                           *)

\* The updates somebody has: under way, being applied, applied, or in a loop.
KnownUpdates ==
    {u \in Updates :
        \/ \E m \in sent : u = m.update
        \/ \E p \in Satellites : applied[p] # None /\ u = applied[p]
        \/ \E p \in Satellites : \E i \in DOMAIN queue[p] : u = queue[p][i].update
        \/ \E t \in TaskIds : tasks[t].stage \in {"waiting", "ok", "failed"} /\ u = tasks[t].update}

\* An update is older than what the Primary observes next.
Past(u) ==
    /\ u.epoch <= epoch
    /\ u.epoch = epoch => /\ u.revision <= revision
                          /\ \A i \in DOMAIN events : u.seen <= events[i].seen
    /\ u.seen <= changes

\* Events tell the states in their order.
Told ==
    \A i \in DOMAIN events :
        /\ events[i].state # None
        /\ events[i].seen <= changes
        /\ \A j \in DOMAIN events : i <= j => events[i].seen <= events[j].seen

InOrder(us) ==
    \A u, v \in us : u.epoch = v.epoch /\ u.revision <= v.revision => u.seen <= v.seen

\* Within an epoch, the updates with the higher revisions are from later changes.
Chronological ==
    /\ \A t \in TaskIds : tasks[t].stage \notin {"reading", "read"}
    /\ Told
    /\ \A u \in KnownUpdates : Past(u)
    /\ InOrder(KnownUpdates)

LEMMA KnownIntro ==
    ASSUME TypeInv
    PROVE  /\ KnownUpdates \subseteq Updates
           /\ \A m \in sent : m.update \in KnownUpdates
           /\ \A p \in Satellites : applied[p] # None => applied[p] \in KnownUpdates
           /\ \A p \in Satellites : \A i \in DOMAIN queue[p] : queue[p][i].update \in KnownUpdates
           /\ \A p \in Satellites : queue[p] # <<>> => Current(p) \in KnownUpdates
           /\ \A t \in TaskIds : tasks[t].stage \in {"waiting", "ok", "failed"} =>
                  tasks[t].update \in KnownUpdates
<1>1. KnownUpdates \subseteq Updates
  BY DEF KnownUpdates
<1>2. \A m \in sent : m.update \in KnownUpdates
  BY DEF KnownUpdates, TypeInv, TaskTypes, Requests
<1>3. \A p \in Satellites : applied[p] # None => applied[p] \in KnownUpdates
  BY DEF KnownUpdates, TypeInv, SatelliteTypes
<1>4. \A p \in Satellites : \A i \in DOMAIN queue[p] : queue[p][i].update \in KnownUpdates
  <2> SUFFICES ASSUME NEW p \in Satellites, NEW i \in DOMAIN queue[p]
               PROVE  queue[p][i].update \in KnownUpdates
    OBVIOUS
  <2>1. queue[p][i] \in Requests BY DEF TypeInv, QueueTypes
  <2>2. queue[p][i].update \in Updates BY <2>1 DEF Requests
  <2>3. QED BY <2>2 DEF KnownUpdates
<1>5. \A p \in Satellites : queue[p] # <<>> => Current(p) \in KnownUpdates
  <2> SUFFICES ASSUME NEW p \in Satellites, queue[p] # <<>> PROVE Current(p) \in KnownUpdates
    OBVIOUS
  <2>1. queue[p] \in Seq(Requests) BY DEF TypeInv, QueueTypes
  <2>2. 1 \in DOMAIN queue[p] /\ Head(queue[p]) = queue[p][1] BY <2>1, HeadTailProperties
  <2>3. QED BY <1>4, <2>2 DEF Current
<1>6. \A t \in TaskIds : tasks[t].stage \in {"waiting", "ok", "failed"} => tasks[t].update \in KnownUpdates
  BY DEF KnownUpdates, TypeInv, TaskTypes
<1>7. QED BY <1>1, <1>2, <1>3, <1>4, <1>5, <1>6

\* A step that makes no update and goes on with the events, or adds one.
LEMMA NothingNew ==
    ASSUME TypeInv, TypeInv', Chronological,
           \A t \in TaskIds : tasks'[t].stage \notin {"reading", "read"},
           KnownUpdates' \subseteq KnownUpdates,
           UNCHANGED <<epoch, revision>>, changes' >= changes, Told',
           \A i \in DOMAIN events' : (\E j \in DOMAIN events : events'[i] = events[j])
                                     \/ events'[i].seen = changes'
    PROVE  Chronological'
<1>1. /\ epoch \in Nat /\ revision \in Nat /\ changes \in Nat /\ changes' \in Nat
      /\ KnownUpdates \subseteq Updates
  BY DEF TypeInv, PrimaryTypes, KnownUpdates
<1>2. ASSUME NEW u \in KnownUpdates' PROVE Past(u)'
  <2>1. Past(u) /\ u \in Updates BY <1>1 DEF Chronological
  <2>2. u.seen \in Nat BY <2>1 DEF Updates
  <2>3. u.seen <= changes' BY <1>1, <2>1, <2>2 DEF Past
  <2>4. u.epoch = epoch => \A i \in DOMAIN events' : u.seen <= events'[i].seen
    BY <2>1, <2>2, <2>3 DEF Past
  <2>5. QED BY <2>1, <2>3, <2>4 DEF Past
<1>3. InOrder(KnownUpdates)' BY DEF Chronological, InOrder
<1>4. QED BY <1>2, <1>3 DEF Chronological

\* Steps that move requests and answers, and change no event.
LEMMA NothingMade ==
    ASSUME TypeInv, TypeInv', Chronological,
           \A t \in TaskIds : tasks'[t].stage \notin {"reading", "read"},
           KnownUpdates' \subseteq KnownUpdates,
           UNCHANGED <<epoch, revision, changes, events>>
    PROVE  Chronological'
<1>1. Told' BY DEF Chronological, Told
<1>2. changes \in Nat BY DEF TypeInv, PrimaryTypes
<1>3. QED BY <1>1, <1>2, NothingNew
\* Steps that leave the updates where they are.
LEMMA SameKnown ==
    ASSUME UNCHANGED <<tasks, sent, applied, queue>>
    PROVE  KnownUpdates' = KnownUpdates
BY DEF KnownUpdates

LEMMA EventTypes ==
    ASSUME TypeInv
    PROVE  /\ events \in Seq([state : States \cup {None}, seen : Nat])
           /\ DOMAIN events = 1..Len(events) /\ Len(events) \in Nat
           /\ \A i \in DOMAIN events : events[i].seen \in Nat
<1>1. events \in Seq([state : States \cup {None}, seen : Nat]) BY DEF TypeInv, PrimaryTypes
<1> DEFINE E == [state : States \cup {None}, seen : Nat]
<1>2. \A i \in DOMAIN events : events[i] \in E
  <2>1. events \in Seq(E) BY <1>1
  <2> HIDE DEF E
  <2>2. QED BY <2>1, ElementOfSeq
<1>3. \A i \in DOMAIN events : events[i].seen \in Nat BY <1>2
<1>4. QED BY <1>1, <1>3

LEMMA CoreBecomesTold ==
    ASSUME TypeInv, Told, ~Stateless, NEW s \in States, CoreBecomes(s)
    PROVE  /\ Told' /\ UNCHANGED <<epoch, revision>> /\ changes' >= changes
           /\ \A i \in DOMAIN events' : (\E j \in DOMAIN events : events'[i] = events[j])
                                        \/ events'[i].seen = changes'
<1>1. UNCHANGED <<epoch, revision>> BY DEF CoreBecomes
<1>2. /\ changes \in Nat /\ events \in Seq([state : States \cup {None}, seen : Nat])
      /\ \A i \in DOMAIN events : events[i].seen \in Nat
  BY EventTypes DEF TypeInv, PrimaryTypes
<1>3. changes' \in {changes, changes + 1} BY DEF CoreBecomes
<1>4. CASE UNCHANGED events
  <2>1. Told' BY <1>2, <1>3, <1>4 DEF Told
  <2>2. QED BY <1>1, <1>2, <1>3, <1>4, <2>1
<1>5. CASE events' # events
  <2>1. PICK e : /\ e = [state |-> s, seen |-> changes'] /\ events' = Append(events, e)
                 /\ changes' = changes + 1
    BY <1>5 DEF CoreBecomes
  <2>2. e.state # None /\ e.seen = changes' /\ e \in [state : States \cup {None}, seen : Nat]
    BY <1>2, <2>1, ConstantsAssumption
  <2>3. /\ DOMAIN events = 1..Len(events) /\ Len(events) \in Nat
        /\ DOMAIN events' = 1..(Len(events) + 1)
        /\ \A i \in 1..Len(events) : events'[i] = events[i]
        /\ events'[Len(events) + 1] = e
    BY <1>2, <2>1, <2>2, AppendProperties
  <2>4. ASSUME NEW i \in DOMAIN events', NEW j \in DOMAIN events', i <= j
        PROVE  events'[i].seen <= events'[j].seen
    <3>1. CASE j \in 1..Len(events) BY <2>3, <2>4, <3>1 DEF Told
    <3>2. CASE j = Len(events) + 1
      <4>1. i \in 1..Len(events) => events'[i].seen <= changes BY <2>3 DEF Told
      <4>2. i \in 1..Len(events) => events'[i].seen \in Nat BY <1>2, <2>3
      <4>3. QED BY <1>2, <2>1, <2>2, <2>3, <3>2, <4>1, <4>2
    <3>3. QED BY <2>3, <3>1, <3>2
  <2>5. \A i \in DOMAIN events' : events'[i].state # None /\ events'[i].seen <= changes'
    <3>1. \A i \in 1..Len(events) : events'[i].state # None /\ events'[i].seen <= changes
      BY <2>3 DEF Told
    <3>2. \A i \in 1..Len(events) : events'[i].seen \in Nat BY <1>2, <2>3
    <3>3. QED BY <1>2, <2>1, <2>2, <2>3, <3>1, <3>2
  <2>6. Told' BY <2>4, <2>5 DEF Told
  <2>7. QED BY <1>1, <1>2, <2>1, <2>2, <2>3, <2>6
<1>6. QED BY <1>4, <1>5

LEMMA CoreBecomesChronological ==
    ASSUME TypeInv, TypeInv', Chronological, ~Stateless, NEW s \in States, CoreBecomes(s),
           UNCHANGED <<tasks, sent, applied, queue>>
    PROVE  Chronological'
<1>1. Told BY DEF Chronological
<1>2. \A t \in TaskIds : tasks'[t].stage \notin {"reading", "read"} BY DEF Chronological
<1>3. QED BY <1>1, <1>2, SameKnown, CoreBecomesTold, NothingNew

\* A task with update u goes on with its loop.
LEMMA AdvanceKnown ==
    ASSUME TypeInv, TypeInv', Chronological, NEW t \in TaskIds, NEW u \in Updates, NEW peers,
           Advance(t, u, peers), UNCHANGED <<applied, queue>>
    PROVE  /\ KnownUpdates' \subseteq KnownUpdates \cup {u}
           /\ \A i \in TaskIds : tasks'[i].stage \notin {"reading", "read"}
<1>1. PICK task, request :
        /\ tasks' = [tasks EXCEPT ![t] = task]
        /\ task.stage = "idle" \/ (task.stage = "waiting" /\ task.update = u)
        /\ request.update = u /\ (sent' = sent \/ sent' = sent \cup {request})
  <2>1. PICK k \in 0..Len(peers) :
          IF k = Len(peers)
          THEN tasks' = [tasks EXCEPT ![t] = IdleTask] /\ sent' = sent
          ELSE /\ tasks' = [tasks EXCEPT ![t] =
                       [stage |-> "waiting", update |-> u, rest |-> SubSeq(peers, k + 1, Len(peers))]]
               /\ sent' = sent \cup {[to |-> peers[k + 1], update |-> u, task |-> t]}
    BY DEF Advance
  <2> DEFINE busy == [stage |-> "waiting", update |-> u, rest |-> SubSeq(peers, k + 1, Len(peers))]
             push == [to |-> peers[k + 1], update |-> u, task |-> t]
  <2>2. /\ IdleTask.stage = "idle" /\ busy.stage = "waiting" /\ busy.update = u /\ push.update = u
    BY DEF IdleTask
  <2>3. \/ tasks' = [tasks EXCEPT ![t] = IdleTask] /\ sent' = sent
        \/ tasks' = [tasks EXCEPT ![t] = busy] /\ sent' = sent \cup {push}
    BY <2>1
  <2> HIDE DEF busy, push
  <2>4. QED BY <2>2, <2>3
<1>2. tasks'[t] = task /\ \A i \in TaskIds \ {t} : tasks'[i] = tasks[i]
  BY <1>1 DEF TypeInv, TaskTypes
<1>3. \A m \in sent' : m \in sent \/ m.update = u BY <1>1
<1>4. \A i \in TaskIds : tasks'[i].stage \notin {"reading", "read"}
  BY <1>1, <1>2 DEF Chronological
<1>5. ASSUME NEW v \in KnownUpdates' PROVE v \in KnownUpdates \cup {u}
  <2>1. v \in Updates BY DEF KnownUpdates
  <2>2. CASE \E m \in sent' : v = m.update BY <1>3, <2>1, <2>2 DEF KnownUpdates
  <2>3. CASE \E p \in Satellites : applied'[p] # None /\ v = applied'[p] BY <2>1, <2>3 DEF KnownUpdates
  <2>4. CASE \E p \in Satellites : \E i \in DOMAIN queue'[p] : v = queue'[p][i].update
    BY <2>1, <2>4 DEF KnownUpdates
  <2>5. CASE \E i \in TaskIds : tasks'[i].stage \in {"waiting", "ok", "failed"} /\ v = tasks'[i].update
    BY <1>1, <1>2, <2>1, <2>5 DEF KnownUpdates
  <2>6. QED BY <2>2, <2>3, <2>4, <2>5 DEF KnownUpdates
<1>6. QED BY <1>4, <1>5

\* An update made from an event is newer than all that are known.
LEMMA ObserveChronological ==
    ASSUME TypeInv, TypeInv', Chronological, NEW t \in TaskIds, HandleEvent(t)
    PROVE  Chronological'
<1> DEFINE e == Head(events)
<1>1. /\ events \in Seq([state : States \cup {None}, seen : Nat]) /\ events # <<>>
      /\ events' = Tail(events)
      /\ UNCHANGED <<changes, epoch, queue, applied>>
      /\ IF e.state # None THEN Observe(t, e.state, e.seen) ELSE TRUE
  BY DEF HandleEvent, satelliteVars, TypeInv, PrimaryTypes
<1>2. /\ e \in [state : States \cup {None}, seen : Nat] /\ e = events[1]
      /\ DOMAIN events = 1..Len(events) /\ Len(events) \in Nat /\ 1 \in DOMAIN events
      /\ DOMAIN events' = 1..(Len(events) - 1)
      /\ \A i \in 1..(Len(events) - 1) : events'[i] = events[i + 1] /\ i + 1 \in DOMAIN events
  <2>1. /\ e \in [state : States \cup {None}, seen : Nat] /\ e = events[1]
        /\ Tail(events) \in Seq([state : States \cup {None}, seen : Nat])
        /\ Len(Tail(events)) = Len(events) - 1
        /\ \A i \in 1..Len(Tail(events)) : Tail(events)[i] = events[i + 1]
    <3> DEFINE E == [state : States \cup {None}, seen : Nat]
    <3>1. events \in Seq(E) BY <1>1
    <3> HIDE DEF E
    <3>2. /\ Head(events) \in E /\ Head(events) = events[1]
          /\ Tail(events) \in Seq(E) /\ Len(Tail(events)) = Len(events) - 1
          /\ \A i \in 1..Len(Tail(events)) : Tail(events)[i] = events[i + 1]
      BY <1>1, <3>1, HeadTailProperties
    <3>3. QED BY <3>2 DEF E
  <2>2. DOMAIN events = 1..Len(events) /\ Len(events) \in Nat /\ Len(events) # 0
    BY <1>1, EmptySeq
  <2>3. DOMAIN events' = 1..(Len(events) - 1) BY <1>1, <2>1
  <2>4. QED BY <1>1, <2>1, <2>2, <2>3
<1>3. e.state # None /\ e.seen <= changes /\ \A j \in DOMAIN events : e.seen <= events[j].seen
  BY <1>2 DEF Chronological, Told
<1>4. e.state \in States /\ e.seen \in Nat BY <1>2, <1>3
<1>5. Told'
  <2>1. \A i \in DOMAIN events' : events'[i].state # None /\ events'[i].seen <= changes'
    BY <1>1, <1>2 DEF Chronological, Told
  <2>2. ASSUME NEW i \in DOMAIN events', NEW j \in DOMAIN events', i <= j
        PROVE  events'[i].seen <= events'[j].seen
    <3>1. i + 1 \in DOMAIN events /\ j + 1 \in DOMAIN events /\ i + 1 <= j + 1 BY <1>2, <2>2
    <3>2. events[i + 1].seen <= events[j + 1].seen BY <3>1 DEF Chronological, Told
    <3>3. QED BY <1>2, <3>2
  <2>3. QED BY <2>1, <2>2 DEF Told
<1>6. Observe(t, e.state, e.seen) BY <1>1, <1>3
<1> HIDE DEF e
<1>7. CASE e.state = observed
  <2>1. tasks' = [tasks EXCEPT ![t] = IdleTask] /\ UNCHANGED <<revision, sent>>
    BY <1>6, <1>7 DEF Observe
  <2>2. tasks'[t].stage = "idle" /\ \A i \in TaskIds \ {t} : tasks'[i] = tasks[i]
    BY <2>1 DEF IdleTask, TypeInv, TaskTypes
  <2>3. KnownUpdates' \subseteq KnownUpdates BY <1>1, <2>1, <2>2 DEF KnownUpdates
  <2>4. \A i \in TaskIds : tasks'[i].stage \notin {"reading", "read"} BY <2>2 DEF Chronological
  <2>5. \A i \in DOMAIN events' : \E j \in DOMAIN events : events'[i] = events[j] BY <1>2
  <2>6. changes' >= changes BY <1>1 DEF TypeInv, PrimaryTypes
  <2>7. QED BY <1>1, <1>5, <2>1, <2>3, <2>4, <2>5, <2>6, NothingNew
<1>8. CASE e.state # observed
  <2>1. PICK u : u = Stamp(e.state, e.seen) OBVIOUS
  <2>2. revision' = revision + 1 /\ Advance(t, u, Order)
    BY <1>6, <1>8, <2>1 DEF Observe
  <2>3. u \in Updates BY <1>4, <2>1, StampTypes
  <2>4. u.epoch = epoch /\ u.revision = revision + 1 /\ u.seen = e.seen BY <2>1 DEF Stamp
  <2>5. /\ KnownUpdates' \subseteq KnownUpdates \cup {u}
        /\ \A i \in TaskIds : tasks'[i].stage \notin {"reading", "read"}
    BY <1>1, <2>2, <2>3, AdvanceKnown
  <2>6. /\ revision \in Nat /\ epoch \in Nat /\ changes \in Nat
        /\ \A i \in DOMAIN events : events[i].seen \in Nat
    BY EventTypes DEF TypeInv, PrimaryTypes
  <2>7. ASSUME NEW v \in KnownUpdates
        PROVE  /\ v.epoch \in Nat /\ v.revision \in Nat /\ v.seen \in Nat
               /\ v.epoch = epoch => v.revision <= revision /\ v.seen <= e.seen
               /\ v.epoch <= epoch /\ v.seen <= changes
               /\ v.epoch = epoch => \A i \in DOMAIN events' : v.seen <= events'[i].seen
    <3>1. Past(v) BY DEF Chronological
    <3>2. v \in Updates BY DEF KnownUpdates
    <3>3. QED BY <1>2, <3>1, <3>2 DEF Past, Updates
  <2>8. ASSUME NEW v \in KnownUpdates' PROVE Past(v)'
    <3>1. CASE v \in KnownUpdates
      <4>1. v.epoch = epoch => v.revision <= revision + 1 BY <2>6, <2>7, <3>1
      <4>2. QED BY <1>1, <2>2, <2>7, <3>1, <4>1 DEF Past
    <3>2. CASE v = u
      <4>1. \A i \in DOMAIN events' : u.seen <= events'[i].seen BY <1>2, <1>3, <2>4
      <4>2. QED BY <1>1, <1>3, <2>2, <2>4, <2>6, <3>2, <4>1 DEF Past
    <3>3. QED BY <2>5, <3>1, <3>2
  <2>9. ASSUME NEW v \in KnownUpdates', NEW w \in KnownUpdates',
               v.epoch = w.epoch, v.revision <= w.revision
        PROVE  v.seen <= w.seen
    <3>1. CASE v \in KnownUpdates /\ w \in KnownUpdates
      BY <2>9, <3>1 DEF Chronological, InOrder
    <3>2. CASE v \in KnownUpdates /\ w = u BY <2>4, <2>7, <2>9, <3>2
    <3>3. CASE v = u /\ w \in KnownUpdates BY <2>4, <2>6, <2>7, <2>9, <3>3
    <3>4. CASE v = u /\ w = u BY <1>4, <2>4, <3>4
    <3>5. QED BY <2>5, <3>1, <3>2, <3>3, <3>4
  <2>10. InOrder(KnownUpdates)' BY <2>9 DEF InOrder
  <2>11. QED BY <1>5, <2>5, <2>8, <2>10 DEF Chronological
<1>9. QED BY <1>7, <1>8
\* The requests of a queue were there before, or were under way.
LEMMA ArrivesQueues ==
    ASSUME TypeInv, NEW m \in sent, RequestArrives(m)
    PROVE  /\ m \in Requests /\ sent' = sent \ {m}
           /\ \A p \in Satellites : \A i \in DOMAIN queue'[p] :
                \/ p = m.to /\ queue'[p][i] = m
                \/ \E j \in DOMAIN queue[p] : queue'[p][i] = queue[p][j]
<1>1. /\ m \in Requests /\ m.to \in Satellites /\ queue \in [Satellites -> Seq(Requests)]
      /\ sent' = sent \ {m} /\ queue' = [queue EXCEPT ![m.to] = Append(queue[m.to], m)]
  BY DEF TypeInv, TaskTypes, QueueTypes, Requests, RequestArrives
<1>2. ASSUME NEW p \in Satellites, NEW i \in DOMAIN queue'[p]
      PROVE  \/ p = m.to /\ queue'[p][i] = m
             \/ \E j \in DOMAIN queue[p] : queue'[p][i] = queue[p][j]
  <2>1. CASE p = m.to
    <3>1. queue'[p] = Append(queue[p], m) /\ queue[p] \in Seq(Requests) BY <1>1, <2>1
    <3>2. /\ Len(queue'[p]) = Len(queue[p]) + 1 /\ queue'[p][Len(queue[p]) + 1] = m
          /\ \A j \in 1..Len(queue[p]) : queue'[p][j] = queue[p][j]
          /\ DOMAIN queue'[p] = 1..Len(queue'[p])
      BY <1>1, <3>1, AppendProperties
    <3>3. DOMAIN queue[p] = 1..Len(queue[p]) /\ Len(queue[p]) \in Nat BY <3>1
    <3>4. i \in 1..Len(queue[p]) \/ i = Len(queue[p]) + 1 BY <1>2, <3>2, <3>3
    <3>5. QED BY <2>1, <3>2, <3>3, <3>4
  <2>2. CASE p # m.to
    <3>1. queue'[p] = queue[p] BY <1>1, <2>2
    <3>2. QED BY <3>1
  <2>3. QED BY <2>1, <2>2
<1>3. QED BY <1>1, <1>2

LEMMA ArrivesKnown ==
    ASSUME TypeInv, NEW m \in sent, RequestArrives(m)
    PROVE  KnownUpdates' \subseteq KnownUpdates
<1>1. UNCHANGED <<tasks, applied>> BY DEF RequestArrives
<1>2. \A v \in KnownUpdates' : v \in KnownUpdates BY <1>1, ArrivesQueues DEF KnownUpdates
<1>3. QED BY <1>2

\* A Satellite answers the first of its requests.
LEMMA AnswerShrinks ==
    ASSUME TypeInv, NEW p \in Satellites, NEW result, queue[p] # <<>>, Answer(p, result)
    PROVE  /\ \A q \in Satellites : \A i \in DOMAIN queue'[q] :
                \E j \in DOMAIN queue[q] : queue'[q][i] = queue[q][j]
           /\ \A i \in TaskIds :
                \/ tasks'[i] = tasks[i] /\ i # Head(queue[p]).task
                \/ /\ i = Head(queue[p]).task /\ tasks[i].stage = "waiting"
                   /\ tasks'[i].stage = result
                   /\ tasks'[i].update = tasks[i].update /\ tasks'[i].rest = tasks[i].rest
<1>1. queue \in [Satellites -> Seq(Requests)] /\ queue[p] \in Seq(Requests)
  BY DEF TypeInv, QueueTypes
<1>2. /\ queue' = [queue EXCEPT ![p] = Tail(@)]
      /\ tasks' = IF Head(queue[p]).task = 0 THEN tasks
                  ELSE [tasks EXCEPT ![Head(queue[p]).task].stage = result]
  BY DEF Answer
<1>3. ASSUME NEW q \in Satellites, NEW i \in DOMAIN queue'[q]
      PROVE  \E j \in DOMAIN queue[q] : queue'[q][i] = queue[q][j]
  <2>1. CASE q = p
    <3>1. queue'[q] = Tail(queue[p]) BY <1>1, <1>2, <2>1
    <3>2. /\ Tail(queue[p]) \in Seq(Requests) /\ Len(Tail(queue[p])) = Len(queue[p]) - 1
          /\ \A j \in 1..Len(Tail(queue[p])) : Tail(queue[p])[j] = queue[p][j + 1]
      BY <1>1, HeadTailProperties
    <3>3. /\ DOMAIN queue[p] = 1..Len(queue[p]) /\ Len(queue[p]) \in Nat
          /\ DOMAIN Tail(queue[p]) = 1..Len(Tail(queue[p]))
      BY <1>1, <3>2
    <3>4. i \in Nat /\ i + 1 \in DOMAIN queue[q] /\ queue'[q][i] = queue[q][i + 1]
      BY <1>3, <2>1, <3>1, <3>2, <3>3
    <3>5. QED BY <3>4
  <2>2. CASE q # p
    <3>1. queue'[q] = queue[q] BY <1>1, <1>2, <2>2
    <3>2. QED BY <3>1
  <2>3. QED BY <2>1, <2>2
<1>4. ASSUME NEW i \in TaskIds
      PROVE  \/ tasks'[i] = tasks[i] /\ i # Head(queue[p]).task
             \/ /\ i = Head(queue[p]).task /\ tasks[i].stage = "waiting"
                /\ tasks'[i].stage = result
                /\ tasks'[i].update = tasks[i].update /\ tasks'[i].rest = tasks[i].rest
  <2>1. CASE Head(queue[p]).task = i
    <3>1. tasks[i] \in Tasks /\ i # 0 BY DEF TypeInv, TaskTypes, TaskIds
    <3>2. tasks' = [tasks EXCEPT ![i].stage = result] BY <1>2, <2>1, <3>1
    <3>3. /\ tasks'[i].stage = result /\ tasks'[i].update = tasks[i].update
          /\ tasks'[i].rest = tasks[i].rest
      BY <3>1, <3>2 DEF TypeInv, TaskTypes, Tasks
    <3>4. Head(queue[p]) = queue[p][1] /\ 1 \in DOMAIN queue[p] BY <1>1, HeadTailProperties
    <3>5. tasks[i].stage = "waiting" BY <2>1, <3>1, <3>4 DEF TypeInv, Awaited
    <3>6. QED BY <2>1, <3>3, <3>5
  <2>2. CASE Head(queue[p]).task # i BY <1>2, <2>2 DEF TypeInv, TaskTypes
  <2>3. QED BY <2>1, <2>2
<1>5. QED BY <1>3, <1>4

LEMMA AnswerKnown ==
    ASSUME TypeInv, Chronological, NEW p \in Satellites, NEW result, queue[p] # <<>>,
           Answer(p, result), result \in {"ok", "failed"}, UNCHANGED sent,
           applied' = applied \/ applied' = [applied EXCEPT ![p] = Current(p)]
    PROVE  /\ KnownUpdates' \subseteq KnownUpdates
           /\ \A i \in TaskIds : tasks'[i].stage \notin {"reading", "read"}
<1>1. \A q \in Satellites : \A i \in DOMAIN queue'[q] :
          \E j \in DOMAIN queue[q] : queue'[q][i] = queue[q][j]
  BY AnswerShrinks
<1>2. \A i \in TaskIds :
          \/ tasks'[i] = tasks[i]
          \/ /\ tasks'[i].stage = result /\ tasks'[i].update = tasks[i].update
             /\ tasks[i].stage = "waiting"
  BY AnswerShrinks
<1>3. \A q \in Satellites : applied'[q] = applied[q] \/ applied'[q] = Current(p)
  BY DEF TypeInv, SatelliteTypes
<1>4. Current(p) \in KnownUpdates BY KnownIntro
<1>5. ASSUME NEW v \in KnownUpdates' PROVE v \in KnownUpdates
  <2>1. v \in Updates BY DEF KnownUpdates
  <2>2. CASE \E m \in sent' : v = m.update BY <2>1, <2>2 DEF KnownUpdates
  <2>3. CASE \E q \in Satellites : applied'[q] # None /\ v = applied'[q]
    <3>1. PICK q \in Satellites : applied'[q] # None /\ v = applied'[q] BY <2>3
    <3>2. CASE applied'[q] = applied[q] BY <2>1, <3>1, <3>2 DEF KnownUpdates
    <3>3. CASE applied'[q] = Current(p) BY <1>4, <3>1, <3>3
    <3>4. QED BY <1>3, <3>2, <3>3
  <2>4. CASE \E q \in Satellites : \E i \in DOMAIN queue'[q] : v = queue'[q][i].update
    BY <1>1, <2>1, <2>4 DEF KnownUpdates
  <2>5. CASE \E i \in TaskIds : tasks'[i].stage \in {"waiting", "ok", "failed"} /\ v = tasks'[i].update
    <3>1. PICK i \in TaskIds : tasks'[i].stage \in {"waiting", "ok", "failed"} /\ v = tasks'[i].update
      BY <2>5
    <3>2. tasks[i].stage \in {"waiting", "ok", "failed"} /\ v = tasks[i].update BY <1>2, <3>1
    <3>3. QED BY <2>1, <3>2 DEF KnownUpdates
  <2>6. QED BY <2>2, <2>3, <2>4, <2>5 DEF KnownUpdates
<1>6. \A i \in TaskIds : tasks'[i].stage \notin {"reading", "read"} BY <1>2 DEF Chronological
<1>7. QED BY <1>5, <1>6

\* Requests lose the tasks that waited for them; these give up.
LEMMA AbandonKnown ==
    ASSUME TypeInv, TypeInv', NEW ts \in SUBSET TaskIds, Abandon(ts), UNCHANGED applied,
           \A i \in TaskIds : tasks'[i].stage = "idle" \/ tasks'[i] = tasks[i]
                              \/ (tasks[i].stage = "waiting" /\ tasks'[i].update = tasks[i].update)
    PROVE  KnownUpdates' \subseteq KnownUpdates
<1>1. queue \in [Satellites -> Seq(Requests)] /\ sent \subseteq Requests
  BY DEF TypeInv, QueueTypes, TaskTypes
<1>2. \A m \in Requests : Orphaned(ts, m).update = m.update BY DEF Orphaned, Requests
<1>3. \A m \in sent' : \E n \in sent : m.update = n.update BY <1>1, <1>2 DEF Abandon
<1>4. \A p \in Satellites : \A i \in DOMAIN queue[p] : queue[p][i] \in Requests BY <1>1
<1>5. \A p \in Satellites : \A i \in DOMAIN queue'[p] :
        i \in DOMAIN queue[p] /\ queue'[p][i].update = queue[p][i].update
  BY <1>2, <1>4 DEF Abandon
<1>6. ASSUME NEW v \in KnownUpdates' PROVE v \in KnownUpdates
  <2>1. v \in Updates BY DEF KnownUpdates
  <2>2. CASE \E m \in sent' : v = m.update BY <1>3, <2>1, <2>2 DEF KnownUpdates
  <2>3. CASE \E q \in Satellites : applied'[q] # None /\ v = applied'[q] BY <2>1, <2>3 DEF KnownUpdates
  <2>4. CASE \E q \in Satellites : \E i \in DOMAIN queue'[q] : v = queue'[q][i].update
    BY <1>5, <2>1, <2>4 DEF KnownUpdates
  <2>5. CASE \E i \in TaskIds : tasks'[i].stage \in {"waiting", "ok", "failed"} /\ v = tasks'[i].update
    BY <2>1, <2>5 DEF KnownUpdates
  <2>6. QED BY <2>2, <2>3, <2>4, <2>5 DEF KnownUpdates
<1>7. QED BY <1>6
-----------------------------------------------------------------------------
(* The steps.                                                              *)

\* Nobody configures the service anew, which restarts the revisions within an
\* epoch, nor pushes the state that a snapshot recorded.
Orderly == ~PrimaryReconfigures /\ ~\E t \in TaskIds, p \in Satellites : Initialize(p, t)

LEMMA PrimaryChronological ==
    ASSUME TypeInv, TypeInv', Chronological, ~Stateless,
           \/ CoreChanges \/ SnapshotReads \/ WatchDrops \/ WatchConnects \/ PrimaryRestarts
    PROVE  Chronological'
<1>1. CASE CoreChanges
  <2>1. PICK s \in States : CoreBecomes(s) BY <1>1 DEF CoreChanges
  <2>2. UNCHANGED <<tasks, sent, applied, queue>> BY <1>1 DEF CoreChanges, satelliteVars
  <2>3. QED BY <2>1, <2>2, CoreBecomesChronological
<1>2. CASE SnapshotReads \/ WatchConnects
  <2>1. /\ UNCHANGED <<tasks, sent, applied, queue>>
        /\ UNCHANGED <<epoch, revision, changes, events>>
    BY <1>2 DEF SnapshotReads, WatchConnects, satelliteVars
  <2>2. \A t \in TaskIds : tasks'[t].stage \notin {"reading", "read"} BY <2>1 DEF Chronological
  <2>3. QED BY <2>1, <2>2, SameKnown, NothingMade
<1>3. CASE WatchDrops
  <2>1. /\ UNCHANGED <<tasks, sent, applied, queue>>
        /\ UNCHANGED <<epoch, revision, changes>> /\ events' = <<>>
    BY <1>3 DEF WatchDrops, satelliteVars
  <2>2. \A t \in TaskIds : tasks'[t].stage \notin {"reading", "read"} BY <2>1 DEF Chronological
  <2>3. DOMAIN events' = {} BY <2>1
  <2>4. Told' BY <2>3 DEF Told
  <2>5. changes' >= changes BY <2>1 DEF TypeInv, PrimaryTypes
  <2>6. QED BY <2>1, <2>2, <2>3, <2>4, <2>5, SameKnown, NothingNew
<1>4. CASE PrimaryRestarts
  <2>1. /\ epoch' = epoch + 1 /\ tasks' = [t \in TaskIds |-> IdleTask] /\ Abandon(TaskIds)
        /\ UNCHANGED <<applied, changes>> /\ events' = <<>>
    BY <1>4 DEF PrimaryRestarts, Clear
  <2>2. \A t \in TaskIds : tasks'[t].stage = "idle" BY <2>1 DEF IdleTask
  <2>3. KnownUpdates' \subseteq KnownUpdates BY <2>1, <2>2, AbandonKnown
  <2>4. DOMAIN events' = {} BY <2>1
  <2>5. Told' BY <2>4 DEF Told
  <2>6. epoch \in Nat /\ KnownUpdates \subseteq Updates
    BY DEF TypeInv, PrimaryTypes, KnownUpdates
  <2>7. ASSUME NEW u \in KnownUpdates' PROVE Past(u)'
    <3>1. Past(u) /\ u.epoch \in Nat BY <2>3, <2>6, <2>7 DEF Chronological, Updates
    <3>2. u.epoch <= epoch /\ u.seen <= changes BY <3>1 DEF Past
    <3>3. u.epoch <= epoch' /\ u.epoch # epoch' BY <2>1, <2>6, <3>1, <3>2
    <3>4. QED BY <2>1, <3>2, <3>3 DEF Past
  <2>8. InOrder(KnownUpdates)' BY <2>3 DEF Chronological, InOrder
  <2>9. QED BY <2>2, <2>5, <2>7, <2>8 DEF Chronological
<1>5. QED BY <1>1, <1>2, <1>3, <1>4

LEMMA TaskChronological ==
    ASSUME TypeInv, TypeInv', Chronological, NEW t \in TaskIds,
           \/ HandleEvent(t) \/ CoreAnswers(t) \/ CoreFailsToAnswer(t) \/ StateRead(t)
           \/ PushReturns(t) \/ PushTimesOut(t)
    PROVE  Chronological'
<1>1. CASE HandleEvent(t) BY <1>1, ObserveChronological
<1>2. CASE CoreAnswers(t) \/ CoreFailsToAnswer(t) \/ StateRead(t)
  BY <1>2 DEF CoreAnswers, CoreFailsToAnswer, StateRead, Chronological
<1>3. CASE PushReturns(t)
  <2>1. /\ tasks[t].stage \in {"ok", "failed"} /\ Advance(t, tasks[t].update, Tail(tasks[t].rest))
        /\ UNCHANGED <<applied, queue>> /\ UNCHANGED <<epoch, revision, changes, events>>
    BY <1>3 DEF PushReturns, satelliteVars
  <2>2. tasks[t].update \in Updates /\ tasks[t].update \in KnownUpdates
    BY <2>1, KnownIntro DEF TypeInv, TaskTypes
  <2>3. PICK u, peers : u = tasks[t].update /\ peers = Tail(tasks[t].rest) OBVIOUS
  <2>4. /\ KnownUpdates' \subseteq KnownUpdates
        /\ \A i \in TaskIds : tasks'[i].stage \notin {"reading", "read"}
    BY <2>1, <2>2, <2>3, AdvanceKnown
  <2>5. QED BY <2>1, <2>4, NothingMade
<1>4. CASE PushTimesOut(t)
  <2>1. /\ tasks[t].stage = "waiting" /\ tasks' = [tasks EXCEPT ![t].stage = "failed"]
        /\ Abandon({t}) /\ UNCHANGED applied /\ UNCHANGED <<epoch, revision, changes, events>>
    BY <1>4 DEF PushTimesOut, primaryVars
  <2>2. /\ tasks'[t].stage = "failed" /\ tasks'[t].update = tasks[t].update
        /\ \A i \in TaskIds \ {t} : tasks'[i] = tasks[i]
    BY <2>1 DEF TypeInv, TaskTypes, Tasks
  <2>3. KnownUpdates' \subseteq KnownUpdates
    <3>1. {t} \in SUBSET TaskIds OBVIOUS
    <3>2. QED BY <2>1, <2>2, <3>1, AbandonKnown
  <2>4. \A i \in TaskIds : tasks'[i].stage \notin {"reading", "read"}
    BY <2>2 DEF Chronological
  <2>5. QED BY <2>1, <2>3, <2>4, NothingMade
<1>5. QED BY <1>1, <1>2, <1>3, <1>4

LEMMA NetworkChronological ==
    ASSUME TypeInv, TypeInv', Chronological, NEW m \in sent, RequestArrives(m) \/ RequestLost(m)
    PROVE  Chronological'
<1>1. CASE RequestArrives(m)
  <2>1. UNCHANGED tasks /\ UNCHANGED <<epoch, revision, changes, events>>
    BY <1>1 DEF RequestArrives, primaryVars
  <2>2. \A t \in TaskIds : tasks'[t].stage \notin {"reading", "read"} BY <2>1 DEF Chronological
  <2>3. QED BY <1>1, <2>1, <2>2, ArrivesKnown, NothingMade
<1>2. CASE RequestLost(m)
  <2>1. /\ sent' = sent \ {m} /\ UNCHANGED <<applied, queue>>
        /\ tasks' = IF m.task = 0 THEN tasks ELSE [tasks EXCEPT ![m.task].stage = "failed"]
        /\ UNCHANGED <<epoch, revision, changes, events>>
    BY <1>2 DEF RequestLost, primaryVars, satelliteVars
  <2>2. m.task \in TaskIds \cup {0} /\ (m.task # 0 => tasks[m.task].stage = "waiting")
    BY DEF TypeInv, TaskTypes, Requests, Awaited
  <2>3. ASSUME NEW i \in TaskIds
        PROVE  \/ tasks'[i] = tasks[i]
               \/ /\ tasks'[i].stage = "failed" /\ tasks'[i].update = tasks[i].update
                  /\ tasks[i].stage = "waiting"
    <3>1. tasks[i] \in Tasks /\ i # 0 BY DEF TypeInv, TaskTypes, TaskIds
    <3>2. CASE m.task = i BY <2>1, <2>2, <3>1, <3>2 DEF TypeInv, TaskTypes, Tasks
    <3>3. CASE m.task # i BY <2>1, <3>3 DEF TypeInv, TaskTypes
    <3>4. QED BY <3>2, <3>3
  <2>4. \A i \in TaskIds : tasks'[i].stage \notin {"reading", "read"}
    BY <2>3 DEF Chronological
  <2>5. ASSUME NEW v \in KnownUpdates' PROVE v \in KnownUpdates
    <3>1. v \in Updates BY DEF KnownUpdates
    <3>2. CASE \E i \in TaskIds : tasks'[i].stage \in {"waiting", "ok", "failed"} /\ v = tasks'[i].update
      <4>1. PICK i \in TaskIds : tasks'[i].stage \in {"waiting", "ok", "failed"} /\ v = tasks'[i].update
        BY <3>2
      <4>2. tasks[i].stage \in {"waiting", "ok", "failed"} /\ v = tasks[i].update BY <2>3, <4>1
      <4>3. QED BY <3>1, <4>2 DEF KnownUpdates
    <3>3. CASE ~\E i \in TaskIds : tasks'[i].stage \in {"waiting", "ok", "failed"} /\ v = tasks'[i].update
      BY <2>1, <3>1, <3>3 DEF KnownUpdates
    <3>4. QED BY <3>2, <3>3
  <2>6. QED BY <2>1, <2>4, <2>5, NothingMade
<1>3. QED BY <1>1, <1>2

LEMMA SatelliteChronological ==
    ASSUME TypeInv, TypeInv', Chronological, ~Stateless, NEW p \in Satellites,
           \/ Applies(p) \/ CommandRuns(p) \/ CommandReturns(p) \/ CommandFails(p)
           \/ Forwards(p) \/ SuppressionExpires(p) \/ SatelliteRestarts(p)
           \/ \E s \in States : UserPresses(p, s)
    PROVE  Chronological'
<1>1. \A t \in TaskIds : tasks[t].stage \notin {"reading", "read"} BY DEF Chronological
<1>2. ASSUME UNCHANGED primaryVars
      PROVE  UNCHANGED <<epoch, revision, changes, events>>
  BY <1>2 DEF primaryVars
<1>3. CASE \/ CommandRuns(p) \/ SuppressionExpires(p) \/ \E s \in States : UserPresses(p, s)
  <2>1. UNCHANGED primaryVars /\ UNCHANGED <<tasks, sent, applied, queue>>
    BY <1>3 DEF CommandRuns, SuppressionExpires, UserPresses
  <2>2. QED BY <1>1, <1>2, <2>1, SameKnown, NothingMade
<1>4. CASE Applies(p)
  <2>1. /\ queue[p] # <<>> /\ UNCHANGED primaryVars /\ UNCHANGED sent
        /\ \/ Ignores(p, Current(p)) \/ FindsApplied(p, Current(p)) \/ Commands(p, Current(p))
    BY <1>4 DEF Applies, Current
  <2>2. CASE Commands(p, Current(p))
    <3>1. UNCHANGED <<tasks, sent, applied, queue>> BY <2>1, <2>2 DEF Commands
    <3>2. QED BY <1>1, <1>2, <2>1, <3>1, SameKnown, NothingMade
  <2>3. CASE Ignores(p, Current(p)) \/ FindsApplied(p, Current(p))
    <3>1. /\ Answer(p, "ok")
          /\ applied' = applied \/ applied' = [applied EXCEPT ![p] = Current(p)]
      BY <2>3 DEF Ignores, FindsApplied, RecordVersion
    <3>2. QED BY <1>2, <2>1, <3>1, AnswerKnown, NothingMade
  <2>4. QED BY <2>1, <2>2, <2>3
<1>5. CASE CommandReturns(p)
  <2>1. /\ queue[p] # <<>> /\ UNCHANGED primaryVars /\ UNCHANGED sent /\ Answer(p, "ok")
        /\ applied' = [applied EXCEPT ![p] = Current(p)]
    BY <1>5 DEF CommandReturns, RecordVersion, Current, TypeInv, QueueTypes
  <2>2. QED BY <1>2, <2>1, AnswerKnown, NothingMade
<1>6. CASE CommandFails(p)
  <2>1. /\ queue[p] # <<>> /\ UNCHANGED primaryVars /\ UNCHANGED sent /\ Answer(p, "failed")
        /\ applied' = applied
    BY <1>6 DEF CommandFails, TypeInv, QueueTypes
  <2>2. QED BY <1>2, <2>1, AnswerKnown, NothingMade
<1>7. CASE Forwards(p)
  <2>1. UNCHANGED <<tasks, sent, applied, queue>> BY <1>7 DEF Forwards
  <2>2. CASE UNCHANGED primaryVars BY <1>1, <1>2, <2>1, <2>2, SameKnown, NothingMade
  <2>3. CASE CoreBecomes(Head(relays[p]))
    <3>1. relays[p] # <<>> /\ relays[p] \in Seq(States)
      BY <1>7 DEF Forwards, TypeInv, SatelliteTypes
    <3>2. PICK s \in States : s = Head(relays[p]) BY <3>1, HeadTailProperties
    <3>3. QED BY <2>1, <2>3, <3>2, CoreBecomesChronological
  <2>4. QED BY <1>7, <2>2, <2>3 DEF Forwards
<1>8. CASE SatelliteRestarts(p)
  <2>1. /\ applied' = [applied EXCEPT ![p] = None] /\ queue' = [queue EXCEPT ![p] = <<>>]
        /\ UNCHANGED primaryVars /\ UNCHANGED sent
        /\ \E waiting : tasks' = [t \in TaskIds |-> IF t \in waiting THEN [tasks[t] EXCEPT !.stage = "failed"]
                                                    ELSE tasks[t]]
                        /\ waiting = {queue[p][i].task : i \in DOMAIN queue[p]}
    BY <1>8 DEF SatelliteRestarts
  <2>2. ASSUME NEW i \in TaskIds
        PROVE  \/ tasks'[i] = tasks[i]
               \/ /\ tasks'[i].stage = "failed" /\ tasks'[i].update = tasks[i].update
                  /\ tasks[i].stage = "waiting"
    <3>1. tasks[i] \in Tasks /\ i # 0 BY DEF TypeInv, TaskTypes, TaskIds
    <3>2. CASE i \in {queue[p][j].task : j \in DOMAIN queue[p]}
      <4>1. tasks'[i] = [tasks[i] EXCEPT !.stage = "failed"] BY <2>1, <3>2
      <4>2. tasks[i].stage = "waiting" BY <3>1, <3>2 DEF TypeInv, Awaited
      <4>3. QED BY <3>1, <4>1, <4>2 DEF Tasks
    <3>3. CASE i \notin {queue[p][j].task : j \in DOMAIN queue[p]} BY <2>1, <3>3
    <3>4. QED BY <3>2, <3>3
  <2>3. /\ \A q \in Satellites : applied'[q] = applied[q] \/ applied'[q] = None
        /\ \A q \in Satellites : queue'[q] = queue[q] \/ queue'[q] = <<>>
    BY <2>1 DEF TypeInv, SatelliteTypes, QueueTypes
  <2>4. ASSUME NEW v \in KnownUpdates' PROVE v \in KnownUpdates
    <3>1. v \in Updates BY DEF KnownUpdates
    <3>2. CASE \E m \in sent' : v = m.update BY <2>1, <3>1, <3>2 DEF KnownUpdates
    <3>3. CASE \E q \in Satellites : applied'[q] # None /\ v = applied'[q]
      BY <2>3, <3>1, <3>3 DEF KnownUpdates
    <3>4. CASE \E q \in Satellites : \E i \in DOMAIN queue'[q] : v = queue'[q][i].update
      <4>1. PICK q \in Satellites : \E i \in DOMAIN queue'[q] : v = queue'[q][i].update BY <3>4
      <4>2. queue'[q] # <<>> BY <4>1
      <4>3. queue'[q] = queue[q] BY <2>3, <4>2
      <4>4. QED BY <3>1, <4>1, <4>3 DEF KnownUpdates
    <3>5. CASE \E i \in TaskIds : tasks'[i].stage \in {"waiting", "ok", "failed"} /\ v = tasks'[i].update
      <4>1. PICK i \in TaskIds : tasks'[i].stage \in {"waiting", "ok", "failed"} /\ v = tasks'[i].update
        BY <3>5
      <4>2. tasks[i].stage \in {"waiting", "ok", "failed"} /\ v = tasks[i].update BY <2>2, <4>1
      <4>3. QED BY <3>1, <4>2 DEF KnownUpdates
    <3>6. QED BY <3>2, <3>3, <3>4, <3>5 DEF KnownUpdates
  <2>5. \A i \in TaskIds : tasks'[i].stage \notin {"reading", "read"} BY <1>1, <2>2
  <2>6. QED BY <1>2, <2>1, <2>4, <2>5, NothingMade
<1>9. QED BY <1>3, <1>4, <1>5, <1>6, <1>7, <1>8
LEMMA ChronologicalInit == Init => Chronological
<1> SUFFICES ASSUME Init PROVE Chronological OBVIOUS
<1>1. \A t \in TaskIds : tasks[t].stage = "idle" BY DEF Init, IdleTask
<1>2. /\ sent = {} /\ \A p \in Satellites : applied[p] = None /\ DOMAIN queue[p] = {}
      /\ DOMAIN events = {}
  BY DEF Init
<1>3. KnownUpdates = {} BY <1>1, <1>2 DEF KnownUpdates
<1>4. QED BY <1>1, <1>2, <1>3 DEF Chronological, Told, InOrder

LEMMA ChronologicalStep ==
    ASSUME TypeInv, TypeInv', Chronological, ~Stateless, [Next]_vars, [Orderly]_vars
    PROVE  Chronological'
<1>1. CASE UNCHANGED vars
  <2>1. UNCHANGED <<tasks, sent, applied, queue>> /\ UNCHANGED <<epoch, revision, changes, events>>
    BY <1>1 DEF vars, primaryVars, satelliteVars
  <2>2. \A t \in TaskIds : tasks'[t].stage \notin {"reading", "read"} BY <2>1 DEF Chronological
  <2>3. QED BY <2>1, <2>2, SameKnown, NothingMade
<1>2. CASE Next /\ Orderly
  <2>1. CASE \/ CoreChanges \/ SnapshotReads \/ WatchDrops \/ WatchConnects \/ PrimaryRestarts
    BY <2>1, PrimaryChronological
  <2>2. ASSUME NEW t \in TaskIds,
               \/ HandleEvent(t) \/ CoreAnswers(t) \/ CoreFailsToAnswer(t) \/ StateRead(t)
               \/ PushReturns(t) \/ PushTimesOut(t)
        PROVE  Chronological'
    BY <2>2, TaskChronological
  <2>3. ASSUME NEW m \in sent, RequestArrives(m) \/ RequestLost(m) PROVE Chronological'
    BY <2>3, NetworkChronological
  <2>4. ASSUME NEW p \in Satellites,
               \/ Applies(p) \/ CommandRuns(p) \/ CommandReturns(p) \/ CommandFails(p)
               \/ Forwards(p) \/ SuppressionExpires(p) \/ SatelliteRestarts(p)
               \/ \E s \in States : UserPresses(p, s)
        PROVE  Chronological'
    BY <2>4, SatelliteChronological
  <2>5. QED BY <1>2, <2>1, <2>2, <2>3, <2>4 DEF Next, Orderly
<1>3. QED BY <1>1, <1>2

LEMMA ChronologicalHolds ==
    ASSUME ~Stateless
    PROVE  Spec /\ [][Orderly]_vars => [](TypeInv /\ OrderInv /\ Chronological)
<1>1. TypeInv /\ Chronological /\ [Next]_vars /\ [Orderly]_vars => Chronological'
  BY ChronologicalStep, TypeInvStep
<1>2. QED BY <1>1, ChronologicalInit, ActivityInvariants, PTL DEF Spec

-----------------------------------------------------------------------------
NotTakenBack(p) ==
    phase[p] = "command" /\ phase'[p] = "run" /\ applied[p] # None
    /\ applied[p].epoch = Head(queue[p]).update.epoch
    => Head(queue[p]).update.seen >= applied[p].seen

OnlyOlder(p) ==
    /\ phase[p] = "idle"
    /\ queue[p] # <<>>
    /\ queue'[p] = Tail(queue[p])
    /\ actual[p] # Head(queue[p]).update.state
    /\ applied[p] # None
    /\ applied'[p] = applied[p]
    => Head(queue[p]).update.seen <= applied[p].seen

\* A command that is given is from the update in progress, which is newer.
LEMMA StepNotTakenBack ==
    ASSUME TypeInv, OrderInv, Chronological, NEW p \in Satellites
    PROVE  NotTakenBack(p)
<1> SUFFICES ASSUME phase[p] = "command", applied[p] # None, applied[p].epoch = Current(p).epoch
             PROVE  Current(p).seen >= applied[p].seen
  BY DEF NotTakenBack, Current
<1>1. queue[p] # <<>> BY DEF TypeInv, QueueTypes
<1>2. Current(p) \in KnownUpdates /\ applied[p] \in KnownUpdates /\ KnownUpdates \subseteq Updates
  BY <1>1, KnownIntro
<1>3. ~(applied[p].revision >= Current(p).revision) BY DEF OrderInv, Ordered, IsStale
<1>4. applied[p].revision <= Current(p).revision BY <1>2, <1>3 DEF Updates
<1>5. applied[p].seen <= Current(p).seen BY <1>2, <1>4 DEF Chronological, InOrder
<1>6. QED BY <1>2, <1>5 DEF Updates

\* The requests of a queue are as many as before, or one more.
LEMMA QueueGrows ==
    ASSUME TypeInv, TypeInv', NEW p \in Satellites, queue[p] # <<>>, queue'[p] = Tail(queue[p]),
           Unrelated \/ UNCHANGED vars
    PROVE  FALSE
<1>1. queue \in [Satellites -> Seq(Requests)] /\ queue[p] \in Seq(Requests)
  BY DEF TypeInv, QueueTypes
<1>2. PICK n \in Nat : Len(queue[p]) = n /\ Len(queue'[p]) = n - 1 BY <1>1, HeadTailProperties
<1>3. CASE UNCHANGED queue
  <2>1. n = n - 1 BY <1>2, <1>3
  <2>2. QED BY <2>1
<1>4. ASSUME NEW m \in sent, RequestArrives(m) PROVE FALSE
  <2>1. queue' = [queue EXCEPT ![m.to] = Append(queue[m.to], m)] /\ m \in Requests
    BY <1>4 DEF RequestArrives, TypeInv, TaskTypes
  <2>2. queue'[p] = queue[p] \/ queue'[p] = Append(queue[p], m) BY <1>1, <2>1
  <2>3. Len(Append(queue[p], m)) = n + 1 BY <1>1, <1>2, <2>1, AppendProperties
  <2>4. n - 1 \in {n, n + 1} BY <1>2, <2>2, <2>3
  <2>5. QED BY <2>4
<1>5. ASSUME NEW ts \in SUBSET TaskIds, Abandon(ts) PROVE FALSE
  <2>1. queue'[p] = [i \in DOMAIN queue[p] |-> Orphaned(ts, queue[p][i])] BY <1>5 DEF Abandon
  <2>2. DOMAIN queue'[p] = DOMAIN queue[p] BY <2>1
  <2>3. queue'[p] \in Seq(Requests) BY DEF TypeInv, QueueTypes
  <2>4. Len(queue'[p]) = Len(queue[p]) BY <1>1, <2>2, <2>3, LenProperties
  <2>5. n = n - 1 BY <1>2, <2>4
  <2>6. QED BY <2>5
<1>6. QED BY <1>3, <1>4, <1>5, UnrelatedSteps

\* An update is ignored only by a Satellite that applied a newer one.
LEMMA StepOnlyOlder ==
    ASSUME TypeInv, TypeInv', OrderInv, Chronological, [Next]_vars, NEW p \in Satellites
    PROVE  OnlyOlder(p)
<1> SUFFICES ASSUME phase[p] = "idle", queue[p] # <<>>, queue'[p] = Tail(queue[p]),
                    actual[p] # Current(p).state, applied[p] # None, applied'[p] = applied[p]
             PROVE  Current(p).seen <= applied[p].seen
  BY DEF OnlyOlder, Current
<1>1. Current(p) \in KnownUpdates /\ applied[p] \in KnownUpdates /\ KnownUpdates \subseteq Updates
  BY KnownIntro
<1>2. CASE IsStale(p, Current(p))
  <2>1. applied[p].epoch = Current(p).epoch /\ Current(p).revision <= applied[p].revision
    BY <1>1, <1>2 DEF IsStale, Updates
  <2>2. QED BY <1>1, <2>1 DEF Chronological, InOrder
<1>3. CASE ~IsStale(p, Current(p))
  <2>1. queue \in [Satellites -> Seq(Requests)] /\ queue[p] \in Seq(Requests)
    BY DEF TypeInv, QueueTypes
  <2>2. queue'[p] # queue[p]
    <3>1. PICK n \in Nat : Len(queue[p]) = n /\ Len(Tail(queue[p])) = n - 1
      BY <2>1, HeadTailProperties
    <3>2. n # n - 1 OBVIOUS
    <3>3. QED BY <3>1, <3>2
  <2>3. ~(Unrelated \/ UNCHANGED vars) BY QueueGrows
  <2>4. ASSUME NEW q \in Satellites, Applies(q) PROVE FALSE
    <3>1. Ignores(q, Current(q)) \/ FindsApplied(q, Current(q)) \/ Commands(q, Current(q))
      BY <2>4 DEF Applies, Current
    <3>2. CASE q = p
      <4>1. ~Ignores(q, Current(q)) BY <1>3, <3>2 DEF Ignores
      <4>2. ~FindsApplied(q, Current(q)) BY <3>2 DEF FindsApplied
      <4>3. ~Commands(q, Current(q)) BY <2>2, <3>2 DEF Commands
      <4>4. QED BY <3>1, <4>1, <4>2, <4>3
    <3>3. CASE q # p
      <4>1. CASE Commands(q, Current(q)) BY <2>2, <4>1 DEF Commands
      <4>2. CASE Ignores(q, Current(q)) \/ FindsApplied(q, Current(q))
        <5>1. Answer(q, "ok") BY <4>2 DEF Ignores, FindsApplied
        <5>2. QED BY <2>2, <3>3, <5>1, AnswerPhase
      <4>3. QED BY <3>1, <4>1, <4>2
    <3>4. QED BY <3>2, <3>3
  <2>5. ASSUME NEW q \in Satellites, CommandReturns(q) \/ CommandFails(q) PROVE FALSE
    <3>1. phase[q] # "idle" /\ \E result : Answer(q, result)
      BY <2>5 DEF CommandReturns, CommandFails
    <3>2. q # p BY <3>1
    <3>3. QED BY <2>2, <3>1, <3>2, AnswerPhase
  <2>6. ASSUME NEW q \in Satellites, SatelliteRestarts(q) PROVE FALSE
    <3>1. applied' = [applied EXCEPT ![q] = None] /\ queue' = [queue EXCEPT ![q] = <<>>]
      BY <2>6 DEF SatelliteRestarts
    <3>2. CASE q = p BY <3>1, <3>2 DEF TypeInv, SatelliteTypes
    <3>3. CASE q # p BY <2>1, <2>2, <3>1, <3>3
    <3>4. QED BY <3>2, <3>3
  <2>7. ASSUME NEW q \in Satellites, CommandRuns(q) \/ \E s \in States : UserPresses(q, s)
        PROVE  FALSE
    BY <2>2, <2>7 DEF CommandRuns, UserPresses
  <2>8. QED BY <2>3, <2>4, <2>5, <2>6, <2>7, NextCases
<1>4. QED BY <1>2, <1>3

\* Where events tell the state, the service is not configured anew and no
\* snapshot's state is pushed, a Satellite is never switched to a state the
\* Primary had before one it has applied, whatever pushes are lost, repeated or
\* overtaken, whichever side restarts, and however many Satellites there are
\* (broadcast, #push, #applyStateUpdate).
THEOREM SatellitesNeverGoBack ==
    ASSUME ~Stateless
    PROVE  Spec /\ [][Orderly]_vars => OlderNeverOverwrites
<1>1. TypeInv /\ OrderInv /\ Chronological => \A p \in Satellites : NotTakenBack(p)
  BY StepNotTakenBack
<1>2. Spec /\ [][Orderly]_vars => [][\A p \in Satellites : NotTakenBack(p)]_vars
  BY <1>1, ChronologicalHolds, PTL
<1>3. QED BY <1>2 DEF OlderNeverOverwrites, NotTakenBack

\* And what it ignores as stale is no newer than what it applied (#isStaleVersion).
THEOREM IgnoredUpdatesAreOlder ==
    ASSUME ~Stateless
    PROVE  Spec /\ [][Orderly]_vars => OnlyOlderIsIgnored
<1>1. TypeInv /\ TypeInv' /\ OrderInv /\ Chronological /\ [Next]_vars =>
        \A p \in Satellites : OnlyOlder(p)
  BY StepOnlyOlder
<1>2. Spec /\ [][Orderly]_vars => [][\A p \in Satellites : OnlyOlder(p)]_vars
  BY <1>1, ChronologicalHolds, PTL DEF Spec
<1>3. QED BY <1>2 DEF OnlyOlderIsIgnored, OnlyOlder
-----------------------------------------------------------------------------
(* Satellites agree with the Primary.                                      *)

\* A Satellite once; nothing fails, restarts or pushes a snapshot's state.
Undisturbed ==
    /\ \A i, j \in DOMAIN Order : Order[i] = Order[j] => i = j
    /\ Limits["failure"] = 0 /\ Limits["restart"] = 0 /\ Limits["initialize"] = 0
    /\ ~Stateless

InRest(t, p) == \E k \in DOMAIN tasks[t].rest : tasks[t].rest[k] = p

Distinct(peers) == \A i, j \in DOMAIN peers : peers[i] = peers[j] => i = j

Calm ==
    /\ budget["failure"] = 0 /\ budget["restart"] = 0 /\ budget["initialize"] = 0
    /\ listening /\ epoch = 0

LoopsFit ==
    \A t \in TaskIds :
        /\ tasks[t].stage \in {"idle", "waiting", "ok"}
        /\ tasks[t].stage = "idle" => tasks[t].rest = <<>>
        /\ Distinct(tasks[t].rest)

\* Each event tells a change; after all of them, the Primary knows its Core.
News ==
    /\ \A i \in DOMAIN events : events[i].state \in States
    /\ \A i, j \in DOMAIN events : j = i + 1 => events[i].state # events[j].state
    /\ events # <<>> => events[1].state # observed /\ events[Len(events)].state = core
    /\ events = <<>> => observed \in {None, core}

\* A request is for the Satellite its task has come to, with the task's update.
Due(m) ==
    /\ m.task # 0
    /\ tasks[m.task].rest[1] = m.to
    /\ tasks[m.task].update = m.update

Addressed ==
    /\ \A m \in sent : Due(m)
    /\ \A p \in Satellites : \A i \in DOMAIN queue[p] : queue[p][i].to = p /\ Due(queue[p][i])

\* A relay step under way will switch the Primary to what p shows.
CallsBack(p) ==
    /\ relays[p] # <<>>
    /\ relays[p][Len(relays[p])] = actual[p]
    /\ actual[p] \in suppressed[p] => \E i \in 1..(Len(relays[p]) - 1) : relays[p][i] = actual[p]

\* A suppression waits for a relay step, or for the command that causes one.
Suppresses(p) ==
    \A s \in suppressed[p] :
        \/ \E i \in DOMAIN relays[p] : relays[p][i] = s
        \/ phase[p] = "command" /\ Current(p).state = s

\* Unless an event will correct it, p shows what the Primary does, or will make
\* the Primary show what it does.
Agrees(p) == events = <<>> => actual[p] = core \/ CallsBack(p)

\* p has been served by task t, whose loop has come to it.
Served(t, p) == tasks[t].rest[1] = p /\ (tasks[t].stage = "ok" \/ phase[p] = "run")

\* Task t has p to serve: with what was observed last, and nobody else has.
InRound(t, p) ==
    /\ tasks[t].update.state = observed
    /\ tasks[t].update.revision = revision
    /\ \A i \in TaskIds \ {t} : ~InRest(i, p)
    /\ lastPushed[p] # observed
    /\ ~(tasks[t].rest[1] = p /\ tasks[t].stage = "ok") =>
           applied[p] = None \/ applied[p].revision < revision
    /\ Served(t, p) => Agrees(p)

Rests(p) == lastPushed[p] = observed /\ Agrees(p)

Follows(p) ==
    p \notin overlapped =>
        /\ \A t \in TaskIds : InRest(t, p) => InRound(t, p)
        /\ (\A t \in TaskIds : ~InRest(t, p)) => Rests(p)

AgreeInv ==
    /\ Calm /\ LoopsFit /\ News /\ Addressed
    /\ \A p \in Satellites : Suppresses(p) /\ Follows(p)

LEMMA AgreeInvInit == Undisturbed /\ Init => AgreeInv
<1> SUFFICES ASSUME Undisturbed, Init PROVE AgreeInv OBVIOUS
<1>1. Calm BY DEF Init, Calm, Undisturbed
<1>2. \A t \in TaskIds : tasks[t].stage = "idle" /\ tasks[t].rest = <<>> BY DEF Init, IdleTask
<1>3. LoopsFit BY <1>2 DEF LoopsFit, Distinct
<1>4. events = <<>> /\ observed = None BY DEF Init
<1>5. News BY <1>4 DEF News
<1>6. /\ sent = {} /\ \A p \in Satellites : DOMAIN queue[p] = {} /\ suppressed[p] = {}
      /\ \A p \in Satellites : lastPushed[p] = observed /\ actual[p] = core
  BY DEF Init
<1>7. Addressed BY <1>6 DEF Addressed
<1>8. \A p \in Satellites : Suppresses(p) BY <1>6 DEF Suppresses
<1>9. \A p \in Satellites : Follows(p) BY <1>2, <1>6 DEF Follows, InRest, Rests, Agrees
<1>10. QED BY <1>1, <1>3, <1>5, <1>7, <1>8, <1>9 DEF AgreeInv

-----------------------------------------------------------------------------
(* Loops and requests.                                                     *)

\* The types of what a task and a queue hold.
LEMMA LoopTypes ==
    ASSUME TypeInv, NEW t \in TaskIds
    PROVE  /\ t # 0 /\ tasks[t].rest \in Seq(Satellites)
           /\ DOMAIN tasks[t].rest = 1..Len(tasks[t].rest) /\ Len(tasks[t].rest) \in Nat
           /\ tasks[t].rest # <<>> => tasks[t].rest[1] \in Satellites /\ InRest(t, tasks[t].rest[1])
<1>1. t # 0 /\ tasks[t].rest \in Seq(Satellites) BY DEF TypeInv, TaskTypes, Tasks, TaskIds
<1>2. tasks[t].rest # <<>> => 1 \in DOMAIN tasks[t].rest BY <1>1
<1>3. QED BY <1>1, <1>2 DEF InRest

\* Who has requests is who a task has come to, and the task waits.
LEMMA RequestsComeFrom ==
    ASSUME TypeInv, Addressed, NEW p \in Satellites, queue[p] # <<>>
    PROVE  /\ Head(queue[p]).task \in TaskIds
           /\ tasks[Head(queue[p]).task].stage = "waiting"
           /\ tasks[Head(queue[p]).task].rest[1] = p
           /\ tasks[Head(queue[p]).task].update = Current(p)
           /\ InRest(Head(queue[p]).task, p)
           /\ Current(p) \in Updates
<1>1. queue[p] \in Seq(Requests) BY DEF TypeInv, QueueTypes
<1>2. PICK m \in Requests : m = Head(queue[p]) /\ m = queue[p][1] /\ 1 \in DOMAIN queue[p]
  BY <1>1, HeadTailProperties
<1>3. m.to = p /\ Due(m) BY <1>2 DEF Addressed
<1>4. m.task \in TaskIds /\ tasks[m.task].rest[1] = p /\ tasks[m.task].update = m.update
  BY <1>3 DEF Due, Requests
<1>5. tasks[m.task].stage = "waiting" BY <1>2, <1>4, LoopTypes DEF TypeInv, Awaited
<1>6. tasks[m.task].rest # <<>> BY <1>4, <1>5 DEF TypeInv, TaskTypes
<1>7. InRest(m.task, p) BY <1>4, <1>6, LoopTypes
<1>8. QED BY <1>2, <1>4, <1>5, <1>7 DEF Current, Requests

\* A Satellite that no task waits for does nothing.
LEMMA Undemanded ==
    ASSUME TypeInv, Addressed, NEW p \in Satellites,
           \A t \in TaskIds : ~(InRest(t, p) /\ tasks[t].rest[1] = p /\ tasks[t].stage = "waiting")
    PROVE  queue[p] = <<>> /\ phase[p] = "idle"
<1>1. queue[p] = <<>> BY RequestsComeFrom
<1>2. QED BY <1>1 DEF TypeInv, QueueTypes

\* The loop of task t goes on over peers.
LEMMA AdvanceLoop ==
    ASSUME TypeInv, NEW t \in TaskIds, NEW u \in Updates, NEW peers \in Seq(Satellites),
           Distinct(peers), Advance(t, u, peers)
    PROVE  /\ \A i \in TaskIds \ {t} : tasks'[i] = tasks[i]
           /\ \/ tasks'[t].stage = "idle" /\ tasks'[t].rest = <<>>
              \/ tasks'[t].stage = "waiting" /\ tasks'[t].update = u
           /\ Distinct(tasks'[t].rest)
           /\ \A k \in DOMAIN tasks'[t].rest : \E j \in DOMAIN peers : peers[j] = tasks'[t].rest[k]
           /\ \A j \in DOMAIN peers : lastPushed[peers[j]] # u.state =>
                 /\ tasks'[t].stage = "waiting"
                 /\ \E k \in DOMAIN tasks'[t].rest : tasks'[t].rest[k] = peers[j]
           /\ \/ sent' = sent
              \/ \E m : /\ sent' = sent \cup {m} /\ m.task = t /\ m.update = u
                        /\ tasks'[t].rest[1] = m.to /\ tasks'[t].update = u
           /\ \A q \in Satellites \ overlapped' :
                 /\ q \notin overlapped
                 /\ (\E j \in DOMAIN peers : peers[j] = q) => \A i \in TaskIds \ {t} : ~InRest(i, q)
<1>1. /\ DOMAIN peers = 1..Len(peers) /\ Len(peers) \in Nat OBVIOUS
<1>2. PICK k \in 0..Len(peers) :
        /\ Skips(u.state, peers, k)
        /\ IF k = Len(peers)
           THEN tasks' = [tasks EXCEPT ![t] = IdleTask] /\ sent' = sent
           ELSE /\ tasks' = [tasks EXCEPT ![t] =
                        [stage |-> "waiting", update |-> u, rest |-> SubSeq(peers, k + 1, Len(peers))]]
                /\ sent' = sent \cup {[to |-> peers[k + 1], update |-> u, task |-> t]}
  BY DEF Advance
<1>3. \A j \in DOMAIN peers : lastPushed[peers[j]] # u.state => j \in (k + 1)..Len(peers)
  BY <1>1, <1>2 DEF Skips
<1>4. \A q \in Satellites \ overlapped' :
          /\ q \notin overlapped
          /\ (\E j \in DOMAIN peers : peers[j] = q) => \A i \in TaskIds \ {t} : ~InRest(i, q)
  BY DEF Advance, InRest
<1>5. CASE k = Len(peers)
  <2>1. tasks' = [tasks EXCEPT ![t] = IdleTask] /\ sent' = sent BY <1>2, <1>5
  <2>2. /\ tasks'[t].stage = "idle" /\ tasks'[t].rest = <<>>
        /\ \A i \in TaskIds \ {t} : tasks'[i] = tasks[i]
    BY <2>1 DEF IdleTask, TypeInv, TaskTypes
  <2>3. DOMAIN tasks'[t].rest = {} BY <2>2
  <2>4. \A j \in DOMAIN peers : lastPushed[peers[j]] = u.state BY <1>1, <1>3, <1>5
  <2>5. QED BY <1>4, <2>1, <2>2, <2>3, <2>4 DEF Distinct
<1>6. CASE k # Len(peers)
  <2>1. PICK n \in Nat : /\ n = Len(peers) /\ k \in 0..n /\ k # n /\ k + 1 \in 1..n
                         /\ DOMAIN peers = 1..n
    <3>1. PICK n \in Nat : n = Len(peers) BY <1>1
    <3>2. k \in 0..n /\ k # n BY <1>6, <3>1
    <3>3. k + 1 \in 1..n BY <3>2
    <3>4. QED BY <1>1, <3>1, <3>2, <3>3
  <2> DEFINE rest == SubSeq(peers, k + 1, Len(peers))
             busy == [stage |-> "waiting", update |-> u, rest |-> rest]
             m == [to |-> peers[k + 1], update |-> u, task |-> t]
  <2>2. tasks' = [tasks EXCEPT ![t] = busy] /\ sent' = sent \cup {m} BY <1>2, <1>6
  <2>3. busy.stage = "waiting" /\ busy.update = u /\ busy.rest = rest OBVIOUS
  <2>4. m.to = peers[k + 1] /\ m.update = u /\ m.task = t OBVIOUS
  <2>5. /\ rest \in Seq(Satellites) /\ Len(rest) = n - k
        /\ \A i \in 1..(n - k) : rest[i] = peers[k + i]
    <3>1. \A i \in (k + 1)..n : peers[i] \in Satellites BY <2>1
    <3>2. k + 1 \in Int /\ n \in Int /\ k + 1 <= n /\ rest = SubSeq(peers, k + 1, n) BY <2>1
    <3> HIDE DEF rest
    <3>3. /\ rest \in Seq(Satellites) /\ Len(rest) = n - (k + 1) + 1
          /\ \A i \in 1..(n - (k + 1) + 1) : rest[i] = peers[(k + 1) + i - 1]
      BY <3>1, <3>2, SubSeqProperties
    <3>4. n - (k + 1) + 1 = n - k /\ \A i \in 1..(n - k) : (k + 1) + i - 1 = k + i BY <2>1
    <3>5. QED BY <2>1, <3>3, <3>4
  <2> HIDE DEF rest, busy, m
  <2>6. DOMAIN rest = 1..(n - k) BY <2>5
  <2>7. /\ \A i \in 1..(n - k) : i \in Nat /\ k + i \in 1..n
         /\ \A j \in (k + 1)..n : j - k \in 1..(n - k) /\ k + (j - k) = j
    BY <2>1
  <2>8. tasks'[t] = busy /\ \A i \in TaskIds \ {t} : tasks'[i] = tasks[i]
    BY <2>2 DEF TypeInv, TaskTypes
  <2>9. Distinct(rest)
    <3> SUFFICES ASSUME NEW i \in DOMAIN rest, NEW j \in DOMAIN rest, rest[i] = rest[j] PROVE i = j
      BY DEF Distinct
    <3>1. /\ k + i \in DOMAIN peers /\ k + j \in DOMAIN peers /\ peers[k + i] = peers[k + j]
          /\ i \in Nat /\ j \in Nat
      <4>1. i \in 1..(n - k) /\ j \in 1..(n - k) BY <2>6
      <4>2. rest[i] = peers[k + i] /\ rest[j] = peers[k + j] BY <2>5, <4>1
      <4>3. QED BY <2>1, <2>7, <4>1, <4>2
    <3>2. k + i = k + j BY <3>1 DEF Distinct
    <3>3. QED BY <2>1, <3>1, <3>2
  <2>10. \A i \in DOMAIN rest : \E j \in DOMAIN peers : peers[j] = rest[i]
    <3> TAKE i \in DOMAIN rest
    <3>1. k + i \in DOMAIN peers /\ peers[k + i] = rest[i]
      <4>1. i \in 1..(n - k) BY <2>6
      <4>2. QED BY <2>1, <2>5, <2>7, <4>1
    <3>2. QED BY <3>1
  <2>11. ASSUME NEW j \in DOMAIN peers, lastPushed[peers[j]] # u.state
         PROVE  \E i \in DOMAIN rest : rest[i] = peers[j]
    <3>1. j \in (k + 1)..n BY <1>3, <2>1, <2>11
    <3>2. j - k \in 1..(n - k) /\ k + (j - k) = j BY <2>7, <3>1
    <3>3. rest[j - k] = peers[j] BY <2>5, <3>2
    <3>4. j - k \in DOMAIN rest BY <2>6, <3>2
    <3>5. QED BY <3>3, <3>4
  <2>12. rest[1] = peers[k + 1]
    <3>1. 1 \in 1..(n - k) BY <2>1
    <3>2. QED BY <2>5, <3>1
  <2>13. QED BY <1>4, <2>2, <2>3, <2>4, <2>8, <2>9, <2>10, <2>11, <2>12
<1>7. QED BY <1>5, <1>6
\* Requests that stay, or reach the Satellite they are for, are still due as long
\* as tasks keep their update and whom they have come to.
LEMMA AddressedKept ==
    ASSUME TypeInv, Addressed, sent' \subseteq sent,
           \A i \in TaskIds : tasks'[i].update = tasks[i].update /\ tasks'[i].rest = tasks[i].rest,
           \A p \in Satellites : \A i \in DOMAIN queue'[p] :
               \/ \E m \in sent : m.to = p /\ queue'[p][i] = m
               \/ \E j \in DOMAIN queue[p] : queue'[p][i] = queue[p][j]
    PROVE  Addressed'
<1>1. \A m \in sent : m.task \in TaskIds \cup {0} BY DEF TypeInv, TaskTypes, Requests
<1>2. \A p \in Satellites : \A j \in DOMAIN queue[p] : queue[p][j].task \in TaskIds \cup {0}
  <2> SUFFICES ASSUME NEW p \in Satellites, NEW j \in DOMAIN queue[p]
               PROVE  queue[p][j].task \in TaskIds \cup {0}
    OBVIOUS
  <2>1. queue[p][j] \in Requests BY DEF TypeInv, QueueTypes
  <2>2. QED BY <2>1 DEF Requests
<1>3. \A m : Due(m) /\ m.task \in TaskIds \cup {0} => Due(m)' BY DEF Due
<1>4. \A m \in sent' : Due(m)' BY <1>1, <1>3 DEF Addressed
<1>5. ASSUME NEW p \in Satellites, NEW i \in DOMAIN queue'[p], NEW m, m = queue'[p][i]
      PROVE  m.to = p /\ Due(m)'
  BY <1>1, <1>2, <1>3, <1>5 DEF Addressed
<1>6. \A p \in Satellites : \A i \in DOMAIN queue'[p] :
        /\ queue'[p][i].to = p /\ queue'[p][i].task # 0
        /\ tasks'[queue'[p][i].task].rest[1] = queue'[p][i].to
        /\ tasks'[queue'[p][i].task].update = queue'[p][i].update
  BY <1>5 DEF Due
<1>7. QED BY <1>4, <1>6 DEF Addressed, Due

\* What p's neighbours do, and what the network does, does not concern p.
Aside(p) ==
    /\ UNCHANGED <<core, events, observed, revision, lastPushed, overlapped>>
    /\ relays'[p] = relays[p] /\ actual'[p] = actual[p] /\ suppressed'[p] = suppressed[p]
    /\ phase'[p] = phase[p] /\ applied'[p] = applied[p]
    /\ queue[p] # <<>> => Current(p)' = Current(p)
    /\ \A i \in TaskIds :
         /\ tasks'[i].update = tasks[i].update /\ tasks'[i].rest = tasks[i].rest
         /\ tasks'[i].stage # tasks[i].stage => ~(InRest(i, p) /\ tasks[i].rest[1] = p)

LEMMA AsideKept ==
    ASSUME TypeInv, NEW p \in Satellites, Suppresses(p), Follows(p), Aside(p)
    PROVE  Suppresses(p)' /\ Follows(p)'
<1>1. phase[p] = "command" => queue[p] # <<>> BY DEF TypeInv, QueueTypes
<1>2. Suppresses(p)' BY <1>1 DEF Aside, Suppresses
<1>3. Agrees(p)' <=> Agrees(p) BY DEF Aside, Agrees, CallsBack
<1>4. \A i \in TaskIds : InRest(i, p)' <=> InRest(i, p) BY DEF Aside, InRest
<1>5. Rests(p)' <=> Rests(p) BY <1>3 DEF Aside, Rests
<1>6. ASSUME NEW t \in TaskIds, InRest(t, p), InRound(t, p) PROVE InRound(t, p)'
  <2>1. tasks'[t].update = tasks[t].update /\ tasks'[t].rest = tasks[t].rest BY DEF Aside
  <2>2. tasks[t].rest[1] = p => tasks'[t].stage = tasks[t].stage BY <1>6 DEF Aside
  <2>3. Served(t, p)' <=> Served(t, p) BY <2>1, <2>2 DEF Served, Aside
  <2>4. UNCHANGED <<observed, revision, lastPushed>> /\ applied'[p] = applied[p] BY DEF Aside
  <2>5. QED BY <1>3, <1>4, <1>6, <2>1, <2>2, <2>3, <2>4 DEF InRound
<1>7. Follows(p)'
  <2>1. p \notin overlapped' => p \notin overlapped BY DEF Aside
  <2>2. QED BY <1>4, <1>5, <1>6, <2>1 DEF Follows
<1>8. QED BY <1>2, <1>7

\* Loops keep fitting when a push is answered with success.
LEMMA LoopsKept ==
    ASSUME LoopsFit,
           \A i \in TaskIds : /\ tasks'[i].rest = tasks[i].rest
                              /\ \/ tasks'[i].stage = tasks[i].stage
                                 \/ tasks[i].stage = "waiting" /\ tasks'[i].stage = "ok"
    PROVE  LoopsFit'
BY DEF LoopsFit, Distinct

\* The Primary's part that a Satellite leaves alone.
LEMMA PrimaryKept ==
    ASSUME Calm, News, UNCHANGED <<primaryVars, budget>>
    PROVE  Calm' /\ News' /\ UNCHANGED <<core, events, observed, revision, lastPushed>>
BY DEF Calm, News, primaryVars

-----------------------------------------------------------------------------
(* A Satellite's steps.                                                    *)

\* A Satellite that a task has come to is in the round of that task.
LEMMA Demanded ==
    ASSUME TypeInv, AgreeInv, NEW p \in Satellites, queue[p] # <<>>, p \notin overlapped
    PROVE  /\ InRest(Head(queue[p]).task, p) /\ InRound(Head(queue[p]).task, p)
           /\ \A i \in TaskIds : InRest(i, p) => i = Head(queue[p]).task
<1>1. Head(queue[p]).task \in TaskIds /\ InRest(Head(queue[p]).task, p)
  BY RequestsComeFrom DEF AgreeInv
<1>2. InRound(Head(queue[p]).task, p) BY <1>1 DEF AgreeInv, Follows
<1>3. QED BY <1>1, <1>2 DEF InRound

\* It shows the update it was sent.
LEMMA ShowsUpdate ==
    ASSUME TypeInv, AgreeInv, NEW p \in Satellites, queue[p] # <<>>, p \notin overlapped,
           UNCHANGED <<core, events>>, actual'[p] = Current(p).state
    PROVE  Agrees(p)'
<1>1. PICK t \in TaskIds : t = Head(queue[p]).task BY RequestsComeFrom DEF AgreeInv
<1>2. tasks[t].update = Current(p) /\ Current(p) \in Updates
  BY <1>1, RequestsComeFrom DEF AgreeInv
<1>3. Current(p).state = observed /\ observed # None
  BY <1>1, <1>2, Demanded, ConstantsAssumption DEF InRound, Updates
<1>4. events = <<>> => observed = core BY <1>3 DEF AgreeInv, News
<1>5. QED BY <1>3, <1>4 DEF Agrees

\* The answer "ok" to p's first request, for p.
LEMMA AnsweredFollows ==
    ASSUME TypeInv, AgreeInv, NEW p \in Satellites, queue[p] # <<>>, Answer(p, "ok"),
           UNCHANGED <<observed, revision, lastPushed, overlapped>>,
           p \notin overlapped => Agrees(p)'
    PROVE  Follows(p)'
<1> SUFFICES ASSUME p \notin overlapped PROVE Follows(p)' BY DEF Follows
<1>1. PICK t \in TaskIds : t = Head(queue[p]).task BY RequestsComeFrom DEF AgreeInv
<1>2. /\ InRest(t, p) /\ InRound(t, p) /\ tasks[t].rest[1] = p
      /\ \A i \in TaskIds : InRest(i, p) => i = t
  BY <1>1, Demanded, RequestsComeFrom DEF AgreeInv
<1>3. /\ \A i \in TaskIds : tasks'[i].update = tasks[i].update /\ tasks'[i].rest = tasks[i].rest
      /\ tasks'[t].stage = "ok"
  BY <1>1, AnswerShrinks
<1>4. \A i \in TaskIds : InRest(i, p)' <=> InRest(i, p) BY <1>3 DEF InRest
<1>5. InRound(t, p)' BY <1>2, <1>3, <1>4 DEF InRound
<1>6. QED BY <1>2, <1>4, <1>5 DEF Follows
\* The others, when p answers.
LEMMA AnswerAside ==
    ASSUME TypeInv, AgreeInv, NEW p \in Satellites, queue[p] # <<>>, Answer(p, "ok"),
           UNCHANGED <<primaryVars, overlapped, sent>>, NEW q \in Satellites \ {p},
           relays'[q] = relays[q], actual'[q] = actual[q], suppressed'[q] = suppressed[q],
           applied'[q] = applied[q]
    PROVE  Suppresses(q)' /\ Follows(q)'
<1>1. phase'[q] = phase[q] /\ queue'[q] = queue[q] BY AnswerPhase
<1>2. \A i \in TaskIds :
        /\ tasks'[i].update = tasks[i].update /\ tasks'[i].rest = tasks[i].rest
        /\ tasks'[i].stage # tasks[i].stage => tasks[i].rest[1] = p
  BY AnswerShrinks, RequestsComeFrom DEF AgreeInv
<1>3. Aside(q) BY <1>1, <1>2 DEF Aside, primaryVars, Current
<1>4. QED BY <1>3, AsideKept DEF AgreeInv

\* And the rest of the invariant.
LEMMA AnswerRest ==
    ASSUME TypeInv, AgreeInv, NEW p \in Satellites, queue[p] # <<>>, Answer(p, "ok"),
           UNCHANGED <<primaryVars, budget, sent>>
    PROVE  Calm' /\ LoopsFit' /\ News' /\ Addressed'
<1>1. Calm' /\ News' BY PrimaryKept DEF AgreeInv
<1>2. \A i \in TaskIds :
        /\ tasks'[i].update = tasks[i].update /\ tasks'[i].rest = tasks[i].rest
        /\ \/ tasks'[i].stage = tasks[i].stage
           \/ tasks[i].stage = "waiting" /\ tasks'[i].stage = "ok"
  BY AnswerShrinks
<1>3. LoopsFit' BY <1>2, LoopsKept DEF AgreeInv
<1>4. Addressed' BY <1>2, AnswerShrinks, AddressedKept DEF AgreeInv
<1>5. QED BY <1>1, <1>3, <1>4

LEMMA AppliesAgree ==
    ASSUME TypeInv, AgreeInv, NEW p \in Satellites, Applies(p)
    PROVE  AgreeInv'
<1>1. /\ queue[p] # <<>> /\ phase[p] = "idle"
      /\ UNCHANGED <<primaryVars, sent, overlapped, actual, relays>>
      /\ \/ Ignores(p, Current(p)) \/ FindsApplied(p, Current(p)) \/ Commands(p, Current(p))
  BY DEF Applies, Current
<1>2. UNCHANGED <<core, events, observed, revision, lastPushed>> BY <1>1 DEF primaryVars
<1>3. /\ actual'[p] = actual[p] /\ relays'[p] = relays[p]
      /\ Suppresses(p) /\ Follows(p)
  BY <1>1 DEF AgreeInv
<1>4. ASSUME Ignores(p, Current(p)) \/ FindsApplied(p, Current(p)) PROVE AgreeInv'
  <2>1. Answer(p, "ok") /\ UNCHANGED <<suppressed, budget>>
    BY <1>4 DEF Ignores, FindsApplied
  <2>2. \A q \in Satellites \ {p} : applied'[q] = applied[q]
    BY <1>4 DEF Ignores, FindsApplied, RecordVersion, TypeInv, SatelliteTypes
  <2>3. \A q \in Satellites \ {p} : Suppresses(q)' /\ Follows(q)'
    BY <1>1, <2>1, <2>2, AnswerAside
  <2>4. phase'[p] = "idle" BY <2>1, AnswerPhase
  <2>5. Suppresses(p)' BY <1>1, <1>3, <2>1, <2>4 DEF Suppresses
  <2>6. ASSUME p \notin overlapped PROVE Agrees(p)'
    <3>1. ~IsStale(p, Current(p))
      <4>1. PICK t \in TaskIds : t = Head(queue[p]).task BY <1>1, RequestsComeFrom DEF AgreeInv
      <4>2. /\ InRound(t, p) /\ tasks[t].stage = "waiting" /\ tasks[t].update = Current(p)
            /\ Current(p) \in Updates
        BY <1>1, <2>6, <4>1, Demanded, RequestsComeFrom DEF AgreeInv
      <4>3. applied[p] = None \/ (applied[p].revision < Current(p).revision /\ applied[p] \in Updates)
        BY <4>2 DEF InRound, TypeInv, SatelliteTypes
      <4>4. QED BY <4>2, <4>3 DEF IsStale, Updates
    <3>2. actual'[p] = Current(p).state BY <1>3, <1>4, <3>1 DEF Ignores, FindsApplied
    <3>3. QED BY <1>1, <1>2, <2>6, <3>2, ShowsUpdate
  <2>7. Follows(p)' BY <1>1, <1>2, <2>1, <2>6, AnsweredFollows
  <2>8. Calm' /\ LoopsFit' /\ News' /\ Addressed' BY <1>1, <2>1, AnswerRest
  <2>9. QED BY <2>3, <2>5, <2>7, <2>8 DEF AgreeInv
<1>5. ASSUME Commands(p, Current(p)) PROVE AgreeInv'
  <2>1. /\ suppressed' = [suppressed EXCEPT ![p] = @ \cup {Current(p).state}]
        /\ phase' = [phase EXCEPT ![p] = "command"]
        /\ UNCHANGED <<queue, tasks, applied>>
        /\ budget' = budget \/ Spend("failure")
    BY <1>5 DEF Commands
  <2>2. UNCHANGED budget
    <3>1. ~Spend("failure") BY DEF Spend, AgreeInv, Calm
    <3>2. QED BY <2>1, <3>1
  <2>3. Calm' /\ News' BY <1>1, <2>2, PrimaryKept DEF AgreeInv
  <2>4. LoopsFit' /\ Addressed' BY <1>1, <2>1 DEF AgreeInv, LoopsFit, Addressed, Due
  <2>5. ASSUME NEW q \in Satellites \ {p} PROVE Suppresses(q)' /\ Follows(q)'
    <3>1. suppressed'[q] = suppressed[q] /\ phase'[q] = phase[q]
      BY <2>1 DEF TypeInv, SatelliteTypes, QueueTypes
    <3>2. Aside(q) BY <1>1, <1>2, <2>1, <3>1 DEF Aside, Current
    <3>3. QED BY <3>2, AsideKept DEF AgreeInv
  <2>6. phase'[p] = "command" /\ suppressed'[p] = suppressed[p] \cup {Current(p).state}
    BY <2>1 DEF TypeInv, SatelliteTypes, QueueTypes
  <2>7. Current(p)' = Current(p) BY <2>1 DEF Current
  <2>8. Suppresses(p)' BY <1>1, <1>3, <2>6, <2>7 DEF Suppresses
  <2>9. Follows(p)'
    <3> SUFFICES ASSUME p \notin overlapped PROVE Follows(p)' BY <1>1 DEF Follows
    <3>1. PICK t \in TaskIds : t = Head(queue[p]).task BY <1>1, RequestsComeFrom DEF AgreeInv
    <3>2. /\ InRest(t, p) /\ InRound(t, p) /\ tasks[t].stage = "waiting"
          /\ \A i \in TaskIds : InRest(i, p) => i = t
      BY <1>1, <3>1, Demanded, RequestsComeFrom DEF AgreeInv
    <3>3. \A i \in TaskIds : InRest(i, p)' <=> InRest(i, p) BY <2>1 DEF InRest
    <3>4. ~Served(t, p)' BY <2>1, <2>6, <3>2 DEF Served
    <3>5. InRound(t, p)' BY <1>2, <2>1, <3>2, <3>3, <3>4 DEF InRound
    <3>6. QED BY <3>2, <3>3, <3>5 DEF Follows
  <2>10. QED BY <2>3, <2>4, <2>5, <2>8, <2>9 DEF AgreeInv
<1>6. QED BY <1>1, <1>4, <1>5

LEMMA CommandReturnsAgree ==
    ASSUME TypeInv, AgreeInv, NEW p \in Satellites, CommandReturns(p)
    PROVE  AgreeInv'
<1>1. /\ phase[p] = "run" /\ queue[p] # <<>> /\ Answer(p, "ok")
      /\ applied' = [applied EXCEPT ![p] = Current(p)]
      /\ UNCHANGED <<primaryVars, sent, overlapped, actual, suppressed, relays, budget>>
  BY DEF CommandReturns, RecordVersion, Current, TypeInv, QueueTypes
<1>2. UNCHANGED <<core, events, observed, revision, lastPushed>> BY <1>1 DEF primaryVars
<1>3. \A q \in Satellites \ {p} : applied'[q] = applied[q]
  BY <1>1 DEF TypeInv, SatelliteTypes
<1>4. \A q \in Satellites \ {p} : Suppresses(q)' /\ Follows(q)'
  BY <1>1, <1>3, AnswerAside
<1>5. Suppresses(p)' BY <1>1 DEF Suppresses, AgreeInv
<1>6. ASSUME p \notin overlapped PROVE Agrees(p)'
  <2>1. PICK t \in TaskIds : t = Head(queue[p]).task BY <1>1, RequestsComeFrom DEF AgreeInv
  <2>2. InRound(t, p) /\ tasks[t].rest[1] = p
    BY <1>1, <1>6, <2>1, Demanded, RequestsComeFrom DEF AgreeInv
  <2>3. Agrees(p) BY <1>1, <2>2 DEF InRound, Served
  <2>4. QED BY <1>1, <1>2, <2>3 DEF Agrees, CallsBack
<1>7. Follows(p)' BY <1>1, <1>2, <1>6, AnsweredFollows
<1>8. Calm' /\ LoopsFit' /\ News' /\ Addressed' BY <1>1, AnswerRest
<1>9. QED BY <1>4, <1>5, <1>7, <1>8 DEF AgreeInv

\* A switch of p's activity adds a relay step.
LEMMA SwitchesCalls ==
    ASSUME TypeInv, NEW p \in Satellites, NEW s \in States, Switches(p, s)
    PROVE  /\ actual'[p] = s /\ relays'[p] # <<>>
           /\ DOMAIN relays[p] = 1..Len(relays[p]) /\ DOMAIN relays'[p] = 1..Len(relays'[p])
           /\ Len(relays[p]) \in Nat /\ Len(relays'[p]) = Len(relays[p]) + 1
           /\ \A i \in 1..Len(relays[p]) : relays'[p][i] = relays[p][i]
           /\ relays'[p][Len(relays'[p])] = s
           /\ \A q \in Satellites \ {p} : actual'[q] = actual[q] /\ relays'[q] = relays[q]
<1>1. /\ relays \in [Satellites -> Seq(States)] /\ relays[p] \in Seq(States)
      /\ actual \in [Satellites -> States]
  BY DEF TypeInv, SatelliteTypes
<1>2. /\ actual'[p] = s /\ relays'[p] = Append(relays[p], s)
      /\ \A q \in Satellites \ {p} : actual'[q] = actual[q] /\ relays'[q] = relays[q]
  BY <1>1 DEF Switches
<1>3. /\ Append(relays[p], s) \in Seq(States) /\ Append(relays[p], s) # <<>>
      /\ Len(Append(relays[p], s)) = Len(relays[p]) + 1
      /\ \A i \in 1..Len(relays[p]) : Append(relays[p], s)[i] = relays[p][i]
      /\ Append(relays[p], s)[Len(relays[p]) + 1] = s
  BY <1>1, AppendProperties
<1>4. DOMAIN relays[p] = 1..Len(relays[p]) /\ Len(relays[p]) \in Nat BY <1>1
<1>5. DOMAIN relays'[p] = 1..Len(relays'[p]) BY <1>2, <1>3
<1>6. QED BY <1>2, <1>3, <1>4, <1>5

LEMMA CommandRunsAgree ==
    ASSUME TypeInv, AgreeInv, NEW p \in Satellites, CommandRuns(p)
    PROVE  AgreeInv'
<1>1. /\ phase[p] = "command" /\ queue[p] # <<>> /\ phase' = [phase EXCEPT ![p] = "run"]
      /\ Switches(p, Current(p).state)
      /\ UNCHANGED <<primaryVars, tasks, sent, overlapped, applied, queue, suppressed, budget>>
  BY DEF CommandRuns, Current, TypeInv, QueueTypes
<1>2. UNCHANGED <<core, events, observed, revision, lastPushed>> BY <1>1 DEF primaryVars
<1>3. Current(p).state \in States BY <1>1, RequestsComeFrom DEF AgreeInv, Updates
<1>4. Calm' /\ News' BY <1>1, PrimaryKept DEF AgreeInv
<1>5. LoopsFit' /\ Addressed' BY <1>1 DEF AgreeInv, LoopsFit, Addressed, Due
<1>6. ASSUME NEW q \in Satellites \ {p} PROVE Suppresses(q)' /\ Follows(q)'
  <2>1. relays'[q] = relays[q] /\ actual'[q] = actual[q] BY <1>1, <1>3, SwitchesCalls
  <2>2. phase'[q] = phase[q] BY <1>1 DEF TypeInv, QueueTypes
  <2>3. Aside(q) BY <1>1, <1>2, <2>1, <2>2 DEF Aside, Current
  <2>4. QED BY <2>3, AsideKept DEF AgreeInv
<1>7. Suppresses(p)'
  <2> SUFFICES ASSUME NEW s \in suppressed[p]
               PROVE  \E i \in DOMAIN relays'[p] : relays'[p][i] = s
    BY <1>1 DEF Suppresses
  <2>1. /\ DOMAIN relays[p] = 1..Len(relays[p]) /\ Len(relays[p]) \in Nat
        /\ DOMAIN relays'[p] = 1..(Len(relays[p]) + 1)
        /\ \A i \in 1..Len(relays[p]) : relays'[p][i] = relays[p][i]
        /\ relays'[p][Len(relays[p]) + 1] = Current(p).state
    BY <1>1, <1>3, SwitchesCalls
  <2>2. CASE \E i \in DOMAIN relays[p] : relays[p][i] = s BY <2>1, <2>2
  <2>3. CASE Current(p).state = s BY <2>1, <2>3
  <2>4. QED BY <2>2, <2>3 DEF AgreeInv, Suppresses
<1>8. Follows(p)'
  <2> SUFFICES ASSUME p \notin overlapped PROVE Follows(p)' BY <1>1 DEF Follows
  <2>1. PICK t \in TaskIds : t = Head(queue[p]).task BY <1>1, RequestsComeFrom DEF AgreeInv
  <2>2. /\ InRest(t, p) /\ InRound(t, p) /\ \A i \in TaskIds : InRest(i, p) => i = t
    BY <1>1, <2>1, Demanded
  <2>3. \A i \in TaskIds : InRest(i, p)' <=> InRest(i, p) BY <1>1 DEF InRest
  <2>4. actual'[p] = Current(p).state BY <1>1, <1>3, SwitchesCalls
  <2>5. Agrees(p)' BY <1>1, <1>2, <2>4, ShowsUpdate
  <2>6. InRound(t, p)' BY <1>1, <1>2, <2>2, <2>3, <2>5 DEF InRound
  <2>7. QED BY <2>2, <2>3, <2>6 DEF Follows
<1>9. QED BY <1>4, <1>5, <1>6, <1>7, <1>8 DEF AgreeInv
\* A change or a press leaves the Primary undisturbed.
LEMMA SpendCalm ==
    ASSUME TypeInv, Calm, NEW kind \in {"change", "press"}, Spend(kind), UNCHANGED <<listening, epoch>>
    PROVE  Calm'
<1>1. \A k \in Kinds \ {kind} : budget'[k] = budget[k] BY DEF Spend, TypeInv, PrimaryTypes
<1>2. {"failure", "restart", "initialize"} \subseteq Kinds \ {kind} BY DEF Kinds
<1>3. QED BY <1>1, <1>2 DEF Calm

\* A press is called back, once no command's relay step is still to come.
LEMMA PressCallsBack ==
    ASSUME TypeInv, NEW p \in Satellites, NEW s \in States, Switches(p, s), Suppresses(p),
           phase[p] # "command", UNCHANGED suppressed
    PROVE  CallsBack(p)'
<1>1. /\ DOMAIN relays[p] = 1..Len(relays[p]) /\ Len(relays[p]) \in Nat
      /\ relays'[p] # <<>> /\ Len(relays'[p]) = Len(relays[p]) + 1 /\ actual'[p] = s
      /\ \A i \in 1..Len(relays[p]) : relays'[p][i] = relays[p][i]
      /\ relays'[p][Len(relays'[p])] = s
  BY SwitchesCalls
<1>2. 1..(Len(relays'[p]) - 1) = 1..Len(relays[p]) BY <1>1
<1>3. s \in suppressed'[p] => \E i \in 1..Len(relays[p]) : relays'[p][i] = s
  BY <1>1 DEF Suppresses
<1>4. QED BY <1>1, <1>2, <1>3 DEF CallsBack

LEMMA UserPressesAgree ==
    ASSUME TypeInv, AgreeInv, NEW p \in Satellites, NEW s \in States, UserPresses(p, s)
    PROVE  AgreeInv'
<1>1. /\ Spend("press") /\ Switches(p, s)
      /\ UNCHANGED <<primaryVars, tasks, sent, overlapped, applied, queue, phase, suppressed>>
  BY DEF UserPresses
<1>2. UNCHANGED <<core, events, observed, revision, lastPushed, listening, epoch>>
  BY <1>1 DEF primaryVars
<1>3. Calm' BY <1>1, <1>2, SpendCalm DEF AgreeInv
<1>4. News' BY <1>2 DEF News, AgreeInv
<1>5. LoopsFit' /\ Addressed' BY <1>1 DEF AgreeInv, LoopsFit, Addressed, Due
<1>6. ASSUME NEW q \in Satellites \ {p} PROVE Suppresses(q)' /\ Follows(q)'
  <2>1. relays'[q] = relays[q] /\ actual'[q] = actual[q] BY <1>1, SwitchesCalls
  <2>2. Aside(q) BY <1>1, <1>2, <2>1 DEF Aside, Current
  <2>3. QED BY <2>2, AsideKept DEF AgreeInv
<1>7. Suppresses(p)'
  <2> SUFFICES ASSUME NEW r \in suppressed[p]
               PROVE  \/ \E i \in DOMAIN relays'[p] : relays'[p][i] = r
                      \/ phase[p] = "command" /\ Current(p).state = r
    BY <1>1 DEF Suppresses, Current
  <2>1. /\ DOMAIN relays[p] = 1..Len(relays[p]) /\ Len(relays[p]) \in Nat
        /\ DOMAIN relays'[p] = 1..(Len(relays[p]) + 1)
        /\ \A i \in 1..Len(relays[p]) : relays'[p][i] = relays[p][i]
    BY <1>1, SwitchesCalls
  <2>2. CASE \E i \in DOMAIN relays[p] : relays[p][i] = r BY <2>1, <2>2
  <2>3. QED BY <2>2 DEF AgreeInv, Suppresses
<1>8. Follows(p)'
  <2> SUFFICES ASSUME p \notin overlapped PROVE Follows(p)' BY <1>1 DEF Follows
  <2>1. phase[p] # "command" => Agrees(p)' BY <1>1, PressCallsBack DEF Agrees, AgreeInv
  <2>2. \A i \in TaskIds : InRest(i, p)' <=> InRest(i, p) BY <1>1 DEF InRest
  <2>3. ASSUME NEW t \in TaskIds, InRest(t, p) PROVE InRound(t, p)'
    <3>1. InRound(t, p) BY <2>3 DEF AgreeInv, Follows
    <3>2. Served(t, p)' => phase[p] # "command"
      <4>1. CASE phase[p] = "run" BY <4>1
      <4>2. CASE tasks[t].stage = "ok"
        <5>1. phase[p] = "idle" BY <3>1, <4>2, Undemanded DEF AgreeInv, InRound
        <5>2. QED BY <5>1
      <4>3. QED BY <1>1, <4>1, <4>2 DEF Served
    <3>3. Served(t, p)' => Agrees(p)' BY <2>1, <3>2
    <3>4. QED BY <1>1, <1>2, <2>2, <3>1, <3>3 DEF InRound
  <2>4. ASSUME \A t \in TaskIds : ~InRest(t, p) PROVE Rests(p)'
    <3>1. Rests(p) BY <2>4 DEF AgreeInv, Follows
    <3>2. phase[p] = "idle" BY <2>4, Undemanded DEF AgreeInv
    <3>3. QED BY <1>2, <2>1, <3>1, <3>2 DEF Rests
  <2>5. QED BY <2>2, <2>3, <2>4 DEF Follows
<1>9. QED BY <1>3, <1>4, <1>5, <1>6, <1>7, <1>8 DEF AgreeInv

LEMMA RequestArrivesAgree ==
    ASSUME TypeInv, AgreeInv, NEW m \in sent, RequestArrives(m)
    PROVE  AgreeInv'
<1>1. /\ sent' = sent \ {m} /\ queue' = [queue EXCEPT ![m.to] = Append(queue[m.to], m)]
      /\ UNCHANGED <<primaryVars, tasks, overlapped, actual, applied, phase, suppressed, relays, budget>>
  BY DEF RequestArrives
<1>2. UNCHANGED <<core, events, observed, revision, lastPushed>> BY <1>1 DEF primaryVars
<1>3. Calm' /\ News' BY <1>1, PrimaryKept DEF AgreeInv
<1>4. LoopsFit' BY <1>1 DEF AgreeInv, LoopsFit
<1>5. Addressed' BY <1>1, ArrivesQueues, AddressedKept DEF AgreeInv
<1>6. ASSUME NEW q \in Satellites PROVE Suppresses(q)' /\ Follows(q)'
  <2>1. queue[q] # <<>> => Current(q)' = Current(q) BY HeadKept
  <2>2. Aside(q) BY <1>1, <1>2, <2>1 DEF Aside
  <2>3. QED BY <2>2, AsideKept DEF AgreeInv
<1>7. QED BY <1>3, <1>4, <1>5, <1>6 DEF AgreeInv
-----------------------------------------------------------------------------
(* The Primary's Core changes.                                             *)

LEMMA CoreBecomesNews ==
    ASSUME TypeInv, Calm, News, ~Stateless, NEW s \in States, CoreBecomes(s)
    PROVE  /\ News' /\ UNCHANGED <<listening, epoch, observed, revision, lastPushed>>
           /\ s = core => UNCHANGED <<core, events>>
           /\ s # core => events' # <<>>
<1>1. UNCHANGED <<listening, epoch, observed, revision, lastPushed>> /\ core' = s
  BY DEF CoreBecomes
<1>2. CASE s = core
  <2>1. UNCHANGED <<core, events>> BY <1>2 DEF CoreBecomes
  <2>2. News' BY <1>1, <2>1 DEF News
  <2>3. QED BY <1>1, <1>2, <2>1, <2>2
<1>3. CASE s # core
  <2>1. PICK e : e = [state |-> s, seen |-> changes'] /\ events' = Append(events, e)
    BY <1>3 DEF CoreBecomes, Calm
  <2>2. e.state = s /\ e \in [state : States \cup {None}, seen : Nat]
    <3>1. changes' \in Nat BY <1>3 DEF CoreBecomes, TypeInv, PrimaryTypes
    <3>2. QED BY <2>1, <3>1
  <2>3. PICK n \in Nat : n = Len(events) BY EventTypes
  <2>4. /\ DOMAIN events = 1..n /\ DOMAIN events' = 1..(n + 1)
        /\ Len(events') = n + 1
        /\ \A i \in 1..n : events'[i] = events[i]
        /\ events'[n + 1] = e
    BY <2>1, <2>2, <2>3, EventTypes, AppendProperties
  <2>5. events' # <<>> BY <2>4
  <2>6. events = <<>> <=> n = 0 BY <2>3, EventTypes
  <2>7. \A i \in DOMAIN events' : events'[i].state \in States
    <3> TAKE i \in DOMAIN events'
    <3>1. i \in 1..n \/ i = n + 1 BY <2>4
    <3>2. QED BY <2>2, <2>4, <3>1 DEF News
  <2>8. ASSUME NEW i \in DOMAIN events', NEW j \in DOMAIN events', j = i + 1
        PROVE  events'[i].state # events'[j].state
    <3>1. CASE j \in 1..n
      <4>1. i \in 1..n BY <2>4, <2>8, <3>1
      <4>2. QED BY <2>4, <2>8, <3>1, <4>1 DEF News
    <3>2. CASE j = n + 1
      <4>1. i = n /\ i \in 1..n BY <2>4, <2>8, <3>2
      <4>2. events[n].state = core BY <2>3, <2>6, <4>1 DEF News
      <4>3. QED BY <1>3, <2>2, <2>4, <3>2, <4>1, <4>2
    <3>3. QED BY <2>4, <3>1, <3>2
  <2>9. events'[1].state # observed'
    <3>1. CASE n = 0
      <4>1. events'[1] = e BY <2>4, <3>1
      <4>2. observed \in {None, core} BY <2>6, <3>1 DEF News
      <4>3. QED BY <1>1, <1>3, <2>2, <4>1, <4>2, ConstantsAssumption
    <3>2. CASE n # 0
      <4>1. 1 \in 1..n BY <3>2
      <4>2. QED BY <1>1, <2>4, <2>6, <3>2, <4>1 DEF News
    <3>3. QED BY <3>1, <3>2
  <2>10. events'[Len(events')].state = core' BY <1>1, <2>2, <2>4
  <2>11. News' BY <2>5, <2>7, <2>8, <2>9, <2>10 DEF News
  <2>12. QED BY <1>1, <1>3, <2>5, <2>11
<1>4. QED BY <1>2, <1>3

\* Who keeps agreeing with the Primary keeps following it.
LEMMA AgreesKept ==
    ASSUME NEW p \in Satellites, Follows(p), Agrees(p) => Agrees(p)',
           UNCHANGED <<observed, revision, lastPushed, overlapped, tasks, phase, applied>>
    PROVE  Follows(p)'
<1>1. \A i \in TaskIds : InRest(i, p)' <=> InRest(i, p) BY DEF InRest
<1>2. ASSUME NEW t \in TaskIds, InRound(t, p) PROVE InRound(t, p)'
  <2>1. Served(t, p)' <=> Served(t, p) BY DEF Served
  <2>2. QED BY <1>1, <1>2, <2>1 DEF InRound
<1>3. Rests(p) => Rests(p)' BY DEF Rests
<1>4. QED BY <1>1, <1>2, <1>3 DEF Follows

LEMMA CoreChangesAgree ==
    ASSUME TypeInv, AgreeInv, ~Stateless, CoreChanges
    PROVE  AgreeInv'
<1>1. PICK s \in States \ {core} : CoreBecomes(s) BY DEF CoreChanges
<1>2. Spend("change") /\ UNCHANGED <<tasks, sent, overlapped, satelliteVars>> BY DEF CoreChanges
<1>3. /\ News' /\ UNCHANGED <<listening, epoch, observed, revision, lastPushed>>
      /\ events' # <<>>
  BY <1>1, CoreBecomesNews DEF AgreeInv
<1>4. Calm' BY <1>2, <1>3, SpendCalm DEF AgreeInv
<1>5. LoopsFit' /\ Addressed' BY <1>2 DEF AgreeInv, LoopsFit, Addressed, Due, satelliteVars
<1>6. ASSUME NEW p \in Satellites PROVE Suppresses(p)' /\ Follows(p)'
  <2>1. Suppresses(p)' BY <1>2 DEF AgreeInv, Suppresses, Current, satelliteVars
  <2>2. Agrees(p)' BY <1>3 DEF Agrees
  <2>3. Follows(p)' BY <1>2, <1>3, <2>2, AgreesKept DEF AgreeInv, satelliteVars
  <2>4. QED BY <2>1, <2>3
<1>7. QED BY <1>3, <1>4, <1>5, <1>6 DEF AgreeInv

\* The first relay step runs: the later ones still call back, and a suppression
\* that stays still has its relay step.
LEMMA ForwardsCall ==
    ASSUME TypeInv, NEW p \in Satellites, relays[p] # <<>>, NEW s, s = Head(relays[p]),
           relays' = [relays EXCEPT ![p] = Tail(@)],
           suppressed' = [suppressed EXCEPT ![p] = @ \ {s}],
           UNCHANGED <<actual, phase, queue>>, Suppresses(p)
    PROVE  /\ Suppresses(p)'
           /\ CallsBack(p) => CallsBack(p)' \/ (s \notin suppressed[p] /\ s = actual[p])
           /\ \A q \in Satellites \ {p} : relays'[q] = relays[q] /\ suppressed'[q] = suppressed[q]
<1>1. /\ relays \in [Satellites -> Seq(States)] /\ relays[p] \in Seq(States)
      /\ suppressed \in [Satellites -> SUBSET States]
  BY DEF TypeInv, SatelliteTypes
<1>2. /\ relays'[p] = Tail(relays[p]) /\ suppressed'[p] = suppressed[p] \ {s}
      /\ \A q \in Satellites \ {p} : relays'[q] = relays[q] /\ suppressed'[q] = suppressed[q]
  BY <1>1
<1>3. PICK n \in Nat : n = Len(relays[p]) BY <1>1
<1>4. /\ n \in Nat \ {0} /\ DOMAIN relays[p] = 1..n /\ s = relays[p][1]
      /\ relays'[p] \in Seq(States) /\ Len(relays'[p]) = n - 1 /\ DOMAIN relays'[p] = 1..(n - 1)
      /\ \A i \in 1..(n - 1) : relays'[p][i] = relays[p][i + 1]
  BY <1>1, <1>2, <1>3, HeadTailProperties
<1>5. \A i \in 2..n : i - 1 \in 1..(n - 1) /\ relays'[p][i - 1] = relays[p][i]
  <2> TAKE i \in 2..n
  <2>1. i - 1 \in 1..(n - 1) /\ (i - 1) + 1 = i BY <1>4
  <2>2. QED BY <1>4, <2>1
<1>6. \A i \in 1..n : relays[p][i] # s => i \in 2..n BY <1>4
<1>7. Suppresses(p)'
  <2> SUFFICES ASSUME NEW r \in suppressed[p] \ {s}
               PROVE  \/ \E i \in DOMAIN relays'[p] : relays'[p][i] = r
                      \/ phase[p] = "command" /\ Current(p).state = r
    BY <1>2 DEF Suppresses, Current
  <2>1. CASE \E i \in DOMAIN relays[p] : relays[p][i] = r
    <3>1. PICK i \in 1..n : relays[p][i] = r BY <1>4, <2>1
    <3>2. i \in 2..n BY <1>6, <3>1
    <3>3. QED BY <1>4, <1>5, <3>1, <3>2
  <2>2. QED BY <2>1 DEF Suppresses
<1>8. ASSUME CallsBack(p), s \in suppressed[p] \/ s # actual[p] PROVE CallsBack(p)'
  <2>1. relays[p][n] = actual[p] BY <1>3, <1>8 DEF CallsBack
  <2>2. actual[p] \in suppressed[p] => \E i \in 1..(n - 1) : relays[p][i] = actual[p]
    BY <1>3, <1>8 DEF CallsBack
  <2>3. n # 1
    <3> SUFFICES ASSUME n = 1 PROVE FALSE OBVIOUS
    <3>1. s = actual[p] BY <1>4, <2>1
    <3>2. QED BY <1>8, <2>2, <3>1
  <2>4. n \in 2..n /\ n - 1 \in 1..(n - 1)
    <3>1. n \in Nat \ {0} BY <1>4
    <3>2. QED BY <2>3, <3>1
  <2>5. relays'[p] # <<>> /\ relays'[p][n - 1] = actual[p]
    <3>1. relays'[p][n - 1] = relays[p][n] BY <1>5, <2>4
    <3>2. n - 1 # 0 BY <2>4
    <3>3. relays'[p] # <<>> BY <1>4, <3>2, EmptySeq
    <3>4. QED BY <2>1, <3>1, <3>3
  <2>6. ASSUME actual[p] \in suppressed[p] \ {s}
        PROVE  \E i \in 1..(n - 2) : relays'[p][i] = actual[p]
    <3>1. PICK i \in 1..(n - 1) : relays[p][i] = actual[p] BY <2>2, <2>6
    <3>2. i \in 2..n BY <1>4, <1>6, <2>6, <3>1
    <3>3. i - 1 \in 1..(n - 2) BY <1>4, <3>1, <3>2
    <3>4. QED BY <1>5, <3>1, <3>2, <3>3
  <2>7. Len(relays'[p]) = n - 1 /\ (n - 1) - 1 = n - 2 BY <1>4
  <2>8. QED BY <1>2, <2>5, <2>6, <2>7 DEF CallsBack
<1>9. QED BY <1>2, <1>7, <1>8

LEMMA ForwardsAgree ==
    ASSUME TypeInv, AgreeInv, ~Stateless, NEW p \in Satellites, Forwards(p)
    PROVE  AgreeInv'
<1>1. PICK s : s = Head(relays[p]) OBVIOUS
<1>2. /\ relays[p] # <<>> /\ relays' = [relays EXCEPT ![p] = Tail(@)]
      /\ suppressed' = [suppressed EXCEPT ![p] = @ \ {s}]
      /\ UNCHANGED <<tasks, sent, overlapped, actual, applied, queue, phase>>
  BY <1>1 DEF Forwards
<1>3. /\ Suppresses(p)'
      /\ CallsBack(p) => CallsBack(p)' \/ (s \notin suppressed[p] /\ s = actual[p])
      /\ \A q \in Satellites \ {p} : relays'[q] = relays[q] /\ suppressed'[q] = suppressed[q]
  BY <1>1, <1>2, ForwardsCall DEF AgreeInv
<1>4. /\ UNCHANGED budget
      /\ \/ s \in suppressed[p] /\ UNCHANGED primaryVars
         \/ s \notin suppressed[p] /\ CoreBecomes(s)
  <2>1. ~Spend("failure") BY DEF Spend, AgreeInv, Calm
  <2>2. QED BY <1>1, <2>1 DEF Forwards
<1>5. s \in States
  <2>1. relays[p] \in Seq(States) BY DEF TypeInv, SatelliteTypes
  <2>2. QED BY <1>1, <1>2, <2>1, HeadTailProperties
<1>6. /\ News' /\ UNCHANGED <<listening, epoch, observed, revision, lastPushed>>
      /\ \/ events' # <<>>
         \/ UNCHANGED <<core, events>> /\ (s \in suppressed[p] \/ s = core)
  <2>1. CASE s \in suppressed[p] /\ UNCHANGED primaryVars
    <3>1. UNCHANGED <<listening, epoch, observed, revision, lastPushed, core, events>>
      BY <2>1 DEF primaryVars
    <3>2. News' BY <3>1 DEF News, AgreeInv
    <3>3. QED BY <2>1, <3>1, <3>2
  <2>2. CASE CoreBecomes(s) BY <1>5, <2>2, CoreBecomesNews DEF AgreeInv
  <2>3. QED BY <1>4, <2>1, <2>2
<1>7. Calm' BY <1>4, <1>6 DEF Calm, AgreeInv
<1>8. LoopsFit' /\ Addressed' BY <1>2 DEF AgreeInv, LoopsFit, Addressed, Due
<1>9. ASSUME NEW q \in Satellites PROVE Suppresses(q)' /\ Follows(q)'
  <2>1. Suppresses(q)'
    <3>1. CASE q = p BY <1>3, <3>1
    <3>2. CASE q # p
      <4>1. relays'[q] = relays[q] /\ suppressed'[q] = suppressed[q] BY <1>3, <3>2
      <4>2. Current(q)' = Current(q) BY <1>2 DEF Current
      <4>3. phase'[q] = phase[q] /\ Suppresses(q) BY <1>2 DEF AgreeInv
      <4>4. QED BY <4>1, <4>2, <4>3 DEF Suppresses
    <3>3. QED BY <3>1, <3>2
  <2>2. ASSUME Agrees(q) PROVE Agrees(q)'
    <3> SUFFICES ASSUME events' = <<>> PROVE actual[q] = core \/ CallsBack(q)'
      BY <1>2, <1>6 DEF Agrees
    <3>1. UNCHANGED <<core, events>> /\ (s \in suppressed[p] \/ s = core) BY <1>6
    <3>2. actual[q] = core \/ CallsBack(q) BY <2>2, <3>1 DEF Agrees
    <3>3. CASE q = p BY <1>3, <3>1, <3>2, <3>3
    <3>4. CASE q # p
      <4>1. relays'[q] = relays[q] /\ suppressed'[q] = suppressed[q] BY <1>3, <3>4
      <4>2. QED BY <1>2, <3>2, <4>1 DEF CallsBack
    <3>5. QED BY <3>3, <3>4
  <2>3. Follows(q)' BY <1>2, <1>6, <2>2, AgreesKept DEF AgreeInv
  <2>4. QED BY <2>1, <2>3
<1>10. QED BY <1>6, <1>7, <1>8, <1>9 DEF AgreeInv
-----------------------------------------------------------------------------
(* The Primary's rounds of pushes.                                         *)

\* A task goes on with its loop: its request, if it makes one, is due.
LEMMA AdvanceFits ==
    ASSUME TypeInv, LoopsFit, Addressed, NEW t \in TaskIds, tasks[t].stage # "waiting",
           NEW u \in Updates, NEW peers \in Seq(Satellites), Distinct(peers),
           Advance(t, u, peers), UNCHANGED queue
    PROVE  LoopsFit' /\ Addressed'
<1>1. /\ \A i \in TaskIds \ {t} : tasks'[i] = tasks[i]
      /\ \/ tasks'[t].stage = "idle" /\ tasks'[t].rest = <<>>
         \/ tasks'[t].stage = "waiting" /\ tasks'[t].update = u
      /\ Distinct(tasks'[t].rest)
      /\ \/ sent' = sent
         \/ \E m : /\ sent' = sent \cup {m} /\ m.task = t /\ m.update = u
                   /\ tasks'[t].rest[1] = m.to /\ tasks'[t].update = u
  BY AdvanceLoop
<1>2. LoopsFit'
  <2> SUFFICES ASSUME NEW i \in TaskIds
               PROVE  /\ tasks'[i].stage \in {"idle", "waiting", "ok"}
                      /\ tasks'[i].stage = "idle" => tasks'[i].rest = <<>>
                      /\ Distinct(tasks'[i].rest)
    BY DEF LoopsFit, Distinct
  <2>1. CASE i = t BY <1>1, <2>1
  <2>2. CASE i # t
    <3>1. tasks'[i] = tasks[i] BY <1>1, <2>2
    <3>2. Distinct(tasks'[i].rest) BY <3>1 DEF LoopsFit, Distinct
    <3>3. QED BY <3>1, <3>2 DEF LoopsFit
  <2>3. QED BY <2>1, <2>2
<1>3. /\ \A m \in sent : m.task \in TaskIds \cup {0} /\ m.task # t
      /\ \A p \in Satellites : \A i \in DOMAIN queue[p] :
             queue[p][i].task \in TaskIds \cup {0} /\ queue[p][i].task # t
  <2>1. \A m \in sent : m.task \in TaskIds \cup {0} BY DEF TypeInv, TaskTypes, Requests
  <2>2. \A p \in Satellites : \A i \in DOMAIN queue[p] : queue[p][i] \in Requests
    BY DEF TypeInv, QueueTypes
  <2>3. QED BY <2>1, <2>2, NothingUnderWay DEF Requests
<1>4. \A m : Due(m) /\ m.task \in TaskIds \cup {0} /\ m.task # t => Due(m)' BY <1>1 DEF Due
<1>5. \A m \in sent : Due(m)' BY <1>3, <1>4 DEF Addressed
<1>6. \A p \in Satellites : \A i \in DOMAIN queue[p] : queue[p][i].to = p /\ Due(queue[p][i])'
  <2> TAKE p \in Satellites
  <2> TAKE i \in DOMAIN queue[p]
  <2>1. PICK m : m = queue[p][i] OBVIOUS
  <2>2. m.to = p /\ Due(m) /\ m.task \in TaskIds \cup {0} /\ m.task # t
    BY <1>3, <2>1 DEF Addressed
  <2>3. Due(m)' BY <1>4, <2>2
  <2>4. m.task # 0 /\ tasks'[m.task].rest[1] = m.to /\ tasks'[m.task].update = m.update
    BY <2>3 DEF Due
  <2>5. QED BY <2>1, <2>2, <2>4 DEF Due
<1>7. \A m \in sent' : Due(m)'
  <2>1. CASE sent' = sent BY <1>5, <2>1
  <2>2. CASE sent' # sent
    <3>1. PICK m : /\ sent' = sent \cup {m} /\ m.task = t /\ m.update = u
                   /\ tasks'[t].rest[1] = m.to /\ tasks'[t].update = u
      BY <1>1, <2>2
    <3>2. Due(m)' BY <3>1, LoopTypes DEF Due
    <3>3. QED BY <1>5, <3>1, <3>2
  <2>3. QED BY <2>1, <2>2
<1>8. \A p \in Satellites : \A i \in DOMAIN queue'[p] :
        /\ queue'[p][i].to = p /\ queue'[p][i].task # 0
        /\ tasks'[queue'[p][i].task].rest[1] = queue'[p][i].to
        /\ tasks'[queue'[p][i].task].update = queue'[p][i].update
  BY <1>6 DEF Due
<1>9. Addressed' BY <1>7, <1>8 DEF Addressed, Due
<1>10. QED BY <1>2, <1>9

\* The oldest event is handled.
LEMMA NextEventNews ==
    ASSUME TypeInv, News, events # <<>>, events' = Tail(events), observed' = Head(events).state,
           UNCHANGED core
    PROVE  News'
<1> DEFINE E == [state : States \cup {None}, seen : Nat]
<1>1. events \in Seq(E) BY EventTypes
<1> HIDE DEF E
<1>2. PICK n \in Nat : n = Len(events) BY <1>1
<1>3. /\ n \in Nat \ {0} /\ DOMAIN events = 1..n /\ Head(events) = events[1]
      /\ Len(events') = n - 1 /\ DOMAIN events' = 1..(n - 1)
      /\ \A i \in 1..(n - 1) : events'[i] = events[i + 1]
  BY <1>1, <1>2, HeadTailProperties
<1>4. \A i \in 1..(n - 1) : i \in 1..n /\ i + 1 \in 1..n BY <1>3
<1>5. \A i \in DOMAIN events' : events'[i].state \in States BY <1>3, <1>4 DEF News
<1>6. ASSUME NEW i \in DOMAIN events', NEW j \in DOMAIN events', j = i + 1
      PROVE  events'[i].state # events'[j].state
  <2>1. j + 1 = (i + 1) + 1 /\ i + 1 \in DOMAIN events /\ j + 1 \in DOMAIN events
    BY <1>3, <1>4, <1>6
  <2>2. events[i + 1].state # events[j + 1].state BY <2>1 DEF News
  <2>3. QED BY <1>3, <1>6, <2>2
<1>7. ASSUME n - 1 # 0
      PROVE  events'[1].state # observed' /\ events'[Len(events')].state = core'
  <2>1. 1 \in 1..(n - 1) /\ n - 1 \in 1..(n - 1) /\ (n - 1) + 1 = n /\ 1 + 1 = 2 /\ 2 \in 1..n /\ 1 \in 1..n
    BY <1>3, <1>7
  <2>2. events'[1] = events[2] /\ events'[n - 1] = events[n] BY <1>3, <2>1
  <2>3. events[1].state # events[2].state BY <1>3, <2>1 DEF News
  <2>4. events[n].state = core BY <1>2 DEF News
  <2>5. QED BY <1>3, <2>2, <2>3, <2>4
<1>8. ASSUME n - 1 = 0 PROVE observed' = core' /\ events' = <<>>
  <2>1. n = 1 BY <1>3, <1>8
  <2>2. events[n].state = core BY <1>2 DEF News
  <2>3. Tail(events) \in Seq(E) /\ Len(Tail(events)) = 0
    <3>1. events # <<>> OBVIOUS
    <3>2. QED BY <1>1, <1>3, <2>1, <3>1, HeadTailProperties
  <2>4. events' = <<>> BY <2>3, EmptySeq
  <2>5. QED BY <1>3, <2>1, <2>2, <2>4
<1>9. QED BY <1>3, <1>5, <1>6, <1>7, <1>8 DEF News

LEMMA HandleEventAgree ==
    ASSUME TypeInv, Chronological, AgreeInv, Undisturbed, NEW t \in TaskIds, HandleEvent(t)
    PROVE  AgreeInv'
<1>1. /\ events # <<>> /\ tasks[t].stage = "idle" /\ events' = Tail(events)
      /\ UNCHANGED <<core, listening, epoch, lastPushed, satelliteVars, budget>>
  BY DEF HandleEvent, IsFree
<1>2. PICK e : e = Head(events) OBVIOUS
<1>3. /\ e.state \in States /\ e.state # None /\ e.state # observed /\ e.seen \in Nat
  <2>1. 1 \in DOMAIN events /\ e = events[1]
    <3> DEFINE E == [state : States \cup {None}, seen : Nat]
    <3>1. events \in Seq(E) BY EventTypes
    <3> HIDE DEF E
    <3>2. QED BY <1>1, <1>2, <3>1, HeadTailProperties
  <2>2. QED BY <1>1, <2>1, EventTypes, ConstantsAssumption DEF AgreeInv, News
<1>4. PICK u : u = Stamp(e.state, e.seen) OBVIOUS
<1>5. observed' = e.state /\ revision' = revision + 1 /\ Advance(t, u, Order)
  BY <1>2, <1>3, <1>4 DEF HandleEvent, Observe
<1>6. u \in Updates /\ u.state = e.state /\ u.revision = revision + 1
  BY <1>3, <1>4, StampTypes DEF Stamp
<1>7. Distinct(Order) BY DEF Undisturbed, Distinct
<1>8. tasks[t].stage # "waiting" /\ UNCHANGED queue BY <1>1 DEF satelliteVars
<1>9. LoopsFit' /\ Addressed' BY <1>5, <1>6, <1>7, <1>8, OrderTypes, AdvanceFits DEF AgreeInv
<1>10. News' BY <1>1, <1>2, <1>5, NextEventNews DEF AgreeInv
<1>11. Calm' BY <1>1 DEF AgreeInv, Calm
<1>12. ASSUME NEW q \in Satellites PROVE Suppresses(q)' /\ Follows(q)'
  <2>1. Suppresses(q)' BY <1>1 DEF AgreeInv, Suppresses, Current, satelliteVars
  <2> SUFFICES ASSUME q \notin overlapped' PROVE Follows(q)' BY <2>1 DEF Follows
  <2>2. PICK j \in DOMAIN Order : Order[j] = q BY DEF Satellites
  <2>3. /\ \A i \in TaskIds \ {t} : tasks'[i] = tasks[i]
        /\ lastPushed[q] # u.state => /\ tasks'[t].stage = "waiting"
                                      /\ \E k \in DOMAIN tasks'[t].rest : tasks'[t].rest[k] = q
        /\ \/ tasks'[t].stage = "idle" /\ tasks'[t].rest = <<>>
           \/ tasks'[t].stage = "waiting" /\ tasks'[t].update = u
        /\ q \notin overlapped
        /\ \A i \in TaskIds \ {t} : ~InRest(i, q)
    BY <1>5, <1>6, <1>7, <2>2, OrderTypes, AdvanceLoop
  <2>4. \A i \in TaskIds : ~InRest(i, q)
    <3>1. tasks[t].rest = <<>> BY <1>1 DEF AgreeInv, LoopsFit
    <3>2. ~InRest(t, q) BY <3>1 DEF InRest
    <3>3. QED BY <2>3, <3>2
  <2>5. lastPushed[q] = observed BY <2>3, <2>4 DEF AgreeInv, Follows, Rests
  <2>6. tasks'[t].stage = "waiting" /\ tasks'[t].update = u /\ InRest(t, q)'
    BY <1>3, <1>6, <2>3, <2>5 DEF InRest
  <2>7. \A i \in TaskIds \ {t} : ~InRest(i, q)' BY <2>3, <2>4 DEF InRest
  <2>8. phase'[q] = "idle" BY <1>1, <2>4, Undemanded DEF AgreeInv, satelliteVars
  <2>9. applied'[q] = None \/ applied'[q].revision < revision'
    <3> SUFFICES ASSUME applied[q] # None PROVE applied[q].revision < revision + 1
      BY <1>1, <1>5 DEF satelliteVars
    <3>1. applied[q] \in Updates /\ Past(applied[q])
      BY KnownIntro DEF Chronological
    <3>2. applied[q].epoch = epoch BY <3>1 DEF Past, Updates, AgreeInv, Calm
    <3>3. revision \in Nat /\ applied[q].revision \in Nat
      BY <3>1 DEF TypeInv, PrimaryTypes, Updates
    <3>4. QED BY <3>1, <3>2, <3>3 DEF Past
  <2>10. ~Served(t, q)' BY <2>6, <2>8 DEF Served
  <2>11. lastPushed'[q] # observed' BY <1>1, <1>3, <1>5, <2>5
  <2>12. InRound(t, q)' BY <1>5, <1>6, <2>6, <2>7, <2>9, <2>10, <2>11 DEF InRound
  <2>13. QED BY <2>6, <2>7, <2>12 DEF Follows
<1>13. QED BY <1>9, <1>10, <1>11, <1>12 DEF AgreeInv
\* Whom the loop of task t has yet to come to.
LEMMA RestTail ==
    ASSUME TypeInv, NEW t \in TaskIds, tasks[t].rest # <<>>, Distinct(tasks[t].rest)
    PROVE  /\ Tail(tasks[t].rest) \in Seq(Satellites) /\ Distinct(Tail(tasks[t].rest))
           /\ \A q : (\E j \in DOMAIN Tail(tasks[t].rest) : Tail(tasks[t].rest)[j] = q)
                     <=> InRest(t, q) /\ q # tasks[t].rest[1]
<1>1. PICK rest \in Seq(Satellites) : rest = tasks[t].rest BY LoopTypes
<1>2. PICK n \in Nat : n = Len(rest) BY <1>1
<1>3. /\ n \in Nat \ {0} /\ DOMAIN rest = 1..n /\ Tail(rest) \in Seq(Satellites)
      /\ Len(Tail(rest)) = n - 1 /\ DOMAIN Tail(rest) = 1..(n - 1)
      /\ \A i \in 1..(n - 1) : Tail(rest)[i] = rest[i + 1]
  BY <1>1, <1>2, HeadTailProperties
<1>4. /\ \A i \in 1..(n - 1) : i \in Nat /\ i + 1 \in 2..n /\ i + 1 \in 1..n
      /\ \A i \in 2..n : i \in 1..n /\ i - 1 \in 1..(n - 1) /\ (i - 1) + 1 = i
      /\ \A i \in 1..n : i = 1 \/ i \in 2..n
      /\ 1 \in 1..n /\ 1 \notin 2..n
  BY <1>3
<1>5. \A i, j \in 1..n : rest[i] = rest[j] => i = j BY <1>1, <1>3 DEF Distinct
<1>6. Distinct(Tail(rest))
  <2> SUFFICES ASSUME NEW i \in 1..(n - 1), NEW j \in 1..(n - 1), Tail(rest)[i] = Tail(rest)[j]
               PROVE  i = j
    BY <1>3 DEF Distinct
  <2>1. rest[i + 1] = rest[j + 1] BY <1>3
  <2>2. i + 1 = j + 1 BY <1>4, <1>5, <2>1
  <2>3. QED BY <2>2
<1>7. ASSUME NEW q, NEW j \in DOMAIN Tail(rest), Tail(rest)[j] = q
      PROVE  InRest(t, q) /\ q # rest[1]
  <2>1. j + 1 \in 2..n /\ j + 1 \in 1..n /\ rest[j + 1] = q BY <1>3, <1>4, <1>7
  <2>2. InRest(t, q) BY <1>1, <1>3, <2>1 DEF InRest
  <2>3. q # rest[1] BY <1>4, <1>5, <2>1
  <2>4. QED BY <2>2, <2>3
<1>8. ASSUME NEW q, InRest(t, q), q # rest[1]
      PROVE  \E j \in DOMAIN Tail(rest) : Tail(rest)[j] = q
  <2>1. PICK i \in 1..n : rest[i] = q BY <1>1, <1>3, <1>8 DEF InRest
  <2>2. i \in 2..n BY <1>4, <1>8, <2>1
  <2>3. i - 1 \in 1..(n - 1) /\ Tail(rest)[i - 1] = q BY <1>3, <1>4, <2>1, <2>2
  <2>4. QED BY <1>3, <2>3
<1>9. QED BY <1>1, <1>3, <1>6, <1>7, <1>8

LEMMA PushReturnsAgree ==
    ASSUME TypeInv, AgreeInv, NEW t \in TaskIds, PushReturns(t)
    PROVE  AgreeInv'
<1> DEFINE h == tasks[t].rest[1]
           u == tasks[t].update
           peers == Tail(tasks[t].rest)
<1>1. /\ tasks[t].stage = "ok" /\ Advance(t, u, peers)
      /\ lastPushed' = [lastPushed EXCEPT ![h] = u.state]
      /\ UNCHANGED <<core, listening, events, epoch, revision, observed, satelliteVars, budget>>
  BY DEF PushReturns, AgreeInv, LoopsFit
<1>2. /\ tasks[t].rest # <<>> /\ u \in Updates /\ h \in Satellites /\ Distinct(tasks[t].rest)
  BY <1>1, LoopTypes DEF TypeInv, TaskTypes, AgreeInv, LoopsFit
<1>3. /\ peers \in Seq(Satellites) /\ Distinct(peers)
      /\ \A q : (\E j \in DOMAIN peers : peers[j] = q) <=> InRest(t, q) /\ q # h
  BY <1>2, RestTail
<1> HIDE DEF peers
<1>4. tasks[t].stage # "waiting" /\ UNCHANGED queue BY <1>1 DEF satelliteVars
<1>5. LoopsFit' /\ Addressed' BY <1>1, <1>2, <1>3, <1>4, AdvanceFits DEF AgreeInv
<1>6. Calm' /\ News' BY <1>1 DEF AgreeInv, Calm, News
<1>7. /\ lastPushed'[h] = u.state /\ \A q \in Satellites \ {h} : lastPushed'[q] = lastPushed[q]
  BY <1>1, <1>2 DEF TypeInv, PrimaryTypes
<1>8. /\ \A i \in TaskIds \ {t} : tasks'[i] = tasks[i]
      /\ \/ tasks'[t].stage = "idle" /\ tasks'[t].rest = <<>>
         \/ tasks'[t].stage = "waiting" /\ tasks'[t].update = u
      /\ \A k \in DOMAIN tasks'[t].rest : \E j \in DOMAIN peers : peers[j] = tasks'[t].rest[k]
      /\ \A j \in DOMAIN peers : lastPushed[peers[j]] # u.state =>
            /\ tasks'[t].stage = "waiting"
            /\ \E k \in DOMAIN tasks'[t].rest : tasks'[t].rest[k] = peers[j]
      /\ \A q \in Satellites \ overlapped' : q \notin overlapped
  BY <1>1, <1>2, <1>3, AdvanceLoop
<1>9. ASSUME NEW q \in Satellites PROVE Suppresses(q)' /\ Follows(q)'
  <2>1. Suppresses(q)' BY <1>1 DEF AgreeInv, Suppresses, Current, satelliteVars
  <2> SUFFICES ASSUME q \notin overlapped' PROVE Follows(q)' BY <2>1 DEF Follows
  <2>2. /\ \A i \in TaskIds : InRest(i, q) => InRound(i, q)
        /\ (\A i \in TaskIds : ~InRest(i, q)) => Rests(q)
    BY <1>8 DEF AgreeInv, Follows
  <2>3. Agrees(q)' <=> Agrees(q) BY <1>1 DEF Agrees, CallsBack, satelliteVars
  <2>4. \A i \in TaskIds \ {t} : InRest(i, q)' <=> InRest(i, q) BY <1>8 DEF InRest
  <2>5. ASSUME InRest(t, q)' PROVE InRest(t, q) /\ q # h
    <3>1. PICK k \in DOMAIN tasks'[t].rest : tasks'[t].rest[k] = q BY <2>5 DEF InRest
    <3>2. \E j \in DOMAIN peers : peers[j] = q BY <1>8, <3>1
    <3>3. QED BY <1>3, <3>2
  <2>6. CASE q = h
    <3>1. InRest(t, h) /\ InRound(t, h) BY <1>2, <2>2, <2>6, LoopTypes
    <3>2. \A i \in TaskIds : ~InRest(i, q)' BY <2>4, <2>5, <2>6, <3>1 DEF InRound
    <3>3. Agrees(h) /\ u.state = observed BY <1>1, <3>1 DEF InRound, Served
    <3>4. Rests(q)' BY <1>1, <1>7, <2>3, <2>6, <3>3 DEF Rests
    <3>5. QED BY <3>2, <3>4 DEF Follows
  <2>7. CASE q # h /\ InRest(t, q)
    <3>1. InRound(t, q) BY <2>2, <2>7
    <3>2. \A i \in TaskIds \ {t} : ~InRest(i, q) /\ ~InRest(i, q)' BY <2>4, <3>1 DEF InRound
    <3>3. PICK j \in DOMAIN peers : peers[j] = q BY <1>3, <2>7
    <3>4. lastPushed[q] # u.state BY <3>1 DEF InRound
    <3>5. tasks'[t].stage = "waiting" /\ tasks'[t].update = u /\ InRest(t, q)'
      BY <1>8, <3>3, <3>4 DEF InRest
    <3>6. phase[q] = "idle" BY <2>7, <3>2, Undemanded DEF AgreeInv
    <3>7. ~Served(t, q)' BY <1>1, <3>5, <3>6 DEF Served, satelliteVars
    <3>8. applied'[q] = None \/ applied'[q].revision < revision'
      BY <1>1, <2>7, <3>1 DEF InRound, satelliteVars
    <3>9. lastPushed'[q] # observed' BY <1>1, <1>7, <2>7, <3>1 DEF InRound
    <3>10. InRound(t, q)' BY <1>1, <3>1, <3>2, <3>5, <3>7, <3>8, <3>9 DEF InRound
    <3>11. QED BY <3>2, <3>5, <3>10 DEF Follows
  <2>8. CASE q # h /\ ~InRest(t, q)
    <3>1. \A i \in TaskIds : InRest(i, q)' <=> InRest(i, q) BY <2>4, <2>5, <2>8
    <3>2. ASSUME NEW i \in TaskIds, InRest(i, q) PROVE InRound(i, q)'
      <4>1. InRound(i, q) /\ i # t BY <2>2, <2>8, <3>2
      <4>2. tasks'[i] = tasks[i] BY <1>8, <4>1
      <4>3. Served(i, q)' <=> Served(i, q) BY <1>1, <4>2 DEF Served, satelliteVars
      <4>4. applied'[q] = applied[q] /\ lastPushed'[q] = lastPushed[q]
        BY <1>1, <1>7, <2>8 DEF satelliteVars
      <4>5. QED BY <1>1, <2>3, <3>1, <4>1, <4>2, <4>3, <4>4 DEF InRound
    <3>3. Rests(q) => Rests(q)' BY <1>1, <1>7, <2>3, <2>8 DEF Rests
    <3>4. QED BY <2>2, <3>1, <3>2, <3>3 DEF Follows
  <2>9. QED BY <2>6, <2>7, <2>8
<1>10. QED BY <1>5, <1>6, <1>9 DEF AgreeInv
-----------------------------------------------------------------------------
(* All together.                                                           *)

\* What does not happen without failures, restarts and pushed snapshots.
LEMMA CalmSteps ==
    ASSUME AgreeInv
    PROVE  /\ ~(SnapshotReads \/ WatchDrops \/ WatchConnects)
           /\ ~(PrimaryReconfigures \/ PrimaryRestarts)
           /\ \A t \in TaskIds :
                /\ ~(CoreAnswers(t) \/ CoreFailsToAnswer(t) \/ StateRead(t) \/ PushTimesOut(t))
                /\ \A p \in Satellites : ~Initialize(p, t)
           /\ \A m \in sent : ~RequestLost(m)
           /\ \A p \in Satellites : ~(CommandFails(p) \/ SuppressionExpires(p) \/ SatelliteRestarts(p))
<1>1. /\ ~Spend("failure") /\ ~Spend("restart") /\ ~Spend("initialize")
      /\ ~(budget["initialize"] > 0) /\ listening
  BY DEF AgreeInv, Calm, Spend
<1>2. \A t \in TaskIds : tasks[t].stage \notin {"reading", "read"} BY DEF AgreeInv, LoopsFit
<1>3. ~(SnapshotReads \/ WatchDrops \/ WatchConnects \/ PrimaryReconfigures \/ PrimaryRestarts)
  BY <1>1 DEF SnapshotReads, WatchDrops, WatchConnects, PrimaryReconfigures, PrimaryRestarts
<1>4. \A t \in TaskIds :
        ~(CoreAnswers(t) \/ CoreFailsToAnswer(t) \/ StateRead(t) \/ PushTimesOut(t))
  BY <1>1, <1>2 DEF CoreAnswers, CoreFailsToAnswer, StateRead, PushTimesOut
<1>5. \A t \in TaskIds : \A p \in Satellites : ~Initialize(p, t) BY <1>1 DEF Initialize
<1>6. \A m \in sent : ~RequestLost(m) BY <1>1 DEF RequestLost
<1>7. \A p \in Satellites : ~(CommandFails(p) \/ SuppressionExpires(p) \/ SatelliteRestarts(p))
  BY <1>1 DEF CommandFails, SuppressionExpires, SatelliteRestarts
<1>8. QED BY <1>3, <1>4, <1>5, <1>6, <1>7

LEMMA AgreeInvStep ==
    ASSUME Undisturbed, TypeInv, Chronological, AgreeInv, [Next]_vars
    PROVE  AgreeInv' /\ [Orderly]_vars
<1>1. CASE UNCHANGED vars
  <2>1. /\ UNCHANGED <<primaryVars, budget, tasks, sent, overlapped, satelliteVars>>
        /\ UNCHANGED <<core, events, observed, revision, lastPushed>>
    BY <1>1 DEF vars, primaryVars
  <2>2. Calm' /\ News' BY <2>1, PrimaryKept DEF AgreeInv
  <2>3. LoopsFit' /\ Addressed' BY <2>1 DEF AgreeInv, LoopsFit, Addressed, Due, satelliteVars
  <2>4. ASSUME NEW p \in Satellites PROVE Suppresses(p)' /\ Follows(p)'
    <3>1. Aside(p) BY <2>1 DEF Aside, Current, satelliteVars
    <3>2. QED BY <3>1, AsideKept DEF AgreeInv
  <2>5. QED BY <1>1, <2>2, <2>3, <2>4 DEF AgreeInv
<1>2. CASE Next
  <2>1. Orderly
    <3>1. ~PrimaryReconfigures BY CalmSteps
    <3>2. \A t \in TaskIds : \A p \in Satellites : ~Initialize(p, t) BY CalmSteps
    <3>3. QED BY <3>1, <3>2 DEF Orderly
  <2>2. ASSUME CoreChanges PROVE AgreeInv' BY <2>2, CoreChangesAgree DEF Undisturbed
  <2>3. ASSUME NEW t \in TaskIds, HandleEvent(t) \/ PushReturns(t) PROVE AgreeInv'
    BY <2>3, HandleEventAgree, PushReturnsAgree
  <2>4. ASSUME NEW m \in sent, RequestArrives(m) PROVE AgreeInv'
    BY <2>4, RequestArrivesAgree
  <2>5. ASSUME NEW p \in Satellites,
               \/ Applies(p) \/ CommandRuns(p) \/ CommandReturns(p) \/ Forwards(p)
               \/ \E s \in States : UserPresses(p, s)
        PROVE  AgreeInv'
    BY <2>5, AppliesAgree, CommandRunsAgree, CommandReturnsAgree, ForwardsAgree, UserPressesAgree
       DEF Undisturbed
  <2>6. QED BY <1>2, <2>1, <2>2, <2>3, <2>4, <2>5, CalmSteps DEF Next
<1>3. QED BY <1>1, <1>2

\* When nothing is under way, each Satellite rests.
LEMMA AgreeInvImplies == TypeInv /\ AgreeInv => Agreement
<1> SUFFICES ASSUME TypeInv, AgreeInv, Quiet, NEW p \in Satellites \ overlapped PROVE actual[p] = core
  BY DEF Agreement
<1>1. \A t \in TaskIds : tasks[t].rest = <<>> BY DEF Quiet, AgreeInv, LoopsFit
<1>2. \A t \in TaskIds : ~InRest(t, p) BY <1>1 DEF InRest
<1>3. Rests(p) BY <1>2 DEF AgreeInv, Follows
<1>4. QED BY <1>3 DEF Rests, Agrees, CallsBack, Quiet

\* Without failures, when nothing is under way any more, every Satellite shows the
\* state of the Primary's activity, in whatever order changes, presses, pushes and
\* relay steps interleaved, unless two rounds of pushes overlapped at it
\* (broadcast, #push, #applyStateUpdate, forward).
THEOREM SatellitesAgree ==
    ASSUME Undisturbed
    PROVE  Spec => []Agreement
<1>1. Init => TypeInv /\ Chronological /\ AgreeInv
  BY TypeInvInit, ChronologicalInit, AgreeInvInit
<1>2. TypeInv /\ Chronological /\ AgreeInv /\ [Next]_vars => TypeInv' /\ Chronological' /\ AgreeInv'
  BY TypeInvStep, AgreeInvStep, ChronologicalStep DEF Undisturbed
<1>3. QED BY <1>1, <1>2, AgreeInvImplies, PTL DEF Spec
-----------------------------------------------------------------------------
(* Updates do not come back.                                               *)

\* Nothing takes a suppression away before its relay step has run.
SuppressionsLast ==
    \A p \in Satellites : ~CommandFails(p) /\ ~SuppressionExpires(p) /\ ~SatelliteRestarts(p)

\* The relay steps to come: those under way, by position, and as number 0 that of
\* a command that the Core has not run.
RelaySteps ==
    {x \in Satellites \X Nat :
        \/ x[2] = 0 /\ phase[x[1]] = "command"
        \/ x[2] \in 1..Len(relays[x[1]])}

Suppressions == {x \in Satellites \X States : x[2] \in suppressed[x[1]]}

\* The changes so far, and those that the Core and the users may still make.
Ledger == changes + budget["change"] + budget["press"]

\* All others are relay steps without a suppression, and each of those is one of
\* the presses.
Balanced ==
    ~collapsed =>
        Ledger + Cardinality(RelaySteps)
            <= Limits["change"] + Limits["press"] + Cardinality(Suppressions)

EchoInv ==
    /\ IsFiniteSet(RelaySteps) /\ IsFiniteSet(Suppressions)
    /\ Balanced
    /\ \A p \in Satellites : Suppresses(p)

LEMMA LedgerTypes ==
    TypeInv => Ledger \in Nat /\ Limits["change"] + Limits["press"] \in Nat
<1> SUFFICES ASSUME TypeInv PROVE Ledger \in Nat /\ Limits["change"] + Limits["press"] \in Nat
  OBVIOUS
<1>1. changes \in Nat /\ budget \in [Kinds -> Nat] BY DEF TypeInv, PrimaryTypes
<1>2. budget["change"] \in Nat /\ budget["press"] \in Nat BY <1>1 DEF Kinds
<1>3. Ledger \in Nat BY <1>1, <1>2 DEF Ledger
<1>4. Limits["change"] \in Nat /\ Limits["press"] \in Nat BY ConstantsAssumption DEF Kinds
<1>5. QED BY <1>3, <1>4

LEMMA LedgerNext ==
    ASSUME TypeInv'
    PROVE  Ledger' \in Nat
<1>1. changes' \in Nat /\ budget' \in [Kinds -> Nat] BY DEF TypeInv, PrimaryTypes
<1>2. budget'["change"] \in Nat /\ budget'["press"] \in Nat BY <1>1 DEF Kinds
<1>3. QED BY <1>1, <1>2 DEF Ledger

LEMMA EchoInvInit == Init => EchoInv
<1> SUFFICES ASSUME Init PROVE EchoInv OBVIOUS
<1>1. \A p \in Satellites : phase[p] = "idle" /\ Len(relays[p]) = 0 /\ suppressed[p] = {}
  BY DEF Init
<1>2. RelaySteps = {}
  <2>1. \A x \in Satellites \X Nat : x[1] \in Satellites /\ x \notin RelaySteps
    BY <1>1 DEF RelaySteps
  <2>2. QED BY <2>1 DEF RelaySteps
<1>3. Suppressions = {} BY <1>1 DEF Suppressions
<1>4. Ledger = Limits["change"] + Limits["press"]
  BY ConstantsAssumption DEF Init, Ledger, Kinds
<1>5. TypeInv BY TypeInvInit
<1>6. Balanced BY <1>2, <1>3, <1>4, <1>5, LedgerTypes, FS_EmptySet DEF Balanced
<1>7. \A p \in Satellites : Suppresses(p) BY <1>1 DEF Suppresses
<1>8. QED BY <1>2, <1>3, <1>6, <1>7, FS_EmptySet DEF EchoInv

\* What is spent on one kind is not spent on another.
LEMMA SpendLedger ==
    ASSUME TypeInv, NEW kind \in Kinds, Spend(kind)
    PROVE  /\ kind \in {"change", "press"} => changes + budget'["change"] + budget'["press"] = Ledger - 1
           /\ kind \notin {"change", "press"} => changes + budget'["change"] + budget'["press"] = Ledger
<1>1. budget \in [Kinds -> Nat] /\ changes \in Nat BY DEF TypeInv, PrimaryTypes
<1>2. \A k \in Kinds : budget'[k] = IF k = kind THEN budget[k] - 1 ELSE budget[k]
  BY <1>1 DEF Spend
<1>3. "change" \in Kinds /\ "press" \in Kinds BY DEF Kinds
<1>4. QED BY <1>1, <1>2, <1>3 DEF Ledger

\* A Satellite that no relay step and no suppression comes to or leaves.
LEMMA SuppressesKept ==
    ASSUME NEW p \in Satellites, Suppresses(p),
           relays'[p] = relays[p], suppressed'[p] = suppressed[p],
           phase[p] = "command" => phase'[p] = "command" /\ Current(p)' = Current(p)
    PROVE  Suppresses(p)'
BY DEF Suppresses

\* Steps that run no relay step, and change the Core only on account.
LEMMA EchoSame ==
    ASSUME TypeInv, TypeInv', EchoInv, UNCHANGED <<relays, suppressed, collapsed>>,
           Ledger' <= Ledger,
           \A q \in Satellites : phase'[q] = "command" <=> phase[q] = "command",
           \A q \in Satellites : phase[q] = "command" => Current(q)' = Current(q)
    PROVE  EchoInv'
<1>1. \A q \in Satellites : Suppresses(q)' BY SuppressesKept DEF EchoInv
<1>2. RelaySteps' = RelaySteps /\ Suppressions' = Suppressions
  <2>1. \A x \in Satellites \X Nat : x[1] \in Satellites OBVIOUS
  <2>2. QED BY <2>1 DEF RelaySteps, Suppressions
<1>3. Cardinality(RelaySteps) \in Nat /\ Cardinality(Suppressions) \in Nat
  BY FS_CardinalityType DEF EchoInv
<1>4. Ledger \in Nat /\ Ledger' \in Nat /\ Limits["change"] + Limits["press"] \in Nat
  BY LedgerNext, LedgerTypes
<1>5. Balanced'
  <2> SUFFICES ASSUME ~collapsed
               PROVE  Ledger' + Cardinality(RelaySteps)
                          <= Limits["change"] + Limits["press"] + Cardinality(Suppressions)
    BY <1>2 DEF Balanced
  <2>1. Ledger + Cardinality(RelaySteps)
            <= Limits["change"] + Limits["press"] + Cardinality(Suppressions)
    BY DEF EchoInv, Balanced
  <2>2. QED BY <1>3, <1>4, <2>1
<1>6. QED BY <1>1, <1>2, <1>5 DEF EchoInv

\* The Core becomes s: one change at most.
LEMMA CoreBecomesLedger ==
    ASSUME TypeInv, NEW s \in States, CoreBecomes(s)
    PROVE  changes' \in {changes, changes + 1}
BY DEF CoreBecomes

-----------------------------------------------------------------------------
\* Steps of the Primary and the network, relay steps apart.
LEMMA PrimaryEcho ==
    ASSUME TypeInv, TypeInv', EchoInv, Unrelated \/ UNCHANGED vars,
           \A p \in Satellites : ~Forwards(p) /\ ~SuppressionExpires(p)
    PROVE  EchoInv'
<1>1. UNCHANGED phase /\ \A q \in Satellites : phase[q] = "command" => Current(q)' = Current(q)
  <2>1. UNCHANGED phase BY UnrelatedSteps
  <2> SUFFICES ASSUME NEW q \in Satellites, queue[q] # <<>> PROVE Current(q)' = Current(q)
    BY <2>1 DEF TypeInv, QueueTypes
  <2>2. CASE UNCHANGED queue BY <2>2 DEF Current
  <2>3. CASE \E m \in sent : RequestArrives(m) BY <2>3, HeadKept
  <2>4. CASE \E ts \in SUBSET TaskIds : Abandon(ts) /\ \A i \in TaskIds \ ts : tasks'[i] = tasks[i]
    BY <2>4, AbandonKept
  <2>5. QED BY <2>2, <2>3, <2>4, UnrelatedSteps
<1>2. {"change", "failure", "restart", "initialize"} \subseteq Kinds BY DEF Kinds
<1>3. Ledger \in Nat /\ changes \in Nat /\ budget \in [Kinds -> Nat]
  BY LedgerTypes DEF TypeInv, PrimaryTypes
<1>4. ASSUME UNCHANGED changes, UNCHANGED budget \/ \E k \in {"failure", "restart", "initialize"} : Spend(k)
      PROVE  Ledger' <= Ledger
  <2>1. CASE UNCHANGED budget BY <1>3, <1>4, <2>1 DEF Ledger
  <2>2. ASSUME NEW k \in {"failure", "restart", "initialize"}, Spend(k) PROVE Ledger' <= Ledger
    BY <1>2, <1>3, <1>4, <2>2, SpendLedger DEF Ledger
  <2>3. QED BY <1>4, <2>1, <2>2
<1>5. CASE CoreChanges
  <2>1. PICK s \in States : CoreBecomes(s) BY <1>5 DEF CoreChanges
  <2>2. Spend("change") /\ UNCHANGED <<relays, suppressed, collapsed>>
    BY <1>5 DEF CoreChanges, satelliteVars
  <2>3. changes + budget'["change"] + budget'["press"] = Ledger - 1 BY <1>2, <2>2, SpendLedger
  <2>4. changes' <= changes + 1 BY <1>3, <2>1, CoreBecomesLedger
  <2>5. Ledger' <= Ledger
    <3>1. budget'["change"] \in Nat /\ budget'["press"] \in Nat /\ changes' \in Nat
      BY DEF TypeInv, PrimaryTypes, Kinds
    <3>2. QED BY <1>3, <2>3, <2>4, <3>1 DEF Ledger
  <2>6. QED BY <1>1, <2>2, <2>5, EchoSame
<1>6. CASE \/ SnapshotReads \/ WatchDrops \/ WatchConnects \/ PrimaryReconfigures \/ PrimaryRestarts
           \/ UNCHANGED vars
  <2>1. /\ UNCHANGED <<relays, suppressed, collapsed, changes>>
        /\ UNCHANGED budget \/ \E k \in {"failure", "restart", "initialize"} : Spend(k)
    BY <1>6 DEF SnapshotReads, WatchDrops, WatchConnects, PrimaryReconfigures, PrimaryRestarts,
       Clear, vars, primaryVars, satelliteVars
  <2>2. QED BY <1>1, <1>4, <2>1, EchoSame
<1>7. ASSUME NEW t \in TaskIds,
             \/ HandleEvent(t) \/ CoreAnswers(t) \/ CoreFailsToAnswer(t) \/ StateRead(t)
             \/ PushReturns(t) \/ PushTimesOut(t)
             \/ \E p \in Satellites : Initialize(p, t)
      PROVE  EchoInv'
  <2>1. /\ UNCHANGED <<relays, suppressed, collapsed, changes>>
        /\ UNCHANGED budget \/ \E k \in {"failure", "restart", "initialize"} : Spend(k)
    BY <1>7 DEF HandleEvent, CoreAnswers, CoreFailsToAnswer, StateRead, PushReturns, PushTimesOut,
       Initialize, primaryVars, satelliteVars
  <2>2. QED BY <1>1, <1>4, <2>1, EchoSame
<1>8. ASSUME NEW m \in sent, RequestArrives(m) \/ RequestLost(m) PROVE EchoInv'
  <2>1. /\ UNCHANGED <<relays, suppressed, collapsed, changes>>
        /\ UNCHANGED budget \/ \E k \in {"failure", "restart", "initialize"} : Spend(k)
    BY <1>8 DEF RequestArrives, RequestLost, primaryVars, satelliteVars
  <2>2. QED BY <1>1, <1>4, <2>1, EchoSame
<1>9. QED BY <1>5, <1>6, <1>7, <1>8 DEF Unrelated
\* The relay steps to come after a step of p.
LEMMA RelayStepsChange ==
    ASSUME TypeInv, TypeInv', NEW p \in Satellites,
           \A q \in Satellites \ {p} : relays'[q] = relays[q] /\ phase'[q] = phase[q]
    PROVE  /\ \A x \in RelaySteps \cup RelaySteps' : x \in Satellites \X Nat
           /\ \A x \in Satellites \X Nat :
                x \in RelaySteps' <=> IF x[1] = p
                                      THEN \/ x[2] = 0 /\ phase'[p] = "command"
                                           \/ x[2] \in 1..Len(relays'[p])
                                      ELSE x \in RelaySteps
           /\ \A x \in Satellites \X Nat :
                x[1] = p => (x \in RelaySteps <=> \/ x[2] = 0 /\ phase[p] = "command"
                                                  \/ x[2] \in 1..Len(relays[p]))
<1>1. \A x \in RelaySteps \cup RelaySteps' : x \in Satellites \X Nat BY DEF RelaySteps
<1>2. ASSUME NEW x \in Satellites \X Nat
      PROVE  /\ x \in RelaySteps' <=> IF x[1] = p
                                      THEN \/ x[2] = 0 /\ phase'[p] = "command"
                                           \/ x[2] \in 1..Len(relays'[p])
                                      ELSE x \in RelaySteps
             /\ x[1] = p => (x \in RelaySteps <=> \/ x[2] = 0 /\ phase[p] = "command"
                                                  \/ x[2] \in 1..Len(relays[p]))
  <2>1. x[1] \in Satellites BY <1>2
  <2>2. x[1] # p => relays'[x[1]] = relays[x[1]] /\ phase'[x[1]] = phase[x[1]] BY <2>1
  <2>3. QED BY <1>2, <2>1, <2>2 DEF RelaySteps
<1>3. QED BY <1>1, <1>2

\* A relay step is added at the end, one is run at the front, a command is sent,
\* or a command's relay step is under way.
LEMMA RelayAdded ==
    ASSUME TypeInv, TypeInv', NEW p \in Satellites, NEW s \in States, Switches(p, s),
           \A q \in Satellites \ {p} : phase'[q] = phase[q],
           phase'[p] = "command" => phase[p] = "command", IsFiniteSet(RelaySteps)
    PROVE  /\ IsFiniteSet(RelaySteps')
           /\ Cardinality(RelaySteps') =
                IF phase[p] = "command" /\ phase'[p] # "command"
                THEN Cardinality(RelaySteps) ELSE Cardinality(RelaySteps) + 1
<1>1. PICK n \in Nat : /\ n = Len(relays[p]) /\ Len(relays'[p]) = n + 1
                       /\ \A q \in Satellites \ {p} : relays'[q] = relays[q]
  BY SwitchesCalls
<1> DEFINE new == <<p, n + 1>>
           command == <<p, 0>>
<1>2. /\ new \in Satellites \X Nat /\ new[1] = p /\ new[2] = n + 1
      /\ command \in Satellites \X Nat /\ command[1] = p /\ command[2] = 0
      /\ \A x \in Satellites \X Nat : /\ x[1] = p /\ x[2] = n + 1 => x = new
                                      /\ x[1] = p /\ x[2] = 0 => x = command
      /\ new # command
  BY <1>1
<1> HIDE DEF new, command
<1>3. /\ \A k \in Nat : k \in 1..(n + 1) <=> k \in 1..n \/ k = n + 1
      /\ n + 1 \notin 1..n /\ n + 1 # 0 /\ 0 \notin 1..n /\ 0 \notin 1..(n + 1)
  BY <1>1
<1>4. /\ \A x \in RelaySteps \cup RelaySteps' : x \in Satellites \X Nat
      /\ \A x \in Satellites \X Nat :
           x \in RelaySteps' <=> IF x[1] = p
                                 THEN \/ x[2] = 0 /\ phase'[p] = "command"
                                      \/ x[2] \in 1..(n + 1)
                                 ELSE x \in RelaySteps
      /\ \A x \in Satellites \X Nat :
           x[1] = p => (x \in RelaySteps <=> (x[2] = 0 /\ phase[p] = "command") \/ x[2] \in 1..n)
  BY <1>1, RelayStepsChange
<1>5. \A x \in Satellites \X Nat : x[2] \in Nat OBVIOUS
<1>6. new \notin RelaySteps /\ (command \in RelaySteps <=> phase[p] = "command")
  BY <1>2, <1>3, <1>4
<1>7. CASE phase[p] = "command" /\ phase'[p] # "command"
  <2>1. RelaySteps' = (RelaySteps \ {command}) \cup {new}
    BY <1>2, <1>3, <1>4, <1>5, <1>7
  <2>2. /\ IsFiniteSet(RelaySteps \ {command})
        /\ Cardinality(RelaySteps \ {command}) = Cardinality(RelaySteps) - 1
    BY <1>6, <1>7, FS_RemoveElement
  <2>3. /\ IsFiniteSet(RelaySteps')
        /\ Cardinality(RelaySteps') = Cardinality(RelaySteps \ {command}) + 1
    BY <1>6, <2>1, <2>2, FS_AddElement
  <2>4. Cardinality(RelaySteps) \in Nat BY FS_CardinalityType
  <2>5. QED BY <1>7, <2>2, <2>3, <2>4
<1>8. CASE phase[p] = "command" <=> phase'[p] = "command"
  <2>1. RelaySteps' = RelaySteps \cup {new}
    BY <1>2, <1>3, <1>4, <1>5, <1>8
  <2>2. QED BY <1>6, <1>8, <2>1, FS_AddElement
<1>9. QED BY <1>7, <1>8

LEMMA RelayRuns ==
    ASSUME TypeInv, TypeInv', NEW p \in Satellites, relays[p] # <<>>,
           relays' = [relays EXCEPT ![p] = Tail(@)], UNCHANGED phase, IsFiniteSet(RelaySteps)
    PROVE  /\ IsFiniteSet(RelaySteps')
           /\ Cardinality(RelaySteps') = Cardinality(RelaySteps) - 1
<1>1. /\ relays \in [Satellites -> Seq(States)] /\ relays[p] \in Seq(States)
      /\ relays'[p] = Tail(relays[p]) /\ \A q \in Satellites \ {p} : relays'[q] = relays[q]
  BY DEF TypeInv, SatelliteTypes
<1>2. PICK n \in Nat \ {0} : n = Len(relays[p]) /\ Len(relays'[p]) = n - 1
  BY <1>1, HeadTailProperties
<1> DEFINE last == <<p, n>>
<1>3. /\ last \in Satellites \X Nat /\ last[1] = p /\ last[2] = n
      /\ \A x \in Satellites \X Nat : x[1] = p /\ x[2] = n => x = last
  BY <1>2
<1> HIDE DEF last
<1>4. /\ \A k \in Nat : k \in 1..(n - 1) <=> k \in 1..n /\ k # n
      /\ n \in 1..n /\ n \notin 1..(n - 1) /\ n # 0
  BY <1>2
<1>5. /\ \A x \in RelaySteps \cup RelaySteps' : x \in Satellites \X Nat
      /\ \A x \in Satellites \X Nat :
           x \in RelaySteps' <=> IF x[1] = p
                                 THEN (x[2] = 0 /\ phase[p] = "command") \/ x[2] \in 1..(n - 1)
                                 ELSE x \in RelaySteps
      /\ \A x \in Satellites \X Nat :
           x[1] = p => (x \in RelaySteps <=> (x[2] = 0 /\ phase[p] = "command") \/ x[2] \in 1..n)
  BY <1>1, <1>2, RelayStepsChange
<1>6. \A x \in Satellites \X Nat : x[2] \in Nat OBVIOUS
<1>7. last \in RelaySteps BY <1>3, <1>4, <1>5
<1>8. RelaySteps' = RelaySteps \ {last} BY <1>3, <1>4, <1>5, <1>6
<1>9. QED BY <1>7, <1>8, FS_RemoveElement

LEMMA CommandSent ==
    ASSUME TypeInv, TypeInv', NEW p \in Satellites, phase[p] = "idle",
           phase' = [phase EXCEPT ![p] = "command"], UNCHANGED relays, IsFiniteSet(RelaySteps)
    PROVE  /\ IsFiniteSet(RelaySteps')
           /\ Cardinality(RelaySteps') = Cardinality(RelaySteps) + 1
<1>1. phase'[p] = "command" /\ \A q \in Satellites \ {p} : phase'[q] = phase[q]
  BY DEF TypeInv, QueueTypes
<1> DEFINE command == <<p, 0>>
<1>2. /\ command \in Satellites \X Nat /\ command[1] = p /\ command[2] = 0
      /\ \A x \in Satellites \X Nat : x[1] = p /\ x[2] = 0 => x = command
  OBVIOUS
<1> HIDE DEF command
<1>3. /\ \A x \in RelaySteps \cup RelaySteps' : x \in Satellites \X Nat
      /\ \A x \in Satellites \X Nat :
           x \in RelaySteps' <=> IF x[1] = p THEN x[2] = 0 \/ x[2] \in 1..Len(relays[p])
                                             ELSE x \in RelaySteps
      /\ \A x \in Satellites \X Nat : x[1] = p => (x \in RelaySteps <=> x[2] \in 1..Len(relays[p]))
  BY <1>1, RelayStepsChange
<1>4. command \notin RelaySteps BY <1>2, <1>3
<1>5. RelaySteps' = RelaySteps \cup {command} BY <1>2, <1>3
<1>6. QED BY <1>4, <1>5, FS_AddElement

\* A suppression of p for state s comes or goes.
LEMMA SuppressionsChange ==
    ASSUME TypeInv, NEW p \in Satellites, NEW s \in States, IsFiniteSet(Suppressions)
    PROVE  /\ suppressed' = [suppressed EXCEPT ![p] = @ \cup {s}] =>
                /\ IsFiniteSet(Suppressions')
                /\ Cardinality(Suppressions') = IF s \in suppressed[p] THEN Cardinality(Suppressions)
                                                ELSE Cardinality(Suppressions) + 1
           /\ suppressed' = [suppressed EXCEPT ![p] = @ \ {s}] =>
                /\ IsFiniteSet(Suppressions')
                /\ Cardinality(Suppressions') = IF s \in suppressed[p] THEN Cardinality(Suppressions) - 1
                                                ELSE Cardinality(Suppressions)
<1>1. suppressed \in [Satellites -> SUBSET States] BY DEF TypeInv, SatelliteTypes
<1> DEFINE it == <<p, s>>
<1>2. /\ it \in Satellites \X States /\ it[1] = p /\ it[2] = s
      /\ \A x \in Satellites \X States : /\ x[1] \in Satellites
                                         /\ x[1] = p /\ x[2] = s => x = it
  OBVIOUS
<1> HIDE DEF it
<1>3. it \in Suppressions <=> s \in suppressed[p] BY <1>2 DEF Suppressions
<1>4. ASSUME suppressed' = [suppressed EXCEPT ![p] = @ \cup {s}]
      PROVE  Suppressions' = Suppressions \cup {it}
  <2>1. \A q \in Satellites : suppressed'[q] = IF q = p THEN suppressed[p] \cup {s} ELSE suppressed[q]
    BY <1>1, <1>4
  <2>2. QED BY <1>2, <2>1 DEF Suppressions
<1>5. ASSUME suppressed' = [suppressed EXCEPT ![p] = @ \ {s}]
      PROVE  Suppressions' = Suppressions \ {it}
  <2>1. \A q \in Satellites : suppressed'[q] = IF q = p THEN suppressed[p] \ {s} ELSE suppressed[q]
    BY <1>1, <1>5
  <2>2. QED BY <1>2, <2>1 DEF Suppressions
<1>6. QED BY <1>3, <1>4, <1>5, FS_AddElement, FS_RemoveElement
LEMMA BalanceKept ==
    ASSUME TypeInv, TypeInv', EchoInv, IsFiniteSet(RelaySteps'), IsFiniteSet(Suppressions'),
           ~collapsed' => /\ ~collapsed
                          /\ Ledger' + Cardinality(RelaySteps') + Cardinality(Suppressions)
                               <= Ledger + Cardinality(RelaySteps) + Cardinality(Suppressions')
    PROVE  Balanced'
<1>1. /\ Cardinality(RelaySteps) \in Nat /\ Cardinality(Suppressions) \in Nat
      /\ Cardinality(RelaySteps') \in Nat /\ Cardinality(Suppressions') \in Nat
  BY FS_CardinalityType DEF EchoInv
<1>2. Ledger \in Nat /\ Ledger' \in Nat /\ Limits["change"] + Limits["press"] \in Nat
  BY LedgerNext, LedgerTypes
<1> SUFFICES ASSUME ~collapsed'
             PROVE  Ledger' + Cardinality(RelaySteps')
                        <= Limits["change"] + Limits["press"] + Cardinality(Suppressions')
  BY DEF Balanced
<1>3. Ledger + Cardinality(RelaySteps)
          <= Limits["change"] + Limits["press"] + Cardinality(Suppressions)
  BY DEF EchoInv, Balanced
<1>4. QED BY <1>1, <1>2, <1>3

LEMMA ForwardsEcho ==
    ASSUME TypeInv, TypeInv', EchoInv, NEW p \in Satellites, Forwards(p)
    PROVE  EchoInv'
<1>1. PICK s : s = Head(relays[p]) OBVIOUS
<1>2. /\ relays[p] # <<>> /\ relays' = [relays EXCEPT ![p] = Tail(@)]
      /\ suppressed' = [suppressed EXCEPT ![p] = @ \ {s}]
      /\ UNCHANGED <<tasks, sent, overlapped, actual, applied, queue, phase, collapsed>>
      /\ \/ s \in suppressed[p] /\ UNCHANGED <<changes, budget>>
         \/ s \notin suppressed[p] /\ CoreBecomes(s) /\ UNCHANGED budget
         \/ s \notin suppressed[p] /\ Spend("failure") /\ UNCHANGED changes
  BY <1>1 DEF Forwards, primaryVars
<1>3. s \in States
  <2>1. relays[p] \in Seq(States) BY DEF TypeInv, SatelliteTypes
  <2>2. QED BY <1>1, <1>2, <2>1, HeadTailProperties
<1>4. ASSUME NEW q \in Satellites PROVE Suppresses(q)'
  <2>1. CASE q = p BY <1>1, <1>2, <2>1, ForwardsCall DEF EchoInv
  <2>2. CASE q # p
    <3>1. relays'[q] = relays[q] /\ suppressed'[q] = suppressed[q]
      BY <1>2, <2>2 DEF TypeInv, SatelliteTypes
    <3>2. phase'[q] = phase[q] /\ Current(q)' = Current(q) BY <1>2 DEF Current
    <3>3. QED BY <3>1, <3>2, SuppressesKept DEF EchoInv
  <2>3. QED BY <2>1, <2>2
<1>5. /\ IsFiniteSet(RelaySteps') /\ Cardinality(RelaySteps') = Cardinality(RelaySteps) - 1
      /\ IsFiniteSet(Suppressions')
      /\ Cardinality(Suppressions') = IF s \in suppressed[p] THEN Cardinality(Suppressions) - 1
                                      ELSE Cardinality(Suppressions)
  BY <1>2, <1>3, RelayRuns, SuppressionsChange DEF EchoInv
<1>6. Ledger' <= IF s \in suppressed[p] THEN Ledger ELSE Ledger + 1
  <2>1. Ledger \in Nat /\ changes \in Nat /\ budget \in [Kinds -> Nat] /\ "failure" \in Kinds
    BY LedgerTypes DEF TypeInv, PrimaryTypes, Kinds
  <2>2. CASE s \in suppressed[p] /\ UNCHANGED <<changes, budget>> BY <2>1, <2>2 DEF Ledger
  <2>3. CASE s \notin suppressed[p] /\ CoreBecomes(s) /\ UNCHANGED budget
    <3>1. changes' \in {changes, changes + 1} BY <1>3, <2>3, CoreBecomesLedger
    <3>2. budget["change"] \in Nat /\ budget["press"] \in Nat BY <2>1 DEF Kinds
    <3>3. QED BY <2>1, <2>3, <3>1, <3>2 DEF Ledger
  <2>4. CASE s \notin suppressed[p] /\ Spend("failure") /\ UNCHANGED changes
    <3>1. changes + budget'["change"] + budget'["press"] = Ledger BY <2>1, <2>4, SpendLedger
    <3>2. QED BY <2>1, <2>4, <3>1 DEF Ledger
  <2>5. QED BY <1>2, <2>2, <2>3, <2>4
<1>7. Balanced'
  <2>1. /\ Cardinality(RelaySteps) \in Nat /\ Cardinality(Suppressions) \in Nat
        /\ Ledger \in Nat /\ Ledger' \in Nat
    BY FS_CardinalityType, LedgerNext, LedgerTypes DEF EchoInv
  <2>2. Ledger' + Cardinality(RelaySteps') + Cardinality(Suppressions)
          <= Ledger + Cardinality(RelaySteps) + Cardinality(Suppressions')
    BY <1>5, <1>6, <2>1
  <2>3. QED BY <1>2, <1>5, <2>2, BalanceKept
<1>8. QED BY <1>4, <1>5, <1>7 DEF EchoInv

LEMMA AppliesEcho ==
    ASSUME TypeInv, TypeInv', EchoInv, NEW p \in Satellites, Applies(p)
    PROVE  EchoInv'
<1>1. /\ phase[p] = "idle" /\ UNCHANGED <<changes, relays>>
      /\ \/ Ignores(p, Current(p)) \/ FindsApplied(p, Current(p)) \/ Commands(p, Current(p))
  BY DEF Applies, Current, primaryVars
<1>2. Ledger \in Nat BY LedgerTypes
<1>3. CASE Ignores(p, Current(p)) \/ FindsApplied(p, Current(p))
  <2>1. Answer(p, "ok") /\ UNCHANGED <<suppressed, collapsed, budget>>
    BY <1>3 DEF Ignores, FindsApplied
  <2>2. /\ phase'[p] = "idle"
        /\ \A q \in Satellites \ {p} : phase'[q] = phase[q] /\ queue'[q] = queue[q]
    BY <2>1, AnswerPhase
  <2>3. Ledger' <= Ledger BY <1>1, <1>2, <2>1 DEF Ledger
  <2>4. QED BY <1>1, <2>1, <2>2, <2>3, EchoSame DEF Current
<1>4. CASE Commands(p, Current(p))
  <2>1. PICK s : s = Current(p).state OBVIOUS
  <2>2. /\ budget' = budget \/ Spend("failure")
        /\ suppressed' = [suppressed EXCEPT ![p] = @ \cup {s}]
        /\ collapsed' = (collapsed \/ s \in suppressed[p])
        /\ phase' = [phase EXCEPT ![p] = "command"] /\ UNCHANGED queue
    BY <1>4, <2>1 DEF Commands
  <2>3. s \in States
    <3>1. queue[p] # <<>> /\ queue[p] \in Seq(Requests) BY DEF Applies, TypeInv, QueueTypes
    <3>2. Head(queue[p]) \in Requests BY <3>1, HeadTailProperties
    <3>3. QED BY <2>1, <3>2 DEF Current, Requests, Updates
  <2>4. ASSUME NEW q \in Satellites PROVE Suppresses(q)'
    <3>1. Current(q)' = Current(q) /\ relays'[q] = relays[q] /\ Suppresses(q)
      BY <1>1, <2>2 DEF Current, EchoInv
    <3>2. CASE q = p
      <4>1. phase'[p] = "command" /\ suppressed'[p] = suppressed[p] \cup {s}
        BY <2>2 DEF TypeInv, QueueTypes, SatelliteTypes
      <4>2. QED BY <1>1, <2>1, <3>1, <3>2, <4>1 DEF Suppresses
    <3>3. CASE q # p
      <4>1. phase'[q] = phase[q] /\ suppressed'[q] = suppressed[q]
        BY <2>2, <3>3 DEF TypeInv, QueueTypes, SatelliteTypes
      <4>2. QED BY <3>1, <4>1, SuppressesKept
    <3>4. QED BY <3>2, <3>3
  <2>5. /\ IsFiniteSet(RelaySteps') /\ Cardinality(RelaySteps') = Cardinality(RelaySteps) + 1
        /\ IsFiniteSet(Suppressions')
        /\ Cardinality(Suppressions') = IF s \in suppressed[p] THEN Cardinality(Suppressions)
                                        ELSE Cardinality(Suppressions) + 1
    BY <1>1, <2>2, <2>3, CommandSent, SuppressionsChange DEF EchoInv
  <2>6. Ledger' = Ledger
    <3>1. "failure" \in Kinds BY DEF Kinds
    <3>2. QED BY <1>1, <2>2, <3>1, SpendLedger DEF Ledger
  <2>7. Balanced'
    <3>1. Cardinality(RelaySteps) \in Nat /\ Cardinality(Suppressions) \in Nat
      BY FS_CardinalityType DEF EchoInv
    <3>2. ~collapsed' => ~collapsed /\ s \notin suppressed[p] BY <2>2
    <3>3. s \notin suppressed[p] =>
            Ledger' + Cardinality(RelaySteps') + Cardinality(Suppressions)
              <= Ledger + Cardinality(RelaySteps) + Cardinality(Suppressions')
      BY <1>2, <2>5, <2>6, <3>1
    <3>4. QED BY <2>5, <3>2, <3>3, BalanceKept
  <2>8. QED BY <2>4, <2>5, <2>7 DEF EchoInv
<1>5. QED BY <1>1, <1>3, <1>4

\* A command that runs has a relay step in place of itself; a press adds one.
LEMMA SwitchesEcho ==
    ASSUME TypeInv, TypeInv', EchoInv, NEW p \in Satellites,
           CommandRuns(p) \/ \E s \in States : UserPresses(p, s)
    PROVE  EchoInv'
<1>1. PICK s : /\ Switches(p, s) /\ s \in States
               /\ \/ CommandRuns(p) /\ s = Current(p).state
                  \/ UserPresses(p, s)
  <2>1. CASE CommandRuns(p)
    <3>1. Switches(p, Current(p).state) BY <2>1 DEF CommandRuns, Current
    <3>2. queue[p] # <<>> /\ queue[p] \in Seq(Requests) BY <2>1 DEF CommandRuns, TypeInv, QueueTypes
    <3>3. Head(queue[p]) \in Requests BY <3>2, HeadTailProperties
    <3>4. Current(p).state \in States BY <3>3 DEF Current, Requests, Updates
    <3>5. QED BY <2>1, <3>1, <3>4
  <2>2. CASE \E s \in States : UserPresses(p, s) BY <2>2 DEF UserPresses
  <2>3. QED BY <2>1, <2>2
<1>2. /\ UNCHANGED <<queue, suppressed, collapsed, changes>>
      /\ \/ /\ phase[p] = "command" /\ phase' = [phase EXCEPT ![p] = "run"]
            /\ UNCHANGED budget /\ s = Current(p).state
         \/ UNCHANGED phase /\ Spend("press")
  BY <1>1 DEF CommandRuns, UserPresses, primaryVars
<1>3. /\ \A q \in Satellites \ {p} : phase'[q] = phase[q]
      /\ \/ phase[p] = "command" /\ phase'[p] = "run" /\ UNCHANGED budget /\ s = Current(p).state
         \/ phase'[p] = phase[p] /\ Spend("press")
  BY <1>2 DEF TypeInv, QueueTypes
<1>4. /\ DOMAIN relays[p] = 1..Len(relays[p]) /\ Len(relays[p]) \in Nat
      /\ DOMAIN relays'[p] = 1..Len(relays'[p]) /\ Len(relays'[p]) = Len(relays[p]) + 1
      /\ \A i \in 1..Len(relays[p]) : relays'[p][i] = relays[p][i]
      /\ relays'[p][Len(relays'[p])] = s
      /\ \A q \in Satellites \ {p} : relays'[q] = relays[q]
  BY <1>1, SwitchesCalls
<1>5. ASSUME NEW q \in Satellites PROVE Suppresses(q)'
  <2>1. Current(q)' = Current(q) /\ suppressed'[q] = suppressed[q] /\ Suppresses(q)
    BY <1>2 DEF Current, EchoInv
  <2>2. CASE q = p
    <3> SUFFICES ASSUME NEW r \in suppressed[p]
                 PROVE  \/ \E i \in DOMAIN relays'[p] : relays'[p][i] = r
                        \/ phase'[p] = "command" /\ Current(p).state = r
      BY <2>1, <2>2 DEF Suppresses
    <3>1. CASE \E i \in DOMAIN relays[p] : relays[p][i] = r BY <1>4, <3>1
    <3>2. CASE phase[p] = "command" /\ Current(p).state = r
      <4>1. Len(relays'[p]) \in DOMAIN relays'[p] BY <1>4
      <4>2. QED BY <1>3, <1>4, <3>2, <4>1
    <3>3. QED BY <2>1, <2>2, <3>1, <3>2 DEF Suppresses
  <2>3. CASE q # p
    <3>1. phase'[q] = phase[q] /\ relays'[q] = relays[q] BY <1>3, <1>4, <2>3
    <3>2. QED BY <2>1, <3>1, SuppressesKept
  <2>4. QED BY <2>2, <2>3
<1>6. Suppressions' = Suppressions BY <1>2 DEF Suppressions
<1>7. /\ IsFiniteSet(RelaySteps')
      /\ Cardinality(RelaySteps') = IF phase[p] = "command" /\ phase'[p] # "command"
                                    THEN Cardinality(RelaySteps) ELSE Cardinality(RelaySteps) + 1
  BY <1>1, <1>3, RelayAdded DEF EchoInv
<1>8. Balanced'
  <2>1. /\ Ledger \in Nat /\ "press" \in Kinds
        /\ Cardinality(RelaySteps) \in Nat /\ Cardinality(Suppressions) \in Nat
    BY LedgerTypes, FS_CardinalityType DEF Kinds, EchoInv
  <2>2. CASE phase[p] = "command" /\ phase'[p] = "run" /\ UNCHANGED budget
    <3>1. Ledger' = Ledger /\ Cardinality(RelaySteps') = Cardinality(RelaySteps)
      BY <1>2, <1>7, <2>2 DEF Ledger
    <3>2. QED BY <1>2, <1>6, <1>7, <2>1, <3>1, BalanceKept DEF EchoInv
  <2>3. CASE phase'[p] = phase[p] /\ Spend("press")
    <3>1. Ledger' = Ledger - 1 BY <1>2, <2>1, <2>3, SpendLedger DEF Ledger
    <3>2. Cardinality(RelaySteps') = Cardinality(RelaySteps) + 1 BY <1>7, <2>3
    <3>3. Ledger' + Cardinality(RelaySteps') + Cardinality(Suppressions)
            <= Ledger + Cardinality(RelaySteps) + Cardinality(Suppressions')
      BY <1>6, <2>1, <3>1, <3>2
    <3>4. QED BY <1>2, <1>6, <1>7, <3>3, BalanceKept DEF EchoInv
  <2>4. QED BY <1>3, <2>2, <2>3
<1>9. QED BY <1>5, <1>6, <1>7, <1>8 DEF EchoInv

LEMMA CommandReturnsEcho ==
    ASSUME TypeInv, TypeInv', EchoInv, NEW p \in Satellites, CommandReturns(p)
    PROVE  EchoInv'
<1>1. /\ phase[p] = "run" /\ Answer(p, "ok")
      /\ UNCHANGED <<changes, budget, relays, suppressed, collapsed>>
  BY DEF CommandReturns, primaryVars
<1>2. /\ phase'[p] = "idle"
      /\ \A q \in Satellites \ {p} : phase'[q] = phase[q] /\ queue'[q] = queue[q]
  BY <1>1, AnswerPhase
<1>3. Ledger' <= Ledger BY <1>1, LedgerTypes DEF Ledger
<1>4. QED BY <1>1, <1>2, <1>3, EchoSame DEF Current

LEMMA EchoInvStep ==
    ASSUME TypeInv, TypeInv', EchoInv, [Next]_vars, [SuppressionsLast]_vars
    PROVE  EchoInv'
<1>1. CASE UNCHANGED vars
  <2>1. \A q \in Satellites : phase'[q] = phase[q] /\ Current(q)' = Current(q)
    BY <1>1 DEF vars, satelliteVars, Current
  <2>2. UNCHANGED <<relays, suppressed, collapsed, changes, budget>>
    BY <1>1 DEF vars, primaryVars, satelliteVars
  <2>3. Ledger' <= Ledger BY <2>2, LedgerTypes DEF Ledger
  <2>4. QED BY <2>1, <2>2, <2>3, EchoSame
<1>2. CASE Next /\ SuppressionsLast
  <2>1. ASSUME NEW p \in Satellites, Forwards(p) PROVE EchoInv' BY <2>1, ForwardsEcho
  <2>2. CASE Unrelated /\ \A p \in Satellites : ~Forwards(p)
    BY <1>2, <2>2, PrimaryEcho DEF SuppressionsLast
  <2>3. ASSUME NEW p \in Satellites,
               \/ Applies(p) \/ CommandRuns(p) \/ CommandReturns(p)
               \/ \E s \in States : UserPresses(p, s)
        PROVE  EchoInv'
    BY <2>3, AppliesEcho, SwitchesEcho, CommandReturnsEcho
  <2>4. QED BY <1>2, <2>1, <2>2, <2>3, NextCases DEF SuppressionsLast
<1>3. QED BY <1>1, <1>2

\* Each suppression has a relay step of its own to come.
LEMMA FewerSuppressions ==
    ASSUME TypeInv, EchoInv
    PROVE  Cardinality(Suppressions) <= Cardinality(RelaySteps)
<1> DEFINE Shown(y) == IF y[2] = 0 THEN Current(y[1]).state ELSE relays[y[1]][y[2]]
           step == [x \in Suppressions |-> CHOOSE y \in RelaySteps : y[1] = x[1] /\ Shown(y) = x[2]]
<1>1. ASSUME NEW x \in Suppressions
      PROVE  \E y \in RelaySteps : y[1] = x[1] /\ Shown(y) = x[2]
  <2>1. x[1] \in Satellites /\ x[2] \in suppressed[x[1]] BY DEF Suppressions
  <2>2. PICK p \in Satellites : p = x[1] BY <2>1
  <2>3. DOMAIN relays[p] = 1..Len(relays[p]) /\ Len(relays[p]) \in Nat
    <3>1. relays[p] \in Seq(States) BY DEF TypeInv, SatelliteTypes
    <3>2. QED BY <3>1
  <2>4. CASE \E i \in DOMAIN relays[p] : relays[p][i] = x[2]
    <3>1. PICK i \in 1..Len(relays[p]) : relays[p][i] = x[2] BY <2>3, <2>4
    <3>2. i \in Nat /\ i # 0 BY <2>3, <3>1
    <3>3. PICK y : y = <<p, i>> OBVIOUS
    <3>4. y \in Satellites \X Nat /\ y[1] = p /\ y[2] = i BY <3>2, <3>3
    <3>5. y \in RelaySteps BY <3>1, <3>4 DEF RelaySteps
    <3>6. QED BY <2>2, <3>1, <3>2, <3>4, <3>5
  <2>5. CASE phase[p] = "command" /\ Current(p).state = x[2]
    <3>1. PICK y : y = <<p, 0>> OBVIOUS
    <3>2. y \in Satellites \X Nat /\ y[1] = p /\ y[2] = 0 BY <3>1
    <3>3. y \in RelaySteps BY <2>5, <3>2 DEF RelaySteps
    <3>4. QED BY <2>2, <2>5, <3>2, <3>3
  <2>6. QED BY <2>1, <2>2, <2>4, <2>5 DEF EchoInv, Suppresses
<1>2. \A x \in Suppressions : step[x] \in RelaySteps /\ step[x][1] = x[1] /\ Shown(step[x]) = x[2]
  BY <1>1
<1>3. \A x, z \in Suppressions : x[1] = z[1] /\ x[2] = z[2] => x = z BY DEF Suppressions
<1> HIDE DEF Shown
<1>4. step \in Injection(Suppressions, RelaySteps)
  <2>1. step \in [Suppressions -> RelaySteps] BY <1>2
  <2>2. \A x, z \in Suppressions : step[x] = step[z] => x = z BY <1>2, <1>3
  <2>3. QED BY <2>1, <2>2 DEF Injection, IsInjective
<1>5. QED BY <1>4, FS_Injection DEF EchoInv

\* What the Primary pushes does not come back to it: its activity changes once for
\* each change at its Core and each press at most, unless one suppression stood for
\* two relay steps; whatever is lost, repeated or restarted, as long as nothing takes
\* a suppression away before its relay step (relaySuppressions, forward).
THEOREM UpdatesDoNotEcho ==
    Spec /\ [][SuppressionsLast]_vars => []NoEcho
<1>1. TypeInv /\ EchoInv => NoEcho
  <2> SUFFICES ASSUME TypeInv, EchoInv, ~collapsed
               PROVE  changes <= Used("change") + Used("press")
    BY DEF NoEcho
  <2>1. /\ Cardinality(Suppressions) <= Cardinality(RelaySteps)
        /\ Cardinality(RelaySteps) \in Nat /\ Cardinality(Suppressions) \in Nat
    BY FewerSuppressions, FS_CardinalityType DEF EchoInv
  <2>2. Ledger + Cardinality(RelaySteps)
            <= Limits["change"] + Limits["press"] + Cardinality(Suppressions)
    BY DEF EchoInv, Balanced
  <2>3. Ledger <= Limits["change"] + Limits["press"] BY <2>1, <2>2, LedgerTypes
  <2>4. /\ changes \in Nat /\ budget["change"] \in Nat /\ budget["press"] \in Nat
        /\ Limits["change"] \in Nat /\ Limits["press"] \in Nat
    BY ConstantsAssumption DEF TypeInv, PrimaryTypes, Kinds
  <2>5. QED BY <2>3, <2>4 DEF Ledger, Used
<1>2. TypeInv /\ TypeInv' /\ EchoInv /\ [Next]_vars /\ [SuppressionsLast]_vars => EchoInv'
  BY EchoInvStep
<1>3. QED BY <1>1, <1>2, EchoInvInit, ActivityInvariants, PTL DEF Spec
=============================================================================
