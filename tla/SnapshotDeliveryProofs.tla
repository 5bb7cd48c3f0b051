----------------------- MODULE SnapshotDeliveryProofs -----------------------
(***************************************************************************)
(* Proof that a push of SnapshotDelivery which is recorded as a success    *)
(* was carried out by the Satellite, for any number of overlapping pushes, *)
(* lost answers, deaths, sleeps and moves.                                 *)
(***************************************************************************)
EXTENDS SnapshotDelivery, TLAPS

\* An answer ok that is on its way, and a success that is recorded, are about
\* a snapshot that was applied; only a push that waits has an answer.
PushKept(p) ==
    /\ push[p].reply = "ok" => push[p].snap \in done
    /\ push[p].result = "success" => push[p].snap \in done
    /\ push[p].pc # "idle" => push[p].snap \in Snapshots
    /\ push[p].pc # "wait" => push[p].reply = Nothing

\* A post that is waited for is the last one its push made, still unanswered.
LiveKept(r) ==
    r.live => /\ push[r.by].pc = "wait" /\ push[r.by].reply = Nothing
              /\ push[r.by].snap = r.snap

\* What is being applied is the snapshot of the post being served, and no push
\* waits for two posts.
ServingKept ==
    serving # Nothing =>
        /\ running = serving.snap /\ LiveKept(serving)
        /\ serving.live => \A r \in requests : r.live => r.by # serving.by

DeliveryInv ==
    /\ DeliveryTypeOK
    /\ running \in Snapshots \cup {Nothing}
    /\ \A p \in Pushes : PushKept(p)
    /\ \A r \in requests : LiveKept(r)
    /\ ServingKept

\* Push p gives up the post it waited for: it posts again or ends in vain.
Released(p) ==
    /\ push' \in [Pushes -> Push]
    /\ \A q \in Pushes \ {p} : push'[q] = push[q]
    /\ push'[p].snap = push[p].snap /\ push'[p].reply = Nothing
    /\ push'[p].result \in {push[p].result, "failed"}

\* The post r is answered, if it is still waited for.
Answered(r, reply) ==
    /\ push' \in [Pushes -> Push]
    /\ \A q \in Pushes : ~(r.live /\ q = r.by) => push'[q] = push[q]
    /\ r.live => push'[r.by] = [push[r.by] EXCEPT !.reply = reply]

\* Reaching a deadline or not, a push that posts again is Released.
LEMMA AgainReleases ==
    ASSUME DeliveryTypeOK, NEW p \in Pushes, NEW mode \in Modes, Again(p, mode)
    PROVE  Released(p)
<1>1. push \in [Pushes -> Push] /\ push[p] \in Push
  BY DEF DeliveryTypeOK
<1>2. CASE push[p].try < MaxTries
  <2>1. push[p].try + 1 \in 0..MaxTries
    BY <1>1, <1>2, DeliveryAssumption DEF Push
  <2>2. push' = [push EXCEPT ![p].pc = "send", ![p].mode = mode,
                              ![p].reply = Nothing, ![p].try = @ + 1]
    BY <1>2 DEF Again
  <2> QED
    BY <1>1, <2>1, <2>2 DEF Released, Push
<1>3. CASE ~(push[p].try < MaxTries)
  BY <1>1, <1>3 DEF Again, Ended, Released, Push, Results
<1> QED
  BY <1>2, <1>3

\* A push that fails is Released.
LEMMA FailureReleases ==
    ASSUME DeliveryTypeOK, NEW p \in Pushes, Ended(p, "failed")
    PROVE  Released(p)
<1>1. push \in [Pushes -> Push] /\ push[p] \in Push
  BY DEF DeliveryTypeOK
<1> QED
  BY <1>1 DEF Ended, Released, Push, Results

\* A transport error releases the push and keeps the types of what it sets.
LEMMA UnreachableReleases ==
    ASSUME DeliveryTypeOK, NEW p \in Pushes, Unreachable(p)
    PROVE  Released(p) /\ awake' \in BOOLEAN /\ cached' \in Addresses \cup {Nothing}
<1>1. push[p].mode \in Modes
  BY DEF DeliveryTypeOK, Push
<1>2. Released(p)
  <2>1. CASE push[p].mode = "first" /\ HasMac
    BY <2>1, AgainReleases DEF Unreachable, Modes
  <2>2. CASE push[p].mode = "first" /\ ~HasMac
    BY <2>2, AgainReleases DEF Unreachable, Modes
  <2>3. CASE push[p].mode = "second"
    BY <2>3, FailureReleases DEF Unreachable
  <2>4. CASE push[p].mode \in {"wake", "restart"}
    BY <2>4, AgainReleases DEF Unreachable, Modes
  <2> QED
    BY <1>1, <2>1, <2>2, <2>3, <2>4 DEF Modes
<1>3. awake' \in BOOLEAN /\ cached' \in Addresses \cup {Nothing}
  BY DEF Unreachable, DeliveryTypeOK
<1> QED
  BY <1>2, <1>3

\* A fresh discovery finds an address of the network.
LEMMA LearntType ==
    ASSUME DeliveryTypeOK, NEW p \in Pushes
    PROVE  Learnt(p) \in Addresses \cup {Nothing}
BY DEF DeliveryTypeOK, Learnt

\* What every push promises survives a step that releases one of them, as long
\* as no applied snapshot is forgotten.
LEMMA ReleaseKeepsPushes ==
    ASSUME DeliveryInv, NEW p \in Pushes, Released(p), push[p].pc # "idle",
           done \subseteq done'
    PROVE  \A q \in Pushes : PushKept(q)'
<1> SUFFICES ASSUME NEW q \in Pushes PROVE PushKept(q)'
  OBVIOUS
<1>1. PushKept(q)
  BY DEF DeliveryInv
<1>2. CASE q # p
  BY <1>1, <1>2 DEF PushKept, Released
<1>3. CASE q = p
  BY <1>1, <1>3, DeliveryAssumption DEF PushKept, Released, Replies
<1> QED
  BY <1>2, <1>3

\* A released push waits for nothing; every other one goes on waiting.
LEMMA ReleaseKeepsLive ==
    ASSUME NEW p \in Pushes, Released(p), NEW r \in Request, LiveKept(r),
           r.live => r.by # p
    PROVE  LiveKept(r)'
BY DEF LiveKept, Released, Request

-----------------------------------------------------------------------------
\* At first nothing was pushed.
LEMMA DeliveryInitial == DeliveryInit => DeliveryInv
BY DeliveryAssumption
   DEF DeliveryInit, DeliveryInv, DeliveryTypeOK, Push, Modes, IdlePush, PushKept,
       LiveKept, ServingKept, Replies, Results

\* A new push replaces one that has ended, for which no post is waited.
LEMMA StartKeeps ==
    ASSUME DeliveryInv, NEW p \in Pushes, NEW s \in Snapshots, Start(p, s)
    PROVE  DeliveryInv'
<1> DEFINE new == [pc |-> "send", mode |-> "first", snap |-> s, try |-> 1,
                   reply |-> Nothing, result |-> Nothing]
<1>1. push \in [Pushes -> Push] /\ push[p].pc = "idle"
  BY DEF DeliveryInv, DeliveryTypeOK, Start
<1>2. push' = [push EXCEPT ![p] = new]
  <2>1. ASSUME NEW f, f = [IdlePush EXCEPT !.pc = "send", !.snap = s, !.try = 1]
        PROVE  f = new
    BY <2>1 DEF IdlePush
  <2>2. PICK f : f = [IdlePush EXCEPT !.pc = "send", !.snap = s, !.try = 1]
    OBVIOUS
  <2>3. push' = [push EXCEPT ![p] = f]
    BY <2>2 DEF Start
  <2> QED
    BY <2>1, <2>2, <2>3
<1>3. new \in Push
  BY DeliveryAssumption DEF Push, Modes
<1>4. UNCHANGED <<mvars, requests, serving, netVars, cached>>
  BY DEF Start
<1>5. DeliveryTypeOK'
  BY <1>1, <1>2, <1>3, <1>4 DEF DeliveryInv, DeliveryTypeOK, mvars, netVars
<1>6. \A q \in Pushes : PushKept(q)'
  BY <1>1, <1>2, <1>4, DeliveryAssumption
     DEF DeliveryInv, PushKept, mvars, Replies, Results
<1>7. ASSUME NEW r \in Request, LiveKept(r) PROVE LiveKept(r)'
  <2>1. CASE r.by = p
    BY <1>1, <1>7, <2>1 DEF LiveKept
  <2>2. CASE r.by # p
    BY <1>1, <1>2, <1>7, <2>2 DEF LiveKept, Request
  <2> QED
    BY <2>1, <2>2
<1>8. (\A r \in requests : LiveKept(r))' /\ ServingKept'
  BY <1>4, <1>7 DEF DeliveryInv, DeliveryTypeOK, ServingKept, mvars
<1> QED
  BY <1>4, <1>5, <1>6, <1>8 DEF DeliveryInv, mvars

\* A post that is made is waited for, and is the only one of its push; one that
\* fails at once leaves what the others wait for.
LEMMA PostKeeps ==
    ASSUME DeliveryInv, NEW p \in Pushes, Post(p)
    PROVE  DeliveryInv'
<1> DEFINE req == [by |-> p, snap |-> push[p].snap, live |-> TRUE]
<1>1. push \in [Pushes -> Push] /\ push[p].pc = "send" /\ DeliveryTypeOK
  BY DEF DeliveryInv, DeliveryTypeOK, Post
<1>2. UNCHANGED <<running, lacking, warned, done, answer, serving, address, other>>
  BY DEF Post, mvars
<1>3. /\ \A r \in requests : r \in Request /\ LiveKept(r) /\ (r.live => r.by # p)
      /\ serving # Nothing => /\ serving \in Request /\ LiveKept(serving)
                              /\ serving.live => serving.by # p
  <2>1. \A r \in requests : r \in Request /\ LiveKept(r)
    BY DEF DeliveryInv, DeliveryTypeOK
  <2>2. serving # Nothing => serving \in Request /\ LiveKept(serving)
    BY DEF DeliveryInv, DeliveryTypeOK, ServingKept
  <2> QED
    BY <1>1, <2>1, <2>2 DEF LiveKept
<1>4. CASE /\ push' = [push EXCEPT ![p].pc = "wait"]
           /\ requests' = requests \cup {req}
           /\ cached' = Learnt(p) /\ UNCHANGED awake
  <2>1. push[p] \in Push /\ push[p].snap \in Snapshots /\ req \in Request
    BY <1>1 DEF DeliveryInv, PushKept, Request
  <2>2. push' \in [Pushes -> Push]
    BY <1>1, <1>4, <2>1 DEF Push
  <2>3. DeliveryTypeOK'
    BY <1>1, <1>2, <1>4, <2>1, <2>2, LearntType DEF DeliveryTypeOK
  <2>4. \A q \in Pushes : PushKept(q)'
    BY <1>1, <1>2, <1>4, <2>1 DEF DeliveryInv, PushKept, Push
  <2>5. ASSUME NEW r \in Request, LiveKept(r), r.live => r.by # p PROVE LiveKept(r)'
    BY <1>1, <1>4, <2>5 DEF LiveKept, Request
  <2>6. ASSUME NEW r \in Request, r = req PROVE LiveKept(r)'
    <3>1. push[p].reply = Nothing
      BY <1>1 DEF DeliveryInv, PushKept
    <3> QED
      BY <1>1, <1>4, <2>1, <2>6, <3>1 DEF LiveKept, Push
  <2>7. (\A r \in requests : LiveKept(r))'
    <3> SUFFICES ASSUME NEW r \in requests' PROVE LiveKept(r)'
      OBVIOUS
    <3>1. CASE r \in requests
      BY <1>3, <2>5, <3>1
    <3>2. CASE r \notin requests
      BY <1>4, <2>1, <2>6, <3>2
    <3> QED
      BY <3>1, <3>2
  <2>8. ServingKept'
    BY <1>2, <1>3, <1>4, <2>5 DEF DeliveryInv, ServingKept
  <2> QED
    BY <1>2, <2>3, <2>4, <2>7, <2>8 DEF DeliveryInv
<1>5. CASE /\ Released(p) /\ UNCHANGED requests
           /\ awake' \in BOOLEAN /\ cached' \in Addresses \cup {Nothing}
  <2>1. DeliveryTypeOK'
    BY <1>1, <1>2, <1>5 DEF DeliveryTypeOK, Released
  <2>2. \A q \in Pushes : PushKept(q)'
    BY <1>1, <1>2, <1>5, ReleaseKeepsPushes
  <2>3. ASSUME NEW r \in Request, LiveKept(r), r.live => r.by # p PROVE LiveKept(r)'
    BY <1>5, <2>3, ReleaseKeepsLive
  <2>4. (\A r \in requests : LiveKept(r))'
    BY <1>3, <1>5, <2>3
  <2>5. ServingKept'
    BY <1>2, <1>3, <1>5, <2>3 DEF DeliveryInv, ServingKept
  <2> QED
    BY <1>2, <2>1, <2>2, <2>4, <2>5 DEF DeliveryInv
<1> QED
  BY <1>1, <1>4, <1>5, FailureReleases, UnreachableReleases, LearntType
     DEF Post, DeliveryTypeOK
\* A post that is given up is taken from its push, wherever it is.
LEMMA PostFailsKeeps ==
    ASSUME DeliveryInv, NEW p \in Pushes, PostFails(p)
    PROVE  DeliveryInv'
<1> DEFINE mine == {r \in requests : r.by = p /\ r.live}
           served == serving # Nothing /\ serving.by = p /\ serving.live
<1>1. push \in [Pushes -> Push] /\ push[p].pc = "wait" /\ DeliveryTypeOK
  BY DEF DeliveryInv, DeliveryTypeOK, PostFails
<1>2. UNCHANGED <<running, lacking, warned, done, answer, address, other>>
  BY DEF PostFails, mvars
<1>3. Released(p) /\ awake' \in BOOLEAN /\ cached' \in Addresses \cup {Nothing}
  BY <1>1, UnreachableReleases DEF PostFails
<1>4. PICK kept \in SUBSET mine :
        requests' = (requests \ mine) \cup {[r EXCEPT !.live = FALSE] : r \in kept}
  BY DEF PostFails
<1>5. serving' = IF served THEN [serving EXCEPT !.live = FALSE] ELSE serving
  BY DEF PostFails
<1>6. ASSUME NEW r \in requests' PROVE r \in Request /\ (r.live => r \in requests \ mine)
  <2>1. CASE r \in requests \ mine
    BY <2>1 DEF DeliveryInv, DeliveryTypeOK
  <2>2. CASE r \notin requests \ mine
    <3>1. PICK q \in requests : r = [q EXCEPT !.live = FALSE]
      BY <1>4, <1>6, <2>2
    <3> QED
      BY <3>1 DEF DeliveryInv, DeliveryTypeOK, Request
  <2> QED
    BY <2>1, <2>2
<1>7. serving # Nothing => /\ serving \in Request /\ serving' \in Request
                           /\ serving'.live => serving' = serving /\ serving.by # p
                           /\ serving'.snap = serving.snap
  BY <1>5 DEF DeliveryInv, DeliveryTypeOK, Request
<1>8. serving = Nothing => serving' = Nothing
  BY <1>5
<1>9. ASSUME NEW r \in Request, LiveKept(r), r.live => r.by # p PROVE LiveKept(r)'
  BY <1>3, <1>9, ReleaseKeepsLive
<1>10. DeliveryTypeOK'
  BY <1>1, <1>2, <1>3, <1>6, <1>7, <1>8 DEF DeliveryTypeOK, Released
<1>11. \A q \in Pushes : PushKept(q)'
  BY <1>1, <1>2, <1>3, ReleaseKeepsPushes
<1>12. (\A r \in requests : LiveKept(r))'
  <2> SUFFICES ASSUME NEW r \in requests' PROVE LiveKept(r)'
    OBVIOUS
  <2>1. CASE r.live
    BY <1>6, <1>9, <2>1 DEF DeliveryInv
  <2>2. CASE ~r.live
    BY <2>2 DEF LiveKept
  <2> QED
    BY <2>1, <2>2
<1>13. ServingKept'
  <2> SUFFICES ASSUME serving' # Nothing PROVE ServingKept'
    BY DEF ServingKept
  <2>1. serving # Nothing /\ running' = serving'.snap
    BY <1>2, <1>7, <1>8 DEF DeliveryInv, ServingKept
  <2>2. CASE serving'.live
    <3>1. serving' = serving /\ LiveKept(serving)'
      BY <1>7, <1>9, <2>1, <2>2 DEF DeliveryInv, ServingKept
    <3>2. \A r \in requests' : r.live => r.by # serving'.by
      BY <1>6, <2>1, <2>2, <3>1 DEF DeliveryInv, ServingKept
    <3> QED
      BY <2>1, <3>1, <3>2 DEF ServingKept, LiveKept
  <2>3. CASE ~serving'.live
    BY <2>1, <2>3 DEF ServingKept, LiveKept
  <2> QED
    BY <2>2, <2>3
<1> QED
  BY <1>2, <1>10, <1>11, <1>12, <1>13 DEF DeliveryInv

\* An answer is handled when no post of its push is waited for any more.
LEMMA HandleKeeps ==
    ASSUME DeliveryInv, NEW p \in Pushes, Handle(p)
    PROVE  DeliveryInv'
<1>1. /\ push \in [Pushes -> Push] /\ push[p].reply # Nothing
      /\ push[p].pc = "wait" /\ DeliveryTypeOK
  BY DEF DeliveryInv, DeliveryTypeOK, Handle, PushKept
<1>2. UNCHANGED <<running, lacking, warned, done, answer, requests, serving, awake, address, other>>
  BY DEF Handle, mvars, netVars
<1>3. cached' \in Addresses \cup {Nothing}
  BY <1>1 DEF Handle, DeliveryTypeOK
<1>4. /\ \A r \in requests : r \in Request /\ LiveKept(r) /\ (r.live => r.by # p)
      /\ serving # Nothing => /\ serving \in Request /\ LiveKept(serving)
                              /\ serving.live => serving.by # p
  <2>1. \A r \in requests : r \in Request /\ LiveKept(r)
    BY DEF DeliveryInv, DeliveryTypeOK
  <2>2. serving # Nothing => serving \in Request /\ LiveKept(serving)
    BY DEF DeliveryInv, DeliveryTypeOK, ServingKept
  <2> QED
    BY <1>1, <2>1, <2>2 DEF LiveKept
<1>5. /\ push' \in [Pushes -> Push] /\ \A q \in Pushes : PushKept(q)'
      /\ \A q \in Pushes \ {p} : push'[q] = push[q]
  <2>1. CASE Accepted(p)
    <3>1. push' = [push EXCEPT ![p].pc = "idle", ![p].result = "success", ![p].reply = Nothing]
      <4>1. Ended(p, "success")
        BY <2>1, DeliveryAssumption DEF Handle, Accepted, Restarting, Replies
      <4> QED
        BY <4>1 DEF Ended
    <3>2. push[p].snap \in done
      BY <2>1 DEF Accepted, DeliveryInv, PushKept
    <3>3. push[p] \in Push
      BY <1>1
    <3>4. push' \in [Pushes -> Push]
      BY <1>1, <3>1, <3>3 DEF Push, Results
    <3>5. ASSUME NEW q \in Pushes PROVE PushKept(q)'
      <4>1. CASE q = p
        BY <1>1, <1>2, <3>1, <3>2, <3>3, <4>1, DeliveryAssumption DEF PushKept, Push, Replies
      <4>2. CASE q # p
        BY <1>1, <1>2, <3>1, <4>2 DEF DeliveryInv, PushKept
      <4> QED
        BY <4>1, <4>2
    <3> QED
      BY <1>1, <3>1, <3>4, <3>5
  <2>2. CASE ~Accepted(p)
    <3>1. Released(p)
      <4>1. CASE Restarting(p)
        BY <1>1, <2>2, <4>1, AgainReleases DEF Handle, Modes
      <4>2. CASE ~Restarting(p)
        BY <1>1, <2>2, <4>2, FailureReleases DEF Handle
      <4> QED
        BY <4>1, <4>2
    <3> QED
      BY <1>1, <1>2, <3>1, ReleaseKeepsPushes DEF Released
  <2> QED
    BY <2>1, <2>2
<1>6. ASSUME NEW r \in Request, LiveKept(r), r.live => r.by # p PROVE LiveKept(r)'
  BY <1>5, <1>6 DEF LiveKept, Request
<1>7. DeliveryTypeOK'
  BY <1>1, <1>2, <1>3, <1>5 DEF DeliveryTypeOK
<1>8. (\A r \in requests : LiveKept(r))'
  BY <1>2, <1>4, <1>6
<1>9. ServingKept'
  BY <1>2, <1>4, <1>6 DEF DeliveryInv, ServingKept
<1> QED
  BY <1>2, <1>5, <1>7, <1>8, <1>9 DEF DeliveryInv
\* Two posts of one push that are both waited for are one post.
LEMMA OnlyLive ==
    ASSUME NEW r \in Request, NEW q \in Request, LiveKept(r), LiveKept(q),
           r.live, q.live, r.by = q.by
    PROVE  r = q
BY DEF LiveKept, Request

\* An answer reaches the post it belongs to, and no other.
LEMMA ReplyAnswers ==
    ASSUME push \in [Pushes -> Push], NEW r \in Request, NEW reply \in Replies,
           Reply(r, reply)
    PROVE  Answered(r, reply)
<1>1. CASE r.live
  <2>1. push' = [push EXCEPT ![r.by].reply = reply] /\ r.by \in Pushes
    BY <1>1 DEF Reply, Request
  <2>2. push[r.by] \in Push /\ [push[r.by] EXCEPT !.reply = reply] \in Push
    BY <2>1 DEF Push
  <2> QED
    BY <1>1, <2>1, <2>2 DEF Answered
<1>2. CASE ~r.live
  BY <1>2 DEF Reply, Answered
<1> QED
  BY <1>1, <1>2

\* An answer keeps what the pushes promise if ok is said of an applied snapshot.
LEMMA AnswerKeepsPushes ==
    ASSUME DeliveryInv, NEW r \in Request, NEW reply \in Replies, LiveKept(r),
           Answered(r, reply), reply = "ok" => r.snap \in done',
           done \subseteq done'
    PROVE  \A q \in Pushes : PushKept(q)'
<1> SUFFICES ASSUME NEW q \in Pushes PROVE PushKept(q)'
  OBVIOUS
<1>1. PushKept(q) /\ push[q] \in Push
  BY DEF DeliveryInv, DeliveryTypeOK
<1>2. CASE r.live /\ q = r.by
  BY <1>1, <1>2 DEF PushKept, LiveKept, Answered, Push
<1>3. CASE ~(r.live /\ q = r.by)
  BY <1>1, <1>3 DEF PushKept, Answered
<1> QED
  BY <1>2, <1>3

\* The Satellite answers a post at once or begins to apply its snapshot.
LEMMA ArriveKeeps ==
    ASSUME DeliveryInv, NEW r \in requests, Arrive(r)
    PROVE  DeliveryInv'
<1>1. /\ push \in [Pushes -> Push] /\ DeliveryTypeOK /\ r \in Request
      /\ requests' = requests \ {r} /\ UNCHANGED <<done, netVars, cached>>
  BY DEF Arrive, DeliveryInv, DeliveryTypeOK, Busy, Repeat, Begin
<1>2. CASE \E reply \in Replies :
             /\ (reply = "ok" => r.snap \in done) /\ Reply(r, reply)
             /\ UNCHANGED <<running, serving>>
  <2>1. PICK reply \in Replies :
             /\ (reply = "ok" => r.snap \in done) /\ Reply(r, reply)
             /\ UNCHANGED <<running, serving>>
    BY <1>2
  <2>2. LiveKept(r)
    BY DEF DeliveryInv
  <2>3. Answered(r, reply)
    BY <1>1, <2>1, <2>2, ReplyAnswers DEF DeliveryInv
  <2>4. \A q \in requests' : q \in Request /\ LiveKept(q) /\ (q.live => ~(r.live /\ q.by = r.by))
    BY <1>1, <2>2, OnlyLive DEF DeliveryInv, DeliveryTypeOK
  <2>5. serving # Nothing => /\ serving \in Request /\ LiveKept(serving)
                             /\ (serving.live => ~(r.live /\ serving.by = r.by))
    BY <1>1 DEF DeliveryInv, DeliveryTypeOK, ServingKept
  <2>6. \A q \in Pushes : PushKept(q)'
    BY <1>1, <2>1, <2>2, <2>3, AnswerKeepsPushes
  <2>7. ASSUME NEW q \in Request, LiveKept(q), q.live => ~(r.live /\ q.by = r.by)
        PROVE  LiveKept(q)'
    BY <2>3, <2>7 DEF LiveKept, Answered, Request
  <2>8. (\A q \in requests : LiveKept(q))' /\ ServingKept'
    BY <1>1, <2>1, <2>4, <2>5, <2>7 DEF DeliveryInv, ServingKept
  <2>9. DeliveryTypeOK'
    BY <1>1, <2>1, <2>3 DEF DeliveryTypeOK, Answered, netVars
  <2> QED
    BY <2>1, <2>6, <2>8, <2>9 DEF DeliveryInv
<1>3. CASE Begin(r.snap) /\ serving' = r /\ UNCHANGED push
  <2>1. running' = r.snap /\ running' # Nothing /\ r.snap \in Snapshots
    BY <1>1, <1>3, DeliveryAssumption DEF Begin, Request
  <2>2. \A q \in requests' : q \in requests /\ (q.live /\ r.live => q.by # r.by)
    BY <1>1, OnlyLive DEF DeliveryInv, DeliveryTypeOK
  <2>3. DeliveryTypeOK'
    BY <1>1, <1>3, <2>1 DEF DeliveryTypeOK, netVars
  <2>4. (\A q \in Pushes : PushKept(q))'
    BY <1>1, <1>3 DEF DeliveryInv, PushKept
  <2>5. (\A q \in requests : LiveKept(q))'
    BY <1>3, <2>2 DEF DeliveryInv, LiveKept
  <2>6. ServingKept'
    BY <1>3, <2>1, <2>2 DEF DeliveryInv, LiveKept, ServingKept
  <2> QED
    BY <2>1, <2>3, <2>4, <2>5, <2>6 DEF DeliveryInv
<1> QED
  BY <1>1, <1>2, <1>3 DEF Arrive, Busy, Repeat, Replies

\* An application ends: its success is remembered before it is answered.
LEMMA AppliedKeeps ==
    ASSUME DeliveryInv, Applied
    PROVE  DeliveryInv'
<1>1. /\ push \in [Pushes -> Push] /\ DeliveryTypeOK
      /\ serving \in Request /\ serving' = Nothing /\ running' = Nothing
      /\ LiveKept(serving) /\ running = serving.snap
      /\ UNCHANGED <<requests, netVars, cached>>
  BY DEF Applied, DeliveryInv, DeliveryTypeOK, ServingKept, Succeed, Fail
<1>2. PICK reply \in Replies : /\ (reply = "ok" => serving.snap \in done')
                               /\ Reply(serving, reply) /\ done \subseteq done'
  BY <1>1 DEF Applied, Succeed, Fail, Replies
<1>3. Answered(serving, reply)
  BY <1>1, <1>2, ReplyAnswers
<1>4. \A q \in Pushes : PushKept(q)'
  BY <1>1, <1>2, <1>3, AnswerKeepsPushes
<1>5. ASSUME NEW q \in requests PROVE LiveKept(q)'
  <2>1. q \in Request /\ LiveKept(q) /\ (q.live => ~(serving.live /\ q.by = serving.by))
    BY <1>1, <1>5, DeliveryAssumption DEF Applied, DeliveryInv, DeliveryTypeOK, ServingKept
  <2> QED
    BY <1>3, <2>1 DEF LiveKept, Answered, Request
<1>6. DeliveryTypeOK'
  BY <1>1, <1>3 DEF DeliveryTypeOK, Answered, netVars
<1> QED
  BY <1>1, <1>4, <1>5, <1>6 DEF DeliveryInv, ServingKept

\* A step that touches no push, makes no post and forgets no application.
LEMMA QuietKeeps ==
    ASSUME DeliveryInv, DeliveryTypeOK', UNCHANGED <<push, done>>,
           requests' \subseteq requests,
           UNCHANGED <<running, serving>> \/ (running' = Nothing /\ serving' = Nothing)
    PROVE  DeliveryInv'
<1>1. (\A q \in Pushes : PushKept(q))'
  BY DEF DeliveryInv, PushKept
<1>2. (\A q \in requests : LiveKept(q))'
  BY DEF DeliveryInv, LiveKept
<1>3. ServingKept'
  BY DEF DeliveryInv, ServingKept, LiveKept
<1> QED
  BY <1>1, <1>2, <1>3 DEF DeliveryInv

\* Every step keeps the invariant.
LEMMA DeliveryStep == DeliveryInv /\ [DeliveryNext]_vars => DeliveryInv'
<1> SUFFICES ASSUME DeliveryInv, [DeliveryNext]_vars PROVE DeliveryInv'
  OBVIOUS
<1> USE DEF DeliveryInv, DeliveryTypeOK
<1>1. ASSUME NEW p \in Pushes, NEW s \in Snapshots, Start(p, s) PROVE DeliveryInv'
  BY <1>1, StartKeeps
<1>2. ASSUME NEW p \in Pushes, PushStep(p) PROVE DeliveryInv'
  BY <1>2, PostKeeps, PostFailsKeeps, HandleKeeps DEF PushStep
<1>3. CASE SatelliteStep
  BY <1>3, ArriveKeeps, AppliedKeeps DEF SatelliteStep
<1>4. CASE SatelliteDies
  BY <1>4, QuietKeeps DEF SatelliteDies, Die, netVars
<1>5. CASE FallAsleep
  BY <1>5, QuietKeeps DEF FallAsleep, mvars
<1>6. CASE Move
  BY <1>6, QuietKeeps DEF Move, mvars
<1>7. CASE CacheExpires
  BY <1>7, QuietKeeps DEF CacheExpires, mvars, netVars
<1>8. CASE UNCHANGED vars
  BY <1>8, QuietKeeps DEF vars, mvars, netVars
<1> QED
  BY <1>1, <1>2, <1>3, <1>4, <1>5, <1>6, <1>7, <1>8 DEF DeliveryNext

\* The invariant holds throughout.
LEMMA DeliveryInvariant == DeliverySpec => []DeliveryInv
BY DeliveryInitial, DeliveryStep, PTL DEF DeliverySpec

-----------------------------------------------------------------------------
\* Every reachable state of the delivery has its type: no push runs past its
\* last post, and nothing is served while nothing is being applied.
THEOREM DeliveryTypes == DeliverySpec => []DeliveryTypeOK
<1>1. DeliveryInv => DeliveryTypeOK
  BY DEF DeliveryInv
<1> QED
  BY <1>1, DeliveryInvariant, PTL

\* What pushSnapshot reports as a success was applied by the Satellite, for any
\* number of pushes and posts that overlap, get lost, time out or are repeated.
THEOREM RecordedSuccessesWereApplied == DeliverySpec => []SuccessWasApplied
<1>1. DeliveryInv => SuccessWasApplied
  BY DEF DeliveryInv, PushKept, SuccessWasApplied
<1> QED
  BY <1>1, DeliveryInvariant, PTL
=============================================================================
