------------------------ MODULE SyncSchedulerProofs ------------------------
(***************************************************************************)
(* Proofs about SyncScheduler: the types, that revisions recognise every   *)
(* torn or outdated snapshot, that no change is written off, and that      *)
(* pending changes keep their wake-up.                                     *)
(***************************************************************************)
EXTENDS SyncScheduler, TLAPS

\* What a build that serves as job j looks like in every reachable state.
WellFormed(j, b) ==
    /\ b \in Job
    /\ b.pc \in {"compress", "push"} => b.content \in Content
    /\ b.pc \in {"read", "compress"} => b.built = b.rev
    /\ b.pc = "read" => \A s \in Sections : s < b.at => b.content[s] \in Values
    /\ (j = "manual" /\ b.pc # "idle") => b.only \in Peers

JobsInv == job \in [Jobs -> Job] /\ \A j \in Jobs : WellFormed(j, job[j])

\* syncVars, and everything else.
QueueInv == pending \in BOOLEAN /\ eventTimer \in BOOLEAN /\ trailing \in BOOLEAN /\ JobsInv

CoreTypes ==
    /\ source \in Content
    /\ watch \in {"off", "connecting", "lost", "live", "late"}
    /\ eventDue \in BOOLEAN /\ gen \in Nat
    /\ phase \in {"up", "stopping", "held", "closing", "starting", "down"}
    /\ revision \in Nat
    /\ budget \in [Kinds -> Nat]

SnapshotTypes == lastHash \in Content \cup {None} /\ cache \in Snapshot \cup {None}

RoundTypes ==
    /\ initialTimer \in BOOLEAN /\ periodicTimer \in BOOLEAN
    /\ round \in {"idle", "refresh", "audit"} /\ toRefresh \subseteq Peers

PeerTypes ==
    /\ retryTimers \subseteq Peers /\ enabled \subseteq Peers
    /\ retrying \in [Peers -> Content \cup {None}]
    /\ known \in [Peers -> Content \cup {None, Undefined}]
    /\ applied \in [Peers -> Content \cup {None, Mixed}]
    /\ satHash \in [Peers -> Content \cup {None}]

TypeInv == QueueInv /\ CoreTypes /\ SnapshotTypes /\ RoundTypes /\ PeerTypes

LEMMA TypeInvImpliesTypeOK == TypeInv => TypeOK
BY DEF TypeInv, TypeOK, QueueInv, JobsInv, WellFormed, CoreTypes, SnapshotTypes,
       RoundTypes, PeerTypes

-----------------------------------------------------------------------------
(* Jobs.                                                                    *)

LEMMA IdleIsWellFormed == ASSUME NEW j PROVE WellFormed(j, IdleJob)
BY ConstantsAssumption DEF WellFormed, IdleJob, Job, Sections

LEMMA NewIsWellFormed ==
    ASSUME TypeInv, NEW j, NEW force \in BOOLEAN, NEW dry \in BOOLEAN,
           NEW only \in Peers \cup {None}, j = "manual" => only \in Peers
    PROVE  WellFormed(j, NewJob(force, dry, only))
<1> DEFINE b == NewJob(force, dry, only)
<1>1. revision \in Nat /\ gen \in Nat BY DEF TypeInv, CoreTypes
<1>2. IdleJob \in Job BY IdleIsWellFormed DEF WellFormed
<1>3. b \in Job BY <1>1, <1>2 DEF NewJob, Job
<1>4. b.pc = "read" /\ b.at = 1 /\ b.built = b.rev /\ b.only = only BY DEF NewJob, IdleJob
<1>5. QED BY <1>3, <1>4 DEF WellFormed, Sections

\* Replacing one job by a well-formed one.
LEMMA ReplaceJob ==
    ASSUME JobsInv, NEW j \in Jobs, NEW b, WellFormed(j, b), job' = [job EXCEPT ![j] = b]
    PROVE  JobsInv'
<1>1. b \in Job BY DEF WellFormed
<1>2. job' \in [Jobs -> Job] BY <1>1 DEF JobsInv
<1>3. ASSUME NEW k \in Jobs PROVE WellFormed(k, job'[k])
  <2>1. CASE k = j BY <2>1 DEF JobsInv
  <2>2. CASE k # j
    <3>1. job'[k] = job[k] BY <2>2 DEF JobsInv
    <3>2. QED BY <3>1 DEF JobsInv
  <2>3. QED BY <2>1, <2>2
<1>4. (\A k \in Jobs : WellFormed(k, job[k]))' BY <1>3 DEF WellFormed
<1>5. QED BY <1>2, <1>4 DEF JobsInv

LEMMA FinishTypes ==
    ASSUME QueueInv, NEW b, NEW pend \in BOOLEAN, NEW timer \in BOOLEAN,
           Finish(b, pend, timer)
    PROVE  QueueInv'
<1>1. JobsInv' BY ReplaceJob, IdleIsWellFormed DEF Finish, Jobs, QueueInv
<1>2. pending' \in BOOLEAN BY DEF Finish
<1>3. trailing' \in BOOLEAN BY Zenon DEF Finish
<1>4. eventTimer' \in BOOLEAN BY Zenon DEF Finish, ArmsEventTimer
<1>5. QED BY <1>1, <1>2, <1>3, <1>4 DEF QueueInv

LEMMA DecideTypes ==
    ASSUME TypeInv, NEW b, b \in Job, b.content \in Content, NEW timer \in BOOLEAN,
           Decide(b, timer)
    PROVE  QueueInv'
<1> DEFINE targets   == {p \in enabled : b.only \in {None, p}}
           pushes    == [b EXCEPT !.pc = "push", !.todo = targets]
           unchanged == ~b.dry /\ ~b.force /\ b.content = lastHash
           missing   == b.only # None /\ targets = {}
<1>1. CASE unchanged /\ Finish(b, revision # b.rev, timer)
  <2>1. (revision # b.rev) \in BOOLEAN OBVIOUS
  <2>2. QED BY <1>1, <2>1, FinishTypes DEF TypeInv
<1>2. CASE ~unchanged /\ missing /\ Finish(b, pending, timer)
  BY <1>2, FinishTypes DEF TypeInv, QueueInv
<1>3. CASE /\ job' = [job EXCEPT !["sync"] = pushes]
           /\ eventTimer' = timer
           /\ UNCHANGED <<pending, trailing>>
  <2>1. targets \subseteq Peers BY DEF TypeInv, PeerTypes
  <2>2. WellFormed("sync", pushes) BY <2>1 DEF WellFormed, Job
  <2>3. JobsInv' BY <1>3, <2>2, ReplaceJob DEF Jobs, TypeInv, QueueInv
  <2>4. QED BY <1>3, <2>3 DEF TypeInv, QueueInv
<1>4. QED BY <1>1, <1>2, <1>3 DEF Decide

\* A synchronization that takes the cache.
LEMMA CachedJob ==
    ASSUME TypeInv, cache # None, NEW b \in Job, NEW e,
           e = [b EXCEPT !.content = cache.content, !.built = cache.rev, !.gen = cache.gen]
    PROVE  /\ e \in Job /\ e.content \in Content
           /\ e.content = cache.content /\ e.built = cache.rev /\ e.gen = cache.gen
           /\ e.dry = b.dry /\ e.only = b.only
<1>1. cache.content \in Content /\ cache.rev \in Nat /\ cache.gen \in Nat
  BY DEF TypeInv, SnapshotTypes, Snapshot
<1>2. cache.content \in [Sections -> Values \cup {None}] BY <1>1 DEF Content
<1>3. /\ e.content = cache.content /\ e.built = cache.rev /\ e.gen = cache.gen
      /\ e.dry = b.dry /\ e.only = b.only
  BY DEF Job
<1>4. e \in Job BY <1>1, <1>2 DEF Job
<1>5. QED BY <1>1, <1>3, <1>4

LEMMA BeginTypes ==
    ASSUME TypeInv, NEW force \in BOOLEAN, NEW dry \in BOOLEAN, NEW reconcile \in BOOLEAN,
           NEW only \in Peers \cup {None}, NEW timer \in BOOLEAN,
           Begin(force, dry, reconcile, only, timer)
    PROVE  QueueInv'
<1> DEFINE b      == NewJob(force, dry, only)
           cached == [b EXCEPT !.content = cache.content, !.built = cache.rev, !.gen = cache.gen]
<1>1. WellFormed("sync", b) BY NewIsWellFormed
<1>2. CASE cache # None /\ Decide(cached, timer)
  <2>1. b \in Job BY <1>1 DEF WellFormed
  <2>2. cached \in Job /\ cached.content \in Content BY <1>2, <2>1, CachedJob
  <2>3. QED BY <1>2, <2>2, DecideTypes
<1>3. CASE /\ job' = [job EXCEPT !["sync"] = b]
           /\ eventTimer' = timer
           /\ UNCHANGED <<pending, trailing>>
  <2>1. JobsInv' BY <1>1, <1>3, ReplaceJob DEF Jobs, TypeInv, QueueInv
  <2>2. QED BY <1>3, <2>1 DEF TypeInv, QueueInv
<1>4. QED BY <1>2, <1>3 DEF Begin

LEMMA SyncNowTypes ==
    ASSUME TypeInv, NEW force \in BOOLEAN, NEW dry \in BOOLEAN, NEW reconcile \in BOOLEAN,
           NEW only \in Peers \cup {None}, NEW timer \in BOOLEAN, NEW loaded,
           SyncNow(force, dry, reconcile, only, timer, loaded)
    PROVE  QueueInv'
<1>1. CASE eventTimer' = timer /\ UNCHANGED <<pending, trailing, job>>
  BY <1>1 DEF TypeInv, QueueInv, JobsInv, WellFormed
<1>2. CASE eventTimer' = ArmsEventTimer(pending) /\ UNCHANGED <<pending, trailing, job>>
  <2>1. eventTimer' \in BOOLEAN BY <1>2, Zenon DEF ArmsEventTimer
  <2>2. QED BY <1>2, <2>1 DEF TypeInv, QueueInv, JobsInv, WellFormed
<1>3. CASE trailing' = (trailing \/ (~dry /\ pending)) /\ eventTimer' = timer
           /\ UNCHANGED <<pending, job>>
  <2>1. trailing' \in BOOLEAN BY <1>3, Zenon
  <2>2. QED BY <1>3, <2>1 DEF TypeInv, QueueInv, JobsInv, WellFormed
<1>4. CASE Begin(force, dry, reconcile, only, timer)
  BY <1>4, BeginTypes
<1>5. QED BY <1>1, <1>2, <1>3, <1>4, Zenon DEF SyncNow

LEMMA DeliverTypes ==
    ASSUME TypeInv, NEW p \in Peers, NEW c \in Content, NEW outcome, Deliver(p, c, outcome)
    PROVE  /\ applied' \in [Peers -> Content \cup {None, Mixed}]
           /\ satHash' \in [Peers -> Content \cup {None}]
           /\ budget' \in [Kinds -> Nat]
<1>1. satHash' \in [Peers -> Content \cup {None}]
  BY DEF Deliver, TypeInv, PeerTypes
<1>2. applied' \in [Peers -> Content \cup {None, Mixed}]
  BY DEF Deliver, TypeInv, PeerTypes
<1>3. budget' \in [Kinds -> Nat]
  BY DEF Deliver, FailsIf, Spend, Kinds, TypeInv, CoreTypes
<1>4. QED BY <1>1, <1>2, <1>3

LEMMA SpendTypes ==
    ASSUME TypeInv, NEW kind \in Kinds, Spend(kind)
    PROVE  budget' \in [Kinds -> Nat]
BY DEF Spend, TypeInv, CoreTypes

LEMMA FailsIfTypes ==
    ASSUME TypeInv, NEW fails, FailsIf(fails)
    PROVE  budget' \in [Kinds -> Nat]
BY DEF FailsIf, Spend, Kinds, TypeInv, CoreTypes

LEMMA UnchangedQueue ==
    ASSUME QueueInv, UNCHANGED syncVars
    PROVE  QueueInv'
BY DEF QueueInv, JobsInv, WellFormed, syncVars

\* The queue when only job j changes.
LEMMA QueueWithJob ==
    ASSUME QueueInv, NEW j \in Jobs, NEW b, WellFormed(j, b), job' = [job EXCEPT ![j] = b],
           UNCHANGED <<pending, eventTimer, trailing>>
    PROVE  QueueInv'
<1>1. JobsInv' BY ReplaceJob DEF QueueInv
<1>2. QED BY <1>1 DEF QueueInv

\* The queue when only the timer, the trailing flag and pending_changes change.
LEMMA QueueWithoutJob ==
    ASSUME QueueInv, UNCHANGED job, pending' \in BOOLEAN, eventTimer' \in BOOLEAN,
           trailing' \in BOOLEAN
    PROVE  QueueInv'
BY DEF QueueInv, JobsInv, WellFormed

-----------------------------------------------------------------------------
(* One lemma per group of actions.                                          *)

LEMMA RequestTypes ==
    ASSUME TypeInv, NEW force \in BOOLEAN, NEW dry \in BOOLEAN, NEW loaded \in BOOLEAN,
           NEW only \in Peers \cup {None}, RequestSync(force, dry, only, loaded)
    PROVE  QueueInv'
<1>1. SyncNow(force, dry, FALSE, only, eventTimer, loaded) BY DEF RequestSync
<1>2. eventTimer \in BOOLEAN BY DEF TypeInv, QueueInv
<1>3. QED BY <1>1, <1>2, SyncNowTypes, ZenonT(60)

LEMMA EnvironmentTypes == ASSUME TypeInv, Environment PROVE TypeInv'
<1> USE DEF TypeInv, coreVars, roundVars, retryVars, satVars
<1>1. ASSUME NEW s \in Sections, CoreEdit(s) PROVE TypeInv'
  <2>1. QueueInv' BY <1>1, UnchangedQueue DEF CoreEdit
  <2>2. source' \in Content BY <1>1, ConstantsAssumption DEF CoreEdit, CoreTypes, Content
  <2>3. eventDue' \in BOOLEAN BY <1>1, Zenon DEF CoreEdit
  <2>4. budget' \in [Kinds -> Nat] BY <1>1, SpendTypes DEF CoreEdit, Kinds
  <2>5. QED BY <1>1, <2>1, <2>2, <2>3, <2>4
              DEF CoreEdit, CoreTypes, SnapshotTypes, RoundTypes, PeerTypes
<1>2. ASSUME WatchDrops PROVE TypeInv'
  <2>1. QueueInv' BY <1>2, UnchangedQueue DEF WatchDrops
  <2>2. budget' \in [Kinds -> Nat] BY <1>2, SpendTypes DEF WatchDrops, Kinds
  <2>3. QED BY <1>2, <2>1, <2>2
              DEF WatchDrops, CoreTypes, SnapshotTypes, RoundTypes, PeerTypes
<1>3. ASSUME NEW force \in BOOLEAN, NEW dry \in BOOLEAN, NEW loaded \in BOOLEAN,
             NEW only \in Peers \cup {None}, RequestSync(force, dry, only, loaded)
      PROVE TypeInv'
  <2>1. QueueInv' BY <1>3, RequestTypes
  <2>2. budget' \in [Kinds -> Nat] BY <1>3, SpendTypes DEF RequestSync, Kinds
  <2>3. QED BY <1>3, <2>1, <2>2
              DEF RequestSync, CoreTypes, SnapshotTypes, RoundTypes, PeerTypes
<1>4. ASSUME NEW p \in Peers, RequestManualSync(p) PROVE TypeInv'
  <2>1. WellFormed("manual", NewJob(TRUE, FALSE, p)) BY NewIsWellFormed
  <2>2. QueueInv' BY <1>4, <2>1, QueueWithJob DEF RequestManualSync, Jobs
  <2>3. budget' \in [Kinds -> Nat] BY <1>4, SpendTypes DEF RequestManualSync, Kinds
  <2>4. QED BY <1>4, <2>2, <2>3
              DEF RequestManualSync, CoreTypes, SnapshotTypes, RoundTypes, PeerTypes
<1>5. ASSUME NEW p \in Peers, Toggle(p) PROVE TypeInv'
  <2>1. QueueInv' BY <1>5, UnchangedQueue DEF Toggle
  <2>2. budget' \in [Kinds -> Nat] BY <1>5, SpendTypes DEF Toggle, Kinds
  <2>3. QED BY <1>5, <2>1, <2>2
              DEF Toggle, CoreTypes, SnapshotTypes, RoundTypes, PeerTypes
<1>6. ASSUME NEW j \in Jobs, BuildFails(j) PROVE TypeInv'
  <2>3. QueueInv'
    <3>1. pending \in BOOLEAN /\ eventTimer \in BOOLEAN BY DEF QueueInv
    <3>2. CASE Finish(job[j], pending, eventTimer) BY <3>1, <3>2, FinishTypes
    <3>3. CASE job' = [job EXCEPT ![j] = IdleJob]
               /\ UNCHANGED <<pending, eventTimer, trailing>>
      BY <3>3, QueueWithJob, IdleIsWellFormed
    <3>4. QED BY <1>6, <3>2, <3>3 DEF BuildFails
  <2>4. budget' \in [Kinds -> Nat] BY <1>6, SpendTypes DEF BuildFails, Kinds
  <2>5. QED BY <1>6, <2>3, <2>4
              DEF BuildFails, CoreTypes, SnapshotTypes, RoundTypes, PeerTypes
<1>7. ASSUME TunnelEnds PROVE TypeInv'
  <2>1. QueueInv' BY <1>7, UnchangedQueue DEF TunnelEnds
  <2>2. QED BY <1>7, <2>1 DEF TunnelEnds, CoreTypes, SnapshotTypes, RoundTypes, PeerTypes
<1>8. ASSUME Stop PROVE TypeInv'
  <2>1. QueueInv' BY <1>8, QueueWithoutJob DEF Stop, StopTimers, QueueInv
  <2>2. budget' \in [Kinds -> Nat] BY <1>8, SpendTypes DEF Stop, Kinds
  <2>3. QED BY <1>8, <2>1, <2>2
              DEF Stop, StopTimers, CoreTypes, SnapshotTypes, RoundTypes, PeerTypes
<1>9. ASSUME Crash PROVE TypeInv'
  <2>1. \A j \in Jobs : WellFormed(j, IdleJob) BY IdleIsWellFormed
  <2>2. IdleJob \in Job BY IdleIsWellFormed DEF WellFormed
  <2>3. job' = [j \in Jobs |-> IdleJob] BY <1>9 DEF Crash
  <2>4. \A j \in Jobs : job'[j] = IdleJob BY <2>3
  <2>5. (\A j \in Jobs : WellFormed(j, job[j]))' BY <2>1, <2>4 DEF WellFormed
  <2>6. JobsInv' BY <2>2, <2>3, <2>5 DEF JobsInv
  <2>7. pending' = FALSE /\ eventTimer' = FALSE /\ trailing' = FALSE
    BY <1>9 DEF Crash, StopTimers
  <2>8. QueueInv' BY <2>6, <2>7 DEF QueueInv
  <2>9. budget' \in [Kinds -> Nat] BY <1>9, SpendTypes DEF Crash, Kinds
  <2>10. known' \in [Peers -> Content \cup {None, Undefined}] BY <1>9 DEF Crash, PeerTypes
  <2>11. QED BY <1>9, <2>8, <2>9, <2>10
              DEF Crash, StopTimers, CoreTypes, SnapshotTypes, RoundTypes, PeerTypes
<1>10. QED BY <1>1, <1>2, <1>3, <1>4, <1>5, <1>6, <1>7, <1>8, <1>9 DEF Environment

LEMMA NoteChangeTypes ==
    ASSUME TypeInv, NoteChange, UNCHANGED <<job, trailing>>
    PROVE  QueueInv' /\ revision' \in Nat /\ cache' = None
<1>1. eventTimer' \in BOOLEAN BY Zenon DEF NoteChange, ArmsEventTimer
<1>2. QueueInv' BY <1>1, QueueWithoutJob DEF NoteChange, TypeInv, QueueInv
<1>3. QED BY <1>2 DEF NoteChange, TypeInv, CoreTypes

LEMMA WatchingTypes == ASSUME TypeInv, Watching PROVE TypeInv'
<1> USE DEF TypeInv, coreVars, roundVars, retryVars, satVars
<1>1. ASSUME WatchConnects PROVE TypeInv'
  <2>1. QueueInv' BY <1>1, UnchangedQueue DEF WatchConnects
  <2>2. QED BY <1>1, <2>1 DEF WatchConnects, Connected, CoreTypes, SnapshotTypes, RoundTypes, PeerTypes
<1>2. ASSUME WatchReconnects PROVE TypeInv'
  <2>1. QueueInv' /\ revision' \in Nat /\ cache' = None
    BY <1>2, NoteChangeTypes DEF WatchReconnects
  <2>2. QED BY <1>2, <2>1
              DEF WatchReconnects, Connected, CoreTypes, SnapshotTypes, RoundTypes, PeerTypes
<1>3. ASSUME ConfigurationEvents PROVE TypeInv'
  <2>1. CASE NoteChange
    <3>1. QueueInv' /\ revision' \in Nat /\ cache' = None
      BY <1>3, <2>1, NoteChangeTypes DEF ConfigurationEvents
    <3>2. QED BY <1>3, <3>1
                DEF ConfigurationEvents, CoreTypes, SnapshotTypes, RoundTypes, PeerTypes
  <2>2. CASE UNCHANGED <<revision, cache, pending, eventTimer>>
    <3>1. QueueInv' BY <1>3, <2>2, UnchangedQueue DEF ConfigurationEvents, syncVars
    <3>2. QED BY <1>3, <2>2, <3>1
                DEF ConfigurationEvents, CoreTypes, SnapshotTypes, RoundTypes, PeerTypes
  <2>3. QED BY <1>3, <2>1, <2>2 DEF ConfigurationEvents
<1>4. ASSUME WatchEnds PROVE TypeInv'
  <2>1. QueueInv' BY <1>4, UnchangedQueue DEF WatchEnds
  <2>2. QED BY <1>4, <2>1 DEF WatchEnds, CoreTypes, SnapshotTypes, RoundTypes, PeerTypes
<1>5. QED BY <1>1, <1>2, <1>3, <1>4 DEF Watching

LEMMA ReadTypes ==
    ASSUME TypeInv, NEW j \in Jobs, BuildReads(j), ~Superseded(job[j])
    PROVE  QueueInv'
<1> DEFINE b == job[j]
           r == [b EXCEPT !.content[b.at] = source[b.at]]
           n == IF b.at = NumSections THEN [r EXCEPT !.pc = "compress"]
                                      ELSE [r EXCEPT !.at = b.at + 1]
<1>1. job' = [job EXCEPT ![j] = n] /\ UNCHANGED <<pending, eventTimer, trailing>>
  BY DEF BuildReads
<1>2. b \in Job /\ WellFormed(j, b) /\ b.pc = "read" /\ b.built = b.rev
  BY DEF TypeInv, QueueInv, JobsInv, WellFormed, BuildReads
<1>3. b.at \in Sections /\ source \in [Sections -> Values] /\ NumSections \in Nat \ {0}
  BY <1>2, ConstantsAssumption DEF Job, Sections, TypeInv, CoreTypes, Content
<1>4. r \in Job /\ r.pc = "read" /\ r.built = r.rev /\ r.only = b.only /\ r.at = b.at
      /\ r.content = [b.content EXCEPT ![b.at] = source[b.at]]
  BY <1>2, <1>3 DEF Job
<1>5. b.content \in [Sections -> Values \cup {None}] BY <1>2 DEF Job
<1>6. \A s \in Sections : s <= b.at => r.content[s] \in Values
  <2>1. TAKE s \in Sections
  <2>2. CASE s = b.at BY <1>3, <1>4, <1>5, <2>2
  <2>3. CASE s # b.at
    BY <1>2, <1>3, <1>4, <1>5, <2>3 DEF WellFormed, Sections
  <2>4. QED BY <2>2, <2>3
<1>7. j = "manual" => r.only \in Peers BY <1>2, <1>4 DEF WellFormed
<1> HIDE DEF r
<1>8. CASE b.at = NumSections
  <2>1. n = [r EXCEPT !.pc = "compress"] BY <1>8
  <2>2. n \in Job /\ n.pc = "compress" /\ n.content = r.content /\ n.built = n.rev
        /\ n.only = r.only
    BY <1>4, <2>1 DEF Job
  <2>3. n.content \in Content
    <3>1. \A s \in Sections : s <= b.at BY <1>3, <1>8 DEF Sections
    <3>2. \A s \in Sections : r.content[s] \in Values BY <1>6, <3>1
    <3>3. r.content \in [Sections -> Values \cup {None}] BY <1>4 DEF Job
    <3>4. r.content \in Content BY <3>2, <3>3 DEF Content
    <3>5. QED BY <2>2, <3>4
  <2>4. WellFormed(j, n) BY <1>7, <2>2, <2>3 DEF WellFormed
  <2>5. QED BY <1>1, <2>4, QueueWithJob DEF TypeInv
<1>9. CASE b.at # NumSections
  <2>1. n = [r EXCEPT !.at = b.at + 1] BY <1>9
  <2>2. b.at + 1 \in 1..NumSections BY <1>3, <1>9 DEF Sections
  <2>3. n \in Job /\ n.pc = "read" /\ n.at = b.at + 1 /\ n.content = r.content
        /\ n.built = n.rev /\ n.only = r.only
    BY <1>4, <2>1, <2>2 DEF Job
  <2>4. \A s \in Sections : s < n.at => n.content[s] \in Values
    BY <1>3, <1>6, <2>3 DEF Sections
  <2>5. WellFormed(j, n) BY <1>7, <2>3, <2>4 DEF WellFormed
  <2>6. QED BY <1>1, <2>5, QueueWithJob DEF TypeInv
<1>10. QED BY <1>8, <1>9

LEMMA BuildReadsTypes == ASSUME TypeInv, NEW j \in Jobs, BuildReads(j) PROVE TypeInv'
<1>1. QueueInv'
  <2>1. TRUE \in BOOLEAN /\ eventTimer \in BOOLEAN BY DEF TypeInv, QueueInv
  <2>2. CASE Finish(job[j], TRUE, eventTimer) BY <2>1, <2>2, FinishTypes DEF TypeInv
  <2>3. CASE ~Superseded(job[j]) BY <2>3, ReadTypes
  <2>4. QED BY <2>2, <2>3 DEF BuildReads
<1>2. QED BY <1>1 DEF BuildReads, TypeInv, coreVars, roundVars, retryVars, satVars,
                      CoreTypes, SnapshotTypes, RoundTypes, PeerTypes

LEMMA BuildCompletesTypes == ASSUME TypeInv, NEW j \in Jobs, BuildCompletes(j) PROVE TypeInv'
<1> DEFINE b == job[j]
<1>1. b \in Job /\ b.content \in Content /\ WellFormed(j, b) /\ b.pc = "compress"
  BY DEF TypeInv, QueueInv, JobsInv, WellFormed, BuildCompletes
<1>2. cache' \in Snapshot BY <1>1 DEF BuildCompletes, Snapshot, Job
<1>3. QueueInv'
  <2>1. eventTimer \in BOOLEAN BY DEF TypeInv, QueueInv
  <2>2. CASE j = "sync"
    <3>1. Decide(b, eventTimer) BY <2>2 DEF BuildCompletes
    <3>2. QED BY <1>1, <2>1, <3>1, DecideTypes
  <2>3. CASE j # "sync"
    <3>1. j = "manual" BY <2>3 DEF Jobs
    <3>2. b.only \in Peers BY <1>1, <3>1 DEF WellFormed
    <3>3. DEFINE n == [b EXCEPT !.pc = "push", !.todo = {b.only}]
    <3>4. WellFormed(j, n) BY <1>1, <3>2 DEF WellFormed, Job
    <3>5. job' = [job EXCEPT ![j] = n] /\ UNCHANGED <<pending, eventTimer, trailing>>
      BY <2>3 DEF BuildCompletes, TypeInv, QueueInv, JobsInv
    <3>6. QED BY <3>4, <3>5, QueueWithJob DEF TypeInv
  <2>4. QED BY <2>2, <2>3
<1>4. QED BY <1>2, <1>3 DEF BuildCompletes, TypeInv, coreVars, roundVars, retryVars, satVars,
                            CoreTypes, SnapshotTypes, RoundTypes, PeerTypes

LEMMA SyncingTypes == ASSUME TypeInv, Syncing PROVE TypeInv'
<1> DEFINE b == job["sync"]
<1> USE DEF TypeInv, coreVars, roundVars, retryVars, satVars
<1>1. CASE BuildReads("sync") BY <1>1, BuildReadsTypes DEF Jobs
<1>2. CASE BuildCompletes("sync") BY <1>2, BuildCompletesTypes DEF Jobs
<1>3. b \in Job /\ WellFormed("sync", b) BY DEF QueueInv, JobsInv, WellFormed, Jobs
<1>4. CASE SyncConcludes
  <2>1. eventTimer \in BOOLEAN /\ pending \in BOOLEAN /\ TRUE \in BOOLEAN
        /\ (revision # b.rev) \in BOOLEAN
    BY DEF QueueInv
  <2>2. PICK pend \in BOOLEAN : Finish(b, pend, eventTimer)
    BY <1>4, <2>1 DEF SyncConcludes
  <2>3. QueueInv' BY <2>1, <2>2, FinishTypes
  <2>4. lastHash' \in Content \cup {None}
    BY <1>3, <1>4 DEF SyncConcludes, SnapshotTypes, WellFormed
  <2>5. QED BY <1>4, <2>3, <2>4
              DEF SyncConcludes, CoreTypes, SnapshotTypes, RoundTypes, PeerTypes
<1>5. \A p \in Peers, ok \in BOOLEAN :
         LET n == [b EXCEPT !.todo = b.todo \ {p}, !.ok = b.ok /\ ok]
         IN  b.pc = "push" => WellFormed("sync", n)
  <2>1. ASSUME NEW p \in Peers, NEW ok \in BOOLEAN, b.pc = "push"
        PROVE WellFormed("sync", [b EXCEPT !.todo = b.todo \ {p}, !.ok = b.ok /\ ok])
    <3>1. DEFINE n == [b EXCEPT !.todo = b.todo \ {p}, !.ok = b.ok /\ ok]
    <3>2. b \in Job /\ b.todo \subseteq Peers /\ b.content \in Content
      BY <1>3, <2>1 DEF WellFormed, Job
    <3>3. n \in Job /\ n.pc = "push" /\ n.content = b.content BY <2>1, <3>2 DEF Job
    <3>4. QED BY <3>2, <3>3 DEF WellFormed
  <2>2. QED BY <2>1
<1>6. ASSUME NEW p \in Peers, NEW o \in Outcomes, SyncPushes(p, o) PROVE TypeInv'
  <2>1. b.pc = "push" /\ b.content \in Content BY <1>3, <1>6 DEF SyncPushes, WellFormed
  <2>2. Deliver(p, b.content, o) BY <1>6 DEF SyncPushes
  <2>3. /\ applied' \in [Peers -> Content \cup {None, Mixed}]
        /\ satHash' \in [Peers -> Content \cup {None}]
        /\ budget' \in [Kinds -> Nat]
    BY <2>1, <2>2, DeliverTypes
  <2>4. known' \in [Peers -> Content \cup {None, Undefined}]
    BY <1>6, <2>1 DEF SyncPushes, PeerTypes
  <2>5. retryTimers' \subseteq Peers BY <1>6 DEF SyncPushes, ScheduleRetry, PeerTypes
  <2>6. DEFINE n == [b EXCEPT !.todo = b.todo \ {p}, !.ok = b.ok /\ (o = "ok")]
  <2>7. (o = "ok") \in BOOLEAN OBVIOUS
  <2>8. WellFormed("sync", n) BY <1>5, <2>1, <2>7
  <2>9. job' = [job EXCEPT !["sync"] = n] /\ UNCHANGED <<pending, eventTimer, trailing>>
    BY <1>6 DEF SyncPushes, QueueInv, JobsInv
  <2>10. QueueInv' BY <2>8, <2>9, QueueWithJob DEF Jobs
  <2>11. QED BY <1>6, <2>3, <2>4, <2>5, <2>10
               DEF SyncPushes, CoreTypes, SnapshotTypes, RoundTypes, PeerTypes
<1>7. ASSUME NEW p \in Peers, NEW ok \in BOOLEAN, SyncPreviews(p, ok) PROVE TypeInv'
  <2>1. b.pc = "push" /\ b.content \in Content BY <1>3, <1>7 DEF SyncPreviews, WellFormed
  <2>2. known' \in [Peers -> Content \cup {None, Undefined}]
    BY <1>7, <2>1 DEF SyncPreviews, PeerTypes
  <2>3. budget' \in [Kinds -> Nat] BY <1>7, FailsIfTypes DEF SyncPreviews
  <2>4. DEFINE n == [b EXCEPT !.todo = b.todo \ {p}, !.ok = b.ok /\ ok]
  <2>5. WellFormed("sync", n) BY <1>5, <2>1
  <2>6. job' = [job EXCEPT !["sync"] = n] /\ UNCHANGED <<pending, eventTimer, trailing>>
    BY <1>7 DEF SyncPreviews, QueueInv, JobsInv
  <2>7. QueueInv' BY <2>5, <2>6, QueueWithJob DEF Jobs
  <2>8. QED BY <1>7, <2>2, <2>3, <2>7
              DEF SyncPreviews, CoreTypes, SnapshotTypes, RoundTypes, PeerTypes
<1>8. QED BY <1>1, <1>2, <1>4, <1>6, <1>7 DEF Syncing

LEMMA ManualSyncTypes == ASSUME TypeInv, ManualSync PROVE TypeInv'
<1> DEFINE b == job["manual"]
<1> USE DEF TypeInv, coreVars, roundVars, retryVars, satVars
<1>1. CASE BuildReads("manual") BY <1>1, BuildReadsTypes DEF Jobs
<1>2. CASE BuildCompletes("manual") BY <1>2, BuildCompletesTypes DEF Jobs
<1>3. ASSUME NEW o \in Outcomes, ManualPushes(o) PROVE TypeInv'
  <2>1. b.only \in Peers /\ b.content \in Content
    BY <1>3 DEF ManualPushes, QueueInv, JobsInv, WellFormed, Jobs
  <2>2. /\ applied' \in [Peers -> Content \cup {None, Mixed}]
        /\ satHash' \in [Peers -> Content \cup {None}]
        /\ budget' \in [Kinds -> Nat]
    BY <1>3, <2>1, DeliverTypes DEF ManualPushes
  <2>3. QueueInv' BY <1>3, QueueWithJob, IdleIsWellFormed DEF ManualPushes, Jobs
  <2>4. QED BY <1>3, <2>2, <2>3
              DEF ManualPushes, CoreTypes, SnapshotTypes, RoundTypes, PeerTypes
<1>4. QED BY <1>1, <1>2, <1>3 DEF ManualSync

LEMMA RetryingTypes == ASSUME TypeInv, NEW p \in Peers, Retrying(p) PROVE TypeInv'
<1> USE DEF TypeInv, coreVars, roundVars, retryVars, satVars
<1>1. CASE RetryFires(p)
  <2>1. QueueInv'
    <3>1. CASE UNCHANGED <<pending, eventTimer>>
      BY <1>1, <3>1, UnchangedQueue DEF RetryFires, syncVars
    <3>2. CASE pending' = TRUE /\ eventTimer' = ArmsEventTimer(TRUE)
      <4>1. eventTimer' \in BOOLEAN BY <3>2, Zenon DEF ArmsEventTimer
      <4>2. QED BY <1>1, <3>2, <4>1, QueueWithoutJob DEF RetryFires, QueueInv
    <3>3. QED BY <1>1, <3>1, <3>2 DEF RetryFires
  <2>2. retrying' \in [Peers -> Content \cup {None}]
    BY <1>1 DEF RetryFires, PeerTypes, SnapshotTypes, Snapshot
  <2>3. QED BY <1>1, <2>1, <2>2
              DEF RetryFires, CoreTypes, SnapshotTypes, RoundTypes, PeerTypes
<1>2. ASSUME NEW o \in Outcomes, RetryPushes(p, o) PROVE TypeInv'
  <2>1. retrying[p] \in Content BY <1>2 DEF RetryPushes, PeerTypes
  <2>2. /\ applied' \in [Peers -> Content \cup {None, Mixed}]
        /\ satHash' \in [Peers -> Content \cup {None}]
        /\ budget' \in [Kinds -> Nat]
    BY <1>2, <2>1, DeliverTypes DEF RetryPushes
  <2>3. QueueInv' BY <1>2, UnchangedQueue DEF RetryPushes
  <2>4. /\ known' \in [Peers -> Content \cup {None, Undefined}]
        /\ retrying' \in [Peers -> Content \cup {None}]
        /\ retryTimers' \subseteq Peers
    BY <1>2, <2>1 DEF RetryPushes, ScheduleRetry, PeerTypes
  <2>5. QED BY <1>2, <2>2, <2>3, <2>4
              DEF RetryPushes, CoreTypes, SnapshotTypes, RoundTypes, PeerTypes
<1>3. QED BY <1>1, <1>2 DEF Retrying

LEMMA PeriodicTypes == ASSUME TypeInv, Periodic PROVE TypeInv'
<1> USE DEF TypeInv, coreVars, roundVars, retryVars, satVars
<1>1. CASE PeriodicFires
  <2>1. QueueInv' BY <1>1, UnchangedQueue DEF PeriodicFires
  <2>2. QED BY <1>1, <2>1 DEF PeriodicFires, CoreTypes, SnapshotTypes, RoundTypes, PeerTypes
<1>2. CASE AuditEnds
  <2>1. QueueInv' BY <1>2, UnchangedQueue DEF AuditEnds
  <2>2. QED BY <1>2, <2>1, ConstantsAssumption
              DEF AuditEnds, CoreTypes, SnapshotTypes, RoundTypes, PeerTypes
<1>3. ASSUME NEW p \in Peers, NEW reachable \in BOOLEAN, Refreshes(p, reachable)
      PROVE TypeInv'
  <2>1. QueueInv' BY <1>3, UnchangedQueue DEF Refreshes
  <2>2. known' \in [Peers -> Content \cup {None, Undefined}] BY <1>3 DEF Refreshes, PeerTypes
  <2>3. budget' \in [Kinds -> Nat] BY <1>3, FailsIfTypes DEF Refreshes
  <2>4. QED BY <1>3, <2>1, <2>2, <2>3
              DEF Refreshes, CoreTypes, SnapshotTypes, RoundTypes, PeerTypes
<1>4. ASSUME NEW audit \in BOOLEAN, NEW loaded \in BOOLEAN, RoundEnds(audit, loaded)
      PROVE TypeInv'
  <2>1. retryTimers' \subseteq Peers BY <1>4 DEF RoundEnds, ScheduleRetry, Stale, PeerTypes
  <2>2. QueueInv' /\ budget' \in [Kinds -> Nat] /\ periodicTimer' \in BOOLEAN
        /\ round' \in {"idle", "refresh", "audit"}
    <3>1. CASE /\ SyncNow(FALSE, FALSE, TRUE, None, eventTimer, loaded)
               /\ round' = "audit" /\ FailsIf(loaded) /\ UNCHANGED periodicTimer
      <4>1. eventTimer \in BOOLEAN /\ None \in Peers \cup {None} BY DEF QueueInv
      <4>2. QueueInv' BY <3>1, <4>1, SyncNowTypes
      <4>3. QED BY <3>1, <4>2, FailsIfTypes DEF RoundTypes
    <3>2. CASE round' = "idle" /\ periodicTimer' = AutoSync /\ UNCHANGED <<syncVars, budget>>
      BY <3>2, UnchangedQueue, ConstantsAssumption DEF CoreTypes
    <3>3. QED BY <1>4, <3>1, <3>2 DEF RoundEnds
  <2>3. QED BY <1>4, <2>1, <2>2
              DEF RoundEnds, CoreTypes, SnapshotTypes, RoundTypes, PeerTypes
<1>5. QED BY <1>1, <1>2, <1>3, <1>4 DEF Periodic

LEMMA TimerTypes ==
    ASSUME TypeInv,
           \/ InitialTimerFires \/ WatcherStopped \/ Configure \/ Started
           \/ \E loaded \in BOOLEAN : EventTimerFires(loaded)
    PROVE  TypeInv'
<1> USE DEF TypeInv, coreVars, roundVars, retryVars, satVars
<1>1. /\ eventTimer \in BOOLEAN /\ None \in Peers \cup {None}
      /\ TRUE \in BOOLEAN /\ FALSE \in BOOLEAN
  BY DEF QueueInv
<1>2. CASE InitialTimerFires
  <2>1. QueueInv' BY <1>1, <1>2, SyncNowTypes DEF InitialTimerFires
  <2>2. QED BY <1>2, <2>1
              DEF InitialTimerFires, CoreTypes, SnapshotTypes, RoundTypes, PeerTypes
<1>3. CASE Configure
  <2>1. QueueInv' BY <1>3, QueueWithoutJob DEF Configure, QueueInv
  <2>2. QED BY <1>3, <2>1, ConstantsAssumption
              DEF Configure, CoreTypes, SnapshotTypes, RoundTypes, PeerTypes
<1>4. ASSUME NEW loaded \in BOOLEAN, EventTimerFires(loaded) PROVE TypeInv'
  <2>1. QueueInv'
    <3>1. CASE trailing' = TRUE /\ eventTimer' = FALSE /\ UNCHANGED <<pending, job>>
      BY <3>1, QueueWithoutJob DEF QueueInv
    <3>2. CASE SyncNow(FALSE, FALSE, FALSE, None, FALSE, loaded)
      BY <1>1, <3>2, SyncNowTypes
    <3>3. QED BY <1>4, <3>1, <3>2 DEF EventTimerFires
  <2>2. budget' \in [Kinds -> Nat] BY <1>4, FailsIfTypes DEF EventTimerFires
  <2>3. QED BY <1>4, <2>1, <2>2
              DEF EventTimerFires, CoreTypes, SnapshotTypes, RoundTypes, PeerTypes
<1>5. CASE WatcherStopped
  <2>1. QueueInv' BY <1>5, UnchangedQueue DEF WatcherStopped
  <2>2. QED BY <1>5, <2>1
              DEF WatcherStopped, CoreTypes, SnapshotTypes, RoundTypes, PeerTypes
<1>6. CASE Started
  <2>1. QueueInv' BY <1>6, UnchangedQueue DEF Started
  <2>2. QED BY <1>6, <2>1, ConstantsAssumption
              DEF Started, CoreTypes, SnapshotTypes, RoundTypes, PeerTypes
<1>7. QED BY <1>2, <1>3, <1>4, <1>5, <1>6

-----------------------------------------------------------------------------

LEMMA InitTypes == Init => TypeInv
<1> SUFFICES ASSUME Init PROVE TypeInv OBVIOUS
<1>1. JobsInv
  <2>1. \A j \in Jobs : WellFormed(j, IdleJob) BY IdleIsWellFormed
  <2>2. IdleJob \in Job BY IdleIsWellFormed DEF WellFormed
  <2>3. QED BY <2>1, <2>2 DEF Init, JobsInv
<1>2. QueueInv BY <1>1 DEF Init, QueueInv
<1>3. QED BY <1>2, ConstantsAssumption
         DEF Init, TypeInv, CoreTypes, SnapshotTypes, RoundTypes, PeerTypes

LEMMA NextTypes == TypeInv /\ [Next]_vars => TypeInv'
<1> SUFFICES ASSUME TypeInv, [Next]_vars PROVE TypeInv' OBVIOUS
<1>1. CASE Next
  BY <1>1, EnvironmentTypes, WatchingTypes, SyncingTypes, ManualSyncTypes, PeriodicTypes,
     RetryingTypes, TimerTypes DEF Next
<1>2. CASE UNCHANGED vars
  <2>1. QueueInv' BY <1>2, UnchangedQueue DEF TypeInv, vars
  <2>2. QED BY <1>2, <2>1 DEF vars, TypeInv, coreVars, syncVars, roundVars, retryVars, satVars,
                              CoreTypes, SnapshotTypes, RoundTypes, PeerTypes
<1>3. QED BY <1>1, <1>2

\* Every reachable state has the types of TypeOK, for any Satellites, any number of
\* sections and any bounds: no build reads past its last section, and only a complete
\* snapshot is compressed, pushed or cached.
THEOREM TypeCorrect == Spec => []TypeOK
<1>1. Spec => []TypeInv BY InitTypes, NextTypes, PTL DEF Spec
<1>2. TypeInv => TypeOK BY TypeInvImpliesTypeOK
<1>3. QED BY <1>1, <1>2, PTL

-----------------------------------------------------------------------------
(* With automatic synchronization on, comparing revisions recognises every *)
(* torn or outdated snapshot: no change made during a synchronization is   *)
(* written off.                                                            *)

\* Nothing is ahead of the revision, so counting it up outdates everything.
Sound(rev, g, content, upto) ==
    /\ rev \in Nat /\ g \in Nat /\ rev <= revision /\ g <= gen
    /\ Covers(rev, g, content, upto)

\* A build that has everything, whether or not it goes on to be pushed.
Complete(b) == Sound(b.built, b.gen, b.content, NumSections + 1)

SoundJob(b) ==
    b.pc # "idle" => Sound(b.built, b.gen, b.content,
                           IF b.pc = "read" THEN b.at ELSE NumSections + 1)

SoundCache == cache # None => Sound(cache.rev, cache.gen, cache.content, NumSections + 1)

CoverageInv == SoundCache /\ \A j \in Jobs : SoundJob(job[j])

LEMMA CoverageInvImpliesCoverage == CoverageInv => SnapshotCoverage
BY DEF CoverageInv, SoundCache, SoundJob, Sound, SnapshotCoverage

LEMMA IdleIsSound == SoundJob(IdleJob)
BY DEF SoundJob, IdleJob

LEMMA NewIsSound ==
    ASSUME TypeInv, NEW force, NEW dry, NEW only
    PROVE  SoundJob(NewJob(force, dry, only))
<1> DEFINE b == NewJob(force, dry, only)
<1>1. b.built = revision /\ b.gen = gen /\ b.at = 1 /\ b.pc = "read"
  BY DEF NewJob, IdleJob
<1>2. \A s \in Sections : ~(s < 1) BY DEF Sections
<1>3. revision \in Nat /\ gen \in Nat BY DEF TypeInv, CoreTypes
<1>4. QED BY <1>1, <1>2, <1>3 DEF SoundJob, Sound, Covers

-----------------------------------------------------------------------------
(* Steps of the scheduler: the Core and the revision stay as they are.      *)

Still == UNCHANGED <<coreVars, revision>>

LEMMA StillSound ==
    ASSUME CoverageInv, Still, SoundCache',
           \A j \in Jobs : SoundJob(job'[j])
    PROVE  CoverageInv'
BY DEF CoverageInv, Still, coreVars, SoundJob, Sound, Covers, Owed

LEMMA StillCache ==
    ASSUME CoverageInv, Still, UNCHANGED cache
    PROVE  SoundCache'
BY DEF CoverageInv, SoundCache, Still, coreVars, Sound, Covers, Owed

LEMMA StillJobs ==
    ASSUME CoverageInv, Still, UNCHANGED <<cache, job>>
    PROVE  CoverageInv'
<1>1. \A j \in Jobs : SoundJob(job'[j]) BY DEF CoverageInv
<1>2. QED BY <1>1, StillCache, StillSound

\* One job is replaced by a sound one.
LEMMA ReplaceSound ==
    ASSUME TypeInv, CoverageInv, NEW j \in Jobs, NEW b, SoundJob(b), job' = [job EXCEPT ![j] = b]
    PROVE  \A k \in Jobs : SoundJob(job'[k])
<1>1. job \in [Jobs -> Job] BY DEF TypeInv, QueueInv, JobsInv
<1>2. ASSUME NEW k \in Jobs PROVE SoundJob(job'[k])
  <2>1. CASE k = j BY <1>1, <2>1
  <2>2. CASE k # j BY <1>1, <2>2 DEF CoverageInv
  <2>3. QED BY <2>1, <2>2
<1>3. QED BY <1>2

LEMMA FinishSound ==
    ASSUME TypeInv, CoverageInv, NEW b, NEW pend, NEW timer, Finish(b, pend, timer)
    PROVE  \A k \in Jobs : SoundJob(job'[k])
BY ReplaceSound, IdleIsSound DEF Finish, Jobs

LEMMA DecideSound ==
    ASSUME TypeInv, CoverageInv, NEW b, b \in Job, Complete(b), NEW timer, Decide(b, timer)
    PROVE  \A k \in Jobs : SoundJob(job'[k])
<1> DEFINE pushes == [b EXCEPT !.pc = "push", !.todo = {p \in enabled : b.only \in {None, p}}]
<1>1. ASSUME NEW pend, Finish(b, pend, timer)
      PROVE  \A k \in Jobs : SoundJob(job'[k])
  BY <1>1, FinishSound
<1>2. CASE job' = [job EXCEPT !["sync"] = pushes]
  <2>1. SoundJob(pushes) BY DEF SoundJob, Complete, Job
  <2>2. QED BY <1>2, <2>1, ReplaceSound DEF Jobs
<1>3. QED BY <1>1, <1>2 DEF Decide

LEMMA SyncNowSound ==
    ASSUME TypeInv, CoverageInv, NEW force \in BOOLEAN, NEW dry \in BOOLEAN,
           NEW reconcile \in BOOLEAN, NEW only \in Peers \cup {None}, NEW timer, NEW loaded,
           SyncNow(force, dry, reconcile, only, timer, loaded)
    PROVE  \A k \in Jobs : SoundJob(job'[k])
<1> DEFINE b      == NewJob(force, dry, only)
           cached == [b EXCEPT !.content = cache.content, !.built = cache.rev, !.gen = cache.gen]
<1>1. CASE UNCHANGED job BY <1>1 DEF CoverageInv
<1>2. CASE cache # None /\ Decide(cached, timer)
  <2>1. b \in Job BY NewIsWellFormed DEF WellFormed
  <2>2. /\ cached \in Job /\ cached.content = cache.content
        /\ cached.built = cache.rev /\ cached.gen = cache.gen
    BY <1>2, <2>1, CachedJob
  <2>3. Complete(cached) BY <1>2, <2>2 DEF CoverageInv, SoundCache, Complete
  <2>4. QED BY <1>2, <2>2, <2>3, DecideSound
<1>3. CASE job' = [job EXCEPT !["sync"] = b]
  BY <1>3, NewIsSound, ReplaceSound DEF Jobs
<1>4. QED BY <1>1, <1>2, <1>3 DEF SyncNow, Begin

LEMMA BuildReadsSound ==
    ASSUME TypeInv, CoverageInv, NEW j \in Jobs, BuildReads(j)
    PROVE  \A k \in Jobs : SoundJob(job'[k])
<1> DEFINE b == job[j]
           r == [b EXCEPT !.content[b.at] = source[b.at]]
           n == IF b.at = NumSections THEN [r EXCEPT !.pc = "compress"]
                                      ELSE [r EXCEPT !.at = b.at + 1]
<1>1. CASE Finish(b, TRUE, eventTimer) BY <1>1, FinishSound
<1>2. CASE job' = [job EXCEPT ![j] = n]
  <2>1. b \in Job /\ b.pc = "read" /\ SoundJob(b)
    BY DEF TypeInv, QueueInv, JobsInv, WellFormed, BuildReads, CoverageInv
  <2>2. b.at \in Sections /\ NumSections \in Nat
        /\ b.content \in [Sections -> Values \cup {None}]
    BY <2>1, ConstantsAssumption DEF Job, Sections
  <2>3. n.built = b.built /\ n.gen = b.gen
        /\ n.content = [b.content EXCEPT ![b.at] = source[b.at]]
    BY <2>1 DEF Job
  <2>4. Sound(b.built, b.gen, b.content, b.at) BY <2>1 DEF SoundJob
  <2>5. Sound(b.built, b.gen, n.content, b.at + 1)
    <3>1. \A s \in Sections : s < b.at + 1 => (s < b.at \/ s = b.at)
      BY <2>2 DEF Sections
    <3>2. QED BY <2>2, <2>3, <2>4, <3>1 DEF Sound, Covers
  <2>6. IF b.at = NumSections THEN n.pc = "compress"
                              ELSE n.pc = "read" /\ n.at = b.at + 1
    BY <2>1 DEF Job
  <2>7. SoundJob(n) BY <2>3, <2>5, <2>6 DEF SoundJob
  <2>8. QED BY <1>2, <2>7, ReplaceSound
<1>3. QED BY <1>1, <1>2 DEF BuildReads

LEMMA BuildCompletesSound ==
    ASSUME TypeInv, CoverageInv, NEW j \in Jobs, BuildCompletes(j)
    PROVE  CoverageInv'
<1> DEFINE b == job[j]
<1>1. b \in Job /\ b.pc = "compress" /\ b.built = b.rev /\ SoundJob(b)
  BY DEF TypeInv, QueueInv, JobsInv, WellFormed, BuildCompletes, CoverageInv
<1>2. Sound(b.built, b.gen, b.content, NumSections + 1) BY <1>1 DEF SoundJob
<1>3. Still BY DEF BuildCompletes, Still
<1>4. SoundCache' BY <1>1, <1>2, <1>3 DEF BuildCompletes, SoundCache, Sound, Covers, Owed, Still, coreVars
<1>5. \A k \in Jobs : SoundJob(job'[k])
  <2>1. CASE Decide(b, eventTimer) BY <1>1, <1>2, <2>1, DecideSound DEF Complete
  <2>2. CASE job' = [job EXCEPT ![j].pc = "push", ![j].todo = {b.only}]
    <3>1. DEFINE n == [b EXCEPT !.pc = "push", !.todo = {b.only}]
    <3>2. SoundJob(n) BY <1>1, <1>2 DEF SoundJob, Job
    <3>3. job' = [job EXCEPT ![j] = n] BY <2>2 DEF TypeInv, QueueInv, JobsInv
    <3>4. QED BY <3>2, <3>3, ReplaceSound
  <2>3. QED BY <2>1, <2>2 DEF BuildCompletes
<1>6. QED BY <1>3, <1>4, <1>5, StillSound

-----------------------------------------------------------------------------
(* Steps of the Core, the watcher and the process.                          *)

\* A change of the Core is owed: nothing need be current.
LEMMA OwedSound ==
    ASSUME TypeInv, CoverageInv, Owed', UNCHANGED <<cache, revision, gen>>,
           \A j \in Jobs : job'[j] = job[j]
    PROVE  CoverageInv'
BY DEF CoverageInv, SoundCache, SoundJob, Sound, Covers

\* The revision is counted up: everything is outdated.
LEMMA NoteChangeSound ==
    ASSUME TypeInv, CoverageInv, NoteChange, UNCHANGED <<job, gen>>
    PROVE  CoverageInv'
<1>1. revision \in Nat /\ revision' = revision + 1 /\ cache' = None
  BY DEF NoteChange, TypeInv, CoreTypes
<1>2. SoundCache' BY <1>1 DEF SoundCache
<1>3. \A j \in Jobs : job[j].pc # "idle" => job[j].built \in Nat /\ job[j].built < revision'
  BY <1>1 DEF CoverageInv, SoundJob, Sound
<1>4. (\A j \in Jobs : SoundJob(job[j]))'
  BY <1>1, <1>3 DEF CoverageInv, SoundJob, Sound, Covers
<1>5. QED BY <1>2, <1>4 DEF CoverageInv

LEMMA EnvironmentSound == ASSUME TypeInv, CoverageInv, Environment PROVE CoverageInv'
<1>1. ASSUME NEW s \in Sections, CoreEdit(s) PROVE CoverageInv'
  <2>1. Owed' BY <1>1 DEF CoreEdit, Owed
  <2>2. QED BY <1>1, <2>1, OwedSound DEF CoreEdit, syncVars
<1>2. ASSUME WatchDrops PROVE CoverageInv'
  BY <1>2, OwedSound DEF WatchDrops, Owed, syncVars
<1>3. ASSUME NEW force \in BOOLEAN, NEW dry \in BOOLEAN, NEW loaded \in BOOLEAN,
             NEW only \in Peers \cup {None}, RequestSync(force, dry, only, loaded)
      PROVE CoverageInv'
  <2>1. SyncNow(force, dry, FALSE, only, eventTimer, loaded) /\ Still /\ UNCHANGED cache
    BY <1>3 DEF RequestSync, Still
  <2>2. FALSE \in BOOLEAN OBVIOUS
  <2>3. \A k \in Jobs : SoundJob(job'[k]) BY <2>1, <2>2, SyncNowSound
  <2>4. QED BY <2>1, <2>3, StillCache, StillSound
<1>4. ASSUME NEW p \in Peers, RequestManualSync(p) PROVE CoverageInv'
  <2>1. Still /\ UNCHANGED cache /\ job' = [job EXCEPT !["manual"] = NewJob(TRUE, FALSE, p)]
    BY <1>4 DEF RequestManualSync, Still
  <2>2. \A k \in Jobs : SoundJob(job'[k]) BY <2>1, NewIsSound, ReplaceSound DEF Jobs
  <2>3. QED BY <2>1, <2>2, StillCache, StillSound
<1>5. ASSUME NEW p \in Peers, Toggle(p) PROVE CoverageInv'
  BY <1>5, StillJobs DEF Toggle, Still, syncVars
<1>6. ASSUME NEW j \in Jobs, BuildFails(j) PROVE CoverageInv'
  <2>1. Still /\ UNCHANGED cache BY <1>6 DEF BuildFails, Still
  <2>2. CASE Finish(job[j], pending, eventTimer)
    BY <2>1, <2>2, FinishSound, StillCache, StillSound
  <2>3. CASE job' = [job EXCEPT ![j] = IdleJob]
    BY <2>1, <2>3, IdleIsSound, ReplaceSound, StillCache, StillSound
  <2>4. QED BY <1>6, <2>2, <2>3 DEF BuildFails
<1>7. ASSUME Stop PROVE CoverageInv'
  BY <1>7, OwedSound DEF Stop, StopTimers, Owed
<1>8. ASSUME Crash PROVE CoverageInv'
  <2>1. cache' = None /\ \A j \in Jobs : job'[j].pc = "idle" BY <1>8 DEF Crash, IdleJob
  <2>2. QED BY <2>1 DEF CoverageInv, SoundCache, SoundJob
<1>9. ASSUME TunnelEnds PROVE CoverageInv'
  BY <1>9, StillJobs DEF TunnelEnds, Still, syncVars
<1>10. QED BY <1>1, <1>2, <1>3, <1>4, <1>5, <1>6, <1>7, <1>8, <1>9 DEF Environment

LEMMA WatchingSound ==
    ASSUME AutoSync, TypeInv, CoverageInv, Watching
    PROVE  CoverageInv'
<1>1. CASE WatchConnects
  <2>1. gen \in Nat /\ gen' = gen + 1 /\ UNCHANGED <<cache, job, revision>>
    BY <1>1 DEF WatchConnects, syncVars, TypeInv, CoreTypes
  <2>2. SoundCache' BY <2>1 DEF CoverageInv, SoundCache, Sound, Covers
  <2>3. (\A j \in Jobs : SoundJob(job[j]))'
    BY <2>1 DEF CoverageInv, SoundJob, Sound, Covers
  <2>4. QED BY <2>2, <2>3 DEF CoverageInv
<1>2. CASE WatchReconnects BY <1>2, NoteChangeSound DEF WatchReconnects
<1>3. CASE ConfigurationEvents BY <1>3, NoteChangeSound DEF ConfigurationEvents
<1>4. CASE WatchEnds BY <1>4, OwedSound DEF WatchEnds, Owed, syncVars
<1>5. QED BY <1>1, <1>2, <1>3, <1>4 DEF Watching

LEMMA SyncingSound == ASSUME TypeInv, CoverageInv, Syncing PROVE CoverageInv'
<1> DEFINE b == job["sync"]
<1>1. CASE BuildReads("sync")
  BY <1>1, BuildReadsSound, StillCache, StillSound DEF BuildReads, Still, Jobs
<1>2. CASE BuildCompletes("sync") BY <1>2, BuildCompletesSound DEF Jobs
<1>3. CASE SyncConcludes
  BY <1>3, FinishSound, StillCache, StillSound DEF SyncConcludes, Still
<1>4. b \in Job /\ SoundJob(b) BY DEF TypeInv, QueueInv, JobsInv, CoverageInv, Jobs
<1>5. \A todo, ok : LET n == [b EXCEPT !.todo = todo, !.ok = ok] IN SoundJob(n)
  BY <1>4 DEF SoundJob, Job
<1>6. ASSUME NEW p \in Peers, NEW o \in Outcomes, SyncPushes(p, o) PROVE CoverageInv'
  <2>1. job' = [job EXCEPT !["sync"] = [b EXCEPT !.todo = b.todo \ {p}, !.ok = b.ok /\ (o = "ok")]]
    BY <1>6 DEF SyncPushes, TypeInv, QueueInv, JobsInv
  <2>2. \A k \in Jobs : SoundJob(job'[k]) BY <1>5, <2>1, ReplaceSound DEF Jobs
  <2>3. QED BY <1>6, <2>2, StillCache, StillSound DEF SyncPushes, Still
<1>7. ASSUME NEW p \in Peers, NEW ok \in BOOLEAN, SyncPreviews(p, ok) PROVE CoverageInv'
  <2>1. job' = [job EXCEPT !["sync"] = [b EXCEPT !.todo = b.todo \ {p}, !.ok = b.ok /\ ok]]
    BY <1>7 DEF SyncPreviews, TypeInv, QueueInv, JobsInv
  <2>2. \A k \in Jobs : SoundJob(job'[k]) BY <1>5, <2>1, ReplaceSound DEF Jobs
  <2>3. QED BY <1>7, <2>2, StillCache, StillSound DEF SyncPreviews, Still
<1>8. QED BY <1>1, <1>2, <1>3, <1>6, <1>7 DEF Syncing

LEMMA OtherSound ==
    ASSUME TypeInv, CoverageInv,
           \/ ManualSync \/ Periodic \/ InitialTimerFires
           \/ WatcherStopped \/ Configure \/ Started
           \/ \E loaded \in BOOLEAN : EventTimerFires(loaded)
           \/ \E p \in Peers : Retrying(p)
    PROVE  CoverageInv'
<1>1. CASE BuildReads("manual")
  BY <1>1, BuildReadsSound, StillCache, StillSound DEF BuildReads, Still, Jobs
<1>2. CASE BuildCompletes("manual") BY <1>2, BuildCompletesSound DEF Jobs
<1>3. ASSUME NEW o \in Outcomes, ManualPushes(o) PROVE CoverageInv'
  <2>1. \A k \in Jobs : SoundJob(job'[k])
    BY <1>3, IdleIsSound, ReplaceSound DEF ManualPushes, Jobs
  <2>2. QED BY <1>3, <2>1, StillCache, StillSound DEF ManualPushes, Still
<1>4. ASSUME PeriodicFires \/ AuditEnds PROVE CoverageInv'
  BY <1>4, StillJobs DEF PeriodicFires, AuditEnds, Still, syncVars
<1>5. ASSUME NEW p \in Peers, NEW reachable \in BOOLEAN, Refreshes(p, reachable)
      PROVE CoverageInv'
  BY <1>5, StillJobs DEF Refreshes, Still, syncVars
<1>6. \A force, reconcile \in BOOLEAN : \A timer, loaded :
         SyncNow(force, FALSE, reconcile, None, timer, loaded)
            => \A k \in Jobs : SoundJob(job'[k])
  <2>1. FALSE \in BOOLEAN /\ None \in Peers \cup {None} OBVIOUS
  <2>2. QED BY <2>1, SyncNowSound
<1>7. ASSUME NEW audit \in BOOLEAN, NEW loaded \in BOOLEAN, RoundEnds(audit, loaded)
      PROVE CoverageInv'
  <2>1. Still /\ UNCHANGED cache BY <1>7 DEF RoundEnds, Still
  <2>2. CASE UNCHANGED syncVars BY <2>1, <2>2, StillJobs DEF syncVars
  <2>3. CASE SyncNow(FALSE, FALSE, TRUE, None, eventTimer, loaded)
    BY <1>6, <2>1, <2>3, StillCache, StillSound
  <2>4. QED BY <1>7, <2>2, <2>3 DEF RoundEnds
<1>8. ASSUME InitialTimerFires PROVE CoverageInv'
  BY <1>6, <1>8, StillCache, StillSound DEF InitialTimerFires, Still
<1>9. ASSUME WatcherStopped \/ Configure \/ Started PROVE CoverageInv'
  <2>1. CASE Started BY <2>1, OwedSound DEF Started, Owed, syncVars
  <2>2. CASE WatcherStopped \/ Configure
    BY <2>2, StillJobs DEF WatcherStopped, Configure, Still, syncVars
  <2>3. QED BY <1>9, <2>1, <2>2
<1>10. ASSUME NEW loaded \in BOOLEAN, EventTimerFires(loaded) PROVE CoverageInv'
  <2>1. Still /\ UNCHANGED cache BY <1>10 DEF EventTimerFires, Still
  <2>2. CASE UNCHANGED job BY <2>1, <2>2, StillJobs
  <2>3. CASE SyncNow(FALSE, FALSE, FALSE, None, FALSE, loaded)
    BY <1>6, <2>1, <2>3, StillCache, StillSound
  <2>4. QED BY <1>10, <2>2, <2>3 DEF EventTimerFires
<1>11. ASSUME NEW p \in Peers, Retrying(p) PROVE CoverageInv'
  BY <1>11, StillJobs DEF Retrying, RetryFires, RetryPushes, Still, syncVars
<1>12. QED BY <1>1, <1>2, <1>3, <1>4, <1>5, <1>7, <1>8, <1>9, <1>10, <1>11
           DEF ManualSync, Periodic

-----------------------------------------------------------------------------

LEMMA InitCoverage == Init => CoverageInv
BY IdleIsSound DEF Init, CoverageInv, SoundCache

LEMMA NextCoverage ==
    ASSUME AutoSync
    PROVE  TypeInv /\ CoverageInv /\ [Next]_vars => CoverageInv'
<1> SUFFICES ASSUME TypeInv, CoverageInv, [Next]_vars PROVE CoverageInv' OBVIOUS
<1>1. CASE Next BY <1>1, EnvironmentSound, WatchingSound, SyncingSound, OtherSound DEF Next
<1>2. CASE UNCHANGED vars BY <1>2, StillJobs DEF vars, syncVars, Still
<1>3. QED BY <1>1, <1>2

LEMMA Invariance == ASSUME AutoSync PROVE Spec => [](TypeInv /\ CoverageInv)
<1>1. Init => TypeInv /\ CoverageInv BY InitTypes, InitCoverage
<1>2. TypeInv /\ CoverageInv /\ [Next]_vars => (TypeInv /\ CoverageInv)'
  BY NextTypes, NextCoverage
<1>3. QED BY <1>1, <1>2, PTL DEF Spec

\* With automatic synchronization on, for any Satellites, any number of sections, any
\* edits, failures and restarts: a build or a cache of the current revision, with no
\* event outstanding, holds what the Core holds.
THEOREM RevisionsRecogniseTornBuilds ==
    ASSUME AutoSync
    PROVE  Spec => []SnapshotCoverage
<1>1. CoverageInv => SnapshotCoverage BY CoverageInvImpliesCoverage
<1>2. QED BY <1>1, Invariance, PTL

\* A complete snapshot of the current revision and generation is the Core; one of
\* another is older.
LEMMA CompleteIsCurrent ==
    ASSUME TypeInv, ~Owed, NEW b, b.content \in Content, Complete(b)
    PROVE  b.content = source \/ b.built < revision \/ b.gen < gen
<1>1. /\ b.built \in Nat /\ b.gen \in Nat /\ b.built <= revision /\ b.gen <= gen
      /\ Covers(b.built, b.gen, b.content, NumSections + 1)
  BY DEF Complete, Sound
<1>2. revision \in Nat /\ gen \in Nat /\ source \in Content BY DEF TypeInv, CoreTypes
<1>3. CASE b.built = revision /\ b.gen = gen
  <2>1. \A s \in Sections : s < NumSections + 1 BY ConstantsAssumption DEF Sections
  <2>2. \A s \in Sections : b.content[s] = source[s] BY <1>1, <1>3, <2>1 DEF Covers
  <2>3. QED BY <1>2, <2>2 DEF Content
<1>4. QED BY <1>1, <1>2, <1>3

\* What a step that resets pending_changes goes by: a complete snapshot, of the running
\* synchronization or from the cache, whose synchronization began at this revision.
Settles ==
    \/ job["sync"].pc \in {"compress", "push"} /\ job["sync"].rev = revision
    \/ job["sync"].pc = "idle" /\ cache # None

\* A call of syncNow resets pending_changes only if it finds the cache unchanged.
LEMMA SyncNowSettles ==
    ASSUME NEW force, NEW dry, NEW reconcile, NEW only, NEW timer, NEW loaded,
           SyncNow(force, dry, reconcile, only, timer, loaded), pending, ~pending'
    PROVE  Settles
<1>1. job["sync"].pc = "idle" /\ Begin(force, dry, reconcile, only, timer) BY DEF SyncNow
<1>2. cache # None BY <1>1 DEF Begin
<1>3. QED BY <1>1, <1>2 DEF Settles

\* The ways to reset pending_changes: the hash is the last one, or every push succeeded.
\* Both compare the revisions.
LEMMA ResetSettles ==
    ASSUME TypeInv, Next, pending, ~pending', phase = "up", phase' = "up"
    PROVE  Settles
<1> DEFINE b == job["sync"]
<1>1. CASE BuildCompletes("sync")
  <2>1. b.pc = "compress" /\ Decide(b, eventTimer) BY <1>1 DEF BuildCompletes
  <2>2. revision = b.rev BY <2>1 DEF Decide, Finish
  <2>3. QED BY <2>1, <2>2 DEF Settles
<1>2. CASE SyncConcludes BY <1>2 DEF SyncConcludes, Finish, Settles
<1>3. CASE \E j \in Jobs : BuildReads(j) BY <1>3 DEF BuildReads, Finish
<1>4. CASE BuildCompletes("manual") BY <1>4 DEF BuildCompletes
<1>5. CASE Environment
  <2>1. ASSUME NEW j \in Jobs, BuildFails(j) PROVE FALSE
    BY <2>1 DEF BuildFails, Finish
  <2>2. ASSUME NEW force, NEW dry, NEW only, NEW loaded, RequestSync(force, dry, only, loaded)
        PROVE Settles
    BY <2>2, SyncNowSettles DEF RequestSync
  <2>3. QED BY <1>5, <2>1, <2>2
            DEF Environment, CoreEdit, WatchDrops, RequestManualSync, Toggle, Stop, TunnelEnds,
                Crash, StopTimers, syncVars
<1>6. CASE Watching
  BY <1>6 DEF Watching, WatchConnects, WatchReconnects, WatchEnds, ConfigurationEvents,
              NoteChange, syncVars
<1>7. CASE (\E p \in Peers : \E o \in Outcomes : SyncPushes(p, o))
           \/ (\E p \in Peers : \E ok \in BOOLEAN : SyncPreviews(p, ok))
           \/ (\E o \in Outcomes : ManualPushes(o))
  BY <1>7 DEF SyncPushes, SyncPreviews, ManualPushes
<1>8. CASE Periodic
  <2>1. ASSUME NEW audit, NEW loaded, RoundEnds(audit, loaded) PROVE Settles
    BY <2>1, SyncNowSettles DEF RoundEnds, syncVars
  <2>2. QED BY <1>8, <2>1 DEF Periodic, PeriodicFires, AuditEnds, Refreshes, syncVars
<1>9. CASE InitialTimerFires BY <1>9, SyncNowSettles DEF InitialTimerFires
<1>10. CASE WatcherStopped \/ Configure \/ Started
  BY <1>10 DEF WatcherStopped, Configure, Started
<1>11. ASSUME NEW loaded, EventTimerFires(loaded) PROVE Settles
  BY <1>11, SyncNowSettles DEF EventTimerFires
<1>12. ASSUME NEW p \in Peers, Retrying(p) PROVE FALSE
  BY <1>12 DEF Retrying, RetryFires, RetryPushes, syncVars
<1>13. QED BY <1>1, <1>2, <1>3, <1>4, <1>5, <1>6, <1>7, <1>8, <1>9, <1>10, <1>11, <1>12
           DEF Next, Syncing, ManualSync, Jobs

\* The snapshot a synchronization goes by is what the Core holds, or named as older.
LEMMA SettledIsCurrent ==
    ASSUME TypeInv, CoverageInv, ~Owed, Settles
    PROVE  \/ Decisive.content = source
           \/ Decisive.built < Decisive.rev
           \/ Decisive.gen < gen
<1> DEFINE b == job["sync"]
<1>1. CASE b.pc \in {"compress", "push"} /\ b.rev = revision
  <2>1. b.content \in Content BY <1>1 DEF TypeInv, QueueInv, JobsInv, WellFormed, Jobs
  <2>2. Complete(b) BY <1>1 DEF CoverageInv, SoundJob, Complete, Jobs
  <2>3. Decisive = b BY <1>1 DEF Decisive
  <2>4. QED BY <1>1, <2>1, <2>2, <2>3, CompleteIsCurrent
<1>2. CASE b.pc = "idle" /\ cache # None
  <2>1. Decisive = [IdleJob EXCEPT !.rev = revision, !.built = cache.rev, !.gen = cache.gen,
                                   !.content = cache.content]
    BY <1>2 DEF Decisive
  <2>2. Decisive.rev = revision /\ Decisive.built = cache.rev /\ Decisive.gen = cache.gen
        /\ Decisive.content = cache.content
    BY <2>1 DEF IdleJob
  <2>3. cache.content \in Content BY <1>2 DEF TypeInv, SnapshotTypes, Snapshot
  <2>4. Complete(Decisive) BY <1>2, <2>2 DEF CoverageInv, SoundCache, Complete
  <2>5. QED BY <2>2, <2>3, <2>4, CompleteIsCurrent
<1>3. QED BY <1>1, <1>2 DEF Settles

\* With automatic synchronization on, a synchronization that resets pending_changes goes
\* by what the Core holds, or an event is outstanding, whatever the interleaving; or it
\* goes by one of the two older snapshots the property names.
THEOREM NoChangeIsWrittenOff ==
    ASSUME AutoSync
    PROVE  Spec => ClearedMeansCurrent
<1> DEFINE Resets == pending /\ ~pending' /\ ~Owed /\ phase = "up" /\ phase' = "up"
           Current == \/ Decisive.content = source
                      \/ Decisive.built < Decisive.rev
                      \/ Decisive.gen < gen
<1>1. ASSUME TypeInv, CoverageInv, [Next]_vars
      PROVE  [Resets => Current]_vars
  <2>1. CASE UNCHANGED vars BY <2>1
  <2>2. CASE Next /\ Resets
    <3>1. Settles BY <1>1, <2>2, ResetSettles
    <3>2. Current BY <1>1, <2>2, <3>1, SettledIsCurrent
    <3>3. QED BY <3>2
  <2>3. QED BY <1>1, <2>1, <2>2
<1>2. QED BY <1>1, Invariance, PTL DEF Spec, ClearedMeansCurrent
-----------------------------------------------------------------------------
(* No pending change loses its wake-up, except by the four ways named.      *)

\* The four ways OnlyFailuresStrand names.
Excused ==
    \/ job["sync"].dry \/ ~job["sync"].ok \/ BuildFails("sync")
    \/ job["sync"].only \notin enabled \cup {None}

\* A step that leaves these alone strands nothing.
LEMMA NothingMoved ==
    ASSUME UNCHANGED <<phase, pending, eventTimer, initialTimer>>, Stranded',
           job'["sync"] = job["sync"] \/ job["sync"].pc = "idle"
    PROVE  Stranded
BY DEF Stranded

\* The finally block: it schedules again when the revision moved or a caller was
\* turned away meanwhile, unless the synchronization was a preview.
LEMMA FinishWakes ==
    ASSUME NEW b, NEW pend, NEW timer, Finish(b, pend, timer), Stranded', ~b.dry
    PROVE  revision = b.rev /\ ~trailing /\ pend /\ ~timer
<1>1. pend /\ ~eventTimer' /\ AutoSync BY DEF Stranded, Finish
<1>2. ~(trailing \/ revision # b.rev)
  <2>1. SUFFICES ASSUME trailing \/ revision # b.rev PROVE FALSE OBVIOUS
  <2>2. eventTimer' = ArmsEventTimer(pend) BY <2>1 DEF Finish
  <2>3. QED BY <1>1, <2>2 DEF ArmsEventTimer
<1>3. eventTimer' = timer BY <1>2 DEF Finish
<1>4. QED BY <1>1, <1>2, <1>3

\* An unchanged hash clears pending_changes or schedules again; pushes hold the lock.
LEMMA DecideWakes ==
    ASSUME TypeInv, NEW b, b \in Job, NEW timer, Decide(b, timer), Stranded', ~b.dry
    PROVE  /\ b.only \notin enabled \cup {None}
           /\ UNCHANGED pending
           /\ ~timer
<1> DEFINE targets == {p \in enabled : b.only \in {None, p}}
           pushes  == [b EXCEPT !.pc = "push", !.todo = targets]
<1>1. CASE Finish(b, revision # b.rev, timer) BY <1>1, FinishWakes
<1>2. CASE b.only # None /\ targets = {} /\ Finish(b, pending, timer)
  <2>1. b.only \notin enabled BY <1>2
  <2>2. UNCHANGED pending BY <1>2 DEF Finish
  <2>3. ~timer BY <1>2, FinishWakes
  <2>4. QED BY <1>2, <2>1, <2>2, <2>3
<1>3. CASE job' = [job EXCEPT !["sync"] = pushes]
  <2>1. job'["sync"] = pushes BY <1>3 DEF TypeInv, QueueInv, JobsInv, Jobs
  <2>2. pushes.pc = "push" /\ ~pushes.dry BY DEF Job
  <2>3. QED BY <2>1, <2>2 DEF Stranded
<1>4. QED BY <1>1, <1>2, <1>3 DEF Decide

\* A synchronization that takes the lock and leaves something pending without a timer
\* is a preview, or asked for one Satellite; the timer was not armed before either.
LEMMA BeginWakes ==
    ASSUME TypeInv, NEW force \in BOOLEAN, NEW dry \in BOOLEAN, NEW reconcile \in BOOLEAN,
           NEW only \in Peers \cup {None}, NEW timer \in BOOLEAN, job["sync"].pc = "idle",
           Begin(force, dry, reconcile, only, timer), Stranded'
    PROVE  /\ UNCHANGED pending
           /\ ~timer
           /\ dry \/ only # None
<1> DEFINE b      == NewJob(force, dry, only)
           cached == [b EXCEPT !.content = cache.content, !.built = cache.rev, !.gen = cache.gen]
<1>1. b \in Job /\ b.dry = dry /\ b.only = only /\ b.pc = "read"
  <2>1. b \in Job BY NewIsWellFormed DEF WellFormed
  <2>2. QED BY <2>1 DEF NewJob, IdleJob
<1>2. CASE ~dry /\ cache # None /\ Decide(cached, timer)
  <2>1. cached \in Job /\ ~cached.dry /\ cached.only = only BY <1>1, <1>2, CachedJob
  <2>2. cached.only \notin enabled \cup {None} /\ UNCHANGED pending /\ ~timer
    BY <1>2, <2>1, DecideWakes
  <2>3. QED BY <2>1, <2>2
<1>3. CASE /\ job' = [job EXCEPT !["sync"] = b]
           /\ eventTimer' = timer
           /\ UNCHANGED <<pending, trailing>>
  <2>1. job'["sync"] = b BY <1>3 DEF TypeInv, QueueInv, JobsInv, Jobs
  <2>2. QED BY <1>1, <1>3, <2>1 DEF Stranded
<1>4. QED BY <1>2, <1>3 DEF Begin

\* What a call of syncNow can leave stranded, by what became of the call.
LEMMA SyncNowWakes ==
    ASSUME TypeInv, NEW force \in BOOLEAN, NEW dry \in BOOLEAN, NEW reconcile \in BOOLEAN,
           NEW only \in Peers \cup {None}, NEW timer \in BOOLEAN, NEW loaded,
           SyncNow(force, dry, reconcile, only, timer, loaded), UNCHANGED phase, Stranded'
    PROVE  /\ UNCHANGED pending
           /\ ~timer
           /\ job["sync"].pc = "idle" \/ job["sync"].dry
           /\ (force /\ ~dry /\ only = None) => job["sync"].dry
<1>1. phase' = "up" /\ AutoSync /\ pending' /\ ~eventTimer' BY DEF Stranded
<1>2. CASE (~dry /\ ~force /\ ~reconcile /\ ~pending)
           /\ eventTimer' = timer /\ UNCHANGED <<pending, trailing, job>>
  BY <1>1, <1>2
<1>3. CASE eventTimer' = ArmsEventTimer(pending) /\ UNCHANGED <<pending, trailing, job>>
  BY <1>1, <1>3 DEF ArmsEventTimer
<1>4. CASE /\ job["sync"].pc # "idle"
           /\ eventTimer' = timer
           /\ UNCHANGED <<pending, job>>
  BY <1>1, <1>4 DEF Stranded
<1>5. CASE job["sync"].pc = "idle" /\ Begin(force, dry, reconcile, only, timer)
  BY <1>5, BeginWakes
<1>6. QED BY <1>1, <1>2, <1>3, <1>4, <1>5 DEF SyncNow

\* The fired event timer is not armed any more, and yet the synchronization it starts
\* either clears pending_changes, schedules again or holds the lock.
LEMMA SilentTimer ==
    ASSUME TypeInv, NEW loaded, SyncNow(FALSE, FALSE, FALSE, None, FALSE, loaded),
           UNCHANGED phase, job["sync"].pc = "idle", Stranded'
    PROVE  FALSE
<1>1. phase' = "up" /\ AutoSync /\ pending' /\ ~eventTimer' BY DEF Stranded
<1>2. CASE ~pending /\ UNCHANGED <<pending, trailing, job>> BY <1>1, <1>2
<1>3. CASE eventTimer' = ArmsEventTimer(pending) /\ UNCHANGED <<pending, trailing, job>>
  BY <1>1, <1>3 DEF ArmsEventTimer
<1>4. CASE Begin(FALSE, FALSE, FALSE, None, FALSE) BY <1>4, BeginWakes
<1>5. QED BY <1>1, <1>2, <1>3, <1>4 DEF SyncNow

LEMMA BuildsWake ==
    ASSUME TypeInv, Stranded', NEW j \in Jobs, BuildReads(j) \/ BuildCompletes(j)
    PROVE  Stranded \/ Excused
<1>1. job["sync"] \in Job /\ job \in [Jobs -> Job] BY DEF TypeInv, QueueInv, JobsInv, Jobs
<1>2. CASE BuildReads(j) /\ Superseded(job[j])
  BY <1>2, FinishWakes DEF BuildReads, Superseded
<1>3. CASE BuildReads(j) /\ ~Superseded(job[j])
  <2> DEFINE c == job[j].at
             r == [job[j] EXCEPT !.content[c] = source[c]]
             b == IF c = NumSections THEN [r EXCEPT !.pc = "compress"]
                                     ELSE [r EXCEPT !.at = c + 1]
  <2>1. job' = [job EXCEPT ![j] = b] /\ b.dry = job[j].dry /\ b.pc # "idle"
    <3>1. job[j] \in Job /\ job[j].pc = "read" BY <1>3 DEF BuildReads, TypeInv, QueueInv, JobsInv
    <3>2. r.dry = job[j].dry /\ r.pc = "read" BY <3>1 DEF Job
    <3>3. b.dry = job[j].dry /\ b.pc # "idle" BY <3>1, <3>2 DEF Job
    <3>4. job' = [job EXCEPT ![j] = b] BY <1>3 DEF BuildReads
    <3>5. QED BY <3>3, <3>4
  <2> HIDE DEF b
  <2>2. job'["sync"].dry = job["sync"].dry
        /\ (job'["sync"].pc = "idle" => job["sync"].pc = "idle")
    BY <1>1, <2>1 DEF Jobs
  <2>3. UNCHANGED <<phase, pending, eventTimer, initialTimer>> BY <1>3 DEF BuildReads
  <2>4. QED BY <2>2, <2>3 DEF Stranded
<1>4. CASE BuildCompletes(j) /\ j = "sync"
  <2>1. CASE job["sync"].dry BY <2>1 DEF Excused
  <2>2. CASE ~job["sync"].dry
    <3>1. Decide(job["sync"], eventTimer) BY <1>4 DEF BuildCompletes
    <3>2. QED BY <1>1, <2>2, <3>1, DecideWakes DEF Excused
  <2>3. QED BY <2>1, <2>2
<1>5. CASE BuildCompletes(j) /\ j = "manual"
  <2>1. job'["sync"] = job["sync"] BY <1>1, <1>5 DEF BuildCompletes, Jobs
  <2>2. QED BY <1>5, <2>1, NothingMoved DEF BuildCompletes
<1>6. QED BY <1>2, <1>3, <1>4, <1>5 DEF Jobs

LEMMA PushesWake ==
    ASSUME TypeInv, Stranded',
           \/ \E p \in Peers : (\E o \in Outcomes : SyncPushes(p, o))
                               \/ (\E ok \in BOOLEAN : SyncPreviews(p, ok))
           \/ SyncConcludes
           \/ \E o \in Outcomes : ManualPushes(o)
    PROVE  Stranded \/ Excused
<1>1. job["sync"] \in Job /\ job \in [Jobs -> Job] BY DEF TypeInv, QueueInv, JobsInv, Jobs
<1>2. ASSUME NEW p, NEW o, SyncPushes(p, o) PROVE FALSE
  <2>1. job'["sync"].pc = "push" /\ ~job'["sync"].dry
    BY <1>1, <1>2 DEF SyncPushes, Jobs, Job
  <2>2. QED BY <2>1 DEF Stranded
<1>3. ASSUME NEW p, NEW ok, SyncPreviews(p, ok) PROVE Excused
  BY <1>3 DEF SyncPreviews, Excused
<1>4. CASE SyncConcludes
  <2>1. CASE job["sync"].dry \/ ~job["sync"].ok BY <2>1 DEF Excused
  <2>2. CASE ~job["sync"].dry /\ job["sync"].ok
    <3>1. Finish(job["sync"], revision # job["sync"].rev, eventTimer)
      BY <1>4, <2>2 DEF SyncConcludes
    <3>2. QED BY <2>2, <3>1, FinishWakes
  <2>3. QED BY <2>1, <2>2
<1>5. ASSUME NEW o, ManualPushes(o) PROVE Stranded
  <2>1. job'["sync"] = job["sync"] BY <1>1, <1>5 DEF ManualPushes, Jobs
  <2>2. QED BY <1>5, <2>1, NothingMoved DEF ManualPushes
<1>6. QED BY <1>2, <1>3, <1>4, <1>5

LEMMA EnvironmentWakes ==
    ASSUME TypeInv, Stranded', Environment
    PROVE  Stranded \/ Excused
<1>1. job \in [Jobs -> Job] BY DEF TypeInv, QueueInv, JobsInv
<1>2. ASSUME NEW s, CoreEdit(s) PROVE Stranded
  BY <1>2, NothingMoved DEF CoreEdit, syncVars
<1>3. CASE WatchDrops BY <1>3, NothingMoved DEF WatchDrops, syncVars
<1>4. ASSUME NEW force \in BOOLEAN, NEW dry \in BOOLEAN, NEW loaded,
             NEW only \in Peers \cup {None}, RequestSync(force, dry, only, loaded)
      PROVE  Stranded
  <2>1. SyncNow(force, dry, FALSE, only, eventTimer, loaded) /\ UNCHANGED <<phase, initialTimer>>
    BY <1>4 DEF RequestSync
  <2>2. eventTimer \in BOOLEAN BY DEF TypeInv, QueueInv
  <2>3. UNCHANGED pending /\ ~eventTimer /\ (job["sync"].pc = "idle" \/ job["sync"].dry)
    BY <2>1, <2>2, SyncNowWakes
  <2>4. QED BY <2>1, <2>3 DEF Stranded
<1>5. ASSUME NEW p, RequestManualSync(p) PROVE Stranded
  <2>1. job'["sync"] = job["sync"] BY <1>1, <1>5 DEF RequestManualSync, Jobs
  <2>2. QED BY <1>5, <2>1, NothingMoved DEF RequestManualSync
<1>6. ASSUME NEW p, Toggle(p) PROVE Stranded
  BY <1>6, NothingMoved DEF Toggle, syncVars
<1>7. ASSUME NEW j \in Jobs, BuildFails(j) PROVE Stranded \/ Excused
  <2>1. CASE j = "sync" BY <1>7, <2>1 DEF Excused
  <2>2. CASE j = "manual"
    <3>1. job'["sync"] = job["sync"] BY <1>1, <1>7, <2>2 DEF BuildFails, Jobs
    <3>2. QED BY <1>7, <2>2, <3>1, NothingMoved DEF BuildFails
  <2>3. QED BY <2>1, <2>2 DEF Jobs
<1>8. CASE Stop \/ TunnelEnds \/ Crash BY <1>8 DEF Stop, TunnelEnds, Crash, Stranded
<1>9. QED BY <1>2, <1>3, <1>4, <1>5, <1>6, <1>7, <1>8 DEF Environment

LEMMA TimersWake ==
    ASSUME TypeInv, Stranded',
           \/ Watching \/ InitialTimerFires \/ WatcherStopped \/ Configure \/ Started
           \/ (\E p \in Peers : Retrying(p))
           \/ (\E loaded \in BOOLEAN : EventTimerFires(loaded))
    PROVE  Stranded \/ Excused
<1>1. pending' /\ ~eventTimer' /\ phase' = "up" /\ AutoSync BY DEF Stranded
<1>2. CASE WatchConnects \/ WatchEnds
  BY <1>2, NothingMoved DEF WatchConnects, WatchEnds, syncVars
<1>3. CASE WatchReconnects \/ ConfigurationEvents
  BY <1>1, <1>3 DEF WatchReconnects, ConfigurationEvents, NoteChange, ArmsEventTimer
<1>4. CASE InitialTimerFires
  <2>1. eventTimer \in BOOLEAN BY DEF TypeInv, QueueInv
  <2>2. SyncNow(TRUE, FALSE, FALSE, None, eventTimer, FALSE) /\ UNCHANGED phase
    BY <1>4 DEF InitialTimerFires
  <2>3. job["sync"].dry BY <2>1, <2>2, SyncNowWakes
  <2>4. QED BY <2>3 DEF Excused
<1>5. CASE WatcherStopped \/ Configure \/ Started
  <2>1. CASE Started BY <2>1 DEF Started, Stranded, ArmsEventTimer
  <2>2. QED BY <1>1, <1>5, <2>1 DEF WatcherStopped, Configure
<1>6. ASSUME NEW p, Retrying(p) PROVE Stranded
  <2>1. CASE RetryFires(p)
    <3>1. CASE pending' = TRUE /\ eventTimer' = ArmsEventTimer(TRUE)
      BY <1>1, <3>1 DEF ArmsEventTimer
    <3>2. CASE UNCHANGED <<pending, eventTimer>>
      BY <2>1, <3>2, NothingMoved DEF RetryFires
    <3>3. QED BY <2>1, <3>1, <3>2 DEF RetryFires
  <2>2. CASE \E o \in Outcomes : RetryPushes(p, o)
    BY <2>2, NothingMoved DEF RetryPushes, syncVars
  <2>3. QED BY <1>6, <2>1, <2>2 DEF Retrying
<1>7. ASSUME NEW loaded, EventTimerFires(loaded) PROVE Excused
  <2>1. CASE job["sync"].pc # "idle" /\ UNCHANGED job
    BY <2>1 DEF Stranded, Excused
  <2>2. CASE job["sync"].pc = "idle" /\ SyncNow(FALSE, FALSE, FALSE, None, FALSE, loaded)
    <3>1. CASE job["sync"].dry BY <3>1 DEF Excused
    <3>2. CASE ~job["sync"].dry
      BY <1>1, <1>7, <2>2, <3>2, SilentTimer DEF EventTimerFires
    <3>3. QED BY <3>1, <3>2
  <2>3. QED BY <1>7, <2>1, <2>2 DEF EventTimerFires
<1>8. QED BY <1>2, <1>3, <1>4, <1>5, <1>6, <1>7 DEF Watching

LEMMA PeriodicWakes ==
    ASSUME TypeInv, Stranded', Periodic
    PROVE  Stranded
<1>1. CASE PeriodicFires \/ AuditEnds
  BY <1>1, NothingMoved DEF PeriodicFires, AuditEnds, syncVars
<1>2. ASSUME NEW p, NEW reachable, Refreshes(p, reachable) PROVE Stranded
  BY <1>2, NothingMoved DEF Refreshes, syncVars
<1>3. ASSUME NEW audit, NEW loaded, RoundEnds(audit, loaded) PROVE Stranded
  <2>1. CASE SyncNow(FALSE, FALSE, TRUE, None, eventTimer, loaded)
    <3>1. eventTimer \in BOOLEAN BY DEF TypeInv, QueueInv
    <3>2. UNCHANGED <<phase, initialTimer>> BY <1>3 DEF RoundEnds
    <3>3. UNCHANGED pending /\ ~eventTimer /\ (job["sync"].pc = "idle" \/ job["sync"].dry)
      BY <2>1, <3>1, <3>2, SyncNowWakes
    <3>4. QED BY <3>2, <3>3 DEF Stranded
  <2>2. CASE UNCHANGED syncVars
    BY <1>3, <2>2, NothingMoved DEF RoundEnds, syncVars
  <2>3. QED BY <1>3, <2>1, <2>2 DEF RoundEnds
<1>4. QED BY <1>1, <1>2, <1>3 DEF Periodic

\* Whatever the interleaving of edits, builds, pushes, retries, restarts and requests:
\* a step after which something is pending that nothing will take up is the failure of a
\* build or of a delivery, or a preview held the lock, or a request named a Satellite
\* that is not enabled.
THEOREM WakeUpsAreKept == Spec => OnlyFailuresStrand
<1>1. ASSUME TypeInv, [Next]_vars
      PROVE  [~Stranded /\ Stranded' => Excused]_vars
  <2>1. CASE UNCHANGED vars BY <2>1
  <2>2. CASE Next /\ Stranded'
    <3>1. Stranded \/ Excused
      BY <1>1, <2>2, BuildsWake, PushesWake, EnvironmentWakes, TimersWake, PeriodicWakes
         DEF Next, Syncing, ManualSync, Jobs
    <3>2. QED BY <3>1
  <2>3. QED BY <1>1, <2>1, <2>2
<1>2. Spec => []TypeInv BY InitTypes, NextTypes, PTL DEF Spec
<1>3. [~Stranded /\ Stranded' => Excused]_vars
      <=> [(~Stranded /\ Stranded') =>
            \/ job["sync"].dry \/ ~job["sync"].ok \/ BuildFails("sync")
            \/ job["sync"].only \notin enabled \cup {None} ]_vars
  BY DEF Excused
<1>4. QED BY <1>1, <1>2, <1>3, PTL DEF Spec, OnlyFailuresStrand
=============================================================================
