------------------------ MODULE SatelliteApplyProofs ------------------------
(***************************************************************************)
(* Proof that the detailed Satellite of SatelliteApply implements          *)
(* SatelliteMirror, for any snapshots, items, capabilities, configuration  *)
(* and disturbances.                                                       *)
(***************************************************************************)
EXTENDS SatelliteApply, TLAPS

\* The phase after which an item of a kind is complete, and the one in which a
\* macro or an activity is staged.
LastPhase(kind) ==
    IF kind = "resource" THEN 2 ELSE IF kind = "dock" THEN 3
    ELSE IF kind = "macro" THEN 6 ELSE IF kind = "activity" THEN 7
    ELSE IF kind = "group" THEN 8 ELSE 9
StagePhase(kind) == IF kind = "macro" THEN 4 ELSE 5
Staged(kind) == kind \in {"macro", "activity"}

\* The application is through with item i in phase p.
Passed(i, p) == job.phase > p \/ (job.phase = p /\ i \notin job.todo)

\* Item i is on the Core as snapshot s has it: what Lacking asks of it.
Found(i) == mapping[i] # None /\ Present(<<i, mapping[i]>>)
Written(i, s) ==
    /\ Found(i)
    /\ (Kind[i] = "resource" /\ ~VerifyHashes) \/ core[<<i, mapping[i]>>] = s

\* Copy c of item i may be part of what is shown.
Solid(i, c) == core[<<i, c>>] \in Snapshots \/ (Kind[i] = "resource" /\ Present(<<i, c>>))

\* What an application has done so far, unless it has noted an error.
Progress ==
    \A i \in Carries[job.snap] :
        /\ Staged(Kind[i]) /\ Passed(i, StagePhase(Kind[i])) => i \in job.staged
        /\ Passed(i, LastPhase(Kind[i])) => Written(i, job.snap) \/ i \in job.spared

CatalogFits ==
    \A e \in Entities : Caps[job.snap][e] # None =>
        catalog[e] # None /\ catalog[e].cap = Caps[job.snap][e]

ApplicationInv ==
    job \in Application =>
        /\ job.broken => job.errors
        /\ \A i \in job.todo : Kind[i] = Phases[job.phase].kind
        /\ \A i \in job.staged : i \in Carries[job.snap] /\ Staged(Kind[i]) /\ Found(i)
        /\ ~job.errors => Progress
        /\ job.obsolete \cap Catalogued(catalog) = {}
        /\ CatalogFits
        /\ job.phase > 1 => Catalogued(catalog) \subseteq proxies

\* A restart brings no object back that the Satellite had let go, and a resource
\* is never copied.
DiskKept ==
    /\ \A i \in Items, c \in Copies : disk[i] = c /\ Solid(i, c) => mapping[i] = c
    /\ \A i \in Items : Kind[i] = "resource" => {mapping[i], disk[i]} \subseteq {0, None}

ApplyInv == TypeOK /\ ApplicationInv /\ DiskKept /\ Tracked

\* A step in which only item i is written.
Touches(i) ==
    /\ core' \in [Objects -> Snapshots \cup {"unused", "gone", "user", "stub"}]
    /\ mapping' \in [Items -> Copies \cup {None}]
    /\ \A j \in Items \ {i}, c \in Copies : core'[<<j, c>>] = core[<<j, c>>]
    /\ \A j \in Items \ {i} : mapping'[j] = mapping[j]
    /\ \A c \in Copies : disk[i] = c /\ Solid(i, c)' => mapping'[i] = c
    /\ Kind[i] = "resource" => mapping'[i] \in {0, None}
    /\ \A c \in Copies : Synced(core[<<i, c>>])' => mapping'[i] = c \/ <<i, c>> \in orphans'
    /\ \A j \in Items \ {i}, c \in Copies : <<j, c>> \in orphans => <<j, c>> \in orphans'
    /\ orphans' \subseteq Objects
    /\ UNCHANGED <<proxies, diskVars, lastHash>>

\* A step by which an application is through with item i, with or without an
\* error.
Advances(i) ==
    /\ job \in Application /\ job' \in Application
    /\ job'.snap = job.snap /\ job'.phase = job.phase /\ job'.obsolete = job.obsolete
    /\ job'.todo = job.todo \ {i}
    /\ (job.errors => job'.errors) /\ (job'.broken => job'.errors)
    /\ job.spared \subseteq job'.spared
    /\ job.staged \subseteq job'.staged /\ job'.staged \subseteq job.staged \cup {i}
    /\ i \in job'.staged => i \in Carries[job.snap] /\ Staged(Kind[i]) /\ Found(i)'
    /\ ~job'.errors /\ i \in Carries[job.snap] =>
        /\ Staged(Kind[i]) /\ job.phase = StagePhase(Kind[i]) => i \in job'.staged
        /\ job.phase < LastPhase(Kind[i])
           \/ (job.phase = LastPhase(Kind[i]) /\ (Written(i, job.snap)' \/ i \in job'.spared))
    /\ UNCHANGED answer

-----------------------------------------------------------------------------
(* The table of phases, the types of jobs and catalogs.                    *)

\* What is done in each phase, and to which kind of items.
LEMMA PhaseTable ==
    ASSUME NEW p \in 1..11
    PROVE  /\ Phases[p].step = "proxies"  <=> p = 1
           /\ Phases[p].step = "keep"     <=> p = 2
           /\ Phases[p].step = "named"    <=> p \in {3, 9}
           /\ Phases[p].step = "stage"    <=> p \in {4, 5}
           /\ Phases[p].step = "finish"   <=> p \in {6, 7}
           /\ Phases[p].step = "group"    <=> p = 8
           /\ Phases[p].step = "obsolete" <=> p = 10
           /\ Phases[p].step = "save"     <=> p = 11
           /\ p = 2 => Phases[p].kind = "resource"
           /\ p = 3 => Phases[p].kind = "dock"
           /\ p \in {4, 6} => Phases[p].kind = "macro"
           /\ p \in {5, 7} => Phases[p].kind = "activity"
           /\ p = 8 => Phases[p].kind = "group"
           /\ p = 9 => Phases[p].kind = "profile"
           /\ Phases[10].kind = Phases[11].kind
<1>1. p \in {1, 2, 3, 4, 5, 6, 7, 8, 9, 10, 11}
  OBVIOUS
<1>2. CASE p \in {1, 2, 3, 4}
  BY <1>2 DEF Phases
<1>3. CASE p \in {5, 6, 7, 8}
  BY <1>3 DEF Phases
<1>4. CASE p \in {9, 10, 11}
  BY <1>4 DEF Phases
<1> QED
  BY <1>1, <1>2, <1>3, <1>4

\* What is under way is an application or a removal, told apart by its snap.
LEMMA JobKinds ==
    ASSUME TypeOK
    PROVE  /\ None \notin Application \cup RemovalJob
           /\ job # None /\ job.snap # Removal => job \in Application
           /\ job # None /\ job.snap = Removal => job \in RemovalJob
           /\ job \in Application => job.snap \in Snapshots /\ job.snap # Removal
BY ApplyAssumption DEF TypeOK, Application, RemovalJob

\* The proxies of a catalog are identifiers that entities may have.
LEMMA CataloguedType ==
    ASSUME NEW cat \in [Entities -> CatalogEntry \cup {None}]
    PROVE  Catalogued(cat) \subseteq ProxyIds
BY DEF Catalogued, CatalogEntry

\* The next catalog has what the snapshot says of each entity.
LEMMA NextCatalogFits ==
    ASSUME TypeOK, NEW s \in Snapshots
    PROVE  /\ NextCatalog(s) \in [Entities -> CatalogEntry \cup {None}]
           /\ \A e \in Entities : Caps[s][e] # None =>
                NextCatalog(s)[e] # None /\ NextCatalog(s)[e].cap = Caps[s][e]
<1>1. ASSUME NEW e \in Entities
      PROVE  /\ NextCatalog(s)[e] \in CatalogEntry \cup {None}
             /\ Caps[s][e] # None =>
                  NextCatalog(s)[e] \in CatalogEntry /\ NextCatalog(s)[e].cap = Caps[s][e]
  <2>1. /\ Caps[s][e] \in Capabilities \cup {None}
        /\ catalog[e] \in CatalogEntry \cup {None}
    BY ApplyAssumption DEF TypeOK
  <2>2. CASE Caps[s][e] = None
    BY <2>2 DEF NextCatalog
  <2>3. CASE Caps[s][e] # None /\ catalog[e] = None
    BY <2>1, <2>3 DEF NextCatalog, CatalogEntry, ProxyIds
  <2>4. CASE Caps[s][e] # None /\ catalog[e] # None /\ catalog[e].cap = Caps[s][e]
    BY <2>1, <2>4 DEF NextCatalog
  <2>5. CASE Caps[s][e] # None /\ catalog[e] # None /\ catalog[e].cap # Caps[s][e]
    <3>1. NextCatalog(s)[e] = [id |-> <<e, Caps[s][e]>>, cap |-> Caps[s][e]]
      BY <2>5 DEF NextCatalog
    <3> QED
      BY <2>1, <2>5, <3>1 DEF CatalogEntry, ProxyIds
  <2> QED
    BY <2>2, <2>3, <2>4, <2>5
<1> QED
  BY <1>1, ApplyAssumption DEF NextCatalog

-----------------------------------------------------------------------------
(* The steps of an application keep the invariant.                         *)

\* What is found or written of one item survives a step that writes another.
LEMMA OthersStay ==
    ASSUME TypeOK, NEW i \in Items, Touches(i), NEW j \in Items \ {i}
    PROVE  /\ Found(j) => Found(j)'
           /\ \A s \in Snapshots : Written(j, s) => Written(j, s)'
           /\ \A c \in Copies : Solid(j, c)' => Solid(j, c)
<1>1. mapping[j] \in Copies \cup {None} /\ mapping'[j] = mapping[j]
  BY DEF TypeOK, Touches
<1>2. \A c \in Copies : core'[<<j, c>>] = core[<<j, c>>]
  BY DEF Touches
<1>3. Found(j) => Found(j)'
  BY <1>1, <1>2 DEF Found, Present
<1>4. \A s \in Snapshots : Written(j, s) => Written(j, s)'
  BY <1>1, <1>2, <1>3 DEF Written, Found
<1>5. \A c \in Copies : Solid(j, c)' => Solid(j, c)
  BY <1>2 DEF Solid, Present
<1> QED
  BY <1>3, <1>4, <1>5

\* A step that writes one item brings no saved mapping back.
LEMMA TouchKeepsDisk ==
    ASSUME TypeOK, DiskKept, NEW i \in Items, Touches(i)
    PROVE  DiskKept'
<1>1. disk' = disk
  BY DEF Touches, diskVars
<1>2. ASSUME NEW j \in Items, NEW c \in Copies, disk[j] = c, Solid(j, c)'
      PROVE  mapping'[j] = c
  <2>1. CASE j = i
    BY <1>2, <2>1 DEF Touches
  <2>2. CASE j # i
    BY <1>2, <2>2, OthersStay DEF DiskKept, Touches
  <2> QED
    BY <2>1, <2>2
<1>3. \A j \in Items : Kind[j] = "resource" => {mapping'[j], disk[j]} \subseteq {0, None}
  BY DEF DiskKept, Touches
<1> QED
  BY <1>1, <1>2, <1>3 DEF DiskKept

\* A step that writes one item loses track of no object.
LEMMA TouchKeepsTracked ==
    ASSUME TypeOK, Tracked, NEW i \in Items, Touches(i)
    PROVE  Tracked'
<1>1. ASSUME NEW j \in Items, NEW c \in Copies, Synced(core[<<j, c>>])'
      PROVE  mapping'[j] = c \/ <<j, c>> \in orphans'
  <2>1. CASE j = i
    BY <1>1, <2>1 DEF Touches
  <2>2. CASE j # i
    <3>1. Synced(core[<<j, c>>]) /\ <<j, c>> \in Objects
      BY <1>1, <2>2 DEF Touches, Synced, Objects
    <3>2. mapping[j] = c \/ <<j, c>> \in orphans
      BY <3>1 DEF Tracked
    <3> QED
      BY <2>2, <3>2 DEF Touches
  <2> QED
    BY <2>1, <2>2
<1> QED
  BY <1>1 DEF Tracked, Objects

\* An application that is through with an item keeps the invariant.
LEMMA AdvanceKeeps ==
    ASSUME ApplyInv, NEW i \in Items, Touches(i), Advances(i)
    PROVE  ApplyInv'
<1>1. TypeOK /\ TypeOK'
  BY DEF ApplyInv, TypeOK, Touches, Advances, diskVars
<1>2. DiskKept' /\ Tracked'
  BY TouchKeepsDisk, TouchKeepsTracked DEF ApplyInv
<1>3. /\ job \in Application /\ job' \in Application /\ job.snap \in Snapshots
      /\ job.phase \in 1..11
      /\ Carries[job.snap] \subseteq Items /\ job.staged \subseteq Items
      /\ UNCHANGED <<catalog, proxies>>
  BY ApplyAssumption DEF Advances, Application, Touches, diskVars
<1>4. \A j \in job'.todo : Kind[j] = Phases[job'.phase].kind
  BY <1>3 DEF Advances, ApplyInv, ApplicationInv
<1>5. ASSUME NEW j \in job'.staged
      PROVE  j \in Carries[job'.snap] /\ Staged(Kind[j]) /\ Found(j)'
  <2>1. CASE j = i
    BY <1>5, <2>1 DEF Advances
  <2>2. CASE j # i
    BY <1>1, <1>3, <1>5, <2>2, OthersStay DEF Advances, ApplyInv, ApplicationInv
  <2> QED
    BY <2>1, <2>2
<1>6. ASSUME ~job'.errors PROVE Progress'
  <2>0. PICK s \in Snapshots : s = job.snap /\ s = job'.snap
    BY <1>3 DEF Advances
  <2> SUFFICES ASSUME NEW j \in Carries[s]
               PROVE  /\ Staged(Kind[j]) /\ Passed(j, StagePhase(Kind[j]))' => j \in job'.staged
                      /\ Passed(j, LastPhase(Kind[j]))' => Written(j, s)' \/ j \in job'.spared
    BY <2>0 DEF Progress, Written, Found
  <2>1. /\ j \in Items /\ j \in Carries[s] /\ job.spared \subseteq job'.spared
        /\ Staged(Kind[j]) /\ Passed(j, StagePhase(Kind[j])) => j \in job.staged
        /\ Passed(j, LastPhase(Kind[j])) => Written(j, s) \/ j \in job.spared
    BY <1>3, <1>6, <2>0 DEF Advances, ApplyInv, ApplicationInv, Progress
  <2>2. CASE j # i
    <3>1. \A p \in 1..11 : Passed(j, p)' => Passed(j, p)
      BY <1>3, <2>2 DEF Passed, Advances
    <3>2. StagePhase(Kind[j]) \in 1..11 /\ LastPhase(Kind[j]) \in 1..11
      BY DEF StagePhase, LastPhase
    <3> QED
      BY <1>1, <1>3, <2>1, <2>2, <3>1, <3>2, OthersStay DEF Advances
  <2>3. CASE j = i
    <3>1. \/ job.phase < LastPhase(Kind[i])
          \/ job.phase = LastPhase(Kind[i]) /\ (Written(i, s)' \/ i \in job'.spared)
      BY <1>6, <2>0, <2>1, <2>3 DEF Advances, Written, Found
    <3>2. Staged(Kind[i]) /\ job.phase = StagePhase(Kind[i]) => i \in job'.staged
      BY <1>6, <2>0, <2>1, <2>3 DEF Advances
    <3>3. Staged(Kind[i]) /\ Passed(i, StagePhase(Kind[i]))' => i \in job'.staged
      BY <1>3, <2>1, <2>3, <3>2 DEF Passed, Advances
    <3>4. Passed(i, LastPhase(Kind[i]))' => Written(i, s)' \/ i \in job'.spared
      BY <1>3, <3>1 DEF Passed, Advances, LastPhase
    <3> QED
      BY <2>1, <2>3, <3>3, <3>4
  <2> QED
    BY <2>2, <2>3
<1>7. /\ job'.obsolete \cap Catalogued(catalog') = {} /\ CatalogFits'
      /\ job'.phase > 1 => Catalogued(catalog') \subseteq proxies'
  BY <1>3 DEF Advances, ApplyInv, ApplicationInv, CatalogFits, Catalogued
<1>8. job'.broken => job'.errors
  BY DEF Advances
<1> QED
  BY <1>1, <1>2, <1>3, <1>4, <1>5, <1>6, <1>7, <1>8 DEF ApplyInv, ApplicationInv, Catalogued

\* So does one that an error ends or begins again.
LEMMA ThrownKeeps ==
    ASSUME ApplyInv, job \in Application, NEW recorded \in BOOLEAN, Thrown(recorded),
           UNCHANGED <<core, mapping, orphans, diskVars, lastHash>>,
           proxies \subseteq proxies', proxies' \subseteq ProxyIds
    PROVE  ApplyInv'
<1>1. CASE job.again
  <2>1. job' = None
    BY <1>1 DEF Thrown
  <2>2. job' \notin Application
    BY <2>1, ApplyAssumption
  <2> QED
    BY <2>1, <2>2
       DEF ApplyInv, TypeOK, ApplicationInv, DiskKept, Solid, Present, diskVars, Tracked
<1>2. CASE ~job.again
  <2>0. PICK e \in BOOLEAN : e = (job.errors \/ recorded)
    OBVIOUS
  <2>1. job' = [job EXCEPT !.phase = 1, !.todo = {}, !.staged = {},
                           !.errors = e, !.broken = FALSE, !.again = TRUE]
    BY <1>2, <2>0 DEF Thrown
  <2>2. /\ job' \in Application /\ job'.snap = job.snap /\ job'.phase = 1
        /\ job'.todo = {} /\ job'.staged = {} /\ job'.obsolete = job.obsolete
        /\ ~job'.broken
    <3>1. job = [snap |-> job.snap, phase |-> job.phase, todo |-> job.todo,
                 staged |-> job.staged, obsolete |-> job.obsolete,
                 errors |-> job.errors, broken |-> job.broken, again |-> job.again,
                 spared |-> job.spared]
      BY DEF Application
    <3>2. job' = [snap |-> job.snap, phase |-> 1, todo |-> {}, staged |-> {},
                  obsolete |-> job.obsolete, errors |-> e, broken |-> FALSE, again |-> TRUE,
                  spared |-> job.spared]
      BY <2>1, <3>1
    <3> QED
      BY <3>2 DEF Application
  <2>3. TypeOK'
    BY <2>2 DEF ApplyInv, TypeOK, diskVars
  <2>4. Progress'
    BY <2>2 DEF Progress, Passed, LastPhase, StagePhase
  <2> QED
    BY <2>2, <2>3, <2>4
       DEF ApplyInv, ApplicationInv, DiskKept, Solid, Present, diskVars, CatalogFits, Catalogued,
           Tracked
<1> QED
  BY <1>1, <1>2

-----------------------------------------------------------------------------
(* What the steps that work on one item do.                                *)

\* An item of a snapshot that is due, and the phase it is due in.
LEMMA CurrentItem ==
    ASSUME ApplyInv, NEW i \in Items, job \in Application, Current(i)
    PROVE  /\ i \in job.todo /\ i \in Carries[job.snap]
           /\ job.snap \in Snapshots /\ job.phase \in 1..11
           /\ Kind[i] = Phases[job.phase].kind
BY DEF Current, Application, ApplyInv, ApplicationInv

\* The phases belong to applications.
LEMMA DoingApplication ==
    ASSUME TypeOK, NEW step, Doing(step)
    PROVE  job \in Application /\ Phases[job.phase].step = step
BY JobKinds DEF Doing

\* An item that succeeded changes the list of items left, nothing else.
LEMMA DoneFields ==
    ASSUME job \in Application, NEW i \in Items, Done(i)
    PROVE  /\ job' \in Application /\ job'.todo = job.todo \ {i}
           /\ job'.snap = job.snap /\ job'.phase = job.phase
           /\ job'.obsolete = job.obsolete /\ job'.staged = job.staged
           /\ job'.errors = job.errors /\ job'.broken = job.broken /\ job'.spared = job.spared
BY DEF Application, Done

\* An item that was given up with a warning is noted as such.
LEMMA SparedFields ==
    ASSUME job \in Application, NEW i \in Items, Spared(i)
    PROVE  /\ job' \in Application /\ job'.todo = job.todo \ {i}
           /\ job'.snap = job.snap /\ job'.phase = job.phase
           /\ job'.obsolete = job.obsolete /\ job'.staged = job.staged
           /\ job'.errors = job.errors /\ job'.broken = job.broken
           /\ job'.spared = job.spared \cup {i}
BY DEF Application, Spared

\* An item that failed is noted as an error.
LEMMA FailedFields ==
    ASSUME job \in Application, NEW i \in Items, Failed(i)
    PROVE  /\ job' \in Application /\ job'.todo = job.todo \ {i}
           /\ job'.snap = job.snap /\ job'.phase = job.phase
           /\ job'.obsolete = job.obsolete /\ job'.staged = job.staged
           /\ job'.errors /\ job'.spared = job.spared
<1>1. PICK b \in BOOLEAN : b = (job.broken \/ Phases[job.phase].step = "finish")
  OBVIOUS
<1>2. job' = [job EXCEPT !.todo = @ \ {i}, !.errors = TRUE, !.broken = b]
  BY <1>1 DEF Failed
<1> QED
  BY <1>2 DEF Application

\* An item whose calls failed: that the application is through with it promises
\* nothing.
LEMMA FailureAdvances ==
    ASSUME ApplyInv, NEW i \in Items, job \in Application, Failed(i), UNCHANGED answer,
           Found(i) => Found(i)'
    PROVE  Advances(i)
BY FailedFields DEF Advances, ApplyInv, ApplicationInv

\* An item that was given up with a warning, in its last phase: the report
\* names it.
LEMMA SparedAdvances ==
    ASSUME ApplyInv, NEW i \in Items, job \in Application, Spared(i), UNCHANGED answer,
           job.phase = LastPhase(Kind[i]), Staged(Kind[i]) => job.phase # StagePhase(Kind[i]),
           i \in job.staged => Found(i)'
    PROVE  Advances(i)
BY SparedFields DEF Advances, ApplyInv, ApplicationInv

\* A synchronized object that is not the mapped one was and remains an orphan.
LEMMA StillTracked ==
    ASSUME ApplyInv, NEW i \in Items, NEW c \in Copies, Synced(core[<<i, c>>])
    PROVE  /\ mapping[i] = c \/ <<i, c>> \in orphans
           /\ Present(<<i, c>>)
BY ApplyAssumption DEF ApplyInv, Tracked, Objects, Synced, Present

\* What was not solid before and is mapped as before disturbs no saved mapping.
LEMMA SameMappingTouches ==
    ASSUME ApplyInv, NEW i \in Items,
           core' \in [Objects -> Snapshots \cup {"unused", "gone", "user", "stub"}],
           \A j \in Items \ {i}, c \in Copies : core'[<<j, c>>] = core[<<j, c>>],
           \A c \in Copies : Solid(i, c)' => Solid(i, c),
           \A c \in Copies : Synced(core[<<i, c>>])' => mapping[i] = c \/ <<i, c>> \in orphans',
           \A j \in Items \ {i}, c \in Copies : <<j, c>> \in orphans => <<j, c>> \in orphans',
           orphans' \subseteq Objects, UNCHANGED <<mapping, proxies, diskVars, lastHash>>
    PROVE  Touches(i)
BY DEF Touches, ApplyInv, TypeOK, DiskKept

\* The same for a step that writes nothing new.
LEMMA QuietTouches ==
    ASSUME ApplyInv, NEW i \in Items,
           core' \in [Objects -> Snapshots \cup {"unused", "gone", "user", "stub"}],
           \A j \in Items \ {i}, c \in Copies : core'[<<j, c>>] = core[<<j, c>>],
           \A c \in Copies : core'[<<i, c>>] \in {core[<<i, c>>], "gone"},
           UNCHANGED <<mapping, proxies, orphans, diskVars, lastHash>>
    PROVE  Touches(i)
<1>1. \A c \in Copies : Solid(i, c)' => Solid(i, c)
  BY ApplyAssumption DEF Solid, Present
<1>2. \A c \in Copies : Synced(core[<<i, c>>])' => Synced(core[<<i, c>>])
  BY ApplyAssumption DEF Synced
<1>3. \A c \in Copies : Synced(core[<<i, c>>])' => mapping[i] = c \/ <<i, c>> \in orphans'
  BY <1>2, StillTracked
<1>4. orphans' \subseteq Objects
  BY DEF ApplyInv, TypeOK
<1> QED
  BY <1>1, <1>3, <1>4, SameMappingTouches

\* A resource is kept, uploaded, lost, or ends the application.
LEMMA ResourceStep ==
    ASSUME ApplyInv, NEW i \in Items, ApplyResource(i)
    PROVE  \/ Touches(i) /\ Advances(i)
           \/ Thrown(FALSE) /\ UNCHANGED <<core, mapping, orphans, diskVars, lastHash, proxies>>
<1> DEFINE o == <<i, 0>>
<1>1. /\ job \in Application /\ i \in job.todo /\ i \in Carries[job.snap] /\ TypeOK
      /\ job.snap \in Snapshots /\ job.phase = 2 /\ Kind[i] = "resource"
  BY DoingApplication, CurrentItem, PhaseTable DEF ApplyResource, ApplyInv
<1>2. o \in Objects /\ 0 \in Copies
  BY ApplyAssumption DEF Objects, Copies
<1>3. LastPhase(Kind[i]) = 2 /\ ~Staged(Kind[i]) /\ i \notin job.staged
  BY <1>1 DEF LastPhase, Staged, ApplyInv, ApplicationInv
<1>4. CASE /\ \/ core[o] = job.snap /\ core' = core
              \/ Present(o) /\ ~VerifyHashes /\ core' = core
              \/ core' = [core EXCEPT ![o] = job.snap]
           /\ mapping' = [mapping EXCEPT ![i] = 0] /\ Done(i)
           /\ UNCHANGED <<proxies, orphans, diskVars, lastHash, answer>>
  <2>1. mapping'[i] = 0 /\ mapping' \in [Items -> Copies \cup {None}]
    BY <1>1, <1>2, <1>4 DEF TypeOK
  <2>2. Touches(i)
    <3>1. /\ core' \in [Objects -> Snapshots \cup {"unused", "gone", "user", "stub"}]
          /\ \A j \in Items \ {i}, c \in Copies : core'[<<j, c>>] = core[<<j, c>>]
      BY <1>1, <1>2, <1>4 DEF TypeOK, Objects
    <3>2. \A c \in Copies : disk[i] = c => c = 0
      BY <1>1, ApplyAssumption DEF ApplyInv, DiskKept
    <3>3. \A j \in Items \ {i} : mapping'[j] = mapping[j]
      BY <1>1, <1>4 DEF TypeOK
    <3>4. ASSUME NEW c \in Copies, Synced(core[<<i, c>>])'
          PROVE  mapping'[i] = c \/ <<i, c>> \in orphans'
      <4>1. CASE c = 0
        BY <2>1, <4>1
      <4>2. CASE c # 0
        <5>1. core'[<<i, c>>] = core[<<i, c>>]
          BY <1>1, <1>2, <1>4, <4>2 DEF TypeOK, Objects
        <5>2. Synced(core[<<i, c>>]) /\ mapping[i] # c
          BY <1>1, <3>4, <4>2, <5>1, ApplyAssumption DEF Synced, ApplyInv, DiskKept
        <5> QED
          BY <1>4, <5>2, StillTracked
      <4> QED
        BY <4>1, <4>2
    <3> QED
      BY <1>1, <1>4, <2>1, <3>1, <3>2, <3>3, <3>4 DEF Touches, TypeOK
  <2>3. Found(i)' /\ ((Kind[i] = "resource" /\ ~VerifyHashes) \/ core'[o] = job.snap)
    BY <1>1, <1>2, <1>4, <2>1, ApplyAssumption DEF Found, Present, TypeOK
  <2>4. Advances(i)
    BY <1>1, <1>3, <1>4, <2>1, <2>3, DoneFields
       DEF Advances, Written, Found, ApplyInv, ApplicationInv
  <2> QED
    BY <2>2, <2>4
<1>5. CASE /\ core' = [core EXCEPT ![o] = IF Present(o) THEN "gone" ELSE @]
           /\ Failed(i) /\ UNCHANGED <<mapping, answer, proxies, orphans, diskVars, lastHash>>
  <2>1. /\ core' \in [Objects -> Snapshots \cup {"unused", "gone", "user", "stub"}]
        /\ \A j \in Items \ {i}, c \in Copies : core'[<<j, c>>] = core[<<j, c>>]
        /\ \A c \in Copies : core'[<<i, c>>] \in {core[<<i, c>>], "gone"}
    BY <1>1, <1>2, <1>5 DEF TypeOK, Objects
  <2>3. Touches(i)
    BY <1>5, <2>1, QuietTouches
  <2>4. Advances(i)
    BY <1>1, <1>3, <1>5, FailedFields DEF Advances, ApplyInv, ApplicationInv
  <2> QED
    BY <2>3, <2>4
<1>6. CASE /\ core' = [core EXCEPT ![o] = IF Present(o) THEN "gone" ELSE @]
           /\ mapping' = [mapping EXCEPT ![i] = 0]
           /\ Spared(i) /\ UNCHANGED <<answer, proxies, orphans, diskVars, lastHash>>
  <2>1. /\ core' \in [Objects -> Snapshots \cup {"unused", "gone", "user", "stub"}]
        /\ \A j \in Items \ {i}, c \in Copies : core'[<<j, c>>] = core[<<j, c>>]
        /\ \A c \in Copies : core'[<<i, c>>] \in {core[<<i, c>>], "gone"}
    BY <1>1, <1>2, <1>6 DEF TypeOK, Objects
  <2>2. /\ mapping' \in [Items -> Copies \cup {None}] /\ mapping'[i] = 0
        /\ \A j \in Items \ {i} : mapping'[j] = mapping[j]
    BY <1>1, <1>2, <1>6 DEF TypeOK
  <2>3. \A c \in Copies : disk[i] = c => c = 0
    BY <1>1, ApplyAssumption DEF ApplyInv, DiskKept
  <2>4. ASSUME NEW c \in Copies, Synced(core[<<i, c>>])'
        PROVE  mapping'[i] = c \/ <<i, c>> \in orphans'
    <3>1. Synced(core[<<i, c>>])
      BY <2>1, <2>4, ApplyAssumption DEF Synced
    <3>2. c # 0 => mapping[i] # c
      BY <1>1, ApplyAssumption DEF ApplyInv, DiskKept
    <3> QED
      BY <1>6, <2>2, <3>1, <3>2, StillTracked
  <2>5. Touches(i)
    BY <1>1, <1>6, <2>1, <2>2, <2>3, <2>4 DEF Touches, TypeOK
  <2> QED
    BY <1>1, <1>3, <1>6, <2>5, SparedAdvances
<1> QED
  BY <1>4, <1>5, <1>6 DEF ApplyResource

\* A copy that is mapped now: it is the one mapped before, or none that was
\* saved is shown.
LEMMA NewMappingTouches ==
    ASSUME ApplyInv, NEW i \in Items, NEW copy \in Copies, Kind[i] # "resource",
           mapping' = [mapping EXCEPT ![i] = copy],
           core' \in [Objects -> Snapshots \cup {"unused", "gone", "user", "stub"}],
           \A j \in Items \ {i}, c \in Copies : core'[<<j, c>>] = core[<<j, c>>],
           \A c \in Copies \ {copy} : core'[<<i, c>>] = core[<<i, c>>],
           \A c \in Copies : mapping[i] = c /\ Present(<<i, c>>) => copy = c,
           orphans \ {<<i, copy>>} \subseteq orphans',
           orphans' \subseteq Objects, UNCHANGED <<proxies, diskVars, lastHash>>
    PROVE  Touches(i)
<1>1. mapping \in [Items -> Copies \cup {None}]
  BY DEF ApplyInv, TypeOK
<1>2. /\ mapping' \in [Items -> Copies \cup {None}] /\ mapping'[i] = copy
      /\ \A j \in Items \ {i} : mapping'[j] = mapping[j]
  BY <1>1
<1>3. ASSUME NEW c \in Copies, disk[i] = c, Solid(i, c)' PROVE c = copy
  <2> SUFFICES ASSUME c # copy PROVE FALSE
    OBVIOUS
  <2>1. Solid(i, c)
    BY <1>3 DEF Solid
  <2>2. mapping[i] = c
    BY <1>3, <2>1 DEF ApplyInv, DiskKept
  <2>3. Present(<<i, c>>)
    BY <2>1, ApplyAssumption DEF Solid, Present
  <2> QED
    BY <2>2, <2>3
<1>4. ASSUME NEW c \in Copies, Synced(core[<<i, c>>])'
      PROVE  mapping'[i] = c \/ <<i, c>> \in orphans'
  <2>1. CASE c = copy
    BY <1>2, <2>1
  <2>2. CASE c # copy
    <3>1. Synced(core[<<i, c>>])
      BY <1>4, <2>2 DEF Synced
    <3>2. <<i, c>> \in orphans
      BY <2>2, <3>1, StillTracked
    <3> QED
      BY <2>2, <3>2
  <2> QED
    BY <2>1, <2>2
<1> QED
  BY <1>2, <1>3, <1>4 DEF Touches

\* An item that is written without a part of it.
LEMMA PartStep ==
    ASSUME ApplyInv, NEW i \in Items, job \in Application, Kind[i] # "resource",
           ~Staged(Kind[i]), job.phase = LastPhase(Kind[i]),
           NEW copy \in Copies, \A c \in Copies : mapping[i] = c /\ Present(<<i, c>>) => copy = c,
           WritesPart(i, copy)
    PROVE  Touches(i) /\ Advances(i)
<1>1. TypeOK /\ <<i, copy>> \in Objects
  BY DEF ApplyInv, Objects
<1>2. /\ core' \in [Objects -> Snapshots \cup {"unused", "gone", "user", "stub"}]
      /\ \A j \in Items \ {i}, c \in Copies : core'[<<j, c>>] = core[<<j, c>>]
      /\ \A c \in Copies \ {copy} : core'[<<i, c>>] = core[<<i, c>>]
  BY <1>1 DEF WritesPart, TypeOK, Objects
<1>3. orphans' \subseteq Objects /\ orphans \ {<<i, copy>>} \subseteq orphans'
  BY <1>1 DEF WritesPart, TypeOK
<1>4. Touches(i)
  BY <1>2, <1>3, NewMappingTouches DEF WritesPart
<1>5. i \notin job.staged
  BY DEF ApplyInv, ApplicationInv
<1> QED
  BY <1>4, <1>5, SparedAdvances DEF WritesPart

\* A dock or a profile is written, refused, or written unnoticed.
LEMMA WritesStep ==
    ASSUME ApplyInv, NEW i \in Items, job \in Application, Current(i),
           Kind[i] \in {"dock", "profile"}, job.phase = LastPhase(Kind[i]),
           NEW out \in {"ok", "refused", "lost"}, NEW maps \in BOOLEAN,
           out = "ok" => maps, out = "refused" => ~maps, Writes(i, out, maps)
    PROVE  Touches(i) /\ Advances(i)
<1>1. /\ i \in job.todo /\ i \in Carries[job.snap] /\ TypeOK /\ job.snap \in Snapshots
      /\ mapping[i] \in Copies \cup {None}
  BY CurrentItem DEF ApplyInv, TypeOK
<1>2. PICK copy \in Copies : copy = IF mapping[i] = None THEN 0 ELSE mapping[i]
  BY <1>1, ApplyAssumption DEF Copies
<1> DEFINE o == <<i, copy>>
<1>3. /\ core' = CASE out = "ok"      -> [core EXCEPT ![o] = job.snap]
                   [] out = "refused" -> core
                   [] out = "lost"    -> [core EXCEPT ![o] = "stub"]
      /\ IF out = "ok" THEN Done(i) ELSE Failed(i)
      /\ mapping' = IF maps THEN [mapping EXCEPT ![i] = copy] ELSE mapping
      /\ orphans' = IF maps \/ mapping[i] = copy THEN orphans \ {o}
                    ELSE IF out = "lost" THEN orphans \cup {o} ELSE orphans
      /\ UNCHANGED <<proxies, diskVars, lastHash, answer>>
  BY <1>2 DEF Writes
<1>4. PICK x \in Snapshots \cup {"unused", "gone", "user", "stub"} :
        /\ core' = [core EXCEPT ![o] = x]
        /\ out = "ok" => x = job.snap
        /\ out = "refused" => x = core[o]
        /\ out = "lost" => x = "stub"
  <2>1. o \in Objects /\ core \in [Objects -> Snapshots \cup {"unused", "gone", "user", "stub"}]
    BY <1>1 DEF Objects, TypeOK
  <2>2. CASE out = "ok"
    BY <1>1, <1>3, <2>2
  <2>3. CASE out = "refused"
    <3>1. core' = [core EXCEPT ![o] = core[o]]
      BY <1>3, <2>1, <2>3
    <3> QED
      BY <2>1, <2>3, <3>1
  <2>4. CASE out = "lost"
    BY <1>3, <2>4
  <2> QED
    BY <2>2, <2>3, <2>4
<1>5. /\ core' \in [Objects -> Snapshots \cup {"unused", "gone", "user", "stub"}]
      /\ \A j \in Items \ {i}, c \in Copies : core'[<<j, c>>] = core[<<j, c>>]
      /\ \A c \in Copies \ {copy} : core'[<<i, c>>] = core[<<i, c>>]
      /\ core'[o] = x
  BY <1>1, <1>4 DEF TypeOK, Objects
<1>6. orphans' \subseteq Objects
  BY <1>1, <1>3 DEF TypeOK, Objects
<1>7. Touches(i)
  <2>1. CASE maps
    <3>1. \A c \in Copies : mapping[i] = c => copy = c
      BY <1>2, ApplyAssumption
    <3>2. mapping' = [mapping EXCEPT ![i] = copy] /\ UNCHANGED <<proxies, diskVars, lastHash>>
      BY <1>3, <2>1
    <3>3. Kind[i] # "resource" /\ orphans \ {o} \subseteq orphans'
      BY <1>3, <2>1
    <3> QED
      BY <1>5, <1>6, <3>1, <3>2, <3>3, NewMappingTouches
  <2>2. CASE ~maps
    <3>1. \A c \in Copies : Solid(i, c)' => Solid(i, c)
      BY <1>4, <1>5, <2>2, ApplyAssumption DEF Solid, Present
    <3>2. UNCHANGED <<mapping, proxies, diskVars, lastHash>>
      BY <1>3, <2>2
    <3>3. /\ orphans \ {o} \subseteq orphans'
          /\ mapping[i] # copy => orphans \subseteq orphans'
          /\ out = "lost" /\ mapping[i] # copy => o \in orphans'
      BY <1>3, <2>2
    <3>4. ASSUME NEW c \in Copies, Synced(core[<<i, c>>])'
          PROVE  mapping[i] = c \/ <<i, c>> \in orphans'
      <4>1. CASE c # copy
        <5>1. Synced(core[<<i, c>>])
          BY <1>5, <3>4, <4>1 DEF Synced
        <5> QED
          BY <3>3, <4>1, <5>1, StillTracked
      <4>2. CASE c = copy /\ mapping[i] # copy
        <5>1. CASE out = "lost"
          BY <3>3, <4>2, <5>1
        <5>2. CASE out = "refused"
          <6>1. Synced(core[<<i, c>>])
            BY <1>4, <1>5, <3>4, <4>2, <5>2 DEF Synced
          <6> QED
            BY <3>3, <4>2, <6>1, StillTracked
        <5> QED
          BY <2>2, <5>1, <5>2
      <4>3. CASE c = copy /\ mapping[i] = copy
        BY <4>3
      <4> QED
        BY <4>1, <4>2, <4>3
    <3> QED
      BY <1>5, <1>6, <3>1, <3>2, <3>3, <3>4, SameMappingTouches
  <2> QED
    BY <2>1, <2>2
<1>8. ~Staged(Kind[i]) /\ i \notin job.staged
  BY DEF Staged, ApplyInv, ApplicationInv
<1>9. CASE out = "ok"
  <2>1. mapping'[i] = copy /\ copy # None
    BY <1>1, <1>3, <1>9, ApplyAssumption DEF TypeOK
  <2>2. Found(i)' /\ core'[<<i, mapping'[i]>>] = job.snap
    BY <1>1, <1>4, <1>5, <1>9, <2>1, ApplyAssumption DEF Found, Present
  <2>3. Done(i)
    BY <1>3, <1>9
  <2>4. Advances(i)
    BY <1>1, <1>3, <1>8, <2>2, <2>3, DoneFields
       DEF Advances, Written, Found, ApplyInv, ApplicationInv
  <2> QED
    BY <1>7, <2>4
<1>10. CASE out # "ok"
  BY <1>3, <1>7, <1>8, <1>10, FailedFields DEF Advances, ApplyInv, ApplicationInv
<1> QED
  BY <1>9, <1>10

\* Docks are applied in the phase that completes them.
LEMMA DockStep ==
    ASSUME ApplyInv, NEW i \in Items, ApplyDock(i)
    PROVE  Touches(i) /\ Advances(i)
<1>1. job \in Application /\ Current(i) /\ Phases[job.phase].step = "named" /\ Kind[i] = "dock"
  BY DoingApplication DEF ApplyDock, ApplyInv
<1>2. job.phase = LastPhase(Kind[i])
  BY <1>1, CurrentItem, PhaseTable DEF LastPhase
<1>3. PICK out \in {"ok", "refused", "lost"} : Writes(i, out, out = "ok")
  BY DEF ApplyDock
<1>4. PICK maps \in BOOLEAN : maps = (out = "ok")
  OBVIOUS
<1>5. Writes(i, out, maps)
  BY <1>3, <1>4
<1> QED
  BY <1>1, <1>2, <1>4, <1>5, WritesStep

\* Profiles are applied in the phase that completes them.
LEMMA ProfileStep ==
    ASSUME ApplyInv, NEW i \in Items, ApplyProfile(i)
    PROVE  Touches(i) /\ Advances(i)
<1>1. job \in Application /\ Current(i) /\ Phases[job.phase].step = "named" /\ Kind[i] = "profile"
  BY DoingApplication DEF ApplyProfile, ApplyInv
<1>2. job.phase = LastPhase(Kind[i])
  BY <1>1, CurrentItem, PhaseTable DEF LastPhase
<1>3. ASSUME NEW out \in {"ok", "refused", "lost"},
             NEW maps \in {out = "ok", out # "refused"}, Writes(i, out, maps)
      PROVE  Touches(i) /\ Advances(i)
  <2>1. maps \in BOOLEAN /\ (out = "ok" => maps) /\ (out = "refused" => ~maps)
    BY <1>3
  <2> QED
    BY <1>1, <1>2, <1>3, <2>1, WritesStep
<1>4. CASE WritesPart(i, IF mapping[i] = None THEN 0 ELSE mapping[i])
  <2>1. mapping[i] \in Copies \cup {None} /\ None \notin Copies /\ 0 \in Copies
    BY ApplyAssumption DEF ApplyInv, TypeOK, Copies
  <2>2. PICK copy \in Copies : copy = IF mapping[i] = None THEN 0 ELSE mapping[i]
    BY <2>1
  <2>3. /\ WritesPart(i, copy) /\ ~Staged(Kind[i]) /\ Kind[i] # "resource"
        /\ \A c \in Copies : mapping[i] = c /\ Present(<<i, c>>) => copy = c
    BY <1>1, <1>4, <2>1, <2>2 DEF Staged
  <2> QED
    BY <1>1, <1>2, <2>3, PartStep
<1> QED
  BY <1>3, <1>4 DEF ApplyProfile

\* The copy an item settles on is the mapped one as long as that exists.
LEMMA TargetType ==
    ASSUME TypeOK, NEW i \in Items, NEW c \in Target(i)
    PROVE  /\ c \in Copies /\ (mapping[i] # None /\ Present(<<i, mapping[i]>>) => c = mapping[i])
           /\ \A d \in Copies : mapping[i] = d /\ Present(<<i, d>>) => c = d
<1>1. mapping[i] \in Copies \cup {None} /\ 0 \in Copies /\ None \notin Copies
  BY ApplyAssumption DEF TypeOK, Copies
<1>2. CASE mapping[i] # None /\ Present(<<i, mapping[i]>>)
  BY <1>1, <1>2 DEF Target
<1>3. CASE ~(mapping[i] # None /\ Present(<<i, mapping[i]>>))
  <2>1. c \in Copies
    BY <1>1, <1>3 DEF Target
  <2>2. \A d \in Copies : mapping[i] = d => ~Present(<<i, d>>)
    BY <1>1, <1>3
  <2> QED
    BY <1>3, <2>1, <2>2
<1> QED
  BY <1>2, <1>3

\* An item is looked up or created; an application may stop here.
LEMMA StageStep ==
    ASSUME ApplyInv, NEW i \in Items, Stage(i)
    PROVE  \/ Touches(i) /\ Advances(i)
           \/ Thrown(FALSE) /\ UNCHANGED <<core, mapping, orphans, diskVars, lastHash, proxies>>
<1>1. /\ job \in Application /\ i \in job.todo /\ i \in Carries[job.snap] /\ TypeOK
      /\ job.snap \in Snapshots /\ job.phase \in {4, 5} /\ Staged(Kind[i])
      /\ job.phase = StagePhase(Kind[i]) /\ job.phase < LastPhase(Kind[i])
      /\ Kind[i] # "resource"
  BY DoingApplication, CurrentItem, PhaseTable
     DEF Stage, ApplyInv, StagePhase, LastPhase, Staged
<1>2. ASSUME NEW c \in Target(i), NEW out \in {"ok", "lost"},
             out = "lost" => ~Present(<<i, c>>),
             core' = [core EXCEPT ![<<i, c>>] = IF Present(<<i, c>>) THEN @ ELSE "stub"],
             IF out = "ok"
             THEN /\ mapping' = [mapping EXCEPT ![i] = c]
                  /\ job' = [job EXCEPT !.todo = @ \ {i}, !.staged = @ \cup {i}]
                  /\ orphans' = orphans \ {<<i, c>>}
             ELSE Failed(i) /\ orphans' = orphans \cup {<<i, c>>} /\ UNCHANGED mapping,
             UNCHANGED <<proxies, diskVars, lastHash, answer>>
      PROVE  Touches(i) /\ Advances(i)
  <2>1. /\ c \in Copies /\ <<i, c>> \in Objects
        /\ \A d \in Copies : mapping[i] = d /\ Present(<<i, d>>) => c = d
    BY <1>1, TargetType DEF Objects
  <2>2. /\ core' \in [Objects -> Snapshots \cup {"unused", "gone", "user", "stub"}]
        /\ \A j \in Items \ {i}, d \in Copies : core'[<<j, d>>] = core[<<j, d>>]
        /\ \A d \in Copies \ {c} : core'[<<i, d>>] = core[<<i, d>>]
        /\ core'[<<i, c>>] = IF Present(<<i, c>>) THEN core[<<i, c>>] ELSE "stub"
    BY <1>1, <1>2, <2>1 DEF TypeOK, Objects
  <2>3. orphans' \subseteq Objects /\ orphans \ {<<i, c>>} \subseteq orphans'
    BY <1>1, <1>2, <2>1 DEF TypeOK
  <2>4. Present(<<i, c>>)'
    BY <2>2 DEF Present
  <2>5. CASE out = "ok"
    <3>1. mapping' = [mapping EXCEPT ![i] = c] /\ mapping'[i] = c
      BY <1>1, <1>2, <2>5 DEF TypeOK
    <3>2. Touches(i)
      BY <1>1, <1>2, <2>1, <2>2, <2>3, <3>1, NewMappingTouches
    <3>3. Found(i)'
      BY <2>1, <2>4, <3>1, ApplyAssumption DEF Found, Present
    <3>4. job' = [job EXCEPT !.todo = @ \ {i}, !.staged = @ \cup {i}]
      BY <1>2, <2>5
    <3>5. /\ job' \in Application /\ job'.todo = job.todo \ {i}
          /\ job'.snap = job.snap /\ job'.phase = job.phase
          /\ job'.obsolete = job.obsolete /\ job'.staged = job.staged \cup {i}
          /\ job'.errors = job.errors /\ job'.broken = job.broken /\ job'.spared = job.spared
      BY <1>1, <3>4 DEF Application
    <3> QED
      BY <1>1, <1>2, <3>2, <3>3, <3>5 DEF Advances, ApplyInv, ApplicationInv
  <2>6. CASE out = "lost"
    <3>1. ~Present(<<i, c>>) /\ Failed(i) /\ UNCHANGED mapping
      BY <1>2, <2>6
    <3>2. \A d \in Copies : Solid(i, d)' => Solid(i, d)
      BY <1>1, <2>2, <3>1, ApplyAssumption DEF Solid
    <3>3. Touches(i)
      <4>1. orphans' = orphans \cup {<<i, c>>} /\ UNCHANGED <<proxies, diskVars, lastHash>>
        BY <1>2, <2>6
      <4>2. ASSUME NEW d \in Copies, Synced(core[<<i, d>>])'
            PROVE  mapping[i] = d \/ <<i, d>> \in orphans'
        BY <2>2, <4>1, <4>2, StillTracked DEF Synced
      <4> QED
        BY <2>2, <2>3, <3>1, <3>2, <4>1, <4>2, SameMappingTouches
    <3>4. Found(i) => Found(i)'
      BY <1>1, <2>2, <3>1 DEF Found, Present, TypeOK
    <3>5. Advances(i)
      BY <1>1, <1>2, <3>1, <3>4, FailureAdvances
    <3> QED
      BY <3>3, <3>5
  <2> QED
    BY <2>5, <2>6
<1>3. CASE Failed(i) /\ UNCHANGED <<core, mapping, orphans, answer, proxies, diskVars, lastHash>>
  BY <1>1, <1>3, FailureAdvances, QuietTouches DEF Found, Present, TypeOK
<1> QED
  BY <1>2, <1>3 DEF Stage

\* Only what was staged is written.
LEMMA FinishStep ==
    ASSUME ApplyInv, NEW i \in Items, Finish(i)
    PROVE  Touches(i) /\ Advances(i)
<1>1. /\ job \in Application /\ i \in job.todo /\ i \in Carries[job.snap] /\ TypeOK
      /\ job.snap \in Snapshots /\ job.phase \in {6, 7} /\ Staged(Kind[i])
      /\ job.phase > StagePhase(Kind[i]) /\ job.phase = LastPhase(Kind[i])
      /\ Kind[i] # "resource"
  BY DoingApplication, CurrentItem, PhaseTable
     DEF Finish, ApplyInv, StagePhase, LastPhase, Staged
<1>2. UNCHANGED <<proxies, orphans, diskVars, mapping, lastHash, answer>>
  BY DEF Finish
<1>3. ASSUME i \notin job.staged, Done(i), UNCHANGED core PROVE Touches(i) /\ Advances(i)
  <2>1. job.errors
    BY <1>1, <1>3 DEF ApplyInv, ApplicationInv, Progress, Passed
  <2>2. Touches(i)
    BY <1>1, <1>2, <1>3, QuietTouches DEF TypeOK
  <2> QED
    BY <1>1, <1>2, <1>3, <2>1, <2>2, DoneFields DEF Advances, ApplyInv, ApplicationInv
<1>4. ASSUME i \in job.staged,
             NEW x \in Snapshots \cup {"unused", "gone", "user", "stub"},
             core' = [core EXCEPT ![<<i, mapping[i]>>] = x], x \notin {"unused", "gone"}
      PROVE  Touches(i) /\ Found(i)' /\ core'[<<i, mapping'[i]>>] = x
  <2>1. Found(i) /\ mapping[i] \in Copies /\ mapping'[i] = mapping[i]
    BY <1>1, <1>2, <1>4 DEF ApplyInv, ApplicationInv, Found, TypeOK
  <2>2. /\ core' \in [Objects -> Snapshots \cup {"unused", "gone", "user", "stub"}]
        /\ \A j \in Items \ {i}, d \in Copies : core'[<<j, d>>] = core[<<j, d>>]
        /\ \A d \in Copies \ {mapping[i]} : core'[<<i, d>>] = core[<<i, d>>]
        /\ core'[<<i, mapping[i]>>] = x
    BY <1>1, <1>4, <2>1 DEF TypeOK, Objects
  <2>3. mapping' = [mapping EXCEPT ![i] = mapping[i]]
    BY <1>1, <1>2 DEF TypeOK
  <2>4. orphans' \subseteq Objects /\ orphans \ {<<i, mapping[i]>>} \subseteq orphans'
    BY <1>1, <1>2 DEF TypeOK
  <2>5. Touches(i)
    BY <1>1, <1>2, <2>1, <2>2, <2>3, <2>4, NewMappingTouches
  <2>6. Found(i)'
    BY <1>4, <2>1, <2>2, ApplyAssumption DEF Found, Present
  <2>7. core'[<<i, mapping'[i]>>] = x
    BY <2>1, <2>2
  <2> QED
    BY <2>5, <2>6, <2>7
<1>5. CASE i \in job.staged /\ core' = [core EXCEPT ![<<i, mapping[i]>>] = job.snap] /\ Done(i)
  <2>1. job.snap \notin {"unused", "gone"}
    BY <1>1, ApplyAssumption
  <2>2. Touches(i) /\ Found(i)' /\ core'[<<i, mapping'[i]>>] = job.snap
    BY <1>1, <1>4, <1>5, <2>1
  <2>3. job'.snap = job.snap
    BY <1>1, <1>5, DoneFields
  <2>4. Written(i, job.snap)'
    BY <2>2, <2>3 DEF Written, Found
  <2> QED
    BY <1>1, <1>2, <1>5, <2>2, <2>4, DoneFields DEF Advances, ApplyInv, ApplicationInv
<1>6. CASE i \in job.staged /\ core' = [core EXCEPT ![<<i, mapping[i]>>] = "stub"] /\ Spared(i)
  <2>0. /\ "stub" \in Snapshots \cup {"unused", "gone", "user", "stub"}
        /\ "stub" \notin {"unused", "gone"}
    OBVIOUS
  <2>1. Touches(i) /\ Found(i)'
    BY <1>4, <1>6, <2>0
  <2> QED
    BY <1>1, <1>2, <1>6, <2>1, SparedAdvances
<1>7. ASSUME i \in job.staged, NEW content \in {core[<<i, mapping[i]>>], "stub", job.snap},
             core' = [core EXCEPT ![<<i, mapping[i]>>] = content], Failed(i)
      PROVE  Touches(i) /\ Advances(i)
  <2>1. /\ content \in Snapshots \cup {"unused", "gone", "user", "stub"}
        /\ content \notin {"unused", "gone"}
    <3>1. Found(i) /\ <<i, mapping[i]>> \in Objects
      BY <1>1, <1>7 DEF ApplyInv, ApplicationInv, Found, TypeOK, Objects
    <3>2. core[<<i, mapping[i]>>] \in Snapshots \cup {"unused", "gone", "user", "stub"}
      BY <1>1, <3>1 DEF TypeOK
    <3> QED
      BY <1>1, <1>7, <3>1, <3>2, ApplyAssumption DEF Found, Present
  <2>2. Touches(i) /\ Found(i)'
    BY <1>4, <1>7, <2>1
  <2> QED
    BY <1>1, <1>2, <1>7, <2>2, FailureAdvances
<1> QED
  BY <1>3, <1>5, <1>6, <1>7 DEF Finish

\* A group is written before it is mapped.
LEMMA GroupStep ==
    ASSUME ApplyInv, NEW i \in Items, ApplyGroup(i)
    PROVE  Touches(i) /\ Advances(i)
<1>1. /\ job \in Application /\ i \in job.todo /\ i \in Carries[job.snap] /\ TypeOK
      /\ job.snap \in Snapshots /\ job.phase = 8 /\ ~Staged(Kind[i])
      /\ job.phase = LastPhase(Kind[i]) /\ Kind[i] # "resource" /\ i \notin job.staged
  BY DoingApplication, CurrentItem, PhaseTable
     DEF ApplyGroup, ApplyInv, ApplicationInv, LastPhase, Staged
<1>2. UNCHANGED <<proxies, diskVars, lastHash, answer>>
  BY DEF ApplyGroup, coreVars, WritesPart
<1>3. ASSUME NEW c \in Target(i), NEW out \in {"ok", "lost"},
             core' = [core EXCEPT ![<<i, c>>] = IF out = "ok" THEN job.snap ELSE "stub"],
             IF out = "ok"
             THEN /\ mapping' = [mapping EXCEPT ![i] = c]
                  /\ Done(i) /\ orphans' = orphans \ {<<i, c>>}
             ELSE /\ Failed(i) /\ UNCHANGED mapping
                  /\ orphans' = IF mapping[i] = c THEN orphans ELSE orphans \cup {<<i, c>>}
      PROVE  Touches(i) /\ Advances(i)
  <2>1. /\ c \in Copies /\ <<i, c>> \in Objects
        /\ \A d \in Copies : mapping[i] = d /\ Present(<<i, d>>) => c = d
    BY <1>1, TargetType DEF Objects
  <2>2. /\ core' \in [Objects -> Snapshots \cup {"unused", "gone", "user", "stub"}]
        /\ \A j \in Items \ {i}, d \in Copies : core'[<<j, d>>] = core[<<j, d>>]
        /\ \A d \in Copies \ {c} : core'[<<i, d>>] = core[<<i, d>>]
        /\ core'[<<i, c>>] = IF out = "ok" THEN job.snap ELSE "stub"
    BY <1>1, <1>3, <2>1 DEF TypeOK, Objects
  <2>3. orphans' \subseteq Objects /\ orphans \ {<<i, c>>} \subseteq orphans'
    BY <1>1, <1>3, <2>1 DEF TypeOK
  <2>4. CASE out = "ok"
    <3>1. mapping' = [mapping EXCEPT ![i] = c] /\ mapping'[i] = c /\ Done(i)
      BY <1>1, <1>3, <2>4 DEF TypeOK
    <3>2. Touches(i)
      BY <1>1, <1>2, <2>1, <2>2, <2>3, <3>1, NewMappingTouches
    <3>0. /\ job'.snap = job.snap /\ c # None /\ mapping'[i] = c
          /\ core'[<<i, c>>] = job.snap /\ job.snap \notin {"unused", "gone"}
      BY <1>1, <2>1, <2>2, <2>4, <3>1, DoneFields, ApplyAssumption
    <3>3. Written(i, job.snap)'
      BY <3>0 DEF Written, Found, Present
    <3> QED
      BY <1>1, <1>2, <3>1, <3>2, <3>3, DoneFields DEF Advances, ApplyInv, ApplicationInv
  <2>5. CASE out = "lost"
    <3>1. Failed(i) /\ UNCHANGED mapping
      BY <1>3, <2>5
    <3>2. \A d \in Copies : Solid(i, d)' => Solid(i, d)
      BY <1>1, <2>2, <2>5, ApplyAssumption DEF Solid
    <3>3. Touches(i)
      <4>1. orphans' = IF mapping[i] = c THEN orphans ELSE orphans \cup {<<i, c>>}
        BY <1>3, <2>5
      <4>2. ASSUME NEW d \in Copies, Synced(core[<<i, d>>])'
            PROVE  mapping[i] = d \/ <<i, d>> \in orphans'
        BY <2>2, <4>1, <4>2, StillTracked DEF Synced
      <4> QED
        BY <1>2, <2>2, <2>3, <3>1, <3>2, <4>1, <4>2, SameMappingTouches
    <3> QED
      BY <1>1, <1>2, <3>1, <3>3, FailedFields DEF Advances, ApplyInv, ApplicationInv
  <2> QED
    BY <2>4, <2>5
<1>4. ASSUME Failed(i), UNCHANGED <<core, mapping, orphans>> PROVE Touches(i) /\ Advances(i)
  BY <1>1, <1>2, <1>4, FailureAdvances, QuietTouches DEF Found, Present, TypeOK
<1>5. ASSUME NEW c \in Target(i), WritesPart(i, c) PROVE Touches(i) /\ Advances(i)
  <2>1. c \in Copies /\ \A d \in Copies : mapping[i] = d /\ Present(<<i, d>>) => c = d
    BY <1>1, TargetType
  <2> QED
    BY <1>1, <1>5, <2>1, PartStep
<1> QED
  BY <1>3, <1>4, <1>5 DEF ApplyGroup, coreVars

\* Deleting an item: its mapping goes only with the object.
LEMMA DeletesTouches ==
    ASSUME ApplyInv, NEW i \in Items, Deletes(i),
           UNCHANGED <<proxies, orphans, diskVars, lastHash>>
    PROVE  Touches(i)
<1>1. /\ TypeOK /\ mapping[i] \in Copies \cup {None} /\ None \notin Copies
      /\ core \in [Objects -> Snapshots \cup {"unused", "gone", "user", "stub"}]
  BY ApplyAssumption DEF ApplyInv, TypeOK
<1>2. CASE UNCHANGED <<core, mapping>>
  BY <1>1, <1>2, QuietTouches DEF TypeOK
<1>3. ASSUME NEW out \in {"ok", "refused", "lost"},
             core' = IF out = "refused" \/ ~Present(<<i, mapping[i]>>) THEN core
                     ELSE [core EXCEPT ![<<i, mapping[i]>>] = "gone"],
             mapping' = IF Forgets(out) THEN [mapping EXCEPT ![i] = None] ELSE mapping
      PROVE  Touches(i)
  <2>1. /\ core' \in [Objects -> Snapshots \cup {"unused", "gone", "user", "stub"}]
        /\ \A j \in Items \ {i}, c \in Copies : core'[<<j, c>>] = core[<<j, c>>]
        /\ \A c \in Copies : core'[<<i, c>>] \in {core[<<i, c>>], "gone"}
    BY <1>1, <1>3 DEF Objects
  <2>2. \A c \in Copies : Solid(i, c)' => Solid(i, c)
    BY <2>1, ApplyAssumption DEF Solid, Present
  <2>3. CASE out # "ok"
    BY <1>3, <2>1, <2>3, QuietTouches DEF Forgets
  <2>4. CASE out = "ok"
    <3>1. /\ mapping' = [mapping EXCEPT ![i] = None]
          /\ core' = IF Present(<<i, mapping[i]>>)
                     THEN [core EXCEPT ![<<i, mapping[i]>>] = "gone"] ELSE core
      BY <1>3, <2>4 DEF Forgets
    <3>2. /\ mapping' \in [Items -> Copies \cup {None}] /\ mapping'[i] = None
          /\ \A j \in Items \ {i} : mapping'[j] = mapping[j]
      BY <3>1 DEF ApplyInv, TypeOK
    <3>3. ASSUME NEW c \in Copies, disk[i] = c, Solid(i, c)' PROVE FALSE
      <4>1. mapping[i] = c
        BY <2>2, <3>3 DEF ApplyInv, DiskKept
      <4>2. Present(<<i, c>>)
        BY <2>2, <3>3, ApplyAssumption DEF Solid, Present
      <4>3. core'[<<i, c>>] = "gone"
        BY <1>1, <3>1, <4>1, <4>2 DEF Objects
      <4> QED
        BY <3>3, <4>3, ApplyAssumption DEF Solid, Present
    <3>4. ASSUME NEW c \in Copies, Synced(core[<<i, c>>])' PROVE <<i, c>> \in orphans'
      <4>1. Synced(core[<<i, c>>])
        BY <2>1, <3>4, ApplyAssumption DEF Synced
      <4>2. CASE mapping[i] = c
        <5>1. core'[<<i, c>>] = "gone"
          BY <1>1, <3>1, <4>1, <4>2, StillTracked DEF Objects
        <5> QED
          BY <3>4, <5>1, ApplyAssumption DEF Synced
      <4>3. CASE mapping[i] # c
        BY <4>1, <4>3, StillTracked
      <4> QED
        BY <4>2, <4>3
    <3> QED
      BY <1>1, <2>1, <3>2, <3>3, <3>4 DEF Touches, TypeOK
  <2> QED
    BY <2>3, <2>4
<1> QED
  BY <1>2, <1>3 DEF Deletes

\* What is pruned belongs to no item of the snapshot.
LEMMA PruneStep ==
    ASSUME ApplyInv, NEW i \in Items, PruneItem(i)
    PROVE  Touches(i) /\ Advances(i)
<1>1. job \in Application /\ i \notin Carries[job.snap] /\ i \notin job.staged
  BY JobKinds DEF PruneItem, ApplyInv, ApplicationInv
<1>2. Touches(i)
  BY DeletesTouches DEF PruneItem
<1> QED
  BY <1>1, <1>2, DoneFields DEF PruneItem, Advances, ApplyInv, ApplicationInv

\* A removal works on one item, mapped or not.
LEMMA PurgeStep ==
    ASSUME ApplyInv, NEW i \in Items, PurgeItem(i)
    PROVE  /\ Touches(i) /\ job \in RemovalJob /\ job' \in RemovalJob
           /\ UNCHANGED answer
<1>1. job \in RemovalJob /\ UNCHANGED <<proxies, orphans, diskVars, lastHash, answer>>
  BY JobKinds DEF PurgeItem, Purging, ApplyInv
<1>2. job' \in RemovalJob
  BY <1>1 DEF PurgeItem, Done, RemovalJob
<1>3. CASE mapping[i] # None
  BY <1>1, <1>2, <1>3, DeletesTouches DEF PurgeItem
<1>4. CASE mapping[i] = None
  <2>1. PICK out \in {"ok", "refused"} :
            core' = IF out = "ok" /\ Present(<<i, 0>>)
                    THEN [core EXCEPT ![<<i, 0>>] = "gone"] ELSE core
    BY <1>4 DEF PurgeItem
  <2>2. UNCHANGED mapping
    BY <1>4 DEF PurgeItem
  <2>3. /\ core' \in [Objects -> Snapshots \cup {"unused", "gone", "user", "stub"}]
        /\ \A j \in Items \ {i}, c \in Copies : core'[<<j, c>>] = core[<<j, c>>]
        /\ \A c \in Copies : core'[<<i, c>>] \in {core[<<i, c>>], "gone"}
    BY <2>1 DEF ApplyInv, TypeOK, Objects
  <2>5. Touches(i)
    BY <1>1, <2>2, <2>3, QuietTouches
  <2> QED
    BY <1>1, <1>2, <2>5
<1> QED
  BY <1>3, <1>4

-----------------------------------------------------------------------------
(* The other steps of a job.                                               *)

\* Where no application is under way, only the types and the saved mappings
\* are left to keep.
LEMMA IdleKeeps ==
    ASSUME TypeOK', DiskKept', Tracked', job' \in RemovalJob \cup {None}
    PROVE  ApplyInv'
BY ApplyAssumption DEF ApplyInv, ApplicationInv, TypeOK, Application, RemovalJob

\* Where objects and mappings stay, what is said of them stays.
LEMMA SameObjects ==
    ASSUME DiskKept, Tracked, UNCHANGED <<core, mapping, disk, orphans>>
    PROVE  DiskKept' /\ Tracked'
BY DEF DiskKept, Tracked, Synced, Solid, Present

\* Every item of a snapshot is among the records of the phases made for it.
LEMMA RecordsComplete ==
    ASSUME TypeOK, job \in Application, NEW i \in Carries[job.snap]
    PROVE  /\ i \in Items /\ i \in Records(job.snap, LastPhase(Kind[i]))
           /\ Staged(Kind[i]) => i \in Records(job.snap, StagePhase(Kind[i]))
           /\ LastPhase(Kind[i]) \in 2..9 /\ StagePhase(Kind[i]) \in 4..5
<1>1. i \in Items /\ Kind[i] \in Kinds
  BY ApplyAssumption DEF Application
<1>2. /\ LastPhase(Kind[i]) \in 2..9 /\ StagePhase(Kind[i]) \in 4..5
      /\ Phases[LastPhase(Kind[i])].kind = Kind[i]
      /\ Staged(Kind[i]) => Phases[StagePhase(Kind[i])].kind = Kind[i]
  BY <1>1, PhaseTable DEF Kinds, LastPhase, StagePhase, Staged
<1> QED
  BY <1>1, <1>2 DEF Records

\* The next phase of an application.
LEMMA NextPhase ==
    ASSUME ApplyInv, job \in Application, NEW next \in 2..11,
           job' = [job EXCEPT !.phase = next, !.todo = Records(job.snap, next)],
           ~job.errors => next = job.phase + 1 /\ (job.phase = 1 \/ job.todo = {}),
           next > 1 => Catalogued(catalog) \subseteq proxies',
           proxies' \subseteq ProxyIds,
           UNCHANGED <<core, orphans, diskVars, mapping, lastHash>>
    PROVE  ApplyInv' /\ job' \in Application /\ job'.snap = job.snap /\ job'.spared = job.spared
<1>1. Records(job.snap, next) \subseteq Items /\ TypeOK
  BY DEF Records, ApplyInv
<1>2. /\ job' \in Application /\ job'.todo = Records(job.snap, next)
      /\ job'.snap = job.snap /\ job'.phase = next
      /\ job'.obsolete = job.obsolete /\ job'.staged = job.staged
      /\ job'.errors = job.errors /\ job'.broken = job.broken /\ job'.spared = job.spared
  <2>1. PICK todo \in SUBSET Items : todo = Records(job.snap, next)
    BY <1>1
  <2>2. job' = [job EXCEPT !.phase = next, !.todo = todo]
    BY <2>1
  <2>3. next \in 1..11
    OBVIOUS
  <2> QED
    BY <2>1, <2>2, <2>3 DEF Application
<1>3. TypeOK' /\ DiskKept' /\ Tracked'
  BY <1>2, SameObjects DEF ApplyInv, TypeOK, diskVars
<1>4. \A i \in job'.todo : Kind[i] = Phases[job'.phase].kind
  BY <1>2 DEF Records
<1>5. \A i \in job'.staged : i \in Carries[job'.snap] /\ Staged(Kind[i]) /\ Found(i)'
  BY <1>2 DEF ApplyInv, ApplicationInv, Found, Present
<1>6. ASSUME ~job'.errors PROVE Progress'
  <2>0. PICK s \in Snapshots : s = job.snap /\ s = job'.snap
    BY <1>1, <1>2, JobKinds
  <2> SUFFICES ASSUME NEW i \in Carries[s]
               PROVE  /\ Staged(Kind[i]) /\ Passed(i, StagePhase(Kind[i]))' => i \in job'.staged
                      /\ Passed(i, LastPhase(Kind[i]))' => Written(i, s)' \/ i \in job'.spared
    BY <2>0 DEF Progress, Written, Found
  <2>1. /\ i \in Items /\ i \in Records(job.snap, LastPhase(Kind[i]))
        /\ Staged(Kind[i]) => i \in Records(job.snap, StagePhase(Kind[i]))
        /\ LastPhase(Kind[i]) \in 2..9 /\ StagePhase(Kind[i]) \in 4..5
    BY <1>1, <2>0, RecordsComplete
  <2>2. /\ Staged(Kind[i]) /\ Passed(i, StagePhase(Kind[i])) => i \in job.staged
        /\ Passed(i, LastPhase(Kind[i])) => Written(i, s) \/ i \in job.spared
    BY <1>2, <1>6, <2>0 DEF ApplyInv, ApplicationInv, Progress
  <2>3. next = job.phase + 1 /\ (job.phase = 1 \/ job.todo = {}) /\ job.phase \in 1..11
    BY <1>2, <1>6 DEF Application
  <2>4. Staged(Kind[i]) /\ Passed(i, StagePhase(Kind[i]))' => Passed(i, StagePhase(Kind[i]))
    BY <1>2, <2>1, <2>3 DEF Passed
  <2>5. Passed(i, LastPhase(Kind[i]))' => Passed(i, LastPhase(Kind[i]))
    BY <1>2, <2>1, <2>3 DEF Passed
  <2>6. Written(i, s) => Written(i, s)'
    BY DEF Written, Found, Present
  <2> QED
    BY <1>2, <2>2, <2>4, <2>5, <2>6
<1>7. /\ job'.obsolete \cap Catalogued(catalog') = {} /\ CatalogFits'
      /\ Catalogued(catalog') \subseteq proxies'
  BY <1>2 DEF ApplyInv, ApplicationInv, CatalogFits, Catalogued, diskVars
<1> QED
  BY <1>2, <1>3, <1>4, <1>5, <1>6, <1>7 DEF ApplyInv, ApplicationInv, Catalogued

\* Proceed goes to the next phase, or past those that a broken graph skips.
LEMMA ProceedKeeps ==
    ASSUME ApplyInv, Proceed
    PROVE  /\ ApplyInv' /\ job \in Application /\ job' \in Application
           /\ job'.snap = job.snap /\ job'.spared = job.spared
<1> DEFINE next == IF job.phase + 1 = FirstDependent /\ job.broken
                   THEN ObsoletePhase ELSE job.phase + 1
<1>1. job \in Application /\ TypeOK /\ job.todo = {}
  BY JobKinds DEF Proceed, ApplyInv
<1>2. job.phase \in 2..9
  BY <1>1, PhaseTable DEF Proceed, Application
<1>3. next \in 2..11 /\ (~job.errors => next = job.phase + 1)
  BY <1>1, <1>2 DEF ApplyInv, ApplicationInv, FirstDependent, ObsoletePhase
<1>4. job' = [job EXCEPT !.phase = next, !.todo = Records(job.snap, next)]
  BY DEF Proceed
<1>5. Catalogued(catalog) \subseteq proxies /\ proxies \subseteq ProxyIds
  BY <1>1, <1>2 DEF ApplyInv, ApplicationInv, TypeOK
<1>6. UNCHANGED <<core, proxies, orphans, diskVars, mapping, lastHash>>
  BY DEF Proceed, coreVars
<1> HIDE DEF next
<1> QED
  BY <1>1, <1>3, <1>4, <1>5, <1>6, NextPhase

\* The proxies are there when the items follow; otherwise an error is thrown.
LEMMA ProxiesKeep ==
    ASSUME ApplyInv, ApplyProxies
    PROVE  /\ ApplyInv' /\ job \in Application /\ UNCHANGED operations
           /\ \/ /\ job' \in Application /\ UNCHANGED answer
                 /\ job'.snap = job.snap /\ job'.spared = job.spared
              \/ \E recorded \in BOOLEAN : Thrown(recorded)
<1>1. job \in Application /\ TypeOK /\ job.phase = 1
  BY DoingApplication, PhaseTable DEF ApplyProxies, ApplyInv, Application
<1>2. PICK out \in {"ok", "refused", "lost"} :
        /\ proxies' = IF out = "refused" THEN proxies ELSE proxies \cup Catalogued(catalog)
        /\ IF out = "ok"
           THEN /\ job' = [job EXCEPT !.phase = 2, !.todo = Records(job.snap, 2)]
                /\ UNCHANGED answer
           ELSE \E recorded \in BOOLEAN : Thrown(recorded)
  BY DEF ApplyProxies
<1>3. proxies \subseteq proxies' /\ proxies' \subseteq ProxyIds
  BY <1>1, <1>2, CataloguedType DEF TypeOK
<1>4. UNCHANGED <<core, orphans, diskVars, mapping, lastHash, operations>>
  BY DEF ApplyProxies, diskVars
<1>5. CASE out = "ok"
  BY <1>1, <1>2, <1>3, <1>4, <1>5, NextPhase
<1>6. CASE out # "ok"
  BY <1>1, <1>2, <1>3, <1>4, <1>6, ThrownKeeps
<1> QED
  BY <1>5, <1>6

\* Only proxies that no entity of the catalog has are removed.
LEMMA PruneProxiesKeeps ==
    ASSUME ApplyInv, PruneProxies
    PROVE  /\ ApplyInv' /\ job \in Application /\ job' \in Application
           /\ job'.snap = job.snap /\ job'.spared = job.spared
<1>1. job \in Application /\ TypeOK /\ job.phase = 10 /\ job.snap \in Snapshots
  BY DoingApplication, PhaseTable, JobKinds DEF PruneProxies, ApplyInv, Application
<1>2. /\ job' \in Application /\ job'.todo = job.todo
      /\ job'.snap = job.snap /\ job'.phase = 11
      /\ job'.obsolete = job.obsolete /\ job'.staged = job.staged
      /\ job'.errors = job.errors /\ job'.broken = job.broken /\ job'.spared = job.spared
  BY <1>1 DEF PruneProxies, Application
<1>3. UNCHANGED <<core, orphans, diskVars, mapping, lastHash>>
  BY DEF PruneProxies
<1>4. proxies' \subseteq proxies /\ Catalogued(catalog) \subseteq proxies'
  BY <1>1 DEF PruneProxies, ApplyInv, ApplicationInv
<1>5. TypeOK' /\ DiskKept' /\ Tracked'
  BY <1>2, <1>3, <1>4, SameObjects DEF ApplyInv, TypeOK, diskVars
<1>6. \A i \in job'.todo : Kind[i] = Phases[job'.phase].kind
  BY <1>1, <1>2, PhaseTable DEF ApplyInv, ApplicationInv
<1>7. \A i \in job'.staged : i \in Carries[job'.snap] /\ Staged(Kind[i]) /\ Found(i)'
  BY <1>1, <1>2, <1>3 DEF ApplyInv, ApplicationInv, Found, Present
<1>8. ~job'.errors => Progress'
  BY <1>1, <1>2, <1>3
     DEF ApplyInv, ApplicationInv, Progress, Passed, Written, Found, Present,
         LastPhase, StagePhase
<1>9. job'.obsolete \cap Catalogued(catalog') = {} /\ CatalogFits'
  BY <1>1, <1>2, <1>3 DEF ApplyInv, ApplicationInv, CatalogFits, Catalogued, diskVars
<1> QED
  BY <1>1, <1>2, <1>3, <1>4, <1>5, <1>6, <1>7, <1>8, <1>9
     DEF ApplyInv, ApplicationInv, Catalogued, diskVars

\* A finished application that has noted no error has written its snapshot, but
\* for what it has warned of.
LEMMA SaveKeeps ==
    ASSUME ApplyInv, Save
    PROVE  ApplyInv' /\ job \in Application /\ (Succeeded => Lacking(job.snap) \subseteq job.spared)
<1>1. job \in Application /\ TypeOK /\ job.phase = 11 /\ job.snap \in Snapshots
  BY DoingApplication, PhaseTable, JobKinds DEF Save, ApplyInv, Application
<1>2. job' = None /\ disk' = mapping /\ UNCHANGED <<coreVars, catalog, mapping>>
  BY DEF Save
<1>3. TypeOK'
  BY <1>1, <1>2 DEF Save, TypeOK, coreVars
<1>4. DiskKept' /\ Tracked'
  BY <1>2 DEF ApplyInv, DiskKept, Tracked, Synced, coreVars
<1>5. ApplyInv'
  BY <1>2, <1>3, <1>4, IdleKeeps
<1>6. ASSUME Succeeded PROVE Lacking(job.snap) \subseteq job.spared
  <2>1. \A i \in Carries[job.snap] : Written(i, job.snap) \/ i \in job.spared
    BY <1>1, <1>6
       DEF ApplyInv, ApplicationInv, Succeeded, Progress, Passed, LastPhase
  <2>2. CatalogFits /\ Catalogued(catalog) \subseteq proxies
    BY <1>1 DEF ApplyInv, ApplicationInv
  <2>3. \A e \in Entities : Caps[job.snap][e] # None => catalog[e].id \in proxies
    BY <2>2 DEF CatalogFits, Catalogued
  <2> QED
    BY <2>1, <2>2, <2>3 DEF Lacking, HasItem, HasProxy, Written, Found, CatalogFits
<1> QED
  BY <1>1, <1>5, <1>6

\* A removal goes on with the next item.
LEMMA RemovalItemKeeps ==
    ASSUME ApplyInv, NEW i \in Items, PurgeItem(i)
    PROVE  ApplyInv' /\ job \in RemovalJob /\ job' \in RemovalJob /\ UNCHANGED <<answer, operations>>
<1>1. Touches(i) /\ job \in RemovalJob /\ job' \in RemovalJob /\ UNCHANGED answer
  BY PurgeStep
<1>2. TypeOK' /\ DiskKept' /\ Tracked'
  BY <1>1, TouchKeepsDisk, TouchKeepsTracked DEF ApplyInv, TypeOK, Touches, diskVars
<1> QED
  BY <1>1, <1>2, IdleKeeps DEF Touches, diskVars

\* A removal goes on with the next kind.
LEMMA RemovalKeeps ==
    ASSUME ApplyInv, PurgeProceed \/ PurgeProxies
    PROVE  ApplyInv' /\ job \in RemovalJob /\ job' \in RemovalJob /\ UNCHANGED <<answer, operations>>
<1>1. job \in RemovalJob /\ TypeOK
  BY JobKinds DEF PurgeProceed, PurgeProxies, Purging, ApplyInv
<1>2. job.phase \in 1..7
  <2>1. job.phase \in 1..8 /\ PurgeOrder[8] = "save"
    BY <1>1 DEF RemovalJob, PurgeOrder
  <2> QED
    BY <2>1 DEF PurgeProceed, PurgeProxies, Purging, Kinds
<1>3. job' \in RemovalJob
  BY <1>1, <1>2 DEF PurgeProceed, PurgeProxies, RemovalJob
<1>4. /\ UNCHANGED <<core, orphans, diskVars, mapping, lastHash, answer>>
      /\ proxies' \subseteq proxies
  BY DEF PurgeProceed, PurgeProxies, coreVars
<1>5. TypeOK' /\ DiskKept' /\ Tracked'
  BY <1>1, <1>3, <1>4, SameObjects DEF ApplyInv, TypeOK, diskVars
<1> QED
  BY <1>1, <1>3, <1>4, <1>5, IdleKeeps DEF diskVars

\* A removal that ends empties the catalog.
LEMMA RemovalEnds ==
    ASSUME ApplyInv, PurgeEnds
    PROVE  ApplyInv' /\ job \in RemovalJob
<1>1. job \in RemovalJob /\ TypeOK
  BY JobKinds DEF PurgeEnds, Purging, ApplyInv
<1>2. TypeOK'
  BY <1>1 DEF PurgeEnds, TypeOK, coreVars
<1>3. DiskKept' /\ Tracked'
  BY DEF PurgeEnds, ApplyInv, DiskKept, Tracked, Synced, coreVars
<1> QED
  BY <1>1, <1>2, <1>3, IdleKeeps DEF PurgeEnds

-----------------------------------------------------------------------------
(* What starts a job, and what happens around it.                          *)

\* The records a new application begins with.
LEMMA NewJobFits ==
    ASSUME NEW s \in Snapshots, NEW obsolete \in SUBSET ProxyIds, NEW again \in BOOLEAN
    PROVE  NewJob(s, obsolete, again) \in Application
BY DEF NewJob, Application

\* A new application begins with the catalog of its snapshot.
LEMMA ReceiveKeeps ==
    ASSUME ApplyInv, NEW s \in Snapshots, Receive(s)
    PROVE  ApplyInv'
<1>1. TypeOK /\ catalog' = NextCatalog(s) /\ job = None
  BY DEF Receive, ApplyInv
<1>2. /\ catalog' \in [Entities -> CatalogEntry \cup {None}]
      /\ \A e \in Entities : Caps[s][e] # None =>
            catalog'[e] # None /\ catalog'[e].cap = Caps[s][e]
  BY <1>1, NextCatalogFits
<1>3. UNCHANGED <<coreVars, operations, disk, mapping>>
  BY DEF Receive
<1>4. DiskKept' /\ Tracked'
  BY <1>3, SameObjects DEF ApplyInv, coreVars
<1>5. CASE s \in operations
  <2>1. lastHash' = s /\ job' = None
    BY <1>1, <1>5 DEF Receive
  <2>2. TypeOK'
    BY <1>1, <1>2, <1>3, <2>1 DEF TypeOK, coreVars
  <2> QED
    BY <1>4, <2>1, <2>2, IdleKeeps
<1>6. CASE s \notin operations
  <2>1. PICK again \in {~Inhibitor, TRUE} : job' = NewJob(s, Superseded(catalog'), again)
    BY <1>6 DEF Receive
  <2>2. again \in BOOLEAN
    BY <2>1
  <2>3. Superseded(catalog') \subseteq ProxyIds
    BY <1>1, CataloguedType DEF Superseded, TypeOK
  <2>4. job' \in Application
    BY <2>1, <2>2, <2>3, NewJobFits
  <2>5. /\ job'.snap = s /\ job'.phase = 1 /\ job'.todo = {} /\ job'.staged = {}
        /\ job'.obsolete = Superseded(catalog') /\ ~job'.errors /\ ~job'.broken
    BY <2>1 DEF NewJob
  <2>6. UNCHANGED lastHash
    BY <1>6 DEF Receive
  <2>7. TypeOK'
    BY <1>1, <1>2, <1>3, <2>4, <2>6 DEF TypeOK, coreVars
  <2>8. job'.obsolete \cap Catalogued(catalog') = {}
    BY <2>5 DEF Superseded
  <2>9. CatalogFits' /\ Progress'
    BY <1>2, <2>5 DEF CatalogFits, Progress, Passed, LastPhase, StagePhase
  <2> QED
    BY <1>4, <2>5, <2>7, <2>8, <2>9 DEF ApplyInv, ApplicationInv, Catalogued
<1> QED
  BY <1>5, <1>6

\* A step that leaves the job, the core, the mappings and the catalog alone.
LEMMA UntouchedKeeps ==
    ASSUME ApplyInv, UNCHANGED <<core, proxies, orphans, mapping, catalog, disk, lastHash, job>>,
           operations' \subseteq operations
    PROVE  ApplyInv'
<1>1. TypeOK' /\ DiskKept' /\ Tracked'
  BY SameObjects DEF ApplyInv, TypeOK
<1>2. ApplicationInv'
  <2> SUFFICES ASSUME job \in Application PROVE ApplicationInv'
    BY DEF ApplicationInv
  <2>1. Progress => Progress'
    BY DEF Progress, Passed, Written, Found, Present
  <2>2. \A i \in job.staged : Found(i)'
    BY DEF ApplyInv, ApplicationInv, Found, Present
  <2> QED
    BY <2>1, <2>2 DEF ApplyInv, ApplicationInv, CatalogFits, Catalogued
<1> QED
  BY <1>1, <1>2 DEF ApplyInv

\* A removal begins, or is refused while a job is under way.
LEMMA BeginPurgeKeeps ==
    ASSUME ApplyInv, BeginPurge
    PROVE  ApplyInv' /\ (job = None => job' \in RemovalJob)
<1>1. UNCHANGED <<coreVars, diskVars, mapping, lastHash>> /\ TypeOK
  BY DEF BeginPurge, ApplyInv
<1>2. CASE job # None
  <2>1. job' = job
    BY <1>2 DEF BeginPurge
  <2> QED
    BY <1>1, <1>2, <2>1, UntouchedKeeps DEF coreVars, diskVars
<1>3. CASE job = None
  <2>1. PICK s \in Snapshots :
            job' = [snap |-> Removal, phase |-> 1,
                    todo |-> Mapped \cup {i \in Carries[s] : Kind[i] = "resource"}]
    BY <1>3 DEF BeginPurge
  <2>2. job' \in RemovalJob
    BY <2>1, ApplyAssumption DEF RemovalJob, Mapped
  <2>3. TypeOK' /\ DiskKept' /\ Tracked'
    BY <1>1, <2>2, SameObjects DEF ApplyInv, TypeOK, coreVars, diskVars
  <2> QED
    BY <2>2, <2>3, IdleKeeps
<1> QED
  BY <1>2, <1>3

\* A restart goes back to the mappings that were saved.
LEMMA CrashKeeps ==
    ASSUME ApplyInv, Crash
    PROVE  ApplyInv'
<1>1. /\ job' = None /\ lastHash' = None /\ mapping' = disk
      /\ UNCHANGED <<core, proxies, diskVars>>
      /\ orphans' \subseteq Objects
  BY DEF Crash, ApplyInv, TypeOK
<1>2. TypeOK'
  BY <1>1 DEF ApplyInv, TypeOK, diskVars
<1>3. DiskKept' /\ Tracked'
  <2>1. DiskKept'
    BY <1>1 DEF ApplyInv, DiskKept, diskVars
  <2>2. Tracked'
    BY <1>1 DEF Crash, Tracked, diskVars
  <2> QED
    BY <2>1, <2>2
<1> QED
  BY <1>1, <1>2, <1>3, IdleKeeps

\* An object the owner deletes is shown no more.
LEMMA UserKeeps ==
    ASSUME ApplyInv, NEW o \in Objects, UserDeletes(o)
    PROVE  ApplyInv'
<1>1. /\ job' = None /\ core' = [core EXCEPT ![o] = "gone"]
      /\ UNCHANGED <<proxies, orphans, diskVars, mapping, lastHash>>
  BY DEF UserDeletes
<1>2. /\ core' \in [Objects -> Snapshots \cup {"unused", "gone", "user", "stub"}]
      /\ \A x \in Objects : core'[x] \in {core[x], "gone"}
  BY <1>1 DEF ApplyInv, TypeOK
<1>3. TypeOK'
  BY <1>1, <1>2 DEF ApplyInv, TypeOK, diskVars
<1>4. \A i \in Items, c \in Copies : Solid(i, c)' => Solid(i, c)
  BY <1>2, ApplyAssumption DEF Solid, Present, Objects
<1>5. DiskKept' /\ Tracked'
  BY <1>1, <1>2, <1>4, ApplyAssumption DEF ApplyInv, DiskKept, Tracked, Synced, diskVars
<1> QED
  BY <1>1, <1>3, <1>5, IdleKeeps

-----------------------------------------------------------------------------
(* Every step is one of SatelliteMirror.                                   *)

\* What the Core lacks of a snapshot are parts of it.
LEMMA LacksType == Lacks \in Mirror!Shortages /\ Lacks' \in Mirror!Shortages
<1>1. \A s \in Snapshots : Carries[s] \subseteq Items
  BY ApplyAssumption
<1>2. \A s \in Snapshots : Lacking(s) \subseteq Items \cup Entities
  BY <1>1 DEF Lacking
<1>3. \A s \in Snapshots : Lacking(s)' \subseteq Items \cup Entities
  BY <1>1 DEF Lacking
<1> QED
  BY <1>2, <1>3 DEF Lacks, Mirror!Shortages

\* Where objects, mappings, proxies and catalog stay, nothing comes or goes.
LEMMA SameLacks ==
    ASSUME UNCHANGED <<core, proxies, mapping, catalog>>
    PROVE  Lacks' = Lacks
BY DEF Lacks, Lacking, HasItem, HasProxy, Present

\* An application that goes on works, and forgets none of its warnings.
LEMMA ApplicationWorks ==
    ASSUME job \in Application, job' \in Application, job'.snap = job.snap,
           job.spared \subseteq job'.spared, UNCHANGED <<answer, operations>>
    PROVE  Mirror!MNext
<1>1. /\ job # None /\ job' # None /\ job.snap # None
      /\ job.snap # Removal /\ job'.snap # Removal /\ job'.spared \subseteq Items
  BY ApplyAssumption DEF Application
<1>2. Warned = job.spared /\ Warned' = job'.spared
  BY <1>1 DEF Warned
<1>3. Mirror!Work
  BY <1>1, <1>2, LacksType DEF Mirror!Work
<1> QED
  BY <1>3 DEF Mirror!MNext

\* So does a removal, which has none.
LEMMA RemovalWorks ==
    ASSUME job \in RemovalJob, job' \in RemovalJob, UNCHANGED <<answer, operations>>
    PROVE  Mirror!MNext
<1>1. job # None /\ job' # None /\ job.snap = Removal /\ job'.snap = Removal /\ Removal # None
  BY ApplyAssumption DEF RemovalJob
<1>2. Warned = {} /\ Warned' = {}
  BY <1>1 DEF Warned
<1>3. Mirror!Work
  BY <1>1, <1>2, LacksType DEF Mirror!Work
<1> QED
  BY <1>3 DEF Mirror!MNext

\* An error ends an application, or it works on.
LEMMA ThrownFails ==
    ASSUME TypeOK, job \in Application, NEW recorded \in BOOLEAN, Thrown(recorded),
           UNCHANGED operations
    PROVE  Mirror!MNext
<1>1. job # None /\ job.snap # None /\ job.snap \in Snapshots
  BY JobKinds, ApplyAssumption
<1>2. CASE job.again
  <2>1. Mirror!Fail
    BY <1>1, <1>2, LacksType DEF Thrown, Answered, Warned, Mirror!Fail, Mirror!Answer
  <2> QED
    BY <2>1 DEF Mirror!MNext
<1>3. CASE ~job.again
  <2>1. PICK e \in BOOLEAN : e = (job.errors \/ recorded)
    OBVIOUS
  <2>2. /\ UNCHANGED answer
        /\ job' = [job EXCEPT !.phase = 1, !.todo = {}, !.staged = {},
                              !.errors = e, !.broken = FALSE, !.again = TRUE]
    BY <1>3, <2>1 DEF Thrown
  <2>3. job' \in Application /\ job'.snap = job.snap /\ job'.spared = job.spared
    <3>1. job = [snap |-> job.snap, phase |-> job.phase, todo |-> job.todo,
                 staged |-> job.staged, obsolete |-> job.obsolete,
                 errors |-> job.errors, broken |-> job.broken, again |-> job.again,
                 spared |-> job.spared]
      BY DEF Application
    <3>2. job' = [snap |-> job.snap, phase |-> 1, todo |-> {}, staged |-> {},
                  obsolete |-> job.obsolete, errors |-> e, broken |-> FALSE, again |-> TRUE,
                  spared |-> job.spared]
      BY <2>2, <3>1
    <3> QED
      BY <3>2 DEF Application
  <2> QED
    BY <1>1, <2>2, <2>3, ApplicationWorks
<1> QED
  BY <1>2, <1>3

\* Work on one item is Work, or the Fail that an error ends it with.
LEMMA ItemStepRefines ==
    ASSUME ApplyInv, NEW i \in Items, ItemStep(i)
    PROVE  ApplyInv' /\ Mirror!MNext
<1>1. TypeOK
  BY DEF ApplyInv
<1>2. ASSUME Touches(i), Advances(i) PROVE ApplyInv' /\ Mirror!MNext
  <2>1. /\ job \in Application /\ job' \in Application /\ job'.snap = job.snap
        /\ job.spared \subseteq job'.spared /\ UNCHANGED <<answer, operations>>
    BY <1>2 DEF Advances, Touches, diskVars
  <2> QED
    BY <1>2, <2>1, AdvanceKeeps, ApplicationWorks
<1>3. ASSUME Thrown(FALSE), job \in Application,
             UNCHANGED <<core, mapping, orphans, diskVars, lastHash, proxies>>
      PROVE  ApplyInv' /\ Mirror!MNext
  <2>1. proxies' \subseteq ProxyIds /\ UNCHANGED operations
    BY <1>1, <1>3 DEF TypeOK, diskVars
  <2> QED
    BY <1>1, <1>3, <2>1, ThrownKeeps, ThrownFails
<1>4. CASE ApplyResource(i)
  BY <1>1, <1>2, <1>3, <1>4, ResourceStep, DoingApplication DEF ApplyResource
<1>5. CASE Stage(i)
  BY <1>1, <1>2, <1>3, <1>5, StageStep, DoingApplication DEF Stage
<1>6. CASE PurgeItem(i)
  BY <1>6, RemovalItemKeeps, RemovalWorks
<1> QED
  BY <1>2, <1>4, <1>5, <1>6, DockStep, ProfileStep, FinishStep, GroupStep, PruneStep
     DEF ItemStep

\* So are the other steps of a job; its end is Succeed, Fail or Removed.
LEMMA JobStepRefines ==
    ASSUME ApplyInv, JobStep
    PROVE  ApplyInv' /\ Mirror!MNext
<1>1. TypeOK
  BY DEF ApplyInv
<1>2. ASSUME job \in Application, job' \in Application, job'.snap = job.snap,
             job'.spared = job.spared, UNCHANGED <<answer, operations>>
      PROVE  Mirror!MNext
  BY <1>2, ApplicationWorks
<1>3. CASE Proceed
  BY <1>2, <1>3, ProceedKeeps DEF Proceed, diskVars
<1>4. CASE ApplyProxies
  BY <1>1, <1>2, <1>4, ProxiesKeep, ThrownFails
<1>5. CASE ListFails
  <2>1. job \in Application /\ Thrown(FALSE)
    BY <1>1, <1>5, DoingApplication DEF ListFails
  <2>2. /\ UNCHANGED <<core, mapping, orphans, diskVars, lastHash, proxies>>
        /\ proxies' \subseteq ProxyIds
    BY <1>1, <1>5 DEF ListFails, coreVars, TypeOK
  <2> QED
    BY <1>1, <2>1, <2>2, ThrownKeeps, ThrownFails DEF diskVars
<1>6. CASE PruneProxies
  BY <1>2, <1>6, PruneProxiesKeeps DEF PruneProxies, diskVars
<1>7. CASE Save
  <2>1. ApplyInv' /\ job \in Application /\ (Succeeded => Lacking(job.snap) \subseteq job.spared)
    BY <1>7, SaveKeeps
  <2>2. job # None /\ job.snap \in Snapshots /\ job.snap # None
    BY <1>1, <2>1, JobKinds, ApplyAssumption
  <2>3. job' = None /\ answer' = [to |-> job.snap, success |-> Succeeded, duplicate |-> FALSE]
    BY <1>7 DEF Save, Answered
  <2>4. CASE Succeeded
    <3>1. PICK s \in Snapshots : s = job.snap
      BY <2>2
    <3>2. Lacks' = Lacks /\ Warned = job.spared /\ Warned' = {}
      BY <1>7, <2>2, <2>3, SameLacks, ApplyAssumption DEF Save, Warned, coreVars
    <3>5. Lacks'[s] \subseteq Warned
      BY <2>1, <2>4, <3>1, <3>2 DEF Lacks
    <3>3. operations' = operations \cup {s} /\ answer' = [to |-> s, success |-> TRUE, duplicate |-> FALSE]
      BY <1>7, <2>3, <2>4, <3>1 DEF Save
    <3>4. Mirror!Succeed
      BY <2>2, <2>3, <3>1, <3>2, <3>3, <3>5, LacksType DEF Mirror!Succeed, Mirror!Answer
    <3> QED
      BY <2>1, <3>4 DEF Mirror!MNext
  <2>5. CASE ~Succeeded
    <3>1. operations' = operations /\ answer' = [to |-> job.snap, success |-> FALSE, duplicate |-> FALSE]
      <4>1. Succeeded = FALSE
        BY <2>5 DEF Succeeded
      <4> QED
        BY <1>7, <2>3, <4>1 DEF Save
    <3>2. Mirror!Fail
      BY <2>2, <2>3, <3>1, LacksType DEF Mirror!Fail, Mirror!Answer, Warned
    <3> QED
      BY <2>1, <3>2 DEF Mirror!MNext
  <2> QED
    BY <2>4, <2>5
<1>8. CASE PurgeProceed \/ PurgeProxies
  BY <1>8, RemovalKeeps, RemovalWorks
<1>9. CASE PurgeEnds
  <2>1. ApplyInv' /\ job # None /\ job.snap = Removal /\ job' = None
    BY <1>9, RemovalEnds, ApplyAssumption DEF RemovalJob, PurgeEnds
  <2>2. Mirror!Removed
    BY <1>9, <2>1, LacksType, ApplyAssumption
       DEF PurgeEnds, Answered, Warned, Mirror!Removed, Mirror!Answer
  <2> QED
    BY <2>1, <2>2 DEF Mirror!MNext
<1>10. CASE \E i \in Items : ItemStep(i)
  BY <1>10, ItemStepRefines
<1> QED
  BY <1>3, <1>4, <1>5, <1>6, <1>7, <1>8, <1>9, <1>10 DEF JobStep

\* A snapshot received is Repeat or Begin.
LEMMA ReceiveRefines ==
    ASSUME ApplyInv, NEW s \in Snapshots, Receive(s)
    PROVE  Mirror!MNext
<1>1. job = None /\ s # None /\ UNCHANGED operations
  BY ApplyAssumption DEF Receive
<1>2. CASE s \in operations
  <2>1. job' = None /\ answer' = [to |-> s, success |-> TRUE, duplicate |-> TRUE]
    BY <1>1, <1>2 DEF Receive, Answered
  <2>2. Mirror!Repeat(s)
    BY <1>1, <1>2, <2>1, LacksType DEF Warned, Mirror!Repeat, Mirror!Answer
  <2> QED
    BY <2>2 DEF Mirror!MNext
<1>3. CASE s \notin operations
  <2>1. PICK again \in {~Inhibitor, TRUE} : job' = NewJob(s, Superseded(catalog'), again)
    BY <1>3 DEF Receive
  <2>2. again \in BOOLEAN /\ Superseded(catalog') \subseteq ProxyIds
    BY <2>1, CataloguedType DEF Superseded, ApplyInv, TypeOK
  <2>3. job' \in Application /\ job'.snap = s /\ job'.spared = {}
    BY <2>1, <2>2, NewJobFits DEF NewJob
  <2>4. job' # None /\ UNCHANGED answer
    BY <1>3, <2>3, ApplyAssumption DEF Receive
  <2>5. Mirror!Begin(s)
    BY <1>1, <2>3, <2>4, LacksType DEF Warned, Mirror!Begin
  <2> QED
    BY <2>5 DEF Mirror!MNext
<1> QED
  BY <1>2, <1>3

\* A snapshot received during a job is Busy.
LEMMA BusyRefines ==
    ASSUME NEW s \in Snapshots, TypeOK, ReceiveBusy(s)
    PROVE  Mirror!MNext
<1>1. job # None /\ job.snap # None
  BY ApplyAssumption DEF ReceiveBusy, TypeOK, Application, RemovalJob
<1>2. Lacks' = Lacks /\ Warned' = Warned
  BY SameLacks DEF ReceiveBusy, coreVars, diskVars, Warned
<1>3. Mirror!Busy(s)
  BY <1>1, <1>2 DEF ReceiveBusy, Answered, diskVars, Mirror!Busy, Mirror!Answer
<1> QED
  BY <1>3 DEF Mirror!MNext

\* A removal requested is Begin or Busy.
LEMMA BeginPurgeRefines ==
    ASSUME ApplyInv, BeginPurge
    PROVE  Mirror!MNext
<1>1. TypeOK /\ UNCHANGED operations
  BY DEF ApplyInv, BeginPurge, diskVars
<1>2. CASE job # None
  <2>1. job.snap # None
    BY <1>1, <1>2, ApplyAssumption DEF TypeOK, Application, RemovalJob
  <2>2. Lacks' = Lacks /\ Warned' = Warned
    BY <1>2, SameLacks DEF BeginPurge, coreVars, diskVars, Warned
  <2>3. Mirror!Busy(Removal)
    BY <1>1, <1>2, <2>1, <2>2 DEF BeginPurge, Answered, Mirror!Busy, Mirror!Answer
  <2> QED
    BY <2>3 DEF Mirror!MNext
<1>3. CASE job = None
  <2>1. job' \in RemovalJob /\ UNCHANGED answer
    BY <1>3, BeginPurgeKeeps DEF BeginPurge
  <2>2. job' # None /\ job'.snap = Removal
    BY <2>1, ApplyAssumption DEF RemovalJob
  <2>3. Mirror!Begin(Removal)
    BY <1>1, <1>3, <2>1, <2>2, LacksType DEF Warned, Mirror!Begin
  <2> QED
    BY <2>3 DEF Mirror!MNext
<1> QED
  BY <1>2, <1>3

\* A restart of an idle Satellite lets it show nothing more than before.
LEMMA CrashRefines ==
    ASSUME ApplyInv, Crash
    PROVE  Mirror!MNext
<1>1. /\ TypeOK /\ job' = None /\ mapping' = disk
      /\ UNCHANGED <<core, proxies, catalog, operations, disk, answer>>
  BY DEF ApplyInv, Crash, diskVars
<1>2. ASSUME NEW i \in Items, NEW s \in Snapshots, HasItem(i, s)' PROVE HasItem(i, s)
  <2>1. disk[i] \in Copies
    BY <1>1, <1>2 DEF HasItem, TypeOK
  <2>2. Solid(i, disk[i])
    BY <1>1, <1>2, <2>1 DEF HasItem, Solid, Present
  <2>3. mapping[i] = disk[i]
    BY <2>1, <2>2 DEF ApplyInv, DiskKept
  <2> QED
    BY <1>1, <1>2, <2>3 DEF HasItem, Present
<1>5. Mirror!Worsens
  BY <1>1, <1>2, ApplyAssumption DEF Mirror!Worsens, Lacks, Lacking, HasProxy
<1>6. Warned' = {}
  BY <1>1 DEF Warned
<1>3. CASE job = None
  <2>1. Mirror!Die
    BY <1>1, <1>3, <1>5, <1>6, LacksType DEF Mirror!Die
  <2> QED
    BY <2>1 DEF Mirror!MNext
<1>4. CASE job # None
  <2>1. job.snap # None
    BY <1>1, <1>4, ApplyAssumption DEF TypeOK, Application, RemovalJob
  <2>2. Mirror!Die
    BY <1>1, <1>4, <1>6, <2>1, LacksType DEF Mirror!Die
  <2> QED
    BY <2>2 DEF Mirror!MNext
<1> QED
  BY <1>3, <1>4

\* What the owner deletes is a Disturb.
LEMMA UserRefines ==
    ASSUME ApplyInv, NEW o \in Objects, UserDeletes(o)
    PROVE  Mirror!MNext
<1>1. /\ job = None /\ job' = None /\ core' = [core EXCEPT ![o] = "gone"]
      /\ UNCHANGED <<proxies, catalog, operations, mapping, answer>>
  BY DEF UserDeletes, diskVars
<1>2. ASSUME NEW i \in Items, NEW s \in Snapshots, HasItem(i, s)' PROVE HasItem(i, s)
  <2>1. /\ mapping[i] \in Copies /\ core'[<<i, mapping[i]>>] # "gone"
    BY <1>1, <1>2 DEF HasItem, Present, ApplyInv, TypeOK
  <2>2. core'[<<i, mapping[i]>>] = core[<<i, mapping[i]>>]
    BY <1>1, <2>1 DEF Objects, ApplyInv, TypeOK
  <2> QED
    BY <1>1, <1>2, <2>2 DEF HasItem, Present
<1>3. Mirror!Worsens
  BY <1>1, <1>2, ApplyAssumption DEF Mirror!Worsens, Lacks, Lacking, HasProxy
<1>4. Mirror!Disturb
  BY <1>1, <1>3, LacksType DEF Mirror!Disturb, Warned
<1> QED
  BY <1>4 DEF Mirror!MNext

\* So is an operation that is forgotten.
LEMMA ExpireRefines ==
    ASSUME NEW s \in Snapshots, Expire(s)
    PROVE  Mirror!MNext
<1>1. Lacks' = Lacks
  BY SameLacks DEF Expire, coreVars
<1>2. Mirror!Disturb
  BY <1>1, LacksType DEF Expire, Warned, Mirror!Disturb, Mirror!Worsens
<1> QED
  BY <1>2 DEF Mirror!MNext

-----------------------------------------------------------------------------
\* Initial states are initial states of SatelliteMirror.
LEMMA ApplyInitial == Init => ApplyInv /\ Mirror!MInit
<1> SUFFICES ASSUME Init PROVE ApplyInv /\ Mirror!MInit
  OBVIOUS
<1>1. TypeOK
  BY DEF Init, TypeOK
<1>2. DiskKept /\ Tracked
  BY ApplyAssumption DEF Init, DiskKept, Tracked, Synced
<1>3. ApplyInv
  BY <1>1, <1>2, ApplyAssumption DEF Init, ApplyInv, ApplicationInv
<1>4. Mirror!MInit
  BY LacksType DEF Init, Warned, Mirror!MInit
<1> QED
  BY <1>3, <1>4

\* Every step keeps the invariant and is a step of SatelliteMirror or none.
LEMMA ApplyStep == ApplyInv /\ [Next]_vars => ApplyInv' /\ [Mirror!MNext]_Mirror!mvars
<1> SUFFICES ASSUME ApplyInv, [Next]_vars
             PROVE  ApplyInv' /\ [Mirror!MNext]_Mirror!mvars
  OBVIOUS
<1>1. CASE JobStep
  BY <1>1, JobStepRefines
<1>2. ASSUME NEW s \in Snapshots, Receive(s) PROVE ApplyInv' /\ Mirror!MNext
  BY <1>2, ReceiveKeeps, ReceiveRefines
<1>3. ASSUME NEW s \in Snapshots, ReceiveBusy(s) PROVE ApplyInv' /\ Mirror!MNext
  BY <1>3, UntouchedKeeps, BusyRefines DEF ReceiveBusy, coreVars, diskVars, ApplyInv
<1>4. ASSUME NEW s \in Snapshots, Expire(s) PROVE ApplyInv' /\ Mirror!MNext
  BY <1>4, UntouchedKeeps, ExpireRefines DEF Expire, coreVars
<1>5. CASE BeginPurge
  BY <1>5, BeginPurgeKeeps, BeginPurgeRefines
<1>6. CASE Crash
  BY <1>6, CrashKeeps, CrashRefines
<1>7. ASSUME NEW o \in Objects, UserDeletes(o) PROVE ApplyInv' /\ Mirror!MNext
  BY <1>7, UserKeeps, UserRefines
<1>8. CASE UNCHANGED vars
  <2>1. ApplyInv'
    BY <1>8, UntouchedKeeps DEF vars, coreVars, diskVars
  <2>2. Lacks' = Lacks /\ Warned' = Warned
    BY <1>8, SameLacks DEF vars, coreVars, diskVars, Warned
  <2>3. UNCHANGED Mirror!mvars
    BY <1>8, <2>2 DEF vars, diskVars, Mirror!mvars
  <2> QED
    BY <2>1, <2>3
<1> QED
  BY <1>1, <1>2, <1>3, <1>4, <1>5, <1>6, <1>7, <1>8 DEF Next

\* A proxy of the catalog goes with a removal only.
LEMMA ProxyStep ==
    ASSUME ApplyInv, [Next]_vars, NEW p \in proxies, p \in Catalogued(catalog), p \notin proxies'
    PROVE  Purging("proxies")
<1>1. ~ UNCHANGED proxies
  OBVIOUS
<1>2. CASE ApplyProxies
  BY <1>1, <1>2 DEF ApplyProxies
<1>3. CASE PruneProxies
  <2>1. p \notin job.obsolete
    BY <1>3, DoingApplication DEF PruneProxies, ApplyInv, ApplicationInv
  <2> QED
    BY <1>3, <2>1 DEF PruneProxies
<1>4. CASE PurgeProxies
  BY <1>4 DEF PurgeProxies
<1>5. ASSUME NEW i \in Items, ItemStep(i) PROVE UNCHANGED proxies
  BY <1>5 DEF ItemStep, ApplyResource, ApplyDock, ApplyProfile, Writes, WritesPart, Stage, Finish,
              ApplyGroup, PruneItem, PurgeItem, coreVars
<1>6. CASE Proceed \/ ListFails \/ Save \/ PurgeProceed \/ PurgeEnds
  BY <1>1, <1>6 DEF Proceed, ListFails, Save, PurgeProceed, PurgeEnds, coreVars
<1>7. ASSUME NEW s \in Snapshots, Receive(s) \/ ReceiveBusy(s) \/ Expire(s)
      PROVE  UNCHANGED proxies
  BY <1>7 DEF Receive, ReceiveBusy, Expire, coreVars
<1>8. CASE BeginPurge \/ Crash \/ UNCHANGED vars
  BY <1>1, <1>8 DEF BeginPurge, Crash, vars, coreVars
<1>9. ASSUME NEW o \in Objects, UserDeletes(o) PROVE UNCHANGED proxies
  BY <1>9 DEF UserDeletes
<1> QED
  BY <1>1, <1>2, <1>3, <1>4, <1>5, <1>6, <1>7, <1>8, <1>9 DEF Next, JobStep

-----------------------------------------------------------------------------
\* Every reachable state of the Satellite has its type: an application stays
\* within its phases, and a mapping names a copy that its item may have.
THEOREM ApplyTypes == Spec => []TypeOK
<1>1. ApplyInv => TypeOK
  BY DEF ApplyInv
<1> QED
  BY <1>1, ApplyInitial, ApplyStep, PTL DEF Spec

\* What the Satellite wrote for the Primary stays under its mapping, through
\* every failure and restart, unless the driver never learned of it or forgot
\* it in a crash.
THEOREM EverythingIsTracked == Spec => []Tracked
<1>1. ApplyInv => Tracked
  BY DEF ApplyInv
<1> QED
  BY <1>1, ApplyInitial, ApplyStep, PTL DEF Spec

\* An application, failed or not, deletes no proxy that the catalog still has.
THEOREM ApplicationsKeepProxies == Spec => CataloguedStay
<1>1. ApplyInv /\ [Next]_vars =>
        [\A p \in proxies : p \in Catalogued(catalog) /\ p \notin proxies' =>
            Purging("proxies")]_vars
  BY ProxyStep
<1> QED
  BY <1>1, ApplyInitial, ApplyStep, PTL DEF Spec, CataloguedStay

\* The Satellite, applying snapshots call by call with failures, lost answers
\* and crashes, does what SatelliteMirror promises to those who post them: after
\* a success the Core has the whole snapshot, but for what the report skipped or
\* warned of; a confirmed repetition was carried out, and a restart brings
\* nothing back.
THEOREM SatelliteImplementsMirror == Spec => ImplementsMirror
BY ApplyInitial, ApplyStep, PTL DEF Spec, ImplementsMirror, Mirror!MirrorSpec

=============================================================================
