--------------------------- MODULE SatelliteApply ---------------------------
(***************************************************************************)
(* How a Satellite applies the snapshots it receives to its own Core, and  *)
(* removes them again: applyReceived and purgeSynchronized of              *)
(* src/src/service/index.js with apply/index.js, apply/docks.js,           *)
(* apply/profiles.js, apply/purge.js, proxy/catalog.js and storage/.       *)
(*                                                                         *)
(* One action is one object's calls to the Core.  A call can succeed, be   *)
(* refused without effect ("refused"), or take effect while its answer is  *)
(* an error or never comes ("lost").  Each item of a snapshot has the      *)
(* identifier it has on the Primary; on the Satellite it is copy 0, which  *)
(* carries that same identifier, or a copy whose identifier the Core chose.*)
(***************************************************************************)
EXTENDS Integers, Sequences, FiniteSets

CONSTANTS
    Snapshots,    \* the builds the Primary may push; one operation_id each
    Items,        \* source identifiers of resources, docks, macros, ...
    Kind,         \* the kind of every item
    Carries,      \* the items a snapshot contains
    Entities,     \* source entities that are mirrored as proxies
    Capabilities, \* what proxyCapabilityHash tells apart
    Caps,         \* a snapshot's entities with their capabilities, or None
    MaxCopies,    \* bound: identifiers the Core has for an item it creates
    Prune,        \* config.sync.prune
    VerifyHashes, \* config.sync.verify_existing_resource_hashes
    Inhibitor,    \* config.sync.use_standby_inhibitor
    Limits,       \* bound: sets of allowances for the disturbances of each kind
    None, Base, Removal

Kinds == {"resource", "dock", "macro", "activity", "group", "profile"}
Disturbances == {"push", "fault", "crash", "purge", "user"}

Copies  == 0..MaxCopies
Objects == Items \X Copies
ProxyIds == Entities \X (Capabilities \cup {Base})
CatalogEntry == [id : ProxyIds, cap : Capabilities]

\* An application of a snapshot and a removal that are under way.
Application == [snap : Snapshots, phase : 1..11, todo : SUBSET Items,
                staged : SUBSET Items, obsolete : SUBSET ProxyIds,
                errors : BOOLEAN, broken : BOOLEAN, again : BOOLEAN,
                spared : SUBSET Items]
RemovalJob == [snap : {Removal}, phase : 1..8, todo : SUBSET Items]

ASSUME ApplyAssumption ==
    /\ Kind \in [Items -> Kinds]
    /\ Carries \in [Snapshots -> SUBSET Items]
    /\ Caps \in [Snapshots -> [Entities -> Capabilities \cup {None}]]
    /\ None \notin Capabilities \cup Snapshots \cup Copies \cup {Removal}
    /\ None \notin CatalogEntry \cup Application \cup RemovalJob
    /\ MaxCopies \in Nat
    /\ Limits \subseteq [Disturbances -> Nat]
    /\ Items \cap Entities = {}
    /\ {Prune, VerifyHashes, Inhibitor} \subseteq BOOLEAN
    /\ Snapshots \cap {"unused", "gone", "user", "stub", Removal} = {}

VARIABLES
    core,       \* what each object is: "unused", "gone", "user", "stub" (written,
                \* but not completely) or the snapshot whose content it has
    proxies,    \* proxy entities the Core has configured
    mapping,    \* mappings.data: the copy that stands for each item
    catalog,    \* proxyCatalog: the proxy and capabilities of each entity
    operations, \* operationCache: the operations that succeeded
    lastHash,   \* status.last_snapshot_hash
    job,        \* the application or removal under way, or None
    answer,     \* the last answer given
    disk,       \* id-mappings.json
    orphans,    \* auxiliary: objects whose creation the driver never learned
                \* of, or forgot in a crash
    budget

coreVars == <<core, proxies, orphans>>
diskVars == <<catalog, operations, disk>>
vars == <<coreVars, diskVars, mapping, lastHash, job, answer, budget>>

\* The phases of #applySnapshot in their order: how each handles its objects.
Phases == <<
    [step |-> "proxies", kind |-> None],
    [step |-> "keep",    kind |-> "resource"],
    [step |-> "named",   kind |-> "dock"],
    [step |-> "stage",   kind |-> "macro"],
    [step |-> "stage",   kind |-> "activity"],
    [step |-> "finish",  kind |-> "macro"],
    [step |-> "finish",  kind |-> "activity"],
    [step |-> "group",   kind |-> "group"],
    [step |-> "named",   kind |-> "profile"],
    [step |-> "obsolete", kind |-> None],
    [step |-> "save",    kind |-> None] >>
FirstDependent == 8    \* activity groups and profiles need the graph before
ObsoletePhase  == 10

PurgeOrder == <<"profile", "group", "activity", "macro", "dock", "proxies", "resource", "save">>

Synced(c) == c \in Snapshots \cup {"stub"}
Present(o) == core[o] \notin {"unused", "gone"}
Catalogued(cat) == {cat[e].id : e \in {x \in Entities : cat[x] # None}}
Mapped == {i \in Items : mapping[i] # None}

TypeOK ==
    /\ core \in [Objects -> Snapshots \cup {"unused", "gone", "user", "stub"}]
    /\ proxies \subseteq ProxyIds
    /\ mapping \in [Items -> Copies \cup {None}]
    /\ disk \in [Items -> Copies \cup {None}]
    /\ catalog \in [Entities -> CatalogEntry \cup {None}]
    /\ operations \subseteq Snapshots
    /\ lastHash \in Snapshots \cup {None}
    /\ job \in Application \cup RemovalJob \cup {None}
    /\ orphans \subseteq Objects

Init ==
    /\ core \in {c \in [Objects -> {"unused", "user"}] :
                    \A o \in Objects : o[2] # 0 => c[o] = "unused"}
    /\ proxies = {} /\ orphans = {}
    /\ mapping = [i \in Items |-> None] /\ disk = mapping
    /\ catalog = [e \in Entities |-> None]
    /\ operations = {} /\ lastHash = None
    /\ job = None /\ answer = None
    /\ budget \in Limits

Spend(kind) == budget[kind] > 0 /\ budget' = [budget EXCEPT ![kind] = @ - 1]

\* How a call to the Core ends; each failure uses up a part of the allowance.
Outcome(out) ==
    \/ out = "ok" /\ UNCHANGED budget
    \/ out \in {"refused", "lost"} /\ Spend("fault")

Answered(s, success, duplicate) ==
    answer' = [to |-> s, success |-> success, duplicate |-> duplicate]

-----------------------------------------------------------------------------
(* Receiving a snapshot.                                                   *)

\* Faulty variant: an entity the snapshot has lost stays in the catalog.
NextCatalogKeeping(s) ==
    [e \in Entities |-> [id |-> <<e, Base>>, cap |-> Caps[s][e]]]

\* preserveOrReviseIdentity and buildProxyCatalog.
NextCatalog(s) ==
    [e \in Entities |->
        LET cap == Caps[s][e]
            old == catalog[e] IN
        CASE cap = None -> None
          [] cap # None /\ old = None -> [id |-> <<e, Base>>, cap |-> cap]
          [] cap # None /\ old # None /\ old.cap = cap -> old
          [] OTHER -> [id |-> <<e, cap>>, cap |-> cap]]

\* Faulty variant: every proxy of the previous catalog.
SupersededAll(next) == Catalogued(catalog)

\* obsoleteProxyIds: what the catalog had and the next one has not.
Superseded(next) == Catalogued(catalog) \ Catalogued(next)

\* The records a phase works through; with pruning, then the mapped items of
\* its kind the snapshot no longer has.
Records(s, phase) ==
    {i \in Items : /\ Kind[i] = Phases[phase].kind
                   /\ i \in Carries[s] \/ (/\ Prune /\ mapping[i] # None
                                           /\ Phases[phase].step \in {"named", "finish", "group"})}

NewJob(s, obsolete, again) ==
    [snap |-> s, phase |-> 1, todo |-> {}, staged |-> {}, obsolete |-> obsolete,
     errors |-> FALSE, broken |-> FALSE, again |-> again, spared |-> {}]

\* applyReceived up to the first call; again says that a failed application
\* is not started a second time.
Receive(s) ==
    /\ job = None /\ Spend("push")
    /\ catalog' = NextCatalog(s)
    /\ IF s \in operations
       THEN /\ Answered(s, TRUE, TRUE)
            /\ lastHash' = s /\ UNCHANGED job
       ELSE /\ \E again \in {~Inhibitor, TRUE} :
                  job' = NewJob(s, Superseded(catalog'), again)
            /\ UNCHANGED <<answer, lastHash>>
    /\ UNCHANGED <<coreVars, operations, disk, mapping>>

\* "A snapshot is already being applied".
ReceiveBusy(s) ==
    /\ job # None /\ Spend("push")
    /\ Answered(s, FALSE, FALSE)
    /\ UNCHANGED <<coreVars, diskVars, mapping, lastHash, job>>

Doing(step) == job # None /\ job.snap # Removal /\ Phases[job.phase].step = step
Current(i) == i \in job.todo /\ i \in Carries[job.snap]
Done(i) == job' = [job EXCEPT !.todo = @ \ {i}]
\* The report warns of the item, or counts it as skipped; nothing has failed.
Spared(i) == job' = [job EXCEPT !.todo = @ \ {i}, !.spared = @ \cup {i}]
Failed(i) ==
    job' = [job EXCEPT !.todo = @ \ {i}, !.errors = TRUE,
                       !.broken = @ \/ Phases[job.phase].step = "finish"]

\* The phase is over.  A broken graph of activities and macros skips the
\* groups and profiles that would refer to it.
Proceed ==
    /\ job # None /\ job.snap # Removal
    /\ Phases[job.phase].step \in {"keep", "named", "stage", "finish", "group"}
    /\ job.todo = {}
    /\ LET next == IF job.phase + 1 = FirstDependent /\ job.broken
                   THEN ObsoletePhase ELSE job.phase + 1
       IN job' = [job EXCEPT !.phase = next, !.todo = Records(job.snap, next)]
    /\ UNCHANGED <<coreVars, diskVars, mapping, lastHash, answer, budget>>

\* An error leaves #applySnapshot.  The standby inhibitor's handler takes it
\* for its own and runs the application once more, with the same report, in
\* which the error may be recorded.
Thrown(recorded) ==
    IF job.again
    THEN job' = None /\ Answered(job.snap, FALSE, FALSE)
    ELSE /\ job' = [job EXCEPT !.phase = 1, !.todo = {}, !.staged = {},
                             !.errors = @ \/ recorded, !.broken = FALSE, !.again = TRUE]
         /\ UNCHANGED answer

-----------------------------------------------------------------------------
(* The phases.                                                             *)

\* #applyProxyEntities and #ensureActivityRelay: configure what is missing,
\* wait for it, patch every proxy.  Any failure ends the application;
\* that of a patch is recorded.
ApplyProxies ==
    /\ Doing("proxies")
    /\ \E out \in {"ok", "refused", "lost"} :
        /\ Outcome(out)
        /\ proxies' = IF out = "refused" THEN proxies ELSE proxies \cup Catalogued(catalog)
        /\ IF out = "ok"
           THEN /\ job' = [job EXCEPT !.phase = 2, !.todo = Records(job.snap, 2)]
                /\ UNCHANGED answer
           ELSE \E recorded \in BOOLEAN : Thrown(recorded)
    /\ UNCHANGED <<core, orphans, diskVars, mapping, lastHash>>

\* #applyResources: a resource of the same size is kept unless its hash is
\* compared; another one is deleted and uploaded again.  An upload that the
\* Core answers with 422 counts as skipped: the resource is remembered as
\* synchronized, although the old one is deleted.
ApplyResource(i) ==
    LET o == <<i, 0>> IN
    /\ Doing("keep") /\ Current(i)
    /\ \/ /\ core[o] = job.snap \/ (Present(o) /\ ~VerifyHashes)
          /\ mapping' = [mapping EXCEPT ![i] = 0] /\ Done(i)
          /\ UNCHANGED <<core, answer, budget>>
       \/ /\ core' = [core EXCEPT ![o] = job.snap]
          /\ mapping' = [mapping EXCEPT ![i] = 0] /\ Done(i)
          /\ UNCHANGED <<answer, budget>>
       \/ /\ Spend("fault")    \* deleted, but not uploaded
          /\ core' = [core EXCEPT ![o] = IF Present(o) THEN "gone" ELSE @]
          /\ Failed(i) /\ UNCHANGED <<mapping, answer>>
       \/ /\ Spend("fault")    \* deleted, and the upload is answered with 422
          /\ core' = [core EXCEPT ![o] = IF Present(o) THEN "gone" ELSE @]
          /\ mapping' = [mapping EXCEPT ![i] = 0]
          /\ Spared(i) /\ UNCHANGED answer
       \/ /\ Present(o) /\ Spend("fault")    \* the deletion fails
          /\ Thrown(FALSE) /\ UNCHANGED <<core, mapping>>
    /\ UNCHANGED <<proxies, orphans, diskVars, lastHash>>

\* Docks and profiles are created under the identifier the mapping or the
\* source has.
Writes(i, out, maps) ==
    LET copy == IF mapping[i] = None THEN 0 ELSE mapping[i]
        o    == <<i, copy>> IN
    /\ Outcome(out)
    /\ core' = CASE out = "ok"      -> [core EXCEPT ![o] = job.snap]
                 [] out = "refused" -> core
                 [] out = "lost"    -> [core EXCEPT ![o] = "stub"]
    /\ IF out = "ok" THEN Done(i) ELSE Failed(i)
    /\ mapping' = IF maps THEN [mapping EXCEPT ![i] = copy] ELSE mapping
    /\ orphans' = IF maps \/ mapping[i] = copy THEN orphans \ {o}
                  ELSE IF out = "lost" THEN orphans \cup {o} ELSE orphans
    /\ UNCHANGED <<proxies, diskVars, lastHash, answer>>

\* DockApplier.apply: a dock is mapped once it was seen again.
ApplyDock(i) ==
    /\ Doing("named") /\ Current(i) /\ Kind[i] = "dock"
    /\ \E out \in {"ok", "refused", "lost"} : Writes(i, out, out = "ok")

\* The item is written without a part the Core refuses, or without references
\* to what the Satellite does not have; the report warns of it.
WritesPart(i, copy) ==
    /\ Spend("fault")
    /\ core' = [core EXCEPT ![<<i, copy>>] = "stub"]
    /\ mapping' = [mapping EXCEPT ![i] = copy]
    /\ orphans' = orphans \ {<<i, copy>>}
    /\ Spared(i)
    /\ UNCHANGED <<proxies, diskVars, lastHash, answer>>

\* ProfileApplier.apply: a profile is mapped as soon as the Core has answered
\* that it is written, before its pages and groups are.  Page items that the
\* Core refuses, or has no entity for, are left out with a warning.
ApplyProfile(i) ==
    /\ Doing("named") /\ Current(i) /\ Kind[i] = "profile"
    /\ \/ \E out \in {"ok", "refused", "lost"} :
            \E maps \in {out = "ok", out # "refused"} : Writes(i, out, maps)
       \/ WritesPart(i, IF mapping[i] = None THEN 0 ELSE mapping[i])

\* The copy #stageInternalEntities and #applyActivityGroups settle on: the
\* mapped one, one with the source's identifier, or a new one of the Core's.
Target(i) ==
    IF mapping[i] # None /\ Present(<<i, mapping[i]>>) THEN {mapping[i]}
    ELSE IF Present(<<i, 0>>) THEN {0}
    ELSE {c \in Copies \ {0} : /\ core[<<i, c>>] = "unused"
                               /\ \A d \in 1..(c - 1) : core[<<i, d>>] # "unused"}

\* #stageInternalEntities: existing objects are only looked up; a missing one
\* is created.  An item that fails is left out of the rest of the application.
Stage(i) ==
    /\ Doing("stage") /\ Current(i)
    /\ \/ \E c \in Target(i) :
            LET o == <<i, c>> IN
            \E out \in {"ok", "lost"} :
                /\ Outcome(out) /\ (out = "lost" => ~Present(o))
                /\ core' = [core EXCEPT ![o] = IF Present(o) THEN @ ELSE "stub"]
                /\ IF out = "ok"
                   THEN /\ mapping' = [mapping EXCEPT ![i] = c]
                        /\ job' = [job EXCEPT !.todo = @ \ {i}, !.staged = @ \cup {i}]
                        /\ orphans' = orphans \ {o}
                   ELSE Failed(i) /\ orphans' = orphans \cup {o} /\ UNCHANGED mapping
            /\ UNCHANGED answer
       \/ Spend("fault") /\ Failed(i) /\ UNCHANGED <<core, mapping, orphans, answer>>
       \/ Spend("fault") /\ Thrown(FALSE) /\ UNCHANGED <<core, mapping, orphans>>
    /\ UNCHANGED <<proxies, diskVars, lastHash>>

\* #finishInternalEntities and #replaceUi: only what was staged is written.
\* A page or button mapping that the Core refuses is a warning; any other call
\* that fails leaves the item anywhere between its old and its new content.
Finish(i) ==
    LET o == <<i, mapping[i]>> IN
    /\ Doing("finish") /\ Current(i)
    /\ \/ i \notin job.staged /\ Done(i) /\ UNCHANGED <<core, budget>>
       \/ /\ i \in job.staged
          /\ core' = [core EXCEPT ![o] = job.snap] /\ Done(i) /\ UNCHANGED budget
       \/ /\ i \in job.staged /\ Spend("fault")
          /\ core' = [core EXCEPT ![o] = "stub"] /\ Spared(i)
       \/ /\ i \in job.staged /\ Spend("fault")
          /\ \E content \in {core[o], "stub", job.snap} : core' = [core EXCEPT ![o] = content]
          /\ Failed(i)
    /\ UNCHANGED <<proxies, orphans, diskVars, mapping, lastHash, answer>>

\* #applyActivityGroups: found or created, and written, before it is mapped.
ApplyGroup(i) ==
    /\ Doing("group") /\ Current(i)
    /\ \/ \E c \in Target(i), out \in {"ok", "lost"} :
            LET o == <<i, c>> IN
            /\ Outcome(out)
            /\ core' = [core EXCEPT ![o] = IF out = "ok" THEN job.snap ELSE "stub"]
            /\ IF out = "ok"
               THEN /\ mapping' = [mapping EXCEPT ![i] = c]
                    /\ Done(i) /\ orphans' = orphans \ {o}
               ELSE /\ Failed(i) /\ UNCHANGED mapping
                    /\ orphans' = IF mapping[i] = c THEN orphans ELSE orphans \cup {o}
            /\ UNCHANGED <<proxies, diskVars, lastHash, answer>>
       \/ \E c \in Target(i) : WritesPart(i, c)
       \/ /\ Spend("fault") /\ Failed(i)
          /\ UNCHANGED <<coreVars, mapping, diskVars, lastHash, answer>>

\* Faulty variant: the mapping goes although the object may not.
ForgetsBlindly(out) == TRUE

\* MappingStore.remove follows a deletion that was confirmed.
Forgets(out) == out = "ok"

\* Deleting a mapped object.  One that is missing counts as deleted, but not a
\* dock that an application prunes: it is tried again every time.
Missed(i) == ~Present(<<i, mapping[i]>>) /\ Kind[i] = "dock" /\ job.snap # Removal
Deletes(i) ==
    IF Missed(i) THEN UNCHANGED <<core, mapping, budget>>
    ELSE \E out \in {"ok", "refused", "lost"} :
            /\ Outcome(out)
            /\ core' = IF out = "refused" \/ ~Present(<<i, mapping[i]>>) THEN core
                       ELSE [core EXCEPT ![<<i, mapping[i]>>] = "gone"]
            /\ mapping' = IF Forgets(out) THEN [mapping EXCEPT ![i] = None] ELSE mapping

\* #pruneMapped, after the last current record of the phase.
PruneItem(i) ==
    /\ job # None /\ job.snap # Removal
    /\ i \in job.todo /\ job.todo \cap Carries[job.snap] = {}
    /\ Deletes(i) /\ Done(i)
    /\ UNCHANGED <<proxies, orphans, diskVars, lastHash, answer>>

\* Listing the resources, and listing the docks, may throw.
ListFails ==
    /\ Doing("keep") \/ (Doing("named") /\ Phases[job.phase].kind = "dock")
    /\ job.todo = Records(job.snap, job.phase)
    /\ Spend("fault") /\ Thrown(FALSE)
    /\ UNCHANGED <<coreVars, diskVars, mapping, lastHash>>

\* #pruneProxyEntities: proxies of the previous catalog only, and only after
\* a flawless application; one that cannot be deleted is left.
PruneProxies ==
    /\ Doing("obsolete")
    /\ \E kept \in SUBSET (job.obsolete \cap proxies) :
        /\ IF Prune /\ ~job.errors
           THEN /\ proxies' = proxies \ (job.obsolete \ kept)
                /\ IF kept = {} THEN UNCHANGED budget ELSE Spend("fault")
           ELSE kept = {} /\ UNCHANGED <<proxies, budget>>
    /\ job' = [job EXCEPT !.phase = @ + 1]
    /\ UNCHANGED <<core, orphans, diskVars, mapping, lastHash, answer>>

\* Faulty variant: only an error that was thrown fails it.
SucceededUnlessThrown == TRUE

\* finishReport: an error that was only recorded fails the application too.
Succeeded == ~job.errors

\* The end of apply: mappings.save, the report, operationCache.put.
Save ==
    /\ Doing("save")
    /\ disk' = mapping /\ job' = None
    /\ Answered(job.snap, Succeeded, FALSE)
    /\ operations' = IF Succeeded THEN operations \cup {job.snap} ELSE operations
    /\ lastHash' = IF Succeeded THEN job.snap ELSE lastHash
    /\ UNCHANGED <<coreVars, catalog, mapping, budget>>

-----------------------------------------------------------------------------
(* Removing everything again: purgeSynchronized and SatellitePurger.       *)

\* The Primary names the resources of its current snapshot too.
BeginPurge ==
    /\ Spend("purge")
    /\ IF job # None
       THEN Answered(Removal, FALSE, FALSE) /\ UNCHANGED job
       ELSE /\ \E s \in Snapshots :
                  job' = [snap |-> Removal, phase |-> 1,
                          todo |-> Mapped \cup {i \in Carries[s] : Kind[i] = "resource"}]
            /\ UNCHANGED answer
    /\ UNCHANGED <<coreVars, diskVars, mapping, lastHash>>

Purging(kind) == job # None /\ job.snap = Removal /\ PurgeOrder[job.phase] = kind

PurgeItem(i) ==
    /\ job # None /\ i \in job.todo /\ Purging(Kind[i])
    /\ Done(i)
    /\ IF mapping[i] # None THEN Deletes(i)
       ELSE \E out \in {"ok", "refused"} :    \* a resource never recorded
               /\ Outcome(out)
               /\ core' = IF out = "ok" /\ Present(<<i, 0>>)
                          THEN [core EXCEPT ![<<i, 0>>] = "gone"] ELSE core
               /\ UNCHANGED mapping
    /\ UNCHANGED <<proxies, orphans, diskVars, lastHash, answer>>

PurgeProceed ==
    /\ \E kind \in Kinds : Purging(kind) /\ \A i \in job.todo : Kind[i] # kind
    /\ job' = [job EXCEPT !.phase = @ + 1]
    /\ UNCHANGED <<coreVars, diskVars, mapping, lastHash, answer, budget>>

\* The proxies of the current catalog; one that cannot be deleted is a warning.
PurgeProxies ==
    /\ Purging("proxies")
    /\ \E kept \in SUBSET (Catalogued(catalog) \cap proxies) :
        /\ proxies' = proxies \ (Catalogued(catalog) \ kept)
        /\ IF kept = {} THEN UNCHANGED budget ELSE Spend("fault")
    /\ job' = [job EXCEPT !.phase = @ + 1]
    /\ UNCHANGED <<core, orphans, diskVars, mapping, lastHash, answer>>

PurgeEnds ==
    /\ Purging("save")
    /\ disk' = mapping /\ job' = None
    /\ catalog' = [e \in Entities |-> None] /\ lastHash' = None
    /\ Answered(Removal, TRUE, FALSE)
    /\ UNCHANGED <<coreVars, operations, mapping, budget>>

-----------------------------------------------------------------------------
(* What happens around the Satellite.                                      *)

\* The process dies: mappings not saved are forgotten.
Crash ==
    /\ Spend("crash")
    /\ job' = None /\ lastHash' = None /\ mapping' = disk
    /\ orphans' = orphans \cup {o \in Objects : Synced(core[o]) /\ disk[o[1]] # o[2]}
    /\ UNCHANGED <<core, proxies, diskVars, answer>>

\* The owner of the remote deletes a mirrored object (while none is applied).
UserDeletes(o) ==
    /\ job = None /\ Synced(core[o]) /\ Spend("user")
    /\ core' = [core EXCEPT ![o] = "gone"]
    /\ UNCHANGED <<proxies, orphans, diskVars, mapping, lastHash, job, answer>>

\* OperationCache.prune drops an entry that is old, or one too many.
Expire(s) ==
    /\ s \in operations /\ job = None /\ Spend("user")
    /\ operations' = operations \ {s}
    /\ UNCHANGED <<coreVars, catalog, disk, mapping, lastHash, job, answer>>

ItemStep(i) ==
    \/ ApplyResource(i) \/ ApplyDock(i) \/ ApplyProfile(i) \/ Stage(i) \/ Finish(i)
    \/ ApplyGroup(i) \/ PruneItem(i) \/ PurgeItem(i)

JobStep ==
    \/ Proceed \/ ApplyProxies \/ ListFails \/ PruneProxies \/ Save
    \/ PurgeProceed \/ PurgeProxies \/ PurgeEnds
    \/ \E i \in Items : ItemStep(i)

Next ==
    \/ JobStep
    \/ \E s \in Snapshots : Receive(s) \/ ReceiveBusy(s) \/ Expire(s)
    \/ BeginPurge \/ Crash
    \/ \E o \in Objects : UserDeletes(o)

Spec == Init /\ [][Next]_vars

-----------------------------------------------------------------------------
(* Properties.                                                             *)

\* Every object that was written on behalf of the Primary is the one the
\* mappings name for its item, so that it is updated, never doubled, and can be
\* removed; except objects whose creation the driver never learned of or
\* forgot in a crash.  (apply/index.js:274, :501, purge.js:132)
Tracked ==
    \A o \in Objects : Synced(core[o]) => mapping[o[1]] = o[2] \/ o \in orphans

\* The Core has an item of s under its mapping, with the content of s; the
\* content of a resource is not looked at unless hashes are compared.
HasItem(i, s) ==
    /\ mapping[i] # None /\ Present(<<i, mapping[i]>>)
    /\ (Kind[i] = "resource" /\ ~VerifyHashes) \/ core[<<i, mapping[i]>>] = s

\* It has the proxy that an entity of s was given.
HasProxy(e, s) ==
    catalog[e] # None /\ catalog[e].cap = Caps[s][e] /\ catalog[e].id \in proxies

Lacking(s) ==
    {i \in Carries[s] : ~HasItem(i, s)}
    \cup {e \in Entities : Caps[s][e] # None /\ ~HasProxy(e, s)}

Lacks == [s \in Snapshots |-> Lacking(s)]

\* What the report of the application under way counts as skipped or warns of.
Warned == IF job = None THEN {} ELSE IF job.snap = Removal THEN {} ELSE job.spared

Mirror == INSTANCE SatelliteMirror WITH
    Nothing <- None,
    Parts   <- Items \cup Entities,
    running <- IF job = None THEN None ELSE job.snap,
    warned  <- Warned,
    lacking <- Lacks,
    done    <- operations

\* After an application answered with success the Core has everything of the
\* snapshot, except the items that the report warned of or counted as skipped;
\* nothing comes back behind an idle Satellite's back; a repeated operation is
\* confirmed only if it was carried out: the Satellite implements
\* SatelliteMirror.  (src/src/service/index.js:436-475)
ImplementsMirror == Mirror!MirrorSpec

\* An application removes only proxies that no entity of the present catalog
\* has: one that an entity keeps or gets again is not deleted with those that
\* are obsolete.  Only a removal takes all.  (apply/index.js:91)
CataloguedStay ==
    [][\A p \in proxies : p \in Catalogued(catalog) /\ p \notin proxies' => Purging("proxies")]_vars

\* What a removal could not delete stays tracked, "so a later removal retries
\* them" (README.md, Health and management): the proxies included.
UndeletedStaysTracked ==
    [][job # None /\ job.snap = Removal /\ job' = None /\ answer' # answer =>
        \A p \in proxies' : p \in Catalogued(catalog) => p \in Catalogued(catalog')]_vars
=============================================================================
