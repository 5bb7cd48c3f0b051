------------------------- MODULE ProvisioningProofs -------------------------
(***************************************************************************)
(* Proofs about Provisioning: the types, that no API key in use is revoked *)
(* and that none is forgotten, for any number of keys, setup messages and  *)
(* disturbances.                                                           *)
(***************************************************************************)
EXTENDS Provisioning, FiniteSetTheorems, TLAPS

FlowType == [state : {"pin", "approval", "done"}, pending : Keys \cup {0}, existing : Configs]
CallType == [pc : {"off", "creating", "checking", "revoking", "configuring"},
             key : Keys \cup {0}, was : Configs, confirmed : BOOLEAN]
JobPcs == {"idle", "keying", "driver", "installing", "role", "start", "asking", "waiting",
           "pairing", "restarting", "claiming", "claimed", "done", "error"}
JobType == [pc : JobPcs, key : Keys \cup {0}, update : BOOLEAN,
            seen : SUBSET Screens, tries : Nat]

\* A setup creates its key after it has read the configuration it replaces; a
\* call that creates it has none yet.
FlowKept(f) ==
    /\ f \in FlowType
    /\ f.state = "approval" => f.pending # 0
    /\ f.pending # 0 => f.existing.key < f.pending
CallKept(call) ==
    /\ call \in CallType
    /\ IF call.pc \in {"off", "creating"} THEN call.key = 0 ELSE call.was.key < call.key
    /\ call.pc = "revoking" => call.was.key # 0

\* A job gives the PIN once, and then once for a page it has not seen.
JobKept ==
    /\ job \in JobType
    /\ IsFiniteSet(job.seen) /\ job.tries <= 1 + Cardinality(job.seen)

CoreKept ==
    keys \subseteq Keys /\ made \in 0..MaxKeys /\ left \subseteq Keys /\ saved \subseteq Keys
RemoteKept ==
    /\ driver \in {"none", "old", "current"}
    /\ stored \in Configs /\ memory \in Configs /\ serving \in Roles \cup {"none"}
    /\ draft \in Configs /\ due \in BOOLEAN /\ clash \in BOOLEAN
CallsKept == calls \in [Calls -> CallType] /\ \A c \in Calls : CallKept(calls[c])
SessionKept == session \in Screens
RegistryKept ==
    /\ peer \in Keys \cup {0} /\ revoking \subseteq Keys
    /\ removal \in {"none", "revoking", "dropping"} /\ severed \in BOOLEAN

Typed ==
    /\ CoreKept /\ RemoteKept /\ FlowKept(flow) /\ CallsKept /\ SessionKept /\ JobKept
    /\ RegistryKept

\* The keys setups know or have saved, and the keys of the Primary.
SetupKeys ==
    {stored.key, memory.key, draft.key, flow.pending, flow.existing.key} \cup CallKeys \cup saved
PrimaryKeys == {peer, job.key} \cup revoking

\* Every key was made, and a setup never gets hold of a key of the Primary.
KeysApart ==
    /\ SetupKeys \cup PrimaryKeys \cup keys \subseteq 0..made
    /\ SetupKeys \cap PrimaryKeys \subseteq {0}

\* Only a key that has been saved is ever revoked by a setup: what a setup still
\* has in hand exists until then.
SavedKept ==
    /\ {stored.key, memory.key, draft.key, flow.existing.key} \subseteq saved \cup {0}
    /\ flow.pending \in saved \cup keys \cup {0}
    /\ \A c \in Calls :
          /\ calls[c].was.key \in saved \cup {0}
          /\ calls[c].key \in saved \cup keys \cup {0}
          /\ calls[c].pc \in {"revoking", "configuring"} => calls[c].key \in saved

\* Unless somebody saved over a key unseen, the saved key exists and nobody is
\* about to revoke it.
ClashKept ==
    ~clash => /\ stored.key \in keys \cup {0}
              /\ \A c \in Calls : calls[c].pc = "revoking" => calls[c].was.key # stored.key

\* The management key and the one a job works with are not being revoked, unless
\* the Satellite is being removed or that was cut short; an update works with the
\* management key and gets no further than the driver; a job that has ended left
\* its key in the configuration or gave it up.
PrimaryKept ==
    /\ peer # 0 => peer \notin revoking /\ (peer \in keys \/ severed \/ removal = "dropping")
    /\ Running /\ job.key # 0 /\ ~job.update => job.key \in keys \ revoking
    /\ job.pc = "keying" => job.key = 0
    /\ Running /\ job.update => job.pc \in {"driver", "installing"} /\ job.key = peer
    /\ ~Running /\ job.key \in keys => job.key \in {peer} \cup revoking \cup left
    /\ removal # "none" => ~Running /\ peer # 0
    /\ removal = "dropping" /\ peer \in keys => peer \in left

\* The keys of setups that are accounted for: those of configurations that are
\* merely remembered are not among them, until they are being revoked.
Solid(k) ==
    \/ k \in {stored.key, memory.key, flow.pending}
    \/ \E c \in Calls : \/ k = calls[c].key
                        \/ calls[c].pc = "revoking" /\ k = calls[c].was.key
Accounted == \A k \in keys : Solid(k) \/ k \in PrimaryKeys \cup left

ProvisioningInv ==
    Typed /\ KeysApart /\ SavedKept /\ ClashKept /\ PrimaryKept /\ Accounted

-----------------------------------------------------------------------------
(* Facts about the records.                                                *)

LEMMA KeyNumbers == 0 \notin Keys /\ \A k \in Keys \cup {0} : k \in Nat
BY ProvisioningAssumption DEF Keys

LEMMA ConfigTypes ==
    ASSUME NEW cfg \in Configs
    PROVE  /\ cfg.key \in Keys \cup {0} /\ cfg.key \in Nat
           /\ cfg.role \in Roles \cup {"none"}
           /\ cfg # NoConfig => cfg.role \in Roles /\ cfg.key \in Keys
BY ProvisioningAssumption DEF Configs, NoConfig, Keys

\* The configuration a setup saves has its key.
LEMMA SavedTypes ==
    ASSUME NEW was \in Configs, NEW key \in Keys
    PROVE  /\ Saved(was, key) \in Configs /\ Saved(was, key).key = key
           /\ Saved(was, key).role \in Roles
BY ConfigTypes DEF Configs, Saved, Roles

\* The record of a setup message: numbers, and a key that is newer.
LEMMA CallNumbers ==
    ASSUME CallsKept, NEW c \in Calls
    PROVE  /\ CallKept(calls[c]) /\ calls[c] \in CallType
           /\ calls[c].key \in Keys \cup {0} /\ calls[c].key \in Nat
           /\ calls[c].was \in Configs /\ calls[c].was.key \in Nat
           /\ calls[c].was.key \in Keys \cup {0}
           /\ calls[c].pc \notin {"off", "creating"} =>
                 calls[c].key \in Keys /\ calls[c].was.key < calls[c].key
<1>1. CallKept(calls[c])
  BY DEF CallsKept
<1>2. calls[c] \in CallType
  BY <1>1 DEF CallKept
<1>3. calls[c].key \in Keys \cup {0} /\ calls[c].was \in Configs
  BY <1>2 DEF CallType
<1>4. calls[c].key \in Nat /\ calls[c].was.key \in Nat /\ calls[c].was.key \in Keys \cup {0}
  BY <1>3, KeyNumbers, ConfigTypes
<1>5. calls[c].pc \notin {"off", "creating"} => calls[c].was.key < calls[c].key
  BY <1>1 DEF CallKept
<1>6. calls[c].was.key < calls[c].key => calls[c].key # 0
  BY <1>4
<1>7. QED
  BY <1>1, <1>2, <1>3, <1>4, <1>5, <1>6

\* A key that is made is a number not used before.
LEMMA NewKeyTypes ==
    ASSUME Typed, NewKey
    PROVE  /\ made' = made + 1 /\ made' \in Keys /\ keys' = keys \cup {made'}
           /\ made \in Nat /\ made' \in 0..MaxKeys
BY ProvisioningAssumption DEF Typed, CoreKept, Keys, NewKey

LEMMA BlankTypes ==
    /\ CallKept(NoCall) /\ NoCall.key = 0 /\ NoCall.was = NoConfig /\ NoCall.pc = "off"
    /\ FlowKept(NoFlow) /\ NoFlow.pending = 0 /\ NoFlow.existing = NoConfig
    /\ NoConfig \in Configs /\ NoConfig.key = 0
BY DEF NoCall, CallKept, CallType, NoFlow, FlowKept, FlowType, NoConfig, Configs

\* What the driver tells of a setup, and what the Core shows of it, is a screen.
Tells(state, error) == Told(state, error) \/ Shows(state, error)
LEMMA ScreenTypes ==
    ASSUME SessionKept, NEW error \in Errors \cup {0},
           NEW state \in {"none", "running", "ask", "approval", "again", "finished", "OK", "ERROR"},
           Tells(state, error)
    PROVE  SessionKept'
<1>1. error \in Errors
  BY ProvisioningAssumption DEF Errors
<1>2. QED
  BY <1>1 DEF SessionKept, Tells, Told, Shows, Screens

\* What a setup message that gets the record v leaves of the others.
LEMMA CallSet ==
    ASSUME CallsKept, NEW c \in Calls, NEW v, CallKept(v), calls' = [calls EXCEPT ![c] = v]
    PROVE  /\ CallsKept' /\ calls'[c] = v
           /\ \A d \in Calls \ {c} : calls'[d] = calls[d]
BY DEF CallsKept, CallKept

\* How a record of a setup goes on: to its next step, or back to none.
LEMMA CallGoesOn ==
    ASSUME NEW call, CallKept(call), call.pc \notin {"off", "creating"},
           NEW pc \in {"revoking", "configuring"}, pc = "revoking" => call.was.key # 0
    PROVE  LET v == [call EXCEPT !.pc = pc] IN
           /\ CallKept(v) /\ v.pc = pc /\ v.key = call.key /\ v.was = call.was
BY DEF CallKept, CallType
LEMMA CallBegins ==
    ASSUME NEW call, CallKept(call), call.pc = "off"
    PROVE  LET v == [call EXCEPT !.pc = "creating"] IN
           /\ CallKept(v) /\ v.pc = "creating" /\ v.key = 0 /\ v.was = call.was
BY DEF CallKept, CallType
LEMMA CallHasKey ==
    ASSUME NEW key \in Keys, NEW was \in Configs, was.key < key, NEW b \in BOOLEAN
    PROVE  CallKept([pc |-> "checking", key |-> key, was |-> was, confirmed |-> b])
BY DEF CallKept, CallType

-----------------------------------------------------------------------------
(* Steps of the setup on the remote: the Primary's side is untouched.      *)

\* The keys a setup can have after the step.
Known == SetupKeys \cup {0} \cup ({made'} \ {made})

LEMMA SetupKeysFrom ==
    ASSUME NEW c \in Calls, {calls'[c].key, calls'[c].was.key} \subseteq Known,
           \A d \in Calls \ {c} : calls'[d] = calls[d],
           {stored'.key, memory'.key, draft'.key, flow'.pending, flow'.existing.key} \subseteq Known,
           saved' \subseteq Known
    PROVE  SetupKeys' \subseteq Known
BY DEF SetupKeys, CallKeys, Known

\* The step revokes keys of setups only, so the Primary keeps its own.
LEMMA PrimaryStays ==
    ASSUME Typed, KeysApart, PrimaryKept, UNCHANGED primary, CoreKept',
           SetupKeys' \subseteq Known, made' \in {made, made + 1},
           keys \ SetupKeys \subseteq keys', keys' \subseteq keys \cup ({made'} \ {made}),
           left \subseteq left'
    PROVE  KeysApart' /\ PrimaryKept'
<1>1. PrimaryKeys' = PrimaryKeys
  BY DEF primary, registry, PrimaryKeys
<1>2. made \in Nat /\ made' \in Nat /\ made <= made'
  BY ProvisioningAssumption DEF Typed, CoreKept
<1>3. made' # made => made' \notin 0..made
  BY <1>2
<1>4. KeysApart'
  <2>1. SetupKeys' \cup PrimaryKeys' \cup keys' \subseteq 0..made'
    BY <1>1, <1>2 DEF KeysApart, Known
  <2>2. SetupKeys' \cap PrimaryKeys' \subseteq {0}
    BY <1>1, <1>3 DEF KeysApart, Known
  <2>3. QED
    BY <2>1, <2>2 DEF KeysApart
<1>5. ASSUME NEW k \in PrimaryKeys, k # 0
      PROVE  k \in keys <=> k \in keys'
  BY <1>3, <1>5 DEF KeysApart
<1>6. PrimaryKept'
  <2>1. peer \in PrimaryKeys /\ job.key \in PrimaryKeys
    BY DEF PrimaryKeys
  <2>2. 0 \notin keys
    BY KeyNumbers DEF Typed, CoreKept
  <2>3. job.key # 0 => (job.key \in keys <=> job.key \in keys')
    BY <1>5, <2>1
  <2>4. 0 \notin keys'
    BY KeyNumbers DEF CoreKept
  <2>5. QED
    BY <1>5, <2>1, <2>2, <2>3, <2>4 DEF PrimaryKept, primary, registry, Running
<1>7. QED
  BY <1>4, <1>6

LEMMA CreatedKeeps ==
    ASSUME ProvisioningInv, NEW c \in Calls, Created(c),
           UNCHANGED <<remote, saved, clash>>, UNCHANGED <<driver, primary>>
    PROVE  ProvisioningInv'
<1> USE DEF ProvisioningInv, remote
<1> DEFINE v == [pc |-> "checking", key |-> made', was |-> flow.existing, confirmed |-> FALSE]
<1>1. /\ made' = made + 1 /\ made' \in Keys /\ keys' = keys \cup {made'}
      /\ made \in Nat /\ made' \in 0..MaxKeys
  BY NewKeyTypes DEF Created
<1>2. flow.existing \in Configs /\ flow.existing.key < made' /\ flow.existing.key \in SetupKeys
  <2>1. flow.existing \in Configs /\ flow.existing.key \in SetupKeys
    BY DEF Typed, FlowKept, FlowType, SetupKeys
  <2>2. flow.existing.key \in 0..made
    BY <2>1 DEF KeysApart
  <2>3. QED
    BY <1>1, <2>1, <2>2
<1>3. FlowKept(flow') /\ flow'.pending = made' /\ flow'.existing = flow.existing
  <2>1. PICK f : f = flow /\ f \in FlowType
    BY DEF Typed, FlowKept
  <2>2. flow' = [f EXCEPT !.pending = made']
    BY <2>1 DEF Created
  <2>3. QED
    BY <1>1, <1>2, <2>1, <2>2, KeyNumbers DEF FlowKept, FlowType
<1>4. CallKept(v)
  BY <1>1, <1>2, CallHasKey
<1>5. calls' = [calls EXCEPT ![c] = v]
  BY DEF Created
<1>6. CallsKept' /\ calls'[c] = v /\ \A d \in Calls \ {c} : calls'[d] = calls[d]
  <2> HIDE DEF v
  <2>1. QED
    BY <1>4, <1>5, CallSet DEF Typed
<1>7. left' = left \cup ({flow.pending} \ {0, stored.key})
  BY DEF Created, GivesUp
<1>8. Typed'
  <2>1. flow.pending \in Keys \cup {0}
    BY DEF Typed, FlowKept, FlowType
  <2>2. CoreKept'
    BY <1>1, <1>7, <2>1 DEF Typed, CoreKept
  <2>3. QED
    BY <1>3, <1>6, <2>2 DEF Typed, Created, RemoteKept, SessionKept, primary, registry, RegistryKept, JobKept
<1>9. SetupKeys' \subseteq Known
  <2>1. {calls'[c].key, calls'[c].was.key} \subseteq Known
    BY <1>1, <1>2, <1>6 DEF Known
  <2>2. {stored'.key, memory'.key, draft'.key, flow'.pending, flow'.existing.key} \subseteq Known
          /\ saved' \subseteq Known
    BY <1>1, <1>2, <1>3 DEF Known, SetupKeys
  <2>3. QED
    BY <1>6, <2>1, <2>2, SetupKeysFrom
<1>10. KeysApart' /\ PrimaryKept'
  BY <1>1, <1>7, <1>8, <1>9, PrimaryStays DEF Typed
<1>11. SavedKept' /\ ClashKept'
  BY <1>1, <1>3, <1>6 DEF SavedKept, ClashKept
<1>12. Accounted'
  <2>1. calls[c].key = 0 /\ calls[c].pc = "creating" /\ 0 \notin keys
    BY KeyNumbers DEF Typed, CallsKept, CallKept, CoreKept, Created
  <2>2. ASSUME NEW k \in keys
        PROVE  Solid(k)' \/ k \in PrimaryKeys \cup left'
    BY <1>3, <1>6, <1>7, <2>1, <2>2 DEF Accounted, Solid
  <2>3. ASSUME NEW k \in {made'}
        PROVE  Solid(k)'
    BY <1>3, <2>3 DEF Solid
  <2>4. PrimaryKeys' = PrimaryKeys
    BY DEF PrimaryKeys, primary, registry
  <2>5. QED
    BY <1>1, <2>2, <2>3, <2>4 DEF Accounted
<1>13. QED
  BY <1>8, <1>10, <1>11, <1>12

LEMMA CreatedInactiveKeeps ==
    ASSUME ProvisioningInv, NEW c \in Calls, CreatedInactive(c),
           UNCHANGED <<remote, saved, clash>>, UNCHANGED <<driver, primary>>
    PROVE  ProvisioningInv'
<1> USE DEF ProvisioningInv, remote
<1>1. /\ made' = made + 1 /\ made' \in Keys /\ keys' = keys \cup {made'}
      /\ made \in Nat /\ made' \in 0..MaxKeys
  BY NewKeyTypes DEF CreatedInactive
<1>2. flow.existing.key < made' /\ flow.existing.key \in SetupKeys
  <2>1. flow.existing \in Configs /\ flow.existing.key \in SetupKeys
    BY DEF Typed, FlowKept, FlowType, SetupKeys
  <2>2. flow.existing.key \in 0..made
    BY <2>1 DEF KeysApart
  <2>3. QED
    BY <1>1, <2>1, <2>2
<1>3. FlowKept(flow') /\ flow'.pending = made' /\ flow'.existing = flow.existing
  <2>1. PICK f : f = flow /\ f \in FlowType
    BY DEF Typed, FlowKept
  <2>2. flow' = [f EXCEPT !.pending = made', !.state = "approval"]
    BY <2>1 DEF CreatedInactive
  <2>3. flow' = [state |-> "approval", pending |-> made', existing |-> f.existing]
    BY <2>1, <2>2 DEF FlowType
  <2>4. QED
    BY <1>1, <1>2, <2>1, <2>3, KeyNumbers DEF FlowKept, FlowType
<1>4. CallsKept' /\ calls'[c] = NoCall /\ \A d \in Calls \ {c} : calls'[d] = calls[d]
  BY CallSet, BlankTypes DEF Typed, CreatedInactive
<1>5. left' = left \cup ({flow.pending} \ {0, stored.key})
  BY DEF CreatedInactive, GivesUp
<1>6. Typed'
  <2>1. flow.pending \in Keys \cup {0}
    BY DEF Typed, FlowKept, FlowType
  <2>2. CoreKept'
    BY <1>1, <1>5, <2>1 DEF Typed, CoreKept
  <2>3. SessionKept'
    BY ScreenTypes DEF CreatedInactive, Typed, Tells
  <2>4. QED
    BY <1>3, <1>4, <2>2, <2>3 DEF Typed, RemoteKept, primary, registry, RegistryKept, JobKept
<1>7. SetupKeys' \subseteq Known
  <2>1. {calls'[c].key, calls'[c].was.key} \subseteq Known
    BY <1>4, BlankTypes DEF Known
  <2>2. {stored'.key, memory'.key, draft'.key, flow'.pending, flow'.existing.key} \subseteq Known
          /\ saved' \subseteq Known
    BY <1>1, <1>2, <1>3 DEF Known, SetupKeys
  <2>3. QED
    BY <1>4, <2>1, <2>2, SetupKeysFrom
<1>8. KeysApart' /\ PrimaryKept'
  BY <1>1, <1>5, <1>6, <1>7, PrimaryStays DEF Typed
<1>9. SavedKept' /\ ClashKept'
  BY <1>1, <1>3, <1>4, BlankTypes DEF SavedKept, ClashKept
<1>10. Accounted'
  <2>1. calls[c].key = 0 /\ calls[c].pc = "creating" /\ 0 \notin keys
    BY KeyNumbers DEF Typed, CallsKept, CallKept, CoreKept, CreatedInactive
  <2>2. ASSUME NEW k \in keys
        PROVE  Solid(k)' \/ k \in PrimaryKeys \cup left'
    BY <1>3, <1>4, <1>5, <2>1, <2>2 DEF Accounted, Solid
  <2>3. ASSUME NEW k \in {made'}
        PROVE  Solid(k)'
    BY <1>3, <2>3 DEF Solid
  <2>4. PrimaryKeys' = PrimaryKeys
    BY DEF PrimaryKeys, primary, registry
  <2>5. QED
    BY <1>1, <2>2, <2>3, <2>4 DEF Accounted
<1>11. QED
  BY <1>6, <1>8, <1>9, <1>10

\* The dialog shows another page; the keys it has stay.
LEMMA FlowTurns ==
    ASSUME FlowKept(flow), NEW state \in {"pin", "done"}, flow' = [flow EXCEPT !.state = state]
    PROVE  FlowKept(flow)' /\ flow'.pending = flow.pending /\ flow'.existing = flow.existing
<1>1. PICK f : f = flow /\ f \in FlowType
  BY DEF FlowKept
<1>2. flow' = [f EXCEPT !.state = state]
  BY <1>1
<1>3. QED
  BY <1>1, <1>2 DEF FlowKept, FlowType

LEMMA NotCreatedKeeps ==
    ASSUME ProvisioningInv, NEW c \in Calls, NotCreated(c),
           UNCHANGED <<remote, saved, clash>>, UNCHANGED <<driver, primary>>
    PROVE  ProvisioningInv'
<1> USE DEF ProvisioningInv, remote
<1> DEFINE New == {made'} \ {made}
<1>1. /\ made' \in 0..MaxKeys /\ made' \in {made, made + 1} /\ New \subseteq Keys
      /\ keys' = keys \cup New /\ left' = left \cup New
  <2>1. CASE UNCHANGED <<keys, made, left>>
    BY <2>1 DEF Typed, CoreKept
  <2>2. CASE NewKey /\ left' = left \cup {made'}
    BY <2>2, NewKeyTypes
  <2>3. QED
    BY <2>1, <2>2 DEF NotCreated
<1>2. FlowKept(flow') /\ flow'.pending = flow.pending /\ flow'.existing = flow.existing
  BY FlowTurns DEF NotCreated, Typed
<1>3. CallsKept' /\ calls'[c] = NoCall /\ \A d \in Calls \ {c} : calls'[d] = calls[d]
  BY CallSet, BlankTypes DEF Typed, NotCreated
<1>4. Typed'
  <2>1. CoreKept'
    BY <1>1 DEF Typed, CoreKept
  <2>2. PICK error \in Errors : Told("ask", error)
    BY DEF NotCreated
  <2>3. SessionKept'
    BY <2>2, ScreenTypes DEF Typed, Tells
  <2>4. QED
    BY <1>2, <1>3, <2>1, <2>3 DEF Typed, RemoteKept, primary, registry, RegistryKept, JobKept
<1>5. SetupKeys' \subseteq Known
  <2>1. {calls'[c].key, calls'[c].was.key} \subseteq Known
    BY <1>3, BlankTypes DEF Known
  <2>2. {stored'.key, memory'.key, draft'.key, flow'.pending, flow'.existing.key} \subseteq Known
          /\ saved' \subseteq Known
    BY <1>2 DEF Known, SetupKeys
  <2>3. QED
    BY <1>3, <2>1, <2>2, SetupKeysFrom
<1>6. KeysApart' /\ PrimaryKept'
  BY <1>1, <1>4, <1>5, PrimaryStays DEF Typed
<1>7. SavedKept' /\ ClashKept'
  BY <1>1, <1>2, <1>3, BlankTypes DEF SavedKept, ClashKept
<1>8. Accounted'
  <2>1. calls[c].key = 0 /\ calls[c].pc = "creating" /\ 0 \notin keys
    BY KeyNumbers DEF Typed, CallsKept, CallKept, CoreKept, NotCreated
  <2>2. ASSUME NEW k \in keys
        PROVE  Solid(k)' \/ k \in PrimaryKeys \cup left'
    BY <1>1, <1>2, <1>3, <2>1, <2>2 DEF Accounted, Solid
  <2>3. PrimaryKeys' = PrimaryKeys
    BY DEF PrimaryKeys, primary, registry
  <2>4. QED
    BY <1>1, <2>2, <2>3 DEF Accounted
<1>9. QED
  BY <1>4, <1>6, <1>7, <1>8

\* A setup saves its configuration over the one it knows, or there is a clash.
LEMMA CheckedKeeps ==
    ASSUME ProvisioningInv, NEW c \in Calls, Checked(c),
           UNCHANGED <<made, troubles>>, UNCHANGED <<driver, primary>>
    PROVE  ProvisioningInv'
<1> USE DEF ProvisioningInv
<1> DEFINE pc == IF Revokes(calls[c].was, calls[c].key) THEN "revoking" ELSE "configuring"
           v == [calls[c] EXCEPT !.pc = pc]
<1>1. /\ calls[c].pc = "checking" /\ CallKept(calls[c]) /\ CallsKept
      /\ calls[c].key \in Keys /\ calls[c].was \in Configs /\ calls[c].was.key < calls[c].key
      /\ calls[c].key \in Nat /\ calls[c].was.key \in Nat
  BY CallNumbers DEF Typed, Checked
<1>2. CallsKept' /\ calls'[c] = v /\ \A d \in Calls \ {c} : calls'[d] = calls[d]
  <2>1. CallKept(v)
    BY <1>1, CallGoesOn DEF Revokes
  <2>2. calls' = [calls EXCEPT ![c] = v]
    BY DEF Checked
  <2> HIDE DEF v
  <2>3. QED
    BY <1>1, <2>1, <2>2, CallSet
<1>3. calls'[c].pc = pc /\ calls'[c].key = calls[c].key /\ calls'[c].was = calls[c].was
  BY <1>1, <1>2, CallGoesOn DEF Revokes
<1>4. stored' \in Configs /\ stored'.key = calls[c].key
  BY <1>1, SavedTypes DEF Checked
<1>5. stored.key \in Nat /\ memory.key \in Nat /\ {stored.key, memory.key} \subseteq Keys \cup {0}
  BY ConfigTypes DEF Typed, RemoteKept
<1>6. Typed'
  <2>1. CoreKept'
    BY <1>1, <1>5 DEF Typed, CoreKept, Checked
  <2>2. RemoteKept'
    BY <1>4 DEF Typed, RemoteKept, Checked
  <2>3. QED
    BY <1>2, <2>1, <2>2 DEF Typed, Checked, SessionKept, FlowKept, primary, registry, RegistryKept, JobKept
<1>7. SetupKeys' \subseteq Known
  <2>1. {calls[c].key, calls[c].was.key} \subseteq SetupKeys
    BY DEF SetupKeys, CallKeys
  <2>2. {stored'.key, memory'.key, draft'.key, flow'.pending, flow'.existing.key} \subseteq Known
          /\ saved' \subseteq Known
    BY <1>4, <2>1 DEF Known, SetupKeys, Checked
  <2>3. {calls'[c].key, calls'[c].was.key} \subseteq Known
    BY <1>3, <2>1 DEF Known
  <2> HIDE DEF v
  <2>4. QED
    BY <1>2, <2>2, <2>3, SetupKeysFrom
<1>8. KeysApart' /\ PrimaryKept'
  BY <1>6, <1>7, PrimaryStays DEF Typed, Checked
<1>9. calls[c].key # 0 /\ calls[c].key \in saved \cup keys \cup {0} /\ 0 \notin keys
  BY <1>1, KeyNumbers DEF SavedKept, Typed, CoreKept
<1>10. SavedKept'
  <2>1. \A d \in Calls : /\ calls'[d].key = calls[d].key /\ calls'[d].was = calls[d].was
                         /\ d # c => calls'[d].pc = calls[d].pc
    BY <1>2, <1>3
  <2>2. /\ stored'.key \in saved' /\ calls[c].key \in saved' /\ saved \subseteq saved'
        /\ UNCHANGED <<keys, memory, draft, flow>>
    BY <1>4 DEF Checked
  <2>3. QED
    BY <2>1, <2>2 DEF SavedKept
<1>11. ClashKept'
  <2> SUFFICES ASSUME ~clash'
               PROVE  ClashKept'
    BY DEF ClashKept
  <2>1. calls[c].key \in saved => ~clash /\ calls[c].key = stored.key
    BY DEF Checked
  <2>2. stored'.key \in keys'
    BY <1>4, <1>9, <2>1 DEF ClashKept, Checked
  <2>3. ASSUME NEW d \in Calls, calls'[d].pc = "revoking"
        PROVE  calls'[d].was.key # stored'.key
    <3>1. CASE d = c
      BY <1>1, <1>3, <1>4, <3>1
    <3>2. CASE d # c
      <4>1. calls'[d] = calls[d]
        BY <1>2, <3>2
      <4>2. CASE calls[c].key \in saved
        BY <1>4, <2>1, <2>3, <4>1, <4>2 DEF ClashKept
      <4>3. CASE calls[c].key \notin saved
        BY <1>4, <1>9, <4>1, <4>3 DEF SavedKept
      <4>4. QED
        BY <4>2, <4>3
    <3>3. QED
      BY <3>1, <3>2
  <2>4. QED
    BY <2>2, <2>3 DEF ClashKept
<1>12. Accounted'
  <2>1. PrimaryKeys' = PrimaryKeys
    BY DEF PrimaryKeys, primary, registry
  <2>2. ASSUME NEW k \in keys
        PROVE  Solid(k)' \/ k \in PrimaryKeys \cup left'
    <3>1. calls[c].key = k => Solid(k)'
      BY <1>4 DEF Solid
    <3>2. calls[c].was.key = k => Solid(k)'
      <4>1. 0 \notin keys
        BY KeyNumbers DEF Typed, CoreKept
      <4>2. QED
        BY <1>3, <3>1, <4>1 DEF Solid, Revokes
    <3>3. k \in {stored.key, memory.key} => Solid(k)' \/ k \in left'
      <4>1. 0 \notin keys
        BY KeyNumbers DEF Typed, CoreKept
      <4>2. QED
        BY <3>1, <3>2, <4>1 DEF Checked
    <3>4. QED
      BY <1>1, <1>2, <1>3, <3>1, <3>2, <3>3 DEF Solid, Accounted, Checked
  <2>3. QED
    BY <2>1, <2>2 DEF Accounted, Checked
<1>13. QED
  BY <1>6, <1>8, <1>10, <1>11, <1>12

\* The service takes over what the setup saved; the setup is over.
LEMMA TakesOverKeeps ==
    ASSUME ProvisioningInv, NEW c \in Calls, TakesOver(calls[c]),
           serving' \in Roles \cup {"none"}, calls' = [calls EXCEPT ![c] = NoCall],
           FlowKept(flow)', flow'.pending = flow.pending, flow'.existing = flow.existing,
           SessionKept', UNCHANGED <<made, saved, clash>>, UNCHANGED <<driver, primary>>
    PROVE  ProvisioningInv'
<1> USE DEF ProvisioningInv
<1>1. /\ calls[c].pc = "configuring" /\ calls[c].key \in Keys /\ calls[c].was \in Configs
      /\ {calls[c].key, calls[c].was.key} \subseteq SetupKeys
  BY CallNumbers DEF Typed, TakesOver, SetupKeys, CallKeys
<1>2. CallsKept' /\ calls'[c] = NoCall /\ \A d \in Calls \ {c} : calls'[d] = calls[d]
  BY CallSet, BlankTypes DEF Typed
<1>3. calls[c].key \in saved
  BY <1>1 DEF SavedKept, TakesOver
<1>4. memory' \in Configs /\ memory'.key = calls[c].key
  BY <1>1, SavedTypes DEF TakesOver
<1>5. Typed'
  <2>1. memory.key \in Keys \cup {0}
    BY ConfigTypes DEF Typed, RemoteKept
  <2>2. CoreKept'
    BY <2>1 DEF Typed, CoreKept, TakesOver
  <2>3. RemoteKept'
    BY <1>4 DEF Typed, RemoteKept, TakesOver
  <2>4. QED
    BY <1>2, <2>2, <2>3 DEF Typed, primary, registry, JobKept, RegistryKept
<1>6. SetupKeys' \subseteq Known
  <2>1. {calls'[c].key, calls'[c].was.key} \subseteq Known
    BY <1>2, BlankTypes DEF Known
  <2>2. {stored'.key, memory'.key, draft'.key, flow'.pending, flow'.existing.key} \subseteq Known
          /\ saved' \subseteq Known
    BY <1>1, <1>3, <1>4 DEF Known, SetupKeys, TakesOver
  <2>3. QED
    BY <1>2, <2>1, <2>2, SetupKeysFrom
<1>7. KeysApart' /\ PrimaryKept'
  BY <1>5, <1>6, PrimaryStays DEF Typed, TakesOver
<1>8. SavedKept' /\ ClashKept'
  BY <1>2, <1>3, <1>4, BlankTypes DEF SavedKept, ClashKept, TakesOver
<1>9. Accounted'
  <2>1. PrimaryKeys' = PrimaryKeys
    BY DEF PrimaryKeys, primary, registry
  <2>2. ASSUME NEW k \in keys
        PROVE  Solid(k)' \/ k \in PrimaryKeys \cup left'
    <3>1. k = calls[c].key => Solid(k)'
      BY <1>4 DEF Solid
    <3>2. k = memory.key => Solid(k)' \/ k \in left'
      <4>1. 0 \notin keys
        BY KeyNumbers DEF Typed, CoreKept
      <4>2. QED
        BY <1>4, <4>1 DEF Solid, TakesOver
    <3>3. QED
      BY <1>1, <1>2, <1>3, <3>1, <3>2 DEF Solid, Accounted, TakesOver
  <2>3. QED
    BY <2>1, <2>2 DEF Accounted, TakesOver
<1>10. QED
  BY <1>5, <1>7, <1>8, <1>9

\* A page is shown again: the keys the dialog has stay.
LEMMA RefusedTypes ==
    ASSUME Typed, NEW c \in Calls, Refused(c)
    PROVE  /\ FlowKept(flow)' /\ flow'.pending = flow.pending /\ flow'.existing = flow.existing
           /\ SessionKept' /\ calls' = [calls EXCEPT ![c] = NoCall]
<1>1. FlowKept(flow)' /\ flow'.pending = flow.pending /\ flow'.existing = flow.existing
  BY FlowTurns DEF Refused, Typed, FlowKept
<1>2. PICK error \in Errors : Told(IF calls[c].confirmed THEN "again" ELSE "ask", error)
  BY DEF Refused
<1>3. SessionKept'
  BY <1>2, ScreenTypes DEF Typed, Tells
<1>4. QED
  BY <1>1, <1>3 DEF Refused

LEMMA ConfiguredKeeps ==
    ASSUME ProvisioningInv, NEW c \in Calls, Configured(c) \/ NotConfigured(c),
           UNCHANGED <<made, saved, clash>>, UNCHANGED <<driver, primary>>
    PROVE  ProvisioningInv'
<1>1. TakesOver(calls[c]) /\ serving \in Roles \cup {"none"}
  BY DEF Configured, NotConfigured, ProvisioningInv, Typed, RemoteKept
<1>2. CASE Configured(c)
  <2>1. serving' \in Roles \cup {"none"}
    BY <1>2, CallNumbers, SavedTypes DEF Configured, TakesOver, ProvisioningInv, Typed
  <2>2. FlowKept(flow)' /\ flow'.pending = flow.pending /\ flow'.existing = flow.existing
    BY <1>2, FlowTurns DEF Configured, ProvisioningInv, Typed
  <2>3. SessionKept'
    BY <1>2, ScreenTypes DEF Configured, ProvisioningInv, Typed, Tells
  <2>4. QED
    BY <1>1, <1>2, <2>1, <2>2, <2>3, TakesOverKeeps DEF Configured
<1>3. CASE NotConfigured(c)
  BY <1>1, <1>3, RefusedTypes, TakesOverKeeps DEF NotConfigured, ProvisioningInv
<1>4. QED
  BY <1>2, <1>3

LEMMA NotCheckedKeeps ==
    ASSUME ProvisioningInv, NEW c \in Calls, NotChecked(c),
           UNCHANGED <<made, saved, clash>>, UNCHANGED <<driver, primary>>
    PROVE  ProvisioningInv'
<1> USE DEF ProvisioningInv, remote
<1>1. calls[c].pc = "checking" /\ calls[c].key \in Keys
  BY CallNumbers DEF Typed, NotChecked
<1>2. CallsKept' /\ calls'[c] = NoCall /\ \A d \in Calls \ {c} : calls'[d] = calls[d]
  BY CallSet, BlankTypes, RefusedTypes DEF Typed, NotChecked
<1>3. FlowKept(flow)' /\ flow'.pending = flow.pending /\ flow'.existing = flow.existing
  BY RefusedTypes DEF NotChecked
<1>4. Typed'
  <2>1. CoreKept'
    BY <1>1 DEF Typed, CoreKept, NotChecked
  <2>2. SessionKept'
    BY RefusedTypes DEF NotChecked
  <2>3. QED
    BY <1>2, <1>3, <2>1, <2>2 DEF Typed, RemoteKept, primary, registry, RegistryKept, JobKept, NotChecked
<1>5. SetupKeys' \subseteq Known
  <2>1. {calls'[c].key, calls'[c].was.key} \subseteq Known
    BY <1>2, BlankTypes DEF Known
  <2>2. {stored'.key, memory'.key, draft'.key, flow'.pending, flow'.existing.key} \subseteq Known
          /\ saved' \subseteq Known
    BY <1>3 DEF Known, SetupKeys, NotChecked
  <2>3. QED
    BY <1>2, <2>1, <2>2, SetupKeysFrom
<1>6. KeysApart' /\ PrimaryKept'
  BY <1>4, <1>5, PrimaryStays DEF Typed, NotChecked
<1>7. SavedKept' /\ ClashKept'
  BY <1>2, <1>3, BlankTypes DEF SavedKept, ClashKept, NotChecked
<1>8. Accounted'
  <2>1. PrimaryKeys' = PrimaryKeys
    BY DEF PrimaryKeys, primary, registry
  <2>2. ASSUME NEW k \in keys
        PROVE  Solid(k)' \/ k \in PrimaryKeys \cup left'
    BY <1>1, <1>2, <1>3 DEF Solid, Accounted, NotChecked
  <2>3. QED
    BY <2>1, <2>2 DEF Accounted, NotChecked
<1>9. QED
  BY <1>4, <1>6, <1>7, <1>8

\* A setup revokes the key of the configuration it replaced: an older key than
\* the saved one, unless there was a clash.
LEMMA RevokedKeeps ==
    ASSUME ProvisioningInv, NEW c \in Calls, Revoked(c),
           UNCHANGED <<made, saved, clash>>, UNCHANGED <<driver, primary>>
    PROVE  ProvisioningInv'
<1> USE DEF ProvisioningInv, remote
<1> DEFINE v == [calls[c] EXCEPT !.pc = "configuring"]
<1>1. /\ calls[c].pc = "revoking" /\ CallKept(calls[c]) /\ calls[c].was.key \in Keys \cup {0}
      /\ calls[c].was.key \in Nat /\ calls[c].was.key # 0
      /\ {calls[c].key, calls[c].was.key} \subseteq SetupKeys
  BY CallNumbers DEF Typed, Revoked, SetupKeys, CallKeys, CallKept
<1>2. v.pc = "configuring" /\ v.key = calls[c].key /\ v.was = calls[c].was /\ CallKept(v)
  BY <1>1, CallGoesOn
<1>3. calls' = [calls EXCEPT ![c] = v]
  BY DEF Revoked
<1> HIDE DEF v
<1>4. CallsKept' /\ calls'[c] = v /\ \A d \in Calls \ {c} : calls'[d] = calls[d]
  BY <1>2, <1>3, CallSet DEF Typed
<1>5. /\ keys \ {calls[c].was.key} \subseteq keys' /\ keys' \subseteq keys
      /\ left \subseteq left' /\ left' \subseteq left \cup (keys \cap {calls[c].was.key})
                                                     \cup {calls[c].was.key}
      /\ calls[c].was.key \in keys' => calls[c].was.key \in left'
  BY DEF Revoked
<1>6. Typed'
  <2>1. CoreKept'
    <3>1. CASE keys' = keys \ {calls[c].was.key} /\ UNCHANGED <<left, troubles>>
      BY <3>1 DEF Typed, CoreKept
    <3>2. CASE left' = left \cup {calls[c].was.key} /\ UNCHANGED keys
      BY <1>1, <3>2 DEF Typed, CoreKept
    <3>3. QED
      BY <3>1, <3>2 DEF Revoked
  <2>2. QED
    BY <1>4, <2>1 DEF Typed, RemoteKept, primary, registry, RegistryKept, JobKept, Revoked, SessionKept, FlowKept
<1>7. SetupKeys' \subseteq Known
  <2>1. {calls'[c].key, calls'[c].was.key} \subseteq Known
    BY <1>1, <1>2, <1>4 DEF Known
  <2>2. {stored'.key, memory'.key, draft'.key, flow'.pending, flow'.existing.key} \subseteq Known
          /\ saved' \subseteq Known
    BY DEF Known, SetupKeys, Revoked
  <2>3. QED
    BY <1>4, <2>1, <2>2, SetupKeysFrom
<1>8. KeysApart' /\ PrimaryKept'
  BY <1>1, <1>5, <1>6, <1>7, PrimaryStays DEF Typed
<1>9. SavedKept' /\ ClashKept'
  <2>1. \A d \in Calls : calls'[d].key = calls[d].key /\ calls'[d].was = calls[d].was
                         /\ (calls'[d].pc = "revoking" => calls[d].pc = "revoking")
                         /\ (d # c => calls'[d].pc = calls[d].pc)
    BY <1>2, <1>4
  <2>2. calls[c].was.key \in saved /\ calls[c].key \in saved /\ UNCHANGED <<remote, saved, clash, flow>>
    BY <1>1 DEF SavedKept, Revoked
  <2>3. SavedKept'
    BY <1>5, <2>1, <2>2 DEF SavedKept
  <2>4. ~clash => calls[c].was.key # stored.key
    BY <1>1 DEF ClashKept
  <2>5. ClashKept'
    BY <1>5, <2>1, <2>2, <2>4 DEF ClashKept
  <2>6. QED
    BY <2>3, <2>5
<1>10. Accounted'
  <2>1. PrimaryKeys' = PrimaryKeys
    BY DEF PrimaryKeys, primary, registry
  <2>2. ASSUME NEW k \in keys'
        PROVE  Solid(k)' \/ k \in PrimaryKeys \cup left'
    <3>1. k = calls[c].key => k = calls'[c].key
      BY <1>2, <1>4
    <3>2. QED
      BY <1>2, <1>4, <1>5, <3>1 DEF Solid, Accounted, Revoked
  <2>3. QED
    BY <2>1, <2>2 DEF Accounted
<1>11. QED
  BY <1>6, <1>8, <1>9, <1>10

LEMMA SetupKeeps ==
    ASSUME ProvisioningInv, NEW c \in Calls, SetupStep(c)
    PROVE  ProvisioningInv'
BY CreatedKeeps, CreatedInactiveKeeps, NotCreatedKeeps, CheckedKeeps, ConfiguredKeeps,
   NotCheckedKeeps, RevokedKeeps DEF SetupStep

-----------------------------------------------------------------------------
(* Steps of the dialog, of roles and restarts: no key comes or goes.       *)

\* The setup's side of the invariant, whatever the Primary does in this step.
SetupMoves ==
    /\ CallsKept' /\ FlowKept(flow)' /\ SessionKept' /\ RemoteKept' /\ CoreKept'
    /\ SetupKeys' \subseteq SetupKeys \cup {0}
    /\ SavedKept' /\ ClashKept'
    /\ \A k \in keys : Solid(k) => Solid(k)' \/ k \in left'
    /\ left \subseteq left' /\ UNCHANGED <<keys, made, saved>>

LEMMA SetupMovesKeeps ==
    ASSUME ProvisioningInv, SetupMoves, UNCHANGED primary
    PROVE  ProvisioningInv'
<1> USE DEF ProvisioningInv, SetupMoves
<1>1. Typed'
  BY DEF Typed, primary, registry, RegistryKept, JobKept
<1>2. KeysApart' /\ PrimaryKept'
  BY PrimaryStays DEF Known
<1>3. PrimaryKeys' = PrimaryKeys
  BY DEF PrimaryKeys, primary, registry
<1>4. Accounted'
  BY <1>3 DEF Accounted
<1>5. QED
  BY <1>1, <1>2, <1>4

\* The setups under way go on as they are, or are gone.
LEMMA SetupKeysKept ==
    ASSUME \A d \in Calls : calls'[d] = calls[d] \/ calls'[d] = NoCall,
           {stored'.key, memory'.key, draft'.key, flow'.pending, flow'.existing.key}
               \subseteq SetupKeys \cup {0},
           saved' \subseteq SetupKeys
    PROVE  SetupKeys' \subseteq SetupKeys \cup {0}
BY BlankTypes DEF SetupKeys, CallKeys

\* What is given up is a key, if it is not 0.
LEMMA GivenUpTypes ==
    ASSUME CoreKept, NEW ks, ks \subseteq Keys \cup {0}, GivesUp(ks), UNCHANGED <<keys, made, saved>>
    PROVE  CoreKept' /\ left \subseteq left' /\ \A k \in ks \ {0, stored.key} : k \in left'
BY DEF CoreKept, GivesUp

LEMMA FlowNumbers ==
    ASSUME Typed
    PROVE  /\ flow \in FlowType /\ flow.pending \in Keys \cup {0} /\ flow.pending \in Nat
           /\ flow.existing \in Configs /\ stored.key \in Keys \cup {0} /\ stored.key \in Nat
           /\ memory.key \in Keys \cup {0} /\ memory.key \in Nat
           /\ stored \in Configs /\ memory \in Configs /\ 0 \notin keys
BY KeyNumbers, ConfigTypes DEF Typed, FlowKept, FlowType, RemoteKept, CoreKept

LEMMA AbortMoves ==
    ASSUME ProvisioningInv, Aborts, UNCHANGED <<remote, driver, saved, clash, keys, made>>
    PROVE  SetupMoves
<1> USE FlowNumbers DEF ProvisioningInv, remote
<1>1. CoreKept' /\ left \subseteq left' /\ \A k \in {flow.pending} \ {0, stored.key} : k \in left'
  BY GivenUpTypes DEF Aborts, Typed
<1>2. FlowKept(flow)' /\ flow'.pending = 0 /\ flow'.existing.key = 0 /\ calls' = calls
  BY BlankTypes DEF Aborts
<1>3. SessionKept' /\ CallsKept' /\ RemoteKept'
  BY <1>2, ScreenTypes DEF Aborts, Typed, Tells, CallsKept, RemoteKept
<1>4. SetupKeys' \subseteq SetupKeys \cup {0}
  <2>1. {stored'.key, memory'.key, draft'.key, flow'.pending, flow'.existing.key}
            \subseteq SetupKeys \cup {0}
        /\ saved' \subseteq SetupKeys
    BY <1>2 DEF SetupKeys
  <2>2. QED
    BY <1>2, <2>1, SetupKeysKept
<1>5. SavedKept' /\ ClashKept'
  BY <1>2 DEF SavedKept, ClashKept
<1>6. \A k \in keys : Solid(k) => Solid(k)' \/ k \in left'
  BY <1>1, <1>2 DEF Solid
<1>7. QED
  BY <1>1, <1>2, <1>3, <1>4, <1>5, <1>6 DEF SetupMoves

LEMMA BeginMoves ==
    ASSUME ProvisioningInv, NEW c \in Calls, NEW pin \in BOOLEAN, Begins(c, pin),
           UNCHANGED <<remote, driver, saved, clash, keys, made>>
    PROVE  SetupMoves
<1> USE FlowNumbers DEF ProvisioningInv, remote
<1>1. CoreKept' /\ left \subseteq left' /\ \A k \in {flow.pending} \ {0, stored.key} : k \in left'
  BY GivenUpTypes DEF Begins, Typed
<1>2. FlowKept(flow)' /\ flow'.pending = 0 /\ flow'.existing = stored
  BY DEF Begins, NoFlow, FlowKept, FlowType
<1>3. CallsKept' /\ \A d \in Calls : /\ calls'[d].key = calls[d].key /\ calls'[d].was = calls[d].was
                                     /\ calls'[d].pc # calls[d].pc =>
                                           {calls'[d].pc, calls[d].pc} \subseteq {"off", "creating"}
  <2> DEFINE v == [calls[c] EXCEPT !.pc = "creating"]
  <2>1. CASE pin
    <3>1. calls[c].pc = "off" /\ CallKept(calls[c]) /\ calls[c].key = 0 /\ CallsKept
      BY DEF Begins, Typed, CallsKept, CallKept
    <3>2. CallKept(v) /\ v.pc = "creating" /\ v.key = calls[c].key /\ v.was = calls[c].was
      BY <3>1, CallBegins
    <3>3. calls' = [calls EXCEPT ![c] = v]
      BY <2>1 DEF Begins
    <3> HIDE DEF v
    <3>4. CallsKept' /\ calls'[c] = v /\ \A d \in Calls \ {c} : calls'[d] = calls[d]
      BY <3>1, <3>2, <3>3, CallSet
    <3>5. QED
      BY <3>1, <3>2, <3>4
  <2>2. CASE ~pin
    BY <2>2 DEF Begins, Typed, CallsKept
  <2>3. QED
    BY <2>1, <2>2
<1>4. SessionKept' /\ RemoteKept'
  BY ScreenTypes DEF Begins, Typed, Tells, RemoteKept
<1>5. SetupKeys' \subseteq SetupKeys \cup {0}
  <2>1. {stored'.key, memory'.key, draft'.key, flow'.pending, flow'.existing.key}
            \subseteq SetupKeys \cup {0}
        /\ saved' \subseteq SetupKeys
    BY <1>2 DEF SetupKeys
  <2>2. CallKeys' = CallKeys
    BY <1>3 DEF CallKeys
  <2>3. QED
    BY <2>1, <2>2 DEF SetupKeys
<1>6. SavedKept' /\ ClashKept'
  BY <1>2, <1>3 DEF SavedKept, ClashKept
<1>7. \A k \in keys : Solid(k) => Solid(k)' \/ k \in left'
  BY <1>1, <1>2, <1>3 DEF Solid
<1>8. QED
  BY <1>1, <1>2, <1>3, <1>4, <1>5, <1>6, <1>7 DEF SetupMoves

LEMMA AnswerMoves ==
    ASSUME ProvisioningInv, NEW c \in Calls, Answers(c),
           UNCHANGED <<remote, driver, saved, clash, keys, made>>
    PROVE  SetupMoves
<1> USE FlowNumbers DEF ProvisioningInv, remote
<1>1. CallsKept' /\ \A d \in Calls : /\ calls'[d].key = calls[d].key /\ calls'[d].was = calls[d].was
                                     /\ calls'[d].pc # calls[d].pc =>
                                           {calls'[d].pc, calls[d].pc} \subseteq {"off", "creating"}
  <2> DEFINE v == [calls[c] EXCEPT !.pc = "creating"]
  <2>1. CASE flow.state = "pin"
    <3>1. calls[c].pc = "off" /\ CallKept(calls[c]) /\ calls[c].key = 0 /\ CallsKept
      BY DEF Answers, Typed, CallsKept, CallKept
    <3>2. CallKept(v) /\ v.pc = "creating" /\ v.key = calls[c].key /\ v.was = calls[c].was
      BY <3>1, CallBegins
    <3>3. calls' = [calls EXCEPT ![c] = v]
      BY <2>1 DEF Answers
    <3> HIDE DEF v
    <3>4. CallsKept' /\ calls'[c] = v /\ \A d \in Calls \ {c} : calls'[d] = calls[d]
      BY <3>1, <3>2, <3>3, CallSet
    <3>5. QED
      BY <3>1, <3>2, <3>4
  <2>2. CASE flow.state # "pin"
    BY <2>2 DEF Answers, Typed, CallsKept
  <2>3. QED
    BY <2>1, <2>2
<1>2. SessionKept' /\ RemoteKept' /\ CoreKept' /\ FlowKept(flow)'
  BY ScreenTypes DEF Answers, Typed, Tells, RemoteKept, CoreKept, FlowKept
<1>3. SetupKeys' \subseteq SetupKeys \cup {0}
  <2>1. CallKeys' = CallKeys
    BY <1>1 DEF CallKeys
  <2>2. QED
    BY <2>1 DEF SetupKeys, Answers
<1>4. SavedKept' /\ ClashKept'
  BY <1>1 DEF SavedKept, ClashKept, Answers
<1>5. \A k \in keys : Solid(k) => Solid(k)' \/ k \in left'
  BY <1>1 DEF Solid, Answers
<1>6. QED
  BY <1>1, <1>2, <1>3, <1>4, <1>5 DEF SetupMoves, Answers

\* The call that checks a key again takes it from the dialog.
LEMMA ConfirmMoves ==
    ASSUME ProvisioningInv, NEW c \in Calls, Confirms(c),
           UNCHANGED <<remote, driver, saved, clash, keys, made>>
    PROVE  SetupMoves
<1> USE FlowNumbers DEF ProvisioningInv, remote
<1>1. SessionKept' /\ RemoteKept' /\ CoreKept' /\ FlowKept(flow)'
  BY ScreenTypes DEF Confirms, Typed, Tells, RemoteKept, CoreKept, FlowKept
<1>2. CASE flow.state = "approval"
  <2> DEFINE v == [pc |-> "checking", key |-> flow.pending, was |-> flow.existing,
                   confirmed |-> TRUE]
  <2>1. calls[c].pc = "off" /\ calls[c].key = 0 /\ CallsKept
    BY DEF Confirms, Typed, CallsKept, CallKept
  <2>2. CallKept(v)
    BY <1>2, CallHasKey DEF Typed, FlowKept
  <2>3. v.pc = "checking" /\ v.key = flow.pending /\ v.was = flow.existing
    OBVIOUS
  <2>4. calls' = [calls EXCEPT ![c] = v]
    BY <1>2 DEF Confirms
  <2> HIDE DEF v
  <2>5. CallsKept' /\ calls'[c] = v /\ \A d \in Calls \ {c} : calls'[d] = calls[d]
    BY <2>1, <2>2, <2>4, CallSet
  <2>6. SetupKeys' \subseteq SetupKeys \cup {0}
    BY <2>3, <2>5 DEF SetupKeys, CallKeys, Confirms
  <2>7. SavedKept' /\ ClashKept'
    BY <2>3, <2>5 DEF SavedKept, ClashKept, Confirms
  <2>8. \A k \in keys : Solid(k) => Solid(k)' \/ k \in left'
    BY <2>1, <2>3, <2>5 DEF Solid, Confirms
  <2>9. QED
    BY <1>1, <2>5, <2>6, <2>7, <2>8 DEF SetupMoves, Confirms
<1>3. CASE flow.state # "approval"
  <2>1. UNCHANGED <<calls, flow, left>>
    BY <1>3 DEF Confirms
  <2>2. CallsKept' /\ SetupKeys' = SetupKeys /\ (SavedKept => SavedKept') /\ (ClashKept => ClashKept')
        /\ \A k \in keys : Solid(k) => Solid(k)'
    BY <2>1 DEF Typed, CallsKept, SetupKeys, CallKeys, SavedKept, ClashKept, Solid
  <2>3. QED
    BY <1>1, <2>1, <2>2 DEF SetupMoves
<1>4. QED
  BY <1>2, <1>3

\* The service saves what it has: over another key than its own, that is a clash.
\* What it goes on with is one of the configurations there were.
Overwriting ==
    /\ {stored', memory', draft'} \subseteq Configs
    /\ {stored'.key, memory'.key, draft'.key} \subseteq {stored.key, memory.key, draft.key, 0}
    /\ clash' = (clash \/ stored'.key # stored.key)
    /\ left \subseteq left' /\ left' \subseteq left \cup ({stored.key, memory.key} \ {0})
    /\ {stored.key, memory.key} \ {0, stored'.key, memory'.key} \subseteq left'
    /\ serving' = serving /\ due' \in BOOLEAN
    /\ UNCHANGED <<setup, driver, keys, made, saved>>

LEMMA OverwriteMoves ==
    ASSUME ProvisioningInv, Overwriting
    PROVE  SetupMoves
<1> USE FlowNumbers DEF ProvisioningInv, setup, Overwriting
<1>1. SessionKept' /\ CallsKept' /\ FlowKept(flow)'
  BY DEF Typed, SessionKept, CallsKept, FlowKept
<1>2. RemoteKept'
  BY DEF Typed, RemoteKept
<1>3. CoreKept'
  BY DEF Typed, CoreKept
<1>4. SetupKeys' \subseteq SetupKeys \cup {0}
  BY DEF SetupKeys, CallKeys
<1>5. SavedKept'
  BY DEF SavedKept
<1>6. ClashKept'
  <2>1. ~clash' => ~clash /\ stored'.key = stored.key
    OBVIOUS
  <2>2. QED
    BY <2>1 DEF ClashKept
<1>7. \A k \in keys : Solid(k) => Solid(k)' \/ k \in left'
  BY DEF Solid
<1>8. QED
  BY <1>1, <1>2, <1>3, <1>4, <1>5, <1>6, <1>7 DEF SetupMoves

LEMMA AssignMoves ==
    ASSUME ProvisioningInv, NEW role \in Roles, Assigned(role),
           UNCHANGED <<setup, driver, keys, made, saved>>
    PROVE  SetupMoves
<1> USE FlowNumbers DEF ProvisioningInv
<1>1. memory' \in Configs /\ memory'.key = memory.key /\ stored' = memory'
  <2>1. PICK m : m = memory /\ m \in Configs /\ m # NoConfig
    BY DEF Assigned
  <2>2. m \in [role : Roles, key : Keys] /\ memory' = [m EXCEPT !.role = role]
    BY <2>1 DEF Assigned, Configs
  <2>3. QED
    BY <2>1, <2>2 DEF Assigned, Overwrites, Configs
<1>2. draft \in Configs
  BY DEF Typed, RemoteKept
<1>3. Overwriting
  BY <1>1, <1>2 DEF Overwriting, Assigned, Overwrites
<1>4. QED
  BY <1>3, OverwriteMoves

LEMMA ResaveMoves ==
    ASSUME ProvisioningInv, Resaved \/ Drafts \/ Saves,
           UNCHANGED <<setup, driver, keys, made, saved>>
    PROVE  SetupMoves
<1> USE FlowNumbers DEF ProvisioningInv
<1>1. draft \in Configs /\ due \in BOOLEAN /\ clash \in BOOLEAN
  BY DEF Typed, RemoteKept
<1>2. CASE Resaved
  BY <1>1, <1>2, OverwriteMoves DEF Overwriting, Resaved, Overwrites
<1>3. CASE Drafts
  BY <1>1, <1>3, OverwriteMoves DEF Overwriting, Drafts
<1>4. CASE Saves
  <2>1. stored' = draft /\ draft' = NoConfig /\ serving' = serving
        /\ clash' = (clash \/ draft.key # stored.key)
    BY <1>4 DEF Saves, Overwrites
  <2>2. CASE /\ memory' = draft /\ due' = TRUE
             /\ left' = left \cup ({stored.key, memory.key} \ {0, draft.key})
    BY <1>1, <2>1, <2>2, BlankTypes, OverwriteMoves DEF Overwriting
  <2>3. CASE /\ UNCHANGED <<memory, due>>
             /\ left' = left \cup ({stored.key} \ {0, draft.key, memory.key})
    BY <1>1, <2>1, <2>3, BlankTypes, OverwriteMoves DEF Overwriting
  <2>4. QED
    BY <1>4, <2>2, <2>3 DEF Saves
<1>5. QED
  BY <1>2, <1>3, <1>4

\* The driver starts again with the saved configuration.
LEMMA StopMoves ==
    ASSUME ProvisioningInv, Stopped, driver' \in {"none", "old", "current"},
           UNCHANGED <<saved, clash, keys, made>>
    PROVE  SetupMoves
<1> USE FlowNumbers DEF ProvisioningInv
<1>1. CoreKept' /\ left \subseteq left'
      /\ \A k \in ({flow.pending, memory.key} \cup CallKeys) \ {0, stored.key} : k \in left'
  <2>1. CallKeys \subseteq Keys \cup {0}
    BY CallNumbers DEF CallKeys, Typed
  <2>2. {flow.pending, memory.key} \cup CallKeys \subseteq Keys \cup {0}
    BY <2>1
  <2>3. CoreKept /\ GivesUp({flow.pending, memory.key} \cup CallKeys)
    BY DEF Stopped, Typed
  <2>4. QED
    BY <2>2, <2>3, GivenUpTypes
<1>2. /\ stored' = stored /\ memory' = stored /\ draft' = NoConfig /\ flow' = NoFlow
      /\ \A c \in Calls : calls'[c] = NoCall
  BY DEF Stopped
<1>3. CallsKept' /\ FlowKept(flow)'
  BY <1>2, BlankTypes DEF CallsKept, CallKept, Stopped
<1>4. RemoteKept' /\ SessionKept'
  BY ConfigTypes, BlankTypes, ScreenTypes DEF Typed, RemoteKept, Tells, Stopped
<1>5. SetupKeys' \subseteq SetupKeys \cup {0}
  <2>1. {stored'.key, memory'.key, draft'.key, flow'.pending, flow'.existing.key}
            \subseteq SetupKeys \cup {0}
        /\ saved' \subseteq SetupKeys
    BY <1>2, BlankTypes DEF SetupKeys
  <2>2. QED
    BY <1>2, <2>1, SetupKeysKept
<1>6. SavedKept' /\ ClashKept'
  BY <1>2, BlankTypes DEF SavedKept, ClashKept
<1>7. \A k \in keys : Solid(k) => Solid(k)' \/ k \in left'
  BY <1>1, <1>2 DEF Solid, CallKeys
<1>8. QED
  BY <1>1, <1>3, <1>4, <1>5, <1>6, <1>7 DEF SetupMoves

LEMMA RestartMoves ==
    ASSUME ProvisioningInv, Restarts
    PROVE  SetupMoves
<1> USE FlowNumbers DEF ProvisioningInv, Restarts, setup
<1>1. CoreKept' /\ FlowKept(flow)' /\ SessionKept' /\ CallsKept'
  BY DEF Typed, CoreKept, FlowKept, SessionKept, CallsKept
<1>2. RemoteKept'
  BY ConfigTypes DEF Typed, RemoteKept
<1>3. SetupKeys' = SetupKeys /\ (SavedKept => SavedKept') /\ (ClashKept => ClashKept') /\ \A k \in keys : Solid(k) => Solid(k)'
  BY DEF SetupKeys, CallKeys, SavedKept, ClashKept, Solid
<1>4. QED
  BY <1>1, <1>2, <1>3 DEF SetupMoves

\* What the person does, in the dialog and elsewhere.
LEMMA PersonKeeps ==
    ASSUME ProvisioningInv, Person \/ Dialog \/ Restarts \/ Saves
    PROVE  ProvisioningInv'
<1>1. CASE Person
  <2>1. driver' = driver /\ driver \in {"none", "old", "current"}
    BY <1>1 DEF Person, ProvisioningInv, Typed, RemoteKept
  <2>2. SetupMoves
    BY <1>1, <2>1, BeginMoves, AbortMoves, AssignMoves, ResaveMoves, StopMoves DEF Person
  <2>3. QED
    BY <1>1, <2>2, SetupMovesKeeps DEF Person
<1>2. CASE Dialog
  <2>1. SetupMoves
    BY <1>2, AnswerMoves, ConfirmMoves DEF Dialog, history
  <2>2. QED
    BY <1>2, <2>1, SetupMovesKeeps DEF Dialog
<1>3. CASE Restarts
  BY <1>3, RestartMoves, SetupMovesKeeps DEF Restarts
<1>4. CASE Saves
  BY <1>4, ResaveMoves, SetupMovesKeeps DEF Saves
<1>5. QED
  BY <1>1, <1>2, <1>3, <1>4

-----------------------------------------------------------------------------
(* Steps of the Primary.                                                   *)

\* The setup's side rests.
LEMMA SetupRests ==
    ASSUME ProvisioningInv, UNCHANGED <<driver, remote, setup, saved, clash, keys, made>>,
           left \subseteq left', left' \subseteq Keys
    PROVE  SetupMoves
<1> USE DEF ProvisioningInv, setup, remote
<1>1. CoreKept' /\ FlowKept(flow)' /\ SessionKept' /\ CallsKept' /\ RemoteKept'
  BY DEF Typed, CoreKept, FlowKept, SessionKept, CallsKept, RemoteKept
<1>2. SetupKeys' = SetupKeys /\ (SavedKept => SavedKept') /\ (ClashKept => ClashKept') /\ \A k \in keys : Solid(k) => Solid(k)'
  BY DEF SetupKeys, CallKeys, SavedKept, ClashKept, Solid
<1>3. QED
  BY <1>1, <1>2 DEF SetupMoves

\* No key is made or revoked, and the keys of the Primary stay the same, are
\* revoked or are given up.
LEMMA PrimaryMovesKeeps ==
    ASSUME ProvisioningInv, SetupMoves, JobKept', RegistryKept',
           PrimaryKeys' \subseteq PrimaryKeys \cup {0}, PrimaryKept',
           \A k \in keys \cap PrimaryKeys : k \in PrimaryKeys' \cup left'
    PROVE  ProvisioningInv'
<1> USE DEF ProvisioningInv, SetupMoves
<1>1. Typed'
  BY DEF Typed
<1>2. KeysApart'
  <2>1. made \in Nat
    BY ProvisioningAssumption DEF Typed, CoreKept
  <2>2. SetupKeys' \cup PrimaryKeys' \cup keys' \subseteq 0..made'
    BY <2>1 DEF KeysApart
  <2>3. SetupKeys' \cap PrimaryKeys' \subseteq {0}
    BY DEF KeysApart
  <2>4. QED
    BY <2>2, <2>3 DEF KeysApart
<1>3. Accounted'
  BY DEF Accounted
<1>4. QED
  BY <1>1, <1>2, <1>3

\* The Primary's configuration rests.
LEMMA RegistryRests ==
    ASSUME RegistryKept, UNCHANGED registry
    PROVE  RegistryKept' /\ UNCHANGED <<peer, revoking, removal, severed>>
BY DEF RegistryKept, registry

LEMMA JobGoes ==
    ASSUME JobKept, NEW pc \in JobPcs, Goes(pc)
    PROVE  JobKept' /\ job'.pc = pc /\ job'.key = job.key /\ job'.update = job.update
BY DEF JobKept, JobType, Goes

\* The job goes on with its key.
LEMMA GoingOnKeeps ==
    ASSUME ProvisioningInv, SetupMoves, JobKept', UNCHANGED registry,
           Running, job'.key = job.key, job'.update = job.update, job'.pc # "keying", Running',
           job.update => job'.pc \in {"driver", "installing"}
    PROVE  ProvisioningInv'
<1>1. RegistryKept' /\ UNCHANGED <<peer, revoking, removal, severed>>
  BY RegistryRests DEF ProvisioningInv, Typed
<1>2. PrimaryKeys' = PrimaryKeys
  BY <1>1 DEF PrimaryKeys
<1>3. PrimaryKept'
  BY <1>1 DEF ProvisioningInv, PrimaryKept, SetupMoves
<1>4. QED
  BY <1>1, <1>2, <1>3, PrimaryMovesKeeps

\* The job ends, and its key is in use, being revoked or given up.
LEMMA EndingKeeps ==
    ASSUME ProvisioningInv, SetupMoves, JobKept', UNCHANGED registry,
           job'.key = job.key, ~Running', job.key \in {peer, 0} \cup left'
    PROVE  ProvisioningInv'
<1>1. RegistryKept' /\ UNCHANGED <<peer, revoking, removal, severed>>
  BY RegistryRests DEF ProvisioningInv, Typed
<1>2. PrimaryKeys' = PrimaryKeys
  BY <1>1 DEF PrimaryKeys
<1>3. 0 \notin keys /\ job'.pc # "keying"
  BY KeyNumbers DEF ProvisioningInv, Typed, CoreKept, Running
<1>4. PrimaryKept'
  BY <1>1, <1>3 DEF ProvisioningInv, PrimaryKept, SetupMoves
<1>5. QED
  BY <1>1, <1>2, <1>4, PrimaryMovesKeeps

LEMMA AddsKeeps ==
    ASSUME ProvisioningInv, Adds
    PROVE  ProvisioningInv'
<1> USE DEF ProvisioningInv
<1>1. SetupMoves
  BY SetupRests DEF Adds, Typed, CoreKept
<1>2. 0 \notin keys /\ peer \in Keys \cup {0}
  BY KeyNumbers DEF Typed, CoreKept, RegistryKept
<1>3. /\ ~Running /\ removal = "none" /\ RegistryKept'
      /\ UNCHANGED <<peer, revoking, removal, severed, keys, left>>
  BY RegistryRests DEF Adds, Typed
<1>4. CASE job' = [NoJob EXCEPT !.pc = "keying"]
  <2>1. JobKept' /\ job'.pc = "keying" /\ job'.key = 0 /\ job'.update = FALSE
    <3>1. job' = [pc |-> "keying", key |-> 0, update |-> FALSE, seen |-> {}, tries |-> 0]
      BY <1>4 DEF NoJob
    <3>2. QED
      BY <3>1, FS_EmptySet DEF JobKept, JobType, JobPcs
  <2>2. PrimaryKept'
    BY <1>3, <2>1 DEF PrimaryKept, Running
  <2>3. PrimaryKeys' \subseteq PrimaryKeys \cup {0}
    BY <1>3, <2>1 DEF PrimaryKeys
  <2>4. \A k \in keys \cap PrimaryKeys : k \in PrimaryKeys' \cup left'
    BY <1>3 DEF PrimaryKeys, PrimaryKept
  <2>5. QED
    BY <1>1, <1>3, <2>1, <2>2, <2>3, <2>4, PrimaryMovesKeeps
<1>5. CASE peer # 0 /\ job' = [NoJob EXCEPT !.pc = "driver", !.key = peer, !.update = TRUE]
  <2>1. job' = [pc |-> "driver", key |-> peer, update |-> TRUE, seen |-> {}, tries |-> 0]
    BY <1>5 DEF NoJob
  <2>2. JobKept' /\ job'.pc = "driver" /\ job'.key = peer /\ job'.update = TRUE
    BY <1>2, <2>1, FS_EmptySet DEF JobKept, JobType, JobPcs
  <2>3. PrimaryKept'
    BY <1>3, <1>5, <2>2 DEF PrimaryKept, Running
  <2>4. PrimaryKeys' \subseteq PrimaryKeys \cup {0}
    BY <1>3, <2>2 DEF PrimaryKeys
  <2>5. \A k \in keys \cap PrimaryKeys : k \in PrimaryKeys' \cup left'
    BY <1>3 DEF PrimaryKeys, PrimaryKept
  <2>6. QED
    BY <1>1, <1>3, <2>2, <2>3, <2>4, <2>5, PrimaryMovesKeeps
<1>6. QED
  BY <1>4, <1>5 DEF Adds

\* Only a key that was just made is new to the Primary.
LEMMA KeyMadeKeeps ==
    ASSUME ProvisioningInv, KeyMade
    PROVE  ProvisioningInv'
<1> USE DEF ProvisioningInv
<1>1. /\ made' = made + 1 /\ made' \in Keys /\ keys' = keys \cup {made'}
      /\ made \in Nat /\ made' \in 0..MaxKeys
  BY NewKeyTypes DEF KeyMade
<1>2. made' \notin 0..made /\ 0..made \subseteq 0..made' /\ made' \in 0..made'
  BY <1>1
<1>3. 0 \notin keys /\ job.pc = "keying" /\ job.key = 0
  BY KeyNumbers DEF Typed, CoreKept, KeyMade, PrimaryKept
<1>4. /\ FlowKept(flow)' /\ SessionKept' /\ CallsKept' /\ RemoteKept'
      /\ SetupKeys' = SetupKeys /\ SavedKept' /\ ClashKept' /\ \A k \in keys : Solid(k) => Solid(k)'
      /\ UNCHANGED <<peer, revoking, removal, severed, saved>> /\ RegistryKept'
  BY <1>1, RegistryRests DEF KeyMade, setup, remote, Typed, FlowKept, SessionKept, CallsKept, RemoteKept,
              SetupKeys, CallKeys, SavedKept, ClashKept, Solid
<1>5. /\ JobKept' /\ CoreKept' /\ left \subseteq left'
      /\ \/ Running' /\ job'.key = made' /\ job'.pc = "driver"
         \/ ~Running' /\ job'.key = 0 /\ job'.pc = "error" /\ made' \in left'
      /\ job'.update = job.update
  <2>1. CASE job' = [job EXCEPT !.pc = "driver", !.key = made'] /\ UNCHANGED <<left, troubles>>
    <3>1. PICK j : j = job /\ j \in JobType
      BY DEF Typed, JobKept
    <3>2. job' = [j EXCEPT !.pc = "driver", !.key = made']
      BY <2>1, <3>1
    <3>3. job' = [pc |-> "driver", key |-> made', update |-> j.update, seen |-> j.seen,
                  tries |-> j.tries]
      BY <3>1, <3>2 DEF JobType
    <3>4. JobKept' /\ job'.key = made' /\ job'.pc = "driver" /\ job'.update = job.update
      BY <1>1, <3>1, <3>3 DEF JobKept, JobType, JobPcs, Typed
    <3>5. CoreKept'
      BY <1>1, <1>4, <2>1 DEF Typed, CoreKept
    <3>6. QED
      BY <2>1, <3>4, <3>5 DEF Running
  <2>2. CASE Trouble /\ Fails /\ left' = left \cup {made'}
    <3>1. JobKept' /\ job'.pc = "error" /\ job'.key = 0 /\ job'.update = job.update
      BY <1>3, <2>2, JobGoes DEF Fails, Typed, JobPcs
    <3>2. CoreKept'
      BY <1>1, <1>4, <2>2 DEF Typed, CoreKept
    <3>3. QED
      BY <2>2, <3>1, <3>2 DEF Running
  <2>3. QED
    BY <2>1, <2>2 DEF KeyMade
<1>6. PrimaryKeys' \subseteq PrimaryKeys \cup {made'} /\ made' \in PrimaryKeys' \cup left'
      /\ \A k \in PrimaryKeys \ {0} : k \in PrimaryKeys'
  BY <1>3, <1>4, <1>5 DEF PrimaryKeys
<1>7. Typed'
  BY <1>4, <1>5 DEF Typed
<1>8. KeysApart'
  <2>1. SetupKeys' \cup PrimaryKeys' \cup keys' \subseteq 0..made'
    BY <1>1, <1>2, <1>4, <1>6 DEF KeysApart
  <2>2. SetupKeys' \cap PrimaryKeys' \subseteq {0}
    BY <1>2, <1>4, <1>6 DEF KeysApart
  <2>3. QED
    BY <2>1, <2>2 DEF KeysApart
<1>9. PrimaryKept'
  <2>1. made' \notin revoking
    BY <1>2 DEF KeysApart, PrimaryKeys
  <2>2. ~job.update /\ removal = "none"
    BY <1>3 DEF PrimaryKept, Running
  <2>3. 0 \notin keys'
    BY <1>5, KeyNumbers DEF CoreKept
  <2>4. QED
    BY <1>1, <1>4, <1>5, <2>1, <2>2, <2>3 DEF PrimaryKept
<1>10. Accounted'
  BY <1>1, <1>3, <1>4, <1>5, <1>6 DEF Accounted
<1>11. QED
  BY <1>4, <1>7, <1>8, <1>9, <1>10

\* Steps that take the job on with its key, or end an update.
LEMMA GoesKeeps ==
    ASSUME ProvisioningInv, SetupMoves, UNCHANGED registry, Running,
           NEW pc \in JobPcs \ {"idle", "keying", "error"}, Goes(pc),
           pc = "done" => job.update,
           job.update => pc \in {"driver", "installing", "done"}
    PROVE  ProvisioningInv'
<1>1. JobKept' /\ job'.pc = pc /\ job'.key = job.key /\ job'.update = job.update
  BY JobGoes DEF ProvisioningInv, Typed
<1>2. CASE pc = "done"
  BY <1>1, <1>2, EndingKeeps DEF Running, ProvisioningInv, PrimaryKept
<1>3. CASE pc # "done"
  BY <1>1, <1>3, GoingOnKeeps DEF Running, JobPcs
<1>4. QED
  BY <1>2, <1>3

LEMMA DriverKeeps ==
    ASSUME ProvisioningInv, DriverChecked \/ Installed
    PROVE  ProvisioningInv'
<1>1. CASE DriverChecked
  <2>1. SetupMoves
    BY <1>1, SetupRests DEF DriverChecked, ProvisioningInv, Typed, CoreKept, history
  <2>2. Running
    BY <1>1 DEF DriverChecked, Running
  <2>3. PICK pc : pc = IF driver # "current" THEN "installing"
                       ELSE IF job.update THEN "done" ELSE "role"
    OBVIOUS
  <2>4. QED
    BY <1>1, <2>1, <2>2, <2>3, GoesKeeps DEF DriverChecked, JobPcs
<1>2. CASE Installed
  <2>1. SetupMoves
    BY <1>2, StopMoves DEF Installed, history
  <2>2. Running
    BY <1>2 DEF Installed, Running
  <2>3. QED
    BY <1>2, <2>1, <2>2, GoesKeeps DEF Installed, JobPcs
<1>3. QED
  BY <1>1, <1>2

\* The remote's role decides how the job goes on; an update never gets here.
LEMMA RoleKeeps ==
    ASSUME ProvisioningInv, RoleSeen \/ RoleAwaited \/ PinPaired \/ ClaimServed
    PROVE  ProvisioningInv'
<1>1. Running /\ ~job.update
  BY DEF ProvisioningInv, PrimaryKept, RoleSeen, RoleAwaited, PinPaired, ClaimServed, Running
<1>2. CASE RoleSeen \/ RoleAwaited
  <2>1. SetupMoves
    BY <1>2, SetupRests DEF RoleSeen, RoleAwaited, ProvisioningInv, Typed, CoreKept, history
  <2>2. QED
    BY <1>1, <1>2, <2>1, GoesKeeps DEF RoleSeen, RoleAwaited, JobPcs
<1>3. CASE PinPaired
  <2>1. SetupMoves
    <3>1. CASE memory.role = "unassigned"
      BY <1>3, <3>1, AssignMoves DEF PinPaired, Roles
    <3>2. CASE memory.role # "unassigned"
      BY <1>3, <3>2, SetupRests DEF PinPaired, ProvisioningInv, Typed, CoreKept
    <3>3. QED
      BY <3>1, <3>2
  <2>2. \E pc \in {"restarting", "claiming"} : Goes(pc)
    BY <1>3 DEF PinPaired
  <2>3. QED
    BY <1>1, <1>3, <2>1, <2>2, GoesKeeps DEF PinPaired, JobPcs
<1>4. CASE ClaimServed
  <2>1. SetupMoves
    BY <1>4, ResaveMoves DEF ClaimServed
  <2>2. QED
    BY <1>1, <1>4, <2>1, GoesKeeps DEF ClaimServed, JobPcs
<1>5. QED
  BY <1>2, <1>3, <1>4

\* The job runs the setup: it gives the PIN as it starts, and for each page that
\* asks for it and that it has not seen.
LEMMA WatchKeeps ==
    ASSUME ProvisioningInv, SetupWatch
    PROVE  ProvisioningInv'
<1>1. Running /\ ~job.update
  BY DEF ProvisioningInv, PrimaryKept, SetupWatch, SetupStarts, PageAnswered, SetupSeen, Running
<1>2. PICK j : j = job /\ j \in JobType
  BY DEF ProvisioningInv, Typed, JobKept
<1>3. CASE SetupStarts
  <2>1. CASE InSetup
    <3>1. SetupMoves
      BY <1>3, <2>1, AbortMoves DEF SetupStarts, SetupWatch, history
    <3>2. QED
      BY <1>1, <1>3, <2>1, <3>1, SetupMovesKeeps DEF SetupStarts, SetupWatch, primary
  <2>2. CASE ~InSetup
    <3>1. SetupMoves
      BY <1>3, <2>2, BeginMoves DEF SetupStarts, SetupWatch, history
    <3>2. job' = [j EXCEPT !.pc = "asking", !.tries = 1]
      BY <1>2, <1>3, <2>2 DEF SetupStarts
    <3>3. job' = [pc |-> "asking", key |-> j.key, update |-> j.update, seen |-> j.seen,
                  tries |-> 1]
      BY <1>2, <3>2 DEF JobType
    <3>4. JobKept' /\ job'.key = job.key /\ job'.update = job.update /\ job'.pc = "asking"
      BY <1>2, <3>3, FS_CardinalityType
         DEF ProvisioningInv, Typed, JobKept, JobType, JobPcs
    <3>5. QED
      BY <1>1, <3>1, <3>4, GoingOnKeeps DEF SetupWatch, Running
  <2>3. QED
    BY <2>1, <2>2
<1>4. CASE PageAnswered
  <2>1. SetupMoves
    BY <1>4, AnswerMoves, ConfirmMoves DEF PageAnswered, SetupWatch, history
  <2>2. PICK n \in {0, 1} : n = IF session.state = "ask" THEN 1 ELSE 0
    OBVIOUS
  <2>3. PICK seen : seen = j.seen \cup {session}
    OBVIOUS
  <2>4. seen \in SUBSET Screens /\ IsFiniteSet(seen) /\ j.tries + n <= 1 + Cardinality(seen)
    <3>1. IsFiniteSet(j.seen) /\ j.tries <= 1 + Cardinality(j.seen) /\ session \notin j.seen
      BY <1>2, <1>4 DEF PageAnswered, ProvisioningInv, Typed, JobKept
    <3>2. IsFiniteSet(seen) /\ Cardinality(seen) = Cardinality(j.seen) + 1
      BY <2>3, <3>1, FS_AddElement
    <3>3. j.tries \in Nat /\ Cardinality(j.seen) \in Nat
      BY <1>2, <3>1, FS_CardinalityType DEF JobType
    <3>4. seen \in SUBSET Screens
      BY <1>2, <2>3 DEF JobType, ProvisioningInv, Typed, SessionKept
    <3>5. QED
      BY <2>2, <3>1, <3>2, <3>3, <3>4
  <2>5. PICK tries \in Nat : tries = j.tries + n
    BY <1>2, <2>2 DEF JobType
  <2>6. job' = [pc |-> j.pc, key |-> j.key, update |-> j.update, seen |-> seen, tries |-> tries]
    <3>1. tries = IF session.state = "ask" THEN j.tries + 1 ELSE j.tries
      BY <1>2, <2>2, <2>5 DEF JobType
    <3>2. job' = [j EXCEPT !.seen = seen,
                           !.tries = IF session.state = "ask" THEN j.tries + 1 ELSE j.tries]
      BY <1>2, <1>4, <2>3 DEF PageAnswered, Seen
    <3>3. job' = [j EXCEPT !.seen = seen, !.tries = tries]
      BY <3>1, <3>2
    <3>4. QED
      BY <1>2, <3>3 DEF JobType
  <2>7. JobKept' /\ job'.key = job.key /\ job'.update = job.update /\ job'.pc = job.pc
    BY <1>2, <2>4, <2>5, <2>6 DEF JobKept, JobType
  <2>8. QED
    BY <1>1, <1>4, <2>1, <2>7, GoingOnKeeps DEF SetupWatch, Running, PageAnswered
<1>5. CASE SetupSeen
  <2>1. SetupMoves
    BY <1>5, SetupRests DEF SetupSeen, SetupWatch, ProvisioningInv, Typed, CoreKept, history
  <2>2. QED
    BY <1>1, <1>5, <2>1, GoesKeeps DEF SetupSeen, SetupWatch, JobPcs
<1>6. QED
  BY <1>3, <1>4, <1>5 DEF SetupWatch

\* The claim puts the job's key in the configuration; the one that was there is
\* to be revoked.  A removal takes it out when it is revoked, or given up.
LEMMA ClaimedKeeps ==
    ASSUME ProvisioningInv, Claimed \/ Removed
    PROVE  ProvisioningInv'
<1> USE DEF ProvisioningInv
<1>1. /\ 0 \notin keys /\ peer \in Keys \cup {0} /\ job.key \in Keys \cup {0}
      /\ revoking \subseteq Keys /\ removal \in {"none", "revoking", "dropping"}
  BY KeyNumbers DEF Typed, CoreKept, JobKept, JobType, RegistryKept
<1>2. SetupMoves
  BY SetupRests DEF Claimed, Removed, Typed, CoreKept, history
<1>3. CASE Claimed
  <2>1. JobKept' /\ job'.pc = "done" /\ job'.key = job.key /\ job'.update = job.update
    BY <1>3, JobGoes DEF Claimed, Typed, JobPcs
  <2>2. /\ peer' = job.key /\ revoking' = revoking \cup ({peer} \ {0, job.key})
        /\ Running /\ ~Running' /\ removal' = removal /\ severed' = FALSE /\ ~job.update
    BY <1>3, <2>1 DEF Claimed, SupersededKey, Running, PrimaryKept
  <2>3. PrimaryKept'
    BY <1>1, <1>2, <2>1, <2>2 DEF PrimaryKept, SetupMoves
  <2>4. PrimaryKeys' \subseteq PrimaryKeys \cup {0}
        /\ \A k \in keys \cap PrimaryKeys : k \in PrimaryKeys' \cup left'
    BY <1>1, <2>1, <2>2 DEF PrimaryKeys
  <2>5. RegistryKept'
    BY <1>1, <2>2 DEF RegistryKept
  <2>6. QED
    BY <1>1, <1>2, <2>1, <2>3, <2>4, <2>5, PrimaryMovesKeeps
<1>4. CASE Removed
  <2>1. /\ removal = "dropping" /\ removal' = "none" /\ peer' = 0 /\ severed' = FALSE
        /\ UNCHANGED <<job, revoking, left, keys>>
    BY <1>4 DEF Removed
  <2>2. ~Running /\ ~Running' /\ (peer \in keys => peer \in left)
    BY <2>1 DEF PrimaryKept, Running
  <2>3. PrimaryKept'
    BY <1>1, <2>1, <2>2 DEF PrimaryKept
  <2>4. PrimaryKeys' \subseteq PrimaryKeys \cup {0}
        /\ \A k \in keys \cap PrimaryKeys : k \in PrimaryKeys' \cup left'
    BY <2>1, <2>2 DEF PrimaryKeys
  <2>5. JobKept' /\ RegistryKept'
    BY <1>1, <2>1 DEF Typed, JobKept, RegistryKept
  <2>6. QED
    BY <1>2, <2>3, <2>4, <2>5, PrimaryMovesKeeps
<1>5. QED
  BY <1>3, <1>4

\* The Satellite is told of its removal, and may save its configuration.
LEMMA RemovalStartsKeeps ==
    ASSUME ProvisioningInv, RemovalStarts
    PROVE  ProvisioningInv'
<1> USE DEF ProvisioningInv
<1>1. SetupMoves
  <2>1. CASE Resaved
    BY <2>1, ResaveMoves DEF RemovalStarts
  <2>2. CASE UNCHANGED <<remote, left, clash>>
    BY <2>2, SetupRests DEF RemovalStarts, Typed, CoreKept
  <2>3. QED
    BY <2>1, <2>2 DEF RemovalStarts
<1>2. /\ removal = "none" /\ removal' = "revoking" /\ peer # 0 /\ ~Running
      /\ UNCHANGED <<job, peer, revoking, severed>>
  BY DEF RemovalStarts
<1>3. JobKept' /\ RegistryKept'
  BY <1>2 DEF Typed, JobKept, RegistryKept
<1>4. PrimaryKeys' = PrimaryKeys
  BY <1>2 DEF PrimaryKeys
<1>5. PrimaryKept'
  BY <1>1, <1>2 DEF PrimaryKept, Running, SetupMoves
<1>6. QED
  BY <1>1, <1>3, <1>4, <1>5, PrimaryMovesKeeps

\* The Primary ends: what it worked with is in its configuration or given up.
LEMMA PrimaryEndsKeeps ==
    ASSUME ProvisioningInv, PrimaryEnds
    PROVE  ProvisioningInv'
<1> USE DEF ProvisioningInv
<1>1. /\ job.key \in Keys \cup {0} /\ 0 \notin keys /\ peer \in Keys \cup {0}
      /\ revoking \subseteq Keys /\ severed \in BOOLEAN
  BY KeyNumbers DEF Typed, CoreKept, JobKept, JobType, RegistryKept
<1>2. /\ job' = NoJob /\ revoking' = {} /\ removal' = "none" /\ UNCHANGED <<peer, keys>>
      /\ severed' = (severed \/ peer \notin keys \cup {0})
      /\ left' = left \cup revoking \cup ({job.key} \ {0, peer})
  BY DEF PrimaryEnds
<1>3. SetupMoves
  BY <1>1, <1>2, SetupRests DEF PrimaryEnds, Typed, CoreKept
<1>4. JobKept' /\ RegistryKept'
  <2>1. job' = [pc |-> "idle", key |-> 0, update |-> FALSE, seen |-> {}, tries |-> 0]
    BY <1>2 DEF NoJob
  <2>2. JobKept'
    BY <2>1, FS_EmptySet DEF JobKept, JobType, JobPcs
  <2>3. RegistryKept'
    BY <1>1, <1>2 DEF RegistryKept
  <2>4. QED
    BY <2>2, <2>3
<1>5. PrimaryKept'
  BY <1>1, <1>2 DEF PrimaryKept, NoJob, Running
<1>6. PrimaryKeys' \subseteq PrimaryKeys \cup {0}
      /\ \A k \in keys \cap PrimaryKeys : k \in PrimaryKeys' \cup left'
  BY <1>1, <1>2 DEF PrimaryKeys, NoJob
<1>7. QED
  BY <1>3, <1>4, <1>5, <1>6, PrimaryMovesKeeps

\* A management key that is revoked is not one of a setup.
LEMMA RevokingKeeps ==
    ASSUME ProvisioningInv, NEW k \in {peer} \cup revoking, k # 0, RevokesKey(k),
           UNCHANGED <<made, driver, remote, setup, job, peer, severed, saved, clash>>,
           revoking \ {k} \subseteq revoking', revoking' \subseteq revoking,
           k = peer => removal' = "dropping" /\ ~Running,
           k # peer => k \notin revoking' /\ removal' = removal,
           removal' \in {removal, "dropping"}, removal' = "dropping" => removal # "none"
    PROVE  ProvisioningInv'
<1> USE DEF ProvisioningInv
<1>1. /\ k \in Keys /\ k \in PrimaryKeys /\ k \notin SetupKeys /\ 0 \notin keys
      /\ removal \in {"none", "revoking", "dropping"}
  BY KeyNumbers DEF Typed, PrimaryKeys, KeysApart, RegistryKept, CoreKept
<1>2. /\ keys \ {k} \subseteq keys' /\ keys' \subseteq keys
      /\ left \subseteq left' /\ left' \subseteq left \cup {k} /\ (k \in keys' => k \in left')
  BY DEF RevokesKey
<1>3. Typed'
  <2>1. CoreKept' /\ RegistryKept'
    BY <1>1, <1>2 DEF Typed, CoreKept, RegistryKept
  <2>2. QED
    BY <2>1 DEF Typed, RemoteKept, remote, setup, FlowKept, CallsKept, SessionKept, JobKept
<1>4. SetupKeys' = SetupKeys /\ PrimaryKeys' \subseteq PrimaryKeys
      /\ PrimaryKeys \ {k} \subseteq PrimaryKeys'
  BY DEF SetupKeys, CallKeys, PrimaryKeys, setup, remote
<1>5. KeysApart'
  <2>1. SetupKeys' \cup PrimaryKeys' \cup keys' \subseteq 0..made'
    BY <1>2, <1>4 DEF KeysApart
  <2>2. QED
    BY <1>4, <2>1 DEF KeysApart
<1>6. SavedKept' /\ ClashKept'
  <2>1. stored.key # k /\ flow.pending # k /\ \A c \in Calls : calls[c].key # k
    BY <1>1 DEF SetupKeys, CallKeys
  <2>2. QED
    BY <1>2, <2>1 DEF SavedKept, ClashKept, remote, setup
<1>7. PrimaryKept'
  <2>1. /\ peer # 0 => peer \notin revoking'
        /\ peer # 0 => peer \in keys' \/ severed' \/ removal' = "dropping"
    BY <1>2 DEF PrimaryKept
  <2>2. Running /\ job.key # 0 /\ ~job.update => job.key # k
    BY DEF PrimaryKept
  <2>3. ~Running /\ job.key \in keys' => job.key \in {peer} \cup revoking' \cup left'
    BY <1>2 DEF PrimaryKept
  <2>4. removal' = "dropping" /\ peer \in keys' => peer \in left'
    BY <1>1, <1>2 DEF PrimaryKept
  <2>5. removal' # "none" => ~Running /\ peer # 0
    BY <1>1 DEF PrimaryKept
  <2>6. QED
    BY <1>1, <1>2, <2>1, <2>2, <2>3, <2>4, <2>5 DEF PrimaryKept, Running
<1>8. Accounted'
  <2>1. ASSUME NEW n \in keys
        PROVE  Solid(n) => Solid(n)'
    BY DEF Solid, remote, setup
  <2>2. QED
    BY <1>2, <1>4, <2>1 DEF Accounted
<1>9. QED
  BY <1>3, <1>5, <1>6, <1>7, <1>8

LEMMA KeyRevokedKeeps ==
    ASSUME ProvisioningInv, KeyRevoked \/ RemovalRevokes
    PROVE  ProvisioningInv'
<1>1. CASE KeyRevoked
  <2>1. PICK k \in revoking : revoking' = revoking \ {k} /\ RevokesKey(k)
    BY <1>1 DEF KeyRevoked
  <2>2. k # 0 /\ k # peer /\ removal \in {"none", "revoking", "dropping"}
    BY KeyNumbers DEF ProvisioningInv, Typed, RegistryKept, PrimaryKept
  <2>3. removal' = "dropping" => removal # "none"
    BY <1>1 DEF KeyRevoked
  <2>4. QED
    BY <1>1, <2>1, <2>2, <2>3, RevokingKeeps DEF KeyRevoked
<1>2. CASE RemovalRevokes
  <2>1. peer # 0 /\ ~Running
    BY <1>2 DEF ProvisioningInv, PrimaryKept, RemovalRevokes
  <2>2. QED
    BY <1>2, <2>1, RevokingKeeps DEF RemovalRevokes
<1>3. QED
  BY <1>1, <1>2

\* A job that fails gives up its key, unless that is the management key.
LEMMA JobFailsKeeps ==
    ASSUME ProvisioningInv, JobFails
    PROVE  ProvisioningInv'
<1> USE FlowNumbers DEF ProvisioningInv
<1>1. job.key \in Keys \cup {0} /\ peer \in Keys \cup {0}
  BY DEF Typed, JobKept, JobType, RegistryKept
<1>2. Fails /\ UNCHANGED <<keys, made, driver, remote, registry, saved, clash>>
  BY DEF JobFails, Failed
<1>3. JobKept' /\ job'.key = job.key /\ ~Running'
  BY <1>2, JobGoes DEF Fails, Typed, JobPcs, Running
<1>4. ASSUME InSetup, flow' = NoFlow, Shows("none", 0), UNCHANGED calls,
             left' = left \cup ({flow.pending, job.key} \ {0, peer, stored.key})
      PROVE  ProvisioningInv'
  <2>1. /\ flow' = NoFlow /\ calls' = calls
        /\ left' = left \cup ({flow.pending, job.key} \ {0, peer, stored.key})
    BY <1>4
  <2>2. flow.pending # 0 => flow.pending # peer
    BY DEF KeysApart, SetupKeys, PrimaryKeys
  <2>3. job.key # 0 => job.key # stored.key
    BY DEF KeysApart, SetupKeys, PrimaryKeys
  <2>4. SetupMoves
    <3>1. FlowKept(flow)' /\ flow'.pending = 0 /\ flow'.existing.key = 0
      BY <2>1, BlankTypes
    <3>2. SessionKept' /\ CallsKept' /\ RemoteKept' /\ CoreKept'
      BY <1>1, <1>2, <1>4, <2>1, ScreenTypes DEF Typed, Tells, CallsKept, RemoteKept, CoreKept, remote
    <3>3. SetupKeys' \subseteq SetupKeys \cup {0}
      <4>1. {stored'.key, memory'.key, draft'.key, flow'.pending, flow'.existing.key}
                \subseteq SetupKeys \cup {0}
            /\ saved' \subseteq SetupKeys
        BY <1>2, <3>1 DEF SetupKeys, remote
      <4>2. QED
        BY <2>1, <4>1, SetupKeysKept
    <3>4. SavedKept' /\ ClashKept'
      BY <1>2, <2>1, <3>1 DEF SavedKept, ClashKept, remote
    <3>5. \A k \in keys : Solid(k) => Solid(k)' \/ k \in left'
      BY <1>2, <2>1, <2>2, <3>1 DEF Solid, remote
    <3>6. QED
      BY <1>2, <2>1, <3>1, <3>2, <3>3, <3>4, <3>5 DEF SetupMoves
  <2>5. job.key \in {peer, 0} \cup left'
    BY <2>1, <2>3
  <2>6. QED
    BY <1>2, <1>3, <2>4, <2>5, EndingKeeps
<1>5. ASSUME Failed, UNCHANGED setup
      PROVE  ProvisioningInv'
  <2>1. left' = left \cup ({job.key} \ {0, peer}) /\ UNCHANGED setup
    BY <1>5 DEF Failed
  <2>2. SetupMoves
    BY <1>1, <1>2, <2>1, SetupRests DEF Typed, CoreKept
  <2>3. QED
    BY <1>2, <1>3, <2>1, <2>2, EndingKeeps
<1>6. QED
  BY <1>4, <1>5 DEF JobFails

-----------------------------------------------------------------------------

LEMMA InitKeeps == ProvisioningInit => ProvisioningInv
<1> SUFFICES ASSUME ProvisioningInit PROVE ProvisioningInv OBVIOUS
<1> USE DEF ProvisioningInit
<1>1. 1 \in Keys
  BY ProvisioningAssumption DEF Keys
<1>2. stored \in Configs /\ stored.key \in {0, 1} /\ stored.role \in Roles \cup {"none"}
  BY <1>1 DEF Configs, Roles, NoConfig
<1>3. Typed
  <2>1. CoreKept
    BY <1>1, <1>2, ProvisioningAssumption DEF CoreKept, Keys
  <2>2. RemoteKept /\ SessionKept /\ RegistryKept
    <3>1. RemoteKept
      BY <1>2, BlankTypes DEF RemoteKept
    <3>2. 0 \in Errors
      BY ProvisioningAssumption DEF Errors
    <3>3. SessionKept
      BY <3>2 DEF SessionKept, Screens
    <3>4. QED
      BY <3>1, <3>3 DEF RegistryKept
  <2>3. FlowKept(flow) /\ CallsKept
    BY BlankTypes DEF CallsKept, CallKept
  <2>4. JobKept
    BY FS_EmptySet DEF JobKept, JobType, JobPcs, NoJob
  <2>5. QED
    BY <2>1, <2>2, <2>3, <2>4 DEF Typed
<1>4. \A c \in Calls : calls[c] = NoCall
  OBVIOUS
<1>5. KeysApart
  <2>1. PrimaryKeys = {0} /\ SetupKeys \subseteq {0, stored.key}
    BY <1>4, BlankTypes DEF PrimaryKeys, SetupKeys, CallKeys, NoJob
  <2>2. made = stored.key /\ keys \subseteq {0, stored.key} /\ {0, stored.key} \subseteq 0..made
    BY <1>2
  <2>3. QED
    BY <2>1, <2>2 DEF KeysApart
<1>6. SavedKept /\ ClashKept
  BY <1>2, <1>4, BlankTypes DEF SavedKept, ClashKept
<1>7. PrimaryKept
  BY DEF PrimaryKept, Running, NoJob
<1>8. Accounted
  BY DEF Accounted, Solid
<1>9. QED
  BY <1>3, <1>5, <1>6, <1>7, <1>8 DEF ProvisioningInv

LEMMA StepKeeps ==
    ASSUME ProvisioningInv, [ProvisioningNext]_vars
    PROVE  ProvisioningInv'
<1>1. CASE UNCHANGED vars
  BY <1>1, SetupRests, SetupMovesKeeps
     DEF vars, history, primary, ProvisioningInv, Typed, CoreKept
<1>2. CASE \E c \in Calls : SetupStep(c)
  BY <1>2, SetupKeeps
<1>3. CASE Restarts \/ Saves \/ Person \/ Dialog
  BY <1>3, PersonKeeps
<1>4. CASE Adds
  BY <1>4, AddsKeeps
<1>5. CASE JobStep
  BY <1>5, KeyMadeKeeps, DriverKeeps, RoleKeeps, WatchKeeps, ClaimedKeeps, JobFailsKeeps
     DEF JobStep
<1>6. CASE KeyRevoked \/ Removal \/ PrimaryEnds
  BY <1>6, KeyRevokedKeeps, RemovalStartsKeeps, ClaimedKeeps, PrimaryEndsKeeps DEF Removal
<1>7. QED
  BY <1>1, <1>2, <1>3, <1>4, <1>5, <1>6 DEF ProvisioningNext

\* The invariant says what the runs check.
LEMMA InvTypes == ProvisioningInv => ProvisioningTypeOK
<1> SUFFICES ASSUME ProvisioningInv PROVE ProvisioningTypeOK OBVIOUS
<1> USE DEF ProvisioningInv, Typed
<1>1. job.seen \subseteq Screens /\ job.tries \in 0..1 + Cardinality(job.seen)
  BY FS_CardinalityType DEF JobKept, JobType
<1>2. flow \in FlowType /\ (flow.state = "approval" => flow.pending # 0)
  BY DEF FlowKept
<1>3. calls \in [Calls -> CallType] /\ session \in Screens
  BY DEF CallsKept, SessionKept
<1>4. QED
  BY <1>1, <1>2, <1>3
     DEF ProvisioningTypeOK, CoreKept, RemoteKept, RegistryKept, FlowType, CallType

LEMMA InvKeysExist == ProvisioningInv => KeysInUseExist
<1> SUFFICES ASSUME ProvisioningInv PROVE KeysInUseExist OBVIOUS
<1>1. clash \/ stored.key \in keys \cup {0}
  BY DEF ProvisioningInv, ClashKept
<1>2. severed \/ removal = "dropping" \/ peer \in keys \cup {0}
  BY DEF ProvisioningInv, PrimaryKept
<1>3. QED
  BY <1>1, <1>2 DEF KeysInUseExist

LEMMA InvAccounted == ProvisioningInv => KeysAccounted
BY DEF ProvisioningInv, Accounted, Solid, KeysAccounted, PrimaryKeys, CallKeys

\* The states of setups, configurations, jobs and keys are what the code can
\* make of them (setup/index.js, service/satellite-provisioner.js).
THEOREM ProvisioningTypes == ProvisioningSpec => []ProvisioningTypeOK
BY InitKeeps, StepKeeps, InvTypes, PTL DEF ProvisioningSpec

\* Neither a setup that replaces a configuration nor a Primary that claims a
\* Satellite again revokes a key in use (#finish of setup/index.js, #claimSatellite
\* of service/index.js), except where somebody saved over a key they had not seen,
\* until a setup saves a new one, and in a removal of the Satellite, which
\* revokes before it drops (removeSatellite of service/satellite-manager.js).
THEOREM UsedKeysExist == ProvisioningSpec => []KeysInUseExist
BY InitKeeps, StepKeeps, InvKeysExist, PTL DEF ProvisioningSpec

\* Every key on the Core is in use, on its way into use, being revoked, or was
\* given up by a step that failed or was overtaken.
THEOREM NoKeyIsForgotten == ProvisioningSpec => []KeysAccounted
BY InitKeeps, StepKeeps, InvAccounted, PTL DEF ProvisioningSpec
=============================================================================
