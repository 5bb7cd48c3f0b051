------------------------- MODULE PeerRegistryProofs -------------------------
(***************************************************************************)
(* Proofs about PeerRegistry: the types, that no change of the             *)
(* configuration is lost, and that the Primary and its Satellites hold the *)
(* same tokens, for any operations on any registry.                        *)
(***************************************************************************)
EXTENDS PeerRegistry, SequenceTheorems, TLAPS

\* A configuration that has each Satellite once.
Unique(peers) == \A i, j \in 1..Len(peers) : peers[i].sat = peers[j].sat => i = j
Configs == {cfg \in Config : Unique(cfg.peers)}

Phases == {"new", "begun", "admitted", "called", "saved", "done"}
Replies == {Nothing, "ok", "refused", "lost"}
SatelliteType == [paired : BOOLEAN, token : Token, command : Token]
TaskType == [phase : Phases, web : BOOLEAN, ref : Nat, copy : Configs \cup {Nothing},
             index : Nat, token : Token, had : SatelliteType \cup {Nothing},
             reply : Replies, crossed : BOOLEAN, during : SUBSET Tasks]
RestartType == [ref : Nat, by : Token, seen : Nat, at : {"watcher", "agent"},
                waits : SUBSET Tasks, held : BOOLEAN]

Typed ==
    /\ program \in [Tasks -> Op] /\ task \in [Tasks -> TaskType]
    /\ objects \in Seq(Configs \cup {Nothing}) /\ current \in Nat
    /\ disk \in Configs /\ expected \in Configs
    /\ timer \in BOOLEAN /\ late \in BOOLEAN /\ agent \in {"up", "closing", "orphan"}
    /\ restarts \subseteq RestartType /\ satellite \in [Sats -> SatelliteType]
    /\ clash \in BOOLEAN /\ doubtful \subseteq Sats

-----------------------------------------------------------------------------
(* The invariant.                                                          *)

\* What somebody holds is there.
AllHeld == Live(task, current, restarts) \subseteq Held

\* What an operation holds, as its kind and its progress have it.
Busy(t) == task[t].phase \in {"begun", "called"}
TaskFits(t) ==
    /\ ~Active(t) \/ Kind(t) \in Remote => task[t].ref = 0
    /\ task[t].phase = "admitted" => Kind(t) = "push"
    /\ task[t].phase = "called" => Kind(t) \in Calls
    /\ task[t].phase = "saved" => Kind(t) = "setup" /\ task[t].ref # 0
    /\ Busy(t) => Kind(t) \notin Atomic
    /\ Busy(t) /\ Kind(t) \in InPlace \cup {"claim"} => task[t].ref # 0
    /\ Busy(t) /\ Kind(t) \in CopiesFirst => task[t].copy # Nothing
    /\ Kind(t) \in {"claim", "push"} => task[t].index \in Token
    /\ Active(t) /\ Kind(t) = "dialog" => task[t].had \in SatelliteType

\* A restart of the dialog has the object that its setup saved, and a setup
\* has one; a deferred restart has the object that was current.
RestartFits(r) ==
    /\ r.by = 0 => r.ref = r.seen
    /\ r.by # 0 =>
          /\ Kind(r.by) = "setup" /\ task[r.by].phase = "saved" /\ task[r.by].ref = r.ref
          /\ \A q \in restarts : q.by = r.by => q = r

\* Nothing that replaces the object was saved since t began; nor a removal.
Plain(t) == \A u \in task[t].during : Kind(u) \notin Replacing
Untouched(t) == Plain(t) /\ \A u \in task[t].during : Kind(u) # "remove"
Right(t) ==
    /\ task[t].index \in DOMAIN expected.peers
    /\ expected.peers[task[t].index].sat = Sat(t)

\* An operation that nothing has replaced works on the configuration as it
\* should be.
KeptTask(t) ==
    /\ Busy(t) /\ Kind(t) \in InPlace \cup {"claim"} /\ Plain(t) =>
          task[t].ref = current /\ Unsettled = {}
    /\ Busy(t) /\ Kind(t) = "remove" /\ Untouched(t) => Right(t)
    /\ Busy(t) /\ Kind(t) \in CopiesFirst /\ task[t].during = {} => task[t].copy = expected
    /\ task[t].phase = "saved" /\ task[t].during = {} => objects[task[t].ref] = expected
Kept ==
    /\ disk = expected
    /\ Unsettled = {} => objects[current] = expected
    /\ objects[current].peers = expected.peers
    /\ \A t \in Tasks : KeptTask(t)

\* The Satellite has what the entries say, or an answer is on its way that
\* explains it.
CalledFor(s) == {t \in Tasks : Kind(t) \in Calls /\ Sat(t) = s /\ task[t].phase = "called"}
Granted(s) == {t \in CalledFor(s) : task[t].reply = "ok"}
Fits(e, x) == x = [paired |-> TRUE, token |-> e.token, command |-> e.command]
Agree(s) ==
    \A i \in 1..Len(expected.peers) :
        expected.peers[i].sat = s /\ expected.peers[i].claimed => Fits(expected.peers[i], satellite[s])
AsAnswered(t) ==
    /\ Kind(t) = "claim" => Fits(Claimed(t), satellite[Sat(t)])
    /\ Kind(t) = "rotate" => satellite[Sat(t)] = [paired |-> TRUE, token |-> t, command |-> t]
Credible(s) ==
    /\ ~clash /\ s \notin doubtful /\ Granted(s) = {} => Agree(s)
    /\ \A t \in Granted(s) : ~task[t].crossed => AsAnswered(t)
    /\ \A t, u \in CalledFor(s) : t # u => task[t].crossed

\* A snapshot or a dialog that met nothing leaves its Satellite as the entries
\* say.
Visits(t) == Active(t) /\ Kind(t) \in {"push", "dialog"} /\ ~task[t].crossed
Leaves(t, e) ==
    /\ Kind(t) = "push" => e.command = task[t].index
    /\ Kind(t) = "dialog" /\ Sat(t) \notin doubtful => Fits(e, task[t].had)
VisitFits(t) ==
    Visits(t) =>
        /\ CalledFor(Sat(t)) = {}
        /\ ~clash => \A i \in 1..Len(expected.peers) :
              expected.peers[i].sat = Sat(t) /\ expected.peers[i].claimed =>
                  Leaves(t, expected.peers[i])

RegistryInv ==
    /\ Typed
    /\ AllHeld
    /\ \A t \in Tasks : TaskFits(t)
    /\ \A r \in restarts : RestartFits(r)
    /\ ~clash => Kept
    /\ \A s \in Sats : Credible(s)
    /\ \A t \in Tasks : VisitFits(t)

-----------------------------------------------------------------------------
(* Configurations.                                                         *)

LEMMA SomeEntry ==
    ASSUME NEW cfg \in Configs
    PROVE  /\ cfg \in Config /\ cfg.peers \in Seq(Entry) /\ Unique(cfg.peers)
           /\ Len(cfg.peers) \in Nat /\ DOMAIN cfg.peers = 1..Len(cfg.peers)
           /\ cfg.changes \in SUBSET Tasks
           /\ \A i \in 1..Len(cfg.peers) : cfg.peers[i] \in Entry
BY DEF Configs, Config

LEMMA EntryFields ==
    ASSUME NEW e \in Entry
    PROVE  e.sat \in Sats /\ e.token \in Token /\ e.command \in Token
           /\ e.enabled \in BOOLEAN /\ e.claimed \in BOOLEAN
BY DEF Entry

LEMMA PeersReplaced ==
    ASSUME NEW cfg \in Configs, NEW peers \in Seq(Entry), Unique(peers)
    PROVE  /\ WithPeers(cfg, peers) \in Configs
           /\ WithPeers(cfg, peers).peers = peers
BY DEF WithPeers, Configs, Config

LEMMA ChangeAdded ==
    ASSUME NEW cfg \in Configs, NEW t \in Tasks
    PROVE  /\ [cfg EXCEPT !.changes = cfg.changes \cup {t}] \in Configs
           /\ [cfg EXCEPT !.changes = cfg.changes \cup {t}].peers = cfg.peers
BY DEF Configs, Config

\* A Satellite's entry is found, and is the only one.
LEMMA FoundAt ==
    ASSUME NEW cfg \in Configs, NEW s, NEW i \in 1..Len(cfg.peers), cfg.peers[i].sat = s
    PROVE  Has(cfg, s) /\ Find(cfg, s) = i /\ Of(cfg, s) = cfg.peers[i]
<1>1. cfg.peers \in Seq(Entry) /\ DOMAIN cfg.peers = 1..Len(cfg.peers) /\ Len(cfg.peers) \in Nat
  BY SomeEntry
<1>2. \A j \in 1..Len(cfg.peers) : cfg.peers[j].sat = s => j = i
  BY DEF Configs, Unique
<1>3. \A j \in 1..i - 1 : cfg.peers[j].sat # s
  BY <1>1, <1>2
<1>4. Find(cfg, s) = i
  BY <1>1, <1>2, <1>3 DEF Find
<1>5. QED
  BY <1>1, <1>4 DEF Has, Of
LEMMA FoundIn ==
    ASSUME NEW cfg \in Configs, NEW s, Has(cfg, s)
    PROVE  /\ Find(cfg, s) \in 1..Len(cfg.peers) /\ Of(cfg, s) = cfg.peers[Find(cfg, s)]
           /\ Of(cfg, s).sat = s /\ Of(cfg, s) \in Entry
<1>1. PICK i \in 1..Len(cfg.peers) : cfg.peers[i].sat = s
  BY SomeEntry DEF Has
<1>2. QED
  BY <1>1, FoundAt, SomeEntry

\* An entry is put in the place of the Satellite's, or at the end.
LEMMA EntryPut ==
    ASSUME NEW cfg \in Configs, NEW e \in Entry
    PROVE  /\ Put(cfg, e) \in Configs
           /\ Has(cfg, e.sat) =>
                /\ Len(Put(cfg, e).peers) = Len(cfg.peers)
                /\ \A i \in 1..Len(cfg.peers) : Put(cfg, e).peers[i].sat = cfg.peers[i].sat
           /\ \A i \in 1..Len(Put(cfg, e).peers) :
                \/ Put(cfg, e).peers[i] = e
                \/ Put(cfg, e).peers[i].sat # e.sat
                   /\ \E j \in 1..Len(cfg.peers) : cfg.peers[j] = Put(cfg, e).peers[i]
<1> DEFINE seq == cfg.peers
<1>1. cfg.peers \in Seq(Entry) /\ Unique(cfg.peers) /\ DOMAIN cfg.peers = 1..Len(cfg.peers) /\ Len(cfg.peers) \in Nat
  BY SomeEntry
<1>2. CASE Has(cfg, e.sat)
  <2>1. PICK k : k = Find(cfg, e.sat)
    OBVIOUS
  <2>2. k \in 1..Len(cfg.peers) /\ cfg.peers[k].sat = e.sat
    BY <1>2, <2>1, FoundIn
  <2>3. PICK seq2 : seq2 = [seq EXCEPT ![k] = e]
    OBVIOUS
  <2>4. /\ seq2 \in Seq(Entry) /\ Len(seq2) = Len(seq) /\ seq2[k] = e
        /\ \A j \in 1..Len(seq) \ {k} : seq2[j] = seq[j]
    BY <1>1, <2>2, <2>3, ExceptSeq
  <2>5. \A j \in 1..Len(seq) : seq2[j].sat = seq[j].sat
    BY <2>2, <2>4
  <2>6. Unique(seq2)
    <3>1. \A i, j \in 1..Len(seq) : i # j => seq[i].sat # seq[j].sat
      BY <1>1 DEF Unique
    <3>2. \A i, j \in 1..Len(seq2) : i # j => seq2[i].sat # seq2[j].sat
      BY <2>4, <2>5, <3>1
    <3>3. QED
      BY <3>2 DEF Unique
  <2>7. Put(cfg, e) = WithPeers(cfg, seq2)
    BY <1>2, <2>1, <2>3 DEF Put
  <2>8. Put(cfg, e) \in Configs /\ Put(cfg, e).peers = seq2
    BY <2>4, <2>6, <2>7, PeersReplaced
  <2>9. \A i \in 1..Len(seq2) : seq2[i] = e \/ (seq2[i].sat # e.sat /\ \E j \in 1..Len(seq) : seq[j] = seq2[i])
    <3> SUFFICES ASSUME NEW i \in 1..Len(seq2), i # k
                 PROVE  seq2[i].sat # e.sat /\ seq[i] = seq2[i]
      BY <2>4
    <3>1. QED
      BY <1>1, <2>2, <2>4 DEF Unique
  <2>10. QED
    BY <2>4, <2>5, <2>8, <2>9
<1>3. CASE ~Has(cfg, e.sat)
  <2>1. PICK seq2 : seq2 = Append(seq, e)
    OBVIOUS
  <2>2. /\ seq2 \in Seq(Entry) /\ Len(seq2) = Len(seq) + 1 /\ seq2[Len(seq) + 1] = e
        /\ \A j \in 1..Len(seq) : seq2[j] = seq[j]
    BY <1>1, <2>1
  <2>3. \A j \in 1..Len(seq) : seq[j].sat # e.sat
    BY <1>1, <1>3 DEF Has
  <2>4. Unique(seq2)
    <3>1. \A i, j \in 1..Len(seq) : i # j => seq[i].sat # seq[j].sat
      BY <1>1 DEF Unique
    <3>2. \A i \in 1..Len(seq2) : i = Len(seq) + 1 \/ i \in 1..Len(seq)
      BY <2>2
    <3>3. \A i, j \in 1..Len(seq2) : i # j => seq2[i].sat # seq2[j].sat
      BY <2>2, <2>3, <3>1, <3>2
    <3>4. QED
      BY <3>3 DEF Unique
  <2>5. Put(cfg, e) = WithPeers(cfg, seq2)
    BY <1>3, <2>1 DEF Put
  <2>6. Put(cfg, e) \in Configs /\ Put(cfg, e).peers = seq2
    BY <2>2, <2>4, <2>5, PeersReplaced
  <2>7. QED
    BY <1>1, <1>3, <2>2, <2>3, <2>6
<1>4. QED
  BY <1>2, <1>3

\* An entry is taken out; the others stay.
LEMMA EntryTaken ==
    ASSUME NEW cfg \in Configs, NEW k \in Nat
    PROVE  /\ Splice(cfg, k) \in Configs
           /\ k \notin 1..Len(cfg.peers) => Splice(cfg, k) = cfg
           /\ k \in 1..Len(cfg.peers) =>
                \A i \in 1..Len(Splice(cfg, k).peers) :
                    \E j \in 1..Len(cfg.peers) : j # k /\ cfg.peers[j] = Splice(cfg, k).peers[i]
<1> DEFINE seq == cfg.peers
<1>1. cfg.peers \in Seq(Entry) /\ Unique(cfg.peers) /\ DOMAIN cfg.peers = 1..Len(cfg.peers) /\ Len(cfg.peers) \in Nat
  BY SomeEntry
<1>2. CASE k \in 1..Len(cfg.peers)
  <2>1. PICK seq2 : seq2 = RemoveAt(seq, k)
    OBVIOUS
  <2>2. /\ seq2 \in Seq(Entry) /\ Len(seq2) = Len(seq) - 1
        /\ \A i \in 1..Len(seq2) : seq2[i] = IF i < k THEN seq[i] ELSE seq[i + 1]
    <3>1. PICK s1, s2 : s1 = SubSeq(seq, 1, k - 1) /\ s2 = SubSeq(seq, k + 1, Len(seq))
      OBVIOUS
    <3>2. s1 \in Seq(Entry) /\ Len(s1) = k - 1 /\ \A i \in 1..Len(s1) : s1[i] = seq[i]
      BY <1>1, <1>2, <3>1
    <3>3. /\ s2 \in Seq(Entry) /\ Len(s2) = Len(seq) - k
          /\ \A i \in 1..Len(s2) : s2[i] = seq[k + i]
      BY <1>1, <1>2, <3>1
    <3>4. seq2 = s1 \o s2
      BY <2>1, <3>1 DEF RemoveAt
    <3>5. /\ seq2 \in Seq(Entry) /\ Len(seq2) = Len(s1) + Len(s2)
          /\ \A i \in 1..Len(s1) + Len(s2) :
                seq2[i] = IF i <= Len(s1) THEN s1[i] ELSE s2[i - Len(s1)]
      BY <3>2, <3>3, <3>4, ConcatProperties
    <3>6. ASSUME NEW i \in 1..Len(seq2)
          PROVE  seq2[i] = IF i < k THEN seq[i] ELSE seq[i + 1]
      <4>1. CASE i < k
        <5>1. i \in 1..Len(s1) /\ i <= Len(s1) /\ i \in 1..Len(s1) + Len(s2)
          BY <1>1, <1>2, <3>2, <3>3, <3>5, <4>1
        <5>2. QED
          BY <3>2, <3>5, <4>1, <5>1
      <4>2. CASE i >= k
        <5>1. PICK m \in 1..Len(s2) : m = i - Len(s1)
          BY <1>1, <1>2, <3>2, <3>3, <3>5, <4>2
        <5>2. seq2[i] = s2[m] /\ k + m = i + 1
          BY <1>1, <1>2, <3>2, <3>3, <3>5, <4>2, <5>1
        <5>3. QED
          BY <1>2, <3>3, <4>2, <5>2
      <4>3. QED
        BY <1>1, <1>2, <3>2, <3>5, <4>1, <4>2
    <3>7. QED
      BY <1>1, <1>2, <3>2, <3>3, <3>5, <3>6
  <2>3. Unique(seq2)
    <3> SUFFICES ASSUME NEW i \in 1..Len(seq2), NEW j \in 1..Len(seq2), seq2[i].sat = seq2[j].sat
                 PROVE  i = j
      BY DEF Unique
    <3>1. PICK i2 \in 1..Len(seq) : i2 = IF i < k THEN i ELSE i + 1
      BY <1>1, <1>2, <2>2
    <3>2. PICK j2 \in 1..Len(seq) : j2 = IF j < k THEN j ELSE j + 1
      BY <1>1, <1>2, <2>2
    <3>3. seq[i2] = seq2[i] /\ seq[j2] = seq2[j]
      BY <2>2, <3>1, <3>2
    <3>4. i2 = j2
      BY <1>1, <3>3 DEF Unique
    <3>5. QED
      BY <1>1, <2>2, <3>1, <3>2, <3>4
  <2>4. Splice(cfg, k) = WithPeers(cfg, seq2)
    BY <1>1, <1>2, <2>1 DEF Splice
  <2>5. Splice(cfg, k) \in Configs /\ Splice(cfg, k).peers = seq2
    BY <2>2, <2>3, <2>4, PeersReplaced
  <2>6. ASSUME NEW i \in 1..Len(seq2)
        PROVE  \E j \in 1..Len(seq) : j # k /\ seq[j] = seq2[i]
    <3>1. PICK i2 \in 1..Len(seq) : i2 = IF i < k THEN i ELSE i + 1
      BY <1>1, <1>2, <2>2
    <3>2. QED
      BY <1>1, <2>2, <3>1
  <2>7. QED
    BY <1>2, <2>5, <2>6
<1>3. CASE k \notin 1..Len(cfg.peers)
  BY <1>1, <1>3 DEF Splice
<1>4. QED
  BY <1>2, <1>3

-----------------------------------------------------------------------------
(* What an operation does to a configuration.                              *)

LEMMA TaskTypes ==
    ASSUME Typed, NEW t \in Tasks
    PROVE  /\ task[t] \in TaskType /\ Kind(t) \in Kinds /\ Sat(t) \in Sats
           /\ task[t].phase \in Phases /\ task[t].web \in BOOLEAN /\ task[t].ref \in Nat
           /\ task[t].copy \in Configs \cup {Nothing} /\ task[t].index \in Nat
           /\ task[t].token \in Token /\ task[t].reply \in Replies
           /\ task[t].had \in SatelliteType \cup {Nothing}
           /\ task[t].crossed \in BOOLEAN /\ task[t].during \in SUBSET Tasks
           /\ t \in Nat /\ t # 0 /\ t \in Token
<1>1. task[t] \in TaskType
  BY DEF Typed
<1>2. program[t] \in Op
  BY DEF Typed
<1>3. Kind(t) \in Kinds /\ Sat(t) \in Sats
  BY <1>2 DEF Op, Kind, Sat
<1>4. t \in Nat /\ t # 0 /\ t \in Token
  BY RegistryAssumption DEF Token
<1>5. QED
  BY <1>1, <1>3, <1>4 DEF TaskType

LEMMA ClaimedFits ==
    ASSUME Typed, NEW t \in Tasks, task[t].index \in Token
    PROVE  /\ Claimed(t) \in Entry /\ Claimed(t).sat = Sat(t) /\ Claimed(t).claimed
           /\ Claimed(t).token = task[t].token /\ Claimed(t).command = task[t].index
BY TaskTypes DEF Claimed, Entry

LEMMA EditedFits ==
    ASSUME Typed, NEW t \in Tasks, NEW e \in Entry
    PROVE  /\ Edited(e, t) \in Entry /\ Edited(e, t).sat = e.sat
           /\ Kind(t) = "rotate" => Edited(e, t).token = t /\ Edited(e, t).command = t
           /\ Kind(t) = "unpair" => ~Edited(e, t).claimed
           /\ Kind(t) = "toggle" =>
                /\ Edited(e, t).token = e.token /\ Edited(e, t).command = e.command
                /\ Edited(e, t).claimed = e.claimed
<1>1. t \in Token
  BY TaskTypes
<1>2. CASE Kind(t) = "rotate"
  BY <1>1, <1>2 DEF Edited, Entry
<1>3. CASE Kind(t) = "unpair"
  BY <1>1, <1>3 DEF Edited, Entry
<1>4. CASE Kind(t) \notin {"rotate", "unpair"}
  BY <1>1, <1>4 DEF Edited, Entry
<1>5. QED
  BY <1>2, <1>3, <1>4

\* What an entry of a changed configuration comes from.
Kin(e, f) == e.sat = f.sat /\ e.token = f.token /\ e.command = f.command /\ e.claimed = f.claimed
Stems(e, cfg, t) ==
    \/ /\ Kind(t) \in {"toggle", "refresh", "settings", "sync", "setup"} \/ e.sat # Sat(t)
       /\ \E j \in 1..Len(cfg.peers) : Kin(cfg.peers[j], e)
    \/ Kind(t) = "claim" /\ e = Claimed(t)
    \/ Kind(t) = "rotate" /\ e.sat = Sat(t) /\ e.token = t /\ e.command = t
    \/ Kind(t) = "unpair" /\ e.sat = Sat(t) /\ ~e.claimed
Edits == {"rotate", "unpair", "toggle"}

LEMMA ChangedFits ==
    ASSUME Typed, NEW t \in Tasks, TaskFits(t), Kind(t) \in InPlace \cup Replacing,
           NEW cfg \in Configs, NEW k \in Nat
    PROVE  /\ Changed(cfg, t, k) \in Configs
           /\ Kind(t) \in {"refresh", "settings", "sync", "setup"} =>
                Changed(cfg, t, k).peers = cfg.peers
           /\ Kind(t) \in Edits \cup {"refresh"} =>
                /\ Len(Changed(cfg, t, k).peers) = Len(cfg.peers)
                /\ \A i \in 1..Len(cfg.peers) :
                      Changed(cfg, t, k).peers[i].sat = cfg.peers[i].sat
           /\ Kind(t) # "remove" =>
                \A i \in 1..Len(Changed(cfg, t, k).peers) :
                    Stems(Changed(cfg, t, k).peers[i], cfg, t)
<1> DEFINE s == Sat(t)
           new == Changed(cfg, t, k)
<1>1. CASE Kind(t) = "claim"
  <2>1. Claimed(t) \in Entry /\ Claimed(t).sat = s
    BY <1>1, ClaimedFits DEF TaskFits
  <2>2. new = Put(cfg, Claimed(t))
    BY <1>1 DEF Changed
  <2> HIDE DEF new
  <2>3. new \in Configs /\ \A i \in 1..Len(new.peers) :
                \/ new.peers[i] = Claimed(t)
                \/ new.peers[i].sat # s
                   /\ \E j \in 1..Len(cfg.peers) : cfg.peers[j] = new.peers[i]
    BY <2>1, <2>2, EntryPut
  <2>4. \A i \in 1..Len(new.peers) : Stems(new.peers[i], cfg, t)
    BY <1>1, <2>3 DEF Stems, Kin
  <2>5. QED
    BY <1>1, <2>3, <2>4 DEF new, Edits
<1>2. CASE Kind(t) \in Edits
  <2>1. CASE Has(cfg, s)
    <3>1. PICK e \in Entry : e = Of(cfg, s) /\ e.sat = s
      BY <2>1, FoundIn
    <3>2. PICK f \in Entry : f = Edited(e, t)
      BY EditedFits
    <3>3. /\ f.sat = s
          /\ Kind(t) = "rotate" => f.token = t /\ f.command = t
          /\ Kind(t) = "unpair" => ~f.claimed
          /\ Kind(t) = "toggle" => Kin(e, f)
      BY <3>1, <3>2, EditedFits DEF Kin
    <3>4. new = Put(cfg, f)
      BY <1>2, <2>1, <3>1, <3>2 DEF Changed, Edits
    <3> HIDE DEF new
    <3>5. /\ new \in Configs
          /\ Len(new.peers) = Len(cfg.peers)
          /\ \A i \in 1..Len(cfg.peers) : new.peers[i].sat = cfg.peers[i].sat
          /\ \A i \in 1..Len(new.peers) :
                \/ new.peers[i] = f
                \/ new.peers[i].sat # s
                   /\ \E j \in 1..Len(cfg.peers) : cfg.peers[j] = new.peers[i]
      <4>1. Has(cfg, f.sat)
        BY <2>1, <3>3
      <4> HIDE DEF s
      <4>2. /\ new \in Configs
            /\ Len(new.peers) = Len(cfg.peers)
            /\ \A i \in 1..Len(cfg.peers) : new.peers[i].sat = cfg.peers[i].sat
            /\ \A i \in 1..Len(new.peers) :
                  \/ new.peers[i] = f
                  \/ new.peers[i].sat # f.sat
                     /\ \E j \in 1..Len(cfg.peers) : cfg.peers[j] = new.peers[i]
        BY <3>4, <4>1, EntryPut
      <4>3. QED
        BY <3>3, <4>2
    <3>6. PICK j \in 1..Len(cfg.peers) : cfg.peers[j] = e
      BY <2>1, <3>1, FoundIn
    <3>7. ASSUME NEW i \in 1..Len(new.peers) PROVE Stems(new.peers[i], cfg, t)
      <4>1. CASE new.peers[i] = f
        BY <1>2, <3>3, <3>6, <4>1 DEF Stems, Edits
      <4>2. CASE new.peers[i] # f
        BY <3>5, <4>2 DEF Stems, Kin
      <4>3. QED
        BY <4>1, <4>2
    <3>8. QED
      BY <1>2, <3>5, <3>7 DEF new, Edits
  <2>2. CASE ~Has(cfg, s)
    <3>1. new = cfg
      BY <1>2, <2>2 DEF Changed, Edits
    <3>2. \A i \in 1..Len(cfg.peers) : cfg.peers[i].sat # s
      BY <2>2, SomeEntry DEF Has
    <3>3. QED
      BY <1>2, <3>1, <3>2 DEF Stems, Kin, Edits
  <2>3. QED
    BY <2>1, <2>2
<1>3. CASE Kind(t) = "remove"
  <2>1. new = Splice(cfg, k)
    BY <1>3 DEF Changed
  <2>2. QED
    BY <1>3, <2>1, EntryTaken DEF Edits
<1>4. CASE Kind(t) = "refresh"
  <2>1. new = cfg
    BY <1>4 DEF Changed
  <2>2. QED
    BY <1>4, <2>1 DEF Stems, Kin, Edits
<1>5. CASE Kind(t) \in {"settings", "sync", "setup"}
  <2>1. new = [cfg EXCEPT !.changes = cfg.changes \cup {t}]
    BY <1>5 DEF Changed
  <2> HIDE DEF new
  <2>2. new \in Configs /\ new.peers = cfg.peers
    BY <2>1, ChangeAdded
  <2>3. QED
    BY <1>5, <2>2 DEF Stems, Kin, Edits, new
<1>6. QED
  BY <1>1, <1>2, <1>3, <1>4, <1>5 DEF InPlace, Replacing, Edits

\* What an operation means for the configuration that should be there.
LEMMA MeantFits ==
    ASSUME Typed, NEW t \in Tasks, TaskFits(t), Kind(t) \in InPlace \cup Replacing,
           NEW cfg \in Configs
    PROVE  /\ Meant(cfg, t) \in Configs
           /\ \A i \in 1..Len(Meant(cfg, t).peers) : Stems(Meant(cfg, t).peers[i], cfg, t)
<1> DEFINE s == Sat(t)
<1>1. PICK k \in Nat : k = IF Has(cfg, s) THEN Find(cfg, s) ELSE 0
  BY FoundIn, SomeEntry
<1>2. Meant(cfg, t) = Changed(cfg, t, k)
  BY <1>1 DEF Meant
<1>3. CASE Kind(t) # "remove"
  BY <1>2, <1>3, ChangedFits
<1>4. CASE Kind(t) = "remove"
  <2>1. PICK new : new = Splice(cfg, k)
    OBVIOUS
  <2>2. Meant(cfg, t) = new
    BY <1>2, <1>4, <2>1 DEF Changed
  <2>3. new \in Configs
    BY <2>1, EntryTaken
  <2>4. ASSUME NEW i \in 1..Len(new.peers)
        PROVE  new.peers[i].sat # s /\ \E j \in 1..Len(cfg.peers) : cfg.peers[j] = new.peers[i]
    <3>1. CASE Has(cfg, s)
      <4>1. k \in 1..Len(cfg.peers) /\ cfg.peers[k].sat = s
        BY <1>1, <3>1, FoundIn
      <4>2. PICK j \in 1..Len(cfg.peers) : j # k /\ cfg.peers[j] = new.peers[i]
        BY <2>1, <4>1, EntryTaken
      <4>3. QED
        BY <4>1, <4>2, SomeEntry DEF Unique
    <3>2. CASE ~Has(cfg, s)
      <4>1. new = cfg
        BY <1>1, <2>1, <3>2, EntryTaken
      <4>2. QED
        BY <3>2, <4>1, SomeEntry DEF Has
    <3>3. QED
      BY <3>1, <3>2
  <2>5. QED
    BY <2>2, <2>3, <2>4 DEF Stems, Kin
<1>5. QED
  BY <1>3, <1>4

\* An operation that works on the right configuration does what it means.
LEMMA MeantIsDone ==
    ASSUME Typed, NEW t \in Tasks, NEW cfg \in Configs, NEW k,
           Kind(t) = "remove" => k \in 1..Len(cfg.peers) /\ cfg.peers[k].sat = Sat(t)
    PROVE  Changed(cfg, t, k) = Meant(cfg, t)
<1>1. CASE Kind(t) = "remove"
  BY <1>1, FoundAt DEF Meant
<1>2. CASE Kind(t) # "remove"
  BY <1>2 DEF Meant, Changed
<1>3. QED
  BY <1>1, <1>2

-----------------------------------------------------------------------------
(* What a step does to the tasks.                                          *)

\* Everything but the history of t, and who asked for it, is as it was.
Same(u) ==
    /\ task'[u].phase = task[u].phase
    /\ task'[u].ref = task[u].ref /\ task'[u].copy = task[u].copy
    /\ task'[u].index = task[u].index /\ task'[u].token = task[u].token
    /\ task'[u].had = task[u].had /\ task'[u].reply = task[u].reply
Alone(t) == \A u \in Tasks \ {t} : task'[u] = task[u]
NotedBy(t) ==
    \A u \in Tasks \ {t} :
        /\ Same(u) /\ task'[u].crossed = task[u].crossed
        /\ task'[u].during = IF Active(u) THEN task[u].during \cup {t} ELSE task[u].during
Crosses(t) ==
    \A u \in Tasks \ {t} :
        /\ Same(u) /\ task'[u].during = task[u].during
        /\ task'[u].crossed = (task[u].crossed \/ u \in Crossing(t))
Ended(t) ==
    /\ task'[t].phase = "done" /\ task'[t].ref = 0 /\ task'[t].index = 0
    /\ task'[t].during = {}

LEMMA FinishedFits ==
    ASSUME NEW t
    PROVE  /\ Finished(t) \in TaskType /\ Finished(t).phase = "done" /\ Finished(t).ref = 0
           /\ Finished(t).index = 0 /\ Finished(t).during = {} /\ Finished(t).copy = Nothing
BY DEF Finished, Fresh, TaskType, Phases, Replies, Token

\* One task is replaced.
LEMMA TaskReplaced ==
    ASSUME Typed, NEW t \in Tasks, NEW next \in TaskType, task' = [task EXCEPT ![t] = next]
    PROVE  task' \in [Tasks -> TaskType] /\ task'[t] = next /\ Alone(t)
BY DEF Typed, Alone

\* The others note a save.
LEMMA TaskNoted ==
    ASSUME Typed, NEW t \in Tasks, NEW next \in TaskType, task' = Noted(t, next)
    PROVE  task' \in [Tasks -> TaskType] /\ task'[t] = next /\ NotedBy(t)
<1>1. DOMAIN task' = Tasks /\ task'[t] = next /\ task' = [u \in Tasks |-> task'[u]]
  BY DEF Noted
<1>2. ASSUME NEW u \in Tasks \ {t}
      PROVE  /\ task'[u] \in TaskType /\ Same(u) /\ task'[u].crossed = task[u].crossed
             /\ task'[u].during = IF Active(u) THEN task[u].during \cup {t} ELSE task[u].during
  <2>1. task[u] \in TaskType /\ task[u].during \cup {t} \in SUBSET Tasks
    BY TaskTypes
  <2>2. CASE Active(u)
    <3> DEFINE v == [task[u] EXCEPT !.during = task[u].during \cup {t}]
    <3>1. task'[u] = v
      BY <2>2 DEF Noted
    <3>2. v \in TaskType /\ v.during = task[u].during \cup {t} /\ v.phase = task[u].phase
          /\ v.ref = task[u].ref /\ v.copy = task[u].copy
          /\ v.index = task[u].index /\ v.token = task[u].token /\ v.had = task[u].had
          /\ v.reply = task[u].reply
          /\ v.crossed = task[u].crossed
      BY <2>1 DEF TaskType
    <3> HIDE DEF v
    <3>3. QED
      BY <2>2, <3>1, <3>2 DEF Same
  <2>3. CASE ~Active(u)
    <3>1. task'[u] = task[u]
      BY <2>3 DEF Noted
    <3>2. QED
      BY <2>1, <2>3, <3>1 DEF Same
  <2>4. QED
    BY <2>2, <2>3
<1>3. QED
  BY <1>1, <1>2 DEF NotedBy

\* An answer crosses the others.
LEMMA TaskAnswered ==
    ASSUME Typed, NEW t \in Tasks, NEW reply \in Replies, Reply(t, reply)
    PROVE  /\ task' \in [Tasks -> TaskType] /\ Crosses(t)
           /\ task'[t].phase = "called" /\ task'[t].reply = reply
           /\ task'[t].crossed = (task[t].crossed \/ Crossing(t) # {})
           /\ task'[t].ref = task[t].ref /\ task'[t].index = task[t].index
           /\ task'[t].token = task[t].token /\ task'[t].during = task[t].during
           /\ task'[t].copy = task[t].copy /\ task'[t].had = task[t].had
<1>1. DOMAIN task' = Tasks /\ task' = [u \in Tasks |-> task'[u]]
  BY DEF Reply
<1>2. PICK crossed \in BOOLEAN : crossed = (task[t].crossed \/ Crossing(t) # {})
  OBVIOUS
<1> DEFINE w == [task[t] EXCEPT !.phase = "called", !.reply = reply, !.crossed = crossed]
<1>3. task'[t] = w
  BY <1>2 DEF Reply
<1>4. /\ w \in TaskType /\ w.phase = "called" /\ w.reply = reply /\ w.crossed = crossed
      /\ w.ref = task[t].ref /\ w.had = task[t].had /\ w.index = task[t].index /\ w.token = task[t].token
      /\ w.during = task[t].during /\ w.copy = task[t].copy
  <2>1. task[t] \in TaskType
    BY TaskTypes
  <2>2. QED
    BY <2>1 DEF TaskType, Phases
<1> HIDE DEF w
<1>5. ASSUME NEW u \in Tasks \ {t}
      PROVE  /\ task'[u] \in TaskType /\ Same(u) /\ task'[u].during = task[u].during
             /\ task'[u].crossed = (task[u].crossed \/ u \in Crossing(t))
  <2>1. task[u] \in TaskType /\ task[u].crossed \in BOOLEAN
    BY TaskTypes
  <2>2. CASE u \in Crossing(t)
    <3> DEFINE v == [task[u] EXCEPT !.crossed = TRUE]
    <3>1. task'[u] = v
      BY <2>2 DEF Reply
    <3>2. v \in TaskType /\ v.during = task[u].during /\ v.phase = task[u].phase
          /\ v.ref = task[u].ref /\ v.copy = task[u].copy
          /\ v.index = task[u].index /\ v.token = task[u].token /\ v.had = task[u].had
          /\ v.reply = task[u].reply
          /\ v.crossed
      BY <2>1 DEF TaskType
    <3> HIDE DEF v
    <3>3. v.crossed \in BOOLEAN
      BY <3>2 DEF TaskType
    <3>4. QED
      BY <2>1, <2>2, <3>1, <3>2, <3>3 DEF Same
  <2>3. CASE u \notin Crossing(t)
    <3>1. task'[u] = task[u]
      BY <2>3 DEF Reply
    <3>2. QED
      BY <2>1, <2>3, <3>1 DEF Same
  <2>4. QED
    BY <2>2, <2>3
<1>6. QED
  BY <1>1, <1>2, <1>3, <1>4, <1>5 DEF Crosses

-----------------------------------------------------------------------------
(* Objects.                                                                *)

LEMMA HeldFits ==
    ASSUME Typed
    PROVE  /\ Held = {r \in 1..Len(objects) : objects[r] # Nothing} /\ Len(objects) \in Nat
           /\ \A r \in Held : objects[r] \in Configs
BY DEF Typed, Held

LEMMA LiveFits ==
    ASSUME Typed, AllHeld
    PROVE  /\ current \in Held
           /\ \A t \in Tasks : task[t].ref # 0 => task[t].ref \in Held
           /\ \A r \in restarts : r.ref \in Held
BY DEF AllHeld, Live

LEMMA LiveIn ==
    ASSUME NEW X, NEW held, NEW now, NEW stopping, now \in X,
           \A u \in Tasks : held[u].ref # 0 => held[u].ref \in X,
           \A r \in stopping : r.ref \in X
    PROVE  Live(held, now, stopping) \subseteq X
BY DEF Live

\* What is held stays when the rest is gone.
LEMMA Collecting ==
    ASSUME NEW objs \in Seq(Configs \cup {Nothing}),
           objects' = Collected(objs, task', current', restarts'),
           \A r \in Live(task', current', restarts') : r \in 1..Len(objs) /\ objs[r] # Nothing
    PROVE  /\ objects' \in Seq(Configs \cup {Nothing}) /\ Len(objects') = Len(objs)
           /\ AllHeld'
           /\ \A r \in Live(task', current', restarts') : objects'[r] = objs[r]
<1>1. objs = [r \in 1..Len(objs) |-> objs[r]] /\ Len(objs) \in Nat /\ DOMAIN objs = 1..Len(objs)
      /\ \A r \in 1..Len(objs) : objs[r] \in Configs \cup {Nothing}
  OBVIOUS
<1>2. objects' = [r \in 1..Len(objs) |->
                     IF r \in Live(task', current', restarts') THEN objs[r] ELSE Nothing]
  BY <1>1 DEF Collected
<1>3. objects' \in Seq(Configs \cup {Nothing}) /\ Len(objects') = Len(objs)
  BY <1>1, <1>2
<1>4. \A r \in Live(task', current', restarts') : objects'[r] = objs[r]
  BY <1>2
<1>5. AllHeld'
  BY <1>1, <1>2, <1>4 DEF AllHeld, Held
<1>6. QED
  BY <1>3, <1>4, <1>5

\* Nobody begins to hold anything: what is held is the same.
LEMMA NothingGained ==
    ASSUME Typed, AllHeld, \A u \in Tasks : task'[u].ref \in {0, task[u].ref},
           current' \in {current} \cup {r.ref : r \in restarts},
           \A r \in restarts' : r.ref \in Held,
           objects' = objects \/ objects' = Collected(objects, task', current', restarts')
    PROVE  /\ objects' \in Seq(Configs \cup {Nothing}) /\ current' \in Nat /\ AllHeld'
           /\ objects'[current'] = objects[current']
           /\ \A u \in Tasks : task'[u].ref # 0 => objects'[task'[u].ref] = objects[task[u].ref]
<1>1. Live(task', current', restarts') \subseteq Held
  BY LiveFits, LiveIn
<1>2. current' \in Held /\ Held \subseteq Nat
  BY LiveFits, HeldFits
<1>3. CASE objects' = objects
  BY <1>1, <1>2, <1>3 DEF AllHeld, Held, Typed
<1>4. CASE objects' = Collected(objects, task', current', restarts')
  <2>1. objects \in Seq(Configs \cup {Nothing})
    BY DEF Typed
  <2>2. /\ objects' \in Seq(Configs \cup {Nothing}) /\ AllHeld'
        /\ \A r \in Live(task', current', restarts') : objects'[r] = objects[r]
    BY <1>1, <1>4, <2>1, HeldFits, Collecting
  <2>3. current' \in Live(task', current', restarts')
        /\ \A u \in Tasks : task'[u].ref # 0 => task'[u].ref \in Live(task', current', restarts')
    BY DEF Live
  <2>4. QED
    BY <1>2, <2>2, <2>3
<1>5. QED
  BY <1>3, <1>4

-----------------------------------------------------------------------------
(* What stays true of the tasks.                                           *)

LEMMA KindsStay ==
    ASSUME program' = program, NEW t
    PROVE  Kind(t)' = Kind(t) /\ Sat(t)' = Sat(t)
BY DEF Kind, Sat

LEMMA UnsettledStays ==
    ASSUME program' = program, \A u \in Tasks : task'[u].phase = "saved" <=> task[u].phase = "saved"
    PROVE  Unsettled' = Unsettled
BY DEF Unsettled, Kind

LEMMA TaskStays ==
    ASSUME program' = program, NEW u \in Tasks, TaskFits(u), Same(u)
    PROVE  TaskFits(u)'
BY DEF TaskFits, Same, Busy, Kind, Active

LEMMA EndedStays ==
    ASSUME NEW t \in Tasks, Ended(t)
    PROVE  TaskFits(t)' /\ KeptTask(t)'
BY DEF TaskFits, KeptTask, Ended, Busy, Token, Active

\* Nothing was saved.
LEMMA KeptAlone ==
    ASSUME program' = program, NEW u \in Tasks, KeptTask(u), Same(u), task'[u].during = task[u].during,
           current' = current, expected' = expected, Unsettled' = Unsettled,
           task[u].phase = "saved" => objects'[task[u].ref] = objects[task[u].ref]
    PROVE  KeptTask(u)'
<1>1. Plain(u)' = Plain(u) /\ Untouched(u)' = Untouched(u)
  BY DEF Plain, Untouched, Kind
<1>2. Right(u)' = Right(u)
  BY DEF Right, Same, Sat
<1>3. QED
  BY <1>1, <1>2 DEF KeptTask, Same, Busy, Kind

\* The save of what replaces the object ends what is claimed of the others.
LEMMA KeptReplaced ==
    ASSUME program' = program, NEW t \in Tasks, Kind(t) \in Replacing, NEW u \in Tasks,
           task'[u].during = (IF Active(u) THEN task[u].during \cup {t} ELSE task[u].during),
           Same(u)
    PROVE  KeptTask(u)'
<1>1. CASE Active(u)
  <2>1. t \in task'[u].during
    BY <1>1
  <2>2. ~Plain(u)' /\ ~Untouched(u)' /\ task'[u].during # {}
    BY <2>1 DEF Plain, Untouched, Kind
  <2>3. QED
    BY <2>2 DEF KeptTask
<1>2. CASE ~Active(u)
  BY <1>2 DEF KeptTask, Active, Busy, Same
<1>3. QED
  BY <1>1, <1>2

\* A change in place is seen by the others that hold the object.
LEMMA KeptInPlace ==
    ASSUME program' = program, NEW t \in Tasks, Kind(t) \in InPlace, NotedBy(t),
           NEW u \in Tasks \ {t}, KeptTask(u), current' = current,
           Unsettled = {}, Unsettled' = {},
           Kind(t) # "remove" =>
               /\ DOMAIN expected.peers \subseteq DOMAIN expected'.peers
               /\ \A i \in DOMAIN expected.peers : expected'.peers[i].sat = expected.peers[i].sat
    PROVE  KeptTask(u)'
<1>1. Same(u) /\ task'[u].during = IF Active(u) THEN task[u].during \cup {t} ELSE task[u].during
  BY DEF NotedBy
<1>2. CASE Active(u)
  <2>1. task'[u].during = task[u].during \cup {t}
    BY <1>1, <1>2
  <2>2. Plain(u)' => Plain(u)
    BY <2>1 DEF Plain, Kind
  <2>3. Untouched(u)' => Untouched(u) /\ Kind(t) # "remove"
    BY <2>1, <2>2 DEF Untouched, Kind
  <2>4. Right(u) /\ Kind(t) # "remove" => Right(u)'
    BY <1>1 DEF Right, Sat, Same
  <2>5. QED
    BY <1>1, <2>1, <2>2, <2>3, <2>4 DEF KeptTask, Same, Busy, Kind
<1>3. CASE ~Active(u)
  BY <1>1, <1>3 DEF KeptTask, Active, Busy, Same
<1>4. QED
  BY <1>2, <1>3

\* The saved setups are as they were, and no restart begins.
LEMMA RestartsStay ==
    ASSUME Typed, program' = program, restarts' \subseteq restarts,
           \A u \in Tasks : task[u].phase = "saved" /\ (\E q \in restarts' : q.by = u) => Same(u),
           \A r \in restarts : RestartFits(r)
    PROVE  \A r \in restarts' : RestartFits(r)'
<1> SUFFICES ASSUME NEW r \in restarts' PROVE RestartFits(r)'
  OBVIOUS
<1>1. RestartFits(r) /\ r.by \in Token
  BY DEF Typed, RestartType
<1>2. CASE r.by = 0
  BY <1>1, <1>2 DEF RestartFits
<1>3. CASE r.by # 0
  <2>1. r.by \in Tasks /\ task[r.by].phase = "saved"
    BY <1>1, <1>3 DEF RestartFits, Token
  <2>2. Same(r.by)
    BY <2>1
  <2>3. QED
    BY <1>1, <1>3, <2>1, <2>2 DEF RestartFits, Kind, Same
<1>4. QED
  BY <1>2, <1>3

-----------------------------------------------------------------------------
(* What stays true of the tokens.                                          *)

\* No Satellite answers.
LEMMA CredibleStays ==
    ASSUME program' = program, NEW s \in Sats, satellite'[s] = satellite[s], Credible(s),
           \A u \in CalledFor(s)' : u \in CalledFor(s) /\ Same(u)
                                    /\ (task[u].crossed => task'[u].crossed),
           ~clash' /\ s \notin doubtful' /\ Granted(s)' = {} => Agree(s)'
    PROVE  Credible(s)'
<1>1. ASSUME NEW t \in Granted(s)', ~task'[t].crossed PROVE AsAnswered(t)'
  <2>1. t \in Granted(s) /\ Same(t) /\ ~task[t].crossed
    BY <1>1 DEF Granted, Same
  <2>2. AsAnswered(t)
    BY <2>1 DEF Credible
  <2>3. AsAnswered(t)'
    <3>1. Sat(t) = s /\ Sat(t)' = s /\ Kind(t)' = Kind(t)
      BY <2>1, KindsStay DEF Granted, CalledFor
    <3>2. Fits(Claimed(t), satellite[s])' <=> Fits(Claimed(t), satellite[s])
      BY <2>1, <3>1 DEF Claimed, Fits, Same
    <3>3. QED
      BY <2>2, <3>1, <3>2 DEF AsAnswered
  <2>4. QED
    BY <2>3
<1>2. \A t, u \in CalledFor(s)' : t # u => task'[t].crossed
  BY DEF Credible
<1>3. QED
  BY <1>1, <1>2 DEF Credible

\* No operation ends, no Satellite answers.
LEMMA CredibleRests ==
    ASSUME program' = program, expected' = expected, clash => clash',
           NEW s \in Sats, satellite'[s] = satellite[s], Credible(s), doubtful \subseteq doubtful',
           \A u \in CalledFor(s)' : Same(u) /\ (task[u].crossed => task'[u].crossed),
           \A u \in Granted(s) : s \notin doubtful' => u \in Granted(s)'
    PROVE  Credible(s)'
<1>1. \A u \in CalledFor(s)' : u \in CalledFor(s) /\ Same(u)
                               /\ (task[u].crossed => task'[u].crossed)
  BY DEF CalledFor, Same, Kind, Sat
<1>2. ~clash' /\ s \notin doubtful' /\ Granted(s)' = {} => Agree(s)'
  BY DEF Credible, Agree
<1>3. QED
  BY <1>1, <1>2, CredibleStays

\* What an operation that ends well does to the tokens; doubts are kept, but
\* for what an addition settles.
Settles(t) ==
    /\ program' = program /\ satellite' = satellite /\ expected' = Meant(expected, t)
    /\ NotedBy(t) /\ task'[t].phase # "called"
    /\ Kind(t) \in InPlace \cup Replacing /\ (clash => clash')
    /\ Kind(t) \in Calls =>
          /\ task[t].phase = "called" /\ (task[t].reply = "ok" \/ Kind(t) = "remove")
          /\ task[t].crossed => Sat(t) \in doubtful'
    /\ \A s \in doubtful : s \in doubtful' \/ (Kind(t) = "claim" /\ s = Sat(t))

LEMMA CredibleSettled ==
    ASSUME Typed, NEW t \in Tasks, TaskFits(t), Settles(t), NEW s \in Sats, Credible(s)
    PROVE  Credible(s)'
<1>1. /\ program' = program /\ satellite' = satellite /\ expected' = Meant(expected, t)
      /\ \A u \in Tasks \ {t} : Same(u) /\ task'[u].crossed = task[u].crossed
      /\ task'[t].phase # "called"
  BY DEF Settles, NotedBy
<1>2. \A u \in CalledFor(s)' : u \in CalledFor(s) \ {t} /\ Same(u)
                               /\ (task[u].crossed => task'[u].crossed)
  BY <1>1 DEF CalledFor, Same, Kind, Sat
<1>3. \A u \in Granted(s) \ {t} : u \in Granted(s)'
  BY <1>1 DEF Granted, CalledFor, Same, Kind, Sat
<1>4. ASSUME ~clash', s \notin doubtful', Granted(s)' = {} PROVE Agree(s)'
  <2>1. Granted(s) \subseteq {t}
    BY <1>3, <1>4
  <2>2. PICK old \in Configs : old = expected
    BY DEF Typed
  <2>3. PICK new \in Configs : new = expected' /\ new = Meant(old, t)
    BY <1>1, <2>2, MeantFits DEF Settles
  <2>4. \A i \in 1..Len(new.peers) : Stems(new.peers[i], old, t)
    BY <2>2, <2>3, MeantFits DEF Settles
  <2>5. Agree(s) => \A j \in 1..Len(old.peers) : old.peers[j].sat = s /\ old.peers[j].claimed =>
                        Fits(old.peers[j], satellite[s])
    BY <2>2 DEF Agree
  <2>6. SUFFICES ASSUME NEW i \in 1..Len(new.peers), new.peers[i].sat = s, new.peers[i].claimed
                 PROVE  Fits(new.peers[i], satellite[s])
    BY <1>1, <2>3 DEF Agree, Fits
  <2>7. PICK e : e = new.peers[i]
    OBVIOUS
  <2>8. Stems(e, old, t) /\ e.sat = s /\ e.claimed
    BY <2>4, <2>6, <2>7
  <2>9. CASE Agree(s) /\ \E j \in 1..Len(old.peers) : Kin(old.peers[j], e)
    BY <2>5, <2>7, <2>8, <2>9 DEF Kin, Fits
  <2>10. CASE s # Sat(t)
    <3>1. Granted(s) = {}
      BY <2>1, <2>10 DEF Granted, CalledFor
    <3>2. s \notin doubtful
      BY <1>4, <2>10 DEF Settles
    <3>3. Agree(s)
      BY <1>4, <3>1, <3>2 DEF Credible, Settles
    <3>4. Claimed(t).sat = Sat(t)
      BY DEF Claimed
    <3>5. QED
      BY <2>8, <2>9, <2>10, <3>3, <3>4 DEF Stems
  <2>11. CASE s = Sat(t) /\ Kind(t) \in {"toggle", "refresh", "settings", "sync", "setup"}
    <3>1. Kind(t) \notin Calls /\ Kind(t) # "claim"
      BY <2>11 DEF Calls
    <3>2. Granted(s) = {}
      BY <2>1, <3>1 DEF Granted, CalledFor
    <3>3. s \notin doubtful
      BY <1>4, <3>1 DEF Settles
    <3>4. Agree(s)
      BY <1>4, <3>2, <3>3 DEF Credible, Settles
    <3>5. QED
      BY <2>8, <2>9, <2>11, <3>4 DEF Stems
  <2>12. CASE s = Sat(t) /\ Kind(t) \in {"claim", "rotate"}
    <3>1. task[t].phase = "called" /\ task[t].reply = "ok" /\ ~task[t].crossed
      BY <1>4, <2>12 DEF Settles, Calls
    <3>2. t \in Granted(s)
      BY <2>12, <3>1 DEF Granted, CalledFor, Calls
    <3>3. AsAnswered(t)
      BY <3>1, <3>2 DEF Credible
    <3>4. CASE Kind(t) = "claim"
      <4>1. e = Claimed(t)
        BY <2>8, <2>12, <3>4 DEF Stems
      <4>2. QED
        BY <2>7, <2>12, <3>3, <3>4, <4>1 DEF AsAnswered
    <3>5. CASE Kind(t) = "rotate"
      <4>1. e.token = t /\ e.command = t
        BY <2>8, <2>12, <3>5 DEF Stems
      <4>2. QED
        BY <2>7, <2>12, <3>3, <3>5, <4>1 DEF AsAnswered, Fits
    <3>6. QED
      BY <2>12, <3>4, <3>5
  <2>13. CASE s = Sat(t) /\ Kind(t) \in {"unpair", "remove"}
    BY <2>8, <2>13 DEF Stems
  <2>14. QED
    BY <2>10, <2>11, <2>12, <2>13 DEF Settles, InPlace, Replacing
<1>5. QED
  BY <1>1, <1>2, <1>4, CredibleStays

\* What the entries say is as it was, and nobody calls the Satellite anew.
LEMMA VisitRests ==
    ASSUME program' = program, expected' = expected, clash => clash',
           doubtful \subseteq doubtful',
           NEW u \in Tasks, VisitFits(u), Same(u), task[u].crossed => task'[u].crossed,
           \A s : s = Sat(u) => task'[u].crossed \/ CalledFor(s)' \subseteq CalledFor(s)
    PROVE  VisitFits(u)'
<1>1. Kind(u)' = Kind(u) /\ Sat(u)' = Sat(u)
  BY KindsStay
<1>2. SUFFICES ASSUME Visits(u)'
               PROVE  /\ CalledFor(Sat(u))' = {}
                      /\ ~clash' => \A i \in 1..Len(expected.peers) :
                            expected.peers[i].sat = Sat(u) /\ expected.peers[i].claimed =>
                                Leaves(u, expected.peers[i])'
  BY <1>1 DEF VisitFits
<1>3. Visits(u) /\ ~task'[u].crossed
  BY <1>1, <1>2 DEF Visits, Active, Same
<1>4. ASSUME NEW i \in 1..Len(expected.peers), Leaves(u, expected.peers[i])
      PROVE  Leaves(u, expected.peers[i])'
  BY <1>1, <1>4 DEF Leaves, Fits, Same
<1>5. CalledFor(Sat(u)) = {}
  BY <1>3 DEF VisitFits
<1>6. PICK s : s = Sat(u)
  OBVIOUS
<1>7. CalledFor(s)' = {} /\ Sat(u)' = s
  BY <1>1, <1>3, <1>5, <1>6
<1>8. CalledFor(Sat(u))' = {}
  BY <1>7
<1>9. QED
  BY <1>3, <1>4, <1>8 DEF VisitFits

\* Nor does an operation that ends change what a Satellite that it does not
\* call should have.
LEMMA VisitSettled ==
    ASSUME Typed, NEW t \in Tasks, TaskFits(t), Settles(t), NEW u \in Tasks \ {t}, VisitFits(u)
    PROVE  VisitFits(u)'
<1>1. /\ program' = program /\ expected' = Meant(expected, t) /\ (clash => clash')
      /\ Same(u) /\ task'[u].crossed = task[u].crossed
      /\ \A v \in Tasks \ {t} : Same(v)
      /\ Kind(t) \in InPlace \cup Replacing /\ task'[t].phase # "called"
  BY DEF Settles, NotedBy
<1>2. Kind(u)' = Kind(u) /\ Sat(u)' = Sat(u)
  BY <1>1, KindsStay
<1>3. PICK s : s = Sat(u)
  OBVIOUS
<1>4. PICK old \in Configs : old = expected
  BY DEF Typed
<1>5. PICK new \in Configs : new = expected' /\ new = Meant(old, t)
  BY <1>1, <1>4, MeantFits
<1>6. \A i \in 1..Len(new.peers) : Stems(new.peers[i], old, t)
  BY <1>1, <1>4, <1>5, MeantFits
<1>7. ASSUME Visits(u)' PROVE CalledFor(s) = {} /\ CalledFor(s)' = {}
  <2>1. Visits(u)
    BY <1>1, <1>2, <1>7 DEF Visits, Active, Same
  <2>2. CalledFor(s)' \subseteq CalledFor(s)
    BY <1>1 DEF CalledFor, Same, Kind, Sat
  <2>3. QED
    BY <1>3, <2>1, <2>2 DEF VisitFits
<1>8. ASSUME Visits(u)', ~clash', NEW i \in 1..Len(new.peers),
             new.peers[i].sat = s, new.peers[i].claimed
      PROVE  Leaves(u, new.peers[i])'
  <2>1. Visits(u) /\ ~clash
    BY <1>1, <1>2, <1>8 DEF Visits, Active, Same
  <2>2. \A j \in 1..Len(old.peers) : old.peers[j].sat = s /\ old.peers[j].claimed =>
            Leaves(u, old.peers[j])
    BY <1>3, <1>4, <2>1 DEF VisitFits
  <2>3. PICK e : e = new.peers[i]
    OBVIOUS
  <2>4. s = Sat(t) => Kind(t) \notin Calls
    BY <1>7, <1>8 DEF CalledFor, Settles
  <2>5. \E j \in 1..Len(old.peers) : Kin(old.peers[j], e)
    <3>1. Stems(e, old, t) /\ e.sat = s /\ Claimed(t).sat = Sat(t)
      BY <1>6, <1>8, <2>3 DEF Claimed
    <3>2. CASE s = Sat(t)
      <4>1. Kind(t) \notin {"claim", "rotate", "unpair", "remove"}
        BY <2>4, <3>2 DEF Calls
      <4>2. QED
        BY <3>1, <4>1 DEF Stems
    <3>3. CASE s # Sat(t)
      BY <3>1, <3>3 DEF Stems
    <3>4. QED
      BY <3>2, <3>3
  <2>6. PICK j \in 1..Len(old.peers) : Kin(old.peers[j], e)
    BY <2>5
  <2>7. Leaves(u, old.peers[j])
    BY <1>8, <2>2, <2>3, <2>6 DEF Kin
  <2>8. s \in doubtful => s \in doubtful'
    BY <2>4 DEF Settles, Calls
  <2>9. QED
    BY <1>1, <1>2, <1>3, <2>3, <2>6, <2>7, <2>8 DEF Leaves, Fits, Kin, Same
<1>9. QED
  BY <1>2, <1>3, <1>5, <1>7, <1>8 DEF VisitFits

\* A task that is not under way visits nobody.
LEMMA VisitOver ==
    ASSUME NEW u \in Tasks, ~Active(u)' \/ Kind(u)' \notin {"push", "dialog"}
    PROVE  VisitFits(u)'
BY DEF VisitFits, Visits

-----------------------------------------------------------------------------
(* Beginning.                                                              *)

\* A task that begins: what it holds, and that nothing was saved since but
\* what was saved and not settled before.
Holds(next, web, ref, token, index, during) ==
    next = [[Fresh EXCEPT !.phase = "begun", !.during = during] EXCEPT
               !.web = web, !.ref = ref, !.token = token, !.index = index]
Copies(next, web, copy, during) ==
    next = [[Fresh EXCEPT !.phase = "begun", !.during = during] EXCEPT !.web = web, !.copy = copy]
Reads(next, copy, during) ==
    next = [[Fresh EXCEPT !.phase = "begun", !.during = during] EXCEPT !.copy = copy, !.during = {}]
Sends(next, web, token, index, crossed, during) ==
    next = [[Fresh EXCEPT !.phase = "begun", !.during = during] EXCEPT
               !.web = web, !.token = token, !.index = index, !.crossed = crossed]
Opens(next, had, crossed, during) ==
    next = [[Fresh EXCEPT !.phase = "begun", !.during = during] EXCEPT
               !.had = had, !.crossed = crossed]
LEMMA BegunFits ==
    ASSUME NEW web \in BOOLEAN, NEW ref \in Nat, NEW token \in Token, NEW index \in Nat,
           NEW during \in SUBSET Tasks, NEW next,
           Holds(next, web, ref, token, index, during)
    PROVE  /\ next \in TaskType /\ next.phase = "begun" /\ next.ref = ref /\ next.index = index
           /\ next.token = token /\ next.during = during
BY DEF Holds, Fresh, TaskType, Phases, Replies, Token
LEMMA CopiedFits ==
    ASSUME NEW web \in BOOLEAN, NEW copy \in Configs,
           NEW during \in SUBSET Tasks, NEW next, Copies(next, web, copy, during)
    PROVE  /\ next \in TaskType /\ next.phase = "begun" /\ next.ref = 0 /\ next.index = 0
           /\ next.copy = copy /\ next.during = during
BY DEF Copies, Fresh, TaskType, Phases, Replies, Token
LEMMA ReadFits ==
    ASSUME NEW copy \in Configs, NEW during, NEW next, Reads(next, copy, during)
    PROVE  /\ next \in TaskType /\ next.phase = "begun" /\ next.ref = 0 /\ next.index = 0
           /\ next.copy = copy /\ next.during = {}
BY DEF Reads, Fresh, TaskType, Phases, Replies, Token
LEMMA SentFits ==
    ASSUME NEW web \in BOOLEAN, NEW token \in Token, NEW index \in Token, NEW crossed \in BOOLEAN,
           NEW during \in SUBSET Tasks, NEW next, Sends(next, web, token, index, crossed, during)
    PROVE  /\ next \in TaskType /\ next.phase = "begun" /\ next.ref = 0 /\ next.index = index
           /\ next.crossed = crossed
<1>1. index \in Nat
  BY RegistryAssumption DEF Token
<1>2. QED
  BY <1>1 DEF Sends, Fresh, TaskType, Phases, Replies
LEMMA OpenedFits ==
    ASSUME NEW had \in SatelliteType, NEW crossed \in BOOLEAN,
           NEW during \in SUBSET Tasks, NEW next, Opens(next, had, crossed, during)
    PROVE  /\ next \in TaskType /\ next.phase = "begun" /\ next.ref = 0 /\ next.had = had
           /\ next.crossed = crossed
BY DEF Opens, Fresh, TaskType, Phases, Replies, Token

BeginsWith(t, next) ==
    /\ next \in TaskType /\ next.phase = "begun" /\ Kind(t) \notin Atomic
    /\ \/ /\ Kind(t) \in InPlace \cup {"claim"} /\ next.ref = current /\ next.during = Unsettled
          /\ Kind(t) = "claim" => next.index \in Token
          /\ Kind(t) = "remove" =>
                Has(objects[current], Sat(t)) /\ next.index = Find(objects[current], Sat(t))
       \/ /\ Kind(t) \in CopiesFirst /\ next.ref = 0
          /\ \/ next.copy = objects[current] /\ next.during = Unsettled
             \/ next.copy = disk
       \/ /\ Kind(t) \in {"push", "dialog"} /\ next.ref = 0
          /\ next.crossed = (Crossing(t) # {})
          /\ Kind(t) = "push" =>
                next.index \in Token /\ next.index = Of(objects[current], Sat(t)).command
          /\ Kind(t) = "dialog" => next.had = satellite[Sat(t)]

LEMMA BeginGives ==
    ASSUME Typed, AllHeld, NEW t \in Tasks, Begin(t)
    PROVE  \E next : task' = [task EXCEPT ![t] = next] /\ BeginsWith(t, next)
<1> DEFINE s == Sat(t)
           cfg == objects[current]
           held == [Fresh EXCEPT !.phase = "begun", !.during = Unsettled]
<1>1. cfg \in Configs /\ current \in Nat /\ current \in Held /\ disk \in Configs
  BY LiveFits, HeldFits DEF Typed
<1>2. Unsettled \in SUBSET Tasks
  BY DEF Unsettled
<1>3. PICK web \in BOOLEAN :
          \/ /\ Kind(t) = "claim"
             /\ task' = [task EXCEPT ![t] = [held EXCEPT !.web = web, !.ref = current,
                   !.token = satellite[s].token,
                   !.index = IF Has(cfg, s) THEN Of(cfg, s).command ELSE t]]
          \/ /\ Kind(t) \in InPlace \ Atomic /\ Has(cfg, s)
             /\ task' = [task EXCEPT ![t] = [held EXCEPT !.web = web, !.ref = current,
                   !.token = Of(cfg, s).token, !.index = Find(cfg, s)]]
          \/ /\ Kind(t) = "settings"
             /\ task' = [task EXCEPT ![t] = [held EXCEPT !.web = web, !.copy = cfg]]
          \/ /\ Kind(t) = "setup"
             /\ task' = [task EXCEPT ![t] = [held EXCEPT !.copy = disk, !.during = {}]]
          \/ /\ Kind(t) = "push" /\ Has(cfg, s)
             /\ task' = [task EXCEPT ![t] = [held EXCEPT !.web = web, !.token = Of(cfg, s).token,
                   !.index = Of(cfg, s).command, !.crossed = Crossing(t) # {}]]
          \/ /\ Kind(t) = "dialog"
             /\ task' = [task EXCEPT ![t] = [held EXCEPT !.had = satellite[s],
                                                        !.crossed = Crossing(t) # {}]]
  BY Zenon DEF Begin
<1>4. CASE /\ Kind(t) = "claim"
           /\ task' = [task EXCEPT ![t] = [held EXCEPT !.web = web, !.ref = current,
                 !.token = satellite[s].token,
                 !.index = IF Has(cfg, s) THEN Of(cfg, s).command ELSE t]]
  <2>1. PICK token \in Token : token = satellite[s].token
    <3>1. satellite[s] \in SatelliteType
      BY TaskTypes DEF Typed
    <3>2. QED
      BY <3>1 DEF SatelliteType
  <2>2. PICK index \in Token : index = IF Has(cfg, s) THEN Of(cfg, s).command ELSE t
    <3>1. Has(cfg, s) => Of(cfg, s).command \in Token
      BY <1>1, FoundIn, EntryFields
    <3>2. QED
      BY <3>1, TaskTypes
  <2>3. index \in Nat
    BY RegistryAssumption DEF Token
  <2>4. PICK next : Holds(next, web, current, token, index, Unsettled)
    BY Zenon DEF Holds
  <2>5. task' = [task EXCEPT ![t] = next]
    BY <1>4, <2>1, <2>2, <2>4, Zenon DEF Holds
  <2>6. next \in TaskType /\ next.phase = "begun" /\ next.ref = current /\ next.index = index
        /\ next.during = Unsettled
    BY <1>1, <1>2, <2>3, <2>4, BegunFits
  <2>7. BeginsWith(t, next)
    BY <1>4, <2>6, <2>2 DEF BeginsWith, Atomic
  <2>8. QED
    BY <2>5, <2>7, Zenon
<1>5. CASE /\ Kind(t) \in InPlace \ Atomic /\ Has(cfg, s)
           /\ task' = [task EXCEPT ![t] = [held EXCEPT !.web = web, !.ref = current,
                 !.token = Of(cfg, s).token, !.index = Find(cfg, s)]]
  <2>1. PICK token \in Token : token = Of(cfg, s).token
    BY <1>1, <1>5, FoundIn, EntryFields
  <2>2. PICK index \in Nat : index = Find(cfg, s)
    BY <1>1, <1>5, FoundIn, SomeEntry
  <2>4. PICK next : Holds(next, web, current, token, index, Unsettled)
    BY Zenon DEF Holds
  <2>5. task' = [task EXCEPT ![t] = next]
    BY <1>5, <2>1, <2>2, <2>4, Zenon DEF Holds
  <2>6. next \in TaskType /\ next.phase = "begun" /\ next.ref = current /\ next.index = index
        /\ next.during = Unsettled
    BY <1>1, <1>2, <2>4, BegunFits
  <2>7. Kind(t) \in InPlace /\ Kind(t) \notin Atomic /\ Kind(t) # "claim" /\ Has(cfg, s)
    BY <1>5 DEF InPlace
  <2>8. BeginsWith(t, next)
    BY <2>6, <2>2, <2>7 DEF BeginsWith
  <2>9. QED
    BY <2>5, <2>8, Zenon
<1>6. CASE /\ Kind(t) = "settings"
           /\ task' = [task EXCEPT ![t] = [held EXCEPT !.web = web, !.copy = cfg]]
  <2>4. PICK next : Copies(next, web, cfg, Unsettled)
    BY Zenon DEF Copies
  <2>5. task' = [task EXCEPT ![t] = next]
    BY <1>6, <2>4, Zenon DEF Copies
  <2>6. next \in TaskType /\ next.phase = "begun" /\ next.ref = 0 /\ next.copy = cfg
        /\ next.during = Unsettled
    BY <1>1, <1>2, <2>4, CopiedFits
  <2>7. Kind(t) = "settings"
    BY <1>6
  <2>8. BeginsWith(t, next)
    BY <2>6, <2>7 DEF BeginsWith, Atomic, CopiesFirst
  <2>9. QED
    BY <2>5, <2>8, Zenon
<1>7. CASE /\ Kind(t) = "setup"
           /\ task' = [task EXCEPT ![t] = [held EXCEPT !.copy = disk, !.during = {}]]
  <2>4. PICK next : Reads(next, disk, Unsettled)
    BY Zenon DEF Reads
  <2>5. task' = [task EXCEPT ![t] = next]
    BY <1>7, <2>4, Zenon DEF Reads
  <2>6. next \in TaskType /\ next.phase = "begun" /\ next.ref = 0 /\ next.copy = disk
    BY <1>1, <2>4, ReadFits
  <2>7. Kind(t) = "setup"
    BY <1>7
  <2>8. BeginsWith(t, next)
    BY <2>6, <2>7 DEF BeginsWith, Atomic, CopiesFirst
  <2>9. QED
    BY <2>5, <2>8, Zenon
<1>8. PICK crossed \in BOOLEAN : crossed = (Crossing(t) # {})
  OBVIOUS
<1>9. CASE /\ Kind(t) = "push" /\ Has(cfg, s)
           /\ task' = [task EXCEPT ![t] = [held EXCEPT !.web = web, !.token = Of(cfg, s).token,
                 !.index = Of(cfg, s).command, !.crossed = Crossing(t) # {}]]
  <2>1. Has(cfg, s)
    BY <1>9
  <2>2. PICK token \in Token : token = Of(cfg, s).token
    BY <1>1, <2>1, FoundIn, EntryFields
  <2>3. PICK index \in Token : index = Of(cfg, s).command
    BY <1>1, <2>1, FoundIn, EntryFields
  <2>4. PICK next : Sends(next, web, token, index, crossed, Unsettled)
    BY Zenon DEF Sends
  <2>5. task' = [task EXCEPT ![t] = next]
    BY <1>8, <1>9, <2>2, <2>3, <2>4, Zenon DEF Sends
  <2>6. next \in TaskType /\ next.phase = "begun" /\ next.ref = 0 /\ next.index = index
        /\ next.crossed = crossed
    BY <1>2, <2>4, SentFits
  <2>7. Kind(t) = "push"
    BY <1>9
  <2>8. BeginsWith(t, next)
    BY <1>8, <2>3, <2>6, <2>7 DEF BeginsWith, Atomic
  <2>9. QED
    BY <2>5, <2>8, Zenon
<1>10. CASE /\ Kind(t) = "dialog"
            /\ task' = [task EXCEPT ![t] = [held EXCEPT !.had = satellite[s],
                                                       !.crossed = Crossing(t) # {}]]
  <2>1. PICK had \in SatelliteType : had = satellite[s]
    BY TaskTypes DEF Typed
  <2>2. PICK next : Opens(next, had, crossed, Unsettled)
    BY Zenon DEF Opens
  <2>3. task' = [task EXCEPT ![t] = next]
    BY <1>8, <1>10, <2>1, <2>2, Zenon DEF Opens
  <2>4. next \in TaskType /\ next.phase = "begun" /\ next.ref = 0 /\ next.had = had
        /\ next.crossed = crossed
    BY <1>2, <2>2, OpenedFits
  <2>5. Kind(t) = "dialog"
    BY <1>10
  <2>6. BeginsWith(t, next)
    BY <1>8, <2>1, <2>4, <2>5 DEF BeginsWith, Atomic
  <2>7. QED
    BY <2>3, <2>6, Zenon
<1>11. QED
  BY <1>3, <1>4, <1>5, <1>6, <1>7, <1>9, <1>10, Zenon

LEMMA BeginKeeps ==
    ASSUME RegistryInv, NEW t \in Tasks, Begin(t)
    PROVE  RegistryInv'
<1>1. Typed /\ AllHeld
  BY DEF RegistryInv
<1>2. PICK next : task' = [task EXCEPT ![t] = next] /\ BeginsWith(t, next)
  BY <1>1, BeginGives
<1>3. task' \in [Tasks -> TaskType] /\ task'[t] = next /\ Alone(t)
  BY <1>1, <1>2, TaskReplaced DEF BeginsWith
<1>4. /\ program' = program /\ objects' = objects /\ current' = current /\ disk' = disk
      /\ timer' = timer /\ restarts' = restarts /\ late' = late /\ agent' = agent /\ satellite' = satellite
      /\ expected' = expected /\ clash' = clash /\ doubtful' = doubtful
      /\ task[t].phase = "new"
  BY DEF Begin
<1>5. \A u \in Tasks \ {t} : Same(u) /\ task'[u] = task[u]
  BY <1>3 DEF Alone, Same
<1>6. task'[t].phase = "begun" /\ task'[t].ref \in {0, current}
  BY <1>2, <1>3 DEF BeginsWith
<1>7. Typed'
  BY <1>1, <1>3, <1>4 DEF Typed, Held
<1>8. AllHeld'
  <2>1. \A u \in Tasks : task'[u].ref # 0 => task'[u].ref \in Held
    BY <1>1, <1>5, <1>6, LiveFits
  <2>2. Live(task', current', restarts') \subseteq Held
    BY <1>1, <1>4, <2>1, LiveFits, LiveIn
  <2>3. QED
    BY <1>4, <2>2 DEF AllHeld, Held
<1>9. Unsettled' = Unsettled
  BY <1>4, <1>5, <1>6, UnsettledStays
<1>10. ASSUME NEW u \in Tasks PROVE TaskFits(u)'
  <2>1. CASE u = t
    <3>1. CASE Kind(t) \in InPlace \cup {"claim"}
      <4>1. task'[t].ref = current /\ current # 0 /\ (Kind(t) = "claim" => task'[t].index \in Token)
        BY <1>1, <1>2, <1>3, <3>1, LiveFits, HeldFits DEF BeginsWith, InPlace, CopiesFirst
      <4>2. Kind(t) \notin CopiesFirst /\ Kind(t) \notin Atomic /\ Kind(t) \notin Remote
        BY <1>2, <3>1 DEF BeginsWith, InPlace, CopiesFirst, Remote
      <4>3. QED
        BY <1>4, <1>6, <2>1, <4>1, <4>2 DEF TaskFits, Busy, Kind, Active, Remote
    <3>2. CASE Kind(t) \in CopiesFirst
      <4>1. task'[t].copy \in {objects[current], disk} /\ objects[current] # Nothing /\ disk # Nothing
        <5>1. objects[current] \in Configs /\ disk \in Configs /\ Nothing \notin Configs
          BY <1>1, LiveFits, HeldFits, RegistryAssumption DEF Typed, Configs
        <5>2. QED
          BY <1>2, <1>3, <3>2, <5>1 DEF BeginsWith, InPlace, CopiesFirst
      <4>2. Kind(t) \notin InPlace \cup {"claim"} /\ Kind(t) \notin Atomic /\ Kind(t) \notin Remote
            /\ task'[t].ref = 0
        BY <1>2, <1>3, <3>2 DEF BeginsWith, InPlace, CopiesFirst, Remote
      <4>3. QED
        BY <1>4, <1>6, <2>1, <4>1, <4>2 DEF TaskFits, Busy, Kind, Active, Remote
    <3>3. CASE Kind(t) \in {"push", "dialog"}
      <4>1. /\ task'[t].ref = 0
            /\ Kind(t) = "push" => task'[t].index \in Token
            /\ Kind(t) = "dialog" => task'[t].had = satellite[Sat(t)]
        BY <1>2, <1>3, <3>3 DEF BeginsWith, InPlace, CopiesFirst
      <4>2. satellite[Sat(t)] \in SatelliteType
        BY <1>1, TaskTypes DEF Typed
      <4>3. Kind(t) \notin InPlace \cup {"claim"} /\ Kind(t) \notin CopiesFirst /\ Kind(t) \notin Atomic
        BY <3>3 DEF InPlace, CopiesFirst, Atomic
      <4>4. QED
        BY <1>4, <1>6, <2>1, <4>1, <4>2, <4>3 DEF TaskFits, Busy, Kind
    <3>4. QED
      BY <1>2, <3>1, <3>2, <3>3 DEF BeginsWith
  <2>2. CASE u # t
    BY <1>4, <1>5, <2>2, TaskStays DEF RegistryInv
  <2>3. QED
    BY <2>1, <2>2
<1>11. \A r \in restarts' : RestartFits(r)'
  BY <1>1, <1>4, <1>5, RestartsStay DEF RegistryInv
<1>12. ASSUME ~clash' PROVE Kept'
  <2>1. Kept
    BY <1>4, <1>12 DEF RegistryInv
  <2>2. disk' = expected' /\ (Unsettled' = {} => objects'[current'] = expected')
        /\ objects'[current'].peers = expected'.peers
    BY <1>4, <1>9, <2>1 DEF Kept
  <2>3. ASSUME NEW u \in Tasks \ {t} PROVE KeptTask(u)'
    BY <1>4, <1>5, <1>9, <2>1, KeptAlone DEF Kept
  <2>4. KeptTask(t)'
    <3>1. CASE Kind(t) \in InPlace \cup {"claim"}
      <4>1. task'[t].ref = current /\ task'[t].during = Unsettled /\ Kind(t) \notin CopiesFirst
        BY <1>2, <1>3, <3>1 DEF BeginsWith, InPlace, CopiesFirst
      <4>2. Plain(t)' => Unsettled = {}
        BY <1>4, <4>1 DEF Plain, Unsettled, Kind, Replacing
      <4>3. Kind(t) = "remove" => Right(t)'
        <5>1. SUFFICES ASSUME Kind(t) = "remove" PROVE Right(t)'
          OBVIOUS
        <5>2. Has(objects[current], Sat(t)) /\ task'[t].index = Find(objects[current], Sat(t))
          BY <1>2, <1>3, <5>1 DEF BeginsWith, CopiesFirst
        <5>3. /\ Find(objects[current], Sat(t)) \in 1..Len(objects[current].peers)
              /\ objects[current].peers[Find(objects[current], Sat(t))].sat = Sat(t)
              /\ DOMAIN objects[current].peers = 1..Len(objects[current].peers)
          BY <1>1, <5>2, LiveFits, HeldFits, FoundIn, SomeEntry
        <5>4. objects[current].peers = expected.peers
          BY <2>1 DEF Kept
        <5>5. QED
          BY <1>4, <5>2, <5>3, <5>4 DEF Right, Sat
      <4>4. QED
        BY <1>4, <1>6, <1>9, <4>1, <4>2, <4>3 DEF KeptTask, Kind
    <3>2. CASE Kind(t) \in CopiesFirst
      <4>1. Kind(t) \notin InPlace \cup {"claim"} /\ Kind(t) # "remove"
        BY <3>2 DEF InPlace, CopiesFirst
      <4>2. task'[t].during = {} => task'[t].copy = expected
        BY <1>2, <1>3, <2>1, <3>2, <4>1 DEF BeginsWith, Kept, CopiesFirst
      <4>3. QED
        BY <1>4, <1>6, <4>1, <4>2 DEF KeptTask, Kind
    <3>3. CASE Kind(t) \in {"push", "dialog"}
      BY <1>4, <1>6, <3>3 DEF KeptTask, Kind, InPlace, CopiesFirst
    <3>4. QED
      BY <1>2, <3>1, <3>2, <3>3 DEF BeginsWith
  <2>5. QED
    BY <2>2, <2>3, <2>4 DEF Kept
<1>13. ASSUME NEW s \in Sats PROVE Credible(s)'
  <2>1. \A u \in CalledFor(s)' : Same(u) /\ (task[u].crossed => task'[u].crossed)
    BY <1>5, <1>6 DEF CalledFor
  <2>2. \A u \in Granted(s) : u \in Granted(s)'
    BY <1>4, <1>5 DEF Granted, CalledFor, Kind, Sat
  <2>3. QED
    BY <1>4, <2>1, <2>2, CredibleRests DEF RegistryInv
<1>14. \A s : CalledFor(s)' \subseteq CalledFor(s)
  BY <1>4, <1>5, <1>6 DEF CalledFor, Kind, Sat
<1>15. ASSUME NEW u \in Tasks \ {t} PROVE VisitFits(u)'
  BY <1>4, <1>5, <1>14, VisitRests DEF RegistryInv
<1>16. VisitFits(t)'
  <2>1. SUFFICES ASSUME Visits(t)' PROVE VisitFits(t)'
    BY DEF VisitFits
  <2>2. Kind(t)' = Kind(t) /\ Sat(t)' = Sat(t)
    BY <1>4, KindsStay
  <2>3. PICK s \in Sats : s = Sat(t)
    BY <1>1, TaskTypes
  <2>4. /\ Kind(t) \in {"push", "dialog"} /\ Crossing(t) = {}
        /\ Kind(t) = "push" => task'[t].index = Of(objects[current], s).command
        /\ Kind(t) = "dialog" => task'[t].had = satellite[s]
    BY <1>2, <1>3, <2>1, <2>2, <2>3 DEF Visits, BeginsWith, InPlace, CopiesFirst
  <2>5. CalledFor(s) = {}
    <3>1. ASSUME NEW u \in CalledFor(s) PROVE u \in Crossing(t)
      BY <1>4, <2>3, <3>1 DEF CalledFor, Crossing, Active, Lasting
    <3>2. QED
      BY <2>4, <3>1
  <2>6. ASSUME ~clash, NEW i \in 1..Len(expected.peers), expected.peers[i].sat = s,
               expected.peers[i].claimed
        PROVE  Leaves(t, expected.peers[i])'
    <3>1. objects[current].peers = expected.peers /\ objects[current] \in Configs
      BY <1>1, <2>6, LiveFits, HeldFits DEF RegistryInv, Kept
    <3>2. Of(objects[current], s) = expected.peers[i]
      BY <2>6, <3>1, FoundAt
    <3>3. s \notin doubtful => Fits(expected.peers[i], satellite[s])
      BY <2>5, <2>6 DEF RegistryInv, Credible, Granted, Agree
    <3>4. QED
      BY <1>4, <2>2, <2>3, <2>4, <3>2, <3>3 DEF Leaves, Fits
  <2>7. QED
    BY <1>4, <1>14, <2>2, <2>3, <2>5, <2>6 DEF VisitFits
<1>17. QED
  BY <1>7, <1>8, <1>10, <1>11, <1>12, <1>13, <1>15, <1>16 DEF RegistryInv

-----------------------------------------------------------------------------
(* Calling a Satellite, and failing.                                       *)

LEMMA AnsweredFits ==
    ASSUME Typed, NEW t \in Tasks, TaskFits(t), Accepts(t), Kind(t) \in Calls
    PROVE  /\ Answered(t) \in SatelliteType
           /\ Kind(t) = "claim" => Fits(Claimed(t), Answered(t))
           /\ Kind(t) = "rotate" => Answered(t) = [paired |-> TRUE, token |-> t, command |-> t]
<1> DEFINE s == Sat(t)
<1>1. satellite[s] \in SatelliteType /\ t \in Token /\ task[t].token = satellite[s].token
  BY TaskTypes DEF Typed, Accepts
<1>2. CASE Kind(t) = "claim"
  <2>1. task[t].index \in Token
    BY <1>2 DEF TaskFits
  <2>2. Answered(t) = [satellite[s] EXCEPT !.paired = TRUE, !.command = task[t].index]
    BY <1>2 DEF Answered
  <2>3. Answered(t) = [paired |-> TRUE, token |-> task[t].token, command |-> task[t].index]
    BY <1>1, <2>2 DEF SatelliteType
  <2> HIDE DEF s
  <2>4. task[t].token \in Token
    BY <1>1 DEF SatelliteType
  <2>5. QED
    BY <1>2, <2>1, <2>3, <2>4 DEF Fits, Claimed, SatelliteType
<1>3. CASE Kind(t) = "rotate"
  <2>1. satellite[s].paired
    BY <1>3 DEF Accepts
  <2>2. Answered(t) = [satellite[s] EXCEPT !.token = t, !.command = t]
    BY <1>3 DEF Answered
  <2>3. Answered(t) = [paired |-> TRUE, token |-> t, command |-> t]
    BY <1>1, <2>1, <2>2 DEF SatelliteType
  <2>4. QED
    BY <1>1, <1>3, <2>3 DEF SatelliteType
<1>4. CASE Kind(t) \notin {"claim", "rotate"}
  <2>1. Answered(t) = [satellite[s] EXCEPT !.paired = FALSE]
    BY <1>4 DEF Answered
  <2>2. Answered(t) \in SatelliteType
    BY <1>1, <2>1 DEF SatelliteType
  <2>3. QED
    BY <1>4, <2>2
<1>5. QED
  BY <1>2, <1>3, <1>4

\* What a call leads to: the answer, and what the Satellite has then.
CallsWith(t, reply) ==
    \/ /\ Accepts(t) /\ satellite' = [satellite EXCEPT ![Sat(t)] = Answered(t)]
       /\ doubtful' = IF reply = "ok" THEN doubtful ELSE doubtful \cup {Sat(t)}
    \/ reply # "ok" /\ satellite' = satellite /\ doubtful' = doubtful
LEMMA CallGives ==
    ASSUME NEW t \in Tasks, Call(t)
    PROVE  \E reply \in {"ok", "refused", "lost"} : Reply(t, reply) /\ CallsWith(t, reply)
<1>1. \/ /\ Accepts(t)
         /\ satellite' = [satellite EXCEPT ![Sat(t)] = Answered(t)]
         /\ \/ Reply(t, "ok") /\ doubtful' = doubtful
            \/ Reply(t, "lost") /\ doubtful' = doubtful \cup {Sat(t)}
      \/ Reply(t, "refused") /\ satellite' = satellite /\ doubtful' = doubtful
      \/ Reply(t, "lost") /\ satellite' = satellite /\ doubtful' = doubtful
  BY DEF Call
<1>2. QED
  BY <1>1 DEF CallsWith

LEMMA CallKeeps ==
    ASSUME RegistryInv, NEW t \in Tasks, Call(t)
    PROVE  RegistryInv'
<1>1. Typed /\ AllHeld
  BY DEF RegistryInv
<1>2. PICK reply \in {"ok", "refused", "lost"} : Reply(t, reply) /\ CallsWith(t, reply)
  BY CallGives
<1>3. /\ task' \in [Tasks -> TaskType] /\ Crosses(t)
      /\ task'[t].phase = "called" /\ task'[t].reply = reply
      /\ task'[t].crossed = (task[t].crossed \/ Crossing(t) # {})
      /\ task'[t].ref = task[t].ref /\ task'[t].index = task[t].index
      /\ task'[t].token = task[t].token /\ task'[t].during = task[t].during
      /\ task'[t].copy = task[t].copy /\ task'[t].had = task[t].had
  BY <1>1, <1>2, TaskAnswered DEF Replies
<1>4. /\ program' = program /\ objects' = objects /\ current' = current /\ disk' = disk
      /\ timer' = timer /\ restarts' = restarts /\ late' = late /\ agent' = agent
      /\ expected' = expected /\ clash' = clash
      /\ task[t].phase = "begun" /\ Kind(t) \in Calls
  BY DEF Call
<1>5. \A u \in Tasks \ {t} : Same(u) /\ task'[u].during = task[u].during
                             /\ task'[u].crossed = (task[u].crossed \/ u \in Crossing(t))
  BY <1>3 DEF Crosses
<1>6. TaskFits(t)
  BY DEF RegistryInv
<1>7. Typed'
  <2>1. satellite' \in [Sats -> SatelliteType] /\ doubtful' \subseteq Sats
    <3>1. CASE Accepts(t) /\ satellite' = [satellite EXCEPT ![Sat(t)] = Answered(t)]
               /\ doubtful' = IF reply = "ok" THEN doubtful ELSE doubtful \cup {Sat(t)}
      <4>1. Answered(t) \in SatelliteType /\ Sat(t) \in Sats
        BY <1>1, <1>4, <1>6, <3>1, AnsweredFits, TaskTypes
      <4>2. QED
        BY <1>1, <3>1, <4>1 DEF Typed
    <3>2. CASE satellite' = satellite /\ doubtful' = doubtful
      BY <1>1, <3>2 DEF Typed
    <3>3. QED
      BY <1>2, <3>1, <3>2 DEF CallsWith
  <2>2. QED
    BY <1>1, <1>3, <1>4, <2>1 DEF Typed
<1>8. AllHeld'
  <2>1. \A u \in Tasks : task'[u].ref \in {0, task[u].ref}
    BY <1>3, <1>5 DEF Same
  <2>2. QED
    BY <1>1, <1>4, <2>1, LiveFits, NothingGained
<1>9. Unsettled' = Unsettled
  BY <1>3, <1>4, <1>5, UnsettledStays DEF Same
<1>10. ASSUME NEW u \in Tasks PROVE TaskFits(u)'
  <2>1. CASE u = t
    BY <1>3, <1>4, <1>6, <2>1 DEF TaskFits, Busy, Kind, Active, Calls, Remote
  <2>2. CASE u # t
    BY <1>4, <1>5, <2>2, TaskStays DEF RegistryInv
  <2>3. QED
    BY <2>1, <2>2
<1>11. \A r \in restarts' : RestartFits(r)'
  BY <1>1, <1>4, <1>5, RestartsStay DEF RegistryInv
<1>12. ASSUME ~clash' PROVE Kept'
  <2>1. Kept
    BY <1>4, <1>12 DEF RegistryInv
  <2>2. disk' = expected' /\ (Unsettled' = {} => objects'[current'] = expected')
        /\ objects'[current'].peers = expected'.peers
    BY <1>4, <1>9, <2>1 DEF Kept
  <2>3. ASSUME NEW u \in Tasks \ {t} PROVE KeptTask(u)'
    BY <1>4, <1>5, <1>9, <2>1, KeptAlone DEF Kept
  <2>4. KeptTask(t)'
    <3>1. KeptTask(t)
      BY <2>1 DEF Kept
    <3>2. Plain(t)' = Plain(t) /\ Untouched(t)' = Untouched(t) /\ Right(t)' = Right(t)
      BY <1>3, <1>4 DEF Plain, Untouched, Right, Kind, Sat
    <3>3. Kind(t) \notin CopiesFirst
      BY <1>4 DEF Calls, CopiesFirst
    <3>4. QED
      BY <1>3, <1>4, <1>9, <3>1, <3>2, <3>3 DEF KeptTask, Busy, Kind
  <2>5. QED
    BY <2>2, <2>3, <2>4 DEF Kept
<1>13. ASSUME NEW s \in Sats, s # Sat(t) PROVE Credible(s)'
  <2>1. satellite'[s] = satellite[s] /\ doubtful \subseteq doubtful'
    BY <1>1, <1>2, <1>13 DEF CallsWith, Typed
  <2>2. \A u \in CalledFor(s)' : Same(u) /\ (task[u].crossed => task'[u].crossed)
    BY <1>4, <1>5, <1>13 DEF CalledFor, Sat
  <2>3. \A u \in Granted(s) : u \in Granted(s)'
    BY <1>4, <1>5, <1>13 DEF Granted, CalledFor, Same, Kind, Sat
  <2>4. QED
    BY <1>4, <2>1, <2>2, <2>3, CredibleRests DEF RegistryInv
<1>14. ASSUME NEW s \in Sats, s = Sat(t) PROVE Credible(s)'
  <2>1. Sat(t) = s /\ Sat(t)' = s /\ Kind(t)' = Kind(t) /\ Credible(s)
    BY <1>4, <1>14, KindsStay DEF RegistryInv
  <2>2. ASSUME NEW u \in CalledFor(s)', u # t PROVE u \in Crossing(t) /\ task'[u].crossed
    <3>1. u \in Tasks \ {t} /\ Kind(u) \in Calls /\ Sat(u) = s /\ task[u].phase = "called"
      BY <1>4, <1>5, <2>1, <2>2 DEF CalledFor, Same, Kind, Sat
    <3>2. QED
      BY <1>5, <2>1, <3>1 DEF Crossing, Active, Lasting
  <2>3. \A u, v \in CalledFor(s)' : u # v => task'[u].crossed
    BY <1>3, <2>2
  <2>4. ASSUME NEW u \in Granted(s)', ~task'[u].crossed PROVE AsAnswered(u)'
    <3>1. u = t /\ reply = "ok"
      BY <1>3, <2>2, <2>4 DEF Granted
    <3>2. Accepts(t) /\ satellite'[s] = Answered(t)
      BY <1>1, <1>2, <2>1, <3>1 DEF CallsWith, Typed
    <3>3. /\ Kind(t) = "claim" => Fits(Claimed(t), satellite'[s])
          /\ Kind(t) = "rotate" => satellite'[s] = [paired |-> TRUE, token |-> t, command |-> t]
      BY <1>1, <1>4, <1>6, <3>2, AnsweredFits
    <3>4. Fits(Claimed(t), satellite[s])' <=> Fits(Claimed(t), satellite'[s])
      BY <1>3, <2>1 DEF Claimed, Fits
    <3>5. QED
      BY <2>1, <3>1, <3>3, <3>4 DEF AsAnswered
  <2>5. ASSUME ~clash', s \notin doubtful', Granted(s)' = {} PROVE Agree(s)'
    <3>1. t \in CalledFor(s)'
      BY <1>3, <1>4, <2>1 DEF CalledFor
    <3>2. reply # "ok"
      BY <1>3, <2>5, <3>1 DEF Granted
    <3>3. satellite' = satellite /\ doubtful' = doubtful
      BY <1>2, <2>1, <2>5, <3>2 DEF CallsWith
    <3>4. \A u \in Granted(s) : u # t /\ u \in Granted(s)'
      BY <1>4, <1>5 DEF Granted, CalledFor, Same, Kind, Sat
    <3>5. Agree(s)
      BY <1>4, <2>1, <2>5, <3>3, <3>4 DEF Credible
    <3>6. QED
      BY <1>4, <2>1, <3>3, <3>5 DEF Agree
  <2>6. Granted(s)' = {u \in CalledFor(s)' : task'[u].reply = "ok"}
    BY DEF Granted
  <2>7. QED
    BY <2>1, <2>3, <2>4, <2>5 DEF Credible
<1>15. ASSUME NEW u \in Tasks PROVE VisitFits(u)'
  <2>1. CASE Active(u) /\ Kind(u) \in {"push", "dialog"}
    <3>1. u # t /\ Kind(u) \in Lasting /\ Kind(t) \in {"claim", "rotate", "unpair", "remove"}
      BY <1>4, <2>1 DEF Calls, Lasting
    <3>2. Same(u) /\ (task[u].crossed => task'[u].crossed) /\ doubtful \subseteq doubtful'
      BY <1>2, <1>5, <3>1 DEF CallsWith
    <3>3. Sat(u) = Sat(t) => task'[u].crossed
      BY <1>5, <2>1, <3>1 DEF Crossing
    <3>4. \A s : s # Sat(t) => CalledFor(s)' \subseteq CalledFor(s)
      BY <1>4, <1>5 DEF CalledFor, Same, Kind, Sat
    <3>5. QED
      BY <1>4, <3>2, <3>3, <3>4, VisitRests DEF RegistryInv
  <2>2. CASE ~(Active(u) /\ Kind(u) \in {"push", "dialog"})
    <3>1. Kind(t) \notin {"push", "dialog"}
      BY <1>4 DEF Calls
    <3>2. u # t => Same(u)
      BY <1>5
    <3>3. ~Active(u)' \/ Kind(u)' \notin {"push", "dialog"}
      BY <1>4, <2>2, <3>1, <3>2 DEF Active, Kind, Same
    <3>4. QED
      BY <3>3, VisitOver
  <2>3. QED
    BY <2>1, <2>2
<1>16. QED
  BY <1>7, <1>8, <1>10, <1>11, <1>12, <1>13, <1>14, <1>15 DEF RegistryInv

LEMMA RefuseKeeps ==
    ASSUME RegistryInv, NEW t \in Tasks, Refuse(t)
    PROVE  RegistryInv'
<1>1. Typed /\ AllHeld
  BY DEF RegistryInv
<1>2. /\ program' = program /\ current' = current /\ disk' = disk
      /\ timer' = timer /\ restarts' = restarts /\ late' = late /\ agent' = agent /\ satellite' = satellite
      /\ expected' = expected /\ clash' = clash /\ doubtful' = doubtful
      /\ task' = [task EXCEPT ![t] = Finished(t)]
      /\ objects' = Collected(objects, task', current', restarts')
  BY DEF Refuse
<1>3. task[t].phase = "called" /\ task[t].reply # "ok" /\ Kind(t) \in Calls
  BY DEF Refuse, Succeeds, Ready
<1>4. task' \in [Tasks -> TaskType] /\ Ended(t) /\ Alone(t)
  BY <1>1, <1>2, FinishedFits, TaskReplaced DEF Ended
<1>5. \A u \in Tasks \ {t} : Same(u) /\ task'[u] = task[u]
  BY <1>4 DEF Alone, Same
<1>6. /\ objects' \in Seq(Configs \cup {Nothing}) /\ current' \in Nat /\ AllHeld'
      /\ objects'[current'] = objects[current]
      /\ \A u \in Tasks : task'[u].ref # 0 => objects'[task'[u].ref] = objects[task[u].ref]
  <2>1. \A u \in Tasks : task'[u].ref \in {0, task[u].ref}
    BY <1>4, <1>5 DEF Ended
  <2>2. current' \in {current} \cup {r.ref : r \in restarts} /\ \A r \in restarts' : r.ref \in Held
    BY <1>1, <1>2, LiveFits
  <2>3. QED
    BY <1>1, <1>2, <2>1, <2>2, NothingGained
<1>7. Typed'
  BY <1>1, <1>2, <1>4, <1>6 DEF Typed
<1>8. Unsettled' = Unsettled
  BY <1>2, <1>3, <1>4, <1>5, UnsettledStays DEF Ended
<1>9. \A u \in Tasks : TaskFits(u)'
  BY <1>2, <1>4, <1>5, TaskStays, EndedStays DEF RegistryInv
<1>10. \A r \in restarts' : RestartFits(r)'
  BY <1>1, <1>2, <1>3, <1>5, RestartsStay DEF RegistryInv
<1>11. ASSUME ~clash' PROVE Kept'
  <2>1. Kept
    BY <1>2, <1>11 DEF RegistryInv
  <2>2. disk' = expected' /\ (Unsettled' = {} => objects'[current'] = expected')
        /\ objects'[current'].peers = expected'.peers
    BY <1>2, <1>6, <1>8, <2>1 DEF Kept
  <2>3. ASSUME NEW u \in Tasks \ {t} PROVE KeptTask(u)'
    <3>1. task[u].phase = "saved" => objects'[task[u].ref] = objects[task[u].ref]
      BY <1>5, <1>6 DEF RegistryInv, TaskFits
    <3>2. QED
      BY <1>2, <1>5, <1>8, <2>1, <3>1, KeptAlone DEF Kept
  <2>4. QED
    BY <1>4, <2>2, <2>3, EndedStays DEF Kept
<1>12. ASSUME NEW s \in Sats PROVE Credible(s)'
  <2>1. \A u \in CalledFor(s)' : Same(u) /\ (task[u].crossed => task'[u].crossed)
    BY <1>4, <1>5 DEF CalledFor, Ended
  <2>2. \A u \in Granted(s) : u \in Granted(s)'
    BY <1>2, <1>3, <1>5 DEF Granted, CalledFor, Kind, Sat
  <2>3. QED
    BY <1>2, <2>1, <2>2, CredibleRests DEF RegistryInv
<1>13. ASSUME NEW u \in Tasks PROVE VisitFits(u)'
  <2>1. \A s : CalledFor(s)' \subseteq CalledFor(s)
    BY <1>2, <1>4, <1>5 DEF CalledFor, Kind, Sat, Ended
  <2>2. CASE u = t
    BY <1>4, <2>2, VisitOver DEF Ended, Active
  <2>3. CASE u # t
    BY <1>2, <1>5, <2>1, <2>3, VisitRests DEF RegistryInv
  <2>4. QED
    BY <2>2, <2>3
<1>14. QED
  BY <1>6, <1>7, <1>9, <1>10, <1>11, <1>12, <1>13 DEF RegistryInv

-----------------------------------------------------------------------------
(* The services stop.                                                      *)

\* Only the restarts change, and what waits for them.
LEMMA StoppingKeeps ==
    ASSUME RegistryInv, timer' \in BOOLEAN, late' \in BOOLEAN, agent' \in {"up", "closing", "orphan"},
           UNCHANGED <<program, task, objects, current, disk, satellite, expected, clash, doubtful>>,
           restarts' \subseteq RestartType,
           \A r \in restarts' : r.ref \in Held /\ RestartFits(r)'
    PROVE  RegistryInv'
<1>1. Typed /\ AllHeld
  BY DEF RegistryInv
<1>2. Typed'
  BY <1>1 DEF Typed
<1>3. AllHeld'
  <2>1. Live(task, current, restarts') \subseteq Held
    BY <1>1, LiveFits, LiveIn
  <2>2. QED
    BY <2>1 DEF AllHeld, Held
<1>4. ASSUME NEW u \in Tasks PROVE TaskFits(u)'
  BY DEF RegistryInv, TaskFits, Busy, Kind, Active
<1>5. Unsettled' = Unsettled
  BY UnsettledStays
<1>6. ASSUME ~clash' PROVE Kept'
  <2>1. Kept
    BY <1>6 DEF RegistryInv
  <2>2. \A u \in Tasks : KeptTask(u)'
    BY <1>5, <2>1, KeptAlone DEF Kept, Same
  <2>3. QED
    BY <1>5, <2>1, <2>2 DEF Kept
<1>7. ASSUME NEW s \in Sats PROVE Credible(s)'
  <2>1. \A u \in Granted(s) : u \in Granted(s)'
    BY DEF Granted, CalledFor, Kind, Sat
  <2>2. QED
    BY <2>1, CredibleRests DEF RegistryInv, Same
<1>8. ASSUME NEW u \in Tasks PROVE VisitFits(u)'
  <2>1. \A s : CalledFor(s)' \subseteq CalledFor(s)
    BY DEF CalledFor, Kind, Sat
  <2>2. QED
    BY <2>1, VisitRests DEF RegistryInv, Same
<1>9. QED
  BY <1>2, <1>3, <1>4, <1>6, <1>7, <1>8 DEF RegistryInv

LEMMA StopKeeps ==
    ASSUME RegistryInv, NEW ref \in Held, NEW by \in Token, Stop(ref, by),
           by = 0 => ref = current,
           by # 0 => /\ Kind(by) = "setup" /\ task[by].phase = "saved" /\ task[by].ref = ref
                     /\ \A r \in restarts : r.by # by,
           timer' \in BOOLEAN,
           UNCHANGED <<program, task, objects, current, disk, agent, satellite, expected, clash,
                       doubtful>>
    PROVE  RegistryInv'
<1>1. Typed /\ AllHeld
  BY DEF RegistryInv
<1>2. PICK new : new = [ref |-> ref, by |-> by, seen |-> current, at |-> "watcher",
                        waits |-> {}, held |-> FALSE]
  OBVIOUS
<1>3. restarts' = restarts \cup {new} /\ late' \in BOOLEAN
  BY <1>1, <1>2 DEF Stop, Typed
<1>4. new \in RestartType /\ new.ref = ref /\ new.by = by /\ new.seen = current
  BY <1>1, <1>2, HeldFits DEF RestartType, Typed
<1>5. ASSUME NEW r \in restarts' PROVE r.ref \in Held /\ RestartFits(r)'
  <2>1. CASE r = new
    BY <1>3, <1>4, <2>1 DEF RestartFits, Kind
  <2>2. CASE r \in restarts
    BY <1>1, <1>3, <1>4, <2>2, LiveFits DEF RegistryInv, RestartFits, Kind
  <2>3. QED
    BY <1>3, <2>1, <2>2
<1>6. QED
  BY <1>1, <1>3, <1>4, <1>5, StoppingKeeps DEF Typed

LEMMA ReconfigureKeeps ==
    ASSUME RegistryInv, Reconfigure
    PROVE  RegistryInv'
<1>1. current \in Held /\ 0 \in Token
  BY LiveFits DEF RegistryInv, Token
<1>2. Stop(current, 0) /\ timer' = FALSE
      /\ UNCHANGED <<program, task, objects, current, disk, agent, satellite, expected, clash,
                     doubtful>>
  BY DEF Reconfigure
<1>3. QED
  BY <1>1, <1>2, StopKeeps

LEMMA ConfigureKeeps ==
    ASSUME RegistryInv, NEW t \in Tasks, Configure(t)
    PROVE  RegistryInv'
<1>1. Typed /\ AllHeld /\ TaskFits(t)
  BY DEF RegistryInv
<1>2. /\ Kind(t) = "setup" /\ task[t].phase = "saved" /\ \A r \in restarts : r.by # t
      /\ Stop(task[t].ref, t) /\ timer' = timer
      /\ UNCHANGED <<program, task, objects, current, disk, agent, satellite, expected, clash,
                     doubtful>>
  BY DEF Configure
<1>3. task[t].ref \in Held /\ t \in Token /\ t # 0 /\ timer \in BOOLEAN
  BY <1>1, <1>2, LiveFits, TaskTypes DEF TaskFits, Typed
<1>4. QED
  BY <1>2, <1>3, StopKeeps

LEMMA WatcherEndsKeeps ==
    ASSUME RegistryInv, WatcherEnds
    PROVE  RegistryInv'
<1>1. Typed /\ AllHeld
  BY DEF RegistryInv
<1>2. /\ timer' = timer /\ late' = FALSE /\ agent' = agent /\ restarts' = restarts
      /\ UNCHANGED <<program, task, objects, current, disk, satellite, expected, clash, doubtful>>
  BY DEF WatcherEnds
<1>3. ASSUME NEW r \in restarts' PROVE r.ref \in Held /\ RestartFits(r)'
  BY <1>1, <1>2, LiveFits DEF RegistryInv, RestartFits, Kind
<1>4. QED
  BY <1>1, <1>2, <1>3, StoppingKeeps DEF Typed

\* A restart that waits for the agent is the restart that waited for the
\* watcher.
LEMMA AgentClosesKeeps ==
    ASSUME RegistryInv, NEW r, AgentCloses(r)
    PROVE  RegistryInv'
<1>1. Typed /\ AllHeld
  BY DEF RegistryInv
<1>2. PICK held \in BOOLEAN :
          restarts' = (restarts \ {r}) \cup
              {[ref |-> r.ref, by |-> r.by, seen |-> r.seen, at |-> "agent",
                waits |-> IF agent = "up" THEN Requests ELSE {}, held |-> held]}
  BY DEF AgentCloses
<1>3. PICK waits \in SUBSET Tasks : waits = IF agent = "up" THEN Requests ELSE {}
  BY DEF Requests
<1>4. PICK new : new = [ref |-> r.ref, by |-> r.by, seen |-> r.seen, at |-> "agent",
                        waits |-> waits, held |-> held]
  OBVIOUS
<1>5. restarts' = (restarts \ {r}) \cup {new} /\ r \in restarts
  BY <1>2, <1>3, <1>4 DEF AgentCloses
<1>6. new.ref = r.ref /\ new.by = r.by /\ new.seen = r.seen /\ new \in RestartType
  BY <1>1, <1>4, <1>5 DEF Typed, RestartType
<1>7. ASSUME NEW q \in restarts' PROVE q.ref \in Held /\ RestartFits(q)'
  <2>1. RestartFits(r) /\ r.ref \in Held
    BY <1>1, <1>5, LiveFits DEF RegistryInv
  <2>2. UNCHANGED <<program, task>>
    BY DEF AgentCloses
  <2>3. CASE q = new
    BY <1>5, <1>6, <2>1, <2>2, <2>3 DEF RestartFits, Kind
  <2>4. CASE q \in restarts /\ q # r
    <3>1. q.ref \in Held /\ RestartFits(q)
      BY <1>1, <2>4, LiveFits DEF RegistryInv
    <3>2. q.by # 0 => q.by # r.by
      BY <1>5, <2>4, <3>1 DEF RestartFits
    <3>3. QED
      BY <1>5, <1>6, <2>2, <2>4, <3>1, <3>2 DEF RestartFits, Kind
  <2>5. QED
    BY <1>5, <2>3, <2>4
<1>8. /\ timer' = timer /\ late' = late /\ agent' \in {"up", "closing", "orphan"}
      /\ UNCHANGED <<program, task, objects, current, disk, satellite, expected, clash, doubtful>>
  BY <1>1 DEF AgentCloses, Typed
<1>9. restarts' \subseteq RestartType
  BY <1>1, <1>5, <1>6 DEF Typed
<1>10. QED
  BY <1>1, <1>7, <1>8, <1>9, StoppingKeeps DEF Typed

-----------------------------------------------------------------------------
(* What changes a Satellite only.                                          *)

\* A push is admitted, or over.
LEMMA ArriveKeeps ==
    ASSUME RegistryInv, NEW t \in Tasks, Arrive(t)
    PROVE  RegistryInv'
<1>1. Typed /\ AllHeld /\ TaskFits(t)
  BY DEF RegistryInv
<1>2. /\ program' = program /\ objects' = objects /\ current' = current /\ disk' = disk
      /\ timer' = timer /\ restarts' = restarts /\ late' = late /\ agent' = agent
      /\ satellite' = satellite /\ expected' = expected /\ clash' = clash /\ doubtful' = doubtful
      /\ task[t].phase = "begun" /\ Kind(t) = "push"
  BY DEF Arrive
<1>3. PICK next : /\ next \in {[task[t] EXCEPT !.phase = "admitted"], Finished(t)}
                  /\ task' = [task EXCEPT ![t] = next]
  BY DEF Arrive
<1>4. /\ next \in TaskType /\ next.phase \in {"admitted", "done"} /\ next.ref = 0
      /\ next.index \in Token
      /\ next.phase = "admitted" =>
            next.index = task[t].index /\ next.crossed = task[t].crossed
  <2>1. task[t] \in TaskType /\ task[t].ref = 0 /\ task[t].index \in Token
    BY <1>1, <1>2, TaskTypes DEF TaskFits, Remote
  <2>2. CASE next = [task[t] EXCEPT !.phase = "admitted"]
    BY <2>1, <2>2 DEF TaskType, Phases
  <2>3. CASE next = Finished(t)
    BY <2>3, FinishedFits DEF Token
  <2>4. QED
    BY <1>3, <2>2, <2>3
<1>5. task' \in [Tasks -> TaskType] /\ task'[t] = next /\ Alone(t)
  BY <1>1, <1>3, <1>4, TaskReplaced
<1>6. \A u \in Tasks \ {t} : Same(u) /\ task'[u] = task[u]
  BY <1>5 DEF Alone, Same
<1>7. Typed'
  BY <1>1, <1>2, <1>5 DEF Typed
<1>8. AllHeld'
  <2>1. \A u \in Tasks : task'[u].ref \in {0, task[u].ref}
    BY <1>4, <1>5, <1>6
  <2>2. QED
    BY <1>1, <1>2, <2>1, LiveFits, NothingGained
<1>9. Unsettled' = Unsettled
  BY <1>2, <1>4, <1>5, <1>6, UnsettledStays
<1>10. ASSUME NEW u \in Tasks PROVE TaskFits(u)'
  <2>1. CASE u = t
    BY <1>2, <1>4, <1>5, <2>1 DEF TaskFits, Busy, Kind, Active
  <2>2. CASE u # t
    BY <1>2, <1>6, <2>2, TaskStays DEF RegistryInv
  <2>3. QED
    BY <2>1, <2>2
<1>11. \A r \in restarts' : RestartFits(r)'
  BY <1>1, <1>2, <1>6, RestartsStay DEF RegistryInv
<1>12. ASSUME ~clash' PROVE Kept'
  <2>1. Kept
    BY <1>2, <1>12 DEF RegistryInv
  <2>2. ASSUME NEW u \in Tasks \ {t} PROVE KeptTask(u)'
    BY <1>2, <1>6, <1>9, <2>1, KeptAlone DEF Kept
  <2>3. KeptTask(t)'
    BY <1>4, <1>5 DEF KeptTask, Busy
  <2>4. QED
    BY <1>2, <1>9, <2>1, <2>2, <2>3 DEF Kept
<1>13. \A s : CalledFor(s)' \subseteq CalledFor(s)
  BY <1>2, <1>4, <1>5, <1>6 DEF CalledFor, Kind, Sat
<1>14. ASSUME NEW s \in Sats PROVE Credible(s)'
  <2>1. \A u \in CalledFor(s)' : Same(u) /\ (task[u].crossed => task'[u].crossed)
    BY <1>4, <1>5, <1>6 DEF CalledFor
  <2>2. \A u \in Granted(s) : u \in Granted(s)'
    BY <1>2, <1>6 DEF Granted, CalledFor, Kind, Sat
  <2>3. QED
    BY <1>2, <2>1, <2>2, CredibleRests DEF RegistryInv
<1>15. ASSUME NEW u \in Tasks \ {t} PROVE VisitFits(u)'
  BY <1>2, <1>6, <1>13, VisitRests DEF RegistryInv
<1>16. VisitFits(t)'
  <2>1. Kind(t)' = Kind(t) /\ Sat(t)' = Sat(t)
    BY <1>2, KindsStay
  <2>2. SUFFICES ASSUME Visits(t)' PROVE VisitFits(t)'
    BY DEF VisitFits
  <2>3. next.phase = "admitted" /\ Visits(t)
    BY <1>2, <1>4, <1>5, <2>1, <2>2 DEF Visits, Active
  <2>4. /\ CalledFor(Sat(t)) = {}
        /\ ~clash => \A i \in 1..Len(expected.peers) :
              expected.peers[i].sat = Sat(t) /\ expected.peers[i].claimed =>
                  Leaves(t, expected.peers[i])
    BY <2>3 DEF RegistryInv, VisitFits
  <2>5. \A e : Leaves(t, e) => Leaves(t, e)'
    BY <1>2, <1>4, <1>5, <2>1, <2>3 DEF Leaves
  <2>6. QED
    BY <1>2, <1>13, <2>1, <2>4, <2>5 DEF VisitFits
<1>17. QED
  BY <1>7, <1>8, <1>10, <1>11, <1>12, <1>14, <1>15, <1>16 DEF RegistryInv

LEMMA LeftFits ==
    ASSUME Typed, NEW t \in Tasks, TaskFits(t), Kind(t) \in Remote,
           Kind(t) = "dialog" => Active(t)
    PROVE  /\ Left(t) \in SatelliteType
           /\ Kind(t) = "push" =>
                /\ Left(t).paired = satellite[Sat(t)].paired
                /\ Left(t).token = satellite[Sat(t)].token
                /\ Left(t).command = task[t].index
           /\ Kind(t) = "dialog" => Left(t) = task[t].had
<1>1. satellite[Sat(t)] \in SatelliteType /\ t \in Token
  BY TaskTypes DEF Typed
<1>2. CASE Kind(t) = "push"
  BY <1>1, <1>2 DEF Left, TaskFits, SatelliteType
<1>3. CASE Kind(t) = "dialog"
  BY <1>3 DEF Left, TaskFits
<1>4. CASE Kind(t) = "reset"
  BY <1>1, <1>4 DEF Left, SatelliteType
<1>5. QED
  BY <1>2, <1>3, <1>4 DEF Remote

\* It is over, and has met the others if it upsets the Satellite.
LEMMA TaskLeft ==
    ASSUME Typed, NEW t \in Tasks, EndRemote(t)
    PROVE  /\ task' \in [Tasks -> TaskType] /\ Ended(t)
           /\ \A u \in Tasks \ {t} :
                /\ Same(u) /\ task'[u].during = task[u].during
                /\ task'[u].crossed = (task[u].crossed \/ (Upsets(t) /\ u \in Crossing(t)))
                /\ ~Upsets(t) => task'[u] = task[u]
<1>1. task' = [u \in Tasks |->
                   IF u = t THEN Finished(t)
                   ELSE IF Upsets(t) /\ u \in Crossing(t) THEN [task[u] EXCEPT !.crossed = TRUE]
                   ELSE task[u]]
  BY DEF EndRemote
<1>2. task'[t] = Finished(t) /\ task' = [u \in Tasks |-> task'[u]]
  BY <1>1
<1>3. ASSUME NEW u \in Tasks \ {t}
      PROVE  /\ task'[u] \in TaskType /\ Same(u) /\ task'[u].during = task[u].during
             /\ task'[u].crossed = (task[u].crossed \/ (Upsets(t) /\ u \in Crossing(t)))
             /\ ~Upsets(t) => task'[u] = task[u]
  <2>1. task[u] \in TaskType /\ task[u].crossed \in BOOLEAN
    BY TaskTypes
  <2>2. CASE Upsets(t) /\ u \in Crossing(t)
    <3> DEFINE v == [task[u] EXCEPT !.crossed = TRUE]
    <3>1. task'[u] = v
      BY <1>1, <2>2
    <3>2. v \in TaskType /\ v.during = task[u].during /\ v.phase = task[u].phase
          /\ v.ref = task[u].ref /\ v.copy = task[u].copy
          /\ v.index = task[u].index /\ v.token = task[u].token /\ v.had = task[u].had
          /\ v.reply = task[u].reply
          /\ v.crossed
      BY <2>1 DEF TaskType
    <3> HIDE DEF v
    <3>3. v.crossed \in BOOLEAN
      BY <3>2 DEF TaskType
    <3>4. QED
      BY <2>1, <2>2, <3>1, <3>2, <3>3 DEF Same
  <2>3. CASE ~(Upsets(t) /\ u \in Crossing(t))
    <3>1. task'[u] = task[u]
      BY <1>1, <2>3
    <3>2. QED
      BY <2>1, <2>3, <3>1 DEF Same
  <2>4. QED
    BY <2>2, <2>3
<1>4. task' \in [Tasks -> TaskType]
  BY <1>2, <1>3, FinishedFits
<1>5. QED
  BY <1>2, <1>3, <1>4, FinishedFits DEF Ended

LEMMA EndRemoteKeeps ==
    ASSUME RegistryInv, NEW t \in Tasks, EndRemote(t)
    PROVE  RegistryInv'
<1>1. Typed /\ AllHeld /\ TaskFits(t)
  BY DEF RegistryInv
<1>2. /\ program' = program /\ objects' = objects /\ current' = current /\ disk' = disk
      /\ timer' = timer /\ restarts' = restarts /\ late' = late /\ agent' = agent
      /\ expected' = expected /\ clash' = clash /\ Kind(t) \in Remote
      /\ satellite' = [satellite EXCEPT ![Sat(t)] = Left(t)]
      /\ doubtful' = IF Upsets(t) THEN doubtful \cup {Sat(t)} ELSE doubtful
      /\ Kind(t) # "reset" => Active(t)
      /\ task[t].phase \notin {"called", "saved"}
  BY DEF EndRemote, Remote, Active
<1>3. /\ task' \in [Tasks -> TaskType] /\ Ended(t)
      /\ \A u \in Tasks \ {t} :
            /\ Same(u) /\ task'[u].during = task[u].during
            /\ task'[u].crossed = (task[u].crossed \/ (Upsets(t) /\ u \in Crossing(t)))
            /\ ~Upsets(t) => task'[u] = task[u]
  BY <1>1, TaskLeft
<1>4. PICK x \in Sats : x = Sat(t)
  BY <1>1, TaskTypes
<1>5. /\ satellite' \in [Sats -> SatelliteType] /\ satellite'[x] = Left(t)
      /\ \A s \in Sats \ {x} : satellite'[s] = satellite[s]
      /\ doubtful' \subseteq Sats /\ doubtful \subseteq doubtful'
  BY <1>1, <1>2, <1>4, LeftFits DEF Typed, Remote
<1>6. Typed'
  BY <1>1, <1>2, <1>3, <1>5 DEF Typed
<1>7. AllHeld'
  <2>1. \A u \in Tasks : task'[u].ref \in {0, task[u].ref}
    BY <1>3 DEF Ended, Same
  <2>2. QED
    BY <1>1, <1>2, <2>1, LiveFits, NothingGained
<1>8. Unsettled' = Unsettled
  BY <1>2, <1>3, UnsettledStays DEF Ended, Same
<1>9. \A u \in Tasks : TaskFits(u)'
  BY <1>2, <1>3, TaskStays, EndedStays DEF RegistryInv
<1>10. \A r \in restarts' : RestartFits(r)'
  BY <1>1, <1>2, <1>3, RestartsStay DEF RegistryInv
<1>11. ASSUME ~clash' PROVE Kept'
  <2>1. Kept
    BY <1>2, <1>11 DEF RegistryInv
  <2>2. ASSUME NEW u \in Tasks \ {t} PROVE KeptTask(u)'
    BY <1>2, <1>3, <1>8, <2>1, KeptAlone DEF Kept
  <2>3. QED
    BY <1>2, <1>3, <1>8, <2>1, <2>2, EndedStays DEF Kept
<1>12. \A s : CalledFor(s)' \subseteq CalledFor(s) /\ t \notin CalledFor(s)
  BY <1>2, <1>3 DEF CalledFor, Kind, Sat, Same, Ended
<1>13. ASSUME NEW s \in Sats, s # x PROVE Credible(s)'
  <2>1. \A u \in CalledFor(s)' : Same(u) /\ (task[u].crossed => task'[u].crossed)
    BY <1>3, <1>12 DEF CalledFor
  <2>2. \A u \in Granted(s) : u \in Granted(s)'
    BY <1>2, <1>3, <1>12 DEF Granted, CalledFor, Kind, Sat, Same
  <2>3. QED
    BY <1>2, <1>5, <1>13, <2>1, <2>2, CredibleRests DEF RegistryInv
<1>14. ASSUME Upsets(t) PROVE Credible(x)'
  <2>1. x \in doubtful'
    BY <1>2, <1>4, <1>14
  <2>2. \A u \in CalledFor(x)' : task'[u].crossed
    <3>1. ASSUME NEW u \in CalledFor(x) PROVE u \in Crossing(t)
      BY <1>4, <1>12, <3>1 DEF CalledFor, Crossing, Active, Lasting
    <3>2. QED
      BY <1>3, <1>12, <1>14, <3>1 DEF CalledFor, Crossing
  <2>3. \A u \in Granted(x)' : task'[u].crossed
    BY <2>2 DEF Granted
  <2>4. QED
    BY <2>1, <2>2, <2>3 DEF Credible
<1>15. ASSUME ~Upsets(t) PROVE Credible(x)' /\ CalledFor(x) = {}
  <2>1. Visits(t)
    BY <1>2, <1>15 DEF Visits, Upsets, Remote
  <2>2. /\ CalledFor(x) = {}
        /\ ~clash => \A i \in 1..Len(expected.peers) :
              expected.peers[i].sat = x /\ expected.peers[i].claimed =>
                  Leaves(t, expected.peers[i])
    BY <1>4, <2>1 DEF RegistryInv, VisitFits
  <2>3. ASSUME ~clash, x \notin doubtful PROVE Agree(x)'
    <3>1. Agree(x)
      BY <2>2, <2>3 DEF RegistryInv, Credible, Granted
    <3>2. ASSUME NEW e, Fits(e, satellite[x]), Leaves(t, e)
          PROVE  Fits(e, Left(t))
      <4>1. CASE Kind(t) = "push"
        <5>1. /\ Left(t).paired = satellite[x].paired /\ Left(t).token = satellite[x].token
              /\ Left(t).command = task[t].index /\ Left(t) \in SatelliteType
          BY <1>1, <1>4, <4>1, LeftFits DEF Remote
        <5>2. e.command = task[t].index
          BY <3>2, <4>1 DEF Leaves
        <5>3. satellite[x].paired /\ satellite[x].token = e.token
          BY <3>2 DEF Fits
        <5>4. Left(t) = [paired |-> TRUE, token |-> e.token, command |-> e.command]
          BY <5>1, <5>2, <5>3 DEF SatelliteType
        <5>5. QED
          BY <5>4 DEF Fits
      <4>2. CASE Kind(t) = "dialog"
        <5>1. Left(t) = task[t].had
          BY <1>1, <1>2, <4>2, LeftFits DEF Remote
        <5>2. QED
          BY <1>4, <2>3, <3>2, <4>2, <5>1 DEF Leaves
      <4>3. QED
        BY <2>1, <4>1, <4>2 DEF Visits
    <3>3. QED
      BY <1>2, <1>5, <2>2, <2>3, <3>1, <3>2 DEF Agree
  <2>4. CalledFor(x)' = {} /\ Granted(x)' = {}
    BY <1>12, <2>2 DEF Granted
  <2>5. doubtful' = doubtful /\ clash' = clash
    BY <1>2, <1>15
  <2>6. QED
    BY <2>2, <2>3, <2>4, <2>5 DEF Credible
<1>16. ASSUME NEW u \in Tasks PROVE VisitFits(u)'
  <2>1. CASE u = t
    BY <1>3, <2>1, VisitOver DEF Ended, Active
  <2>2. CASE u # t
    BY <1>2, <1>3, <1>5, <1>12, <2>2, VisitRests DEF RegistryInv
  <2>3. QED
    BY <2>1, <2>2
<1>17. QED
  BY <1>6, <1>7, <1>9, <1>10, <1>11, <1>13, <1>14, <1>15, <1>16 DEF RegistryInv

-----------------------------------------------------------------------------
(* Saving.                                                                 *)

LEMMA SettledByHistory ==
    ASSUME Typed, NEW t \in Tasks, program' = program, satellite' = satellite, History(t),
           NotedBy(t), task'[t].phase # "called", Succeeds(t), Kind(t) \in Calls => Ready(t),
           Kind(t) \in InPlace \cup Replacing
    PROVE  Settles(t) /\ doubtful' \subseteq Sats /\ (~clash' => ~clash /\ ~Clashes(t))
<1>1. expected' = Meant(expected, t) /\ doubtful' = Doubts(t) /\ clash' = (clash \/ Clashes(t))
  BY DEF History
<1>2. Sat(t) \in Sats /\ doubtful \subseteq Sats
  BY TaskTypes DEF Typed
<1>3. /\ doubtful' \subseteq Sats
      /\ task[t].crossed => Sat(t) \in doubtful'
      /\ \A s \in doubtful : s \in doubtful' \/ (Kind(t) = "claim" /\ s = Sat(t))
  BY <1>1, <1>2 DEF Doubts
<1>4. Kind(t) \in Calls => task[t].phase = "called" /\ (task[t].reply = "ok" \/ Kind(t) = "remove")
  BY DEF Succeeds, Ready
<1>5. QED
  BY <1>1, <1>3, <1>4 DEF Settles

\* The object numbered ref is changed in place and saved.
ChangesObject(t, ref, i) ==
    /\ Kind(t) \in InPlace /\ task[t].phase # "saved"
    /\ disk' = Changed(objects[ref], t, i)
    /\ task' = Noted(t, Finished(t))
    /\ \/ objects' = [objects EXCEPT ![ref] = disk']
       \/ objects' = Collected([objects EXCEPT ![ref] = disk'], task', current', restarts')
    /\ current' = current /\ restarts' = restarts /\ timer' \in BOOLEAN /\ late' = late
    /\ agent' = agent
    /\ Settles(t) /\ clash' \in BOOLEAN /\ doubtful' \subseteq Sats

LEMMA InPlaceKeeps ==
    ASSUME RegistryInv, NEW t \in Tasks, NEW ref \in Held, NEW i \in Nat, ChangesObject(t, ref, i),
           ~clash' =>
               /\ ~clash /\ ref = current /\ Unsettled = {}
               /\ Kind(t) = "remove" =>
                     i \in DOMAIN expected.peers /\ expected.peers[i].sat = Sat(t)
    PROVE  RegistryInv'
<1>1. Typed /\ AllHeld /\ TaskFits(t)
  BY DEF RegistryInv
<1>2. /\ Kind(t) \in InPlace /\ task[t].phase # "saved"
      /\ current' = current /\ restarts' = restarts /\ timer' \in BOOLEAN /\ late' = late
      /\ agent' = agent
      /\ Settles(t) /\ clash' \in BOOLEAN /\ doubtful' \subseteq Sats
      /\ program' = program /\ satellite' = satellite /\ expected' = Meant(expected, t)
  BY DEF ChangesObject, Settles
<1>3. task' \in [Tasks -> TaskType] /\ Ended(t) /\ NotedBy(t)
  <2>1. task' = Noted(t, Finished(t))
    BY DEF ChangesObject
  <2>2. QED
    BY <1>1, <2>1, FinishedFits, TaskNoted DEF Ended
<1>4. \A u \in Tasks \ {t} :
          /\ Same(u) /\ task'[u].crossed = task[u].crossed
          /\ task'[u].during = IF Active(u) THEN task[u].during \cup {t} ELSE task[u].during
  BY <1>3 DEF NotedBy
<1>5. objects[ref] \in Configs /\ expected \in Configs /\ ref \in 1..Len(objects)
      /\ objects \in Seq(Configs \cup {Nothing})
  BY <1>1, HeldFits DEF Typed
<1>6. disk' \in Configs /\ disk' = Changed(objects[ref], t, i)
  BY <1>1, <1>5, ChangedFits DEF ChangesObject
<1>7. expected' \in Configs
  BY <1>1, <1>2, <1>5, MeantFits
<1>8. PICK objs : objs = [objects EXCEPT ![ref] = disk']
  OBVIOUS
<1>9. /\ objs \in Seq(Configs \cup {Nothing}) /\ Len(objs) = Len(objects) /\ objs[ref] = disk'
      /\ \A r \in 1..Len(objects) \ {ref} : objs[r] = objects[r]
  <2>1. disk' \in Configs \cup {Nothing}
    BY <1>6
  <2>2. QED
    BY <1>5, <1>8, <2>1, ExceptSeq
<1>10. \A r \in Held : r \in 1..Len(objs) /\ objs[r] # Nothing
  <2>1. disk' # Nothing
    BY <1>6, RegistryAssumption DEF Configs
  <2>2. QED
    BY <1>1, <1>9, <2>1, HeldFits
<1>11. Live(task', current', restarts') \subseteq Held
  <2>1. \A u \in Tasks : task'[u].ref # 0 => task'[u].ref \in Held
    BY <1>1, <1>3, <1>4, LiveFits DEF Same, Ended
  <2>2. QED
    BY <1>1, <1>2, <2>1, LiveFits, LiveIn
<1>12. objects' \in Seq(Configs \cup {Nothing}) /\ AllHeld'
       /\ \A r \in Live(task', current', restarts') : objects'[r] = objs[r]
  <2>1. CASE objects' = objs
    BY <1>9, <1>10, <1>11, <2>1 DEF AllHeld, Held
  <2>2. CASE objects' = Collected(objs, task', current', restarts')
    BY <1>9, <1>10, <1>11, <2>2, Collecting
  <2>3. QED
    BY <1>8, <2>1, <2>2 DEF ChangesObject
<1>13. Typed'
  BY <1>1, <1>2, <1>3, <1>6, <1>7, <1>12 DEF Typed
<1>14. \A u \in Tasks : TaskFits(u)'
  BY <1>2, <1>3, <1>4, TaskStays, EndedStays DEF RegistryInv
<1>15. \A r \in restarts' : RestartFits(r)'
  BY <1>1, <1>2, <1>4, RestartsStay DEF RegistryInv
<1>16. Unsettled' = Unsettled
  BY <1>2, <1>3, <1>4, UnsettledStays DEF Ended, Same
<1>17. ASSUME ~clash' PROVE Kept'
  <2>1. /\ Kept /\ ref = current /\ Unsettled = {}
        /\ Kind(t) = "remove" => i \in DOMAIN expected.peers /\ expected.peers[i].sat = Sat(t)
    BY <1>17 DEF RegistryInv
  <2>2. objects[ref] = expected
    BY <2>1 DEF Kept
  <2>3. disk' = expected'
    BY <1>1, <1>2, <1>5, <1>6, <2>1, <2>2, MeantIsDone, SomeEntry
  <2>4. objects'[current'] = expected'
    BY <1>2, <1>9, <1>12, <2>1, <2>3 DEF Live
  <2>5. Kind(t) # "remove" =>
               /\ DOMAIN expected.peers \subseteq DOMAIN expected'.peers
               /\ \A j \in DOMAIN expected.peers : expected'.peers[j].sat = expected.peers[j].sat
    <3>1. SUFFICES ASSUME Kind(t) # "remove"
                   PROVE  /\ Len(expected'.peers) = Len(expected.peers)
                          /\ \A j \in 1..Len(expected.peers) :
                                expected'.peers[j].sat = expected.peers[j].sat
      BY <1>5, <1>7, SomeEntry
    <3>2. Kind(t) \in Edits \cup {"refresh"}
      BY <1>2, <3>1 DEF InPlace, Edits
    <3>3. expected' = Changed(expected, t, i)
      BY <1>6, <2>2, <2>3
    <3>4. QED
      BY <1>1, <1>2, <1>5, <3>2, <3>3, ChangedFits
  <2>6. ASSUME NEW u \in Tasks \ {t} PROVE KeptTask(u)'
    BY <1>2, <1>3, <1>16, <2>1, <2>5, KeptInPlace DEF Kept
  <2>7. QED
    BY <1>3, <2>3, <2>4, <2>6, EndedStays DEF Kept
<1>18. \A s \in Sats : Credible(s)'
  BY <1>1, <1>2, CredibleSettled DEF RegistryInv
<1>19. ASSUME NEW u \in Tasks PROVE VisitFits(u)'
  <2>1. CASE u = t
    BY <1>3, <2>1, VisitOver DEF Ended, Active
  <2>2. CASE u # t
    BY <1>1, <1>2, <2>2, VisitSettled DEF RegistryInv
  <2>3. QED
    BY <2>1, <2>2
<1>20. QED
  BY <1>12, <1>13, <1>14, <1>15, <1>17, <1>18, <1>19 DEF RegistryInv

LEMMA EndInPlaceKeeps ==
    ASSUME RegistryInv, NEW t \in Tasks, EndInPlace(t)
    PROVE  RegistryInv'
<1>1. Typed /\ AllHeld /\ TaskFits(t)
  BY DEF RegistryInv
<1>2. /\ Ready(t) /\ Succeeds(t) /\ Kind(t) \in InPlace
      /\ disk' = Changed(objects[task[t].ref], t, task[t].index)
      /\ task' = Noted(t, Finished(t))
      /\ objects' = Collected([objects EXCEPT ![task[t].ref] = disk'], task', current', restarts')
      /\ History(t)
      /\ program' = program /\ current' = current /\ timer' = timer /\ restarts' = restarts
      /\ late' = late /\ agent' = agent /\ satellite' = satellite
  BY DEF EndInPlace
<1>3. Busy(t)
  BY <1>2 DEF Ready, Busy
<1>4. task[t].ref \in Held /\ task[t].index \in Nat
  BY <1>1, <1>2, <1>3, LiveFits, TaskTypes DEF TaskFits
<1>5. NotedBy(t) /\ task'[t].phase = "done"
  BY <1>1, <1>2, FinishedFits, TaskNoted
<1>6. Settles(t) /\ doubtful' \subseteq Sats /\ (~clash' => ~clash /\ ~Clashes(t))
  BY <1>1, <1>2, <1>5, SettledByHistory
<1>7. clash' \in BOOLEAN /\ timer' \in BOOLEAN
  BY <1>1, <1>2 DEF History, Typed
<1>8. ChangesObject(t, task[t].ref, task[t].index)
  BY <1>2, <1>3, <1>6, <1>7 DEF ChangesObject, Busy
<1>9. ASSUME ~clash'
      PROVE  /\ ~clash /\ task[t].ref = current /\ Unsettled = {}
             /\ Kind(t) = "remove" =>
                   task[t].index \in DOMAIN expected.peers
                   /\ expected.peers[task[t].index].sat = Sat(t)
  <2>1. ~clash /\ ~Clashes(t)
    BY <1>6, <1>9
  <2>2. KeptTask(t)
    BY <2>1 DEF RegistryInv, Kept
  <2>3. Plain(t) /\ (Kind(t) = "remove" => Untouched(t))
    BY <2>1 DEF Clashes, Plain, Untouched
  <2>4. QED
    BY <1>2, <1>3, <2>1, <2>2, <2>3 DEF KeptTask, Right
<1>10. QED
  BY <1>4, <1>8, <1>9, InPlaceKeeps

\* What was saved, base with the change of t, becomes the current object.
ReplacesObject(t, base) ==
    /\ Kind(t) \in {"claim", "settings", "sync"} /\ task[t].phase # "saved"
    /\ disk' = Changed(base, t, 0)
    /\ current' = Len(objects) + 1
    /\ task' = Noted(t, Finished(t))
    /\ objects' = Collected(Append(objects, disk'), task', current', restarts')
    /\ restarts' = restarts /\ timer' \in BOOLEAN /\ late' = late
    /\ agent' = agent
    /\ Settles(t) /\ clash' \in BOOLEAN /\ doubtful' \subseteq Sats

LEMMA ReplacingKeeps ==
    ASSUME RegistryInv, NEW t \in Tasks, NEW base \in Configs, ReplacesObject(t, base),
           ~clash' => base = expected
    PROVE  RegistryInv'
<1>1. Typed /\ AllHeld /\ TaskFits(t)
  BY DEF RegistryInv
<1>2. /\ Kind(t) \in {"claim", "settings", "sync"} /\ task[t].phase # "saved"
      /\ current' = Len(objects) + 1
      /\ restarts' = restarts /\ timer' \in BOOLEAN /\ late' = late
      /\ agent' = agent
      /\ Settles(t) /\ clash' \in BOOLEAN /\ doubtful' \subseteq Sats
      /\ program' = program /\ satellite' = satellite /\ expected' = Meant(expected, t)
  BY DEF ReplacesObject, Settles
<1>3. task' \in [Tasks -> TaskType] /\ Ended(t) /\ NotedBy(t)
  <2>1. task' = Noted(t, Finished(t))
    BY DEF ReplacesObject
  <2>2. QED
    BY <1>1, <2>1, FinishedFits, TaskNoted DEF Ended
<1>4. \A u \in Tasks \ {t} :
          /\ Same(u) /\ task'[u].crossed = task[u].crossed
          /\ task'[u].during = IF Active(u) THEN task[u].during \cup {t} ELSE task[u].during
  BY <1>3 DEF NotedBy
<1>5. objects \in Seq(Configs \cup {Nothing}) /\ expected \in Configs
  BY <1>1 DEF Typed
<1>6. disk' \in Configs /\ disk' = Changed(base, t, 0)
  BY <1>1, ChangedFits DEF ReplacesObject, Replacing
<1>7. expected' \in Configs
  BY <1>1, <1>2, <1>5, MeantFits DEF Replacing
<1>8. PICK objs : objs = Append(objects, disk')
  OBVIOUS
<1>9. /\ objs \in Seq(Configs \cup {Nothing}) /\ Len(objs) = Len(objects) + 1
      /\ objs[Len(objects) + 1] = disk' /\ Len(objects) \in Nat
      /\ \A r \in 1..Len(objects) : objs[r] = objects[r]
  <2>1. disk' \in Configs \cup {Nothing}
    BY <1>6
  <2>2. QED
    BY <1>5, <1>8, <2>1
<1>10. \A r \in Held \cup {Len(objects) + 1} : r \in 1..Len(objs) /\ objs[r] # Nothing
  <2>1. disk' # Nothing
    BY <1>6, RegistryAssumption DEF Configs
  <2>2. QED
    BY <1>1, <1>9, <2>1, HeldFits
<1>11. Live(task', current', restarts') \subseteq Held \cup {Len(objects) + 1}
  <2>1. \A u \in Tasks : task'[u].ref # 0 => task'[u].ref \in Held
    BY <1>1, <1>3, <1>4, LiveFits DEF Same, Ended
  <2>2. PICK X : X = Held \cup {Len(objects) + 1}
    OBVIOUS
  <2>3. /\ current' \in X /\ \A u \in Tasks : task'[u].ref # 0 => task'[u].ref \in X
        /\ \A r \in restarts' : r.ref \in X
    BY <1>1, <1>2, <2>1, <2>2, LiveFits
  <2>4. Live(task', current', restarts') \subseteq X
    BY <2>3, LiveIn
  <2>5. QED
    BY <2>2, <2>4
<1>12. objects' \in Seq(Configs \cup {Nothing}) /\ AllHeld'
       /\ \A r \in Live(task', current', restarts') : objects'[r] = objs[r]
  <2>1. objects' = Collected(objs, task', current', restarts')
    BY <1>8 DEF ReplacesObject
  <2>2. QED
    BY <1>9, <1>10, <1>11, <2>1, Collecting
<1>13. Typed'
  BY <1>1, <1>2, <1>3, <1>6, <1>7, <1>9, <1>12 DEF Typed
<1>14. \A u \in Tasks : TaskFits(u)'
  BY <1>2, <1>3, <1>4, TaskStays, EndedStays DEF RegistryInv
<1>15. \A r \in restarts' : RestartFits(r)'
  BY <1>1, <1>2, <1>4, RestartsStay DEF RegistryInv
<1>16. ASSUME ~clash' PROVE Kept'
  <2>1. disk' = expected'
    BY <1>1, <1>2, <1>5, <1>6, <1>16, MeantIsDone
  <2>2. objects'[current'] = expected'
    BY <1>2, <1>9, <1>12, <2>1 DEF Live
  <2>3. ASSUME NEW u \in Tasks \ {t} PROVE KeptTask(u)'
    BY <1>2, <1>4, KeptReplaced DEF Replacing
  <2>4. QED
    BY <1>3, <2>1, <2>2, <2>3, EndedStays DEF Kept
<1>17. \A s \in Sats : Credible(s)'
  BY <1>1, <1>2, CredibleSettled DEF RegistryInv
<1>18. ASSUME NEW u \in Tasks PROVE VisitFits(u)'
  <2>1. CASE u = t
    BY <1>3, <2>1, VisitOver DEF Ended, Active
  <2>2. CASE u # t
    BY <1>1, <1>2, <2>2, VisitSettled DEF RegistryInv
  <2>3. QED
    BY <2>1, <2>2
<1>19. QED
  BY <1>12, <1>13, <1>14, <1>15, <1>16, <1>17, <1>18 DEF RegistryInv

LEMMA EndReplacingKeeps ==
    ASSUME RegistryInv, NEW t \in Tasks, EndReplacing(t)
    PROVE  RegistryInv'
<1>1. Typed /\ AllHeld /\ TaskFits(t)
  BY DEF RegistryInv
<1>2. PICK base : base = IF Kind(t) = "claim" THEN objects[task[t].ref] ELSE task[t].copy
  OBVIOUS
<1>3. /\ Ready(t) /\ Succeeds(t) /\ Kind(t) \in {"claim", "settings"}
      /\ disk' = Changed(base, t, 0)
      /\ current' = Len(objects) + 1
      /\ task' = Noted(t, Finished(t))
      /\ objects' = Collected(Append(objects, disk'), task', current', restarts')
      /\ timer' = TRUE /\ History(t)
      /\ program' = program /\ restarts' = restarts /\ late' = late /\ agent' = agent
      /\ satellite' = satellite
  BY <1>2 DEF EndReplacing
<1>4. Busy(t) /\ task[t].phase # "saved"
  BY <1>3 DEF Ready, Busy
<1>5. base \in Configs
  <2>1. CASE Kind(t) = "claim"
    <3>1. task[t].ref \in Held
      BY <1>1, <1>4, <2>1, LiveFits DEF TaskFits
    <3>2. QED
      BY <1>1, <1>2, <2>1, <3>1, HeldFits
  <2>2. CASE Kind(t) = "settings"
    BY <1>1, <1>2, <1>4, <2>2, TaskTypes DEF TaskFits, CopiesFirst
  <2>3. QED
    BY <1>3, <2>1, <2>2
<1>6. NotedBy(t) /\ task'[t].phase = "done"
  BY <1>1, <1>3, FinishedFits, TaskNoted
<1>7. Settles(t) /\ doubtful' \subseteq Sats /\ (~clash' => ~clash /\ ~Clashes(t))
  BY <1>1, <1>3, <1>6, SettledByHistory DEF Replacing
<1>8. clash' \in BOOLEAN
  BY <1>1, <1>3 DEF History, Typed
<1>9. ReplacesObject(t, base)
  BY <1>3, <1>4, <1>7, <1>8 DEF ReplacesObject
<1>10. ASSUME ~clash' PROVE base = expected
  <2>1. ~clash /\ ~Clashes(t)
    BY <1>7, <1>10
  <2>2. Kept /\ KeptTask(t)
    BY <2>1 DEF RegistryInv, Kept
  <2>3. CASE Kind(t) = "claim"
    <3>1. Plain(t)
      BY <2>1 DEF Clashes, Plain
    <3>2. task[t].ref = current /\ Unsettled = {}
      BY <1>4, <2>2, <2>3, <3>1 DEF KeptTask
    <3>3. QED
      BY <1>2, <2>2, <2>3, <3>2 DEF Kept
  <2>4. CASE Kind(t) = "settings"
    <3>1. task[t].during = {}
      BY <2>1, <2>4 DEF Clashes, CopiesFirst
    <3>2. QED
      BY <1>2, <1>4, <2>2, <2>4, <3>1 DEF KeptTask, CopiesFirst
  <2>5. QED
    BY <1>3, <2>3, <2>4
<1>11. QED
  BY <1>5, <1>9, <1>10, ReplacingKeeps

LEMMA AtOnceKeeps ==
    ASSUME RegistryInv, NEW t \in Tasks, AtOnce(t)
    PROVE  RegistryInv'
<1>1. Typed /\ AllHeld /\ TaskFits(t)
  BY DEF RegistryInv
<1>2. /\ task[t].phase = "new" /\ Kind(t) \in {"toggle", "sync"}
      /\ disk' = Changed(objects[current], t, 0)
      /\ task' = Noted(t, Finished(t))
      /\ expected' = Meant(expected, t)
      /\ clash' = (clash \/ Unsettled # {})
      /\ program' = program /\ restarts' = restarts /\ late' = late /\ agent' = agent
      /\ satellite' = satellite /\ doubtful' = doubtful
  BY DEF AtOnce, Atomic
<1>3. NotedBy(t) /\ task'[t].phase = "done"
  BY <1>1, <1>2, FinishedFits, TaskNoted
<1>4. Settles(t)
  BY <1>2, <1>3 DEF Settles, Calls, InPlace, Replacing
<1>5. clash' \in BOOLEAN /\ doubtful' \subseteq Sats /\ current \in Held /\ objects[current] \in Configs
  BY <1>1, <1>2, LiveFits, HeldFits DEF Typed
<1>6. CASE Kind(t) = "toggle"
  <2>1. objects' = [objects EXCEPT ![current] = disk'] /\ current' = current /\ timer' = timer
    BY <1>6 DEF AtOnce
  <2>2. timer' \in BOOLEAN
    BY <1>1, <2>1 DEF Typed
  <2>3. ChangesObject(t, current, 0)
    BY <1>2, <1>4, <1>5, <1>6, <2>1, <2>2 DEF ChangesObject, InPlace
  <2>4. QED
    BY <1>2, <1>5, <1>6, <2>3, InPlaceKeeps
<1>7. CASE Kind(t) = "sync"
  <2>1. objects' = Collected(Append(objects, disk'), task', current', restarts')
        /\ current' = Len(objects) + 1 /\ timer' = TRUE
    BY <1>7 DEF AtOnce
  <2>2. ReplacesObject(t, objects[current])
    BY <1>2, <1>4, <1>5, <1>7, <2>1 DEF ReplacesObject
  <2>3. ~clash' => objects[current] = expected
    BY <1>2 DEF RegistryInv, Kept
  <2>4. QED
    BY <1>5, <2>2, <2>3, ReplacingKeeps
<1>8. QED
  BY <1>2, <1>6, <1>7

LEMMA EndSetupKeeps ==
    ASSUME RegistryInv, NEW t \in Tasks, EndSetup(t)
    PROVE  RegistryInv'
<1>1. Typed /\ AllHeld /\ TaskFits(t)
  BY DEF RegistryInv
<1>2. PICK n \in Nat : n = Len(objects) + 1
  BY <1>1 DEF Typed
<1>3. /\ Kind(t) = "setup" /\ task[t].phase = "begun"
      /\ disk' = SetUp(t)
      /\ objects' = Append(objects, disk')
      /\ History(t)
      /\ program' = program /\ current' = current /\ timer' = timer /\ restarts' = restarts
      /\ late' = late /\ agent' = agent /\ satellite' = satellite
  BY DEF EndSetup
<1> DEFINE v == [task[t] EXCEPT !.phase = "saved", !.ref = n, !.copy = Nothing, !.during = {}]
<1>4. task' = Noted(t, v)
  BY <1>2, Zenon DEF EndSetup
<1>5. v \in TaskType /\ v.phase = "saved" /\ v.ref = n /\ v.during = {} /\ v.index = task[t].index
  <2>1. task[t] \in TaskType
    BY <1>1, TaskTypes
  <2>2. QED
    BY <2>1 DEF TaskType, Phases
<1> HIDE DEF v
<1>6. task' \in [Tasks -> TaskType] /\ NotedBy(t)
      /\ task'[t].phase = "saved" /\ task'[t].ref = n /\ task'[t].during = {}
  BY <1>1, <1>4, <1>5, TaskNoted
<1>7. \A u \in Tasks \ {t} :
          /\ Same(u) /\ task'[u].crossed = task[u].crossed
          /\ task'[u].during = IF Active(u) THEN task[u].during \cup {t} ELSE task[u].during
  BY <1>6 DEF NotedBy
<1>8. task[t].copy \in Configs /\ objects \in Seq(Configs \cup {Nothing}) /\ expected \in Configs
  BY <1>1, <1>3, TaskTypes DEF TaskFits, Busy, CopiesFirst, Typed
<1>9. /\ Settles(t) /\ doubtful' \subseteq Sats /\ (~clash' => ~clash /\ ~Clashes(t))
      /\ clash' \in BOOLEAN /\ expected' = Meant(expected, t)
  <2>1. Succeeds(t) /\ Kind(t) \notin Calls
    BY <1>3 DEF Succeeds, Calls
  <2>2. clash' \in BOOLEAN /\ expected' = Meant(expected, t)
    BY <1>1, <1>3 DEF History, Typed
  <2>3. QED
    BY <1>1, <1>3, <1>6, <2>1, <2>2, SettledByHistory DEF Replacing
<1>10. disk' \in Configs /\ disk' = Changed(task[t].copy, t, 0)
  BY <1>1, <1>3, <1>8, ChangedFits DEF SetUp, Replacing
<1>11. expected' \in Configs /\ expected'.peers = expected.peers
  <2>1. expected' = Changed(expected, t, 0)
    BY <1>1, <1>3, <1>8, <1>9, MeantIsDone
  <2>2. QED
    BY <1>1, <1>3, <1>8, <2>1, ChangedFits DEF Replacing
<1>12. /\ objects' \in Seq(Configs \cup {Nothing}) /\ Len(objects') = n
       /\ objects'[n] = disk' /\ disk' # Nothing
       /\ \A r \in 1..Len(objects) : objects'[r] = objects[r]
  <2>1. disk' \in Configs \cup {Nothing} /\ disk' # Nothing
    BY <1>10, RegistryAssumption DEF Configs
  <2>2. QED
    BY <1>2, <1>3, <1>8, <2>1
<1>13. Held \subseteq Held' /\ n \in Held' /\ n # 0
  BY <1>1, <1>2, <1>12, HeldFits DEF Held
<1>14. AllHeld'
  <2>1. PICK X : X = Held'
    OBVIOUS
  <2>2. \A u \in Tasks : task'[u].ref # 0 => task'[u].ref \in X
    BY <1>1, <1>6, <1>7, <1>13, <2>1, LiveFits DEF Same
  <2>3. current' \in X /\ \A r \in restarts' : r.ref \in X
    BY <1>1, <1>3, <1>13, <2>1, LiveFits
  <2>4. Live(task', current', restarts') \subseteq X
    BY <2>2, <2>3, LiveIn
  <2>5. QED
    BY <2>1, <2>4 DEF AllHeld
<1>15. Typed'
  BY <1>1, <1>3, <1>6, <1>9, <1>10, <1>11, <1>12 DEF Typed
<1>16. TaskFits(t)'
  BY <1>3, <1>6, <1>13 DEF TaskFits, Busy, Kind, Active, Remote
<1>17. \A u \in Tasks : TaskFits(u)'
  BY <1>3, <1>7, <1>16, TaskStays DEF RegistryInv
<1>18. \A r \in restarts' : RestartFits(r)'
  BY <1>1, <1>3, <1>7, RestartsStay DEF RegistryInv
<1>19. ASSUME ~clash' PROVE Kept'
  <2>1. Kept /\ KeptTask(t) /\ ~Clashes(t)
    BY <1>9, <1>19 DEF RegistryInv, Kept
  <2>2. task[t].during = {}
    BY <1>3, <2>1 DEF Clashes, CopiesFirst
  <2>3. task[t].copy = expected
    BY <1>3, <2>1, <2>2 DEF KeptTask, Busy, CopiesFirst
  <2>4. disk' = expected'
    BY <1>1, <1>3, <1>8, <1>9, <1>10, <2>3, MeantIsDone
  <2>5. Unsettled' # {}
    BY <1>3, <1>6 DEF Unsettled, Kind
  <2>6. objects'[current'].peers = expected'.peers
    <3>1. current \in 1..Len(objects)
      BY <1>1, LiveFits, HeldFits
    <3>2. QED
      BY <1>3, <1>11, <1>12, <2>1, <3>1 DEF Kept
  <2>7. KeptTask(t)'
    BY <1>6, <1>12, <2>4 DEF KeptTask, Busy
  <2>8. ASSUME NEW u \in Tasks \ {t} PROVE KeptTask(u)'
    BY <1>3, <1>7, KeptReplaced DEF Replacing
  <2>9. QED
    BY <2>4, <2>5, <2>6, <2>7, <2>8 DEF Kept
<1>20. \A s \in Sats : Credible(s)'
  BY <1>1, <1>9, CredibleSettled DEF RegistryInv
<1>21. ASSUME NEW u \in Tasks PROVE VisitFits(u)'
  <2>1. CASE u = t
    BY <1>3, <2>1, VisitOver DEF Kind
  <2>2. CASE u # t
    BY <1>1, <1>9, <2>2, VisitSettled DEF RegistryInv
  <2>3. QED
    BY <2>1, <2>2
<1>22. QED
  BY <1>14, <1>15, <1>17, <1>18, <1>19, <1>20, <1>21 DEF RegistryInv

-----------------------------------------------------------------------------
(* configure() ends; the driver dies.                                      *)

LEMMA RestartedKeeps ==
    ASSUME RegistryInv, NEW r, Restarted(r)
    PROVE  RegistryInv'
<1>1. Typed /\ AllHeld
  BY DEF RegistryInv
<1>2. /\ r \in restarts /\ restarts' = restarts \ {r} /\ current' = r.ref
      /\ agent' \in {"up", "orphan"} /\ late' = late
      /\ clash' = (clash \/ current # r.seen \/ (r.by # 0 /\ task[r.by].during # {}))
      /\ objects' = Collected(objects, task', current', restarts')
      /\ program' = program /\ disk' = disk /\ timer' = timer /\ satellite' = satellite
      /\ expected' = expected /\ doubtful' = doubtful
  BY DEF Restarted, Started, PortTaken, Configured
<1>3. r \in RestartType /\ r.by \in Token /\ RestartFits(r) /\ r.ref \in Held
  BY <1>1, <1>2, LiveFits DEF RegistryInv, Typed, RestartType
<1>4. 0 \notin Tasks
  BY RegistryAssumption
<1>5. /\ task' \in [Tasks -> TaskType]
      /\ \A u \in Tasks : u # r.by => Same(u) /\ task'[u].crossed = task[u].crossed
      /\ r.by = 0 => task' = task
      /\ r.by # 0 => Ended(r.by) /\ NotedBy(r.by)
  <2>1. CASE r.by = 0
    <3>1. task' = [t \in Tasks |-> task[t]]
      BY <1>4, <2>1 DEF Restarted, Started, PortTaken, Configured
    <3>2. task' = task
      BY <1>1, <3>1 DEF Typed
    <3>3. QED
      BY <1>1, <2>1, <3>2 DEF Same, Typed
  <2>2. CASE r.by # 0
    <3>1. PICK b \in Tasks : b = r.by
      BY <1>3, <2>2 DEF Token
    <3>2. task' = Noted(b, Finished(b))
      BY <2>2, <3>1, Zenon DEF Restarted, Started, PortTaken, Configured, Noted
    <3>3. task' \in [Tasks -> TaskType] /\ Ended(b) /\ NotedBy(b)
      BY <1>1, <3>2, FinishedFits, TaskNoted DEF Ended
    <3>4. \A u \in Tasks : u # b => Same(u) /\ task'[u].crossed = task[u].crossed
      BY <3>3 DEF NotedBy
    <3>5. QED
      BY <2>2, <3>1, <3>3, <3>4
  <2>3. QED
    BY <2>1, <2>2
<1>6. r.by # 0 => r.by \in Tasks /\ Kind(r.by) = "setup" /\ task[r.by].phase = "saved"
                  /\ task[r.by].ref = r.ref
  BY <1>3 DEF RestartFits, Token
<1>7. /\ objects' \in Seq(Configs \cup {Nothing}) /\ current' \in Nat /\ AllHeld'
      /\ objects'[current'] = objects[current']
      /\ \A u \in Tasks : task'[u].ref # 0 => objects'[task'[u].ref] = objects[task[u].ref]
  <2>1. \A u \in Tasks : task'[u].ref \in {0, task[u].ref}
    BY <1>5, <1>6 DEF Same, Ended
  <2>2. current' \in {current} \cup {q.ref : q \in restarts} /\ \A q \in restarts' : q.ref \in Held
    BY <1>1, <1>2, LiveFits
  <2>3. QED
    BY <1>1, <1>2, <2>1, <2>2, NothingGained
<1>8. Typed'
  BY <1>1, <1>2, <1>5, <1>7 DEF Typed
<1>9. ASSUME NEW u \in Tasks PROVE TaskFits(u)'
  <2>1. CASE u = r.by
    BY <1>4, <1>5, <2>1, EndedStays
  <2>2. CASE u # r.by
    BY <1>2, <1>5, <2>2, TaskStays DEF RegistryInv
  <2>3. QED
    BY <2>1, <2>2
<1>10. \A q \in restarts' : RestartFits(q)'
  <2>1. ASSUME NEW u \in Tasks, NEW q \in restarts', q.by = u PROVE u # r.by
    <3>1. q \in restarts /\ q # r
      BY <1>2
    <3>2. QED
      BY <1>3, <1>4, <2>1, <3>1 DEF RestartFits
  <2>2. restarts' \subseteq restarts
    BY <1>2
  <2>3. QED
    BY <1>1, <1>2, <1>5, <2>1, <2>2, RestartsStay DEF RegistryInv
<1>11. ASSUME ~clash' PROVE Kept'
  <2>1. Kept /\ current = r.seen /\ (r.by # 0 => task[r.by].during = {})
    BY <1>2, <1>11 DEF RegistryInv
  <2>2. CASE r.by = 0
    <3>1. current' = current /\ task' = task
      BY <1>2, <1>3, <1>5, <2>1, <2>2 DEF RestartFits
    <3>2. Unsettled' = Unsettled
      BY <1>2, <3>1, UnsettledStays
    <3>3. ASSUME NEW u \in Tasks PROVE KeptTask(u)'
      <4>1. task[u].phase = "saved" => objects'[task[u].ref] = objects[task[u].ref]
        BY <1>7, <3>1 DEF RegistryInv, TaskFits
      <4>2. QED
        BY <1>2, <2>1, <3>1, <3>2, <4>1, KeptAlone DEF Kept, Same
    <3>4. QED
      BY <1>2, <1>7, <2>1, <3>1, <3>2, <3>3 DEF Kept
  <2>3. CASE r.by # 0
    <3>1. KeptTask(r.by)
      BY <1>6, <2>1, <2>3 DEF Kept
    <3>2. objects'[current'] = expected'
      BY <1>2, <1>6, <1>7, <2>1, <2>3, <3>1 DEF KeptTask
    <3>3. ASSUME NEW u \in Tasks PROVE KeptTask(u)'
      <4>1. CASE u = r.by
        BY <1>5, <2>3, <4>1, EndedStays
      <4>2. CASE u # r.by
        <5>1. task'[u].during = IF Active(u) THEN task[u].during \cup {r.by} ELSE task[u].during
          BY <1>5, <2>3, <4>2 DEF NotedBy
        <5>2. QED
          BY <1>2, <1>5, <1>6, <2>3, <4>2, <5>1, KeptReplaced DEF Replacing
      <4>3. QED
        BY <4>1, <4>2
    <3>4. QED
      BY <1>2, <2>1, <3>2, <3>3 DEF Kept
  <2>4. QED
    BY <2>2, <2>3
<1>12. ASSUME NEW s \in Sats PROVE Credible(s)'
  <2>1. \A u \in CalledFor(s)' : Same(u) /\ (task[u].crossed => task'[u].crossed)
    BY <1>4, <1>5 DEF CalledFor, Ended
  <2>2. \A u \in Granted(s) : u \in Granted(s)'
    BY <1>2, <1>5, <1>6, <1>4 DEF Granted, CalledFor, Same, Kind, Sat
  <2>3. QED
    BY <1>2, <2>1, <2>2, CredibleRests DEF RegistryInv
<1>13. \A s : CalledFor(s)' \subseteq CalledFor(s)
  BY <1>2, <1>4, <1>5 DEF CalledFor, Kind, Sat, Same, Ended
<1>14. ASSUME NEW u \in Tasks PROVE VisitFits(u)'
  <2>1. CASE u = r.by
    BY <1>4, <1>5, <2>1, VisitOver DEF Ended, Active
  <2>2. CASE u # r.by
    BY <1>2, <1>5, <1>13, <2>2, VisitRests DEF RegistryInv
  <2>3. QED
    BY <2>1, <2>2
<1>15. QED
  BY <1>7, <1>8, <1>9, <1>10, <1>11, <1>12, <1>14 DEF RegistryInv

LEMMA CrashKeeps ==
    ASSUME RegistryInv, Crash
    PROVE  RegistryInv'
<1>1. Typed /\ AllHeld
  BY DEF RegistryInv
<1>2. PICK n \in Nat : n = Len(objects) + 1
  BY <1>1 DEF Typed
<1>3. /\ program' = program /\ disk' = disk /\ satellite' = satellite /\ expected' = expected
      /\ clash' = clash /\ current' = n /\ timer' = FALSE /\ restarts' = {} /\ late' = FALSE
      /\ agent' = "up"
      /\ task' = [t \in Tasks |-> IF ~Active(t) THEN task[t]
                                  ELSE IF Survives(t) THEN [task[t] EXCEPT !.web = FALSE]
                                  ELSE Finished(t)]
      /\ objects' = Append([r \in DOMAIN objects |-> Nothing], disk)
      /\ doubtful' = doubtful \cup
            {Sat(t) : t \in {u \in Tasks : Kind(u) \in Calls /\ task[u].phase = "called"}}
  BY <1>2 DEF Crash
<1>4. /\ task' \in [Tasks -> TaskType]
      /\ \A t \in Tasks : /\ task'[t].ref = 0
                          /\ task'[t].phase \in {"new", "done"} \/ Kind(t) \in {"push", "dialog"}
                          /\ Ended(t) \/ (Same(t) /\ task'[t].crossed = task[t].crossed)
                          /\ task'[t].phase # "called"
  <2>1. ASSUME NEW t \in Tasks
        PROVE  /\ task'[t] \in TaskType /\ task'[t].ref = 0
               /\ task'[t].phase \in {"new", "done"} \/ Kind(t) \in {"push", "dialog"}
               /\ Ended(t) \/ (Same(t) /\ task'[t].crossed = task[t].crossed)
               /\ task'[t].phase # "called"
    <3>1. TaskFits(t) /\ task[t].phase \in Phases /\ task[t] \in TaskType
      BY <1>1, TaskTypes DEF RegistryInv
    <3>2. CASE Active(t) /\ ~Survives(t)
      BY <1>3, <3>2, FinishedFits DEF Ended
    <3>3. CASE ~Active(t)
      <4>1. task'[t] = task[t]
        BY <1>3, <3>3
      <4>2. QED
        BY <3>1, <3>3, <4>1 DEF TaskFits, Active, Phases, Same
    <3>4. CASE Active(t) /\ Survives(t)
      <4> DEFINE v == [task[t] EXCEPT !.web = FALSE]
      <4>1. task'[t] = v
        BY <1>3, <3>4
      <4>2. /\ v \in TaskType /\ v.phase = task[t].phase /\ v.ref = task[t].ref
            /\ v.copy = task[t].copy /\ v.index = task[t].index /\ v.token = task[t].token
            /\ v.had = task[t].had /\ v.reply = task[t].reply /\ v.crossed = task[t].crossed
        BY <3>1 DEF TaskType
      <4> HIDE DEF v
      <4>3. Kind(t) \in {"push", "dialog"} /\ task[t].ref = 0 /\ task[t].phase # "called"
        BY <3>1, <3>4 DEF Survives, TaskFits, Remote, Calls
      <4>4. QED
        BY <4>1, <4>2, <4>3 DEF Same
    <3>5. QED
      BY <3>2, <3>3, <3>4
  <2>2. QED
    BY <1>3, <2>1
<1>5. /\ objects' \in Seq(Configs \cup {Nothing}) /\ Len(objects') = n /\ objects'[n] = disk
      /\ disk # Nothing
  <2>1. disk \in Configs /\ disk # Nothing
    BY <1>1, RegistryAssumption DEF Configs, Typed
  <2>2. PICK none : none = [r \in DOMAIN objects |-> Nothing]
    OBVIOUS
  <2>3. none \in Seq(Configs \cup {Nothing}) /\ Len(none) = Len(objects)
    <3>1. DOMAIN objects = 1..Len(objects) /\ Len(objects) \in Nat
      BY <1>1 DEF Typed
    <3>2. QED
      BY <2>2, <3>1
  <2>4. objects' = Append(none, disk)
    BY <1>3, <2>2
  <2>5. QED
    BY <1>2, <2>1, <2>3, <2>4
<1>6. Typed'
  <2>1. doubtful' \subseteq Sats
    BY <1>1, <1>3, TaskTypes DEF Typed
  <2>2. QED
    BY <1>1, <1>3, <1>4, <1>5, <2>1 DEF Typed
<1>7. AllHeld'
  <2>1. n \in Held'
    BY <1>2, <1>5 DEF Held
  <2>2. PICK X : X = Held'
    OBVIOUS
  <2>3. current' \in X /\ (\A u \in Tasks : task'[u].ref # 0 => task'[u].ref \in X)
        /\ \A r \in restarts' : r.ref \in X
    BY <1>3, <1>4, <2>1, <2>2
  <2>4. Live(task', current', restarts') \subseteq X
    BY <2>3, LiveIn
  <2>5. QED
    BY <2>2, <2>4 DEF AllHeld
<1>8. ASSUME NEW t \in Tasks PROVE TaskFits(t)'
  <2>1. CASE Ended(t)
    BY <2>1, EndedStays
  <2>2. CASE Same(t)
    BY <1>3, <2>2, TaskStays DEF RegistryInv
  <2>3. QED
    BY <1>4, <2>1, <2>2
<1>9. ASSUME ~clash' PROVE Kept'
  <2>1. Kept
    BY <1>3, <1>9 DEF RegistryInv
  <2>2. ASSUME NEW t \in Tasks PROVE KeptTask(t)'
    <3>1. CASE Kind(t) \in {"push", "dialog"}
      <4>1. TaskFits(t)' /\ Kind(t)' = Kind(t)
        BY <1>3, <1>8, KindsStay
      <4>2. task'[t].phase # "saved"
        BY <3>1, <4>1 DEF TaskFits
      <4>3. QED
        BY <3>1, <4>1, <4>2 DEF KeptTask, InPlace, CopiesFirst
    <3>2. CASE task'[t].phase \in {"new", "done"}
      BY <3>2 DEF KeptTask, Busy
    <3>3. QED
      BY <1>4, <3>1, <3>2
  <2>3. QED
    BY <1>3, <1>5, <2>1, <2>2 DEF Kept
<1>10. ASSUME NEW s \in Sats PROVE Credible(s)'
  <2>1. CalledFor(s)' = {}
    BY <1>4 DEF CalledFor
  <2>2. \A u \in Granted(s) : s \in doubtful'
    BY <1>3 DEF Granted, CalledFor
  <2>3. QED
    BY <1>3, <2>1, <2>2, CredibleRests DEF RegistryInv
<1>11. \A r \in restarts' : RestartFits(r)'
  BY <1>3
<1>12. ASSUME NEW u \in Tasks PROVE VisitFits(u)'
  <2>1. CASE Ended(u)
    BY <2>1, VisitOver DEF Ended, Active
  <2>2. CASE Same(u) /\ task'[u].crossed = task[u].crossed
    <3>1. \A s : CalledFor(s)' = {}
      BY <1>4 DEF CalledFor
    <3>2. doubtful \subseteq doubtful'
      BY <1>3
    <3>3. QED
      BY <1>3, <2>2, <3>1, <3>2, VisitRests DEF RegistryInv
  <2>3. QED
    BY <1>4, <2>1, <2>2
<1>13. QED
  BY <1>6, <1>7, <1>8, <1>9, <1>10, <1>11, <1>12 DEF RegistryInv

-----------------------------------------------------------------------------
(* The invariant.                                                          *)

LEMMA InitKeeps ==
    ASSUME RegistryInit
    PROVE  RegistryInv
<1>1. PICK order \in Registries :
          /\ disk = [peers |-> [i \in DOMAIN order |->
                        [sat |-> order[i], token |-> 0, command |-> 0,
                         enabled |-> TRUE, claimed |-> TRUE]],
                     changes |-> {}]
          /\ satellite = [s \in Sats |-> [paired |-> Paired(s, order), token |-> 0, command |-> 0]]
  BY Zenon DEF RegistryInit
<1>2. /\ program \in [Tasks -> Op] /\ task = [t \in Tasks |-> Fresh]
      /\ objects = <<disk>> /\ current = 1 /\ expected = disk
      /\ timer = FALSE /\ restarts = {} /\ late = FALSE /\ agent = "up" /\ clash = FALSE /\ doubtful = {}
  BY RegistryAssumption DEF RegistryInit
<1>3. order \in Seq(Sats) /\ \A i, j \in DOMAIN order : order[i] = order[j] => i = j
  BY RegistryAssumption DEF IsInjective
<1> DEFINE entry(s) == [sat |-> s, token |-> 0, command |-> 0, enabled |-> TRUE, claimed |-> TRUE]
<1>4. ASSUME NEW s \in Sats
      PROVE  /\ entry(s) \in Entry /\ entry(s).sat = s /\ entry(s).token = 0
             /\ entry(s).command = 0
  BY DEF Entry, Token
<1>5. PICK peers : peers = [i \in DOMAIN order |-> entry(order[i])]
  OBVIOUS
<1>6. disk = [peers |-> peers, changes |-> {}]
  BY <1>1, <1>5
<1> HIDE DEF entry
<1>7. DOMAIN order = 1..Len(order) /\ Len(order) \in Nat /\ \A i \in 1..Len(order) : order[i] \in Sats
  BY <1>3
<1>8. /\ peers \in Seq(Entry) /\ Len(peers) = Len(order)
      /\ \A i \in 1..Len(order) : peers[i] = entry(order[i])
  BY <1>4, <1>5, <1>7
<1>9. Unique(peers)
  BY <1>3, <1>4, <1>7, <1>8 DEF Unique
<1>10. disk \in Configs /\ disk.peers = peers /\ disk # Nothing
  BY <1>6, <1>8, <1>9, RegistryAssumption DEF Configs, Config
<1>11. objects \in Seq(Configs \cup {Nothing}) /\ Len(objects) = 1 /\ objects[1] = disk
  <2>1. disk \in Configs \cup {Nothing}
    BY <1>10
  <2>2. QED
    BY <1>2, <2>1
<1>12. /\ Fresh \in TaskType /\ Fresh.phase = "new" /\ Fresh.ref = 0 /\ Fresh.index = 0
  BY DEF Fresh, TaskType, Phases, Replies, Token
<1>13. satellite \in [Sats -> SatelliteType]
  <2>1. ASSUME NEW s \in Sats PROVE satellite[s] \in SatelliteType
    BY <1>1 DEF SatelliteType, Token, Paired
  <2>2. QED
    BY <1>1, <2>1
<1>14. Typed
  BY <1>2, <1>10, <1>11, <1>12, <1>13 DEF Typed
<1>15. AllHeld
  <2>1. 1 \in Held
    BY <1>10, <1>11 DEF Held
  <2>2. Live(task, current, restarts) \subseteq Held
    BY <1>2, <1>12, <2>1 DEF Live
  <2>3. QED
    BY <2>2 DEF AllHeld
<1>16. ASSUME NEW t \in Tasks PROVE TaskFits(t) /\ KeptTask(t) /\ VisitFits(t)
  BY <1>2, <1>12 DEF TaskFits, KeptTask, Busy, Active, Token, VisitFits, Visits
<1>17. Kept
  BY <1>2, <1>11, <1>16 DEF Kept
<1>18. ASSUME NEW s \in Sats PROVE Credible(s)
  <2>1. CalledFor(s) = {}
    BY <1>2, <1>12 DEF CalledFor
  <2>2. ASSUME NEW i \in 1..Len(expected.peers), expected.peers[i].sat = s
        PROVE  Fits(expected.peers[i], satellite[s])
    <3>1. i \in 1..Len(order) /\ expected.peers[i] = entry(order[i])
      BY <1>2, <1>8, <1>10, <2>2
    <3>2. order[i] = s /\ expected.peers[i].token = 0 /\ expected.peers[i].command = 0
      BY <1>4, <1>7, <2>2, <3>1
    <3>3. Paired(s, order)
      BY <1>7, <3>1, <3>2 DEF Paired
    <3>4. satellite[s] = [paired |-> TRUE, token |-> 0, command |-> 0]
      BY <1>1, <3>3
    <3>5. QED
      BY <3>2, <3>4 DEF Fits
  <2>3. Agree(s)
    BY <2>2 DEF Agree
  <2>4. Granted(s) = {}
    BY <2>1 DEF Granted
  <2>5. QED
    BY <2>1, <2>3, <2>4 DEF Credible
<1>19. QED
  BY <1>2, <1>14, <1>15, <1>16, <1>17, <1>18 DEF RegistryInv

LEMMA StepKeeps ==
    ASSUME RegistryInv, [RegistryNext]_vars
    PROVE  RegistryInv'
<1>1. ASSUME NEW t \in Tasks, Begin(t) PROVE RegistryInv'
  BY <1>1, BeginKeeps
<1>2. ASSUME NEW t \in Tasks, AtOnce(t) PROVE RegistryInv'
  BY <1>2, AtOnceKeeps
<1>3. ASSUME NEW t \in Tasks, TaskStep(t) \/ EndRemote(t) PROVE RegistryInv'
  BY <1>3, CallKeeps, RefuseKeeps, EndInPlaceKeeps, EndReplacingKeeps, EndSetupKeeps,
     ConfigureKeeps, ArriveKeeps, EndRemoteKeeps DEF TaskStep
<1>4. ASSUME RestartStep \/ (\E r \in restarts : Restarted(r)) PROVE RegistryInv'
  BY <1>4, ReconfigureKeeps, AgentClosesKeeps, RestartedKeeps DEF RestartStep
<1>5. ASSUME WatcherEnds \/ Crash PROVE RegistryInv'
  BY <1>5, WatcherEndsKeeps, CrashKeeps
<1>6. ASSUME UNCHANGED vars PROVE RegistryInv'
  <2>1. Typed /\ AllHeld
    BY DEF RegistryInv
  <2>2. UNCHANGED <<program, task, objects, current, disk, timer, restarts, late, agent,
                    satellite, expected, clash, doubtful>>
    BY <1>6 DEF vars
  <2>3. ASSUME NEW r \in restarts' PROVE r.ref \in Held /\ RestartFits(r)'
    BY <2>1, <2>2, LiveFits DEF RegistryInv, RestartFits, Kind
  <2>4. QED
    BY <2>1, <2>2, <2>3, StoppingKeeps DEF Typed
<1>7. QED
  BY <1>1, <1>2, <1>3, <1>4, <1>5, <1>6 DEF RegistryNext

LEMMA InvHolds == RegistrySpec => []RegistryInv
<1>1. RegistryInit => RegistryInv
  BY InitKeeps
<1>2. RegistryInv /\ [RegistryNext]_vars => RegistryInv'
  BY StepKeeps
<1>3. QED
  BY <1>1, <1>2, PTL DEF RegistrySpec

-----------------------------------------------------------------------------
(* Theorems.                                                               *)

LEMMA InvTypes == RegistryInv => RegistryTypeOK
<1> SUFFICES ASSUME RegistryInv PROVE RegistryTypeOK
  OBVIOUS
<1>1. Typed /\ AllHeld
  BY DEF RegistryInv
<1>2. ASSUME NEW t \in Tasks
      PROVE  /\ task[t].phase \in {"new", "begun", "admitted", "called", "saved", "done"}
             /\ task[t].reply \in {Nothing, "ok", "refused", "lost"}
             /\ task[t].ref # 0 => task[t].ref \in Held
  BY <1>1, TaskTypes, LiveFits DEF Phases, Replies
<1>3. ASSUME NEW cfg \in {disk, expected} \cup {objects[r] : r \in Held}
      PROVE  /\ cfg.changes \subseteq Tasks
             /\ \A i \in DOMAIN cfg.peers : cfg.peers[i] \in Entry
             /\ \A i, j \in DOMAIN cfg.peers : cfg.peers[i].sat = cfg.peers[j].sat => i = j
  <2>1. cfg \in Configs
    BY <1>1, HeldFits DEF Typed
  <2>2. QED
    BY <2>1, SomeEntry DEF Unique
<1>4. QED
  BY <1>1, <1>2, <1>3, LiveFits DEF RegistryTypeOK, Typed

LEMMA InvKeepsChanges == RegistryInv => ChangesAreKept
BY DEF RegistryInv, Kept, ChangesAreKept

LEMMA InvAgrees == RegistryInv => CredentialsAgree
<1> SUFFICES ASSUME RegistryInv, ~clash, NEW i \in DOMAIN objects[current].peers,
                    objects[current].peers[i].claimed,
                    objects[current].peers[i].sat \notin doubtful,
                    ~\E t \in Tasks : Kind(t) \in Calls /\ Sat(t) = objects[current].peers[i].sat
                                      /\ task[t].phase = "called"
             PROVE  satellite[objects[current].peers[i].sat] =
                        [paired |-> TRUE, token |-> objects[current].peers[i].token,
                         command |-> objects[current].peers[i].command]
  BY DEF CredentialsAgree
<1>1. Typed /\ AllHeld /\ Kept
  BY DEF RegistryInv
<1>2. objects[current].peers = expected.peers /\ expected \in Configs
  BY <1>1 DEF Kept, Typed
<1>3. PICK e : e = expected.peers[i]
  OBVIOUS
<1>4. i \in 1..Len(expected.peers) /\ e \in Entry
  BY <1>2, <1>3, SomeEntry
<1>5. PICK s \in Sats : s = e.sat
  BY <1>4, EntryFields
<1>6. Credible(s) /\ CalledFor(s) = {}
  BY <1>2, <1>3, <1>5 DEF RegistryInv, CalledFor
<1>7. Agree(s)
  BY <1>2, <1>3, <1>5, <1>6 DEF Credible, Granted
<1>8. Fits(e, satellite[s])
  BY <1>2, <1>3, <1>4, <1>5, <1>7 DEF Agree
<1>9. QED
  BY <1>2, <1>3, <1>5, <1>8 DEF Fits

\* Every configuration that is saved, in memory or under way is well formed and
\* has each Satellite once, and what a task or a restart of the services holds
\* is still there, however the operations of service/satellite-manager.js,
\* #claimSatellite, the settings and the dialog interleave.
THEOREM RegistryTypes == RegistrySpec => []RegistryTypeOK
BY InvHolds, InvTypes, PTL

\* No change of the configuration is lost or made to another Satellite, unless
\* it built on an object or a copy that had been replaced (#claimSatellite,
\* #deferReconfigure and configure() of service/index.js, the actions of
\* service/satellite-manager.js).
THEOREM NoChangeIsLost == RegistrySpec => []ChangesAreKept
BY InvHolds, InvKeepsChanges, PTL

\* The Primary and a Satellite it holds as paired have the same tokens when no
\* call to it is being answered, nothing was lost and no two operations on it
\* crossed (rotate and unpair of service/satellite-manager.js, the claim of
\* agent/server.js).
THEOREM PrimaryAndSatelliteAgree == RegistrySpec => []CredentialsAgree
BY InvHolds, InvAgrees, PTL
=============================================================================
