------------------------ MODULE SyncConvergenceProofs ------------------------
(***************************************************************************)
(* Theorems about what settled devices show, for every set of devices and  *)
(* objects and every bound: they agree, and deletions hold, unless an      *)
(* object is in dispute.                                                   *)
(***************************************************************************)
EXTENDS SyncProofs

\* The places of the upserts and of the deletions of an object.
Upserts(o)   == {i \in Places : log[i].change.obj = o /\ log[i].change.by = 0}
Deletions(o) == {i \in Places : log[i].change.obj = o /\ log[i].change.by # 0}
Events(o)    == {i \in Places : log[i].change.obj = o}

\* A change is on its way: in an outbox, or at the center.
Underway(c) == \/ \E d \in Devices : \E k \in DOMAIN outbox[d] : outbox[d][k].change = c
               \/ \E i \in Places : log[i].change = c
-----------------------------------------------------------------------------
\* Deletion by is one of object o, or took o along with its project.
Deletes(by, o) == by \in DOMAIN owner.deleted /\ owner.deleted[by] \in {o, Parent[o]}

\* Tombstones and deletions come from the owner.
DeletionsKnown ==
  /\ \A d \in Devices, o \in Objects : tombs[d][o] # NoTomb => Deletes(tombs[d][o].by, o)
  /\ \A c \in Changes : Underway(c) /\ c.by # 0 => Deletes(c.by, c.obj)

\* Versions of rows and upserts come from the owner.
VersionsKnown ==
  /\ \A d \in Devices, o \in Objects : rows[d][o] # 0 => rows[d][o] \in owner.versions
  /\ \A c \in Changes : Underway(c) /\ c.by = 0 => c.ver \in owner.versions

\* All tombstones and deletions of an object have one version, unless disputed.
OneDeletion ==
  \A o \in Objects : Disputed(o) \/ \E w \in Versions :
    /\ \A d \in Devices : tombs[d][o] # NoTomb => tombs[d][o].ver = w
    /\ \A c \in Changes : Underway(c) /\ c.by # 0 /\ c.obj = o => c.ver = w

\* An object is not shown and buried at once.
ShownOrBuried == \A d \in Devices, o \in Objects : rows[d][o] = 0 \/ tombs[d][o] = NoTomb

\* What a device has consumed it will not export, unless it has a conflict.
ConsumedIsDone ==
  \A d \in Devices : \A i \in seen[d] :
    log[i].change.obj \in conflicts[d] \/ Key(log[i].change) \in done[d]
-----------------------------------------------------------------------------
\* What device d shows of object o is still to come, still to be published, or
\* its last upsert.
ShowsLast(d, o) ==
  rows[d][o] # 0 =>
    \/ \E i \in Upserts(o) \ seen[d] : log[i].change.ver = rows[d][o]
    \/ Key(Upsert(o, rows[d][o])) \notin done[d]
    \/ \E i \in Upserts(o) \cap seen[d] : /\ log[i].change.ver = rows[d][o]
                                          /\ \A j \in Upserts(o) \cap seen[d] : j <= i

\* A device without row and tombstone has something of the object to come.
NothingMissed(d, o) ==
  rows[d][o] = 0 /\ tombs[d][o] = NoTomb /\ Events(o) \subseteq seen[d] => Events(o) = {}

\* A tombstone outlives the deletions only if no newer upsert came behind them.
BuriedRightly(d, o) ==
  tombs[d][o] # NoTomb /\ Deletions(o) # {} /\ Deletions(o) \subseteq seen[d] =>
    \A i \in Upserts(o) \cap seen[d] :
      (\A j \in Deletions(o) : j < i) => log[i].change.ver <= tombs[d][o].ver

\* A device that consumed a deletion and has no tombstone met a newer upsert
\* behind it, the last event of the object that it looked at if it has to wait.
RevivedRightly(d, o) ==
  tombs[d][o] = NoTomb /\ Deletions(o) \cap seen[d] # {} =>
    \E i \in Upserts(o) :
      /\ \A j \in Deletions(o) \cap seen[d] : j < i /\ log[j].change.ver < log[i].change.ver
      /\ i \in seen[d] \/ Events(o) \cap (1..i - 1) \subseteq seen[d]

Tallies(d, o) == /\ ShowsLast(d, o) /\ NothingMissed(d, o)
                 /\ BuriedRightly(d, o) /\ RevivedRightly(d, o)

Consistent(d, o) == Disputed(o) \/ o \in conflicts[d] \/ Tallies(d, o)

Converging == \A d \in Devices, o \in Objects : Consistent(d, o)

ConvInv == /\ DeletionsKnown /\ VersionsKnown /\ OneDeletion
           /\ ShownOrBuried /\ ConsumedIsDone /\ Converging
-----------------------------------------------------------------------------
-----------------------------------------------------------------------------
(* What a device exports *)

\* The row or the tombstone of an object, as a change of device d.
Own(d, c) == \E o \in Objects : \/ rows[d][o] # 0 /\ c = Upsert(o, rows[d][o])
                                \/ tombs[d][o].by # 0 /\ c = Deletion(o, tombs[d][o])

LEMMA DeletionFacts ==
  ASSUME NEW o \in Objects, NEW tb \in Tomb
  PROVE  /\ Deletion(o, tb) \in Changes /\ Deletion(o, tb).by = tb.by
         /\ Deletion(o, tb).obj = o /\ Deletion(o, tb).ver = tb.ver
  BY DEF Deletion, Changes, Tomb

LEMMA TablesAt ==
  ASSUME Tables, NEW d \in Devices, NEW o \in Objects
  PROVE  /\ rows[d][o] \in Versions /\ tombs[d][o] \in Tomb
         /\ tombs[d][o].ver \in Versions /\ tombs[d][o].by \in 0..MaxDeletions
  BY DEF Tables, Tomb

\* A snapshot holds every row and every tombstone, and nothing else.
LEMMA SnapshotContents ==
  ASSUME Tables, NEW d \in Devices
  PROVE  /\ Snapshot(d) \in Seq(Changes)
         /\ \A i \in 1..Len(Snapshot(d)) : Own(d, Snapshot(d)[i])
         /\ \A c : Own(d, c) => \E i \in 1..Len(Snapshot(d)) : Snapshot(d)[i] = c
  <1> DEFINE N == Len(Order)
             ups == [i \in DOMAIN Order |-> Upsert(Order[i], rows[d][Order[i]])]
             dels == [i \in DOMAIN Order |-> Deletion(Order[i], tombs[d][Order[i]])]
             shown == {i \in DOMAIN Order : rows[d][Order[i]] # 0}
             buried == {i \in DOMAIN Order : tombs[d][Order[i]].by # 0}
             u == Only(ups, shown)
             v == Only(dels, buried)
  <1>1. Snapshot(d) = u \o v
    BY DEF Snapshot
  <1>2. ups \in Seq(Changes) /\ Len(ups) = N /\ \A i \in 1..N : ups[i] = Upsert(Order[i], rows[d][Order[i]])
    <2>1. \A i \in 1..N : Upsert(Order[i], rows[d][Order[i]]) \in Changes
      BY TablesAt, OrderFacts, UpsertType
    <2> QED
      BY <2>1, OrderFacts
  <1>3. dels \in Seq(Changes) /\ Len(dels) = N /\ \A i \in 1..N : dels[i] = Deletion(Order[i], tombs[d][Order[i]])
    <2>1. \A i \in 1..N : Deletion(Order[i], tombs[d][Order[i]]) \in Changes
      BY TablesAt, OrderFacts, DeletionFacts
    <2> QED
      BY <2>1, OrderFacts
  <1>4. \A i \in 1..N : /\ i \in shown <=> rows[d][Order[i]] # 0
                        /\ i \in buried <=> tombs[d][Order[i]].by # 0
    BY OrderFacts
  <1> HIDE DEF ups, dels, shown, buried
  <1>5. /\ u \in Seq(Changes)
        /\ \A k \in 1..N : k \in shown => \E i \in 1..Len(u) : u[i] = ups[k]
        /\ \A i \in 1..Len(u) : \E k \in 1..N : k \in shown /\ u[i] = ups[k]
    BY <1>2, OnlyContents
  <1>6. /\ v \in Seq(Changes)
        /\ \A k \in 1..N : k \in buried => \E i \in 1..Len(v) : v[i] = dels[k]
        /\ \A i \in 1..Len(v) : \E k \in 1..N : k \in buried /\ v[i] = dels[k]
    BY <1>3, OnlyContents
  <1> HIDE DEF u, v
  <1> DEFINE all == u \o v
  <1>7. /\ all \in Seq(Changes) /\ Len(u) \in Nat /\ Len(v) \in Nat /\ Len(all) = Len(u) + Len(v)
        /\ \A i \in 1..Len(u) : all[i] = u[i]
        /\ \A i \in 1..Len(v) : all[Len(u) + i] = v[i]
    BY <1>5, <1>6
  <1>8. \A i \in 1..Len(all) : i \in 1..Len(u) \/ \E k \in 1..Len(v) : i = Len(u) + k
    <2>1. SUFFICES ASSUME NEW i \in 1..Len(all), i \notin 1..Len(u)
                   PROVE  \E k \in 1..Len(v) : i = Len(u) + k
      OBVIOUS
    <2>2. i - Len(u) \in 1..Len(v) /\ i = Len(u) + (i - Len(u))
      BY <1>7, <2>1
    <2> QED
      BY <2>2
  <1>9. (\A i \in 1..Len(u) : i \in 1..Len(all)) /\ \A i \in 1..Len(v) : Len(u) + i \in 1..Len(all)
    BY <1>7
  <1> HIDE DEF all
  <1>10. ASSUME NEW i \in 1..Len(all) PROVE Own(d, all[i])
    <2>1. CASE i \in 1..Len(u)
      <3>1. PICK k \in 1..N : k \in shown /\ u[i] = ups[k]
        BY <1>5, <2>1
      <3> QED
        BY <1>2, <1>4, <1>7, <2>1, <3>1, OrderFacts DEF Own
    <2>2. ASSUME NEW j \in 1..Len(v), i = Len(u) + j PROVE Own(d, all[i])
      <3>1. PICK k \in 1..N : k \in buried /\ v[j] = dels[k]
        BY <1>6
      <3>2. all[i] = Deletion(Order[k], tombs[d][Order[k]])
        BY <1>3, <1>7, <2>2, <3>1
      <3>3. Order[k] \in Objects /\ tombs[d][Order[k]].by # 0
        BY <1>4, <3>1, OrderFacts
      <3> QED
        BY <3>2, <3>3 DEF Own
    <2> QED
      BY <1>8, <2>1, <2>2
  <1>11. ASSUME NEW c, Own(d, c) PROVE \E i \in 1..Len(all) : all[i] = c
    <2>1. PICK o \in Objects : \/ rows[d][o] # 0 /\ c = Upsert(o, rows[d][o])
                               \/ tombs[d][o].by # 0 /\ c = Deletion(o, tombs[d][o])
      BY <1>11 DEF Own
    <2>2. PICK k \in 1..N : Order[k] = o
      BY OrderFacts
    <2>3. CASE rows[d][o] # 0 /\ c = Upsert(o, rows[d][o])
      <3>1. PICK i \in 1..Len(u) : u[i] = ups[k]
        BY <1>4, <1>5, <2>2, <2>3
      <3> QED
        BY <1>2, <1>7, <1>9, <2>2, <2>3, <3>1
    <2>4. CASE tombs[d][o].by # 0 /\ c = Deletion(o, tombs[d][o])
      <3>1. PICK i \in 1..Len(v) : v[i] = dels[k]
        BY <1>4, <1>6, <2>2, <2>4
      <3> QED
        BY <1>3, <1>7, <1>9, <2>2, <2>4, <3>1
    <2> QED
      BY <2>1, <2>3, <2>4
  <1>12. Snapshot(d) = all
    BY <1>1 DEF all
  <1> QED
    BY <1>7, <1>10, <1>11, <1>12

\* An export takes from it what is neither published nor queued.
LEMMA ToExportContents ==
  ASSUME Tables, NEW d \in Devices
  PROVE  /\ ToExport(d) \in Seq(Changes)
         /\ \A i \in 1..Len(ToExport(d)) : Own(d, ToExport(d)[i])
         /\ \A c : Own(d, c) => \/ Key(c) \in Known(d)
                                \/ \E i \in 1..Len(ToExport(d)) : ToExport(d)[i] = c
  <1> DEFINE all == Snapshot(d)
             new == {i \in DOMAIN all : Key(all[i]) \notin done[d] \cup Queued(d)}
             t == Only(all, new)
  <1>1. ToExport(d) = t
    BY DEF ToExport
  <1>2. /\ all \in Seq(Changes) /\ \A i \in 1..Len(all) : Own(d, all[i])
        /\ \A c : Own(d, c) => \E i \in 1..Len(all) : all[i] = c
    BY SnapshotContents
  <1> HIDE DEF all
  <1>3. \A i \in 1..Len(all) : i \in new <=> Key(all[i]) \notin Known(d)
    BY <1>2, LenProperties DEF Known
  <1> HIDE DEF new
  <1>4. all \in Seq(Changes)
    BY <1>2
  <1>5. /\ t \in Seq(Changes)
        /\ \A k \in 1..Len(all) : k \in new => \E i \in 1..Len(t) : t[i] = all[k]
        /\ \A i \in 1..Len(t) : \E k \in 1..Len(all) : k \in new /\ t[i] = all[k]
    BY ONLY <1>4, OnlyContents
  <1> HIDE DEF t
  <1>6. ASSUME NEW c, Own(d, c), Key(c) \notin Known(d)
        PROVE  \E i \in 1..Len(t) : t[i] = c
    <2>1. PICK k \in 1..Len(all) : all[k] = c
      BY <1>2, <1>6
    <2> QED
      BY <1>3, <1>5, <1>6, <2>1
  <1>7. \A i \in 1..Len(t) : Own(d, t[i])
    BY <1>2, <1>5
  <1> QED
    BY <1>1, <1>5, <1>6, <1>7
-----------------------------------------------------------------------------
(* What is on its way *)

\* Whatever gets on its way is a row or a tombstone of the device.
LEMMA UnderwayStep ==
  ASSUME Tables, LinesHaveProjects, NEW d \in Devices, Step(d), NEW c, Underway(c)'
  PROVE  Underway(c) \/ Own(d, c)
  <1>1. /\ log \in Seq(Entries) /\ outbox \in [Devices -> Seq(Pending)]
        /\ Len(outbox[d]) \in Nat /\ DOMAIN outbox[d] = 1..Len(outbox[d])
    BY LenProperties DEF Tables
  <1>2. OthersKept(d) /\ LogGrows
    BY OthersStep, LogGrowsStep
  <1>3. ASSUME NEW i \in 1..Len(log'), log'[i].change = c PROVE Underway(c)
    <2>1. CASE i \in Places
      BY <1>2, <1>3, <2>1 DEF LogGrows, Underway
    <2>2. ASSUME NEW n, Sends(d, n), i \notin Places PROVE Underway(c)
      <3>1. n \in Nat /\ n <= Len(Batch(d)) /\ Len(log) \in Nat /\ Len(log') \in Nat /\ Batch(d) \in Seq(Changes)
        BY <1>2, <2>2, SendsFacts DEF LogGrows
      <3>2. i > Len(log)
        BY <2>2, <3>1 DEF Places
      <3>3. PICK k \in 1..n : log'[i].change = Batch(d)[k]
        BY <2>2, <3>2, SendsFacts
      <3>4. k \in 1..Len(Batch(d))
        BY <3>1, LenProperties
      <3>5. PICK m \in 1..Len(outbox[d]) : Batch(d)[k] = outbox[d][m].change
        BY <3>4, BatchFacts
      <3> QED
        BY <1>1, <1>3, <3>3, <3>5 DEF Underway
    <2> QED
      BY <2>1, <2>2, LogStep DEF Places
  <1>5. ASSUME NEW k \in DOMAIN outbox'[d], outbox'[d][k].change = c PROVE Underway(c) \/ Own(d, c)
    <2>0. outbox' \in [Devices -> Seq(Pending)]
      BY OutboxTyped
    <2>1. Len(outbox'[d]) \in Nat /\ k \in 1..Len(outbox'[d])
      BY <2>0, LenProperties
    <2>2. CASE UNCHANGED outbox
      BY <1>5, <2>2 DEF Underway
    <2>3. ASSUME NEW n \in Nat, n <= Len(ToExport(d)), Enqueue(d, n) PROVE Underway(c) \/ Own(d, c)
      <3>1. /\ Len(outbox'[d]) = Len(outbox[d]) + n
            /\ \A i \in 1..Len(outbox[d]) : outbox'[d][i] = outbox[d][i]
            /\ \A i \in 1..n : outbox'[d][Len(outbox[d]) + i].change = ToExport(d)[i]
        BY <2>3, EnqueueFacts
      <3>2. CASE k \in 1..Len(outbox[d])
        BY <1>1, <1>5, <3>1, <3>2 DEF Underway
      <3>3. CASE k \notin 1..Len(outbox[d])
        <4>1. k - Len(outbox[d]) \in 1..n /\ k = Len(outbox[d]) + (k - Len(outbox[d]))
          BY <1>1, <2>1, <3>1, <3>3
        <4>2. c = ToExport(d)[k - Len(outbox[d])]
          BY <1>5, <3>1, <4>1
        <4>3. ToExport(d) \in Seq(Changes) /\ Len(ToExport(d)) \in Nat
          BY ToExportContents, LenProperties
        <4>4. k - Len(outbox[d]) \in 1..Len(ToExport(d))
          BY <2>3, <4>1, <4>3
        <4> QED
          BY <4>2, <4>4, ToExportContents
      <3> QED
        BY <3>2, <3>3
    <2>4. CASE Export(d)
      <3>1. Len(ToExport(d)) \in Nat
        BY ToExportContents, LenProperties
      <3> QED
        BY <2>3, <2>4, <3>1 DEF Export
    <2>5. ASSUME NEW n \in 0..(2 * Len(Order)), ExportStops(d, n) PROVE Underway(c) \/ Own(d, c)
      <3>1. n \in Nat /\ n <= Len(ToExport(d)) /\ Enqueue(d, n)
        <4>1. Len(ToExport(d)) \in Nat
          BY ToExportContents, LenProperties
        <4> QED
          BY <2>5, <4>1 DEF ExportStops
      <3> QED
        BY <2>3, <3>1
    <2>6. CASE \/ \E n \in 0..PageSize : PushFails(d, n)
               \/ \E n \in 1..MaxFaults : Minute(d, n)
      <3>1. Len(outbox'[d]) = Len(outbox[d])
            /\ \A i \in 1..Len(outbox[d]) : outbox'[d][i].change = outbox[d][i].change
        BY <2>6, LateFacts
      <3> QED
        BY <1>1, <1>5, <2>1, <3>1 DEF Underway
    <2>7. CASE Push(d)
      <3>1. PICK m \in 1..Len(outbox[d]) : outbox'[d][k] = outbox[d][m]
        BY <2>1, <2>7, RemovedFacts
      <3> QED
        BY <1>1, <1>5, <3>1 DEF Underway
    <2> QED
      BY <2>2, <2>4, <2>5, <2>6, <2>7, Writers DEF WrittenBy
  <1>6. ASSUME NEW e \in Devices, e # d, NEW k \in DOMAIN outbox'[e], outbox'[e][k].change = c
        PROVE  Underway(c)
    BY <1>2, <1>6 DEF OthersKept, Underway
  <1>7. \/ \E e \in Devices : \E k \in DOMAIN outbox'[e] : outbox'[e][k].change = c
        \/ \E i \in 1..Len(log') : log'[i].change = c
    BY DEF Underway, Places
  <1> QED
    BY <1>3, <1>5, <1>6, <1>7

\* What is on its way is a change.
LEMMA UnderwayType ==
  ASSUME Tables, NEW c, Underway(c)
  PROVE  c \in Changes
  <1>1. ASSUME NEW d \in Devices, NEW k \in DOMAIN outbox[d], outbox[d][k].change = c PROVE c \in Changes
    <2>1. outbox[d] \in Seq(Pending)
      BY DEF Tables
    <2>2. outbox[d][k] \in Pending
      BY <2>1, LenProperties, ElementOfSeq
    <2> QED
      BY <1>1, <2>2 DEF Pending
  <1>2. ASSUME NEW i \in Places, log[i].change = c PROVE c \in Changes
    <2>1. log[i] \in Entries
      BY <1>2, ElementOfSeq DEF Tables, Places
    <2> QED
      BY <1>2, <2>1 DEF Entries
  <1> QED
    BY <1>1, <1>2 DEF Underway
-----------------------------------------------------------------------------
(* What only grows *)

LEMMA EventsGrow ==
  ASSUME LogGrows, NEW o
  PROVE  /\ Upserts(o)' \cap Places = Upserts(o) /\ Deletions(o)' \cap Places = Deletions(o)
         /\ Events(o)' \cap Places = Events(o) /\ \A i \in Places : log'[i] = log[i]
  <1>1. \A i \in Places : i \in 1..Len(log') /\ log'[i] = log[i]
    BY DEF LogGrows, Places
  <1>2. Places' = 1..Len(log')
    BY DEF Places
  <1> QED
    BY <1>1, <1>2 DEF Upserts, Deletions, Events

\* Deletion b stays, and versions are never taken back.
LEMMA OwnerGrows ==
  ASSUME Tables, NEW d \in Devices, Step(d)
  PROVE  /\ owner.versions \subseteq owner'.versions
         /\ \A b \in DOMAIN owner.deleted : b \in DOMAIN owner'.deleted /\ owner'.deleted[b] = owner.deleted[b]
  <1> DEFINE Goal == /\ owner.versions \subseteq owner'.versions
                     /\ \A b \in DOMAIN owner.deleted :
                          b \in DOMAIN owner'.deleted /\ owner'.deleted[b] = owner.deleted[b]
  <1>1. owner \in [versions: SUBSET Versions, deleted: Seq(Objects), faults: 0..MaxFaults]
    BY DEF Tables
  <1>2. ASSUME UNCHANGED owner PROVE Goal
    BY <1>2
  <1>3. ASSUME owner' = [owner EXCEPT !.faults = @ + 1] PROVE Goal
    BY <1>1, <1>3
  <1>4. ASSUME NEW o \in Objects, NEW v \in Versions, Edit(d, o, v) PROVE Goal
    <2>1. owner' = [owner EXCEPT !.versions = @ \cup {v}]
      BY <1>4 DEF Edit
    <2> QED
      BY <1>1, <2>1
  <1>5. ASSUME NEW o \in Objects, Delete(d, o) PROVE Goal
    <2>1. owner' = [owner EXCEPT !.deleted = Append(@, o)]
      BY <1>5 DEF Delete
    <2> DEFINE s == owner.deleted
    <2>2. owner'.versions = owner.versions /\ owner'.deleted = Append(s, o) /\ s \in Seq(Objects)
      BY <1>1, <2>1
    <2> HIDE DEF s
    <2>3. \A b \in DOMAIN s : b \in DOMAIN Append(s, o) /\ Append(s, o)[b] = s[b]
      BY <2>2
    <2> QED
      BY <2>2, <2>3 DEF s
  <1> QED
    BY <1>2, <1>3, <1>4, <1>5, Writers DEF WrittenBy, Editing

LEMMA DisputeStays ==
  ASSUME Tables, NEW d \in Devices, Step(d), NEW o, Disputed(o)
  PROVE  Disputed(o)'
  <1>1. ASSUME UnderDeleted(o) PROVE UnderDeleted(o)'
    BY <1>1, OwnerGrows DEF UnderDeleted, Range
  <1>2. ASSUME DeletedTwice(o) PROVE DeletedTwice(o)'
    BY <1>2, OwnerGrows DEF DeletedTwice
  <1> QED
    BY <1>1, <1>2 DEF Disputed

LEMMA DeletesStays ==
  ASSUME Tables, NEW d \in Devices, Step(d), NEW b, NEW o, Deletes(b, o)
  PROVE  Deletes(b, o)'
  BY OwnerGrows DEF Deletes

LEMMA MarksGrow ==
  ASSUME Tables, NEW d \in Devices, Step(d), NEW e \in Devices
  PROVE  done[e] \subseteq done'[e] /\ conflicts[e] \subseteq conflicts'[e]
  <1>0. done \in [Devices -> SUBSET Keys] /\ conflicts \in [Devices -> SUBSET Objects]
    BY DEF Tables
  <1>1. CASE e # d
    BY <1>1, OthersStep DEF OthersKept
  <1>2. done[d] \subseteq done'[d]
    <2>1. ASSUME Push(d) PROVE done[d] \subseteq done'[d]
      BY <1>0, <2>1 DEF Push
    <2>2. ASSUME Applied(d) PROVE done[d] \subseteq done'[d]
      BY <1>0, <2>2 DEF Applied, ApplyEvent, ApplyStops
    <2>3. ASSUME NEW n, NEW m, PushStops(d, n, m) PROVE done[d] \subseteq done'[d]
      BY <1>0, <2>3 DEF PushStops
    <2> QED
      BY <2>1, <2>2, <2>3, Writers DEF WrittenBy
  <1>3. conflicts[d] \subseteq conflicts'[d]
    <2>1. ASSUME ApplyEvent(d) PROVE conflicts[d] \subseteq conflicts'[d]
      BY <1>0, <2>1 DEF ApplyEvent
    <2>2. ASSUME Quarantine(d) PROVE conflicts[d] \subseteq conflicts'[d]
      BY <1>0, <2>2 DEF Quarantine
    <2> QED
      BY <2>1, <2>2, Writers DEF WrittenBy
  <1> QED
    BY <1>1, <1>2, <1>3

\* Two upserts with one key are one upsert.
LEMMA UpsertKey ==
  ASSUME NEW c \in Changes, NEW o \in Objects, NEW v \in Versions, Key(c) = Key(Upsert(o, v))
  PROVE  c.obj = o /\ c.by = 0 /\ c.ver = v
  <1>1. c.by \in Nat /\ Key(Upsert(o, v)) = <<o, v, 0>>
    BY SyncBounds DEF Changes, Key, Upsert
  <1>2. c.by = 0
    BY <1>1 DEF Key
  <1> QED
    BY <1>1, <1>2 DEF Key
-----------------------------------------------------------------------------
(* What an applied change makes of its object, and of the others *)

\* A tombstone does not bury the upsert c.
Newer(c, tb) == c.by = 0 /\ (tb = NoTomb \/ c.ver > tb.ver)

\* What may become of the object of change c: h is the result.
Outcome(d, c, o, h) ==
  \/ /\ h.out = "applied" /\ h.rows[o] = rows[d][o] /\ h.tombs[o] = tombs[d][o]
     /\ tombs[d][o] # NoTomb /\ (c.by # 0 \/ c.ver <= tombs[d][o].ver)
  \/ h.out = "conflict" /\ h.rows[o] = rows[d][o] /\ h.tombs[o] = tombs[d][o]
  \/ /\ h.out = "applied" /\ c.by # 0 /\ tombs[d][o] = NoTomb
     /\ h.rows[o] = 0 /\ h.tombs[o] = [ver |-> c.ver, by |-> c.by]
  \/ /\ Newer(c, tombs[d][o]) /\ Parent[o] # None /\ rows[d][Parent[o]] = 0
     /\ h.rows[o] = rows[d][o] /\ h.tombs[o] = NoTomb
     /\ h.out = IF tombs[d][Parent[o]] # NoTomb THEN "applied" ELSE "waits"
  \/ /\ h.out = "applied" /\ Newer(c, tombs[d][o])
     /\ h.rows[o] = c.ver /\ h.tombs[o] = NoTomb

LEMMA HandledOwn ==
  ASSUME Tables, NEW d \in Devices, NEW c \in Changes, NEW o \in Objects, c.obj = o
  PROVE  Outcome(d, c, o, Handled(d, c))
  <1>0. /\ rows[d] \in [Objects -> Versions] /\ tombs[d] \in [Objects -> Tomb]
        /\ c.ver \in Nat /\ tombs[d][o].ver \in Nat
    BY SyncBounds DEF Tables, Tomb, Changes, Versions
  <1>1. CASE Buries(c, tombs[d][o])
    BY <1>1 DEF Handled, Outcome, Buries
  <1>2. CASE ~ Buries(c, tombs[d][o]) /\ c.by # 0
    <2>1. tombs[d][o] = NoTomb
      BY <1>2 DEF Buries
    <2>2. CASE rows[d][o] > c.ver
      BY <1>2, <2>2 DEF Handled, Outcome
    <2>3. CASE ~ (rows[d][o] > c.ver)
      <3>1. /\ Deleted(o, rows[d])[o] = 0
            /\ Buried(o, c.ver, c.by, rows[d], tombs[d])[o] = [ver |-> c.ver, by |-> c.by]
        BY DEF Deleted, Buried
      <3> QED
        BY <1>2, <2>1, <2>3, <3>1 DEF Handled, Outcome
    <2> QED
      BY <2>2, <2>3
  <1>3. CASE ~ Buries(c, tombs[d][o]) /\ c.by = 0
    <2>1. Newer(c, tombs[d][o])
      BY <1>0, <1>3 DEF Buries, Newer
    <2>2. /\ [tombs[d] EXCEPT ![o] = NoTomb][o] = NoTomb
          /\ [rows[d] EXCEPT ![o] = c.ver][o] = c.ver
      BY <1>0
    <2>3. CASE Parent[o] # None /\ rows[d][Parent[o]] = 0
      BY <1>3, <2>1, <2>2, <2>3 DEF Handled, Outcome
    <2>4. CASE ~ (Parent[o] # None /\ rows[d][Parent[o]] = 0)
      BY <1>3, <2>1, <2>2, <2>4 DEF Handled, Outcome
    <2> QED
      BY <2>3, <2>4
  <1> QED
    BY <1>1, <1>2, <1>3

LEMMA HandledOther ==
  ASSUME Tables, NEW d \in Devices, NEW c \in Changes, NEW o \in Objects, c.obj # o
  PROVE  LET h == Handled(d, c)
         IN \/ h.rows[o] = rows[d][o] /\ h.tombs[o] = tombs[d][o]
            \/ /\ c.by # 0 /\ Parent[o] = c.obj /\ h.rows[o] = 0
               /\ \/ h.tombs[o] = tombs[d][o]
                  \/ rows[d][o] # 0 /\ h.tombs[o] = [ver |-> rows[d][o], by |-> c.by]
  <1>0. rows[d] \in [Objects -> Versions] /\ tombs[d] \in [Objects -> Tomb]
    BY DEF Tables, Tomb
  <1>1. ASSUME c.by # 0, Handled(d, c).rows = Deleted(c.obj, rows[d]),
               Handled(d, c).tombs = Buried(c.obj, c.ver, c.by, rows[d], tombs[d])
        PROVE  LET h == Handled(d, c)
               IN \/ h.rows[o] = rows[d][o] /\ h.tombs[o] = tombs[d][o]
                  \/ /\ c.by # 0 /\ Parent[o] = c.obj /\ h.rows[o] = 0
                     /\ \/ h.tombs[o] = tombs[d][o]
                        \/ rows[d][o] # 0 /\ h.tombs[o] = [ver |-> rows[d][o], by |-> c.by]
    BY <1>1 DEF Deleted, Buried
  <1>2. /\ [tombs[d] EXCEPT ![c.obj] = NoTomb][o] = tombs[d][o]
        /\ [rows[d] EXCEPT ![c.obj] = c.ver][o] = rows[d][o]
    BY <1>0
  <1>3. \/ Handled(d, c).rows = rows[d] /\ Handled(d, c).tombs = tombs[d]
        \/ /\ c.by # 0 /\ Handled(d, c).rows = Deleted(c.obj, rows[d])
           /\ Handled(d, c).tombs = Buried(c.obj, c.ver, c.by, rows[d], tombs[d])
        \/ /\ Handled(d, c).rows \in {rows[d], [rows[d] EXCEPT ![c.obj] = c.ver]}
           /\ Handled(d, c).tombs = [tombs[d] EXCEPT ![c.obj] = NoTomb]
    BY HandledCases
  <1> QED
    BY <1>1, <1>2, <1>3
-----------------------------------------------------------------------------
(* What a step makes of an object on its device *)

Unmoved(d, o)    == rows'[d][o] = rows[d][o] /\ tombs'[d][o] = tombs[d][o]
SeesNoMore(d, o) == Events(o) \cap seen'[d] = Events(o) \cap seen[d]

IsEdited(d, o) ==
  /\ UNCHANGED <<log, seen>> /\ tombs[d][o] = NoTomb /\ tombs'[d][o] = NoTomb
  /\ rows'[d][o] # 0 /\ rows'[d][o] \in owner'.versions \ owner.versions

IsDeleted(d, o) ==
  /\ UNCHANGED <<log, seen, outbox>> /\ rows[d][o] # 0 /\ rows'[d][o] = 0
  /\ tombs'[d][o] = [ver |-> rows[d][o], by |-> Len(owner.deleted) + 1]
  /\ owner'.deleted = Append(owner.deleted, o)

\* The object follows its project, which was deleted somewhere.
GoesAlong(d, o) ==
  /\ Disputed(o)' /\ rows'[d][o] = 0
  /\ \/ tombs'[d][o] \in {tombs[d][o], NoTomb}
     \/ \E b \in 0..MaxDeletions : Deletes(b, o)' /\ tombs'[d][o] = [ver |-> rows[d][o], by |-> b]

\* The device takes the next event of the object, at place e.
Takes(d, o, e) ==
  /\ UNCHANGED log /\ e \in Events(o) \ seen[d] /\ \A i \in Events(o) : i < e => i \in seen[d]
  /\ seen'[d] \in {seen[d], seen[d] \cup {e}}

\* It finds a tombstone as new, it is a deletion, it waits, or it is applied.
Finds(d, o, c)   == /\ Unmoved(d, o) /\ tombs[d][o] # NoTomb
                    /\ c.by # 0 \/ c.ver <= tombs[d][o].ver
Removes(d, o, c) == /\ c.by # 0 /\ tombs[d][o] = NoTomb
                    /\ rows'[d][o] = 0 /\ tombs'[d][o] = [ver |-> c.ver, by |-> c.by]
Awaits(d, o, c)  == /\ Newer(c, tombs[d][o]) /\ rows[d][o] = 0 /\ rows'[d][o] = 0
                    /\ tombs'[d][o] = NoTomb /\ seen'[d] = seen[d]
Shows(d, o, c)   == /\ Newer(c, tombs[d][o]) /\ c.ver # 0
                    /\ rows'[d][o] = c.ver /\ tombs'[d][o] = NoTomb

Taken(d, o, c) == Finds(d, o, c) \/ Removes(d, o, c) \/ Awaits(d, o, c) \/ Shows(d, o, c)

Fate(d, o) ==
  \/ Unmoved(d, o) /\ SeesNoMore(d, o)
  \/ Unmoved(d, o) /\ UNCHANGED log /\ seen'[d] = {}
  \/ Unmoved(d, o) /\ o \in conflicts'[d]
  \/ IsEdited(d, o) \/ IsDeleted(d, o) \/ GoesAlong(d, o)
  \/ \E e \in Events(o) : Takes(d, o, e) /\ Taken(d, o, log[e].change)

\* A deletion of the project of an object, or of the object along with it.
LEMMA ProjectDeleted ==
  ASSUME Tables, NEW o \in Objects, NEW p \in Objects, Parent[o] = p, NEW b, Deletes(b, p)
  PROVE  UnderDeleted(o) /\ Deletes(b, o)
  <1>1. owner.deleted \in Seq(Objects) /\ b \in DOMAIN owner.deleted
    BY DEF Tables, Deletes
  <1>2. owner.deleted[b] \in Objects
    BY <1>1, LenProperties, ElementOfSeq
  <1>3. Parent[p] = None /\ None \notin Objects
    BY ParentAssumption, ParentFacts
  <1>4. owner.deleted[b] = p
    BY <1>2, <1>3 DEF Deletes
  <1> QED
    BY <1>1, <1>4 DEF UnderDeleted, Range, Deletes

LEMMA AppliedFate ==
  ASSUME SyncInv, DeletionsKnown, NEW d \in Devices, Step(d), Applied(d), NEW o \in Objects
  PROVE  Fate(d, o)
  <1> DEFINE e == NextEvent(d)
             c == NextChange(d)
             h == Handled(d, c)
  <1>0. /\ Tables /\ KnownPlaces /\ PageInHand /\ LinesHaveProjects
        /\ rows \in [Devices -> [Objects -> Versions]] /\ seen \in [Devices -> SUBSET Nat]
        /\ tombs \in [Devices -> [Objects -> Tomb]] /\ conflicts \in [Devices -> SUBSET Objects]
    BY DEF SyncInv, Tables, Tomb
  <1>1. ToHandle(d) /\ Applying(d)
    BY DEF Applied, ApplyEvent, ApplyStops, ToHandle
  <1>2. e \in Places /\ c \in Changes /\ c = log[e].change /\ c.obj \in Objects /\ e \notin seen[d]
    BY <1>0, <1>1, NextEventFacts DEF NextChange, Changes, ToHandle
  <1>3. /\ rows'[d] = h.rows /\ tombs'[d] = h.tombs /\ UNCHANGED log
        /\ \/ h.out = "waits" /\ seen'[d] = seen[d]
           \/ h.out = "conflict" /\ c.obj \in conflicts'[d] /\ seen'[d] = seen[d] \cup {e}
           \/ h.out = "applied" /\ seen'[d] \in {seen[d], seen[d] \cup {e}}
    <2>1. ASSUME ApplyEvent(d)
          PROVE  /\ rows'[d] = h.rows /\ tombs'[d] = h.tombs /\ UNCHANGED log
                 /\ seen'[d] = IF h.out = "waits" THEN seen[d] ELSE seen[d] \cup {e}
                 /\ h.out = "conflict" => c.obj \in conflicts'[d]
      BY <1>0, <2>1 DEF ApplyEvent, ApplyRest
    <2>2. ASSUME NEW marked \in BOOLEAN, ApplyStops(d, marked)
          PROVE  /\ rows'[d] = h.rows /\ tombs'[d] = h.tombs /\ UNCHANGED log
                 /\ h.out = "applied" /\ seen'[d] = seen[d]
      BY <1>0, <2>2 DEF ApplyStops, ApplyRest
    <2>3. h.out \in {"applied", "conflict", "waits"}
      BY HandledCases
    <2> HIDE DEF e, c, h
    <2> QED
      BY <2>1, <2>2, <2>3 DEF Applied
  <1>4. Underway(c)
    BY <1>2 DEF Underway
  <1> HIDE DEF e, c, h
  <1>5. ASSUME c.obj = o PROVE Fate(d, o)
    <2>1. e \in Events(o) \ seen[d]
      BY <1>2, <1>5 DEF Events
    <2>2. ASSUME NEW i \in Events(o), i < e PROVE i \in seen[d]
      <3>1. i \in 1..e /\ i # e /\ log[i].change.obj = log[e].change.obj
        BY <1>2, <1>5, <2>2 DEF Events, Places
      <3> QED
        BY <1>0, <1>1, <1>2, <3>1, NextInOrder DEF e
    <2>3. Takes(d, o, e)
      BY <1>3, <2>1, <2>2 DEF Takes
    <2>4. CASE Taken(d, o, c)
      BY <1>2, <2>1, <2>3, <2>4 DEF Fate
    <2>5. CASE /\ h.out = "applied" /\ h.rows[o] = rows[d][o] /\ h.tombs[o] = tombs[d][o]
               /\ tombs[d][o] # NoTomb /\ (c.by # 0 \/ c.ver <= tombs[d][o].ver)
      BY <1>3, <2>4, <2>5 DEF Taken, Finds, Unmoved
    <2>6. CASE h.out = "conflict" /\ h.rows[o] = rows[d][o] /\ h.tombs[o] = tombs[d][o]
      BY <1>3, <1>5, <2>6 DEF Fate, Unmoved
    <2>7. CASE /\ h.out = "applied" /\ c.by # 0 /\ tombs[d][o] = NoTomb
               /\ h.rows[o] = 0 /\ h.tombs[o] = [ver |-> c.ver, by |-> c.by]
      BY <1>3, <2>4, <2>7 DEF Taken, Removes
    <2>8. CASE /\ Newer(c, tombs[d][o]) /\ Parent[o] # None /\ rows[d][Parent[o]] = 0
               /\ h.rows[o] = rows[d][o] /\ h.tombs[o] = NoTomb
               /\ h.out = IF tombs[d][Parent[o]] # NoTomb THEN "applied" ELSE "waits"
      <3>1. rows[d][o] = 0 /\ Parent[o] \in Objects
        BY <1>0, <2>8, ParentFacts DEF LinesHaveProjects
      <3>2. CASE tombs[d][Parent[o]] = NoTomb
        BY <1>3, <2>4, <2>8, <3>1, <3>2 DEF Taken, Awaits
      <3>3. CASE tombs[d][Parent[o]] # NoTomb
        <4>1. PICK b : b = tombs[d][Parent[o]].by
          OBVIOUS
        <4>2. Deletes(b, Parent[o])
          BY <3>1, <3>3, <4>1 DEF DeletionsKnown
        <4>3. UnderDeleted(o)
          BY <1>0, <3>1, <4>2, ProjectDeleted
        <4>4. Disputed(o)'
          BY <1>0, <4>3, DisputeStays DEF Disputed
        <4> QED
          BY <1>3, <2>8, <3>1, <4>4 DEF Fate, GoesAlong
      <3> QED
        BY <3>2, <3>3
    <2>9. CASE /\ h.out = "applied" /\ Newer(c, tombs[d][o])
               /\ h.rows[o] = c.ver /\ h.tombs[o] = NoTomb
      <3>1. c.ver # 0
        BY <1>0, <1>2, <2>9 DEF LinesHaveProjects, Newer
      <3> QED
        BY <1>3, <2>4, <2>9, <3>1 DEF Taken, Shows
    <2>10. Outcome(d, c, o, h)
      BY <1>0, <1>2, <1>5, HandledOwn DEF h
    <2> QED
      BY <2>5, <2>6, <2>7, <2>8, <2>9, <2>10 DEF Outcome
  <1>6. ASSUME c.obj # o PROVE Fate(d, o)
    <2>1. SeesNoMore(d, o)
      <3>1. e \notin Events(o)
        BY <1>2, <1>6 DEF Events
      <3> QED
        BY <1>3, <3>1 DEF SeesNoMore
    <2>2. ASSUME h.rows[o] = rows[d][o], h.tombs[o] = tombs[d][o] PROVE Fate(d, o)
      BY <1>3, <2>1, <2>2 DEF Fate, Unmoved
    <2>3. ASSUME c.by # 0, Parent[o] = c.obj, h.rows[o] = 0,
                 \/ h.tombs[o] = tombs[d][o]
                 \/ rows[d][o] # 0 /\ h.tombs[o] = [ver |-> rows[d][o], by |-> c.by]
          PROVE  Fate(d, o)
      <3>1. PICK b \in 0..MaxDeletions : b = c.by
        BY <1>2 DEF Changes
      <3>2. Deletes(b, c.obj)
        BY <1>2, <1>4, <2>3, <3>1 DEF DeletionsKnown
      <3>3. UnderDeleted(o) /\ Deletes(b, o)
        BY <1>0, <1>2, <2>3, <3>2, ProjectDeleted
      <3>4. Disputed(o)' /\ Deletes(b, o)'
        BY <1>0, <3>3, DisputeStays, DeletesStays DEF Disputed
      <3> QED
        BY <1>3, <2>3, <3>1, <3>4 DEF Fate, GoesAlong
    <2> QED
      BY <1>0, <1>2, <1>6, <2>2, <2>3, HandledOther DEF h
  <1> QED
    BY <1>5, <1>6

\* The last deletion is number Len(owner.deleted) + 1.
LEMMA DeletionNumber ==
  ASSUME Tables, NEW d \in Devices, NEW p \in Objects, Delete(d, p)
  PROVE  LET b == Len(owner.deleted) + 1
         IN /\ b \in 1..MaxDeletions /\ b \in DOMAIN owner'.deleted /\ owner'.deleted[b] = p
            /\ owner'.deleted = Append(owner.deleted, p) /\ owner'.versions = owner.versions
            /\ b \notin DOMAIN owner.deleted
  <1> DEFINE s == owner.deleted
  <1>1. /\ owner \in [versions: SUBSET Versions, deleted: Seq(Objects), faults: 0..MaxFaults]
        /\ owner' = [owner EXCEPT !.deleted = Append(@, p)] /\ Len(s) < MaxDeletions
    BY DEF Tables, Delete
  <1>2. s \in Seq(Objects) /\ owner'.deleted = Append(s, p) /\ owner'.versions = owner.versions
    BY <1>1
  <1> HIDE DEF s
  <1>3. Len(s) \in Nat /\ DOMAIN s = 1..Len(s) /\ Len(s) + 1 \in DOMAIN Append(s, p)
        /\ Append(s, p)[Len(s) + 1] = p
    BY <1>2, LenProperties
  <1>4. Len(s) + 1 \in 1..MaxDeletions /\ Len(s) + 1 \notin DOMAIN s
    BY <1>1, <1>3, SyncBounds
  <1> QED
    BY <1>2, <1>3, <1>4 DEF s

LEMMA DeleteFate ==
  ASSUME Tables, NEW d \in Devices, NEW p \in Objects, Delete(d, p), NEW o \in Objects
  PROVE  Fate(d, o)
  <1>1. /\ rows'[d] = Deleted(p, rows[d]) /\ UNCHANGED <<log, seen, outbox>> /\ rows[d][p] # 0
        /\ tombs'[d] = Buried(p, rows[d][p], Len(owner.deleted) + 1, rows[d], tombs[d])
    BY DEF Tables, Delete, OwnerRest
  <1>2. CASE o = p
    <2>1. rows'[d][o] = 0 /\ tombs'[d][o] = [ver |-> rows[d][o], by |-> Len(owner.deleted) + 1]
      BY <1>1, <1>2 DEF Deleted, Buried
    <2> QED
      BY <1>1, <1>2, <2>1, DeletionNumber DEF Fate, IsDeleted
  <1>3. CASE o # p /\ Parent[o] = p
    <2>1. PICK b \in 1..MaxDeletions : /\ b = Len(owner.deleted) + 1
                                       /\ b \in DOMAIN owner'.deleted /\ owner'.deleted[b] = p
      BY DeletionNumber
    <2>2. Disputed(o)' /\ Deletes(b, o)' /\ b \in 0..MaxDeletions
      BY <1>3, <2>1, SyncBounds DEF Disputed, UnderDeleted, Range, Deletes
    <2>3. /\ rows'[d][o] = 0
          /\ \/ tombs'[d][o] = tombs[d][o]
             \/ tombs'[d][o] = [ver |-> rows[d][o], by |-> b]
      BY <1>1, <1>3, <2>1 DEF Deleted, Buried
    <2> QED
      BY <2>2, <2>3 DEF Fate, GoesAlong
  <1>4. CASE o # p /\ Parent[o] # p
    <2>1. Unmoved(d, o)
      BY <1>1, <1>4 DEF Deleted, Buried, Unmoved
    <2> QED
      BY <1>1, <2>1 DEF Fate, SeesNoMore
  <1> QED
    BY <1>2, <1>3, <1>4

LEMMA EditFate ==
  ASSUME Tables, ShownOrBuried, LinesHaveProjects, NEW d \in Devices, NEW p \in Objects,
         NEW v \in Versions, Edit(d, p, v), NEW o \in Objects
  PROVE  Fate(d, o)
  <1>1. /\ rows'[d] = [rows[d] EXCEPT ![p] = v] /\ UNCHANGED <<log, seen, tombs>>
        /\ v \notin owner.versions /\ v > rows[d][p] /\ rows[d] \in [Objects -> Versions]
        /\ v \in owner'.versions
    BY DEF Tables, Edit, OwnerRest
  <1>2. v # 0
    BY <1>1, SyncBounds DEF Versions
  <1>3. tombs[d][p] = NoTomb
    BY DEF Edit, ShownOrBuried
  <1>4. CASE o = p
    BY <1>1, <1>2, <1>3, <1>4 DEF Fate, IsEdited
  <1>5. CASE o # p
    BY <1>1, <1>5 DEF Fate, Unmoved, SeesNoMore
  <1> QED
    BY <1>4, <1>5

LEMMA FateStep ==
  ASSUME SyncInv, DeletionsKnown, ShownOrBuried, NEW d \in Devices, Step(d), NEW o \in Objects
  PROVE  Fate(d, o)
  <1>0. Tables /\ KnownPlaces /\ PageInHand /\ LinesHaveProjects
    BY DEF SyncInv
  <1>1. ASSUME Editing(d) PROVE Fate(d, o)
    BY <1>0, <1>1, EditFate, DeleteFate DEF Editing
  <1>2. ASSUME Applied(d) PROVE Fate(d, o)
    BY <1>2, AppliedFate
  <1>3. ASSUME UNCHANGED <<rows, tombs>>, UNCHANGED seen PROVE Fate(d, o)
    BY <1>3 DEF Fate, Unmoved, SeesNoMore
  <1>4. ASSUME Upgrade(d) PROVE Fate(d, o)
    <2>1. seen'[d] = {} /\ UNCHANGED <<log, rows, tombs>>
      BY <1>0, <1>4 DEF Upgrade, Tables
    <2> QED
      BY <2>1 DEF Fate, Unmoved
  <1>5. ASSUME Quarantine(d) PROVE Fate(d, o)
    <2> DEFINE e == Head(run[d].waiting)
    <2>1. /\ UNCHANGED <<log, rows, tombs>> /\ seen'[d] = seen[d] \cup {e}
          /\ log[e].change.obj \in conflicts'[d]
      BY <1>0, <1>5 DEF Quarantine, PageRest, Tables
    <2>2. CASE log[e].change.obj = o
      BY <2>1, <2>2 DEF Fate, Unmoved
    <2>3. CASE log[e].change.obj # o
      BY <2>1, <2>3 DEF Fate, Unmoved, SeesNoMore, Events
    <2> QED
      BY <2>2, <2>3
  <1>6. ASSUME ApplyEvent(d) PROVE Applied(d)
    BY <1>6 DEF Applied
  <1> QED
    BY <1>1, <1>2, <1>3, <1>4, <1>5, <1>6, Writers DEF WrittenBy
-----------------------------------------------------------------------------
(* Rows, tombstones and changes come from the owner *)

LEMMA OthersSame ==
  ASSUME Tables, NEW d \in Devices, Step(d), NEW e \in Devices, e # d
  PROVE  rows'[e] = rows[e] /\ tombs'[e] = tombs[e] /\ seen'[e] = seen[e]
  BY OthersStep DEF OthersKept

LEMMA KeepsShownOrBuried ==
  ASSUME SyncInv, DeletionsKnown, ShownOrBuried, NEW d \in Devices, Step(d)
  PROVE  ShownOrBuried'
  <1>1. ASSUME NEW o \in Objects PROVE rows'[d][o] = 0 \/ tombs'[d][o] = NoTomb
    <2>1. CASE Unmoved(d, o)
      BY <2>1 DEF Unmoved, ShownOrBuried
    <2>2. CASE IsEdited(d, o) \/ IsDeleted(d, o) \/ GoesAlong(d, o)
      BY <2>2 DEF IsEdited, IsDeleted, GoesAlong
    <2>3. ASSUME NEW e \in Events(o), Taken(d, o, log[e].change)
          PROVE  Unmoved(d, o) \/ rows'[d][o] = 0 \/ tombs'[d][o] = NoTomb
      BY <2>3 DEF Taken, Finds, Removes, Awaits, Shows
    <2> QED
      BY <2>1, <2>2, <2>3, FateStep DEF Fate
  <1>2. ASSUME NEW e \in Devices, e # d, NEW o \in Objects
        PROVE  rows'[e][o] = 0 \/ tombs'[e][o] = NoTomb
    BY <1>2, OthersSame DEF SyncInv, ShownOrBuried
  <1> QED
    BY <1>1, <1>2 DEF ShownOrBuried

LEMMA OwnFacts ==
  ASSUME Tables, NEW d \in Devices, NEW c, Own(d, c)
  PROVE  /\ c \in Changes
         /\ c.by = 0 => rows[d][c.obj] # 0 /\ c.ver = rows[d][c.obj]
         /\ c.by # 0 => /\ tombs[d][c.obj] # NoTomb
                        /\ c.ver = tombs[d][c.obj].ver /\ c.by = tombs[d][c.obj].by
  <1>1. PICK o \in Objects : \/ rows[d][o] # 0 /\ c = Upsert(o, rows[d][o])
                             \/ tombs[d][o].by # 0 /\ c = Deletion(o, tombs[d][o])
    BY DEF Own
  <1>2. CASE rows[d][o] # 0 /\ c = Upsert(o, rows[d][o])
    BY <1>2, TablesAt, UpsertType
  <1>3. CASE tombs[d][o].by # 0 /\ c = Deletion(o, tombs[d][o])
    BY <1>3, TablesAt, DeletionFacts DEF NoTomb
  <1> QED
    BY <1>1, <1>2, <1>3

LEMMA KeepsDeletionsKnown ==
  ASSUME SyncInv, DeletionsKnown, ShownOrBuried, NEW d \in Devices, Step(d)
  PROVE  DeletionsKnown'
  <1>0. Tables /\ LinesHaveProjects
    BY DEF SyncInv
  <1>1. ASSUME NEW e \in Devices, NEW o \in Objects, tombs'[e][o] # NoTomb, tombs'[e][o] = tombs[e][o]
        PROVE  \E b : b = tombs'[e][o].by /\ Deletes(b, o)'
    <2>1. PICK b : b = tombs[e][o].by /\ Deletes(b, o)
      BY <1>1 DEF DeletionsKnown
    <2> QED
      BY <1>0, <1>1, <2>1, DeletesStays
  <1>2. ASSUME NEW o \in Objects, IsDeleted(d, o) PROVE \E b : b = tombs'[d][o].by /\ Deletes(b, o)'
    <2>1. PICK b : b = Len(owner.deleted) + 1
      OBVIOUS
    <2>2. owner.deleted \in Seq(Objects) /\ owner'.deleted = Append(owner.deleted, o)
      BY <1>0, <1>2 DEF Tables, IsDeleted
    <2> DEFINE s == owner.deleted
    <2>3. s \in Seq(Objects) /\ b = Len(s) + 1 /\ owner'.deleted = Append(s, o)
      BY <2>1, <2>2
    <2> HIDE DEF s
    <2>4. b \in DOMAIN Append(s, o) /\ Append(s, o)[b] = o
      BY <2>3, LenProperties
    <2>5. Deletes(b, o)'
      BY <2>3, <2>4 DEF Deletes
    <2> QED
      BY <1>2, <2>1, <2>5 DEF IsDeleted
  <1>3. ASSUME NEW o \in Objects, NEW e \in Events(o), Removes(d, o, log[e].change)
        PROVE \E b : b = tombs'[d][o].by /\ Deletes(b, o)'
    <2>1. PICK c : c = log[e].change
      OBVIOUS
    <2>2. Underway(c) /\ c.obj = o
      BY <2>1 DEF Underway, Events
    <2>3. c \in Changes
      BY <1>0, <2>2, UnderwayType
    <2>4. PICK b : b = c.by /\ Deletes(b, o)
      BY <1>3, <2>1, <2>2, <2>3 DEF DeletionsKnown, Removes
    <2> QED
      BY <1>0, <1>3, <2>1, <2>4, DeletesStays DEF Removes
  <1>4. ASSUME NEW o \in Objects, tombs'[d][o] # NoTomb
        PROVE  \E b : b = tombs'[d][o].by /\ Deletes(b, o)'
    <2>1. ASSUME GoesAlong(d, o) PROVE \E b : b = tombs'[d][o].by /\ Deletes(b, o)'
      <3>1. CASE tombs'[d][o] = tombs[d][o]
        BY <1>1, <1>4, <3>1
      <3>2. ASSUME NEW b \in 0..MaxDeletions, Deletes(b, o)',
                   tombs'[d][o] = [ver |-> rows[d][o], by |-> b]
            PROVE  \E x : x = tombs'[d][o].by /\ Deletes(x, o)'
        <4>1. tombs'[d][o].by = b
          BY <3>2
        <4> QED
          BY <3>2, <4>1
      <3> QED
        BY <1>4, <2>1, <3>1, <3>2 DEF GoesAlong
    <2>2. ASSUME Unmoved(d, o) PROVE \E b : b = tombs'[d][o].by /\ Deletes(b, o)'
      BY <1>1, <1>4, <2>2 DEF Unmoved
    <2>3. ASSUME NEW e \in Events(o), Taken(d, o, log[e].change)
          PROVE  \E b : b = tombs'[d][o].by /\ Deletes(b, o)'
      BY <1>3, <1>4, <2>2, <2>3 DEF Taken, Finds, Awaits, Shows
    <2>4. ~ IsEdited(d, o)
      BY <1>4 DEF IsEdited
    <2> QED
      BY <1>2, <2>1, <2>2, <2>3, <2>4, FateStep DEF Fate
  <1>5. ASSUME NEW e \in Devices, NEW o \in Objects, tombs'[e][o] # NoTomb
        PROVE  \E b : b = tombs'[e][o].by /\ Deletes(b, o)'
    BY <1>0, <1>1, <1>4, <1>5, OthersSame
  <1>6. ASSUME NEW c \in Changes, Underway(c)', c.by # 0 PROVE Deletes(c.by, c.obj)'
    <2>1. PICK b : b = c.by
      OBVIOUS
    <2>2. c.obj \in Objects
      BY DEF Changes
    <2>3. CASE Underway(c)
      <3>1. Deletes(b, c.obj)
        BY <1>6, <2>1, <2>3 DEF DeletionsKnown
      <3> QED
        BY <1>0, <2>1, <3>1, DeletesStays
    <2>4. CASE Own(d, c)
      <3>1. Deletes(b, c.obj)
        BY <1>0, <1>6, <2>1, <2>2, <2>4, OwnFacts DEF DeletionsKnown
      <3> QED
        BY <1>0, <2>1, <3>1, DeletesStays
    <2> QED
      BY <1>0, <1>6, <2>3, <2>4, UnderwayStep
  <1>7. \A e \in Devices, o \in Objects : tombs'[e][o] # NoTomb => Deletes(tombs[e][o].by, o)'
    BY <1>5 DEF Deletes
  <1> QED
    BY <1>6, <1>7 DEF DeletionsKnown

LEMMA KeepsVersionsKnown ==
  ASSUME SyncInv, DeletionsKnown, VersionsKnown, ShownOrBuried, NEW d \in Devices, Step(d)
  PROVE  VersionsKnown'
  <1>0. Tables /\ LinesHaveProjects /\ owner.versions \subseteq owner'.versions
    BY OwnerGrows DEF SyncInv
  <1>1. ASSUME NEW o \in Objects, rows'[d][o] # 0 PROVE rows'[d][o] \in owner'.versions
    <2>1. ASSUME rows'[d][o] = rows[d][o] PROVE rows'[d][o] \in owner'.versions
      BY <1>0, <1>1, <2>1 DEF VersionsKnown
    <2>2. ASSUME NEW e \in Events(o), Shows(d, o, log[e].change) PROVE rows'[d][o] \in owner'.versions
      <3>1. PICK c : c = log[e].change
        OBVIOUS
      <3>2. Underway(c)
        BY <3>1 DEF Underway, Events
      <3>3. c \in Changes
        BY <1>0, <3>2, UnderwayType
      <3> QED
        BY <1>0, <2>2, <3>1, <3>2, <3>3 DEF VersionsKnown, Shows, Newer
    <2> QED
      BY <1>1, <2>1, <2>2, FateStep
         DEF Fate, Unmoved, IsEdited, IsDeleted, GoesAlong, Taken, Finds, Removes, Awaits
  <1>2. ASSUME NEW e \in Devices, NEW o \in Objects, rows'[e][o] # 0
        PROVE  rows'[e][o] \in owner'.versions
    BY <1>0, <1>1, <1>2, OthersSame DEF VersionsKnown
  <1>3. ASSUME NEW c \in Changes, Underway(c)', c.by = 0 PROVE c.ver \in owner'.versions
    <2>1. CASE Underway(c)
      BY <1>0, <1>3, <2>1 DEF VersionsKnown
    <2>2. CASE Own(d, c)
      <3>1. c.obj \in Objects
        BY DEF Changes
      <3> QED
        BY <1>0, <1>3, <2>2, <3>1, OwnFacts DEF VersionsKnown
    <2> QED
      BY <1>0, <1>3, <2>1, <2>2, UnderwayStep
  <1> QED
    BY <1>2, <1>3 DEF VersionsKnown

\* An object that is not in dispute had not been deleted before.
LEMMA FirstDeletion ==
  ASSUME Tables, NEW d \in Devices, Step(d), NEW o \in Objects, IsDeleted(d, o), ~ Disputed(o)'
  PROVE  \A b : ~ Deletes(b, o)
  <1> DEFINE s == owner.deleted
  <1>1. s \in Seq(Objects) /\ owner'.deleted = Append(s, o)
    BY DEF Tables, IsDeleted
  <1>2. ~ Disputed(o)
    BY DisputeStays
  <1> SUFFICES ASSUME NEW b, Deletes(b, o) PROVE FALSE
    OBVIOUS
  <1>3. b \in DOMAIN s /\ s[b] \in {o, Parent[o]}
    BY DEF Deletes
  <1>4. s[b] # Parent[o]
    BY <1>2, <1>3 DEF Disputed, UnderDeleted, Range
  <1> HIDE DEF s
  <1>5. /\ b \in DOMAIN Append(s, o) /\ Append(s, o)[b] = o /\ Len(s) + 1 # b
        /\ Len(s) + 1 \in DOMAIN Append(s, o) /\ Append(s, o)[Len(s) + 1] = o
    BY <1>1, <1>3, <1>4, LenProperties
  <1>6. PICK a : a = Len(s) + 1
    OBVIOUS
  <1>7. DeletedTwice(o)'
    BY <1>1, <1>5, <1>6 DEF DeletedTwice
  <1> QED
    BY <1>7 DEF Disputed

LEMMA KeepsOneDeletion ==
  ASSUME SyncInv, DeletionsKnown, ShownOrBuried, OneDeletion, NEW d \in Devices, Step(d)
  PROVE  OneDeletion'
  <1>0. Tables /\ LinesHaveProjects
    BY DEF SyncInv
  <1> DEFINE Same(o, w) ==
               /\ \A e \in Devices : tombs'[e][o] # NoTomb => tombs'[e][o].ver = w
               /\ \A c \in Changes : Underway(c)' /\ c.by # 0 /\ c.obj = o => c.ver = w
  <1>1. ASSUME NEW o \in Objects, ~ Disputed(o)', IsDeleted(d, o) PROVE \E w \in Versions : Same(o, w)
    <2>1. \A b : ~ Deletes(b, o)
      BY <1>0, <1>1, FirstDeletion
    <2>2. rows[d][o] \in Versions /\ tombs'[d][o].ver = rows[d][o]
      BY <1>0, <1>1, TablesAt DEF IsDeleted
    <2>3. \A e \in Devices : e # d => tombs'[e][o] = NoTomb
      BY <1>0, <2>1, OthersSame DEF DeletionsKnown
    <2>4. ASSUME NEW c \in Changes, Underway(c)', c.by # 0, c.obj = o PROVE FALSE
      <3>1. Underway(c)
        BY <1>1, <2>4 DEF IsDeleted, Underway, Places
      <3> QED
        BY <2>1, <2>4, <3>1 DEF DeletionsKnown
    <2> QED
      BY <2>2, <2>3, <2>4
  <1>2. ASSUME NEW o \in Objects, ~ Disputed(o)', ~ IsDeleted(d, o) PROVE \E w \in Versions : Same(o, w)
    <2>1. ~ Disputed(o)
      BY <1>0, <1>2, DisputeStays
    <2>2. PICK w \in Versions :
            /\ \A e \in Devices : tombs[e][o] # NoTomb => tombs[e][o].ver = w
            /\ \A c \in Changes : Underway(c) /\ c.by # 0 /\ c.obj = o => c.ver = w
      BY <2>1 DEF OneDeletion
    <2>3. ASSUME NEW i \in Events(o), Removes(d, o, log[i].change) PROVE tombs'[d][o].ver = w
      <3>1. PICK c : c = log[i].change
        OBVIOUS
      <3>2. Underway(c) /\ c.obj = o
        BY <3>1 DEF Underway, Events
      <3>3. c \in Changes
        BY <1>0, <3>2, UnderwayType
      <3> QED
        BY <2>2, <2>3, <3>1, <3>2, <3>3 DEF Removes
    <2>4. ASSUME tombs'[d][o] # NoTomb PROVE tombs'[d][o].ver = w
      BY <1>2, <2>2, <2>3, <2>4, FateStep
         DEF Fate, Unmoved, IsEdited, GoesAlong, Taken, Finds, Awaits, Shows
    <2>5. ASSUME NEW e \in Devices, tombs'[e][o] # NoTomb PROVE tombs'[e][o].ver = w
      BY <1>0, <2>2, <2>4, <2>5, OthersSame
    <2>6. ASSUME NEW c \in Changes, Underway(c)', c.by # 0, c.obj = o PROVE c.ver = w
      <3>1. CASE Underway(c)
        BY <2>2, <2>6, <3>1
      <3>2. CASE Own(d, c)
        BY <1>0, <2>2, <2>6, <3>2, OwnFacts
      <3> QED
        BY <1>0, <2>6, <3>1, <3>2, UnderwayStep
    <2> QED
      BY <2>5, <2>6
  <1> QED
    BY <1>1, <1>2 DEF OneDeletion

LEMMA KeepsConsumed ==
  ASSUME SyncInv, ConsumedIsDone, NEW d \in Devices, Step(d)
  PROVE  ConsumedIsDone'
  <1>0. /\ Tables /\ KnownPlaces /\ PageInHand /\ LogGrows
        /\ done \in [Devices -> SUBSET Keys] /\ seen \in [Devices -> SUBSET Nat]
        /\ conflicts \in [Devices -> SUBSET Objects]
    BY LogGrowsStep DEF SyncInv, Tables
  <1> DEFINE Fine(e, i) == \/ log'[i].change.obj \in conflicts'[e]
                           \/ Key(log'[i].change) \in done'[e]
  <1>1. ASSUME NEW e \in Devices, NEW i \in seen[e] PROVE Fine(e, i)
    <2>1. i \in Places /\ log'[i] = log[i]
      BY <1>0 DEF KnownPlaces, LogGrows
    <2> QED
      BY <1>0, <2>1, MarksGrow DEF ConsumedIsDone
  <1>2. ASSUME NEW i \in seen'[d], i \notin seen[d], ApplyEvent(d) PROVE Fine(d, i)
    <2> DEFINE h == Handled(d, NextChange(d))
    <2>1. h.out \in {"applied", "conflict", "waits"}
      BY HandledCases
    <2>2. /\ UNCHANGED log /\ i = NextEvent(d) /\ h.out # "waits"
          /\ h.out = "applied" => Key(NextChange(d)) \in done'[d]
          /\ h.out = "conflict" => NextChange(d).obj \in conflicts'[d]
      BY <1>0, <1>2 DEF ApplyEvent, ApplyRest
    <2> HIDE DEF h
    <2> QED
      BY <2>1, <2>2 DEF NextChange
  <1>3. ASSUME NEW i \in seen'[d], i \notin seen[d], Quarantine(d) PROVE Fine(d, i)
    BY <1>0, <1>3 DEF Quarantine, PageRest
  <1>4. ASSUME Upgrade(d) PROVE seen'[d] = {}
    BY <1>0, <1>4 DEF Upgrade
  <1>5. ASSUME NEW e \in Devices, NEW i \in seen'[e], i \notin seen[e] PROVE Fine(e, i)
    <2>1. e = d
      BY <1>0, <1>5, OthersSame
    <2> QED
      BY <1>2, <1>3, <1>4, <1>5, <2>1, Writers DEF WrittenBy
  <1> QED
    BY <1>1, <1>5 DEF ConsumedIsDone
-----------------------------------------------------------------------------
(* What a device shows goes with what it has seen *)

LEMMA EventFacts ==
  ASSUME Tables, NEW o
  PROVE  /\ Events(o) = Upserts(o) \cup Deletions(o) /\ Upserts(o) \cap Deletions(o) = {}
         /\ Events(o) \subseteq Places /\ Places \subseteq Nat
         /\ \A i \in Upserts(o) : log[i].change.obj = o /\ log[i].change.by = 0
         /\ \A i \in Deletions(o) : log[i].change.obj = o /\ log[i].change.by # 0
         /\ \A i \in Events(o) : log[i].change \in Changes /\ Underway(log[i].change)
  <1>1. log \in Seq(Entries)
    BY DEF Tables
  <1>2. \A i \in Places : log[i] \in Entries
    BY <1>1, ElementOfSeq DEF Places
  <1> QED
    BY <1>2 DEF Events, Upserts, Deletions, Places, Entries, Underway

LEMMA LogSame ==
  ASSUME UNCHANGED log, NEW o
  PROVE  Upserts(o)' = Upserts(o) /\ Deletions(o)' = Deletions(o) /\ Events(o)' = Events(o)
  BY DEF Upserts, Deletions, Events, Places

\* A device that has not seen an event has seen none of its object behind it.
LEMMA NoneBehind ==
  ASSUME Tables, ObjectOrder, NEW d \in Devices, NEW o, NEW e \in Events(o) \ seen[d]
  PROVE  \A i \in Events(o) \cap seen[d] : i < e
  <1> SUFFICES ASSUME NEW i \in Events(o) \cap seen[d], ~ (i < e) PROVE FALSE
    OBVIOUS
  <1>1. i \in Places /\ e \in 1..i /\ log[e].change.obj = log[i].change.obj
    BY LenProperties DEF Events, Places, Tables
  <1> QED
    BY <1>1 DEF ObjectOrder

\* An upsert that a device has marked is at the center.
LEMMA MarkedNext ==
  ASSUME Tables', DonePublished', NEW e \in Devices, NEW o \in Objects, NEW v \in Versions,
         Key(Upsert(o, v)) \in done'[e]
  PROVE  \E i \in Upserts(o)' : /\ log'[i].change.ver = v
                                /\ Key(log'[i].change) = Key(Upsert(o, v))
  <1>1. PICK i \in 1..Len(log') : Key(log'[i].change) = Key(Upsert(o, v))
    BY DEF DonePublished, Places
  <1>2. log'[i] \in Entries
    BY <1>1, ElementOfSeq DEF Tables
  <1>3. log'[i].change.obj = o /\ log'[i].change.by = 0 /\ log'[i].change.ver = v
    BY <1>1, <1>2, UpsertKey DEF Entries
  <1>4. i \in Upserts(o)'
    BY <1>1, <1>3 DEF Upserts, Places
  <1> QED
    BY <1>1, <1>3, <1>4

LEMMA QuietTallies ==
  ASSUME Tables, DonePublished, SyncInv', ConsumedIsDone, NEW d \in Devices, Step(d),
         NEW e \in Devices, NEW o \in Objects, o \notin conflicts'[e],
         Unmoved(e, o), SeesNoMore(e, o), seen'[e] \subseteq Places, Tallies(e, o)
  PROVE  Tallies(e, o)'
  <1>0. /\ LogGrows /\ done[e] \subseteq done'[e] /\ o \notin conflicts[e]
        /\ rows'[e][o] = rows[e][o] /\ tombs'[e][o] = tombs[e][o] /\ rows[e][o] \in Versions
    BY LogGrowsStep, MarksGrow, TablesAt DEF Unmoved
  <1>1. /\ Upserts(o)' \cap Places = Upserts(o) /\ Deletions(o)' \cap Places = Deletions(o)
        /\ Events(o)' \cap Places = Events(o) /\ \A i \in Places : log'[i] = log[i]
    BY <1>0, EventsGrow
  <1>2. Events(o) = Upserts(o) \cup Deletions(o) /\ Events(o) \subseteq Places /\ Places \subseteq Nat
    BY EventFacts
  <1>3. /\ Events(o)' \cap seen'[e] = Events(o) \cap seen[e]
        /\ Upserts(o)' \cap seen'[e] = Upserts(o) \cap seen[e]
        /\ Deletions(o)' \cap seen'[e] = Deletions(o) \cap seen[e]
    BY <1>1, <1>2 DEF SeesNoMore
  <1>4. \A i \in Upserts(o) : i \in Upserts(o)' /\ log'[i] = log[i] /\ i \in Places
    BY <1>1, <1>2
  <1>5. ASSUME rows[e][o] # 0 PROVE ShowsLast(e, o)'
    <2> DEFINE v == rows[e][o]
    <2>1. CASE \E i \in Upserts(o) \ seen[e] : log[i].change.ver = v
      BY <1>0, <1>2, <1>3, <1>4, <2>1 DEF ShowsLast
    <2>2. CASE Key(Upsert(o, v)) \notin done'[e]
      BY <1>0, <2>2 DEF ShowsLast
    <2>3. CASE Key(Upsert(o, v)) \in done'[e] /\ Key(Upsert(o, v)) \notin done[e]
      <3>1. PICK i \in Upserts(o)' : log'[i].change.ver = v /\ Key(log'[i].change) = Key(Upsert(o, v))
        BY <1>0, <2>3, MarkedNext DEF SyncInv
      <3>2. i \notin seen'[e]
        <4>1. SUFFICES ASSUME i \in seen'[e] PROVE FALSE
          OBVIOUS
        <4>2. i \in Upserts(o) \cap seen[e] /\ log'[i] = log[i] /\ log[i].change.obj = o
          BY <1>3, <1>4, <4>1, EventFacts
        <4> QED
          BY <1>0, <2>3, <3>1, <4>2 DEF ConsumedIsDone
      <3> QED
        BY <1>0, <3>1, <3>2 DEF ShowsLast
    <2>4. CASE \E i \in Upserts(o) \cap seen[e] : /\ log[i].change.ver = v
                                                  /\ \A j \in Upserts(o) \cap seen[e] : j <= i
      BY <1>0, <1>3, <1>4, <2>4 DEF ShowsLast
    <2> QED
      BY <1>5, <2>1, <2>2, <2>3, <2>4 DEF Tallies, ShowsLast
  <1>6. ShowsLast(e, o)'
    BY <1>0, <1>5 DEF ShowsLast
  <1>7. NothingMissed(e, o)'
    BY <1>0, <1>1, <1>3 DEF Tallies, NothingMissed
  <1>8. BuriedRightly(e, o)'
    <2>1. ASSUME Deletions(o)' \subseteq seen'[e] PROVE Deletions(o)' = Deletions(o)
      BY <1>1, <1>3, <2>1
    <2> QED
      BY <1>0, <1>3, <1>4, <2>1 DEF Tallies, BuriedRightly
  <1>9. RevivedRightly(e, o)'
    <2>1. SUFFICES ASSUME tombs[e][o] = NoTomb, Deletions(o) \cap seen[e] # {}
                   PROVE  RevivedRightly(e, o)'
      BY <1>0, <1>3 DEF RevivedRightly
    <2>2. PICK i \in Upserts(o) :
            /\ \A j \in Deletions(o) \cap seen[e] : j < i /\ log[j].change.ver < log[i].change.ver
            /\ i \in seen[e] \/ Events(o) \cap (1..i - 1) \subseteq seen[e]
      BY <2>1 DEF Tallies, RevivedRightly
    <2>3. \A j \in Deletions(o) \cap seen[e] : log'[j] = log[j]
      BY <1>1, <1>2
    <2>4. i \in seen'[e] \/ Events(o)' \cap (1..i - 1) \subseteq seen'[e]
      <3>1. CASE i \in seen[e]
        BY <1>3, <3>1
      <3>2. CASE Events(o) \cap (1..i - 1) \subseteq seen[e]
        <4>1. 1..i - 1 \subseteq Places
          BY <1>2, LenProperties DEF Places, Tables
        <4> QED
          BY <1>1, <1>3, <3>2, <4>1
      <3> QED
        BY <2>2, <3>1, <3>2
    <2> QED
      BY <1>3, <1>4, <2>2, <2>3, <2>4 DEF RevivedRightly
  <1> QED
    BY <1>6, <1>7, <1>8, <1>9 DEF Tallies

LEMMA ForgottenTallies ==
  ASSUME Tables, SyncInv', NEW d \in Devices, NEW o \in Objects,
         Unmoved(d, o), UNCHANGED log, seen'[d] = {}, Tallies(d, o)
  PROVE  Tallies(d, o)'
  <1>0. rows'[d][o] = rows[d][o] /\ tombs'[d][o] = tombs[d][o] /\ rows[d][o] \in Versions
    BY TablesAt DEF Unmoved
  <1>1. ASSUME Key(Upsert(o, rows[d][o])) \in done'[d] PROVE ShowsLast(d, o)'
    <2>1. PICK v \in Versions : v = rows[d][o]
      BY <1>0
    <2>2. PICK i \in Upserts(o)' : log'[i].change.ver = v
      BY <1>1, <2>1, MarkedNext DEF SyncInv
    <2> QED
      BY <1>0, <2>1, <2>2 DEF ShowsLast
  <1>2. ShowsLast(d, o)'
    BY <1>0, <1>1 DEF ShowsLast
  <1>3. Events(o)' = {} \/ ~ (Events(o)' \subseteq seen'[d])
    OBVIOUS
  <1> QED
    BY <1>2, <1>3 DEF Tallies, NothingMissed, BuriedRightly, RevivedRightly

LEMMA EditedTallies ==
  ASSUME Tables, SyncInv', VersionsKnown, NEW d \in Devices, NEW o \in Objects,
         IsEdited(d, o), Tallies(d, o)
  PROVE  Tallies(d, o)'
  <1>0. /\ UNCHANGED log /\ seen' = seen /\ tombs[d][o] = NoTomb /\ tombs'[d][o] = NoTomb
        /\ rows'[d][o] # 0 /\ rows'[d][o] \notin owner.versions
    BY DEF IsEdited
  <1>1. Upserts(o)' = Upserts(o) /\ Deletions(o)' = Deletions(o) /\ Events(o)' = Events(o)
    BY <1>0, LogSame
  <1>2. PICK v \in Versions : v = rows'[d][o]
    BY DEF SyncInv, Tables
  <1>3. Key(Upsert(o, v)) \notin done'[d]
    <2>1. SUFFICES ASSUME Key(Upsert(o, v)) \in done'[d] PROVE FALSE
      OBVIOUS
    <2>2. PICK i \in Upserts(o)' : log'[i].change.ver = v
      BY <2>1, MarkedNext DEF SyncInv
    <2>3. i \in Upserts(o) /\ log[i].change.ver = v
      BY <1>0, <1>1, <2>2
    <2>4. log[i].change \in Changes /\ Underway(log[i].change) /\ log[i].change.by = 0
      BY <2>3, EventFacts
    <2> QED
      BY <1>0, <1>2, <2>3, <2>4 DEF VersionsKnown
  <1>4. ShowsLast(d, o)'
    BY <1>2, <1>3 DEF ShowsLast
  <1>5. RevivedRightly(d, o)'
    BY <1>0, <1>1 DEF Tallies, RevivedRightly
  <1> QED
    BY <1>0, <1>4, <1>5 DEF Tallies, NothingMissed, BuriedRightly

LEMMA DeletedTallies ==
  ASSUME Tables, DeletionsKnown, NEW d \in Devices, Step(d), NEW o \in Objects,
         IsDeleted(d, o), ~ Disputed(o)'
  PROVE  Tallies(d, o)'
  <1>1. Deletions(o)' = Deletions(o)
    BY LogSame DEF IsDeleted
  <1>2. Deletions(o) = {}
    <2>1. SUFFICES ASSUME NEW i \in Deletions(o) PROVE FALSE
      OBVIOUS
    <2>2. PICK c \in Changes : c = log[i].change /\ Underway(c) /\ c.by # 0 /\ c.obj = o
      BY EventFacts
    <2> QED
      BY <2>2, FirstDeletion DEF DeletionsKnown
  <1>3. rows'[d][o] = 0 /\ tombs'[d][o] # NoTomb
    <2>1. Len(owner.deleted) + 1 # 0
      BY LenProperties DEF Tables
    <2> QED
      BY <2>1 DEF IsDeleted, NoTomb
  <1> QED
    BY <1>1, <1>2, <1>3 DEF Tallies, ShowsLast, NothingMissed, BuriedRightly, RevivedRightly

LEMMA FoundTallies ==
  ASSUME Tables, ObjectOrder, ShownOrBuried, NEW d \in Devices, NEW o \in Objects,
         NEW e \in Events(o), Takes(d, o, e), Finds(d, o, log[e].change), Tallies(d, o)
  PROVE  Tallies(d, o)'
  <1>0. /\ UNCHANGED log /\ e \notin seen[d] /\ seen'[d] \subseteq seen[d] \cup {e}
        /\ tombs[d][o] # NoTomb /\ tombs'[d][o] = tombs[d][o] /\ rows'[d][o] = 0
    BY DEF Takes, Finds, Unmoved, ShownOrBuried
  <1>1. Upserts(o)' = Upserts(o) /\ Deletions(o)' = Deletions(o)
    BY <1>0, LogSame
  <1>2. /\ Events(o) = Upserts(o) \cup Deletions(o) /\ Events(o) \subseteq Nat
        /\ \A i \in Events(o) \cap seen[d] : i < e
    BY <1>0, EventFacts, NoneBehind
  <1>3. ASSUME Deletions(o) # {}, Deletions(o) \subseteq seen'[d], NEW i \in Upserts(o) \cap seen'[d],
               \A j \in Deletions(o) : j < i
        PROVE  log[i].change.ver <= tombs[d][o].ver
    <2>1. CASE i = e
      BY <2>1, EventFacts DEF Finds
    <2>2. CASE i # e
      <3>1. i \in Upserts(o) \cap seen[d]
        BY <1>0, <1>3, <2>2
      <3>2. e \notin Deletions(o)
        <4>1. i \in Events(o) \cap seen[d] /\ i \in Nat /\ e \in Nat
          BY <1>2, <3>1
        <4>2. ~ (e < i)
          BY <1>2, <4>1
        <4> QED
          BY <1>3, <4>2
      <3>3. Deletions(o) \subseteq seen[d]
        BY <1>0, <1>3, <3>2
      <3> QED
        BY <1>0, <1>3, <3>1, <3>3 DEF Tallies, BuriedRightly
    <2> QED
      BY <2>1, <2>2
  <1>4. BuriedRightly(d, o)'
    BY <1>0, <1>1, <1>3 DEF BuriedRightly
  <1> QED
    BY <1>0, <1>4 DEF Tallies, ShowsLast, NothingMissed, RevivedRightly

LEMMA RemovedTallies ==
  ASSUME Tables, ObjectOrder, NEW d \in Devices, NEW o \in Objects,
         NEW e \in Events(o), Takes(d, o, e), Removes(d, o, log[e].change)
  PROVE  Tallies(d, o)'
  <1>0. /\ UNCHANGED log /\ e \notin seen[d] /\ seen'[d] \subseteq seen[d] \cup {e}
        /\ tombs'[d][o] # NoTomb /\ rows'[d][o] = 0 /\ log[e].change.by # 0
    BY DEF Takes, Removes, NoTomb
  <1>1. Upserts(o)' = Upserts(o) /\ Deletions(o)' = Deletions(o)
    BY <1>0, LogSame
  <1>2. /\ Events(o) = Upserts(o) \cup Deletions(o) /\ Events(o) \subseteq Nat
        /\ \A i \in Events(o) \cap seen[d] : i < e
    BY <1>0, EventFacts, NoneBehind
  <1>3. e \in Deletions(o) \ Upserts(o)
    BY <1>0, <1>2, EventFacts
  <1>4. ASSUME NEW i \in Upserts(o) \cap seen'[d] PROVE ~ (e < i)
    <2>1. i \in Events(o) \cap seen[d] /\ i \in Nat /\ e \in Nat
      BY <1>0, <1>2, <1>3, <1>4
    <2> QED
      BY <1>2, <2>1
  <1>5. BuriedRightly(d, o)'
    BY <1>1, <1>3, <1>4 DEF BuriedRightly
  <1> QED
    BY <1>0, <1>5 DEF Tallies, ShowsLast, NothingMissed, RevivedRightly

\* An upsert that a tombstone does not bury is newer than the deletions seen.
LEMMA NewerTallies ==
  ASSUME Tables, ObjectOrder, OneDeletion, NEW d \in Devices, NEW o \in Objects, ~ Disputed(o),
         NEW e \in Events(o), Takes(d, o, e), Newer(log[e].change, tombs[d][o]), RevivedRightly(d, o)
  PROVE  RevivedRightly(d, o)'
  <1>0. /\ UNCHANGED log /\ e \notin seen[d] /\ \A i \in Events(o) : i < e => i \in seen[d]
        /\ seen[d] \subseteq seen'[d] /\ seen'[d] \subseteq seen[d] \cup {e} /\ log[e].change.by = 0
    BY DEF Takes, Newer
  <1>1. Upserts(o)' = Upserts(o) /\ Deletions(o)' = Deletions(o) /\ Events(o)' = Events(o)
    BY <1>0, LogSame
  <1>2. /\ Events(o) = Upserts(o) \cup Deletions(o) /\ Events(o) \subseteq Nat
        /\ \A i \in Events(o) \cap seen[d] : i < e
    BY <1>0, EventFacts, NoneBehind
  <1>3. e \in Upserts(o) \ Deletions(o)
    BY <1>0, <1>2, EventFacts
  <1>4. Deletions(o)' \cap seen'[d] = Deletions(o) \cap seen[d]
    BY <1>0, <1>1, <1>3
  <1>5. CASE tombs[d][o] = NoTomb
    <2>1. SUFFICES ASSUME Deletions(o) \cap seen[d] # {} PROVE RevivedRightly(d, o)'
      BY <1>4 DEF RevivedRightly
    <2>2. PICK i \in Upserts(o) :
            /\ \A j \in Deletions(o) \cap seen[d] : j < i /\ log[j].change.ver < log[i].change.ver
            /\ i \in seen[d] \/ Events(o) \cap (1..i - 1) \subseteq seen[d]
      BY <1>5, <2>1 DEF RevivedRightly
    <2> QED
      BY <1>0, <1>1, <1>4, <2>2 DEF RevivedRightly
  <1>6. CASE tombs[d][o] # NoTomb
    <2>1. PICK w \in Versions :
            /\ \A x \in Devices : tombs[x][o] # NoTomb => tombs[x][o].ver = w
            /\ \A c \in Changes : Underway(c) /\ c.by # 0 /\ c.obj = o => c.ver = w
      BY DEF OneDeletion
    <2>2. ASSUME NEW j \in Deletions(o) \cap seen[d]
          PROVE  j < e /\ log[j].change.ver < log[e].change.ver
      <3>1. log[j].change.ver = w
        BY <1>2, <2>1, <2>2, EventFacts
      <3>2. w < log[e].change.ver
        <4>1. log[e].change.ver > w /\ w \in Nat /\ log[e].change.ver \in Nat
          BY <1>6, <2>1, EventFacts, SyncBounds DEF Newer, Changes, Versions
        <4> QED
          BY <4>1
      <3> QED
        BY <1>2, <2>2, <3>1, <3>2
    <2>3. Events(o) \cap (1..e - 1) \subseteq seen[d]
      BY <1>0, <1>2
    <2> QED
      BY <1>0, <1>1, <1>3, <1>4, <2>2, <2>3 DEF RevivedRightly
  <1> QED
    BY <1>5, <1>6

LEMMA AwaitedTallies ==
  ASSUME Tables, ObjectOrder, OneDeletion, NEW d \in Devices, NEW o \in Objects, ~ Disputed(o),
         NEW e \in Events(o), Takes(d, o, e), Awaits(d, o, log[e].change), Tallies(d, o)
  PROVE  Tallies(d, o)'
  <1>1. RevivedRightly(d, o)'
    BY NewerTallies DEF Tallies, Awaits
  <1>2. rows'[d][o] = 0 /\ tombs'[d][o] = NoTomb /\ ~ (Events(o)' \subseteq seen'[d])
    BY LogSame DEF Awaits, Takes
  <1> QED
    BY <1>1, <1>2 DEF Tallies, ShowsLast, NothingMissed, BuriedRightly

LEMMA ShownTallies ==
  ASSUME Tables, ObjectOrder, OneDeletion, NEW d \in Devices, NEW o \in Objects, ~ Disputed(o),
         NEW e \in Events(o), Takes(d, o, e), Shows(d, o, log[e].change), Tallies(d, o)
  PROVE  Tallies(d, o)'
  <1>1. RevivedRightly(d, o)'
    BY NewerTallies DEF Tallies, Shows
  <1>2. /\ UNCHANGED log /\ e \notin seen[d] /\ seen'[d] \in {seen[d], seen[d] \cup {e}}
        /\ rows'[d][o] = log[e].change.ver /\ rows'[d][o] # 0 /\ tombs'[d][o] = NoTomb
    BY DEF Shows, Takes
  <1>3. /\ Upserts(o)' = Upserts(o) /\ e \in Upserts(o) /\ Upserts(o) \subseteq Nat
        /\ \A i \in Upserts(o) \cap seen[d] : i < e
    <2>1. e \in Upserts(o)
      BY EventFacts DEF Shows, Newer
    <2> QED
      BY <1>2, <2>1, LogSame, EventFacts, NoneBehind
  <1>4. CASE seen'[d] = seen[d]
    <2>1. e \in Upserts(o)' \ seen'[d] /\ log'[e].change.ver = rows'[d][o]
      BY <1>2, <1>3, <1>4
    <2>2. ShowsLast(d, o)'
      BY <2>1 DEF ShowsLast
    <2> QED
      BY <1>1, <1>2, <2>2 DEF Tallies, NothingMissed, BuriedRightly
  <1>5. CASE seen'[d] = seen[d] \cup {e}
    <2>1. /\ e \in Upserts(o)' \cap seen'[d] /\ log'[e].change.ver = rows'[d][o]
          /\ \A j \in Upserts(o)' \cap seen'[d] : j <= e
      BY <1>2, <1>3, <1>5
    <2>2. ShowsLast(d, o)'
      BY <2>1 DEF ShowsLast
    <2> QED
      BY <1>1, <1>2, <2>2 DEF Tallies, NothingMissed, BuriedRightly
  <1> QED
    BY <1>2, <1>4, <1>5

LEMMA KeepsConsistent ==
  ASSUME SyncInv, SyncInv', ConvInv, NEW d \in Devices, Step(d), NEW e \in Devices, NEW o \in Objects
  PROVE  Consistent(e, o)'
  <1>0. /\ Tables /\ KnownPlaces /\ PageInHand /\ LinesHaveProjects /\ ObjectOrder /\ DonePublished
        /\ DeletionsKnown /\ VersionsKnown /\ OneDeletion /\ ShownOrBuried /\ ConsumedIsDone
    BY DEF SyncInv, ConvInv
  <1>1. SUFFICES ASSUME ~ Disputed(o)', o \notin conflicts'[e] PROVE Tallies(e, o)'
    BY DEF Consistent
  <1>2. Tallies(e, o) /\ ~ Disputed(o)
    <2>1. ~ Disputed(o) /\ o \notin conflicts[e]
      BY <1>0, <1>1, DisputeStays, MarksGrow
    <2> QED
      BY <2>1 DEF ConvInv, Converging, Consistent
  <1>3. seen[e] \subseteq Places /\ seen'[d] \subseteq Places
    BY <1>0, SeenTyped DEF KnownPlaces
  <1>4. CASE e # d
    <2>1. Unmoved(e, o) /\ SeesNoMore(e, o) /\ seen'[e] \subseteq Places
      BY <1>0, <1>3, <1>4, OthersSame DEF Unmoved, SeesNoMore
    <2> QED
      BY <1>0, <1>1, <1>2, <2>1, QuietTallies
  <1>5. CASE e = d
    <2>1. CASE Unmoved(d, o) /\ SeesNoMore(d, o)
      BY <1>0, <1>1, <1>2, <1>3, <1>5, <2>1, QuietTallies
    <2>2. CASE Unmoved(d, o) /\ UNCHANGED log /\ seen'[d] = {}
      BY <1>0, <1>2, <1>5, <2>2, ForgottenTallies
    <2>3. CASE IsEdited(d, o)
      BY <1>0, <1>2, <1>5, <2>3, EditedTallies
    <2>4. CASE IsDeleted(d, o)
      BY <1>0, <1>1, <1>5, <2>4, DeletedTallies
    <2>5. ASSUME NEW i \in Events(o), Takes(d, o, i), Taken(d, o, log[i].change) PROVE Tallies(d, o)'
      <3>1. CASE Finds(d, o, log[i].change)
        BY <1>0, <1>2, <1>5, <2>5, <3>1, FoundTallies
      <3>2. CASE Removes(d, o, log[i].change)
        BY <1>0, <2>5, <3>2, RemovedTallies
      <3>3. CASE Awaits(d, o, log[i].change)
        BY <1>0, <1>2, <1>5, <2>5, <3>3, AwaitedTallies
      <3>4. CASE Shows(d, o, log[i].change)
        BY <1>0, <1>2, <1>5, <2>5, <3>4, ShownTallies
      <3> QED
        BY <2>5, <3>1, <3>2, <3>3, <3>4 DEF Taken
    <2>6. ~ GoesAlong(d, o) /\ ~ (Unmoved(d, o) /\ o \in conflicts'[d])
      BY <1>1, <1>5 DEF GoesAlong
    <2> QED
      BY <1>0, <1>5, <2>1, <2>2, <2>3, <2>4, <2>5, <2>6, FateStep DEF Fate
  <1> QED
    BY <1>4, <1>5

LEMMA InitConvInv ==
  ASSUME Init
  PROVE  ConvInv
  <1>1. /\ log = <<>> /\ \A d \in Devices : outbox[d] = <<>> /\ seen[d] = {}
        /\ \A d \in Devices, o \in Objects : rows[d][o] = 0 /\ tombs[d][o] = NoTomb
    BY DEF Init
  <1>2. Places = {} /\ \A c : ~ Underway(c)
    BY <1>1 DEF Places, Underway
  <1>3. \A o : Upserts(o) = {} /\ Deletions(o) = {} /\ Events(o) = {}
    BY <1>2 DEF Upserts, Deletions, Events
  <1>4. 0 \in Versions
    BY SyncBounds DEF Versions
  <1>5. DeletionsKnown /\ VersionsKnown /\ OneDeletion
    BY <1>1, <1>2, <1>4 DEF DeletionsKnown, VersionsKnown, OneDeletion
  <1>6. ShownOrBuried /\ ConsumedIsDone
    BY <1>1 DEF ShownOrBuried, ConsumedIsDone
  <1>7. Converging
    BY <1>1, <1>3 DEF Converging, Consistent, Tallies, ShowsLast, NothingMissed, BuriedRightly,
                      RevivedRightly
  <1> QED
    BY <1>5, <1>6, <1>7 DEF ConvInv

LEMMA KeepsConvInv ==
  ASSUME SyncInv, SyncInv', ConvInv, [Next]_vars
  PROVE  ConvInv'
  <1>1. ASSUME NEW d \in Devices, Step(d) PROVE ConvInv'
    <2>1. SyncInv /\ DeletionsKnown /\ VersionsKnown /\ OneDeletion /\ ShownOrBuried /\ ConsumedIsDone
      BY DEF ConvInv
    <2>2. DeletionsKnown' /\ VersionsKnown' /\ OneDeletion'
      BY <1>1, <2>1, KeepsDeletionsKnown, KeepsVersionsKnown, KeepsOneDeletion
    <2>3. ShownOrBuried' /\ ConsumedIsDone'
      BY <1>1, <2>1, KeepsShownOrBuried, KeepsConsumed
    <2>4. Converging'
      BY <1>1, KeepsConsistent DEF Converging
    <2> QED
      BY <2>2, <2>3, <2>4 DEF ConvInv
  <1>2. CASE UNCHANGED vars
    <2>1. UNCHANGED <<log, rows, tombs, outbox, done, seen, conflicts, owner>>
      BY <1>2 DEF vars
    <2>2. /\ \A c : Underway(c)' <=> Underway(c)
          /\ \A o : Disputed(o)' <=> Disputed(o)
      BY <2>1 DEF Underway, Places, Disputed, UnderDeleted, DeletedTwice, Range
    <2>3. DeletionsKnown' /\ VersionsKnown' /\ OneDeletion'
      BY <2>1, <2>2 DEF ConvInv, DeletionsKnown, VersionsKnown, OneDeletion, Deletes
    <2>4. ShownOrBuried' /\ ConsumedIsDone'
      BY <2>1 DEF ConvInv, ShownOrBuried, ConsumedIsDone
    <2>5. ASSUME NEW d \in Devices, NEW o \in Objects, Consistent(d, o) PROVE Consistent(d, o)'
      <3>1. Upserts(o)' = Upserts(o) /\ Deletions(o)' = Deletions(o) /\ Events(o)' = Events(o)
        BY <2>1, LogSame
      <3>2. Tallies(d, o) => Tallies(d, o)'
        BY <2>1, <3>1 DEF Tallies, ShowsLast, NothingMissed, BuriedRightly, RevivedRightly
      <3> QED
        BY <2>1, <2>2, <2>5, <3>2 DEF Consistent
    <2>6. Converging'
      BY <2>5 DEF ConvInv, Converging
    <2> QED
      BY <2>3, <2>4, <2>6 DEF ConvInv
  <1> QED
    BY <1>1, <1>2, StepOfDevice

\* Whatever a device shows or has buried is what applyBusinessObject had to make
\* of the events the device's runs have consumed, or what the owner made since.
THEOREM ConvergenceInvariant == Spec => []ConvInv
  <1>1. Init => ConvInv
    BY InitConvInv
  <1>2. SyncInv /\ SyncInv' /\ ConvInv /\ [Next]_vars => ConvInv'
    BY KeepsConvInv
  <1> QED
    BY <1>1, <1>2, SyncInvariant, PTL DEF Spec
-----------------------------------------------------------------------------
(* Settled devices *)

LEMMA SettledFacts ==
  ASSUME SyncInv, NEW d \in Devices, Settled(d)
  PROVE  /\ Places \subseteq seen[d] /\ \A c : Own(d, c) => Key(c) \in done[d]
         /\ \A c : Own(d, c) => \E i \in Places : Key(log[i].change) = Key(c)
  <1>0. Tables /\ CursorCovered /\ DonePublished /\ ToExport(d) = <<>> /\ outbox[d] = <<>>
    BY DEF SyncInv, Settled
  <1>1. Places \subseteq seen[d]
    BY <1>0 DEF CursorCovered, Settled, Places
  <1>2. Queued(d) = {}
    BY <1>0, QueuedFacts
  <1>3. ASSUME NEW c, Own(d, c) PROVE Key(c) \in done[d]
    BY <1>0, <1>2, <1>3, ToExportContents DEF Known
  <1> QED
    BY <1>0, <1>1, <1>3 DEF DonePublished

\* What a settled device shows is the last upsert; a tombstone comes from a
\* deletion no newer upsert followed, and its absence from an upsert that did.
LEMMA SettledShows ==
  ASSUME SyncInv, ConvInv, NEW d \in Devices, Settled(d), NEW o \in Objects,
         ~ Disputed(o), o \notin conflicts[d]
  PROVE  /\ rows[d][o] # 0 => \E i \in Upserts(o) : /\ log[i].change.ver = rows[d][o]
                                                    /\ \A j \in Upserts(o) : j <= i
         /\ rows[d][o] = 0 /\ tombs[d][o] = NoTomb => Events(o) = {}
         /\ tombs[d][o] # NoTomb =>
              /\ Deletions(o) # {}
              /\ \A i \in Upserts(o) : (\A j \in Deletions(o) : j < i) => log[i].change.ver <= tombs[d][o].ver
         /\ tombs[d][o] = NoTomb /\ Deletions(o) # {} =>
              \E i \in Upserts(o) : \A j \in Deletions(o) : j < i /\ log[j].change.ver < log[i].change.ver
  <1>0. Tables /\ Tallies(d, o) /\ Places \subseteq seen[d]
    BY SettledFacts DEF SyncInv, ConvInv, Converging, Consistent
  <1>1. /\ Events(o) = Upserts(o) \cup Deletions(o) /\ Events(o) \subseteq Places
        /\ Upserts(o) \cap seen[d] = Upserts(o) /\ Deletions(o) \cap seen[d] = Deletions(o)
        /\ Upserts(o) \ seen[d] = {}
    BY <1>0, EventFacts
  <1>2. ASSUME rows[d][o] # 0 PROVE Key(Upsert(o, rows[d][o])) \in done[d]
    BY <1>2, SettledFacts DEF Own
  <1>3. ASSUME tombs[d][o] # NoTomb PROVE Deletions(o) # {}
    <2> DEFINE c == Deletion(o, tombs[d][o])
    <2>1. c \in Changes /\ c.by = tombs[d][o].by /\ c.by \in Nat
      BY <1>0, TablesAt, DeletionFacts, SyncBounds
    <2>2. c.by # 0
      <3>1. tombs[d][o].by \in DOMAIN owner.deleted
        BY <1>3 DEF ConvInv, DeletionsKnown, Deletes
      <3> QED
        BY <1>0, <2>1, <3>1, LenProperties DEF Tables
    <2>3. Own(d, c)
      BY <2>1, <2>2 DEF Own
    <2>4. PICK i \in Places : Key(log[i].change) = Key(c)
      BY <2>3, SettledFacts
    <2>5. log[i].change \in Changes /\ log[i].change.by \in Nat
      <3>1. log[i] \in Entries
        BY <1>0, ElementOfSeq DEF Tables, Places
      <3> QED
        BY <3>1, SyncBounds DEF Entries, Changes
    <2>6. c.obj = o
      BY <1>0, TablesAt, DeletionFacts
    <2> HIDE DEF c
    <2>7. log[i].change.obj = o /\ log[i].change.by # 0
      BY <2>1, <2>2, <2>4, <2>5, <2>6, KeyFacts DEF Key
    <2> QED
      BY <2>7 DEF Deletions
  <1>4. rows[d][o] # 0 => \E i \in Upserts(o) : /\ log[i].change.ver = rows[d][o]
                                                /\ \A j \in Upserts(o) : j <= i
    BY <1>0, <1>1, <1>2 DEF Tallies, ShowsLast
  <1>5. rows[d][o] = 0 /\ tombs[d][o] = NoTomb => Events(o) = {}
    BY <1>0, <1>1 DEF Tallies, NothingMissed
  <1>6. tombs[d][o] # NoTomb =>
          \A i \in Upserts(o) : (\A j \in Deletions(o) : j < i) => log[i].change.ver <= tombs[d][o].ver
    BY <1>0, <1>1, <1>3 DEF Tallies, BuriedRightly
  <1>7. tombs[d][o] = NoTomb /\ Deletions(o) # {} =>
          \E i \in Upserts(o) : \A j \in Deletions(o) : j < i /\ log[j].change.ver < log[i].change.ver
    BY <1>0, <1>1 DEF Tallies, RevivedRightly
  <1> QED
    BY <1>3, <1>4, <1>5, <1>6, <1>7

\* Where one settled device shows an object, no other has it buried or missing.
LEMMA ShownEverywhere ==
  ASSUME SyncInv, ConvInv, NEW d \in Devices, NEW e \in Devices, Settled(d), Settled(e),
         NEW o \in Objects, ~ Disputed(o), o \notin conflicts[d], o \notin conflicts[e], rows[d][o] # 0
  PROVE  rows[e][o] = rows[d][o]
  <1>0. Tables /\ ShownOrBuried /\ OneDeletion
    BY DEF SyncInv, ConvInv
  <1>1. PICK i \in Upserts(o) : log[i].change.ver = rows[d][o] /\ \A j \in Upserts(o) : j <= i
    BY SettledShows
  <1>2. Events(o) = Upserts(o) \cup Deletions(o) /\ Events(o) \subseteq Nat
    BY <1>0, EventFacts
  <1>3. CASE rows[e][o] # 0
    <2>1. PICK k \in Upserts(o) : log[k].change.ver = rows[e][o] /\ \A j \in Upserts(o) : j <= k
      BY <1>3, SettledShows
    <2>2. k = i
      BY <1>1, <1>2, <2>1
    <2> QED
      BY <1>1, <2>1, <2>2
  <1>4. CASE rows[e][o] = 0
    <2>1. tombs[e][o] # NoTomb /\ Deletions(o) # {}
      BY <1>1, <1>2, <1>4, SettledShows
    <2>2. tombs[d][o] = NoTomb
      BY <1>0 DEF ShownOrBuried
    <2>3. PICK k \in Upserts(o) : \A j \in Deletions(o) : j < k /\ log[j].change.ver < log[k].change.ver
      BY <2>1, <2>2, SettledShows
    <2>4. PICK j : j \in Deletions(o)
      BY <2>1
    <2>5. log[k].change.ver <= tombs[e][o].ver
      BY <2>1, <2>3, SettledShows
    <2>6. log[j].change.ver = tombs[e][o].ver
      <3>1. PICK w \in Versions :
              /\ \A x \in Devices : tombs[x][o] # NoTomb => tombs[x][o].ver = w
              /\ \A c \in Changes : Underway(c) /\ c.by # 0 /\ c.obj = o => c.ver = w
        BY <1>0 DEF OneDeletion
      <3> QED
        BY <1>0, <1>2, <2>1, <2>4, <3>1, EventFacts
    <2>7. log[k].change.ver \in Nat /\ tombs[e][o].ver \in Nat
      <3>1. log[k].change \in Changes
        BY <1>0, <1>2, EventFacts
      <3> QED
        BY <1>0, <3>1, TablesAt, SyncBounds DEF Changes, Versions
    <2> QED
      BY <2>3, <2>4, <2>5, <2>6, <2>7
  <1> QED
    BY <1>3, <1>4

\* Settled devices show the same objects: what the runs and the applies of
\* internal/sync leave behind, on any devices and after any faults, is equal,
\* but for objects in dispute.
THEOREM DevicesAgree == Spec => []SettledAgree
  <1>1. SyncInv /\ ConvInv => SettledAgree
    <2>1. SUFFICES ASSUME SyncInv, ConvInv, \A d \in Devices : Settled(d),
                          NEW d \in Devices, NEW e \in Devices, NEW o \in Objects, ~ Disputed(o),
                          o \notin conflicts[d], o \notin conflicts[e]
                   PROVE  rows[d][o] = rows[e][o]
      BY DEF SettledAgree, Agree
    <2>2. rows[d][o] # 0 => rows[e][o] = rows[d][o]
      BY <2>1, ShownEverywhere
    <2>3. rows[e][o] # 0 => rows[d][o] = rows[e][o]
      BY <2>1, ShownEverywhere
    <2> QED
      BY <2>2, <2>3
  <1> QED
    BY <1>1, SyncInvariant, ConvergenceInvariant, PTL

\* A settled device does not show an object whose deletion is newer than all its
\* upserts, in whatever order they reached the center (applyBusinessObject),
\* unless the object is in dispute.
THEOREM DeletionsHold == Spec => []DeletionHolds
  <1>1. SyncInv /\ ConvInv => DeletionHolds
    <2>1. SUFFICES ASSUME SyncInv, ConvInv, NEW d \in Devices, NEW i \in Places, Settled(d),
                          DeletesLatest(i), ~ Disputed(log[i].change.obj),
                          log[i].change.obj \notin conflicts[d], rows[d][log[i].change.obj] # 0
                   PROVE  FALSE
      BY DEF DeletionHolds, Without
    <2>2. PICK o : o = log[i].change.obj
      OBVIOUS
    <2>3. Tables /\ ShownOrBuried
      BY <2>1 DEF SyncInv, ConvInv
    <2>4. log[i].change \in Changes
      <3>1. log[i] \in Entries
        BY <2>3, ElementOfSeq DEF Tables, Places
      <3> QED
        BY <3>1 DEF Entries
    <2>5. o \in Objects /\ tombs[d][o] = NoTomb /\ i \in Deletions(o)
      BY <2>1, <2>2, <2>3, <2>4 DEF Changes, ShownOrBuried, DeletesLatest, Deletions
    <2>6. PICK k \in Upserts(o) : log[i].change.ver < log[k].change.ver
      BY <2>1, <2>2, <2>5, SettledShows
    <2>7. log[k].change.ver <= log[i].change.ver /\ log[k].change \in Changes
      <3>1. k \in Events(o) /\ k \in Places /\ log[k].change.obj = o /\ log[k].change.by = 0
        BY <2>3, EventFacts
      <3> QED
        BY <2>1, <2>2, <2>3, <3>1, EventFacts DEF DeletesLatest
    <2>8. log[k].change.ver \in Nat /\ log[i].change.ver \in Nat
      BY <2>4, <2>7, SyncBounds DEF Changes, Versions
    <2> QED
      BY <2>6, <2>7, <2>8
  <1> QED
    BY <1>1, SyncInvariant, ConvergenceInvariant, PTL
=============================================================================
