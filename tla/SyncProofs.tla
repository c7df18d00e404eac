------------------------------ MODULE SyncProofs ------------------------------
(***************************************************************************)
(* Theorems about profile sync, for every set of devices and objects and   *)
(* every bound on versions, deletions, faults and pages: no event of the   *)
(* center is passed over or applied out of order, what is marked as        *)
(* published is published, and a pull overwrites nothing that was not.     *)
(***************************************************************************)
EXTENDS SyncProperties, SequenceTheorems, FiniteSetTheorems, WellFoundedInduction, TLAPS

Keys    == {Key(c) : c \in Changes}
Entries == [dev: Devices, change: Changes]
Pending == [change: Changes, late: 0..MaxFaults]
Runs    == [pc: Stages, cursor: Nat, todo: Seq(Nat), waiting: Seq(Nat),
            progress: BOOLEAN, more: BOOLEAN, edited: SUBSET Objects]

\* The tables and the memory of the runs.
Tables ==
  /\ log \in Seq(Entries)
  /\ rows \in [Devices -> [Objects -> Versions]]
  /\ tombs \in [Devices -> [Objects -> [ver: Versions, by: 0..MaxDeletions]]]
  /\ outbox \in [Devices -> Seq(Pending)]
  /\ done \in [Devices -> SUBSET Keys]
  /\ seen \in [Devices -> SUBSET Nat]
  /\ state \in [Devices -> [cursor: Nat, replay: BOOLEAN]]
  /\ conflicts \in [Devices -> SUBSET Objects]
  /\ run \in [Devices -> Runs]
  /\ owner \in [versions: SUBSET Versions, deleted: Seq(Objects), faults: 0..MaxFaults]
  /\ Len(owner.deleted) <= MaxDeletions

\* The places a device knows are places of the log.
KnownPlaces ==
  \A d \in Devices :
    /\ state[d].cursor <= Len(log) /\ run[d].cursor <= Len(log)
    /\ seen[d] \subseteq Places
-----------------------------------------------------------------------------
\* What waits and what is still to do stand in the order of the center.
Rising(waiting, todo) ==
  /\ \A i, j \in DOMAIN waiting : i < j => waiting[i] < waiting[j]
  /\ \A i, j \in DOMAIN todo : i < j => todo[i] < todo[j]
  /\ \A i \in DOMAIN waiting, j \in DOMAIN todo : waiting[i] < todo[j]

\* The events of the page in hand: they are at or before its cursor.
InHand(r) == Range(r.waiting) \cup Range(r.todo)

\* Whatever a run has read it has in hand, unless the device has seen it.
ReadSoFar(r, known) ==
  /\ Rising(r.waiting, r.todo) /\ InHand(r) \subseteq 1..r.cursor
  /\ r.pc \in {"pull", "apply"} => 1..r.cursor \subseteq known \cup InHand(r)
  /\ r.pc \notin {"pull", "apply"} => r.waiting = <<>>
  /\ r.pc # "apply" => r.todo = <<>>

PageInHand == \A d \in Devices : ReadSoFar(run[d], seen[d])
-----------------------------------------------------------------------------
\* Between its export and its pull a device has published or queued what it
\* shows, but for what the owner changed since.
ShownIsPublished ==
  \A d \in Devices, o \in Objects :
    run[d].pc \in {"push", "pull", "apply"} /\ ~ state[d].replay
      /\ rows[d][o] # 0 /\ o \notin run[d].edited
    => Key(Upsert(o, rows[d][o])) \in done[d] \cup Queued(d)
-----------------------------------------------------------------------------
\* A product line exists under its project, and an upsert has a version.
LinesHaveProjects ==
  /\ \A d \in Devices, o \in Objects : rows[d][o] # 0 /\ Parent[o] # None => rows[d][Parent[o]] # 0
  /\ \A i \in Places : log[i].change.by = 0 => log[i].change.ver # 0

\* The project of object o is at the center.
AtCenter(o) == \E i \in Places : log[i].change.obj = o

\* The project of a queued line is at the center, or queued before the line.
ProjectsAhead ==
  \A d \in Devices : \A k \in DOMAIN outbox[d] :
    LET o == outbox[d][k].change.obj
    IN /\ outbox[d][k].change.by = 0 => outbox[d][k].change.ver # 0
       /\ outbox[d][k].change.by = 0 /\ Parent[o] # None
            => \/ AtCenter(Parent[o])
               \/ \E m \in 1..k - 1 : outbox[d][m].change.obj = Parent[o]

SyncInv == /\ Tables /\ KnownPlaces
           /\ PageInHand /\ CursorCovered /\ ObjectOrder
           /\ DonePublished /\ ShownIsPublished
           /\ LinesHaveProjects /\ ProjectsAhead
-----------------------------------------------------------------------------
(* Numbers and recursion *)

LEMMA MinOfNaturals ==
  ASSUME NEW q, q \subseteq Nat, q # {}
  PROVE  \E x \in q : \A y \in q : x <= y
  <1>1. PICK x \in q : \A y \in q : ~ (<<y, x>> \in OpToRel(<, Nat))
    BY WFMin, NatLessThanWellFounded
  <1>2. ASSUME NEW y \in q PROVE x <= y
    <2>1. x \in Nat /\ y \in Nat
      OBVIOUS
    <2>2. <<y, x>> \in Nat \X Nat /\ ~ (<<y, x>> \in {ss \in Nat \X Nat : ss[1] < ss[2]})
      BY <1>1, <2>1 DEF OpToRel
    <2>3. ~ (y < x)
      BY <2>2
    <2> QED
      BY <2>1, <2>3
  <1> QED
    BY <1>2

\* Induction, for a set in the place of a predicate.
LEMMA Induction ==
  ASSUME NEW q, 0 \in q, \A n \in Nat : n \in q => n + 1 \in q
  PROVE  \A n \in Nat : n \in q
  <1>1. SUFFICES ASSUME NEW n \in Nat, n \notin q PROVE FALSE
    OBVIOUS
  <1> DEFINE r == {m \in Nat : m \notin q}
  <1>2. PICK m \in r : \A k \in r : m <= k
    BY <1>1, MinOfNaturals
  <1>3. m - 1 \in Nat /\ m - 1 \notin r
    BY <1>2
  <1>4. m - 1 \in q /\ (m - 1) + 1 = m
    BY <1>3
  <1> QED
    BY <1>2, <1>3, <1>4

\* f collects the elements of s at the places in q.
Collects(s, q, n, f) ==
  f = [i \in 0..n |-> IF i = 0 THEN <<>>
                      ELSE IF i \in q THEN Append(f[i - 1], s[i]) ELSE f[i - 1]]

LEMMA CollectsExists ==
  ASSUME NEW s, NEW q
  PROVE  \A n \in Nat : \E f : Collects(s, q, n, f)
  <1> DEFINE good == {n \in Nat : \E f : Collects(s, q, n, f)}
  <1>1. 0 \in good
    <2> DEFINE g == [i \in 0..0 |-> <<>>]
    <2>1. g = [i \in 0..0 |-> IF i = 0 THEN <<>>
                              ELSE IF i \in q THEN Append(g[i - 1], s[i]) ELSE g[i - 1]]
      OBVIOUS
    <2>2. Collects(s, q, 0, g)
      BY <2>1 DEF Collects
    <2> QED
      BY <2>2
  <1>2. ASSUME NEW n \in Nat, n \in good PROVE n + 1 \in good
    <2>1. PICK f : Collects(s, q, n, f)
      BY <1>2
    <2> DEFINE g == [i \in 0..n + 1 |-> IF i <= n THEN f[i]
                                        ELSE IF n + 1 \in q THEN Append(f[n], s[n + 1]) ELSE f[n]]
               h == [i \in 0..n + 1 |-> IF i = 0 THEN <<>>
                       ELSE IF i \in q THEN Append(g[i - 1], s[i]) ELSE g[i - 1]]
    <2>2. ASSUME NEW i \in 0..n + 1 PROVE g[i] = h[i]
      <3>1. CASE i <= n
        <4>0. i \in 0..n
          BY <3>1
        <4>1. f[i] = IF i = 0 THEN <<>> ELSE IF i \in q THEN Append(f[i - 1], s[i]) ELSE f[i - 1]
          BY <2>1, <4>0 DEF Collects
        <4>2. i # 0 => i - 1 \in 0..n + 1 /\ g[i - 1] = f[i - 1]
          BY <3>1
        <4> QED
          BY <3>1, <4>1, <4>2
      <3>2. CASE i = n + 1
        <4>1. g[n] = f[n] /\ i # 0 /\ i - 1 = n
          BY <3>2
        <4> QED
          BY <3>2, <4>1
      <3> QED
        BY <3>1, <3>2
    <2>3. g = h
      BY <2>2
    <2> HIDE DEF g
    <2>4. Collects(s, q, n + 1, g)
      BY <2>3 DEF Collects
    <2> QED
      BY <2>4
  <1> HIDE DEF good
  <1>3. \A n \in Nat : n \in good
    BY <1>1, <1>2, Induction
  <1> QED
    BY <1>3 DEF good

\* Sequence t has the elements of s at the places in q up to n; at names them.
Picks(t, s, q, n, at) ==
  /\ at \in [1..Len(t) -> 1..n]
  /\ \A i \in 1..Len(t) : at[i] \in q /\ t[i] = s[at[i]]
  /\ \A i, j \in 1..Len(t) : i < j => at[i] < at[j]
  /\ \A k \in 1..n : k \in q => \E i \in 1..Len(t) : at[i] = k

\* What Only returns: the elements at the places, all of them, in their order.
LEMMA OnlyFacts ==
  ASSUME NEW S, NEW s \in Seq(S), NEW q
  PROVE  Only(s, q) \in Seq(S) /\ \E at : Picks(Only(s, q), s, q, Len(s), at)
  <1> DEFINE N == Len(s)
             kept == CHOOSE f : Collects(s, q, N, f)
  <1>0. N \in Nat /\ DOMAIN s = 1..N /\ \A i \in 1..N : s[i] \in S
    BY LenProperties, ElementOfSeq
  <1>1. Only(s, q) = kept[N]
    BY DEF Only, Collects
  <1>2. Collects(s, q, N, kept)
    BY <1>0, CollectsExists
  <1> HIDE DEF kept
  <1>3. kept[0] = <<>>
    BY <1>0, <1>2 DEF Collects
  <1>4. ASSUME NEW n \in Nat, n + 1 <= N
        PROVE  kept[n + 1] = IF n + 1 \in q THEN Append(kept[n], s[n + 1]) ELSE kept[n]
    <2>1. n + 1 \in 0..N /\ n + 1 # 0 /\ (n + 1) - 1 = n
      BY <1>0, <1>4
    <2> QED
      BY <1>2, <2>1 DEF Collects
  <1> DEFINE Good(n) == kept[n] \in Seq(S) /\ \E at : Picks(kept[n], s, q, n, at)
             good == {n \in Nat : n <= N => Good(n)}
  <1>5. 0 \in good
    <2>1. Len(kept[0]) = 0 /\ kept[0] \in Seq(S)
      BY <1>3
    <2> DEFINE at == [i \in {} |-> 0]
    <2>2. Picks(kept[0], s, q, 0, at)
      BY <2>1 DEF Picks
    <2> QED
      BY <2>1, <2>2
  <1>6. ASSUME NEW n \in Nat, n \in good PROVE n + 1 \in good
    <2> SUFFICES ASSUME n + 1 <= N PROVE Good(n + 1)
      OBVIOUS
    <2>1. PICK at : Picks(kept[n], s, q, n, at)
      BY <1>0, <1>6
    <2>2. kept[n] \in Seq(S)
      BY <1>0, <1>6
    <2> DEFINE m == Len(kept[n])
    <2>3. m \in Nat
      BY <2>2
    <2>4. CASE n + 1 \in q
      <3>1. kept[n + 1] = Append(kept[n], s[n + 1]) /\ s[n + 1] \in S
        <4>1. n + 1 \in 1..N
          BY <1>0
        <4> QED
          BY <1>0, <1>4, <2>4, <4>1
      <3>2. /\ kept[n + 1] \in Seq(S) /\ Len(kept[n + 1]) = m + 1
            /\ \A i \in 1..m : kept[n + 1][i] = kept[n][i]
            /\ kept[n + 1][m + 1] = s[n + 1]
        BY <2>2, <2>3, <3>1
      <3> DEFINE up == [i \in 1..m + 1 |-> IF i <= m THEN at[i] ELSE n + 1]
      <3>3. up[m + 1] = n + 1 /\ \A i \in 1..m : up[i] = at[i]
        BY <2>3
      <3>4. \A i \in 1..m : at[i] \in 1..n
        BY <2>1 DEF Picks
      <3>5. up \in [1..m + 1 -> 1..n + 1]
        BY <2>3, <3>4
      <3> HIDE DEF up
      <3>6. ASSUME NEW i \in 1..m + 1 PROVE up[i] \in q /\ kept[n + 1][i] = s[up[i]]
        <4>1. CASE i \in 1..m
          BY <2>1, <3>2, <3>3, <4>1 DEF Picks
        <4>2. CASE i = m + 1
          BY <2>4, <3>2, <3>3, <4>2
        <4> QED
          BY <2>3, <4>1, <4>2
      <3>7. ASSUME NEW i \in 1..m + 1, NEW j \in 1..m + 1, i < j PROVE up[i] < up[j]
        <4>1. CASE j \in 1..m
          BY <2>1, <2>3, <3>3, <3>7, <4>1 DEF Picks
        <4>2. CASE j = m + 1
          BY <2>3, <3>3, <3>4, <3>7, <4>2
        <4> QED
          BY <2>3, <4>1, <4>2
      <3>8. ASSUME NEW k \in 1..n + 1, k \in q PROVE \E i \in 1..m + 1 : up[i] = k
        <4>1. CASE k \in 1..n
          BY <2>1, <2>3, <3>3, <3>8, <4>1 DEF Picks
        <4>2. CASE k = n + 1
          BY <2>3, <3>3, <4>2
        <4> QED
          BY <4>1, <4>2
      <3>9. Picks(kept[n + 1], s, q, n + 1, up)
        BY <3>2, <3>5, <3>6, <3>7, <3>8 DEF Picks
      <3> QED
        BY <3>2, <3>9
    <2>5. CASE n + 1 \notin q
      <3>1. kept[n + 1] = kept[n]
        BY <1>4, <2>5
      <3>2. at \in [1..m -> 1..n + 1]
        BY <2>1 DEF Picks
      <3>3. Picks(kept[n + 1], s, q, n + 1, at)
        BY <2>1, <2>5, <3>1, <3>2 DEF Picks
      <3> QED
        BY <2>2, <3>1, <3>3
    <2> QED
      BY <2>4, <2>5
  <1> HIDE DEF good
  <1>7. N \in good
    BY <1>0, <1>5, <1>6, Induction
  <1> QED
    BY <1>0, <1>1, <1>7 DEF good
-----------------------------------------------------------------------------
(* What the center does with a batch *)

\* f takes the changes of device d one by one.
Stores(d, changes, n, f) ==
  f = [i \in 0..n |-> IF i = 0 THEN log ELSE CenterPush(f[i - 1], d, changes[i])]

LEMMA StoresExists ==
  ASSUME NEW d, NEW changes
  PROVE  \A n \in Nat : \E f : Stores(d, changes, n, f)
  <1> DEFINE good == {n \in Nat : \E f : Stores(d, changes, n, f)}
  <1>1. 0 \in good
    <2> DEFINE g == [i \in 0..0 |-> log]
    <2>1. g = [i \in 0..0 |-> IF i = 0 THEN log ELSE CenterPush(g[i - 1], d, changes[i])]
      OBVIOUS
    <2>2. Stores(d, changes, 0, g)
      BY <2>1 DEF Stores
    <2> QED
      BY <2>2
  <1>2. ASSUME NEW n \in Nat, n \in good PROVE n + 1 \in good
    <2>1. PICK f : Stores(d, changes, n, f)
      BY <1>2
    <2> DEFINE g == [i \in 0..n + 1 |-> IF i <= n THEN f[i]
                                        ELSE CenterPush(f[n], d, changes[n + 1])]
               h == [i \in 0..n + 1 |-> IF i = 0 THEN log
                                        ELSE CenterPush(g[i - 1], d, changes[i])]
    <2>2. ASSUME NEW i \in 0..n + 1 PROVE g[i] = h[i]
      <3>1. CASE i <= n
        <4>0. i \in 0..n
          BY <3>1
        <4>1. f[i] = IF i = 0 THEN log ELSE CenterPush(f[i - 1], d, changes[i])
          BY <2>1, <4>0 DEF Stores
        <4>2. i # 0 => i - 1 \in 0..n + 1 /\ g[i - 1] = f[i - 1]
          BY <3>1
        <4> QED
          BY <3>1, <4>1, <4>2
      <3>2. CASE i = n + 1
        <4>1. g[n] = f[n] /\ i # 0 /\ i - 1 = n
          BY <3>2
        <4> QED
          BY <3>2, <4>1
      <3> QED
        BY <3>1, <3>2
    <2>3. g = h
      BY <2>2
    <2> HIDE DEF g
    <2>4. Stores(d, changes, n + 1, g)
      BY <2>3 DEF Stores
    <2> QED
      BY <2>4
  <1> HIDE DEF good
  <1>3. \A n \in Nat : n \in good
    BY <1>1, <1>2, Induction
  <1> QED
    BY <1>3 DEF good

\* The center's log has become L by the first n changes of device d: nothing is
\* moved, every change is there, and the new events are changes of d, each
\* behind the changes that came before it.
Pushed(L, d, changes, n) ==
  /\ L \in Seq(Entries) /\ Len(log) <= Len(L)
  /\ \A p \in 1..Len(log) : L[p] = log[p]
  /\ \A i \in 1..n : \E p \in 1..Len(L) : Key(L[p].change) = Key(changes[i])
  /\ \A p \in 1..Len(L) : p > Len(log) =>
       /\ L[p].dev = d
       /\ \E i \in 1..n : /\ L[p].change = changes[i]
                          /\ \A j \in 1..i - 1 : \E m \in 1..p - 1 :
                               Key(L[m].change) = Key(changes[j])

LEMMA PushFacts ==
  ASSUME log \in Seq(Entries), NEW d \in Devices, NEW changes \in Seq(Changes)
  PROVE  Pushed(CenterPushAll(d, changes), d, changes, Len(changes))
  <1> DEFINE N == Len(changes)
             stored == CHOOSE f : Stores(d, changes, N, f)
  <1>0. N \in Nat /\ DOMAIN changes = 1..N /\ \A i \in 1..N : changes[i] \in Changes
    BY LenProperties, ElementOfSeq
  <1>1. CenterPushAll(d, changes) = stored[N]
    BY DEF CenterPushAll, Stores
  <1>2. Stores(d, changes, N, stored)
    BY <1>0, StoresExists
  <1> HIDE DEF stored
  <1>3. stored[0] = log
    BY <1>0, <1>2 DEF Stores
  <1>4. ASSUME NEW n \in Nat, n + 1 <= N
        PROVE  stored[n + 1] = CenterPush(stored[n], d, changes[n + 1])
    <2>1. n + 1 \in 0..N /\ n + 1 # 0 /\ (n + 1) - 1 = n
      BY <1>0, <1>4
    <2> QED
      BY <1>2, <2>1 DEF Stores
  <1> DEFINE good == {n \in Nat : n <= N => Pushed(stored[n], d, changes, n)}
  <1>5. 0 \in good
    <2>1. Pushed(log, d, changes, 0)
      BY DEF Pushed
    <2> QED
      BY <1>3, <2>1
  <1>6. ASSUME NEW n \in Nat, n \in good PROVE n + 1 \in good
    <2> SUFFICES ASSUME n + 1 <= N PROVE Pushed(stored[n + 1], d, changes, n + 1)
      OBVIOUS
    <2>1. Pushed(stored[n], d, changes, n)
      BY <1>0, <1>6
    <2> DEFINE L == stored[n]
               c == changes[n + 1]
               L1 == stored[n + 1]
    <2>2. c \in Changes
      BY <1>0
    <2>3. L1 = CenterPush(L, d, c)
      BY <1>4
    <2>4. L \in Seq(Entries) /\ Len(L) \in Nat /\ DOMAIN L = 1..Len(L) /\ Len(log) \in Nat
          /\ Len(log) <= Len(L)
      BY <2>1, LenProperties DEF Pushed
    <2> HIDE DEF L, L1
    <2>5. CASE \E i \in DOMAIN L : L[i].dev = d /\ Key(L[i].change) = Key(c)
      <3>1. L1 = L
        BY <2>3, <2>5 DEF CenterPush
      <3>2. \A i \in 1..n + 1 : \E p \in 1..Len(L) : Key(L[p].change) = Key(changes[i])
        <4>1. ASSUME NEW i \in 1..n PROVE \E p \in 1..Len(L) : Key(L[p].change) = Key(changes[i])
          BY <2>1 DEF Pushed, L
        <4>2. \E p \in 1..Len(L) : Key(L[p].change) = Key(changes[n + 1])
          BY <2>4, <2>5
        <4>3. \A i \in 1..n + 1 : i \in 1..n \/ i = n + 1
          OBVIOUS
        <4> QED
          BY <4>1, <4>2, <4>3
      <3> HIDE DEF c
      <3>3. Pushed(L, d, changes, n + 1)
        <4>1. \A i \in 1..n : i \in 1..n + 1
          OBVIOUS
        <4> QED
          BY <2>1, <3>2, <4>1 DEF Pushed, L
      <3> QED
        BY <3>1, <3>3 DEF L1
    <2>6. CASE ~ \E i \in DOMAIN L : L[i].dev = d /\ Key(L[i].change) = Key(c)
      <3> DEFINE e == [dev |-> d, change |-> c]
      <3>1. L1 = Append(L, e) /\ e \in Entries
        BY <2>2, <2>3, <2>6 DEF CenterPush, Entries
      <3> DEFINE N1 == Len(L)
      <3>2. /\ L1 \in Seq(Entries) /\ Len(L1) = N1 + 1 /\ L1[N1 + 1] = e
            /\ \A p \in 1..N1 : L1[p] = L[p]
        BY <2>4, <3>1
      <3>3. e.dev = d /\ e.change = c
        OBVIOUS
      <3> HIDE DEF e, c
      <3>4. \A p \in 1..Len(log) : L1[p] = log[p]
        BY <2>1, <2>4, <3>2 DEF Pushed, L
      <3>5. \A i \in 1..n : \E p \in 1..N1 : Key(L1[p].change) = Key(changes[i])
        BY <2>1, <2>4, <3>2 DEF Pushed, L
      <3>6. ASSUME NEW i \in 1..n + 1
            PROVE  \E p \in 1..N1 + 1 : Key(L1[p].change) = Key(changes[i])
        <4>1. CASE i \in 1..n
          BY <2>4, <3>5, <4>1
        <4>2. CASE i = n + 1
          BY <2>4, <3>2, <3>3, <4>2 DEF c
        <4> QED
          BY <4>1, <4>2
      <3>7. ASSUME NEW p \in 1..N1 + 1, p > Len(log)
            PROVE  /\ L1[p].dev = d
                   /\ \E i \in 1..n + 1 : /\ L1[p].change = changes[i]
                                          /\ \A j \in 1..i - 1 : \E m \in 1..p - 1 :
                                               Key(L1[m].change) = Key(changes[j])
        <4>1. CASE p \in 1..N1
          <5>1. L[p].dev = d
            BY <2>1, <2>4, <3>7, <4>1 DEF Pushed, L
          <5>2. PICK i \in 1..n : /\ L[p].change = changes[i]
                                  /\ \A j \in 1..i - 1 : \E m \in 1..p - 1 :
                                       Key(L[m].change) = Key(changes[j])
            BY <2>1, <2>4, <3>7, <4>1 DEF Pushed, L
          <5>3. \A m \in 1..p - 1 : L1[m] = L[m]
            BY <2>4, <3>2, <4>1
          <5>4. \A j \in 1..i - 1 : \E m \in 1..p - 1 : Key(L1[m].change) = Key(changes[j])
            BY <5>2, <5>3
          <5>5. i \in 1..n + 1 /\ L1[p].change = changes[i] /\ L1[p].dev = d
            BY <3>2, <4>1, <5>1, <5>2
          <5> QED
            BY <5>4, <5>5
        <4>2. CASE p = N1 + 1
          <5>1. L1[p].dev = d /\ L1[p].change = changes[n + 1]
            BY <3>2, <3>3, <4>2 DEF c
          <5>2. \A j \in 1..(n + 1) - 1 : \E m \in 1..p - 1 : Key(L1[m].change) = Key(changes[j])
            BY <2>4, <3>5, <4>2
          <5>3. n + 1 \in 1..n + 1
            OBVIOUS
          <5> QED
            BY <5>1, <5>2, <5>3
        <4> QED
          BY <2>4, <4>1, <4>2
      <3>8. Pushed(L1, d, changes, n + 1)
        BY <2>4, <3>2, <3>4, <3>6, <3>7 DEF Pushed
      <3> QED
        BY <3>8 DEF L1
    <2> QED
      BY <2>5, <2>6
  <1> HIDE DEF good
  <1>7. N \in good
    BY <1>0, <1>5, <1>6, Induction
  <1> QED
    BY <1>0, <1>1, <1>7 DEF good
-----------------------------------------------------------------------------
(* What a run exports, and what it sends *)

LEMMA OnlyContents ==
  ASSUME NEW S, NEW s \in Seq(S), NEW q
  PROVE  /\ Only(s, q) \in Seq(S)
         /\ \A k \in 1..Len(s) : k \in q => \E i \in 1..Len(Only(s, q)) : Only(s, q)[i] = s[k]
         /\ \A i \in 1..Len(Only(s, q)) : \E k \in 1..Len(s) :
              /\ k \in q /\ Only(s, q)[i] = s[k]
              /\ \A m \in 1..k - 1 : m \in q => \E j \in 1..i - 1 : Only(s, q)[j] = s[m]
  <1> DEFINE t == Only(s, q)
  <1>1. t \in Seq(S)
    BY OnlyFacts
  <1>2. PICK at : Picks(t, s, q, Len(s), at)
    BY OnlyFacts
  <1>3. Len(t) \in Nat /\ Len(s) \in Nat
    BY <1>1
  <1> HIDE DEF t
  <1>4. \A k \in 1..Len(s) : k \in q => \E i \in 1..Len(t) : t[i] = s[k]
    BY <1>2 DEF Picks
  <1>5. ASSUME NEW i \in 1..Len(t)
        PROVE  \E k \in 1..Len(s) :
                 /\ k \in q /\ t[i] = s[k]
                 /\ \A m \in 1..k - 1 : m \in q => \E j \in 1..i - 1 : t[j] = s[m]
    <2>1. at[i] \in 1..Len(s) /\ at[i] \in q /\ t[i] = s[at[i]]
      BY <1>2 DEF Picks
    <2>2. ASSUME NEW m \in 1..at[i] - 1, m \in q PROVE \E j \in 1..i - 1 : t[j] = s[m]
      <3>1. m \in 1..Len(s)
        BY <1>3, <2>1
      <3>2. PICK j \in 1..Len(t) : at[j] = m
        BY <1>2, <2>2, <3>1 DEF Picks
      <3>3. ~ (i < j) /\ i # j
        BY <1>2, <2>1, <3>2 DEF Picks
      <3>4. j \in 1..i - 1
        BY <1>3, <3>3
      <3>5. t[j] = s[m]
        BY <1>2, <3>2 DEF Picks
      <3> QED
        BY <3>4, <3>5
    <2> QED
      BY <2>1, <2>2
  <1> QED
    BY <1>1, <1>4, <1>5 DEF t

LEMMA KeyFacts ==
  ASSUME NEW b \in Changes, NEW c \in Changes, Key(b) = Key(c)
  PROVE  b.obj = c.obj
  BY DEF Key

LEMMA UpsertType ==
  ASSUME NEW o \in Objects, NEW v \in Versions
  PROVE  /\ Upsert(o, v) \in Changes /\ Upsert(o, v).by = 0
         /\ Upsert(o, v).obj = o /\ Upsert(o, v).ver = v
  <1>1. 0 \in 0..MaxDeletions
    BY SyncBounds
  <1> QED
    BY <1>1 DEF Upsert, Changes

LEMMA DeletionType ==
  ASSUME NEW o \in Objects, NEW tb \in [ver: Versions, by: 0..MaxDeletions]
  PROVE  Deletion(o, tb) \in Changes /\ Deletion(o, tb).by = tb.by
  BY DEF Deletion, Changes

\* A project has no parent of its own, and comes before its lines.
LEMMA ParentFacts ==
  ASSUME NEW o \in Objects, Parent[o] # None
  PROVE  Parent[o] \in Objects /\ Parent[Parent[o]] = None
  BY ParentAssumption

LEMMA OrderFacts ==
  /\ Len(Order) \in Nat /\ DOMAIN Order = 1..Len(Order)
  /\ \A i \in 1..Len(Order) : Order[i] \in Objects
  /\ \A o \in Objects : \E i \in 1..Len(Order) : Order[i] = o
  /\ \A i, j \in 1..Len(Order) : Parent[Order[i]] = Order[j] => j < i
  <1>1. Order \in Seq(Objects)
    BY OrderAssumption
  <1>2. Len(Order) \in Nat /\ DOMAIN Order = 1..Len(Order)
        /\ \A i \in 1..Len(Order) : Order[i] \in Objects
    BY <1>1, LenProperties, ElementOfSeq
  <1>3. \A o \in Objects : \E i \in 1..Len(Order) : Order[i] = o
    BY <1>2 DEF Objects, Range
  <1> QED
    BY <1>2, <1>3, OrderAssumption

LEMMA SnapshotFacts ==
  ASSUME Tables, LinesHaveProjects, NEW d \in Devices
  PROVE  /\ Snapshot(d) \in Seq(Changes)
         /\ \A o \in Objects : rows[d][o] # 0 =>
              \E i \in 1..Len(Snapshot(d)) : Snapshot(d)[i] = Upsert(o, rows[d][o])
         /\ \A i \in 1..Len(Snapshot(d)) : Snapshot(d)[i].by = 0 =>
              /\ Snapshot(d)[i].ver # 0
              /\ LET p == Parent[Snapshot(d)[i].obj]
                 IN p # None => \E j \in 1..i - 1 : Snapshot(d)[j] = Upsert(p, rows[d][p])
  <1> DEFINE N == Len(Order)
             ups == [i \in DOMAIN Order |-> Upsert(Order[i], rows[d][Order[i]])]
             dels == [i \in DOMAIN Order |-> Deletion(Order[i], tombs[d][Order[i]])]
             shown == {i \in DOMAIN Order : rows[d][Order[i]] # 0}
             buried == {i \in DOMAIN Order : tombs[d][Order[i]].by # 0}
             u == Only(ups, shown)
             v == Only(dels, buried)
  <1>1. Snapshot(d) = u \o v
    BY DEF Snapshot
  <1>2. /\ \A o \in Objects : rows[d][o] \in Versions
        /\ \A o \in Objects : tombs[d][o] \in [ver: Versions, by: 0..MaxDeletions]
    BY DEF Tables
  <1>3. ups \in Seq(Changes) /\ Len(ups) = N /\ \A i \in 1..N : ups[i] = Upsert(Order[i], rows[d][Order[i]])
    <2>1. \A i \in 1..N : Upsert(Order[i], rows[d][Order[i]]) \in Changes
      BY <1>2, OrderFacts, UpsertType
    <2> QED
      BY <2>1, OrderFacts
  <1>4. dels \in Seq(Changes) /\ Len(dels) = N /\ \A i \in 1..N : dels[i] = Deletion(Order[i], tombs[d][Order[i]])
    <2>1. \A i \in 1..N : Deletion(Order[i], tombs[d][Order[i]]) \in Changes
      BY <1>2, OrderFacts, DeletionType
    <2> QED
      BY <2>1, OrderFacts
  <1>5. \A i \in 1..N : /\ i \in shown <=> rows[d][Order[i]] # 0
                        /\ i \in buried <=> tombs[d][Order[i]].by # 0
    BY OrderFacts
  <1> HIDE DEF ups, dels, shown, buried
  <1>6. /\ u \in Seq(Changes)
        /\ \A k \in 1..N : k \in shown => \E i \in 1..Len(u) : u[i] = ups[k]
        /\ \A i \in 1..Len(u) : \E k \in 1..N :
              /\ k \in shown /\ u[i] = ups[k]
              /\ \A m \in 1..k - 1 : m \in shown => \E j \in 1..i - 1 : u[j] = ups[m]
    <2>1. Len(ups) = N /\ ups \in Seq(Changes)
      BY <1>3
    <2>2. /\ u \in Seq(Changes)
          /\ \A k \in 1..Len(ups) : k \in shown => \E i \in 1..Len(u) : u[i] = ups[k]
          /\ \A i \in 1..Len(u) : \E k \in 1..Len(ups) :
                /\ k \in shown /\ u[i] = ups[k]
                /\ \A m \in 1..k - 1 : m \in shown => \E j \in 1..i - 1 : u[j] = ups[m]
      BY <2>1, OnlyContents
    <2> HIDE DEF u, N
    <2> QED
      BY <2>1, <2>2
  <1>7. /\ v \in Seq(Changes)
        /\ \A i \in 1..Len(v) : \E k \in 1..N : k \in buried /\ v[i] = dels[k]
    BY <1>4, OnlyContents
  <1> HIDE DEF u, v
  <1> DEFINE all == u \o v
  <1>8. /\ all \in Seq(Changes) /\ Len(u) \in Nat /\ Len(v) \in Nat /\ Len(all) = Len(u) + Len(v)
        /\ \A i \in 1..Len(u) : all[i] = u[i]
        /\ \A i \in 1..Len(v) : all[Len(u) + i] = v[i]
    BY <1>6, <1>7
  <1>9. \A i \in 1..Len(all) : i \in 1..Len(u) \/ \E k \in 1..Len(v) : i = Len(u) + k
    <2>1. SUFFICES ASSUME NEW i \in 1..Len(all), i \notin 1..Len(u)
                   PROVE  \E k \in 1..Len(v) : i = Len(u) + k
      OBVIOUS
    <2>2. i - Len(u) \in 1..Len(v) /\ i = Len(u) + (i - Len(u))
      BY <1>8, <2>1
    <2> QED
      BY <2>2
  <1> HIDE DEF all
  <1>10. ASSUME NEW o \in Objects, rows[d][o] # 0
         PROVE  \E i \in 1..Len(all) : all[i] = Upsert(o, rows[d][o])
    <2>1. PICK k \in 1..N : Order[k] = o
      BY OrderFacts
    <2>2. PICK i \in 1..Len(u) : u[i] = ups[k]
      BY <1>5, <1>6, <1>10, <2>1
    <2>3. i \in 1..Len(all) /\ all[i] = Upsert(o, rows[d][o])
      BY <1>3, <1>8, <2>1, <2>2
    <2> QED
      BY <2>3
  <1>11. ASSUME NEW i \in 1..Len(all), all[i].by = 0
         PROVE  /\ all[i].ver # 0
                /\ LET p == Parent[all[i].obj]
                   IN p # None => \E j \in 1..i - 1 : all[j] = Upsert(p, rows[d][p])
    <2>1. i \in 1..Len(u)
      <3>1. SUFFICES ASSUME NEW k \in 1..Len(v), i = Len(u) + k PROVE FALSE
        BY <1>9
      <3>2. PICK m \in 1..N : m \in buried /\ v[k] = dels[m]
        BY <1>7
      <3>3. all[i].by # 0
        <4>1. all[i] = Deletion(Order[m], tombs[d][Order[m]])
          BY <1>4, <1>8, <3>1, <3>2
        <4>2. Order[m] \in Objects /\ tombs[d][Order[m]].by # 0
          BY <1>5, <3>2, OrderFacts
        <4> QED
          BY <1>2, <4>1, <4>2, DeletionType
      <3> QED
        BY <1>11, <3>3
    <2>2. PICK k \in 1..N :
              /\ k \in shown /\ u[i] = ups[k]
              /\ \A m \in 1..k - 1 : m \in shown => \E j \in 1..i - 1 : u[j] = ups[m]
      BY <1>6, <2>1
    <2> DEFINE o == Order[k]
    <2>3. /\ o \in Objects /\ rows[d][o] # 0 /\ all[i] = Upsert(o, rows[d][o])
          /\ all[i].obj = o /\ all[i].ver # 0
      BY <1>2, <1>3, <1>5, <1>8, <2>1, <2>2, OrderFacts, UpsertType
    <2>4. ASSUME Parent[o] # None
          PROVE  \E j \in 1..i - 1 : all[j] = Upsert(Parent[o], rows[d][Parent[o]])
      <3>1. Parent[o] \in Objects /\ rows[d][Parent[o]] # 0
        BY <2>3, <2>4, ParentFacts DEF LinesHaveProjects
      <3>2. PICK m \in 1..N : Order[m] = Parent[o]
        BY <3>1, OrderFacts
      <3>3. m \in 1..k - 1
        BY <3>2, OrderFacts
      <3>4. PICK j \in 1..i - 1 : u[j] = ups[m]
        BY <1>5, <2>2, <3>1, <3>2, <3>3
      <3>5. j \in 1..Len(u)
        BY <1>8, <2>1
      <3>6. all[j] = Upsert(Parent[o], rows[d][Parent[o]])
        BY <1>3, <1>8, <3>2, <3>4, <3>5
      <3> QED
        BY <3>6
    <2> QED
      BY <2>3, <2>4
  <1>12. Snapshot(d) = all
    BY <1>1 DEF all
  <1> QED
    BY <1>8, <1>10, <1>11, <1>12
-----------------------------------------------------------------------------
\* What is not published and not queued is exported, the project first.
LEMMA ToExportFacts ==
  ASSUME Tables, LinesHaveProjects, NEW d \in Devices
  PROVE  /\ ToExport(d) \in Seq(Changes)
         /\ \A o \in Objects : rows[d][o] # 0 =>
              \/ Key(Upsert(o, rows[d][o])) \in done[d] \cup Queued(d)
              \/ \E i \in 1..Len(ToExport(d)) : ToExport(d)[i] = Upsert(o, rows[d][o])
         /\ \A i \in 1..Len(ToExport(d)) : ToExport(d)[i].by = 0 =>
              /\ ToExport(d)[i].ver # 0
              /\ LET p == Parent[ToExport(d)[i].obj]
                 IN p # None =>
                      \/ Key(Upsert(p, rows[d][p])) \in done[d] \cup Queued(d)
                      \/ \E j \in 1..i - 1 : ToExport(d)[j] = Upsert(p, rows[d][p])
  <1> DEFINE all == Snapshot(d)
             known == done[d] \cup Queued(d)
             new == {i \in DOMAIN all : Key(all[i]) \notin known}
             t == Only(all, new)
  <1>1. ToExport(d) = t
    BY DEF ToExport
  <1>2. /\ all \in Seq(Changes)
        /\ \A o \in Objects : rows[d][o] # 0 => \E i \in 1..Len(all) : all[i] = Upsert(o, rows[d][o])
        /\ \A i \in 1..Len(all) : all[i].by = 0 =>
             /\ all[i].ver # 0
             /\ LET p == Parent[all[i].obj]
                IN p # None => \E j \in 1..i - 1 : all[j] = Upsert(p, rows[d][p])
    BY SnapshotFacts
  <1> HIDE DEF all, known
  <1>3. Len(all) \in Nat /\ \A i \in 1..Len(all) : i \in new <=> Key(all[i]) \notin known
    BY <1>2, LenProperties
  <1> HIDE DEF new
  <1>4. /\ t \in Seq(Changes)
        /\ \A k \in 1..Len(all) : k \in new => \E i \in 1..Len(t) : t[i] = all[k]
        /\ \A i \in 1..Len(t) : \E k \in 1..Len(all) :
              /\ k \in new /\ t[i] = all[k]
              /\ \A m \in 1..k - 1 : m \in new => \E j \in 1..i - 1 : t[j] = all[m]
    BY <1>2, OnlyContents
  <1> HIDE DEF t
  <1>5. ASSUME NEW o \in Objects, rows[d][o] # 0, Key(Upsert(o, rows[d][o])) \notin known
        PROVE  \E i \in 1..Len(t) : t[i] = Upsert(o, rows[d][o])
    <2>1. PICK k \in 1..Len(all) : all[k] = Upsert(o, rows[d][o])
      BY <1>2, <1>5
    <2> QED
      BY <1>3, <1>4, <1>5, <2>1
  <1>6. ASSUME NEW i \in 1..Len(t), t[i].by = 0
        PROVE  /\ t[i].ver # 0
               /\ LET p == Parent[t[i].obj]
                  IN p # None => \/ Key(Upsert(p, rows[d][p])) \in known
                                 \/ \E j \in 1..i - 1 : t[j] = Upsert(p, rows[d][p])
    <2>1. PICK k \in 1..Len(all) :
              /\ k \in new /\ t[i] = all[k]
              /\ \A m \in 1..k - 1 : m \in new => \E j \in 1..i - 1 : t[j] = all[m]
      BY <1>4
    <2>2. t[i].ver # 0
      BY <1>2, <1>6, <2>1
    <2> DEFINE p == Parent[t[i].obj]
    <2>3. ASSUME p # None, Key(Upsert(p, rows[d][p])) \notin known
          PROVE  \E j \in 1..i - 1 : t[j] = Upsert(p, rows[d][p])
      <3>1. PICK m \in 1..k - 1 : all[m] = Upsert(p, rows[d][p])
        BY <1>2, <1>6, <2>1, <2>3
      <3>2. m \in 1..Len(all)
        BY <1>3
      <3>3. m \in new
        BY <1>3, <2>3, <3>1, <3>2
      <3> QED
        BY <2>1, <3>1, <3>3
    <2> QED
      BY <2>2, <2>3
  <1> QED
    BY <1>1, <1>4, <1>5, <1>6 DEF known

\* The batch of a push: rows that are due, none before those that are queued
\* before it.
LEMMA BatchFacts ==
  ASSUME Tables, NEW d \in Devices
  PROVE  /\ Batch(d) \in Seq(Changes)
         /\ Sent(d) = {Key(Batch(d)[i]) : i \in 1..Len(Batch(d))}
         /\ \A x \in 1..Len(Batch(d)) : \E k \in 1..Len(outbox[d]) :
              /\ Batch(d)[x] = outbox[d][k].change
              /\ \A m \in 1..k - 1 : outbox[d][m].late = 0 =>
                   \E y \in 1..x - 1 : Batch(d)[y] = outbox[d][m].change
  <1> DEFINE s == outbox[d]
             q == {i \in DOMAIN s : s[i].late = 0}
             t == Only(s, q)
             n == IF Len(t) > PageSize THEN PageSize ELSE Len(t)
  <1>1. s \in Seq(Pending)
    BY DEF Tables
  <1>2. Due(d) = SubSeq(t, 1, n)
    BY DEF Due
  <1>3. Len(s) \in Nat /\ \A i \in 1..Len(s) : i \in q <=> s[i].late = 0
    BY <1>1, LenProperties
  <1> HIDE DEF s, q
  <1>4. /\ t \in Seq(Pending)
        /\ \A i \in 1..Len(t) : \E k \in 1..Len(s) :
              /\ k \in q /\ t[i] = s[k]
              /\ \A m \in 1..k - 1 : m \in q => \E j \in 1..i - 1 : t[j] = s[m]
    BY <1>1, OnlyContents
  <1> HIDE DEF t
  <1>5. n \in 0..Len(t) /\ Len(t) \in Nat
    BY <1>4, SyncBounds
  <1> HIDE DEF n
  <1>6. Due(d) \in Seq(Pending) /\ Len(Due(d)) = n /\ \A i \in 1..n : Due(d)[i] = t[i]
    BY <1>2, <1>4, <1>5
  <1>7. DOMAIN Due(d) = 1..n
    BY <1>6
  <1>8. /\ Batch(d) \in Seq(Changes) /\ Len(Batch(d)) = n
        /\ \A i \in 1..n : Batch(d)[i] = t[i].change
    <2>1. \A i \in 1..n : t[i].change \in Changes
      <3>1. \A i \in 1..Len(t) : t[i] \in Pending
        BY <1>4, ElementOfSeq
      <3>2. \A i \in 1..n : i \in 1..Len(t)
        BY <1>5
      <3> QED
        BY <3>1, <3>2 DEF Pending
    <2>2. Batch(d) = [i \in 1..n |-> Due(d)[i].change]
      BY <1>7 DEF Batch
    <2>3. n \in Nat
      BY <1>5
    <2>4. Batch(d) = [i \in 1..n |-> t[i].change]
      BY <1>6, <2>2
    <2> QED
      BY <2>1, <2>3, <2>4
  <1>9. Sent(d) = {Key(Batch(d)[i]) : i \in 1..Len(Batch(d))}
    BY <1>8, LenProperties DEF Sent
  <1>10. ASSUME NEW x \in 1..Len(Batch(d))
         PROVE  \E k \in 1..Len(s) :
                  /\ Batch(d)[x] = s[k].change
                  /\ \A m \in 1..k - 1 : s[m].late = 0 => \E y \in 1..x - 1 : Batch(d)[y] = s[m].change
    <2>1. x \in 1..n /\ x \in 1..Len(t)
      BY <1>5, <1>8
    <2>2. PICK k \in 1..Len(s) :
              /\ k \in q /\ t[x] = s[k]
              /\ \A m \in 1..k - 1 : m \in q => \E j \in 1..x - 1 : t[j] = s[m]
      BY <1>4, <2>1
    <2>3. Batch(d)[x] = s[k].change
      BY <1>8, <2>1, <2>2
    <2>4. ASSUME NEW m \in 1..k - 1, s[m].late = 0
          PROVE  \E y \in 1..x - 1 : Batch(d)[y] = s[m].change
      <3>1. m \in 1..Len(s) /\ m \in q
        BY <1>3, <2>4
      <3>2. PICK y \in 1..x - 1 : t[y] = s[m]
        BY <2>2, <3>1
      <3>3. y \in 1..n
        BY <1>5, <2>1
      <3> QED
        BY <1>8, <3>2, <3>3
    <2> QED
      BY <2>3, <2>4
  <1> QED
    BY <1>8, <1>9, <1>10 DEF s

\* The first n changes of a batch.
LEMMA PrefixFacts ==
  ASSUME NEW b \in Seq(Changes), NEW n \in Nat, n <= Len(b)
  PROVE  /\ SubSeq(b, 1, n) \in Seq(Changes) /\ Len(SubSeq(b, 1, n)) = n
         /\ \A i \in 1..n : SubSeq(b, 1, n)[i] = b[i]
  OBVIOUS
-----------------------------------------------------------------------------
(* The steps *)

\* One step of device d.
Step(d) ==
  \/ Begin(d) \/ RunStep(d) \/ Stop(d) \/ Upgrade(d)
  \/ \E o \in Objects : Delete(d, o) \/ \E v \in Versions : Edit(d, o, v)
  \/ \E k \in 1..MaxFaults : Minute(d, k)
  \/ \E n \in 0..PageSize : PushFails(d, n) \/ \E m \in 0..PageSize : PushStops(d, n, m)
  \/ \E n \in 0..(2 * Len(Order)) : ExportStops(d, n)
  \/ \E marked \in BOOLEAN : ApplyStops(d, marked)

\* What the other devices have stays as it is.
OthersKept(d) ==
  \A e \in Devices : e # d =>
    /\ rows'[e] = rows[e] /\ tombs'[e] = tombs[e] /\ outbox'[e] = outbox[e]
    /\ done'[e] = done[e] /\ seen'[e] = seen[e] /\ state'[e] = state[e]
    /\ conflicts'[e] = conflicts[e] /\ run'[e] = run[e]

LEMMA StepOfDevice ==
  ASSUME Next
  PROVE  \E d \in Devices : Step(d)
  BY DEF Next, Step

\* The changes that a step sends to the center: the first n of the batch.
Sends(d, n) ==
  /\ n \in Nat /\ n <= Len(Batch(d))
  /\ log' = CenterPushAll(d, SubSeq(Batch(d), 1, n))

\* The log changes by pushes only.
LEMMA LogStep ==
  ASSUME Tables, NEW d \in Devices, Step(d)
  PROVE  \/ UNCHANGED log
         \/ Push(d) /\ Sends(d, Len(Batch(d)))
         \/ \E n \in 0..PageSize : PushFails(d, n) /\ Sends(d, n)
         \/ \E n, m \in 0..PageSize : PushStops(d, n, m) /\ Sends(d, n)
  <1>1. Batch(d) \in Seq(Changes) /\ Len(Batch(d)) \in Nat
    BY BatchFacts, LenProperties
  <1>2. CASE Push(d)
    <2>1. SubSeq(Batch(d), 1, Len(Batch(d))) = Batch(d)
      BY <1>1, SubSeqFull
    <2>2. Sends(d, Len(Batch(d)))
      <3>1. log' = CenterPushAll(d, Batch(d))
        BY <1>2 DEF Push
      <3>2. log' = CenterPushAll(d, SubSeq(Batch(d), 1, Len(Batch(d))))
        BY <2>1, <3>1
      <3> QED
        BY <1>1, <3>2 DEF Sends
    <2> QED
      BY <1>2, <2>2
  <1>3. CASE \E n \in 0..PageSize : PushFails(d, n)
    <2>1. PICK n \in 0..PageSize : PushFails(d, n)
      BY <1>3
    <2>2. n \in Nat /\ n <= Len(Batch(d))
      BY <1>1, <2>1, SyncBounds DEF PushFails
    <2>3. Sends(d, n)
      BY <2>1, <2>2 DEF PushFails, Sends
    <2> QED
      BY <2>1, <2>3
  <1>4. CASE \E n, m \in 0..PageSize : PushStops(d, n, m)
    <2>1. PICK n \in 0..PageSize, m \in 0..PageSize : PushStops(d, n, m)
      BY <1>4
    <2>2. n \in Nat /\ n <= Len(Batch(d))
      BY <1>1, <2>1, SyncBounds DEF PushStops
    <2>3. Sends(d, n)
      BY <2>1, <2>2 DEF PushStops, Sends
    <2> QED
      BY <2>1, <2>3
  <1>5. ASSUME Begin(d) \/ Stop(d) \/ Upgrade(d) PROVE UNCHANGED log
    BY <1>5 DEF Begin, Stop, Upgrade
  <1>6. ASSUME Export(d) \/ Drained(d) \/ Pull(d) \/ SkipEvent(d) \/ ApplyEvent(d)
               \/ NextPage(d) \/ Quarantine(d) \/ LastPage(d) \/ CompleteReplay(d)
        PROVE  UNCHANGED log
    BY <1>6 DEF Export, Drained, Pull, SkipEvent, ApplyEvent, NextPage, Quarantine, LastPage,
               CompleteReplay, ExportRest, ApplyRest, PageRest
  <1>7. ASSUME \E o \in Objects : Delete(d, o) \/ \E v \in Versions : Edit(d, o, v)
        PROVE  UNCHANGED log
    BY <1>7 DEF Delete, Edit, OwnerRest
  <1>8. ASSUME \/ \E k \in 1..MaxFaults : Minute(d, k)
               \/ \E n \in 0..(2 * Len(Order)) : ExportStops(d, n)
               \/ \E marked \in BOOLEAN : ApplyStops(d, marked)
        PROVE  UNCHANGED log
    BY <1>8 DEF Minute, ExportStops, ApplyStops, ExportRest, ApplyRest
  <1> QED
    BY <1>2, <1>3, <1>4, <1>5, <1>6, <1>7, <1>8 DEF Step, RunStep

\* The center only adds to its log.
LogGrows == /\ log' \in Seq(Entries) /\ Len(log) \in Nat /\ Len(log') \in Nat
            /\ Len(log) <= Len(log')
            /\ \A i \in Places : log'[i] = log[i]

LEMMA LogGrowsStep ==
  ASSUME Tables, NEW d \in Devices, Step(d)
  PROVE  LogGrows
  <1>1. log \in Seq(Entries) /\ Len(log) \in Nat
    BY LenProperties DEF Tables
  <1>2. CASE UNCHANGED log
    BY <1>1, <1>2 DEF LogGrows, Places
  <1>3. ASSUME NEW n, Sends(d, n) PROVE LogGrows
    <2>1. SubSeq(Batch(d), 1, n) \in Seq(Changes)
      BY <1>3, BatchFacts, PrefixFacts DEF Sends
    <2>2. Pushed(log', d, SubSeq(Batch(d), 1, n), Len(SubSeq(Batch(d), 1, n)))
      BY <1>1, <1>3, <2>1, PushFacts DEF Sends
    <2> QED
      BY <1>1, <2>2, LenProperties DEF Pushed, LogGrows, Places
  <1> QED
    BY <1>2, <1>3, LogStep

LEMMA OthersStep ==
  ASSUME Tables, NEW d \in Devices, Step(d)
  PROVE  OthersKept(d)
  <1>0. /\ DOMAIN rows = Devices /\ DOMAIN tombs = Devices /\ DOMAIN outbox = Devices
        /\ DOMAIN done = Devices /\ DOMAIN seen = Devices /\ DOMAIN state = Devices
        /\ DOMAIN conflicts = Devices /\ DOMAIN run = Devices
    BY DEF Tables
  <1> SUFFICES ASSUME NEW e \in Devices, e # d
               PROVE  /\ rows'[e] = rows[e] /\ tombs'[e] = tombs[e] /\ outbox'[e] = outbox[e]
                      /\ done'[e] = done[e] /\ seen'[e] = seen[e] /\ state'[e] = state[e]
                      /\ conflicts'[e] = conflicts[e] /\ run'[e] = run[e]
    BY DEF OthersKept
  <1> DEFINE Goal == /\ rows'[e] = rows[e] /\ tombs'[e] = tombs[e] /\ outbox'[e] = outbox[e]
                     /\ done'[e] = done[e] /\ seen'[e] = seen[e] /\ state'[e] = state[e]
                     /\ conflicts'[e] = conflicts[e] /\ run'[e] = run[e]
  <1>1. ASSUME Begin(d) \/ Stop(d) \/ Upgrade(d) PROVE Goal
    BY <1>0, <1>1 DEF Begin, Stop, Upgrade
  <1>2. ASSUME Export(d) \/ \E n \in 0..(2 * Len(Order)) : ExportStops(d, n) PROVE Goal
    BY <1>0, <1>2 DEF Export, ExportStops, Enqueue, ExportRest
  <1>3. ASSUME Push(d) PROVE Goal
    BY <1>0, <1>3 DEF Push, PushRest
  <1>4. ASSUME NEW n \in 0..PageSize, PushFails(d, n) PROVE Goal
    BY <1>0, <1>4 DEF PushFails, PushRest
  <1>5. ASSUME NEW n \in 0..PageSize, NEW m \in 0..PageSize, PushStops(d, n, m) PROVE Goal
    BY <1>0, <1>5 DEF PushStops, PushRest
  <1>6. ASSUME NEW k \in 1..MaxFaults, Minute(d, k) PROVE Goal
    BY <1>0, <1>6 DEF Minute
  <1>7. ASSUME Drained(d) \/ Pull(d) PROVE Goal
    BY <1>0, <1>7 DEF Drained, Pull
  <1>8. ASSUME SkipEvent(d) PROVE Goal
    BY <1>0, <1>8 DEF SkipEvent, Passed, ApplyRest
  <1>9. ASSUME ApplyEvent(d) PROVE Goal
    BY <1>0, <1>9 DEF ApplyEvent, Passed, ApplyRest
  <1>10. ASSUME NEW marked \in BOOLEAN, ApplyStops(d, marked) PROVE Goal
    BY <1>0, <1>10 DEF ApplyStops, ApplyRest
  <1>11. ASSUME NextPage(d) \/ Quarantine(d) \/ LastPage(d) \/ CompleteReplay(d) PROVE Goal
    BY <1>0, <1>11 DEF NextPage, Quarantine, LastPage, CompleteReplay, PageRest
  <1>12. ASSUME NEW o \in Objects, Delete(d, o) PROVE Goal
    BY <1>0, <1>12 DEF Delete, Edited, OwnerRest
  <1>13. ASSUME NEW o \in Objects, NEW v \in Versions, Edit(d, o, v) PROVE Goal
    BY <1>0, <1>13 DEF Edit, Edited, OwnerRest
  <1> HIDE DEF Goal
  <1>14. Goal
    BY <1>1, <1>2, <1>3, <1>4, <1>5, <1>6, <1>7, <1>8, <1>9, <1>10, <1>11, <1>12, <1>13
       DEF Step, RunStep
  <1> QED
    BY <1>14 DEF Goal
-----------------------------------------------------------------------------
(* What the handler of an event does *)

LEMMA DeletedFacts ==
  ASSUME NEW o \in Objects, NEW table \in [Objects -> Versions]
  PROVE  /\ Deleted(o, table) \in [Objects -> Versions]
         /\ \A p \in Objects : Deleted(o, table)[p] = IF p = o \/ Parent[p] = o THEN 0 ELSE table[p]
  BY SyncBounds DEF Deleted, Versions

LEMMA BuriedType ==
  ASSUME NEW o \in Objects, NEW v \in Versions, NEW by \in 0..MaxDeletions,
         NEW table \in [Objects -> Versions],
         NEW graves \in [Objects -> [ver: Versions, by: 0..MaxDeletions]]
  PROVE  Buried(o, v, by, table, graves) \in [Objects -> [ver: Versions, by: 0..MaxDeletions]]
  <1>1. ASSUME NEW w \in Versions PROVE [ver |-> w, by |-> by] \in [ver: Versions, by: 0..MaxDeletions]
    OBVIOUS
  <1>2. \A p \in Objects : table[p] \in Versions
    OBVIOUS
  <1> QED
    BY <1>1, <1>2 DEF Buried

LEMMA NoTombType == NoTomb \in [ver: Versions, by: 0..MaxDeletions]
  BY SyncBounds DEF NoTomb, Versions

\* An event is superseded, refused, deletes, waits, or is written.
LEMMA HandledCases ==
  ASSUME NEW d, NEW c
  PROVE  \/ Handled(d, c).out \in {"applied", "conflict"}
            /\ Handled(d, c).rows = rows[d] /\ Handled(d, c).tombs = tombs[d]
         \/ c.by # 0 /\ Handled(d, c).out = "applied"
            /\ Handled(d, c).rows = Deleted(c.obj, rows[d])
            /\ Handled(d, c).tombs = Buried(c.obj, c.ver, c.by, rows[d], tombs[d])
         \/ c.by = 0 /\ Handled(d, c).out \in {"applied", "waits"}
            /\ Handled(d, c).rows = rows[d]
            /\ Handled(d, c).tombs = [tombs[d] EXCEPT ![c.obj] = NoTomb]
         \/ c.by = 0 /\ Handled(d, c).out = "applied"
            /\ (Parent[c.obj] = None \/ rows[d][Parent[c.obj]] # 0)
            /\ Handled(d, c).rows = [rows[d] EXCEPT ![c.obj] = c.ver]
            /\ Handled(d, c).tombs = [tombs[d] EXCEPT ![c.obj] = NoTomb]
  BY DEF Handled

LEMMA HandledTypes ==
  ASSUME Tables, NEW d \in Devices, NEW c \in Changes
  PROVE  /\ Handled(d, c).rows \in [Objects -> Versions]
         /\ Handled(d, c).tombs \in [Objects -> [ver: Versions, by: 0..MaxDeletions]]
  <1>1. c.obj \in Objects /\ c.ver \in Versions /\ c.by \in 0..MaxDeletions
    BY DEF Changes
  <1>2. /\ rows[d] \in [Objects -> Versions]
        /\ tombs[d] \in [Objects -> [ver: Versions, by: 0..MaxDeletions]]
    BY DEF Tables
  <1>3. Deleted(c.obj, rows[d]) \in [Objects -> Versions]
    BY <1>1, <1>2, DeletedFacts
  <1>4. Buried(c.obj, c.ver, c.by, rows[d], tombs[d])
          \in [Objects -> [ver: Versions, by: 0..MaxDeletions]]
    BY <1>1, <1>2, BuriedType
  <1>5. [rows[d] EXCEPT ![c.obj] = c.ver] \in [Objects -> Versions]
    BY <1>1, <1>2
  <1>6. [tombs[d] EXCEPT ![c.obj] = NoTomb] \in [Objects -> [ver: Versions, by: 0..MaxDeletions]]
    BY <1>1, <1>2, NoTombType
  <1>7. \/ Handled(d, c).rows = rows[d]
        \/ Handled(d, c).rows = Deleted(c.obj, rows[d])
        \/ Handled(d, c).rows = [rows[d] EXCEPT ![c.obj] = c.ver]
    BY HandledCases
  <1>8. \/ Handled(d, c).tombs = tombs[d]
        \/ Handled(d, c).tombs = Buried(c.obj, c.ver, c.by, rows[d], tombs[d])
        \/ Handled(d, c).tombs = [tombs[d] EXCEPT ![c.obj] = NoTomb]
    BY HandledCases
  <1>9. Handled(d, c).rows \in [Objects -> Versions]
    BY ONLY <1>2, <1>3, <1>5, <1>7
  <1> QED
    BY <1>2, <1>4, <1>6, <1>8, <1>9
-----------------------------------------------------------------------------
(* What a step makes of a run *)

LEMMA NoRunFacts ==
  /\ NoRun \in Runs /\ NoRun.pc = "idle" /\ NoRun.cursor = 0
  /\ NoRun.todo = <<>> /\ NoRun.waiting = <<>> /\ NoRun.edited = {}
  <1>1. <<>> \in Seq(Nat)
    OBVIOUS
  <1>2. NoRun \in Runs
    BY <1>1 DEF NoRun, Runs, Stages
  <1> QED
    BY <1>2 DEF NoRun

LEMMA StageFacts ==
  ASSUME NEW r \in Runs, NEW s \in Stages
  PROVE  /\ [r EXCEPT !.pc = s] \in Runs
         /\ [r EXCEPT !.pc = s].pc = s /\ [r EXCEPT !.pc = s].cursor = r.cursor
         /\ [r EXCEPT !.pc = s].todo = r.todo /\ [r EXCEPT !.pc = s].waiting = r.waiting
         /\ [r EXCEPT !.pc = s].edited = r.edited
  BY DEF Runs

LEMMA PullingFacts ==
  ASSUME NEW r \in Runs, NEW c \in Nat
  PROVE  /\ Pulling(r, c) \in Runs
         /\ Pulling(r, c).pc = "pull" /\ Pulling(r, c).cursor = c
         /\ Pulling(r, c).todo = r.todo /\ Pulling(r, c).waiting = r.waiting
         /\ Pulling(r, c).edited = r.edited
  <1> DEFINE r1 == [r EXCEPT !.pc = "pull"]
             r2 == [r1 EXCEPT !.cursor = c]
  <1>1. r1 \in Runs /\ r1.pc = "pull" /\ r1.todo = r.todo /\ r1.waiting = r.waiting
        /\ r1.edited = r.edited
    BY DEF Runs, Stages
  <1>2. r2 \in Runs /\ r2.pc = r1.pc /\ r2.cursor = c /\ r2.todo = r1.todo
        /\ r2.waiting = r1.waiting /\ r2.edited = r1.edited
    BY <1>1 DEF Runs
  <1>3. Pulling(r, c) = r2
    BY DEF Pulling
  <1> QED
    BY <1>1, <1>2, <1>3

\* A page continues the log behind a cursor.
LEMMA PageFacts ==
  ASSUME log \in Seq(Entries), NEW c \in Nat, c <= Len(log)
  PROVE  /\ Page(c) \in Seq(Nat) /\ Len(Page(c)) \in Nat /\ c + Len(Page(c)) <= Len(log)
         /\ \A i \in 1..Len(Page(c)) : Page(c)[i] = c + i
         /\ Len(Page(c)) < PageSize => c + Len(Page(c)) = Len(log)
  <1> DEFINE n == IF Len(log) - c > PageSize THEN PageSize ELSE Len(log) - c
  <1>1. Len(log) \in Nat /\ PageSize \in Nat
    BY SyncBounds, LenProperties
  <1>2. n \in Nat /\ c + n <= Len(log) /\ (n < PageSize => c + n = Len(log))
    BY <1>1
  <1>3. Page(c) = [i \in 1..n |-> c + i]
    BY DEF Page
  <1> HIDE DEF n
  <1>4. Page(c) \in Seq(Nat) /\ Len(Page(c)) = n /\ \A i \in 1..n : Page(c)[i] = c + i
    BY <1>2, <1>3
  <1> QED
    BY <1>2, <1>4

LEMMA PagedFacts ==
  ASSUME NEW r \in Runs, NEW page \in Seq(Nat)
  PROVE  /\ Paged(r, page) \in Runs
         /\ Paged(r, page).pc = "apply" /\ Paged(r, page).cursor = r.cursor + Len(page)
         /\ Paged(r, page).todo = r.waiting \o page /\ Paged(r, page).waiting = <<>>
         /\ Paged(r, page).edited = r.edited
  <1>0. /\ r.cursor + Len(page) \in Nat /\ r.waiting \o page \in Seq(Nat) /\ <<>> \in Seq(Nat)
        /\ "apply" \in Stages /\ (Len(page) = PageSize) \in BOOLEAN
    BY LenProperties DEF Runs, Stages
  <1> DEFINE r1 == [r EXCEPT !.pc = "apply"]
             r2 == [r1 EXCEPT !.cursor = r.cursor + Len(page)]
             r3 == [r2 EXCEPT !.todo = r.waiting \o page]
             r4 == [r3 EXCEPT !.waiting = <<>>]
             r5 == [r4 EXCEPT !.progress = FALSE]
             r6 == [r5 EXCEPT !.more = Len(page) = PageSize]
  <1>1. r1 \in Runs /\ r1.pc = "apply" /\ r1.edited = r.edited
    BY <1>0 DEF Runs
  <1>2. r2 \in Runs /\ r2.pc = "apply" /\ r2.edited = r.edited /\ r2.cursor = r.cursor + Len(page)
    BY <1>0, <1>1 DEF Runs
  <1>3. r3 \in Runs /\ r3.pc = "apply" /\ r3.edited = r.edited /\ r3.cursor = r.cursor + Len(page)
        /\ r3.todo = r.waiting \o page
    BY <1>0, <1>2 DEF Runs
  <1>4. r4 \in Runs /\ r4.pc = "apply" /\ r4.edited = r.edited /\ r4.cursor = r.cursor + Len(page)
        /\ r4.todo = r.waiting \o page /\ r4.waiting = <<>>
    BY <1>0, <1>3 DEF Runs
  <1>5. r5 \in Runs /\ r5.pc = r4.pc /\ r5.edited = r4.edited /\ r5.cursor = r4.cursor
        /\ r5.todo = r4.todo /\ r5.waiting = r4.waiting
    BY <1>4 DEF Runs
  <1>6. r6 \in Runs /\ r6.pc = r5.pc /\ r6.edited = r5.edited /\ r6.cursor = r5.cursor
        /\ r6.todo = r5.todo /\ r6.waiting = r5.waiting
    BY <1>0, <1>5 DEF Runs
  <1>7. Paged(r, page) = r6
    BY DEF Paged, Runs
  <1> QED
    BY <1>4, <1>5, <1>6, <1>7

\* What waits after the next event of a run was handled, or is held back.
Held(r, held) == IF held THEN Append(r.waiting, Head(r.todo)) ELSE r.waiting

LEMMA LookedFacts ==
  ASSUME NEW r \in Runs, r.todo # <<>>, NEW held \in BOOLEAN
  PROVE  /\ Looked(r, held) \in Runs
         /\ Looked(r, held).pc = r.pc /\ Looked(r, held).cursor = r.cursor
         /\ Looked(r, held).edited = r.edited
         /\ Looked(r, held).todo = Tail(r.todo) /\ Looked(r, held).waiting = Held(r, held)
  <1>0. r.todo \in Seq(Nat) /\ r.waiting \in Seq(Nat) /\ r.progress \in BOOLEAN
    BY DEF Runs
  <1>1. Tail(r.todo) \in Seq(Nat) /\ Held(r, held) \in Seq(Nat)
    BY <1>0 DEF Held
  <1> DEFINE r1 == [r EXCEPT !.todo = Tail(r.todo)]
             r2 == [r1 EXCEPT !.waiting = Held(r, held)]
             r3 == [r2 EXCEPT !.progress = r.progress \/ ~ held]
  <1>2. r1 \in Runs /\ r1.pc = r.pc /\ r1.cursor = r.cursor /\ r1.edited = r.edited
        /\ r1.todo = Tail(r.todo)
    BY <1>1 DEF Runs
  <1>3. r2 \in Runs /\ r2.pc = r.pc /\ r2.cursor = r.cursor /\ r2.edited = r.edited
        /\ r2.todo = Tail(r.todo) /\ r2.waiting = Held(r, held)
    BY <1>1, <1>2 DEF Runs
  <1>4. r3 \in Runs /\ r3.pc = r2.pc /\ r3.cursor = r2.cursor /\ r3.edited = r2.edited
        /\ r3.todo = r2.todo /\ r3.waiting = r2.waiting
    BY <1>0, <1>3 DEF Runs
  <1>5. Looked(r, held) = r3
    BY DEF Looked, Runs, Held
  <1> QED
    BY <1>3, <1>4, <1>5

LEMMA PassFacts ==
  ASSUME NEW r \in Runs
  PROVE  /\ Pass(r) \in Runs
         /\ Pass(r).pc = r.pc /\ Pass(r).cursor = r.cursor /\ Pass(r).edited = r.edited
         /\ \/ Pass(r).todo = r.todo /\ Pass(r).waiting = r.waiting
            \/ r.todo = <<>> /\ Pass(r).todo = r.waiting /\ Pass(r).waiting = <<>>
  <1>1. CASE Pass(r) = r
    BY <1>1
  <1>2. CASE Pass(r) # r
    <2> DEFINE r1 == [r EXCEPT !.todo = r.waiting]
               r2 == [r1 EXCEPT !.waiting = <<>>]
               r3 == [r2 EXCEPT !.progress = FALSE]
    <2>0. r.waiting \in Seq(Nat) /\ <<>> \in Seq(Nat)
      BY DEF Runs
    <2>1. r1 \in Runs /\ r1.pc = r.pc /\ r1.cursor = r.cursor /\ r1.edited = r.edited
          /\ r1.todo = r.waiting
      BY <2>0 DEF Runs
    <2>2. r2 \in Runs /\ r2.pc = r.pc /\ r2.cursor = r.cursor /\ r2.edited = r.edited
          /\ r2.todo = r.waiting /\ r2.waiting = <<>>
      BY <2>0, <2>1 DEF Runs
    <2>3. r3 \in Runs /\ r3.pc = r2.pc /\ r3.cursor = r2.cursor /\ r3.edited = r2.edited
          /\ r3.todo = r2.todo /\ r3.waiting = r2.waiting
      BY <2>2 DEF Runs
    <2>4. Pass(r) = r3 /\ r.todo = <<>>
      BY <1>2 DEF Pass
    <2> QED
      BY <2>2, <2>3, <2>4
  <1> QED
    BY <1>1, <1>2
-----------------------------------------------------------------------------
(* Which steps move a run through the log *)

Fresh(r) == r.todo = <<>> /\ r.waiting = <<>> /\ r.cursor = 0

\* Device d reads nothing: its run goes on, is over, begins, or begins to pull.
Still(d) ==
  /\ seen'[d] = seen[d] /\ state'[d].cursor = state[d].cursor
  /\ \/ Fresh(run'[d]) /\ run'[d].pc \notin {"pull", "apply"}
     \/ /\ run'[d].todo = run[d].todo /\ run'[d].waiting = run[d].waiting
        /\ run'[d].cursor = run[d].cursor
        /\ \/ run'[d].pc = run[d].pc
           \/ run[d].pc \notin {"pull", "apply"} /\ run'[d].pc \notin {"pull", "apply"}
     \/ run[d].pc = "push" /\ run'[d] = Pulling(run[d], state[d].cursor)

LEMMA EditedFacts ==
  ASSUME Tables, NEW d \in Devices, NEW o \in Objects, Edited(d, o)
  PROVE  /\ run' \in [Devices -> Runs]
         /\ run'[d].todo = run[d].todo /\ run'[d].waiting = run[d].waiting
         /\ run'[d].cursor = run[d].cursor /\ run'[d].pc = run[d].pc
         /\ run'[d].edited = IF run[d].pc = "idle" THEN {} ELSE run[d].edited \cup {o}
  <1> DEFINE more == IF run[d].pc = "idle" THEN {} ELSE run[d].edited \cup {o}
             r1 == [run[d] EXCEPT !.edited = more]
  <1>1. run \in [Devices -> Runs] /\ run[d] \in Runs
    BY DEF Tables
  <1>2. more \in SUBSET Objects
    BY <1>1 DEF Runs
  <1> HIDE DEF more
  <1>3. r1 \in Runs /\ r1.todo = run[d].todo /\ r1.waiting = run[d].waiting
        /\ r1.cursor = run[d].cursor /\ r1.pc = run[d].pc /\ r1.edited = more
    BY <1>1, <1>2 DEF Runs
  <1>4. run' = [run EXCEPT ![d] = r1]
    BY <1>1 DEF Edited, more
  <1> HIDE DEF r1
  <1>5. run' \in [Devices -> Runs] /\ run'[d] = r1
    BY <1>1, <1>3, <1>4
  <1> QED
    BY <1>3, <1>5 DEF more

LEMMA StopFacts ==
  ASSUME Tables, NEW d \in Devices, run' = [run EXCEPT ![d] = NoRun]
  PROVE  run' \in [Devices -> Runs] /\ run'[d] = NoRun
         /\ Fresh(run'[d]) /\ run'[d].pc \notin {"pull", "apply"}
  <1>1. run \in [Devices -> Runs]
    BY DEF Tables
  <1>2. run' \in [Devices -> Runs] /\ run'[d] = NoRun
    BY <1>1, NoRunFacts
  <1> QED
    BY <1>2, NoRunFacts DEF Fresh

LEMMA StillSteps ==
  ASSUME Tables, KnownPlaces, NEW d \in Devices, Step(d)
  PROVE  /\ run' \in [Devices -> Runs]
         /\ \/ Still(d)
            \/ Upgrade(d) \/ Pull(d) \/ SkipEvent(d) \/ ApplyEvent(d)
            \/ NextPage(d) \/ Quarantine(d) \/ LastPage(d)
  <1>0. /\ run \in [Devices -> Runs] /\ run[d] \in Runs
        /\ state \in [Devices -> [cursor: Nat, replay: BOOLEAN]]
    BY DEF Tables
  <1> DEFINE Goal == run' \in [Devices -> Runs] /\ Still(d)
             Typed == run' \in [Devices -> Runs]
  <1>1. ASSUME Begin(d) PROVE Goal
    <2> DEFINE s == IF state[d].replay THEN "push" ELSE "export"
               r1 == [NoRun EXCEPT !.pc = s]
    <2>1. s \in Stages /\ s \notin {"pull", "apply"}
      BY DEF Stages
    <2> HIDE DEF s
    <2>2. r1 \in Runs /\ r1.pc = s /\ Fresh(r1)
      BY <2>1, NoRunFacts, StageFacts DEF Fresh
    <2>3. run' = [run EXCEPT ![d] = r1] /\ UNCHANGED <<seen, state>>
      BY <1>1 DEF Begin, s
    <2> HIDE DEF r1
    <2>4. run' \in [Devices -> Runs] /\ run'[d] = r1
      BY <1>0, <2>2, <2>3
    <2> QED
      BY <2>1, <2>2, <2>3, <2>4 DEF Still
  <1>2. ASSUME Export(d) PROVE Goal
    <2> DEFINE r1 == [run[d] EXCEPT !.pc = "push"]
               r2 == [r1 EXCEPT !.edited = {}]
    <2>1. r1 \in Runs /\ r1.pc = "push" /\ r1.todo = run[d].todo /\ r1.waiting = run[d].waiting
          /\ r1.cursor = run[d].cursor
      BY <1>0, StageFacts DEF Stages
    <2>2. r2 \in Runs /\ r2.pc = "push" /\ r2.todo = run[d].todo /\ r2.waiting = run[d].waiting
          /\ r2.cursor = run[d].cursor
      BY <2>1 DEF Runs
    <2>3. run' = [run EXCEPT ![d] = r2] /\ UNCHANGED <<seen, state>> /\ run[d].pc = "export"
      BY <1>0, <1>2 DEF Export, ExportRest
    <2> HIDE DEF r2
    <2>4. run' \in [Devices -> Runs] /\ run'[d] = r2
      BY <1>0, <2>2, <2>3
    <2> QED
      BY <2>2, <2>3, <2>4 DEF Still
  <1>3. ASSUME NEW n \in 0..(2 * Len(Order)), ExportStops(d, n) PROVE Goal
    BY <1>3, StopFacts DEF ExportStops, ExportRest, Still
  <1>4. ASSUME Push(d) \/ \E k \in 1..MaxFaults : Minute(d, k) PROVE Goal
    BY <1>0, <1>4 DEF Push, PushRest, Minute, Still
  <1>5. ASSUME NEW n \in 0..PageSize, PushFails(d, n) PROVE Goal
    BY <1>5, StopFacts DEF PushFails, PushRest, Still
  <1>6. ASSUME NEW n \in 0..PageSize, NEW m \in 0..PageSize, PushStops(d, n, m) PROVE Goal
    BY <1>6, StopFacts DEF PushStops, PushRest, Still
  <1>7. ASSUME NEW marked \in BOOLEAN, ApplyStops(d, marked) PROVE Goal
    BY <1>7, StopFacts DEF ApplyStops, ApplyRest, Still
  <1>8. ASSUME Stop(d) PROVE Goal
    BY <1>8, StopFacts DEF Stop, Still
  <1>9. ASSUME NEW o \in Objects, Delete(d, o) PROVE Goal
    BY <1>9, EditedFacts DEF Delete, OwnerRest, Still
  <1>10. ASSUME NEW o \in Objects, NEW v \in Versions, Edit(d, o, v) PROVE Goal
    BY <1>10, EditedFacts DEF Edit, OwnerRest, Still
  <1>11. ASSUME CompleteReplay(d) PROVE Goal
    <2> DEFINE r1 == [run[d] EXCEPT !.pc = "export"]
    <2>1. r1 \in Runs /\ r1.pc = "export" /\ r1.todo = run[d].todo /\ r1.waiting = run[d].waiting
          /\ r1.cursor = run[d].cursor
      BY <1>0, StageFacts DEF Stages
    <2>2. run' = [run EXCEPT ![d] = r1] /\ run[d].pc = "replayed" /\ UNCHANGED seen
          /\ state' = [state EXCEPT ![d].replay = FALSE]
      BY <1>0, <1>11 DEF CompleteReplay
    <2>3. state'[d].cursor = state[d].cursor
      BY <1>0, <2>2
    <2> HIDE DEF r1
    <2>4. run' \in [Devices -> Runs] /\ run'[d] = r1
      BY <1>0, <2>1, <2>2
    <2> QED
      BY <2>1, <2>2, <2>3, <2>4 DEF Still
  <1>12. ASSUME Drained(d) PROVE Goal
    <2>1. UNCHANGED <<seen, state>> /\ run[d].pc = "push"
      BY <1>12 DEF Drained
    <2>2. CASE run' = [run EXCEPT ![d] = NoRun]
      BY <2>1, <2>2, StopFacts DEF Still
    <2>3. CASE run' # [run EXCEPT ![d] = NoRun]
      <3>1. run' = [run EXCEPT ![d] = Pulling(run[d], state[d].cursor)]
        BY <1>0, <1>12, <2>3 DEF Drained, Pulling
      <3>2. Pulling(run[d], state[d].cursor) \in Runs
        BY <1>0, PullingFacts
      <3>3. run' \in [Devices -> Runs] /\ run'[d] = Pulling(run[d], state[d].cursor)
        BY <1>0, <3>1, <3>2
      <3> QED
        BY <2>1, <3>3 DEF Still
    <2> QED
      BY <2>2, <2>3
  <1>13. ASSUME Upgrade(d) PROVE Typed
    BY <1>13, StopFacts DEF Upgrade
  <1>14. ASSUME Pull(d) PROVE Typed
    <2>1. run' = [run EXCEPT ![d] = Paged(run[d], Page(run[d].cursor))]
      BY <1>0, <1>14 DEF Pull, Paged
    <2>2. Page(run[d].cursor) \in Seq(Nat)
      BY <1>0, PageFacts DEF Runs, Tables, KnownPlaces
    <2> QED
      BY <1>0, <2>1, <2>2, PagedFacts
  <1>15. ASSUME NEW held \in BOOLEAN, Passed(d, held), Applying(d) PROVE Typed
    <2>1. run' = [run EXCEPT ![d] = Pass(Looked(run[d], held))]
      BY <1>0, <1>15 DEF Passed, Looked
    <2>2. Looked(run[d], held) \in Runs
      BY <1>0, <1>15, LookedFacts DEF Applying
    <2>3. Pass(Looked(run[d], held)) \in Runs
      BY <2>2, PassFacts
    <2> QED
      BY <1>0, <2>1, <2>3
  <1>16. ASSUME SkipEvent(d) PROVE Typed
    <2>1. Blocked(run[d], NextChange(d).obj) \in BOOLEAN
      BY DEF Blocked
    <2> QED
      BY <1>15, <1>16, <2>1 DEF SkipEvent
  <1>17. ASSUME ApplyEvent(d) PROVE Typed
    BY <1>15, <1>17 DEF ApplyEvent, ToHandle
  <1>18. ASSUME Quarantine(d) PROVE Typed
    <2>1. run[d].waiting \in Seq(Nat) /\ run[d].waiting # <<>>
      BY <1>0, <1>18 DEF Runs, Quarantine
    <2>2. Tail(run[d].waiting) \in Seq(Nat)
      BY <2>1
    <2>3. [run[d] EXCEPT !.waiting = Tail(@)] \in Runs
      BY <1>0, <2>2 DEF Runs
    <2> QED
      BY <1>0, <1>18, <2>3 DEF Quarantine
  <1>19. ASSUME NextPage(d) PROVE Typed
    <2>1. [run[d] EXCEPT !.pc = "pull"] \in Runs
      BY <1>0, StageFacts DEF Stages
    <2> QED
      BY <1>0, <1>19, <2>1 DEF NextPage
  <1>20. ASSUME LastPage(d) PROVE Typed
    <2>1. [NoRun EXCEPT !.pc = IF state[d].replay THEN "replayed" ELSE "idle"] \in Runs
      BY NoRunFacts, StageFacts DEF Stages
    <2> QED
      BY <1>0, <1>20, <2>1 DEF LastPage
  <1> HIDE DEF Typed
  <1>21. Goal \/ (Typed /\ (Upgrade(d) \/ Pull(d) \/ SkipEvent(d) \/ ApplyEvent(d)
                              \/ NextPage(d) \/ Quarantine(d) \/ LastPage(d)))
    <2> DEFINE Reads == Upgrade(d) \/ Pull(d) \/ SkipEvent(d) \/ ApplyEvent(d)
                         \/ NextPage(d) \/ Quarantine(d) \/ LastPage(d)
    <2>1. Reads => Typed
      BY <1>13, <1>14, <1>16, <1>17, <1>18, <1>19, <1>20
    <2> HIDE DEF Goal
    <2>2. Begin(d) \/ Stop(d) \/ Export(d) \/ Push(d) \/ Drained(d) \/ CompleteReplay(d) => Goal
      BY <1>1, <1>2, <1>4, <1>8, <1>11, <1>12
    <2>3. \/ \E o \in Objects : Delete(d, o) \/ \E v \in Versions : Edit(d, o, v)
          \/ \E k \in 1..MaxFaults : Minute(d, k)
          \/ \E n \in 0..PageSize : PushFails(d, n) \/ \E m \in 0..PageSize : PushStops(d, n, m)
          \/ \E n \in 0..(2 * Len(Order)) : ExportStops(d, n)
          \/ \E marked \in BOOLEAN : ApplyStops(d, marked)
          => Goal
      BY <1>3, <1>4, <1>5, <1>6, <1>7, <1>9, <1>10
    <2> QED
      BY <2>1, <2>2, <2>3 DEF Step, RunStep
  <1> QED
    BY <1>21 DEF Typed
-----------------------------------------------------------------------------
(* Who writes what *)

Editing(d) == \E o \in Objects : Delete(d, o) \/ \E v \in Versions : Edit(d, o, v)
Applied(d) == ApplyEvent(d) \/ \E marked \in BOOLEAN : ApplyStops(d, marked)

\* A change of a table is one of these steps.
WrittenBy(d) ==
  /\ UNCHANGED <<rows, tombs>> \/ Editing(d) \/ Applied(d)
  /\ \/ UNCHANGED outbox \/ Export(d) \/ Push(d)
     \/ \E n \in 0..(2 * Len(Order)) : ExportStops(d, n)
     \/ \E n \in 0..PageSize : PushFails(d, n)
     \/ \E k \in 1..MaxFaults : Minute(d, k)
  /\ \/ UNCHANGED done \/ Push(d) \/ Applied(d)
     \/ \E n, m \in 0..PageSize : PushStops(d, n, m)
  /\ UNCHANGED seen \/ Upgrade(d) \/ ApplyEvent(d) \/ Quarantine(d)
  /\ UNCHANGED state \/ Upgrade(d) \/ NextPage(d) \/ LastPage(d) \/ CompleteReplay(d)
  /\ UNCHANGED conflicts \/ ApplyEvent(d) \/ Quarantine(d)
  /\ \/ UNCHANGED owner \/ Editing(d)
     \/ owner.faults < MaxFaults /\ owner' = [owner EXCEPT !.faults = @ + 1]

LEMMA Writers ==
  ASSUME NEW d \in Devices, Step(d)
  PROVE  WrittenBy(d)
  <1>1. ASSUME Begin(d) \/ Drained(d) \/ Pull(d) PROVE WrittenBy(d)
    BY <1>1 DEF Begin, Drained, Pull, WrittenBy
  <1>2. ASSUME Export(d) PROVE WrittenBy(d)
    BY <1>2 DEF Export, ExportRest, WrittenBy
  <1>3. ASSUME NEW n \in 0..(2 * Len(Order)), ExportStops(d, n) PROVE WrittenBy(d)
    <2>1. UNCHANGED <<rows, tombs, done, seen, state, conflicts>>
      BY <1>3 DEF ExportStops, ExportRest
    <2>2. owner.faults < MaxFaults /\ owner' = [owner EXCEPT !.faults = @ + 1]
      BY <1>3 DEF ExportStops, Fault
    <2> QED
      BY <1>3, <2>1, <2>2 DEF WrittenBy
  <1>4. ASSUME Push(d) PROVE WrittenBy(d)
    BY <1>4 DEF Push, PushRest, WrittenBy
  <1>5. ASSUME NEW n \in 0..PageSize, PushFails(d, n) PROVE WrittenBy(d)
    <2>1. UNCHANGED <<rows, tombs, done, seen, state, conflicts>>
      BY <1>5 DEF PushFails, PushRest
    <2>2. owner.faults < MaxFaults /\ owner' = [owner EXCEPT !.faults = @ + 1]
      BY <1>5 DEF PushFails, Fault
    <2> QED
      BY <1>5, <2>1, <2>2 DEF WrittenBy
  <1>6. ASSUME NEW n \in 0..PageSize, NEW m \in 0..PageSize, PushStops(d, n, m)
        PROVE  WrittenBy(d)
    <2>1. UNCHANGED <<rows, tombs, outbox, seen, state, conflicts>>
      BY <1>6 DEF PushStops, PushRest
    <2>2. owner.faults < MaxFaults /\ owner' = [owner EXCEPT !.faults = @ + 1]
      BY <1>6 DEF PushStops, Fault
    <2> QED
      BY <1>6, <2>1, <2>2 DEF WrittenBy
  <1>7. ASSUME NEW k \in 1..MaxFaults, Minute(d, k) PROVE WrittenBy(d)
    BY <1>7 DEF Minute, WrittenBy
  <1>8. ASSUME SkipEvent(d) PROVE WrittenBy(d)
    BY <1>8 DEF SkipEvent, ApplyRest, WrittenBy
  <1>9. ASSUME ApplyEvent(d) PROVE WrittenBy(d)
    <2>1. UNCHANGED <<outbox, state, owner>> /\ Applied(d)
      BY <1>9 DEF ApplyEvent, ApplyRest, Applied
    <2> QED
      BY <1>9, <2>1 DEF WrittenBy
  <1>10. ASSUME NEW marked \in BOOLEAN, ApplyStops(d, marked) PROVE WrittenBy(d)
    <2>1. UNCHANGED <<outbox, seen, state, conflicts>> /\ Applied(d)
      BY <1>10 DEF ApplyStops, ApplyRest, Applied
    <2>2. owner.faults < MaxFaults /\ owner' = [owner EXCEPT !.faults = @ + 1]
      BY <1>10 DEF ApplyStops, Fault
    <2> QED
      BY <2>1, <2>2 DEF WrittenBy
  <1>11. ASSUME NextPage(d) \/ LastPage(d) \/ CompleteReplay(d) PROVE WrittenBy(d)
    BY <1>11 DEF NextPage, LastPage, CompleteReplay, PageRest, WrittenBy
  <1>12. ASSUME Quarantine(d) PROVE WrittenBy(d)
    <2>1. UNCHANGED <<rows, tombs, outbox, done, state, owner>>
      BY <1>12 DEF Quarantine, PageRest
    <2> QED
      BY <1>12, <2>1 DEF WrittenBy
  <1>13. ASSUME Editing(d) PROVE WrittenBy(d)
    <2>1. UNCHANGED <<outbox, done, seen, state, conflicts>>
      BY <1>13 DEF Editing, Edit, Delete, OwnerRest
    <2> QED
      BY <1>13, <2>1 DEF WrittenBy
  <1>14. ASSUME Stop(d) PROVE WrittenBy(d)
    BY <1>14 DEF Stop, Fault, WrittenBy
  <1>15. ASSUME Upgrade(d) PROVE WrittenBy(d)
    BY <1>15 DEF Upgrade, WrittenBy
  <1> QED
    BY <1>1, <1>2, <1>3, <1>4, <1>5, <1>6, <1>7, <1>8, <1>9, <1>10, <1>11, <1>12, <1>13, <1>14,
       <1>15 DEF Step, RunStep, Editing

LEMMA HeadFacts ==
  ASSUME NEW s \in Seq(Nat), s # <<>>
  PROVE  /\ Head(s) = s[1] /\ 1 \in DOMAIN s /\ Head(s) \in Nat
         /\ Tail(s) \in Seq(Nat) /\ Len(s) \in Nat \ {0} /\ Len(Tail(s)) = Len(s) - 1
         /\ DOMAIN s = 1..Len(s) /\ DOMAIN Tail(s) = 1..Len(s) - 1
         /\ \A i \in 1..Len(s) - 1 : Tail(s)[i] = s[i + 1]
  BY HeadTailProperties, EmptySeq, LenProperties

LEMMA PlaceFacts ==
  ASSUME Tables, KnownPlaces, PageInHand, NEW d \in Devices, NEW i \in InHand(run[d])
  PROVE  i \in Places /\ log[i] \in Entries /\ log[i].change \in Changes
  <1>1. i \in 1..run[d].cursor /\ run[d].cursor \in Nat /\ run[d].cursor <= Len(log)
    BY DEF PageInHand, ReadSoFar, Tables, Runs, KnownPlaces
  <1>2. log \in Seq(Entries) /\ Len(log) \in Nat
    BY LenProperties DEF Tables
  <1> QED
    <2>1. i \in 1..Len(log)
      BY <1>1, <1>2
    <2>2. log[i] \in Entries
      BY <1>2, <2>1, ElementOfSeq
    <2> QED
      BY <2>1, <2>2 DEF Places, Entries

LEMMA NextEventFacts ==
  ASSUME Tables, KnownPlaces, PageInHand, NEW d \in Devices, Applying(d)
  PROVE  NextEvent(d) \in InHand(run[d]) /\ NextEvent(d) \in Places /\ NextChange(d) \in Changes
  <1>1. run[d].todo \in Seq(Nat) /\ run[d].todo # <<>>
    BY DEF Tables, Runs, Applying
  <1>2. NextEvent(d) \in Range(run[d].todo)
    BY <1>1, HeadFacts DEF NextEvent, Range
  <1>3. NextEvent(d) \in InHand(run[d])
    BY <1>2 DEF InHand
  <1> QED
    BY <1>3, PlaceFacts DEF NextChange

LEMMA FirstWaitingFacts ==
  ASSUME Tables, KnownPlaces, PageInHand, NEW d \in Devices, Quarantine(d)
  PROVE  /\ Head(run[d].waiting) \in InHand(run[d]) /\ Head(run[d].waiting) \in Places
         /\ log[Head(run[d].waiting)].change \in Changes
  <1>1. run[d].waiting \in Seq(Nat) /\ run[d].waiting # <<>>
    BY DEF Tables, Runs, Quarantine
  <1>2. Head(run[d].waiting) \in Range(run[d].waiting)
    BY <1>1, HeadFacts DEF Range
  <1>3. Head(run[d].waiting) \in InHand(run[d])
    BY <1>2 DEF InHand
  <1> QED
    BY <1>3, PlaceFacts
-----------------------------------------------------------------------------
(* The types *)

Tomb == [ver: Versions, by: 0..MaxDeletions]

LEMMA RowsTyped ==
  ASSUME Tables, KnownPlaces, PageInHand, NEW d \in Devices, Step(d)
  PROVE  rows' \in [Devices -> [Objects -> Versions]] /\ tombs' \in [Devices -> [Objects -> Tomb]]
  <1>0. /\ rows \in [Devices -> [Objects -> Versions]] /\ tombs \in [Devices -> [Objects -> Tomb]]
        /\ rows[d] \in [Objects -> Versions] /\ tombs[d] \in [Objects -> Tomb]
    BY DEF Tables, Tomb
  <1> DEFINE Goal == /\ rows' \in [Devices -> [Objects -> Versions]]
                     /\ tombs' \in [Devices -> [Objects -> Tomb]]
  <1>1. ASSUME NEW o \in Objects, NEW v \in Versions, Edit(d, o, v) PROVE Goal
    <2>1. [rows[d] EXCEPT ![o] = v] \in [Objects -> Versions]
      BY <1>0
    <2> QED
      BY <1>0, <1>1, <2>1 DEF Edit
  <1>2. ASSUME NEW o \in Objects, Delete(d, o) PROVE Goal
    <2>1. Deleted(o, rows[d]) \in [Objects -> Versions]
      BY <1>0, DeletedFacts
    <2>2. owner.deleted \in Seq(Objects) /\ Len(owner.deleted) + 1 \in 0..MaxDeletions
      BY <1>2, SyncBounds, LenProperties DEF Delete, Tables
    <2>3. rows[d][o] \in Versions
      BY <1>0
    <2>4. Buried(o, rows[d][o], Len(owner.deleted) + 1, rows[d], tombs[d]) \in [Objects -> Tomb]
      BY <1>0, <2>2, <2>3, BuriedType DEF Tomb
    <2>5. /\ rows' = [rows EXCEPT ![d] = Deleted(o, rows[d])]
          /\ tombs' = [tombs EXCEPT ![d] =
                         Buried(o, rows[d][o], Len(owner.deleted) + 1, rows[d], tombs[d])]
      BY <1>0, <1>2 DEF Delete
    <2> QED
      BY <1>0, <2>1, <2>4, <2>5
  <1>3. ASSUME Applied(d) PROVE Goal
    <2>1. Applying(d)
      BY <1>3 DEF Applied, ApplyEvent, ApplyStops, ToHandle
    <2>2. NextChange(d) \in Changes
      BY <2>1, NextEventFacts
    <2> DEFINE h == Handled(d, NextChange(d))
    <2>3. h.rows \in [Objects -> Versions] /\ h.tombs \in [Objects -> Tomb]
      BY <2>2, HandledTypes DEF Tomb
    <2>4. rows' = [rows EXCEPT ![d] = h.rows] /\ tombs' = [tombs EXCEPT ![d] = h.tombs]
      BY <1>3 DEF Applied, ApplyEvent, ApplyStops
    <2> HIDE DEF h
    <2> QED
      BY <1>0, <2>3, <2>4
  <1> QED
    BY <1>0, <1>1, <1>2, <1>3, Writers DEF WrittenBy, Editing

LEMMA EnqueueFacts ==
  ASSUME Tables, LinesHaveProjects, NEW d \in Devices, NEW n \in Nat, n <= Len(ToExport(d)),
         Enqueue(d, n)
  PROVE  /\ outbox' \in [Devices -> Seq(Pending)]
         /\ Len(outbox'[d]) = Len(outbox[d]) + n
         /\ \A i \in 1..Len(outbox[d]) : outbox'[d][i] = outbox[d][i]
         /\ \A i \in 1..n : outbox'[d][Len(outbox[d]) + i].change = ToExport(d)[i]
  <1> DEFINE t == [i \in 1..n |-> [change |-> ToExport(d)[i], late |-> 0]]
  <1>1. ToExport(d) \in Seq(Changes)
    BY ToExportFacts
  <1>2. \A i \in 1..n : ToExport(d)[i] \in Changes
    BY <1>1, ElementOfSeq, LenProperties
  <1>3. 0 \in 0..MaxFaults
    BY SyncBounds
  <1>4. \A i \in 1..n : t[i] \in Pending /\ t[i].change = ToExport(d)[i]
    BY <1>2, <1>3 DEF Pending
  <1>5. t \in Seq(Pending) /\ Len(t) = n
    BY <1>4
  <1>6. outbox \in [Devices -> Seq(Pending)] /\ outbox[d] \in Seq(Pending)
    BY DEF Tables
  <1>7. outbox' = [outbox EXCEPT ![d] = outbox[d] \o t]
    BY <1>6 DEF Enqueue
  <1> HIDE DEF t
  <1>8. /\ outbox[d] \o t \in Seq(Pending)
        /\ Len(outbox[d] \o t) = Len(outbox[d]) + n
        /\ \A i \in 1..Len(outbox[d]) : (outbox[d] \o t)[i] = outbox[d][i]
        /\ \A i \in 1..n : (outbox[d] \o t)[Len(outbox[d]) + i] = t[i]
    <2> DEFINE s == outbox[d]
    <2>1. s \in Seq(Pending) /\ t \in Seq(Pending) /\ Len(t) = n /\ Len(s) \in Nat
      BY <1>5, <1>6, LenProperties
    <2> HIDE DEF s
    <2>2. /\ s \o t \in Seq(Pending) /\ Len(s \o t) = Len(s) + n
          /\ \A i \in 1..Len(s) : (s \o t)[i] = s[i]
          /\ \A i \in 1..n : (s \o t)[Len(s) + i] = t[i]
      BY <2>1
    <2> QED
      BY <2>2 DEF s
  <1>9. outbox' \in [Devices -> Seq(Pending)] /\ outbox'[d] = outbox[d] \o t
    BY <1>6, <1>7, <1>8
  <1> QED
    BY <1>4, <1>8, <1>9

\* A row changes its backoff and nothing else.
LEMMA LateFacts ==
  ASSUME Tables, NEW d \in Devices,
         \/ \E n \in 0..PageSize : PushFails(d, n)
         \/ \E k \in 1..MaxFaults : Minute(d, k)
  PROVE  /\ outbox' \in [Devices -> Seq(Pending)]
         /\ Len(outbox'[d]) = Len(outbox[d])
         /\ \A i \in 1..Len(outbox[d]) : outbox'[d][i].change = outbox[d][i].change
  <1> DEFINE s == outbox[d]
  <1>1. outbox \in [Devices -> Seq(Pending)] /\ s \in Seq(Pending)
    BY DEF Tables
  <1>2. Len(s) \in Nat /\ DOMAIN s = 1..Len(s) /\ \A i \in 1..Len(s) : s[i] \in Pending
    BY <1>1, LenProperties, ElementOfSeq
  <1>3. ASSUME NEW f \in 0..MaxFaults, NEW q
        PROVE  LET t == [i \in DOMAIN s |-> IF q[i] THEN [s[i] EXCEPT !.late = f] ELSE s[i]]
               IN /\ t \in Seq(Pending) /\ Len(t) = Len(s)
                  /\ \A i \in 1..Len(s) : t[i].change = s[i].change
    <2> DEFINE Row(i) == IF q[i] THEN [s[i] EXCEPT !.late = f] ELSE s[i]
               t == [i \in 1..Len(s) |-> Row(i)]
    <2>1. ASSUME NEW i \in 1..Len(s) PROVE Row(i) \in Pending /\ Row(i).change = s[i].change
      <3>1. s[i] \in Pending
        BY <1>2
      <3>2. [s[i] EXCEPT !.late = f] \in Pending /\ [s[i] EXCEPT !.late = f].change = s[i].change
        BY <3>1 DEF Pending
      <3> QED
        BY <3>1, <3>2
    <2>2. [i \in DOMAIN s |-> IF q[i] THEN [s[i] EXCEPT !.late = f] ELSE s[i]] = t
      BY <1>2
    <2> HIDE DEF Row, s
    <2>3. t \in Seq(Pending) /\ Len(t) = Len(s) /\ \A i \in 1..Len(s) : t[i] = Row(i)
      BY <1>2, <2>1
    <2> HIDE DEF t
    <2> QED
      BY <2>1, <2>2, <2>3
  <1>4. PICK t : /\ t \in Seq(Pending) /\ Len(t) = Len(s)
                 /\ \A i \in 1..Len(s) : t[i].change = s[i].change
                 /\ outbox' = [outbox EXCEPT ![d] = t]
    <2>1. CASE \E n \in 0..PageSize : PushFails(d, n)
      <3> DEFINE f == owner'.faults
                 q == [i \in DOMAIN s |-> Key(s[i].change) \in Sent(d)]
                 t == [i \in DOMAIN s |-> IF q[i] THEN [s[i] EXCEPT !.late = f] ELSE s[i]]
      <3>1. f \in 0..MaxFaults
        BY <2>1, SyncBounds DEF PushFails, Fault, Tables
      <3>2. outbox' = [outbox EXCEPT ![d] = Backoff(d, f)]
        BY <2>1 DEF PushFails
      <3>3. Backoff(d, f) = t
        BY DEF Backoff
      <3> HIDE DEF q, f, s
      <3>4. t \in Seq(Pending) /\ Len(t) = Len(s) /\ \A i \in 1..Len(s) : t[i].change = s[i].change
        BY <1>3, <3>1
      <3> HIDE DEF t
      <3> QED
        BY <3>2, <3>3, <3>4
    <2>2. CASE \E k \in 1..MaxFaults : Minute(d, k)
      <3>1. PICK k \in 1..MaxFaults : Minute(d, k)
        BY <2>2
      <3> DEFINE q == [i \in DOMAIN s |-> s[i].late <= k]
                 t == [i \in DOMAIN s |-> IF q[i] THEN [s[i] EXCEPT !.late = 0] ELSE s[i]]
      <3>2. 0 \in 0..MaxFaults
        BY SyncBounds
      <3>3. outbox' = [outbox EXCEPT ![d] = DueAgain(d, k)]
        BY <3>1 DEF Minute
      <3>4. DueAgain(d, k) = t
        BY DEF DueAgain
      <3> HIDE DEF q, s
      <3>5. t \in Seq(Pending) /\ Len(t) = Len(s) /\ \A i \in 1..Len(s) : t[i].change = s[i].change
        BY <1>3, <3>2
      <3> HIDE DEF t
      <3> QED
        BY <3>3, <3>4, <3>5
    <2> QED
      BY <2>1, <2>2
  <1>5. outbox' \in [Devices -> Seq(Pending)] /\ outbox'[d] = t
    BY <1>1, <1>4
  <1> QED
    BY <1>4, <1>5

\* A push removes what was sent and keeps the rest in its order.
LEMMA RemovedFacts ==
  ASSUME Tables, NEW d \in Devices, Push(d)
  PROVE  /\ outbox' \in [Devices -> Seq(Pending)]
         /\ \A k \in 1..Len(outbox[d]) :
              \/ Key(outbox[d][k].change) \in Sent(d)
              \/ \E i \in 1..Len(outbox'[d]) : outbox'[d][i] = outbox[d][k]
         /\ \A i \in 1..Len(outbox'[d]) : \E k \in 1..Len(outbox[d]) :
              /\ outbox'[d][i] = outbox[d][k]
              /\ \A m \in 1..k - 1 : \/ Key(outbox[d][m].change) \in Sent(d)
                                     \/ \E j \in 1..i - 1 : outbox'[d][j] = outbox[d][m]
  <1> DEFINE s == outbox[d]
             q == {i \in DOMAIN s : Key(s[i].change) \notin Sent(d)}
             t == Only(s, q)
  <1>1. outbox \in [Devices -> Seq(Pending)] /\ s \in Seq(Pending)
    BY DEF Tables
  <1>2. outbox' = [outbox EXCEPT ![d] = t]
    BY <1>1 DEF Push
  <1>3. Len(s) \in Nat /\ \A i \in 1..Len(s) : i \in q <=> Key(s[i].change) \notin Sent(d)
    BY <1>1, LenProperties
  <1> HIDE DEF q, s
  <1>4. /\ t \in Seq(Pending)
        /\ \A k \in 1..Len(s) : k \in q => \E i \in 1..Len(t) : t[i] = s[k]
        /\ \A i \in 1..Len(t) : \E k \in 1..Len(s) :
              /\ k \in q /\ t[i] = s[k]
              /\ \A m \in 1..k - 1 : m \in q => \E j \in 1..i - 1 : t[j] = s[m]
    <2>1. ASSUME NEW S, s \in Seq(S)
          PROVE  /\ t \in Seq(S)
                 /\ \A k \in 1..Len(s) : k \in q => \E i \in 1..Len(t) : t[i] = s[k]
                 /\ \A i \in 1..Len(t) : \E k \in 1..Len(s) :
                       /\ k \in q /\ t[i] = s[k]
                       /\ \A m \in 1..k - 1 : m \in q => \E j \in 1..i - 1 : t[j] = s[m]
      BY <2>1, OnlyContents
    <2> QED
      BY <1>1, <2>1
  <1> HIDE DEF t
  <1>5. outbox' \in [Devices -> Seq(Pending)] /\ outbox'[d] = t
    BY <1>1, <1>2, <1>4
  <1>6. \A k \in 1..Len(s) : Key(s[k].change) \in Sent(d) \/ \E i \in 1..Len(t) : t[i] = s[k]
    BY <1>3, <1>4
  <1>7. ASSUME NEW i \in 1..Len(t)
        PROVE  \E k \in 1..Len(s) :
                 /\ t[i] = s[k]
                 /\ \A m \in 1..k - 1 : \/ Key(s[m].change) \in Sent(d)
                                        \/ \E j \in 1..i - 1 : t[j] = s[m]
    <2>1. PICK k \in 1..Len(s) :
              /\ k \in q /\ t[i] = s[k]
              /\ \A m \in 1..k - 1 : m \in q => \E j \in 1..i - 1 : t[j] = s[m]
      BY <1>4
    <2>2. \A m \in 1..k - 1 : m \in 1..Len(s)
      BY <1>3
    <2> QED
      BY <1>3, <2>1, <2>2
  <1>8. t = outbox'[d] /\ s = outbox[d]
    BY <1>5 DEF s
  <1>9. \A k \in 1..Len(outbox[d]) :
          \/ Key(outbox[d][k].change) \in Sent(d)
          \/ \E i \in 1..Len(outbox'[d]) : outbox'[d][i] = outbox[d][k]
    BY ONLY <1>6, <1>8, Zenon
  <1>10. ASSUME NEW i \in 1..Len(outbox'[d])
         PROVE  \E k \in 1..Len(outbox[d]) :
                  /\ outbox'[d][i] = outbox[d][k]
                  /\ \A m \in 1..k - 1 : \/ Key(outbox[d][m].change) \in Sent(d)
                                         \/ \E j \in 1..i - 1 : outbox'[d][j] = outbox[d][m]
    <2>1. i \in 1..Len(t)
      BY <1>8, <1>10
    <2>2. PICK k \in 1..Len(s) :
              /\ t[i] = s[k]
              /\ \A m \in 1..k - 1 : \/ Key(s[m].change) \in Sent(d)
                                     \/ \E j \in 1..i - 1 : t[j] = s[m]
      BY <1>7, <2>1
    <2>3. k \in 1..Len(outbox[d]) /\ outbox'[d][i] = outbox[d][k]
      BY <1>8, <2>2
    <2>4. \A m \in 1..k - 1 : \/ Key(outbox[d][m].change) \in Sent(d)
                             \/ \E j \in 1..i - 1 : outbox'[d][j] = outbox[d][m]
      BY ONLY <1>8, <2>2
    <2> QED
      BY <2>3, <2>4
  <1>11. outbox' \in [Devices -> Seq(Pending)]
    BY <1>5
  <1> QED
    BY ONLY <1>9, <1>10, <1>11

LEMMA OutboxTyped ==
  ASSUME Tables, LinesHaveProjects, NEW d \in Devices, Step(d)
  PROVE  outbox' \in [Devices -> Seq(Pending)]
  <1>1. ToExport(d) \in Seq(Changes) /\ Len(ToExport(d)) \in Nat
    BY ToExportFacts, LenProperties
  <1>2. CASE Export(d)
    BY <1>1, <1>2, EnqueueFacts DEF Export
  <1>3. ASSUME NEW n \in 0..(2 * Len(Order)), ExportStops(d, n)
        PROVE  outbox' \in [Devices -> Seq(Pending)]
    <2>1. n \in Nat /\ n <= Len(ToExport(d)) /\ Enqueue(d, n)
      BY <1>1, <1>3, OrderFacts DEF ExportStops
    <2> QED
      BY <2>1, EnqueueFacts
  <1>4. CASE Push(d)
    BY <1>4, RemovedFacts
  <1>5. CASE \E n \in 0..PageSize : PushFails(d, n)
    BY <1>5, LateFacts
  <1>6. CASE \E k \in 1..MaxFaults : Minute(d, k)
    BY <1>6, LateFacts
  <1>7. CASE UNCHANGED outbox
    BY <1>7 DEF Tables
  <1> QED
    BY <1>2, <1>3, <1>4, <1>5, <1>6, <1>7, Writers DEF WrittenBy
-----------------------------------------------------------------------------
LEMMA DoneTyped ==
  ASSUME Tables, KnownPlaces, PageInHand, NEW d \in Devices, Step(d)
  PROVE  done' \in [Devices -> SUBSET Keys]
  <1>0. done \in [Devices -> SUBSET Keys]
    BY DEF Tables
  <1>1. Sent(d) \subseteq Keys /\ \A i \in 1..Len(Batch(d)) : Key(Batch(d)[i]) \in Keys
    <2>1. \A i \in 1..Len(Batch(d)) : Batch(d)[i] \in Changes
      BY BatchFacts, ElementOfSeq, LenProperties
    <2> QED
      BY <2>1, BatchFacts DEF Keys
  <1>2. CASE Push(d)
    BY <1>0, <1>1, <1>2 DEF Push
  <1>3. ASSUME NEW n \in 0..PageSize, NEW m \in 0..PageSize, PushStops(d, n, m)
        PROVE  done' \in [Devices -> SUBSET Keys]
    <2>1. \A i \in 1..m : i \in 1..Len(Batch(d))
      BY <1>3, BatchFacts, LenProperties DEF PushStops
    <2>2. {Key(Batch(d)[i]) : i \in 1..m} \subseteq Keys
      BY <1>1, <2>1
    <2>3. done' = [done EXCEPT ![d] = done[d] \cup {Key(Batch(d)[i]) : i \in 1..m}]
      BY <1>0, <1>3 DEF PushStops
    <2> QED
      BY <1>0, <2>2, <2>3
  <1>4. CASE Applied(d)
    <2>1. Applying(d)
      BY <1>4 DEF Applied, ApplyEvent, ApplyStops, ToHandle
    <2>2. Key(NextChange(d)) \in Keys
      BY <2>1, NextEventFacts DEF Keys
    <2>3. \/ done' = [done EXCEPT ![d] = done[d] \cup {Key(NextChange(d))}]
          \/ done' = [done EXCEPT ![d] = done[d]]
      BY <1>0, <1>4 DEF Applied, ApplyEvent, ApplyStops
    <2> QED
      BY <1>0, <2>2, <2>3
  <1> QED
    BY <1>0, <1>2, <1>3, <1>4, Writers DEF WrittenBy

LEMMA SeenTyped ==
  ASSUME Tables, KnownPlaces, PageInHand, NEW d \in Devices, Step(d)
  PROVE  /\ seen' \in [Devices -> SUBSET Nat] /\ seen'[d] \subseteq Places
         /\ Upgrade(d) \/ seen[d] \subseteq seen'[d]
         /\ conflicts' \in [Devices -> SUBSET Objects]
  <1>0. /\ seen \in [Devices -> SUBSET Nat] /\ conflicts \in [Devices -> SUBSET Objects]
        /\ seen[d] \subseteq Places /\ Places \subseteq Nat
    BY DEF Tables, KnownPlaces, Places
  <1> DEFINE Goal == /\ seen' \in [Devices -> SUBSET Nat] /\ seen'[d] \subseteq Places
                     /\ seen[d] \subseteq seen'[d]
                     /\ conflicts' \in [Devices -> SUBSET Objects]
  <1>1. ASSUME ApplyEvent(d) PROVE Goal
    <2>1. NextEvent(d) \in Places /\ NextChange(d) \in Changes
      BY <1>1, NextEventFacts DEF ApplyEvent, ToHandle
    <2>2. NextChange(d).obj \in Objects
      BY <2>1 DEF Changes
    <2>3. /\ \/ seen' = [seen EXCEPT ![d] = seen[d] \cup {NextEvent(d)}]
             \/ seen' = [seen EXCEPT ![d] = seen[d]]
          /\ \/ conflicts' = [conflicts EXCEPT ![d] = conflicts[d] \cup {NextChange(d).obj}]
             \/ conflicts' = [conflicts EXCEPT ![d] = conflicts[d]]
      BY <1>0, <1>1 DEF ApplyEvent
    <2>4. /\ seen' \in [Devices -> SUBSET Nat] /\ seen'[d] \subseteq Places
          /\ seen[d] \subseteq seen'[d]
      BY <1>0, <2>1, <2>3
    <2>5. conflicts' \in [Devices -> SUBSET Objects]
      BY <1>0, <2>2, <2>3
    <2> QED
      BY <2>4, <2>5
  <1>2. ASSUME Quarantine(d) PROVE Goal
    <2> DEFINE e == Head(run[d].waiting)
    <2>1. e \in Places /\ log[e].change.obj \in Objects
      BY <1>2, FirstWaitingFacts DEF Changes
    <2>2. /\ seen' = [seen EXCEPT ![d] = seen[d] \cup {e}]
          /\ conflicts' = [conflicts EXCEPT ![d] = conflicts[d] \cup {log[e].change.obj}]
      BY <1>0, <1>2 DEF Quarantine
    <2> HIDE DEF e
    <2>3. /\ seen' \in [Devices -> SUBSET Nat] /\ seen'[d] \subseteq Places
          /\ seen[d] \subseteq seen'[d]
      BY <1>0, <2>1, <2>2
    <2>4. conflicts' \in [Devices -> SUBSET Objects]
      BY <1>0, <2>1, <2>2
    <2> QED
      BY <2>3, <2>4
  <1>3. ASSUME Upgrade(d)
        PROVE  /\ seen' \in [Devices -> SUBSET Nat] /\ seen'[d] = {}
               /\ conflicts' \in [Devices -> SUBSET Objects]
    BY <1>0, <1>3 DEF Upgrade
  <1> QED
    BY <1>0, <1>1, <1>2, <1>3, Writers DEF WrittenBy

LEMMA StateTyped ==
  ASSUME Tables, KnownPlaces, NEW d \in Devices, Step(d)
  PROVE  /\ state' \in [Devices -> [cursor: Nat, replay: BOOLEAN]]
         /\ state'[d].cursor <= Len(log)
  <1>0. /\ state \in [Devices -> [cursor: Nat, replay: BOOLEAN]]
        /\ state[d] \in [cursor: Nat, replay: BOOLEAN] /\ state[d].cursor <= Len(log)
        /\ run[d].cursor \in Nat /\ run[d].cursor <= Len(log) /\ Len(log) \in Nat
    BY LenProperties DEF Tables, KnownPlaces, Runs
  <1> DEFINE Goal == /\ state' \in [Devices -> [cursor: Nat, replay: BOOLEAN]]
                     /\ state'[d].cursor <= Len(log)
  <1>1. ASSUME Upgrade(d) PROVE Goal
    BY <1>0, <1>1 DEF Upgrade
  <1>2. ASSUME NextPage(d) \/ LastPage(d) PROVE Goal
    <2>1. PICK c \in Nat : c <= Len(log) /\ state' = [state EXCEPT ![d].cursor = c]
      BY <1>0, <1>2 DEF NextPage, LastPage
    <2> QED
      BY <1>0, <2>1
  <1>3. ASSUME CompleteReplay(d) PROVE Goal
    <2>1. state' = [state EXCEPT ![d].replay = FALSE]
      BY <1>3 DEF CompleteReplay
    <2> QED
      BY <1>0, <2>1
  <1>4. ASSUME UNCHANGED state PROVE Goal
    BY <1>0, <1>4
  <1> HIDE DEF Goal
  <1>5. Goal
    BY <1>1, <1>2, <1>3, <1>4, Writers DEF WrittenBy
  <1> QED
    BY <1>5 DEF Goal

LEMMA OwnerTyped ==
  ASSUME Tables, NEW d \in Devices, Step(d)
  PROVE  /\ owner' \in [versions: SUBSET Versions, deleted: Seq(Objects), faults: 0..MaxFaults]
         /\ Len(owner'.deleted) <= MaxDeletions
  <1> DEFINE Owners == [versions: SUBSET Versions, deleted: Seq(Objects), faults: 0..MaxFaults]
  <1>0. owner \in Owners /\ Len(owner.deleted) <= MaxDeletions /\ Len(owner.deleted) \in Nat
        /\ owner.deleted \in Seq(Objects)
    BY LenProperties DEF Tables
  <1>1. ASSUME NEW o \in Objects, Delete(d, o)
        PROVE  owner' \in Owners /\ Len(owner'.deleted) <= MaxDeletions
    <2> DEFINE more == Append(owner.deleted, o)
    <2>1. more \in Seq(Objects) /\ Len(more) <= MaxDeletions
      BY <1>0, <1>1, SyncBounds DEF Delete
    <2>2. owner' = [owner EXCEPT !.deleted = more]
      BY <1>1 DEF Delete
    <2> HIDE DEF more
    <2> QED
      BY <1>0, <2>1, <2>2
  <1>2. ASSUME NEW o \in Objects, NEW v \in Versions, Edit(d, o, v)
        PROVE  owner' \in Owners /\ Len(owner'.deleted) <= MaxDeletions
    <2>1. owner.versions \cup {v} \in SUBSET Versions
      BY <1>0
    <2>2. owner' = [owner EXCEPT !.versions = owner.versions \cup {v}]
      BY <1>2 DEF Edit
    <2> QED
      BY <1>0, <2>1, <2>2
  <1>3. ASSUME owner.faults < MaxFaults, owner' = [owner EXCEPT !.faults = @ + 1]
        PROVE  owner' \in Owners /\ Len(owner'.deleted) <= MaxDeletions
    <2>1. owner.faults + 1 \in 0..MaxFaults
      BY <1>0, <1>3, SyncBounds
    <2>2. owner' = [owner EXCEPT !.faults = owner.faults + 1]
      BY <1>3
    <2> QED
      BY <1>0, <2>1, <2>2
  <1> QED
    BY <1>0, <1>1, <1>2, <1>3, Writers DEF WrittenBy, Editing

LEMMA KeepsTables ==
  ASSUME Tables, KnownPlaces, PageInHand, LinesHaveProjects, NEW d \in Devices, Step(d)
  PROVE  Tables'
  <1>1. log' \in Seq(Entries)
    BY LogGrowsStep DEF LogGrows
  <1>2. rows' \in [Devices -> [Objects -> Versions]]
        /\ tombs' \in [Devices -> [Objects -> [ver: Versions, by: 0..MaxDeletions]]]
    BY RowsTyped DEF Tomb
  <1>3. outbox' \in [Devices -> Seq(Pending)]
    BY OutboxTyped
  <1>4. done' \in [Devices -> SUBSET Keys]
    BY DoneTyped
  <1>5. seen' \in [Devices -> SUBSET Nat] /\ conflicts' \in [Devices -> SUBSET Objects]
    BY SeenTyped
  <1>6. state' \in [Devices -> [cursor: Nat, replay: BOOLEAN]]
    BY StateTyped
  <1>7. run' \in [Devices -> Runs]
    BY StillSteps
  <1>8. /\ owner' \in [versions: SUBSET Versions, deleted: Seq(Objects), faults: 0..MaxFaults]
        /\ Len(owner'.deleted) <= MaxDeletions
    BY OwnerTyped
  <1> QED
    BY <1>1, <1>2, <1>3, <1>4, <1>5, <1>6, <1>7, <1>8 DEF Tables
-----------------------------------------------------------------------------
(* What a run has in hand *)

LEMMA FirstFacts ==
  ASSUME NEW s \in Seq(Nat), s # <<>>, \A i, j \in DOMAIN s : i < j => s[i] < s[j]
  PROVE  /\ Range(s) = Range(Tail(s)) \cup {Head(s)}
         /\ \A x \in Range(s) : x \in Nat /\ Head(s) <= x
         /\ \A i, j \in DOMAIN Tail(s) : i < j => Tail(s)[i] < Tail(s)[j]
         /\ \A i \in DOMAIN Tail(s) : Head(s) < Tail(s)[i]
  <1>1. /\ Head(s) = s[1] /\ Tail(s) \in Seq(Nat) /\ Len(s) \in Nat \ {0}
        /\ DOMAIN s = 1..Len(s) /\ DOMAIN Tail(s) = 1..Len(s) - 1
        /\ \A i \in 1..Len(s) - 1 : Tail(s)[i] = s[i + 1]
    BY HeadFacts
  <1>2. \A i \in 1..Len(s) : s[i] \in Nat
    BY ElementOfSeq, <1>1
  <1> DEFINE n == Len(s)
             t == Tail(s)
  <1>3. n \in Nat \ {0} /\ DOMAIN s = 1..n /\ DOMAIN t = 1..n - 1
        /\ \A i \in 1..n - 1 : t[i] = s[i + 1]
    BY <1>1
  <1> HIDE DEF n, t
  <1>4. \A i \in 1..n : i = 1 \/ (i - 1 \in 1..n - 1 /\ t[i - 1] = s[i])
    BY <1>3
  <1>5. \A i \in 1..n - 1 : i + 1 \in 1..n /\ 1 < i + 1
    BY <1>3
  <1>6. Range(s) = Range(t) \cup {s[1]}
    <2>1. ASSUME NEW i \in 1..n PROVE s[i] \in Range(t) \cup {s[1]}
      BY <1>3, <1>4 DEF Range
    <2>2. ASSUME NEW i \in 1..n - 1 PROVE t[i] \in Range(s)
      BY <1>3, <1>5 DEF Range
    <2>3. s[1] \in Range(s)
      BY <1>3 DEF Range
    <2>4. Range(s) \subseteq Range(t) \cup {s[1]}
      BY <1>3, <2>1 DEF Range
    <2>5. Range(t) \subseteq Range(s)
      BY <1>3, <2>2 DEF Range
    <2> QED
      BY <2>3, <2>4, <2>5
  <1>7. \A i \in 1..n : s[i] \in Nat /\ s[1] <= s[i]
    <2>1. 1 \in 1..n /\ \A i \in 1..n : i = 1 \/ 1 < i
      BY <1>3
    <2>2. \A i \in 1..n : i = 1 \/ s[1] < s[i]
      BY <1>3, <2>1
    <2> QED
      BY <1>2, <2>1, <2>2 DEF n
  <1>8. ASSUME NEW i \in 1..n - 1, NEW j \in 1..n - 1, i < j PROVE t[i] < t[j]
    <2>1. i + 1 \in DOMAIN s /\ j + 1 \in DOMAIN s /\ i + 1 < j + 1
      BY <1>3, <1>8
    <2> QED
      BY <1>3, <2>1
  <1>9. \A i \in 1..n - 1 : s[1] < t[i]
    BY <1>3, <1>5
  <1>10. Range(s) = Range(t) \cup {Head(s)}
    BY <1>1, <1>6
  <1>11. \A x \in Range(s) : \E i \in 1..n : x = s[i]
    BY <1>3 DEF Range
  <1>12. \A x \in Range(s) : x \in Nat /\ Head(s) <= x
    BY <1>1, <1>7, <1>11
  <1>13. \A i, j \in DOMAIN t : i < j => t[i] < t[j]
    BY <1>3, <1>8
  <1>14. \A i \in DOMAIN t : Head(s) < t[i]
    BY <1>1, <1>3, <1>9
  <1> QED
    BY <1>10, <1>12, <1>13, <1>14 DEF t

LEMMA LastFacts ==
  ASSUME NEW s \in Seq(Nat), NEW x \in Nat
  PROVE  /\ Append(s, x) \in Seq(Nat) /\ Range(Append(s, x)) = Range(s) \cup {x}
         /\ (\A i, j \in DOMAIN s : i < j => s[i] < s[j]) /\ (\A i \in DOMAIN s : s[i] < x)
            => \A i, j \in DOMAIN Append(s, x) : i < j => Append(s, x)[i] < Append(s, x)[j]
  <1> DEFINE n == Len(s)
             t == Append(s, x)
  <1>1. /\ t \in Seq(Nat) /\ n \in Nat /\ DOMAIN s = 1..n /\ DOMAIN t = 1..n + 1
        /\ t[n + 1] = x /\ \A i \in 1..n : t[i] = s[i]
    BY LenProperties, AppendProperties
  <1> HIDE DEF n, t
  <1>2. \A i \in 1..n + 1 : i \in 1..n \/ i = n + 1
    BY <1>1
  <1>3. \A i \in 1..n : i \in 1..n + 1
    BY <1>1
  <1>4. Range(t) = Range(s) \cup {x}
    <2>1. Range(t) \subseteq Range(s) \cup {x}
      BY <1>1, <1>2 DEF Range
    <2>2. Range(s) \cup {x} \subseteq Range(t)
      <3>1. \A i \in 1..n : s[i] \in Range(t)
        BY <1>1, <1>3 DEF Range
      <3>2. x \in Range(t)
        BY <1>1 DEF Range
      <3> QED
        BY <1>1, <3>1, <3>2 DEF Range
    <2> QED
      BY <2>1, <2>2
  <1>5. ASSUME \A i, j \in DOMAIN s : i < j => s[i] < s[j], \A i \in DOMAIN s : s[i] < x,
               NEW i \in DOMAIN t, NEW j \in DOMAIN t, i < j
        PROVE  t[i] < t[j]
    <2>1. i \in 1..n
      BY <1>1, <1>5
    <2> QED
      BY <1>1, <1>2, <1>5, <2>1
  <1> QED
    BY <1>1, <1>4, <1>5 DEF t

\* The next event moves to what waits, or goes.
LEMMA LookKeepsOrder ==
  ASSUME NEW w \in Seq(Nat), NEW t \in Seq(Nat), t # <<>>, Rising(w, t)
  PROVE  /\ Rising(w, Tail(t)) /\ Rising(Append(w, Head(t)), Tail(t))
         /\ Range(t) = Range(Tail(t)) \cup {Head(t)}
         /\ Range(Append(w, Head(t))) = Range(w) \cup {Head(t)}
         /\ \A x \in Range(t) : x \in Nat /\ Head(t) <= x
  <1> DEFINE h == Head(t)
             v == Append(w, h)
             u == Tail(t)
  <1>1. /\ \A i, j \in DOMAIN w : i < j => w[i] < w[j]
        /\ \A i, j \in DOMAIN t : i < j => t[i] < t[j]
        /\ \A i \in DOMAIN w, j \in DOMAIN t : w[i] < t[j]
    BY DEF Rising
  <1>2. /\ Range(t) = Range(u) \cup {h} /\ \A x \in Range(t) : x \in Nat /\ h <= x
        /\ \A i, j \in DOMAIN u : i < j => u[i] < u[j]
        /\ \A i \in DOMAIN u : h < u[i]
    BY <1>1, FirstFacts
  <1>3. h = t[1] /\ 1 \in DOMAIN t /\ h \in Nat /\ u \in Seq(Nat)
        /\ \A i \in DOMAIN u : i + 1 \in DOMAIN t /\ u[i] = t[i + 1]
    <2>1. /\ h = t[1] /\ 1 \in DOMAIN t /\ h \in Nat /\ u \in Seq(Nat) /\ Len(t) \in Nat \ {0}
          /\ DOMAIN t = 1..Len(t) /\ DOMAIN u = 1..Len(t) - 1
          /\ \A i \in 1..Len(t) - 1 : u[i] = t[i + 1]
      BY HeadFacts
    <2>2. \A i \in 1..Len(t) - 1 : i + 1 \in 1..Len(t)
      BY <2>1
    <2> QED
      BY <2>1, <2>2
  <1>4. \A i \in DOMAIN w : w[i] < h
    BY <1>1, <1>3
  <1>5. \A i \in DOMAIN w, j \in DOMAIN u : w[i] < u[j]
    BY <1>1, <1>3
  <1>6. /\ Range(v) = Range(w) \cup {h} /\ v \in Seq(Nat)
        /\ \A i, j \in DOMAIN v : i < j => v[i] < v[j]
    BY <1>1, <1>3, <1>4, LastFacts
  <1>7. \A i \in DOMAIN v, j \in DOMAIN u : v[i] < u[j]
    <2> SUFFICES ASSUME NEW i \in DOMAIN v, NEW j \in DOMAIN u PROVE v[i] < u[j]
      OBVIOUS
    <2>1. v[i] \in Range(w) \cup {h}
      BY <1>6 DEF Range
    <2>2. CASE v[i] = h
      BY <1>2, <2>2
    <2>3. CASE v[i] \in Range(w)
      <3>1. PICK k \in DOMAIN w : w[k] = v[i]
        BY <2>3 DEF Range
      <3> QED
        BY <1>5, <3>1
    <2> QED
      BY <2>1, <2>2, <2>3
  <1> HIDE DEF v, u, h
  <1>8. Rising(w, u) /\ Rising(v, u)
    BY <1>1, <1>2, <1>5, <1>6, <1>7 DEF Rising
  <1> QED
    BY <1>2, <1>6, <1>8 DEF v, u, h

\* A page goes behind what waits.
LEMMA PageKeepsOrder ==
  ASSUME NEW w \in Seq(Nat), NEW page \in Seq(Nat), NEW c \in Nat,
         Rising(w, <<>>), Range(w) \subseteq 1..c,
         \A i \in 1..Len(page) : page[i] = c + i
  PROVE  /\ Rising(<<>>, w \o page) /\ Range(w \o page) = Range(w) \cup c + 1..c + Len(page)
  <1> DEFINE n == Len(w)
             m == Len(page)
             t == w \o page
  <1>1. /\ n \in Nat /\ m \in Nat /\ DOMAIN w = 1..n /\ DOMAIN t = 1..n + m
        /\ \A i \in 1..n : t[i] = w[i] /\ w[i] \in 1..c
        /\ \A i \in 1..m : t[n + i] = c + i
    <2>1. n \in Nat /\ m \in Nat /\ DOMAIN w = 1..n
      BY LenProperties
    <2>2. /\ t \in Seq(Nat) /\ Len(t) = n + m
          /\ \A i \in 1..n + m : t[i] = IF i <= n THEN w[i] ELSE page[i - n]
      BY ConcatProperties
    <2>3. DOMAIN t = 1..n + m
      BY <2>2, LenProperties
    <2>4. \A i \in 1..n : w[i] \in 1..c
      BY <2>1 DEF Range
    <2> HIDE DEF n, m, t
    <2>5. \A i \in 1..n : i \in 1..n + m /\ i <= n
      BY <2>1
    <2>6. \A i \in 1..m : n + i \in 1..n + m /\ ~ (n + i <= n) /\ (n + i) - n = i
      BY <2>1
    <2> QED
      BY <2>1, <2>2, <2>3, <2>4, <2>5, <2>6 DEF m
  <1>2. \A i, j \in 1..n : i < j => w[i] < w[j]
    BY <1>1 DEF Rising
  <1> HIDE DEF n, m, t
  <1>3. \A i \in 1..n + m : i \in 1..n \/ (i - n \in 1..m /\ t[i] = c + (i - n))
    <2> SUFFICES ASSUME NEW i \in 1..n + m, i \notin 1..n PROVE i - n \in 1..m /\ t[i] = c + (i - n)
      OBVIOUS
    <2>1. i - n \in 1..m /\ n + (i - n) = i
      BY <1>1
    <2> QED
      BY <1>1, <2>1
  <1>4. ASSUME NEW i \in 1..n + m, NEW j \in 1..n + m, i < j PROVE t[i] < t[j]
    <2>1. CASE j \in 1..n
      <3>1. i \in 1..n
        BY <1>1, <1>4, <2>1
      <3> QED
        BY <1>1, <1>2, <1>4, <2>1, <3>1
    <2>2. CASE j \notin 1..n
      <3>1. j - n \in 1..m /\ t[j] = c + (j - n)
        BY <1>3, <2>2
      <3>2. CASE i \in 1..n
        <4>1. t[i] \in 1..c
          BY <1>1, <3>2
        <4> QED
          BY <1>1, <3>1, <4>1
      <3>3. CASE i \notin 1..n
        <4>1. i - n \in 1..m /\ t[i] = c + (i - n)
          BY <1>3, <3>3
        <4> QED
          BY <1>1, <1>4, <3>1, <4>1
      <3> QED
        BY <3>2, <3>3
    <2> QED
      BY <2>1, <2>2
  <1>5. Range(t) = Range(w) \cup c + 1..c + m
    <2>1. ASSUME NEW i \in 1..n + m PROVE t[i] \in Range(w) \cup c + 1..c + m
      <3>1. CASE i \in 1..n
        BY <1>1, <3>1 DEF Range
      <3>2. CASE i \notin 1..n
        <4>1. i - n \in 1..m /\ t[i] = c + (i - n)
          BY <1>3, <3>2
        <4> QED
          BY <1>1, <4>1
      <3> QED
        BY <3>1, <3>2
    <2>2. ASSUME NEW i \in 1..n PROVE w[i] \in Range(t)
      <3>1. i \in 1..n + m /\ t[i] = w[i]
        BY <1>1
      <3> QED
        BY <1>1, <3>1 DEF Range
    <2>3. ASSUME NEW x \in c + 1..c + m PROVE x \in Range(t)
      <3>1. PICK k \in 1..m : c + k = x
        <4>1. x - c \in 1..m /\ c + (x - c) = x
          BY <1>1
        <4> QED
          BY <4>1
      <3>2. n + k \in 1..n + m /\ t[n + k] = x
        <4>1. t[n + k] = c + k
          BY <1>1
        <4>2. n \in Nat /\ m \in Nat /\ k \in 1..m
          BY <1>1
        <4>3. n + k \in 1..n + m
          BY <4>2
        <4> QED
          BY <3>1, <4>1, <4>3
      <3> QED
        BY <1>1, <3>2 DEF Range
    <2>4. Range(t) \subseteq Range(w) \cup c + 1..c + m
      BY <1>1, <2>1 DEF Range
    <2>5. Range(w) \subseteq Range(t)
      BY <1>1, <2>2 DEF Range
    <2> QED
      BY <2>3, <2>4, <2>5
  <1>6. Rising(<<>>, t)
    <2>1. DOMAIN <<>> = {}
      OBVIOUS
    <2> QED
      BY <1>1, <1>4, <2>1 DEF Rising
  <1> QED
    BY <1>5, <1>6 DEF m, t
-----------------------------------------------------------------------------
(* No event is passed over *)

\* After a step, device d has in hand what it read and has not seen.
ReadsOn(d) ==
  /\ ReadSoFar(run'[d], seen'[d]) /\ run'[d].cursor <= Len(log)
  /\ 1..state'[d].cursor \subseteq seen'[d]

LEMMA FreshRead ==
  ASSUME NEW r, NEW known, Fresh(r) \/ (r.todo = <<>> /\ r.waiting = <<>>),
         r.pc \in {"pull", "apply"} => 1..r.cursor \subseteq known
  PROVE  ReadSoFar(r, known)
  <1>1. DOMAIN <<>> = {} /\ Range(<<>>) = {} /\ r.todo = <<>> /\ r.waiting = <<>>
    BY DEF Range, Fresh
  <1>2. Rising(r.waiting, r.todo) /\ InHand(r) = {}
    BY <1>1 DEF Rising, InHand
  <1> QED
    BY <1>1, <1>2 DEF ReadSoFar

LEMMA StillReads ==
  ASSUME Tables, KnownPlaces, PageInHand, CursorCovered, NEW d \in Devices, Still(d)
  PROVE  ReadsOn(d)
  <1>0. /\ ReadSoFar(run[d], seen[d]) /\ run[d] \in Runs /\ Len(log) \in Nat
        /\ run[d].cursor <= Len(log) /\ state[d].cursor <= Len(log)
        /\ state[d].cursor \in Nat /\ 1..state[d].cursor \subseteq seen[d]
    BY LenProperties DEF Tables, KnownPlaces, PageInHand, CursorCovered
  <1>1. 1..state'[d].cursor \subseteq seen'[d] /\ seen'[d] = seen[d]
    BY <1>0 DEF Still
  <1>2. CASE Fresh(run'[d]) /\ run'[d].pc \notin {"pull", "apply"}
    <2>1. ReadSoFar(run'[d], seen'[d])
      BY <1>2, FreshRead
    <2> QED
      BY <1>0, <1>1, <1>2, <2>1 DEF ReadsOn, Fresh
  <1>3. CASE /\ run'[d].todo = run[d].todo /\ run'[d].waiting = run[d].waiting
             /\ run'[d].cursor = run[d].cursor
             /\ \/ run'[d].pc = run[d].pc
                \/ run[d].pc \notin {"pull", "apply"} /\ run'[d].pc \notin {"pull", "apply"}
    <2>1. ReadSoFar(run'[d], seen'[d])
      BY <1>0, <1>1, <1>3 DEF ReadSoFar, InHand
    <2> QED
      BY <1>0, <1>1, <1>3, <2>1 DEF ReadsOn
  <1>4. CASE run[d].pc = "push" /\ run'[d] = Pulling(run[d], state[d].cursor)
    <2>1. /\ run'[d].pc = "pull" /\ run'[d].cursor = state[d].cursor
          /\ run'[d].todo = run[d].todo /\ run'[d].waiting = run[d].waiting
      <3> DEFINE r == run[d]
                 c == state[d].cursor
      <3>1. r \in Runs /\ c \in Nat /\ run'[d] = Pulling(r, c)
        BY <1>0, <1>4
      <3> HIDE DEF r, c
      <3>2. /\ Pulling(r, c).pc = "pull" /\ Pulling(r, c).cursor = c
            /\ Pulling(r, c).todo = r.todo /\ Pulling(r, c).waiting = r.waiting
        BY <3>1, PullingFacts
      <3> QED
        BY <3>1, <3>2 DEF r, c
    <2>2. run[d].todo = <<>> /\ run[d].waiting = <<>>
      BY <1>0, <1>4 DEF ReadSoFar
    <2>3. ReadSoFar(run'[d], seen'[d])
      BY <1>0, <1>1, <2>1, <2>2, FreshRead
    <2> QED
      BY <1>0, <1>1, <2>1, <2>3 DEF ReadsOn
  <1> QED
    BY <1>2, <1>3, <1>4 DEF Still

LEMMA PullReads ==
  ASSUME Tables, KnownPlaces, PageInHand, CursorCovered, NEW d \in Devices, Pull(d)
  PROVE  ReadsOn(d)
  <1> DEFINE r == run[d]
             c == r.cursor
             page == Page(c)
             s == Paged(r, page)
  <1>0. /\ ReadSoFar(r, seen[d]) /\ r \in Runs /\ r.pc = "pull" /\ run \in [Devices -> Runs]
        /\ c \in Nat /\ c <= Len(log) /\ Len(log) \in Nat /\ log \in Seq(Entries)
        /\ 1..state[d].cursor \subseteq seen[d] /\ r.waiting \in Seq(Nat)
    BY LenProperties DEF Tables, KnownPlaces, PageInHand, CursorCovered, Pull, Runs
  <1>1. /\ page \in Seq(Nat) /\ Len(page) \in Nat /\ c + Len(page) <= Len(log)
        /\ \A i \in 1..Len(page) : page[i] = c + i
    BY <1>0, PageFacts
  <1>2. UNCHANGED <<seen, state>> /\ run' = [run EXCEPT ![d] = Paged(r, page)]
    BY <1>0 DEF Pull
  <1> HIDE DEF page
  <1>3. /\ s.pc = "apply" /\ s.cursor = c + Len(page)
        /\ s.todo = r.waiting \o page /\ s.waiting = <<>>
    BY <1>0, <1>1, PagedFacts
  <1> HIDE DEF s
  <1>4. run'[d] = s
    BY <1>0, <1>2 DEF s
  <1>5. Rising(r.waiting, <<>>) /\ Range(r.waiting) \subseteq 1..c /\ 1..c \subseteq seen[d] \cup Range(r.waiting)
    <2>1. r.todo = <<>> /\ Range(<<>>) = {}
      BY <1>0 DEF ReadSoFar, Range
    <2> QED
      BY <1>0, <2>1 DEF ReadSoFar, InHand
  <1>6. Rising(<<>>, s.todo) /\ Range(s.todo) = Range(r.waiting) \cup c + 1..c + Len(page)
    <2> DEFINE w == r.waiting
    <2>1. w \in Seq(Nat) /\ Rising(w, <<>>) /\ Range(w) \subseteq 1..c
      BY <1>0, <1>5
    <2> HIDE DEF w, c
    <2>2. Rising(<<>>, w \o page) /\ Range(w \o page) = Range(w) \cup c + 1..c + Len(page)
      BY <1>0, <1>1, <2>1, PageKeepsOrder DEF c
    <2> QED
      BY <1>3, <2>2 DEF w
  <1>7. InHand(s) = Range(r.waiting) \cup c + 1..c + Len(page)
    <2>1. Range(<<>>) = {}
      BY DEF Range
    <2> QED
      BY <1>3, <1>6, <2>1 DEF InHand
  <1>8. InHand(s) \subseteq 1..s.cursor
    <2>1. \A x \in 1..c : x \in 1..c + Len(page)
      BY <1>0, <1>1
    <2>2. \A x \in c + 1..c + Len(page) : x \in 1..c + Len(page)
      BY <1>0, <1>1
    <2> QED
      BY <1>3, <1>5, <1>7, <2>1, <2>2
  <1>9. 1..s.cursor \subseteq seen[d] \cup InHand(s)
    <2>1. \A x \in 1..c + Len(page) : x \in 1..c \/ x \in c + 1..c + Len(page)
      BY <1>0, <1>1
    <2> QED
      BY <1>3, <1>5, <1>7, <2>1
  <1>10. ReadSoFar(s, seen[d])
    BY <1>3, <1>6, <1>8, <1>9 DEF ReadSoFar
  <1> QED
    BY <1>0, <1>1, <1>2, <1>3, <1>4, <1>10 DEF ReadsOn

\* A run that looked at an event has it in hand, or has seen it.
LEMMA PassReads ==
  ASSUME Tables, KnownPlaces, PageInHand, CursorCovered, NEW d \in Devices,
         NEW held \in BOOLEAN, Applying(d), Passed(d, held), state' = state,
         seen[d] \subseteq seen'[d], held \/ NextEvent(d) \in seen'[d]
  PROVE  ReadsOn(d)
  <1> DEFINE r == run[d]
             h == Head(r.todo)
             s == Looked(r, held)
             p == Pass(s)
  <1>0. /\ ReadSoFar(r, seen[d]) /\ r \in Runs /\ r.pc = "apply" /\ run \in [Devices -> Runs]
        /\ r.cursor <= Len(log) /\ r.todo \in Seq(Nat) /\ r.waiting \in Seq(Nat) /\ r.todo # <<>>
        /\ 1..state[d].cursor \subseteq seen[d] /\ h = NextEvent(d)
    BY DEF Tables, KnownPlaces, PageInHand, CursorCovered, Applying, Runs, NextEvent
  <1>1. run'[d] = p
    <2>1. run' = [run EXCEPT ![d] = Pass(Looked(r, held))]
      BY <1>0 DEF Passed, Looked
    <2> QED
      BY <1>0, <2>1
  <1>2. /\ s \in Runs /\ s.pc = "apply" /\ s.cursor = r.cursor
        /\ s.todo = Tail(r.todo) /\ s.waiting = Held(r, held)
    BY <1>0, LookedFacts
  <1> HIDE DEF s
  <1>3. /\ p.pc = "apply" /\ p.cursor = r.cursor
        /\ \/ p.todo = s.todo /\ p.waiting = s.waiting
           \/ s.todo = <<>> /\ p.todo = s.waiting /\ p.waiting = <<>>
    BY <1>2, PassFacts
  <1> HIDE DEF p
  <1>4. /\ Rising(r.waiting, Tail(r.todo)) /\ Rising(Append(r.waiting, h), Tail(r.todo))
        /\ Range(r.todo) = Range(Tail(r.todo)) \cup {h}
        /\ Range(Append(r.waiting, h)) = Range(r.waiting) \cup {h}
    <2> DEFINE w == r.waiting
               t == r.todo
    <2>1. w \in Seq(Nat) /\ t \in Seq(Nat) /\ t # <<>> /\ Rising(w, t)
      BY <1>0 DEF ReadSoFar
    <2> HIDE DEF w, t
    <2>2. /\ Rising(w, Tail(t)) /\ Rising(Append(w, Head(t)), Tail(t))
          /\ Range(t) = Range(Tail(t)) \cup {Head(t)}
          /\ Range(Append(w, Head(t))) = Range(w) \cup {Head(t)}
      BY <2>1, LookKeepsOrder
    <2> QED
      BY <2>2 DEF w, t
  <1>5. /\ Rising(s.waiting, s.todo)
        /\ InHand(s) = IF held THEN InHand(r) ELSE Range(r.waiting) \cup Range(Tail(r.todo))
    BY <1>2, <1>4 DEF Held, InHand
  <1>6. InHand(s) \subseteq InHand(r) /\ InHand(r) \subseteq InHand(s) \cup seen'[d]
    BY <1>0, <1>4, <1>5 DEF InHand
  <1>7. Rising(p.waiting, p.todo) /\ InHand(p) = InHand(s)
    <2>1. CASE p.todo = s.todo /\ p.waiting = s.waiting
      BY <1>5, <2>1 DEF InHand
    <2>2. CASE s.todo = <<>> /\ p.todo = s.waiting /\ p.waiting = <<>>
      <3>1. DOMAIN <<>> = {} /\ Range(<<>>) = {}
        BY DEF Range
      <3> QED
        BY <1>5, <2>2, <3>1 DEF InHand, Rising
    <2> QED
      BY <1>3, <2>1, <2>2
  <1>8. InHand(p) \subseteq 1..p.cursor /\ 1..p.cursor \subseteq seen'[d] \cup InHand(p)
    BY <1>0, <1>3, <1>6, <1>7 DEF ReadSoFar
  <1>9. ReadSoFar(p, seen'[d])
    BY <1>3, <1>7, <1>8 DEF ReadSoFar
  <1> QED
    BY <1>0, <1>1, <1>3, <1>9 DEF ReadsOn

LEMMA PageEndReads ==
  ASSUME Tables, KnownPlaces, PageInHand, CursorCovered, NEW d \in Devices,
         NextPage(d) \/ Quarantine(d) \/ LastPage(d)
  PROVE  ReadsOn(d)
  <1> DEFINE r == run[d]
  <1>0. /\ ReadSoFar(r, seen[d]) /\ r \in Runs /\ r.pc = "apply" /\ run \in [Devices -> Runs]
        /\ r.cursor <= Len(log) /\ r.cursor \in Nat /\ Len(log) \in Nat
        /\ r.waiting \in Seq(Nat) /\ r.todo = <<>>
        /\ 1..state[d].cursor \subseteq seen[d]
        /\ state \in [Devices -> [cursor: Nat, replay: BOOLEAN]]
        /\ seen \in [Devices -> SUBSET Nat]
    BY LenProperties
       DEF Tables, KnownPlaces, PageInHand, CursorCovered, NextPage, Quarantine, LastPage, PageEnd, Runs
  <1>1. Range(<<>>) = {} /\ DOMAIN <<>> = {}
    BY DEF Range
  <1>2. 1..r.cursor \subseteq seen[d] \cup Range(r.waiting)
    BY <1>0, <1>1 DEF ReadSoFar, InHand
  <1>3. CASE NextPage(d)
    <2> DEFINE s == [r EXCEPT !.pc = "pull"]
    <2>1. s.pc = "pull" /\ s.cursor = r.cursor /\ s.todo = r.todo /\ s.waiting = r.waiting /\ s \in Runs
      BY <1>0, StageFacts DEF Stages
    <2>2. UNCHANGED seen /\ run' = [run EXCEPT ![d] = s]
      BY <1>0, <1>3 DEF NextPage
    <2> HIDE DEF s
    <2>3. run'[d] = s /\ seen'[d] = seen[d]
      BY <1>0, <2>2
    <2>4. ReadSoFar(s, seen[d])
      BY <1>0, <2>1 DEF ReadSoFar, InHand
    <2>5. 1..state'[d].cursor \subseteq seen[d]
      <3>1. CASE r.waiting = <<>>
        <4>1. state' = [state EXCEPT ![d].cursor = r.cursor]
          BY <1>3, <3>1 DEF NextPage
        <4>2. state'[d].cursor = r.cursor
          BY <1>0, <4>1
        <4> QED
          BY <1>1, <1>2, <3>1, <4>2
      <3>2. CASE r.waiting # <<>>
        <4>1. state' = [state EXCEPT ![d].cursor = state[d].cursor]
          BY <1>0, <1>3, <3>2 DEF NextPage
        <4>2. state'[d].cursor = state[d].cursor
          BY <1>0, <4>1
        <4> QED
          BY <1>0, <4>2
      <3> QED
        BY <3>1, <3>2
    <2> QED
      BY <1>0, <2>1, <2>3, <2>4, <2>5 DEF ReadsOn
  <1>4. CASE Quarantine(d)
    <2> DEFINE w == r.waiting
               s == [r EXCEPT !.waiting = Tail(w)]
    <2>1. w \in Seq(Nat) /\ w # <<>> /\ Tail(w) \in Seq(Nat)
      BY <1>0, <1>4, HeadFacts DEF Quarantine
    <2>2. s.pc = "apply" /\ s.cursor = r.cursor /\ s.todo = <<>> /\ s.waiting = Tail(w)
      BY <1>0, <2>1 DEF Runs
    <2>3. /\ UNCHANGED state /\ run' = [run EXCEPT ![d] = s]
          /\ seen' = [seen EXCEPT ![d] = seen[d] \cup {Head(w)}]
      BY <1>0, <1>4 DEF Quarantine
    <2> HIDE DEF s
    <2>4. run'[d] = s /\ seen'[d] = seen[d] \cup {Head(w)}
      BY <1>0, <2>3
    <2>5. \A i, j \in DOMAIN w : i < j => w[i] < w[j]
      BY <1>0 DEF ReadSoFar, Rising
    <2> HIDE DEF w
    <2>6. /\ Range(w) = Range(Tail(w)) \cup {Head(w)}
          /\ \A i, j \in DOMAIN Tail(w) : i < j => Tail(w)[i] < Tail(w)[j]
      BY <2>1, <2>5, FirstFacts
    <2>7. Rising(s.waiting, s.todo) /\ InHand(s) = Range(Tail(w))
      BY <1>1, <2>2, <2>6 DEF Rising, InHand
    <2>8. InHand(s) \subseteq 1..s.cursor /\ 1..s.cursor \subseteq seen'[d] \cup InHand(s)
      BY <1>0, <1>2, <2>2, <2>4, <2>6, <2>7 DEF ReadSoFar, InHand, w
    <2>9. ReadSoFar(s, seen'[d])
      BY <2>2, <2>7, <2>8 DEF ReadSoFar
    <2> QED
      BY <1>0, <2>2, <2>3, <2>4, <2>9 DEF ReadsOn
  <1>5. CASE LastPage(d)
    <2> DEFINE x == IF state[d].replay THEN "replayed" ELSE "idle"
               s == [NoRun EXCEPT !.pc = x]
    <2>1. x \in Stages /\ x \notin {"pull", "apply"}
      BY DEF Stages
    <2> HIDE DEF x
    <2>2. s.pc = x /\ s.cursor = 0 /\ s.todo = <<>> /\ s.waiting = <<>>
      BY <2>1, NoRunFacts, StageFacts
    <2>3. /\ UNCHANGED seen /\ run' = [run EXCEPT ![d] = s] /\ r.waiting = <<>>
          /\ state' = [state EXCEPT ![d].cursor = r.cursor]
      BY <1>5 DEF LastPage, x
    <2> HIDE DEF s
    <2>4. run'[d] = s /\ seen'[d] = seen[d] /\ state'[d].cursor = r.cursor
      BY <1>0, <2>3
    <2>5. ReadSoFar(s, seen[d])
      BY <2>1, <2>2, FreshRead
    <2> QED
      BY <1>0, <1>1, <1>2, <2>2, <2>3, <2>4, <2>5 DEF ReadsOn
  <1> QED
    BY <1>3, <1>4, <1>5

LEMMA StepReads ==
  ASSUME Tables, KnownPlaces, PageInHand, CursorCovered, NEW d \in Devices, Step(d)
  PROVE  ReadsOn(d)
  <1>1. CASE Still(d)
    BY <1>1, StillReads
  <1>2. CASE Pull(d)
    BY <1>2, PullReads
  <1>3. CASE NextPage(d) \/ Quarantine(d) \/ LastPage(d)
    BY <1>3, PageEndReads
  <1>4. CASE SkipEvent(d)
    <2> DEFINE held == Blocked(run[d], NextChange(d).obj)
    <2>1. held \in BOOLEAN
      BY DEF Blocked
    <2>2. /\ Applying(d) /\ Passed(d, held) /\ UNCHANGED <<seen, state>>
          /\ held \/ NextEvent(d) \in seen[d]
      BY <1>4 DEF SkipEvent, ApplyRest
    <2> HIDE DEF held
    <2> QED
      BY <2>1, <2>2, PassReads
  <1>5. CASE ApplyEvent(d)
    <2> DEFINE held == Handled(d, NextChange(d)).out = "waits"
    <2>1. /\ Applying(d) /\ Passed(d, held) /\ state' = state
          /\ seen' = [seen EXCEPT ![d] = IF held THEN @ ELSE @ \cup {NextEvent(d)}]
      BY <1>5 DEF ApplyEvent, ApplyRest, ToHandle
    <2>2. held \in BOOLEAN
      OBVIOUS
    <2> HIDE DEF held
    <2>3. seen \in [Devices -> SUBSET Nat]
      BY DEF Tables
    <2>4. seen[d] \subseteq seen'[d] /\ (held \/ NextEvent(d) \in seen'[d])
      BY <2>1, <2>3
    <2> QED
      BY <2>1, <2>2, <2>4, PassReads
  <1>6. CASE Upgrade(d)
    <2>1. run' = [run EXCEPT ![d] = NoRun]
          /\ state' = [state EXCEPT ![d] = [cursor |-> 0, replay |-> TRUE]]
      BY <1>6 DEF Upgrade
    <2>2. Fresh(run'[d]) /\ run'[d].pc \notin {"pull", "apply"}
      BY <2>1, StopFacts
    <2>3. state'[d].cursor = 0 /\ 1..0 = {} /\ Len(log) \in Nat
      BY <2>1, LenProperties DEF Tables
    <2>4. ReadSoFar(run'[d], seen'[d])
      BY <2>2, FreshRead
    <2> QED
      BY <2>2, <2>3, <2>4 DEF ReadsOn, Fresh
  <1> QED
    BY <1>1, <1>2, <1>3, <1>4, <1>5, <1>6, StillSteps
-----------------------------------------------------------------------------
LEMMA KeepsReading ==
  ASSUME Tables, KnownPlaces, PageInHand, CursorCovered, NEW d \in Devices, Step(d)
  PROVE  KnownPlaces' /\ PageInHand' /\ CursorCovered'
  <1>1. OthersKept(d) /\ LogGrows /\ ReadsOn(d)
    BY OthersStep, LogGrowsStep, StepReads
  <1>2. /\ state'[d] \in [cursor: Nat, replay: BOOLEAN] /\ state'[d].cursor <= Len(log)
        /\ seen'[d] \subseteq Places /\ run'[d] \in Runs
    BY StateTyped, SeenTyped, StillSteps
  <1>3. ASSUME NEW e \in Devices
        PROVE  /\ state'[e].cursor <= Len(log') /\ run'[e].cursor <= Len(log')
               /\ seen'[e] \subseteq Places'
    <2>1. Places \subseteq Places'
      BY <1>1 DEF LogGrows, Places
    <2>2. CASE e = d
      BY <1>1, <1>2, <2>1, <2>2 DEF LogGrows, ReadsOn, Runs
    <2>3. CASE e # d
      <3>1. state'[e] = state[e] /\ run'[e] = run[e] /\ seen'[e] = seen[e]
        BY <1>1, <2>3 DEF OthersKept
      <3>2. /\ state[e].cursor \in Nat /\ run[e].cursor \in Nat
            /\ state[e].cursor <= Len(log) /\ run[e].cursor <= Len(log) /\ seen[e] \subseteq Places
        BY DEF Tables, KnownPlaces, Runs
      <3> QED
        BY <1>1, <2>1, <3>1, <3>2 DEF LogGrows
    <2> QED
      BY <2>2, <2>3
  <1>4. ASSUME NEW e \in Devices
        PROVE  ReadSoFar(run'[e], seen'[e]) /\ 1..state'[e].cursor \subseteq seen'[e]
    <2>1. CASE e = d
      BY <1>1, <2>1 DEF ReadsOn
    <2>2. CASE e # d
      <3>1. state'[e] = state[e] /\ run'[e] = run[e] /\ seen'[e] = seen[e]
        BY <1>1, <2>2 DEF OthersKept
      <3> QED
        BY <3>1 DEF PageInHand, CursorCovered
    <2> QED
      BY <2>1, <2>2
  <1> QED
    BY <1>3, <1>4 DEF KnownPlaces, PageInHand, CursorCovered

\* An event that is applied or set aside comes after the earlier events of its
\* object.
LEMMA NextInOrder ==
  ASSUME Tables, KnownPlaces, PageInHand, NEW d \in Devices, NEW e \in Places,
         \/ ToHandle(d) /\ e = NextEvent(d)
         \/ Quarantine(d) /\ e = Head(run[d].waiting),
         NEW i \in 1..e, log[i].change.obj = log[e].change.obj, i # e
  PROVE  i \in seen[d]
  <1> DEFINE r == run[d]
             w == r.waiting
             t == r.todo
  <1>0. /\ ReadSoFar(r, seen[d]) /\ r.cursor \in Nat /\ w \in Seq(Nat) /\ t \in Seq(Nat)
        /\ r.pc = "apply" /\ i \in Nat /\ e \in Nat /\ i < e
    BY LenProperties
       DEF Tables, PageInHand, Runs, ToHandle, Applying, Quarantine, PageEnd, Places
  <1>1. e \in InHand(r)
    BY NextEventFacts, FirstWaitingFacts DEF ToHandle
  <1>2. i \in seen[d] \cup Range(w) \cup Range(t)
    <2>1. e \in 1..r.cursor /\ 1..r.cursor \subseteq seen[d] \cup InHand(r)
      BY <1>0, <1>1 DEF ReadSoFar
    <2>2. i \in 1..r.cursor
      BY <1>0, <2>1
    <2> QED
      BY <2>1, <2>2 DEF InHand
  <1>3. Rising(w, t)
    BY <1>0 DEF ReadSoFar
  <1>4. CASE ToHandle(d) /\ e = NextEvent(d)
    <2>1. t # <<>> /\ e = Head(t) /\ ~ Blocked(r, log[e].change.obj)
      BY <1>4 DEF ToHandle, Applying, NextEvent, NextChange
    <2>2. i \notin Range(w)
      BY <2>1 DEF Blocked, Range
    <2> HIDE DEF w, t
    <2>3. \A x \in Range(t) : x \in Nat /\ e <= x
      BY <1>0, <1>3, <2>1, LookKeepsOrder
    <2> QED
      BY <1>0, <1>2, <2>2, <2>3
  <1>5. CASE Quarantine(d) /\ e = Head(run[d].waiting)
    <2>1. w # <<>> /\ t = <<>> /\ e = Head(w)
      BY <1>5 DEF Quarantine, PageEnd
    <2>2. \A j, k \in DOMAIN w : j < k => w[j] < w[k]
      BY <1>3 DEF Rising
    <2>3. Range(<<>>) = {}
      BY DEF Range
    <2> HIDE DEF w, t
    <2>4. \A x \in Range(w) : x \in Nat /\ e <= x
      BY <1>0, <2>1, <2>2, FirstFacts
    <2> QED
      BY <1>0, <1>2, <2>1, <2>3, <2>4
  <1> QED
    BY <1>4, <1>5

LEMMA KeepsOrder ==
  ASSUME Tables, KnownPlaces, PageInHand, ObjectOrder, NEW d \in Devices, Step(d)
  PROVE  ObjectOrder'
  <1>1. OthersKept(d) /\ LogGrows /\ seen'[d] \subseteq Places
    BY OthersStep, LogGrowsStep, SeenTyped
  <1>2. ASSUME NEW e \in Devices, NEW j \in Places', j \in seen'[e],
               NEW i \in 1..j, log'[i].change.obj = log'[j].change.obj
        PROVE  i \in seen'[e]
    <2>1. j \in Places
      BY <1>1, <1>2 DEF OthersKept, KnownPlaces
    <2>2. i \in Places /\ log[i].change.obj = log[j].change.obj
      <3>1. i \in Places
        BY <1>1, <2>1 DEF LogGrows, Places
      <3> QED
        BY <1>1, <1>2, <2>1, <3>1 DEF LogGrows
    <2>3. j \in seen[e] => i \in seen[e]
      BY <2>1, <2>2 DEF ObjectOrder
    <2>4. CASE seen'[e] = seen[e]
      BY <1>2, <2>3, <2>4
    <2>5. ASSUME e = d, NEW x, x \in Places, seen' = [seen EXCEPT ![d] = seen[d] \cup {x}],
                 \/ ToHandle(d) /\ x = NextEvent(d)
                 \/ Quarantine(d) /\ x = Head(run[d].waiting)
          PROVE  i \in seen'[e]
      <3>1. seen'[d] = seen[d] \cup {x}
        BY <2>5 DEF Tables
      <3>2. CASE j \in seen[d]
        BY <2>3, <2>5, <3>1, <3>2
      <3>3. CASE j = x
        <4>1. i = x \/ i \in seen[d]
          BY <2>2, <2>5, <3>3, NextInOrder
        <4> QED
          BY <2>5, <3>1, <4>1
      <3> QED
        BY <1>2, <2>5, <3>1, <3>2, <3>3
    <2>6. CASE e = d /\ ApplyEvent(d)
      <3>1. ToHandle(d) /\ NextEvent(d) \in Places
        BY <2>6, NextEventFacts DEF ApplyEvent, ToHandle
      <3>2. \/ seen' = [seen EXCEPT ![d] = seen[d] \cup {NextEvent(d)}]
            \/ seen' = [seen EXCEPT ![d] = seen[d]]
        BY <2>6 DEF ApplyEvent, Tables
      <3>3. ASSUME seen' = [seen EXCEPT ![d] = seen[d]] PROVE seen'[e] = seen[e]
        BY <2>6, <3>3 DEF Tables
      <3> QED
        BY <2>4, <2>5, <2>6, <3>1, <3>2, <3>3
    <2>7. CASE e = d /\ Quarantine(d)
      <3>1. Head(run[d].waiting) \in Places
        BY <2>7, FirstWaitingFacts
      <3>2. seen' = [seen EXCEPT ![d] = seen[d] \cup {Head(run[d].waiting)}]
        BY <2>7 DEF Quarantine, Tables
      <3> QED
        BY <2>5, <2>7, <3>1, <3>2
    <2>8. CASE e = d /\ Upgrade(d)
      <3>1. seen'[d] = {}
        BY <2>8 DEF Upgrade, Tables
      <3> QED
        BY <1>2, <2>8, <3>1
    <2>9. CASE e # d
      BY <1>1, <2>4, <2>9 DEF OthersKept
    <2> QED
      BY <2>4, <2>6, <2>7, <2>8, <2>9, Writers DEF WrittenBy
  <1> QED
    BY <1>2 DEF ObjectOrder
-----------------------------------------------------------------------------
(* What is marked is published *)

\* The keys of the first n changes of a batch, and the new events.
LEMMA SendsFacts ==
  ASSUME Tables, NEW d \in Devices, NEW n, Sends(d, n)
  PROVE  /\ n \in Nat /\ n <= Len(Batch(d)) /\ Batch(d) \in Seq(Changes)
         /\ log' \in Seq(Entries) /\ Len(log) <= Len(log') /\ Len(log') \in Nat
         /\ \A i \in 1..n : \E p \in 1..Len(log') : Key(log'[p].change) = Key(Batch(d)[i])
         /\ \A p \in 1..Len(log') : p > Len(log) =>
              /\ log'[p].dev = d
              /\ \E i \in 1..n : /\ log'[p].change = Batch(d)[i]
                                 /\ \A j \in 1..i - 1 : \E m \in 1..p - 1 :
                                      Key(log'[m].change) = Key(Batch(d)[j])
  <1> DEFINE b == Batch(d)
             c == SubSeq(b, 1, n)
  <1>1. n \in Nat /\ n <= Len(b) /\ log' = CenterPushAll(d, c) /\ b \in Seq(Changes)
    BY BatchFacts DEF Sends
  <1> HIDE DEF b
  <1>2. c \in Seq(Changes) /\ Len(c) = n /\ \A i \in 1..n : c[i] = b[i]
    BY <1>1, PrefixFacts
  <1> HIDE DEF c
  <1>3. log \in Seq(Entries)
    BY DEF Tables
  <1>4. Pushed(log', d, c, Len(c))
    BY <1>1, <1>2, <1>3, PushFacts
  <1>5. /\ log' \in Seq(Entries) /\ Len(log) <= Len(log') /\ Len(log') \in Nat
        /\ \A i \in 1..n : \E p \in 1..Len(log') : Key(log'[p].change) = Key(c[i])
        /\ \A p \in 1..Len(log') : p > Len(log) =>
              /\ log'[p].dev = d
              /\ \E i \in 1..n : /\ log'[p].change = c[i]
                                 /\ \A j \in 1..i - 1 : \E m \in 1..p - 1 :
                                      Key(log'[m].change) = Key(c[j])
    BY <1>2, <1>4, LenProperties DEF Pushed
  <1>6. \A i \in 1..n : \E p \in 1..Len(log') : Key(log'[p].change) = Key(b[i])
    <2>1. ASSUME NEW i \in 1..n
          PROVE  \E p \in 1..Len(log') : Key(log'[p].change) = Key(b[i])
      <3>1. c[i] = b[i]
        BY <1>2
      <3>2. PICK p \in 1..Len(log') : Key(log'[p].change) = Key(c[i])
        BY <1>5
      <3> QED
        BY <3>1, <3>2
    <2> QED
      BY <2>1
  <1>7. ASSUME NEW p \in 1..Len(log'), p > Len(log)
        PROVE  /\ log'[p].dev = d
               /\ \E i \in 1..n : /\ log'[p].change = b[i]
                                  /\ \A j \in 1..i - 1 : \E m \in 1..p - 1 :
                                       Key(log'[m].change) = Key(b[j])
    <2>1. PICK i \in 1..n : /\ log'[p].change = c[i]
                            /\ \A j \in 1..i - 1 : \E m \in 1..p - 1 :
                                 Key(log'[m].change) = Key(c[j])
      BY <1>5, <1>7
    <2>2. \A j \in 1..i - 1 : j \in 1..n /\ c[j] = b[j]
      BY <1>1, <1>2
    <2>3. log'[p].change = b[i]
      BY <1>2, <2>1
    <2>4. \A j \in 1..i - 1 : \E m \in 1..p - 1 : Key(log'[m].change) = Key(b[j])
      BY <2>1, <2>2
    <2> QED
      BY <1>5, <1>7, <2>3, <2>4
  <1> QED
    BY <1>1, <1>5, <1>6, <1>7 DEF b

LEMMA KeepsDone ==
  ASSUME Tables, KnownPlaces, PageInHand, DonePublished, NEW d \in Devices, Step(d)
  PROVE  DonePublished'
  <1>1. OthersKept(d) /\ LogGrows
    BY OthersStep, LogGrowsStep
  <1>2. done \in [Devices -> SUBSET Keys]
    BY DEF Tables
  <1>3. ASSUME NEW e \in Devices, NEW k \in done[e]
        PROVE  \E i \in Places' : Key(log'[i].change) = k
    <2>1. PICK i \in Places : Key(log[i].change) = k
      BY <1>3 DEF DonePublished
    <2>2. i \in Places' /\ log'[i] = log[i]
      BY <1>1, <2>1 DEF LogGrows, Places
    <2> QED
      BY <2>1, <2>2
  <1>4. ASSUME NEW n, Sends(d, n), NEW i \in 1..n
        PROVE  \E p \in Places' : Key(log'[p].change) = Key(Batch(d)[i])
    <2>1. \A j \in 1..n : \E p \in 1..Len(log') : Key(log'[p].change) = Key(Batch(d)[j])
      BY <1>4, SendsFacts
    <2> QED
      BY <2>1 DEF Places
  <1>5. ASSUME NEW k \in done'[d], k \notin done[d]
        PROVE  \E i \in Places' : Key(log'[i].change) = k
    <2>1. ASSUME Push(d), Sends(d, Len(Batch(d))) PROVE \E i \in Places' : Key(log'[i].change) = k
      <3>1. done'[d] = done[d] \cup Sent(d)
        BY <1>2, <2>1 DEF Push
      <3>2. PICK i \in 1..Len(Batch(d)) : k = Key(Batch(d)[i])
        BY <1>5, <3>1, BatchFacts
      <3> QED
        BY <1>4, <2>1, <3>2
    <2>2. ASSUME NEW n \in 0..PageSize, NEW m \in 0..PageSize, PushStops(d, n, m), Sends(d, n)
          PROVE  \E i \in Places' : Key(log'[i].change) = k
      <3>1. done'[d] = done[d] \cup {Key(Batch(d)[i]) : i \in 1..m}
        BY <1>2, <2>2 DEF PushStops
      <3>2. PICK i \in 1..m : k = Key(Batch(d)[i])
        BY <1>5, <3>1
      <3>3. n = Len(Batch(d)) /\ m \in 0..Len(Batch(d)) /\ n \in Nat
        BY <2>2, <3>2, SendsFacts DEF PushStops
      <3>4. i \in 1..n
        BY <3>3
      <3> QED
        BY <1>4, <2>2, <3>2, <3>4
    <2>3. ASSUME Applied(d) PROVE \E i \in Places' : Key(log'[i].change) = k
      <3>1. Applying(d) /\ log' = log
        BY <2>3 DEF Applied, ApplyEvent, ApplyStops, ToHandle, ApplyRest
      <3>2. NextEvent(d) \in Places
        BY <3>1, NextEventFacts
      <3>3. \/ done' = [done EXCEPT ![d] = done[d] \cup {Key(NextChange(d))}]
            \/ done' = [done EXCEPT ![d] = done[d]]
        BY <1>2, <2>3 DEF Applied, ApplyEvent, ApplyStops
      <3>4. k = Key(log[NextEvent(d)].change)
        BY <1>2, <1>5, <3>3 DEF NextChange
      <3> QED
        BY <3>1, <3>2, <3>4 DEF Places
    <2>4. UNCHANGED done \/ Push(d) \/ Applied(d) \/ \E n, m \in 0..PageSize : PushStops(d, n, m)
      BY Writers DEF WrittenBy
    <2>5. ASSUME Push(d) PROVE Sends(d, Len(Batch(d)))
      <3>1. Batch(d) \in Seq(Changes) /\ Len(Batch(d)) \in Nat
        BY BatchFacts, LenProperties
      <3>2. log' = CenterPushAll(d, SubSeq(Batch(d), 1, Len(Batch(d))))
        <4>1. SubSeq(Batch(d), 1, Len(Batch(d))) = Batch(d)
          BY <3>1, SubSeqFull
        <4>2. log' = CenterPushAll(d, Batch(d))
          BY <2>5 DEF Push
        <4> QED
          BY <4>1, <4>2
      <3> QED
        BY <3>1, <3>2 DEF Sends
    <2>6. ASSUME NEW n \in 0..PageSize, NEW m \in 0..PageSize, PushStops(d, n, m) PROVE Sends(d, n)
      <3>1. Len(Batch(d)) \in Nat
        BY BatchFacts, LenProperties
      <3>2. n \in Nat /\ n <= Len(Batch(d))
        BY <2>6, <3>1, SyncBounds DEF PushStops
      <3> QED
        BY <2>6, <3>2 DEF PushStops, Sends
    <2> QED
      BY <1>5, <2>1, <2>2, <2>3, <2>4, <2>5, <2>6
  <1>6. ASSUME NEW e \in Devices, NEW k \in done'[e]
        PROVE  \E i \in Places' : Key(log'[i].change) = k
    <2>1. e # d => done'[e] = done[e]
      BY <1>1 DEF OthersKept
    <2>2. k \in done[e] \/ (e = d /\ k \notin done[d])
      BY <1>6, <2>1
    <2> QED
      BY <1>3, <1>5, <1>6, <2>2
  <1> QED
    BY <1>6 DEF DonePublished
-----------------------------------------------------------------------------
(* What a device shows is published or queued *)

\* The changes a device does not export again.
Known(d) == done[d] \cup Queued(d)

LEMMA QueuedFacts ==
  ASSUME Tables, NEW d \in Devices
  PROVE  /\ \A k \in Queued(d) : \E i \in 1..Len(outbox[d]) : Key(outbox[d][i].change) = k
         /\ \A i \in 1..Len(outbox[d]) : Key(outbox[d][i].change) \in Queued(d)
  <1>1. outbox[d] \in Seq(Pending)
    BY DEF Tables
  <1>2. DOMAIN outbox[d] = 1..Len(outbox[d])
    BY <1>1, LenProperties
  <1> QED
    BY <1>2 DEF Queued

LEMMA QueuedNextFacts ==
  ASSUME NEW d \in Devices, outbox'[d] \in Seq(Pending), NEW i \in 1..Len(outbox'[d])
  PROVE  Key(outbox'[d][i].change) \in Queued(d)'
  <1>1. DOMAIN outbox'[d] = 1..Len(outbox'[d])
    BY LenProperties
  <1> QED
    BY <1>1 DEF Queued

LEMMA KnownGrows ==
  ASSUME Tables, KnownPlaces, PageInHand, LinesHaveProjects, NEW d \in Devices, Step(d)
  PROVE  Known(d) \subseteq Known(d)'
  <1>0. done \in [Devices -> SUBSET Keys] /\ outbox' \in [Devices -> Seq(Pending)]
    BY OutboxTyped DEF Tables
  <1>1. done[d] \subseteq done'[d]
    <2>1. ASSUME NEW q, done' = [done EXCEPT ![d] = done[d] \cup q] PROVE done[d] \subseteq done'[d]
      BY <1>0, <2>1
    <2>2. ASSUME Push(d) \/ \E n, m \in 0..PageSize : PushStops(d, n, m)
          PROVE  \E q : done' = [done EXCEPT ![d] = done[d] \cup q]
      BY <1>0, <2>2 DEF Push, PushStops
    <2>3. ASSUME Applied(d) PROVE \E q : done' = [done EXCEPT ![d] = done[d] \cup q]
      <3>1. \/ done' = [done EXCEPT ![d] = done[d] \cup {Key(NextChange(d))}]
            \/ done' = [done EXCEPT ![d] = done[d]]
        BY <1>0, <2>3 DEF Applied, ApplyEvent, ApplyStops
      <3>2. done[d] = done[d] \cup {}
        OBVIOUS
      <3> QED
        BY <3>1, <3>2
    <2> QED
      BY <2>1, <2>2, <2>3, Writers DEF WrittenBy
  <1>2. ASSUME NEW k \in Queued(d), \A i \in 1..Len(outbox[d]) : \E j \in 1..Len(outbox'[d]) :
                 Key(outbox'[d][j].change) = Key(outbox[d][i].change)
        PROVE  k \in Queued(d)'
    <2>1. PICK i \in 1..Len(outbox[d]) : Key(outbox[d][i].change) = k
      BY QueuedFacts
    <2>2. PICK j \in 1..Len(outbox'[d]) : Key(outbox'[d][j].change) = k
      BY <1>2, <2>1
    <2> QED
      BY <1>0, <2>2, QueuedNextFacts
  <1>3. ASSUME NEW n \in Nat, n <= Len(ToExport(d)), Enqueue(d, n)
        PROVE  Queued(d) \subseteq Queued(d)'
    <2>1. /\ Len(outbox'[d]) = Len(outbox[d]) + n /\ Len(outbox[d]) \in Nat
          /\ \A i \in 1..Len(outbox[d]) : outbox'[d][i] = outbox[d][i]
      BY <1>3, EnqueueFacts, LenProperties DEF Tables
    <2>2. \A i \in 1..Len(outbox[d]) : i \in 1..Len(outbox'[d])
      BY <2>1
    <2> QED
      BY <1>2, <2>1, <2>2
  <1>4. ToExport(d) \in Seq(Changes) /\ Len(ToExport(d)) \in Nat
    BY ToExportFacts, LenProperties
  <1>5. ASSUME Export(d) \/ \E n \in 0..(2 * Len(Order)) : ExportStops(d, n)
        PROVE  Queued(d) \subseteq Queued(d)'
    <2>1. CASE Export(d)
      BY <1>3, <1>4, <2>1 DEF Export
    <2>2. ASSUME NEW n \in 0..(2 * Len(Order)), ExportStops(d, n) PROVE Queued(d) \subseteq Queued(d)'
      <3>1. n \in Nat /\ n <= Len(ToExport(d)) /\ Enqueue(d, n)
        BY <1>4, <2>2, OrderFacts DEF ExportStops
      <3> QED
        BY <1>3, <3>1
    <2> QED
      BY <1>5, <2>1, <2>2
  <1>6. ASSUME Push(d) PROVE Queued(d) \subseteq Known(d)'
    <2>1. SUFFICES ASSUME NEW k \in Queued(d), k \notin Sent(d) PROVE k \in Queued(d)'
      <3>1. done'[d] = done[d] \cup Sent(d)
        BY <1>0, <1>6 DEF Push
      <3> QED
        BY <3>1 DEF Known
    <2>2. PICK i \in 1..Len(outbox[d]) : Key(outbox[d][i].change) = k
      BY QueuedFacts
    <2>3. PICK j \in 1..Len(outbox'[d]) : outbox'[d][j] = outbox[d][i]
      BY <1>6, <2>1, <2>2, RemovedFacts
    <2>4. Key(outbox'[d][j].change) \in Queued(d)'
      BY <1>0, QueuedNextFacts
    <2> QED
      BY <2>2, <2>3, <2>4
  <1>7. ASSUME \/ \E n \in 0..PageSize : PushFails(d, n)
               \/ \E k \in 1..MaxFaults : Minute(d, k)
        PROVE  Queued(d) \subseteq Queued(d)'
    <2>1. /\ Len(outbox'[d]) = Len(outbox[d])
          /\ \A i \in 1..Len(outbox[d]) : outbox'[d][i].change = outbox[d][i].change
      BY <1>7, LateFacts
    <2> QED
      BY <1>2, <2>1
  <1>8. ASSUME UNCHANGED outbox PROVE Queued(d) \subseteq Queued(d)'
    BY <1>8 DEF Queued
  <1> QED
    BY <1>1, <1>5, <1>6, <1>7, <1>8, Writers DEF WrittenBy, Known

Behind == {"push", "pull", "apply"}

\* A run behind its export, that is no replay, has just exported, or goes on.
GoesOn(d) ==
  run[d].pc \in Behind /\ run[d].edited \subseteq run'[d].edited /\ state'[d].replay = state[d].replay

LEMMA RunGoesOn ==
  ASSUME Tables, KnownPlaces, NEW d \in Devices, Step(d),
         run'[d].pc \in Behind, ~ state'[d].replay
  PROVE  Export(d) \/ GoesOn(d)
  <1>0. /\ run \in [Devices -> Runs] /\ run[d] \in Runs /\ NoRun.pc \notin Behind
        /\ state \in [Devices -> [cursor: Nat, replay: BOOLEAN]]
    BY NoRunFacts DEF Tables, Behind
  <1> DEFINE Goal == Export(d) \/ GoesOn(d)
  <1>1. ASSUME run' = [run EXCEPT ![d] = NoRun] PROVE FALSE
    BY <1>0, <1>1
  <1>2. ASSUME Begin(d) PROVE FALSE
    <2>1. run' = [run EXCEPT ![d] = [NoRun EXCEPT !.pc = IF state[d].replay THEN "push" ELSE "export"]]
          /\ UNCHANGED state
      BY <1>2 DEF Begin
    <2>2. "export" \in Stages /\ "export" \notin Behind
      BY DEF Stages, Behind
    <2>3. ~ state[d].replay
      BY <2>1
    <2>4. [NoRun EXCEPT !.pc = "export"].pc = "export"
      BY <2>2, NoRunFacts, StageFacts
    <2> QED
      BY <1>0, <2>1, <2>2, <2>3, <2>4
  <1>3. ASSUME Stop(d) \/ Upgrade(d) \/ (\E n \in 0..(2 * Len(Order)) : ExportStops(d, n))
               \/ (\E n \in 0..PageSize : PushFails(d, n)) \/ \E marked \in BOOLEAN : ApplyStops(d, marked)
        PROVE  FALSE
    BY <1>1, <1>3 DEF Stop, Upgrade, ExportStops, PushFails, ApplyStops
  <1>4. ASSUME NEW n \in 0..PageSize, NEW m \in 0..PageSize, PushStops(d, n, m) PROVE FALSE
    BY <1>1, <1>4 DEF PushStops
  <1>5. ASSUME NEW o \in Objects, Edited(d, o), state' = state PROVE Goal
    <2>1. run'[d].pc = run[d].pc
          /\ run'[d].edited = IF run[d].pc = "idle" THEN {} ELSE run[d].edited \cup {o}
      BY <1>5, EditedFacts
    <2> QED
      BY <1>5, <2>1 DEF Behind, GoesOn
  <1>6. ASSUME \E o \in Objects : Delete(d, o) \/ \E v \in Versions : Edit(d, o, v) PROVE Goal
    BY <1>5, <1>6 DEF Delete, Edit, OwnerRest
  <1>7. ASSUME Push(d) \/ \E k \in 1..MaxFaults : Minute(d, k) PROVE Goal
    BY <1>7 DEF Push, PushRest, Minute, GoesOn
  <1>8. ASSUME Drained(d) PROVE Goal
    <2>1. run' = [run EXCEPT ![d] = Pulling(run[d], state[d].cursor)]
      BY <1>0, <1>1, <1>8 DEF Drained, Pulling
    <2> DEFINE r == run[d]
               c == state[d].cursor
    <2>2. r \in Runs /\ c \in Nat
      BY <1>0
    <2> HIDE DEF r, c
    <2>3. Pulling(r, c).edited = r.edited
      BY <2>2, PullingFacts
    <2>4. run'[d] = Pulling(r, c) /\ run[d].pc = "push" /\ state' = state
      BY <1>0, <1>8, <2>1 DEF r, c, Drained
    <2> QED
      BY <2>3, <2>4 DEF r, Behind, GoesOn
  <1>9. ASSUME Pull(d) PROVE Goal
    <2> DEFINE r == run[d]
               page == Page(r.cursor)
    <2>1. run' = [run EXCEPT ![d] = Paged(r, page)] /\ r.pc = "pull" /\ state' = state
      BY <1>0, <1>9 DEF Pull, Paged
    <2>2. page \in Seq(Nat) /\ r \in Runs
      BY <1>0, PageFacts DEF Runs, Tables, KnownPlaces
    <2> HIDE DEF page
    <2>3. run'[d].edited = r.edited
      BY <1>0, <2>1, <2>2, PagedFacts
    <2> QED
      BY <2>1, <2>3 DEF Behind, GoesOn
  <1>10. ASSUME NEW held \in BOOLEAN, Passed(d, held), Applying(d), state' = state PROVE Goal
    <2> DEFINE r == run[d]
    <2>1. run' = [run EXCEPT ![d] = Pass(Looked(r, held))] /\ r.todo # <<>> /\ r.pc = "apply"
      BY <1>0, <1>10 DEF Passed, Looked, Applying
    <2>2. Looked(r, held) \in Runs /\ Looked(r, held).edited = r.edited
      BY <1>0, <2>1, LookedFacts
    <2>3. Pass(Looked(r, held)).edited = r.edited
      BY <2>2, PassFacts
    <2>4. run'[d].edited = r.edited
      BY <1>0, <2>1, <2>3
    <2> QED
      BY <1>10, <2>1, <2>4 DEF Behind, GoesOn
  <1>11. ASSUME SkipEvent(d) PROVE Goal
    <2>1. Blocked(run[d], NextChange(d).obj) \in BOOLEAN
      BY DEF Blocked
    <2> QED
      BY <1>10, <1>11, <2>1 DEF SkipEvent, ApplyRest
  <1>12. ASSUME ApplyEvent(d) PROVE Goal
    BY <1>10, <1>12 DEF ApplyEvent, ToHandle, ApplyRest
  <1>13. ASSUME NextPage(d) PROVE Goal
    <2>1. run[d].pc = "apply" /\ run' = [run EXCEPT ![d].pc = "pull"]
          /\ \E c : state' = [state EXCEPT ![d].cursor = c]
      BY <1>13 DEF NextPage, PageEnd
    <2>2. run'[d].edited = run[d].edited
      <3>1. run' = [run EXCEPT ![d] = [run[d] EXCEPT !.pc = "pull"]] /\ "pull" \in Stages
        BY <1>0, <2>1 DEF Stages
      <3> QED
        BY <1>0, <3>1, StageFacts
    <2>3. state'[d].replay = state[d].replay
      BY <1>0, <2>1
    <2> QED
      BY <2>1, <2>2, <2>3 DEF Behind, GoesOn
  <1>14. ASSUME Quarantine(d) PROVE Goal
    <2>1. run[d].pc = "apply" /\ state' = state /\ run' = [run EXCEPT ![d].waiting = Tail(@)]
      BY <1>14 DEF Quarantine, PageEnd
    <2>2. run'[d].edited = run[d].edited
      BY <1>0, <2>1 DEF Runs
    <2> QED
      BY <2>1, <2>2 DEF Behind, GoesOn
  <1>15. ASSUME LastPage(d) PROVE FALSE
    <2> DEFINE x == IF state[d].replay THEN "replayed" ELSE "idle"
    <2>1. x \in Stages /\ x \notin Behind /\ run' = [run EXCEPT ![d] = [NoRun EXCEPT !.pc = x]]
      BY <1>15 DEF Stages, Behind, LastPage
    <2> HIDE DEF x
    <2>2. [NoRun EXCEPT !.pc = x].pc = x
      BY <2>1, NoRunFacts, StageFacts
    <2> QED
      BY <1>0, <2>1, <2>2
  <1>16. ASSUME CompleteReplay(d) PROVE FALSE
    <2>1. "export" \in Stages /\ "export" \notin Behind
          /\ run' = [run EXCEPT ![d] = [run[d] EXCEPT !.pc = "export"]]
      BY <1>0, <1>16 DEF Stages, Behind, CompleteReplay
    <2> QED
      BY <1>0, <2>1, StageFacts
  <1>17. Export(d) => Goal
    OBVIOUS
  <1> HIDE DEF Goal
  <1>18. ~ (\E n \in 0..PageSize : \E m \in 0..PageSize : PushStops(d, n, m))
    BY <1>4
  <1>19. RunStep(d) => Goal
    BY <1>7, <1>8, <1>9, <1>11, <1>12, <1>13, <1>14, <1>15, <1>16, <1>17 DEF RunStep
  <1>20. Goal
    BY <1>2, <1>3, <1>6, <1>7, <1>18, <1>19 DEF Step
  <1> QED
    BY <1>20 DEF Goal
-----------------------------------------------------------------------------
\* An event writes a row: its key is marked, or the run is over.
Rewritten(d, c) ==
  /\ Applying(d) /\ c = NextChange(d) /\ c.by = 0
  /\ Key(c) \in done'[d] \/ run'[d].pc \notin Behind
  /\ Parent[c.obj] = None \/ rows[d][Parent[c.obj]] # 0
  /\ rows'[d] = [rows[d] EXCEPT ![c.obj] = c.ver]

\* What a step makes of the rows of its device.
LEMMA RowsFacts ==
  ASSUME Tables, KnownPlaces, PageInHand, NEW d \in Devices, Step(d)
  PROVE  \/ rows'[d] = rows[d]
         \/ \E o \in Objects : rows'[d] = Deleted(o, rows[d])
         \/ \E o \in Objects, v \in Versions :
              Edit(d, o, v) /\ rows'[d] = [rows[d] EXCEPT ![o] = v]
         \/ \E c \in Changes : Rewritten(d, c)
  <1>0. /\ rows \in [Devices -> [Objects -> Versions]] /\ done \in [Devices -> SUBSET Keys]
        /\ run \in [Devices -> Runs]
    BY DEF Tables
  <1>1. ASSUME NEW o \in Objects, Delete(d, o) PROVE rows'[d] = Deleted(o, rows[d])
    BY <1>0, <1>1 DEF Delete
  <1>2. ASSUME NEW o \in Objects, NEW v \in Versions, Edit(d, o, v)
        PROVE  rows'[d] = [rows[d] EXCEPT ![o] = v]
    <2>1. rows' = [rows EXCEPT ![d] = [rows[d] EXCEPT ![o] = v]]
      BY <1>0, <1>2 DEF Edit
    <2> QED
      BY <1>0, <2>1
  <1>3. ASSUME Applied(d)
        PROVE  \/ rows'[d] = rows[d] \/ \E o \in Objects : rows'[d] = Deleted(o, rows[d])
               \/ \E c \in Changes : Rewritten(d, c)
    <2> DEFINE c == NextChange(d)
               h == Handled(d, c)
    <2>1. Applying(d)
      BY <1>3 DEF Applied, ApplyEvent, ApplyStops, ToHandle
    <2>2. c \in Changes /\ c.obj \in Objects
      BY <2>1, NextEventFacts DEF Changes
    <2>3. rows' = [rows EXCEPT ![d] = h.rows]
      BY <1>3 DEF Applied, ApplyEvent, ApplyStops
    <2>4. \/ h.out = "applied" => done' = [done EXCEPT ![d] = done[d] \cup {Key(c)}]
          \/ run' = [run EXCEPT ![d] = NoRun]
      BY <1>0, <1>3 DEF Applied, ApplyEvent, ApplyStops
    <2>5. \/ h.rows = rows[d]
          \/ h.rows = Deleted(c.obj, rows[d])
          \/ c.by = 0 /\ h.out = "applied" /\ (Parent[c.obj] = None \/ rows[d][Parent[c.obj]] # 0)
             /\ h.rows = [rows[d] EXCEPT ![c.obj] = c.ver]
      BY HandledCases
    <2> HIDE DEF c, h
    <2>6. rows'[d] = h.rows
      BY <1>0, <2>3
    <2>7. h.out = "applied" => Key(c) \in done'[d] \/ run'[d].pc \notin Behind
      <3>1. NoRun.pc \notin Behind
        BY NoRunFacts DEF Behind
      <3> QED
        BY <1>0, <2>4, <3>1
    <2> QED
      BY <2>1, <2>2, <2>5, <2>6, <2>7 DEF c, Rewritten
  <1> QED
    BY <1>1, <1>2, <1>3, Writers DEF WrittenBy, Editing

LEMMA ExportPublishes ==
  ASSUME Tables, LinesHaveProjects, NEW d \in Devices, Export(d), NEW o \in Objects, rows[d][o] # 0
  PROVE  Key(Upsert(o, rows[d][o])) \in Known(d)'
  <1> DEFINE t == ToExport(d)
             n == Len(t)
             k == Key(Upsert(o, rows[d][o]))
  <1>1. /\ t \in Seq(Changes) /\ n \in Nat
        /\ k \in Known(d) \/ \E i \in 1..n : t[i] = Upsert(o, rows[d][o])
    BY ToExportFacts, LenProperties DEF Known
  <1>2. Enqueue(d, n) /\ UNCHANGED done
    BY DEF Export, ExportRest
  <1> HIDE DEF t
  <1>3. /\ outbox' \in [Devices -> Seq(Pending)] /\ Len(outbox'[d]) = Len(outbox[d]) + n
        /\ \A i \in 1..Len(outbox[d]) : outbox'[d][i] = outbox[d][i]
        /\ \A i \in 1..n : outbox'[d][Len(outbox[d]) + i].change = t[i]
    BY <1>1, <1>2, EnqueueFacts DEF t
  <1>4. Len(outbox[d]) \in Nat /\ outbox'[d] \in Seq(Pending)
    BY <1>3, LenProperties DEF Tables
  <1>5. CASE k \in done[d]
    BY <1>2, <1>5 DEF Known
  <1>6. CASE k \in Queued(d)
    <2>1. PICK i \in 1..Len(outbox[d]) : Key(outbox[d][i].change) = k
      BY <1>6, QueuedFacts
    <2>2. i \in 1..Len(outbox'[d]) /\ Key(outbox'[d][i].change) = k
      BY <1>3, <1>4, <2>1
    <2> QED
      BY <1>4, <2>2, QueuedNextFacts DEF Known
  <1>7. ASSUME NEW i \in 1..n, t[i] = Upsert(o, rows[d][o]) PROVE k \in Queued(d)'
    <2>1. Len(outbox[d]) + i \in 1..Len(outbox'[d])
      BY <1>1, <1>3, <1>4
    <2>2. Key(outbox'[d][Len(outbox[d]) + i].change) = k
      BY <1>3, <1>7
    <2>3. Key(outbox'[d][Len(outbox[d]) + i].change) \in Queued(d)'
      BY <1>4, <2>1, QueuedNextFacts
    <2> QED
      BY <2>2, <2>3
  <1> QED
    BY <1>1, <1>5, <1>6, <1>7 DEF Known

LEMMA KeepsShown ==
  ASSUME Tables, KnownPlaces, PageInHand, LinesHaveProjects, ShownIsPublished,
         NEW d \in Devices, Step(d)
  PROVE  ShownIsPublished'
  <1>1. OthersKept(d) /\ Known(d) \subseteq Known(d)'
    BY OthersStep, KnownGrows
  <1>2. ASSUME NEW o \in Objects, run'[d].pc \in Behind, ~ state'[d].replay,
               rows'[d][o] # 0, o \notin run'[d].edited
        PROVE  Key(Upsert(o, rows'[d][o])) \in Known(d)'
    <2>0. rows[d] \in [Objects -> Versions] /\ DOMAIN rows[d] = Objects
      BY DEF Tables
    <2>1. CASE Export(d)
      <3>1. rows' = rows
        BY <2>1 DEF Export, ExportRest
      <3> QED
        BY <1>2, <2>1, <3>1, ExportPublishes
    <2>2. CASE GoesOn(d)
      <3>1. rows'[d][o] = rows[d][o] => Key(Upsert(o, rows[d][o])) \in Known(d)'
        BY <1>1, <1>2, <2>2 DEF GoesOn, ShownIsPublished, Known, Behind
      <3>2. ASSUME NEW p \in Objects, rows'[d] = Deleted(p, rows[d]) PROVE rows'[d][o] = rows[d][o]
        BY <1>2, <2>0, <3>2, DeletedFacts
      <3>3. ASSUME NEW p \in Objects, NEW v \in Versions, Edit(d, p, v),
                   rows'[d] = [rows[d] EXCEPT ![p] = v]
            PROVE  rows'[d][o] = rows[d][o]
        <4>1. p \in run'[d].edited
          <5>1. Edited(d, p) /\ run[d].pc # "idle"
            BY <2>2, <3>3 DEF GoesOn, Behind, Edit
          <5> QED
            BY <5>1, EditedFacts
        <4> QED
          BY <1>2, <2>0, <3>3, <4>1
      <3>4. ASSUME NEW c \in Changes, Rewritten(d, c)
            PROVE  \/ rows'[d][o] = rows[d][o]
                   \/ Key(Upsert(o, rows'[d][o])) \in Known(d)'
        <4>1. CASE o # c.obj
          BY <2>0, <3>4, <4>1 DEF Rewritten
        <4>2. CASE o = c.obj
          <5>1. rows'[d][o] = c.ver
            BY <2>0, <3>4, <4>2 DEF Rewritten
          <5>2. Key(Upsert(o, c.ver)) = Key(c)
            BY <3>4, <4>2 DEF Rewritten, Upsert, Key
          <5> QED
            BY <1>2, <3>4, <5>1, <5>2 DEF Rewritten, Known
        <4> QED
          BY <4>1, <4>2
      <3> QED
        BY <3>1, <3>2, <3>3, <3>4, RowsFacts
    <2> QED
      BY <1>2, <2>1, <2>2, RunGoesOn
  <1>3. ASSUME NEW e \in Devices, e # d, NEW o \in Objects, run'[e].pc \in Behind, ~ state'[e].replay,
               rows'[e][o] # 0, o \notin run'[e].edited
        PROVE  Key(Upsert(o, rows'[e][o])) \in Known(e)'
    <2>1. /\ rows'[e] = rows[e] /\ outbox'[e] = outbox[e] /\ done'[e] = done[e]
          /\ state'[e] = state[e] /\ run'[e] = run[e]
      BY <1>1, <1>3 DEF OthersKept
    <2>2. Key(Upsert(o, rows[e][o])) \in Known(e)
      BY <1>3, <2>1 DEF ShownIsPublished, Known, Behind
    <2> QED
      BY <2>1, <2>2 DEF Known, Queued
  <1>4. ASSUME NEW e \in Devices, NEW o \in Objects, run'[e].pc \in Behind, ~ state'[e].replay,
               rows'[e][o] # 0, o \notin run'[e].edited
        PROVE  Key(Upsert(o, rows'[e][o])) \in Known(e)'
    BY <1>2, <1>3, <1>4
  <1> QED
    BY <1>4 DEF ShownIsPublished, Known, Behind, Upsert
-----------------------------------------------------------------------------
(* A line is under its project *)

LEMMA KeepsLines ==
  ASSUME Tables, KnownPlaces, PageInHand, LinesHaveProjects, ProjectsAhead,
         NEW d \in Devices, Step(d)
  PROVE  LinesHaveProjects'
  <1>1. OthersKept(d) /\ LogGrows
    BY OthersStep, LogGrowsStep
  <1>2. rows[d] \in [Objects -> Versions] /\ DOMAIN rows[d] = Objects
    BY DEF Tables
  <1>3. ASSUME NEW o \in Objects, rows'[d][o] # 0, Parent[o] # None
        PROVE  rows'[d][Parent[o]] # 0
    <2> DEFINE p == Parent[o]
    <2>1. /\ p \in Objects /\ Parent[p] = None /\ p # o
          /\ rows[d][o] # 0 => rows[d][p] # 0
      BY <1>3, ParentFacts DEF LinesHaveProjects
    <2>2. CASE rows'[d] = rows[d]
      BY <1>3, <2>1, <2>2
    <2>3. ASSUME NEW q \in Objects, rows'[d] = Deleted(q, rows[d]) PROVE rows'[d][p] # 0
      <3>1. rows'[d][o] = (IF o = q \/ p = q THEN 0 ELSE rows[d][o])
        BY <1>2, <2>3, DeletedFacts
      <3>2. rows'[d][p] = IF p = q \/ Parent[p] = q THEN 0 ELSE rows[d][p]
        BY <1>2, <2>1, <2>3, DeletedFacts
      <3>3. None # q
        BY ParentAssumption
      <3> QED
        BY <1>3, <2>1, <3>1, <3>2, <3>3
    <2>4. ASSUME NEW q \in Objects, NEW v \in Versions, Edit(d, q, v),
                 rows'[d] = [rows[d] EXCEPT ![q] = v]
          PROVE  rows'[d][p] # 0
      <3>1. v > rows[d][q] /\ rows[d][q] \in Versions
        BY <1>2, <2>4 DEF Edit
      <3>2. v # 0
        BY <3>1, SyncBounds DEF Versions
      <3>3. CASE o = q
        <4>1. rows[d][o] # 0 \/ rows[d][p] # 0
          BY <1>3, <2>4, <3>3 DEF Edit
        <4> QED
          BY <1>2, <2>1, <2>4, <3>3, <4>1
      <3>4. CASE o # q
        <4>1. rows'[d][o] = rows[d][o]
          BY <1>2, <2>4, <3>4
        <4> QED
          BY <1>2, <1>3, <2>1, <2>4, <3>2, <4>1
      <3> QED
        BY <3>3, <3>4
    <2>5. ASSUME NEW c \in Changes, Rewritten(d, c) PROVE rows'[d][p] # 0
      <3>1. /\ c.obj \in Objects /\ rows'[d] = [rows[d] EXCEPT ![c.obj] = c.ver]
            /\ Parent[c.obj] = None \/ rows[d][Parent[c.obj]] # 0
        BY <2>5 DEF Rewritten, Changes
      <3>2. c.ver # 0
        BY <2>5, NextEventFacts DEF Rewritten, LinesHaveProjects, NextChange
      <3>3. CASE o = c.obj
        BY <1>2, <1>3, <2>1, <3>1, <3>3
      <3>4. CASE o # c.obj
        <4>1. rows'[d][o] = rows[d][o]
          BY <1>2, <3>1, <3>4
        <4> QED
          BY <1>2, <1>3, <2>1, <3>1, <3>2, <4>1
      <3> QED
        BY <3>3, <3>4
    <2> QED
      BY <2>2, <2>3, <2>4, <2>5, RowsFacts
  <1>4. ASSUME NEW e \in Devices, NEW o \in Objects, rows'[e][o] # 0, Parent[o] # None
        PROVE  rows'[e][Parent[o]] # 0
    <2>1. CASE e = d
      BY <1>3, <1>4, <2>1
    <2>2. CASE e # d
      BY <1>1, <1>4, <2>2 DEF OthersKept, LinesHaveProjects
    <2> QED
      BY <2>1, <2>2
  <1>5. ASSUME NEW n, Sends(d, n), NEW i \in Places', i \notin Places, log'[i].change.by = 0
        PROVE  log'[i].change.ver # 0
    <2>1. i \in 1..Len(log') /\ i > Len(log)
      BY <1>1, <1>5 DEF LogGrows, Places
    <2>2. PICK x \in 1..n : log'[i].change = Batch(d)[x]
      BY <1>5, <2>1, SendsFacts
    <2>3. x \in 1..Len(Batch(d))
      BY <1>5, SendsFacts, LenProperties
    <2>4. PICK k \in 1..Len(outbox[d]) : Batch(d)[x] = outbox[d][k].change
      BY <2>3, BatchFacts
    <2>5. k \in DOMAIN outbox[d]
      BY LenProperties DEF Tables
    <2> QED
      BY <1>5, <2>2, <2>4, <2>5 DEF ProjectsAhead
  <1>6. ASSUME NEW i \in Places', log'[i].change.by = 0 PROVE log'[i].change.ver # 0
    <2>1. CASE i \in Places
      BY <1>1, <1>6, <2>1 DEF LogGrows, LinesHaveProjects
    <2>2. CASE i \notin Places /\ UNCHANGED log
      BY <2>2 DEF Places
    <2>3. CASE i \notin Places /\ ~ UNCHANGED log
      <3>1. \E n : Sends(d, n)
        BY <2>3, LogStep
      <3> QED
        BY <1>5, <1>6, <2>3, <3>1
    <2> QED
      BY <2>1, <2>2, <2>3
  <1> QED
    BY <1>4, <1>6 DEF LinesHaveProjects
-----------------------------------------------------------------------------
\* After the step object o is at the center.
GotTo(o) == \E i \in 1..Len(log') : log'[i].change.obj = o

\* Row k of an outbox: an upsert has a version, and the project of a line is at
\* the center now or ahead of it.
AheadNext(s, k) ==
  LET o == s[k].change.obj
  IN /\ s[k].change.by = 0 => s[k].change.ver # 0
     /\ s[k].change.by = 0 /\ Parent[o] # None
          => GotTo(Parent[o]) \/ \E m \in 1..k - 1 : s[m].change.obj = Parent[o]

LEMMA AtCenterStays ==
  ASSUME LogGrows, NEW o, AtCenter(o)
  PROVE  GotTo(o)
  <1>1. PICK i \in Places : log[i].change.obj = o
    BY DEF AtCenter
  <1>2. i \in Places' /\ log'[i].change.obj = o
    BY <1>1 DEF LogGrows, Places
  <1> QED
    BY <1>2 DEF GotTo, Places

LEMMA RowStaysAhead ==
  ASSUME Tables, ProjectsAhead, LogGrows, NEW d \in Devices, NEW k \in 1..Len(outbox[d])
  PROVE  AheadNext(outbox[d], k)
  <1>1. k \in DOMAIN outbox[d]
    BY LenProperties DEF Tables
  <1> DEFINE c == outbox[d][k].change
             p == Parent[c.obj]
  <1>2. /\ c.by = 0 => c.ver # 0
        /\ c.by = 0 /\ p # None => AtCenter(p) \/ \E m \in 1..k - 1 : outbox[d][m].change.obj = p
    BY <1>1 DEF ProjectsAhead
  <1>3. AtCenter(p) => GotTo(p)
    BY AtCenterStays
  <1> QED
    BY <1>2, <1>3 DEF AheadNext

\* What a device marks or sends has its object at the center.
LEMMA KeyAtCenter ==
  ASSUME Tables, DonePublished, NEW d \in Devices, NEW c \in Changes, Key(c) \in done[d]
  PROVE  AtCenter(c.obj)
  <1>1. PICK i \in Places : Key(log[i].change) = Key(c)
    BY DEF DonePublished
  <1>2. log[i].change \in Changes
    <2>1. i \in 1..Len(log) /\ log \in Seq(Entries)
      BY <1>1 DEF Places, Tables
    <2>2. log[i] \in Entries
      BY <2>1, ElementOfSeq
    <2> QED
      BY <2>2 DEF Entries
  <1>3. log[i].change.obj = c.obj
    BY <1>1, <1>2, KeyFacts
  <1> QED
    BY <1>1, <1>3 DEF AtCenter

LEMMA SentAtCenter ==
  ASSUME Tables, NEW d \in Devices, Push(d), NEW c \in Changes, Key(c) \in Sent(d)
  PROVE  GotTo(c.obj)
  <1> DEFINE n == Len(Batch(d))
  <1>1. Batch(d) \in Seq(Changes) /\ n \in Nat
    BY BatchFacts, LenProperties
  <1>2. Sends(d, n)
    <2>1. log' = CenterPushAll(d, SubSeq(Batch(d), 1, n))
      <3>1. SubSeq(Batch(d), 1, n) = Batch(d)
        BY <1>1, SubSeqFull
      <3>2. log' = CenterPushAll(d, Batch(d))
        BY DEF Push
      <3> QED
        BY <3>1, <3>2
    <2> QED
      BY <1>1, <2>1 DEF Sends
  <1> HIDE DEF n
  <1>3. PICK i \in 1..n : Key(c) = Key(Batch(d)[i])
    BY BatchFacts DEF n
  <1>4. PICK p \in 1..Len(log') : Key(log'[p].change) = Key(c)
    BY <1>2, <1>3, SendsFacts
  <1>5. log'[p].change \in Changes
    <2>1. log' \in Seq(Entries)
      BY <1>2, SendsFacts
    <2>2. log'[p] \in Entries
      BY <1>4, <2>1, ElementOfSeq
    <2> QED
      BY <2>2 DEF Entries
  <1>6. log'[p].change.obj = c.obj
    BY <1>4, <1>5, KeyFacts
  <1> QED
    BY <1>4, <1>6 DEF GotTo

LEMMA ExportsAhead ==
  ASSUME Tables, DonePublished, LinesHaveProjects, ProjectsAhead, LogGrows,
         NEW d \in Devices, NEW n \in Nat, n <= Len(ToExport(d)), Enqueue(d, n),
         NEW k \in 1..Len(outbox'[d])
  PROVE  AheadNext(outbox'[d], k)
  <1> DEFINE s == outbox[d]
             t == ToExport(d)
             u == outbox'[d]
             N == Len(s)
  <1>1. /\ Len(u) = N + n /\ \A i \in 1..N : u[i] = s[i]
        /\ \A i \in 1..n : u[N + i].change = t[i]
    BY EnqueueFacts
  <1>2. N \in Nat /\ t \in Seq(Changes) /\ Len(t) \in Nat /\ s \in Seq(Pending)
    BY ToExportFacts, LenProperties DEF Tables
  <1>3. \A i \in 1..Len(t) : t[i].by = 0 =>
              /\ t[i].ver # 0
              /\ LET p == Parent[t[i].obj]
                 IN p # None =>
                      \/ Key(Upsert(p, rows[d][p])) \in done[d] \cup Queued(d)
                      \/ \E j \in 1..i - 1 : t[j] = Upsert(p, rows[d][p])
    BY ToExportFacts
  <1>4. ASSUME k \in 1..N PROVE AheadNext(u, k)
    <2>1. AheadNext(s, k)
      BY <1>4, RowStaysAhead
    <2>2. \A m \in 1..k : u[m] = s[m]
      BY <1>1, <1>2, <1>4
    <2>3. k \in 1..k /\ \A m \in 1..k - 1 : m \in 1..k
      BY <1>2, <1>4
    <2> HIDE DEF s, u
    <2> QED
      BY <2>1, <2>2, <2>3 DEF AheadNext
  <1>5. ASSUME NEW i \in 1..n, k = N + i PROVE AheadNext(u, k)
    <2> HIDE DEF t
    <2>0. u[k].change = t[i]
      BY <1>1, <1>5
    <2>1. u[k].change = t[i] /\ i \in 1..Len(t) /\ t[i] \in Changes
      <3>1. n <= Len(t)
        BY DEF t
      <3>2. i \in 1..Len(t)
        BY <1>2, <3>1
      <3> QED
        BY <1>2, <2>0, <3>2, ElementOfSeq
    <2> DEFINE o == t[i].obj
               p == Parent[o]
               b == Upsert(p, rows[d][p])
    <2>2. o \in Objects
      BY <2>1 DEF Changes
    <2>3. ASSUME t[i].by = 0, p # None
          PROVE  GotTo(p) \/ \E m \in 1..k - 1 : u[m].change.obj = p
      <3>1. p \in Objects
        BY <2>2, <2>3, ParentFacts
      <3>2. b \in Changes /\ b.obj = p
        BY <3>1, UpsertType DEF Tables
      <3>3. Key(b) \in done[d] \/ Key(b) \in Queued(d) \/ \E j \in 1..i - 1 : t[j] = b
        BY <1>3, <2>1, <2>3
      <3> HIDE DEF b, p
      <3>4. CASE Key(b) \in done[d]
        BY <3>2, <3>4, KeyAtCenter, AtCenterStays
      <3>5. CASE Key(b) \in Queued(d)
        <4>1. PICK m \in 1..N : Key(s[m].change) = Key(b)
          BY <3>5, QueuedFacts
        <4>2. s[m].change \in Changes
          <5>1. s[m] \in Pending
            BY <1>2, <4>1, ElementOfSeq
          <5> QED
            BY <5>1 DEF Pending
        <4>3. s[m].change.obj = p
          BY <3>2, <4>1, <4>2, KeyFacts
        <4>4. u[m] = s[m] /\ m \in 1..k - 1
          BY <1>1, <1>2, <1>5
        <4> QED
          BY <4>3, <4>4
      <3>6. ASSUME NEW j \in 1..i - 1, t[j] = b PROVE \E m \in 1..k - 1 : u[m].change.obj = p
        <4>1. j \in 1..n /\ N + j \in 1..k - 1
          BY <1>2, <1>5
        <4>2. u[N + j].change.obj = p
          BY <1>1, <3>2, <3>6, <4>1 DEF t
        <4> QED
          BY <4>1, <4>2
      <3> QED
        BY <3>3, <3>4, <3>5, <3>6
    <2>4. t[i].by = 0 => t[i].ver # 0
      BY <1>3, <2>1
    <2> HIDE DEF s, u
    <2> QED
      BY <2>1, <2>3, <2>4 DEF AheadNext
  <1>6. k \in 1..N \/ \E i \in 1..n : k = N + i
    <2>1. ASSUME k \notin 1..N PROVE \E i \in 1..n : k = N + i
      <3>1. k - N \in 1..n /\ k = N + (k - N)
        BY <1>1, <1>2, <2>1
      <3> QED
        BY <3>1
    <2> QED
      BY <2>1
  <1> QED
    BY <1>4, <1>5, <1>6

LEMMA KeepsAhead ==
  ASSUME Tables, KnownPlaces, PageInHand, DonePublished, LinesHaveProjects, ProjectsAhead,
         NEW d \in Devices, Step(d)
  PROVE  ProjectsAhead'
  <1>1. OthersKept(d) /\ LogGrows /\ outbox' \in [Devices -> Seq(Pending)]
    BY OthersStep, LogGrowsStep, OutboxTyped
  <1>2. ASSUME NEW k \in 1..Len(outbox'[d]) PROVE AheadNext(outbox'[d], k)
    <2>1. ToExport(d) \in Seq(Changes) /\ Len(ToExport(d)) \in Nat
      BY ToExportFacts, LenProperties
    <2>2. CASE Export(d)
      <3>1. Enqueue(d, Len(ToExport(d)))
        BY <2>2 DEF Export
      <3> DEFINE n == Len(ToExport(d))
      <3>2. n \in Nat /\ n <= Len(ToExport(d)) /\ Enqueue(d, n)
        BY <2>1, <3>1
      <3> HIDE DEF n
      <3> QED
        BY <1>1, <1>2, <3>2, ExportsAhead
    <2>3. ASSUME NEW n \in 0..(2 * Len(Order)), ExportStops(d, n) PROVE AheadNext(outbox'[d], k)
      <3>1. n \in Nat /\ n <= Len(ToExport(d)) /\ Enqueue(d, n)
        BY <2>1, <2>3, OrderFacts DEF ExportStops
      <3> QED
        BY <1>1, <1>2, <3>1, ExportsAhead
    <2>4. CASE Push(d)
      <3> DEFINE s == outbox[d]
                 u == outbox'[d]
      <3>1. PICK l \in 1..Len(s) :
              /\ u[k] = s[l]
              /\ \A m \in 1..l - 1 : Key(s[m].change) \in Sent(d) \/ \E j \in 1..k - 1 : u[j] = s[m]
        BY <1>2, <2>4, RemovedFacts
      <3>2. AheadNext(s, l)
        BY <1>1, RowStaysAhead
      <3>3. \A m \in 1..Len(s) : s[m].change \in Changes
        <4>1. \A m \in 1..Len(s) : s[m] \in Pending
          BY ElementOfSeq DEF Tables
        <4> QED
          BY <4>1 DEF Pending
      <3>4. Len(s) \in Nat
        BY LenProperties DEF Tables
      <3>5. ASSUME NEW m \in 1..l - 1
            PROVE  GotTo(s[m].change.obj) \/ \E j \in 1..k - 1 : u[j].change.obj = s[m].change.obj
        <4>1. m \in 1..Len(s) /\ s[m].change \in Changes
          BY <3>3, <3>4
        <4>2. CASE Key(s[m].change) \in Sent(d)
          <5> DEFINE c == s[m].change
          <5>1. c \in Changes /\ Key(c) \in Sent(d)
            BY <4>1, <4>2
          <5> HIDE DEF c
          <5>2. GotTo(c.obj)
            BY <2>4, <5>1, SentAtCenter
          <5> QED
            BY <5>2 DEF c
        <4>3. CASE \E j \in 1..k - 1 : u[j] = s[m]
          BY <4>3
        <4> QED
          BY <3>1, <4>2, <4>3
      <3> HIDE DEF s, u
      <3>6. AheadNext(u, k)
        <4>1. u[k].change = s[l].change
          BY <3>1
        <4> DEFINE p == Parent[s[l].change.obj]
        <4>2. ASSUME s[l].change.by = 0, p # None
              PROVE  GotTo(p) \/ \E j \in 1..k - 1 : u[j].change.obj = p
          <5>1. GotTo(p) \/ \E m \in 1..l - 1 : s[m].change.obj = p
            BY <3>2, <4>2 DEF AheadNext
          <5>2. ASSUME NEW m \in 1..l - 1, s[m].change.obj = p
                PROVE  GotTo(p) \/ \E j \in 1..k - 1 : u[j].change.obj = p
            BY <3>5, <5>2
          <5> QED
            BY <5>1, <5>2
        <4>3. s[l].change.by = 0 => s[l].change.ver # 0
          BY <3>2 DEF AheadNext
        <4> QED
          BY <4>1, <4>2, <4>3 DEF AheadNext
      <3> QED
        BY <3>6 DEF u
    <2>5. ASSUME NEW u, u = outbox'[d], Len(u) = Len(outbox[d]),
                 \A i \in 1..Len(outbox[d]) : u[i].change = outbox[d][i].change
          PROVE  AheadNext(u, k)
      <3>1. k \in 1..Len(outbox[d]) /\ Len(outbox[d]) \in Nat
        BY <1>2, <2>5, LenProperties DEF Tables
      <3>2. AheadNext(outbox[d], k)
        BY <1>1, <3>1, RowStaysAhead
      <3>3. u[k].change = outbox[d][k].change
            /\ \A m \in 1..k - 1 : u[m].change = outbox[d][m].change
        BY <2>5, <3>1
      <3> QED
        BY <3>2, <3>3 DEF AheadNext
    <2>6. CASE \/ \E n \in 0..PageSize : PushFails(d, n)
               \/ \E x \in 1..MaxFaults : Minute(d, x)
      BY <2>5, <2>6, LateFacts
    <2>7. CASE UNCHANGED outbox
      BY <2>5, <2>7
    <2> QED
      BY <2>2, <2>3, <2>4, <2>6, <2>7, Writers DEF WrittenBy
  <1>3. ASSUME NEW e \in Devices, NEW k \in DOMAIN outbox'[e] PROVE AheadNext(outbox'[e], k)
    <2>1. k \in 1..Len(outbox'[e])
      BY <1>1, <1>3, LenProperties
    <2>2. CASE e = d
      BY <1>2, <2>1, <2>2
    <2>3. CASE e # d
      <3>1. outbox'[e] = outbox[e]
        BY <1>1, <2>3 DEF OthersKept
      <3> QED
        BY <1>1, <2>1, <3>1, RowStaysAhead
    <2> QED
      BY <2>2, <2>3
  <1> QED
    BY <1>3 DEF ProjectsAhead, AheadNext, AtCenter, GotTo, Places
-----------------------------------------------------------------------------
(* The invariant, and what it is for *)

LEMMA InitSyncInv ==
  ASSUME Init
  PROVE  SyncInv
  <1>0. /\ log = <<>> /\ Len(log) = 0 /\ Places = {}
        /\ \A d \in Devices : /\ rows[d] = [o \in Objects |-> 0] /\ outbox[d] = <<>>
                              /\ done[d] = {} /\ seen[d] = {} /\ run[d] = NoRun
                              /\ state[d] = [cursor |-> 0, replay |-> FALSE]
    BY DEF Init, Places
  <1>1. Tables
    <2>1. /\ <<>> \in Seq(Entries) /\ <<>> \in Seq(Pending) /\ <<>> \in Seq(Objects)
          /\ Len(<<>>) = 0 /\ 0 \in Versions /\ 0 \in 0..MaxFaults /\ 0 <= MaxDeletions
      BY SyncBounds DEF Versions
    <2>2. log \in Seq(Entries) /\ rows \in [Devices -> [Objects -> Versions]]
      BY <2>1 DEF Init
    <2>3. tombs \in [Devices -> [Objects -> [ver: Versions, by: 0..MaxDeletions]]]
      BY NoTombType DEF Init
    <2>4. outbox \in [Devices -> Seq(Pending)] /\ run \in [Devices -> Runs]
      BY <2>1, NoRunFacts DEF Init
    <2>5. done \in [Devices -> SUBSET Keys] /\ seen \in [Devices -> SUBSET Nat]
      BY DEF Init
    <2>6. state \in [Devices -> [cursor: Nat, replay: BOOLEAN]]
          /\ conflicts \in [Devices -> SUBSET Objects]
      BY DEF Init
    <2>7. /\ owner \in [versions: SUBSET Versions, deleted: Seq(Objects), faults: 0..MaxFaults]
          /\ owner.deleted = <<>>
      BY <2>1 DEF Init
    <2> QED
      BY <2>1, <2>2, <2>3, <2>4, <2>5, <2>6, <2>7 DEF Tables
  <1>2. KnownPlaces
    BY <1>0, NoRunFacts DEF KnownPlaces
  <1>3. PageInHand
    <2>1. ReadSoFar(NoRun, {})
      BY NoRunFacts, FreshRead
    <2> QED
      BY <1>0, <2>1 DEF PageInHand
  <1>4. CursorCovered
    <2>1. 1..0 = {}
      OBVIOUS
    <2> QED
      BY <1>0, <2>1 DEF CursorCovered
  <1>5. ObjectOrder /\ DonePublished
    BY <1>0 DEF ObjectOrder, DonePublished
  <1>6. ShownIsPublished /\ LinesHaveProjects
    BY <1>0 DEF ShownIsPublished, LinesHaveProjects
  <1>7. ProjectsAhead
    <2>1. DOMAIN <<>> = {}
      OBVIOUS
    <2> QED
      BY <1>0, <2>1 DEF ProjectsAhead
  <1> QED
    BY <1>1, <1>2, <1>3, <1>4, <1>5, <1>6, <1>7 DEF SyncInv

LEMMA KeepsSyncInv ==
  ASSUME SyncInv, [Next]_vars
  PROVE  SyncInv'
  <1>1. ASSUME NEW d \in Devices, Step(d) PROVE SyncInv'
    <2>1. Tables'
      BY <1>1, KeepsTables DEF SyncInv
    <2>2. KnownPlaces' /\ PageInHand' /\ CursorCovered'
      BY <1>1, KeepsReading DEF SyncInv
    <2>3. ObjectOrder'
      BY <1>1, KeepsOrder DEF SyncInv
    <2>4. DonePublished'
      BY <1>1, KeepsDone DEF SyncInv
    <2>5. ShownIsPublished'
      BY <1>1, KeepsShown DEF SyncInv
    <2>6. LinesHaveProjects'
      BY <1>1, KeepsLines DEF SyncInv
    <2>7. ProjectsAhead'
      BY <1>1, KeepsAhead DEF SyncInv
    <2> QED
      BY <2>1, <2>2, <2>3, <2>4, <2>5, <2>6, <2>7 DEF SyncInv
  <1>2. CASE UNCHANGED vars
    BY <1>2 DEF SyncInv, Tables, KnownPlaces, PageInHand, CursorCovered, ObjectOrder, DonePublished,
                ShownIsPublished, LinesHaveProjects, ProjectsAhead, AtCenter, Places, Queued, vars
  <1> QED
    BY <1>1, <1>2, StepOfDevice

\* Whatever the devices, objects and bounds: the tables are sound, a run has in
\* hand what it read and its device has not seen, what is marked as published is
\* at the center, what a device shows behind its export is published or queued,
\* and projects go before their lines.
THEOREM SyncInvariant == Spec => []SyncInv
  <1>1. Init => SyncInv
    BY InitSyncInv
  <1>2. SyncInv /\ [Next]_vars => SyncInv'
    BY KeepsSyncInv
  <1> QED
    BY <1>1, <1>2, PTL DEF Spec

\* Every table of every device, and the log of the center, keeps its type; no
\* cursor is ahead of the log.
THEOREM SyncTyped == Spec => []TypeOK
  <1>1. ASSUME SyncInv PROVE TypeOK
    <2>0. Tables /\ KnownPlaces
      BY <1>1 DEF SyncInv
    <2>1. Len(log) \in Nat /\ \A i \in Places : log[i] \in Entries
      BY <2>0, LenProperties, ElementOfSeq DEF Tables, Places
    <2>2. \A d \in Devices : \A i \in DOMAIN outbox[d] : outbox[d][i] \in Pending
      BY <2>0, LenProperties, ElementOfSeq DEF Tables
    <2>3. \A d \in Devices : run[d] \in Runs /\ run[d].cursor <= Len(log)
      BY <2>0 DEF Tables, KnownPlaces
    <2>4. state \in [Devices -> [cursor: 0..Len(log), replay: BOOLEAN]]
      <3>1. ASSUME NEW d \in Devices PROVE state[d] \in [cursor: 0..Len(log), replay: BOOLEAN]
        <4>1. state[d] \in [cursor: Nat, replay: BOOLEAN] /\ state[d].cursor <= Len(log)
          BY <2>0 DEF Tables, KnownPlaces
        <4> QED
          BY <2>1, <4>1
      <3>2. state \in [Devices -> [cursor: Nat, replay: BOOLEAN]]
        BY <2>0 DEF Tables
      <3> QED
        BY <3>1, <3>2
    <2>5. \A i \in Places : log[i].dev \in Devices /\ log[i].change \in Changes
      BY <2>1 DEF Entries
    <2>6. \A d \in Devices : \A i \in DOMAIN outbox[d] :
            outbox[d][i].change \in Changes /\ outbox[d][i].late \in 0..MaxFaults
      BY <2>2 DEF Pending
    <2>7. \A d \in Devices : run[d].pc \in Stages /\ run[d].cursor \in 0..Len(log)
      BY <2>1, <2>3 DEF Runs
    <2>8. \A d \in Devices : seen[d] \subseteq Places /\ conflicts[d] \subseteq Objects
      BY <2>0 DEF Tables, KnownPlaces
    <2> QED
      BY <2>0, <2>4, <2>5, <2>6, <2>7, <2>8 DEF TypeOK, Tables
  <1> QED
    BY <1>1, SyncInvariant, PTL

\* No event is passed over: a device has seen everything up to its cursor,
\* whatever waited, and wherever its runs stopped (Engine.Pull).
THEOREM EventsCovered == Spec => []CursorCovered
  <1>1. SyncInv => CursorCovered
    BY DEF SyncInv
  <1> QED
    BY <1>1, SyncInvariant, PTL

\* The events of an object are consumed in the order of the center
\* (applyPulledObjects).
THEOREM EventsInOrder == Spec => []ObjectOrder
  <1>1. SyncInv => ObjectOrder
    BY DEF SyncInv
  <1> QED
    BY <1>1, SyncInvariant, PTL

\* What a device will not export again is at the center (Engine.Push,
\* MarkSyncApplied).
THEOREM MarkedIsPublished == Spec => []DonePublished
  <1>1. SyncInv => DonePublished
    BY DEF SyncInv
  <1> QED
    BY <1>1, SyncInvariant, PTL

\* Outside a replay, a pull overwrites only what was published or queued, or was
\* edited while the run was under way (Runner.RunOnce).
THEOREM EditsSpared == Spec => PullSparesEdits
  <1> DEFINE Spares ==
        \A d \in Devices, o \in Objects :
          rows[d][o] # 0 /\ rows'[d][o] # rows[d][o] /\ run[d].pc = "apply"
            /\ ~ state[d].replay /\ owner'.versions = owner.versions
            /\ owner'.deleted = owner.deleted /\ o \notin run[d].edited
          => Key(Upsert(o, rows[d][o])) \in done[d] \cup Queued(d)
  <1>1. SyncInv => Spares
    BY DEF SyncInv, ShownIsPublished
  <1>2. SyncInv /\ [Next]_vars => [Spares]_vars
    BY <1>1
  <1> QED
    BY <1>2, SyncInvariant, PTL DEF Spec, PullSparesEdits

\* A product line reaches the center behind its project, unless the project is
\* backing off (ExportBusinessObjectsForDevice, PendingSync).
THEOREM ProjectsFirst == Spec => ProjectFirst
  <1> DEFINE First ==
        \A i \in Len(log) + 1..Len(log') :
          LET d == log'[i].dev
              o == log'[i].change.obj
          IN log'[i].change.by = 0 /\ Parent[o] # None
               => \/ \E j \in 1..i - 1 : log'[j].change.obj = Parent[o]
                  \/ \E k \in DOMAIN outbox[d] :
                       outbox[d][k].change.obj = Parent[o] /\ outbox[d][k].late > 0
  <1>1. ASSUME SyncInv, NEW d \in Devices, Step(d), NEW i \in Len(log) + 1..Len(log'),
               log'[i].change.by = 0, Parent[log'[i].change.obj] # None
        PROVE  /\ log'[i].dev = d
               /\ \/ \E j \in 1..i - 1 : log'[j].change.obj = Parent[log'[i].change.obj]
                  \/ \E k \in DOMAIN outbox[d] :
                       /\ outbox[d][k].change.obj = Parent[log'[i].change.obj]
                       /\ outbox[d][k].late > 0
    <2> DEFINE p == Parent[log'[i].change.obj]
               s == outbox[d]
    <2>0. Tables /\ ProjectsAhead /\ LogGrows
      BY <1>1, LogGrowsStep DEF SyncInv
    <2>1. i \in 1..Len(log') /\ i > Len(log) /\ Len(log) \in Nat
      BY <2>0 DEF LogGrows
    <2>2. PICK n : Sends(d, n)
      BY <1>1, <2>0, <2>1, LogStep
    <2>3. /\ n <= Len(Batch(d)) /\ n \in Nat /\ Batch(d) \in Seq(Changes) /\ log' \in Seq(Entries)
          /\ log'[i].dev = d
      BY <2>0, <2>1, <2>2, SendsFacts
    <2>4. PICK x \in 1..n : /\ log'[i].change = Batch(d)[x]
                            /\ \A j \in 1..x - 1 : \E m \in 1..i - 1 :
                                 Key(log'[m].change) = Key(Batch(d)[j])
      BY <2>0, <2>1, <2>2, SendsFacts
    <2>5. x \in 1..Len(Batch(d))
      BY <2>3, LenProperties
    <2>6. PICK k \in 1..Len(s) :
              /\ Batch(d)[x] = s[k].change
              /\ \A m \in 1..k - 1 : s[m].late = 0 => \E y \in 1..x - 1 : Batch(d)[y] = s[m].change
      BY <2>0, <2>5, BatchFacts
    <2>7. DOMAIN s = 1..Len(s) /\ Len(s) \in Nat /\ \A m \in 1..Len(s) : s[m] \in Pending
      BY <2>0, LenProperties, ElementOfSeq DEF Tables
    <2>8. AtCenter(p) \/ \E m \in 1..k - 1 : s[m].change.obj = p
      BY <1>1, <2>0, <2>4, <2>6, <2>7 DEF ProjectsAhead
    <2>9. ASSUME AtCenter(p) PROVE \E j \in 1..i - 1 : log'[j].change.obj = p
      <3>1. PICK j \in Places : log[j].change.obj = p
        BY <2>9 DEF AtCenter
      <3>2. j \in 1..i - 1 /\ log'[j] = log[j]
        BY <2>0, <2>1 DEF LogGrows, Places
      <3> QED
        BY <3>1, <3>2
    <2>10. ASSUME NEW m \in 1..k - 1, s[m].change.obj = p, ~ (s[m].late > 0)
           PROVE  \E j \in 1..i - 1 : log'[j].change.obj = p
      <3>1. m \in 1..Len(s) /\ s[m] \in Pending
        BY <2>7
      <3>2. s[m].late = 0 /\ s[m].change \in Changes
        BY <2>10, <3>1, SyncBounds DEF Pending
      <3>3. PICK y \in 1..x - 1 : Batch(d)[y] = s[m].change
        BY <2>6, <3>2
      <3>4. PICK j \in 1..i - 1 : Key(log'[j].change) = Key(Batch(d)[y])
        BY <2>4
      <3>5. log'[j].change \in Changes
        <4>1. j \in 1..Len(log')
          BY <2>1
        <4>2. log'[j] \in Entries
          BY <2>3, <4>1, ElementOfSeq
        <4> QED
          BY <4>2 DEF Entries
      <3>6. log'[j].change.obj = p
        <4> DEFINE b == log'[j].change
                   c == s[m].change
        <4>1. b \in Changes /\ c \in Changes /\ Key(b) = Key(c) /\ c.obj = p
          BY <2>10, <3>2, <3>3, <3>4, <3>5
        <4> HIDE DEF b, c
        <4>2. b.obj = c.obj
          BY <4>1, KeyFacts
        <4> QED
          BY <4>1, <4>2 DEF b
      <3> QED
        BY <3>6
    <2>11. ASSUME NEW m \in 1..k - 1, s[m].change.obj = p, s[m].late > 0
           PROVE  \E j \in DOMAIN s : s[j].change.obj = p /\ s[j].late > 0
      <3>1. m \in DOMAIN s
        BY <2>7
      <3> QED
        BY <2>11, <3>1
    <2> QED
      BY <2>3, <2>8, <2>9, <2>10, <2>11
  <1>2. ASSUME SyncInv, [Next]_vars PROVE [First]_vars
    <2>1. SUFFICES ASSUME NEW d \in Devices, Step(d) PROVE First
      BY <1>2, StepOfDevice
    <2> QED
      BY <1>1, <1>2, <2>1
  <1> QED
    BY <1>2, SyncInvariant, PTL DEF Spec, ProjectFirst
=============================================================================
