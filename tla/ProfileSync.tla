---------------------------- MODULE ProfileSync ----------------------------
(***************************************************************************)
(* Profile sync: devices exchange their shared objects through a center    *)
(* (internal/sync, internal/store/sync*.go, internal/centersync).  A run   *)
(* of a device exports what it has not published, pushes its outbox, pulls *)
(* the events of all devices, its own among them, and applies them in the  *)
(* order of the center.  Statements of a run commit one by one, so that it *)
(* may stop anywhere; the owner goes on editing meanwhile.                 *)
(*                                                                         *)
(* A version stands for a content: no two edits share one.  An object with *)
(* a parent is a product line, its parent the project; the others carry    *)
(* the versions of updated_at.                                             *)
(***************************************************************************)
EXTENDS Naturals, Sequences, SequencesExt

CONSTANTS Devices,
          Order,        \* the objects, in the order of an export
          Parent,       \* the project of a product line, or None
          None,
          Homes,        \* the devices on which an object may be created
          Drafts,       \* the versions an object may get
          MaxVersion,   \* bound on the edits
          MaxDeletions, \* bound on the deletions
          MaxFaults,    \* bound on the runs that stop or fail
          PageSize,     \* BatchSize of pushes and pulls
          Ops           \* what may happen beside runs and edits

Objects  == Range(Order)
Versions == 0..MaxVersion      \* 0: no row

ASSUME SyncBounds == /\ MaxVersion \in Nat /\ MaxDeletions \in Nat /\ MaxFaults \in Nat
                     /\ PageSize \in Nat \ {0}
ASSUME ParentAssumption == /\ None \notin Objects /\ Parent \in [Objects -> Objects \cup {None}]
                           /\ \A o \in Objects : Parent[o] # None => Parent[Parent[o]] = None
\* An export lists the projects before the product lines.
ASSUME OrderAssumption ==
  /\ Order \in Seq(Objects)
  /\ \A i, j \in DOMAIN Order : Parent[Order[i]] = Order[j] => j < i
ASSUME HomesAssumption == Homes \in [Objects -> SUBSET Devices]
ASSUME DraftsAssumption == Drafts \in [Objects -> SUBSET Versions]
ASSUME SyncOpsAssumption == Ops \subseteq {"delete", "fail", "stop", "upgrade"}

\* A change: an upsert (by = 0), or a deletion, named by its number.
Changes == [obj: Objects, ver: Versions, by: 0..MaxDeletions]

\* The idempotency key: type, id and version, or the sync key of a tombstone.
Key(c) == IF c.by = 0 THEN <<c.obj, c.ver, 0>> ELSE <<c.obj, 0, c.by>>

VARIABLES log,       \* sync_events of the center
          rows,      \* the versions of the objects a device has
          tombs,     \* sync_tombstones of a device
          outbox,    \* sync_outbox of a device
          done,      \* sync_applied: the idempotency keys
          seen,      \* sync_applied: the delivery keys, by sequence
          state,     \* sync_state of a device: its cursor, replay_required
          conflicts, \* objects with an open row in sync_conflicts
          run,       \* the sync run of a device
          owner      \* the edits, deletions and faults so far

vars == <<log, rows, tombs, outbox, done, seen, state, conflicts, run, owner>>

NoTomb == [ver |-> 0, by |-> 0]

\* todo and waiting are the events of the page that this pass has not looked at
\* and those that wait for a dependency; edited is what the owner changed since
\* the run exported.
NoRun == [pc |-> "idle", cursor |-> 0, todo |-> <<>>, waiting |-> <<>>,
          progress |-> FALSE, more |-> FALSE, edited |-> {}]

Init == /\ log = <<>>
        /\ rows = [d \in Devices |-> [o \in Objects |-> 0]]
        /\ tombs = [d \in Devices |-> [o \in Objects |-> NoTomb]]
        /\ outbox = [d \in Devices |-> <<>>]
        /\ done = [d \in Devices |-> {}] /\ seen = [d \in Devices |-> {}]
        /\ state = [d \in Devices |-> [cursor |-> 0, replay |-> FALSE]]
        /\ conflicts = [d \in Devices |-> {}]
        /\ run = [d \in Devices |-> NoRun]
        /\ owner = [versions |-> {}, deleted |-> <<>>, faults |-> 0]

\* The elements of a sequence at some of its places, in their order.
Only(s, places) ==
  LET kept[i \in 0..Len(s)] == IF i = 0 THEN <<>>
                               ELSE IF i \in places THEN Append(kept[i - 1], s[i]) ELSE kept[i - 1]
  IN kept[Len(s)]
-----------------------------------------------------------------------------
(* The center *)

\* An event of a device is stored once.
CenterPush(events, d, c) ==
  IF \E i \in DOMAIN events : events[i].dev = d /\ Key(events[i].change) = Key(c)
  THEN events ELSE Append(events, [dev |-> d, change |-> c])

\* The push handler takes the changes one by one, under pushMu.
CenterPushAll(d, changes) ==
  LET stored[i \in 0..Len(changes)] == IF i = 0 THEN log
                                       ELSE CenterPush(stored[i - 1], d, changes[i])
  IN stored[Len(changes)]

\* Pull: the next events after a cursor.
Page(cursor) == [i \in 1..(IF Len(log) - cursor > PageSize THEN PageSize ELSE Len(log) - cursor)
                   |-> cursor + i]
-----------------------------------------------------------------------------
(* The owner *)

OwnerRest == <<log, outbox, done, seen, state, conflicts>>

Edited(d, o) == run' = [run EXCEPT ![d].edited = IF run[d].pc = "idle" THEN {} ELSE @ \cup {o}]

\* An object is created once, under its project, and edited where it exists.
Edit(d, o, v) ==
  /\ v \in Drafts[o] \ owner.versions /\ v > rows[d][o]
  /\ \/ rows[d][o] # 0
     \/ /\ d \in Homes[o]
        /\ \A e \in Devices : rows[e][o] = 0 /\ tombs[e][o] = NoTomb
        /\ ~ \E i \in DOMAIN log : log[i].change.obj = o
        /\ \A e \in Devices : \A i \in DOMAIN outbox[e] : outbox[e][i].change.obj # o
        /\ Parent[o] # None => rows[d][Parent[o]] # 0
  /\ rows' = [rows EXCEPT ![d][o] = v]
  /\ owner' = [owner EXCEPT !.versions = @ \cup {v}]
  /\ Edited(d, o)
  /\ UNCHANGED tombs /\ UNCHANGED OwnerRest

\* The rows a deletion removes, and the tombstones it leaves: a project takes
\* its product lines along.
Deleted(o, table) == [p \in Objects |-> IF p = o \/ Parent[p] = o THEN 0 ELSE table[p]]
Buried(o, ver, by, table, graves) ==
  [p \in Objects |->
     IF p = o THEN [ver |-> ver, by |-> by]
     ELSE IF Parent[p] = o /\ table[p] # 0 /\ graves[p] = NoTomb THEN [ver |-> table[p], by |-> by]
     ELSE graves[p]]

\* deleteSharedObject
Delete(d, o) ==
  /\ "delete" \in Ops /\ Len(owner.deleted) < MaxDeletions /\ rows[d][o] # 0
  /\ rows' = [rows EXCEPT ![d] = Deleted(o, @)]
  /\ tombs' = [tombs EXCEPT ![d] = Buried(o, rows[d][o], Len(owner.deleted) + 1, rows[d], @)]
  /\ owner' = [owner EXCEPT !.deleted = Append(@, o)]
  /\ Edited(d, o)
  /\ UNCHANGED OwnerRest

\* schemaV35: an upgrade forgets the cursor and what was delivered.
Upgrade(d) ==
  /\ "upgrade" \in Ops /\ owner.faults < MaxFaults /\ state[d].cursor > 0
  /\ run' = [run EXCEPT ![d] = NoRun]
  /\ state' = [state EXCEPT ![d] = [cursor |-> 0, replay |-> TRUE]]
  /\ seen' = [seen EXCEPT ![d] = {}]
  /\ owner' = [owner EXCEPT !.faults = @ + 1]
  /\ UNCHANGED <<log, rows, tombs, outbox, done, conflicts>>
-----------------------------------------------------------------------------
(* A run exports and pushes *)

Upsert(o, v)    == [obj |-> o, ver |-> v, by |-> 0]
Deletion(o, tb) == [obj |-> o, ver |-> tb.ver, by |-> tb.by]
Queued(d)       == {Key(outbox[d][i].change) : i \in DOMAIN outbox[d]}

\* Mutant: product lines before their projects.
SnapshotLinesFirst(d) ==
  LET upserts == [i \in DOMAIN Order |-> Upsert(Reverse(Order)[i], rows[d][Reverse(Order)[i]])]
  IN Only(upserts, {i \in DOMAIN Order : upserts[i].ver # 0})

\* Mutant: deletions are not published.
SnapshotOfRows(d) ==
  LET upserts == [i \in DOMAIN Order |-> Upsert(Order[i], rows[d][Order[i]])]
  IN Only(upserts, {i \in DOMAIN Order : rows[d][Order[i]] # 0})

\* The snapshot of a device: its rows in the order of their dependencies, then
\* its tombstones.
Snapshot(d) ==
  LET upserts == [i \in DOMAIN Order |-> Upsert(Order[i], rows[d][Order[i]])]
      deletes == [i \in DOMAIN Order |-> Deletion(Order[i], tombs[d][Order[i]])]
  IN Only(upserts, {i \in DOMAIN Order : rows[d][Order[i]] # 0})
       \o Only(deletes, {i \in DOMAIN Order : tombs[d][Order[i]].by # 0})

\* Mutant: an object with a row in the outbox is not exported again.
ToExportOncePerObject(d) ==
  LET all    == Snapshot(d)
      New(c) == /\ Key(c) \notin done[d]
                /\ \A i \in DOMAIN outbox[d] : outbox[d][i].change.obj # c.obj
  IN Only(all, {i \in DOMAIN all : New(all[i])})

\* What the device has not published nor queued: INSERT OR IGNORE.
ToExport(d) == LET all == Snapshot(d)
               IN Only(all, {i \in DOMAIN all : Key(all[i]) \notin done[d] \cup Queued(d)})

Fault(op) == op \in Ops /\ owner.faults < MaxFaults /\ owner' = [owner EXCEPT !.faults = @ + 1]

Begin(d) ==
  /\ run[d].pc = "idle"
  /\ run' = [run EXCEPT ![d] = [NoRun EXCEPT !.pc = IF state[d].replay THEN "push" ELSE "export"]]
  /\ UNCHANGED <<log, rows, tombs, outbox, done, seen, state, conflicts, owner>>

Enqueue(d, n) ==
  outbox' = [outbox EXCEPT ![d] = @ \o [i \in 1..n |-> [change |-> ToExport(d)[i], late |-> 0]]]

ExportRest == <<log, rows, tombs, done, seen, state, conflicts>>

Export(d) ==
  /\ run[d].pc = "export"
  /\ Enqueue(d, Len(ToExport(d)))
  /\ run' = [run EXCEPT ![d].pc = "push", ![d].edited = {}]
  /\ UNCHANGED owner /\ UNCHANGED ExportRest

\* The process ends between two insertions.
ExportStops(d, n) ==
  /\ run[d].pc = "export" /\ Fault("stop") /\ n < Len(ToExport(d))
  /\ Enqueue(d, n)
  /\ run' = [run EXCEPT ![d] = NoRun]
  /\ UNCHANGED ExportRest

\* PendingSync: the first rows of the outbox that are not backing off.
Due(d) == LET all == Only(outbox[d], {i \in DOMAIN outbox[d] : outbox[d][i].late = 0})
          IN SubSeq(all, 1, IF Len(all) > PageSize THEN PageSize ELSE Len(all))
Batch(d) == [i \in DOMAIN Due(d) |-> Due(d)[i].change]
Sent(d)  == {Key(Batch(d)[i]) : i \in DOMAIN Batch(d)}

PushRest == <<rows, tombs, seen, state, conflicts>>

\* Engine.Push: the center takes the batch, the device marks and removes it.
Push(d) ==
  /\ run[d].pc = "push" /\ Due(d) # <<>>
  /\ log' = CenterPushAll(d, Batch(d))
  /\ done' = [done EXCEPT ![d] = @ \cup Sent(d)]
  /\ outbox' = [outbox EXCEPT ![d] =
       Only(@, {i \in DOMAIN outbox[d] : Key(outbox[d][i].change) \notin Sent(d)})]
  /\ UNCHANGED <<run, owner>> /\ UNCHANGED PushRest

\* Mutant: the batch is marked although its push failed.
PushFailsMarked(d, n) ==
  /\ run[d].pc = "push" /\ Fault("fail") /\ n \in 0..Len(Batch(d)) /\ Batch(d) # <<>>
  /\ log' = CenterPushAll(d, SubSeq(Batch(d), 1, n))
  /\ done' = [done EXCEPT ![d] = @ \cup Sent(d)]
  /\ run' = [run EXCEPT ![d] = NoRun]
  /\ UNCHANGED outbox /\ UNCHANGED PushRest

\* The rows of a batch back off, those of the first k failures are due again.
Backoff(d, n) ==
  [i \in DOMAIN outbox[d] |->
     IF Key(outbox[d][i].change) \in Sent(d) THEN [outbox[d][i] EXCEPT !.late = n]
     ELSE outbox[d][i]]
DueAgain(d, k) ==
  [i \in DOMAIN outbox[d] |->
     IF outbox[d][i].late <= k THEN [outbox[d][i] EXCEPT !.late = 0] ELSE outbox[d][i]]

\* The request fails, or its answer is lost after the center took n changes:
\* the rows of the batch back off.
PushFails(d, n) ==
  /\ run[d].pc = "push" /\ Fault("fail") /\ n \in 0..Len(Batch(d)) /\ Batch(d) # <<>>
  /\ log' = CenterPushAll(d, SubSeq(Batch(d), 1, n))
  /\ outbox' = [outbox EXCEPT ![d] = Backoff(d, owner'.faults)]
  /\ run' = [run EXCEPT ![d] = NoRun]
  /\ UNCHANGED done /\ UNCHANGED PushRest

\* The process ends after the center took n changes and the device marked m.
PushStops(d, n, m) ==
  /\ run[d].pc = "push" /\ Fault("stop")
  /\ n \in 1..Len(Batch(d)) /\ m \in 0..Len(Batch(d))
  /\ m > 0 => n = Len(Batch(d))
  /\ log' = CenterPushAll(d, SubSeq(Batch(d), 1, n))
  /\ done' = [done EXCEPT ![d] = @ \cup {Key(Batch(d)[i]) : i \in 1..m}]
  /\ run' = [run EXCEPT ![d] = NoRun]
  /\ UNCHANGED outbox /\ UNCHANGED PushRest

\* Time passes: the rows of the first k failures are due again.
Minute(d, k) ==
  /\ \E i \in DOMAIN outbox[d] : outbox[d][i].late \in 1..k
  /\ outbox' = [outbox EXCEPT ![d] = DueAgain(d, k)]
  /\ UNCHANGED <<log, rows, tombs, done, seen, state, conflicts, run, owner>>

\* A run begins to pull behind the cursor of its device.
Pulling(r, c) == [r EXCEPT !.pc = "pull", !.cursor = c]

\* Nothing is due.  A replay waits for an empty outbox.
Drained(d) ==
  /\ run[d].pc = "push" /\ Due(d) = <<>>
  /\ run' = [run EXCEPT ![d] = IF state[d].replay /\ outbox[d] # <<>> THEN NoRun
                               ELSE Pulling(@, state[d].cursor)]
  /\ UNCHANGED <<log, rows, tombs, outbox, done, seen, state, conflicts, owner>>
-----------------------------------------------------------------------------
(* A run pulls *)

\* Mutant: the cursor moves by the page size.
PagedFull(r, page) ==
  [r EXCEPT !.pc = "apply", !.cursor = @ + PageSize, !.todo = r.waiting \o page,
            !.waiting = <<>>, !.progress = FALSE, !.more = FALSE]

\* A page behind what still waits.
Paged(r, page) ==
  [r EXCEPT !.pc = "apply", !.cursor = @ + Len(page), !.todo = r.waiting \o page,
            !.waiting = <<>>, !.progress = FALSE, !.more = Len(page) = PageSize]

Pull(d) ==
  /\ run[d].pc = "pull"
  /\ run' = [run EXCEPT ![d] = Paged(@, Page(run[d].cursor))]
  /\ UNCHANGED <<log, rows, tombs, outbox, done, seen, state, conflicts, owner>>

\* Mutant: any upsert revives a deleted object.
BuriesDeletions(c, tb) == tb # NoTomb /\ c.by # 0

\* What a tombstone makes of a change that is not newer.
Buries(c, tb) == tb # NoTomb /\ (c.by # 0 \/ c.ver <= tb.ver)

\* applyBusinessObject
Handled(d, c) ==
  LET table  == rows[d]
      graves == tombs[d]
      up     == [graves EXCEPT ![c.obj] = NoTomb]
      parent == Parent[c.obj]
      Result(out, t, g) == [out |-> out, rows |-> t, tombs |-> g]
  IN IF Buries(c, graves[c.obj]) THEN Result("applied", table, graves)
     ELSE IF c.by # 0
     THEN IF table[c.obj] > c.ver THEN Result("conflict", table, graves)
          ELSE Result("applied", Deleted(c.obj, table), Buried(c.obj, c.ver, c.by, table, graves))
     ELSE IF parent # None /\ table[parent] = 0
     THEN Result(IF graves[parent] # NoTomb THEN "applied" ELSE "waits", table, up)
     ELSE Result("applied", [table EXCEPT ![c.obj] = c.ver], up)

\* Mutant: nothing holds the later events of an object that waits.
NeverBlocked(r, o) == FALSE

\* An earlier event of the object waits.
Blocked(r, o) == \E i \in DOMAIN r.waiting : log[r.waiting[i]].change.obj = o

\* A pass that made progress looks again at what waits.
Pass(r) == IF r.todo = <<>> /\ r.waiting # <<>> /\ r.progress
           THEN [r EXCEPT !.todo = r.waiting, !.waiting = <<>>, !.progress = FALSE]
           ELSE r
\* The next event was handled, or is held back.
Looked(r, held) ==
  [r EXCEPT !.todo = Tail(@), !.waiting = IF held THEN Append(@, Head(r.todo)) ELSE @,
            !.progress = @ \/ ~held]
Passed(d, held) == run' = [run EXCEPT ![d] = Pass(Looked(@, held))]

Applying(d) == run[d].pc = "apply" /\ run[d].todo # <<>>
NextEvent(d) == Head(run[d].todo)
NextChange(d) == log[NextEvent(d)].change

ApplyRest == <<log, outbox, state>>

\* An event the device has seen is skipped, and one behind a waiting event waits.
SkipEvent(d) ==
  /\ Applying(d)
  /\ Blocked(run[d], NextChange(d).obj) \/ NextEvent(d) \in seen[d]
  /\ Passed(d, Blocked(run[d], NextChange(d).obj))
  /\ UNCHANGED <<rows, tombs, done, seen, conflicts, owner>> /\ UNCHANGED ApplyRest

ToHandle(d) == /\ Applying(d) /\ NextEvent(d) \notin seen[d]
               /\ ~ Blocked(run[d], NextChange(d).obj)

\* applyPulledObject
ApplyEvent(d) ==
  /\ ToHandle(d)
  /\ LET h == Handled(d, NextChange(d))
     IN /\ rows' = [rows EXCEPT ![d] = h.rows]
        /\ tombs' = [tombs EXCEPT ![d] = h.tombs]
        /\ done' = [done EXCEPT ![d] = IF h.out = "applied" THEN @ \cup {Key(NextChange(d))} ELSE @]
        /\ seen' = [seen EXCEPT ![d] = IF h.out = "waits" THEN @ ELSE @ \cup {NextEvent(d)}]
        /\ conflicts' = [conflicts EXCEPT ![d] = IF h.out = "conflict"
                                                 THEN @ \cup {NextChange(d).obj} ELSE @]
        /\ Passed(d, h.out = "waits")
  /\ UNCHANGED owner /\ UNCHANGED ApplyRest

\* The process ends after the handler, before both marks or between them.
ApplyStops(d, marked) ==
  /\ ToHandle(d) /\ Fault("stop")
  /\ LET h == Handled(d, NextChange(d))
     IN /\ h.out = "applied"
        /\ rows' = [rows EXCEPT ![d] = h.rows]
        /\ tombs' = [tombs EXCEPT ![d] = h.tombs]
        /\ done' = [done EXCEPT ![d] = IF marked THEN @ \cup {Key(NextChange(d))} ELSE @]
  /\ run' = [run EXCEPT ![d] = NoRun]
  /\ UNCHANGED <<seen, conflicts>> /\ UNCHANGED ApplyRest

PageEnd(d) == run[d].pc = "apply" /\ run[d].todo = <<>>
PageRest   == <<log, rows, tombs, outbox, done, owner>>

\* Mutant: the cursor moves past what waits.
NextPageAnyway(d) ==
  /\ PageEnd(d) /\ run[d].more
  /\ state' = [state EXCEPT ![d].cursor = run[d].cursor]
  /\ run' = [run EXCEPT ![d].pc = "pull"]
  /\ UNCHANGED <<seen, conflicts>> /\ UNCHANGED PageRest

\* The cursor is kept while an event waits for a later page.
NextPage(d) ==
  /\ PageEnd(d) /\ run[d].more
  /\ state' = [state EXCEPT ![d].cursor = IF run[d].waiting = <<>> THEN run[d].cursor ELSE @]
  /\ run' = [run EXCEPT ![d].pc = "pull"]
  /\ UNCHANGED <<seen, conflicts>> /\ UNCHANGED PageRest

\* The end of the backlog: what still waits is set aside as a conflict, one
\* event after another (quarantineUnresolvable).
Quarantine(d) ==
  /\ PageEnd(d) /\ ~ run[d].more /\ run[d].waiting # <<>>
  /\ conflicts' = [conflicts EXCEPT ![d] = @ \cup {log[Head(run[d].waiting)].change.obj}]
  /\ seen' = [seen EXCEPT ![d] = @ \cup {Head(run[d].waiting)}]
  /\ run' = [run EXCEPT ![d].waiting = Tail(@)]
  /\ UNCHANGED state /\ UNCHANGED PageRest

\* Mutant: the last page does not move the cursor.
LastPageForgotten(d) ==
  /\ PageEnd(d) /\ ~ run[d].more /\ run[d].waiting = <<>>
  /\ run' = [run EXCEPT ![d] = [NoRun EXCEPT !.pc = IF state[d].replay THEN "replayed" ELSE "idle"]]
  /\ UNCHANGED <<state, seen, conflicts>> /\ UNCHANGED PageRest

LastPage(d) ==
  /\ PageEnd(d) /\ ~ run[d].more /\ run[d].waiting = <<>>
  /\ state' = [state EXCEPT ![d].cursor = run[d].cursor]
  /\ run' = [run EXCEPT ![d] = [NoRun EXCEPT !.pc = IF state[d].replay THEN "replayed" ELSE "idle"]]
  /\ UNCHANGED <<seen, conflicts>> /\ UNCHANGED PageRest

\* CompleteSyncReplay: the run goes on with the export.
CompleteReplay(d) ==
  /\ run[d].pc = "replayed"
  /\ state' = [state EXCEPT ![d].replay = FALSE]
  /\ run' = [run EXCEPT ![d].pc = "export"]
  /\ UNCHANGED <<seen, conflicts>> /\ UNCHANGED PageRest

\* A request fails, the run times out or the process ends.
Stop(d) ==
  /\ run[d].pc # "idle" /\ (Fault("stop") \/ Fault("fail"))
  /\ run' = [run EXCEPT ![d] = NoRun]
  /\ UNCHANGED <<log, rows, tombs, outbox, done, seen, state, conflicts>>
-----------------------------------------------------------------------------
RunStep(d) == Export(d) \/ Push(d) \/ Drained(d) \/ Pull(d) \/ SkipEvent(d) \/ ApplyEvent(d)
              \/ NextPage(d) \/ Quarantine(d) \/ LastPage(d) \/ CompleteReplay(d)

Next == \E d \in Devices :
  \/ Begin(d) \/ RunStep(d) \/ Stop(d) \/ Upgrade(d)
  \/ \E o \in Objects : Delete(d, o) \/ \E v \in Versions : Edit(d, o, v)
  \/ \E k \in 1..MaxFaults : Minute(d, k)
  \/ \E n \in 0..PageSize : PushFails(d, n) \/ \E m \in 0..PageSize : PushStops(d, n, m)
  \/ \E n \in 0..(2 * Len(Order)) : ExportStops(d, n)
  \/ \E marked \in BOOLEAN : ApplyStops(d, marked)

\* Runs are started on a timer and go on; time passes.
Fairness == \A d \in Devices : /\ WF_vars(Begin(d)) /\ WF_vars(RunStep(d))
                               /\ WF_vars(\E k \in 1..MaxFaults : Minute(d, k))

Spec == Init /\ [][Next]_vars /\ Fairness
=============================================================================
