--------------------------- MODULE SyncProperties ---------------------------
(***************************************************************************)
(* What profile sync promises (internal/sync, internal/centersync).        *)
(***************************************************************************)
EXTENDS ProfileSync

Stages == {"idle", "export", "push", "pull", "apply", "replayed"}
Places  == 1..Len(log)

\* Every table holds what its columns say.
TypeOK ==
  /\ \A i \in Places : log[i].dev \in Devices /\ log[i].change \in Changes
  /\ rows \in [Devices -> [Objects -> Versions]]
  /\ tombs \in [Devices -> [Objects -> [ver: Versions, by: 0..MaxDeletions]]]
  /\ \A d \in Devices : \A i \in DOMAIN outbox[d] :
       outbox[d][i].change \in Changes /\ outbox[d][i].late \in 0..MaxFaults
  /\ \A d \in Devices : seen[d] \subseteq Places /\ conflicts[d] \subseteq Objects
  /\ state \in [Devices -> [cursor: 0..Len(log), replay: BOOLEAN]]
  /\ \A d \in Devices : run[d].pc \in Stages /\ run[d].cursor \in 0..Len(log)
  /\ owner.versions \subseteq Versions /\ owner.faults \in 0..MaxFaults
  /\ Len(owner.deleted) <= MaxDeletions

\* An event at or before the cursor a device saved has been applied, found to be
\* superseded, or set aside as a conflict: whatever page it came on, and wherever
\* a run stopped, no event is passed over (Engine.Pull).
CursorCovered == \A d \in Devices : 1..state[d].cursor \subseteq seen[d]

\* The events of one object are consumed in the order of the center, those that
\* wait for a dependency included (applyPulledObjects).
ObjectOrder ==
  \A d \in Devices, j \in Places : j \in seen[d] =>
    \A i \in 1..j : log[i].change.obj = log[j].change.obj => i \in seen[d]

\* A change that a device will not export again is at the center: an answer that
\* was lost, or a run that stopped, hides nothing (Engine.Push, MarkSyncApplied).
DonePublished ==
  \A d \in Devices : \A k \in done[d] : \E i \in Places : Key(log[i].change) = k

\* A device has nothing left to export, to push or to pull.
Settled(d) == /\ state[d] = [cursor |-> Len(log), replay |-> FALSE]
              /\ outbox[d] = <<>> /\ ToExport(d) = <<>>

Agree(d, e, o) == o \notin conflicts[d] \cup conflicts[e] => rows[d][o] = rows[e][o]

\* What tombstones do not settle: the product lines of a project that was
\* deleted, and an object that was deleted more than once, on two devices or
\* again after an upsert had revived it.  Each deletion has its own version, and
\* a device keeps the one it knew first.
UnderDeleted(o) == Parent[o] \in Range(owner.deleted)
DeletedTwice(o) == \E i, j \in DOMAIN owner.deleted :
                      i # j /\ owner.deleted[i] = o /\ owner.deleted[j] = o
Disputed(o)     == UnderDeleted(o) \/ DeletedTwice(o)

\* Settled devices show the same objects, apart from those one of them has a
\* conflict about and those in dispute: concurrent edits, deletions, replays and
\* runs that stopped leave nothing behind that the next run does not repair
\* (Runner.RunOnce, applyBusinessObject).
SettledAgree ==
  (\A d \in Devices : Settled(d)) =>
    \A d, e \in Devices, o \in Objects : Disputed(o) \/ Agree(d, e, o)

\* The event at place i deletes its object, at a version no upsert is newer than.
DeletesLatest(i) ==
  LET c == log[i].change
  IN c.by # 0 /\ \A j \in Places : log[j].change.obj = c.obj /\ log[j].change.by = 0
                                   => log[j].change.ver <= c.ver

\* A device with a conflict about an object shows what it had.
Without(d, o) == rows[d][o] = 0 \/ o \in conflicts[d]

\* An object whose deletion is newer than all its upserts stays deleted, whatever
\* upserts reach the center behind the deletion, unless its deletion is in
\* dispute (sync_tombstones).
DeletionHolds ==
  \A d \in Devices : Settled(d) =>
    \A i \in Places :
      DeletesLatest(i) /\ ~ Disputed(log[i].change.obj) => Without(d, log[i].change.obj)

\* Outside a replay, a pull overwrites an object only after the content it
\* overwrites was published or queued, unless the owner edited the object while
\* the run was under way (Runner.RunOnce exports before it pulls).
PullSparesEdits ==
  [][\A d \in Devices, o \in Objects :
       rows[d][o] # 0 /\ rows'[d][o] # rows[d][o] /\ run[d].pc = "apply"
         /\ ~ state[d].replay /\ owner'.versions = owner.versions
         /\ owner'.deleted = owner.deleted /\ o \notin run[d].edited
       => Key(Upsert(o, rows[d][o])) \in done[d] \cup Queued(d)]_vars

\* Once edits and faults are over, every device comes to rest, and stays there.
ComesToRest == <>[](\A d \in Devices : Settled(d))

\* A product line reaches the center behind its project, unless a failed push of
\* the project is backing off (ExportBusinessObjectsForDevice, PendingSync).
ProjectFirst ==
  [][\A i \in Len(log) + 1..Len(log') :
       LET d == log'[i].dev
           o == log'[i].change.obj
       IN log'[i].change.by = 0 /\ Parent[o] # None
            => \/ \E j \in 1..i - 1 : log'[j].change.obj = Parent[o]
               \/ \E k \in DOMAIN outbox[d] : outbox[d][k].change.obj = Parent[o] /\ outbox[d][k].late > 0]_vars
=============================================================================
