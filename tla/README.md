# AHA2: a TLA+ model of the control plane

AHA2 is a control plane for coding agents. An owner creates *tasks* and talks
to them from the web, a chat channel or another service; a task is worked on by
a *Main* agent and any number of *sub-agents*; each piece of work is a *turn*,
one run of an external backend (Codex, Claude, DSH); the turns between a message
and its answer form a *round*. Everything is kept in one SQLite database per
service, and devices exchange their objects through a sync center.

Five models follow that program at the granularity of its database statements:
the life of one task, the collaboration of Main with its sub-agents, what a task
says into a chat, what a chat says to the tasks, and the exchange of objects
between devices. They say what the program promises: no message is left behind,
nothing is answered or submitted twice, order is kept, rounds are closed once and
rightly, no result and no edit is passed over, and everything ends. TLC
checks the promises on small instances, with crashes, cancelled contexts, lost
calls, expired leases, retries and every interleaving of the goroutines; TLAPS
proves the central ones for every instance.

## The system

| Part | Code (`src/internal` unless noted) | State | Operations | Interacts with |
|---|---|---|---|---|
| Status machines | `domain/states.go`, `domain/conversation.go` | - | transition tables of tasks and turns, round statuses | every update of the store |
| Task tables | `store/agents.go`, `conversation.go`, `tasks.go` | `tasks`, `task_rounds`, `turns`, `agent_inbox` | one statement or transaction per operation, on a single connection (`store.go:42`) | called by the runtime |
| Task runtime | `app/service.go`, `app/agents.go` | run contexts, `scheduleMu`, `settleMu`, merge timers | submit, start, complete, reopen, interrupt; `scheduleAgent`, `runTurn`, `afterTurnTerminal`, `settleRound`, `Shutdown`, `ResumePending` | store, backends, HTTP, channels |
| Live inbox | `app/agent_control.go`, `app/live_inbox.go` | delivery columns of `agent_inbox` | wait, claim, acknowledge, roll back | a backend calls it during its turn |
| Crash recovery | `store/recovery.go`, `src/cmd/aha/main.go` | all tables | `RecoverInterrupted`, then `ResumePending`, then listen | runs before any handler |
| Collaboration | `store/collaboration.go`, `app/agents.go` | batches, members, events, wakes and their timers | submit, wait, record a result, finalize, wake, fan in | runtime |
| Channel delivery | `store/channel_runtime.go`, `channel_events.go`, `src/plugins/feishu` | deliveries, attempts, leases; the plugin's loop | project, claim, ack, nack, replay, skip | runtime, a plugin process, a provider |
| Channel inbound | `channel/service.go`, `store/channel_inbound.go`, `channel_actions.go`, `channel_owner_routes.go`, `channel_handoffs.go`, `task_permissions.go` | receipts, pending actions, routes, hosts, handoffs, permission requests | receive, claim, submit, begin and finish an action, activate and exit a route, resolve | runtime (submit), the owner's web |
| Sync of a device | `sync/*.go`, `store/sync*.go` | objects, tombstones, outbox, applied keys, cursor, waiting events, conflicts | export, push, pull, apply, quarantine, replay | the center, the owner |
| Sync center | `centersync/service.go` | event log | push, pull | devices |
| Backends, execution, hardware, desktop, proxy, accounts, prompts, imports | the rest | child processes, files | I/O | runtime |

What makes each one right, and what is hard about it:

- **Task runtime and tables.** A message joins one round, is claimed by one
  batch, and is answered, dropped with its round, or given back. Nothing wakes an
  agent but the event that gives it work and the end of its own turn; so every
  early return of `scheduleAgent`, every lost compare-and-swap and every error
  path must leave somebody who will call it again. Handlers hold no lock against
  the tails of turns; `scheduleMu` covers scheduling but not retries, `settleMu`
  covers settlement but not messages or interrupts. The run context of a turn can
  be cancelled between any two statements.
- **Recovery** sees any combination of half-done work and must give back what was
  lost and nothing that was answered.
- **Live inbox** calls check the turn in one statement and act in another.
- **Collaboration** has a cursor per batch that three parties move: the poll of a
  running Main, the end of Main's turn, and the wake a timer writes. None of them
  reads and writes in one statement, and members report in between.
- **Channel delivery** must keep the order of each conversation under leases,
  retries, dead letters and replays, while updates are merged into rows that wait,
  and rely on a provider that deduplicates requests for a limited time.
- **Channel inbound** handles a receipt in up to eight transactions under a lease;
  whatever was done before a crash or a deferral is met again by the next attempt,
  while agents make new cards and the owner decides the same things in the web.
- **Sync** must neither lose nor apply twice an object whose dependencies arrive
  later, and survive a stop between any two statements of a run.

`PROJECT.json` lists the components with their status and every hazard at its
line, with the properties that cover it or the reason why none does.

## Modules

| Module | Models |
|---|---|
| `TaskStates` | the transition tables and status sets |
| `TaskStore` (extends it) | the four tables of a task; one operator per SQL statement or transaction |
| `TaskRuntime` (extends it) | the threads that run those statements: handlers, goroutines of turns, merge timer, start-up, shutdown, crash |
| `TaskProperties` (extends it) | its properties |
| `Mailbox` | the abstract specification `TaskRuntime` implements: what the inbox of a task promises |
| `Collaboration` (extends `TaskStates`), `CollaborationProperties` | the batches of a round, their polls, wakes and recovery; the properties |
| `ChannelDelivery` | the outbox of a channel instance, its plugin's delivery loop and the provider, with their properties |
| `MessageStream` | the abstract specification `ChannelDelivery` implements: what the reader of a conversation is promised |
| `ChannelInbound`, `InboundProperties` | the receipts, cards, routes and decisions of one conversation, the inbound goroutine and the owner's web; the properties |
| `ProfileSync`, `SyncProperties` | the runs of the devices, the center, and the properties |
| `MCTask`, `MCCollaboration`, `MCChannel`, `MCInbound`, `MCSync` | the instances for TLC |
| `TaskRuntimeProofs`, `TaskSafetyProofs`, `TaskMailboxProofs` | theorems about `TaskRuntime`; that it implements `Mailbox` |
| `ChannelDeliveryProofs` | theorems about `ChannelDelivery`; that it implements `MessageStream` |
| `InboundProofs` | theorems about `ChannelInbound` |
| `CollaborationProofs` | theorems about `Collaboration` |
| `SyncProofs`, `SyncConvergenceProofs` | theorems about `ProfileSync`; that its devices converge |

The models meet at narrow interfaces. What `ChannelInbound` sends with
`EnqueueChannelOwnerMessage` is the message of a `Submit` thread of `TaskRuntime`;
what `ChannelDelivery` projects are events of tasks; `Collaboration` takes
scheduling and settlement as one step each, which `TaskRuntime` takes apart, and
adds the batches that `TaskRuntime` leaves out. `ProfileSync` shares only the
objects.

### Task: correspondence with the code

**Rows.** A row is a record; its key is its sequence number. `turn[t].batch` is
`inbox_batch_id`, named by the first attempt. `inbox[i].turn` is
`delivered_turn_id`, `inbox[i].source` is `source_turn_id` of a routed outcome.
The text of messages, replies and prompts is left out. `retryable` keeps of
`waiting_reason` the one thing `retryTurn` asks of it.

**Threads.** `th[x].pc` is where a goroutine is; the other fields hold what it has
read. There is a thread per request in flight, per turn, one for the merge timer
and one for the start. A step is one statement or transaction, because the
database has a single connection; two reads in a row that nothing depends on in
between are one step (`settleRound` reads the round and its turns, `CompleteTask`
the task and its active turn, `FanIn` its two conditions, `InterruptRound` the
round and its turns), and so is a read of a status followed by a
compare-and-swap that fails exactly when the read is stale.

| Threads and actions | Code |
|---|---|
| `EnterSchedule` ... `ScheduleRefused` | `scheduleAgent` under `scheduleMu`, read and claim apart |
| `Submit`, `SubmitRecheck`, `SubmitEnqueue` | `submitMessageWithSource` |
| `StartTask`, `Prepare`, `CompleteTask`/`CompleteWrite`, `ReopenTask`/`ReopenWrite` | the owner's handlers |
| `InterruptTurn`, `InterruptRound` ... `InterruptRoundCancel` | the two interrupts |
| `Advance`, `AdvanceCancelled`, `PrepareFail`, `Finish` | `runTurn` |
| `TailProcessed`, `TailSweep`, `TailRetry`/`TailNoRetry`, `TailRoute`, `TailFanIn`, `TailAborted` | `afterTurnTerminal` |
| `SettleNot` ... `SettleTask` | `settleRound` under `settleMu` |
| `MergeFires`, `MergeFanIn` | the merge timer's callback |
| `LiveCall`, `LiveAckCall`, `LiveClaim`, `LiveWait`, `LiveWaitTimeout`, `LiveAck` | the agent API |
| `Disconnect` | a request context that is cancelled |
| `Shutdown`, `Stop`, `Crash`, `Restart`, `ResumeNext`, `ResumeDone` | the process: `Shutdown` cancels the contexts and waits; recovery runs before `ResumePending`, which runs before the server listens |

**Cancelled contexts.** `cancelled` holds the turns whose run context is
cancelled while their goroutine still uses it. A goroutine that uses a cancelled
context fails at its next statement (`AdvanceCancelled`, `TailAborted`). After
the backend returned, the code goes on with `context.Background()` (`bg`), and a
cancellation no longer reaches it.

**What the inbox promises.** `Mailbox` has no rounds, threads, locks or processes. A
message waits (`Post`), is handed to its agent in a new batch (`Hand`) or taken during
one (`Take`), at once or to be confirmed (`Confirm`, `Decline`). A batch ends answered,
failed or cut off (`End`); only then are its messages done (`Finish`, `Sweep`). A failed
one is tried again once (`Retry`). A message waits a second time only if it was not
confirmed or if a restart cut its batch off (`Restart`). In the refinement (`Inbox`) a
message is a row of `agent_inbox`, a batch the number of its first attempt, its fate
what the statuses of its attempts say together (`FateOf`), and its reader their agent.

**Left out**: the variants of submit that channels and pets use (with them, the
channel service that starts before `ResumePending`); the statuses of task agents;
events, memories and prompts; the error paths of `ResumePending` (see
`Collaboration`). The limits of the live inbox (20 or 50 messages per claim, 100
per wait) are not reached. A live call is made by a running turn; the code also
accepts a starting one, whose backend does not run yet.

### Collaboration

One round, opened by a first message. The goroutine of a turn goes `run`,
`terminal`, then `Retry` or `PassOn`, then for a sub-agent `route` (its result)
and for Main `finalize`, `finalize_write` and `arm` for each batch of its own and
of its inbox, then `schedule`, `fan_in`, `settle`. A batch is named by its number;
events are numbered as `collaboration_events.sequence` is.

| Actions | Code |
|---|---|
| `Assign`, `CreateBatch`, `CallLost`, `ScheduleDue` | `SubmitAgentCollaboration`, `spawnAgentTurns`: the assignments first, then the batch, then the agents |
| `WaitCall`, `WaitAnswer`, `WaitTimeout` | `WaitAgentCollaboration`, with the status it read before it waited |
| `EndTurn`, `PassOn`, `Retry` | the end of a turn; its items are processed, or go to a second attempt |
| `RecordResult`, `RouteResult` | `RecordCollaborationResult`; the outcome in Main's inbox when no member is linked |
| `Arm`, `Finalize`, `FinalizeWrite` | `maybeScheduleCollaborationFallback`, `finalizeMainCollaboration` |
| `WakeFires`, `WakeMarks`, `WakeSchedules` | the wake timer's callback: the item, `MarkCollaborationFallback` per batch, the scheduling |
| `TailFanIn`, `MergeFires`, `Settle` | fan-in and its timer; `settleRound` with the count of open batches |
| `Restart`, `ResumeAgent`, `ResumeFails`, `ResumeBatches`, `Crash` | recovery and the order of `ResumePending`, with the error that stops it |

`answered` is a history variable: the events that polls returned. Left out: the
cards that show a batch in the conversation, the instructions in a wake, several
rounds, the other collaboration modes. `scheduleAgent`, `settleRound` and the
reads of a wake are one step each.

### Channel delivery

A row of `outbox` is one of `channel_delivery_outbox`:
`seq` and `gen` are `stream_sequence` and `replay_generation`, `content` is
`source_event_sequence`, and `attempts` also names the lease, which is new for
each attempt. `held` and `report` are the local state of the one plugin process.

| Actions | Code |
|---|---|
| `Project` | `AppendChannelSourceAndProject`: merged into the last pending row of its coalesce key, or a new row |
| `MenuCard`, `MenuCardAgain` | `enqueueChannelActionDeliveryTx`, first time and repeated |
| `Replay`, `Skip` | the owner's dead letters |
| `Claim` | `ClaimChannelDeliveries`; the answer may not arrive |
| `SendAccepted`, `SendRejected`, `SendAmbiguous` | `deliver`: the message and the outcome it decides to report |
| `Reported`, `ReportLost` | `AckChannelDelivery` and `NackChannelDelivery`, or a call that fails, which the loop ignores |
| `Kill`, `Start` | the supervisor kills the plugin; the service starts, after `SkipEphemeralMenuCards` |

Time is a choice: `Claim` picks the leases that have expired and those of the heads
that are due, `SendAmbiguous` whether the first attempt is 55 minutes old, and a send
whether the provider has forgotten an earlier request of the row. A row keeps the uuid
of its request; the provider shows the row again, with what it says now, only if it
has forgotten it (`Shows`; `chat` is what it shows of each row). No request is
forgotten before the first attempt is 55 minutes old: an ambiguous failure is not
retried after that, but a retry that was put back before, an expired lease or a retry
after a rejection is sent without a look at the age. A row that is patched in place of
a new message is not told apart. Left out: which subscriptions an event reaches,
suppressed replies of bots, attachments, media leases, resets and retention, a
message that reaches the provider after its connection was given up, and a second
plugin process (one that outlived a crash of the service).

`MessageStream` has no rows, leases, attempts or processes: messages line up, one
appears when all before it is settled; a refused one holds the line until
the owner sends it again in its place or sets it aside. In the refinement (`Stream`)
a message is a row, its fate is its status, and the reader has seen what the
provider showed; a second showing of the same row is no step of the stream. A replay
is a message that takes the place of the refused one.

### Channel inbound

One conversation, its receipts in the order of `received_at`, its pending actions
in the order of creation. `loop.pc` is where the inbound goroutine is, `loop.queue`
the receipts of the batch it claimed, `loop.target` the task it has in hand; `web`
is a handler of the owner. `bound` lists the tasks of `channel_task_routes` by their
last activation, `route` the active one.

| Actions | Code |
|---|---|
| `ReceiveInbound`, `LeaseRunsOut`, `DownloadEnds` | the plugin's calls and the clock |
| `Reconcile`, `ExitTerminal`, `AdoptHost` | `reconcileTerminalTaskRoutes` |
| `ClaimInbox` | `ClaimChannelInbox` |
| `TakeMessage`, `ReadRoute`, `Continue`, `Prepare`, `ActivateContinuation`, `Attachments`, `CheckTask`, `Enqueue` | `processInbound` for a message: the route, the continuation of a finished task, downloads, `EnqueueChannelOwnerMessage` |
| `TakeMenu` | `processMenuCardAction`: a preview and its card |
| `TakeClick`, `Recheck`, `Cancel`, `Reject`, `Succeed`, `FinishClick` | `processCardAction` around `executePendingAction` |
| `TakeOver`, `Exit`, `Complete`, `CreateTask`, `StartTask`, `SubmitRequest`, `ResolveHandoff` | its operations |
| `DecideByCard`, `FinishPermission` | `resolveTaskPermissionCardAction` |
| `BindRoute`, `UnbindRoute`, `UnbindAdopt`, `DecideInWeb`, `FinishCard`, `Tell` | the owner's web |
| `Propose`, `Lapse`, `EndTask`, `Touch`, `Crash` | agents that make cards, the clock, other writers of a task, the process |

One conversation stands for two: the owner's own, with the cards of the owner's
actions, and a group, with the cards of permission requests; `SameChat` keeps the
cards apart. The creation of a permission request and of its card is one step, and
so are the two transactions of an adoption. The precondition of an action
(`updated_at`, the revision of the route) is the bit `fresh`. A permission request and
its card have one `expires_at`, so `Lapse` ends both: the card if it is pending, the
request if it is not decided. A click begun before the expiry (`TakeClick`) meets the
expired request in `DecideByCard`. Left out: reopening
and interrupting a task by card, `accepted_todo`, checks of identities, endpoints
and allowlists, the creation of conversations and hosts, mentions, the contents of
uploads, the limit of 20 receipts per claim, and a decision in the web between the
two steps that create a request and its card.

### Sync

A version stands for a content (no two edits share one). `done` and `seen` are the
two kinds of keys in `sync_applied`: what need not be exported, and what need not
be applied.

| Actions | Code |
|---|---|
| `Edit`, `Delete`, `Upgrade` | the owner; a migration that asks for a replay |
| `Begin`, `Export`, `ExportStops` | `RunOnce` exports what it has not published |
| `Push`, `PushFails`, `PushStops`, `Minute`, `Drained` | `Engine.Push`: a batch, its marks one by one, `AckSync`; backoff |
| `Pull`, `SkipEvent`, `ApplyEvent`, `ApplyStops` | `Engine.Pull`, `applyPulledObjects`: passes over a page until no waiting event can go on |
| `NextPage`, `Quarantine`, `LastPage`, `CompleteReplay`, `Stop` | the end of a page; the cursor; the replay |
| `CenterPush`, `Page` | the center |

The export is one step when it does not stop. Time is a choice (`Minute` ends a
backoff); the client's own retries of 429 and 503 change nothing and are left out.
Also left out: previews, settings, the owner's resolution of conflicts, secret
bundles, object types other than projects and product lines, mirrors of remote
tasks, registration of devices.

## Runs

`Ops` says which operations of the environment a run allows. The module is in the
name of the configuration.

| Run | Instance | States | Shows |
|---|---|---|---|
| `owner_control` | 1 request in flight, 2 messages, 2 turns, failures, complete, reopen, both interrupts, disconnects, live calls | 883K | one open round, completed only with a reply; completion stands; `Mailbox` is implemented |
| `sub_agents` | 2 sub-agents, 2 messages, 5 turns | 67K | outcomes reach Main in any order, and every pending item has a waker |
| `progress` | 1 sub-agent, 1 message, 5 turns, failures, 1 shutdown or crash, fair | 81K | types; a batch is tried twice at most; only last attempts are routed; what is claimed has a goroutine; nothing answered is replayed; inboxes drain; rounds close |
| `wakes` | 1 sub-agent, polls, 4 turns, 5 items, 1 message, 1 crash, fair | 275K | the cursor is honest; an undisturbed round closes |
| `members` | 2 sub-agents (symmetric), failures, polls, 4 turns, 4 items | 1.89M | types; consumed batches and completed rounds know every result |
| `channel_delivery` | 2 conversations, 3 rows, 2 events, everything allowed, fair | 197K | order, updates reach what is sent once, every row is resolved, `MessageStream` is implemented |
| `inbound` | 2 receipts, 3 rows, 2 upsets of which 1 crash, all operations, fair | 871K | types; nothing submitted twice or out of order; cards tell the truth; everything is settled |
| `sync_faults` | 2 devices, a project and its line, both made on the first, 3 versions, 1 fault, pages of 2 | 374K | types; no event passed over; nothing hidden, overwritten or out of order; rest |
| `sync_deletes` | the same with 1 deletion, one edit of the project, failures only | 1.28M | settled devices agree; deletions hold; order per object |
| `interrupt_ends` | 1 message, 1 interrupt, fair | - | violation, see Findings |
| `woken`, `restart_serves` | 1 sub-agent, 1 message or 1 crash | - | violation |

**Bounds.** `MaxMessages`, `MaxTurns`, `MaxItems` and `MaxCrashes` bound the rows
and restarts. `MaxTurns` has to be large enough that a turn is never refused for
want of a row: two per batch when turns can fail, and as many again after a
restart. Below that, `PendingHasWaker` and the liveness properties would fail for
want of rows only, so a passing run shows that its bound suffices: `progress` reaches
the same 81K states with 8 turns and 3 items. (`owner_control` and `members` check no
such property, and have fewer.) Two messages are enough for
a message to meet the claim, the tail and the settlement of the other. Every
property relates at most two messages, turns or rounds.

`sub_agents` has no failures, retries or crashes: there `PendingHasWaker` shows the
handover between messages, sub-agents, the merge timer and Main's end. With failures,
retries and crashes it is a theorem (`PendingIsWoken`), and `progress` checks its
consequence, `InboxDrains`. `members` has polls, so that the status a poll read before
it waited is written while two members report; crashes are in `wakes`, with one.

In `channel_delivery` three rows are two events and a replay of one, or the
replay of a replay. `MaxTries` bounds attempts: at the bound nothing gets lost and
nobody is killed, and an ambiguous failure is permanent; in the code the age of the
row ends what the count of attempts does not. A permanent rejection (12 attempts in
the code) is at the bound.

In `inbound`, `MaxRows` bounds receipts and actions together: a receipt, its
repetition or a second click, and the card they are about; or two cards, one of
which supersedes the other while it is executed. `MaxUpsets` counts together what
the clock, the owner and other writers do to them (`Spend`) and the crash.

In the sync runs a page of two holds an object and its dependency, or neither
holds both; three versions are a conflict and its loser; one fault is enough to
separate every pair of statements of a run. The line is made on the device that made
the project, where it can overtake the project (a failed push backs off) and has to
wait for it; both devices edit and delete both.

Larger instances than the runs were searched once, without an error: sync with both
kinds of faults and deletions (4.9M states); a line made on either device, with
deletions (2.16M) and with all faults (531K); batches with two sub-agents and 5 turns
(1.35M), with failures and interrupts (4.0M), with a crash (2.3M), one sub-agent with
polls, failures, a message and a crash (3.1M), two batches (954K); `inbound` with more
upsets (1.7M with liveness, 6.1M for the invariants); live calls of two requests with
failures and 3 turns (1.24M); the mailbox with a crash (`owner_control` with one,
1.86M; live calls, a crash and a sub-agent, 215K). The invariant of the convergence of
sync (`ConvInv`) was searched on the 2.16M, on a single object with two deletions (6.4M
and 9.8M states), and on a project and its line with two deletions, before it was
proved.

**Symmetry** of the sub-agents is used in `members`, which checks no liveness.
**Deadlock** is checked in the sync runs only, whose clock goes on; elsewhere a task
whose owner sends no more is at rest, and so is a model whose bounds are reached.

**Fairness** is weak and per thread: a handler, a goroutine, a timer and the start
of the service go on when they can. A run of a backend ends because the idle
watchdog (`backend/watchdog.go`) ends it; in `Collaboration` that is strong
fairness, as Main may start poll after poll, each of which keeps the end of its
turn waiting. Mutexes are weakly fair too, as each holder releases in a bounded
number of steps and the arrivals are bounded. In `ChannelDelivery` the plugin's loop
goes on (its supervisor starts it again), and every head is claimed in the end
(`ClaimDue`), as leases and backoffs are finite. In `ChannelInbound` the ticker of
the goroutine, a started handler, leases and downloads (ten minutes) go on; in
`ProfileSync` the timer of the runs, a run that began, and backoffs. The owner owes
nothing: a dead letter may stay, a task may wait. Failures, interrupts, stops,
shutdowns and crashes have no fairness.

Every property of a passing run has a mutant, a plausible bug in one definition of
the model (defined before it and marked as such) under which TLC finds the
property violated.

## Properties

- `PendingHasWaker`: each pending message has a thread that will call
  `scheduleAgent` for its agent. It is why the early returns of `scheduleAgent` are
  harmless, but for one: a call that finds a closed round's items first cancels them
  and returns, and what stands behind them stays (`LeftBehind`; see *Seen and not
  stated*). TLC refutes it, in less than 30 steps, with any one of: a client that
  disconnects between the insert and the scheduling, an interrupted turn or round,
  two live calls in flight for the same turn.
- `ClaimedIsHeld`: while the process neither crashed nor is closing, a claimed item
  has a goroutine that will process it, or one that an interrupt cuts off before it
  does. (A crash between the end of a failed turn and the marking of its items leaves
  them claimed, harmlessly.)
- `ImplementsMailbox`: under all operations each step is one of `Mailbox`. So an agent
  is given its own messages only, a batch is answered at most once, no turn but the
  second attempt is added to it, nothing is done before its batch has ended, and what
  was done is done for good.
- `NoReplayAfterSuccess`: nothing answered goes back. `DeliveredOnce`: nothing
  delivered does, while the process is up (proved, and checked by no run, as the mailbox
  shows more).
- `RetryOnce`, `OnlyLastAttemptRouted`, `OutcomesRouted`: attempts and outcomes.
- `OneOpenRound`, `CompletedRoundHasReply`, `CompletionStands`: rounds and their
  task. `InboxDrains`, `RoundsClose`: progress, but for what is left behind.
- `CursorHonest`, `ConsumedIsHanded`, `CompletedKnowsAll`: a batch's cursor never
  passes a result Main was not handed, by a wake or a poll; a consumed batch is
  complete and handed; so is every batch of a round that completes. A wake hands
  over what it lists once it is in the inbox, unless the round cancels it before a
  turn of Main takes it (`Kept`).
- `RoundCloses`: a round closes, if nothing disturbs it. `Undisturbed` names what the
  code does not survive: see *Seen and not stated*.
- `InOrder`, `RowsResolve`, `ImplementsStream`: a conversation is shown in order,
  with a replay in the place of its dead letter, and also what is shown again is shown
  before what comes later; rows are resolved in the end unless a dead letter holds
  them back.
- `FirstSendIsLatest`: a row that was sent once and is delivered shows what was said
  last, although updates are merged into pending rows while the plugin claims, sends
  and reports. For a row that was sent before, see *Seen and not stated*.
- `SubmittedOnce`, `InReceivedOrder`: receipts, requests of created tasks and
  approvals become at most one message each, and without a crash in their order.
- `ResultsTrue`: a card that says *succeeded* had its effect, one that says anything
  else started nothing. `Settles`: receipts and cards are settled at last, and an
  approval reaches the task that asked, unless that task has ended. A card may stay
  executing if it is a permission request's and a crash came, or the request expired
  between the click and the decision.
- `CursorCovered`, `ObjectOrder`, `DonePublished`, `ProjectFirst`: no event is passed
  over, events of an object are consumed in order, what will not be exported again
  is at the center, lines come behind their project (but for a backoff).
- `PullSparesEdits`, `ComesToRest`: no edit is overwritten before it was queued,
  except those made between the export and the pull of one run; devices come to rest.
- `SettledAgree`, `DeletionHolds`: devices that have nothing to export, to push, to
  pull or waiting show the same objects, and none that was deleted at a version newer
  than all its upserts. Excused are objects a device has a conflict about, and objects
  in dispute (`Disputed`): product lines of deleted projects, and objects deleted more
  than once, for which *Seen and not stated* gives the reasons.

## Proofs

For every number of messages, turns and items, every set of requests and
sub-agents and every number of crashes:

- `TypeCorrect`: `Spec => []TypeOK`. The invariant is `TypeInv`: the types of the
  tables and the threads, and that a closing process has a crash to spend.
  The first part of `TaskRuntimeProofs` types each statement once.
- `OneRoundAtATime`: `Spec => []OneOpenRound`. Inductive with the types.
- `VerdictIsFinal`: no step changes the status of a closed round (`RoundClosedOnce`,
  which no run repeats). By lemma `RoundMoves` every writer of `round` leaves closed
  ones alone.
- `CompletedMeansAnswered`: `Spec => []CompletedRoundHasReply`. The verdict is
  computed two steps before it is written. `ReplyInv` adds that a thread in between
  whose verdict is *completed* (`Judged`) already has its successful turn, that
  goroutines belong to turns that exist (`Running`), and that rows never leave
  their round or a terminal status (`RowsKept`).
- `CompletionIsKept`: `Spec => CompletionStands`. Whoever derived a status from an
  earlier read writes it with a guard on the present one.
- `BatchRetriedOnce`: `Spec => []RetryOnce`. `retryTurn` is guarded by the attempt
  of its own turn, so one has to know that nobody else retried it: `BatchInv` says
  that a batch begins with a first attempt named like it (`FirstAttempt`), that a
  turn whose tail has not passed the retry is the last of its batch (`Alone`), and
  that such a goroutine is still early in its tail (`Early`).
- `NotDeliveredTwice`, `AnsweredOnce`: `Spec => DeliveredOnce` and
  `Spec => NoReplayAfterSuccess`. Lemma `ItemSteps` lists the six things that can
  happen to an item. `RowInv` adds that an item names a batch or a turn only in the
  statuses that have one, and that of two attempts of a batch the earlier one failed,
  so that recovery, which looks for an active turn of the batch, finds none where
  another attempt succeeded.
- `RuntimeImplementsMailbox`: `Spec => ImplementsMailbox`. Lemma `MailWriters` lists the
  steps that write turns or items, and for each of them a lemma (`Posts`, `Hands`,
  `Retries`, `Restarts`, ...) names the step of the mailbox it is, or why it changes
  nothing there. `FateOf` looks at all attempts of a batch; by `TwoAttempts`, which rests on
  `RowInv`, they are one turn, or a failed one and its successor. `MailInv` adds what a
  step has to know of what was read before it: the items of a claim are rows of the
  agent that claims them (`Reading`), the turns of a live call exist (`Called`), a
  goroutine that processes or sweeps has ended its turn (`Ended`), all attempts of a batch
  have one agent (`Shared`), and an item names the turn or batch it is with (`Rowed`). That
  what is claimed is still pending is no part of it: the claim compares and swaps.
- `LastAttemptOnly`: `Spec => []OnlyLastAttemptRouted`. A routed item keeps its source,
  and a turn whose tail has passed the retry is the last of its batch for good
  (`LastKept`).
- `BatchesAreHeld`: `Spec => []ClaimedIsHeld`. A claim writes the batch and starts its
  goroutine in one statement, a retry passes the batch on (`Holds`).
- `QuietIsRouted`: `OutcomesRouted` holds whenever no process ended so far, none is
  closing, no interrupt is on its way and there is room for one more item. A tail may
  leave an outcome to the next attempt, or to a later turn of the same sub-agent in the
  round (`Superseded`); `OutcomeInv` says that every tail past its routing delivered the
  outcome or is superseded, and that an active turn has its goroutine (`ActiveRuns`).
- `PendingIsWoken`: `PendingHasWaker` holds while a row is left for a turn, with
  failures, completions, reopenings, shutdowns and crashes. The four operations that
  `Undisturbed` bars each refute it (see above). `WakeInv` adds what makes a refused
  claim harmless: `Reads`, that what `scheduleAgent` read under `scheduleMu` is still
  pending when it claims, so that only an active turn can be in the way, and
  `ActiveRuns`, that this turn has a goroutine, whose tail schedules the agent. That
  the merge timer always has a round to fan in needs `Rounded` and `Formed`.

For every set of conversations and every bound of rows, events and attempts:

- `OutboxTypes`: `Spec => []TypeOK` of `ChannelDelivery`. `DeliveryInv` adds that a
  row which is pending or whose lease nobody holds has an attempt left, and that a
  report is about the current lease.
- `LatestIsShown`: `Spec => []FirstSendIsLatest`. `WordInv` says of each row that
  nothing of it is shown before it is claimed, that nothing else is shown while it is
  leased for the first time, and that a report of success is about a row that is
  shown. It holds because an update is merged into pending rows only.
- `OnlyHeadsLeased`, `ShownInOrder`: `Spec => []LeasedIsHead` and `Spec => InOrder`.
  One invariant gives both: `OrderInv` says that everything before a row that is
  leased or was shown is finished. A new row comes last, and a replay takes the
  place of a dead letter, before which nothing later was passed (`InsertedOrder`);
  all other steps move no row and let heads pass only (`KeptOrder`).
- `OutboxImplementsStream`: `Spec => ImplementsStream`, the refinement of
  `MessageStream`: initial states map to initial states, and under the invariants
  above each action maps to the arrival, repetition, setting aside, showing or
  settlement of one message, or to a step that changes nothing of the stream.

For every set of operations and every bound of receipts, rows, upsets and crashes:

- `OnceSubmitted`: `Spec => []SubmittedOnce` of `ChannelInbound`. Three kinds of
  messages have three reasons, which `InboundInv` names. A receipt in the
  goroutine's hands is *processing* and one that became a message *processed*, by the
  same transaction (`MailRows`). A created task's request is in the task, where
  `StartTask` looks before the goroutine that holds the card may submit (`LoopReads`);
  nobody else can, since a receipt is with one goroutine. The right to tell an
  approval goes with the write that decides the request, to the goroutine or to the
  web, and is gone when the approval is told (`OneApproval`). Lemmas `ReceiptStep`,
  `ActionStep`, `GoroutineStep`, `Arrives`, `Senders` and `Deciders` say what the
  actions write.
- `OrderKept`: `Spec => []InReceivedOrder`. `Ordered` is why, as long as no crash came:
  what the goroutine has in its hands came before every receipt it has not taken
  (`QueueFirst`); a receipt without attachments stays there until it is settled
  (`NoneDeferred`), since only one that waits for a download is laid aside; so what
  was sent came before everything that is not settled (`SentFirst`). A crash breaks
  `NoneDeferred`: the batch is left under its leases, and newer receipts overtake it.
- `InboundTyped`, `CardsTellTruth`: `Spec => []TypeOK` and `[]ResultsTrue`, from one
  invariant, `ResultInv`. A card is executed in several transactions, so what its
  success claims must be true before the last of them. `Labels` says how far the
  goroutine is with the card in its hands: the card is *executing*, the label fits its
  operation, at *succeed* the effect is there, and no step of the web, of an agent or
  of the menu undoes it (a new card supersedes pending ones only). `Sure`: without a
  crash, an action whose request was sent has succeeded or does in the next step, so
  no failed or cancelled card sent one. `MadeRows`: the task of an action is there
  only once the action is executed, so a superseded card started nothing. `CardRows`
  and `Targets` say that cards and labels name tasks there are, or routes once bound,
  and `TaskRows` that the active route is among the bound ones. Lemmas `RowStep` and
  `TaskStep` say what a step may do to a card and to a task.

For every set of sub-agents and every bound of turns, items, batches, messages and
crashes:

- `CursorsHonest`, `ConsumedHanded`, `CompletedRounds`: `Spec => []CursorHonest`,
  `Spec => []ConsumedIsHanded` and `Spec => CompletedKnowsAll` of `Collaboration`, with
  `BatchesTyped` for the types. One invariant gives them, `BatchInv`. Its `Shape` says
  that rows refer to rows that exist, that a goroutine belongs to a turn that ended
  or runs, and that a turn reports once (so events fit their bound). `Cursors` says
  that a cursor is honest wherever it is held: in the row of a batch, in a wake in
  the inbox, and in the callback that is about to store it. `Readings` is about the
  statements that are apart from the read they rely on: what `FinalizeWrite` and a
  poll read of a batch is still true when they write, because a member
  reports once, so that a batch everybody has reported to gets no further event, and
  cursors only grow. `NothingDropped` is why a wake that was handed over stays so: a
  round that closes finds no wake pending (`Settle` counts them), a claimed item has
  its claim, and no turn that is still active in a closed round holds a wake (so that
  a retry or a restart gives none back).
- `BatchesInvariant` is that invariant.

For every set of devices and objects and every bound of versions, deletions, faults
and pages:

- `EventsCovered`, `EventsInOrder`: `Spec => []CursorCovered` and `[]ObjectOrder` of
  `ProfileSync`. `PageInHand` says what a run has read and not yet consumed: every
  event up to the cursor of the run (not the one it saved) has been seen, waits, or
  is still to be looked at, and these stand in rising order, what waits before what
  is to do. So a cursor that is saved only when nothing is in hand passes nothing
  over, and an event that is not blocked has no unseen predecessor of its object.
- `MarkedIsPublished`: `Spec => []DonePublished`, for a batch that the center takes
  change by change (`PushFacts`), whose answer may be lost, or whose marks cut off.
- `EditsSpared`: `Spec => PullSparesEdits`. `ShownIsPublished` says that behind its
  export, and outside a replay, a run finds each content its device shows published
  or queued, but for what the owner changed since. A run that goes on keeps it: the
  outbox loses only what is marked, and what a pull brings is marked with it.
- `ProjectsFirst`: `Spec => ProjectFirst`. `ProjectsAhead` says that the project of a
  line in an outbox is at the center or stands before the line; a batch leaves it
  behind only if it backs off. It rests on `LinesHaveProjects`: no device shows a line
  without its project, whatever is deleted, so an export finds both.
- `SyncTyped` and `SyncInvariant`: the types, and the invariant as a whole.
- `DevicesAgree`, `DeletionsHold`: `Spec => []SettledAgree` and `[]DeletionHolds`. Both
  compare a device with the whole history of the log, so the invariant (`ConvInv`,
  theorem `ConvergenceInvariant`) follows each object on each device through it.
  `ShowsLast`: a version that is shown is that of the last upsert the device consumed,
  or that of an upsert still to come, or not published yet. `NothingMissed`: who has
  neither row nor tombstone has consumed no event of the object, or one is to come.
  `BuriedRightly`: a tombstone stands, once all deletions are consumed, only if no newer
  upsert came behind them; `RevivedRightly`: without one, a newer upsert came. These hold for
  objects outside of conflicts and disputes. They need `ConsumedIsDone` (what a device
  took in it does not export), `ShownOrBuried`, `DeletionsKnown` and `VersionsKnown`
  (every tombstone, row and change goes back to something the owner did), and
  `OneDeletion` (all tombstones and deletions of an object carry one version).
  Lemma `FateStep` lists what any step can make of an object on its device: nothing, an
  edit, a deletion, a conflict, a restart of the replay, or the next event of the
  object (by `ObjectOrder`), which is found to be old, removes it, waits, or shows
  it; each part of the invariant is then one case analysis. At rest everything is
  consumed and published, and the parts leave one possible content.

  `OneDeletion` was not inductive for an object deleted on two devices. TLC confirmed
  that it is the property which fails, not the proof: `SettledAgree` as it was stated
  before held only because `sync_deletes` allows one deletion. `Disputed` names the
  exception now (the same run cannot show it, the theorem holds for any number).

The outbox, the export and the center's log are built by recursive functions
(`Only`, `CenterPushAll`). What they compute is proved by induction over the length of
their argument, with a set in the place of a predicate: a least counterexample exists
because `<` is well-founded (`WFMin`), which gives lemma `Induction`. Lemma
`StoresExists` and its like say that the function is the one its equations describe.

The assumptions are the ones the modules name: positive bounds, Main is no
sub-agent, known operations, distinct threads; and of sync, that product lines have
projects and projects have none, and that an export lists projects first, as
`ExportBusinessObjectsForDevice` does.

Only model-checked: liveness (`InboxDrains`, `RoundsClose`, `RowsResolve`,
`RoundCloses`, `Settles`, `ComesToRest`), which the proof system does not reach under
fairness. Every safety and action property of the passing runs is a theorem.

## Findings

- **An interrupt that ends nothing** (`interrupt_ends`): a turn interrupted before
  its backend runs stays active until the service restarts, because the write that
  would end it uses the cancelled context.
- **A result that wakes nobody** (`woken`), against
  `internal/prompt/templates/resource-agent-api.md:96`: Main ended, a message started
  another turn of Main, the sub-agent reports during it; neither the report nor the
  end of that turn arms a wake, and the round stays open until the service restarts.
- **A service that does not start** (`restart_serves`), against
  `docs/core-design.md:924`: an assignment whose batch was not stored, or whose member
  is linked to a turn the crash interrupted, makes `ResumePending` fail at every
  start.

### Seen and not stated

The models show these too. No property forbids them: the code means them, no
document says otherwise, or a hazard lists them with a note.

- Task: a queued message nobody schedules. Two messages join a round between
  `settleRound`'s count of pending items (`service.go:2249`) and its write; the claim
  takes the first, the other waits behind its turn, and the round is closed. A further
  message opens the next round. At the end of the turn `scheduleAgent` finds the item
  of the closed round first, cancels it and returns (`agents.go:512`); that
  message stays queued, with Main idle, until another one comes or the service
  restarts (`service_test.go:705` expects it to be consumed). It takes four messages
  and 42 steps, more than the runs allow; `LeftBehind` excuses it.
- Task: a retry created in a settled round while the next round runs a turn of the
  same agent; a message inserted into a task completed meanwhile
  (`app/service.go:768`); a live claim after the sweep of its turn, never given
  back; a client that disconnects between insert and scheduling (`service.go:818`); a
  crash between a succeeded turn and its settlement, which leaves the task active.
- Collaboration: a second attempt is linked to no member, so its batch is never
  complete and the merge timer arms itself for ever; a batch of a turn that a batch
  woke is not looked at; a status read before a wait is written after it; a wake may
  write *fallback* over *consumed*; a request cancelled between assignment and batch
  leaves an assignment without one; two assignments of different batches in one
  claim are refused.
- Delivery: an update merged into a row the provider has already taken is not shown
  if the retry is deduplicated, and the row is called delivered.
- Delivery: a message is shown twice. `docs/channel-plugin-v1-design.md:366` allows
  retries within the provider's window only and forbids to send blindly after it. The
  code applies its limit of 55 minutes to ambiguous failures (`main.go:1113`); a claim
  of an expired lease (`channel_runtime.go:244`) and a retry whose backoff ends later
  (up to an hour, `main.go:1124`) are sent whatever the age of the first attempt. A
  later rejection writes *confirmed_failure* over *unknown*, also for a row that was
  shown.
- Inbound: a click that begins before a permission request expires and decides after
  it is refused (`store/task_permissions.go:100`, `permission_cards.go:61`); nobody
  ends its card, which stays executing.
- Inbound: after a crash newer receipts overtake one whose lease runs; the crashed
  execution of a card may leave a handoff undecided, a permission action executing,
  its agent untold, a host not adopted, a continuation without messages, or report
  *cancelled* for a click that follows a crashed confirmation; a task completed
  between the check and the submission drops the message
  (`channel/service.go:1442`); a menu receipt handled twice makes two cards.
- Sync: lines of a project that was deleted and revived are gone on some devices
  (`business.go:543`); a crash between the handler of an event and its marks
  publishes the pulled content again; a failed batch lets a line pass its project.
- Sync: an object deleted on two devices, at different versions, has two tombstone
  versions. A device that has one returns before it looks at the other
  (`business.go:415`), so each keeps the first it knew. A late upsert between the two
  versions revives the object on one device and not on the other; both settle, and
  nothing reports it. TLC finds it with one object, two devices, three versions, two
  deletions and one failed push, in 30 steps.
  `sync/tombstone_integration_test.go:19` tests the case of one deletion.

## Not modelled, and why

`PROJECT.json` names every part. What is left falls into four kinds.

- **I/O without a protocol**: backends, execution and workspaces, the outbound proxy
  and the chat gateway, prompts and their registry, imports, the web bundle, pet
  animation and settings, most HTTP routes. They make up the larger half of the
  lines; a model would restate parsing, formatting and file access.
- **Sequential tables**: accounts, secrets, knowledge review, onboarding. One actor,
  a statement or two per operation, nothing persisted half-way.
- **Small supervisors**: managed processes, tray, leases on hardware and desktops.
  These have interleavings of their own and are the next candidates.
- **Variants of what is modelled**: the operations each section lists as left out.

The map covers the code whose order of steps the properties depend on. Most of the
remaining lines build queries, texts and views, so the share of mapped lines stays
far below the share of modelled state changes.

## Plan

1. Channel delivery: a clock for the deduplication window, a second plugin process,
   media leases. Channel inbound: reopening and interrupting by card, two conversations
   told apart, handoffs that become todos.
2. Collaboration over several rounds, composed with `TaskRuntime`'s scheduling.
3. Hardware and desktop leases, managed processes.
