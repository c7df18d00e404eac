---------------------------- MODULE Collaboration ----------------------------
(***************************************************************************)
(* Collaboration batches: Main hands assignments to its sub-agents, ends   *)
(* its turn or polls the batch, and is woken with the results it has not   *)
(* read (internal/store/collaboration.go, internal/app/agents.go).  The    *)
(* module has one round, opened by a first message.  Every step is one     *)
(* statement or transaction of a goroutine, except that scheduleAgent,     *)
(* settleRound and the reads of a wake are atomic here: TaskRuntime takes  *)
(* the first two apart and leaves the batches out.                         *)
(*                                                                         *)
(* The goroutine of turn t is at th[t].pc; a batch and an event are named  *)
(* by their sequence numbers, 0 being the empty string.                    *)
(***************************************************************************)
EXTENDS TaskStates, Naturals, FiniteSets, Sequences

CONSTANTS Subs,         \* the sub-agents of the task
          Ops,          \* what the environment of a run does
          MaxTurns,     \* bounds on the rows that can be inserted
          MaxItems,
          MaxBatches,
          MaxMessages,  \* bound on the messages after the first
          MaxCrashes

Main   == "main"
Agents == {Main} \cup Subs

TurnIds  == 1..MaxTurns
ItemIds  == 1..MaxItems
BatchIds == 1..MaxBatches

ASSUME RowsAssumption == /\ MaxTurns \in Nat \ {0} /\ MaxItems \in Nat \ {0}
                         /\ MaxBatches \in Nat \ {0}
                         /\ MaxMessages \in Nat /\ MaxCrashes \in Nat
                         /\ Main \notin Subs
ASSUME EnvironmentAssumption == Ops \subseteq {"wait", "fail", "interrupt"}

VARIABLES round,    \* status of the round
          turn,     \* turns
          inbox,    \* agent_inbox
          batch,    \* collaboration_batches
          member,   \* collaboration_members
          events,   \* collaboration_events, in the order of their sequence
          th,       \* goroutines of the turns
          call,     \* the SubmitAgentCollaboration in flight
          wait,     \* the WaitAgentCollaboration in flight
          timers,   \* turns whose wake timer is armed
          wake,     \* per turn, the callback of its wake timer
          merge,    \* the merge timer of the task is armed
          due,      \* agents that a handler is about to schedule
          boot,     \* where the start of the service is
          resume,   \* agents ResumePending has yet to schedule
          crashes,  \* crashes so far
          answered  \* events that a wait call returned (a history variable)

tables  == <<round, turn, inbox, batch, member, events>>
memory  == <<th, call, wait, timers, wake, merge, due>>
process == <<boot, resume, crashes>>
vars    == <<tables, memory, process, answered>>

-----------------------------------------------------------------------------
(* Rows *)

NoTurn   == [agent |-> Main, status |-> "none", attempt |-> 0, generation |-> 0, claims |-> 0]
NoCursors == [b \in BatchIds |-> 0]
NoItem   == [to |-> Main, kind |-> "owner_message", status |-> "none", claim |-> 0,
             from |-> 0, batches |-> {}, cursors |-> NoCursors, results |-> {}]
NoBatch  == [status |-> "none", parent |-> 0, delivered |-> 0]
NoMember == [status |-> "none", child |-> 0]

NoCall == [turn |-> 0, batch |-> 0, agents |-> {}]
NoWait == [turn |-> 0, batch |-> 0, after |-> 0, status |-> "none"]
NoWake == [busy |-> FALSE, batches |-> {}, cursors |-> NoCursors]

\* b is the batch that "arm" and "finalize_write" are about; delivered, next
\* and complete are what finalizeMainCollaboration has read of it; todo are
\* the batches it still has to look at.
Idle == [pc |-> "idle", todo |-> {}, b |-> 0, delivered |-> 0, next |-> 0, complete |-> FALSE]
Run  == [Idle EXCEPT !.pc = "run"]

First(S, x) == x \in S /\ \A y \in S : x <= y
Last(S, x)  == x \in S /\ \A y \in S : y <= x

FreeTurns   == {t \in TurnIds  : turn[t].status = "none"}
FreeItems   == {i \in ItemIds  : inbox[i].status = "none"}
FreeBatches == {b \in BatchIds : batch[b].status = "none"}

ActiveTurnsOf(a)     == {t \in TurnIds : turn[t].agent = a /\ turn[t].status \in TurnActive}
Ended(t)             == turn[t].status \in TurnTerminal
PendingInbox         == {i \in ItemIds : inbox[i].status = "pending"}
PendingAgentInbox(a) == {i \in PendingInbox : inbox[i].to = a}
OpenBatches          == {b \in BatchIds : batch[b].status \notin {"none", "consumed"}}
BatchesForParentTurn(t) == {b \in OpenBatches : batch[b].parent = t}

\* The message opened the round and Main works on it.
Init ==
  /\ round = "running"
  /\ turn  = [t \in TurnIds |-> IF t = 1 THEN [NoTurn EXCEPT !.status = "running",
                                                             !.attempt = 1, !.claims = 1]
                                         ELSE NoTurn]
  /\ inbox = [i \in ItemIds |-> IF i = 1 THEN [NoItem EXCEPT !.status = "claimed", !.claim = 1]
                                         ELSE NoItem]
  /\ batch  = [b \in BatchIds |-> NoBatch]
  /\ member = [b \in BatchIds |-> [a \in Subs |-> NoMember]]
  /\ events = <<>>
  /\ th = [t \in TurnIds |-> IF t = 1 THEN Run ELSE Idle]
  /\ call = NoCall /\ wait = NoWait
  /\ timers = {} /\ wake = [t \in TurnIds |-> NoWake]
  /\ merge = FALSE /\ due = {}
  /\ boot = "up" /\ resume = {} /\ crashes = 0
  /\ answered = {}
-----------------------------------------------------------------------------
(* CollaborationProgress: the results of a batch above a cursor *)

Results(b, after) == {k \in DOMAIN events : events[k].batch = b /\ k > after}

\* NextCursor: the last of them, or the cursor itself.
NextCursor(b, after) ==
  CHOOSE n \in 0..Len(events) : Last(Results(b, after) \cup {after}, n)

\* The members that are not done, or whose child has no event.
PendingMembers(b, ms, es) ==
  {a \in Subs : /\ ms[a].status # "none"
                /\ \/ ms[a].status \in {"queued", "running"}
                   \/ \A k \in DOMAIN es : es[k] # [batch |-> b, child |-> ms[a].child]}
Complete(b) == PendingMembers(b, member[b], events) = {}
-----------------------------------------------------------------------------
(* scheduleAgent *)

\* Linking a claimed assignment to its member fails if the batch is not there
\* or the member has a turn, and one turn cannot be the child of two batches;
\* the claim is rolled back then.
Linkable(a, items) ==
  LET bs == UNION {inbox[i].batches : i \in {j \in items : inbox[j].kind = "assignment"}}
  IN  /\ \A b \in bs : batch[b].status # "none" /\ member[b][a] = [status |-> "queued", child |-> 0]
      /\ Cardinality(bs) <= 1

\* The generation after that of the agent's latest turn.
NextGeneration(a) ==
  LET mine == {t \in TurnIds : turn[t].status # "none" /\ turn[t].agent = a}
  IN  IF mine = {} THEN 0 ELSE turn[CHOOSE t \in mine : Last(mine, t)].generation + 1

\* ClaimInboxAndCreateTurn, into turn n.
Claim(a, items, n) ==
  /\ turn' = [turn EXCEPT ![n] = [agent |-> a, status |-> "running", attempt |-> 1,
                                  generation |-> NextGeneration(a), claims |-> n]]
  /\ inbox' = [i \in ItemIds |-> IF i \in items
                                 THEN [inbox[i] EXCEPT !.status = "claimed", !.claim = n]
                                 ELSE inbox[i]]
  /\ member' = [b \in BatchIds |->
                  IF \E i \in items : inbox[i].kind = "assignment" /\ b \in inbox[i].batches
                  THEN [member[b] EXCEPT ![a] = [status |-> "running", child |-> n]]
                  ELSE member[b]]

\* goroutines is the table of goroutines the caller leaves; the new turn gets
\* one too.  An agent that runs, or has nothing to do, is left alone.
ScheduleAgent(a, goroutines) ==
  LET items == PendingAgentInbox(a)
      claims == ActiveTurnsOf(a) = {} /\ items # {}
  IN  \/ /\ claims => round \notin RoundTerminal /\ ~ Linkable(a, items)
         /\ th' = goroutines
         /\ UNCHANGED <<turn, inbox, member>>
      \/ /\ claims /\ round \in RoundTerminal
         /\ inbox' = [i \in ItemIds |-> IF inbox[i].status \in {"pending", "claimed"}
                                        THEN [inbox[i] EXCEPT !.status = "cancelled"]
                                        ELSE inbox[i]]
         /\ th' = goroutines
         /\ UNCHANGED <<turn, member>>
      \/ /\ claims /\ round \notin RoundTerminal /\ Linkable(a, items)
         /\ \E n \in TurnIds : /\ First(FreeTurns, n)
                               /\ Claim(a, items, n)
                               /\ th' = [goroutines EXCEPT ![n] = Run]

\* EnqueueAgentRoute
Enqueue(item) ==
  \E i \in ItemIds : /\ First(FreeItems, i)
                     /\ inbox' = [inbox EXCEPT ![i] = [item EXCEPT !.status = "pending"]]
-----------------------------------------------------------------------------
(* SubmitAgentCollaboration, called by Main in its turn *)

Serving    == boot = "up"
Up         == boot \in {"agents", "up"}
At(t, l)   == th[t].pc = l
Goto(t, l) == [th EXCEPT ![t] = [Idle EXCEPT !.pc = l]]

\* finalizeMainCollaboration goes on with the batches todo.
GoOn(t, todo) == [th EXCEPT ![t] = IF todo = {} THEN [Idle EXCEPT !.pc = "schedule"]
                                   ELSE [Idle EXCEPT !.pc = "finalize", !.todo = todo]]

\* enqueueAgentAction, one per action; a turn assigns an agent once.
Assign(t, a) ==
  /\ Serving /\ turn[t].agent = Main
  /\ \/ /\ call.turn = 0 /\ At(t, "run")
        /\ \E b \in BatchIds : /\ First(FreeBatches, b)
                               /\ call' = [turn |-> t, batch |-> b, agents |-> {a}]
     \/ /\ call.turn = t
        /\ call' = [call EXCEPT !.agents = @ \cup {a}]
  /\ \A i \in ItemIds : ~ (inbox[i].kind = "assignment" /\ inbox[i].from = t /\ inbox[i].to = a)
  /\ Enqueue([NoItem EXCEPT !.to = a, !.kind = "assignment", !.from = t,
                            !.batches = {call'.batch}])
  /\ UNCHANGED <<round, turn, batch, member, events, th, wait, timers, wake, merge, due,
                 process, answered>>

\* The members that CreateCollaborationBatch inserts for the agents as.
QueuedMembers(as) ==
  [a \in Subs |-> IF a \in as THEN [status |-> "queued", child |-> 0] ELSE NoMember]

\* CreateCollaborationBatch; then every member is scheduled.
CreateBatch ==
  /\ call.turn # 0
  /\ batch' = [batch EXCEPT ![call.batch] = [status |-> "pending", parent |-> call.turn,
                                             delivered |-> 0]]
  /\ member' = [member EXCEPT ![call.batch] = QueuedMembers(call.agents)]
  /\ due' = due \cup call.agents
  /\ call' = NoCall
  /\ UNCHANGED <<round, turn, inbox, events, th, wait, timers, wake, merge, process, answered>>

\* The caller died with its turn, and the context of its request with it.
CallLost ==
  /\ call.turn # 0 /\ Ended(call.turn)
  /\ call' = NoCall
  /\ UNCHANGED <<tables, th, wait, timers, wake, merge, due, process, answered>>

ScheduleDue(a) ==
  /\ a \in due
  /\ ScheduleAgent(a, th)
  /\ due' = due \ {a}
  /\ UNCHANGED <<round, batch, events, call, wait, timers, wake, merge, process, answered>>
-----------------------------------------------------------------------------
(* WaitAgentCollaboration: a long poll, with the cursor of an earlier answer *)

WaitCall(t, b) ==
  /\ "wait" \in Ops /\ Serving /\ At(t, "run") /\ turn[t].agent = Main
  /\ wait = NoWait /\ batch[b].status # "none"
  /\ \E after \in {0, batch[b].delivered} :
       wait' = [turn |-> t, batch |-> b, after |-> after, status |-> batch[b].status]
  /\ UNCHANGED <<tables, th, call, timers, wake, merge, due, process, answered>>

\* The status it writes is the one it read when the call came in.
WaitAnswer ==
  LET b == wait.batch
      next == NextCursor(b, wait.after)
  IN  /\ wait # NoWait
      /\ Results(b, wait.after) # {} \/ Complete(b)
      /\ batch' = [batch EXCEPT
           ![b].delivered = IF @ < next THEN next ELSE @,
           ![b].status = IF Complete(b) /\ wait.status = "pending" THEN "complete" ELSE wait.status]
      /\ answered' = answered \cup Results(b, wait.after)
      /\ wait' = NoWait
      /\ UNCHANGED <<round, turn, inbox, member, events, th, call, timers, wake, merge, due, process>>

\* Mutant: the cursor is moved to what came in since the answer was made up.
WaitTimeoutMarks ==
  /\ wait # NoWait
  /\ batch' = [batch EXCEPT ![wait.batch].delivered = NextCursor(wait.batch, @)]
  /\ wait' = NoWait
  /\ UNCHANGED <<round, turn, inbox, member, events, th, call, timers, wake, merge, due, process,
                 answered>>

WaitTimeout ==
  /\ wait # NoWait
  /\ wait' = NoWait
  /\ UNCHANGED <<tables, th, call, timers, wake, merge, due, process, answered>>
-----------------------------------------------------------------------------
(* The end of a turn *)

TailRest == <<wait, call, wake, process, answered>>

\* UpdateTurn to a final status.  The backend waits for the answer of its
\* calls: one that succeeds has none in flight, and those of one that dies are
\* dropped.
EndTurn(t) ==
  /\ At(t, "run") /\ Up
  /\ \E s \in {"succeeded"} \cup (IF "fail" \in Ops THEN {"failed"} ELSE {})
                            \cup (IF "interrupt" \in Ops THEN {"interrupted"} ELSE {}) :
       /\ s = "succeeded" => call.turn # t /\ wait.turn # t
       /\ turn' = [turn EXCEPT ![t].status = s]
  /\ wait' = IF wait.turn = t THEN NoWait ELSE wait
  /\ th' = Goto(t, "terminal")
  /\ UNCHANGED <<round, inbox, batch, member, events, call, timers, wake, merge, due, process, answered>>

\* MarkInboxBatchProcessed
Processed(t) == [i \in ItemIds |-> IF inbox[i].claim = turn[t].claims /\ inbox[i].status = "claimed"
                                   THEN [inbox[i] EXCEPT !.status = "processed"] ELSE inbox[i]]

\* Mutant: any attempt that failed is run again.
MayRetryAgain(t) == turn[t].status = "failed" /\ ActiveTurnsOf(turn[t].agent) = {}

\* A first attempt that failed is run again, as a turn of its own: always for a
\* sub-agent, after an idle timeout or an overrun context for Main.
MayRetry(t) == turn[t].status = "failed" /\ turn[t].attempt = 1 /\ ActiveTurnsOf(turn[t].agent) = {}

Retry(t) ==
  /\ At(t, "terminal") /\ MayRetry(t)
  /\ inbox' = Processed(t)
  /\ \E n \in TurnIds :
       /\ First(FreeTurns, n)
       /\ turn' = [turn EXCEPT ![n] = [turn[t] EXCEPT !.status = "running", !.attempt = @ + 1]]
       /\ th' = [Goto(t, "settle") EXCEPT ![n] = Run]
  /\ UNCHANGED <<round, batch, member, events, timers, merge, due>> /\ UNCHANGED TailRest

\* CollaborationBatchIDsForInbox: the batches that the wakes of turn t name.
WokenBy(t) == UNION {inbox[i].batches : i \in {j \in ItemIds :
                        /\ inbox[j].kind = "collaboration_fallback"
                        /\ inbox[j].status # "none" /\ inbox[j].claim = turn[t].claims}}

PassOn(t) ==
  /\ At(t, "terminal")
  /\ MayRetry(t) => turn[t].agent = Main
  /\ inbox' = Processed(t)
  /\ th' = IF turn[t].agent = Main
           THEN GoOn(t, WokenBy(t) \cup BatchesForParentTurn(t))
           ELSE Goto(t, "route")
  /\ UNCHANGED <<round, turn, batch, member, events, timers, merge, due>> /\ UNCHANGED TailRest
-----------------------------------------------------------------------------
(* routeAgentOutcome, for a sub-agent *)

ChildOf(t) == {b \in BatchIds : \E a \in Subs : member[b][a].child = t}

\* RecordCollaborationResult: the event, the member and the batch.
RecordResult(t) ==
  /\ At(t, "route")
  /\ \E b \in ChildOf(t) :
       /\ events' = Append(events, [batch |-> b, child |-> t])
       /\ member' = [member EXCEPT ![b][turn[t].agent].status = turn[t].status]
       /\ batch'  = [batch EXCEPT ![b].status = IF PendingMembers(b, member'[b], events') = {}
                                                THEN "complete" ELSE "pending"]
       /\ th' = [th EXCEPT ![t].pc = "arm", ![t].b = b]
  /\ UNCHANGED <<round, turn, inbox, timers, merge, due>> /\ UNCHANGED TailRest

\* A turn that is nobody's child, a second attempt among them, reports to
\* Main's inbox.
RouteResult(t) ==
  /\ At(t, "route") /\ ChildOf(t) = {}
  /\ Enqueue([NoItem EXCEPT !.kind = "agent_result", !.from = t])
  /\ th' = [th EXCEPT ![t].pc = "schedule", ![t].complete = TRUE]
  /\ UNCHANGED <<round, turn, batch, member, events, timers, merge, due>> /\ UNCHANGED TailRest

\* maybeScheduleCollaborationFallback
MayWake(b) == /\ b \in OpenBatches /\ Ended(batch[b].parent)
              /\ round \notin RoundTerminal
              /\ ActiveTurnsOf(Main) = {}

Arm(t) ==
  /\ At(t, "arm")
  /\ timers' = IF MayWake(th[t].b) THEN timers \cup {batch[th[t].b].parent} ELSE timers
  /\ th' = GoOn(t, th[t].todo)
  /\ UNCHANGED <<tables, merge, due>> /\ UNCHANGED TailRest
-----------------------------------------------------------------------------
(* finalizeMainCollaboration, for Main *)

Finalize(t) ==
  /\ At(t, "finalize")
  /\ \E b \in th[t].todo :
       /\ First(th[t].todo, b)
       /\ th' = IF batch[b].status = "consumed"
                THEN GoOn(t, th[t].todo \ {b})
                ELSE [th EXCEPT ![t] = [pc |-> "finalize_write", todo |-> th[t].todo \ {b},
                                        b |-> b, delivered |-> batch[b].delivered,
                                        next |-> NextCursor(b, 0), complete |-> Complete(b)]]
  /\ UNCHANGED <<tables, timers, merge, due>> /\ UNCHANGED TailRest

\* Mutant: the last batch of a turn is left to the wake that never comes.
FinalizeWriteUnarmed(t) ==
  LET consumed == th[t].complete /\ th[t].delivered >= th[t].next
  IN  /\ At(t, "finalize_write")
      /\ batch' = [batch EXCEPT ![th[t].b].status = IF consumed THEN "consumed" ELSE "fallback"]
      /\ th' = GoOn(t, th[t].todo)
      /\ UNCHANGED <<round, turn, inbox, member, events, timers, merge, due>> /\ UNCHANGED TailRest

\* Mutant: a batch is consumed when its results are read, though some are due.
FinalizeWriteIncomplete(t) ==
  LET consumed == th[t].delivered >= th[t].next
  IN  /\ At(t, "finalize_write")
      /\ batch' = [batch EXCEPT ![th[t].b].status = IF consumed THEN "consumed" ELSE "fallback"]
      /\ th' = IF consumed THEN GoOn(t, th[t].todo) ELSE [th EXCEPT ![t].pc = "arm"]
      /\ UNCHANGED <<round, turn, inbox, member, events, timers, merge, due>> /\ UNCHANGED TailRest

FinalizeWrite(t) ==
  LET consumed == th[t].complete /\ th[t].delivered >= th[t].next
  IN  /\ At(t, "finalize_write")
      /\ batch' = [batch EXCEPT ![th[t].b].status = IF consumed THEN "consumed" ELSE "fallback"]
      /\ th' = IF th[t].delivered < th[t].next THEN [th EXCEPT ![t].pc = "arm"]
               ELSE GoOn(t, th[t].todo)
      /\ UNCHANGED <<round, turn, inbox, member, events, timers, merge, due>> /\ UNCHANGED TailRest
-----------------------------------------------------------------------------
(* scheduleAgent, scheduleMainAfterAgentResult and settleRound *)

\* complete says that a result went to Main's inbox.
TailSchedule(t) ==
  /\ At(t, "schedule")
  /\ ScheduleAgent(turn[t].agent, Goto(t, IF th[t].complete /\ turn[t].agent # Main
                                          THEN "fan_in" ELSE "settle"))
  /\ UNCHANGED <<round, batch, events, timers, merge, due>> /\ UNCHANGED TailRest

\* SubAgentFanInState: the latest turn of each sub-agent has ended, and its
\* result is in Main's inbox; a result in a batch does not count.
FannedIn ==
  \A a \in Subs, t \in TurnIds :
    Last({u \in TurnIds : turn[u].status # "none" /\ turn[u].agent = a}, t) =>
      /\ Ended(t)
      /\ \E i \in ItemIds : inbox[i].kind = "agent_result" /\ inbox[i].from = t

\* goroutines is the table the caller leaves, armed the timer it found.
MergeResults(goroutines, armed) ==
  \/ /\ ActiveTurnsOf(Main) # {}
     /\ th' = goroutines /\ merge' = armed
     /\ UNCHANGED <<turn, inbox, member>>
  \/ /\ ActiveTurnsOf(Main) = {} /\ FannedIn
     /\ ScheduleAgent(Main, goroutines) /\ merge' = FALSE
  \/ /\ ActiveTurnsOf(Main) = {} /\ ~ FannedIn
     /\ th' = goroutines /\ merge' = TRUE
     /\ UNCHANGED <<turn, inbox, member>>

TailFanIn(t) == /\ At(t, "fan_in")
                /\ MergeResults(Goto(t, "settle"), merge)
                /\ UNCHANGED <<round, batch, events, timers, due>> /\ UNCHANGED TailRest

\* latestTurnsByAgent, for Main
LatestMain(t) == /\ turn[t].agent = Main /\ turn[t].status # "none"
                 /\ \A u \in TurnIds : turn[u].agent = Main /\ turn[u].status # "none" =>
                      \/ turn[u].generation < turn[t].generation
                      \/ /\ turn[u].generation = turn[t].generation
                         /\ turn[u].attempt <= turn[t].attempt

Verdict == CASE \E t \in TurnIds : LatestMain(t) /\ turn[t].status = "succeeded" -> "completed"
             [] \E t \in TurnIds : LatestMain(t) /\ turn[t].status = "interrupted" -> "interrupted"
             [] OTHER -> "failed"

AllQuiet == /\ \A t \in TurnIds : turn[t].status \notin TurnActive
            /\ PendingInbox = {}

\* Mutant: the open batches are not looked at.
SettleWithBatches(t) ==
  /\ At(t, "settle")
  /\ round' = IF round = "running" /\ AllQuiet THEN Verdict ELSE round
  /\ th' = [th EXCEPT ![t] = Idle]
  /\ UNCHANGED <<turn, inbox, batch, member, events, timers, merge, due>> /\ UNCHANGED TailRest

Settle(t) ==
  /\ At(t, "settle")
  /\ round' = IF round = "running" /\ AllQuiet /\ OpenBatches = {} THEN Verdict ELSE round
  /\ th' = [th EXCEPT ![t] = Idle]
  /\ UNCHANGED <<turn, inbox, batch, member, events, timers, merge, due>> /\ UNCHANGED TailRest

TailStep(t) == /\ Up
           /\ \/ Retry(t) \/ PassOn(t) \/ RecordResult(t) \/ RouteResult(t) \/ Arm(t)
              \/ Finalize(t) \/ FinalizeWrite(t) \/ TailSchedule(t) \/ TailFanIn(t) \/ Settle(t)
-----------------------------------------------------------------------------
(* Timers *)

TimerRest == <<round, events, call, wait, due, process, answered>>

MergeFires == /\ merge /\ MergeResults(th, FALSE)
              /\ UNCHANGED <<batch, timers, wake>> /\ UNCHANGED TimerRest

\* enqueueCollaborationWake, up to EnqueueAgentRoute: one item for all open
\* batches of parent p, whose identity is their cursors; a second one with the
\* same identity is ignored.
WakeFires(p) ==
  LET bs      == BatchesForParentTurn(p)
      unread  == [b \in BatchIds |-> IF b \in bs THEN Results(b, batch[b].delivered) ELSE {}]
      cursors == [b \in BatchIds |-> IF b \in bs THEN NextCursor(b, batch[b].delivered) ELSE 0]
      wanted  == /\ Ended(p) /\ round \notin RoundTerminal /\ ActiveTurnsOf(Main) = {}
                 /\ \A i \in PendingInbox :
                      ~ (inbox[i].kind = "collaboration_fallback" /\ inbox[i].from = p)
                 /\ \E b \in bs : unread[b] # {}
      known   == \E i \in ItemIds : /\ inbox[i].kind = "collaboration_fallback"
                                    /\ inbox[i].from = p /\ inbox[i].batches = bs
                                    /\ inbox[i].cursors = cursors
  IN  /\ p \in timers /\ ~ wake[p].busy
      /\ timers' = timers \ {p}
      /\ IF wanted /\ ~ known
         THEN Enqueue([NoItem EXCEPT !.kind = "collaboration_fallback", !.from = p,
                                     !.batches = bs, !.cursors = cursors,
                                     !.results = UNION {unread[b] : b \in bs}])
         ELSE UNCHANGED inbox
      /\ wake' = IF wanted
                 THEN [wake EXCEPT ![p] = [busy |-> TRUE, batches |-> bs, cursors |-> cursors]]
                 ELSE wake
      /\ UNCHANGED <<turn, batch, member, th, merge>> /\ UNCHANGED TimerRest

\* MarkCollaborationDelivered, at the cursor that was read, and
\* MarkCollaborationFallback.
WakeMarks(p) ==
  /\ wake[p].busy
  /\ \E b \in wake[p].batches :
       /\ First(wake[p].batches, b)
       /\ batch' = [batch EXCEPT
            ![b].delivered = IF @ < wake[p].cursors[b] THEN wake[p].cursors[b] ELSE @,
            ![b].status = "fallback"]
       /\ wake' = [wake EXCEPT ![p].batches = @ \ {b}]
  /\ UNCHANGED <<turn, inbox, member, th, timers, merge>> /\ UNCHANGED TimerRest

WakeSchedules(p) ==
  /\ wake[p].busy /\ wake[p].batches = {}
  /\ wake' = [wake EXCEPT ![p] = NoWake]
  /\ due' = due \cup {Main}
  /\ UNCHANGED <<tables, th, call, wait, timers, merge, process, answered>>

Wake(p) == WakeFires(p) \/ WakeMarks(p) \/ WakeSchedules(p)
-----------------------------------------------------------------------------
(* The owner, and the life of the process *)

\* A message joins the open round; one that Main's turn polls for itself
\* leaves no trace here.
Messages == {i \in ItemIds : inbox[i].kind = "owner_message" /\ inbox[i].status # "none"}

OwnerMessage ==
  /\ Serving /\ round = "running" /\ Cardinality(Messages) <= MaxMessages
  /\ Enqueue(NoItem)
  /\ due' = due \cup {Main}
  /\ UNCHANGED <<round, turn, batch, member, events, th, call, wait, timers, wake, merge,
                 process, answered>>

ProcessEnds == /\ th' = [t \in TurnIds |-> Idle]
               /\ call' = NoCall /\ wait' = NoWait
               /\ timers' = {} /\ wake' = [t \in TurnIds |-> NoWake]
               /\ merge' = FALSE /\ due' = {} /\ resume' = {}

Crash == /\ Up /\ crashes < MaxCrashes
         /\ crashes' = crashes + 1 /\ boot' = "off"
         /\ ProcessEnds
         /\ UNCHANGED <<tables, answered>>

\* RecoverInterrupted: the batches keep their rows as they are.
Restart ==
  LET lost  == {t \in TurnIds : turn[t].status \in TurnActive}
      items == [i \in ItemIds |->
                  IF /\ inbox[i].status = "claimed"
                     /\ \E t \in lost : inbox[i].claim = turn[t].claims
                  THEN [inbox[i] EXCEPT !.status = "pending", !.claim = 0] ELSE inbox[i]]
      pending == {i \in ItemIds : items[i].status = "pending"}
  IN  /\ boot \in {"off", "failed"}
      /\ turn' = [t \in TurnIds |-> IF t \in lost THEN [turn[t] EXCEPT !.status = "interrupted"]
                                    ELSE turn[t]]
      /\ inbox' = items
      /\ round' = IF round = "running" /\ pending = {} THEN "interrupted" ELSE round
      /\ boot' = "agents" /\ resume' = {items[i].to : i \in pending}
      /\ UNCHANGED <<batch, member, events, memory, crashes, answered>>

\* ResumePending: the agents in the order of their names ...
ResumeAgent(a) ==
  /\ boot = "agents" /\ a \in resume
  /\ Main \in resume => a = Main
  /\ \/ ActiveTurnsOf(a) # {} \/ PendingAgentInbox(a) = {} \/ round \in RoundTerminal
     \/ Linkable(a, PendingAgentInbox(a))
  /\ ScheduleAgent(a, th)
  /\ resume' = resume \ {a}
  /\ UNCHANGED <<round, batch, events, call, wait, timers, wake, merge, due, boot, crashes, answered>>

\* ... and the first error ends the process.
ResumeFails(a) ==
  /\ boot = "agents" /\ a \in resume
  /\ Main \in resume => a = Main
  /\ ActiveTurnsOf(a) = {} /\ PendingAgentInbox(a) # {} /\ round \notin RoundTerminal
  /\ ~ Linkable(a, PendingAgentInbox(a))
  /\ boot' = "failed"
  /\ ProcessEnds
  /\ UNCHANGED <<tables, crashes, answered>>

\* Then the batches that were left unread.
ResumeBatches ==
  /\ boot = "agents" /\ resume = {}
  /\ boot' = "up"
  /\ timers' = timers \cup {batch[b].parent : b \in {c \in OpenBatches : MayWake(c)}}
  /\ UNCHANGED <<tables, th, call, wait, wake, merge, due, resume, crashes, answered>>

Boot == Restart \/ ResumeBatches \/ \E a \in Agents : ResumeAgent(a) \/ ResumeFails(a)
-----------------------------------------------------------------------------
Next ==
  \/ \E t \in TurnIds : \/ \E a \in Subs : Assign(t, a)
                        \/ \E b \in BatchIds : WaitCall(t, b)
                        \/ EndTurn(t) \/ TailStep(t) \/ Wake(t)
  \/ CreateBatch \/ CallLost \/ WaitAnswer \/ WaitTimeout
  \/ \E a \in Agents : ScheduleDue(a)
  \/ MergeFires \/ OwnerMessage \/ Crash \/ Boot

Spec == Init /\ [][Next]_vars

\* Who runs goes on: the goroutine of a turn, whose backend the idle watchdog
\* ends, the handler of a call, a timer, the start of the service.
Fairness == /\ \A t \in TurnIds : SF_vars(EndTurn(t)) /\ WF_vars(TailStep(t)) /\ WF_vars(Wake(t))
            /\ WF_vars(CreateBatch) /\ WF_vars(CallLost) /\ WF_vars(WaitTimeout)
            /\ \A a \in Agents : WF_vars(ScheduleDue(a))
            /\ WF_vars(MergeFires) /\ WF_vars(Boot)

FairSpec == Spec /\ Fairness
=============================================================================
