------------------------- MODULE TaskRuntimeProofs -------------------------
(***************************************************************************)
(* Theorems about the runtime of a task, for every set of sub-agents and   *)
(* of requests, every set of operations of its environment and every bound *)
(* on messages, turns, items and crashes.                                  *)
(***************************************************************************)
EXTENDS TaskProperties, TLAPS

-----------------------------------------------------------------------------
(* What the statements of TaskStore write *)

RoundTable == [RoundIds -> RoundStatus \cup {"none"}]
TurnTable  == [TurnIds -> Turns]
InboxTable == [ItemIds -> Items]

LEMMA Bounds == MaxRounds \in Nat /\ MaxTurns \in Nat /\ MaxItems \in Nat
  BY BoundsAssumption DEF MaxRounds

\* The rows not yet inserted, and the rows given back, are rows.
LEMMA NoItemType == NoItem \in Items
  BY Bounds DEF NoItem, Items, Agents

LEMMA NoTurnType == NoTurn \in Turns
  BY BoundsAssumption DEF NoTurn, Turns, Agents, MaxRounds, MaxTurnAttempts

LEMMA ItemMovedType ==
  ASSUME NEW item \in Items, NEW s \in ItemStatus,
         NEW b \in 0..MaxTurns, NEW t \in 0..MaxTurns
  PROVE  /\ [item EXCEPT !.status = s] \in Items
         /\ [item EXCEPT !.status = s, !.batch = b] \in Items
         /\ [item EXCEPT !.status = s, !.turn = t] \in Items
         /\ [item EXCEPT !.status = s, !.batch = b, !.turn = t] \in Items
  BY DEF Items

LEMMA RequeuedType ==
  ASSUME NEW item \in Items
  PROVE  Requeued(item) \in Items
  <1>1. "pending" \in ItemStatus /\ 0 \in 0..MaxTurns
    BY Bounds DEF ItemStatus
  <1> QED
    BY <1>1, ItemMovedType DEF Requeued

\* The empty database is well typed.
LEMMA StoreInitType == StoreInit => StoreTypeOK
  <1> SUFFICES ASSUME StoreInit PROVE StoreTypeOK
    OBVIOUS
  <1>1. turn \in TurnTable
    BY NoTurnType DEF StoreInit, TurnTable
  <1>2. inbox \in InboxTable
    BY NoItemType DEF StoreInit, InboxTable
  <1> QED
    BY <1>1, <1>2 DEF StoreInit, StoreTypeOK, TaskStatus, TurnTable, InboxTable

\* Every statement on one table leaves it well typed.
LEMMA TurnUpdatedType ==
  ASSUME turn \in TurnTable, NEW t \in TurnIds, NEW to \in TurnStatus
  PROVE  TurnUpdated(t, to) \in TurnTable
  BY DEF TurnUpdated, TurnTable, Turns

LEMMA BatchProcessedType ==
  ASSUME inbox \in InboxTable, NEW b
  PROVE  BatchProcessed(b) \in InboxTable
  BY DEF BatchProcessed, InboxTable, Items, ItemStatus

LEMMA LiveInboxSweptType ==
  ASSUME inbox \in InboxTable, NEW t
  PROVE  LiveInboxSwept(t) \in InboxTable
  <1> DEFINE new(i) == LiveInboxSwept(t)[i]
  <1>1. ASSUME NEW i \in ItemIds PROVE new(i) \in Items
    <2>1. inbox[i] \in Items
      BY DEF InboxTable
    <2>2. [inbox[i] EXCEPT !.status = "processed"] \in Items
      BY <2>1 DEF Items, ItemStatus
    <2> QED
      BY <2>1, <2>2, RequeuedType DEF LiveInboxSwept
  <1> QED
    BY <1>1 DEF LiveInboxSwept, InboxTable

LEMMA PendingCancelledType ==
  ASSUME inbox \in InboxTable, NEW r
  PROVE  PendingCancelled(r) \in InboxTable
  BY DEF PendingCancelled, InboxTable, Items, ItemStatus

LEMMA LiveClaimedType ==
  ASSUME inbox \in InboxTable, NEW t \in TurnIds, NEW after \in 0..MaxItems,
         NEW s \in {"claimed_in_turn", "delivered_in_turn"}
  PROVE  LiveClaimed(t, after, s) \in InboxTable
  <1>1. ASSUME NEW i \in ItemIds
        PROVE  [inbox[i] EXCEPT !.status = s, !.turn = t] \in Items
    <2>1. inbox[i] \in Items /\ s \in ItemStatus /\ t \in 0..MaxTurns
      BY Bounds DEF InboxTable, ItemStatus, TurnIds
    <2> QED
      BY <2>1, ItemMovedType
  <1> QED
    BY <1>1 DEF LiveClaimed, InboxTable

LEMMA AckLiveInboxType ==
  ASSUME inbox \in InboxTable, NEW items, NEW delivered \in BOOLEAN
  PROVE  AckLiveInbox(items, delivered) \in InboxTable
  <1>1. ASSUME NEW i \in ItemIds
        PROVE  /\ inbox[i] \in Items
               /\ Requeued(inbox[i]) \in Items
               /\ [inbox[i] EXCEPT !.status = "delivered_in_turn"] \in Items
    <2>1. inbox[i] \in Items
      BY DEF InboxTable
    <2> QED
      BY <2>1, RequeuedType DEF Items, ItemStatus
  <1> QED
    BY <1>1 DEF AckLiveInbox, InboxTable

LEMMA EnqueueUserMessageType ==
  ASSUME inbox \in InboxTable, round \in RoundTable, NEW a \in Agents,
         EnqueueUserMessage(a)
  PROVE  inbox' \in InboxTable /\ round' \in RoundTable
  <1>1. PICK i \in ItemIds, r \in RoundIds :
          /\ \/ UNCHANGED round
             \/ round' = [round EXCEPT ![r] = "running"]
          /\ inbox' = [inbox EXCEPT ![i] = [NoItem EXCEPT !.agent = a, !.round = r,
                                                          !.status = "pending"]]
    BY DEF EnqueueUserMessage
  <1>2. [NoItem EXCEPT !.agent = a, !.round = r, !.status = "pending"] \in Items
    <2>1. "pending" \in ItemStatus /\ r \in 0..MaxRounds
      BY Bounds DEF ItemStatus, RoundIds
    <2> QED
      BY <2>1, NoItemType DEF Items
  <1>3. inbox' \in InboxTable
    BY <1>1, <1>2 DEF InboxTable
  <1>4. round' \in RoundTable
    BY <1>1 DEF RoundTable, RoundStatus, RoundOpen
  <1> QED
    BY <1>3, <1>4

LEMMA EnqueueAgentRouteType ==
  ASSUME inbox \in InboxTable, turn \in TurnTable, NEW t \in TurnIds,
         EnqueueAgentRoute(t)
  PROVE  inbox' \in InboxTable
  <1>1. turn[t].round \in 0..MaxRounds
    BY DEF TurnTable, Turns
  <1>2. [NoItem EXCEPT !.round = turn[t].round, !.kind = "agent_result",
                       !.status = "pending", !.source = t] \in Items
    <2>1. "pending" \in ItemStatus /\ t \in 0..MaxTurns
      BY Bounds DEF ItemStatus, TurnIds
    <2> QED
      BY <1>1, <2>1, NoItemType DEF Items
  <1> QED
    BY <1>2 DEF EnqueueAgentRoute, InboxTable

LEMMA ClaimType ==
  ASSUME inbox \in InboxTable, turn \in TurnTable,
         NEW a \in Agents, NEW r \in 0..MaxRounds, NEW items, NEW t \in TurnIds,
         ClaimInboxAndCreateTurn(a, r, items, t)
  PROVE  inbox' \in InboxTable /\ turn' \in TurnTable
  <1>1. PICK g \in 0..MaxTurns :
          turn' = [turn EXCEPT ![t] = [agent |-> a, round |-> r, status |-> "queued",
                                       attempt |-> 1, generation |-> g, batch |-> t,
                                       retryable |-> FALSE]]
    BY DEF ClaimInboxAndCreateTurn
  <1>2. [agent |-> a, round |-> r, status |-> "queued", attempt |-> 1,
         generation |-> g, batch |-> t, retryable |-> FALSE] \in Turns
    <2>1. "queued" \in TurnStatus /\ 1 \in 0..MaxTurnAttempts /\ t \in 0..MaxTurns
      BY Bounds DEF TurnStatus, TurnIds, MaxTurnAttempts
    <2> QED
      BY <2>1 DEF Turns
  <1>3. turn' \in TurnTable
    BY <1>1, <1>2 DEF TurnTable
  <1>4. ASSUME NEW i \in ItemIds
        PROVE  [inbox[i] EXCEPT !.status = "claimed", !.batch = t] \in Items
    <2>1. /\ inbox[i] \in Items
          /\ "claimed" \in ItemStatus
          /\ t \in 0..MaxTurns
      BY Bounds DEF InboxTable, ItemStatus, TurnIds
    <2> QED
      BY <2>1, ItemMovedType
  <1>5. inbox' \in InboxTable
    BY <1>4 DEF ClaimInboxAndCreateTurn, InboxTable
  <1> QED
    BY <1>3, <1>5

LEMMA CreateRetryType ==
  ASSUME turn \in TurnTable, NEW t \in TurnIds, NEW n \in TurnIds,
         turn[t].attempt < MaxTurnAttempts, CreateRetry(t, n)
  PROVE  turn' \in TurnTable
  <1>1. [turn[t] EXCEPT !.status = "queued", !.retryable = FALSE,
                        !.attempt = turn[t].attempt + 1] \in Turns
    <2>1. /\ turn[t] \in Turns
          /\ "queued" \in TurnStatus
          /\ turn[t].attempt + 1 \in 0..MaxTurnAttempts
      BY DEF TurnTable, Turns, TurnStatus, MaxTurnAttempts
    <2> QED
      BY <2>1 DEF Turns
  <1> QED
    BY <1>1 DEF CreateRetry, TurnTable

LEMMA RecoverInterruptedType ==
  ASSUME StoreTypeOK, RecoverInterrupted
  PROVE  StoreTypeOK'
  <1>1. ASSUME NEW t \in TurnIds
        PROVE  [turn[t] EXCEPT !.status = "interrupted"] \in Turns
    BY DEF StoreTypeOK, Turns, TurnStatus
  <1>2. turn' \in TurnTable
    BY <1>1 DEF RecoverInterrupted, StoreTypeOK, TurnTable
  <1>3. ASSUME NEW i \in ItemIds PROVE Requeued(inbox[i]) \in Items
    BY RequeuedType DEF StoreTypeOK
  <1>4. inbox' \in InboxTable
    BY <1>3 DEF RecoverInterrupted, StoreTypeOK, InboxTable
  <1>5. round' \in RoundTable
    BY DEF RecoverInterrupted, StoreTypeOK, RoundTable, RoundStatus, RoundTerminal
  <1>6. task' \in TaskStatus
    BY DEF RecoverInterrupted, StoreTypeOK, TaskStatus
  <1> QED
    BY <1>2, <1>4, <1>5, <1>6 DEF StoreTypeOK, TurnTable, InboxTable, RoundTable
-----------------------------------------------------------------------------
(* The invariant of the types *)

ThreadTable == [Threads -> ThreadStates]

\* TypeOK, table by table, and what makes it inductive: Shutdown is only called
\* when a crash is left for the end of the process.
ProcTypeOK == /\ schedLock \in Threads \cup {NoOne}
              /\ settleLock \in TurnIds \cup {NoOne}
              /\ cancelled \subseteq TurnIds
              /\ merge \in 0..MaxRounds
              /\ resume \subseteq Agents
              /\ closing \in BOOLEAN /\ up \in BOOLEAN
              /\ crashes \in 0..MaxCrashes
              /\ closing => crashes < MaxCrashes

TypeInv == /\ task \in TaskStatus /\ round \in RoundTable
           /\ turn \in TurnTable /\ inbox \in InboxTable
           /\ th \in ThreadTable
           /\ ProcTypeOK
-----------------------------------------------------------------------------
(* Threads *)

LEMMA ThreadKinds == /\ Requests \subseteq Threads /\ TurnIds \subseteq Threads
                     /\ MergeTimer \in Threads /\ Boot \in Threads
  BY DEF Threads

\* The states the actions build are thread states.
LEMMA IdleType == Idle \in ThreadStates
  BY Bounds DEF Idle, ThreadStates, PCs, Agents

LEMMA AtType ==
  ASSUME NEW s \in ThreadStates, NEW l \in PCs
  PROVE  /\ [s EXCEPT !.pc = l] \in ThreadStates
         /\ \A a \in Agents : [s EXCEPT !.pc = l, !.agent = a] \in ThreadStates
         /\ \A b \in BOOLEAN : [s EXCEPT !.pc = l, !.bg = b] \in ThreadStates
         /\ \A v \in RoundTerminal : [s EXCEPT !.pc = l, !.verdict = v] \in ThreadStates
         /\ \A k \in TaskStatus : [s EXCEPT !.pc = l, !.seen = k] \in ThreadStates
         /\ \A r \in 0..MaxRounds : [s EXCEPT !.pc = l, !.round = r] \in ThreadStates
         /\ \A items \in SUBSET ItemIds :
              [s EXCEPT !.pc = l, !.items = items] \in ThreadStates
         /\ \A turns \in SUBSET TurnIds :
              [s EXCEPT !.pc = l, !.turns = turns] \in ThreadStates
         /\ \A r \in 0..MaxRounds, turns \in SUBSET TurnIds :
              [s EXCEPT !.pc = l, !.round = r, !.turns = turns] \in ThreadStates
         /\ \A turns \in SUBSET TurnIds, items \in SUBSET ItemIds :
              [s EXCEPT !.pc = l, !.turns = turns, !.items = items] \in ThreadStates
  BY DEF ThreadStates

LEMMA NewRunType == NewRun \in ThreadStates
  <1>1. "run" \in PCs
    BY DEF PCs
  <1> QED
    BY <1>1, IdleType, AtType DEF NewRun

LEMMA BackType ==
  ASSUME th \in ThreadTable, NEW x \in Threads
  PROVE  Back(x) \in ThreadStates
  <1>1. th[x].then \in PCs /\ th[x].bg \in BOOLEAN
    BY DEF ThreadTable, ThreadStates
  <1> QED
    BY <1>1, IdleType, AtType DEF Back

LEMMA ScheduleType ==
  ASSUME th \in ThreadTable, NEW x \in Threads, NEW a \in Agents, NEW l \in PCs,
         Schedule(x, a, l)
  PROVE  th' \in ThreadTable
  <1>1. th[x].bg \in BOOLEAN /\ "schedule" \in PCs
    BY DEF ThreadTable, ThreadStates, PCs
  <1>2. [Idle EXCEPT !.pc = "schedule", !.agent = a, !.then = l, !.bg = th[x].bg]
          \in ThreadStates
    BY <1>1, IdleType DEF ThreadStates
  <1> QED
    BY <1>2 DEF Schedule, ThreadTable

LEMMA GotoType ==
  ASSUME th \in ThreadTable, NEW x \in Threads, NEW l \in PCs
  PROVE  /\ Goto(x, l) => th' \in ThreadTable
         /\ Exit(x) => th' \in ThreadTable
         /\ Return(x) => th' \in ThreadTable
  <1>1. [th[x] EXCEPT !.pc = l] \in ThreadStates
    BY AtType DEF ThreadTable
  <1> QED
    BY <1>1, IdleType, BackType DEF Goto, Exit, Return, ThreadTable
-----------------------------------------------------------------------------
(* Every step keeps the types *)

LEMMA InitType == Init => TypeInv
  <1> SUFFICES ASSUME Init PROVE TypeInv
    OBVIOUS
  <1>1. StoreTypeOK
    BY StoreInitType DEF Init
  <1>2. th \in ThreadTable
    BY IdleType DEF Init, ThreadTable
  <1>3. 0 \in 0..MaxCrashes /\ 0 \in 0..MaxRounds
    BY Bounds, MaxCrashesAssumption
  <1>4. ProcTypeOK
    BY <1>3 DEF Init, ProcTypeOK
  <1> QED
    BY <1>1, <1>2, <1>4 DEF TypeInv, StoreTypeOK, RoundTable, TurnTable, InboxTable

LEMMA ScheduleAgentType ==
  ASSUME TypeInv, NEW x \in Threads, ScheduleAgent(x)
  PROVE  TypeInv'
  <1>1. CASE ScheduleNothing(x)
    BY <1>1, GotoType DEF ScheduleNothing, PCs, TypeInv, ProcTypeOK, storeVars
  <1>2. CASE ScheduleClosedRound(x)
    <2>1. inbox' \in InboxTable
      BY <1>2, PendingCancelledType DEF ScheduleClosedRound, TypeInv
    <2>2. th' \in ThreadTable
      BY <1>2, GotoType DEF ScheduleClosedRound, PCs, TypeInv
    <2> QED
      BY <1>2, <2>1, <2>2 DEF ScheduleClosedRound, TypeInv, ProcTypeOK
  <1>3. CASE ScheduleRead(x)
    <2>1. [th[x] EXCEPT !.pc = "claim", !.items = PendingAgentInbox(th[x].agent)]
            \in ThreadStates
      BY AtType DEF PCs, TypeInv, ThreadTable, PendingAgentInbox, PendingInbox
    <2>2. th' \in ThreadTable
      BY <1>3, <2>1 DEF ScheduleRead, TypeInv, ThreadTable
    <2> QED
      BY <1>3, <2>2 DEF ScheduleRead, TypeInv, ProcTypeOK, storeVars
  <1>4. CASE ScheduleClaim(x)
    <2>1. PICK t \in TurnIds, i \in ItemIds :
            /\ ClaimInboxAndCreateTurn(th[x].agent, inbox[i].round, th[x].items, t)
            /\ th' = [th EXCEPT ![x] = Back(x), ![t] = NewRun]
      BY <1>4 DEF ScheduleClaim
    <2>2. th[x].agent \in Agents /\ inbox[i].round \in 0..MaxRounds
      BY DEF TypeInv, ThreadTable, ThreadStates, InboxTable, Items
    <2>3. inbox' \in InboxTable /\ turn' \in TurnTable
      BY <2>1, <2>2, ClaimType DEF TypeInv
    <2>4. th' \in ThreadTable
      BY <2>1, BackType, NewRunType DEF TypeInv, ThreadTable
    <2> QED
      BY <1>4, <2>3, <2>4 DEF ScheduleClaim, TypeInv, ProcTypeOK
  <1>5. CASE ScheduleRefused(x)
    BY <1>5, GotoType DEF ScheduleRefused, PCs, TypeInv, ProcTypeOK, storeVars
  <1> QED
    BY <1>1, <1>2, <1>3, <1>4, <1>5 DEF ScheduleAgent

\* The handlers of the owner and of the agent API write the task, an inbox and
\* their own thread.
LEMMA HandlerType ==
  ASSUME TypeInv, NEW r \in Requests, Handler(r)
  PROVE  TypeInv'
  <1> USE DEF HandlerRest
  <1>0. r \in Threads /\ th[r] \in ThreadStates
    BY ThreadKinds DEF TypeInv, ThreadTable
  <1>1. CASE StartTask(r)
    BY <1>1, <1>0, GotoType
       DEF StartTask, PCs, TaskStatus, TypeInv, ProcTypeOK, storeVars
  <1>2. ASSUME NEW a \in Agents, Submit(r, a) PROVE TypeInv'
    <2>1. th' \in ThreadTable
      BY <1>2, <1>0, AtType DEF Submit, PCs, TypeInv, ThreadTable
    <2> QED
      BY <1>2, <2>1 DEF Submit, TaskStatus, TypeInv, ProcTypeOK
  <1>3. CASE CompleteTask(r)
    <2>1. th' \in ThreadTable
      BY <1>3, <1>0, AtType DEF CompleteTask, PCs, TypeInv, ThreadTable
    <2> QED
      BY <1>3, <2>1 DEF CompleteTask, TaskStatus, TypeInv, ProcTypeOK, storeVars
  <1>4. CASE ReopenTask(r)
    <2>1. th' \in ThreadTable
      BY <1>4, <1>0, AtType DEF ReopenTask, PCs, TypeInv, ThreadTable
    <2> QED
      BY <1>4, <2>1 DEF ReopenTask, TaskStatus, TypeInv, ProcTypeOK, storeVars
  <1>5. CASE InterruptRound(r)
    <2>1. PICK k \in OpenRounds :
            th' = [th EXCEPT ![r].pc = "round_write", ![r].round = k,
                     ![r].turns = {t \in TurnsOf(k) : turn[t].status \notin TurnTerminal}]
      BY <1>5 DEF InterruptRound
    <2>2. k \in 0..MaxRounds /\ TurnsOf(k) \subseteq TurnIds
      BY Bounds DEF OpenRounds, RoundIds, TurnsOf
    <2>3. th' \in ThreadTable
      BY <1>0, <2>1, <2>2, AtType DEF PCs, TypeInv, ThreadTable
    <2> QED
      BY <1>5, <2>3 DEF InterruptRound, TypeInv, ProcTypeOK, storeVars
  <1>6. ASSUME NEW t \in TurnIds, LiveCall(r, t) PROVE TypeInv'
    <2>1. PICK l \in {"live_claim", "live_wait"} :
            th' = [th EXCEPT ![r].pc = l, ![r].turns = {t}]
      BY <1>6 DEF LiveCall
    <2>2. l \in PCs /\ {t} \in SUBSET TurnIds
      BY DEF PCs
    <2>3. [th[r] EXCEPT !.pc = l, !.turns = {t}] \in ThreadStates
      BY <1>0, <2>2, AtType
    <2>4. th' \in ThreadTable
      BY <2>1, <2>3 DEF TypeInv, ThreadTable
    <2> QED
      BY <1>6, <2>4 DEF LiveCall, TypeInv, ProcTypeOK, storeVars
  <1>7. CASE Disconnect(r)
    BY <1>7, <1>0, GotoType
       DEF Disconnect, PCs, TaskStatus, TypeInv, ProcTypeOK, storeVars
  <1>8. CASE Prepare(r)
    BY <1>8, <1>0, GotoType
       DEF Prepare, PCs, TaskStatus, TypeInv, ProcTypeOK, storeVars
  <1>9. CASE SubmitRecheck(r)
    BY <1>9, <1>0, GotoType, Bounds
       DEF SubmitRecheck, PCs, TaskStatus, TypeInv, ProcTypeOK, storeVars
  <1>10. CASE SubmitEnqueue(r)
    <2>1. th[r].agent \in Agents
      BY <1>0 DEF ThreadStates
    <2>2. inbox' \in InboxTable /\ round' \in RoundTable
      BY <1>10, <2>1, EnqueueUserMessageType DEF SubmitEnqueue, TypeInv
    <2>3. th' \in ThreadTable
      BY <1>10, <1>0, <2>1, ScheduleType DEF SubmitEnqueue, PCs, TypeInv
    <2> QED
      BY <1>10, <2>2, <2>3 DEF SubmitEnqueue, TypeInv, ProcTypeOK
  <1>11. CASE CompleteWrite(r)
    BY <1>11, <1>0, GotoType
       DEF CompleteWrite, PCs, TaskStatus, TypeInv, ProcTypeOK, storeVars
  <1>12. CASE ReopenWrite(r)
    BY <1>12, <1>0, GotoType
       DEF ReopenWrite, PCs, TaskStatus, TypeInv, ProcTypeOK, storeVars
  <1>13. CASE InterruptRoundWrite(r)
    BY <1>13, <1>0, GotoType
       DEF InterruptRoundWrite, PCs, TaskStatus, TypeInv, ProcTypeOK, storeVars,
           RoundTable, RoundStatus, RoundTerminal
  <1>14. CASE InterruptRoundInbox(r)
    BY <1>14, <1>0, GotoType, PendingCancelledType, Bounds
       DEF InterruptRoundInbox, PCs, TaskStatus, TypeInv, ProcTypeOK, storeVars
  <1>15. CASE InterruptRoundTask(r)
    BY <1>15, <1>0, GotoType
       DEF InterruptRoundTask, PCs, TaskStatus, TypeInv, ProcTypeOK, storeVars
  <1>16. CASE InterruptRoundCancel(r)
    BY <1>16, <1>0, GotoType
       DEF InterruptRoundCancel, PCs, TaskStatus, TypeInv, ProcTypeOK, storeVars, Cancellable
  <1>17. CASE LiveClaim(r)
    <2>1. PICK t \in th[r].turns : inbox' = LiveClaimed(t, 0, "claimed_in_turn")
      BY <1>17 DEF LiveClaim
    <2>2. t \in TurnIds /\ 0 \in 0..MaxItems
      BY <1>0, Bounds DEF ThreadStates
    <2>3. inbox' \in InboxTable
      BY <2>1, <2>2, LiveClaimedType DEF TypeInv
    <2> QED
      BY <1>17, <1>0, <2>3, GotoType DEF LiveClaim, PCs, TypeInv, ProcTypeOK
  <1>18. CASE LiveWait(r)
    <2>1. PICK t \in th[r].turns, after \in 0..MaxItems :
            inbox' = LiveClaimed(t, after, "delivered_in_turn")
      BY <1>18 DEF LiveWait
    <2>2. inbox' \in InboxTable
      BY <1>0, <2>1, LiveClaimedType DEF TypeInv, ThreadStates
    <2> QED
      BY <1>18, <1>0, <2>2, GotoType DEF LiveWait, PCs, TypeInv, ProcTypeOK
  <1>19. CASE LiveWaitTimeout(r)
    BY <1>19, <1>0, GotoType DEF LiveWaitTimeout, PCs, TypeInv, ProcTypeOK, storeVars
  <1>20. ASSUME NEW t \in TurnIds, LiveAckCall(r, t) PROVE TypeInv'
    <2>1. PICK items \in SUBSET {i \in ItemIds : inbox[i].turn = t} :
            th' = [th EXCEPT ![r].pc = "live_ack", ![r].turns = {t}, ![r].items = items]
      BY <1>20 DEF LiveAckCall
    <2>2. "live_ack" \in PCs /\ {t} \in SUBSET TurnIds /\ items \in SUBSET ItemIds
      BY DEF PCs
    <2>3. [th[r] EXCEPT !.pc = "live_ack", !.turns = {t}, !.items = items] \in ThreadStates
      BY <1>0, <2>2, AtType
    <2>4. th' \in ThreadTable
      BY <2>1, <2>3 DEF TypeInv, ThreadTable
    <2> QED
      BY <1>20, <2>4 DEF LiveAckCall, TypeInv, ProcTypeOK, storeVars
  <1>21. CASE LiveAck(r)
    <2>1. PICK delivered \in BOOLEAN :
            inbox' = AckLiveInbox(th[r].items, delivered) \/ inbox' = inbox
      BY <1>21 DEF LiveAck
    <2>2. inbox' \in InboxTable
      BY <2>1, AckLiveInboxType DEF TypeInv
    <2> QED
      BY <1>21, <1>0, <2>2, GotoType DEF LiveAck, PCs, TypeInv, ProcTypeOK
  <1> QED
    BY <1>1, <1>2, <1>3, <1>4, <1>5, <1>6, <1>7, <1>8, <1>9, <1>10, <1>11, <1>12,
       <1>13, <1>14, <1>15, <1>16, <1>17, <1>18, <1>19, <1>20, <1>21
    DEF Handler, OwnerStep, LiveStep

\* The goroutine of a turn writes that turn, the turn of its retry, the inbox,
\* the round it settles and the task.
LEMMA FanInType ==
  ASSUME TypeInv, NEW x \in Threads, NEW r \in 0..MaxRounds,
         NEW l \in {"idle", "settle"}, FanIn(x, r, l)
  PROVE  TypeInv'
  <1>1. [th[x] EXCEPT !.pc = l] \in ThreadStates
    BY AtType DEF TypeInv, ThreadTable, PCs
  <1>2. l \in PCs /\ Main \in Agents
    BY DEF PCs, Agents
  <1>3. th' \in ThreadTable
    <2>1. CASE Schedule(x, Main, l)
      BY <1>2, <2>1, ScheduleType DEF TypeInv
    <2>2. CASE th' = [th EXCEPT ![x] = IF l = "idle" THEN Idle ELSE [@ EXCEPT !.pc = l]]
      BY <1>1, <2>2, IdleType DEF TypeInv, ThreadTable
    <2> QED
      BY <2>1, <2>2 DEF FanIn
  <1>4. merge' \in 0..MaxRounds
    BY Bounds DEF FanIn, TypeInv, ProcTypeOK
  <1> QED
    BY <1>3, <1>4 DEF FanIn, TailRest, TypeInv, ProcTypeOK

LEMMA FinishType ==
  ASSUME TypeInv, NEW t \in TurnIds, NEW s \in TurnStatus, NEW b \in BOOLEAN,
         Finish(t, s, b)
  PROVE  TypeInv'
  <1>1. [turn[t] EXCEPT !.status = s, !.retryable = b] \in Turns
    BY DEF TypeInv, TurnTable, Turns
  <1>2. turn' \in TurnTable
    BY <1>1 DEF Finish, TypeInv, TurnTable
  <1>3. [th[t] EXCEPT !.pc = "processed", !.bg = TRUE] \in ThreadStates
    BY ThreadKinds, AtType DEF TypeInv, ThreadTable, PCs
  <1>4. th' \in ThreadTable
    BY <1>3 DEF Finish, TypeInv, ThreadTable
  <1> QED
    BY <1>2, <1>4 DEF Finish, TypeInv, ProcTypeOK

LEMMA TurnStepType ==
  ASSUME TypeInv, NEW t \in TurnIds, TurnStep(t)
  PROVE  TypeInv'
  <1> USE DEF RunRest, TailRest, SettleRest
  <1>0. /\ t \in Threads /\ th[t] \in ThreadStates /\ turn[t] \in Turns
        /\ turn[t].round \in 0..MaxRounds /\ turn[t].agent \in Agents
    BY ThreadKinds DEF TypeInv, ThreadTable, TurnTable, Turns
  <1>1. CASE Advance(t)
    <2>1. NextStatus(turn[t].status) \in TurnStatus
      BY <1>1 DEF NextStatus, StartingUp, Advance, TurnStatus
    <2> QED
      BY <1>1, <2>1, TurnUpdatedType DEF Advance, TypeInv, ProcTypeOK
  <1>2. CASE AdvanceCancelled(t)
    BY <1>2, <1>0, GotoType DEF AdvanceCancelled, PCs,
       TypeInv, ProcTypeOK, storeVars
  <1>3. CASE PrepareFail(t)
    <2>1. turn' \in TurnTable
      BY <1>3, TurnUpdatedType DEF PrepareFail, TurnStatus, TypeInv
    <2> QED
      BY <1>3, <1>0, <2>1, GotoType DEF PrepareFail, PCs, TypeInv, ProcTypeOK
  <1>4. CASE Succeed(t)
    BY <1>4, FinishType DEF Succeed, TurnStatus
  <1>5. CASE Fail(t)
    BY <1>5, FinishType DEF Fail, TurnStatus
  <1>6. CASE Interrupted(t)
    BY <1>6, FinishType DEF Interrupted, TurnStatus
  <1>7. CASE TailProcessed(t)
    BY <1>7, <1>0, GotoType, BatchProcessedType DEF TailProcessed, PCs,
       TypeInv, ProcTypeOK, storeVars
  <1>8. CASE TailSweep(t)
    BY <1>8, <1>0, GotoType, LiveInboxSweptType DEF TailSweep, PCs,
       TypeInv, ProcTypeOK, storeVars
  <1>9. CASE TailRetry(t)
    <2>1. PICK n \in TurnIds :
            CreateRetry(t, n) /\ th' = [th EXCEPT ![t].pc = "settle", ![n] = NewRun]
      BY <1>9 DEF TailRetry
    <2>2. turn' \in TurnTable
      BY <1>9, <2>1, CreateRetryType DEF TailRetry, Retryable, TypeInv
    <2>3. [th[t] EXCEPT !.pc = "settle"] \in ThreadStates
      BY <1>0, AtType DEF PCs
    <2>4. th' \in ThreadTable
      BY <2>1, <2>3, NewRunType DEF TypeInv, ThreadTable
    <2> QED
      BY <1>9, <2>2, <2>4 DEF TailRetry, TypeInv, ProcTypeOK
  <1>10. CASE TailNoRetry(t)
    BY <1>10, <1>0, GotoType DEF TailNoRetry, PCs,
       TypeInv, ProcTypeOK, storeVars
  <1>11. CASE TailRoute(t)
    <2>1. inbox' \in InboxTable
      BY <1>11, EnqueueAgentRouteType DEF TailRoute, TypeInv
    <2>2. th' \in ThreadTable
      BY <1>11, <1>0, ScheduleType DEF TailRoute, PCs, TypeInv
    <2> QED
      BY <1>11, <2>1, <2>2 DEF TailRoute, TypeInv, ProcTypeOK
  <1>12. CASE TailFanIn(t)
    BY <1>12, <1>0, FanInType DEF TailFanIn
  <1>13. CASE TailAborted(t)
    BY <1>13, <1>0, GotoType DEF TailAborted, PCs,
       TypeInv, ProcTypeOK, storeVars
  <1>14. CASE SettleNot(t)
    BY <1>14, <1>0, GotoType DEF SettleNot, PCs,
       TypeInv, ProcTypeOK, storeVars
  <1>15. CASE SettleBegin(t)
    <2>1. Verdict(turn[t].round) \in RoundTerminal
      BY DEF Verdict, RoundTerminal
    <2>2. [th[t] EXCEPT !.pc = "settle_pending", !.verdict = Verdict(turn[t].round)]
            \in ThreadStates
      BY <1>0, <2>1, AtType DEF PCs
    <2>3. th' \in ThreadTable
      BY <1>15, <2>2 DEF SettleBegin, TypeInv, ThreadTable
    <2> QED
      BY <1>15, <2>3 DEF SettleBegin, TypeInv, ProcTypeOK
  <1>16. CASE SettlePending(t)
    BY <1>16, <1>0, GotoType DEF SettlePending, PCs,
       TypeInv, ProcTypeOK, storeVars
  <1>17. CASE SettleRound(t)
    <2>1. th[t].verdict \in RoundStatus \cup {"none"}
      BY <1>0 DEF ThreadStates, RoundStatus
    <2>2. round' \in RoundTable
      BY <1>17, <2>1 DEF SettleRound, TypeInv, RoundTable
    <2>3. [th[t] EXCEPT !.pc = "settle_task", !.seen = task] \in ThreadStates
      BY <1>0, AtType DEF PCs, TypeInv
    <2>4. th' \in ThreadTable
      BY <1>17, <1>0, <2>3, GotoType DEF SettleRound, PCs, TypeInv, ThreadTable
    <2> QED
      BY <1>17, <2>2, <2>4 DEF SettleRound, TypeInv, ProcTypeOK
  <1>18. CASE SettleTask(t)
    BY <1>18, <1>0, GotoType DEF SettleTask, PCs,
       TypeInv, ProcTypeOK, storeVars, TaskStatus
  <1> QED
    BY <1>1, <1>2, <1>3, <1>4, <1>5, <1>6, <1>7, <1>8, <1>9, <1>10, <1>11, <1>12,
       <1>13, <1>14, <1>15, <1>16, <1>17, <1>18 DEF TurnStep

\* The life of the process: a stop empties every thread, a restart rewrites the
\* store and starts the boot thread.
LEMMA ProcessType ==
  ASSUME TypeInv, \/ Shutdown \/ Stop \/ Crash \/ BootStep
                  \/ MergeFires \/ MergeFanIn
  PROVE  TypeInv'
  <1>0. Boot \in Threads /\ MergeTimer \in Threads
    BY ThreadKinds
  <1>1. CASE Shutdown
    BY <1>1 DEF Shutdown, Cancellable, TypeInv, ProcTypeOK, storeVars
  <1>2. CASE Stop \/ Crash
    <2>1. crashes + 1 \in 0..MaxCrashes
      BY <1>2, MaxCrashesAssumption DEF Stop, Crash, TypeInv, ProcTypeOK
    <2>2. th' \in ThreadTable
      BY <1>2, IdleType DEF Stop, Crash, Stopped, ThreadTable
    <2>3. 0 \in 0..MaxRounds
      BY Bounds
    <2>4. ProcTypeOK'
      BY <1>2, <2>1, <2>3 DEF Stop, Crash, Stopped, ProcTypeOK
    <2> QED
      BY <1>2, <2>2, <2>4 DEF Stop, Crash, Stopped, TypeInv, storeVars
  <1>3. CASE Restart
    <2>1. StoreTypeOK'
      BY <1>3, RecoverInterruptedType
         DEF Restart, TypeInv, StoreTypeOK, RoundTable, TurnTable, InboxTable
    <2>2. [th[Boot] EXCEPT !.pc = "resume"] \in ThreadStates
      BY <1>0, AtType DEF PCs, TypeInv, ThreadTable
    <2>3. th' \in ThreadTable
      BY <1>3, <2>2 DEF Restart, TypeInv, ThreadTable
    <2>4. resume' \subseteq Agents
      BY <1>3, <2>1 DEF Restart, StoreTypeOK, Items
    <2> QED
      BY <1>3, <2>1, <2>3, <2>4
         DEF Restart, TypeInv, ProcTypeOK, StoreTypeOK, RoundTable, TurnTable, InboxTable
  <1>4. CASE ResumeNext
    <2>1. th' \in ThreadTable
      BY <1>4, <1>0, ScheduleType DEF ResumeNext, PCs, TypeInv, ProcTypeOK
    <2> QED
      BY <1>4, <2>1 DEF ResumeNext, TypeInv, ProcTypeOK, storeVars
  <1>5. CASE ResumeDone
    BY <1>5, <1>0, GotoType DEF ResumeDone, PCs,
       TypeInv, ProcTypeOK, storeVars
  <1>6. CASE MergeFires
    <2>1. [th[MergeTimer] EXCEPT !.pc = "fan_in", !.round = merge] \in ThreadStates
      BY <1>0, AtType DEF PCs, TypeInv, ThreadTable, ProcTypeOK
    <2>2. th' \in ThreadTable
      BY <1>6, <2>1 DEF MergeFires, TypeInv, ThreadTable
    <2> QED
      BY <1>6, <2>2, Bounds DEF MergeFires, TailRest, TypeInv, ProcTypeOK
  <1>7. CASE MergeFanIn
    <2>1. th[MergeTimer].round \in 0..MaxRounds
      BY <1>0 DEF TypeInv, ThreadTable, ThreadStates
    <2> QED
      BY <1>7, <1>0, <2>1, FanInType DEF MergeFanIn
  <1> QED
    BY <1>1, <1>2, <1>3, <1>4, <1>5, <1>6, <1>7 DEF BootStep

LEMMA NextType == TypeInv /\ [Next]_vars => TypeInv'
  <1> SUFFICES ASSUME TypeInv, [Next]_vars PROVE TypeInv'
    OBVIOUS
  <1>1. ASSUME NEW t \in TurnIds, InterruptTurn(t) PROVE TypeInv'
    BY <1>1 DEF InterruptTurn, TypeInv, ProcTypeOK, storeVars
  <1>2. CASE UNCHANGED vars
    BY <1>2 DEF vars, procVars, storeVars, TypeInv, ProcTypeOK
  <1> QED
    BY <1>1, <1>2, HandlerType, TurnStepType, ScheduleAgentType, ProcessType
       DEF Next

LEMMA Typed == Spec => []TypeInv
  BY InitType, NextType, PTL DEF Spec

\* Type correctness: no interleaving of handlers, goroutines, timers, crashes
\* and restarts writes a row or leaves a thread that is not one; in particular
\* a batch never gets an attempt beyond maxTurnAttempts.
THEOREM TypeCorrect == Spec => []TypeOK
  <1>1. TypeInv => TypeOK
    BY DEF TypeInv, TypeOK, StoreTypeOK, ProcTypeOK, RoundTable, TurnTable, InboxTable,
           ThreadTable
  <1> QED
    BY <1>1, Typed, PTL
=============================================================================
