---------------------------- MODULE TaskRuntime ----------------------------
(***************************************************************************)
(* The runtime of one Task (internal/app): the HTTP handlers of its owner, *)
(* the goroutine of each turn with its long terminal tail, the merge timer *)
(* and the start-up of the service, all interleaved at the granularity of  *)
(* their database statements and of the two mutexes they share.            *)
(*                                                                         *)
(* th[x].pc is where thread x is.  scheduleAgent and settleRound are       *)
(* subroutines: scheduleAgent is entered at "schedule" and goes on at      *)
(* th[x].then; settleRound is the last thing a turn's goroutine does.      *)
(***************************************************************************)
EXTENDS TaskStore

CONSTANTS Requests,     \* handlers that can be in flight at the same time
          MergeTimer,   \* the callback of the task's merge timer
          Boot,         \* ResumePending, at the start of the service
          NoOne,        \* nobody holds the mutex
          Ops,          \* which operations of the environment a run allows
          MaxCrashes

Threads == Requests \cup TurnIds \cup {MergeTimer, Boot}

ASSUME OpsAssumption ==
  Ops \subseteq {"fail", "complete", "reopen", "interrupt_turn", "interrupt_round",
                 "live", "disconnect", "shutdown", "crash"}
ASSUME MaxCrashesAssumption == MaxCrashes \in Nat
ASSUME ThreadsAssumption == /\ NoOne \notin Threads
                            /\ MergeTimer # Boot
                            /\ (Requests \cup TurnIds) \cap {MergeTimer, Boot} = {}
                            /\ Requests \cap TurnIds = {}

VARIABLES th,         \* the threads
          schedLock,  \* holder of scheduleMu
          settleLock, \* holder of settleMu
          cancelled,  \* turns whose run context is cancelled and in use
          merge,      \* round the merge timer is armed for, 0 when it is not
          resume,     \* agents ResumePending has yet to schedule
          closing,    \* Shutdown was called
          up,         \* the process runs
          crashes     \* crashes so far

procVars == <<th, schedLock, settleLock, cancelled, merge, resume, closing, up, crashes>>
vars     == <<storeVars, procVars>>

PCs == {"idle", "schedule", "claim",
        "recheck", "enqueue", "prepare",
        "complete", "reopen",
        "round_write", "round_inbox", "round_task", "round_cancel",
        "live_claim", "live_wait", "live_ack",
        "run", "processed", "sweep", "retry", "route", "fan_in",
        "settle", "settle_pending", "settle_round", "settle_task",
        "resume"}

\* agent and then are scheduleAgent's argument and return point; round, items,
\* turns, verdict and seen hold what the thread has read; bg says that the
\* goroutine of a turn has left its run context for context.Background().
Idle == [pc |-> "idle", agent |-> Main, then |-> "idle", round |-> 0,
         items |-> {}, turns |-> {}, verdict |-> "none", seen |-> "none", bg |-> FALSE]

ThreadStates == [pc: PCs, agent: Agents, then: PCs, round: 0..MaxRounds,
                 items: SUBSET ItemIds, turns: SUBSET TurnIds,
                 verdict: RoundTerminal \cup {"none"},
                 seen: TaskStatus \cup {"none"}, bg: BOOLEAN]

Init == /\ StoreInit
        /\ th = [x \in Threads |-> Idle]
        /\ schedLock = NoOne /\ settleLock = NoOne
        /\ cancelled = {} /\ merge = 0 /\ resume = {}
        /\ closing = FALSE /\ up = TRUE /\ crashes = 0

TypeOK == /\ StoreTypeOK
          /\ th \in [Threads -> ThreadStates]
          /\ schedLock \in Threads \cup {NoOne}
          /\ settleLock \in TurnIds \cup {NoOne}
          /\ cancelled \subseteq TurnIds
          /\ merge \in 0..MaxRounds
          /\ resume \subseteq Agents
          /\ closing \in BOOLEAN /\ up \in BOOLEAN
          /\ crashes \in 0..MaxCrashes
-----------------------------------------------------------------------------
(* Threads *)

At(x, l) == th[x].pc = l

\* The HTTP server listens once ResumePending is over.
Serving == up /\ At(Boot, "idle")
Free(r) == Serving /\ At(r, "idle")

\* Every call that is given a cancelled context fails.
ContextOK(x) == x \notin cancelled

Goto(x, l) == th' = [th EXCEPT ![x].pc = l]
Exit(x)    == th' = [th EXCEPT ![x] = Idle]

\* x calls scheduleAgent for agent a and goes on at l.
Schedule(x, a, l) ==
  th' = [th EXCEPT ![x] = [Idle EXCEPT !.pc = "schedule", !.agent = a, !.then = l,
                                       !.bg = th[x].bg]]

\* scheduleAgent returns to its caller.
Back(x) == IF th[x].then = "idle" THEN Idle
           ELSE [Idle EXCEPT !.pc = th[x].then, !.bg = th[x].bg]
Return(x) == th' = [th EXCEPT ![x] = Back(x)]

\* startTurn: the goroutine of a new turn, unless the service is closing.
NewRun == IF closing THEN Idle ELSE [Idle EXCEPT !.pc = "run"]
-----------------------------------------------------------------------------
(* scheduleAgent, under scheduleMu *)

EnterSchedule(x) == At(x, "schedule") /\ ContextOK(x) /\ schedLock = NoOne

\* An agent with an active turn or with an empty inbox is left alone.
ScheduleNothing(x) ==
  /\ EnterSchedule(x)
  /\ \/ ActiveTurnsOf(th[x].agent) # {}
     \/ PendingAgentInbox(th[x].agent) = {}
  /\ Return(x)
  /\ UNCHANGED <<storeVars, schedLock, settleLock, cancelled, merge, resume, closing, up, crashes>>

\* The first item belongs to a closed round: the items of that round are
\* cancelled, and the call returns.
ScheduleClosedRound(x) ==
  /\ EnterSchedule(x)
  /\ ActiveTurnsOf(th[x].agent) = {}
  /\ \E i \in ItemIds : /\ First(PendingAgentInbox(th[x].agent), i)
                        /\ round[inbox[i].round] \in RoundTerminal
                        /\ inbox' = PendingCancelled(inbox[i].round)
  /\ Return(x)
  /\ UNCHANGED <<task, round, turn, schedLock, settleLock, cancelled, merge, resume, closing, up, crashes>>

\* The items to claim are read here and claimed one step later.
ScheduleRead(x) ==
  /\ EnterSchedule(x)
  /\ ActiveTurnsOf(th[x].agent) = {}
  /\ \E i \in ItemIds : /\ First(PendingAgentInbox(th[x].agent), i)
                        /\ round[inbox[i].round] \notin RoundTerminal
  /\ th' = [th EXCEPT ![x].pc = "claim", ![x].items = PendingAgentInbox(th[x].agent)]
  /\ schedLock' = x
  /\ UNCHANGED <<storeVars, settleLock, cancelled, merge, resume, closing, up, crashes>>

\* All of them, whatever their rounds, go to one turn of the first one's round.
ScheduleClaim(x) ==
  /\ At(x, "claim") /\ ContextOK(x)
  /\ CanClaim(th[x].agent, th[x].items)
  /\ \E t \in TurnIds, i \in ItemIds :
       /\ First(th[x].items, i)
       /\ ClaimInboxAndCreateTurn(th[x].agent, inbox[i].round, th[x].items, t)
       /\ th' = [th EXCEPT ![x] = Back(x), ![t] = NewRun]
  /\ schedLock' = NoOne
  /\ UNCHANGED <<task, round, settleLock, cancelled, merge, resume, closing, up, crashes>>

\* ErrActiveTurn, or an item changed since it was read.
ScheduleRefused(x) ==
  /\ At(x, "claim") /\ ContextOK(x)
  /\ ~ CanClaim(th[x].agent, th[x].items)
  /\ Return(x)
  /\ schedLock' = NoOne
  /\ UNCHANGED <<storeVars, settleLock, cancelled, merge, resume, closing, up, crashes>>

ScheduleAgent(x) == \/ ScheduleNothing(x) \/ ScheduleClosedRound(x)
                    \/ ScheduleRead(x) \/ ScheduleClaim(x) \/ ScheduleRefused(x)
-----------------------------------------------------------------------------
(* The owner's handlers *)

HandlerRest == <<schedLock, settleLock, cancelled, resume, closing, up, crashes>>

\* StartTask, then prepareAndActivateTask.
StartTask(r) ==
  /\ Free(r) /\ task = "draft"
  /\ task' = "preparing"
  /\ Goto(r, "prepare")
  /\ UNCHANGED <<round, turn, inbox, merge>> /\ UNCHANGED HandlerRest

Prepare(r) ==
  /\ At(r, "prepare")
  /\ \E to \in {"active", "blocked"} :
       task' = IF TaskCanMove("preparing", to) THEN to ELSE task
  /\ Exit(r)
  /\ UNCHANGED <<round, turn, inbox, merge>> /\ UNCHANGED HandlerRest

\* submitMessageWithSource: the status is read and, where it must change,
\* swapped; it is read again; the message is stored; the agent is scheduled.
Submitting == {r \in Requests : th[r].pc \in {"recheck", "enqueue"}}
OwnerItems == {i \in ItemIds : inbox[i].status # "none" /\ inbox[i].kind = "owner_message"}

Submit(r, a) ==
  /\ Free(r)
  /\ Cardinality(Submitting) + Cardinality(OwnerItems) < MaxMessages
  /\ task \in {"preparing", "active", "waiting_user", "failed"}
  /\ task' = IF task \in {"waiting_user", "failed"} THEN "active" ELSE task
  /\ th' = [th EXCEPT ![r].pc = "recheck", ![r].agent = a]
  /\ UNCHANGED <<round, turn, inbox, merge>> /\ UNCHANGED HandlerRest

SubmitRecheck(r) ==
  /\ At(r, "recheck")
  /\ IF task = "completed"
     THEN Exit(r) /\ UNCHANGED merge
     ELSE /\ Goto(r, "enqueue")
          /\ merge' = IF th[r].agent = Main THEN 0 ELSE merge
  /\ UNCHANGED storeVars /\ UNCHANGED HandlerRest

SubmitEnqueue(r) ==
  /\ At(r, "enqueue")
  /\ EnqueueUserMessage(th[r].agent)
  /\ Schedule(r, th[r].agent, "idle")
  /\ UNCHANGED <<task, turn, merge>> /\ UNCHANGED HandlerRest

\* CompleteTask and ReopenTask: read and check, then compare-and-swap.
CompleteTask(r) ==
  /\ "complete" \in Ops /\ Free(r)
  /\ task # "completed" /\ TaskMoves(task, "completed")
  /\ ActiveTurns = {}
  /\ th' = [th EXCEPT ![r].pc = "complete", ![r].seen = task]
  /\ UNCHANGED <<storeVars, merge>> /\ UNCHANGED HandlerRest

CompleteWrite(r) ==
  /\ At(r, "complete")
  /\ task' = IF task = th[r].seen THEN "completed" ELSE task
  /\ Exit(r)
  /\ UNCHANGED <<round, turn, inbox, merge>> /\ UNCHANGED HandlerRest

ReopenTask(r) ==
  /\ "reopen" \in Ops /\ Free(r)
  /\ task \in {"completed", "failed", "blocked", "cancelled"}
  /\ ActiveTurns = {}
  /\ th' = [th EXCEPT ![r].pc = "reopen", ![r].seen = task]
  /\ UNCHANGED <<storeVars, merge>> /\ UNCHANGED HandlerRest

ReopenWrite(r) ==
  /\ At(r, "reopen")
  /\ task' = IF task = th[r].seen THEN "waiting_user" ELSE task
  /\ Exit(r)
  /\ UNCHANGED <<round, turn, inbox, merge>> /\ UNCHANGED HandlerRest

\* The goroutines that still look at their run context.
Cancellable == {t \in TurnIds : ~ At(t, "idle") /\ ~ th[t].bg}

\* InterruptTurn: whatever the turn became since its status was read, its
\* context is cancelled while its goroutine is there.
InterruptTurn(t) ==
  /\ "interrupt_turn" \in Ops /\ Serving
  /\ t \in Cancellable \ cancelled
  /\ cancelled' = cancelled \cup {t}
  /\ UNCHANGED <<storeVars, th, schedLock, settleLock, merge, resume, closing, up, crashes>>

\* InterruptRound: the round and its unfinished turns are read; the round is
\* closed; its pending items are cancelled; the task waits for its owner; the
\* contexts of the turns read at the start are cancelled.
InterruptRound(r) ==
  /\ "interrupt_round" \in Ops /\ Free(r)
  /\ \E k \in OpenRounds :
       th' = [th EXCEPT ![r].pc = "round_write", ![r].round = k,
                        ![r].turns = {t \in TurnsOf(k) : turn[t].status \notin TurnTerminal}]
  /\ UNCHANGED <<storeVars, merge>> /\ UNCHANGED HandlerRest

InterruptRoundWrite(r) ==
  /\ At(r, "round_write")
  /\ IF round[th[r].round] = "running"
     THEN round' = [round EXCEPT ![th[r].round] = "interrupted"] /\ Goto(r, "round_inbox")
     ELSE UNCHANGED round /\ Exit(r)
  /\ UNCHANGED <<task, turn, inbox, merge>> /\ UNCHANGED HandlerRest

InterruptRoundInbox(r) ==
  /\ At(r, "round_inbox")
  /\ merge' = 0
  /\ inbox' = PendingCancelled(th[r].round)
  /\ Goto(r, "round_task")
  /\ UNCHANGED <<task, round, turn>> /\ UNCHANGED HandlerRest

InterruptRoundTask(r) ==
  /\ At(r, "round_task")
  /\ task' = IF task \notin TaskTerminal /\ TaskMoves(task, "waiting_user")
             THEN "waiting_user" ELSE task
  /\ Goto(r, "round_cancel")
  /\ UNCHANGED <<round, turn, inbox, merge>> /\ UNCHANGED HandlerRest

InterruptRoundCancel(r) ==
  /\ At(r, "round_cancel")
  /\ cancelled' = cancelled \cup (th[r].turns \cap Cancellable)
  /\ Exit(r)
  /\ UNCHANGED <<storeVars, schedLock, settleLock, merge, resume, closing, up, crashes>>

\* The client goes away: the context of the request is cancelled and the next
\* call of its handler fails.
Disconnect(r) ==
  /\ "disconnect" \in Ops /\ ~ At(r, "idle")
  /\ Exit(r)
  /\ schedLock' = IF schedLock = r THEN NoOne ELSE schedLock
  /\ UNCHANGED <<storeVars, settleLock, cancelled, merge, resume, closing, up, crashes>>

OwnerStep(r) == \/ Prepare(r) \/ SubmitRecheck(r) \/ SubmitEnqueue(r)
                \/ CompleteWrite(r) \/ ReopenWrite(r)
                \/ InterruptRoundWrite(r) \/ InterruptRoundInbox(r)
                \/ InterruptRoundTask(r) \/ InterruptRoundCancel(r)
-----------------------------------------------------------------------------
(* The live inbox: calls the backend of a running turn makes to the agent   *)
(* API.  AgentCallContext checks the turn; what it allows happens in a later *)
(* transaction.                                                             *)

LiveCall(r, t) ==
  /\ "live" \in Ops /\ Free(r)
  /\ turn[t].status = "running"
  /\ \E l \in {"live_claim", "live_wait"} :
       th' = [th EXCEPT ![r].pc = l, ![r].turns = {t}]
  /\ UNCHANGED <<storeVars, merge>> /\ UNCHANGED HandlerRest

\* An acknowledgement, or its repetition, names messages the turn was given.
LiveAckCall(r, t) ==
  /\ "live" \in Ops /\ Free(r)
  /\ turn[t].status = "running"
  /\ \E items \in SUBSET {i \in ItemIds : inbox[i].turn = t} :
       /\ items # {}
       /\ th' = [th EXCEPT ![r].pc = "live_ack", ![r].turns = {t}, ![r].items = items]
  /\ UNCHANGED <<storeVars, merge>> /\ UNCHANGED HandlerRest

\* ClaimAgentInbox claims what there is and returns.
LiveClaim(r) ==
  /\ At(r, "live_claim")
  /\ \E t \in th[r].turns : inbox' = LiveClaimed(t, 0, "claimed_in_turn")
  /\ Exit(r)
  /\ UNCHANGED <<task, round, turn, merge>> /\ UNCHANGED HandlerRest

\* WaitAgentInbox polls until there is something above the cursor of its
\* caller, or until its time is up.
LiveWait(r) ==
  /\ At(r, "live_wait")
  /\ \E t \in th[r].turns, after \in 0..MaxItems :
       /\ \E i \in LiveInbox(t) : i > after
       /\ inbox' = LiveClaimed(t, after, "delivered_in_turn")
  /\ Exit(r)
  /\ UNCHANGED <<task, round, turn, merge>> /\ UNCHANGED HandlerRest

LiveWaitTimeout(r) ==
  /\ At(r, "live_wait")
  /\ Exit(r)
  /\ UNCHANGED <<storeVars, merge>> /\ UNCHANGED HandlerRest

\* AckAgentInbox: all of the messages, or none.
LiveAck(r) ==
  /\ At(r, "live_ack")
  /\ \E t \in th[r].turns, delivered \in BOOLEAN :
       inbox' = IF AckAccepts(t, th[r].items, delivered)
                THEN AckLiveInbox(th[r].items, delivered) ELSE inbox
  /\ Exit(r)
  /\ UNCHANGED <<task, round, turn, merge>> /\ UNCHANGED HandlerRest

LiveStep(r) == LiveClaim(r) \/ LiveWait(r) \/ LiveWaitTimeout(r) \/ LiveAck(r)
-----------------------------------------------------------------------------
(* runTurn: the goroutine of turn t *)

RunRest == <<task, round, inbox, schedLock, settleLock, cancelled, merge,
             resume, closing, up, crashes>>

\* queued -> preparing -> starting -> running, each write with the run context.
StartingUp == {"queued", "preparing", "starting"}
NextStatus(s) == CASE s = "queued" -> "preparing"
                   [] s = "preparing" -> "starting"
                   [] OTHER -> "running"

Advance(t) ==
  /\ At(t, "run") /\ t \notin cancelled
  /\ turn[t].status \in StartingUp
  /\ turn' = TurnUpdated(t, NextStatus(turn[t].status))
  /\ UNCHANGED th /\ UNCHANGED RunRest

\* A cancelled context makes the write fail, and the goroutine returns.
AdvanceCancelled(t) ==
  /\ At(t, "run") /\ t \in cancelled
  /\ turn[t].status \in StartingUp
  /\ Exit(t)
  /\ UNCHANGED turn /\ UNCHANGED RunRest

\* Mutant: an early failure skips MarkInboxBatchProcessed.
PrepareFailUnmarked(t) ==
  /\ "fail" \in Ops
  /\ At(t, "run") /\ t \notin cancelled
  /\ turn[t].status \in {"preparing", "starting"}
  /\ turn' = TurnUpdated(t, "failed")
  /\ Goto(t, "sweep")
  /\ UNCHANGED RunRest

\* failTurn before the backend runs: the run context stays in use.
PrepareFail(t) ==
  /\ "fail" \in Ops
  /\ At(t, "run") /\ t \notin cancelled
  /\ turn[t].status \in {"preparing", "starting"}
  /\ turn' = TurnUpdated(t, "failed")
  /\ Goto(t, "processed")
  /\ UNCHANGED RunRest

\* The backend ran: a reply, an error (one that Main retries after an idle
\* timeout or a full context window), or the end of a cancelled run.
Finish(t, status, retryable) ==
  /\ At(t, "run") /\ turn[t].status = "running"
  /\ turn' = [turn EXCEPT ![t].status = status, ![t].retryable = retryable]
  /\ th' = [th EXCEPT ![t].pc = "processed", ![t].bg = TRUE]
  /\ cancelled' = cancelled \ {t}
  /\ UNCHANGED <<task, round, inbox, schedLock, settleLock, merge, resume, closing, up, crashes>>

Succeed(t)     == Finish(t, "succeeded", FALSE)
Fail(t)        == \E retryable \in BOOLEAN :
                    /\ "fail" \in Ops
                    /\ retryable => turn[t].agent = Main
                    /\ Finish(t, "failed", retryable)
Interrupted(t) == t \in cancelled /\ Finish(t, "interrupted", FALSE)
-----------------------------------------------------------------------------
(* afterTurnTerminal: the tail of the goroutine of turn t *)

TailRest == <<task, round, schedLock, settleLock, cancelled, resume, closing, up, crashes>>

TailProcessed(t) ==
  /\ At(t, "processed") /\ ContextOK(t)
  /\ inbox' = BatchProcessed(turn[t].batch)
  /\ Goto(t, "sweep")
  /\ UNCHANGED <<turn, merge>> /\ UNCHANGED TailRest

TailSweep(t) ==
  /\ At(t, "sweep") /\ ContextOK(t)
  /\ inbox' = LiveInboxSwept(t)
  /\ Goto(t, "retry")
  /\ UNCHANGED <<turn, merge>> /\ UNCHANGED TailRest

\* Mutant: one attempt too many.
RetryableThird(t) == /\ turn[t].status = "failed"
                     /\ turn[t].attempt <= MaxTurnAttempts
                     /\ turn[t].agent = Main => turn[t].retryable

\* retryTurn: any failure of a sub-agent, a retryable one of Main.
Retryable(t) == /\ turn[t].status = "failed"
                /\ turn[t].attempt < MaxTurnAttempts
                /\ turn[t].agent = Main => turn[t].retryable

\* Mutant: the tail goes on after the retry.
TailRetryGoesOn(t) ==
  /\ At(t, "retry") /\ ContextOK(t)
  /\ Retryable(t) /\ CanRetry(t)
  /\ \E n \in TurnIds : /\ CreateRetry(t, n)
                        /\ th' = [th EXCEPT ![t].pc = "route", ![n] = NewRun]
  /\ UNCHANGED <<inbox, merge>> /\ UNCHANGED TailRest

TailRetry(t) ==
  /\ At(t, "retry") /\ ContextOK(t)
  /\ Retryable(t) /\ CanRetry(t)
  /\ \E n \in TurnIds : /\ CreateRetry(t, n)
                        /\ th' = [th EXCEPT ![t].pc = "settle", ![n] = NewRun]
  /\ UNCHANGED <<inbox, merge>> /\ UNCHANGED TailRest

\* Mutant: a turn that failed for good is not settled.
TailNoRetryUnsettled(t) ==
  /\ At(t, "retry") /\ ContextOK(t)
  /\ ~ (Retryable(t) /\ CanRetry(t))
  /\ IF turn[t].status = "failed" THEN Exit(t) ELSE Goto(t, "route")
  /\ UNCHANGED <<turn, inbox, merge>> /\ UNCHANGED TailRest

TailNoRetry(t) ==
  /\ At(t, "retry") /\ ContextOK(t)
  /\ ~ (Retryable(t) /\ CanRetry(t))
  /\ Goto(t, "route")
  /\ UNCHANGED <<turn, inbox, merge>> /\ UNCHANGED TailRest

\* routeAgentOutcome, then scheduleAgent for the agent itself.
TailRoute(t) ==
  /\ At(t, "route") /\ ContextOK(t)
  /\ IF turn[t].agent # Main /\ CanRoute(t)
     THEN EnqueueAgentRoute(t) /\ Schedule(t, turn[t].agent, "fan_in")
     ELSE UNCHANGED inbox /\ Schedule(t, turn[t].agent, "settle")
  /\ UNCHANGED <<turn, merge>> /\ UNCHANGED TailRest

\* Mutant: the merge timer is not armed.
FanInUnarmed(x, r, l) ==
  /\ At(x, "fan_in") /\ ContextOK(x)
  /\ IF ActiveTurnsOf(Main) = {} /\ FannedIn(r)
     THEN Schedule(x, Main, l)
     ELSE th' = [th EXCEPT ![x] = IF l = "idle" THEN Idle ELSE [@ EXCEPT !.pc = l]]
  /\ UNCHANGED <<turn, inbox, merge>> /\ UNCHANGED TailRest

\* scheduleMainAfterAgentResult, called by a tail and by the merge timer.
FanIn(x, r, l) ==
  /\ At(x, "fan_in") /\ ContextOK(x)
  /\ IF ActiveTurnsOf(Main) = {} /\ FannedIn(r)
     THEN merge' = 0 /\ Schedule(x, Main, l)
     ELSE /\ merge' = IF ActiveTurnsOf(Main) = {} /\ merge = 0 THEN r ELSE merge
          /\ th' = [th EXCEPT ![x] = IF l = "idle" THEN Idle ELSE [@ EXCEPT !.pc = l]]
  /\ UNCHANGED <<turn, inbox>> /\ UNCHANGED TailRest

TailFanIn(t) == FanIn(t, turn[t].round, "settle")

\* A tail that still uses the run context is lost when that is cancelled.
TailAborted(t) ==
  /\ th[t].pc \notin {"idle", "run"} /\ ~ ContextOK(t)
  /\ Exit(t)
  /\ schedLock'  = IF schedLock = t THEN NoOne ELSE schedLock
  /\ settleLock' = IF settleLock = t THEN NoOne ELSE settleLock
  /\ UNCHANGED <<storeVars, cancelled, merge, resume, closing, up, crashes>>
-----------------------------------------------------------------------------
(* settleRound, under settleMu *)

SettleRest == <<turn, inbox, schedLock, cancelled, merge, resume, closing, up, crashes>>

\* Mutant: whatever has not failed is a success.
VerdictNotFailed(r) ==
  IF \E t \in TurnIds : LatestTurn(Main, r, t) /\ turn[t].status = "failed"
  THEN "failed" ELSE "completed"

\* The verdict on the round is that of Main's latest turn in it.
Verdict(r) ==
  IF \E t \in TurnIds : LatestTurn(Main, r, t) /\ turn[t].status = "succeeded"
  THEN "completed"
  ELSE IF \E t \in TurnIds : LatestTurn(Main, r, t) /\ turn[t].status = "interrupted"
       THEN "interrupted" ELSE "failed"

Unsettled(r) == \E t \in TurnsOf(r) : turn[t].status \notin TurnTerminal

SettleNot(t) ==
  /\ At(t, "settle") /\ ContextOK(t) /\ settleLock = NoOne
  /\ round[turn[t].round] \in RoundTerminal \/ Unsettled(turn[t].round)
  /\ Exit(t)
  /\ UNCHANGED <<task, round, settleLock>> /\ UNCHANGED SettleRest

SettleBegin(t) ==
  /\ At(t, "settle") /\ ContextOK(t) /\ settleLock = NoOne
  /\ round[turn[t].round] \notin RoundTerminal /\ ~ Unsettled(turn[t].round)
  /\ settleLock' = t
  /\ th' = [th EXCEPT ![t].pc = "settle_pending", ![t].verdict = Verdict(turn[t].round)]
  /\ UNCHANGED <<task, round>> /\ UNCHANGED SettleRest

SettlePending(t) ==
  /\ At(t, "settle_pending") /\ ContextOK(t)
  /\ IF PendingInbox # {}
     THEN Exit(t) /\ settleLock' = NoOne
     ELSE Goto(t, "settle_round") /\ UNCHANGED settleLock
  /\ UNCHANGED <<task, round>> /\ UNCHANGED SettleRest

\* The task is read just before the round is written.
SettleRound(t) ==
  /\ At(t, "settle_round") /\ ContextOK(t)
  /\ IF round[turn[t].round] = "running"
     THEN /\ round' = [round EXCEPT ![turn[t].round] = th[t].verdict]
          /\ th' = [th EXCEPT ![t].pc = "settle_task", ![t].seen = task]
          /\ UNCHANGED settleLock
     ELSE Exit(t) /\ settleLock' = NoOne /\ UNCHANGED round
  /\ UNCHANGED task /\ UNCHANGED SettleRest

\* Mutant: the task is written without comparing.
SettleTaskUnchecked(t) ==
  /\ At(t, "settle_task") /\ ContextOK(t)
  /\ task' = IF th[t].seen \notin TaskTerminal
             THEN IF th[t].verdict = "failed" THEN "failed" ELSE "waiting_user"
             ELSE task
  /\ Exit(t) /\ settleLock' = NoOne
  /\ UNCHANGED round /\ UNCHANGED SettleRest

SettleTask(t) ==
  LET next == IF th[t].verdict = "failed" THEN "failed" ELSE "waiting_user"
  IN  /\ At(t, "settle_task") /\ ContextOK(t)
      /\ task' = IF th[t].seen \notin TaskTerminal /\ TaskCanMove(th[t].seen, next)
                 THEN next ELSE task
      /\ Exit(t) /\ settleLock' = NoOne
      /\ UNCHANGED round /\ UNCHANGED SettleRest

TurnStep(t) ==
  \/ Advance(t) \/ AdvanceCancelled(t) \/ PrepareFail(t)
  \/ Succeed(t) \/ Fail(t) \/ Interrupted(t)
  \/ TailProcessed(t) \/ TailSweep(t) \/ TailRetry(t) \/ TailNoRetry(t)
  \/ TailRoute(t) \/ TailFanIn(t) \/ TailAborted(t)
  \/ SettleNot(t) \/ SettleBegin(t) \/ SettlePending(t) \/ SettleRound(t) \/ SettleTask(t)
-----------------------------------------------------------------------------
(* The merge timer, and the life of the process *)

MergeFires ==
  /\ merge # 0 /\ At(MergeTimer, "idle")
  /\ th' = [th EXCEPT ![MergeTimer].pc = "fan_in", ![MergeTimer].round = merge]
  /\ merge' = 0
  /\ UNCHANGED <<turn, inbox>> /\ UNCHANGED TailRest

MergeFanIn == FanIn(MergeTimer, th[MergeTimer].round, "idle")

\* Shutdown cancels the run contexts; the process ends when the goroutines
\* have, or after fifteen seconds.
Shutdown ==
  /\ "shutdown" \in Ops /\ Serving /\ ~ closing /\ crashes < MaxCrashes
  /\ closing' = TRUE
  /\ cancelled' = cancelled \cup Cancellable
  /\ UNCHANGED <<storeVars, th, schedLock, settleLock, merge, resume, up, crashes>>

Stopped == /\ th' = [x \in Threads |-> Idle]
           /\ schedLock' = NoOne /\ settleLock' = NoOne
           /\ cancelled' = {} /\ merge' = 0 /\ resume' = {}
           /\ closing' = FALSE /\ up' = FALSE /\ crashes' = crashes + 1
           /\ UNCHANGED storeVars

Stop  == closing /\ Stopped
Crash == "crash" \in Ops /\ up /\ ~ closing /\ crashes < MaxCrashes /\ Stopped

\* Mutant: the agents are listed before RecoverInterrupted gives back.
RestartListsFirst ==
  /\ ~ up
  /\ RecoverInterrupted
  /\ up' = TRUE
  /\ th' = [th EXCEPT ![Boot].pc = "resume"]
  /\ resume' = {inbox[i].agent : i \in PendingInbox}
  /\ UNCHANGED <<schedLock, settleLock, cancelled, merge, closing, crashes>>

\* RecoverInterrupted, then ResumePending: the agents with pending items are
\* listed once and scheduled one after the other.
Restart ==
  /\ ~ up
  /\ RecoverInterrupted
  /\ up' = TRUE
  /\ th' = [th EXCEPT ![Boot].pc = "resume"]
  /\ resume' = {inbox'[i].agent : i \in {j \in ItemIds : inbox'[j].status = "pending"}}
  /\ UNCHANGED <<schedLock, settleLock, cancelled, merge, closing, crashes>>

ResumeNext ==
  /\ At(Boot, "resume")
  /\ \E a \in resume : /\ Main \in resume => a = Main
                       /\ Schedule(Boot, a, "resume")
                       /\ resume' = resume \ {a}
  /\ UNCHANGED <<storeVars, schedLock, settleLock, cancelled, merge, closing, up, crashes>>

ResumeDone ==
  /\ At(Boot, "resume") /\ resume = {}
  /\ Exit(Boot)
  /\ UNCHANGED <<storeVars, schedLock, settleLock, cancelled, merge, resume, closing, up, crashes>>

BootStep == Restart \/ ResumeNext \/ ResumeDone
-----------------------------------------------------------------------------
Handler(r) == \/ StartTask(r) \/ \E a \in Agents : Submit(r, a)
              \/ CompleteTask(r) \/ ReopenTask(r) \/ InterruptRound(r)
              \/ \E t \in TurnIds : LiveCall(r, t) \/ LiveAckCall(r, t)
              \/ Disconnect(r)
              \/ OwnerStep(r) \/ LiveStep(r)

Next == \/ \E r \in Requests : Handler(r)
        \/ \E t \in TurnIds : TurnStep(t) \/ InterruptTurn(t)
        \/ \E x \in Threads : ScheduleAgent(x)
        \/ MergeFires \/ MergeFanIn
        \/ Shutdown \/ Stop \/ Crash \/ BootStep

Spec == Init /\ [][Next]_vars

\* Whoever runs goes on: a handler, a goroutine (the idle watchdog ends every
\* run of a backend), a timer, the start of the service.  The owner owes
\* nothing, and nothing has to crash.
Fairness == /\ \A r \in Requests : WF_vars(OwnerStep(r) \/ LiveStep(r))
            /\ \A t \in TurnIds : WF_vars(TurnStep(t))
            /\ \A x \in Threads : WF_vars(ScheduleAgent(x))
            /\ WF_vars(MergeFires \/ MergeFanIn) /\ WF_vars(Stop \/ BootStep)

FairSpec == Spec /\ Fairness
=============================================================================
