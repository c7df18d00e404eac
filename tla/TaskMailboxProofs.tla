-------------------------- MODULE TaskMailboxProofs --------------------------
(***************************************************************************)
(* The runtime of a task implements Mailbox: every step of handlers,       *)
(* goroutines, timer and process is a step of the mailbox or changes       *)
(* nothing in it.                                                          *)
(***************************************************************************)
EXTENDS TaskSafetyProofs

-----------------------------------------------------------------------------
(* The steps that write turns or items *)

RequestWrites(r) == \/ SubmitEnqueue(r) \/ InterruptRoundInbox(r)
                    \/ LiveClaim(r) \/ LiveWait(r) \/ LiveAck(r)
TurnWrites(t)    == \/ Advance(t) \/ PrepareFail(t)
                    \/ \E s \in TurnTerminal, b \in BOOLEAN : Finish(t, s, b)
                    \/ TailProcessed(t) \/ TailSweep(t) \/ TailRetry(t) \/ TailRoute(t)

MailStep == \/ \E r \in Requests : RequestWrites(r)
            \/ \E t \in TurnIds : TurnWrites(t)
            \/ \E x \in Threads : ScheduleClosedRound(x) \/ ScheduleClaim(x)
            \/ Restart

LEMMA MailWriters ==
  ASSUME [Next]_vars
  PROVE  MailStep \/ UNCHANGED <<turn, inbox>>
  <1> USE DEF storeVars
  <1>1. ASSUME NEW r \in Requests, Handler(r)
        PROVE  RequestWrites(r) \/ UNCHANGED <<turn, inbox>>
    <2>1. CASE OwnerStep(r)
      BY <2>1 DEF OwnerStep, Prepare, SubmitRecheck, CompleteWrite, ReopenWrite,
           InterruptRoundWrite, InterruptRoundTask, InterruptRoundCancel, RequestWrites
    <2>2. CASE LiveStep(r)
      BY <2>2 DEF LiveStep, LiveWaitTimeout, RequestWrites
    <2> QED
      BY <1>1, <2>1, <2>2 DEF Handler, StartTask, Submit, CompleteTask, ReopenTask,
           InterruptRound, LiveCall, LiveAckCall, Disconnect
  <1>2. ASSUME NEW t \in TurnIds, TurnStep(t)
        PROVE  TurnWrites(t) \/ UNCHANGED <<turn, inbox>>
    <2>1. CASE Succeed(t) \/ Fail(t) \/ Interrupted(t)
      BY <2>1 DEF Succeed, Fail, Interrupted, TurnTerminal, TurnWrites
    <2>2. CASE \/ Advance(t) \/ AdvanceCancelled(t) \/ PrepareFail(t)
               \/ TailProcessed(t) \/ TailSweep(t) \/ TailRetry(t) \/ TailNoRetry(t)
               \/ TailRoute(t) \/ TailFanIn(t) \/ TailAborted(t)
      BY <2>2 DEF AdvanceCancelled, TailNoRetry, TailFanIn, FanIn, TailAborted, RunRest,
           TailRest, TurnWrites
    <2>3. CASE \/ SettleNot(t) \/ SettleBegin(t) \/ SettlePending(t)
               \/ SettleRound(t) \/ SettleTask(t)
      BY <2>3 DEF SettleNot, SettleBegin, SettlePending, SettleRound, SettleTask, SettleRest
    <2> QED
      BY <1>2, <2>1, <2>2, <2>3 DEF TurnStep
  <1>3. ASSUME NEW x \in Threads, ScheduleAgent(x)
        PROVE  ScheduleClosedRound(x) \/ ScheduleClaim(x) \/ UNCHANGED <<turn, inbox>>
    BY <1>3 DEF ScheduleAgent, ScheduleNothing, ScheduleRead, ScheduleRefused
  <1>4. CASE \/ MergeFires \/ MergeFanIn \/ Shutdown \/ Stop \/ Crash \/ BootStep
             \/ \E t \in TurnIds : InterruptTurn(t)
    BY <1>4 DEF MergeFires, MergeFanIn, FanIn, TailRest, Shutdown, Stop, Crash, Stopped,
         BootStep, ResumeNext, ResumeDone, InterruptTurn, MailStep
  <1>5. CASE UNCHANGED vars
    BY <1>5 DEF vars
  <1> QED
    BY <1>1, <1>2, <1>3, <1>4, <1>5 DEF Next, MailStep
-----------------------------------------------------------------------------
(* What threads have read *)

\* Where scheduleAgent may return to.
Callers == {"idle", "fan_in", "settle", "resume"}
LiveCalls    == {"live_claim", "live_wait"}
Tail    == {"processed", "sweep", "retry"}

\* Only scheduleAgent comes to the claim, and only a call to the live inbox.
Formal(x) == /\ th'[x].then \in Callers
             /\ th'[x].pc = "claim" => ScheduleRead(x) \/ th'[x] = th[x]
             /\ th'[x].pc \in LiveCalls => \/ th'[x] = th[x]
                                      \/ \E t \in TurnIds : LiveCall(x, t)

LEMMA ReturnForm ==
  ASSUME NEW x, th[x].then \in Callers
  PROVE  /\ Back(x).pc \in Callers /\ Back(x).then \in Callers
         /\ NewRun.pc \in {"idle", "run"} /\ NewRun.then = "idle"
         /\ Idle.pc = "idle" /\ Idle.then = "idle"
  BY DEF Back, NewRun, Idle, Callers

LEMMA HandlerFormal ==
  ASSUME TypeInv, NEW r \in Requests, Handler(r), th[r].then \in Callers
  PROVE  Formal(r)
  <1>0. th \in ThreadTable /\ r \in Threads /\ th[r] \in ThreadStates
    BY ThreadKinds DEF TypeInv, ThreadTable
  <1>1. CASE \/ Prepare(r) \/ CompleteWrite(r) \/ ReopenWrite(r) \/ InterruptRoundCancel(r)
             \/ LiveStep(r) \/ Disconnect(r)
    <2>1. th'[r] = Idle
      BY <1>0, <1>1 DEF Prepare, CompleteWrite, ReopenWrite, InterruptRoundCancel, LiveStep,
           LiveClaim, LiveWait, LiveWaitTimeout, LiveAck, Disconnect, Exit, ThreadTable
    <2> QED
      BY <2>1, ReturnForm DEF Formal, Callers, LiveCalls
  <1>2. CASE \/ StartTask(r) \/ SubmitRecheck(r) \/ InterruptRoundWrite(r)
             \/ InterruptRoundInbox(r) \/ InterruptRoundTask(r)
    <2>1. \/ th'[r] = Idle
          \/ \E l \in {"prepare", "enqueue", "round_inbox", "round_task", "round_cancel"} :
               th'[r] = [th[r] EXCEPT !.pc = l]
      BY <1>0, <1>2 DEF StartTask, SubmitRecheck, InterruptRoundWrite, InterruptRoundInbox,
           InterruptRoundTask, Goto, Exit, ThreadTable
    <2>2. CASE th'[r] = Idle
      BY <2>2, ReturnForm DEF Formal, Callers, LiveCalls
    <2>3. ASSUME NEW l \in {"prepare", "enqueue", "round_inbox", "round_task", "round_cancel"},
                 th'[r] = [th[r] EXCEPT !.pc = l]
          PROVE  Formal(r)
      <3>1. th'[r].pc = l /\ th'[r].then = th[r].then
        BY <1>0, <2>3 DEF ThreadStates
      <3> QED
        BY <3>1 DEF Formal, LiveCalls
    <2> QED
      BY <2>1, <2>2, <2>3
  <1>3. CASE SubmitEnqueue(r)
    <2>1. th'[r].pc = "schedule" /\ th'[r].then = "idle"
      BY <1>0, <1>3 DEF SubmitEnqueue, Schedule, Idle, ThreadTable
    <2> QED
      BY <2>1 DEF Formal, Callers, LiveCalls
  <1>4. ASSUME \/ \E a \in Agents : Submit(r, a)
               \/ CompleteTask(r) \/ ReopenTask(r) \/ InterruptRound(r)
               \/ \E t \in TurnIds : LiveAckCall(r, t)
        PROVE  Formal(r)
    <2>1. \E l \in {"recheck", "complete", "reopen", "round_write", "live_ack"} :
            th'[r].pc = l /\ th'[r].then = th[r].then
      <3>1. ASSUME NEW a \in Agents, Submit(r, a)
            PROVE  th'[r].pc = "recheck" /\ th'[r].then = th[r].then
        <4>1. th'[r] = [th[r] EXCEPT !.pc = "recheck", !.agent = a]
          BY <1>0, <3>1 DEF Submit, ThreadTable
        <4> QED
          BY <1>0, <4>1 DEF ThreadStates
      <3>2. ASSUME CompleteTask(r) \/ ReopenTask(r)
            PROVE  th'[r].pc \in {"complete", "reopen"} /\ th'[r].then = th[r].then
        <4>1. \E l \in {"complete", "reopen"} : th'[r] = [th[r] EXCEPT !.pc = l, !.seen = task]
          BY <1>0, <3>2 DEF CompleteTask, ReopenTask, ThreadTable
        <4> QED
          BY <1>0, <4>1 DEF ThreadStates
      <3>3. ASSUME InterruptRound(r)
            PROVE  th'[r].pc = "round_write" /\ th'[r].then = th[r].then
        <4>1. PICK k \in OpenRounds :
                th' = [th EXCEPT ![r].pc = "round_write", ![r].round = k,
                         ![r].turns = {t \in TurnsOf(k) : turn[t].status \notin TurnTerminal}]
          BY <3>3 DEF InterruptRound
        <4>2. /\ th'[r].pc = "round_write" /\ th'[r].then = th[r].then
          BY <1>0, <4>1 DEF ThreadTable, ThreadStates
        <4> QED
          BY <4>2
      <3>4. ASSUME NEW t \in TurnIds, LiveAckCall(r, t)
            PROVE  th'[r].pc = "live_ack" /\ th'[r].then = th[r].then
        <4>1. PICK S : th'[r] = [th[r] EXCEPT !.pc = "live_ack", !.turns = {t}, !.items = S]
          BY <1>0, <3>4 DEF LiveAckCall, ThreadTable
        <4> QED
          BY <1>0, <4>1 DEF ThreadStates
      <3> QED
        BY <1>4, <3>1, <3>2, <3>3, <3>4
    <2> QED
      BY <2>1 DEF Formal, LiveCalls
  <1>5. ASSUME NEW t \in TurnIds, LiveCall(r, t) PROVE Formal(r)
    <2>1. PICK l \in LiveCalls : th'[r] = [th[r] EXCEPT !.pc = l, !.turns = {t}]
      BY <1>0, <1>5 DEF LiveCall, ThreadTable, LiveCalls
    <2>2. th'[r].pc = l /\ th'[r].then = th[r].then
      BY <1>0, <2>1 DEF ThreadStates
    <2> QED
      BY <1>5, <2>2 DEF Formal, LiveCalls
  <1> QED
    BY <1>1, <1>2, <1>3, <1>4, <1>5 DEF Handler, OwnerStep

LEMMA TurnFormal ==
  ASSUME TypeInv, NEW t \in TurnIds, TurnStep(t), th[t].then \in Callers
  PROVE  Formal(t)
  <1>0. t \in Threads /\ th \in ThreadTable /\ th[t] \in ThreadStates
    BY ThreadKinds DEF TypeInv, ThreadTable
  <1>1. CASE TailRetry(t)
    <2>1. PICK n \in TurnIds : th' = [th EXCEPT ![t].pc = "settle", ![n] = NewRun]
      BY <1>1 DEF TailRetry
    <2>2. th'[t] = NewRun \/ th'[t] = [th[t] EXCEPT !.pc = "settle"]
      BY <1>0, <2>1 DEF ThreadTable
    <2>3. /\ th'[t].pc \in {"idle", "run", "settle"}
          /\ th'[t].then \in {"idle", th[t].then}
      BY <1>0, <2>2, ReturnForm DEF ThreadStates
    <2> QED
      BY <2>3 DEF Formal, Callers, LiveCalls
  <1>2. CASE TailRoute(t)
    <2>1. \E a, l : l \in {"fan_in", "settle"} /\ Schedule(t, a, l)
      BY <1>2 DEF TailRoute
    <2>2. th'[t].pc = "schedule" /\ th'[t].then \in {"fan_in", "settle"}
      BY <1>0, <2>1 DEF Schedule, Idle, ThreadTable
    <2> QED
      BY <2>2 DEF Formal, Callers, LiveCalls
  <1>3. CASE TailFanIn(t)
    <2>1. CASE Schedule(t, Main, "settle")
      <3>1. th'[t].pc = "schedule" /\ th'[t].then = "settle"
        BY <1>0, <2>1 DEF Schedule, Idle, ThreadTable
      <3> QED
        BY <3>1 DEF Formal, Callers, LiveCalls
    <2>2. CASE th' = [th EXCEPT ![t] = [@ EXCEPT !.pc = "settle"]]
      <3>1. th'[t].pc = "settle" /\ th'[t].then = th[t].then
        BY <1>0, <2>2 DEF ThreadTable, ThreadStates
      <3> QED
        BY <3>1 DEF Formal, Callers, LiveCalls
    <2> QED
      BY <1>3, <2>1, <2>2 DEF TailFanIn, FanIn
  <1>4. ASSUME \/ Advance(t) \/ AdvanceCancelled(t) \/ PrepareFail(t)
               \/ TailProcessed(t) \/ TailSweep(t) \/ TailNoRetry(t) \/ TailAborted(t)
               \/ SettleNot(t) \/ SettlePending(t) \/ SettleTask(t)
        PROVE  Formal(t)
    <2>1. \/ th'[t] = th[t] \/ th'[t] = Idle
          \/ \E l \in {"processed", "sweep", "retry", "route", "settle_round"} :
               th'[t] = [th[t] EXCEPT !.pc = l]
      BY <1>0, <1>4 DEF Advance, AdvanceCancelled, PrepareFail, TailProcessed, TailSweep,
           TailNoRetry, TailAborted, SettleNot, SettlePending, SettleTask, Goto, Exit, ThreadTable
    <2>2. CASE th'[t] = th[t] \/ th'[t] = Idle
      BY <2>2, ReturnForm DEF Formal, Callers, LiveCalls
    <2>3. ASSUME NEW l \in {"processed", "sweep", "retry", "route", "settle_round"},
                 th'[t] = [th[t] EXCEPT !.pc = l]
          PROVE  Formal(t)
      <3>1. th'[t].pc = l /\ th'[t].then = th[t].then
        BY <1>0, <2>3 DEF ThreadStates
      <3> QED
        BY <3>1 DEF Formal, LiveCalls
    <2> QED
      BY <2>1, <2>2, <2>3
  <1>5. ASSUME Succeed(t) \/ Fail(t) \/ Interrupted(t) PROVE Formal(t)
    <2>1. th'[t] = [th[t] EXCEPT !.pc = "processed", !.bg = TRUE]
      BY <1>0, <1>5 DEF Succeed, Fail, Interrupted, Finish, ThreadTable
    <2>2. th'[t].pc = "processed" /\ th'[t].then = th[t].then
      BY <1>0, <2>1 DEF ThreadStates
    <2> QED
      BY <2>2 DEF Formal, LiveCalls
  <1>6. ASSUME SettleBegin(t) \/ SettleRound(t) PROVE Formal(t)
    <2>1. \/ th'[t] = Idle
          \/ \E v : th'[t] = [th[t] EXCEPT !.pc = "settle_pending", !.verdict = v]
          \/ th'[t] = [th[t] EXCEPT !.pc = "settle_task", !.seen = task]
      BY <1>0, <1>6 DEF SettleBegin, SettleRound, Exit, ThreadTable
    <2>2. /\ th'[t].pc \in {"idle", "settle_pending", "settle_task"}
          /\ th'[t].then \in {"idle", th[t].then}
      BY <1>0, <2>1, ReturnForm DEF ThreadStates
    <2> QED
      BY <2>2 DEF Formal, Callers, LiveCalls
  <1> QED
    BY <1>1, <1>2, <1>3, <1>4, <1>5, <1>6 DEF TurnStep

LEMMA NextFormal ==
  ASSUME TypeInv, [Next]_vars, NEW x \in Threads, th[x].then \in Callers
  PROVE  Formal(x)
  <1>0. th \in ThreadTable /\ TurnIds \subseteq Threads /\ th[x] \in ThreadStates
    BY ThreadKinds DEF TypeInv, ThreadTable
  <1>1. CASE th'[x] = th[x] \/ th'[x] = Idle \/ th'[x] = NewRun \/ th'[x] = Back(x)
    BY <1>1, ReturnForm DEF Formal, Callers, LiveCalls
  <1>2. ASSUME ScheduleAgent(x) PROVE Formal(x)
    <2>1. CASE ScheduleClaim(x)
      <3>1. PICK n \in TurnIds : th' = [th EXCEPT ![x] = Back(x), ![n] = NewRun]
        BY <2>1 DEF ScheduleClaim
      <3>2. th'[x] = Back(x) \/ th'[x] = NewRun
        BY <1>0, <3>1 DEF ThreadTable
      <3> QED
        BY <1>1, <3>2
    <2>2. CASE ScheduleRead(x)
      <3>1. \E S : th'[x] = [th[x] EXCEPT !.pc = "claim", !.items = S]
        BY <1>0, <2>2 DEF ScheduleRead, ThreadTable
      <3>2. th'[x].pc = "claim" /\ th'[x].then = th[x].then
        BY <1>0, <3>1 DEF ThreadStates
      <3> QED
        BY <2>2, <3>2 DEF Formal, LiveCalls
    <2>3. CASE ScheduleNothing(x) \/ ScheduleClosedRound(x) \/ ScheduleRefused(x)
      <3>1. th'[x] = Back(x)
        BY <1>0, <2>3 DEF ScheduleNothing, ScheduleClosedRound, ScheduleRefused, Return,
             ThreadTable
      <3> QED
        BY <1>1, <3>1
    <2> QED
      BY <1>2, <2>1, <2>2, <2>3 DEF ScheduleAgent
  <1>3. ASSUME x = MergeTimer, MergeFires \/ MergeFanIn PROVE Formal(x)
    <2>1. \/ th'[x] = [th[x] EXCEPT !.pc = "fan_in", !.round = merge]
          \/ th'[x] = Idle \/ Schedule(x, Main, "idle")
      BY <1>0, <1>3 DEF MergeFires, MergeFanIn, FanIn, ThreadTable
    <2>2. ASSUME Schedule(x, Main, "idle")
          PROVE  th'[x].pc = "schedule" /\ th'[x].then = "idle"
      BY <1>0, <2>2 DEF Schedule, Idle, ThreadTable
    <2>3. /\ th'[x].pc \in {"fan_in", "idle", "schedule"}
          /\ th'[x].then \in {"idle", th[x].then}
      BY <1>0, <2>1, <2>2, ReturnForm DEF ThreadStates
    <2> QED
      BY <2>3 DEF Formal, Callers, LiveCalls
  <1>4. ASSUME x = Boot, BootStep PROVE Formal(x)
    <2>1. \/ th'[x] = [th[x] EXCEPT !.pc = "resume"]
          \/ th'[x] = Idle \/ \E a : Schedule(x, a, "resume")
      BY <1>0, <1>4 DEF BootStep, Restart, ResumeNext, ResumeDone, Exit, ThreadTable
    <2>2. ASSUME NEW a, Schedule(x, a, "resume")
          PROVE  th'[x].pc = "schedule" /\ th'[x].then = "resume"
      BY <1>0, <2>2 DEF Schedule, Idle, ThreadTable
    <2>3. /\ th'[x].pc \in {"resume", "idle", "schedule"}
          /\ th'[x].then \in {"idle", "resume", th[x].then}
      BY <1>0, <2>1, <2>2, ReturnForm DEF ThreadStates
    <2> QED
      BY <2>3 DEF Formal, Callers, LiveCalls
  <1> QED
    BY <1>1, <1>2, <1>3, <1>4, AnyThread, HandlerFormal, TurnFormal DEF Starts
-----------------------------------------------------------------------------
(* What the refinement needs beside the invariants of the rows *)

\* An item that does not exist is blank, and one taken by a live call knows its turn.
Rowed(i)  == /\ inbox[i].status = "none" => inbox[i].batch = 0 /\ inbox[i].turn = 0
             /\ inbox[i].status = "claimed" => inbox[i].batch # 0
             /\ inbox[i].status \in InTurn => inbox[i].turn # 0
             /\ inbox[i].turn # 0 => Inserted(inbox[i].turn)
\* The attempts of a batch are of one agent.
Shared(t) == Inserted(t) => turn[turn[t].batch].agent = turn[t].agent
\* A goroutine in its tail has ended its turn.
Ended(t)  == th[t].pc \in Tail => turn[t].status \in TurnTerminal
\* What a thread has read stays true of the agent and of the turn.
Reading(x) == th[x].pc = "claim" =>
                /\ th[x].items # {}
                /\ \A i \in th[x].items : /\ inbox[i].status # "none"
                                          /\ inbox[i].agent = th[x].agent
Called(x)  == th[x].pc \in LiveCalls => \A t \in th[x].turns : Inserted(t)

MailInv == /\ RowInv
           /\ \A i \in ItemIds : Rowed(i)
           /\ \A t \in TurnIds : Shared(t) /\ Ended(t)
           /\ \A x \in Threads : th[x].then \in Callers /\ Reading(x) /\ Called(x)

LEMMA InitMail == Init => MailInv
  <1> SUFFICES ASSUME Init PROVE MailInv
    OBVIOUS
  <1>1. \A i \in ItemIds : Rowed(i)
    BY DEF Init, StoreInit, NoItem, Rowed, InTurn
  <1>2. \A t \in TurnIds : Shared(t) /\ Ended(t)
    BY ThreadKinds DEF Init, StoreInit, NoTurn, Idle, Shared, Ended, Inserted, Tail
  <1>3. \A x \in Threads : th[x].then \in Callers /\ Reading(x) /\ Called(x)
    BY DEF Init, Idle, Callers, Reading, Called, LiveCalls
  <1> QED
    BY <1>1, <1>2, <1>3, InitRow DEF MailInv

LEMMA RowedKept ==
  ASSUME TypeInv, MailInv, [Next]_vars, NEW i \in ItemIds
  PROVE  Rowed(i)'
  <1>0. inbox[i] \in Items /\ Rowed(i) /\ ItemRow(i)
    BY DEF TypeInv, InboxTable, MailInv, RowInv
  <1>1. ASSUME inbox'[i].turn = inbox[i].turn
        PROVE  inbox'[i].turn # 0 => turn'[inbox'[i].turn].status # "none"
    <2>1. inbox[i].turn # 0 => inbox[i].turn \in TurnIds
      BY <1>0, Bounds DEF Items, TurnIds
    <2>2. inbox[i].turn # 0 => turn'[inbox[i].turn].status # "none"
      BY <1>0, <2>1, RowsKept DEF Rowed, Inserted
    <2> QED
      BY <1>1, <2>2
  <1>2. CASE inbox'[i] = inbox[i]
    BY <1>0, <1>1, <1>2 DEF Rowed, Inserted
  <1>3. CASE Arrives(i)
    BY <1>3 DEF Arrives, Rowed, InTurn
  <1>4. CASE IsCancelled(i)
    <2>1. inbox'[i].status = "cancelled" /\ inbox'[i].turn = inbox[i].turn
      BY <1>0, <1>4 DEF IsCancelled, Items
    <2> QED
      BY <1>1, <2>1 DEF Rowed, InTurn, Inserted
  <1>5. CASE IsClaimed(i)
    <2>1. PICK t \in TurnIds : inbox'[i] = [inbox[i] EXCEPT !.status = "claimed", !.batch = t]
      BY <1>5 DEF IsClaimed
    <2>2. /\ inbox'[i].status = "claimed" /\ inbox'[i].batch = t
          /\ inbox'[i].turn = inbox[i].turn
      BY <1>0, <2>1 DEF Items
    <2>3. t # 0
      BY DEF TurnIds
    <2> QED
      BY <1>1, <2>2, <2>3 DEF Rowed, InTurn, Inserted
  <1>6. CASE IsTaken(i)
    <2>1. PICK r \in Requests, t \in TurnIds, s \in InTurn :
            /\ th[r].pc \in {"live_claim", "live_wait"} /\ t \in th[r].turns
            /\ inbox'[i] = [inbox[i] EXCEPT !.status = s, !.turn = t]
      BY <1>6 DEF IsTaken
    <2>2. inbox'[i].status = s /\ inbox'[i].turn = t
      BY <1>0, <2>1 DEF Items
    <2>3. Inserted(t)
      BY <2>1, ThreadKinds DEF MailInv, Called, LiveCalls
    <2>4. Inserted(t)' /\ t # 0
      BY <2>3, RowsKept DEF TurnIds
    <2> QED
      BY <2>2, <2>4 DEF Rowed, InTurn, Inserted
  <1>7. CASE IsSettled(i)
    <2>1. \/ /\ inbox'[i].status \in {"pending", "delivered_in_turn", "processed"}
             /\ inbox'[i].turn = inbox[i].turn
             /\ inbox'[i].status = "delivered_in_turn" => inbox[i].status \in InTurn
          \/ inbox'[i].status = "pending" /\ inbox'[i].turn = 0
      BY <1>0, <1>7 DEF IsSettled, Requeued, Items, InTurn
    <2> QED
      BY <1>0, <1>1, <2>1 DEF Rowed, InTurn, Inserted
  <1>8. CASE IsRecovered(i)
    <2>1. inbox'[i].status = "pending" /\ inbox'[i].turn = 0
      BY <1>0, <1>8 DEF IsRecovered, Requeued, Items
    <2> QED
      BY <2>1 DEF Rowed, InTurn
  <1> QED
    BY <1>2, <1>3, <1>4, <1>5, <1>6, <1>7, <1>8, ItemSteps

LEMMA SharedKept ==
  ASSUME TypeInv, MailInv, [Next]_vars, NEW t \in TurnIds
  PROVE  Shared(t)'
  <1> SUFFICES ASSUME Inserted(t)' PROVE turn'[turn'[t].batch].agent = turn'[t].agent
    BY DEF Shared, Inserted
  <1>1. CASE Inserted(t)
    <2>1. FirstAttempt(t) /\ turn[turn[t].batch].agent = turn[t].agent
      BY <1>1 DEF MailInv, RowInv, BatchInv, Shared
    <2> QED
      BY <1>1, <2>1, RowsKept DEF FirstAttempt
  <1>2. ASSUME ~ Inserted(t), NEW u \in TurnIds \ {t}, TailRetry(u), th[u].pc = "retry",
               turn'[t].batch = turn[u].batch
        PROVE  turn'[turn'[t].batch].agent = turn'[t].agent
    <2>1. Inserted(u)
      BY <1>2 DEF MailInv, RowInv, BatchInv, Running
    <2>2. FirstAttempt(u) /\ turn[turn[u].batch].agent = turn[u].agent
      BY <2>1 DEF MailInv, RowInv, BatchInv, Shared
    <2>3. turn'[t].agent = turn[u].agent
      BY <1>2, NewGoroutine
    <2> QED
      BY <1>2, <2>2, <2>3, RowsKept DEF FirstAttempt
  <1> QED
    BY <1>1, <1>2, NewRow

LEMMA EndedKept ==
  ASSUME TypeInv, MailInv, [Next]_vars, NEW t \in TurnIds
  PROVE  Ended(t)'
  <1> SUFFICES ASSUME th'[t].pc \in Tail PROVE turn'[t].status \in TurnTerminal
    BY DEF Ended
  <1>0. t \in Threads /\ th \in ThreadTable /\ turn \in TurnTable /\ th[t].then \in Callers
    BY ThreadKinds DEF TypeInv, MailInv
  <1>1. ASSUME th[t].pc \in Tail PROVE turn'[t].status \in TurnTerminal
    <2>1. Inserted(t) /\ turn[t].status \in TurnTerminal
      BY <1>1 DEF MailInv, RowInv, BatchInv, Running, Ended, Tail
    <2> QED
      BY <2>1, RowsKept
  <1>2. CASE th'[t] = th[t]
    BY <1>1, <1>2
  <1>3. CASE th'[t] = Idle \/ th'[t] = NewRun
    BY <1>3 DEF Idle, NewRun, Tail
  <1>4. ASSUME ScheduleAgent(t) PROVE FALSE
    <2>1. CASE ScheduleClaim(t)
      <3>1. PICK n \in TurnIds : th' = [th EXCEPT ![t] = Back(t), ![n] = NewRun]
        BY <2>1 DEF ScheduleClaim
      <3>2. th'[t] = Back(t) \/ th'[t] = NewRun
        BY <1>0, <3>1 DEF ThreadTable
      <3> QED
        BY <1>0, <3>2, ReturnForm DEF Callers, Tail
    <2>2. CASE ScheduleRead(t)
      <3>1. th'[t].pc = "claim"
        BY <1>0, <2>2 DEF ScheduleRead, ThreadTable, ThreadStates
      <3> QED
        BY <3>1 DEF Tail
    <2>3. CASE ScheduleNothing(t) \/ ScheduleClosedRound(t) \/ ScheduleRefused(t)
      <3>1. th'[t] = Back(t)
        BY <1>0, <2>3 DEF ScheduleNothing, ScheduleClosedRound, ScheduleRefused, Return,
             ThreadTable
      <3> QED
        BY <1>0, <3>1, ReturnForm DEF Callers, Tail
    <2> QED
      BY <1>4, <2>1, <2>2, <2>3 DEF ScheduleAgent
  <1>5. CASE TurnStep(t)
    <2>1. CASE PrepareFail(t)
      <3>1. turn'[t].status = "failed"
        BY <1>0, <2>1 DEF PrepareFail, TurnUpdated, TurnTable, Turns
      <3> QED
        BY <3>1 DEF TurnTerminal
    <2>2. ASSUME NEW s \in TurnTerminal, NEW b, Finish(t, s, b)
          PROVE  turn'[t].status \in TurnTerminal
      BY <1>0, <2>2 DEF Finish, TurnTable, Turns
    <2>3. CASE Succeed(t) \/ Fail(t) \/ Interrupted(t)
      BY <2>2, <2>3 DEF Succeed, Fail, Interrupted, TurnTerminal
    <2>4. CASE TailProcessed(t) \/ TailSweep(t) \/ TailRetry(t) \/ TailNoRetry(t)
      BY <1>1, <2>4 DEF TailProcessed, TailSweep, TailRetry, TailNoRetry, At, Tail
    <2>5. ASSUME Advance(t) PROVE FALSE
      BY <2>5 DEF Advance, At, Tail
    <2>6. ASSUME \/ AdvanceCancelled(t) \/ TailAborted(t) \/ TailRoute(t) \/ TailFanIn(t)
                 \/ SettleNot(t) \/ SettleBegin(t) \/ SettlePending(t) \/ SettleRound(t)
                 \/ SettleTask(t)
          PROVE  FALSE
      <3>1. CASE \/ AdvanceCancelled(t) \/ TailAborted(t) \/ SettleNot(t)
                 \/ SettlePending(t) \/ SettleTask(t)
        <4>1. \/ th'[t] = Idle \/ th'[t] = [th[t] EXCEPT !.pc = "settle_round"]
          BY <1>0, <3>1 DEF AdvanceCancelled, TailAborted, SettleNot, SettlePending, SettleTask,
               Exit, Goto, ThreadTable
        <4> QED
          BY <1>0, <4>1 DEF Idle, Tail, ThreadTable, ThreadStates
      <3>2. CASE TailRoute(t)
        <4>1. \E a, l : Schedule(t, a, l)
          BY <3>2 DEF TailRoute
        <4> QED
          BY <1>0, <4>1 DEF Schedule, Idle, ThreadTable, Tail
      <3>3. CASE TailFanIn(t)
        <4>1. CASE Schedule(t, Main, "settle")
          BY <1>0, <4>1 DEF Schedule, Idle, ThreadTable, Tail
        <4>2. CASE th' = [th EXCEPT ![t] = [@ EXCEPT !.pc = "settle"]]
          BY <1>0, <4>2 DEF ThreadTable, ThreadStates, Tail
        <4> QED
          BY <3>3, <4>1, <4>2 DEF TailFanIn, FanIn
      <3>4. CASE SettleBegin(t) \/ SettleRound(t)
        <4>1. \/ th'[t] = Idle
              \/ \E v : th'[t] = [th[t] EXCEPT !.pc = "settle_pending", !.verdict = v]
              \/ th'[t] = [th[t] EXCEPT !.pc = "settle_task", !.seen = task]
          BY <1>0, <3>4 DEF SettleBegin, SettleRound, Exit, ThreadTable
        <4>2. th[t] \in ThreadStates
          BY <1>0 DEF ThreadTable
        <4>3. th'[t].pc \in {"idle", "settle_pending", "settle_task"}
          BY <1>0, <4>1, <4>2, ReturnForm DEF ThreadStates
        <4> QED
          BY <4>3 DEF Tail
      <3> QED
        BY <2>6, <3>1, <3>2, <3>3, <3>4
    <2> QED
      BY <1>5, <2>1, <2>3, <2>4, <2>5, <2>6 DEF TurnStep
  <1> QED
    BY <1>2, <1>3, <1>4, <1>5, TurnThread

LEMMA ThreadsKept ==
  ASSUME TypeInv, MailInv, [Next]_vars, NEW x \in Threads
  PROVE  (th[x].then \in Callers /\ Reading(x) /\ Called(x))'
  <1>0. /\ th \in ThreadTable /\ th[x] \in ThreadStates /\ inbox \in InboxTable
        /\ th[x].then \in Callers /\ Reading(x) /\ Called(x)
    BY DEF TypeInv, MailInv, ThreadTable
  <1>1. Formal(x)
    BY <1>0, NextFormal
  <1>2. Reading(x)'
    <2> SUFFICES ASSUME th'[x].pc = "claim"
                 PROVE  /\ th'[x].items # {}
                        /\ \A i \in th'[x].items : /\ inbox'[i].status # "none"
                                                   /\ inbox'[i].agent = th'[x].agent
      BY DEF Reading
    <2>1. CASE th'[x] = th[x]
      <3>1. th[x].items \subseteq ItemIds
        BY <1>0 DEF ThreadStates
      <3> QED
        BY <1>0, <2>1, <3>1, ItemKept DEF Reading
    <2>2. CASE ScheduleRead(x)
      <3>1. th'[x] = [th[x] EXCEPT !.pc = "claim", !.items = PendingAgentInbox(th[x].agent)]
        BY <1>0, <2>2 DEF ScheduleRead, ThreadTable
      <3>2. /\ th'[x].items = PendingAgentInbox(th[x].agent) /\ th'[x].agent = th[x].agent
        BY <1>0, <3>1 DEF ThreadStates
      <3>3. PendingAgentInbox(th[x].agent) # {} /\ inbox' = inbox
        BY <2>2 DEF ScheduleRead, First, storeVars
      <3> QED
        BY <3>2, <3>3 DEF PendingAgentInbox, PendingInbox
    <2> QED
      BY <1>1, <2>1, <2>2 DEF Formal
  <1>3. Called(x)'
    <2> SUFFICES ASSUME th'[x].pc \in LiveCalls, NEW t \in th'[x].turns PROVE Inserted(t)'
      BY DEF Called
    <2>1. CASE th'[x] = th[x]
      <3>1. t \in TurnIds /\ Inserted(t)
        BY <1>0, <2>1 DEF Called, ThreadStates
      <3> QED
        BY <3>1, RowsKept
    <2>2. ASSUME NEW u \in TurnIds, LiveCall(x, u) PROVE Inserted(t)'
      <3>1. PICK l \in {"live_claim", "live_wait"} :
              th' = [th EXCEPT ![x].pc = l, ![x].turns = {u}]
        BY <2>2 DEF LiveCall
      <3>2. th'[x].turns = {u}
        BY <1>0, <3>1 DEF ThreadTable, ThreadStates
      <3>3. Inserted(u)
        BY <2>2 DEF LiveCall, Inserted
      <3> QED
        BY <3>2, <3>3, RowsKept
    <2> QED
      BY <1>1, <2>1, <2>2 DEF Formal
  <1> QED
    BY <1>1, <1>2, <1>3 DEF Formal

LEMMA NextMail == TypeInv /\ MailInv /\ [Next]_vars => MailInv'
  <1> SUFFICES ASSUME TypeInv, MailInv, [Next]_vars PROVE MailInv'
    OBVIOUS
  <1>1. RowInv'
    BY NextRow DEF MailInv
  <1>2. \A i \in ItemIds : Rowed(i)'
    BY RowedKept
  <1>3. \A t \in TurnIds : Shared(t)' /\ Ended(t)'
    BY SharedKept, EndedKept
  <1>4. \A x \in Threads : (th[x].then \in Callers /\ Reading(x) /\ Called(x))'
    BY ThreadsKept
  <1> QED
    BY <1>1, <1>2, <1>3, <1>4 DEF MailInv
-----------------------------------------------------------------------------
(* The mailbox, seen through rows *)

LEMMA TurnKey == \A t \in TurnIds : t # 0
  BY Bounds DEF TurnIds

LEMMA PlacesMove ==
  ASSUME NEW S, NEW p,
         \A i \in ItemIds : PlaceOf(inbox'[i].status) = IF i \in S THEN p
                                                        ELSE PlaceOf(inbox[i].status)
  PROVE  Places' = Inbox!Moved(Places, S, p)
  BY DEF Places, Inbox!Moved

LEMMA BatchesMove ==
  ASSUME NEW S, NEW b,
         \A i \in ItemIds : BatchOf(i)' = IF i \in S THEN b ELSE BatchOf(i)
  PROVE  BatchesOf' = Inbox!Moved(BatchesOf, S, b)
  BY DEF BatchesOf, Inbox!Moved

LEMMA BatchesStay ==
  ASSUME \A i \in ItemIds : BatchOf(i)' = BatchOf(i)
  PROVE  BatchesOf' = BatchesOf
  BY DEF BatchesOf

\* An item that keeps its references keeps its batch.
LEMMA BatchKept ==
  ASSUME TypeInv, MailInv, [Next]_vars, NEW i \in ItemIds,
         inbox'[i].batch = inbox[i].batch, inbox'[i].turn = inbox[i].turn
  PROVE  BatchOf(i)' = BatchOf(i)
  <1>1. inbox[i] \in Items /\ Rowed(i)
    BY DEF TypeInv, InboxTable, MailInv
  <1>2. inbox[i].turn # 0 => inbox[i].turn \in TurnIds
    BY <1>1, Bounds DEF Items, TurnIds
  <1>3. inbox[i].turn # 0 => turn'[inbox[i].turn].batch = turn[inbox[i].turn].batch
    BY <1>1, <1>2, RowsKept DEF Rowed
  <1> QED
    BY <1>3 DEF BatchOf

\* What a batch holds, by the statuses of its items.
LEMMA HeldItems ==
  ASSUME TypeInv, NEW b, NEW i \in ItemIds
  PROVE  /\ i \in Inbox!In(b, {"handed"}) <=> BatchOf(i) = b /\ inbox[i].status = "claimed"
         /\ i \in Inbox!In(b, {"offered"})
              <=> BatchOf(i) = b /\ inbox[i].status = "claimed_in_turn"
         /\ i \in Inbox!In(b, {"offered", "read"}) <=> BatchOf(i) = b /\ inbox[i].status \in InTurn
  <1>1. inbox[i].status \in ItemStatus \cup {"none"}
    BY DEF TypeInv, InboxTable, Items
  <1>2. BatchesOf[i] = BatchOf(i) /\ Places[i] = PlaceOf(inbox[i].status)
    BY DEF BatchesOf, Places
  <1>3. /\ PlaceOf(inbox[i].status) = "handed" <=> inbox[i].status = "claimed"
        /\ PlaceOf(inbox[i].status) = "offered" <=> inbox[i].status = "claimed_in_turn"
        /\ PlaceOf(inbox[i].status) = "read" <=> inbox[i].status = "delivered_in_turn"
    BY <1>1 DEF PlaceOf, ItemStatus
  <1> QED
    BY <1>2, <1>3 DEF Inbox!In, InTurn

LEMMA AddresseesStay ==
  ASSUME TypeInv, [Next]_vars,
         \A i \in ItemIds : inbox[i].status = "none" => inbox'[i].status = "none"
  PROVE  Addressees' = Addressees
  BY ItemKept DEF Addressees

LEMMA TurnsStay ==
  ASSUME turn' = turn
  PROVE  UNCHANGED <<Readers, Fates, Retried>>
  BY DEF Readers, Fates, Retried, Attempts, FateOf

LEMMA RowsStay ==
  ASSUME UNCHANGED <<turn, inbox>>
  PROVE  UNCHANGED Inbox!mailbox
  <1>1. UNCHANGED <<Addressees, Places, BatchesOf>>
    BY DEF Addressees, Places, BatchesOf, BatchOf
  <1> QED
    BY <1>1, TurnsStay DEF Inbox!mailbox
-----------------------------------------------------------------------------
(* The attempts of a batch *)

LEMMA AttemptRow ==
  ASSUME MailInv, NEW t \in TurnIds, Inserted(t)
  PROVE  /\ turn[t].batch \in TurnIds /\ t \in Attempts(turn[t].batch)
         /\ Inserted(turn[t].batch) /\ turn[turn[t].batch].agent = turn[t].agent
  BY DEF MailInv, RowInv, BatchInv, FirstAttempt, Attempts, Inserted, Shared

\* Of two attempts one failed, before the other.
LEMMA TwoAttempts ==
  ASSUME TypeInv, MailInv, NEW b, NEW t \in Attempts(b), NEW u \in Attempts(b), t # u
  PROVE  \/ turn[t].attempt = 1 /\ turn[u].attempt = 2 /\ turn[t].status = "failed"
         \/ turn[u].attempt = 1 /\ turn[t].attempt = 2 /\ turn[u].status = "failed"
  <1>1. /\ t \in TurnIds /\ u \in TurnIds /\ Inserted(t) /\ Inserted(u)
        /\ turn[t].batch = b /\ turn[u].batch = b
    BY DEF Attempts, Inserted
  <1>2. turn[t].attempt \in {1, 2} /\ turn[u].attempt \in {1, 2}
    <2>1. turn[t] \in Turns /\ turn[u] \in Turns
      BY <1>1 DEF TypeInv, TurnTable
    <2>2. FirstAttempt(t) /\ FirstAttempt(u)
      BY <1>1 DEF MailInv, RowInv, BatchInv
    <2> QED
      BY <2>1, <2>2 DEF Turns, MaxTurnAttempts, FirstAttempt
  <1>3. turn[t].attempt # turn[u].attempt
    BY <1>1 DEF MailInv, RowInv, BatchInv, RetryOnce, Inserted
  <1> QED
    BY <1>1, <1>2, <1>3 DEF MailInv, RowInv, RetriedFailed

LEMMA FateOpen ==
  ASSUME NEW b, NEW t \in Attempts(b), turn[t].status \in TurnActive
  PROVE  FateOf(b) = "open"
  <1>1. {turn[u].status : u \in Attempts(b)} \cap TurnActive # {}
    OBVIOUS
  <1> QED
    BY <1>1 DEF FateOf, TurnActive

LEMMA FateNone ==
  ASSUME NEW b
  PROVE  FateOf(b) = "none" <=> Attempts(b) = {}
  BY DEF FateOf

LEMMA FateEnded ==
  ASSUME NEW b, Attempts(b) # {}, \A t \in Attempts(b) : turn[t].status \in TurnTerminal
  PROVE  FateOf(b) \in {"answered", "failed", "cut"}
  <1>1. {turn[t].status : t \in Attempts(b)} \cap TurnActive = {}
    BY DEF TurnTerminal, TurnActive
  <1> QED
    BY <1>1 DEF FateOf

\* The batch of a goroutine in its tail has ended.
LEMMA TailFate ==
  ASSUME TypeInv, MailInv, NEW t \in TurnIds, th[t].pc \in Tail
  PROVE  /\ Inserted(t) /\ turn[t].batch \in TurnIds
         /\ FateOf(turn[t].batch) \notin {"none", "open"}
  <1>1. Inserted(t) /\ turn[t].status \in TurnTerminal /\ Alone(t)
    BY DEF MailInv, RowInv, BatchInv, Running, Ended, Tail
  <1>2. turn[t].batch \in TurnIds /\ t \in Attempts(turn[t].batch)
    BY <1>1, AttemptRow
  <1>3. ASSUME NEW u \in Attempts(turn[t].batch) PROVE turn[u].status \in TurnTerminal
    <2>1. CASE u = t
      BY <1>1, <2>1
    <2>2. CASE u # t
      <3>1. turn[t].attempt # 1
        BY <1>1, <2>2, <1>3 DEF Alone, Attempts, Inserted, Tail, Early
      <3> QED
        BY <1>2, <2>2, <3>1, TwoAttempts DEF TurnTerminal
    <2> QED
      BY <2>1, <2>2
  <1>4. FateOf(turn[t].batch) \in {"answered", "failed", "cut"}
    BY <1>2, <1>3, FateEnded
  <1> QED
    BY <1>1, <1>2, <1>4
-----------------------------------------------------------------------------
(* The steps that write items only *)

LEMMA Posts ==
  ASSUME TypeInv, MailInv, [Next]_vars, turn' = turn, NEW k \in ItemIds, NEW a \in Agents,
         inbox[k].status = "none", inbox'[k].status = "pending", inbox'[k].agent = a,
         inbox'[k].batch = 0, inbox'[k].turn = 0,
         \A i \in ItemIds \ {k} : inbox'[i] = inbox[i]
  PROVE  Inbox!Post(k, a)
  <1>1. Places[k] = "none" /\ Places' = [Places EXCEPT ![k] = "waiting"]
    BY DEF Places, PlaceOf
  <1>2. Addressees' = [Addressees EXCEPT ![k] = a]
    BY DEF Addressees
  <1>3. BatchesOf' = BatchesOf
    <2>1. inbox[k].batch = 0 /\ inbox[k].turn = 0
      BY DEF MailInv, Rowed
    <2> QED
      BY <2>1, BatchKept, BatchesStay
  <1> QED
    BY <1>1, <1>2, <1>3, TurnsStay DEF Inbox!Post

LEMMA Drops ==
  ASSUME TypeInv, MailInv, [Next]_vars, turn' = turn, NEW r, inbox' = PendingCancelled(r)
  PROVE  Inbox!Next
  <1> DEFINE S == {i \in ItemIds : inbox[i].round = r /\ inbox[i].status \in {"pending", "claimed"}}
  <1>1. ASSUME NEW i \in ItemIds
        PROVE  /\ i \in S => inbox'[i].status = "cancelled"
               /\ i \notin S => inbox'[i].status = inbox[i].status
               /\ inbox'[i].batch = inbox[i].batch /\ inbox'[i].turn = inbox[i].turn
    <2>1. inbox[i] \in Items
      BY DEF TypeInv, InboxTable
    <2> QED
      BY <2>1 DEF PendingCancelled, Items
  <1>2. Places' = Inbox!Moved(Places, S, "dropped")
    BY <1>1, PlacesMove DEF PlaceOf
  <1>3. \A i \in S : Places[i] \in {"waiting", "handed"}
    BY DEF Places, PlaceOf
  <1>4. UNCHANGED <<Addressees, BatchesOf>>
    BY <1>1, BatchKept, BatchesStay, AddresseesStay
  <1>5. Inbox!Drop(S)
    BY <1>2, <1>3, <1>4, TurnsStay DEF Inbox!Drop
  <1> QED
    BY <1>5 DEF Inbox!Next

LEMMA Takes ==
  ASSUME TypeInv, MailInv, [Next]_vars, turn' = turn, NEW t \in TurnIds, Inserted(t),
         NEW S \in SUBSET LiveInbox(t), NEW s \in InTurn,
         \A i \in ItemIds : inbox'[i] = IF i \in S
                                        THEN [inbox[i] EXCEPT !.status = s, !.turn = t]
                                        ELSE inbox[i]
  PROVE  Inbox!Next
  <1>0. /\ turn[t].batch \in TurnIds /\ t \in Attempts(turn[t].batch)
        /\ turn[turn[t].batch].agent = turn[t].agent
    BY AttemptRow
  <1>8. t # 0
    BY TurnKey
  <1>1. ASSUME NEW i \in ItemIds, i \in S
        PROVE  /\ inbox[i].status = "pending" /\ inbox[i].agent = turn[t].agent
               /\ inbox'[i].status = s /\ inbox'[i].batch = 0 /\ inbox'[i].turn = t
    <2>1. inbox[i] \in Items /\ ItemRow(i)
      BY DEF TypeInv, InboxTable, MailInv, RowInv
    <2>2. inbox[i].status = "pending" /\ inbox[i].agent = turn[t].agent
      BY <1>1 DEF LiveInbox, PendingAgentInbox, PendingInbox
    <2> QED
      BY <1>1, <2>1, <2>2 DEF Items, ItemRow
  <1>2. Places' = Inbox!Moved(Places, S, PlaceOf(s))
    BY <1>1, PlacesMove
  <1>3. BatchesOf' = Inbox!Moved(BatchesOf, S, turn[t].batch)
    <2>1. \A i \in S \cap ItemIds : BatchOf(i)' = turn[t].batch
      BY <1>0, <1>1, <1>8 DEF BatchOf
    <2>2. \A i \in ItemIds \ S : BatchOf(i)' = BatchOf(i)
      BY BatchKept
    <2> QED
      BY <2>1, <2>2, BatchesMove
  <1>4. /\ PlaceOf(s) \in {"offered", "read"} /\ S \in SUBSET ItemIds
        /\ Addressees' = Addressees
    BY <1>1, AddresseesStay DEF PlaceOf, InTurn, LiveInbox, PendingAgentInbox, PendingInbox
  <1>5. Fates[turn[t].batch] # "none" /\ Readers[turn[t].batch] = turn[t].agent
    BY <1>0, FateNone DEF Fates, Readers
  <1>6. \A i \in S : Places[i] = "waiting" /\ Addressees[i] = Readers[turn[t].batch]
    BY <1>1, <1>4, <1>5 DEF Places, PlaceOf, Addressees
  <1>7. Inbox!Take(S, turn[t].batch, PlaceOf(s))
    BY <1>2, <1>3, <1>4, <1>5, <1>6, TurnsStay DEF Inbox!Take
  <1> QED
    BY <1>0, <1>4, <1>7 DEF Inbox!Next

LEMMA Acks ==
  ASSUME TypeInv, MailInv, [Next]_vars, turn' = turn, NEW items, NEW delivered \in BOOLEAN,
         inbox' = AckLiveInbox(items, delivered)
  PROVE  Inbox!Next
  <1> DEFINE S == {i \in ItemIds : i \in items /\ inbox[i].status = "claimed_in_turn"}
  <1>0. \A i \in ItemIds : inbox[i] \in Items
    BY DEF TypeInv, InboxTable
  <1>1. \A i \in S : Places[i] = "offered"
    BY DEF Places, PlaceOf
  <1>2. CASE delivered
    <2>1. ASSUME NEW i \in ItemIds
          PROVE  /\ i \in S => inbox'[i].status = "delivered_in_turn"
                 /\ i \notin S => inbox'[i].status = inbox[i].status
                 /\ inbox'[i].batch = inbox[i].batch /\ inbox'[i].turn = inbox[i].turn
      BY <1>0, <1>2 DEF AckLiveInbox, Items
    <2>2. Places' = Inbox!Moved(Places, S, "read")
      BY <2>1, PlacesMove DEF PlaceOf
    <2>3. UNCHANGED <<Addressees, BatchesOf>>
      BY <2>1, BatchKept, BatchesStay, AddresseesStay
    <2>4. Inbox!Confirm(S)
      BY <1>1, <2>2, <2>3, TurnsStay DEF Inbox!Confirm
    <2> QED
      BY <2>4 DEF Inbox!Next
  <1>3. CASE ~ delivered
    <2>1. ASSUME NEW i \in ItemIds
          PROVE  /\ i \in S => /\ inbox'[i].status = "pending"
                               /\ inbox'[i].batch = 0 /\ inbox'[i].turn = 0
                 /\ i \notin S => inbox'[i] = inbox[i]
      BY <1>0, <1>3 DEF AckLiveInbox, Requeued, Items
    <2>2. Places' = Inbox!Moved(Places, S, "waiting")
      BY <2>1, PlacesMove DEF PlaceOf
    <2>3. BatchesOf' = Inbox!Moved(BatchesOf, S, NoOne)
      <3>1. \A i \in S : BatchOf(i)' = NoOne
        BY <2>1 DEF BatchOf
      <3>2. \A i \in ItemIds \ S : BatchOf(i)' = BatchOf(i)
        BY <2>1, BatchKept
      <3> QED
        BY <3>1, <3>2, BatchesMove
    <2>4. Addressees' = Addressees
      BY <2>1, AddresseesStay
    <2>5. Inbox!Decline(S)
      BY <1>1, <2>2, <2>3, <2>4, TurnsStay DEF Inbox!Decline
    <2> QED
      BY <2>5 DEF Inbox!Next
  <1> QED
    BY <1>2, <1>3

LEMMA Finishes ==
  ASSUME TypeInv, MailInv, [Next]_vars, NEW t \in TurnIds, TailProcessed(t)
  PROVE  Inbox!Next
  <1> DEFINE b == turn[t].batch
             S == Inbox!In(b, {"handed"})
  <1>0. /\ turn' = turn /\ inbox' = BatchProcessed(b)
        /\ b \in TurnIds /\ FateOf(b) \notin {"none", "open"}
    BY TailFate DEF TailProcessed, At, Tail
  <1>1. ASSUME NEW i \in ItemIds
        PROVE  i \in S <=> inbox[i].status = "claimed" /\ inbox[i].batch = b
    <2>1. i \in S <=> BatchOf(i) = b /\ inbox[i].status = "claimed"
      BY HeldItems
    <2>2. inbox[i].status = "claimed" => inbox[i].turn = 0 /\ inbox[i].batch # 0
      BY DEF MailInv, RowInv, ItemRow, Rowed
    <2> QED
      BY <2>1, <2>2 DEF BatchOf
  <1>2. ASSUME NEW i \in ItemIds
        PROVE  /\ i \in S => inbox'[i].status = "processed"
               /\ i \notin S => inbox'[i].status = inbox[i].status
               /\ inbox'[i].batch = inbox[i].batch /\ inbox'[i].turn = inbox[i].turn
    <2>1. inbox[i] \in Items
      BY DEF TypeInv, InboxTable
    <2> HIDE DEF b, S
    <2> QED
      BY <1>0, <1>1, <2>1 DEF BatchProcessed, Items
  <1>3. ASSUME NEW i \in ItemIds, inbox[i].status = "none" PROVE inbox'[i].status = "none"
    BY <1>1, <1>2, <1>3
  <1> HIDE DEF S
  <1>4. Places' = Inbox!Moved(Places, S, "done")
    BY <1>2, PlacesMove DEF PlaceOf
  <1>5. UNCHANGED <<Addressees, BatchesOf>>
    BY <1>2, <1>3, BatchKept, BatchesStay, AddresseesStay
  <1>6. Inbox!Finish(b)
    BY <1>0, <1>4, <1>5, TurnsStay DEF Inbox!Finish, Fates, S
  <1> QED
    BY <1>0, <1>6 DEF Inbox!Next

LEMMA Sweeps ==
  ASSUME TypeInv, MailInv, [Next]_vars, NEW t \in TurnIds, TailSweep(t)
  PROVE  Inbox!Next
  <1> DEFINE b == turn[t].batch
             S == {i \in ItemIds : inbox[i].turn = t /\ inbox[i].status \in InTurn}
             Returned == S \cap Inbox!In(b, {"offered"})
  <1>0. /\ turn' = turn /\ inbox' = LiveInboxSwept(t)
        /\ b \in TurnIds /\ FateOf(b) \notin {"none", "open"}
    BY TailFate DEF TailSweep, At, Tail
  <1>1. ASSUME NEW i \in S PROVE BatchOf(i) = b
    BY <1>1, TurnKey DEF BatchOf
  <1>2. S \subseteq Inbox!In(b, {"offered", "read"})
    BY <1>1, HeldItems DEF InTurn
  <1>3. \A i \in ItemIds : i \in Returned <=> inbox[i].turn = t /\ inbox[i].status = "claimed_in_turn"
    BY <1>1, HeldItems DEF InTurn
  <1>4. ASSUME NEW i \in ItemIds
        PROVE  /\ i \in Returned => /\ inbox'[i].status = "pending"
                                /\ inbox'[i].batch = 0 /\ inbox'[i].turn = 0
               /\ i \notin Returned => /\ inbox'[i].batch = inbox[i].batch
                                   /\ inbox'[i].turn = inbox[i].turn
               /\ i \in S \ Returned => inbox'[i].status = "processed"
               /\ i \notin S => inbox'[i].status = inbox[i].status
    <2>1. inbox[i] \in Items
      BY DEF TypeInv, InboxTable
    <2>2. i \in S <=> inbox[i].turn = t /\ inbox[i].status \in InTurn
      OBVIOUS
    <2>3. inbox'[i] = CASE inbox[i].turn = t /\ inbox[i].status = "claimed_in_turn"
                             -> Requeued(inbox[i])
                        [] inbox[i].turn = t /\ inbox[i].status = "delivered_in_turn"
                             -> [inbox[i] EXCEPT !.status = "processed"]
                        [] OTHER -> inbox[i]
      BY <1>0 DEF LiveInboxSwept
    <2> HIDE DEF S, Returned
    <2> QED
      BY <1>3, <2>1, <2>2, <2>3 DEF Requeued, Items, InTurn
  <1>5. Returned \subseteq S /\ S \subseteq ItemIds
    OBVIOUS
  <1>6. ASSUME NEW i \in ItemIds, inbox[i].status = "none" PROVE inbox'[i].status = "none"
    BY <1>3, <1>4, <1>6 DEF InTurn
  <1> HIDE DEF S, Returned
  <1>7. Places' = Inbox!Moved(Inbox!Moved(Places, S, "done"), Returned, "waiting")
    BY <1>4, <1>5 DEF Places, PlaceOf, Inbox!Moved
  <1>8. BatchesOf' = Inbox!Moved(BatchesOf, Returned, NoOne)
    <2>1. \A i \in Returned : BatchOf(i)' = NoOne
      BY <1>4, <1>5 DEF BatchOf
    <2>2. \A i \in ItemIds \ Returned : BatchOf(i)' = BatchOf(i)
      BY <1>4, BatchKept
    <2> QED
      BY <2>1, <2>2, BatchesMove
  <1>9. Addressees' = Addressees
    BY <1>6, AddresseesStay
  <1>10. Inbox!Sweep(b, S)
    BY <1>0, <1>2, <1>7, <1>8, <1>9, TurnsStay DEF Inbox!Sweep, Fates, Returned
  <1> QED
    BY <1>0, <1>5, <1>10 DEF Inbox!Next
-----------------------------------------------------------------------------
(* The steps that write turns *)

\* A batch that was never begun has no attempt.
LEMMA NoAttempt ==
  ASSUME MailInv, NEW n \in TurnIds, ~ Inserted(n)
  PROVE  Attempts(n) = {}
  BY AttemptRow DEF Attempts, Inserted

LEMMA AttemptsStay ==
  ASSUME TypeInv, MailInv, [Next]_vars, \A u \in TurnIds : Inserted(u)' => Inserted(u)
  PROVE  /\ \A b \in TurnIds : Attempts(b)' = Attempts(b)
         /\ UNCHANGED <<Readers, Retried>>
  <1>1. ASSUME NEW b \in TurnIds PROVE Attempts(b)' = Attempts(b)
    BY RowsKept DEF Attempts, Inserted
  <1>2. ASSUME NEW b \in TurnIds, Attempts(b) # {} PROVE turn'[b].agent = turn[b].agent
    <2>1. PICK u \in TurnIds : Inserted(u) /\ turn[u].batch = b
      BY <1>2 DEF Attempts, Inserted
    <2> QED
      BY <2>1, AttemptRow, RowsKept
  <1>3. Readers' = Readers
    BY <1>1, <1>2 DEF Readers
  <1>4. ASSUME NEW b \in TurnIds, NEW u \in Attempts(b)
        PROVE  turn'[u].attempt = turn[u].attempt
    BY RowsKept DEF Attempts, Inserted
  <1>5. Retried' = Retried
    BY <1>1, <1>4 DEF Retried
  <1> QED
    BY <1>1, <1>3, <1>5

LEMMA ItemsStay ==
  ASSUME TypeInv, MailInv, [Next]_vars, inbox' = inbox
  PROVE  UNCHANGED <<Addressees, Places, BatchesOf>>
  BY BatchKept, BatchesStay DEF Addressees, Places

LEMMA Ends ==
  ASSUME TypeInv, MailInv, [Next]_vars, NEW t \in TurnIds, inbox' = inbox,
         turn[t].status \in TurnActive, turn'[t].status \in TurnTerminal,
         \A u \in TurnIds \ {t} : turn'[u] = turn[u]
  PROVE  Inbox!Next
  <1> DEFINE b == turn[t].batch
  <1>0. Inserted(t) /\ b \in TurnIds /\ t \in Attempts(b)
    BY AttemptRow DEF Inserted, TurnActive
  <1>1. /\ \A c \in TurnIds : Attempts(c)' = Attempts(c)
        /\ UNCHANGED <<Readers, Retried, Addressees, Places, BatchesOf>>
    BY <1>0, AttemptsStay, ItemsStay DEF Inserted
  <1>2. FateOf(b) = "open"
    BY <1>0, FateOpen
  <1>3. FateOf(b)' \in {"answered", "failed", "cut"}
    <2>1. ASSUME NEW u \in Attempts(b) PROVE turn'[u].status \in TurnTerminal
      <3>1. CASE u # t
        <4>1. u \in TurnIds /\ turn[u].status = "failed"
          BY <1>0, <3>1, TwoAttempts DEF Attempts, TurnActive
        <4> QED
          BY <3>1, <4>1 DEF TurnTerminal
      <3> QED
        BY <3>1
    <2>2. /\ {turn'[u].status : u \in Attempts(b)} \cap TurnActive = {}
          /\ {turn'[u].status : u \in Attempts(b)} # {}
      BY <1>0, <2>1 DEF TurnTerminal, TurnActive
    <2>3. b' = b
      BY <1>0, RowsKept
    <2> HIDE DEF b
    <2> QED
      BY <1>0, <1>1, <2>2, <2>3 DEF FateOf
  <1>4. ASSUME NEW c \in TurnIds, c # b PROVE FateOf(c)' = FateOf(c)
    <2>1. ASSUME NEW u \in Attempts(c) PROVE turn'[u].status = turn[u].status
      BY <1>4 DEF Attempts
    <2>2. {turn'[u].status : u \in Attempts(c)} = {turn[u].status : u \in Attempts(c)}
      BY <2>1
    <2> QED
      BY <1>1, <2>2 DEF FateOf
  <1>5. PICK f \in {"answered", "failed", "cut"} : FateOf(b)' = f
    BY <1>3
  <1>6. Fates[b] = "open" /\ Fates' = [Fates EXCEPT ![b] = f]
    <2>1. b' = b
      BY <1>0, RowsKept
    <2> HIDE DEF b
    <2> QED
      BY <1>0, <1>2, <1>4, <1>5, <2>1 DEF Fates
  <1>7. Inbox!End(b, f)
    BY <1>1, <1>6 DEF Inbox!End
  <1> QED
    BY <1>0, <1>7 DEF Inbox!Next

\* A turn that starts up leaves its batch open.
LEMMA Advances ==
  ASSUME TypeInv, MailInv, [Next]_vars, NEW t \in TurnIds, inbox' = inbox,
         turn[t].status \in TurnActive, turn'[t].status \in TurnActive,
         \A u \in TurnIds \ {t} : turn'[u] = turn[u]
  PROVE  UNCHANGED Inbox!mailbox
  <1>0. Inserted(t) /\ t \in Attempts(turn[t].batch)
    BY AttemptRow DEF Inserted, TurnActive
  <1>1. /\ \A c \in TurnIds : Attempts(c)' = Attempts(c)
        /\ UNCHANGED <<Readers, Retried, Addressees, Places, BatchesOf>>
    BY <1>0, AttemptsStay, ItemsStay DEF Inserted
  <1>2. ASSUME NEW c \in TurnIds PROVE FateOf(c)' = FateOf(c)
    <2>1. CASE t \in Attempts(c)
      <3>1. {turn'[u].status : u \in Attempts(c)} \cap TurnActive # {}
        BY <2>1
      <3>2. FateOf(c)' = "open"
        BY <1>1, <3>1 DEF FateOf, TurnActive
      <3> QED
        BY <2>1, <3>2, FateOpen
    <2>2. CASE t \notin Attempts(c)
      <3>1. \A u \in Attempts(c) : turn'[u].status = turn[u].status
        BY <2>2 DEF Attempts
      <3>2. {turn'[u].status : u \in Attempts(c)} = {turn[u].status : u \in Attempts(c)}
        BY <3>1
      <3> QED
        BY <1>1, <3>2 DEF FateOf
    <2> QED
      BY <2>1, <2>2
  <1>3. Fates' = Fates
    BY <1>2 DEF Fates
  <1> QED
    BY <1>1, <1>3 DEF Inbox!mailbox

\* What a new turn is to its batch and to the others.
LEMMA NewAttempt ==
  ASSUME NEW n \in TurnIds, ~ Inserted(n), turn'[n].status = "queued",
         \A u \in TurnIds \ {n} : turn'[u] = turn[u],
         NEW b \in TurnIds, turn'[n].batch = b
  PROVE  /\ Attempts(b)' = Attempts(b) \cup {n}
         /\ \A c \in TurnIds \ {b} : Attempts(c)' = Attempts(c)
         /\ \A c \in TurnIds : \A u \in Attempts(c) : turn'[u] = turn[u]
         /\ Fates' = [Fates EXCEPT ![b] = "open"]
  <1>1. Attempts(b)' = Attempts(b) \cup {n}
    BY DEF Attempts, Inserted
  <1>2. \A c \in TurnIds \ {b} : Attempts(c)' = Attempts(c)
    BY DEF Attempts, Inserted
  <1>3. ASSUME NEW c, NEW u \in Attempts(c) PROVE turn'[u] = turn[u]
    BY DEF Attempts, Inserted
  <1>4. FateOf(b)' = "open"
    <2>1. {turn'[u].status : u \in Attempts(b)'} \cap TurnActive # {}
      BY <1>1 DEF TurnActive
    <2> QED
      BY <2>1 DEF FateOf, TurnActive
  <1>5. ASSUME NEW c \in TurnIds, c # b PROVE FateOf(c)' = FateOf(c)
    <2>1. {turn'[u].status : u \in Attempts(c)'} = {turn[u].status : u \in Attempts(c)}
      BY <1>2, <1>3, <1>5
    <2> QED
      BY <2>1 DEF FateOf
  <1>6. Fates' = [Fates EXCEPT ![b] = "open"]
    BY <1>4, <1>5 DEF Fates
  <1> QED
    BY <1>1, <1>2, <1>3, <1>6

LEMMA Retries ==
  ASSUME TypeInv, MailInv, [Next]_vars, NEW t \in TurnIds, TailRetry(t)
  PROVE  Inbox!Next
  <1>0. /\ turn \in TurnTable /\ turn[t] \in Turns /\ inbox' = inbox
        /\ turn[t].status = "failed" /\ turn[t].attempt < 2 /\ th[t].pc = "retry"
    BY DEF TypeInv, TurnTable, TailRetry, Retryable, MaxTurnAttempts, At
  <1>1. Inserted(t) /\ FirstAttempt(t) /\ Alone(t)
    BY <1>0 DEF Inserted, MailInv, RowInv, BatchInv
  <1>2. turn[t].attempt = 1
    BY <1>0, <1>1 DEF FirstAttempt, Turns, MaxTurnAttempts
  <1>3. PICK b \in TurnIds : b = turn[t].batch
    BY <1>1 DEF FirstAttempt
  <1>4. Inserted(b) /\ Attempts(b) = {t}
    <2>1. Inserted(b) /\ t \in Attempts(b)
      BY <1>1, <1>3, AttemptRow
    <2>2. \A u \in Attempts(b) : u = t
      BY <1>0, <1>1, <1>2, <1>3 DEF Alone, Early, Attempts, Inserted
    <2> QED
      BY <2>1, <2>2
  <1>5. PICK n \in TurnIds : CreateRetry(t, n)
    BY DEF TailRetry
  <1>6. /\ ~ Inserted(n) /\ n # t /\ n # b
        /\ turn' = [turn EXCEPT ![n] = [turn[t] EXCEPT !.status = "queued", !.retryable = FALSE,
                                                       !.attempt = turn[t].attempt + 1]]
    BY <1>1, <1>4, <1>5 DEF CreateRetry, First, FreeTurns, Inserted
  <1>7. /\ \A u \in TurnIds \ {n} : turn'[u] = turn[u]
        /\ turn'[n].status = "queued" /\ turn'[n].batch = b /\ turn'[n].attempt = 2
    BY <1>0, <1>2, <1>3, <1>6 DEF TurnTable, Turns
  <1>8. /\ Attempts(b)' = {t, n}
        /\ \A c \in TurnIds \ {b} : Attempts(c)' = Attempts(c)
        /\ \A c \in TurnIds : \A u \in Attempts(c) : turn'[u] = turn[u]
        /\ Fates' = [Fates EXCEPT ![b] = "open"]
    BY <1>4, <1>6, <1>7, NewAttempt
  <1>9. Fates[b] = "failed"
    <2>1. {turn[u].status : u \in Attempts(b)} = {"failed"}
      BY <1>0, <1>4
    <2> QED
      BY <1>3, <2>1 DEF Fates, FateOf, TurnActive
  <1>10. b \notin Retried /\ Retried' = Retried \cup {b}
    <2>1. b \notin Retried
      BY <1>2, <1>4 DEF Retried
    <2>2. ASSUME NEW c \in TurnIds \ {b} PROVE c \in Retried' <=> c \in Retried
      BY <1>8 DEF Retried
    <2>3. b \in Retried'
      BY <1>7, <1>8 DEF Retried
    <2>4. Retried \subseteq TurnIds /\ Retried' \subseteq TurnIds
      BY DEF Retried
    <2> QED
      BY <1>3, <2>1, <2>2, <2>3, <2>4
  <1>11. Readers' = Readers
    <2>1. Attempts(n) = {}
      BY <1>6, NoAttempt
    <2>2. ASSUME NEW c \in TurnIds, Attempts(c) # {} PROVE turn'[c] = turn[c]
      BY <1>7, <2>1, <2>2
    <2>3. \A c \in TurnIds : Attempts(c)' = {} <=> Attempts(c) = {}
      BY <1>4, <1>8
    <2> QED
      BY <2>2, <2>3 DEF Readers
  <1>12. Inbox!Retry(b)
    BY <1>0, <1>8, <1>9, <1>10, <1>11, ItemsStay DEF Inbox!Retry
  <1> QED
    BY <1>12 DEF Inbox!Next

LEMMA Hands ==
  ASSUME TypeInv, MailInv, [Next]_vars, NEW x \in Threads, ScheduleClaim(x)
  PROVE  Inbox!Next
  <1> DEFINE S == th[x].items
             a == th[x].agent
  <1>0. /\ turn \in TurnTable /\ \A i \in ItemIds : inbox[i] \in Items
        /\ S \in SUBSET ItemIds /\ a \in Agents
    BY DEF TypeInv, InboxTable, ThreadTable, ThreadStates
  <1>1. /\ S # {}
        /\ \A i \in S : inbox[i].status = "pending" /\ inbox[i].agent = a
    BY DEF ScheduleClaim, At, CanClaim, MailInv, Reading
  <1>2. PICK n \in TurnIds, k \in ItemIds : ClaimInboxAndCreateTurn(a, inbox[k].round, S, n)
    BY DEF ScheduleClaim
  <1>3. PICK g \in 0..MaxTurns :
          turn' = [turn EXCEPT ![n] = [agent |-> a, round |-> inbox[k].round,
                                       status |-> "queued", attempt |-> 1, generation |-> g,
                                       batch |-> n, retryable |-> FALSE]]
    BY <1>2 DEF ClaimInboxAndCreateTurn
  <1>4. /\ ~ Inserted(n)
        /\ inbox' = [i \in ItemIds |-> IF i \in S
                                       THEN [inbox[i] EXCEPT !.status = "claimed", !.batch = n]
                                       ELSE inbox[i]]
    BY <1>2 DEF ClaimInboxAndCreateTurn, First, FreeTurns, Inserted
  <1> HIDE DEF S, a
  <1>5. /\ \A u \in TurnIds \ {n} : turn'[u] = turn[u]
        /\ turn'[n].status = "queued" /\ turn'[n].batch = n /\ turn'[n].attempt = 1
        /\ turn'[n].agent = a
    BY <1>0, <1>3 DEF TurnTable
  <1>6. ASSUME NEW i \in ItemIds
        PROVE  /\ i \in S => /\ inbox'[i].status = "claimed" /\ inbox'[i].batch = n
                             /\ inbox'[i].turn = 0
               /\ i \notin S => inbox'[i] = inbox[i]
    <2>1. inbox[i] \in Items /\ (inbox[i].status = "pending" => inbox[i].turn = 0)
      BY <1>0 DEF MailInv, RowInv, ItemRow
    <2> QED
      BY <1>1, <1>4, <2>1 DEF Items
  <1>7. Places' = Inbox!Moved(Places, S, "handed")
    BY <1>6, PlacesMove DEF PlaceOf
  <1>8. BatchesOf' = Inbox!Moved(BatchesOf, S, n)
    <2>1. \A i \in S : BatchOf(i)' = n
      BY <1>0, <1>6, TurnKey DEF BatchOf
    <2>2. \A i \in ItemIds \ S : BatchOf(i)' = BatchOf(i)
      BY <1>6, BatchKept
    <2> QED
      BY <2>1, <2>2, BatchesMove
  <1>9. Addressees' = Addressees
    BY <1>1, <1>6, AddresseesStay
  <1>10. \A i \in S : Places[i] = "waiting" /\ Addressees[i] = a
    BY <1>0, <1>1 DEF Places, PlaceOf, Addressees
  <1>11. Attempts(n) = {} /\ Fates[n] = "none"
    BY <1>4, NoAttempt, FateNone DEF Fates
  <1>12. /\ Attempts(n)' = {n}
         /\ \A c \in TurnIds \ {n} : Attempts(c)' = Attempts(c)
         /\ \A c \in TurnIds : \A u \in Attempts(c) : turn'[u] = turn[u]
         /\ Fates' = [Fates EXCEPT ![n] = "open"]
    BY <1>4, <1>5, <1>11, NewAttempt
  <1>13. Readers' = [Readers EXCEPT ![n] = a]
    BY <1>5, <1>12 DEF Readers
  <1>14. Retried' = Retried
    <2>1. \A c \in TurnIds \ {n} : c \in Retried' <=> c \in Retried
      BY <1>12 DEF Retried
    <2>2. n \notin Retried /\ n \notin Retried'
      BY <1>5, <1>11, <1>12 DEF Retried
    <2>3. Retried \subseteq TurnIds /\ Retried' \subseteq TurnIds
      BY DEF Retried
    <2> QED
      BY <2>1, <2>2, <2>3
  <1>15. Inbox!Hand(S, n, a)
    BY <1>1, <1>7, <1>8, <1>9, <1>10, <1>11, <1>12, <1>13, <1>14 DEF Inbox!Hand
  <1> QED
    BY <1>0, <1>15 DEF Inbox!Next

\* The start of the process cuts off the batches that are open.
LEMMA Restarts ==
  ASSUME TypeInv, MailInv, [Next]_vars, Restart
  PROVE  Inbox!Next
  <1> DEFINE S    == {i \in ItemIds : inbox[i].status \in InTurn /\ inbox[i].turn \in ActiveTurns}
             Cut  == {b \in TurnIds : Fates[b] = "open"}
             Held == UNION {Inbox!In(b, {"handed"}) : b \in Cut}
  <1>1. /\ turn \in TurnTable
        /\ turn' = [t \in TurnIds |-> IF t \in ActiveTurns
                                      THEN [turn[t] EXCEPT !.status = "interrupted"]
                                      ELSE turn[t]]
        /\ inbox' = [i \in ItemIds |->
                       IF \/ /\ inbox[i].status = "claimed"
                             /\ inbox[i].batch \in {turn[t].batch : t \in ActiveTurns}
                          \/ /\ inbox[i].status \in {"claimed_in_turn", "delivered_in_turn"}
                             /\ inbox[i].turn \in ActiveTurns
                       THEN Requeued(inbox[i]) ELSE inbox[i]]
    BY DEF TypeInv, Restart, RecoverInterrupted
  <1>2. ASSUME NEW t \in TurnIds
        PROVE  /\ turn[t].status \in TurnActive => turn'[t].status = "interrupted"
               /\ turn[t].status \notin TurnActive => turn'[t] = turn[t]
               /\ Inserted(t)' <=> Inserted(t)
    BY <1>1 DEF ActiveTurns, TurnTable, Turns, TurnActive, Inserted
  <1>3. /\ \A b \in TurnIds : Attempts(b)' = Attempts(b)
        /\ UNCHANGED <<Readers, Retried>>
    BY <1>2, AttemptsStay
  <1>4. ASSUME NEW b \in TurnIds
        PROVE  Fates[b] = "open" <=> \E t \in Attempts(b) : turn[t].status \in TurnActive
    <2>1. CASE \A t \in Attempts(b) : turn[t].status \notin TurnActive
      <3>1. {turn[t].status : t \in Attempts(b)} \cap TurnActive = {}
        BY <2>1
      <3> QED
        BY <2>1, <3>1 DEF Fates, FateOf
    <2> QED
      BY <2>1, FateOpen DEF Fates
  <1>5. ASSUME NEW b \in Cut PROVE FateOf(b)' = "cut"
    <2>1. PICK t \in Attempts(b) : turn[t].status \in TurnActive
      BY <1>4
    <2>2. \A u \in Attempts(b) : u \in TurnIds
      BY DEF Attempts
    <2>3. \A u \in Attempts(b) : u # t => turn[u].status = "failed"
      BY <2>1, TwoAttempts DEF TurnActive
    <2>4. \A u \in Attempts(b) : turn'[u].status \in {"interrupted", "failed"}
      BY <1>2, <2>1, <2>2, <2>3 DEF TurnActive
    <2>5. turn'[t].status = "interrupted"
      BY <1>2, <2>1, <2>2
    <2>6. /\ {turn'[u].status : u \in Attempts(b)} \subseteq {"interrupted", "failed"}
          /\ "interrupted" \in {turn'[u].status : u \in Attempts(b)}
      BY <2>1, <2>4, <2>5
    <2> QED
      BY <1>3, <2>6 DEF FateOf, TurnActive
  <1>6. ASSUME NEW b \in TurnIds \ Cut PROVE FateOf(b)' = Fates[b]
    <2>1. \A u \in Attempts(b) : turn'[u].status = turn[u].status
      BY <1>2, <1>4 DEF Attempts
    <2>2. {turn'[u].status : u \in Attempts(b)} = {turn[u].status : u \in Attempts(b)}
      BY <2>1
    <2>3. FateOf(b)' = FateOf(b)
      BY <1>3, <2>2 DEF FateOf
    <2> QED
      BY <2>3 DEF Fates
  <1>7. Fates' = Inbox!Moved(Fates, Cut, "cut")
    <2> HIDE DEF Cut
    <2> QED
      BY <1>5, <1>6 DEF Fates, Inbox!Moved
  \* What is given back is what the open batches hold.
  <1>8. ASSUME NEW t \in TurnIds
        PROVE  t \in ActiveTurns => turn[t].batch \in Cut
    BY <1>4, AttemptRow DEF ActiveTurns, Inserted, TurnActive
  <1>9. ASSUME NEW i \in ItemIds
        PROVE  i \in Held <=> /\ inbox[i].status = "claimed"
                              /\ inbox[i].batch \in {turn[t].batch : t \in ActiveTurns}
    <2>1. i \in Held <=> /\ inbox[i].status = "claimed"
                         /\ BatchOf(i) \in Cut
      BY HeldItems
    <2>2. inbox[i].status = "claimed" => BatchOf(i) = inbox[i].batch
      BY DEF MailInv, RowInv, ItemRow, Rowed, BatchOf
    <2>3. \A b \in TurnIds : b \in Cut <=> b \in {turn[t].batch : t \in ActiveTurns}
      BY <1>4, <1>8 DEF Attempts, ActiveTurns
    <2>4. \A b : b \in Cut \/ b \in {turn[t].batch : t \in ActiveTurns} => b \in TurnIds
      BY <1>8 DEF ActiveTurns
    <2> QED
      BY <2>1, <2>2, <2>3, <2>4
  <1>10. ASSUME NEW i \in S
         PROVE  i \in UNION {Inbox!In(b, {"offered", "read"}) : b \in Cut}
    <2>1. BatchOf(i) = turn[inbox[i].turn].batch /\ inbox[i].turn \in ActiveTurns
      BY TurnKey DEF BatchOf, ActiveTurns
    <2>2. BatchOf(i) \in Cut
      BY <1>8, <2>1 DEF ActiveTurns
    <2> QED
      BY <2>2, HeldItems
  <1>11. /\ S \subseteq ItemIds
         /\ \A i \in ItemIds : i \in S <=> /\ inbox[i].status \in InTurn
                                           /\ inbox[i].turn \in ActiveTurns
    OBVIOUS
  <1> HIDE DEF S, Held
  <1>12. ASSUME NEW i \in ItemIds
         PROVE  /\ i \in S \cup Held => /\ inbox'[i].status = "pending"
                                        /\ inbox'[i].batch = 0 /\ inbox'[i].turn = 0
                                        /\ inbox[i].status # "none"
                /\ i \notin S \cup Held => inbox'[i] = inbox[i]
    <2>1. inbox[i] \in Items
      BY DEF TypeInv, InboxTable
    <2> QED
      BY <1>1, <1>9, <1>11, <2>1 DEF Requeued, Items, InTurn
  <1>13. Places' = Inbox!Moved(Places, S \cup Held, "waiting")
    BY <1>12, PlacesMove DEF PlaceOf
  <1>14. BatchesOf' = Inbox!Moved(BatchesOf, S \cup Held, NoOne)
    <2>1. \A i \in ItemIds : i \in S \cup Held => BatchOf(i)' = NoOne
      BY <1>12 DEF BatchOf
    <2>2. \A i \in ItemIds : i \notin S \cup Held => BatchOf(i)' = BatchOf(i)
      BY <1>12, BatchKept
    <2> QED
      BY <2>1, <2>2, BatchesMove
  <1>15. Addressees' = Addressees
    BY <1>12, AddresseesStay
  <1>16. Inbox!Restart(S)
    BY <1>3, <1>7, <1>10, <1>13, <1>14, <1>15 DEF Inbox!Restart, Held
  <1> QED
    BY <1>11, <1>16 DEF Inbox!Next
-----------------------------------------------------------------------------
\* Each writer of rows is a step of the mailbox.
LEMMA RequestSteps ==
  ASSUME TypeInv, MailInv, [Next]_vars, NEW r \in Requests, RequestWrites(r)
  PROVE  [Inbox!Next]_Inbox!mailbox
  <1>0. /\ inbox \in InboxTable /\ th[r] \in ThreadStates /\ r \in Threads
        /\ th[r].turns \subseteq TurnIds /\ th[r].agent \in Agents
    BY ThreadKinds DEF TypeInv, ThreadTable, ThreadStates
  <1>1. CASE SubmitEnqueue(r)
    <2>1. PICK k \in ItemIds, q \in RoundIds :
            /\ First(FreeItems, k)
            /\ inbox' = [inbox EXCEPT ![k] = [NoItem EXCEPT !.agent = th[r].agent, !.round = q,
                                                            !.status = "pending"]]
      BY <1>1 DEF SubmitEnqueue, EnqueueUserMessage
    <2>2. /\ turn' = turn /\ inbox[k].status = "none"
          /\ \A i \in ItemIds \ {k} : inbox'[i] = inbox[i]
      BY <1>0, <1>1, <2>1 DEF SubmitEnqueue, First, FreeItems, InboxTable
    <2>3. inbox'[k] = [NoItem EXCEPT !.agent = th[r].agent, !.round = q, !.status = "pending"]
      BY <1>0, <2>1 DEF InboxTable
    <2>4. /\ inbox'[k].status = "pending" /\ inbox'[k].agent = th[r].agent
          /\ inbox'[k].batch = 0 /\ inbox'[k].turn = 0
      BY <2>3 DEF NoItem
    <2>5. Inbox!Post(k, th[r].agent)
      BY <1>0, <2>2, <2>4, Posts
    <2> QED
      BY <1>0, <2>5 DEF Inbox!Next
  <1>2. CASE InterruptRoundInbox(r)
    BY <1>2, Drops DEF InterruptRoundInbox
  <1>3. ASSUME NEW t \in th[r].turns, NEW after \in 0..MaxItems, NEW s \in InTurn,
               th[r].pc \in LiveCalls, turn' = turn, inbox' = LiveClaimed(t, after, s)
        PROVE  Inbox!Next
    <2>1. t \in TurnIds /\ Inserted(t)
      BY <1>0, <1>3 DEF MailInv, Called
    <2> DEFINE S == {i \in LiveInbox(t) : i > after}
    <2>2. S \in SUBSET LiveInbox(t)
      OBVIOUS
    <2>3. \A i \in ItemIds : inbox'[i] = IF i \in S
                                         THEN [inbox[i] EXCEPT !.status = s, !.turn = t]
                                         ELSE inbox[i]
      BY <1>3 DEF LiveClaimed
    <2> HIDE DEF S
    <2> QED
      BY <1>3, <2>1, <2>2, <2>3, Takes
  <1>4. CASE LiveClaim(r)
    <2>1. PICK t \in th[r].turns : inbox' = LiveClaimed(t, 0, "claimed_in_turn")
      BY <1>4 DEF LiveClaim
    <2>2. 0 \in 0..MaxItems /\ turn' = turn /\ th[r].pc \in LiveCalls
      BY <1>4, Bounds DEF LiveClaim, At, LiveCalls
    <2> QED
      BY <1>3, <2>1, <2>2 DEF InTurn
  <1>5. CASE LiveWait(r)
    <2>1. PICK t \in th[r].turns, after \in 0..MaxItems :
            inbox' = LiveClaimed(t, after, "delivered_in_turn")
      BY <1>5 DEF LiveWait
    <2>2. turn' = turn /\ th[r].pc \in LiveCalls
      BY <1>5 DEF LiveWait, At, LiveCalls
    <2> QED
      BY <1>3, <2>1, <2>2 DEF InTurn
  <1>6. CASE LiveAck(r)
    <2>1. PICK delivered \in BOOLEAN :
            inbox' = AckLiveInbox(th[r].items, delivered) \/ inbox' = inbox
      BY <1>6 DEF LiveAck
    <2>2. turn' = turn
      BY <1>6 DEF LiveAck
    <2> QED
      BY <2>1, <2>2, Acks, RowsStay
  <1> QED
    BY <1>1, <1>2, <1>4, <1>5, <1>6 DEF RequestWrites

LEMMA TurnSteps ==
  ASSUME TypeInv, MailInv, [Next]_vars, NEW t \in TurnIds, TurnWrites(t)
  PROVE  [Inbox!Next]_Inbox!mailbox
  <1>0. turn \in TurnTable /\ inbox \in InboxTable /\ turn[t] \in Turns
    BY DEF TypeInv, TurnTable
  <1>1. CASE Advance(t)
    <2>1. /\ turn[t].status \in {"queued", "preparing", "starting"} /\ inbox' = inbox
          /\ turn' = [turn EXCEPT ![t].status = NextStatus(turn[t].status)]
      BY <1>1 DEF Advance, StartingUp, TurnUpdated, RunRest
    <2>2. /\ turn'[t].status = NextStatus(turn[t].status)
          /\ \A u \in TurnIds \ {t} : turn'[u] = turn[u]
      BY <1>0, <2>1 DEF TurnTable, Turns
    <2>3. turn[t].status \in TurnActive /\ turn'[t].status \in TurnActive
      BY <2>1, <2>2 DEF NextStatus, TurnActive
    <2> QED
      BY <2>1, <2>2, <2>3, Advances
  <1>2. CASE PrepareFail(t)
    <2>1. /\ turn[t].status \in {"preparing", "starting"} /\ inbox' = inbox
          /\ turn' = [turn EXCEPT ![t].status = "failed"]
      BY <1>2 DEF PrepareFail, TurnUpdated, RunRest
    <2>2. turn'[t].status = "failed" /\ \A u \in TurnIds \ {t} : turn'[u] = turn[u]
      BY <1>0, <2>1 DEF TurnTable, Turns
    <2> QED
      BY <2>1, <2>2, Ends DEF TurnActive, TurnTerminal
  <1>3. ASSUME NEW s \in TurnTerminal, NEW b \in BOOLEAN, Finish(t, s, b)
        PROVE  [Inbox!Next]_Inbox!mailbox
    <2>1. /\ turn[t].status = "running" /\ inbox' = inbox
          /\ turn' = [turn EXCEPT ![t].status = s, ![t].retryable = b]
      BY <1>3 DEF Finish
    <2>2. turn'[t].status = s /\ \A u \in TurnIds \ {t} : turn'[u] = turn[u]
      BY <1>0, <2>1 DEF TurnTable, Turns
    <2> QED
      BY <2>1, <2>2, Ends DEF TurnActive
  <1>4. CASE TailProcessed(t) \/ TailSweep(t) \/ TailRetry(t)
    BY <1>4, Finishes, Sweeps, Retries
  <1>5. CASE TailRoute(t)
    <2>1. CASE EnqueueAgentRoute(t)
      <3>1. PICK k \in ItemIds :
              /\ First(FreeItems, k)
              /\ inbox' = [inbox EXCEPT ![k] = [NoItem EXCEPT !.round = turn[t].round,
                                                    !.kind = "agent_result",
                                                    !.status = "pending",
                                                    !.source = t]]
        BY <2>1 DEF EnqueueAgentRoute
      <3>2. /\ turn' = turn /\ inbox[k].status = "none"
            /\ \A i \in ItemIds \ {k} : inbox'[i] = inbox[i]
        BY <1>0, <1>5, <3>1 DEF TailRoute, First, FreeItems, InboxTable
      <3>3. inbox'[k] = [NoItem EXCEPT !.round = turn[t].round, !.kind = "agent_result",
                                       !.status = "pending", !.source = t]
        BY <1>0, <3>1 DEF InboxTable
      <3>4. /\ inbox'[k].status = "pending" /\ inbox'[k].agent = Main
            /\ inbox'[k].batch = 0 /\ inbox'[k].turn = 0
        BY <3>3 DEF NoItem
      <3>5. Main \in Agents /\ Inbox!Post(k, Main)
        BY <3>2, <3>4, Posts DEF Agents
      <3> QED
        BY <3>5 DEF Inbox!Next
    <2>2. CASE inbox' = inbox
      BY <1>5, <2>2, RowsStay DEF TailRoute
    <2> QED
      BY <1>5, <2>1, <2>2 DEF TailRoute
  <1> QED
    BY <1>1, <1>2, <1>3, <1>4, <1>5 DEF TurnWrites

LEMMA MailSteps ==
  TypeInv /\ MailInv /\ [Next]_vars => [Inbox!Next]_Inbox!mailbox
  <1> SUFFICES ASSUME TypeInv, MailInv, [Next]_vars PROVE [Inbox!Next]_Inbox!mailbox
    OBVIOUS
  <1>1. ASSUME NEW x \in Threads, ScheduleClosedRound(x) PROVE Inbox!Next
    <2>1. PICK i \in ItemIds : inbox' = PendingCancelled(inbox[i].round)
      BY <1>1 DEF ScheduleClosedRound
    <2> QED
      BY <1>1, <2>1, Drops DEF ScheduleClosedRound
  <1> QED
    BY <1>1, MailWriters, RequestSteps, TurnSteps, Hands, Restarts, RowsStay DEF MailStep
-----------------------------------------------------------------------------
\* The runtime implements the mailbox: whatever schedulers, tails, live calls,
\* retries, interrupts and restarts do at the same time, an agent is given its
\* own messages only, a batch is answered at most once and tried again at most
\* once, after it failed, and what it was given is done with the batch or waits
\* again because a restart cut it off or its agent gave it back.
THEOREM RuntimeImplementsMailbox == Spec => ImplementsMailbox
  <1>1. Init => Inbox!Init
    <2> SUFFICES ASSUME Init PROVE Inbox!Init
      OBVIOUS
    <2>1. /\ \A t \in TurnIds : turn[t].status = "none"
          /\ \A i \in ItemIds : /\ inbox[i].status = "none" /\ inbox[i].batch = 0
                                /\ inbox[i].turn = 0
      BY DEF Init, StoreInit, NoTurn, NoItem
    <2>2. \A b \in TurnIds : Attempts(b) = {}
      BY <2>1 DEF Attempts
    <2>3. Fates = [b \in TurnIds |-> "none"]
      BY <2>2, FateNone DEF Fates
    <2>4. /\ Readers = [b \in TurnIds |-> NoOne] /\ Retried = {}
      BY <2>2 DEF Readers, Retried
    <2>5. /\ Addressees = [i \in ItemIds |-> NoOne] /\ BatchesOf = [i \in ItemIds |-> NoOne]
          /\ Places = [i \in ItemIds |-> "none"]
      BY <2>1 DEF Addressees, BatchesOf, BatchOf, Places, PlaceOf
    <2> QED
      BY <2>3, <2>4, <2>5 DEF Inbox!Init
  <1> QED
    BY <1>1, MailSteps, InitMail, NextMail, Typed, PTL
       DEF Spec, ImplementsMailbox, Inbox!Spec
=============================================================================
