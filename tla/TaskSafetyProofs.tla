-------------------------- MODULE TaskSafetyProofs --------------------------
(***************************************************************************)
(* The safety theorems about rounds, turns and the items of the inbox.     *)
(* They rest on the types (TaskRuntimeProofs) and on what a step writes:   *)
(* who writes the rounds, what a turn's row keeps, how the thread of a     *)
(* turn moves and how an item changes.                                     *)
(***************************************************************************)
EXTENDS TaskRuntimeProofs

-----------------------------------------------------------------------------
(* What a step writes *)

\* A step is one of the few that write rounds or turns, or writes neither.
RoundWriter == \/ \E r \in Requests : SubmitEnqueue(r) \/ InterruptRoundWrite(r)
               \/ \E t \in TurnIds : SettleRound(t)
               \/ Restart
TurnWriter == \/ \E x \in Threads : ScheduleClaim(x)
              \/ \E t \in TurnIds : \/ Advance(t) \/ PrepareFail(t) \/ TailRetry(t)
                                    \/ \E s \in TurnTerminal, b \in BOOLEAN : Finish(t, s, b)
              \/ Restart

LEMMA Writers ==
  ASSUME [Next]_vars
  PROVE  /\ round' = round \/ RoundWriter
         /\ turn' = turn \/ TurnWriter
  <1> USE DEF storeVars
  <1>1. ASSUME NEW r \in Requests, Handler(r)
        PROVE  /\ round' = round \/ RoundWriter
               /\ turn' = turn
    <2>1. CASE OwnerStep(r)
      BY <2>1 DEF OwnerStep, Prepare, SubmitRecheck, SubmitEnqueue, CompleteWrite,
                  ReopenWrite, InterruptRoundWrite, InterruptRoundInbox,
                  InterruptRoundTask, InterruptRoundCancel, RoundWriter
    <2>2. CASE LiveStep(r)
      BY <2>2 DEF LiveStep, LiveClaim, LiveWait, LiveWaitTimeout, LiveAck
    <2> QED
      BY <1>1, <2>1, <2>2 DEF Handler, StartTask, Submit, CompleteTask, ReopenTask,
                              InterruptRound, LiveCall, LiveAckCall, Disconnect
  <1>2. ASSUME NEW t \in TurnIds, TurnStep(t)
        PROVE  /\ round' = round \/ RoundWriter
               /\ turn' = turn \/ TurnWriter
    <2> USE DEF RunRest, TailRest, SettleRest
    <2>1. CASE Succeed(t) \/ Fail(t) \/ Interrupted(t)
      BY <2>1 DEF Succeed, Fail, Interrupted, Finish, TurnTerminal, TurnWriter
    <2>2. CASE \/ Advance(t) \/ AdvanceCancelled(t) \/ PrepareFail(t)
               \/ TailProcessed(t) \/ TailSweep(t) \/ TailRetry(t) \/ TailNoRetry(t)
               \/ TailRoute(t) \/ TailFanIn(t) \/ TailAborted(t)
      BY <2>2 DEF Advance, AdvanceCancelled, PrepareFail, TailProcessed, TailSweep,
                  TailRetry, TailNoRetry, TailRoute, TailFanIn, FanIn, TailAborted,
                  TurnWriter
    <2>3. CASE \/ SettleNot(t) \/ SettleBegin(t) \/ SettlePending(t)
               \/ SettleRound(t) \/ SettleTask(t)
      BY <2>3 DEF SettleNot, SettleBegin, SettlePending, SettleRound, SettleTask,
                  RoundWriter
    <2> QED
      BY <1>2, <2>1, <2>2, <2>3 DEF TurnStep
  <1>3. ASSUME NEW x \in Threads, ScheduleAgent(x)
        PROVE  round' = round /\ (turn' = turn \/ TurnWriter)
    BY <1>3 DEF ScheduleAgent, ScheduleNothing, ScheduleClosedRound, ScheduleRead,
                ScheduleClaim, ScheduleRefused, TurnWriter
  <1>4. CASE \/ MergeFires \/ MergeFanIn \/ Shutdown \/ Stop \/ Crash \/ BootStep
             \/ \E t \in TurnIds : InterruptTurn(t)
    BY <1>4 DEF MergeFires, MergeFanIn, FanIn, TailRest, Shutdown, Stop, Crash, Stopped,
                BootStep, ResumeNext, ResumeDone, InterruptTurn,
                RoundWriter, TurnWriter
  <1>5. CASE UNCHANGED vars
    BY <1>5 DEF vars
  <1> QED
    BY <1>1, <1>2, <1>3, <1>4, <1>5 DEF Next

\* A step opens a round when none is open, or closes open ones.
LEMMA RoundMoves ==
  ASSUME TypeInv, [Next]_vars
  PROVE  \/ /\ OpenRounds = {}
            /\ \E r \in FreeRounds : round' = [round EXCEPT ![r] = "running"]
         \/ \A r \in RoundIds : \/ round'[r] = round[r]
                                \/ round[r] \in RoundOpen /\ round'[r] \notin RoundOpen
  <1>1. ASSUME NEW r \in Requests, SubmitEnqueue(r)
        PROVE  \/ round' = round
               \/ /\ OpenRounds = {}
                  /\ \E k \in FreeRounds : round' = [round EXCEPT ![k] = "running"]
    BY <1>1 DEF SubmitEnqueue, EnqueueUserMessage, First
  <1>2. ASSUME NEW r \in Requests, InterruptRoundWrite(r), NEW k \in RoundIds
        PROVE  \/ round'[k] = round[k]
               \/ round[k] \in RoundOpen /\ round'[k] \notin RoundOpen
    BY <1>2 DEF InterruptRoundWrite, TypeInv, RoundTable, RoundOpen
  <1>3. ASSUME NEW t \in TurnIds, SettleRound(t), NEW k \in RoundIds
        PROVE  \/ round'[k] = round[k]
               \/ round[k] \in RoundOpen /\ round'[k] \notin RoundOpen
    <2>1. th[t].verdict \in RoundTerminal \cup {"none"}
      BY ThreadKinds DEF TypeInv, ThreadTable, ThreadStates
    <2> QED
      BY <1>3, <2>1 DEF SettleRound, TypeInv, RoundTable, RoundOpen, RoundTerminal
  <1>4. ASSUME Restart, NEW k \in RoundIds
        PROVE  \/ round'[k] = round[k]
               \/ round[k] \in RoundOpen /\ round'[k] \notin RoundOpen
    BY <1>4 DEF Restart, RecoverInterrupted, RoundOpen
  <1> QED
    BY <1>1, <1>2, <1>3, <1>4, Writers DEF RoundWriter

\* Two open rounds never coexist, although messages arrive, rounds are settled
\* and rounds are interrupted concurrently.
THEOREM OneRoundAtATime == Spec => []OneOpenRound
  <1>1. Init => OneOpenRound
    BY DEF Init, StoreInit, OneOpenRound, OpenRounds, RoundOpen
  <1>2. TypeInv /\ OneOpenRound /\ [Next]_vars => OneOpenRound'
    <2> SUFFICES ASSUME TypeInv, OneOpenRound, [Next]_vars,
                        NEW r \in RoundIds, NEW s \in RoundIds,
                        round'[r] \in RoundOpen, round'[s] \in RoundOpen
                 PROVE  r = s
      BY DEF OneOpenRound, OpenRounds
    <2>1. CASE /\ OpenRounds = {}
               /\ \E k \in FreeRounds : round' = [round EXCEPT ![k] = "running"]
      BY <2>1 DEF OpenRounds, TypeInv, RoundTable
    <2>2. CASE \A k \in RoundIds : \/ round'[k] = round[k]
                                   \/ round[k] \in RoundOpen /\ round'[k] \notin RoundOpen
      BY <2>2 DEF OneOpenRound, OpenRounds
    <2> QED
      BY <2>1, <2>2, RoundMoves
  <1> QED
    BY <1>1, <1>2, Typed, PTL DEF Spec

\* A closed round keeps its verdict, whoever else tries to close it.
THEOREM VerdictIsFinal == Spec => RoundClosedOnce
  <1>1. ASSUME TypeInv, [Next]_vars
        PROVE  [\A r \in RoundIds : round[r] \in RoundTerminal => round'[r] = round[r]]_vars
    <2> SUFFICES ASSUME NEW r \in RoundIds, round[r] \in RoundTerminal
                 PROVE  round'[r] = round[r]
      OBVIOUS
    <2>1. round[r] \notin RoundOpen /\ round[r] # "none"
      BY DEF RoundTerminal, RoundOpen
    <2> QED
      BY <1>1, <2>1, RoundMoves DEF FreeRounds, TypeInv, RoundTable
  <1> QED
    BY <1>1, Typed, PTL DEF Spec, RoundClosedOnce
-----------------------------------------------------------------------------
(* What a turn's row keeps, and how its thread moves *)

Inserted(t) == turn[t].status # "none"

\* A row, once inserted, keeps its key, its agent, its round, its batch and its
\* attempt, and a final status is final; a row is inserted by a claim or by a
\* retry, and then its goroutine starts.
LEMMA RowsKept ==
  ASSUME TypeInv, [Next]_vars, NEW t \in TurnIds, Inserted(t)
  PROVE  /\ turn'[t].agent = turn[t].agent /\ turn'[t].round = turn[t].round
         /\ turn'[t].batch = turn[t].batch /\ turn'[t].attempt = turn[t].attempt
         /\ Inserted(t)'
         /\ turn[t].status \in TurnTerminal => turn'[t].status = turn[t].status
  <1> USE DEF Inserted
  <1>0. turn \in TurnTable /\ turn[t] \in Turns
    BY DEF TypeInv, TurnTable
  <1>1. ASSUME NEW x \in Threads, ScheduleClaim(x) PROVE turn'[t] = turn[t]
    <2>1. PICK u \in TurnIds, i \in ItemIds :
            ClaimInboxAndCreateTurn(th[x].agent, inbox[i].round, th[x].items, u)
      BY <1>1 DEF ScheduleClaim
    <2> QED
      BY <1>0, <2>1 DEF ClaimInboxAndCreateTurn, First, FreeTurns, TurnTable
  <1>2. ASSUME NEW u \in TurnIds, TailRetry(u) PROVE turn'[t] = turn[t]
    <2>1. PICK n \in TurnIds : CreateRetry(u, n)
      BY <1>2 DEF TailRetry
    <2> QED
      BY <1>0, <2>1 DEF CreateRetry, First, FreeTurns, TurnTable
  <1>3. ASSUME NEW u \in TurnIds, NEW s \in TurnStatus, NEW b \in BOOLEAN,
               \/ turn' = TurnUpdated(u, s)
               \/ turn' = [turn EXCEPT ![u].status = s, ![u].retryable = b],
               turn[u].status \notin TurnTerminal
        PROVE  /\ turn'[t].agent = turn[t].agent /\ turn'[t].round = turn[t].round
               /\ turn'[t].batch = turn[t].batch /\ turn'[t].attempt = turn[t].attempt
               /\ Inserted(t)'
               /\ turn[t].status \in TurnTerminal => turn'[t].status = turn[t].status
    BY <1>0, <1>3 DEF TurnUpdated, TurnTable, Turns, TurnStatus
  <1>4. ASSUME NEW u \in TurnIds, Advance(u)
        PROVE  /\ turn' = TurnUpdated(u, NextStatus(turn[u].status))
               /\ NextStatus(turn[u].status) \in TurnStatus
               /\ turn[u].status \notin TurnTerminal
    BY <1>4 DEF Advance, NextStatus, StartingUp, TurnStatus, TurnTerminal
  <1>5. ASSUME NEW u \in TurnIds, PrepareFail(u)
        PROVE  /\ turn' = TurnUpdated(u, "failed") /\ "failed" \in TurnStatus
               /\ turn[u].status \notin TurnTerminal
    BY <1>5 DEF PrepareFail, TurnStatus, TurnTerminal
  <1>6. ASSUME NEW u \in TurnIds, NEW s \in TurnTerminal, NEW b \in BOOLEAN,
               Finish(u, s, b)
        PROVE  /\ turn' = [turn EXCEPT ![u].status = s, ![u].retryable = b]
               /\ s \in TurnStatus /\ turn[u].status \notin TurnTerminal
    BY <1>6 DEF Finish, TurnStatus, TurnTerminal
  <1>7. ASSUME Restart
        PROVE  \/ turn'[t] = turn[t]
               \/ /\ turn'[t] = [turn[t] EXCEPT !.status = "interrupted"]
                  /\ turn[t].status \notin TurnTerminal
    BY <1>7 DEF Restart, RecoverInterrupted, ActiveTurns, TurnActive, TurnTerminal
  <1> QED
    <2>1. CASE turn'[t] = turn[t]
      BY <2>1
    <2>2. CASE Restart
      BY <1>0, <1>7, <2>2 DEF Turns
    <2>3. CASE \E u \in TurnIds : Advance(u) \/ PrepareFail(u)
      BY <1>3, <1>4, <1>5, <2>3
    <2>4. CASE \E u \in TurnIds, s \in TurnTerminal, b \in BOOLEAN : Finish(u, s, b)
      <3>1. PICK u \in TurnIds, s \in TurnTerminal, b \in BOOLEAN : Finish(u, s, b)
        BY <2>4
      <3>2. /\ turn' = [turn EXCEPT ![u].status = s, ![u].retryable = b]
            /\ s \in TurnStatus /\ turn[u].status \notin TurnTerminal
        BY <1>6, <3>1
      <3> QED
        BY <1>3, <3>2
    <2> QED
      BY <1>1, <1>2, <2>1, <2>2, <2>3, <2>4, Writers DEF TurnWriter

\* A thread moves by its own steps, is emptied when the process ends, or is the
\* goroutine of a turn and starts with the row of the turn.
Starts(x) == /\ x \in TurnIds /\ turn[x].status = "none" /\ turn'[x].status = "queued"
             /\ th'[x] = NewRun

LEMMA AnyThread ==
  ASSUME TypeInv, [Next]_vars, NEW x \in Threads
  PROVE  \/ th'[x] = th[x]
         \/ Stopped /\ th'[x] = Idle
         \/ ScheduleAgent(x) \/ Starts(x)
         \/ x \in Requests /\ Handler(x)
         \/ x \in TurnIds /\ TurnStep(x)
         \/ x = MergeTimer /\ (MergeFires \/ MergeFanIn)
         \/ x = Boot /\ BootStep
  <1>0. th \in ThreadTable /\ turn \in TurnTable /\ TurnIds \subseteq Threads
    BY ThreadKinds DEF TypeInv
  <1>1. ASSUME NEW r \in Requests, Handler(r), r # x PROVE th'[x] = th[x]
    <2>1. CASE OwnerStep(r)
      BY <1>0, <1>1, <2>1 DEF OwnerStep, Prepare, SubmitRecheck, SubmitEnqueue,
                  CompleteWrite, ReopenWrite, InterruptRoundWrite, InterruptRoundInbox,
                  InterruptRoundTask, InterruptRoundCancel, Goto, Exit, Schedule, ThreadTable
    <2>2. CASE LiveStep(r)
      BY <1>0, <1>1, <2>2 DEF LiveStep, LiveClaim, LiveWait, LiveWaitTimeout, LiveAck,
                  Exit, ThreadTable
    <2> QED
      BY <1>0, <1>1, <2>1, <2>2 DEF Handler, StartTask, Submit, CompleteTask, ReopenTask,
                  InterruptRound, LiveCall, LiveAckCall, Disconnect, Goto, Exit, ThreadTable
  <1>2. ASSUME NEW u \in TurnIds, TurnStep(u), u # x
        PROVE  th'[x] = th[x] \/ Starts(x)
    <2>1. CASE TailRetry(u)
      <3>1. PICK n \in TurnIds :
              CreateRetry(u, n) /\ th' = [th EXCEPT ![u].pc = "settle", ![n] = NewRun]
        BY <2>1 DEF TailRetry
      <3>2. CASE n = x
        <4>1. turn[x].status = "none" /\ turn'[x].status = "queued"
          BY <1>0, <3>1, <3>2 DEF CreateRetry, First, FreeTurns, TurnTable, Turns
        <4> QED
          BY <1>0, <3>1, <3>2, <4>1 DEF ThreadTable, Starts
      <3> QED
        BY <1>0, <1>2, <3>1, <3>2 DEF ThreadTable
    <2>2. CASE \/ Advance(u) \/ AdvanceCancelled(u) \/ PrepareFail(u)
               \/ Succeed(u) \/ Fail(u) \/ Interrupted(u)
               \/ TailProcessed(u) \/ TailSweep(u) \/ TailNoRetry(u)
               \/ TailRoute(u) \/ TailFanIn(u) \/ TailAborted(u)
      BY <1>0, <1>2, <2>2
         DEF Advance, AdvanceCancelled, PrepareFail, Succeed, Fail, Interrupted, Finish,
             TailProcessed, TailSweep, TailNoRetry, TailRoute, TailFanIn, FanIn,
             TailAborted, Goto, Exit, Schedule, ThreadTable
    <2>3. CASE \/ SettleNot(u) \/ SettleBegin(u) \/ SettlePending(u)
               \/ SettleRound(u) \/ SettleTask(u)
      BY <1>0, <1>2, <2>3 DEF SettleNot, SettleBegin, SettlePending, SettleRound,
                              SettleTask, Goto, Exit, ThreadTable
    <2> QED
      BY <1>2, <2>1, <2>2, <2>3 DEF TurnStep
  <1>3. ASSUME NEW y \in Threads, ScheduleAgent(y), y # x
        PROVE  th'[x] = th[x] \/ Starts(x)
    <2>1. CASE ScheduleClaim(y)
      <3>1. PICK n \in TurnIds, i \in ItemIds :
              /\ ClaimInboxAndCreateTurn(th[y].agent, inbox[i].round, th[y].items, n)
              /\ th' = [th EXCEPT ![y] = Back(y), ![n] = NewRun]
        BY <2>1 DEF ScheduleClaim
      <3>2. CASE n = x
        <4>1. turn[x].status = "none"
          BY <3>1, <3>2 DEF ClaimInboxAndCreateTurn, First, FreeTurns
        <4>2. turn'[x].status = "queued"
          <5>1. PICK g \in 0..MaxTurns :
                  turn' = [turn EXCEPT ![n] =
                             [agent |-> th[y].agent, round |-> inbox[i].round,
                              status |-> "queued", attempt |-> 1, generation |-> g,
                              batch |-> n, retryable |-> FALSE]]
            BY <3>1 DEF ClaimInboxAndCreateTurn
          <5> QED
            BY <1>0, <3>2, <5>1 DEF TurnTable
        <4> QED
          BY <1>0, <3>1, <3>2, <4>1, <4>2 DEF ThreadTable, Starts
      <3> QED
        BY <1>0, <1>3, <3>1, <3>2 DEF ThreadTable
    <2> QED
      BY <1>0, <1>3, <2>1 DEF ScheduleAgent, ScheduleNothing, ScheduleClosedRound,
                              ScheduleRead, ScheduleRefused, Return, ThreadTable
  <1>4. ASSUME \/ Shutdown
               \/ Restart /\ x # Boot
               \/ \E u \in TurnIds : InterruptTurn(u)
               \/ (MergeFires \/ MergeFanIn) /\ x # MergeTimer
               \/ (ResumeNext \/ ResumeDone) /\ x # Boot
        PROVE  th'[x] = th[x]
    BY <1>0, <1>4 DEF MergeFires, MergeFanIn, FanIn, Shutdown, Restart, ResumeNext,
                ResumeDone, InterruptTurn, procVars, Schedule, Exit, ThreadTable
  <1>5. ASSUME Stop \/ Crash PROVE Stopped /\ th'[x] = Idle
    <2>1. Stopped
      BY <1>5 DEF Stop, Crash
    <2>2. th' = [y \in Threads |-> Idle]
      BY <2>1 DEF Stopped
    <2> QED
      BY <2>1, <2>2
  <1> QED
    <2>1. CASE \E r \in Requests : Handler(r)
      BY <1>1, <2>1
    <2>2. CASE \E u \in TurnIds : TurnStep(u)
      BY <1>2, <2>2
    <2>3. CASE \E y \in Threads : ScheduleAgent(y)
      BY <1>3, <2>3
    <2>4. CASE MergeFires \/ MergeFanIn \/ BootStep
      BY <1>4, <2>4 DEF BootStep
    <2>5. CASE Shutdown \/ \E u \in TurnIds : InterruptTurn(u)
      BY <1>4, <2>5
    <2>6. CASE Stop \/ Crash
      BY <1>5, <2>6
    <2>7. CASE UNCHANGED vars
      BY <2>7 DEF vars, procVars
    <2> QED
      BY <2>1, <2>2, <2>3, <2>4, <2>5, <2>6, <2>7 DEF Next

\* The thread of a turn, in particular.
LEMMA TurnThread ==
  ASSUME TypeInv, [Next]_vars, NEW t \in TurnIds
  PROVE  \/ th'[t] = th[t]
         \/ Stopped /\ th'[t] = Idle
         \/ TurnStep(t) \/ ScheduleAgent(t)
         \/ /\ turn[t].status = "none" /\ turn'[t].status = "queued"
            /\ th'[t] = NewRun
  <1>1. t \in Threads /\ t \notin Requests /\ t # Boot /\ t # MergeTimer
    BY ThreadKinds, ThreadsAssumption
  <1> QED
    BY <1>1, AnyThread DEF Starts
-----------------------------------------------------------------------------
(* A completed round has a reply *)

HasReply(r) == \E u \in TurnsOf(r) : turn[u].agent = Main /\ turn[u].status = "succeeded"

\* CompletedRoundHasReply is not inductive: settleRound judges in one step and
\* writes two steps later.  The verdict a goroutine carries is still true when
\* it is written, since the row it was judged by is final.
Running(t)  == th[t].pc # "idle" => Inserted(t)
Judged(t)   == /\ th[t].pc \in {"settle_pending", "settle_round"}
               /\ th[t].verdict = "completed"
               => HasReply(turn[t].round)
ReplyInv == /\ CompletedRoundHasReply
            /\ \A t \in TurnIds : Running(t) /\ Judged(t)

LEMMA InitReply == Init => ReplyInv
  <1> SUFFICES ASSUME Init PROVE ReplyInv
    OBVIOUS
  <1>1. CompletedRoundHasReply
    BY DEF Init, StoreInit, CompletedRoundHasReply
  <1>2. ASSUME NEW t \in TurnIds PROVE th[t].pc = "idle"
    BY ThreadKinds DEF Init, Idle
  <1> QED
    BY <1>1, <1>2 DEF ReplyInv, Running, Judged

LEMMA ReplyKept ==
  ASSUME TypeInv, [Next]_vars, NEW r, HasReply(r)
  PROVE  HasReply(r)'
  <1>1. PICK u \in TurnIds : /\ Inserted(u) /\ turn[u].round = r
                             /\ turn[u].agent = Main /\ turn[u].status = "succeeded"
    BY DEF HasReply, TurnsOf, Inserted
  <1>2. /\ turn'[u].agent = Main /\ turn'[u].round = r
        /\ turn'[u].status = "succeeded"
    BY <1>1, RowsKept DEF TurnTerminal
  <1> QED
    BY <1>2 DEF HasReply, TurnsOf

LEMMA RunningKept ==
  ASSUME TypeInv, [Next]_vars, NEW t \in TurnIds, Running(t)
  PROVE  Running(t)'
  <1>1. CASE th'[t] = Idle
    BY <1>1 DEF Running, Idle
  <1>2. CASE turn'[t].status = "queued"
    BY <1>2 DEF Running, Inserted
  <1>3. CASE th'[t] = th[t]
    BY <1>3, RowsKept DEF Running
  <1>4. CASE TurnStep(t) \/ ScheduleAgent(t)
    <2>1. th[t].pc # "idle"
      BY <1>4 DEF TurnStep, Advance, AdvanceCancelled, PrepareFail, Succeed, Fail,
                  Interrupted, Finish, TailProcessed, TailSweep, TailRetry, TailNoRetry,
                  TailRoute, TailFanIn, FanIn, TailAborted, SettleNot, SettleBegin,
                  SettlePending, SettleRound, SettleTask, ScheduleAgent,
                  ScheduleNothing, ScheduleClosedRound, ScheduleRead, ScheduleClaim,
                  ScheduleRefused, EnterSchedule, At
    <2> QED
      BY <2>1, RowsKept DEF Running
  <1> QED
    BY <1>1, <1>2, <1>3, <1>4, TurnThread

\* Only settleRound brings a goroutine to the labels between its verdict and
\* its write, and it leaves them with the verdict it came with.
LEMMA JudgingThread ==
  ASSUME TypeInv, [Next]_vars, NEW t \in TurnIds,
         th'[t].pc \in {"settle_pending", "settle_round"},
         th'[t].verdict = "completed"
  PROVE  \/ /\ th[t].pc \in {"settle_pending", "settle_round"}
            /\ th[t].verdict = "completed"
         \/ /\ th[t].pc = "settle" /\ turn' = turn
            /\ Verdict(turn[t].round) = "completed"
  <1>0. /\ t \in Threads /\ th \in ThreadTable
        /\ th'[t] # Idle /\ th'[t] # NewRun
    BY ThreadKinds DEF TypeInv, Idle, NewRun
  <1>1. CASE TurnStep(t)
    <2>1. CASE TailRetry(t)
      <3>1. PICK n \in TurnIds :
              CreateRetry(t, n) /\ th' = [th EXCEPT ![t].pc = "settle", ![n] = NewRun]
        BY <2>1 DEF TailRetry
      <3>2. th'[t] = NewRun \/ th'[t] = [th[t] EXCEPT !.pc = "settle"]
        BY <1>0, <3>1 DEF ThreadTable
      <3>3. th'[t].pc = "settle"
        BY <1>0, <3>2 DEF ThreadTable, ThreadStates
      <3> QED
        BY <3>3
    <2>2. CASE TailRoute(t)
      <3>1. \E a, l : Schedule(t, a, l)
        BY <2>2 DEF TailRoute
      <3>2. th'[t].pc = "schedule"
        BY <1>0, <3>1 DEF Schedule, Idle, ThreadTable
      <3> QED
        BY <3>2
    <2>7. CASE TailFanIn(t)
      <3>1. CASE Schedule(t, Main, "settle")
        <4>1. th'[t].pc = "schedule"
          BY <1>0, <3>1 DEF Schedule, Idle, ThreadTable
        <4> QED
          BY <4>1
      <3>2. CASE th' = [th EXCEPT ![t] = [@ EXCEPT !.pc = "settle"]]
        <4>1. th'[t].pc = "settle"
          BY <1>0, <3>2 DEF ThreadTable, ThreadStates
        <4> QED
          BY <4>1
      <3> QED
        BY <2>7, <3>1, <3>2 DEF TailFanIn, FanIn
    <2>3. CASE \/ Advance(t) \/ AdvanceCancelled(t) \/ PrepareFail(t)
               \/ Succeed(t) \/ Fail(t) \/ Interrupted(t)
               \/ TailProcessed(t) \/ TailSweep(t) \/ TailNoRetry(t) \/ TailAborted(t)
      BY <1>0, <2>3
         DEF Advance, AdvanceCancelled, PrepareFail, Succeed, Fail, Interrupted, Finish,
             TailProcessed, TailSweep, TailNoRetry, TailAborted, At, Goto, Exit,
             ThreadTable, ThreadStates
    <2>4. CASE SettleBegin(t)
      BY <1>0, <2>4 DEF SettleBegin, SettleRest, At, ThreadTable, ThreadStates
    <2>5. CASE SettlePending(t)
      BY <1>0, <2>5 DEF SettlePending, At, Goto, Exit, ThreadTable, ThreadStates
    <2>6. CASE SettleNot(t) \/ SettleRound(t) \/ SettleTask(t)
      BY <1>0, <2>6 DEF SettleNot, SettleRound, SettleTask, Exit, ThreadTable, ThreadStates
    <2> QED
      BY <1>1, <2>1, <2>2, <2>3, <2>4, <2>5, <2>6, <2>7 DEF TurnStep
  <1>2. CASE ScheduleAgent(t)
    <2>1. Back(t).verdict = "none"
      BY DEF Back, Idle
    <2>2. CASE ScheduleClaim(t)
      <3>1. PICK n \in TurnIds, i \in ItemIds :
              th' = [th EXCEPT ![t] = Back(t), ![n] = NewRun]
        BY <2>2 DEF ScheduleClaim
      <3> QED
        BY <1>0, <2>1, <3>1 DEF ThreadTable
    <2> QED
      BY <1>0, <1>2, <2>1, <2>2 DEF ScheduleAgent, ScheduleNothing, ScheduleClosedRound,
           ScheduleRead, ScheduleRefused, Return, ThreadTable, ThreadStates
  <1> QED
    BY <1>0, <1>1, <1>2, TurnThread

LEMMA NextReply == TypeInv /\ ReplyInv /\ [Next]_vars => ReplyInv'
  <1> SUFFICES ASSUME TypeInv, ReplyInv, [Next]_vars PROVE ReplyInv'
    OBVIOUS
  <1>1. ASSUME NEW t \in TurnIds PROVE Running(t)' /\ Judged(t)'
    <2>1. Running(t) /\ Judged(t)
      BY DEF ReplyInv
    <2>2. Running(t)'
      BY <2>1, RunningKept
    <2>3. SUFFICES ASSUME th'[t].pc \in {"settle_pending", "settle_round"},
                          th'[t].verdict = "completed"
                   PROVE  HasReply(turn[t].round)'
      BY <2>2 DEF Judged
    <2>4. th[t].pc # "idle" /\ HasReply(turn[t].round)
      <3>1. CASE /\ th[t].pc \in {"settle_pending", "settle_round"}
                 /\ th[t].verdict = "completed"
        BY <2>1, <3>1 DEF Judged
      <3>2. CASE th[t].pc = "settle" /\ Verdict(turn[t].round) = "completed"
        BY <3>2 DEF Verdict, LatestTurn, HasReply
      <3> QED
        BY <2>3, <3>1, <3>2, JudgingThread
    <2>5. turn'[t].round = turn[t].round
      BY <2>1, <2>4, RowsKept DEF Running
    <2> QED
      BY <2>4, <2>5, ReplyKept
  <1>2. ASSUME NEW r \in RoundIds, round'[r] = "completed" PROVE HasReply(r)'
    <2>1. CASE round[r] = "completed"
      BY <2>1, ReplyKept DEF ReplyInv, CompletedRoundHasReply, HasReply
    <2>2. CASE round[r] # "completed"
      <3>1. ASSUME NEW q \in Requests, SubmitEnqueue(q) \/ InterruptRoundWrite(q)
            PROVE  FALSE
        BY <1>2, <2>2, <3>1 DEF SubmitEnqueue, EnqueueUserMessage, InterruptRoundWrite,
                                TypeInv, RoundTable
      <3>2. ASSUME Restart PROVE FALSE
        BY <1>2, <2>2, <3>2 DEF Restart, RecoverInterrupted
      <3>3. ASSUME NEW t \in TurnIds, SettleRound(t) PROVE HasReply(r)'
        <4>1. r = turn[t].round /\ th[t].verdict = "completed" /\ th[t].pc = "settle_round"
          BY <1>2, <2>2, <3>3 DEF SettleRound, At, TypeInv, RoundTable
        <4> QED
          BY <4>1, ReplyKept DEF ReplyInv, Judged
      <3> QED
        BY <1>2, <2>2, <3>1, <3>2, <3>3, Writers DEF RoundWriter
    <2> QED
      BY <2>1, <2>2
  <1> QED
    BY <1>1, <1>2 DEF ReplyInv, CompletedRoundHasReply, HasReply

\* A round is called completed only if Main answered in it, in spite of the
\* steps other threads take between settleRound's reads and its write.
THEOREM CompletedMeansAnswered == Spec => []CompletedRoundHasReply
  <1>1. ReplyInv => CompletedRoundHasReply
    BY DEF ReplyInv
  <1> QED
    BY <1>1, InitReply, NextReply, Typed, PTL DEF Spec
-----------------------------------------------------------------------------
(* A batch is run at most twice *)

\* RetryOnce is not inductive: retryTurn looks at the attempt of its own turn
\* only, so what keeps it from running a batch a third time is that the thread
\* of a first attempt leaves the tail once it has made the second one.
Early == {"run", "processed", "sweep", "retry"}

\* Where scheduleAgent may return to in the goroutine of a turn.
Returns == {"idle", "fan_in", "settle"}

FirstAttempt(t) == /\ turn[t].batch \in TurnIds /\ Inserted(turn[t].batch)
                   /\ turn[t].attempt # 0
                   /\ turn[t].attempt = 1 => turn[t].batch = t
Alone(t)        == th[t].pc \in Early /\ turn[t].attempt = 1 =>
                     \A u \in TurnIds :
                       Inserted(u) /\ turn[u].batch = turn[t].batch => u = t
BatchInv == /\ RetryOnce
            /\ \A t \in TurnIds : /\ Running(t) /\ th[t].then \in Returns
                                  /\ Inserted(t) => FirstAttempt(t) /\ Alone(t)

LEMMA InitBatch == Init => BatchInv
  <1> SUFFICES ASSUME Init PROVE BatchInv
    OBVIOUS
  <1>1. ASSUME NEW t \in TurnIds
        PROVE  /\ ~ Inserted(t)
               /\ th[t].pc = "idle" /\ th[t].then = "idle"
    BY ThreadKinds DEF Init, StoreInit, NoTurn, Inserted, Idle
  <1> QED
    BY <1>1 DEF BatchInv, RetryOnce, Running, Inserted, Returns

\* A thread of a turn reaches an early label from an early one, or by starting,
\* and it goes to the routing of its outcome when there is nothing to retry.
LEMMA EarlyThread ==
  ASSUME TypeInv, [Next]_vars, NEW t \in TurnIds, th[t].then \in Returns
  PROVE  /\ th'[t].then \in Returns
         /\ th'[t].pc \in Early => \/ th[t].pc \in Early /\ ~ TailRetry(t)
                                   \/ turn[t].status = "none"
         /\ th'[t].pc = "route" => th[t].pc = "route" \/ TailNoRetry(t)
  <1> USE DEF Early, Returns
  <1>0. t \in Threads /\ th \in ThreadTable
    BY ThreadKinds DEF TypeInv
  <1>1. CASE TurnStep(t)
    <2>1. CASE TailRetry(t)
      <3>1. PICK n \in TurnIds :
              CreateRetry(t, n) /\ th' = [th EXCEPT ![t].pc = "settle", ![n] = NewRun]
        BY <2>1 DEF TailRetry
      <3>2. n # t
        BY <2>1, <3>1 DEF TailRetry, Retryable, CreateRetry, First, FreeTurns
      <3>3. th'[t] = [th[t] EXCEPT !.pc = "settle"]
        BY <1>0, <3>1, <3>2 DEF ThreadTable
      <3>4. th'[t].pc = "settle" /\ th'[t].then = th[t].then
        BY <1>0, <3>3 DEF ThreadTable, ThreadStates
      <3> QED
        BY <3>4
    <2>2. CASE TailRoute(t)
      <3>1. \E a, l : l \in {"fan_in", "settle"} /\ Schedule(t, a, l)
        BY <2>2 DEF TailRoute
      <3>2. th'[t].pc = "schedule" /\ th'[t].then \in {"fan_in", "settle"}
        BY <1>0, <3>1 DEF Schedule, Idle, ThreadTable
      <3> QED
        BY <3>2
    <2>5. CASE TailFanIn(t)
      <3>1. CASE Schedule(t, Main, "settle")
        BY <1>0, <3>1 DEF Schedule, Idle, ThreadTable
      <3>2. CASE th' = [th EXCEPT ![t] = [@ EXCEPT !.pc = "settle"]]
        BY <1>0, <3>2 DEF ThreadTable, ThreadStates
      <3> QED
        BY <2>5, <3>1, <3>2 DEF TailFanIn, FanIn
    <2>3. CASE \/ Advance(t) \/ AdvanceCancelled(t) \/ PrepareFail(t)
               \/ Succeed(t) \/ Fail(t) \/ Interrupted(t)
               \/ TailProcessed(t) \/ TailSweep(t) \/ TailNoRetry(t) \/ TailAborted(t)
      <3>1. ~ TailRetry(t)
        BY <2>3 DEF Advance, AdvanceCancelled, PrepareFail, Succeed, Fail, Interrupted,
             Finish, TailProcessed, TailSweep, TailNoRetry, TailAborted, TailRetry, At,
             ContextOK
      <3> QED
        BY <1>0, <2>3, <3>1
           DEF Advance, AdvanceCancelled, PrepareFail, Succeed, Fail, Interrupted, Finish,
             TailProcessed, TailSweep, TailNoRetry, TailAborted, At, Goto, Exit, Idle,
             ThreadTable, ThreadStates
    <2>4. CASE \/ SettleNot(t) \/ SettleBegin(t) \/ SettlePending(t)
               \/ SettleRound(t) \/ SettleTask(t)
      BY <1>0, <2>4 DEF SettleNot, SettleBegin, SettlePending, SettleRound, SettleTask,
                        Goto, Exit, Idle, ThreadTable, ThreadStates
    <2> QED
      BY <1>1, <2>1, <2>2, <2>3, <2>4, <2>5 DEF TurnStep
  <1>2. CASE ScheduleAgent(t)
    <2>1. Back(t).pc \in Returns /\ Back(t).then \in Returns
      BY DEF Back, Idle
    <2>2. CASE ScheduleClaim(t)
      <3>1. PICK n \in TurnIds, i \in ItemIds :
              /\ ClaimInboxAndCreateTurn(th[t].agent, inbox[i].round, th[t].items, n)
              /\ th' = [th EXCEPT ![t] = Back(t), ![n] = NewRun]
        BY <2>2 DEF ScheduleClaim
      <3>2. n = t => turn[t].status = "none"
        BY <3>1 DEF ClaimInboxAndCreateTurn, First, FreeTurns
      <3> QED
        BY <1>0, <2>1, <3>1, <3>2 DEF ThreadTable, NewRun, Idle
    <2> QED
      BY <1>0, <1>2, <2>1, <2>2 DEF ScheduleAgent, ScheduleNothing, ScheduleClosedRound,
           ScheduleRead, ScheduleRefused, Return, ThreadTable, ThreadStates
  <1>3. CASE th'[t] = Idle \/ (turn[t].status = "none" /\ th'[t] = NewRun)
    BY <1>3 DEF NewRun, Idle
  <1>4. CASE th'[t] = th[t] /\ ~ TailRetry(t)
    BY <1>4
  <1> QED
    BY <1>1, <1>2, <1>3, <1>4, TurnThread DEF TurnStep

\* A new row is the first attempt of a batch of its own, or the second one of
\* a batch whose first attempt leaves for settleRound in the same step.
LEMMA NewRow ==
  ASSUME TypeInv, [Next]_vars, NEW t \in TurnIds, ~ Inserted(t), Inserted(t)'
  PROVE  /\ \A u \in TurnIds \ {t} : turn'[u] = turn[u]
         /\ \/ turn'[t].attempt = 1 /\ turn'[t].batch = t
            \/ \E u \in TurnIds \ {t} :
                 /\ TailRetry(u) /\ th[u].pc = "retry"
                 /\ turn[u].attempt \in {0, 1}
                 /\ turn'[t].attempt = turn[u].attempt + 1
                 /\ turn'[t].batch = turn[u].batch
  <1> USE DEF Inserted
  <1>0. turn \in TurnTable /\ turn[t] \in Turns /\ turn'[t] # turn[t]
    BY DEF TypeInv, TurnTable
  <1>1. ASSUME NEW x \in Threads, ScheduleClaim(x)
        PROVE  /\ \A u \in TurnIds \ {t} : turn'[u] = turn[u]
               /\ turn'[t].attempt = 1 /\ turn'[t].batch = t
    <2>1. PICK n \in TurnIds, i \in ItemIds :
            ClaimInboxAndCreateTurn(th[x].agent, inbox[i].round, th[x].items, n)
      BY <1>1 DEF ScheduleClaim
    <2>2. PICK g \in 0..MaxTurns :
            turn' = [turn EXCEPT ![n] =
                       [agent |-> th[x].agent, round |-> inbox[i].round,
                        status |-> "queued", attempt |-> 1, generation |-> g,
                        batch |-> n, retryable |-> FALSE]]
      BY <2>1 DEF ClaimInboxAndCreateTurn
    <2>3. n = t
      BY <1>0, <2>2 DEF TurnTable
    <2> QED
      BY <1>0, <2>2, <2>3 DEF TurnTable
  <1>2. ASSUME NEW u \in TurnIds, TailRetry(u)
        PROVE  /\ u # t /\ \A v \in TurnIds \ {t} : turn'[v] = turn[v]
               /\ th[u].pc = "retry" /\ turn[u].attempt \in {0, 1}
               /\ turn'[t].attempt = turn[u].attempt + 1
               /\ turn'[t].batch = turn[u].batch
    <2>1. PICK n \in TurnIds : CreateRetry(u, n)
      BY <1>2 DEF TailRetry
    <2>2. n = t
      BY <1>0, <2>1 DEF CreateRetry, TurnTable
    <2>3. turn[u].status = "failed" /\ turn[u].attempt < 2 /\ th[u].pc = "retry"
      BY <1>2 DEF TailRetry, Retryable, At, MaxTurnAttempts
    <2>4. turn[u] \in Turns /\ turn[u].attempt \in {0, 1}
      BY <1>0, <2>3 DEF TurnTable, Turns, MaxTurnAttempts
    <2>5. u # t
      BY <2>3
    <2>6. turn' = [turn EXCEPT ![t] = [turn[u] EXCEPT !.status = "queued",
                                         !.retryable = FALSE,
                                         !.attempt = turn[u].attempt + 1]]
      BY <2>1, <2>2 DEF CreateRetry
    <2> QED
      BY <1>0, <2>3, <2>4, <2>5, <2>6 DEF TurnTable, Turns
  <1>3. ASSUME NEW u \in TurnIds, Advance(u) \/ PrepareFail(u)
        PROVE  FALSE
    BY <1>0, <1>3 DEF Advance, PrepareFail, TurnUpdated, StartingUp, TurnTable
  <1>4. ASSUME NEW u \in TurnIds, NEW s \in TurnTerminal, NEW b \in BOOLEAN, Finish(u, s, b)
        PROVE  FALSE
    BY <1>0, <1>4 DEF Finish, TurnTable
  <1>5. ASSUME Restart PROVE FALSE
    BY <1>0, <1>5 DEF Restart, RecoverInterrupted, ActiveTurns, TurnActive, TurnTable
  <1> QED
    BY <1>0, <1>1, <1>2, <1>3, <1>4, <1>5, Writers DEF TurnWriter

\* Of two turns of one batch, the second to be inserted is the retry of the
\* other one, by the goroutine of that one.
LEMMA SecondAttempt ==
  ASSUME TypeInv, BatchInv, [Next]_vars, NEW t \in TurnIds, NEW u \in TurnIds,
         ~ Inserted(t), Inserted(t)', Inserted(u), turn'[u].batch = turn'[t].batch
  PROVE  /\ TailRetry(u) /\ th[u].pc = "retry" /\ turn[u].attempt = 1
         /\ turn'[t].attempt = 2 /\ turn'[u] = turn[u]
  <1>1. turn'[u] = turn[u] /\ u # t /\ FirstAttempt(u)
    BY NewRow DEF BatchInv
  <1>2. turn'[t].batch # t
    BY <1>1 DEF FirstAttempt
  <1>3. PICK v \in TurnIds \ {t} :
          /\ TailRetry(v) /\ th[v].pc = "retry" /\ turn[v].attempt \in {0, 1}
          /\ turn'[t].attempt = turn[v].attempt + 1
          /\ turn'[t].batch = turn[v].batch
    BY <1>2, NewRow
  <1>4. Inserted(v) /\ FirstAttempt(v) /\ Alone(v)
    BY <1>3 DEF BatchInv, Running
  <1>5. turn[v].attempt = 1
    BY <1>3, <1>4 DEF FirstAttempt
  <1>6. u = v
    BY <1>1, <1>3, <1>4, <1>5 DEF Alone, Early
  <1> QED
    BY <1>1, <1>3, <1>5, <1>6

LEMMA NextBatch == TypeInv /\ BatchInv /\ [Next]_vars => BatchInv'
  <1> SUFFICES ASSUME TypeInv, BatchInv, [Next]_vars PROVE BatchInv'
    OBVIOUS
  <1>1. ASSUME NEW t \in TurnIds
        PROVE  /\ Running(t) /\ Running(t)'
               /\ th[t].then \in Returns /\ th'[t].then \in Returns
               /\ Inserted(t) => FirstAttempt(t) /\ Alone(t)
               /\ turn[t].attempt \in {0, 1, 2}
    BY RunningKept, EarlyThread
       DEF BatchInv, TypeInv, TurnTable, Turns, MaxTurnAttempts
  <1>3. ASSUME NEW t \in TurnIds, Inserted(t)' PROVE FirstAttempt(t)'
    <2>1. CASE Inserted(t)
      <3>1. PICK b \in TurnIds : b = turn[t].batch /\ Inserted(b)
        BY <1>1, <2>1 DEF FirstAttempt
      <3>2. Inserted(b)'
        BY <3>1, RowsKept
      <3>3. turn'[t].batch = b /\ turn'[t].attempt = turn[t].attempt
        BY <2>1, <3>1, RowsKept
      <3> QED
        BY <1>1, <2>1, <3>1, <3>2, <3>3 DEF FirstAttempt, Inserted
    <2>2. CASE ~ Inserted(t) /\ turn'[t].attempt = 1 /\ turn'[t].batch = t
      BY <1>3, <2>2 DEF FirstAttempt
    <2>3. ASSUME NEW u \in TurnIds \ {t}, ~ Inserted(t),
                 TailRetry(u), th[u].pc = "retry", turn[u].attempt \in {0, 1},
                 turn'[t].attempt = turn[u].attempt + 1,
                 turn'[t].batch = turn[u].batch
          PROVE  FirstAttempt(t)'
      <3>1. Inserted(u) /\ FirstAttempt(u)
        BY <1>1, <2>3 DEF Running
      <3>2. turn[u].attempt = 1 /\ turn'[t].attempt = 2 /\ turn[u].batch = u
        BY <2>3, <3>1 DEF FirstAttempt
      <3>3. Inserted(u)'
        BY <3>1, RowsKept
      <3> QED
        BY <2>3, <3>2, <3>3 DEF FirstAttempt, Inserted
    <2> QED
      BY <1>3, <2>1, <2>2, <2>3, NewRow
  <1>4. ASSUME NEW t \in TurnIds, Inserted(t)' PROVE Alone(t)'
    <2> SUFFICES ASSUME th'[t].pc \in Early, turn'[t].attempt = 1,
                        NEW u \in TurnIds, Inserted(u)',
                        turn'[u].batch = turn'[t].batch, u # t
                 PROVE  FALSE
      BY DEF Alone
    <2>1. CASE ~ Inserted(t)
      <3>1. Inserted(u)
        BY <1>4, <2>1, NewRow DEF Inserted
      <3> QED
        BY <1>4, <2>1, <3>1, SecondAttempt
    <2>2. CASE Inserted(t) /\ Inserted(u)
      <3>1. /\ th[t].pc \in Early /\ turn[t].attempt = 1
            /\ turn[u].batch = turn[t].batch
        BY <1>1, <2>2, EarlyThread, RowsKept DEF Inserted
      <3> QED
        BY <1>1, <2>2, <3>1 DEF Alone
    <2>3. CASE Inserted(t) /\ ~ Inserted(u)
      <3>1. th[t].pc \in Early /\ ~ TailRetry(t)
        BY <1>1, <2>3, EarlyThread DEF Inserted
      <3> QED
        BY <1>4, <2>3, <3>1, SecondAttempt
    <2> QED
      BY <2>1, <2>2, <2>3
  <1>5. ASSUME NEW t \in TurnIds, NEW u \in TurnIds, Inserted(t)', Inserted(u)',
               turn'[t].batch = turn'[u].batch, turn'[t].attempt = turn'[u].attempt
        PROVE  t = u
    <2>1. CASE Inserted(t) /\ Inserted(u)
      BY <1>5, <2>1, RowsKept DEF BatchInv, RetryOnce, Inserted
    <2>2. CASE ~ Inserted(t) /\ Inserted(u)
      <3>1. turn'[t].attempt = 2 /\ turn[u].attempt = 1
        BY <1>5, <2>2, SecondAttempt
      <3>2. turn'[u].attempt = 1
        BY <2>2, <3>1, RowsKept
      <3>3. turn'[u].attempt = 2
        BY <1>5, <3>1
      <3> QED
        BY <3>2, <3>3
    <2>3. CASE Inserted(t) /\ ~ Inserted(u)
      <3>1. turn'[u].attempt = 2 /\ turn[t].attempt = 1
        BY <1>5, <2>3, SecondAttempt
      <3>2. turn'[t].attempt = turn[t].attempt
        BY <2>3, RowsKept
      <3> QED
        BY <1>5, <3>1, <3>2
    <2>4. CASE ~ Inserted(t) /\ ~ Inserted(u)
      BY <1>5, <2>4, NewRow DEF Inserted
    <2> QED
      BY <2>1, <2>2, <2>3, <2>4
  <1> QED
    BY <1>1, <1>3, <1>4, <1>5 DEF BatchInv, RetryOnce, Inserted

\* A batch has at most one turn per attempt: no order of failures, schedulers,
\* crashes and restarts makes retryTurn run an attempt of a batch again.
THEOREM BatchRetriedOnce == Spec => []RetryOnce
  <1>1. BatchInv => RetryOnce
    BY DEF BatchInv
  <1> QED
    BY <1>1, InitBatch, NextBatch, Typed, PTL DEF Spec
-----------------------------------------------------------------------------
\* A completed task leaves its status by ReopenTask only: the other writers
\* compare the status they read with the one they find, and none of them read
\* "completed".
THEOREM CompletionIsKept == Spec => CompletionStands
  <1>1. ASSUME TypeInv, [Next]_vars, task = "completed", task' # "completed"
        PROVE  \E r \in Requests : At(r, "reopen")
    <2>1. ASSUME NEW r \in Requests, Handler(r) PROVE ReopenWrite(r)
      <3>1. CASE OwnerStep(r) \/ LiveStep(r)
        BY <1>1, <3>1 DEF OwnerStep, Prepare, TaskCanMove, SubmitRecheck, SubmitEnqueue,
             CompleteWrite, InterruptRoundWrite, InterruptRoundInbox, InterruptRoundTask,
             InterruptRoundCancel, LiveStep, LiveClaim, LiveWait, LiveWaitTimeout, LiveAck,
             TaskTerminal, storeVars
      <3> QED
        BY <1>1, <2>1, <3>1 DEF Handler, StartTask, Submit, CompleteTask, ReopenTask,
             InterruptRound, LiveCall, LiveAckCall, Disconnect, storeVars
    <2>2. ASSUME NEW t \in TurnIds, TurnStep(t) PROVE FALSE
      <3>1. CASE SettleTask(t)
        BY <1>1, <3>1 DEF SettleTask, TaskCanMove, TaskTerminal
      <3>2. CASE Succeed(t) \/ Fail(t) \/ Interrupted(t)
        BY <1>1, <3>2 DEF Succeed, Fail, Interrupted, Finish
      <3>3. CASE \/ Advance(t) \/ AdvanceCancelled(t) \/ PrepareFail(t)
                 \/ TailProcessed(t) \/ TailSweep(t) \/ TailRetry(t) \/ TailNoRetry(t)
                 \/ TailRoute(t) \/ TailFanIn(t) \/ TailAborted(t)
        BY <1>1, <3>3 DEF Advance, AdvanceCancelled, PrepareFail, TailProcessed, TailSweep,
             TailRetry, TailNoRetry, TailRoute, TailFanIn, FanIn, TailAborted, RunRest,
             TailRest, storeVars
      <3>4. CASE SettleNot(t) \/ SettleBegin(t) \/ SettlePending(t) \/ SettleRound(t)
        BY <1>1, <3>4 DEF SettleNot, SettleBegin, SettlePending, SettleRound
      <3> QED
        BY <2>2, <3>1, <3>2, <3>3, <3>4 DEF TurnStep
    <2>3. ASSUME NEW x \in Threads, ScheduleAgent(x) PROVE FALSE
      BY <1>1, <2>3 DEF ScheduleAgent, ScheduleNothing, ScheduleClosedRound, ScheduleRead,
           ScheduleClaim, ScheduleRefused, storeVars
    <2>4. ASSUME \/ MergeFires \/ MergeFanIn \/ Shutdown \/ Stop \/ Crash \/ BootStep
                 \/ \E t \in TurnIds : InterruptTurn(t)
                 \/ UNCHANGED vars
          PROVE  FALSE
      BY <1>1, <2>4 DEF MergeFires, MergeFanIn, FanIn, TailRest, Shutdown, Stop, Crash,
           Stopped, BootStep, Restart, RecoverInterrupted, ResumeNext, ResumeDone,
           InterruptTurn, storeVars, vars
    <2> QED
      BY <1>1, <2>1, <2>2, <2>3, <2>4 DEF Next, ReopenWrite
  <1>2. ASSUME TypeInv, [Next]_vars
        PROVE  [task = "completed" /\ task' # "completed" =>
                  \E r \in Requests : At(r, "reopen")]_vars
    BY <1>1, <1>2
  <1> QED
    BY <1>2, Typed, PTL DEF Spec, CompletionStands
-----------------------------------------------------------------------------
(* What a step does with an item *)

InTurn == {"claimed_in_turn", "delivered_in_turn"}

Arrives(i) ==
  /\ inbox[i].status = "none" /\ inbox'[i].status = "pending"
  /\ inbox'[i].batch = 0 /\ inbox'[i].turn = 0
  /\ \/ \E r \in Requests : /\ SubmitEnqueue(r) /\ inbox'[i].agent = th[r].agent
                            /\ inbox'[i].source = 0 /\ inbox'[i].round \in RoundIds
     \/ \E t \in TurnIds : /\ TailRoute(t) /\ turn[t].agent # Main /\ CanRoute(t)
                           /\ inbox'[i].source = t /\ inbox'[i].agent = Main
                           /\ inbox'[i].round = turn[t].round
IsCancelled(i) ==
  /\ inbox[i].status \in {"pending", "claimed"}
  /\ inbox'[i] = [inbox[i] EXCEPT !.status = "cancelled"]
  /\ \/ \E r \in Requests : InterruptRoundInbox(r)
     \/ \E x \in Threads : ScheduleClosedRound(x)
IsClaimed(i) ==
  /\ inbox[i].status = "pending"
  /\ \E x \in Threads, t \in TurnIds :
       /\ ScheduleClaim(x) /\ turn[t].status = "none"
       /\ turn'[t].status = "queued" /\ turn'[t].batch = t /\ th'[t] = NewRun
       /\ inbox'[i] = [inbox[i] EXCEPT !.status = "claimed", !.batch = t]
IsTaken(i) ==
  /\ inbox[i].status = "pending"
  /\ \E r \in Requests, t \in TurnIds, s \in InTurn :
       /\ th[r].pc \in {"live_claim", "live_wait"} /\ t \in th[r].turns
       /\ inbox'[i] = [inbox[i] EXCEPT !.status = s, !.turn = t]
IsSettled(i) ==
  \/ /\ inbox[i].status = "claimed_in_turn"
     /\ \/ inbox'[i] = [inbox[i] EXCEPT !.status = "delivered_in_turn"]
        \/ inbox'[i] = Requeued(inbox[i])
  \/ /\ inbox[i].status = "delivered_in_turn"
     /\ inbox'[i] = [inbox[i] EXCEPT !.status = "processed"]
  \/ /\ inbox[i].status = "claimed"
     /\ inbox'[i] = [inbox[i] EXCEPT !.status = "processed"]
IsRecovered(i) ==
  /\ Restart /\ inbox'[i] = Requeued(inbox[i])
  /\ \E u \in TurnIds :
       /\ turn[u].status \in TurnActive
       /\ \/ inbox[i].status = "claimed" /\ inbox[i].batch = turn[u].batch
          \/ inbox[i].status \in InTurn /\ inbox[i].turn = u

LEMMA ItemSteps ==
  ASSUME TypeInv, [Next]_vars, NEW i \in ItemIds
  PROVE  \/ inbox'[i] = inbox[i] \/ Arrives(i) \/ IsCancelled(i) \/ IsClaimed(i)
         \/ IsTaken(i) \/ IsSettled(i) \/ IsRecovered(i)
  <1> DEFINE Goal == \/ inbox'[i] = inbox[i] \/ Arrives(i) \/ IsCancelled(i)
                     \/ IsClaimed(i) \/ IsTaken(i) \/ IsSettled(i) \/ IsRecovered(i)
  <1>0. /\ th \in ThreadTable /\ inbox \in InboxTable /\ turn \in TurnTable
        /\ inbox[i] \in Items /\ Requests \subseteq Threads /\ TurnIds \subseteq Threads
    BY ThreadKinds DEF TypeInv, InboxTable
  <1>2. ASSUME NEW r \in Requests, SubmitEnqueue(r) PROVE Goal
    <2>1. PICK k \in ItemIds, q \in RoundIds :
            /\ First(FreeItems, k)
            /\ inbox' = [inbox EXCEPT ![k] = [NoItem EXCEPT !.agent = th[r].agent, !.round = q,
                                                            !.status = "pending"]]
      BY <1>2 DEF SubmitEnqueue, EnqueueUserMessage
    <2>2. inbox[k].status = "none"
      BY <2>1 DEF First, FreeItems
    <2>3. CASE k = i
      <3>1. inbox'[i] = [NoItem EXCEPT !.agent = th[r].agent, !.round = q,
                                       !.status = "pending"]
        BY <1>0, <2>1, <2>3 DEF InboxTable
      <3>2. /\ inbox'[i].status = "pending" /\ inbox'[i].batch = 0
            /\ inbox'[i].turn = 0 /\ inbox'[i].source = 0
            /\ inbox'[i].agent = th[r].agent /\ inbox'[i].round = q
        BY <3>1 DEF NoItem
      <3> QED
        BY <1>2, <2>2, <2>3, <3>2 DEF Arrives
    <2>4. CASE k # i
      BY <1>0, <2>1, <2>4 DEF InboxTable
    <2> QED
      BY <2>3, <2>4
  <1>3. ASSUME NEW t \in TurnIds, TailRoute(t) PROVE Goal
    <2>1. CASE EnqueueAgentRoute(t) /\ turn[t].agent # Main /\ CanRoute(t)
      <3>1. PICK k \in ItemIds :
              /\ First(FreeItems, k)
              /\ inbox' = [inbox EXCEPT ![k] = [NoItem EXCEPT !.round = turn[t].round,
                                                    !.kind = "agent_result",
                                                    !.status = "pending",
                                                    !.source = t]]
        BY <2>1 DEF EnqueueAgentRoute
      <3>2. inbox[k].status = "none"
        BY <3>1 DEF First, FreeItems
      <3>3. CASE k = i
        <4>1. inbox'[i] = [NoItem EXCEPT !.round = turn[t].round, !.kind = "agent_result",
                                         !.status = "pending", !.source = t]
          BY <1>0, <3>1, <3>3 DEF InboxTable
        <4>2. /\ inbox'[i].status = "pending" /\ inbox'[i].batch = 0
              /\ inbox'[i].turn = 0 /\ inbox'[i].source = t
              /\ inbox'[i].agent = Main /\ inbox'[i].round = turn[t].round
          BY <4>1 DEF NoItem
        <4> QED
          BY <1>3, <2>1, <3>2, <3>3, <4>2 DEF Arrives
      <3>4. CASE k # i
        BY <1>0, <3>1, <3>4 DEF InboxTable
      <3> QED
        BY <3>3, <3>4
    <2>2. CASE inbox' = inbox
      BY <2>2
    <2> QED
      BY <1>3, <2>1, <2>2 DEF TailRoute
  <1>4. ASSUME NEW r, inbox' = PendingCancelled(r),
               \/ \E q \in Requests : InterruptRoundInbox(q)
               \/ \E x \in Threads : ScheduleClosedRound(x)
        PROVE  Goal
    BY <1>4 DEF PendingCancelled, IsCancelled
  <1>5. ASSUME NEW x \in Threads, ScheduleAgent(x) PROVE Goal
    <2>1. CASE ScheduleClaim(x)
      <3>1. PICK t \in TurnIds, k \in ItemIds :
              /\ ClaimInboxAndCreateTurn(th[x].agent, inbox[k].round, th[x].items, t)
              /\ th' = [th EXCEPT ![x] = Back(x), ![t] = NewRun]
        BY <2>1 DEF ScheduleClaim
      <3>2. turn[t].status = "none" /\ \A j \in th[x].items : inbox[j].status = "pending"
        BY <2>1, <3>1 DEF ScheduleClaim, CanClaim, ClaimInboxAndCreateTurn, First, FreeTurns
      <3>3. PICK g \in 0..MaxTurns :
              turn' = [turn EXCEPT ![t] = [agent |-> th[x].agent, round |-> inbox[k].round,
                         status |-> "queued", attempt |-> 1, generation |-> g,
                         batch |-> t, retryable |-> FALSE]]
        BY <3>1 DEF ClaimInboxAndCreateTurn
      <3>4. turn'[t].status = "queued" /\ turn'[t].batch = t
        BY <1>0, <3>3 DEF TurnTable
      <3>5. th'[t] = NewRun
        BY <1>0, <3>1 DEF ThreadTable
      <3>6. inbox'[i] = IF i \in th[x].items
                        THEN [inbox[i] EXCEPT !.status = "claimed", !.batch = t]
                        ELSE inbox[i]
        BY <3>1 DEF ClaimInboxAndCreateTurn
      <3> QED
        BY <2>1, <3>2, <3>4, <3>5, <3>6 DEF IsClaimed
    <2>2. CASE ScheduleClosedRound(x)
      <3>1. \E k \in ItemIds : inbox' = PendingCancelled(inbox[k].round)
        BY <2>2 DEF ScheduleClosedRound
      <3> QED
        BY <1>4, <2>2, <3>1
    <2> QED
      BY <1>5, <2>1, <2>2 DEF ScheduleAgent, ScheduleNothing, ScheduleRead, ScheduleRefused,
           storeVars
  <1>6. ASSUME NEW r \in Requests, Handler(r) PROVE Goal
    <2>0. th[r].turns \subseteq TurnIds
      BY <1>0 DEF ThreadTable, ThreadStates
    <2>1. CASE LiveClaim(r)
      <3>1. PICK t \in th[r].turns : inbox' = LiveClaimed(t, 0, "claimed_in_turn")
        BY <2>1 DEF LiveClaim
      <3> QED
        BY <2>0, <2>1, <3>1 DEF LiveClaim, At, LiveClaimed, LiveInbox, PendingAgentInbox,
             PendingInbox, IsTaken, InTurn
    <2>2. CASE LiveWait(r)
      <3>1. PICK t \in th[r].turns, after \in 0..MaxItems :
              inbox' = LiveClaimed(t, after, "delivered_in_turn")
        BY <2>2 DEF LiveWait
      <3> QED
        BY <2>0, <2>2, <3>1 DEF LiveWait, At, LiveClaimed, LiveInbox, PendingAgentInbox,
             PendingInbox, IsTaken, InTurn
    <2>3. CASE LiveAck(r)
      BY <2>3 DEF LiveAck, AckLiveInbox, IsSettled
    <2>4. CASE InterruptRoundInbox(r)
      <3>1. inbox' = PendingCancelled(th[r].round)
        BY <2>4 DEF InterruptRoundInbox
      <3> QED
        BY <1>4, <2>4, <3>1
    <2>5. CASE \/ Prepare(r) \/ SubmitRecheck(r) \/ CompleteWrite(r) \/ ReopenWrite(r)
               \/ InterruptRoundWrite(r) \/ InterruptRoundTask(r) \/ InterruptRoundCancel(r)
               \/ LiveWaitTimeout(r)
      BY <2>5 DEF Prepare, SubmitRecheck, CompleteWrite, ReopenWrite, InterruptRoundWrite,
           InterruptRoundTask, InterruptRoundCancel, LiveWaitTimeout, storeVars
    <2>6. CASE \/ StartTask(r) \/ CompleteTask(r) \/ ReopenTask(r) \/ InterruptRound(r)
               \/ Disconnect(r) \/ \E a \in Agents : Submit(r, a)
               \/ \E t \in TurnIds : LiveCall(r, t) \/ LiveAckCall(r, t)
      BY <2>6 DEF StartTask, Submit, CompleteTask, ReopenTask,
           InterruptRound, LiveCall, LiveAckCall, Disconnect, storeVars
    <2> QED
      BY <1>2, <1>6, <2>1, <2>2, <2>3, <2>4, <2>5, <2>6 DEF Handler, OwnerStep, LiveStep
  <1>7. ASSUME NEW t \in TurnIds, TurnStep(t) PROVE Goal
    <2>1. CASE TailProcessed(t)
      BY <2>1 DEF TailProcessed, BatchProcessed, IsSettled
    <2>2. CASE TailSweep(t)
      BY <2>2 DEF TailSweep, LiveInboxSwept, IsSettled
    <2>3. CASE Succeed(t) \/ Fail(t) \/ Interrupted(t)
      BY <2>3 DEF Succeed, Fail, Interrupted, Finish
    <2>4. CASE \/ Advance(t) \/ AdvanceCancelled(t) \/ PrepareFail(t)
               \/ TailRetry(t) \/ TailNoRetry(t) \/ TailFanIn(t) \/ TailAborted(t)
      BY <2>4 DEF Advance, AdvanceCancelled, PrepareFail, TailRetry, TailNoRetry,
           TailFanIn, FanIn, TailAborted, RunRest, storeVars
    <2>5. CASE \/ SettleNot(t) \/ SettleBegin(t) \/ SettlePending(t) \/ SettleRound(t)
               \/ SettleTask(t)
      BY <2>5 DEF SettleNot, SettleBegin, SettlePending, SettleRound, SettleTask, SettleRest
    <2> QED
      BY <1>3, <1>7, <2>1, <2>2, <2>3, <2>4, <2>5 DEF TurnStep
  <1>8. ASSUME Restart PROVE Goal
    <2> DEFINE lost == \/ /\ inbox[i].status = "claimed"
                          /\ inbox[i].batch \in {turn[t].batch : t \in ActiveTurns}
                       \/ /\ inbox[i].status \in InTurn
                          /\ inbox[i].turn \in ActiveTurns
    <2>1. inbox'[i] = IF lost THEN Requeued(inbox[i]) ELSE inbox[i]
      BY <1>8 DEF Restart, RecoverInterrupted, InTurn
    <2>2. CASE lost
      <3>1. \E u \in TurnIds :
              /\ turn[u].status \in TurnActive
              /\ \/ inbox[i].status = "claimed" /\ inbox[i].batch = turn[u].batch
                 \/ inbox[i].status \in InTurn /\ inbox[i].turn = u
        BY <2>2 DEF ActiveTurns
      <3> QED
        BY <1>8, <2>1, <2>2, <3>1 DEF IsRecovered
    <2> QED
      BY <2>1, <2>2
  <1>9. ASSUME \/ MergeFires \/ MergeFanIn \/ Shutdown \/ Stop \/ Crash
               \/ ResumeNext \/ ResumeDone
               \/ \E t \in TurnIds : InterruptTurn(t)
               \/ UNCHANGED vars
        PROVE  Goal
    BY <1>9 DEF MergeFires, MergeFanIn, FanIn, Shutdown, Stop, Crash, Stopped,
         ResumeNext, ResumeDone, InterruptTurn, storeVars, vars
  <1> QED
    BY <1>5, <1>6, <1>7, <1>8, <1>9 DEF Next, BootStep

\* A message that reached a model is not given back by anything but a restart.
THEOREM NotDeliveredTwice == Spec => DeliveredOnce
  <1>1. ASSUME TypeInv, [Next]_vars, up, NEW i \in ItemIds,
               inbox[i].status \in {"delivered_in_turn", "processed"}
        PROVE  inbox'[i].status \in {"delivered_in_turn", "processed"}
    <2>1. inbox[i] \in Items
      BY <1>1 DEF TypeInv, InboxTable
    <2> QED
      BY <1>1, <2>1, ItemSteps DEF Arrives, IsCancelled, IsClaimed, IsTaken, IsSettled,
           IsRecovered, Restart, Items
  <1>2. ASSUME TypeInv, [Next]_vars
        PROVE  [up => \A i \in ItemIds :
                  inbox[i].status \in {"delivered_in_turn", "processed"}
                  => inbox'[i].status \in {"delivered_in_turn", "processed"}]_vars
    BY <1>1, <1>2
  <1> QED
    BY <1>2, Typed, PTL DEF Spec, DeliveredOnce
-----------------------------------------------------------------------------
(* What was answered is not replayed *)

\* NoReplayAfterSuccess needs two more facts about the rows: an item shows by
\* its status what it refers to, and a batch has a second attempt only if the
\* first one failed.
ItemRow(i) == /\ inbox[i].status = "pending" => inbox[i].batch = 0 /\ inbox[i].turn = 0
              /\ inbox[i].status = "claimed" => inbox[i].turn = 0
              /\ inbox[i].status \in InTurn => inbox[i].batch = 0
RetriedFailed(t) == \A u \in TurnIds :
  /\ Inserted(t) /\ Inserted(u)
  /\ turn[t].batch = turn[u].batch /\ turn[t].attempt < turn[u].attempt
  => turn[t].status = "failed"
RowInv == /\ BatchInv
          /\ \A i \in ItemIds : ItemRow(i)
          /\ \A t \in TurnIds : RetriedFailed(t)

LEMMA InitRow == Init => RowInv
  <1> SUFFICES ASSUME Init PROVE RowInv
    OBVIOUS
  <1>1. \A t \in TurnIds : RetriedFailed(t)
    BY DEF Init, StoreInit, NoTurn, Inserted, RetriedFailed
  <1>2. \A i \in ItemIds : ItemRow(i)
    BY DEF Init, StoreInit, NoItem, ItemRow, InTurn
  <1> QED
    BY <1>1, <1>2, InitBatch DEF RowInv

LEMMA NextRow == TypeInv /\ RowInv /\ [Next]_vars => RowInv'
  <1> SUFFICES ASSUME TypeInv, RowInv, [Next]_vars PROVE RowInv'
    OBVIOUS
  <1>1. ASSUME NEW i \in ItemIds PROVE ItemRow(i)'
    <2>1. inbox[i] \in Items /\ ItemRow(i)
      BY DEF TypeInv, InboxTable, RowInv
    <2>2. CASE inbox'[i] = inbox[i]
      BY <2>1, <2>2 DEF ItemRow
    <2>3. CASE Arrives(i)
      BY <2>3 DEF ItemRow, Arrives, InTurn
    <2>4. CASE IsCancelled(i) \/ IsClaimed(i) \/ IsTaken(i)
      BY <2>1, <2>4 DEF ItemRow, IsCancelled, IsClaimed, IsTaken, Items, InTurn
    <2>5. CASE IsSettled(i) \/ IsRecovered(i)
      BY <2>1, <2>5 DEF ItemRow, IsSettled, IsRecovered, Requeued, Items, InTurn
    <2> QED
      BY <2>2, <2>3, <2>4, <2>5, ItemSteps
  <1>2. ASSUME NEW t \in TurnIds, NEW u \in TurnIds, Inserted(t)', Inserted(u)',
               turn'[t].batch = turn'[u].batch, turn'[t].attempt < turn'[u].attempt
        PROVE  turn'[t].status = "failed"
    <2>1. CASE Inserted(t) /\ Inserted(u)
      <3>1. /\ turn[t].batch = turn[u].batch /\ turn[t].attempt < turn[u].attempt
            /\ turn[t].status \in TurnTerminal => turn'[t].status = turn[t].status
        BY <1>2, <2>1, RowsKept
      <3>2. turn[t].status = "failed"
        BY <2>1, <3>1 DEF RowInv, RetriedFailed
      <3> QED
        BY <3>1, <3>2 DEF TurnTerminal
    <2>2. CASE Inserted(t) /\ ~ Inserted(u)
      <3>1. TailRetry(t) /\ turn'[t] = turn[t]
        BY <1>2, <2>2, SecondAttempt DEF RowInv
      <3> QED
        BY <3>1 DEF TailRetry, Retryable
    <2>3. CASE ~ Inserted(t) /\ Inserted(u)
      <3>1. turn'[t].attempt = 2 /\ turn'[u].attempt = 1
        BY <1>2, <2>3, SecondAttempt DEF RowInv
      <3> QED
        BY <1>2, <3>1
    <2>4. CASE ~ Inserted(t) /\ ~ Inserted(u)
      <3>1. t = u
        BY <1>2, <2>4, NewRow DEF Inserted
      <3>2. turn' \in TurnTable
        BY NextType DEF TypeInv
      <3> QED
        BY <1>2, <3>1, <3>2 DEF TurnTable, Turns
    <2> QED
      BY <2>1, <2>2, <2>3, <2>4
  <1>3. \A t \in TurnIds : RetriedFailed(t)'
    BY <1>2 DEF RetriedFailed, Inserted
  <1> QED
    BY <1>1, <1>3, NextBatch DEF RowInv

LEMMA Rows == Spec => []RowInv
  BY InitRow, NextRow, Typed, PTL DEF Spec

\* What an agent answered is not given to it again.  A restart gives back what
\* an active turn holds; the batch of an active turn has no attempt that
\* succeeded, since a second attempt follows a failure only.
THEOREM AnsweredOnce == Spec => NoReplayAfterSuccess
  <1>1. ASSUME TypeInv, RowInv, [Next]_vars, NEW i \in ItemIds,
               inbox[i].status \in ItemStatus \ {"pending", "claimed_in_turn"},
               NEW t \in TurnIds, turn[t].status = "succeeded",
               t = inbox[i].turn \/ turn[t].batch = inbox[i].batch
        PROVE  inbox'[i].status # "pending"
    <2>0. t # 0
      BY DEF TurnIds
    <2>1. inbox[i] \in Items /\ ItemRow(i) /\ Inserted(t) /\ FirstAttempt(t)
      BY <1>1 DEF TypeInv, InboxTable, RowInv, BatchInv, Inserted
    <2>2. ASSUME IsRecovered(i) PROVE FALSE
      <3>1. PICK u \in TurnIds :
              /\ turn[u].status \in TurnActive
              /\ \/ inbox[i].status = "claimed" /\ inbox[i].batch = turn[u].batch
                 \/ inbox[i].status \in InTurn /\ inbox[i].turn = u
        BY <2>2 DEF IsRecovered
      <3>2. Inserted(u) /\ u # t
        BY <1>1, <3>1 DEF Inserted, TurnActive
      <3>3. FirstAttempt(u) /\ turn[u] \in Turns /\ turn[t] \in Turns
        BY <1>1, <3>2 DEF RowInv, BatchInv, TypeInv, TurnTable
      <3>4. CASE inbox[i].status = "claimed" /\ inbox[i].batch = turn[u].batch
        <4>1. turn[t].batch = turn[u].batch
          BY <1>1, <2>0, <2>1, <3>4 DEF ItemRow
        <4>2. turn[t].attempt # turn[u].attempt
          BY <1>1, <2>1, <3>2, <4>1 DEF RowInv, BatchInv, RetryOnce, Inserted
        <4>3. turn[t].attempt \in 0..2 /\ turn[u].attempt \in 0..2
          BY <3>3 DEF Turns, MaxTurnAttempts
        <4>4. CASE turn[t].attempt < turn[u].attempt
          BY <1>1, <2>1, <3>2, <4>1, <4>4 DEF RowInv, RetriedFailed
        <4>5. CASE turn[u].attempt < turn[t].attempt
          <5>1. turn[u].status = "failed"
            BY <1>1, <2>1, <3>2, <4>1, <4>5 DEF RowInv, RetriedFailed
          <5> QED
            BY <3>1, <5>1 DEF TurnActive
        <4> QED
          BY <4>2, <4>3, <4>4, <4>5
      <3>5. CASE inbox[i].status \in InTurn /\ inbox[i].turn = u
        <4>1. turn[t].batch = 0
          BY <1>1, <2>1, <3>2, <3>5 DEF ItemRow
        <4> QED
          BY <2>1, <4>1 DEF FirstAttempt, TurnIds
      <3> QED
        BY <3>1, <3>4, <3>5
    <2>3. CASE inbox'[i] = inbox[i] \/ IsCancelled(i) \/ IsClaimed(i) \/ IsTaken(i)
      BY <1>1, <2>1, <2>3 DEF IsCancelled, IsClaimed, IsTaken, Items, InTurn
    <2>4. CASE Arrives(i) \/ IsSettled(i)
      BY <1>1, <2>1, <2>4 DEF Arrives, IsSettled, Items, ItemStatus
    <2> QED
      BY <1>1, <2>2, <2>3, <2>4, ItemSteps
  <1>2. ASSUME TypeInv, RowInv, [Next]_vars
        PROVE  [\A i \in ItemIds :
                  (/\ inbox[i].status \in ItemStatus \ {"pending"}
                   /\ \E t \in TurnIds : /\ turn[t].status = "succeeded"
                                         /\ t = inbox[i].turn \/ turn[t].batch = inbox[i].batch
                   /\ inbox[i].status # "claimed_in_turn")
                  => inbox'[i].status # "pending"]_vars
    BY <1>1, <1>2
  <1> QED
    BY <1>2, Rows, Typed, PTL DEF Spec, NoReplayAfterSuccess
-----------------------------------------------------------------------------
(* Only the last attempt is routed *)

\* OnlyLastAttemptRouted is not inductive either: a second attempt could be
\* made after the outcome of the first was routed, if the goroutine of the
\* first did not pass the retry before it comes to the routing.
LastOfBatch(t) == \A u \in TurnIds :
  Inserted(u) /\ turn[u].batch = turn[t].batch => turn[u].attempt <= turn[t].attempt
Routed(i, t)   == inbox[i].status # "none" /\ inbox[i].source = t
RouteInv == /\ BatchInv
            /\ \A t \in TurnIds : th[t].pc = "route" => LastOfBatch(t)
            /\ \A i \in ItemIds, t \in TurnIds :
                 Routed(i, t) => Inserted(t) /\ th[t].pc \notin Early /\ LastOfBatch(t)

\* An item keeps its source, and gets it from the routing of a turn.
LEMMA SourceKept ==
  ASSUME TypeInv, [Next]_vars, NEW i \in ItemIds, NEW t \in TurnIds, Routed(i, t)'
  PROVE  Routed(i, t) \/ TailRoute(t)
  <1>1. inbox[i] \in Items /\ t # 0
    BY DEF TypeInv, InboxTable, TurnIds
  <1>2. CASE inbox'[i] = inbox[i]
    BY <1>2 DEF Routed
  <1>3. CASE Arrives(i)
    BY <1>1, <1>3 DEF Arrives, Routed
  <1>4. CASE IsCancelled(i) \/ IsClaimed(i) \/ IsTaken(i)
    BY <1>1, <1>4 DEF IsCancelled, IsClaimed, IsTaken, Items, Routed
  <1>5. CASE IsSettled(i) \/ IsRecovered(i)
    BY <1>1, <1>5 DEF IsSettled, IsRecovered, Requeued, Items, InTurn, Routed
  <1> QED
    BY <1>2, <1>3, <1>4, <1>5, ItemSteps

LEMMA LastKept ==
  ASSUME TypeInv, BatchInv, [Next]_vars, NEW t \in TurnIds, Inserted(t),
         th[t].pc \notin Early, LastOfBatch(t)
  PROVE  LastOfBatch(t)'
  <1> SUFFICES ASSUME NEW u \in TurnIds, Inserted(u)', turn'[u].batch = turn'[t].batch
               PROVE  turn'[u].attempt <= turn'[t].attempt
    BY DEF LastOfBatch
  <1>1. turn'[t].batch = turn[t].batch /\ turn'[t].attempt = turn[t].attempt
    BY RowsKept
  <1>2. CASE Inserted(u)
    BY <1>1, <1>2, RowsKept DEF LastOfBatch
  <1>3. CASE ~ Inserted(u)
    BY <1>3, SecondAttempt DEF Early
  <1> QED
    BY <1>2, <1>3

LEMMA InitRoute == Init => RouteInv
  <1> SUFFICES ASSUME Init PROVE RouteInv
    OBVIOUS
  <1>1. \A t \in TurnIds : th[t].pc # "route"
    BY ThreadKinds DEF Init, Idle
  <1>2. \A i \in ItemIds : inbox[i].status = "none"
    BY DEF Init, StoreInit, NoItem
  <1> QED
    BY <1>1, <1>2, InitBatch DEF RouteInv, Routed

LEMMA NextRoute == TypeInv /\ RouteInv /\ [Next]_vars => RouteInv'
  <1> SUFFICES ASSUME TypeInv, RouteInv, [Next]_vars PROVE RouteInv'
    OBVIOUS
  <1>0. BatchInv
    BY DEF RouteInv
  <1>1. ASSUME NEW t \in TurnIds, th'[t].pc = "route" PROVE LastOfBatch(t)'
    <2>1. Running(t) /\ th[t].then \in Returns
      BY <1>0 DEF BatchInv
    <2>2. CASE th[t].pc = "route"
      <3>1. Inserted(t) /\ th[t].pc \notin Early /\ LastOfBatch(t)
        BY <2>1, <2>2 DEF RouteInv, Running, Early
      <3> QED
        BY <1>0, <3>1, LastKept
    <2>3. CASE TailNoRetry(t)
      <3>1. th[t].pc = "retry" /\ turn' = turn
        BY <2>3 DEF TailNoRetry, At
      <3>2. Inserted(t) /\ FirstAttempt(t) /\ Alone(t)
        BY <1>0, <2>1, <3>1 DEF BatchInv, Running
      <3>3. ASSUME NEW u \in TurnIds, Inserted(u), turn[u].batch = turn[t].batch
            PROVE  turn[u].attempt <= turn[t].attempt
        <4>1. turn[u].attempt \in 0..2 /\ turn[t].attempt \in 0..2
          BY DEF TypeInv, TurnTable, Turns, MaxTurnAttempts
        <4>2. CASE turn[t].attempt = 1
          <5>1. u = t
            BY <3>1, <3>2, <3>3, <4>2 DEF Alone, Early
          <5> QED
            BY <4>1, <5>1
        <4>3. CASE turn[t].attempt = 2
          BY <4>1, <4>3
        <4> QED
          BY <3>2, <4>1, <4>2, <4>3 DEF FirstAttempt
      <3>4. LastOfBatch(t)
        BY <3>3 DEF LastOfBatch
      <3> QED
        BY <3>1, <3>4 DEF LastOfBatch, Inserted
    <2> QED
      BY <1>1, <2>1, <2>2, <2>3, EarlyThread
  <1>2. ASSUME NEW i \in ItemIds, NEW t \in TurnIds, Routed(i, t)'
        PROVE  Inserted(t)' /\ th'[t].pc \notin Early /\ LastOfBatch(t)'
    <2>1. Running(t) /\ th[t].then \in Returns
      BY <1>0 DEF BatchInv
    <2>2. CASE Routed(i, t)
      <3>1. Inserted(t) /\ th[t].pc \notin Early /\ LastOfBatch(t)
        BY <2>2 DEF RouteInv
      <3>2. Inserted(t)' /\ LastOfBatch(t)'
        BY <1>0, <3>1, LastKept, RowsKept
      <3>3. th'[t].pc \notin Early
        BY <2>1, <3>1, EarlyThread DEF Inserted
      <3> QED
        BY <3>2, <3>3
    <2>3. CASE TailRoute(t)
      <3>1. th[t].pc = "route"
        BY <2>3 DEF TailRoute, At
      <3>2. Inserted(t) /\ th[t].pc \notin Early /\ LastOfBatch(t)
        BY <2>1, <3>1 DEF RouteInv, Running, Early
      <3>3. Inserted(t)' /\ LastOfBatch(t)'
        BY <1>0, <3>2, LastKept, RowsKept
      <3>4. th'[t].pc \notin Early
        BY <2>1, <3>2, EarlyThread DEF Inserted
      <3> QED
        BY <3>3, <3>4
    <2> QED
      BY <1>2, <2>2, <2>3, SourceKept
  <1> QED
    BY <1>0, <1>1, <1>2, NextBatch DEF RouteInv

\* Main never gets the outcome of an attempt that is retried, neither before
\* nor after its retry exists.
THEOREM LastAttemptOnly == Spec => []OnlyLastAttemptRouted
  <1>1. RouteInv => OnlyLastAttemptRouted
    BY DEF RouteInv, Routed, LastOfBatch, Inserted, OnlyLastAttemptRouted
  <1> QED
    BY <1>1, InitRoute, NextRoute, Typed, PTL DEF Spec
-----------------------------------------------------------------------------
(* A claimed item is held *)

\* What a step does to the contexts and to the process.
LEMMA ContextSteps ==
  ASSUME TypeInv, [Next]_vars
  PROVE  /\ Stopped \/ crashes' = crashes
         /\ Stopped \/ Shutdown \/ closing' = closing
         /\ Stopped \/ Restart \/ up' = up
         /\ \/ Stopped
            \/ \E t \in TurnIds, s \in TurnTerminal, b \in BOOLEAN :
                 Finish(t, s, b) /\ cancelled' = cancelled \ {t}
            \/ cancelled' = cancelled
            \/ /\ cancelled \subseteq cancelled'
               /\ \A t \in cancelled' : t \in cancelled \/ t \in Cancellable
               /\ \/ Shutdown
                  \/ \E t \in TurnIds : InterruptTurn(t)
                  \/ \E r \in Requests : InterruptRoundCancel(r)
  <1> DEFINE Goal == /\ Stopped \/ crashes' = crashes
                     /\ Stopped \/ Shutdown \/ closing' = closing
                     /\ Stopped \/ Restart \/ up' = up
                     /\ \/ Stopped
                        \/ \E t \in TurnIds, s \in TurnTerminal, b \in BOOLEAN :
                             Finish(t, s, b) /\ cancelled' = cancelled \ {t}
                        \/ cancelled' = cancelled
                        \/ /\ cancelled \subseteq cancelled'
                           /\ \A t \in cancelled' : t \in cancelled \/ t \in Cancellable
                           /\ \/ Shutdown
                              \/ \E t \in TurnIds : InterruptTurn(t)
                              \/ \E r \in Requests : InterruptRoundCancel(r)
  <1>1. ASSUME NEW r \in Requests, Handler(r) PROVE Goal
    <2>1. CASE OwnerStep(r)
      BY <2>1 DEF OwnerStep, Prepare, SubmitRecheck, SubmitEnqueue, CompleteWrite,
           ReopenWrite, InterruptRoundWrite, InterruptRoundInbox, InterruptRoundTask,
           InterruptRoundCancel, HandlerRest
    <2>2. CASE LiveStep(r)
      BY <2>2 DEF LiveStep, LiveClaim, LiveWait, LiveWaitTimeout, LiveAck, HandlerRest
    <2> QED
      BY <1>1, <2>1, <2>2 DEF Handler, StartTask, Submit, CompleteTask, ReopenTask,
           InterruptRound, LiveCall, LiveAckCall, Disconnect, HandlerRest
  <1>2. ASSUME NEW t \in TurnIds, TurnStep(t) PROVE Goal
    <2>1. CASE Succeed(t) \/ Fail(t) \/ Interrupted(t)
      BY <2>1 DEF Succeed, Fail, Interrupted, Finish, TurnTerminal
    <2>2. CASE \/ Advance(t) \/ AdvanceCancelled(t) \/ PrepareFail(t)
               \/ TailProcessed(t) \/ TailSweep(t) \/ TailRetry(t) \/ TailNoRetry(t)
               \/ TailRoute(t) \/ TailFanIn(t) \/ TailAborted(t)
      BY <2>2 DEF Advance, AdvanceCancelled, PrepareFail, TailProcessed, TailSweep,
           TailRetry, TailNoRetry, TailRoute, TailFanIn, FanIn, TailAborted, RunRest, TailRest
    <2>3. CASE \/ SettleNot(t) \/ SettleBegin(t) \/ SettlePending(t)
               \/ SettleRound(t) \/ SettleTask(t)
      BY <2>3 DEF SettleNot, SettleBegin, SettlePending, SettleRound, SettleTask, SettleRest
    <2> QED
      BY <1>2, <2>1, <2>2, <2>3 DEF TurnStep
  <1>3. ASSUME NEW x \in Threads, ScheduleAgent(x) PROVE Goal
    BY <1>3 DEF ScheduleAgent, ScheduleNothing, ScheduleClosedRound, ScheduleRead,
         ScheduleClaim, ScheduleRefused
  <1>4. ASSUME Stop \/ Crash PROVE Goal
    BY <1>4 DEF Stop, Crash
  <1>5. ASSUME \/ MergeFires \/ MergeFanIn \/ BootStep \/ Shutdown
               \/ \E t \in TurnIds : InterruptTurn(t)
               \/ UNCHANGED vars
        PROVE  Goal
    BY <1>5 DEF MergeFires, MergeFanIn, FanIn, TailRest, Shutdown, BootStep, Restart,
         ResumeNext, ResumeDone, InterruptTurn, vars, procVars
  <1> QED
    BY <1>1, <1>2, <1>3, <1>4, <1>5 DEF Next

\* What has not ended or begun to, had not before.
LEMMA Steady ==
  ASSUME TypeInv, [Next]_vars, crashes' = 0, ~ closing'
  PROVE  ~ Stopped /\ crashes = 0 /\ ~ closing
  <1>1. ~ Stopped
    <2>1. crashes + 1 # 0
      BY MaxCrashesAssumption DEF TypeInv, ProcTypeOK
    <2> QED
      BY <2>1 DEF Stopped
  <1>2. crashes' = crashes /\ (Shutdown \/ closing' = closing)
    BY <1>1, ContextSteps
  <1>3. closing' = closing
    BY <1>2 DEF Shutdown
  <1> QED
    BY <1>1, <1>2, <1>3

\* The goroutine that holds a batch marks it processed, or its context is
\* cancelled and stays so.
Holds(t) == th[t].pc \in {"run", "processed"} \/ t \in cancelled

LEMMA HolderThread ==
  ASSUME TypeInv, [Next]_vars, NEW t \in TurnIds, Inserted(t), Holds(t), ~ Stopped
  PROVE  Holds(t)' \/ TailProcessed(t)
  <1>0. /\ th \in ThreadTable /\ t \in Threads
    BY ThreadKinds DEF TypeInv
  <1>1. ASSUME NEW s \in TurnTerminal, NEW b \in BOOLEAN, Finish(t, s, b)
        PROVE  Holds(t)'
    BY <1>0, <1>1 DEF Finish, Holds, ThreadTable, ThreadStates
  <1>2. CASE t \in cancelled
    BY <1>1, <1>2, ContextSteps DEF Holds
  <1>3. CASE t \notin cancelled /\ th[t].pc \in {"run", "processed"}
    <2>1. CASE th'[t] = th[t]
      BY <1>3, <2>1 DEF Holds
    <2>2. CASE TurnStep(t)
      <3>1. CASE Succeed(t) \/ Fail(t) \/ Interrupted(t)
        BY <1>1, <3>1 DEF Succeed, Fail, Interrupted, TurnTerminal
      <3>2. CASE Advance(t) \/ PrepareFail(t)
        BY <1>0, <1>3, <3>2 DEF Advance, PrepareFail, Goto, Holds, ThreadTable, ThreadStates
      <3>3. ASSUME \/ AdvanceCancelled(t) \/ TailAborted(t)
                   \/ TailSweep(t) \/ TailRetry(t) \/ TailNoRetry(t)
                   \/ TailRoute(t) \/ TailFanIn(t)
                   \/ SettleNot(t) \/ SettleBegin(t) \/ SettlePending(t)
                   \/ SettleRound(t) \/ SettleTask(t)
            PROVE  FALSE
        BY <1>3, <3>3 DEF AdvanceCancelled, TailAborted, ContextOK, TailSweep, TailRetry,
             TailNoRetry, TailRoute, TailFanIn, FanIn, SettleNot, SettleBegin,
             SettlePending, SettleRound, SettleTask, At
      <3> QED
        BY <2>2, <3>1, <3>2, <3>3 DEF TurnStep
    <2>3. ASSUME ScheduleAgent(t) PROVE FALSE
      BY <1>3, <2>3 DEF ScheduleAgent, ScheduleNothing, ScheduleClosedRound, ScheduleRead,
           ScheduleClaim, ScheduleRefused, EnterSchedule, At
    <2> QED
      BY <2>1, <2>2, <2>3, TurnThread DEF Inserted
  <1> QED
    BY <1>2, <1>3 DEF Holds

HeldInv == /\ BatchInv /\ ClaimedIsHeld
           /\ \A t \in cancelled : Inserted(t)

LEMMA InitHeld == Init => HeldInv
  BY InitBatch DEF Init, StoreInit, NoItem, HeldInv, ClaimedIsHeld

LEMMA NextHeld == TypeInv /\ HeldInv /\ [Next]_vars => HeldInv'
  <1> SUFFICES ASSUME TypeInv, HeldInv, [Next]_vars PROVE HeldInv'
    OBVIOUS
  <1>1. ASSUME NEW t \in cancelled' PROVE Inserted(t)'
    <2>1. ~ Stopped
      BY <1>1 DEF Stopped
    <2>2. t \in cancelled \/ t \in Cancellable
      BY <1>1, <2>1, ContextSteps
    <2>3. t \in TurnIds /\ Inserted(t)
      BY <2>2 DEF HeldInv, BatchInv, Running, Cancellable, At, TypeInv, ProcTypeOK
    <2> QED
      BY <2>3, RowsKept
  <1>2. ASSUME crashes' = 0, ~ closing', NEW i \in ItemIds, inbox'[i].status = "claimed"
        PROVE  \E t \in TurnIds : turn'[t].batch = inbox'[i].batch /\ Holds(t)'
    <2>1. ~ Stopped /\ crashes = 0 /\ ~ closing
      BY <1>2, Steady
    <2>2. inbox[i] \in Items
      BY DEF TypeInv, InboxTable
    <2>3. CASE inbox'[i] = inbox[i]
      <3>1. PICK t \in TurnIds : turn[t].batch = inbox[i].batch /\ Holds(t)
        BY <1>2, <2>1, <2>3 DEF HeldInv, ClaimedIsHeld, Holds
      <3>2. Inserted(t)
        BY <3>1 DEF HeldInv, BatchInv, Running, Holds
      <3>3. turn'[t].batch = inbox'[i].batch
        BY <2>3, <3>1, <3>2, RowsKept
      <3>4. ~ TailProcessed(t)
        BY <1>2, <2>2, <2>3, <3>1 DEF TailProcessed, BatchProcessed, Items
      <3> QED
        BY <2>1, <3>1, <3>2, <3>3, <3>4, HolderThread
    <2>4. CASE IsClaimed(i)
      <3>1. PICK t \in TurnIds :
              /\ turn'[t].batch = t /\ th'[t] = NewRun
              /\ inbox'[i] = [inbox[i] EXCEPT !.status = "claimed", !.batch = t]
        BY <2>4 DEF IsClaimed
      <3>2. th'[t].pc = "run" /\ inbox'[i].batch = t
        BY <2>1, <2>2, <3>1 DEF NewRun, Idle, Items
      <3> QED
        BY <3>1, <3>2 DEF Holds
    <2>5. ASSUME \/ Arrives(i) \/ IsCancelled(i) \/ IsTaken(i) \/ IsSettled(i)
                 \/ IsRecovered(i)
          PROVE  FALSE
      BY <1>2, <2>2, <2>5 DEF Arrives, IsCancelled, IsTaken, IsSettled, IsRecovered,
           Requeued, Items, InTurn
    <2> QED
      BY <2>3, <2>4, <2>5, ItemSteps
  <1>3. ClaimedIsHeld'
    BY <1>2 DEF ClaimedIsHeld, Holds
  <1> QED
    BY <1>1, <1>3, NextBatch DEF HeldInv

\* The items of a batch are never forgotten: they stay with a goroutine that
\* will mark them, or with one that an interrupt has cut off.
THEOREM BatchesAreHeld == Spec => []ClaimedIsHeld
  <1>1. HeldInv => ClaimedIsHeld
    BY DEF HeldInv
  <1> QED
    BY <1>1, InitHeld, NextHeld, Typed, PTL DEF Spec
-----------------------------------------------------------------------------
(* The outcome of a sub-agent is routed *)

\* A new turn has a goroutine, all the rows before it are there, and it takes
\* its agent and its round from the claim or from the attempt it repeats.
LEMMA NewGoroutine ==
  ASSUME TypeInv, [Next]_vars, NEW t \in TurnIds, ~ Inserted(t), Inserted(t)'
  PROVE  /\ th'[t] = NewRun
         /\ \A u \in TurnIds : u < t => Inserted(u)
         /\ \A u \in TurnIds : TailRetry(u) => /\ turn'[t].agent = turn[u].agent
                                               /\ turn'[t].round = turn[u].round
         /\ \A x \in Threads : ScheduleClaim(x) =>
              /\ turn'[t].agent = th[x].agent
              /\ \E i \in th[x].items : /\ inbox[i].status = "pending"
                                        /\ turn'[t].round = inbox[i].round
         /\ (\E u \in TurnIds : TailRetry(u)) \/ (\E x \in Threads : ScheduleClaim(x))
  <1> USE DEF Inserted
  <1>0. /\ turn \in TurnTable /\ turn[t] \in Turns /\ turn'[t] # turn[t]
        /\ th \in ThreadTable /\ t \in Threads
    BY ThreadKinds DEF TypeInv, TurnTable
  <1>1. ASSUME NEW n \in TurnIds, First(FreeTurns, n)
        PROVE  \A u \in TurnIds : u < n => Inserted(u)
    BY <1>1 DEF First, FreeTurns, TurnIds
  <1>2. ASSUME NEW x \in Threads, ScheduleClaim(x)
        PROVE  /\ th'[t] = NewRun
               /\ \A u \in TurnIds : u < t => Inserted(u)
               /\ turn'[t].agent = th[x].agent
               /\ \E i \in th[x].items : /\ inbox[i].status = "pending"
                                         /\ turn'[t].round = inbox[i].round
    <2>1. PICK n \in TurnIds, i \in ItemIds :
            /\ First(th[x].items, i)
            /\ ClaimInboxAndCreateTurn(th[x].agent, inbox[i].round, th[x].items, n)
            /\ th' = [th EXCEPT ![x] = Back(x), ![n] = NewRun]
      BY <1>2 DEF ScheduleClaim
    <2>2. PICK g \in 0..MaxTurns :
            turn' = [turn EXCEPT ![n] =
                       [agent |-> th[x].agent, round |-> inbox[i].round,
                        status |-> "queued", attempt |-> 1, generation |-> g,
                        batch |-> n, retryable |-> FALSE]]
      BY <2>1 DEF ClaimInboxAndCreateTurn
    <2>3. n = t
      BY <1>0, <2>2 DEF TurnTable
    <2>4. th'[t] = NewRun /\ \A u \in TurnIds : u < t => Inserted(u)
      BY <1>0, <1>1, <2>1, <2>3 DEF ClaimInboxAndCreateTurn, ThreadTable
    <2>5. turn'[t].agent = th[x].agent /\ turn'[t].round = inbox[i].round
      BY <1>0, <2>2, <2>3 DEF TurnTable
    <2>6. i \in th[x].items /\ inbox[i].status = "pending"
      BY <1>2, <2>1 DEF ScheduleClaim, CanClaim, First
    <2> QED
      BY <2>4, <2>5, <2>6
  <1>3. ASSUME NEW u \in TurnIds, TailRetry(u)
        PROVE  /\ th'[t] = NewRun
               /\ \A v \in TurnIds : v < t => Inserted(v)
               /\ turn'[t].agent = turn[u].agent /\ turn'[t].round = turn[u].round
    <2>1. PICK n \in TurnIds :
            CreateRetry(u, n) /\ th' = [th EXCEPT ![u].pc = "settle", ![n] = NewRun]
      BY <1>3 DEF TailRetry
    <2>2. n = t
      BY <1>0, <2>1 DEF CreateRetry, TurnTable
    <2>3. th'[t] = NewRun /\ \A v \in TurnIds : v < t => Inserted(v)
      BY <1>0, <1>1, <2>1, <2>2 DEF CreateRetry, ThreadTable
    <2>4. turn'[t] = [turn[u] EXCEPT !.status = "queued", !.retryable = FALSE,
                                     !.attempt = turn[u].attempt + 1]
      BY <1>0, <2>1, <2>2 DEF CreateRetry, TurnTable
    <2>5. turn'[t].agent = turn[u].agent /\ turn'[t].round = turn[u].round
      BY <1>0, <2>4 DEF TurnTable, Turns
    <2> QED
      BY <2>3, <2>5
  <1>4. ASSUME NEW u \in TurnIds, Advance(u) \/ PrepareFail(u)
        PROVE  FALSE
    BY <1>0, <1>4 DEF Advance, PrepareFail, TurnUpdated, StartingUp, TurnTable
  <1>5. ASSUME NEW u \in TurnIds, NEW s \in TurnTerminal, NEW b \in BOOLEAN, Finish(u, s, b)
        PROVE  FALSE
    BY <1>0, <1>5 DEF Finish, TurnTable
  <1>6. ASSUME Restart PROVE FALSE
    BY <1>0, <1>6 DEF Restart, RecoverInterrupted, ActiveTurns, TurnActive, TurnTable
  <1> QED
    BY <1>0, <1>2, <1>3, <1>4, <1>5, <1>6, Writers DEF TurnWriter

\* An active turn runs, unless it was interrupted before it ran.
ActiveRuns(t) == up /\ ~ closing /\ turn[t].status \in TurnActive
                 => th[t].pc = "run" \/ t \in cancelled

LEMMA NextActive ==
  ASSUME TypeInv, [Next]_vars, NEW t \in TurnIds, ActiveRuns(t)
  PROVE  ActiveRuns(t)'
  <1> SUFFICES ASSUME up', ~ closing', turn'[t].status \in TurnActive
               PROVE  th'[t].pc = "run" \/ t \in cancelled'
    BY DEF ActiveRuns
  <1>0. /\ th \in ThreadTable /\ t \in Threads /\ turn \in TurnTable
        /\ turn'[t].status \notin TurnTerminal /\ Inserted(t)'
    BY ThreadKinds DEF TypeInv, TurnActive, TurnTerminal, Inserted
  <1>1. ~ Stopped /\ ~ Shutdown
    BY DEF Stopped, Shutdown
  <1>2. ASSUME Restart PROVE FALSE
    <2>1. turn'[t] = IF t \in ActiveTurns THEN [turn[t] EXCEPT !.status = "interrupted"]
                     ELSE turn[t]
      BY <1>2 DEF Restart, RecoverInterrupted
    <2>2. turn[t] \in Turns
      BY <1>0 DEF TurnTable
    <2> QED
      BY <1>0, <2>1, <2>2 DEF ActiveTurns, Turns, TurnTerminal, TurnActive
  <1>3. ~ closing
    <2>1. closing' = closing
      BY <1>1, ContextSteps
    <2> QED
      BY <2>1
  <1>4. up
    <2>1. up' = up
      BY <1>1, <1>2, ContextSteps
    <2> QED
      BY <2>1
  <1>5. CASE ~ Inserted(t)
    <2>1. th'[t] = NewRun
      BY <1>0, <1>5, NewGoroutine
    <2> QED
      BY <1>3, <2>1 DEF NewRun, Idle
  <1>6. CASE Inserted(t)
    <2>1. turn[t].status \in TurnActive
      <3>1. turn[t].status \notin TurnTerminal
        BY <1>0, <1>6, RowsKept
      <3>2. turn[t].status \in TurnStatus
        BY <1>6 DEF Inserted, TypeInv, TurnTable, Turns
      <3> QED
        BY <3>1, <3>2 DEF TurnStatus, TurnActive, TurnTerminal
    <2>2. ASSUME NEW s \in TurnTerminal, NEW b \in BOOLEAN, Finish(t, s, b) PROVE FALSE
      <3>1. turn'[t].status = s
        BY <1>0, <2>2 DEF Finish, TurnTable, Turns
      <3> QED
        BY <1>0, <2>2, <3>1
    <2>3. CASE t \in cancelled
      BY <1>1, <2>2, <2>3, ContextSteps
    <2>4. CASE t \notin cancelled /\ th[t].pc = "run"
      <3>1. CASE TurnStep(t)
        <4>1. ASSUME \/ Succeed(t) \/ Fail(t) \/ Interrupted(t) PROVE FALSE
          BY <2>2, <4>1 DEF Succeed, Fail, Interrupted, TurnTerminal
        <4>2. ASSUME PrepareFail(t) PROVE FALSE
          BY <1>0, <4>2 DEF PrepareFail, TurnUpdated, TurnTable, Turns, TurnTerminal
        <4>3. CASE Advance(t)
          BY <2>4, <4>3 DEF Advance
        <4>4. ASSUME \/ AdvanceCancelled(t) \/ TailAborted(t) \/ TailProcessed(t)
                     \/ TailSweep(t) \/ TailRetry(t) \/ TailNoRetry(t)
                     \/ TailRoute(t) \/ TailFanIn(t)
                     \/ SettleNot(t) \/ SettleBegin(t) \/ SettlePending(t)
                     \/ SettleRound(t) \/ SettleTask(t)
              PROVE  FALSE
          BY <2>4, <4>4 DEF AdvanceCancelled, TailAborted, ContextOK, TailProcessed,
               TailSweep, TailRetry, TailNoRetry, TailRoute, TailFanIn, FanIn, SettleNot,
               SettleBegin, SettlePending, SettleRound, SettleTask, At
        <4> QED
          BY <3>1, <4>1, <4>2, <4>3, <4>4 DEF TurnStep
      <3>2. ASSUME ScheduleAgent(t) PROVE FALSE
        BY <2>4, <3>2 DEF ScheduleAgent, ScheduleNothing, ScheduleClosedRound, ScheduleRead,
           ScheduleClaim, ScheduleRefused, EnterSchedule, At
      <3> QED
        BY <1>1, <1>6, <2>4, <3>1, <3>2, TurnThread DEF Inserted
    <2> QED
      BY <1>3, <1>4, <2>1, <2>3, <2>4 DEF ActiveRuns
  <1> QED
    BY <1>5, <1>6

\* An item keeps what it was inserted with.
LEMMA ItemKept ==
  ASSUME TypeInv, [Next]_vars, NEW i \in ItemIds, inbox[i].status # "none"
  PROVE  /\ inbox'[i].status # "none" /\ inbox'[i].source = inbox[i].source
         /\ inbox'[i].agent = inbox[i].agent /\ inbox'[i].round = inbox[i].round
  <1>1. inbox[i] \in Items
    BY DEF TypeInv, InboxTable
  <1>2. CASE inbox'[i] = inbox[i]
    BY <1>2
  <1>3. ASSUME Arrives(i) PROVE FALSE
    BY <1>3 DEF Arrives
  <1>4. CASE IsCancelled(i) \/ IsClaimed(i) \/ IsTaken(i)
    BY <1>1, <1>4 DEF IsCancelled, IsClaimed, IsTaken, Items, InTurn
  <1>5. CASE IsSettled(i) \/ IsRecovered(i)
    BY <1>1, <1>5 DEF IsSettled, IsRecovered, Requeued, Items
  <1> QED
    BY <1>2, <1>3, <1>4, <1>5, ItemSteps

\* OutcomesRouted says what holds when all is quiet; before that, the outcome of
\* a turn is in Main's inbox, or its goroutine is on the way to the routing, or
\* a later turn of the agent in the round has taken its place.
Delivered(t)  == \E i \in ItemIds : /\ inbox[i].status # "none"
                                    /\ inbox[i].source = t
                                    /\ inbox[i].agent = Main
Superseded(t) == \E u \in TurnIds : /\ t < u /\ Inserted(u)
                                    /\ turn[u].agent = turn[t].agent
                                    /\ turn[u].round = turn[t].round
Handled(t) ==
  /\ crashes = 0 /\ ~ closing /\ FreeItems # {}
  /\ Inserted(t) /\ turn[t].agent # Main /\ t \notin cancelled
  /\ th[t].pc \notin Early \cup {"route"}
  => Delivered(t) \/ Superseded(t)
\* Keys are given in order, so the retry of a turn comes after it.
InOrder(t) == Inserted(t) => \A u \in TurnIds : u < t => Inserted(u)
OutcomeInv == \A t \in TurnIds : InOrder(t) /\ ActiveRuns(t) /\ Handled(t)

LEMMA InitOutcome == Init => OutcomeInv
  <1> SUFFICES ASSUME Init, NEW t \in TurnIds PROVE InOrder(t) /\ ActiveRuns(t) /\ Handled(t)
    BY DEF OutcomeInv
  <1>1. turn[t].status = "none"
    BY DEF Init, StoreInit, NoTurn
  <1> QED
    BY <1>1 DEF InOrder, ActiveRuns, TurnActive, Handled, Inserted

LEMMA NextHandled ==
  ASSUME TypeInv, [Next]_vars, NEW t \in TurnIds, InOrder(t), Handled(t)
  PROVE  Handled(t)'
  <1> SUFFICES ASSUME crashes' = 0, ~ closing', FreeItems' # {},
                      Inserted(t)', turn'[t].agent # Main, t \notin cancelled',
                      th'[t].pc \notin Early, th'[t].pc # "route"
               PROVE  Delivered(t)' \/ Superseded(t)'
    BY DEF Handled
  <1>1. ~ Stopped /\ crashes = 0 /\ ~ closing
    BY Steady
  <1>2. FreeItems # {}
    BY ItemKept DEF FreeItems
  <1>3. Inserted(t)
    <2>1. ASSUME ~ Inserted(t) PROVE th'[t].pc = "run"
      BY <1>1, <2>1, NewGoroutine DEF NewRun, Idle
    <2> QED
      BY <2>1 DEF Early
  <1>4. turn[t].agent # Main /\ turn'[t].agent = turn[t].agent /\ turn'[t].round = turn[t].round
    BY <1>3, RowsKept
  <1>5. /\ th \in ThreadTable /\ t \in Threads
    BY ThreadKinds DEF TypeInv
  <1>6. ASSUME NEW s \in TurnTerminal, NEW b \in BOOLEAN, Finish(t, s, b) PROVE FALSE
    <2>1. th'[t].pc = "processed"
      BY <1>5, <1>6 DEF Finish, ThreadTable, ThreadStates
    <2> QED
      BY <2>1 DEF Early
  <1>7. t \notin cancelled
    BY <1>1, <1>6, ContextSteps
  <1>8. CASE th[t].pc \notin Early \cup {"route"}
    <2>1. CASE Delivered(t)
      BY <2>1, ItemKept DEF Delivered
    <2>2. CASE Superseded(t)
      <3>1. PICK u \in TurnIds : /\ t < u /\ Inserted(u) /\ turn[u].agent = turn[t].agent
                                 /\ turn[u].round = turn[t].round
        BY <2>2 DEF Superseded
      <3>2. Inserted(u)' /\ turn'[u].agent = turn'[t].agent /\ turn'[u].round = turn'[t].round
        BY <1>4, <3>1, RowsKept
      <3> QED
        BY <3>1, <3>2 DEF Superseded, Inserted
    <2> QED
      BY <1>1, <1>2, <1>3, <1>4, <1>7, <1>8, <2>1, <2>2 DEF Handled
  <1>9. CASE TailRetry(t)
    <2>1. PICK n \in TurnIds : CreateRetry(t, n)
      BY <1>9 DEF TailRetry
    <2>2. ~ Inserted(n) /\ Inserted(n)'
      <3>1. turn'[n].status = "queued"
        BY <2>1 DEF CreateRetry, TypeInv, TurnTable, Turns
      <3> QED
        BY <2>1, <3>1 DEF CreateRetry, First, FreeTurns, Inserted
    <2>3. t < n
      BY <1>3, <2>2 DEF InOrder, TurnIds
    <2>4. turn'[n].agent = turn[t].agent /\ turn'[n].round = turn[t].round
      BY <1>9, <2>2, NewGoroutine
    <2> QED
      BY <1>4, <2>2, <2>3, <2>4 DEF Superseded, Inserted
  <1>10. CASE TailRoute(t)
    <2>1. CASE CanRoute(t)
      <3>1. EnqueueAgentRoute(t)
        BY <1>4, <1>10, <2>1 DEF TailRoute
      <3>2. PICK i \in ItemIds :
              inbox' = [inbox EXCEPT ![i] = [NoItem EXCEPT !.round = turn[t].round,
                                                    !.kind = "agent_result",
                                                    !.status = "pending",
                                                    !.source = t]]
        BY <3>1 DEF EnqueueAgentRoute
      <3>3. inbox'[i] = [NoItem EXCEPT !.round = turn[t].round, !.kind = "agent_result",
                                       !.status = "pending", !.source = t]
        BY <3>2 DEF TypeInv, InboxTable
      <3>4. inbox'[i].status = "pending" /\ inbox'[i].source = t /\ inbox'[i].agent = Main
        BY <3>3 DEF NoItem
      <3> QED
        BY <3>4 DEF Delivered
    <2>2. CASE ~ CanRoute(t)
      <3>1. Delivered(t)
        BY <1>2, <2>2 DEF CanRoute, Delivered
      <3> QED
        BY <3>1, ItemKept DEF Delivered
    <2> QED
      BY <2>1, <2>2
  <1>11. ASSUME th[t].pc \in Early \cup {"route"}, ~ TailRetry(t), ~ TailRoute(t)
         PROVE  FALSE
    <2>1. ASSUME TurnStep(t) PROVE FALSE
      <3>1. ASSUME Succeed(t) \/ Fail(t) \/ Interrupted(t) PROVE FALSE
        BY <1>6, <3>1 DEF Succeed, Fail, Interrupted, TurnTerminal
      <3>2. ASSUME AdvanceCancelled(t) \/ TailAborted(t) PROVE FALSE
        BY <1>7, <3>2 DEF AdvanceCancelled, TailAborted, ContextOK
      <3>3. ASSUME \/ Advance(t) \/ PrepareFail(t) \/ TailProcessed(t) \/ TailSweep(t)
                   \/ TailNoRetry(t)
            PROVE  th'[t].pc \in Early \cup {"route"}
        BY <1>5, <3>3 DEF Advance, PrepareFail, TailProcessed, TailSweep, TailNoRetry, Goto,
             At, Early, ThreadTable, ThreadStates
      <3>4. ASSUME \/ TailFanIn(t) \/ SettleNot(t) \/ SettleBegin(t) \/ SettlePending(t)
                   \/ SettleRound(t) \/ SettleTask(t)
            PROVE  FALSE
        BY <1>11, <3>4 DEF TailFanIn, FanIn, SettleNot, SettleBegin, SettlePending,
             SettleRound, SettleTask, At, Early
      <3> QED
        BY <1>11, <2>1, <3>1, <3>2, <3>3, <3>4 DEF TurnStep
    <2>2. ASSUME ScheduleAgent(t) PROVE FALSE
      BY <1>11, <2>2 DEF ScheduleAgent, ScheduleNothing, ScheduleClosedRound, ScheduleRead,
           ScheduleClaim, ScheduleRefused, EnterSchedule, At, Early
    <2> QED
      BY <1>1, <1>3, <1>11, <2>1, <2>2, TurnThread DEF Inserted
  <1> QED
    BY <1>8, <1>9, <1>10, <1>11

\* When all is quiet every outcome has been routed, whatever the order of the
\* tails, the merge timer and the schedulers, as long as no process ended, no
\* goroutine was cut off by an interrupt and there was room for the item.
THEOREM QuietIsRouted ==
  Spec => [](crashes = 0 /\ ~ closing /\ cancelled = {} /\ FreeItems # {} => OutcomesRouted)
  <1>1. TypeInv /\ OutcomeInv /\ [Next]_vars => OutcomeInv'
    <2>1. ASSUME TypeInv, [Next]_vars, NEW t \in TurnIds, InOrder(t) PROVE InOrder(t)'
      BY <2>1, NewGoroutine, RowsKept DEF InOrder, Inserted
    <2> QED
      BY <2>1, NextActive, NextHandled DEF OutcomeInv
  <1>2. TypeInv /\ OutcomeInv
        => (crashes = 0 /\ ~ closing /\ cancelled = {} /\ FreeItems # {} => OutcomesRouted)
    <2> SUFFICES ASSUME TypeInv, OutcomeInv, crashes = 0, ~ closing, cancelled = {},
                        FreeItems # {}, AtRest,
                        NEW r \in RoundIds, NEW a \in Subs, NEW t \in TurnIds,
                        Last({u \in TurnsOf(r) : turn[u].agent = a}, t)
                 PROVE  turn[t].status \in TurnTerminal /\ Delivered(t)
      BY DEF OutcomesRouted, FannedIn, Delivered
    <2>1. Inserted(t) /\ turn[t].agent = a /\ turn[t].round = r /\ a # Main
      BY SubsAssumption DEF Last, TurnsOf, Inserted
    <2>2. th[t].pc = "idle" /\ up
      BY ThreadKinds DEF AtRest, At
    <2>3. turn[t].status \in TurnTerminal
      <3>1. turn[t].status \in TurnStatus
        BY <2>1 DEF Inserted, TypeInv, TurnTable, Turns
      <3> QED
        BY <2>2, <3>1 DEF OutcomeInv, ActiveRuns, TurnStatus, TurnActive, TurnTerminal
    <2>4. ~ Superseded(t)
      BY <2>1 DEF Superseded, Last, TurnsOf, Inserted, TurnIds
    <2>5. Delivered(t) \/ Superseded(t)
      BY <2>1, <2>2 DEF OutcomeInv, Handled, Early
    <2> QED
      BY <2>3, <2>4, <2>5
  <1> QED
    BY <1>1, <1>2, InitOutcome, Typed, PTL DEF Spec
-----------------------------------------------------------------------------
(* A pending item has a waker *)

\* The environment in which no call takes or gives back items of a running turn
\* and no call or goroutine is cut off while it is on the way to scheduleAgent.
Undisturbed == Ops \cap {"live", "interrupt_turn", "interrupt_round", "disconnect"} = {}

\* Who takes and leaves scheduleMu, the merge timer and the agents to resume.
LEMMA LockSteps ==
  ASSUME TypeInv, [Next]_vars
  PROVE  /\ \/ schedLock' = schedLock \/ Stopped
            \/ \E x \in Threads : \/ ScheduleRead(x) /\ schedLock' = x
                                  \/ ScheduleClaim(x) \/ ScheduleRefused(x)
            \/ \E t \in TurnIds : TailAborted(t)
            \/ \E r \in Requests : Disconnect(r)
         /\ \/ merge' = merge \/ Stopped \/ MergeFires \/ MergeFanIn
            \/ \E t \in TurnIds : TailFanIn(t)
            \/ \E r \in Requests : SubmitRecheck(r) \/ InterruptRoundInbox(r)
         /\ resume' = resume \/ Stopped \/ Restart \/ ResumeNext
  <1> DEFINE Goal ==
         /\ \/ schedLock' = schedLock \/ Stopped
            \/ \E x \in Threads : \/ ScheduleRead(x) /\ schedLock' = x
                                  \/ ScheduleClaim(x) \/ ScheduleRefused(x)
            \/ \E t \in TurnIds : TailAborted(t)
            \/ \E r \in Requests : Disconnect(r)
         /\ \/ merge' = merge \/ Stopped \/ MergeFires \/ MergeFanIn
            \/ \E t \in TurnIds : TailFanIn(t)
            \/ \E r \in Requests : SubmitRecheck(r) \/ InterruptRoundInbox(r)
         /\ resume' = resume \/ Stopped \/ Restart \/ ResumeNext
  <1>1. ASSUME NEW r \in Requests, Handler(r) PROVE Goal
    <2>1. CASE OwnerStep(r)
      BY <2>1 DEF OwnerStep, Prepare, SubmitRecheck, SubmitEnqueue, CompleteWrite,
           ReopenWrite, InterruptRoundWrite, InterruptRoundInbox, InterruptRoundTask,
           InterruptRoundCancel, HandlerRest
    <2>2. CASE LiveStep(r)
      BY <2>2 DEF LiveStep, LiveClaim, LiveWait, LiveWaitTimeout, LiveAck, HandlerRest
    <2> QED
      BY <1>1, <2>1, <2>2 DEF Handler, StartTask, Submit, CompleteTask, ReopenTask,
           InterruptRound, LiveCall, LiveAckCall, Disconnect, HandlerRest
  <1>2. ASSUME NEW t \in TurnIds, TurnStep(t) PROVE Goal
    <2>1. CASE \/ Advance(t) \/ AdvanceCancelled(t) \/ PrepareFail(t)
               \/ Succeed(t) \/ Fail(t) \/ Interrupted(t)
               \/ TailProcessed(t) \/ TailSweep(t) \/ TailRetry(t) \/ TailNoRetry(t)
               \/ TailRoute(t)
      BY <2>1 DEF Advance, AdvanceCancelled, PrepareFail, Succeed, Fail, Interrupted, Finish,
           TailProcessed, TailSweep, TailRetry, TailNoRetry, TailRoute, RunRest, TailRest
    <2>2. CASE \/ SettleNot(t) \/ SettleBegin(t) \/ SettlePending(t)
               \/ SettleRound(t) \/ SettleTask(t)
      BY <2>2 DEF SettleNot, SettleBegin, SettlePending, SettleRound, SettleTask, SettleRest
    <2>3. CASE TailFanIn(t) \/ TailAborted(t)
      BY <2>3 DEF TailFanIn, FanIn, TailAborted, TailRest
    <2> QED
      BY <1>2, <2>1, <2>2, <2>3 DEF TurnStep
  <1>3. ASSUME NEW x \in Threads, ScheduleAgent(x) PROVE Goal
    BY <1>3 DEF ScheduleAgent, ScheduleNothing, ScheduleClosedRound, ScheduleRead,
         ScheduleClaim, ScheduleRefused
  <1>4. ASSUME Stop \/ Crash PROVE Goal
    BY <1>4 DEF Stop, Crash
  <1>5. ASSUME \/ MergeFires \/ MergeFanIn \/ BootStep \/ Shutdown
               \/ \E t \in TurnIds : InterruptTurn(t)
               \/ UNCHANGED vars
        PROVE  Goal
    BY <1>5 DEF MergeFires, MergeFanIn, FanIn, TailRest, Shutdown, BootStep, Restart,
         ResumeNext, ResumeDone, InterruptTurn, vars, procVars
  <1> QED
    BY <1>1, <1>2, <1>3, <1>4, <1>5 DEF Next

\* The labels an undisturbed handler never comes to, and the form of a thread.
Disturbing == {"live_claim", "live_wait", "live_ack",
               "round_write", "round_inbox", "round_task", "round_cancel"}
Formed(x)  == /\ th[x].then \in {"idle", "fan_in", "settle", "resume"}
              /\ x \in Requests => th[x].pc \notin Disturbing
              /\ x = MergeTimer => /\ th[x].then = "idle"
                                   /\ th[x].pc = "fan_in" => th[x].round # 0

LEMMA CalmHandler ==
  ASSUME Undisturbed, NEW r \in Requests, Handler(r), th[r].pc \notin Disturbing
  PROVE  \/ StartTask(r) \/ \E a \in Agents : Submit(r, a)
         \/ CompleteTask(r) \/ ReopenTask(r)
         \/ Prepare(r) \/ SubmitRecheck(r) \/ SubmitEnqueue(r)
         \/ CompleteWrite(r) \/ ReopenWrite(r)
  <1>1. ASSUME LiveStep(r) PROVE FALSE
    BY <1>1 DEF LiveStep, LiveClaim, LiveWait, LiveWaitTimeout, LiveAck, At, Disturbing
  <1>2. ASSUME \/ InterruptRoundWrite(r) \/ InterruptRoundInbox(r)
               \/ InterruptRoundTask(r) \/ InterruptRoundCancel(r)
        PROVE  FALSE
    BY <1>2 DEF InterruptRoundWrite, InterruptRoundInbox, InterruptRoundTask,
         InterruptRoundCancel, At, Disturbing
  <1>3. ASSUME \/ InterruptRound(r) \/ Disconnect(r)
               \/ \E t \in TurnIds : LiveCall(r, t) \/ LiveAckCall(r, t)
        PROVE  FALSE
    BY <1>3 DEF InterruptRound, Disconnect, LiveCall, LiveAckCall, Undisturbed
  <1> QED
    BY <1>1, <1>2, <1>3 DEF Handler, OwnerStep

LEMMA HandlerForm ==
  ASSUME Undisturbed, TypeInv, NEW r \in Requests, Handler(r), Formed(r)
  PROVE  Formed(r)' /\ th'[r].pc # "claim"
  <1>0. /\ th \in ThreadTable /\ r \in Threads /\ r # MergeTimer
        /\ th[r].pc \notin Disturbing /\ th[r].then \in {"idle", "fan_in", "settle", "resume"}
    BY ThreadKinds, ThreadsAssumption DEF TypeInv, Formed
  <1>1. SUFFICES /\ th'[r].pc \notin Disturbing \cup {"claim"}
                 /\ th'[r].then \in {"idle", "fan_in", "settle", "resume"}
    BY <1>0 DEF Formed
  <1>2. CASE StartTask(r) \/ SubmitRecheck(r)
    BY <1>0, <1>2 DEF StartTask, SubmitRecheck, Goto, Exit, Idle, Disturbing, ThreadTable,
         ThreadStates
  <1>3. CASE Prepare(r) \/ CompleteWrite(r) \/ ReopenWrite(r)
    BY <1>0, <1>3 DEF Prepare, CompleteWrite, ReopenWrite, Exit, Idle, Disturbing, ThreadTable
  <1>4. CASE SubmitEnqueue(r)
    BY <1>0, <1>4 DEF SubmitEnqueue, Schedule, Idle, Disturbing, ThreadTable
  <1>5. ASSUME NEW a \in Agents, Submit(r, a)
        PROVE  th'[r].pc = "recheck" /\ th'[r].then = th[r].then
    <2>1. th'[r] = [th[r] EXCEPT !.pc = "recheck", !.agent = a]
      BY <1>0, <1>5 DEF Submit, ThreadTable
    <2> QED
      BY <1>0, <2>1 DEF ThreadTable, ThreadStates
  <1>6. ASSUME CompleteTask(r) \/ ReopenTask(r)
        PROVE  th'[r].pc \in {"complete", "reopen"} /\ th'[r].then = th[r].then
    <2>1. \E l \in {"complete", "reopen"} : th'[r] = [th[r] EXCEPT !.pc = l, !.seen = task]
      BY <1>0, <1>6 DEF CompleteTask, ReopenTask, ThreadTable
    <2> QED
      BY <1>0, <2>1 DEF ThreadTable, ThreadStates
  <1> QED
    BY <1>0, <1>2, <1>3, <1>4, <1>5, <1>6, CalmHandler DEF Disturbing

\* Only scheduleAgent comes to the claim.
LEMMA TurnClaims ==
  ASSUME TypeInv, NEW t \in TurnIds, TurnStep(t)
  PROVE  th'[t].pc # "claim"
  <1>0. t \in Threads /\ th \in ThreadTable
    BY ThreadKinds DEF TypeInv
  <1>1. CASE TailRetry(t)
    <2>1. PICK n \in TurnIds : th' = [th EXCEPT ![t].pc = "settle", ![n] = NewRun]
      BY <1>1 DEF TailRetry
    <2>2. th'[t] = NewRun \/ th'[t] = [th[t] EXCEPT !.pc = "settle"]
      BY <1>0, <2>1 DEF ThreadTable
    <2>3. NewRun.pc \in {"idle", "run"}
      BY DEF NewRun, Idle
    <2> QED
      BY <1>0, <2>2, <2>3 DEF ThreadTable, ThreadStates
  <1>2. CASE TailRoute(t)
    <2>1. \E a, l : Schedule(t, a, l)
      BY <1>2 DEF TailRoute
    <2>2. th'[t].pc = "schedule"
      BY <1>0, <2>1 DEF Schedule, Idle, ThreadTable
    <2> QED
      BY <2>2
  <1>3. CASE TailFanIn(t)
    <2>1. CASE Schedule(t, Main, "settle")
      BY <1>0, <2>1 DEF Schedule, Idle, ThreadTable
    <2>2. CASE th' = [th EXCEPT ![t] = [@ EXCEPT !.pc = "settle"]]
      BY <1>0, <2>2 DEF ThreadTable, ThreadStates
    <2> QED
      BY <1>3, <2>1, <2>2 DEF TailFanIn, FanIn
  <1>4. CASE \/ Advance(t) \/ AdvanceCancelled(t) \/ PrepareFail(t)
             \/ Succeed(t) \/ Fail(t) \/ Interrupted(t)
             \/ TailProcessed(t) \/ TailSweep(t) \/ TailNoRetry(t) \/ TailAborted(t)
    BY <1>0, <1>4
       DEF Advance, AdvanceCancelled, PrepareFail, Succeed, Fail, Interrupted, Finish,
           TailProcessed, TailSweep, TailNoRetry, TailAborted, At, Goto, Exit, Idle,
           ThreadTable, ThreadStates
  <1>5. CASE \/ SettleNot(t) \/ SettleBegin(t) \/ SettlePending(t)
             \/ SettleRound(t) \/ SettleTask(t)
    BY <1>0, <1>5 DEF SettleNot, SettleBegin, SettlePending, SettleRound, SettleTask,
                      Goto, Exit, Idle, ThreadTable, ThreadStates
  <1> QED
    BY <1>1, <1>2, <1>3, <1>4, <1>5 DEF TurnStep

LEMMA NextForm ==
  ASSUME Undisturbed, TypeInv, BatchInv, [Next]_vars, NEW x \in Threads, Formed(x)
  PROVE  /\ Formed(x)'
         /\ th'[x].pc = "claim" => ScheduleRead(x) \/ th'[x] = th[x]
  <1> DEFINE Goal == /\ Formed(x)'
                     /\ th'[x].pc = "claim" => ScheduleRead(x) \/ th'[x] = th[x]
  <1>0. /\ th \in ThreadTable /\ Requests \subseteq Threads /\ TurnIds \subseteq Threads
        /\ MergeTimer \notin Requests \cup TurnIds /\ Boot \notin Requests \cup TurnIds
        /\ MergeTimer # Boot /\ Requests \cap TurnIds = {}
    BY ThreadKinds, ThreadsAssumption DEF TypeInv
  <1>1. ASSUME th'[x] = Idle \/ (x \in TurnIds /\ th'[x] = NewRun) PROVE Goal
    BY <1>0, <1>1 DEF NewRun, Idle, Formed, Disturbing
  <1>2. CASE th'[x] = th[x]
    BY <1>2 DEF Formed
  <1>3. CASE x \in Requests /\ Handler(x)
    BY <1>3, HandlerForm
  <1>4. CASE x \in TurnIds /\ TurnStep(x)
    <2>1. th'[x].then \in Returns
      BY <1>4, EarlyThread DEF BatchInv
    <2> QED
      BY <1>0, <1>4, <2>1, TurnClaims DEF Returns, Formed
  <1>5. CASE ScheduleAgent(x)
    <2>1. /\ Back(x).pc \in {"idle", "fan_in", "settle", "resume"} /\ Back(x).then = "idle"
          /\ x = MergeTimer => Back(x).pc = "idle"
      BY DEF Back, Idle, Formed
    <2>2. ASSUME th'[x] = Back(x) PROVE Goal
      BY <1>0, <2>1, <2>2 DEF Formed, Disturbing
    <2>3. CASE ScheduleClaim(x)
      <3>1. PICK n \in TurnIds : th' = [th EXCEPT ![x] = Back(x), ![n] = NewRun]
        BY <2>3 DEF ScheduleClaim
      <3>2. th'[x] = Back(x) \/ (x \in TurnIds /\ th'[x] = NewRun)
        BY <1>0, <3>1 DEF ThreadTable
      <3> QED
        BY <1>1, <2>2, <3>2
    <2>4. CASE ScheduleRead(x)
      <3>1. th'[x] = [th[x] EXCEPT !.pc = "claim", !.items = PendingAgentInbox(th[x].agent)]
        BY <1>0, <2>4 DEF ScheduleRead, ThreadTable
      <3>2. th'[x].pc = "claim" /\ th'[x].then = th[x].then
        BY <1>0, <3>1 DEF ThreadTable, ThreadStates
      <3> QED
        BY <2>4, <3>2 DEF Formed, Disturbing
    <2>5. CASE ScheduleNothing(x) \/ ScheduleClosedRound(x) \/ ScheduleRefused(x)
      <3>1. th'[x] = Back(x)
        BY <1>0, <2>5 DEF ScheduleNothing, ScheduleClosedRound, ScheduleRefused, Return,
             ThreadTable
      <3> QED
        BY <2>2, <3>1
    <2> QED
      BY <1>5, <2>3, <2>4, <2>5 DEF ScheduleAgent
  <1>6. CASE x = MergeTimer /\ (MergeFires \/ MergeFanIn)
    <2>1. CASE MergeFires
      <3>1. th'[x] = [th[x] EXCEPT !.pc = "fan_in", !.round = merge] /\ merge # 0
        BY <1>0, <1>6, <2>1 DEF MergeFires, ThreadTable
      <3>2. th'[x].pc = "fan_in" /\ th'[x].then = th[x].then /\ th'[x].round = merge
        BY <1>0, <3>1 DEF ThreadTable, ThreadStates
      <3> QED
        BY <1>0, <1>6, <3>1, <3>2 DEF Formed
    <2>2. CASE MergeFanIn
      <3>1. th'[x] = Idle \/ Schedule(x, Main, "idle")
        BY <1>0, <1>6, <2>2 DEF MergeFanIn, FanIn, ThreadTable
      <3>2. ASSUME Schedule(x, Main, "idle")
            PROVE  th'[x].pc = "schedule" /\ th'[x].then = "idle"
        BY <1>0, <3>2 DEF Schedule, Idle, ThreadTable
      <3> QED
        BY <1>0, <1>1, <1>6, <3>1, <3>2 DEF Formed
    <2> QED
      BY <1>6, <2>1, <2>2
  <1>7. CASE x = Boot /\ BootStep
    <2>1. CASE Restart
      <3>1. th'[x].pc = "resume" /\ th'[x].then = th[x].then
        BY <1>0, <1>7, <2>1 DEF Restart, ThreadTable, ThreadStates
      <3> QED
        BY <1>0, <1>7, <3>1 DEF Formed
    <2>2. CASE ResumeNext
      <3>1. \E a : Schedule(x, a, "resume")
        BY <1>7, <2>2 DEF ResumeNext
      <3>2. th'[x].pc = "schedule" /\ th'[x].then = "resume"
        BY <1>0, <3>1 DEF Schedule, Idle, ThreadTable
      <3> QED
        BY <1>0, <1>7, <3>2 DEF Formed
    <2>3. CASE ResumeDone
      <3>1. th'[x] = Idle
        BY <1>0, <1>7, <2>3 DEF ResumeDone, Exit, ThreadTable
      <3> QED
        BY <1>1, <3>1
    <2> QED
      BY <1>7, <2>1, <2>2, <2>3 DEF BootStep
  <1> QED
    BY <1>1, <1>2, <1>3, <1>4, <1>5, <1>6, <1>7, AnyThread DEF Starts

\* What scheduleAgent claims is still what it has read under scheduleMu.
Reads(x) == th[x].pc = "claim" => /\ schedLock = x
                                  /\ \A i \in th[x].items : inbox[i].status = "pending"
CalmInv == /\ BatchInv
           /\ \A x \in Threads : Formed(x) /\ Reads(x)
           /\ \A i \in ItemIds : inbox[i].status \notin InTurn
           /\ cancelled # {} => closing

LEMMA InitCalm == Init => CalmInv
  <1> SUFFICES ASSUME Init PROVE CalmInv
    OBVIOUS
  <1>1. ASSUME NEW x \in Threads PROVE Formed(x) /\ Reads(x)
    BY DEF Init, Idle, Formed, Disturbing, Reads
  <1>2. \A i \in ItemIds : inbox[i].status \notin InTurn
    BY DEF Init, StoreInit, NoItem, InTurn
  <1> QED
    BY <1>1, <1>2, InitBatch DEF CalmInv, Init

LEMMA NextReads ==
  ASSUME Undisturbed, TypeInv, CalmInv, [Next]_vars, NEW x \in Threads
  PROVE  Reads(x)'
  <1> SUFFICES ASSUME th'[x].pc = "claim"
               PROVE  /\ schedLock' = x
                      /\ \A i \in th'[x].items : inbox'[i].status = "pending"
    BY DEF Reads
  <1>0. /\ th \in ThreadTable /\ TurnIds \subseteq Threads /\ Requests \subseteq Threads
        /\ Formed(x) /\ Reads(x) /\ BatchInv /\ NoOne \notin Threads
        /\ \A r \in Requests : th[r].pc \notin Disturbing
    BY ThreadKinds, ThreadsAssumption DEF TypeInv, CalmInv, Formed
  <1>1. CASE ScheduleRead(x)
    <2>1. th'[x] = [th[x] EXCEPT !.pc = "claim", !.items = PendingAgentInbox(th[x].agent)]
      BY <1>0, <1>1 DEF ScheduleRead, ThreadTable
    <2>2. th'[x].items = PendingAgentInbox(th[x].agent)
      BY <1>0, <2>1 DEF ThreadTable, ThreadStates
    <2> QED
      BY <1>1, <2>2 DEF ScheduleRead, storeVars, PendingAgentInbox, PendingInbox
  <1>2. CASE th'[x] = th[x] /\ th[x].pc = "claim"
    <2>0. schedLock = x /\ \A i \in th[x].items : inbox[i].status = "pending"
      BY <1>0, <1>2 DEF Reads
    <2>1. ASSUME NEW y \in Threads, ScheduleClaim(y) \/ ScheduleRefused(y) PROVE FALSE
      <3>1. y = x
        BY <2>0, <2>1 DEF CalmInv, Reads, ScheduleClaim, ScheduleRefused, At
      <3>2. Back(x).pc # "claim" /\ NewRun.pc # "claim"
        BY <1>0 DEF Back, NewRun, Idle, Formed
      <3>3. th'[x] \in {Back(x), NewRun}
        <4>1. CASE ScheduleClaim(x)
          BY <1>0, <4>1 DEF ScheduleClaim, ThreadTable
        <4>2. CASE ScheduleRefused(x)
          BY <1>0, <4>2 DEF ScheduleRefused, Return, ThreadTable
        <4> QED
          BY <2>1, <3>1, <4>1, <4>2
      <3> QED
        BY <1>2, <3>2, <3>3
    <2>2. ASSUME NEW y \in Threads, ScheduleRead(y) \/ ScheduleClosedRound(y) PROVE FALSE
      BY <1>0, <2>0, <2>2 DEF ScheduleRead, ScheduleClosedRound, EnterSchedule
    <2>3. schedLock' = x
      <3>1. ASSUME Stopped PROVE FALSE
        BY <1>2, <3>1 DEF Stopped, Idle
      <3>2. ASSUME NEW t \in TurnIds, TailAborted(t) PROVE schedLock' = x
        BY <1>0, <1>2, <2>0, <3>2 DEF TailAborted, Exit, Idle, ThreadTable
      <3>3. ASSUME NEW r \in Requests, Disconnect(r) PROVE FALSE
        BY <3>3 DEF Disconnect, Undisturbed
      <3> QED
        BY <2>0, <2>1, <2>2, <3>1, <3>2, <3>3, LockSteps
    <2>4. ASSUME NEW i \in ItemIds, inbox[i].status = "pending" PROVE inbox'[i].status = "pending"
      <3>1. inbox[i] \in Items
        BY DEF TypeInv, InboxTable
      <3>2. ASSUME IsCancelled(i) PROVE FALSE
        BY <1>0, <2>2, <3>2 DEF IsCancelled, InterruptRoundInbox, At, Disturbing
      <3>3. ASSUME IsTaken(i) PROVE FALSE
        BY <1>0, <3>3 DEF IsTaken, Disturbing
      <3>4. ASSUME IsClaimed(i) PROVE FALSE
        BY <2>1, <3>4 DEF IsClaimed
      <3>5. ASSUME Arrives(i) \/ IsSettled(i) \/ IsRecovered(i) PROVE FALSE
        BY <2>4, <3>5 DEF Arrives, IsSettled, IsRecovered, InTurn
      <3> QED
        BY <2>4, <3>2, <3>3, <3>4, <3>5, ItemSteps
    <2>5. th[x].items \subseteq ItemIds
      BY <1>0 DEF ThreadTable, ThreadStates
    <2> QED
      BY <1>2, <2>0, <2>3, <2>4, <2>5
  <1> QED
    BY <1>0, <1>1, <1>2, NextForm

LEMMA NextCalm == Undisturbed /\ TypeInv /\ CalmInv /\ [Next]_vars => CalmInv'
  <1> SUFFICES ASSUME Undisturbed, TypeInv, CalmInv, [Next]_vars PROVE CalmInv'
    OBVIOUS
  <1>0. /\ BatchInv /\ \A x \in Threads : Formed(x)
        /\ \A r \in Requests : r \in Threads /\ th[r].pc \notin Disturbing
    BY ThreadKinds DEF CalmInv, Formed
  <1>1. ASSUME NEW i \in ItemIds PROVE inbox'[i].status \notin InTurn
    <2>1. inbox[i] \in Items /\ inbox[i].status \notin InTurn
      BY DEF TypeInv, InboxTable, CalmInv
    <2>2. ASSUME IsTaken(i) PROVE FALSE
      BY <1>0, <2>2 DEF IsTaken, Disturbing
    <2>3. CASE Arrives(i) \/ IsCancelled(i) \/ IsClaimed(i)
      BY <2>1, <2>3 DEF Arrives, IsCancelled, IsClaimed, Items, InTurn
    <2>4. CASE IsSettled(i) \/ IsRecovered(i)
      BY <2>1, <2>4 DEF IsSettled, IsRecovered, Requeued, Items, InTurn
    <2>5. CASE inbox'[i] = inbox[i]
      BY <2>1, <2>5
    <2> QED
      BY <2>2, <2>3, <2>4, <2>5, ItemSteps
  <1>2. cancelled' # {} => closing'
    <2> SUFFICES ASSUME cancelled' # {} PROVE closing'
      OBVIOUS
    <2>1. ~ Stopped
      BY DEF Stopped
    <2>2. CASE Shutdown
      BY <2>2 DEF Shutdown
    <2>3. CASE ~ Shutdown
      <3>1. ASSUME NEW t \in TurnIds, InterruptTurn(t) PROVE FALSE
        BY <3>1 DEF InterruptTurn, Undisturbed
      <3>2. ASSUME NEW r \in Requests, InterruptRoundCancel(r) PROVE FALSE
        BY <1>0, <3>2 DEF InterruptRoundCancel, At, Disturbing
      <3>3. cancelled # {}
        BY <2>1, <2>3, <3>1, <3>2, ContextSteps
      <3>4. closing /\ closing' = closing
        BY <2>1, <2>3, <3>3, ContextSteps DEF CalmInv
      <3> QED
        BY <3>4
    <2> QED
      BY <2>2, <2>3
  <1>3. ASSUME NEW x \in Threads PROVE Formed(x)' /\ Reads(x)'
    BY <1>0, NextForm, NextReads
  <1> QED
    BY <1>0, <1>1, <1>2, <1>3, NextBatch DEF CalmInv

\* Rows and items belong to a round.
Rounded == /\ \A i \in ItemIds : inbox[i].status # "none" => inbox[i].round # 0
           /\ \A t \in TurnIds : Inserted(t) => turn[t].round # 0

LEMMA NextRounded == TypeInv /\ BatchInv /\ Rounded /\ [Next]_vars => Rounded'
  <1> SUFFICES ASSUME TypeInv, BatchInv, Rounded, [Next]_vars PROVE Rounded'
    OBVIOUS
  <1>1. ASSUME NEW t \in TurnIds, Inserted(t)' PROVE turn'[t].round # 0
    <2>1. CASE Inserted(t)
      BY <2>1, RowsKept DEF Rounded
    <2>2. CASE ~ Inserted(t)
      <3>1. ASSUME NEW u \in TurnIds, TailRetry(u) PROVE turn'[t].round # 0
        <4>1. Inserted(u)
          BY <3>1 DEF TailRetry, At, BatchInv, Running
        <4> QED
          BY <1>1, <2>2, <3>1, <4>1, NewGoroutine DEF Rounded
      <3>2. ASSUME NEW x \in Threads, ScheduleClaim(x) PROVE turn'[t].round # 0
        <4>1. th[x].items \subseteq ItemIds
          BY DEF TypeInv, ThreadTable, ThreadStates
        <4> QED
          BY <1>1, <2>2, <3>2, <4>1, NewGoroutine DEF Rounded
      <3> QED
        BY <1>1, <2>2, <3>1, <3>2, NewGoroutine
    <2> QED
      BY <2>1, <2>2
  <1>2. ASSUME NEW i \in ItemIds, inbox'[i].status # "none" PROVE inbox'[i].round # 0
    <2>1. CASE inbox[i].status # "none"
      BY <2>1, ItemKept DEF Rounded
    <2>2. CASE Arrives(i)
      <3>1. ASSUME NEW t \in TurnIds, TailRoute(t) PROVE turn[t].round # 0
        BY <3>1 DEF TailRoute, At, BatchInv, Running, Rounded
      <3> QED
        BY <2>2, <3>1 DEF Arrives, RoundIds
    <2>3. CASE inbox[i].status = "none" /\ ~ Arrives(i)
      BY <1>2, <2>3, ItemSteps DEF IsCancelled, IsClaimed, IsTaken, IsSettled, IsRecovered,
         InTurn
    <2> QED
      BY <2>1, <2>2, <2>3
  <1> QED
    BY <1>1, <1>2 DEF Rounded

\* PendingHasWaker is inductive once the turns that bar a claim are known to run.
Live     == up /\ ~ closing
Woken(a) == \/ \E x \in Threads : WillSchedule(x, a)
            \/ a = Main /\ merge # 0
WakeInv  == /\ CalmInv /\ Rounded
            /\ \A t \in TurnIds : ActiveRuns(t)
            /\ FreeTurns # {} => PendingHasWaker

\* A new turn wakes its agent.
LEMMA NewTurnWakes ==
  ASSUME TypeInv, [Next]_vars, Live', Live, NEW t \in TurnIds, ~ Inserted(t), Inserted(t)',
         NEW a, turn'[t].agent = a
  PROVE  Woken(a)'
  <1>1. th'[t].pc = "run"
    BY NewGoroutine DEF NewRun, Idle, Live
  <1>2. WillSchedule(t, a)'
    BY <1>1 DEF WillSchedule
  <1> QED
    BY <1>2, ThreadKinds DEF Woken

\* scheduleMainAfterAgentResult schedules Main, arms the timer, or leaves it to
\* the turn of Main that runs.
LEMMA FanInWakes ==
  ASSUME TypeInv, CalmInv', \A t \in TurnIds : ActiveRuns(t)', TypeInv', Live', [Next]_vars,
         NEW x \in Threads, NEW r, NEW l, r # 0, FanIn(x, r, l)
  PROVE  Woken(Main)'
  <1>1. turn' = turn
    BY DEF FanIn
  <1>2. CASE ActiveTurnsOf(Main) = {} /\ FannedIn(r)
    <2>1. th'[x].pc = "schedule" /\ th'[x].agent = Main
      BY <1>2 DEF FanIn, Schedule, Idle, TypeInv, ThreadTable
    <2>2. WillSchedule(x, Main)'
      BY <2>1 DEF WillSchedule
    <2> QED
      BY <2>2 DEF Woken
  <1>3. CASE ActiveTurnsOf(Main) = {} /\ ~ FannedIn(r)
    <2>1. merge' = IF merge = 0 THEN r ELSE merge
      BY <1>3 DEF FanIn
    <2> QED
      BY <2>1 DEF Woken
  <1>4. CASE ActiveTurnsOf(Main) # {}
    <2>1. PICK t \in TurnIds : turn[t].status \in TurnActive /\ turn[t].agent = Main
      BY <1>4 DEF ActiveTurnsOf, ActiveTurns
    <2>2. WillSchedule(t, Main)'
      BY <1>1, <2>1 DEF CalmInv, Live, ActiveRuns, WillSchedule
    <2> QED
      BY <2>2, ThreadKinds DEF Woken
  <1> QED
    BY <1>2, <1>3, <1>4

\* scheduleAgent leaves a pending item to the turn it makes or finds, or
\* cancels an item before it.
LEMMA ScheduleWakes ==
  ASSUME Undisturbed, TypeInv, WakeInv, [Next]_vars, Live, Live', FreeTurns # {},
         TypeInv', CalmInv', \A t \in TurnIds : ActiveRuns(t)',
         NEW x \in Threads, ScheduleAgent(x),
         NEW i \in ItemIds, inbox[i].status = "pending", inbox'[i].status = "pending",
         NEW a, inbox[i].agent = a, WillSchedule(x, a), ~ (x = Boot /\ a \in resume)
  PROVE  Woken(a)' \/ LeftBehind(i)'
  <1>0. /\ th \in ThreadTable /\ turn \in TurnTable /\ TurnIds \subseteq Threads
        /\ th[x].pc \in {"schedule", "claim"}
        /\ x \in TurnIds => Inserted(x)
    <2>1. th[x].pc \in {"schedule", "claim"}
      BY DEF ScheduleAgent, ScheduleNothing, ScheduleClosedRound, ScheduleRead,
         ScheduleClaim, ScheduleRefused, EnterSchedule, At
    <2> QED
      BY <2>1, ThreadKinds DEF TypeInv, WakeInv, CalmInv, BatchInv, Running
  <1>1. ASSUME NEW t \in TurnIds, turn'[t].status \in TurnActive, turn'[t].agent = a
        PROVE  Woken(a)'
    <2>1. WillSchedule(t, a)'
      BY <1>1 DEF CalmInv, Live, ActiveRuns, WillSchedule
    <2> QED
      BY <1>0, <2>1 DEF Woken
  <1>2. ASSUME ScheduleClaim(x)
        PROVE  /\ th'[x] = Back(x)
               /\ \E n \in TurnIds : /\ ~ Inserted(n) /\ Inserted(n)'
                                     /\ turn'[n].agent = th[x].agent
    <2>1. PICK n \in TurnIds, k \in ItemIds :
            /\ ClaimInboxAndCreateTurn(th[x].agent, inbox[k].round, th[x].items, n)
            /\ th' = [th EXCEPT ![x] = Back(x), ![n] = NewRun]
      BY <1>2 DEF ScheduleClaim
    <2>2. ~ Inserted(n)
      BY <2>1 DEF ClaimInboxAndCreateTurn, First, FreeTurns, Inserted
    <2>3. Inserted(n)' /\ turn'[n].agent = th[x].agent
      <3>1. PICK g \in 0..MaxTurns :
              turn' = [turn EXCEPT ![n] =
                         [agent |-> th[x].agent, round |-> inbox[k].round,
                          status |-> "queued", attempt |-> 1, generation |-> g,
                          batch |-> n, retryable |-> FALSE]]
        BY <2>1 DEF ClaimInboxAndCreateTurn
      <3> QED
        BY <1>0, <3>1 DEF TurnTable, Inserted
    <2>4. th'[x] = Back(x)
      BY <1>0, <2>1, <2>2 DEF ThreadTable
    <2> QED
      BY <2>2, <2>3, <2>4
  <1>3. CASE a = Main /\ th[x].then = "fan_in"
    <2>1. CASE ScheduleRead(x)
      <3>1. th'[x] = [th[x] EXCEPT !.pc = "claim", !.items = PendingAgentInbox(th[x].agent)]
        BY <1>0, <2>1 DEF ScheduleRead, ThreadTable
      <3>2. th'[x].pc = "claim" /\ th'[x].then = "fan_in"
        BY <1>0, <1>3, <3>1 DEF ThreadTable, ThreadStates
      <3>3. WillSchedule(x, a)'
        BY <1>3, <3>2 DEF WillSchedule
      <3> QED
        BY <3>3 DEF Woken
    <2>2. CASE ~ ScheduleRead(x)
      <3>1. th'[x] = Back(x)
        BY <1>0, <1>2, <2>2 DEF ScheduleAgent, ScheduleNothing, ScheduleClosedRound,
           ScheduleRefused, Return, ThreadTable
      <3>2. th'[x].pc = "fan_in"
        BY <1>3, <3>1 DEF Back, Idle
      <3>3. WillSchedule(x, a)'
        BY <1>3, <3>2 DEF WillSchedule
      <3> QED
        BY <3>3 DEF Woken
    <2> QED
      BY <2>1, <2>2
  <1>4. CASE th[x].agent = a
    <2>1. CASE ScheduleNothing(x) /\ ActiveTurnsOf(a) # {}
      BY <1>1, <2>1 DEF ScheduleNothing, storeVars, ActiveTurnsOf, ActiveTurns
    <2>2. ASSUME ScheduleNothing(x), ActiveTurnsOf(a) = {} PROVE FALSE
      BY <1>4, <2>2 DEF ScheduleNothing, PendingAgentInbox, PendingInbox
    <2>3. CASE ScheduleClosedRound(x)
      <3>1. PICK k \in ItemIds : /\ First(PendingAgentInbox(a), k)
                                 /\ inbox' = PendingCancelled(inbox[k].round)
        BY <1>4, <2>3 DEF ScheduleClosedRound
      <3>2. /\ inbox[k].status = "pending" /\ inbox[k].agent = a
            /\ inbox[k] \in Items /\ inbox[i] \in Items /\ k <= i
        BY <3>1 DEF First, PendingAgentInbox, PendingInbox, TypeInv, InboxTable
      <3>3. inbox'[k].status = "cancelled" /\ inbox'[k].agent = a
        BY <3>1, <3>2 DEF PendingCancelled, Items
      <3>4. /\ inbox'[i].agent = a /\ inbox'[i].round = inbox[i].round
            /\ inbox'[k].round = inbox[k].round
        BY <3>2, ItemKept
      <3>6. inbox[k].round # inbox[i].round
        BY <3>1, <3>2 DEF PendingCancelled, Items
      <3>5. k < i
        BY <3>2, <3>3 DEF ItemIds
      <3> QED
        BY <3>3, <3>4, <3>5, <3>6 DEF LeftBehind
    <2>4. CASE ScheduleRead(x)
      <3>1. th'[x] = [th[x] EXCEPT !.pc = "claim", !.items = PendingAgentInbox(th[x].agent)]
        BY <1>0, <2>4 DEF ScheduleRead, ThreadTable
      <3>2. th'[x].pc = "claim" /\ th'[x].agent = a
        BY <1>0, <1>4, <3>1 DEF ThreadTable, ThreadStates
      <3>3. WillSchedule(x, a)'
        BY <3>2 DEF WillSchedule
      <3> QED
        BY <3>3 DEF Woken
    <2>5. CASE ScheduleClaim(x)
      BY <1>2, <1>4, <2>5, NewTurnWakes
    <2>6. CASE ScheduleRefused(x)
      <3>1. th[x].pc = "claim" /\ ~ CanClaim(a, th[x].items) /\ turn' = turn
        BY <1>4, <2>6 DEF ScheduleRefused, At, storeVars
      <3>2. ActiveTurnsOf(a) # {}
        BY <3>1 DEF CanClaim, WakeInv, CalmInv, Reads
      <3> QED
        BY <1>1, <3>1, <3>2 DEF ActiveTurnsOf, ActiveTurns
    <2> QED
      BY <2>1, <2>2, <2>3, <2>4, <2>5, <2>6 DEF ScheduleAgent
  <1> QED
    BY <1>0, <1>3, <1>4 DEF WillSchedule

\* The goroutine of a turn comes to the routing, which schedules its agent.
LEMMA TurnWakes ==
  ASSUME Undisturbed, TypeInv, WakeInv, [Next]_vars, Live, Live',
         TypeInv', CalmInv', \A t \in TurnIds : ActiveRuns(t)',
         NEW t \in TurnIds, TurnStep(t), NEW a, WillSchedule(t, a)
  PROVE  Woken(a)'
  <1>0. /\ th \in ThreadTable /\ turn \in TurnTable /\ t \in Threads /\ t # Boot
        /\ Running(t) /\ t \notin cancelled
    BY ThreadKinds, ThreadsAssumption DEF TypeInv, WakeInv, CalmInv, BatchInv, Live
  <1>1. ASSUME WillSchedule(t, a)' PROVE Woken(a)'
    BY <1>0, <1>1 DEF Woken
  <1>2. ASSUME AdvanceCancelled(t) \/ TailAborted(t) PROVE FALSE
    BY <1>0, <1>2 DEF AdvanceCancelled, TailAborted, ContextOK
  <1>3. CASE th[t].pc = "fan_in" /\ a = Main
    <2>1. TailFanIn(t)
      BY <1>2, <1>3 DEF TurnStep, Advance, PrepareFail, Succeed, Fail, Interrupted, Finish,
         TailProcessed, TailSweep, TailRetry, TailNoRetry, TailRoute, SettleNot,
         SettleBegin, SettlePending, SettleRound, SettleTask, At
    <2>2. turn[t].round # 0
      BY <1>0, <1>3 DEF Running, WakeInv, Rounded
    <2> QED
      BY <1>0, <1>3, <2>1, <2>2, FanInWakes DEF TailFanIn
  <1>4. CASE turn[t].agent = a /\ th[t].pc \in Early \cup {"route"}
    <2>0. turn'[t].agent = a
      BY <1>0, <1>4, RowsKept DEF Running, Early
    <2>1. CASE TailRetry(t)
      <3>1. PICK n \in TurnIds : CreateRetry(t, n)
        BY <2>1 DEF TailRetry
      <3>2. ~ Inserted(n) /\ Inserted(n)'
        <4>1. turn'[n].status = "queued"
          BY <1>0, <3>1 DEF CreateRetry, TurnTable, Turns
        <4> QED
          BY <3>1, <4>1 DEF CreateRetry, First, FreeTurns, Inserted
      <3>3. turn'[n].agent = a
        BY <1>4, <2>1, <3>2, NewGoroutine
      <3> QED
        BY <3>2, <3>3, NewTurnWakes
    <2>2. CASE TailRoute(t)
      <3>1. \E l : Schedule(t, a, l)
        BY <1>4, <2>2 DEF TailRoute
      <3>2. th'[t].pc = "schedule" /\ th'[t].agent = a
        BY <1>0, <3>1 DEF Schedule, Idle, ThreadTable
      <3> QED
        BY <1>1, <3>2 DEF WillSchedule
    <2>3. CASE \/ Advance(t) \/ PrepareFail(t) \/ Succeed(t) \/ Fail(t) \/ Interrupted(t)
               \/ TailProcessed(t) \/ TailSweep(t) \/ TailNoRetry(t)
      <3>1. th'[t].pc \in Early \cup {"route"}
        BY <1>0, <1>4, <2>3 DEF Advance, PrepareFail, Succeed, Fail, Interrupted, Finish,
           TailProcessed, TailSweep, TailNoRetry, Goto, At, Early, ThreadTable, ThreadStates
      <3> QED
        BY <1>1, <2>0, <3>1 DEF WillSchedule, Early
    <2>4. ASSUME \/ TailFanIn(t) \/ SettleNot(t) \/ SettleBegin(t) \/ SettlePending(t)
                 \/ SettleRound(t) \/ SettleTask(t)
          PROVE  FALSE
      BY <1>4, <2>4 DEF TailFanIn, FanIn, SettleNot, SettleBegin, SettlePending,
         SettleRound, SettleTask, At, Early
    <2> QED
      BY <1>2, <2>1, <2>2, <2>3, <2>4 DEF TurnStep
  <1>5. ASSUME th[t].pc \in {"enqueue", "schedule", "claim"} PROVE FALSE
    BY <1>2, <1>5 DEF TurnStep, Advance, PrepareFail, Succeed, Fail, Interrupted, Finish,
       TailProcessed, TailSweep, TailRetry, TailNoRetry, TailRoute, TailFanIn, FanIn,
       SettleNot, SettleBegin, SettlePending, SettleRound, SettleTask, At
  <1> QED
    BY <1>0, <1>3, <1>4, <1>5 DEF WillSchedule, Early

\* Whoever will schedule an agent does, hands it on, or leaves the item behind
\* one it cancels.
LEMMA WakerKept ==
  ASSUME Undisturbed, TypeInv, WakeInv, [Next]_vars, Live, Live', FreeTurns # {},
         TypeInv', CalmInv', \A t \in TurnIds : ActiveRuns(t)',
         NEW i \in ItemIds, inbox[i].status = "pending", inbox'[i].status = "pending",
         NEW a, inbox[i].agent = a, Woken(a)
  PROVE  Woken(a)' \/ LeftBehind(i)'
  <1>0. /\ th \in ThreadTable /\ Boot \in Threads /\ MergeTimer \in Threads
        /\ Requests \subseteq Threads
        /\ \A x \in Threads : Formed(x) /\ \A r \in Requests : th[r].pc \notin Disturbing
    BY ThreadKinds DEF TypeInv, WakeInv, CalmInv, Formed
  <1>1. ~ Stopped /\ ~ Restart
    BY DEF Live, Stopped, Restart
  <1>2. ASSUME NEW x \in Threads, WillSchedule(x, a)' PROVE Woken(a)'
    BY <1>2 DEF Woken
  <1>3. CASE a \in resume
    <2>1. CASE a \in resume'
      BY <1>0, <1>2, <2>1 DEF WillSchedule
    <2>2. CASE ResumeNext /\ a \notin resume'
      <3>1. Schedule(Boot, a, "resume")
        BY <2>2, <1>3 DEF ResumeNext
      <3>2. th'[Boot].pc = "schedule" /\ th'[Boot].agent = a
        BY <1>0, <3>1 DEF Schedule, Idle, ThreadTable
      <3> QED
        BY <1>0, <1>2, <3>2 DEF WillSchedule
    <2> QED
      BY <1>1, <1>3, <2>1, <2>2, LockSteps
  <1>4. CASE a = Main /\ merge # 0
    <2>1. CASE merge' = merge
      BY <1>4, <2>1 DEF Woken
    <2>2. CASE MergeFires
      <3>1. th'[MergeTimer] = [th[MergeTimer] EXCEPT !.pc = "fan_in", !.round = merge]
        BY <1>0, <2>2 DEF MergeFires, ThreadTable
      <3>2. th'[MergeTimer].pc = "fan_in"
        BY <1>0, <3>1 DEF ThreadTable, ThreadStates
      <3> QED
        BY <1>0, <1>2, <1>4, <3>2 DEF WillSchedule
    <2>3. CASE MergeFanIn
      <3>1. th[MergeTimer].round # 0
        BY <1>0, <2>3 DEF MergeFanIn, FanIn, At, Formed
      <3> QED
        BY <1>0, <1>4, <2>3, <3>1, FanInWakes DEF MergeFanIn
    <2>4. ASSUME NEW t \in TurnIds, TailFanIn(t) PROVE Woken(a)'
      <3>1. turn[t].round # 0
        BY <2>4 DEF TailFanIn, FanIn, At, WakeInv, CalmInv, BatchInv, Running, Rounded
      <3> QED
        BY <1>4, <2>4, <3>1, FanInWakes, ThreadKinds DEF TailFanIn
    <2>5. ASSUME NEW r \in Requests, SubmitRecheck(r) PROVE Woken(a)'
      <3>1. CASE task = "completed" \/ th[r].agent # Main
        BY <1>4, <2>5, <3>1 DEF SubmitRecheck, Woken
      <3>2. CASE task # "completed" /\ th[r].agent = Main
        <4>1. th'[r].pc = "enqueue" /\ th'[r].agent = Main
          BY <1>0, <2>5, <3>2 DEF SubmitRecheck, Goto, ThreadTable, ThreadStates
        <4> QED
          BY <1>0, <1>2, <1>4, <4>1 DEF WillSchedule
      <3> QED
        BY <3>1, <3>2
    <2>6. ASSUME NEW r \in Requests, InterruptRoundInbox(r) PROVE FALSE
      BY <1>0, <2>6 DEF InterruptRoundInbox, At, Disturbing
    <2> QED
      BY <1>1, <2>1, <2>2, <2>3, <2>4, <2>5, <2>6, LockSteps
  <1>5. ASSUME NEW x \in Threads, WillSchedule(x, a), ~ (x = Boot /\ a \in resume)
        PROVE  Woken(a)' \/ LeftBehind(i)'
    <2>0. th[x].pc # "idle"
      BY <1>5 DEF WillSchedule
    <2>1. CASE th'[x] = th[x]
      <3>1. x \in TurnIds => turn'[x].agent = turn[x].agent
        BY <2>0, RowsKept DEF WakeInv, CalmInv, BatchInv, Running
      <3> QED
        BY <1>2, <1>5, <2>1, <3>1 DEF WillSchedule
    <2>2. CASE ScheduleAgent(x)
      BY <1>5, <2>2, ScheduleWakes
    <2>3. CASE x \in TurnIds /\ TurnStep(x)
      BY <1>5, <2>3, TurnWakes
    <2>4. CASE x \in Requests /\ Handler(x)
      <3>1. SubmitEnqueue(x)
        <4>1. th[x].pc \in {"enqueue", "schedule", "claim", "fan_in"}
          BY <1>5, <2>4, ThreadsAssumption DEF WillSchedule
        <4> QED
          BY <1>0, <2>4, <4>1, CalmHandler DEF StartTask, Submit, CompleteTask, ReopenTask,
             Prepare, SubmitRecheck, CompleteWrite, ReopenWrite, Free, At
      <3>2. th[x].agent = a /\ th'[x].pc = "schedule" /\ th'[x].agent = th[x].agent
        BY <1>0, <1>5, <2>4, <3>1, ThreadsAssumption
           DEF SubmitEnqueue, Schedule, Idle, ThreadTable, WillSchedule, At
      <3> QED
        BY <1>2, <3>2 DEF WillSchedule
    <2>5. CASE x = MergeTimer /\ (MergeFires \/ MergeFanIn)
      <3>1. MergeFanIn /\ th[MergeTimer].pc = "fan_in" /\ a = Main
        BY <1>5, <2>0, <2>5, ThreadsAssumption DEF MergeFires, MergeFanIn, FanIn, At, WillSchedule
      <3>2. th[MergeTimer].round # 0
        BY <1>0, <3>1 DEF Formed
      <3> QED
        BY <1>0, <3>1, <3>2, FanInWakes DEF MergeFanIn
    <2>6. ASSUME x = Boot, BootStep PROVE FALSE
      BY <1>1, <1>5, <2>6, ThreadsAssumption DEF BootStep, ResumeNext, ResumeDone, At, WillSchedule
    <2>7. ASSUME Starts(x) PROVE FALSE
      BY <2>0, <2>7 DEF Starts, WakeInv, CalmInv, BatchInv, Running, Inserted
    <2> QED
      BY <1>1, <1>5, <2>1, <2>2, <2>3, <2>4, <2>5, <2>6, <2>7, AnyThread
  <1> QED
    BY <1>3, <1>4, <1>5 DEF Woken

\* Who makes an item pending schedules its agent.
LEMMA ArrivalWakes ==
  ASSUME TypeInv, CalmInv, [Next]_vars, Live, NEW i \in ItemIds,
         inbox[i].status # "pending", inbox'[i].status = "pending", NEW a, inbox'[i].agent = a
  PROVE  Woken(a)'
  <1>0. /\ th \in ThreadTable /\ Requests \subseteq Threads /\ TurnIds \subseteq Threads
        /\ inbox[i] \in Items
    BY ThreadKinds DEF TypeInv, InboxTable
  <1>1. ASSUME NEW x \in Threads, WillSchedule(x, a)' PROVE Woken(a)'
    BY <1>1 DEF Woken
  <1>2. ASSUME NEW r \in Requests, SubmitEnqueue(r), inbox'[i].agent = th[r].agent
        PROVE  Woken(a)'
    <2>1. th'[r].pc = "schedule" /\ th'[r].agent = a
      BY <1>0, <1>2 DEF SubmitEnqueue, Schedule, Idle, ThreadTable
    <2> QED
      BY <1>0, <1>1, <2>1 DEF WillSchedule
  <1>3. ASSUME NEW t \in TurnIds, TailRoute(t), turn[t].agent # Main, CanRoute(t),
               inbox'[i].agent = Main
        PROVE  Woken(a)'
    <2>1. Schedule(t, turn[t].agent, "fan_in")
      BY <1>3 DEF TailRoute
    <2>2. th'[t].pc = "schedule" /\ th'[t].then = "fan_in"
      BY <1>0, <2>1 DEF Schedule, Idle, ThreadTable
    <2> QED
      BY <1>0, <1>1, <1>3, <2>2 DEF WillSchedule
  <1>4. CASE Arrives(i)
    BY <1>2, <1>3, <1>4 DEF Arrives
  <1>5. ASSUME ~ Arrives(i) PROVE FALSE
    <2>1. ~ Restart /\ inbox[i].status \notin InTurn
      BY DEF Restart, Live, CalmInv
    <2> QED
      BY <1>0, <1>5, <2>1, ItemSteps DEF IsCancelled, IsClaimed, IsTaken, IsSettled,
         IsRecovered, InTurn, Items
  <1> QED
    BY <1>4, <1>5

LEMMA InitWake == Init => WakeInv
  <1> SUFFICES ASSUME Init PROVE WakeInv
    OBVIOUS
  <1>1. Rounded /\ \A t \in TurnIds : ActiveRuns(t)
    BY DEF Init, StoreInit, NoItem, NoTurn, Rounded, Inserted, ActiveRuns, TurnActive
  <1>2. PendingHasWaker
    BY DEF Init, StoreInit, NoItem, PendingHasWaker, PendingInbox
  <1> QED
    BY <1>1, <1>2, InitCalm DEF WakeInv

LEMMA NextWake == Undisturbed /\ TypeInv /\ WakeInv /\ [Next]_vars => WakeInv'
  <1> SUFFICES ASSUME Undisturbed, TypeInv, WakeInv, [Next]_vars PROVE WakeInv'
    OBVIOUS
  <1>1. TypeInv' /\ CalmInv' /\ Rounded' /\ \A t \in TurnIds : ActiveRuns(t)'
    <2>1. BatchInv
      BY DEF WakeInv, CalmInv
    <2> QED
      BY <2>1, NextType, NextCalm, NextRounded, NextActive DEF WakeInv
  <1>2. ASSUME FreeTurns' # {}, Live', NEW i \in ItemIds, inbox'[i].status = "pending",
               NEW a, inbox'[i].agent = a
        PROVE  Woken(a)' \/ LeftBehind(i)'
    <2>2. CASE Restart
      <3>1. a \in resume'
        BY <1>2, <2>2 DEF Restart
      <3>2. WillSchedule(Boot, a)'
        BY <3>1 DEF WillSchedule
      <3> QED
        BY <3>2, ThreadKinds DEF Woken
    <2>3. CASE ~ Restart
      <3>1. Live /\ FreeTurns # {}
        <4>1. ~ Stopped /\ ~ Shutdown
          BY <1>2 DEF Live, Stopped, Shutdown
        <4>2. up' = up /\ closing' = closing
          BY <2>3, <4>1, ContextSteps
        <4>3. Live
          BY <1>2, <4>2 DEF Live
        <4>4. FreeTurns # {}
          BY <1>2, RowsKept DEF FreeTurns, Inserted
        <4> QED
          BY <4>3, <4>4
      <3>2. CASE inbox[i].status # "pending"
        BY <1>2, <3>1, <3>2, ArrivalWakes DEF WakeInv
      <3>3. CASE inbox[i].status = "pending"
        <4>1. inbox[i].agent = a
          BY <1>2, <3>3, ItemKept
        <4>2. Woken(a) \/ LeftBehind(i)
          BY <3>1, <3>3, <4>1 DEF WakeInv, PendingHasWaker, PendingInbox, Live, Woken
        <4>3. CASE LeftBehind(i)
          <5>1. PICK j \in ItemIds : /\ j < i /\ inbox[j].agent = inbox[i].agent
                                     /\ inbox[j].round # inbox[i].round
                                     /\ inbox[j].status = "cancelled"
            BY <4>3 DEF LeftBehind
          <5>2. inbox'[j].status = "cancelled"
            <6>1. inbox[j] \in Items
              BY DEF TypeInv, InboxTable
            <6> QED
              BY <5>1, <6>1, ItemSteps DEF Arrives, IsCancelled, IsClaimed, IsTaken,
                 IsSettled, IsRecovered, InTurn
          <5>3. inbox'[j].agent = inbox'[i].agent /\ inbox'[j].round # inbox'[i].round
            BY <3>3, <5>1, ItemKept
          <5> QED
            BY <5>1, <5>2, <5>3 DEF LeftBehind
        <4>4. CASE Woken(a)
          BY <1>1, <1>2, <3>1, <3>3, <4>1, <4>4, WakerKept
        <4> QED
          BY <4>2, <4>3, <4>4
      <3> QED
        BY <3>2, <3>3
    <2> QED
      BY <2>2, <2>3
  <1>3. FreeTurns' # {} => PendingHasWaker'
    <2>1. ASSUME FreeTurns' # {}, Live', NEW i \in ItemIds, inbox'[i].status = "pending"
          PROVE  \/ \E x \in Threads : WillSchedule(x, inbox[i].agent)'
                 \/ inbox'[i].agent = Main /\ merge' # 0
                 \/ LeftBehind(i)'
      <3>1. PICK a : inbox'[i].agent = a
        OBVIOUS
      <3>2. Woken(a)' \/ LeftBehind(i)'
        BY <1>2, <2>1, <3>1
      <3> QED
        BY <3>1, <3>2 DEF Woken, WillSchedule
    <2> QED
      BY <2>1 DEF PendingHasWaker, PendingInbox, Live
  <1> QED
    BY <1>1, <1>3 DEF WakeInv

\* While a row is left for its turn, a pending item has somebody who will
\* schedule its agent or stands behind an item of a closed round, whatever
\* fails, completes, reopens, shuts down or crashes.
THEOREM PendingIsWoken ==
  ASSUME Undisturbed
  PROVE  Spec => [](FreeTurns # {} => PendingHasWaker)
  <1>1. TypeInv /\ WakeInv /\ [Next]_vars => WakeInv'
    BY NextWake
  <1>2. WakeInv => (FreeTurns # {} => PendingHasWaker)
    BY DEF WakeInv
  <1> QED
    BY <1>1, <1>2, InitWake, Typed, PTL DEF Spec
=============================================================================
