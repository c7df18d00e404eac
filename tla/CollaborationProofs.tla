------------------------ MODULE CollaborationProofs ------------------------
(***************************************************************************)
(* Theorems about the batches of a task, for every set of sub-agents and   *)
(* every bound on turns, items, batches, messages and crashes: Main is     *)
(* handed every result that the cursor of a batch has passed, whatever     *)
(* polls, wake timers, ends of turns and restarts race for it.             *)
(***************************************************************************)
EXTENDS CollaborationProperties, SequenceTheorems, FiniteSetTheorems,
        WellFoundedInduction, TLAPS

Labels == {"idle", "run", "terminal", "route", "arm", "finalize", "finalize_write",
           "schedule", "fan_in", "settle"}

Goroutines == [pc: Labels, todo: SUBSET BatchIds, b: 0..MaxBatches, delivered: Events,
               next: Events, complete: BOOLEAN]
Calls      == [turn: 0..MaxTurns, batch: 0..MaxBatches, agents: SUBSET Subs]
Waits      == [turn: 0..MaxTurns, batch: 0..MaxBatches, after: Events,
               status: {"none", "pending", "complete", "fallback", "consumed"}]
WakeStates == [busy: BOOLEAN, batches: SUBSET BatchIds, cursors: [BatchIds -> Events]]

Result == [batch: BatchIds, child: TurnIds]

\* What TypeOK leaves to the variables of the process.
MemoryTypes == /\ events \in Seq(Result)
               /\ th \in [TurnIds -> Goroutines]
               /\ call \in Calls /\ wait \in Waits
               /\ wake \in [TurnIds -> WakeStates]

There(t)  == turn[t].status # "none"
Stored(b) == batch[b].status # "none"

\* The rows of the turns are used one after another, and a generation counts
\* turns: it never runs out of its range.
TurnRows ==
  /\ \A t \in TurnIds : There(t) => turn[t].generation < t
  /\ \A t \in TurnIds, u \in TurnIds : t < u /\ There(u) => There(t)

\* The goroutine of a turn that runs, or one that deals with its end.
Tails ==
  \A t \in TurnIds :
    /\ th[t].pc # "idle" => There(t) /\ Up
    /\ th[t].pc = "run" => turn[t].status \in TurnActive
    /\ th[t].pc \notin {"idle", "run"} => Ended(t)
    /\ th[t].pc = "route" => turn[t].agent \in Subs
    /\ th[t].pc \in {"arm", "finalize_write"} => th[t].b \in BatchIds /\ Stored(th[t].b)
    /\ \A b \in th[t].todo : Stored(b)

\* A process that ended left nothing behind.
Stopped == ~ Up => /\ due = {} /\ timers = {} /\ ~ merge
                   /\ call = NoCall /\ wait = NoWait /\ \A p \in TurnIds : ~ wake[p].busy

\* A batch has a parent; so does the one that a call is about to create, and
\* its row is free.
BatchRows ==
  /\ \A b \in BatchIds : Stored(b) => batch[b].parent \in TurnIds
  /\ call.turn # 0 => call.batch \in BatchIds /\ ~ Stored(call.batch)

\* The child of a member is a turn of its agent.
MemberRows ==
  \A b \in BatchIds, a \in Subs :
    /\ member[b][a].status # "none" => Stored(b)
    /\ member[b][a].child # 0 =>
         /\ member[b][a].child \in TurnIds /\ There(member[b][a].child)
         /\ turn[member[b][a].child].agent = a
         /\ member[b][a].status \notin {"none", "queued"}

\* Nobody refers to a batch that is not there, nor to results that are not.
References ==
  /\ \A i \in ItemIds : inbox[i].kind = "collaboration_fallback" =>
                         \A b \in inbox[i].batches : Stored(b)
  /\ \A p \in TurnIds : \A b \in wake[p].batches : Stored(b)
  /\ wait # NoWait => wait.batch \in BatchIds /\ Stored(wait.batch) /\ wait.status # "none"

CursorsInRange ==
  /\ \A b \in BatchIds : batch[b].delivered <= Len(events)
  /\ \A i \in ItemIds, b \in BatchIds : inbox[i].cursors[b] <= Len(events)
  /\ \A p \in TurnIds, b \in BatchIds : wake[p].cursors[b] <= Len(events)
  /\ wait.after <= Len(events)

\* A turn reports once, at the end of its route.
Reported ==
  /\ \A k \in DOMAIN events :
       /\ Stored(events[k].batch) /\ There(events[k].child)
       /\ th[events[k].child].pc \notin {"run", "terminal", "route"}
  /\ \A j, k \in DOMAIN events : events[j].child = events[k].child => j = k
-----------------------------------------------------------------------------
\* Once a round is closed, no wake is pending, and none can become so again.
NothingDropped ==
  /\ \A i \in ItemIds : inbox[i].status = "claimed" => inbox[i].claim # 0
  /\ round \in RoundTerminal =>
       /\ \A i \in ItemIds : inbox[i].status = "pending" => inbox[i].results = {}
       /\ \A i \in ItemIds, t \in TurnIds :
            turn[t].status \in TurnActive /\ inbox[i].status = "claimed"
            => inbox[i].claim # turn[t].claims

\* All results of batch b up to n were handed to Main.
HandedUpTo(b, n) == \A k \in Results(b, 0) : k <= n => k \in Handed

\* A cursor is honest in the row of a batch, in a wake that Main gets, and in
\* the callback that is about to store it.
Cursors ==
  /\ \A b \in BatchIds : HandedUpTo(b, batch[b].delivered)
  /\ \A i \in ItemIds : inbox[i].kind = "collaboration_fallback" =>
         \A b \in inbox[i].batches : HandedUpTo(b, inbox[i].cursors[b])
  /\ \A p \in TurnIds : \A b \in wake[p].batches : HandedUpTo(b, wake[p].cursors[b])

\* A batch that everybody has reported to, and Main has been told so.
Finished(b) == Complete(b) /\ Results(b, 0) \subseteq Handed

\* What a goroutine or a poll has read of a batch still holds when it writes.
Readings ==
  /\ \A t \in TurnIds : th[t].pc = "finalize_write" =>
       /\ th[t].delivered <= batch[th[t].b].delivered
       /\ th[t].complete => /\ Complete(th[t].b)
                            /\ \A k \in Results(th[t].b, 0) : k <= th[t].next
  /\ wait # NoWait => /\ wait.after <= batch[wait.batch].delivered
                      /\ wait.status = "consumed" => Finished(wait.batch)

Consumed == \A b \in BatchIds : batch[b].status = "consumed" => Finished(b)

Shape    == /\ TypeOK /\ MemoryTypes
            /\ TurnRows /\ Tails /\ Stopped /\ BatchRows /\ MemberRows
            /\ References /\ CursorsInRange /\ Reported
BatchInv == Shape /\ NothingDropped /\ Cursors /\ Readings /\ Consumed
-----------------------------------------------------------------------------
(* Numbers *)

LEMMA MinOfNaturals ==
  ASSUME NEW q, q \subseteq Nat, q # {}
  PROVE  \E x \in q : \A y \in q : x <= y
  <1>1. PICK x \in q : \A y \in q : ~ (<<y, x>> \in OpToRel(<, Nat))
    BY WFMin, NatLessThanWellFounded
  <1>2. ASSUME NEW y \in q PROVE x <= y
    <2>1. x \in Nat /\ y \in Nat
      OBVIOUS
    <2>2. <<y, x>> \in Nat \X Nat /\ ~ (<<y, x>> \in {ss \in Nat \X Nat : ss[1] < ss[2]})
      BY <1>1, <2>1 DEF OpToRel
    <2>3. ~ (y < x)
      BY <2>2
    <2> QED
      BY <2>1, <2>3
  <1> QED
    BY <1>2

LEMMA LastExists ==
  ASSUME NEW N \in Nat, NEW q, q \subseteq 0..N, q # {}
  PROVE  \E x \in q : Last(q, x)
  <1> DEFINE r == {N - x : x \in q}
  <1>0. \A x \in q : x \in 0..N /\ N - x \in Nat
    OBVIOUS
  <1>1. r \subseteq Nat /\ r # {}
    BY <1>0
  <1>2. PICK z \in r : \A y \in r : z <= y
    BY <1>1, MinOfNaturals
  <1>3. PICK x \in q : z = N - x
    OBVIOUS
  <1>4. ASSUME NEW y \in q PROVE y <= x
    <2>1. N - x <= N - y
      BY <1>2, <1>3
    <2> QED
      BY <2>1
  <1> QED
    BY <1>4 DEF Last

LEMMA EventDomain ==
  ASSUME events \in Seq(Result)
  PROVE  DOMAIN events = 1..Len(events) /\ Len(events) \in Nat
  BY LenProperties

\* The cursor behind the results above after.
LEMMA CursorFacts ==
  ASSUME events \in Seq(Result), NEW b, NEW after \in 0..Len(events)
  PROVE  /\ NextCursor(b, after) \in 0..Len(events)
         /\ after <= NextCursor(b, after)
         /\ \A k \in Results(b, after) : k <= NextCursor(b, after)
  <1> DEFINE q == Results(b, after) \cup {after}
  <1>1. Len(events) \in Nat /\ q \subseteq 0..Len(events) /\ q # {}
    BY EventDomain DEF Results
  <1>2. PICK x \in q : Last(q, x)
    BY <1>1, LastExists
  <1>3. x \in 0..Len(events)
    BY <1>1
  <1>4. NextCursor(b, after) \in 0..Len(events) /\ Last(q, NextCursor(b, after))
    BY <1>2, <1>3 DEF NextCursor
  <1> QED
    BY <1>4 DEF Last

LEMMA GenerationFacts ==
  ASSUME TypeOK, TurnRows, NEW a \in Agents, NEW n \in TurnIds, First(FreeTurns, n)
  PROVE  NextGeneration(a) \in 0..(n - 1)
  <1> DEFINE mine == {t \in TurnIds : turn[t].status # "none" /\ turn[t].agent = a}
  <1>1. MaxTurns \in Nat /\ TurnIds = 1..MaxTurns
    BY RowsAssumption DEF TurnIds
  <1>2. ASSUME NEW t \in mine PROVE t < n /\ turn[t].generation \in Nat /\ turn[t].generation < t
    <2>1. ~ There(n) /\ There(t) /\ t \in TurnIds
      BY DEF First, FreeTurns, There
    <2>2. t # n /\ ~ (n < t)
      BY <2>1 DEF TurnRows
    <2>3. turn[t].generation \in 0..MaxTurns
      BY <2>1 DEF TypeOK, Turns
    <2> QED
      BY <1>1, <2>1, <2>2, <2>3 DEF TurnRows
  <1>3. CASE mine = {}
    BY <1>1, <1>3 DEF NextGeneration
  <1>4. CASE mine # {}
    <2>1. mine \subseteq 0..MaxTurns
      BY <1>1
    <2>2. PICK x \in mine : Last(mine, x)
      BY <1>1, <1>4, <2>1, LastExists
    <2> DEFINE t == CHOOSE t \in mine : Last(mine, t)
    <2>3. t \in mine
      BY <2>2
    <2>4. NextGeneration(a) = turn[t].generation + 1
      BY <1>4 DEF NextGeneration
    <2> HIDE DEF t
    <2>5. t \in 1..MaxTurns
      BY <1>1, <2>3
    <2> QED
      BY <1>1, <1>2, <2>3, <2>4, <2>5
  <1> QED
    BY <1>3, <1>4
-----------------------------------------------------------------------------
(* The kinds of steps *)

\* The goroutines a step may leave that schedules an agent.
Carried == {th} \cup {Goto(t, l) : t \in {u \in TurnIds : th[u].pc \in {"schedule", "fan_in"}},
                                   l \in {"fan_in", "settle"}}

Cancelled == [i \in ItemIds |-> IF inbox[i].status \in {"pending", "claimed"}
                                THEN [inbox[i] EXCEPT !.status = "cancelled"] ELSE inbox[i]]

\* Turn n starts for agent a, which has pending items.
Started(a, n, g) == /\ round \notin RoundTerminal /\ Linkable(a, PendingAgentInbox(a))
                    /\ First(FreeTurns, n)
                    /\ Claim(a, PendingAgentInbox(a), n)
                    /\ th' = [g EXCEPT ![n] = Run]

ScheduleStep(g) ==
  /\ Up /\ UNCHANGED <<round, batch, events, call, wait, timers, wake, boot, crashes, answered>>
  /\ merge' \in BOOLEAN /\ due' \subseteq due /\ resume' \subseteq resume
  /\ \/ th' = g /\ UNCHANGED <<turn, inbox, member>>
     \/ th' = g /\ UNCHANGED <<turn, member>> /\ round \in RoundTerminal /\ inbox' = Cancelled
     \/ \E a \in Agents, n \in TurnIds : Started(a, n, g)

LEMMA ScheduleCases ==
  ASSUME NEW a, NEW g, ScheduleAgent(a, g)
  PROVE  \/ th' = g /\ UNCHANGED <<turn, inbox, member>>
         \/ th' = g /\ UNCHANGED <<turn, member>> /\ round \in RoundTerminal /\ inbox' = Cancelled
         \/ \E n \in TurnIds : Started(a, n, g)
  BY DEF ScheduleAgent, Started, Cancelled

LEMMA MergeCases ==
  ASSUME NEW g, NEW armed \in BOOLEAN, MergeResults(g, armed)
  PROVE  /\ merge' \in BOOLEAN
         /\ \/ th' = g /\ UNCHANGED <<turn, inbox, member>>
            \/ ScheduleAgent(Main, g)
  BY DEF MergeResults

LEMMA Schedulers ==
  ASSUME Shape,
         \/ \E a \in Agents : ScheduleDue(a) \/ ResumeAgent(a)
         \/ \E t \in TurnIds : TailSchedule(t) \/ TailFanIn(t)
         \/ MergeFires
  PROVE  \E g \in Carried : ScheduleStep(g)
  <1>0. merge \in BOOLEAN
    BY DEF Shape, TypeOK
  <1>1. ASSUME NEW a \in Agents, ScheduleDue(a) PROVE ScheduleStep(th)
    <2>1. Up
      BY <1>1 DEF ScheduleDue, Shape, Stopped
    <2>2. ScheduleAgent(a, th)
      BY <1>1 DEF ScheduleDue
    <2> QED
      BY <1>0, <1>1, <2>1, <2>2, ScheduleCases DEF ScheduleDue, ScheduleStep, process
  <1>2. ASSUME NEW a \in Agents, ResumeAgent(a) PROVE ScheduleStep(th)
    <2>1. Up
      BY <1>2 DEF ResumeAgent, Up
    <2>2. ScheduleAgent(a, th)
      BY <1>2 DEF ResumeAgent
    <2> QED
      BY <1>0, <1>2, <2>1, <2>2, ScheduleCases DEF ResumeAgent, ScheduleStep
  <1>3. ASSUME NEW t \in TurnIds, TailSchedule(t) PROVE \E g \in Carried : ScheduleStep(g)
    <2>1. PICK l \in {"fan_in", "settle"} : ScheduleAgent(turn[t].agent, Goto(t, l))
      BY <1>3 DEF TailSchedule
    <2>2. Up /\ turn[t].agent \in Agents
      BY <1>3 DEF TailSchedule, At, Shape, Tails, TypeOK, Turns
    <2>3. ScheduleStep(Goto(t, l))
      BY <1>0, <1>3, <2>1, <2>2, ScheduleCases DEF TailSchedule, TailRest, process, ScheduleStep
    <2>4. Goto(t, l) \in Carried
      BY <1>3 DEF TailSchedule, At, Carried
    <2> QED
      BY <2>3, <2>4
  <1>4. ASSUME NEW t \in TurnIds, TailFanIn(t) PROVE \E g \in Carried : ScheduleStep(g)
    <2>1. MergeResults(Goto(t, "settle"), merge)
      BY <1>4 DEF TailFanIn
    <2>2. Up /\ Main \in Agents
      BY <1>4 DEF TailFanIn, At, Shape, Tails, Agents
    <2>3. ScheduleStep(Goto(t, "settle"))
      BY <1>0, <1>4, <2>1, <2>2, MergeCases, ScheduleCases
         DEF TailFanIn, TailRest, process, ScheduleStep
    <2>4. Goto(t, "settle") \in Carried
      BY <1>4 DEF TailFanIn, At, Carried
    <2> QED
      BY <2>3, <2>4
  <1>5. CASE MergeFires
    <2>1. MergeResults(th, FALSE)
      BY <1>5 DEF MergeFires
    <2>2. Up /\ Main \in Agents
      BY <1>5 DEF MergeFires, Shape, Stopped, Agents
    <2>3. ScheduleStep(th)
      BY <1>0, <1>5, <2>1, <2>2, MergeCases, ScheduleCases
         DEF MergeFires, TimerRest, process, ScheduleStep
    <2> QED
      BY <2>3 DEF Carried
  <1> QED
    BY <1>1, <1>2, <1>3, <1>4, <1>5 DEF Carried

\* All other steps of the goroutine of turn t.
TailKinds(t) == \/ Retry(t) \/ PassOn(t) \/ RecordResult(t) \/ RouteResult(t) \/ Arm(t)
                \/ Finalize(t) \/ FinalizeWrite(t) \/ Settle(t)

\* Steps that only forget something, or arm a timer of an open batch.
Minor == /\ UNCHANGED <<tables, th, merge, resume, crashes, answered>>
         /\ wait' \in {wait, NoWait} /\ call' \in {call, NoCall}
         /\ boot' = boot \/ (boot = "agents" /\ boot' = "up")
         /\ due' \subseteq due \cup {Main}
         /\ timers' \subseteq timers \cup {batch[b].parent : b \in OpenBatches}
         /\ wake' = wake \/ \E p \in TurnIds : wake' = [wake EXCEPT ![p] = NoWake]
         /\ Up
-----------------------------------------------------------------------------
LEMMA StepKinds ==
  ASSUME Shape, [Next]_vars
  PROVE  \/ \E g \in Carried : ScheduleStep(g)
         \/ \E t \in TurnIds : \/ \E a \in Subs : Assign(t, a)
                               \/ \E b \in BatchIds : WaitCall(t, b)
                               \/ EndTurn(t) \/ TailKinds(t) \/ WakeFires(t) \/ WakeMarks(t)
         \/ CreateBatch \/ WaitAnswer \/ OwnerMessage \/ Restart
         \/ Crash \/ \E a \in Agents : ResumeFails(a)
         \/ Minor
         \/ UNCHANGED vars
  <1>1. ASSUME NEW t \in TurnIds, TailStep(t)
        PROVE  (\E g \in Carried : ScheduleStep(g)) \/ TailKinds(t)
    <2>1. CASE TailSchedule(t) \/ TailFanIn(t)
      BY <2>1, Schedulers
    <2> QED
      BY <1>1, <2>1 DEF TailStep, TailKinds
  <1>2. ASSUME NEW p \in TurnIds, WakeSchedules(p) PROVE Minor
    <2>1. Up /\ wake \in [TurnIds -> WakeStates]
      BY <1>2 DEF WakeSchedules, Shape, Stopped, MemoryTypes
    <2> QED
      BY <1>2, <2>1 DEF WakeSchedules, Minor, process
  <1>3. CASE WaitTimeout
    <2>1. Up
      BY <1>3 DEF WaitTimeout, Shape, Stopped
    <2> QED
      BY <1>3, <2>1 DEF WaitTimeout, Minor, process
  <1>4. CASE CallLost
    <2>1. Up
      BY <1>4 DEF CallLost, Shape, Stopped, NoCall
    <2> QED
      BY <1>4, <2>1 DEF CallLost, Minor, process
  <1>5. CASE ResumeBatches
    <2>1. \A b \in BatchIds : MayWake(b) => b \in OpenBatches
      BY DEF MayWake
    <2>2. /\ timers' \subseteq timers \cup {batch[b].parent : b \in OpenBatches}
          /\ boot = "agents" /\ boot' = "up"
          /\ UNCHANGED <<tables, th, call, wait, wake, merge, due, resume, crashes, answered>>
      BY <1>5, <2>1 DEF ResumeBatches, OpenBatches
    <2> QED
      BY <2>2 DEF Minor, Up, tables
  <1>6. CASE Boot
    BY <1>5, <1>6, Schedulers DEF Boot
  <1>7. ASSUME NEW t \in TurnIds, Wake(t) PROVE WakeFires(t) \/ WakeMarks(t) \/ Minor
    BY <1>2, <1>7 DEF Wake
  <1>8. CASE \/ \E a \in Agents : ScheduleDue(a)
             \/ MergeFires
    BY <1>8, Schedulers
  <1> QED
    BY <1>1, <1>3, <1>4, <1>6, <1>7, <1>8 DEF Next
-----------------------------------------------------------------------------
(* Turns *)

LEMMA CarriedTypes ==
  ASSUME MemoryTypes, NEW g \in Carried
  PROVE  /\ g \in [TurnIds -> Goroutines] /\ Run \in Goroutines
         /\ \A t \in TurnIds : /\ g[t].pc # "idle" => th[t].pc # "idle"
                               /\ \/ g[t] = th[t]
                                  \/ /\ th[t].pc \in {"schedule", "fan_in"}
                                     /\ g[t].pc \in {"fan_in", "settle"} /\ g[t].todo = {}
  <1>0. Idle \in Goroutines /\ Idle.todo = {}
    BY RowsAssumption DEF Idle, Goroutines, Labels, Events
  <1>1. /\ \A l \in Labels : [Idle EXCEPT !.pc = l] \in Goroutines
        /\ \A l \in Labels : [Idle EXCEPT !.pc = l].pc = l /\ [Idle EXCEPT !.pc = l].todo = {}
    BY <1>0 DEF Goroutines
  <1>2. Run \in Goroutines
    BY <1>1 DEF Run, Labels
  <1>3. CASE g = th
    BY <1>2, <1>3 DEF MemoryTypes
  <1>4. CASE g # th
    <2>1. PICK t \in {u \in TurnIds : th[u].pc \in {"schedule", "fan_in"}},
               l \in {"fan_in", "settle"} : g = Goto(t, l)
      BY <1>4 DEF Carried
    <2>2. g = [th EXCEPT ![t] = [Idle EXCEPT !.pc = l]]
      BY <2>1 DEF Goto
    <2>3. l \in Labels
      BY DEF Labels
    <2>4. \A u \in TurnIds : g[u] = IF u = t THEN [Idle EXCEPT !.pc = l] ELSE th[u]
      BY <2>2 DEF MemoryTypes
    <2>5. g \in [TurnIds -> Goroutines]
      BY <1>1, <2>2, <2>3 DEF MemoryTypes
    <2> QED
      BY <1>1, <1>2, <2>3, <2>4, <2>5
  <1> QED
    BY <1>3, <1>4

\* A turn keeps what it is, and what it has come to.
KeptTurn(t) == /\ There(t)' /\ turn'[t].agent = turn[t].agent
               /\ turn'[t].generation = turn[t].generation /\ turn'[t].claims = turn[t].claims
               /\ Ended(t) => Ended(t)'

\* The first free row becomes a turn that runs.
InsertedTurn(n) == /\ First(FreeTurns, n)
                   /\ turn'[n].status = "running" /\ turn'[n].generation < n
                   /\ th'[n] = Run

LEMMA TurnStep ==
  ASSUME Shape, [Next]_vars
  PROVE  /\ turn' \in [TurnIds -> Turns]
         /\ \A t \in TurnIds : There(t) => KeptTurn(t)
         /\ \A t \in TurnIds : ~ There(t) /\ There(t)' => InsertedTurn(t)
  <1> DEFINE Goal == /\ turn' \in [TurnIds -> Turns]
                     /\ \A t \in TurnIds : There(t) => KeptTurn(t)
                     /\ \A t \in TurnIds : ~ There(t) /\ There(t)' => InsertedTurn(t)
  <1>0. /\ turn \in [TurnIds -> Turns] /\ th \in [TurnIds -> Goroutines]
        /\ MaxTurns \in Nat /\ TurnIds = 1..MaxTurns
        /\ TypeOK /\ TurnRows /\ MemoryTypes
    BY RowsAssumption DEF Shape, TypeOK, MemoryTypes, TurnIds
  <1>1. CASE turn' = turn
    BY <1>0, <1>1 DEF KeptTurn, There, Ended
  <1>2. ASSUME NEW n \in TurnIds, First(FreeTurns, n), NEW r \in Turns,
               turn' = [turn EXCEPT ![n] = r], r.status = "running", r.generation < n,
               th'[n] = Run
        PROVE  Goal
    <2>1. ~ There(n)
      BY <1>2 DEF First, FreeTurns, There
    <2>2. /\ turn' \in [TurnIds -> Turns] /\ turn'[n] = r
          /\ \A t \in TurnIds : t # n => turn'[t] = turn[t]
      BY <1>0, <1>2
    <2>3. InsertedTurn(n)
      BY <1>2, <2>2 DEF InsertedTurn
    <2> QED
      BY <2>1, <2>2, <2>3 DEF KeptTurn, There, Ended
  <1>3. ASSUME NEW g \in Carried, ScheduleStep(g) PROVE Goal
    <2>1. ASSUME NEW a \in Agents, NEW n \in TurnIds, Started(a, n, g) PROVE Goal
      <3> DEFINE r == [agent |-> a, status |-> "running", attempt |-> 1,
                       generation |-> NextGeneration(a), claims |-> n]
      <3>1. NextGeneration(a) \in 0..(n - 1) /\ First(FreeTurns, n)
        BY <1>0, <2>1, GenerationFacts DEF Started
      <3>2. r \in Turns
        BY <1>0, <3>1 DEF Turns, TurnStatus
      <3>3. turn' = [turn EXCEPT ![n] = r]
        BY <2>1 DEF Started, Claim
      <3>4. th'[n] = Run
        BY <1>0, <2>1, CarriedTypes DEF Started
      <3>5. r.status = "running" /\ r.generation < n
        BY <1>0, <3>1
      <3> HIDE DEF r
      <3> QED
        BY <1>2, <3>1, <3>2, <3>3, <3>4, <3>5
    <2> QED
      BY <1>1, <1>3, <2>1 DEF ScheduleStep
  <1>4. ASSUME NEW t \in TurnIds, EndTurn(t) PROVE Goal
    <2>1. PICK s \in TurnTerminal : turn' = [turn EXCEPT ![t].status = s]
      BY <1>4 DEF EndTurn, TurnTerminal
    <2>2. There(t)
      BY <1>4 DEF EndTurn, At, Shape, Tails
    <2>3. s \in TurnStatus /\ s # "none"
      BY DEF TurnTerminal, TurnStatus
    <2>4. turn' \in [TurnIds -> Turns]
      BY <1>0, <2>1, <2>3 DEF Turns
    <2>5. \A u \in TurnIds : turn'[u] = IF u = t THEN [turn[t] EXCEPT !.status = s] ELSE turn[u]
      BY <1>0, <2>1
    <2>6. turn[t] \in Turns
      BY <1>0
    <2> QED
      BY <2>2, <2>3, <2>4, <2>5, <2>6 DEF KeptTurn, There, Ended, Turns
  <1>5. ASSUME NEW t \in TurnIds, Retry(t) PROVE Goal
    <2>1. PICK n \in TurnIds :
             /\ First(FreeTurns, n)
             /\ turn' = [turn EXCEPT ![n] = [turn[t] EXCEPT !.status = "running", !.attempt = @ + 1]]
             /\ th' = [Goto(t, "settle") EXCEPT ![n] = Run]
      BY <1>5 DEF Retry
    <2> DEFINE r == [turn[t] EXCEPT !.status = "running", !.attempt = @ + 1]
    <2>2. There(t) /\ turn[t].attempt = 1 /\ turn[t] \in Turns
      BY <1>0, <1>5 DEF Retry, MayRetry, At, Shape, Tails
    <2>3. r \in Turns /\ r.status = "running" /\ r.generation = turn[t].generation
      <3>1. [turn[t] EXCEPT !.status = "running"] \in Turns
        BY <2>2 DEF Turns, TurnStatus
      <3>2. turn[t].attempt + 1 \in 0..2
        BY <2>2
      <3> QED
        BY <2>2, <3>1, <3>2 DEF Turns
    <2>4. t < n
      <3>1. ~ There(n)
        BY <2>1 DEF First, FreeTurns, There
      <3> QED
        BY <1>0, <2>2, <3>1 DEF TurnRows
    <2>5. turn[t].generation < t /\ turn[t].generation \in Nat
      BY <1>0, <2>2 DEF TurnRows, Turns
    <2>6. r.generation < n
      BY <1>0, <2>3, <2>4, <2>5
    <2>7. th'[n] = Run
      BY <1>0, <2>1 DEF Goto
    <2> HIDE DEF r
    <2> QED
      BY <1>2, <2>1, <2>3, <2>6, <2>7 DEF r
  <1>6. CASE Restart
    <2> DEFINE lost == {t \in TurnIds : turn[t].status \in TurnActive}
    <2>1. turn' = [t \in TurnIds |-> IF t \in lost THEN [turn[t] EXCEPT !.status = "interrupted"]
                                     ELSE turn[t]]
      BY <1>6 DEF Restart
    <2>2. \A t \in TurnIds : turn[t] \in Turns
      BY <1>0
    <2>3. "interrupted" \in TurnStatus /\ "interrupted" \in TurnTerminal
          /\ "none" \notin TurnActive
      BY DEF TurnStatus, TurnTerminal, TurnActive
    <2>4. turn' \in [TurnIds -> Turns]
      BY <2>1, <2>2, <2>3 DEF Turns
    <2> QED
      BY <2>1, <2>2, <2>3, <2>4 DEF KeptTurn, There, Ended, Turns
  <1>7. ASSUME NEW t \in TurnIds, TailKinds(t) PROVE Goal
    <2>1. CASE \/ PassOn(t) \/ RecordResult(t) \/ RouteResult(t) \/ Arm(t)
               \/ Finalize(t) \/ FinalizeWrite(t) \/ Settle(t)
      BY <1>1, <2>1 DEF PassOn, RecordResult, RouteResult, Arm, Finalize, FinalizeWrite, Settle, tables
    <2> QED
      BY <1>5, <1>7, <2>1 DEF TailKinds
  <1>8. CASE \E t \in TurnIds : \/ \E a \in Subs : Assign(t, a)
                                \/ \E b \in BatchIds : WaitCall(t, b)
                                \/ WakeFires(t) \/ WakeMarks(t)
    BY <1>1, <1>8 DEF Assign, WaitCall, WakeFires, WakeMarks, tables
  <1>9. CASE CreateBatch \/ WaitAnswer \/ OwnerMessage
    BY <1>1, <1>9 DEF CreateBatch, WaitAnswer, OwnerMessage
  <1>10. CASE Crash \/ (\E a \in Agents : ResumeFails(a)) \/ Minor \/ UNCHANGED vars
    BY <1>1, <1>10 DEF Crash, ResumeFails, Minor, vars, tables
  <1> QED
    BY <1>3, <1>4, <1>6, <1>7, <1>8, <1>9, <1>10, StepKinds
-----------------------------------------------------------------------------
(* Batches *)

\* A batch keeps its parent, and its cursor moves forward.
KeptBatch(b) == /\ Stored(b)' /\ batch'[b].parent = batch[b].parent
                /\ batch[b].delivered <= batch'[b].delivered

LEMMA BatchStep ==
  ASSUME Shape, [Next]_vars
  PROVE  /\ batch' \in [BatchIds -> Batches]
         /\ \A b \in BatchIds : Stored(b) => KeptBatch(b)
         /\ \A b \in BatchIds : ~ Stored(b) /\ Stored(b)' =>
              CreateBatch /\ b = call.batch /\ batch'[b].parent \in TurnIds /\ batch'[b].delivered = 0
  <1> DEFINE Goal == /\ batch' \in [BatchIds -> Batches]
                     /\ \A b \in BatchIds : Stored(b) => KeptBatch(b)
                     /\ \A b \in BatchIds : ~ Stored(b) /\ Stored(b)' =>
                          /\ CreateBatch /\ b = call.batch
                          /\ batch'[b].parent \in TurnIds /\ batch'[b].delivered = 0
  <1>0. /\ batch \in [BatchIds -> Batches] /\ th \in [TurnIds -> Goroutines]
        /\ MaxTurns \in Nat /\ TurnIds = 1..MaxTurns /\ Events = 0..MaxTurns
        /\ events \in Seq(Result) /\ Len(events) \in 0..MaxTurns
        /\ References /\ CursorsInRange /\ wake \in [TurnIds -> WakeStates]
        /\ wait \in Waits /\ call \in Calls
        /\ \A b \in BatchIds : batch[b].delivered \in Nat
    BY RowsAssumption, EventDomain DEF Shape, TypeOK, MemoryTypes, TurnIds, Events, Batches
  <1>1. CASE batch' = batch
    BY <1>0, <1>1 DEF KeptBatch, Stored
  <1>2. ASSUME NEW b \in BatchIds, Stored(b), NEW s \in {"pending", "complete", "fallback", "consumed"},
               NEW n \in Events, batch[b].delivered <= n,
               batch' = [batch EXCEPT ![b] = [batch[b] EXCEPT !.delivered = n, !.status = s]]
        PROVE  Goal
    <2>1. batch[b] \in Batches
      BY <1>0
    <2> DEFINE r == [batch[b] EXCEPT !.delivered = n, !.status = s]
    <2>2. r \in Batches /\ r.status = s /\ r.parent = batch[b].parent /\ r.delivered = n
      <3>1. [batch[b] EXCEPT !.delivered = n] \in Batches
        BY <1>2, <2>1 DEF Batches
      <3> QED
        BY <1>2, <2>1, <3>1 DEF Batches
    <2>3. batch' \in [BatchIds -> Batches]
      BY <1>0, <1>2, <2>2
    <2>4. batch'[b] = r /\ \A c \in BatchIds : c # b => batch'[c] = batch[c]
      BY <1>0, <1>2
    <2> HIDE DEF r
    <2>5. KeptBatch(b)
      BY <1>2, <2>2, <2>4 DEF KeptBatch, Stored
    <2>6. \A c \in BatchIds \ {b} : Stored(c) => KeptBatch(c)
      BY <1>0, <2>4 DEF KeptBatch, Stored
    <2> QED
      BY <1>2, <2>3, <2>4, <2>5, <2>6 DEF Stored
  <1>3. ASSUME NEW b \in BatchIds, Stored(b), NEW s \in {"pending", "complete", "fallback", "consumed"},
               batch' = [batch EXCEPT ![b].status = s]
        PROVE  Goal
    <2>1. batch[b] \in Batches
      BY <1>0
    <2>2. [batch[b] EXCEPT !.status = s]
            = [batch[b] EXCEPT !.delivered = batch[b].delivered, !.status = s]
      BY <2>1 DEF Batches
    <2>3. batch' = [batch EXCEPT ![b] = [batch[b] EXCEPT !.delivered = batch[b].delivered, !.status = s]]
      BY <1>3, <2>2
    <2>4. batch[b].delivered \in Events /\ batch[b].delivered <= batch[b].delivered
      BY <1>0, <2>1 DEF Batches
    <2> QED
      BY <1>2, <1>3, <2>3, <2>4
  <1>4. CASE CreateBatch
    <2>1. /\ call.turn \in TurnIds /\ call.batch \in BatchIds /\ ~ Stored(call.batch)
      BY <1>0, <1>4 DEF CreateBatch, Shape, BatchRows, Calls
    <2> DEFINE r == [status |-> "pending", parent |-> call.turn, delivered |-> 0]
    <2>2. r \in Batches /\ batch' = [batch EXCEPT ![call.batch] = r]
      BY <1>0, <1>4, <2>1 DEF CreateBatch, Batches
    <2>3. /\ batch' \in [BatchIds -> Batches] /\ batch'[call.batch] = r
          /\ \A c \in BatchIds : c # call.batch => batch'[c] = batch[c]
      BY <1>0, <2>1, <2>2
    <2> QED
      BY <1>0, <1>4, <2>1, <2>3 DEF KeptBatch, Stored
  <1>5. CASE WaitAnswer
    <2> DEFINE b == wait.batch
               next == NextCursor(b, wait.after)
               n == IF batch[b].delivered < next THEN next ELSE batch[b].delivered
               s == IF Complete(b) /\ wait.status = "pending" THEN "complete" ELSE wait.status
    <2>1. b \in BatchIds /\ Stored(b) /\ wait.after \in 0..Len(events)
      BY <1>0, <1>5 DEF WaitAnswer, References, CursorsInRange, Waits
    <2>2. next \in 0..Len(events)
      BY <1>0, <2>1, CursorFacts
    <2>3. n \in Events /\ batch[b].delivered <= n
      <3>1. batch[b].delivered \in Events
        BY <1>0, <2>1 DEF Batches
      <3> HIDE DEF next
      <3> QED
        BY <1>0, <2>1, <2>2, <3>1
    <2>4. s \in {"pending", "complete", "fallback", "consumed"}
      BY <1>0, <1>5 DEF WaitAnswer, References, Waits
    <2>5. batch' = [batch EXCEPT ![b] = [batch[b] EXCEPT !.delivered = n, !.status = s]]
      BY <1>5 DEF WaitAnswer
    <2> HIDE DEF b, n, s
    <2> QED
      BY <1>2, <2>1, <2>3, <2>4, <2>5
  <1>6. ASSUME NEW t \in TurnIds, RecordResult(t) PROVE Goal
    <2>1. PICK b \in BatchIds :
             /\ \E a \in Subs : member[b][a].child = t
             /\ \E s \in {"pending", "complete"} : batch' = [batch EXCEPT ![b].status = s]
      BY <1>6 DEF RecordResult, ChildOf
    <2>2. Stored(b)
      BY <1>0, <2>1 DEF Shape, MemberRows
    <2> QED
      BY <1>3, <2>1, <2>2
  <1>7. ASSUME NEW t \in TurnIds, FinalizeWrite(t) PROVE Goal
    <2>1. th[t].b \in BatchIds /\ Stored(th[t].b)
      BY <1>7 DEF FinalizeWrite, At, Shape, Tails
    <2>2. \E s \in {"consumed", "fallback"} : batch' = [batch EXCEPT ![th[t].b].status = s]
      BY <1>7 DEF FinalizeWrite
    <2> QED
      BY <1>3, <2>1, <2>2
  <1>8. ASSUME NEW p \in TurnIds, WakeMarks(p) PROVE Goal
    <2>1. PICK b \in wake[p].batches :
             batch' = [batch EXCEPT
               ![b].delivered = IF @ < wake[p].cursors[b] THEN wake[p].cursors[b] ELSE @,
               ![b].status = "fallback"]
      BY <1>8 DEF WakeMarks
    <2> DEFINE n == IF batch[b].delivered < wake[p].cursors[b] THEN wake[p].cursors[b]
                    ELSE batch[b].delivered
    <2>2. b \in BatchIds /\ Stored(b) /\ wake[p].cursors[b] \in Events
      BY <1>0, <2>1 DEF References, WakeStates
    <2>3. n \in Events /\ batch[b].delivered <= n
      <3>1. batch[b].delivered \in Events
        BY <1>0, <2>2 DEF Batches
      <3> QED
        BY <1>0, <2>2, <3>1
    <2>4. batch' = [batch EXCEPT ![b] = [batch[b] EXCEPT !.delivered = n, !.status = "fallback"]]
      BY <2>1
    <2> HIDE DEF n
    <2> QED
      BY <1>2, <2>2, <2>3, <2>4
  <1>9. ASSUME NEW t \in TurnIds, TailKinds(t) PROVE Goal
    <2>1. CASE \/ Retry(t) \/ PassOn(t) \/ RouteResult(t) \/ Arm(t) \/ Finalize(t) \/ Settle(t)
      BY <1>1, <2>1 DEF Retry, PassOn, RouteResult, Arm, Finalize, Settle, tables
    <2> QED
      BY <1>6, <1>7, <1>9, <2>1 DEF TailKinds
  <1>10. CASE \E g \in Carried : ScheduleStep(g)
    BY <1>1, <1>10 DEF ScheduleStep
  <1>11. CASE \E t \in TurnIds : \/ \E a \in Subs : Assign(t, a)
                                 \/ \E b \in BatchIds : WaitCall(t, b)
                                 \/ EndTurn(t) \/ WakeFires(t)
    BY <1>1, <1>11 DEF Assign, WaitCall, EndTurn, WakeFires, tables
  <1>12. CASE OwnerMessage \/ Restart
    BY <1>1, <1>12 DEF OwnerMessage, Restart
  <1>13. CASE Crash \/ (\E a \in Agents : ResumeFails(a)) \/ Minor \/ UNCHANGED vars
    BY <1>1, <1>13 DEF Crash, ResumeFails, Minor, vars, tables
  <1> QED
    BY <1>4, <1>5, <1>8, <1>9, <1>10, <1>11, <1>12, <1>13, StepKinds
-----------------------------------------------------------------------------
(* Goroutines *)

\* What a goroutine does after its turn: it does not go back, and what it
\* names is there.
MovesOn(t) ==
  /\ th[t].pc \notin {"idle", "run"} /\ th'[t].pc \notin {"idle", "run", "terminal"}
  /\ th'[t].pc = "route" => th[t].pc = "terminal" /\ turn[t].agent \in Subs
  /\ th'[t].pc \in {"arm", "finalize_write"} => th'[t].b \in BatchIds /\ Stored(th'[t].b)
  /\ th'[t].pc = "finalize_write" => Finalize(t)
  /\ \A b \in th'[t].todo : Stored(b)

ThreadMove(t) ==
  \/ th'[t] = th[t]
  \/ th'[t].pc = "idle" /\ th'[t].todo = {}
  \/ ~ There(t) /\ th'[t] = Run /\ turn'[t].status \in TurnActive
  \/ th[t].pc = "run" /\ th'[t].pc = "terminal" /\ th'[t].todo = {} /\ Ended(t)'
  \/ MovesOn(t)

LEMMA GoOnTypes ==
  ASSUME MemoryTypes, NEW t \in TurnIds, NEW todo \in SUBSET BatchIds
  PROVE  /\ GoOn(t, todo) \in [TurnIds -> Goroutines]
         /\ \A u \in TurnIds : u # t => GoOn(t, todo)[u] = th[u]
         /\ GoOn(t, todo)[t].pc \in {"schedule", "finalize"}
         /\ GoOn(t, todo)[t].todo = todo
  <1>0. Idle \in Goroutines
    BY RowsAssumption DEF Idle, Goroutines, Labels, Events
  <1> DEFINE s == [Idle EXCEPT !.pc = "schedule"]
             f == [Idle EXCEPT !.pc = "finalize", !.todo = todo]
  <1>1. s \in Goroutines /\ s.pc = "schedule" /\ s.todo = {}
    BY <1>0 DEF Goroutines, Labels, Idle
  <1>2. f \in Goroutines /\ f.pc = "finalize" /\ f.todo = todo
    <2>1. [Idle EXCEPT !.pc = "finalize"] \in Goroutines
      BY <1>0 DEF Goroutines, Labels
    <2> QED
      BY <1>0, <2>1 DEF Goroutines
  <1>3. GoOn(t, todo) = [th EXCEPT ![t] = IF todo = {} THEN s ELSE f]
    BY DEF GoOn
  <1> HIDE DEF s, f
  <1> QED
    BY <1>1, <1>2, <1>3 DEF MemoryTypes

LEMMA GotoTypes ==
  ASSUME MemoryTypes, NEW t \in TurnIds, NEW l \in Labels
  PROVE  /\ Goto(t, l) \in [TurnIds -> Goroutines]
         /\ \A u \in TurnIds : u # t => Goto(t, l)[u] = th[u]
         /\ Goto(t, l)[t].pc = l /\ Goto(t, l)[t].todo = {}
  <1>0. Idle \in Goroutines /\ Idle.todo = {}
    BY RowsAssumption DEF Idle, Goroutines, Labels, Events
  <1> DEFINE s == [Idle EXCEPT !.pc = l]
  <1>1. s \in Goroutines /\ s.pc = l /\ s.todo = {}
    BY <1>0 DEF Goroutines
  <1>2. Goto(t, l) = [th EXCEPT ![t] = s]
    BY DEF Goto
  <1> HIDE DEF s
  <1> QED
    BY <1>1, <1>2 DEF MemoryTypes

LEMMA ThreadStep ==
  ASSUME Shape, [Next]_vars
  PROVE  /\ th' \in [TurnIds -> Goroutines]
         /\ \A t \in TurnIds : ThreadMove(t)
  <1> DEFINE Goal == th' \in [TurnIds -> Goroutines] /\ \A t \in TurnIds : ThreadMove(t)
  <1>0. /\ MemoryTypes /\ th \in [TurnIds -> Goroutines]
        /\ Len(events) \in 0..MaxTurns /\ MaxTurns \in Nat /\ Events = 0..MaxTurns
        /\ batch \in [BatchIds -> Batches] /\ turn \in [TurnIds -> Turns]
        /\ \A t \in TurnIds : th[t].todo \in SUBSET BatchIds
    BY RowsAssumption, EventDomain DEF Shape, TypeOK, MemoryTypes, Events, Goroutines
  <1>1. CASE th' = th
    BY <1>0, <1>1 DEF ThreadMove
  <1>2. ASSUME NEW t \in TurnIds, NEW s \in Goroutines, th' = [th EXCEPT ![t] = s],
               \/ s.pc = "idle" /\ s.todo = {}
               \/ th[t].pc = "run" /\ s.pc = "terminal" /\ s.todo = {} /\ Ended(t)'
               \/ th'[t] = s => MovesOn(t)
        PROVE  Goal
    <2>1. th' \in [TurnIds -> Goroutines] /\ th'[t] = s /\ \A u \in TurnIds : u # t => th'[u] = th[u]
      BY <1>0, <1>2
    <2> QED
      BY <1>2, <2>1 DEF ThreadMove
  <1>3. ASSUME NEW g \in Carried, ScheduleStep(g) PROVE Goal
    <2>1. /\ g \in [TurnIds -> Goroutines] /\ Run \in Goroutines
          /\ \A t \in TurnIds : \/ g[t] = th[t]
                                \/ /\ th[t].pc \in {"schedule", "fan_in"}
                                   /\ g[t].pc \in {"fan_in", "settle"} /\ g[t].todo = {}
      BY <1>0, CarriedTypes
    <2>2. CASE th' = g
      BY <2>1, <2>2 DEF ThreadMove, MovesOn
    <2>3. ASSUME NEW a \in Agents, NEW n \in TurnIds, Started(a, n, g) PROVE Goal
      <3>1. th' = [g EXCEPT ![n] = Run] /\ ~ There(n)
        BY <2>3 DEF Started, First, FreeTurns, There
      <3>2. th' \in [TurnIds -> Goroutines] /\ th'[n] = Run
            /\ \A u \in TurnIds : u # n => th'[u] = g[u]
        BY <2>1, <3>1
      <3>3. turn'[n].status \in TurnActive
        BY <1>0, <2>3 DEF Started, Claim, TurnActive
      <3> QED
        BY <2>1, <3>1, <3>2, <3>3 DEF ThreadMove, MovesOn
    <2> QED
      BY <1>3, <2>2, <2>3 DEF ScheduleStep
  <1>4. ASSUME NEW t \in TurnIds, EndTurn(t) PROVE Goal
    <2>1. th[t].pc = "run" /\ th' = Goto(t, "terminal")
      BY <1>4 DEF EndTurn, At
    <2>2. PICK s \in TurnTerminal : turn' = [turn EXCEPT ![t].status = s]
      BY <1>4 DEF EndTurn, TurnTerminal
    <2>3. Ended(t)'
      BY <1>0, <2>2 DEF Ended, Turns
    <2>4. /\ th' \in [TurnIds -> Goroutines] /\ \A u \in TurnIds : u # t => th'[u] = th[u]
          /\ th'[t].pc = "terminal" /\ th'[t].todo = {}
      BY <1>0, <2>1, GotoTypes DEF Labels
    <2> QED
      BY <2>1, <2>3, <2>4 DEF ThreadMove
  <1>5. ASSUME NEW t \in TurnIds, Retry(t) PROVE Goal
    <2>1. PICK n \in TurnIds :
             /\ First(FreeTurns, n) /\ th' = [Goto(t, "settle") EXCEPT ![n] = Run]
             /\ turn' = [turn EXCEPT ![n] = [turn[t] EXCEPT !.status = "running", !.attempt = @ + 1]]
      BY <1>5 DEF Retry
    <2>2. th[t].pc = "terminal" /\ ~ There(n) /\ Run \in Goroutines
      BY <1>0, <1>5, <2>1, CarriedTypes DEF Retry, At, First, FreeTurns, There, Carried
    <2>3. /\ Goto(t, "settle") \in [TurnIds -> Goroutines]
          /\ \A u \in TurnIds : u # t => Goto(t, "settle")[u] = th[u]
          /\ Goto(t, "settle")[t].pc = "settle" /\ Goto(t, "settle")[t].todo = {}
      BY <1>0, GotoTypes DEF Labels
    <2>4. th' \in [TurnIds -> Goroutines] /\ th'[n] = Run
          /\ \A u \in TurnIds : u # n => th'[u] = Goto(t, "settle")[u]
      BY <2>1, <2>2, <2>3
    <2>5. turn'[n].status \in TurnActive
      <3>1. turn'[n] = [turn[t] EXCEPT !.status = "running", !.attempt = @ + 1] /\ turn[t] \in Turns
        BY <1>0, <2>1
      <3> QED
        BY <3>1 DEF Turns, TurnActive
    <2> QED
      BY <2>2, <2>3, <2>4, <2>5 DEF ThreadMove, MovesOn
  <1>6. ASSUME NEW t \in TurnIds, PassOn(t) PROVE Goal
    <2>1. th[t].pc = "terminal" /\ turn[t].agent \in {Main} \cup Subs
      BY <1>0, <1>6 DEF PassOn, At, Turns, Agents
    <2>2. CASE turn[t].agent = Main
      <3> DEFINE todo == WokenBy(t) \cup BatchesForParentTurn(t)
      <3>1. todo \in SUBSET BatchIds
        BY <1>0 DEF Shape, TypeOK, Items, WokenBy, BatchesForParentTurn, OpenBatches
      <3>2. \A b \in todo : Stored(b)
        BY DEF Shape, References, WokenBy, BatchesForParentTurn, OpenBatches, Stored
      <3>3. th' = GoOn(t, todo)
        BY <1>6, <2>2 DEF PassOn
      <3> HIDE DEF todo
      <3>4. /\ th' \in [TurnIds -> Goroutines] /\ \A u \in TurnIds : u # t => th'[u] = th[u]
            /\ th'[t].pc \in {"schedule", "finalize"} /\ th'[t].todo = todo
        BY <1>0, <3>1, <3>3, GoOnTypes
      <3>5. MovesOn(t)
        BY <2>1, <3>2, <3>4 DEF MovesOn
      <3> QED
        BY <3>4, <3>5 DEF ThreadMove
    <2>3. CASE turn[t].agent # Main
      <3>1. th' = Goto(t, "route")
        BY <1>6, <2>3 DEF PassOn
      <3>2. /\ th' \in [TurnIds -> Goroutines] /\ \A u \in TurnIds : u # t => th'[u] = th[u]
            /\ th'[t].pc = "route" /\ th'[t].todo = {}
        BY <1>0, <3>1, GotoTypes DEF Labels
      <3> QED
        BY <2>1, <2>3, <3>2 DEF ThreadMove, MovesOn
    <2> QED
      BY <2>2, <2>3
  <1>7. ASSUME NEW t \in TurnIds, RecordResult(t) PROVE Goal
    <2>1. PICK b \in ChildOf(t) : th' = [th EXCEPT ![t].pc = "arm", ![t].b = b]
      BY <1>7 DEF RecordResult
    <2>2. b \in BatchIds /\ Stored(b)
      <3>1. PICK a \in Subs : member[b][a].child = t
        BY <2>1 DEF ChildOf
      <3>2. t # 0
        BY RowsAssumption DEF TurnIds
      <3> QED
        BY <2>1, <3>1, <3>2 DEF ChildOf, Shape, MemberRows
    <2> DEFINE s == [th[t] EXCEPT !.pc = "arm", !.b = b]
    <2>3. th[t].pc = "route" /\ th[t] \in Goroutines
      BY <1>0, <1>7 DEF RecordResult, At
    <2>4. s \in Goroutines /\ s.pc = "arm" /\ s.b = b /\ s.todo = th[t].todo
      <3>1. [th[t] EXCEPT !.pc = "arm"] \in Goroutines
        BY <2>3 DEF Goroutines, Labels
      <3>2. b \in 0..MaxBatches
        BY <2>2, RowsAssumption DEF BatchIds
      <3> QED
        BY <2>3, <3>1, <3>2 DEF Goroutines
    <2>5. th' = [th EXCEPT ![t] = s]
      BY <1>0, <2>1
    <2> HIDE DEF s
    <2>6. \A c \in th[t].todo : Stored(c)
      BY DEF Shape, Tails
    <2> QED
      BY <1>2, <2>2, <2>3, <2>4, <2>5, <2>6 DEF MovesOn
  <1>8. ASSUME NEW t \in TurnIds, RouteResult(t) PROVE Goal
    <2> DEFINE s == [th[t] EXCEPT !.pc = "schedule", !.complete = TRUE]
    <2>1. th[t].pc = "route" /\ th[t] \in Goroutines /\ \A c \in th[t].todo : Stored(c)
      BY <1>0, <1>8 DEF RouteResult, At, Shape, Tails
    <2>2. s \in Goroutines /\ s.pc = "schedule" /\ s.todo = th[t].todo
      <3>1. [th[t] EXCEPT !.pc = "schedule"] \in Goroutines
        BY <2>1 DEF Goroutines, Labels
      <3> QED
        BY <2>1, <3>1 DEF Goroutines
    <2>3. th' = [th EXCEPT ![t] = s]
      BY <1>0, <1>8 DEF RouteResult
    <2> HIDE DEF s
    <2> QED
      BY <1>2, <2>1, <2>2, <2>3 DEF MovesOn
  <1>9. ASSUME NEW t \in TurnIds, th[t].pc \in {"arm", "finalize", "finalize_write"},
               NEW todo \in SUBSET th[t].todo, th' = GoOn(t, todo)
        PROVE  Goal
    <2>1. /\ th' \in [TurnIds -> Goroutines] /\ \A u \in TurnIds : u # t => th'[u] = th[u]
          /\ th'[t].pc \in {"schedule", "finalize"} /\ th'[t].todo = todo
      BY <1>0, <1>9, GoOnTypes
    <2>2. \A c \in todo : Stored(c)
      BY <1>9 DEF Shape, Tails
    <2> QED
      BY <1>9, <2>1, <2>2 DEF ThreadMove, MovesOn
  <1>10. ASSUME NEW t \in TurnIds, Finalize(t) PROVE Goal
    <2>1. PICK b \in th[t].todo :
             th' = IF batch[b].status = "consumed"
                   THEN GoOn(t, th[t].todo \ {b})
                   ELSE [th EXCEPT ![t] = [pc |-> "finalize_write", todo |-> th[t].todo \ {b},
                                           b |-> b, delivered |-> batch[b].delivered,
                                           next |-> NextCursor(b, 0), complete |-> Complete(b)]]
      BY <1>10 DEF Finalize
    <2>2. th[t].pc = "finalize"
      BY <1>10 DEF Finalize, At
    <2>3. CASE batch[b].status = "consumed"
      BY <1>9, <2>1, <2>2, <2>3
    <2>4. CASE batch[b].status # "consumed"
      <3> DEFINE s == [pc |-> "finalize_write", todo |-> th[t].todo \ {b},
                       b |-> b, delivered |-> batch[b].delivered,
                       next |-> NextCursor(b, 0), complete |-> Complete(b)]
      <3>1. b \in BatchIds /\ \A c \in th[t].todo : Stored(c)
        BY <1>0, <2>1 DEF Shape, Tails
      <3>2. NextCursor(b, 0) \in Events /\ batch[b].delivered \in Events
        BY <1>0, <3>1, CursorFacts DEF MemoryTypes, Batches
      <3>3. Complete(b) \in BOOLEAN
        BY DEF Complete
      <3>4. b \in 0..MaxBatches /\ "finalize_write" \in Labels
        BY <3>1, RowsAssumption DEF BatchIds, Labels
      <3>5. s \in Goroutines
        BY <1>0, <3>1, <3>2, <3>3, <3>4 DEF Goroutines
      <3>6. s.pc = "finalize_write" /\ s.b = b /\ s.todo \subseteq th[t].todo
        OBVIOUS
      <3>7. th' = [th EXCEPT ![t] = s]
        BY <2>1, <2>4
      <3> HIDE DEF s
      <3> QED
        BY <1>2, <1>10, <2>1, <2>2, <3>1, <3>5, <3>6, <3>7 DEF MovesOn
    <2> QED
      BY <2>3, <2>4
  <1>11. ASSUME NEW t \in TurnIds, FinalizeWrite(t) PROVE Goal
    <2>1. th[t].pc = "finalize_write" /\ th[t] \in Goroutines
          /\ th[t].b \in BatchIds /\ Stored(th[t].b) /\ \A c \in th[t].todo : Stored(c)
      BY <1>0, <1>11 DEF FinalizeWrite, At, Shape, Tails
    <2>2. CASE th' = GoOn(t, th[t].todo)
      BY <1>9, <2>1, <2>2
    <2>3. CASE th' = [th EXCEPT ![t].pc = "arm"]
      <3> DEFINE s == [th[t] EXCEPT !.pc = "arm"]
      <3>1. s \in Goroutines /\ s.pc = "arm" /\ s.b = th[t].b /\ s.todo = th[t].todo
        BY <2>1 DEF Goroutines, Labels
      <3>2. th' = [th EXCEPT ![t] = s]
        BY <1>0, <2>3
      <3> HIDE DEF s
      <3> QED
        BY <1>2, <2>1, <3>1, <3>2 DEF MovesOn
    <2> QED
      BY <1>11, <2>2, <2>3 DEF FinalizeWrite
  <1>12. ASSUME NEW t \in TurnIds, Arm(t) PROVE Goal
    BY <1>9, <1>12 DEF Arm, At
  <1>13. Idle \in Goroutines /\ Idle.pc = "idle" /\ Idle.todo = {}
    BY RowsAssumption DEF Idle, Goroutines, Labels, Events
  <1>14. ASSUME NEW t \in TurnIds, Settle(t) PROVE Goal
    BY <1>2, <1>13, <1>14 DEF Settle
  <1>15. CASE Crash \/ \E a \in Agents : ResumeFails(a)
    <2>1. th' = [t \in TurnIds |-> Idle]
      BY <1>15 DEF Crash, ResumeFails, ProcessEnds
    <2> QED
      BY <1>13, <2>1 DEF ThreadMove
  <1>16. CASE \E t \in TurnIds : \/ \E a \in Subs : Assign(t, a)
                                 \/ \E b \in BatchIds : WaitCall(t, b)
                                 \/ WakeFires(t) \/ WakeMarks(t)
    BY <1>1, <1>16 DEF Assign, WaitCall, WakeFires, WakeMarks
  <1>17. CASE CreateBatch \/ WaitAnswer \/ OwnerMessage \/ Restart \/ Minor \/ UNCHANGED vars
    BY <1>1, <1>17 DEF CreateBatch, WaitAnswer, OwnerMessage, Restart, Minor, vars, memory
  <1> QED
    BY <1>3, <1>4, <1>5, <1>6, <1>7, <1>8, <1>10, <1>11, <1>12, <1>14, <1>15, <1>16, <1>17,
       StepKinds DEF TailKinds
-----------------------------------------------------------------------------
(* The inbox *)

SameLetter(i) == /\ inbox'[i].kind = inbox[i].kind /\ inbox'[i].batches = inbox[i].batches
                 /\ inbox'[i].cursors = inbox[i].cursors /\ inbox'[i].results = inbox[i].results

\* The wake of parent p: what is unread of its batches, and the cursors behind it.
WakeItem(i, p) ==
  /\ WakeFires(p) /\ round \notin RoundTerminal
  /\ inbox'[i].batches = BatchesForParentTurn(p)
  /\ \A b \in BatchIds : inbox'[i].cursors[b] = IF b \in BatchesForParentTurn(p)
                                               THEN NextCursor(b, batch[b].delivered) ELSE 0
  /\ \A b \in BatchesForParentTurn(p) : Results(b, batch[b].delivered) \subseteq inbox'[i].results

FreshItem(i) ==
  /\ inbox[i].status = "none" /\ inbox'[i].status = "pending"
  /\ \/ /\ inbox'[i].results = {} /\ inbox'[i].kind # "collaboration_fallback"
        /\ \A b \in BatchIds : inbox'[i].cursors[b] = 0
     \/ \E p \in TurnIds : WakeItem(i, p)

ItemMove(i) ==
  \/ inbox'[i] = inbox[i]
  \/ /\ SameLetter(i)
     /\ \/ /\ inbox[i].status \in {"pending", "claimed"} /\ inbox'[i].status = "cancelled"
           /\ inbox'[i].claim = inbox[i].claim /\ round \in RoundTerminal
        \/ /\ inbox[i].status = "pending" /\ inbox'[i].status = "claimed"
           /\ inbox'[i].claim \in TurnIds /\ round \notin RoundTerminal
        \/ /\ inbox[i].status = "claimed" /\ inbox'[i].status = "processed"
           /\ inbox'[i].claim = inbox[i].claim
        \/ /\ inbox[i].status = "claimed" /\ inbox'[i].status = "pending"
           /\ Restart /\ \E t \in TurnIds : /\ turn[t].status \in TurnActive
                                            /\ inbox[i].claim = turn[t].claims
  \/ FreshItem(i)

LEMMA NoItemType ==
  /\ NoItem \in Items /\ NoItem.results = {} /\ \A b \in BatchIds : NoItem.cursors[b] = 0
  BY RowsAssumption DEF NoItem, NoCursors, Items, Agents, Events

LEMMA EnqueueFacts ==
  ASSUME inbox \in [ItemIds -> Items], NEW item \in Items, Enqueue(item)
  PROVE  \E i \in ItemIds :
           /\ inbox[i].status = "none" /\ inbox'[i].status = "pending"
           /\ inbox' \in [ItemIds -> Items]
           /\ \A j \in ItemIds : j # i => inbox'[j] = inbox[j]
           /\ inbox'[i].kind = item.kind /\ inbox'[i].batches = item.batches
           /\ inbox'[i].cursors = item.cursors /\ inbox'[i].results = item.results
  <1>1. PICK i \in ItemIds : /\ First(FreeItems, i)
                             /\ inbox' = [inbox EXCEPT ![i] = [item EXCEPT !.status = "pending"]]
    BY DEF Enqueue
  <1> DEFINE s == [item EXCEPT !.status = "pending"]
  <1>2. s \in Items
    BY DEF Items
  <1>3. /\ s.status = "pending" /\ s.kind = item.kind /\ s.batches = item.batches
        /\ s.cursors = item.cursors /\ s.results = item.results
    BY DEF Items
  <1>4. inbox' = [inbox EXCEPT ![i] = s]
    BY <1>1
  <1>5. inbox[i].status = "none"
    BY <1>1 DEF First, FreeItems
  <1> HIDE DEF s
  <1>6. inbox' \in [ItemIds -> Items] /\ inbox'[i] = s /\ \A j \in ItemIds : j # i => inbox'[j] = inbox[j]
    BY <1>2, <1>4
  <1> QED
    BY <1>3, <1>5, <1>6

\* Rows of the inbox that are not touched but for these fields.
LEMMA Rewritten ==
  ASSUME NEW i \in ItemIds, inbox \in [ItemIds -> Items],
         NEW s \in {"pending", "claimed", "processed", "cancelled"}, NEW n \in 0..MaxTurns
  PROVE  /\ [inbox[i] EXCEPT !.status = s] \in Items
         /\ [inbox[i] EXCEPT !.status = s, !.claim = n] \in Items
  <1>1. inbox[i] \in Items
    OBVIOUS
  <1>2. [inbox[i] EXCEPT !.status = s] \in Items
    BY <1>1 DEF Items
  <1> QED
    BY <1>1, <1>2 DEF Items

LEMMA NoTurnNumber == 0 \in 0..MaxTurns
  BY RowsAssumption

LEMMA Moved ==
  ASSUME NEW i \in ItemIds, inbox \in [ItemIds -> Items],
         NEW s \in {"pending", "claimed", "processed", "cancelled"},
         \/ inbox'[i] = [inbox[i] EXCEPT !.status = s]
         \/ \E n \in 0..MaxTurns : inbox'[i] = [inbox[i] EXCEPT !.status = s, !.claim = n]
  PROVE  SameLetter(i) /\ inbox'[i].status = s /\ inbox'[i] \in Items
  <1>0. 0 \in 0..MaxTurns
    BY NoTurnNumber
  <1>1. inbox[i] \in Items
    OBVIOUS
  <1>2. CASE inbox'[i] = [inbox[i] EXCEPT !.status = s]
    <2>1. [inbox[i] EXCEPT !.status = s] \in Items
      BY <1>0, Rewritten
    <2>2. SameLetter(i) /\ inbox'[i].status = s
      BY <1>1, <1>2 DEF SameLetter, Items
    <2> QED
      BY <1>2, <2>1, <2>2
  <1>3. ASSUME NEW n \in 0..MaxTurns, inbox'[i] = [inbox[i] EXCEPT !.status = s, !.claim = n]
        PROVE  SameLetter(i) /\ inbox'[i].status = s /\ inbox'[i] \in Items
    <2>1. [inbox[i] EXCEPT !.status = s, !.claim = n] \in Items
      BY Rewritten
    <2>2. SameLetter(i) /\ inbox'[i].status = s
      BY <1>1, <1>3 DEF SameLetter, Items
    <2> QED
      BY <1>3, <2>1, <2>2
  <1> QED
    BY <1>2, <1>3

Letter(k, p, bs, cs, r) == [NoItem EXCEPT !.kind = k, !.from = p, !.batches = bs, !.cursors = cs,
                                          !.results = r]

LEMMA LetterType ==
  ASSUME NEW k \in {"owner_message", "assignment", "agent_result", "collaboration_fallback"},
         NEW p \in 0..MaxTurns, NEW bs \in SUBSET BatchIds, NEW cs \in [BatchIds -> Events],
         NEW r \in SUBSET Events
  PROVE  /\ Letter(k, p, bs, cs, r) \in Items /\ Letter(k, p, bs, cs, r).kind = k
         /\ Letter(k, p, bs, cs, r).batches = bs /\ Letter(k, p, bs, cs, r).cursors = cs
         /\ Letter(k, p, bs, cs, r).results = r
  <1>1. [NoItem EXCEPT !.kind = k] \in Items
    BY NoItemType DEF Items
  <1>2. [NoItem EXCEPT !.kind = k, !.from = p] \in Items
    BY <1>1 DEF Items
  <1>3. [NoItem EXCEPT !.kind = k, !.from = p, !.batches = bs] \in Items
    BY <1>2 DEF Items
  <1>4. [NoItem EXCEPT !.kind = k, !.from = p, !.batches = bs, !.cursors = cs] \in Items
    BY <1>3 DEF Items
  <1>5. [NoItem EXCEPT !.kind = k, !.from = p, !.batches = bs, !.cursors = cs, !.results = r] \in Items
    BY <1>4 DEF Items
  <1> QED
    BY <1>5, NoItemType DEF Items, Letter

\* A row that holds the wake of p already.
KnownWake(i, p) ==
  /\ inbox[i].kind = "collaboration_fallback" /\ inbox[i].batches = BatchesForParentTurn(p)
  /\ \A b \in BatchIds : inbox[i].cursors[b] = IF b \in BatchesForParentTurn(p)
                                               THEN NextCursor(b, batch[b].delivered) ELSE 0

LEMMA WakeItems ==
  ASSUME Shape, NEW p \in TurnIds, WakeFires(p)
  PROVE  \/ inbox' = inbox /\ wake' = wake
         \/ /\ inbox' = inbox
            /\ \E i \in ItemIds : KnownWake(i, p)
         \/ /\ inbox' \in [ItemIds -> Items]
            /\ \E i \in ItemIds : /\ inbox[i].status = "none" /\ inbox'[i].status = "pending"
                                  /\ WakeItem(i, p)
                                  /\ \A j \in ItemIds : j # i => inbox'[j] = inbox[j]
  <1> DEFINE bs      == BatchesForParentTurn(p)
             unread  == [b \in BatchIds |-> IF b \in bs THEN Results(b, batch[b].delivered) ELSE {}]
             cursors == [b \in BatchIds |-> IF b \in bs THEN NextCursor(b, batch[b].delivered) ELSE 0]
             r       == UNION {unread[b] : b \in bs}
             item    == Letter("collaboration_fallback", p, bs, cursors, r)
  <1>1. \/ inbox' = inbox /\ wake' = wake
        \/ inbox' = inbox /\ \E i \in ItemIds : /\ inbox[i].kind = "collaboration_fallback"
                                                /\ inbox[i].batches = bs /\ inbox[i].cursors = cursors
        \/ Enqueue(item) /\ round \notin RoundTerminal
    BY DEF WakeFires, Letter
  <1>2. /\ bs \in SUBSET BatchIds /\ inbox \in [ItemIds -> Items]
        /\ batch \in [BatchIds -> Batches] /\ p \in 0..MaxTurns
        /\ events \in Seq(Result) /\ Len(events) \in 0..MaxTurns
        /\ \A b \in BatchIds : batch[b].delivered \in 0..Len(events)
    BY RowsAssumption, EventDomain
       DEF Shape, TypeOK, MemoryTypes, CursorsInRange, Batches, Events, BatchesForParentTurn,
           OpenBatches, TurnIds
  <1>3. cursors \in [BatchIds -> Events]
    <2>1. ASSUME NEW b \in BatchIds PROVE NextCursor(b, batch[b].delivered) \in Events /\ 0 \in Events
      BY <1>2, CursorFacts, RowsAssumption DEF Events
    <2> HIDE DEF bs
    <2> QED
      BY <2>1
  <1>4. r \in SUBSET Events
    <2>1. \A b \in BatchIds : Results(b, batch[b].delivered) \in SUBSET Events
      BY <1>2, EventDomain, RowsAssumption DEF Results, Events
    <2> HIDE DEF bs
    <2> QED
      BY <1>2, <2>1
  <1>5. \A b \in bs : Results(b, batch[b].delivered) \subseteq r
    <2> HIDE DEF bs
    <2> QED
      BY <1>2
  <1>6. /\ item \in Items /\ item.kind = "collaboration_fallback" /\ item.batches = bs
        /\ item.cursors = cursors /\ item.results = r
    <2>1. /\ r \in SUBSET Events /\ cursors \in [BatchIds -> Events] /\ bs \in SUBSET BatchIds
          /\ p \in 0..MaxTurns
      BY <1>2, <1>3, <1>4
    <2> HIDE DEF r, cursors, bs
    <2> QED
      BY <2>1, LetterType
  <1> HIDE DEF item
  <1>7. CASE Enqueue(item) /\ round \notin RoundTerminal
    <2>1. PICK i \in ItemIds :
           /\ inbox[i].status = "none" /\ inbox'[i].status = "pending"
           /\ inbox' \in [ItemIds -> Items]
           /\ \A j \in ItemIds : j # i => inbox'[j] = inbox[j]
           /\ inbox'[i].batches = item.batches
           /\ inbox'[i].cursors = item.cursors /\ inbox'[i].results = item.results
      BY <1>2, <1>6, <1>7, EnqueueFacts
    <2>2. WakeItem(i, p)
      BY <1>5, <1>6, <1>7, <2>1 DEF WakeItem
    <2> QED
      BY <2>1, <2>2
  <1>8. ASSUME NEW i \in ItemIds, inbox[i].kind = "collaboration_fallback",
               inbox[i].batches = bs, inbox[i].cursors = cursors
        PROVE  KnownWake(i, p)
    BY <1>8 DEF KnownWake
  <1> QED
    BY <1>1, <1>7, <1>8
-----------------------------------------------------------------------------
Assignment(a, t, bs) == [NoItem EXCEPT !.to = a, !.kind = "assignment", !.from = t, !.batches = bs]

LEMMA AssignmentType ==
  ASSUME NEW a \in Agents, NEW t \in 0..MaxTurns, NEW bs \in SUBSET BatchIds
  PROVE  /\ Assignment(a, t, bs) \in Items /\ Assignment(a, t, bs).kind = "assignment"
         /\ Assignment(a, t, bs).results = {}
         /\ \A b \in BatchIds : Assignment(a, t, bs).cursors[b] = 0
  <1>1. [NoItem EXCEPT !.to = a] \in Items
    BY NoItemType DEF Items
  <1>2. [NoItem EXCEPT !.to = a, !.kind = "assignment"] \in Items
    BY <1>1 DEF Items
  <1>3. [NoItem EXCEPT !.to = a, !.kind = "assignment", !.from = t] \in Items
    BY <1>2 DEF Items
  <1>4. [NoItem EXCEPT !.to = a, !.kind = "assignment", !.from = t, !.batches = bs] \in Items
    BY <1>3 DEF Items
  <1> QED
    BY <1>4, NoItemType DEF Items, Assignment

LEMMA ItemStep ==
  ASSUME Shape, [Next]_vars
  PROVE  /\ inbox' \in [ItemIds -> Items]
         /\ \A i \in ItemIds : ItemMove(i)
  <1> DEFINE Goal == inbox' \in [ItemIds -> Items] /\ \A i \in ItemIds : ItemMove(i)
  <1>0. /\ inbox \in [ItemIds -> Items] /\ turn \in [TurnIds -> Turns]
        /\ MaxTurns \in Nat \ {0} /\ TurnIds = 1..MaxTurns
    BY RowsAssumption DEF Shape, TypeOK, TurnIds
  <1>1. CASE inbox' = inbox
    BY <1>0, <1>1 DEF ItemMove
  <1>2. ASSUME NEW f \in [ItemIds -> Items], inbox' = f, \A i \in ItemIds : ItemMove(i) PROVE Goal
    BY <1>2
  <1>3. ASSUME NEW k \in {"owner_message", "assignment", "agent_result"}, NEW item \in Items,
               item.kind = k, item.results = {}, \A b \in BatchIds : item.cursors[b] = 0,
               Enqueue(item)
        PROVE  Goal
    <2>1. PICK i \in ItemIds :
           /\ inbox[i].status = "none" /\ inbox'[i].status = "pending"
           /\ inbox' \in [ItemIds -> Items]
           /\ \A j \in ItemIds : j # i => inbox'[j] = inbox[j]
           /\ inbox'[i].kind = item.kind /\ inbox'[i].cursors = item.cursors
           /\ inbox'[i].results = item.results
      BY <1>0, <1>3, EnqueueFacts
    <2>2. FreshItem(i)
      BY <1>3, <2>1 DEF FreshItem
    <2> QED
      BY <2>1, <2>2 DEF ItemMove
  <1>4. ASSUME NEW g \in Carried, ScheduleStep(g) PROVE Goal
    <2>1. CASE inbox' = Cancelled /\ round \in RoundTerminal
      <3>1. \A i \in ItemIds : inbox[i].status \in {"pending", "claimed"} =>
              SameLetter(i) /\ inbox'[i].status = "cancelled" /\ inbox'[i] \in Items
        BY <1>0, <2>1, Moved DEF Cancelled
      <3>2. \A i \in ItemIds : inbox[i].status \in {"pending", "claimed"} =>
              inbox'[i].claim = inbox[i].claim
        BY <1>0, <2>1 DEF Cancelled, Items
      <3>3. \A i \in ItemIds : inbox[i].status \notin {"pending", "claimed"} => inbox'[i] = inbox[i]
        BY <2>1 DEF Cancelled
      <3>4. Cancelled \in [ItemIds -> Items]
        BY <1>0, <2>1, <3>1, <3>3 DEF Cancelled
      <3> QED
        BY <2>1, <3>1, <3>2, <3>3, <3>4 DEF ItemMove
    <2>2. ASSUME NEW a \in Agents, NEW n \in TurnIds, Started(a, n, g) PROVE Goal
      <3> DEFINE items == PendingAgentInbox(a)
      <3>1. inbox' = [i \in ItemIds |-> IF i \in items
                                       THEN [inbox[i] EXCEPT !.status = "claimed", !.claim = n]
                                       ELSE inbox[i]]
            /\ round \notin RoundTerminal
        BY <2>2 DEF Started, Claim
      <3>2. \A i \in items : inbox[i].status = "pending"
        BY DEF PendingAgentInbox, PendingInbox
      <3> HIDE DEF items
      <3>3. n \in 0..MaxTurns
        BY <1>0
      <3>4. \A i \in ItemIds : i \in items =>
              SameLetter(i) /\ inbox'[i].status = "claimed" /\ inbox'[i] \in Items
        BY <1>0, <3>1, <3>3, Moved
      <3>5. \A i \in ItemIds : i \in items => inbox'[i].claim = n
        BY <1>0, <3>1 DEF Items
      <3>6. \A i \in ItemIds : i \notin items => inbox'[i] = inbox[i]
        BY <3>1
      <3>7. inbox' \in [ItemIds -> Items]
        BY <1>0, <3>1, <3>4, <3>6
      <3> QED
        BY <2>2, <3>1, <3>2, <3>4, <3>5, <3>6, <3>7 DEF ItemMove
    <2> QED
      BY <1>1, <1>4, <2>1, <2>2 DEF ScheduleStep
  <1>5. ASSUME NEW t \in TurnIds, inbox' = Processed(t) PROVE Goal
    <2>1. \A i \in ItemIds : inbox[i].claim = turn[t].claims /\ inbox[i].status = "claimed" =>
            SameLetter(i) /\ inbox'[i].status = "processed" /\ inbox'[i] \in Items
      BY <1>0, <1>5, Moved DEF Processed
    <2>2. \A i \in ItemIds : inbox[i].claim = turn[t].claims /\ inbox[i].status = "claimed" =>
            inbox'[i].claim = inbox[i].claim
      BY <1>0, <1>5 DEF Processed, Items
    <2>3. \A i \in ItemIds : ~ (inbox[i].claim = turn[t].claims /\ inbox[i].status = "claimed") =>
            inbox'[i] = inbox[i]
      BY <1>5 DEF Processed
    <2>4. inbox' \in [ItemIds -> Items]
      BY <1>0, <1>5, <2>1, <2>3 DEF Processed
    <2> QED
      BY <2>1, <2>2, <2>3, <2>4 DEF ItemMove
  <1>6. ASSUME NEW t \in TurnIds, NEW a \in Subs, Assign(t, a) PROVE Goal
    <2> DEFINE item == Assignment(a, t, {call'.batch})
    <2>1. call'.batch \in BatchIds
      <3>1. CASE call.turn = t
        <4>1. call.batch \in BatchIds
          BY <1>0, <3>1 DEF Shape, BatchRows
        <4>2. call' = [call EXCEPT !.agents = @ \cup {a}] \/ \E b \in BatchIds :
                call' = [turn |-> t, batch |-> b, agents |-> {a}]
          BY <1>6, <3>1 DEF Assign
        <4>3. call \in Calls
          BY DEF Shape, MemoryTypes
        <4> QED
          BY <4>1, <4>2, <4>3 DEF Calls
      <3>2. CASE call.turn # t
        BY <1>6, <3>2 DEF Assign
      <3> QED
        BY <3>1, <3>2
    <2>2. Enqueue(item)
      BY <1>6 DEF Assign, Assignment
    <2>3. item \in Items /\ item.kind = "assignment" /\ item.results = {}
          /\ \A b \in BatchIds : item.cursors[b] = 0
      <3>1. a \in Agents /\ t \in 0..MaxTurns /\ {call'.batch} \in SUBSET BatchIds
        BY <1>0, <2>1 DEF Agents
      <3> QED
        BY <3>1, AssignmentType
    <2> HIDE DEF item
    <2> QED
      BY <1>3, <2>2, <2>3
  <1>7. ASSUME NEW t \in TurnIds, RouteResult(t) PROVE Goal
    <2> DEFINE item == [NoItem EXCEPT !.kind = "agent_result", !.from = t]
    <2>1. Enqueue(item)
      BY <1>7 DEF RouteResult
    <2>2. item \in Items /\ item.kind = "agent_result" /\ item.results = {}
          /\ \A b \in BatchIds : item.cursors[b] = 0
      <3>1. [NoItem EXCEPT !.kind = "agent_result"] \in Items
        BY NoItemType DEF Items
      <3>2. t \in 0..MaxTurns
        BY <1>0
      <3> QED
        BY <3>1, <3>2, NoItemType DEF Items
    <2> HIDE DEF item
    <2> QED
      BY <1>3, <2>1, <2>2
  <1>8. CASE OwnerMessage
    <2>1. Enqueue(NoItem) /\ NoItem.kind = "owner_message"
      BY <1>8 DEF OwnerMessage, NoItem
    <2> QED
      BY <1>3, <2>1, NoItemType
  <1>9. ASSUME NEW p \in TurnIds, WakeFires(p) PROVE Goal
    <2>1. CASE inbox' # inbox
      <3>1. /\ inbox' \in [ItemIds -> Items]
            /\ \E i \in ItemIds : /\ inbox[i].status = "none" /\ inbox'[i].status = "pending"
                                  /\ WakeItem(i, p)
                                  /\ \A j \in ItemIds : j # i => inbox'[j] = inbox[j]
        BY <1>9, <2>1, WakeItems
      <3> QED
        BY <3>1 DEF ItemMove, FreshItem
    <2> QED
      BY <1>1, <2>1
  <1>10. CASE Restart
    <2> DEFINE lost == {t \in TurnIds : turn[t].status \in TurnActive}
               Lost(i) == inbox[i].status = "claimed" /\ \E t \in lost : inbox[i].claim = turn[t].claims
    <2>1. inbox' = [i \in ItemIds |-> IF Lost(i) THEN [inbox[i] EXCEPT !.status = "pending", !.claim = 0]
                                      ELSE inbox[i]]
      BY <1>10 DEF Restart
    <2>2. \A i \in ItemIds : Lost(i) => /\ inbox[i].status = "claimed"
                                        /\ \E t \in TurnIds : /\ turn[t].status \in TurnActive
                                                              /\ inbox[i].claim = turn[t].claims
      OBVIOUS
    <2> HIDE DEF Lost
    <2>3. \A i \in ItemIds : Lost(i) =>
            SameLetter(i) /\ inbox'[i].status = "pending" /\ inbox'[i] \in Items
      BY <1>0, <2>1, Moved, NoTurnNumber
    <2>4. \A i \in ItemIds : ~ Lost(i) => inbox'[i] = inbox[i]
      BY <2>1
    <2>5. inbox' \in [ItemIds -> Items]
      BY <1>0, <2>1, <2>3, <2>4
    <2> QED
      BY <1>10, <2>2, <2>3, <2>4, <2>5 DEF ItemMove
  <1>11. ASSUME NEW t \in TurnIds, TailKinds(t) PROVE Goal
    <2>1. CASE RecordResult(t) \/ Arm(t) \/ Finalize(t) \/ FinalizeWrite(t) \/ Settle(t)
      BY <1>1, <2>1 DEF RecordResult, Arm, Finalize, FinalizeWrite, Settle, tables
    <2> QED
      BY <1>5, <1>7, <1>11, <2>1 DEF TailKinds, Retry, PassOn
  <1>12. CASE \E t \in TurnIds : \/ \E b \in BatchIds : WaitCall(t, b)
                                 \/ EndTurn(t) \/ WakeMarks(t)
    BY <1>1, <1>12 DEF WaitCall, EndTurn, WakeMarks, tables
  <1>13. CASE CreateBatch \/ WaitAnswer
    BY <1>1, <1>13 DEF CreateBatch, WaitAnswer
  <1>14. CASE Crash \/ (\E a \in Agents : ResumeFails(a)) \/ Minor \/ UNCHANGED vars
    BY <1>1, <1>14 DEF Crash, ResumeFails, Minor, vars, tables
  <1> QED
    BY <1>4, <1>6, <1>8, <1>9, <1>10, <1>11, <1>12, <1>13, <1>14, StepKinds
-----------------------------------------------------------------------------
(* Members and events *)

MemberMove(b, a) ==
  \/ member'[b][a] = member[b][a]
  \/ /\ member[b][a].status = "queued" /\ member[b][a].child = 0
     /\ member'[b][a].status = "running"
     /\ \E n \in TurnIds : member'[b][a].child = n /\ ~ There(n) /\ There(n)' /\ turn'[n].agent = a
  \/ CreateBatch /\ b = call.batch /\ member'[b][a].child = 0
  \/ /\ RecordResult(member[b][a].child) /\ member[b][a].child \in TurnIds
     /\ member'[b][a].child = member[b][a].child
     /\ member'[b][a].status = turn[member[b][a].child].status

LEMMA MemberStep ==
  ASSUME Shape, [Next]_vars
  PROVE  /\ member' \in [BatchIds -> [Subs -> Members]]
         /\ \A b \in BatchIds, a \in Subs : MemberMove(b, a)
  <1> DEFINE Goal == /\ member' \in [BatchIds -> [Subs -> Members]]
                     /\ \A b \in BatchIds, a \in Subs : MemberMove(b, a)
  <1>0. /\ member \in [BatchIds -> [Subs -> Members]] /\ turn \in [TurnIds -> Turns]
        /\ call \in Calls /\ MaxTurns \in Nat \ {0} /\ TurnIds = 1..MaxTurns
    BY RowsAssumption DEF Shape, TypeOK, MemoryTypes, TurnIds
  <1>1. CASE member' = member
    BY <1>0, <1>1 DEF MemberMove
  <1>2. ASSUME NEW g \in Carried, ScheduleStep(g) PROVE Goal
    <2>1. ASSUME NEW a \in Agents, NEW n \in TurnIds, Started(a, n, g) PROVE Goal
      <3> DEFINE items == PendingAgentInbox(a)
                 Links(b) == \E i \in items : inbox[i].kind = "assignment" /\ b \in inbox[i].batches
                 m == [status |-> "running", child |-> n]
      <3>1. member' = [b \in BatchIds |-> IF Links(b) THEN [member[b] EXCEPT ![a] = m] ELSE member[b]]
        BY <2>1 DEF Started, Claim
      <3>2. \A b \in BatchIds : Links(b) => member[b][a] = [status |-> "queued", child |-> 0]
        BY <2>1 DEF Started, Linkable
      <3>3. ~ There(n) /\ There(n)' /\ turn'[n].agent = a
        <4>1. turn'[n] = [agent |-> a, status |-> "running", attempt |-> 1,
                          generation |-> NextGeneration(a), claims |-> n]
          BY <1>0, <2>1 DEF Started, Claim
        <4> QED
          BY <2>1, <4>1 DEF Started, First, FreeTurns, There
      <3>4. m \in Members
        BY <1>0 DEF Members
      <3> HIDE DEF Links
      <3>5. \A b \in BatchIds : [member[b] EXCEPT ![a] = m] \in [Subs -> Members]
        BY <1>0, <3>4
      <3>6. member' \in [BatchIds -> [Subs -> Members]]
        BY <1>0, <3>1, <3>5
      <3>7. ASSUME NEW b \in BatchIds, NEW s \in Subs PROVE MemberMove(b, s)
        <4>1. CASE Links(b) /\ s = a
          <5>1. member'[b][s] = m
            BY <1>0, <3>1, <4>1
          <5>2. member[b][s] = [status |-> "queued", child |-> 0]
            BY <3>2, <4>1
          <5> QED
            BY <3>3, <4>1, <5>1, <5>2 DEF MemberMove
        <4>2. CASE ~ (Links(b) /\ s = a)
          <5>1. member'[b][s] = member[b][s]
            BY <1>0, <3>1, <4>2
          <5> QED
            BY <5>1 DEF MemberMove
        <4> QED
          BY <4>1, <4>2
      <3> QED
        BY <3>6, <3>7
    <2> QED
      BY <1>1, <1>2, <2>1 DEF ScheduleStep
  <1>3. CASE CreateBatch
    <2>1. call.batch \in BatchIds /\ call.agents \in SUBSET Subs
      BY <1>0, <1>3 DEF CreateBatch, Shape, BatchRows, Calls
    <2>2. /\ QueuedMembers(call.agents) \in [Subs -> Members]
          /\ \A a \in Subs : QueuedMembers(call.agents)[a].child = 0
      BY <1>0, <2>1 DEF QueuedMembers, NoMember, Members
    <2>3. member' = [member EXCEPT ![call.batch] = QueuedMembers(call.agents)]
      BY <1>3 DEF CreateBatch
    <2> QED
      BY <1>0, <1>3, <2>1, <2>2, <2>3 DEF MemberMove
  <1>4. ASSUME NEW t \in TurnIds, RecordResult(t) PROVE Goal
    <2>1. PICK b \in BatchIds, a \in Subs :
            /\ member[b][a].child = t
            /\ member' = [member EXCEPT ![b][turn[t].agent].status = turn[t].status]
      BY <1>4 DEF RecordResult, ChildOf
    <2>2. turn[t].agent = a
      BY <1>0, <2>1 DEF Shape, MemberRows
    <2>3. turn[t].status \in TurnTerminal
      BY <1>4 DEF RecordResult, At, Shape, Tails, Ended
    <2> DEFINE m == [member[b][a] EXCEPT !.status = turn[t].status]
    <2>4. m \in Members /\ m.child = t /\ m.status = turn[t].status
      <3>1. member[b][a] \in Members
        BY <1>0
      <3> QED
        BY <2>1, <2>3, <3>1 DEF Members
    <2>5. member' = [member EXCEPT ![b] = [member[b] EXCEPT ![a] = m]]
      BY <2>1, <2>2
    <2> HIDE DEF m
    <2>6. [member[b] EXCEPT ![a] = m] \in [Subs -> Members]
      BY <1>0, <2>4
    <2>7. member' \in [BatchIds -> [Subs -> Members]]
      BY <1>0, <2>5, <2>6
    <2>8. /\ member'[b][a] = m
          /\ \A c \in BatchIds, s \in Subs : (c # b \/ s # a) => member'[c][s] = member[c][s]
      BY <1>0, <2>5
    <2>9. MemberMove(b, a)
      BY <1>4, <2>1, <2>4, <2>8 DEF MemberMove
    <2> QED
      BY <2>7, <2>8, <2>9 DEF MemberMove
  <1>5. ASSUME NEW t \in TurnIds, TailKinds(t) PROVE Goal
    <2>1. CASE \/ Retry(t) \/ PassOn(t) \/ RouteResult(t) \/ Arm(t)
               \/ Finalize(t) \/ FinalizeWrite(t) \/ Settle(t)
      BY <1>1, <2>1 DEF Retry, PassOn, RouteResult, Arm, Finalize, FinalizeWrite, Settle, tables
    <2> QED
      BY <1>4, <1>5, <2>1 DEF TailKinds
  <1>6. CASE \E t \in TurnIds : \/ \E a \in Subs : Assign(t, a)
                                \/ \E b \in BatchIds : WaitCall(t, b)
                                \/ EndTurn(t) \/ WakeFires(t) \/ WakeMarks(t)
    BY <1>1, <1>6 DEF Assign, WaitCall, EndTurn, WakeFires, WakeMarks, tables
  <1>7. CASE WaitAnswer \/ OwnerMessage \/ Restart
    BY <1>1, <1>7 DEF WaitAnswer, OwnerMessage, Restart
  <1>8. CASE Crash \/ (\E a \in Agents : ResumeFails(a)) \/ Minor \/ UNCHANGED vars
    BY <1>1, <1>8 DEF Crash, ResumeFails, Minor, vars, tables
  <1> QED
    BY <1>2, <1>3, <1>5, <1>6, <1>7, <1>8, StepKinds

\* A report of turn t is the last event.
Reports(t) == /\ RecordResult(t) /\ th'[t].pc = "arm"
              /\ Len(events') = Len(events) + 1
              /\ \A k \in 1..Len(events) : events'[k] = events[k]
              /\ \E b \in ChildOf(t) : events'[Len(events')] = [batch |-> b, child |-> t]

LEMMA EventStep ==
  ASSUME Shape, [Next]_vars
  PROVE  /\ events' \in Seq(Result)
         /\ events' = events \/ \E t \in TurnIds : Reports(t)
  <1> DEFINE Goal == events' \in Seq(Result) /\ (events' = events \/ \E t \in TurnIds : Reports(t))
  <1>0. events \in Seq(Result) /\ th \in [TurnIds -> Goroutines]
    BY DEF Shape, MemoryTypes
  <1>1. CASE events' = events
    BY <1>0, <1>1
  <1>2. ASSUME NEW t \in TurnIds, RecordResult(t) PROVE Goal
    <2>1. PICK b \in ChildOf(t) : /\ events' = Append(events, [batch |-> b, child |-> t])
                                  /\ th' = [th EXCEPT ![t].pc = "arm", ![t].b = b]
      BY <1>2 DEF RecordResult
    <2>2. b \in BatchIds
      BY <2>1 DEF ChildOf
    <2> DEFINE e == [batch |-> b, child |-> t]
    <2>3. e \in Result
      BY <2>2 DEF Result
    <2>4. events' = Append(events, e)
      BY <2>1
    <2> HIDE DEF e
    <2>5. /\ events' \in Seq(Result) /\ Len(events') = Len(events) + 1
          /\ \A k \in 1..Len(events) : events'[k] = events[k]
          /\ events'[Len(events')] = e
      BY <1>0, <2>3, <2>4, AppendProperties
    <2>6. th'[t].pc = "arm"
      <3>1. th[t] \in Goroutines
        BY <1>0
      <3> QED
        BY <1>0, <2>1, <3>1 DEF Goroutines
    <2>7. Reports(t)
      BY <1>2, <2>1, <2>5, <2>6 DEF Reports, e
    <2> QED
      BY <2>5, <2>7
  <1>3. ASSUME NEW t \in TurnIds, TailKinds(t) PROVE Goal
    <2>1. CASE \/ Retry(t) \/ PassOn(t) \/ RouteResult(t) \/ Arm(t)
               \/ Finalize(t) \/ FinalizeWrite(t) \/ Settle(t)
      BY <1>1, <2>1 DEF Retry, PassOn, RouteResult, Arm, Finalize, FinalizeWrite, Settle, tables
    <2> QED
      BY <1>2, <1>3, <2>1 DEF TailKinds
  <1>4. CASE \E g \in Carried : ScheduleStep(g)
    BY <1>1, <1>4 DEF ScheduleStep
  <1>5. CASE \E t \in TurnIds : \/ \E a \in Subs : Assign(t, a)
                                \/ \E b \in BatchIds : WaitCall(t, b)
                                \/ EndTurn(t) \/ WakeFires(t) \/ WakeMarks(t)
    BY <1>1, <1>5 DEF Assign, WaitCall, EndTurn, WakeFires, WakeMarks, tables, TimerRest
  <1>6. CASE CreateBatch \/ WaitAnswer \/ OwnerMessage \/ Restart
    BY <1>1, <1>6 DEF CreateBatch, WaitAnswer, OwnerMessage, Restart
  <1>7. CASE Crash \/ (\E a \in Agents : ResumeFails(a)) \/ Minor \/ UNCHANGED vars
    BY <1>1, <1>7 DEF Crash, ResumeFails, Minor, vars, tables
  <1> QED
    BY <1>3, <1>4, <1>5, <1>6, <1>7, StepKinds
-----------------------------------------------------------------------------
(* The process *)

LEMMA TailKeeps ==
  ASSUME Shape, NEW t \in TurnIds, TailKinds(t)
  PROVE  Up /\ UNCHANGED <<call, wait, wake, process, answered, due, merge>>
  <1>1. th[t].pc # "idle"
    BY DEF TailKinds, Retry, PassOn, RecordResult, RouteResult, Arm, Finalize, FinalizeWrite, Settle, At
  <1>2. Up
    BY <1>1 DEF Shape, Tails
  <1>3. UNCHANGED TailRest /\ UNCHANGED <<due, merge>>
    BY DEF TailKinds, Retry, PassOn, RecordResult, RouteResult, Arm, Finalize, FinalizeWrite, Settle
  <1> QED
    BY <1>2, <1>3 DEF TailRest

\* The process died.
Ends == ProcessEnds /\ UNCHANGED <<tables, answered>> /\ ~ Up' /\ boot' \in {"off", "failed"}

LEMMA LifeStep ==
  ASSUME Shape, [Next]_vars
  PROVE  \/ Up /\ Up' /\ boot' \in {"agents", "up"}
         \/ Restart /\ ~ Up /\ Up' /\ boot' = "agents"
         \/ Ends
         \/ UNCHANGED vars
  <1> DEFINE Lives == Up /\ Up' /\ boot' \in {"agents", "up"}
  <1>1. CASE \E g \in Carried : ScheduleStep(g)
    BY <1>1 DEF ScheduleStep, Up
  <1>2. ASSUME NEW t \in TurnIds, TailKinds(t) PROVE Lives
    BY <1>2, TailKeeps DEF process, Up
  <1>3. CASE \E t \in TurnIds : \/ \E a \in Subs : Assign(t, a)
                                \/ \E b \in BatchIds : WaitCall(t, b)
                                \/ EndTurn(t)
    BY <1>3 DEF Assign, WaitCall, EndTurn, Serving, Up, process
  <1>4. ASSUME NEW p \in TurnIds, WakeFires(p) \/ WakeMarks(p) PROVE Lives
    <2>1. Up
      BY <1>4 DEF WakeFires, WakeMarks, Shape, Stopped
    <2> QED
      BY <1>4, <2>1 DEF WakeFires, WakeMarks, TimerRest, process, Up
  <1>5. CASE CreateBatch \/ WaitAnswer \/ OwnerMessage
    <2>1. Up
      BY <1>5 DEF CreateBatch, WaitAnswer, OwnerMessage, Shape, Stopped, Serving, Up, NoCall
    <2> QED
      BY <1>5, <2>1 DEF CreateBatch, WaitAnswer, OwnerMessage, process, Up
  <1>6. CASE Restart
    BY <1>6 DEF Restart, Up
  <1>7. CASE Crash \/ \E a \in Agents : ResumeFails(a)
    BY <1>7 DEF Crash, ResumeFails, Ends, Up
  <1>8. CASE Minor
    BY <1>8 DEF Minor, Up
  <1> QED
    BY <1>1, <1>2, <1>3, <1>4, <1>5, <1>6, <1>7, <1>8, StepKinds

LEMMA RoundStep ==
  ASSUME Shape, [Next]_vars
  PROVE  \/ round' = round
         \/ Restart /\ round = "running" /\ round' = "interrupted" /\ {i \in ItemIds : inbox'[i].status = "pending"} = {}
         \/ /\ \E t \in TurnIds : Settle(t)
            /\ round = "running" /\ round' \in RoundTerminal /\ AllQuiet /\ OpenBatches = {}
  <1>1. ASSUME NEW t \in TurnIds, Settle(t), round' # round
        PROVE  round = "running" /\ round' \in RoundTerminal /\ AllQuiet /\ OpenBatches = {}
    <2>1. Verdict \in RoundTerminal
      BY DEF Verdict, RoundTerminal
    <2> QED
      BY <1>1, <2>1 DEF Settle
  <1>2. CASE Restart
    BY <1>2 DEF Restart
  <1>3. ASSUME NEW t \in TurnIds, TailKinds(t), ~ Settle(t) PROVE round' = round
    BY <1>3 DEF TailKinds, Retry, PassOn, RecordResult, RouteResult, Arm, Finalize, FinalizeWrite, tables
  <1>4. CASE \E g \in Carried : ScheduleStep(g)
    BY <1>4 DEF ScheduleStep
  <1>5. CASE \E t \in TurnIds : \/ \E a \in Subs : Assign(t, a)
                                \/ \E b \in BatchIds : WaitCall(t, b)
                                \/ EndTurn(t) \/ WakeFires(t) \/ WakeMarks(t)
    BY <1>5 DEF Assign, WaitCall, EndTurn, WakeFires, WakeMarks, TimerRest, tables
  <1>6. CASE CreateBatch \/ WaitAnswer \/ OwnerMessage
    BY <1>6 DEF CreateBatch, WaitAnswer, OwnerMessage
  <1>7. CASE Crash \/ (\E a \in Agents : ResumeFails(a)) \/ Minor \/ UNCHANGED vars
    BY <1>7 DEF Crash, ResumeFails, Minor, vars, tables
  <1> QED
    BY <1>1, <1>2, <1>3, <1>4, <1>5, <1>6, <1>7, StepKinds

LEMMA CallStep ==
  ASSUME Shape, [Next]_vars
  PROVE  /\ call' \in Calls
         /\ call'.turn # 0 => call'.batch \in BatchIds /\ ~ Stored(call.batch)'
  <1> DEFINE Goal == /\ call' \in Calls
                     /\ call'.turn # 0 => call'.batch \in BatchIds /\ batch[call'.batch].status = "none"
  <1>0. /\ call \in Calls /\ NoCall \in Calls /\ NoCall.turn = 0
        /\ MaxTurns \in Nat \ {0} /\ TurnIds = 1..MaxTurns
        /\ MaxBatches \in Nat \ {0} /\ BatchIds = 1..MaxBatches
    BY RowsAssumption DEF Shape, MemoryTypes, Calls, NoCall, TurnIds, BatchIds
  <1>1. ASSUME call' \in {call, NoCall} PROVE Goal
    BY <1>0, <1>1 DEF Shape, BatchRows, Stored
  <1>2. ASSUME NEW t \in TurnIds, NEW a \in Subs, Assign(t, a) PROVE Goal
    <2>1. CASE call.turn = t /\ call' = [call EXCEPT !.agents = @ \cup {a}]
      <3>1. call.batch \in BatchIds /\ ~ Stored(call.batch)
        BY <1>0, <2>1 DEF Shape, BatchRows
      <3>2. call.agents \cup {a} \in SUBSET Subs
        BY <1>0 DEF Calls
      <3> QED
        BY <1>0, <2>1, <3>1, <3>2 DEF Calls, Stored
    <2>2. ASSUME NEW b \in BatchIds, First(FreeBatches, b),
                 call' = [turn |-> t, batch |-> b, agents |-> {a}]
          PROVE  Goal
      <3>1. ~ Stored(b)
        BY <2>2 DEF First, FreeBatches, Stored
      <3> QED
        BY <1>0, <2>2, <3>1 DEF Calls, Stored
    <2> QED
      BY <1>2, <2>1, <2>2 DEF Assign
  <1>3. ASSUME call' \notin {call, NoCall} PROVE Goal
    <2>1. CASE \E t \in TurnIds : TailKinds(t)
      BY <1>3, <2>1, TailKeeps
    <2>2. CASE Crash \/ \E a \in Agents : ResumeFails(a)
      BY <1>3, <2>2 DEF Crash, ResumeFails, ProcessEnds
    <2>3. CASE (\E g \in Carried : ScheduleStep(g)) \/ Minor \/ UNCHANGED vars \/ Restart
      BY <1>3, <2>3 DEF ScheduleStep, Minor, vars, memory, Restart
    <2>4. CASE CreateBatch \/ WaitAnswer \/ OwnerMessage
      BY <1>3, <2>4 DEF CreateBatch, WaitAnswer, OwnerMessage
    <2>5. CASE \E t \in TurnIds : \/ \E b \in BatchIds : WaitCall(t, b)
                                  \/ EndTurn(t) \/ WakeFires(t) \/ WakeMarks(t)
      BY <1>3, <2>5 DEF WaitCall, EndTurn, WakeFires, WakeMarks, TimerRest
    <2> QED
      BY <1>2, <2>1, <2>2, <2>3, <2>4, <2>5, StepKinds
  <1>4. Goal
    BY <1>1, <1>3
  <1>5. CASE CreateBatch
    <2>1. call' = NoCall
      BY <1>5 DEF CreateBatch
    <2> QED
      BY <1>0, <2>1
  <1>6. CASE ~ CreateBatch
    <2>1. \A b \in BatchIds : ~ Stored(b) => ~ Stored(b)'
      BY <1>6, BatchStep
    <2>2. ASSUME call'.turn # 0 PROVE ~ Stored(call.batch)'
      BY <1>4, <2>1, <2>2 DEF Stored
    <2> QED
      BY <1>4, <2>2
  <1> QED
    BY <1>5, <1>6

WaitMove == \/ wait' \in {wait, NoWait}
            \/ \E t \in TurnIds, b \in BatchIds :
                 /\ Stored(b) /\ UNCHANGED tables
                 /\ wait'.batch = b /\ wait'.after \in {0, batch[b].delivered}
                 /\ wait'.status = batch[b].status

LEMMA WaitStep ==
  ASSUME Shape, [Next]_vars
  PROVE  wait' \in Waits /\ WaitMove
  <1>0. /\ wait \in Waits /\ NoWait \in Waits /\ batch \in [BatchIds -> Batches]
        /\ MaxTurns \in Nat \ {0} /\ TurnIds = 1..MaxTurns
        /\ MaxBatches \in Nat \ {0} /\ BatchIds = 1..MaxBatches
    BY RowsAssumption DEF Shape, TypeOK, MemoryTypes, Waits, NoWait, TurnIds, BatchIds, Events
  <1>1. CASE wait' \in {wait, NoWait}
    BY <1>0, <1>1 DEF WaitMove
  <1>2. ASSUME NEW t \in TurnIds, NEW b \in BatchIds, WaitCall(t, b)
        PROVE  wait' \in Waits /\ WaitMove
    <2>1. PICK after \in {0, batch[b].delivered} :
             wait' = [turn |-> t, batch |-> b, after |-> after, status |-> batch[b].status]
      BY <1>2 DEF WaitCall
    <2>2. after \in Events /\ batch[b].status \in {"none", "pending", "complete", "fallback", "consumed"}
      BY <1>0 DEF Batches, Events
    <2> QED
      BY <1>0, <1>2, <2>1, <2>2 DEF WaitCall, WaitMove, Waits, Stored
  <1>3. CASE wait' \notin {wait, NoWait}
    <2>1. CASE \E t \in TurnIds : TailKinds(t)
      BY <1>3, <2>1, TailKeeps
    <2>2. CASE Crash \/ \E a \in Agents : ResumeFails(a)
      BY <1>3, <2>2 DEF Crash, ResumeFails, ProcessEnds
    <2>3. CASE (\E g \in Carried : ScheduleStep(g)) \/ Minor \/ UNCHANGED vars \/ Restart
      BY <1>3, <2>3 DEF ScheduleStep, Minor, vars, memory, Restart
    <2>4. CASE CreateBatch \/ WaitAnswer \/ OwnerMessage
      BY <1>3, <2>4 DEF CreateBatch, WaitAnswer, OwnerMessage
    <2>5. CASE \E t \in TurnIds : \/ \E a \in Subs : Assign(t, a)
                                  \/ EndTurn(t) \/ WakeFires(t) \/ WakeMarks(t)
      BY <1>3, <2>5 DEF Assign, EndTurn, WakeFires, WakeMarks, TimerRest
    <2> QED
      BY <1>2, <2>1, <2>2, <2>3, <2>4, <2>5, StepKinds
  <1> QED
    BY <1>1, <1>3
-----------------------------------------------------------------------------
WakeMove(p) ==
  \/ wake'[p].batches \subseteq wake[p].batches /\ wake'[p].cursors = wake[p].cursors
  \/ wake'[p].batches = {} /\ \A b \in BatchIds : wake'[p].cursors[b] = 0
  \/ /\ WakeFires(p) /\ wake'[p].batches = BatchesForParentTurn(p)
     /\ \A b \in BatchIds : wake'[p].cursors[b] = IF b \in BatchesForParentTurn(p)
                                                 THEN NextCursor(b, batch[b].delivered) ELSE 0

LEMMA WakeStep ==
  ASSUME Shape, [Next]_vars
  PROVE  wake' \in [TurnIds -> WakeStates] /\ \A p \in TurnIds : WakeMove(p)
  <1> DEFINE Goal == wake' \in [TurnIds -> WakeStates] /\ \A p \in TurnIds : WakeMove(p)
  <1>0. wake \in [TurnIds -> WakeStates]
    BY DEF Shape, MemoryTypes
  <1>1. NoWake \in WakeStates /\ NoWake.batches = {} /\ \A b \in BatchIds : NoWake.cursors[b] = 0
    BY RowsAssumption DEF NoWake, NoCursors, WakeStates, Events
  <1>2. CASE wake' = wake
    BY <1>0, <1>2 DEF WakeMove
  <1>3. ASSUME NEW p \in TurnIds, WakeFires(p) PROVE Goal
    <2> DEFINE bs      == BatchesForParentTurn(p)
               cursors == [b \in BatchIds |-> IF b \in bs THEN NextCursor(b, batch[b].delivered) ELSE 0]
    <2>1. wake' \in {wake, [wake EXCEPT ![p] = [busy |-> TRUE, batches |-> bs, cursors |-> cursors]]}
      BY <1>3 DEF WakeFires
    <2>2. bs \in SUBSET BatchIds
      BY DEF BatchesForParentTurn, OpenBatches
    <2>3. cursors \in [BatchIds -> Events]
      <3>1. /\ events \in Seq(Result) /\ Len(events) \in 0..MaxTurns
            /\ \A b \in BatchIds : batch[b].delivered \in 0..Len(events)
        BY EventDomain, RowsAssumption DEF Shape, TypeOK, MemoryTypes, CursorsInRange, Batches, Events
      <3>2. ASSUME NEW b \in BatchIds PROVE NextCursor(b, batch[b].delivered) \in Events /\ 0 \in Events
        BY <3>1, CursorFacts, RowsAssumption DEF Events
      <3> HIDE DEF bs
      <3> QED
        BY <3>2
    <2>4. \A b \in BatchIds : cursors[b] = IF b \in bs THEN NextCursor(b, batch[b].delivered) ELSE 0
      OBVIOUS
    <2> DEFINE w == [busy |-> TRUE, batches |-> bs, cursors |-> cursors]
    <2> HIDE DEF cursors
    <2>5. w \in WakeStates /\ w.batches = bs /\ w.cursors = cursors
      BY <2>2, <2>3 DEF WakeStates
    <2>6. wake' = wake \/ wake' = [wake EXCEPT ![p] = w]
      BY <2>1
    <2> HIDE DEF w
    <2> QED
      BY <1>0, <1>2, <1>3, <2>4, <2>5, <2>6 DEF WakeMove
  <1>4. ASSUME NEW p \in TurnIds, WakeMarks(p) PROVE Goal
    <2>1. PICK b \in wake[p].batches : wake' = [wake EXCEPT ![p].batches = @ \ {b}]
      BY <1>4 DEF WakeMarks
    <2> DEFINE w == [wake[p] EXCEPT !.batches = @ \ {b}]
    <2>2. wake[p] \in WakeStates
      BY <1>0
    <2>3. w \in WakeStates /\ w.batches \subseteq wake[p].batches /\ w.cursors = wake[p].cursors
      BY <2>2 DEF WakeStates
    <2>4. wake' = [wake EXCEPT ![p] = w]
      BY <2>1
    <2> HIDE DEF w
    <2> QED
      BY <1>0, <2>3, <2>4 DEF WakeMove
  <1>5. CASE Crash \/ \E a \in Agents : ResumeFails(a)
    BY <1>1, <1>5 DEF Crash, ResumeFails, ProcessEnds, WakeMove
  <1>6. CASE Minor
    <2>1. wake' = wake \/ \E p \in TurnIds : wake' = [wake EXCEPT ![p] = NoWake]
      BY <1>6 DEF Minor
    <2> QED
      BY <1>0, <1>1, <2>1 DEF WakeMove
  <1>7. ASSUME NEW t \in TurnIds, TailKinds(t) PROVE Goal
    BY <1>2, <1>7, TailKeeps
  <1>8. CASE \E t \in TurnIds : \/ \E a \in Subs : Assign(t, a)
                                \/ \E b \in BatchIds : WaitCall(t, b)
                                \/ EndTurn(t)
    BY <1>2, <1>8 DEF Assign, WaitCall, EndTurn
  <1>9. CASE CreateBatch \/ WaitAnswer \/ OwnerMessage \/ Restart
    BY <1>2, <1>9 DEF CreateBatch, WaitAnswer, OwnerMessage, Restart, memory
  <1>10. CASE (\E g \in Carried : ScheduleStep(g)) \/ UNCHANGED vars
    BY <1>2, <1>10 DEF ScheduleStep, vars, memory
  <1> QED
    BY <1>3, <1>4, <1>5, <1>6, <1>7, <1>8, <1>9, <1>10, StepKinds
-----------------------------------------------------------------------------
\* The status of a turn changes with its end only.
LEMMA StatusStep ==
  ASSUME Shape, [Next]_vars, NEW t \in TurnIds, There(t)
  PROVE  turn'[t] = turn[t] \/ EndTurn(t) \/ Restart
  <1> DEFINE Goal == turn'[t] = turn[t] \/ EndTurn(t) \/ Restart
  <1>0. turn \in [TurnIds -> Turns]
    BY DEF Shape, TypeOK
  <1>1. ASSUME NEW n \in TurnIds, First(FreeTurns, n), NEW r, turn' = [turn EXCEPT ![n] = r]
        PROVE  Goal
    BY <1>0, <1>1 DEF First, FreeTurns, There
  <1>2. ASSUME NEW g \in Carried, ScheduleStep(g) PROVE Goal
    BY <1>1, <1>2 DEF ScheduleStep, Started, Claim
  <1>3. ASSUME NEW u \in TurnIds, EndTurn(u) PROVE Goal
    BY <1>0, <1>3 DEF EndTurn
  <1>4. ASSUME NEW u \in TurnIds, Retry(u) PROVE Goal
    BY <1>1, <1>4 DEF Retry
  <1>5. ASSUME NEW u \in TurnIds, TailKinds(u) PROVE Goal
    <2>1. CASE \/ PassOn(u) \/ RecordResult(u) \/ RouteResult(u) \/ Arm(u)
               \/ Finalize(u) \/ FinalizeWrite(u) \/ Settle(u)
      BY <2>1 DEF PassOn, RecordResult, RouteResult, Arm, Finalize, FinalizeWrite, Settle, tables
    <2> QED
      BY <1>4, <1>5, <2>1 DEF TailKinds
  <1>6. CASE \E u \in TurnIds : \/ \E a \in Subs : Assign(u, a)
                                \/ \E b \in BatchIds : WaitCall(u, b)
                                \/ WakeFires(u) \/ WakeMarks(u)
    BY <1>6 DEF Assign, WaitCall, WakeFires, WakeMarks, tables
  <1>7. CASE CreateBatch \/ WaitAnswer \/ OwnerMessage
    BY <1>7 DEF CreateBatch, WaitAnswer, OwnerMessage
  <1>8. CASE Crash \/ (\E a \in Agents : ResumeFails(a)) \/ Minor \/ UNCHANGED vars
    BY <1>8 DEF Crash, ResumeFails, Minor, vars, tables
  <1> QED
    BY <1>2, <1>3, <1>5, <1>6, <1>7, <1>8, StepKinds

\* A cursor moves when a poll is answered or a wake is marked.
DeliveredMove(b) ==
  \/ batch'[b].delivered = batch[b].delivered
  \/ ~ Stored(b) /\ batch'[b].delivered = 0
  \/ WaitAnswer /\ b = wait.batch /\ batch'[b].delivered = NextCursor(b, wait.after)
  \/ \E p \in TurnIds : /\ b \in wake[p].batches /\ batch'[b].delivered = wake[p].cursors[b]

LEMMA DeliveredStep ==
  ASSUME Shape, [Next]_vars, NEW b \in BatchIds
  PROVE  DeliveredMove(b)
  <1>0. batch \in [BatchIds -> Batches]
    BY DEF Shape, TypeOK
  <1>1. CASE batch' = batch
    BY <1>1 DEF DeliveredMove
  <1>2. ASSUME NEW c \in BatchIds, NEW s, batch' = [batch EXCEPT ![c].status = s]
        PROVE  batch'[b].delivered = batch[b].delivered
    <2>1. batch[c] \in Batches
      BY <1>0
    <2> QED
      BY <1>0, <1>2, <2>1 DEF Batches
  <1>3. CASE CreateBatch
    <2> DEFINE r == [status |-> "pending", parent |-> call.turn, delivered |-> 0]
    <2>1. call.batch \in BatchIds /\ ~ Stored(call.batch) /\ batch' = [batch EXCEPT ![call.batch] = r]
      BY <1>3 DEF CreateBatch, Shape, BatchRows
    <2>2. batch'[b] = IF b = call.batch THEN r ELSE batch[b]
      BY <1>0, <2>1
    <2> QED
      BY <2>1, <2>2 DEF DeliveredMove
  <1>4. CASE WaitAnswer
    <2> DEFINE c == wait.batch
               next == NextCursor(c, wait.after)
               n == IF batch[c].delivered < next THEN next ELSE batch[c].delivered
               s == IF Complete(c) /\ wait.status = "pending" THEN "complete" ELSE wait.status
    <2>1. c \in BatchIds
      BY <1>4 DEF WaitAnswer, Shape, References
    <2>2. batch' = [batch EXCEPT ![c] = [batch[c] EXCEPT !.delivered = n, !.status = s]]
      BY <1>4 DEF WaitAnswer
    <2>3. batch[c] \in Batches
      BY <1>0, <2>1
    <2> HIDE DEF s, n, c
    <2>4. batch'[c].delivered = n /\ \A d \in BatchIds : d # c => batch'[d] = batch[d]
      BY <1>0, <2>1, <2>2, <2>3 DEF Batches
    <2> QED
      BY <1>4, <2>4 DEF DeliveredMove, n, c
  <1>5. ASSUME NEW p \in TurnIds, WakeMarks(p) PROVE DeliveredMove(b)
    <2>1. PICK c \in wake[p].batches :
             batch' = [batch EXCEPT
               ![c].delivered = IF @ < wake[p].cursors[c] THEN wake[p].cursors[c] ELSE @,
               ![c].status = "fallback"]
      BY <1>5 DEF WakeMarks
    <2> DEFINE n == IF batch[c].delivered < wake[p].cursors[c] THEN wake[p].cursors[c]
                    ELSE batch[c].delivered
    <2>2. c \in BatchIds
      BY <2>1 DEF Shape, MemoryTypes, WakeStates
    <2>3. batch[c] \in Batches
      BY <1>0, <2>2
    <2>4. batch' = [batch EXCEPT ![c] = [batch[c] EXCEPT !.delivered = n, !.status = "fallback"]]
      BY <2>1
    <2> HIDE DEF n
    <2>5. batch'[c].delivered = n /\ \A d \in BatchIds : d # c => batch'[d] = batch[d]
      BY <1>0, <2>2, <2>3, <2>4 DEF Batches
    <2> QED
      BY <2>1, <2>5 DEF DeliveredMove, n
  <1>6. ASSUME NEW t \in TurnIds, RecordResult(t) PROVE DeliveredMove(b)
    <2>1. PICK c \in BatchIds : \E s \in {"pending", "complete"} : batch' = [batch EXCEPT ![c].status = s]
      BY <1>6 DEF RecordResult, ChildOf
    <2> QED
      BY <1>2, <2>1 DEF DeliveredMove
  <1>7. ASSUME NEW t \in TurnIds, FinalizeWrite(t) PROVE DeliveredMove(b)
    <2>1. th[t].b \in BatchIds
      BY <1>7 DEF FinalizeWrite, At, Shape, Tails
    <2>2. \E s \in {"consumed", "fallback"} : batch' = [batch EXCEPT ![th[t].b].status = s]
      BY <1>7 DEF FinalizeWrite
    <2> QED
      BY <1>2, <2>1, <2>2 DEF DeliveredMove
  <1>8. ASSUME NEW t \in TurnIds, TailKinds(t) PROVE DeliveredMove(b)
    <2>1. CASE \/ Retry(t) \/ PassOn(t) \/ RouteResult(t) \/ Arm(t) \/ Finalize(t) \/ Settle(t)
      BY <1>1, <2>1 DEF Retry, PassOn, RouteResult, Arm, Finalize, Settle, tables
    <2> QED
      BY <1>6, <1>7, <1>8, <2>1 DEF TailKinds
  <1>9. CASE \E g \in Carried : ScheduleStep(g)
    BY <1>1, <1>9 DEF ScheduleStep
  <1>10. CASE \E t \in TurnIds : \/ \E a \in Subs : Assign(t, a)
                                 \/ \E c \in BatchIds : WaitCall(t, c)
                                 \/ EndTurn(t) \/ WakeFires(t)
    BY <1>1, <1>10 DEF Assign, WaitCall, EndTurn, WakeFires, tables
  <1>11. CASE OwnerMessage \/ Restart
    BY <1>1, <1>11 DEF OwnerMessage, Restart
  <1>12. CASE Crash \/ (\E a \in Agents : ResumeFails(a)) \/ Minor \/ UNCHANGED vars
    BY <1>1, <1>12 DEF Crash, ResumeFails, Minor, vars, tables
  <1> QED
    BY <1>3, <1>4, <1>5, <1>8, <1>9, <1>10, <1>11, <1>12, StepKinds
-----------------------------------------------------------------------------
(* The parts of Shape *)

LEMMA KeepsTurnRows ==
  ASSUME Shape, [Next]_vars
  PROVE  TurnRows'
  <1>1. ASSUME NEW t \in TurnIds, There(t)' PROVE turn'[t].generation < t
    BY <1>1, TurnStep DEF KeptTurn, InsertedTurn, Shape, TurnRows
  <1>2. ASSUME NEW t \in TurnIds, NEW u \in TurnIds, t < u, There(u)' PROVE There(t)'
    <2>1. CASE There(u)
      BY <1>2, <2>1, TurnStep DEF KeptTurn, Shape, TurnRows
    <2>2. CASE ~ There(u)
      <3>1. First(FreeTurns, u)
        BY <1>2, <2>2, TurnStep DEF InsertedTurn
      <3>2. t \in Int /\ u \in Int
        BY DEF TurnIds
      <3>3. There(t)
        BY <1>2, <3>1, <3>2 DEF First, FreeTurns, There
      <3> QED
        BY <3>3, TurnStep DEF KeptTurn
    <2> QED
      BY <2>1, <2>2
  <1> QED
    BY <1>1, <1>2 DEF TurnRows

LEMMA KeepsTails ==
  ASSUME Shape, [Next]_vars
  PROVE  Tails'
  <1> SUFFICES ASSUME NEW t \in TurnIds
               PROVE  /\ th'[t].pc # "idle" => There(t)' /\ Up'
                      /\ th'[t].pc = "run" => turn'[t].status \in TurnActive
                      /\ th'[t].pc \notin {"idle", "run"} => Ended(t)'
                      /\ th'[t].pc = "route" => turn'[t].agent \in Subs
                      /\ th'[t].pc \in {"arm", "finalize_write"} =>
                           th'[t].b \in BatchIds /\ Stored(th[t].b)'
                      /\ \A b \in th'[t].todo : Stored(b)'
    BY DEF Tails
  <1>0. /\ Tails /\ th \in [TurnIds -> Goroutines] /\ th' \in [TurnIds -> Goroutines]
        /\ \A u \in TurnIds : th[u].todo \in SUBSET BatchIds /\ th'[u].todo \in SUBSET BatchIds
        /\ ThreadMove(t)
    BY ThreadStep DEF Shape, MemoryTypes, Goroutines
  <1>1. \A b \in BatchIds : batch[b].status # "none" => batch'[b].status # "none"
    BY BatchStep DEF KeptBatch, Stored
  <1>2. There(t) => There(t)' /\ turn'[t].agent = turn[t].agent /\ (Ended(t) => Ended(t)')
    BY TurnStep DEF KeptTurn
  <1>3. /\ Idle.pc = "idle" /\ Idle.todo = {} /\ Run.pc = "run" /\ Run.todo = {}
    BY DEF Idle, Run
  <1>4. CASE ~ Up'
    <2>1. th'[t].pc = "idle" /\ th'[t].todo \in SUBSET BatchIds /\ \A b \in th'[t].todo : Stored(b)'
      <3>1. CASE Ends
        BY <1>3, <3>1 DEF Ends, ProcessEnds
      <3>2. CASE UNCHANGED vars
        <4>1. th[t].pc = "idle" /\ th' = th /\ batch' = batch
          BY <1>0, <1>4, <3>2 DEF Tails, vars, memory, process, tables, Up
        <4> QED
          BY <1>0, <4>1 DEF Tails, Stored
      <3> QED
        BY <1>4, <3>1, <3>2, LifeStep
    <2> QED
      BY <2>1
  <1>5. CASE Up'
    <2>1. CASE th'[t] = th[t]
      <3>1. th[t].pc = "run" => turn'[t].status \in TurnActive
        <4>1. SUFFICES ASSUME th[t].pc = "run" PROVE turn'[t].status \in TurnActive
          OBVIOUS
        <4>2. There(t) /\ Up /\ turn[t].status \in TurnActive
          BY <1>0, <4>1 DEF Tails
        <4>3. ~ EndTurn(t)
          <5>1. Goto(t, "terminal")[t].pc = "terminal"
            BY GotoTypes DEF Shape, Labels
          <5> QED
            BY <2>1, <4>1, <5>1 DEF EndTurn
        <4>4. ~ Restart
          BY <4>2 DEF Restart, Up
        <4> QED
          BY <4>2, <4>3, <4>4, StatusStep
      <3>2. \A b \in th[t].todo : Stored(b)'
        BY <1>0, <1>1 DEF Tails, Stored
      <3>3. th[t].pc \in {"arm", "finalize_write"} => th[t].b \in BatchIds /\ Stored(th[t].b)'
        BY <1>0, <1>1, <2>1 DEF Tails, Stored
      <3> QED
        BY <1>0, <1>2, <1>5, <2>1, <3>1, <3>2, <3>3 DEF Tails
    <2>2. CASE th'[t].pc = "idle" /\ th'[t].todo = {}
      BY <2>2
    <2>3. CASE ~ There(t) /\ th'[t] = Run /\ turn'[t].status \in TurnActive
      BY <1>3, <1>5, <2>3 DEF There, TurnActive
    <2>4. CASE th[t].pc = "run" /\ th'[t].pc = "terminal" /\ th'[t].todo = {} /\ Ended(t)'
      BY <1>0, <1>2, <1>5, <2>4 DEF Tails
    <2>5. CASE MovesOn(t)
      <3>1. There(t) /\ Ended(t)
        BY <1>0, <2>5 DEF MovesOn, Tails
      <3>2. th'[t].pc \in {"arm", "finalize_write"} => th'[t].b \in BatchIds /\ Stored(th[t].b)'
        BY <1>1, <2>5 DEF MovesOn, Stored
      <3>3. \A b \in th'[t].todo : Stored(b)'
        BY <1>0, <1>1, <2>5 DEF MovesOn, Stored
      <3> QED
        BY <1>2, <1>5, <2>5, <3>1, <3>2, <3>3 DEF MovesOn
    <2> QED
      BY <1>0, <2>1, <2>2, <2>3, <2>4, <2>5 DEF ThreadMove
  <1> QED
    BY <1>4, <1>5

LEMMA KeepsStopped ==
  ASSUME Shape, [Next]_vars
  PROVE  Stopped'
  <1>1. CASE Ends
    <2>1. ~ NoWake.busy
      BY DEF NoWake
    <2> QED
      BY <1>1, <2>1 DEF Ends, ProcessEnds, Stopped
  <1>2. CASE UNCHANGED vars
    BY <1>2 DEF vars, memory, process, Stopped, Up, Shape
  <1> QED
    BY <1>1, <1>2, LifeStep DEF Stopped

LEMMA KeepsBatchRows ==
  ASSUME Shape, [Next]_vars
  PROVE  BatchRows'
  <1>1. ASSUME NEW b \in BatchIds, Stored(b)' PROVE batch'[b].parent \in TurnIds
    BY <1>1, BatchStep DEF KeptBatch, Shape, BatchRows
  <1> QED
    BY <1>1, CallStep DEF BatchRows

LEMMA KeepsMemberRows ==
  ASSUME Shape, [Next]_vars
  PROVE  MemberRows'
  <1> SUFFICES ASSUME NEW b \in BatchIds, NEW a \in Subs
               PROVE  /\ member'[b][a].status # "none" => Stored(b)'
                      /\ member'[b][a].child # 0 =>
                           /\ member'[b][a].child \in TurnIds /\ There(member[b][a].child)'
                           /\ turn'[member'[b][a].child].agent = a
                           /\ member'[b][a].status \notin {"none", "queued"}
    BY DEF MemberRows
  <1>0. /\ member[b][a].status # "none" => Stored(b)
        /\ member[b][a].child # 0 =>
             /\ member[b][a].child \in TurnIds /\ There(member[b][a].child)
             /\ turn[member[b][a].child].agent = a
             /\ member[b][a].status \notin {"none", "queued"}
    BY DEF Shape, MemberRows
  <1>1. Stored(b) => Stored(b)'
    BY BatchStep DEF KeptBatch
  <1>2. \A t \in TurnIds : turn[t].status # "none" => turn'[t].status # "none" /\ turn'[t].agent = turn[t].agent
    BY TurnStep DEF KeptTurn, There
  <1>3. CASE member'[b][a] = member[b][a]
    BY <1>0, <1>1, <1>2, <1>3 DEF There
  <1>4. CASE /\ member[b][a].status = "queued" /\ member'[b][a].status = "running"
             /\ \E n \in TurnIds : member'[b][a].child = n /\ There(n)' /\ turn'[n].agent = a
    BY <1>0, <1>1, <1>4 DEF There
  <1>5. CASE CreateBatch /\ b = call.batch /\ member'[b][a].child = 0
    <2>1. batch'[b].status = "pending"
      <3>1. batch' = [batch EXCEPT ![b] = [status |-> "pending", parent |-> call.turn, delivered |-> 0]]
        BY <1>5 DEF CreateBatch
      <3> QED
        BY <3>1 DEF Shape, TypeOK
    <2> QED
      BY <1>5, <2>1 DEF Stored
  <1>6. ASSUME RecordResult(member[b][a].child), member[b][a].child \in TurnIds,
               member'[b][a].child = member[b][a].child,
               member'[b][a].status = turn[member[b][a].child].status
        PROVE  /\ member'[b][a].status # "none" => Stored(b)'
               /\ member'[b][a].child # 0 =>
                    /\ member'[b][a].child \in TurnIds /\ There(member[b][a].child)'
                    /\ turn'[member'[b][a].child].agent = a
                    /\ member'[b][a].status \notin {"none", "queued"}
    <2> DEFINE t == member[b][a].child
    <2>1. t # 0
      BY <1>6, RowsAssumption DEF TurnIds
    <2>2. turn[t].status \in TurnTerminal
      BY <1>6 DEF RecordResult, At, Shape, Tails, Ended
    <2>3. "none" \notin TurnTerminal /\ "queued" \notin TurnTerminal
      BY DEF TurnTerminal
    <2> QED
      BY <1>0, <1>1, <1>2, <1>6, <2>1, <2>2, <2>3 DEF There
  <1>7. MemberMove(b, a)
    BY MemberStep
  <1> QED
    BY <1>3, <1>4, <1>5, <1>6, <1>7 DEF MemberMove
-----------------------------------------------------------------------------
LEMMA KeepsReferences ==
  ASSUME Shape, [Next]_vars
  PROVE  References'
  <1>0. /\ References /\ BatchRows
        /\ inbox \in [ItemIds -> Items] /\ inbox' \in [ItemIds -> Items]
        /\ wake \in [TurnIds -> WakeStates] /\ wake' \in [TurnIds -> WakeStates]
    BY ItemStep, WakeStep DEF Shape, TypeOK, MemoryTypes
  <1>1. \A b \in BatchIds : batch[b].status # "none" => batch'[b].status # "none"
    BY BatchStep DEF KeptBatch, Stored
  <1>2. \A p \in TurnIds : \A b \in BatchesForParentTurn(p) : b \in BatchIds /\ batch[b].status # "none"
    BY DEF BatchesForParentTurn, OpenBatches
  <1>3. ASSUME NEW i \in ItemIds, inbox'[i].kind = "collaboration_fallback", NEW b \in inbox'[i].batches
        PROVE  batch'[b].status # "none"
    <2>1. CASE inbox'[i].kind = inbox[i].kind /\ inbox'[i].batches = inbox[i].batches
      <3>1. b \in BatchIds /\ Stored(b)
        BY <1>0, <1>3, <2>1 DEF References, Items
      <3> QED
        BY <1>1, <3>1 DEF Stored
    <2>2. CASE FreshItem(i)
      BY <1>1, <1>2, <1>3, <2>2 DEF FreshItem, WakeItem
    <2> QED
      BY <2>1, <2>2, ItemStep DEF ItemMove, SameLetter
  <1>4. ASSUME NEW p \in TurnIds, NEW b \in wake'[p].batches PROVE batch'[b].status # "none"
    <2>1. CASE wake'[p].batches \subseteq wake[p].batches
      <3>1. b \in BatchIds /\ Stored(b)
        BY <1>0, <1>4, <2>1 DEF References, WakeStates
      <3> QED
        BY <1>1, <3>1 DEF Stored
    <2>2. CASE wake'[p].batches = BatchesForParentTurn(p)
      BY <1>1, <1>2, <1>4, <2>2
    <2> QED
      BY <1>4, <2>1, <2>2, WakeStep DEF WakeMove
  <1>5. ASSUME wait' # NoWait
        PROVE  wait'.batch \in BatchIds /\ batch'[wait'.batch].status # "none" /\ wait'.status # "none"
    <2>1. CASE wait' = wait
      BY <1>0, <1>1, <1>5, <2>1 DEF References, Stored
    <2>2. ASSUME NEW t \in TurnIds, NEW b \in BatchIds, Stored(b), wait'.batch = b,
                 wait'.status = batch[b].status
          PROVE  wait'.batch \in BatchIds /\ batch'[wait'.batch].status # "none" /\ wait'.status # "none"
      BY <1>1, <2>2 DEF Stored
    <2> QED
      BY <1>5, <2>1, <2>2, WaitStep DEF WaitMove
  <1> QED
    BY <1>3, <1>4, <1>5 DEF References, Stored, NoWait

LEMMA KeepsCursorsInRange ==
  ASSUME Shape, [Next]_vars
  PROVE  CursorsInRange'
  <1>0. /\ events \in Seq(Result) /\ Len(events) \in Nat /\ CursorsInRange /\ References
        /\ \A b \in BatchIds : batch[b].delivered \in 0..Len(events)
        /\ wait.after \in 0..Len(events)
        /\ wake \in [TurnIds -> WakeStates] /\ NoWait.after = 0
    BY EventDomain
       DEF Shape, TypeOK, MemoryTypes, CursorsInRange, Batches, Waits, Events, NoWait
  <1>1. Len(events') \in Nat /\ Len(events) <= Len(events')
    BY <1>0, EventStep DEF Reports
  <1>2. \A b \in BatchIds, n \in 0..Len(events) : NextCursor(b, n) <= Len(events)
    BY <1>0, CursorFacts
  <1>3. ASSUME NEW b \in BatchIds PROVE batch'[b].delivered <= Len(events')
    <2>1. batch'[b].delivered \in Nat
      BY BatchStep DEF Batches, Events
    <2>2. batch'[b].delivered <= Len(events)
      <3>1. CASE \E p \in TurnIds : b \in wake[p].batches /\ batch'[b].delivered = wake[p].cursors[b]
        BY <1>0, <3>1 DEF CursorsInRange
      <3> QED
        BY <1>0, <1>2, <3>1, DeliveredStep DEF DeliveredMove
    <2> QED
      BY <1>0, <1>1, <2>1, <2>2
  <1>4. ASSUME NEW i \in ItemIds, NEW b \in BatchIds PROVE inbox'[i].cursors[b] <= Len(events')
    <2>1. inbox'[i].cursors[b] \in Nat
      BY ItemStep DEF Items, Events
    <2>2. inbox'[i].cursors[b] <= Len(events)
      <3>1. CASE inbox'[i].cursors = inbox[i].cursors
        BY <1>0, <3>1 DEF CursorsInRange
      <3>2. CASE FreshItem(i)
        BY <1>0, <1>2, <3>2 DEF FreshItem, WakeItem
      <3> QED
        BY <3>1, <3>2, ItemStep DEF ItemMove, SameLetter
    <2> QED
      BY <1>0, <1>1, <2>1, <2>2
  <1>5. ASSUME NEW p \in TurnIds, NEW b \in BatchIds PROVE wake'[p].cursors[b] <= Len(events')
    <2>1. wake'[p].cursors[b] \in Nat
      BY WakeStep DEF WakeStates, Events
    <2>2. wake'[p].cursors[b] <= Len(events)
      <3>1. CASE wake'[p].cursors = wake[p].cursors
        BY <1>0, <3>1 DEF CursorsInRange
      <3>2. wake'[p].cursors[b] \in {0, NextCursor(b, batch[b].delivered)} \/ wake'[p].cursors = wake[p].cursors
        BY WakeStep DEF WakeMove
      <3> QED
        BY <1>0, <1>2, <3>1, <3>2
    <2> QED
      BY <1>0, <1>1, <2>1, <2>2
  <1>6. wait'.after <= Len(events')
    <2>1. wait'.after \in 0..Len(events)
      BY <1>0, WaitStep DEF WaitMove
    <2> QED
      BY <1>0, <1>1, <2>1
  <1> QED
    BY <1>3, <1>4, <1>5, <1>6 DEF CursorsInRange

LEMMA KeepsReported ==
  ASSUME Shape, [Next]_vars
  PROVE  Reported'
  <1>0. /\ events \in Seq(Result) /\ events' \in Seq(Result) /\ Reported
        /\ Len(events) \in Nat /\ Len(events') \in Nat
        /\ DOMAIN events = 1..Len(events) /\ DOMAIN events' = 1..Len(events')
        /\ \A k \in DOMAIN events : events[k] \in Result
    BY EventStep, EventDomain, LenProperties DEF Shape, MemoryTypes
  <1> DEFINE Told(b, t) == /\ batch'[b].status # "none" /\ turn'[t].status # "none"
                           /\ th'[t].pc \notin {"run", "terminal", "route"}
  <1>1. ASSUME NEW k \in DOMAIN events PROVE Told(events[k].batch, events[k].child)
    <2> DEFINE t == events[k].child
               b == events[k].batch
    <2>1. /\ t \in TurnIds /\ b \in BatchIds /\ Stored(b) /\ There(t)
          /\ th[t].pc \notin {"run", "terminal", "route"}
      BY <1>0 DEF Reported, Result
    <2> HIDE DEF t, b
    <2>2. batch'[b].status # "none" /\ turn'[t].status # "none"
      BY <2>1, BatchStep, TurnStep DEF KeptBatch, KeptTurn, Stored, There
    <2>3. th'[t].pc \notin {"run", "terminal", "route"}
      BY <2>1, ThreadStep DEF ThreadMove, MovesOn
    <2> QED
      BY <2>2, <2>3 DEF t, b
  <1>2. CASE events' = events
    BY <1>0, <1>1, <1>2 DEF Reported, Stored, There
  <1>3. ASSUME NEW t \in TurnIds, Reports(t) PROVE Reported'
    <2>1. PICK b \in ChildOf(t) : events'[Len(events')] = [batch |-> b, child |-> t]
      BY <1>3 DEF Reports
    <2>2. /\ Len(events') = Len(events) + 1 /\ th[t].pc = "route" /\ th'[t].pc = "arm"
          /\ \A k \in 1..Len(events) : events'[k] = events[k]
      BY <1>3 DEF Reports, RecordResult, At
    <2>3. Told(b, t)
      <3>1. PICK a \in Subs : member[b][a].child = t
        BY <2>1 DEF ChildOf
      <3>2. b \in BatchIds /\ t # 0
        BY <2>1, RowsAssumption DEF ChildOf, TurnIds
      <3>3. Stored(b) /\ There(t)
        BY <3>1, <3>2 DEF Shape, MemberRows
      <3> QED
        BY <2>2, <3>2, <3>3, BatchStep, TurnStep DEF KeptBatch, KeptTurn, Stored, There
    <2>4. \A k \in 1..Len(events) : events[k].child # t
      BY <1>0, <2>2 DEF Reported
    <2>5. \A k \in 1..Len(events') : k \in 1..Len(events) \/ k = Len(events')
      BY <1>0, <2>2
    <2>6. \A k \in DOMAIN events' : Told(events'[k].batch, events'[k].child)
      BY <1>0, <1>1, <2>1, <2>2, <2>3, <2>5
    <2>7. ASSUME NEW j \in 1..Len(events'), NEW k \in 1..Len(events'),
                 events'[j].child = events'[k].child
          PROVE  j = k
      BY <1>0, <2>1, <2>2, <2>4, <2>5, <2>7 DEF Reported
    <2> QED
      BY <1>0, <2>6, <2>7 DEF Reported, Stored, There
  <1> QED
    BY <1>2, <1>3, EventStep

\* Every event is of a turn of its own.
LEMMA EventsBounded ==
  ASSUME events \in Seq(Result), Reported
  PROVE  Len(events) <= MaxTurns
  <1> DEFINE n == Len(events)
             f == [k \in 1..n |-> events[k].child]
  <1>1. n \in Nat /\ n = Len(events) /\ DOMAIN events = 1..n /\ \A k \in 1..n : events[k] \in Result
    BY EventDomain
  <1>2. f \in [1..n -> TurnIds]
    BY <1>1 DEF Result
  <1>3. \A j, k \in 1..n : f[j] = f[k] => j = k
    BY <1>1 DEF Reported
  <1>4. /\ MaxTurns \in Nat /\ IsFiniteSet(TurnIds) /\ Cardinality(TurnIds) = MaxTurns
        /\ IsFiniteSet(1..n) /\ Cardinality(1..n) = n
    <2>1. MaxTurns \in Int /\ n \in Int /\ 1 \in Int /\ 0 <= MaxTurns /\ 0 <= n
      BY <1>1, RowsAssumption
    <2>2. MaxTurns \in Nat
      BY RowsAssumption
    <2> HIDE DEF n
    <2> QED
      BY <2>1, <2>2, FS_Interval DEF TurnIds
  <1> HIDE DEF n, f
  <1>5. ASSUME MaxTurns < n PROVE FALSE
    <2>1. PICK x, y \in 1..n : x # y /\ f[x] = f[y]
      BY <1>2, <1>4, <1>5, FS_PigeonHole
    <2> QED
      BY <1>3, <2>1
  <1> QED
    BY <1>1, <1>4, <1>5 DEF n
-----------------------------------------------------------------------------
LEMMA AnsweredStep ==
  ASSUME Shape, [Next]_vars
  PROVE  \/ answered' = answered
         \/ WaitAnswer /\ events' = events /\ answered' = answered \cup Results(wait.batch, wait.after)
  <1>1. ASSUME NEW t \in TurnIds, TailKinds(t) PROVE answered' = answered
    BY <1>1, TailKeeps
  <1>2. CASE \E t \in TurnIds : \/ \E a \in Subs : Assign(t, a)
                                \/ \E b \in BatchIds : WaitCall(t, b)
                                \/ EndTurn(t) \/ WakeFires(t) \/ WakeMarks(t)
    BY <1>2 DEF Assign, WaitCall, EndTurn, WakeFires, WakeMarks, TimerRest
  <1>3. CASE \/ \E g \in Carried : ScheduleStep(g)
             \/ CreateBatch \/ WaitAnswer \/ OwnerMessage \/ Restart
             \/ Crash \/ (\E a \in Agents : ResumeFails(a)) \/ Minor \/ UNCHANGED vars
    BY <1>3 DEF ScheduleStep, CreateBatch, WaitAnswer, OwnerMessage, Restart, Crash, ResumeFails,
                Minor, vars
  <1> QED
    BY <1>1, <1>2, <1>3, StepKinds

LEMMA ProcessTypes ==
  ASSUME Shape, [Next]_vars
  PROVE  /\ timers' \subseteq TurnIds /\ due' \subseteq Agents /\ resume' \subseteq Agents
         /\ merge' \in BOOLEAN /\ crashes' \in 0..MaxCrashes
         /\ boot' \in {"off", "agents", "up", "failed"}
  <1> DEFINE Goal == /\ timers' \subseteq TurnIds /\ due' \subseteq Agents /\ resume' \subseteq Agents
                     /\ merge' \in BOOLEAN /\ crashes' \in 0..MaxCrashes
  <1>0. /\ timers \subseteq TurnIds /\ due \subseteq Agents /\ resume \subseteq Agents
        /\ merge \in BOOLEAN /\ crashes \in 0..MaxCrashes /\ MaxCrashes \in Nat
        /\ boot \in {"off", "agents", "up", "failed"}
        /\ Main \in Agents /\ Subs \subseteq Agents
        /\ \A b \in OpenBatches : batch[b].parent \in TurnIds
    BY RowsAssumption DEF Shape, TypeOK, Agents, OpenBatches, BatchRows, Stored
  <1>1. CASE \E g \in Carried : ScheduleStep(g)
    BY <1>0, <1>1 DEF ScheduleStep
  <1>2. CASE CreateBatch
    <2>1. call.agents \subseteq Agents
      BY <1>0 DEF Shape, MemoryTypes, Calls
    <2> QED
      BY <1>0, <1>2, <2>1 DEF CreateBatch, process
  <1>3. CASE OwnerMessage \/ WaitAnswer \/ Minor
    BY <1>0, <1>3 DEF OwnerMessage, WaitAnswer, Minor, process
  <1>4. CASE Restart
    <2> DEFINE pending == {i \in ItemIds : inbox'[i].status = "pending"}
    <2>1. resume' = {inbox'[i].to : i \in pending}
      BY <1>4 DEF Restart
    <2>2. \A i \in ItemIds : inbox'[i].to \in Agents
      BY ItemStep DEF Items
    <2> QED
      BY <1>0, <1>4, <2>1, <2>2 DEF Restart, memory
  <1>5. CASE Crash \/ \E a \in Agents : ResumeFails(a)
    <2>1. ProcessEnds /\ boot' \in {"off", "failed"}
      BY <1>5 DEF Crash, ResumeFails
    <2>2. crashes' \in 0..MaxCrashes
      BY <1>0, <1>5 DEF Crash, ResumeFails
    <2> QED
      BY <2>1, <2>2 DEF ProcessEnds
  <1>6. CASE UNCHANGED vars
    BY <1>0, <1>6 DEF vars, memory, process
  <1>7. ASSUME NEW t \in TurnIds, TailKinds(t) PROVE Goal
    <2>1. timers' \subseteq TurnIds
      <3>1. CASE Arm(t)
        <4>1. batch[th[t].b].parent \in TurnIds \/ ~ MayWake(th[t].b)
          BY <1>0 DEF MayWake
        <4> QED
          BY <1>0, <3>1, <4>1 DEF Arm
      <3>2. CASE ~ Arm(t)
        BY <1>0, <1>7, <3>2
           DEF TailKinds, Retry, PassOn, RecordResult, RouteResult, Finalize, FinalizeWrite, Settle
      <3> QED
        BY <3>1, <3>2
    <2> QED
      BY <1>0, <1>7, <2>1, TailKeeps DEF process
  <1>8. CASE \E t \in TurnIds : \/ \E a \in Subs : Assign(t, a)
                                \/ \E b \in BatchIds : WaitCall(t, b)
                                \/ EndTurn(t) \/ WakeFires(t) \/ WakeMarks(t)
    BY <1>0, <1>8 DEF Assign, WaitCall, EndTurn, WakeFires, WakeMarks, TimerRest, process
  <1>9. Goal
    BY <1>1, <1>2, <1>3, <1>4, <1>5, <1>6, <1>7, <1>8, StepKinds
  <1>10. boot' \in {"off", "agents", "up", "failed"}
    BY <1>0, LifeStep DEF Ends, vars, process
  <1> QED
    BY <1>9, <1>10

\* The first parts of the invariant, together.
LEMMA KeepsShape ==
  ASSUME Shape, [Next]_vars
  PROVE  Shape'
  <1>1. events' \in Seq(Result) /\ Reported'
    BY EventStep, KeepsReported
  <1>2. MemoryTypes'
    BY <1>1, ThreadStep, CallStep, WaitStep, WakeStep DEF MemoryTypes
  <1>3. /\ Len(events') <= MaxTurns /\ DOMAIN events' = 1..Len(events')
        /\ \A k \in DOMAIN events' : events'[k] \in [batch: BatchIds, child: TurnIds]
    <2>1. (events \in Seq(Result) /\ Reported => Len(events) <= MaxTurns)'
      BY EventsBounded, PTL
    <2>2. \A k \in 1..Len(events') : events'[k] \in Result
      BY <1>1, LenProperties
    <2> QED
      BY <1>1, <2>1, <2>2, LenProperties DEF Result
  <1>4. answered' \subseteq DOMAIN events'
    <2>1. answered \subseteq 1..Len(events) /\ DOMAIN events = 1..Len(events) /\ Len(events) \in Nat
      BY EventDomain DEF Shape, TypeOK, MemoryTypes
    <2>2. 1..Len(events) \subseteq 1..Len(events')
      BY <1>1, <2>1, EventStep DEF Reports
    <2>3. \A b, n : Results(b, n) \subseteq DOMAIN events
      BY DEF Results
    <2> QED
      BY <1>3, <2>1, <2>2, <2>3, AnsweredStep
  <1>5. round' \in RoundStatus
    BY RoundStep DEF Shape, TypeOK, RoundStatus, RoundTerminal
  <1>6. TypeOK'
    BY <1>3, <1>4, <1>5, TurnStep, ItemStep, BatchStep, MemberStep, ProcessTypes DEF TypeOK
  <1> QED
    BY <1>1, <1>2, <1>6, KeepsTurnRows, KeepsTails, KeepsStopped, KeepsBatchRows, KeepsMemberRows,
       KeepsReferences, KeepsCursorsInRange DEF Shape
-----------------------------------------------------------------------------
(* What Main is handed *)

LEMMA RestartEnds ==
  ASSUME Shape, Restart, NEW t \in TurnIds
  PROVE  turn'[t].status \notin TurnActive
  <1>1. turn'[t] = IF turn[t].status \in TurnActive THEN [turn[t] EXCEPT !.status = "interrupted"]
                   ELSE turn[t]
    BY DEF Restart
  <1>2. turn[t] \in Turns
    BY DEF Shape, TypeOK
  <1> QED
    BY <1>1, <1>2 DEF Turns, TurnActive

\* A turn that runs was there, or takes over from one whose items are
\* processed, or was scheduled in an open round.
LEMMA ActiveStep ==
  ASSUME Shape, [Next]_vars, NEW t \in TurnIds, turn'[t].status \in TurnActive
  PROVE  \/ turn'[t] = turn[t]
         \/ \E u \in TurnIds : turn'[t].claims = turn[u].claims /\ inbox' = Processed(u)
         \/ round \notin RoundTerminal /\ round' = round
  <1>0. turn \in [TurnIds -> Turns]
    BY DEF Shape, TypeOK
  <1>1. CASE There(t)
    <2>1. ~ EndTurn(t)
      <3>1. ASSUME EndTurn(t) PROVE FALSE
        <4>1. PICK s \in TurnTerminal : turn' = [turn EXCEPT ![t].status = s]
          BY <3>1 DEF EndTurn, TurnTerminal
        <4>2. turn'[t].status = s
          BY <1>0, <4>1 DEF Turns
        <4> QED
          BY <4>2 DEF TurnTerminal, TurnActive
      <3> QED
        BY <3>1
    <2> QED
      BY <1>1, <2>1, StatusStep, RestartEnds
  <1>2. ASSUME ~ There(t), NEW u \in TurnIds, Retry(u)
        PROVE  turn'[t].claims = turn[u].claims /\ inbox' = Processed(u)
    <2>1. PICK n \in TurnIds :
            turn' = [turn EXCEPT ![n] = [turn[u] EXCEPT !.status = "running", !.attempt = @ + 1]]
      BY <1>2 DEF Retry
    <2>2. n = t
      BY <1>0, <1>2, <2>1 DEF There, TurnActive
    <2>3. turn'[t].claims = turn[u].claims
      <3>1. turn[u] \in Turns
        BY <1>0
      <3> QED
        BY <1>0, <2>1, <2>2, <3>1 DEF Turns
    <2> QED
      BY <1>2, <2>3 DEF Retry
  <1>3. ASSUME NEW g \in Carried, ScheduleStep(g), turn' # turn
        PROVE  round \notin RoundTerminal /\ round' = round
    BY <1>3 DEF ScheduleStep, Started
  <1>4. ASSUME NEW u \in TurnIds, EndTurn(u), ~ There(t) PROVE FALSE
    <2>1. u # t
      BY <1>4 DEF EndTurn, At, Shape, Tails
    <2>2. turn'[t] = turn[t]
      BY <1>0, <1>4, <2>1 DEF EndTurn
    <2> QED
      BY <1>4, <2>2 DEF There, TurnActive
  <1>5. ASSUME NEW u \in TurnIds, TailKinds(u), ~ Retry(u) PROVE turn' = turn
    BY <1>5 DEF TailKinds, PassOn, RecordResult, RouteResult, Arm, Finalize, FinalizeWrite, Settle, tables
  <1>6. CASE \E u \in TurnIds : \/ \E a \in Subs : Assign(u, a)
                                \/ \E b \in BatchIds : WaitCall(u, b)
                                \/ WakeFires(u) \/ WakeMarks(u)
    BY <1>6 DEF Assign, WaitCall, WakeFires, WakeMarks, tables
  <1>7. CASE CreateBatch \/ WaitAnswer \/ OwnerMessage
    BY <1>7 DEF CreateBatch, WaitAnswer, OwnerMessage
  <1>8. CASE Crash \/ (\E a \in Agents : ResumeFails(a)) \/ Minor \/ UNCHANGED vars
    BY <1>8 DEF Crash, ResumeFails, Minor, vars, tables
  <1> QED
    BY <1>1, <1>2, <1>3, <1>4, <1>5, <1>6, <1>7, <1>8, RestartEnds, StepKinds

LEMMA KeepsNothingDropped ==
  ASSUME Shape, NothingDropped, [Next]_vars
  PROVE  NothingDropped'
  <1>0. \A i \in ItemIds : ItemMove(i)
    BY ItemStep
  <1>1. ASSUME NEW i \in ItemIds, inbox'[i].status = "claimed" PROVE inbox'[i].claim # 0
    <2>1. 0 \notin TurnIds
      BY RowsAssumption DEF TurnIds
    <2> QED
      BY <1>0, <1>1, <2>1 DEF ItemMove, FreshItem, NothingDropped
  <1>2. CASE round' \in RoundTerminal /\ round \in RoundTerminal
    <2>1. ASSUME NEW i \in ItemIds, inbox'[i].status = "pending" PROVE inbox'[i].results = {}
      BY <1>0, <1>2, <2>1 DEF ItemMove, SameLetter, FreshItem, WakeItem, NothingDropped
    <2>2. ASSUME NEW i \in ItemIds, NEW t \in TurnIds,
                 turn'[t].status \in TurnActive, inbox'[i].status = "claimed"
          PROVE  inbox'[i].claim # turn'[t].claims
      <3>1. inbox'[i] = inbox[i] /\ inbox[i].status = "claimed"
        BY <1>0, <1>2, <2>2 DEF ItemMove, FreshItem
      <3>2. CASE turn'[t] = turn[t]
        BY <1>2, <2>2, <3>1, <3>2 DEF NothingDropped
      <3>3. ASSUME NEW u \in TurnIds, turn'[t].claims = turn[u].claims, inbox' = Processed(u)
            PROVE  inbox'[i].claim # turn'[t].claims
        <4>1. ASSUME inbox[i].claim = turn[u].claims PROVE FALSE
          <5>1. inbox'[i] = [inbox[i] EXCEPT !.status = "processed"] /\ inbox[i] \in Items
            BY <3>1, <3>3, <4>1 DEF Processed, Shape, TypeOK
          <5> QED
            BY <2>2, <5>1 DEF Items
        <4> QED
          BY <3>1, <3>3, <4>1
      <3> QED
        BY <1>2, <2>2, <3>2, <3>3, ActiveStep
    <2> QED
      BY <1>1, <2>1, <2>2 DEF NothingDropped
  <1>3. CASE round' \in RoundTerminal /\ round \notin RoundTerminal
    <2>1. CASE Restart /\ {i \in ItemIds : inbox'[i].status = "pending"} = {}
      BY <1>1, <2>1, RestartEnds DEF NothingDropped
    <2>2. ASSUME NEW t \in TurnIds, Settle(t), AllQuiet PROVE NothingDropped'
      <3>1. turn' = turn /\ inbox' = inbox
        BY <2>2 DEF Settle
      <3> QED
        BY <1>1, <2>2, <3>1 DEF NothingDropped, AllQuiet, PendingInbox
    <2> QED
      BY <1>3, <2>1, <2>2, RoundStep
  <1>4. CASE round' \notin RoundTerminal
    BY <1>1, <1>4 DEF NothingDropped
  <1> QED
    BY <1>2, <1>3, <1>4

\* Main keeps what it was handed.
LEMMA HandedGrows ==
  ASSUME Shape, NothingDropped, [Next]_vars
  PROVE  \A k \in Handed : k \in Handed'
  <1>1. answered \subseteq answered'
    BY AnsweredStep
  <1>2. ASSUME NEW i \in ItemIds, Kept(i), NEW k \in inbox[i].results
        PROVE  Kept(i)' /\ k \in inbox'[i].results
    BY <1>2, ItemStep DEF ItemMove, SameLetter, FreshItem, Kept, NothingDropped
  <1> QED
    BY <1>1, <1>2 DEF Handed

LEMMA EventsGrow ==
  ASSUME Shape, [Next]_vars, NEW b \in BatchIds
  PROVE  /\ \A k \in DOMAIN events : k \in DOMAIN events' /\ events'[k] = events[k]
         /\ \A k \in Results(b, 0) : k \in Results(b, 0)'
         /\ \A k \in Results(b, 0)' : k \in Results(b, 0) \/ k > Len(events)
  <1>1. /\ DOMAIN events = 1..Len(events) /\ Len(events) \in Nat
        /\ DOMAIN events' = 1..Len(events') /\ Len(events') \in Nat
    BY EventStep, EventDomain, LenProperties DEF Shape, MemoryTypes
  <1>2. Len(events) <= Len(events') /\ \A k \in 1..Len(events) : events'[k] = events[k]
    <2>1. ASSUME NEW t \in TurnIds, Reports(t)
          PROVE  Len(events) <= Len(events') /\ \A k \in 1..Len(events) : events'[k] = events[k]
      BY <1>1, <2>1 DEF Reports
    <2>2. CASE events' = events
      BY <1>1, <2>2
    <2> QED
      BY <2>1, <2>2, EventStep
  <1>3. \A k \in DOMAIN events : k \in DOMAIN events' /\ events'[k] = events[k]
    BY <1>1, <1>2
  <1>4. \A k \in Results(b, 0) : k \in Results(b, 0)'
    BY <1>3 DEF Results
  <1>5. ASSUME NEW k \in Results(b, 0)', ~ (k > Len(events)) PROVE k \in Results(b, 0)
    <2>1. k \in 1..Len(events') /\ events'[k].batch = b /\ k > 0
      BY <1>1 DEF Results
    <2>2. k \in DOMAIN events
      BY <1>1, <1>5, <2>1
    <2> QED
      BY <1>3, <2>1, <2>2 DEF Results
  <1> QED
    BY <1>3, <1>4, <1>5

LEMMA HandedKept ==
  ASSUME Shape, NothingDropped, [Next]_vars, NEW b \in BatchIds, NEW n \in 0..Len(events),
         HandedUpTo(b, n)
  PROVE  HandedUpTo(b, n)'
  <1>1. ASSUME NEW k \in Results(b, 0)', k <= n PROVE k \in Handed'
    <2>1. Len(events) \in Nat
      BY EventDomain DEF Shape, MemoryTypes
    <2>2. k \in Int
      <3>1. DOMAIN events' = 1..Len(events') /\ Len(events') \in Nat
        BY EventStep, LenProperties
      <3> QED
        BY <3>1 DEF Results
    <2>3. k \in Results(b, 0)
      BY <1>1, <2>1, <2>2, EventsGrow
    <2> QED
      BY <1>1, <2>3, HandedGrows DEF HandedUpTo
  <1> QED
    BY <1>1 DEF HandedUpTo
-----------------------------------------------------------------------------
\* Once every member of a batch has reported, none reports again.
LEMMA CompleteKept ==
  ASSUME Shape, [Next]_vars, NEW b \in BatchIds, Stored(b), Complete(b)
  PROVE  Complete(b)' /\ Results(b, 0)' = Results(b, 0)
  <1>0. /\ events \in Seq(Result) /\ DOMAIN events = 1..Len(events) /\ Len(events) \in Nat
        /\ Reported /\ \A k \in DOMAIN events : events[k] \in Result
    BY EventDomain DEF Shape, MemoryTypes
  <1>1. ASSUME NEW a \in Subs, member[b][a].status # "none"
        PROVE  /\ member[b][a].status \notin {"queued", "running"}
               /\ \E k \in DOMAIN events : events[k] = [batch |-> b, child |-> member[b][a].child]
    BY <1>1 DEF Complete, PendingMembers
  <1>2. ASSUME NEW a \in Subs, member[b][a].status # "none"
        PROVE  ~ RecordResult(member[b][a].child)
    <2>1. PICK k \in DOMAIN events : events[k] = [batch |-> b, child |-> member[b][a].child]
      BY <1>1, <1>2
    <2>2. events[k].child = member[b][a].child
      BY <2>1
    <2>3. th[member[b][a].child].pc # "route"
      BY <1>0, <2>2 DEF Reported
    <2> QED
      BY <2>3 DEF RecordResult, At
  <1>3. ASSUME NEW a \in Subs
        PROVE  member'[b][a] = member[b][a]
    <2>1. ~ (CreateBatch /\ b = call.batch)
      BY DEF CreateBatch, Shape, BatchRows
    <2>2. ASSUME RecordResult(member[b][a].child), member[b][a].child \in TurnIds PROVE FALSE
      <3>1. member[b][a].child # 0
        BY <2>2, RowsAssumption DEF TurnIds
      <3>2. member[b][a].status # "none"
        BY <3>1 DEF Shape, MemberRows
      <3> QED
        BY <1>2, <2>2, <3>2
    <2> QED
      BY <1>1, <2>1, <2>2, MemberStep DEF MemberMove
  <1>4. \A k \in DOMAIN events : k \in DOMAIN events' /\ events'[k] = events[k]
    BY EventsGrow
  <1>5. Complete(b)'
    BY <1>1, <1>3, <1>4 DEF Complete, PendingMembers
  <1>6. ASSUME NEW k \in Results(b, 0)', k \notin Results(b, 0) PROVE FALSE
    <2>1. k \in DOMAIN events' /\ k > Len(events) /\ events'[k].batch = b
      BY <1>6, EventsGrow DEF Results
    <2>2. DOMAIN events' = 1..Len(events') /\ Len(events') \in Nat
      BY EventStep, LenProperties
    <2>3. PICK t \in TurnIds : Reports(t)
      BY <1>0, <2>1, EventStep
    <2>4. k = Len(events')
      BY <1>0, <2>1, <2>2, <2>3 DEF Reports
    <2>5. b \in ChildOf(t)
      BY <2>1, <2>3, <2>4 DEF Reports
    <2>6. PICK a \in Subs : member[b][a].child = t
      BY <2>5 DEF ChildOf
    <2>7. member[b][a].status # "none"
      BY <2>6, RowsAssumption DEF Shape, MemberRows, TurnIds
    <2> QED
      BY <1>2, <2>3, <2>6, <2>7 DEF Reports
  <1> QED
    BY <1>5, <1>6, EventsGrow

LEMMA FinishedKept ==
  ASSUME Shape, NothingDropped, [Next]_vars, NEW b \in BatchIds, Stored(b), Finished(b)
  PROVE  Finished(b)'
  BY CompleteKept, HandedGrows DEF Finished

\* The cursors of a wake are honest once its item is in the inbox.
LEMMA WakeHonest ==
  ASSUME Shape, NothingDropped, Cursors, [Next]_vars,
         NEW p \in TurnIds, WakeFires(p), NEW b \in BatchesForParentTurn(p),
         NEW n, n = NextCursor(b, batch[b].delivered), NEW i \in ItemIds,
         KnownWake(i, p) \/ (WakeItem(i, p) /\ inbox'[i].status = "pending")
  PROVE  HandedUpTo(b, n)'
  <1>0. /\ b \in BatchIds /\ batch[b].delivered \in 0..Len(events) /\ events \in Seq(Result)
        /\ Len(events) \in Nat /\ DOMAIN events = 1..Len(events) /\ events' = events
    BY EventDomain DEF BatchesForParentTurn, OpenBatches, Shape, TypeOK, MemoryTypes, CursorsInRange,
                       Batches, Events, WakeFires, TimerRest
  <1>1. n \in 0..Len(events)
    BY <1>0, CursorFacts
  <1>2. CASE KnownWake(i, p)
    <2>1. HandedUpTo(b, n)
      BY <1>0, <1>2 DEF KnownWake, Cursors
    <2> QED
      BY <1>0, <1>1, <2>1, HandedKept
  <1>3. CASE WakeItem(i, p) /\ inbox'[i].status = "pending"
    <2>1. inbox'[i].results \subseteq Handed'
      BY <1>3 DEF Handed, Kept
    <2>2. ASSUME NEW k \in Results(b, 0), k <= n PROVE k \in Handed'
      <3>1. CASE k <= batch[b].delivered
        <4>1. k \in Handed
          BY <1>0, <3>1 DEF Cursors, HandedUpTo
        <4> QED
          BY <4>1, HandedGrows
      <3>2. CASE k > batch[b].delivered
        <4>1. k \in Results(b, batch[b].delivered)
          BY <3>2 DEF Results
        <4> QED
          BY <1>3, <2>1, <4>1 DEF WakeItem
      <3> QED
        BY <1>0, <3>1, <3>2 DEF Results
    <2> QED
      BY <1>0, <2>2 DEF HandedUpTo, Results
  <1> QED
    BY <1>2, <1>3

LEMMA KeepsCursors ==
  ASSUME Shape, NothingDropped, Cursors, Readings, [Next]_vars
  PROVE  Cursors'
  <1>0. /\ events \in Seq(Result) /\ Len(events) \in Nat /\ DOMAIN events = 1..Len(events)
        /\ \A b \in BatchIds : batch[b].delivered \in 0..Len(events)
        /\ \A i \in ItemIds, b \in BatchIds : inbox[i].cursors[b] \in 0..Len(events)
        /\ \A p \in TurnIds, b \in BatchIds : wake[p].cursors[b] \in 0..Len(events)
        /\ wait.after \in 0..Len(events)
        /\ \A i \in ItemIds : inbox[i].batches \subseteq BatchIds
        /\ \A p \in TurnIds : wake[p].batches \subseteq BatchIds
    BY EventDomain DEF Shape, TypeOK, MemoryTypes, CursorsInRange, Batches, Items, WakeStates, Waits, Events
  <1>1. \A p \in TurnIds : BatchesForParentTurn(p) \subseteq BatchIds
    BY DEF BatchesForParentTurn, OpenBatches
  <1>2. ASSUME NEW b \in BatchIds, NEW n, n = batch'[b].delivered
        PROVE  HandedUpTo(b, n)'
    <2>1. CASE n = batch[b].delivered
      <3>1. HandedUpTo(b, n)
        BY <2>1 DEF Cursors
      <3> QED
        BY <1>0, <2>1, <3>1, HandedKept
    <2>2. CASE n = 0
      <3>1. DOMAIN events' = 1..Len(events')
        BY EventStep, LenProperties
      <3> QED
        BY <2>2, <3>1 DEF HandedUpTo, Results
    <2>3. CASE WaitAnswer /\ b = wait.batch /\ n = NextCursor(b, wait.after)
      <3>1. events' = events /\ wait # NoWait /\ answered' = answered \cup Results(b, wait.after)
        BY <2>3 DEF WaitAnswer
      <3>2. ASSUME NEW k \in Results(b, 0) PROVE k \in Handed'
        <4>1. CASE k <= wait.after
          <5>1. k <= batch[b].delivered
            BY <1>0, <2>3, <3>1, <4>1 DEF Readings, Results
          <5> QED
            BY <5>1, HandedGrows DEF Cursors, HandedUpTo
        <4>2. CASE k > wait.after
          BY <3>1, <4>2 DEF Results, Handed
        <4> QED
          BY <1>0, <4>1, <4>2 DEF Results
      <3> QED
        BY <3>1, <3>2 DEF HandedUpTo, Results
    <2>4. ASSUME NEW p \in TurnIds, b \in wake[p].batches, n = wake[p].cursors[b]
          PROVE  HandedUpTo(b, n)'
      <3>1. HandedUpTo(b, n)
        BY <2>4 DEF Cursors
      <3> QED
        BY <1>0, <2>4, <3>1, HandedKept
    <2> QED
      BY <1>2, <2>1, <2>2, <2>3, <2>4, DeliveredStep DEF DeliveredMove
  <1>3. ASSUME NEW i \in ItemIds, inbox'[i].kind = "collaboration_fallback",
               NEW b \in inbox'[i].batches, NEW n, n = inbox'[i].cursors[b]
        PROVE  HandedUpTo(b, n)'
    <2>1. CASE /\ inbox'[i].kind = inbox[i].kind /\ inbox'[i].batches = inbox[i].batches
               /\ inbox'[i].cursors = inbox[i].cursors
      <3>1. HandedUpTo(b, n) /\ b \in BatchIds
        BY <1>0, <1>3, <2>1 DEF Cursors
      <3> QED
        BY <1>0, <1>3, <2>1, <3>1, HandedKept
    <2>2. ASSUME NEW p \in TurnIds, WakeItem(i, p), inbox'[i].status = "pending"
          PROVE  HandedUpTo(b, n)'
      <3>1. b \in BatchesForParentTurn(p) /\ n = NextCursor(b, batch[b].delivered) /\ WakeFires(p)
        BY <1>1, <1>3, <2>2 DEF WakeItem
      <3> QED
        BY <2>2, <3>1, WakeHonest
    <2> QED
      BY <1>3, <2>1, <2>2, ItemStep DEF ItemMove, SameLetter, FreshItem
  <1>4. ASSUME NEW p \in TurnIds, NEW b \in wake'[p].batches, NEW n, n = wake'[p].cursors[b]
        PROVE  HandedUpTo(b, n)'
    <2>1. CASE wake'[p].batches \subseteq wake[p].batches /\ wake'[p].cursors = wake[p].cursors
      <3>1. HandedUpTo(b, n) /\ b \in BatchIds
        BY <1>0, <1>4, <2>1 DEF Cursors
      <3> QED
        BY <1>0, <1>4, <2>1, <3>1, HandedKept
    <2>2. CASE /\ WakeFires(p) /\ wake' # wake /\ wake'[p].batches = BatchesForParentTurn(p)
               /\ \A c \in BatchIds : wake'[p].cursors[c] = IF c \in BatchesForParentTurn(p)
                                                           THEN NextCursor(c, batch[c].delivered) ELSE 0
      <3>1. b \in BatchesForParentTurn(p) /\ n = NextCursor(b, batch[b].delivered)
        BY <1>1, <1>4, <2>2
      <3>2. PICK i \in ItemIds : KnownWake(i, p) \/ (WakeItem(i, p) /\ inbox'[i].status = "pending")
        BY <2>2, WakeItems
      <3> QED
        BY <2>2, <3>1, <3>2, WakeHonest
    <2> QED
      BY <1>4, <2>1, <2>2, WakeStep DEF WakeMove
  <1>5. ASSUME NEW b \in BatchIds PROVE HandedUpTo(b, batch[b].delivered)'
    BY <1>2 DEF HandedUpTo
  <1>6. ASSUME NEW i \in ItemIds, inbox'[i].kind = "collaboration_fallback", NEW b \in inbox'[i].batches
        PROVE  HandedUpTo(b, inbox[i].cursors[b])'
    BY <1>3, <1>6 DEF HandedUpTo
  <1>7. ASSUME NEW p \in TurnIds, NEW b \in wake'[p].batches
        PROVE  HandedUpTo(b, wake[p].cursors[b])'
    BY <1>4, <1>7 DEF HandedUpTo
  <1> QED
    BY <1>5, <1>6, <1>7 DEF Cursors
-----------------------------------------------------------------------------
LEMMA KeepsReadings ==
  ASSUME Shape, NothingDropped, Cursors, Readings, Consumed, [Next]_vars
  PROVE  Readings'
  <1>0. /\ events \in Seq(Result) /\ Len(events) \in 0..MaxTurns /\ MaxTurns \in Nat
        /\ batch \in [BatchIds -> Batches] /\ batch' \in [BatchIds -> Batches]
        /\ th \in [TurnIds -> Goroutines] /\ wait \in Waits
        /\ \A b \in BatchIds : /\ batch[b].delivered \in Nat /\ batch'[b].delivered \in Nat
                               /\ Stored(b) => batch[b].delivered <= batch'[b].delivered
        /\ \A t \in TurnIds : th[t].delivered \in Nat /\ th[t].next \in Nat
        /\ wait.after \in Nat
    BY EventDomain, RowsAssumption, BatchStep
       DEF Shape, TypeOK, MemoryTypes, Batches, Goroutines, Waits, Events, KeptBatch
  <1>1. ASSUME NEW t \in TurnIds, th'[t].pc = "finalize_write"
        PROVE  /\ th'[t].delivered <= batch'[th'[t].b].delivered
               /\ th'[t].complete => /\ Complete(th[t].b)'
                                     /\ \A k \in Results(th[t].b, 0)' : k <= th'[t].next
    <2>1. CASE th'[t] = th[t]
      <3> DEFINE b == th[t].b
      <3>1. b \in BatchIds /\ Stored(b) /\ th[t].delivered <= batch[b].delivered
        BY <1>1, <2>1 DEF Shape, Tails, Readings
      <3>2. th[t].delivered <= batch'[b].delivered
        BY <1>0, <3>1
      <3>3. th[t].complete => Complete(b) /\ \A k \in Results(b, 0) : k <= th[t].next
        BY <1>1, <2>1 DEF Readings
      <3>4. th[t].complete => batch[b].status # "none" /\ \A n \in BatchIds : n = b =>
              Complete(n)' /\ Results(n, 0)' = Results(n, 0)
        BY <3>1, <3>3, CompleteKept DEF Stored
      <3>5. th[t].complete => Complete(th[t].b)' /\ Results(th[t].b, 0)' = Results(b, 0)
        BY <2>1, <3>1, <3>4 DEF Complete, Results
      <3> QED
        BY <2>1, <3>2, <3>3, <3>5
    <2>2. CASE Finalize(t)
      <3>1. PICK b \in th[t].todo :
               th' = IF batch[b].status = "consumed"
                     THEN GoOn(t, th[t].todo \ {b})
                     ELSE [th EXCEPT ![t] = [pc |-> "finalize_write", todo |-> th[t].todo \ {b},
                                             b |-> b, delivered |-> batch[b].delivered,
                                             next |-> NextCursor(b, 0), complete |-> Complete(b)]]
        BY <2>2 DEF Finalize
      <3>2. b \in BatchIds /\ th[t].todo \ {b} \in SUBSET BatchIds
        BY <1>0, <3>1 DEF Goroutines
      <3>3. batch[b].status # "consumed"
        <4>1. MemoryTypes
          BY DEF Shape
        <4>2. GoOn(t, th[t].todo \ {b})[t].pc # "finalize_write"
          BY <3>2, <4>1, GoOnTypes
        <4> QED
          BY <1>1, <3>1, <4>2
      <3>4. th'[t] = [pc |-> "finalize_write", todo |-> th[t].todo \ {b},
                      b |-> b, delivered |-> batch[b].delivered,
                      next |-> NextCursor(b, 0), complete |-> Complete(b)]
        BY <1>0, <3>1, <3>3
      <3>5. th'[t].b = b /\ th'[t].delivered = batch[b].delivered /\ th'[t].next = NextCursor(b, 0)
            /\ th'[t].complete = Complete(b)
        BY <3>4
      <3>6. UNCHANGED <<batch, member, events>>
        BY <2>2 DEF Finalize, tables
      <3>7. \A k \in Results(b, 0) : k <= NextCursor(b, 0)
        BY <1>0, CursorFacts
      <3>8. Complete(th[t].b)' <=> Complete(b)
        BY <3>5, <3>6 DEF Complete
      <3>9. Results(th[t].b, 0)' = Results(b, 0)
        BY <3>5, <3>6 DEF Results
      <3> QED
        BY <1>0, <3>2, <3>5, <3>6, <3>7, <3>8, <3>9
    <2>3. Run.pc = "run"
      BY DEF Run, Idle
    <2> QED
      BY <1>1, <2>1, <2>2, <2>3, ThreadStep DEF ThreadMove, MovesOn
  <1>2. ASSUME wait' # NoWait
        PROVE  /\ wait'.after <= batch'[wait'.batch].delivered
               /\ wait'.status = "consumed" => Finished(wait.batch)'
    <2>1. CASE wait' = wait
      <3> DEFINE b == wait.batch
      <3>1. b \in BatchIds /\ Stored(b) /\ wait.after <= batch[b].delivered
            /\ (wait.status = "consumed" => Finished(b))
        BY <1>2, <2>1 DEF Shape, References, Readings
      <3>2. wait.after <= batch'[b].delivered
        BY <1>0, <3>1
      <3>3. wait.status = "consumed" => \A n \in BatchIds : n = b => Finished(n)'
        BY <3>1, FinishedKept
      <3>4. wait.status = "consumed" => Finished(wait.batch)'
        BY <2>1, <3>1, <3>3 DEF Finished, Complete, Results
      <3> QED
        BY <2>1, <3>2, <3>4
    <2>2. ASSUME NEW b \in BatchIds, Stored(b), UNCHANGED tables, wait'.batch = b,
                 wait'.after \in {0, batch[b].delivered}, wait'.status = batch[b].status
          PROVE  /\ wait'.after <= batch'[wait'.batch].delivered
                 /\ wait'.status = "consumed" => Finished(wait.batch)'
      <3>1. wait'.after <= batch'[b].delivered
        BY <1>0, <2>2 DEF tables
      <3>2. wait'.status = "consumed" => Finished(b)'
        BY <2>2, FinishedKept DEF Consumed
      <3>3. wait'.status = "consumed" => Finished(wait.batch)'
        BY <2>2, <3>2 DEF Finished, Complete, Results
      <3> QED
        BY <2>2, <3>1, <3>3
    <2>3. CASE wait' = NoWait
      BY <1>2, <2>3
    <2> QED
      BY <2>1, <2>2, <2>3, WaitStep DEF WaitMove
  <1>3. NoWait' = NoWait
    BY DEF NoWait
  <1> QED
    BY <1>1, <1>2, <1>3 DEF Readings

\* Who writes "consumed".
ConsumedMove(b) ==
  \/ batch[b].status = "consumed"
  \/ WaitAnswer /\ b = wait.batch /\ wait.status = "consumed"
  \/ \E t \in TurnIds : /\ FinalizeWrite(t) /\ b = th[t].b
                        /\ th[t].complete /\ th[t].delivered >= th[t].next

LEMMA ConsumedStep ==
  ASSUME Shape, [Next]_vars, NEW b \in BatchIds, batch'[b].status = "consumed"
  PROVE  ConsumedMove(b)
  <1>0. batch \in [BatchIds -> Batches]
    BY DEF Shape, TypeOK
  <1>1. CASE batch' = batch
    BY <1>1 DEF ConsumedMove
  <1>2. ASSUME NEW c \in BatchIds, NEW s, batch' = [batch EXCEPT ![c].status = s],
               s = "consumed" => ConsumedMove(c)
        PROVE  ConsumedMove(b)
    <2>1. batch[c] \in Batches
      BY <1>0
    <2>2. CASE b = c
      <3>1. batch'[b].status = s
        BY <1>0, <1>2, <2>1, <2>2 DEF Batches
      <3> QED
        BY <1>2, <2>2, <3>1
    <2>3. CASE b # c
      BY <1>0, <1>2, <2>3 DEF ConsumedMove
    <2> QED
      BY <2>2, <2>3
  <1>3. CASE CreateBatch
    <2> DEFINE r == [status |-> "pending", parent |-> call.turn, delivered |-> 0]
    <2>1. call.batch \in BatchIds /\ batch' = [batch EXCEPT ![call.batch] = r]
      BY <1>3 DEF CreateBatch, Shape, BatchRows
    <2>2. batch'[b] = IF b = call.batch THEN r ELSE batch[b]
      BY <1>0, <2>1
    <2> QED
      BY <2>2 DEF ConsumedMove
  <1>4. CASE WaitAnswer
    <2> DEFINE c == wait.batch
               next == NextCursor(c, wait.after)
               n == IF batch[c].delivered < next THEN next ELSE batch[c].delivered
               s == IF Complete(c) /\ wait.status = "pending" THEN "complete" ELSE wait.status
    <2>1. c \in BatchIds
      BY <1>4 DEF WaitAnswer, Shape, References
    <2>2. batch' = [batch EXCEPT ![c] = [batch[c] EXCEPT !.delivered = n, !.status = s]]
      BY <1>4 DEF WaitAnswer
    <2>3. batch[c] \in Batches
      BY <1>0, <2>1
    <2>4. s = "consumed" => wait.status = "consumed"
      OBVIOUS
    <2> HIDE DEF s, n, c
    <2>5. batch'[c].status = s /\ \A d \in BatchIds : d # c => batch'[d] = batch[d]
      BY <1>0, <2>1, <2>2, <2>3 DEF Batches
    <2> QED
      BY <1>4, <2>4, <2>5 DEF ConsumedMove, c
  <1>5. ASSUME NEW p \in TurnIds, WakeMarks(p) PROVE ConsumedMove(b)
    <2>1. PICK c \in wake[p].batches :
             batch' = [batch EXCEPT
               ![c].delivered = IF @ < wake[p].cursors[c] THEN wake[p].cursors[c] ELSE @,
               ![c].status = "fallback"]
      BY <1>5 DEF WakeMarks
    <2> DEFINE n == IF batch[c].delivered < wake[p].cursors[c] THEN wake[p].cursors[c]
                    ELSE batch[c].delivered
    <2>2. c \in BatchIds
      BY <2>1 DEF Shape, MemoryTypes, WakeStates
    <2>3. batch[c] \in Batches
      BY <1>0, <2>2
    <2>4. batch' = [batch EXCEPT ![c] = [batch[c] EXCEPT !.delivered = n, !.status = "fallback"]]
      BY <2>1
    <2> HIDE DEF n
    <2>5. batch'[c].status = "fallback" /\ \A d \in BatchIds : d # c => batch'[d] = batch[d]
      BY <1>0, <2>2, <2>3, <2>4 DEF Batches
    <2> QED
      BY <2>5 DEF ConsumedMove
  <1>6. ASSUME NEW t \in TurnIds, RecordResult(t) PROVE ConsumedMove(b)
    <2>1. PICK c \in BatchIds : \E s \in {"pending", "complete"} : batch' = [batch EXCEPT ![c].status = s]
      BY <1>6 DEF RecordResult, ChildOf
    <2> QED
      BY <1>2, <2>1
  <1>7. ASSUME NEW t \in TurnIds, FinalizeWrite(t) PROVE ConsumedMove(b)
    <2>1. th[t].b \in BatchIds
      BY <1>7 DEF FinalizeWrite, At, Shape, Tails
    <2>2. CASE th[t].complete /\ th[t].delivered >= th[t].next
      <3>1. ConsumedMove(th[t].b)
        BY <1>7, <2>2 DEF ConsumedMove
      <3>2. batch' = [batch EXCEPT ![th[t].b].status = "consumed"]
        BY <1>7, <2>2 DEF FinalizeWrite
      <3> QED
        BY <1>2, <2>1, <3>1, <3>2
    <2>3. CASE ~ (th[t].complete /\ th[t].delivered >= th[t].next)
      <3>1. batch' = [batch EXCEPT ![th[t].b].status = "fallback"]
        BY <1>7, <2>3 DEF FinalizeWrite
      <3>2. "fallback" = "consumed" => ConsumedMove(th[t].b)
        OBVIOUS
      <3> QED
        BY <1>2, <2>1, <3>1, <3>2
    <2> QED
      BY <2>2, <2>3
  <1>8. ASSUME NEW t \in TurnIds, TailKinds(t) PROVE ConsumedMove(b)
    <2>1. CASE \/ Retry(t) \/ PassOn(t) \/ RouteResult(t) \/ Arm(t) \/ Finalize(t) \/ Settle(t)
      BY <1>1, <2>1 DEF Retry, PassOn, RouteResult, Arm, Finalize, Settle, tables
    <2> QED
      BY <1>6, <1>7, <1>8, <2>1 DEF TailKinds
  <1>9. CASE \E g \in Carried : ScheduleStep(g)
    BY <1>1, <1>9 DEF ScheduleStep
  <1>10. CASE \E t \in TurnIds : \/ \E a \in Subs : Assign(t, a)
                                 \/ \E c \in BatchIds : WaitCall(t, c)
                                 \/ EndTurn(t) \/ WakeFires(t)
    BY <1>1, <1>10 DEF Assign, WaitCall, EndTurn, WakeFires, tables
  <1>11. CASE OwnerMessage \/ Restart
    BY <1>1, <1>11 DEF OwnerMessage, Restart
  <1>12. CASE Crash \/ (\E a \in Agents : ResumeFails(a)) \/ Minor \/ UNCHANGED vars
    BY <1>1, <1>12 DEF Crash, ResumeFails, Minor, vars, tables
  <1> QED
    BY <1>3, <1>4, <1>5, <1>8, <1>9, <1>10, <1>11, <1>12, StepKinds

LEMMA KeepsConsumed ==
  ASSUME Shape, NothingDropped, Cursors, Readings, Consumed, [Next]_vars
  PROVE  Consumed'
  <1> SUFFICES ASSUME NEW b \in BatchIds, batch'[b].status = "consumed" PROVE Finished(b)'
    BY DEF Consumed
  <1>1. CASE batch[b].status = "consumed"
    BY <1>1, FinishedKept DEF Consumed, Stored
  <1>2. CASE WaitAnswer /\ b = wait.batch /\ wait.status = "consumed"
    BY <1>2, FinishedKept DEF WaitAnswer, Readings, Shape, References
  <1>3. ASSUME NEW t \in TurnIds, FinalizeWrite(t), b = th[t].b,
               th[t].complete, th[t].delivered >= th[t].next
        PROVE  Finished(b)'
    <2>1. /\ Complete(b) /\ th[t].delivered <= batch[b].delivered
          /\ \A k \in Results(b, 0) : k <= th[t].next
      BY <1>3 DEF FinalizeWrite, At, Readings
    <2>2. /\ th[t].delivered \in Nat /\ th[t].next \in Nat /\ batch[b].delivered \in Nat
          /\ \A k \in Results(b, 0) : k \in Nat
      BY EventDomain, RowsAssumption
         DEF Shape, TypeOK, MemoryTypes, Goroutines, Batches, Events, Results
    <2>3. \A k \in Results(b, 0) : k <= batch[b].delivered
      BY <1>3, <2>1, <2>2
    <2>4. Finished(b)
      BY <2>1, <2>3 DEF Finished, Cursors, HandedUpTo
    <2>5. Stored(b)
      BY <1>3 DEF FinalizeWrite, At, Shape, Tails
    <2> QED
      BY <2>4, <2>5, FinishedKept
  <1> QED
    BY <1>1, <1>2, <1>3, ConsumedStep DEF ConsumedMove
-----------------------------------------------------------------------------
(* Theorems *)

LEMMA InitBatchInv ==
  ASSUME Init
  PROVE  BatchInv
  <1>0. /\ MaxTurns \in Nat \ {0} /\ TurnIds = 1..MaxTurns /\ 1 \in TurnIds /\ 0 \notin TurnIds
        /\ MaxCrashes \in Nat /\ MaxBatches \in Nat \ {0} /\ BatchIds = 1..MaxBatches
        /\ Events = 0..MaxTurns /\ Main \in Agents
    BY RowsAssumption DEF TurnIds, BatchIds, Events, Agents
  <1> DEFINE first == [NoTurn EXCEPT !.status = "running", !.attempt = 1, !.claims = 1]
             opening == [NoItem EXCEPT !.status = "claimed", !.claim = 1]
  <1>1. /\ first \in Turns /\ first.status = "running" /\ first.generation = 0
        /\ NoTurn \in Turns /\ NoTurn.status = "none"
    <2>1. NoTurn = [agent |-> Main, status |-> "none", attempt |-> 0, generation |-> 0, claims |-> 0]
      BY DEF NoTurn
    <2>2. 0 \in 0..MaxTurns /\ 1 \in 0..MaxTurns /\ 0 \in 0..2 /\ 1 \in 0..2
      BY <1>0
    <2>3. NoTurn \in Turns /\ NoTurn.status = "none" /\ NoTurn.generation = 0
      BY <1>0, <2>1, <2>2 DEF Turns
    <2>4. "running" \in TurnStatus \cup {"none"}
      BY DEF TurnStatus
    <2>5. [NoTurn EXCEPT !.status = "running"] \in Turns
      BY <2>3, <2>4 DEF Turns
    <2>6. [NoTurn EXCEPT !.status = "running", !.attempt = 1] \in Turns
      BY <2>2, <2>5 DEF Turns
    <2>7. first \in Turns
      BY <2>2, <2>6 DEF Turns
    <2>8. first.status = "running" /\ first.generation = NoTurn.generation
      BY <2>3 DEF Turns
    <2> QED
      BY <2>3, <2>7, <2>8
  <1>2. /\ opening \in Items /\ opening.kind = "owner_message" /\ opening.status = "claimed"
        /\ opening.claim = 1 /\ opening.results = {} /\ opening.cursors = NoCursors
        /\ NoItem.kind = "owner_message" /\ NoItem.status = "none" /\ NoItem.cursors = NoCursors
    <2>1. [NoItem EXCEPT !.status = "claimed"] \in Items
      BY NoItemType DEF Items
    <2>2. 1 \in 0..MaxTurns
      BY <1>0
    <2>3. opening \in Items /\ opening.claim = 1 /\ opening.status = "claimed"
      BY <2>1, <2>2 DEF Items
    <2>4. /\ NoItem.kind = "owner_message" /\ NoItem.status = "none" /\ NoItem.cursors = NoCursors
          /\ NoItem.results = {}
      BY DEF NoItem
    <2>5. /\ opening.kind = NoItem.kind /\ opening.results = NoItem.results
          /\ opening.cursors = NoItem.cursors
      BY NoItemType DEF Items
    <2> QED
      BY <2>3, <2>4, <2>5
  <1> HIDE DEF first, opening
  <1>3. /\ turn = [t \in TurnIds |-> IF t = 1 THEN first ELSE NoTurn]
        /\ inbox = [i \in ItemIds |-> IF i = 1 THEN opening ELSE NoItem]
        /\ batch = [b \in BatchIds |-> NoBatch] /\ round = "running"
        /\ member = [b \in BatchIds |-> [a \in Subs |-> NoMember]] /\ events = <<>>
        /\ th = [t \in TurnIds |-> IF t = 1 THEN Run ELSE Idle]
        /\ call = NoCall /\ wait = NoWait /\ timers = {} /\ wake = [t \in TurnIds |-> NoWake]
        /\ merge = FALSE /\ due = {} /\ boot = "up" /\ resume = {} /\ crashes = 0 /\ answered = {}
    BY DEF Init, first, opening
  <1>4. /\ NoBatch \in Batches /\ NoMember \in Members /\ NoBatch.delivered = 0
        /\ NoBatch.status = "none" /\ NoMember.status = "none" /\ NoMember.child = 0
    BY <1>0 DEF NoBatch, NoMember, Batches, Members
  <1>5. /\ Idle \in Goroutines /\ Idle.pc = "idle" /\ Idle.todo = {}
        /\ Run \in Goroutines /\ Run.pc = "run" /\ Run.todo = {}
    <2>1. Idle \in Goroutines
      BY <1>0, RowsAssumption DEF Idle, Goroutines, Labels
    <2>2. Run \in Goroutines
      BY <2>1 DEF Run, Goroutines, Labels
    <2> QED
      BY <2>1, <2>2 DEF Run, Idle
  <1>6. /\ NoWake \in WakeStates /\ NoWake.batches = {} /\ NoWake.cursors = NoCursors
        /\ NoCall \in Calls /\ NoCall.turn = 0 /\ NoWait \in Waits /\ NoWait.after = 0
        /\ \A b \in BatchIds : NoCursors[b] = 0
    BY <1>0 DEF NoWake, NoCursors, WakeStates, NoCall, Calls, NoWait, Waits
  <1>7. Len(events) = 0 /\ DOMAIN events = {} /\ events \in Seq(Result)
    BY <1>3
  <1>8. TypeOK
    <2>1. round \in RoundStatus /\ 0 <= MaxTurns /\ 0 \in 0..MaxCrashes
      BY <1>0, <1>3 DEF RoundStatus, RoundOpen
    <2> QED
      BY <1>1, <1>2, <1>3, <1>4, <1>7, <2>1, NoItemType DEF TypeOK
  <1>9. MemoryTypes
    BY <1>3, <1>5, <1>6, <1>7 DEF MemoryTypes
  <1>10. TurnRows
    BY <1>0, <1>1, <1>3 DEF TurnRows, There
  <1>11. Tails
    BY <1>0, <1>1, <1>3, <1>5 DEF Tails, There, Up, TurnActive
  <1>12. Stopped /\ BatchRows /\ MemberRows
    BY <1>3, <1>4, <1>6 DEF Stopped, Up, BatchRows, MemberRows, Stored
  <1>13. References /\ CursorsInRange /\ Reported
    BY <1>2, <1>3, <1>4, <1>6, <1>7 DEF References, CursorsInRange, Reported
  <1>14. NothingDropped
    BY <1>2, <1>3 DEF NothingDropped, RoundTerminal
  <1>15. \A b \in BatchIds : Results(b, 0) = {}
    BY <1>7 DEF Results
  <1>16. Cursors
    BY <1>2, <1>3, <1>6, <1>15 DEF Cursors, HandedUpTo
  <1>17. Readings /\ Consumed
    BY <1>3, <1>4, <1>5 DEF Readings, Consumed
  <1> QED
    BY <1>8, <1>9, <1>10, <1>11, <1>12, <1>13, <1>14, <1>16, <1>17 DEF BatchInv, Shape

LEMMA KeepsBatchInv ==
  ASSUME BatchInv, [Next]_vars
  PROVE  BatchInv'
  BY KeepsShape, KeepsNothingDropped, KeepsCursors, KeepsReadings, KeepsConsumed DEF BatchInv

\* The inductive invariant of the batches: the shape of the rows and of the
\* goroutines, the cursors wherever they are held, and what was read of a
\* batch before it is written.
THEOREM BatchesInvariant == Spec => []BatchInv
  <1>1. Init => BatchInv
    BY InitBatchInv
  <1>2. BatchInv /\ [Next]_vars => BatchInv'
    BY KeepsBatchInv
  <1> QED
    BY <1>1, <1>2, PTL DEF Spec

\* Every variable keeps its type; the events of a round are no more than its
\* turns, since a turn reports once.
THEOREM BatchesTyped == Spec => []TypeOK
  <1>1. BatchInv => TypeOK
    BY DEF BatchInv, Shape
  <1> QED
    BY <1>1, BatchesInvariant, PTL

\* The cursor of a batch never passes a result that Main was not given
\* (MarkCollaborationDelivered against RecordCollaborationResult).
THEOREM CursorsHonest == Spec => []CursorHonest
  <1>1. ASSUME BatchInv PROVE CursorHonest
    <2>1. ASSUME NEW b \in BatchIds, NEW k \in DOMAIN events,
                 events[k].batch = b, k <= batch[b].delivered
          PROVE  k \in Handed
      <3>1. k > 0
        BY <1>1, EventDomain DEF BatchInv, Shape, MemoryTypes
      <3>2. k \in Results(b, 0)
        BY <2>1, <3>1 DEF Results
      <3> QED
        BY <1>1, <2>1, <3>2 DEF BatchInv, Cursors, HandedUpTo
    <2> QED
      BY <2>1 DEF CursorHonest
  <1> QED
    BY <1>1, BatchesInvariant, PTL

\* A consumed batch is one that every member has reported to, and Main has
\* every report (finalizeMainCollaboration against late results).
THEOREM ConsumedHanded == Spec => []ConsumedIsHanded
  <1>1. BatchInv => ConsumedIsHanded
    BY DEF BatchInv, Consumed, Finished, ConsumedIsHanded
  <1> QED
    BY <1>1, BatchesInvariant, PTL

\* The round completes when all its batches are finished and Main knows their
\* results (settleRound against the batches).
THEOREM CompletedRounds == Spec => CompletedKnowsAll
  <1> DEFINE Knows == round # "completed" /\ round' = "completed" =>
                        \A b \in BatchIds : batch[b].status # "none" =>
                          Complete(b) /\ Results(b, 0) \subseteq Handed
  <1>1. ASSUME BatchInv, [Next]_vars PROVE Knows
    <2>1. SUFFICES ASSUME round # "completed", round' = "completed",
                          NEW b \in BatchIds, batch[b].status # "none"
                   PROVE  Complete(b) /\ Results(b, 0) \subseteq Handed
      OBVIOUS
    <2>2. OpenBatches = {}
      BY <1>1, <2>1, RoundStep DEF BatchInv
    <2>3. batch[b].status = "consumed"
      BY <2>1, <2>2 DEF OpenBatches
    <2> QED
      BY <1>1, <2>3 DEF BatchInv, Consumed, Finished
  <1>2. BatchInv /\ [Next]_vars => [Knows]_vars
    BY <1>1
  <1> QED
    BY <1>2, BatchesInvariant, PTL DEF Spec, CompletedKnowsAll
=============================================================================
