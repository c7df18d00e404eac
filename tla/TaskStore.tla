----------------------------- MODULE TaskStore -----------------------------
(***************************************************************************)
(* The tables one Task owns in the SQLite database (internal/store): its   *)
(* status, its rounds, its turns and the inbox of its agents.  Every       *)
(* operator below is one SQL statement or one transaction; the database    *)
(* has a single connection (store.go), so each of them is atomic.  The     *)
(* modules that extend this one add the goroutines that run them.          *)
(*                                                                         *)
(* A row is a record whose status is "none" until it is inserted; its key  *)
(* is its sequence number, so "ORDER BY sequence" is the order of Nat.     *)
(***************************************************************************)
EXTENDS TaskStates, Naturals, FiniteSets

CONSTANTS Subs,         \* the sub-agents of the task
          MaxMessages,  \* bound on the messages of users
          MaxTurns,     \* bounds on the rows that can be inserted
          MaxItems

\* A round is opened by a message, so there is always room for it.
MaxRounds == MaxMessages

Main   == "main"
Agents == {Main} \cup Subs

RoundIds == 1..MaxRounds
TurnIds  == 1..MaxTurns
ItemIds  == 1..MaxItems

ASSUME BoundsAssumption == /\ MaxMessages \in Nat \ {0}
                           /\ MaxTurns \in Nat \ {0}
                           /\ MaxItems \in Nat \ {0}
ASSUME SubsAssumption == Main \notin Subs

\* maxTurnAttempts: the first run and one automatic retry.
MaxTurnAttempts == 2

VARIABLES task,    \* tasks.status
          round,   \* task_rounds: status
          turn,    \* turns
          inbox    \* agent_inbox

storeVars == <<task, round, turn, inbox>>

ItemStatus == {"pending", "claimed", "claimed_in_turn", "delivered_in_turn",
               "processed", "cancelled"}

\* batch is turns.inbox_batch_id, named by the first attempt that claimed the
\* batch; retryable says that waiting_reason is one that Main may retry.
Turns == [agent: Agents, round: 0..MaxRounds, status: TurnStatus \cup {"none"},
          attempt: 0..MaxTurnAttempts, generation: 0..MaxTurns,
          batch: 0..MaxTurns, retryable: BOOLEAN]

\* batch is batch_id, turn is delivered_turn_id and source is source_turn_id;
\* 0 is the empty string.
Items == [agent: Agents, round: 0..MaxRounds,
          kind: {"owner_message", "agent_result"},
          status: ItemStatus \cup {"none"},
          batch: 0..MaxTurns, turn: 0..MaxTurns, source: 0..MaxTurns]

NoTurn == [agent |-> Main, round |-> 0, status |-> "none", attempt |-> 0,
           generation |-> 0, batch |-> 0, retryable |-> FALSE]
NoItem == [agent |-> Main, round |-> 0, kind |-> "owner_message",
           status |-> "none", batch |-> 0, turn |-> 0, source |-> 0]

StoreInit == /\ task  = "draft"
             /\ round = [r \in RoundIds |-> "none"]
             /\ turn  = [t \in TurnIds |-> NoTurn]
             /\ inbox = [i \in ItemIds |-> NoItem]

StoreTypeOK == /\ task  \in TaskStatus
               /\ round \in [RoundIds -> RoundStatus \cup {"none"}]
               /\ turn  \in [TurnIds -> Turns]
               /\ inbox \in [ItemIds -> Items]
-----------------------------------------------------------------------------
(* Queries *)

First(S, x) == x \in S /\ \A y \in S : x <= y
Last(S, x)  == x \in S /\ \A y \in S : y <= x

OpenRounds  == {r \in RoundIds : round[r] \in RoundOpen}
FreeRounds  == {r \in RoundIds : round[r] = "none"}
FreeTurns   == {t \in TurnIds  : turn[t].status = "none"}
FreeItems   == {i \in ItemIds  : inbox[i].status = "none"}

TurnsOf(r)          == {t \in TurnIds : turn[t].status # "none" /\ turn[t].round = r}
ActiveTurns         == {t \in TurnIds : turn[t].status \in TurnActive}
ActiveTurnsOf(a)    == {t \in ActiveTurns : turn[t].agent = a}
PendingInbox        == {i \in ItemIds : inbox[i].status = "pending"}
PendingAgentInbox(a) == {i \in PendingInbox : inbox[i].agent = a}

\* latestTurnsByAgent, for one agent: the highest generation, and in it the
\* highest attempt.
LatestTurn(a, r, t) ==
  LET mine == {u \in TurnsOf(r) : turn[u].agent = a}
  IN  /\ t \in mine
      /\ \A u \in mine : \/ turn[u].generation < turn[t].generation
                         \/ /\ turn[u].generation = turn[t].generation
                            /\ turn[u].attempt <= turn[t].attempt

\* The generation scheduleAgent gives to the next turn of agent a: one above
\* that of its latest turn.
NextGeneration(a, g) ==
  LET mine == {u \in TurnIds : turn[u].status # "none" /\ turn[u].agent = a}
  IN  \/ mine = {} /\ g = 0
      \/ \E u \in mine : Last(mine, u) /\ g = turn[u].generation + 1

\* SubAgentFanInState: no sub-agent's latest turn of round r is active, and
\* the outcome of each one is in Main's inbox.
FannedIn(r) ==
  \A a \in Subs : \A t \in TurnIds :
    Last({u \in TurnsOf(r) : turn[u].agent = a}, t) =>
      /\ turn[t].status \in TurnTerminal
      /\ \E i \in ItemIds : /\ inbox[i].status # "none"
                            /\ inbox[i].source = t
                            /\ inbox[i].agent = Main
-----------------------------------------------------------------------------
(* Statements and transactions, as the new value of the table they write *)

\* UpdateTurn: the status of turn t, compare-and-swapped.
TurnUpdated(t, to) == [turn EXCEPT ![t].status = to]

\* UpdateTaskStatus: refuses a stale "from" and an illegal transition.
TaskCanMove(from, to) == task = from /\ TaskMoves(from, to)

\* MarkInboxBatchProcessed
BatchProcessed(b) ==
  [i \in ItemIds |-> IF inbox[i].batch = b /\ inbox[i].status = "claimed"
                     THEN [inbox[i] EXCEPT !.status = "processed"]
                     ELSE inbox[i]]

\* The columns that go back to their defaults when an item is given back.
Requeued(item) == [item EXCEPT !.status = "pending", !.batch = 0, !.turn = 0]

\* Mutant: the requeue takes the delivered messages too.
LiveInboxSweptAll(t) ==
  [i \in ItemIds |->
     IF inbox[i].turn = t /\ inbox[i].status \in {"claimed_in_turn", "delivered_in_turn"}
     THEN Requeued(inbox[i]) ELSE inbox[i]]

\* RequeueClaimedInboxForTurn, then MarkLiveInboxProcessedForTurn.
LiveInboxSwept(t) ==
  [i \in ItemIds |->
     CASE inbox[i].turn = t /\ inbox[i].status = "claimed_in_turn"
            -> Requeued(inbox[i])
       [] inbox[i].turn = t /\ inbox[i].status = "delivered_in_turn"
            -> [inbox[i] EXCEPT !.status = "processed"]
       [] OTHER -> inbox[i]]

\* CancelPendingInboxForRound
PendingCancelled(r) ==
  [i \in ItemIds |-> IF inbox[i].round = r /\ inbox[i].status \in {"pending", "claimed"}
                     THEN [inbox[i] EXCEPT !.status = "cancelled"]
                     ELSE inbox[i]]

\* Mutant: the message joins the round of a turn that runs, or opens one.
EnqueueUserMessageByTurn(a) ==
  \E i \in ItemIds, r \in RoundIds :
    /\ First(FreeItems, i)
    /\ IF ActiveTurns # {}
       THEN Last(OpenRounds, r) /\ UNCHANGED round
       ELSE First(FreeRounds, r) /\ round' = [round EXCEPT ![r] = "running"]
    /\ inbox' = [inbox EXCEPT ![i] = [NoItem EXCEPT !.agent = a, !.round = r,
                                                    !.status = "pending"]]

\* enqueueUserMessage: the message joins the latest open round, or opens one.
EnqueueUserMessage(a) ==
  \E i \in ItemIds, r \in RoundIds :
    /\ First(FreeItems, i)
    /\ IF OpenRounds # {}
       THEN Last(OpenRounds, r) /\ UNCHANGED round
       ELSE First(FreeRounds, r) /\ round' = [round EXCEPT ![r] = "running"]
    /\ inbox' = [inbox EXCEPT ![i] = [NoItem EXCEPT !.agent = a, !.round = r,
                                                    !.status = "pending"]]

\* Mutant: one outcome per round instead of one per turn.
CanRouteOncePerRound(t) ==
  /\ FreeItems # {}
  /\ ~ \E i \in ItemIds : inbox[i].source # 0 /\ inbox[i].round = turn[t].round

\* EnqueueAgentRoute of the outcome of turn t; OR IGNORE drops a second one.
CanRoute(t) == /\ FreeItems # {}
               /\ ~ \E i \in ItemIds : /\ inbox[i].status # "none"
                                       /\ inbox[i].agent = Main
                                       /\ inbox[i].source = t
EnqueueAgentRoute(t) ==
  \E i \in ItemIds :
    /\ First(FreeItems, i)
    /\ inbox' = [inbox EXCEPT ![i] = [NoItem EXCEPT !.round = turn[t].round,
                                                    !.kind = "agent_result",
                                                    !.status = "pending",
                                                    !.source = t]]

\* ClaimInboxAndCreateTurn of the items of agent a, into turn t of round r.
CanClaim(a, items) == /\ ActiveTurnsOf(a) = {}
                      /\ \A i \in items : inbox[i].status = "pending"
                      /\ FreeTurns # {}
ClaimInboxAndCreateTurn(a, r, items, t) ==
  /\ First(FreeTurns, t)
  /\ \E g \in 0..MaxTurns :
       /\ NextGeneration(a, g)
       /\ turn' = [turn EXCEPT ![t] = [agent |-> a, round |-> r, status |-> "queued",
                                       attempt |-> 1, generation |-> g, batch |-> t,
                                       retryable |-> FALSE]]
  /\ inbox' = [i \in ItemIds |->
                 IF i \in items
                 THEN [inbox[i] EXCEPT !.status = "claimed", !.batch = t]
                 ELSE inbox[i]]

\* CreateAgentTurn of the retry of turn t: the unique index refuses a second
\* active turn of the agent in the same round.
CanRetry(t) == /\ FreeTurns # {}
               /\ \A u \in ActiveTurnsOf(turn[t].agent) : turn[u].round # turn[t].round
\* Mutant: the retry forgets to count itself.
CreateRetryUncounted(t, n) ==
  /\ First(FreeTurns, n)
  /\ turn' = [turn EXCEPT ![n] = [turn[t] EXCEPT !.status = "queued", !.retryable = FALSE]]

CreateRetry(t, n) ==
  /\ First(FreeTurns, n)
  /\ turn' = [turn EXCEPT ![n] = [turn[t] EXCEPT !.status = "queued", !.retryable = FALSE,
                                                 !.attempt = turn[t].attempt + 1]]

\* The pending owner messages an agent may take into its running turn t.
LiveInbox(t) == {i \in PendingAgentInbox(turn[t].agent) :
                   inbox[i].round = turn[t].round /\ inbox[i].kind = "owner_message"}

\* ClaimOwnerInboxForLiveInjection ("claimed_in_turn") and, above a cursor,
\* ClaimOwnerInboxForTurn ("delivered_in_turn").
LiveClaimed(t, after, status) ==
  [i \in ItemIds |-> IF i \in LiveInbox(t) /\ i > after
                     THEN [inbox[i] EXCEPT !.status = status, !.turn = t]
                     ELSE inbox[i]]

\* AckLiveInboxForTurn: every named item must be a delivery of turn t, and in
\* a state the outcome accepts; an item already there is left as it is.
AckAccepts(t, items, delivered) ==
  \A i \in items :
    /\ inbox[i].turn = t
    /\ inbox[i].status \in {"claimed_in_turn",
                            IF delivered THEN "delivered_in_turn" ELSE "pending"}
AckLiveInbox(items, delivered) ==
  [i \in ItemIds |->
     IF i \in items /\ inbox[i].status = "claimed_in_turn"
     THEN IF delivered THEN [inbox[i] EXCEPT !.status = "delivered_in_turn"]
                       ELSE Requeued(inbox[i])
     ELSE inbox[i]]

\* Mutant: every live item is given back, whatever its turn.
RecoverInterruptedAllItems ==
  /\ turn'  = [t \in TurnIds |-> IF t \in ActiveTurns
                                 THEN [turn[t] EXCEPT !.status = "interrupted"]
                                 ELSE turn[t]]
  /\ inbox' = [i \in ItemIds |->
                 IF inbox[i].status \in {"claimed", "claimed_in_turn", "delivered_in_turn"}
                 THEN Requeued(inbox[i]) ELSE inbox[i]]
  /\ UNCHANGED <<task, round>>

\* RecoverInterrupted, one transaction: the turns the restart interrupted,
\* then the items they held, then the rounds left with nothing pending, then
\* the task.
RecoverInterrupted ==
  LET lost    == ActiveTurns
      batches == {turn[t].batch : t \in lost}
      items   == [i \in ItemIds |->
                    IF \/ inbox[i].status = "claimed" /\ inbox[i].batch \in batches
                       \/ /\ inbox[i].status \in {"claimed_in_turn", "delivered_in_turn"}
                          /\ inbox[i].turn \in lost
                    THEN Requeued(inbox[i])
                    ELSE inbox[i]]
      pending(r) == \E i \in ItemIds : items[i].status = "pending" /\ items[i].round = r
  IN  /\ turn'  = [t \in TurnIds |-> IF t \in lost
                                     THEN [turn[t] EXCEPT !.status = "interrupted"]
                                     ELSE turn[t]]
      /\ inbox' = items
      /\ round' = [r \in RoundIds |-> IF round[r] \in RoundOpen /\ ~ pending(r)
                                      THEN "interrupted" ELSE round[r]]
      /\ task'  = IF /\ task \in {"active", "preparing"}
                     /\ lost # {}
                     /\ \A i \in ItemIds : items[i].status # "pending"
                  THEN "waiting_user" ELSE task
=============================================================================
