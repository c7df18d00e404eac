--------------------------- MODULE TaskProperties ---------------------------
(***************************************************************************)
(* What the runtime of a task promises (TaskRuntime), and what the         *)
(* repository says of it that the code does not keep.                      *)
(***************************************************************************)
EXTENDS TaskRuntime

(* Rounds *)

\* Two open rounds would share the messages of the user between them:
\* enqueueUserMessage opens one only when no other is open.
OneOpenRound == \A r, s \in OpenRounds : r = s

\* A closed round keeps its verdict, although settleRound and InterruptRound
\* close rounds without a common lock: both compare and swap.
RoundClosedOnce ==
  [][\A r \in RoundIds : round[r] \in RoundTerminal => round'[r] = round[r]]_vars

\* settleRound calls a round completed only if Main answered in it, although
\* turns start, fail and are retried between its reads and its write.
CompletedRoundHasReply ==
  \A r \in RoundIds : round[r] = "completed" =>
    \E t \in TurnsOf(r) : turn[t].agent = Main /\ turn[t].status = "succeeded"

\* Only ReopenTask takes a task out of completed; the late writes of a
\* settleRound or of an InterruptRound that read it before do not.
CompletionStands ==
  [][task = "completed" /\ task' # "completed" =>
       \E r \in Requests : At(r, "reopen")]_vars
-----------------------------------------------------------------------------
(* Turns *)

\* A batch of the inbox is run at most twice, once per attempt: no crash, no
\* interrupt and no second scheduler makes retryTurn run a third attempt.
RetryOnce ==
  \A t, u \in TurnIds :
    /\ turn[t].status # "none" /\ turn[u].status # "none"
    /\ turn[t].batch = turn[u].batch /\ turn[t].attempt = turn[u].attempt
    => t = u

\* Main never gets the outcome of an attempt that afterTurnTerminal retries.
OnlyLastAttemptRouted ==
  \A i \in ItemIds, t, u \in TurnIds :
    /\ inbox[i].status # "none" /\ inbox[i].source = t
    /\ turn[u].status # "none" /\ turn[u].batch = turn[t].batch
    => turn[u].attempt <= turn[t].attempt

\* Nothing is running or about to run.
AtRest == up /\ merge = 0 /\ \A x \in Threads : At(x, "idle")

\* When all is quiet the outcome of every sub-agent is in Main's inbox: no
\* order of tails, merge timer and schedulers forgets to route one.
OutcomesRouted == AtRest => \A r \in RoundIds : FannedIn(r)
-----------------------------------------------------------------------------
(* The inbox *)

\* Thread x will call scheduleAgent(a), or will once it has finished its turn.
WillSchedule(x, a) ==
  \/ th[x].pc \in {"enqueue", "schedule", "claim"} /\ th[x].agent = a
  \/ /\ x \in TurnIds /\ turn[x].agent = a
     /\ th[x].pc \in {"run", "processed", "sweep", "retry", "route"}
  \/ a = Main /\ \/ th[x].pc = "fan_in"
                 \/ th[x].pc \in {"schedule", "claim"} /\ th[x].then = "fan_in"
  \/ x = Boot /\ a \in resume

\* Item i stood behind one that scheduleAgent cancelled with its closed round.
LeftBehind(i) == \E j \in ItemIds : /\ j < i /\ inbox[j].agent = inbox[i].agent
                                   /\ inbox[j].round # inbox[i].round
                                   /\ inbox[j].status = "cancelled"

\* A pending item always has somebody who will schedule its agent, although
\* checking for an active turn and claiming are far apart in scheduleAgent, and
\* the end of a turn is the last to look.  The one gap is the call that finds
\* the items of a closed round first: it cancels them and returns.
PendingHasWaker ==
  up /\ ~ closing =>
    \A i \in PendingInbox :
      \/ \E x \in Threads : WillSchedule(x, inbox[i].agent)
      \/ inbox[i].agent = Main /\ merge # 0
      \/ LeftBehind(i)

\* A claimed item belongs to a batch whose turn still runs, or whose goroutine
\* has yet to mark the batch processed; an end of the process or the interrupt
\* of the turn may cut the goroutine off between the two.
ClaimedIsHeld ==
  crashes = 0 /\ ~ closing =>
    \A i \in ItemIds : inbox[i].status = "claimed" =>
      \E t \in TurnIds : /\ turn[t].batch = inbox[i].batch
                         /\ th[t].pc \in {"run", "processed"} \/ t \in cancelled

\* What an agent answered is not given to it again: the items of a batch that
\* succeeded, and the ones such a turn took while it ran, never go back to
\* pending, whatever crashes.
NoReplayAfterSuccess ==
  [][\A i \in ItemIds :
       (/\ inbox[i].status \in ItemStatus \ {"pending"}
        /\ \E t \in TurnIds : /\ turn[t].status = "succeeded"
                              /\ t = inbox[i].turn \/ turn[t].batch = inbox[i].batch
        /\ inbox[i].status # "claimed_in_turn")
       => inbox'[i].status # "pending"]_vars

\* A message that reached the model inside a turn is not delivered again,
\* unless the service restarts: acknowledgements, roll-backs and the sweep of
\* the turn race for it.
DeliveredOnce ==
  [][up => \A i \in ItemIds :
             inbox[i].status \in {"delivered_in_turn", "processed"}
             => inbox'[i].status \in {"delivered_in_turn", "processed"}]_vars
-----------------------------------------------------------------------------
(* The inbox as its writers see it *)

\* The attempts of a batch: one turn, or two.
Attempts(b) == {t \in TurnIds : turn[t].status # "none" /\ turn[t].batch = b}

\* Where Mailbox has an item.
PlaceOf(status) == CASE status = "pending"           -> "waiting"
                     [] status = "claimed"           -> "handed"
                     [] status = "claimed_in_turn"   -> "offered"
                     [] status = "delivered_in_turn" -> "read"
                     [] status = "processed"         -> "done"
                     [] status = "cancelled"         -> "dropped"
                     [] OTHER                        -> status

\* The batch of an item, of which a live call keeps the turn only.
BatchOf(i) == CASE inbox[i].turn # 0                       -> turn[inbox[i].turn].batch
                [] inbox[i].turn = 0 /\ inbox[i].batch # 0 -> inbox[i].batch
                [] OTHER                                   -> NoOne

\* What becomes of a batch, seen from its attempts.
FateOf(b) ==
  LET states == {turn[t].status : t \in Attempts(b)}
  IN  CASE states = {}                    -> "none"
        [] states \cap TurnActive # {}    -> "open"
        [] states = {"failed"}            -> "failed"
        [] "succeeded" \in states /\ states \cap TurnActive = {} -> "answered"
        [] OTHER                          -> "cut"

Addressees == [i \in ItemIds |-> IF inbox[i].status = "none" THEN NoOne ELSE inbox[i].agent]
Places     == [i \in ItemIds |-> PlaceOf(inbox[i].status)]
BatchesOf  == [i \in ItemIds |-> BatchOf(i)]
Readers    == [b \in TurnIds |-> IF Attempts(b) = {} THEN NoOne ELSE turn[b].agent]
Fates      == [b \in TurnIds |-> FateOf(b)]
Retried    == {b \in TurnIds : \E t \in Attempts(b) : turn[t].attempt = 2}

Inbox == INSTANCE Mailbox WITH
  Messages <- ItemIds, Batches <- TurnIds, None <- NoOne,
  to <- Addressees, place <- Places, batch <- BatchesOf,
  reader <- Readers, fate <- Fates, again <- Retried

\* The runtime with its schedulers, live calls, retries, interrupts and restarts
\* does what Mailbox says: an agent is given its own messages only, a batch is
\* answered or tried again, once, and nothing it was given waits again unless a
\* restart cut it off, or its agent gave it back.
ImplementsMailbox == Inbox!Spec
-----------------------------------------------------------------------------
(* Progress, under FairSpec *)

\* A pending item is claimed, or dropped, in the end: no agent sleeps on its
\* inbox, but for what PendingHasWaker leaves behind.
InboxDrains ==
  \A i \in ItemIds :
    inbox[i].status = "pending" ~> inbox[i].status # "pending" \/ LeftBehind(i)

\* Every round is closed in the end, unless an item is left behind.
RoundsClose ==
  \A r \in RoundIds :
    round[r] = "running" ~> \/ round[r] \in RoundTerminal
                            \/ \E i \in PendingInbox : LeftBehind(i)
-----------------------------------------------------------------------------
(* What the repository says and the code does not keep *)

\* docs/core-design.md:302: a turn that is interrupted before it runs reaches
\* a final status.
InterruptEndsTurn ==
  \A t \in TurnIds : t \in cancelled ~> turn[t].status \in TurnTerminal
=============================================================================
