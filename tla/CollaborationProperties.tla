----------------------- MODULE CollaborationProperties -----------------------
(***************************************************************************)
(* What the batches of a task promise to Main (Collaboration).             *)
(***************************************************************************)
EXTENDS Collaboration

Events == 0..MaxTurns

Turns   == [agent: Agents, status: TurnStatus \cup {"none"}, attempt: 0..2,
            generation: 0..MaxTurns, claims: 0..MaxTurns]
Items   == [to: Agents,
            kind: {"owner_message", "assignment", "agent_result", "collaboration_fallback"},
            status: {"none", "pending", "claimed", "processed", "cancelled"},
            claim: 0..MaxTurns, from: 0..MaxTurns, batches: SUBSET BatchIds,
            cursors: [BatchIds -> Events], results: SUBSET Events]
Batches == [status: {"none", "pending", "complete", "fallback", "consumed"},
            parent: 0..MaxTurns, delivered: Events]
Members == [status: TurnTerminal \cup {"none", "queued", "running"}, child: 0..MaxTurns]

TypeOK == /\ round \in RoundStatus
          /\ turn \in [TurnIds -> Turns]
          /\ inbox \in [ItemIds -> Items]
          /\ batch \in [BatchIds -> Batches]
          /\ member \in [BatchIds -> [Subs -> Members]]
          /\ Len(events) <= MaxTurns
          /\ \A k \in DOMAIN events : events[k] \in [batch: BatchIds, child: TurnIds]
          /\ timers \subseteq TurnIds /\ due \subseteq Agents /\ resume \subseteq Agents
          /\ merge \in BOOLEAN /\ crashes \in 0..MaxCrashes
          /\ boot \in {"off", "agents", "up", "failed"}
          /\ answered \subseteq DOMAIN events
-----------------------------------------------------------------------------
\* A row of the inbox that was given to its agent, or will be: it was not
\* cancelled before a turn took it.
Kept(i) == inbox[i].status # "none" /\ (inbox[i].status = "cancelled" => inbox[i].claim # 0)

\* The results that a wake in Main's inbox, or an answer to its poll, carries.
Handed == answered \cup UNION {inbox[i].results : i \in {j \in ItemIds : Kept(j)}}

\* The cursor of a batch never passes a result that Main was not given:
\* members report while a wake is written, marked, lost and written again.
CursorHonest ==
  \A b \in BatchIds, k \in DOMAIN events :
    events[k].batch = b /\ k <= batch[b].delivered => k \in Handed

\* Only a batch whose members have all reported is done with, and Main has
\* every report: the ends of Main's turns, the polls and the wake timers race
\* to close it.
ConsumedIsHanded ==
  \A b \in BatchIds : batch[b].status = "consumed" =>
    /\ Complete(b)
    /\ Results(b, 0) \subseteq Handed

\* Main's last reply, the one that completes the round, knows every report of
\* the round's batches.
CompletedKnowsAll ==
  [][round # "completed" /\ round' = "completed" =>
       \A b \in BatchIds : batch[b].status # "none" =>
         Complete(b) /\ Results(b, 0) \subseteq Handed]_vars

\* A whole turn of Main ran between two statements of another goroutine: of a
\* finalizeMainCollaboration that is about to write "fallback" over what the
\* turn consumed, or of a wake whose cursor the end of the turn does not see.
Overtaken == \E t \in TurnIds :
  /\ At(t, "finalize_write")
  /\ \/ batch[th[t].b].status = "consumed"
     \/ \E p \in TurnIds : th[t].b \in wake[p].batches

\* No crash, no message into the round, no second attempt, no batch of a turn
\* that a batch woke, no call that died half-way, nobody overtaken.
Undisturbed ==
  /\ crashes = 0 /\ Cardinality(Messages) = 1
  /\ \A t \in TurnIds : turn[t].attempt < 2
  /\ \A b, c \in BatchIds : batch[b].status # "none" /\ batch[c].status # "none"
                             => batch[b].parent = batch[c].parent
  /\ ~ Overtaken
  /\ \A i \in ItemIds : inbox[i].kind = "assignment" /\ inbox[i].status = "pending" =>
       \A b \in inbox[i].batches : batch[b].status # "none" \/ call.batch = b

\* A round that nothing disturbs is closed in the end.
RoundCloses == []Undisturbed => <>(round \in RoundTerminal)
-----------------------------------------------------------------------------
(* What the repository says and the code does not keep *)

\* Nothing is running or about to run.
AtRest == /\ Serving /\ \A t \in TurnIds : At(t, "idle") /\ ~ wake[t].busy
          /\ timers = {} /\ due = {} /\ call = NoCall /\ ~ merge

Unread == {b \in OpenBatches : Results(b, batch[b].delivered) # {}}

\* internal/prompt/templates/resource-agent-api.md:96: if Main ends before a
\* batch completes, it is woken after the first unread result.
Woken == AtRest /\ round \notin RoundTerminal => Unread = {}

\* docs/core-design.md:924: a restarted service recovers from its tables.
RestartServes == boot # "failed"
=============================================================================
