------------------------- MODULE InboundProperties -------------------------
(***************************************************************************)
(* What the inbound side of a conversation promises.                       *)
(***************************************************************************)
EXTENDS ChannelInbound

Crashed == left.crashes < MaxCrashes
Sent(kind, n) == \E i \in DOMAIN mail : mail[i].from = <<kind, n>>
Started(a) == \E i \in DOMAIN mail : mail[i].task = Made(a)

\* The rows keep their types; a route, a host and every bound task exist.
TypeOK ==
  /\ \A r \in DOMAIN receipt :
       /\ receipt[r].event.kind \in {"message", "media", "menu", "click"}
       /\ receipt[r].event.action \in 0..Len(action)
       /\ receipt[r].state \in {"received", "processing", "expired", "processed", "failed"}
  /\ DOMAIN download \subseteq DOMAIN receipt
  /\ \A a \in DOMAIN action :
       /\ action[a].op \in Ops \cap Operations
       /\ action[a].target \in Tasks \cup {NoTask}
       /\ action[a].status \in Live \cup Final \cup {"superseded"}
  /\ \A t \in Tasks : task[t] \in {"preparing", "active", "completed", "blocked"}
  /\ host \in Tasks /\ \A i \in DOMAIN bound : bound[i] \in Tasks
  /\ Routed => \E i \in DOMAIN bound : bound[i] = route
  /\ handoff \in {"pending_owner", "task_created", "dismissed"}
  /\ request \in {"none", "pending", "approved", "rejected", "expired"}
  /\ \A i \in DOMAIN mail : mail[i].task \in Tasks
  /\ loop.queue \subseteq DOMAIN receipt

\* However often a receipt is claimed and a card is clicked, across crashes and
\* in competition with the web, no event, no created task's request and no
\* approval becomes two messages (docs/channel-plugin-v1-design.md:298).
SubmittedOnce ==
  \A i, j \in DOMAIN mail : mail[i].from = mail[j].from => i = j

\* The result a card shows is what happened: a success had its effect, a card
\* that was rejected, cancelled or superseded started nothing - unless a crash
\* tore its execution apart.
ResultsTrue ==
  \A a \in DOMAIN action :
    LET row == action[a]
    IN  /\ row.status = "succeeded" =>
             CASE row.op \in {"create_task", "accepted_task"} -> Started(a)
               [] row.op = "complete"        -> task[row.target] = "completed"
               [] row.op = "dismissed"       -> handoff = "dismissed"
               [] row.op = "task_permission" -> request = "approved"
               [] OTHER -> \E i \in DOMAIN bound : bound[i] = row.target
        /\ row.status = "cancelled" /\ row.op = "task_permission" => request = "rejected"
        /\ row.status = "superseded" => Made(a) \notin Tasks
        /\ row.status \in {"cancelled", "failed"} /\ ~ Crashed => ~ Sent("action", a)

\* Without a crash the messages of the conversation reach the tasks in the order
\* they were received; those with attachments wait for their downloads.
InReceivedOrder ==
  ~ Crashed =>
    \A i, j \in DOMAIN mail :
      /\ i < j /\ mail[i].from[1] = "receipt" /\ mail[j].from[1] = "receipt"
      /\ \A k \in {i, j} : receipt[mail[k].from[2]].event.kind = "message"
      => mail[i].from[2] < mail[j].from[2]

Resolved(r) == receipt[r].state \in {"processed", "failed"}

\* Every receipt is settled at last, and no card stays executing; only a
\* permission request may, whose decision a crash separated from its card, or which
\* expired between the click and the decision.  An approval reaches the task that
\* asked, unless that task ended or a crash came.
Settled ==
  /\ \A r \in DOMAIN receipt : Resolved(r)
  /\ \A a \in DOMAIN action :
       action[a].status = "executing" =>
         action[a].op = "task_permission" /\ (Crashed \/ request = "expired")
  /\ request = "approved" =>
       \/ Sent("approval", 0) \/ Crashed
       \/ \E a \in DOMAIN action :
            action[a].op = "task_permission" /\ task[action[a].target] \in {"completed", "blocked"}

Settles == []<>Settled
=============================================================================
