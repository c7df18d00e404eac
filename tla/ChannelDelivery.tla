-------------------------- MODULE ChannelDelivery --------------------------
(***************************************************************************)
(* The outbox of one channel instance (internal/store/channel_*.go): what  *)
(* a task says is projected into rows, a plugin process claims the head of *)
(* each conversation under a lease, sends it to its provider and reports   *)
(* the outcome (plugins/feishu/main.go).  The process may be killed, its   *)
(* calls may get lost, and an ambiguous failure leaves it open whether the *)
(* provider took the message.                                              *)
(*                                                                         *)
(* Time is a choice: which leases have expired and which retries are due   *)
(* when the plugin claims, and when it sends, whether the first attempt is *)
(* 55 minutes old and whether the provider has forgotten the request.      *)
(***************************************************************************)
EXTENDS Naturals

CONSTANTS Conversations,
          Keys,           \* coalesce keys
          None,           \* the empty key, and the conversation of no row
          MaxRows,        \* bound on the rows that can be inserted
          MaxEvents,      \* bound on the source events
          AttemptLimit,   \* attempts after which a rejection is permanent
          MaxTries,       \* bound on the attempts of a row
          Ops             \* which operations of the environment a run allows

Rows == 1..MaxRows

ASSUME LimitsAssumption == /\ MaxRows \in Nat \ {0}
                           /\ MaxEvents \in Nat \ {0}
                           /\ AttemptLimit \in Nat \ {0}
                           /\ MaxTries \in Nat /\ MaxTries >= AttemptLimit
ASSUME KeysAssumption == None \notin Keys \cup Conversations
ASSUME ChannelOpsAssumption ==
  Ops \subseteq {"coalesce", "menu", "lost", "kill", "replay", "skip"}

VARIABLES outbox,   \* channel_delivery_outbox
          source,   \* channel_source_events: the last sequence number
          held,     \* the rows the plugin has claimed and not yet reported
          report,   \* its report on the row it sent last
          chat      \* what the provider shows of a row, 0 nothing

vars == <<outbox, source, held, report, chat>>

Open     == {"pending", "leased", "dead_letter"}
Finished == {"delivered", "replayed", "skipped"}

\* content is source_event_sequence; the lease of a row is named by attempts.
Deliveries == [conv: Conversations \cup {None}, seq: 0..MaxRows, gen: 0..MaxRows,
               key: Keys \cup {None}, menu: BOOLEAN,
               state: Open \cup Finished \cup {"none"},
               attempts: 0..MaxTries, content: 0..MaxEvents]

Reports == [row: Rows, lease: 0..MaxTries,
            outcome: {"delivered", "pending", "dead_letter"}]
NoReport == [row |-> 0, lease |-> 0, outcome |-> "pending"]

Vacant == [conv |-> None, seq |-> 0, gen |-> 0, key |-> None, menu |-> FALSE,
           state |-> "none", attempts |-> 0, content |-> 0]

Init == /\ outbox = [d \in Rows |-> Vacant]
        /\ source = 0
        /\ held = {} /\ report = NoReport
        /\ chat = [d \in Rows |-> 0]

TypeOK == /\ outbox \in [Rows -> Deliveries]
          /\ source \in 0..MaxEvents
          /\ held \subseteq Rows
          /\ report \in Reports \cup {NoReport}
          /\ chat \in [Rows -> 0..MaxEvents]
-----------------------------------------------------------------------------
(* Rows *)

In(states)  == {d \in Rows : outbox[d].state \in states}
Free(d)     == outbox[d].state = "none" /\ \A e \in In({"none"}) : d <= e
RowsOf(c)   == {d \in Rows : outbox[d].state # "none" /\ outbox[d].conv = c}

\* The order of a conversation's stream: (stream_sequence, replay_generation).
Before(d, e) ==
  /\ outbox[d].state # "none" /\ outbox[e].state # "none"
  /\ outbox[d].conv = outbox[e].conv
  /\ \/ outbox[d].seq < outbox[e].seq
     \/ outbox[d].seq = outbox[e].seq /\ outbox[d].gen < outbox[e].gen

\* COALESCE(MAX(stream_sequence),0)+1 of conversation c.
NextSequence(c, n) ==
  /\ \A d \in RowsOf(c) : outbox[d].seq < n
  /\ n = 1 \/ \E d \in RowsOf(c) : n = outbox[d].seq + 1

\* COALESCE(MAX(replay_generation),0)+1 of the rows at the place of row d.
NextGeneration(d, g) ==
  LET place == {e \in RowsOf(outbox[d].conv) : outbox[e].seq = outbox[d].seq}
  IN  /\ \A e \in place : outbox[e].gen < g
      /\ \E e \in place : g = outbox[e].gen + 1
-----------------------------------------------------------------------------
(* The service: projection, and the owner's dead letters *)

ServiceRest == <<held, report, chat>>

NewRow(c, n, k, menu, content) ==
  [conv |-> c, seq |-> n, gen |-> 0, key |-> k, menu |-> menu,
   state |-> "pending", attempts |-> 0, content |-> content]

\* Mutant: an update is merged into a row that is being sent, too.
CoalescesInFlight(c, k, d) ==
  LET same == {e \in RowsOf(c) : outbox[e].state \in {"pending", "leased"} /\ outbox[e].key = k}
  IN  k # None /\ d \in same /\ \A e \in same : outbox[e].seq <= outbox[d].seq

\* The pending row an event with key k is merged into.
Coalesces(c, k, d) ==
  LET same == {e \in RowsOf(c) : outbox[e].state = "pending" /\ outbox[e].key = k}
  IN  k # None /\ d \in same /\ \A e \in same : outbox[e].seq <= outbox[d].seq

\* AppendChannelSourceAndProject: the event is merged into the latest pending
\* row of its coalesce key, or gets a row at the end of the stream.
Project(c, k) ==
  /\ source < MaxEvents
  /\ k # None => "coalesce" \in Ops
  /\ source' = source + 1
  /\ \/ \E d \in Rows : /\ Coalesces(c, k, d)
                        /\ outbox' = [outbox EXCEPT ![d].content = source + 1]
     \/ /\ ~ \E d \in Rows : Coalesces(c, k, d)
        /\ \E d, n \in Rows :
             /\ Free(d) /\ NextSequence(c, n)
             /\ outbox' = [outbox EXCEPT ![d] = NewRow(c, n, k, FALSE, source + 1)]
  /\ UNCHANGED ServiceRest

\* Mutant: a card that is being sent is replaced, too.
WithoutSentCards(c) ==
  [e \in Rows |-> IF e \in RowsOf(c) /\ outbox[e].menu /\ outbox[e].state \in Open
                  THEN [outbox[e] EXCEPT !.state = "skipped"] ELSE outbox[e]]

\* A menu card replaces the older ones of its conversation.
WithoutCards(c) ==
  [e \in Rows |-> IF e \in RowsOf(c) /\ outbox[e].menu /\ outbox[e].state \in {"pending", "dead_letter"}
                  THEN [outbox[e] EXCEPT !.state = "skipped"] ELSE outbox[e]]

\* enqueueChannelActionDeliveryTx of a menu card.
MenuCard(c) ==
  /\ "menu" \in Ops /\ source < MaxEvents
  /\ source' = source + 1
  /\ \E d, n \in Rows :
       /\ Free(d) /\ NextSequence(c, n)
       /\ outbox' = [WithoutCards(c) EXCEPT ![d] = NewRow(c, n, None, TRUE, source + 1)]
  /\ UNCHANGED ServiceRest

\* The same for a receipt that is processed again: its event is ignored, after
\* the older cards, its own among them, were replaced.
MenuCardAgain(c) ==
  /\ "menu" \in Ops /\ \E d \in RowsOf(c) : outbox[d].menu
  /\ outbox' = WithoutCards(c)
  /\ UNCHANGED source /\ UNCHANGED ServiceRest

\* ReplayChannelDelivery: a new row at the place of the dead letter.
Replay(d) ==
  /\ "replay" \in Ops /\ outbox[d].state = "dead_letter"
  /\ \E e, g \in Rows :
       /\ Free(e) /\ NextGeneration(d, g)
       /\ outbox' = [outbox EXCEPT
            ![d].state = "replayed",
            ![e] = [outbox[d] EXCEPT !.gen = g, !.state = "pending", !.attempts = 0]]
  /\ UNCHANGED source /\ UNCHANGED ServiceRest

\* SkipChannelDelivery
Skip(d) ==
  /\ "skip" \in Ops /\ outbox[d].state = "dead_letter"
  /\ outbox' = [outbox EXCEPT ![d].state = "skipped"]
  /\ UNCHANGED source /\ UNCHANGED ServiceRest
-----------------------------------------------------------------------------
(* The plugin's delivery loop *)

Idle == held = {} /\ report = NoReport

\* Mutant: dead letters hold nothing back.
HeadPastDeadLetter(d, expired) ==
  /\ outbox[d].state = "pending" \/ d \in expired
  /\ ~ \E e \in In({"pending", "leased"}) : Before(e, d)

\* A row may be claimed when it is pending, or its lease has expired, and all
\* rows before it in its conversation are finished.
Head(d, expired) ==
  /\ outbox[d].state = "pending" \/ d \in expired
  /\ ~ \E e \in In(Open) : Before(e, d)

\* Mutant: expired leases are not taken back.
ClaimUnexpired(expired, rows, answered) ==
  /\ Idle /\ expired = {} /\ rows # {}
  /\ \A d \in rows : Head(d, expired) /\ outbox[d].attempts < MaxTries
  /\ ~ answered => /\ "lost" \in Ops
                   /\ \A d \in rows : outbox[d].attempts + 1 < MaxTries
  /\ outbox' = [d \in Rows |->
       IF d \in rows
       THEN [outbox[d] EXCEPT !.state = "leased", !.attempts = outbox[d].attempts + 1]
       ELSE outbox[d]]
  /\ held' = IF answered THEN rows ELSE {}
  /\ UNCHANGED <<source, report, chat>>

\* ClaimChannelDeliveries: expired leases become pending, then the heads that
\* are due, or some of them, are leased.  The answer may not reach the plugin.
Claim(expired, rows, answered) ==
  /\ Idle
  /\ expired \subseteq In({"leased"}) /\ expired \cup rows # {}
  /\ \A d \in rows : Head(d, expired)
  /\ ~ answered => /\ "lost" \in Ops
                   /\ \A d \in rows : outbox[d].attempts + 1 < MaxTries
  /\ outbox' = [d \in Rows |->
       IF d \in rows
       THEN [outbox[d] EXCEPT !.state = "leased", !.attempts = outbox[d].attempts + 1]
       ELSE IF d \in expired THEN [outbox[d] EXCEPT !.state = "pending"]
       ELSE outbox[d]]
  /\ held' = IF answered THEN rows ELSE {}
  /\ UNCHANGED <<source, report, chat>>

\* A row keeps its idempotency key, and so the uuid of its request: the provider
\* shows it again only when it has forgotten the request.
Shows(d, forgotten) ==
  IF chat[d] # 0 /\ ~ forgotten THEN chat ELSE [chat EXCEPT ![d] = outbox[d].content]

Reporting(d, outcome) ==
  report' = [row |-> d, lease |-> outbox[d].attempts, outcome |-> outcome]

Sending(d) == d \in held /\ report = NoReport

SendAccepted(d) ==
  /\ Sending(d)
  /\ \E forgotten \in BOOLEAN : chat' = Shows(d, forgotten)
  /\ Reporting(d, "delivered")
  /\ UNCHANGED <<outbox, source, held>>

\* Mutant: no number of attempts is too many.
RejectedAlwaysRetried(d) == "pending"

\* A rejection is permanent at the limit of attempts.
RejectedOutcome(d) ==
  IF outbox[d].attempts >= AttemptLimit THEN "dead_letter" ELSE "pending"

SendRejected(d) ==
  /\ Sending(d)
  /\ Reporting(d, RejectedOutcome(d))
  /\ UNCHANGED <<outbox, source, held, chat>>

\* isAmbiguous: the connection broke before the answer.  It is permanent when
\* the first attempt is 55 minutes old, and no request is forgotten before.
SendAmbiguous(d) ==
  /\ Sending(d)
  /\ \/ /\ outbox[d].attempts < MaxTries
        /\ chat' \in {chat, Shows(d, FALSE)} /\ Reporting(d, "pending")
     \/ chat' \in {chat, Shows(d, FALSE), Shows(d, TRUE)} /\ Reporting(d, "dead_letter")
  /\ UNCHANGED <<outbox, source, held>>

\* AckChannelDelivery and NackChannelDelivery compare the lease.
Reported ==
  /\ report # NoReport
  /\ outbox' = [outbox EXCEPT ![report.row].state =
       IF @ = "leased" /\ outbox[report.row].attempts = report.lease THEN report.outcome ELSE @]
  /\ held' = held \ {report.row} /\ report' = NoReport
  /\ UNCHANGED <<source, chat>>

\* The loop goes on whatever became of its report.
ReportLost ==
  /\ "lost" \in Ops /\ report # NoReport
  /\ outbox[report.row].attempts < MaxTries
  /\ held' = held \ {report.row} /\ report' = NoReport
  /\ UNCHANGED <<outbox, source, chat>>

\* The plugin dies, or is killed by its supervisor, and starts anew.
Kill ==
  /\ "kill" \in Ops /\ held # {}
  /\ \A d \in held : outbox[d].attempts < MaxTries
  /\ held' = {} /\ report' = NoReport
  /\ UNCHANGED <<outbox, source, chat>>

\* The service starts: SkipEphemeralMenuCards, and a new plugin process.
Start ==
  /\ "kill" \in Ops /\ \A d \in held : outbox[d].attempts < MaxTries
  /\ outbox' = [d \in Rows |-> IF outbox[d].menu /\ outbox[d].state \in Open
                               THEN [outbox[d] EXCEPT !.state = "skipped"] ELSE outbox[d]]
  /\ held' = {} /\ report' = NoReport
  /\ UNCHANGED <<source, chat>>
-----------------------------------------------------------------------------
Send(d) == SendAccepted(d) \/ SendRejected(d) \/ SendAmbiguous(d)

Next == \/ \E c \in Conversations : MenuCard(c) \/ MenuCardAgain(c)
        \/ \E c \in Conversations, k \in Keys \cup {None} : Project(c, k)
        \/ \E expired \in SUBSET In({"leased"}), answered \in BOOLEAN :
             \E rows \in SUBSET (In({"pending"}) \cup expired) : Claim(expired, rows, answered)
        \/ \E d \in Rows : Replay(d) \/ Skip(d) \/ Send(d)
        \/ Reported \/ ReportLost \/ Kill \/ Start

Spec == Init /\ [][Next]_vars

\* A head is claimed once its lease has expired or its retry is due.
ClaimDue(d) == Claim({d} \cap In({"leased"}), {d}, TRUE)

\* The delivery loop goes on, and every head is due in the end.
FairSpec == /\ Spec
            /\ WF_vars((\E d \in Rows : Send(d)) \/ Reported)
            /\ \A d \in Rows : WF_vars(ClaimDue(d))
-----------------------------------------------------------------------------
(* Properties *)

\* At most the head of a conversation is with the plugin: whatever expires, is
\* replayed or gets lost, everything before a leased row is finished, so a dead
\* letter holds back what comes after it.
LeasedIsHead ==
  \A d \in In({"leased"}) : \A e \in Rows : Before(e, d) => outbox[e].state \in Finished

\* A conversation is shown in the order of its stream: no row appears, or appears
\* again with an update, after a row that comes later, and a replay appears in the
\* place of its dead letter.
InOrder ==
  [][\A d, e \in Rows : chat'[d] # chat[d] /\ Before(d, e) => chat[e] = 0]_vars

\* What was said last is what was delivered, if the row was sent once: an update
\* finds its row pending, or gets a row of its own, while the plugin claims, sends
\* and reports.  A row that was sent before may show less: a retry that the provider
\* takes for the request it remembers drops what was merged in between.
FirstSendIsLatest ==
  \A d \in Rows :
    outbox[d].state = "delivered" /\ outbox[d].attempts = 1
      => chat[d] = outbox[d].content

\* A pending row is finished in the end, or a dead letter holds it back.
RowsResolve ==
  \A d \in Rows :
    outbox[d].state = "pending" ~>
      \/ outbox[d].state \in Finished \cup {"dead_letter"}
      \/ \E e \in In({"dead_letter"}) : Before(e, d)

\* What MessageStream calls the fate of a row.
Fate(state) == CASE state \in {"pending", "leased"}     -> "waiting"
                 [] state = "dead_letter"              -> "refused"
                 [] state \in {"replayed", "skipped"} -> "set_aside"
                 [] OTHER                              -> state

Stream == INSTANCE MessageStream WITH
  Messages <- Rows,
  conv     <- [d \in Rows |-> outbox[d].conv],
  before   <- {p \in Rows \X Rows : Before(p[1], p[2])},
  cards    <- {d \in Rows : outbox[d].menu},
  fate     <- [d \in Rows |-> Fate(outbox[d].state)],
  shown    <- {d \in Rows : chat[d] # 0}

\* The outbox with its leases, lost calls and restarts does what a reader may
\* expect of a stream of messages: each appears in its place, when all before it
\* is settled, and is called delivered only if it was shown.
ImplementsStream == Stream!Spec
=============================================================================
