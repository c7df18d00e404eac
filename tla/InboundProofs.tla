--------------------------- MODULE InboundProofs ---------------------------
(***************************************************************************)
(* Theorems about the inbound side of a conversation: nothing is submitted *)
(* twice, messages keep the order they were received in, and cards show    *)
(* what happened.                                                          *)
(***************************************************************************)
EXTENDS InboundProperties, SequenceTheorems, WellFoundedInduction, TLAPS

IsSeq(s) == \E S : s \in Seq(S)

LEMMA MinInSet ==
  ASSUME NEW q, q \subseteq Nat, q # {}
  PROVE  Min(q) \in q /\ \A y \in q : Min(q) <= y
  <1>1. PICK x \in q : \A y \in q : ~ (<<y, x>> \in OpToRel(<, Nat))
    BY WFMin, NatLessThanWellFounded
  <1>2. ASSUME NEW y \in q PROVE x <= y
    <2>1. x \in Nat /\ y \in Nat
      OBVIOUS
    <2>2. <<y, x>> \in Nat \X Nat /\ ~ (<<y, x>> \in {ss \in Nat \X Nat : ss[1] < ss[2]})
      BY <1>1, <2>1 DEF OpToRel
    <2>3. ~ (y < x)
      BY <2>2
    <2> QED
      BY <2>1, <2>3
  <1> QED
    BY <1>2 DEF Min

LEMMA SeqDomain ==
  ASSUME NEW s, IsSeq(s)
  PROVE  DOMAIN s = 1..Len(s) /\ Len(s) \in Nat
  BY LenProperties DEF IsSeq

LEMMA AppendFacts ==
  ASSUME NEW s, NEW x, IsSeq(s)
  PROVE  /\ IsSeq(Append(s, x))
         /\ DOMAIN s = 1..Len(s) /\ Len(s) \in Nat
         /\ DOMAIN Append(s, x) = DOMAIN s \cup {Len(s) + 1}
         /\ \A i \in DOMAIN s : Append(s, x)[i] = s[i]
         /\ Append(s, x)[Len(s) + 1] = x
  <1>1. PICK S : s \in Seq(S)
    BY DEF IsSeq
  <1>2. s \in Seq(S \cup {x})
    BY <1>1, SeqMonotonic
  <1>3. DOMAIN s = 1..Len(s) /\ Len(s) \in Nat
    BY <1>1, LenProperties
  <1>4. Append(s, x) \in Seq(S \cup {x})
    BY <1>2, AppendProperties
  <1>5. /\ Len(Append(s, x)) = Len(s) + 1
        /\ \A i \in 1..Len(s) : Append(s, x)[i] = s[i]
        /\ Append(s, x)[Len(s) + 1] = x
    BY <1>2, AppendProperties
  <1>6. DOMAIN Append(s, x) = 1..(Len(s) + 1)
    BY <1>4, <1>5, LenProperties
  <1> QED
    BY <1>3, <1>4, <1>5, <1>6 DEF IsSeq

LEMMA SameDomain ==
  ASSUME NEW s, IsSeq(s), NEW f, f = [i \in DOMAIN s |-> f[i]]
  PROVE  IsSeq(f) /\ DOMAIN f = DOMAIN s
  <1>1. PICK S : s \in Seq(S)
    BY DEF IsSeq
  <1>2. DOMAIN s = 1..Len(s) /\ Len(s) \in Nat
    BY <1>1, LenProperties
  <1> DEFINE V == {f[i] : i \in DOMAIN s}
  <1>3. f \in [1..Len(s) -> V]
    BY <1>2
  <1>4. f \in Seq(V)
    BY <1>2, <1>3, IsASeq
  <1> QED
    BY <1>4 DEF IsSeq

-----------------------------------------------------------------------------
(* The tables and the goroutine keep their shape *)

\* The labels the invariant speaks of.
Watched == {"route", "continue", "prepare", "start", "submit", "decided", "check", "enqueue"}

\* Those at which it holds no receipt.
Resting == {"idle", "claim", "exit_terminal", "adopt"}

\* A click names an action there is, a menu an operation.
EventRow(e) ==
  /\ e.kind = "click" => e.action \in DOMAIN action
  /\ e.kind = "menu" => e.op \in Operations

ReceiptRows ==
  /\ IsSeq(receipt)
  /\ \A r \in DOMAIN receipt : DOMAIN receipt[r] = {"event", "state"}
  /\ \A r \in DOMAIN receipt : EventRow(receipt[r].event)

RowsOf(rows) ==
  /\ IsSeq(rows)
  /\ \A a \in DOMAIN rows :
       /\ DOMAIN rows[a] = {"op", "target", "fresh", "status"}
       /\ rows[a].op \in Operations

ActionRows == RowsOf(action)

Goroutine ==
  /\ DOMAIN loop = {"pc", "queue", "target"}
  /\ \A r \in loop.queue : r \in DOMAIN receipt /\ receipt[r].state = "processing"
  /\ loop.pc \notin Resting => loop.queue # {}

Shape == ReceiptRows /\ ActionRows /\ Goroutine /\ IsSeq(mail) /\ DOMAIN web = {"pc", "target"}

LEMMA CurrentInHand ==
  ASSUME Shape, loop.pc \notin Resting
  PROVE  /\ Current \in loop.queue /\ Current \in DOMAIN receipt
         /\ receipt[Current].state = "processing"
         /\ \A q \in loop.queue : Current <= q
  <1>0. DOMAIN receipt = 1..Len(receipt) /\ Len(receipt) \in Nat
    BY SeqDomain DEF Shape, ReceiptRows
  <1>1. loop.queue \subseteq Nat
    BY <1>0 DEF Shape, Goroutine
  <1>2. loop.queue # {}
    BY DEF Shape, Goroutine
  <1>3. Current \in loop.queue /\ \A q \in loop.queue : Current <= q
    BY <1>1, <1>2, MinInSet DEF Current
  <1> QED
    BY <1>3 DEF Shape, Goroutine

-----------------------------------------------------------------------------
(* What a step writes, table by table *)

\* Who writes the receipts.
LEMMA ReceiptWriters ==
  ASSUME [Next]_vars
  PROVE  \/ receipt' = receipt
         \/ loop.pc \notin Resting /\ \E s \in {"processed", "failed"} : Finish(s)
         \/ \E r \in DOMAIN receipt : LeaseRunsOut(r)
         \/ ClaimInbox
         \/ \E e \in Events : ReceiveInbound(e)
  <1>1. CASE LoopStep
    <2>1. CASE Reconcile \/ ExitTerminal \/ AdoptHost \/ TakeMessage \/ ReadRoute \/ Continue
               \/ ActivateContinuation \/ Cancel \/ Reject \/ Succeed \/ Recheck
      BY <2>1 DEF Reconcile, ExitTerminal, AdoptHost, TakeMessage, ReadRoute, Continue,
           ActivateContinuation, Cancel, Reject, Succeed, Conclude, Recheck
    <2>2. CASE TakeOver \/ Exit \/ Complete \/ CreateTask \/ StartTask \/ SubmitRequest
               \/ ResolveHandoff \/ FinishPermission
      BY <2>2 DEF TakeOver, Exit, Complete, CreateTask, StartTask, SubmitRequest,
           ResolveHandoff, FinishPermission
    <2>3. CASE Prepare
      BY <2>3 DEF Prepare, At, Drop, Resting
    <2>4. CASE Attachments
      BY <2>4 DEF Attachments, At, Resting
    <2>5. CASE CheckTask \/ Enqueue
      BY <2>5 DEF CheckTask, Enqueue, At, Drop, Resting
    <2>6. CASE TakeMenu \/ TakeClick
      BY <2>6 DEF TakeMenu, TakeClick, At, Drop, Resting
    <2>7. CASE FinishClick \/ DecideByCard
      BY <2>7 DEF FinishClick, DecideByCard, At, Drop, Resting
    <2> QED
      BY <1>1, <2>1, <2>2, <2>3, <2>4, <2>5, <2>6, <2>7 DEF LoopStep
  <1>2. CASE WebStep \/ UnbindRoute \/ Crash
    BY <1>2 DEF WebStep, UnbindAdopt, FinishCard, Tell, UnbindRoute, Crash
  <1>3. CASE \E t \in Tasks : BindRoute(t) \/ EndTask(t) \/ Touch(t)
    BY <1>3 DEF BindRoute, EndTask, Touch
  <1>4. CASE (\E d \in BOOLEAN : DecideInWeb(d)) \/ \E a \in DOMAIN action : Lapse(a)
    BY <1>4 DEF DecideInWeb, Lapse
  <1>5. CASE \/ \E r \in DOMAIN download : DownloadEnds(r)
             \/ \E op \in Operations, t \in Tasks \cup {NoTask} : Propose(op, t)
    BY <1>5 DEF DownloadEnds, Propose
  <1>6. CASE UNCHANGED vars
    BY <1>6 DEF vars
  <1> QED
    BY <1>1, <1>2, <1>3, <1>4, <1>5, <1>6 DEF Next

\* A receipt keeps its event, one that is settled stays so, and one in the
\* goroutine's hands is not taken away from it.
LEMMA ReceiptStep ==
  ASSUME Shape, [Next]_vars
  PROVE  /\ IsSeq(receipt')
         /\ \A r \in DOMAIN receipt' : DOMAIN receipt'[r] = {"event", "state"}
         /\ \A r \in DOMAIN receipt :
              /\ r \in DOMAIN receipt' /\ receipt'[r].event = receipt[r].event
              /\ receipt[r].state = "processed" => receipt'[r].state = "processed"
         /\ \A r \in DOMAIN receipt' \ DOMAIN receipt :
              receipt'[r].event \in Events
         /\ \A r \in loop.queue : receipt'[r].state = "processing" \/ (Leave /\ r = Current)
  <1> DEFINE Kept == /\ \A r \in DOMAIN receipt :
                          /\ DOMAIN receipt'[r] = {"event", "state"}
                          /\ receipt'[r].event = receipt[r].event
                          /\ receipt[r].state = "processed" => receipt'[r].state = "processed"
                     /\ \A r \in loop.queue :
                          receipt'[r].state = "processing" \/ (Leave /\ r = Current)
             Domain == IsSeq(receipt') /\ DOMAIN receipt' = DOMAIN receipt
  <1>0. /\ IsSeq(receipt) /\ \A r \in DOMAIN receipt : DOMAIN receipt[r] = {"event", "state"}
        /\ \A r \in loop.queue : r \in DOMAIN receipt /\ receipt[r].state = "processing"
    BY DEF Shape, ReceiptRows, Goroutine
  <1>1. CASE receipt' = receipt
    BY <1>0, <1>1
  <1>2. ASSUME NEW s, Finish(s), loop.pc \notin Resting PROVE Kept /\ Domain
    <2>1. /\ Current \in DOMAIN receipt /\ receipt[Current].state = "processing"
          /\ receipt' = [receipt EXCEPT ![Current].state = s] /\ Leave
      BY <1>2, CurrentInHand DEF Finish
    <2>2. Domain
      BY <1>0, <2>1, SameDomain
    <2>3. ASSUME NEW r \in DOMAIN receipt
          PROVE  receipt'[r] = IF r = Current THEN [receipt[r] EXCEPT !.state = s] ELSE receipt[r]
      BY <2>1
    <2> QED
      BY <1>0, <2>1, <2>2, <2>3
  <1>3. ASSUME NEW q \in DOMAIN receipt, LeaseRunsOut(q) PROVE Kept /\ Domain
    <2>1. /\ receipt[q].state = "processing" /\ q \notin loop.queue
          /\ receipt' = [receipt EXCEPT ![q].state = "expired"]
      BY <1>3 DEF LeaseRunsOut, InHand
    <2>2. Domain
      BY <1>0, <2>1, SameDomain
    <2>3. ASSUME NEW r \in DOMAIN receipt
          PROVE  receipt'[r] = IF r = q THEN [receipt[r] EXCEPT !.state = "expired"] ELSE receipt[r]
      BY <2>1
    <2> QED
      BY <1>0, <2>1, <2>2, <2>3
  <1>4. CASE ClaimInbox
    <2>1. receipt' = [r \in DOMAIN receipt |->
                        IF r \in Claimable THEN [receipt[r] EXCEPT !.state = "processing"]
                                           ELSE receipt[r]]
      BY <1>4 DEF ClaimInbox
    <2>2. Domain
      BY <1>0, <2>1, SameDomain
    <2>3. \A r \in Claimable : receipt[r].state \in {"received", "expired"}
      BY DEF Claimable
    <2> QED
      BY <1>0, <2>1, <2>2, <2>3
  <1>5. ASSUME NEW e \in Events, ReceiveInbound(e)
        PROVE  /\ Kept /\ IsSeq(receipt') /\ DOMAIN receipt \subseteq DOMAIN receipt'
               /\ \A r \in DOMAIN receipt' \ DOMAIN receipt :
                    receipt'[r].event \in Events /\ DOMAIN receipt'[r] = {"event", "state"}
    <2> DEFINE new == [event |-> e, state |-> "received"]
    <2>1. receipt' = Append(receipt, new)
      BY <1>5 DEF ReceiveInbound
    <2>2. /\ IsSeq(receipt') /\ DOMAIN receipt' = DOMAIN receipt \cup {Len(receipt) + 1}
          /\ \A r \in DOMAIN receipt : receipt'[r] = receipt[r]
          /\ receipt'[Len(receipt) + 1] = new
      BY <1>0, <2>1, AppendFacts
    <2>3. new.event \in Events /\ DOMAIN new = {"event", "state"}
      OBVIOUS
    <2> QED
      BY <1>0, <2>2, <2>3
  <1>7. CASE Kept /\ Domain
    BY <1>7
  <1>8. CASE \E e \in Events : ReceiveInbound(e)
    BY <1>5, <1>8
  <1> QED
    BY <1>1, <1>2, <1>3, <1>4, <1>7, <1>8, ReceiptWriters

LEMMA EventRows ==
  ASSUME NEW e \in Events
  PROVE  EventRow(e)
  <1>1. CASE e \in {Message} \cup Media
    BY <1>1 DEF Message, Media, EventRow
  <1>2. CASE e \in Menus
    <2>1. PICK op \in {"takeover", "exit", "create_task"} :
                 e = [Message EXCEPT !.kind = "menu", !.op = op]
      BY <1>2 DEF Menus
    <2>2. e.kind = "menu" /\ e.op = op
      BY <2>1 DEF Message
    <2> QED
      BY <2>2 DEF EventRow, Operations
  <1>3. CASE e \in Clicks
    <2>1. PICK a \in DOMAIN action, c \in BOOLEAN :
                 e = [kind |-> "click", action |-> a, confirm |-> c, op |-> "none"]
      BY <1>3 DEF Clicks
    <2> QED
      BY <2>1 DEF EventRow
  <1> QED
    BY <1>1, <1>2, <1>3 DEF Events

\* Rows rewritten in place.
LEMMA Rewritten ==
  ASSUME NEW rows, RowsOf(rows), NEW f, f = [a \in DOMAIN rows |-> f[a]],
         \A a \in DOMAIN rows : DOMAIN f[a] = DOMAIN rows[a] /\ f[a].op = rows[a].op
  PROVE  RowsOf(f) /\ DOMAIN f = DOMAIN rows
  <1>1. IsSeq(f) /\ DOMAIN f = DOMAIN rows
    BY SameDomain DEF RowsOf
  <1> QED
    BY <1>1 DEF RowsOf

LEMMA StatusWrite ==
  ASSUME NEW rows, RowsOf(rows), NEW a, NEW s
  PROVE  /\ RowsOf([rows EXCEPT ![a].status = s])
         /\ DOMAIN [rows EXCEPT ![a].status = s] = DOMAIN rows
  <1> DEFINE f == [rows EXCEPT ![a].status = s]
  <1>1. /\ f = [b \in DOMAIN rows |-> f[b]]
        /\ \A b \in DOMAIN rows : f[b] = IF b = a THEN [rows[a] EXCEPT !.status = s] ELSE rows[b]
    OBVIOUS
  <1>2. \A b \in DOMAIN rows : DOMAIN f[b] = DOMAIN rows[b] /\ f[b].op = rows[b].op
    BY <1>1 DEF RowsOf
  <1> QED
    BY <1>1, <1>2, Rewritten

LEMMA AgedRows ==
  ASSUME NEW rows, RowsOf(rows), NEW t,
         NEW f, f \in {AgedTask(rows, t), AgedRoute(rows), AgedHandoff(rows)}
  PROVE  RowsOf(f) /\ DOMAIN f = DOMAIN rows
  <1>1. /\ f = [a \in DOMAIN rows |-> f[a]]
        /\ \A a \in DOMAIN rows : f[a] \in {rows[a], [rows[a] EXCEPT !.fresh = FALSE]}
    BY DEF AgedTask, AgedRoute, AgedHandoff, Aged
  <1>2. \A a \in DOMAIN rows : DOMAIN f[a] = DOMAIN rows[a] /\ f[a].op = rows[a].op
    BY <1>1 DEF RowsOf
  <1> QED
    BY <1>1, <1>2, Rewritten

LEMMA Created ==
  ASSUME ActionRows, NEW op \in Operations, NEW t, CreateAction(op, t)
  PROVE  RowsOf(action') /\ DOMAIN action \subseteq DOMAIN action'
  <1> DEFINE f == [a \in DOMAIN action |->
                     IF action[a].status \in {"pending", "lapsed"} /\ SameChat(action[a].op, op)
                     THEN [action[a] EXCEPT !.status = "superseded"] ELSE action[a]]
             new == [op |-> op, target |-> t, fresh |-> TRUE, status |-> "pending"]
  <1>1. action' = Append(f, new)
    BY DEF CreateAction
  <1>2. /\ f = [a \in DOMAIN action |-> f[a]]
        /\ \A a \in DOMAIN action : f[a] \in {action[a], [action[a] EXCEPT !.status = "superseded"]}
    OBVIOUS
  <1>3. \A a \in DOMAIN action : DOMAIN f[a] = DOMAIN action[a] /\ f[a].op = action[a].op
    BY <1>2 DEF ActionRows, RowsOf
  <1>4. RowsOf(f) /\ DOMAIN f = DOMAIN action
    BY <1>2, <1>3, Rewritten DEF ActionRows
  <1>5. /\ IsSeq(action') /\ DOMAIN action' = DOMAIN f \cup {Len(f) + 1}
        /\ \A a \in DOMAIN f : action'[a] = f[a]
        /\ action'[Len(f) + 1] = new
    BY <1>1, <1>4, AppendFacts DEF RowsOf
  <1>6. DOMAIN new = {"op", "target", "fresh", "status"} /\ new.op \in Operations
    OBVIOUS
  <1> HIDE DEF f, new
  <1> QED
    BY <1>4, <1>5, <1>6 DEF RowsOf

\* The rows of actions keep their operations, and none is removed.
LEMMA ActionStep ==
  ASSUME Shape, [Next]_vars
  PROVE  RowsOf(action') /\ DOMAIN action \subseteq DOMAIN action'
  <1> DEFINE Goal == RowsOf(action') /\ DOMAIN action \subseteq DOMAIN action'
  <1>0. RowsOf(action)
    BY DEF Shape, ActionRows
  <1>1. CASE action' = action
    BY <1>0, <1>1
  <1>2. ASSUME NEW t, action' = AgedTask(action, t) PROVE Goal
    BY <1>0, <1>2, AgedRows
  <1>3. ASSUME action' = AgedRoute(action) \/ action' = AgedHandoff(action) PROVE Goal
    BY <1>0, <1>3, AgedRows
  <1>4. ASSUME NEW a, NEW s, action' = [action EXCEPT ![a].status = s] PROVE Goal
    BY <1>0, <1>4, StatusWrite
  <1>5. ASSUME NEW a, NEW s, action' = AgedRoute([action EXCEPT ![a].status = s]) PROVE Goal
    <2> DEFINE f == [action EXCEPT ![a].status = s]
    <2>1. RowsOf(f) /\ DOMAIN f = DOMAIN action
      BY <1>0, StatusWrite
    <2> HIDE DEF f
    <2>2. RowsOf(action') /\ DOMAIN action' = DOMAIN f
      BY <1>5, <2>1, AgedRows DEF f
    <2> QED
      BY <2>1, <2>2
  <1>6. ASSUME NEW op \in Operations, NEW t, CreateAction(op, t) PROVE Goal
    BY <1>6, Created DEF Shape
  <1>7. ASSUME NEW s, SetStatus(s) PROVE Goal
    <2>1. action' = [action EXCEPT ![Event.action].status =
                       IF action[Event.action].status = "executing" THEN s
                       ELSE action[Event.action].status]
      BY <1>7 DEF SetStatus
    <2> QED
      BY <2>1, <1>4
  <1>10. CASE LoopStep
    <2>1. CASE Reconcile \/ AdoptHost \/ ClaimInbox \/ TakeMessage \/ ReadRoute \/ Continue
               \/ Prepare \/ Attachments \/ CheckTask \/ Enqueue
      BY <2>1, <1>1 DEF Reconcile, AdoptHost, ClaimInbox, TakeMessage, ReadRoute, Continue,
           Prepare, Attachments, CheckTask, Enqueue
    <2>2. CASE FinishClick \/ Recheck \/ CreateTask \/ StartTask \/ SubmitRequest \/ DecideByCard
      BY <2>2, <1>1 DEF FinishClick, Recheck, CreateTask, StartTask, SubmitRequest, DecideByCard
    <2>3. CASE ExitTerminal \/ ActivateContinuation
      BY <2>3, <1>1, <1>3 DEF ExitTerminal, ActivateContinuation
    <2>4. CASE TakeMenu
      <3>1. At("take") /\ Event.kind = "menu"
        BY <2>4 DEF TakeMenu
      <3>2. Event.op \in Operations
        BY <3>1, CurrentInHand DEF Event, Shape, ReceiptRows, EventRow, At, Resting
      <3>3. action' = action \/ \E t : CreateAction(Event.op, t)
        BY <2>4 DEF TakeMenu
      <3> QED
        BY <1>1, <1>6, <3>2, <3>3
    <2>5. CASE TakeClick
      BY <2>5, <1>1, <1>4 DEF TakeClick
    <2>6. CASE Cancel \/ Reject \/ Succeed \/ FinishPermission
      BY <2>6, <1>7 DEF Cancel, Reject, Succeed, Conclude, FinishPermission
    <2>7. CASE TakeOver \/ Exit
      BY <2>7, <1>1, <1>5 DEF TakeOver, Exit
    <2>8. CASE Complete \/ ResolveHandoff
      BY <2>8, <1>1, <1>2, <1>3 DEF Complete, ResolveHandoff
    <2> QED
      BY <1>10, <2>1, <2>2, <2>3, <2>4, <2>5, <2>6, <2>7, <2>8 DEF LoopStep
  <1>11. CASE WebStep
    <2>1. CASE FinishCard
      <3>1. \E a, s : action' = [action EXCEPT ![a].status = s]
        BY <2>1 DEF FinishCard
      <3> QED
        BY <3>1, <1>4
    <2> QED
      BY <1>11, <2>1, <1>1 DEF WebStep, UnbindAdopt, Tell
  <1>12. CASE Crash \/ UnbindRoute
    BY <1>12, <1>1, <1>3 DEF Crash, UnbindRoute
  <1>13. CASE \/ \E e \in Events : ReceiveInbound(e)
              \/ \E r \in DOMAIN receipt : LeaseRunsOut(r)
              \/ \E r \in DOMAIN download : DownloadEnds(r)
              \/ \E d \in BOOLEAN : DecideInWeb(d)
    BY <1>13, <1>1 DEF ReceiveInbound, LeaseRunsOut, DownloadEnds, DecideInWeb
  <1>14. CASE \E op \in Operations, t \in Tasks \cup {NoTask} : Propose(op, t)
    BY <1>14, <1>6 DEF Propose
  <1>15. CASE \E a \in DOMAIN action : Lapse(a)
    <2>1. PICK a \in DOMAIN action : Lapse(a)
      BY <1>15
    <2>2. action' = action \/ action' = [action EXCEPT ![a].status = "lapsed"]
      BY <2>1 DEF Lapse
    <2> QED
      BY <2>2, <1>1, <1>4
  <1>16. CASE \E t \in Tasks : BindRoute(t) \/ EndTask(t) \/ Touch(t)
    BY <1>16, <1>2, <1>3 DEF BindRoute, EndTask, Touch
  <1>17. CASE UNCHANGED vars
    BY <1>17, <1>1 DEF vars
  <1> QED
    BY <1>10, <1>11, <1>12, <1>13, <1>14, <1>15, <1>16, <1>17 DEF Next

-----------------------------------------------------------------------------
(* How the goroutine moves *)

\* Those at which it has no receipts at all.
Unladen == {"idle", "claim", "exit_terminal"}

\* A step from label to label with the receipts it has.
Turn(l, t) ==
  /\ loop' = [loop EXCEPT !.pc = l, !.target = t]
  /\ l \in Resting \/ loop.queue # {}
  /\ l \in Unladen => loop.pc \in Unladen

\* Only a receipt that waits for its attachments is laid aside unfinished.
LayAside == Leave /\ (Event.kind = "media" \/ \E s \in {"processed", "failed"} : Finish(s))

LEMMA LabelStep ==
  ASSUME Shape, LoopStep
  PROVE  \/ \E l, t : Turn(l, t)
         \/ LayAside /\ loop.pc \notin Resting
         \/ loop' = [Idle EXCEPT !.pc = "claim"] /\ (loop.queue = {} \/ loop.pc \in Unladen)
         \/ ClaimInbox
  <1>0. DOMAIN loop = {"pc", "queue", "target"} /\ (loop.pc \notin Resting => loop.queue # {})
    BY DEF Shape, Goroutine
  <1>1. ASSUME NEW l, Goto(l), l \in Resting \/ loop.queue # {}, l \notin Unladen
        PROVE  \E t : Turn(l, t)
    <2>1. Turn(l, loop.target)
      BY <1>0, <1>1 DEF Turn, Goto
    <2> QED
      BY <2>1
  <1>2. CASE Reconcile
    BY <1>2, <1>0 DEF Reconcile, Turn, At, Resting, Unladen
  <1>3. CASE ExitTerminal
    BY <1>3, <1>1 DEF ExitTerminal, At, Resting, Unladen
  <1>4. CASE AdoptHost
    BY <1>4, <1>1 DEF AdoptHost, Unladen
  <1>5. CASE TakeMessage \/ ReadRoute \/ Continue \/ CreateTask \/ FinishPermission
    <2>1. loop.queue # {}
      BY <1>5, <1>0 DEF TakeMessage, ReadRoute, Continue, CreateTask, FinishPermission, At, Resting
    <2>2. \E l, t : l \notin Unladen /\ loop' = [loop EXCEPT !.pc = l, !.target = t]
      <3>1. CASE TakeMessage
        BY <3>1 DEF TakeMessage, Unladen
      <3>2. CASE ReadRoute
        <4> DEFINE t == IF Routed THEN route ELSE loop.target
                   l == IF task[t] = "completed" THEN "continue" ELSE "media"
        <4>1. l \notin Unladen /\ loop' = [loop EXCEPT !.pc = l, !.target = t]
          BY <3>2 DEF ReadRoute, Unladen
        <4> QED
          BY <4>1
      <3>3. CASE Continue
        <4> DEFINE t == Continuation(loop.target, Current)
                   l == IF t \in Tasks THEN "activate" ELSE "prepare"
        <4>1. l \notin Unladen /\ loop' = [loop EXCEPT !.pc = l, !.target = t]
          BY <3>3 DEF Continue, Unladen
        <4> QED
          BY <4>1
      <3>4. CASE CreateTask
        <4> DEFINE t == Made(Event.action)
                   l == IF t \in Tasks THEN "start" ELSE "prepare"
        <4>1. l \notin Unladen /\ loop' = [loop EXCEPT !.pc = l, !.target = t]
          BY <3>4 DEF CreateTask, Unladen
        <4> QED
          BY <4>1
      <3>5. CASE FinishPermission
        <4> DEFINE l == IF Event.confirm THEN "check" ELSE "done"
        <4>1. l \notin Unladen /\ loop' = [loop EXCEPT !.pc = l, !.target = Card.target]
          BY <3>5 DEF FinishPermission, Unladen
        <4> QED
          BY <4>1
      <3> QED
        BY <1>5, <3>1, <3>2, <3>3, <3>4, <3>5
    <2> QED
      BY <2>1, <2>2 DEF Turn
  <1>6. CASE Prepare \/ ActivateContinuation \/ Attachments \/ CheckTask \/ Enqueue
    <2>1. loop.pc \notin Resting /\ loop.queue # {}
      BY <1>6, <1>0 DEF Prepare, ActivateContinuation, Attachments, CheckTask, Enqueue, At, Resting
    <2>2. LayAside \/ \E l : l \notin Unladen /\ Goto(l)
      <3>1. CASE Prepare \/ ActivateContinuation
        BY <3>1 DEF Prepare, ActivateContinuation, Drop, Finish, LayAside, Unladen
      <3>2. CASE Attachments
        BY <3>2 DEF Attachments, Finish, LayAside, Unladen
      <3>3. CASE CheckTask \/ Enqueue
        BY <3>3 DEF CheckTask, Enqueue, Drop, Finish, LayAside, Unladen
      <3> QED
        BY <1>6, <3>1, <3>2, <3>3
    <2> QED
      BY <1>1, <2>1, <2>2
  <1>7. CASE TakeMenu \/ TakeClick \/ FinishClick \/ DecideByCard
    <2>1. loop.pc \notin Resting /\ loop.queue # {}
      BY <1>7, <1>0 DEF TakeMenu, TakeClick, FinishClick, DecideByCard, At, Resting
    <2>2. LayAside \/ \E l : l \notin Unladen /\ Goto(l)
      <3>1. CASE TakeMenu \/ FinishClick \/ DecideByCard
        BY <3>1 DEF TakeMenu, FinishClick, DecideByCard, Drop, Finish, LayAside, Unladen
      <3>2. CASE TakeClick
        <4>1. Card.op \in Operations
          BY <3>2, CurrentInHand DEF TakeClick, At, Resting, Event, Card, Shape, ReceiptRows,
             EventRow, ActionRows, RowsOf
        <4>2. Entry(Card.op) \notin Unladen
          BY <4>1 DEF Entry, Operations, Unladen
        <4> QED
          BY <3>2, <4>2 DEF TakeClick, Drop, Finish, LayAside, Unladen
      <3> QED
        BY <1>7, <3>1, <3>2
    <2> QED
      BY <1>1, <2>1, <2>2
  <1>8. CASE Cancel \/ Reject \/ Succeed \/ Recheck \/ TakeOver \/ Complete \/ StartTask
              \/ SubmitRequest \/ ResolveHandoff
    <2>1. loop.pc \notin Resting /\ loop.queue # {}
      BY <1>8, <1>0 DEF Cancel, Reject, Succeed, Conclude, Recheck, TakeOver, Complete, StartTask,
           SubmitRequest, ResolveHandoff, At, Resting
    <2>2. \E l : l \notin Unladen /\ Goto(l)
      <3>1. CASE Cancel \/ Reject \/ Succeed \/ TakeOver \/ Complete \/ SubmitRequest
                 \/ ResolveHandoff
        BY <3>1 DEF Cancel, Reject, Succeed, Conclude, TakeOver, Complete, SubmitRequest,
             ResolveHandoff, Unladen
      <3>2. CASE StartTask
        <4> DEFINE l == IF \E i \in DOMAIN mail : mail[i].task = loop.target THEN "succeed"
                        ELSE IF task[loop.target] \in {"completed", "blocked"} THEN "reject"
                        ELSE "submit"
        <4>1. l \notin Unladen /\ Goto(l)
          BY <3>2 DEF StartTask, Unladen
        <4> QED
          BY <4>1
      <3>3. CASE Recheck
        BY <3>3 DEF Recheck, Goto, Unladen
      <3> QED
        BY <1>8, <3>1, <3>2, <3>3
    <2> QED
      BY <1>1, <2>1, <2>2
  <1>9. CASE Exit
    <2>1. loop.pc \notin Resting /\ loop.queue # {}
      BY <1>9, <1>0 DEF Exit, At, Resting
    <2>2. \/ \E l : l \notin Unladen /\ Goto(l)
          \/ loop' = [loop EXCEPT !.pc = "adopt", !.target = Card.target]
      BY <1>9 DEF Exit, Unladen
    <2>3. CASE \E l : l \notin Unladen /\ Goto(l)
      BY <1>1, <2>1, <2>3
    <2>4. CASE loop' = [loop EXCEPT !.pc = "adopt", !.target = Card.target]
      <3>1. Turn("adopt", Card.target)
        BY <2>1, <2>4 DEF Turn, Unladen
      <3> QED
        BY <3>1
    <2> QED
      BY <2>2, <2>3, <2>4
  <1>10. CASE ClaimInbox
    BY <1>10
  <1> QED
    BY <1>2, <1>3, <1>4, <1>5, <1>6, <1>7, <1>8, <1>9, <1>10 DEF LoopStep

LEMMA OthersKeepLoop ==
  ASSUME [Next]_vars, ~ LoopStep
  PROVE  loop' = loop \/ (Crash /\ loop' = Idle)
  <1>1. CASE WebStep \/ UnbindRoute \/ Crash
    BY <1>1 DEF WebStep, UnbindAdopt, FinishCard, Tell, UnbindRoute, Crash
  <1>2. CASE \E t \in Tasks : BindRoute(t) \/ EndTask(t) \/ Touch(t)
    BY <1>2 DEF BindRoute, EndTask, Touch
  <1>3. CASE \/ \E d \in BOOLEAN : DecideInWeb(d)
             \/ \E a \in DOMAIN action : Lapse(a)
             \/ \E r \in DOMAIN receipt : LeaseRunsOut(r)
             \/ \E e \in Events : ReceiveInbound(e)
    BY <1>3 DEF DecideInWeb, Lapse, LeaseRunsOut, ReceiveInbound
  <1>4. CASE \/ \E r \in DOMAIN download : DownloadEnds(r)
             \/ \E op \in Operations, t \in Tasks \cup {NoTask} : Propose(op, t)
             \/ UNCHANGED vars
    BY <1>4 DEF DownloadEnds, Propose, vars
  <1> QED
    BY <1>1, <1>2, <1>3, <1>4 DEF Next

\* The goroutine has receipts of its own lease in its hands, and one at least
\* while it works.
LEMMA GoroutineStep ==
  ASSUME Shape, [Next]_vars
  PROVE  Goroutine'
  <1>0. /\ DOMAIN loop = {"pc", "queue", "target"}
        /\ \A r \in loop.queue : r \in DOMAIN receipt /\ receipt[r].state = "processing"
        /\ loop.pc \notin Resting => loop.queue # {}
    BY DEF Shape, Goroutine
  <1>1. /\ \A r \in DOMAIN receipt : r \in DOMAIN receipt'
        /\ \A r \in loop.queue : receipt'[r].state = "processing" \/ (Leave /\ r = Current)
    BY ReceiptStep
  <1>7. Leave => loop'.queue = loop.queue \ {Current}
    BY DEF Leave, Idle
  <1>2. CASE loop' = loop
    <2>1. ~ (Leave /\ Current \in loop.queue)
      BY <1>2, <1>7
    <2> QED
      BY <1>0, <1>1, <1>2, <2>1 DEF Goroutine
  <1>3. CASE loop' = Idle \/ loop' = [Idle EXCEPT !.pc = "claim"]
    BY <1>3 DEF Goroutine, Idle, Resting
  <1>4. CASE \E l, t : Turn(l, t)
    <2>1. PICK l, t : Turn(l, t)
      BY <1>4
    <2>2. /\ loop'.queue = loop.queue /\ DOMAIN loop' = {"pc", "queue", "target"}
          /\ loop'.pc \notin Resting => loop.queue # {}
      BY <1>0, <2>1 DEF Turn
    <2>3. ~ (Leave /\ Current \in loop.queue)
      BY <2>2, <1>7
    <2> QED
      BY <1>0, <1>1, <2>2, <2>3 DEF Goroutine
  <1>5. CASE LayAside /\ loop.pc \notin Resting
    <2>1. Current \in loop.queue
      BY <1>5, CurrentInHand
    <2>2. /\ loop'.queue = loop.queue \ {Current} /\ DOMAIN loop' = {"pc", "queue", "target"}
          /\ loop'.pc \notin Resting => loop.queue # {Current}
      BY <1>5, <1>7 DEF LayAside, Leave, Idle, Resting
    <2> QED
      BY <1>0, <1>1, <2>1, <2>2 DEF Goroutine
  <1>6. CASE ClaimInbox
    <2>1. /\ loop'.queue = Claimable /\ DOMAIN loop' = {"pc", "queue", "target"}
          /\ loop'.pc \notin Resting => Claimable # {}
      BY <1>6 DEF ClaimInbox, Idle, Resting
    <2>2. \A r \in Claimable : r \in DOMAIN receipt
      BY DEF Claimable
    <2>3. \A r \in Claimable : receipt'[r] = [receipt[r] EXCEPT !.state = "processing"]
      BY <1>6, <2>2 DEF ClaimInbox
    <2>4. \A r \in Claimable : receipt'[r].state = "processing"
      BY <2>2, <2>3 DEF Shape, ReceiptRows
    <2> QED
      BY <1>1, <2>1, <2>2, <2>4 DEF Goroutine
  <1> QED
    BY <1>2, <1>3, <1>4, <1>5, <1>6, LabelStep, OthersKeepLoop

\* From where the goroutine comes to a watched label, and what it writes then.
Arrival ==
  /\ loop'.queue = loop.queue /\ loop.queue # {}
  /\ UNCHANGED <<receipt, mail, web>>
  /\ \/ loop'.pc = "route" /\ Event.kind # "click"
     \/ loop'.pc = "continue" /\ loop.pc = "route"
     \/ loop'.pc = "prepare" /\ (loop.pc = "continue" \/ loop'.target = Made(Event.action))
     \/ /\ loop'.pc = "start"
        /\ \/ loop'.target = Made(Event.action)
           \/ loop.pc = "prepare" /\ Event.kind = "click" /\ loop'.target = loop.target
     \/ /\ loop'.pc = "submit" /\ loop.pc = "start" /\ loop'.target = loop.target
        /\ \A i \in DOMAIN mail : mail[i].task # loop.target
     \/ loop'.pc = "decided" /\ request = "pending" /\ request' \in {"approved", "rejected"}
     \/ /\ loop'.pc = "check" /\ request' = request
        /\ Event.kind # "click" \/ loop.pc = "decided"
     \/ loop'.pc = "enqueue" /\ loop.pc = "check" /\ request' = request

LEMMA Arrives ==
  ASSUME Shape, LoopStep
  PROVE  loop'.pc \notin Watched \/ Arrival
  <1>0. DOMAIN loop = {"pc", "queue", "target"} /\ (loop.pc \notin Resting => loop.queue # {})
    BY DEF Shape, Goroutine
  <1>1. ASSUME NEW l, Goto(l)
        PROVE  loop'.pc = l /\ loop'.queue = loop.queue /\ loop'.target = loop.target
    BY <1>0, <1>1 DEF Goto
  <1>2. CASE Leave
    BY <1>2 DEF Leave, Idle, Watched
  <1>3. CASE Reconcile \/ ClaimInbox
    BY <1>0, <1>3 DEF Reconcile, ClaimInbox, Idle, Watched
  <1>4. CASE ExitTerminal \/ AdoptHost
    BY <1>4, <1>1 DEF ExitTerminal, AdoptHost, Idle, Watched
  <1>5. CASE TakeMessage
    BY <1>5, <1>0 DEF TakeMessage, Arrival, At, Resting
  <1>6. CASE ReadRoute
    BY <1>6, <1>0 DEF ReadRoute, Arrival, At, Resting, Watched
  <1>7. CASE Continue
    BY <1>7, <1>0 DEF Continue, Arrival, At, Resting, Watched
  <1>8. CASE Prepare
    BY <1>8, <1>0, <1>1, <1>2 DEF Prepare, Drop, Finish, Arrival, At, Resting, Watched
  <1>9. CASE ActivateContinuation
    BY <1>9, <1>1 DEF ActivateContinuation, Watched
  <1>10. CASE Attachments
    BY <1>10, <1>0, <1>1, <1>2 DEF Attachments, Finish, Arrival, At, Resting
  <1>11. CASE CheckTask
    BY <1>11, <1>0, <1>1, <1>2 DEF CheckTask, Drop, Finish, Arrival, At, Resting
  <1>12. CASE Enqueue \/ TakeMenu \/ FinishClick
    BY <1>12, <1>1, <1>2 DEF Enqueue, TakeMenu, FinishClick, Drop, Finish, Watched
  <1>13. CASE TakeClick
    <2>1. CASE Event.action \in DOMAIN action /\ ~ Leave
      <3>1. Card.op \in Operations
        BY <2>1 DEF Card, Shape, ActionRows, RowsOf
      <3>2. Goto(Entry(Card.op)) \/ Goto("cancel")
        BY <1>13, <2>1 DEF TakeClick, Drop, Finish
      <3>3. Entry(Card.op) \notin Watched
        BY <3>1 DEF Entry, Operations, Watched
      <3> QED
        BY <1>1, <3>2, <3>3 DEF Watched
    <2>2. Event.action \in DOMAIN action
      BY <1>13, CurrentInHand DEF TakeClick, Event, Shape, ReceiptRows, EventRow, At, Resting
    <2> QED
      BY <1>2, <2>1, <2>2
  <1>14. CASE Cancel \/ Reject \/ Succeed
    BY <1>14, <1>1 DEF Cancel, Reject, Succeed, Conclude, Watched
  <1>15. CASE Recheck
    BY <1>15, <1>0 DEF Recheck, Watched
  <1>16. CASE TakeOver \/ Exit \/ Complete \/ ResolveHandoff
    <2>1. \/ Goto("done") \/ Goto("reject") \/ Goto("succeed")
          \/ loop' = [loop EXCEPT !.pc = "adopt", !.target = Card.target]
      BY <1>16 DEF TakeOver, Exit, Complete, ResolveHandoff
    <2>2. CASE Goto("done") \/ Goto("reject") \/ Goto("succeed")
      BY <1>1, <2>2 DEF Watched
    <2>3. CASE loop' = [loop EXCEPT !.pc = "adopt", !.target = Card.target]
      <3>1. loop'.pc = "adopt"
        BY <1>0, <2>3
      <3> QED
        BY <3>1 DEF Watched
    <2> QED
      BY <2>1, <2>2, <2>3
  <1>17. CASE CreateTask
    BY <1>17, <1>0 DEF CreateTask, Arrival, At, Resting
  <1>18. CASE StartTask
    BY <1>18, <1>0, <1>1 DEF StartTask, Arrival, At, Resting, Watched
  <1>19. CASE SubmitRequest
    BY <1>19, <1>1 DEF SubmitRequest, Watched
  <1>20. CASE DecideByCard
    BY <1>20, <1>0, <1>1, <1>2 DEF DecideByCard, Drop, Finish, Arrival, At, Resting
  <1>21. CASE FinishPermission
    BY <1>21, <1>0 DEF FinishPermission, Arrival, At, Resting, Watched
  <1> QED
    BY <1>3, <1>4, <1>5, <1>6, <1>7, <1>8, <1>9, <1>10, <1>11, <1>12, <1>13, <1>14, <1>15,
       <1>16, <1>17, <1>18, <1>19, <1>20, <1>21 DEF LoopStep

\* Who sends a message.
LEMMA Senders ==
  ASSUME [Next]_vars
  PROVE  mail' = mail \/ Enqueue \/ SubmitRequest \/ (Tell /\ web.pc = "tell")
  <1>1. CASE LoopStep
    <2>1. CASE Reconcile \/ ExitTerminal \/ AdoptHost \/ ClaimInbox \/ TakeMessage \/ ReadRoute
               \/ Continue \/ Prepare \/ ActivateContinuation \/ Attachments \/ CheckTask
      BY <2>1 DEF Reconcile, ExitTerminal, AdoptHost, ClaimInbox, TakeMessage, ReadRoute,
           Continue, Prepare, ActivateContinuation, Attachments, CheckTask
    <2>2. CASE TakeMenu \/ TakeClick \/ Cancel \/ Reject \/ Succeed \/ FinishClick \/ Recheck
      BY <2>2 DEF TakeMenu, TakeClick, Cancel, Reject, Succeed, Conclude, FinishClick, Recheck
    <2>3. CASE TakeOver \/ Exit \/ Complete \/ CreateTask \/ StartTask \/ ResolveHandoff
               \/ DecideByCard \/ FinishPermission
      BY <2>3 DEF TakeOver, Exit, Complete, CreateTask, StartTask, ResolveHandoff,
           DecideByCard, FinishPermission
    <2> QED
      BY <1>1, <2>1, <2>2, <2>3 DEF LoopStep
  <1>2. CASE WebStep \/ UnbindRoute \/ Crash
    BY <1>2 DEF WebStep, UnbindAdopt, FinishCard, Tell, UnbindRoute, Crash
  <1>3. CASE \E t \in Tasks : BindRoute(t) \/ EndTask(t) \/ Touch(t)
    BY <1>3 DEF BindRoute, EndTask, Touch
  <1>4. CASE \/ \E d \in BOOLEAN : DecideInWeb(d)
             \/ \E a \in DOMAIN action : Lapse(a)
             \/ \E r \in DOMAIN receipt : LeaseRunsOut(r)
             \/ \E e \in Events : ReceiveInbound(e)
    BY <1>4 DEF DecideInWeb, Lapse, LeaseRunsOut, ReceiveInbound
  <1>5. CASE \/ \E r \in DOMAIN download : DownloadEnds(r)
             \/ \E op \in Operations, t \in Tasks \cup {NoTask} : Propose(op, t)
             \/ UNCHANGED vars
    BY <1>5 DEF DownloadEnds, Propose, vars
  <1> QED
    BY <1>1, <1>2, <1>3, <1>4, <1>5 DEF Next

\* Who takes the approval to be told, and a decision is for good.
WebHas == web.pc \in {"card", "check", "tell"}

LEMMA Deciders ==
  ASSUME Shape, [Next]_vars
  PROVE  /\ request \notin {"none", "pending"} => request' = request
         /\ DOMAIN web' = {"pc", "target"}
         /\ WebHas' => \/ WebHas /\ (loop' = loop \/ web' = web)
                       \/ /\ request = "pending" /\ request' \in {"approved", "rejected"}
                          /\ UNCHANGED <<loop, mail>>
  <1>0. DOMAIN web = {"pc", "target"}
    BY DEF Shape
  <1>1. CASE LoopStep
    <2>1. CASE Reconcile \/ ExitTerminal \/ AdoptHost \/ ClaimInbox \/ TakeMessage \/ ReadRoute
               \/ Continue \/ Prepare \/ ActivateContinuation \/ Attachments \/ CheckTask
               \/ Enqueue
      BY <1>0, <2>1 DEF WebHas, Reconcile, ExitTerminal, AdoptHost, ClaimInbox, TakeMessage,
           ReadRoute, Continue, Prepare, ActivateContinuation, Attachments, CheckTask, Enqueue
    <2>2. CASE TakeMenu \/ TakeClick \/ Cancel \/ Reject \/ Succeed \/ FinishClick \/ Recheck
      BY <1>0, <2>2 DEF WebHas, TakeMenu, TakeClick, Cancel, Reject, Succeed, Conclude,
           FinishClick, Recheck
    <2>3. CASE TakeOver \/ Exit \/ Complete \/ CreateTask \/ StartTask \/ ResolveHandoff
               \/ SubmitRequest \/ FinishPermission
      BY <1>0, <2>3 DEF WebHas, TakeOver, Exit, Complete, CreateTask, StartTask,
           ResolveHandoff, SubmitRequest, FinishPermission
    <2>4. CASE DecideByCard
      BY <1>0, <2>4 DEF WebHas, DecideByCard
    <2> QED
      BY <1>1, <2>1, <2>2, <2>3, <2>4 DEF LoopStep
  <1>2. CASE UnbindAdopt \/ FinishCard \/ Tell
    BY <1>0, <1>2 DEF WebHas, WebIdle, UnbindAdopt, FinishCard, Tell
  <1>3. CASE UnbindRoute \/ Crash
    BY <1>0, <1>3 DEF WebHas, WebIdle, UnbindRoute, Crash
  <1>4. CASE \E t \in Tasks : BindRoute(t) \/ EndTask(t) \/ Touch(t)
    BY <1>0, <1>4 DEF WebHas, BindRoute, EndTask, Touch
  <1>5. CASE \E d \in BOOLEAN : DecideInWeb(d)
    BY <1>0, <1>5 DEF WebHas, WebIdle, DecideInWeb
  <1>6. CASE \/ \E a \in DOMAIN action : Lapse(a)
             \/ \E r \in DOMAIN receipt : LeaseRunsOut(r)
             \/ \E e \in Events : ReceiveInbound(e)
    BY <1>0, <1>6 DEF WebHas, Asks, Lapse, LeaseRunsOut, ReceiveInbound
  <1>7. CASE (\E r \in DOMAIN download : DownloadEnds(r)) \/ UNCHANGED vars
    BY <1>0, <1>7 DEF WebHas, DownloadEnds, vars
  <1>9. ASSUME NEW op, NEW t, Propose(op, t)
        PROVE  /\ UNCHANGED <<loop, mail, web>>
               /\ request' = request \/ request = "none"
    <2>1. op = "task_permission" => request = "none"
      BY <1>9 DEF Propose, Eligible
    <2> QED
      BY <1>9, <2>1 DEF Propose
  <1>8. \/ LoopStep \/ UnbindAdopt \/ FinishCard \/ Tell \/ UnbindRoute \/ Crash
        \/ \E t \in Tasks : BindRoute(t) \/ EndTask(t) \/ Touch(t)
        \/ \E d \in BOOLEAN : DecideInWeb(d)
        \/ \E a \in DOMAIN action : Lapse(a)
        \/ \E r \in DOMAIN receipt : LeaseRunsOut(r)
        \/ \E e \in Events : ReceiveInbound(e)
        \/ \E r \in DOMAIN download : DownloadEnds(r)
        \/ \E op \in Operations, t \in Tasks \cup {NoTask} : Propose(op, t)
        \/ UNCHANGED vars
    BY DEF Next, WebStep
  <1> QED
    BY <1>0, <1>1, <1>2, <1>3, <1>4, <1>5, <1>6, <1>7, <1>8, <1>9 DEF WebHas

-----------------------------------------------------------------------------
(* The invariant *)

\* What the goroutine has read holds where it acts on it.
LoopReads ==
  /\ loop.pc \in {"route", "continue"} => Event.kind # "click"
  /\ \/ loop.pc \in {"start", "submit"}
     \/ loop.pc = "prepare" /\ Event.kind = "click"
     => loop.target = Made(Event.action)
  /\ loop.pc = "submit" => ~ Sent("action", Event.action)

\* A receipt that became a message is settled; a created task's request is in
\* the task, where StartTask looks for it.
MailRows ==
  \A i \in DOMAIN mail :
    /\ \A r : mail[i].from = <<"receipt", r>> =>
              r \in DOMAIN receipt /\ receipt[r].state = "processed"
    /\ \A a : mail[i].from = <<"action", a>> => mail[i].task = Made(a)

LoopHas == loop.pc = "decided" \/ (loop.pc \in {"check", "enqueue"} /\ Event.kind = "click")

\* The right to tell the approval is with one handler, or it was used.
OneApproval ==
  /\ ~ (LoopHas /\ WebHas)
  /\ LoopHas \/ WebHas => ~ Sent("approval", 0)
  /\ LoopHas \/ WebHas \/ Sent("approval", 0) => request \in {"approved", "rejected"}

InboundInv == Shape /\ LoopReads /\ MailRows /\ OneApproval /\ SubmittedOnce

LEMMA InitInbound == Init => InboundInv
  <1> SUFFICES ASSUME Init PROVE InboundInv
    OBVIOUS
  <1>1. IsSeq(<<>>) /\ DOMAIN <<>> = {}
    <2>1. <<>> \in Seq({}) /\ Len(<<>>) = 0
      OBVIOUS
    <2> QED
      BY <2>1, SeqDomain DEF IsSeq
  <1>2. Shape
    BY <1>1 DEF Init, Shape, ReceiptRows, ActionRows, RowsOf, Goroutine, Idle, WebIdle, Resting
  <1>3. LoopReads
    BY DEF Init, LoopReads, Idle
  <1>4. MailRows /\ SubmittedOnce
    BY <1>1 DEF Init, MailRows, SubmittedOnce
  <1>5. OneApproval
    BY <1>1 DEF Init, OneApproval, LoopHas, WebHas, Sent, Idle, WebIdle
  <1> QED
    BY <1>2, <1>3, <1>4, <1>5 DEF InboundInv

LEMMA ShapeStep ==
  ASSUME Shape, [Next]_vars, IsSeq(mail')
  PROVE  Shape'
  <1>1. ReceiptRows'
    <2>1. /\ IsSeq(receipt')
          /\ \A r \in DOMAIN receipt' : DOMAIN receipt'[r] = {"event", "state"}
          /\ \A r \in DOMAIN receipt : receipt'[r].event = receipt[r].event
          /\ \A r \in DOMAIN receipt' \ DOMAIN receipt : receipt'[r].event \in Events
      BY ReceiptStep
    <2>2. ASSUME NEW e, EventRow(e) PROVE EventRow(e)'
      BY <2>2, ActionStep DEF EventRow
    <2>3. ASSUME NEW r \in DOMAIN receipt' PROVE EventRow(receipt'[r].event)
      BY <2>1, <2>3, EventRows DEF Shape, ReceiptRows
    <2> QED
      BY <2>1, <2>2, <2>3 DEF ReceiptRows
  <1>2. ActionRows'
    BY ActionStep DEF ActionRows
  <1>3. Goroutine' /\ DOMAIN web' = {"pc", "target"}
    BY GoroutineStep, Deciders
  <1> QED
    BY <1>1, <1>2, <1>3 DEF Shape

\* One more message.
LEMMA Sends ==
  ASSUME IsSeq(mail), NEW t, NEW k, NEW n, Send(t, k, n)
  PROVE  /\ IsSeq(mail') /\ DOMAIN mail \subseteq DOMAIN mail'
         /\ \A i \in DOMAIN mail : mail'[i] = mail[i]
         /\ DOMAIN mail' = DOMAIN mail \cup {Len(mail) + 1}
         /\ mail'[Len(mail) + 1].task = t /\ mail'[Len(mail) + 1].from = <<k, n>>
  <1>1. mail' = Append(mail, [task |-> t, from |-> <<k, n>>])
    BY DEF Send
  <1> DEFINE m == [task |-> t, from |-> <<k, n>>]
  <1>2. m.task = t /\ m.from = <<k, n>>
    OBVIOUS
  <1> HIDE DEF m
  <1> QED
    BY <1>1, <1>2, AppendFacts DEF m

\* The goroutine is where it was, or it has come to a watched label.
LEMMA Watching ==
  ASSUME Shape, [Next]_vars, loop'.pc \in Watched
  PROVE  /\ Event' = Event /\ Current' = Current
         /\ (~ LoopStep /\ loop' = loop) \/ (LoopStep /\ Arrival)
  <1>1. CASE LoopStep
    <2>1. Arrival
      BY <1>1, Arrives
    <2>2. receipt' = receipt /\ loop'.queue = loop.queue
      BY <2>1 DEF Arrival
    <2> QED
      BY <1>1, <2>1, <2>2 DEF Event, Current
  <1>2. CASE ~ LoopStep
    <2>1. loop' = loop
      BY <1>2, OthersKeepLoop DEF Idle, Watched
    <2>2. Current' = Current
      BY <2>1 DEF Current
    <2>3. Current \in DOMAIN receipt
      BY <2>1, CurrentInHand DEF Watched, Resting
    <2>4. receipt'[Current].event = receipt[Current].event
      BY <2>3, ReceiptStep
    <2> QED
      BY <1>2, <2>1, <2>2, <2>4 DEF Event
  <1> QED
    BY <1>1, <1>2

\* Which messages there are after a step.
LEMMA MailStep ==
  ASSUME InboundInv, [Next]_vars
  PROVE  /\ IsSeq(mail') /\ MailRows' /\ SubmittedOnce'
         /\ \A a : Sent("action", a)' => Sent("action", a) \/ loop'.pc \notin Watched
         /\ Sent("approval", 0)' => \/ Sent("approval", 0)
                                    \/ LoopHas /\ LoopStep /\ loop'.pc \notin Watched
                                    \/ WebHas /\ loop' = loop /\ ~ WebHas'
         /\ SubmitRequest \/ Enqueue => loop'.pc \notin Watched
  <1> DEFINE Goal == /\ IsSeq(mail') /\ MailRows' /\ SubmittedOnce'
                     /\ \A a : Sent("action", a)' => Sent("action", a) \/ loop'.pc \notin Watched
                     /\ Sent("approval", 0)' => \/ Sent("approval", 0)
                                                \/ LoopHas /\ LoopStep /\ loop'.pc \notin Watched
                                                \/ WebHas /\ loop' = loop /\ ~ WebHas'
  <1>0. /\ IsSeq(mail) /\ MailRows /\ SubmittedOnce /\ Shape /\ LoopReads /\ OneApproval
    BY DEF InboundInv, Shape
  <1>1. /\ \A r \in DOMAIN receipt :
             /\ r \in DOMAIN receipt'
             /\ receipt[r].state = "processed" => receipt'[r].state = "processed"
    BY <1>0, ReceiptStep
  <1>2. SubmitRequest \/ Enqueue => loop'.pc \notin Watched
    <2>1. CASE SubmitRequest
      BY <1>0, <2>1 DEF SubmitRequest, Goto, Shape, Goroutine, Watched
    <2>2. CASE Enqueue
      BY <2>2 DEF Enqueue, Finish, Leave, Idle, Watched
    <2> QED
      BY <2>1, <2>2
  <1>3. CASE mail' = mail
    <2>1. \A a : Made(a)' = Made(a)
      BY DEF Made
    <2>2. MailRows'
      BY <1>0, <1>1, <1>3, <2>1 DEF MailRows
    <2> QED
      BY <1>0, <1>2, <1>3, <2>2 DEF SubmittedOnce, Sent
  <1>4. ASSUME NEW t, NEW k, NEW n, Send(t, k, n), ~ Sent(k, n),
               k = "receipt" => n \in DOMAIN receipt /\ receipt'[n].state = "processed",
               k = "action" => t = Made(n)
        PROVE  /\ IsSeq(mail') /\ MailRows' /\ SubmittedOnce'
               /\ \A l, m : Sent(l, m)' => Sent(l, m) \/ (l = k /\ m = n)
    <2>0. Send(t, k, n)
      BY <1>4
    <2> DEFINE j == Len(mail) + 1
    <2>1. /\ DOMAIN mail' = DOMAIN mail \cup {j} /\ j \in DOMAIN mail'
          /\ mail'[j].task = t /\ mail'[j].from = <<k, n>>
      BY <1>0, <2>0, Sends
    <2>2. IsSeq(mail') /\ \A i \in DOMAIN mail : mail'[i] = mail[i]
      BY <1>0, <2>0, Sends
    <2> HIDE DEF j
    <2>3. MailRows'
      <3>1. ASSUME NEW i \in DOMAIN mail, NEW r, mail'[i].from = <<"receipt", r>>
            PROVE  r \in DOMAIN receipt' /\ receipt'[r].state = "processed"
        BY <1>0, <1>1, <2>2, <3>1 DEF MailRows
      <3>2. ASSUME NEW i \in DOMAIN mail, NEW a, mail'[i].from = <<"action", a>>
            PROVE  mail'[i].task = Made(a)
        BY <1>0, <2>2, <3>2 DEF MailRows
      <3>3. ASSUME NEW r, mail'[j].from = <<"receipt", r>>
            PROVE  r \in DOMAIN receipt' /\ receipt'[r].state = "processed"
        BY <1>1, <1>4, <2>1, <3>3
      <3>4. ASSUME NEW a, mail'[j].from = <<"action", a>> PROVE mail'[j].task = Made(a)
        BY <1>4, <2>1, <3>4
      <3>5. \A a : Made(a)' = Made(a)
        BY DEF Made
      <3> QED
        BY <2>1, <3>1, <3>2, <3>3, <3>4, <3>5 DEF MailRows
    <2>4. SubmittedOnce'
      <3>1. \A i \in DOMAIN mail : mail'[i].from # mail'[j].from
        BY <1>4, <2>1, <2>2 DEF Sent
      <3> QED
        BY <1>0, <2>1, <2>2, <3>1 DEF SubmittedOnce
    <2>5. ASSUME NEW l, NEW m, Sent(l, m)' PROVE Sent(l, m) \/ (l = k /\ m = n)
      BY <2>1, <2>2, <2>5 DEF Sent
    <2> QED
      BY <2>2, <2>3, <2>4, <2>5
  <1>5. CASE Enqueue
    <2>1. /\ loop.pc = "enqueue" /\ Finish("processed")
          /\ IF Event.kind = "click" THEN Send(loop.target, "approval", 0)
                                     ELSE Send(loop.target, "receipt", Current)
      BY <1>5 DEF Enqueue, At
    <2>2. /\ Current \in DOMAIN receipt /\ receipt[Current].state = "processing"
          /\ DOMAIN receipt[Current] = {"event", "state"}
      BY <1>0, <2>1, CurrentInHand DEF Resting, Shape, ReceiptRows
    <2>3. receipt'[Current].state = "processed"
      BY <2>1, <2>2 DEF Finish
    <2>4. CASE Event.kind = "click"
      <3>1. LoopHas /\ LoopStep /\ ~ Sent("approval", 0)
        BY <1>0, <1>5, <2>1, <2>4 DEF LoopHas, LoopStep, OneApproval
      <3> QED
        BY <1>2, <1>4, <1>5, <2>1, <2>4, <3>1
    <2>5. CASE Event.kind # "click"
      <3>1. ~ Sent("receipt", Current)
        BY <1>0, <2>2 DEF MailRows, Sent
      <3> QED
        BY <1>2, <1>4, <1>5, <2>1, <2>2, <2>3, <2>5, <3>1
    <2> QED
      BY <2>4, <2>5
  <1>6. CASE SubmitRequest
    <2>1. loop.pc = "submit" /\ Send(loop.target, "action", Event.action)
      BY <1>6 DEF SubmitRequest, At
    <2>2. loop.target = Made(Event.action) /\ ~ Sent("action", Event.action)
      BY <1>0, <2>1 DEF LoopReads
    <2> QED
      BY <1>2, <1>4, <1>6, <2>1, <2>2
  <1>7. CASE Tell /\ web.pc = "tell"
    <2>1. Send(web.target, "approval", 0) /\ web' = WebIdle /\ loop' = loop
      BY <1>7 DEF Tell
    <2>2. WebHas /\ ~ WebHas' /\ ~ Sent("approval", 0)
      BY <1>0, <1>7, <2>1 DEF WebHas, WebIdle, OneApproval
    <2> QED
      BY <1>2, <1>4, <2>1, <2>2
  <1> QED
    BY <1>2, <1>3, <1>5, <1>6, <1>7, Senders

LEMMA WorkStep ==
  ASSUME InboundInv, [Next]_vars
  PROVE  LoopReads'
  <1>0. Shape /\ LoopReads /\ MailRows
    BY DEF InboundInv
  <1>1. CASE loop'.pc \notin Watched
    BY <1>1 DEF LoopReads, Watched
  <1>2. CASE loop'.pc \in Watched
    <2>1. Event' = Event /\ Made(Event.action)' = Made(Event.action)
      BY <1>0, <1>2, Watching DEF Made
    <2>2. Sent("action", Event.action)' => Sent("action", Event.action)
      BY <1>2, <2>1, MailStep DEF Sent
    <2>3. CASE loop' = loop
      BY <1>0, <2>1, <2>2, <2>3 DEF LoopReads
    <2>4. CASE Arrival
      <3>1. loop'.pc = "submit" => ~ Sent("action", Event.action)
        BY <1>0, <2>4 DEF Arrival, LoopReads, MailRows, Sent
      <3>2. loop'.pc \in {"route", "continue"} => Event.kind # "click"
        BY <1>0, <2>4 DEF Arrival, LoopReads
      <3>3. \/ loop'.pc \in {"start", "submit"}
            \/ loop'.pc = "prepare" /\ Event.kind = "click"
            => loop'.target = Made(Event.action)
        BY <1>0, <2>4 DEF Arrival, LoopReads
      <3> QED
        BY <2>1, <2>2, <3>1, <3>2, <3>3 DEF LoopReads
    <2> QED
      BY <1>0, <1>2, <2>3, <2>4, Watching
  <1> QED
    BY <1>1, <1>2

LEMMA ApprovalStep ==
  ASSUME InboundInv, [Next]_vars
  PROVE  OneApproval'
  <1> DEFINE D(q) == q \in {"approved", "rejected"}
  <1>0. Shape /\ OneApproval
    BY DEF InboundInv
  <1>1. /\ D(request) => request' = request
        /\ WebHas' => \/ WebHas /\ (loop' = loop \/ web' = web)
                      \/ request = "pending" /\ D(request') /\ UNCHANGED <<loop, mail>>
    BY <1>0, Deciders
  <1>2. Sent("approval", 0)' => \/ Sent("approval", 0)
                                \/ LoopHas /\ LoopStep /\ loop'.pc \notin Watched
                                \/ WebHas /\ loop' = loop /\ ~ WebHas'
    BY MailStep
  <1>3. LoopHas' => \/ LoopHas /\ (loop' = loop \/ (Arrival /\ request' = request))
                    \/ request = "pending" /\ D(request') /\ Arrival
    <2> SUFFICES ASSUME LoopHas'
                 PROVE  \/ LoopHas /\ (loop' = loop \/ (Arrival /\ request' = request))
                        \/ request = "pending" /\ D(request') /\ Arrival
      OBVIOUS
    <2>1. loop'.pc \in Watched
      BY DEF LoopHas, Watched
    <2>2. Event' = Event /\ (loop' = loop \/ Arrival)
      BY <1>0, <2>1, Watching
    <2> QED
      BY <2>2 DEF LoopHas, Arrival
  <1> QED
    BY <1>0, <1>1, <1>2, <1>3 DEF OneApproval, LoopHas, Arrival, Watched

LEMMA InboundStep ==
  ASSUME InboundInv, [Next]_vars
  PROVE  InboundInv'
  <1>1. IsSeq(mail') /\ MailRows' /\ SubmittedOnce'
    BY MailStep
  <1>2. Shape'
    BY <1>1, ShapeStep DEF InboundInv
  <1> QED
    BY <1>1, <1>2, WorkStep, ApprovalStep DEF InboundInv

\* The inbound side submits nothing twice (internal/store/channel_inbound.go:131,
\* internal/channel/service.go:1442, 1840), whatever the bounds of a run.
THEOREM OnceSubmitted == Spec => []SubmittedOnce
  <1>1. Init => InboundInv
    BY InitInbound
  <1>2. InboundInv /\ [Next]_vars => InboundInv'
    BY InboundStep
  <1>3. InboundInv => SubmittedOnce
    BY DEF InboundInv
  <1> QED
    BY <1>1, <1>2, <1>3, PTL DEF Spec

-----------------------------------------------------------------------------
(* Messages are sent in the order they were received *)

Plain(r) == receipt[r].event.kind = "message"

\* What the goroutine has in its hands came before everything it has not taken.
QueueFirst ==
  \A q \in loop.queue : \A r \in DOMAIN receipt : receipt[r].state = "received" => q < r

\* A receipt without attachments is in its hands until it is settled.
NoneDeferred ==
  \A r \in DOMAIN receipt :
    Plain(r) /\ receipt[r].state \notin {"received", "processed", "failed"} => r \in loop.queue

\* What was sent came before everything without attachments that is not settled.
SentFirst ==
  \A i \in DOMAIN mail, r \in DOMAIN receipt :
    /\ mail[i].from[1] = "receipt" /\ Plain(mail[i].from[2])
    /\ Plain(r) /\ ~ Resolved(r)
    => mail[i].from[2] < r

Counted == left \in [upsets : Nat, crashes : 0..MaxCrashes]
Unloaded == loop.pc \in Unladen => loop.queue = {}
Letters == \A i \in DOMAIN mail : mail[i].from = <<mail[i].from[1], mail[i].from[2]>>

Ordered == QueueFirst /\ NoneDeferred /\ SentFirst /\ InReceivedOrder

OrderInv == Counted /\ Unloaded /\ Letters /\ (~ Crashed => Ordered)

LEMMA InitOrder == Init => OrderInv
  <1> SUFFICES ASSUME Init PROVE OrderInv
    OBVIOUS
  <1>1. DOMAIN mail = {} /\ DOMAIN receipt = {}
    BY DEF Init
  <1>2. Counted
    BY InboundAssumption DEF Init, Counted
  <1>3. Unloaded /\ loop.queue = {}
    BY DEF Init, Unloaded, Idle
  <1> QED
    BY <1>1, <1>2, <1>3
    DEF OrderInv, Letters, Ordered, QueueFirst, NoneDeferred, SentFirst, InReceivedOrder

\* Only a crash spends one.
LEMMA CrashCounts ==
  ASSUME Counted, [Next]_vars
  PROVE  Counted' /\ (left'.crashes = left.crashes \/ Crash) /\ (Crash => Crashed')
  <1> DEFINE Goal == Counted' /\ (left'.crashes = left.crashes \/ Crash)
  <1>0. MaxCrashes \in Nat /\ left.upsets \in Nat /\ left.crashes \in 0..MaxCrashes
    BY InboundAssumption DEF Counted
  <1>1. ASSUME left' = left PROVE Goal
    BY <1>1 DEF Counted
  <1>2. ASSUME Spend PROVE Goal
    <2>1. left.upsets > 0 /\ left' = [left EXCEPT !.upsets = left.upsets - 1]
      BY <1>2 DEF Spend
    <2>2. left.upsets - 1 \in Nat
      BY <1>0, <2>1
    <2>3. left'.crashes = left.crashes /\ left' \in [upsets : Nat, crashes : 0..MaxCrashes]
      BY <2>1, <2>2 DEF Counted
    <2> QED
      BY <2>3 DEF Counted
  <1>3. ASSUME LoopStep PROVE Goal
    <2>1. CASE Reconcile \/ ExitTerminal \/ AdoptHost \/ ClaimInbox \/ TakeMessage \/ ReadRoute
               \/ Continue \/ Prepare \/ ActivateContinuation \/ Attachments \/ CheckTask
               \/ Enqueue
      BY <1>1, <2>1 DEF Reconcile, ExitTerminal, AdoptHost, ClaimInbox, TakeMessage, ReadRoute,
           Continue, Prepare, ActivateContinuation, Attachments, CheckTask, Enqueue
    <2>2. CASE TakeMenu \/ TakeClick \/ Cancel \/ Reject \/ Succeed \/ FinishClick \/ Recheck
      BY <1>1, <2>2 DEF TakeMenu, TakeClick, Cancel, Reject, Succeed, Conclude, FinishClick,
           Recheck
    <2>3. CASE TakeOver \/ Exit \/ Complete \/ CreateTask \/ StartTask \/ SubmitRequest
               \/ ResolveHandoff \/ DecideByCard \/ FinishPermission
      BY <1>1, <2>3 DEF TakeOver, Exit, Complete, CreateTask, StartTask, SubmitRequest,
           ResolveHandoff, DecideByCard, FinishPermission
    <2> QED
      BY <1>3, <2>1, <2>2, <2>3 DEF LoopStep
  <1>4. ASSUME WebStep \/ UnbindRoute PROVE Goal
    BY <1>1, <1>2, <1>4 DEF WebStep, UnbindAdopt, FinishCard, Tell, UnbindRoute
  <1>5. ASSUME Crash PROVE Goal /\ Crashed'
    <2>1. /\ left.upsets > 0 /\ left.crashes > 0
          /\ left' = [upsets |-> left.upsets - 1, crashes |-> left.crashes - 1]
      BY <1>5 DEF Crash
    <2>2. left.upsets - 1 \in Nat /\ left.crashes - 1 \in 0..MaxCrashes
          /\ left.crashes - 1 < MaxCrashes
      BY <1>0, <2>1
    <2> QED
      BY <1>5, <2>1, <2>2 DEF Counted, Crashed
  <1>6. ASSUME \E t \in Tasks : BindRoute(t) \/ EndTask(t) \/ Touch(t) PROVE Goal
    BY <1>2, <1>6 DEF BindRoute, EndTask, Touch
  <1>7. ASSUME (\E d \in BOOLEAN : DecideInWeb(d)) \/ \E a \in DOMAIN action : Lapse(a)
        PROVE  Goal
    BY <1>2, <1>7 DEF DecideInWeb, Lapse
  <1>8. ASSUME \/ \E r \in DOMAIN receipt : LeaseRunsOut(r)
               \/ \E e \in Events : ReceiveInbound(e)
               \/ \E r \in DOMAIN download : DownloadEnds(r)
               \/ \E op \in Operations, t \in Tasks \cup {NoTask} : Propose(op, t)
               \/ UNCHANGED vars
        PROVE  Goal
    BY <1>1, <1>8 DEF LeaseRunsOut, ReceiveInbound, DownloadEnds, Propose, vars
  <1> QED
    BY <1>3, <1>4, <1>5, <1>6, <1>7, <1>8 DEF Next

\* The goroutine lays nothing down but what it settles or what waits.
LEMMA UnloadedStep ==
  ASSUME Shape, Unloaded, [Next]_vars
  PROVE  /\ Unloaded'
         /\ \/ loop'.queue = loop.queue
            \/ LayAside /\ loop.pc \notin Resting /\ loop'.queue = loop.queue \ {Current}
            \/ ClaimInbox /\ loop.queue = {} /\ loop'.queue = Claimable
            \/ Crash
  <1> DEFINE Goal == /\ Unloaded'
                     /\ \/ loop'.queue = loop.queue
                        \/ /\ LayAside /\ loop.pc \notin Resting
                           /\ loop'.queue = loop.queue \ {Current}
                        \/ ClaimInbox /\ loop.queue = {} /\ loop'.queue = Claimable
                        \/ Crash
  <1>0. DOMAIN loop = {"pc", "queue", "target"}
    BY DEF Shape, Goroutine
  <1>1. ASSUME loop' = loop PROVE Goal
    BY <1>1 DEF Unloaded
  <1>2. ASSUME Crash PROVE Goal
    BY <1>2 DEF Crash, Unloaded, Idle
  <1>3. ASSUME NEW l, NEW t, Turn(l, t) PROVE Goal
    BY <1>0, <1>3 DEF Turn, Unloaded
  <1>4. ASSUME LayAside, loop.pc \notin Resting PROVE Goal
    <2>1. Current \in loop.queue
      BY <1>4, CurrentInHand
    <2>2. loop'.queue = loop.queue \ {Current}
      BY <1>4 DEF LayAside, Leave, Idle
    <2>3. loop'.pc \in Unladen => loop.queue = {Current}
      BY <1>4 DEF LayAside, Leave, Idle, Unladen
    <2> QED
      BY <1>4, <2>2, <2>3 DEF Unloaded
  <1>5. ASSUME loop' = [Idle EXCEPT !.pc = "claim"], loop.queue = {} \/ loop.pc \in Unladen
        PROVE  Goal
    BY <1>5 DEF Unloaded, Idle
  <1>6. ASSUME ClaimInbox PROVE Goal
    <2>1. loop.queue = {}
      BY <1>6 DEF ClaimInbox, At, Unloaded, Unladen
    <2>2. loop'.queue = Claimable /\ (loop'.pc \in Unladen => Claimable = {})
      BY <1>6 DEF ClaimInbox, Idle, Unladen
    <2> QED
      BY <1>6, <2>1, <2>2 DEF Unloaded
  <1> QED
    BY <1>1, <1>2, <1>3, <1>4, <1>5, <1>6, LabelStep, OthersKeepLoop

\* How receipts pass through the hands of the goroutine.
Flow ==
  \/ /\ receipt' = receipt /\ loop'.queue = loop.queue
  \/ /\ receipt' = receipt /\ loop'.queue = loop.queue \ {Current}
     /\ Current \in loop.queue /\ ~ Plain(Current)
  \/ /\ \E s \in {"processed", "failed"} : receipt' = [receipt EXCEPT ![Current].state = s]
     /\ Current \in loop.queue /\ loop'.queue = loop.queue \ {Current}
  \/ /\ \E r \in DOMAIN receipt :
          /\ receipt[r].state = "processing" /\ r \notin loop.queue
          /\ receipt' = [receipt EXCEPT ![r].state = "expired"]
     /\ loop'.queue = loop.queue
  \/ /\ receipt' = [r \in DOMAIN receipt |->
                      IF r \in Claimable THEN [receipt[r] EXCEPT !.state = "processing"]
                                         ELSE receipt[r]]
     /\ loop.queue = {} /\ loop'.queue = Claimable
  \/ /\ \E e : receipt' = Append(receipt, [event |-> e, state |-> "received"])
     /\ loop'.queue = loop.queue

LEMMA FlowStep ==
  ASSUME Shape, Unloaded, [Next]_vars, ~ Crash
  PROVE  Flow
  <1>1. ASSUME NEW s \in {"processed", "failed"}, Finish(s), loop.pc \notin Resting PROVE Flow
    BY <1>1, CurrentInHand DEF Finish, Leave, Idle, Flow
  <1>2. ASSUME NEW r \in DOMAIN receipt, LeaseRunsOut(r) PROVE Flow
    BY <1>2 DEF LeaseRunsOut, InHand, Flow
  <1>3. ASSUME ClaimInbox PROVE Flow
    <2>1. loop.queue = {} /\ loop'.queue = Claimable
      BY <1>3 DEF ClaimInbox, At, Unloaded, Unladen, Idle
    <2> QED
      BY <1>3, <2>1 DEF ClaimInbox, Flow
  <1>4. ASSUME NEW e \in Events, ReceiveInbound(e) PROVE Flow
    BY <1>4 DEF ReceiveInbound, Flow
  <1>5. ASSUME receipt' = receipt PROVE Flow
    <2>1. CASE loop'.queue = loop.queue
      BY <1>5, <2>1 DEF Flow
    <2>2. CASE /\ LayAside /\ loop.pc \notin Resting
               /\ loop'.queue = loop.queue \ {Current}
      <3>1. Current \in loop.queue
        BY <2>2, CurrentInHand
      <3>2. CASE Event.kind = "media"
        BY <1>5, <2>2, <3>1, <3>2 DEF Flow, Plain, Event
      <3> QED
        BY <1>1, <2>2, <3>2 DEF LayAside
    <2> QED
      BY <1>3, <2>1, <2>2, UnloadedStep
  <1> QED
    BY <1>1, <1>2, <1>3, <1>4, <1>5, ReceiptWriters

\* What the goroutine has stays ahead of what it has not.
LEMMA QueueStep ==
  ASSUME Shape, Unloaded, QueueFirst, NoneDeferred, [Next]_vars, ~ Crash
  PROVE  QueueFirst' /\ NoneDeferred'
  <1> DEFINE Goal == QueueFirst' /\ NoneDeferred'
  <1>0. /\ IsSeq(receipt) /\ DOMAIN receipt = 1..Len(receipt) /\ Len(receipt) \in Nat
        /\ \A r \in DOMAIN receipt : DOMAIN receipt[r] = {"event", "state"}
        /\ loop.queue \subseteq DOMAIN receipt
    BY SeqDomain DEF Shape, ReceiptRows, Goroutine
  <1>1. ASSUME receipt' = receipt, loop'.queue = loop.queue PROVE Goal
    BY <1>1 DEF QueueFirst, NoneDeferred, Plain
  <1>2. ASSUME receipt' = receipt, loop'.queue = loop.queue \ {Current}, ~ Plain(Current)
        PROVE  Goal
    <2>1. \A r : Plain(r)' = Plain(r)
      BY <1>2 DEF Plain
    <2> QED
      BY <1>2, <2>1 DEF QueueFirst, NoneDeferred
  <1>3. ASSUME NEW s \in {"processed", "failed"}, receipt' = [receipt EXCEPT ![Current].state = s],
               Current \in loop.queue, loop'.queue = loop.queue \ {Current}
        PROVE  Goal
    <2>1. /\ DOMAIN receipt' = DOMAIN receipt
          /\ \A r \in DOMAIN receipt : r # Current => receipt'[r] = receipt[r]
          /\ receipt'[Current].state = s
      BY <1>0, <1>3
    <2> QED
      BY <1>3, <2>1 DEF QueueFirst, NoneDeferred, Plain
  <1>4. ASSUME NEW q \in DOMAIN receipt, receipt[q].state = "processing", q \notin loop.queue,
               receipt' = [receipt EXCEPT ![q].state = "expired"], loop'.queue = loop.queue
        PROVE  Goal
    <2>1. /\ DOMAIN receipt' = DOMAIN receipt
          /\ \A r \in DOMAIN receipt : r # q => receipt'[r] = receipt[r]
          /\ receipt'[q].state = "expired" /\ receipt'[q].event = receipt[q].event
      BY <1>0, <1>4
    <2>2. ~ Plain(q)
      BY <1>4 DEF NoneDeferred
    <2> QED
      BY <1>4, <2>1, <2>2 DEF QueueFirst, NoneDeferred, Plain
  <1>5. ASSUME receipt' = [r \in DOMAIN receipt |->
                             IF r \in Claimable THEN [receipt[r] EXCEPT !.state = "processing"]
                                                ELSE receipt[r]],
               loop.queue = {}, loop'.queue = Claimable
        PROVE  Goal
    <2>1. /\ DOMAIN receipt' = DOMAIN receipt
          /\ \A r \in Claimable : r \in DOMAIN receipt /\ receipt'[r].state = "processing"
          /\ \A r \in DOMAIN receipt : r \notin Claimable =>
               receipt'[r] = receipt[r] /\ receipt[r].state # "received"
      BY <1>0, <1>5 DEF Claimable
    <2> QED
      BY <1>5, <2>1 DEF QueueFirst, NoneDeferred, Plain
  <1>6. ASSUME NEW e, receipt' = Append(receipt, [event |-> e, state |-> "received"]),
               loop'.queue = loop.queue
        PROVE  Goal
    <2> DEFINE new == [event |-> e, state |-> "received"]
    <2>1. /\ DOMAIN receipt' = DOMAIN receipt \cup {Len(receipt) + 1}
          /\ \A r \in DOMAIN receipt : receipt'[r] = receipt[r]
          /\ receipt'[Len(receipt) + 1] = new
      BY <1>0, <1>6, AppendFacts
    <2>2. new.state = "received"
      OBVIOUS
    <2> HIDE DEF new
    <2>3. \A q \in loop.queue : q < Len(receipt) + 1
      BY <1>0
    <2> QED
      BY <1>6, <2>1, <2>2, <2>3 DEF QueueFirst, NoneDeferred, Plain
  <1>7. Flow
    BY FlowStep
  <1> QED
    BY <1>1, <1>2, <1>3, <1>4, <1>5, <1>6, <1>7 DEF Flow

\* What waits after a step was waiting before, or is the last of all.
LEMMA WaitingStep ==
  ASSUME Shape, Unloaded, [Next]_vars, ~ Crash, NEW r \in DOMAIN receipt', ~ Resolved(r)'
  PROVE  (r \in DOMAIN receipt /\ ~ Resolved(r)) \/ r = Len(receipt) + 1
  <1>0. /\ IsSeq(receipt) /\ \A q \in DOMAIN receipt : DOMAIN receipt[q] = {"event", "state"}
        /\ loop.queue \subseteq DOMAIN receipt
        /\ \A q \in loop.queue : receipt[q].state = "processing"
    BY DEF Shape, ReceiptRows, Goroutine
  <1>1. CASE \E e : receipt' = Append(receipt, [event |-> e, state |-> "received"])
    <2>1. PICK e : receipt' = Append(receipt, [event |-> e, state |-> "received"])
      BY <1>1
    <2>2. /\ DOMAIN receipt' = DOMAIN receipt \cup {Len(receipt) + 1}
          /\ \A q \in DOMAIN receipt : receipt'[q] = receipt[q]
      BY <1>0, <2>1, AppendFacts
    <2> QED
      BY <2>2 DEF Resolved
  <1>2. CASE receipt' = receipt
    BY <1>2 DEF Resolved
  <1>3. CASE /\ \E s \in {"processed", "failed"} : receipt' = [receipt EXCEPT ![Current].state = s]
             /\ Current \in loop.queue
    BY <1>0, <1>3 DEF Resolved
  <1>4. CASE \E q \in DOMAIN receipt :
               /\ receipt[q].state = "processing"
               /\ receipt' = [receipt EXCEPT ![q].state = "expired"]
    BY <1>0, <1>4 DEF Resolved
  <1>5. CASE receipt' = [q \in DOMAIN receipt |->
                           IF q \in Claimable THEN [receipt[q] EXCEPT !.state = "processing"]
                                              ELSE receipt[q]]
    BY <1>0, <1>5 DEF Resolved, Claimable
  <1> QED
    BY <1>1, <1>2, <1>3, <1>4, <1>5, FlowStep DEF Flow

\* The messages after a step: those there were, and one of the receipt in hand.
LEMMA LetterStep ==
  ASSUME InboundInv, Letters, [Next]_vars
  PROVE  /\ Letters' /\ DOMAIN mail = 1..Len(mail) /\ Len(mail) \in Nat
         /\ \A i \in DOMAIN mail :
              mail'[i] = mail[i] /\ (mail[i].from[1] = "receipt" => mail[i].from[2] \in DOMAIN receipt)
         /\ \A i \in DOMAIN mail' \ DOMAIN mail :
              /\ i = Len(mail) + 1
              /\ mail'[i].from[1] = "receipt" =>
                   /\ mail'[i].from[2] = Current /\ Finish("processed")
                   /\ loop.pc \notin Resting
  <1> DEFINE Goal == /\ Letters'
                     /\ \A i \in DOMAIN mail : mail'[i] = mail[i]
                     /\ \A i \in DOMAIN mail' \ DOMAIN mail :
                          /\ i = Len(mail) + 1
                          /\ mail'[i].from[1] = "receipt" =>
                               /\ mail'[i].from[2] = Current /\ Finish("processed")
                               /\ loop.pc \notin Resting
  <1>0. IsSeq(mail) /\ DOMAIN mail = 1..Len(mail) /\ Len(mail) \in Nat
    BY SeqDomain DEF InboundInv, Shape
  <1>1. ASSUME mail' = mail PROVE Goal
    BY <1>1 DEF Letters
  <1>2. ASSUME NEW t, NEW k, NEW n, Send(t, k, n),
               k = "receipt" => n = Current /\ Finish("processed") /\ loop.pc \notin Resting
        PROVE  Goal
    <2>0. Send(t, k, n)
      BY <1>2
    <2>1. /\ DOMAIN mail' = DOMAIN mail \cup {Len(mail) + 1}
          /\ \A i \in DOMAIN mail : mail'[i] = mail[i]
          /\ mail'[Len(mail) + 1].from = <<k, n>>
      BY <1>0, <2>0, Sends
    <2>2. <<k, n>>[1] = k /\ <<k, n>>[2] = n
      OBVIOUS
    <2>3. /\ mail'[Len(mail) + 1].from[1] = k /\ mail'[Len(mail) + 1].from[2] = n
      BY <2>1, <2>2
    <2>4. Letters'
      <3>1. ASSUME NEW i \in DOMAIN mail
            PROVE  mail'[i].from = <<mail'[i].from[1], mail'[i].from[2]>>
        BY <2>1 DEF Letters
      <3>2. mail'[Len(mail) + 1].from
              = <<mail'[Len(mail) + 1].from[1], mail'[Len(mail) + 1].from[2]>>
        BY <2>1, <2>3
      <3> QED
        BY <2>1, <3>1, <3>2 DEF Letters
    <2> QED
      BY <1>2, <2>1, <2>3, <2>4
  <1>3. Goal
    <2>1. CASE Enqueue
      <3>1. /\ loop.pc \notin Resting /\ Finish("processed")
            /\ \/ Send(loop.target, "approval", 0)
               \/ Send(loop.target, "receipt", Current)
        BY <2>1 DEF Enqueue, At, Resting
      <3> QED
        BY <1>2, <3>1
    <2>2. CASE SubmitRequest \/ (Tell /\ web.pc = "tell")
      <3>1. \/ Send(loop.target, "action", Event.action)
            \/ Send(web.target, "approval", 0)
        BY <2>2 DEF SubmitRequest, Tell
      <3> QED
        BY <1>2, <3>1
    <2> QED
      BY <1>1, <2>1, <2>2, Senders
  <1>4. ASSUME NEW i \in DOMAIN mail, mail[i].from[1] = "receipt"
        PROVE  mail[i].from[2] \in DOMAIN receipt
    <2>1. mail[i].from = <<"receipt", mail[i].from[2]>>
      BY <1>4 DEF Letters
    <2> QED
      BY <2>1 DEF InboundInv, MailRows
  <1> QED
    BY <1>0, <1>3, <1>4

LEMMA OrderStep ==
  ASSUME InboundInv, Unloaded, Letters, ~ Crashed, Ordered, [Next]_vars, ~ Crash
  PROVE  Ordered'
  <1>0. Shape /\ QueueFirst /\ NoneDeferred /\ SentFirst /\ InReceivedOrder
    BY DEF InboundInv, Ordered
  <1>1. QueueFirst' /\ NoneDeferred'
    BY <1>0, QueueStep
  <1>2. /\ DOMAIN receipt = 1..Len(receipt) /\ Len(receipt) \in Nat
        /\ DOMAIN mail = 1..Len(mail) /\ Len(mail) \in Nat
    BY <1>0, SeqDomain, LetterStep DEF Shape, ReceiptRows
  <1>3. \A r \in DOMAIN receipt : Plain(r)' <=> Plain(r)
    BY <1>0, ReceiptStep DEF Plain
  <1>4. ASSUME NEW i \in DOMAIN mail' \ DOMAIN mail, mail'[i].from[1] = "receipt"
        PROVE  /\ i = Len(mail) + 1 /\ mail'[i].from[2] = Current
               /\ Current \in DOMAIN receipt /\ receipt[Current].state = "processing"
               /\ receipt'[Current].state = "processed" /\ DOMAIN receipt' = DOMAIN receipt
               /\ \A q \in loop.queue : Current <= q
               /\ Current \in loop.queue
    <2>1. /\ i = Len(mail) + 1 /\ mail'[i].from[2] = Current
          /\ Finish("processed") /\ loop.pc \notin Resting
      BY <1>4, LetterStep
    <2>2. /\ Current \in DOMAIN receipt /\ receipt[Current].state = "processing"
          /\ Current \in loop.queue /\ \A q \in loop.queue : Current <= q
      BY <1>0, <2>1, CurrentInHand
    <2>3. receipt'[Current].state = "processed" /\ DOMAIN receipt' = DOMAIN receipt
      BY <1>0, <2>1, <2>2 DEF Finish, Shape, ReceiptRows
    <2> QED
      BY <2>1, <2>2, <2>3
  <1>5. SentFirst'
    <2> SUFFICES ASSUME NEW i \in DOMAIN mail', NEW r \in DOMAIN receipt',
                        mail'[i].from[1] = "receipt", Plain(mail[i].from[2])',
                        Plain(r)', ~ Resolved(r)'
                 PROVE  mail'[i].from[2] < r
      BY DEF SentFirst
    <2>1. (r \in DOMAIN receipt /\ ~ Resolved(r)) \/ r = Len(receipt) + 1
      BY <1>0, WaitingStep
    <2>2. CASE i \in DOMAIN mail
      <3>1. mail'[i] = mail[i] /\ mail[i].from[2] \in DOMAIN receipt
        BY <2>2, LetterStep
      <3>2. Plain(mail[i].from[2])
        BY <1>3, <3>1
      <3>3. CASE r = Len(receipt) + 1
        BY <1>2, <3>1, <3>3
      <3>4. CASE r \in DOMAIN receipt /\ ~ Resolved(r)
        BY <1>0, <1>3, <2>2, <3>1, <3>2, <3>4 DEF SentFirst
      <3> QED
        BY <2>1, <3>3, <3>4
    <2>3. CASE i \notin DOMAIN mail
      <3>1. /\ mail'[i].from[2] = Current /\ Current \in loop.queue
            /\ receipt'[Current].state = "processed"
            /\ r \in DOMAIN receipt /\ Current \in DOMAIN receipt
            /\ \A q \in loop.queue : Current <= q
        BY <1>4, <2>3
      <3>2. r # Current
        BY <3>1 DEF Resolved
      <3>3. ~ Resolved(r) /\ Plain(r)
        BY <1>2, <1>3, <2>1, <3>1
      <3>4. CASE receipt[r].state = "received"
        BY <1>0, <3>1, <3>4 DEF QueueFirst
      <3>5. CASE receipt[r].state # "received"
        <4>1. r \in loop.queue
          BY <1>0, <3>1, <3>3, <3>5 DEF NoneDeferred, Resolved
        <4> QED
          BY <1>2, <3>1, <3>2, <4>1
      <3> QED
        BY <3>4, <3>5
    <2> QED
      BY <2>2, <2>3
  <1>6. InReceivedOrder'
    <2> SUFFICES ASSUME NEW i \in DOMAIN mail', NEW j \in DOMAIN mail', i < j,
                        mail'[i].from[1] = "receipt", mail'[j].from[1] = "receipt",
                        \A k \in {i, j} : Plain(mail[k].from[2])'
                 PROVE  mail'[i].from[2] < mail'[j].from[2]
      BY DEF InReceivedOrder, Plain
    <2>1. i \in DOMAIN mail
      <3>1. \A k \in DOMAIN mail' : k \in DOMAIN mail \/ k = Len(mail) + 1
        BY LetterStep
      <3> QED
        BY <1>2, <3>1
    <2>2. mail'[i] = mail[i] /\ mail[i].from[2] \in DOMAIN receipt
      BY <2>1, LetterStep
    <2>3. Plain(mail[i].from[2])
      BY <1>3, <2>2
    <2>4. CASE j \in DOMAIN mail
      <3>1. mail'[j] = mail[j] /\ mail[j].from[2] \in DOMAIN receipt
        BY <2>4, LetterStep
      <3>2. Plain(mail[j].from[2])
        BY <1>3, <3>1
      <3> QED
        BY <1>0, <2>1, <2>2, <2>3, <2>4, <3>1, <3>2 DEF InReceivedOrder, Plain
    <2>5. CASE j \notin DOMAIN mail
      <3>1. /\ mail'[j].from[2] = Current /\ Current \in DOMAIN receipt
            /\ receipt[Current].state = "processing"
        BY <1>4, <2>5
      <3>2. Plain(Current)
        BY <1>3, <3>1
      <3> QED
        BY <1>0, <2>1, <2>2, <2>3, <3>1, <3>2 DEF SentFirst, Resolved
    <2> QED
      BY <2>4, <2>5
  <1> QED
    BY <1>1, <1>5, <1>6 DEF Ordered

\* Nothing overtakes in the inbound goroutine: messages without attachments reach
\* the tasks in the order of their receipts (internal/store/channel_inbound.go:143,
\* internal/channel/service.go:1330), as long as the process does not crash.
THEOREM OrderKept == Spec => []InReceivedOrder
  <1>1. Init => InboundInv /\ OrderInv
    BY InitInbound, InitOrder
  <1>2. InboundInv /\ OrderInv /\ [Next]_vars => OrderInv'
    <2> SUFFICES ASSUME InboundInv, OrderInv, [Next]_vars PROVE OrderInv'
      OBVIOUS
    <2>1. Counted' /\ (left'.crashes = left.crashes \/ Crash) /\ (Crash => Crashed')
      BY CrashCounts DEF OrderInv
    <2>2. Unloaded'
      BY UnloadedStep DEF OrderInv, InboundInv
    <2>3. Letters'
      BY LetterStep DEF OrderInv
    <2>4. ASSUME ~ Crashed' PROVE Ordered'
      <3>1. ~ Crash /\ ~ Crashed
        BY <2>1, <2>4 DEF Crashed
      <3> QED
        BY <3>1, OrderStep DEF OrderInv
    <2> QED
      BY <2>1, <2>2, <2>3, <2>4 DEF OrderInv
  <1>3. OrderInv => InReceivedOrder
    BY DEF OrderInv, Ordered, InReceivedOrder
  <1>4. InboundInv /\ [Next]_vars => InboundInv'
    BY InboundStep
  <1> QED
    BY <1>1, <1>2, <1>3, <1>4, PTL DEF Spec

-----------------------------------------------------------------------------
(* What the tables hold *)

InBound(t) == \E i \in DOMAIN bound : bound[i] = t

\* A task keeps the receipts it continues; the route and the host are tasks.
TaskRows ==
  /\ \A t \in Tasks : 3 \in DOMAIN t /\ IsSeq(t[3])
  /\ \A t \in Tasks : task[t] \in {"preparing", "active", "completed", "blocked"}
  /\ host \in Tasks
  /\ IsSeq(bound) /\ \A i \in DOMAIN bound : bound[i] \in Tasks
  /\ Routed => InBound(route)

ReceiptTypes ==
  \A r \in DOMAIN receipt :
    /\ receipt[r].event.kind \in {"message", "media", "menu", "click"}
    /\ receipt[r].event.action \in 0..Len(action)
    /\ receipt[r].event.kind = "menu" => receipt[r].event.op \in Ops
    /\ receipt[r].state \in {"received", "processing", "expired", "processed", "failed"}

Aimed == {"takeover", "complete", "exit", "task_permission"}

\* A card is aimed at a task there is, one to leave a route at a task once bound.
CardFits(op, t) ==
  /\ op \in Ops \cap Operations
  /\ IF op \in Aimed THEN t \in Tasks ELSE t = NoTask
  /\ op = "exit" => InBound(t)

CardRows ==
  \A a \in DOMAIN action :
    /\ CardFits(action[a].op, action[a].target)
    /\ action[a].status \in Live \cup Final \cup {"superseded"}

\* The task of an action is there only once the action is executed.
MadeRows ==
  \A a : Made(a) \in Tasks =>
    a \in DOMAIN action /\ action[a].status \notin {"pending", "lapsed", "superseded"}

OnTask == {"route", "continue", "activate", "media", "check", "enqueue", "prepare", "start",
           "submit"}

\* The goroutine and the web write to tasks that are there.
Targets ==
  /\ loop.pc \in OnTask => loop.target \in Tasks
  /\ loop.pc = "prepare" => task[loop.target] = "preparing"
  /\ web.pc \in {"check", "tell"} => web.target \in Tasks

Creates == {"create_task", "accepted_task"}

OpFits(l, op) ==
  /\ l \in {"create", "prepare", "start", "submit"} => op \in Creates
  /\ l \in {"takeover", "takeover_write"} => op = "takeover"
  /\ l \in {"complete", "complete_write"} => op = "complete"
  /\ l \in {"exit", "exit_write"} => op = "exit"
  /\ l = "accepted_task" => op = "accepted_task"
  /\ l \in {"dismissed", "dismiss_write"} => op = "dismissed"
  /\ l = "succeed" => op \in Creates \cup {"complete", "dismissed"}

\* The labels of an action in execution, other than a permission's.
Working == {"cancel", "reject", "succeed", "create", "takeover", "complete", "exit",
            "accepted_task", "dismissed", "takeover_write", "complete_write", "exit_write",
            "dismiss_write", "start", "submit"}
Executing == loop.pc \in Working \/ (loop.pc = "prepare" /\ Event.kind = "click")

\* What a success is about to say has happened.
Effect ==
  /\ Card.op \in Creates => Started(Event.action)
  /\ Card.op = "complete" => task[Card.target] = "completed"
  /\ Card.op = "dismissed" => handoff = "dismissed"

Decision(confirm) == IF confirm THEN "approved" ELSE "rejected"

Labels ==
  /\ Executing => /\ Event.kind = "click" /\ Card.status = "executing"
                  /\ Card.op # "task_permission" /\ OpFits(loop.pc, Card.op)
  /\ loop.pc \in {"task_permission", "decided"} =>
       Event.kind = "click" /\ Card.op = "task_permission"
  /\ loop.pc = "succeed" => Effect
  /\ loop.pc = "decided" => request = Decision(Event.confirm)

-----------------------------------------------------------------------------
(* Who writes what *)

LEMMA TaskWriters ==
  ASSUME [Next]_vars
  PROVE  \/ task' = task
         \/ Continue \/ Prepare \/ CreateTask \/ Complete
         \/ \E t \in Tasks : EndTask(t)
  <1>1. CASE LoopStep
    <2>1. CASE Reconcile \/ ExitTerminal \/ AdoptHost \/ ClaimInbox \/ TakeMessage \/ ReadRoute
               \/ Continue \/ Prepare \/ ActivateContinuation \/ Attachments \/ CheckTask
               \/ Enqueue
      BY <2>1 DEF Reconcile, ExitTerminal, AdoptHost, ClaimInbox, TakeMessage, ReadRoute,
           ActivateContinuation, Attachments, CheckTask, Enqueue
    <2>2. CASE TakeMenu \/ TakeClick \/ Cancel \/ Reject \/ Succeed \/ FinishClick \/ Recheck
      BY <2>2 DEF TakeMenu, TakeClick, Cancel, Reject, Succeed, Conclude, FinishClick, Recheck
    <2>3. CASE TakeOver \/ Exit \/ Complete \/ CreateTask \/ StartTask \/ SubmitRequest
               \/ ResolveHandoff \/ DecideByCard \/ FinishPermission
      BY <2>3 DEF TakeOver, Exit, StartTask, SubmitRequest, ResolveHandoff, DecideByCard,
           FinishPermission
    <2> QED
      BY <1>1, <2>1, <2>2, <2>3 DEF LoopStep
  <1>2. CASE WebStep \/ UnbindRoute \/ Crash
    BY <1>2 DEF WebStep, UnbindAdopt, FinishCard, Tell, UnbindRoute, Crash
  <1>3. CASE \E t \in Tasks : BindRoute(t) \/ EndTask(t) \/ Touch(t)
    BY <1>3 DEF BindRoute, Touch
  <1>4. CASE \/ \E d \in BOOLEAN : DecideInWeb(d)
             \/ \E a \in DOMAIN action : Lapse(a)
             \/ \E r \in DOMAIN receipt : LeaseRunsOut(r)
             \/ \E e \in Events : ReceiveInbound(e)
    BY <1>4 DEF DecideInWeb, Lapse, LeaseRunsOut, ReceiveInbound
  <1>5. CASE \/ \E r \in DOMAIN download : DownloadEnds(r)
             \/ \E op \in Operations, t \in Tasks \cup {NoTask} : Propose(op, t)
             \/ UNCHANGED vars
    BY <1>5 DEF DownloadEnds, Propose, vars
  <1> QED
    BY <1>1, <1>2, <1>3, <1>4, <1>5 DEF Next

\* Who moves the route, and who chooses the host.
LEMMA RouteWriters ==
  ASSUME [Next]_vars
  PROVE  /\ \/ bound' = bound /\ route' \in {route, NoTask}
            \/ Activate(loop.target) /\ loop.pc = "activate"
            \/ Activate(Card.target) /\ loop.pc = "takeover_write" /\ TakeOver
            \/ \E t \in Tasks : Activate(t)
         /\ host' = host \/ \E t : Adopt(t)
  <1>1. CASE LoopStep
    <2>1. CASE Reconcile \/ ExitTerminal \/ AdoptHost \/ ClaimInbox \/ TakeMessage \/ ReadRoute
               \/ Continue \/ Prepare \/ ActivateContinuation \/ Attachments \/ CheckTask
               \/ Enqueue
      BY <2>1 DEF Reconcile, ExitTerminal, AdoptHost, ClaimInbox, TakeMessage, ReadRoute, At,
           Continue, Prepare, ActivateContinuation, Attachments, CheckTask, Enqueue
    <2>2. CASE TakeMenu \/ TakeClick \/ Cancel \/ Reject \/ Succeed \/ FinishClick \/ Recheck
      BY <2>2 DEF TakeMenu, TakeClick, Cancel, Reject, Succeed, Conclude, FinishClick, Recheck
    <2>3. CASE TakeOver \/ Exit \/ Complete \/ CreateTask \/ StartTask \/ SubmitRequest
               \/ ResolveHandoff \/ DecideByCard \/ FinishPermission
      BY <2>3 DEF TakeOver, Exit, Complete, CreateTask, StartTask, SubmitRequest, At,
           ResolveHandoff, DecideByCard, FinishPermission
    <2> QED
      BY <1>1, <2>1, <2>2, <2>3 DEF LoopStep
  <1>2. CASE WebStep \/ UnbindRoute \/ Crash
    BY <1>2 DEF WebStep, UnbindAdopt, FinishCard, Tell, UnbindRoute, Crash
  <1>3. CASE \E t \in Tasks : BindRoute(t) \/ EndTask(t) \/ Touch(t)
    BY <1>3 DEF BindRoute, EndTask, Touch
  <1>4. CASE \/ \E d \in BOOLEAN : DecideInWeb(d)
             \/ \E a \in DOMAIN action : Lapse(a)
             \/ \E r \in DOMAIN receipt : LeaseRunsOut(r)
             \/ \E e \in Events : ReceiveInbound(e)
    BY <1>4 DEF DecideInWeb, Lapse, LeaseRunsOut, ReceiveInbound
  <1>5. CASE \/ \E r \in DOMAIN download : DownloadEnds(r)
             \/ \E op \in Operations, t \in Tasks \cup {NoTask} : Propose(op, t)
             \/ UNCHANGED vars
    BY <1>5 DEF DownloadEnds, Propose, vars
  <1> QED
    BY <1>1, <1>2, <1>3, <1>4, <1>5 DEF Next

\* Who decides a handoff or a permission request, and who notes a download.
LEMMA DecisionWriters ==
  ASSUME [Next]_vars
  PROVE  /\ \/ handoff' = handoff
            \/ handoff = "pending_owner" /\ handoff' \in {"task_created", "dismissed"}
         /\ \/ request' = request
            \/ request' \in {"pending", "approved", "rejected", "expired"}
         /\ \/ DOMAIN download' = DOMAIN download
            \/ Attachments /\ DOMAIN download' = DOMAIN download \cup {Current}
  <1>1. CASE LoopStep
    <2>1. CASE Reconcile \/ ExitTerminal \/ AdoptHost \/ ClaimInbox \/ TakeMessage \/ ReadRoute
               \/ Continue \/ Prepare \/ ActivateContinuation \/ CheckTask \/ Enqueue
      BY <2>1 DEF Reconcile, ExitTerminal, AdoptHost, ClaimInbox, TakeMessage, ReadRoute,
           Continue, Prepare, ActivateContinuation, CheckTask, Enqueue
    <2>2. CASE Attachments
      BY <2>2 DEF Attachments
    <2>3. CASE TakeMenu \/ TakeClick \/ Cancel \/ Reject \/ Succeed \/ FinishClick \/ Recheck
      BY <2>3 DEF TakeMenu, TakeClick, Cancel, Reject, Succeed, Conclude, FinishClick, Recheck
    <2>4. CASE TakeOver \/ Exit \/ Complete \/ CreateTask \/ StartTask \/ SubmitRequest
               \/ ResolveHandoff \/ DecideByCard \/ FinishPermission
      BY <2>4 DEF TakeOver, Exit, Complete, CreateTask, StartTask, SubmitRequest,
           ResolveHandoff, DecideByCard, FinishPermission
    <2> QED
      BY <1>1, <2>1, <2>2, <2>3, <2>4 DEF LoopStep
  <1>2. CASE WebStep \/ UnbindRoute \/ Crash
    BY <1>2 DEF WebStep, UnbindAdopt, FinishCard, Tell, UnbindRoute, Crash
  <1>3. CASE \E t \in Tasks : BindRoute(t) \/ EndTask(t) \/ Touch(t)
    BY <1>3 DEF BindRoute, EndTask, Touch
  <1>4. CASE \/ \E d \in BOOLEAN : DecideInWeb(d)
             \/ \E a \in DOMAIN action : Lapse(a)
             \/ \E r \in DOMAIN receipt : LeaseRunsOut(r)
             \/ \E e \in Events : ReceiveInbound(e)
    BY <1>4 DEF DecideInWeb, Lapse, LeaseRunsOut, ReceiveInbound
  <1>5. CASE \/ \E r \in DOMAIN download : DownloadEnds(r)
             \/ UNCHANGED vars
    BY <1>5 DEF DownloadEnds, vars
  <1>6. ASSUME NEW op, NEW t, Propose(op, t)
        PROVE  /\ UNCHANGED <<handoff, download>>
               /\ request' = request \/ request' = "pending"
    BY <1>6 DEF Propose
  <1> QED
    BY <1>1, <1>2, <1>3, <1>4, <1>5, <1>6 DEF Next

\* The steps that give the action in execution its result.
Concluding(s) ==
  \/ Cancel /\ s = "cancelled"
  \/ Reject /\ s = "failed"
  \/ Succeed /\ s = "succeeded"
  \/ FinishPermission /\ s = IF Event.confirm THEN "succeeded" ELSE "cancelled"

\* Who writes the rows of actions.
LEMMA ActionWriters ==
  ASSUME Shape, ReceiptTypes, [Next]_vars
  PROVE  \/ action' = action
         \/ (\E t : action' = AgedTask(action, t))
              \/ action' = AgedRoute(action) \/ action' = AgedHandoff(action)
         \/ \E op \in Ops \cap Operations, t \in Tasks \cup {NoTask} :
              Eligible(op, t) /\ CreateAction(op, t) /\ UNCHANGED <<task, bound>>
         \/ \E a \in DOMAIN action : action[a].status = "pending"
              /\ action' = [action EXCEPT ![a].status = "lapsed"]
         \/ TakeClick /\ Card.status \in {"pending", "executing"}
              /\ action' = [action EXCEPT ![Event.action].status = "executing"]
         \/ \E s : Concluding(s) /\ SetStatus(s)
         \/ (TakeOver \/ Exit) /\ loop.pc \in {"takeover_write", "exit_write"}
              /\ action' = AgedRoute([action EXCEPT ![Event.action].status = "succeeded"])
         \/ FinishCard
  <1>1. CASE LoopStep
    <2>1. CASE Reconcile \/ AdoptHost \/ ClaimInbox \/ TakeMessage \/ ReadRoute \/ Continue
               \/ Prepare \/ Attachments \/ CheckTask \/ Enqueue
      BY <2>1 DEF Reconcile, AdoptHost, ClaimInbox, TakeMessage, ReadRoute, Continue,
           Prepare, Attachments, CheckTask, Enqueue
    <2>2. CASE FinishClick \/ Recheck \/ CreateTask \/ StartTask \/ SubmitRequest \/ DecideByCard
      BY <2>2 DEF FinishClick, Recheck, CreateTask, StartTask, SubmitRequest, DecideByCard
    <2>3. CASE ExitTerminal \/ ActivateContinuation
      BY <2>3 DEF ExitTerminal, ActivateContinuation
    <2>4. CASE TakeMenu
      <3>1. At("take") /\ Event.kind = "menu"
        BY <2>4 DEF TakeMenu
      <3>2. Event.op \in Ops \cap Operations
        BY <3>1, CurrentInHand
           DEF Event, Shape, ReceiptRows, ReceiptTypes, EventRow, At, Resting
      <3>3. \/ action' = action
            \/ \E t \in Tasks \cup {NoTask} : /\ Eligible(Event.op, t) /\ CreateAction(Event.op, t)
                                              /\ UNCHANGED <<task, bound>>
        BY <2>4 DEF TakeMenu
      <3> QED
        BY <3>2, <3>3
    <2>5. CASE TakeClick
      BY <2>5 DEF TakeClick
    <2>6. CASE Cancel \/ Reject \/ Succeed \/ FinishPermission
      BY <2>6 DEF Cancel, Reject, Succeed, Conclude, FinishPermission, Concluding
    <2>7. CASE TakeOver \/ Exit
      BY <2>7 DEF TakeOver, Exit, At
    <2>8. CASE Complete \/ ResolveHandoff
      BY <2>8 DEF Complete, ResolveHandoff
    <2> QED
      BY <1>1, <2>1, <2>2, <2>3, <2>4, <2>5, <2>6, <2>7, <2>8 DEF LoopStep
  <1>2. CASE WebStep
    BY <1>2 DEF WebStep, UnbindAdopt, Tell
  <1>3. CASE Crash \/ UnbindRoute
    BY <1>3 DEF Crash, UnbindRoute
  <1>4. CASE \/ \E e \in Events : ReceiveInbound(e)
             \/ \E r \in DOMAIN receipt : LeaseRunsOut(r)
             \/ \E r \in DOMAIN download : DownloadEnds(r)
             \/ \E d \in BOOLEAN : DecideInWeb(d)
    BY <1>4 DEF ReceiveInbound, LeaseRunsOut, DownloadEnds, DecideInWeb
  <1>5. CASE \E op \in Operations, t \in Tasks \cup {NoTask} : Propose(op, t)
    BY <1>5 DEF Propose
  <1>6. CASE \E a \in DOMAIN action : Lapse(a)
    BY <1>6 DEF Lapse
  <1>7. CASE \E t \in Tasks : BindRoute(t) \/ EndTask(t) \/ Touch(t)
    BY <1>7 DEF BindRoute, EndTask, Touch
  <1>8. CASE UNCHANGED vars
    BY <1>8 DEF vars
  <1> QED
    BY <1>1, <1>2, <1>3, <1>4, <1>5, <1>6, <1>7, <1>8 DEF Next

\* What a step may make of a row.
Rewrites(a) ==
  \/ action'[a].status = action[a].status
  \/ action[a].status \in {"pending", "lapsed"} /\ action'[a].status \in {"lapsed", "superseded"}
  \/ /\ TakeClick /\ a = Event.action
     /\ action[a].status \in {"pending", "executing"} /\ action'[a].status = "executing"
  \/ \E s : Concluding(s) /\ a = Event.action
            /\ action[a].status = "executing" /\ action'[a].status = s
  \/ /\ TakeOver \/ Exit
     /\ loop.pc \in {"takeover_write", "exit_write"} /\ a = Event.action
     /\ action'[a].status = "succeeded"
  \/ /\ FinishCard /\ action[a].op = "task_permission" /\ action[a].status \in Live
     /\ action'[a].status = IF request = "approved" THEN "succeeded" ELSE "cancelled"

LEMMA AgedKeeps ==
  ASSUME NEW rows, RowsOf(rows), NEW t,
         NEW f, f \in {AgedTask(rows, t), AgedRoute(rows), AgedHandoff(rows)},
         NEW a \in DOMAIN rows
  PROVE  /\ a \in DOMAIN f /\ f[a].op = rows[a].op /\ f[a].target = rows[a].target
         /\ f[a].status = rows[a].status
  <1>1. a \in DOMAIN f /\ f[a] \in {rows[a], [rows[a] EXCEPT !.fresh = FALSE]}
    BY DEF AgedTask, AgedRoute, AgedHandoff, Aged
  <1> QED
    BY <1>1 DEF RowsOf

LEMMA WrittenKeeps ==
  ASSUME NEW rows, RowsOf(rows), NEW b, NEW s, NEW a \in DOMAIN rows,
         NEW f, f = [rows EXCEPT ![b].status = s]
  PROVE  /\ a \in DOMAIN f /\ f[a].op = rows[a].op /\ f[a].target = rows[a].target
         /\ f[a].status = IF a = b THEN s ELSE rows[a].status
  <1>1. /\ a \in DOMAIN f
        /\ f[a] = IF a = b THEN [rows[a] EXCEPT !.status = s] ELSE rows[a]
    OBVIOUS
  <1> QED
    BY <1>1 DEF RowsOf

LEMMA CreatedKeeps ==
  ASSUME ActionRows, NEW op, NEW t, CreateAction(op, t)
  PROVE  /\ DOMAIN action = 1..Len(action) /\ Len(action) \in Nat
         /\ DOMAIN action' = DOMAIN action \cup {Len(action) + 1}
         /\ action'[Len(action) + 1].op = op /\ action'[Len(action) + 1].target = t
         /\ action'[Len(action) + 1].status = "pending"
         /\ \A a \in DOMAIN action :
              /\ action'[a].op = action[a].op /\ action'[a].target = action[a].target
              /\ \/ action'[a].status = action[a].status
                 \/ /\ action[a].status \in {"pending", "lapsed"}
                    /\ action'[a].status = "superseded"
  <1> DEFINE f == [a \in DOMAIN action |->
                     IF action[a].status \in {"pending", "lapsed"} /\ SameChat(action[a].op, op)
                     THEN [action[a] EXCEPT !.status = "superseded"] ELSE action[a]]
             new == [op |-> op, target |-> t, fresh |-> TRUE, status |-> "pending"]
  <1>1. action' = Append(f, new)
    BY DEF CreateAction
  <1>2. IsSeq(action) /\ DOMAIN action = 1..Len(action) /\ Len(action) \in Nat
    BY SeqDomain DEF ActionRows, RowsOf
  <1>3. /\ IsSeq(f) /\ DOMAIN f = DOMAIN action
    <2>1. f = [a \in DOMAIN action |-> f[a]]
      OBVIOUS
    <2> QED
      BY <1>2, <2>1, SameDomain
  <1>4. Len(f) = Len(action)
    <2>1. DOMAIN f = 1..Len(f) /\ Len(f) \in Nat
      BY <1>3, SeqDomain
    <2> QED
      BY <1>2, <1>3, <2>1
  <1>5. \A a \in DOMAIN action :
          /\ f[a].op = action[a].op /\ f[a].target = action[a].target
          /\ \/ f[a].status = action[a].status
             \/ action[a].status \in {"pending", "lapsed"} /\ f[a].status = "superseded"
    BY DEF ActionRows, RowsOf
  <1>6. new.op = op /\ new.target = t /\ new.status = "pending"
    OBVIOUS
  <1> HIDE DEF f, new
  <1>7. /\ DOMAIN action' = DOMAIN f \cup {Len(f) + 1}
        /\ \A a \in DOMAIN f : action'[a] = f[a]
        /\ action'[Len(f) + 1] = new
    BY <1>1, <1>3, AppendFacts
  <1> QED
    BY <1>2, <1>3, <1>4, <1>5, <1>6, <1>7

LEMMA RowStep ==
  ASSUME Shape, ReceiptTypes, [Next]_vars, NEW a \in DOMAIN action
  PROVE  /\ a \in DOMAIN action'
         /\ action'[a].op = action[a].op /\ action'[a].target = action[a].target
         /\ Rewrites(a)
  <1> DEFINE Goal == /\ a \in DOMAIN action'
                     /\ action'[a].op = action[a].op /\ action'[a].target = action[a].target
                     /\ Rewrites(a)
  <1>0. RowsOf(action)
    BY DEF Shape, ActionRows
  <1>1. ASSUME action' = action PROVE Goal
    BY <1>1 DEF Rewrites
  <1>2. ASSUME (\E t : action' = AgedTask(action, t))
                 \/ action' = AgedRoute(action) \/ action' = AgedHandoff(action)
        PROVE  Goal
    <2>1. \E t : action' \in {AgedTask(action, t), AgedRoute(action), AgedHandoff(action)}
      BY <1>2
    <2>2. PICK t : action' \in {AgedTask(action, t), AgedRoute(action), AgedHandoff(action)}
      BY <2>1
    <2>3. /\ a \in DOMAIN action' /\ action'[a].op = action[a].op
          /\ action'[a].target = action[a].target /\ action'[a].status = action[a].status
      BY <1>0, <2>2, AgedKeeps
    <2> QED
      BY <2>3 DEF Rewrites
  <1>3. ASSUME NEW op, NEW t, CreateAction(op, t) PROVE Goal
    BY <1>0, <1>3, CreatedKeeps DEF Rewrites, ActionRows
  <1>4. ASSUME NEW b \in DOMAIN action, action[b].status = "pending",
               action' = [action EXCEPT ![b].status = "lapsed"]
        PROVE  Goal
    BY <1>0, <1>4, WrittenKeeps DEF Rewrites
  <1>5. ASSUME TakeClick, Card.status \in {"pending", "executing"},
               action' = [action EXCEPT ![Event.action].status = "executing"]
        PROVE  Goal
    BY <1>0, <1>5, WrittenKeeps DEF Rewrites, Card
  <1>6. ASSUME NEW s, Concluding(s), SetStatus(s) PROVE Goal
    <2>1. action' = [action EXCEPT ![Event.action].status =
                       IF action[Event.action].status = "executing" THEN s
                       ELSE action[Event.action].status]
      BY <1>6 DEF SetStatus
    <2>2. /\ a \in DOMAIN action' /\ action'[a].op = action[a].op
          /\ action'[a].target = action[a].target
          /\ action'[a].status = IF a = Event.action
               THEN IF action[Event.action].status = "executing" THEN s
                    ELSE action[Event.action].status
               ELSE action[a].status
      BY <1>0, <2>1, WrittenKeeps
    <2> QED
      BY <1>6, <2>2 DEF Rewrites
  <1>7. ASSUME TakeOver \/ Exit, loop.pc \in {"takeover_write", "exit_write"},
               action' = AgedRoute([action EXCEPT ![Event.action].status = "succeeded"])
        PROVE  Goal
    <2> DEFINE f == [action EXCEPT ![Event.action].status = "succeeded"]
    <2>1. RowsOf(f) /\ action' = AgedRoute(f)
      BY <1>0, <1>7, StatusWrite
    <2>2. /\ a \in DOMAIN f /\ f[a].op = action[a].op /\ f[a].target = action[a].target
          /\ f[a].status = IF a = Event.action THEN "succeeded" ELSE action[a].status
      BY <1>0, WrittenKeeps
    <2> HIDE DEF f
    <2>3. /\ a \in DOMAIN action' /\ action'[a].op = f[a].op /\ action'[a].target = f[a].target
          /\ action'[a].status = f[a].status
      BY <2>1, <2>2, AgedKeeps
    <2> QED
      BY <1>7, <2>2, <2>3 DEF Rewrites
  <1>8. ASSUME FinishCard PROVE Goal
    <2>1. PICK b \in DOMAIN action :
            /\ action[b].op = "task_permission"
            /\ action' = [action EXCEPT ![b].status =
                 IF action[b].status \notin Live THEN action[b].status
                 ELSE IF request = "approved" THEN "succeeded" ELSE "cancelled"]
      BY <1>8 DEF FinishCard
    <2>2. /\ a \in DOMAIN action' /\ action'[a].op = action[a].op
          /\ action'[a].target = action[a].target
          /\ action'[a].status = IF a = b
               THEN IF action[b].status \notin Live THEN action[b].status
                    ELSE IF request = "approved" THEN "succeeded" ELSE "cancelled"
               ELSE action[a].status
      BY <1>0, <2>1, WrittenKeeps
    <2> QED
      BY <1>8, <2>1, <2>2 DEF Rewrites
  <1> QED
    BY <1>1, <1>2, <1>3, <1>4, <1>5, <1>6, <1>7, <1>8, ActionWriters

\* A row that is new is pending, and aimed at what it may be aimed at.
LEMMA NewRow ==
  ASSUME Shape, ReceiptTypes, [Next]_vars, NEW a \in DOMAIN action' \ DOMAIN action
  PROVE  /\ action'[a].op \in Ops \cap Operations
         /\ action'[a].target \in Tasks \cup {NoTask}
         /\ Eligible(action'[a].op, action'[a].target) /\ action'[a].status = "pending"
         /\ UNCHANGED <<task, bound>>
  <1>0. RowsOf(action)
    BY DEF Shape, ActionRows
  <1>1. ASSUME NEW b, NEW s, action' = [action EXCEPT ![b].status = s] PROVE FALSE
    BY <1>0, <1>1, StatusWrite
  <1>2. ASSUME NEW b, NEW s, action' = AgedRoute([action EXCEPT ![b].status = s]) PROVE FALSE
    BY <1>0, <1>2, StatusWrite, AgedRows
  <1>3. ASSUME (\E t : action' = AgedTask(action, t))
                 \/ action' = AgedRoute(action) \/ action' = AgedHandoff(action)
        PROVE  FALSE
    BY <1>0, <1>3, AgedRows
  <1>4. ~ FinishCard
    BY <1>1 DEF FinishCard
  <1>5. ASSUME NEW s, SetStatus(s) PROVE FALSE
    <2>1. action' = [action EXCEPT ![Event.action].status =
                       IF action[Event.action].status = "executing" THEN s
                       ELSE action[Event.action].status]
      BY <1>5 DEF SetStatus
    <2> QED
      BY <2>1, <1>1
  <1>6. PICK op \in Ops \cap Operations, t \in Tasks \cup {NoTask} :
          Eligible(op, t) /\ CreateAction(op, t) /\ UNCHANGED <<task, bound>>
    BY <1>1, <1>2, <1>3, <1>4, <1>5, ActionWriters
  <1>7. a = Len(action) + 1
    BY <1>0, <1>6, CreatedKeeps DEF ActionRows
  <1> QED
    BY <1>0, <1>6, <1>7, CreatedKeeps DEF ActionRows

LEMMA Removed ==
  ASSUME NEW s, IsSeq(s), NEW e
  PROVE  /\ IsSeq(RemoveFirst(s, e))
         /\ \A i \in DOMAIN RemoveFirst(s, e) : \E j \in DOMAIN s : RemoveFirst(s, e)[i] = s[j]
         /\ \A j \in DOMAIN s : s[j] = e \/ \E i \in DOMAIN RemoveFirst(s, e) :
                                              RemoveFirst(s, e)[i] = s[j]
  <1>1. PICK S : s \in Seq(S)
    BY DEF IsSeq
  <1>2. DOMAIN s = 1..Len(s) /\ Len(s) \in Nat
    BY <1>1, LenProperties
  <1>3. CASE ~ \E i \in 1..Len(s) : s[i] = e
    BY <1>2, <1>3 DEF RemoveFirst
  <1>4. CASE \E i \in 1..Len(s) : s[i] = e
    <2> DEFINE I == {i \in 1..Len(s) : s[i] = e}
               k == Min(I)
               u == SubSeq(s, 1, k - 1)
               v == SubSeq(s, k + 1, Len(s))
    <2>1. k \in 1..Len(s) /\ s[k] = e
      <3>1. I \subseteq Nat /\ I # {}
        BY <1>2, <1>4
      <3>2. k \in I
        BY <3>1, MinInSet
      <3> QED
        BY <3>2
    <2>2. RemoveFirst(s, e) = u \o v
      <3>1. SelectInSeq(s, LAMBDA x : x = e) = k
        BY <1>4 DEF SelectInSeq
      <3> QED
        BY <1>4, <3>1 DEF RemoveFirst, RemoveAt
    <2> HIDE DEF k
    <2>3. /\ u \in Seq(S) /\ Len(u) = k - 1
          /\ \A i \in 1..(k - 1) : u[i] = s[i]
      <3>1. 1 \in Int /\ k - 1 \in Int /\ \A i \in 1..(k - 1) : s[i] \in S
        BY <1>1, <1>2, <2>1
      <3>2. /\ u \in Seq(S) /\ Len(u) = IF 1 <= k - 1 THEN (k - 1) - 1 + 1 ELSE 0
            /\ \A i \in 1..((k - 1) - 1 + 1) : u[i] = s[1 + i - 1]
        BY <3>1, SubSeqProperties
      <3> HIDE DEF u
      <3> QED
        BY <2>1, <1>2, <3>2
    <2>4. /\ v \in Seq(S) /\ Len(v) = Len(s) - k
          /\ \A i \in 1..(Len(s) - k) : v[i] = s[k + i]
      <3>1. k + 1 \in Int /\ Len(s) \in Int /\ \A i \in (k + 1)..Len(s) : s[i] \in S
        BY <1>1, <1>2, <2>1
      <3>2. /\ v \in Seq(S) /\ Len(v) = IF k + 1 <= Len(s) THEN Len(s) - (k + 1) + 1 ELSE 0
            /\ \A i \in 1..(Len(s) - (k + 1) + 1) : v[i] = s[(k + 1) + i - 1]
        BY <3>1, SubSeqProperties
      <3> HIDE DEF v
      <3>3. Len(v) = Len(s) - k
        <4>1. k \in Nat /\ k <= Len(s) /\ Len(s) \in Nat
          BY <1>2, <2>1
        <4>2. Len(v) = IF k + 1 <= Len(s) THEN Len(s) - (k + 1) + 1 ELSE 0
          BY <3>2
        <4>3. k + 1 <= Len(s) \/ Len(s) = k
          BY <4>1
        <4> QED
          BY <4>1, <4>2, <4>3
      <3>4. ASSUME NEW i \in 1..(Len(s) - k) PROVE v[i] = s[k + i]
        <4>1. i \in 1..(Len(s) - (k + 1) + 1) /\ (k + 1) + i - 1 = k + i
          BY <2>1, <1>2
        <4> QED
          BY <3>2, <4>1
      <3> QED
        BY <3>2, <3>3, <3>4
    <2> HIDE DEF u, v
    <2>5. /\ u \o v \in Seq(S) /\ Len(u \o v) = Len(s) - 1
          /\ \A i \in 1..(Len(s) - 1) : (u \o v)[i] = IF i <= k - 1 THEN s[i] ELSE s[i + 1]
      <3>1. /\ u \o v \in Seq(S) /\ Len(u \o v) = Len(u) + Len(v)
            /\ \A i \in 1..(Len(u) + Len(v)) :
                 (u \o v)[i] = IF i <= Len(u) THEN u[i] ELSE v[i - Len(u)]
        BY <2>3, <2>4, ConcatProperties
      <3>2. Len(u) + Len(v) = Len(s) - 1
        BY <1>2, <2>1, <2>3, <2>4
      <3>3. ASSUME NEW i \in 1..(Len(s) - 1)
            PROVE  (u \o v)[i] = IF i <= k - 1 THEN s[i] ELSE s[i + 1]
        <4>1. (u \o v)[i] = IF i <= k - 1 THEN u[i] ELSE v[i - (k - 1)]
          BY <2>3, <3>1, <3>2
        <4>2. CASE i <= k - 1
          BY <1>2, <2>1, <2>3, <4>1, <4>2
        <4>3. CASE ~ (i <= k - 1)
          <5>1. i - (k - 1) \in 1..(Len(s) - k) /\ k + (i - (k - 1)) = i + 1
            BY <1>2, <2>1, <4>3
          <5> QED
            BY <2>4, <4>1, <4>3, <5>1
        <4> QED
          BY <4>2, <4>3
      <3> QED
        BY <3>1, <3>2, <3>3
    <2> DEFINE w == u \o v
    <2> HIDE DEF w
    <2>6. w \in Seq(S) /\ DOMAIN w = 1..(Len(s) - 1)
      BY <2>5, LenProperties DEF w
    <2>7. \A i \in DOMAIN w : \E j \in DOMAIN s : w[i] = s[j]
      <3> SUFFICES ASSUME NEW i \in DOMAIN w PROVE \E j \in DOMAIN s : w[i] = s[j]
        OBVIOUS
      <3>1. w[i] = s[i] \/ w[i] = s[i + 1]
        BY <2>5, <2>6 DEF w
      <3>2. i \in DOMAIN s /\ i + 1 \in DOMAIN s
        BY <1>2, <2>6
      <3> QED
        BY <3>1, <3>2
    <2>8. ASSUME NEW j \in DOMAIN s, s[j] # e PROVE \E i \in DOMAIN w : w[i] = s[j]
      <3>1. CASE j < k
        <4>1. j \in DOMAIN w /\ j <= k - 1
          BY <1>2, <2>1, <2>6, <3>1
        <4> QED
          BY <2>5, <2>6, <4>1 DEF w
      <3>2. CASE j > k
        <4>1. j - 1 \in DOMAIN w /\ ~ (j - 1 <= k - 1) /\ (j - 1) + 1 = j
          BY <1>2, <2>1, <2>6, <3>2
        <4> QED
          BY <2>5, <2>6, <4>1 DEF w
      <3> QED
        BY <1>2, <2>1, <2>8, <3>1, <3>2
    <2> QED
      BY <2>2, <2>6, <2>7, <2>8 DEF w, IsSeq
  <1> QED
    BY <1>3, <1>4

\* The list of bound tasks keeps its tasks, and the new route is one of them.
LEMMA Activated ==
  ASSUME IsSeq(bound), NEW t, Activate(t)
  PROVE  /\ IsSeq(bound') /\ route' = t
         /\ \A i \in DOMAIN bound' : bound'[i] = t \/ InBound(bound'[i])
         /\ \A i \in DOMAIN bound : \E j \in DOMAIN bound' : bound'[j] = bound[i]
         /\ \E j \in DOMAIN bound' : bound'[j] = t
  <1> DEFINE f == RemoveFirst(bound, t)
  <1>1. bound' = Append(f, t) /\ route' = t
    BY DEF Activate
  <1>2. /\ IsSeq(f)
        /\ \A i \in DOMAIN f : \E j \in DOMAIN bound : f[i] = bound[j]
        /\ \A j \in DOMAIN bound : bound[j] = t \/ \E i \in DOMAIN f : f[i] = bound[j]
    BY Removed
  <1> HIDE DEF f
  <1>3. /\ IsSeq(bound') /\ DOMAIN bound' = DOMAIN f \cup {Len(f) + 1}
        /\ \A i \in DOMAIN f : bound'[i] = f[i]
        /\ bound'[Len(f) + 1] = t
    BY <1>1, <1>2, AppendFacts
  <1> QED
    BY <1>1, <1>2, <1>3 DEF InBound

LEMMA MaxInSet ==
  ASSUME NEW n \in Nat, NEW q, q \subseteq 1..n, q # {}
  PROVE  Max(q) \in q
  <1> DEFINE m == {n - x : x \in q}
  <1>1. m \subseteq Nat /\ m # {}
    OBVIOUS
  <1>2. Min(m) \in m /\ \A y \in m : Min(m) <= y
    BY <1>1, MinInSet
  <1>3. PICK x \in q : Min(m) = n - x
    BY <1>2
  <1>4. \A y \in q : x >= y
    <2> SUFFICES ASSUME NEW y \in q PROVE x >= y
      OBVIOUS
    <2>1. n - y \in m
      OBVIOUS
    <2>2. n - x <= n - y
      BY <1>2, <1>3, <2>1
    <2> QED
      BY <2>2
  <1> QED
    BY <1>4 DEF Max

LEMMA Adopted ==
  ASSUME TaskRows, NEW t, Adopt(t)
  PROVE  host' \in Tasks
  <1> DEFINE usable == {i \in DOMAIN bound :
                          ChannelOwned(bound[i]) /\ Open(bound[i]) /\ bound[i] # t}
  <1>1. host' = IF usable = {} THEN host ELSE bound[Max(usable)]
    BY DEF Adopt
  <1>2. CASE usable # {}
    <2>1. usable \subseteq 1..Len(bound) /\ Len(bound) \in Nat
      BY SeqDomain DEF TaskRows
    <2>2. Max(usable) \in usable
      BY <1>2, <2>1, MaxInSet
    <2> QED
      BY <1>1, <1>2, <2>2 DEF TaskRows
  <1> QED
    BY <1>1, <1>2 DEF TaskRows

\* Tasks stay, a completed one for good; one that is new is not yet prepared.
LEMMA TaskStep ==
  ASSUME TaskRows, Targets, [Next]_vars
  PROVE  /\ \A t \in Tasks :
              /\ t \in Tasks'
              /\ task'[t] \in {"preparing", "active", "completed", "blocked"}
              /\ task[t] = "completed" => task'[t] = "completed"
              /\ task[t] = "preparing" => \/ task'[t] = "preparing"
                                          \/ Prepare /\ t = loop.target
         /\ \A t \in Tasks' \ Tasks :
              /\ task'[t] = "preparing"
              /\ \/ Continue /\ t = Continuation(loop.target, Current)
                 \/ CreateTask /\ t = Made(Event.action)
  <1> DEFINE Goal == /\ \A t \in Tasks :
                          /\ t \in Tasks'
                          /\ task'[t] \in {"preparing", "active", "completed", "blocked"}
                          /\ task[t] = "completed" => task'[t] = "completed"
                          /\ task[t] = "preparing" => \/ task'[t] = "preparing"
                                                      \/ Prepare /\ t = loop.target
                     /\ \A t \in Tasks' \ Tasks :
                          /\ task'[t] = "preparing"
                          /\ \/ Continue /\ t = Continuation(loop.target, Current)
                             \/ CreateTask /\ t = Made(Event.action)
  <1>0. \A t \in Tasks : task[t] \in {"preparing", "active", "completed", "blocked"}
    BY DEF TaskRows
  <1>1. ASSUME task' = task PROVE Goal
    BY <1>0, <1>1 DEF Tasks
  <1>2. ASSUME NEW u, Insert(u),
               \/ Continue /\ u = Continuation(loop.target, Current)
               \/ CreateTask /\ u = Made(Event.action)
        PROVE  Goal
    BY <1>0, <1>2 DEF Insert, Tasks
  <1>3. ASSUME Prepare PROVE Goal
    <2>1. loop.target \in Tasks /\ task[loop.target] = "preparing"
      BY <1>3 DEF Targets, Prepare, At, OnTask
    <2>2. PICK s \in {"active", "blocked"} : task' = [task EXCEPT ![loop.target] = s]
      BY <1>3 DEF Prepare
    <2> QED
      BY <1>0, <1>3, <2>1, <2>2 DEF Tasks
  <1>4. ASSUME Complete PROVE Goal
    <2>1. \/ task' = task
          \/ /\ task[Card.target] \in {"active", "completed"}
             /\ task' = [task EXCEPT ![Card.target] = "completed"]
      BY <1>4 DEF Complete
    <2> QED
      BY <1>0, <1>1, <2>1 DEF Tasks
  <1>5. ASSUME NEW u \in Tasks, EndTask(u) PROVE Goal
    BY <1>0, <1>5 DEF EndTask, Tasks
  <1>6. ASSUME Continue \/ CreateTask PROVE Goal
    BY <1>2, <1>6 DEF Continue, CreateTask
  <1> QED
    BY <1>1, <1>3, <1>4, <1>5, <1>6, TaskWriters

\* No task is taken off the list of those once bound.
LEMMA BoundStep ==
  ASSUME IsSeq(bound), [Next]_vars
  PROVE  \A i \in DOMAIN bound : \E j \in DOMAIN bound' : bound'[j] = bound[i]
  BY RouteWriters, Activated

LEMMA TaskRowsStep ==
  ASSUME Shape, TaskRows, ReceiptTypes, CardRows, Targets, Labels, [Next]_vars
  PROVE  TaskRows'
  <1>1. \A t \in Tasks : t \in Tasks'
    BY TaskStep
  <1>2. ASSUME NEW t \in Tasks' PROVE 3 \in DOMAIN t /\ IsSeq(t[3])
    <2>1. CASE t \in Tasks
      BY <2>1 DEF TaskRows
    <2>2. CASE t = Made(Event.action)
      <3>1. <<>> \in Seq({})
        OBVIOUS
      <3>2. 3 \in DOMAIN t /\ t[3] = <<>>
        BY <2>2 DEF Made
      <3> QED
        BY <3>1, <3>2 DEF IsSeq
    <2>3. CASE Continue /\ t = Continuation(loop.target, Current)
      <3>1. loop.target \in Tasks
        BY <2>3 DEF Continue, At, Targets, OnTask
      <3>2. 3 \in DOMAIN loop.target /\ IsSeq(loop.target[3])
        BY <3>1 DEF TaskRows
      <3>3. 3 \in DOMAIN t /\ t[3] = Append(loop.target[3], Current)
        BY <2>3, <3>2 DEF Continuation
      <3> QED
        BY <3>2, <3>3, AppendFacts
    <2> QED
      BY <2>1, <2>2, <2>3, TaskStep
  <1>3. \A t \in Tasks' : task'[t] \in {"preparing", "active", "completed", "blocked"}
    BY TaskStep
  <1>4. host' \in Tasks'
    <2>1. host' \in Tasks
      BY RouteWriters, Adopted DEF TaskRows
    <2> QED
      BY <1>1, <2>1
  <1>5. ASSUME NEW t \in Tasks, Activate(t)
        PROVE  /\ IsSeq(bound') /\ \A i \in DOMAIN bound' : bound'[i] \in Tasks
               /\ \E i \in DOMAIN bound' : bound'[i] = route'
    BY <1>5, Activated DEF TaskRows, InBound
  <1>6. /\ IsSeq(bound') /\ \A i \in DOMAIN bound' : bound'[i] \in Tasks
        /\ route' # NoTask => \E i \in DOMAIN bound' : bound'[i] = route'
    <2>1. CASE bound' = bound /\ route' \in {route, NoTask}
      BY <2>1 DEF TaskRows, Routed, InBound
    <2>2. CASE Activate(loop.target) /\ loop.pc = "activate"
      <3>1. loop.target \in Tasks
        BY <2>2 DEF Targets, OnTask
      <3> QED
        BY <1>5, <2>2, <3>1
    <2>3. CASE Activate(Card.target) /\ loop.pc = "takeover_write"
      <3>1. Card.op = "takeover" /\ Event.kind = "click"
        BY <2>3 DEF Labels, Executing, Working, OpFits
      <3>2. Event.action \in DOMAIN action
        BY <2>3, <3>1, CurrentInHand DEF Resting, Event, Shape, ReceiptRows, EventRow
      <3>3. Card.target \in Tasks
        BY <3>1, <3>2 DEF CardRows, Card, CardFits, Aimed
      <3> QED
        BY <1>5, <2>3, <3>3
    <2>4. CASE \E t \in Tasks : Activate(t)
      BY <1>5, <2>4
    <2> QED
      BY <2>1, <2>2, <2>3, <2>4, RouteWriters
  <1> QED
    BY <1>1, <1>2, <1>3, <1>4, <1>6 DEF TaskRows, Routed, InBound, NoTask

-----------------------------------------------------------------------------
(* The tables keep their types *)

\* The card of a click in the goroutine's hands is there.
LEMMA CardThere ==
  ASSUME Shape, CardRows, loop.pc \notin Resting, Event.kind = "click"
  PROVE  /\ Event.action \in DOMAIN action /\ CardFits(Card.op, Card.target)
         /\ Card.status \in Live \cup Final \cup {"superseded"}
  BY CurrentInHand DEF Event, Card, Shape, ReceiptRows, EventRow, CardRows

\* What is in the goroutine's hands stays there.
LEMMA HandStays ==
  ASSUME receipt' = receipt, loop'.queue = loop.queue
  PROVE  Event' = Event /\ Current' = Current
  BY DEF Event, Current

LEMMA StateStep ==
  ASSUME Shape, ReceiptTypes, [Next]_vars
  PROVE  \A r \in DOMAIN receipt' :
           receipt'[r].state \in {"received", "processing", "expired", "processed", "failed"}
  <1> DEFINE Goal == \A r \in DOMAIN receipt' : receipt'[r].state \in
                       {"received", "processing", "expired", "processed", "failed"}
  <1>0. /\ IsSeq(receipt) /\ \A r \in DOMAIN receipt : DOMAIN receipt[r] = {"event", "state"}
        /\ \A r \in DOMAIN receipt : receipt[r].state \in
             {"received", "processing", "expired", "processed", "failed"}
    BY DEF Shape, ReceiptRows, ReceiptTypes
  <1>1. ASSUME receipt' = receipt PROVE Goal
    BY <1>0, <1>1
  <1>2. ASSUME NEW s \in {"processed", "failed", "expired"}, NEW q,
               receipt' = [receipt EXCEPT ![q].state = s]
        PROVE  Goal
    BY <1>0, <1>2
  <1>3. ASSUME ClaimInbox PROVE Goal
    <2>1. receipt' = [r \in DOMAIN receipt |->
                        IF r \in Claimable THEN [receipt[r] EXCEPT !.state = "processing"]
                                           ELSE receipt[r]]
      BY <1>3 DEF ClaimInbox
    <2> QED
      BY <1>0, <2>1
  <1>4. ASSUME NEW e \in Events, ReceiveInbound(e) PROVE Goal
    <2> DEFINE new == [event |-> e, state |-> "received"]
    <2>1. receipt' = Append(receipt, new)
      BY <1>4 DEF ReceiveInbound
    <2>2. new.state = "received"
      OBVIOUS
    <2> HIDE DEF new
    <2>3. /\ DOMAIN receipt' = DOMAIN receipt \cup {Len(receipt) + 1}
          /\ \A r \in DOMAIN receipt : receipt'[r] = receipt[r]
          /\ receipt'[Len(receipt) + 1] = new
      BY <1>0, <2>1, AppendFacts
    <2> QED
      BY <1>0, <2>2, <2>3
  <1>5. ASSUME NEW s \in {"processed", "failed"}, Finish(s) PROVE Goal
    BY <1>2, <1>5 DEF Finish
  <1>6. ASSUME NEW r \in DOMAIN receipt, LeaseRunsOut(r) PROVE Goal
    BY <1>2, <1>6 DEF LeaseRunsOut
  <1> QED
    BY <1>1, <1>3, <1>4, <1>5, <1>6, ReceiptWriters

LEMMA EventKinds ==
  ASSUME NEW e \in Events, IsSeq(action)
  PROVE  /\ e.kind \in {"message", "media", "menu", "click"}
         /\ e.action = 0 \/ e.action \in DOMAIN action
         /\ e.kind = "menu" => e.op \in Ops
  <1>1. CASE e \in {Message} \cup Media
    BY <1>1 DEF Message, Media
  <1>2. CASE e \in Menus
    <2>1. PICK op \in Ops : e = [Message EXCEPT !.kind = "menu", !.op = op]
      BY <1>2 DEF Menus
    <2>2. e.kind = "menu" /\ e.op = op /\ e.action = 0
      BY <2>1 DEF Message
    <2> QED
      BY <2>2
  <1>3. CASE e \in Clicks
    BY <1>3 DEF Clicks
  <1> QED
    BY <1>1, <1>2, <1>3 DEF Events

LEMMA ReceiptTypesStep ==
  ASSUME Shape, ReceiptTypes, [Next]_vars
  PROVE  ReceiptTypes'
  <1>1. /\ DOMAIN action = 1..Len(action) /\ Len(action) \in Nat
        /\ DOMAIN action' = 1..Len(action') /\ Len(action') \in Nat
        /\ DOMAIN action \subseteq DOMAIN action' /\ IsSeq(action)
    BY ActionStep, SeqDomain DEF Shape, ActionRows, RowsOf
  <1>2. Len(action) <= Len(action')
    <2>1. CASE Len(action) > 0
      <3>1. Len(action) \in DOMAIN action
        BY <1>1, <2>1
      <3> QED
        BY <1>1, <3>1
    <2> QED
      BY <1>1, <2>1
  <1>3. ASSUME NEW r \in DOMAIN receipt'
        PROVE  /\ receipt'[r].event.kind \in {"message", "media", "menu", "click"}
               /\ receipt'[r].event.action \in 0..Len(action')
               /\ receipt'[r].event.kind = "menu" => receipt'[r].event.op \in Ops
    <2>1. CASE r \in DOMAIN receipt
      <3>1. receipt'[r].event = receipt[r].event
        BY <2>1, ReceiptStep
      <3> QED
        BY <1>1, <1>2, <2>1, <3>1 DEF ReceiptTypes
    <2>2. CASE r \notin DOMAIN receipt
      <3>1. receipt'[r].event \in Events
        BY <2>2, ReceiptStep
      <3>2. /\ receipt'[r].event.kind \in {"message", "media", "menu", "click"}
            /\ receipt'[r].event.action = 0 \/ receipt'[r].event.action \in DOMAIN action
            /\ receipt'[r].event.kind = "menu" => receipt'[r].event.op \in Ops
        BY <1>1, <3>1, EventKinds
      <3> QED
        BY <1>1, <1>2, <3>2
    <2> QED
      BY <2>1, <2>2
  <1> QED
    BY <1>3, StateStep DEF ReceiptTypes

LEMMA StatusStep ==
  ASSUME Shape, ReceiptTypes, CardRows, [Next]_vars, NEW a \in DOMAIN action
  PROVE  /\ action'[a].status \in Live \cup Final \cup {"superseded"}
         /\ action[a].status \notin {"pending", "lapsed", "superseded"} =>
              action'[a].status \notin {"pending", "lapsed", "superseded"}
  <1>1. action[a].status \in Live \cup Final \cup {"superseded"}
    BY DEF CardRows
  <1>2. Rewrites(a)
    BY RowStep
  <1> QED
    BY <1>1, <1>2 DEF Rewrites, Concluding, Live, Final

LEMMA CardRowsStep ==
  ASSUME Shape, TaskRows, ReceiptTypes, CardRows, Targets, [Next]_vars
  PROVE  CardRows'
  <1>1. /\ \A t \in Tasks : t \in Tasks'
        /\ \A t : InBound(t) => InBound(t)'
    BY TaskStep, BoundStep DEF TaskRows, InBound
  <1>2. ASSUME NEW a \in DOMAIN action
        PROVE  /\ CardFits(action'[a].op, action'[a].target)
               /\ action'[a].status \in Live \cup Final \cup {"superseded"}
    <2>1. action'[a].op = action[a].op /\ action'[a].target = action[a].target
      BY RowStep
    <2>2. CardFits(action[a].op, action[a].target)
      BY DEF CardRows
    <2> QED
      BY <2>1, <2>2, StatusStep
  <1>3. ASSUME NEW a \in DOMAIN action' \ DOMAIN action
        PROVE  /\ CardFits(action'[a].op, action'[a].target)
               /\ action'[a].status \in Live \cup Final \cup {"superseded"}
    <2>1. /\ action'[a].op \in Ops \cap Operations
          /\ action'[a].target \in Tasks \cup {NoTask}
          /\ Eligible(action'[a].op, action'[a].target) /\ action'[a].status = "pending"
      BY NewRow
    <2>2. Routed => InBound(route) /\ route \in Tasks
      BY DEF TaskRows, InBound
    <2>3. ASSUME NEW op \in Ops \cap Operations, NEW t, Eligible(op, t) PROVE CardFits(op, t)
      <3>1. op \in {"takeover", "complete"} => t \in Tasks
        BY <2>3 DEF Eligible, Open
      <3>2. op \in {"exit", "task_permission"} => t = route /\ Routed
        BY <2>3 DEF Eligible
      <3>3. op \in {"accepted_task", "dismissed", "create_task"} => t = NoTask
        BY <2>3 DEF Eligible
      <3>4. op \in Aimed => t \in Tasks
        BY <2>2, <3>1, <3>2 DEF Aimed
      <3>5. op \notin Aimed => t = NoTask
        BY <2>3, <3>3 DEF Aimed, Operations
      <3>6. op = "exit" => InBound(t)
        BY <2>2, <3>2
      <3> QED
        BY <2>3, <3>4, <3>5, <3>6 DEF CardFits
    <2> QED
      BY <2>1, <2>3 DEF Live
  <1>4. ASSUME NEW a \in DOMAIN action'
        PROVE  /\ CardFits(action'[a].op, action'[a].target)
               /\ action'[a].status \in Live \cup Final \cup {"superseded"}
    BY <1>2, <1>3
  <1>5. ASSUME NEW op, NEW t, CardFits(op, t) PROVE CardFits(op, t)'
    BY <1>1, <1>5 DEF CardFits
  <1> QED
    BY <1>4, <1>5 DEF CardRows

LEMMA MadeRowsStep ==
  ASSUME Shape, TaskRows, ReceiptTypes, CardRows, MadeRows, Targets, Labels, [Next]_vars
  PROVE  MadeRows'
  <1> SUFFICES ASSUME NEW a, Made(a) \in Tasks'
               PROVE  /\ a \in DOMAIN action'
                      /\ action'[a].status \notin {"pending", "lapsed", "superseded"}
    BY DEF MadeRows, Made
  <1>1. CASE Made(a) \in Tasks
    <2>1. a \in DOMAIN action /\ action[a].status \notin {"pending", "lapsed", "superseded"}
      BY <1>1 DEF MadeRows
    <2> QED
      BY <2>1, RowStep, StatusStep
  <1>2. CASE Continue /\ Made(a) = Continuation(loop.target, Current)
    <2>1. loop.target \in Tasks
      BY <1>2 DEF Continue, At, Targets, OnTask
    <2>2. 3 \in DOMAIN loop.target /\ IsSeq(loop.target[3])
      BY <2>1 DEF TaskRows
    <2>3. Made(a)[3] = Append(loop.target[3], Current)
      BY <1>2, <2>2 DEF Continuation
    <2>4. Made(a)[3] = <<>>
      BY DEF Made
    <2>5. Len(loop.target[3]) + 1 \in DOMAIN Append(loop.target[3], Current)
      BY <2>2, AppendFacts
    <2>6. DOMAIN <<>> = {}
      OBVIOUS
    <2> QED
      BY <2>3, <2>4, <2>5, <2>6
  <1>3. CASE CreateTask /\ Made(a) = Made(Event.action)
    <2>1. a = Event.action
      BY <1>3 DEF Made
    <2>2. loop.pc = "create" /\ action' = action
      BY <1>3 DEF CreateTask, At
    <2>3. Event.kind = "click" /\ Card.status = "executing"
      BY <2>2 DEF Labels, Executing, Working
    <2>4. Event.action \in DOMAIN action
      BY <2>2, <2>3, CardThere DEF Resting
    <2> QED
      BY <2>1, <2>2, <2>3, <2>4 DEF Card
  <1> QED
    BY <1>1, <1>2, <1>3, TaskStep

\* Where a step of the goroutine finds the task it goes on with.
LEMMA LoopTargets ==
  ASSUME Shape, TaskRows, CardRows, Targets, Labels, LoopReads, LoopStep,
         \A t \in Tasks : t \in Tasks'
  PROVE  /\ loop'.pc \in OnTask => loop'.target \in Tasks'
         /\ loop'.pc = "prepare" => task'[loop'.target] = "preparing"
  <1> DEFINE Goal == /\ loop'.pc \in OnTask => loop'.target \in Tasks'
                     /\ loop'.pc = "prepare" => task'[loop'.target] = "preparing"
  <1>0. /\ DOMAIN loop = {"pc", "queue", "target"}
        /\ \A t \in Tasks : t \in Tasks'
        /\ loop.pc \in OnTask => loop.target \in Tasks
    BY DEF Shape, Goroutine, Targets
  <1>1. ASSUME NEW l, Goto(l), l # "prepare",
               l \notin OnTask \/ loop.pc \in OnTask
        PROVE  Goal
    BY <1>0, <1>1 DEF Goto
  <1>2. ASSUME Leave PROVE Goal
    BY <1>2 DEF Leave, Idle, OnTask
  <1>3. ASSUME NEW t, NEW l, loop' = [loop EXCEPT !.pc = l, !.target = t], t \in Tasks',
               l = "prepare" => task'[t] = "preparing"
        PROVE  Goal
    BY <1>0, <1>3
  <1>4. CASE Reconcile \/ ExitTerminal \/ AdoptHost \/ ClaimInbox
    BY <1>0, <1>1, <1>4
       DEF Reconcile, ExitTerminal, AdoptHost, ClaimInbox, Idle, Goto, OnTask
  <1>5. CASE TakeMessage
    BY <1>0, <1>3, <1>5 DEF TakeMessage, TaskRows
  <1>6. CASE ReadRoute
    <2> DEFINE t == IF Routed THEN route ELSE loop.target
               l == IF task[t] = "completed" THEN "continue" ELSE "media"
    <2>1. loop' = [loop EXCEPT !.pc = l, !.target = t] /\ l # "prepare"
      BY <1>6 DEF ReadRoute
    <2>2. t \in Tasks
      BY <1>0, <1>6 DEF ReadRoute, At, OnTask, TaskRows, InBound
    <2> HIDE DEF t, l
    <2> QED
      BY <1>0, <1>3, <2>1, <2>2
  <1>7. CASE Continue
    <2> DEFINE t == Continuation(loop.target, Current)
               l == IF t \in Tasks THEN "activate" ELSE "prepare"
    <2>1. loop' = [loop EXCEPT !.pc = l, !.target = t] /\ Insert(t)
      BY <1>7 DEF Continue
    <2> HIDE DEF t
    <2>2. t \in Tasks' /\ (l = "prepare" => task'[t] = "preparing")
      BY <2>1 DEF Insert, Tasks
    <2> HIDE DEF l
    <2> QED
      BY <1>3, <2>1, <2>2
  <1>8. CASE Prepare \/ ActivateContinuation \/ Attachments \/ CheckTask
    <2>1. loop.pc \in OnTask
      BY <1>8 DEF Prepare, ActivateContinuation, Attachments, CheckTask, At, OnTask
    <2>2. Leave \/ \E l : l # "prepare" /\ Goto(l)
      <3>1. CASE Prepare
        BY <3>1 DEF Prepare, Drop, Finish
      <3>2. CASE ActivateContinuation \/ CheckTask
        BY <3>2 DEF ActivateContinuation, CheckTask, Drop, Finish
      <3>3. CASE Attachments
        BY <3>3 DEF Attachments, Finish
      <3> QED
        BY <1>8, <3>1, <3>2, <3>3
    <2> QED
      BY <1>1, <1>2, <2>1, <2>2
  <1>9. CASE Enqueue \/ TakeMenu \/ FinishClick
    BY <1>1, <1>2, <1>9 DEF Enqueue, TakeMenu, FinishClick, Drop, Finish, OnTask
  <1>10. CASE TakeClick
    <2>1. Event.kind = "click" /\ loop.pc = "take"
      BY <1>10 DEF TakeClick, At
    <2>2. Card.op \in Operations
      BY <2>1, CardThere DEF Resting, CardFits
    <2>3. Entry(Card.op) \notin OnTask
      BY <2>2 DEF Entry, Operations, OnTask
    <2>4. Leave \/ Goto(Entry(Card.op)) \/ Goto("cancel")
      BY <1>10 DEF TakeClick, Drop, Finish
    <2>5. "cancel" \notin OnTask /\ "prepare" \in OnTask
      BY DEF OnTask
    <2>6. ASSUME NEW l, Goto(l), l \notin OnTask PROVE Goal
      BY <1>1, <2>5, <2>6
    <2> QED
      BY <1>2, <2>3, <2>4, <2>5, <2>6
  <1>11. CASE Cancel \/ Reject \/ Succeed \/ TakeOver \/ Complete \/ ResolveHandoff
    <2>1. \E l : l \notin OnTask /\ Goto(l)
      BY <1>11 DEF Cancel, Reject, Succeed, Conclude, TakeOver, Complete, ResolveHandoff, OnTask
    <2> QED
      BY <1>1, <2>1 DEF OnTask
  <1>12. CASE Recheck
    <2>1. loop'.pc \notin OnTask
      BY <1>0, <1>12 DEF Recheck, OnTask
    <2> QED
      BY <2>1 DEF OnTask
  <1>13. CASE Exit
    <2>1. Goto("reject") \/ loop' = [loop EXCEPT !.pc = "adopt", !.target = Card.target]
      BY <1>13 DEF Exit
    <2>2. loop'.pc \in {"reject", "adopt"}
      BY <1>0, <2>1 DEF Goto
    <2> QED
      BY <2>2 DEF OnTask
  <1>14. CASE CreateTask
    <2> DEFINE t == Made(Event.action)
               l == IF t \in Tasks THEN "start" ELSE "prepare"
    <2>1. loop' = [loop EXCEPT !.pc = l, !.target = t] /\ Insert(t)
      BY <1>14 DEF CreateTask
    <2> HIDE DEF t
    <2>2. t \in Tasks' /\ (l = "prepare" => task'[t] = "preparing")
      BY <2>1 DEF Insert, Tasks
    <2> HIDE DEF l
    <2> QED
      BY <1>3, <2>1, <2>2
  <1>15. CASE StartTask
    <2>1. loop.pc \in OnTask
      BY <1>15 DEF StartTask, At, OnTask
    <2> DEFINE l == IF \E i \in DOMAIN mail : mail[i].task = loop.target THEN "succeed"
                    ELSE IF task[loop.target] \in {"completed", "blocked"} THEN "reject"
                    ELSE "submit"
    <2>2. Goto(l) /\ l # "prepare"
      BY <1>15 DEF StartTask
    <2> HIDE DEF l
    <2> QED
      BY <1>1, <2>1, <2>2
  <1>16. CASE SubmitRequest \/ DecideByCard
    BY <1>1, <1>2, <1>16 DEF SubmitRequest, DecideByCard, Drop, Finish, OnTask
  <1>17. CASE FinishPermission
    <2> DEFINE l == IF Event.confirm THEN "check" ELSE "done"
    <2>1. loop.pc = "decided" /\ loop' = [loop EXCEPT !.pc = l, !.target = Card.target]
      BY <1>17 DEF FinishPermission, At
    <2>2. Event.kind = "click" /\ Card.op = "task_permission"
      BY <2>1 DEF Labels
    <2>3. Card.target \in Tasks
      BY <2>1, <2>2, CardThere DEF Resting, CardFits, Aimed
    <2>4. l # "prepare"
      OBVIOUS
    <2> HIDE DEF l
    <2> QED
      BY <1>0, <1>3, <2>1, <2>3, <2>4
  <1> QED
    BY <1>4, <1>5, <1>6, <1>7, <1>8, <1>9, <1>10, <1>11, <1>12, <1>13, <1>14, <1>15, <1>16,
       <1>17 DEF LoopStep

\* Where the web finds the task it tells.
LEMMA WebTargets ==
  ASSUME Shape, CardRows, Targets, [Next]_vars, \A t \in Tasks : t \in Tasks'
  PROVE  web'.pc \in {"check", "tell"} => web'.target \in Tasks'
  <1> DEFINE Goal == web'.pc \in {"check", "tell"} => web'.target \in Tasks'
  <1>0. /\ DOMAIN web = {"pc", "target"} /\ \A t \in Tasks : t \in Tasks'
        /\ web.pc \in {"check", "tell"} => web.target \in Tasks
    BY DEF Shape, Targets
  <1>1. ASSUME web' = web PROVE Goal
    BY <1>0, <1>1
  <1>2. ASSUME web' = WebIdle PROVE Goal
    BY <1>2 DEF WebIdle
  <1>3. ASSUME FinishCard PROVE Goal
    <2>1. PICK a \in DOMAIN action :
            /\ action[a].op = "task_permission"
            /\ web' = IF request = "approved" THEN [pc |-> "check", target |-> action[a].target]
                                              ELSE WebIdle
      BY <1>3 DEF FinishCard
    <2>2. action[a].target \in Tasks
      BY <2>1 DEF CardRows, CardFits, Aimed
    <2>3. CASE web' = [pc |-> "check", target |-> action[a].target]
      <3>1. web'.target = action[a].target
        BY <2>3
      <3> QED
        BY <1>0, <2>2, <3>1
    <2> QED
      BY <1>2, <2>1, <2>3
  <1>4. ASSUME Tell PROVE Goal
    <2>1. CASE web.pc = "check" /\ web' = [web EXCEPT !.pc = "tell"]
      <3>1. web'.target = web.target
        BY <1>0, <2>1
      <3> QED
        BY <1>0, <2>1, <3>1
    <2> QED
      BY <1>2, <1>4, <2>1 DEF Tell
  <1>5. ASSUME UnbindRoute \/ \E d \in BOOLEAN : DecideInWeb(d) PROVE Goal
    <2>1. web'.pc \in {"adopt", "card"}
      BY <1>5 DEF UnbindRoute, DecideInWeb, WebIdle
    <2> QED
      BY <2>1
  <1>6. CASE LoopStep
    <2>1. CASE Reconcile \/ ExitTerminal \/ AdoptHost \/ ClaimInbox \/ TakeMessage \/ ReadRoute
               \/ Continue \/ Prepare \/ ActivateContinuation \/ Attachments \/ CheckTask
               \/ Enqueue
      BY <1>1, <2>1 DEF Reconcile, ExitTerminal, AdoptHost, ClaimInbox, TakeMessage, ReadRoute,
           Continue, Prepare, ActivateContinuation, Attachments, CheckTask, Enqueue
    <2>2. CASE TakeMenu \/ TakeClick \/ Cancel \/ Reject \/ Succeed \/ FinishClick \/ Recheck
      BY <1>1, <2>2 DEF TakeMenu, TakeClick, Cancel, Reject, Succeed, Conclude, FinishClick,
           Recheck
    <2>3. CASE TakeOver \/ Exit \/ Complete \/ CreateTask \/ StartTask \/ SubmitRequest
               \/ ResolveHandoff \/ DecideByCard \/ FinishPermission
      BY <1>1, <2>3 DEF TakeOver, Exit, Complete, CreateTask, StartTask, SubmitRequest,
           ResolveHandoff, DecideByCard, FinishPermission
    <2> QED
      BY <1>6, <2>1, <2>2, <2>3 DEF LoopStep
  <1>7. CASE UnbindAdopt \/ Crash
    BY <1>2, <1>7 DEF UnbindAdopt, Crash
  <1>8. CASE \E t \in Tasks : BindRoute(t) \/ EndTask(t) \/ Touch(t)
    BY <1>1, <1>8 DEF BindRoute, EndTask, Touch
  <1>9. CASE \/ \E a \in DOMAIN action : Lapse(a)
             \/ \E r \in DOMAIN receipt : LeaseRunsOut(r)
             \/ \E e \in Events : ReceiveInbound(e)
    BY <1>1, <1>9 DEF Lapse, LeaseRunsOut, ReceiveInbound
  <1>10. CASE \/ \E r \in DOMAIN download : DownloadEnds(r)
              \/ \E op \in Operations, t \in Tasks \cup {NoTask} : Propose(op, t)
              \/ UNCHANGED vars
    BY <1>1, <1>10 DEF DownloadEnds, Propose, vars
  <1> QED
    BY <1>3, <1>4, <1>5, <1>6, <1>7, <1>8, <1>9, <1>10 DEF Next, WebStep

LEMMA TargetsStep ==
  ASSUME Shape, TaskRows, CardRows, Targets, Labels, LoopReads, [Next]_vars
  PROVE  Targets'
  <1>0. \A t \in Tasks : t \in Tasks'
    BY TaskStep
  <1>1. web'.pc \in {"check", "tell"} => web'.target \in Tasks'
    BY <1>0, WebTargets
  <1>2. CASE LoopStep
    BY <1>0, <1>1, <1>2, LoopTargets DEF Targets
  <1>3. CASE ~ LoopStep
    <2>1. CASE loop' = loop
      <3>1. ~ Prepare
        BY <1>3 DEF LoopStep
      <3>2. loop.pc = "prepare" => task'[loop.target] = "preparing"
        BY <3>1, TaskStep DEF Targets, OnTask
      <3> QED
        BY <1>0, <1>1, <2>1, <3>2 DEF Targets
    <2>2. CASE loop' = Idle
      BY <1>1, <2>2 DEF Targets, Idle, OnTask
    <2> QED
      BY <1>3, <2>1, <2>2, OthersKeepLoop
  <1> QED
    BY <1>2, <1>3

\* The messages after a step: those there were, and at most one more.
LEMMA MailGrows ==
  ASSUME Shape, TaskRows, Targets, [Next]_vars
  PROVE  /\ \A i \in DOMAIN mail : i \in DOMAIN mail' /\ mail'[i] = mail[i]
         /\ \A i \in DOMAIN mail' \ DOMAIN mail :
              /\ mail'[i].task \in Tasks
              /\ \A a : mail'[i].from = <<"action", a>> => SubmitRequest /\ a = Event.action
         /\ SubmitRequest => \E i \in DOMAIN mail' : mail'[i].task = loop.target
  <1> DEFINE Goal == /\ \A i \in DOMAIN mail : i \in DOMAIN mail' /\ mail'[i] = mail[i]
                     /\ \A i \in DOMAIN mail' \ DOMAIN mail :
                          /\ mail'[i].task \in Tasks
                          /\ \A a : mail'[i].from = <<"action", a>> =>
                                    SubmitRequest /\ a = Event.action
  <1>0. IsSeq(mail)
    BY DEF Shape
  <1>1. ASSUME NEW t \in Tasks, NEW k, NEW n, Send(t, k, n),
               k = "action" => SubmitRequest /\ n = Event.action
        PROVE  Goal /\ \E i \in DOMAIN mail' : mail'[i].task = t
    <2>0. Send(t, k, n)
      BY <1>1
    <2>1. /\ DOMAIN mail' = DOMAIN mail \cup {Len(mail) + 1}
          /\ \A i \in DOMAIN mail : mail'[i] = mail[i]
          /\ mail'[Len(mail) + 1].task = t /\ mail'[Len(mail) + 1].from = <<k, n>>
      BY <1>0, <2>0, Sends
    <2> QED
      BY <1>1, <2>1
  <1>2. ASSUME mail' = mail PROVE Goal
    BY <1>2
  <1>3. ASSUME Enqueue PROVE Goal
    <2>1. loop.target \in Tasks
      BY <1>3 DEF Enqueue, At, Targets, OnTask
    <2>2. Send(loop.target, "approval", 0) \/ Send(loop.target, "receipt", Current)
      BY <1>3 DEF Enqueue
    <2> QED
      BY <1>1, <2>1, <2>2
  <1>4. ASSUME SubmitRequest
        PROVE  Goal /\ \E i \in DOMAIN mail' : mail'[i].task = loop.target
    <2>1. loop.target \in Tasks
      BY <1>4 DEF SubmitRequest, At, Targets, OnTask
    <2>2. Send(loop.target, "action", Event.action)
      BY <1>4 DEF SubmitRequest
    <2> QED
      BY <1>1, <1>4, <2>1, <2>2
  <1>5. ASSUME Tell, web.pc = "tell" PROVE Goal
    <2>1. web.target \in Tasks /\ Send(web.target, "approval", 0)
      BY <1>5 DEF Tell, Targets
    <2> QED
      BY <1>1, <2>1
  <1> QED
    BY <1>2, <1>3, <1>4, <1>5, Senders

-----------------------------------------------------------------------------
(* The label of the goroutine tells how far an action is *)

Busy == Working \cup {"prepare", "task_permission", "decided"}

LEMMA Quiet ==
  ASSUME loop'.pc \notin Busy
  PROVE  Labels'
  BY DEF Labels, Executing, Busy, Working

LEMMA Labelled ==
  ASSUME NEW l, receipt' = receipt, loop'.queue = loop.queue, loop'.pc = l,
         l \notin {"task_permission", "decided"},
         Event.kind = "click", Card.op # "task_permission", OpFits(l, Card.op),
         action'[Event.action].op = Card.op, action'[Event.action].target = Card.target,
         action'[Event.action].status = "executing",
         l = "succeed" =>
           /\ Card.op \in Creates => \E i \in DOMAIN mail' : mail'[i].task = Made(Event.action)
           /\ Card.op = "complete" => task'[Card.target] = "completed"
           /\ Card.op = "dismissed" => handoff' = "dismissed"
  PROVE  Labels'
  <1>1. Event' = Event
    BY HandStays
  <1>2. Card'.op = Card.op /\ Card'.target = Card.target /\ Card'.status = "executing"
    BY <1>1 DEF Card
  <1>3. OpFits(loop.pc, Card.op)'
    BY <1>2 DEF OpFits
  <1>4. loop'.pc = "succeed" => Effect'
    <2> SUFFICES ASSUME l = "succeed" PROVE Effect'
      OBVIOUS
    <2>1. Card'.op \in Creates => Started(Event.action)'
      BY <1>1, <1>2 DEF Started, Made
    <2> QED
      BY <1>2, <2>1 DEF Effect
  <1> QED
    BY <1>1, <1>2, <1>3, <1>4 DEF Labels

LEMMA LoopLabels ==
  ASSUME Shape, TaskRows, CardRows, Targets, Labels, LoopReads, LoopStep, [Next]_vars
  PROVE  Labels'
  <1>0. DOMAIN loop = {"pc", "queue", "target"} /\ RowsOf(action)
    BY DEF Shape, Goroutine, ActionRows
  <1>1. ASSUME NEW l, Goto(l) PROVE loop'.pc = l /\ loop'.queue = loop.queue
    BY <1>0, <1>1 DEF Goto
  <1>2. ASSUME Leave PROVE Labels'
    BY <1>2, Quiet DEF Leave, Idle, Busy, Working
  <1>3. ASSUME NEW l, Goto(l), l \notin Busy PROVE Labels'
    BY <1>1, <1>3, Quiet
  <1>4. ASSUME NEW l, loop'.pc = l, loop'.queue = loop.queue, Executing, OpFits(l, Card.op),
               UNCHANGED <<receipt, action>>, l \notin {"task_permission", "decided", "succeed"}
        PROVE  Labels'
    <2>1. /\ Event.kind = "click" /\ Card.status = "executing" /\ Card.op # "task_permission"
      BY <1>4 DEF Labels
    <2>2. /\ action'[Event.action].op = Card.op /\ action'[Event.action].target = Card.target
          /\ action'[Event.action].status = "executing"
      BY <1>4, <2>1 DEF Card
    <2> QED
      BY <1>4, <2>1, <2>2, Labelled
  <1>5. CASE Reconcile \/ ExitTerminal \/ AdoptHost \/ ClaimInbox \/ TakeMessage \/ ReadRoute
    <2>1. loop'.pc \notin Busy
      <3>1. CASE Reconcile \/ ClaimInbox \/ TakeMessage \/ ReadRoute
        BY <1>0, <3>1 DEF Reconcile, ClaimInbox, TakeMessage, ReadRoute, Idle, Busy, Working
      <3>2. CASE ExitTerminal \/ AdoptHost
        BY <1>0, <3>2 DEF ExitTerminal, AdoptHost, Goto, Idle, Busy, Working
      <3> QED
        BY <1>5, <3>1, <3>2
    <2> QED
      BY <2>1, Quiet
  <1>6. CASE ActivateContinuation \/ Attachments \/ CheckTask \/ Enqueue \/ TakeMenu
             \/ FinishClick
    BY <1>2, <1>3, <1>6
       DEF ActivateContinuation, Attachments, CheckTask, Enqueue, TakeMenu, FinishClick, Drop,
           Finish, Busy, Working
  <1>7. CASE Cancel \/ Reject \/ Succeed \/ TakeOver
    BY <1>3, <1>7 DEF Cancel, Reject, Succeed, Conclude, TakeOver, Busy, Working
  <1>8. CASE Continue
    <2>1. /\ loop.pc = "continue" /\ receipt' = receipt /\ loop'.queue = loop.queue
          /\ loop'.pc \in {"activate", "prepare"}
      BY <1>0, <1>8 DEF Continue, At
    <2>2. Event'.kind # "click"
      BY <2>1, HandStays DEF LoopReads
    <2> QED
      BY <2>1, <2>2 DEF Labels, Executing, Working
  <1>9. CASE Prepare
    <2>1. loop.pc = "prepare" /\ action' = action
      BY <1>9 DEF Prepare, At
    <2>2. \/ Event.kind = "click" /\ receipt' = receipt /\ (Goto("start") \/ Goto("reject"))
          \/ Goto("activate") \/ Leave
      BY <1>9 DEF Prepare, Drop, Finish
    <2>3. CASE Event.kind = "click" /\ receipt' = receipt /\ (Goto("start") \/ Goto("reject"))
      <3>1. Executing
        BY <2>1, <2>3 DEF Executing
      <3>2. OpFits("prepare", Card.op)
        BY <2>1, <3>1 DEF Labels
      <3>3. OpFits("start", Card.op) /\ OpFits("reject", Card.op)
        BY <3>2 DEF OpFits
      <3> QED
        BY <1>1, <1>4, <2>1, <2>3, <3>1, <3>3
    <2> QED
      BY <1>2, <1>3, <2>2, <2>3 DEF Busy, Working
  <1>10. CASE TakeClick
    <2>0. Event.kind = "click" /\ loop.pc = "take"
      BY <1>10 DEF TakeClick, At
    <2>1. Event.action \in DOMAIN action /\ Card.op \in Operations
      BY <2>0, CardThere DEF Resting, CardFits
    <2>2. CASE Leave
      BY <1>2, <2>2
    <2>3. CASE /\ action' = [action EXCEPT ![Event.action].status = "executing"]
               /\ receipt' = receipt
               /\ Goto(IF Event.confirm \/ Card.op = "task_permission" THEN Entry(Card.op)
                       ELSE "cancel")
      <3> DEFINE l == IF Event.confirm \/ Card.op = "task_permission" THEN Entry(Card.op)
                      ELSE "cancel"
      <3>1. loop'.pc = l /\ loop'.queue = loop.queue
        BY <1>1, <2>3
      <3>2. /\ action'[Event.action].op = Card.op /\ action'[Event.action].target = Card.target
            /\ action'[Event.action].status = "executing"
        BY <1>0, <2>1, <2>3, WrittenKeeps DEF Card
      <3>3. CASE Card.op # "task_permission"
        <4>1. OpFits(l, Card.op) /\ l \notin {"task_permission", "decided", "succeed"}
          BY <2>1, <3>3 DEF OpFits, Entry, Operations, Creates
        <4> HIDE DEF l
        <4> QED
          BY <2>0, <2>3, <3>1, <3>2, <3>3, <4>1, Labelled
      <3>4. CASE Card.op = "task_permission"
        <4>1. loop'.pc = "task_permission"
          BY <3>1, <3>4 DEF Entry
        <4>2. Event' = Event
          BY <2>3, <3>1, HandStays
        <4>3. Card'.op = "task_permission"
          BY <3>2, <3>4, <4>2 DEF Card
        <4> QED
          BY <2>0, <4>1, <4>2, <4>3 DEF Labels, Executing, Working
      <3> QED
        BY <3>3, <3>4
    <2> QED
      BY <1>10, <2>2, <2>3 DEF TakeClick, Drop, Finish
  <1>11. CASE Recheck
    <2>1. /\ loop.pc \in {"takeover", "complete", "exit", "accepted_task", "dismissed"}
          /\ UNCHANGED <<receipt, action>>
      BY <1>11 DEF Recheck
    <2>2. Executing /\ OpFits(loop.pc, Card.op)
      BY <2>1 DEF Labels, Executing, Working
    <2>3. loop'.queue = loop.queue
      BY <1>0, <1>11 DEF Recheck
    <2>4. \/ loop'.pc = "reject"
          \/ loop'.pc = CASE Card.op = "takeover"      -> "takeover_write"
                          [] Card.op = "complete"      -> "complete_write"
                          [] Card.op = "exit"          -> "exit_write"
                          [] Card.op = "accepted_task" -> "create"
                          [] OTHER                     -> "dismiss_write"
      BY <1>0, <1>11 DEF Recheck
    <2>5. /\ OpFits(loop'.pc, Card.op)
          /\ loop'.pc \notin {"task_permission", "decided", "succeed"}
      BY <2>1, <2>2, <2>4 DEF OpFits, Creates
    <2> QED
      BY <1>4, <2>1, <2>2, <2>3, <2>5
  <1>12. CASE CreateTask
    <2>1. /\ loop.pc = "create" /\ UNCHANGED <<receipt, action>>
          /\ loop'.queue = loop.queue /\ loop'.pc \in {"start", "prepare"}
      BY <1>0, <1>12 DEF CreateTask, At
    <2>2. Executing /\ OpFits(loop.pc, Card.op)
      BY <2>1 DEF Labels, Executing, Working
    <2>3. OpFits(loop'.pc, Card.op)
      BY <2>1, <2>2 DEF OpFits
    <2> QED
      BY <1>4, <2>1, <2>2, <2>3
  <1>13. CASE StartTask \/ SubmitRequest
    <2>2. loop.pc \in {"start", "submit"} /\ action' = action
      BY <1>13 DEF StartTask, SubmitRequest, At
    <2>3. /\ Executing /\ OpFits(loop.pc, Card.op) /\ Event.kind = "click"
          /\ Card.status = "executing" /\ Card.op # "task_permission"
      BY <2>2 DEF Labels, Executing, Working
    <2>4. Card.op \in Creates /\ loop.target = Made(Event.action)
      BY <2>2, <2>3 DEF OpFits, LoopReads
    <2>5. /\ Goto("succeed") => \E i \in DOMAIN mail' : mail'[i].task = Made(Event.action)
          /\ receipt' = receipt
          /\ Goto("succeed") \/ Goto("reject") \/ Goto("submit")
      <3>1. CASE SubmitRequest
        BY <2>4, <3>1, MailGrows DEF SubmitRequest
      <3>2. CASE StartTask
        <4>1. /\ UNCHANGED <<receipt, mail>>
              /\ \/ Goto("succeed") /\ \E i \in DOMAIN mail : mail[i].task = loop.target
                 \/ Goto("reject") \/ Goto("submit")
          BY <3>2 DEF StartTask
        <4>2. Goto("succeed") => ~ Goto("reject") /\ ~ Goto("submit")
          BY <1>0 DEF Goto
        <4> QED
          BY <2>4, <4>1, <4>2
      <3> QED
        BY <1>13, <3>1, <3>2
    <2>6. /\ action'[Event.action].op = Card.op /\ action'[Event.action].target = Card.target
          /\ action'[Event.action].status = "executing"
      BY <2>2, <2>3 DEF Card
    <2>7. ASSUME NEW l \in {"succeed", "reject", "submit"}, Goto(l) PROVE Labels'
      <3>1. loop'.pc = l /\ loop'.queue = loop.queue
        BY <1>1, <2>7
      <3>2. OpFits(l, Card.op)
        BY <2>4, <2>7 DEF OpFits
      <3>3. Card.op # "complete" /\ Card.op # "dismissed"
        BY <2>4 DEF Creates
      <3>4. l \notin {"task_permission", "decided"}
        OBVIOUS
      <3> QED
        BY <2>3, <2>5, <2>6, <2>7, <3>1, <3>2, <3>3, <3>4, Labelled
    <2> QED
      BY <2>5, <2>7
  <1>14. CASE Complete
    <2>1. loop.pc = "complete_write" /\ receipt' = receipt
      BY <1>14 DEF Complete, At
    <2>2. /\ Executing /\ OpFits(loop.pc, Card.op) /\ Event.kind = "click"
          /\ Card.status = "executing" /\ Card.op # "task_permission"
      BY <2>1 DEF Labels, Executing, Working
    <2>3. Card.op = "complete"
      BY <2>1, <2>2 DEF OpFits
    <2>4. Event.action \in DOMAIN action /\ Card.target \in Tasks
      BY <2>1, <2>2, <2>3, CardThere DEF Resting, CardFits, Aimed
    <2>5. CASE Goto("reject") /\ action' = action
      <3>1. OpFits("reject", Card.op)
        BY DEF OpFits
      <3> QED
        BY <1>1, <1>4, <2>1, <2>2, <2>5, <3>1
    <2>6. CASE /\ Goto("succeed") /\ task' = [task EXCEPT ![Card.target] = "completed"]
               /\ action' = action \/ action' = AgedTask(action, Card.target)
      <3>1. /\ action'[Event.action].op = Card.op /\ action'[Event.action].target = Card.target
            /\ action'[Event.action].status = "executing"
        <4>1. CASE action' = action
          BY <2>2, <4>1 DEF Card
        <4>2. CASE action' = AgedTask(action, Card.target)
          BY <1>0, <2>2, <2>4, <4>2, AgedKeeps DEF Card
        <4> QED
          BY <2>6, <4>1, <4>2
      <3>2. task'[Card.target] = "completed"
        BY <2>4, <2>6 DEF Tasks
      <3>3. OpFits("succeed", Card.op)
        BY <2>3 DEF OpFits
      <3>4. loop'.pc = "succeed" /\ loop'.queue = loop.queue
        BY <1>1, <2>6
      <3>5. Card.op \notin Creates /\ Card.op # "dismissed"
        BY <2>3 DEF Creates
      <3> QED
        BY <2>1, <2>2, <3>1, <3>2, <3>3, <3>4, <3>5, Labelled
    <2> QED
      BY <1>14, <2>5, <2>6 DEF Complete
  <1>15. CASE Exit
    <2>1. /\ loop.pc = "exit_write" /\ receipt' = receipt
          /\ \/ Goto("reject") /\ action' = action
             \/ loop' = [loop EXCEPT !.pc = "adopt", !.target = Card.target]
      BY <1>15 DEF Exit, At
    <2>2. Executing
      BY <2>1 DEF Executing, Working
    <2>3. CASE Goto("reject") /\ action' = action
      <3>1. OpFits("reject", Card.op)
        BY DEF OpFits
      <3> QED
        BY <1>1, <1>4, <2>1, <2>2, <2>3, <3>1
    <2>4. CASE loop' = [loop EXCEPT !.pc = "adopt", !.target = Card.target]
      <3>1. loop'.pc = "adopt"
        BY <1>0, <2>4
      <3> QED
        BY <3>1, Quiet DEF Busy, Working
    <2> QED
      BY <2>1, <2>3, <2>4
  <1>16. CASE ResolveHandoff
    <2>1. CASE Goto("done")
      BY <1>3, <2>1 DEF Busy, Working
    <2>2. CASE loop.pc = "dismiss_write" /\ handoff' = "dismissed" /\ Goto("succeed")
      <3>1. /\ Executing /\ OpFits(loop.pc, Card.op) /\ Event.kind = "click"
            /\ Card.status = "executing" /\ Card.op # "task_permission"
        BY <2>2 DEF Labels, Executing, Working
      <3>2. Card.op = "dismissed"
        BY <2>2, <3>1 DEF OpFits
      <3>3. Event.action \in DOMAIN action
        BY <2>2, <3>1, CardThere DEF Resting
      <3>4. action' = AgedHandoff(action) /\ receipt' = receipt
        BY <1>16 DEF ResolveHandoff
      <3>5. /\ action'[Event.action].op = Card.op /\ action'[Event.action].target = Card.target
            /\ action'[Event.action].status = "executing"
        BY <1>0, <3>1, <3>3, <3>4, AgedKeeps DEF Card
      <3>6. OpFits("succeed", Card.op) /\ Card.op \notin Creates /\ Card.op # "complete"
        BY <3>2 DEF OpFits, Creates
      <3>7. loop'.pc = "succeed" /\ loop'.queue = loop.queue
        BY <1>1, <2>2
      <3> QED
        BY <2>2, <3>1, <3>4, <3>5, <3>6, <3>7, Labelled
    <2> QED
      BY <1>16, <2>1, <2>2 DEF ResolveHandoff, At
  <1>17. CASE DecideByCard
    <2>1. CASE Leave
      BY <1>2, <2>1
    <2>2. CASE /\ request' = Decision(Event.confirm) /\ Goto("decided")
               /\ UNCHANGED <<receipt, action>>
      <3>1. loop.pc = "task_permission"
        BY <1>17 DEF DecideByCard, At
      <3>2. loop'.pc = "decided" /\ Event' = Event
        BY <1>1, <2>2, HandStays
      <3>3. Event.kind = "click" /\ Card'.op = "task_permission"
        BY <2>2, <3>1, <3>2 DEF Labels, Card
      <3>4. (request = Decision(Event.confirm))'
        BY <2>2, <3>2 DEF Decision
      <3> QED
        BY <3>2, <3>3, <3>4 DEF Labels, Executing, Working
    <2> QED
      BY <1>17, <2>1, <2>2 DEF DecideByCard, Drop, Finish, Decision
  <1>18. CASE FinishPermission
    <2>1. loop'.pc \in {"check", "done"}
      BY <1>0, <1>18 DEF FinishPermission
    <2> QED
      BY <2>1, Quiet DEF Busy, Working
  <1> QED
    BY <1>5, <1>6, <1>7, <1>8, <1>9, <1>10, <1>11, <1>12, <1>13, <1>14, <1>15, <1>16, <1>17,
       <1>18 DEF LoopStep

LEMMA LabelsStep ==
  ASSUME InboundInv, TaskRows, ReceiptTypes, CardRows, Targets, Labels, [Next]_vars
  PROVE  Labels'
  <1>0. Shape /\ LoopReads
    BY DEF InboundInv
  <1>1. CASE LoopStep
    BY <1>0, <1>1, LoopLabels
  <1>2. CASE loop' = Idle
    BY <1>2, Quiet DEF Idle, Busy, Working
  <1>3. CASE ~ LoopStep /\ loop' = loop /\ loop.pc \in Busy
    <2>0. loop.pc \notin Resting
      BY <1>3 DEF Busy, Working, Resting
    <2>1. Current \in DOMAIN receipt /\ Current' = Current
      BY <1>0, <1>3, <2>0, CurrentInHand DEF Current
    <2>2. Event' = Event
      BY <1>0, <2>1, ReceiptStep DEF Event
    <2>3. CASE Event.kind # "click"
      BY <1>3, <2>2, <2>3 DEF Labels, Executing, Busy, Working
    <2>4. CASE Event.kind = "click"
      <3>1. Event.action \in DOMAIN action /\ CardFits(Card.op, Card.target)
        BY <1>0, <2>0, <2>4, CardThere
      <3>2. /\ Card'.op = Card.op /\ Card'.target = Card.target
            /\ Rewrites(Event.action)
        BY <1>0, <2>2, <3>1, RowStep DEF Card
      <3>3. Card.op # "task_permission" /\ Card.status = "executing" => Card'.status = "executing"
        <4>1. ~ TakeClick /\ ~ TakeOver /\ ~ Exit /\ \A s : ~ Concluding(s)
          BY <1>3 DEF LoopStep, Concluding
        <4> QED
          BY <2>2, <3>2, <4>1 DEF Rewrites, Card
      <3>4. OpFits(loop.pc, Card.op) => OpFits(loop.pc, Card.op)'
        BY <1>3, <3>2 DEF OpFits
      <3>5. Effect => Effect'
        <4>1. Started(Event.action) => Started(Event.action)'
          BY <1>0, <2>2, MailGrows DEF Started, Made
        <4>2. Card.op = "complete" /\ task[Card.target] = "completed"
                => task'[Card.target] = "completed"
          BY <3>1, TaskStep DEF CardFits, Aimed
        <4>3. handoff = "dismissed" => handoff' = "dismissed"
          BY DecisionWriters
        <4> QED
          BY <3>2, <4>1, <4>2, <4>3 DEF Effect
      <3>6. request = Decision(Event.confirm) => request' = Decision(Event.confirm)
        BY <1>0, Deciders DEF Decision
      <3>7. Executing' <=> Executing
        BY <1>3, <2>2 DEF Executing
      <3>8. Decision(Event.confirm)' = Decision(Event.confirm)
        BY <2>2 DEF Decision
      <3> QED
        BY <1>3, <2>2, <3>2, <3>3, <3>4, <3>5, <3>6, <3>7, <3>8 DEF Labels
    <2> QED
      BY <2>3, <2>4
  <1>4. CASE loop' = loop /\ loop.pc \notin Busy
    BY <1>4, Quiet
  <1> QED
    BY <1>1, <1>2, <1>3, <1>4, OthersKeepLoop

-----------------------------------------------------------------------------
(* Results are true *)

\* A success had its effect; a request that was cancelled was rejected.
Truths ==
  \A a \in DOMAIN action :
    /\ action[a].status = "succeeded" =>
         /\ action[a].op \in Creates => Started(a)
         /\ action[a].op = "complete" => task[action[a].target] = "completed"
         /\ action[a].op = "dismissed" => handoff = "dismissed"
         /\ action[a].op = "task_permission" => request = "approved"
         /\ action[a].op = "takeover" => InBound(action[a].target)
    /\ action[a].status = "cancelled" /\ action[a].op = "task_permission" => request = "rejected"

\* Without a crash, an action whose request was sent succeeds in the next step.
Sure ==
  ~ Crashed =>
    \A a : Sent("action", a) =>
      /\ a \in DOMAIN action
      /\ \/ action[a].status = "succeeded"
         \/ loop.pc = "succeed" /\ Event.action = a

Settings ==
  /\ handoff \in {"pending_owner", "task_created", "dismissed"}
  /\ request \in {"none", "pending", "approved", "rejected", "expired"}
  /\ DOMAIN download \subseteq DOMAIN receipt
  /\ \A i \in DOMAIN mail : mail[i].task \in Tasks

ResultInv ==
  /\ InboundInv /\ Counted /\ TaskRows /\ ReceiptTypes /\ CardRows /\ MadeRows
  /\ Targets /\ Labels /\ Truths /\ Sure /\ Settings

LEMMA SettingsStep ==
  ASSUME Shape, TaskRows, Targets, Settings, [Next]_vars
  PROVE  Settings'
  <1>1. /\ handoff' \in {"pending_owner", "task_created", "dismissed"}
        /\ request' \in {"none", "pending", "approved", "rejected", "expired"}
    BY DecisionWriters DEF Settings
  <1>2. DOMAIN download' \subseteq DOMAIN receipt'
    <2>1. \A r \in DOMAIN receipt : r \in DOMAIN receipt'
      BY ReceiptStep
    <2>2. CASE DOMAIN download' = DOMAIN download
      BY <2>1, <2>2 DEF Settings
    <2>3. CASE Attachments /\ DOMAIN download' = DOMAIN download \cup {Current}
      <3>1. Current \in DOMAIN receipt
        BY <2>3, CurrentInHand DEF Attachments, At, Resting
      <3> QED
        BY <2>1, <2>3, <3>1 DEF Settings
    <2> QED
      BY <2>2, <2>3, DecisionWriters
  <1>3. \A i \in DOMAIN mail' : mail'[i].task \in Tasks'
    BY MailGrows, TaskStep DEF Settings
  <1> QED
    BY <1>1, <1>2, <1>3 DEF Settings

LEMMA TruthsStep ==
  ASSUME ResultInv, [Next]_vars
  PROVE  Truths'
  <1>0. /\ Shape /\ TaskRows /\ ReceiptTypes /\ CardRows /\ Targets /\ Labels /\ Truths
        /\ OneApproval /\ request \in {"none", "pending", "approved", "rejected", "expired"}
    BY DEF ResultInv, InboundInv, Settings
  <1>1. /\ \A a : Started(a) => Started(a)'
        /\ \A t \in Tasks : task[t] = "completed" => task'[t] = "completed"
        /\ handoff = "dismissed" => handoff' = "dismissed"
        /\ request \in {"approved", "rejected"} => request' = request
        /\ \A t : InBound(t) => InBound(t)'
    <2>1. \A a : Started(a) => Started(a)'
      BY <1>0, MailGrows DEF Started, Made
    <2>2. \A t : InBound(t) => InBound(t)'
      BY <1>0, BoundStep DEF InBound, TaskRows
    <2> QED
      BY <1>0, <2>1, <2>2, TaskStep, DecisionWriters, Deciders
  <1> DEFINE True(a) ==
        /\ action'[a].status = "succeeded" =>
             /\ action'[a].op \in Creates => Started(a)'
             /\ action'[a].op = "complete" => task'[action'[a].target] = "completed"
             /\ action'[a].op = "dismissed" => handoff' = "dismissed"
             /\ action'[a].op = "task_permission" => request' = "approved"
             /\ action'[a].op = "takeover" => \E i \in DOMAIN bound' : bound'[i] = action'[a].target
        /\ action'[a].status = "cancelled" /\ action'[a].op = "task_permission" =>
             request' = "rejected"
  <1>2. ASSUME NEW a \in DOMAIN action' \ DOMAIN action PROVE True(a)
    <2>1. action'[a].status = "pending"
      BY <1>0, NewRow
    <2> QED
      BY <2>1
  <1>3. ASSUME NEW a \in DOMAIN action PROVE True(a)
    <2>0. /\ action'[a].op = action[a].op /\ action'[a].target = action[a].target
          /\ Rewrites(a) /\ CardFits(action[a].op, action[a].target)
      BY <1>0, RowStep DEF CardRows
    <2>1. action[a].op = "complete" => action[a].target \in Tasks
      BY <2>0 DEF CardFits, Aimed
    <2>2. CASE action'[a].status = action[a].status
      BY <1>0, <1>1, <2>0, <2>1, <2>2 DEF Truths, InBound
    <2>3. CASE action'[a].status \in {"lapsed", "superseded", "executing"}
      BY <2>3
    <2>4. CASE \E s : Concluding(s) /\ a = Event.action
                      /\ action[a].status = "executing" /\ action'[a].status = s
      <3>1. CASE Cancel
        <4>1. Card.op # "task_permission" /\ loop.pc = "cancel"
          BY <1>0, <3>1 DEF Cancel, Conclude, At, Labels, Executing, Working
        <4>2. action'[a].status # "succeeded"
          BY <2>4, <3>1, <4>1 DEF Concluding, Reject, Succeed, FinishPermission, Conclude, At
        <4> QED
          BY <2>0, <2>4, <4>1, <4>2 DEF Card
      <3>2. CASE Reject
        <4>1. action'[a].status = "failed"
          BY <2>4, <3>2 DEF Concluding, Cancel, Reject, Succeed, FinishPermission, Conclude, At
        <4> QED
          BY <4>1
      <3>3. CASE Succeed
        <4>1. loop.pc = "succeed"
          BY <3>3 DEF Succeed, Conclude, At
        <4>2. Effect /\ Card.op \in Creates \cup {"complete", "dismissed"}
          BY <1>0, <4>1 DEF Labels, Executing, Working, OpFits
        <4>3. /\ action[a].op \in Creates \cup {"complete", "dismissed"}
              /\ action[a].op \in Creates => Started(a)
              /\ action[a].op = "complete" => task[action[a].target] = "completed"
              /\ action[a].op = "dismissed" => handoff = "dismissed"
          BY <2>4, <4>2 DEF Effect, Card
        <4>4. action[a].op # "task_permission" /\ action[a].op # "takeover"
          BY <4>3 DEF Creates
        <4> QED
          BY <1>1, <2>0, <2>1, <4>3, <4>4
      <3>4. CASE FinishPermission
        <4>1. loop.pc = "decided" /\ request' = request
          BY <3>4 DEF FinishPermission, At
        <4>2. Card.op = "task_permission" /\ request = Decision(Event.confirm)
          BY <1>0, <4>1 DEF Labels
        <4>3. action'[a].status = IF Event.confirm THEN "succeeded" ELSE "cancelled"
          BY <2>4, <3>4, <4>1 DEF Concluding, Cancel, Reject, Succeed, Conclude, At
        <4>4. action[a].op = "task_permission"
          BY <2>4, <4>2 DEF Card
        <4> QED
          BY <2>0, <4>1, <4>2, <4>3, <4>4 DEF Decision, Creates
      <3> QED
        BY <2>4, <3>1, <3>2, <3>3, <3>4 DEF Concluding
    <2>5. CASE /\ TakeOver \/ Exit
               /\ loop.pc \in {"takeover_write", "exit_write"} /\ a = Event.action
               /\ action'[a].status = "succeeded"
      <3>1. /\ loop.pc = "takeover_write" => Card.op = "takeover"
            /\ loop.pc = "exit_write" => Card.op = "exit"
        BY <1>0 DEF Labels, Executing, Working, OpFits
      <3>2. loop.pc = "takeover_write" => TakeOver
        BY <2>5 DEF Exit, At
      <3>3. TakeOver => \E i \in DOMAIN bound' : bound'[i] = Card.target
        BY <1>0, Activated DEF TakeOver, TaskRows
      <3>4. action[a].op \in {"takeover", "exit"}
            /\ (action[a].op = "takeover" => \E i \in DOMAIN bound' : bound'[i] = action[a].target)
        BY <2>5, <3>1, <3>2, <3>3 DEF Card
      <3> QED
        BY <2>0, <2>5, <3>4 DEF Creates
    <2>6. CASE /\ FinishCard /\ action[a].op = "task_permission"
               /\ action'[a].status = IF request = "approved" THEN "succeeded" ELSE "cancelled"
      <3>1. request \in {"approved", "rejected"} /\ request' = request
        BY <1>0, <2>6 DEF FinishCard, OneApproval, WebHas
      <3> QED
        BY <2>0, <2>6, <3>1 DEF Creates
    <2> QED
      BY <2>0, <2>2, <2>3, <2>4, <2>5, <2>6 DEF Rewrites
  <1>4. \A a \in DOMAIN action' : True(a)
    BY <1>2, <1>3
  <1> QED
    BY <1>4 DEF Truths, InBound

LEMMA AtSucceed ==
  ASSUME LoopStep, loop.pc = "succeed"
  PROVE  Succeed
  <1>1. ~ (Reconcile \/ ExitTerminal \/ AdoptHost \/ ClaimInbox \/ TakeMessage \/ ReadRoute
             \/ Continue \/ Prepare \/ ActivateContinuation \/ Attachments \/ CheckTask
             \/ Enqueue)
    BY DEF Reconcile, ExitTerminal, AdoptHost, ClaimInbox, TakeMessage, ReadRoute,
       Continue, Prepare, ActivateContinuation, Attachments, CheckTask, Enqueue, At
  <1>2. ~ (TakeMenu \/ TakeClick \/ Cancel \/ Reject \/ FinishClick \/ Recheck)
    BY DEF TakeMenu, TakeClick, Cancel, Reject, Conclude, FinishClick, Recheck, At
  <1>3. ~ (TakeOver \/ Exit \/ Complete \/ CreateTask \/ StartTask \/ SubmitRequest
             \/ ResolveHandoff \/ DecideByCard \/ FinishPermission)
    BY DEF TakeOver, Exit, Complete, CreateTask, StartTask, SubmitRequest,
       ResolveHandoff, DecideByCard, FinishPermission, At
  <1> QED
    BY <1>1, <1>2, <1>3 DEF LoopStep

LEMMA SureStep ==
  ASSUME ResultInv, [Next]_vars
  PROVE  Sure'
  <1>0. /\ Shape /\ TaskRows /\ ReceiptTypes /\ CardRows /\ Targets /\ Labels /\ Sure
        /\ Counted
    BY DEF ResultInv, InboundInv
  <1> SUFFICES ASSUME ~ Crashed', NEW a, Sent("action", a)'
               PROVE  /\ a \in DOMAIN action'
                      /\ \/ action'[a].status = "succeeded"
                         \/ loop'.pc = "succeed" /\ Event'.action = a
    BY DEF Sure
  <1>1. ~ Crashed /\ ~ Crash
    BY <1>0, CrashCounts DEF Crashed
  <1>2. CASE Sent("action", a)
    <2>1. /\ a \in DOMAIN action
          /\ action[a].status = "succeeded" \/ (loop.pc = "succeed" /\ Event.action = a)
      BY <1>0, <1>1, <1>2 DEF Sure
    <2>2. a \in DOMAIN action' /\ Rewrites(a)
      BY <1>0, <2>1, RowStep
    <2>3. CASE action[a].status = "succeeded"
      BY <2>2, <2>3 DEF Rewrites, Live
    <2>4. CASE loop.pc = "succeed" /\ Event.action = a
      <3>1. CASE LoopStep
        <4>1. Succeed /\ Card.status = "executing"
          BY <1>0, <2>4, <3>1, AtSucceed DEF Labels, Executing, Working
        <4>2. action' = [action EXCEPT ![a].status =
                           IF action[a].status = "executing" THEN "succeeded"
                           ELSE action[a].status]
          BY <2>4, <4>1 DEF Succeed, Conclude, SetStatus
        <4>3. action'[a].status = "succeeded"
          BY <1>0, <2>1, <2>4, <4>1, <4>2 DEF Card, Shape, ActionRows, RowsOf
        <4> QED
          BY <2>2, <4>3
      <3>2. CASE ~ LoopStep
        <4>1. loop' = loop
          BY <1>1, <3>2, OthersKeepLoop
        <4>2. Current \in DOMAIN receipt /\ Current' = Current
          BY <1>0, <2>4, <4>1, CurrentInHand DEF Resting, Current
        <4>3. Event' = Event
          BY <1>0, <4>2, ReceiptStep DEF Event
        <4> QED
          BY <2>2, <2>4, <4>1, <4>3
      <3> QED
        BY <3>1, <3>2
    <2> QED
      BY <2>1, <2>3, <2>4
  <1>3. CASE ~ Sent("action", a)
    <2>1. SubmitRequest /\ a = Event.action
      BY <1>0, <1>3, MailGrows DEF Sent
    <2>2. loop.pc = "submit" /\ receipt' = receipt /\ Goto("succeed") /\ action' = action
      BY <2>1 DEF SubmitRequest, At
    <2>3. loop'.pc = "succeed" /\ loop'.queue = loop.queue
      BY <1>0, <2>2 DEF Goto, Shape, Goroutine
    <2>4. Event' = Event
      BY <2>2, <2>3, HandStays
    <2>5. Event.kind = "click"
      BY <1>0, <2>2 DEF Labels, Executing, Working
    <2>6. a \in DOMAIN action
      BY <1>0, <2>1, <2>2, <2>5, CardThere DEF Resting
    <2> QED
      BY <2>1, <2>2, <2>3, <2>4, <2>6
  <1> QED
    BY <1>2, <1>3

LEMMA InitResult == Init => ResultInv
  <1> SUFFICES ASSUME Init PROVE ResultInv
    OBVIOUS
  <1>1. InboundInv /\ Counted
    BY InitInbound, InitOrder DEF OrderInv
  <1>2. /\ receipt = <<>> /\ action = <<>> /\ mail = <<>> /\ bound = <<>>
        /\ DOMAIN receipt = {} /\ DOMAIN action = {} /\ DOMAIN mail = {} /\ DOMAIN bound = {}
    BY DEF Init
  <1>3. IsSeq(<<>>)
    BY <1>1, <1>2 DEF InboundInv, Shape
  <1>4. Tasks = {Host, Work} /\ \A t \in Tasks : task[t] = "active"
    BY DEF Init, Tasks
  <1>5. TaskRows
    <2>1. \A t \in Tasks : 3 \in DOMAIN t /\ IsSeq(t[3])
      BY <1>3, <1>4 DEF Host, Work
    <2> QED
      BY <1>2, <1>3, <1>4, <2>1 DEF Init, TaskRows, Routed
  <1>6. ReceiptTypes /\ CardRows /\ Truths
    BY <1>2 DEF ReceiptTypes, CardRows, Truths
  <1>7. MadeRows
    BY <1>4 DEF MadeRows, Made, Host, Work
  <1>8. Targets /\ Labels
    BY DEF Init, Targets, Labels, Executing, Working, Idle, WebIdle, OnTask
  <1>9. Sure /\ Settings
    BY <1>2 DEF Init, Sure, Sent, Settings
  <1> QED
    BY <1>1, <1>5, <1>6, <1>7, <1>8, <1>9 DEF ResultInv

LEMMA ResultStep ==
  ASSUME ResultInv, [Next]_vars
  PROVE  ResultInv'
  <1>0. /\ InboundInv /\ Counted /\ TaskRows /\ ReceiptTypes /\ CardRows /\ MadeRows
        /\ Targets /\ Labels /\ Truths /\ Sure /\ Settings /\ Shape /\ LoopReads
    BY DEF ResultInv, InboundInv
  <1>1. InboundInv' /\ Counted'
    BY <1>0, InboundStep, CrashCounts
  <1>2. TaskRows' /\ ReceiptTypes' /\ CardRows' /\ MadeRows'
    BY <1>0, TaskRowsStep, ReceiptTypesStep, CardRowsStep, MadeRowsStep
  <1>3. Targets' /\ Labels' /\ Settings'
    BY <1>0, TargetsStep, LabelsStep, SettingsStep
  <1>4. Truths' /\ Sure'
    BY TruthsStep, SureStep
  <1> QED
    BY <1>1, <1>2, <1>3, <1>4 DEF ResultInv

LEMMA ResultsFollow == ResultInv => TypeOK /\ ResultsTrue
  <1> SUFFICES ASSUME ResultInv PROVE TypeOK /\ ResultsTrue
    OBVIOUS
  <1>0. /\ Shape /\ TaskRows /\ ReceiptTypes /\ CardRows /\ MadeRows /\ Labels /\ Truths /\ Sure
        /\ Settings
    BY DEF ResultInv, InboundInv
  <1>1. TypeOK
    <2>1. \A a \in DOMAIN action : action[a].target \in Tasks \cup {NoTask}
      BY <1>0 DEF CardRows, CardFits
    <2>2. loop.queue \subseteq DOMAIN receipt
      BY <1>0 DEF Shape, Goroutine
    <2> QED
      BY <1>0, <2>1, <2>2
         DEF TypeOK, TaskRows, ReceiptTypes, CardRows, CardFits, Settings, InBound
  <1>2. ASSUME NEW a \in DOMAIN action, action[a].status \in {"cancelled", "failed"}, ~ Crashed,
               Sent("action", a)
        PROVE  FALSE
    <2>1. loop.pc = "succeed" /\ Event.action = a
      BY <1>0, <1>2 DEF Sure
    <2>2. action[a].status = "executing"
      BY <1>0, <2>1 DEF Labels, Executing, Working, Card
    <2> QED
      BY <1>2, <2>2
  <1>3. ASSUME NEW a \in DOMAIN action, action[a].status = "succeeded"
        PROVE  CASE action[a].op \in {"create_task", "accepted_task"} -> Started(a)
                 [] action[a].op = "complete"        -> task[action[a].target] = "completed"
                 [] action[a].op = "dismissed"       -> handoff = "dismissed"
                 [] action[a].op = "task_permission" -> request = "approved"
                 [] OTHER -> \E i \in DOMAIN bound : bound[i] = action[a].target
    <2>1. CardFits(action[a].op, action[a].target)
      BY <1>0 DEF CardRows
    <2>2. action[a].op \in Operations /\ (action[a].op = "exit" => InBound(action[a].target))
      BY <2>1 DEF CardFits
    <2>3. /\ action[a].op \in Creates => Started(a)
          /\ action[a].op = "complete" => task[action[a].target] = "completed"
          /\ action[a].op = "dismissed" => handoff = "dismissed"
          /\ action[a].op = "task_permission" => request = "approved"
          /\ action[a].op = "takeover" => InBound(action[a].target)
      BY <1>0, <1>3 DEF Truths
    <2> QED
      BY <2>2, <2>3 DEF Creates, InBound, Operations
  <1>4. ResultsTrue
    BY <1>0, <1>2, <1>3 DEF ResultsTrue, Truths, MadeRows
  <1> QED
    BY <1>1, <1>4

\* The rows of a conversation keep their types, whatever routes are bound, left
\* and reused while the goroutine acts on what it read
\* (internal/store/channel_actions.go:204, internal/channel/service.go:1434).
THEOREM InboundTyped == Spec => []TypeOK
  <1>1. ResultInv /\ [Next]_vars => ResultInv'
    BY ResultStep
  <1>2. ResultInv => TypeOK
    BY ResultsFollow
  <1> QED
    BY <1>1, <1>2, InitResult, PTL DEF Spec

\* What a card shows is what happened, though its execution is many transactions
\* in competition with the web (internal/store/channel_actions.go:38,
\* internal/channel/service.go:2081).
THEOREM CardsTellTruth == Spec => []ResultsTrue
  <1>1. ResultInv /\ [Next]_vars => ResultInv'
    BY ResultStep
  <1>2. ResultInv => ResultsTrue
    BY ResultsFollow
  <1> QED
    BY <1>1, <1>2, InitResult, PTL DEF Spec
=============================================================================
