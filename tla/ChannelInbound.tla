--------------------------- MODULE ChannelInbound ---------------------------
(***************************************************************************)
(* What one conversation of a channel sends in (internal/channel/service.go*)
(* and internal/store/channel_inbound.go, channel_actions.go,              *)
(* channel_owner_routes.go).  The plugin stores a receipt per event of the *)
(* provider; one goroutine claims the receipts under a lease and handles   *)
(* them in order: a message goes to the task the conversation is routed to,*)
(* a click on a confirmation card executes the pending action of the card. *)
(* The owner works in the web at the same time, agents propose actions,    *)
(* and the process may crash between any two transactions of a handler.    *)
(*                                                                         *)
(* A receipt stands for an event id: the store drops an event it has seen. *)
(* Time is a choice: when a lease, a card or a download runs out; the card *)
(* of a permission request and the request run out together.  A lease      *)
(* of a receipt in the goroutine's hands is never looked at.  "active"     *)
(* stands for the task statuses active, waiting_user and failed, which all *)
(* take a message; fresh says that the preconditions a preview was built   *)
(* from (updated_at, the route's revision) are still those of the row.     *)
(*                                                                         *)
(* The owner's own conversation has the cards of the owner's actions, a    *)
(* group the cards of permission requests.  One conversation stands for    *)
(* both, with their cards kept apart; there is one permission request.     *)
(***************************************************************************)
EXTENDS Naturals, Sequences, FiniteSets, SequencesExt, FiniteSetsExt

CONSTANTS MaxReceipts,  \* bound on the events of the provider
          MaxRows,      \* bound on the receipts and the pending actions together
          MaxUpsets,    \* bound on expired cards and what the web and crashes do meanwhile
          MaxCrashes,   \* bound on the crashes among them
          Ops           \* the operations and environment steps of a run

Operations == {"takeover", "exit", "create_task", "complete",
               "accepted_task", "dismissed", "task_permission"}

ASSUME InboundAssumption ==
  /\ {MaxReceipts, MaxRows, MaxUpsets, MaxCrashes} \subseteq Nat
  /\ Ops \subseteq Operations \cup {"media", "menu", "bind", "end", "touch", "lapse", "block"}

VARIABLES receipt,   \* channel_inbox_dedup, in the order of received_at
          download,  \* channel_plugin_commands: the attachments of a receipt
          action,    \* channel_pending_actions, in the order of creation
          task,      \* tasks: their statuses
          host,      \* host_task_id of the conversation
          bound,     \* channel_task_routes: the tasks, by their last activation
          route,     \* the task of the active one
          handoff,   \* the state of a channel handoff
          request,   \* the state of a task permission request
          mail,      \* the messages the tasks got, in the order of their insertion
          loop,      \* the inbound goroutine
          web,       \* a handler of the owner's web session
          left       \* what remains of the bounds MaxUpsets and MaxCrashes

vars == <<receipt, download, action, task, host, bound, route, handoff, request,
          mail, loop, web, left>>

\* Tasks by where they come from: their id is a function of the task that ended
\* and the receipt that found it so (a continuation), or of the action.
NoTask == <<"none", 0, <<>>>>
Host   == <<"host", 0, <<>>>>
Work   == <<"work", 0, <<>>>>
Made(a) == <<"made", a, <<>>>>
Continuation(t, r) == [t EXCEPT ![3] = Append(@, r)]

\* The task lives in the project of the channel instance.
ChannelOwned(t) == t[1] = "host"
Tasks  == DOMAIN task
Open(t) == t \in Tasks /\ task[t] \in {"preparing", "active"}

Idle    == [pc |-> "idle", queue |-> {}, target |-> NoTask]
WebIdle == [pc |-> "idle", target |-> NoTask]

Init == /\ receipt = <<>> /\ action = <<>>
        /\ download = [r \in {} |-> [task |-> NoTask, done |-> FALSE]]
        /\ task = [t \in {Host, Work} |-> "active"]
        /\ host = Host /\ bound = <<>> /\ route = NoTask
        /\ handoff = "pending_owner" /\ request = "none"
        /\ mail = <<>>
        /\ loop = Idle /\ web = WebIdle
        /\ left = [upsets |-> MaxUpsets, crashes |-> MaxCrashes]
-----------------------------------------------------------------------------
(* Pending actions *)

Live == {"pending", "lapsed", "executing"}
Final == {"succeeded", "cancelled", "failed"}

\* The rows after what the live actions selected by Hit were previewed from changed.
Aged(rows, Hit(_)) ==
  [a \in DOMAIN rows |-> IF Hit(rows[a]) THEN [rows[a] EXCEPT !.fresh = FALSE] ELSE rows[a]]

AgedTask(rows, t) ==
  Aged(rows, LAMBDA x : x.op \in {"takeover", "complete"} /\ x.target = t)
AgedRoute(rows)   == Aged(rows, LAMBDA x : x.op = "exit")
AgedHandoff(rows) == Aged(rows, LAMBDA x : x.op \in {"accepted_task", "dismissed"})

Routed  == route # NoTask

Spend == left.upsets > 0 /\ left' = [left EXCEPT !.upsets = @ - 1]

Full == Len(receipt) + Len(action) >= MaxRows

\* PreviewAgentAction and the previews of the menu cards: what op may be aimed at.
Eligible(op, t) ==
  CASE op = "takeover" -> Open(t) /\ ~ ChannelOwned(t)
    [] op = "complete" -> t \in Tasks /\ ~ ChannelOwned(t)
    [] op = "exit" -> Routed /\ t = route
    [] op \in {"accepted_task", "dismissed"} -> t = NoTask /\ handoff = "pending_owner"
    [] op = "task_permission" -> Routed /\ t = route /\ request = "none"
    [] OTHER -> t = NoTask

\* A conversation of the owner and a group do not share their cards.
SameChat(op, other) == (op = "task_permission") <=> (other = "task_permission")

\* Mutant: the action that is being executed is superseded too.
CreateActionOverAll(op, t) ==
  action' = Append(
    [a \in DOMAIN action |->
       IF action[a].status \in Live /\ SameChat(action[a].op, op)
       THEN [action[a] EXCEPT !.status = "superseded"] ELSE action[a]],
    [op |-> op, target |-> t, fresh |-> TRUE, status |-> "pending"])

\* CreateChannelPendingAction: a new card supersedes the pending ones.
CreateAction(op, t) ==
  action' = Append(
    [a \in DOMAIN action |->
       IF action[a].status \in {"pending", "lapsed"} /\ SameChat(action[a].op, op)
       THEN [action[a] EXCEPT !.status = "superseded"] ELSE action[a]],
    [op |-> op, target |-> t, fresh |-> TRUE, status |-> "pending"])

\* An agent of the conversation asks for a card.
Propose(op, t) ==
  /\ op \in Ops /\ ~ Full
  /\ Eligible(op, t)
  /\ CreateAction(op, t)
  /\ request' = IF op = "task_permission" THEN "pending" ELSE request
  /\ UNCHANGED <<receipt, download, task, host, bound, route, handoff, mail, loop, web, left>>

Asks(a) == action[a].op = "task_permission" /\ request = "pending"

\* expires_at of a pending action has passed, which is that of the request it asks
\* for.  A click that began before may find the request expired.
Lapse(a) ==
  /\ "lapse" \in Ops /\ Spend
  /\ action[a].status = "pending" \/ Asks(a)
  /\ action' = IF action[a].status = "pending" THEN [action EXCEPT ![a].status = "lapsed"]
                                               ELSE action
  /\ request' = IF Asks(a) THEN "expired" ELSE request
  /\ UNCHANGED <<receipt, download, task, host, bound, route, handoff, mail, loop, web>>
-----------------------------------------------------------------------------
(* Receipts *)

Message == [kind |-> "message", action |-> 0, confirm |-> FALSE, op |-> "none"]

Media  == IF "media" \in Ops THEN {[Message EXCEPT !.kind = "media"]} ELSE {}
Menus  == {[Message EXCEPT !.kind = "menu", !.op = op] :
             op \in IF "menu" \in Ops THEN Ops \cap {"takeover", "exit", "create_task"} ELSE {}}
Clicks == {[kind |-> "click", action |-> a, confirm |-> c, op |-> "none"] :
             a \in DOMAIN action, c \in BOOLEAN}
Events == {Message} \cup Media \cup Menus \cup Clicks

ReceiveInbound(e) ==
  /\ Len(receipt) < MaxReceipts /\ ~ Full
  /\ receipt' = Append(receipt, [event |-> e, state |-> "received"])
  /\ UNCHANGED <<download, action, task, host, bound, route, handoff, request, mail,
                 loop, web, left>>

InHand(r) == r \in loop.queue

\* lease_until of a receipt nobody handles has passed.
LeaseRunsOut(r) ==
  /\ receipt[r].state = "processing" /\ ~ InHand(r)
  /\ receipt' = [receipt EXCEPT ![r].state = "expired"]
  /\ UNCHANGED <<download, action, task, host, bound, route, handoff, request, mail,
                 loop, web, left>>

\* The plugin has answered the downloads of a receipt, or ten minutes are over.
DownloadEnds(r) ==
  /\ r \in DOMAIN download /\ ~ download[r].done
  /\ download' = [download EXCEPT ![r].done = TRUE]
  /\ UNCHANGED <<receipt, action, task, host, bound, route, handoff, request, mail,
                 loop, web, left>>
-----------------------------------------------------------------------------
(* The inbound goroutine *)

At(l)   == loop.pc = l
Goto(l) == loop' = [loop EXCEPT !.pc = l]

\* Mutant: the newest receipt of a batch first.
CurrentNewest == Max(loop.queue)

\* The receipts of a batch are handled in the order of their arrival.
Current == Min(loop.queue)
Event   == receipt[Current].event
Card    == action[Event.action]

Leave == loop' = [Idle EXCEPT !.pc = IF loop.queue = {Current} THEN "idle" ELSE "take",
                              !.queue = loop.queue \ {Current}]

\* FinishChannelInbox with the lease of the claim.
Finish(state) == receipt' = [receipt EXCEPT ![Current].state = state] /\ Leave
Drop == Finish("failed")

\* TerminalChannelTaskRoutes.
RouteEnded == Routed /\ task[route] = "completed"

Reconcile ==
  /\ At("idle") /\ RouteEnded
  /\ loop' = [loop EXCEPT !.pc = "exit_terminal", !.target = route]
  /\ UNCHANGED <<receipt, download, action, task, host, bound, route, handoff, request,
                 mail, web, left>>

\* ExitTerminalChannelTaskRoute
ExitTerminal ==
  /\ At("exit_terminal")
  /\ \/ /\ route = loop.target
        /\ route' = NoTask /\ action' = AgedRoute(action)
        /\ Goto("adopt")
     \/ /\ route # loop.target
        /\ loop' = [Idle EXCEPT !.pc = "claim"]
        /\ UNCHANGED <<route, action>>
  /\ UNCHANGED <<receipt, download, task, host, bound, handoff, request, mail, web, left>>

\* LatestReusableChannelTask and AdoptChannelConversationHost: the channel's
\* own task that was bound last, other than the one that was released.
Adopt(released) ==
  LET usable == {i \in DOMAIN bound :
                   ChannelOwned(bound[i]) /\ Open(bound[i]) /\ bound[i] # released}
  IN  host' = IF usable = {} THEN host ELSE bound[Max(usable)]

AdoptHost ==
  /\ At("adopt")
  /\ Adopt(loop.target)
  /\ IF loop.queue = {} THEN loop' = [Idle EXCEPT !.pc = "claim"] ELSE Goto("done")
  /\ UNCHANGED <<receipt, download, action, task, bound, route, handoff, request, mail,
                 web, left>>

\* Mutant: a lease is for ever.
ClaimableReceived == {r \in DOMAIN receipt : receipt[r].state = "received"}

\* ClaimChannelInbox: expired leases go back, everything received is taken.
Claimable == {r \in DOMAIN receipt : receipt[r].state \in {"received", "expired"}}

ClaimInbox ==
  /\ \/ At("claim")
     \/ At("idle") /\ ~ RouteEnded /\ Claimable # {}
  /\ receipt' = [r \in DOMAIN receipt |->
                   IF r \in Claimable THEN [receipt[r] EXCEPT !.state = "processing"]
                                      ELSE receipt[r]]
  /\ loop' = [Idle EXCEPT !.pc = IF Claimable = {} THEN "idle" ELSE "take",
                          !.queue = Claimable]
  /\ UNCHANGED <<download, action, task, host, bound, route, handoff, request, mail,
                 web, left>>
-----------------------------------------------------------------------------
(* processInbound: a message *)

TakeMessage ==
  /\ At("take") /\ Event.kind \in {"message", "media"}
  /\ loop' = [loop EXCEPT !.pc = "route", !.target = host]
  /\ UNCHANGED <<receipt, download, action, task, host, bound, route, handoff, request,
                 mail, web, left>>

\* ActiveChannelTaskRoute and finishedChannelTarget.
ReadRoute ==
  /\ At("route")
  /\ LET t == IF Routed THEN route ELSE loop.target
     IN  loop' = [loop EXCEPT !.pc = IF task[t] = "completed" THEN "continue" ELSE "media",
                              !.target = t]
  /\ UNCHANGED <<receipt, download, action, task, host, bound, route, handoff, request,
                 mail, web, left>>

\* CreateTask inserts t as preparing, unless it is there already.
Insert(t) == task' = [u \in Tasks \cup {t} |-> IF u \in Tasks THEN task[u] ELSE "preparing"]

\* continueFinishedChannelTask
Continue ==
  /\ At("continue")
  /\ LET t == Continuation(loop.target, Current)
     IN  /\ Insert(t)
         /\ loop' = [loop EXCEPT !.pc = IF t \in Tasks THEN "activate" ELSE "prepare",
                                 !.target = t]
  /\ UNCHANGED <<receipt, download, action, host, bound, route, handoff, request, mail,
                 web, left>>

\* prepareAndActivateTask; the workspace of a task may fail to be prepared.
Prepare ==
  /\ At("prepare")
  /\ \/ /\ task' = [task EXCEPT ![loop.target] = "active"]
        /\ Goto(IF Event.kind = "click" THEN "start" ELSE "activate")
        /\ UNCHANGED receipt
     \/ /\ "block" \in Ops
        /\ task' = [task EXCEPT ![loop.target] = "blocked"]
        /\ IF Event.kind = "click" THEN Goto("reject") /\ UNCHANGED receipt ELSE Drop
  /\ UNCHANGED <<download, action, host, bound, route, handoff, request, mail, web, left>>

\* Mutant: the task takes over the row of the active route, as it is.
ActivateInPlace(t) == bound' = [i \in DOMAIN bound |-> bound[i]] /\ route' = t

\* activateChannelTaskRouteTx: the new route supersedes the active one.
Activate(t) == bound' = Append(RemoveFirst(bound, t), t) /\ route' = t

ActivateContinuation ==
  /\ At("activate")
  /\ Activate(loop.target) /\ action' = AgedRoute(action)
  /\ Goto("media")
  /\ UNCHANGED <<receipt, download, task, host, handoff, request, mail, web, left>>

\* inboundAttachments: the download is asked for once, for the task of that
\* time; a receipt that waits for it is deferred under a short lease.
Attachments ==
  /\ At("media")
  /\ \/ /\ Event.kind = "message"
        /\ Goto("check") /\ UNCHANGED <<receipt, download>>
     \/ /\ Event.kind = "media" /\ Current \notin DOMAIN download
        /\ download' = [r \in DOMAIN download \cup {Current} |->
                          IF r = Current THEN [task |-> loop.target, done |-> FALSE]
                                         ELSE download[r]]
        /\ Leave /\ UNCHANGED receipt
     \/ /\ Event.kind = "media" /\ Current \in DOMAIN download
        /\ download[Current].task # loop.target
        /\ Finish("processed") /\ UNCHANGED download
     \/ /\ Event.kind = "media" /\ Current \in DOMAIN download
        /\ download[Current].task = loop.target
        /\ IF download[Current].done THEN Goto("check") ELSE Leave
        /\ UNCHANGED <<receipt, download>>
  /\ UNCHANGED <<action, task, host, bound, route, handoff, request, mail, web, left>>

\* submitMessageWithSource reads the status of the task.
CheckTask ==
  /\ At("check")
  /\ IF task[loop.target] \in {"completed", "blocked"} THEN Drop
     ELSE Goto("enqueue") /\ UNCHANGED receipt
  /\ UNCHANGED <<download, action, task, host, bound, route, handoff, request, mail,
                 web, left>>

Send(t, kind, n) == mail' = Append(mail, [task |-> t, from |-> <<kind, n>>])

\* EnqueueChannelOwnerMessage: the message and its receipt in one transaction.
\* A click that gets here is the approval of a permission request.
Enqueue ==
  /\ At("enqueue")
  /\ IF Event.kind = "click" THEN Send(loop.target, "approval", 0)
                             ELSE Send(loop.target, "receipt", Current)
  /\ Finish("processed")
  /\ UNCHANGED <<download, action, task, host, bound, route, handoff, request, web, left>>
-----------------------------------------------------------------------------
(* processMenuCardAction, processCardAction *)

\* A preview of the menu, and a second one when the receipt is handled again.
TakeMenu ==
  /\ At("take") /\ Event.kind = "menu"
  /\ \/ \E t \in Tasks \cup {NoTask} :
          /\ Eligible(Event.op, t) /\ ~ Full
          /\ CreateAction(Event.op, t)
          /\ Goto("done") /\ UNCHANGED receipt
     \/ /\ \/ Full
           \/ \A t \in Tasks \cup {NoTask} : ~ Eligible(Event.op, t)
        /\ Drop /\ UNCHANGED action
  /\ UNCHANGED <<download, task, host, bound, route, handoff, request, mail, web, left>>

\* The first step of executePendingAction for each operation.
Entry(op) == CASE op = "create_task" -> "create"
               [] OTHER -> op

\* BeginChannelPendingAction
TakeClick ==
  /\ At("take") /\ Event.kind = "click"
  /\ \/ /\ Card.status \in {"pending", "executing"}
        /\ action' = [action EXCEPT ![Event.action].status = "executing"]
        /\ Goto(IF Event.confirm \/ Card.op = "task_permission" THEN Entry(Card.op)
                ELSE "cancel")
        /\ UNCHANGED receipt
     \/ Card.status \in Final /\ Finish("processed") /\ UNCHANGED action
     \/ Card.status \in {"superseded", "lapsed"} /\ Drop /\ UNCHANGED action
  /\ UNCHANGED <<download, task, host, bound, route, handoff, request, mail, web, left>>

\* FinishChannelPendingAction
SetStatus(status) ==
  action' = [action EXCEPT ![Event.action].status =
               IF @ = "executing" THEN status ELSE @]

Conclude(l, status, next) ==
  /\ At(l) /\ SetStatus(status) /\ Goto(next)
  /\ UNCHANGED <<receipt, download, task, host, bound, route, handoff, request, mail,
                 web, left>>

Cancel  == Conclude("cancel", "cancelled", "done")
Reject  == Conclude("reject", "failed", "fail")
Succeed == Conclude("succeed", "succeeded",
                    IF Card.op = "accepted_task" THEN "task_created" ELSE "done")

\* FinishChannelInbox after the action, or after its error.
FinishClick ==
  /\ \/ At("done") /\ Finish("processed")
     \/ At("fail") /\ Drop
  /\ UNCHANGED <<download, action, task, host, bound, route, handoff, request, mail,
                 web, left>>

\* The precondition of the action is compared with what is there now.
Recheck ==
  /\ loop.pc \in {"takeover", "complete", "exit", "accepted_task", "dismissed"}
  /\ LET holds == /\ Card.fresh
                  /\ Card.op = "takeover" => Open(Card.target)
     IN  loop' = [loop EXCEPT
                    !.pc = IF ~ holds THEN "reject"
                           ELSE CASE Card.op = "takeover"      -> "takeover_write"
                                  [] Card.op = "complete"      -> "complete_write"
                                  [] Card.op = "exit"          -> "exit_write"
                                  [] Card.op = "accepted_task" -> "create"
                                  [] OTHER                     -> "dismiss_write"]
  /\ UNCHANGED <<receipt, download, action, task, host, bound, route, handoff, request,
                 mail, web, left>>

\* ActivateChannelTaskRoute: the route and the action in one transaction.
TakeOver ==
  /\ At("takeover_write")
  /\ Activate(Card.target)
  /\ action' = AgedRoute([action EXCEPT ![Event.action].status = "succeeded"])
  /\ Goto("done")
  /\ UNCHANGED <<receipt, download, task, host, handoff, request, mail, web, left>>

\* ExitChannelTaskRoute: it looks for the active route to the task again.
Exit ==
  /\ At("exit_write")
  /\ \/ /\ route = Card.target
        /\ route' = NoTask
        /\ action' = AgedRoute([action EXCEPT ![Event.action].status = "succeeded"])
        /\ loop' = [loop EXCEPT !.pc = "adopt", !.target = Card.target]
     \/ /\ route # Card.target
        /\ Goto("reject") /\ UNCHANGED <<route, action>>
  /\ UNCHANGED <<receipt, download, task, host, bound, handoff, request, mail, web, left>>

\* CompleteTask; the transition table refuses it for a task without a workspace.
Complete ==
  /\ At("complete_write")
  /\ \/ /\ task[Card.target] \in {"active", "completed"}
        /\ task' = [task EXCEPT ![Card.target] = "completed"]
        /\ action' = IF task[Card.target] = "active" THEN AgedTask(action, Card.target)
                                                     ELSE action
        /\ Goto("succeed")
     \/ /\ task[Card.target] \notin {"active", "completed"}
        /\ Goto("reject") /\ UNCHANGED <<task, action>>
  /\ UNCHANGED <<receipt, download, host, bound, route, handoff, request, mail, web, left>>

\* executeCreateTaskAction
CreateTask ==
  /\ At("create")
  /\ LET t == Made(Event.action)
     IN  /\ Insert(t)
         /\ loop' = [loop EXCEPT !.pc = IF t \in Tasks THEN "start" ELSE "prepare", !.target = t]
  /\ UNCHANGED <<receipt, download, action, host, bound, route, handoff, request, mail,
                 web, left>>

\* Mutant: the task is started whatever it got before.
StartTaskAgain ==
  /\ At("start")
  /\ Goto(IF task[loop.target] \in {"completed", "blocked"} THEN "reject" ELSE "submit")
  /\ UNCHANGED <<receipt, download, action, task, host, bound, route, handoff, request,
                 mail, web, left>>

\* LatestRound: a task that has got a message is not started again.
StartTask ==
  /\ At("start")
  /\ Goto(IF \E i \in DOMAIN mail : mail[i].task = loop.target THEN "succeed"
          ELSE IF task[loop.target] \in {"completed", "blocked"} THEN "reject" ELSE "submit")
  /\ UNCHANGED <<receipt, download, action, task, host, bound, route, handoff, request,
                 mail, web, left>>

SubmitRequest ==
  /\ At("submit")
  /\ Send(loop.target, "action", Event.action)
  /\ Goto("succeed")
  /\ UNCHANGED <<receipt, download, action, task, host, bound, route, handoff, request,
                 web, left>>

\* ResolveChannelHandoff; it refuses a handoff that is decided, but no other
\* goroutine decides one.
ResolveHandoff ==
  /\ handoff = "pending_owner"
  /\ \/ At("task_created") /\ handoff' = "task_created" /\ Goto("done")
     \/ At("dismiss_write") /\ handoff' = "dismissed" /\ Goto("succeed")
  /\ action' = AgedHandoff(action)
  /\ UNCHANGED <<receipt, download, task, host, bound, route, request, mail, web, left>>

\* resolveTaskPermissionCardAction: the request must be pending and not expired, or
\* the error leaves the action as it is, executing.
DecideByCard ==
  /\ At("task_permission")
  /\ \/ /\ request = "pending"
        /\ request' = IF Event.confirm THEN "approved" ELSE "rejected"
        /\ Goto("decided") /\ UNCHANGED receipt
     \/ request # "pending" /\ Drop /\ UNCHANGED request
  /\ UNCHANGED <<download, action, task, host, bound, route, handoff, mail, web, left>>

FinishPermission ==
  /\ At("decided")
  /\ SetStatus(IF Event.confirm THEN "succeeded" ELSE "cancelled")
  /\ loop' = [loop EXCEPT !.pc = IF Event.confirm THEN "check" ELSE "done",
                          !.target = Card.target]
  /\ UNCHANGED <<receipt, download, task, host, bound, route, handoff, request, mail,
                 web, left>>

LoopStep ==
  \/ Reconcile \/ ExitTerminal \/ AdoptHost \/ ClaimInbox
  \/ TakeMessage \/ ReadRoute \/ Continue \/ Prepare \/ ActivateContinuation
  \/ Attachments \/ CheckTask \/ Enqueue
  \/ TakeMenu \/ TakeClick \/ Cancel \/ Reject \/ Succeed \/ FinishClick \/ Recheck
  \/ TakeOver \/ Exit \/ Complete \/ CreateTask \/ StartTask \/ SubmitRequest
  \/ ResolveHandoff \/ DecideByCard \/ FinishPermission
-----------------------------------------------------------------------------
(* The web, the tasks, the process *)

\* BindTaskChannelRoute
BindRoute(t) ==
  /\ "bind" \in Ops /\ Spend
  /\ Open(t) /\ ~ ChannelOwned(t) /\ route # t
  /\ Activate(t) /\ action' = AgedRoute(action)
  /\ UNCHANGED <<receipt, download, task, host, handoff, request, mail, loop, web>>

\* UnbindTaskChannelRoute: the route is left, then a host adopted.
UnbindRoute ==
  /\ "bind" \in Ops /\ Spend
  /\ web = WebIdle /\ Routed
  /\ route' = NoTask /\ action' = AgedRoute(action)
  /\ web' = [pc |-> "adopt", target |-> route]
  /\ UNCHANGED <<receipt, download, task, host, bound, handoff, request, mail, loop>>

UnbindAdopt ==
  /\ web.pc = "adopt"
  /\ Adopt(web.target) /\ web' = WebIdle
  /\ UNCHANGED <<receipt, download, action, task, bound, route, handoff, request, mail,
                 loop, left>>

\* resolveTaskPermissionRequest: the decision of a request that is pending and not
\* expired, the card, the message.
DecideInWeb(approved) ==
  /\ web = WebIdle /\ request = "pending" /\ Spend
  /\ request' = IF approved THEN "approved" ELSE "rejected"
  /\ web' = [WebIdle EXCEPT !.pc = "card"]
  /\ UNCHANGED <<receipt, download, action, task, host, bound, route, handoff, mail, loop>>

\* FinishTaskPermissionCardFromWeb; a superseded card stays so.
FinishCard ==
  /\ web.pc = "card"
  /\ \E a \in DOMAIN action :
       /\ action[a].op = "task_permission"
       /\ action' = [action EXCEPT ![a].status =
            IF @ \notin Live THEN @ ELSE IF request = "approved" THEN "succeeded" ELSE "cancelled"]
       /\ web' = IF request = "approved" THEN [pc |-> "check", target |-> action[a].target]
                                         ELSE WebIdle
  /\ UNCHANGED <<receipt, download, task, host, bound, route, handoff, request, mail,
                 loop, left>>

\* SubmitTaskPermissionApprovalContinuation
Tell ==
  /\ \/ /\ web.pc = "check"
        /\ web' = IF task[web.target] \in {"completed", "blocked"} THEN WebIdle
                  ELSE [web EXCEPT !.pc = "tell"]
        /\ UNCHANGED mail
     \/ /\ web.pc = "tell"
        /\ Send(web.target, "approval", 0) /\ web' = WebIdle
  /\ UNCHANGED <<receipt, download, action, task, host, bound, route, handoff, request,
                 loop, left>>

WebStep == UnbindAdopt \/ FinishCard \/ Tell

\* A task is completed, by the owner or by its agent.
EndTask(t) ==
  /\ "end" \in Ops /\ Spend
  /\ task[t] = "active"
  /\ task' = [task EXCEPT ![t] = "completed"]
  /\ action' = AgedTask(action, t)
  /\ UNCHANGED <<receipt, download, host, bound, route, handoff, request, mail, loop, web>>

\* Another write of the task's row moves updated_at.
Touch(t) ==
  /\ "touch" \in Ops /\ Spend
  /\ AgedTask(action, t) # action /\ action' = AgedTask(action, t)
  /\ UNCHANGED <<receipt, download, task, host, bound, route, handoff, request, mail,
                 loop, web>>

Crash ==
  /\ left.upsets > 0 /\ left.crashes > 0
  /\ left' = [upsets |-> left.upsets - 1, crashes |-> left.crashes - 1]
  /\ loop' = Idle /\ web' = WebIdle
  /\ UNCHANGED <<receipt, download, action, task, host, bound, route, handoff, request, mail>>

Next ==
  \/ LoopStep \/ WebStep \/ Crash \/ UnbindRoute
  \/ \E e \in Events : ReceiveInbound(e)
  \/ \E r \in DOMAIN receipt : LeaseRunsOut(r)
  \/ \E r \in DOMAIN download : DownloadEnds(r)
  \/ \E op \in Operations, t \in Tasks \cup {NoTask} : Propose(op, t)
  \/ \E a \in DOMAIN action : Lapse(a)
  \/ \E t \in Tasks : BindRoute(t) \/ EndTask(t) \/ Touch(t)
  \/ \E d \in BOOLEAN : DecideInWeb(d)

Spec == Init /\ [][Next]_vars

\* The ticker of the goroutine, the handlers, the clocks.
FairSpec ==
  /\ Spec /\ WF_vars(LoopStep) /\ WF_vars(WebStep)
  /\ WF_vars(\E r \in DOMAIN receipt : LeaseRunsOut(r))
  /\ WF_vars(\E r \in DOMAIN download : DownloadEnds(r))
=============================================================================
