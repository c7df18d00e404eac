----------------------------- MODULE TaskStates -----------------------------
(***************************************************************************)
(* The status machines of a Task and of a Turn (internal/domain/states.go) *)
(* and the statuses of a Round (internal/domain/conversation.go).  The     *)
(* store refuses every status change these tables do not list, so each     *)
(* compare-and-swap of the other modules goes through TaskMoves or         *)
(* TurnMoves.                                                              *)
(***************************************************************************)

TaskStatus == {"draft", "preparing", "active", "waiting_user", "blocked",
               "completed", "failed", "cancelled"}

TaskTransitions ==
  [draft        |-> {"preparing", "cancelled"},
   preparing    |-> {"active", "blocked", "failed", "cancelled"},
   active       |-> {"waiting_user", "blocked", "completed", "failed", "cancelled"},
   waiting_user |-> {"active", "completed", "cancelled"},
   blocked      |-> {"active", "waiting_user", "failed", "cancelled"},
   failed       |-> {"active", "waiting_user", "completed", "cancelled"},
   completed    |-> {"waiting_user"},
   cancelled    |-> {"waiting_user"}]

\* ValidateTaskTransition: staying where one is always passes.
TaskMoves(from, to) == from = to \/ to \in TaskTransitions[from]

TaskTerminal == {"completed", "failed", "cancelled"}

TurnStatus == {"queued", "preparing", "starting", "running", "waiting",
               "succeeded", "failed", "interrupted", "blocked"}

TurnTransitions ==
  [queued      |-> {"preparing", "interrupted", "failed"},
   preparing   |-> {"starting", "blocked", "interrupted", "failed"},
   starting    |-> {"running", "blocked", "interrupted", "failed"},
   running     |-> {"waiting", "succeeded", "blocked", "interrupted", "failed"},
   waiting     |-> {"running", "succeeded", "blocked", "interrupted", "failed"},
   succeeded   |-> {},
   failed      |-> {},
   interrupted |-> {},
   blocked     |-> {}]

TurnMoves(from, to) == from = to \/ to \in TurnTransitions[from]

TurnTerminal == {"succeeded", "failed", "interrupted", "blocked"}

\* The statuses of the store's "active turn" queries.
TurnActive == {"queued", "preparing", "starting", "running", "waiting"}

RoundTerminal == {"completed", "failed", "interrupted"}
RoundOpen     == {"running", "waiting"}
RoundStatus   == RoundOpen \cup RoundTerminal
=============================================================================
