------------------------------- MODULE Mailbox -------------------------------
(***************************************************************************)
(* What the inbox of a task promises those who write to its agents,        *)
(* without rounds, threads, locks and the process: a message waits, is     *)
(* handed to its agent in a batch or during one, and is done; a batch ends *)
(* before its messages are done, is tried again at most once and only if   *)
(* it failed, and is answered at most once; only a restart takes a message *)
(* back from a batch that has begun, and only if it cuts that batch off.   *)
(* TaskRuntime implements this module (TaskProperties, Inbox).             *)
(***************************************************************************)
CONSTANTS Messages, Agents, Batches,
          None          \* no agent, no batch

VARIABLES to,      \* the agent a message is for
          place,   \* where a message is
          batch,   \* the batch it was given to
          reader,  \* the agent of a batch
          fate,    \* what became of a batch
          again    \* the batches that were tried a second time

mailbox == <<to, place, batch, reader, fate, again>>

Init == /\ to = [m \in Messages |-> None] /\ place = [m \in Messages |-> "none"]
        /\ batch = [m \in Messages |-> None]
        /\ reader = [b \in Batches |-> None] /\ fate = [b \in Batches |-> "none"]
        /\ again = {}

In(b, places) == {m \in Messages : batch[m] = b /\ place[m] \in places}

Moved(f, S, v) == [m \in DOMAIN f |-> IF m \in S THEN v ELSE f[m]]

Post(m, a) == /\ place[m] = "none"
              /\ place' = [place EXCEPT ![m] = "waiting"] /\ to' = [to EXCEPT ![m] = a]
              /\ UNCHANGED <<batch, reader, fate, again>>

\* An agent is handed messages that wait for it, in a new batch.
Hand(S, b, a) ==
  /\ fate[b] = "none" /\ S # {}
  /\ \A m \in S : place[m] = "waiting" /\ to[m] = a
  /\ place' = Moved(place, S, "handed") /\ batch' = Moved(batch, S, b)
  /\ reader' = [reader EXCEPT ![b] = a] /\ fate' = [fate EXCEPT ![b] = "open"]
  /\ UNCHANGED <<to, again>>

\* The agent of a batch takes more of them, to confirm later ("offered") or not.
Take(S, b, p) ==
  /\ fate[b] # "none" /\ p \in {"offered", "read"}
  /\ \A m \in S : place[m] = "waiting" /\ to[m] = reader[b]
  /\ place' = Moved(place, S, p) /\ batch' = Moved(batch, S, b)
  /\ UNCHANGED <<to, reader, fate, again>>

Confirm(S) == /\ \A m \in S : place[m] = "offered"
              /\ place' = Moved(place, S, "read")
              /\ UNCHANGED <<to, batch, reader, fate, again>>

Decline(S) == /\ \A m \in S : place[m] = "offered"
              /\ place' = Moved(place, S, "waiting") /\ batch' = Moved(batch, S, None)
              /\ UNCHANGED <<to, reader, fate, again>>

End(b, f) == /\ fate[b] = "open" /\ f \in {"answered", "failed", "cut"}
             /\ fate' = [fate EXCEPT ![b] = f]
             /\ UNCHANGED <<to, place, batch, reader, again>>

\* The messages of a batch that has ended are done, all at once.
Finish(b) == /\ fate[b] \notin {"none", "open"}
             /\ place' = Moved(place, In(b, {"handed"}), "done")
             /\ UNCHANGED <<to, batch, reader, fate, again>>

\* So is what was taken during it; what was not confirmed waits again.
Sweep(b, S) ==
  LET back == S \cap In(b, {"offered"})
  IN  /\ fate[b] \notin {"none", "open"} /\ S \subseteq In(b, {"offered", "read"})
      /\ place' = Moved(Moved(place, S, "done"), back, "waiting")
      /\ batch' = Moved(batch, back, None)
      /\ UNCHANGED <<to, reader, fate, again>>

Retry(b) == /\ fate[b] = "failed" /\ b \notin again
            /\ fate' = [fate EXCEPT ![b] = "open"] /\ again' = again \cup {b}
            /\ UNCHANGED <<to, place, batch, reader>>

\* Messages of a conversation that was closed.
Drop(S) == /\ \A m \in S : place[m] \in {"waiting", "handed"}
           /\ place' = Moved(place, S, "dropped")
           /\ UNCHANGED <<to, batch, reader, fate, again>>

\* The open batches are cut off.  What they were handed waits again, and of what
\* was taken during them, S.
Restart(S) ==
  LET open == {b \in Batches : fate[b] = "open"}
      back == S \cup UNION {In(b, {"handed"}) : b \in open}
  IN  /\ S \subseteq UNION {In(b, {"offered", "read"}) : b \in open}
      /\ place' = Moved(place, back, "waiting") /\ batch' = Moved(batch, back, None)
      /\ fate' = Moved(fate, open, "cut")
      /\ UNCHANGED <<to, reader, again>>

Next == \/ \E S \in SUBSET Messages : Confirm(S) \/ Decline(S) \/ Drop(S)
        \/ \E m \in Messages, a \in Agents : Post(m, a)
        \/ \E b \in Batches : \/ \E f \in {"answered", "failed", "cut"} : End(b, f)
                              \/ Finish(b) \/ Retry(b)
        \/ \E b \in Batches, S \in SUBSET Messages :
             \/ \E a \in Agents : Hand(S, b, a)
             \/ \E p \in {"offered", "read"} : Take(S, b, p)
             \/ Sweep(b, S)
        \/ \E S \in SUBSET Messages : Restart(S)

Spec == Init /\ [][Next]_mailbox
=============================================================================
