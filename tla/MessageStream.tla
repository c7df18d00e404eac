--------------------------- MODULE MessageStream ---------------------------
(***************************************************************************)
(* What the outbox of a channel promises the reader of a conversation,     *)
(* without rows, leases, attempts and processes: messages line up in their *)
(* conversation, a message appears when everything before it is settled,   *)
(* and one that was refused holds the line until the owner sends it again, *)
(* in its old place, or sets it aside.  ChannelDelivery implements this    *)
(* module (its operator Stream).                                           *)
(***************************************************************************)
CONSTANTS Messages, Conversations,
          None          \* the conversation of no message

VARIABLES conv,    \* the conversation a message belongs to
          before,  \* the pairs of messages of which the first comes first
          cards,   \* the messages that are cards: the owner may drop them
          fate,    \* what became of a message
          shown    \* the messages the reader has seen

stream == <<conv, before, cards, fate, shown>>

Settled == {"delivered", "set_aside"}

Init == /\ conv = [m \in Messages |-> None]
        /\ before = {} /\ cards = {} /\ shown = {}
        /\ fate = [m \in Messages |-> "none"]

Turn(m) == /\ fate[m] = "waiting"
           /\ \A n \in Messages : <<n, m>> \in before => fate[n] \in Settled

\* What may be set aside: what was refused, and a card.
Droppable(m) == \/ fate[m] = "refused"
                \/ fate[m] = "waiting" /\ m \in cards

\* A message joins the end of conversation c.  A card drops older ones.
Arrive(m, c, dropped) ==
  /\ fate[m] = "none" /\ \A n \in dropped : Droppable(n)
  /\ conv' = [conv EXCEPT ![m] = c]
  /\ before' = before \cup {n \in Messages : conv[n] = c} \X {m}
  /\ cards' \in {cards, cards \cup {m}}
  /\ fate' = [n \in Messages |-> IF n = m THEN "waiting"
                                 ELSE IF n \in dropped THEN "set_aside" ELSE fate[n]]
  /\ UNCHANGED shown

\* A refused message is sent again: message m takes its place.
SendAgain(d, m) ==
  LET after == {n \in Messages : <<d, n>> \in before}
  IN  /\ fate[d] = "refused" /\ fate[m] = "none"
      /\ conv' = [conv EXCEPT ![m] = conv[d]]
      /\ before' = before \cup {n \in Messages \ after : conv[n] = conv[d]} \X {m}
                          \cup {m} \X after
      /\ cards' = IF d \in cards THEN cards \cup {m} ELSE cards
      /\ fate' = [fate EXCEPT ![d] = "set_aside", ![m] = "waiting"]
      /\ UNCHANGED shown

SetAside(dropped) ==
  /\ \A n \in dropped : Droppable(n)
  /\ fate' = [n \in Messages |-> IF n \in dropped THEN "set_aside" ELSE fate[n]]
  /\ UNCHANGED <<conv, before, cards, shown>>

\* A message appears.  What is shown again changes nothing here.
Show(m) == /\ Turn(m) /\ m \notin shown
           /\ shown' = shown \cup {m}
           /\ UNCHANGED <<conv, before, cards, fate>>

\* A message is delivered when it was shown.  It may be refused anyway: the
\* answer that says so can get lost.
Settle(m) == /\ Turn(m)
             /\ \/ m \in shown /\ fate' = [fate EXCEPT ![m] = "delivered"]
                \/ fate' = [fate EXCEPT ![m] = "refused"]
             /\ UNCHANGED <<conv, before, cards, shown>>

Next == \/ \E m \in Messages, c \in Conversations, dropped \in SUBSET Messages :
             Arrive(m, c, dropped)
        \/ \E d, m \in Messages : SendAgain(d, m)
        \/ \E dropped \in SUBSET Messages : SetAside(dropped)
        \/ \E m \in Messages : Show(m) \/ Settle(m)

Spec == Init /\ [][Next]_stream
=============================================================================
