----------------------- MODULE ChannelDeliveryProofs -----------------------
(***************************************************************************)
(* Theorems about the outbox of a channel: its types, that a row which was *)
(* sent once shows what was said last, that a conversation is shown in the *)
(* order of its stream, and that the outbox implements MessageStream.      *)
(***************************************************************************)
EXTENDS ChannelDelivery, TLAPS

-----------------------------------------------------------------------------
(* The types, and what they need *)

\* A row has an attempt left unless it is finished or with the plugin.
Tries == \A d \in Rows :
           /\ outbox[d].state = "pending" => outbox[d].attempts < MaxTries
           /\ outbox[d].state = "leased" /\ d \notin held => outbox[d].attempts < MaxTries

\* What the plugin holds is leased, and its report is about the current lease.
Holds == /\ \A d \in held : outbox[d].state = "leased"
         /\ report # NoReport =>
              /\ report.row \in held
              /\ report.lease = outbox[report.row].attempts
              /\ report.outcome = "pending" => report.lease < MaxTries

DeliveryInv == TypeOK /\ Tries /\ Holds

\* What a row says and what is shown of it: nothing before it is claimed, and what
\* it says while it is with the plugin for the first time.
Word(d) == /\ outbox[d].state # "none" => outbox[d].content # 0
           /\ outbox[d].state = "none" \/ outbox[d].attempts = 0 => chat[d] = 0
           /\ outbox[d].state = "leased" => outbox[d].attempts # 0
           /\ outbox[d].state = "delivered" => chat[d] # 0
           /\ outbox[d].state \in {"leased", "delivered"} /\ outbox[d].attempts = 1
                => chat[d] \in {0, outbox[d].content}
Told == report.outcome = "delivered" => chat[report.row] # 0
WordInv == Told /\ \A d \in Rows : Word(d)

\* A row that was shown or is leased: everything before it is finished.
Passed(e)   == outbox[e].state = "leased" \/ chat[e] # 0
Reached(e)  == /\ outbox[e].state # "none"
               /\ \A d \in Rows : Before(d, e) => outbox[d].state \in Finished
OrderInv    == \A e \in Rows : Passed(e) => Reached(e)
-----------------------------------------------------------------------------
(* Types *)

\* A row that becomes pending, or keeps its state, keeps the row invariants
\* when the plugin keeps what it holds.
LEMMA ServiceKeepsTypes ==
  ASSUME DeliveryInv, UNCHANGED ServiceRest,
         outbox' \in [Rows -> Deliveries], source' \in 0..MaxEvents,
         \A d \in Rows : \/ outbox'[d] = outbox[d]
                         \/ /\ outbox[d].state # "leased" /\ outbox'[d].state # "leased"
                            /\ outbox'[d].state = "pending" => outbox'[d].attempts < MaxTries
  PROVE  DeliveryInv'
  <1>1. TypeOK'
    BY DEF DeliveryInv, TypeOK, ServiceRest
  <1>2. Tries'
    BY DEF DeliveryInv, Tries, ServiceRest
  <1>3. Holds'
    BY DEF DeliveryInv, TypeOK, Holds, ServiceRest
  <1> QED
    BY <1>1, <1>2, <1>3 DEF DeliveryInv

\* The operations of the service keep the types.
LEMMA ServiceTypes ==
  ASSUME DeliveryInv,
         \/ \E c \in Conversations : MenuCard(c) \/ MenuCardAgain(c)
         \/ \E c \in Conversations, k \in Keys \cup {None} : Project(c, k)
         \/ \E d \in Rows : Replay(d) \/ Skip(d)
  PROVE  DeliveryInv'
  <1> USE LimitsAssumption DEF LimitsAssumption, Open, Finished
  <1>0. outbox \in [Rows -> Deliveries] /\ source \in 0..MaxEvents
    BY DEF DeliveryInv, TypeOK
  <1>1. ASSUME NEW c \in Conversations, NEW k \in Keys \cup {None}, NEW n \in Rows,
               NEW b \in BOOLEAN, source < MaxEvents
        PROVE  /\ NewRow(c, n, k, b, source + 1) \in Deliveries
               /\ source + 1 \in 0..MaxEvents
    BY <1>0, <1>1 DEF NewRow, Deliveries, Rows
  <1>2. ASSUME NEW c \in Conversations
        PROVE  WithoutCards(c) \in [Rows -> Deliveries]
    BY <1>0, <1>2 DEF WithoutCards, Deliveries
  <1>3. ASSUME NEW c \in Conversations, NEW k \in Keys \cup {None}, Project(c, k)
        PROVE  DeliveryInv'
    <2>1. CASE \E d \in Rows : /\ Coalesces(c, k, d)
                               /\ outbox' = [outbox EXCEPT ![d].content = source + 1]
      <3>1. PICK d \in Rows : /\ Coalesces(c, k, d)
                              /\ outbox' = [outbox EXCEPT ![d].content = source + 1]
        BY <2>1
      <3>2. outbox[d].state = "pending" /\ outbox[d].attempts < MaxTries
        BY <3>1 DEF Coalesces, DeliveryInv, Tries
      <3>3. outbox' \in [Rows -> Deliveries] /\ source' \in 0..MaxEvents
        BY <1>0, <1>3, <3>1 DEF Project, Deliveries
      <3> QED
        BY <1>0, <1>3, <3>1, <3>2, <3>3, ServiceKeepsTypes DEF Project, Deliveries
    <2>2. CASE \E d, n \in Rows :
                 /\ Free(d) /\ NextSequence(c, n)
                 /\ outbox' = [outbox EXCEPT ![d] = NewRow(c, n, k, FALSE, source + 1)]
      <3>1. PICK d, n \in Rows :
                 /\ Free(d)
                 /\ outbox' = [outbox EXCEPT ![d] = NewRow(c, n, k, FALSE, source + 1)]
        BY <2>2
      <3>2. outbox' \in [Rows -> Deliveries] /\ source' \in 0..MaxEvents
        BY <1>0, <1>1, <1>3, <3>1 DEF Project
      <3> QED
        BY <1>0, <1>3, <3>1, <3>2, ServiceKeepsTypes DEF Project, Free, NewRow
    <2> QED
      BY <1>3, <2>1, <2>2 DEF Project
  <1>4. ASSUME NEW c \in Conversations, MenuCard(c)
        PROVE  DeliveryInv'
    <2>1. PICK d, n \in Rows :
               /\ Free(d)
               /\ outbox' = [WithoutCards(c) EXCEPT ![d] = NewRow(c, n, None, TRUE, source + 1)]
      BY <1>4 DEF MenuCard
    <2>2. outbox' \in [Rows -> Deliveries] /\ source' \in 0..MaxEvents
      BY <1>0, <1>1, <1>2, <1>4, <2>1 DEF MenuCard
    <2>3. \A e \in Rows : \/ outbox'[e] = outbox[e]
                          \/ /\ outbox[e].state # "leased" /\ outbox'[e].state # "leased"
                             /\ outbox'[e].state = "pending" => outbox'[e].attempts < MaxTries
      BY <1>0, <1>2, <2>1 DEF WithoutCards, NewRow, Free, Deliveries
    <2> QED
      BY <1>4, <2>2, <2>3, ServiceKeepsTypes DEF MenuCard
  <1>5. ASSUME NEW c \in Conversations, MenuCardAgain(c)
        PROVE  DeliveryInv'
    <2>1. \A e \in Rows : \/ outbox'[e] = outbox[e]
                          \/ /\ outbox[e].state # "leased" /\ outbox'[e].state # "leased"
                             /\ outbox'[e].state = "pending" => outbox'[e].attempts < MaxTries
      BY <1>0, <1>5 DEF MenuCardAgain, WithoutCards, Deliveries
    <2> QED
      BY <1>0, <1>2, <1>5, <2>1, ServiceKeepsTypes DEF MenuCardAgain
  <1>6. ASSUME NEW d \in Rows, Replay(d)
        PROVE  DeliveryInv'
    <2>1. PICK e, g \in Rows :
               /\ Free(e)
               /\ outbox' = [outbox EXCEPT
                    ![d].state = "replayed",
                    ![e] = [outbox[d] EXCEPT !.gen = g, !.state = "pending", !.attempts = 0]]
      BY <1>6 DEF Replay
    <2> DEFINE row == [outbox[d] EXCEPT !.gen = g, !.state = "pending", !.attempts = 0]
    <2>2. /\ row \in Deliveries /\ row.state = "pending" /\ row.attempts = 0
          /\ [outbox[d] EXCEPT !.state = "replayed"] \in Deliveries
      <3>1. outbox[d] \in Deliveries /\ g \in 0..MaxRows /\ 0 \in 0..MaxTries
        BY <1>0 DEF Rows
      <3>2. row \in Deliveries
        BY <3>1 DEF Deliveries
      <3>3. [outbox[d] EXCEPT !.state = "replayed"] \in Deliveries
        BY <3>1 DEF Deliveries
      <3> QED
        BY <3>1, <3>2, <3>3 DEF Deliveries
    <2>3. d # e /\ outbox[e].state = "none" /\ outbox[d].state = "dead_letter"
      BY <1>6, <2>1 DEF Replay, Free
    <2>4. \A r \in Rows :
            outbox'[r] = IF r = e THEN row
                         ELSE IF r = d THEN [outbox[d] EXCEPT !.state = "replayed"]
                         ELSE outbox[r]
      BY <1>0, <2>1, <2>3
    <2> HIDE DEF row
    <2>5. outbox' \in [Rows -> Deliveries]
      BY <1>0, <2>1, <2>2, <2>4
    <2>6. \A r \in Rows : \/ outbox'[r] = outbox[r]
                          \/ /\ outbox[r].state # "leased" /\ outbox'[r].state # "leased"
                             /\ outbox'[r].state = "pending" => outbox'[r].attempts < MaxTries
      BY <1>0, <2>2, <2>3, <2>4 DEF Deliveries
    <2> QED
      BY <1>0, <1>6, <2>5, <2>6, ServiceKeepsTypes DEF Replay
  <1>7. ASSUME NEW d \in Rows, Skip(d)
        PROVE  DeliveryInv'
    <2>1. outbox' \in [Rows -> Deliveries]
      BY <1>0, <1>7 DEF Skip, Deliveries
    <2> QED
      BY <1>0, <1>7, <2>1, ServiceKeepsTypes DEF Skip, Deliveries
  <1> QED
    BY <1>3, <1>4, <1>5, <1>6, <1>7

\* A claim spends attempts that are left.
LEMMA ClaimTypes ==
  ASSUME DeliveryInv, NEW expired \in SUBSET In({"leased"}), NEW answered \in BOOLEAN,
         NEW rows \in SUBSET (In({"pending"}) \cup expired), Claim(expired, rows, answered)
  PROVE  DeliveryInv'
  <1> USE LimitsAssumption DEF LimitsAssumption, Open, Finished
  <1>1. /\ outbox \in [Rows -> Deliveries] /\ held = {} /\ report = NoReport
        /\ rows \subseteq Rows /\ expired \subseteq Rows
    BY DEF DeliveryInv, TypeOK, Claim, Idle, In
  <1>2. \A d \in rows \cup expired : outbox[d].attempts < MaxTries
    BY <1>1 DEF DeliveryInv, Tries, In
  <1>3. ASSUME NEW d \in Rows
        PROVE  /\ outbox'[d] \in Deliveries
               /\ d \in rows => /\ outbox'[d].state = "leased"
                                /\ ~ answered => outbox'[d].attempts < MaxTries
               /\ d \notin rows /\ d \in expired =>
                    outbox'[d].state = "pending" /\ outbox'[d].attempts = outbox[d].attempts
               /\ d \notin rows /\ d \notin expired => outbox'[d] = outbox[d]
    <2>1. outbox[d] \in Deliveries
      BY <1>1
    <2>2. CASE d \in rows
      <3>1. outbox'[d] = [outbox[d] EXCEPT !.state = "leased", !.attempts = outbox[d].attempts + 1]
        BY <2>2 DEF Claim
      <3>2. outbox[d].attempts + 1 \in 0..MaxTries
        BY <1>2, <2>1, <2>2 DEF Deliveries
      <3>3. ~ answered => outbox[d].attempts + 1 < MaxTries
        BY <2>2 DEF Claim
      <3> QED
        BY <2>1, <2>2, <3>1, <3>2, <3>3 DEF Deliveries
    <2>3. CASE d \notin rows /\ d \in expired
      <3>1. outbox'[d] = [outbox[d] EXCEPT !.state = "pending"]
        BY <2>3 DEF Claim
      <3> QED
        BY <2>1, <2>3, <3>1 DEF Deliveries
    <2>4. CASE d \notin rows /\ d \notin expired
      BY <2>1, <2>4 DEF Claim
    <2> QED
      BY <2>2, <2>3, <2>4
  <1>4. held' = IF answered THEN rows ELSE {}
    BY DEF Claim
  <1>5. TypeOK'
    <2>1. outbox' \in [Rows -> Deliveries]
      BY <1>3 DEF Claim
    <2> QED
      BY <1>1, <1>4, <2>1 DEF DeliveryInv, TypeOK, Claim
  <1>6. Tries'
    BY <1>1, <1>2, <1>3, <1>4 DEF DeliveryInv, Tries
  <1>7. Holds'
    BY <1>1, <1>3, <1>4 DEF Claim, Holds
  <1> QED
    BY <1>5, <1>6, <1>7 DEF DeliveryInv

\* What the provider does with a request changes the chat of its row.
LEMMA ShowsRow ==
  ASSUME TypeOK, NEW d \in Rows, NEW forgotten \in BOOLEAN
  PROVE  /\ Shows(d, forgotten) \in [Rows -> 0..MaxEvents]
         /\ \A e \in Rows \ {d} : Shows(d, forgotten)[e] = chat[e]
         /\ Shows(d, forgotten)[d] \in {chat[d], outbox[d].content}
         /\ outbox[d].content # 0 => Shows(d, forgotten)[d] # 0
  BY DEF TypeOK, Deliveries, Shows

\* A send reports a row the plugin holds.
LEMMA SendTypes ==
  ASSUME DeliveryInv, NEW d \in Rows, Send(d)
  PROVE  DeliveryInv'
  <1> USE LimitsAssumption DEF LimitsAssumption
  <1>1. /\ d \in held /\ UNCHANGED <<outbox, source, held>>
        /\ \/ chat' = chat
           \/ \E forgotten \in BOOLEAN : chat' = Shows(d, forgotten)
        /\ \E o \in {"delivered", "pending", "dead_letter"} :
             /\ Reporting(d, o)
             /\ o = "pending" => outbox[d].attempts < MaxTries
    <2>1. CASE SendAccepted(d)
      BY <2>1 DEF SendAccepted, Sending
    <2>2. CASE SendRejected(d)
      <3>1. outbox[d].attempts \in Nat
        BY DEF DeliveryInv, TypeOK, Deliveries
      <3> QED
        BY <2>2, <3>1 DEF SendRejected, Sending, RejectedOutcome
    <2>3. CASE SendAmbiguous(d)
      <3>1. d \in held /\ UNCHANGED <<outbox, source, held>>
        BY <2>3 DEF SendAmbiguous, Sending
      <3>2. chat' = chat \/ chat' = Shows(d, FALSE) \/ chat' = Shows(d, TRUE)
        BY <2>3 DEF SendAmbiguous
      <3>3. \/ Reporting(d, "pending") /\ outbox[d].attempts < MaxTries
            \/ Reporting(d, "dead_letter")
        BY <2>3 DEF SendAmbiguous
      <3> QED
        BY <3>1, <3>2, <3>3
    <2> QED
      BY <2>1, <2>2, <2>3 DEF Send
  <1>2. outbox[d].attempts \in 0..MaxTries
    BY DEF DeliveryInv, TypeOK, Deliveries
  <1>3. TypeOK'
    BY <1>1, <1>2, ShowsRow DEF DeliveryInv, TypeOK, Reporting, Reports
  <1>4. Tries'
    BY <1>1 DEF DeliveryInv, Tries
  <1>5. Holds'
    BY <1>1 DEF DeliveryInv, Holds, Reporting
  <1> QED
    BY <1>3, <1>4, <1>5 DEF DeliveryInv

\* A send touches the chat of one row, which the plugin holds, and reports it.
LEMMA SendEffect ==
  ASSUME DeliveryInv, NEW d \in Rows, Send(d)
  PROVE  /\ outbox' = outbox /\ d \in held /\ outbox[d].state = "leased"
         /\ \A e \in Rows \ {d} : chat'[e] = chat[e]
         /\ chat'[d] \in {chat[d], outbox[d].content}
         /\ report'.row = d
         /\ report'.outcome = "delivered" /\ outbox[d].content # 0 => chat'[d] # 0
  <1>1. d \in held /\ outbox[d].state = "leased" /\ outbox' = outbox
    BY DEF Send, SendAccepted, SendRejected, SendAmbiguous, Sending, DeliveryInv, Holds
  <1>2. CASE SendAccepted(d)
    BY <1>1, <1>2, ShowsRow DEF SendAccepted, Reporting, DeliveryInv
  <1>3. CASE SendRejected(d)
    BY <1>1, <1>3 DEF SendRejected, Reporting, RejectedOutcome
  <1>4. CASE SendAmbiguous(d)
    <2>1. chat' = chat \/ chat' = Shows(d, FALSE) \/ chat' = Shows(d, TRUE)
      BY <1>4 DEF SendAmbiguous
    <2>2. Reporting(d, "pending") \/ Reporting(d, "dead_letter")
      BY <1>4 DEF SendAmbiguous
    <2>3. report'.row = d /\ report'.outcome # "delivered"
      BY <2>2 DEF Reporting
    <2>4. CASE chat' = chat
      BY <1>1, <2>3, <2>4
    <2>5. CASE chat' = Shows(d, FALSE) \/ chat' = Shows(d, TRUE)
      <3>1. PICK forgotten \in BOOLEAN : chat' = Shows(d, forgotten)
        BY <2>5
      <3> QED
        BY <1>1, <2>3, <3>1, ShowsRow DEF DeliveryInv
    <2> QED
      BY <2>1, <2>4, <2>5
  <1> QED
    BY <1>2, <1>3, <1>4 DEF Send

\* A report is about the lease the row still has.
LEMMA ReportTypes ==
  ASSUME DeliveryInv, Reported \/ ReportLost
  PROVE  DeliveryInv'
  <1> DEFINE r == report.row
  <1>1. /\ outbox \in [Rows -> Deliveries] /\ report \in Reports
        /\ r \in held /\ r \in Rows /\ outbox[r].state = "leased"
        /\ report.lease = outbox[r].attempts
        /\ report.outcome = "pending" => outbox[r].attempts < MaxTries
    BY DEF DeliveryInv, TypeOK, Holds, Reported, ReportLost, Reports
  <1>2. \/ outbox' = [outbox EXCEPT ![r].state = report.outcome]
        \/ outbox' = outbox /\ outbox[r].attempts < MaxTries
    BY <1>1 DEF Reported, ReportLost
  <1>3. held' = held \ {r} /\ report' = NoReport /\ UNCHANGED <<source, chat>>
    BY DEF Reported, ReportLost
  <1>4. outbox' \in [Rows -> Deliveries]
    BY <1>1, <1>2 DEF Deliveries, Reports, Open, Finished
  <1>5. TypeOK'
    BY <1>3, <1>4 DEF DeliveryInv, TypeOK
  <1>6. Tries'
    BY <1>1, <1>2, <1>3 DEF DeliveryInv, Tries, Reports, Deliveries
  <1>7. Holds'
    BY <1>1, <1>2, <1>3 DEF DeliveryInv, Holds, TypeOK
  <1> QED
    BY <1>5, <1>6, <1>7 DEF DeliveryInv

\* A new plugin process holds nothing.
LEMMA RestartTypes ==
  ASSUME DeliveryInv, Kill \/ Start
  PROVE  DeliveryInv'
  <1>1. /\ outbox \in [Rows -> Deliveries]
        /\ \A d \in held : outbox[d].attempts < MaxTries
        /\ held' = {} /\ report' = NoReport /\ UNCHANGED <<source, chat>>
    BY DEF DeliveryInv, TypeOK, Kill, Start
  <1>0. /\ \A row \in Deliveries : [row EXCEPT !.state = "skipped"] \in Deliveries
        /\ \A row \in Deliveries : [row EXCEPT !.state = "skipped"].state = "skipped"
        /\ \A row \in Deliveries :
             [row EXCEPT !.state = "skipped"].attempts = row.attempts
    BY DEF Deliveries, Finished
  <1>2. \A d \in Rows :
          \/ outbox'[d] = outbox[d]
          \/ outbox'[d] = [outbox[d] EXCEPT !.state = "skipped"]
    BY <1>1 DEF Kill, Start
  <1>3. outbox' \in [Rows -> Deliveries]
    <2>1. \A d \in Rows : outbox[d] \in Deliveries
      BY <1>1
    <2>2. ASSUME NEW d \in Rows PROVE outbox'[d] \in Deliveries
      BY <1>0, <1>2, <2>1, <2>2
    <2> QED
      BY <1>1, <2>2 DEF Kill, Start
  <1>4. TypeOK'
    BY <1>1, <1>3 DEF DeliveryInv, TypeOK
  <1>5. Tries'
    <2>1. ASSUME NEW d \in Rows
          PROVE  /\ outbox'[d].attempts = outbox[d].attempts
                 /\ outbox'[d].state \in {outbox[d].state, "skipped"}
      <3>1. CASE outbox'[d] = outbox[d]
        BY <3>1
      <3>2. CASE outbox'[d] = [outbox[d] EXCEPT !.state = "skipped"]
        BY <1>0, <1>1, <2>1, <3>2
      <3> QED
        BY <1>2, <2>1, <3>1, <3>2
    <2> QED
      BY <1>1, <2>1 DEF DeliveryInv, Tries
  <1>6. Holds'
    BY <1>1 DEF Holds
  <1> QED
    BY <1>4, <1>5, <1>6 DEF DeliveryInv

\* The invariant of types.
LEMMA DeliveryInvHolds == Spec => []DeliveryInv
  <1>1. Init => DeliveryInv
    BY LimitsAssumption
       DEF LimitsAssumption, Init, DeliveryInv, TypeOK, Tries, Holds, Deliveries, Vacant, NoReport
  <1>2. DeliveryInv /\ [Next]_vars => DeliveryInv'
    <2> SUFFICES ASSUME DeliveryInv, [Next]_vars
                 PROVE  DeliveryInv'
      OBVIOUS
    <2>1. CASE UNCHANGED vars
      BY <2>1 DEF vars, DeliveryInv, TypeOK, Tries, Holds
    <2>2. CASE Next
      BY <2>2, ServiceTypes, ClaimTypes, SendTypes, ReportTypes, RestartTypes DEF Next
    <2> QED
      BY <2>1, <2>2
  <1> QED
    BY <1>1, <1>2, PTL DEF Spec

\* Rows, leases, reports and the chats keep their types, whatever
\* gets lost or dies: in particular no row is tried more often than its bound.
THEOREM OutboxTypes == Spec => []TypeOK
  <1>1. DeliveryInv => TypeOK
    BY DEF DeliveryInv
  <1> QED
    BY <1>1, DeliveryInvHolds, PTL

-----------------------------------------------------------------------------
(* Words *)

\* A row that says what it said, and is neither claimed nor delivered by the step.
Quiet(d) == /\ chat'[d] = chat[d] /\ outbox'[d].content = outbox[d].content
            /\ outbox'[d].attempts = outbox[d].attempts
            /\ \/ outbox'[d].state = outbox[d].state
               \/ /\ outbox[d].state # "none"
                  /\ outbox'[d].state \in {"pending", "dead_letter", "replayed", "skipped"}

LEMMA QuietRow ==
  ASSUME NEW d \in Rows, Word(d), Quiet(d)
  PROVE  Word(d)'
  BY DEF Word, Quiet

\* A row whose state alone is written, to one of the states of a quiet row.
LEMMA StateWritten ==
  ASSUME NEW d \in Rows, outbox[d] \in Deliveries, chat'[d] = chat[d],
         outbox[d].state # "none",
         NEW s \in {"pending", "dead_letter", "replayed", "skipped"},
         outbox'[d] = [outbox[d] EXCEPT !.state = s]
  PROVE  Quiet(d)
  BY DEF Deliveries, Quiet

\* A row that is inserted says something, and nothing of it is shown.
LEMMA NewWord ==
  ASSUME NEW d \in Rows, Word(d), Free(d), chat'[d] = chat[d],
         outbox'[d].state = "pending", outbox'[d].attempts = 0, outbox'[d].content # 0
  PROVE  Word(d)'
  BY DEF Word, Free

LEMMA ServiceWords ==
  ASSUME DeliveryInv, WordInv,
         \/ \E c \in Conversations : MenuCard(c) \/ MenuCardAgain(c)
         \/ \E c \in Conversations, k \in Keys \cup {None} : Project(c, k)
         \/ \E d \in Rows : Replay(d) \/ Skip(d)
  PROVE  WordInv'
  <1>0. /\ outbox \in [Rows -> Deliveries] /\ source + 1 # 0
        /\ UNCHANGED <<chat, report>>
    <2>1. outbox \in [Rows -> Deliveries] /\ source + 1 # 0
      BY LimitsAssumption DEF LimitsAssumption, DeliveryInv, TypeOK
    <2>2. UNCHANGED ServiceRest
      BY DEF Project, MenuCard, MenuCardAgain, Replay, Skip
    <2> QED
      BY <2>1, <2>2 DEF ServiceRest
  <1> SUFFICES ASSUME NEW r \in Rows PROVE Word(r)'
    BY <1>0 DEF WordInv, Told
  <1>1. Word(r) /\ outbox[r] \in Deliveries /\ chat'[r] = chat[r]
    BY <1>0 DEF WordInv
  <1>2. outbox'[r] = outbox[r] => Word(r)'
    BY <1>1 DEF Word
  <1>3. ASSUME NEW c \in Conversations, NEW k \in Keys \cup {None}, NEW n \in Rows,
               NEW b \in BOOLEAN, Free(r), outbox'[r] = NewRow(c, n, k, b, source + 1)
        PROVE  Word(r)'
    <2>1. /\ outbox'[r].state = "pending" /\ outbox'[r].attempts = 0
          /\ outbox'[r].content # 0
      BY <1>0, <1>3 DEF NewRow
    <2> QED
      BY <1>1, <1>3, <2>1, NewWord
  <1>4. ASSUME NEW c \in Conversations, outbox'[r] = WithoutCards(c)[r]
        PROVE  Word(r)'
    <2>1. CASE outbox'[r] = outbox[r]
      BY <1>2, <2>1
    <2>2. CASE /\ outbox'[r] = [outbox[r] EXCEPT !.state = "skipped"]
               /\ outbox[r].state \in {"pending", "dead_letter"}
      BY <1>1, <2>2, QuietRow, StateWritten
    <2> QED
      BY <1>4, <2>1, <2>2 DEF WithoutCards
  <1>5. ASSUME NEW c \in Conversations, NEW k \in Keys \cup {None}, Project(c, k)
        PROVE  Word(r)'
    <2>1. ASSUME NEW d \in Rows, Coalesces(c, k, d),
                 outbox' = [outbox EXCEPT ![d].content = source + 1]
          PROVE  Word(r)'
      <3>1. CASE r # d
        BY <1>0, <1>2, <2>1, <3>1
      <3>2. CASE r = d
        <4>1. outbox[d].state = "pending"
          BY <2>1 DEF Coalesces
        <4>2. /\ outbox'[d].state = "pending" /\ outbox'[d].attempts = outbox[d].attempts
              /\ outbox'[d].content = source + 1
          BY <1>0, <2>1, <4>1 DEF Deliveries
        <4> QED
          BY <1>0, <1>1, <3>2, <4>1, <4>2 DEF Word
      <3> QED
        BY <3>1, <3>2
    <2>2. ASSUME NEW d \in Rows, NEW n \in Rows, Free(d),
                 outbox' = [outbox EXCEPT ![d] = NewRow(c, n, k, FALSE, source + 1)]
          PROVE  Word(r)'
      BY <1>0, <1>2, <1>3, <2>2
    <2> QED
      BY <1>5, <2>1, <2>2 DEF Project
  <1>6. ASSUME NEW c \in Conversations, MenuCard(c)
        PROVE  Word(r)'
    <2>1. PICK d, n \in Rows :
               /\ Free(d)
               /\ outbox' = [WithoutCards(c) EXCEPT ![d] = NewRow(c, n, None, TRUE, source + 1)]
      BY <1>6 DEF MenuCard
    <2>2. outbox'[r] = IF r = d THEN NewRow(c, n, None, TRUE, source + 1) ELSE WithoutCards(c)[r]
      BY <2>1 DEF WithoutCards
    <2> QED
      BY <1>3, <1>4, <2>1, <2>2
  <1>7. ASSUME NEW c \in Conversations, MenuCardAgain(c)
        PROVE  Word(r)'
    BY <1>4, <1>7 DEF MenuCardAgain
  <1>8. ASSUME NEW d \in Rows, Replay(d)
        PROVE  Word(r)'
    <2>1. PICK e, g \in Rows :
               /\ Free(e)
               /\ outbox' = [outbox EXCEPT
                    ![d].state = "replayed",
                    ![e] = [outbox[d] EXCEPT !.gen = g, !.state = "pending", !.attempts = 0]]
      BY <1>8 DEF Replay
    <2>2. d # e /\ outbox[d].state = "dead_letter" /\ outbox[d].content # 0
      BY <1>8, <2>1 DEF Replay, Free, WordInv, Word
    <2>3. outbox'[r] = IF r = e
                         THEN [outbox[d] EXCEPT !.gen = g, !.state = "pending", !.attempts = 0]
                       ELSE IF r = d THEN [outbox[d] EXCEPT !.state = "replayed"]
                       ELSE outbox[r]
      BY <1>0, <2>1, <2>2
    <2>4. CASE r = e
      <3>1. /\ outbox'[r].state = "pending" /\ outbox'[r].attempts = 0
            /\ outbox'[r].content = outbox[d].content
        BY <1>0, <2>3, <2>4 DEF Deliveries
      <3> QED
        BY <1>1, <2>1, <2>2, <2>4, <3>1, NewWord
    <2>5. CASE r = d
      BY <1>1, <2>2, <2>3, <2>5, QuietRow, StateWritten
    <2>6. CASE r # e /\ r # d
      BY <1>2, <2>3, <2>6
    <2> QED
      BY <2>4, <2>5, <2>6
  <1>9. ASSUME NEW d \in Rows, Skip(d)
        PROVE  Word(r)'
    <2>1. /\ outbox[d].state = "dead_letter"
          /\ outbox'[r] = IF r = d THEN [outbox[d] EXCEPT !.state = "skipped"] ELSE outbox[r]
      BY <1>0, <1>9 DEF Skip
    <2> QED
      BY <1>1, <1>2, <2>1, QuietRow, StateWritten
  <1> QED
    BY <1>5, <1>6, <1>7, <1>8, <1>9

LEMMA PluginWords ==
  ASSUME DeliveryInv, WordInv,
         \/ \E expired \in SUBSET In({"leased"}), answered \in BOOLEAN :
              \E rows \in SUBSET (In({"pending"}) \cup expired) : Claim(expired, rows, answered)
         \/ \E d \in Rows : Send(d)
         \/ Reported \/ ReportLost \/ Kill \/ Start
  PROVE  WordInv'
  <1>0. /\ outbox \in [Rows -> Deliveries]
        /\ \A r \in Rows : Word(r) /\ outbox[r] \in Deliveries
    BY DEF DeliveryInv, TypeOK, WordInv
  <1>1. ASSUME NEW expired \in SUBSET In({"leased"}), NEW answered \in BOOLEAN,
               NEW rows \in SUBSET (In({"pending"}) \cup expired), Claim(expired, rows, answered)
        PROVE  WordInv'
    <2>1. UNCHANGED <<chat, report>>
      BY <1>1 DEF Claim
    <2> SUFFICES ASSUME NEW r \in Rows PROVE Word(r)'
      BY <2>1 DEF WordInv, Told
    <2>2. CASE r \in rows
      <3>1. outbox[r].state \in {"pending", "leased"} /\ outbox[r].attempts \in Nat
        BY <1>0, <1>1, <2>2, LimitsAssumption DEF LimitsAssumption, In, Deliveries
      <3>2. outbox'[r] = [outbox[r] EXCEPT !.state = "leased", !.attempts = outbox[r].attempts + 1]
        BY <1>1, <2>2 DEF Claim
      <3>3. /\ outbox'[r].state = "leased" /\ outbox'[r].attempts = outbox[r].attempts + 1
            /\ outbox'[r].content = outbox[r].content
        BY <1>0, <3>2 DEF Deliveries
      <3> QED
        BY <1>0, <2>1, <3>1, <3>3 DEF Word
    <2>3. CASE r \notin rows /\ r \in expired
      <3>1. /\ outbox'[r] = [outbox[r] EXCEPT !.state = "pending"]
            /\ outbox[r].state # "none"
        BY <1>1, <2>3 DEF Claim, In
      <3> QED
        BY <1>0, <2>1, <3>1, QuietRow, StateWritten
    <2>4. CASE r \notin rows /\ r \notin expired
      <3>1. outbox'[r] = outbox[r]
        BY <1>1, <2>4 DEF Claim
      <3> QED
        BY <1>0, <2>1, <3>1 DEF Word
    <2> QED
      BY <2>2, <2>3, <2>4
  <1>2. ASSUME NEW d \in Rows, Send(d)
        PROVE  WordInv'
    <2>1. /\ outbox' = outbox /\ outbox[d].state = "leased" /\ outbox[d].content # 0
          /\ \A e \in Rows \ {d} : chat'[e] = chat[e]
          /\ chat'[d] \in {chat[d], outbox[d].content}
          /\ report'.row = d
          /\ report'.outcome = "delivered" => chat'[d] # 0
      BY <1>0, <1>2, SendEffect DEF Word
    <2>2. Told'
      BY <2>1 DEF Told
    <2>3. ASSUME NEW r \in Rows PROVE Word(r)'
      BY <1>0, <2>1 DEF Word
    <2> QED
      BY <2>2, <2>3 DEF WordInv
  <1>3. CASE Reported
    <2>1. PICK n \in Rows : n = report.row
      BY <1>3 DEF Reported, DeliveryInv, TypeOK, Reports
    <2>2. /\ report' = NoReport /\ UNCHANGED chat
          /\ outbox[n].state = "leased" /\ report.lease = outbox[n].attempts
          /\ report.outcome \in {"delivered", "pending", "dead_letter"}
      BY <1>3, <2>1 DEF Reported, DeliveryInv, TypeOK, Holds, Reports
    <2>3. Told'
      BY <2>2 DEF Told, NoReport
    <2>4. \A r \in Rows :
            outbox'[r] = IF r = n THEN [outbox[r] EXCEPT !.state = report.outcome]
                                  ELSE outbox[r]
      BY <1>0, <1>3, <2>1, <2>2 DEF Reported
    <2>5. ASSUME NEW r \in Rows, r # n PROVE Word(r)'
      BY <1>0, <2>2, <2>4, <2>5 DEF Word
    <2>6. Word(n)'
      <3>1. ASSUME report.outcome # "delivered" PROVE Word(n)'
        <4>1. outbox'[n] = [outbox[n] EXCEPT !.state = report.outcome] /\ chat'[n] = chat[n]
          BY <2>2, <2>4
        <4>2. report.outcome \in {"pending", "dead_letter", "replayed", "skipped"}
          BY <2>2, <3>1
        <4>3. Quiet(n)
          BY <1>0, <2>2, <4>1, <4>2, StateWritten
        <4> QED
          BY <1>0, <4>3, QuietRow
      <3>2. ASSUME report.outcome = "delivered" PROVE Word(n)'
        <4>1. chat[n] # 0
          BY <2>1, <3>2 DEF WordInv, Told
        <4>2. /\ outbox'[n].state = "delivered"
              /\ outbox'[n].attempts = outbox[n].attempts
              /\ outbox'[n].content = outbox[n].content
          BY <1>0, <2>2, <2>4, <3>2 DEF Deliveries
        <4> QED
          BY <1>0, <2>2, <4>1, <4>2 DEF Word
      <3> QED
        BY <3>1, <3>2
    <2> QED
      BY <2>3, <2>5, <2>6 DEF WordInv
  <1>4. CASE ReportLost \/ Kill \/ Start
    <2>1. report' = NoReport /\ UNCHANGED chat
      BY <1>4 DEF ReportLost, Kill, Start
    <2>2. Told'
      BY <2>1 DEF Told, NoReport
    <2>3. ASSUME NEW r \in Rows PROVE Word(r)'
      <3>1. CASE outbox'[r] = outbox[r]
        BY <1>0, <2>1, <3>1 DEF Word
      <3>2. CASE outbox'[r] = [outbox[r] EXCEPT !.state = "skipped"] /\ outbox[r].state \in Open
        BY <1>0, <2>1, <3>2, QuietRow, StateWritten DEF Open
      <3> QED
        BY <1>4, <3>1, <3>2 DEF ReportLost, Kill, Start
    <2> QED
      BY <2>2, <2>3 DEF WordInv
  <1> QED
    BY <1>1, <1>2, <1>3, <1>4

\* The invariant of words.
LEMMA WordInvHolds == Spec => []WordInv
  <1>1. Init => WordInv
    BY DEF Init, WordInv, Word, Told, NoReport, Vacant
  <1>2. DeliveryInv /\ WordInv /\ [Next]_vars => WordInv'
    <2> SUFFICES ASSUME DeliveryInv, WordInv, [Next]_vars
                 PROVE  WordInv'
      OBVIOUS
    <2>1. CASE UNCHANGED vars
      BY <2>1 DEF vars, WordInv, Word, Told
    <2>2. CASE Next
      BY <2>2, ServiceWords, PluginWords DEF Next
    <2> QED
      BY <2>1, <2>2
  <1> QED
    BY <1>1, <1>2, DeliveryInvHolds, PTL DEF Spec

\* A row that was sent once and is delivered shows what was said last: updates are
\* merged only into rows the plugin does not have, whatever expires or gets lost.
THEOREM LatestIsShown == Spec => []FirstSendIsLatest
  <1>1. WordInv => FirstSendIsLatest
    BY DEF WordInv, Word, FirstSendIsLatest
  <1> QED
    BY <1>1, WordInvHolds, PTL
-----------------------------------------------------------------------------
(* Order *)

\* A step that moves no row of the stream, and lets only heads pass, keeps it.
LEMMA KeptOrder ==
  ASSUME OrderInv,
         \A d \in Rows : /\ outbox'[d].conv = outbox[d].conv
                         /\ outbox'[d].seq = outbox[d].seq /\ outbox'[d].gen = outbox[d].gen
                         /\ outbox'[d].state = "none" <=> outbox[d].state = "none"
                         /\ outbox[d].state \in Finished => outbox'[d].state \in Finished,
         \A e \in Rows : Passed(e)' => Passed(e) \/ Reached(e)
  PROVE  OrderInv'
  <1> SUFFICES ASSUME NEW e \in Rows, Passed(e)'
               PROVE  Reached(e)'
    BY DEF OrderInv
  <1>1. Reached(e)
    BY DEF OrderInv
  <1>2. \A d \in Rows : Before(d, e)' => Before(d, e)
    BY DEF Before
  <1> QED
    BY <1>1, <1>2 DEF Reached

\* A row that is inserted behind the last one of its conversation, or at the
\* place of a dead letter, comes before no row that was passed.
LEMMA InsertedOrder ==
  ASSUME OrderInv, NEW n \in Rows, Free(n),
         outbox'[n].state = "pending", UNCHANGED chat,
         \A d \in Rows \ {n} :
            /\ outbox'[d].conv = outbox[d].conv
            /\ outbox'[d].seq = outbox[d].seq /\ outbox'[d].gen = outbox[d].gen
            /\ outbox'[d].state = "none" <=> outbox[d].state = "none"
            /\ outbox[d].state \in Finished => outbox'[d].state \in Finished
            /\ outbox'[d].state = "leased" => outbox[d].state = "leased",
         \A e \in Rows \ {n} : Reached(e) => ~ Before(n, e)'
  PROVE  OrderInv'
  <1> SUFFICES ASSUME NEW e \in Rows, Passed(e)'
               PROVE  Reached(e)'
    BY DEF OrderInv
  <1>1. outbox[n].state = "none"
    BY DEF Free
  <1>2. e # n
    BY <1>1 DEF Passed, OrderInv, Reached
  <1>3. Reached(e)
    BY <1>2 DEF Passed, OrderInv
  <1>4. \A d \in Rows : Before(d, e)' => d # n /\ Before(d, e)
    BY <1>2, <1>3 DEF Before
  <1> QED
    BY <1>2, <1>3, <1>4 DEF Reached

\* A row that takes the next number of its conversation comes before none.
LEMMA NextIsLast ==
  ASSUME TypeOK, NEW c \in Conversations, NEW n \in Rows, NextSequence(c, n),
         NEW d \in Rows, outbox'[d].conv = c, outbox'[d].seq = n,
         \A e \in Rows \ {d} : /\ outbox'[e].conv = outbox[e].conv
                              /\ outbox'[e].seq = outbox[e].seq
  PROVE  \A e \in Rows \ {d} : Reached(e) => ~ Before(d, e)'
  <1> SUFFICES ASSUME NEW e \in Rows \ {d}, Reached(e), Before(d, e)' PROVE FALSE
    OBVIOUS
  <1>1. outbox[e].seq \in Nat /\ n \in Nat
    BY LimitsAssumption DEF TypeOK, Deliveries, Rows
  <1>2. outbox[e].conv = c /\ n <= outbox[e].seq
    <2>1. outbox'[e].conv = outbox[e].conv /\ outbox'[e].seq = outbox[e].seq
      OBVIOUS
    <2>2. outbox'[e].conv = c /\ (n < outbox'[e].seq \/ n = outbox'[e].seq)
      BY DEF Before
    <2> QED
      BY <1>1, <2>1, <2>2
  <1>3. outbox[e].seq < n
    BY <1>2 DEF NextSequence, RowsOf, Reached
  <1> QED
    BY <1>1, <1>2, <1>3

\* A skipped row keeps its place.
LEMMA SkippedRow ==
  ASSUME NEW row \in Deliveries, NEW s, s = [row EXCEPT !.state = "skipped"]
  PROVE  /\ s.conv = row.conv /\ s.seq = row.seq /\ s.gen = row.gen
         /\ s.state = "skipped"
  BY DEF Deliveries

\* The operations of the service let no row get before one that was passed.
LEMMA ServiceOrder ==
  ASSUME DeliveryInv, OrderInv,
         \/ \E c \in Conversations : MenuCard(c) \/ MenuCardAgain(c)
         \/ \E c \in Conversations, k \in Keys \cup {None} : Project(c, k)
         \/ \E d \in Rows : Replay(d) \/ Skip(d)
  PROVE  OrderInv'
  <1> USE DEF Finished
  <1>0. outbox \in [Rows -> Deliveries]
    BY DEF DeliveryInv, TypeOK
  <1>1. ASSUME NEW c \in Conversations, NEW k \in Keys \cup {None}, Project(c, k)
        PROVE  OrderInv'
    <2>1. CASE \E d \in Rows : /\ Coalesces(c, k, d)
                               /\ outbox' = [outbox EXCEPT ![d].content = source + 1]
      <3>1. PICK d \in Rows : outbox' = [outbox EXCEPT ![d].content = source + 1]
        BY <2>1
      <3>2. \A e \in Rows : /\ outbox'[e].conv = outbox[e].conv
                            /\ outbox'[e].seq = outbox[e].seq /\ outbox'[e].gen = outbox[e].gen
                            /\ outbox'[e].state = outbox[e].state
        BY <1>0, <3>1 DEF Deliveries
      <3> QED
        BY <1>1, <3>2, KeptOrder DEF Project, ServiceRest, Passed
    <2>2. CASE \E d, n \in Rows :
                 /\ Free(d) /\ NextSequence(c, n)
                 /\ outbox' = [outbox EXCEPT ![d] = NewRow(c, n, k, FALSE, source + 1)]
      <3>1. PICK d, n \in Rows :
                 /\ Free(d) /\ NextSequence(c, n)
                 /\ outbox' = [outbox EXCEPT ![d] = NewRow(c, n, k, FALSE, source + 1)]
        BY <2>2
      <3>2. /\ outbox'[d] = NewRow(c, n, k, FALSE, source + 1)
            /\ \A e \in Rows \ {d} : outbox'[e] = outbox[e]
        BY <1>0, <3>1
      <3>3. \A e \in Rows \ {d} : Reached(e) => ~ Before(d, e)'
        <4>1. outbox'[d].conv = c /\ outbox'[d].seq = n
          BY <3>2 DEF NewRow
        <4> QED
          BY <1>1, <3>1, <3>2, <4>1, NextIsLast DEF DeliveryInv
      <3> QED
        BY <1>1, <3>1, <3>2, <3>3, InsertedOrder DEF Project, ServiceRest, NewRow
    <2> QED
      BY <1>1, <2>1, <2>2 DEF Project
  <1>2. ASSUME NEW c \in Conversations, NEW e \in Rows
        PROVE  /\ WithoutCards(c)[e].conv = outbox[e].conv
               /\ WithoutCards(c)[e].seq = outbox[e].seq
               /\ WithoutCards(c)[e].gen = outbox[e].gen
               /\ WithoutCards(c)[e].state = outbox[e].state \/
                    /\ outbox[e].state \in {"pending", "dead_letter"}
                    /\ WithoutCards(c)[e].state = "skipped"
    <2>1. \/ WithoutCards(c)[e] = outbox[e]
          \/ /\ WithoutCards(c)[e] = [outbox[e] EXCEPT !.state = "skipped"]
             /\ outbox[e].state \in {"pending", "dead_letter"}
      BY <1>2 DEF WithoutCards
    <2> QED
      BY <1>0, <1>2, <2>1, SkippedRow
  <1>3. ASSUME NEW c \in Conversations, MenuCard(c)
        PROVE  OrderInv'
    <2>1. PICK d, n \in Rows :
               /\ Free(d) /\ NextSequence(c, n)
               /\ outbox' = [WithoutCards(c) EXCEPT ![d] = NewRow(c, n, None, TRUE, source + 1)]
      BY <1>3 DEF MenuCard
    <2>2. /\ outbox'[d] = NewRow(c, n, None, TRUE, source + 1)
          /\ \A e \in Rows \ {d} : outbox'[e] = WithoutCards(c)[e]
      BY <2>1 DEF WithoutCards
    <2>3. \A e \in Rows \ {d} : Reached(e) => ~ Before(d, e)'
      <3>1. outbox'[d].conv = c /\ outbox'[d].seq = n
        BY <2>2 DEF NewRow
      <3>2. \A e \in Rows \ {d} : /\ outbox'[e].conv = outbox[e].conv
                                 /\ outbox'[e].seq = outbox[e].seq
        BY <1>2, <1>3, <2>2
      <3> QED
        BY <1>3, <2>1, <3>1, <3>2, NextIsLast DEF DeliveryInv
    <2> QED
      BY <1>2, <1>3, <2>1, <2>2, <2>3, InsertedOrder DEF MenuCard, ServiceRest, NewRow
  <1>4. ASSUME NEW c \in Conversations, MenuCardAgain(c)
        PROVE  OrderInv'
    BY <1>2, <1>4, KeptOrder DEF MenuCardAgain, ServiceRest, Passed
  <1>5. ASSUME NEW d \in Rows, Replay(d)
        PROVE  OrderInv'
    <2>1. PICK n, g \in Rows :
               /\ Free(n) /\ NextGeneration(d, g)
               /\ outbox' = [outbox EXCEPT
                    ![d].state = "replayed",
                    ![n] = [outbox[d] EXCEPT !.gen = g, !.state = "pending", !.attempts = 0]]
      BY <1>5 DEF Replay
    <2>2. d # n /\ outbox[d].state = "dead_letter"
      BY <1>5, <2>1 DEF Replay, Free
    <2>3. /\ outbox'[n] = [outbox[d] EXCEPT !.gen = g, !.state = "pending", !.attempts = 0]
          /\ outbox'[d] = [outbox[d] EXCEPT !.state = "replayed"]
          /\ \A e \in Rows \ {d, n} : outbox'[e] = outbox[e]
      BY <1>0, <2>1, <2>2
    <2>4. /\ outbox'[n].conv = outbox[d].conv /\ outbox'[n].seq = outbox[d].seq
          /\ outbox'[n].gen = g /\ outbox'[n].state = "pending"
          /\ outbox'[d].conv = outbox[d].conv /\ outbox'[d].seq = outbox[d].seq
          /\ outbox'[d].gen = outbox[d].gen /\ outbox'[d].state = "replayed"
      BY <1>0, <2>3 DEF Deliveries
    <2>5. ASSUME NEW e \in Rows \ {n}, Reached(e)
          PROVE  ~ Before(n, e)'
      <3>1. ~ Before(d, e)
        BY <2>2, <2>5 DEF Reached
      <3>2. /\ outbox'[e].conv = outbox[e].conv /\ outbox'[e].seq = outbox[e].seq
            /\ outbox'[e].gen = outbox[e].gen
        BY <2>3, <2>4
      <3>3. outbox[e].seq = outbox[d].seq /\ outbox[e].conv = outbox[d].conv
              => outbox[e].gen < g
        BY <2>1, <2>5 DEF NextGeneration, RowsOf, Reached
      <3>4. outbox[e].gen \in Nat /\ g \in Nat
        BY <1>0, <2>5 DEF Deliveries, Rows
      <3> QED
        BY <2>2, <2>4, <2>5, <3>1, <3>2, <3>3, <3>4 DEF Before, Reached
    <2>6. \A e \in Rows \ {n} :
            /\ outbox'[e].conv = outbox[e].conv
            /\ outbox'[e].seq = outbox[e].seq /\ outbox'[e].gen = outbox[e].gen
            /\ outbox'[e].state = IF e = d THEN "replayed" ELSE outbox[e].state
      BY <2>3, <2>4
    <2> QED
      <3>1. Free(n) /\ UNCHANGED chat
        BY <1>5, <2>1 DEF Replay, ServiceRest
      <3> QED
        BY <2>2, <2>4, <2>5, <2>6, <3>1, InsertedOrder
  <1>6. ASSUME NEW d \in Rows, Skip(d)
        PROVE  OrderInv'
    <2>1. \A e \in Rows : /\ outbox'[e].conv = outbox[e].conv
                          /\ outbox'[e].seq = outbox[e].seq /\ outbox'[e].gen = outbox[e].gen
                          /\ outbox'[e].state = IF e = d THEN "skipped" ELSE outbox[e].state
      BY <1>0, <1>6 DEF Skip, Deliveries
    <2> QED
      BY <1>6, <2>1, KeptOrder DEF Skip, ServiceRest, Passed
  <1> QED
    BY <1>1, <1>3, <1>4, <1>5, <1>6

\* The plugin passes heads only.
LEMMA PluginOrder ==
  ASSUME DeliveryInv, OrderInv,
         \/ \E expired \in SUBSET In({"leased"}), answered \in BOOLEAN :
              \E rows \in SUBSET (In({"pending"}) \cup expired) : Claim(expired, rows, answered)
         \/ \E d \in Rows : Send(d)
         \/ Reported \/ ReportLost \/ Kill \/ Start
  PROVE  OrderInv'
  <1> USE DEF Finished
  <1>0. outbox \in [Rows -> Deliveries]
    BY DEF DeliveryInv, TypeOK
  <1>1. ASSUME NEW expired \in SUBSET In({"leased"}), NEW answered \in BOOLEAN,
               NEW rows \in SUBSET (In({"pending"}) \cup expired), Claim(expired, rows, answered)
        PROVE  OrderInv'
    <2>1. ASSUME NEW e \in Rows
          PROVE  /\ outbox'[e].conv = outbox[e].conv
                 /\ outbox'[e].seq = outbox[e].seq /\ outbox'[e].gen = outbox[e].gen
                 /\ outbox'[e].state = outbox[e].state \/
                      /\ outbox[e].state \in {"pending", "leased"}
                      /\ outbox'[e].state = IF e \in rows THEN "leased" ELSE "pending"
      BY <1>0, <1>1, <2>1 DEF Claim, In, Deliveries
    <2>2. \A e \in rows : Reached(e)
      <3> SUFFICES ASSUME NEW e \in rows, NEW d \in Rows, Before(d, e)
                   PROVE  outbox[d].state \in Finished /\ outbox[e].state # "none"
        BY <1>1 DEF Reached, In
      <3>1. Head(e, expired)
        BY <1>1 DEF Claim
      <3>2. outbox[d].state \in Open \cup Finished \cup {"none"}
        BY <1>0 DEF Deliveries
      <3> QED
        BY <3>1, <3>2 DEF Head, In, Before, Open
    <2>3. \A e \in Rows : Passed(e)' => Passed(e) \/ Reached(e)
      BY <1>1, <2>1, <2>2 DEF Claim, Passed
    <2> QED
      BY <2>1, <2>3, KeptOrder
  <1>2. ASSUME NEW d \in Rows, Send(d)
        PROVE  OrderInv'
    <2>1. outbox' = outbox /\ d \in held /\ \A e \in Rows \ {d} : chat'[e] = chat[e]
      BY <1>2, SendEffect
    <2>2. Passed(d)
      BY <2>1 DEF DeliveryInv, Holds, Passed
    <2> QED
      BY <2>1, <2>2, KeptOrder DEF Passed, OrderInv
  <1>3. CASE Reported \/ ReportLost
    <2>1. ASSUME NEW e \in Rows
          PROVE  /\ outbox'[e].conv = outbox[e].conv
                 /\ outbox'[e].seq = outbox[e].seq /\ outbox'[e].gen = outbox[e].gen
                 /\ outbox'[e].state = outbox[e].state \/
                      /\ outbox[e].state = "leased"
                      /\ outbox'[e].state \in {"delivered", "pending", "dead_letter"}
      BY <1>0, <1>3, <2>1 DEF Reported, ReportLost, DeliveryInv, TypeOK, Reports, Deliveries
    <2>2. chat' = chat
      BY <1>3 DEF Reported, ReportLost
    <2> QED
      BY <2>1, <2>2, KeptOrder DEF Passed
  <1>4. CASE Kill \/ Start
    <2>1. ASSUME NEW e \in Rows
          PROVE  /\ outbox'[e].conv = outbox[e].conv
                 /\ outbox'[e].seq = outbox[e].seq /\ outbox'[e].gen = outbox[e].gen
                 /\ outbox'[e].state = outbox[e].state \/
                      /\ outbox[e].state \in Open
                      /\ outbox'[e].state = "skipped"
      <3>1. \/ outbox'[e] = outbox[e]
            \/ outbox'[e] = [outbox[e] EXCEPT !.state = "skipped"] /\ outbox[e].state \in Open
        BY <1>4, <2>1 DEF Kill, Start
      <3> QED
        BY <1>0, <2>1, <3>1, SkippedRow
    <2>2. chat' = chat
      BY <1>4 DEF Kill, Start
    <2> QED
      BY <2>1, <2>2, KeptOrder DEF Passed, Open
  <1> QED
    BY <1>1, <1>2, <1>3, <1>4

\* The invariant of order.
LEMMA OrderInvHolds == Spec => []OrderInv
  <1>1. Init => OrderInv
    BY DEF Init, OrderInv, Passed, Vacant
  <1>2. DeliveryInv /\ OrderInv /\ [Next]_vars => OrderInv'
    <2> SUFFICES ASSUME DeliveryInv, OrderInv, [Next]_vars
                 PROVE  OrderInv'
      OBVIOUS
    <2>1. CASE UNCHANGED vars
      BY <2>1 DEF vars, OrderInv, Passed, Reached, Before
    <2>2. CASE Next
      BY <2>2, ServiceOrder, PluginOrder DEF Next
    <2> QED
      BY <2>1, <2>2
  <1> QED
    BY <1>1, <1>2, DeliveryInvHolds, PTL DEF Spec

\* At most the head of a conversation is with the plugin.
THEOREM OnlyHeadsLeased == Spec => []LeasedIsHead
  <1>1. OrderInv => LeasedIsHead
    BY DEF OrderInv, Passed, Reached, LeasedIsHead, In
  <1> QED
    BY <1>1, OrderInvHolds, PTL

\* A conversation is shown in the order of its stream: what is shown now is
\* leased, so not finished, and what was shown before it waits for nothing.
THEOREM ShownInOrder == Spec => InOrder
  <1>1. DeliveryInv /\ OrderInv /\ [Next]_vars =>
          [\A d, e \in Rows : chat'[d] # chat[d] /\ Before(d, e) => chat[e] = 0]_vars
    <2> SUFFICES ASSUME DeliveryInv, OrderInv, Next, NEW d \in Rows, NEW e \in Rows,
                        chat'[d] # chat[d], Before(d, e)
                 PROVE  chat[e] = 0
      BY Zenon DEF vars
    <2>1. PICK s \in Rows : Send(s)
      BY DEF Next, Project, MenuCard, MenuCardAgain, Replay, Skip, Claim, Reported,
             ReportLost, Kill, Start, ServiceRest
    <2>2. d = s /\ outbox[d].state \notin Finished
      BY <2>1, SendEffect DEF Finished
    <2> QED
      BY <2>2 DEF OrderInv, Passed, Reached
  <1> QED
    BY <1>1, DeliveryInvHolds, OrderInvHolds, PTL DEF Spec, InOrder
-----------------------------------------------------------------------------
(* What the refinement needs beside the invariants of the outbox *)

SamePlace(d, e) == /\ outbox[d].state # "none" /\ outbox[e].state # "none"
                   /\ outbox[d].conv = outbox[e].conv /\ outbox[d].seq = outbox[e].seq

\* A row that does not exist is blank, and one that does has a conversation.
Blank == \A d \in Rows : IF outbox[d].state = "none" THEN outbox[d] = Vacant
                         ELSE outbox[d].conv \in Conversations

\* Of the rows at one place the last generation alone is open.
LastOpen == \A d, e \in Rows :
              d # e /\ SamePlace(d, e) => /\ outbox[d].gen # outbox[e].gen
                                          /\ outbox[d].state \in Open
                                               => outbox[e].gen < outbox[d].gen

StreamInv == Blank /\ LastOpen

\* What a step keeps of a row.
KeepsPlace(d) == /\ outbox'[d].conv = outbox[d].conv /\ outbox'[d].seq = outbox[d].seq
                 /\ outbox'[d].gen = outbox[d].gen /\ outbox'[d].menu = outbox[d].menu
                 /\ outbox'[d].state = "none" <=> outbox[d].state = "none"
-----------------------------------------------------------------------------
(* The steps, by what they do to rows *)

\* A step that inserts no row keeps the places.
LEMMA KeptPlaces ==
  ASSUME DeliveryInv, StreamInv,
         \A d \in Rows : KeepsPlace(d),
         \A d \in Rows : outbox[d].state = "none" => outbox'[d] = outbox[d],
         \A d \in Rows : outbox'[d].state \in Open => outbox[d].state \in Open
  PROVE  Blank' /\ LastOpen'
  <1>1. Blank'
    BY DEF StreamInv, Blank, KeepsPlace
  <1>2. LastOpen'
    BY DEF StreamInv, LastOpen, SamePlace, KeepsPlace
  <1> QED
    BY <1>1, <1>2

\* A step that inserts no row shows the stream no new order.
LEMMA KeptStream ==
  ASSUME \A d \in Rows : KeepsPlace(d)
  PROVE  /\ [d \in Rows |-> outbox[d].conv]' = [d \in Rows |-> outbox[d].conv]
         /\ {p \in Rows \X Rows : Before(p[1], p[2])}'
              = {p \in Rows \X Rows : Before(p[1], p[2])}
         /\ {d \in Rows : outbox[d].menu}' = {d \in Rows : outbox[d].menu}
  BY DEF KeepsPlace, Before

\* A step that leaves rows their fate and shows nothing is no step of the stream.
LEMMA Stutter ==
  ASSUME \A d \in Rows : KeepsPlace(d) /\ Fate(outbox'[d].state) = Fate(outbox[d].state),
         \A d \in Rows : chat'[d] # 0 <=> chat[d] # 0
  PROVE  UNCHANGED Stream!stream
  BY KeptStream DEF Stream!stream

\* A step that only skips rows sets them aside.
LEMMA Skipped ==
  ASSUME outbox \in [Rows -> Deliveries], UNCHANGED chat, NEW S \in SUBSET Rows,
         \A d \in Rows : KeepsPlace(d),
         \A d \in S : /\ \/ outbox[d].state = "dead_letter"
                         \/ outbox[d].menu /\ outbox[d].state \in Open
                      /\ outbox'[d].state = "skipped",
         \A d \in Rows \ S : outbox'[d].state = outbox[d].state
  PROVE  Stream!SetAside(S)
  <1>1. \A d \in S : \/ Fate(outbox[d].state) = "refused"
                     \/ Fate(outbox[d].state) = "waiting" /\ outbox[d].menu
    BY DEF Fate, Open
  <1>2. \A d \in S : Fate(outbox'[d].state) = "set_aside"
    BY DEF Fate
  <1>3. \A d \in S : Stream!Droppable(d)
    BY <1>1 DEF Stream!Droppable
  <1>4. [d \in Rows |-> Fate(outbox[d].state)]'
          = [n \in Rows |-> IF n \in S THEN "set_aside"
                            ELSE [d \in Rows |-> Fate(outbox[d].state)][n]]
    BY <1>2
  <1> QED
    BY <1>3, <1>4, KeptStream DEF Stream!SetAside

\* A row that is inserted is no row of the stream before.
LEMMA FreeRow ==
  ASSUME DeliveryInv, StreamInv, NEW d \in Rows, Free(d)
  PROVE  /\ outbox[d].state = "none" /\ outbox[d].conv = None /\ outbox[d].menu = FALSE
         /\ \A e \in Rows : ~ Before(d, e) /\ ~ Before(e, d)
  BY DEF Free, StreamInv, Blank, Vacant, Before

\* A row with the next number of conversation c arrives at the end of it.
LEMMA Arrived ==
  ASSUME DeliveryInv, StreamInv, NEW c \in Conversations, NEW n \in Rows, NextSequence(c, n),
         NEW d \in Rows, Free(d), NEW S \in SUBSET (Rows \ {d}), UNCHANGED chat,
         outbox'[d].conv = c, outbox'[d].seq = n, outbox'[d].gen = 0,
         outbox'[d].menu \in BOOLEAN, outbox'[d].state = "pending",
         \A e \in Rows \ {d} :
            /\ KeepsPlace(e)
            /\ outbox[e].state = "none" => outbox'[e] = outbox[e]
            /\ outbox'[e].state = IF e \in S THEN "skipped" ELSE outbox[e].state,
         \A e \in S : \/ outbox[e].state = "dead_letter"
                      \/ outbox[e].menu /\ outbox[e].state = "pending"
  PROVE  Blank' /\ LastOpen' /\ Stream!Arrive(d, c, S)
  <1> USE DEF KeepsPlace
  <1>0. /\ outbox \in [Rows -> Deliveries] /\ c # None
        /\ \A e \in Rows : outbox[e].state # "none" /\ outbox[e].conv = c => outbox[e].seq < n
        /\ \A e \in Rows : outbox[e].conv = c => outbox[e].state # "none"
        /\ \A e \in Rows : outbox[e].seq \in Nat /\ outbox[e].gen \in Nat
        /\ n \in Nat
    <2>1. outbox \in [Rows -> Deliveries] /\ c # None
      BY KeysAssumption DEF KeysAssumption, DeliveryInv, TypeOK
    <2>2. \A e \in Rows : outbox[e].state # "none" /\ outbox[e].conv = c => outbox[e].seq < n
      BY DEF NextSequence, RowsOf
    <2>3. \A e \in Rows : outbox[e].conv = c => outbox[e].state # "none"
      BY <2>1 DEF StreamInv, Blank, Vacant
    <2>4. \A e \in Rows : outbox[e].seq \in Nat /\ outbox[e].gen \in Nat
      BY <2>1, LimitsAssumption DEF LimitsAssumption, Deliveries
    <2>5. n \in Nat
      BY LimitsAssumption DEF LimitsAssumption, Rows
    <2> QED
      BY <2>1, <2>2, <2>3, <2>4, <2>5
  <1>1. Blank'
    BY DEF StreamInv, Blank
  <1>2. \A e \in Rows \ {d} : ~ SamePlace(d, e)' /\ ~ SamePlace(e, d)'
    <2> SUFFICES ASSUME NEW e \in Rows \ {d}, SamePlace(d, e)' \/ SamePlace(e, d)'
                 PROVE  FALSE
      OBVIOUS
    <2>1. outbox[e].state # "none" /\ outbox[e].conv = c /\ outbox[e].seq = n
      BY DEF SamePlace
    <2>2. outbox[e].seq < n
      BY <1>0, <2>1
    <2>3. n \in Nat
      BY <1>0
    <2> QED
      BY <2>1, <2>2, <2>3
  <1>3. LastOpen'
    <2> SUFFICES ASSUME NEW a \in Rows, NEW b \in Rows, a # b, SamePlace(a, b)'
                 PROVE  /\ outbox'[a].gen # outbox'[b].gen
                        /\ outbox'[a].state \in Open => outbox'[b].gen < outbox'[a].gen
      BY DEF LastOpen
    <2>1. a # d /\ b # d
      BY <1>2
    <2>2. SamePlace(a, b) /\ (outbox'[a].state \in Open => outbox[a].state \in Open)
      BY <2>1 DEF SamePlace, Open
    <2> QED
      BY <2>1, <2>2 DEF StreamInv, LastOpen
  <1>4. \A a, b \in Rows : Before(a, b)' <=> Before(a, b) \/ (b = d /\ outbox[a].conv = c)
    <2> TAKE a, b \in Rows
    <2>1. CASE a # d /\ b # d
      BY <2>1 DEF Before
    <2>2. CASE a # d /\ b = d
      <3>1. /\ outbox[a].conv = c => outbox[a].state # "none" /\ outbox[a].seq < n
            /\ outbox[a].seq \in Nat /\ n \in Nat
        BY <1>0
      <3>2. Before(a, d)' <=> /\ outbox[a].state # "none" /\ outbox[a].conv = c
                              /\ \/ outbox[a].seq < n
                                 \/ outbox[a].seq = n /\ outbox[a].gen < 0
        BY <2>2 DEF Before
      <3>3. Before(a, b)' <=> outbox[a].conv = c
        BY <2>2, <3>1, <3>2
      <3>4. ~ Before(a, d)
        BY FreeRow
      <3> QED
        BY <2>2, <3>3, <3>4
    <2>3. CASE a = d
      <3>1. ~ Before(a, b) /\ outbox[a].conv # c
        BY <1>0, <2>3, FreeRow
      <3>2. ~ Before(a, b)'
        BY <1>0, <2>3 DEF Before
      <3> QED
        BY <3>1, <3>2
    <2> QED
      BY <2>1, <2>2, <2>3
  <1>5. [e \in Rows |-> outbox[e].conv]' = [[e \in Rows |-> outbox[e].conv] EXCEPT ![d] = c]
    OBVIOUS
  <1>6. {p \in Rows \X Rows : Before(p[1], p[2])}'
          = {p \in Rows \X Rows : Before(p[1], p[2])}
              \cup {e \in Rows : [a \in Rows |-> outbox[a].conv][e] = c} \X {d}
    BY <1>4
  <1>7. {e \in Rows : outbox[e].menu}' \in {{e \in Rows : outbox[e].menu},
                                            {e \in Rows : outbox[e].menu} \cup {d}}
    BY FreeRow
  <1>8. [e \in Rows |-> Fate(outbox[e].state)]' =
          [e \in Rows |-> IF e = d THEN "waiting" ELSE IF e \in S THEN "set_aside"
                          ELSE [a \in Rows |-> Fate(outbox[a].state)][e]]
    BY DEF Fate
  <1>9. Fate(outbox[d].state) = "none" /\ \A e \in S : Stream!Droppable(e)
    BY FreeRow DEF Fate, Stream!Droppable
  <1> QED
    BY <1>1, <1>3, <1>5, <1>6, <1>7, <1>8, <1>9 DEF Stream!Arrive

\* A row with the next generation takes the place of its dead letter.
LEMMA Replayed ==
  ASSUME DeliveryInv, StreamInv, NEW d \in Rows, outbox[d].state = "dead_letter",
         NEW n \in Rows, Free(n), NEW g \in Rows, NextGeneration(d, g), UNCHANGED chat,
         outbox'[n].conv = outbox[d].conv, outbox'[n].seq = outbox[d].seq, outbox'[n].gen = g,
         outbox'[n].menu = outbox[d].menu, outbox'[n].state = "pending",
         \A e \in Rows \ {n} :
            /\ KeepsPlace(e)
            /\ outbox[e].state = "none" => outbox'[e] = outbox[e]
            /\ outbox'[e].state = IF e = d THEN "replayed" ELSE outbox[e].state
  PROVE  Blank' /\ LastOpen' /\ Stream!SendAgain(d, n)
  <1> USE DEF KeepsPlace
  <1> DEFINE c == outbox[d].conv
  <1>0. /\ outbox \in [Rows -> Deliveries] /\ c \in Conversations /\ c # None
        /\ d # n /\ g \in Nat
        /\ \A e \in Rows : outbox[e].seq \in Nat /\ outbox[e].gen \in Nat
        /\ \A e \in Rows : outbox[e].conv = c => outbox[e].state # "none"
        /\ \A e \in Rows : SamePlace(d, e) => outbox[e].gen < g
    <2>1. outbox \in [Rows -> Deliveries] /\ d # n
      BY DEF DeliveryInv, TypeOK, Free
    <2>2. c \in Conversations /\ c # None
      BY KeysAssumption DEF KeysAssumption, StreamInv, Blank
    <2>3. g \in Nat
      BY LimitsAssumption DEF LimitsAssumption, Rows
    <2>4. \A e \in Rows : outbox[e].seq \in Nat /\ outbox[e].gen \in Nat
      BY <2>1, LimitsAssumption DEF LimitsAssumption, Deliveries
    <2>5. \A e \in Rows : outbox[e].conv = c => outbox[e].state # "none"
      BY <2>2 DEF StreamInv, Blank, Vacant
    <2>6. \A e \in Rows : SamePlace(d, e) => outbox[e].gen < g
      BY DEF NextGeneration, RowsOf, SamePlace
    <2> QED
      BY <2>1, <2>2, <2>3, <2>4, <2>5, <2>6
  <1>1. Blank'
    BY <1>0 DEF StreamInv, Blank
  <1>2. \A e \in Rows : SamePlace(d, e) /\ e # d => outbox[e].gen < outbox[d].gen
    BY DEF StreamInv, LastOpen, Open
  <1>3. LastOpen'
    <2> SUFFICES ASSUME NEW a \in Rows, NEW b \in Rows, a # b, SamePlace(a, b)'
                 PROVE  /\ outbox'[a].gen # outbox'[b].gen
                        /\ outbox'[a].state \in Open => outbox'[b].gen < outbox'[a].gen
      BY DEF LastOpen
    <2>1. CASE a # n /\ b # n
      <3>1. SamePlace(a, b) /\ (outbox'[a].state \in Open => outbox[a].state \in Open)
        BY <2>1 DEF SamePlace, Open
      <3> QED
        BY <2>1, <3>1 DEF StreamInv, LastOpen
    <2>2. CASE a = n
      <3>1. SamePlace(d, b)
        BY <2>2 DEF SamePlace
      <3> QED
        BY <1>0, <2>2, <3>1
    <2>3. CASE b = n
      <3>1. SamePlace(d, a)
        BY <2>3 DEF SamePlace
      <3>2. outbox'[a].state \notin Open
        <4>1. CASE a = d
          BY <2>3, <4>1 DEF Open
        <4>2. CASE a # d
          <5>1. outbox'[a].state = outbox[a].state /\ SamePlace(a, d)
            BY <2>3, <3>1, <4>2 DEF SamePlace
          <5>2. outbox[a].gen < outbox[d].gen
            BY <1>2, <3>1, <4>2
          <5>3. ~ (outbox[d].gen < outbox[a].gen)
            BY <1>0, <5>2
          <5> QED
            BY <4>2, <5>1, <5>3 DEF StreamInv, LastOpen
        <4> QED
          BY <4>1, <4>2
      <3> QED
        BY <1>0, <2>3, <3>1, <3>2
    <2> QED
      BY <2>1, <2>2, <2>3
  <1>4. \A a, b \in Rows : Before(a, b)' <=>
          \/ Before(a, b)
          \/ b = n /\ outbox[a].conv = c /\ ~ Before(d, a)
          \/ a = n /\ Before(d, b)
    <2> TAKE a, b \in Rows
    <2>0. \A e \in Rows : ~ Before(n, e) /\ ~ Before(e, n)
      BY FreeRow
    <2>1. CASE a # n /\ b # n
      BY <2>1 DEF Before
    <2>2. CASE a # n /\ b = n
      <3>1. Before(a, n)' <=> /\ outbox[a].state # "none" /\ outbox[a].conv = c
                              /\ \/ outbox[a].seq < outbox[d].seq
                                 \/ outbox[a].seq = outbox[d].seq /\ outbox[a].gen < g
        BY <2>2 DEF Before
      <3>2. outbox[a].conv = c /\ outbox[a].seq = outbox[d].seq
              => outbox[a].gen < g /\ ~ Before(d, a)
        <4> SUFFICES ASSUME outbox[a].conv = c, outbox[a].seq = outbox[d].seq
                     PROVE  outbox[a].gen < g /\ ~ Before(d, a)
          OBVIOUS
        <4>1. SamePlace(d, a)
          BY <1>0 DEF SamePlace
        <4>2. a = d \/ outbox[a].gen < outbox[d].gen
          BY <1>2, <4>1
        <4> QED
          BY <1>0, <4>1, <4>2 DEF Before
      <3>3. outbox[a].conv = c /\ outbox[a].seq # outbox[d].seq
              => (outbox[a].seq < outbox[d].seq <=> ~ Before(d, a))
        BY <1>0 DEF Before
      <3>4. Before(a, n)' <=> outbox[a].conv = c /\ ~ Before(d, a)
        BY <1>0, <3>1, <3>2, <3>3
      <3> QED
        BY <2>0, <2>2, <3>4
    <2>3. CASE a = n /\ b # n
      <3>1. Before(n, b)' <=> /\ outbox[b].state # "none" /\ outbox[b].conv = c
                              /\ \/ outbox[d].seq < outbox[b].seq
                                 \/ outbox[b].seq = outbox[d].seq /\ g < outbox[b].gen
        BY <2>3 DEF Before
      <3>2. SamePlace(d, b) => ~ (g < outbox[b].gen) /\ ~ (outbox[d].gen < outbox[b].gen)
        <4>1. SamePlace(d, b) => outbox[b].gen < g /\ (b = d \/ outbox[b].gen < outbox[d].gen)
          BY <1>0, <1>2
        <4> QED
          BY <1>0, <4>1
      <3>3. Before(n, b)' <=> Before(d, b)
        BY <1>0, <3>1, <3>2 DEF Before, SamePlace
      <3> QED
        BY <2>0, <2>3, <3>3
    <2>4. CASE a = n /\ b = n
      <3>1. ~ Before(n, n)'
        BY <1>0 DEF Before
      <3>2. outbox[n].conv # c
        BY <1>0, FreeRow
      <3> QED
        BY <2>0, <2>4, <3>1, <3>2
    <2> QED
      BY <2>1, <2>2, <2>3, <2>4
  <1> DEFINE after == {e \in Rows : <<d, e>> \in {p \in Rows \X Rows : Before(p[1], p[2])}}
  <1>5. after = {e \in Rows : Before(d, e)}
    OBVIOUS
  <1>6. [e \in Rows |-> outbox[e].conv]' =
          [[e \in Rows |-> outbox[e].conv] EXCEPT ![n] = [e \in Rows |-> outbox[e].conv][d]]
    OBVIOUS
  <1>7. {p \in Rows \X Rows : Before(p[1], p[2])}'
          = {p \in Rows \X Rows : Before(p[1], p[2])}
              \cup {e \in Rows \ after : [a \in Rows |-> outbox[a].conv][e]
                                          = [a \in Rows |-> outbox[a].conv][d]} \X {n}
              \cup {n} \X after
    BY <1>4, <1>5
  <1>8. {e \in Rows : outbox[e].menu}' =
          IF d \in {e \in Rows : outbox[e].menu} THEN {e \in Rows : outbox[e].menu} \cup {n}
          ELSE {e \in Rows : outbox[e].menu}
    BY FreeRow
  <1>9. [e \in Rows |-> Fate(outbox[e].state)]' =
          [[e \in Rows |-> Fate(outbox[e].state)] EXCEPT ![d] = "set_aside", ![n] = "waiting"]
    <2>1. Fate("replayed") = "set_aside" /\ Fate("pending") = "waiting"
      BY DEF Fate
    <2>2. /\ Fate(outbox'[d].state) = "set_aside" /\ Fate(outbox'[n].state) = "waiting"
          /\ \A e \in Rows \ {d, n} : Fate(outbox'[e].state) = Fate(outbox[e].state)
      BY <1>0, <2>1
    <2> QED
      BY <2>2
  <1>10. Fate(outbox[d].state) = "refused" /\ Fate(outbox[n].state) = "none"
    BY FreeRow DEF Fate
  <1> QED
    BY <1>1, <1>3, <1>6, <1>7, <1>8, <1>9, <1>10 DEF Stream!SendAgain

\* A skipped row keeps its place.
LEMMA SkippedPlace ==
  ASSUME NEW row \in Deliveries, NEW s, s = [row EXCEPT !.state = "skipped"]
  PROVE  /\ s.conv = row.conv /\ s.seq = row.seq /\ s.gen = row.gen
         /\ s.menu = row.menu /\ s.state = "skipped"
  BY DEF Deliveries
-----------------------------------------------------------------------------
(* The operations of the service are steps of the stream *)

LEMMA ServiceSteps ==
  ASSUME DeliveryInv, StreamInv,
         \/ \E c \in Conversations : MenuCard(c) \/ MenuCardAgain(c)
         \/ \E c \in Conversations, k \in Keys \cup {None} : Project(c, k)
         \/ \E d \in Rows : Replay(d) \/ Skip(d)
  PROVE  StreamInv' /\ [Stream!Next]_Stream!stream
  <1>0. outbox \in [Rows -> Deliveries] /\ UNCHANGED ServiceRest
    BY DEF DeliveryInv, TypeOK, Project, MenuCard, MenuCardAgain, Replay, Skip
  <1>1. UNCHANGED chat
    BY <1>0 DEF ServiceRest
  <1> SUFFICES Blank' /\ LastOpen' /\ [Stream!Next]_Stream!stream
    BY DEF StreamInv
  <1>2. ASSUME NEW c \in Conversations, NEW k \in Keys \cup {None}, Project(c, k)
        PROVE  Blank' /\ LastOpen' /\ [Stream!Next]_Stream!stream
    <2>1. CASE \E d \in Rows : /\ Coalesces(c, k, d)
                               /\ outbox' = [outbox EXCEPT ![d].content = source + 1]
      <3>1. PICK d \in Rows : /\ Coalesces(c, k, d)
                              /\ outbox' = [outbox EXCEPT ![d].content = source + 1]
        BY <2>1
      <3>2. \A e \in Rows : KeepsPlace(e) /\ outbox'[e].state = outbox[e].state
        BY <1>0, <3>1 DEF Deliveries, KeepsPlace
      <3>3. \A e \in Rows : outbox[e].state = "none" => outbox'[e] = outbox[e]
        BY <1>0, <3>1 DEF Coalesces
      <3> QED
        BY <1>1, <3>2, <3>3, KeptPlaces, Stutter
    <2>2. CASE \E d, n \in Rows :
                 /\ Free(d) /\ NextSequence(c, n)
                 /\ outbox' = [outbox EXCEPT ![d] = NewRow(c, n, k, FALSE, source + 1)]
      <3>1. PICK d, n \in Rows :
                 /\ Free(d) /\ NextSequence(c, n)
                 /\ outbox' = [outbox EXCEPT ![d] = NewRow(c, n, k, FALSE, source + 1)]
        BY <2>2
      <3>2. /\ outbox'[d].conv = c /\ outbox'[d].seq = n /\ outbox'[d].gen = 0
            /\ outbox'[d].menu = FALSE /\ outbox'[d].state = "pending"
            /\ \A e \in Rows \ {d} : outbox'[e] = outbox[e]
        BY <1>0, <3>1 DEF NewRow
      <3>3. \A e \in Rows \ {d} : KeepsPlace(e)
        BY <3>2 DEF KeepsPlace
      <3> DEFINE S == {}
      <3>4. /\ S \in SUBSET (Rows \ {d}) /\ S \in SUBSET Rows
            /\ outbox'[d].menu \in BOOLEAN
            /\ \A e \in Rows \ {d} :
                 /\ KeepsPlace(e)
                 /\ outbox[e].state = "none" => outbox'[e] = outbox[e]
                 /\ outbox'[e].state = IF e \in S THEN "skipped" ELSE outbox[e].state
            /\ \A e \in S : \/ outbox[e].state = "dead_letter"
                            \/ outbox[e].menu /\ outbox[e].state = "pending"
        BY <3>2, <3>3
      <3> HIDE DEF S
      <3>5. Blank' /\ LastOpen' /\ Stream!Arrive(d, c, S)
        BY <1>1, <1>2, <3>1, <3>2, <3>4, Arrived
      <3> QED
        BY <1>2, <3>1, <3>4, <3>5 DEF Stream!Next
    <2> QED
      BY <1>2, <2>1, <2>2 DEF Project
  <1>3. ASSUME NEW c \in Conversations
        PROVE  \A e \in Rows :
                 IF e \in RowsOf(c) /\ outbox[e].menu /\ outbox[e].state \in {"pending", "dead_letter"}
                 THEN /\ WithoutCards(c)[e].conv = outbox[e].conv
                      /\ WithoutCards(c)[e].seq = outbox[e].seq
                      /\ WithoutCards(c)[e].gen = outbox[e].gen
                      /\ WithoutCards(c)[e].menu = outbox[e].menu
                      /\ WithoutCards(c)[e].state = "skipped"
                 ELSE WithoutCards(c)[e] = outbox[e]
    BY <1>0, SkippedPlace DEF WithoutCards
  <1> DEFINE Old(c) == {e \in RowsOf(c) : /\ outbox[e].menu
                                          /\ outbox[e].state \in {"pending", "dead_letter"}}
  <1>4. ASSUME NEW c \in Conversations, MenuCard(c)
        PROVE  Blank' /\ LastOpen' /\ [Stream!Next]_Stream!stream
    <2>1. PICK d, n \in Rows :
               /\ Free(d) /\ NextSequence(c, n)
               /\ outbox' = [WithoutCards(c) EXCEPT ![d] = NewRow(c, n, None, TRUE, source + 1)]
      BY <1>4 DEF MenuCard
    <2>2. /\ outbox'[d].conv = c /\ outbox'[d].seq = n /\ outbox'[d].gen = 0
          /\ outbox'[d].menu = TRUE /\ outbox'[d].state = "pending"
          /\ \A e \in Rows \ {d} : outbox'[e] = WithoutCards(c)[e]
      BY <2>1 DEF NewRow, WithoutCards
    <2>3. PICK S \in SUBSET Rows : S = Old(c)
      BY DEF RowsOf
    <2>4. d \notin S
      BY <2>1, <2>3 DEF RowsOf, Free
    <2>5. \A e \in Rows \ {d} :
            /\ KeepsPlace(e)
            /\ outbox[e].state = "none" => outbox'[e] = outbox[e]
            /\ outbox'[e].state = IF e \in S THEN "skipped" ELSE outbox[e].state
      BY <1>3, <1>4, <2>2, <2>3 DEF KeepsPlace
    <2>6. \A e \in S : \/ outbox[e].state = "dead_letter"
                       \/ outbox[e].menu /\ outbox[e].state = "pending"
      BY <2>3
    <2>7. S \in SUBSET (Rows \ {d}) /\ outbox'[d].menu \in BOOLEAN
      BY <2>2, <2>4
    <2>8. Blank' /\ LastOpen' /\ Stream!Arrive(d, c, S)
      BY <1>1, <1>4, <2>1, <2>2, <2>5, <2>6, <2>7, Arrived
    <2> QED
      BY <1>4, <2>1, <2>3, <2>8 DEF Stream!Next
  <1>5. ASSUME NEW S \in SUBSET Rows,
               \A e \in Rows : \/ outbox'[e] = outbox[e]
                               \/ outbox'[e] = [outbox[e] EXCEPT !.state = "skipped"],
               \A e \in S : /\ \/ outbox[e].state = "dead_letter"
                               \/ outbox[e].menu /\ outbox[e].state \in Open
                            /\ outbox'[e].state = "skipped",
               \A e \in Rows \ S : outbox'[e] = outbox[e]
        PROVE  Blank' /\ LastOpen' /\ [Stream!Next]_Stream!stream
    <2>1. \A e \in Rows : KeepsPlace(e)
      <3> SUFFICES ASSUME NEW e \in Rows PROVE KeepsPlace(e)
        OBVIOUS
      <3>1. CASE e \in S
        BY <1>0, <1>5, <3>1, SkippedPlace DEF KeepsPlace, Open
      <3>2. CASE e \notin S
        BY <1>5, <3>2 DEF KeepsPlace
      <3> QED
        BY <3>1, <3>2
    <2>2. /\ \A e \in Rows : outbox[e].state = "none" => outbox'[e] = outbox[e]
          /\ \A e \in Rows : outbox'[e].state \in Open => outbox[e].state \in Open
      BY <1>5 DEF Open
    <2>3. Stream!SetAside(S)
      BY <1>0, <1>1, <1>5, <2>1, Skipped
    <2>4. Blank' /\ LastOpen'
      BY <2>1, <2>2, KeptPlaces
    <2> QED
      BY <2>3, <2>4 DEF Stream!Next
  <1>6. ASSUME NEW c \in Conversations, MenuCardAgain(c)
        PROVE  Blank' /\ LastOpen' /\ [Stream!Next]_Stream!stream
    <2>1. \A e \in Rows : \/ outbox'[e] = outbox[e]
                          \/ outbox'[e] = [outbox[e] EXCEPT !.state = "skipped"]
      BY <1>6 DEF MenuCardAgain, WithoutCards
    <2>2. Old(c) \in SUBSET Rows
      BY DEF RowsOf
    <2>3. \A e \in Old(c) : /\ \/ outbox[e].state = "dead_letter"
                               \/ outbox[e].menu /\ outbox[e].state \in Open
                            /\ outbox'[e].state = "skipped"
      BY <1>3, <1>6, <2>2 DEF MenuCardAgain, Open
    <2>4. \A e \in Rows \ Old(c) : outbox'[e] = outbox[e]
      BY <1>3, <1>6 DEF MenuCardAgain
    <2> HIDE DEF Old
    <2> QED
      BY <1>5, <2>1, <2>2, <2>3, <2>4
  <1>7. ASSUME NEW d \in Rows, Skip(d)
        PROVE  Blank' /\ LastOpen' /\ [Stream!Next]_Stream!stream
    <2>1. /\ outbox'[d] = [outbox[d] EXCEPT !.state = "skipped"]
          /\ outbox'[d].state = "skipped" /\ outbox[d].state = "dead_letter"
          /\ \A e \in Rows \ {d} : outbox'[e] = outbox[e]
      BY <1>0, <1>7, SkippedPlace DEF Skip
    <2>2. PICK S \in SUBSET Rows : S = {d}
      OBVIOUS
    <2>3. /\ \A e \in Rows : \/ outbox'[e] = outbox[e]
                             \/ outbox'[e] = [outbox[e] EXCEPT !.state = "skipped"]
          /\ \A e \in S : /\ \/ outbox[e].state = "dead_letter"
                             \/ outbox[e].menu /\ outbox[e].state \in Open
                          /\ outbox'[e].state = "skipped"
          /\ \A e \in Rows \ S : outbox'[e] = outbox[e]
      BY <2>1, <2>2
    <2> QED
      BY <1>5, <2>2, <2>3
  <1>8. ASSUME NEW d \in Rows, Replay(d)
        PROVE  Blank' /\ LastOpen' /\ [Stream!Next]_Stream!stream
    <2>1. PICK n, g \in Rows :
               /\ Free(n) /\ NextGeneration(d, g)
               /\ outbox' = [outbox EXCEPT
                    ![d].state = "replayed",
                    ![n] = [outbox[d] EXCEPT !.gen = g, !.state = "pending", !.attempts = 0]]
      BY <1>8 DEF Replay
    <2>2. d # n /\ outbox[d].state = "dead_letter"
      BY <1>8, <2>1 DEF Replay, Free
    <2>3. /\ outbox'[n] = [outbox[d] EXCEPT !.gen = g, !.state = "pending", !.attempts = 0]
          /\ outbox'[d] = [outbox[d] EXCEPT !.state = "replayed"]
          /\ \A e \in Rows \ {d, n} : outbox'[e] = outbox[e]
      BY <1>0, <2>1, <2>2
    <2>4. /\ outbox'[n].conv = outbox[d].conv /\ outbox'[n].seq = outbox[d].seq
          /\ outbox'[n].gen = g /\ outbox'[n].menu = outbox[d].menu
          /\ outbox'[n].state = "pending"
          /\ outbox'[d].state = "replayed"
          /\ KeepsPlace(d)
      BY <1>0, <2>2, <2>3 DEF Deliveries, KeepsPlace
    <2>5. \A e \in Rows \ {n} :
            /\ KeepsPlace(e)
            /\ outbox[e].state = "none" => outbox'[e] = outbox[e]
            /\ outbox'[e].state = IF e = d THEN "replayed" ELSE outbox[e].state
      BY <2>2, <2>3, <2>4 DEF KeepsPlace
    <2>6. Blank' /\ LastOpen' /\ Stream!SendAgain(d, n)
      BY <1>1, <1>8, <2>1, <2>2, <2>4, <2>5, Replayed
    <2> QED
      BY <1>8, <2>6 DEF Stream!Next
  <1> QED
    BY <1>2, <1>4, <1>6, <1>7, <1>8
-----------------------------------------------------------------------------
(* The plugin's steps are steps of the stream, or none *)

\* It is the turn of a row that is leased.
LEMMA LeasedTurn ==
  ASSUME OrderInv, NEW d \in Rows, outbox[d].state = "leased"
  PROVE  Stream!Turn(d)
  <1>1. \A e \in Rows : Before(e, d) => outbox[e].state \in Finished
    BY DEF OrderInv, Passed, Reached
  <1>2. \A e \in Rows : Before(e, d) => Fate(outbox[e].state) \in {"delivered", "set_aside"}
    BY <1>1 DEF Finished, Fate
  <1>3. Fate(outbox[d].state) = "waiting"
    BY DEF Fate
  <1> QED
    BY <1>2, <1>3 DEF Stream!Turn, Stream!Settled

LEMMA SendSteps ==
  ASSUME DeliveryInv, WordInv, OrderInv, StreamInv, NEW d \in Rows, Send(d)
  PROVE  StreamInv' /\ [Stream!Next]_Stream!stream
  <1>1. /\ outbox' = outbox /\ outbox[d].state = "leased" /\ outbox[d].content # 0
        /\ \A e \in Rows \ {d} : chat'[e] = chat[e]
        /\ chat'[d] \in {chat[d], outbox[d].content}
    BY SendEffect DEF WordInv, Word
  <1>2. StreamInv'
    BY <1>1 DEF StreamInv, Blank, LastOpen, SamePlace
  <1>3. \A e \in Rows : KeepsPlace(e) /\ Fate(outbox'[e].state) = Fate(outbox[e].state)
    BY <1>1 DEF KeepsPlace
  <1>4. CASE chat[d] # 0 <=> chat'[d] # 0
    BY <1>1, <1>2, <1>3, <1>4, Stutter
  <1>5. CASE chat[d] = 0 /\ chat'[d] # 0
    <2>1. /\ d \notin {e \in Rows : chat[e] # 0}
          /\ {e \in Rows : chat[e] # 0}' = {e \in Rows : chat[e] # 0} \cup {d}
      BY <1>1, <1>5
    <2>2. Stream!Turn(d)
      BY <1>1, LeasedTurn
    <2>3. [e \in Rows |-> Fate(outbox[e].state)]' = [e \in Rows |-> Fate(outbox[e].state)]
      BY <1>1
    <2>4. Stream!Show(d)
      BY <1>3, <2>1, <2>2, <2>3, KeptStream DEF Stream!Show
    <2> QED
      BY <1>2, <2>4 DEF Stream!Next
  <1> QED
    BY <1>1, <1>4, <1>5

LEMMA ReportSteps ==
  ASSUME DeliveryInv, WordInv, OrderInv, StreamInv, Reported
  PROVE  StreamInv' /\ [Stream!Next]_Stream!stream
  <1> DEFINE r == report.row
  <1>1. /\ outbox \in [Rows -> Deliveries] /\ r \in Rows
        /\ outbox[r].state = "leased" /\ report.lease = outbox[r].attempts
        /\ report.outcome \in {"delivered", "pending", "dead_letter"}
        /\ UNCHANGED chat /\ report' = NoReport
    BY DEF DeliveryInv, TypeOK, Holds, Reported, Reports
  <1>2. outbox' = [outbox EXCEPT ![r].state = report.outcome]
    BY <1>1 DEF Reported
  <1>3. \A e \in Rows : /\ KeepsPlace(e)
                        /\ outbox'[e].state = IF e = r THEN report.outcome ELSE outbox[e].state
    BY <1>1, <1>2 DEF KeepsPlace, Deliveries
  <1>5. StreamInv'
    <2>1. \A e \in Rows : outbox[e].state = "none" => outbox'[e] = outbox[e]
      BY <1>1, <1>2
    <2>2. \A e \in Rows : outbox'[e].state \in Open => outbox[e].state \in Open
      BY <1>1, <1>3 DEF Open
    <2> QED
      BY <1>3, <2>1, <2>2, KeptPlaces DEF StreamInv
  <1>6. CASE report.outcome = "pending"
    <2>1. \A e \in Rows : Fate(outbox'[e].state) = Fate(outbox[e].state)
      BY <1>1, <1>3, <1>6 DEF Fate
    <2> QED
      BY <1>1, <1>3, <1>5, <2>1, Stutter
  <1>7. CASE report.outcome \in {"delivered", "dead_letter"}
    <2>1. Stream!Turn(r)
      BY <1>1, LeasedTurn
    <2>2. report.outcome = "delivered" => r \in {e \in Rows : chat[e] # 0}
      BY <1>1 DEF WordInv, Told
    <2>3. [e \in Rows |-> Fate(outbox[e].state)]' =
            [[e \in Rows |-> Fate(outbox[e].state)] EXCEPT ![r] = Fate(report.outcome)]
      BY <1>1, <1>3
    <2>4. /\ report.outcome = "delivered" => Fate(report.outcome) = "delivered"
          /\ report.outcome = "dead_letter" => Fate(report.outcome) = "refused"
      BY DEF Fate
    <2>5. {e \in Rows : chat[e] # 0}' = {e \in Rows : chat[e] # 0}
      BY <1>1
    <2>6. Stream!Settle(r)
      BY <1>3, <1>7, <2>1, <2>2, <2>3, <2>4, <2>5, KeptStream DEF Stream!Settle
    <2> QED
      BY <1>1, <1>5, <2>6 DEF Stream!Next
  <1> QED
    BY <1>1, <1>6, <1>7

LEMMA PluginSteps ==
  ASSUME DeliveryInv, OrderInv, StreamInv,
         \/ \E expired \in SUBSET In({"leased"}), answered \in BOOLEAN :
              \E rows \in SUBSET (In({"pending"}) \cup expired) : Claim(expired, rows, answered)
         \/ ReportLost \/ Kill \/ Start
  PROVE  StreamInv' /\ [Stream!Next]_Stream!stream
  <1>0. outbox \in [Rows -> Deliveries]
    BY DEF DeliveryInv, TypeOK
  <1>1. UNCHANGED chat
    BY DEF Claim, ReportLost, Kill, Start
  <1>2. ASSUME NEW expired \in SUBSET In({"leased"}), NEW answered \in BOOLEAN,
               NEW rows \in SUBSET (In({"pending"}) \cup expired), Claim(expired, rows, answered)
        PROVE  StreamInv' /\ [Stream!Next]_Stream!stream
    <2>1. ASSUME NEW e \in Rows
          PROVE  /\ KeepsPlace(e)
                 /\ \/ outbox'[e] = outbox[e]
                    \/ /\ outbox[e].state \in {"pending", "leased"}
                       /\ outbox'[e].state \in {"pending", "leased"}
      BY <1>0, <1>2, <2>1 DEF Claim, In, Deliveries, KeepsPlace
    <2>2. /\ \A e \in Rows : outbox[e].state = "none" => outbox'[e] = outbox[e]
          /\ \A e \in Rows : outbox'[e].state \in Open => outbox[e].state \in Open
          /\ \A e \in Rows : Fate(outbox'[e].state) = Fate(outbox[e].state)
      BY <2>1 DEF Open, Fate
    <2> QED
      BY <1>1, <2>1, <2>2, KeptPlaces, Stutter DEF StreamInv
  <1>3. CASE ReportLost \/ Kill
    <2>1. outbox' = outbox
      BY <1>3 DEF ReportLost, Kill
    <2>2. \A e \in Rows : KeepsPlace(e) /\ Fate(outbox'[e].state) = Fate(outbox[e].state)
      BY <2>1 DEF KeepsPlace
    <2> QED
      BY <1>1, <2>1, <2>2, Stutter DEF StreamInv, Blank, LastOpen, SamePlace
  <1>4. CASE Start
    <2>1. PICK S \in SUBSET Rows : S = {e \in Rows : outbox[e].menu /\ outbox[e].state \in Open}
      OBVIOUS
    <2>2. /\ \A e \in S : outbox'[e] = [outbox[e] EXCEPT !.state = "skipped"]
          /\ \A e \in Rows \ S : outbox'[e] = outbox[e]
      BY <1>4, <2>1 DEF Start
    <2>3. \A e \in S : /\ outbox'[e].conv = outbox[e].conv /\ outbox'[e].seq = outbox[e].seq
                       /\ outbox'[e].gen = outbox[e].gen /\ outbox'[e].menu = outbox[e].menu
                       /\ outbox'[e].state = "skipped"
      <3> SUFFICES ASSUME NEW e \in S
                   PROVE  /\ outbox'[e].conv = outbox[e].conv /\ outbox'[e].seq = outbox[e].seq
                          /\ outbox'[e].gen = outbox[e].gen /\ outbox'[e].menu = outbox[e].menu
                          /\ outbox'[e].state = "skipped"
        OBVIOUS
      <3>1. outbox[e] \in Deliveries /\ outbox'[e] = [outbox[e] EXCEPT !.state = "skipped"]
        BY <1>0, <2>1, <2>2
      <3> QED
        BY <3>1, SkippedPlace
    <2>4. \A e \in Rows : KeepsPlace(e)
      BY <2>1, <2>2, <2>3 DEF KeepsPlace, Open
    <2>5. /\ \A e \in Rows : outbox[e].state = "none" => outbox'[e] = outbox[e]
          /\ \A e \in Rows : outbox'[e].state \in Open => outbox[e].state \in Open
      BY <2>1, <2>2, <2>3 DEF Open
    <2>6. /\ \A e \in S : /\ \/ outbox[e].state = "dead_letter"
                             \/ outbox[e].menu /\ outbox[e].state \in Open
                          /\ outbox'[e].state = "skipped"
          /\ \A e \in Rows \ S : outbox'[e].state = outbox[e].state
      BY <2>1, <2>2, <2>3
    <2>7. Stream!SetAside(S)
      BY <1>0, <1>1, <2>4, <2>6, Skipped
    <2> QED
      BY <1>1, <2>1, <2>4, <2>5, <2>7, KeptPlaces DEF StreamInv, Stream!Next
  <1> QED
    BY <1>2, <1>3, <1>4
-----------------------------------------------------------------------------
\* The outbox implements the stream of messages: whatever expires, gets lost,
\* is sent again, is forgotten by the provider or dies, each message appears in its
\* place, when all before it is settled, and is called delivered only if it appeared.
THEOREM OutboxImplementsStream == Spec => ImplementsStream
  <1>1. Init => StreamInv /\ Stream!Init
    <2> SUFFICES ASSUME Init PROVE StreamInv /\ Stream!Init
      OBVIOUS
    <2>1. StreamInv
      BY DEF Init, StreamInv, Blank, LastOpen, SamePlace, Vacant
    <2>2. \A d \in Rows : /\ outbox[d].conv = None /\ outbox[d].menu = FALSE
                          /\ Fate(outbox[d].state) = "none"
                          /\ chat[d] = 0
                          /\ \A e \in Rows : ~ Before(d, e)
      BY DEF Init, Vacant, Fate, Before
    <2> QED
      BY <2>1, <2>2 DEF Stream!Init
  <1>2. DeliveryInv /\ WordInv /\ OrderInv /\ StreamInv /\ [Next]_vars
          => StreamInv' /\ [Stream!Next]_Stream!stream
    <2> SUFFICES ASSUME DeliveryInv, WordInv, OrderInv, StreamInv, [Next]_vars
                 PROVE  StreamInv' /\ [Stream!Next]_Stream!stream
      OBVIOUS
    <2>1. CASE UNCHANGED vars
      <3>1. \A d \in Rows : KeepsPlace(d) /\ Fate(outbox'[d].state) = Fate(outbox[d].state)
        BY <2>1 DEF vars, KeepsPlace
      <3> QED
        BY <2>1, <3>1, Stutter
           DEF vars, StreamInv, Blank, LastOpen, SamePlace
    <2>2. CASE Next
      BY <2>2, ServiceSteps, SendSteps, ReportSteps, PluginSteps DEF Next
    <2> QED
      BY <2>1, <2>2
  <1> QED
    BY <1>1, <1>2, DeliveryInvHolds, WordInvHolds, OrderInvHolds, PTL
       DEF Spec, ImplementsStream, Stream!Spec
=============================================================================
