----------------------- MODULE InventoryTransferProofs -----------------------
(***************************************************************************)
(* Proofs about InventoryTransfer: its inductive invariant holds for every *)
(* number of requests, every count, and every cap on the actions, and with *)
(* it the safety properties that TLC checks on small instances.            *)
(***************************************************************************)
EXTENDS InventoryTransferInv, SequenceTheorems, TLAPS

-----------------------------------------------------------------------------
(* The queue to the server *)

LEMMA QueueIsSeq ==
  ASSUME NEW q \in Seq(Commands)
  PROVE  /\ Len(q) \in Nat
         /\ DOMAIN q = 1..Len(q)
         /\ \A i \in 1..Len(q) : q[i] \in Commands
  BY LenProperties, ElementOfSeq

LEMMA QueueAppend ==
  ASSUME NEW q \in Seq(Commands), NEW c \in Commands
  PROVE  /\ Append(q, c) \in Seq(Commands)
         /\ Len(Append(q, c)) = Len(q) + 1
         /\ DOMAIN Append(q, c) = 1..(Len(q) + 1)
         /\ \A i \in DOMAIN q : i \in 1..Len(q) /\ Append(q, c)[i] = q[i]
         /\ Append(q, c)[Len(q) + 1] = c
         /\ \A i \in DOMAIN Append(q, c) : i \in DOMAIN q \/ i = Len(q) + 1
<1>1. /\ Append(q, c) \in Seq(Commands)
      /\ Len(Append(q, c)) = Len(q) + 1
      /\ \A i \in 1..Len(q) : Append(q, c)[i] = q[i]
      /\ Append(q, c)[Len(q) + 1] = c
  BY AppendProperties
<1>2. /\ Len(q) \in Nat
      /\ DOMAIN q = 1..Len(q)
  BY LenProperties
<1>3. DOMAIN Append(q, c) = 1..(Len(q) + 1)
  BY <1>1, LenProperties
<1> QED
  BY <1>1, <1>2, <1>3

\* What the queue looks like after the client has sent command c.
LEMMA Sent ==
  ASSUME TypeOK, NEW c \in Commands, toServer' = Append(toServer, c)
  PROVE  /\ toServer' \in Seq(Commands)
         /\ Queue' = 1..(Len(toServer) + 1)
         /\ \A i \in Queue : i \in 1..Len(toServer) /\ toServer'[i] = toServer[i]
         /\ \A i \in Queue' : i \in Queue \/ i = Len(toServer) + 1
         /\ toServer'[Len(toServer) + 1] = c
         /\ Len(toServer') = Len(toServer) + 1
         /\ Len(toServer) \in Nat
         /\ \A i \in Queue : toServer[i] \in Commands
  BY QueueAppend, QueueIsSeq DEF Queue, TypeOK

LEMMA QueueTail ==
  ASSUME NEW q \in Seq(Commands), q # <<>>
  PROVE  /\ Head(q) = q[1]
         /\ Head(q) \in Commands
         /\ 1 \in DOMAIN q
         /\ Tail(q) \in Seq(Commands)
         /\ Len(Tail(q)) = Len(q) - 1
         /\ \A i \in DOMAIN Tail(q) : /\ i \in 1..(Len(q) - 1)
                                      /\ i + 1 \in DOMAIN q
                                      /\ Tail(q)[i] = q[i + 1]
<1>1. /\ Head(q) \in Commands
      /\ Tail(q) \in Seq(Commands)
      /\ Len(Tail(q)) = Len(q) - 1
      /\ \A i \in 1..Len(Tail(q)) : Tail(q)[i] = q[i + 1]
  BY HeadTailProperties
<1>2. /\ Len(q) \in Nat \ {0}
      /\ DOMAIN q = 1..Len(q)
  BY LenProperties, EmptySeq
<1>3. DOMAIN Tail(q) = 1..(Len(q) - 1)
  BY <1>1, LenProperties
<1>4. Head(q) = q[1]
  OBVIOUS
<1> QED
  BY <1>1, <1>2, <1>3, <1>4

-----------------------------------------------------------------------------
(* The initial state *)

LEMMA InitEstablishes == Init => IInv
<1> SUFFICES ASSUME Init PROVE IInv
  OBVIOUS
<1> USE DEF Init
<1>1. TypeOK
  <2>1. toServer \in Seq(Commands)
    BY EmptySeq
  <2> QED
    BY <2>1, TransferAssumption
       DEF TypeOK, Phases, NoTask, Tasks, NoNonce, Nonces, Counts, Receipts,
           NoReceipt, Jobs
<1>2. TaskShape
  BY DEF TaskShape, Dispatched
<1>3. JobHistory
  BY TransferAssumption DEF JobHistory, Jobs
<1>4. Queue = {}
  BY DEF Queue
<1>5. KnownNonces /\ MovesInFlight /\ QueueOrder
  BY <1>4 DEF KnownNonces, MovesInFlight, QueueOrder, Dispatched
<1>6. SlotOwner
  BY DEF SlotOwner, NoReceipt
<1>7. PrepareKnowledge /\ ReceiptKnowledge
  BY DEF PrepareKnowledge, ReceiptKnowledge, Dispatched
<1>8. Answers
  BY DEF Answers, CertainAnswerIsExact, Answered
<1> QED
  BY <1>1, <1>2, <1>3, <1>5, <1>6, <1>7, <1>8 DEF IInv

-----------------------------------------------------------------------------
(* Steps that touch one side only *)

LEMMA StutterPreserves == IInv /\ UNCHANGED vars => IInv'
  BY DEF IInv, vars, TypeOK, TaskShape, JobHistory, KnownNonces, MovesInFlight,
         QueueOrder, SlotOwner, PrepareKnowledge, ReceiptKnowledge, Answers,
         CertainAnswerIsExact, Answered, Known, Queue, IsMove, IsPrepare,
         NoPrepareQueued, MoveQueued, Reported, Dispatched, Remaining

LEMMA RetryPreserves == IInv /\ Retry => IInv'
<1> SUFFICES ASSUME IInv, Retry PROVE IInv'
  OBVIOUS
<1> USE DEF IInv, Retry, historyVars
<1>1. TypeOK'
  BY DEF TypeOK, Phases
<1>2. TaskShape'
  BY DEF TaskShape, Dispatched, Remaining
<1>3. JobHistory' /\ KnownNonces' /\ SlotOwner' /\ Answers'
  BY DEF JobHistory, KnownNonces, Known, SlotOwner, Answers, Queue, IsMove,
         CertainAnswerIsExact, Answered
<1>4. MovesInFlight' /\ QueueOrder'
  BY DEF MovesInFlight, QueueOrder, Dispatched, Queue, IsMove, IsPrepare,
         NoPrepareQueued
<1>5. PrepareKnowledge' /\ ReceiptKnowledge'
  BY DEF PrepareKnowledge, ReceiptKnowledge, Dispatched, Reported, MoveQueued,
         Queue, IsMove
<1> QED
  BY <1>1, <1>2, <1>3, <1>4, <1>5

LEMMA ReceiptExpiresPreserves == IInv /\ ReceiptExpires => IInv'
<1> SUFFICES ASSUME IInv, ReceiptExpires PROVE IInv'
  OBVIOUS
<1> USE DEF IInv, ReceiptExpires, historyVars, clientVars
<1>1. TypeOK'
  BY TransferAssumption
     DEF TypeOK, Receipts, NoReceipt, Nonces, NoNonce, Counts
<1>2. TaskShape' /\ JobHistory' /\ Answers' /\ MovesInFlight' /\ QueueOrder'
  BY DEF TaskShape, Dispatched, Remaining, JobHistory, Answers, Answered,
         CertainAnswerIsExact, MovesInFlight, QueueOrder, Queue, IsMove,
         IsPrepare, NoPrepareQueued
<1>3. KnownNonces'
  BY DEF KnownNonces, Known, Queue
<1>4. SlotOwner'
  BY DEF SlotOwner, NoReceipt
<1>5. PrepareKnowledge' /\ ReceiptKnowledge'
  BY DEF PrepareKnowledge, ReceiptKnowledge, Dispatched, Reported, MoveQueued,
         Queue, IsMove, NoReceipt, NoPrepareQueued, IsPrepare
<1> QED
  BY <1>1, <1>2, <1>3, <1>4, <1>5

LEMMA PollPreserves == IInv /\ Poll => IInv'
<1> SUFFICES ASSUME IInv, Poll PROVE IInv'
  OBVIOUS
<1> USE DEF IInv
<1> DEFINE c == Command("receipt", task.nonce, 0, job)
<1>1. job \in Jobs /\ c \in Commands
  BY TransferAssumption
     DEF Poll, TypeOK, TaskShape, Jobs, Tasks, Command, Commands, Counts
<1>2. /\ toServer' \in Seq(Commands)
      /\ Queue' = 1..(Len(toServer) + 1)
      /\ \A i \in Queue : i \in 1..Len(toServer) /\ toServer'[i] = toServer[i]
      /\ \A i \in Queue' : i \in Queue \/ i = Len(toServer) + 1
      /\ toServer'[Len(toServer) + 1] = c
      /\ Len(toServer) \in Nat
  BY <1>1, Sent DEF Poll
<1>3. c.type = "receipt" /\ c.nonce = task.nonce
  BY DEF Command
<1>4. \A i \in Queue' : IsMove(i)' \/ IsPrepare(i)' =>
        i \in Queue /\ toServer'[i] = toServer[i]
  BY <1>2, <1>3 DEF IsMove, IsPrepare
<1>5. TypeOK'
  BY <1>2, TransferAssumption DEF TypeOK, Poll, Phases, historyVars
<1>6. TaskShape' /\ JobHistory' /\ Answers'
  BY DEF Poll, historyVars, TaskShape, Dispatched, Remaining, JobHistory,
         Answers, Answered, CertainAnswerIsExact
<1>7. KnownNonces'
  <2>1. task.nonce \in Nonces /\ Known(task.nonce)
    BY DEF Poll, TypeOK, Tasks, Nonces, TaskShape, JobHistory, Known
  <2> QED
    BY <1>2, <1>3, <2>1 DEF KnownNonces, Known, Poll, historyVars
<1>8. MovesInFlight' /\ QueueOrder'
  BY <1>2, <1>4
     DEF MovesInFlight, QueueOrder, NoPrepareQueued, IsMove, IsPrepare, Poll,
         historyVars, Dispatched
<1>9. SlotOwner'
  BY <1>2, <1>4 DEF SlotOwner, Poll, historyVars, IsMove
<1>10. PrepareKnowledge' /\ ReceiptKnowledge'
  BY <1>2, <1>4
     DEF PrepareKnowledge, ReceiptKnowledge, Poll, historyVars, Dispatched,
         Reported, MoveQueued, IsMove
<1> QED
  BY <1>5, <1>6, <1>7, <1>8, <1>9, <1>10

-----------------------------------------------------------------------------
(* The client asks for the next action *)

LEMMA StartPreserves ==
  ASSUME IInv, NEW n \in 1..MaxRequest, Start(n)
  PROVE  IInv'
<1> USE DEF IInv
<1> DEFINE t == [id |-> nextId, moved |-> 0, actions |-> 0, nonce |-> NoNonce, count |-> 0]
           nn == [id |-> nextId, action |-> 1]
           c == Command("prepare", nn, n, job + 1)
<1>1. [NoTask EXCEPT !.id = nextId] = t /\ NextNonce(t) = nn
  BY DEF NoTask, NextNonce
<1>2. /\ task' = [t EXCEPT !.nonce = nn, !.count = 0]
      /\ phase' = "preparing"
      /\ polls' = 0
      /\ toServer' = Append(toServer, c)
  BY <1>1, Zenon DEF Start, Prepare
<1>3. task' = [id |-> nextId, moved |-> 0, actions |-> 0, nonce |-> nn, count |-> 0]
  BY <1>2
<1>4. /\ job + 1 \in Jobs
      /\ job < job + 1
      /\ job' = job + 1
      /\ requested' = [requested EXCEPT ![job + 1] = n]
      /\ nextId' = nextId + 1
      /\ phase = "idle"
      /\ UNCHANGED <<helper, receipt, toClient, actual, answer>>
  BY TransferAssumption DEF Start, TypeOK, Jobs
<1>5. /\ nn \in Nonces /\ nn.id = nextId /\ nn.action = 1
      /\ nextId \in Nat /\ nextId >= 1
  BY DEF Nonces, TypeOK, JobHistory
<1>6. c \in Commands /\ c.type = "prepare" /\ c.nonce = nn
  BY <1>4, <1>5, TransferAssumption DEF Command, Commands, Counts
<1>7. /\ toServer' \in Seq(Commands)
      /\ Queue' = 1..(Len(toServer) + 1)
      /\ \A i \in Queue : i \in 1..Len(toServer) /\ toServer'[i] = toServer[i]
      /\ \A i \in Queue' : i \in Queue \/ i = Len(toServer) + 1
      /\ toServer'[Len(toServer) + 1] = c
      /\ Len(toServer') = Len(toServer) + 1
      /\ Len(toServer) \in Nat
      /\ \A i \in Queue : toServer[i] \in Commands
  BY <1>2, <1>6, Sent
<1>8. \A i \in Queue' : IsMove(i)' =>
        i \in Queue /\ IsMove(i) /\ toServer'[i] = toServer[i]
  BY <1>6, <1>7 DEF IsMove
<1>9. /\ \A i \in Queue : toServer[i].nonce # nn
      /\ \A r \in toClient : r.type # "unreadable" => r.nonce # nn
      /\ receipt.nonce # nn
  BY <1>5 DEF KnownNonces, Known, TypeOK, Nonces, NoReceipt, NoNonce
<1> HIDE DEF nn, c
<1>10. TypeOK'
  <2>1. task' \in Tasks
    BY <1>3, <1>5, TransferAssumption DEF Tasks, Counts
  <2>2. requested' \in [Jobs -> Counts] /\ job' \in 0..MaxJobs /\ nextId' \in Nat
    BY <1>4, <1>5, TransferAssumption DEF TypeOK, Counts, Jobs
  <2> QED
    BY <1>2, <1>4, <1>7, <2>1, <2>2, TransferAssumption DEF TypeOK, Phases
<1>11. TaskShape'
  <2>1. answer[job + 1] = Promise!Open /\ requested'[job + 1] = n
    BY <1>4 DEF JobHistory, TypeOK
  <2> QED
    BY <1>2, <1>3, <1>4, <1>5, <2>1, TransferAssumption
       DEF TaskShape, Dispatched, TypeOK
<1>12. JobHistory'
  <2>1. \A j \in Jobs : j < job + 1 => j < job \/ (j = job /\ job >= 1)
    BY DEF Jobs, TypeOK
  <2>2. \A j \in Jobs : actual[j] <= requested'[j]
    BY <1>4 DEF JobHistory, TypeOK, Jobs, Counts
  <2>3. \A j \in Jobs : j > job + 1 => j > job
    BY DEF TypeOK, Jobs
  <2> QED
    BY <1>2, <1>4, <1>5, <2>1, <2>2, <2>3 DEF JobHistory
<1>13. KnownNonces'
  <2>1. ASSUME NEW m \in Nonces, Known(m)
        PROVE  Known(m)'
    <3>1. m.id \in Nat /\ m.id >= 1 /\ m.id < nextId
      BY <2>1 DEF Known, Nonces
    <3> QED
      BY <1>3, <1>4, <1>5, <3>1 DEF Known
  <2>2. nn.id >= 1 /\ nn.id < nextId' /\ nn.action <= task'.nonce.action
    BY <1>3, <1>4, <1>5
  <2>3. \A i \in Queue : Known(toServer[i].nonce)'
    <3> TAKE i \in Queue
    <3>1. toServer'[i].nonce = toServer[i].nonce /\ toServer[i].nonce \in Nonces
      BY <1>7 DEF Commands
    <3>2. Known(toServer[i].nonce)
      BY DEF KnownNonces
    <3> QED
      BY <2>1, <3>1, <3>2 DEF Known
  <2>4. \A i \in Queue' : Known(toServer[i].nonce)'
    BY <1>6, <1>7, <2>2, <2>3 DEF Known
  <2>5. \A r \in toClient' : r.type = "unreadable" \/ Known(r.nonce)'
    BY <1>4, <2>1 DEF KnownNonces, TypeOK, Replies
  <2>6. (receipt # NoReceipt => Known(receipt.nonce))'
    BY <1>4, <2>1 DEF KnownNonces, TypeOK, Receipts, Known
  <2> QED
    BY <2>4, <2>5, <2>6 DEF KnownNonces
<1>14. MovesInFlight'
  <2>1. ASSUME NEW i \in Queue', IsMove(i)'
        PROVE  LET m == toServer'[i] IN
                 /\ m.job <= job + 1
                 /\ actual[m.job] + m.count <= requested'[m.job]
                 /\ answer[m.job].unknown
                 /\ m.nonce # nn
    <3> DEFINE m == toServer[i]
    <3>1. i \in Queue /\ IsMove(i) /\ toServer'[i] = m
      BY <1>8, <2>1
    <3>2. m \in Commands /\ m.nonce # nn
      BY <1>7, <1>9, <3>1
    <3>3. /\ m.job <= job
          /\ actual[m.job] + m.count <= requested[m.job]
          /\ answer[m.job].unknown
      BY <1>4, <3>1 DEF MovesInFlight, Dispatched
    <3>4. m.job \in Jobs /\ m.job # job + 1 /\ m.job <= job + 1
      BY <3>2, <3>3 DEF Commands, TypeOK, Jobs
    <3> QED
      BY <1>4, <3>1, <3>2, <3>3, <3>4 DEF TypeOK
  <2>2. \A i, k \in Queue' : IsMove(i)' /\ IsMove(k)' /\ i # k =>
          /\ toServer'[i].job # toServer'[k].job
          /\ toServer'[i].nonce # toServer'[k].nonce
    BY <1>8 DEF MovesInFlight
  <2> QED
    BY <1>2, <1>3, <1>4, <2>1, <2>2 DEF MovesInFlight, IsMove
<1>15. QueueOrder'
  <2>1. \A i, k \in Queue' : IsPrepare(i)' /\ i < k => ~IsMove(k)'
    <3> SUFFICES ASSUME NEW i \in Queue', NEW k \in Queue', IsPrepare(i)', i < k, IsMove(k)'
                 PROVE  FALSE
      OBVIOUS
    <3>1. k \in Queue /\ IsMove(k)
      BY <1>8
    <3>2. i \in Queue /\ IsPrepare(i)
      BY <1>7, <3>1 DEF IsPrepare
    <3> QED
      BY <3>1, <3>2 DEF QueueOrder
  <2>2. \A i \in Queue' : toServer'[i].nonce = nn => i = Len(toServer')
    BY <1>7, <1>9
  <2> QED
    BY <1>2, <1>3, <2>1, <2>2 DEF QueueOrder, IsMove, IsPrepare, Dispatched
<1>16. SlotOwner'
  BY <1>4, <1>8 DEF SlotOwner
<1>17. PrepareKnowledge' /\ ReceiptKnowledge'
  <2>1. \A r \in toClient' : ~Reported(r)' \/ r.type = "unreadable"
    BY <1>3, <1>4, <1>9 DEF Reported
  <2>2. actual[job + 1] = 0
    BY <1>4 DEF JobHistory
  <2> QED
    BY <1>2, <1>3, <1>4, <1>9, <2>1, <2>2
       DEF PrepareKnowledge, ReceiptKnowledge, Dispatched, Reported
<1>18. Answers'
  BY <1>4 DEF Answers, CertainAnswerIsExact, Answered
<1> QED
  BY <1>10, <1>11, <1>12, <1>13, <1>14, <1>15, <1>16, <1>17, <1>18

-----------------------------------------------------------------------------
(* The client answers the request *)

\* While no move was sent for the current action, none of the job is queued and
\* everything that moved is counted.
LEMMA NothingDispatched ==
  ASSUME IInv, phase # "idle", ~Dispatched
  PROVE  /\ actual[job] = task.moved
         /\ \A i \in Queue : IsMove(i) => toServer[i].job # job
<1>1. phase = "preparing"
  BY DEF IInv, TypeOK, Phases, Dispatched
<1>2. ~answer[job].unknown
  BY DEF IInv, TaskShape, Promise!Open
<1> QED
  BY <1>1, <1>2 DEF IInv, PrepareKnowledge, MovesInFlight

LEMMA ClosePreserves ==
  ASSUME IInv, phase # "idle",
         NEW a \in Promise!Answer,
         a.confirmed <= actual[job],
         ~a.unknown => /\ a.confirmed = actual[job]
                       /\ \A i \in Queue : IsMove(i) => toServer[i].job # job,
         Finish(a),
         toServer' = toServer \/ CancelNonce,
         UNCHANGED <<nextId, helper, receipt, toClient, job, requested, actual>>
  PROVE  IInv'
<1> USE DEF IInv
<1> DEFINE c == Command("cancel", task.nonce, 0, job)
<1>1. /\ answer' = [answer EXCEPT ![job] = a]
      /\ phase' = "idle" /\ task' = NoTask /\ polls' = 0
  BY DEF Finish
<1>2. /\ job \in Jobs
      /\ a # Promise!Open
  BY DEF TypeOK, TaskShape, Jobs, Promise!Answer, Promise!Open, Promise!Verdicts
<1>3. /\ c \in Commands /\ c.type = "cancel" /\ c.nonce = task.nonce
      /\ task.nonce \in Nonces
  BY <1>2, TransferAssumption DEF Command, Commands, TypeOK, Tasks, Counts
<1>4. /\ toServer' \in Seq(Commands)
      /\ \A i \in Queue' : \/ i \in Queue /\ toServer'[i] = toServer[i]
                           \/ toServer'[i] = c
  <2>1. CASE toServer' = toServer
    BY <2>1 DEF TypeOK, Queue
  <2>2. CASE CancelNonce
    BY <1>3, <2>2, Sent DEF CancelNonce
  <2> QED
    BY <2>1, <2>2
<1>5. \A i \in Queue' : IsMove(i)' \/ IsPrepare(i)' =>
        i \in Queue /\ toServer'[i] = toServer[i]
  BY <1>3, <1>4 DEF IsMove, IsPrepare
<1> HIDE DEF c
<1>6. TypeOK'
  <2>1. task' \in Tasks
    BY <1>1, TransferAssumption DEF NoTask, Tasks, NoNonce, Nonces, Counts
  <2>2. answer' \in [Jobs -> Promise!Answer \cup {Promise!Open, Promise!Lost}]
    BY <1>1 DEF TypeOK
  <2> QED
    BY <1>1, <1>4, <2>1, <2>2, TransferAssumption DEF TypeOK, Phases
<1>7. TaskShape'
  BY <1>1 DEF TaskShape, Dispatched
<1>8. JobHistory'
  <2>1. \A j \in Jobs : answer'[j] = IF j = job THEN a ELSE answer[j]
    BY <1>1 DEF TypeOK
  <2>2. \A j \in Jobs : j > job => j # job
    BY DEF Jobs, TypeOK
  <2>3. \A j \in Jobs : j < job => j # job
    BY DEF Jobs, TypeOK
  <2> QED
    BY <1>1, <1>2, <2>1, <2>2, <2>3 DEF JobHistory
<1>9. KnownNonces'
  <2>1. \A m \in Nonces : Known(m) => Known(m)'
    BY <1>1 DEF Known
  <2>2. c.nonce.id >= 1 /\ c.nonce.id < nextId'
    BY <1>3 DEF TaskShape, TypeOK
  <2>3. \A i \in Queue' : Known(toServer[i].nonce)'
    <3> TAKE i \in Queue'
    <3>1. CASE i \in Queue /\ toServer'[i] = toServer[i]
      <4>1. Known(toServer[i].nonce)
        BY <3>1 DEF KnownNonces
      <4> QED
        BY <1>1, <3>1, <4>1 DEF Known
    <3>2. CASE toServer'[i] = c
      BY <1>1, <2>2, <3>2 DEF Known
    <3> QED
      BY <1>4, <3>1, <3>2
  <2>4. \A r \in toClient' : r.type = "unreadable" \/ Known(r.nonce)'
    BY <2>1 DEF KnownNonces, TypeOK, Replies
  <2>5. (receipt # NoReceipt => Known(receipt.nonce))'
    BY <2>1 DEF KnownNonces, TypeOK, Receipts, Known
  <2> QED
    BY <2>3, <2>4, <2>5 DEF KnownNonces
<1>10. MovesInFlight'
  <2>1. ASSUME NEW i \in Queue', IsMove(i)'
        PROVE  LET m == toServer'[i] IN
                 /\ m.job <= job
                 /\ actual[m.job] + m.count <= requested[m.job]
                 /\ answer'[m.job].unknown
    <3> DEFINE m == toServer[i]
    <3>1. i \in Queue /\ IsMove(i) /\ toServer'[i] = m
      BY <1>5, <2>1 DEF IsMove
    <3>2. m \in Commands /\ m.job \in Jobs
      BY <3>1, QueueIsSeq DEF TypeOK, Queue, Commands
    <3>3. /\ m.job <= job
          /\ actual[m.job] + m.count <= requested[m.job]
          /\ answer[m.job].unknown \/ m.job = job
      BY <3>1 DEF MovesInFlight
    <3>4. CASE m.job = job
      BY <1>1, <3>1, <3>2, <3>3, <3>4 DEF TypeOK
    <3>5. CASE m.job # job
      BY <1>1, <3>1, <3>2, <3>3, <3>5 DEF TypeOK
    <3> QED
      BY <3>4, <3>5
  <2>2. \A i, k \in Queue' : IsMove(i)' /\ IsMove(k)' /\ i # k =>
          /\ toServer'[i].job # toServer'[k].job
          /\ toServer'[i].nonce # toServer'[k].nonce
    BY <1>5 DEF MovesInFlight, IsMove
  <2> QED
    BY <1>1, <2>1, <2>2 DEF MovesInFlight, IsMove
<1>11. QueueOrder'
  BY <1>1, <1>5 DEF QueueOrder, IsMove, IsPrepare, Dispatched
<1>12. SlotOwner'
  BY <1>5 DEF SlotOwner, IsMove
<1>13. PrepareKnowledge' /\ ReceiptKnowledge'
  BY <1>1 DEF PrepareKnowledge, ReceiptKnowledge, Dispatched
<1>14. Answers'
  BY <1>1, <1>2 DEF Answers, CertainAnswerIsExact, Answered, TypeOK
<1> QED
  BY <1>6, <1>7, <1>8, <1>9, <1>10, <1>11, <1>12, <1>13, <1>14

\* A verdict on the task as it stands, certain only if nothing was dispatched.
LEMMA VerdictPreserves ==
  ASSUME IInv, phase # "idle",
         NEW a \in Promise!Answer,
         a.unknown = Dispatched, a.confirmed = task.moved,
         Finish(a), CancelNonce,
         UNCHANGED <<nextId, helper, receipt, toClient, job, requested, actual>>
  PROVE  IInv'
<1>1. task.moved <= actual[job]
  <2>1. CASE Dispatched
    BY <2>1 DEF IInv, ReceiptKnowledge
  <2>2. CASE ~Dispatched
    BY <2>2, NothingDispatched DEF IInv, TypeOK, TaskShape, Jobs, Counts
  <2> QED
    BY <2>1, <2>2
<1> QED
  BY <1>1, NothingDispatched, ClosePreserves

LEMMA ResultInAnswer ==
  ASSUME IInv, phase # "idle", NEW t \in Tasks, NEW u \in BOOLEAN
  PROVE  /\ Result(t, u) \in Promise!Answer
         /\ Result(t, u).unknown = u
         /\ Result(t, u).confirmed = t.moved
  BY DEF Result, Promise!Answer, Promise!Verdicts, Tasks, Counts

LEMMA FailPreserves ==
  ASSUME IInv, phase # "idle", Fail,
         UNCHANGED <<nextId, helper, receipt, toClient, job, requested, actual>>
  PROVE  IInv'
<1>1. task \in Tasks /\ Dispatched \in BOOLEAN
  BY DEF IInv, TypeOK, Dispatched
<1> QED
  BY <1>1, ResultInAnswer, VerdictPreserves DEF Fail

LEMMA UnreadablePreserves ==
  ASSUME IInv, NEW r \in toClient, HandleUnreadable(r)
  PROVE  IInv'
  BY FailPreserves DEF HandleUnreadable

LEMMA TimeoutPreserves == IInv /\ Timeout => IInv'
  BY FailPreserves DEF Timeout

LEMMA StopPreserves == IInv /\ Stop => IInv'
<1> SUFFICES ASSUME IInv, Stop PROVE IInv'
  OBVIOUS
<1> DEFINE a == [verdict |-> "cancelled", unknown |-> Dispatched, confirmed |-> task.moved]
<1>1. /\ a \in Promise!Answer /\ a.unknown = Dispatched /\ a.confirmed = task.moved
  BY DEF Promise!Answer, Promise!Verdicts, IInv, TypeOK, Tasks, Counts, Dispatched
<1>2. phase # "idle" /\ Finish(a) /\ CancelNonce
      /\ UNCHANGED <<nextId, helper, receipt, toClient, job, requested, actual>>
  BY DEF Stop
<1> QED
  BY <1>1, <1>2, VerdictPreserves

LEMMA RestartPreserves == IInv /\ Restart => IInv'
<1> SUFFICES ASSUME IInv, Restart PROVE IInv'
  OBVIOUS
<1> USE DEF IInv
<1>1. /\ phase' = "idle" /\ task' = NoTask /\ nextId' = 1 /\ polls' = 0
      /\ receipt' = NoReceipt /\ toServer' = <<>> /\ toClient' = {}
      /\ UNCHANGED <<helper, job, requested, actual>>
  BY DEF Restart
<1>2. /\ phase = "idle" => answer' = answer
      /\ phase # "idle" => job \in Jobs /\ answer' = [answer EXCEPT ![job] = Promise!Lost]
  BY DEF Restart, TaskShape, TypeOK, Jobs
<1>3. Queue' = {}
  BY <1>1 DEF Queue
<1>4. TypeOK'
  <2>1. /\ task' \in Tasks /\ receipt' \in Receipts
    BY <1>1, TransferAssumption
       DEF NoTask, Tasks, NoNonce, Nonces, Counts, NoReceipt, Receipts
  <2>2. answer' \in [Jobs -> Promise!Answer \cup {Promise!Open, Promise!Lost}]
    BY <1>2 DEF TypeOK
  <2>3. toServer' \in Seq(Commands)
    BY <1>1, EmptySeq
  <2> QED
    BY <1>1, <2>1, <2>2, <2>3, TransferAssumption DEF TypeOK, Phases
<1>5. TaskShape'
  BY <1>1 DEF TaskShape, Dispatched
<1>6. JobHistory'
  <2>1. Promise!Lost # Promise!Open
    BY DEF Promise!Lost, Promise!Open
  <2>2. CASE phase = "idle"
    BY <1>1, <1>2, <2>2 DEF JobHistory
  <2>3. CASE phase # "idle"
    <3>1. \A j \in Jobs : answer'[j] = IF j = job THEN Promise!Lost ELSE answer[j]
      BY <1>2, <2>3 DEF TypeOK
    <3>2. \A j \in Jobs : j > job \/ j < job => j # job
      BY DEF Jobs, TypeOK
    <3> QED
      BY <1>1, <1>2, <2>1, <2>3, <3>1, <3>2 DEF JobHistory
  <2> QED
    BY <2>2, <2>3
<1>7. KnownNonces' /\ MovesInFlight' /\ QueueOrder'
  BY <1>1, <1>3 DEF KnownNonces, MovesInFlight, QueueOrder, Dispatched
<1>8. SlotOwner'
  BY <1>1 DEF SlotOwner, NoReceipt
<1>9. PrepareKnowledge' /\ ReceiptKnowledge'
  BY <1>1 DEF PrepareKnowledge, ReceiptKnowledge, Dispatched
<1>10. Answers'
  BY <1>1, <1>2 DEF Answers, CertainAnswerIsExact, Answered, TypeOK
<1> QED
  BY <1>4, <1>5, <1>6, <1>7, <1>8, <1>9, <1>10

-----------------------------------------------------------------------------
(* The client reads a reply to the current action *)

\* The helper is ready: the native move leaves.
LEMMA DispatchPreserves ==
  ASSUME IInv, NEW r \in toClient, HandlePrepare(r),
         r.status = "ok", r.count \in 1..Remaining(task)
  PROVE  IInv'
<1> USE DEF IInv
<1> DEFINE c == Command("move", task.nonce, r.count, job)
<1>1. /\ r.type = "prepare" /\ phase = "preparing" /\ r.nonce = task.nonce
      /\ toServer' = Append(toServer, c)
      /\ task' = [task EXCEPT !.actions = task.actions + 1, !.count = r.count]
      /\ phase' = "waiting"
      /\ UNCHANGED <<polls, answer, nextId, helper, receipt, toClient, job,
                     requested, actual>>
  BY DEF HandlePrepare
<1>2. /\ job \in Jobs /\ task \in Tasks /\ answer[job] = Promise!Open
      /\ ~answer[job].unknown /\ ~Dispatched
  BY <1>1 DEF TypeOK, TaskShape, Jobs, Dispatched, Promise!Open
<1>3. /\ task'.id = task.id /\ task'.moved = task.moved
      /\ task'.nonce = task.nonce /\ task'.actions = task.actions + 1
      /\ task'.count = r.count
  BY <1>1, <1>2 DEF Tasks
<1>4. /\ requested[job] \in Counts /\ task.moved \in Nat
      /\ r.count \in Nat /\ r.count >= 1
      /\ r.count <= requested[job] - task.moved
  BY <1>2, TransferAssumption DEF Remaining, TypeOK, Tasks, Counts
<1>5. r.count \in Counts
  BY <1>4, TransferAssumption DEF Counts
<1>6. c \in Commands /\ c.type = "move" /\ c.nonce = task.nonce
      /\ c.job = job /\ c.count = r.count
  BY <1>2, <1>5 DEF Command, Commands, Tasks
<1>7. /\ toServer' \in Seq(Commands)
      /\ \A i \in Queue : i \in Queue' /\ toServer'[i] = toServer[i]
      /\ \A i \in Queue' : i \in Queue \/ i = Len(toServer) + 1
      /\ toServer'[Len(toServer) + 1] = c
      /\ \A i \in Queue : toServer[i] \in Commands
  BY <1>1, <1>6, Sent
<1> HIDE DEF c
<1>8. /\ actual[job] = task.moved
      /\ \A i \in Queue : IsMove(i) => toServer[i].job # job
      /\ receipt.nonce = task.nonce => ~receipt.completed
      /\ NoPrepareQueued
      /\ receipt # NoReceipt => receipt.nonce = task.nonce
      /\ \A q \in toClient : Reported(q) => q.type # "receipt"
  <2>1. Reported(r)
    BY <1>1 DEF Reported
  <2> QED
    BY <1>1, <1>2, <2>1, NothingDispatched DEF PrepareKnowledge
<1>9. TypeOK'
  <2>1. task' \in Tasks
    <3>1. task.actions + 1 \in 0..MaxActions
      BY <1>1, <1>2, TransferAssumption DEF TaskShape, Tasks
    <3> QED
      BY <1>1, <1>2, <1>5, <3>1 DEF Tasks
  <2> QED
    BY <1>1, <1>7, <2>1 DEF TypeOK, Phases
<1>10. TaskShape'
  BY <1>1, <1>3, <1>4 DEF TaskShape, Dispatched, Remaining
<1>11. JobHistory'
  BY <1>1 DEF JobHistory
<1>12. KnownNonces'
  <2>1. \A m \in Nonces : Known(m) => Known(m)'
    BY <1>1, <1>3 DEF Known
  <2>2. Known(task.nonce)
    BY <1>1, <1>2 DEF Known, TaskShape, TypeOK, Tasks, Nonces
  <2>3. \A i \in Queue' : Known(toServer[i].nonce)'
    <3> TAKE i \in Queue'
    <3>1. CASE i \in Queue
      <4>1. toServer'[i] = toServer[i] /\ Known(toServer[i].nonce)
        BY <1>7, <3>1 DEF KnownNonces
      <4> QED
        BY <1>1, <1>3, <4>1 DEF Known
    <3>2. CASE i = Len(toServer) + 1
      <4>1. toServer'[i].nonce = task.nonce
        BY <1>6, <1>7, <3>2
      <4> QED
        BY <1>1, <1>3, <2>2, <4>1 DEF Known
    <3> QED
      BY <1>7, <3>1, <3>2
  <2>4. /\ \A q \in toClient' : q.type = "unreadable" \/ Known(q.nonce)'
        /\ (receipt # NoReceipt => Known(receipt.nonce))'
    BY <1>1, <1>3 DEF KnownNonces, Known
  <2> QED
    BY <2>3, <2>4 DEF KnownNonces
<1>13. MovesInFlight'
  <2>1. ASSUME NEW i \in Queue, IsMove(i)
        PROVE  LET m == toServer[i] IN
                 /\ m.job <= job
                 /\ actual[m.job] + m.count <= requested[m.job]
                 /\ answer[m.job].unknown
                 /\ m.nonce # task.nonce
    BY <1>1, <1>2, <2>1 DEF MovesInFlight
  <2>2. actual[job] + c.count <= requested[job]
    BY <1>4, <1>6, <1>8 DEF Counts
  <2>3. ASSUME NEW i \in Queue', IsMove(i)'
        PROVE  LET m == toServer'[i] IN
                 /\ m.job <= job
                 /\ actual[m.job] + m.count <= requested[m.job]
                 /\ \/ answer[m.job].unknown /\ m.nonce # task.nonce
                    \/ m.job = job /\ m.nonce = task.nonce
    <3>1. CASE i \in Queue
      BY <1>7, <2>1, <2>3, <3>1 DEF IsMove
    <3>2. CASE i = Len(toServer) + 1
      BY <1>2, <1>6, <1>7, <2>2, <3>2 DEF Jobs
    <3> QED
      BY <1>7, <3>1, <3>2
  <2>4. ASSUME NEW i \in Queue', NEW k \in Queue', IsMove(i)', IsMove(k)', i # k
        PROVE  /\ toServer'[i].job # toServer'[k].job
               /\ toServer'[i].nonce # toServer'[k].nonce
    <3>1. \A e \in Queue : IsMove(e) => /\ toServer'[e].job # job
                                        /\ toServer'[e].nonce # task.nonce
      BY <1>7, <1>8, <2>1
    <3> QED
      BY <1>6, <1>7, <2>4, <3>1 DEF MovesInFlight, IsMove
  <2> QED
    BY <1>1, <1>3, <1>8, <2>3, <2>4 DEF MovesInFlight, IsMove, Dispatched
<1>14. QueueOrder'
  <2>1. NoPrepareQueued'
    BY <1>6, <1>7, <1>8 DEF NoPrepareQueued, IsPrepare
  <2> QED
    BY <1>1, <2>1 DEF QueueOrder, NoPrepareQueued
<1>15. SlotOwner'
  <2>1. ~receipt.completed
    BY <1>8 DEF NoReceipt
  <2> QED
    BY <1>1, <1>6, <1>7, <1>8, <2>1 DEF SlotOwner, IsMove
<1>16. PrepareKnowledge' /\ ReceiptKnowledge'
  BY <1>1, <1>2, <1>3, <1>8
     DEF PrepareKnowledge, ReceiptKnowledge, Reported, TypeOK, Tasks, Counts
<1>17. Answers'
  BY <1>1 DEF Answers, CertainAnswerIsExact, Answered
<1> QED
  BY <1>9, <1>10, <1>11, <1>12, <1>13, <1>14, <1>15, <1>16, <1>17

LEMMA HandlePreparePreserves ==
  ASSUME IInv, NEW r \in toClient, HandlePrepare(r)
  PROVE  IInv'
<1>1. CASE r.status = "ok" /\ r.count \in 1..Remaining(task)
  BY <1>1, DispatchPreserves
<1>2. CASE ~(r.status = "ok" /\ r.count \in 1..Remaining(task))
  BY <1>2, FailPreserves DEF HandlePrepare
<1> QED
  BY <1>1, <1>2

\* A completed receipt tells what the current action has moved.
LEMMA ReceiptTells ==
  ASSUME IInv, NEW r \in toClient, HandleReceipt(r),
         r.status = "ok", r.count \in 1..task.count
  PROVE  /\ job \in Jobs /\ task \in Tasks /\ Dispatched
         /\ task.moved + r.count = actual[job]
         /\ actual[job] \in Counts
         /\ \A i \in Queue : IsMove(i) => toServer[i].nonce # task.nonce
<1> USE DEF IInv
<1>1. /\ phase = "requested" /\ Dispatched
      /\ Reported(r) /\ r.type = "receipt"
  BY DEF HandleReceipt, Reported, Dispatched
<1>2. /\ job \in Jobs /\ task \in Tasks /\ actual[job] \in Counts
  BY <1>1 DEF TypeOK, TaskShape, Jobs
<1>3. ~MoveQueued /\ r.count = actual[job] - task.moved
  BY <1>1 DEF ReceiptKnowledge
<1> QED
  BY <1>1, <1>2, <1>3, TransferAssumption DEF MoveQueued, Tasks, Counts

\* The next action of the task is prepared.
LEMMA NextActionPreserves ==
  ASSUME IInv, NEW r \in toClient, HandleReceipt(r),
         r.status = "ok", r.count \in 1..task.count,
         NEW t, t = [task EXCEPT !.moved = task.moved + r.count],
         t.moved < requested[job], t.actions < MaxActions,
         Prepare(t, job, Remaining(t)),
         UNCHANGED <<answer, nextId, helper, receipt, toClient, job, requested, actual>>
  PROVE  IInv'
<1> USE DEF IInv
<1> DEFINE nn == [id |-> task.id, action |-> task.actions + 1]
           c == Command("prepare", nn, Remaining(t), job)
<1>1. /\ job \in Jobs /\ task \in Tasks /\ Dispatched
      /\ task.moved + r.count = actual[job]
      /\ actual[job] \in Counts
      /\ \A i \in Queue : IsMove(i) => toServer[i].nonce # task.nonce
  BY ReceiptTells
<1>2. /\ t \in Tasks /\ t.id = task.id /\ t.actions = task.actions
      /\ t.moved = actual[job] /\ NextNonce(t) = nn
  BY <1>1 DEF Tasks, NextNonce
<1>3. /\ nn \in Nonces /\ nn.id = task.id /\ nn.action = task.actions + 1
      /\ task.actions \in Nat /\ task.id \in Nat
  BY <1>1, TransferAssumption DEF Nonces, Tasks
<1>4. /\ task' = [t EXCEPT !.nonce = nn, !.count = 0]
      /\ phase' = "preparing" /\ polls' = 0
      /\ toServer' = Append(toServer, c)
  BY <1>2, Zenon DEF Prepare
<1>5. /\ task'.id = task.id /\ task'.moved = actual[job] /\ task'.nonce = nn
      /\ task'.actions = task.actions /\ task' \in Tasks
  <2> HIDE DEF nn, c
  <2>1. 0 \in Counts
    BY TransferAssumption DEF Counts
  <2>2. task' \in Tasks
    BY <1>2, <1>3, <1>4, <2>1 DEF Tasks
  <2> QED
    BY <1>2, <1>3, <1>4, <2>2 DEF Tasks
<1>6. c \in Commands /\ c.type = "prepare" /\ c.nonce = nn
  <2>1. requested[job] \in Nat /\ requested[job] <= MaxRequest /\ t.moved \in Nat
    BY <1>1, <1>2, TransferAssumption DEF TypeOK, Counts
  <2>2. Remaining(t) \in Counts
    BY <2>1, TransferAssumption DEF Remaining, Counts
  <2> QED
    BY <1>1, <1>3, <2>2 DEF Command, Commands
<1>7. /\ toServer' \in Seq(Commands)
      /\ \A i \in Queue : i \in Queue' /\ i <= Len(toServer) /\ toServer'[i] = toServer[i]
      /\ Queue' = 1..(Len(toServer) + 1)
      /\ \A i \in Queue' : i \in Queue \/ i = Len(toServer) + 1
      /\ toServer'[Len(toServer) + 1] = c
      /\ Len(toServer') = Len(toServer) + 1
      /\ Len(toServer) \in Nat
      /\ \A i \in Queue : toServer[i] \in Commands
  BY <1>4, <1>6, Sent
<1>8. /\ task.nonce.id = task.id /\ task.nonce.action = task.actions
      /\ task.id >= 1 /\ task.id = nextId - 1 /\ nextId \in Nat
      /\ phase # "idle"
  BY <1>1 DEF TaskShape, TypeOK, Dispatched
<1>9. /\ \A m \in Nonces : Known(m) => m # nn
      /\ \A m \in Nonces : Known(m) => Known(m)'
  <2>1. ASSUME NEW m \in Nonces, Known(m)
        PROVE  m # nn /\ Known(m)'
    <3>1. /\ m.id \in Nat /\ m.action \in Nat /\ m.id >= 1 /\ m.id < nextId
          /\ m.id = task.id => m.action <= task.actions
      BY <1>8, <2>1 DEF Known, Nonces
    <3> QED
      BY <1>3, <1>5, <3>1 DEF Known
  <2> QED
    BY <2>1
<1>10. /\ \A i \in Queue : toServer[i].nonce \in Nonces /\ Known(toServer[i].nonce)
       /\ \A q \in toClient : q.nonce \in Nonces /\ (q.type = "unreadable" \/ Known(q.nonce))
       /\ receipt.nonce \in Nonces /\ (receipt # NoReceipt => Known(receipt.nonce))
  BY <1>7 DEF KnownNonces, TypeOK, Commands, Replies, Receipts
<1>11. receipt.nonce # nn
  BY <1>3, <1>8, <1>9, <1>10 DEF NoReceipt, NoNonce
<1> HIDE DEF nn, c
<1>12. TypeOK'
  BY <1>4, <1>5, <1>7, TransferAssumption DEF TypeOK, Phases
<1>13. TaskShape'
  BY <1>2, <1>3, <1>4, <1>5, <1>8 DEF TaskShape, Dispatched
<1>14. JobHistory'
  BY <1>4, <1>8 DEF JobHistory
<1>15. KnownNonces'
  <2>1. nn.id >= 1 /\ nn.id < nextId' /\ nn.action <= task'.nonce.action
    BY <1>3, <1>5, <1>8
  <2>2. \A i \in Queue' : Known(toServer[i].nonce)'
    <3> TAKE i \in Queue'
    <3>1. CASE i \in Queue
      <4>1. toServer'[i] = toServer[i] /\ Known(toServer[i].nonce)'
        BY <1>7, <1>9, <1>10, <3>1 DEF Known
      <4> QED
        BY <4>1
    <3>2. CASE i = Len(toServer) + 1
      <4>1. toServer'[i].nonce = nn
        BY <1>6, <1>7, <3>2
      <4> QED
        BY <1>5, <2>1, <4>1 DEF Known
    <3> QED
      BY <1>7, <3>1, <3>2
  <2>3. \A q \in toClient' : q.type = "unreadable" \/ Known(q.nonce)'
    BY <1>9, <1>10
  <2>4. (receipt # NoReceipt => Known(receipt.nonce))'
    BY <1>9, <1>10 DEF Known
  <2> QED
    BY <2>2, <2>3, <2>4 DEF KnownNonces
<1>16. \A i \in Queue' : IsMove(i)' => i \in Queue /\ IsMove(i) /\ toServer'[i] = toServer[i]
  BY <1>6, <1>7 DEF IsMove
<1>17. MovesInFlight'
  <2>1. ASSUME NEW i \in Queue, IsMove(i)
        PROVE  LET m == toServer[i] IN
                 /\ m.job <= job
                 /\ actual[m.job] + m.count <= requested[m.job]
                 /\ answer[m.job].unknown
                 /\ m.nonce # nn
    BY <1>1, <1>9, <1>10, <2>1 DEF MovesInFlight
  <2>2. ASSUME NEW i \in Queue', NEW k \in Queue', IsMove(i)', IsMove(k)', i # k
        PROVE  /\ toServer'[i].job # toServer'[k].job
               /\ toServer'[i].nonce # toServer'[k].nonce
    BY <1>16, <2>2 DEF MovesInFlight
  <2> QED
    BY <1>5, <1>16, <2>1, <2>2 DEF MovesInFlight, IsMove
<1>18. QueueOrder'
  <2>1. NoPrepareQueued
    BY <1>1 DEF QueueOrder
  <2>2. \A i \in Queue' : IsPrepare(i)' => i = Len(toServer) + 1
    BY <1>7, <2>1 DEF NoPrepareQueued, IsPrepare
  <2>3. \A i, k \in Queue' : IsPrepare(i)' /\ i < k => ~IsMove(k)'
    BY <1>7, <2>2
  <2> QED
    BY <1>4, <1>7, <2>2, <2>3 DEF QueueOrder, Dispatched, IsPrepare
<1>19. SlotOwner'
  BY <1>16 DEF SlotOwner
<1>20. PrepareKnowledge' /\ ReceiptKnowledge'
  <2>1. \A q \in toClient' : Reported(q)' => q.type = "unreadable"
    BY <1>5, <1>9, <1>10 DEF Reported
  <2> QED
    BY <1>4, <1>5, <1>11, <2>1 DEF PrepareKnowledge, ReceiptKnowledge, Dispatched, Reported
<1>21. Answers'
  BY DEF Answers, CertainAnswerIsExact, Answered
<1> QED
  BY <1>12, <1>13, <1>14, <1>15, <1>17, <1>18, <1>19, <1>20, <1>21

LEMMA HandleReceiptPreserves ==
  ASSUME IInv, NEW r \in toClient, HandleReceipt(r)
  PROVE  IInv'
<1> DEFINE t == [task EXCEPT !.moved = task.moved + r.count]
<1>1. CASE r.status = "pending"
  <2>1. Retry
    BY <1>1 DEF HandleReceipt, Retry, historyVars
  <2> QED
    BY <2>1, RetryPreserves
<1>2. CASE r.status = "ok" /\ r.count \in 1..task.count
  <2>1. /\ job \in Jobs /\ task \in Tasks /\ Dispatched
        /\ task.moved + r.count = actual[job]
        /\ actual[job] \in Counts
        /\ \A i \in Queue : IsMove(i) => toServer[i].nonce # task.nonce
    BY <1>2, ReceiptTells
  <2>2. t \in Tasks /\ t.moved = actual[job]
    BY <2>1 DEF Tasks
  <2>3. phase # "idle" /\ UNCHANGED <<nextId, helper, receipt, toClient, job, requested, actual>>
    BY DEF HandleReceipt
  <2>4. Continue(t)
    BY <1>2 DEF HandleReceipt
  <2>5. CASE Finish(Result(t, FALSE)) /\ UNCHANGED toServer
    <3>1. \A i \in Queue : IsMove(i) => toServer[i].job # job
      BY <2>1, <2>3 DEF IInv, MovesInFlight, TaskShape, Promise!Open
    <3>2. /\ Result(t, FALSE) \in Promise!Answer
          /\ Result(t, FALSE).unknown = FALSE
          /\ Result(t, FALSE).confirmed = actual[job]
      BY <2>2, <2>3, ResultInAnswer
    <3>3. actual[job] <= actual[job]
      BY <2>1, TransferAssumption DEF Counts
    <3> DEFINE a == Result(t, FALSE)
    <3> HIDE DEF a
    <3>4. /\ a \in Promise!Answer /\ a.unknown = FALSE /\ a.confirmed = actual[job]
          /\ Finish(a)
      BY <2>5, <3>2 DEF a
    <3> QED
      BY <2>3, <2>5, <3>1, <3>3, <3>4, ClosePreserves
  <2>6. CASE /\ t.moved < requested[job] /\ t.actions < MaxActions
             /\ Prepare(t, job, Remaining(t))
             /\ UNCHANGED answer
    <3> HIDE DEF t
    <3> QED
      BY <1>2, <2>3, <2>6, NextActionPreserves DEF t
  <2> QED
    BY <2>4, <2>5, <2>6 DEF Continue
<1>3. CASE r.status # "pending" /\ ~(r.status = "ok" /\ r.count \in 1..task.count)
  BY <1>3, FailPreserves DEF HandleReceipt
<1> QED
  BY <1>1, <1>2, <1>3

-----------------------------------------------------------------------------
(* The helper and the engine *)

\* The server takes the head c of the queue: what the client knows is untouched,
\* and so is everything that is said of the rest of the queue.
LEMMA Taken ==
  ASSUME IInv, NEW type, Take(type), UNCHANGED <<clientVars, job, requested, answer>>
  PROVE  /\ Head(toServer) \in Commands /\ Head(toServer).type = type
         /\ Head(toServer) = toServer[1] /\ 1 \in Queue
         /\ Known(Head(toServer).nonce)
         /\ Head(toServer).nonce \in Nonces
         /\ toServer' \in Seq(Commands)
         /\ \A i \in Queue' : /\ i \in Nat \ {0} /\ i < Len(toServer)
                              /\ i + 1 \in Queue /\ toServer'[i] = toServer[i + 1]
         /\ TaskShape' /\ QueueOrder'
         /\ \A m \in Nonces : Known(m) => Known(m)'
         /\ \A i \in Queue' : Known(toServer[i].nonce)'
         /\ Len(toServer) \in Nat
<1> USE DEF IInv
<1>1. /\ UNCHANGED <<phase, task, nextId, polls, job, requested, answer>>
      /\ toServer # <<>> /\ toServer' = Tail(toServer)
      /\ Head(toServer).type = type
  BY DEF Take, clientVars
<1>2. /\ Head(toServer) \in Commands
      /\ Head(toServer) = toServer[1] /\ 1 \in Queue
      /\ toServer' \in Seq(Commands)
      /\ Len(toServer') = Len(toServer) - 1
      /\ Len(toServer) \in Nat
      /\ \A i \in Queue' : /\ i \in 1..(Len(toServer) - 1)
                           /\ i + 1 \in Queue /\ toServer'[i] = toServer[i + 1]
  BY <1>1, QueueTail, QueueIsSeq DEF Queue, TypeOK
<1>3. /\ Known(Head(toServer).nonce)
      /\ Head(toServer).nonce \in Nonces
  BY <1>2 DEF KnownNonces, Commands
<1>4. TaskShape'
  BY <1>1 DEF TaskShape, Dispatched, Remaining
<1>5. QueueOrder'
  <2>1. ASSUME NEW i \in Queue', NEW k \in Queue', IsPrepare(i)', i < k
        PROVE  ~IsMove(k)'
    <3>1. i + 1 \in Queue /\ k + 1 \in Queue /\ i + 1 < k + 1
      BY <1>2, <2>1
    <3>2. IsPrepare(i + 1)
      BY <1>2, <2>1 DEF IsPrepare
    <3>3. ~IsMove(k + 1)
      BY <3>1, <3>2 DEF QueueOrder
    <3> QED
      BY <1>2, <3>3 DEF IsMove
  <2>2. ASSUME phase' = "preparing", NEW i \in Queue', IsPrepare(i)',
               toServer'[i].nonce = task'.nonce
        PROVE  i = Len(toServer')
    <3>1. i + 1 \in Queue /\ IsPrepare(i + 1) /\ toServer[i + 1].nonce = task.nonce
      BY <1>1, <1>2, <2>2 DEF IsPrepare
    <3>2. i + 1 = Len(toServer)
      BY <1>1, <2>2, <3>1 DEF QueueOrder
    <3> QED
      BY <1>2, <3>2
  <2>3. Dispatched' => NoPrepareQueued'
    BY <1>1, <1>2 DEF QueueOrder, Dispatched, NoPrepareQueued, IsPrepare
  <2> QED
    BY <2>1, <2>2, <2>3 DEF QueueOrder
<1>6. \A m \in Nonces : Known(m) => Known(m)'
  BY <1>1 DEF Known
<1>7. \A i \in Queue' : Known(toServer[i].nonce)'
  <2> TAKE i \in Queue'
  <2>1. Known(toServer[i + 1].nonce) /\ toServer'[i] = toServer[i + 1]
    BY <1>2 DEF KnownNonces
  <2> QED
    BY <1>1, <2>1 DEF Known
<1> QED
  BY <1>1, <1>2, <1>3, <1>4, <1>5, <1>6, <1>7

\* If nothing moved, the history and the moves in flight are as before.
LEMMA TakenUnmoved ==
  ASSUME IInv, NEW type, Take(type), UNCHANGED <<clientVars, historyVars>>
  PROVE  JobHistory' /\ MovesInFlight' /\ Answers'
<1> USE DEF IInv
<1>1. UNCHANGED <<phase, task, nextId, job, requested, actual, answer>>
  BY DEF clientVars, historyVars
<1>2. \A i \in Queue' : i \in Nat /\ i + 1 \in Queue /\ toServer'[i] = toServer[i + 1]
  BY Taken DEF historyVars
<1>3. JobHistory' /\ Answers'
  BY <1>1 DEF JobHistory, Answers, CertainAnswerIsExact, Answered
<1>4. ASSUME NEW i \in Queue', IsMove(i)'
      PROVE  LET m == toServer'[i] IN
               /\ m.job <= job
               /\ actual[m.job] + m.count <= requested[m.job]
               /\ \/ /\ answer[m.job].unknown
                     /\ phase # "idle" => m.nonce # task.nonce
                  \/ /\ m.job = job /\ Dispatched
                     /\ m.nonce = task.nonce
                     /\ actual[job] = task.moved
  BY <1>2, <1>4 DEF MovesInFlight, IsMove
<1>5. ASSUME NEW i \in Queue', NEW k \in Queue', IsMove(i)', IsMove(k)', i # k
      PROVE  /\ toServer'[i].job # toServer'[k].job
             /\ toServer'[i].nonce # toServer'[k].nonce
  <2>1. i + 1 # k + 1
    BY <1>2, <1>5
  <2> QED
    BY <1>2, <1>5, <2>1 DEF MovesInFlight, IsMove
<1> QED
  BY <1>1, <1>3, <1>4, <1>5 DEF MovesInFlight, IsMove, Dispatched

\* A reply that reports nothing: nothing new is known to the client, and the
\* slot may have been cleared.
LEMMA QuietPreserves ==
  ASSUME IInv, NEW type, Take(type),
         NEW r \in Replies,
         r.status # "ok",
         r.type = "unreadable" \/ r.nonce = Head(toServer).nonce,
         toClient' = toClient \/ toClient' = toClient \cup {r},
         receipt' = receipt \/ receipt' = NoReceipt,
         UNCHANGED <<clientVars, helper, historyVars>>
  PROVE  IInv'
<1> USE DEF IInv
<1>1. UNCHANGED <<phase, task, nextId, polls, helper, job, requested, actual, answer>>
  BY DEF clientVars, historyVars
<1>2. /\ \A i \in Queue' : i \in Nat /\ i + 1 \in Queue /\ toServer'[i] = toServer[i + 1]
      /\ toServer' \in Seq(Commands)
      /\ TaskShape' /\ QueueOrder'
      /\ \A m \in Nonces : Known(m) => Known(m)'
      /\ \A i \in Queue' : Known(toServer[i].nonce)'
      /\ Known(Head(toServer).nonce)
      /\ Head(toServer).nonce \in Nonces
  BY <1>1, Taken
<1>3. JobHistory' /\ MovesInFlight' /\ Answers'
  BY TakenUnmoved
<1>4. TypeOK'
  <2>1. NoReceipt \in Receipts
    BY TransferAssumption DEF Receipts, NoReceipt, NoNonce, Nonces, Counts
  <2>2. receipt' \in Receipts /\ toClient' \subseteq Replies
    BY <2>1 DEF TypeOK
  <2> QED
    BY <1>1, <1>2, <2>2 DEF TypeOK
<1>5. KnownNonces'
  <2>1. \A q \in toClient' : q.type = "unreadable" \/ Known(q.nonce)'
    BY <1>2 DEF KnownNonces, TypeOK, Replies
  <2>2. (receipt # NoReceipt => Known(receipt.nonce))'
    <3>1. receipt' # NoReceipt => receipt' = receipt /\ Known(receipt.nonce)
                                  /\ receipt.nonce \in Nonces
      BY DEF KnownNonces, TypeOK, Receipts
    <3> QED
      BY <1>1, <3>1 DEF Known
  <2> QED
    BY <1>2, <2>1, <2>2 DEF KnownNonces
<1>6. SlotOwner'
  BY <1>2 DEF SlotOwner, IsMove, NoReceipt
<1>7. /\ NoPrepareQueued => NoPrepareQueued'
      /\ ~MoveQueued => ~MoveQueued'
      /\ \A q \in toClient' : Reported(q)' => q \in toClient /\ Reported(q)
      /\ receipt'.completed => receipt' = receipt
      /\ receipt' # NoReceipt => receipt' = receipt
  BY <1>1, <1>2 DEF NoPrepareQueued, MoveQueued, IsMove, IsPrepare, Reported, NoReceipt
<1>8. PrepareKnowledge'
  BY <1>1, <1>7 DEF PrepareKnowledge
<1>9. ReceiptKnowledge'
  BY <1>1, <1>7 DEF ReceiptKnowledge, Dispatched
<1> QED
  BY <1>2, <1>3, <1>4, <1>5, <1>6, <1>8, <1>9

LEMMA UnreadableIsQuiet ==
  Unreadable \in Replies /\ Unreadable.status # "ok" /\ Unreadable.type = "unreadable"
  BY TransferAssumption DEF Unreadable, Replies, NoNonce, Nonces, Counts

\* Whatever is sent without the word `ok' is quiet.
LEMMA QuietReply ==
  ASSUME IInv, NEW type, Take(type),
         NEW ty \in {"prepare", "receipt"}, NEW st \in {"pending", "failed"},
         Send([type |-> ty, nonce |-> Head(toServer).nonce, status |-> st, count |-> 0]),
         UNCHANGED <<clientVars, helper, receipt, historyVars>>
  PROVE  IInv'
<1> DEFINE r == [type |-> ty, nonce |-> Head(toServer).nonce, status |-> st, count |-> 0]
<1>1. Head(toServer) \in Commands
  BY Taken DEF historyVars
<1>2. 0 \in Counts
  BY TransferAssumption DEF Counts
<1>3. /\ Unreadable \in Replies /\ Unreadable.status # "ok" /\ Unreadable.type = "unreadable"
      /\ r \in Replies /\ r.status # "ok" /\ r.nonce = Head(toServer).nonce
  BY <1>1, <1>2, UnreadableIsQuiet DEF Replies, Commands
<1>4. toClient' = toClient \cup {r} \/ toClient' = toClient \cup {Unreadable}
  BY DEF Send
<1> HIDE DEF r
<1>5. CASE toClient' = toClient \cup {r}
  BY <1>3, <1>5, QuietPreserves
<1>6. CASE toClient' = toClient \cup {Unreadable}
  BY <1>3, <1>6, QuietPreserves
<1> QED
  BY <1>4, <1>5, <1>6

LEMMA ServerCancelPreserves == IInv /\ ServerCancel => IInv'
<1> SUFFICES ASSUME IInv, ServerCancel PROVE IInv'
  OBVIOUS
<1>1. Take("cancel") /\ UNCHANGED <<clientVars, helper, toClient, historyVars>>
      /\ (receipt' = receipt \/ receipt' = NoReceipt)
  BY DEF ServerCancel
<1> QED
  BY <1>1, UnreadableIsQuiet, QuietPreserves

LEMMA ServerUnsupportedPreserves == IInv /\ ServerUnsupported => IInv'
<1> SUFFICES ASSUME IInv, ServerUnsupported PROVE IInv'
  OBVIOUS
<1>1. PICK type : Take(type)
  BY DEF ServerUnsupported
<1>2. toClient' = toClient \cup {Unreadable}
      /\ UNCHANGED <<clientVars, helper, receipt, historyVars>>
  BY DEF ServerUnsupported, Send
<1> QED
  BY <1>1, <1>2, UnreadableIsQuiet, QuietPreserves

LEMMA ServerPreparePreserves == IInv /\ ServerPrepare => IInv'
<1> SUFFICES ASSUME IInv, ServerPrepare PROVE IInv'
  OBVIOUS
<1> USE DEF IInv
<1> DEFINE c == Head(toServer)
<1>1. Take("prepare") /\ UNCHANGED <<clientVars, helper, historyVars>>
  BY DEF ServerPrepare
<1>2. CASE Send([type |-> "prepare", nonce |-> c.nonce, status |-> "failed", count |-> 0])
           /\ UNCHANGED receipt
  BY <1>1, <1>2, QuietReply
<1>3. ASSUME receipt = NoReceipt, NEW count \in 1..c.count, Expect(c, count),
             Send([type |-> "prepare", nonce |-> c.nonce, status |-> "ok", count |-> count])
      PROVE  IInv'
  <2> DEFINE r == [type |-> "prepare", nonce |-> c.nonce, status |-> "ok", count |-> count]
  <2>1. UNCHANGED <<phase, task, nextId, polls, helper, job, requested, actual, answer>>
    BY <1>1 DEF clientVars, historyVars
  <2>2. /\ c \in Commands /\ c.type = "prepare" /\ c = toServer[1] /\ 1 \in Queue
        /\ Known(c.nonce) /\ c.nonce \in Nonces
        /\ toServer' \in Seq(Commands)
        /\ \A i \in Queue' : /\ i \in Nat \ {0} /\ i < Len(toServer)
                             /\ i + 1 \in Queue /\ toServer'[i] = toServer[i + 1]
        /\ TaskShape' /\ QueueOrder'
        /\ \A m \in Nonces : Known(m) => Known(m)'
        /\ \A i \in Queue' : Known(toServer[i].nonce)'
        /\ Len(toServer) \in Nat
    BY <1>1, <2>1, Taken
  <2>3. JobHistory' /\ MovesInFlight' /\ Answers'
    BY <1>1, TakenUnmoved
  <2>4. count \in Counts /\ count >= 1
    BY <2>2, TransferAssumption DEF Commands, Counts
  <2>5. receipt' = [nonce |-> c.nonce, count |-> count, moved |-> 0, completed |-> FALSE]
    BY <1>3 DEF Expect
  <2>6. /\ r \in Replies /\ r.type = "prepare" /\ r.nonce = c.nonce
        /\ \A q \in toClient' : q \in toClient \/ q = r \/ q = Unreadable
    BY <1>3, <2>2, <2>4 DEF Replies, Send
  <2> HIDE DEF r, c
  <2>7. /\ IsPrepare(1) /\ ~NoPrepareQueued /\ ~Dispatched
        /\ \A i \in Queue' : ~IsMove(i)'
        /\ phase = "preparing" /\ c.nonce = task.nonce => Queue' = {}
    <3>1. IsPrepare(1) /\ ~NoPrepareQueued
      BY <2>2 DEF IsPrepare, NoPrepareQueued
    <3>2. ~Dispatched
      BY <3>1 DEF QueueOrder
    <3>3. \A i \in Queue' : 1 < i + 1 /\ ~IsMove(i + 1)
      BY <2>2, <3>1 DEF QueueOrder
    <3>4. \A i \in Queue' : ~IsMove(i)'
      BY <2>2, <3>3 DEF IsMove
    <3>5. phase = "preparing" /\ c.nonce = task.nonce => Queue' = {}
      BY <2>2, <3>1 DEF QueueOrder
    <3> QED
      BY <3>1, <3>2, <3>4, <3>5
  <2>8. TypeOK'
    <3>1. receipt' \in Receipts
      BY <2>2, <2>4, <2>5, TransferAssumption DEF Receipts, Counts
    <3>2. toClient' \subseteq Replies
      BY <2>6, UnreadableIsQuiet DEF TypeOK
    <3> QED
      BY <2>1, <2>2, <3>1, <3>2 DEF TypeOK
  <2>9. KnownNonces'
    <3>1. Known(receipt.nonce)'
      BY <2>1, <2>2, <2>5 DEF Known
    <3>2. \A q \in toClient' : q.type = "unreadable" \/ Known(q.nonce)'
      <4> TAKE q \in toClient'
      <4>1. q.type = "unreadable" \/ (q.nonce \in Nonces /\ Known(q.nonce))
        BY <2>2, <2>6, UnreadableIsQuiet DEF KnownNonces, TypeOK, Replies
      <4> QED
        BY <2>2, <4>1
    <3> QED
      BY <2>2, <3>1, <3>2 DEF KnownNonces
  <2>10. SlotOwner'
    BY <2>5, <2>7 DEF SlotOwner
  <2>11. PrepareKnowledge' /\ ReceiptKnowledge'
    <3>1. ~Dispatched'
      BY <2>1, <2>7 DEF Dispatched
    <3>2. ASSUME phase = "preparing", NEW q \in toClient', Reported(q)'
          PROVE  /\ q.type # "receipt"
                 /\ q.type = "prepare" => NoPrepareQueued' /\ receipt'.nonce = task.nonce
      <4>1. CASE q \in toClient
        BY <2>1, <2>7, <3>2, <4>1 DEF PrepareKnowledge, Reported
      <4>2. CASE q = r
        BY <2>1, <2>5, <2>6, <2>7, <3>2, <4>2 DEF Reported, NoPrepareQueued
      <4>3. CASE q = Unreadable
        BY <4>3, UnreadableIsQuiet
      <4> QED
        BY <2>6, <4>1, <4>2, <4>3
    <3> QED
      BY <2>1, <2>5, <3>1, <3>2 DEF PrepareKnowledge, ReceiptKnowledge
  <2> QED
    BY <2>2, <2>3, <2>8, <2>9, <2>10, <2>11
<1> QED
  BY <1>2, <1>3 DEF ServerPrepare

LEMMA ServerReceiptPreserves == IInv /\ ServerReceipt => IInv'
<1> SUFFICES ASSUME IInv, ServerReceipt PROVE IInv'
  OBVIOUS
<1> USE DEF IInv
<1> DEFINE c == Head(toServer)
<1>1. Take("receipt") /\ UNCHANGED <<clientVars, helper, historyVars>>
  BY DEF ServerReceipt
<1>2. ASSUME NEW st \in {"pending", "failed"}, UNCHANGED receipt,
             Send([type |-> "receipt", nonce |-> c.nonce, status |-> st, count |-> 0])
      PROVE  IInv'
  BY <1>1, <1>2, QuietReply
<1>3. ASSUME receipt.nonce = c.nonce, receipt.completed, receipt' = NoReceipt,
             Send([type |-> "receipt", nonce |-> c.nonce, status |-> "ok", count |-> receipt.moved])
      PROVE  IInv'
  <2> DEFINE r == [type |-> "receipt", nonce |-> c.nonce, status |-> "ok", count |-> receipt.moved]
  <2>1. UNCHANGED <<phase, task, nextId, polls, helper, job, requested, actual, answer>>
    BY <1>1 DEF clientVars, historyVars
  <2>2. /\ c \in Commands /\ Known(c.nonce) /\ c.nonce \in Nonces
        /\ toServer' \in Seq(Commands)
        /\ \A i \in Queue' : i \in Nat /\ i + 1 \in Queue /\ toServer'[i] = toServer[i + 1]
        /\ TaskShape' /\ QueueOrder'
        /\ \A m \in Nonces : Known(m) => Known(m)'
        /\ \A i \in Queue' : Known(toServer[i].nonce)'
    BY <1>1, <2>1, Taken
  <2>3. JobHistory' /\ MovesInFlight' /\ Answers'
    BY <1>1, TakenUnmoved
  <2>4. /\ r \in Replies /\ r.type = "receipt" /\ r.nonce = c.nonce /\ r.count = receipt.moved
        /\ \A q \in toClient' : q \in toClient \/ q = r \/ q = Unreadable
    BY <1>3, <2>2 DEF Replies, Send, TypeOK, Receipts
  <2> HIDE DEF r, c
  <2>5. TypeOK'
    <3>1. receipt' \in Receipts
      BY <1>3, TransferAssumption DEF Receipts, NoReceipt, NoNonce, Nonces, Counts
    <3>2. toClient' \subseteq Replies
      BY <2>4, UnreadableIsQuiet DEF TypeOK
    <3> QED
      BY <2>1, <2>2, <3>1, <3>2 DEF TypeOK
  <2>6. KnownNonces'
    <3>1. \A q \in toClient' : q.type = "unreadable" \/ Known(q.nonce)'
      <4> TAKE q \in toClient'
      <4>1. q.type = "unreadable" \/ (q.nonce \in Nonces /\ Known(q.nonce))
        BY <2>2, <2>4, UnreadableIsQuiet DEF KnownNonces, TypeOK, Replies
      <4> QED
        BY <2>2, <4>1
    <3> QED
      BY <1>3, <2>2, <3>1 DEF KnownNonces
  <2>7. SlotOwner'
    BY <1>3 DEF SlotOwner, NoReceipt
  <2>8. /\ NoPrepareQueued => NoPrepareQueued'
        /\ ~MoveQueued => ~MoveQueued'
    BY <2>1, <2>2 DEF NoPrepareQueued, MoveQueued, IsMove, IsPrepare
  <2>9. PrepareKnowledge'
    <3>1. ASSUME phase = "preparing", NEW q \in toClient', Reported(q)'
          PROVE  /\ q.type # "receipt"
                 /\ q.type = "prepare" => NoPrepareQueued'
      <4>1. CASE q \in toClient
        BY <2>1, <2>8, <3>1, <4>1 DEF PrepareKnowledge, Reported
      <4>2. q # r
        BY <1>3, <2>1, <2>4, <3>1 DEF PrepareKnowledge, Reported
      <4>3. CASE q = Unreadable
        BY <4>3, UnreadableIsQuiet
      <4> QED
        BY <2>4, <4>1, <4>2, <4>3
    <3> QED
      BY <1>3, <2>1, <3>1 DEF PrepareKnowledge, NoReceipt
  <2>10. ReceiptKnowledge'
    <3>1. ASSUME Dispatched, NEW q \in toClient', Reported(q)', q.type = "receipt"
          PROVE  ~MoveQueued' /\ q.count = actual[job] - task.moved
      <4>1. CASE q \in toClient
        BY <2>1, <2>8, <3>1, <4>1 DEF ReceiptKnowledge, Reported
      <4>2. CASE q = r
        BY <1>3, <2>1, <2>4, <2>8, <3>1, <4>2 DEF ReceiptKnowledge, Reported
      <4>3. CASE q = Unreadable
        BY <3>1, <4>3, UnreadableIsQuiet
      <4> QED
        BY <2>4, <4>1, <4>2, <4>3
    <3> QED
      BY <1>3, <2>1, <3>1 DEF ReceiptKnowledge, Dispatched, NoReceipt
  <2> QED
    BY <2>2, <2>3, <2>5, <2>6, <2>7, <2>9, <2>10
<1> QED
  BY <1>2, <1>3 DEF ServerReceipt

LEMMA ServerMovePreserves == IInv /\ ServerMove => IInv'
<1> SUFFICES ASSUME IInv, ServerMove PROVE IInv'
  OBVIOUS
<1> USE DEF IInv
<1> DEFINE c == Head(toServer)
<1>1. Take("move") /\ UNCHANGED <<clientVars, helper, toClient, job, requested, answer>>
  BY DEF ServerMove
<1>2. PICK n \in 0..c.count :
        /\ actual' = [actual EXCEPT ![c.job] = actual[c.job] + n]
        /\ receipt' = IF n = 0 THEN receipt ELSE Credit(n)
  BY DEF ServerMove
<1>3. UNCHANGED <<phase, task, nextId, polls, helper, toClient, job, requested, answer>>
  BY <1>1 DEF clientVars
<1>4. /\ c \in Commands /\ c.type = "move" /\ c = toServer[1] /\ 1 \in Queue
      /\ toServer' \in Seq(Commands)
      /\ \A i \in Queue' : /\ i \in Nat \ {0}
                           /\ i + 1 \in Queue /\ toServer'[i] = toServer[i + 1]
      /\ TaskShape' /\ QueueOrder'
      /\ \A m \in Nonces : Known(m) => Known(m)'
      /\ \A i \in Queue' : Known(toServer[i].nonce)'
  BY <1>1, Taken
<1> HIDE DEF c
<1>5. IsMove(1)
  BY <1>4 DEF IsMove
<1>6. /\ c.job \in Jobs /\ c.job <= job
      /\ n \in Nat /\ n <= c.count
      /\ actual[c.job] \in Nat
      /\ actual[c.job] + n <= requested[c.job]
      /\ requested[c.job] \in Nat /\ requested[c.job] <= MaxRequest
      /\ \/ /\ answer[c.job].unknown
            /\ phase # "idle" => c.nonce # task.nonce
         \/ /\ c.job = job /\ Dispatched
            /\ c.nonce = task.nonce
            /\ actual[job] = task.moved
  <2>1. c.job \in Jobs /\ c.count \in Counts
    BY <1>4 DEF Commands
  <2>2. actual[c.job] \in Counts /\ requested[c.job] \in Counts
    BY <2>1 DEF TypeOK
  <2>3. /\ c.job <= job
        /\ actual[c.job] + c.count <= requested[c.job]
        /\ \/ /\ answer[c.job].unknown
              /\ phase # "idle" => c.nonce # task.nonce
           \/ /\ c.job = job /\ Dispatched
              /\ c.nonce = task.nonce
              /\ actual[job] = task.moved
    BY <1>4, <1>5 DEF MovesInFlight
  <2> QED
    BY <2>1, <2>2, <2>3, TransferAssumption DEF Counts
<1>7. \A j \in Jobs : /\ actual'[j] = IF j = c.job THEN actual[j] + n ELSE actual[j]
                      /\ actual[j] \in Nat
  BY <1>2, <1>6, TransferAssumption DEF TypeOK, Counts
<1>8. \A i \in Queue' : IsMove(i)' =>
        /\ i + 1 \in Queue /\ IsMove(i + 1) /\ toServer'[i] = toServer[i + 1]
        /\ toServer'[i].job \in Jobs /\ toServer'[i].job # c.job
        /\ toServer'[i].nonce # c.nonce
  <2> SUFFICES ASSUME NEW i \in Queue', IsMove(i)'
               PROVE  /\ i + 1 \in Queue /\ IsMove(i + 1) /\ toServer'[i] = toServer[i + 1]
                      /\ toServer'[i].job \in Jobs /\ toServer'[i].job # c.job
                      /\ toServer'[i].nonce # c.nonce
    OBVIOUS
  <2>1. i + 1 \in Queue /\ toServer'[i] = toServer[i + 1] /\ IsMove(i + 1) /\ i + 1 # 1
    BY <1>4 DEF IsMove
  <2>2. toServer[i + 1] \in Commands
    BY <2>1, QueueIsSeq DEF TypeOK, Queue
  <2>3. toServer[i + 1].job # c.job /\ toServer[i + 1].nonce # c.nonce
    BY <1>4, <1>5, <2>1 DEF MovesInFlight
  <2> QED
    BY <2>1, <2>2, <2>3 DEF Commands
<1>9. \* The receipt that is credited is the one of this very move.
      \/ receipt' = receipt
      \/ /\ receipt # NoReceipt /\ receipt.nonce = c.nonce /\ n >= 1
         /\ receipt.moved + n <= receipt.count
         /\ receipt' = [receipt EXCEPT !.moved = receipt.moved + n, !.completed = TRUE]
  BY <1>2, <1>4, <1>5, <1>6 DEF Credit, SlotOwner
<1>10. receipt \in Receipts /\ receipt' \in Receipts /\ receipt'.nonce = receipt.nonce
  <2>1. receipt \in Receipts
    BY DEF TypeOK
  <2>2. ASSUME receipt.moved + n <= receipt.count
        PROVE  receipt.moved + n \in Counts
    BY <1>6, <2>1, <2>2, TransferAssumption DEF Receipts, Counts
  <2> QED
    BY <1>9, <2>1, <2>2 DEF Receipts
<1>11. TypeOK'
  <2>1. actual' \in [Jobs -> Counts]
    <3>1. actual[c.job] + n \in Counts
      BY <1>6, TransferAssumption DEF Counts
    <3> QED
      BY <1>2, <3>1 DEF TypeOK
  <2> QED
    BY <1>3, <1>4, <1>10, <2>1 DEF TypeOK
<1>12. JobHistory'
  <2>1. \A j \in Jobs : j > job => j # c.job
    BY <1>6 DEF Jobs, TypeOK
  <2>2. \A j \in Jobs : j > job => answer[j] = Promise!Open /\ actual'[j] = 0
    BY <1>7, <2>1 DEF JobHistory
  <2>3. \A j \in Jobs : actual'[j] <= requested[j]
    BY <1>6, <1>7 DEF JobHistory
  <2> QED
    BY <1>3, <2>2, <2>3 DEF JobHistory
<1>13. KnownNonces'
  <2>1. \A q \in toClient' : q.type = "unreadable" \/ Known(q.nonce)'
    BY <1>3, <1>4 DEF KnownNonces, TypeOK, Replies
  <2>2. (receipt # NoReceipt => Known(receipt.nonce))'
    <3>1. receipt' # NoReceipt => receipt # NoReceipt
      BY <1>9
    <3>2. receipt' # NoReceipt => Known(receipt.nonce) /\ receipt.nonce \in Nonces
      BY <1>10, <3>1 DEF KnownNonces, Receipts
    <3> QED
      BY <1>3, <1>10, <3>2 DEF Known
  <2> QED
    BY <1>4, <2>1, <2>2 DEF KnownNonces
<1>14. MovesInFlight'
  <2>1. ASSUME NEW i \in Queue', IsMove(i)'
        PROVE  LET m == toServer'[i] IN
                 /\ m.job <= job
                 /\ actual'[m.job] + m.count <= requested[m.job]
                 /\ \/ /\ answer[m.job].unknown
                       /\ phase # "idle" => m.nonce # task.nonce
                    \/ /\ m.job = job /\ Dispatched
                       /\ m.nonce = task.nonce
                       /\ actual'[job] = task.moved
    <3>1. /\ i + 1 \in Queue /\ IsMove(i + 1) /\ toServer'[i] = toServer[i + 1]
          /\ actual'[toServer'[i].job] = actual[toServer'[i].job]
      BY <1>7, <1>8, <2>1
    <3> QED
      BY <3>1 DEF MovesInFlight
  <2>2. ASSUME NEW i \in Queue', NEW k \in Queue', IsMove(i)', IsMove(k)', i # k
        PROVE  /\ toServer'[i].job # toServer'[k].job
               /\ toServer'[i].nonce # toServer'[k].nonce
    <3>1. i + 1 # k + 1
      BY <1>4, <2>2
    <3> QED
      BY <1>8, <2>2, <3>1 DEF MovesInFlight
  <2> QED
    BY <1>3, <2>1, <2>2 DEF MovesInFlight, IsMove, Dispatched
<1>15. SlotOwner'
  <2>1. receipt'.completed <=> receipt'.moved >= 1
    <3>1. CASE receipt' = receipt
      BY <3>1 DEF SlotOwner
    <3>2. CASE receipt' # receipt
      <4> DEFINE p == receipt.moved + n
      <4>1. receipt.moved \in Nat
        BY <1>10, TransferAssumption DEF Receipts, Counts
      <4> HIDE DEF p
      <4>2. receipt' = [receipt EXCEPT !.moved = p, !.completed = TRUE]
        BY <1>9, <3>2 DEF p
      <4>3. receipt'.moved = p
        BY <1>10, <4>2 DEF Receipts
      <4>4. receipt'.completed
        BY <1>10, <4>2, Zenon DEF Receipts
      <4>5. p >= 1
        BY <1>6, <1>9, <3>2, <4>1 DEF p
      <4> QED
        BY <4>3, <4>4, <4>5
    <3> QED
      BY <3>1, <3>2
  <2>2. receipt' # NoReceipt => \A i \in Queue' : IsMove(i)' => toServer'[i].nonce = receipt'.nonce
    BY <1>8, <1>9, <1>10 DEF SlotOwner
  <2>3. receipt'.completed => \A i \in Queue' : ~IsMove(i)'
    <3>1. CASE receipt' = receipt
      BY <1>4, <1>5, <3>1 DEF SlotOwner
    <3>2. CASE receipt' # receipt
      BY <1>8, <1>9, <3>2 DEF SlotOwner
    <3> QED
      BY <3>1, <3>2
  <2> QED
    BY <2>1, <2>2, <2>3 DEF SlotOwner, IsMove
<1>16. /\ NoPrepareQueued => NoPrepareQueued'
       /\ ~MoveQueued => ~MoveQueued'
       /\ \A q \in toClient' : Reported(q)' => q \in toClient /\ Reported(q)
  BY <1>3, <1>4 DEF NoPrepareQueued, MoveQueued, IsMove, IsPrepare, Reported
<1>17. ASSUME phase # "idle", c.nonce # task.nonce
       PROVE  /\ actual'[job] = actual[job]
              /\ receipt.nonce = task.nonce => receipt' = receipt
  <2>1. answer[c.job].unknown /\ ~answer[job].unknown
    BY <1>6, <1>17 DEF TaskShape, Promise!Open
  <2>2. c.job # job /\ job \in Jobs
    BY <1>6, <1>17, <2>1 DEF TaskShape, TypeOK, Jobs
  <2> QED
    BY <1>7, <1>9, <1>17, <2>2
<1>18. PrepareKnowledge'
  <2> SUFFICES ASSUME phase = "preparing" PROVE PrepareKnowledge'
    BY <1>3 DEF PrepareKnowledge
  <2>1. c.nonce # task.nonce
    BY <1>6 DEF Dispatched
  <2> QED
    BY <1>3, <1>9, <1>10, <1>16, <1>17, <2>1 DEF PrepareKnowledge
<1>19. ReceiptKnowledge'
  <2> SUFFICES ASSUME Dispatched PROVE ReceiptKnowledge'
    BY <1>3 DEF ReceiptKnowledge, Dispatched
  <2>1. CASE c.nonce # task.nonce
    BY <1>3, <1>9, <1>10, <1>16, <1>17, <2>1 DEF ReceiptKnowledge, Dispatched
  <2>2. CASE c.nonce = task.nonce
    <3>1. c.job = job /\ actual[job] = task.moved /\ actual'[job] = task.moved + n
          /\ task.moved \in Nat
      BY <1>6, <1>7, <2>2 DEF Dispatched
    <3>2. MoveQueued
      BY <1>4, <1>5, <2>2 DEF MoveQueued
    <3>3. ~MoveQueued'
      <4> SUFFICES ASSUME NEW i \in Queue', IsMove(i)', toServer'[i].nonce = task.nonce
                   PROVE  FALSE
        BY <1>3 DEF MoveQueued
      <4>1. toServer'[i].job # job
        BY <1>8, <3>1
      <4> QED
        BY <1>8, <4>1 DEF MovesInFlight, Dispatched
    <3>4. receipt.nonce = task.nonce => ~receipt.completed /\ receipt.moved = 0
      BY <1>10, <3>2 DEF ReceiptKnowledge, SlotOwner, Receipts, Counts
    <3>5. receipt'.nonce = task.nonce /\ receipt'.completed => receipt'.moved = n
      <4>1. CASE receipt' = receipt
        BY <3>4, <4>1
      <4>2. CASE receipt' # receipt
        <5>1. receipt'.moved = receipt.moved + n /\ receipt'.nonce = receipt.nonce
          BY <1>9, <1>10, <4>2 DEF Receipts
        <5> QED
          BY <1>6, <3>4, <5>1
      <4> QED
        BY <4>1, <4>2
    <3>6. \A q \in toClient : ~(Reported(q) /\ q.type = "receipt")
      BY <3>2 DEF ReceiptKnowledge
    <3> QED
      BY <1>3, <1>6, <1>16, <3>1, <3>3, <3>5, <3>6 DEF ReceiptKnowledge
  <2> QED
    BY <2>1, <2>2
<1>20. Answers'
  <2> SUFFICES ASSUME NEW j \in Jobs, Answered(j)
               PROVE  /\ ~answer[j].unknown => answer[j].confirmed = actual'[j]
                      /\ answer[j].confirmed <= actual'[j]
    BY <1>3 DEF Answers, CertainAnswerIsExact, Answered
  <2>1. /\ ~answer[j].unknown => answer[j].confirmed = actual[j]
        /\ answer[j].confirmed <= actual[j]
    BY DEF Answers, CertainAnswerIsExact
  <2>2. j = c.job => answer[j].unknown
    <3>1. answer[j] # Promise!Open
      BY DEF Answered
    <3>2. Dispatched => answer[job] = Promise!Open
      BY DEF TaskShape, Dispatched
    <3> QED
      BY <1>6, <3>1, <3>2
  <2>3. answer[j].confirmed \in Nat
    BY TransferAssumption DEF Answered, TypeOK, Promise!Answer
  <2> QED
    BY <1>6, <1>7, <2>1, <2>2, <2>3
<1> QED
  BY <1>4, <1>11, <1>12, <1>13, <1>14, <1>15, <1>18, <1>19, <1>20

-----------------------------------------------------------------------------
(* The theorems *)

LEMMA NextPreserves == IInv /\ [Next]_vars => IInv'
<1> SUFFICES ASSUME IInv, [Next]_vars PROVE IInv'
  OBVIOUS
<1>1. ASSUME NEW n \in 1..MaxRequest, Start(n) PROVE IInv'
  BY <1>1, StartPreserves
<1>2. ASSUME NEW r \in toClient, HandlePrepare(r) \/ HandleReceipt(r) \/ HandleUnreadable(r)
      PROVE  IInv'
  BY <1>2, HandlePreparePreserves, HandleReceiptPreserves, UnreadablePreserves
<1>3. CASE Poll \/ Retry \/ Timeout \/ Stop \/ Restart
  BY <1>3, PollPreserves, RetryPreserves, TimeoutPreserves, StopPreserves, RestartPreserves
<1>4. CASE Server
  BY <1>4, ServerPreparePreserves, ServerMovePreserves, ServerReceiptPreserves,
     ServerCancelPreserves, ServerUnsupportedPreserves, ReceiptExpiresPreserves DEF Server
<1>5. CASE UNCHANGED vars
  BY <1>5, StutterPreserves
<1> QED
  BY <1>1, <1>2, <1>3, <1>4, <1>5 DEF Next, Client

\* The inductive invariant holds in every reachable state of the protocol:
\* the task state machine of inventory.rs against the receipts of init.lua.
THEOREM Invariance == Spec => []IInv
<1>1. Init => IInv
  BY InitEstablishes
<1>2. IInv /\ [Next]_vars => IInv'
  BY NextPreserves
<1> QED
  BY <1>1, <1>2, PTL DEF Spec

\* Type correctness of the task, the receipt and both channels.
THEOREM TypeCorrect == Spec => []TypeOK
<1>1. IInv => TypeOK
  BY DEF IInv
<1> QED
  BY <1>1, Invariance, PTL

\* An answer without `outcome_unknown' is exact, and stays so.
THEOREM CertainAnswersAreExact == Spec => []CertainAnswerIsExact
<1>1. IInv => CertainAnswerIsExact
  BY DEF IInv, Answers
<1> QED
  BY <1>1, Invariance, PTL

\* What the bot has confirmed has really moved.
THEOREM NothingInvented == Spec => []ConfirmedNeverExceedsActual
<1>1. IInv => ConfirmedNeverExceedsActual
  <2> SUFFICES ASSUME IInv, phase # "idle" PROVE task.moved <= actual[job]
    BY DEF IInv, Answers, ConfirmedNeverExceedsActual
  <2>1. CASE Dispatched
    BY <2>1 DEF IInv, ReceiptKnowledge
  <2>2. CASE ~Dispatched
    BY <2>2, NothingDispatched DEF IInv, TypeOK, TaskShape, Jobs, Counts
  <2> QED
    BY <2>1, <2>2
<1> QED
  BY <1>1, Invariance, PTL

\* However many actions, polls, timeouts and restarts there are, no request
\* moves more items than it asked for.
THEOREM NeverTooMuch == Spec => []NeverMovesTooMuch
<1>1. IInv => NeverMovesTooMuch
  BY DEF IInv, JobHistory, NeverMovesTooMuch
<1> QED
  BY <1>1, Invariance, PTL

\* The packet of a move carries no nonce, and yet its callback is booked on the
\* receipt that was armed for it, which no other callback has touched.
THEOREM CallbacksAreAttributed == Spec => []CallbackMeetsItsReceipt
<1>1. IInv => CallbackMeetsItsReceipt
  <2> SUFFICES ASSUME IInv, toServer # <<>>, Head(toServer).type = "move", receipt # NoReceipt
               PROVE  receipt.nonce = Head(toServer).nonce /\ receipt.moved = 0
    BY DEF CallbackMeetsItsReceipt
  <2>1. 1 \in Queue /\ Head(toServer) = toServer[1]
    BY QueueTail DEF IInv, TypeOK, Queue
  <2>2. IsMove(1)
    BY <2>1 DEF IsMove
  <2>3. ~receipt.completed
    BY <2>1, <2>2 DEF IInv, SlotOwner
  <2> QED
    BY <2>1, <2>2, <2>3, TransferAssumption DEF IInv, SlotOwner, TypeOK, Receipts, Counts
<1> QED
  BY <1>1, Invariance, PTL

-----------------------------------------------------------------------------
(* The protocol implements TransferContract *)

\* An answer given while the invariant holds is a Reply of the contract.
LEMMA VerdictIsReply ==
  ASSUME IInv, phase # "idle",
         NEW a \in Promise!Answer,
         Promise!Truthful(job, a),
         answer' = [answer EXCEPT ![job] = a],
         UNCHANGED <<job, requested, actual>>
  PROVE  Promise!Next
<1>1. job \in 1..job /\ answer[job] = Promise!Open
  BY DEF IInv, TaskShape, TypeOK
<1>2. Promise!Reply(job, a)
  BY <1>1 DEF Promise!Reply
<1> QED
  BY <1>1, <1>2 DEF Promise!Next

LEMMA FailIsReply ==
  ASSUME IInv, phase # "idle", Fail, UNCHANGED <<job, requested, actual>>
  PROVE  Promise!Next
<1> DEFINE a == Result(task, Dispatched)
<1>1. task \in Tasks /\ Dispatched \in BOOLEAN /\ task.moved < requested[job]
      /\ task.moved \in Nat /\ requested[job] \in Nat
  BY TransferAssumption DEF IInv, TypeOK, TaskShape, Dispatched, Jobs, Tasks, Counts
<1>2. a \in Promise!Answer /\ a.unknown = Dispatched /\ a.confirmed = task.moved
  BY <1>1, ResultInAnswer
<1>3. /\ a.verdict # "completed"
      /\ a.verdict = "partial" => ~Dispatched /\ task.moved > 0
  BY <1>1 DEF Result
<1>4. task.moved <= actual[job] /\ (~Dispatched => task.moved = actual[job])
  <2>1. CASE Dispatched
    BY <2>1 DEF IInv, ReceiptKnowledge
  <2>2. CASE ~Dispatched
    BY <1>1, <2>2, NothingDispatched
  <2> QED
    BY <2>1, <2>2
<1>5. answer' = [answer EXCEPT ![job] = a]
  BY DEF Fail, Finish
<1> HIDE DEF a
<1>6. Promise!Truthful(job, a)
  BY <1>2, <1>3, <1>4 DEF Promise!Truthful
<1> QED
  BY <1>2, <1>5, <1>6, VerdictIsReply

LEMMA StopIsReply == IInv /\ Stop => Promise!Next
<1> SUFFICES ASSUME IInv, Stop PROVE Promise!Next
  OBVIOUS
<1> DEFINE a == [verdict |-> "cancelled", unknown |-> Dispatched, confirmed |-> task.moved]
<1>1. /\ phase # "idle" /\ answer' = [answer EXCEPT ![job] = a]
      /\ UNCHANGED <<job, requested, actual>>
  BY DEF Stop, Finish
<1>2. a \in Promise!Answer
  BY DEF Promise!Answer, Promise!Verdicts, IInv, TypeOK, Tasks, Counts, Dispatched
<1>3. task.moved <= actual[job] /\ (~Dispatched => task.moved = actual[job])
  <2>1. CASE Dispatched
    BY <2>1 DEF IInv, ReceiptKnowledge
  <2>2. CASE ~Dispatched
    BY <1>1, <2>2, NothingDispatched DEF IInv, TypeOK, TaskShape, Jobs, Counts
  <2> QED
    BY <2>1, <2>2
<1>4. Promise!Truthful(job, a)
  BY <1>3 DEF Promise!Truthful
<1> HIDE DEF a
<1> QED
  BY <1>1, <1>2, <1>4, VerdictIsReply

LEMMA HandleReceiptImplements ==
  ASSUME IInv, NEW r \in toClient, HandleReceipt(r)
  PROVE  Promise!Next \/ UNCHANGED Promise!vars
<1> DEFINE t == [task EXCEPT !.moved = task.moved + r.count]
<1>1. phase # "idle" /\ UNCHANGED <<job, requested, actual>>
  BY DEF HandleReceipt
<1>2. CASE r.status = "pending"
  BY <1>2 DEF HandleReceipt, Promise!vars
<1>3. CASE r.status = "ok" /\ r.count \in 1..task.count
  <2>1. /\ job \in Jobs /\ task \in Tasks
        /\ task.moved + r.count = actual[job]
        /\ actual[job] \in Counts
    BY <1>3, ReceiptTells
  <2>2. /\ t \in Tasks /\ t.moved = actual[job]
        /\ actual[job] \in Nat /\ requested[job] \in Nat
        /\ actual[job] <= requested[job] /\ actual[job] > 0
    <3>1. t \in Tasks /\ t.moved = actual[job]
      BY <2>1 DEF Tasks
    <3>2. requested[job] \in Counts /\ actual[job] <= requested[job]
      BY <2>1 DEF IInv, TypeOK, JobHistory
    <3>3. task.moved \in Nat /\ task.count \in Nat
      BY <2>1, TransferAssumption DEF Tasks, Counts
    <3> QED
      BY <1>3, <2>1, <3>1, <3>2, <3>3, TransferAssumption DEF Counts
  <2>3. Continue(t)
    BY <1>3 DEF HandleReceipt
  <2> HIDE DEF t
  <2>4. CASE Finish(Result(t, FALSE))
    <3> DEFINE a == Result(t, FALSE)
    <3>1. a \in Promise!Answer /\ a.unknown = FALSE /\ a.confirmed = actual[job]
      BY <1>1, <2>2, ResultInAnswer
    <3>2. a.verdict = "completed" => actual[job] = requested[job]
      BY <2>2 DEF Result
    <3> HIDE DEF a
    <3>3. Promise!Truthful(job, a)
      BY <2>2, <3>1, <3>2 DEF Promise!Truthful
    <3>4. answer' = [answer EXCEPT ![job] = a]
      BY <2>4 DEF Finish, a
    <3> QED
      BY <1>1, <3>1, <3>3, <3>4, VerdictIsReply
  <2>5. CASE UNCHANGED answer
    BY <1>1, <2>5 DEF Promise!vars
  <2> QED
    BY <2>3, <2>4, <2>5 DEF Continue
<1>4. CASE r.status # "pending" /\ ~(r.status = "ok" /\ r.count \in 1..task.count)
  BY <1>1, <1>4, FailIsReply DEF HandleReceipt
<1> QED
  BY <1>2, <1>3, <1>4

LEMMA HandlePrepareImplements ==
  ASSUME IInv, NEW r \in toClient, HandlePrepare(r)
  PROVE  Promise!Next \/ UNCHANGED Promise!vars
<1>1. phase # "idle" /\ UNCHANGED <<job, requested, actual>>
  BY DEF HandlePrepare
<1> QED
  BY <1>1, FailIsReply DEF HandlePrepare, Promise!vars

LEMMA StartIsAccept ==
  ASSUME IInv, NEW n \in 1..MaxRequest, Start(n)
  PROVE  Promise!Next
<1>1. \A j \in 1..job : answer[j] # Promise!Open
  <2> TAKE j \in 1..job
  <2>1. j \in Jobs /\ (j < job \/ (j = job /\ job >= 1))
    BY TransferAssumption DEF IInv, TypeOK, Jobs
  <2> QED
    BY <2>1 DEF Start, IInv, JobHistory
<1>2. Promise!Accept(n)
  BY <1>1 DEF Start, Promise!Accept
<1> QED
  BY <1>2 DEF Promise!Next

LEMMA RestartIsAbandon == IInv /\ Restart => Promise!Next \/ UNCHANGED Promise!vars
<1> SUFFICES ASSUME IInv, Restart PROVE Promise!Next \/ UNCHANGED Promise!vars
  OBVIOUS
<1>1. CASE phase = "idle"
  BY <1>1 DEF Restart, Promise!vars
<1>2. CASE phase # "idle"
  <2>1. job \in 1..job /\ answer[job] = Promise!Open
    BY <1>2 DEF IInv, TaskShape, TypeOK
  <2>2. Promise!Abandon(job)
    BY <1>2, <2>1 DEF Restart, Promise!Abandon
  <2> QED
    BY <2>1, <2>2 DEF Promise!Next
<1> QED
  BY <1>1, <1>2

LEMMA ServerMoveIsMove == IInv /\ ServerMove => Promise!Next \/ UNCHANGED Promise!vars
<1> SUFFICES ASSUME IInv, ServerMove PROVE Promise!Next \/ UNCHANGED Promise!vars
  OBVIOUS
<1> DEFINE c == Head(toServer)
<1>1. /\ toServer # <<>> /\ c.type = "move"
      /\ UNCHANGED <<job, requested, answer>>
  BY DEF ServerMove, Take
<1>2. PICK n \in 0..c.count : actual' = [actual EXCEPT ![c.job] = actual[c.job] + n]
  BY DEF ServerMove
<1>3. c \in Commands /\ c = toServer[1] /\ 1 \in Queue
  BY <1>1, QueueTail DEF IInv, TypeOK, Queue
<1> HIDE DEF c
<1>4. /\ c.job \in 1..job
      /\ actual[c.job] + c.count <= requested[c.job]
      /\ answer[c.job] = Promise!Open \/ answer[c.job].unknown
      /\ actual[c.job] \in Nat /\ requested[c.job] \in Nat
      /\ requested[c.job] <= MaxRequest /\ c.count \in Nat
      /\ actual \in [Jobs -> Counts] /\ c.job \in Jobs
  <2>1. c.job \in Jobs /\ c.count \in Counts
    BY <1>3 DEF Commands
  <2>2. /\ c.job <= job
        /\ actual[c.job] + c.count <= requested[c.job]
        /\ answer[c.job].unknown \/ (c.job = job /\ Dispatched)
    BY <1>1, <1>3 DEF IInv, MovesInFlight, IsMove
  <2>3. Dispatched => answer[job] = Promise!Open
    BY DEF IInv, TaskShape, Dispatched
  <2>4. actual[c.job] \in Counts /\ requested[c.job] \in Counts /\ job \in Nat
        /\ actual \in [Jobs -> Counts]
    BY <2>1, TransferAssumption DEF IInv, TypeOK
  <2> QED
    BY <2>1, <2>2, <2>3, <2>4, TransferAssumption DEF Jobs, Counts
<1>5. CASE n = 0
  <2>1. actual[c.job] + n = actual[c.job]
    BY <1>4, <1>5
  <2>2. actual' = actual
    BY <1>2, <1>4, <2>1
  <2> QED
    BY <1>1, <2>2 DEF Promise!vars
<1>6. CASE n # 0
  <2>1. n \in 1..MaxRequest /\ actual[c.job] + n <= requested[c.job]
    BY <1>2, <1>4, <1>6, TransferAssumption
  <2>2. Promise!Move(c.job, n)
    BY <1>1, <1>2, <1>4, <2>1 DEF Promise!Move
  <2> QED
    BY <1>4, <2>1, <2>2 DEF Promise!Next
<1> QED
  BY <1>5, <1>6

LEMMA StepImplements == IInv /\ [Next]_vars => [Promise!Next]_Promise!vars
<1> SUFFICES ASSUME IInv, [Next]_vars PROVE Promise!Next \/ UNCHANGED Promise!vars
  OBVIOUS
<1>1. ASSUME NEW n \in 1..MaxRequest, Start(n) PROVE Promise!Next
  BY <1>1, StartIsAccept
<1>2. ASSUME NEW r \in toClient, HandlePrepare(r) \/ HandleReceipt(r) \/ HandleUnreadable(r)
      PROVE  Promise!Next \/ UNCHANGED Promise!vars
  BY <1>2, HandlePrepareImplements, HandleReceiptImplements, FailIsReply DEF HandleUnreadable
<1>3. CASE Poll \/ Retry
  BY <1>3 DEF Poll, Retry, historyVars, Promise!vars
<1>4. CASE Timeout \/ Stop \/ Restart
  BY <1>4, FailIsReply, StopIsReply, RestartIsAbandon DEF Timeout
<1>5. CASE ServerMove
  BY <1>5, ServerMoveIsMove
<1>6. CASE ServerPrepare \/ ServerReceipt \/ ServerCancel \/ ServerUnsupported \/ ReceiptExpires
  BY <1>6 DEF ServerPrepare, ServerReceipt, ServerCancel, ServerUnsupported, ReceiptExpires,
              historyVars, Promise!vars
<1>7. CASE UNCHANGED vars
  BY <1>7 DEF vars, Promise!vars
<1> QED
  BY <1>1, <1>2, <1>3, <1>4, <1>5, <1>6, <1>7 DEF Next, Client, Server

\* What is confirmed is what has moved, whatever is lost, late or repeated
\* (the receipts of init.lua and their handling in inventory.rs).
THEOREM TransfersAreExact == Spec => []TransferInv
BY CertainAnswersAreExact, NothingInvented, NeverTooMuch, CallbacksAreAttributed, PTL DEF TransferInv

\* Every behaviour of the two state machines and their channels keeps the
\* promise of TransferContract: each answer is truthful, and after a certain
\* answer nothing moves any more.
THEOREM ImplementsContract == Spec => KeepsPromise
<1>1. Init => Promise!Init
  BY DEF Init, Promise!Init, Jobs
<1>2. IInv /\ [Next]_vars => [Promise!Next]_Promise!vars
  BY StepImplements
<1> QED
  BY <1>1, <1>2, Invariance, PTL DEF Spec, KeepsPromise, Promise!Spec

-----------------------------------------------------------------------------
(* The helper's slot is free when a prepare arrives *)

\* A command that is sent leaves what was cancelled as it is, and cancels its own
\* nonce if it is a cancel.
LEMMA CancelledSent ==
  ASSUME TypeOK, NEW c \in Commands, toServer' = Append(toServer, c)
  PROVE  /\ AfterQueue' = AfterQueue + 1 /\ AfterQueue \in Nat
         /\ \A i \in Queue : i \in Nat /\ i < AfterQueue
         /\ \A n, i, k : Cancelled(n, i, k) => Cancelled(n, i, k)'
         /\ \A n, i : Cancelled(n, i, AfterQueue) => Cancelled(n, i, AfterQueue)'
         /\ c.type = "cancel" => \A i \in 0..Len(toServer) : Cancelled(c.nonce, i, AfterQueue)'
<1>1. /\ Queue = 1..Len(toServer) /\ Len(toServer) \in Nat
      /\ Queue' = 1..(Len(toServer) + 1) /\ Len(toServer') = Len(toServer) + 1
      /\ \A i \in Queue : toServer'[i] = toServer[i]
      /\ toServer'[Len(toServer) + 1] = c
  BY Sent, QueueIsSeq DEF TypeOK, Queue
<1>2. AfterQueue' = AfterQueue + 1 /\ AfterQueue = Len(toServer) + 1 /\ AfterQueue \in Nat
  BY <1>1 DEF AfterQueue
<1>3. ASSUME NEW n, NEW i, NEW k, Cancelled(n, i, k) PROVE Cancelled(n, i, k)'
  BY <1>1, <1>3 DEF Cancelled
<1>4. ASSUME NEW n, NEW i, Cancelled(n, i, AfterQueue) PROVE Cancelled(n, i, AfterQueue)'
  BY <1>1, <1>2, <1>4 DEF Cancelled
<1>5. ASSUME c.type = "cancel", NEW i \in 0..Len(toServer) PROVE Cancelled(c.nonce, i, AfterQueue)'
  BY <1>1, <1>2, <1>5 DEF Cancelled
<1>6. QED BY <1>1, <1>2, <1>3, <1>4, <1>5

\* The task sends a command that is no prepare: a cancel of its nonce when it is
\* given up, or the move or the poll of its current action.
LEMMA SlotSent ==
  ASSUME TypeOK, SlotOrder, NEW c \in Commands, toServer' = Append(toServer, c),
         c.type # "prepare", UNCHANGED <<helper, receipt, toClient>>,
         \/ phase' = "idle" /\ c.type = "cancel" /\ c.nonce = task.nonce
         \/ phase # "idle" /\ phase' # "idle" /\ task'.nonce = task.nonce,
         Dispatched' => \A r \in toClient : Reported(r) /\ r.type = "receipt" => receipt = NoReceipt
  PROVE  SlotOrder'
<1>1. /\ Queue = 1..Len(toServer) /\ Len(toServer) \in Nat
      /\ \A i \in Queue' : i \in Queue \/ i = Len(toServer) + 1
      /\ \A i \in Queue : i \in Queue' /\ toServer'[i] = toServer[i]
      /\ toServer'[Len(toServer) + 1] = c
  BY Sent, QueueIsSeq DEF TypeOK, Queue
<1>2. \A i \in Queue' : IsPrepare(i)' => i \in Queue /\ IsPrepare(i) /\ toServer'[i] = toServer[i]
  BY <1>1 DEF IsPrepare
<1>3. ASSUME NEW n, NEW i \in 0..Len(toServer), Current(n) \/ Cancelled(n, i, AfterQueue)
      PROVE  Current(n)' \/ Cancelled(n, i, AfterQueue)'
  BY <1>3, CancelledSent DEF Current
<1>4. receipt' # NoReceipt => Current(receipt.nonce)' \/ Cancelled(receipt.nonce, 0, AfterQueue)'
  BY <1>1, <1>3 DEF SlotOrder
<1>5. ASSUME NEW i \in Queue', IsPrepare(i)'
      PROVE  /\ receipt' # NoReceipt => Cancelled(receipt.nonce, 0, i)'
             /\ Current(toServer[i].nonce)' \/ Cancelled(toServer[i].nonce, i, AfterQueue)'
  <2>1. i \in Queue /\ IsPrepare(i) /\ toServer'[i] = toServer[i] /\ i \in 0..Len(toServer)
    BY <1>1, <1>2, <1>5
  <2>2. receipt' # NoReceipt => Cancelled(receipt.nonce, 0, i)'
    BY <2>1, CancelledSent DEF SlotOrder
  <2>3. Current(toServer[i].nonce) \/ Cancelled(toServer[i].nonce, i, AfterQueue)
    BY <2>1 DEF SlotOrder
  <2>4. Current(toServer[i].nonce)' \/ Cancelled(toServer[i].nonce, i, AfterQueue)'
    <3> DEFINE n == toServer[i].nonce
    <3>1. \/ phase' # "idle" /\ n = task'.nonce
          \/ \E d \in Queue' : i < d /\ d < AfterQueue' /\ toServer'[d].type = "cancel" /\ toServer'[d].nonce = n
      BY <1>3, <2>1, <2>3 DEF Current, Cancelled
    <3>2. n = toServer'[i].nonce
      BY <2>1
    <3> HIDE DEF n
    <3>3. QED BY <3>1, <3>2 DEF Current, Cancelled
  <2>5. QED BY <2>2, <2>4
<1>6. ASSUME NEW i \in Queue', NEW k \in Queue', IsPrepare(i)', IsPrepare(k)', i < k
      PROVE  Cancelled(toServer[i].nonce, i, k)'
  <2>1. Cancelled(toServer[i].nonce, i, k)
    BY <1>2, <1>6 DEF SlotOrder
  <2>2. toServer'[i] = toServer[i]
    BY <1>2, <1>6
  <2>3. QED BY <1>1, <2>1, <2>2 DEF Cancelled
<1>7. helper' = "missing" => receipt' = NoReceipt
  BY DEF SlotOrder
<1>8. Dispatched' => \A r \in toClient' : Reported(r)' /\ r.type = "receipt" => receipt' = NoReceipt
  BY DEF Reported, Dispatched
<1>9. QED BY <1>4, <1>5, <1>6, <1>7, <1>8 DEF SlotOrder

\* The task asks for its next action when all that could be in the slot then is
\* cancelled.
LEMMA SlotAsked ==
  ASSUME TypeOK, SlotOrder, NEW c \in Commands, toServer' = Append(toServer, c),
         c.type = "prepare", UNCHANGED <<helper, receipt, toClient>>,
         phase' = "preparing", task'.nonce = c.nonce,
         receipt # NoReceipt => Cancelled(receipt.nonce, 0, AfterQueue),
         \A i \in Queue : IsPrepare(i) => Cancelled(toServer[i].nonce, i, AfterQueue)
  PROVE  SlotOrder'
<1>1. /\ Queue = 1..Len(toServer) /\ Len(toServer) \in Nat /\ AfterQueue = Len(toServer) + 1
      /\ \A i \in Queue' : i \in Queue \/ i = AfterQueue
      /\ \A i \in Queue : i \in Queue' /\ i < AfterQueue /\ toServer'[i] = toServer[i]
      /\ AfterQueue \in Queue' /\ toServer'[AfterQueue] = c
  BY Sent, QueueIsSeq DEF TypeOK, Queue, AfterQueue
<1>2. ~Dispatched' /\ \A n : n = c.nonce => Current(n)'
  BY DEF Dispatched, Current
<1>3. receipt' # NoReceipt => Cancelled(receipt.nonce, 0, AfterQueue)'
  <2> SUFFICES ASSUME receipt # NoReceipt PROVE Cancelled(receipt.nonce, 0, AfterQueue)'
    OBVIOUS
  <2>1. PICK d \in Queue : 0 < d /\ toServer[d].type = "cancel" /\ toServer[d].nonce = receipt.nonce
    BY DEF Cancelled
  <2>2. d \in Queue' /\ d < AfterQueue' /\ toServer'[d] = toServer[d]
    BY <1>1, CancelledSent
  <2>3. QED BY <2>1, <2>2 DEF Cancelled
<1>4. ASSUME NEW i \in Queue', IsPrepare(i)'
      PROVE  /\ receipt' # NoReceipt => Cancelled(receipt.nonce, 0, i)'
             /\ Current(toServer[i].nonce)' \/ Cancelled(toServer[i].nonce, i, AfterQueue)'
  <2>1. CASE i \in Queue
    <3>1. IsPrepare(i) /\ toServer'[i] = toServer[i]
      BY <1>1, <1>4, <2>1 DEF IsPrepare
    <3>2. receipt # NoReceipt => Cancelled(receipt.nonce, 0, i)
      BY <2>1, <3>1 DEF SlotOrder
    <3>3. receipt' # NoReceipt => Cancelled(receipt.nonce, 0, i)'
      BY <1>1, <3>2 DEF Cancelled
    <3>4. Cancelled(toServer[i].nonce, i, AfterQueue)
      BY <2>1, <3>1
    <3>5. PICK d \in Queue : i < d /\ toServer[d].type = "cancel" /\ toServer[d].nonce = toServer[i].nonce
      BY <3>4 DEF Cancelled
    <3>6. d \in Queue' /\ d < AfterQueue' /\ toServer'[d] = toServer[d]
      BY <1>1, CancelledSent
    <3>7. Cancelled(toServer[i].nonce, i, AfterQueue)'
      BY <3>1, <3>5, <3>6 DEF Cancelled
    <3>8. QED BY <3>3, <3>7
  <2>2. CASE i = AfterQueue
    <3>1. Current(toServer[i].nonce)'
      BY <1>1, <2>2 DEF Current
    <3>2. receipt' # NoReceipt => Cancelled(receipt.nonce, 0, i)'
      BY <1>1, <2>2 DEF Cancelled
    <3>3. QED BY <3>1, <3>2
  <2>3. QED BY <1>1, <2>1, <2>2
<1>5. ASSUME NEW i \in Queue', NEW k \in Queue', IsPrepare(i)', IsPrepare(k)', i < k
      PROVE  Cancelled(toServer[i].nonce, i, k)'
  <2>1. i \in Queue /\ IsPrepare(i) /\ toServer'[i] = toServer[i]
    BY <1>1, <1>5 DEF IsPrepare
  <2>2. Cancelled(toServer[i].nonce, i, k)
    <3>1. CASE k \in Queue
      BY <1>1, <1>5, <2>1, <3>1 DEF SlotOrder, IsPrepare
    <3>2. CASE k = AfterQueue
      BY <2>1, <3>2
    <3>3. QED BY <1>1, <3>1, <3>2
  <2>3. QED BY <1>1, <2>1, <2>2 DEF Cancelled
<1>6. helper' = "missing" => receipt' = NoReceipt
  BY DEF SlotOrder
<1>7. QED BY <1>2, <1>3, <1>4, <1>5, <1>6 DEF SlotOrder

\* The server takes a command; what it leaves in the slot was there or belongs to
\* the prepare it takes, and it is not what the command cancels.
LEMMA SlotTaken ==
  ASSUME IInv, SlotOrder, NEW type, Take(type), UNCHANGED <<clientVars, helper, requested, job, answer>>,
         helper = "missing" => receipt' = NoReceipt,
         receipt' # NoReceipt =>
           \/ /\ receipt # NoReceipt /\ receipt'.nonce = receipt.nonce
              /\ ~(type = "cancel" /\ Head(toServer).nonce = receipt.nonce)
           \/ type = "prepare" /\ receipt'.nonce = Head(toServer).nonce,
         Dispatched => \A r \in toClient' : Reported(r)' /\ r.type = "receipt" => receipt' = NoReceipt
  PROVE  SlotOrder'
<1>1. /\ UNCHANGED <<phase, task>>
      /\ Head(toServer).type = type /\ Head(toServer) = toServer[1] /\ 1 \in Queue
  BY Taken DEF clientVars
<1>2. /\ Queue = 1..Len(toServer) /\ Len(toServer) \in Nat /\ AfterQueue = Len(toServer) + 1
      /\ Queue' = 1..(Len(toServer) - 1) /\ AfterQueue' = Len(toServer)
      /\ \A i \in Queue' : i + 1 \in Queue /\ toServer'[i] = toServer[i + 1]
  <2>1. toServer # <<>> /\ toServer' = Tail(toServer) /\ toServer \in Seq(Commands)
    BY DEF Take, IInv, TypeOK
  <2>2. Len(toServer') = Len(toServer) - 1 /\ toServer' \in Seq(Commands) /\ Len(toServer) \in Nat
    BY <2>1, QueueTail, QueueIsSeq
  <2>3. \A i \in Queue' : i + 1 \in Queue /\ toServer'[i] = toServer[i + 1]
    BY <2>1, QueueTail DEF Queue
  <2>4. QED BY <2>1, <2>2, <2>3, QueueIsSeq DEF Queue, AfterQueue
<1>3. \A i \in Queue' : IsPrepare(i)' => IsPrepare(i + 1) /\ i + 1 \in Queue
  BY <1>2 DEF IsPrepare
<1>4. receipt' # NoReceipt => Current(receipt.nonce)' \/ Cancelled(receipt.nonce, 0, AfterQueue)'
  <2> SUFFICES ASSUME receipt' # NoReceipt
               PROVE  Current(receipt.nonce)' \/ Cancelled(receipt.nonce, 0, AfterQueue)'
    OBVIOUS
  <2>1. AfterQueue' \in Nat /\ AfterQueue = AfterQueue' + 1
    BY <1>2
  <2>2. Cancelled(receipt.nonce, 0, AfterQueue') => Cancelled(receipt.nonce, 0, AfterQueue)
    BY <1>2 DEF Cancelled
  <2>3. CASE /\ receipt # NoReceipt /\ receipt'.nonce = receipt.nonce
             /\ ~(type = "cancel" /\ Head(toServer).nonce = receipt.nonce)
    <3>1. Current(receipt.nonce) \/ Cancelled(receipt.nonce, 0, AfterQueue)
      BY <2>3 DEF SlotOrder
    <3>2. CASE Current(receipt.nonce)
      BY <1>1, <2>3, <3>2 DEF Current
    <3>3. CASE Cancelled(receipt.nonce, 0, AfterQueue)
      <4> DEFINE k == AfterQueue'
      <4>1. k \in Nat /\ Cancelled(receipt.nonce, 0, k + 1)
        BY <2>1, <3>3
      <4>2. PICK d \in Queue : toServer[d].type = "cancel" /\ toServer[d].nonce = receipt.nonce
        BY <4>1 DEF Cancelled
      <4>3. d # 1
        BY <1>1, <2>3, <4>2
      <4>4. d - 1 \in Queue' /\ toServer'[d - 1] = toServer[d] /\ 0 < d - 1 /\ d - 1 < AfterQueue'
        BY <1>2, <4>2, <4>3
      <4>5. QED BY <2>3, <4>2, <4>4 DEF Cancelled
    <3>4. QED BY <3>1, <3>2, <3>3
  <2>4. CASE type = "prepare" /\ receipt'.nonce = Head(toServer).nonce
    <3>1. Current(toServer[1].nonce) \/ Cancelled(toServer[1].nonce, 1, AfterQueue)
      BY <1>1, <2>4 DEF SlotOrder, IsPrepare
    <3>2. CASE Current(toServer[1].nonce)
      BY <1>1, <2>4, <3>2 DEF Current
    <3>3. CASE Cancelled(toServer[1].nonce, 1, AfterQueue)
      <4>1. PICK d \in Queue : 1 < d /\ toServer[d].type = "cancel" /\ toServer[d].nonce = toServer[1].nonce
        BY <3>3 DEF Cancelled
      <4>2. d - 1 \in Queue' /\ toServer'[d - 1] = toServer[d] /\ 0 < d - 1 /\ d - 1 < AfterQueue'
        BY <1>2, <4>1
      <4>3. toServer[1].nonce = receipt'.nonce
        BY <1>1, <2>4
      <4>4. QED BY <4>1, <4>2, <4>3 DEF Cancelled
    <3>4. QED BY <3>1, <3>2, <3>3
  <2>5. QED BY <2>3, <2>4
<1>5. ASSUME NEW i \in Queue', IsPrepare(i)'
      PROVE  /\ receipt' # NoReceipt => Cancelled(receipt.nonce, 0, i)'
             /\ Current(toServer[i].nonce)' \/ Cancelled(toServer[i].nonce, i, AfterQueue)'
  <2>1. i + 1 \in Queue /\ IsPrepare(i + 1) /\ toServer'[i] = toServer[i + 1] /\ i \in Nat /\ 1 < i + 1
    BY <1>2, <1>3, <1>5
  <2>2. ASSUME receipt' # NoReceipt PROVE Cancelled(receipt.nonce, 0, i)'
    <3>1. CASE /\ receipt # NoReceipt /\ receipt'.nonce = receipt.nonce
               /\ ~(type = "cancel" /\ Head(toServer).nonce = receipt.nonce)
      <4>1. Cancelled(receipt.nonce, 0, i + 1)
        BY <2>1, <3>1 DEF SlotOrder
      <4>2. PICK d \in Queue : d < i + 1 /\ toServer[d].type = "cancel" /\ toServer[d].nonce = receipt.nonce
        BY <4>1 DEF Cancelled
      <4>3. d # 1
        BY <1>1, <3>1, <4>2
      <4>4. d - 1 \in Queue' /\ toServer'[d - 1] = toServer[d] /\ 0 < d - 1 /\ d - 1 < i
        BY <1>2, <2>1, <4>2, <4>3
      <4>5. QED BY <3>1, <4>2, <4>4 DEF Cancelled
    <3>2. CASE type = "prepare" /\ receipt'.nonce = Head(toServer).nonce
      <4>1. Cancelled(toServer[1].nonce, 1, i + 1)
        BY <1>1, <2>1, <3>2 DEF SlotOrder, IsPrepare
      <4>2. PICK d \in Queue : /\ 1 < d /\ d < i + 1
                               /\ toServer[d].type = "cancel" /\ toServer[d].nonce = toServer[1].nonce
        BY <4>1 DEF Cancelled
      <4>3. d - 1 \in Queue' /\ toServer'[d - 1] = toServer[d] /\ 0 < d - 1 /\ d - 1 < i
        BY <1>2, <2>1, <4>2
      <4>4. toServer[1].nonce = receipt'.nonce
        BY <1>1, <3>2
      <4>5. QED BY <4>2, <4>3, <4>4 DEF Cancelled
    <3>3. QED BY <2>2, <3>1, <3>2
  <2>3. Current(toServer[i + 1].nonce) \/ Cancelled(toServer[i + 1].nonce, i + 1, AfterQueue)
    BY <2>1 DEF SlotOrder
  <2>4. CASE Current(toServer[i + 1].nonce)
    BY <1>1, <2>1, <2>2, <2>4 DEF Current
  <2>5. CASE Cancelled(toServer[i + 1].nonce, i + 1, AfterQueue)
    <3>1. PICK d \in Queue : /\ i + 1 < d
                             /\ toServer[d].type = "cancel" /\ toServer[d].nonce = toServer[i + 1].nonce
      BY <2>5 DEF Cancelled
    <3>2. d - 1 \in Queue' /\ toServer'[d - 1] = toServer[d] /\ i < d - 1 /\ d - 1 < AfterQueue'
      BY <1>2, <2>1, <3>1
    <3>3. Cancelled(toServer[i].nonce, i, AfterQueue)'
      BY <2>1, <3>1, <3>2 DEF Cancelled
    <3>4. QED BY <2>2, <3>3
  <2>6. QED BY <2>3, <2>4, <2>5
<1>6. ASSUME NEW i \in Queue', NEW k \in Queue', IsPrepare(i)', IsPrepare(k)', i < k
      PROVE  Cancelled(toServer[i].nonce, i, k)'
  <2>1. /\ i + 1 \in Queue /\ IsPrepare(i + 1) /\ toServer'[i] = toServer[i + 1] /\ i \in Nat
        /\ k + 1 \in Queue /\ IsPrepare(k + 1) /\ k \in Nat /\ i + 1 < k + 1
    BY <1>2, <1>3, <1>6
  <2>2. Cancelled(toServer[i + 1].nonce, i + 1, k + 1)
    BY <2>1 DEF SlotOrder
  <2>3. PICK d \in Queue : /\ i + 1 < d /\ d < k + 1
                           /\ toServer[d].type = "cancel" /\ toServer[d].nonce = toServer[i + 1].nonce
    BY <2>2 DEF Cancelled
  <2>4. d - 1 \in Queue' /\ toServer'[d - 1] = toServer[d] /\ i < d - 1 /\ d - 1 < k
    BY <1>2, <2>1, <2>3
  <2>5. QED BY <2>1, <2>3, <2>4 DEF Cancelled
<1>7. helper' = "missing" => receipt' = NoReceipt
  OBVIOUS
<1>8. Dispatched' => \A r \in toClient' : Reported(r)' /\ r.type = "receipt" => receipt' = NoReceipt
  BY <1>1 DEF Dispatched
<1>9. QED BY <1>4, <1>5, <1>6, <1>7, <1>8 DEF SlotOrder

\* A poll, a retry, an expiry and a restart of the bot.
LEMMA QuietSlot ==
  ASSUME IInv, SlotOrder, Poll \/ Retry \/ ReceiptExpires \/ Restart \/ UNCHANGED vars
  PROVE  SlotOrder'
<1>1. TypeOK
  BY DEF IInv
<1>2. CASE Poll
  <2> DEFINE c == Command("receipt", task.nonce, 0, job)
  <2>1. c \in Commands /\ c.type # "prepare"
    BY <1>1, <1>2, TransferAssumption DEF Poll, Command, Commands, IInv, TypeOK, Tasks, TaskShape, Counts, Jobs
  <2>2. /\ toServer' = Append(toServer, c)
        /\ UNCHANGED <<helper, receipt, toClient>>
        /\ phase = "waiting" /\ phase' = "requested" /\ task' = task
    BY <1>2 DEF Poll, historyVars
  <2>3. \A r \in toClient : Reported(r) /\ r.type = "receipt" => receipt = NoReceipt
    BY <2>2 DEF SlotOrder, Dispatched
  <2> HIDE DEF c
  <2>4. QED BY <1>1, <2>1, <2>2, <2>3, SlotSent
<1>3. CASE Retry \/ UNCHANGED vars
  <2>1. /\ UNCHANGED <<helper, receipt, toServer, toClient, task>>
        /\ phase' = "idle" <=> phase = "idle"
        /\ Dispatched' <=> Dispatched
    BY <1>3 DEF Retry, Dispatched, vars, historyVars
  <2>2. QED BY <2>1 DEF SlotOrder, Current, Cancelled, AfterQueue, IsPrepare, Reported, Queue
<1>4. CASE ReceiptExpires
  <2>1. receipt' = NoReceipt /\ UNCHANGED <<helper, toServer, toClient, task, phase>>
    BY <1>4 DEF ReceiptExpires, clientVars
  <2>2. QED BY <2>1 DEF SlotOrder, Current, Cancelled, AfterQueue, IsPrepare, Reported, Queue, Dispatched
<1>5. CASE Restart
  <2>1. receipt' = NoReceipt /\ toServer' = <<>> /\ toClient' = {}
    BY <1>5 DEF Restart
  <2>2. Queue' = {}
    BY <2>1 DEF Queue
  <2>3. QED BY <2>1, <2>2 DEF SlotOrder
<1>6. QED BY <1>2, <1>3, <1>4, <1>5

\* A task that is given up cancels its nonce.
LEMMA CancelledSlot ==
  ASSUME IInv, SlotOrder, phase # "idle", phase' = "idle", CancelNonce,
         UNCHANGED <<helper, receipt, toClient>>
  PROVE  SlotOrder'
<1> DEFINE c == Command("cancel", task.nonce, 0, job)
<1>1. c \in Commands /\ c.type = "cancel" /\ c.nonce = task.nonce
  BY TransferAssumption DEF Command, Commands, IInv, TypeOK, Tasks, TaskShape, Counts, Jobs
<1>2. toServer' = Append(toServer, c)
  BY DEF CancelNonce
<1>3. TypeOK /\ ~Dispatched'
  BY DEF IInv, Dispatched
<1> HIDE DEF c
<1>4. QED BY <1>1, <1>2, <1>3, SlotSent

LEMMA FailedSlot ==
  ASSUME IInv, SlotOrder, phase # "idle", Fail, UNCHANGED <<helper, receipt, toClient>>
  PROVE  SlotOrder'
  BY CancelledSlot DEF Fail, Finish

\* A new task asks when the queue cancels all that could be in the slot.
LEMMA StartSlot ==
  ASSUME IInv, SlotOrder, NEW n \in 1..MaxRequest, Start(n)
  PROVE  SlotOrder'
<1> DEFINE t == [NoTask EXCEPT !.id = nextId]
           c == Command("prepare", NextNonce(t), n, job + 1)
<1>1. phase = "idle" /\ Prepare(t, job + 1, n) /\ UNCHANGED <<helper, receipt, toClient>>
      /\ job < MaxJobs
  BY DEF Start
<1>2. t \in Tasks /\ NextNonce(t) \in Nonces
  <2>1. t = [id |-> nextId, moved |-> 0, actions |-> 0, nonce |-> NoNonce, count |-> 0]
    BY DEF NoTask
  <2>2. nextId \in Nat
    BY DEF IInv, TypeOK
  <2> HIDE DEF t
  <2>3. t \in Tasks
    BY <2>1, <2>2, TransferAssumption DEF Tasks, NoNonce, Nonces, Counts
  <2>4. NextNonce(t) \in Nonces
    BY <2>1, <2>2 DEF NextNonce, Nonces
  <2>5. QED BY <2>3, <2>4
<1>3. c \in Commands /\ c.type = "prepare" /\ c.nonce = NextNonce(t)
  <2> HIDE DEF t
  <2>1. n \in Counts /\ job + 1 \in Jobs
    BY <1>1, TransferAssumption DEF Counts, Jobs, IInv, TypeOK
  <2>2. QED BY <1>2, <2>1 DEF Command, Commands
<1>4. toServer' = Append(toServer, c) /\ phase' = "preparing" /\ task' = [t EXCEPT !.nonce = NextNonce(t), !.count = 0]
  BY <1>1 DEF Prepare
<1>5. task'.nonce = c.nonce
  BY <1>2, <1>3, <1>4 DEF Tasks
<1>6. \A m : ~Current(m)
  BY <1>1 DEF Current
<1>7. /\ receipt # NoReceipt => Cancelled(receipt.nonce, 0, AfterQueue)
      /\ \A i \in Queue : IsPrepare(i) => Cancelled(toServer[i].nonce, i, AfterQueue)
  BY <1>6 DEF SlotOrder
<1> HIDE DEF c, t
<1>8. QED BY <1>1, <1>3, <1>4, <1>5, <1>7, SlotAsked DEF IInv

\* A prepare reply, and a receipt reply that leads to the next action or to the end.
LEMMA PreparedSlot ==
  ASSUME IInv, SlotOrder, NEW r \in toClient, HandlePrepare(r)
  PROVE  SlotOrder'
<1>1. phase = "preparing" /\ UNCHANGED <<helper, receipt, toClient>>
  BY DEF HandlePrepare
<1>2. CASE Fail
  BY <1>1, <1>2, FailedSlot
<1>3. CASE /\ r.status = "ok" /\ r.count \in 1..Remaining(task)
           /\ toServer' = Append(toServer, Command("move", task.nonce, r.count, job))
           /\ task' = [task EXCEPT !.actions = @ + 1, !.count = r.count]
           /\ phase' = "waiting"
  <2> DEFINE c == Command("move", task.nonce, r.count, job)
  <2>1. c \in Commands /\ c.type = "move"
    BY <1>1 DEF Command, Commands, IInv, TypeOK, Tasks, TaskShape, Replies, Jobs
  <2>2. task'.nonce = task.nonce
    BY <1>3 DEF IInv, TypeOK, Tasks
  <2>3. \A s \in toClient : ~(Reported(s) /\ s.type = "receipt")
    BY <1>1 DEF IInv, PrepareKnowledge
  <2> HIDE DEF c
  <2>4. QED BY <1>1, <1>3, <2>1, <2>2, <2>3, SlotSent DEF IInv, c
<1>4. QED BY <1>2, <1>3 DEF HandlePrepare

LEMMA ReceivedSlot ==
  ASSUME IInv, SlotOrder, NEW r \in toClient, HandleReceipt(r)
  PROVE  SlotOrder'
<1>1. phase = "requested" /\ UNCHANGED <<helper, receipt, toClient>> /\ r.type = "receipt"
      /\ r.nonce = task.nonce
  BY DEF HandleReceipt
<1>2. CASE Fail
  BY <1>1, <1>2, FailedSlot
<1>3. CASE r.status = "pending"
  <2>1. Retry
    BY <1>3 DEF HandleReceipt, Retry, historyVars
  <2>2. QED BY <2>1, QuietSlot
<1>4. CASE r.status = "ok" /\ r.count \in 1..task.count /\ Continue([task EXCEPT !.moved = @ + r.count])
  <2> DEFINE t == [task EXCEPT !.moved = task.moved + r.count]
             c == Command("prepare", NextNonce(t), Remaining(t), job)
  <2>1. receipt = NoReceipt
    BY <1>1, <1>4 DEF SlotOrder, Reported, Dispatched
  <2>2. \A i \in Queue : ~IsPrepare(i)
    BY <1>1 DEF IInv, QueueOrder, NoPrepareQueued, Dispatched
  <2>3. Continue(t)
    BY <1>4
  <2>4. CASE Finish(Result(t, FALSE)) /\ UNCHANGED toServer
    <3>1. phase' = "idle" /\ toServer' = toServer /\ receipt' = NoReceipt
      BY <1>1, <2>1, <2>4 DEF Finish
    <3>2. ~Dispatched' /\ \A i \in Queue' : ~IsPrepare(i)'
      BY <2>2, <3>1 DEF Dispatched, Queue, IsPrepare
    <3>3. QED BY <3>1, <3>2 DEF SlotOrder
  <2>5. CASE /\ t.moved < requested[job] /\ t.actions < MaxActions
             /\ Prepare(t, job, Remaining(t))
    <3>1. /\ task \in Tasks /\ job \in Jobs /\ task.count <= Remaining(task) /\ requested[job] \in Counts
          /\ task.count \in Counts
      BY <1>1 DEF IInv, TypeOK, TaskShape, Jobs, Dispatched, Tasks
    <3>2. t \in Tasks
      BY <1>4, <3>1, TransferAssumption DEF Tasks, Counts, Remaining
    <3>3. NextNonce(t) \in Nonces
      BY <3>2, TransferAssumption DEF NextNonce, Nonces, Tasks
    <3>4. Remaining(t) \in Counts
      BY <2>5, <3>1, <3>2, TransferAssumption DEF Remaining, Tasks, Counts
    <3>5. c \in Commands /\ c.type = "prepare" /\ c.nonce = NextNonce(t)
      BY <3>1, <3>3, <3>4 DEF Command, Commands
    <3>6. /\ toServer' = Append(toServer, c) /\ phase' = "preparing"
          /\ task' = [t EXCEPT !.nonce = NextNonce(t), !.count = 0]
      BY <2>5 DEF Prepare
    <3>7. task'.nonce = c.nonce
      BY <3>2, <3>5, <3>6 DEF Tasks
    <3> HIDE DEF c, t
    <3>8. QED BY <1>1, <2>1, <2>2, <3>5, <3>6, <3>7, SlotAsked DEF IInv
  <2>6. QED BY <2>3, <2>4, <2>5 DEF Continue
<1>5. QED BY <1>2, <1>3, <1>4 DEF HandleReceipt

-----------------------------------------------------------------------------

\* What the helper and the engine do.
LEMMA ServerSlot ==
  ASSUME IInv, SlotOrder,
         ServerPrepare \/ ServerMove \/ ServerReceipt \/ ServerCancel \/ ServerUnsupported
  PROVE  SlotOrder'
<1> DEFINE c == Head(toServer)
<1>1. CASE ServerPrepare
  <2>1. Take("prepare") /\ UNCHANGED <<clientVars, helper, requested, job, answer>>
        /\ helper # "missing"
    BY <1>1 DEF ServerPrepare, historyVars
  <2>2. ~Dispatched
    BY <2>1, Taken DEF IInv, QueueOrder, NoPrepareQueued, IsPrepare
  <2>3. receipt' # NoReceipt =>
          \/ receipt # NoReceipt /\ receipt' = receipt
          \/ receipt'.nonce = c.nonce
    <3> HIDE DEF c
    <3>1. receipt' = receipt \/ \E count : Expect(c, count)
      BY <1>1 DEF ServerPrepare, c
    <3>2. ASSUME NEW count, Expect(c, count) PROVE receipt'.nonce = c.nonce
      BY <3>2 DEF Expect
    <3>3. QED BY <3>1, <3>2
  <2>4. QED BY <2>1, <2>2, <2>3, SlotTaken
<1>2. CASE ServerMove
  <2>1. Take("move") /\ UNCHANGED <<clientVars, helper, requested, job, answer>>
        /\ toClient' = toClient
    BY <1>2 DEF ServerMove
  <2>2. \/ receipt' = receipt
        \/ receipt # NoReceipt /\ receipt'.nonce = receipt.nonce
    BY <1>2 DEF ServerMove, Credit, IInv, TypeOK, Receipts
  <2>3. receipt' # NoReceipt => receipt # NoReceipt /\ receipt'.nonce = receipt.nonce
    BY <2>2
  <2>4. helper = "missing" => receipt' = NoReceipt
    BY <2>3 DEF SlotOrder
  <2>5. Dispatched => \A r \in toClient' : Reported(r)' /\ r.type = "receipt" => receipt' = NoReceipt
    BY <2>1, <2>3 DEF SlotOrder, Reported, clientVars
  <2>6. QED BY <2>1, <2>3, <2>4, <2>5, SlotTaken
<1>3. CASE ServerReceipt
  <2>1. Take("receipt") /\ UNCHANGED <<clientVars, helper, requested, job, answer>>
        /\ helper # "missing"
    BY <1>3 DEF ServerReceipt, historyVars
  <2>2. /\ receipt' \in {receipt, NoReceipt}
        /\ \A r \in toClient' : r \in toClient \/ r.status # "ok" \/ receipt' = NoReceipt
    BY <1>3 DEF ServerReceipt, Send, Unreadable
  <2>3. Dispatched => \A r \in toClient' : Reported(r)' /\ r.type = "receipt" => receipt' = NoReceipt
    BY <2>1, <2>2 DEF SlotOrder, Reported, clientVars
  <2>4. QED BY <2>1, <2>2, <2>3, SlotTaken
<1>4. CASE ServerCancel
  <2>1. Take("cancel") /\ UNCHANGED <<clientVars, helper, requested, job, answer>>
        /\ toClient' = toClient /\ helper # "missing"
    BY <1>4 DEF ServerCancel, historyVars
  <2>2. receipt' = IF receipt.nonce = c.nonce THEN NoReceipt ELSE receipt
    BY <1>4 DEF ServerCancel
  <2>3. Dispatched => \A r \in toClient' : Reported(r)' /\ r.type = "receipt" => receipt' = NoReceipt
    BY <2>1, <2>2 DEF SlotOrder, Reported, clientVars
  <2>4. QED BY <2>1, <2>2, <2>3, SlotTaken
<1>5. CASE ServerUnsupported
  <2>1. PICK type \in {"prepare", "receipt", "cancel"} : Take(type)
    BY <1>5 DEF ServerUnsupported
  <2>2. /\ UNCHANGED <<clientVars, helper, requested, job, answer>>
        /\ helper = "missing" /\ receipt' = receipt
    BY <1>5 DEF ServerUnsupported, historyVars
  <2>3. receipt' = NoReceipt
    BY <2>2 DEF SlotOrder
  <2>4. QED BY <2>1, <2>2, <2>3, SlotTaken
<1>6. QED BY <1>1, <1>2, <1>3, <1>4, <1>5

LEMMA SlotPreserves == SlotIInv /\ [Next]_vars => SlotIInv'
<1> SUFFICES ASSUME IInv, SlotOrder, [Next]_vars PROVE SlotOrder'
  BY NextPreserves DEF SlotIInv
<1>1. ASSUME NEW n \in 1..MaxRequest, Start(n) PROVE SlotOrder'
  BY <1>1, StartSlot
<1>2. ASSUME NEW r \in toClient, HandlePrepare(r) \/ HandleReceipt(r) PROVE SlotOrder'
  BY <1>2, PreparedSlot, ReceivedSlot
<1>3. ASSUME NEW r \in toClient, HandleUnreadable(r) PROVE SlotOrder'
  BY <1>3, FailedSlot DEF HandleUnreadable
<1>4. CASE Timeout
  BY <1>4, FailedSlot DEF Timeout
<1>5. CASE Stop
  BY <1>5, CancelledSlot DEF Stop, Finish
<1>6. CASE Poll \/ Retry \/ Restart \/ ReceiptExpires \/ UNCHANGED vars
  BY <1>6, QuietSlot
<1>7. CASE ServerPrepare \/ ServerMove \/ ServerReceipt \/ ServerCancel \/ ServerUnsupported
  BY <1>7, ServerSlot
<1>8. QED BY <1>1, <1>2, <1>3, <1>4, <1>5, <1>6, <1>7 DEF Next, Client, Server

\* A receipt never outlives its action beyond the cancel that is on its way, for any
\* number of requests and actions.
THEOREM SlotInvariance == Spec => []SlotIInv
<1>1. Init => SlotIInv
  <2> SUFFICES ASSUME Init PROVE SlotOrder
    BY InitEstablishes DEF SlotIInv
  <2>1. receipt = NoReceipt /\ Queue = {} /\ ~Dispatched
    BY DEF Init, Queue, Dispatched
  <2>2. QED BY <2>1 DEF SlotOrder
<1>2. QED BY <1>1, SlotPreserves, PTL DEF Spec

\* prepare_inventory_transfer_command never finds the receipt of another action:
\* whatever fails, times out, is cancelled or given up, its cancel or the reading
\* of its receipt comes before the next prepare.
THEOREM SlotIsFree == Spec => []PrepareFindsSlotFree
<1>1. SlotIInv => PrepareFindsSlotFree
  <2> SUFFICES ASSUME SlotIInv, toServer # <<>>, Head(toServer).type = "prepare"
               PROVE  receipt = NoReceipt
    BY DEF PrepareFindsSlotFree
  <2>1. 1 \in Queue /\ Head(toServer) = toServer[1] /\ Queue \subseteq Nat
    BY QueueTail, QueueIsSeq DEF SlotIInv, IInv, TypeOK, Queue
  <2>2. ~Cancelled(receipt.nonce, 0, 1)
    BY <2>1 DEF Cancelled
  <2>3. QED BY <2>1, <2>2 DEF SlotIInv, SlotOrder, IsPrepare
<1>2. QED BY <1>1, SlotInvariance, PTL
=============================================================================
