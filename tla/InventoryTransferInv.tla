------------------------ MODULE InventoryTransferInv ------------------------
(***************************************************************************)
(* The inductive invariant of InventoryTransfer.  Its parts say, in turn,  *)
(* what a task looks like in each phase, that nonces are fresh, which      *)
(* native moves may be on their way, and what the receipt slot and the     *)
(* replies in flight know about the move of the current action.            *)
(***************************************************************************)
EXTENDS InventoryTransfer

Queue == DOMAIN toServer

IsMove(i) == toServer[i].type = "move"
IsPrepare(i) == toServer[i].type = "prepare"

NoPrepareQueued == \A i \in Queue : ~IsPrepare(i)

\* The move of the current action has not been executed yet.
MoveQueued == \E i \in Queue : IsMove(i) /\ toServer[i].nonce = task.nonce

Reported(r) == r \in toClient /\ r.nonce = task.nonce /\ r.status = "ok"

\* A task in each phase: its nonce, its room for another action and its move.
TaskShape ==
  /\ phase = "idle" => task = NoTask
  /\ phase # "idle" => /\ job >= 1 /\ answer[job] = Promise!Open
                       /\ task.id = nextId - 1 /\ task.id >= 1
                       /\ task.nonce.id = task.id
                       /\ task.moved < requested[job]
  /\ phase = "preparing" => /\ task.actions < MaxActions
                            /\ task.nonce.action = task.actions + 1
  /\ Dispatched => /\ task.nonce.action = task.actions
                   /\ task.count >= 1
                   /\ task.count <= Remaining(task)

\* Requests are answered one after the other; later ones have not begun.
JobHistory ==
  /\ nextId >= 1
  /\ \A j \in Jobs : j > job => answer[j] = Promise!Open /\ actual[j] = 0
  /\ \A j \in Jobs : j < job => answer[j] # Promise!Open
  /\ phase = "idle" /\ job >= 1 => answer[job] # Promise!Open
  /\ \A j \in Jobs : actual[j] <= requested[j]

\* A nonce in use was handed out by this process, and none is newer than the
\* one of the current task.
Known(n) ==
  /\ n.id >= 1
  /\ n.id < nextId
  /\ phase # "idle" /\ n.id = task.id => n.action <= task.nonce.action

KnownNonces ==
  /\ \A i \in Queue : Known(toServer[i].nonce)
  /\ \A r \in toClient : r.type = "unreadable" \/ Known(r.nonce)
  /\ receipt # NoReceipt => Known(receipt.nonce)

\* A native move on its way is the one of the current action, not yet counted,
\* or it belongs to a request whose answer said `outcome_unknown'.
MovesInFlight ==
  /\ \A i \in Queue : IsMove(i) =>
       LET c == toServer[i] IN
         /\ c.job <= job
         /\ actual[c.job] + c.count <= requested[c.job]
         /\ \/ /\ answer[c.job].unknown
               /\ phase # "idle" => c.nonce # task.nonce
            \/ /\ c.job = job /\ Dispatched
               /\ c.nonce = task.nonce
               /\ actual[job] = task.moved
  /\ \A i, k \in Queue : IsMove(i) /\ IsMove(k) /\ i # k =>
       /\ toServer[i].job # toServer[k].job
       /\ toServer[i].nonce # toServer[k].nonce

\* The order of the channel: a prepare is never followed by a move, and the
\* prepare of the current action is the last thing the task has sent.
QueueOrder ==
  /\ \A i, k \in Queue : IsPrepare(i) /\ i < k => ~IsMove(k)
  /\ phase = "preparing" =>
       \A i \in Queue : IsPrepare(i) /\ toServer[i].nonce = task.nonce => i = Len(toServer)
  /\ Dispatched => NoPrepareQueued

\* The receipt slot: the moves on their way are those it was armed for, and one
\* callback completes it.
SlotOwner ==
  /\ receipt.completed <=> receipt.moved >= 1
  /\ receipt # NoReceipt => \A i \in Queue : IsMove(i) => toServer[i].nonce = receipt.nonce
  /\ receipt.completed => \A i \in Queue : ~IsMove(i)

\* While the task waits for the prepare reply nothing of the action has moved.
PrepareKnowledge ==
  phase = "preparing" =>
    /\ actual[job] = task.moved
    /\ receipt.nonce = task.nonce => ~receipt.completed
    /\ \A r \in toClient : Reported(r) =>
         /\ r.type # "receipt"
         /\ r.type = "prepare" => /\ NoPrepareQueued
                                  /\ receipt # NoReceipt => receipt.nonce = task.nonce

\* Once the move has been sent, a completed receipt of its nonce, in the slot or
\* in a reply, tells exactly what it moved.
ReceiptKnowledge ==
  Dispatched =>
    /\ task.moved <= actual[job]
    /\ receipt.nonce = task.nonce /\ receipt.completed =>
         ~MoveQueued /\ receipt.moved = actual[job] - task.moved
    /\ \A r \in toClient : Reported(r) /\ r.type = "receipt" =>
         ~MoveQueued /\ r.count = actual[job] - task.moved

Answers ==
  /\ CertainAnswerIsExact
  /\ \A j \in Jobs : Answered(j) => answer[j].confirmed <= actual[j]

IInv ==
  /\ TypeOK
  /\ TaskShape
  /\ JobHistory
  /\ KnownNonces
  /\ MovesInFlight
  /\ QueueOrder
  /\ SlotOwner
  /\ PrepareKnowledge
  /\ ReceiptKnowledge
  /\ Answers

-----------------------------------------------------------------------------
(* The order behind PrepareFindsSlotFree *)

Current(nonce) == phase # "idle" /\ nonce = task.nonce

\* A cancel of this nonce is between two places of the queue.
Cancelled(nonce, i, k) ==
  \E c \in Queue : i < c /\ c < k /\ toServer[c].type = "cancel" /\ toServer[c].nonce = nonce

AfterQueue == Len(toServer) + 1

\* A receipt that the current action does not own is cancelled by something in
\* the queue, and so is one that a prepare in the queue will arm: ahead of every
\* other prepare.  A receipt that was reported has left the slot.
SlotOrder ==
  /\ helper = "missing" => receipt = NoReceipt
  /\ receipt # NoReceipt => Current(receipt.nonce) \/ Cancelled(receipt.nonce, 0, AfterQueue)
  /\ \A i \in Queue : IsPrepare(i) =>
       /\ receipt # NoReceipt => Cancelled(receipt.nonce, 0, i)
       /\ Current(toServer[i].nonce) \/ Cancelled(toServer[i].nonce, i, AfterQueue)
  /\ \A i, k \in Queue : IsPrepare(i) /\ IsPrepare(k) /\ i < k => Cancelled(toServer[i].nonce, i, k)
  /\ Dispatched => \A r \in toClient : Reported(r) /\ r.type = "receipt" => receipt = NoReceipt

SlotIInv == IInv /\ SlotOrder
=============================================================================
