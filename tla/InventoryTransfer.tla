------------------------- MODULE InventoryTransfer --------------------------
(***************************************************************************)
(* The native inventory transfer of the bot: the task state machine of     *)
(* src/bot/tasks/inventory.rs on one side, the receipt protocol of the     *)
(* Lua helper (scripts/init.lua) on the other, and the two channels        *)
(* between them.                                                           *)
(*                                                                         *)
(* A request to move `requested' items is served by up to MaxActions       *)
(* native moves.  Each move is prepared under a nonce, sent as an          *)
(* inventory packet that carries no nonce, counted by the helper from the  *)
(* engine's callback into the one receipt slot of the player, and read     *)
(* back by polling.                                                        *)
(*                                                                         *)
(* Channels.  The client numbers its reliable packets and the server       *)
(* delivers them in that order; the client never retransmits, so a lost    *)
(* packet blocks all later ones.  toServer is therefore a FIFO queue of    *)
(* which only a prefix need ever be delivered.  In the other direction the *)
(* server retransmits until it is acknowledged and the client passes on    *)
(* every copy in the order of arrival: toClient is a set of messages that  *)
(* may be received late, in any order, and any number of times.            *)
(*                                                                         *)
(* Time.  Every deadline may pass at any moment once it is running.        *)
(***************************************************************************)
EXTENDS Integers, Sequences

CONSTANTS
  MaxJobs,      \* bound: requests accepted in a behaviour
  MaxRequest,   \* largest count of a request (99 in the code)
  MaxActions,   \* MAX_NATIVE_INVENTORY_ACTIONS (8 in the code)
  MaxPolls      \* bound: receipt polls of one action (its 4 s allow about 20)

ASSUME TransferAssumption ==
  /\ MaxJobs \in Nat
  /\ MaxRequest \in Nat \ {0}
  /\ MaxActions \in Nat \ {0}
  /\ MaxPolls \in Nat

VARIABLES
  \* the bot process
  phase,        \* NativeInventoryTransferPhase, or "idle" when there is no task
  task,         \* NativeInventoryTransferTask
  nextId,       \* NEXT_ID, starts over when the process does
  polls,        \* receipt polls sent for the current action (see MaxPolls)
  \* the Lua helper
  helper,       \* "json", "serialize" (no write_json) or "missing"
  receipt,      \* inventory_action_receipts[name]
  \* the network
  toServer,     \* commands and packets on their way to the server
  toClient,     \* every chat reply the server has sent in this session
  \* history
  job,          \* number of requests accepted
  requested,    \* what each of them asked for
  actual,       \* what really moved for each of them
  answer        \* what each of them was answered

clientVars == <<phase, task, nextId, polls>>
historyVars == <<job, requested, actual, answer>>
vars == <<phase, task, nextId, polls, helper, receipt, toServer, toClient,
          job, requested, actual, answer>>

\* The refinement mapping.
Promise == INSTANCE TransferContract WITH
  MaxJobs <- MaxJobs, MaxRequest <- MaxRequest,
  job <- job, requested <- requested, actual <- actual, answer <- answer

-----------------------------------------------------------------------------
(* Data *)

Jobs == 1..MaxJobs
Counts == 0..MaxRequest

\* format!("{:x}-{}", task.id, task.actions + 1): one nonce for each action of
\* each task of this process.
Nonces == [id : Nat, action : Nat]

NoNonce == [id |-> 0, action |-> 0]

Phases == {"idle", "preparing", "waiting", "requested"}

NoTask == [id |-> 0, moved |-> 0, actions |-> 0, nonce |-> NoNonce, count |-> 0]

Tasks == [id : Nat, moved : Counts, actions : 0..MaxActions,
          nonce : Nonces, count : Counts]

\* `job' is history: the receiver of a command never reads it.
Commands == [type : {"prepare", "move", "receipt", "cancel"},
             nonce : Nonces, count : Counts, job : Jobs]

Replies == [type : {"prepare", "receipt", "unreadable"}, nonce : Nonces,
            status : {"ok", "pending", "failed"}, count : Counts]

\* A reply nothing can be matched against: the engine's "Invalid command" when
\* the helper is not installed, or a payload that is not JSON.
Unreadable == [type |-> "unreadable", nonce |-> NoNonce, status |-> "failed", count |-> 0]

Receipts == [nonce : Nonces, count : Counts, moved : Counts, completed : BOOLEAN]

NoReceipt == [nonce |-> NoNonce, count |-> 0, moved |-> 0, completed |-> FALSE]

Remaining(t) == requested[job] - t.moved

Command(type, nonce, count, j) ==
  [type |-> type, nonce |-> nonce, count |-> count, job |-> j]

TypeOK ==
  /\ phase \in Phases
  /\ task \in Tasks
  /\ nextId \in Nat
  /\ polls \in 0..MaxPolls
  /\ helper \in {"json", "serialize", "missing"}
  /\ receipt \in Receipts
  /\ toServer \in Seq(Commands)
  /\ toClient \subseteq Replies
  /\ job \in 0..MaxJobs
  /\ requested \in [Jobs -> Counts]
  /\ actual \in [Jobs -> Counts]
  /\ answer \in [Jobs -> Promise!Answer \cup {Promise!Open, Promise!Lost}]

-----------------------------------------------------------------------------
(* The bot process *)

Init ==
  /\ phase = "idle"
  /\ task = NoTask
  /\ nextId = 1
  /\ polls = 0
  /\ helper \in {"json", "serialize", "missing"}
  /\ receipt = NoReceipt
  /\ toServer = <<>>
  /\ toClient = {}
  /\ job = 0
  /\ requested = [j \in Jobs |-> 0]
  /\ actual = [j \in Jobs |-> 0]
  /\ answer = [j \in Jobs |-> Promise!Open]

\* The native packet has left: it may arrive whatever the task does next.
Dispatched == phase \in {"waiting", "requested"}

\* Mutant: the counts are looked at before `outcome_unknown'.
ResultByCount(t, unknown) ==
  [verdict   |-> IF t.moved >= requested[job] THEN "completed"
                 ELSE IF t.moved > 0 THEN "partial" ELSE "failed",
   unknown   |-> unknown,
   confirmed |-> t.moved]

\* NativeInventoryTransferTask::result_status
Result(t, unknown) ==
  [verdict   |-> IF unknown THEN "failed"
                 ELSE IF t.moved >= requested[job] THEN "completed"
                 ELSE IF t.moved > 0 THEN "partial" ELSE "failed",
   unknown   |-> unknown,
   confirmed |-> t.moved]

Finish(a) ==
  /\ answer' = [answer EXCEPT ![job] = a]
  /\ phase' = "idle"
  /\ task' = NoTask
  /\ polls' = 0

\* Mutant: one nonce for all actions of a task.
NextNonceOfTask(t) == [id |-> t.id, action |-> 1]

NextNonce(t) == [id |-> t.id, action |-> t.actions + 1]

\* Ask the helper to prepare the next action of task t.
Prepare(t, j, count) ==
  /\ task' = [t EXCEPT !.nonce = NextNonce(t), !.count = 0]
  /\ phase' = "preparing"
  /\ polls' = 0
  /\ toServer' = Append(toServer, Command("prepare", NextNonce(t), count, j))

\* continue_native_inventory_transfer, called on a task in phase Ready.
Continue(t) ==
  \/ /\ t.moved >= requested[job] \/ t.actions >= MaxActions
     /\ Finish(Result(t, FALSE))
     /\ UNCHANGED toServer
  \/ /\ t.moved < requested[job] /\ t.actions < MaxActions
     /\ Prepare(t, job, Remaining(t))
     /\ UNCHANGED answer

\* Mutant: the receipt of an abandoned action is left to its TTL.
NoCancel == UNCHANGED toServer

\* Tell the helper to forget the receipt of the current nonce.
CancelNonce == toServer' = Append(toServer, Command("cancel", task.nonce, 0, job))

\* fail_native_inventory_transfer
Fail ==
  /\ Finish(Result(task, Dispatched))
  /\ CancelNonce

\* A transfer request reaches an idle bot: the new task is continued at once.
Start(n) ==
  /\ phase = "idle"
  /\ job < MaxJobs
  /\ job' = job + 1
  /\ requested' = [requested EXCEPT ![job + 1] = n]
  /\ nextId' = nextId + 1
  /\ Prepare([NoTask EXCEPT !.id = nextId], job + 1, n)
  /\ UNCHANGED <<helper, receipt, toClient, actual, answer>>

\* Mutant: a prepare reply is taken in any phase, so a copy moves again.
HandlePrepareAnyPhase(r) ==
  /\ r.type = "prepare"
  /\ phase # "idle"
  /\ r.nonce = task.nonce
  /\ \/ /\ r.status = "ok" /\ r.count \in 1..Remaining(task)
        /\ toServer' = Append(toServer, Command("move", task.nonce, r.count, job))
        /\ task' = [task EXCEPT !.actions = @ + 1, !.count = r.count]
        /\ phase' = "waiting"
        /\ UNCHANGED <<polls, answer>>
     \/ /\ ~(r.status = "ok" /\ r.count \in 1..Remaining(task))
        /\ Fail
  /\ UNCHANGED <<nextId, helper, receipt, toClient, job, requested, actual>>

\* handle_native_inventory_prepare: the native move leaves with the reply.
HandlePrepare(r) ==
  /\ r.type = "prepare"
  /\ phase = "preparing"
  /\ r.nonce = task.nonce
  /\ \/ /\ r.status = "ok" /\ r.count \in 1..Remaining(task)
        /\ toServer' = Append(toServer, Command("move", task.nonce, r.count, job))
        /\ task' = [task EXCEPT !.actions = @ + 1, !.count = r.count]
        /\ phase' = "waiting"
        /\ UNCHANGED <<polls, answer>>
     \/ /\ ~(r.status = "ok" /\ r.count \in 1..Remaining(task))
        /\ Fail
  /\ UNCHANGED <<nextId, helper, receipt, toClient, job, requested, actual>>

\* handle_native_inventory_receipt: only the answer to the outstanding poll
\* counts, and a pending one resumes polling.
HandleReceipt(r) ==
  /\ r.type = "receipt"
  /\ phase = "requested"
  /\ r.nonce = task.nonce
  /\ \/ /\ r.status = "pending"
        /\ phase' = "waiting"
        /\ UNCHANGED <<task, polls, toServer, answer>>
     \/ /\ r.status = "ok" /\ r.count \in 1..task.count
        /\ Continue([task EXCEPT !.moved = @ + r.count])
     \/ /\ r.status # "pending" /\ ~(r.status = "ok" /\ r.count \in 1..task.count)
        /\ Fail
  /\ UNCHANGED <<nextId, helper, receipt, toClient, job, requested, actual>>

\* A payload that is not JSON, or "Invalid command", fails the task that is
\* current when it arrives, in whatever phase.
HandleUnreadable(r) ==
  /\ r.type = "unreadable"
  /\ phase # "idle"
  /\ Fail
  /\ UNCHANGED <<nextId, helper, receipt, toClient, job, requested, actual>>

\* advance_native_inventory_transfer: a poll is due.
Poll ==
  /\ phase = "waiting"
  /\ polls < MaxPolls
  /\ polls' = polls + 1
  /\ phase' = "requested"
  /\ toServer' = Append(toServer, Command("receipt", task.nonce, 0, job))
  /\ UNCHANGED <<task, nextId, helper, receipt, toClient, historyVars>>

\* advance_native_inventory_transfer: no answer to the poll within 500 ms.
Retry ==
  /\ phase = "requested"
  /\ phase' = "waiting"
  /\ UNCHANGED <<task, nextId, polls, helper, receipt, toServer, toClient, historyVars>>

\* Mutant: no deadline while a poll is outstanding.
TimeoutUnlessPolled ==
  /\ phase \in {"preparing", "waiting"}
  /\ Fail
  /\ UNCHANGED <<nextId, helper, receipt, toClient, job, requested, actual>>

\* advance_native_inventory_transfer: the deadline of the task (12 s), of the
\* prepare reply (3 s) or of the receipt (4 s) has passed.
Timeout ==
  /\ phase # "idle"
  /\ Fail
  /\ UNCHANGED <<nextId, helper, receipt, toClient, job, requested, actual>>

\* cancel_native_inventory_transfer, called by both stop commands.
Stop ==
  /\ phase # "idle"
  /\ Finish([verdict |-> "cancelled", unknown |-> Dispatched, confirmed |-> task.moved])
  /\ CancelNonce
  /\ UNCHANGED <<nextId, helper, receipt, toClient, job, requested, actual>>

\* The bot process ends and joins again: its HTTP clients are cut off, its
\* task ids start over, and the helper drops the receipt of a leaving player.
Restart ==
  /\ phase' = "idle"
  /\ task' = NoTask
  /\ nextId' = 1
  /\ polls' = 0
  /\ receipt' = NoReceipt
  /\ toServer' = <<>>
  /\ toClient' = {}
  /\ answer' = IF phase = "idle" THEN answer ELSE [answer EXCEPT ![job] = Promise!Lost]
  /\ UNCHANGED <<helper, job, requested, actual>>

-----------------------------------------------------------------------------
(* The Lua helper and the engine *)

Send(r) ==
  toClient' = toClient \cup {IF helper = "json" THEN r ELSE Unreadable}

\* The server takes the next command or packet of the given type.
Take(type) ==
  /\ toServer # <<>>
  /\ Head(toServer).type = type
  /\ toServer' = Tail(toServer)

\* expect_inventory_action
Expect(c, count) ==
  receipt' = [nonce |-> c.nonce, count |-> count, moved |-> 0, completed |-> FALSE]

\* prepare_inventory_transfer_command: `count' is what fits, limited by the
\* stacks at hand; there may be nothing to move at all.
ServerPrepare ==
  /\ helper # "missing"
  /\ Take("prepare")
  /\ LET c == Head(toServer) IN
       \/ /\ receipt = NoReceipt
          /\ \E count \in 1..c.count :
               /\ Expect(c, count)
               /\ Send([type |-> "prepare", nonce |-> c.nonce, status |-> "ok", count |-> count])
       \/ /\ Send([type |-> "prepare", nonce |-> c.nonce, status |-> "failed", count |-> 0])
          /\ UNCHANGED receipt
  /\ UNCHANGED <<clientVars, helper, historyVars>>

\* The inventory callback: what moved is booked on whatever receipt is active.
Credit(n) ==
  IF receipt # NoReceipt /\ receipt.moved + n <= receipt.count
  THEN [receipt EXCEPT !.moved = @ + n, !.completed = TRUE]
  ELSE receipt

\* The engine executes the native move packet, as far as the stacks allow.
ServerMove ==
  /\ Take("move")
  /\ LET c == Head(toServer) IN
       \E n \in 0..c.count :
         /\ actual' = [actual EXCEPT ![c.job] = @ + n]
         /\ receipt' = IF n = 0 THEN receipt ELSE Credit(n)
  /\ UNCHANGED <<clientVars, helper, toClient, job, requested, answer>>

\* report_inventory_transfer_receipt: a completed receipt is handed out once.
ServerReceipt ==
  /\ helper # "missing"
  /\ Take("receipt")
  /\ LET c == Head(toServer) IN
       \/ /\ receipt.nonce # c.nonce
          /\ Send([type |-> "receipt", nonce |-> c.nonce, status |-> "failed", count |-> 0])
          /\ UNCHANGED receipt
       \/ /\ receipt.nonce = c.nonce /\ ~receipt.completed
          /\ Send([type |-> "receipt", nonce |-> c.nonce, status |-> "pending", count |-> 0])
          /\ UNCHANGED receipt
       \/ /\ receipt.nonce = c.nonce /\ receipt.completed
          /\ Send([type |-> "receipt", nonce |-> c.nonce, status |-> "ok", count |-> receipt.moved])
          /\ receipt' = NoReceipt
  /\ UNCHANGED <<clientVars, helper, historyVars>>

\* cancel_inventory_transfer; its reply concerns nobody.
ServerCancel ==
  /\ helper # "missing"
  /\ Take("cancel")
  /\ receipt' = IF receipt.nonce = Head(toServer).nonce THEN NoReceipt ELSE receipt
  /\ UNCHANGED <<clientVars, helper, toClient, historyVars>>

\* Without the helper the engine answers each command "Invalid command".
ServerUnsupported ==
  /\ helper = "missing"
  /\ \E type \in {"prepare", "receipt", "cancel"} : Take(type)
  /\ Send(Unreadable)
  /\ UNCHANGED <<clientVars, helper, receipt, historyVars>>

\* INVENTORY_RECEIPT_TTL_SECONDS have passed: active_inventory_receipt will
\* find the receipt expired and drop it.
ReceiptExpires ==
  /\ receipt # NoReceipt
  /\ receipt' = NoReceipt
  /\ UNCHANGED <<clientVars, helper, toServer, toClient, historyVars>>

-----------------------------------------------------------------------------

Client ==
  \/ \E n \in 1..MaxRequest : Start(n)
  \/ \E r \in toClient : HandlePrepare(r) \/ HandleReceipt(r) \/ HandleUnreadable(r)
  \/ Poll \/ Retry \/ Timeout \/ Stop \/ Restart

Server ==
  \/ ServerPrepare \/ ServerMove \/ ServerReceipt \/ ServerCancel
  \/ ServerUnsupported \/ ReceiptExpires

Next == Client \/ Server

Spec == Init /\ [][Next]_vars

\* The main loop comes back to advance_native_inventory_transfer at least every
\* 200 ms (the socket's read timeout), so a deadline that has passed is seen.
FairSpec == Spec /\ WF_vars(Timeout)

-----------------------------------------------------------------------------
(* Properties *)

Answered(j) == answer[j] \notin {Promise!Open, Promise!Lost}

\* An answer that is not `outcome_unknown' tells exactly what moved, and goes on
\* doing so: no packet that is still on its way, and no callback booked late,
\* changes it afterwards (API.md:364, inventory.rs result_status).
CertainAnswerIsExact ==
  \A j \in Jobs :
    Answered(j) /\ ~answer[j].unknown => answer[j].confirmed = actual[j]

\* Never more is confirmed than moved, in an answer or in the running task: a
\* receipt is not counted twice and not taken from another action.
ConfirmedNeverExceedsActual ==
  /\ \A j \in Jobs : Answered(j) => answer[j].confirmed <= actual[j]
  /\ phase # "idle" => task.moved <= actual[job]

\* However often the protocol retries, a request never moves more items than
\* were asked for.
NeverMovesTooMuch == \A j \in Jobs : actual[j] <= requested[j]

\* The helper never has to refuse a prepare with `action_pending': each action
\* leaves the player's only receipt slot free for the next one, because its
\* receipt is read or its cancel is queued before the next prepare.
PrepareFindsSlotFree ==
  toServer # <<>> /\ Head(toServer).type = "prepare" => receipt = NoReceipt

\* What a callback books is the move of the action the receipt was armed for:
\* the packet carries no nonce, only the order of the channel ties the two
\* ("Each move is counted from its nonce-correlated server callback").
CallbackMeetsItsReceipt ==
  toServer # <<>> /\ Head(toServer).type = "move" /\ receipt # NoReceipt
    => receipt.nonce = Head(toServer).nonce /\ receipt.moved = 0

\* What is confirmed is what has moved, for the action that it is booked on.
TransferInv ==
  /\ CertainAnswerIsExact /\ ConfirmedNeverExceedsActual
  /\ NeverMovesTooMuch /\ CallbackMeetsItsReceipt

\* Every accepted request is answered (or its process ends) although any reply
\* of the server may be missing.
EveryRequestIsAnswered == phase # "idle" ~> phase = "idle"

\* The protocol keeps the promise made to HTTP clients.
KeepsPromise == Promise!Spec
=============================================================================
