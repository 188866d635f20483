---------------------------- MODULE NativeCraft ----------------------------
(***************************************************************************)
(* Native crafting: the task of src/bot/tasks/crafting.rs, the craft       *)
(* receipt of the Lua helper (scripts/init.lua) and the crafting grid both *)
(* of them work on.                                                        *)
(*                                                                         *)
(* A craft is a sequence of native packets that carry no nonce: one move   *)
(* of ingredients for each slot of the grid, 250 ms later the craft, 250   *)
(* ms later the move of the result into the main inventory.  The helper    *)
(* prepares a receipt under the nonce of the task, follows the engine's    *)
(* callbacks through the same steps, and says "completed" when every one   *)
(* of them was as planned.  When anything else happens the task moves back *)
(* what it may have left in the grid and cancels the receipt.              *)
(*                                                                         *)
(* Items are counted in batches of the recipe: a slot of the grid holds    *)
(* what so many batches need of one ingredient.  Channels and time are     *)
(* those of InventoryTransfer: toServer is served in order and what is in  *)
(* it may never arrive, toClient keeps every reply for late or repeated    *)
(* delivery, and a deadline that runs may pass at any moment.              *)
(***************************************************************************)
EXTENDS Integers, Sequences

CONSTANTS
  MaxJobs,      \* bound: crafts accepted in a behaviour
  Requests,     \* the counts a request may ask for (1 to 64 in the code)
  Yields,       \* what one batch of a recipe may yield
  Slots,        \* grid slots a recipe uses (up to 9 in the code)
  MaxPolls      \* bound: receipt polls of one craft (its 5 s allow about 20)

ASSUME CraftAssumption ==
  /\ MaxJobs \in Nat
  /\ Requests \subseteq 1..64 /\ Requests # {}
  /\ Yields \subseteq Nat \ {0} /\ Yields # {}
  /\ Slots \in Nat \ {0}
  /\ MaxPolls \in Nat

VARIABLES
  \* the bot process
  phase,        \* NativeCraftPhase, or "idle" when there is no task
  nonce,        \* id of the task, which is its nonce; 0 without a task
  nextId,       \* NEXT_ID, starts over when the process does
  polls,        \* receipt polls sent for this task (see MaxPolls)
  \* the Lua helper and the engine
  helper,       \* "json", "serialize" (no write_json) or "missing"
  receipt,      \* inventory_action_receipts[name], adapter "craft"
  grid,         \* the player's "craft" list: [1..Slots -> Nat], in batches
  result,       \* the player's "craftresult" list
  \* the network
  toServer,     \* commands and packets on their way to the server
  toClient,     \* every chat reply the server has sent in this session
  \* history
  job,          \* number of crafts accepted
  plan,         \* [1..MaxJobs -> what was asked and the recipe's yield]
  consumed,     \* the jobs some of whose ingredients were used up
  delivered,    \* [1..MaxJobs -> Nat], results that reached the main inventory
  answer,       \* [1..MaxJobs -> Answer], what the HTTP client was told
  stuck         \* the inventory was full, or the session ended: a packet that
                \* moves items back may have had no effect

taskVars == <<phase, nonce, nextId, polls>>
gridVars == <<grid, result>>
historyVars == <<job, plan, consumed, delivered, answer, stuck>>
vars == <<taskVars, helper, receipt, gridVars, toServer, toClient, historyVars>>

Jobs == 1..MaxJobs

\* The least number of batches that yields n items.
Batches(p) == (p.count + p.yield - 1) \div p.yield

Produced(p) == Batches(p) * p.yield

Plans == [count : Requests \cup {0}, yield : Yields]

\* bound: what a slot of the grid holds, in batches (its stack limit).
MaxBatches == CHOOSE n \in {Batches(p) : p \in Plans} :
                \A p \in Plans : Batches(p) <= n

\* The largest result: one batch may yield more than was asked for.
MaxProduced == CHOOSE n \in {Produced(p) : p \in Plans} :
                 \A p \in Plans : Produced(p) <= n

\* A request asks for at most 64 items and one batch yields at most what a
\* stack holds, so there is a largest plan.
ASSUME PlanAssumption ==
  /\ \E p \in Plans : \A q \in Plans : Batches(q) <= Batches(p)
  /\ \E p \in Plans : \A q \in Plans : Produced(q) <= Produced(p)

\* The contract of the inventory transfers, for the results of a craft.
Promise == INSTANCE TransferContract WITH
             MaxRequest <- MaxProduced,
             requested  <- [j \in Jobs |-> Produced(plan[j])],
             actual     <- delivered

\* NativeCraftPhase; a task leaves Ready in the handler that creates it.
Phases == {"preparing", "placing", "crafting", "waiting", "requested"}

NoPlan == [count |-> 0, yield |-> CHOOSE y \in Yields : TRUE]

NoReceipt == [nonce |-> 0, stage |-> "none", next |-> 1, crafted |-> 0, moved |-> 0]

Receipts == [nonce : Nat,
             stage : {"none", "ingredients", "craft", "output", "verify", "error"},
             next : 1..(Slots + 1), crafted : Nat, moved : 0..MaxProduced]

EmptyGrid == [s \in 1..Slots |-> 0]

Commands == [type : {"prepare", "place", "craft", "take", "return", "receipt", "cancel"},
             nonce : Nat, slot : 0..Slots, job : Jobs]

Replies == [type : {"prepare", "receipt", "unreadable"}, nonce : Nat,
            status : {"ok", "pending", "failed"}, count : 0..MaxProduced]

\* `job' is history: the receiver of a command never reads it.
Command(type, n, slot, j) == [type |-> type, nonce |-> n, slot |-> slot, job |-> j]

Reply(type, n, status, count) ==
  [type |-> type, nonce |-> n, status |-> status, count |-> count]

Unreadable == Reply("unreadable", 0, "failed", 0)

TypeOK ==
  /\ phase \in Phases \cup {"idle"}
  /\ nonce \in Nat /\ nextId \in Nat /\ polls \in 0..MaxPolls
  /\ helper \in {"json", "serialize", "missing"}
  /\ receipt \in Receipts
  /\ grid \in [1..Slots -> 0..MaxBatches]
  /\ result \in 0..MaxProduced
  /\ toServer \in Seq(Commands)
  /\ toClient \subseteq Replies
  /\ job \in 0..MaxJobs
  /\ plan \in [Jobs -> Plans]
  /\ consumed \subseteq Jobs
  /\ delivered \in [Jobs -> 0..MaxProduced]
  /\ answer \in [Jobs -> Promise!Answer \cup {Promise!Open, Promise!Lost}]
  /\ stuck \in BOOLEAN

Init ==
  /\ phase = "idle" /\ nonce = 0 /\ nextId = 1 /\ polls = 0
  /\ helper \in {"json", "serialize", "missing"}
  /\ receipt = NoReceipt
  /\ grid = EmptyGrid
  /\ result = 0
  /\ toServer = <<>>
  /\ toClient = {}
  /\ job = 0
  /\ plan = [j \in Jobs |-> NoPlan]
  /\ consumed = {}
  /\ delivered = [j \in Jobs |-> 0]
  /\ answer = [j \in Jobs |-> Promise!Open]
  /\ stuck = FALSE

-----------------------------------------------------------------------------
(* The bot process *)

\* Mutant: only a craft whose result was asked for counts as dispatched.
DispatchedOnceCollected == phase \in {"waiting", "requested"}

\* NativeCraftPhase::action_dispatched: the craft packet has left.
Dispatched == phase \in {"crafting", "waiting", "requested"}

\* resolve_native_craft: the task is gone and its request is answered.
Resolve(verdict, unknown, count) ==
  /\ answer' = [answer EXCEPT ![job] =
                  [verdict |-> verdict, unknown |-> unknown, confirmed |-> count]]
  /\ phase' = "idle"
  /\ nonce' = 0
  /\ polls' = 0

\* clean_native_craft_grid: every slot of the plan, then the result (slot 0).
CleanGrid == [s \in 1..(Slots + 1) |-> Command("return", 0, s % (Slots + 1), job)]

\* craft_phase_prepared
Prepared == phase \in {"placing", "crafting", "waiting", "requested"}

\* Mutant: the receipt of an abandoned craft is left to its TTL.
FailWithoutCancel(sent, prepared, verdict) ==
  /\ toServer' = toServer \o sent \o (IF prepared THEN CleanGrid ELSE <<>>)
  /\ Resolve(verdict, Dispatched, 0)

\* fail_native_craft, after the packets `sent' in the same handler: what was
\* prepared is cleaned up, then the receipt is cancelled.
FailAfter(sent, prepared, verdict) ==
  /\ toServer' = toServer \o sent
                 \o (IF prepared THEN CleanGrid ELSE <<>>)
                 \o <<Command("cancel", nonce, 0, job)>>
  /\ Resolve(verdict, Dispatched, 0)

Fail == FailAfter(<<>>, Prepared, "failed")

\* continue_native_craft: the prepare command leaves under the task's nonce.
Prepare(n, j) ==
  /\ phase' = "preparing"
  /\ nonce' = n
  /\ toServer' = Append(toServer, Command("prepare", n, 0, j))

\* ApiCommand::Craft reaches an idle bot.
Start(p) ==
  /\ phase = "idle"
  /\ job < MaxJobs
  /\ job' = job + 1
  /\ plan' = [plan EXCEPT ![job + 1] = p]
  /\ nextId' = nextId + 1
  /\ polls' = 0
  /\ Prepare(nextId, job + 1)
  /\ UNCHANGED <<helper, receipt, gridVars, toClient, consumed, delivered, answer, stuck>>

\* The moves of the first n slots of the plan.
Placements(n) == [s \in 1..n |-> Command("place", 0, s, job)]

\* handle_native_craft_prepare: all ingredients are moved, or, when the n-th
\* move cannot be sent, what was sent is cleaned up.
HandlePrepare(r) ==
  /\ r.type = "prepare"
  /\ phase = "preparing"
  /\ r.nonce = nonce
  /\ \/ /\ r.status = "ok"
        /\ phase' = "placing"
        /\ toServer' = toServer \o Placements(Slots)
        /\ UNCHANGED <<nonce, polls, answer>>
     \/ /\ r.status = "ok"
        /\ \E n \in 0..(Slots - 1) : FailAfter(Placements(n), TRUE, "failed")
     \/ /\ r.status # "ok"
        /\ Fail
  /\ UNCHANGED <<nextId, helper, receipt, gridVars, toClient,
                 job, plan, consumed, delivered, stuck>>

\* Mutant: the nonce of a receipt reply is not compared.
HandleReceiptAnyNonce(r) ==
  /\ r.type = "receipt"
  /\ phase = "requested"
  /\ r.status = "ok"
  /\ Resolve(IF r.count >= plan[job].count THEN "completed" ELSE "partial", FALSE, r.count)
  /\ UNCHANGED toServer
  /\ UNCHANGED <<nextId, helper, receipt, gridVars, toClient,
                 job, plan, consumed, delivered, stuck>>

\* handle_native_craft_receipt
HandleReceipt(r) ==
  /\ r.type = "receipt"
  /\ phase = "requested"
  /\ r.nonce = nonce
  /\ \/ /\ r.status = "pending"
        /\ phase' = "waiting"
        /\ UNCHANGED <<nonce, polls, toServer, answer>>
     \/ /\ r.status = "ok" /\ r.count \in 1..Produced(plan[job])
        /\ Resolve(IF r.count >= plan[job].count THEN "completed" ELSE "partial",
                   FALSE, r.count)
        /\ UNCHANGED toServer
     \/ /\ r.status # "pending"
        /\ ~(r.status = "ok" /\ r.count \in 1..Produced(plan[job]))
        /\ Fail
  /\ UNCHANGED <<nextId, helper, receipt, gridVars, toClient,
                 job, plan, consumed, delivered, stuck>>

\* A payload that is not JSON, or "Invalid command", fails the task that is
\* current when it arrives, in whatever phase.
HandleUnreadable(r) ==
  /\ r.type = "unreadable"
  /\ phase # "idle"
  /\ Fail
  /\ UNCHANGED <<nextId, helper, receipt, gridVars, toClient,
                 job, plan, consumed, delivered, stuck>>

\* advance_native_craft sends the next packet of the sequence and the task
\* enters phase `to'.
Advance(from, to, packets) ==
  /\ phase = from
  /\ phase' = to
  /\ toServer' = toServer \o packets
  /\ UNCHANGED <<nonce, nextId, polls, helper, receipt, gridVars, toClient, historyVars>>

SendCraft == Advance("placing", "crafting", <<Command("craft", 0, 0, job)>>)

SendTake == Advance("crafting", "waiting", <<Command("take", 0, 0, job)>>)

Poll ==
  /\ polls < MaxPolls
  /\ phase = "waiting"
  /\ phase' = "requested"
  /\ polls' = polls + 1
  /\ toServer' = Append(toServer, Command("receipt", nonce, 0, job))
  /\ UNCHANGED <<nonce, nextId, helper, receipt, gridVars, toClient, historyVars>>

Retry == Advance("requested", "waiting", <<>>)

\* Mutant: the deadline of the receipt is only looked at between polls.
TimeoutUnlessPolled ==
  /\ phase \in {"preparing", "waiting"}
  /\ polls = 0
  /\ Fail
  /\ UNCHANGED <<nextId, helper, receipt, gridVars, toClient,
                 job, plan, consumed, delivered, stuck>>

\* advance_native_craft: no prepare reply within 4 s, no receipt within 5 s.
Timeout ==
  /\ phase \in {"preparing", "waiting", "requested"}
  /\ Fail
  /\ UNCHANGED <<nextId, helper, receipt, gridVars, toClient,
                 job, plan, consumed, delivered, stuck>>

\* advance_native_craft: the packet that is due cannot be sent.
SendFails ==
  /\ phase \in {"placing", "crafting", "waiting"}
  /\ Fail
  /\ UNCHANGED <<nextId, helper, receipt, gridVars, toClient,
                 job, plan, consumed, delivered, stuck>>

\* cancel_native_craft, called by both stop commands in any phase.
Stop ==
  /\ phase # "idle"
  /\ FailAfter(<<>>, Prepared, "cancelled")
  /\ UNCHANGED <<nextId, helper, receipt, gridVars, toClient,
                 job, plan, consumed, delivered, stuck>>

\* The bot process ends and joins again: its ids start over, the helper drops
\* the receipt of a leaving player, what lies in the grid stays there.
Restart ==
  /\ phase' = "idle" /\ nonce' = 0 /\ nextId' = 1 /\ polls' = 0
  /\ receipt' = NoReceipt
  /\ toServer' = <<>>
  /\ toClient' = {}
  /\ answer' = IF phase = "idle" THEN answer ELSE [answer EXCEPT ![job] = Promise!Lost]
  /\ stuck' = TRUE
  /\ UNCHANGED <<helper, gridVars, job, plan, consumed, delivered>>

-----------------------------------------------------------------------------
(* The Lua helper and the engine *)

Send(r) ==
  toClient' = toClient \cup {IF helper = "json" THEN r ELSE Unreadable}

Take(type) ==
  /\ toServer # <<>>
  /\ Head(toServer).type = type
  /\ toServer' = Tail(toServer)

\* bot_craft_prepare: the receipt slot and the grid must be free, and there
\* must be a recipe whose ingredients are at hand (expect_craft_action).
ServerPrepare ==
  /\ helper # "missing"
  /\ Take("prepare")
  /\ LET c == Head(toServer) IN
       \/ /\ receipt = NoReceipt /\ grid = EmptyGrid /\ result = 0
          /\ receipt' = [NoReceipt EXCEPT !.nonce = c.nonce, !.stage = "ingredients"]
          /\ Send(Reply("prepare", c.nonce, "ok", Produced(plan[c.job])))
       \/ /\ Send(Reply("prepare", c.nonce, "failed", 0))
          /\ UNCHANGED receipt
  /\ UNCHANGED <<taskVars, helper, gridVars, historyVars>>

\* handle_craft_inventory_action, while ingredients are expected: n batches
\* went into the given slot of a plan of `batches' batches.
CreditPlacement(slot, n, batches) ==
  IF receipt.stage # "ingredients" \/ n = 0 THEN receipt
  ELSE IF slot # receipt.next \/ n # batches THEN [receipt EXCEPT !.stage = "error"]
  ELSE [receipt EXCEPT !.next = @ + 1,
                       !.stage = IF slot = Slots THEN "craft" ELSE "ingredients"]

\* The engine moves ingredients into the grid: what the player's slot holds by
\* now may be less than what the plan counted on.
ServerPlace ==
  /\ Take("place")
  /\ LET c == Head(toServer)
         batches == Batches(plan[c.job]) IN
       \E n \in 0..batches :
         /\ grid[c.slot] + n <= MaxBatches
         /\ grid' = [grid EXCEPT ![c.slot] = @ + n]
         /\ receipt' = CreditPlacement(c.slot, n, batches)
  /\ UNCHANGED <<taskVars, helper, result, toClient, historyVars>>

\* register_on_craft, once for each batch of the planned item.
CreditCraft(n, p) ==
  IF receipt.stage # "craft" \/ n = 0 THEN receipt
  ELSE IF receipt.crafted + n > Batches(p) THEN [receipt EXCEPT !.stage = "error"]
  ELSE [receipt EXCEPT !.crafted = @ + n,
                       !.stage = IF receipt.crafted + n = Batches(p) THEN "output" ELSE "craft"]

\* The engine crafts up to the number of batches that was asked for.  A grid
\* that is not as planned may match no recipe, or another one.
ServerCraft ==
  /\ Take("craft")
  /\ LET c == Head(toServer)
         p == plan[c.job]
         filled == {s \in 1..Slots : grid[s] > 0} IN
       \/ \E n \in 1..Batches(p) :
            /\ \A s \in 1..Slots : grid[s] >= n
            /\ n < Batches(p) => \E s \in 1..Slots : grid[s] = n
            /\ grid' = [s \in 1..Slots |-> grid[s] - n]
            /\ result' = result + n * p.yield
            /\ receipt' = CreditCraft(n, p)
            /\ consumed' = consumed \cup {c.job}
       \/ /\ filled # 1..Slots /\ filled # {}
          /\ grid' = [s \in 1..Slots |-> IF s \in filled THEN grid[s] - 1 ELSE 0]
          /\ consumed' = consumed \cup {c.job}
          /\ UNCHANGED <<result, receipt>>
       \/ /\ filled # 1..Slots
          /\ UNCHANGED <<gridVars, receipt, consumed>>
  /\ UNCHANGED <<taskVars, helper, toClient, job, plan, delivered, answer, stuck>>

\* handle_craft_inventory_action, while the result is expected.
CreditOutput(n, produced) ==
  IF receipt.stage # "output" \/ n = 0 THEN receipt
  ELSE IF receipt.moved + n > produced THEN [receipt EXCEPT !.stage = "error"]
  ELSE [receipt EXCEPT !.moved = @ + n,
                       !.stage = IF receipt.moved + n = produced THEN "verify" ELSE "output"]

\* n results go into the main inventory of the player, all there are unless it
\* is full; what does not fit stays where it is.
MoveResult(c, n, wanted) ==
  /\ n = wanted \/ n < wanted
  /\ result' = result - n
  /\ delivered' = [delivered EXCEPT ![c.job] = @ + n]
  /\ receipt' = CreditOutput(n, Produced(plan[c.job]))
  /\ stuck' = (stuck \/ n < wanted)

Least(a, b) == IF a <= b THEN a ELSE b

ServerTake ==
  /\ Take("take")
  /\ LET c == Head(toServer)
         wanted == Least(Produced(plan[c.job]), result) IN
       \E n \in 0..wanted : MoveResult(c, n, wanted)
  /\ UNCHANGED <<taskVars, helper, grid, toClient, job, plan, consumed, answer>>

\* A slot of the grid, or the result (slot 0), is moved back.
ServerReturn ==
  /\ Take("return")
  /\ LET c == Head(toServer) IN
       \/ /\ c.slot = 0
          /\ \E n \in 0..result : MoveResult(c, n, result)
          /\ UNCHANGED grid
       \/ /\ c.slot # 0
          /\ \E n \in 0..grid[c.slot] :
               /\ grid' = [grid EXCEPT ![c.slot] = n]
               /\ stuck' = (stuck \/ n > 0)
          /\ UNCHANGED <<result, delivered, receipt>>
  /\ UNCHANGED <<taskVars, helper, toClient, job, plan, consumed, answer>>

\* bot_craft_receipt: completed once everything was as planned, the grid is
\* empty again and the result is still in the inventory.
ServerReceipt ==
  /\ helper # "missing"
  /\ Take("receipt")
  /\ LET c == Head(toServer)
         own == receipt.nonce = c.nonce IN
       \/ /\ own /\ receipt.stage = "verify" /\ grid = EmptyGrid /\ result = 0
          /\ Send(Reply("receipt", c.nonce, "ok", receipt.moved))
          /\ receipt' = NoReceipt
       \/ /\ own /\ receipt.stage = "verify"
          /\ Send(Reply("receipt", c.nonce, "failed", 0))
          /\ receipt' = [receipt EXCEPT !.stage = "error"]
       \/ /\ own /\ receipt.stage \in {"ingredients", "craft", "output"}
          /\ Send(Reply("receipt", c.nonce, "pending", 0))
          /\ UNCHANGED receipt
       \/ /\ ~own \/ receipt.stage = "error"
          /\ Send(Reply("receipt", c.nonce, "failed", 0))
          /\ UNCHANGED receipt
  /\ UNCHANGED <<taskVars, helper, gridVars, historyVars>>

\* bot_craft_cancel; its reply concerns nobody.
ServerCancel ==
  /\ helper # "missing"
  /\ Take("cancel")
  /\ receipt' = IF receipt.nonce = Head(toServer).nonce THEN NoReceipt ELSE receipt
  /\ UNCHANGED <<taskVars, helper, gridVars, toClient, historyVars>>

\* Without the helper the engine answers each command "Invalid command".
ServerUnsupported ==
  /\ helper = "missing"
  /\ \E type \in {"prepare", "receipt", "cancel"} : Take(type)
  /\ Send(Unreadable)
  /\ UNCHANGED <<taskVars, helper, receipt, gridVars, historyVars>>

\* active_inventory_receipt finds the receipt older than
\* CRAFT_RECEIPT_TTL_SECONDS and drops it.
ReceiptExpires ==
  /\ receipt # NoReceipt
  /\ receipt' = NoReceipt
  /\ UNCHANGED <<taskVars, helper, gridVars, toServer, toClient, historyVars>>

-----------------------------------------------------------------------------

Client ==
  \/ \E p \in {q \in Plans : q.count > 0} : Start(p)
  \/ \E r \in toClient : HandlePrepare(r) \/ HandleReceipt(r) \/ HandleUnreadable(r)
  \/ SendCraft \/ SendTake \/ Poll \/ Retry
  \/ Timeout \/ SendFails \/ Stop \/ Restart

Server ==
  \/ ServerPrepare \/ ServerPlace \/ ServerCraft \/ ServerTake \/ ServerReturn
  \/ ServerReceipt \/ ServerCancel \/ ServerUnsupported \/ ReceiptExpires

Next == Client \/ Server

Spec == Init /\ [][Next]_vars

\* The main loop comes back to advance_native_craft at least every 200 ms (the
\* socket's read timeout), so a time that has come is seen.
FairSpec == Spec /\ WF_vars(SendCraft) /\ WF_vars(SendTake) /\ WF_vars(Timeout)

-----------------------------------------------------------------------------
(* Properties *)

\* A craft that failed or was cancelled without `outcome_unknown' has not used
\* up anything, then or ever after: the phases that resolve without it are the
\* ones whose craft packet has not left.
CertainFailureConsumesNothing ==
  \A j \in Jobs :
    answer[j].verdict \in {"failed", "cancelled"} /\ ~answer[j].unknown => j \notin consumed

\* Once a craft is over and the server has caught up, the grid and the result
\* slot are empty again, whatever went wrong, unless the inventory was full or
\* the session ended: ingredients of an abandoned craft do not block the next.
NothingLeftInTheGrid ==
  phase = "idle" /\ toServer = <<>> /\ ~stuck => grid = EmptyGrid /\ result = 0

\* A craft that was abandoned does not stand in the way of the next one: when
\* the helper comes to a prepare command, the receipt slot, the grid and the
\* result slot are free (the receipt is cancelled after the grid is cleaned,
\* and both arrive before the next prepare).
NextCraftFindsRoom ==
  toServer # <<>> /\ Head(toServer).type = "prepare" /\ ~stuck
    => receipt = NoReceipt /\ grid = EmptyGrid /\ result = 0

\* No craft leaves anything behind at the server.
CraftInv == TypeOK /\ NothingLeftInTheGrid /\ NextCraftFindsRoom

\* A craft keeps the contract of the transfers: its answer never claims a
\* result that did not arrive, and a certain answer stays exact.
KeepsPromise == Promise!Spec

\* Every accepted craft is answered.
EveryCraftIsAnswered ==
  \A j \in Jobs : job >= j ~> answer[j] # Promise!Open
=============================================================================
