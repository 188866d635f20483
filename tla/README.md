# LuantiBot: specifications, model checking and proofs

This directory holds TLA+ models of the LuantiBot program (a Rust client that
plays as a bot on a Luanti server, the Lua helper mod `scripts/init.lua` it
talks to, an HTTP control API and an LLM agent), the TLC configurations that
check them on small instances, and proofs checked by TLAPS.

    tlc -config ReplyTable.cfg ReplyTable              # one run, see section 3
    tlapm HttpProofs.tla                               # one module of proofs

## 1. Inventory of the system

The whole bot runs in one thread: `join_bot` (`src/bot/runtime.rs`) receives a
packet for at most 200 ms, handles it, then handles the queued API commands,
then advances the mining, transfer and craft tasks, then moves. HTTP
connections are threads that put a command in the queue and wait, with a
timeout, for a reply under a tag. The agent is a process of its own that uses
the HTTP API. All the concurrency that matters is between that loop, the HTTP
threads, the agent, and the server with its helper mod.

| Component | State | Operations | Interacts with | Hard behaviours |
|---|---|---|---|---|
| Native inventory transfer (`src/bot/tasks/inventory.rs`, receipts in `scripts/init.lua`) | current task and phase, task ids; one receipt slot per player | start, prepare reply, receipt reply, poll, retry, timeout, stop; prepare, inventory callback, receipt, cancel, expiry | chat commands and native packets to the server, chat replies back, HTTP reply table | late and repeated replies, packets in flight when the task ends, a callback without nonce, restart of task ids |
| Native mining (`src/bot/tasks/mining.rs`, `bot_prepare_mine`, `bot_verify_mine`) | target list, phase, counters; the engine's digging state | prepare, dig, verify, next target, cancel | as above, plus navigation status | replies without nonce, digging that must be closed |
| Native crafting (`src/bot/tasks/crafting.rs`, `bot_craft_*`) | phase, task id; the craft receipt, the player's grid and result slot | prepare, ingredient moves, craft, take the result, poll, clean the grid, cancel | the same receipt slot and channels | several packets without nonce per craft, moves that find less than planned, what a craft leaves behind for the next |
| Reply table (`src/bot/replies.rs`, `src/api/replies.rs`) | one pending sender per reply tag | register, resolve, cancel, wait with timeout | HTTP threads and the bot loop | races between timeout, resolve and re-registration |
| Movement and routes (`src/bot/runtime.rs`, `navigation.rs`, `commands.rs`) | move goal, follow mode, navigation status, arrival action; hunts of the helper | follow, move, route reply, arrival, stop, give up | server chat replies, mining | late routes after stop, a status that disagrees with the goal |
| Anti-stuck (`src/game/navigation.rs`) | stall timer, detour, best distance | adjust, reset | movement | must end, must not end too early |
| Transport (`src/network/connection.rs`) | send sequence, split buffers | send once, acknowledge, reassemble | everything | no retransmission, duplicates, reordering, sequence numbers used again, buffers that are dropped |
| Bot session (`src/app/session.rs`, `src/app/diagnostics.rs`, `src/bot/modes.rs`, `src/bot/runtime.rs`) | the variables of the loop of each subcommand: SRP key, definitions, `client_ready`, times | Hello, challenge, accept, definitions, ready, chat, good bye | transport, the server | a second Hello, a lost packet, a server that falls silent |
| Telemetry (`src/agent/telemetry.rs`, `src/api/telemetry.rs`, `web/telemetry.js`) | the waiting snapshot and the last one posted; the stored one with revision and time; what the page shows | publish, post, heartbeat, store, poll | agent worker thread, HTTP threads, page | posts that are given up and handled late, restarts of either process, staleness |
| Agent chat (`src/bot/chat.rs`, `src/agent/chat.rs`, `api_client.rs`, `state.rs`, `runtime.rs`) | chat log, cursor, pending messages, state file | log, poll, decide, speak, save, load | HTTP API | restarts of either process, bounded queues, lost confirmations |
| Agent decisions (`src/agent/runtime.rs`, `state.rs`, `policy.rs`, `planner.rs`, `tools.rs`, `provider.rs`) | mission, objective and budget, record of failures, state file | observe, ask the model, select calls, execute, save | HTTP API, chat, model server | a crash between an action and its record, messages between two decisions, servers that reject fields |
| Furnace load (`src/api/routes.rs`) | the answers of two transfers of one request | load input, load fuel | transfer, reply table | the second leg fails, another load works on the same tags |

What could go wrong in each, at the line where it bites, is listed in
`PROJECT.json` under `hazards`, with the properties that would catch it.

## 2. Modules

*Channels.* Towards the server all commands and packets use one reliable
channel; the client sends each packet once and never again (`send_reliable`),
so the server sees a prefix of what was sent, in order: `toServer` is a queue
that nobody is obliged to drain. From the server every copy of a reliable
packet is passed on in the order it arrives (`recv_packet`), so a message can
be read late, out of order, and again: `toClient` is a set that only grows
(`InventoryTransfer`, `NativeCraft`), or `replies` is the sequence of all replies with `next`
the first unread one, and reading any other one is a *disturbance* that a
history variable remembers (the other modules), so that a property can be
stated of a network that behaves.

*Handlers* are atomic actions, as they are in the single-threaded loop and in
the single-threaded server. *Deadlines* may pass at any moment unless a module
says otherwise.

### `TransferContract`: what a transfer promises

For every request: how much it asked for (`requested`), how much really moved
(`actual`) and what the HTTP client was told (`answer`). Items may move only
while the request is open or after an answer that said `outcome_unknown`; an
answer is `Truthful`: never more than moved, exact unless uncertain,
"completed" only for the full count, "partial" only for a certain count. A
process that dies leaves its request `Lost`.

Three modules instantiate it: `InventoryTransfer` and `NativeCraft` implement
it (`KeepsPromise` is its `Spec` under `INSTANCE ... WITH`; for a craft,
`requested` is what the batches yield and `actual` what reached the main
inventory), and `FurnaceLoad` is built on it: its transfers take the steps the
contract allows, whatever the protocol below does.

### `InventoryTransfer`: the protocol that keeps it

| Model | Code |
|---|---|
| `phase`, `task` | `NativeInventoryTransferPhase`, `NativeInventoryTransferTask` (`Ready` is never observable: the task is continued in the same call) |
| `nextId` | `NEXT_ID`; with the action number it makes the nonce |
| `receipt` | `inventory_action_receipts[name]` |
| `Start`, `HandlePrepare`, `HandleReceipt`, `HandleUnreadable`, `Poll`, `Retry`, `Timeout`, `Stop` | the command arm in `commands.rs`, the two reply handlers, the unsupported-command path of `runtime.rs`, the arms of `advance_native_inventory_transfer`, `cancel_native_inventory_transfer` |
| `ServerPrepare`, `ServerMove`, `ServerReceipt`, `ServerCancel`, `ReceiptExpires` | `prepare_inventory_transfer_command`, the engine executing the packet and calling `register_on_player_inventory_action`, `report_inventory_transfer_receipt`, `cancel_inventory_transfer`, the TTL check of `active_inventory_receipt` |
| `Restart` | the process ends and joins again; `register_on_leaveplayer` clears the slot |

*Abstractions.* Items, slots and positions are left out: which stack is moved
shows only in the count the helper answers, anywhere between 1 and what was
asked, and in what the engine then moves, between 0 and that count. That the
reply repeats operation, item and target is part of the nonce check here.

*Bounds.* `MaxJobs` requests (two, so that everything late of the first can
meet the second), `MaxRequest` (three: the cap of two actions can leave a
partial result), `MaxActions` (two instead of eight: one action that precedes
and one that follows), `MaxPolls` (one poll and its repetition; a retry goes
back to waiting).

*Fairness.* Weak fairness of `Timeout` alone: the loop comes back to
`advance_native_inventory_transfer` at least every 200 ms, whatever the server
does, and finds a deadline that has passed. Nothing is assumed of the server or
of the network.

`InventoryTransferInv` holds the inductive invariant, `InventoryTransferProofs`
the proofs.

### `NativeCraft`: crafting

| Model | Code |
|---|---|
| `phase`, `nonce`, `nextId` | `NativeCraftPhase`, the id of `NativeCraftTask`, `NEXT_ID` |
| `receipt` | `inventory_action_receipts[name]` with adapter "craft": the stage it expects, the next slot, what was crafted and moved |
| `grid`, `result` | the player's lists "craft" and "craftresult" |
| `Start`, `HandlePrepare`, `HandleReceipt`, `HandleUnreadable`, `SendCraft`, `SendTake`, `Poll`, `Retry`, `Timeout`, `SendFails`, `Stop` | the command arm, the reply handlers and the arms of `advance_native_craft`; every failure cleans the grid and cancels the receipt in the same step |
| `ServerPrepare`, `ServerPlace`, `ServerCraft`, `ServerTake`, `ServerReturn`, `ServerReceipt`, `ServerCancel`, `ReceiptExpires` | the helper's commands and the engine's execution of a packet with its callback |
| `Restart` | the process ends and joins again |

*Abstractions.* Items are counted in batches of the recipe: a slot of the grid
holds what so many batches need. Which recipe and which slots is the helper's
choice. A move may find less than was planned, a full inventory leaves items
where they are (`stuck`), a grid that is not as planned may match no recipe or
another one.

*Bounds.* Two crafts of two batches over two slots, one poll: what the first
leaves behind can meet the second. *Fairness.* `SendCraft`, `SendTake` and
`Timeout`: the loop looks at the time at least every 200 ms.

### `FurnaceLoad`: two transfers for one request

`thread` is where the HTTP thread of each load is in `handle_api_connection`
(`src/api/routes.rs`), `tag` who is registered for each leg, `mail` what has
been sent to whom, `queue` the command channel. A leg may be refused because
something else runs, answered with anything the contract allows, time out, or
lose its entry because another load cancels the tag (`Cancel` removes whatever
is registered, as the code does); the second leg is only tried after a first
one that moved something. The reply table resolves in one step here
(`PendingReplies` has the two); a crash is left out, since thread and bot share
a process and nobody is left to be answered. `calm` is history: no thread has
given up, and none has lost its entry of the table. What a client may conclude
after that is the subject of `PendingReplies`.

*Bounds.* `MCFurnaceLoad`: three loads at once (interchangeable, `SYMMETRY`),
two transfers of up to two items: a load of both legs, loads that meet, one
that loses its entry to the `cancel` of another, and a third that registers then
and is answered with a transfer that is not its own, which two loads cannot
show (it ends `calm`). `FurnaceLoadProofs` has no bounds. No fairness: the properties are about safety, and
that a request ends is `PendingReplies!RequestCompletes`.

### `PendingReplies`: the reply table

One tag of the table; tags do not interact. Each request is an HTTP thread that
registers (or finds the tag `Busy`), submits its command, receives or gives up,
and cancels the tag on its way out (`thread`: where it is). The bot loop
refuses a command itself or forwards it to the game, and resolves the tag when
an answer arrives, in two steps as in the code: `Resolve` takes the sender out
under the lock, `Send` sends after it (`holding` is what it has in its hands).
A request that is answered by another one's answer, a cancel that removes
another one's entry, answers that come twice or late or never, and the end of
the loop (`End`) are all behaviours of the model.

`ReplyTable` instantiates it under names of its own, for the run and the proofs.

*Bounds.* Three requests: one whose answer is late, one that receives it, and
one that finds the table as they left it. *Fairness.* Each thread goes on while
it can (it is a thread of the operating system) and `recv_timeout` returns; the
bot and the game may never answer.

### `NativeMining`: digging

| Model | Code |
|---|---|
| `phase`, `task` | `NativeMiningPhase`, `NativeMiningTask` |
| `Mine`, `Collect` | `/mine` and chat; `/collect`, collect on arrival: what differs is the list of targets |
| `HandlePrepare`, `HandleVerify`, `HandleUnreadable`, `Timeout`, `Complete`, `OutOfRange`, `Stop` | the reply handlers, the arms of `advance_native_mining`, `cancel_native_mining` |
| `ServerPrepare`, `ServerVerify` | `bot_prepare_mine`, `bot_verify_mine` |
| `EngineStart`, `EngineComplete`, `EngineStop`, `Change` | what Luanti does with the interaction packets; others changing the world |

History variables number the attempts (`attempt`) and remember what was taken
from a reply to another attempt (`foreign`), whether a prepare was given up
(`abandoned`) and the disturbances; no guard reads them. A restart is not an
action: nothing of a mining task outlives the process. That a second command is
refused as busy is `PendingReplies!Refuse`.

*Bounds.* Two positions, one of them in front of the bot; two commands; two
targets; one change by others; one disturbance: each the least that lets a
reply or packet of one attempt meet another. *Fairness.* `Timeout`, and
`Complete \/ OutOfRange`: both are decided in `advance_native_mining`, once per
round of the loop.

### `Navigation`: what moves the bot

`goal`, `follow`, `mining`, `other`, `nav` (the shown status), `stuck`,
`forward` and `waiting` are the variables of `join_bot` of these names; `hunt`,
`nextHunt` and `steps` the helper's `hunt_targets` and its scheduled
`core.after` calls. Commands (`Move`, `Follow`, `Stop`, `AskRoute`), replies
(`HearRoute`, `HearHunt`), one round of the loop (`Tick`: arrival, stall
detection, giving up, what the status shows) and the helper (`ServerPath`,
`ServerHuntPath`, `ServerHunt`, `HuntStep`) are the actions.

*Abstractions.* A route is its number of waypoints; the physics decide how many
of them a tick reaches. AntiStuck is its number of detours (below in full).
`path_node` and `gather_path` are one tag: they differ in the action on arrival.
Mining and the other native tasks are flags that start and end. Look, jump and
teleport are left out. History: `intent` (the last command that says where the
bot should go), `owed` (a route was under way then), `disturbed`.

*Bounds.* Three commands (one to be overtaken, one to overtake, one after),
routes of two waypoints, one detour, one strike, two queued commands, three
replies. The commands of the environment are bounded, so a behaviour may end:
deadlock is not checked.

### `AntiStuck`: stalls and detours

`memory` is the struct `AntiStuck`, `directive` what `adjust` returned. The
bot may be moved anywhere between two ticks (`Places` and `Distance` are
constants), yaws are quarter turns, time is counted in units of which a tick
takes up to `MaxTick`. `Recovery` instantiates it under names of its own (its goal
is the `waypoint`), for the proofs, and `MCAntiStuck` extends that with a corridor
and a side room. *Fairness.* `WF(Tick)`: the movement tick comes with every round of the
loop.

### `AgentChat`: what players say to the agent

| Model | Code |
|---|---|
| `said`, `first` | the game's messages, numbered; id `i` of the chat log is message `first + i`, since `ChatLog` starts at 1 with every start of the bot process |
| `agent`, `disk` | `last_seen_chat_id` and `pending_chat` of `AgentState`; the state file |
| `Say`, `BotRestarts`, `Entries` | `log_chat`, a new process, `collect_chat_entries` |
| `Poll`, `PollFails` | `fetch_chat`, `advance_chat_cursor`, the filter of senders, `enqueue_chat` |
| `Acknowledge`, `Unconfirmed`, `Decide` | a decision in which `say` succeeds, succeeds without the agent learning of it, or does not happen (failed request, nothing returned, cut off by the limit of calls, refused) |
| `Save`, `Crash` | `save_state` (a temporary file and a rename, or an error that is only printed), `load_state` |

`PlayerChat` instantiates it under names of its own, for the run and for proofs
next to those of the decisions. An agent without a state file is one whose every
save fails. What a message says, when timers are due, and goals are left out:
every round may or may not come to a decision.

*Which losses are a crowd.* The code does lose messages, and `LossNeedsCrowd` says
when it may (`KeptOrCrowded`): `PendingLimit` newer messages that are no noise have
followed, or `LogLimit` newer entries of any kind; or the message is in `behind`.
That is a history variable, written when a message is said: is the agent's cursor at
that moment so far back that `FetchLimit` unread entries are ahead of it, which is
what the poll will return instead of it? An agent that begins to read at an earlier
cursor, after a crash or when it notices a restart, adds what is out of its reach
then. So a message that is said while the agent has read on is never excused by how
many were said before it.

*Bounds.* Limits 1, 2, 3 instead of 12, 100, 200, in the same order, and five
messages, so that each limit is overrun, and messages beyond the first `FetchLimit`
come both with and without a backlog; two runs of the bot process; one
mishap (a crash or a lost confirmation).

### `AgentDecision` and `ModelRequest`: one turn of the agent's loop

`pc` is where `run_agent_loop` is: poll, observe, choose, execute, save. `agent`
is the part of `AgentState` the checks depend on, `file` the state file.

| Model | Code |
|---|---|
| `Poll` | `fetch_chat`, `apply_chat_goal_commands`: a message may set or clear the mission at once |
| `Observe`, `ObserveFails`, `Wait` | `fetch_observation`, a turn without decision |
| `Decide`, `RequestFails` | `request_decision` with the requests of `ModelRequest`, the calls that are kept and their order (`Usable`, `Acknowledgement`, `Before`, `Selected`) |
| `ExecuteSay`, `ExecuteSetGoal`, `ExecuteFinishGoal`, `ExecuteSetObjective`, `ExecuteFinishObjective` | the bookkeeping tools of `execute_tool` |
| `ExecuteBlocked`, `ExecuteRejected`, `ExecutePosted`, `ExecuteStop` | a game action that is refused before or after its arguments are looked at, one that reaches the game with any outcome, the safety action |
| `Finish`, `Save`, `Crash`, `Restart` | `needs_chat_action_followup`, `save_state`, the end of the process, `load_state` |

`ModelRequest` holds the requests the provider makes in turn when a server
rejects one (400 or 422), each as the set of the fields a server may not know.
`ModelIsReached` says which servers are served natively. It is silent on one that
rejects both `max_completion_tokens` (or `reasoning_effort`, or `strict`) and
`temperature`: the third request, made from the first body, brings the temperature
back, so that this server gets no native tools although it knows them.

*Abstractions.* What the model answers and what the game does are free. A
message, a mission and a block are about "dirt", which stands for all resources
of low value, or about something else. `recent`, `tried`, `posted` and `stray`
are history.

*Bounds.* Three turns with up to two calls each, one message, one objective
(whose budget the code raises to at least two), one fault: a message, the
decision that answers it and the one after it, and a crash between an action and its record.
The behaviours are bounded, so deadlock is not checked.

### `Telemetry`: the status page

| Model | Code |
|---|---|
| `slot`, `Publish` | `PendingTelemetry`, `TelemetryPublisher::publish`: a new snapshot replaces the one that waits |
| `last`, `posting`, `clock`, `Take`, `Beat`, `PostEnds`, `PostFails`, `PostTimesOut` | `run_worker`: post what waits, or the last one again after a heartbeat |
| `sent`, `late`, `Handle`, `HandleLate` | `POST /agent/telemetry`, each request in its thread; one the worker has given up may still be handled, at any time |
| `store`, `PublishAt`, `Online` | `AgentTelemetryStore`: `publish_at`, `snapshot_at` |
| `page`, `PagePolls` | `poll` of `web/telemetry.js`: a snapshot is drawn when its revision is new |
| `BotRestarts`, `AgentDies`, `AgentStarts` | either process ends and starts again |

Time passes in units; what is due is done before time goes on. A snapshot is a
number and whether it shows a tool as running. Poisoned locks and a publisher
that is switched off are left out.

*Bounds.* The times of the code in units of two seconds (1, 1 and 4), five
snapshots (a turn from its request to the end of a tool), two faults.
*Fairness.* The worker and the request threads go on, and time passes; the
agent's loop may rest for ever.

### `SplitTransport` and `Session`: from the first packet to the last

`SplitTransport` is `handle_split`: the chunks of a large message arrive in any
order and more than once; each is acknowledged before it is looked at; a buffer
that has seen no chunk for ten seconds is dropped by the next chunk of any
message. The server comes back to a sequence number only when no chunk of the
earlier message is on its way.

`Session` instantiates it and is the loop of every subcommand that joins
(`handshake`, `login`, `connect`, `chat`, `observe`, `trace`, `move`, `follow`,
`followcmd`, `join`): `client` holds the variables of the loop, `React` what it
does with an event, `CheckDeadline`, `CheckReady`, `CommandStep` and `Periodic`
what follows in the same iteration, in this order. The server is modelled from
what the client expects of it: it takes packets in order, answers those that
fit its state, denies a wrong proof, makes the bot active after `client_ready`.
A reliable packet of the client that is lost stalls the server for ever (`Lose`),
since the client never repeats one. SRP is who computes with which key.

*Bounds.* All ten subcommands, every mechanism, a right and a wrong password;
one packet or chunk arrives twice; the map block comes back to the sequence
number of the item definitions. *Fairness.* What is on its way to the client
arrives (the server repeats it until it is acknowledged), the server works, the
clock runs and the loop looks at it. Modes end, so deadlock is not checked.

## 3. Runs

A run checks several statements under one name where they are the parts of one
question (`TransferInv`, `CraftInv`, `MiningInv`, ... are conjunctions of the
named parts, each commented in its module, the type invariant among them).

| Run | Expect | Shows |
|---|---|---|
| `transfer` | pass | `TransferInv`: an answer without `outcome_unknown` is the truth and stays it, nothing is invented or moved beyond the request, the order of the channel ties a callback without nonce to its receipt. `PrepareFindsSlotFree`: a cancelled action frees the slot before the next prepare arrives. `KeepsPromise`: the contract is implemented. Every request is answered. `SlotIInv`: the invariants of the proofs |
| `craft` | pass | `CraftInv`: nothing is left in the grid and the next craft finds room, unless the inventory was full. `CertainFailureConsumesNothing`: a craft that failed for certain has used nothing up, then or later. The contract of the transfers is implemented (`KeepsPromise`). Every craft is answered |
| `furnace` | pass | `LoadInv`: a load reported as full has moved both legs, no fuel is moved for a load whose input moved nothing. `FailedInputIsOver`: a load whose input failed moves nothing afterwards |
| `replies` | pass | no entry outlives its request (in `IInv`); answers are exchanged only after a request was abandoned or the network misbehaved; every registered request ends |
| `mining` | pass | `MiningInv`: the engine completes what it was told to start, no dig is left open. A reply without nonce is taken for its own attempt unless a prepare was given up or the network misbehaved. Every command ends |
| `navigation` | pass | `NavigationInv`: whatever moves the bot has a cause and the status shows it, native tasks overlap only through an arrival, a hunt has one chain of strikes. After a command the bot goes where it says unless a route was under way (`CommandPrevails`), a mining bot stands still, the end of following is reported |
| `anti_stuck` | pass | how long the bot may be without progress and that it gives up only after every detour had its time (`StallInv`), what counts as progress, and that a pursuit ends |
| `agent_chat` | pass | `LossNeedsCrowd`: a message is lost only to newer ones, or when `FetchLimit` unread ones were ahead of it. `NoticedRestartIsRead`: the same after a restart that was noticed. A message is answered again only after a mishap |
| `agent` | pass | `DecisionInv`: an objective serves the mission it was set under, one external action per decision. `BudgetBoundsActions`: a crash or failed save gives back at most the action of one decision. `AuthorityIsFresh`: missions only follow instructions, and low-value resources are gathered only when wanted. `ModelIsReached`: the sequence of requests serves every kind of server |
| `session` | pass | `SessionInv`: access is denied for a cause, commands find the bot ready, a bot that plays has its definitions. `ReassemblyIsFaithful`: chunks of two messages are never put together, an acknowledged chunk is not lost but by ten idle seconds. Modes with a time of their own end; `join` joins unless a packet of its own is lost |
| `telemetry` | pass | `TelemetryInv`: the agent is shown as online while posts succeed, the page misses nothing while the bot process runs. `BackOnlyByLatePost`. `TruthIsShown`: what is shown becomes true in the end, whatever was lost |
| `agent_suppression` | violation | a call is suppressed as a repeated failure although it was never tried: refusals for another reason count |

The violation is recorded under `findings` with the sentence of the
documentation it contradicts.

### Other disagreements with the documentation

These were met while modelling. Each has a configuration that shows it (TLC
reports the violation); they are not among the runs.

| Configuration, module | Property | The documentation says | The code |
|---|---|---|---|
| `PendingRepliesLate.cfg`, `PendingReplies` | `AnswersAreCorrelated` | `src/bot/replies.rs:1`: "Correlates asynchronous game chat replies with HTTP control requests." | the late answer of a request that timed out is delivered to the next request on its tag |
| `NativeMiningVerify.cfg`, `NativeMining` | `SuccessIsVerified` | `API.md:291`: "verifies that the server changed the node" | a repeated verify reply is counted as success of a later dig |
| `NativeMiningFront.cfg`, `NativeMining` | `MineDigsInFront` | `API.md:286`: "Dig the block in front of the bot" | `/mine` without a position digs the block of an earlier, abandoned command |
| `NavigationStop.cfg`, `Navigation` | `StopStops` | `API.md:211`: "Stop movement and follow." | a route asked for before `/stop` makes the bot walk after it |
| `NavigationFailure.cfg`, `Navigation` | `FailureStaysVisible` | `API.md:152`: "A failed navigation and its `last_error` remain visible until the next movement command or `/stop`." | a failure that is shown disappears without a command |
| `AgentChatRetained.cfg`, `AgentChat` | `ReadIsRetained` | `LLM.md:128`: "Player chat is retained in the state until the model successfully acknowledges it with `say`." | chat that was read is dropped, because a restarted bot process gave it the id of a message that is still pending |

One more is visible in the model of the telemetry without a run of its own:
`API.md:456` calls the revision monotonic, but it starts over with the bot
process, so that a page that stays open may take a new snapshot for one it has
drawn (`web/telemetry.js:319`). `PageMissesNothing` is therefore stated of one
bot process (`page.current`).

## 4. Proofs

Every theorem holds for all values of the constants under the assumption that
is named in the module that declares them (they are numbers, or sets without
certain elements). TLC evaluates the assumptions in the runs.

**`InventoryTransferProofs`**: `Spec => []IInv` and from it type correctness,
`CertainAnswerIsExact`, `ConfirmedNeverExceedsActual`, `NeverMovesTooMuch`,
`CallbackMeetsItsReceipt` (together `TransferInv`: `TransfersAreExact`), and
that the protocol implements the contract. The
properties are not inductive by themselves. That an answer given while
preparing is exact needs that nothing is on its way then (`MovesInFlight`: each
queued move is the current action's, uncounted, or belongs to an answer that
was uncertain). That a receipt's count is exact needs that its move has been
executed and no other was booked on it, which rests on the receipt slot
belonging to the moves in flight (`SlotOwner`), on prepares never being
followed by moves in the queue (`QueueOrder`) and on nonces being fresh
(`KnownNonces`). `PrepareKnowledge` and `ReceiptKnowledge` say what a reply in
flight tells about the current action. `PrepareFindsSlotFree` needs more about
the queue, `SlotOrder`: a receipt which the current action does not own, or which
a prepare in the queue will arm, is cancelled by something behind it in the
queue, and ahead of the next prepare; the only receipts without a cancel are the
current action's, and it has left the slot once its receipt was reported, so the
action that follows may go without one. `SlotIInv` adds it to `IInv`
(`SlotInvariance`).

**`HttpProofs`**: what the threads of the HTTP server share with the agent and
the bot. Of the telemetry, `TelemetryInv` and `BackOnlyByLatePost`, for any times
of which two posts and the wait between them fit in the TTL (`TtlAssumption`;
with the code's constants, six of eight seconds). `SteadyAge` bounds the age of
the store by where the worker is in its cycle; `Order` says that what is sent
is what was taken last, that nothing taken is newer, and that what waits in the
slot is newer than all that was taken; `PageKnows` relates the revisions the
page has seen to the store's. Of the reply table (`PendingReplies`, as the
instance `R` of `ReplyTable`),
`EntryHasOwner` and `OwnAnswerUnlessAbandoned`: `R!IInv` adds that a sender is in
one place only (`OneSender`: the table, or the loop's hands) and that, as long as
all is calm, at most one exchange is under way, its command, question or answer
being that of the thread that waits (`OneExchange`).

**`NativeMiningProofs`**: `MiningInv` and `OwnRepliesUnlessAbandoned`, for any
positions and numbers of commands. What the engine digs and what the task digs
differ by the interactions that are still in the channel: each completion finds
its own dig there (`Completes`), and the queue as a whole leaves the engine where
the task is (`Leaves`), which every packet sent and taken preserves. That a reply
is taken for its own attempt needs `Order`: while all is in order, a prepare
without answer is the current attempt's and nothing was asked after it, and once
it was heard only the verification of its own dig is asked. A helper whose
replies cannot be read never gets a dig started (`Readable`).

**`FurnaceLoadProofs`**: `LoadInv` and `FailedInputIsOver`, for any number of
loads, transfers and items. It argues from `TransferContract` alone, so that it
holds for any protocol below that keeps the contract, which
`InventoryTransferProofs` shows of the one in the code. `Once` says that a leg is
tried by one command that becomes one transfer at most, `CourseOf` what the place
of a thread tells about its legs, `Linked` that as long as all is calm commands
and transfers without answer belong to the thread that waits and whose entry is
in the table, and `HeardOf` that what a thread has heard is the answer of its
own transfer, or a refusal without one.

**`NavigationProofs`**: `NavigationInv` and `CommandPrevails`, and the action
properties `MiningStandsStill` and `EndOfFollowIsReported`, for routes of any
length and any number of commands, detours and strikes. That a hunt has one chain
of strikes follows from its steps being exactly those of the hunt that is going on
(`HuntPart`). That a command prevails needs that nothing is under way that could
give the bot another goal (`Quiet`: no hunt of the helper, in the channel, or
among the replies still to be read, and no tag waiting), which a command
establishes unless it is `owed`, and every step keeps unless the network
misbehaves; and that following which has ended left neither a goal nor a collect
on arrival, which would hide its failure (`IntentPart`). The same module proves
the bounds of the stall detection, which is a part of the bot's tick (`AntiStuck`,
as the instance `A` of `Recovery`): `StallInv`, `BestOnlyShrinks` and
`DetourKeepsHeading`, for any places, distances and times. The invariant relates
the history of the time without progress to the timers (`Clock`) and the turns
taken to the attempts; a pursuit without progress ends after at most `MaxDetours`
stretches of stall and detour and one more stall, each late by less than a tick.

**`AgentProofs`**: the agent process, its decisions and its chat.
Of the decisions (`AgentDecision`), `DecisionInv`, `BudgetBoundsActions`,
`AuthorityIsFresh` and `ModelIsReached`, for any places, servers, limits and
faults. The budget is bounded because memory has charged every action
(`Charged(agent, faults)`) and the file all but those lost with a fault and, until
it is saved, the one of this decision (`Unsaved`): a crash exchanges the one for
the other. Authority is fresh because what was heard last is among what waits for
an answer (`Sound`), and a decision passes its authority on only if it has just
answered (`AuthorityPart`); its `say` is only kept when a message waits
(`DecideCalls`). `LadderHolds` finds the first request of the ladder each kind of
server accepts.
Of the chat (`AgentChat`, as the instance `C` of `PlayerChat`), all three safety
properties and the type invariant, for any limits. A cursor either belongs to
this run of the bot process (`Aligned`: ids say which message is meant) or is
above all ids, which shows it is not; `AllKept` follows a message through log,
poll, queue and file; what is left out of the newest of a set has that many newer
ones above it (`LeftOut`), which are no noise (`Crowds`), and what the next poll
cannot reach is known to be behind (`Tracked`); `Repeats` counts answers against
mishaps.

**`SessionProofs`**: `SessionInv` and `ReassemblyIsFaithful`, for any of the
subcommands and any number of repeated packets (`None` is neither a message nor a
buffer: `NoneAssumption`). What an iteration may do to the loop's variables with
the packets it sends is a predicate of its own (`Good`), which the reaction of
each mode establishes and each later step of the iteration preserves. On it rest
four parts: `HelloPart` counts the Hellos that were said, repeated and handled, of
which every one makes a key at most; `KeyPart` says that the first key is ahead of
all others in the queue, so that it is the one the server computes with;
`OrderPart` that INIT2 is ahead of `client_ready` and that ahead of the chat
commands, and that what a client has sent is in the queue until the server has
taken it, unless a packet was lost; `WorldPart` that `client_ready` is sent by a
client whose definitions were assembled. `SplitPart` is what makes reassembly
faithful although sequence numbers are reused: the chunks of one number on the
wire are of one message, and so is a buffer, unless it will be dropped before the
next chunk is put in.

**`NativeCraftProofs`**: `CraftInv`, `CertainFailureConsumesNothing` and that a
craft implements the contract of the transfers (`KeepsPromise`), for any crafts,
recipes, slots and counts. `PlanAssumption` says that there is a largest plan: a
request asks for at most 64 items, and a batch yields at most a stack. The
invariant is about the queue of packets and commands to the server, in two parts.
`KeptPart`: whatever moves in the queue is of one craft (`MovesPart`); there is one
craft packet, and it finds the result slot empty (`CraftPart`), so that what is in
the slot or has left it is of the craft that will move it (`OwnerPart`) and stays
there after a certain answer (`CertainPart`); a craft whose packet has left is
open, or was answered by something that leaves room for it (`ConsumedPart`); a
reply in flight to the current task means that all it has sent was executed
(`TellPart`), and the receipt never records more than has moved (`RecordPart`).
`ClearPart` looks
ahead, unless items got stuck in a full inventory: what is or will be put into a
slot of the grid is moved out (`GridClear`), and what is or will be armed is
cancelled (`SlotClear`), by something that is queued behind it and ahead of the
next prepare. From its placing on, nothing is queued yet that empties the grid of a
task: of it `GridClear` is only claimed while it is being prepared and when it is
over, and each way it can end queues the cleaning and the cancel in one step.

Every invariant and every action property of the passing runs, and each refinement
of `TransferContract`, is stated by a theorem. Only model-checked are the liveness
properties (`EveryRequestIsAnswered`, `EveryCraftIsAnswered`, `EveryTaskEnds`,
`RequestCompletes`, `PursuitEnds`, `TimedModesEnd`, `JoinCompletes`,
`TruthIsShown`): fairness and ENABLED are out of the prover's reach.

## 5. Plan

Modelled first: transfers, because items may be lost; then what every request
rests on (reply table), the other native task with a protocol, movement, and
the chat; then crafting, the session with its transport, the agent's decisions,
telemetry and the furnace load. What is left, in this order:

1. The composition of crafting, mining and transfers over the one receipt slot:
   today each has a module of its own, and the others appear as a bot that is
   busy.
2. Passive mode, timers and threats of the agent.

The runs are few and each checks all properties of its module, safety and
liveness together.

## 6. Not modelled

- Map decoding, physics, path search, rendering of observations, prompts,
  packet formatting, SRP arithmetic: pure computations without a protocol of
  their own.
- Observation, entities, validation of parameters: read-only views of the world
  and checks of single values.
- Of the agent: passive mode, tool aliases and the filters of what is offered,
  narration, threats and timers, the limit of the action history (older failures
  are forgotten, which only lifts a suppression), the mode without autonomy.
- Of the helper: single-shot actions (place, drop, wield, use, sleep), which keep
  no state.
- Of the HTTP server: parsing and formatting of requests, limits of their size.

`PROJECT.json` lists each component with what is modelled of it and why the rest
is not.
