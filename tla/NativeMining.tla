---------------------------- MODULE NativeMining ----------------------------
(***************************************************************************)
(* Native digging: the task of src/bot/tasks/mining.rs, the two helper     *)
(* commands bot_prepare_mine and bot_verify_mine of scripts/init.lua, and  *)
(* the digging state of the engine.                                        *)
(*                                                                         *)
(* Each target is prepared, dug (start, wait, complete) and verified; a    *)
(* target that fails is skipped for the next one.  The replies carry the   *)
(* position but, unlike those of the inventory transfers, no nonce.        *)
(*                                                                         *)
(* Channels as in InventoryTransfer: in order towards the server, late,    *)
(* repeated and out of order towards the bot.  Deadlines pass at any       *)
(* moment.  History variables number each attempt on a target; the program *)
(* has no such number and no guard reads it.                               *)
(***************************************************************************)
EXTENDS Integers, Sequences, FiniteSets

CONSTANTS
  Positions,    \* positions of blocks
  InFront,      \* the position in front of the bot (front_pos)
  Names,        \* node names of diggable blocks
  MaxJobs,      \* bound: mining commands accepted in a behaviour
  MaxTargets,   \* bound: candidates of one task (8 in the code)
  MaxChanges,   \* bound: changes that others make to the world
  MaxDisturbances \* bound: replies received again or out of order

ASSUME MiningAssumption ==
  /\ InFront \in Positions
  /\ "air" \notin Names
  /\ Positions \intersect {"front", "none"} = {}
  /\ "any" \notin Names
  /\ MaxJobs \in Nat
  /\ MaxTargets \in Nat \ {0}
  /\ MaxChanges \in Nat
  /\ MaxDisturbances \in Nat

VARIABLES
  \* the bot
  phase,        \* NativeMiningPhase, or "idle" when there is no task
  task,         \* NativeMiningTask with its requested target or PreparedDig
  \* the server
  helper,       \* "json", or "unreadable": serialized or unsupported replies
  node,         \* the world
  digging,      \* the position the engine has the bot digging at, or "none"
  \* the network
  toServer,     \* commands and interactions on their way to the server
  replies,      \* all replies of the helper
  next,         \* the first one that was not yet received
  \* history
  job,          \* commands accepted
  attempt,      \* attempts on a target so far
  changes,      \* changes made by others
  disturbances, \* replies received again or out of order
  abandoned,    \* a prepare was given up before its reply came
  foreign,      \* what was taken from a reply to another attempt
  answered      \* commands that have been answered

clientVars == <<phase, task, job, attempt, abandoned, answered>>
serverVars == <<node, digging, changes, replies>>
vars == <<phase, task, helper, node, digging, toServer, replies, next, job,
          attempt, changes, disturbances, abandoned, foreign, answered>>

-----------------------------------------------------------------------------
(* Data *)

\* candidates of native_collect_targets: the bot's copy of the map, which may
\* be out of date, holds the name there
Candidates ==
  UNION { { s \in [1..n -> Positions] : \A i, j \in 1..n : s[i] = s[j] => i = j } :
            n \in 0..MaxTargets }

NoTask == [requested |-> 0, node |-> "any", targets |-> <<>>, target |-> "front",
           mined |-> 0, failed |-> 0]

Packet(type, at, name) == [type |-> type, at |-> at, node |-> name, of |-> attempt]
Answer(type, ok, at, name, of) ==
  [type |-> type, ok |-> ok, at |-> at, node |-> name, of |-> of]

TypeOK ==
  /\ phase \in {"idle", "preparing", "digging", "verifying"}
  /\ task.node \in Names \union {"any"}
  /\ task.target \in Positions \union {"front"}
  /\ phase # "idle" => task.mined < task.requested
  /\ task.mined + task.failed + Len(task.targets)
       + (IF phase = "idle" THEN 0 ELSE 1) <= MaxTargets
  /\ digging \in Positions \union {"none"}
  /\ node \in [Positions -> Names \union {"air"}]
  /\ next \in 1..Len(replies) + 1
  /\ answered = job - (IF phase = "idle" THEN 0 ELSE 1)

Init ==
  /\ phase = "idle" /\ task = NoTask
  /\ helper \in {"json", "unreadable"}
  /\ node \in [Positions -> Names \union {"air"}]
  /\ digging = "none"
  /\ toServer = <<>> /\ replies = <<>> /\ next = 1
  /\ job = 0 /\ attempt = 0 /\ changes = 0
  /\ disturbances = 0 /\ abandoned = FALSE /\ foreign = {}
  /\ answered = 0

-----------------------------------------------------------------------------
(* The task *)

\* finish_native_mining: the answer is computed from the task's counters
Finish ==
  /\ answered' = answered + 1
  /\ phase' = "idle"
  /\ task' = NoTask
  /\ UNCHANGED attempt

\* continue_native_mining, after `sent' has been sent
Continue(t, sent) ==
  IF t.mined >= t.requested \/ t.targets = <<>>
  THEN Finish /\ toServer' = toServer \o sent
  ELSE /\ attempt' = attempt + 1
       /\ toServer' = (toServer \o sent)
            \o <<[type |-> "prepare", at |-> Head(t.targets), node |-> "any", of |-> attempt + 1]>>
       /\ phase' = "preparing"
       /\ task' = [t EXCEPT !.targets = Tail(@), !.target = Head(t.targets)]
       /\ UNCHANGED answered

Failed(t) == [t EXCEPT !.failed = @ + 1]

\* fail_current_native_target
FailTarget(sent) == Continue(Failed(task), sent)

\* /mine has one target, a position or whatever is in front; /collect and a
\* collect on arrival have a name, a count and candidates.  With no candidate
\* a failure is recorded first; the answer is the same.
Start(name, count, targets) ==
  /\ phase = "idle"
  /\ job < MaxJobs
  /\ job' = job + 1
  /\ Continue([NoTask EXCEPT !.requested = count, !.node = name, !.targets = targets], <<>>)
  /\ UNCHANGED <<serverVars, helper, next, disturbances, abandoned, foreign>>

Mine == \E at \in Positions \union {"front"} : Start("any", 1, <<at>>)
Collect == \E name \in Names, count \in 1..MaxTargets, s \in Candidates : Start(name, count, s)

\* handle_native_mine_prepare
HandlePrepare(r) ==
  IF phase # "preparing" THEN UNCHANGED <<phase, task, toServer, attempt, answered, foreign>>
  ELSE IF \/ ~r.ok
          \/ task.target # "front" /\ task.target # r.at
          \/ task.node # "any" /\ task.node # r.node
  THEN FailTarget(<<>>) /\ UNCHANGED foreign
  ELSE /\ phase' = "digging"
       /\ task' = [task EXCEPT !.target = r.at, !.node = r.node]
       /\ toServer' = Append(toServer, Packet("start", r.at, r.node))
       /\ foreign' = foreign \union (IF r.of = attempt THEN {} ELSE {"prepare"})
            \union (IF task.target = "front" /\ r.at # InFront THEN {"elsewhere"} ELSE {})
       /\ UNCHANGED <<attempt, answered>>

\* handle_native_mine_verify
HandleVerify(r) ==
  IF phase # "verifying" THEN UNCHANGED <<phase, task, toServer, attempt, answered, foreign>>
  ELSE IF r.at # task.target \/ ~r.ok
  THEN FailTarget(<<>>) /\ UNCHANGED foreign
  ELSE /\ Continue([task EXCEPT !.mined = @ + 1], <<>>)
       /\ foreign' = IF r.of = attempt THEN foreign ELSE foreign \union {"verify"}

\* an invalid payload, or "Invalid command" of a server without the helper
HandleUnreadable ==
  IF phase = "idle" THEN UNCHANGED <<phase, task, toServer, attempt, answered, foreign>>
  ELSE FailTarget(<<>>) /\ UNCHANGED foreign

Hear ==
  \E i \in 1..Len(replies) :
    /\ next' = IF i >= next THEN i + 1 ELSE next
    /\ disturbances' = disturbances + (IF i = next THEN 0 ELSE 1)
    /\ disturbances' <= MaxDisturbances
    /\ CASE replies[i].type = "prepare" -> HandlePrepare(replies[i])
         [] replies[i].type = "verify" -> HandleVerify(replies[i])
         [] OTHER -> HandleUnreadable
    /\ UNCHANGED <<serverVars, helper, job, abandoned>>

\* mutant: no deadline while verifying
TimeoutPreparing ==
  /\ phase = "preparing"
  /\ abandoned' = TRUE
  /\ FailTarget(<<>>)
  /\ UNCHANGED <<serverVars, helper, next, job, disturbances, foreign>>

\* mutant: a prepare is repeated at its deadline
TimeoutRetries ==
  /\ phase \in {"preparing", "verifying"}
  /\ IF phase = "verifying" THEN FailTarget(<<>>)
     ELSE /\ Len(toServer) < 3
          /\ toServer' = Append(toServer, Packet("prepare", task.target, "any"))
          /\ UNCHANGED <<phase, task, attempt, answered>>
  /\ UNCHANGED <<serverVars, helper, next, job, disturbances, abandoned, foreign>>

\* The deadline of a prepare or of a verification passes.
Timeout ==
  /\ phase \in {"preparing", "verifying"}
  /\ abandoned' = (abandoned \/ phase = "preparing")
  /\ FailTarget(<<>>)
  /\ UNCHANGED <<serverVars, helper, next, job, disturbances, foreign>>

\* The dig time is over and the target still within reach.
Complete ==
  /\ phase = "digging"
  /\ phase' = "verifying"
  /\ toServer' = toServer \o <<Packet("complete", task.target, task.node),
                               Packet("verify", task.target, task.node)>>
  /\ UNCHANGED <<task, job, attempt, abandoned, answered, serverVars, helper, next,
                 disturbances, foreign>>

\* mutant: the dig is left open
LeaveRange ==
  /\ phase = "digging"
  /\ FailTarget(<<>>)
  /\ UNCHANGED <<serverVars, helper, next, job, disturbances, abandoned, foreign>>

\* The dig time is over and the bot has been moved out of reach.
OutOfRange ==
  /\ phase = "digging"
  /\ FailTarget(<<Packet("stop", task.target, task.node)>>)
  /\ UNCHANGED <<serverVars, helper, next, job, disturbances, abandoned, foreign>>

\* cancel_native_mining
Stop ==
  /\ phase # "idle"
  /\ abandoned' = (abandoned \/ phase = "preparing")
  /\ Continue([Failed(task) EXCEPT !.targets = <<>>],
              IF phase = "digging" THEN <<Packet("stop", task.target, task.node)>> ELSE <<>>)
  /\ UNCHANGED <<serverVars, helper, next, job, disturbances, foreign>>

-----------------------------------------------------------------------------
(* The server *)

Take(type) ==
  /\ toServer # <<>>
  /\ Head(toServer).type = type
  /\ toServer' = Tail(toServer)
  /\ UNCHANGED <<clientVars, helper, next, disturbances, foreign>>

\* bot_prepare_mine: protection, range, tools and node callbacks may refuse any
\* block.
ServerPrepare ==
  /\ Take("prepare")
  /\ LET c == Head(toServer)
         at == IF c.at = "front" THEN InFront ELSE c.at
     IN replies' \in { Append(replies, r) : r \in
          IF helper # "json" THEN {Answer("unreadable", FALSE, at, "any", c.of)}
          ELSE {Answer("prepare", FALSE, at, "any", c.of)}
                 \union (IF node[at] = "air" THEN {}
                         ELSE {Answer("prepare", TRUE, at, node[at], c.of)}) }
  /\ UNCHANGED <<node, digging, changes>>

\* bot_verify_mine; the position may have been unloaded.
ServerVerify ==
  /\ Take("verify")
  /\ LET c == Head(toServer)
     IN replies' \in { Append(replies, Answer("verify", ok, c.at, "any", c.of)) :
                         ok \in {FALSE, node[c.at] # c.node} }
  /\ UNCHANGED <<node, digging, changes>>

EngineStart ==
  /\ Take("start")
  /\ digging' = Head(toServer).at
  /\ UNCHANGED <<node, changes, replies>>

\* The engine digs the block it had the bot digging at, or refuses.
EngineComplete ==
  /\ Take("complete")
  /\ digging' = "none"
  /\ LET at == Head(toServer).at
     IN node' \in {node, IF digging = at THEN [node EXCEPT ![at] = "air"] ELSE node}
  /\ UNCHANGED <<changes, replies>>

EngineStop ==
  /\ Take("stop")
  /\ digging' = "none"
  /\ UNCHANGED <<node, changes, replies>>

\* Other players and the game change the world.
Change ==
  /\ changes < MaxChanges
  /\ changes' = changes + 1
  /\ \E at \in Positions, n \in Names \union {"air"} :
       n # node[at] /\ node' = [node EXCEPT ![at] = n]
  /\ UNCHANGED <<clientVars, helper, digging, replies, next, toServer, disturbances, foreign>>

Next ==
  \/ Mine \/ Collect \/ Hear \/ Timeout \/ Complete \/ OutOfRange \/ Stop
  \/ ServerPrepare \/ ServerVerify \/ EngineStart \/ EngineComplete \/ EngineStop
  \/ Change

Spec == Init /\ [][Next]_vars

\* advance_native_mining runs in every round of the loop.
FairSpec == Spec /\ WF_vars(Timeout) /\ WF_vars(Complete \/ OutOfRange)

-----------------------------------------------------------------------------
(* Properties *)

\* The engine completes a dig only where it has the bot digging: between the
\* two interactions of a target the bot sends nothing that starts or stops
\* another dig, whatever fails, times out or is cancelled.
CompletionMatchesStart ==
  toServer # <<>> /\ Head(toServer).type = "complete" => digging = Head(toServer).at

\* No way out of the digging phase leaves the engine digging.
DigIsClosed == phase # "digging" /\ toServer = <<>> => digging = "none"

\* The engine and the task agree on what is being dug.
MiningInv == TypeOK /\ CompletionMatchesStart /\ DigIsClosed

\* As long as the network keeps the order and every prepare is answered in time,
\* a reply without nonce is taken for the attempt it answers: also after a
\* verification was given up.
OwnRepliesUnlessAbandoned == foreign # {} => disturbances > 0 \/ abandoned

\* Every mining command comes to an end although any reply may be missing.
EveryTaskEnds == phase # "idle" ~> phase = "idle"

\* "Rust then ... sends digging-completed, and verifies that the server changed
\* the node" (API.md:291): a success is counted by the verification of its own
\* dig.  The verification of an earlier attempt ran before this dig had begun.
SuccessIsVerified == "verify" \notin foreign

\* "Dig the block in front of the bot" (API.md:286).
MineDigsInFront == "elsewhere" \notin foreign
=============================================================================
