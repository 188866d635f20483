--------------------------- MODULE AgentDecision ---------------------------
(***************************************************************************)
(* The agent's loop from one observation to the next                       *)
(* (src/agent/runtime.rs) with the state it keeps: the mission, the        *)
(* bounded objective, the record of failures (src/agent/state.rs), and the *)
(* checks a tool call passes before it reaches the game                    *)
(* (src/agent/tools.rs, policy.rs, planner.rs).                            *)
(*                                                                         *)
(* What the language model answers is a free choice, and so are the        *)
(* results of the game and the timers: a turn of the loop may always lead  *)
(* to a decision, and must when a new message has come.  A message, a      *)
(* mission and a block are about "dirt", which stands for resources of low *)
(* value, or about something else.  The chat log and the cursor of the     *)
(* poll are the subject of AgentChat.                                      *)
(***************************************************************************)
EXTENDS ModelRequest, FiniteSets

CONSTANTS
  Places,        \* positions of the bot
  Budgets,       \* action budgets the model asks for
  Servers,       \* sets of fields that language model servers reject
  MaxToolCalls,  \* max_tool_calls
  MaxReturned,   \* bound: calls in an answer of the model
  MaxTurns,      \* bound: turns of the loop
  MaxMessages,   \* bound: messages of players
  MaxObjectives, \* bound: objectives set
  MaxFaults,     \* bound: crashes and failed saves
  None

Topics == {"dirt", "other"}

ASSUME AgentAssumption ==
  /\ Budgets \subseteq Nat /\ Servers \subseteq SUBSET Fields
  /\ {MaxToolCalls, MaxReturned, MaxTurns, MaxMessages, MaxObjectives, MaxFaults} \subseteq Nat
  /\ Places # {} /\ None \notin Topics

\* External actions, the last one a safety action.
Gather == {"dirt", "stone"}
External == Gather \cup {"stop"}

Call(tool, arg) == [tool |-> tool, arg |-> arg]

Calls ==
  {Call(t, None) : t \in External \cup {"say", "finish_goal", "finish_objective"}}
    \cup {Call("set_goal", topic) : topic \in Topics}
    \cup {Call("set_objective", n) : n \in Budgets}

\* is_external_game_tool
IsExternal(call) == call.tool \in External

VARIABLES
  pc,           \* where the loop is
  agent,        \* AgentState
  file,         \* the state file
  \* local variables of the loop and of its decision
  calls, newChat, followup, turn, taken, succeeded, spoke, unavailable, dead,
  \* history
  turns, messages, objectives, faults,
  posted,       \* [objective -> game actions it has taken]
  now,          \* game actions of this decision
  recent,       \* topics of the messages of this decision and the last
  tried,        \* game actions and places they were tried at with their arguments
  stray         \* what a decision did that it should not

locals == <<calls, newChat, followup, turn, taken, succeeded, spoke, unavailable, dead>>
history == <<turns, messages, objectives, faults, posted, now, recent, tried, stray>>
vars == <<pc, agent, file, locals, history>>

Goal(topic, origin) == [topic |-> topic, origin |-> origin]

Goals == {Goal(t, o) : t \in Topics, o \in {"player", "configured"}} \cup {None}

\* `for' is the mission an objective was set under, `number' names it.
Objectives ==
  [budget : 2..12, used : Nat, for : Goals, number : 1..MaxObjectives] \cup {None}

\* AgentState::default, with the configured mission of run_agent_loop.
\* `failures' counts the failures of an action at a place since it last
\* succeeded there, as far as they matter.
NewAgent(initial) ==
  [goal |-> initial, objective |-> None, pending |-> {}, heard |-> None,
   place |-> CHOOSE p \in Places : TRUE,
   failures |-> [at \in Gather \X Places |-> 0]]

InitialGoals == {None, Goal("other", "configured")}

\* The calls of a decision, at most.
Limit == IF MaxToolCalls < 1 THEN 1 ELSE IF MaxToolCalls > 8 THEN 8 ELSE MaxToolCalls

TypeOK ==
  /\ pc \in {"poll", "observe", "choose", "execute", "save", "down"}
  /\ agent.goal \in Goals /\ agent.objective \in Objectives
  /\ agent.pending \subseteq Topics /\ agent.heard \in Topics \cup {None}
  /\ agent.place \in Places /\ agent.failures \in [Gather \X Places -> 0..2]
  /\ calls \in Seq(Calls) /\ Len(calls) <= Limit
  /\ {newChat, followup, turn, taken, succeeded, spoke, dead} \subseteq BOOLEAN
  /\ unavailable \subseteq Gather
  /\ stray \subseteq {"goal", "dirt", "suppressed"}

Init ==
  /\ pc = "poll"
  /\ \E initial \in InitialGoals : agent = NewAgent(initial)
  /\ file = None
  /\ calls = <<>> /\ newChat = FALSE /\ followup = FALSE /\ turn = FALSE
  /\ taken = FALSE /\ succeeded = FALSE /\ spoke = FALSE
  /\ unavailable = {} /\ dead = FALSE
  /\ turns = 0 /\ messages = 0 /\ objectives = 0 /\ faults = 0
  /\ posted = [n \in 1..MaxObjectives |-> 0] /\ now = 0
  /\ recent = <<{}, {}>> /\ tried = {} /\ stray = {}

-----------------------------------------------------------------------------
(* AgentState *)

\* Mutant: the objective goes on under the new mission.
SetGoalOnly(a, goal) == [a EXCEPT !.goal = goal]

\* set_goal_with_origin
SetGoal(a, goal) == [a EXCEPT !.goal = goal, !.objective = None]

\* finish_goal, when there is a goal.
FinishGoal(a) == [a EXCEPT !.goal = None, !.objective = None]

Clamp(n) == IF n < 2 THEN 2 ELSE IF n > 12 THEN 12 ELSE n

\* set_objective, when there is none.
SetObjective(a, n) ==
  [a EXCEPT !.objective = [budget |-> Clamp(n), used |-> 0, for |-> a.goal,
                           number |-> objectives + 1]]

\* objective_budget_exhausted
BudgetExhausted(a) == a.objective # None /\ a.objective.used >= a.objective.budget

\* repeated_failure_reason: the limit is two.
Suppressed(a, act) == a.failures[<<act, a.place>>] >= 2

\* Mutant: only what succeeds is charged.
ChargeSuccess(a, ok) ==
  IF a.objective = None \/ ~ok THEN a ELSE [a EXCEPT !.objective.used = @ + 1]

\* record_result: an external action is charged to the objective, whatever
\* came of it.
Charge(a, ok) ==
  IF a.objective = None THEN a ELSE [a EXCEPT !.objective.used = @ + 1]

\* record_result of an action at a place; a transient failure does not count.
Record(a, act, ok, transient) ==
  LET counted == IF ok THEN 0
                 ELSE IF transient \/ a.failures[<<act, a.place>>] = 2 THEN a.failures[<<act, a.place>>]
                 ELSE a.failures[<<act, a.place>>] + 1
  IN Charge([a EXCEPT !.failures = [@ EXCEPT ![<<act, a.place>>] = counted]], ok)

\* low_value_request_is_authorized
Authorized(a) ==
  \/ a.goal # None /\ a.goal.topic = "dirt"
  \/ turn /\ "dirt" \in a.pending \cup {a.heard}

-----------------------------------------------------------------------------
(* One turn of the loop *)

\* Messages of players since the last poll: none, one that is read, or a
\* command that sets or clears the mission at once.  All of them wait for an
\* answer.
Heard(a, topic) == [a EXCEPT !.pending = @ \cup {topic}, !.heard = topic]

\* apply_chat_goal_commands
CommandGoal(a, topic) == SetGoal(a, Goal(topic, "player"))

CommandCancel(a) == IF a.goal = None THEN a ELSE FinishGoal(a)

Poll ==
  /\ pc = "poll" /\ turns < MaxTurns
  /\ turns' = turns + 1
  /\ \/ /\ newChat' = FALSE
        /\ UNCHANGED <<agent, messages>>
     \/ /\ messages < MaxMessages
        /\ messages' = messages + 1 /\ newChat' = TRUE
        /\ \E topic \in Topics :
             agent' \in {Heard(agent, topic), Heard(CommandGoal(agent, topic), topic),
                         Heard(CommandCancel(agent), topic)}
  /\ pc' = "observe"
  /\ UNCHANGED <<file, calls, followup, turn, taken, succeeded, spoke, unavailable, dead,
                 objectives, faults, posted, now, recent, tried, stray>>

\* fetch_observation and update_observation.
Observe ==
  /\ pc = "observe"
  /\ \E p \in Places, d \in BOOLEAN : agent' = [agent EXCEPT !.place = p] /\ dead' = d
  /\ pc' = "choose"
  /\ UNCHANGED <<file, calls, newChat, followup, turn, taken, succeeded, spoke, unavailable, history>>

\* It failed: the turn is over.
ObserveFails ==
  /\ pc = "observe"
  /\ pc' = "save" /\ newChat' = FALSE
  /\ UNCHANGED <<agent, file, calls, followup, turn, taken, succeeded, spoke, unavailable, dead, history>>

\* The variables of one turn are dead when it is over.
Forget ==
  /\ calls' = <<>> /\ newChat' = FALSE /\ turn' = FALSE /\ dead' = FALSE
  /\ taken' = FALSE /\ succeeded' = FALSE /\ spoke' = FALSE

\* No reason to decide.
Wait ==
  /\ pc = "choose" /\ ~newChat
  /\ pc' = "save" /\ Forget
  /\ UNCHANGED <<agent, file, followup, unavailable, history>>

\* The request to the model failed, or its server knows too little.
RequestFails ==
  /\ pc = "choose"
  /\ pc' = "save" /\ Forget
  /\ UNCHANGED <<agent, file, followup, unavailable, history>>

Say == Call("say", None)

\* The answers of the model: calls of native tools, or one JSON action, whose
\* name is "stop" when it has none, or text.
Answers(kind) ==
  IF kind = "native" THEN UNION {[1..n -> Calls] : n \in 0..MaxReturned}
  ELSE IF kind = "legacy" THEN {<<c>> : c \in Calls} \cup {<<>>}
  ELSE {}

\* Mutant: `say' is kept although no message waits for an answer.
UsableSay(answer) == {i \in DOMAIN answer : answer[i].tool \notin unavailable}

\* The calls that are kept, by their place in the answer.
Usable(answer) ==
  {i \in DOMAIN answer : /\ answer[i].tool = "say" => agent.pending # {}
                         /\ answer[i].tool \notin unavailable}

\* Text becomes an answer to a waiting message, and one is acknowledged although
\* the model does not.
Acknowledgement(answer, kept, text) ==
  IF agent.pending # {} /\ (kept # {} \/ text) /\ \A i \in kept : answer[i].tool # "say"
    THEN <<Say>> ELSE <<>>

\* Bookkeeping first, then the external actions.
Before(answer, i, j) ==
  IF IsExternal(answer[i]) = IsExternal(answer[j]) THEN i < j ELSE IsExternal(answer[j])

\* Not too many.
Selected(list) == SubSeq(list, 1, IF Len(list) < Limit THEN Len(list) ELSE Limit)

\* is_player_instruction_turn
InstructionTurn == agent.pending # {} \/ followup

Decide ==
  /\ pc = "choose"
  /\ \E kind \in {Answer(Chat, s) : s \in Servers} \ {"failed"} :
     \E answer \in Answers(kind), text \in BOOLEAN :
     \E order \in [1..Cardinality(Usable(answer)) -> Usable(answer)] :
       /\ \A m, n \in DOMAIN order : m < n => Before(answer, order[m], order[n])
       /\ calls' = Selected(Acknowledgement(answer, Usable(answer), text)
                              \o [n \in DOMAIN order |-> answer[order[n]]])
  /\ turn' = InstructionTurn
  /\ taken' = FALSE /\ succeeded' = FALSE /\ spoke' = FALSE
  /\ recent' = <<recent[2], agent.pending>>
  /\ pc' = "execute"
  /\ UNCHANGED <<agent, file, newChat, followup, unavailable, dead,
                 turns, messages, objectives, faults, posted, now, tried, stray>>

-----------------------------------------------------------------------------
(* Execution of the calls *)

\* The next call is one of `tool'; after an external one no other is executed.
Next1(tool) ==
  /\ pc = "execute" /\ ~taken /\ calls # <<>>
  /\ Head(calls).tool = tool
  /\ calls' = Tail(calls)
  /\ UNCHANGED <<pc, file, newChat, followup, turn, dead, turns, messages, faults, recent>>

bookkeeping == <<taken, succeeded, unavailable, posted, now, tried>>

\* The reply reaches the game's chat, or it does not.
ExecuteSay ==
  /\ Next1("say")
  /\ \/ agent' = [agent EXCEPT !.pending = {}] /\ spoke' = TRUE
     \/ UNCHANGED <<agent, spoke>>
  /\ UNCHANGED <<bookkeeping, objectives, stray>>

\* A mission needs a current instruction, and one of low value a request.
ExecuteSetGoal ==
  /\ Next1("set_goal")
  /\ LET topic == Head(calls).arg IN
       IF turn /\ (topic = "dirt" => Authorized(agent))
         THEN /\ agent' = SetGoal(agent, Goal(topic, "player"))
              /\ stray' = IF recent = <<{}, {}>> THEN stray \cup {"goal"} ELSE stray
         ELSE UNCHANGED <<agent, stray>>
  /\ UNCHANGED <<bookkeeping, spoke, objectives>>

ExecuteFinishGoal ==
  /\ Next1("finish_goal")
  /\ agent' = IF agent.goal = None THEN agent ELSE FinishGoal(agent)
  /\ UNCHANGED <<bookkeeping, spoke, objectives, stray>>

ExecuteSetObjective ==
  /\ Next1("set_objective")
  /\ IF agent.objective = None /\ objectives < MaxObjectives
       THEN agent' = SetObjective(agent, Head(calls).arg) /\ objectives' = objectives + 1
       ELSE UNCHANGED <<agent, objectives>>
  /\ UNCHANGED <<bookkeeping, spoke, stray>>

ExecuteFinishObjective ==
  /\ Next1("finish_objective")
  /\ agent' = [agent EXCEPT !.objective = None]
  /\ UNCHANGED <<bookkeeping, spoke, objectives, stray>>

\* external_action_taken: whatever came of it.
EndsDecision(ok) == taken' = TRUE

\* execute_tool: a spent budget, or the same call failed here before.
IsBlocked(act) == BudgetExhausted(agent) \/ Suppressed(agent, act)

\* execute_checked: a dead bot acts no more, and dirt must be asked for.
MayBePosted(act) == ~dead /\ (act = "dirt" => Authorized(agent))

\* What does not reach the game fails, and is recorded like a failed action.
Refuse(act) ==
  /\ Next1(act)
  /\ agent' = Record(agent, act, FALSE, FALSE)
  /\ EndsDecision(FALSE)
  /\ UNCHANGED <<succeeded, spoke, unavailable, posted, now, objectives>>

ExecuteBlocked(act) ==
  /\ IsBlocked(act) /\ Refuse(act)
  /\ stray' = IF /\ ~BudgetExhausted(agent) /\ MayBePosted(act)
                 /\ <<act, agent.place>> \notin tried
                THEN stray \cup {"suppressed"} ELSE stray
  /\ UNCHANGED tried

\* Refused whatever its arguments are, or for them: the block is not observed,
\* too far away, or cannot be harvested.
ExecuteRejected(act) ==
  /\ ~IsBlocked(act) /\ Refuse(act)
  /\ tried' = IF MayBePosted(act) THEN tried \cup {<<act, agent.place>>} ELSE tried
  /\ UNCHANGED stray

\* One that reaches it: it succeeds, fails, fails for a passing reason, or is
\* not supported, and then disabled.
ExecutePosted(act) ==
  /\ Next1(act)
  /\ ~IsBlocked(act) /\ MayBePosted(act)
  /\ \E result \in {"ok", "failed", "transient", "unsupported"} :
       /\ agent' = Record(agent, act, result = "ok", result = "transient")
       /\ unavailable' = IF result = "unsupported" THEN unavailable \cup {act} ELSE unavailable
       /\ succeeded' = (result = "ok")
       /\ EndsDecision(result = "ok")
  /\ now' = now + 1
  /\ posted' = IF agent.objective = None THEN posted
               ELSE [posted EXCEPT ![agent.objective.number] = @ + 1]
  /\ tried' = tried \cup {<<act, agent.place>>}
  /\ stray' = IF /\ act = "dirt"
                 /\ "dirt" \notin recent[1] \cup recent[2]
                 /\ agent.goal = None \/ agent.goal.topic # "dirt"
                THEN stray \cup {"dirt"} ELSE stray
  /\ UNCHANGED <<spoke, objectives>>

\* `stop' passes all of these checks and is not charged.
ExecuteStop ==
  /\ Next1("stop")
  /\ \E ok \in BOOLEAN : succeeded' = ok /\ EndsDecision(ok)
  /\ now' = now + 1
  /\ UNCHANGED <<agent, spoke, unavailable, posted, tried, objectives, stray>>

\* needs_chat_action_followup
Finish ==
  /\ pc = "execute" /\ (taken \/ calls = <<>>)
  /\ followup' = (turn /\ spoke /\ ~succeeded)
  /\ pc' = "save" /\ Forget /\ now' = 0
  /\ UNCHANGED <<agent, file, unavailable, turns, messages, objectives, faults, posted, recent, tried, stray>>

\* save_state at the end of every turn; an error is only printed.
Save ==
  /\ pc = "save"
  /\ \/ file' = agent /\ UNCHANGED faults
     \/ faults < MaxFaults /\ faults' = faults + 1 /\ UNCHANGED file
  /\ pc' = "poll"
  /\ UNCHANGED <<agent, locals, turns, messages, objectives, posted, now, recent, tried, stray>>

\* What a state file holds, or a new state.
Kept == IF file = None THEN NewAgent(None) ELSE file

\* The process ends at any moment.
Crash ==
  /\ pc # "down" /\ faults < MaxFaults
  /\ faults' = faults + 1
  /\ pc' = "down" /\ Forget /\ now' = 0
  /\ agent' = Kept /\ followup' = FALSE /\ unavailable' = {}
  /\ UNCHANGED <<file, turns, messages, objectives, posted, recent, tried, stray>>

\* load_state; a configured mission is set when there is none.
Restart ==
  /\ pc = "down"
  /\ \E initial \in InitialGoals :
       agent' = IF agent.goal = None /\ initial # None THEN SetGoal(agent, initial) ELSE agent
  /\ pc' = "poll"
  /\ UNCHANGED <<file, locals, history>>

Next ==
  \/ Poll \/ Observe \/ ObserveFails \/ Wait \/ RequestFails \/ Decide
  \/ ExecuteSay \/ ExecuteSetGoal \/ ExecuteFinishGoal
  \/ ExecuteSetObjective \/ ExecuteFinishObjective
  \/ \E act \in Gather : ExecuteBlocked(act) \/ ExecuteRejected(act) \/ ExecutePosted(act)
  \/ ExecuteStop \/ Finish \/ Save \/ Crash \/ Restart

Spec == Init /\ [][Next]_vars

-----------------------------------------------------------------------------
(* Properties *)

\* Whenever the loop asks, native tools are used with every chat server that
\* knows them next to the two oldest fields, and a server that knows no more
\* than these two is still served, one action at a time (LLM.md: "retries with
\* common compatibility fields and finally falls back to one JSON action").
ModelIsReached == pc = "choose" => LadderServes

\* The budget of an objective bounds what is done for it: every action is
\* charged before the next decision, and a crash or a save that fails gives
\* back at most the one action of a decision.
BudgetBoundsActions ==
  agent.objective # None =>
    posted[agent.objective.number] <= agent.objective.budget + faults

\* An objective serves the mission it was set under, and none when there was
\* none: whoever changes the mission, by a call, a chat command or a restart.
ObjectiveServesMission ==
  agent.objective # None => agent.objective.for = agent.goal

\* LLM.md: only one external game action is executed per decision.
OneActionPerDecision == now <= 1

\* What every state of the loop keeps, whatever the model answers.
DecisionInv == TypeOK /\ ObjectiveServesMission /\ OneActionPerDecision

\* The model sets a mission only while a player's message waits, or right after
\* the decision that answered it: answering again does not prolong its say.
GoalsFollowInstructions == "goal" \notin stray

\* Dirt is gathered only for a mission about it, or for a message of this
\* decision or the last, never because of what was said long ago.
LowValueIsWanted == "dirt" \notin stray

\* Nothing is done on the authority of a message that is over.
AuthorityIsFresh == GoalsFollowInstructions /\ LowValueIsWanted

\* LLM.md: repeating the same failed call at the same position is "suppressed
\* after two attempts": a call is not suppressed whose arguments were never
\* tried there, and which nothing else forbids now.
SuppressedWasTried == "suppressed" \notin stray
=============================================================================
