----------------------------- MODULE AgentProofs -----------------------------
(***************************************************************************)
(* The agent process: its decisions (AgentDecision), for any places,       *)
(* budgets, model servers and limits, and any number of turns, messages,   *)
(* objectives and faults; and what it hears of the players (AgentChat),    *)
(* for any limits and any number of messages, runs and mishaps.            *)
(*                                                                         *)
(* The inductive invariant of the decisions has three parts beside the     *)
(* types: what the state in memory and the state file owe to the game      *)
(* actions taken (BudgetPart), how far the messages that give a decision   *)
(* its authority are behind (AuthorityPart), and one action per decision   *)
(* (TakenPart).  That of the chat says what is kept (AllKept) by an agent  *)
(* whose cursor and ids are of this run of the bot process (Aligned), and  *)
(* that what a poll cannot reach is known (Tracked).                       *)
(***************************************************************************)
EXTENDS AgentDecision, PlayerChat, FiniteSetTheorems, SequenceTheorems, TLAPS

-----------------------------------------------------------------------------
(* The inductive invariant *)

Failures == [Gather \X Places -> 0..2]

Agents == [goal : Goals, objective : Objectives, pending : SUBSET Topics,
           heard : Topics \cup {None}, place : Places, failures : Failures]

\* An agent state, in memory or in the file: its objective serves its mission and
\* what was heard last is among what waits for an answer.
Sound(a) ==
  /\ a \in Agents
  /\ a.objective # None => a.objective.for = a.goal
  /\ a.pending # {} => a.heard \in a.pending

TypePart ==
  /\ pc \in {"poll", "observe", "choose", "execute", "save", "down"}
  /\ Sound(agent)
  /\ file = None \/ Sound(file)
  /\ calls \in Seq(Calls) /\ Len(calls) <= Limit
  /\ newChat \in BOOLEAN /\ followup \in BOOLEAN /\ turn \in BOOLEAN /\ taken \in BOOLEAN
  /\ succeeded \in BOOLEAN /\ spoke \in BOOLEAN /\ dead \in BOOLEAN
  /\ unavailable \subseteq Gather
  /\ stray \subseteq {"goal", "dirt", "suppressed"}

\* At most one game action in a decision, and none before it is begun.
TakenPart ==
  /\ now \in 0..1
  /\ pc # "execute" => now = 0
  /\ ~taken => now = 0

\* The actions taken for an objective that `a' still knows: `a' has charged them
\* to its budget, except for `lost' of them.
Charged(a, lost) ==
  a.objective # None =>
    /\ a.objective.number <= objectives
    /\ posted[a.objective.number] <= a.objective.used + lost
    /\ posted[a.objective.number] <= a.objective.budget + lost

\* The action of a decision is not in the file until it is saved.
Unsaved == IF pc = "save" \/ (pc = "execute" /\ taken) THEN 1 ELSE 0

BudgetPart ==
  /\ faults \in Nat /\ objectives \in 0..MaxObjectives
  /\ posted \in [1..MaxObjectives -> Nat]
  /\ \A n \in 1..MaxObjectives : n > objectives => posted[n] = 0
  /\ Charged(agent, faults)
  /\ file # None => Charged(file, faults + Unsaved)

\* Between two decisions only a decision that answered a message passes its
\* authority on; in a decision all of it comes from messages of it or the last.
AuthorityPart ==
  /\ recent \in (SUBSET Topics) \X (SUBSET Topics)
  /\ pc # "execute" /\ followup => agent.pending # {} \/ agent.heard \in recent[2]
  /\ pc = "execute" =>
       /\ agent.pending \subseteq recent[2]
       /\ turn => agent.heard \in recent[1] \cup recent[2]
       /\ spoke \/ (\E i \in 1..Len(calls) : calls[i].tool = "say") => agent.heard \in recent[2]
  /\ "goal" \notin stray /\ "dirt" \notin stray

DecisionIInv == TypePart /\ TakenPart /\ BudgetPart /\ AuthorityPart

-----------------------------------------------------------------------------
(* Types *)

LEMMA Numbers ==
  /\ MaxToolCalls \in Nat /\ MaxReturned \in Nat /\ MaxTurns \in Nat /\ MaxMessages \in Nat
  /\ MaxObjectives \in Nat /\ MaxFaults \in Nat /\ Budgets \subseteq Nat
  BY AgentAssumption

LEMMA LimitType == Limit \in 1..8
  BY Numbers DEF Limit

LEMMA GoalType ==
  ASSUME NEW topic \in Topics, NEW origin \in {"player", "configured"}
  PROVE  Goal(topic, origin) \in Goals
  BY DEF Goal, Goals

LEMMA NoneIs == None \in Goals /\ None \in Objectives /\ InitialGoals \subseteq Goals
  BY GoalType DEF Goals, Objectives, InitialGoals, Topics

LEMMA AgentFields ==
  ASSUME NEW a \in Agents
  PROVE  /\ a.goal \in Goals /\ a.objective \in Objectives /\ a.pending \subseteq Topics
         /\ a.heard \in Topics \cup {None} /\ a.place \in Places /\ a.failures \in Failures
  BY DEF Agents

\* The calls of the tools that have an argument.
LEMMA CallArguments ==
  ASSUME NEW c \in Calls
  PROVE  /\ c.tool = "set_goal" => c.arg \in Topics
         /\ c.tool = "set_objective" => c.arg \in Nat
  BY Numbers DEF Calls, Call, External, Gather

LEMMA SayIsCall == Say \in Calls /\ Say.tool = "say"
  BY DEF Say, Calls, Call

LEMMA NoCalls == <<>> \in Seq(Calls) /\ Len(<<>>) = 0
  OBVIOUS

-----------------------------------------------------------------------------
(* What the operations of AgentState keep *)

\* A new agent state is sound.
LEMMA NewSound ==
  ASSUME NEW initial \in Goals
  PROVE  /\ Sound(NewAgent(initial)) /\ NewAgent(initial).objective = None
         /\ NewAgent(initial).pending = {} /\ NewAgent(initial).goal = initial
<1>1. (CHOOSE p \in Places : TRUE) \in Places
  BY AgentAssumption
<1>2. [at \in Gather \X Places |-> 0] \in Failures
  BY DEF Failures
<1>3. QED BY <1>1, <1>2, NoneIs DEF NewAgent, Sound, Agents

\* A message is waiting and the last one heard.
LEMMA HeardSound ==
  ASSUME NEW a, Sound(a), NEW topic \in Topics
  PROVE  /\ Sound(Heard(a, topic)) /\ Heard(a, topic).objective = a.objective
         /\ Heard(a, topic).pending # {}
  BY DEF Heard, Sound, Agents

\* A new mission, or none, ends the objective.
LEMMA SetGoalSound ==
  ASSUME NEW a, Sound(a), NEW goal \in Goals
  PROVE  /\ Sound(SetGoal(a, goal)) /\ SetGoal(a, goal).objective = None
         /\ SetGoal(a, goal).pending = a.pending /\ SetGoal(a, goal).heard = a.heard
  BY NoneIs DEF SetGoal, Sound, Agents

LEMMA FinishGoalSound ==
  ASSUME NEW a, Sound(a)
  PROVE  /\ Sound(FinishGoal(a)) /\ FinishGoal(a).objective = None
         /\ FinishGoal(a).pending = a.pending /\ FinishGoal(a).heard = a.heard
  BY NoneIs DEF FinishGoal, Sound, Agents

\* A command of a player leaves the objective or ends it.
LEMMA CommandsSound ==
  ASSUME NEW a, Sound(a), NEW topic \in Topics
  PROVE  /\ Sound(CommandGoal(a, topic)) /\ CommandGoal(a, topic).objective = None
         /\ Sound(CommandCancel(a)) /\ CommandCancel(a).objective \in {None, a.objective}
<1>1. Goal(topic, "player") \in Goals
  BY GoalType
<1>2. QED BY <1>1, SetGoalSound, FinishGoalSound DEF CommandGoal, CommandCancel

\* An objective under the present mission.
LEMMA SetObjectiveSound ==
  ASSUME NEW a, Sound(a), NEW n \in Nat, objectives \in Nat, objectives < MaxObjectives
  PROVE  /\ Sound(SetObjective(a, n))
         /\ SetObjective(a, n).objective.budget \in 2..12
         /\ SetObjective(a, n).objective.used = 0
         /\ SetObjective(a, n).objective.number = objectives + 1
         /\ SetObjective(a, n).pending = a.pending /\ SetObjective(a, n).heard = a.heard
<1>1. Clamp(n) \in 2..12
  BY DEF Clamp
<1> DEFINE o == [budget |-> Clamp(n), used |-> 0, for |-> a.goal, number |-> objectives + 1]
<1>2. objectives + 1 \in 1..MaxObjectives
  BY Numbers
<1>3. o \in Objectives
  BY <1>1, <1>2, AgentFields DEF Objectives, Sound
<1>4. SetObjective(a, n) = [a EXCEPT !.objective = o]
  BY DEF SetObjective
<1>5. o.budget \in 2..12 /\ o.used = 0 /\ o.number = objectives + 1 /\ o.for = a.goal
  BY <1>1
<1> HIDE DEF o
<1>6. QED BY <1>3, <1>4, <1>5 DEF Sound, Agents

\* An objective is charged for every external action, and nothing else of it.
LEMMA ChargeSound ==
  ASSUME NEW a, Sound(a), NEW ok
  PROVE  /\ Sound(Charge(a, ok))
         /\ Charge(a, ok).pending = a.pending /\ Charge(a, ok).heard = a.heard
         /\ a.objective = None => Charge(a, ok).objective = None
         /\ a.objective # None =>
              /\ Charge(a, ok).objective.budget = a.objective.budget
              /\ Charge(a, ok).objective.number = a.objective.number
              /\ Charge(a, ok).objective.used = a.objective.used + 1
<1>1. CASE a.objective = None
  BY <1>1 DEF Charge
<1>2. CASE a.objective # None
  <2>1. a.objective \in [budget : 2..12, used : Nat, for : Goals, number : 1..MaxObjectives]
    BY <1>2, AgentFields DEF Sound, Objectives
  <2> DEFINE o == [a.objective EXCEPT !.used = @ + 1]
  <2>2. /\ o \in [budget : 2..12, used : Nat, for : Goals, number : 1..MaxObjectives]
        /\ o.budget = a.objective.budget /\ o.number = a.objective.number
        /\ o.used = a.objective.used + 1 /\ o.for = a.objective.for
    BY <2>1
  <2>3. Charge(a, ok) = [a EXCEPT !.objective = o]
    BY <1>2 DEF Charge, Sound, Agents
  <2>4. o \in Objectives
    BY <2>2 DEF Objectives
  <2> HIDE DEF o
  <2>5. QED BY <1>2, <2>2, <2>3, <2>4 DEF Sound, Agents
<1>3. QED BY <1>1, <1>2

\* A result is recorded where it was had, and charged.
LEMMA RecordSound ==
  ASSUME NEW a, Sound(a), NEW act \in Gather, NEW ok \in BOOLEAN, NEW transient \in BOOLEAN
  PROVE  /\ Sound(Record(a, act, ok, transient))
         /\ Record(a, act, ok, transient).pending = a.pending
         /\ Record(a, act, ok, transient).heard = a.heard
         /\ a.objective = None => Record(a, act, ok, transient).objective = None
         /\ a.objective # None =>
              /\ Record(a, act, ok, transient).objective.budget = a.objective.budget
              /\ Record(a, act, ok, transient).objective.number = a.objective.number
              /\ Record(a, act, ok, transient).objective.used = a.objective.used + 1
<1> DEFINE counted == IF ok THEN 0
                      ELSE IF transient \/ a.failures[<<act, a.place>>] = 2 THEN a.failures[<<act, a.place>>]
                      ELSE a.failures[<<act, a.place>>] + 1
           b == [a EXCEPT !.failures = [@ EXCEPT ![<<act, a.place>>] = counted]]
<1>1. a.failures \in Failures /\ a.place \in Places
  BY AgentFields DEF Sound
<1>2. counted \in 0..2
  BY <1>1 DEF Failures
<1>3. [a.failures EXCEPT ![<<act, a.place>>] = counted] \in Failures
  BY <1>1, <1>2 DEF Failures
<1>4. b = [a EXCEPT !.failures = [a.failures EXCEPT ![<<act, a.place>>] = counted]]
  BY DEF Sound, Agents
<1>5. Sound(b) /\ b.pending = a.pending /\ b.heard = a.heard /\ b.objective = a.objective
  BY <1>3, <1>4 DEF Sound, Agents
<1>6. Record(a, act, ok, transient) = Charge(b, ok)
  BY DEF Record
<1> HIDE DEF b
<1>7. QED BY <1>5, <1>6, ChargeSound

\* The numbers of an objective.
LEMMA ObjectiveFields ==
  ASSUME NEW a, Sound(a), a.objective # None
  PROVE  /\ a.objective.budget \in 2..12 /\ a.objective.used \in Nat
         /\ a.objective.for \in Goals /\ a.objective.number \in 1..MaxObjectives
  BY AgentFields DEF Sound, Objectives

-----------------------------------------------------------------------------
(* Frames: what a step keeps that leaves most of a part alone *)

LEMMA UnsavedType == Unsaved \in 0..1
  BY DEF Unsaved

\* A step that takes no action for an objective, and forgets none.
LEMMA BudgetKept ==
  ASSUME TypePart, BudgetPart, UNCHANGED <<faults, objectives, posted, file>>,
         agent'.objective \in {agent.objective, None}, Unsaved' >= Unsaved
  PROVE  BudgetPart'
<1>1. Charged(agent, faults)'
  <2>1. SUFFICES ASSUME agent'.objective # None
                 PROVE  agent'.objective = agent.objective /\ agent.objective # None
    BY DEF BudgetPart, Charged
  <2>2. QED BY <2>1
<1>2. Unsaved \in 0..1 /\ Unsaved' \in 0..1
  BY DEF Unsaved
<1>3. file' # None => Charged(file, faults + Unsaved)'
  <2>1. SUFFICES ASSUME file # None, file.objective # None
                 PROVE  /\ file.objective.number <= objectives
                        /\ posted[file.objective.number] <= file.objective.used + (faults + Unsaved')
                        /\ posted[file.objective.number] <= file.objective.budget + (faults + Unsaved')
    BY DEF Charged
  <2>2. file.objective.used \in Nat /\ file.objective.budget \in Nat
        /\ posted[file.objective.number] \in Nat /\ faults \in Nat
    <3>1. file # None /\ Sound(file)
      BY <2>1 DEF TypePart
    <3>2. /\ file.objective.used \in Nat /\ file.objective.budget \in 2..12
          /\ file.objective.number \in 1..MaxObjectives
      BY <2>1, <3>1, ObjectiveFields
    <3>3. posted \in [1..MaxObjectives -> Nat] /\ faults \in Nat
      BY DEF BudgetPart
    <3>4. posted[file.objective.number] \in Nat
      BY <3>2, <3>3
    <3>5. QED BY <3>2, <3>3, <3>4
  <2>3. Charged(file, faults + Unsaved)
    BY <2>1 DEF BudgetPart
  <2>4. QED BY <1>2, <2>1, <2>2, <2>3 DEF Charged
<1>4. QED BY <1>1, <1>3 DEF BudgetPart

\* A step between two decisions.
LEMMA AuthorityKept ==
  ASSUME AuthorityPart, pc # "execute", pc' # "execute", UNCHANGED <<recent, stray>>,
         followup' = followup, agent'.pending = agent.pending, agent'.heard = agent.heard
  PROVE  AuthorityPart'
  BY DEF AuthorityPart

\* A step of a decision that grants itself nothing.
LEMMA AuthorityUsed ==
  ASSUME AuthorityPart, calls \in Seq(Calls), pc = "execute", pc' = "execute",
         calls # <<>>, calls' = Tail(calls), UNCHANGED <<recent, turn>>,
         agent'.pending = agent.pending \/ agent'.pending = {},
         agent'.heard = agent.heard, spoke' = spoke \/ Head(calls).tool = "say",
         "goal" \notin stray', "dirt" \notin stray'
  PROVE  AuthorityPart'
<1>1. Len(calls) \in Nat \ {0} /\ Head(calls) = calls[1]
  BY DEF Calls
<1>2. Len(Tail(calls)) = Len(calls) - 1 /\ \A i \in 1..Len(Tail(calls)) : Tail(calls)[i] = calls[i + 1]
  BY DEF Calls
<1>3. (\E i \in 1..Len(calls') : calls'[i].tool = "say") => \E i \in 1..Len(calls) : calls[i].tool = "say"
  BY <1>1, <1>2
<1>4. Head(calls).tool = "say" => \E i \in 1..Len(calls) : calls[i].tool = "say"
  BY <1>1
<1>5. QED BY <1>3, <1>4 DEF AuthorityPart

-----------------------------------------------------------------------------
(* The calls of a decision *)

\* An answer of the model is a sequence of calls.
LEMMA AnswersType ==
  ASSUME NEW kind, NEW answer \in Answers(kind)
  PROVE  answer \in Seq(Calls)
<1>1. CASE kind = "native"
  <2>1. PICK n \in 0..MaxReturned : answer \in [1..n -> Calls]
    BY <1>1 DEF Answers
  <2>2. QED BY <2>1, Numbers
<1>2. CASE kind # "native"
  <2>1. answer = <<>> \/ \E c \in Calls : answer = <<c>>
    BY <1>2 DEF Answers
  <2>2. \A c \in Calls : <<c>> \in Seq(Calls)
    OBVIOUS
  <2>3. QED BY <2>1, <2>2, NoCalls
<1>3. QED BY <1>1, <1>2

\* A decision keeps at most `Limit' calls, and an answer to a player only when a
\* message waits for it.
LEMMA DecideCalls ==
  ASSUME Decide
  PROVE  /\ calls' \in Seq(Calls) /\ Len(calls') <= Limit
         /\ (\E i \in 1..Len(calls') : calls'[i].tool = "say") => agent.pending # {}
<1> DEFINE Fit == {c \in Calls : c.tool = "say" => agent.pending # {}}
<1>1. PICK kind : \E answer \in Answers(kind), text \in BOOLEAN :
        \E order \in [1..Cardinality(Usable(answer)) -> Usable(answer)] :
          calls' = Selected(Acknowledgement(answer, Usable(answer), text)
                              \o [n \in DOMAIN order |-> answer[order[n]]])
  BY DEF Decide
<1>2. PICK answer \in Answers(kind), text \in BOOLEAN :
        \E order \in [1..Cardinality(Usable(answer)) -> Usable(answer)] :
          calls' = Selected(Acknowledgement(answer, Usable(answer), text)
                              \o [n \in DOMAIN order |-> answer[order[n]]])
  BY <1>1
<1>3. PICK order \in [1..Cardinality(Usable(answer)) -> Usable(answer)] :
          calls' = Selected(Acknowledgement(answer, Usable(answer), text)
                              \o [n \in DOMAIN order |-> answer[order[n]]])
  BY <1>2
<1>4. answer \in Seq(Calls)
  BY <1>2, AnswersType
<1>5. Cardinality(Usable(answer)) \in Nat
  <2>1. Usable(answer) \in SUBSET (1..Len(answer)) /\ Len(answer) \in Nat
    BY <1>4 DEF Usable
  <2>2. IsFiniteSet(1..Len(answer))
    BY <2>1, FS_Interval
  <2>3. IsFiniteSet(Usable(answer))
    BY <2>1, <2>2, FS_Subset
  <2>4. QED BY <2>3, FS_CardinalityType
<1> DEFINE size == Cardinality(Usable(answer))
           kept == [n \in DOMAIN order |-> answer[order[n]]]
           front == Acknowledgement(answer, Usable(answer), text)
<1>6. kept \in Seq(Fit)
  <2>1. \A i \in Usable(answer) : answer[i] \in Fit
    BY <1>4 DEF Usable
  <2>2. DOMAIN order = 1..size /\ \A n \in 1..size : order[n] \in Usable(answer)
    BY <1>3
  <2>3. kept \in [1..size -> Fit]
    BY <2>1, <2>2
  <2> HIDE DEF Fit, kept, size
  <2>4. size \in Nat
    BY <1>5 DEF size
  <2>5. QED BY <2>3, <2>4
<1>7. front \in Seq(Fit)
  <2>1. CASE agent.pending # {}
    <3>1. Say \in Fit
      BY <2>1, SayIsCall
    <3> HIDE DEF Fit
    <3>2. <<Say>> \in Seq(Fit) /\ <<>> \in Seq(Fit)
      BY <3>1
    <3>3. QED BY <3>2 DEF Acknowledgement
  <2>2. CASE agent.pending = {}
    <3>1. front = <<>>
      BY <2>2 DEF Acknowledgement
    <3> HIDE DEF Fit, front
    <3>2. QED BY <3>1
  <2>3. QED BY <2>1, <2>2
<1>8. calls' = Selected(front \o kept)
  BY <1>3
<1> HIDE DEF front, kept, Fit
<1>9. calls' \in Seq(Fit) /\ Len(calls') <= Limit
  <2> DEFINE list == front \o kept
             most == IF Len(list) < Limit THEN Len(list) ELSE Limit
  <2>1. list \in Seq(Fit) /\ Len(list) \in Nat
    BY <1>6, <1>7
  <2>2. most \in 0..Len(list) /\ most <= Limit
    BY <2>1, LimitType
  <2>3. calls' = SubSeq(list, 1, most)
    BY <1>8 DEF Selected
  <2> HIDE DEF list, most
  <2>4. SubSeq(list, 1, most) \in Seq(Fit) /\ Len(SubSeq(list, 1, most)) = most
    BY <2>1, <2>2
  <2>5. QED BY <2>2, <2>3, <2>4
<1>10. \A i \in 1..Len(calls') : calls'[i] \in Fit
  BY <1>9
<1>11. Fit \subseteq Calls /\ \A c \in Fit : c.tool = "say" => agent.pending # {}
  BY DEF Fit
<1>12. calls' \in Seq(Calls)
  BY <1>9, <1>11
<1>13. QED BY <1>9, <1>10, <1>11, <1>12

\* What may have been lost may be more.
LEMMA ChargedMore ==
  ASSUME BudgetPart, NEW a, Sound(a), NEW m \in Nat, NEW n \in Nat, m <= n, Charged(a, m)
  PROVE  Charged(a, n)
<1>1. SUFFICES ASSUME a.objective # None
               PROVE  /\ posted[a.objective.number] <= a.objective.used + n
                      /\ posted[a.objective.number] <= a.objective.budget + n
  BY DEF Charged
<1>2. /\ a.objective.used \in Nat /\ a.objective.budget \in 2..12
      /\ a.objective.number \in 1..MaxObjectives
  BY <1>1, ObjectiveFields
<1>3. posted[a.objective.number] \in Nat
  BY <1>2 DEF BudgetPart
<1>4. /\ posted[a.objective.number] <= a.objective.used + m
      /\ posted[a.objective.number] <= a.objective.budget + m
  BY <1>1 DEF Charged
<1>5. QED BY <1>2, <1>3, <1>4

-----------------------------------------------------------------------------
(* The initial state *)

LEMMA InitHolds == Init => DecisionIInv
<1> SUFFICES ASSUME Init PROVE DecisionIInv
  OBVIOUS
<1>1. PICK initial \in InitialGoals : agent = NewAgent(initial)
  BY DEF Init
<1>2. Sound(agent) /\ agent.objective = None /\ agent.pending = {}
  BY <1>1, NoneIs, NewSound
<1>3. TypePart
  <2>1. calls \in Seq(Calls) /\ Len(calls) <= Limit
    BY NoCalls, LimitType DEF Init
  <2>2. QED BY <1>2, <2>1 DEF Init, TypePart
<1>4. TakenPart
  BY DEF Init, TakenPart
<1>5. BudgetPart
  <2>1. posted \in [1..MaxObjectives -> Nat] /\ \A n \in 1..MaxObjectives : posted[n] = 0
    BY DEF Init
  <2>2. QED BY <1>2, <2>1, Numbers DEF Init, BudgetPart, Charged
<1>6. AuthorityPart
  BY DEF Init, AuthorityPart
<1>7. QED BY <1>3, <1>4, <1>5, <1>6 DEF DecisionIInv

-----------------------------------------------------------------------------
(* Steps between decisions *)

LEMMA PollKeeps == DecisionIInv /\ Poll => DecisionIInv'
<1> SUFFICES ASSUME DecisionIInv, Poll PROVE DecisionIInv'
  OBVIOUS
<1> USE DEF DecisionIInv
<1>1. \/ agent' = agent
      \/ \E topic \in Topics :
           agent' \in {Heard(agent, topic), Heard(CommandGoal(agent, topic), topic),
                       Heard(CommandCancel(agent), topic)}
  BY DEF Poll
<1>2. /\ Sound(agent') /\ agent'.objective \in {agent.objective, None}
      /\ agent' = agent \/ agent'.pending # {}
  <2>1. Sound(agent)
    BY DEF TypePart
  <2>2. CASE agent' = agent
    BY <2>1, <2>2
  <2>3. CASE \E topic \in Topics :
               agent' \in {Heard(agent, topic), Heard(CommandGoal(agent, topic), topic),
                           Heard(CommandCancel(agent), topic)}
    <3>1. PICK topic \in Topics :
               agent' \in {Heard(agent, topic), Heard(CommandGoal(agent, topic), topic),
                           Heard(CommandCancel(agent), topic)}
      BY <2>3
    <3>2. /\ Sound(CommandGoal(agent, topic)) /\ CommandGoal(agent, topic).objective = None
          /\ Sound(CommandCancel(agent)) /\ CommandCancel(agent).objective \in {None, agent.objective}
      BY <2>1, CommandsSound
    <3>3. QED BY <2>1, <3>1, <3>2, HeardSound
  <2>4. QED BY <1>1, <2>2, <2>3
<1>3. TypePart'
  BY <1>2 DEF TypePart, Poll, Sound
<1>4. TakenPart'
  BY DEF TakenPart, Poll
<1>5. BudgetPart'
  BY <1>2, BudgetKept DEF Poll, Unsaved
<1>6. AuthorityPart'
  BY <1>2 DEF AuthorityPart, Poll
<1>7. QED BY <1>3, <1>4, <1>5, <1>6

LEMMA ObserveKeeps == DecisionIInv /\ Observe => DecisionIInv'
<1> SUFFICES ASSUME DecisionIInv, Observe PROVE DecisionIInv'
  OBVIOUS
<1> USE DEF DecisionIInv
<1>1. /\ Sound(agent') /\ agent'.objective = agent.objective
      /\ agent'.pending = agent.pending /\ agent'.heard = agent.heard
  BY DEF Observe, TypePart, Sound, Agents
<1>2. TypePart'
  <2>1. dead' \in BOOLEAN /\ pc' = "choose"
    BY DEF Observe
  <2>2. UNCHANGED <<file, calls, newChat, followup, turn, taken, succeeded, spoke, unavailable, stray>>
    BY DEF Observe, history
  <2>3. QED BY <1>1, <2>1, <2>2 DEF TypePart
<1>3. TakenPart'
  BY DEF TakenPart, Observe, history
<1>4. BudgetPart'
  BY <1>1, BudgetKept DEF Observe, Unsaved, history
<1>5. AuthorityPart'
  BY <1>1, AuthorityKept DEF Observe, history
<1>6. QED BY <1>2, <1>3, <1>4, <1>5

LEMMA NoDecisionKeeps ==
  DecisionIInv /\ (ObserveFails \/ Wait \/ RequestFails) => DecisionIInv'
<1> SUFFICES ASSUME DecisionIInv, ObserveFails \/ Wait \/ RequestFails PROVE DecisionIInv'
  OBVIOUS
<1> USE DEF DecisionIInv
<1>1. /\ UNCHANGED <<agent, file, unavailable, history, followup>>
      /\ pc' = "save" /\ pc \in {"observe", "choose"}
  BY DEF ObserveFails, Wait, RequestFails
<1>2. calls' = calls \/ calls' = <<>>
  BY DEF ObserveFails, Wait, RequestFails, Forget
<1>3. TypePart'
  <2>1. calls' \in Seq(Calls) /\ Len(calls') <= Limit
    <3>1. CASE calls' = calls
      BY <3>1 DEF TypePart
    <3>2. CASE calls' = <<>>
      BY <3>2, NoCalls, LimitType
    <3>3. QED BY <1>2, <3>1, <3>2
  <2>2. /\ newChat' \in BOOLEAN /\ turn' \in BOOLEAN /\ taken' \in BOOLEAN
        /\ succeeded' \in BOOLEAN /\ spoke' \in BOOLEAN /\ dead' \in BOOLEAN
    BY DEF TypePart, ObserveFails, Wait, RequestFails, Forget
  <2>3. UNCHANGED <<agent, file, unavailable, followup, stray>>
    BY <1>1 DEF history
  <2>4. QED BY <1>1, <2>1, <2>2, <2>3 DEF TypePart
<1>4. TakenPart'
  BY <1>1 DEF TakenPart, history
<1>5. BudgetPart'
  BY <1>1, BudgetKept DEF Unsaved, history
<1>6. AuthorityPart'
  BY <1>1, AuthorityKept DEF history
<1>7. QED BY <1>3, <1>4, <1>5, <1>6

LEMMA DecideKeeps == DecisionIInv /\ Decide => DecisionIInv'
<1> SUFFICES ASSUME DecisionIInv, Decide PROVE DecisionIInv'
  OBVIOUS
<1> USE DEF DecisionIInv
<1>1. /\ calls' \in Seq(Calls) /\ Len(calls') <= Limit
      /\ (\E i \in 1..Len(calls') : calls'[i].tool = "say") => agent.pending # {}
  BY DecideCalls
<1>2. /\ pc = "choose" /\ pc' = "execute" /\ turn' = (agent.pending # {} \/ followup)
      /\ taken' = FALSE /\ succeeded' = FALSE /\ spoke' = FALSE
      /\ recent' = <<recent[2], agent.pending>>
      /\ UNCHANGED <<agent, file, newChat, followup, unavailable, dead,
                     turns, messages, objectives, faults, posted, now, tried, stray>>
  BY DEF Decide, InstructionTurn
<1>3. TypePart'
  BY <1>1, <1>2 DEF TypePart, Sound
<1>4. TakenPart'
  BY <1>2 DEF TakenPart
<1>5. BudgetPart'
  BY <1>2, BudgetKept DEF Unsaved
<1>6. AuthorityPart'
  <2>1. agent.pending \subseteq Topics /\ (agent.pending # {} => agent.heard \in agent.pending)
    BY AgentFields DEF TypePart, Sound
  <2>2. recent' \in (SUBSET Topics) \X (SUBSET Topics)
        /\ recent'[1] = recent[2] /\ recent'[2] = agent.pending
    BY <1>2, <2>1 DEF AuthorityPart
  <2>3. QED BY <1>1, <1>2, <2>1, <2>2 DEF AuthorityPart
<1>7. QED BY <1>3, <1>4, <1>5, <1>6

-----------------------------------------------------------------------------
(* The calls of a decision are executed *)

\* What the execution of any call keeps.
LEMMA CallTaken ==
  ASSUME NEW tool, TypePart, Next1(tool)
  PROVE  /\ Head(calls) \in Calls /\ Head(calls).tool = tool
         /\ calls # <<>> /\ calls' = Tail(calls)
         /\ calls' \in Seq(Calls) /\ Len(calls') <= Limit
         /\ pc = "execute" /\ pc' = "execute" /\ ~taken
         /\ UNCHANGED <<file, newChat, followup, turn, dead, turns, messages, faults, recent>>
<1>1. calls # <<>> /\ calls' = Tail(calls) /\ calls \in Seq(Calls) /\ Len(calls) <= Limit
  BY DEF TypePart, Next1
<1>2. Head(calls) \in Calls /\ Tail(calls) \in Seq(Calls)
      /\ Len(Tail(calls)) = Len(calls) - 1 /\ Len(calls) \in Nat
  BY <1>1
<1>3. QED BY <1>1, <1>2, LimitType DEF Next1

\* The calls that do not act on the game: each leaves the agent state sound, takes
\* no authority and leaves the objective, ends it, or begins a new one.
Bookkeeping == ExecuteSay \/ ExecuteSetGoal \/ ExecuteFinishGoal
                 \/ ExecuteSetObjective \/ ExecuteFinishObjective

LEMMA BookkeepingDoes ==
  ASSUME DecisionIInv, Bookkeeping
  PROVE  /\ \E tool : Next1(tool) /\ (spoke' = spoke \/ (tool = "say" /\ spoke' = TRUE))
         /\ UNCHANGED <<bookkeeping, posted>>
         /\ Sound(agent')
         /\ agent'.pending = agent.pending \/ agent'.pending = {}
         /\ agent'.heard = agent.heard
         /\ \/ objectives' = objectives /\ agent'.objective \in {None, agent.objective}
            \/ /\ objectives < MaxObjectives /\ objectives' = objectives + 1
               /\ agent'.objective.number = objectives + 1 /\ agent'.objective.used = 0
               /\ agent'.objective.budget \in 2..12
         /\ stray' = stray
<1> USE DEF DecisionIInv
<1>1. Sound(agent)
  BY DEF TypePart
<1>2. CASE ExecuteSay
  <2>1. agent' = agent \/ agent' = [agent EXCEPT !.pending = {}]
    BY <1>2 DEF ExecuteSay
  <2>2. /\ Sound(agent') /\ agent'.objective = agent.objective /\ agent'.heard = agent.heard
        /\ agent'.pending = agent.pending \/ agent'.pending = {}
    BY <1>1, <2>1 DEF Sound, Agents
  <2>3. spoke' = spoke \/ spoke' = TRUE
    BY <1>2 DEF ExecuteSay
  <2>4. Next1("say") /\ UNCHANGED <<bookkeeping, posted, objectives, stray>>
    BY <1>2 DEF ExecuteSay, bookkeeping
  <2>5. QED BY <2>2, <2>3, <2>4
<1>3. CASE ExecuteSetGoal
  <2>1. Next1("set_goal") /\ UNCHANGED <<bookkeeping, posted, objectives, spoke>>
    BY <1>3 DEF ExecuteSetGoal, bookkeeping
  <2>2. Head(calls) \in Calls /\ Head(calls).tool = "set_goal" /\ pc = "execute"
    BY <2>1, CallTaken
  <2>3. Goal(Head(calls).arg, "player") \in Goals
    BY <2>2, CallArguments, GoalType
  <2>4. agent' = agent \/ agent' = SetGoal(agent, Goal(Head(calls).arg, "player"))
    BY <1>3 DEF ExecuteSetGoal
  <2>5. /\ Sound(agent') /\ agent'.objective \in {None, agent.objective}
        /\ agent'.pending = agent.pending /\ agent'.heard = agent.heard
    BY <1>1, <2>3, <2>4, SetGoalSound
  <2>6. stray' = stray
    <3>1. turn => recent # <<{}, {}>>
      BY <2>2 DEF AuthorityPart
    <3>2. QED BY <1>3, <3>1 DEF ExecuteSetGoal
  <2>7. QED BY <2>1, <2>5, <2>6
<1>4. CASE ExecuteFinishGoal
  <2>1. agent' = agent \/ agent' = FinishGoal(agent)
    BY <1>4 DEF ExecuteFinishGoal
  <2>2. /\ Sound(agent') /\ agent'.objective \in {None, agent.objective}
        /\ agent'.pending = agent.pending /\ agent'.heard = agent.heard
    BY <1>1, <2>1, FinishGoalSound
  <2>3. Next1("finish_goal") /\ UNCHANGED <<bookkeeping, posted, objectives, spoke, stray>>
    BY <1>4 DEF ExecuteFinishGoal, bookkeeping
  <2>4. QED BY <2>2, <2>3
<1>5. CASE ExecuteSetObjective
  <2>1. Next1("set_objective") /\ UNCHANGED <<bookkeeping, posted, spoke, stray>>
    BY <1>5 DEF ExecuteSetObjective, bookkeeping
  <2>2. Head(calls).arg \in Nat
    BY <2>1, CallTaken, CallArguments
  <2>3. CASE agent' = agent /\ objectives' = objectives
    BY <1>1, <2>1, <2>3
  <2>4. CASE /\ objectives < MaxObjectives /\ objectives' = objectives + 1
             /\ agent' = SetObjective(agent, Head(calls).arg)
    <3>1. objectives \in Nat
      BY Numbers DEF BudgetPart
    <3>2. /\ Sound(agent') /\ agent'.objective.budget \in 2..12 /\ agent'.objective.used = 0
          /\ agent'.objective.number = objectives + 1
          /\ agent'.pending = agent.pending /\ agent'.heard = agent.heard
      BY <1>1, <2>2, <2>4, <3>1, SetObjectiveSound
    <3>3. QED BY <2>1, <2>4, <3>2
  <2>5. QED BY <1>5, <2>3, <2>4 DEF ExecuteSetObjective
<1>6. CASE ExecuteFinishObjective
  <2>1. agent' = [agent EXCEPT !.objective = None]
    BY <1>6 DEF ExecuteFinishObjective
  <2>2. /\ Sound(agent') /\ agent'.objective = None
        /\ agent'.pending = agent.pending /\ agent'.heard = agent.heard
    BY <1>1, <2>1, NoneIs DEF Sound, Agents
  <2>3. Next1("finish_objective") /\ UNCHANGED <<bookkeeping, posted, objectives, spoke, stray>>
    BY <1>6 DEF ExecuteFinishObjective, bookkeeping
  <2>4. QED BY <2>2, <2>3
<1>7. QED BY <1>2, <1>3, <1>4, <1>5, <1>6 DEF Bookkeeping

LEMMA BookkeepingKeeps == DecisionIInv /\ Bookkeeping => DecisionIInv'
<1> SUFFICES ASSUME DecisionIInv, Bookkeeping PROVE DecisionIInv'
  OBVIOUS
<1> USE DEF DecisionIInv
<1>1. /\ UNCHANGED bookkeeping
      /\ Sound(agent')
      /\ agent'.pending = agent.pending \/ agent'.pending = {}
      /\ agent'.heard = agent.heard
      /\ \/ objectives' = objectives /\ agent'.objective \in {None, agent.objective}
         \/ /\ objectives < MaxObjectives /\ objectives' = objectives + 1
            /\ agent'.objective.number = objectives + 1 /\ agent'.objective.used = 0
            /\ agent'.objective.budget \in 2..12
      /\ stray' = stray
  BY BookkeepingDoes
<1>2. PICK tool : Next1(tool) /\ (spoke' = spoke \/ (tool = "say" /\ spoke' = TRUE))
  BY BookkeepingDoes
<1>3. /\ Head(calls) \in Calls /\ Head(calls).tool = tool
      /\ calls # <<>> /\ calls' = Tail(calls)
      /\ calls' \in Seq(Calls) /\ Len(calls') <= Limit
      /\ pc = "execute" /\ pc' = "execute" /\ ~taken
      /\ UNCHANGED <<file, newChat, followup, turn, dead, turns, messages, faults, recent>>
  BY <1>2, CallTaken
<1>4. UNCHANGED <<taken, succeeded, unavailable, posted, now>>
  BY <1>1 DEF bookkeeping
<1>5. TypePart'
  <2>1. spoke' \in BOOLEAN
    BY <1>2 DEF TypePart
  <2>2. QED BY <1>1, <1>3, <1>4, <2>1 DEF TypePart
<1>6. TakenPart'
  BY <1>3, <1>4 DEF TakenPart
<1>7. BudgetPart'
  <2>1. Unsaved' = Unsaved
    BY <1>3, <1>4 DEF Unsaved
  <2>2. CASE objectives' = objectives /\ agent'.objective \in {None, agent.objective}
    BY <1>3, <1>4, <2>1, <2>2, BudgetKept DEF Unsaved
  <2>3. CASE /\ objectives < MaxObjectives /\ objectives' = objectives + 1
             /\ agent'.objective.number = objectives + 1 /\ agent'.objective.used = 0
             /\ agent'.objective.budget \in 2..12
    <3>1. objectives \in 0..MaxObjectives /\ objectives' \in 0..MaxObjectives
      BY <2>3, Numbers DEF BudgetPart
    <3>2. posted[objectives + 1] = 0 /\ posted' = posted /\ faults' = faults /\ faults \in Nat
      BY <1>3, <1>4, <2>3, <3>1, Numbers DEF BudgetPart
    <3>3. Charged(agent, faults)'
      BY <2>3, <3>1, <3>2 DEF Charged
    <3>4. ASSUME file # None, file.objective # None PROVE Charged(file, faults + Unsaved)'
      <4>1. file.objective.number <= objectives /\ file.objective.number \in Nat
        BY <3>4, ObjectiveFields, Numbers DEF BudgetPart, Charged, TypePart
      <4>2. file.objective.number <= objectives'
        BY <2>3, <3>1, <4>1
      <4>3. Charged(file, faults + Unsaved)
        BY <3>4 DEF BudgetPart
      <4>4. QED BY <1>3, <2>1, <3>2, <3>4, <4>2, <4>3 DEF Charged
    <3>5. file' # None => Charged(file, faults + Unsaved)'
      BY <1>3, <3>4 DEF Charged
    <3>6. \A n \in 1..MaxObjectives : n > objectives' => posted'[n] = 0
      BY <2>3, <3>1, <3>2, Numbers DEF BudgetPart
    <3>7. QED BY <1>3, <1>4, <3>1, <3>3, <3>5, <3>6 DEF BudgetPart
  <2>4. QED BY <1>1, <2>2, <2>3
<1>8. AuthorityPart'
  <2>1. "goal" \notin stray' /\ "dirt" \notin stray'
    BY <1>1 DEF AuthorityPart
  <2>2. calls \in Seq(Calls)
    BY DEF TypePart
  <2>3. QED BY <1>1, <1>2, <1>3, <2>1, <2>2, AuthorityUsed
<1>9. QED BY <1>5, <1>6, <1>7, <1>8

\* A game action: it ends the decision, is charged whether it reached the game or
\* not, and counted for the objective only when it did.
GameAction(act) == ExecuteBlocked(act) \/ ExecuteRejected(act) \/ ExecutePosted(act)

LEMMA GameActionDoes ==
  ASSUME DecisionIInv, NEW act \in Gather, GameAction(act)
  PROVE  /\ Next1(act) /\ taken' = TRUE /\ UNCHANGED <<spoke, objectives>>
         /\ succeeded' \in BOOLEAN /\ unavailable' \subseteq Gather
         /\ Sound(agent')
         /\ agent'.pending = agent.pending /\ agent'.heard = agent.heard
         /\ agent.objective = None => agent'.objective = None
         /\ agent.objective # None =>
              /\ agent'.objective.budget = agent.objective.budget
              /\ agent'.objective.number = agent.objective.number
              /\ agent'.objective.used = agent.objective.used + 1
         /\ \/ posted' = posted /\ now' = now
            \/ /\ now' = now + 1
               /\ agent.objective # None => agent.objective.used < agent.objective.budget
               /\ posted' = IF agent.objective = None THEN posted
                            ELSE [posted EXCEPT ![agent.objective.number] = @ + 1]
         /\ stray' \in {stray, stray \cup {"suppressed"}}
<1> USE DEF DecisionIInv
<1>1. Sound(agent) /\ succeeded \in BOOLEAN /\ unavailable \subseteq Gather
  BY DEF TypePart
<1>2. PICK ok \in BOOLEAN, transient \in BOOLEAN : agent' = Record(agent, act, ok, transient)
  BY DEF GameAction, ExecuteBlocked, ExecuteRejected, ExecutePosted, Refuse
<1>3. /\ Sound(agent')
      /\ agent'.pending = agent.pending /\ agent'.heard = agent.heard
      /\ agent.objective = None => agent'.objective = None
      /\ agent.objective # None =>
           /\ agent'.objective.budget = agent.objective.budget
           /\ agent'.objective.number = agent.objective.number
           /\ agent'.objective.used = agent.objective.used + 1
  BY <1>1, <1>2, RecordSound
<1>4. Next1(act) /\ taken' = TRUE /\ UNCHANGED <<spoke, objectives>>
  BY DEF GameAction, ExecuteBlocked, ExecuteRejected, ExecutePosted, Refuse, EndsDecision
<1>5. succeeded' \in BOOLEAN /\ unavailable' \subseteq Gather
  BY <1>1 DEF GameAction, ExecuteBlocked, ExecuteRejected, ExecutePosted, Refuse
<1>6. \/ posted' = posted /\ now' = now
      \/ /\ now' = now + 1
         /\ agent.objective # None => agent.objective.used < agent.objective.budget
         /\ posted' = IF agent.objective = None THEN posted
                      ELSE [posted EXCEPT ![agent.objective.number] = @ + 1]
  <2>1. CASE ExecuteBlocked(act) \/ ExecuteRejected(act)
    BY <2>1 DEF ExecuteBlocked, ExecuteRejected, Refuse
  <2>2. CASE ExecutePosted(act)
    <3>1. agent.objective # None => agent.objective.used \in Nat /\ agent.objective.budget \in 2..12
      BY <1>1, ObjectiveFields
    <3>2. ~BudgetExhausted(agent)
      BY <2>2 DEF ExecutePosted, IsBlocked
    <3>3. QED BY <2>2, <3>1, <3>2 DEF ExecutePosted, BudgetExhausted
  <2>3. QED BY <2>1, <2>2 DEF GameAction
<1>7. stray' \in {stray, stray \cup {"suppressed"}}
  <2>1. CASE ExecuteBlocked(act) \/ ExecuteRejected(act)
    BY <2>1 DEF ExecuteBlocked, ExecuteRejected
  <2>2. CASE ExecutePosted(act)
    <3>1. pc = "execute"
      BY <1>4 DEF Next1
    <3>2. act = "dirt" => Authorized(agent)
      BY <2>2 DEF ExecutePosted, MayBePosted
    <3>3. agent.pending \subseteq recent[2] /\ (turn => agent.heard \in recent[1] \cup recent[2])
      BY <3>1 DEF AuthorityPart
    <3>4. /\ act = "dirt"
          /\ "dirt" \notin recent[1] \cup recent[2]
          => agent.goal # None /\ agent.goal.topic = "dirt"
      BY <3>2, <3>3 DEF Authorized
    <3>5. QED BY <2>2, <3>4 DEF ExecutePosted
  <2>3. QED BY <2>1, <2>2 DEF GameAction
<1>8. QED BY <1>3, <1>4, <1>5, <1>6, <1>7

LEMMA GameActionKeeps ==
  ASSUME DecisionIInv, NEW act \in Gather, GameAction(act)
  PROVE  DecisionIInv'
<1> USE DEF DecisionIInv
<1>1. /\ taken' = TRUE /\ UNCHANGED <<spoke, objectives>>
      /\ succeeded' \in BOOLEAN /\ unavailable' \subseteq Gather
      /\ Sound(agent')
      /\ agent'.pending = agent.pending /\ agent'.heard = agent.heard
      /\ stray' \in {stray, stray \cup {"suppressed"}}
  BY GameActionDoes
<1>2. /\ agent.objective = None => agent'.objective = None
      /\ agent.objective # None =>
           /\ agent'.objective.budget = agent.objective.budget
           /\ agent'.objective.number = agent.objective.number
           /\ agent'.objective.used = agent.objective.used + 1
  BY GameActionDoes
<1>3. \/ posted' = posted /\ now' = now
      \/ /\ now' = now + 1
         /\ agent.objective # None => agent.objective.used < agent.objective.budget
         /\ posted' = IF agent.objective = None THEN posted
                      ELSE [posted EXCEPT ![agent.objective.number] = @ + 1]
  BY GameActionDoes
<1>4. Next1(act)
  BY GameActionDoes
<1>5. /\ calls # <<>> /\ calls' = Tail(calls)
      /\ calls' \in Seq(Calls) /\ Len(calls') <= Limit
      /\ pc = "execute" /\ pc' = "execute" /\ ~taken
      /\ UNCHANGED <<file, newChat, followup, turn, dead, turns, messages, faults, recent>>
  BY <1>4, CallTaken
<1>6. TypePart'
  <2>1. stray' \subseteq {"goal", "dirt", "suppressed"} /\ spoke' \in BOOLEAN
    BY <1>1 DEF TypePart
  <2>2. QED BY <1>1, <1>5, <2>1 DEF TypePart
<1>7. TakenPart'
  <2>1. now = 0
    BY <1>5 DEF TakenPart
  <2>2. now' \in 0..1
    BY <1>3, <2>1
  <2>3. QED BY <1>1, <1>5, <2>2 DEF TakenPart
<1>8. BudgetPart'
  <2>1. Unsaved = 0 /\ Unsaved' = 1
    BY <1>1, <1>5 DEF Unsaved
  <2>2. /\ faults \in Nat /\ faults' = faults /\ objectives' = objectives /\ file' = file
        /\ objectives \in 0..MaxObjectives /\ posted \in [1..MaxObjectives -> Nat]
        /\ \A n \in 1..MaxObjectives : n > objectives => posted[n] = 0
    BY <1>1, <1>5 DEF BudgetPart
  <2>3. agent.objective # None =>
          /\ agent.objective.number \in 1..MaxObjectives
          /\ agent.objective.used \in Nat /\ agent.objective.budget \in 2..12
          /\ agent.objective.number <= objectives
          /\ posted[agent.objective.number] <= agent.objective.used + faults
          /\ posted[agent.objective.number] <= agent.objective.budget + faults
    BY ObjectiveFields DEF TypePart, BudgetPart, Charged
  <2>4. posted' \in [1..MaxObjectives -> Nat]
    BY <1>3, <2>2, <2>3
  <2>5. \A n \in 1..MaxObjectives : posted'[n] \in {posted[n], posted[n] + 1}
    <3>1. CASE posted' = posted
      BY <3>1
    <3>2. CASE /\ agent.objective # None
               /\ posted' = [posted EXCEPT ![agent.objective.number] = @ + 1]
      BY <2>2, <3>2
    <3>3. QED BY <1>3, <3>1, <3>2
  <2>6. ASSUME NEW n \in 1..MaxObjectives, n > objectives' PROVE posted'[n] = 0
    <3>1. posted[n] = 0 /\ n > objectives
      BY <2>2, <2>6
    <3>2. CASE posted' = posted
      BY <3>1, <3>2
    <3>3. CASE /\ agent.objective # None
               /\ posted' = [posted EXCEPT ![agent.objective.number] = @ + 1]
      <4>1. agent.objective.number <= objectives /\ agent.objective.number \in Nat
            /\ objectives \in Nat /\ n \in Nat
        BY <2>2, <2>3, <3>3
      <4>2. n # agent.objective.number
        BY ONLY <3>1, <4>1
      <4>3. QED BY <2>2, <3>1, <3>3, <4>2
    <3>4. QED BY <1>3, <3>2, <3>3
  <2>7. Charged(agent, faults)'
    <3>1. CASE agent.objective = None
      BY <1>2, <3>1 DEF Charged
    <3>2. CASE agent.objective # None
      <4>1. /\ agent'.objective.budget = agent.objective.budget
            /\ agent'.objective.number = agent.objective.number
            /\ agent'.objective.used = agent.objective.used + 1
        BY <1>2, <3>2
      <4>2. posted[agent.objective.number] \in Nat
        BY <2>2, <2>3, <3>2
      <4>3. /\ posted'[agent.objective.number] <= agent.objective.used + 1 + faults
            /\ posted'[agent.objective.number] <= agent.objective.budget + faults
        <5>1. CASE posted' = posted
          BY <2>2, <2>3, <3>2, <4>2, <5>1
        <5>2. CASE /\ agent.objective.used < agent.objective.budget
                   /\ posted' = [posted EXCEPT ![agent.objective.number] = @ + 1]
          <6>1. posted'[agent.objective.number] = posted[agent.objective.number] + 1
            BY <2>2, <2>3, <3>2, <5>2
          <6>2. /\ posted[agent.objective.number] <= agent.objective.used + faults
                /\ agent.objective.used \in Nat /\ agent.objective.budget \in Nat
            BY <2>3, <3>2
          <6>3. faults \in Nat
            BY <2>2
          <6>4. QED BY ONLY <4>2, <5>2, <6>1, <6>2, <6>3
        <5>3. QED BY <1>3, <3>2, <5>1, <5>2
      <4>4. QED BY <2>2, <2>3, <3>2, <4>1, <4>3 DEF Charged
    <3>3. QED BY <3>1, <3>2
  <2>8. ASSUME file # None, file.objective # None PROVE Charged(file, faults + Unsaved)'
    <3>1. /\ file.objective.number \in 1..MaxObjectives /\ file.objective.used \in Nat
          /\ file.objective.budget \in 2..12
      BY <2>8, ObjectiveFields DEF TypePart
    <3>2. /\ file.objective.number <= objectives
          /\ posted[file.objective.number] <= file.objective.used + (faults + Unsaved)
          /\ posted[file.objective.number] <= file.objective.budget + (faults + Unsaved)
      BY <2>8 DEF BudgetPart, Charged
    <3>3. posted[file.objective.number] \in Nat
      BY <2>2, <3>1
    <3>4. posted'[file.objective.number] <= posted[file.objective.number] + 1
          /\ posted'[file.objective.number] \in Nat
      BY <2>4, <2>5, <3>1, <3>3
    <3>5. faults \in Nat /\ Unsaved = 0 /\ Unsaved' = 1
      BY <2>1, <2>2
    <3>6. /\ posted'[file.objective.number] <= file.objective.used + (faults + Unsaved')
          /\ posted'[file.objective.number] <= file.objective.budget + (faults + Unsaved')
      BY ONLY <3>1, <3>2, <3>3, <3>4, <3>5
    <3>7. QED BY <2>2, <3>2, <3>6 DEF Charged
  <2>9. file' # None => Charged(file, faults + Unsaved)'
    BY <2>2, <2>8 DEF Charged
  <2>10. QED BY <2>2, <2>4, <2>6, <2>7, <2>9 DEF BudgetPart
<1>9. AuthorityPart'
  <2>1. "goal" \notin stray' /\ "dirt" \notin stray'
    BY <1>1 DEF AuthorityPart
  <2>2. calls \in Seq(Calls)
    BY DEF TypePart
  <2>3. QED BY <1>1, <1>5, <2>1, <2>2, AuthorityUsed
<1>10. QED BY <1>6, <1>7, <1>8, <1>9

LEMMA ExecuteStopKeeps == DecisionIInv /\ ExecuteStop => DecisionIInv'
<1> SUFFICES ASSUME DecisionIInv, ExecuteStop PROVE DecisionIInv'
  OBVIOUS
<1> USE DEF DecisionIInv
<1>1. /\ calls # <<>> /\ calls' = Tail(calls)
      /\ calls' \in Seq(Calls) /\ Len(calls') <= Limit
      /\ pc = "execute" /\ pc' = "execute" /\ ~taken
      /\ UNCHANGED <<file, newChat, followup, turn, dead, turns, messages, faults, recent>>
  BY CallTaken DEF ExecuteStop
<1>2. /\ taken' = TRUE /\ succeeded' \in BOOLEAN /\ now' = now + 1
      /\ UNCHANGED <<agent, spoke, unavailable, posted, objectives, stray>>
  BY DEF ExecuteStop, EndsDecision
<1>3. TypePart'
  BY <1>1, <1>2 DEF TypePart, Sound
<1>4. TakenPart'
  BY <1>1, <1>2 DEF TakenPart
<1>5. BudgetPart'
  <2>1. Unsaved' >= Unsaved
    BY <1>1, <1>2 DEF Unsaved
  <2>2. QED BY <1>1, <1>2, <2>1, BudgetKept
<1>6. AuthorityPart'
  <2>1. "goal" \notin stray' /\ "dirt" \notin stray' /\ calls \in Seq(Calls)
    BY <1>2 DEF AuthorityPart, TypePart
  <2>2. QED BY <1>1, <1>2, <2>1, AuthorityUsed
<1>7. QED BY <1>3, <1>4, <1>5, <1>6

LEMMA FinishKeeps == DecisionIInv /\ Finish => DecisionIInv'
<1> SUFFICES ASSUME DecisionIInv, Finish PROVE DecisionIInv'
  OBVIOUS
<1> USE DEF DecisionIInv
<1>1. /\ pc = "execute" /\ pc' = "save" /\ now' = 0 /\ calls' = <<>>
      /\ followup' = (turn /\ spoke /\ ~succeeded)
      /\ newChat' = FALSE /\ turn' = FALSE /\ dead' = FALSE /\ taken' = FALSE
      /\ succeeded' = FALSE /\ spoke' = FALSE
      /\ UNCHANGED <<agent, file, unavailable, objectives, faults, posted, recent, stray>>
  BY DEF Finish, Forget
<1>2. TypePart'
  <2>1. calls' \in Seq(Calls) /\ Len(calls') <= Limit
    BY <1>1, NoCalls, LimitType
  <2>2. followup' \in BOOLEAN
    BY <1>1
  <2>3. QED BY <1>1, <2>1, <2>2 DEF TypePart, Sound
<1>3. TakenPart'
  BY <1>1 DEF TakenPart
<1>4. BudgetPart'
  <2>1. Unsaved' >= Unsaved
    BY <1>1 DEF Unsaved
  <2>2. QED BY <1>1, <2>1, BudgetKept
<1>5. AuthorityPart'
  BY <1>1 DEF AuthorityPart
<1>6. QED BY <1>2, <1>3, <1>4, <1>5

-----------------------------------------------------------------------------
(* The state file *)

\* A save writes the state as it is; one that fails counts as a fault, which makes
\* up for the action that the file now lacks for good.
LEMMA SaveKeeps == DecisionIInv /\ Save => DecisionIInv'
<1> SUFFICES ASSUME DecisionIInv, Save PROVE DecisionIInv'
  OBVIOUS
<1> USE DEF DecisionIInv
<1>1. /\ pc = "save" /\ pc' = "poll"
      /\ UNCHANGED <<agent, calls, newChat, followup, turn, taken, succeeded, spoke, unavailable,
                     dead, objectives, posted, now, recent, stray>>
      /\ \/ file' = agent /\ faults' = faults
         \/ file' = file /\ faults' = faults + 1
  BY DEF Save, locals
<1>2. TypePart'
  <2>1. file' = None \/ Sound(file')
    BY <1>1 DEF TypePart
  <2>2. QED BY <1>1, <2>1 DEF TypePart, Sound
<1>3. TakenPart'
  BY <1>1 DEF TakenPart
<1>4. BudgetPart'
  <2>1. Unsaved = 1 /\ Unsaved' = 0 /\ faults \in Nat /\ faults' \in Nat
    BY <1>1 DEF Unsaved, BudgetPart
  <2>2. CASE file' = agent /\ faults' = faults
    <3>1. Charged(agent, faults)
      BY DEF BudgetPart
    <3>2. faults' + Unsaved' = faults
      BY <2>1, <2>2
    <3>3. QED BY <1>1, <2>2, <3>1, <3>2 DEF BudgetPart, Charged
  <2>3. CASE file' = file /\ faults' = faults + 1
    <3>1. faults' + Unsaved' = faults + Unsaved
      BY <2>1, <2>3
    <3>2. file' # None => Charged(file, faults + Unsaved)'
      BY <1>1, <2>3, <3>1 DEF BudgetPart, Charged
    <3>3. Charged(agent, faults)'
      BY <1>1, <2>3, ChargedMore DEF BudgetPart, TypePart, Charged
    <3>4. QED BY <1>1, <2>1, <3>2, <3>3 DEF BudgetPart
  <2>4. QED BY <1>1, <2>2, <2>3
<1>5. AuthorityPart'
  BY <1>1, AuthorityKept
<1>6. QED BY <1>2, <1>3, <1>4, <1>5

\* A crash goes back to the file; the fault makes up for the action of the decision.
LEMMA CrashKeeps == DecisionIInv /\ Crash => DecisionIInv'
<1> SUFFICES ASSUME DecisionIInv, Crash PROVE DecisionIInv'
  OBVIOUS
<1> USE DEF DecisionIInv
<1>1. /\ pc' = "down" /\ now' = 0 /\ calls' = <<>> /\ followup' = FALSE /\ unavailable' = {}
      /\ newChat' = FALSE /\ turn' = FALSE /\ dead' = FALSE /\ taken' = FALSE
      /\ succeeded' = FALSE /\ spoke' = FALSE
      /\ faults' = faults + 1
      /\ UNCHANGED <<file, objectives, posted, recent, stray>>
  BY DEF Crash, Forget
<1>2. \/ file # None /\ agent' = file
      \/ agent' = NewAgent(None)
  BY DEF Crash, Kept
<1>3. Sound(agent')
  BY <1>2, NewSound, NoneIs DEF TypePart
<1>4. TypePart'
  <2>1. calls' \in Seq(Calls) /\ Len(calls') <= Limit
    BY <1>1, NoCalls, LimitType
  <2>2. QED BY <1>1, <1>3, <2>1 DEF TypePart, Sound
<1>5. TakenPart'
  BY <1>1 DEF TakenPart
<1>6. BudgetPart'
  <2>1. Unsaved \in 0..1 /\ Unsaved' = 0 /\ faults \in Nat /\ faults' \in Nat
    BY <1>1 DEF Unsaved, BudgetPart
  <2>2. file # None => Charged(file, faults + 1)
    BY <2>1, ChargedMore DEF BudgetPart, TypePart
  <2>3. file' # None => Charged(file, faults + Unsaved)'
    <3>1. faults' + Unsaved' = faults + 1
      BY <1>1, <2>1
    <3>2. QED BY <1>1, <2>2, <3>1 DEF Charged
  <2>4. Charged(agent, faults)'
    <3>1. CASE file # None /\ agent' = file
      BY <1>1, <2>2, <3>1 DEF Charged
    <3>2. CASE agent' = NewAgent(None)
      <4>1. agent'.objective = None
        BY <3>2, NewSound, NoneIs
      <4>2. QED BY <4>1 DEF Charged
    <3>3. QED BY <1>2, <3>1, <3>2
  <2>5. QED BY <1>1, <2>1, <2>3, <2>4 DEF BudgetPart
<1>7. AuthorityPart'
  BY <1>1 DEF AuthorityPart
<1>8. QED BY <1>4, <1>5, <1>6, <1>7

LEMMA RestartKeeps == DecisionIInv /\ Restart => DecisionIInv'
<1> SUFFICES ASSUME DecisionIInv, Restart PROVE DecisionIInv'
  OBVIOUS
<1> USE DEF DecisionIInv
<1>1. /\ pc = "down" /\ pc' = "poll"
      /\ UNCHANGED <<file, locals, history>>
  BY DEF Restart
<1>2. /\ Sound(agent') /\ agent'.objective \in {None, agent.objective}
      /\ agent'.pending = agent.pending /\ agent'.heard = agent.heard
  <2>1. agent' = agent \/ \E initial \in InitialGoals : agent' = SetGoal(agent, initial)
    BY DEF Restart
  <2>2. Sound(agent)
    BY DEF TypePart
  <2>3. QED BY <2>1, <2>2, NoneIs, SetGoalSound
<1>3. TypePart'
  BY <1>1, <1>2 DEF TypePart, locals, history, Sound
<1>4. TakenPart'
  BY <1>1 DEF TakenPart, locals, history
<1>5. BudgetPart'
  <2>1. Unsaved' >= Unsaved
    BY <1>1 DEF Unsaved
  <2>2. QED BY <1>1, <1>2, <2>1, BudgetKept DEF history
<1>6. AuthorityPart'
  BY <1>1, <1>2, AuthorityKept DEF locals, history
<1>7. QED BY <1>3, <1>4, <1>5, <1>6

-----------------------------------------------------------------------------
(* The invariants *)

LEMMA Step == DecisionIInv /\ [Next]_vars => DecisionIInv'
<1> SUFFICES ASSUME DecisionIInv, [Next]_vars PROVE DecisionIInv'
  OBVIOUS
<1>1. CASE Poll
  BY <1>1, PollKeeps
<1>2. CASE Observe
  BY <1>2, ObserveKeeps
<1>3. CASE ObserveFails \/ Wait \/ RequestFails
  BY <1>3, NoDecisionKeeps
<1>4. CASE Decide
  BY <1>4, DecideKeeps
<1>5. CASE Bookkeeping
  BY <1>5, BookkeepingKeeps
<1>6. CASE \E act \in Gather : GameAction(act)
  BY <1>6, GameActionKeeps
<1>7. CASE ExecuteStop
  BY <1>7, ExecuteStopKeeps
<1>8. CASE Finish
  BY <1>8, FinishKeeps
<1>9. CASE Save \/ Crash \/ Restart
  BY <1>9, SaveKeeps, CrashKeeps, RestartKeeps
<1>10. CASE UNCHANGED vars
  <2>1. UNCHANGED <<pc, agent, file, calls, newChat, followup, turn, taken, succeeded, spoke,
                    unavailable, dead, objectives, faults, posted, now, recent, stray>>
    BY <1>10 DEF vars, locals, history
  <2>2. TypePart'
    BY <2>1 DEF DecisionIInv, TypePart, Sound
  <2>3. TakenPart'
    BY <2>1 DEF DecisionIInv, TakenPart
  <2>4. BudgetPart'
    BY <2>1 DEF DecisionIInv, BudgetPart, Charged, Unsaved
  <2>5. AuthorityPart'
    BY <2>1 DEF DecisionIInv, AuthorityPart
  <2>6. QED BY <2>2, <2>3, <2>4, <2>5 DEF DecisionIInv
<1>11. QED BY <1>1, <1>2, <1>3, <1>4, <1>5, <1>6, <1>7, <1>8, <1>9, <1>10
           DEF Next, Bookkeeping, GameAction

LEMMA Inductive == Spec => []DecisionIInv
  BY InitHolds, Step, PTL DEF Spec

\* The state of the loop keeps its types; an objective serves the mission it was
\* set under, whoever changes the mission (set_goal_with_origin, finish_goal,
\* apply_chat_goal_commands, run_agent_loop); one game action per decision.
THEOREM DecisionHolds == Spec => []DecisionInv
<1>1. DecisionIInv => DecisionInv
  <2> SUFFICES ASSUME DecisionIInv PROVE DecisionInv
    OBVIOUS
  <2>1. Sound(agent)
    BY DEF DecisionIInv, TypePart
  <2>2. /\ agent.goal \in Goals /\ agent.objective \in Objectives
        /\ agent.pending \subseteq Topics /\ agent.heard \in Topics \cup {None}
        /\ agent.place \in Places /\ agent.failures \in Failures
    BY <2>1, AgentFields DEF Sound
  <2>3. {newChat, followup, turn, taken, succeeded, spoke, dead} \subseteq BOOLEAN
    BY DEF DecisionIInv, TypePart
  <2>4. TypeOK
    BY <2>2, <2>3 DEF TypeOK, DecisionIInv, TypePart, Failures
  <2>5. ObjectiveServesMission
    BY <2>1 DEF ObjectiveServesMission, Sound
  <2>6. OneActionPerDecision
    BY DEF OneActionPerDecision, DecisionIInv, TakenPart
  <2>7. QED BY <2>4, <2>5, <2>6 DEF DecisionInv
<1>2. QED BY Inductive, <1>1, PTL

\* The budget of an objective bounds the game actions taken for it, up to one for
\* every crash (Kept) and every save that failed (save_state).
THEOREM BudgetBounds == Spec => []BudgetBoundsActions
<1>1. DecisionIInv => BudgetBoundsActions
  BY DEF DecisionIInv, BudgetPart, Charged, BudgetBoundsActions
<1>2. QED BY Inductive, <1>1, PTL

\* A mission is set, and dirt gathered, only on the authority of a message of this
\* decision or the last, or of a mission: is_player_instruction_turn and
\* low_value_request_is_authorized never act on one that is over.
THEOREM AuthorityStaysFresh == Spec => []AuthorityIsFresh
<1>1. DecisionIInv => AuthorityIsFresh
  BY DEF DecisionIInv, AuthorityPart, AuthorityIsFresh, GoalsFollowInstructions, LowValueIsWanted
<1>2. QED BY Inductive, <1>1, PTL

-----------------------------------------------------------------------------
(* The requests to the model *)

\* The answer is that of the first request that is accepted.
LEMMA FirstAnswers ==
  ASSUME NEW ladder, NEW rejected, DOMAIN ladder \subseteq Nat,
         NEW k \in DOMAIN ladder, ladder[k] \cap rejected = {},
         \A j \in DOMAIN ladder : j < k => ladder[j] \cap rejected # {}
  PROVE  Answer(ladder, rejected) = IF "tools" \in ladder[k] THEN "native" ELSE "legacy"
<1> DEFINE accepted == Accepted(ladder, rejected)
<1>1. k \in accepted /\ accepted \subseteq Nat
  BY DEF Accepted
<1>2. \A j \in accepted : k <= j
  BY DEF Accepted
<1>3. (CHOOSE i \in accepted : \A j \in accepted : i <= j) = k
  <2>1. \A i \in accepted : (\A j \in accepted : i <= j) => i = k
    BY <1>1, <1>2
  <2>2. \E i \in accepted : \A j \in accepted : i <= j
    BY <1>1, <1>2
  <2> HIDE DEF accepted
  <2>3. QED BY <2>1, <2>2
<1>4. QED BY <1>1, <1>3 DEF Answer

\* The requests of request_chat_completions and request_legacy_json, in their order.
LEMMA ChatRequests ==
  /\ DOMAIN Chat = 1..5
  /\ Chat[1] = {"tools", "strict", "parallel_tool_calls", "max_completion_tokens",
                "temperature", "reasoning_effort"}
  /\ Chat[2] = {"tools", "strict", "max_completion_tokens", "reasoning_effort"}
  /\ Chat[3] = {"tools", "temperature", "max_tokens"}
  /\ Chat[4] = {"temperature", "max_tokens", "response_format"}
  /\ Chat[5] = {"temperature", "max_tokens"}
<1>1. Modern = {"tools", "strict", "max_completion_tokens", "reasoning_effort"}
  BY DEF Modern, ChatBody
<1>2. Compatibility = {"tools", "temperature", "max_tokens"}
  BY DEF Compatibility, WithoutStrict, ChatBody
<1>3. ChatBody = {"tools", "strict", "parallel_tool_calls", "max_completion_tokens",
                  "temperature", "reasoning_effort"}
  BY DEF ChatBody
<1>4. ASSUME NEW x1, NEW x2, NEW x3, NEW x4, NEW x5
      PROVE  LET all == <<x1, x2, x3>> \o <<x4, x5>> IN
               /\ DOMAIN all = 1..5
               /\ all[1] = x1 /\ all[2] = x2 /\ all[3] = x3 /\ all[4] = x4 /\ all[5] = x5
  <2> DEFINE S == {x1, x2, x3, x4, x5}
             a == <<x1, x2, x3>>
             b == <<x4, x5>>
  <2>1. a \in Seq(S) /\ Len(a) = 3 /\ a[1] = x1 /\ a[2] = x2 /\ a[3] = x3
    OBVIOUS
  <2>2. b \in Seq(S) /\ Len(b) = 2 /\ b[1] = x4 /\ b[2] = x5
    OBVIOUS
  <2> HIDE DEF a, b, S
  <2>3. /\ DOMAIN (a \o b) = 1..5
        /\ (a \o b)[1] = a[1] /\ (a \o b)[2] = a[2] /\ (a \o b)[3] = a[3]
        /\ (a \o b)[4] = b[1] /\ (a \o b)[5] = b[2]
    <3>1. a \o b \in Seq(S) /\ Len(a \o b) = Len(a) + Len(b)
      BY <2>1, <2>2, ConcatProperties
    <3>2. \A i \in 1..Len(a) + Len(b) : (a \o b)[i] = IF i <= Len(a) THEN a[i] ELSE b[i - Len(a)]
      BY <2>1, <2>2, ConcatProperties
    <3>3. Len(a) + Len(b) = 5
      BY <2>1, <2>2
    <3>4. DOMAIN (a \o b) = 1..5
      BY <3>1, <3>3
    <3>5. QED BY <2>1, <3>2, <3>3, <3>4
  <2>4. QED BY <2>1, <2>2, <2>3 DEF a, b
<1>5. Chat = <<ChatBody, Modern, Compatibility>>
               \o <<{"temperature", "max_tokens", "response_format"}, {"temperature", "max_tokens"}>>
  BY DEF Chat, Legacy
<1> HIDE DEF Modern, Compatibility, ChatBody
<1>6. QED BY <1>1, <1>2, <1>3, <1>4, <1>5

\* Those of request_responses.
LEMMA ResponsesRequests ==
  /\ DOMAIN Responses = 1..2
  /\ Responses[1] = {"tools", "strict", "parallel_tool_calls", "reasoning_effort"}
  /\ Responses[2] = {"tools"}
<1> DEFINE body == {"tools", "strict", "parallel_tool_calls", "reasoning_effort"}
<1>1. WithoutStrict(body \ {"reasoning_effort", "parallel_tool_calls"}) = {"tools"}
  BY DEF WithoutStrict
<1>2. Responses = <<body, {"tools"}>>
  BY <1>1 DEF Responses
<1>3. QED BY <1>2

\* A request with tools is accepted by every server that knows its fields.
LEMMA LadderHolds == LadderServes
<1> SUFFICES ASSUME NEW rejected \in SUBSET Fields
             PROVE  /\ rejected \cap {"tools", "temperature", "max_tokens"} = {}
                         => Answer(Chat, rejected) = "native"
                    /\ rejected \cap {"tools", "max_completion_tokens", "reasoning_effort", "strict"} = {}
                         => Answer(Chat, rejected) = "native"
                    /\ rejected \cap {"temperature", "max_tokens"} = {} => Answer(Chat, rejected) # "failed"
                    /\ "tools" \notin rejected => Answer(Responses, rejected) = "native"
  BY DEF LadderServes
<1> DEFINE Fits(ladder, k) == ladder[k] \cap rejected = {}
<1>1. ASSUME Fits(Chat, 1) \/ Fits(Chat, 2) \/ Fits(Chat, 3)
      PROVE  Answer(Chat, rejected) = "native"
  <2>1. DOMAIN Chat \subseteq Nat /\ DOMAIN Chat = 1..5
        /\ "tools" \in Chat[1] /\ "tools" \in Chat[2] /\ "tools" \in Chat[3]
    BY ChatRequests
  <2>2. PICK k \in 1..3 : Fits(Chat, k) /\ \A j \in DOMAIN Chat : j < k => ~Fits(Chat, j)
    BY <1>1, <2>1
  <2>3. Answer(Chat, rejected) = IF "tools" \in Chat[k] THEN "native" ELSE "legacy"
    BY <2>1, <2>2, FirstAnswers
  <2>4. k = 1 \/ k = 2 \/ k = 3
    BY <2>2
  <2>5. QED BY <2>1, <2>3, <2>4
<1>2. ASSUME Fits(Responses, 2) PROVE Answer(Responses, rejected) = "native"
  <2>1. DOMAIN Responses \subseteq Nat /\ DOMAIN Responses = 1..2
        /\ "tools" \in Responses[1] /\ "tools" \in Responses[2]
    BY ResponsesRequests
  <2>2. PICK k \in 1..2 : Fits(Responses, k) /\ \A j \in DOMAIN Responses : j < k => ~Fits(Responses, j)
    BY <1>2, <2>1
  <2>3. Answer(Responses, rejected) = IF "tools" \in Responses[k] THEN "native" ELSE "legacy"
    BY <2>1, <2>2, FirstAnswers
  <2>4. k = 1 \/ k = 2
    BY <2>2
  <2>5. QED BY <2>1, <2>3, <2>4
<1>3. rejected \cap {"tools", "temperature", "max_tokens"} = {} => Fits(Chat, 3)
  BY ChatRequests
<1>4. rejected \cap {"tools", "max_completion_tokens", "reasoning_effort", "strict"} = {}
        => Fits(Chat, 2)
  BY ChatRequests
<1>5. ASSUME rejected \cap {"temperature", "max_tokens"} = {} PROVE Answer(Chat, rejected) # "failed"
  <2>1. 5 \in Accepted(Chat, rejected)
    BY <1>5, ChatRequests DEF Accepted
  <2>2. QED BY <2>1 DEF Answer
<1>6. "tools" \notin rejected => Fits(Responses, 2)
  BY ResponsesRequests
<1>7. QED BY <1>1, <1>2, <1>3, <1>4, <1>5, <1>6

\* Every server that accepts native tools in one of the requests of the ladder is
\* asked for them (request_chat_completions, request_responses), and one that
\* knows the two oldest fields is served at last (request_legacy_json).
THEOREM LadderReachesModel == Spec => []ModelIsReached
<1>1. ModelIsReached
  BY LadderHolds DEF ModelIsReached
<1>2. QED BY <1>1, PTL

-----------------------------------------------------------------------------
(* The chat *)

Typed ==
  /\ said \in Seq(C!Speakers) /\ Len(said) <= MaxChats
  /\ first \in Nat /\ first <= Len(said)
  /\ chatAgent \in [cursor : Nat, pending : SUBSET [id : Nat, msg : Nat]]
  /\ disk \in [cursor : Nat, pending : SUBSET [id : Nat, msg : Nat]]
  /\ answers \in [C!Messages -> Nat]
  /\ mishaps \in Nat

\* Nothing that is pending is unread; with a cursor of an earlier run it is of
\* an earlier run as well.
ChatIsRead(a) ==
  /\ a.cursor <= Len(said)
  /\ \A p \in a.pending : /\ 1 <= p.msg /\ p.msg <= Len(said)
                          /\ said[p.msg] = "player"
                          /\ p.msg <= first + a.cursor
                          /\ C!LastId < a.cursor => p.msg <= first

\* cursor and ids belong to this run
Aligned(a) ==
  /\ a.cursor <= C!LastId
  /\ \A p \in a.pending : p.id = p.msg - first

AllKept(a) == \A m \in C!FromPlayers : m > first => C!KeptOrCrowded(a, m)

\* What the next poll cannot reach is known to be behind.
Tracked == \A m \in 1..Len(said) : C!OutOfReach(m, chatAgent.cursor) => m \in behind

\* what may still be answered was not, but for mishaps
Repeats ==
  \A m \in C!Messages :
    /\ answers[m] <= 1 + mishaps
    /\ m \in C!Held(chatAgent) => answers[m] <= mishaps
    /\ m > first + chatAgent.cursor => answers[m] <= mishaps
    /\ m > first /\ C!LastId < chatAgent.cursor => answers[m] <= mishaps
    /\ m > Len(said) => answers[m] <= mishaps

ChatIInv ==
  /\ Typed
  /\ ChatIsRead(chatAgent) /\ ChatIsRead(disk)
  /\ first = 0 => Aligned(chatAgent) /\ AllKept(chatAgent) /\ Aligned(disk) /\ AllKept(disk)
  /\ noticed => Aligned(chatAgent) /\ AllKept(chatAgent)
  /\ Tracked
  /\ Repeats

-----------------------------------------------------------------------------
(* Numbers *)

LEMMA ChatLimits ==
  /\ PendingLimit \in Nat \ {0}
  /\ FetchLimit \in Nat /\ FetchLimit >= PendingLimit
  /\ LogLimit \in Nat /\ LogLimit >= FetchLimit
  /\ MaxChats \in Nat /\ MaxRuns \in Nat \ {0} /\ MaxMishaps \in Nat
BY ChatAssumption DEF C!ChatAssumption

LEMMA SameCardinality == \A S : C!Cardinality(S) = Cardinality(S)
BY DEF C!Cardinality, Cardinality

-----------------------------------------------------------------------------
(* Sets of numbers *)

\* What is left out of the newest of a set has PendingLimit of it above it.
LEMMA LeftOut ==
  ASSUME NEW n \in Nat, NEW S \in SUBSET (1..n), NEW i \in S, i \notin C!Newest(S)
  PROVE  /\ IsFiniteSet({ j \in S : j > i }) /\ Cardinality({ j \in S : j > i }) \in Nat
         /\ Cardinality({ j \in S : j > i }) >= PendingLimit
<1> DEFINE above == { j \in S : j > i }
<1>1. IsFiniteSet(1..n)
  BY FS_Interval
<1>2. above \subseteq 1..n
  OBVIOUS
<1>3. IsFiniteSet(above)
  BY <1>1, <1>2, FS_Subset
<1>4. Cardinality(above) \in Nat
  BY <1>3, FS_CardinalityType
<1>5. ~(Cardinality(above) < PendingLimit)
  BY SameCardinality DEF C!Newest
<1> HIDE DEF above
<1>6. Cardinality(above) >= PendingLimit
  BY <1>4, <1>5, ChatLimits
<1> QED BY <1>3, <1>4, <1>6 DEF above

\* The messages said after m, without the noise.
Newer(m) == { k \in m + 1..Len(said) : said[k] # "noise" }

LEMMA NewerAreFinite ==
  ASSUME Typed, NEW m \in Nat
  PROVE  IsFiniteSet(Newer(m)) /\ Cardinality(Newer(m)) \in Nat
<1>1. m + 1 \in Int /\ Len(said) \in Int
  BY DEF Typed
<1>2. IsFiniteSet(m + 1..Len(said))
  BY <1>1, FS_Interval
<1>3. Newer(m) \subseteq m + 1..Len(said)
  BY DEF Newer
<1>4. IsFiniteSet(Newer(m))
  BY <1>2, <1>3, FS_Subset
<1> QED BY <1>4, FS_CardinalityType

\* PendingLimit numbers of newer messages make a crowd.
LEMMA Crowds ==
  ASSUME Typed, NEW m \in Nat, NEW T, IsFiniteSet(T), Cardinality(T) \in Nat,
         Cardinality(T) >= PendingLimit, NEW d \in Nat, T \subseteq Nat,
         \A j \in T : d + j \in Newer(m)
  PROVE  C!Crowded(m)
<1> DEFINE f == [j \in T |-> d + j]
<1>1. f \in Injection(T, Newer(m))
  <2>1. f \in [T -> Newer(m)]
    OBVIOUS
  <2>2. \A j, k \in T : d + j = d + k => j = k
    OBVIOUS
  <2> QED BY <2>1, <2>2 DEF Injection, IsInjective
<1> HIDE DEF f
<1>2. Cardinality(T) <= Cardinality(Newer(m))
  BY <1>1, NewerAreFinite, FS_Injection
<1>3. Cardinality(Newer(m)) >= PendingLimit
  BY <1>2, NewerAreFinite, ChatLimits
<1> QED BY <1>3, SameCardinality DEF C!Crowded, Newer

\* A crowd stays one.
LEMMA CrowdStays ==
  ASSUME Typed, Typed', Len(said') = Len(said) + 1,
         \A k \in 1..Len(said) : said'[k] = said[k],
         NEW m \in 1..Len(said), C!Crowded(m)
  PROVE  C!Crowded(m)'
<1>1. m \in Nat /\ Len(said) \in Nat
  BY DEF Typed
<1>2. CASE Len(said) >= m + LogLimit
  BY <1>1, <1>2, ChatLimits DEF C!Crowded
<1>3. CASE Cardinality(Newer(m)) >= PendingLimit
  <2>1. Newer(m) \subseteq Newer(m)'
    BY <1>1 DEF Newer
  <2>2. IsFiniteSet(Newer(m)') /\ Cardinality(Newer(m)') \in Nat
    <3>1. (IsFiniteSet(Newer(m)) /\ Cardinality(Newer(m)) \in Nat)'
      <4>1. m + 1 \in Int /\ Len(said') \in Int
        BY <1>1 DEF Typed
      <4>2. IsFiniteSet(m + 1..Len(said'))
        BY <4>1, FS_Interval
      <4>3. Newer(m)' \subseteq m + 1..Len(said')
        BY DEF Newer
      <4>4. IsFiniteSet(Newer(m)')
        BY <4>2, <4>3, FS_Subset
      <4> QED BY <4>4, FS_CardinalityType
    <3> QED BY <3>1
  <2>3. Cardinality(Newer(m)) <= Cardinality(Newer(m)')
    BY <2>1, <2>2, FS_Subset
  <2>4. Cardinality(Newer(m)') >= PendingLimit
    BY <1>1, <1>3, <2>2, <2>3, NewerAreFinite, ChatLimits
  <2> QED BY <2>4, SameCardinality DEF C!Crowded, Newer
<1> QED BY <1>2, <1>3, SameCardinality DEF C!Crowded, Newer

LEMMA NewestAreSome == ASSUME NEW S PROVE C!Newest(S) \subseteq S
  BY DEF C!Newest

-----------------------------------------------------------------------------
(* A poll *)

LEMMA Reads ==
  ASSUME Typed, NEW i \in C!Chats
  PROVE  /\ i \in C!Entries /\ i \in Nat /\ i > chatAgent.cursor /\ 1 <= i /\ i <= C!LastId
         /\ first + i \in C!FromPlayers
<1> DEFINE audible == { j \in C!Entries : C!SaidBy(j) # "noise" }
<1>1. i \in audible /\ C!SaidBy(i) = "player"
  BY NewestAreSome DEF C!Chats
<1>2. i \in C!Entries
  BY <1>1
<1>3. C!LastId \in Nat
  BY DEF Typed, C!LastId
<1>4. i \in 1..C!LastId /\ i > chatAgent.cursor
  BY <1>2, <1>3, ChatLimits DEF C!Entries, Typed
<1>5. first + i \in 1..Len(said)
  BY <1>3, <1>4 DEF Typed, C!LastId
<1> QED BY <1>1, <1>2, <1>3, <1>4, <1>5 DEF C!FromPlayers, C!SaidBy

LEMMA NothingNew ==
  ASSUME Typed, C!LastId <= chatAgent.cursor
  PROVE  C!Chats = {}
<1> SUFFICES ASSUME NEW i \in C!Chats PROVE FALSE
  OBVIOUS
<1> QED BY Reads DEF Typed, C!LastId

LEMMA Queues ==
  ASSUME NEW pending, NEW chats, NEW p \in C!Enqueued(pending, chats)
  PROVE  p \in pending \/ \E i \in chats : p = [id |-> i, msg |-> first + i]
BY DEF C!Enqueued

LEMMA CursorMoves ==
  ASSUME Typed, C!Poll
  PROVE  /\ chatAgent'.pending = C!Enqueued(chatAgent.pending, C!Chats)
         /\ chatAgent'.cursor = IF C!LastId < chatAgent.cursor THEN 0 ELSE C!LastId
         /\ chatAgent'.cursor \in Nat /\ chatAgent'.cursor <= C!LastId
         /\ C!LastId \in Nat /\ C!LastId' = C!LastId
         /\ UNCHANGED <<said, first, runs, disk, answers, mishaps>>
BY DEF Typed, C!Poll, C!Advanced, C!LastId, C!gameVars

LEMMA PollTyped ==
  ASSUME Typed, C!Poll
  PROVE  Typed'
<1>1. \A p \in chatAgent'.pending : p \in [id : Nat, msg : Nat]
  <2> TAKE p \in chatAgent'.pending
  <2>1. CASE p \in chatAgent.pending
    BY <2>1 DEF Typed
  <2>2. CASE \E i \in C!Chats : p = [id |-> i, msg |-> first + i]
    BY <2>2, Reads DEF Typed
  <2> QED BY <2>1, <2>2, CursorMoves, Queues
<1>2. chatAgent' = [cursor |-> chatAgent'.cursor, pending |-> chatAgent'.pending]
  BY DEF C!Poll
<1> QED BY <1>1, <1>2, CursorMoves DEF Typed

LEMMA PollSound ==
  ASSUME Typed, ChatIsRead(chatAgent), C!Poll
  PROVE  ChatIsRead(chatAgent)'
<1>1. chatAgent'.cursor <= Len(said)
  BY CursorMoves DEF Typed, C!LastId
<1>2. ASSUME NEW p \in chatAgent'.pending
      PROVE  /\ 1 <= p.msg /\ p.msg <= Len(said) /\ said[p.msg] = "player"
             /\ p.msg <= first + chatAgent'.cursor
  <2>1. CASE p \in chatAgent.pending
    <3>1. p.msg \in Nat
      BY <2>1 DEF Typed
    <3>2. 1 <= p.msg /\ p.msg <= Len(said) /\ said[p.msg] = "player"
      BY <2>1 DEF ChatIsRead
    <3>3. p.msg <= first + chatAgent'.cursor
      BY <2>1, <3>1, <3>2, CursorMoves DEF ChatIsRead, Typed, C!LastId
    <3> QED BY <3>2, <3>3
  <2>2. CASE \E i \in C!Chats : p = [id |-> i, msg |-> first + i]
    <3>1. PICK i \in C!Chats : p = [id |-> i, msg |-> first + i]
      BY <2>2
    <3>2. /\ i \in Nat /\ i > chatAgent.cursor /\ 1 <= i /\ i <= C!LastId
          /\ said[first + i] = "player"
      BY Reads DEF C!FromPlayers
    <3>3. p.msg = first + i
      BY <3>1
    <3>4. chatAgent'.cursor = C!LastId
      BY <3>2, CursorMoves DEF Typed
    <3> QED BY <3>2, <3>3, <3>4, CursorMoves DEF Typed, C!LastId
  <2> QED BY <2>1, <2>2, CursorMoves, Queues
<1>3. ~(C!LastId < chatAgent'.cursor)
  BY CursorMoves
<1> QED BY <1>1, <1>2, <1>3, CursorMoves DEF ChatIsRead, C!LastId

\* A poll of a run that the cursor belongs to loses nothing but in a crowd.
LEMMA ChatPollKeeps ==
  ASSUME Typed, ChatIsRead(chatAgent), Aligned(chatAgent), AllKept(chatAgent), Tracked, C!Poll
  PROVE  Aligned(chatAgent)' /\ AllKept(chatAgent)'
<1>1. chatAgent'.cursor = C!LastId /\ chatAgent'.cursor <= C!LastId
  BY CursorMoves DEF Aligned, Typed
<1>0. behind' = behind
  BY DEF C!Poll, Aligned, Typed, C!LastId
<1>2. Aligned(chatAgent)'
  <2>1. ASSUME NEW p \in chatAgent'.pending PROVE p.id = p.msg - first
    <3>1. CASE p \in chatAgent.pending
      BY <3>1 DEF Aligned
    <3>2. CASE \E i \in C!Chats : p = [id |-> i, msg |-> first + i]
      BY <3>2, Reads DEF Typed
    <3> QED BY <3>1, <3>2, CursorMoves, Queues
  <2> QED BY <1>1, <2>1, CursorMoves DEF Aligned, C!LastId
<1>3. ASSUME NEW m \in C!FromPlayers, m > first
      PROVE  C!KeptOrCrowded(chatAgent, m)'
  <2>1. m \in 1..Len(said) /\ said[m] = "player"
    BY DEF C!FromPlayers
  <2> DEFINE fresh == { i \in C!Chats : \A p \in chatAgent.pending : p.id # i }
             queue == chatAgent.pending \union { [id |-> i, msg |-> first + i] : i \in fresh }
             msgs == { q.msg : q \in queue }
  <2>2. msgs \subseteq C!FromPlayers
    <3>1. ASSUME NEW q \in chatAgent.pending PROVE q.msg \in C!FromPlayers
      BY DEF ChatIsRead, Typed, C!FromPlayers
    <3>2. ASSUME NEW i \in C!Chats PROVE first + i \in C!FromPlayers
      BY Reads
    <3> QED BY <3>1, <3>2
  <2>9. msgs \subseteq 1..Len(said) /\ Len(said) \in Nat /\ m \in Nat
    BY <2>1, <2>2 DEF C!FromPlayers, Typed
  \* whatever is queued is kept, unless newer ones push it out
  <2>3. ASSUME NEW q \in queue, q.msg = m
        PROVE  C!KeptOrCrowded(chatAgent, m)'
    <3>1. CASE m \in C!Newest(msgs)
      <4>1. q \in chatAgent'.pending
        BY <2>3, <3>1, CursorMoves DEF C!Enqueued
      <4>2. m \in C!Held(chatAgent')
        BY <2>3, <4>1 DEF C!Held
      <4> QED BY <4>2 DEF C!KeptOrCrowded, C!Accounted, C!Held
    <3>2. CASE m \notin C!Newest(msgs)
      <4>1. m \in msgs
        BY <2>3
      <4> HIDE DEF msgs
      <4> DEFINE above == { j \in msgs : j > m }
      <4>2. IsFiniteSet(above) /\ Cardinality(above) \in Nat /\ Cardinality(above) >= PendingLimit
        BY <2>9, <3>2, <4>1, LeftOut
      <4>3. ASSUME NEW j \in above PROVE j \in Nat /\ 0 + j \in Newer(m)
        <5>1. j \in 1..Len(said) /\ said[j] = "player" /\ j > m
          BY <2>2 DEF C!FromPlayers
        <5> HIDE DEF above
        <5>2. j \in Nat /\ j \in m + 1..Len(said) /\ said[j] # "noise"
          BY <2>9, <5>1
        <5> QED BY <5>2 DEF Newer
      <4> HIDE DEF above
      <4>4. C!Crowded(m)
        <5>1. above \subseteq Nat /\ 0 \in Nat
          BY <4>3
        <5> QED BY <2>9, <4>2, <4>3, <5>1, Crowds
      <4> QED BY <4>4, CursorMoves DEF C!KeptOrCrowded, C!Crowded
    <3> QED BY <3>1, <3>2
  <2>4. CASE m \in C!Held(chatAgent)
    <3>1. PICK q \in chatAgent.pending : q.msg = m
      BY <2>4 DEF C!Held
    <3> QED BY <2>3, <3>1
  <2>5. CASE answers[m] > 0
    BY <2>5, CursorMoves DEF C!KeptOrCrowded, C!Accounted
  <2>6. CASE C!Crowded(m) \/ m \in behind
    BY <1>0, <2>6, CursorMoves DEF C!KeptOrCrowded, C!Crowded
  <2>7. CASE m > first + chatAgent.cursor /\ ~C!Crowded(m) /\ m \notin behind
    <3> DEFINE i == m - first
    <3>1. i \in 1..C!LastId /\ i > chatAgent.cursor /\ first + i = m
      BY <2>1, <2>7 DEF Typed, C!LastId
    <3>2. i \in C!Entries
      <4>1. ~(Len(said) >= m + LogLimit)
        BY <2>7 DEF C!Crowded
      <4>2. i <= chatAgent.cursor + FetchLimit
        BY <2>1, <2>7, <2>9, ChatLimits DEF Tracked, C!OutOfReach, Typed
      <4> QED BY <2>9, <3>1, <4>1, <4>2, ChatLimits DEF C!Entries, Typed, C!LastId
    <3>3. C!SaidBy(i) = "player"
      BY <2>1, <3>1 DEF C!SaidBy
    <3>4. i \in C!Chats
      <4> DEFINE audible == { j \in C!Entries : C!SaidBy(j) # "noise" }
      <4>1. i \in audible
        BY <3>2, <3>3
      <4>2. audible \subseteq 1..C!LastId /\ C!LastId \in Nat
        BY DEF C!Entries, Typed, C!LastId
      <4>3. i \in C!Newest(audible)
        <5>1. SUFFICES ASSUME i \notin C!Newest(audible) PROVE FALSE
          OBVIOUS
        <5> DEFINE above == { j \in audible : j > i }
        <5>2. IsFiniteSet(above) /\ Cardinality(above) \in Nat /\ Cardinality(above) >= PendingLimit
          <6> HIDE DEF audible, i
          <6> QED BY <4>1, <4>2, <5>1, LeftOut
        <5>3. ASSUME NEW j \in above PROVE j \in Nat /\ first + j \in Newer(m)
          <6>1. j \in 1..C!LastId /\ j > i /\ said[first + j] # "noise"
            BY <4>2 DEF C!SaidBy
          <6> HIDE DEF above
          <6> QED BY <2>9, <3>1, <6>1 DEF Newer, C!LastId, Typed
        <5> HIDE DEF above, audible, i
        <5>4. above \subseteq Nat /\ first \in Nat
          BY <5>3 DEF Typed
        <5>5. C!Crowded(m)
          BY <2>9, <5>2, <5>3, <5>4, Crowds
        <5> QED BY <2>7, <5>5
      <4> QED BY <3>3, <4>3 DEF C!Chats
    <3>5. i \in fresh
      <4>1. ASSUME NEW p \in chatAgent.pending PROVE p.id # i
        <5>1. p.id = p.msg - first /\ p.msg <= first + chatAgent.cursor /\ p.msg \in Nat
          BY DEF Aligned, ChatIsRead, Typed
        <5> QED BY <3>1, <5>1 DEF Typed
      <4> QED BY <3>4, <4>1
    <3>6. [id |-> i, msg |-> first + i] \in queue
      BY <3>5
    <3> QED BY <2>3, <3>1, <3>6
  <2>8. C!KeptOrCrowded(chatAgent, m)
    BY <1>3 DEF AllKept
  <2> HIDE DEF fresh, queue, msgs
  <2> QED BY <2>4, <2>5, <2>6, <2>7, <2>8 DEF C!KeptOrCrowded, C!Accounted
<1>4. AllKept(chatAgent)'
  BY <1>3, CursorMoves DEF AllKept, C!FromPlayers
<1> QED BY <1>2, <1>4

\* What a poll leaves unread is what it could not reach.
LEMMA PollTracks ==
  ASSUME Typed, Tracked, C!Poll
  PROVE  Tracked'
<1>1. CASE C!LastId < chatAgent.cursor
  <2>1. chatAgent'.cursor = 0 /\ behind' = behind \union C!Unreachable(0)
    BY <1>1, CursorMoves DEF C!Poll
  <2> QED BY <2>1, CursorMoves DEF Tracked, C!Unreachable, C!OutOfReach
<1>2. CASE ~(C!LastId < chatAgent.cursor)
  <2>1. chatAgent'.cursor = C!LastId /\ said' = said /\ first' = first
    BY <1>2, CursorMoves
  <2> QED BY <2>1, ChatLimits DEF Tracked, C!OutOfReach, C!LastId, Typed
<1> QED BY <1>1, <1>2

\* A poll reads nothing twice, except after a mishap.
LEMMA PollRepeats ==
  ASSUME Typed, ChatIsRead(chatAgent), Repeats, C!Poll
  PROVE  Repeats'
<1>1. ASSUME NEW m \in C!Messages, m \in C!Held(chatAgent')
      PROVE  answers[m] <= mishaps
  <2>1. PICK p \in chatAgent'.pending : p.msg = m
    BY <1>1 DEF C!Held
  <2>2. CASE p \in chatAgent.pending
    <3>1. m \in C!Held(chatAgent)
      BY <2>1, <2>2 DEF C!Held
    <3> QED BY <3>1 DEF Repeats
  <2>3. CASE \E i \in C!Chats : p = [id |-> i, msg |-> first + i]
    <3>1. PICK i \in C!Chats : p = [id |-> i, msg |-> first + i]
      BY <2>3
    <3>2. m = first + i /\ i > chatAgent.cursor /\ i \in Nat
      BY <2>1, <3>1, Reads
    <3>3. m > first + chatAgent.cursor
      BY <3>2 DEF Typed
    <3> QED BY <3>3 DEF Repeats
  <2> QED BY <2>2, <2>3, CursorMoves, Queues
<1>2. ASSUME NEW m \in C!Messages, m > first + chatAgent'.cursor
      PROVE  answers[m] <= mishaps
  <2>0. m \in Nat /\ first \in Nat /\ chatAgent.cursor \in Nat
    BY ChatLimits DEF C!Messages, Typed
  <2>1. CASE C!LastId < chatAgent.cursor
    <3>1. m > first
      BY <1>2, <2>0, <2>1, CursorMoves
    <3> QED BY <2>1, <3>1 DEF Repeats
  <2>2. CASE ~(C!LastId < chatAgent.cursor)
    <3>1. m > Len(said)
      BY <1>2, <2>0, <2>2, CursorMoves DEF C!LastId, Typed
    <3> QED BY <3>1 DEF Repeats
  <2> QED BY <2>1, <2>2
<1>3. ~(C!LastId < chatAgent'.cursor)
  BY CursorMoves
<1> QED BY <1>1, <1>2, <1>3, CursorMoves DEF Repeats, C!LastId, C!Held

-----------------------------------------------------------------------------
(* The invariant *)

LEMMA ChatInit == C!Init => ChatIInv
<1> SUFFICES ASSUME C!Init PROVE ChatIInv
  OBVIOUS
<1>1. Typed
  BY ChatLimits DEF C!Init, Typed, C!Messages
<1>2. C!FromPlayers = {} /\ C!LastId = 0
  BY DEF C!Init, C!FromPlayers, C!LastId
<1>3. C!Held(chatAgent) = {}
  BY DEF C!Init, C!Held
<1>4. Repeats
  BY <1>2, <1>3 DEF C!Init, Repeats
<1>5. Tracked
  BY DEF C!Init, Tracked
<1> QED BY <1>1, <1>2, <1>4, <1>5 DEF C!Init, ChatIInv, ChatIsRead, Aligned, AllKept

LEMMA PollInv == ChatIInv /\ C!Poll => ChatIInv'
<1> SUFFICES ASSUME ChatIInv, C!Poll PROVE ChatIInv'
  OBVIOUS
<1>1. Typed /\ ChatIsRead(chatAgent) /\ Repeats /\ Tracked
  BY DEF ChatIInv
<1>2. Typed'
  BY <1>1, PollTyped
<1>3. ChatIsRead(chatAgent)' /\ ChatIsRead(disk)'
  BY <1>1, PollSound, CursorMoves DEF ChatIInv, ChatIsRead, C!LastId
<1>4. Repeats'
  BY <1>1, PollRepeats
<1>5. first = 0 => (Aligned(chatAgent) /\ AllKept(chatAgent) /\ Aligned(disk) /\ AllKept(disk))'
  <2> SUFFICES ASSUME first = 0
               PROVE (Aligned(chatAgent) /\ AllKept(chatAgent) /\ Aligned(disk) /\ AllKept(disk))'
    OBVIOUS
  <2>1. Aligned(chatAgent) /\ AllKept(chatAgent) /\ Aligned(disk) /\ AllKept(disk)
    BY DEF ChatIInv
  <2>2. (Aligned(chatAgent) /\ AllKept(chatAgent))'
    BY <1>1, <2>1, ChatPollKeeps
  <2>3. (Aligned(disk) /\ AllKept(disk))'
    <3>1. behind \subseteq behind'
      BY DEF C!Poll
    <3> QED BY <1>1, <2>1, <3>1, CursorMoves
            DEF Aligned, AllKept, C!KeptOrCrowded, C!Crowded, C!Accounted, C!Held, C!LastId, C!FromPlayers
  <2> QED BY <2>2, <2>3
<1>6. noticed' => (Aligned(chatAgent) /\ AllKept(chatAgent))'
  <2>1. CASE noticed
    <3>1. Aligned(chatAgent) /\ AllKept(chatAgent)
      BY <2>1 DEF ChatIInv
    <3> QED BY <1>1, <3>1, ChatPollKeeps
  \* the cursor is set back, and nothing of the run was read
  <2>2. CASE C!LastId < chatAgent.cursor /\ chatAgent.pending = {}
    <3>1. chatAgent'.cursor = 0
      BY <1>1, <2>2, CursorMoves
    <3>2. C!Chats = {}
      BY <1>1, <2>2, NothingNew DEF Typed, C!LastId
    <3>3. chatAgent'.pending = {}
      BY <1>1, <2>2, <3>2, CursorMoves, Queues
    <3>4. C!LastId \in Nat /\ C!LastId' = C!LastId
      BY <1>1, CursorMoves
    <3>5. Aligned(chatAgent)'
      BY <3>1, <3>3, <3>4 DEF Aligned
    <3>6. first' = first /\ first \in Nat
      BY <1>1, CursorMoves DEF Typed
    <3>7. AllKept(chatAgent)'
      BY <3>1, <3>6 DEF AllKept, C!KeptOrCrowded, C!Accounted
    <3> QED BY <3>5, <3>7
  <2> QED BY <2>1, <2>2 DEF C!Poll
<1>7. Tracked'
  BY <1>1, PollTracks
<1> QED BY <1>1, <1>2, <1>3, <1>4, <1>5, <1>6, <1>7, CursorMoves DEF ChatIInv

LEMMA SayInv == ASSUME NEW who \in C!Speakers PROVE ChatIInv /\ C!Say(who) => ChatIInv'
<1> SUFFICES ASSUME ChatIInv, C!Say(who) PROVE ChatIInv'
  OBVIOUS
<1>1. Typed /\ ChatIsRead(chatAgent) /\ ChatIsRead(disk) /\ Repeats /\ Tracked
  BY DEF ChatIInv
<1>2. /\ Len(said') = Len(said) + 1 /\ Len(said) \in Nat /\ Len(said) < MaxChats
      /\ said' \in Seq(C!Speakers)
      /\ \A m \in 1..Len(said) : said'[m] = said[m]
      /\ C!LastId' = C!LastId + 1 /\ C!LastId \in Nat
      /\ UNCHANGED <<first, runs, step, chatAgent, disk, answers, mishaps, noticed>>
      /\ behind' = IF C!OutOfReach(Len(said) + 1, chatAgent.cursor)
                     THEN behind \union {Len(said) + 1} ELSE behind
  BY <1>1 DEF C!Say, Typed, C!LastId
<1>3. Typed'
  BY <1>1, <1>2, ChatLimits DEF Typed
<1>4. ASSUME NEW a \in {chatAgent, disk}
      PROVE  ChatIsRead(a) => /\ a.cursor <= Len(said')
                         /\ \A p \in a.pending : /\ 1 <= p.msg /\ p.msg <= Len(said') /\ said'[p.msg] = "player"
                                                 /\ p.msg <= first + a.cursor
                                                 /\ C!LastId' < a.cursor => p.msg <= first
  <2> SUFFICES ASSUME ChatIsRead(a)
               PROVE /\ a.cursor <= Len(said')
                     /\ \A p \in a.pending : /\ 1 <= p.msg /\ p.msg <= Len(said') /\ said'[p.msg] = "player"
                                             /\ p.msg <= first + a.cursor
                                             /\ C!LastId' < a.cursor => p.msg <= first
    OBVIOUS
  <2>1. a.cursor \in Nat
    BY <1>1 DEF Typed
  <2>2. ASSUME NEW p \in a.pending PROVE p.msg \in Nat
    BY <1>1 DEF Typed
  <2> QED BY <1>2, <2>1, <2>2 DEF ChatIsRead
<1>5. ChatIsRead(chatAgent)' /\ ChatIsRead(disk)'
  BY <1>1, <1>2, <1>4 DEF ChatIsRead
<1>6. ASSUME NEW a \in {chatAgent, disk}, Aligned(a), AllKept(a)
      PROVE  /\ a.cursor <= C!LastId'
             /\ \A m \in C!FromPlayers' : m > first =>
                  C!Accounted(a, m) \/ C!Crowded(m)' \/ m \in behind'
  <2>1. a.cursor \in Nat /\ a.cursor <= C!LastId
    BY <1>1, <1>6 DEF Typed, Aligned
  <2>2. ASSUME NEW m \in C!FromPlayers', m > first
        PROVE  C!Accounted(a, m) \/ C!Crowded(m)' \/ m \in behind'
    <3>1. m \in 1..(Len(said) + 1)
      BY <1>2 DEF C!FromPlayers
    <3>2. CASE m = Len(said) + 1
      BY <1>1, <1>2, <2>1, <3>2 DEF C!Accounted, C!LastId, Typed
    <3>3. CASE m \in 1..Len(said)
      <4>1. m \in C!FromPlayers
        BY <1>2, <3>3 DEF C!FromPlayers
      <4>2. C!KeptOrCrowded(a, m)
        BY <1>6, <2>2, <4>1 DEF AllKept
      <4>3. CASE C!Crowded(m)
        BY <1>1, <1>2, <1>3, <3>3, <4>3, CrowdStays
      <4> QED BY <1>2, <4>2, <4>3 DEF C!KeptOrCrowded
    <3> QED BY <1>2, <3>1, <3>2, <3>3
  <2> QED BY <1>2, <2>1, <2>2
<1>7. ASSUME NEW a \in {chatAgent, disk}, Aligned(a), AllKept(a)
      PROVE  a \in {chatAgent', disk'} /\ \A p \in a.pending : p.id = p.msg - first'
  BY <1>2, <1>7 DEF Aligned
<1>8. Aligned(chatAgent) /\ AllKept(chatAgent) => (Aligned(chatAgent) /\ AllKept(chatAgent))'
  BY <1>2, <1>6, <1>7 DEF Aligned, AllKept, C!KeptOrCrowded, C!Accounted, C!Held
<1>9. Aligned(disk) /\ AllKept(disk) => (Aligned(disk) /\ AllKept(disk))'
  BY <1>2, <1>6, <1>7 DEF Aligned, AllKept, C!KeptOrCrowded, C!Accounted, C!Held
<1>10. Repeats'
  <2>1. \A m \in C!Messages : m \in Nat
    BY ChatLimits DEF C!Messages
  <2>2. chatAgent.cursor \in Nat
    BY <1>1 DEF Typed
  <2> QED BY <1>1, <1>2, <2>1, <2>2 DEF Repeats, C!Held
<1>11. Tracked'
  <2> SUFFICES ASSUME NEW m \in 1..Len(said'), C!OutOfReach(m, chatAgent.cursor) PROVE m \in behind'
    BY <1>2 DEF Tracked, C!OutOfReach
  <2>1. m = Len(said) + 1 \/ m \in 1..Len(said)
    BY <1>2
  <2> QED BY <1>1, <1>2, <2>1 DEF Tracked
<1> QED BY <1>2, <1>3, <1>5, <1>8, <1>9, <1>10, <1>11 DEF ChatIInv

LEMMA RestartInv == ChatIInv /\ C!BotRestarts => ChatIInv'
<1> SUFFICES ASSUME ChatIInv, C!BotRestarts PROVE ChatIInv'
  OBVIOUS
<1>1. Typed /\ ChatIsRead(chatAgent) /\ ChatIsRead(disk) /\ Repeats
  BY DEF ChatIInv
<1>2. /\ first' = Len(said) /\ Len(said) \in Nat /\ C!LastId' = 0 /\ ~noticed'
      /\ UNCHANGED <<said, step, chatAgent, disk, answers, mishaps>>
  BY <1>1 DEF C!BotRestarts, Typed, C!LastId
<1>3. Typed'
  BY <1>1, <1>2 DEF Typed
<1>4. ChatIsRead(chatAgent)' /\ ChatIsRead(disk)'
  <2>1. ASSUME NEW a \in {chatAgent, disk}, NEW p \in a.pending, ChatIsRead(a)
        PROVE p.msg <= Len(said) + a.cursor
    <3>1. a.cursor \in Nat /\ p.msg \in Nat
      BY <1>1 DEF Typed
    <3> QED BY <1>2, <2>1, <3>1 DEF ChatIsRead
  <2> QED BY <1>1, <1>2, <2>1 DEF ChatIsRead
\* a run that starts before anything was said
<1>5. first' = 0 => (Aligned(chatAgent) /\ AllKept(chatAgent) /\ Aligned(disk) /\ AllKept(disk))'
  <2> SUFFICES ASSUME first' = 0
               PROVE (Aligned(chatAgent) /\ AllKept(chatAgent) /\ Aligned(disk) /\ AllKept(disk))'
    OBVIOUS
  <2>1. C!FromPlayers' = {}
    BY <1>2 DEF C!FromPlayers
  <2>2. ASSUME NEW a \in {chatAgent, disk}, ChatIsRead(a) PROVE a.cursor <= 0 /\ a.pending = {}
    <3>1. a.cursor <= 0
      BY <1>2, <2>2 DEF ChatIsRead
    <3>2. ASSUME NEW p \in a.pending PROVE FALSE
      <4>1. p.msg \in Nat
        BY <1>1 DEF Typed
      <4> QED BY <1>2, <2>2, <4>1 DEF ChatIsRead
    <3> QED BY <3>1, <3>2
  <2> QED BY <1>1, <1>2, <2>1, <2>2 DEF Aligned, AllKept
<1>6. Repeats'
  <2>1. \A m \in C!Messages : m \in Nat
    BY ChatLimits DEF C!Messages
  <2>2. chatAgent.cursor \in Nat
    BY <1>1 DEF Typed
  <2> QED BY <1>1, <1>2, <2>1, <2>2 DEF Repeats, C!Held
<1>7. Tracked'
  BY <1>1, <1>2, ChatLimits DEF Tracked, C!OutOfReach, Typed
<1> QED BY <1>2, <1>3, <1>4, <1>5, <1>6, <1>7 DEF ChatIInv

LEMMA AcknowledgeInv == ChatIInv /\ C!Acknowledge => ChatIInv'
<1> SUFFICES ASSUME ChatIInv, C!Acknowledge PROVE ChatIInv'
  OBVIOUS
<1>1. Typed /\ ChatIsRead(chatAgent) /\ ChatIsRead(disk) /\ Repeats /\ Tracked
  BY DEF ChatIInv
<1>2. /\ chatAgent'.pending = {} /\ chatAgent'.cursor = chatAgent.cursor
      /\ chatAgent' \in [cursor : Nat, pending : SUBSET [id : Nat, msg : Nat]]
      /\ C!LastId' = C!LastId /\ C!LastId \in Nat
      /\ UNCHANGED <<said, first, runs, disk, mishaps, behind, noticed>>
  BY <1>1 DEF C!Acknowledge, C!Speak, C!gameVars, Typed, C!LastId
<1>3. ASSUME NEW m \in C!Messages
      PROVE  /\ m \in Nat /\ answers[m] \in Nat
             /\ m \in C!Held(chatAgent) => answers'[m] = answers[m] + 1
             /\ m \notin C!Held(chatAgent) => answers'[m] = answers[m]
  BY <1>1, ChatLimits DEF C!Acknowledge, C!Speak, Typed, C!Messages
<1>4. Typed'
  <2>1. answers' \in [C!Messages -> Nat]
    BY <1>1 DEF C!Acknowledge, C!Speak, Typed
  <2> QED BY <1>1, <1>2, <2>1 DEF Typed
<1>5. ChatIsRead(chatAgent)' /\ ChatIsRead(disk)'
  BY <1>1, <1>2 DEF ChatIsRead
<1>6. ASSUME NEW m \in C!FromPlayers
      PROVE  /\ m \in C!Messages
             /\ answers[m] > 0 => answers'[m] > 0
             /\ m \in C!Held(chatAgent) => answers'[m] > 0
  <2>1. m \in C!Messages
    BY <1>1, ChatLimits DEF C!FromPlayers, C!Messages, Typed
  <2> QED BY <1>3, <2>1
<1>7. ASSUME Aligned(chatAgent), AllKept(chatAgent)
      PROVE  (Aligned(chatAgent) /\ AllKept(chatAgent))'
  BY <1>2, <1>6, <1>7 DEF Aligned, AllKept, C!KeptOrCrowded, C!Crowded, C!Accounted, C!FromPlayers
<1>8. ASSUME Aligned(disk), AllKept(disk)
      PROVE  (Aligned(disk) /\ AllKept(disk))'
  BY <1>2, <1>6, <1>8 DEF Aligned, AllKept, C!KeptOrCrowded, C!Crowded, C!Accounted, C!FromPlayers, C!Held
<1>9. Repeats'
  <2> SUFFICES ASSUME NEW m \in C!Messages
               PROVE  /\ answers'[m] <= 1 + mishaps
                      /\ m > first + chatAgent.cursor => answers'[m] <= mishaps
                      /\ m > first /\ C!LastId < chatAgent.cursor => answers'[m] <= mishaps
                      /\ m > Len(said) => answers'[m] <= mishaps
    BY <1>2 DEF Repeats, C!Held
  <2>1. CASE m \in C!Held(chatAgent)
    <3>1. PICK p \in chatAgent.pending : p.msg = m
      BY <2>1 DEF C!Held
    <3>2. answers[m] <= mishaps
      BY <1>1, <2>1 DEF Repeats
    <3>3. answers'[m] <= 1 + mishaps
      BY <1>1, <1>3, <2>1, <3>2 DEF Typed
    <3>4. /\ m <= first + chatAgent.cursor /\ m <= Len(said)
          /\ C!LastId < chatAgent.cursor => m <= first
      BY <1>1, <3>1 DEF ChatIsRead
    <3>5. first + chatAgent.cursor \in Nat /\ first \in Nat /\ Len(said) \in Nat
      BY <1>1 DEF Typed
    <3> QED BY <1>3, <3>3, <3>4, <3>5
  <2>2. CASE m \notin C!Held(chatAgent)
    BY <1>1, <1>3, <2>2 DEF Repeats
  <2> QED BY <2>1, <2>2
<1>10. Tracked'
  BY <1>1, <1>2 DEF Tracked, C!OutOfReach
<1> QED BY <1>2, <1>4, <1>5, <1>7, <1>8, <1>9, <1>10 DEF ChatIInv

LEMMA UnconfirmedInv == ChatIInv /\ C!Unconfirmed => ChatIInv'
<1> SUFFICES ASSUME ChatIInv, C!Unconfirmed PROVE ChatIInv'
  OBVIOUS
<1>1. Typed /\ ChatIsRead(chatAgent) /\ ChatIsRead(disk) /\ Repeats /\ Tracked
  BY DEF ChatIInv
<1>2. /\ mishaps' = mishaps + 1 /\ mishaps \in Nat
      /\ C!LastId' = C!LastId
      /\ UNCHANGED <<said, first, runs, chatAgent, disk, behind, noticed>>
  BY <1>1 DEF C!Unconfirmed, C!gameVars, Typed, C!LastId
<1>3. ASSUME NEW m \in C!Messages
      PROVE  /\ answers[m] \in Nat
             /\ answers'[m] = answers[m] + 1 \/ answers'[m] = answers[m]
  BY <1>1 DEF C!Unconfirmed, C!Speak, Typed
<1>4. Typed'
  <2>1. answers' \in [C!Messages -> Nat]
    BY <1>1 DEF C!Unconfirmed, C!Speak, Typed
  <2> QED BY <1>1, <1>2, <2>1 DEF Typed
<1>5. ChatIsRead(chatAgent)' /\ ChatIsRead(disk)'
  BY <1>1, <1>2 DEF ChatIsRead
<1>6. ASSUME NEW m \in C!FromPlayers, answers[m] > 0
      PROVE  answers'[m] > 0
  <2>1. m \in C!Messages
    BY <1>1, ChatLimits DEF C!FromPlayers, C!Messages, Typed
  <2> QED BY <1>3, <1>6, <2>1
<1>7. ASSUME Aligned(chatAgent), AllKept(chatAgent)
      PROVE  (Aligned(chatAgent) /\ AllKept(chatAgent))'
  BY <1>2, <1>6, <1>7 DEF Aligned, AllKept, C!KeptOrCrowded, C!Crowded, C!Accounted, C!FromPlayers, C!Held
<1>8. ASSUME Aligned(disk), AllKept(disk)
      PROVE  (Aligned(disk) /\ AllKept(disk))'
  BY <1>2, <1>6, <1>8 DEF Aligned, AllKept, C!KeptOrCrowded, C!Crowded, C!Accounted, C!FromPlayers, C!Held
\* every count grows by no more than the mishaps
<1>9. Repeats'
  <2>1. ASSUME NEW m \in C!Messages, NEW n \in Nat, answers[m] <= n
        PROVE  answers'[m] <= n + 1
    BY <1>3, <2>1
  <2> QED BY <1>1, <1>2, <2>1 DEF Repeats, C!Held
<1>10. Tracked'
  BY <1>1, <1>2 DEF Tracked, C!OutOfReach
<1> QED BY <1>2, <1>4, <1>5, <1>7, <1>8, <1>9, <1>10 DEF ChatIInv

LEMMA QuietInv ==
  ChatIInv /\ (C!PollFails \/ C!Decide \/ C!Save \/ UNCHANGED C!vars) => ChatIInv'
<1> SUFFICES ASSUME ChatIInv, C!PollFails \/ C!Decide \/ C!Save \/ UNCHANGED C!vars PROVE ChatIInv'
  OBVIOUS
<1>1. /\ UNCHANGED <<said, first, chatAgent, answers, mishaps, behind, noticed>>
      /\ disk' = chatAgent \/ disk' = disk
  BY DEF C!PollFails, C!Decide, C!Save, C!vars, C!gameVars
<1>2. CASE disk' = chatAgent
  BY <1>1, <1>2 DEF ChatIInv, Typed, ChatIsRead, Aligned, AllKept, C!KeptOrCrowded, C!Crowded, C!Accounted, C!Held,
                    C!FromPlayers, Tracked, C!OutOfReach,
                    C!LastId, Repeats
<1>3. CASE disk' = disk
  BY <1>1, <1>3 DEF ChatIInv, Typed, ChatIsRead, Aligned, AllKept, C!KeptOrCrowded, C!Crowded, C!Accounted, C!Held,
                    C!FromPlayers, Tracked, C!OutOfReach,
                    C!LastId, Repeats
<1> QED BY <1>1, <1>2, <1>3

LEMMA CrashInv == ChatIInv /\ C!Crash => ChatIInv'
<1> SUFFICES ASSUME ChatIInv, C!Crash PROVE ChatIInv'
  OBVIOUS
<1>1. /\ chatAgent' = disk /\ disk' = disk /\ mishaps' = mishaps + 1 /\ ~noticed'
      /\ behind' = behind \union C!Unreachable(disk.cursor)
      /\ UNCHANGED <<said, first, answers>>
  BY DEF C!Crash, C!gameVars
<1>2. Typed'
  BY <1>1 DEF ChatIInv, Typed
<1>3. ChatIsRead(chatAgent)' /\ ChatIsRead(disk)'
  BY <1>1 DEF ChatIInv, ChatIsRead, C!LastId
<1>4. first = 0 => (Aligned(chatAgent) /\ AllKept(chatAgent) /\ Aligned(disk) /\ AllKept(disk))'
  BY <1>1 DEF ChatIInv, Aligned, AllKept, C!KeptOrCrowded, C!Crowded, C!Accounted, C!Held, C!FromPlayers, C!LastId
<1>5. Repeats'
  <2>1. ASSUME NEW m \in C!Messages PROVE answers[m] <= mishaps' /\ answers[m] <= 1 + mishaps'
    BY <1>1 DEF ChatIInv, Typed, Repeats
  <2> QED BY <1>1, <2>1 DEF Repeats
<1>6. Tracked'
  BY <1>1 DEF Tracked, C!Unreachable, C!OutOfReach
<1> QED BY <1>1, <1>2, <1>3, <1>4, <1>5, <1>6 DEF ChatIInv

\* In an agent whose cursor is of this run the ids say which message is meant, and
\* a message of this run is accounted for or has a crowd above it. (fetch_chat,
\* advance_chat_cursor, enqueue_chat, save_state, load_state)
THEOREM ChatInvariance == C!Spec => []ChatIInv
<1>1. ChatIInv /\ [C!Next]_C!vars => ChatIInv'
  BY PollInv, SayInv, RestartInv, AcknowledgeInv, UnconfirmedInv, QuietInv, CrashInv DEF C!Next
<1> QED BY <1>1, ChatInit, PTL DEF C!Spec

-----------------------------------------------------------------------------
(* Its consequences *)

\* Within one run of the bot process a player's message is lost only in a crowd:
\* PendingLimit newer ones that are no noise, or LogLimit of any kind, or
\* FetchLimit unread ones ahead of it when it was said or the agent started again.
\* (fetch_chat, collect_chat_entries, enqueue_chat, save_state)
THEOREM NothingLostInPeace == C!Spec => []LossNeedsCrowd
<1>1. ChatIInv => LossNeedsCrowd
  <2> SUFFICES ASSUME ChatIInv, first = 0, NEW m \in C!FromPlayers, NEW a \in {chatAgent, disk}
               PROVE  C!KeptOrCrowded(a, m)
    BY DEF LossNeedsCrowd, C!LossNeedsCrowd
  <2>1. m > first
    BY DEF C!FromPlayers, ChatIInv, Typed
  <2> QED BY <2>1 DEF ChatIInv, AllKept
<1> QED BY <1>1, ChatInvariance, PTL

\* The same of a restarted bot process, if the agent noticed in time and nothing
\* was pending; what was said before is ahead of what is said then.
\* (advance_chat_cursor)
THEOREM NoticedRestartsAreRead == C!Spec => []NoticedRestartIsRead
<1>1. ChatIInv => NoticedRestartIsRead
  BY DEF ChatIInv, AllKept, NoticedRestartIsRead, C!NoticedRestartIsRead
<1> QED BY <1>1, ChatInvariance, PTL

\* A message is answered at most once, and once more for every crash of the agent
\* and every lost confirmation. (say, clear_pending_chat, save_state)
THEOREM AnswersAreCounted == C!Spec => []AnsweredAgainOnlyAfterMishap
<1>1. ChatIInv => AnsweredAgainOnlyAfterMishap
  BY DEF ChatIInv, Repeats, AnsweredAgainOnlyAfterMishap, C!AnsweredAgainOnlyAfterMishap
<1> QED BY <1>1, ChatInvariance, PTL

-----------------------------------------------------------------------------
(* What waits is bounded *)

\* A message waits once, and under the id that this run of the bot process has
\* for it, if it is of this run.
Identified(a) ==
  /\ \A p \in a.pending : p.msg > first => p.id = p.msg - first
  /\ \A p, q \in a.pending : p.msg = q.msg => p = q

TypeInv == ChatIInv /\ C!TypeOK /\ Identified(chatAgent) /\ Identified(disk)

\* The more of a set is above a number, the smaller it is: no two of the newest
\* have as many above them, and so there are no more than PendingLimit.
LEMMA NewestAreFew ==
  ASSUME NEW n \in Nat, NEW S \in SUBSET (1..n)
  PROVE  IsFiniteSet(C!Newest(S)) /\ Cardinality(C!Newest(S)) <= PendingLimit
<1> DEFINE above(i) == { j \in S : j > i }
           place == [i \in C!Newest(S) |-> Cardinality(above(i))]
<1>1. IsFiniteSet(1..n) /\ IsFiniteSet(S)
  <2>1. IsFiniteSet(1..n)
    BY FS_Interval
  <2> QED BY <2>1, FS_Subset
<1>2. ASSUME NEW i \in S PROVE IsFiniteSet(above(i)) /\ Cardinality(above(i)) \in Nat
  <2>1. above(i) \in SUBSET S
    OBVIOUS
  <2> HIDE DEF above
  <2>2. IsFiniteSet(above(i))
    BY <1>1, <2>1, FS_Subset
  <2> QED BY <2>2, FS_CardinalityType
<1>3. ASSUME NEW i \in S, NEW k \in S, i < k
      PROVE  Cardinality(above(i)) # Cardinality(above(k))
  <2>1. i \in Nat /\ k \in Nat
    OBVIOUS
  <2>2. above(k) \in SUBSET above(i)
    <3> SUFFICES ASSUME NEW j \in S, j > k PROVE j > i
      OBVIOUS
    <3>1. j \in Nat
      OBVIOUS
    <3> QED BY <1>3, <2>1, <3>1
  <2>3. k \in above(i) /\ k \notin above(k)
    BY <1>3, <2>1
  <2>4. IsFiniteSet(above(i))
    BY <1>2
  <2> HIDE DEF above
  <2> QED BY <2>2, <2>3, <2>4, FS_Subset
<1>4. C!Newest(S) \subseteq S
  BY NewestAreSome
<1>5. ASSUME NEW i \in C!Newest(S) PROVE Cardinality(above(i)) \in 0..(PendingLimit - 1)
  <2>1. Cardinality(above(i)) \in Nat
    BY <1>2, <1>4
  <2>2. Cardinality(above(i)) < PendingLimit
    BY SameCardinality DEF C!Newest
  <2> HIDE DEF above
  <2> QED BY <2>1, <2>2, ChatLimits
<1>6. ASSUME NEW i \in C!Newest(S), NEW k \in C!Newest(S), Cardinality(above(i)) = Cardinality(above(k))
      PROVE  i = k
  <2>0. i \in S /\ k \in S
    BY <1>4
  <2>1. i \in Nat /\ k \in Nat
    BY ONLY <2>0, n \in Nat, S \in SUBSET (1..n)
  <2>2. ~(i < k) /\ ~(k < i)
    BY <1>3, <1>6, <2>0
  <2> QED BY <2>1, <2>2
<1> HIDE DEF above
<1>7. place \in Injection(C!Newest(S), 0..(PendingLimit - 1))
  BY <1>5, <1>6 DEF Injection, IsInjective
<1>8. /\ IsFiniteSet(0..(PendingLimit - 1))
      /\ Cardinality(0..(PendingLimit - 1)) = PendingLimit
  <2>1. 0 \in Int /\ PendingLimit - 1 \in Int /\ ~(0 > PendingLimit - 1) /\ PendingLimit - 1 - 0 + 1 = PendingLimit
    BY ChatLimits
  <2> QED BY <2>1, FS_Interval
<1> QED BY <1>7, <1>8, FS_Injection

\* What is queued for the agent is bounded, and its messages are told apart.
LEMMA QueueIsShort ==
  ASSUME ChatIInv, Identified(chatAgent), C!Poll
  PROVE  /\ Identified(chatAgent)'
         /\ Cardinality(chatAgent'.pending) <= PendingLimit
<1>0. Typed /\ ChatIsRead(chatAgent) /\ first \in Nat /\ Len(said) \in Nat
  BY DEF ChatIInv, Typed
<1> DEFINE fresh == { i \in C!Chats : \A p \in chatAgent.pending : p.id # i }
           queue == chatAgent.pending \union { [id |-> i, msg |-> first + i] : i \in fresh }
           msgs == { q.msg : q \in queue }
<1>1. chatAgent'.pending = { p \in queue : p.msg \in C!Newest(msgs) }
  BY <1>0, CursorMoves DEF C!Enqueued
<1>2. msgs \in SUBSET (1..Len(said))
  <2>1. ASSUME NEW q \in chatAgent.pending PROVE q.msg \in 1..Len(said)
    BY <1>0 DEF ChatIsRead, Typed
  <2>2. ASSUME NEW i \in C!Chats PROVE first + i \in 1..Len(said)
    BY <1>0, Reads DEF C!FromPlayers
  <2> QED BY <2>1, <2>2
<1>3. ASSUME NEW i \in fresh PROVE i \in Nat /\ 1 <= i /\ \A p \in chatAgent.pending : p.id # i
  BY <1>0, Reads
<1>4. ASSUME NEW p \in queue, p.msg > first PROVE p.id = p.msg - first
  <2>1. CASE p \in chatAgent.pending
    BY <1>4, <2>1 DEF Identified
  <2>2. CASE \E i \in fresh : p = [id |-> i, msg |-> first + i]
    <3>1. PICK i \in fresh : p = [id |-> i, msg |-> first + i]
      BY <2>2
    <3>2. p.id = i /\ p.msg = first + i
      BY <3>1
    <3> QED BY <1>0, <1>3, <3>2
  <2> QED BY <2>1, <2>2
<1>5. ASSUME NEW p \in chatAgent.pending, NEW i \in fresh PROVE p.msg # first + i
  <2>1. SUFFICES ASSUME p.msg = first + i PROVE FALSE
    OBVIOUS
  <2>2. p.msg > first /\ p.msg - first = i
    BY <1>0, <1>3, <2>1
  <2>3. p.id = i
    BY <2>2 DEF Identified
  <2> QED BY <1>3, <2>3
<1>6. ASSUME NEW p \in queue, NEW q \in queue, p.msg = q.msg PROVE p = q
  <2>1. CASE p \in chatAgent.pending /\ q \in chatAgent.pending
    BY <1>6, <2>1 DEF Identified
  <2>2. CASE p \in chatAgent.pending /\ q \notin chatAgent.pending
    <3>1. PICK i \in fresh : q = [id |-> i, msg |-> first + i]
      BY <2>2
    <3> QED BY <1>5, <1>6, <2>2, <3>1
  <2>3. CASE p \notin chatAgent.pending /\ q \in chatAgent.pending
    <3>1. PICK i \in fresh : p = [id |-> i, msg |-> first + i]
      BY <2>3
    <3> QED BY <1>5, <1>6, <2>3, <3>1
  <2>4. CASE p \notin chatAgent.pending /\ q \notin chatAgent.pending
    <3>1. PICK i \in fresh : p = [id |-> i, msg |-> first + i]
      BY <2>4
    <3>2. PICK k \in fresh : q = [id |-> k, msg |-> first + k]
      BY <2>4
    <3>3. first + i = first + k
      BY <1>6, <3>1, <3>2
    <3>4. i = k
      BY <1>0, <1>3, <3>3
    <3> QED BY <3>1, <3>2, <3>4
  <2> QED BY <2>1, <2>2, <2>3, <2>4
<1> HIDE DEF queue, fresh
<1>7. Identified(chatAgent)'
  BY <1>0, <1>1, <1>4, <1>6, CursorMoves DEF Identified
<1>8. IsFiniteSet(C!Newest(msgs)) /\ Cardinality(C!Newest(msgs)) <= PendingLimit
  BY <1>0, <1>2, NewestAreFew
<1>9. [p \in chatAgent'.pending |-> p.msg] \in Injection(chatAgent'.pending, C!Newest(msgs))
  BY <1>1, <1>6 DEF Injection, IsInjective
<1>10. IsFiniteSet(chatAgent'.pending) /\ Cardinality(chatAgent'.pending) <= Cardinality(C!Newest(msgs))
  BY <1>8, <1>9, FS_Injection
<1>11. Cardinality(chatAgent'.pending) \in Nat /\ Cardinality(C!Newest(msgs)) \in Nat
  BY <1>8, <1>10, FS_CardinalityType
<1> QED BY <1>7, <1>8, <1>10, <1>11, ChatLimits

LEMMA MessagesCounted == Typed => 1..Len(said) \subseteq C!Messages
BY ChatLimits DEF Typed, C!Messages

LEMMA PollTypeInv == TypeInv /\ C!Poll => TypeInv'
<1> SUFFICES ASSUME TypeInv, C!Poll PROVE TypeInv'
  OBVIOUS
<1>0. ChatIInv /\ Typed /\ C!TypeOK /\ Identified(chatAgent) /\ ChatIInv'
  BY PollInv DEF TypeInv, ChatIInv
<1>1. Identified(chatAgent)' /\ Cardinality(chatAgent'.pending) <= PendingLimit
  BY <1>0, QueueIsShort
<1>2. Identified(disk)'
  BY <1>0, CursorMoves DEF TypeInv, Identified
<1>3. chatAgent' \in C!States
  <2>1. ASSUME NEW p \in chatAgent'.pending PROVE p \in C!Pendings
    <3>1. CASE p \in chatAgent.pending
      BY <1>0, <3>1 DEF C!TypeOK, C!States
    <3>2. CASE \E i \in C!Chats : p = [id |-> i, msg |-> first + i]
      <4>1. PICK i \in C!Chats : p = [id |-> i, msg |-> first + i]
        BY <3>2
      <4>2. i \in Nat /\ 1 <= i /\ i <= C!LastId
        BY <1>0, Reads
      <4>3. i \in C!Messages /\ first + i \in C!Messages
        BY <1>0, <4>2, ChatLimits DEF C!TypeOK, Typed, C!LastId, C!Messages
      <4> QED BY <4>1, <4>3 DEF C!Pendings
    <3> QED BY <1>0, <3>1, <3>2, CursorMoves, Queues
  <2>2. chatAgent'.cursor \in 0..MaxChats
    BY <1>0, CursorMoves, ChatLimits DEF C!TypeOK, Typed, C!LastId
  <2>3. chatAgent' = [cursor |-> chatAgent'.cursor, pending |-> chatAgent'.pending]
    BY DEF C!Poll
  <2> QED BY <2>1, <2>2, <2>3 DEF C!States
<1>4. UNCHANGED <<said, first, runs, disk, answers, mishaps>>
  BY <1>0, CursorMoves
<1>5. step' \in {"poll", "decide", "save"} /\ noticed' \in BOOLEAN
  BY <1>0 DEF C!Poll, C!TypeOK
<1>6. behind' \subseteq C!Messages
  BY <1>0, MessagesCounted DEF C!Poll, C!TypeOK, C!Unreachable
<1>7. C!TypeOK'
  BY <1>0, <1>1, <1>3, <1>4, <1>5, <1>6, SameCardinality DEF C!TypeOK, C!Messages
<1> QED BY <1>0, <1>1, <1>2, <1>7 DEF TypeInv

\* What the other steps do to the counters and the two queues.
LEMMA OtherTypeInv == TypeInv /\ [C!Next]_C!vars /\ ~C!Poll => TypeInv'
<1> SUFFICES ASSUME TypeInv, [C!Next]_C!vars, ~C!Poll PROVE TypeInv'
  OBVIOUS
<1>0. ChatIInv /\ Typed /\ C!TypeOK /\ Identified(chatAgent) /\ Identified(disk)
  BY DEF TypeInv, ChatIInv
<1>1. ChatIInv'
  BY <1>0, PollInv, SayInv, RestartInv, AcknowledgeInv, UnconfirmedInv, QuietInv, CrashInv DEF C!Next
<1>2. Cardinality({}) = 0 /\ PendingLimit \in Nat
  BY FS_EmptySet, ChatLimits
<1>3. ASSUME NEW who \in C!Speakers, C!Say(who)
      PROVE  C!TypeOK' /\ Identified(chatAgent)' /\ Identified(disk)'
  <2>1. /\ said' = Append(said, who) /\ said' \in Seq(C!Speakers)
        /\ Len(said') = Len(said) + 1 /\ Len(said) \in Nat /\ Len(said) < MaxChats
        /\ UNCHANGED <<first, runs, step, chatAgent, disk, answers, mishaps, noticed>>
    BY <1>0, <1>3 DEF C!Say, Typed
  <2>2. Len(said') <= MaxChats /\ first' \in 0..Len(said')
    BY <1>0, <2>1, ChatLimits DEF C!TypeOK
  <2>3. Len(said) + 1 \in C!Messages
    BY <2>1, ChatLimits DEF C!Messages
  <2>4. behind' \subseteq C!Messages
    BY <1>0, <1>3, <2>3 DEF C!Say, C!TypeOK
  <2> QED BY <1>0, <2>1, <2>2, <2>4 DEF C!TypeOK, Identified
<1>4. ASSUME C!BotRestarts PROVE C!TypeOK' /\ Identified(chatAgent)' /\ Identified(disk)'
  <2>1. /\ first' = Len(said) /\ Len(said) \in Nat /\ runs' = runs + 1 /\ runs < MaxRuns
        /\ noticed' = FALSE /\ behind' = {}
        /\ UNCHANGED <<said, step, chatAgent, disk, answers, mishaps>>
    BY <1>0, <1>4 DEF C!BotRestarts, Typed
  <2>2. ASSUME NEW a \in {chatAgent, disk}, NEW p \in a.pending PROVE ~(p.msg > Len(said))
    BY <1>0, <2>1 DEF ChatIInv, ChatIsRead, Typed
  <2>3. first' \in 0..Len(said') /\ runs' \in 1..MaxRuns
    BY <1>0, <2>1, ChatLimits DEF C!TypeOK
  <2>4. C!TypeOK'
    BY <1>0, <2>1, <2>3 DEF C!TypeOK
  <2> QED BY <1>0, <2>1, <2>2, <2>4 DEF Identified
<1>5. ASSUME C!Speak, mishaps' \in mishaps..MaxMishaps PROVE answers' \in [C!Messages -> 0..MaxMishaps + 1]
  <2>1. \A m \in C!Messages : answers'[m] \in Nat /\ answers'[m] <= mishaps' + 1
    BY <1>0, <1>1 DEF ChatIInv, Typed, Repeats
  <2>2. \A m \in C!Messages : answers'[m] \in 0..MaxMishaps + 1
    BY <1>0, <1>5, <2>1, ChatLimits DEF Typed
  <2>3. answers' = [m \in C!Messages |-> answers'[m]]
    BY <1>5 DEF C!Speak
  <2> HIDE DEF C!Messages
  <2> QED BY <2>2, <2>3
<1>6. ASSUME C!Acknowledge PROVE C!TypeOK' /\ Identified(chatAgent)' /\ Identified(disk)'
  <2>1. /\ chatAgent' = [cursor |-> chatAgent.cursor, pending |-> {}]
        /\ step' = "save" /\ UNCHANGED <<said, first, runs, disk, mishaps, behind, noticed>>
    BY <1>0, <1>6 DEF C!Acknowledge, C!gameVars, Typed
  <2>2. answers' \in [C!Messages -> 0..MaxMishaps + 1]
    BY <1>0, <1>5, <1>6, <2>1, ChatLimits DEF C!Acknowledge, C!TypeOK
  <2>3. chatAgent' \in C!States /\ chatAgent'.pending = {}
    BY <1>0, <2>1 DEF C!TypeOK, C!States
  <2> QED BY <1>0, <1>2, <2>1, <2>2, <2>3, SameCardinality DEF C!TypeOK, Identified
<1>7. ASSUME C!Unconfirmed PROVE C!TypeOK' /\ Identified(chatAgent)' /\ Identified(disk)'
  <2>1. /\ mishaps' = mishaps + 1 /\ mishaps < MaxMishaps
        /\ step' = "save" /\ UNCHANGED <<said, first, runs, chatAgent, disk, behind, noticed>>
    BY <1>7 DEF C!Unconfirmed, C!gameVars
  <2>2. mishaps' \in mishaps..MaxMishaps /\ mishaps' \in 0..MaxMishaps
    BY <1>0, <2>1, ChatLimits DEF C!TypeOK
  <2>3. answers' \in [C!Messages -> 0..MaxMishaps + 1]
    BY <1>5, <1>7, <2>2 DEF C!Unconfirmed
  <2> QED BY <1>0, <2>1, <2>2, <2>3 DEF C!TypeOK, Identified
<1>8. ASSUME C!PollFails \/ C!Decide \/ C!Save \/ UNCHANGED C!vars
      PROVE C!TypeOK' /\ Identified(chatAgent)' /\ Identified(disk)'
  <2>1. /\ UNCHANGED <<said, first, runs, chatAgent, answers, mishaps, behind, noticed>>
        /\ disk' = chatAgent \/ disk' = disk
        /\ step' \in {"poll", "decide", "save"}
    BY <1>0, <1>8 DEF C!PollFails, C!Decide, C!Save, C!vars, C!gameVars, C!TypeOK
  <2> QED BY <1>0, <2>1 DEF C!TypeOK, Identified
<1>9. ASSUME C!Crash PROVE C!TypeOK' /\ Identified(chatAgent)' /\ Identified(disk)'
  <2>1. /\ chatAgent' = disk /\ disk' = disk /\ mishaps' = mishaps + 1 /\ mishaps < MaxMishaps
        /\ step' = "poll" /\ noticed' = FALSE
        /\ UNCHANGED <<said, first, runs, answers>>
    BY <1>9 DEF C!Crash, C!gameVars
  <2>2. mishaps' \in 0..MaxMishaps
    BY <1>0, <2>1, ChatLimits DEF C!TypeOK
  <2>3. behind' \subseteq C!Messages
    BY <1>0, <1>9, MessagesCounted DEF C!Crash, C!TypeOK, C!Unreachable
  <2> QED BY <1>0, <2>1, <2>2, <2>3 DEF C!TypeOK, Identified
<1> QED BY <1>1, <1>3, <1>4, <1>6, <1>7, <1>8, <1>9 DEF TypeInv, C!Next

\* Every reachable state is well typed; in particular no more than PendingLimit
\* messages wait, and as many lie in the file. (enqueue_chat)
THEOREM ChatTypes == C!Spec => []ChatTypeOK
<1>1. C!Init => TypeInv
  <2> SUFFICES ASSUME C!Init PROVE TypeInv
    OBVIOUS
  <2>1. ChatIInv
    BY ChatInit
  <2>2. /\ said = <<>> /\ first = 0 /\ runs = 1 /\ step = "poll" /\ mishaps = 0 /\ behind = {} /\ noticed = FALSE
        /\ chatAgent = [cursor |-> 0, pending |-> {}] /\ disk = chatAgent
        /\ answers = [m \in C!Messages |-> 0]
    BY DEF C!Init
  <2>3. chatAgent \in C!States /\ chatAgent.pending = {} /\ Cardinality({}) = 0
    BY <2>2, FS_EmptySet, ChatLimits DEF C!States
  <2>4. answers \in [C!Messages -> 0..MaxMishaps + 1]
    BY <2>2, ChatLimits
  <2>5. said \in Seq(C!Speakers) /\ Len(said) = 0
    BY <2>2
  <2>6. C!TypeOK
    <3>1. Cardinality(chatAgent.pending) <= PendingLimit /\ disk = chatAgent
      BY <2>2, <2>3, ChatLimits
    <3>2. first \in 0..Len(said) /\ Len(said) <= MaxChats /\ runs \in 1..MaxRuns /\ mishaps \in 0..MaxMishaps
      BY <2>2, <2>5, ChatLimits
    <3> QED BY <2>2, <2>3, <2>4, <2>5, <3>1, <3>2, SameCardinality DEF C!TypeOK
  <2> QED BY <2>1, <2>2, <2>3, <2>6 DEF TypeInv, Identified
<1>2. TypeInv /\ [C!Next]_C!vars => TypeInv'
  BY PollTypeInv, OtherTypeInv
<1>3. TypeInv => ChatTypeOK
  BY DEF TypeInv, ChatTypeOK
<1> QED BY <1>1, <1>2, <1>3, PTL DEF C!Spec
=============================================================================
