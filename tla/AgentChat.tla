------------------------------ MODULE AgentChat ------------------------------
(***************************************************************************)
(* How what players say reaches the language model: the chat log of the    *)
(* bot process (src/bot/chat.rs), the agent's poll with its cursor         *)
(* (src/agent/api_client.rs, chat.rs), the messages that wait for an       *)
(* acknowledgement and the state file (src/agent/state.rs), and the rounds *)
(* of src/agent/runtime.rs.                                                *)
(*                                                                         *)
(* Messages are numbered in the order they are said; the program does not  *)
(* know these numbers.  It knows the ids of the chat log, which start at 1 *)
(* whenever the bot process starts: id i is message first + i.             *)
(*                                                                         *)
(* The agent is a process of its own: the players, the bot process and a   *)
(* crash can come between any two of its steps.  An agent without a state  *)
(* file is one whose every save fails.                                     *)
(***************************************************************************)
EXTENDS Integers, Sequences, FiniteSets

CONSTANTS
  PendingLimit,   \* messages that a poll takes, and that may be pending (12)
  FetchLimit,     \* entries that GET /chat returns (100)
  LogLimit,       \* entries that the chat log keeps (200)
  MaxMessages,    \* bound: messages of a behaviour
  MaxRuns,        \* bound: starts of the bot process
  MaxMishaps      \* bound: crashes of the agent and lost confirmations

ChatAssumption ==
  /\ PendingLimit \in Nat \ {0}
  /\ FetchLimit \in Nat /\ FetchLimit >= PendingLimit
  /\ LogLimit \in Nat /\ LogLimit >= FetchLimit
  /\ MaxMessages \in Nat /\ MaxRuns \in Nat \ {0} /\ MaxMishaps \in Nat

VARIABLES
  \* the game and the bot process
  said,       \* who spoke, message by message
  first,      \* messages said before this run of the bot process
  runs,       \* starts of the bot process
  \* the agent process
  step,       \* where its round is: "poll", "decide" or "save"
  agent,      \* AgentState: last_seen_chat_id and pending_chat
  disk,       \* the state file
  \* history
  answers,    \* how often each message was answered
  mishaps,    \* crashes of the agent and lost confirmations
  behind,     \* messages of this run of the bot process with FetchLimit or more
              \* unread entries ahead of them when they were said, or when an
              \* agent began to read at an earlier cursor than the last
  noticed     \* this run of the bot process was polled before its ids had
              \* caught up with the cursor, when nothing was pending

gameVars == <<said, first, runs>>
vars == <<said, first, runs, step, agent, disk, answers, mishaps, behind, noticed>>

\* The agent listens to players; strangers are the bot itself and senders that
\* are not allowed; noise are entries without a sender and error messages.
Speakers == {"player", "stranger", "noise"}

Messages == 1..MaxMessages
Pendings == [id : Messages, msg : Messages]
States == [cursor : 0..MaxMessages, pending : SUBSET Pendings]

TypeOK ==
  /\ said \in Seq(Speakers) /\ Len(said) <= MaxMessages
  /\ first \in 0..Len(said)
  /\ runs \in 1..MaxRuns
  /\ step \in {"poll", "decide", "save"}
  /\ agent \in States /\ Cardinality(agent.pending) <= PendingLimit
  /\ disk \in States /\ Cardinality(disk.pending) <= PendingLimit
  /\ answers \in [Messages -> 0..MaxMishaps + 1]
  /\ mishaps \in 0..MaxMishaps
  /\ behind \subseteq Messages
  /\ noticed \in BOOLEAN

Init ==
  /\ said = <<>> /\ first = 0 /\ runs = 1
  /\ step = "poll"
  /\ agent = [cursor |-> 0, pending |-> {}]
  /\ disk = agent
  /\ answers = [m \in Messages |-> 0]
  /\ mishaps = 0 /\ behind = {} /\ noticed = FALSE

-----------------------------------------------------------------------------
(* The bot process *)

LastId == Len(said) - first

\* A poll at this cursor cannot return message m: FetchLimit unread entries or
\* more are ahead of it.
OutOfReach(m, cursor) == m > first + cursor + FetchLimit

Unreachable(cursor) == { m \in 1..Len(said) : OutOfReach(m, cursor) }

\* log_chat
Say(who) ==
  /\ Len(said) < MaxMessages
  /\ said' = Append(said, who)
  /\ behind' = IF OutOfReach(Len(said) + 1, agent.cursor)
                 THEN behind \union {Len(said) + 1} ELSE behind
  /\ UNCHANGED <<first, runs, step, agent, disk, answers, mishaps, noticed>>

\* the log is in memory
BotRestarts ==
  /\ runs < MaxRuns
  /\ runs' = runs + 1
  /\ first' = Len(said)
  /\ behind' = {}
  /\ noticed' = FALSE
  /\ UNCHANGED <<said, step, agent, disk, answers, mishaps>>

\* mutant: the limit is applied before the cursor
EntriesOfOldest ==
  LET dropped == LastId - LogLimit
      kept == IF dropped > 0 THEN dropped ELSE 0
  IN { i \in 1..LastId : i > kept /\ i > agent.cursor /\ i <= kept + FetchLimit }

\* collect_chat_entries: the oldest FetchLimit entries after the cursor
Entries ==
  LET dropped == LastId - LogLimit
      from == IF dropped > agent.cursor THEN dropped ELSE agent.cursor
  IN { i \in 1..LastId : i > from /\ i <= from + FetchLimit }

-----------------------------------------------------------------------------
(* The agent *)

SaidBy(i) == said[first + i]

\* the newest PendingLimit of a set of numbers
Newest(S) == { i \in S : Cardinality({ j \in S : j > i }) < PendingLimit }

\* what fetch_chat returns, after the round has left out the strangers
Chats ==
  { i \in Newest({ i \in Entries : SaidBy(i) # "noise" }) : SaidBy(i) = "player" }

\* mutant: the cursor is never set back
AdvancedForward(saved, last) == IF last < saved THEN saved ELSE last

\* advance_chat_cursor
Advanced(saved, last) == IF last < saved THEN 0 ELSE last

Held(a) == { p.msg : p \in a.pending }

\* mutant: nothing is dropped
EnqueuedAll(pending, chats) ==
  pending \union { [id |-> i, msg |-> first + i] :
                     i \in { j \in chats : \A p \in pending : p.id # j } }

\* enqueue_chat: an id that is pending is taken for a repetition; what is waiting
\* is in the order it was said
Enqueued(pending, chats) ==
  LET fresh == { i \in chats : \A p \in pending : p.id # i }
      queue == pending \union { [id |-> i, msg |-> first + i] : i \in fresh }
  IN { p \in queue : p.msg \in Newest({ q.msg : q \in queue }) }

\* After the poll the round ends early if the observation fails, and goes on to a
\* decision for new chat or when a timer says so.
Poll ==
  /\ step = "poll"
  /\ agent' = [cursor |-> Advanced(agent.cursor, LastId),
               pending |-> Enqueued(agent.pending, Chats)]
  /\ noticed' = (noticed \/ (LastId < agent.cursor /\ agent.pending = {}))
  /\ behind' = IF LastId < agent.cursor THEN behind \union Unreachable(0) ELSE behind
  /\ step' \in {"decide", "save"}
  /\ UNCHANGED <<gameVars, disk, answers, mishaps>>

\* mutant: no answer is taken for an empty log
PollFailsAsEmpty ==
  /\ step = "poll"
  /\ step' \in {"decide", "save"}
  /\ agent' = [agent EXCEPT !.cursor = 0]
  /\ UNCHANGED <<gameVars, disk, answers, mishaps, behind, noticed>>

\* the bot process does not answer
PollFails ==
  /\ step = "poll"
  /\ step' \in {"decide", "save"}
  /\ UNCHANGED <<gameVars, agent, disk, answers, mishaps, behind, noticed>>

\* The model answers and `say' reaches the bot: chosen by the model, made of its
\* text, or added by the controller.  It answers everything that is pending.
Speak ==
  /\ step = "decide" /\ agent.pending # {}
  /\ answers' = [m \in Messages |-> IF m \in Held(agent) THEN answers[m] + 1 ELSE answers[m]]

Acknowledge ==
  /\ Speak
  /\ agent' = [agent EXCEPT !.pending = {}]
  /\ step' = "save"
  /\ UNCHANGED <<gameVars, disk, mishaps, behind, noticed>>

\* The bot speaks but the agent does not learn of it: the request fails, and so
\* does the call.
Unconfirmed ==
  /\ Speak
  /\ mishaps < MaxMishaps
  /\ mishaps' = mishaps + 1
  /\ step' = "save"
  /\ UNCHANGED <<gameVars, agent, disk, behind, noticed>>

\* mutant: a `say' that failed acknowledges as well
ForgetUnanswered ==
  /\ step = "decide"
  /\ step' = "save"
  /\ agent' = [agent EXCEPT !.pending = {}]
  /\ UNCHANGED <<gameVars, disk, answers, mishaps, behind, noticed>>

\* The request fails or returns nothing, `say' is cut off by the limit of calls
\* or fails; with nothing pending no `say' is let through.
Decide ==
  /\ step = "decide"
  /\ step' = "save"
  /\ UNCHANGED <<gameVars, agent, disk, answers, mishaps, behind, noticed>>

\* save_state replaces the file or, after an error, leaves it as it is
Save ==
  /\ step = "save"
  /\ disk' \in {agent, disk}
  /\ step' = "poll"
  /\ UNCHANGED <<gameVars, agent, answers, mishaps, behind, noticed>>

\* the agent dies and starts again from its file
Crash ==
  /\ mishaps < MaxMishaps
  /\ mishaps' = mishaps + 1
  /\ agent' = disk
  /\ behind' = behind \union Unreachable(disk.cursor)
  /\ step' = "poll"
  /\ noticed' = FALSE
  /\ UNCHANGED <<gameVars, disk, answers>>

Next ==
  \/ \E who \in Speakers : Say(who)
  \/ BotRestarts
  \/ Poll \/ PollFails \/ Acknowledge \/ Unconfirmed \/ Decide \/ Save
  \/ Crash

Spec == Init /\ [][Next]_vars

-----------------------------------------------------------------------------
(* Properties *)

FromPlayers == { m \in 1..Len(said) : said[m] = "player" }

\* not yet read in this run of the bot process, waiting, or answered
Accounted(a, m) == m > first + a.cursor \/ m \in Held(a) \/ answers[m] > 0

\* PendingLimit newer messages have followed, which take its place in a poll or
\* among the pending ones, or as many entries as the log keeps.
Crowded(m) ==
  \/ Cardinality({ k \in m + 1..Len(said) : said[k] # "noise" }) >= PendingLimit
  \/ Len(said) >= m + LogLimit

\* a has message m, is still going to read it, or had no room for it.
KeptOrCrowded(a, m) == Accounted(a, m) \/ Crowded(m) \/ m \in behind

\* Within one run of the bot process, a player's message is lost only in a crowd:
\* newer messages have taken its place, or it was said while the agent had
\* FetchLimit entries or more ahead of it to read; for an agent that starts again
\* from its file, with that much between its saved cursor and the message.  It
\* holds of the agent and of its file, whenever it dies and whatever fails.
\* (fetch_chat, collect_chat_entries, enqueue_chat, save_state)
LossNeedsCrowd ==
  first = 0 => \A m \in FromPlayers, a \in {agent, disk} : KeptOrCrowded(a, m)

\* The same of a bot process that was started while the agent was running, if
\* the agent noticed in time and nothing of the previous run was pending; what
\* was said before it noticed counts from the first message of the new run.
\* (advance_chat_cursor)
NoticedRestartIsRead ==
  noticed => \A m \in FromPlayers : m > first => KeptOrCrowded(agent, m)

\* A message is answered again only if the agent died before it had saved the
\* acknowledgement, or the confirmation was lost, once for every time.
\* (advance_chat_cursor, the order of say, clear_pending_chat and save_state)
AnsweredAgainOnlyAfterMishap == \A m \in Messages : answers[m] <= 1 + mishaps

\* "Player chat is retained in the state until the model successfully
\* acknowledges it with `say`." (LLM.md:128): what a poll reads is kept.
ReadIsRetained ==
  [][step = "poll" /\ step' # "poll" /\ agent' # agent =>
       \A i \in Chats : first + i \in Held(agent')]_vars
=============================================================================
