----------------------------- MODULE PlayerChat -----------------------------
(***************************************************************************)
(* AgentChat under names of its own: for its run, and for proofs next to   *)
(* those of the agent's decisions, which answer what players say.          *)
(***************************************************************************)
CONSTANTS PendingLimit, FetchLimit, LogLimit, MaxChats, MaxRuns, MaxMishaps

VARIABLES said, first, runs, step, chatAgent, disk, answers, mishaps, behind, noticed

C == INSTANCE AgentChat WITH agent <- chatAgent, MaxMessages <- MaxChats

ASSUME ChatAssumption == C!ChatAssumption

ChatSpec == C!Spec

\* Every state is well typed; in particular no more than PendingLimit messages
\* wait in memory or in the file (AgentState::enqueue_chat).
ChatTypeOK == C!TypeOK

\* Within one run of the bot process a player's message is lost only in a crowd
\* (fetch_chat, AgentState::enqueue_chat, save_state).
LossNeedsCrowd == C!LossNeedsCrowd

\* The same after a restart of the bot process that was noticed in time
\* (advance_chat_cursor).
NoticedRestartIsRead == C!NoticedRestartIsRead

\* A message is answered again only after a crash or a lost confirmation
\* (run_agent_loop).
AnsweredAgainOnlyAfterMishap == C!AnsweredAgainOnlyAfterMishap
=============================================================================
