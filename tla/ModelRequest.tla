---------------------------- MODULE ModelRequest ----------------------------
(***************************************************************************)
(* How the agent asks the language model (src/agent/provider.rs): a server *)
(* that rejects a request (400 or 422) is asked again with fewer fields,   *)
(* and at last without native tools, for one JSON action.                  *)
(*                                                                         *)
(* A request is the set of its fields that a server may not know; a server *)
(* is the set of fields it rejects.                                        *)
(***************************************************************************)
EXTENDS Integers, Sequences

Fields == {"tools", "strict", "parallel_tool_calls", "max_completion_tokens", "max_tokens",
           "temperature", "reasoning_effort", "response_format"}

\* request_chat_completions: the first body.
ChatBody == {"tools", "strict", "parallel_tool_calls", "max_completion_tokens",
             "temperature", "reasoning_effort"}

\* remove_strict_from_chat_tools
WithoutStrict(body) == body \ {"strict"}

\* The second: without optional sampling fields.
Modern == ChatBody \ {"temperature", "parallel_tool_calls"}

\* Mutant: only the names of the fields change.
CompatibilityStrict ==
  (ChatBody \ {"reasoning_effort", "max_completion_tokens", "parallel_tool_calls"})
    \cup {"max_tokens"}

\* The third, for local servers; it is made from the first.
Compatibility ==
  WithoutStrict(ChatBody \ {"reasoning_effort", "max_completion_tokens", "parallel_tool_calls"})
    \cup {"max_tokens"}

\* request_legacy_json: without tools, and once more without a format.
Legacy == <<{"temperature", "max_tokens", "response_format"}, {"temperature", "max_tokens"}>>

Chat == <<ChatBody, Modern, Compatibility>> \o Legacy

\* request_responses; this interface knows max_output_tokens from the start.
Responses ==
  LET body == {"tools", "strict", "parallel_tool_calls", "reasoning_effort"}
  IN <<body, WithoutStrict(body \ {"reasoning_effort", "parallel_tool_calls"})>>

\* The requests of `ladder' that a server accepts.
Accepted(ladder, rejected) == {i \in DOMAIN ladder : ladder[i] \cap rejected = {}}

\* What comes of asking: each request is made only after the one before it was
\* rejected.
Answer(ladder, rejected) ==
  LET accepted == Accepted(ladder, rejected) IN
    IF accepted = {} THEN "failed"
    ELSE LET first == CHOOSE i \in accepted : \A j \in accepted : i <= j
         IN IF "tools" \in ladder[first] THEN "native" ELSE "legacy"

-----------------------------------------------------------------------------

\* What the requests are to achieve with every server: see ModelIsReached in
\* AgentDecision.  The last request with tools cannot stand in for the second.
LadderServes ==
  \A rejected \in SUBSET Fields :
    /\ rejected \cap {"tools", "temperature", "max_tokens"} = {} => Answer(Chat, rejected) = "native"
    /\ rejected \cap {"tools", "max_completion_tokens", "reasoning_effort", "strict"} = {}
         => Answer(Chat, rejected) = "native"
    /\ rejected \cap {"temperature", "max_tokens"} = {} => Answer(Chat, rejected) # "failed"
    /\ "tools" \notin rejected => Answer(Responses, rejected) = "native"
=============================================================================
