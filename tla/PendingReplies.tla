--------------------------- MODULE PendingReplies ---------------------------
(***************************************************************************)
(* The reply table between the HTTP threads and the bot loop, for one      *)
(* reply tag (src/bot/replies.rs, src/api/replies.rs).  Tags do not        *)
(* interact: the table is a map and every operation names one key.         *)
(*                                                                         *)
(* An HTTP thread registers a sender under the tag, queues its command,    *)
(* waits for the receiver with a timeout, and cancels the tag whatever     *)
(* happened.  The bot answers a command itself or forwards it to the game  *)
(* and resolves the tag when a chat answer arrives.  Resolving takes the   *)
(* sender out under the lock and sends after it: two steps.                *)
(*                                                                         *)
(* The game's answers come over the network: they may be late, missing,    *)
(* out of order or repeated (connection.rs passes every copy on).          *)
(***************************************************************************)
EXTENDS Integers, Sequences, FiniteSets

CONSTANTS
  Requests,     \* HTTP requests on this tag, each served by a thread of its own
  Nobody        \* no sender

\* Assumed of the constants wherever this module is instantiated.
RequestsAssumption ==
  Requests \intersect {Nobody, "none", "409", "503", "504"} = {}

VARIABLES
  \* shared
  sender,       \* whose sender is in the table under the tag
  mailbox,      \* what was sent to each receiver and not yet read
  commands,     \* the ApiCommand channel
  \* the HTTP threads
  thread,       \* where the thread of each request is
  answer,       \* what its client was answered
  \* the bot loop
  up,           \* the loop still owns its end of the channel
  holding,      \* inside resolve: the sender taken out, the payload to send
  \* the game
  asked,        \* commands forwarded and not yet answered
  replies,      \* all answers of the game
  next,         \* the first one that was not yet received
  disturbed     \* history: an answer was received again or out of order

threadVars == <<thread, answer>>
botVars == <<up, holding>>
gameVars == <<asked, replies, next, disturbed>>
vars == <<sender, mailbox, commands, thread, answer, up, holding,
          asked, replies, next, disturbed>>

Errors == {"409", "503", "504"}
NotYet == "none"
NotResolving == [to |-> Nobody, of |-> Nobody]

\* A receiver is used for one answer.
TypeOK ==
  /\ sender \in Requests \union {Nobody}
  /\ mailbox \in [Requests -> Seq(Requests)]
  /\ \A r \in Requests : Len(mailbox[r]) <= 1
  /\ commands \in Seq(Requests)
  /\ thread \in [Requests -> {"new", "registered", "waiting", "leaving", "done"}]
  /\ answer \in [Requests -> Requests \union Errors \union {NotYet}]
  /\ up \in BOOLEAN
  /\ holding \in [to : Requests, of : Requests] \union {NotResolving}
  /\ asked \in Seq(Requests)
  /\ replies \in Seq(Requests)
  /\ next \in 1..Len(replies) + 1
  /\ disturbed \in BOOLEAN

Init ==
  /\ sender = Nobody
  /\ mailbox = [r \in Requests |-> <<>>]
  /\ commands = <<>>
  /\ thread = [r \in Requests |-> "new"]
  /\ answer = [r \in Requests |-> NotYet]
  /\ up = TRUE
  /\ holding = NotResolving
  /\ asked = <<>>
  /\ replies = <<>>
  /\ next = 1
  /\ disturbed = FALSE

-----------------------------------------------------------------------------
(* The thread of one request: send_and_wait_for_reply *)

Goto(r, place) == thread' = [thread EXCEPT ![r] = place]
Reply(r, a) == answer' = [answer EXCEPT ![r] = a]

\* A second sender for a tag is not accepted.
Register(r) ==
  /\ thread[r] = "new"
  /\ sender = Nobody
  /\ sender' = r
  /\ Goto(r, "registered")
  /\ UNCHANGED <<mailbox, commands, answer, botVars, gameVars>>

Busy(r) ==
  /\ thread[r] = "new"
  /\ sender # Nobody
  /\ Reply(r, "409")
  /\ Goto(r, "done")
  /\ UNCHANGED <<sender, mailbox, commands, botVars, gameVars>>

Submit(r) ==
  /\ thread[r] = "registered"
  /\ up
  /\ commands' = Append(commands, r)
  /\ Goto(r, "waiting")
  /\ UNCHANGED <<sender, mailbox, answer, botVars, gameVars>>

\* tx.send fails: the bot loop has ended.
SubmitFails(r) ==
  /\ thread[r] = "registered"
  /\ ~up
  /\ Reply(r, "503")
  /\ Goto(r, "leaving")
  /\ UNCHANGED <<sender, mailbox, commands, botVars, gameVars>>

Receive(r) ==
  /\ thread[r] = "waiting"
  /\ mailbox[r] # <<>>
  /\ Reply(r, Head(mailbox[r]))
  /\ mailbox' = [mailbox EXCEPT ![r] = Tail(mailbox[r])]
  /\ Goto(r, "leaving")
  /\ UNCHANGED <<sender, commands, botVars, gameVars>>

\* mutant: wait without a limit
WaitForEver(r) == FALSE

\* mutant: a timeout returns at once
GiveUpUncancelled(r) ==
  /\ thread[r] = "waiting"
  /\ mailbox[r] = <<>>
  /\ Reply(r, "504")
  /\ Goto(r, "done")
  /\ UNCHANGED <<sender, mailbox, commands, botVars, gameVars>>

\* RecvTimeoutError::Timeout
GiveUp(r) ==
  /\ thread[r] = "waiting"
  /\ mailbox[r] = <<>>
  /\ Reply(r, "504")
  /\ Goto(r, "leaving")
  /\ UNCHANGED <<sender, mailbox, commands, botVars, gameVars>>

\* r's sender still exists, in the table or in the hands of the bot.
Connected(r) == sender = r \/ holding.to = r

\* RecvTimeoutError::Disconnected: the sender was dropped unused.
Disconnect(r) ==
  /\ thread[r] = "waiting"
  /\ mailbox[r] = <<>>
  /\ ~Connected(r)
  /\ Reply(r, "503")
  /\ Goto(r, "leaving")
  /\ UNCHANGED <<sender, mailbox, commands, botVars, gameVars>>

\* cancel(tag) removes the entry of the tag, whoever registered it; then the
\* receiver is dropped.
Cancel(r) ==
  /\ thread[r] = "leaving"
  /\ sender' = Nobody
  /\ Goto(r, "done")
  /\ UNCHANGED <<mailbox, commands, answer, botVars, gameVars>>

Thread(r) ==
  \/ Register(r) \/ Busy(r) \/ Submit(r) \/ SubmitFails(r)
  \/ Receive(r) \/ GiveUp(r) \/ Disconnect(r) \/ Cancel(r)

-----------------------------------------------------------------------------
(* The bot loop *)

Free == up /\ holding = NotResolving

\* PendingReplies::resolve, under the lock
Resolve(payload) ==
  /\ sender' = Nobody
  /\ holding' = IF sender = Nobody THEN NotResolving
                ELSE [to |-> sender, of |-> payload]

\* PendingReplies::resolve, after the lock: the receiver may be gone.
Send ==
  /\ up
  /\ holding # NotResolving
  /\ mailbox' = IF thread[holding.to] = "done" THEN mailbox
                ELSE [mailbox EXCEPT ![holding.to] = Append(@, holding.of)]
  /\ holding' = NotResolving
  /\ UNCHANGED <<sender, commands, threadVars, up, gameVars>>

\* mutant: the refused command is started all the same
RefuseAndForward ==
  /\ Free
  /\ commands # <<>>
  /\ Resolve(Head(commands))
  /\ asked' = Append(asked, Head(commands))
  /\ commands' = Tail(commands)
  /\ UNCHANGED <<mailbox, threadVars, up, replies, next, disturbed>>

\* A native task is already running: the bot answers the command itself.
Refuse ==
  /\ Free
  /\ commands # <<>>
  /\ Resolve(Head(commands))
  /\ commands' = Tail(commands)
  /\ UNCHANGED <<mailbox, threadVars, up, gameVars>>

\* The command goes to the game, at once or as a native task.
Forward ==
  /\ Free
  /\ commands # <<>>
  /\ asked' = Append(asked, Head(commands))
  /\ commands' = Tail(commands)
  /\ UNCHANGED <<sender, mailbox, threadVars, botVars, replies, next, disturbed>>

\* A BOT_* chat answer is received, in order or not.
Hear ==
  /\ Free
  /\ \E i \in 1..Len(replies) :
       /\ Resolve(replies[i])
       /\ next' = IF i >= next THEN i + 1 ELSE next
       /\ disturbed' = (disturbed \/ i # next)
  /\ UNCHANGED <<mailbox, commands, threadVars, up, asked, replies>>

\* join_bot returns: both ends it owns are dropped.
End ==
  /\ up
  /\ up' = FALSE
  /\ holding' = NotResolving
  /\ UNCHANGED <<sender, mailbox, commands, threadVars, gameVars>>

-----------------------------------------------------------------------------
(* The game executes commands in order, and answers or does not. *)

Execute ==
  /\ asked # <<>>
  /\ asked' = Tail(asked)
  /\ replies' \in {replies, Append(replies, Head(asked))}
  /\ UNCHANGED <<sender, mailbox, commands, threadVars, botVars, next, disturbed>>

Next ==
  \/ \E r \in Requests : Thread(r)
  \/ Send \/ Refuse \/ Forward \/ Hear \/ End
  \/ Execute

Spec == Init /\ [][Next]_vars

\* The threads are scheduled, and recv_timeout returns.
FairSpec ==
  Spec /\ \A r \in Requests :
            WF_vars(Submit(r) \/ SubmitFails(r) \/ Receive(r) \/ GiveUp(r)
                      \/ Disconnect(r) \/ Cancel(r))

-----------------------------------------------------------------------------
(* Properties *)

\* An entry of the table belongs to a request that is still going to cancel the
\* tag: no path out of send_and_wait_for_reply leaves an entry behind, which
\* would answer every later request on the tag with 409.
EntryHasOwner ==
  \A r \in Requests :
    sender = r => thread[r] \in {"registered", "waiting", "leaving"}

\* The thread has given up or can only be told that its sender is gone.
Abandoned(r) ==
  \/ answer[r] \in {"503", "504"}
  \/ /\ thread[r] \in {"registered", "waiting"}
     /\ mailbox[r] = <<>>
     /\ ~Connected(r)

\* A client gets the answer to another client's command only after some request
\* was abandoned (its command runs on and will be answered) or the network has
\* repeated or reordered an answer.  With neither, the late cancel, the sender
\* taken out before it is used and the free order of the threads do no harm.
OwnAnswerUnlessAbandoned ==
  (\E r \in Requests : answer[r] \in Requests \ {r})
    => disturbed \/ \E r \in Requests : Abandoned(r)

\* Whatever the bot and the game do, a request that has registered is answered.
RequestCompletes ==
  \A r \in Requests : thread[r] = "registered" ~> thread[r] = "done"

Calm == ~disturbed /\ \A r \in Requests : ~Abandoned(r)

\* Answers on their way to the table: queued, executing or not yet received.
Pending == Len(commands) + Len(asked) + (Len(replies) + 1 - next)

\* All of them are answers to r.
PendingFor(r) ==
  /\ \A i \in 1..Len(commands) : commands[i] = r
  /\ \A i \in 1..Len(asked) : asked[i] = r
  /\ \A i \in next..Len(replies) : replies[i] = r

\* A sender is in one place: the table, the hands of the bot, or used up.
OneSender ==
  \A r \in Requests :
    /\ thread[r] = "new" => sender # r /\ holding.to # r /\ mailbox[r] = <<>>
    /\ thread[r] \in {"new", "registered", "waiting"} => answer[r] = NotYet
    /\ sender = r => mailbox[r] = <<>> /\ holding.to # r
    /\ holding.to = r => mailbox[r] = <<>>

\* While nothing is abandoned or disturbed there is at most one answer on its
\* way, and it is for the request in the table.
OneExchange ==
  Calm =>
    /\ Pending <= 1
    /\ Pending # 0 => sender # Nobody /\ PendingFor(sender) /\ thread[sender] = "waiting"
    /\ holding # NotResolving => holding.of = holding.to /\ thread[holding.to] = "waiting"
    /\ \A r \in Requests : mailbox[r] # <<>> => mailbox[r] = <<r>> /\ thread[r] = "waiting"
    /\ \A r \in Requests : answer[r] \in Requests => answer[r] = r

\* The inductive invariant behind EntryHasOwner and OwnAnswerUnlessAbandoned.
IInv == TypeOK /\ EntryHasOwner /\ OneSender /\ OneExchange

\* "Correlates asynchronous game chat replies with HTTP control requests."
\* (replies.rs:1)
AnswersAreCorrelated ==
  \A r \in Requests : answer[r] \in Requests => answer[r] = r
=============================================================================
