----------------------------- MODULE ReplyTable -----------------------------
(***************************************************************************)
(* PendingReplies under names of its own: for its run, and for proofs next *)
(* to those of the telemetry, which the same HTTP server serves.           *)
(***************************************************************************)
CONSTANTS Requests, Nobody

VARIABLES sender, mailbox, commands, thread, answer, up, holding,
          asked, replies, next, disturbed

R == INSTANCE PendingReplies

ASSUME RequestsAssumption == R!RequestsAssumption

RepliesSpec == R!FairSpec

\* The entry of a request is gone when its thread is, its sender is in one place
\* only, and while all is calm one exchange at most is under way
\* (PendingReplies::register, resolve and cancel).
RepliesInv == R!IInv

\* A client gets another client's answer only after a request was abandoned or
\* the network repeated or reordered an answer (PendingReplies::resolve).
OwnAnswerUnlessAbandoned == R!OwnAnswerUnlessAbandoned

\* Every registered request comes to its end (send_and_wait_for_reply).
RequestCompletes == R!RequestCompletes
=============================================================================
