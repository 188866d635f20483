-------------------------- MODULE TransferContract --------------------------
(***************************************************************************)
(* What a native inventory transfer promises to the HTTP client that asked *)
(* for it (API.md, "Container Storage" and "Furnaces"): the answer's       *)
(* `confirmed_moved' is exact unless the answer says `outcome_unknown',    *)
(* an uncertain answer never overstates what moved, nothing moves after a  *)
(* certain answer, and no request ever moves more than it asked for.       *)
(***************************************************************************)
EXTENDS Integers

CONSTANTS
  MaxJobs,            \* bound: number of transfer requests in a behaviour
  MaxRequest          \* largest count one request may ask for

VARIABLES
  job,                \* number of requests accepted so far
  requested,          \* [1..MaxJobs -> Nat], items the request asked for
  actual,             \* [1..MaxJobs -> Nat], items that really moved for it
  answer              \* [1..MaxJobs -> Answer], what the client was told

vars == <<job, requested, actual, answer>>

Verdicts == {"completed", "partial", "failed", "cancelled"}

Open == [verdict |-> "open", unknown |-> FALSE, confirmed |-> 0]

\* The process died before it could answer: the HTTP connection is reset.
Lost == [verdict |-> "lost", unknown |-> TRUE, confirmed |-> 0]

Answer == [verdict : Verdicts, unknown : BOOLEAN, confirmed : 0..MaxRequest]

Init ==
  /\ job = 0
  /\ requested = [j \in 1..MaxJobs |-> 0]
  /\ actual = [j \in 1..MaxJobs |-> 0]
  /\ answer = [j \in 1..MaxJobs |-> Open]

Accept(n) ==
  /\ job < MaxJobs
  /\ \A j \in 1..job : answer[j] # Open
  /\ job' = job + 1
  /\ requested' = [requested EXCEPT ![job + 1] = n]
  /\ UNCHANGED <<actual, answer>>

\* Items move for request j while it is open, or after an uncertain answer:
\* the dispatched native packet may still arrive.
Move(j, n) ==
  /\ answer[j] = Open \/ answer[j].unknown
  /\ actual[j] + n <= requested[j]
  /\ actual' = [actual EXCEPT ![j] = @ + n]
  /\ UNCHANGED <<job, requested, answer>>

Truthful(j, a) ==
  /\ a.confirmed <= actual[j]
  /\ ~a.unknown => a.confirmed = actual[j]
  /\ a.verdict = "completed" => ~a.unknown /\ a.confirmed = requested[j]
  /\ a.verdict = "partial" => ~a.unknown /\ a.confirmed > 0

Reply(j, a) ==
  /\ answer[j] = Open
  /\ Truthful(j, a)
  /\ answer' = [answer EXCEPT ![j] = a]
  /\ UNCHANGED <<job, requested, actual>>

Abandon(j) ==
  /\ answer[j] = Open
  /\ answer' = [answer EXCEPT ![j] = Lost]
  /\ UNCHANGED <<job, requested, actual>>

Next ==
  \/ \E n \in 1..MaxRequest : Accept(n)
  \/ \E j \in 1..job :
       \/ \E n \in 1..MaxRequest : Move(j, n)
       \/ \E a \in Answer : Reply(j, a)
       \/ Abandon(j)

Spec == Init /\ [][Next]_vars
=============================================================================
