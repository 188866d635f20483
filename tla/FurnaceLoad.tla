---------------------------- MODULE FurnaceLoad ----------------------------
(***************************************************************************)
(* POST /furnace/load (src/api/routes.rs): two native transfers, of the    *)
(* input and of the fuel, for one HTTP request, one after the other.  The  *)
(* transfers are those of TransferContract, which InventoryTransfer keeps. *)
(* Their answers reach the HTTP threads through the reply table            *)
(* (src/bot/replies.rs), which knows a leg by its tag only; PendingReplies *)
(* is about the table itself.  A thread and the bot live in one process,   *)
(* so that a crash leaves nobody to be answered.                           *)
(***************************************************************************)
EXTENDS Integers, Sequences

CONSTANTS
  Loads,        \* requests to load the furnace, each with its thread
  MaxJobs,      \* bound: transfers
  MaxRequest,   \* bound: largest count of a transfer
  None

VARIABLES
  job, requested, actual, answer,  \* of TransferContract
  thread,   \* where the thread of each load is
  tag,      \* PendingReplies: whose sender is registered for each leg
  mail,     \* what was sent to the receiver of each load
  queue,    \* the ApiCommand channel
  owner,    \* for which load and leg a transfer is; None: for another client
  got,      \* input_value and fuel_value of each load
  result,   \* what its client was answered
  calm      \* history: no thread has given up or lost its entry of the table

contractVars == <<job, requested, actual, answer>>
threadVars == <<thread, got, result, calm>>
vars == <<contractVars, tag, mail, queue, owner, threadVars>>

Bot == INSTANCE TransferContract WITH
  MaxJobs <- MaxJobs, MaxRequest <- MaxRequest,
  job <- job, requested <- requested, actual <- actual, answer <- answer

Legs == {"input", "fuel"}

ASSUME LoadAssumption ==
  /\ MaxJobs \in Nat /\ MaxRequest \in Nat
  /\ None \notin Loads \cup (Loads \X Legs) \cup Bot!Answer

\* A leg is waited for, then its tag is cancelled.
Places == {"new", "input", "input left", "between", "fuel", "fuel left", "done"}

Results == {"none", "409", "503", "504", "input_failed", "furnace_loaded", "partially_loaded"}

\* A leg that is not done, for whatever reason.
Refused == [verdict |-> "failed", unknown |-> FALSE, confirmed |-> 0]

TypeOK ==
  /\ thread \in [Loads -> Places] /\ result \in [Loads -> Results]
  /\ tag \in [Legs -> Loads \cup {None}]
  /\ mail \in [Loads -> Bot!Answer \cup {None}]
  /\ queue \in Seq(Loads \X Legs)
  /\ owner \in [1..MaxJobs -> (Loads \X Legs) \cup {None}]
  /\ got \in [Loads -> [Legs -> Bot!Answer \cup {None}]]
  /\ calm \in BOOLEAN
  /\ \A l \in Loads : thread[l] = "done" <=> result[l] # "none"
  /\ \A l \in Loads : mail[l] # None => thread[l] \in Legs /\ tag[thread[l]] # l

Init ==
  /\ Bot!Init
  /\ thread = [l \in Loads |-> "new"] /\ result = [l \in Loads |-> "none"]
  /\ tag = [g \in Legs |-> None] /\ mail = [l \in Loads |-> None]
  /\ queue = <<>> /\ owner = [j \in 1..MaxJobs |-> None]
  /\ got = [l \in Loads |-> [g \in Legs |-> None]]
  /\ calm = TRUE

-----------------------------------------------------------------------------
(* The bot *)

\* resolve: the answer goes to whoever is registered for the leg.
Resolve(leg, a) ==
  /\ mail' = IF tag[leg] = None THEN mail ELSE [mail EXCEPT ![tag[leg]] = a]
  /\ tag' = [tag EXCEPT ![leg] = None]

\* Mutant: a refused command is started all the same, after the running one.
RefuseAndKeep(command) == queue' = Append(Tail(queue), command)

Refuse(command) == queue' = Tail(queue)

\* ApiCommand::FurnaceTransfer: it becomes the running transfer, or is refused
\* because there is one, or a craft, or a dig.
Take ==
  /\ queue # <<>>
  /\ LET command == Head(queue) IN
       \/ /\ \E n \in 1..MaxRequest : Bot!Accept(n)
          /\ owner' = [owner EXCEPT ![job + 1] = command]
          /\ queue' = Tail(queue)
          /\ UNCHANGED <<tag, mail>>
       \/ /\ Refuse(command)
          /\ Resolve(command[2], Refused)
          /\ UNCHANGED <<contractVars, owner>>
  /\ UNCHANGED threadVars

\* A chest transfer of another client.
Other ==
  /\ \E n \in 1..MaxRequest : Bot!Accept(n)
  /\ UNCHANGED <<tag, mail, queue, owner, threadVars>>

Move ==
  /\ \E j \in 1..job, n \in 1..MaxRequest : Bot!Move(j, n)
  /\ UNCHANGED <<tag, mail, queue, owner, threadVars>>

Answer ==
  /\ \E j \in 1..job, a \in Bot!Answer :
       /\ Bot!Reply(j, a)
       /\ IF owner[j] = None THEN UNCHANGED <<tag, mail>> ELSE Resolve(owner[j][2], a)
  /\ UNCHANGED <<queue, owner, threadVars>>

-----------------------------------------------------------------------------
(* The thread of a load *)

Goto(l, place) == thread' = [thread EXCEPT ![l] = place]

Respond(l, r) == Goto(l, "done") /\ result' = [result EXCEPT ![l] = r]

Ok(a) == a.verdict \in {"completed", "partial"}

\* Mutant: `ok' is taken for complete.
CompleteIfOk(a) == Ok(a)

Complete(a) == a.verdict = "completed"

\* send_and_wait_for_reply registers the tag and sends the command.
Begin(l, leg) ==
  /\ tag[leg] = None
  /\ tag' = [tag EXCEPT ![leg] = l]
  /\ queue' = Append(queue, <<l, leg>>)
  /\ Goto(l, leg)
  /\ UNCHANGED <<contractVars, mail, owner, got, result, calm>>

Input(l) == thread[l] = "new" /\ Begin(l, "input")

\* BotReplyError::Busy of the first leg.
InputBusy(l) ==
  /\ thread[l] = "new" /\ tag["input"] # None
  /\ Respond(l, "409")
  /\ UNCHANGED <<contractVars, tag, mail, queue, owner, got, calm>>

\* The receiver has the answer.
Receive(l) ==
  /\ mail[l] # None
  /\ got' = [got EXCEPT ![l][thread[l]] = mail[l]]
  /\ mail' = [mail EXCEPT ![l] = None]
  /\ Goto(l, IF thread[l] = "input" THEN "input left" ELSE "fuel left")
  /\ UNCHANGED <<contractVars, tag, queue, owner, result, calm>>

\* The answer of a load whose legs have both been tried.
Loaded(values) ==
  IF Complete(values["input"]) /\ Complete(values["fuel"])
    THEN "furnace_loaded" ELSE "partially_loaded"

\* Without an answer: the first leg is an error of the whole load, the second
\* counts as a leg that is not done.
WithoutAnswer(l, error) ==
  /\ thread[l] \in Legs /\ mail[l] = None
  /\ tag' = [tag EXCEPT ![thread[l]] = None]
  /\ calm' = FALSE
  /\ IF thread[l] = "input"
       THEN Respond(l, error) /\ UNCHANGED got
       ELSE /\ got' = [got EXCEPT ![l]["fuel"] = Refused]
            /\ Respond(l, Loaded(got'[l]))
  /\ UNCHANGED <<contractVars, mail, queue, owner>>

\* RecvTimeoutError::Timeout
GiveUp(l) == WithoutAnswer(l, "504")

\* RecvTimeoutError::Disconnected: another thread has cancelled the tag.
Disconnected(l) == thread[l] \in Legs /\ tag[thread[l]] # l /\ WithoutAnswer(l, "503")

AfterInput(l) ==
  IF Ok(got[l]["input"]) THEN Goto(l, "between") /\ UNCHANGED result
  ELSE Respond(l, "input_failed")

\* cancel, which removes the entry of the leg whoever registered it.
Cancel(leg) ==
  /\ tag' = [tag EXCEPT ![leg] = None]
  /\ calm' = (calm /\ tag[leg] = None)

LeaveInput(l) ==
  /\ thread[l] = "input left"
  /\ Cancel("input")
  /\ AfterInput(l)
  /\ UNCHANGED <<contractVars, mail, queue, owner, got>>

Fuel(l) == thread[l] = "between" /\ Begin(l, "fuel")

FuelBusy(l) ==
  /\ thread[l] = "between" /\ tag["fuel"] # None
  /\ got' = [got EXCEPT ![l]["fuel"] = Refused]
  /\ Respond(l, Loaded(got'[l]))
  /\ UNCHANGED <<contractVars, tag, mail, queue, owner, calm>>

LeaveFuel(l) ==
  /\ thread[l] = "fuel left"
  /\ Cancel("fuel")
  /\ Respond(l, Loaded(got[l]))
  /\ UNCHANGED <<contractVars, mail, queue, owner, got>>

Thread(l) ==
  \/ Input(l) \/ InputBusy(l) \/ Receive(l) \/ GiveUp(l) \/ Disconnected(l)
  \/ LeaveInput(l) \/ Fuel(l) \/ FuelBusy(l) \/ LeaveFuel(l)

Next == Take \/ Other \/ Move \/ Answer \/ \E l \in Loads : Thread(l)

Spec == Init /\ [][Next]_vars

-----------------------------------------------------------------------------
(* Properties *)

\* The transfers of a load.
JobsOf(l, leg) == {j \in 1..job : owner[j] = <<l, leg>>}

\* While no thread is left without its answer, "furnace_loaded" means that both
\* legs have moved all they were asked for, whatever other loads and transfers
\* do (LLM.md: "a partial two-leg result is never reported as a full success").
LoadedMeansMoved ==
  \A l \in Loads : calm /\ result[l] = "furnace_loaded" =>
    \A leg \in Legs : \E j \in JobsOf(l, leg) : actual[j] = requested[j]

\* No fuel is moved for a load of whose input nothing has been moved.
FuelFollowsInput ==
  \A l \in Loads : calm =>
    \A j \in JobsOf(l, "fuel") : \E i \in JobsOf(l, "input") : i < j /\ actual[i] > 0

\* The two legs of a load belong together.
LoadInv == TypeOK /\ LoadedMeansMoved /\ FuelFollowsInput

\* A load whose input failed moves nothing afterwards, unless it was told that
\* the outcome is unknown.
FailedInputIsOver ==
  [][\A l \in Loads :
       calm /\ result[l] = "input_failed" /\ ~got[l]["input"].unknown =>
         \A leg \in Legs : \A j \in 1..MaxJobs :
           owner'[j] = <<l, leg>> => actual'[j] = actual[j]]_vars
=============================================================================
