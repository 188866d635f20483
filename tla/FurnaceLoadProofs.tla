------------------------- MODULE FurnaceLoadProofs -------------------------
(***************************************************************************)
(* The furnace load for any number of loads, transfers and items, over the *)
(* contract of the transfers.                                              *)
(***************************************************************************)
EXTENDS FurnaceLoad, TLAPS

\* A thread that is still without an answer of its leg.
Waits(l, g) == thread[l] = g /\ mail[l] = None

InQueue(l, g) == \E i \in 1..Len(queue) : queue[i] = <<l, g>>

\* Nothing has been sent for a leg.
Untried(l, g) == ~InQueue(l, g) /\ JobsOf(l, g) = {}

\* The transfers are those of the contract.
Contract ==
  /\ job \in 0..MaxJobs
  /\ requested \in [1..MaxJobs -> Nat] /\ actual \in [1..MaxJobs -> Nat]
  /\ answer \in [1..MaxJobs -> Bot!Answer \cup {Bot!Open}]
  /\ \A j \in 1..MaxJobs : j > job => answer[j] = Bot!Open
  /\ \A j \in 1..job :
       requested[j] > 0 /\ (answer[j] # Bot!Open => Bot!Truthful(j, answer[j]))

\* A leg is tried once: by one command, which becomes one transfer at most.
Once ==
  /\ \A i, k \in 1..Len(queue) : queue[i] = queue[k] => i = k
  /\ \A i, j \in 1..job : owner[i] # None /\ owner[i] = owner[j] => i = j
  /\ \A j \in 1..MaxJobs : j > job => owner[j] = None
  /\ \A l \in Loads, g \in Legs : InQueue(l, g) => JobsOf(l, g) = {}

InputDone(l) == got[l]["input"] # None /\ Ok(got[l]["input"])

\* What the place of a thread tells about its legs.
CourseOf(l) ==
  /\ thread[l] = "new" => Untried(l, "input")
  /\ thread[l] \in {"new", "input"} => got[l]["input"] = None
  /\ thread[l] \in {"new", "input", "input left", "between"} => Untried(l, "fuel")
  /\ thread[l] \in {"new", "input", "input left", "between", "fuel"} => got[l]["fuel"] = None
  /\ thread[l] = "input left" => got[l]["input"] # None
  /\ thread[l] = "fuel left" => got[l]["fuel"] # None
  /\ thread[l] \in {"between", "fuel", "fuel left"} => InputDone(l)
  /\ InputDone(l) \/ Untried(l, "fuel")
  /\ result[l] = "input_failed" => got[l]["input"] # None /\ ~Ok(got[l]["input"])
  /\ result[l] = "furnace_loaded" =>
       \A g \in Legs : got[l][g] # None /\ Complete(got[l][g])

Course == \A l \in Loads : CourseOf(l)

\* What the client of a leg hears is the answer of its own transfer, or that
\* there is none.
Told(l, g, v) ==
  \/ JobsOf(l, g) = {} /\ v = Refused
  \/ \E j \in JobsOf(l, g) : answer[j] = v

\* While all is calm, a waiting thread has its entry of the table, and commands
\* and transfers without answer are those of waiting threads.
Linked(l, g) ==
  /\ Waits(l, g) => tag[g] = l
  /\ InQueue(l, g) => Waits(l, g)
  /\ \A j \in JobsOf(l, g) : answer[j] = Bot!Open => Waits(l, g)

\* And what the threads have heard is their own.
HeardOf(l, g) ==
  /\ got[l][g] # None => Told(l, g, got[l][g])
  /\ thread[l] = g /\ mail[l] # None => Told(l, g, mail[l])

InOrder(l) == \A i \in JobsOf(l, "input"), j \in JobsOf(l, "fuel") : i < j

Table ==
  /\ \A l \in Loads, g \in Legs : tag[g] = l => Waits(l, g)
  /\ calm => \A l \in Loads, g \in Legs : Linked(l, g)

Heard ==
  calm => \A l \in Loads : InOrder(l) /\ \A g \in Legs : HeardOf(l, g)

IInv == TypeOK /\ Contract /\ Once /\ Course /\ Table /\ Heard

-----------------------------------------------------------------------------
(* Data *)

LEMMA Apart ==
  /\ MaxJobs \in Nat /\ MaxRequest \in Nat
  /\ None \notin Loads /\ None \notin Loads \X Legs /\ None \notin Bot!Answer
  /\ Bot!Open \notin Bot!Answer
  /\ Refused \in Bot!Answer /\ ~Ok(Refused) /\ ~Complete(Refused)
BY LoadAssumption DEF Bot!Answer, Bot!Open, Bot!Verdicts, Refused, Ok, Complete

LEMMA PlaceNames ==
  /\ Legs = {"input", "fuel"}
  /\ Places = {"new", "input", "input left", "between", "fuel", "fuel left", "done"}
BY DEF Legs, Places

LEMMA JobIsJob ==
  ASSUME Contract, NEW j \in 1..job
  PROVE  j \in 1..MaxJobs
<1>1. job \in 0..MaxJobs /\ MaxJobs \in Nat
  BY Apart DEF Contract
<1> QED
  BY <1>1

LEMMA Appended ==
  ASSUME NEW S, NEW q \in Seq(S), NEW e \in S
  PROVE  Append(q, e) \in Seq(S)
OBVIOUS

LEMMA Nothing ==
  ASSUME NEW S
  PROVE  <<>> \in Seq(S)
OBVIOUS

\* A command joins the queue.
LEMMA Queued ==
  ASSUME queue \in Seq(Loads \X Legs), NEW l \in Loads, NEW g \in Legs,
         queue' = Append(queue, <<l, g>>), ~InQueue(l, g),
         \A i, k \in 1..Len(queue) : queue[i] = queue[k] => i = k
  PROVE  /\ queue' \in Seq(Loads \X Legs)
         /\ InQueue(l, g)'
         /\ \A m \in Loads, h \in Legs : (m # l \/ h # g) => (InQueue(m, h)' <=> InQueue(m, h))
         /\ \A i, k \in 1..Len(queue') : queue'[i] = queue'[k] => i = k
<1>1. /\ queue' \in Seq(Loads \X Legs) /\ Len(queue') = Len(queue) + 1 /\ Len(queue) \in Nat
      /\ \A i \in 1..Len(queue) : queue'[i] = queue[i]
      /\ queue'[Len(queue) + 1] = <<l, g>>
  OBVIOUS
<1>2. \A i \in 1..Len(queue) : queue[i] # <<l, g>>
  BY DEF InQueue
<1>3. InQueue(l, g)'
  BY <1>1 DEF InQueue
<1>4. \A i, k \in 1..Len(queue') : queue'[i] = queue'[k] => i = k
  BY <1>1, <1>2
<1>5. ASSUME NEW m \in Loads, NEW h \in Legs, m # l \/ h # g
      PROVE  InQueue(m, h)' <=> InQueue(m, h)
  <2>1. <<m, h>> # <<l, g>>
    BY <1>5
  <2>2. ASSUME InQueue(m, h) PROVE InQueue(m, h)'
    BY <1>1, <2>2 DEF InQueue
  <2>3. ASSUME InQueue(m, h)' PROVE InQueue(m, h)
    <3>1. PICK i \in 1..Len(queue') : queue'[i] = <<m, h>>
      BY <2>3 DEF InQueue
    <3>2. i \in 1..Len(queue)
      BY <1>1, <2>1, <3>1
    <3> QED BY <1>1, <3>1, <3>2 DEF InQueue
  <2> QED BY <2>2, <2>3
<1> QED
  BY <1>1, <1>3, <1>4, <1>5

\* The first command leaves it.
LEMMA Dequeued ==
  ASSUME queue \in Seq(Loads \X Legs), queue # <<>>, queue' = Tail(queue),
         \A i, k \in 1..Len(queue) : queue[i] = queue[k] => i = k
  PROVE  /\ queue' \in Seq(Loads \X Legs)
         /\ \E l \in Loads, g \in Legs :
              /\ Head(queue) = <<l, g>> /\ InQueue(l, g) /\ ~InQueue(l, g)'
         /\ \A m \in Loads, h \in Legs : InQueue(m, h)' => InQueue(m, h)
         /\ \A i, k \in 1..Len(queue') : queue'[i] = queue'[k] => i = k
<1>1. /\ queue' \in Seq(Loads \X Legs) /\ Len(queue') = Len(queue) - 1 /\ Len(queue) \in Nat
      /\ Len(queue) > 0 /\ Head(queue) = queue[1] /\ queue[1] \in Loads \X Legs
      /\ \A i \in 1..Len(queue') : queue'[i] = queue[i + 1]
  OBVIOUS
<1>2. PICK l \in Loads, g \in Legs : queue[1] = <<l, g>>
  BY <1>1
<1>3. InQueue(l, g)
  BY <1>1, <1>2 DEF InQueue
<1>4. ASSUME NEW i \in 1..Len(queue') PROVE queue'[i] # <<l, g>>
  <2>1. i + 1 \in 1..Len(queue) /\ 1 \in 1..Len(queue) /\ i + 1 # 1
    BY <1>1
  <2>2. queue[i + 1] # queue[1]
    BY <2>1
  <2> QED BY <1>1, <1>2, <2>2
<1>5. ASSUME NEW m \in Loads, NEW h \in Legs, InQueue(m, h)' PROVE InQueue(m, h)
  <2>1. PICK i \in 1..Len(queue') : queue'[i] = <<m, h>>
    BY <1>5 DEF InQueue
  <2>2. i + 1 \in 1..Len(queue) /\ queue[i + 1] = <<m, h>>
    BY <1>1, <2>1
  <2> QED BY <2>2 DEF InQueue
<1>6. \A i, k \in 1..Len(queue') : queue'[i] = queue'[k] => i = k
  BY <1>1
<1>7. ~InQueue(l, g)'
  BY <1>4 DEF InQueue
<1> QED
  BY <1>1, <1>2, <1>3, <1>5, <1>6, <1>7

-----------------------------------------------------------------------------
(* What each kind of step does *)

\* The bot starts or refuses the first command.
TakeAccepts ==
  /\ queue # <<>>
  /\ \E n \in 1..MaxRequest : Bot!Accept(n)
  /\ owner' = [owner EXCEPT ![job + 1] = Head(queue)]
  /\ queue' = Tail(queue)
  /\ UNCHANGED <<tag, mail, threadVars>>

TakeRefuses ==
  /\ queue # <<>>
  /\ queue' = Tail(queue)
  /\ Resolve(Head(queue)[2], Refused)
  /\ UNCHANGED <<contractVars, owner, threadVars>>

LEMMA TakeCases == Take => TakeAccepts \/ TakeRefuses
BY DEF Take, TakeAccepts, TakeRefuses, Refuse

\* An answer of the contract, and where it goes.
AnswerOf(j, a) ==
  /\ Bot!Reply(j, a)
  /\ IF owner[j] = None THEN UNCHANGED <<tag, mail>> ELSE Resolve(owner[j][2], a)
  /\ UNCHANGED <<queue, owner, threadVars>>

LEMMA AnswerCases == Answer => \E j \in 1..job, a \in Bot!Answer : AnswerOf(j, a)
BY DEF Answer, AnswerOf

LEMMA ResolveType ==
  ASSUME TypeOK, Table, NEW g \in Legs, NEW a \in Bot!Answer, Resolve(g, a), UNCHANGED threadVars
  PROVE  /\ tag' \in [Legs -> Loads \cup {None}]
         /\ mail' \in [Loads -> Bot!Answer \cup {None}]
         /\ \A l \in Loads : mail'[l] # None => thread[l] \in Legs /\ tag'[thread[l]] # l
         /\ tag'[g] = None
         /\ \A h \in Legs : h # g => tag'[h] = tag[h]
         /\ \A l \in Loads : mail'[l] = IF tag[g] = l THEN a ELSE mail[l]
<1> USE Apart
<1>1. /\ tag' = [tag EXCEPT ![g] = None] /\ tag \in [Legs -> Loads \cup {None}]
      /\ mail \in [Loads -> Bot!Answer \cup {None}]
  BY DEF Resolve, TypeOK
<1>2. /\ tag'[g] = None
      /\ \A h \in Legs : h # g => tag'[h] = tag[h]
      /\ tag' \in [Legs -> Loads \cup {None}]
  BY <1>1
<1>3. /\ mail' \in [Loads -> Bot!Answer \cup {None}]
      /\ \A l \in Loads : mail'[l] = IF tag[g] = l THEN a ELSE mail[l]
  <2>1. CASE tag[g] = None
    BY <1>1, <2>1 DEF Resolve
  <2>2. CASE tag[g] # None
    <3>1. tag[g] \in Loads /\ mail' = [mail EXCEPT ![tag[g]] = a]
      BY <1>1, <2>2 DEF Resolve
    <3> QED BY <1>1, <3>1
  <2> QED BY <2>1, <2>2
<1>4. ASSUME NEW l \in Loads, mail'[l] # None PROVE thread[l] \in Legs /\ tag'[thread[l]] # l
  <2>1. CASE tag[g] = l
    BY <1>2, <2>1 DEF Table, Waits
  <2>2. CASE tag[g] # l
    <3>1. mail[l] # None
      BY <1>3, <1>4, <2>2
    <3>2. thread[l] \in Legs /\ tag[thread[l]] # l
      BY <3>1 DEF TypeOK
    <3> QED BY <1>2, <3>2
  <2> QED BY <2>1, <2>2
<1> QED
  BY <1>2, <1>3, <1>4

\* What a thread has heard of a leg.
LEMMA GotOne ==
  ASSUME TypeOK, NEW l \in Loads, NEW g \in Legs, NEW v \in Bot!Answer,
         got' = [got EXCEPT ![l][g] = v]
  PROVE  /\ got' \in [Loads -> [Legs -> Bot!Answer \cup {None}]]
         /\ got'[l][g] = v
         /\ \A m \in Loads, h \in Legs : m # l \/ h # g => got'[m][h] = got[m][h]
<1>1. got \in [Loads -> [Legs -> Bot!Answer \cup {None}]]
  BY DEF TypeOK
<1>2. got[l] \in [Legs -> Bot!Answer \cup {None}]
  BY <1>1
<1> DEFINE new == [got[l] EXCEPT ![g] = v]
<1>3. /\ new \in [Legs -> Bot!Answer \cup {None}]
      /\ new[g] = v /\ \A h \in Legs : h # g => new[h] = got[l][h]
  BY <1>2
<1>4. got' = [got EXCEPT ![l] = new]
  OBVIOUS
<1> HIDE DEF new
<1> QED
  BY <1>1, <1>3, <1>4

LEMMA QueueHead ==
  ASSUME TypeOK, queue # <<>>
  PROVE  /\ Head(queue) \in Loads \X Legs /\ Tail(queue) \in Seq(Loads \X Legs)
         /\ Head(queue)[1] \in Loads /\ Head(queue)[2] \in Legs
<1>1. queue \in Seq(Loads \X Legs)
  BY DEF TypeOK
<1>2. Head(queue) \in Loads \X Legs /\ Tail(queue) \in Seq(Loads \X Legs)
  BY <1>1
<1> QED
  BY <1>2

LEMMA LoadedIsResult == \A values : Loaded(values) \in {"furnace_loaded", "partially_loaded"}
BY DEF Loaded

-----------------------------------------------------------------------------
(* The types *)

LEMMA Types ==
  ASSUME TypeOK
  PROVE  /\ thread \in [Loads -> Places] /\ result \in [Loads -> Results]
         /\ tag \in [Legs -> Loads \cup {None}]
         /\ mail \in [Loads -> Bot!Answer \cup {None}]
         /\ queue \in Seq(Loads \X Legs)
         /\ owner \in [1..MaxJobs -> (Loads \X Legs) \cup {None}]
         /\ got \in [Loads -> [Legs -> Bot!Answer \cup {None}]]
         /\ calm \in BOOLEAN
         /\ \A m \in Loads : thread[m] = "done" <=> result[m] # "none"
         /\ \A m \in Loads : mail[m] # None => thread[m] \in Legs /\ tag[thread[m]] # m
BY DEF TypeOK

\* A thread goes on, and may answer its client.
LEMMA WentOn ==
  ASSUME TypeOK, NEW l \in Loads, NEW p \in Places, NEW r \in Results,
         thread' = [thread EXCEPT ![l] = p],
         result' = [result EXCEPT ![l] = r] \/ (result' = result /\ r = result[l]),
         p = "done" <=> r # "none"
  PROVE  /\ thread' \in [Loads -> Places] /\ result' \in [Loads -> Results]
         /\ thread'[l] = p /\ result'[l] = r
         /\ \A m \in Loads : m # l => thread'[m] = thread[m] /\ result'[m] = result[m]
         /\ \A m \in Loads : thread'[m] = "done" <=> result'[m] # "none"
<1>1. /\ thread \in [Loads -> Places] /\ result \in [Loads -> Results]
      /\ \A m \in Loads : thread[m] = "done" <=> result[m] # "none"
  BY Types
<1>2. thread' \in [Loads -> Places] /\ thread'[l] = p /\ \A m \in Loads : m # l => thread'[m] = thread[m]
  BY <1>1
<1>3. result' \in [Loads -> Results] /\ result'[l] = r /\ \A m \in Loads : m # l => result'[m] = result[m]
  BY <1>1
<1> QED
  BY <1>1, <1>2, <1>3

LEMMA BotTypes ==
  ASSUME TypeOK, Contract, Table, Take \/ Other \/ Move \/ Answer
  PROVE  TypeOK'
<1> USE Apart, PlaceNames
<1>1. CASE TakeAccepts
  <2>1. Head(queue) \in Loads \X Legs /\ Tail(queue) \in Seq(Loads \X Legs)
    BY <1>1, QueueHead DEF TakeAccepts
  <2>2. owner' \in [1..MaxJobs -> (Loads \X Legs) \cup {None}]
    BY <1>1, <2>1, Types DEF TakeAccepts
  <2> QED
    BY <1>1, <2>1, <2>2 DEF TakeAccepts, TypeOK, threadVars
<1>2. CASE TakeRefuses
  <2>1. Head(queue)[2] \in Legs /\ Tail(queue) \in Seq(Loads \X Legs)
    BY <1>2, QueueHead DEF TakeRefuses
  <2>2. /\ tag' \in [Legs -> Loads \cup {None}]
        /\ mail' \in [Loads -> Bot!Answer \cup {None}]
        /\ \A l \in Loads : mail'[l] # None => thread[l] \in Legs /\ tag'[thread[l]] # l
    BY <1>2, <2>1, ResolveType DEF TakeRefuses
  <2> QED
    BY <1>2, <2>1, <2>2 DEF TakeRefuses, TypeOK, threadVars
<1>3. CASE Other
  BY <1>3 DEF Other, TypeOK, threadVars
<1>4. CASE Move
  BY <1>4 DEF Move, TypeOK, threadVars
<1>5. CASE Answer
  <2>1. PICK j \in 1..job, a \in Bot!Answer : AnswerOf(j, a)
    BY <1>5, AnswerCases
  <2>2. j \in 1..MaxJobs
    BY <2>1, JobIsJob
  <2>3. /\ tag' \in [Legs -> Loads \cup {None}]
        /\ mail' \in [Loads -> Bot!Answer \cup {None}]
        /\ \A l \in Loads : mail'[l] # None => thread[l] \in Legs /\ tag'[thread[l]] # l
    <3>1. CASE owner[j] = None
      BY <2>1, <3>1, Types DEF AnswerOf, threadVars
    <3>2. CASE owner[j] # None
      <4>1. owner[j][2] \in Legs
        <5>1. owner[j] \in (Loads \X Legs) \cup {None}
          BY <2>2, Types
        <5> QED BY <3>2, <5>1
      <4> QED BY <2>1, <3>2, <4>1, ResolveType DEF AnswerOf
    <3> QED BY <3>1, <3>2
  <2> QED
    BY <2>1, <2>3 DEF AnswerOf, TypeOK, threadVars
<1> QED
  BY TakeCases, <1>1, <1>2, <1>3, <1>4, <1>5

\* A thread registers for a leg and sends the command.
LEMMA BeginTypes ==
  ASSUME TypeOK, Table, NEW l \in Loads, NEW g \in Legs, Begin(l, g),
         thread[l] \in {"new", "between"}
  PROVE  TypeOK'
<1> USE Apart, PlaceNames
<1>1. result[l] = "none" /\ result[l] \in Results
  <2>1. thread[l] # "done"
    OBVIOUS
  <2> QED BY <2>1, Types
<1>2. g \in Places /\ g # "done"
  OBVIOUS
<1>3. /\ thread' \in [Loads -> Places] /\ result' \in [Loads -> Results]
      /\ thread'[l] = g /\ \A m \in Loads : m # l => thread'[m] = thread[m]
      /\ \A m \in Loads : thread'[m] = "done" <=> result'[m] # "none"
  BY <1>1, <1>2, WentOn DEF Begin, Goto
<1>4. /\ tag' \in [Legs -> Loads \cup {None}] /\ tag'[g] = l
      /\ \A h \in Legs : h # g => tag'[h] = tag[h]
  BY Types DEF Begin
<1>5. queue' \in Seq(Loads \X Legs)
  <2>1. queue \in Seq(Loads \X Legs) /\ queue' = Append(queue, <<l, g>>)
    BY Types DEF Begin
  <2>2. <<l, g>> \in Loads \X Legs
    OBVIOUS
  <2> QED BY <2>1, <2>2, Appended
<1>6. ASSUME NEW m \in Loads, mail'[m] # None
      PROVE  thread'[m] \in Legs /\ tag'[thread'[m]] # m
  <2>1. thread[m] \in Legs /\ tag[thread[m]] # m
    BY <1>6, Types DEF Begin
  <2>2. m # l
    BY <2>1
  <2> QED BY <1>3, <1>4, <2>1, <2>2
<1> QED
  BY <1>3, <1>4, <1>5, <1>6 DEF Begin, TypeOK, contractVars

\* A thread that does not wait leaves no letter behind.
LEMMA NoMail ==
  ASSUME TypeOK, NEW l \in Loads, thread[l] \notin Legs
  PROVE  mail[l] = None
BY Types

\* A thread that is without a letter answers its client, or goes on to a place
\* where it waits for none.
LEMMA GoneOn ==
  ASSUME TypeOK, NEW l \in Loads, mail[l] = None, NEW p \in Places \ Legs, NEW r \in Results,
         thread' = [thread EXCEPT ![l] = p],
         result' = [result EXCEPT ![l] = r] \/ (result' = result /\ r = result[l]),
         p = "done" <=> r # "none",
         \/ tag' = tag
         \/ \E g \in Legs : tag' = [tag EXCEPT ![g] = None],
         got' \in [Loads -> [Legs -> Bot!Answer \cup {None}]], calm' \in BOOLEAN,
         UNCHANGED <<mail, queue, owner>>
  PROVE  TypeOK'
<1> USE Apart, PlaceNames
<1>1. /\ thread' \in [Loads -> Places] /\ result' \in [Loads -> Results]
      /\ thread'[l] = p /\ \A m \in Loads : m # l => thread'[m] = thread[m]
      /\ \A m \in Loads : thread'[m] = "done" <=> result'[m] # "none"
  BY WentOn
<1>2. /\ tag' \in [Legs -> Loads \cup {None}]
      /\ \A h \in Legs : tag'[h] = tag[h] \/ tag'[h] = None
  BY Types
<1>3. ASSUME NEW m \in Loads, mail'[m] # None
      PROVE  thread'[m] \in Legs /\ tag'[thread'[m]] # m
  <2>1. m # l /\ thread[m] \in Legs /\ tag[thread[m]] # m
    BY <1>3, Types
  <2>2. thread'[m] = thread[m]
    BY <1>1, <2>1
  <2>3. tag'[thread[m]] = tag[thread[m]] \/ tag'[thread[m]] = None
    BY <1>2, <2>1
  <2> QED BY <2>1, <2>2, <2>3
<1> QED
  BY <1>1, <1>2, <1>3, Types DEF TypeOK

LEMMA ThreadTypes ==
  ASSUME TypeOK, Table, NEW l \in Loads, Thread(l)
  PROVE  TypeOK'
<1> USE PlaceNames
<1>0. \A r \in {"409", "503", "504", "input_failed", "furnace_loaded", "partially_loaded"} :
        r \in Results /\ r # "none"
  BY DEF Results
<1>1. CASE Input(l)
  BY <1>1, BeginTypes DEF Input
<1>2. CASE InputBusy(l)
  BY <1>0, <1>2, NoMail, GoneOn, Types DEF InputBusy, Respond, Goto
<1>3. CASE Receive(l)
  <2>1. mail[l] \in Bot!Answer /\ thread[l] \in Legs /\ tag[thread[l]] # l
    BY <1>3, Types DEF Receive
  <2>2. got' \in [Loads -> [Legs -> Bot!Answer \cup {None}]]
    BY <1>3, <2>1, GotOne DEF Receive
  <2>3. PICK p \in {"input left", "fuel left"} : thread' = [thread EXCEPT ![l] = p]
    BY <1>3 DEF Receive, Goto
  <2>4. result[l] = "none" /\ result' = result /\ result[l] \in Results
    BY <1>3, <2>1, Types DEF Receive
  <2>5. /\ thread' \in [Loads -> Places] /\ result' \in [Loads -> Results]
        /\ thread'[l] = p /\ \A m \in Loads : m # l => thread'[m] = thread[m]
        /\ \A m \in Loads : thread'[m] = "done" <=> result'[m] # "none"
    BY <2>3, <2>4, WentOn
  <2>6. mail' \in [Loads -> Bot!Answer \cup {None}] /\ mail'[l] = None
        /\ \A m \in Loads : m # l => mail'[m] = mail[m]
    BY <1>3, Types DEF Receive
  <2>7. \A m \in Loads : mail'[m] # None => thread'[m] \in Legs /\ tag'[thread'[m]] # m
    BY <1>3, <2>5, <2>6, Types DEF Receive
  <2> QED
    BY <1>3, <2>2, <2>5, <2>6, <2>7 DEF Receive, TypeOK, contractVars
<1>4. ASSUME NEW error \in {"503", "504"}, WithoutAnswer(l, error) PROVE TypeOK'
  <2>1. mail[l] = None /\ thread[l] \in Legs /\ tag' = [tag EXCEPT ![thread[l]] = None]
        /\ calm' = FALSE /\ UNCHANGED <<mail, queue, owner>>
    BY <1>4 DEF WithoutAnswer
  <2>2. PICK r \in Results \ {"none"} :
          thread' = [thread EXCEPT ![l] = "done"] /\ result' = [result EXCEPT ![l] = r]
    BY <1>0, <1>4, LoadedIsResult DEF WithoutAnswer, Respond, Goto
  <2>3. got' \in [Loads -> [Legs -> Bot!Answer \cup {None}]]
    <3>1. CASE thread[l] = "input"
      BY <1>4, <3>1, Types DEF WithoutAnswer
    <3>2. CASE thread[l] # "input"
      BY <1>4, <3>2, GotOne, Apart DEF WithoutAnswer
    <3> QED BY <3>1, <3>2
  <2> QED BY <2>1, <2>2, <2>3, GoneOn
<1>5. GiveUp(l) \/ Disconnected(l) => TypeOK'
  BY <1>4 DEF GiveUp, Disconnected
<1>6. CASE LeaveInput(l)
  <2>1. mail[l] = None /\ result[l] = "none"
    BY <1>6, NoMail, Types DEF LeaveInput
  <2>2. /\ tag' = [tag EXCEPT !["input"] = None] /\ calm' \in BOOLEAN
        /\ UNCHANGED <<mail, queue, owner, got>>
    BY <1>6 DEF LeaveInput, Cancel
  <2>3. CASE Ok(got[l]["input"])
    <3>1. thread' = [thread EXCEPT ![l] = "between"] /\ result' = result
      BY <1>6, <2>3 DEF LeaveInput, AfterInput, Goto
    <3>2. got' \in [Loads -> [Legs -> Bot!Answer \cup {None}]] /\ result[l] \in Results
      BY <2>2, Types
    <3>3. "between" \in Places \ Legs
      OBVIOUS
    <3> QED BY <2>1, <2>2, <3>1, <3>2, <3>3, GoneOn
  <2>4. CASE ~Ok(got[l]["input"])
    <3>1. thread' = [thread EXCEPT ![l] = "done"] /\ result' = [result EXCEPT ![l] = "input_failed"]
      BY <1>6, <2>4 DEF LeaveInput, AfterInput, Respond, Goto
    <3>2. got' \in [Loads -> [Legs -> Bot!Answer \cup {None}]]
      BY <2>2, Types
    <3>3. "done" \in Places \ Legs
      OBVIOUS
    <3> QED BY <1>0, <2>1, <2>2, <3>1, <3>2, <3>3, GoneOn
  <2> QED BY <2>3, <2>4
<1>7. CASE Fuel(l)
  BY <1>7, BeginTypes DEF Fuel
<1>8. CASE FuelBusy(l)
  <2>1. got' \in [Loads -> [Legs -> Bot!Answer \cup {None}]]
    BY <1>8, GotOne, Apart DEF FuelBusy
  <2>2. PICK r \in Results \ {"none"} :
          thread' = [thread EXCEPT ![l] = "done"] /\ result' = [result EXCEPT ![l] = r]
    BY <1>0, <1>8, LoadedIsResult DEF FuelBusy, Respond, Goto
  <2>3. mail[l] = None /\ calm' \in BOOLEAN /\ tag' = tag /\ UNCHANGED <<mail, queue, owner>>
    BY <1>8, NoMail, Types DEF FuelBusy
  <2> QED BY <2>1, <2>2, <2>3, GoneOn
<1>9. CASE LeaveFuel(l)
  <2>1. mail[l] = None
    BY <1>9, NoMail DEF LeaveFuel
  <2>2. PICK r \in Results \ {"none"} :
          thread' = [thread EXCEPT ![l] = "done"] /\ result' = [result EXCEPT ![l] = r]
    BY <1>0, <1>9, LoadedIsResult DEF LeaveFuel, Respond, Goto
  <2>3. /\ tag' = [tag EXCEPT !["fuel"] = None] /\ calm' \in BOOLEAN
        /\ UNCHANGED <<mail, queue, owner, got>>
    BY <1>9 DEF LeaveFuel, Cancel
  <2> QED BY <2>1, <2>2, <2>3, GoneOn, Types
<1> QED
  BY <1>1, <1>2, <1>3, <1>5, <1>6, <1>7, <1>8, <1>9 DEF Thread

-----------------------------------------------------------------------------
(* The transfers *)

LEMMA ContractTypes ==
  ASSUME Contract
  PROVE  /\ job \in 0..MaxJobs /\ job \in Nat
         /\ requested \in [1..MaxJobs -> Nat] /\ actual \in [1..MaxJobs -> Nat]
         /\ answer \in [1..MaxJobs -> Bot!Answer \cup {Bot!Open}]
BY Apart DEF Contract

LEMMA AcceptStep ==
  ASSUME Contract, NEW n \in 1..MaxRequest, Bot!Accept(n)
  PROVE  Contract'
<1> USE Apart
<1>1. /\ job' = job + 1 /\ job \in Nat /\ job + 1 \in 1..MaxJobs
      /\ requested' = [requested EXCEPT ![job + 1] = n]
      /\ actual' = actual /\ answer' = answer /\ n \in Nat /\ n > 0
  BY DEF Contract, Bot!Accept
<1>2. requested' \in [1..MaxJobs -> Nat] /\ \A j \in 1..job : requested'[j] = requested[j]
  BY <1>1, ContractTypes
<1>3. requested'[job + 1] = n
  BY <1>1, ContractTypes
<1>4. \A j \in 1..job' : j \in 1..job \/ j = job + 1
  BY <1>1
<1>5. ASSUME NEW j \in 1..job'
      PROVE  requested'[j] > 0 /\ (answer'[j] # Bot!Open => Bot!Truthful(j, answer[j])')
  <2>1. CASE j \in 1..job
    <3>1. answer[j] # Bot!Open => Bot!Truthful(j, answer[j])
      BY <2>1 DEF Contract
    <3>2. requested'[j] > 0
      BY <1>2, <2>1 DEF Contract
    <3> QED BY <1>1, <1>2, <2>1, <3>1, <3>2 DEF Bot!Truthful
  <2>2. CASE j = job + 1
    <3>1. answer[j] = Bot!Open
      BY <1>1, <2>2 DEF Contract
    <3> QED BY <1>1, <1>3, <2>2, <3>1
  <2> QED BY <1>4, <2>1, <2>2
<1> QED
  BY <1>1, <1>2, <1>5, ContractTypes DEF Contract

LEMMA MoveStep ==
  ASSUME Contract, NEW j \in 1..job, NEW n \in 1..MaxRequest, Bot!Move(j, n)
  PROVE  /\ Contract' /\ answer' = answer /\ job' = job
         /\ \A i \in 1..MaxJobs : actual'[i] # actual[i] =>
              i = j /\ (answer[j] = Bot!Open \/ answer[j].unknown)
<1> USE Apart
<1>1. /\ job' = job /\ requested' = requested /\ answer' = answer
      /\ actual' = [actual EXCEPT ![j] = @ + n] /\ n \in Nat /\ j \in 1..MaxJobs
      /\ answer[j] = Bot!Open \/ answer[j].unknown
  BY JobIsJob DEF Bot!Move
<1>2. /\ actual' \in [1..MaxJobs -> Nat] /\ actual'[j] = actual[j] + n /\ actual[j] \in Nat
      /\ \A i \in 1..MaxJobs : i # j => actual'[i] = actual[i]
  BY <1>1, ContractTypes
<1>3. ASSUME NEW i \in 1..job, answer[i] # Bot!Open PROVE Bot!Truthful(i, answer[i])'
  <2>1. Bot!Truthful(i, answer[i])
    BY <1>3 DEF Contract
  <2>2. i \in 1..MaxJobs
    BY JobIsJob
  <2>3. CASE i # j
    BY <1>1, <1>2, <2>1, <2>2, <2>3 DEF Bot!Truthful
  <2>4. CASE i = j
    <3>1. answer[j].unknown
      BY <1>1, <1>3, <2>4
    <3>2. answer[j].confirmed <= actual[j] /\ answer[j].verdict \notin {"completed", "partial"}
      BY <2>1, <2>4, <3>1 DEF Bot!Truthful
    <3>3. answer[j] \in Bot!Answer
      BY <1>3, <2>2, <2>4, ContractTypes
    <3>4. answer[j].confirmed \in Nat
      BY <3>3 DEF Bot!Answer
    <3>5. answer[j].confirmed <= actual'[j]
      BY <1>1, <1>2, <3>2, <3>4
    <3> QED BY <1>1, <2>4, <3>1, <3>2, <3>5 DEF Bot!Truthful
  <2> QED BY <2>3, <2>4
<1>4. Contract'
  BY <1>1, <1>2, <1>3 DEF Contract
<1> QED
  BY <1>1, <1>2, <1>4

LEMMA ReplyStep ==
  ASSUME Contract, NEW j \in 1..job, NEW a \in Bot!Answer, Bot!Reply(j, a)
  PROVE  /\ Contract' /\ answer[j] = Bot!Open /\ answer'[j] = a
         /\ \A i \in 1..MaxJobs : i # j => answer'[i] = answer[i]
         /\ UNCHANGED <<job, requested, actual>>
<1> USE Apart
<1>1. /\ job' = job /\ requested' = requested /\ actual' = actual /\ j \in 1..MaxJobs
      /\ answer' = [answer EXCEPT ![j] = a] /\ answer[j] = Bot!Open /\ Bot!Truthful(j, a)
  BY JobIsJob DEF Bot!Reply
<1>2. /\ answer' \in [1..MaxJobs -> Bot!Answer \cup {Bot!Open}] /\ answer'[j] = a
      /\ \A i \in 1..MaxJobs : i # j => answer'[i] = answer[i]
  BY <1>1, ContractTypes
<1>3. ASSUME NEW i \in 1..job, answer'[i] # Bot!Open PROVE Bot!Truthful(i, answer[i])'
  <2>1. i \in 1..MaxJobs
    BY JobIsJob
  <2>2. CASE i = j
    BY <1>1, <1>2, <2>2 DEF Bot!Truthful
  <2>3. CASE i # j
    <3>1. answer[i] # Bot!Open /\ answer'[i] = answer[i]
      BY <1>2, <1>3, <2>1, <2>3
    <3>2. Bot!Truthful(i, answer[i])
      BY <3>1 DEF Contract
    <3> QED BY <1>1, <3>1, <3>2 DEF Bot!Truthful
  <2> QED BY <2>2, <2>3
<1>4. \A i \in 1..MaxJobs : i > job => answer'[i] = Bot!Open
  <2>1. job \in Nat
    BY ContractTypes
  <2>2. \A i \in 1..MaxJobs : i > job => i # j
    BY <2>1
  <2> QED BY <1>2, <2>2 DEF Contract
<1>5. Contract'
  BY <1>1, <1>2, <1>3, <1>4 DEF Contract
<1> QED
  BY <1>1, <1>2, <1>5

-----------------------------------------------------------------------------
(* Commands and the transfers they become *)

LEMMA OnceFacts ==
  ASSUME Once
  PROVE  /\ \A i, k \in 1..Len(queue) : queue[i] = queue[k] => i = k
         /\ \A i, j \in 1..job : owner[i] # None /\ owner[i] = owner[j] => i = j
         /\ \A j \in 1..MaxJobs : j > job => owner[j] = None
         /\ \A l \in Loads, g \in Legs : InQueue(l, g) => JobsOf(l, g) = {}
BY DEF Once

\* The first command becomes the newest transfer.
LEMMA Accepted ==
  ASSUME TypeOK, Contract, Once, TakeAccepts
  PROVE  \E l \in Loads, g \in Legs :
           /\ InQueue(l, g) /\ ~InQueue(l, g)'
           /\ JobsOf(l, g) = {} /\ JobsOf(l, g)' = {job + 1}
           /\ \A m \in Loads, h \in Legs :
                /\ m # l \/ h # g => JobsOf(m, h)' = JobsOf(m, h)
                /\ InQueue(m, h)' => InQueue(m, h)
           /\ Once'
<1> USE Apart
<1>1. PICK l \in Loads, g \in Legs : Head(queue) = <<l, g>> /\ InQueue(l, g) /\ ~InQueue(l, g)'
  BY Dequeued, OnceFacts, Types DEF TakeAccepts
<1>2. /\ \A m \in Loads, h \in Legs : InQueue(m, h)' => InQueue(m, h)
      /\ \A i, k \in 1..Len(queue') : queue'[i] = queue'[k] => i = k
  BY Dequeued, OnceFacts, Types DEF TakeAccepts
<1>3. job' = job + 1 /\ job \in Nat /\ job + 1 \in 1..MaxJobs
  BY ContractTypes DEF TakeAccepts, Bot!Accept
<1>4. owner' = [owner EXCEPT ![job + 1] = <<l, g>>]
  BY <1>1 DEF TakeAccepts
<1>5. /\ owner'[job + 1] = <<l, g>>
      /\ \A j \in 1..MaxJobs : j # job + 1 => owner'[j] = owner[j]
  BY <1>3, <1>4, Types
<1>6. JobsOf(l, g) = {}
  BY <1>1, OnceFacts
<1>7. \A j \in 1..job : owner[j] # <<l, g>>
  BY <1>6 DEF JobsOf
<1>8. \A j : j \in 1..job' <=> j \in 1..job \/ j = job + 1
  BY <1>3
<1>9. \A j \in 1..job : j \in 1..MaxJobs /\ j # job + 1 /\ owner'[j] = owner[j]
  BY <1>3, <1>5
<1>10. JobsOf(l, g)' = {job + 1}
  BY <1>5, <1>7, <1>8, <1>9 DEF JobsOf
<1>11. ASSUME NEW m \in Loads, NEW h \in Legs, m # l \/ h # g
       PROVE  JobsOf(m, h)' = JobsOf(m, h)
  <2>1. <<m, h>> # <<l, g>>
    BY <1>11
  <2> QED BY <1>5, <1>8, <1>9, <2>1 DEF JobsOf
<1>12. Once'
  <2>1. \A i, j \in 1..job' : owner'[i] # None /\ owner'[i] = owner'[j] => i = j
    BY <1>5, <1>7, <1>8, <1>9, OnceFacts
  <2>2. \A j \in 1..MaxJobs : j > job' => owner'[j] = None
    <3>1. \A j \in 1..MaxJobs : j > job' => j > job /\ j # job + 1
      BY <1>3
    <3> QED BY <1>5, <3>1, OnceFacts
  <2>3. \A m \in Loads, h \in Legs : InQueue(m, h)' => JobsOf(m, h)' = {}
    BY <1>1, <1>2, <1>11, OnceFacts
  <2> QED BY <1>2, <2>1, <2>2, <2>3 DEF Once
<1> QED
  BY <1>1, <1>2, <1>6, <1>10, <1>11, <1>12

\* The first command leaves without a transfer.
LEMMA RefusedOnce ==
  ASSUME TypeOK, Once, TakeRefuses
  PROVE  \E l \in Loads, g \in Legs :
           /\ Head(queue) = <<l, g>>
           /\ InQueue(l, g) /\ ~InQueue(l, g)' /\ JobsOf(l, g) = {}
           /\ \A m \in Loads, h \in Legs :
                /\ JobsOf(m, h)' = JobsOf(m, h)
                /\ InQueue(m, h)' => InQueue(m, h)
           /\ Once'
<1>1. PICK l \in Loads, g \in Legs : Head(queue) = <<l, g>> /\ InQueue(l, g) /\ ~InQueue(l, g)'
  BY Dequeued, OnceFacts, Types DEF TakeRefuses
<1>2. /\ \A m \in Loads, h \in Legs : InQueue(m, h)' => InQueue(m, h)
      /\ \A i, k \in 1..Len(queue') : queue'[i] = queue'[k] => i = k
  BY Dequeued, OnceFacts, Types DEF TakeRefuses
<1>3. job' = job /\ owner' = owner
  BY DEF TakeRefuses, contractVars
<1>4. \A m \in Loads, h \in Legs : JobsOf(m, h)' = JobsOf(m, h)
  BY <1>3 DEF JobsOf
<1>5. Once'
  BY <1>2, <1>3, <1>4, OnceFacts DEF Once
<1> QED
  BY <1>1, <1>2, <1>4, <1>5, OnceFacts

\* A leg that was not tried is tried.
LEMMA BegunOnce ==
  ASSUME TypeOK, Once, NEW l \in Loads, NEW g \in Legs, Begin(l, g), Untried(l, g)
  PROVE  /\ InQueue(l, g)'
         /\ \A m \in Loads, h \in Legs :
              /\ JobsOf(m, h)' = JobsOf(m, h)
              /\ m # l \/ h # g => (InQueue(m, h)' <=> InQueue(m, h))
         /\ Once'
<1>1. /\ InQueue(l, g)'
      /\ \A m \in Loads, h \in Legs : (m # l \/ h # g) => (InQueue(m, h)' <=> InQueue(m, h))
      /\ \A i, k \in 1..Len(queue') : queue'[i] = queue'[k] => i = k
  BY Queued, OnceFacts, Types DEF Begin, Untried
<1>2. job' = job /\ owner' = owner
  BY DEF Begin, contractVars
<1>3. \A m \in Loads, h \in Legs : JobsOf(m, h)' = JobsOf(m, h)
  BY <1>2 DEF JobsOf
<1>4. Once'
  BY <1>1, <1>2, <1>3, OnceFacts DEF Once, Untried
<1> QED
  BY <1>1, <1>3, <1>4

\* A step that neither queues nor takes a command.
LEMMA KeptOnce ==
  ASSUME TypeOK, Contract, Once, UNCHANGED <<queue, owner>>,
         job' = job \/ \E n \in 1..MaxRequest : Bot!Accept(n)
  PROVE  /\ \A m \in Loads, h \in Legs :
              JobsOf(m, h)' = JobsOf(m, h) /\ (InQueue(m, h)' <=> InQueue(m, h))
         /\ Once'
<1> USE Apart
<1>1. \A m \in Loads, h \in Legs : InQueue(m, h)' <=> InQueue(m, h)
  BY DEF InQueue
<1>2. CASE job' = job
  <2>1. \A m \in Loads, h \in Legs : JobsOf(m, h)' = JobsOf(m, h)
    BY <1>2 DEF JobsOf
  <2> QED BY <1>1, <1>2, <2>1, OnceFacts DEF Once
<1>3. CASE \E n \in 1..MaxRequest : Bot!Accept(n)
  <2>1. job' = job + 1 /\ job \in Nat /\ job + 1 \in 1..MaxJobs
    BY <1>3, ContractTypes DEF Bot!Accept
  <2>2. owner[job + 1] = None
    BY <2>1, OnceFacts
  <2>3. \A j : j \in 1..job' <=> j \in 1..job \/ j = job + 1
    BY <2>1
  <2>4. ASSUME NEW m \in Loads, NEW h \in Legs PROVE JobsOf(m, h)' = JobsOf(m, h)
    <3>1. <<m, h>> # None
      OBVIOUS
    <3> QED BY <2>2, <2>3, <3>1 DEF JobsOf
  <2>5. \A i, j \in 1..job' : owner'[i] # None /\ owner'[i] = owner'[j] => i = j
    BY <2>2, <2>3, OnceFacts
  <2>6. \A j \in 1..MaxJobs : j > job' => owner'[j] = None
    BY <2>1, OnceFacts
  <2> QED BY <1>1, <2>4, <2>5, <2>6, OnceFacts DEF Once
<1> QED
  BY <1>2, <1>3

-----------------------------------------------------------------------------
(* The course of a thread *)

LEMMA BotOnce ==
  ASSUME TypeOK, Contract, Once, Take \/ Other \/ Move \/ Answer
  PROVE  /\ Contract' /\ Once' /\ UNCHANGED threadVars
         /\ \A m \in Loads, h \in Legs : Untried(m, h) => Untried(m, h)'
<1>1. CASE TakeAccepts
  <2>1. Contract'
    BY <1>1, AcceptStep DEF TakeAccepts
  <2>2. Once' /\ \A m \in Loads, h \in Legs : Untried(m, h) => Untried(m, h)'
    BY <1>1, Accepted DEF Untried
  <2> QED BY <1>1, <2>1, <2>2 DEF TakeAccepts
<1>2. CASE TakeRefuses
  <2>1. Contract'
    BY <1>2 DEF TakeRefuses, contractVars, Contract, Bot!Truthful
  <2>2. Once' /\ \A m \in Loads, h \in Legs : Untried(m, h) => Untried(m, h)'
    BY <1>2, RefusedOnce DEF Untried
  <2> QED BY <1>2, <2>1, <2>2 DEF TakeRefuses
<1>3. CASE Other
  BY <1>3, AcceptStep, KeptOnce DEF Other, Untried
<1>4. CASE Move
  BY <1>4, MoveStep, KeptOnce DEF Move, Untried
<1>5. CASE Answer
  <2>1. PICK j \in 1..job, a \in Bot!Answer : AnswerOf(j, a)
    BY <1>5, AnswerCases
  <2>2. Contract' /\ job' = job
    BY <2>1, ReplyStep DEF AnswerOf
  <2> QED BY <2>1, <2>2, KeptOnce DEF AnswerOf, Untried
<1> QED
  BY TakeCases, <1>1, <1>2, <1>3, <1>4, <1>5

LEMMA BotCourse ==
  ASSUME TypeOK, Contract, Once, Course, Take \/ Other \/ Move \/ Answer
  PROVE  Course'
<1> SUFFICES ASSUME NEW l \in Loads PROVE CourseOf(l)'
  BY DEF Course
<1>1. /\ thread' = thread /\ got' = got /\ result' = result
      /\ \A h \in Legs : Untried(l, h) => Untried(l, h)'
  BY BotOnce DEF threadVars
<1>2. /\ Untried(l, "input") => Untried(l, "input")'
      /\ Untried(l, "fuel") => Untried(l, "fuel")'
  BY <1>1 DEF Legs
<1>3. InputDone(l)' <=> InputDone(l)
  BY <1>1 DEF InputDone
<1>4. CourseOf(l)
  BY DEF Course
<1> QED
  BY <1>1, <1>2, <1>3, <1>4 DEF CourseOf

\* The state of a thread before and after its step.
LEMMA ThreadOnce ==
  ASSUME TypeOK, Contract, Once, Course, NEW l \in Loads, Thread(l)
  PROVE  /\ Contract' /\ Once' /\ UNCHANGED contractVars
         /\ \A m \in Loads : m # l =>
              thread'[m] = thread[m] /\ got'[m] = got[m] /\ result'[m] = result[m]
         /\ \A m \in Loads, h \in Legs :
              /\ JobsOf(m, h)' = JobsOf(m, h)
              /\ m # l => (InQueue(m, h)' <=> InQueue(m, h))
<1>1. UNCHANGED contractVars /\ UNCHANGED owner
  BY DEF Thread, Input, InputBusy, Receive, GiveUp, Disconnected, WithoutAnswer, LeaveInput, Fuel,
         FuelBusy, LeaveFuel, Begin
<1>2. Contract'
  BY <1>1 DEF contractVars, Contract, Bot!Truthful
<1>3. \A m \in Loads : m # l =>
        thread'[m] = thread[m] /\ got'[m] = got[m] /\ result'[m] = result[m]
  BY Types DEF Thread, Input, InputBusy, Receive, GiveUp, Disconnected, WithoutAnswer, LeaveInput,
         AfterInput, Fuel, FuelBusy, LeaveFuel, Begin, Respond, Goto
<1>4. CASE Input(l)
  <2>1. Untried(l, "input") /\ Begin(l, "input") /\ "input" \in Legs
    BY <1>4 DEF Input, Course, CourseOf, Legs
  <2> QED BY <1>1, <1>2, <1>3, <2>1, BegunOnce
<1>5. CASE Fuel(l)
  <2>1. Untried(l, "fuel") /\ Begin(l, "fuel") /\ "fuel" \in Legs
    BY <1>5 DEF Fuel, Course, CourseOf, Legs
  <2> QED BY <1>1, <1>2, <1>3, <2>1, BegunOnce
<1>6. CASE ~Input(l) /\ ~Fuel(l)
  <2>1. queue' = queue
    BY <1>6 DEF Thread, InputBusy, Receive, GiveUp, Disconnected, WithoutAnswer, LeaveInput,
                FuelBusy, LeaveFuel
  <2> QED BY <1>1, <1>2, <1>3, <2>1, KeptOnce DEF contractVars
<1> QED
  BY <1>4, <1>5, <1>6

\* Threads other than the one that goes on keep their course.
LEMMA OthersCourse ==
  ASSUME TypeOK, Contract, Once, Course, NEW l \in Loads, Thread(l), CourseOf(l)'
  PROVE  Course'
<1> SUFFICES ASSUME NEW m \in Loads, m # l PROVE CourseOf(m)'
  BY DEF Course
<1>1. /\ thread'[m] = thread[m] /\ got'[m] = got[m] /\ result'[m] = result[m]
      /\ \A h \in Legs : Untried(m, h)' <=> Untried(m, h)
  BY ThreadOnce DEF Untried
<1>2. (Untried(m, "input")' <=> Untried(m, "input")) /\ (Untried(m, "fuel")' <=> Untried(m, "fuel"))
  BY <1>1 DEF Legs
<1>3. InputDone(m)' <=> InputDone(m)
  BY <1>1 DEF InputDone
<1>4. CourseOf(m)
  BY DEF Course
<1> QED
  BY <1>1, <1>2, <1>3, <1>4 DEF CourseOf

LEMMA Received ==
  ASSUME TypeOK, NEW l \in Loads, Receive(l)
  PROVE  /\ thread[l] \in Legs /\ mail[l] \in Bot!Answer /\ mail[l] # None
         /\ got'[l][thread[l]] = mail[l]
         /\ \A m \in Loads, h \in Legs : m # l \/ h # thread[l] => got'[m][h] = got[m][h]
         /\ mail'[l] = None /\ \A m \in Loads : m # l => mail'[m] = mail[m]
<1>1. mail \in [Loads -> Bot!Answer \cup {None}] /\ mail[l] # None
  BY Types DEF Receive
<1>2. mail[l] \in Bot!Answer /\ thread[l] \in Legs
  BY <1>1, Types
<1>3. got' = [got EXCEPT ![l][thread[l]] = mail[l]] /\ mail' = [mail EXCEPT ![l] = None]
  BY DEF Receive
<1>4. /\ got'[l][thread[l]] = mail[l]
      /\ \A m \in Loads, h \in Legs : m # l \/ h # thread[l] => got'[m][h] = got[m][h]
  <2>1. got \in [Loads -> [Legs -> Bot!Answer \cup {None}]]
    BY Types
  <2>2. got[l] \in [Legs -> Bot!Answer \cup {None}]
    BY <2>1
  <2> DEFINE new == [got[l] EXCEPT ![thread[l]] = mail[l]]
  <2>3. new[thread[l]] = mail[l] /\ \A h \in Legs : h # thread[l] => new[h] = got[l][h]
    BY <1>2, <2>2
  <2>4. got' = [got EXCEPT ![l] = new]
    BY <1>3
  <2> HIDE DEF new
  <2> QED BY <2>1, <2>3, <2>4
<1>5. mail'[l] = None /\ \A m \in Loads : m # l => mail'[m] = mail[m]
  BY <1>1, <1>3
<1> QED
  BY <1>1, <1>2, <1>4, <1>5

LEMMA ThreadCourse ==
  ASSUME TypeOK, Contract, Once, Course, NEW l \in Loads, Thread(l)
  PROVE  Course'
<1> USE Apart, PlaceNames
<1> SUFFICES CourseOf(l)'
  BY OthersCourse
<1>0. CourseOf(l)
  BY DEF Course
<1>a. /\ thread \in [Loads -> Places] /\ result \in [Loads -> Results]
      /\ got \in [Loads -> [Legs -> Bot!Answer \cup {None}]]
      /\ mail \in [Loads -> Bot!Answer \cup {None}]
      /\ thread[l] # "done" => result[l] = "none"
  BY Types
<1>b. queue' = queue => \A h \in Legs : Untried(l, h)' <=> Untried(l, h)
  BY ThreadOnce DEF Untried, InQueue
<1>1. CASE Input(l)
  <2>1. thread'[l] = "input" /\ got' = got /\ result' = result /\ thread[l] = "new"
    BY <1>1, <1>a DEF Input, Begin, Goto
  <2>2. Untried(l, "fuel")'
    <3>1. Untried(l, "input") /\ Untried(l, "fuel")
      BY <1>0, <2>1 DEF CourseOf
    <3> QED BY <1>1, <3>1, BegunOnce DEF Input, Untried
  <2>3. got[l]["input"] = None /\ got[l]["fuel"] = None
    BY <1>0, <2>1 DEF CourseOf
  <2> QED BY <1>a, <2>1, <2>2, <2>3 DEF CourseOf
<1>2. CASE InputBusy(l)
  <2>1. thread'[l] = "done" /\ got' = got /\ result'[l] = "409" /\ thread[l] = "new" /\ queue' = queue
    BY <1>2, <1>a DEF InputBusy, Respond, Goto
  <2>2. Untried(l, "fuel")'
    BY <1>0, <1>b, <2>1 DEF CourseOf
  <2> QED BY <2>1, <2>2 DEF CourseOf
<1>3. CASE Receive(l)
  <2>1. /\ thread[l] \in Legs /\ mail[l] \in Bot!Answer /\ mail[l] # None
        /\ queue' = queue /\ result' = result /\ got' = [got EXCEPT ![l][thread[l]] = mail[l]]
    <3>1. mail[l] # None /\ mail[l] \in Bot!Answer \cup {None}
      BY <1>3, <1>a DEF Receive
    <3>2. thread[l] \in Legs
      BY <3>1, Types
    <3> QED BY <1>3, <3>1, <3>2 DEF Receive
  <2>2. /\ got'[l][thread[l]] = mail[l]
        /\ \A h \in Legs : h # thread[l] => got'[l][h] = got[l][h]
    BY <1>3, Received
  <2>3. result'[l] = "none"
    BY <1>a, <2>1
  <2>4. CASE thread[l] = "input"
    <3>1. thread'[l] = "input left"
      BY <1>3, <1>a, <2>4 DEF Receive, Goto
    <3>2. Untried(l, "fuel")' /\ got'[l]["fuel"] = None
      BY <1>0, <1>b, <2>1, <2>2, <2>4 DEF CourseOf
    <3> QED BY <2>1, <2>2, <2>3, <2>4, <3>1, <3>2 DEF CourseOf
  <2>5. CASE thread[l] = "fuel"
    <3>1. thread'[l] = "fuel left"
      BY <1>3, <1>a, <2>5 DEF Receive, Goto
    <3>2. InputDone(l)'
      BY <1>0, <2>2, <2>5 DEF CourseOf, InputDone
    <3> QED BY <2>1, <2>2, <2>3, <2>5, <3>1, <3>2 DEF CourseOf
  <2> QED BY <2>1, <2>4, <2>5
<1>4. ASSUME NEW error \in {"503", "504"}, WithoutAnswer(l, error) PROVE CourseOf(l)'
  <2>1. thread'[l] = "done" /\ queue' = queue
    BY <1>4, <1>a DEF WithoutAnswer, Respond, Goto
  <2>2. CASE thread[l] = "input"
    <3>1. result'[l] = error /\ got' = got
      BY <1>4, <1>a, <2>2 DEF WithoutAnswer, Respond
    <3>2. Untried(l, "fuel")'
      BY <1>0, <1>b, <2>1, <2>2 DEF CourseOf
    <3> QED BY <2>1, <3>1, <3>2 DEF CourseOf
  <2>3. CASE thread[l] = "fuel"
    <3>1. result'[l] = Loaded(got'[l]) /\ got' = [got EXCEPT ![l]["fuel"] = Refused]
      BY <1>4, <1>a, <2>3 DEF WithoutAnswer, Respond
    <3>2. got'[l]["fuel"] = Refused /\ got'[l]["input"] = got[l]["input"]
      BY <3>1, GotOne
    <3>3. result'[l] = "partially_loaded"
      BY <3>1, <3>2 DEF Loaded
    <3>4. InputDone(l)'
      BY <1>0, <2>3, <3>2 DEF CourseOf, InputDone
    <3> QED BY <2>1, <3>3, <3>4 DEF CourseOf
  <2> QED BY <1>4, <2>2, <2>3 DEF WithoutAnswer
<1>5. GiveUp(l) \/ Disconnected(l) => CourseOf(l)'
  BY <1>4 DEF GiveUp, Disconnected
<1>6. CASE LeaveInput(l)
  <2>1. got' = got /\ queue' = queue /\ thread[l] = "input left"
    BY <1>6 DEF LeaveInput
  <2>2. Untried(l, "fuel")' /\ got[l]["input"] # None /\ got[l]["fuel"] = None
    BY <1>0, <1>b, <2>1 DEF CourseOf
  <2>3. CASE Ok(got[l]["input"])
    <3>1. thread'[l] = "between" /\ result'[l] = "none"
      BY <1>6, <1>a, <2>1, <2>3 DEF LeaveInput, AfterInput, Goto
    <3>2. InputDone(l)'
      BY <2>1, <2>2, <2>3 DEF InputDone
    <3> QED BY <2>1, <2>2, <3>1, <3>2 DEF CourseOf
  <2>4. CASE ~Ok(got[l]["input"])
    <3>1. thread'[l] = "done" /\ result'[l] = "input_failed"
      BY <1>6, <1>a, <2>1, <2>4 DEF LeaveInput, AfterInput, Respond, Goto
    <3> QED BY <2>1, <2>2, <2>4, <3>1 DEF CourseOf
  <2> QED BY <2>3, <2>4
<1>7. CASE Fuel(l)
  <2>1. thread'[l] = "fuel" /\ got' = got /\ result' = result /\ thread[l] = "between"
    BY <1>7, <1>a DEF Fuel, Begin, Goto
  <2>2. InputDone(l)' /\ got[l]["fuel"] = None
    BY <1>0, <2>1 DEF CourseOf, InputDone
  <2> QED BY <1>a, <2>1, <2>2 DEF CourseOf
<1>8. CASE FuelBusy(l)
  <2>1. /\ thread'[l] = "done" /\ result'[l] = Loaded(got'[l]) /\ thread[l] = "between"
        /\ got' = [got EXCEPT ![l]["fuel"] = Refused]
    BY <1>8, <1>a DEF FuelBusy, Respond, Goto
  <2>2. got'[l]["fuel"] = Refused /\ got'[l]["input"] = got[l]["input"]
    BY <2>1, GotOne
  <2>3. result'[l] = "partially_loaded"
    BY <2>1, <2>2 DEF Loaded
  <2>4. InputDone(l)'
    BY <1>0, <2>1, <2>2 DEF CourseOf, InputDone
  <2> QED BY <2>1, <2>3, <2>4 DEF CourseOf
<1>9. CASE LeaveFuel(l)
  <2>1. thread'[l] = "done" /\ result'[l] = Loaded(got[l]) /\ thread[l] = "fuel left" /\ got' = got
    BY <1>9, <1>a DEF LeaveFuel, Respond, Goto
  <2>2. InputDone(l)' /\ got[l]["fuel"] # None /\ got[l]["input"] # None
    BY <1>0, <2>1 DEF CourseOf, InputDone
  <2>3. result'[l] = "furnace_loaded" => Complete(got[l]["input"]) /\ Complete(got[l]["fuel"])
    BY <2>1 DEF Loaded
  <2>4. result'[l] # "input_failed"
    BY <2>1 DEF Loaded
  <2> QED BY <2>1, <2>2, <2>3, <2>4 DEF CourseOf
<1> QED
  BY <1>1, <1>2, <1>3, <1>5, <1>6, <1>7, <1>8, <1>9 DEF Thread

-----------------------------------------------------------------------------
(* Who waits, and what it hears: steps of the bot *)

\* No entry passes to another thread, and none survives its leg.
LEMMA ResolvedTags ==
  ASSUME TypeOK, Table, NEW g \in Legs, NEW a \in Bot!Answer, Resolve(g, a), UNCHANGED threadVars,
         NEW m \in Loads, NEW h \in Legs, tag'[h] = m
  PROVE  Waits(m, h)'
<1>1. h # g /\ tag[h] = m
  BY ResolveType, Apart
<1>2. Waits(m, h) /\ (tag[g] = m => Waits(m, g))
  BY <1>1 DEF Table
<1>3. tag[g] # m
  BY <1>1, <1>2 DEF Waits
<1>4. mail'[m] = mail[m]
  BY <1>3, ResolveType
<1> QED
  BY <1>2, <1>4 DEF Waits, threadVars

\* The thread that waits for the leg gets the answer, and nobody else does.
LEMMA ResolvedFor ==
  ASSUME TypeOK, Table, calm, NEW g \in Legs, NEW a \in Bot!Answer, Resolve(g, a),
         UNCHANGED threadVars, NEW l \in Loads, Waits(l, g)
  PROVE  /\ mail'[l] = a /\ thread[l] = g
         /\ \A m \in Loads : m # l => mail'[m] = mail[m]
         /\ \A m \in Loads, h \in Legs : m # l \/ h # g =>
              /\ Waits(m, h)' <=> Waits(m, h)
              /\ Waits(m, h) => h # g /\ tag'[h] = tag[h]
         /\ ~Waits(l, g)'
<1> USE Apart
<1>1. tag[g] = l /\ thread[l] = g /\ mail[l] = None
  BY DEF Table, Linked, Waits
<1>2. mail'[l] = a /\ \A m \in Loads : m # l => mail'[m] = mail[m]
  BY <1>1, ResolveType
<1>3. thread' = thread
  BY DEF threadVars
<1>4. ~Waits(l, g)'
  BY <1>2 DEF Waits
<1>5. ASSUME NEW m \in Loads, NEW h \in Legs, m # l \/ h # g
      PROVE  /\ Waits(m, h)' <=> Waits(m, h)
             /\ Waits(m, h) => h # g /\ tag'[h] = tag[h]
  <2>1. CASE m = l
    BY <1>1, <1>3, <1>5, <2>1 DEF Waits
  <2>2. CASE m # l
    <3>1. Waits(m, h)' <=> Waits(m, h)
      BY <1>2, <1>3, <2>2 DEF Waits
    <3>2. Waits(m, h) => tag[h] = m
      BY DEF Table, Linked
    <3>3. Waits(m, h) => h # g
      BY <1>1, <2>2, <3>2
    <3>4. h # g => tag'[h] = tag[h]
      BY ResolveType
    <3> QED BY <3>1, <3>3, <3>4
  <2> QED BY <2>1, <2>2
<1> QED
  BY <1>1, <1>2, <1>4, <1>5

\* What was told stays true while its transfers and answers stay.
LEMMA ToldStays ==
  ASSUME NEW l \in Loads, NEW g \in Legs, JobsOf(l, g)' = JobsOf(l, g),
         \A j \in JobsOf(l, g) : answer[j] # Bot!Open => answer'[j] = answer[j]
  PROVE  \A v \in Bot!Answer : Told(l, g, v) => Told(l, g, v)'
BY Apart DEF Told

LEMMA HeardStays ==
  ASSUME TypeOK, NEW l \in Loads, NEW g \in Legs, JobsOf(l, g)' = JobsOf(l, g),
         \A j \in JobsOf(l, g) : answer[j] # Bot!Open => answer'[j] = answer[j],
         HeardOf(l, g), got'[l][g] = got[l][g],
         thread'[l] = g => mail'[l] = None \/ (thread[l] = g /\ mail'[l] = mail[l])
  PROVE  HeardOf(l, g)'
<1>1. got[l][g] \in Bot!Answer \cup {None} /\ mail[l] \in Bot!Answer \cup {None}
  BY Types
<1>2. \A v \in Bot!Answer : Told(l, g, v) => Told(l, g, v)'
  BY ToldStays
<1>3. got'[l][g] # None => Told(l, g, got[l][g])'
  <2> SUFFICES ASSUME got'[l][g] # None PROVE Told(l, g, got[l][g])'
    OBVIOUS
  <2>1. Told(l, g, got[l][g]) /\ got[l][g] \in Bot!Answer
    BY <1>1 DEF HeardOf
  <2> QED BY <1>2, <2>1 DEF Told
<1>4. thread'[l] = g /\ mail'[l] # None => Told(l, g, mail[l])'
  <2> SUFFICES ASSUME thread'[l] = g, mail'[l] # None PROVE Told(l, g, mail[l])'
    OBVIOUS
  <2>1. thread[l] = g /\ mail'[l] = mail[l] /\ mail[l] # None
    OBVIOUS
  <2>2. Told(l, g, mail[l]) /\ mail[l] \in Bot!Answer
    BY <1>1, <2>1 DEF HeardOf
  <2> QED BY <1>2, <2>1, <2>2 DEF Told
<1> QED
  BY <1>3, <1>4 DEF HeardOf

LEMMA AcceptLinks ==
  ASSUME TypeOK, Contract, Once, Course, Table, Heard, TakeAccepts
  PROVE  Table' /\ Heard'
<1>1. PICK l \in Loads, g \in Legs :
        /\ InQueue(l, g) /\ ~InQueue(l, g)'
        /\ JobsOf(l, g) = {} /\ JobsOf(l, g)' = {job + 1}
        /\ \A m \in Loads, h \in Legs :
             /\ m # l \/ h # g => JobsOf(m, h)' = JobsOf(m, h)
             /\ InQueue(m, h)' => InQueue(m, h)
  BY Accepted
<1> USE Apart, PlaceNames
<1>2. /\ tag' = tag /\ mail' = mail /\ thread' = thread /\ got' = got /\ calm' = calm
      /\ answer' = answer /\ job \in Nat
  BY ContractTypes DEF TakeAccepts, threadVars, Bot!Accept
<1>3. \A m \in Loads, h \in Legs : Waits(m, h)' <=> Waits(m, h)
  BY <1>2 DEF Waits
<1>4. Table'
  <2>1. \A m \in Loads, h \in Legs : tag'[h] = m => Waits(m, h)'
    BY <1>2, <1>3 DEF Table
  <2>2. ASSUME calm', NEW m \in Loads, NEW h \in Legs PROVE Linked(m, h)'
    <3>1. Linked(m, h)
      BY <1>2, <2>2 DEF Table
    <3>2. InQueue(m, h)' => InQueue(m, h)
      BY <1>1
    <3>3. (m = l /\ h = g) \/ JobsOf(m, h)' = JobsOf(m, h)
      BY <1>1
    <3>4. m = l /\ h = g => Waits(m, h)
      BY <1>1, <3>1 DEF Linked
    <3> QED BY <1>2, <1>3, <3>1, <3>2, <3>3, <3>4 DEF Linked
  <2> QED BY <2>1, <2>2 DEF Table
<1>5. Heard'
  <2> SUFFICES ASSUME calm', NEW m \in Loads
               PROVE  InOrder(m)' /\ \A h \in Legs : HeardOf(m, h)'
    BY DEF Heard
  <2>1. InOrder(m) /\ \A h \in Legs : HeardOf(m, h) /\ Linked(m, h)
    BY <1>2 DEF Heard, Table
  <2>2. CourseOf(m)
    BY DEF Course
  <2>3. ASSUME NEW h \in Legs PROVE HeardOf(m, h)'
    <3>1. CASE m = l /\ h = g
      <4>1. thread[m] = h /\ mail[m] = None
        BY <1>1, <2>1, <3>1 DEF Linked, Waits
      <4>2. got[m][h] = None
        BY <2>2, <4>1 DEF CourseOf
      <4> QED BY <1>2, <4>1, <4>2 DEF HeardOf
    <3>2. CASE m # l \/ h # g
      <4>1. JobsOf(m, h)' = JobsOf(m, h)
        BY <1>1, <3>2
      <4> QED BY <1>2, <2>1, <4>1, HeardStays
    <3> QED BY <3>1, <3>2
  <2>4. InOrder(m)'
    <3>1. \A i \in JobsOf(m, "input") : i < job + 1
      <4>1. job \in Nat
        BY <1>2
      <4>2. \A i \in 1..job : i < job + 1
        BY ONLY <4>1
      <4> QED BY <4>2 DEF JobsOf
    <3>2. CASE m = l /\ g = "input"
      <4>1. Untried(m, "fuel")
        BY <1>1, <2>1, <2>2, <3>2 DEF Linked, Waits, CourseOf
      <4>2. JobsOf(m, "fuel")' = {}
        BY <1>1, <3>2, <4>1 DEF Untried
      <4> QED BY <4>2 DEF InOrder
    <3>3. CASE m = l /\ g = "fuel"
      <4>1. JobsOf(m, "fuel")' = {job + 1} /\ JobsOf(m, "input")' = JobsOf(m, "input")
        BY <1>1, <3>3
      <4> QED BY <3>1, <4>1 DEF InOrder
    <3>4. CASE m # l
      <4>1. JobsOf(m, "fuel")' = JobsOf(m, "fuel") /\ JobsOf(m, "input")' = JobsOf(m, "input")
        BY <1>1, <3>4
      <4> QED BY <2>1, <4>1 DEF InOrder
    <3> QED BY <3>2, <3>3, <3>4
  <2> QED BY <2>3, <2>4
<1> QED
  BY <1>4, <1>5

LEMMA RefuseLinks ==
  ASSUME TypeOK, Contract, Once, Course, Table, Heard, TakeRefuses
  PROVE  Table' /\ Heard'
<1> USE Apart, PlaceNames
<1>1. PICK l \in Loads, g \in Legs :
        /\ Head(queue) = <<l, g>>
        /\ InQueue(l, g) /\ ~InQueue(l, g)' /\ JobsOf(l, g) = {}
        /\ \A m \in Loads, h \in Legs :
             /\ JobsOf(m, h)' = JobsOf(m, h)
             /\ InQueue(m, h)' => InQueue(m, h)
  BY RefusedOnce
<1>2. /\ thread' = thread /\ got' = got /\ calm' = calm /\ answer' = answer
      /\ UNCHANGED threadVars
  BY DEF TakeRefuses, threadVars, contractVars
<1>3. Resolve(g, Refused)
  <2>1. Head(queue) = <<l, g>>
    BY <1>1
  <2>2. Head(queue)[2] = g
    BY ONLY <2>1
  <2> QED BY <2>2 DEF TakeRefuses, Resolve
<1>4. calm => Waits(l, g)
  BY <1>1 DEF Table, Linked
<1>5. calm => /\ mail'[l] = Refused /\ thread[l] = g
              /\ \A m \in Loads : m # l => mail'[m] = mail[m]
              /\ \A m \in Loads, h \in Legs : m # l \/ h # g =>
                   /\ Waits(m, h)' <=> Waits(m, h)
                   /\ Waits(m, h) => h # g /\ tag'[h] = tag[h]
              /\ ~Waits(l, g)'
  BY <1>2, <1>3, <1>4, ResolvedFor
<1>6. Table'
  <2>1. \A m \in Loads, h \in Legs : tag'[h] = m => Waits(m, h)'
    BY <1>2, <1>3, ResolvedTags
  <2>2. ASSUME calm', NEW m \in Loads, NEW h \in Legs PROVE Linked(m, h)'
    <3>1. Linked(m, h) /\ JobsOf(m, h)' = JobsOf(m, h) /\ (InQueue(m, h)' => InQueue(m, h))
      BY <1>1, <1>2, <2>2 DEF Table
    <3>2. CASE m = l /\ h = g
      BY <1>1, <1>2, <1>5, <2>2, <3>2 DEF Linked
    <3>3. CASE m # l \/ h # g
      <4>1. (Waits(m, h)' <=> Waits(m, h)) /\ (Waits(m, h) => tag'[h] = tag[h])
        BY <1>2, <1>5, <2>2, <3>3
      <4> QED BY <1>2, <3>1, <4>1 DEF Linked
    <3> QED BY <3>2, <3>3
  <2> QED BY <2>1, <2>2 DEF Table
<1>7. Heard'
  <2> SUFFICES ASSUME calm', NEW m \in Loads
               PROVE  InOrder(m)' /\ \A h \in Legs : HeardOf(m, h)'
    BY DEF Heard
  <2>1. InOrder(m) /\ \A h \in Legs : HeardOf(m, h)
    BY <1>2 DEF Heard
  <2>2. InOrder(m)'
    BY <1>1, <2>1 DEF InOrder
  <2>3. ASSUME NEW h \in Legs PROVE HeardOf(m, h)'
    <3>1. JobsOf(m, h)' = JobsOf(m, h)
      BY <1>1
    <3>2. CASE m # l
      <4>1. mail'[m] = mail[m]
        BY <1>2, <1>5, <3>2
      <4> QED BY <1>2, <2>1, <3>1, <4>1, HeardStays
    <3>3. CASE m = l /\ h # g
      <4>1. thread'[m] # h
        BY <1>2, <1>5, <3>3
      <4> QED BY <1>2, <2>1, <3>1, <4>1, HeardStays
    <3>4. CASE m = l /\ h = g
      <4>1. thread[m] = g /\ mail[m] = None /\ mail'[m] = Refused
        BY <1>2, <1>4, <1>5, <3>4 DEF Waits
      <4>2. got[m][h] = None
        BY <3>4, <4>1 DEF Course, CourseOf
      <4>3. Told(m, h, mail[m])'
        BY <1>1, <3>4, <4>1 DEF Told
      <4> QED BY <1>2, <4>2, <4>3 DEF HeardOf
    <3> QED BY <3>2, <3>3, <3>4
  <2> QED BY <2>2, <2>3
<1> QED
  BY <1>6, <1>7

\* Steps that give no answer and touch neither the table nor the queue.
LEMMA OtherLinks ==
  ASSUME TypeOK, Table, Heard, UNCHANGED <<tag, mail, answer, threadVars>>,
         \A m \in Loads, h \in Legs :
           JobsOf(m, h)' = JobsOf(m, h) /\ (InQueue(m, h)' <=> InQueue(m, h))
  PROVE  Table' /\ Heard'
<1> USE PlaceNames
<1>1. tag' = tag /\ mail' = mail /\ thread' = thread /\ got' = got /\ calm' = calm /\ answer' = answer
  BY DEF threadVars
<1>2. \A m \in Loads, h \in Legs : Waits(m, h)' <=> Waits(m, h)
  BY <1>1 DEF Waits
<1>3. Table'
  <2>1. \A m \in Loads, h \in Legs : tag'[h] = m => Waits(m, h)'
    BY <1>1, <1>2 DEF Table
  <2>2. ASSUME calm', NEW m \in Loads, NEW h \in Legs PROVE Linked(m, h)'
    <3>1. /\ Linked(m, h) /\ (Waits(m, h)' <=> Waits(m, h))
          /\ JobsOf(m, h)' = JobsOf(m, h) /\ (InQueue(m, h)' <=> InQueue(m, h))
      BY <1>1, <1>2, <2>2 DEF Table
    <3> QED BY <1>1, <3>1 DEF Linked
  <2> QED BY <2>1, <2>2 DEF Table
<1>4. ASSUME calm', NEW m \in Loads
      PROVE  InOrder(m)' /\ \A h \in Legs : HeardOf(m, h)'
  <2>1. InOrder(m) /\ \A h \in Legs : HeardOf(m, h)
    BY <1>1, <1>4 DEF Heard
  <2>2. InOrder(m)'
    BY <2>1 DEF InOrder
  <2> QED BY <1>1, <2>1, <2>2, HeardStays
<1> QED
  BY <1>3, <1>4 DEF Heard

LEMMA AnswerLinks ==
  ASSUME TypeOK, Contract, Once, Course, Table, Heard,
         NEW j \in 1..job, NEW a \in Bot!Answer, AnswerOf(j, a)
  PROVE  Table' /\ Heard'
<1>1. /\ answer[j] = Bot!Open /\ answer'[j] = a /\ job' = job
      /\ \A i \in 1..MaxJobs : i # j => answer'[i] = answer[i]
  BY ReplyStep DEF AnswerOf
<1>2. \A m \in Loads, h \in Legs :
        JobsOf(m, h)' = JobsOf(m, h) /\ (InQueue(m, h)' <=> InQueue(m, h))
  BY <1>1, KeptOnce DEF AnswerOf
<1>3. thread' = thread /\ got' = got /\ calm' = calm /\ UNCHANGED threadVars
  BY DEF AnswerOf, threadVars
<1>4. j \in 1..MaxJobs /\ owner[j] \in (Loads \X Legs) \cup {None}
  BY JobIsJob, Types
<1> USE Apart, PlaceNames
<1>5. \A m \in Loads, h \in Legs : \A i \in JobsOf(m, h) :
        /\ i \in 1..MaxJobs
        /\ answer'[i] = Bot!Open => i # j /\ answer[i] = Bot!Open
        /\ answer[i] # Bot!Open => answer'[i] = answer[i]
  BY <1>1, JobIsJob DEF JobsOf
<1>6. CASE owner[j] = None
  <2>1. tag' = tag /\ mail' = mail
    BY <1>6 DEF AnswerOf
  <2>2. \A m \in Loads, h \in Legs : Waits(m, h)' <=> Waits(m, h)
    BY <1>3, <2>1 DEF Waits
  <2>3. Table'
    <3>1. \A m \in Loads, h \in Legs : tag'[h] = m => Waits(m, h)'
      BY <2>1, <2>2 DEF Table
    <3>2. ASSUME calm', NEW m \in Loads, NEW h \in Legs PROVE Linked(m, h)'
      <4>1. /\ Linked(m, h) /\ (Waits(m, h)' <=> Waits(m, h))
            /\ JobsOf(m, h)' = JobsOf(m, h) /\ (InQueue(m, h)' <=> InQueue(m, h))
        BY <1>2, <1>3, <2>2, <3>2 DEF Table
      <4>2. \A i \in JobsOf(m, h) : answer'[i] = Bot!Open => answer[i] = Bot!Open
        BY <1>5
      <4> QED BY ONLY <2>1, <4>1, <4>2 DEF Linked
    <3> QED BY <3>1, <3>2 DEF Table
  <2>4. ASSUME calm', NEW m \in Loads
        PROVE  InOrder(m)' /\ \A h \in Legs : HeardOf(m, h)'
    <3>1. InOrder(m) /\ \A h \in Legs : HeardOf(m, h)
      BY <1>3, <2>4 DEF Heard
    <3>2. InOrder(m)'
      BY <1>2, <3>1 DEF InOrder
    <3> QED BY <1>2, <1>3, <1>5, <2>1, <3>1, <3>2, HeardStays
  <2> QED BY <2>3, <2>4 DEF Heard
<1>7. CASE owner[j] # None
  <2>1. PICK l \in Loads, g \in Legs : owner[j] = <<l, g>>
    <3>1. owner[j] \in Loads \X Legs
      BY <1>4, <1>7
    <3> QED BY ONLY <3>1
  <2>2. Resolve(g, a)
    <3>1. owner[j][2] = g
      BY ONLY <2>1
    <3> QED BY <1>7, <3>1 DEF AnswerOf, Resolve
  <2>3. j \in JobsOf(l, g)
    BY <2>1 DEF JobsOf
  <2>4. calm => Waits(l, g)
    BY <1>1, <2>3 DEF Table, Linked
  <2>5. calm => /\ mail'[l] = a /\ thread[l] = g
                /\ \A m \in Loads : m # l => mail'[m] = mail[m]
                /\ \A m \in Loads, h \in Legs : m # l \/ h # g =>
                     /\ Waits(m, h)' <=> Waits(m, h)
                     /\ Waits(m, h) => h # g /\ tag'[h] = tag[h]
                /\ ~Waits(l, g)'
    BY <1>3, <2>2, <2>4, ResolvedFor
  <2>6. Table'
    <3>1. \A m \in Loads, h \in Legs : tag'[h] = m => Waits(m, h)'
      BY <1>3, <2>2, ResolvedTags
    <3>2. ASSUME calm', NEW m \in Loads, NEW h \in Legs PROVE Linked(m, h)'
      <4>1. Linked(m, h) /\ JobsOf(m, h)' = JobsOf(m, h) /\ (InQueue(m, h)' <=> InQueue(m, h))
        BY <1>2, <1>3, <3>2 DEF Table
      <4>2. CASE m = l /\ h = g
        <5>1. ~InQueue(m, h)'
          BY <2>3, <4>1, <4>2, OnceFacts
        <5>2. ASSUME NEW i \in JobsOf(m, h) PROVE i = j
          <6>1. i \in 1..job /\ owner[i] = owner[j]
            BY <2>1, <4>2 DEF JobsOf
          <6> QED BY <1>7, <6>1, OnceFacts
        <5>3. \A i \in JobsOf(m, h)' : answer'[i] # Bot!Open
          BY <1>1, <4>1, <5>2
        <5>4. ~Waits(m, h)'
          BY <1>3, <2>5, <3>2, <4>2
        <5> QED BY <5>1, <5>3, <5>4 DEF Linked
      <4>3. CASE m # l \/ h # g
        <5>1. (Waits(m, h)' <=> Waits(m, h)) /\ (Waits(m, h) => tag'[h] = tag[h])
          BY <1>3, <2>5, <3>2, <4>3
        <5>2. \A i \in JobsOf(m, h) : answer'[i] = Bot!Open => answer[i] = Bot!Open
          BY <1>5
        <5> QED BY ONLY <4>1, <5>1, <5>2 DEF Linked
      <4> QED BY <4>2, <4>3
    <3> QED BY <3>1, <3>2 DEF Table
  <2>7. Heard'
    <3> SUFFICES ASSUME calm', NEW m \in Loads
                 PROVE  InOrder(m)' /\ \A h \in Legs : HeardOf(m, h)'
      BY DEF Heard
    <3>1. InOrder(m) /\ \A h \in Legs : HeardOf(m, h)
      BY <1>3 DEF Heard
    <3>2. InOrder(m)'
      BY <1>2, <3>1 DEF InOrder
    <3>3. ASSUME NEW h \in Legs PROVE HeardOf(m, h)'
      <4>1. JobsOf(m, h)' = JobsOf(m, h)
        BY <1>2
      <4>2. CASE m # l
        <5>1. mail'[m] = mail[m]
          BY <1>3, <2>5, <4>2
        <5> QED BY <1>3, <1>5, <3>1, <4>1, <5>1, HeardStays
      <4>3. CASE m = l /\ h # g
        <5>1. thread'[m] # h
          BY <1>3, <2>5, <4>3
        <5> QED BY <1>3, <1>5, <3>1, <4>1, <5>1, HeardStays
      <4>4. CASE m = l /\ h = g
        <5>1. thread[m] = g /\ mail'[m] = a
          BY <1>3, <2>5, <4>4
        <5>2. got[m][h] = None
          BY <4>4, <5>1 DEF Course, CourseOf
        <5>3. Told(m, h, mail[m])'
          BY <1>1, <2>3, <4>1, <4>4, <5>1 DEF Told
        <5> QED BY <1>3, <5>2, <5>3 DEF HeardOf
      <4> QED BY <4>2, <4>3, <4>4
    <3> QED BY <3>2, <3>3
  <2> QED BY <2>6, <2>7
<1> QED
  BY <1>6, <1>7

LEMMA BotLinks ==
  ASSUME TypeOK, Contract, Once, Course, Table, Heard, Take \/ Other \/ Move \/ Answer
  PROVE  Table' /\ Heard'
<1>1. CASE Other
  <2>1. PICK n \in 1..MaxRequest : Bot!Accept(n)
    BY <1>1 DEF Other
  <2>2. UNCHANGED <<tag, mail, queue, owner, answer, threadVars>>
    BY <1>1, <2>1 DEF Other, Bot!Accept
  <2>3. \A m \in Loads, h \in Legs :
          JobsOf(m, h)' = JobsOf(m, h) /\ (InQueue(m, h)' <=> InQueue(m, h))
    BY <2>1, <2>2, KeptOnce
  <2> QED BY <2>2, <2>3, OtherLinks
<1>2. CASE Move
  <2>1. PICK j \in 1..job, n \in 1..MaxRequest : Bot!Move(j, n)
    BY <1>2 DEF Move
  <2>2. UNCHANGED <<tag, mail, queue, owner, answer, threadVars>> /\ job' = job
    BY <1>2, <2>1 DEF Move, Bot!Move
  <2>3. \A m \in Loads, h \in Legs :
          JobsOf(m, h)' = JobsOf(m, h) /\ (InQueue(m, h)' <=> InQueue(m, h))
    BY <2>2, KeptOnce
  <2> QED BY <2>2, <2>3, OtherLinks
<1> QED
  BY <1>1, <1>2, TakeCases, AnswerCases, AcceptLinks, RefuseLinks, AnswerLinks

-----------------------------------------------------------------------------
(* Who waits, and what it hears: steps of a thread *)

LEMMA OthersMail ==
  ASSUME TypeOK, NEW l \in Loads, Thread(l)
  PROVE  \A m \in Loads : m # l => mail'[m] = mail[m]
<1>1. CASE Receive(l)
  BY <1>1, Received
<1>2. CASE ~Receive(l)
  BY <1>2 DEF Thread, Input, InputBusy, GiveUp, Disconnected, WithoutAnswer, LeaveInput, Fuel,
              FuelBusy, LeaveFuel, Begin
<1> QED
  BY <1>1, <1>2

\* A thread that does not wait has no entry, and while all is calm no command
\* and no transfer that is still to be answered.
LEMMA NotWaiting ==
  ASSUME TypeOK, Table, NEW l \in Loads, thread[l] \notin Legs \/ mail[l] # None
  PROVE  /\ \A h \in Legs : ~Waits(l, h) /\ tag[h] # l
         /\ calm => \A h \in Legs :
              ~InQueue(l, h) /\ \A j \in JobsOf(l, h) : answer[j] # Bot!Open
<1>1. \A h \in Legs : ~Waits(l, h)
  BY DEF Waits
<1> QED
  BY <1>1 DEF Table, Linked

LEMMA TagsKept ==
  ASSUME Table, NEW l \in Loads, \A h \in Legs : tag'[h] # l,
         \A h \in Legs : tag'[h] = tag[h] \/ tag'[h] = None,
         \A m \in Loads : m # l => thread'[m] = thread[m] /\ mail'[m] = mail[m]
  PROVE  \A m \in Loads, h \in Legs : tag'[h] = m => Waits(m, h)'
BY Apart DEF Table, Waits

\* A thread that does not wait goes on to a place where it does not wait.
LEMMA StillLinked ==
  ASSUME TypeOK, Table, calm, NEW l \in Loads, thread[l] \notin Legs \/ mail[l] # None,
         thread'[l] \notin Legs, tag' = tag, queue' = queue, answer' = answer,
         \A m \in Loads, h \in Legs : JobsOf(m, h)' = JobsOf(m, h),
         \A m \in Loads : m # l => thread'[m] = thread[m] /\ mail'[m] = mail[m]
  PROVE  \A m \in Loads, h \in Legs : Linked(m, h)'
<1> SUFFICES ASSUME NEW m \in Loads, NEW h \in Legs PROVE Linked(m, h)'
  OBVIOUS
<1>1. Linked(m, h) /\ JobsOf(m, h)' = JobsOf(m, h)
  BY DEF Table
<1>2. InQueue(m, h)' <=> InQueue(m, h)
  BY DEF InQueue
<1>3. CASE m = l
  <2>1. ~InQueue(m, h) /\ \A j \in JobsOf(m, h) : answer[j] # Bot!Open
    BY <1>3, NotWaiting
  <2>2. ~Waits(m, h)'
    BY <1>3 DEF Waits
  <2> QED BY <1>1, <1>2, <2>1, <2>2 DEF Linked
<1>4. CASE m # l
  <2>1. Waits(m, h)' <=> Waits(m, h)
    BY <1>4 DEF Waits
  <2> QED BY <1>1, <1>2, <2>1 DEF Linked
<1> QED
  BY <1>3, <1>4

LEMMA BeginLinks ==
  ASSUME TypeOK, Once, Table, NEW l \in Loads, NEW g \in Legs, Begin(l, g),
         thread[l] \notin Legs, Untried(l, g)
  PROVE  Table'
<1> USE Apart
<1>1. /\ tag[g] = None /\ tag'[g] = l /\ \A h \in Legs : h # g => tag'[h] = tag[h]
      /\ thread'[l] = g /\ \A m \in Loads : m # l => thread'[m] = thread[m]
      /\ mail' = mail /\ calm' = calm /\ answer' = answer
  BY Types DEF Begin, Goto, contractVars
<1>2. /\ InQueue(l, g)'
      /\ \A m \in Loads, h \in Legs :
           /\ JobsOf(m, h)' = JobsOf(m, h)
           /\ m # l \/ h # g => (InQueue(m, h)' <=> InQueue(m, h))
  BY BegunOnce
<1>3. mail[l] = None
  BY NoMail
<1>4. Waits(l, g)'
  BY <1>1, <1>3 DEF Waits
<1>5. \A h \in Legs : h # g => ~Waits(l, h)' /\ ~Waits(l, h)
  BY <1>1 DEF Waits
<1>6. \A m \in Loads, h \in Legs : m # l => (Waits(m, h)' <=> Waits(m, h))
  BY <1>1 DEF Waits
<1>7. ASSUME NEW m \in Loads, NEW h \in Legs, tag'[h] = m PROVE Waits(m, h)'
  <2>1. CASE h = g
    BY <1>1, <1>4, <1>7, <2>1
  <2>2. CASE h # g
    <3>1. tag[h] = m
      BY <1>1, <1>7, <2>2
    <3>2. Waits(m, h)
      BY <3>1 DEF Table
    <3>3. m # l
      BY <1>5, <2>2, <3>2
    <3> QED BY <1>6, <3>2, <3>3
  <2> QED BY <2>1, <2>2
<1>8. ASSUME calm', NEW m \in Loads, NEW h \in Legs PROVE Linked(m, h)'
  <2>1. Linked(m, h) /\ JobsOf(m, h)' = JobsOf(m, h)
    BY <1>1, <1>2, <1>8 DEF Table
  <2>2. CASE m = l /\ h = g
    BY <1>1, <1>4, <2>2 DEF Linked
  <2>3. CASE m = l /\ h # g
    <3>1. (InQueue(m, h)' <=> InQueue(m, h)) /\ ~Waits(m, h)' /\ ~Waits(m, h)
      BY <1>2, <1>5, <2>3
    <3> QED BY <1>1, <2>1, <3>1 DEF Linked
  <2>4. CASE m # l
    <3>1. (InQueue(m, h)' <=> InQueue(m, h)) /\ (Waits(m, h)' <=> Waits(m, h))
      BY <1>2, <1>6, <2>4
    <3>2. Waits(m, h) => tag[h] = m
      BY <2>1 DEF Linked
    <3>3. Waits(m, h) => tag'[h] = tag[h]
      BY <1>1, <3>2
    <3> QED BY <1>1, <2>1, <3>1, <3>3 DEF Linked
  <2> QED BY <2>2, <2>3, <2>4
<1> QED
  BY <1>7, <1>8 DEF Table

LEMMA ThreadLinks ==
  ASSUME TypeOK, Contract, Once, Course, Table, NEW l \in Loads, Thread(l)
  PROVE  Table'
<1>1. /\ answer' = answer
      /\ \A m \in Loads : m # l => thread'[m] = thread[m] /\ mail'[m] = mail[m]
      /\ \A m \in Loads, h \in Legs : JobsOf(m, h)' = JobsOf(m, h)
  BY ThreadOnce, OthersMail DEF contractVars
<1>2. CourseOf(l)
  BY DEF Course
<1> USE PlaceNames
<1>3. CASE Input(l)
  BY <1>2, <1>3, BeginLinks DEF Input, CourseOf
<1>4. CASE Fuel(l)
  BY <1>2, <1>4, BeginLinks DEF Fuel, CourseOf
<1>5. ASSUME NEW error, WithoutAnswer(l, error) PROVE Table'
  <2>1. /\ tag' = [tag EXCEPT ![thread[l]] = None] /\ calm' = FALSE
        /\ thread[l] \in Legs /\ tag \in [Legs -> Loads \cup {None}]
    BY <1>5, Types DEF WithoutAnswer
  <2>2. tag'[thread[l]] = None /\ \A h \in Legs : h # thread[l] => tag'[h] = tag[h]
    BY <2>1
  <2>3. \A h \in Legs : tag[h] = l => h = thread[l]
    BY DEF Table, Waits
  <2>4. \A h \in Legs : tag'[h] # l /\ (tag'[h] = tag[h] \/ tag'[h] = None)
    BY <2>2, <2>3, Apart
  <2> QED BY <1>1, <2>1, <2>4, TagsKept DEF Table
<1>6. ASSUME thread[l] \notin Legs \/ mail[l] # None, thread'[l] \notin Legs, queue' = queue,
             \A h \in Legs : tag'[h] = tag[h] \/ tag'[h] = None,
             calm' => calm /\ tag' = tag
      PROVE  Table'
  <2>1. \A h \in Legs : tag'[h] # l
    BY <1>6, NotWaiting, Apart
  <2>2. \A m \in Loads, h \in Legs : tag'[h] = m => Waits(m, h)'
    BY <1>1, <1>6, <2>1, TagsKept
  <2>3. calm' => \A m \in Loads, h \in Legs : Linked(m, h)'
    BY <1>1, <1>6, StillLinked
  <2> QED BY <2>2, <2>3 DEF Table
<1>a. thread \in [Loads -> Places] /\ tag \in [Legs -> Loads \cup {None}]
  BY Types
<1>7. CASE InputBusy(l) \/ FuelBusy(l)
  <2>1. thread'[l] = "done" /\ tag' = tag /\ calm' = calm /\ queue' = queue /\ thread[l] \notin Legs
    BY <1>7, <1>a DEF InputBusy, FuelBusy, Respond, Goto
  <2> QED BY <1>6, <2>1
<1>8. CASE Receive(l)
  <2>1. /\ thread'[l] \in {"input left", "fuel left"} /\ tag' = tag /\ calm' = calm /\ queue' = queue
        /\ mail[l] # None
    BY <1>8, <1>a DEF Receive, Goto
  <2> QED BY <1>6, <2>1
<1>9. ASSUME NEW leg \in Legs, Cancel(leg)
      PROVE  /\ calm' => calm /\ tag' = tag
             /\ \A h \in Legs : tag'[h] = tag[h] \/ tag'[h] = None
  <2>1. tag' = [tag EXCEPT ![leg] = None] /\ calm' = (calm /\ tag[leg] = None)
    BY <1>9 DEF Cancel
  <2>2. \A h \in Legs : tag'[h] = tag[h] \/ tag'[h] = None
    BY <1>a, <2>1
  <2>3. tag[leg] = None => tag' = tag
    BY <1>a, <2>1
  <2> QED BY <2>1, <2>2, <2>3
<1>10. CASE LeaveInput(l)
  <2>1. thread'[l] \in {"between", "done"} /\ thread[l] = "input left" /\ queue' = queue
    BY <1>10, <1>a DEF LeaveInput, AfterInput, Respond, Goto
  <2>2. Cancel("input")
    BY <1>10 DEF LeaveInput
  <2> QED BY <1>6, <1>9, <2>1, <2>2
<1>11. CASE LeaveFuel(l)
  <2>1. thread'[l] = "done" /\ thread[l] = "fuel left" /\ queue' = queue
    BY <1>11, <1>a DEF LeaveFuel, Respond, Goto
  <2>2. Cancel("fuel")
    BY <1>11 DEF LeaveFuel
  <2> QED BY <1>6, <1>9, <2>1, <2>2
<1> QED
  BY <1>3, <1>4, <1>5, <1>7, <1>8, <1>10, <1>11 DEF Thread, GiveUp, Disconnected

LEMMA ThreadHears ==
  ASSUME TypeOK, Contract, Once, Course, Table, Heard, NEW l \in Loads, Thread(l)
  PROVE  Heard'
<1> SUFFICES ASSUME calm', NEW m \in Loads
             PROVE  InOrder(m)' /\ \A h \in Legs : HeardOf(m, h)'
  BY DEF Heard
<1>1. /\ answer' = answer
      /\ \A k \in Loads : k # l => thread'[k] = thread[k] /\ mail'[k] = mail[k] /\ got'[k] = got[k]
      /\ \A k \in Loads, h \in Legs : JobsOf(k, h)' = JobsOf(k, h)
  BY ThreadOnce, OthersMail DEF contractVars
<1>a. /\ thread \in [Loads -> Places] /\ mail \in [Loads -> Bot!Answer \cup {None}]
      /\ calm \in BOOLEAN
  BY Types
<1>2. calm /\ ~GiveUp(l) /\ ~Disconnected(l)
  BY <1>a DEF Thread, Input, InputBusy, Receive, GiveUp, Disconnected, WithoutAnswer, LeaveInput,
              Fuel, FuelBusy, LeaveFuel, Begin, Cancel
<1>3. InOrder(m) /\ \A h \in Legs : HeardOf(m, h)
  BY <1>2 DEF Heard
<1> USE PlaceNames
<1>4. InOrder(m)'
  BY <1>1, <1>3 DEF InOrder
<1>5. ASSUME NEW h \in Legs PROVE HeardOf(m, h)'
  <2>1. HeardOf(m, h) /\ JobsOf(m, h)' = JobsOf(m, h)
    BY <1>1, <1>3
  <2>2. CASE m # l
    BY <1>1, <2>1, <2>2, HeardStays
  <2>3. ASSUME m = l, got'[l] = got[l], thread'[l] = h => mail'[l] = None PROVE HeardOf(m, h)'
    BY <1>1, <2>1, <2>3, HeardStays
  <2>4. CASE m = l /\ (Input(l) \/ Fuel(l))
    <3>1. got' = got /\ mail' = mail /\ thread[l] \notin Legs
      BY <2>4 DEF Input, Fuel, Begin
    <3>2. mail[l] = None
      BY <3>1, NoMail
    <3> QED BY <2>3, <2>4, <3>1, <3>2
  <2>5. CASE m = l /\ (InputBusy(l) \/ LeaveInput(l) \/ LeaveFuel(l))
    <3>1. got' = got /\ thread'[l] \notin Legs
      BY <1>a, <2>5 DEF InputBusy, LeaveInput, LeaveFuel, AfterInput, Respond, Goto
    <3> QED BY <2>3, <2>5, <3>1
  <2>6. CASE m = l /\ Receive(l)
    <3>1. /\ thread[l] \in Legs /\ mail[l] \in Bot!Answer /\ mail[l] # None
          /\ got'[l][thread[l]] = mail[l]
          /\ \A k \in Legs : k # thread[l] => got'[l][k] = got[l][k]
          /\ mail'[l] = None
      BY <2>6, Received
    <3>2. CASE h = thread[l]
      <4>1. Told(l, h, mail[l])
        BY <2>1, <2>6, <3>1, <3>2 DEF HeardOf
      <4>2. Told(l, h, got[l][h])'
        BY <1>1, <3>1, <3>2, <4>1 DEF Told
      <4> QED BY <2>6, <3>1, <4>2 DEF HeardOf
    <3>3. CASE h # thread[l]
      BY <1>1, <2>1, <2>6, <3>1, <3>3, HeardStays
    <3> QED BY <3>2, <3>3
  <2>7. CASE m = l /\ FuelBusy(l)
    <3>1. thread[l] = "between" /\ thread'[l] = "done" /\ got' = [got EXCEPT ![l]["fuel"] = Refused]
      BY <1>a, <2>7 DEF FuelBusy, Respond, Goto
    <3>2. got'[l]["fuel"] = Refused /\ got'[l]["input"] = got[l]["input"]
      BY <3>1, GotOne, Apart
    <3>3. JobsOf(l, "fuel") = {}
      BY <3>1 DEF Course, CourseOf, Untried
    <3>4. CASE h = "fuel"
      <4>1. Told(l, h, got[l][h])'
        BY <1>1, <3>2, <3>3, <3>4 DEF Told
      <4> QED BY <2>7, <3>1, <4>1 DEF HeardOf
    <3>5. CASE h = "input"
      <4>1. got'[m][h] = got[m][h] /\ thread'[m] # h
        BY <2>7, <3>1, <3>2, <3>5
      <4> QED BY <1>1, <2>1, <4>1, HeardStays
    <3> QED BY <3>4, <3>5
  <2> QED BY <1>2, <2>2, <2>4, <2>5, <2>6, <2>7 DEF Thread
<1> QED
  BY <1>4, <1>5

-----------------------------------------------------------------------------
(* The theorems *)

LEMMA Start ==
  ASSUME Init PROVE IInv
<1> USE Apart, PlaceNames
<1>1. /\ job = 0 /\ requested = [j \in 1..MaxJobs |-> 0] /\ actual = [j \in 1..MaxJobs |-> 0]
      /\ answer = [j \in 1..MaxJobs |-> Bot!Open]
      /\ thread = [l \in Loads |-> "new"] /\ result = [l \in Loads |-> "none"]
      /\ tag = [g \in Legs |-> None] /\ mail = [l \in Loads |-> None]
      /\ queue = <<>> /\ owner = [j \in 1..MaxJobs |-> None]
      /\ got = [l \in Loads |-> [g \in Legs |-> None]] /\ calm = TRUE
  BY DEF Init, Bot!Init
<1>2. TypeOK
  <2>1. <<>> \in Seq(Loads \X Legs)
    BY Nothing
  <2>2. "none" \in Results
    BY DEF Results
  <2> QED BY <1>1, <2>1, <2>2 DEF TypeOK
<1>a. job = 0 /\ 1..job = {} /\ queue = <<>> /\ 1..Len(queue) = {}
  <2>1. job = 0 /\ queue = <<>>
    BY <1>1
  <2> QED BY ONLY <2>1
<1>3. Contract
  <2>1. MaxJobs \in Nat /\ job \in 0..MaxJobs
    BY ONLY Apart, <1>a
  <2>2. /\ requested \in [1..MaxJobs -> Nat] /\ actual \in [1..MaxJobs -> Nat]
        /\ answer \in [1..MaxJobs -> Bot!Answer \cup {Bot!Open}]
        /\ \A j \in 1..MaxJobs : answer[j] = Bot!Open
    BY <1>1
  <2> QED BY <1>a, <2>1, <2>2 DEF Contract
<1>4. \A l \in Loads, g \in Legs : JobsOf(l, g) = {} /\ ~InQueue(l, g) /\ ~Waits(l, g)
  <2>1. \A l \in Loads : thread[l] \notin Legs
    BY <1>1
  <2> QED BY <1>a, <2>1 DEF JobsOf, InQueue, Waits
<1>5. Once
  <2>1. \A j \in 1..MaxJobs : owner[j] = None
    BY <1>1
  <2> QED BY <1>a, <1>4, <2>1 DEF Once
<1>6. Course
  BY <1>1, <1>4 DEF Course, CourseOf, Untried
<1>7. Table
  BY <1>1, <1>4 DEF Table, Linked
<1>8. Heard
  <2>1. \A l \in Loads, g \in Legs : got[l][g] = None /\ mail[l] = None
    BY <1>1
  <2> QED BY <1>4, <2>1 DEF Heard, HeardOf, InOrder
<1> QED
  BY <1>2, <1>3, <1>5, <1>6, <1>7, <1>8 DEF IInv

LEMMA Step ==
  ASSUME IInv, [Next]_vars PROVE IInv'
<1> USE DEF IInv
<1>1. CASE Take \/ Other \/ Move \/ Answer
  BY <1>1, BotTypes, BotOnce, BotCourse, BotLinks
<1>2. ASSUME NEW l \in Loads, Thread(l) PROVE IInv'
  BY <1>2, ThreadTypes, ThreadOnce, ThreadCourse, ThreadLinks, ThreadHears
<1>3. CASE UNCHANGED vars
  <2>1. /\ UNCHANGED <<job, requested, actual, answer, thread, tag, mail, queue, owner, got, result, calm>>
    BY <1>3 DEF vars, contractVars, threadVars
  <2>2. TypeOK' /\ Contract'
    BY <2>1 DEF TypeOK, Contract, Bot!Truthful
  <2>3. \A l \in Loads, g \in Legs :
          JobsOf(l, g)' = JobsOf(l, g) /\ (InQueue(l, g)' <=> InQueue(l, g))
    BY <2>1 DEF JobsOf, InQueue
  <2>4. Once'
    BY <2>1, <2>3 DEF Once
  <2>5. Course'
    BY <2>1, <2>3, PlaceNames DEF Course, CourseOf, Untried, InputDone
  <2>6. Table' /\ Heard'
    BY <2>1, <2>3, OtherLinks DEF threadVars
  <2> QED BY <2>2, <2>4, <2>5, <2>6
<1> QED
  BY <1>1, <1>2, <1>3 DEF Next

\* The inductive invariant.
THEOREM Invariance == Spec => []IInv
BY Start, Step, PTL DEF Spec

\* What a thread took for the answer of a leg that is done is that of a transfer
\* of this leg, and tells what it has moved.
LEMMA DoneHasMoved ==
  ASSUME IInv, calm, NEW l \in Loads, NEW g \in Legs, got[l][g] # None, Ok(got[l][g])
  PROVE  \E j \in JobsOf(l, g) :
           actual[j] > 0 /\ (Complete(got[l][g]) => actual[j] = requested[j])
<1> USE Apart
<1>1. Told(l, g, got[l][g])
  BY DEF IInv, Heard, HeardOf
<1>2. PICK j \in JobsOf(l, g) : answer[j] = got[l][g]
  BY <1>1 DEF Told
<1>3. j \in 1..job /\ j \in 1..MaxJobs
  BY JobIsJob DEF IInv, JobsOf
<1>4. answer[j] # Bot!Open /\ answer[j] \in Bot!Answer
  <2>1. got[l][g] \in Bot!Answer
    BY Types DEF IInv
  <2> QED BY <1>2, <2>1
<1>5. Bot!Truthful(j, answer[j]) /\ requested[j] > 0
  BY <1>3, <1>4 DEF IInv, Contract
<1>6. answer[j].verdict \in {"completed", "partial"}
  BY <1>2 DEF Ok
<1>7. /\ actual[j] > 0
      /\ answer[j].verdict = "completed" => actual[j] = requested[j]
  BY <1>5, <1>6 DEF Bot!Truthful
<1> QED
  BY <1>2, <1>7 DEF Complete

\* The two legs of a load belong together, whatever other loads do: a load that
\* is reported as full has moved both legs, and fuel follows its input.
THEOREM LoadsAreTrue == Spec => []LoadInv
<1>1. ASSUME IInv PROVE LoadedMeansMoved
  <2> SUFFICES ASSUME NEW l \in Loads, calm, result[l] = "furnace_loaded", NEW g \in Legs
               PROVE  \E j \in JobsOf(l, g) : actual[j] = requested[j]
    BY DEF LoadedMeansMoved
  <2>1. got[l][g] # None /\ Complete(got[l][g])
    BY <1>1 DEF IInv, Course, CourseOf
  <2>2. Ok(got[l][g])
    BY <2>1 DEF Ok, Complete
  <2> QED BY <1>1, <2>1, <2>2, DoneHasMoved
<1>2. ASSUME IInv PROVE FuelFollowsInput
  <2> SUFFICES ASSUME NEW l \in Loads, calm, NEW j \in JobsOf(l, "fuel")
               PROVE  \E i \in JobsOf(l, "input") : i < j /\ actual[i] > 0
    BY DEF FuelFollowsInput
  <2>1. InputDone(l)
    BY <1>2 DEF IInv, Course, CourseOf, Untried
  <2>2. "input" \in Legs /\ got[l]["input"] # None /\ Ok(got[l]["input"])
    BY <2>1 DEF InputDone, Legs
  <2>3. PICK i \in JobsOf(l, "input") : actual[i] > 0
    BY <1>2, <2>2, DoneHasMoved
  <2>4. i < j
    BY <1>2 DEF IInv, Heard, InOrder
  <2> QED BY <2>3, <2>4
<1>3. IInv => LoadInv
  BY <1>1, <1>2 DEF LoadInv, IInv
<1> QED
  BY <1>3, Invariance, PTL

\* After an input that failed with a certain answer nothing moves for the load.
THEOREM FailureEndsLoad == Spec => FailedInputIsOver
<1> DEFINE Over ==
      \A l \in Loads :
        calm /\ result[l] = "input_failed" /\ ~got[l]["input"].unknown =>
          \A leg \in Legs : \A j \in 1..MaxJobs :
            owner'[j] = <<l, leg>> => actual'[j] = actual[j]
<1>1. ASSUME IInv, Next PROVE Over
  <2> SUFFICES ASSUME NEW l \in Loads, calm, result[l] = "input_failed",
                      ~got[l]["input"].unknown,
                      NEW leg \in Legs, NEW j \in 1..MaxJobs, owner'[j] = <<l, leg>>,
                      actual'[j] # actual[j]
               PROVE  FALSE
    OBVIOUS
  <2>1. Move
    <3>1. ASSUME NEW k \in Loads, Thread(k) PROVE actual' = actual
      BY <1>1, <3>1, ThreadOnce DEF IInv, contractVars
    <3>2. Take => actual' = actual
      BY DEF Take, contractVars, Bot!Accept
    <3>3. Other => actual' = actual
      BY DEF Other, Bot!Accept
    <3>4. Answer => actual' = actual
      BY DEF Answer, Bot!Reply
    <3> QED BY <1>1, <3>1, <3>2, <3>3, <3>4 DEF Next
  <2>2. PICK i \in 1..job, n \in 1..MaxRequest : Bot!Move(i, n)
    BY <2>1 DEF Move
  <2>3. i = j /\ (answer[j] = Bot!Open \/ answer[j].unknown)
    BY <1>1, <2>2, MoveStep DEF IInv
  <2>4. j \in JobsOf(l, leg)
    BY <2>1, <2>2, <2>3 DEF Move, JobsOf
  <2>5. CourseOf(l)
    BY <1>1 DEF IInv, Course
  <2>6. got[l]["input"] # None /\ ~Ok(got[l]["input"])
    BY <2>5 DEF CourseOf
  <2>7. CASE leg = "fuel"
    BY <2>4, <2>5, <2>6, <2>7 DEF CourseOf, InputDone, Untried
  <2>8. CASE leg = "input"
    <3>1. Told(l, leg, got[l]["input"])
      BY <1>1, <2>6, <2>8 DEF IInv, Heard, HeardOf
    <3>2. PICK k \in JobsOf(l, leg) : answer[k] = got[l]["input"]
      BY <2>4, <3>1 DEF Told
    <3>3. k = j
      <4>1. /\ k \in 1..job /\ owner[k] = <<l, leg>>
            /\ j \in 1..job /\ owner[j] = <<l, leg>>
        BY <2>4, <3>2 DEF JobsOf
      <4>2. owner[k] # None
        BY <4>1, Apart
      <4> QED BY <1>1, <4>1, <4>2, OnceFacts DEF IInv
    <3>4. got[l]["input"] \in Bot!Answer
      BY <1>1, <2>6, <2>8, Types DEF IInv
    <3> QED BY <2>3, <3>2, <3>3, <3>4, Apart
  <2> QED BY <2>7, <2>8 DEF Legs
<1>2. ASSUME UNCHANGED vars PROVE Over
  BY <1>2 DEF vars, contractVars
<1>3. IInv /\ [Next]_vars => [Over]_vars
  BY <1>1, <1>2
<1> QED
  BY <1>3, Invariance, PTL DEF Spec, FailedInputIsOver
=============================================================================
