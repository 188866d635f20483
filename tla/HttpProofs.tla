----------------------------- MODULE HttpProofs -----------------------------
(***************************************************************************)
(* What the threads of the HTTP server share with the agent and with the   *)
(* bot: the telemetry, for all times, numbers of snapshots and faults,     *)
(* provided that the TTL leaves room for two posts and the wait between    *)
(* them; and the reply table, for any number of requests.                  *)
(***************************************************************************)
EXTENDS Telemetry, ReplyTable, Integers, Sequences, FiniteSets, TLAPS

-----------------------------------------------------------------------------
(* Telemetry *)

\* How old the store may be while posts succeed: it was updated in this post, or
\* in the one before, which has ended, and the worker waits or posts again.
SteadyAge ==
  steady =>
    /\ agent
    /\ posting = None => store.age <= PostTimeout + clock
    /\ posting # None /\ sent = None => store.age <= clock
    /\ posting # None /\ sent # None => store.age <= PostTimeout + Heartbeat + clock

\* The page has drawn a revision of this store.
PageKnows ==
  page.current =>
    /\ page.revision \in Nat /\ page.revision <= store.revision
    /\ page.revision = store.revision => page.snapshot = store.snapshot

\* No snapshot that was taken from the slot, wherever it is now, is newer than n.
NoneNewer(n) ==
  /\ store.snapshot # None => store.snapshot.number <= n
  /\ sent # None => sent.number <= n
  /\ posting # None => posting.number <= n
  /\ last # None => last.number <= n
  /\ \A p \in late : p.snapshot.number <= n

\* The worker posts what it took last, and what waits in the slot is newer.
Order ==
  /\ sent # None => sent = last
  /\ NoneNewer(published)
  /\ last # None => NoneNewer(last.number)
  /\ slot # None => NoneNewer(slot.number) /\ slot.number <= published

\* Only a running worker posts.
Sending ==
  /\ posting # None => agent
  /\ sent # None => posting # None

IInv == TypeOK /\ Sending /\ SteadyAge /\ PageKnows /\ Order

-----------------------------------------------------------------------------
(* Data *)

LEMMA Numbers ==
  /\ Heartbeat \in Nat /\ PostTimeout \in Nat /\ Ttl \in Nat
  /\ MaxPublished \in Nat \ {0} /\ MaxFaults \in Nat
BY TelemetryAssumption

\* None is no snapshot.
LEMMA NoneIsNone == None \notin Snapshots
BY TelemetryAssumption DEF Snapshots

LEMMA SnapshotIsNew ==
  ASSUME published \in 0..MaxPublished, published < MaxPublished,
         NEW s \in Statuses
  PROVE  Snapshot(Decision(s)) \in Snapshots /\ Snapshot(Decision(s)).number = published + 1
BY Numbers DEF Snapshot, Snapshots, Decision

LEMMA Faults ==
  ASSUME TypeOK, Fault
  PROVE  faults' \in 0..MaxFaults /\ faults' \in 1..MaxFaults /\ steady' = FALSE
BY Numbers DEF TypeOK, Fault

LEMMA GivenUp ==
  ASSUME TypeOK, Fault, GiveUp
  PROVE  late' \subseteq [snapshot : Snapshots, id : 1..MaxFaults]
<1>1. faults' \in 1..MaxFaults
  BY Faults
<1>2. late \subseteq [snapshot : Snapshots, id : 1..MaxFaults] /\ sent \in Snapshots \cup {None}
  BY DEF TypeOK
<1>3. sent # None => [snapshot |-> sent, id |-> faults'] \in [snapshot : Snapshots, id : 1..MaxFaults]
  BY <1>1, <1>2
<1>4. late' = IF sent = None THEN late ELSE late \cup {[snapshot |-> sent, id |-> faults']}
  BY DEF GiveUp
<1>5. CASE sent = None
  BY <1>2, <1>4, <1>5
<1>6. CASE sent # None
  BY <1>2, <1>3, <1>4, <1>6
<1> QED
  BY <1>5, <1>6

\* A decision of the agent's loop.
Turn == \E d \in {Decision(s) : s \in Statuses} : Decides(Statuses, d)

LEMMA Turns ==
  ASSUME TypeOK, Again \/ Requesting \/ Failed \/ Ready \/ StartTool \/ FinishTool \/ Finish
  PROVE  Turn
<1>1. \A from \in SUBSET Statuses, d \in {Decision(s) : s \in Statuses} : Decides(from, d) => Turn
  BY DEF Turn, Decides
<1>2. {"idle", "requesting", "ready", "executing", "completed", "failed"} \subseteq Statuses
  BY DEF Statuses
<1>3. decision \in {Decision(s) : s \in Statuses}
  BY DEF TypeOK
<1> QED
  BY <1>1, <1>2, <1>3 DEF Again, Requesting, Failed, Ready, StartTool, FinishTool, Finish, BetweenTurns

LEMMA TypeStep == TypeOK /\ [Next]_vars => TypeOK'
<1> SUFFICES ASSUME TypeOK, [Next]_vars PROVE TypeOK'
  OBVIOUS
<1> USE Numbers, NoneIsNone
<1>1. CASE Turn
  <2>1. PICK s \in Statuses : Decides(Statuses, Decision(s))
    BY <1>1 DEF Turn
  <2>2. Snapshot(Decision(s)) \in Snapshots
    BY <2>1, SnapshotIsNew DEF TypeOK, Decides, Publish
  <2> QED BY <2>1, <2>2 DEF TypeOK, Decides, Publish
<1>2. CASE Take
  BY <1>2 DEF TypeOK, Take, Post
<1>3. CASE Beat
  BY <1>3 DEF TypeOK, Beat, Post
<1>4. CASE PostEnds
  BY <1>4 DEF TypeOK, PostEnds, GoOn
<1>5. CASE PostFails
  <2>1. faults' \in 0..MaxFaults /\ steady' \in BOOLEAN
    BY <1>5, Faults DEF PostFails
  <2> QED BY <1>5, <2>1 DEF TypeOK, PostFails, GoOn
<1>6. CASE PostTimesOut
  <2>1. faults' \in 0..MaxFaults /\ steady' \in BOOLEAN
    BY <1>6, Faults DEF PostTimesOut
  <2>2. late' \subseteq [snapshot : Snapshots, id : 1..MaxFaults]
    BY <1>6, GivenUp DEF PostTimesOut
  <2> QED BY <1>6, <2>1, <2>2 DEF TypeOK, PostTimesOut, GoOn
<1>7. CASE Handle
  BY <1>7 DEF TypeOK, Handle, PublishAt
<1>8. CASE HandleLate
  BY <1>8 DEF TypeOK, HandleLate, PublishAt
<1>9. CASE BotRestarts
  <2>1. faults' \in 0..MaxFaults /\ steady' \in BOOLEAN
    BY <1>9, Faults DEF BotRestarts
  <2> QED BY <1>9, <2>1 DEF TypeOK, BotRestarts, NewStore
<1>10. CASE AgentDies
  <2>1. faults' \in 0..MaxFaults /\ steady' \in BOOLEAN
    BY <1>10, Faults DEF AgentDies
  <2>2. late' \subseteq [snapshot : Snapshots, id : 1..MaxFaults]
    BY <1>10, GivenUp DEF AgentDies
  <2>3. posting' = None /\ clock' = 0 /\ agent' = FALSE
    BY <1>10 DEF AgentDies, GoOn
  <2>4. {newest', slot', last', posting', sent'} \subseteq Snapshots \cup {None}
    BY <1>10 DEF TypeOK, AgentDies, GoOn
  <2>5. UNCHANGED <<decision, newest, store, published>>
    BY <1>10 DEF AgentDies
  <2>6. clock' \in 0..(IF posting' = None THEN Heartbeat ELSE PostTimeout)
    BY <2>3
  <2>7. agent' \in BOOLEAN
    BY <2>3
  <2> HIDE <1>10
  <2> QED BY <2>1, <2>2, <2>4, <2>5, <2>6, <2>7 DEF TypeOK
<1>11. CASE AgentStarts
  BY <1>11, SnapshotIsNew DEF TypeOK, AgentStarts, Publish, Statuses
<1>12. CASE PagePolls
  BY <1>12 DEF TypeOK, PagePolls, worker
<1>13. CASE Tick
  BY <1>13 DEF TypeOK, Tick
<1>20. CASE UNCHANGED vars
  BY <1>20 DEF TypeOK, vars, worker
<1> QED
  BY Turns, <1>1, <1>2, <1>3, <1>4, <1>5, <1>6, <1>7, <1>8, <1>9, <1>10, <1>11, <1>12, <1>13, <1>20 DEF Next

LEMMA SendingStep == TypeOK /\ Sending /\ [Next]_vars => Sending'
<1> SUFFICES ASSUME TypeOK, Sending, [Next]_vars PROVE Sending'
  OBVIOUS
<1> USE NoneIsNone
<1>1. CASE Turn
  BY <1>1 DEF Sending, Turn, Decides, Publish
<1>2. CASE Take
  BY <1>2 DEF Sending, Take, Post
<1>3. CASE Beat
  BY <1>3 DEF Sending, Beat, Post
<1>4. CASE PostEnds
  BY <1>4 DEF Sending, PostEnds, GoOn
<1>5. CASE PostFails
  BY <1>5 DEF Sending, PostFails, GoOn
<1>6. CASE PostTimesOut
  BY <1>6 DEF Sending, PostTimesOut, GoOn
<1>7. CASE Handle
  BY <1>7 DEF Sending, Handle, PublishAt
<1>8. CASE HandleLate
  BY <1>8 DEF Sending, HandleLate, PublishAt
<1>9. CASE BotRestarts
  BY <1>9 DEF Sending, BotRestarts, NewStore
<1>10. CASE AgentDies
  BY <1>10 DEF Sending, AgentDies, GoOn
<1>11. CASE AgentStarts
  BY <1>11 DEF Sending, AgentStarts, Publish
<1>12. CASE PagePolls
  BY <1>12 DEF Sending, PagePolls, worker
<1>13. CASE Tick
  BY <1>13 DEF Sending, Tick
<1>20. CASE UNCHANGED vars
  BY <1>20 DEF Sending, vars, worker
<1> QED
  BY Turns, <1>1, <1>2, <1>3, <1>4, <1>5, <1>6, <1>7, <1>8, <1>9, <1>10, <1>11, <1>12, <1>13, <1>20 DEF Next

LEMMA AgeStep == TypeOK /\ Sending /\ SteadyAge /\ [Next]_vars => SteadyAge'
<1> SUFFICES ASSUME TypeOK, Sending, SteadyAge, [Next]_vars PROVE SteadyAge'
  OBVIOUS
<1> USE Numbers, NoneIsNone
<1>1. CASE Turn
  BY <1>1 DEF TypeOK, Sending, SteadyAge, Turn, Decides, Publish
<1>2. CASE Take
  BY <1>2 DEF TypeOK, Sending, SteadyAge, Take, Post
<1>3. CASE Beat
  BY <1>3 DEF TypeOK, Sending, SteadyAge, Beat, Post
<1>4. CASE PostEnds
  BY <1>4 DEF TypeOK, Sending, SteadyAge, PostEnds, GoOn
<1>5. CASE PostFails
  <2>1. steady' = FALSE
    BY <1>5, Faults DEF PostFails
  <2> QED BY <2>1 DEF SteadyAge
<1>6. CASE PostTimesOut
  <2>1. steady' = FALSE
    BY <1>6, Faults DEF PostTimesOut
  <2> QED BY <2>1 DEF SteadyAge
<1>7. CASE Handle
  BY <1>7 DEF TypeOK, Sending, SteadyAge, Handle, PublishAt
<1>8. CASE HandleLate
  BY <1>8 DEF TypeOK, Sending, SteadyAge, HandleLate, PublishAt
<1>9. CASE BotRestarts
  <2>1. steady' = FALSE
    BY <1>9, Faults DEF BotRestarts
  <2> QED BY <2>1 DEF SteadyAge
<1>10. CASE AgentDies
  <2>1. steady' = FALSE
    BY <1>10, Faults DEF AgentDies
  <2> QED BY <2>1 DEF SteadyAge
<1>11. CASE AgentStarts
  BY <1>11 DEF TypeOK, Sending, SteadyAge, AgentStarts, Publish
<1>12. CASE PagePolls
  BY <1>12 DEF TypeOK, Sending, SteadyAge, PagePolls, worker
<1>13. CASE Tick
  BY <1>13 DEF TypeOK, Sending, SteadyAge, Tick
<1>20. CASE UNCHANGED vars
  BY <1>20 DEF TypeOK, Sending, SteadyAge, vars, worker
<1> QED
  BY Turns, <1>1, <1>2, <1>3, <1>4, <1>5, <1>6, <1>7, <1>8, <1>9, <1>10, <1>11, <1>12, <1>13, <1>20 DEF Next

LEMMA PageStep == TypeOK /\ PageKnows /\ [Next]_vars => PageKnows'
<1> SUFFICES ASSUME TypeOK, PageKnows, [Next]_vars PROVE PageKnows'
  OBVIOUS
<1> USE Numbers
<1>1. CASE Turn
  BY <1>1 DEF TypeOK, PageKnows, Turn, Decides, Publish
<1>2. CASE Take
  BY <1>2 DEF TypeOK, PageKnows, Take, Post
<1>3. CASE Beat
  BY <1>3 DEF TypeOK, PageKnows, Beat, Post
<1>4. CASE PostEnds
  BY <1>4 DEF TypeOK, PageKnows, PostEnds, GoOn
<1>5. CASE PostFails
  BY <1>5 DEF TypeOK, PageKnows, PostFails, GoOn
<1>6. CASE PostTimesOut
  BY <1>6 DEF TypeOK, PageKnows, PostTimesOut, GoOn
<1>7. CASE Handle
  BY <1>7 DEF TypeOK, PageKnows, Handle, PublishAt
<1>8. CASE HandleLate
  BY <1>8 DEF TypeOK, PageKnows, HandleLate, PublishAt
<1>9. CASE BotRestarts
  BY <1>9 DEF TypeOK, PageKnows, BotRestarts, NewStore
<1>10. CASE AgentDies
  BY <1>10 DEF TypeOK, PageKnows, AgentDies, GoOn
<1>11. CASE AgentStarts
  BY <1>11 DEF TypeOK, PageKnows, AgentStarts, Publish
<1>12. CASE PagePolls
  BY <1>12 DEF TypeOK, PageKnows, PagePolls, worker
<1>13. CASE Tick
  BY <1>13 DEF TypeOK, PageKnows, Tick
<1>20. CASE UNCHANGED vars
  BY <1>20 DEF TypeOK, PageKnows, vars, worker
<1> QED
  BY Turns, <1>1, <1>2, <1>3, <1>4, <1>5, <1>6, <1>7, <1>8, <1>9, <1>10, <1>11, <1>12, <1>13, <1>20 DEF Next

\* A new snapshot is newer than any that was taken.
LEMMA Published ==
  ASSUME TypeOK, Order, NEW st \in Statuses, Publish(Decision(st)),
         UNCHANGED <<last, posting, sent, late, store>>
  PROVE  Order'
<1> USE Numbers, NoneIsNone
<1> DEFINE new == Snapshot(Decision(st))
<1>1. published \in Nat /\ published' = published + 1 /\ slot' = new
  BY DEF TypeOK, Publish
<1>2. new.number = published + 1
  BY SnapshotIsNew DEF TypeOK, Publish
<1> HIDE DEF new
<1>3. slot'.number = published'
  BY <1>1, <1>2
<1>4. NoneNewer(published)' /\ NoneNewer(slot.number)'
  BY <1>1, <1>3 DEF TypeOK, Order, NoneNewer, Snapshots
<1> QED
  BY <1>1, <1>3, <1>4 DEF TypeOK, Order, NoneNewer, Snapshots

LEMMA OrderStep == TypeOK /\ Sending /\ Order /\ [Next]_vars => Order'
<1> SUFFICES ASSUME TypeOK, Sending, Order, [Next]_vars PROVE Order'
  OBVIOUS
<1> USE Numbers, NoneIsNone
<1>1. CASE Turn
  <2>1. PICK st \in Statuses : Decides(Statuses, Decision(st))
    BY <1>1 DEF Turn
  <2> QED
    BY <2>1, Published DEF Decides
<1>2. CASE Take
  BY <1>2 DEF TypeOK, Sending, Order, NoneNewer, Snapshots, Take, Post
<1>3. CASE Beat
  BY <1>3 DEF TypeOK, Sending, Order, NoneNewer, Snapshots, Beat, Post
<1>4. CASE PostEnds
  BY <1>4 DEF TypeOK, Sending, Order, NoneNewer, Snapshots, PostEnds, GoOn
<1>5. CASE PostFails
  BY <1>5 DEF TypeOK, Sending, Order, NoneNewer, Snapshots, PostFails, GoOn
<1>6. CASE PostTimesOut
  BY <1>6 DEF TypeOK, Sending, Order, NoneNewer, Snapshots, PostTimesOut, GoOn, GiveUp
<1>7. CASE Handle
  BY <1>7 DEF TypeOK, Sending, Order, NoneNewer, Snapshots, Handle, PublishAt
<1>8. CASE HandleLate
  BY <1>8 DEF TypeOK, Sending, Order, NoneNewer, Snapshots, HandleLate, PublishAt
<1>9. CASE BotRestarts
  BY <1>9 DEF TypeOK, Sending, Order, NoneNewer, Snapshots, BotRestarts, NewStore
<1>10. CASE AgentDies
  BY <1>10 DEF TypeOK, Sending, Order, NoneNewer, Snapshots, AgentDies, GoOn, GiveUp
<1>11. CASE AgentStarts
  BY <1>11, Published DEF AgentStarts, Statuses
<1>12. CASE PagePolls
  BY <1>12 DEF TypeOK, Sending, Order, NoneNewer, Snapshots, PagePolls, worker
<1>13. CASE Tick
  BY <1>13 DEF TypeOK, Sending, Order, NoneNewer, Snapshots, Tick
<1>20. CASE UNCHANGED vars
  BY <1>20 DEF TypeOK, Sending, Order, NoneNewer, Snapshots, vars, worker
<1> QED
  BY Turns, <1>1, <1>2, <1>3, <1>4, <1>5, <1>6, <1>7, <1>8, <1>9, <1>10, <1>11, <1>12, <1>13, <1>20 DEF Next

-----------------------------------------------------------------------------
(* The results *)

LEMMA InitInv == Init => IInv
<1> SUFFICES ASSUME Init PROVE IInv
  OBVIOUS
<1> USE Numbers, NoneIsNone
<1>1. published = 1 /\ newest \in Snapshots /\ slot = newest /\ slot.number = 1
  BY DEF Init, Snapshots
<1>2. TypeOK
  <2>1. decision \in {Decision(s) : s \in Statuses}
    BY DEF Init, Statuses
  <2>2. store \in [revision : Nat, snapshot : Snapshots \cup {None}, age : 0..(Ttl + 1)]
    BY DEF Init, NewStore
  <2>3. agent \in BOOLEAN /\ steady \in BOOLEAN
    BY DEF Init
  <2> QED BY <1>1, <2>1, <2>2, <2>3 DEF Init, TypeOK
<1>3. Sending /\ SteadyAge /\ PageKnows
  BY DEF Init, Sending, SteadyAge, PageKnows, NewPage
<1>4. Order
  BY <1>1 DEF Init, Order, NoneNewer, NewStore
<1> QED
  BY <1>2, <1>3, <1>4 DEF IInv

\* The inductive invariant holds whatever the loop, the worker, the requests, the
\* page and the faults of both processes do.
THEOREM Invariance == Spec => []IInv
<1>1. IInv /\ [Next]_vars => IInv'
  BY TypeStep, SendingStep, AgeStep, PageStep, OrderStep DEF IInv
<1> QED
  BY InitInv, <1>1, PTL DEF Spec

LEMMA SteadyIsOnline == IInv => SteadyAgentIsOnline
<1> SUFFICES ASSUME IInv, steady PROVE store.age <= Ttl
  BY DEF SteadyAgentIsOnline, Online
<1>1. clock \in 0..(IF posting = None THEN Heartbeat ELSE PostTimeout) /\ store.age \in 0..(Ttl + 1)
  BY DEF IInv, TypeOK
<1>2. /\ posting = None => store.age <= PostTimeout + clock
      /\ posting # None /\ sent = None => store.age <= clock
      /\ posting # None /\ sent # None => store.age <= PostTimeout + Heartbeat + clock
  BY DEF IInv, SteadyAge
<1> QED
  BY <1>1, <1>2, Numbers, TtlAssumption

\* An agent whose posts succeed is online for any heartbeat, timeout and TTL such
\* that two posts and a wait fit in the TTL, and the page never shows another
\* snapshot under the revision of the store (src/api/telemetry.rs, snapshot_at
\* and publish_at; web/telemetry.js, poll).
THEOREM TelemetryIsKept == Spec => []TelemetryInv
<1>1. IInv => TelemetryInv
  <2>1. IInv => PageMissesNothing
    BY DEF IInv, PageKnows, PageMissesNothing
  <2> QED BY <2>1, SteadyIsOnline DEF TelemetryInv, IInv
<1> QED
  BY Invariance, <1>1, PTL

LEMMA BackStep ==
  IInv /\ [Next]_vars =>
    (store.snapshot # None /\ store'.snapshot # None
      /\ store'.snapshot.number < store.snapshot.number => late' # late)
<1> SUFFICES ASSUME IInv, [Next]_vars,
                    store.snapshot # None, store'.snapshot # None,
                    store'.snapshot.number < store.snapshot.number
             PROVE  late' # late
  OBVIOUS
<1>1. store.snapshot.number \in Nat
  BY DEF IInv, TypeOK, Snapshots
<1>2. store'.snapshot # store.snapshot
  BY <1>1
<1>3. ~Handle
  <2> SUFFICES ASSUME Handle PROVE FALSE
    OBVIOUS
  <2>1. store'.snapshot = last /\ last # None
    BY DEF Handle, PublishAt, IInv, Order
  <2>2. store.snapshot.number <= last.number /\ last.number \in Nat
    BY <2>1 DEF IInv, TypeOK, Order, NoneNewer, Snapshots
  <2> QED BY <1>1, <2>1, <2>2
<1>4. HandleLate => late' # late
  BY DEF HandleLate
<1>5. ~BotRestarts
  BY DEF BotRestarts, NewStore
<1>6. ~Tick
  BY <1>2 DEF Tick, IInv, TypeOK
<1>7. Turn \/ Take \/ Beat \/ PostEnds \/ PostFails \/ PostTimesOut \/ AgentDies \/ AgentStarts
        \/ PagePolls \/ UNCHANGED vars => store' = store
  BY DEF Turn, Decides, Take, Beat, PostEnds, PostFails, PostTimesOut, AgentDies, AgentStarts,
         PagePolls, vars
<1>8. TypeOK
  BY DEF IInv
<1> QED
  BY <1>2, <1>3, <1>4, <1>5, <1>6, <1>7, <1>8, Turns DEF Next

\* A delayed post, a heartbeat or a retry that the worker still waits for never
\* puts an older snapshot over a newer one (src/agent/telemetry.rs, run_worker).
THEOREM OnlyLatePostsGoBack == Spec => BackOnlyByLatePost
<1>1. IInv /\ [Next]_vars =>
        [(store.snapshot # None /\ store'.snapshot # None
           /\ store'.snapshot.number < store.snapshot.number) => late' # late]_vars
  BY BackStep
<1> QED
  BY Invariance, <1>1, PTL DEF Spec, BackOnlyByLatePost

-----------------------------------------------------------------------------
(* The reply table *)

ThreadPlaces == {"new", "registered", "waiting", "leaving", "done"}

\* The definitions that every step has to expand.
USE DEF R!NotResolving, R!NotYet, R!Errors, ThreadPlaces

LEMMA ReplyInit == R!Init => R!IInv
<1> SUFFICES ASSUME R!Init PROVE R!IInv
  OBVIOUS
<1> USE RequestsAssumption DEF R!RequestsAssumption, R!Init
<1>1. R!TypeOK
  <2>1. <<>> \in Seq(Requests) /\ Len(<<>>) = 0
    OBVIOUS
  <2>2. mailbox \in [Requests -> Seq(Requests)] /\ \A r \in Requests : Len(mailbox[r]) <= 1
    BY <2>1
  <2>3. next \in 1..Len(replies) + 1
    BY <2>1
  <2>4. /\ thread \in [Requests -> ThreadPlaces]
        /\ answer \in [Requests -> Requests \union R!Errors \union {R!NotYet}]
    OBVIOUS
  <2> QED BY <2>1, <2>2, <2>3, <2>4 DEF R!TypeOK
<1>2. R!EntryHasOwner
  BY DEF R!EntryHasOwner
<1>3. R!OneSender
  BY DEF R!OneSender
<1>4. R!OneExchange
  BY DEF R!OneExchange, R!Pending
<1> QED BY <1>1, <1>2, <1>3, <1>4 DEF R!IInv

\* Types are kept by every step; only Send adds to a mailbox, and only to an
\* empty one.
LEMMA ReplyTypes == R!IInv /\ [R!Next]_R!vars => R!TypeOK'
<1> SUFFICES ASSUME R!IInv, [R!Next]_R!vars PROVE R!TypeOK'
  OBVIOUS
<1> USE RequestsAssumption DEF R!RequestsAssumption, R!IInv, R!TypeOK, R!threadVars, R!botVars, R!gameVars
<1>1. ASSUME NEW r \in Requests, R!Register(r) PROVE R!TypeOK'
  BY <1>1 DEF R!Register, R!Goto
<1>2. ASSUME NEW r \in Requests, R!Busy(r) PROVE R!TypeOK'
  BY <1>2 DEF R!Busy, R!Goto, R!Reply
<1>3. ASSUME NEW r \in Requests, R!Submit(r) PROVE R!TypeOK'
  BY <1>3 DEF R!Submit, R!Goto
<1>4. ASSUME NEW r \in Requests, R!SubmitFails(r) PROVE R!TypeOK'
  BY <1>4 DEF R!SubmitFails, R!Goto, R!Reply
<1>5. ASSUME NEW r \in Requests, R!Receive(r) PROVE R!TypeOK'
  <2>1. mailbox' \in [Requests -> Seq(Requests)]
        /\ \A q \in Requests : Len(mailbox'[q]) <= 1
    BY <1>5 DEF R!Receive
  <2> QED BY <1>5, <2>1 DEF R!Receive, R!Goto, R!Reply
<1>6. ASSUME NEW r \in Requests, R!GiveUp(r) PROVE R!TypeOK'
  BY <1>6 DEF R!GiveUp, R!Goto, R!Reply
<1>7. ASSUME NEW r \in Requests, R!Disconnect(r) PROVE R!TypeOK'
  BY <1>7 DEF R!Disconnect, R!Goto, R!Reply
<1>8. ASSUME NEW r \in Requests, R!Cancel(r) PROVE R!TypeOK'
  BY <1>8 DEF R!Cancel, R!Goto
<1>9. CASE R!Send
  <2>1. holding.to \in Requests /\ holding.of \in Requests
        /\ mailbox[holding.to] = <<>>
    BY <1>9 DEF R!Send, R!OneSender
  <2>2. Append(<<>>, holding.of) \in Seq(Requests) /\ Len(Append(<<>>, holding.of)) = 1
    BY <2>1
  <2>3. mailbox' \in [Requests -> Seq(Requests)]
        /\ \A q \in Requests : Len(mailbox'[q]) <= 1
    BY <1>9, <2>1, <2>2 DEF R!Send
  <2> QED BY <1>9, <2>3 DEF R!Send
<1>10. CASE R!Refuse
  BY <1>10 DEF R!Refuse, R!Resolve, R!Free
<1>11. CASE R!Forward
  BY <1>11 DEF R!Forward, R!Free
<1>12. CASE R!Hear
  BY <1>12 DEF R!Hear, R!Resolve, R!Free
<1>13. CASE R!End
  BY <1>13 DEF R!End
<1>14. CASE R!Execute
  <2>1. Head(asked) \in Requests /\ Tail(asked) \in Seq(Requests)
    BY <1>14 DEF R!Execute
  <2>2. replies' \in Seq(Requests) /\ Len(replies') \in {Len(replies), Len(replies) + 1}
    <3>1. CASE replies' = replies
      BY <3>1
    <3>2. CASE replies' = Append(replies, Head(asked))
      BY <2>1, <3>2
    <3> QED BY <1>14, <3>1, <3>2 DEF R!Execute
  <2>3. next' \in 1..Len(replies') + 1
    BY <1>14, <2>2 DEF R!Execute
  <2> QED BY <1>14, <2>1, <2>2, <2>3 DEF R!Execute
<1>15. CASE UNCHANGED R!vars
  BY <1>15 DEF R!vars
<1> QED BY <1>1, <1>2, <1>3, <1>4, <1>5, <1>6, <1>7, <1>8, <1>9, <1>10,
           <1>11, <1>12, <1>13, <1>14, <1>15 DEF R!Next, R!Thread

\* The table entry of a request is gone before its thread is.
LEMMA OwnerStep == R!IInv /\ [R!Next]_R!vars => R!EntryHasOwner'
<1> SUFFICES ASSUME R!IInv, [R!Next]_R!vars PROVE R!EntryHasOwner'
  OBVIOUS
<1> USE RequestsAssumption DEF R!RequestsAssumption, R!IInv, R!TypeOK, R!EntryHasOwner, R!OneSender, R!threadVars,
                               R!botVars, R!gameVars
<1>1. ASSUME NEW r \in Requests, R!Thread(r) PROVE R!EntryHasOwner'
  BY <1>1 DEF R!Thread, R!Register, R!Busy, R!Submit, R!SubmitFails, R!Receive, R!GiveUp,
              R!Disconnect, R!Cancel, R!Goto, R!Reply
<1>2. CASE R!Send \/ R!Refuse \/ R!Hear
  BY <1>2 DEF R!Send, R!Refuse, R!Hear, R!Resolve, R!Free
<1>3. CASE R!Forward \/ R!End \/ R!Execute
  <2>1. UNCHANGED <<sender, thread>>
    BY <1>3 DEF R!Forward, R!End, R!Execute
  <2> QED BY <2>1
<1>4. CASE UNCHANGED R!vars
  BY <1>4 DEF R!vars
<1> QED BY <1>1, <1>2, <1>3, <1>4 DEF R!Next

\* The sender of a request is made once and moves from the table to the bot to
\* the mailbox.
LEMMA SenderStep == R!IInv /\ [R!Next]_R!vars => R!OneSender'
<1> SUFFICES ASSUME R!IInv, [R!Next]_R!vars PROVE R!OneSender'
  OBVIOUS
<1> USE RequestsAssumption DEF R!RequestsAssumption, R!IInv, R!TypeOK, R!EntryHasOwner, R!OneSender, R!threadVars,
                               R!botVars, R!gameVars
<1>1. ASSUME NEW r \in Requests, R!Register(r) PROVE R!OneSender'
  BY <1>1 DEF R!Register, R!Goto
<1>2. ASSUME NEW r \in Requests, R!Busy(r) PROVE R!OneSender'
  BY <1>2 DEF R!Busy, R!Goto, R!Reply
<1>3. ASSUME NEW r \in Requests, R!Submit(r) PROVE R!OneSender'
  BY <1>3 DEF R!Submit, R!Goto
<1>4. ASSUME NEW r \in Requests, R!SubmitFails(r) PROVE R!OneSender'
  BY <1>4 DEF R!SubmitFails, R!Goto, R!Reply
<1>5. ASSUME NEW r \in Requests, R!Receive(r) PROVE R!OneSender'
  BY <1>5 DEF R!Receive, R!Goto, R!Reply
<1>6. ASSUME NEW r \in Requests, R!GiveUp(r) PROVE R!OneSender'
  BY <1>6 DEF R!GiveUp, R!Goto, R!Reply
<1>7. ASSUME NEW r \in Requests, R!Disconnect(r) PROVE R!OneSender'
  BY <1>7 DEF R!Disconnect, R!Goto, R!Reply
<1>8. ASSUME NEW r \in Requests, R!Cancel(r) PROVE R!OneSender'
  BY <1>8 DEF R!Cancel, R!Goto
<1>9. CASE R!Send
  BY <1>9 DEF R!Send
<1>10. CASE R!Refuse \/ R!Hear
  <2>1. PICK payload : R!Resolve(payload)
    BY <1>10 DEF R!Refuse, R!Hear
  <2>2. UNCHANGED <<mailbox, thread, answer>> /\ holding = R!NotResolving
    BY <1>10 DEF R!Refuse, R!Hear, R!Free
  <2>3. sender' = Nobody
        /\ \A r \in Requests : holding'.to = r => sender = r
    BY <2>1 DEF R!Resolve
  <2> QED BY <2>2, <2>3
<1>11. CASE R!Forward \/ R!Execute
  <2>1. UNCHANGED <<sender, mailbox, thread, answer, up, holding>>
    BY <1>11 DEF R!Forward, R!Execute
  <2> QED BY <2>1
<1>12. CASE R!End
  <2>1. UNCHANGED <<sender, mailbox, thread, answer>> /\ holding' = R!NotResolving
    BY <1>12 DEF R!End
  <2>2. \A r \in Requests : holding'.to # r
    BY <2>1 DEF R!NotResolving
  <2> QED BY <2>1, <2>2
<1>13. CASE UNCHANGED R!vars
  BY <1>13 DEF R!vars
<1> QED BY <1>1, <1>2, <1>3, <1>4, <1>5, <1>6, <1>7, <1>8, <1>9, <1>10,
           <1>11, <1>12, <1>13 DEF R!Next, R!Thread

\* A request that was abandoned stays so, a disturbance is never forgotten.
LEMMA CalmBefore == R!IInv /\ [R!Next]_R!vars /\ R!Calm' => R!Calm
<1> SUFFICES ASSUME R!IInv, [R!Next]_R!vars, R!Calm', ~R!Calm PROVE FALSE
  OBVIOUS
<1> USE RequestsAssumption DEF R!RequestsAssumption, R!IInv, R!TypeOK, R!EntryHasOwner, R!OneSender, R!threadVars,
                               R!botVars, R!gameVars
<1>1. ~disturbed
  <2>1. disturbed => disturbed'
    BY DEF R!Next, R!Thread, R!Register, R!Busy, R!Submit, R!SubmitFails, R!Receive, R!GiveUp,
           R!Disconnect, R!Cancel, R!Send, R!Refuse, R!Forward, R!Hear, R!End, R!Execute, R!vars
  <2> QED BY <2>1 DEF R!Calm
<1>2. PICK q \in Requests : R!Abandoned(q)
  BY <1>1 DEF R!Calm
<1>3. ASSUME NEW r \in Requests, R!Thread(r) PROVE R!Abandoned(q)'
  <2>1. CASE R!Register(r)
    BY <1>2, <2>1 DEF R!Register, R!Abandoned, R!Connected, R!Goto
  <2>2. CASE R!Busy(r)
    BY <1>2, <2>2 DEF R!Busy, R!Abandoned, R!Connected, R!Goto, R!Reply
  <2>3. CASE R!Submit(r) \/ R!SubmitFails(r)
    BY <1>2, <2>3 DEF R!Submit, R!SubmitFails, R!Abandoned, R!Connected, R!Goto, R!Reply
  <2>4. CASE R!Receive(r)
    BY <1>2, <2>4 DEF R!Receive, R!Abandoned, R!Connected, R!Goto, R!Reply
  <2>5. CASE R!GiveUp(r) \/ R!Disconnect(r)
    BY <1>2, <2>5 DEF R!GiveUp, R!Disconnect, R!Abandoned, R!Connected, R!Goto, R!Reply
  <2>6. CASE R!Cancel(r)
    BY <1>2, <2>6 DEF R!Cancel, R!Abandoned, R!Connected, R!Goto
  <2> QED BY <1>3, <2>1, <2>2, <2>3, <2>4, <2>5, <2>6 DEF R!Thread
<1>4. ASSUME R!Send PROVE R!Abandoned(q)'
  BY <1>2, <1>4 DEF R!Send, R!Abandoned, R!Connected
<1>5. ASSUME R!Refuse \/ R!Hear PROVE R!Abandoned(q)'
  BY <1>2, <1>5 DEF R!Refuse, R!Hear, R!Resolve, R!Free, R!Abandoned, R!Connected
<1>6. ASSUME R!Forward \/ R!End \/ R!Execute PROVE R!Abandoned(q)'
  BY <1>2, <1>6 DEF R!Forward, R!End, R!Execute, R!Free, R!Abandoned, R!Connected
<1>7. ASSUME UNCHANGED R!vars PROVE R!Abandoned(q)'
  BY <1>2, <1>7 DEF R!vars, R!Abandoned, R!Connected
<1> QED BY <1>3, <1>4, <1>5, <1>6, <1>7 DEF R!Next, R!Calm

\* While all is calm a registered request without an answer still has its
\* sender somewhere.
LEMMA CalmConnected ==
  ASSUME R!Calm, NEW r \in Requests,
         thread[r] \in {"registered", "waiting"}, mailbox[r] = <<>>
  PROVE  sender = r \/ holding.to = r
  BY DEF R!Calm, R!Abandoned, R!Connected

\* With nothing on its way, PendingFor says nothing.
LEMMA PendingBounds ==
  ASSUME R!TypeOK
  PROVE  /\ Len(commands) \in Nat /\ Len(asked) \in Nat
         /\ Len(replies) + 1 - next \in Nat
         /\ R!Pending \in Nat
<1>1. Len(commands) \in Nat /\ Len(asked) \in Nat /\ Len(replies) \in Nat
  BY DEF R!TypeOK
<1>2. next \in 1..Len(replies) + 1
  BY DEF R!TypeOK
<1> QED BY <1>1, <1>2 DEF R!Pending

\* The steps of a thread.
LEMMA ThreadExchange ==
  ASSUME R!IInv, R!Calm, R!Calm', R!TypeOK', NEW r \in Requests, R!Thread(r)
  PROVE  R!OneExchange'
<1> USE RequestsAssumption DEF R!RequestsAssumption, R!IInv, R!TypeOK, R!OneExchange, R!threadVars, R!botVars, R!gameVars
<1>0. R!Pending \in Nat
  BY PendingBounds
<1>1. CASE R!Register(r)
  <2>1. R!Pending = 0 /\ R!Pending' = 0
    BY <1>0, <1>1 DEF R!Register, R!Pending
  <2>2. UNCHANGED <<holding, mailbox, answer>>
        /\ \A q \in Requests : q # r => thread'[q] = thread[q]
    BY <1>1 DEF R!Register, R!Goto
  <2>3. holding # R!NotResolving => holding.to # r /\ holding.to \in Requests
    BY <1>1 DEF R!Register, R!OneSender
  <2>4. mailbox[r] = <<>>
    BY <1>1 DEF R!Register, R!OneSender
  <2>5. \A q \in Requests : mailbox'[q] # <<>> => mailbox'[q] = <<q>> /\ thread'[q] = "waiting"
    BY <2>2, <2>4
  <2>6. holding' # R!NotResolving
          => holding'.of = holding'.to /\ thread'[holding'.to] = "waiting"
    BY <2>2, <2>3
  <2> QED BY <2>1, <2>2, <2>5, <2>6
<1>2. CASE R!Busy(r)
  <2>1. UNCHANGED <<sender, holding, mailbox, commands, asked, replies, next>>
    BY <1>2 DEF R!Busy
  <2>2. /\ \A q \in Requests : q # r => thread'[q] = thread[q] /\ answer'[q] = answer[q]
        /\ answer'[r] = "409" /\ thread[r] = "new"
    BY <1>2 DEF R!Busy, R!Goto, R!Reply
  <2>3. sender # Nobody /\ thread[sender] = "waiting" => sender # r /\ thread'[sender] = "waiting"
    BY <2>2
  <2>4. holding # R!NotResolving /\ thread[holding.to] = "waiting"
          => thread'[holding.to] = "waiting"
    BY <2>2
  <2>5. R!Pending' = R!Pending /\ (R!PendingFor(sender) => R!PendingFor(sender)')
    BY <2>1 DEF R!Pending, R!PendingFor
  <2>6. \A q \in Requests : answer'[q] \in Requests => answer'[q] = q
    BY <2>2
  <2>7. \A q \in Requests : mailbox'[q] # <<>> => mailbox'[q] = <<q>> /\ thread'[q] = "waiting"
    BY <2>1, <2>2
  <2> QED BY <2>1, <2>3, <2>4, <2>5, <2>6, <2>7
<1>3. CASE R!Submit(r)
  <2>1. sender = r \/ holding.to = r
    <3>1. thread[r] = "registered" /\ mailbox[r] = <<>>
      BY <1>3 DEF R!Submit
    <3> QED BY <3>1, CalmConnected
  <2>2. sender = r /\ (holding # R!NotResolving => holding.to # r)
    BY <1>3, <2>1 DEF R!Submit
  <2>3. R!Pending = 0
    BY <1>0, <1>3, <2>2 DEF R!Submit
  <2>4. Len(commands) = 0 /\ Len(asked) = 0 /\ Len(replies) + 1 - next = 0
    BY <2>3, PendingBounds DEF R!Pending
  <2>5. commands' = <<r>> /\ UNCHANGED <<sender, holding, mailbox, answer, asked, replies, next>>
    BY <1>3, <2>4 DEF R!Submit
  <2>6. R!Pending' = 1 /\ R!PendingFor(sender)'
    BY <2>2, <2>4, <2>5 DEF R!Pending, R!PendingFor
  <2>7. thread'[r] = "waiting" /\ \A q \in Requests : q # r => thread'[q] = thread[q]
    BY <1>3 DEF R!Submit, R!Goto
  <2> QED BY <2>2, <2>5, <2>6, <2>7
<1>4. CASE R!SubmitFails(r) \/ R!GiveUp(r) \/ R!Disconnect(r)
  <2>1. answer'[r] \in {"503", "504"}
    BY <1>4 DEF R!SubmitFails, R!GiveUp, R!Disconnect, R!Reply
  <2> QED BY <2>1 DEF R!Calm, R!Abandoned
<1>5. CASE R!Receive(r)
  <2>1. mailbox[r] = <<r>>
    BY <1>5 DEF R!Receive
  <2>2. answer'[r] = r /\ \A q \in Requests : q # r => answer'[q] = answer[q]
    BY <1>5, <2>1 DEF R!Receive, R!Reply
  <2>3. mailbox'[r] = <<>> /\ \A q \in Requests : q # r => mailbox'[q] = mailbox[q]
    BY <1>5, <2>1 DEF R!Receive
  <2>4. sender # r /\ holding.to # r
    BY <1>5 DEF R!Receive, R!OneSender
  <2>5. UNCHANGED <<sender, holding, commands, asked, replies, next>>
        /\ \A q \in Requests : q # r => thread'[q] = thread[q]
    BY <1>5 DEF R!Receive, R!Goto
  <2>6. R!Pending' = R!Pending /\ (R!PendingFor(sender) => R!PendingFor(sender)')
    BY <2>5 DEF R!Pending, R!PendingFor
  <2> QED BY <2>2, <2>3, <2>4, <2>5, <2>6
<1>6. CASE R!Cancel(r)
  <2>1. UNCHANGED <<holding, mailbox, answer, commands, asked, replies, next>>
        /\ sender' = Nobody /\ thread[r] = "leaving"
        /\ \A q \in Requests : q # r => thread'[q] = thread[q]
    BY <1>6 DEF R!Cancel, R!Goto
  <2>2. R!Pending = 0
    <3> SUFFICES ASSUME R!Pending # 0 PROVE FALSE
      OBVIOUS
    <3>1. sender \in Requests /\ thread[sender] = "waiting" /\ sender # r
      BY <2>1
    <3>2. mailbox[sender] = <<>> /\ holding.to # sender
      BY <3>1 DEF R!OneSender
    <3>3. thread'[sender] = "waiting" /\ mailbox'[sender] = <<>>
          /\ holding'.to # sender /\ sender' # sender
      BY <2>1, <3>1, <3>2
    <3> QED BY <3>1, <3>3 DEF R!Calm, R!Abandoned, R!Connected
  <2>3. R!Pending' = 0
    BY <2>1, <2>2 DEF R!Pending
  <2> QED BY <2>1, <2>3
<1> QED BY <1>1, <1>2, <1>3, <1>4, <1>5, <1>6 DEF R!Thread

LEMMA OnlyOne ==
  \A a, b, c \in Nat :
    a + b + c <= 1 /\ a > 0 => a = 1 /\ b = 0 /\ c = 0
  OBVIOUS

\* The steps of the bot loop and of the game.
LEMMA BotExchange ==
  ASSUME R!IInv, R!Calm, R!Calm', R!TypeOK',
         R!Send \/ R!Refuse \/ R!Forward \/ R!Hear \/ R!End \/ R!Execute
  PROVE  R!OneExchange'
<1> USE RequestsAssumption DEF R!RequestsAssumption, R!IInv, R!TypeOK, R!OneExchange, R!threadVars, R!botVars, R!gameVars
<1>0. /\ Len(commands) \in Nat /\ Len(asked) \in Nat
      /\ Len(replies) \in Nat /\ next \in 1..Len(replies) + 1
      /\ Len(replies) + 1 - next \in Nat /\ R!Pending \in Nat
  BY PendingBounds
<1>00. R!Pending <= 1
  OBVIOUS
<1>01. Len(commands) + Len(asked) + (Len(replies) + 1 - next) <= 1
  BY <1>00 DEF R!Pending
<1>1. CASE R!Send
  <2>1. /\ holding.to \in Requests /\ holding.of = holding.to
        /\ thread[holding.to] = "waiting" /\ mailbox[holding.to] = <<>>
    BY <1>1 DEF R!Send, R!OneSender
  <2>2. mailbox' = [mailbox EXCEPT ![holding.to] = Append(<<>>, holding.to)]
    BY <1>1, <2>1 DEF R!Send
  <2>3. Append(<<>>, holding.to) = <<holding.to>>
    BY <2>1
  <2>4. \A q \in Requests : mailbox'[q] # <<>> => mailbox'[q] = <<q>> /\ thread[q] = "waiting"
    BY <2>1, <2>2, <2>3
  <2>5. UNCHANGED <<sender, commands, thread, answer, asked, replies, next>>
        /\ holding' = R!NotResolving
    BY <1>1 DEF R!Send
  <2>6. R!Pending' = R!Pending /\ (R!PendingFor(sender) => R!PendingFor(sender)')
    BY <2>5 DEF R!Pending, R!PendingFor
  <2> QED BY <2>4, <2>5, <2>6
<1>2. CASE R!Refuse
  <2>1. Len(commands) > 0
    BY <1>2 DEF R!Refuse
  <2>2. Len(commands) = 1 /\ Len(asked) = 0 /\ Len(replies) + 1 - next = 0
    BY <1>0, <1>01, <2>1, OnlyOne
  <2>3. sender \in Requests /\ thread[sender] = "waiting" /\ Head(commands) = sender
    BY <1>0, <2>1, <2>2 DEF R!Pending, R!PendingFor
  <2>4. sender' = Nobody /\ holding' = [to |-> sender, of |-> sender]
        /\ Len(commands') = 0
        /\ UNCHANGED <<mailbox, thread, answer, asked, replies, next>>
    BY <1>2, <2>2, <2>3 DEF R!Refuse, R!Resolve
  <2>5. R!Pending' = 0
    BY <2>2, <2>4 DEF R!Pending
  <2> QED BY <2>3, <2>4, <2>5
<1>3. CASE R!Forward
  <2>1. Len(commands) > 0
    BY <1>3 DEF R!Forward
  <2>2. Len(commands) = 1 /\ Len(asked) = 0 /\ Len(replies) + 1 - next = 0
    BY <1>0, <1>01, <2>1, OnlyOne
  <2>3. sender \in Requests /\ thread[sender] = "waiting" /\ Head(commands) = sender
    BY <1>0, <2>1, <2>2 DEF R!Pending, R!PendingFor
  <2>4. Len(commands') = 0 /\ asked' = <<sender>>
        /\ UNCHANGED <<sender, mailbox, thread, answer, holding, replies, next>>
    BY <1>3, <2>2, <2>3 DEF R!Forward
  <2>5. R!Pending' = 1 /\ R!PendingFor(sender)'
    BY <2>2, <2>4 DEF R!Pending, R!PendingFor
  <2> QED BY <2>3, <2>4, <2>5
<1>4. CASE R!Hear
  <2>1. PICK i \in 1..Len(replies) :
          /\ R!Resolve(replies[i])
          /\ next' = IF i >= next THEN i + 1 ELSE next
          /\ disturbed' = (disturbed \/ i # next)
    BY <1>4 DEF R!Hear
  <2>2. i = next
    BY <2>1 DEF R!Calm
  <2>3. Len(replies) + 1 - next = 1 /\ Len(commands) = 0 /\ Len(asked) = 0
    BY <1>0, <1>01, <2>1, <2>2
  <2>4. sender \in Requests /\ thread[sender] = "waiting" /\ replies[i] = sender
    <3>1. R!Pending # 0
      BY <2>3 DEF R!Pending
    <3>2. sender \in Requests /\ thread[sender] = "waiting" /\ R!PendingFor(sender)
      BY <3>1
    <3>3. i \in next..Len(replies)
      BY <1>0, <2>1, <2>2
    <3> QED BY <3>2, <3>3 DEF R!PendingFor
  <2>5. sender' = Nobody /\ holding' = [to |-> sender, of |-> sender] /\ next' = next + 1
        /\ UNCHANGED <<mailbox, thread, answer, asked, replies, commands>>
    BY <1>4, <2>1, <2>2, <2>4 DEF R!Hear, R!Resolve
  <2>6. R!Pending' = 0
    BY <2>3, <2>5 DEF R!Pending
  <2> QED BY <2>4, <2>5, <2>6
<1>5. CASE R!End
  <2>1. UNCHANGED <<sender, mailbox, thread, answer, commands, asked, replies, next>>
        /\ holding' = R!NotResolving
    BY <1>5 DEF R!End
  <2>2. R!Pending' = R!Pending /\ (R!PendingFor(sender) => R!PendingFor(sender)')
    BY <2>1 DEF R!Pending, R!PendingFor
  <2> QED BY <2>1, <2>2
<1>6. CASE R!Execute
  <2>1. Len(asked) > 0
    BY <1>6 DEF R!Execute
  <2>2. Len(commands) = 0 /\ Len(asked) = 1 /\ Len(replies) + 1 - next = 0
    <3>1. Len(asked) + Len(commands) + (Len(replies) + 1 - next) <= 1
      BY <1>0, <1>01
    <3>2. Len(asked) = 1 /\ Len(commands) = 0 /\ Len(replies) + 1 - next = 0
      BY ONLY <1>0, <2>1, <3>1, OnlyOne
    <3> QED BY <3>2
  <2>3. sender \in Requests /\ thread[sender] = "waiting" /\ Head(asked) = sender
    BY <1>0, <2>1, <2>2 DEF R!Pending, R!PendingFor
  <2>4. Len(asked') = 0 /\ UNCHANGED <<sender, mailbox, thread, answer, holding, commands, next>>
    BY <1>6, <2>2 DEF R!Execute
  <2>5. CASE replies' = replies
    <3>1. R!Pending' = 0
      BY <2>2, <2>4, <2>5 DEF R!Pending
    <3> QED BY <2>4, <3>1
  <2>6. CASE replies' = Append(replies, Head(asked))
    <3>1. Len(replies') = Len(replies) + 1 /\ replies'[Len(replies) + 1] = sender
      BY <2>3, <2>6
    <3>2. R!Pending' = 1 /\ R!PendingFor(sender)'
      BY <1>0, <2>2, <2>4, <3>1 DEF R!Pending, R!PendingFor
    <3> QED BY <2>3, <2>4, <3>2
  <2> QED BY <1>6, <2>5, <2>6 DEF R!Execute
<1> QED BY <1>1, <1>2, <1>3, <1>4, <1>5, <1>6

LEMMA ExchangeStep == R!IInv /\ [R!Next]_R!vars => R!OneExchange'
<1> SUFFICES ASSUME R!IInv, [R!Next]_R!vars, R!Calm' PROVE R!OneExchange'
  BY DEF R!OneExchange
<1>1. R!Calm /\ R!TypeOK'
  BY CalmBefore, ReplyTypes
<1>2. CASE R!Next
  BY <1>1, <1>2, ThreadExchange, BotExchange DEF R!Next
<1>3. CASE UNCHANGED R!vars
  BY <1>3 DEF R!IInv, R!OneExchange, R!Calm, R!Abandoned, R!Connected, R!Pending, R!PendingFor, R!vars
<1> QED BY <1>2, <1>3

\* The invariant holds in every reachable state, for any number of requests.
THEOREM RepliesInvariance == R!Spec => []RepliesInv
<1>1. R!IInv /\ [R!Next]_R!vars => R!IInv'
  BY ReplyTypes, OwnerStep, SenderStep, ExchangeStep DEF R!IInv
<1> QED BY <1>1, ReplyInit, PTL DEF R!Spec, RepliesInv

\* No entry of the table outlives its request: a tag is not refused with 409
\* for ever (send_and_wait_for_reply, PendingReplies::cancel).
THEOREM NoEntryLeaks == R!Spec => []R!EntryHasOwner
<1>1. R!IInv => R!EntryHasOwner
  BY DEF R!IInv
<1> QED BY <1>1, RepliesInvariance, PTL DEF RepliesInv, OwnAnswerUnlessAbandoned

\* Answers are exchanged between clients only after a request was abandoned or
\* the network repeated or reordered an answer.
THEOREM CalmAnswersAreOwn == R!Spec => []OwnAnswerUnlessAbandoned
<1>1. R!IInv => R!OwnAnswerUnlessAbandoned
  BY DEF R!IInv, R!OneExchange, R!Calm, R!OwnAnswerUnlessAbandoned
<1> QED BY <1>1, RepliesInvariance, PTL DEF RepliesInv, OwnAnswerUnlessAbandoned
=============================================================================
