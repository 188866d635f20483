----------------------------- MODULE Telemetry -----------------------------
(***************************************************************************)
(* How the agent's status reaches the page that shows it.  The agent       *)
(* leaves its newest snapshot in a slot (src/agent/telemetry.rs); a worker *)
(* thread posts it, or the last one again as a heartbeat; the bot process  *)
(* stores it with a revision and the time (src/api/telemetry.rs), each     *)
(* request in a thread of its own (src/api/server.rs); the page polls the  *)
(* store and draws what has a new revision (web/telemetry.js).             *)
(*                                                                         *)
(* Time passes in units.  A step that is due is taken before time goes on: *)
(* scheduling takes no time.                                               *)
(***************************************************************************)
EXTENDS Naturals

CONSTANTS
  Heartbeat,    \* TELEMETRY_HEARTBEAT
  PostTimeout,  \* timeout of the worker's HTTP client
  Ttl,          \* TELEMETRY_ONLINE_TTL
  MaxPublished, \* bound: snapshots
  MaxFaults,    \* bound: failed posts, crashes and restarts
  None

ASSUME TelemetryAssumption ==
  /\ {Heartbeat, PostTimeout, Ttl, MaxPublished, MaxFaults} \subseteq Nat
  /\ Heartbeat > 0 /\ PostTimeout > 0 /\ MaxPublished > 0
  /\ None \notin [number : Nat, tool : BOOLEAN]

\* Two posts and the wait between them, with the constants of the code: 6 of 8
\* seconds.
ASSUME TtlAssumption == Heartbeat + 2 * PostTimeout <= Ttl

VARIABLES
  agent,     \* whether its process runs
  decision,  \* DecisionTelemetry: status, and whether there is an active tool
  newest,    \* the newest snapshot
  slot,      \* PendingTelemetry
  last,      \* last_payload of the worker
  posting,   \* the snapshot it is posting
  clock,     \* time since it began to post or to wait
  sent,      \* the post, until the bot process handles it
  late,      \* posts the worker has given up and the bot process may still handle
  store,     \* AgentTelemetryState
  page,      \* what the page shows
  \* history
  published, faults,
  steady     \* no post has failed since the store was last updated

worker == <<slot, last, posting, clock, sent, late>>
vars == <<agent, decision, newest, worker, store, page, published, faults, steady>>

Statuses == {"idle", "requesting", "ready", "executing", "completed", "failed"}

Decision(status) == [status |-> status, tool |-> status = "executing"]

\* Told apart by a number.  One that reads like the snapshot before it is no
\* new one but a heartbeat.
Snapshots == [number : 1..MaxPublished, tool : BOOLEAN]

\* AgentTelemetryState of a new bot process.
NewStore == [revision |-> 0, snapshot |-> None, age |-> Ttl + 1]

NewPage == [revision |-> None, snapshot |-> None, current |-> FALSE]

TypeOK ==
  /\ agent \in BOOLEAN /\ steady \in BOOLEAN
  /\ decision \in {Decision(s) : s \in Statuses}
  /\ {newest, slot, last, posting, sent} \subseteq Snapshots \cup {None}
  /\ clock \in 0..(IF posting = None THEN Heartbeat ELSE PostTimeout)
  /\ late \subseteq [snapshot : Snapshots, id : 1..MaxFaults]
  /\ store \in [revision : Nat, snapshot : Snapshots \cup {None}, age : 0..(Ttl + 1)]
  /\ published \in 0..MaxPublished /\ faults \in 0..MaxFaults

-----------------------------------------------------------------------------
(* The agent *)

Snapshot(d) == [number |-> published + 1, tool |-> d.tool]

\* Mutant: a snapshot that waits keeps its place.
PublishIfRoom(d) ==
  /\ published < MaxPublished
  /\ published' = published + 1
  /\ newest' = Snapshot(d)
  /\ slot' = IF slot = None THEN Snapshot(d) ELSE slot
  /\ decision' = d

\* publish: the new snapshot replaces one that waits.
Publish(d) ==
  /\ published < MaxPublished
  /\ published' = published + 1
  /\ newest' = Snapshot(d)
  /\ slot' = Snapshot(d)
  /\ decision' = d

\* The decision of the loop in run_agent_loop goes on, and is published.
Decides(from, d) ==
  /\ agent /\ decision.status \in from
  /\ Publish(d)
  /\ UNCHANGED <<agent, last, posting, clock, sent, late, store, page, faults, steady>>

BetweenTurns == {"idle", "completed", "failed"}

\* publish_if_due, or a turn without decision.
Again == Decides(BetweenTurns, decision)

Requesting == Decides(BetweenTurns, Decision("requesting"))

Failed == Decides({"requesting"}, Decision("failed"))

\* With calls, or without.
Ready == \E s \in {"ready", "completed"} : Decides({"requesting"}, Decision(s))

StartTool == Decides({"ready"}, Decision("executing"))

FinishTool == Decides({"executing"}, Decision("ready"))

Finish == Decides({"ready", "completed"}, Decision("completed"))

-----------------------------------------------------------------------------
(* The worker: run_worker *)

Post(snapshot) ==
  /\ posting' = snapshot /\ sent' = snapshot /\ clock' = 0

\* Mutant: the heartbeat repeats the first snapshot.
TakeKeepsFirst ==
  /\ agent /\ posting = None /\ slot # None
  /\ Post(slot)
  /\ slot' = None /\ last' = IF last = None THEN slot ELSE last
  /\ UNCHANGED <<agent, decision, newest, late, store, page, published, faults, steady>>

Take ==
  /\ agent /\ posting = None /\ slot # None
  /\ Post(slot)
  /\ last' = slot /\ slot' = None
  /\ UNCHANGED <<agent, decision, newest, late, store, page, published, faults, steady>>

\* After the time of a heartbeat, or sooner: a wait may end without cause.
Beat ==
  /\ agent /\ posting = None /\ slot = None /\ last # None
  /\ Post(last)
  /\ UNCHANGED <<agent, decision, newest, slot, last, late, store, page, published, faults, steady>>

\* The worker goes on to wait.
GoOn == posting' = None /\ sent' = None /\ clock' = 0

\* The response has come, or its connection has broken.
PostEnds ==
  /\ posting # None /\ sent = None
  /\ GoOn
  /\ UNCHANGED <<agent, decision, newest, slot, last, late, store, page, published, faults, steady>>

Fault == faults < MaxFaults /\ faults' = faults + 1 /\ steady' = FALSE

\* The bot process is not there to accept it.
PostFails ==
  /\ sent # None
  /\ GoOn /\ Fault
  /\ UNCHANGED <<agent, decision, newest, slot, last, late, store, page, published>>

\* What the worker gives up may still be handled.
GiveUp == late' = IF sent = None THEN late ELSE late \cup {[snapshot |-> sent, id |-> faults']}

PostTimesOut ==
  /\ posting # None /\ clock = PostTimeout
  /\ GoOn /\ Fault /\ GiveUp
  /\ UNCHANGED <<agent, decision, newest, slot, last, store, page, published>>

-----------------------------------------------------------------------------
(* The bot process *)

\* Mutant: a heartbeat changes nothing.
PublishAtChanged(s, snapshot) ==
  IF s.snapshot = snapshot THEN s
  ELSE [revision |-> s.revision + 1, snapshot |-> snapshot, age |-> 0]

\* publish_at
PublishAt(s, snapshot) ==
  [revision |-> IF s.snapshot = snapshot THEN s.revision ELSE s.revision + 1,
   snapshot |-> snapshot, age |-> 0]

\* snapshot_at
Online(s) == s.age <= Ttl

\* POST /agent/telemetry
Handle ==
  /\ sent # None
  /\ store' = PublishAt(store, sent) /\ sent' = None /\ steady' = TRUE
  /\ UNCHANGED <<agent, decision, newest, slot, last, posting, clock, late, page, published, faults>>

HandleLate ==
  /\ \E p \in late :
       /\ late' = late \ {p}
       /\ store' \in {PublishAt(store, p.snapshot), store}
  /\ UNCHANGED <<agent, decision, newest, slot, last, posting, clock, sent, page, published, faults, steady>>

\* Nothing of the store is saved, nor of the requests under way; the page keeps
\* what it shows.
BotRestarts ==
  /\ Fault
  /\ store' = NewStore /\ sent' = None /\ late' = {}
  /\ page' = [page EXCEPT !.current = FALSE]
  /\ UNCHANGED <<agent, decision, newest, slot, last, posting, clock, published>>

AgentDies ==
  /\ agent /\ Fault
  /\ agent' = FALSE
  /\ GiveUp /\ GoOn /\ slot' = None /\ last' = None
  /\ UNCHANGED <<decision, newest, store, page, published>>

\* TelemetryPublisher::new, and the first snapshot.
AgentStarts ==
  /\ ~agent /\ agent' = TRUE
  /\ Publish(Decision("idle")) /\ clock' = 0
  /\ UNCHANGED <<last, posting, sent, late, store, page, faults, steady>>

\* poll of the page; `force' when the user asks for it or comes back to it.
PagePolls ==
  /\ \E force \in BOOLEAN :
       IF force \/ store.revision # page.revision
         THEN page' = [revision |-> store.revision, snapshot |-> store.snapshot, current |-> TRUE]
         ELSE UNCHANGED page
  /\ UNCHANGED <<agent, decision, newest, worker, store, published, faults, steady>>

Tick ==
  /\ agent => IF posting # None THEN clock < PostTimeout ELSE slot = None /\ clock < Heartbeat
  /\ clock' = IF agent THEN clock + 1 ELSE clock
  /\ store' = [store EXCEPT !.age = IF @ > Ttl THEN @ ELSE @ + 1]
  /\ UNCHANGED <<agent, decision, newest, slot, last, posting, sent, late, page, published, faults, steady>>

Init ==
  /\ agent = TRUE /\ decision = Decision("idle")
  /\ published = 1 /\ newest = [number |-> 1, tool |-> FALSE] /\ slot = newest
  /\ last = None /\ posting = None /\ clock = 0 /\ sent = None /\ late = {}
  /\ store = NewStore /\ page = NewPage
  /\ faults = 0 /\ steady = FALSE

Worker == Take \/ Beat \/ PostEnds

Next ==
  \/ Again \/ Requesting \/ Failed \/ Ready \/ StartTool \/ FinishTool \/ Finish
  \/ Take \/ Beat \/ PostEnds \/ PostFails \/ PostTimesOut
  \/ Handle \/ HandleLate \/ BotRestarts \/ AgentDies \/ AgentStarts
  \/ PagePolls \/ Tick

\* The threads run, and time passes.  The agent's loop may rest for ever.
Spec == Init /\ [][Next]_vars /\ WF_vars(Worker) /\ WF_vars(Handle) /\ WF_vars(Tick)

-----------------------------------------------------------------------------
(* Properties *)

\* While posts succeed the agent is shown as online, however long each of them
\* takes: the TTL leaves room for two of them and the wait between them, also
\* when the agent publishes nothing (API.md: "a snapshot becomes stale after
\* eight seconds without a heartbeat").
SteadyAgentIsOnline == steady => Online(store)

\* Requests are handled in any order, but the store goes back to an older
\* snapshot only by a post that the worker had given up.
BackOnlyByLatePost ==
  [][(store.snapshot # None /\ store'.snapshot # None
       /\ store'.snapshot.number < store.snapshot.number) => late' # late]_vars

\* The publisher may drop snapshots, posts may fail and be handled late, either
\* process may restart: in the end a running agent's newest snapshot is shown.
NewestIsShown == <>[](agent => store.snapshot = newest)

\* A tool that has ended, or whose agent has died, is not shown as running by
\* an agent that is online for ever.
ShownToolRuns ==
  <>[](store.snapshot # None /\ store.snapshot.tool /\ Online(store) => agent /\ decision.tool)

\* What is shown as online becomes true in the end, whatever was lost before.
TruthIsShown == NewestIsShown /\ ShownToolRuns

\* The page draws only new revisions.  While the bot process runs it misses
\* nothing, also when the store goes back to an older snapshot.
PageMissesNothing ==
  page.current /\ page.revision = store.revision => page.snapshot = store.snapshot

\* What the store and the page keep.
TelemetryInv == TypeOK /\ SteadyAgentIsOnline /\ PageMissesNothing
=============================================================================
