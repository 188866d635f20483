----------------------------- MODULE Navigation -----------------------------
(***************************************************************************)
(* What moves the bot: the move goal, following, routes and hunts planned  *)
(* by the helper mod, collecting on arrival, and the status that the       *)
(* control API shows of all this.  src/bot/runtime.rs, commands.rs and     *)
(* navigation.rs, with bot_path_node, bot_gather_path, bot_hunt_path,      *)
(* bot_hunt and run_hunt_step of scripts/init.lua.                         *)
(*                                                                         *)
(* A route is the number of its waypoints; the physics and the world       *)
(* decide how many a tick reaches.  AntiStuck appears with its number of   *)
(* detours only (see that module).  Mining shows only as long as it keeps  *)
(* the bot standing, and a transfer or craft as one flag.                  *)
(*                                                                         *)
(* Channels as in NativeMining.                                            *)
(***************************************************************************)
EXTENDS Integers, Sequences

CONSTANTS
  MaxWaypoints,   \* bound: waypoints of a route
  MaxAttempts,    \* MAX_RECOVERY_ATTEMPTS
  MaxStrikes,     \* HUNT_MAX_STRIKES
  MaxCommands,    \* bound: commands of a behaviour
  MaxQueue,       \* bound: commands on their way to the server
  MaxReplies      \* bound: replies of the helper in a behaviour

ASSUME NavigationAssumption ==
  /\ MaxWaypoints \in Nat \ {0}
  /\ MaxAttempts \in Nat
  /\ MaxStrikes \in Nat
  /\ MaxCommands \in Nat
  /\ MaxQueue \in Nat
  /\ MaxReplies \in Nat

VARIABLES
  \* the bot
  goal,         \* move_goal
  follow,       \* follow_enabled
  mining,       \* native_mining: "none", or its origin
  other,        \* a transfer or a craft is running
  nav,          \* NavigationSnapshot: status, and whether there is a last_error
  stuck,        \* recovery attempts of AntiStuck
  forward,      \* the bot was told to go forward in the last tick
  waiting,      \* tags of routes that an HTTP request waits for
  \* the server
  helper,       \* "json", "unreadable" (serialized replies), or "absent"
  hunt,         \* hunt_targets of the bot
  nextHunt,     \* next_hunt_id
  steps,        \* hunts whose next step is scheduled, a sequence
  \* the network
  toServer, replies, next,
  \* history
  commands,     \* commands so far
  intent,       \* the last command that decides where the bot goes
  owed,         \* a route or hunt was under way at that command
  disturbed     \* a reply was received again or out of order

bot == <<goal, follow, mining, other, nav, stuck, forward, waiting>>
server == <<helper, hunt, nextHunt, steps, replies>>
vars == <<goal, follow, mining, other, nav, stuck, forward, waiting, helper, hunt,
          nextHunt, steps, toServer, replies, next, commands, intent, owed, disturbed>>

-----------------------------------------------------------------------------
(* Data *)

Tags == {"path", "hunt_path"}
NoGoal == [left |-> 0, arrival |-> "none", by |-> "nobody", id |-> 0]
NoHunt == [id |-> 0, running |-> FALSE, strikes |-> 0]

Goals == [left : 1..MaxWaypoints, arrival : {"none", "collect", "hunt"},
          by : {"move", "route", "hunt"}, id : Nat]

TypeOK ==
  /\ goal \in Goals \union {NoGoal}
  /\ follow \in BOOLEAN /\ other \in BOOLEAN /\ forward \in BOOLEAN
  /\ mining \in {"none", "command", "arrival"}
  /\ nav \in [status : {"idle", "moving", "following", "mining", "recovering", "failed"},
              error : BOOLEAN]
  /\ nav.status = "failed" => nav.error
  /\ stuck \in 0..MaxAttempts
  /\ waiting \subseteq Tags
  /\ hunt.id < nextHunt /\ hunt.strikes <= MaxStrikes
  /\ next \in 1..Len(replies) + 1

Init ==
  /\ goal = NoGoal /\ follow = FALSE /\ mining = "none" /\ other = FALSE
  /\ nav = [status |-> "idle", error |-> FALSE]
  /\ stuck = 0 /\ forward = FALSE /\ waiting = {}
  /\ helper \in {"json", "unreadable", "absent"}
  /\ hunt = NoHunt /\ nextHunt = 1 /\ steps = <<>>
  /\ toServer = <<>> /\ replies = <<>> /\ next = 1
  /\ commands = 0 /\ intent = "none" /\ owed = FALSE /\ disturbed = FALSE

\* NavigationSnapshot::begin, stop and fail
Begin(status) == [status |-> status, error |-> FALSE]
Stopped == Begin("idle")
FailedNav == [status |-> "failed", error |-> TRUE]

Command(type, arrival, id) == [type |-> type, arrival |-> arrival, id |-> id]
Reply(tag, says, arrival, id) == [tag |-> tag, says |-> says, arrival |-> arrival, id |-> id]

-----------------------------------------------------------------------------
(* Commands, from the HTTP API or from an allowed player's chat *)

\* A route was asked for or a hunt is going on; following also keeps a goal that
\* ends in a hunt.
UnderWay ==
  \/ waiting # {}
  \/ steps # <<>>
  \/ \E i \in 1..Len(toServer) : toServer[i].type = "hunt"
  \/ \E i \in next..Len(replies) : replies[i].tag = "hunt"

Accept(name) ==
  /\ commands < MaxCommands
  /\ commands' = commands + 1
  /\ intent' = name
  /\ owed' = (UnderWay \/ (name = "follow" /\ goal.arrival = "hunt"))
  /\ UNCHANGED <<server, next, disturbed, forward>>

\* build_move_goal
Move ==
  /\ Accept("move")
  /\ goal' = [left |-> 1, arrival |-> "none", by |-> "move", id |-> 0]
  /\ follow' = FALSE
  /\ stuck' = 0
  /\ nav' = Begin("moving")
  /\ UNCHANGED <<mining, other, waiting, toServer>>

\* The goal is kept, and followed first.
Follow ==
  /\ Accept("follow")
  /\ follow' = TRUE
  /\ stuck' = 0
  /\ nav' = Begin(IF goal # NoGoal THEN "moving" ELSE "following")
  /\ UNCHANGED <<goal, mining, other, waiting, toServer>>

\* mutant: a stop leaves the collect on arrival running
StopKeepsMining ==
  /\ Accept("stop")
  /\ goal' = NoGoal /\ follow' = FALSE /\ other' = FALSE
  /\ stuck' = 0
  /\ nav' = Stopped
  /\ UNCHANGED <<waiting, toServer, mining>>

Stop ==
  /\ Accept("stop")
  /\ goal' = NoGoal /\ follow' = FALSE /\ mining' = "none" /\ other' = FALSE
  /\ stuck' = 0
  /\ nav' = Stopped
  /\ UNCHANGED <<waiting, toServer>>

\* NavigateNode, GatherResource, HuntFood; a second request on the tag is refused
AskRoute ==
  /\ commands < MaxCommands
  /\ commands' = commands + 1
  /\ \E tag \in Tags \ waiting, arrival \in {"none", "collect"} :
       /\ Len(toServer) < MaxQueue
       /\ tag = "hunt_path" => arrival = "none"
       /\ waiting' = waiting \union {tag}
       /\ toServer' = Append(toServer, Command(tag, arrival, 0))
  /\ intent' = "route" /\ owed' = FALSE
  /\ UNCHANGED <<goal, follow, mining, other, nav, stuck, forward, server, next, disturbed>>

\* The HTTP request gives up waiting for its route.
GiveUpRoute ==
  /\ waiting # {}
  /\ \E tag \in waiting : waiting' = waiting \ {tag}
  /\ UNCHANGED <<goal, follow, mining, other, nav, stuck, forward, server, toServer, next,
                 commands, intent, owed, disturbed>>

Idle == mining = "none" /\ ~other

\* Mine and Collect, and the other native actions
StartAction ==
  /\ commands < MaxCommands
  /\ commands' = commands + 1
  /\ Idle
  /\ \/ mining' = "command" /\ UNCHANGED other
     \/ other' = TRUE /\ UNCHANGED mining
  /\ UNCHANGED <<goal, follow, nav, stuck, forward, waiting, server, toServer, next,
                 intent, owed, disturbed>>

EndAction ==
  /\ \/ /\ mining # "none"
        /\ mining' = "none"
        /\ nav' \in IF mining = "arrival" THEN {Stopped, FailedNav} ELSE {nav}
        /\ UNCHANGED other
     \/ /\ other /\ other' = FALSE
        /\ UNCHANGED <<mining, nav>>
  /\ UNCHANGED <<goal, follow, stuck, forward, waiting, server, toServer, next, commands,
                 intent, owed, disturbed>>

-----------------------------------------------------------------------------
(* Replies *)

\* mutant: a new route does not begin a new navigation
AdoptQuietly(r) ==
  /\ \E n \in 1..MaxWaypoints :
       goal' = [left |-> n, arrival |-> r.arrival,
                by |-> IF r.tag = "hunt" THEN "hunt" ELSE "route", id |-> r.id]
  /\ follow' = FALSE
  /\ stuck' = 0
  /\ UNCHANGED nav

Adopt(r) ==
  /\ \E n \in 1..MaxWaypoints :
       goal' = [left |-> n, arrival |-> r.arrival,
                by |-> IF r.tag = "hunt" THEN "hunt" ELSE "route", id |-> r.id]
  /\ follow' = FALSE
  /\ stuck' = 0
  /\ nav' = Begin("moving")

Standing == goal = NoGoal /\ ~follow

\* A route is for the request that waits for it; a refusal fails the navigation
\* only if there is none to go on with.
HearRoute(r) ==
  /\ waiting' = waiting \ {r.tag}
  /\ IF r.tag \notin waiting /\ r.says # "unsupported" THEN UNCHANGED <<goal, follow, nav, stuck>>
     ELSE CASE r.says = "route" -> Adopt(r)
            [] r.says = "no" ->
                 /\ nav' = IF Standing THEN FailedNav ELSE [nav EXCEPT !.error = TRUE]
                 /\ UNCHANGED <<goal, follow, stuck>>
            [] r.says = "unreadable" ->
                 /\ nav' = FailedNav
                 /\ UNCHANGED <<goal, follow, stuck>>
            [] r.says = "unsupported" ->
                 /\ nav' = IF Standing THEN FailedNav ELSE nav
                 /\ UNCHANGED <<goal, follow, stuck>>

\* Nobody waits for the news of a hunt: they count whenever they come.
HearHunt(r) ==
  /\ CASE r.says = "route" -> Adopt(r)
       [] r.says = "done" -> nav' = Stopped /\ UNCHANGED <<goal, follow, stuck>>
       [] r.says \in {"no", "unreadable"} -> nav' = FailedNav /\ UNCHANGED <<goal, follow, stuck>>
       [] r.says = "unsupported" ->
            /\ nav' = IF nav.status = "moving" /\ goal = NoGoal THEN FailedNav ELSE nav
            /\ UNCHANGED <<goal, follow, stuck>>
  /\ UNCHANGED waiting

Hear ==
  \E i \in 1..Len(replies) :
    /\ next' = IF i >= next THEN i + 1 ELSE next
    /\ disturbed' = (disturbed \/ i # next)
    /\ IF replies[i].tag = "hunt" THEN HearHunt(replies[i]) ELSE HearRoute(replies[i])
    /\ UNCHANGED <<mining, other, forward, server, toServer, commands, intent, owed>>

-----------------------------------------------------------------------------
(* The movement tick *)

\* The verdicts that AntiStuck can reach, from its number of detours.
Verdict(attempts, verdict) ==
  \/ verdict = "direct" /\ stuck' \in {0, attempts}
  \/ verdict = "recover" /\ attempts > 0 /\ stuck' = attempts
  \/ verdict = "recover" /\ attempts < MaxAttempts /\ stuck' = attempts + 1
  \/ verdict = "give_up" /\ attempts = MaxAttempts /\ stuck' = 0

\* The action of the goal's arrival, the task it starts and the status it leaves.
Arrive(action, found) ==
  LET busy == mining # "none" IN
  CASE action = "collect" ->
         [mining |-> IF ~busy /\ found THEN "arrival" ELSE mining,
          nav |-> IF ~busy /\ found THEN Begin("mining") ELSE FailedNav]
    [] action = "hunt" -> [mining |-> mining, nav |-> Begin("moving")]
    [] OTHER -> [mining |-> mining,
                 nav |-> IF follow THEN Begin("following") ELSE Stopped]

\* What the bot does in a tick; mutant of Shown: giving up does not fail the
\* navigation.
ShownByMotion(n, verdict, digs, goes, follows, acted) ==
  [n EXCEPT !.status =
     IF verdict = "recover" THEN "recovering"
     ELSE IF digs THEN "mining"
     ELSE IF goes THEN "moving"
     ELSE IF follows THEN "following"
     ELSE IF acted THEN "moving" ELSE "idle"]

\* The status of a tick: a failure, or what the bot does.
Shown(n, verdict, digs, goes, follows, acted) ==
  CASE verdict = "give_up" -> FailedNav
    [] verdict = "direct" /\ n.status = "failed" -> n
    [] OTHER -> ShownByMotion(n, verdict, digs, goes, follows, acted)

\* mutant: a bot that mines is moved as well
MovingAnyway(digs, goes, wants) == goes \/ (follow /\ wants)

\* navigation_moving
Moving(digs, goes, wants) == ~digs /\ (goes \/ (follow /\ wants))

Tick ==
  \E reached \in 0..goal.left, found \in BOOLEAN, wants \in BOOLEAN,
     verdict \in {"direct", "recover", "give_up"} :
    LET arrived == goal # NoGoal /\ reached = goal.left
        action  == IF arrived THEN goal.arrival ELSE "none"
        after   == IF arrived THEN Arrive(action, found) ELSE [mining |-> mining, nav |-> nav]
        goes    == goal # NoGoal /\ ~arrived
        digs    == after.mining # "none"
        moving  == Moving(digs, goes, wants)
        gone    == verdict = "give_up"
    IN
    /\ action = "hunt" => Len(toServer) < MaxQueue
    /\ IF moving THEN Verdict(IF reached > 0 THEN 0 ELSE stuck, verdict)
       ELSE verdict = "direct" /\ stuck' = 0
    /\ goal' = IF goes /\ ~gone THEN [goal EXCEPT !.left = @ - reached] ELSE NoGoal
    /\ follow' = (follow /\ ~gone)
    /\ mining' = after.mining
    /\ nav' = Shown(after.nav, verdict, digs, goes, follow, action # "none")
    /\ forward' = (verdict = "recover" \/ (moving /\ ~gone /\ wants))
    /\ toServer' = IF action = "hunt" THEN Append(toServer, Command("hunt", "none", goal.id))
                   ELSE toServer
    /\ UNCHANGED <<other, waiting, server, next, commands, intent, owed, disturbed>>

-----------------------------------------------------------------------------
(* The helper mod *)

Take(type) ==
  /\ toServer # <<>>
  /\ Head(toServer).type = type
  /\ toServer' = Tail(toServer)
  /\ UNCHANGED <<bot, helper, next, commands, intent, owed, disturbed>>

\* command_result, which serializes the reply where there is no JSON
Answer(tag, says, arrival, id) ==
  /\ Len(replies) < MaxReplies
  /\ replies' = Append(replies,
       IF helper = "json" THEN Reply(tag, says, arrival, id) ELSE Reply(tag, "unreadable", "none", 0))

\* A server without the helper refuses every command.
ServerRefuses ==
  /\ helper = "absent"
  /\ \E type \in Tags \union {"hunt"} :
       /\ Take(type)
       /\ Len(replies) < MaxReplies
       /\ replies' = Append(replies, Reply(type, "unsupported", "none", 0))
  /\ UNCHANGED <<hunt, nextHunt, steps>>

\* bot_path_node and bot_gather_path
ServerPath ==
  /\ helper # "absent"
  /\ Take("path")
  /\ \/ Answer("path", "route", Head(toServer).arrival, 0)
     \/ Answer("path", "no", "none", 0)
  /\ UNCHANGED <<hunt, nextHunt, steps>>

\* bot_hunt_path: a hunt that has not begun is replaced.
ServerHuntPath ==
  /\ helper # "absent"
  /\ Take("hunt_path")
  /\ \/ /\ ~hunt.running
        /\ hunt' = [id |-> nextHunt, running |-> FALSE, strikes |-> 0]
        /\ nextHunt' = nextHunt + 1
        /\ Answer("hunt_path", "route", "hunt", nextHunt)
     \/ /\ Answer("hunt_path", "no", "none", 0)
        /\ UNCHANGED <<hunt, nextHunt>>
  /\ UNCHANGED steps

Found(id) == hunt.id = id /\ id # 0

\* mutant: a hunt that is going on is begun again
StartableTwice(id) == Found(id)

\* The task is there and no step of it is scheduled.
Startable(id) == Found(id) /\ ~hunt.running

\* bot_hunt: the task may have expired.
ServerHunt ==
  /\ helper # "absent"
  /\ Take("hunt")
  /\ LET id == Head(toServer).id IN
     \/ /\ Startable(id)
        /\ hunt' = [hunt EXCEPT !.running = TRUE]
        /\ steps' = Append(steps, id)
        /\ UNCHANGED replies
     \/ /\ Answer("hunt", "no", "none", id)
        /\ hunt' \in IF Startable(id) THEN {NoHunt} ELSE {hunt}
        /\ UNCHANGED steps
  /\ UNCHANGED nextHunt

StrikesLeft == hunt.strikes < MaxStrikes

\* run_hunt_step: a strike and the next step, or the end.
HuntStep ==
  /\ steps # <<>>
  /\ LET id == Head(steps) IN
     \/ /\ ~(Found(id) /\ hunt.running)
        /\ steps' = Tail(steps)
        /\ UNCHANGED <<hunt, replies>>
     \/ /\ Found(id) /\ hunt.running
        /\ StrikesLeft
        /\ hunt' = [hunt EXCEPT !.strikes = @ + 1]
        /\ steps' = Append(Tail(steps), id)
        /\ UNCHANGED replies
     \/ /\ Found(id) /\ hunt.running
        /\ steps' = Tail(steps)
        /\ \/ Answer("hunt", "no", "none", id) /\ hunt' = NoHunt
           \/ /\ hunt.strikes > 0 \/ StrikesLeft
              /\ Answer("hunt", "done", "none", id) /\ hunt' = NoHunt
           \/ Answer("hunt", "route", "hunt", id) /\ hunt' = [hunt EXCEPT !.running = FALSE]
           \/ Answer("hunt", "no", "none", id) /\ hunt' = [hunt EXCEPT !.running = FALSE]
  /\ UNCHANGED <<bot, helper, nextHunt, toServer, next, commands, intent, owed, disturbed>>

Next ==
  \/ Move \/ Follow \/ Stop \/ AskRoute \/ GiveUpRoute \/ StartAction \/ EndAction
  \/ Hear \/ Tick
  \/ ServerRefuses \/ ServerPath \/ ServerHuntPath \/ ServerHunt \/ HuntStep

Spec == Init /\ [][Next]_vars

-----------------------------------------------------------------------------
(* Properties *)

\* The last command decides where the bot goes, unless a route or a hunt was
\* under way when it was given, or the network repeated or reordered a reply:
\* the routes of requests and hunts that are over have no power any more.
CommandPrevails ==
  owed \/ disturbed \/
    /\ intent = "stop" => goal = NoGoal /\ ~follow /\ mining # "arrival"
    /\ intent = "move" => goal.by \in {"move", "nobody"} /\ ~follow
    /\ intent = "follow" => follow \/ nav.status = "failed"

\* A status of motion has its cause: nothing takes the cause away and leaves the
\* status behind, which would keep the agent from planning.
MotionHasCause ==
  /\ nav.status = "following" => follow
  /\ nav.status = "recovering" => goal # NoGoal \/ follow

\* Whatever ends following without a command, and leaves the bot without a route
\* to go instead, is visible as a failure: with a goal as well as without.
EndOfFollowIsReported ==
  [][follow /\ ~follow' /\ goal' = NoGoal /\ commands' = commands => nav' = FailedNav]_vars

\* The bot stands still while it mines: no detour of AntiStuck carries it away.
MiningStandsStill ==
  [][mining # "none" /\ mining' # "none" /\ forward' => forward]_vars

\* Two native actions run together only where a collect on arrival starts.
OverlapOnlyOnArrival == mining # "none" /\ other => mining = "arrival"

\* One hunt strikes at a time, at the pace of one chain of steps, and not more
\* often than allowed, however often it is planned, begun and planned again.
OneStrikeChain ==
  /\ Len(steps) <= 1
  /\ (steps # <<>>) <=> hunt.running

\* What every state of the bot's movement and its hunts keeps.
NavigationInv == TypeOK /\ MotionHasCause /\ OverlapOnlyOnArrival /\ OneStrikeChain

\* "Stop movement and follow." (API.md:211)
StopStops == intent = "stop" /\ ~disturbed => goal = NoGoal /\ ~follow

\* "A failed navigation and its `last_error` remain visible until the next
\* movement command or `/stop`." (API.md:152)
FailureStaysVisible ==
  [][nav.status = "failed" /\ commands' = commands /\ waiting' = waiting => nav'.status = "failed"]_vars
=============================================================================
