------------------------------ MODULE AntiStuck ------------------------------
(***************************************************************************)
(* AntiStuck of src/game/navigation.rs: judges in every movement tick      *)
(* whether the bot makes progress, sends it on short detours when it does  *)
(* not, and gives up after MaxAttempts detours without progress.           *)
(*                                                                         *)
(* Positions are the elements of Places with their horizontal distances;   *)
(* where a tick leaves the bot is free, the physics and the server decide. *)
(* Yaws are quarter turns.  Time and distance are integers; in the code a  *)
(* tick lasts 0.2 to 0.25 s, StallTime is 1.5 s and RecoveryTime 1 s.      *)
(***************************************************************************)
EXTENDS Integers

CONSTANTS
  Places,         \* positions of the bot and of waypoints
  Distance(_, _), \* horizontal_distance
  Progress,       \* MIN_PROGRESS_BS
  MaxTick,        \* the longest tick
  StallTime,      \* STALL_SECONDS
  RecoveryTime,   \* RECOVERY_SECONDS
  MaxAttempts,    \* MAX_RECOVERY_ATTEMPTS
  None            \* no place

Yaws == 0..3
Ticks == 1..MaxTick

\* Assumed of the constants wherever this module is instantiated.
AntiStuckAssumption ==
  /\ None \notin Places
  /\ \A p, q \in Places : Distance(p, q) \in Nat
  /\ Progress \in Nat \ {0}
  /\ MaxTick \in Nat \ {0}
  /\ StallTime \in Nat \ {0}
  /\ RecoveryTime \in Nat \ {0}
  /\ MaxAttempts \in Nat

VARIABLES
  memory,     \* the fields of AntiStuck
  position,   \* the bot
  goal,       \* the waypoint; None when the bot follows a player or stands
  directive,  \* kind and yaw of the last RecoveryDirective
  elapsed,    \* history: time without progress
  turns       \* history: the turns taken meanwhile

vars == <<memory, position, goal, directive, elapsed, turns>>

Fresh == [anchor |-> None, best |-> 0, target |-> None, stalled |-> 0,
          left |-> 0, heading |-> 0, attempts |-> 0]

\* best is used only with a target, heading only during a detour
Memories ==
  [anchor : Places \union {None}, best : Nat, target : Places \union {None},
   stalled : 0..StallTime - 1, left : 0..RecoveryTime, heading : Yaws,
   attempts : 0..MaxAttempts]

TypeOK ==
  /\ memory \in Memories
  /\ IF memory.anchor = None THEN memory = Fresh ELSE memory.target = goal
  /\ position \in Places /\ goal \in Places \union {None}
  /\ directive \in [kind : {"reset", "direct", "recover", "give_up"}, yaw : Yaws]
  /\ elapsed \in Nat
  /\ turns \subseteq Yaws

Init ==
  /\ memory = Fresh
  /\ position \in Places
  /\ goal = None
  /\ directive = [kind |-> "reset", yaw |-> 0]
  /\ elapsed = 0 /\ turns = {}

-----------------------------------------------------------------------------
(* adjust, for a bot that is meant to move *)

\* recovery_turn
Turn(attempt) == CASE attempt = 1 -> 1 [] attempt = 2 -> 3 [] OTHER -> 2

\* The state after target_changed, anchor and best_target_distance were looked
\* after.  The target differs from the remembered one only after a reset.
Measured ==
  LET new == memory.anchor = None \/ memory.target # goal
      m   == IF new THEN [Fresh EXCEPT !.anchor = position] ELSE memory
  IN [m EXCEPT !.target = goal,
               !.best = IF goal = None THEN 0
                        ELSE IF new THEN Distance(position, goal) ELSE @]

\* mutant: a displacement is progress although the waypoint is no nearer
ApproachedSideways(m) == Distance(m.anchor, position) >= Progress

Approached(m) ==
  /\ Distance(m.anchor, position) >= Progress
  /\ goal # None => m.best - Distance(position, goal) >= Progress

Tell(kind, yaw) == directive' = [kind |-> kind, yaw |-> yaw]

\* The detour is over: progress is measured from here.
Over(m) == [m EXCEPT !.left = 0, !.anchor = position, !.stalled = 0, !.heading = 0]

\* mutant: a detour turns away from the wanted yaw of each tick
WantedYaw(m, yaw) == (yaw + Turn(m.attempts)) % 4

\* The detour goes on with its own heading.
DetourYaw(m, yaw) == m.heading

Detour(dt, yaw) ==
  LET m == Measured IN
  /\ m.left > 0
  /\ memory' = IF m.left <= dt THEN Over(m) ELSE [m EXCEPT !.left = @ - dt]
  /\ Tell("recover", DetourYaw(m, yaw))
  /\ elapsed' = elapsed + dt
  /\ UNCHANGED turns

Advance(dt, yaw) ==
  LET m == Measured IN
  /\ m.left = 0
  /\ Approached(m)
  /\ memory' = [m EXCEPT !.anchor = position, !.stalled = 0, !.heading = 0, !.attempts = 0,
                         !.best = IF goal = None THEN 0 ELSE Distance(position, goal)]
  /\ Tell("direct", yaw)
  /\ elapsed' = 0
  /\ turns' = {}

Wait(dt, yaw) ==
  LET m == Measured IN
  /\ m.left = 0
  /\ ~Approached(m)
  /\ m.stalled + dt < StallTime
  /\ memory' = [m EXCEPT !.stalled = @ + dt]
  /\ Tell("direct", yaw)
  /\ elapsed' = elapsed + dt
  /\ UNCHANGED turns

Stalled(m, dt) ==
  /\ m.left = 0
  /\ ~Approached(m)
  /\ m.stalled + dt >= StallTime

Detoured(m, heading) ==
  [m EXCEPT !.stalled = 0, !.anchor = position, !.attempts = @ + 1,
            !.left = RecoveryTime, !.heading = heading]

Recover(dt, yaw) ==
  LET m    == Measured
      turn == Turn(m.attempts + 1)
      new  == (yaw + turn) % 4
  IN
  /\ Stalled(m, dt)
  /\ m.attempts < MaxAttempts
  /\ memory' = Detoured(m, new)
  /\ Tell("recover", new)
  /\ elapsed' = elapsed + dt
  /\ turns' = turns \union {turn}

\* mutant: the last detour is not waited for
ExhaustedEarly(m) == m.attempts + 1 >= MaxAttempts

Exhausted(m) == m.attempts >= MaxAttempts

GiveUp(dt, yaw) ==
  LET m == Measured IN
  /\ Stalled(m, dt)
  /\ Exhausted(m)
  /\ memory' = Fresh
  /\ Tell("give_up", yaw)
  /\ elapsed' = elapsed + dt
  /\ UNCHANGED turns

\* A bot that has given up its goal is not moving: see Reset.
Tick ==
  /\ directive.kind # "give_up"
  /\ \E dt \in Ticks, yaw \in Yaws :
       \/ Detour(dt, yaw) \/ Advance(dt, yaw) \/ Wait(dt, yaw)
       \/ Recover(dt, yaw) \/ GiveUp(dt, yaw)
  /\ position' \in Places
  /\ UNCHANGED goal

\* reset: at a waypoint, with a new command or route, at a stop, and in every
\* tick in which the bot is not meant to move
Reset ==
  /\ memory' = Fresh
  /\ goal' \in Places \union {None}
  /\ directive' = [kind |-> "reset", yaw |-> 0]
  /\ elapsed' = 0
  /\ turns' = {}
  /\ UNCHANGED position

Next == Tick \/ Reset

Spec == Init /\ [][Next]_vars

\* The loop of join_bot ticks every 200 ms.
FairSpec == Spec /\ WF_vars(Tick)

-----------------------------------------------------------------------------
(* Properties *)

Stretch(slack) == (StallTime + slack) + (RecoveryTime + slack)

\* The time without progress is bounded whatever the world does to the bot:
\* never more than MaxAttempts detours and one more stall, each late by less
\* than a tick.
StallIsBounded ==
  elapsed <= MaxAttempts * Stretch(MaxTick - 1) + StallTime + MaxTick - 1

\* The bot gives up only after each of the detours had its full time and each
\* of the turns was tried, all without progress in between.
GivesUpPatiently ==
  directive.kind = "give_up" =>
    /\ elapsed >= MaxAttempts * Stretch(0) + StallTime
    /\ turns = { Turn(i) : i \in 1..MaxAttempts }

\* How long the bot goes on without progress: not too long, and not too short.
StallInv == TypeOK /\ StallIsBounded /\ GivesUpPatiently

\* Detours and stalls never make it easier to claim progress: until a reset, the
\* best distance to the waypoint only shrinks, and each return of the detours
\* costs at least Progress of it.
BestOnlyShrinks ==
  [][memory.anchor # None /\ memory'.anchor # None /\ goal # None =>
       /\ memory'.best <= memory.best
       /\ memory'.attempts < memory.attempts => memory'.best + Progress <= memory.best]_vars

\* A detour keeps its heading although the wanted yaw turns with the position.
DetourKeepsHeading ==
  [][memory.left > 0 /\ directive'.kind # "reset" => directive' = [kind |-> "recover", yaw |-> directive.yaw]]_vars

\* The pursuit of a waypoint ends: it is reached, replaced or given up.
PursuitEnds == goal # None ~> directive.kind \in {"reset", "give_up"}
=============================================================================
