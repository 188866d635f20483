--------------------------- MODULE NavigationProofs ---------------------------
(***************************************************************************)
(* Proofs about Navigation: for every length of a route and every number of *)
(* detours, strikes, commands, queued commands and replies, the invariants *)
(* and the action properties of its runs hold.                             *)
(*                                                                         *)
(* The inductive invariant has four parts, each disturbed by few actions:  *)
(* what the bot keeps (BotPart), the hunts of the server (HuntPart), what  *)
(* is on the network (NetPart) and what the last command is worth          *)
(* (IntentPart).                                                           *)
(***************************************************************************)
EXTENDS Navigation, Recovery, TLAPS

-----------------------------------------------------------------------------
(* The inductive invariant *)

\* Commands to the server and replies of the helper; the news "done" is of hunts.
Requests == [type : Tags \union {"hunt"}, arrival : {"none", "collect"}, id : Nat]
News == [tag : Tags \union {"hunt"}, says : {"route", "no", "unreadable", "unsupported", "done"},
         arrival : {"none", "collect", "hunt"}, id : Nat]

\* A goal of a move has nothing to do on arrival.
GoalPart ==
  /\ goal \in Goals \union {NoGoal}
  /\ goal.by = "move" => goal.arrival = "none"

\* NavigationSnapshot
Shapes == [status : {"idle", "moving", "following", "mining", "recovering", "failed"},
           error : BOOLEAN]

StatusPart ==
  /\ nav \in Shapes
  /\ nav.status = "failed" => nav.error
  /\ MotionHasCause

BotPart ==
  /\ GoalPart
  /\ StatusPart
  /\ follow \in BOOLEAN /\ other \in BOOLEAN /\ forward \in BOOLEAN
  /\ mining \in {"none", "command", "arrival"}
  /\ stuck \in 0..MaxAttempts
  /\ waiting \subseteq Tags
  /\ OverlapOnlyOnArrival

\* The scheduled steps are those of the hunt that is going on.
HuntPart ==
  /\ hunt \in [id : Nat, running : BOOLEAN, strikes : Nat]
  /\ hunt.strikes <= MaxStrikes
  /\ nextHunt \in Nat
  /\ hunt.id < nextHunt
  /\ hunt.running => hunt.id # 0
  /\ steps = IF hunt.running THEN <<hunt.id>> ELSE <<>>

NetPart ==
  /\ toServer \in Seq(Requests)
  /\ replies \in Seq(News)
  /\ \A i \in 1..Len(replies) : replies[i].says = "done" => replies[i].tag = "hunt"
  /\ next \in 1..Len(replies) + 1

\* Nothing is under way that could give the bot another goal.
Quiet ==
  /\ waiting = {}
  /\ steps = <<>>
  /\ \A i \in 1..Len(toServer) : toServer[i].type # "hunt"
  /\ \A i \in next..Len(replies) : replies[i].tag # "hunt"

Commanded == intent \in {"stop", "move", "follow"} /\ ~owed /\ ~disturbed

\* As long as the last command counts, all stays quiet; following that has ended
\* has left neither a goal nor a collect on arrival, which would hide the failure.
IntentPart ==
  /\ commands \in Nat /\ owed \in BOOLEAN /\ disturbed \in BOOLEAN
  /\ Commanded => Quiet
  /\ Commanded /\ intent = "stop" => goal = NoGoal /\ ~follow /\ mining # "arrival"
  /\ Commanded /\ intent = "move" => goal.by \in {"move", "nobody"} /\ ~follow
  /\ Commanded /\ intent = "follow" =>
       /\ goal.arrival # "hunt"
       /\ follow \/ (nav.status = "failed" /\ goal = NoGoal /\ mining # "arrival")

NavigationIInv == BotPart /\ HuntPart /\ NetPart /\ IntentPart

-----------------------------------------------------------------------------
(* Sequences of the channels *)

\* What a channel keeps when an element is appended to it.
LEMMA Appended ==
  ASSUME NEW S, NEW s \in Seq(S), NEW e \in S
  PROVE  /\ Append(s, e) \in Seq(S)
         /\ Len(Append(s, e)) = Len(s) + 1
         /\ Append(s, e)[Len(s) + 1] = e
         /\ \A i \in 1..Len(s) : Append(s, e)[i] = s[i]
  OBVIOUS

\* What a channel keeps when its head is taken.
LEMMA Taken ==
  ASSUME NEW S, NEW s \in Seq(S), s # <<>>
  PROVE  /\ Head(s) \in S
         /\ Head(s) = s[1]
         /\ Tail(s) \in Seq(S)
         /\ Len(s) \in Nat \ {0}
         /\ Len(Tail(s)) = Len(s) - 1
         /\ \A i \in 1..Len(Tail(s)) : Tail(s)[i] = s[i + 1]
  OBVIOUS

LEMMA NoMessages == \A S : <<>> \in Seq(S) /\ Len(<<>>) = 0
  OBVIOUS

-----------------------------------------------------------------------------
(* Goals *)

LEMMA NoGoalIs ==
  NoGoal.left = 0 /\ NoGoal.arrival = "none" /\ NoGoal.by = "nobody" /\ NoGoal.id = 0
  BY DEF NoGoal

LEMMA GoalFields ==
  ASSUME NEW g \in Goals
  PROVE  /\ g.left \in 1..MaxWaypoints
         /\ g.arrival \in {"none", "collect", "hunt"}
         /\ g.by \in {"move", "route", "hunt"}
         /\ g.id \in Nat
         /\ g # NoGoal
  BY NavigationAssumption DEF Goals, NoGoal

LEMMA GoalOf ==
  ASSUME NEW n \in 1..MaxWaypoints, NEW a \in {"none", "collect", "hunt"},
         NEW b \in {"move", "route", "hunt"}, NEW i \in Nat
  PROVE  [left |-> n, arrival |-> a, by |-> b, id |-> i] \in Goals
  BY DEF Goals

-----------------------------------------------------------------------------
(* Statuses *)

LEMMA Begun ==
  ASSUME NEW status \in {"idle", "moving", "following", "mining", "recovering"}
  PROVE  /\ Begin(status) \in Shapes
         /\ Begin(status).status = status
         /\ ~Begin(status).error
  BY DEF Begin, Shapes

LEMMA HasStopped == Stopped \in Shapes /\ Stopped.status = "idle" /\ ~Stopped.error
  BY Begun DEF Stopped

LEMMA HasFailed == FailedNav \in Shapes /\ FailedNav.status = "failed" /\ FailedNav.error
  BY DEF FailedNav, Shapes

\* Setting the error or the status alone.
LEMMA Changed ==
  ASSUME NEW n \in Shapes,
         NEW status \in {"idle", "moving", "following", "mining", "recovering", "failed"}
  PROVE  /\ [n EXCEPT !.error = TRUE] \in Shapes
         /\ [n EXCEPT !.error = TRUE].status = n.status
         /\ [n EXCEPT !.error = TRUE].error
         /\ [n EXCEPT !.status = status] \in Shapes
         /\ [n EXCEPT !.status = status].status = status
         /\ [n EXCEPT !.status = status].error = n.error
  BY DEF Shapes

-----------------------------------------------------------------------------
(* The initial state *)

LEMMA InitHolds == Init => NavigationIInv
<1> SUFFICES ASSUME Init PROVE NavigationIInv
  OBVIOUS
<1>1. BotPart
  <2>1. GoalPart
    BY NoGoalIs DEF Init, GoalPart
  <2>2. nav = [status |-> "idle", error |-> FALSE] /\ stuck = 0 /\ waiting = {}
        /\ follow = FALSE /\ other = FALSE /\ forward = FALSE /\ mining = "none"
    BY DEF Init
  <2>3. StatusPart
    BY Begun DEF Init, Begin, StatusPart, MotionHasCause
  <2>4. stuck \in 0..MaxAttempts
    BY <2>2, NavigationAssumption
  <2>5. waiting \subseteq Tags
    BY <2>2
  <2>6. follow \in BOOLEAN /\ other \in BOOLEAN /\ forward \in BOOLEAN
    BY <2>2
  <2>7. QED BY <2>1, <2>2, <2>3, <2>4, <2>5, <2>6 DEF BotPart, OverlapOnlyOnArrival
<1>2. HuntPart
  BY NavigationAssumption DEF Init, HuntPart, NoHunt
<1>3. NetPart
  <2>1. toServer \in Seq(Requests) /\ replies \in Seq(News) /\ Len(replies) = 0
    BY NoMessages DEF Init
  <2>2. QED BY <2>1 DEF Init, NetPart
<1>4. IntentPart
  BY DEF Init, IntentPart, Commanded
<1>5. QED BY <1>1, <1>2, <1>3, <1>4 DEF NavigationIInv

-----------------------------------------------------------------------------
(* What the commands and the ends of requests and actions keep *)

BotSteps == Move \/ Follow \/ Stop \/ AskRoute \/ GiveUpRoute \/ StartAction \/ EndAction

LEMMA BotStepsKeepBot == BotPart /\ BotSteps => BotPart'
<1> SUFFICES ASSUME BotPart, BotSteps PROVE BotPart'
  OBVIOUS
<1>1. GoalPart'
  <2>1. CASE Move
    <3>1. goal' = [left |-> 1, arrival |-> "none", by |-> "move", id |-> 0]
      BY <2>1 DEF Move
    <3>2. goal' \in Goals
      BY <3>1, GoalOf, NavigationAssumption
    <3>3. goal'.arrival = "none"
      BY <3>1
    <3>4. QED BY <3>2, <3>3 DEF GoalPart
  <2>2. CASE Stop
    BY <2>2, NoGoalIs DEF Stop, GoalPart
  <2>3. CASE goal' = goal
    BY <2>3 DEF BotPart, GoalPart
  <2>4. QED BY <2>1, <2>2, <2>3
          DEF BotSteps, Follow, AskRoute, GiveUpRoute, StartAction, EndAction
<1>2. StatusPart'
  <2>1. CASE Move
    BY <2>1, Begun DEF Move, StatusPart, MotionHasCause
  <2>2. CASE Follow
    BY <2>2, Begun DEF Follow, StatusPart, MotionHasCause
  <2>3. CASE Stop
    BY <2>3, HasStopped DEF Stop, StatusPart, MotionHasCause
  <2>4. CASE EndAction
    <3>1. nav' \in {nav, Stopped, FailedNav} /\ goal' = goal /\ follow' = follow
      BY <2>4 DEF EndAction
    <3>2. QED BY <3>1, HasStopped, HasFailed DEF BotPart, StatusPart, MotionHasCause
  <2>5. CASE nav' = nav /\ goal' = goal /\ follow' = follow
    BY <2>5 DEF BotPart, StatusPart, MotionHasCause
  <2>6. QED BY <2>1, <2>2, <2>3, <2>4, <2>5
          DEF BotSteps, AskRoute, GiveUpRoute, StartAction
<1>3. follow' \in BOOLEAN /\ other' \in BOOLEAN /\ forward' \in BOOLEAN
  BY DEF BotPart, BotSteps, Move, Follow, Stop, AskRoute, GiveUpRoute, StartAction, EndAction, Accept
<1>4. stuck' \in 0..MaxAttempts
  BY NavigationAssumption DEF BotPart, BotSteps, Move, Follow, Stop, AskRoute, GiveUpRoute,
     StartAction, EndAction
<1>5. waiting' \subseteq Tags
  BY DEF BotPart, BotSteps, Move, Follow, Stop, AskRoute, GiveUpRoute, StartAction, EndAction
<1>6. mining' \in {"none", "command", "arrival"} /\ OverlapOnlyOnArrival'
  <2>1. CASE StartAction
    BY <2>1 DEF BotPart, StartAction, Idle, OverlapOnlyOnArrival
  <2>2. CASE EndAction
    BY <2>2 DEF BotPart, EndAction, OverlapOnlyOnArrival
  <2>3. QED BY <2>1, <2>2 DEF BotPart, BotSteps, Move, Follow, Stop, AskRoute, GiveUpRoute,
               OverlapOnlyOnArrival
<1>7. QED BY <1>1, <1>2, <1>3, <1>4, <1>5, <1>6 DEF BotPart

LEMMA BotStepsKeepHunts == HuntPart /\ (BotSteps \/ Hear \/ Tick) => HuntPart'
  BY DEF HuntPart, BotSteps, Move, Follow, Stop, AskRoute, GiveUpRoute, StartAction, EndAction,
     Accept, Hear, Tick, server

LEMMA BotStepsKeepNet == NetPart /\ BotSteps => NetPart'
<1> SUFFICES ASSUME NetPart, BotSteps PROVE NetPart'
  OBVIOUS
<1>1. CASE AskRoute
  <2>1. PICK tag \in Tags, arrival \in {"none", "collect"} :
          toServer' = Append(toServer, Command(tag, arrival, 0))
    BY <1>1 DEF AskRoute
  <2>2. Command(tag, arrival, 0) \in Requests
    BY DEF Command, Requests
  <2>3. toServer' \in Seq(Requests)
    BY <2>1, <2>2, Appended DEF NetPart
  <2>4. QED BY <1>1, <2>3 DEF NetPart, AskRoute, server
<1>2. CASE UNCHANGED <<toServer, replies, next>>
  BY <1>2 DEF NetPart
<1>3. QED BY <1>1, <1>2 DEF BotSteps, Move, Follow, Stop, GiveUpRoute, StartAction, EndAction,
                Accept, server

LEMMA BotStepsKeepIntent == BotPart /\ NetPart /\ IntentPart /\ BotSteps => IntentPart'
<1> SUFFICES ASSUME BotPart, NetPart, IntentPart, BotSteps PROVE IntentPart'
  OBVIOUS
<1>1. ASSUME NEW name, Accept(name), waiting' = waiting, toServer' = toServer
      PROVE  /\ commands' \in Nat /\ owed' \in BOOLEAN /\ disturbed' \in BOOLEAN
             /\ ~owed' => Quiet'
             /\ intent' = name
             /\ name = "follow" /\ ~owed' => goal.arrival # "hunt"
  <2>1. owed' = (UnderWay \/ (name = "follow" /\ goal.arrival = "hunt"))
    BY <1>1 DEF Accept
  <2>2. /\ waiting' = waiting /\ toServer' = toServer
        /\ replies' = replies /\ next' = next /\ steps' = steps
    BY <1>1 DEF Accept, server
  <2>3. ~UnderWay => Quiet
    BY DEF UnderWay, Quiet
  <2>4. Quiet => Quiet'
    BY <2>2 DEF Quiet
  <2>5. commands' \in Nat /\ disturbed' \in BOOLEAN /\ intent' = name
    BY <1>1 DEF Accept, IntentPart
  <2>6. owed' \in BOOLEAN
    BY <2>1
  <2>7. QED BY <2>1, <2>3, <2>4, <2>5, <2>6
<1>2. CASE Move
  BY <1>1, <1>2 DEF Move, IntentPart, Commanded
<1>3. CASE Follow
  BY <1>1, <1>3 DEF Follow, IntentPart, Commanded
<1>4. CASE Stop
  BY <1>1, <1>4 DEF Stop, IntentPart, Commanded
<1>5. CASE AskRoute
  <2>1. intent' = "route" /\ commands' = commands + 1 /\ owed' = FALSE /\ disturbed' = disturbed
    BY <1>5 DEF AskRoute
  <2>2. commands' \in Nat /\ owed' \in BOOLEAN /\ disturbed' \in BOOLEAN
    <3>1. commands \in Nat /\ disturbed \in BOOLEAN
      BY DEF IntentPart
    <3>2. commands' \in Nat
      BY <2>1, <3>1
    <3>3. owed' \in BOOLEAN /\ disturbed' \in BOOLEAN
      BY <2>1, <3>1
    <3>4. QED BY <3>2, <3>3
  <2>3. ~Commanded'
    BY <2>1 DEF Commanded
  <2>4. QED BY <2>2, <2>3 DEF IntentPart
<1>6. CASE GiveUpRoute
  BY <1>6 DEF GiveUpRoute, IntentPart, Commanded, Quiet, server
<1>7. CASE StartAction
  BY <1>7 DEF StartAction, IntentPart, Commanded, Quiet, server
<1>8. CASE EndAction
  BY <1>8 DEF EndAction, IntentPart, Commanded, Quiet, server
<1>9. QED BY <1>2, <1>3, <1>4, <1>5, <1>6, <1>7, <1>8 DEF BotSteps

-----------------------------------------------------------------------------
(* What a reply does *)

\* The reply that is received and what it may be.
LEMMA Received ==
  NetPart => \A i \in 1..Len(replies) :
    /\ replies[i] \in News
    /\ replies[i].tag \in Tags \union {"hunt"}
    /\ replies[i].says \in {"route", "no", "unreadable", "unsupported", "done"}
    /\ replies[i].says = "done" => replies[i].tag = "hunt"
    /\ replies[i].arrival \in {"none", "collect", "hunt"}
    /\ replies[i].id \in Nat
<1> SUFFICES ASSUME NetPart, NEW i \in 1..Len(replies)
             PROVE  /\ replies[i] \in News
                    /\ replies[i].says = "done" => replies[i].tag = "hunt"
  BY DEF News
<1>1. replies[i] \in News
  BY DEF NetPart
<1>2. QED BY <1>1 DEF NetPart

\* A new route begins a navigation of its own.
LEMMA AdoptKeeps ==
  ASSUME NEW r \in News, BotPart, Adopt(r)
  PROVE  GoalPart' /\ StatusPart' /\ follow' = FALSE /\ stuck' = 0 /\ goal' \in Goals
<1>1. PICK n \in 1..MaxWaypoints :
        goal' = [left |-> n, arrival |-> r.arrival,
                 by |-> IF r.tag = "hunt" THEN "hunt" ELSE "route", id |-> r.id]
  BY DEF Adopt
<1>2. goal' \in Goals
  BY <1>1, GoalOf DEF News
<1>3. goal'.by # "move"
  BY <1>1
<1>4. StatusPart'
  BY Begun DEF Adopt, StatusPart, MotionHasCause
<1>5. QED BY <1>2, <1>3, <1>4 DEF GoalPart, Adopt

LEMMA HearKeepsBot == BotPart /\ NetPart /\ Hear => BotPart'
<1> SUFFICES ASSUME BotPart, NetPart, Hear PROVE BotPart'
  OBVIOUS
<1>1. PICK i \in 1..Len(replies) :
        /\ IF replies[i].tag = "hunt" THEN HearHunt(replies[i]) ELSE HearRoute(replies[i])
        /\ UNCHANGED <<mining, other, forward>>
  BY DEF Hear
<1> DEFINE r == replies[i]
<1>2. /\ r \in News
      /\ r.says \in {"route", "no", "unreadable", "unsupported", "done"}
      /\ r.says = "done" => r.tag = "hunt"
  BY <1>1, Received
<1>3. \/ Adopt(r)
      \/ /\ UNCHANGED <<goal, follow, stuck>>
         /\ nav' \in {nav, Stopped, FailedNav, [nav EXCEPT !.error = TRUE]}
  BY <1>1, <1>2 DEF HearHunt, HearRoute
<1>4. waiting' \subseteq Tags
  BY <1>1 DEF HearHunt, HearRoute, BotPart
<1> HIDE DEF r
<1>5. /\ GoalPart' /\ StatusPart' /\ follow' \in BOOLEAN /\ stuck' \in 0..MaxAttempts
  <2>1. CASE Adopt(r)
    <3>1. GoalPart' /\ StatusPart' /\ follow' = FALSE /\ stuck' = 0
      BY <2>1, <1>2, AdoptKeeps
    <3>2. 0 \in 0..MaxAttempts
      BY NavigationAssumption
    <3>3. QED BY <3>1, <3>2
  <2>2. CASE /\ UNCHANGED <<goal, follow, stuck>>
             /\ nav' \in {nav, Stopped, FailedNav, [nav EXCEPT !.error = TRUE]}
    <3>1. nav \in Shapes
      BY DEF BotPart, StatusPart
    <3>2. StatusPart'
      <4>1. CASE nav' = nav
        BY <2>2, <4>1 DEF BotPart, StatusPart, MotionHasCause
      <4>2. CASE nav' = Stopped \/ nav' = FailedNav
        BY <4>2, HasStopped, HasFailed DEF StatusPart, MotionHasCause
      <4>3. CASE nav' = [nav EXCEPT !.error = TRUE]
        <5>1. nav' \in Shapes /\ nav'.status = nav.status /\ nav'.error
          BY <3>1, <4>3, Changed
        <5>2. QED BY <2>2, <5>1 DEF BotPart, StatusPart, MotionHasCause
      <4>4. QED BY <2>2, <4>1, <4>2, <4>3
    <3>3. QED BY <2>2, <3>2 DEF BotPart, GoalPart
  <2>3. QED BY <1>3, <2>1, <2>2
<1>6. QED BY <1>1, <1>4, <1>5 DEF BotPart, OverlapOnlyOnArrival

LEMMA HearKeepsNet == NetPart /\ Hear => NetPart'
<1> SUFFICES ASSUME NetPart, Hear PROVE NetPart'
  OBVIOUS
<1>1. PICK i \in 1..Len(replies) :
        /\ next' = IF i >= next THEN i + 1 ELSE next
        /\ toServer' = toServer /\ replies' = replies
  BY DEF Hear, server
<1>2. QED BY <1>1 DEF NetPart

LEMMA HearKeepsIntent == BotPart /\ NetPart /\ IntentPart /\ Hear => IntentPart'
<1> SUFFICES ASSUME BotPart, NetPart, IntentPart, Hear PROVE IntentPart'
  OBVIOUS
<1>1. PICK i \in 1..Len(replies) :
        /\ next' = IF i >= next THEN i + 1 ELSE next
        /\ disturbed' = (disturbed \/ i # next)
        /\ IF replies[i].tag = "hunt" THEN HearHunt(replies[i]) ELSE HearRoute(replies[i])
        /\ mining' = mining /\ toServer' = toServer /\ commands' = commands
        /\ intent' = intent /\ owed' = owed /\ replies' = replies /\ steps' = steps
  BY DEF Hear, server
<1>2. commands' \in Nat /\ owed' \in BOOLEAN /\ disturbed' \in BOOLEAN
  BY <1>1 DEF IntentPart
<1>3. ASSUME Commanded' PROVE Commanded /\ i = next /\ Quiet
  BY <1>1, <1>3 DEF IntentPart, Commanded
<1>4. ASSUME Commanded'
      PROVE  /\ Quiet'
             /\ goal' = goal /\ follow' = follow
             /\ nav' = nav \/ nav' = FailedNav
  <2>1. replies[i].tag # "hunt"
    BY <1>1, <1>3, <1>4 DEF Quiet, NetPart
  <2>2. HearRoute(replies[i])
    BY <1>1, <2>1
  <2>3. waiting = {}
    BY <1>3, <1>4 DEF Quiet
  <2>4. /\ waiting' = {} /\ goal' = goal /\ follow' = follow
        /\ nav' = nav \/ nav' = FailedNav
    BY <2>2, <2>3 DEF HearRoute
  <2>5. next' = next + 1 /\ next \in Nat
    BY <1>1, <1>3, <1>4 DEF NetPart
  <2>6. \A k \in next + 1..Len(replies) : replies[k].tag # "hunt"
    BY <1>3, <1>4, <2>5 DEF Quiet, NetPart
  <2>7. QED BY <1>1, <1>3, <1>4, <2>4, <2>5, <2>6 DEF Quiet
<1>5. QED BY <1>1, <1>2, <1>3, <1>4, HasFailed DEF IntentPart, Commanded

-----------------------------------------------------------------------------
(* What a tick does *)

\* A tick as far as the invariants tell its outcomes apart: the status `n' after
\* an arrival, the action of that arrival, whether the bot still goes to its goal,
\* whether it is moved, and the verdict of AntiStuck.
TickSummary(n, action, goes, moving, verdict) ==
  /\ n \in Shapes /\ (n.status = "failed" => n.error)
  /\ action = "none" /\ (goes \/ goal = NoGoal) => n = nav
  /\ goes => goal \in Goals /\ action = "none"
  /\ action \in {"none", "collect", "hunt"}
  /\ action # "none" => goal \in Goals /\ goal.arrival = action
  /\ goal' = NoGoal \/ (goal' \in Goals /\ goal'.by = goal.by /\ goal'.arrival = goal.arrival)
  /\ goal' # NoGoal <=> goes /\ verdict # "give_up"
  /\ follow' = (follow /\ verdict # "give_up")
  /\ moving => mining' = "none" /\ (goes \/ follow)
  /\ ~moving => verdict = "direct"
  /\ stuck' \in 0..MaxAttempts
  /\ mining' = mining \/ (mining = "none" /\ mining' = "arrival" /\ action = "collect")
  /\ nav' = Shown(n, verdict, mining' # "none", goes, follow, action # "none")
  /\ forward' \in BOOLEAN /\ (forward' => moving)
  /\ toServer' = IF action = "hunt" THEN Append(toServer, Command("hunt", "none", goal.id))
                 ELSE toServer
  /\ UNCHANGED <<other, waiting, server, next, commands, intent, owed, disturbed>>

LEMMA VerdictKeepsStuck ==
  ASSUME NEW attempts \in 0..MaxAttempts, NEW verdict, Verdict(attempts, verdict)
  PROVE  stuck' \in 0..MaxAttempts
  BY NavigationAssumption DEF Verdict

LEMMA TickDoes ==
  ASSUME BotPart, Tick
  PROVE  \E n \in Shapes, action \in {"none", "collect", "hunt"}, goes \in BOOLEAN,
           moving \in BOOLEAN, verdict \in {"direct", "recover", "give_up"} :
             TickSummary(n, action, goes, moving, verdict)
<1>1. PICK reached \in 0..goal.left, found \in BOOLEAN, wants \in BOOLEAN,
           verdict \in {"direct", "recover", "give_up"} :
        LET arrived == goal # NoGoal /\ reached = goal.left
            action  == IF arrived THEN goal.arrival ELSE "none"
            after   == IF arrived THEN Arrive(action, found) ELSE [mining |-> mining, nav |-> nav]
            goes    == goal # NoGoal /\ ~arrived
            digs    == after.mining # "none"
            moving  == Moving(digs, goes, wants)
            gone    == verdict = "give_up"
        IN
        /\ action = "hunt" => Len(toServer) < MaxQueue
        /\ IF moving THEN Verdict(IF reached > 0 THEN 0 ELSE stuck, verdict)
           ELSE verdict = "direct" /\ stuck' = 0
        /\ goal' = IF goes /\ ~gone THEN [goal EXCEPT !.left = @ - reached] ELSE NoGoal
        /\ follow' = (follow /\ ~gone)
        /\ mining' = after.mining
        /\ nav' = Shown(after.nav, verdict, digs, goes, follow, action # "none")
        /\ forward' = (verdict = "recover" \/ (moving /\ ~gone /\ wants))
        /\ toServer' = IF action = "hunt" THEN Append(toServer, Command("hunt", "none", goal.id))
                       ELSE toServer
        /\ UNCHANGED <<other, waiting, server, next, commands, intent, owed, disturbed>>
  BY DEF Tick
<1> DEFINE arrived == goal # NoGoal /\ reached = goal.left
           action  == IF arrived THEN goal.arrival ELSE "none"
           after   == IF arrived THEN Arrive(action, found) ELSE [mining |-> mining, nav |-> nav]
           goes    == goal # NoGoal /\ ~arrived
           digs    == after.mining # "none"
           moving  == Moving(digs, goes, wants)
           gone    == verdict = "give_up"
<1>2. /\ IF moving THEN Verdict(IF reached > 0 THEN 0 ELSE stuck, verdict)
         ELSE verdict = "direct" /\ stuck' = 0
      /\ goal' = IF goes /\ ~gone THEN [goal EXCEPT !.left = @ - reached] ELSE NoGoal
      /\ follow' = (follow /\ ~gone)
      /\ mining' = after.mining
      /\ nav' = Shown(after.nav, verdict, digs, goes, follow, action # "none")
      /\ forward' = (verdict = "recover" \/ (moving /\ ~gone /\ wants))
      /\ toServer' = IF action = "hunt" THEN Append(toServer, Command("hunt", "none", goal.id))
                     ELSE toServer
      /\ UNCHANGED <<other, waiting, server, next, commands, intent, owed, disturbed>>
  BY <1>1
<1>3. goal # NoGoal => goal \in Goals
  BY DEF BotPart, GoalPart
<1>4. action \in {"none", "collect", "hunt"} /\ (action # "none" => goal \in Goals /\ goal.arrival = action)
  BY <1>3, GoalFields
<1>5. /\ after.nav \in Shapes /\ (after.nav.status = "failed" => after.nav.error)
      /\ ~arrived => after.nav = nav
      /\ after.mining = mining \/ (mining = "none" /\ after.mining = "arrival" /\ action = "collect")
  <2>1. CASE ~arrived
    BY <2>1 DEF BotPart, StatusPart
  <2>2. CASE arrived
    BY <2>2, Begun, HasStopped, HasFailed DEF Arrive
  <2>3. QED BY <2>1, <2>2
<1>6. /\ goal' = NoGoal \/ (goal' \in Goals /\ goal'.by = goal.by /\ goal'.arrival = goal.arrival)
      /\ (goal' # NoGoal <=> goes /\ ~gone)
  <2>1. CASE goes /\ ~gone
    <3>1. goal \in Goals /\ goal.left \in 1..MaxWaypoints /\ reached \in Nat /\ reached < goal.left
      BY <1>3, <2>1, GoalFields, NavigationAssumption
    <3>2. goal' = [goal EXCEPT !.left = goal.left - reached]
      BY <1>2, <2>1
    <3>3. goal.left - reached \in 1..MaxWaypoints
      BY <3>1, NavigationAssumption
    <3>4. goal' \in Goals /\ goal'.by = goal.by /\ goal'.arrival = goal.arrival
      BY <3>1, <3>2, <3>3 DEF Goals
    <3>5. QED BY <2>1, <3>4, GoalFields
  <2>2. CASE ~(goes /\ ~gone)
    BY <1>2, <2>2
  <2>3. QED BY <2>1, <2>2
<1>7. stuck' \in 0..MaxAttempts
  <2>1. stuck \in 0..MaxAttempts /\ 0 \in 0..MaxAttempts
    BY NavigationAssumption DEF BotPart
  <2>2. QED BY <1>2, <2>1, VerdictKeepsStuck
<1>8. moving => after.mining = "none" /\ (goes \/ follow)
  BY DEF Moving
<1>9. moving \in BOOLEAN /\ goes \in BOOLEAN /\ (forward' => moving) /\ forward' \in BOOLEAN
  BY <1>2 DEF Moving
<1>10. TickSummary(after.nav, action, goes, moving, verdict)
  BY <1>2, <1>3, <1>4, <1>5, <1>6, <1>7, <1>8, <1>9 DEF TickSummary
<1> HIDE DEF arrived, action, after, goes, digs, moving, gone
<1>11. after.nav \in Shapes /\ verdict \in {"direct", "recover", "give_up"}
  BY <1>1, <1>5
<1>12. QED BY <1>4, <1>9, <1>10, <1>11

\* The status of a tick has its cause in what the tick leaves.
LEMMA ShownHasCause ==
  ASSUME BotPart, NEW n \in Shapes, NEW action, NEW goes \in BOOLEAN, NEW moving \in BOOLEAN,
         NEW verdict \in {"direct", "recover", "give_up"},
         TickSummary(n, action, goes, moving, verdict)
  PROVE  /\ nav' \in Shapes
         /\ nav'.status = "failed" => nav'.error
         /\ nav'.status = "following" => follow /\ verdict = "direct"
         /\ nav'.status = "recovering" => verdict = "recover"
         /\ verdict = "give_up" => nav' = FailedNav
         /\ verdict = "direct" /\ n.status = "failed" => nav' = n
<1>1. /\ n.status = "failed" => n.error
      /\ nav' = Shown(n, verdict, mining' # "none", goes, follow, action # "none")
  BY DEF TickSummary
<1>2. CASE verdict = "give_up"
  BY <1>1, <1>2, HasFailed DEF Shown
<1>3. CASE verdict = "direct" /\ n.status = "failed"
  BY <1>1, <1>3 DEF Shown
<1>4. CASE verdict # "give_up" /\ ~(verdict = "direct" /\ n.status = "failed")
  <2> DEFINE status == IF verdict = "recover" THEN "recovering"
                      ELSE IF mining' # "none" THEN "mining"
                      ELSE IF goes THEN "moving"
                      ELSE IF follow THEN "following"
                      ELSE IF action # "none" THEN "moving" ELSE "idle"
  <2>1. nav' = [n EXCEPT !.status = status]
    BY <1>1, <1>4 DEF Shown, ShownByMotion
  <2>2. /\ status \in {"idle", "moving", "following", "mining", "recovering"}
        /\ status = "following" => follow /\ verdict = "direct"
        /\ status = "recovering" => verdict = "recover"
    BY <1>4
  <2> HIDE DEF status
  <2>3. nav' \in Shapes /\ nav'.status = status
    BY <2>1, <2>2 DEF Shapes
  <2>4. QED BY <1>4, <2>2, <2>3
<1>5. QED BY <1>2, <1>3, <1>4

LEMMA TickKeepsBot == BotPart /\ Tick => BotPart'
<1> SUFFICES ASSUME BotPart, Tick PROVE BotPart'
  OBVIOUS
<1>1. PICK n \in Shapes, action \in {"none", "collect", "hunt"}, goes \in BOOLEAN,
           moving \in BOOLEAN, verdict \in {"direct", "recover", "give_up"} :
             TickSummary(n, action, goes, moving, verdict)
  BY TickDoes
<1>2. GoalPart'
  BY <1>1, NoGoalIs DEF TickSummary, BotPart, GoalPart
<1>3. follow \in BOOLEAN /\ mining \in {"none", "command", "arrival"}
  BY DEF BotPart
<1>4. StatusPart'
  <2>1. /\ nav' \in Shapes
        /\ nav'.status = "failed" => nav'.error
        /\ nav'.status = "following" => follow /\ verdict = "direct"
        /\ nav'.status = "recovering" => verdict = "recover"
    BY <1>1, ShownHasCause
  <2>2. verdict = "recover" => goal' # NoGoal \/ follow'
    BY <1>1 DEF TickSummary
  <2>3. follow' = (follow /\ verdict # "give_up")
    BY <1>1 DEF TickSummary
  <2>4. QED BY <2>1, <2>2, <2>3 DEF StatusPart, MotionHasCause
<1>5. follow' \in BOOLEAN /\ other' \in BOOLEAN /\ forward' \in BOOLEAN
  BY <1>1 DEF TickSummary, BotPart
<1>6. stuck' \in 0..MaxAttempts /\ waiting' \subseteq Tags
  BY <1>1 DEF TickSummary, BotPart
<1>7. mining' \in {"none", "command", "arrival"} /\ OverlapOnlyOnArrival'
  BY <1>1, <1>3 DEF TickSummary, BotPart, OverlapOnlyOnArrival
<1>8. QED BY <1>2, <1>4, <1>5, <1>6, <1>7 DEF BotPart

LEMMA TickKeepsNet == BotPart /\ NetPart /\ Tick => NetPart'
<1> SUFFICES ASSUME BotPart, NetPart, Tick PROVE NetPart'
  OBVIOUS
<1>1. PICK n \in Shapes, action \in {"none", "collect", "hunt"}, goes \in BOOLEAN,
           moving \in BOOLEAN, verdict \in {"direct", "recover", "give_up"} :
             TickSummary(n, action, goes, moving, verdict)
  BY TickDoes
<1>2. toServer' \in Seq(Requests)
  <2>1. CASE action = "hunt"
    <3>1. goal.id \in Nat
      BY <1>1, <2>1, GoalFields DEF TickSummary
    <3>2. Command("hunt", "none", goal.id) \in Requests
      BY <3>1 DEF Command, Requests
    <3>3. toServer' = Append(toServer, Command("hunt", "none", goal.id))
      BY <1>1, <2>1 DEF TickSummary
    <3>4. QED BY <3>2, <3>3, Appended DEF NetPart
  <2>2. CASE action # "hunt"
    BY <1>1, <2>2 DEF TickSummary, NetPart
  <2>3. QED BY <2>1, <2>2
<1>3. replies' = replies /\ next' = next
  BY <1>1 DEF TickSummary, server
<1>4. QED BY <1>2, <1>3 DEF NetPart

LEMMA TickKeepsIntent == BotPart /\ IntentPart /\ Tick => IntentPart'
<1> SUFFICES ASSUME BotPart, IntentPart, Tick PROVE IntentPart'
  OBVIOUS
<1>1. PICK n \in Shapes, action \in {"none", "collect", "hunt"}, goes \in BOOLEAN,
           moving \in BOOLEAN, verdict \in {"direct", "recover", "give_up"} :
             TickSummary(n, action, goes, moving, verdict)
  BY TickDoes
<1>2. /\ commands' = commands /\ owed' = owed /\ disturbed' = disturbed /\ intent' = intent
      /\ waiting' = waiting /\ steps' = steps /\ replies' = replies /\ next' = next
  BY <1>1 DEF TickSummary, server
<1>3. follow \in BOOLEAN /\ mining \in {"none", "command", "arrival"}
  BY DEF BotPart
<1>4. /\ verdict = "give_up" => nav' = FailedNav
      /\ verdict = "direct" /\ n.status = "failed" => nav' = n
  BY <1>1, ShownHasCause
<1>5. SUFFICES ASSUME Commanded PROVE IntentPart'
  BY <1>2 DEF IntentPart, Commanded
<1>6. CASE intent = "stop"
  <2>1. goal = NoGoal /\ ~follow /\ mining # "arrival" /\ Quiet
    BY <1>5, <1>6 DEF IntentPart
  <2>2. action = "none" /\ ~goes
    BY <1>1, <2>1, GoalFields DEF TickSummary
  <2>3. goal' = NoGoal /\ ~follow' /\ mining' # "arrival" /\ toServer' = toServer
    BY <1>1, <1>3, <2>1, <2>2 DEF TickSummary
  <2>4. QED BY <1>2, <1>6, <2>1, <2>3 DEF IntentPart, Commanded, Quiet
<1>7. CASE intent = "move"
  <2>1. goal.by \in {"move", "nobody"} /\ ~follow /\ Quiet
    BY <1>5, <1>7 DEF IntentPart
  <2>2. action = "none"
    BY <1>1, <2>1, GoalFields DEF TickSummary, BotPart, GoalPart
  <2>3. goal'.by \in {"move", "nobody"} /\ ~follow' /\ toServer' = toServer
    BY <1>1, <2>1, <2>2, NoGoalIs DEF TickSummary
  <2>4. QED BY <1>2, <1>7, <2>1, <2>3 DEF IntentPart, Commanded, Quiet
<1>8. CASE intent = "follow"
  <2>1. /\ goal.arrival # "hunt" /\ Quiet
        /\ follow \/ (nav.status = "failed" /\ goal = NoGoal /\ mining # "arrival")
    BY <1>5, <1>8 DEF IntentPart
  <2>2. action # "hunt" /\ goal'.arrival # "hunt" /\ toServer' = toServer
    BY <1>1, <2>1, NoGoalIs DEF TickSummary
  <2>3. follow' \/ (nav'.status = "failed" /\ goal' = NoGoal /\ mining' # "arrival")
    <3>1. CASE follow /\ verdict # "give_up"
      BY <1>1, <3>1 DEF TickSummary
    <3>2. CASE follow /\ verdict = "give_up"
      BY <1>1, <1>3, <1>4, <3>2, HasFailed DEF TickSummary
    <3>3. CASE ~follow
      <4>1. nav.status = "failed" /\ goal = NoGoal /\ mining # "arrival"
        BY <2>1, <3>3
      <4>2. ~goes /\ action = "none"
        BY <1>1, <4>1, GoalFields DEF TickSummary
      <4>3. n = nav /\ ~moving /\ verdict = "direct" /\ goal' = NoGoal /\ mining' # "arrival"
        BY <1>1, <3>3, <4>1, <4>2 DEF TickSummary
      <4>4. QED BY <1>4, <4>1, <4>3
    <3>4. QED BY <3>1, <3>2, <3>3
  <2>4. QED BY <1>2, <1>8, <2>1, <2>2, <2>3 DEF IntentPart, Commanded, Quiet
<1>9. QED BY <1>5, <1>6, <1>7, <1>8 DEF Commanded

-----------------------------------------------------------------------------
(* What the helper mod keeps *)

ServerSteps == ServerRefuses \/ ServerPath \/ ServerHuntPath \/ ServerHunt \/ HuntStep

LEMMA ServerKeepsBot == BotPart /\ ServerSteps => BotPart'
<1> SUFFICES ASSUME BotPart, ServerSteps PROVE BotPart'
  OBVIOUS
<1>1. UNCHANGED <<goal, follow, mining, other, nav, stuck, forward, waiting>>
  BY DEF ServerSteps, ServerRefuses, ServerPath, ServerHuntPath, ServerHunt, HuntStep, Take, bot
<1>2. QED BY <1>1 DEF BotPart, GoalPart, StatusPart, MotionHasCause, OverlapOnlyOnArrival

LEMMA ServerKeepsHunts == HuntPart /\ NetPart /\ ServerSteps => HuntPart'
<1> SUFFICES ASSUME HuntPart, NetPart, ServerSteps PROVE HuntPart'
  OBVIOUS
<1>1. NoHunt \in [id : Nat, running : BOOLEAN, strikes : Nat] /\ NoHunt.id = 0
      /\ ~NoHunt.running /\ NoHunt.strikes = 0
  BY DEF NoHunt
<1>2. hunt = NoHunt \/ hunt \in [id : Nat, running : BOOLEAN, strikes : Nat]
  BY DEF HuntPart
<1>3. CASE ServerRefuses \/ ServerPath
  BY <1>3 DEF ServerRefuses, ServerPath, HuntPart
<1>4. CASE ServerHuntPath
  <2>1. steps' = steps
    BY <1>4 DEF ServerHuntPath
  <2>2. CASE hunt' = hunt /\ nextHunt' = nextHunt
    BY <2>1, <2>2 DEF HuntPart
  <2>3. CASE /\ ~hunt.running
             /\ hunt' = [id |-> nextHunt, running |-> FALSE, strikes |-> 0]
             /\ nextHunt' = nextHunt + 1
    <3>1. nextHunt \in Nat /\ steps = <<>>
      BY <2>3 DEF HuntPart
    <3>2. /\ hunt' \in [id : Nat, running : BOOLEAN, strikes : Nat]
          /\ hunt'.id = nextHunt /\ ~hunt'.running /\ hunt'.strikes = 0
      BY <2>3, <3>1
    <3>3. QED BY <2>1, <2>3, <3>1, <3>2, NavigationAssumption DEF HuntPart
  <2>4. QED BY <1>4, <2>2, <2>3 DEF ServerHuntPath
<1>5. CASE ServerHunt
  <2>1. nextHunt' = nextHunt
    BY <1>5 DEF ServerHunt
  <2>2. CASE hunt' = hunt /\ steps' = steps
    BY <2>1, <2>2 DEF HuntPart
  <2>3. CASE ~hunt.running /\ hunt' = NoHunt /\ steps' = steps
    BY <1>1, <2>1, <2>3, NavigationAssumption DEF HuntPart
  <2>4. CASE /\ Startable(Head(toServer).id)
             /\ hunt' = [hunt EXCEPT !.running = TRUE]
             /\ steps' = Append(steps, Head(toServer).id)
    <3>1. hunt.id = Head(toServer).id /\ hunt.id # 0 /\ steps = <<>>
      BY <2>4 DEF Startable, Found, HuntPart
    <3>2. steps' = <<hunt.id>>
      BY <2>4, <3>1
    <3>3. QED BY <2>1, <2>4, <3>1, <3>2 DEF HuntPart
  <2>5. QED BY <1>5, <2>2, <2>3, <2>4 DEF ServerHunt, Startable
<1>6. CASE HuntStep
  <2>1. nextHunt' = nextHunt /\ hunt.running /\ steps = <<hunt.id>> /\ hunt.id # 0
    BY <1>6 DEF HuntStep, HuntPart
  <2>2. Head(steps) = hunt.id /\ Tail(steps) = <<>> /\ Append(Tail(steps), hunt.id) = <<hunt.id>>
    BY <2>1
  <2>3. Found(hunt.id)
    BY <2>1 DEF Found
  <2>4. CASE /\ StrikesLeft /\ hunt' = [hunt EXCEPT !.strikes = @ + 1]
             /\ steps' = Append(Tail(steps), hunt.id)
    BY <2>1, <2>2, <2>4, NavigationAssumption DEF HuntPart, StrikesLeft
  <2>5. CASE /\ hunt' = NoHunt \/ hunt' = [hunt EXCEPT !.running = FALSE]
             /\ steps' = Tail(steps)
    <3>1. /\ hunt' \in [id : Nat, running : BOOLEAN, strikes : Nat]
          /\ ~hunt'.running /\ hunt'.strikes <= MaxStrikes /\ hunt'.id < nextHunt
      <4>1. CASE hunt' = NoHunt
        BY <1>1, <4>1, NavigationAssumption DEF HuntPart
      <4>2. CASE hunt' = [hunt EXCEPT !.running = FALSE]
        BY <4>2 DEF HuntPart
      <4>3. QED BY <2>5, <4>1, <4>2
    <3>2. steps' = <<>>
      BY <2>2, <2>5
    <3>3. QED BY <2>1, <3>1, <3>2 DEF HuntPart
  <2>6. QED BY <1>6, <2>1, <2>2, <2>3, <2>4, <2>5 DEF HuntStep
<1>7. QED BY <1>3, <1>4, <1>5, <1>6 DEF ServerSteps

\* An answer is appended to the replies, and it is about a hunt only when its tag
\* says so.
LEMMA AnswerKeeps ==
  ASSUME NetPart, NEW tag \in Tags \union {"hunt"},
         NEW says \in {"route", "no", "unreadable", "unsupported", "done"},
         says = "done" => tag = "hunt",
         NEW arrival \in {"none", "collect", "hunt"}, NEW id \in Nat,
         \/ replies' = Append(replies, Reply(tag, says, arrival, id))
         \/ replies' = Append(replies, Reply(tag, "unreadable", "none", 0))
  PROVE  /\ replies' \in Seq(News)
         /\ \A i \in 1..Len(replies') : replies'[i].says = "done" => replies'[i].tag = "hunt"
         /\ next \in 1..Len(replies') + 1
         /\ tag # "hunt" /\ (\A i \in next..Len(replies) : replies[i].tag # "hunt")
              => \A i \in next..Len(replies') : replies'[i].tag # "hunt"
<1>1. PICK r \in News : /\ r.tag = tag /\ (r.says = "done" => tag = "hunt")
                        /\ replies' = Append(replies, r)
  <2>1. Reply(tag, says, arrival, id) \in News /\ Reply(tag, "unreadable", "none", 0) \in News
    BY DEF Reply, News
  <2>2. QED BY <2>1 DEF Reply
<1>2. replies \in Seq(News) /\ next \in 1..Len(replies) + 1
  BY DEF NetPart
<1>3. /\ replies' \in Seq(News) /\ Len(replies') = Len(replies) + 1
      /\ replies'[Len(replies) + 1] = r
      /\ \A i \in 1..Len(replies) : replies'[i] = replies[i]
  BY <1>1, <1>2, Appended
<1>4. \A i \in 1..Len(replies') : replies'[i].says = "done" => replies'[i].tag = "hunt"
  <2>1. \A i \in 1..Len(replies) : replies[i].says = "done" => replies[i].tag = "hunt"
    BY DEF NetPart
  <2>2. \A i \in 1..Len(replies') : i \in 1..Len(replies) \/ i = Len(replies) + 1
    BY <1>2, <1>3
  <2>3. QED BY <1>1, <1>3, <2>1, <2>2
<1>5. next \in 1..Len(replies') + 1
  BY <1>2, <1>3
<1>6. ASSUME tag # "hunt", \A i \in next..Len(replies) : replies[i].tag # "hunt",
             NEW i \in next..Len(replies')
      PROVE  replies'[i].tag # "hunt"
  <2>1. i \in 1..Len(replies) \/ i = Len(replies) + 1
    BY <1>2, <1>3
  <2>2. i \in next..Len(replies) \/ i = Len(replies) + 1
    BY <1>2, <2>1
  <2>3. QED BY <1>1, <1>3, <1>6, <2>1, <2>2
<1>7. QED BY <1>3, <1>4, <1>5, <1>6

\* What the helper mod does to the channels: a command is taken or none, a reply
\* is sent or none, and as long as all is quiet it is not about a hunt.
LEMMA ServerOnNet ==
  ASSUME HuntPart, NetPart, ServerSteps
  PROVE  /\ NetPart'
         /\ UNCHANGED <<goal, follow, mining, nav, waiting, next, commands, intent, owed, disturbed>>
         /\ Quiet => Quiet'
<1>1. UNCHANGED <<goal, follow, mining, nav, waiting, next, commands, intent, owed, disturbed>>
  BY DEF ServerSteps, ServerRefuses, ServerPath, ServerHuntPath, ServerHunt, HuntStep, Take, bot
<1>2. toServer \in Seq(Requests) /\ next \in Nat
  BY DEF NetPart
<1>3. toServer' = toServer \/ (toServer # <<>> /\ toServer' = Tail(toServer))
  BY DEF ServerSteps, ServerRefuses, ServerPath, ServerHuntPath, ServerHunt, HuntStep, Take
<1>4. /\ toServer' \in Seq(Requests)
      /\ (\A i \in 1..Len(toServer) : toServer[i].type # "hunt")
           => \A i \in 1..Len(toServer') : toServer'[i].type # "hunt"
  <2>1. CASE toServer' = toServer
    BY <2>1, <1>2
  <2>2. CASE toServer # <<>> /\ toServer' = Tail(toServer)
    <3>1. /\ toServer' \in Seq(Requests) /\ Len(toServer) \in Nat \ {0}
          /\ Len(toServer') = Len(toServer) - 1
          /\ \A i \in 1..Len(toServer') : toServer'[i] = toServer[i + 1]
      BY <1>2, <2>2, Taken
    <3>2. \A i \in 1..Len(toServer') : i + 1 \in 1..Len(toServer)
      BY <3>1
    <3>3. QED BY <3>1, <3>2
  <2>3. QED BY <1>3, <2>1, <2>2
<1>5. toServer # <<>> =>
        /\ Head(toServer).arrival \in {"none", "collect"}
        /\ Head(toServer).id \in Nat
        /\ Quiet => Head(toServer).type # "hunt"
  <2>1. SUFFICES ASSUME toServer # <<>>
                 PROVE  /\ Head(toServer) \in Requests
                        /\ Quiet => Head(toServer).type # "hunt"
    BY DEF Requests
  <2>2. Head(toServer) \in Requests /\ Head(toServer) = toServer[1] /\ Len(toServer) \in Nat \ {0}
    BY <1>2, <2>1, Taken
  <2>3. QED BY <2>2 DEF Quiet
<1>6. Quiet => ~ServerHunt /\ ~HuntStep /\ steps' = steps
  BY <1>5 DEF Quiet, ServerSteps, ServerRefuses, ServerPath, ServerHuntPath, ServerHunt, HuntStep, Take
<1>7. \/ replies' = replies
      \/ \E tag \in Tags \union {"hunt"}, arrival \in {"none", "collect", "hunt"}, id \in Nat,
            says \in {"route", "no", "unreadable", "unsupported", "done"} :
           /\ says = "done" => tag = "hunt"
           /\ tag = "hunt" => ~Quiet
           /\ \/ replies' = Append(replies, Reply(tag, says, arrival, id))
              \/ replies' = Append(replies, Reply(tag, "unreadable", "none", 0))
  <2>1. CASE ServerRefuses
    BY <2>1, <1>5 DEF ServerRefuses, Take
  <2>2. CASE ServerPath
    BY <2>2, <1>5 DEF ServerPath, Take, Answer, Tags
  <2>3. CASE ServerHuntPath
    BY <2>3 DEF ServerHuntPath, Take, Answer, Tags, HuntPart
  <2>4. CASE ServerHunt
    BY <2>4, <1>5, <1>6 DEF ServerHunt, Take, Answer
  <2>5. CASE HuntStep
    <3>1. Head(steps) \in Nat
      BY <2>5 DEF HuntStep, HuntPart
    <3>2. QED BY <2>5, <1>6, <3>1 DEF HuntStep, Answer
  <2>6. QED BY <2>1, <2>2, <2>3, <2>4, <2>5 DEF ServerSteps
<1>8. /\ replies' \in Seq(News)
      /\ \A i \in 1..Len(replies') : replies'[i].says = "done" => replies'[i].tag = "hunt"
      /\ next \in 1..Len(replies') + 1
      /\ Quiet => \A i \in next..Len(replies') : replies'[i].tag # "hunt"
  <2>1. CASE replies' = replies
    BY <2>1 DEF NetPart, Quiet
  <2>2. CASE replies' # replies
    <3>1. PICK tag \in Tags \union {"hunt"}, arrival \in {"none", "collect", "hunt"}, id \in Nat,
               says \in {"route", "no", "unreadable", "unsupported", "done"} :
           /\ says = "done" => tag = "hunt"
           /\ tag = "hunt" => ~Quiet
           /\ \/ replies' = Append(replies, Reply(tag, says, arrival, id))
              \/ replies' = Append(replies, Reply(tag, "unreadable", "none", 0))
      BY <1>7, <2>2
    <3>2. /\ replies' \in Seq(News)
          /\ \A i \in 1..Len(replies') : replies'[i].says = "done" => replies'[i].tag = "hunt"
          /\ next \in 1..Len(replies') + 1
          /\ tag # "hunt" /\ (\A i \in next..Len(replies) : replies[i].tag # "hunt")
               => \A i \in next..Len(replies') : replies'[i].tag # "hunt"
      BY <3>1, AnswerKeeps
    <3>3. QED BY <3>1, <3>2 DEF Quiet
  <2>3. QED BY <2>1, <2>2
<1>9. NetPart'
  BY <1>1, <1>4, <1>8 DEF NetPart
<1>10. Quiet => Quiet'
  BY <1>1, <1>4, <1>6, <1>8 DEF Quiet
<1>11. QED BY <1>1, <1>9, <1>10

LEMMA ServerKeepsIntent == BotPart /\ HuntPart /\ NetPart /\ IntentPart /\ ServerSteps => IntentPart'
<1> SUFFICES ASSUME BotPart, HuntPart, NetPart, IntentPart, ServerSteps PROVE IntentPart'
  OBVIOUS
<1>1. /\ UNCHANGED <<goal, follow, mining, nav, waiting, next, commands, intent, owed, disturbed>>
      /\ Quiet => Quiet'
  BY ServerOnNet
<1>2. QED BY <1>1 DEF IntentPart, Commanded

-----------------------------------------------------------------------------
(* The theorems *)

LEMMA Step == NavigationIInv /\ [Next]_vars => NavigationIInv'
<1> SUFFICES ASSUME NavigationIInv, [Next]_vars PROVE NavigationIInv'
  OBVIOUS
<1> USE DEF NavigationIInv
<1>1. CASE BotSteps
  BY <1>1, BotStepsKeepBot, BotStepsKeepHunts, BotStepsKeepNet, BotStepsKeepIntent
<1>2. CASE Hear
  BY <1>2, HearKeepsBot, BotStepsKeepHunts, HearKeepsNet, HearKeepsIntent
<1>3. CASE Tick
  BY <1>3, TickKeepsBot, BotStepsKeepHunts, TickKeepsNet, TickKeepsIntent
<1>4. CASE ServerSteps
  BY <1>4, ServerKeepsBot, ServerKeepsHunts, ServerOnNet, ServerKeepsIntent
<1>5. CASE UNCHANGED vars
  BY <1>5 DEF vars, BotPart, GoalPart, StatusPart, MotionHasCause, OverlapOnlyOnArrival,
     HuntPart, NetPart, IntentPart, Commanded, Quiet
<1>6. QED BY <1>1, <1>2, <1>3, <1>4, <1>5 DEF Next, BotSteps, ServerSteps

LEMMA Inductive == Spec => []NavigationIInv
<1>1. QED BY InitHolds, Step, PTL DEF Spec

\* In every reachable state the status of a motion has a cause, only a collect on
\* arrival runs beside another action, and one chain of steps belongs to the hunt
\* that is going on: bot.move_goal, native_mining and hunt_targets.
THEOREM NavigationHolds == Spec => []NavigationInv
<1>1. NavigationIInv => NavigationInv
  <2> SUFFICES ASSUME NavigationIInv PROVE NavigationInv
    OBVIOUS
  <2>1. TypeOK
    BY DEF NavigationIInv, BotPart, GoalPart, StatusPart, Shapes, HuntPart, NetPart, TypeOK
  <2>2. MotionHasCause /\ OverlapOnlyOnArrival
    BY DEF NavigationIInv, BotPart, StatusPart
  <2>3. OneStrikeChain
    <3>1. hunt.running \in BOOLEAN /\ steps = IF hunt.running THEN <<hunt.id>> ELSE <<>>
      BY DEF NavigationIInv, HuntPart
    <3>2. QED BY <3>1 DEF OneStrikeChain
  <2>4. QED BY <2>1, <2>2, <2>3 DEF NavigationInv
<1>2. QED BY Inductive, <1>1, PTL

\* A stop, a move or following prevails as long as nothing was under way when it
\* was commanded and the network keeps the order of the replies: what join_bot does
\* with a reply or in a round never takes back what handle_api_commands set.
THEOREM CommandsPrevail == Spec => []CommandPrevails
<1>1. NavigationIInv => CommandPrevails
  BY DEF NavigationIInv, IntentPart, Commanded, CommandPrevails
<1>2. QED BY Inductive, <1>1, PTL

\* No step moves a bot that goes on mining: the movement of join_bot and its AntiStuck
\* detours are not reached while native_mining holds a target.
THEOREM StandsStill == Spec => MiningStandsStill
<1>1. NavigationIInv /\ [Next]_vars =>
        [mining # "none" /\ mining' # "none" /\ forward' => forward]_vars
  <2> SUFFICES ASSUME NavigationIInv, Next, mining # "none", mining' # "none", forward'
               PROVE  forward
    OBVIOUS
  <2>1. CASE Tick
    <3>1. PICK n \in Shapes, action \in {"none", "collect", "hunt"}, goes \in BOOLEAN,
               moving \in BOOLEAN, verdict \in {"direct", "recover", "give_up"} :
                 TickSummary(n, action, goes, moving, verdict)
      BY <2>1, TickDoes DEF NavigationIInv
    <3>2. QED BY <3>1 DEF TickSummary
  <2>2. CASE forward' = forward
    BY <2>2
  <2>3. QED BY <2>1, <2>2 DEF Next, Move, Follow, Stop, AskRoute, GiveUpRoute, StartAction, EndAction,
                Accept, Hear, ServerRefuses, ServerPath, ServerHuntPath, ServerHunt, HuntStep, Take, bot
<1>2. QED BY Inductive, <1>1, PTL DEF MiningStandsStill, Spec

\* A step that is no command and ends following, and leaves no goal, fails the
\* navigation: the give_up branch of the movement tick.
THEOREM FollowingEndsInFailure == Spec => EndOfFollowIsReported
<1>1. NavigationIInv /\ [Next]_vars =>
        [follow /\ ~follow' /\ goal' = NoGoal /\ commands' = commands => nav' = FailedNav]_vars
  <2> SUFFICES ASSUME NavigationIInv, Next, follow, ~follow', goal' = NoGoal, commands' = commands
               PROVE  nav' = FailedNav
    OBVIOUS
  <2>1. CASE Tick
    <3>1. PICK n \in Shapes, action \in {"none", "collect", "hunt"}, goes \in BOOLEAN,
               moving \in BOOLEAN, verdict \in {"direct", "recover", "give_up"} :
                 TickSummary(n, action, goes, moving, verdict)
      BY <2>1, TickDoes DEF NavigationIInv
    <3>2. verdict = "give_up"
      BY <3>1 DEF TickSummary
    <3>3. QED BY <3>1, <3>2, ShownHasCause DEF NavigationIInv
  <2>2. CASE Hear
    <3>1. PICK i \in 1..Len(replies) :
            IF replies[i].tag = "hunt" THEN HearHunt(replies[i]) ELSE HearRoute(replies[i])
      BY <2>2 DEF Hear
    <3>2. Adopt(replies[i])
      BY <3>1, Received DEF HearHunt, HearRoute, NavigationIInv
    <3>3. replies[i] \in News
      BY <3>1, Received DEF NavigationIInv
    <3>4. goal' \in Goals
      BY <3>2, <3>3, AdoptKeeps DEF NavigationIInv
    <3>5. QED BY <3>4, GoalFields
  <2>3. commands' # commands + 1
    BY DEF NavigationIInv, IntentPart
  <2>4. QED BY <2>1, <2>2, <2>3 DEF Next, Move, Follow, Stop, AskRoute, GiveUpRoute, StartAction,
                EndAction, Accept, ServerRefuses, ServerPath, ServerHuntPath, ServerHunt, HuntStep,
                Take, bot
<1>2. QED BY Inductive, <1>1, PTL DEF EndOfFollowIsReported, Spec

-----------------------------------------------------------------------------
(* Recovery from stalls *)

Slack == MaxTick - 1

\* What the time without progress has to do with the memory: every detour of
\* the attempts had its stretch of time, late by at most Slack in each part.
Clock ==
  IF memory.left > 0
  THEN /\ elapsed >= memory.attempts * A!Stretch(0) - memory.left
       /\ elapsed <= memory.attempts * A!Stretch(Slack) - memory.left - Slack
  ELSE /\ elapsed >= memory.attempts * A!Stretch(0) + memory.stalled
       /\ elapsed <= memory.attempts * A!Stretch(Slack) + memory.stalled

TurnsTaken == turns = { A!Turn(i) : i \in 1..memory.attempts }

StallIInv ==
  /\ A!TypeOK
  /\ A!GivesUpPatiently
  /\ directive.kind = "give_up" => memory = A!Fresh /\ A!StallIsBounded
  /\ directive.kind # "give_up" => Clock /\ TurnsTaken

LEMMA StallNumbers ==
  /\ MaxTick \in Nat /\ MaxTick >= 1 /\ Slack \in Nat
  /\ StallTime \in Nat /\ StallTime >= 1
  /\ RecoveryTime \in Nat /\ RecoveryTime >= 1
  /\ MaxDetours \in Nat
  /\ A!Stretch(0) = StallTime + RecoveryTime
  /\ A!Stretch(Slack) = StallTime + RecoveryTime + 2 * Slack
  /\ A!Stretch(0) \in Nat /\ A!Stretch(Slack) \in Nat
BY AntiStuckAssumption DEF A!AntiStuckAssumption, Slack, A!Stretch

LEMMA OneMore == \A a, x \in Nat : a * x \in Nat /\ (a + 1) * x = a * x + x
BY SMT

LEMMA Times == \A a, b, x \in Nat : a <= b => a * x <= b * x
<1> SUFFICES ASSUME NEW a \in Nat, NEW b \in Nat, NEW x \in Nat, a <= b
             PROVE a * x <= b * x
  OBVIOUS
<1>1. PICK d \in Nat : b = a + d
  <2> WITNESS b - a \in Nat
  <2> QED OBVIOUS
<1>2. b * x = a * x + d * x /\ d * x \in Nat /\ a * x \in Nat
  BY <1>1, SMT
<1> QED BY <1>2

LEMMA TurnYaw == \A i \in Int : A!Turn(i) \in A!Yaws
BY DEF A!Turn, A!Yaws

LEMMA FreshMemory == A!Fresh \in A!Memories
BY StallNumbers DEF A!Fresh, A!Memories, A!Yaws

\* Only the anchor, the target and the best distance are measured anew, and only
\* after a reset.
LEMMA MeasuredKeeps ==
  ASSUME A!TypeOK
  PROVE  /\ A!Measured \in A!Memories
         /\ A!Measured.anchor \in Places
         /\ A!Measured.target = waypoint
         /\ A!Measured.left = memory.left
         /\ A!Measured.stalled = memory.stalled
         /\ A!Measured.attempts = memory.attempts
         /\ memory.anchor # None => A!Measured.best = memory.best \/ waypoint = None
         /\ memory.anchor # None => A!Measured.heading = memory.heading
<1> DEFINE new == memory.anchor = None \/ memory.target # waypoint
           m == IF new THEN [A!Fresh EXCEPT !.anchor = position] ELSE memory
<1>1. new <=> memory.anchor = None
  BY DEF A!TypeOK
<1>2. /\ m \in A!Memories /\ m.anchor \in Places
      /\ m.left = memory.left /\ m.stalled = memory.stalled /\ m.attempts = memory.attempts
      /\ memory.anchor # None => m = memory
  BY <1>1, FreshMemory, AntiStuckAssumption DEF A!AntiStuckAssumption, A!TypeOK, A!Memories, A!Fresh
<1>3. (IF waypoint = None THEN 0 ELSE IF new THEN Distance(position, waypoint) ELSE m.best) \in Nat
  BY <1>2, AntiStuckAssumption DEF A!AntiStuckAssumption, A!TypeOK, A!Memories
<1>4. A!Measured = [m EXCEPT !.target = waypoint,
                           !.best = IF waypoint = None THEN 0
                                    ELSE IF new THEN Distance(position, waypoint) ELSE @]
  BY DEF A!Measured
<1> HIDE DEF m
<1> QED BY <1>1, <1>2, <1>3, <1>4 DEF A!TypeOK, A!Memories

\* The bot's step leaves a well-typed memory that is aimed at the waypoint.
LEMMA TickTypes == A!TypeOK /\ A!Tick => A!TypeOK' /\ waypoint' = waypoint
<1> SUFFICES ASSUME A!TypeOK, A!Tick PROVE A!TypeOK'
  BY DEF A!Tick
<1>1. PICK dt \in A!Ticks, yaw \in A!Yaws :
        A!Detour(dt, yaw) \/ A!Advance(dt, yaw) \/ A!Wait(dt, yaw) \/ A!Recover(dt, yaw) \/ A!GiveUp(dt, yaw)
  BY DEF A!Tick
<1> DEFINE m == A!Measured
<1>2. m \in A!Memories /\ m.anchor \in Places /\ m.target = waypoint
  BY MeasuredKeeps
<1>3. dt \in Nat /\ dt >= 1
  BY StallNumbers DEF A!Ticks
<1>4. elapsed + dt \in Nat
  BY <1>3 DEF A!TypeOK
<1>5. position' \in Places /\ waypoint' \in Places \union {None} /\ waypoint' = waypoint /\ None \notin Places
  BY AntiStuckAssumption DEF A!AntiStuckAssumption, A!Tick, A!TypeOK
<1>11. position \in Places
  BY DEF A!TypeOK
<1>12. 0 \in 0..RecoveryTime /\ 0 \in 0..StallTime - 1 /\ 0 \in 0..MaxDetours /\ 0 \in A!Yaws
  BY StallNumbers DEF A!Yaws
<1> HIDE DEF m
<1>6. CASE A!Detour(dt, yaw)
  <2>1. memory' \in A!Memories /\ memory'.anchor \in Places /\ memory'.target = waypoint
    <3>1. CASE m.left <= dt
      <4>1. memory' = [m EXCEPT !.left = 0, !.anchor = position, !.stalled = 0, !.heading = 0]
        BY <1>6, <3>1 DEF A!Detour, A!Over, A!DetourYaw, m
      <4> QED BY <1>2, <1>11, <1>12, <4>1 DEF A!Memories
    <3>2. CASE m.left > dt
      <4>1. memory' = [m EXCEPT !.left = m.left - dt]
        BY <1>6, <3>2, <1>2, <1>3 DEF A!Detour, A!Over, A!DetourYaw, m, A!Memories
      <4>2. m.left - dt \in 0..RecoveryTime
        BY <1>2, <1>3, <3>2, StallNumbers DEF A!Memories
      <4> QED BY <1>2, <4>1, <4>2 DEF A!Memories
    <3> QED BY <3>1, <3>2, <1>2, <1>3 DEF A!Memories
  <2>2. directive' = [kind |-> "recover", yaw |-> m.heading] /\ turns' = turns /\ m.heading \in A!Yaws
    BY <1>2, <1>6 DEF A!Detour, A!Over, A!DetourYaw, A!Tell, m, A!Memories
  <2> QED BY <2>1, <2>2, <1>4, <1>5, <1>6 DEF A!Detour, A!Over, A!DetourYaw, A!TypeOK
<1>7. CASE A!Advance(dt, yaw)
  <2>1. (IF waypoint = None THEN 0 ELSE Distance(position, waypoint)) \in Nat
    BY AntiStuckAssumption DEF A!AntiStuckAssumption, A!TypeOK
  <2>2. memory' \in A!Memories /\ memory'.anchor \in Places /\ memory'.target = waypoint
    <3> DEFINE d == IF waypoint = None THEN 0 ELSE Distance(position, waypoint)
    <3>1. memory' = [m EXCEPT !.anchor = position, !.stalled = 0, !.heading = 0,
                              !.attempts = 0, !.best = d]
      BY <1>7 DEF A!Advance, m
    <3>2. d \in Nat
      BY <2>1
    <3> HIDE DEF d
    <3> QED BY <1>2, <1>11, <1>12, <3>1, <3>2 DEF A!Memories
  <2> QED BY <2>2, <1>5, <1>7 DEF A!Advance, A!Tell, A!TypeOK
<1>8. CASE A!Wait(dt, yaw)
  <2>1. memory' \in A!Memories /\ memory'.anchor \in Places /\ memory'.target = waypoint
    BY <1>2, <1>3, <1>8, StallNumbers DEF A!Wait, m, A!Memories
  <2> QED BY <2>1, <1>4, <1>5, <1>8 DEF A!Wait, A!Tell, A!TypeOK
<1>9. CASE A!Recover(dt, yaw)
  <2>1. PICK turn \in A!Yaws : /\ memory' = [m EXCEPT !.stalled = 0, !.anchor = position,
                                            !.attempts = @ + 1, !.left = RecoveryTime,
                                            !.heading = (yaw + turn) % 4]
                             /\ directive' = [kind |-> "recover", yaw |-> (yaw + turn) % 4]
                             /\ turns' = turns \union {turn}
                             /\ m.attempts < MaxDetours
    <3>1. m.attempts + 1 \in Int
      BY <1>2, StallNumbers DEF A!Memories
    <3>2. A!Turn(m.attempts + 1) \in A!Yaws
      BY <3>1, TurnYaw
    <3> QED BY <1>9, <3>2 DEF A!Recover, A!Detoured, A!Tell, m
  <2>2. (yaw + turn) % 4 \in A!Yaws
    BY DEF A!Yaws
  <2>3. memory' \in A!Memories /\ memory'.anchor \in Places /\ memory'.target = waypoint
    <3>1. m.attempts + 1 \in 0..MaxDetours
      BY <1>2, <2>1, StallNumbers DEF A!Memories
    <3>2. RecoveryTime \in 0..RecoveryTime /\ 0 \in 0..StallTime - 1
      BY StallNumbers
    <3> DEFINE h == (yaw + turn) % 4
    <3> HIDE DEF h
    <3>3. h \in A!Yaws /\ memory' = [m EXCEPT !.stalled = 0, !.anchor = position,
                                     !.attempts = m.attempts + 1, !.left = RecoveryTime,
                                     !.heading = h]
      BY <2>1, <2>2 DEF h
    <3> QED BY <1>2, <1>11, <3>1, <3>2, <3>3 DEF A!Memories
  <2> QED BY <2>1, <2>2, <2>3, <1>4, <1>5, <1>9 DEF A!Recover, A!Detoured, A!TypeOK
<1>10. CASE A!GiveUp(dt, yaw)
  <2>1. A!Fresh.anchor = None
    BY DEF A!Fresh
  <2> QED BY <2>1, <1>4, <1>5, <1>10, FreshMemory DEF A!GiveUp, A!Exhausted, A!Tell, A!TypeOK
<1> QED BY <1>1, <1>6, <1>7, <1>8, <1>9, <1>10

\* While the clock is right, the bounds hold: the last attempt is the longest.
LEMMA ClockBounds ==
  ASSUME A!TypeOK, Clock
  PROVE  elapsed <= MaxDetours * A!Stretch(Slack) + StallTime - 1
<1>1. memory.attempts \in Nat /\ memory.attempts <= MaxDetours
  BY StallNumbers DEF A!TypeOK, A!Memories
<1> DEFINE now == memory.attempts * A!Stretch(Slack)
           all == MaxDetours * A!Stretch(Slack)
<1>2. now <= all
  BY <1>1, StallNumbers, Times
<1>3. now \in Nat /\ all \in Nat
  BY <1>1, StallNumbers, OneMore
<1>4. memory.stalled \in Nat /\ memory.stalled <= StallTime - 1 /\ memory.left \in Nat
  BY StallNumbers DEF A!TypeOK, A!Memories
<1>5. elapsed <= now + StallTime - 1
  <2>1. CASE memory.left > 0
    <3>1. elapsed <= now - memory.left - Slack
      BY <2>1 DEF Clock
    <3> HIDE DEF now
    <3> QED BY <2>1, <3>1, <1>3, <1>4, StallNumbers DEF A!TypeOK
  <2>2. CASE ~(memory.left > 0)
    <3>1. elapsed <= now + memory.stalled
      BY <2>2 DEF Clock
    <3> HIDE DEF now
    <3> QED BY <3>1, <1>3, <1>4, StallNumbers DEF A!TypeOK
  <2> QED BY <2>1, <2>2
<1> HIDE DEF now, all
<1>6. elapsed <= all + StallTime - 1
  BY <1>2, <1>3, <1>5, StallNumbers DEF A!TypeOK
<1> QED BY <1>6 DEF all

\* A step that goes on: the clock and the turns are kept.
LEMMA ClockStep ==
  ASSUME A!TypeOK, Clock, TurnsTaken, NEW dt \in A!Ticks, NEW yaw \in A!Yaws,
         \/ A!Detour(dt, yaw) \/ A!Advance(dt, yaw) \/ A!Wait(dt, yaw) \/ A!Recover(dt, yaw)
  PROVE  Clock' /\ TurnsTaken' /\ directive'.kind # "give_up"
<1> DEFINE m == A!Measured
           a == memory.attempts
           low == a * A!Stretch(0)
           high == a * A!Stretch(Slack)
<1>1. /\ m.left = memory.left /\ m.stalled = memory.stalled /\ m.attempts = a
      /\ m \in A!Memories
  BY MeasuredKeeps
<1>2. dt \in Nat /\ dt >= 1 /\ dt <= Slack + 1
  BY StallNumbers DEF A!Ticks, Slack
<1>3. a \in Nat /\ memory.stalled \in Nat /\ memory.left \in Nat /\ elapsed \in Nat
  BY DEF A!TypeOK, A!Memories
<1>4. low \in Nat /\ high \in Nat
  BY <1>3, StallNumbers, OneMore
<1>5. /\ memory.left > 0 => elapsed >= low - memory.left /\ elapsed <= high - memory.left - Slack
      /\ ~(memory.left > 0) => elapsed >= low + memory.stalled /\ elapsed <= high + memory.stalled
  BY DEF Clock
<1> HIDE DEF m
<1>6. CASE A!Detour(dt, yaw)
  <2>1. memory.left > 0 /\ elapsed' = elapsed + dt /\ turns' = turns /\ directive'.kind = "recover"
    BY <1>1, <1>6 DEF A!Detour, A!Over, A!DetourYaw, A!Tell, m
  <2>2. CASE m.left <= dt
    <3>1. memory'.left = 0 /\ memory'.stalled = 0 /\ memory'.attempts = a
      BY <1>1, <1>6, <2>2 DEF A!Detour, A!Over, A!DetourYaw, m, A!Memories
    <3>2. elapsed' >= low + 0 /\ elapsed' <= high + 0
      <4> HIDE DEF low, high
      <4> QED BY <1>1, <1>2, <1>3, <1>4, <1>5, <2>1, <2>2, StallNumbers
    <3> QED BY <2>1, <3>1, <3>2 DEF Clock, TurnsTaken
  <2>3. CASE m.left > dt
    <3>1. memory'.left = memory.left - dt /\ memory'.attempts = a
      BY <1>1, <1>2, <1>3, <1>6, <2>3 DEF A!Detour, A!Over, A!DetourYaw, m, A!Memories
    <3>2. /\ memory'.left > 0
          /\ elapsed' >= low - memory'.left /\ elapsed' <= high - memory'.left - Slack
      <4> HIDE DEF low, high
      <4> QED BY <1>1, <1>2, <1>3, <1>4, <1>5, <2>1, <2>3, <3>1, StallNumbers
    <3> QED BY <2>1, <3>1, <3>2 DEF Clock, TurnsTaken
  <2> QED BY <2>2, <2>3, <1>1, <1>2, <1>3
<1>7. CASE A!Advance(dt, yaw)
  <2>1. memory'.left = 0 /\ memory'.stalled = 0 /\ memory'.attempts = 0
    BY <1>1, <1>7 DEF A!Advance, m, A!Memories
  <2>2. elapsed' = 0 /\ turns' = {} /\ directive'.kind = "direct"
    BY <1>7 DEF A!Advance, A!Tell
  <2>3. 0 * A!Stretch(0) = 0 /\ 0 * A!Stretch(Slack) = 0
    BY StallNumbers
  <2> QED BY <2>1, <2>2, <2>3 DEF Clock, TurnsTaken
<1>8. CASE A!Wait(dt, yaw)
  <2>1. memory.left = 0 /\ memory'.left = 0 /\ memory'.stalled = memory.stalled + dt
        /\ memory'.attempts = a
    BY <1>1, <1>8 DEF A!Wait, m, A!Memories
  <2>2. elapsed' = elapsed + dt /\ turns' = turns /\ directive'.kind = "direct"
    BY <1>8 DEF A!Wait, A!Tell
  <2>3. elapsed' >= low + memory'.stalled /\ elapsed' <= high + memory'.stalled
    <3> HIDE DEF low, high
    <3> QED BY <1>2, <1>3, <1>4, <1>5, <2>1, <2>2
  <2> QED BY <2>1, <2>2, <2>3 DEF Clock, TurnsTaken
<1>9. CASE A!Recover(dt, yaw)
  <2>1. memory.left = 0 /\ memory'.left = RecoveryTime /\ memory'.attempts = a + 1
        /\ memory.stalled + dt >= StallTime /\ memory.stalled < StallTime
    BY <1>1, <1>9, StallNumbers DEF A!Recover, A!Detoured, A!Stalled, m, A!Memories, A!TypeOK
  <2>2. elapsed' = elapsed + dt /\ turns' = turns \union {A!Turn(a + 1)}
        /\ directive'.kind = "recover"
    BY <1>1, <1>9 DEF A!Recover, A!Detoured, A!Tell, m
  <2>3. /\ (a + 1) * A!Stretch(0) = low + A!Stretch(0)
        /\ (a + 1) * A!Stretch(Slack) = high + A!Stretch(Slack)
    BY <1>3, StallNumbers, OneMore
  <2>4. /\ elapsed' >= (a + 1) * A!Stretch(0) - RecoveryTime
        /\ elapsed' <= (a + 1) * A!Stretch(Slack) - RecoveryTime - Slack
    <3>1. elapsed' >= low + StallTime /\ elapsed' <= high + StallTime + Slack
      <4> HIDE DEF low, high
      <4> QED BY <1>2, <1>3, <1>4, <1>5, <2>1, <2>2, StallNumbers
    <3> HIDE DEF low, high
    <3> QED BY <1>4, <2>3, <3>1, StallNumbers
  <2>5. turns' = { A!Turn(i) : i \in 1..(a + 1) }
    <3>1. 1..(a + 1) = (1..a) \union {a + 1}
      BY <1>3
    <3> QED BY <2>2, <3>1 DEF TurnsTaken
  <2>6. Clock'
    <3>1. memory'.left > 0
      BY <2>1, StallNumbers
    <3> QED BY <2>1, <2>4, <3>1 DEF Clock, A!Stretch, Slack
  <2>7. TurnsTaken'
    BY <2>1, <2>5 DEF TurnsTaken
  <2> QED BY <2>2, <2>6, <2>7
<1> QED BY <1>6, <1>7, <1>8, <1>9

LEMMA GiveUpStep ==
  ASSUME A!TypeOK, Clock, TurnsTaken, NEW dt \in A!Ticks, NEW yaw \in A!Yaws, A!GiveUp(dt, yaw)
  PROVE  A!StallIsBounded' /\ A!GivesUpPatiently' /\ memory' = A!Fresh /\ directive'.kind = "give_up"
<1>1. /\ memory' = A!Fresh /\ directive'.kind = "give_up"
      /\ elapsed' = elapsed + dt /\ turns' = turns
  BY DEF A!GiveUp, A!Exhausted, A!Tell
<1>2. /\ memory.left = 0 /\ memory.attempts = MaxDetours
      /\ memory.stalled + dt >= StallTime /\ memory.stalled <= StallTime - 1
  BY MeasuredKeeps, StallNumbers DEF A!GiveUp, A!Exhausted, A!Stalled, A!TypeOK, A!Memories
<1>3. dt \in Nat /\ dt <= Slack + 1 /\ MaxTick = Slack + 1
  BY StallNumbers DEF A!Ticks, Slack
<1> DEFINE low == MaxDetours * A!Stretch(0)
           high == MaxDetours * A!Stretch(Slack)
<1>4. low \in Nat /\ high \in Nat
  BY StallNumbers, OneMore
<1>5. elapsed >= low + memory.stalled /\ elapsed <= high + memory.stalled
  BY <1>2 DEF Clock
<1>6. elapsed \in Nat /\ memory.stalled \in Nat
  BY DEF A!TypeOK, A!Memories
<1>7. elapsed' >= low + StallTime /\ elapsed' <= high + StallTime + MaxTick - 1
  <2> HIDE DEF low, high
  <2> QED BY <1>1, <1>2, <1>3, <1>4, <1>5, <1>6, StallNumbers
<1>8. turns' = { A!Turn(i) : i \in 1..MaxDetours }
  BY <1>1, <1>2 DEF TurnsTaken
<1>9. A!StallIsBounded'
  BY <1>7 DEF A!StallIsBounded, Slack
<1> QED BY <1>1, <1>7, <1>8, <1>9 DEF A!GivesUpPatiently

LEMMA StallStep == StallIInv /\ [A!Next]_A!vars => StallIInv'
<1> SUFFICES ASSUME StallIInv, [A!Next]_A!vars PROVE StallIInv'
  OBVIOUS
<1> USE DEF StallIInv
<1>1. CASE A!Tick
  <2>1. directive.kind # "give_up" /\ Clock /\ TurnsTaken
    BY <1>1 DEF A!Tick
  <2>2. A!TypeOK'
    BY <1>1, TickTypes
  <2>3. PICK dt \in A!Ticks, yaw \in A!Yaws :
          A!Detour(dt, yaw) \/ A!Advance(dt, yaw) \/ A!Wait(dt, yaw) \/ A!Recover(dt, yaw) \/ A!GiveUp(dt, yaw)
    BY <1>1 DEF A!Tick
  <2>4. CASE A!GiveUp(dt, yaw)
    BY <2>1, <2>2, <2>4, GiveUpStep
  <2>5. CASE ~A!GiveUp(dt, yaw)
    <3>1. Clock' /\ TurnsTaken' /\ directive'.kind # "give_up"
      BY <2>1, <2>3, <2>5, ClockStep
    <3> QED BY <2>2, <3>1 DEF A!GivesUpPatiently
  <2> QED BY <2>4, <2>5
<1>2. CASE A!Reset
  <2>1. A!TypeOK'
    BY <1>2, FreshMemory DEF A!Reset, A!TypeOK, A!Fresh, A!Yaws
  <2>2. memory' = A!Fresh /\ elapsed' = 0 /\ turns' = {} /\ directive'.kind = "reset"
    BY <1>2 DEF A!Reset
  <2>3. Clock' /\ TurnsTaken'
    <3>1. 0 * A!Stretch(0) = 0 /\ 0 * A!Stretch(Slack) = 0
      BY StallNumbers
    <3> QED BY <2>2, <3>1 DEF Clock, TurnsTaken, A!Fresh, A!Stretch, Slack
  <2> QED BY <2>1, <2>2, <2>3 DEF A!GivesUpPatiently
<1>3. CASE UNCHANGED A!vars
  BY <1>3 DEF A!vars, A!TypeOK, A!StallIsBounded, A!GivesUpPatiently, Clock, TurnsTaken
<1> QED BY <1>1, <1>2, <1>3 DEF A!Next

LEMMA StallInit == A!Init => StallIInv
<1> SUFFICES ASSUME A!Init PROVE StallIInv
  OBVIOUS
<1>1. memory = A!Fresh /\ elapsed = 0 /\ turns = {} /\ directive.kind = "reset"
  BY DEF A!Init
<1>2. A!TypeOK
  BY FreshMemory DEF A!Init, A!TypeOK, A!Fresh, A!Yaws
<1>3. Clock /\ TurnsTaken
  <2>1. 0 * A!Stretch(0) = 0 /\ 0 * A!Stretch(Slack) = 0
    BY StallNumbers
  <2> QED BY <1>1, <2>1 DEF Clock, TurnsTaken, A!Fresh
<1> QED BY <1>1, <1>2, <1>3 DEF StallIInv, A!GivesUpPatiently

\* The clock agrees with the memory in every reachable state.
LEMMA StallInvariance == A!Spec => []StallIInv
<1> QED BY StallInit, StallStep, PTL DEF A!Spec

\* Types: the counters of AntiStuck stay within their limits.
THEOREM RecoveryTypes == A!Spec => []A!TypeOK
<1>1. StallIInv => A!TypeOK
  BY DEF StallIInv
<1> QED BY <1>1, StallInvariance, PTL

\* The bot is never without progress for longer than MaxAttempts detours and one
\* more stall, each late by less than a tick (AntiStuck::adjust).
THEOREM StallsAreBounded == A!Spec => []A!StallIsBounded
<1>1. StallIInv => A!StallIsBounded
  <2> SUFFICES ASSUME StallIInv, directive.kind # "give_up" PROVE A!StallIsBounded
    BY DEF StallIInv
  <2> DEFINE high == MaxDetours * A!Stretch(Slack)
  <2>1. elapsed <= high + StallTime - 1 /\ elapsed \in Nat
    BY ClockBounds DEF StallIInv, A!TypeOK
  <2>2. high \in Nat
    BY StallNumbers, OneMore
  <2>3. elapsed <= high + StallTime + MaxTick - 1
    <3> HIDE DEF high
    <3> QED BY <2>1, <2>2, StallNumbers
  <2> QED BY <2>3 DEF A!StallIsBounded, Slack
<1> QED BY <1>1, StallInvariance, PTL

\* The bot gives up only after every detour, each for its full time.
THEOREM PatientGiveUp == A!Spec => []A!GivesUpPatiently
<1>1. StallIInv => A!GivesUpPatiently
  BY DEF StallIInv
<1> QED BY <1>1, StallInvariance, PTL

\* Only Advance touches the best distance, and only by Progress or more.
LEMMA BestStep ==
  ASSUME A!TypeOK, A!Tick, memory.anchor # None, memory'.anchor # None, waypoint # None
  PROVE  /\ memory'.best <= memory.best
         /\ memory'.attempts < memory.attempts => memory'.best + Progress <= memory.best
<1>1. PICK dt \in A!Ticks, yaw \in A!Yaws :
        A!Detour(dt, yaw) \/ A!Advance(dt, yaw) \/ A!Wait(dt, yaw) \/ A!Recover(dt, yaw) \/ A!GiveUp(dt, yaw)
  BY DEF A!Tick
<1> DEFINE m == A!Measured
<1>2. m \in A!Memories /\ m.best = memory.best /\ m.attempts = memory.attempts
  BY MeasuredKeeps
<1>3. m.best \in Nat /\ m.attempts \in Nat
  BY <1>2 DEF A!Memories
<1> HIDE DEF m
<1>4. CASE A!Advance(dt, yaw)
  <2>1. memory'.best = Distance(position, waypoint) /\ m.best - Distance(position, waypoint) >= Progress
    BY <1>2, <1>4 DEF A!Advance, A!Approached, m, A!Memories
  <2>2. Distance(position, waypoint) \in Nat /\ Progress \in Nat
    BY AntiStuckAssumption DEF A!AntiStuckAssumption, A!TypeOK
  <2> QED BY <1>2, <1>3, <2>1, <2>2
<1>5. CASE A!Detour(dt, yaw)
  <2>1. memory'.best = m.best /\ memory'.attempts = m.attempts
    BY <1>2, <1>5 DEF A!Detour, A!Over, A!DetourYaw, m, A!Memories
  <2> QED BY <1>2, <1>3, <2>1
<1>6. CASE A!Wait(dt, yaw)
  <2>1. memory'.best = m.best /\ memory'.attempts = m.attempts
    BY <1>2, <1>6 DEF A!Wait, m, A!Memories
  <2> QED BY <1>2, <1>3, <2>1
<1>7. CASE A!Recover(dt, yaw)
  <2>1. memory'.best = m.best /\ memory'.attempts = m.attempts + 1
    BY <1>2, <1>7 DEF A!Recover, A!Detoured, m, A!Memories
  <2> QED BY <1>2, <1>3, <2>1
<1>8. CASE A!GiveUp(dt, yaw)
  BY <1>8 DEF A!GiveUp, A!Exhausted, A!Fresh
<1> QED BY <1>1, <1>4, <1>5, <1>6, <1>7, <1>8

\* A stalled bot gives up neither late nor early (AntiStuck::adjust).
THEOREM StallsAreHandled == A!Spec => []StallInv
BY RecoveryTypes, StallsAreBounded, PatientGiveUp, PTL DEF A!StallInv, StallInv

\* Until a reset the best distance only shrinks, and the detours are granted
\* again only for Progress of it.
THEOREM ProgressIsReal == A!Spec => BestOnlyShrinks
<1>1. A!TypeOK /\ [A!Next]_A!vars =>
        [memory.anchor # None /\ memory'.anchor # None /\ waypoint # None =>
           /\ memory'.best <= memory.best
           /\ memory'.attempts < memory.attempts => memory'.best + Progress <= memory.best]_A!vars
  <2> SUFFICES ASSUME A!TypeOK, A!Next, memory.anchor # None, memory'.anchor # None, waypoint # None
               PROVE  /\ memory'.best <= memory.best
                      /\ memory'.attempts < memory.attempts =>
                           memory'.best + Progress <= memory.best
    OBVIOUS
  <2>1. CASE A!Tick
    BY <2>1, BestStep
  <2>2. CASE A!Reset
    BY <2>2 DEF A!Reset, A!Fresh
  <2> QED BY <2>1, <2>2 DEF A!Next
<1> QED BY <1>1, RecoveryTypes, PTL DEF A!Spec, A!BestOnlyShrinks, BestOnlyShrinks

\* While a detour goes on, the bot was told its heading.
Heads == memory.left > 0 => directive = [kind |-> "recover", yaw |-> memory.heading]

LEMMA HeadsTick ==
  ASSUME A!TypeOK, Heads, A!Tick
  PROVE  /\ Heads'
         /\ memory.left > 0 => directive' = [kind |-> "recover", yaw |-> directive.yaw]
<1>1. PICK dt \in A!Ticks, yaw \in A!Yaws :
        A!Detour(dt, yaw) \/ A!Advance(dt, yaw) \/ A!Wait(dt, yaw) \/ A!Recover(dt, yaw) \/ A!GiveUp(dt, yaw)
  BY DEF A!Tick
<1> DEFINE m == A!Measured
<1>2. m \in A!Memories /\ m.left = memory.left /\ (memory.left > 0 => m.heading = memory.heading)
  BY MeasuredKeeps DEF A!TypeOK, A!Fresh
<1>3. memory.left \in Nat /\ dt \in Nat
  BY StallNumbers DEF A!TypeOK, A!Memories, A!Ticks
<1> HIDE DEF m
<1>4. CASE A!Detour(dt, yaw)
  <2>1. directive' = [kind |-> "recover", yaw |-> m.heading] /\ m.left > 0
    BY <1>4 DEF A!Detour, A!Tell, A!DetourYaw, m
  <2>2. memory'.left > 0 => memory'.heading = m.heading
    BY <1>2, <1>4 DEF A!Detour, A!Over, A!Memories, m
  <2> QED BY <1>2, <2>1, <2>2 DEF Heads
<1>5. CASE A!Advance(dt, yaw) \/ A!Wait(dt, yaw) \/ A!GiveUp(dt, yaw)
  <2>1. m.left = 0
    BY <1>5 DEF A!Advance, A!Wait, A!GiveUp, A!Stalled, m
  <2>2. CASE A!Advance(dt, yaw)
    BY <1>2, <2>1, <2>2 DEF A!Advance, A!Memories, Heads, m
  <2>3. CASE A!Wait(dt, yaw)
    BY <1>2, <2>1, <2>3 DEF A!Wait, A!Memories, Heads, m
  <2>4. CASE A!GiveUp(dt, yaw)
    BY <1>2, <2>1, <2>4 DEF A!GiveUp, A!Fresh, Heads
  <2> QED BY <1>5, <2>2, <2>3, <2>4
<1>6. CASE A!Recover(dt, yaw)
  <2>1. m.left = 0 /\ directive' = [kind |-> "recover", yaw |-> memory'.heading]
    BY <1>2, <1>6 DEF A!Recover, A!Stalled, A!Detoured, A!Tell, A!Memories, m
  <2> QED BY <1>2, <2>1 DEF Heads
<1> QED BY <1>1, <1>4, <1>5, <1>6

\* A detour keeps its heading although the yaw that is wanted turns with the
\* position (AntiStuck::adjust).
THEOREM DetoursGoStraight == A!Spec => DetourKeepsHeading
<1>1. A!Init => Heads
  BY DEF A!Init, A!Fresh, Heads
<1>2. A!TypeOK /\ Heads /\ [A!Next]_A!vars => Heads'
  <2> SUFFICES ASSUME A!TypeOK, Heads, [A!Next]_A!vars PROVE Heads'
    OBVIOUS
  <2>1. CASE A!Tick
    BY <2>1, HeadsTick
  <2>2. CASE A!Reset
    BY <2>2 DEF A!Reset, A!Fresh, Heads
  <2>3. CASE UNCHANGED A!vars
    BY <2>3 DEF A!vars, Heads
  <2> QED BY <2>1, <2>2, <2>3 DEF A!Next
<1>3. A!TypeOK /\ Heads /\ [A!Next]_A!vars =>
        [memory.left > 0 /\ directive'.kind # "reset" =>
           directive' = [kind |-> "recover", yaw |-> directive.yaw]]_A!vars
  <2>1. A!Reset => directive'.kind = "reset"
    BY DEF A!Reset
  <2> QED BY <2>1, HeadsTick DEF A!Next
<1> QED
  BY <1>1, <1>2, <1>3, RecoveryTypes, PTL DEF A!Spec, A!DetourKeepsHeading, DetourKeepsHeading
=============================================================================
