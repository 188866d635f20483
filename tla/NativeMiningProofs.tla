-------------------------- MODULE NativeMiningProofs --------------------------
(***************************************************************************)
(* What native digging guarantees for any positions, names and numbers of  *)
(* commands, targets, changes and disturbances.                            *)
(***************************************************************************)
EXTENDS NativeMining, TLAPS

Targets == Positions \union {"front"}
Labels == Names \union {"any"}

Tasks == [requested : Nat, node : Labels, targets : Seq(Targets), target : Targets,
          mined : Nat, failed : Nat]

\* Only a prepare may ask for what is in front.
Packets ==
  { p \in [type : {"prepare", "start", "complete", "stop", "verify"}, at : Targets,
           node : Labels, of : Nat] : p.type # "prepare" => p.at \in Positions }

HelperReplies ==
  [type : {"prepare", "verify", "unreadable"}, ok : BOOLEAN, at : Positions,
   node : Labels, of : Nat]

Typed ==
  /\ TypeOK
  /\ task \in Tasks
  /\ phase \in {"digging", "verifying"} => task.target \in Positions
  /\ toServer \in Seq(Packets)
  /\ replies \in Seq(HelperReplies)
  /\ job \in Nat /\ attempt \in Nat /\ disturbances \in Nat /\ answered \in Nat
  /\ abandoned \in BOOLEAN

\* A helper whose replies the bot cannot read never gets a dig started.
Readable ==
  IF helper = "json"
  THEN \A i \in 1..Len(replies) : replies[i].type # "unreadable"
  ELSE /\ phase \notin {"digging", "verifying"}
       /\ \A i \in 1..Len(replies) : replies[i].type # "prepare"

-----------------------------------------------------------------------------
(* The interactions in a queue *)

Interactions == {"start", "complete", "stop"}

\* No interaction between two places of the queue.
Quiet(q, i, k) == \A j \in 1..Len(q) : i < j /\ j < k => q[j].type \notin Interactions

\* The engine is digging at `before' and, when it has taken what is in the queue,
\* at `after'.
Leaves(q, before, after) ==
  \/ \E i \in 1..Len(q) : /\ q[i].type \in Interactions /\ Quiet(q, i, Len(q) + 1)
                          /\ after = IF q[i].type = "start" THEN q[i].at ELSE "none"
  \/ Quiet(q, 0, Len(q) + 1) /\ after = before

\* Each completion finds its own dig.
Completes(q, before) ==
  \A k \in 1..Len(q) : q[k].type = "complete" =>
    \/ \E i \in 1..Len(q) : /\ i < k /\ q[i].type = "start" /\ q[i].at = q[k].at
                            /\ Quiet(q, i, k)
    \/ Quiet(q, 0, k) /\ before = q[k].at

Dug == IF phase = "digging" THEN task.target ELSE "none"

Digs == Completes(toServer, digging) /\ Leaves(toServer, digging, Dug)

-----------------------------------------------------------------------------
(* The queries and their answers *)

Waiting == next..Len(replies)
Asked == { i \in 1..Len(toServer) : toServer[i].type \in {"prepare", "verify"} }

\* In order and with every prepare answered in time.
InOrder == disturbances = 0 /\ ~abandoned

\* A prepare that is not answered is the current attempt's, and so is its answer;
\* nothing was asked after it.  When it was heard nothing is asked any more but
\* the verification of its own dig.
Order ==
  InOrder =>
    /\ foreign = {}
    /\ \A i \in 1..Len(toServer) : toServer[i].type = "prepare" =>
         /\ phase = "preparing"
         /\ toServer[i].at = task.target /\ toServer[i].of = attempt
         /\ \A k \in Asked : k <= i
    /\ \A i \in Waiting : replies[i].type # "verify" =>
         /\ phase = "preparing"
         /\ replies[i].of = attempt
         /\ task.target = "front" => replies[i].at = InFront
         /\ i = Len(replies) /\ Asked = {}
    /\ phase = "digging" => Waiting = {} /\ Asked = {}
    /\ phase = "verifying" =>
         /\ \A i \in Asked : toServer[i].of = attempt
         /\ \A i \in Waiting : replies[i].of = attempt

IInv == Typed /\ Readable /\ Digs /\ Order

-----------------------------------------------------------------------------
(* Queues *)

LEMMA Appended ==
  ASSUME NEW S, NEW q \in Seq(S), NEW x \in S
  PROVE  /\ Append(q, x) \in Seq(S)
         /\ Len(q) \in Nat /\ Len(Append(q, x)) = Len(q) + 1
         /\ \A i \in 1..Len(q) : Append(q, x)[i] = q[i]
         /\ Append(q, x)[Len(q) + 1] = x
OBVIOUS

LEMMA Popped ==
  ASSUME NEW S, NEW q \in Seq(S), q # <<>>
  PROVE  /\ Tail(q) \in Seq(S)
         /\ Len(q) \in Nat \ {0} /\ Len(Tail(q)) = Len(q) - 1
         /\ Head(q) = q[1] /\ q[1] \in S
         /\ \A i \in 1..Len(Tail(q)) : Tail(q)[i] = q[i + 1]
OBVIOUS

LEMMA SendOne ==
  ASSUME NEW S, NEW q \in Seq(S), NEW x \in S
  PROVE  q \o <<x>> = Append(q, x)
OBVIOUS

LEMMA SendTwo ==
  ASSUME NEW S, NEW q \in Seq(S), NEW x \in S, NEW y \in S
  PROVE  q \o <<x, y>> = Append(Append(q, x), y)
OBVIOUS

\* A query at the end of the queue changes nothing for the engine.
LEMMA AppendQuery ==
  ASSUME NEW q \in Seq(Packets), NEW x \in Packets, x.type \notin Interactions,
         NEW before, NEW after, Completes(q, before), Leaves(q, before, after)
  PROVE  Completes(Append(q, x), before) /\ Leaves(Append(q, x), before, after)
<1> DEFINE r == Append(q, x)
<1>1. /\ Len(q) \in Nat /\ Len(r) = Len(q) + 1 /\ r[Len(q) + 1] = x
      /\ \A i \in 1..Len(q) : r[i] = q[i] /\ i \in 1..Len(r) /\ i # Len(q) + 1
      /\ \A i \in 1..Len(r) : i \in 1..Len(q) \/ i = Len(q) + 1
  BY Appended
<1> HIDE DEF r
<1>2. ASSUME NEW i, NEW k, Quiet(q, i, k) PROVE Quiet(r, i, k)
  BY <1>1, <1>2 DEF Quiet
<1>3. ASSUME NEW i, Quiet(q, i, Len(q) + 1) PROVE Quiet(r, i, Len(r) + 1)
  BY <1>1, <1>3 DEF Quiet
<1>4. x.type # "complete"
  BY DEF Interactions
<1>5. Completes(r, before)
  BY <1>1, <1>2, <1>4 DEF Completes
<1>6. Leaves(r, before, after)
  BY <1>1, <1>3 DEF Leaves
<1> QED BY <1>5, <1>6 DEF r

\* An interaction at the end of the queue decides what the engine will do last; a
\* completion has to find its dig there.
LEMMA AppendInteraction ==
  ASSUME NEW q \in Seq(Packets), NEW x \in Packets, x.type \in Interactions,
         NEW before, NEW after, Completes(q, before), Leaves(q, before, after),
         x.type = "complete" => after = x.at /\ after # "none"
  PROVE  /\ Completes(Append(q, x), before)
         /\ Leaves(Append(q, x), before, IF x.type = "start" THEN x.at ELSE "none")
<1> DEFINE r == Append(q, x)
<1>1. /\ Len(q) \in Nat /\ Len(r) = Len(q) + 1 /\ r[Len(q) + 1] = x
      /\ \A i \in 1..Len(q) : r[i] = q[i] /\ i \in 1..Len(r) /\ i < Len(q) + 1
      /\ \A i \in 1..Len(r) : i \in 1..Len(q) \/ i = Len(q) + 1
      /\ Len(q) + 1 \in 1..Len(r)
  BY Appended
<1> HIDE DEF r
<1>2. ASSUME NEW i, NEW k \in 1..(Len(q) + 1), Quiet(q, i, k) PROVE Quiet(r, i, k)
  BY <1>1, <1>2 DEF Quiet
<1>3. Quiet(r, Len(q) + 1, Len(r) + 1)
  BY <1>1 DEF Quiet
<1>4. Leaves(r, before, IF x.type = "start" THEN x.at ELSE "none")
  BY <1>1, <1>3 DEF Leaves
<1>5. ASSUME NEW k \in 1..Len(r), r[k].type = "complete"
      PROVE  \/ \E i \in 1..Len(r) : /\ i < k /\ r[i].type = "start" /\ r[i].at = r[k].at
                                     /\ Quiet(r, i, k)
             \/ Quiet(r, 0, k) /\ before = r[k].at
  <2>1. CASE k \in 1..Len(q)
    <3>1. k \in 1..(Len(q) + 1) /\ q[k].type = "complete" /\ q[k].at = r[k].at
      BY <1>1, <1>5, <2>1
    <3>2. CASE Quiet(q, 0, k) /\ before = q[k].at
      BY <1>2, <3>1, <3>2
    <3>3. CASE \E i \in 1..Len(q) : i < k /\ q[i].type = "start" /\ q[i].at = q[k].at /\ Quiet(q, i, k)
      <4>1. PICK i \in 1..Len(q) : i < k /\ q[i].type = "start" /\ q[i].at = q[k].at /\ Quiet(q, i, k)
        BY <3>3
      <4> QED BY <1>1, <1>2, <3>1, <4>1
    <3> QED BY <2>1, <3>1, <3>2, <3>3 DEF Completes
  <2>2. CASE k = Len(q) + 1
    <3>1. r[k] = x /\ after = x.at /\ after # "none" /\ k \in 1..(Len(q) + 1)
      BY <1>1, <1>5, <2>2
    <3>2. CASE Quiet(q, 0, Len(q) + 1) /\ after = before
      BY <1>2, <2>2, <3>1, <3>2
    <3>3. CASE \E i \in 1..Len(q) : /\ q[i].type \in Interactions /\ Quiet(q, i, Len(q) + 1)
                                    /\ after = IF q[i].type = "start" THEN q[i].at ELSE "none"
      <4>1. PICK i \in 1..Len(q) : /\ q[i].type \in Interactions /\ Quiet(q, i, Len(q) + 1)
                                   /\ after = IF q[i].type = "start" THEN q[i].at ELSE "none"
        BY <3>3
      <4>2. q[i].type = "start" /\ q[i].at = x.at
        BY <3>1, <4>1
      <4> QED BY <1>1, <1>2, <2>2, <3>1, <4>1, <4>2
    <3> QED BY <3>2, <3>3 DEF Leaves
  <2> QED BY <1>1, <2>1, <2>2
<1>6. Completes(r, before)
  BY <1>5 DEF Completes
<1> QED BY <1>4, <1>6 DEF r

\* The server takes the head of the queue.
LEMMA PopInteraction ==
  ASSUME NEW q \in Seq(Packets), q # <<>>,
         NEW before, NEW now, NEW after, Completes(q, before), Leaves(q, before, after),
         now = IF Head(q).type \notin Interactions THEN before
               ELSE IF Head(q).type = "start" THEN Head(q).at ELSE "none"
  PROVE  Completes(Tail(q), now) /\ Leaves(Tail(q), now, after)
<1> DEFINE r == Tail(q)
<1>1. /\ Len(q) \in Nat \ {0} /\ Len(r) = Len(q) - 1 /\ Head(q) = q[1]
      /\ \A i \in 1..Len(r) : r[i] = q[i + 1]
  BY Popped
<1> HIDE DEF r
<1>2. /\ 1 \in 1..Len(q) /\ Len(r) \in Nat
      /\ \A i \in 1..Len(q) : i = 1 \/ (i - 1 \in 1..Len(r) /\ q[i] = r[i - 1] /\ i > 1)
  <2> SUFFICES ASSUME NEW i \in 1..Len(q), i # 1
               PROVE  i - 1 \in 1..Len(r) /\ q[i] = r[i - 1] /\ i > 1
    BY <1>1
  <2>1. i - 1 \in 1..Len(r) /\ i > 1 /\ (i - 1) + 1 = i
    BY <1>1
  <2> QED BY <1>1, <2>1
<1>3. ASSUME NEW i \in Nat, NEW k \in Nat, Quiet(q, i, k)
      PROVE  /\ i > 0 => Quiet(r, i - 1, k - 1)
             /\ i = 0 => Quiet(r, 0, k - 1)
  <2> SUFFICES ASSUME NEW j \in 1..Len(r), j < k - 1, i = 0 \/ i - 1 < j
               PROVE  r[j].type \notin Interactions
    BY DEF Quiet
  <2>1. j + 1 \in 1..Len(q) /\ i < j + 1 /\ j + 1 < k
    BY <1>1
  <2>2. q[j + 1].type \notin Interactions
    BY <1>3, <2>1 DEF Quiet
  <2> QED BY <1>1, <2>2
<1>4. ASSUME NEW k \in Nat, k > 1, Quiet(q, 0, k)
      PROVE  Quiet(r, 0, k - 1) /\ now = before
  <2>1. 0 \in Nat /\ q[1].type \notin Interactions
    BY <1>2, <1>4 DEF Quiet
  <2> QED BY <1>1, <1>3, <1>4, <2>1
<1>5. Completes(r, now)
  <2> SUFFICES ASSUME NEW k \in 1..Len(r), r[k].type = "complete"
               PROVE  \/ \E i \in 1..Len(r) : /\ i < k /\ r[i].type = "start" /\ r[i].at = r[k].at
                                              /\ Quiet(r, i, k)
                      \/ Quiet(r, 0, k) /\ now = r[k].at
    BY DEF Completes
  <2>1. k + 1 \in 1..Len(q) /\ q[k + 1] = r[k] /\ (k + 1) - 1 = k /\ k + 1 \in Nat /\ k + 1 > 1
    BY <1>1
  <2>2. CASE Quiet(q, 0, k + 1) /\ before = q[k + 1].at
    BY <1>4, <2>1, <2>2
  <2>3. CASE \E i \in 1..Len(q) : /\ i < k + 1 /\ q[i].type = "start" /\ q[i].at = q[k + 1].at
                                  /\ Quiet(q, i, k + 1)
    <3>1. PICK i \in 1..Len(q) : /\ i < k + 1 /\ q[i].type = "start" /\ q[i].at = q[k + 1].at
                                 /\ Quiet(q, i, k + 1)
      BY <2>3
    <3>2. i \in Nat /\ i > 0 /\ Quiet(r, i - 1, k)
      BY <1>3, <2>1, <3>1
    <3>3. CASE i = 1
      <4>1. now = q[1].at
        BY <1>1, <3>1, <3>3 DEF Interactions
      <4>2. Quiet(r, 0, k)
        BY <3>2, <3>3
      <4> QED BY <2>1, <3>1, <3>3, <4>1, <4>2
    <3>4. CASE i # 1
      <4>1. i - 1 \in 1..Len(r) /\ q[i] = r[i - 1] /\ i - 1 < k
        BY <1>2, <3>1, <3>4
      <4> QED BY <2>1, <3>1, <3>2, <4>1
    <3> QED BY <3>3, <3>4
  <2> QED BY <2>1, <2>2, <2>3 DEF Completes
<1>6. Leaves(r, now, after)
  <2>0. Len(q) + 1 \in Nat /\ (Len(q) + 1) - 1 = Len(r) + 1 /\ Len(q) + 1 > 1
    BY <1>1
  <2>1. CASE Quiet(q, 0, Len(q) + 1) /\ after = before
    <3>1. Quiet(r, 0, (Len(q) + 1) - 1) /\ now = before
      BY <1>4, <2>0, <2>1
    <3> QED BY <2>0, <2>1, <3>1 DEF Leaves
  <2>2. CASE \E i \in 1..Len(q) : /\ q[i].type \in Interactions /\ Quiet(q, i, Len(q) + 1)
                                  /\ after = IF q[i].type = "start" THEN q[i].at ELSE "none"
    <3>1. PICK i \in 1..Len(q) : /\ q[i].type \in Interactions /\ Quiet(q, i, Len(q) + 1)
                                 /\ after = IF q[i].type = "start" THEN q[i].at ELSE "none"
      BY <2>2
    <3>2. i \in Nat /\ i > 0
      OBVIOUS
    <3>3. Quiet(r, i - 1, (Len(q) + 1) - 1)
      BY <1>3, <2>0, <3>1, <3>2
    <3>4. CASE i = 1
      <4>1. after = now
        BY <1>1, <3>1, <3>4
      <4>2. Quiet(r, 0, Len(r) + 1)
        BY <2>0, <3>3, <3>4
      <4> QED BY <4>1, <4>2 DEF Leaves
    <3>5. CASE i # 1
      <4>1. i - 1 \in 1..Len(r) /\ q[i] = r[i - 1]
        BY <1>2, <3>5
      <4> QED BY <2>0, <3>1, <3>3, <4>1 DEF Leaves
    <3> QED BY <3>4, <3>5
  <2> QED BY <2>1, <2>2 DEF Leaves
<1> QED BY <1>5, <1>6 DEF r

-----------------------------------------------------------------------------
(* The next target *)

\* What Continue comes to, after the queue has become q.
Continued(q) ==
  \/ /\ phase' = "idle" /\ task' = NoTask
     /\ attempt' = attempt /\ answered' = answered + 1
     /\ toServer' = q
  \/ /\ phase' = "preparing"
     /\ attempt' = attempt + 1 /\ answered' = answered
     /\ task' \in Tasks /\ task'.mined < task'.requested
     /\ task'.mined + task'.failed + Len(task'.targets) + 1 <= MaxTargets
     /\ \E x \in Packets : /\ toServer' = Append(q, x)
                           /\ x.type = "prepare" /\ x.at = task'.target /\ x.of = attempt'

LEMMA NoTaskIsTask == NoTask \in Tasks /\ Len(NoTask.targets) = 0
  BY DEF NoTask, Tasks, Labels, Targets

LEMMA Continues ==
  ASSUME Typed, NEW t \in Tasks, t.mined + t.failed + Len(t.targets) <= MaxTargets,
         NEW sent, toServer \o sent \in Seq(Packets), Continue(t, sent)
  PROVE  Continued(toServer \o sent)
<1> DEFINE q == toServer \o sent
<1>1. CASE t.mined >= t.requested \/ t.targets = <<>>
  BY <1>1 DEF Continue, Finish, Continued
<1>2. CASE ~(t.mined >= t.requested \/ t.targets = <<>>)
  <2> DEFINE x == [type |-> "prepare", at |-> Head(t.targets), node |-> "any", of |-> attempt + 1]
             u == [t EXCEPT !.targets = Tail(@), !.target = Head(t.targets)]
  <2>1. /\ attempt' = attempt + 1 /\ answered' = answered
        /\ toServer' = q \o <<x>>
        /\ phase' = "preparing" /\ task' = u
    BY <1>2 DEF Continue
  <2>2. /\ t.targets \in Seq(Targets) /\ t.targets # <<>> /\ ~(t.mined >= t.requested)
        /\ t.mined \in Nat /\ t.requested \in Nat /\ t.failed \in Nat
    BY <1>2 DEF Tasks
  <2>3. /\ Head(t.targets) \in Targets /\ Tail(t.targets) \in Seq(Targets)
        /\ Len(t.targets) \in Nat /\ Len(Tail(t.targets)) = Len(t.targets) - 1
    BY <2>2
  <2>4. x \in Packets
    BY <2>3 DEF Packets, Labels, Typed
  <2>5. q \o <<x>> = Append(q, x)
    <3> HIDE DEF q, x
    <3> QED BY <2>4, SendOne DEF q
  <2>6. /\ u \in Tasks /\ u.mined = t.mined /\ u.failed = t.failed /\ u.requested = t.requested
        /\ u.targets = Tail(t.targets) /\ u.target = Head(t.targets)
    BY <2>3 DEF Tasks
  <2>7. x.type = "prepare" /\ x.at = u.target /\ x.of = attempt + 1
    BY <2>6
  <2> HIDE DEF x, u, q
  <2>8. u.mined < u.requested /\ u.mined + u.failed + Len(u.targets) + 1 <= MaxTargets
    BY <2>2, <2>3, <2>6, MiningAssumption
  <2>9. \E y \in Packets : toServer' = Append(q, y) /\ y.type = "prepare" /\ y.at = task'.target /\ y.of = attempt'
    BY <2>1, <2>4, <2>5, <2>7
  <2>10. Continued(q)
    BY <2>1, <2>6, <2>8, <2>9 DEF Continued
  <2> QED BY <2>10 DEF q
<1> QED BY <1>1, <1>2

\* One command is going on, or has just been accepted.
LEMMA ContinuedTyped ==
  ASSUME Typed, NEW q \in Seq(Packets), Continued(q),
         job' \in Nat, job' = answered + 1, disturbances' \in Nat, abandoned' \in BOOLEAN,
         next' \in 1..(Len(replies) + 1), UNCHANGED <<node, digging, replies>>
  PROVE  Typed'
<1>0. /\ answered \in Nat /\ attempt \in Nat /\ digging \in Positions \union {"none"}
      /\ node \in [Positions -> Names \union {"air"}] /\ replies \in Seq(HelperReplies)
  BY DEF Typed, TypeOK
<1>1. CASE phase' = "idle"
  <2>1. task' = NoTask /\ attempt' = attempt /\ answered' = answered + 1 /\ toServer' = q
    BY <1>1 DEF Continued
  <2>2. /\ NoTask.mined = 0 /\ NoTask.failed = 0 /\ Len(NoTask.targets) = 0
        /\ NoTask.node \in Names \union {"any"} /\ NoTask.target \in Positions \union {"front"}
    BY DEF NoTask
  <2>3. 0 + 0 + 0 + 0 <= MaxTargets
    BY MiningAssumption
  <2>4. answered' = job' - 0 /\ answered' \in Nat /\ attempt' \in Nat
    BY <1>0, <2>1
  <2>5. TypeOK'
    BY <1>0, <1>1, <2>1, <2>2, <2>3, <2>4 DEF TypeOK
  <2> QED BY <1>0, <1>1, <2>1, <2>4, <2>5, NoTaskIsTask DEF Typed
<1>2. CASE phase' = "preparing"
  <2>1. /\ attempt' = attempt + 1 /\ answered' = answered
        /\ task' \in Tasks /\ task'.mined < task'.requested
        /\ task'.mined + task'.failed + Len(task'.targets) + 1 <= MaxTargets
    BY <1>2 DEF Continued
  <2>2. PICK x \in Packets : toServer' = Append(q, x)
    BY <1>2 DEF Continued
  <2>3. toServer' \in Seq(Packets)
    BY <2>2, Appended
  <2>4. task'.node \in Names \union {"any"} /\ task'.target \in Positions \union {"front"}
    BY <2>1 DEF Tasks, Labels, Targets
  <2>5. answered' = job' - 1 /\ answered' \in Nat /\ attempt' \in Nat
    BY <1>0, <2>1
  <2>6. TypeOK'
    BY <1>0, <1>2, <2>1, <2>4, <2>5 DEF TypeOK
  <2> QED BY <1>0, <1>2, <2>1, <2>3, <2>5, <2>6 DEF Typed
<1> QED BY <1>1, <1>2 DEF Continued

LEMMA ContinuedDigs ==
  ASSUME NEW q \in Seq(Packets), Continued(q), digging' = digging,
         Completes(q, digging), Leaves(q, digging, "none")
  PROVE  Digs'
<1>1. phase' # "digging"
  BY DEF Continued
<1>2. CASE toServer' = q
  BY <1>1, <1>2 DEF Digs, Dug
<1>3. CASE \E x \in Packets : toServer' = Append(q, x) /\ x.type = "prepare"
  <2>1. PICK x \in Packets : toServer' = Append(q, x) /\ x.type = "prepare"
    BY <1>3
  <2>2. x.type \notin Interactions
    BY <2>1 DEF Interactions
  <2>3. Completes(Append(q, x), digging) /\ Leaves(Append(q, x), digging, "none")
    BY <2>2, AppendQuery
  <2> QED BY <1>1, <2>1, <2>3 DEF Digs, Dug
<1> QED BY <1>2, <1>3 DEF Continued

\* With nothing left to answer for the attempt before, the next one is alone.
LEMMA ContinuedOrder ==
  ASSUME Typed, NEW q \in Seq(Packets), Continued(q),
         InOrder' => /\ foreign' = {}
                     /\ \A i \in 1..Len(q) : q[i].type # "prepare"
                     /\ \A i \in Waiting' : replies'[i].type = "verify"
  PROVE  Order'
<1> SUFFICES ASSUME InOrder'
             PROVE  /\ \A i \in 1..Len(toServer') : toServer'[i].type = "prepare" =>
                         /\ phase' = "preparing"
                         /\ toServer'[i].at = task'.target /\ toServer'[i].of = attempt'
                         /\ \A k \in Asked' : k <= i
                    /\ phase' \notin {"digging", "verifying"}
  BY DEF Order
<1>1. phase' \notin {"digging", "verifying"}
  BY DEF Continued
<1>2. CASE toServer' = q
  BY <1>1, <1>2
<1>3. CASE /\ phase' = "preparing"
           /\ \E x \in Packets : /\ toServer' = Append(q, x)
                                 /\ x.type = "prepare" /\ x.at = task'.target /\ x.of = attempt'
  <2>1. PICK x \in Packets : /\ toServer' = Append(q, x)
                             /\ x.type = "prepare" /\ x.at = task'.target /\ x.of = attempt'
    BY <1>3
  <2>2. /\ Len(q) \in Nat /\ Len(toServer') = Len(q) + 1
        /\ \A i \in 1..Len(q) : toServer'[i] = q[i]
        /\ toServer'[Len(q) + 1] = x
    BY <2>1, Appended
  <2>3. ASSUME NEW i \in 1..Len(toServer'), toServer'[i].type = "prepare" PROVE i = Len(q) + 1
    <3>1. i \in 1..Len(q) \/ i = Len(q) + 1
      BY <2>2
    <3> QED BY <2>2, <2>3, <3>1
  <2>4. \A k \in Asked' : k <= Len(q) + 1
    BY <2>2 DEF Asked
  <2> QED BY <1>1, <1>3, <2>1, <2>2, <2>3, <2>4
<1> QED BY <1>1, <1>2, <1>3 DEF Continued

LEMMA ContinueInv ==
  ASSUME IInv, NEW t \in Tasks, t.mined + t.failed + Len(t.targets) <= MaxTargets,
         NEW sent, toServer \o sent \in Seq(Packets), Continue(t, sent),
         Completes(toServer \o sent, digging), Leaves(toServer \o sent, digging, "none"),
         job' \in Nat, job' = answered + 1, disturbances' \in Nat, abandoned' \in BOOLEAN,
         next' \in 1..(Len(replies) + 1), UNCHANGED <<helper, node, digging, replies>>,
         InOrder' => /\ foreign' = {}
                     /\ \A i \in 1..Len(toServer \o sent) : (toServer \o sent)[i].type # "prepare"
                     /\ \A i \in Waiting' : replies'[i].type = "verify"
  PROVE  IInv'
<1> DEFINE q == toServer \o sent
<1>1. Continued(q)
  BY Continues DEF IInv
<1> HIDE DEF q
<1>2. Typed'
  BY <1>1, ContinuedTyped DEF IInv, q
<1>3. Digs'
  BY <1>1, ContinuedDigs DEF q
<1>4. Order'
  BY <1>1, ContinuedOrder DEF IInv, q
<1>5. Readable'
  BY <1>1 DEF IInv, Readable, Continued
<1> QED BY <1>2, <1>3, <1>4, <1>5 DEF IInv

-----------------------------------------------------------------------------
(* The task's steps *)

LEMMA QueueItself == Typed => toServer \o <<>> = toServer
  BY DEF Typed

LEMMA StartInv == IInv /\ (Mine \/ Collect) => IInv'
<1> SUFFICES ASSUME IInv, NEW name \in Labels, NEW count \in Nat, NEW s \in Seq(Targets),
                    Len(s) <= MaxTargets, Start(name, count, s)
             PROVE  IInv'
  <2>1. ASSUME Mine
        PROVE  \E name \in Labels, count \in Nat, s \in Seq(Targets) :
                 Len(s) <= MaxTargets /\ Start(name, count, s)
    <3>1. PICK at \in Targets : Start("any", 1, <<at>>)
      BY <2>1 DEF Mine, Targets
    <3>2. <<at>> \in Seq(Targets) /\ Len(<<at>>) <= MaxTargets
      BY MiningAssumption
    <3> QED BY <3>1, <3>2 DEF Labels
  <2>2. ASSUME Collect
        PROVE  \E name \in Labels, count \in Nat, s \in Seq(Targets) :
                 Len(s) <= MaxTargets /\ Start(name, count, s)
    <3>1. PICK name \in Names, count \in 1..MaxTargets, s \in Candidates : Start(name, count, s)
      BY <2>2 DEF Collect
    <3>2. PICK n \in 0..MaxTargets : s \in [1..n -> Positions]
      BY DEF Candidates
    <3>3. s \in Seq(Targets) /\ Len(s) = n
      BY <3>2 DEF Targets
    <3>4. Len(s) <= MaxTargets /\ count \in Nat
      BY <3>2, <3>3, MiningAssumption
    <3> QED BY <3>1, <3>3, <3>4 DEF Labels
  <2> QED BY <2>1, <2>2
<1> DEFINE t == [NoTask EXCEPT !.requested = count, !.node = name, !.targets = s]
<1>1. /\ phase = "idle" /\ job' = job + 1 /\ Continue(t, <<>>)
      /\ UNCHANGED <<serverVars, helper, next, disturbances, abandoned, foreign>>
  BY DEF Start
<1>2. t \in Tasks /\ t.mined + t.failed + Len(t.targets) <= MaxTargets
  <2>1. t.mined = 0 /\ t.failed = 0 /\ t.targets = s
    BY DEF NoTask
  <2>2. t \in Tasks
    BY NoTaskIsTask DEF Tasks, NoTask
  <2>3. 0 + 0 + Len(s) <= MaxTargets
    BY MiningAssumption
  <2> QED BY <2>1, <2>2, <2>3
<1>3. toServer \o <<>> = toServer /\ toServer \in Seq(Packets)
  BY QueueItself DEF IInv, Typed
<1>4. Completes(toServer, digging) /\ Leaves(toServer, digging, "none")
  BY <1>1 DEF IInv, Digs, Dug
<1>5. /\ job' \in Nat /\ job' = answered + 1 /\ disturbances' \in Nat /\ abandoned' \in BOOLEAN
      /\ next' \in 1..(Len(replies) + 1) /\ UNCHANGED <<helper, node, digging, replies>>
  BY <1>1 DEF IInv, Typed, TypeOK, serverVars
<1>6. InOrder' => /\ foreign' = {}
                  /\ \A i \in 1..Len(toServer) : toServer[i].type # "prepare"
                  /\ \A i \in Waiting' : replies'[i].type = "verify"
  BY <1>1 DEF IInv, Order, InOrder, Waiting, serverVars
<1> HIDE DEF t
<1> QED BY <1>1, <1>2, <1>3, <1>4, <1>5, <1>6, ContinueInv

\* The task that goes on with the next target, or ends.
LEMMA TaskGoesOn ==
  ASSUME Typed, phase # "idle"
  PROVE  /\ Failed(task) \in Tasks
         /\ Failed(task).mined + Failed(task).failed + Len(Failed(task).targets) <= MaxTargets
         /\ [task EXCEPT !.mined = @ + 1] \in Tasks
         /\ [task EXCEPT !.mined = @ + 1].mined + [task EXCEPT !.mined = @ + 1].failed
              + Len([task EXCEPT !.mined = @ + 1].targets) <= MaxTargets
         /\ [Failed(task) EXCEPT !.targets = <<>>] \in Tasks
         /\ [Failed(task) EXCEPT !.targets = <<>>].mined + [Failed(task) EXCEPT !.targets = <<>>].failed
              + Len([Failed(task) EXCEPT !.targets = <<>>].targets) <= MaxTargets
<1>1. /\ task \in Tasks /\ task.mined \in Nat /\ task.failed \in Nat
      /\ task.targets \in Seq(Targets) /\ Len(task.targets) \in Nat
      /\ task.mined + task.failed + Len(task.targets) + 1 <= MaxTargets
      /\ MaxTargets \in Nat
  BY MiningAssumption DEF Typed, TypeOK, Tasks
<1>2. /\ Failed(task) \in Tasks /\ Failed(task).mined = task.mined
      /\ Failed(task).failed = task.failed + 1 /\ Failed(task).targets = task.targets
  BY <1>1 DEF Failed, Tasks
<1>3. /\ [task EXCEPT !.mined = @ + 1] \in Tasks
      /\ [task EXCEPT !.mined = @ + 1].mined = task.mined + 1
      /\ [task EXCEPT !.mined = @ + 1].failed = task.failed
      /\ [task EXCEPT !.mined = @ + 1].targets = task.targets
  BY <1>1 DEF Tasks
<1>4. /\ [Failed(task) EXCEPT !.targets = <<>>] \in Tasks
      /\ [Failed(task) EXCEPT !.targets = <<>>].mined = task.mined
      /\ [Failed(task) EXCEPT !.targets = <<>>].failed = task.failed + 1
      /\ [Failed(task) EXCEPT !.targets = <<>>].targets = <<>>
  <2> DEFINE f == Failed(task)
  <2>1. f \in Tasks /\ f.mined = task.mined /\ f.failed = task.failed + 1
    BY <1>2
  <2>2. <<>> \in Seq(Targets)
    OBVIOUS
  <2> HIDE DEF f
  <2>3. /\ [f EXCEPT !.targets = <<>>] \in Tasks
        /\ [f EXCEPT !.targets = <<>>].mined = task.mined
        /\ [f EXCEPT !.targets = <<>>].failed = task.failed + 1
        /\ [f EXCEPT !.targets = <<>>].targets = <<>>
    BY <2>1, <2>2 DEF Tasks
  <2> QED BY <2>3 DEF f
<1>5. Len(<<>>) = 0
  OBVIOUS
<1>6. /\ task.mined + (task.failed + 1) + Len(task.targets) <= MaxTargets
      /\ (task.mined + 1) + task.failed + Len(task.targets) <= MaxTargets
      /\ task.mined + (task.failed + 1) + 0 <= MaxTargets
  BY ONLY <1>1
<1> QED BY <1>2, <1>3, <1>4, <1>5, <1>6

\* A stop or nothing closes a dig; what is asked for the attempt is over.
LEMMA ClosedBy ==
  ASSUME IInv, phase # "idle",
         NEW sent, sent = IF phase = "digging" THEN <<Packet("stop", task.target, task.node)>> ELSE <<>>
  PROVE  /\ toServer \o sent \in Seq(Packets)
         /\ Completes(toServer \o sent, digging) /\ Leaves(toServer \o sent, digging, "none")
         /\ InOrder /\ phase # "preparing"
              => \A i \in 1..Len(toServer \o sent) : (toServer \o sent)[i].type # "prepare"
<1>0. Typed /\ toServer \in Seq(Packets) /\ task \in Tasks /\ attempt \in Nat
      /\ Completes(toServer, digging) /\ Leaves(toServer, digging, Dug)
  BY DEF IInv, Typed, Digs
<1>1. CASE phase = "digging"
  <2> DEFINE x == Packet("stop", task.target, task.node)
  <2>1. x \in Packets /\ x.type = "stop"
    BY <1>0, <1>1 DEF Packets, Packet, Tasks, Typed
  <2>2. sent = <<x>>
    BY <1>1
  <2> HIDE DEF x
  <2>3. toServer \o sent = Append(toServer, x)
    <3>1. toServer \o <<x>> = Append(toServer, x)
      BY <1>0, <2>1, SendOne
    <3> QED BY <2>2, <3>1
  <2>4. x.type \in Interactions /\ x.type # "complete" /\ x.type # "start"
    BY <2>1 DEF Interactions
  <2>5. Completes(Append(toServer, x), digging) /\ Leaves(Append(toServer, x), digging, "none")
    BY <1>0, <2>1, <2>4, AppendInteraction
  <2>6. ASSUME InOrder, NEW i \in 1..Len(Append(toServer, x)) PROVE Append(toServer, x)[i].type # "prepare"
    <3>1. i \in 1..Len(toServer) \/ i = Len(toServer) + 1
      BY <1>0, <2>1, Appended
    <3> QED BY <1>0, <1>1, <2>1, <2>6, <3>1, Appended DEF IInv, Order
  <2>7. Append(toServer, x) \in Seq(Packets)
    BY <1>0, <2>1, Appended
  <2> QED BY <2>3, <2>5, <2>6, <2>7
<1>2. CASE phase # "digging"
  <2>1. toServer \o sent = toServer
    BY <1>0, <1>2
  <2> QED BY <1>0, <1>2, <2>1 DEF Dug, IInv, Order
<1> QED BY <1>1, <1>2

LEMMA GiveUpInv ==
  ASSUME IInv, phase # "idle",
         NEW t \in {Failed(task), [Failed(task) EXCEPT !.targets = <<>>]},
         NEW sent, sent = IF phase = "digging" THEN <<Packet("stop", task.target, task.node)>> ELSE <<>>,
         Continue(t, sent),
         abandoned' = (abandoned \/ phase = "preparing"),
         UNCHANGED <<serverVars, helper, next, job, disturbances, foreign>>
  PROVE  IInv'
<1>1. t \in Tasks /\ t.mined + t.failed + Len(t.targets) <= MaxTargets
  BY TaskGoesOn DEF IInv
<1>2. /\ toServer \o sent \in Seq(Packets)
      /\ Completes(toServer \o sent, digging) /\ Leaves(toServer \o sent, digging, "none")
      /\ InOrder /\ phase # "preparing"
           => \A i \in 1..Len(toServer \o sent) : (toServer \o sent)[i].type # "prepare"
  BY ClosedBy
<1>3. /\ job' \in Nat /\ job' = answered + 1 /\ disturbances' \in Nat /\ abandoned' \in BOOLEAN
      /\ next' \in 1..(Len(replies) + 1) /\ UNCHANGED <<helper, node, digging, replies>>
  BY DEF IInv, Typed, TypeOK, serverVars
<1>4. InOrder' => InOrder /\ phase # "preparing"
  BY DEF InOrder
<1>5. InOrder' => foreign' = {} /\ \A i \in Waiting' : replies'[i].type = "verify"
  BY <1>3, <1>4 DEF IInv, Order, Waiting, serverVars
<1> QED BY <1>1, <1>2, <1>3, <1>4, <1>5, ContinueInv

LEMMA EndsInv == IInv /\ (Timeout \/ OutOfRange \/ Stop) => IInv'
<1> SUFFICES ASSUME IInv, Timeout \/ OutOfRange \/ Stop PROVE IInv'
  OBVIOUS
<1>1. CASE Timeout
  <2>1. phase # "idle" /\ phase # "digging"
    BY <1>1 DEF Timeout
  <2> QED BY <1>1, <2>1, GiveUpInv DEF Timeout, FailTarget
<1>2. CASE OutOfRange
  <2>1. phase = "digging" /\ phase # "preparing" /\ abandoned' = abandoned /\ abandoned \in BOOLEAN
    BY <1>2 DEF OutOfRange, IInv, Typed
  <2> QED BY <1>2, <2>1, GiveUpInv DEF OutOfRange, FailTarget
<1>3. CASE Stop
  BY <1>3, GiveUpInv DEF Stop
<1> QED BY <1>1, <1>2, <1>3

LEMMA CompleteInv == IInv /\ Complete => IInv'
<1> SUFFICES ASSUME IInv, Complete PROVE IInv'
  OBVIOUS
<1> DEFINE c == Packet("complete", task.target, task.node)
           v == Packet("verify", task.target, task.node)
<1>0. /\ Typed /\ toServer \in Seq(Packets) /\ task \in Tasks /\ attempt \in Nat
      /\ phase = "digging" /\ task.target \in Positions
      /\ Completes(toServer, digging) /\ Leaves(toServer, digging, task.target)
  BY DEF IInv, Typed, Digs, Dug, Complete
<1>1. /\ phase' = "verifying" /\ toServer' = toServer \o <<c, v>>
      /\ UNCHANGED <<task, job, attempt, abandoned, answered, node, digging, changes, replies,
                     helper, next, disturbances, foreign>>
  BY DEF Complete, serverVars
<1>2. /\ c \in Packets /\ c.type = "complete" /\ c.at = task.target
      /\ v \in Packets /\ v.type = "verify" /\ v.of = attempt
  BY <1>0 DEF Packets, Packet, Tasks
<1> HIDE DEF c, v
<1> DEFINE q == Append(toServer, c)
<1>3. toServer' = Append(q, v)
  BY <1>0, <1>1, <1>2, SendTwo
<1>4. q \in Seq(Packets) /\ toServer' \in Seq(Packets)
  BY <1>0, <1>2, <1>3, Appended
<1>5. Completes(q, digging) /\ Leaves(q, digging, "none")
  <2>1. c.type \in Interactions /\ c.type # "start" /\ task.target # "none"
    BY <1>0, <1>2, MiningAssumption DEF Interactions
  <2> QED BY <1>0, <1>2, <2>1, AppendInteraction
<1>6. Digs'
  <2>1. v.type \notin Interactions
    BY <1>2 DEF Interactions
  <2> HIDE DEF q
  <2>2. Completes(Append(q, v), digging) /\ Leaves(Append(q, v), digging, "none")
    BY <1>2, <1>4, <1>5, <2>1, AppendQuery
  <2> QED BY <1>1, <1>3, <2>2 DEF Digs, Dug
<1>7. Typed'
  <2>1. TypeOK'
    BY <1>0, <1>1 DEF Typed, TypeOK
  <2> QED BY <1>0, <1>1, <1>4, <2>1 DEF Typed
<1>8. Readable'
  BY <1>0, <1>1 DEF IInv, Readable
<1>9. Order'
  <2> SUFFICES ASSUME InOrder PROVE Order'
    BY <1>1 DEF Order, InOrder
  <2>1. foreign = {} /\ Waiting = {} /\ Asked = {}
    BY <1>0 DEF IInv, Order
  <2>2. ASSUME NEW i \in 1..Len(toServer')
        PROVE  toServer'[i].type # "prepare" /\ (i \in Asked' => toServer'[i].of = attempt)
    <3>1. /\ Len(toServer) \in Nat /\ Len(q) = Len(toServer) + 1 /\ Len(toServer') = Len(q) + 1
          /\ \A k \in 1..Len(toServer) : q[k] = toServer[k]
          /\ q[Len(toServer) + 1] = c
          /\ \A k \in 1..Len(q) : toServer'[k] = q[k]
          /\ toServer'[Len(q) + 1] = v
      <4>1. /\ Len(toServer) \in Nat /\ Len(q) = Len(toServer) + 1
            /\ \A k \in 1..Len(toServer) : q[k] = toServer[k]
            /\ q[Len(toServer) + 1] = c
        BY <1>0, <1>2, Appended
      <4> HIDE DEF q
      <4>2. /\ Len(toServer') = Len(q) + 1
            /\ \A k \in 1..Len(q) : toServer'[k] = q[k]
            /\ toServer'[Len(q) + 1] = v
        BY <1>2, <1>3, <1>4, Appended
      <4> QED BY <4>1, <4>2
    <3> HIDE DEF q
    <3>2. CASE i \in 1..Len(toServer)
      <4>1. toServer'[i] = toServer[i] /\ toServer[i].type \notin {"prepare", "verify"}
        BY <2>1, <3>1, <3>2 DEF Asked
      <4> QED BY <4>1 DEF Asked
    <3>3. CASE i = Len(toServer) + 1
      <4>1. toServer'[i] = c
        BY <3>1, <3>3
      <4> QED BY <1>2, <4>1 DEF Asked
    <3>4. CASE i = Len(toServer) + 2
      <4>1. toServer'[i] = v
        BY <3>1, <3>4
      <4> QED BY <1>2, <4>1
    <3> QED BY <3>1, <3>2, <3>3, <3>4
  <2>3. \A i \in Asked' : i \in 1..Len(toServer')
    BY DEF Asked
  <2>4. Waiting' = {}
    BY <1>1, <2>1 DEF Waiting
  <2> QED BY <1>1, <2>1, <2>2, <2>3, <2>4 DEF Order
<1> QED BY <1>6, <1>7, <1>8, <1>9 DEF IInv

-----------------------------------------------------------------------------
(* What the bot hears *)

\* In order, a reply to a prepare is the last thing asked for.
LEMMA HeardOwn ==
  ASSUME IInv, InOrder, NEW i \in 1..Len(replies), i = next, replies[i].type # "verify"
  PROVE  /\ phase = "preparing" /\ replies[i].of = attempt /\ i = Len(replies) /\ Asked = {}
         /\ task.target = "front" => replies[i].at = InFront
<1>1. i \in Waiting
  BY DEF Waiting, IInv, Typed, TypeOK
<1> QED BY <1>1 DEF IInv, Order

\* The place in the replies moves on.
LEMMA Listens ==
  ASSUME IInv, NEW i \in 1..Len(replies), UNCHANGED <<replies, abandoned>>,
         next' = (IF i >= next THEN i + 1 ELSE next),
         disturbances' = disturbances + (IF i = next THEN 0 ELSE 1)
  PROVE  /\ next' \in 1..(Len(replies) + 1) /\ disturbances' \in Nat
         /\ InOrder' => InOrder /\ i = next /\ next' = next + 1 /\ Waiting' \subseteq Waiting
<1>1. next \in 1..(Len(replies) + 1) /\ Len(replies) \in Nat /\ disturbances \in Nat
  BY DEF IInv, Typed, TypeOK
<1>2. next' \in 1..(Len(replies) + 1) /\ disturbances' \in Nat
  BY <1>1
<1>3. ASSUME InOrder' PROVE InOrder /\ i = next /\ next' = next + 1
  BY <1>1, <1>3 DEF InOrder
<1>4. ASSUME next' = next + 1 PROVE Waiting' \subseteq Waiting
  BY <1>1, <1>4 DEF Waiting
<1> QED BY <1>2, <1>3, <1>4

\* Nothing is made of the reply.
LEMMA IgnoreInv ==
  ASSUME IInv, NEW i \in 1..Len(replies),
         UNCHANGED <<phase, task, toServer, attempt, answered, foreign>>,
         next' = (IF i >= next THEN i + 1 ELSE next),
         disturbances' = disturbances + (IF i = next THEN 0 ELSE 1),
         UNCHANGED <<serverVars, helper, job, abandoned>>
  PROVE  IInv'
<1>1. /\ next' \in 1..(Len(replies) + 1) /\ disturbances' \in Nat
      /\ InOrder' => InOrder /\ i = next /\ next' = next + 1 /\ Waiting' \subseteq Waiting
  BY Listens DEF serverVars
<1>2. Typed'
  <2>1. TypeOK'
    BY <1>1 DEF IInv, Typed, TypeOK, serverVars
  <2> QED BY <1>1, <2>1 DEF IInv, Typed, serverVars
<1>3. Digs' /\ Readable'
  BY DEF IInv, Digs, Dug, Readable, serverVars
<1>4. Order'
  BY <1>1 DEF IInv, Order, Asked, serverVars
<1> QED BY <1>2, <1>3, <1>4 DEF IInv

\* The task goes on with its next target after a reply.
LEMMA HearsAndGoesOn ==
  ASSUME IInv, NEW i \in 1..Len(replies), phase \notin {"idle", "digging"},
         NEW t \in {Failed(task), [task EXCEPT !.mined = @ + 1]}, Continue(t, <<>>),
         replies[i].type = "verify" => phase = "verifying",
         InOrder' => foreign' = {},
         next' = (IF i >= next THEN i + 1 ELSE next),
         disturbances' = disturbances + (IF i = next THEN 0 ELSE 1),
         UNCHANGED <<serverVars, helper, job, abandoned>>
  PROVE  IInv'
<1>1. /\ next' \in 1..(Len(replies) + 1) /\ disturbances' \in Nat
      /\ InOrder' => InOrder /\ i = next /\ next' = next + 1 /\ Waiting' \subseteq Waiting
  BY Listens DEF serverVars
<1>2. t \in Tasks /\ t.mined + t.failed + Len(t.targets) <= MaxTargets
  BY TaskGoesOn DEF IInv
<1>3. toServer \o <<>> = toServer /\ toServer \in Seq(Packets)
  BY QueueItself DEF IInv, Typed
<1>4. Completes(toServer, digging) /\ Leaves(toServer, digging, "none")
  BY DEF IInv, Digs, Dug
<1>5. /\ job' \in Nat /\ job' = answered + 1 /\ abandoned' \in BOOLEAN
      /\ UNCHANGED <<helper, node, digging, replies>>
  BY DEF IInv, Typed, TypeOK, serverVars
<1>6. ASSUME InOrder'
      PROVE  /\ \A k \in 1..Len(toServer) : toServer[k].type # "prepare"
             /\ \A k \in Waiting' : replies'[k].type = "verify"
  <2>1. InOrder /\ i = next /\ next' = next + 1 /\ Waiting' \subseteq Waiting
    BY <1>1, <1>6
  <2>2. CASE replies[i].type = "verify"
    <3>1. phase # "preparing"
      BY <2>2
    <3> QED BY <1>5, <2>1, <3>1 DEF IInv, Order
  <2>3. CASE replies[i].type # "verify"
    <3>1. i = Len(replies) /\ Asked = {}
      BY <2>1, <2>3, HeardOwn
    <3>2. Waiting' = {}
      <4>1. Len(replies) \in Nat /\ next' = Len(replies) + 1 /\ replies' = replies
        BY <1>5, <2>1, <3>1 DEF IInv, Typed
      <4> QED BY <4>1 DEF Waiting
    <3> QED BY <3>1, <3>2 DEF Asked
  <2> QED BY <2>2, <2>3
<1> QED BY <1>1, <1>2, <1>3, <1>4, <1>5, <1>6, ContinueInv

\* The dig is started.
LEMMA PreparedInv ==
  ASSUME IInv, NEW i \in 1..Len(replies), phase = "preparing", replies[i].type = "prepare",
         phase' = "digging",
         task' = [task EXCEPT !.target = replies[i].at, !.node = replies[i].node],
         toServer' = Append(toServer, Packet("start", replies[i].at, replies[i].node)),
         foreign' = foreign \union (IF replies[i].of = attempt THEN {} ELSE {"prepare"})
           \union (IF task.target = "front" /\ replies[i].at # InFront THEN {"elsewhere"} ELSE {}),
         UNCHANGED <<attempt, answered>>,
         next' = (IF i >= next THEN i + 1 ELSE next),
         disturbances' = disturbances + (IF i = next THEN 0 ELSE 1),
         UNCHANGED <<serverVars, helper, job, abandoned>>
  PROVE  IInv'
<1> DEFINE r == replies[i]
           x == Packet("start", r.at, r.node)
<1>0. /\ Typed /\ toServer \in Seq(Packets) /\ task \in Tasks /\ attempt \in Nat
      /\ r \in HelperReplies
      /\ Completes(toServer, digging) /\ Leaves(toServer, digging, "none")
  BY DEF IInv, Typed, Digs, Dug
<1>1. /\ next' \in 1..(Len(replies) + 1) /\ disturbances' \in Nat
      /\ InOrder' => InOrder /\ i = next /\ next' = next + 1 /\ Waiting' \subseteq Waiting
  BY Listens DEF serverVars
<1>2. x \in Packets /\ x.type = "start" /\ x.at = r.at /\ r.at \in Positions /\ r.node \in Labels
  BY <1>0 DEF Packets, Packet, HelperReplies, Targets
<1>3. /\ task' \in Tasks /\ task'.target = r.at /\ task'.node = r.node
      /\ task'.mined = task.mined /\ task'.failed = task.failed
      /\ task'.requested = task.requested /\ task'.targets = task.targets
  BY <1>0, <1>2 DEF Tasks, Targets
<1>4. toServer' = Append(toServer, x) /\ toServer' \in Seq(Packets)
  BY <1>0, <1>2, Appended
<1> HIDE DEF x
<1>5. Digs'
  <2>1. x.type \in Interactions /\ x.type # "complete"
    BY <1>2 DEF Interactions
  <2>2. Completes(Append(toServer, x), digging) /\ Leaves(Append(toServer, x), digging, x.at)
    BY <1>0, <1>2, <2>1, AppendInteraction
  <2> QED BY <1>2, <1>3, <1>4, <2>2 DEF Digs, Dug, serverVars
<1>6. Typed'
  <2>1. TypeOK'
    BY <1>0, <1>1, <1>2, <1>3 DEF Typed, TypeOK, serverVars, Labels
  <2> QED BY <1>0, <1>1, <1>2, <1>3, <1>4, <2>1 DEF Typed, serverVars
<1>7. Readable'
  BY DEF IInv, Readable, serverVars
<1>8. Order'
  <2> SUFFICES ASSUME InOrder' PROVE Order'
    BY DEF Order
  <2>1. InOrder /\ i = next /\ next' = next + 1
    BY <1>1
  <2>2. /\ r.of = attempt /\ i = Len(replies) /\ Asked = {}
        /\ task.target = "front" => r.at = InFront
    BY <2>1, HeardOwn
  <2>3. foreign' = {}
    BY <2>1, <2>2 DEF IInv, Order
  <2>4. Waiting' = {}
    <3>1. Len(replies) \in Nat /\ next' = Len(replies) + 1 /\ replies' = replies
      BY <1>0, <2>1, <2>2 DEF Typed, serverVars
    <3> QED BY <3>1 DEF Waiting
  <2>5. ASSUME NEW k \in 1..Len(toServer') PROVE toServer'[k].type \notin {"prepare", "verify"}
    <3>1. k \in 1..Len(toServer) \/ k = Len(toServer) + 1
      BY <1>0, <1>2, <1>4, Appended
    <3> QED BY <1>0, <1>2, <1>4, <2>2, <3>1, Appended DEF Asked
  <2>6. Asked' = {}
    BY <2>5 DEF Asked
  <2>7. phase' = "digging"
    OBVIOUS
  <2> QED BY <2>3, <2>4, <2>5, <2>6, <2>7 DEF Order
<1> QED BY <1>5, <1>6, <1>7, <1>8 DEF IInv

LEMMA HearInv == IInv /\ Hear => IInv'
<1> SUFFICES ASSUME IInv, NEW i \in 1..Len(replies),
                    next' = (IF i >= next THEN i + 1 ELSE next),
                    disturbances' = disturbances + (IF i = next THEN 0 ELSE 1),
                    CASE replies[i].type = "prepare" -> HandlePrepare(replies[i])
                      [] replies[i].type = "verify" -> HandleVerify(replies[i])
                      [] OTHER -> HandleUnreadable,
                    UNCHANGED <<serverVars, helper, job, abandoned>>
             PROVE  IInv'
  BY DEF Hear
<1>0. Typed /\ replies[i] \in HelperReplies
  BY DEF IInv, Typed
<1>1. InOrder' => InOrder /\ i = next
  BY Listens DEF serverVars
<1>2. InOrder => foreign = {}
  BY DEF IInv, Order
<1>3. CASE UNCHANGED <<phase, task, toServer, attempt, answered, foreign>>
  BY <1>3, IgnoreInv
<1>4. CASE replies[i].type = "prepare" /\ ~UNCHANGED <<phase, task, toServer, attempt, answered, foreign>>
  <2>1. HandlePrepare(replies[i]) /\ phase = "preparing"
    BY <1>4 DEF HandlePrepare
  <2>2. CASE FailTarget(<<>>) /\ UNCHANGED foreign
    BY <1>1, <1>2, <1>4, <2>1, <2>2, HearsAndGoesOn DEF FailTarget
  <2>3. CASE ~(FailTarget(<<>>) /\ UNCHANGED foreign)
    BY <1>4, <2>1, <2>3, PreparedInv DEF HandlePrepare
  <2> QED BY <2>2, <2>3
<1>5. CASE replies[i].type = "verify" /\ ~UNCHANGED <<phase, task, toServer, attempt, answered, foreign>>
  <2>1. HandleVerify(replies[i]) /\ phase = "verifying"
    BY <1>5 DEF HandleVerify
  <2>2. CASE FailTarget(<<>>) /\ UNCHANGED foreign
    BY <1>1, <1>2, <1>5, <2>1, <2>2, HearsAndGoesOn DEF FailTarget
  <2>3. CASE ~(FailTarget(<<>>) /\ UNCHANGED foreign)
    <3>1. /\ Continue([task EXCEPT !.mined = @ + 1], <<>>)
          /\ foreign' = IF replies[i].of = attempt THEN foreign ELSE foreign \union {"verify"}
      BY <2>1, <2>3 DEF HandleVerify
    <3>2. ASSUME InOrder' PROVE foreign' = {}
      <4>1. i \in Waiting /\ InOrder
        BY <1>0, <1>1, <3>2 DEF Waiting, Typed
      <4>2. replies[i].of = attempt
        BY <2>1, <4>1 DEF IInv, Order
      <4> QED BY <1>2, <3>1, <4>1, <4>2
    <3> QED BY <1>5, <2>1, <3>1, <3>2, HearsAndGoesOn
  <2> QED BY <2>2, <2>3
<1>6. CASE replies[i].type \notin {"prepare", "verify"} /\ ~UNCHANGED <<phase, task, toServer, attempt, answered, foreign>>
  <2>1. HandleUnreadable /\ phase # "idle"
    BY <1>6 DEF HandleUnreadable
  <2>2. FailTarget(<<>>) /\ UNCHANGED foreign
    BY <1>6, <2>1 DEF HandleUnreadable
  <2>3. replies[i].type = "unreadable"
    BY <1>0, <1>6 DEF HelperReplies
  <2>4. phase # "digging"
    BY <2>3 DEF IInv, Readable
  <2> QED BY <1>1, <1>2, <1>6, <2>1, <2>2, <2>4, HearsAndGoesOn DEF FailTarget
<1> QED BY <1>3, <1>4, <1>5, <1>6

-----------------------------------------------------------------------------
(* The server's steps *)

\* What the server takes from the head of the queue is answered at the end of the
\* replies.
LEMMA TakenOrder ==
  ASSUME IInv, toServer # <<>>, toServer' = Tail(toServer),
         UNCHANGED <<phase, task, attempt, next, disturbances, abandoned, foreign>>,
         \/ replies' = replies /\ Head(toServer).type \notin {"prepare", "verify"}
         \/ \E a \in HelperReplies :
              /\ replies' = Append(replies, a)
              /\ Head(toServer).type \in {"prepare", "verify"} /\ a.of = Head(toServer).of
              /\ Head(toServer).type = "prepare" /\ Head(toServer).at = "front" => a.at = InFront
              /\ Head(toServer).type = "prepare" \/ a.type = "verify"
  PROVE  Order'
<1> SUFFICES ASSUME InOrder PROVE Order'
  BY DEF Order, InOrder
<1> DEFINE h == Head(toServer)
           answering == replies' # replies
<1>0. Typed /\ toServer \in Seq(Packets) /\ replies \in Seq(HelperReplies)
  BY DEF IInv, Typed
<1>1. /\ Len(toServer) \in Nat \ {0} /\ Len(toServer') = Len(toServer) - 1 /\ h = toServer[1]
      /\ \A i \in 1..Len(toServer') : toServer'[i] = toServer[i + 1]
  BY <1>0, Popped
<1>2. ASSUME NEW i \in 1..Len(toServer') PROVE i + 1 \in 1..Len(toServer) /\ toServer'[i] = toServer[i + 1]
  BY <1>1
<1>3. 1 \in 1..Len(toServer) /\ (h.type \in {"prepare", "verify"} => 1 \in Asked)
  BY <1>1 DEF Asked
<1>4. ASSUME NEW i \in Asked' PROVE i + 1 \in Asked /\ i \in Nat /\ i >= 1 /\ toServer'[i] = toServer[i + 1]
  <2>1. i \in 1..Len(toServer')
    BY DEF Asked
  <2>2. i \in Nat /\ i >= 1
    BY <1>1, <2>1
  <2> QED BY <1>2, <1>4, <2>1, <2>2 DEF Asked
<1>5. foreign' = {}
  BY DEF IInv, Order
<1>6. ASSUME NEW i \in 1..Len(toServer'), toServer'[i].type = "prepare"
      PROVE  /\ phase = "preparing"
             /\ toServer'[i].at = task.target /\ toServer'[i].of = attempt
             /\ \A k \in Asked' : k <= i
  <2>1. i + 1 \in 1..Len(toServer) /\ toServer[i + 1].type = "prepare" /\ toServer'[i] = toServer[i + 1]
    BY <1>2, <1>6
  <2>2. \A k \in Asked : k <= i + 1
    BY <2>1 DEF IInv, Order
  <2>3. ASSUME NEW k \in Asked' PROVE k <= i
    <3>1. k + 1 <= i + 1 /\ k \in Nat
      BY <1>4, <2>2
    <3> QED BY <3>1
  <2> QED BY <2>1, <2>3 DEF IInv, Order
<1>7. CASE replies' = replies /\ h.type \notin {"prepare", "verify"}
  <2>1. Waiting' = Waiting
    BY <1>7 DEF Waiting
  <2>2. ASSUME Asked = {} PROVE Asked' = {}
    BY <1>4, <2>2
  <2> QED BY <1>4, <1>5, <1>6, <1>7, <2>1, <2>2 DEF IInv, Order
<1>8. CASE \E a \in HelperReplies :
             /\ replies' = Append(replies, a)
             /\ a.of = h.of
             /\ h.type = "prepare" /\ h.at = "front" => a.at = InFront
             /\ h.type = "prepare" \/ a.type = "verify"
             /\ h.type \in {"prepare", "verify"}
  <2>1. PICK a \in HelperReplies :
             /\ replies' = Append(replies, a)
             /\ a.of = h.of
             /\ h.type = "prepare" /\ h.at = "front" => a.at = InFront
             /\ h.type = "prepare" \/ a.type = "verify"
             /\ h.type \in {"prepare", "verify"}
    BY <1>8
  <2>2. /\ Len(replies) \in Nat /\ Len(replies') = Len(replies) + 1
        /\ \A i \in 1..Len(replies) : replies'[i] = replies[i]
        /\ replies'[Len(replies) + 1] = a
    BY <1>0, <2>1, Appended
  <2>3. Asked # {}
    BY <1>3, <2>1
  <2>4. ASSUME NEW i \in Waiting' PROVE (i \in Waiting /\ replies'[i] = replies[i]) \/ (i = Len(replies) + 1 /\ replies'[i] = a)
    <3>1. next \in 1..(Len(replies) + 1)
      BY <1>0 DEF Typed, TypeOK
    <3> QED BY <2>2, <3>1 DEF Waiting
  <2>5. ASSUME h.type = "prepare"
        PROVE  /\ phase = "preparing" /\ h.at = task.target /\ h.of = attempt
               /\ Asked' = {}
    <3>1. /\ phase = "preparing" /\ h.at = task.target /\ h.of = attempt
          /\ \A k \in Asked : k <= 1
      BY <1>1, <1>3, <2>5 DEF IInv, Order
    <3>2. ASSUME NEW k \in Asked' PROVE FALSE
      BY <1>4, <3>1
    <3> QED BY <3>1, <3>2
  <2>6. ASSUME NEW i \in Waiting', replies'[i].type # "verify"
        PROVE  /\ phase = "preparing"
               /\ replies'[i].of = attempt
               /\ task.target = "front" => replies'[i].at = InFront
               /\ i = Len(replies') /\ Asked' = {}
    <3>1. CASE i \in Waiting /\ replies'[i] = replies[i]
      BY <2>3, <2>6, <3>1 DEF IInv, Order
    <3>2. CASE i = Len(replies) + 1 /\ replies'[i] = a
      BY <2>1, <2>2, <2>5, <2>6, <3>2
    <3> QED BY <2>4, <3>1, <3>2
  <2>7. phase # "digging"
    BY <2>3 DEF IInv, Order
  <2>8. ASSUME phase = "verifying"
        PROVE  /\ \A i \in Asked' : toServer'[i].of = attempt
               /\ \A i \in Waiting' : replies'[i].of = attempt
    <3>1. h.of = attempt
      BY <1>1, <1>3, <2>1, <2>8 DEF IInv, Order
    <3>2. \A i \in Asked' : toServer'[i].of = attempt
      BY <1>4, <2>8 DEF IInv, Order
    <3>3. \A i \in Waiting' : replies'[i].of = attempt
      BY <2>1, <2>4, <2>8, <3>1 DEF IInv, Order
    <3> QED BY <3>2, <3>3
  <2> QED BY <1>5, <1>6, <2>6, <2>7, <2>8 DEF Order
<1> QED BY <1>7, <1>8

\* What the engine does with the head of the queue.
LEMMA TakenDigs ==
  ASSUME IInv, toServer # <<>>, toServer' = Tail(toServer), UNCHANGED <<phase, task>>,
         digging' = IF Head(toServer).type \notin Interactions THEN digging
                    ELSE IF Head(toServer).type = "start" THEN Head(toServer).at ELSE "none"
  PROVE  Digs'
<1>1. /\ toServer \in Seq(Packets) /\ Completes(toServer, digging) /\ Leaves(toServer, digging, Dug)
  BY DEF IInv, Typed, Digs
<1>2. Completes(toServer', digging') /\ Leaves(toServer', digging', Dug)
  BY <1>1, PopInteraction
<1> QED BY <1>2 DEF Digs, Dug

LEMMA TakenTyped ==
  ASSUME Typed, toServer # <<>>, toServer' = Tail(toServer), UNCHANGED clientVars,
         UNCHANGED <<next, disturbances>>,
         digging' \in Positions \union {"none"},
         node' \in [Positions -> Names \union {"air"}],
         replies' = replies \/ \E a \in HelperReplies : replies' = Append(replies, a)
  PROVE  Typed'
<1>1. toServer' \in Seq(Packets)
  BY Popped DEF Typed
<1>2. replies' \in Seq(HelperReplies) /\ next' \in 1..(Len(replies') + 1)
  <2>1. CASE replies' = replies
    BY <2>1 DEF Typed, TypeOK
  <2>2. CASE \E a \in HelperReplies : replies' = Append(replies, a)
    <3>1. PICK a \in HelperReplies : replies' = Append(replies, a)
      BY <2>2
    <3>2. replies' \in Seq(HelperReplies) /\ Len(replies') = Len(replies) + 1 /\ Len(replies) \in Nat
      BY <3>1, Appended DEF Typed
    <3> QED BY <3>2 DEF Typed, TypeOK
  <2> QED BY <2>1, <2>2
<1>3. TypeOK'
  BY <1>2 DEF Typed, TypeOK, clientVars
<1> QED BY <1>1, <1>2, <1>3 DEF Typed, clientVars

LEMMA HeadIsPacket ==
  ASSUME Typed, toServer # <<>>
  PROVE  /\ Head(toServer) \in Packets /\ Head(toServer).of \in Nat
         /\ Head(toServer).node \in Labels /\ Head(toServer).at \in Positions \union {"front"}
         /\ Head(toServer).type # "prepare" => Head(toServer).at \in Positions
<1>1. Head(toServer) \in Packets
  BY Popped DEF Typed
<1> QED BY <1>1 DEF Packets, Targets

LEMMA AnswerInv ==
  ASSUME IInv, NEW type \in {"prepare", "verify"}, Take(type), UNCHANGED <<node, digging>>,
         NEW a \in HelperReplies, replies' = Append(replies, a),
         a.of = Head(toServer).of,
         type = "prepare" /\ Head(toServer).at = "front" => a.at = InFront,
         type = "prepare" \/ a.type = "verify",
         IF helper = "json" THEN a.type # "unreadable" ELSE a.type # "prepare"
  PROVE  IInv'
<1>1. /\ toServer # <<>> /\ Head(toServer).type = type /\ toServer' = Tail(toServer)
      /\ UNCHANGED <<clientVars, helper, next, disturbances, foreign>>
  BY DEF Take
<1>2. Typed'
  BY <1>1, TakenTyped DEF IInv, Typed, TypeOK
<1>3. Digs'
  <2>1. Head(toServer).type \notin Interactions
    BY <1>1 DEF Interactions
  <2> QED BY <1>1, <2>1, TakenDigs DEF clientVars
<1>4. Order'
  BY <1>1, TakenOrder DEF clientVars
<1>5. Readable'
  <2>1. /\ Len(replies) \in Nat /\ Len(replies') = Len(replies) + 1
        /\ \A i \in 1..Len(replies) : replies'[i] = replies[i]
        /\ replies'[Len(replies) + 1] = a
    BY Appended DEF IInv, Typed
  <2>2. \A i \in 1..Len(replies') : i \in 1..Len(replies) \/ i = Len(replies) + 1
    BY <2>1
  <2> QED BY <1>1, <2>1, <2>2 DEF IInv, Readable, clientVars
<1> QED BY <1>2, <1>3, <1>4, <1>5 DEF IInv

LEMMA ServerPrepareInv == IInv /\ ServerPrepare => IInv'
<1> SUFFICES ASSUME IInv, ServerPrepare PROVE IInv'
  OBVIOUS
<1> DEFINE c == Head(toServer)
           at == IF c.at = "front" THEN InFront ELSE c.at
<1>1. /\ Take("prepare") /\ UNCHANGED <<node, digging, changes>>
      /\ \E r \in (IF helper # "json" THEN {Answer("unreadable", FALSE, at, "any", c.of)}
                   ELSE {Answer("prepare", FALSE, at, "any", c.of)}
                          \union (IF node[at] = "air" THEN {}
                                  ELSE {Answer("prepare", TRUE, at, node[at], c.of)})) :
           replies' = Append(replies, r)
  BY DEF ServerPrepare
<1>2. toServer # <<>>
  BY <1>1 DEF Take
<1>3. c.of \in Nat /\ at \in Positions
  BY <1>2, HeadIsPacket, MiningAssumption DEF IInv
<1>4. node[at] \in Names \union {"air"}
  BY <1>3 DEF IInv, Typed, TypeOK
<1> HIDE DEF c, at
<1>5. PICK a \in HelperReplies :
        /\ replies' = Append(replies, a) /\ a.of = c.of /\ a.at = at
        /\ IF helper = "json" THEN a.type # "unreadable" ELSE a.type # "prepare"
  <2>1. CASE helper # "json"
    <3> DEFINE a == Answer("unreadable", FALSE, at, "any", c.of)
    <3>1. a \in HelperReplies /\ a.of = c.of /\ a.at = at /\ a.type = "unreadable"
      BY <1>3 DEF Answer, HelperReplies, Labels
    <3>2. replies' = Append(replies, a)
      BY <1>1, <2>1
    <3> QED BY <2>1, <3>1, <3>2
  <2>2. CASE helper = "json"
    <3>1. \E a \in {Answer("prepare", FALSE, at, "any", c.of)}
                     \union (IF node[at] = "air" THEN {}
                             ELSE {Answer("prepare", TRUE, at, node[at], c.of)}) :
            replies' = Append(replies, a)
      BY <1>1, <2>2
    <3>2. PICK a \in {Answer("prepare", FALSE, at, "any", c.of)}
                     \union (IF node[at] = "air" THEN {}
                             ELSE {Answer("prepare", TRUE, at, node[at], c.of)}) :
            replies' = Append(replies, a)
      BY <3>1
    <3>3. \/ a = Answer("prepare", FALSE, at, "any", c.of)
          \/ node[at] \in Names /\ a = Answer("prepare", TRUE, at, node[at], c.of)
      BY <1>4, <3>2
    <3>4. a \in HelperReplies /\ a.of = c.of /\ a.at = at /\ a.type = "prepare"
      <4> DEFINE no == [type |-> "prepare", ok |-> FALSE, at |-> at, node |-> "any", of |-> c.of]
                 yes == [type |-> "prepare", ok |-> TRUE, at |-> at, node |-> node[at], of |-> c.of]
      <4>1. no \in HelperReplies /\ no.of = c.of /\ no.at = at /\ no.type = "prepare"
        BY <1>3 DEF HelperReplies, Labels
      <4>2. ASSUME node[at] \in Names
            PROVE  yes \in HelperReplies /\ yes.of = c.of /\ yes.at = at /\ yes.type = "prepare"
        BY <1>3, <4>2 DEF HelperReplies, Labels
      <4>3. a = no \/ (node[at] \in Names /\ a = yes)
        BY <3>3 DEF Answer
      <4> HIDE DEF no, yes
      <4> QED BY <4>1, <4>2, <4>3
    <3> QED BY <2>2, <3>2, <3>4
  <2> QED BY <2>1, <2>2
<1>6. c.at = "front" => at = InFront
  BY DEF at
<1> QED BY <1>1, <1>5, <1>6, AnswerInv DEF c

LEMMA ServerVerifyInv == IInv /\ ServerVerify => IInv'
<1> SUFFICES ASSUME IInv, ServerVerify PROVE IInv'
  OBVIOUS
<1> DEFINE c == Head(toServer)
<1>1. /\ Take("verify") /\ UNCHANGED <<node, digging, changes>>
      /\ \E ok \in {FALSE, node[c.at] # c.node} :
           replies' = Append(replies, Answer("verify", ok, c.at, "any", c.of))
  BY DEF ServerVerify
<1>2. toServer # <<>> /\ c.type = "verify"
  BY <1>1 DEF Take
<1>3. c.of \in Nat /\ c.at \in Positions
  BY <1>2, HeadIsPacket DEF IInv
<1> HIDE DEF c
<1>4. PICK ok \in BOOLEAN : replies' = Append(replies, Answer("verify", ok, c.at, "any", c.of))
  BY <1>1
<1>5. /\ Answer("verify", ok, c.at, "any", c.of) \in HelperReplies
      /\ Answer("verify", ok, c.at, "any", c.of).of = c.of
      /\ Answer("verify", ok, c.at, "any", c.of).type = "verify"
  BY <1>3 DEF Answer, HelperReplies, Labels
<1> QED BY <1>1, <1>4, <1>5, AnswerInv DEF c

LEMMA EngineInv == IInv /\ (EngineStart \/ EngineComplete \/ EngineStop) => IInv'
<1> SUFFICES ASSUME IInv, EngineStart \/ EngineComplete \/ EngineStop PROVE IInv'
  OBVIOUS
<1>1. /\ toServer # <<>> /\ toServer' = Tail(toServer) /\ replies' = replies
      /\ UNCHANGED <<clientVars, helper, next, disturbances, foreign>>
      /\ Head(toServer).type \in Interactions
      /\ digging' = IF Head(toServer).type = "start" THEN Head(toServer).at ELSE "none"
  BY DEF EngineStart, EngineComplete, EngineStop, Take, Interactions
<1>2. digging' \in Positions \union {"none"}
  BY <1>1, HeadIsPacket DEF IInv, Interactions
<1>3. node' \in [Positions -> Names \union {"air"}]
  BY DEF IInv, Typed, TypeOK, EngineStart, EngineComplete, EngineStop
<1>4. Typed'
  BY <1>1, <1>2, <1>3, TakenTyped DEF IInv
<1>5. Digs'
  BY <1>1, TakenDigs DEF clientVars
<1>6. Order'
  BY <1>1, TakenOrder DEF clientVars, Interactions
<1>7. Readable'
  BY <1>1 DEF IInv, Readable, clientVars
<1> QED BY <1>4, <1>5, <1>6, <1>7 DEF IInv

LEMMA ChangeInv == IInv /\ (Change \/ UNCHANGED vars) => IInv'
<1> SUFFICES ASSUME IInv, Change \/ UNCHANGED vars PROVE IInv'
  OBVIOUS
<1>1. UNCHANGED <<phase, task, helper, digging, toServer, replies, next, job, attempt,
                  disturbances, abandoned, foreign, answered>>
  BY DEF Change, vars, clientVars
<1>2. node' \in [Positions -> Names \union {"air"}]
  BY DEF IInv, Typed, TypeOK, Change, vars
<1>3. Typed'
  <2>1. TypeOK'
    BY <1>1, <1>2 DEF IInv, Typed, TypeOK
  <2> QED BY <1>1, <2>1 DEF IInv, Typed
<1>4. Digs' /\ Order' /\ Readable'
  BY <1>1 DEF IInv, Digs, Dug, Order, InOrder, Waiting, Asked, Readable
<1> QED BY <1>3, <1>4 DEF IInv

-----------------------------------------------------------------------------
(* Results *)

LEMMA InitInv == Init => IInv
<1> SUFFICES ASSUME Init PROVE IInv
  OBVIOUS
<1>1. /\ phase = "idle" /\ task = NoTask /\ digging = "none"
      /\ toServer = <<>> /\ replies = <<>> /\ next = 1 /\ job = 0 /\ attempt = 0
      /\ disturbances = 0 /\ abandoned = FALSE /\ foreign = {} /\ answered = 0
      /\ node \in [Positions -> Names \union {"air"}]
  BY DEF Init
<1>2. Len(toServer) = 0 /\ Len(replies) = 0
      /\ toServer \in Seq(Packets) /\ replies \in Seq(HelperReplies)
  BY <1>1
<1>3. Waiting = {} /\ Asked = {}
  BY <1>1, <1>2 DEF Waiting, Asked
<1>4. TypeOK
  <2>1. /\ task.node \in Names \union {"any"} /\ task.target \in Positions \union {"front"}
        /\ task.mined = 0 /\ task.failed = 0 /\ Len(task.targets) = 0
    BY <1>1 DEF NoTask
  <2>2. 0 + 0 + 0 + 0 <= MaxTargets
    BY MiningAssumption
  <2> QED BY <1>1, <1>2, <2>1, <2>2 DEF TypeOK
<1>5. Typed
  BY <1>1, <1>2, <1>4, NoTaskIsTask DEF Typed
<1>6. Digs
  BY <1>1, <1>2 DEF Digs, Dug, Completes, Leaves, Quiet
<1>7. Order
  BY <1>1, <1>2, <1>3 DEF Order
<1>8. Readable
  BY <1>1, <1>2 DEF Readable
<1> QED BY <1>5, <1>6, <1>7, <1>8 DEF IInv

\* The queue and what the engine is digging, and the queries and their answers,
\* stay as they should, for any number of commands and targets. (mining.rs,
\* bot_prepare_mine, bot_verify_mine)
THEOREM MiningInvariance == Spec => []IInv
<1>1. IInv /\ [Next]_vars => IInv'
  BY StartInv, HearInv, EndsInv, CompleteInv, ServerPrepareInv, ServerVerifyInv, EngineInv,
     ChangeInv DEF Next
<1> QED BY <1>1, InitInv, PTL DEF Spec

\* The engine completes a dig only where it has the bot digging, and no way out of
\* the digging phase leaves it digging. (advance_native_mining, finish_native_mining,
\* cancel_native_mining)
THEOREM DigsAreClosed == Spec => []MiningInv
<1>1. IInv => MiningInv
  <2> SUFFICES ASSUME IInv PROVE MiningInv
    OBVIOUS
  <2>0. TypeOK /\ toServer \in Seq(Packets) /\ Completes(toServer, digging) /\ Leaves(toServer, digging, Dug)
    BY DEF IInv, Typed, Digs
  <2>1. CompletionMatchesStart
    <3> SUFFICES ASSUME toServer # <<>>, Head(toServer).type = "complete"
                 PROVE  digging = Head(toServer).at
      BY DEF CompletionMatchesStart
    <3>1. 1 \in 1..Len(toServer) /\ Head(toServer) = toServer[1]
      BY <2>0, Popped
    <3>2. ~\E i \in 1..Len(toServer) : i < 1
      OBVIOUS
    <3> QED BY <2>0, <3>1, <3>2 DEF Completes
  <2>2. DigIsClosed
    <3> SUFFICES ASSUME phase # "digging", toServer = <<>> PROVE digging = "none"
      BY DEF DigIsClosed
    <3>1. 1..Len(toServer) = {}
      OBVIOUS
    <3> QED BY <2>0, <3>1 DEF Leaves, Dug
  <2> QED BY <2>0, <2>1, <2>2 DEF MiningInv
<1> QED BY <1>1, MiningInvariance, PTL

\* In order, and with every prepare answered in time, a reply is taken for the
\* attempt it answers, although replies carry no nonce.
\* (handle_native_mine_prepare, handle_native_mine_verify)
THEOREM OwnRepliesAreTaken == Spec => []OwnRepliesUnlessAbandoned
<1>1. IInv => OwnRepliesUnlessAbandoned
  <2> SUFFICES ASSUME IInv, foreign # {}, disturbances = 0, ~abandoned PROVE FALSE
    BY DEF OwnRepliesUnlessAbandoned, IInv, Typed
  <2> QED BY DEF IInv, Order, InOrder
<1> QED BY <1>1, MiningInvariance, PTL
=============================================================================
