------------------------------- MODULE Session -------------------------------
(***************************************************************************)
(* One session of the program with a game server: the main loop of every   *)
(* subcommand that joins (src/app/diagnostics.rs, src/bot/modes.rs and     *)
(* src/bot/runtime.rs) from its first packet to its end, the network and   *)
(* the server's side of the handshake.                                     *)
(*                                                                         *)
(* An iteration of a loop waits for one packet, handles it, and then looks *)
(* at the clock, at client_ready and at what it sends every 200 ms.        *)
(*                                                                         *)
(* The client numbers its reliable packets but never repeats one, so the   *)
(* server, which works in order, gets nothing after the first that is      *)
(* lost.  The packet that ends a session is unreliable and may overtake    *)
(* them.  What the server sends it repeats until it is acknowledged; the   *)
(* client neither orders it nor drops repetitions.  ItemDef, NodeDef and   *)
(* map blocks are large and come in chunks (SplitTransport).               *)
(*                                                                         *)
(* Positions, the world and the objects in it are left out, and so are the *)
(* events that only change them (Movement, BlockData once it is assembled, *)
(* ActiveObject...) or are answered by one packet (MediaAnnounce).         *)
(***************************************************************************)
EXTENDS Integers, Sequences

CONSTANTS
  Modes,        \* the subcommands of this instance
  MaxRepeats,   \* bound: packets and chunks of the server that arrive again
  None          \* see SplitTransport

AllModes == {"handshake", "login", "connect", "chat", "observe", "trace",
             "move", "follow", "followcmd", "join"}

ASSUME SessionAssumption == Modes \subseteq AllModes /\ MaxRepeats \in Nat

VARIABLES
  mode,         \* the subcommand
  templates,    \* the command templates that are not empty (followcmd)
  client,       \* the local variables of the loop, see Clients
  elapsed,      \* which of the two times of the loop have passed
  \* the server, its mechanism for this player and the password
  server,       \* state of the client at the server
  bound,        \* number of the key the server computes with
  mechanism,    \* "first_srp", "srp" or "none"
  wrong,        \* the password is wrong
  \* the network
  toServer,     \* reliable packets on their way to the server
  stalled,      \* one was lost: the server takes no packet any more
  disco,        \* a DISCO is on its way
  inbox,        \* small packets of the server that may arrive
  repeats,      \* how many packets have come again
  wire, buffers, sent, assembled, forgotten,  \* SplitTransport
  \* history
  hellos,       \* number of Hello packets handled
  early,        \* commands the server got before the client was ready there
  heard         \* chat commands the server has executed

Small == {"peer", "hello", "challenge", "accept", "spawn", "say", "denied"}

Large == {"itemdef", "nodedef", "block"}

\* The map block comes back to the sequence number of ItemDef.
Split == INSTANCE SplitTransport WITH
           Messages <- Large,
           Seq16 <- [m \in Large |-> IF m = "nodedef" THEN 1 ELSE 0],
           Count <- [m \in Large |-> IF m = "nodedef" THEN 1 ELSE 2]

\* The empty place of a buffer is no message, and no buffer is none.
ASSUME NoneAssumption == None \notin Large \cup Split!Buffers

splitVars == <<wire, buffers, sent, assembled, forgotten>>
networkVars == <<toServer, stalled, disco, inbox, repeats>>
serverVars == <<server, bound, early, heard>>
inputVars == <<mode, templates, mechanism, wrong>>
vars == <<client, elapsed, hellos, inputVars, serverVars, networkVars, splitVars>>

Packet(type, key) == [type |-> type, key |-> key]

\* `key' numbers the SrpClient of the loop, 0 is none.  `defs' holds
\* got_itemdef and got_nodedef, `target' is follow_target_name, `did' what the
\* loop has achieved for its user.
Clients == [phase : {"running", "done", "denied", "timeout", "unsupported"},
            peer : BOOLEAN, key : Nat, ready : BOOLEAN, need : BOOLEAN,
            sentReady : BOOLEAN, defs : SUBSET {"itemdef", "nodedef"},
            spawned : BOOLEAN, target : BOOLEAN,
            did : SUBSET {"tp", "follow", "moved"}]

NewClient == [phase |-> "running", peer |-> FALSE, key |-> 0, ready |-> FALSE,
              need |-> FALSE, sentReady |-> FALSE, defs |-> {}, spawned |-> FALSE,
              target |-> FALSE, did |-> {}]

TypeOK ==
  /\ mode \in Modes /\ templates \subseteq {"tp", "follow"}
  /\ client \in Clients
  /\ elapsed \subseteq {"deadline", "seconds"}
  /\ server \in {"none", "peer", "hello", "challenged", "accepted", "defs", "active",
                 "denied", "gone"}
  /\ bound \in 0..1 /\ hellos \in 0..MaxRepeats + 1 /\ repeats \in 0..MaxRepeats
  /\ mechanism \in {"first_srp", "srp", "none"} /\ wrong \in BOOLEAN
  /\ \A i \in DOMAIN toServer :
       toServer[i].key \in IF toServer[i].type \in {"srp_a", "srp_m"} THEN 1..client.key ELSE {0}
  /\ stalled \in BOOLEAN /\ disco \in BOOLEAN
  /\ inbox \subseteq Small
  /\ Split!SplitTypeOK
  /\ early \in BOOLEAN /\ heard \subseteq {"chat", "tp", "follow", "command"}

\* open_connection sends the dummy packet that asks for a peer id.
Init ==
  /\ mode \in Modes
  /\ templates \in IF mode = "followcmd" THEN SUBSET {"tp", "follow"} ELSE {{}}
  /\ client = NewClient
  /\ elapsed = {}
  /\ server = "none" /\ bound = 0
  /\ mechanism \in {"first_srp", "srp", "none"}
  /\ wrong \in IF mechanism = "srp" THEN BOOLEAN ELSE {FALSE}
  /\ toServer = <<Packet("dummy", 0)>>
  /\ stalled = FALSE /\ disco = FALSE
  /\ inbox = {} /\ repeats = 0
  /\ Split!SplitInit
  /\ hellos = 0 /\ early = FALSE /\ heard = {}

-----------------------------------------------------------------------------
(* What a loop does with one event: the loop's variables after it and the  *)
(* packets it has sent.                                                    *)

Then(c, packets) == [client |-> c, packets |-> packets]

Stay(c) == Then(c, <<>>)

End(c, phase) == Stay([c EXCEPT !.phase = phase])

Bye == Packet("disco", 0)

Ready == Packet("ready", 0)

\* send_chat_message, for the four uses of it.
Chat(use) == Packet(use, 0)

\* SrpClient::new: a key no earlier client of the loop had.
NewKey(c) == c.key + 1

OnPeer(c) == Then([c EXCEPT !.peer = TRUE], <<Packet("init", 0)>>)

\* Mutant: the key is made anew for each use.
StartAuthenticationKeyless(c) ==
  IF mechanism = "none" THEN End(c, "unsupported")
  ELSE IF mechanism = "first_srp" THEN Then(c, <<Packet("first_srp", 0)>>)
  ELSE Then([c EXCEPT !.key = NewKey(c)], <<Packet("srp_a", c.key)>>)

\* start_authentication: registration is preferred, a login makes a new key.
StartAuthentication(c) ==
  IF mechanism = "none" THEN End(c, "unsupported")
  ELSE IF mechanism = "first_srp" THEN Then(c, <<Packet("first_srp", 0)>>)
  ELSE Then([c EXCEPT !.key = NewKey(c)], <<Packet("srp_a", NewKey(c))>>)

\* answer_srp_challenge: the proof is made with the key the loop holds now.
AnswerChallenge(c) ==
  IF c.key = 0 THEN Stay(c) ELSE Then(c, <<Packet("srp_m", c.key)>>)

\* Mutant: client_ready is never due.
AcceptedWithoutNeed(c) == Then([c EXCEPT !.ready = TRUE], <<Packet("init2", 0)>>)

\* AuthAccept in the loops that go on: client_ready has to wait.
Accepted(c) ==
  Then([c EXCEPT !.need = TRUE, !.ready = TRUE], <<Packet("init2", 0)>>)

\* The events every joining loop handles alike.
Join(c, e) ==
  CASE e = "peer" -> OnPeer(c)
    [] e = "hello" -> StartAuthentication(c)
    [] e = "challenge" -> AnswerChallenge(c)
    [] e = "accept" -> Accepted(c)
    [] e \in {"itemdef", "nodedef"} -> Stay([c EXCEPT !.defs = @ \cup {e}])
    [] e = "denied" -> End(c, "denied")
    [] OTHER -> Stay(c)

\* handshake: Hello is all it wants.
Handshake(c, e) ==
  CASE e \in {"hello", "accept"} -> Then([c EXCEPT !.phase = "done"], <<Bye>>)
    [] e \in {"peer", "denied"} -> Join(c, e)
    [] OTHER -> Stay(c)

\* login: client_ready follows INIT2 at once, and the session is over.
Login(c, e) ==
  CASE e = "accept" -> Then([c EXCEPT !.phase = "done"],
                            <<Packet("init2", 0), Ready, Bye>>)
    [] e \in {"peer", "hello", "challenge", "denied"} -> Join(c, e)
    [] OTHER -> Stay(c)

\* send_chat: the message goes out behind client_ready, in the same iteration.
SendChat(c, e) ==
  CASE e = "accept" -> Then([c EXCEPT !.phase = "done"],
                            <<Packet("init2", 0), Ready, Chat("chat"), Bye>>)
    [] e \in {"peer", "hello", "challenge", "denied"} -> Join(c, e)
    [] OTHER -> Stay(c)

\* connect also waits for a first position, which it then repeats for ever.
Connect(c, e) ==
  IF e = "spawn" THEN Stay([c EXCEPT !.spawned = TRUE]) ELSE Join(c, e)

\* The other loops with a position treat these events as connect does: observe
\* remembers the last chat message, trace_session prints every packet, join_bot
\* takes every later position too.
Observe(c, e) == Connect(c, e)

TraceSession(c, e) == Connect(c, e)

MoveForward(c, e) == Connect(c, e)

JoinBot(c, e) == Connect(c, e)

\* follow_player: the first other player who chats is the target.
FollowPlayer(c, e) ==
  IF e = "say" THEN Stay([c EXCEPT !.target = TRUE]) ELSE Connect(c, e)

\* follow_command
FollowCommand(c, e) ==
  IF e = "say" THEN Stay([c EXCEPT !.target = TRUE]) ELSE Join(c, e)

React(c, e) ==
  CASE mode = "handshake" -> Handshake(c, e)
    [] mode = "login" -> Login(c, e)
    [] mode = "chat" -> SendChat(c, e)
    [] mode = "follow" -> FollowPlayer(c, e)
    [] mode = "followcmd" -> FollowCommand(c, e)
    [] mode = "connect" -> Connect(c, e)
    [] mode = "observe" -> Observe(c, e)
    [] mode = "trace" -> TraceSession(c, e)
    [] mode = "move" -> MoveForward(c, e)
    [] mode = "join" -> JoinBot(c, e)

-----------------------------------------------------------------------------
(* What a loop does after the event, `due' when 200 ms have passed since   *)
(* the last position packet.                                               *)

\* The steps of an iteration, in order: a step sees what the one before it
\* left, and none is made when the loop has ended.
Follow(r, step) ==
  IF r.client.phase # "running" THEN r
  ELSE Then(step.client, r.packets \o step.packets)

\* connect, move_forward and follow_player give up after 30 s without
\* AuthAccept; join_bot never does.
CheckDeadline(c) ==
  IF mode \in {"connect", "move", "follow"} /\ ~c.ready /\ "deadline" \in elapsed
    THEN End(c, "timeout") ELSE Stay(c)

\* should_send_client_ready, once.
CheckReady(c) ==
  IF c.need /\ ~c.sentReady /\ c.defs = {"itemdef", "nodedef"}
    THEN Then([c EXCEPT !.sentReady = TRUE], <<Ready>>) ELSE Stay(c)

\* move_forward: `seconds' are counted from the start of the program.
MoveStep(c) ==
  IF ~(c.ready /\ c.spawned) THEN Stay(c)
  ELSE IF "seconds" \notin elapsed THEN Stay([c EXCEPT !.did = @ \cup {"moved"}])
  ELSE Then([c EXCEPT !.phase = "done"], <<Bye>>)

\* follow_player: a known target is followed until the end.
FollowStep(c) ==
  IF ~(c.ready /\ c.spawned) THEN Stay(c)
  ELSE IF "seconds" \in elapsed THEN Then([c EXCEPT !.phase = "done"], <<Bye>>)
  ELSE Stay([c EXCEPT !.did = @ \cup (IF c.target THEN {"moved"} ELSE {})])

\* follow_command: both commands go to the server as soon as there is a target;
\* the loop ends well once both have been sent.
CommandStep(c) ==
  IF ~(mode = "followcmd" /\ c.ready /\ c.sentReady /\ c.target) THEN Stay(c)
  ELSE LET tp == "tp" \in templates /\ "tp" \notin c.did
           follow == "follow" \in templates /\ "follow" \notin c.did
           did == c.did \cup templates
           over == did = {"tp", "follow"}
       IN Then([c EXCEPT !.did = did, !.phase = IF over THEN "done" ELSE @],
               (IF tp THEN <<Chat("tp")>> ELSE <<>>)
               \o (IF follow THEN <<Chat("follow")>> ELSE <<>>)
               \o (IF over THEN <<Bye>> ELSE <<>>))

Periodic(c) ==
  CASE mode = "move" -> MoveStep(c)
    [] mode = "follow" -> FollowStep(c)
    [] OTHER -> Stay(c)

\* The results of one iteration (a set of one: TLC then evaluates each step once).
Iteration(e, due) ==
  {Follow(d, IF due THEN Periodic(d.client) ELSE Stay(d.client)) :
    d \in {Follow(r, CommandStep(r.client)) :
      r \in {Follow(b, CheckReady(b.client)) :
        b \in {Follow(a, CheckDeadline(a.client)) : a \in {React(client, e)}}}}}

\* The loops that run while their time lasts look at it before each event.
Timed == {"handshake", "login", "chat", "observe", "trace", "followcmd"}

Running ==
  /\ client.phase = "running"
  /\ ~(mode \in Timed /\ "deadline" \in elapsed)

\* What goes out by send_reliable: all but the good bye, which a loop sends last.
Reliable(packets) ==
  IF packets # <<>> /\ packets[Len(packets)] = Bye
    THEN SubSeq(packets, 1, Len(packets) - 1) ELSE packets

Send(packets) ==
  /\ toServer' = IF stalled THEN toServer ELSE toServer \o Reliable(packets)
  /\ disco' = (disco \/ \E i \in DOMAIN packets : packets[i] = Bye)

Loop(e, due) ==
  /\ Running
  /\ \E r \in Iteration(e, due) : client' = r.client /\ Send(r.packets)
  /\ hellos' = IF e = "hello" THEN hellos + 1 ELSE hellos
  /\ UNCHANGED <<elapsed, inputVars, serverVars, stalled>>

\* recv_packet: an event arrives; another copy may arrive later.
Receive(e) ==
  /\ e \in inbox
  /\ \/ inbox' = inbox \ {e} /\ UNCHANGED repeats
     \/ repeats < MaxRepeats /\ repeats' = repeats + 1 /\ UNCHANGED inbox
  /\ Loop(e, FALSE)
  /\ UNCHANGED splitVars

\* recv_packet: a chunk arrives, and the event with it when it completes one.
\* What was put together from chunks of two messages is not understood.
ReceiveChunk(chunk) ==
  /\ Split!Deliver(chunk)
  /\ LET m == chunk.message IN
       Loop(IF Split!Result(chunk) = Split!Whole(m) THEN m ELSE "nothing", FALSE)
  /\ repeats' = IF chunk \in wire' THEN repeats + 1 ELSE repeats
  /\ repeats' <= MaxRepeats
  /\ UNCHANGED inbox

\* recv_packet: nothing came within its timeout.
ReceiveNothing ==
  /\ Loop("nothing", TRUE)
  /\ UNCHANGED <<inbox, repeats, splitVars>>

\* Mutant: the end of the time is seen by loops that are ready only.
OutOfTimeWhenReady ==
  /\ client.phase = "running" /\ mode \in Timed /\ "deadline" \in elapsed
  /\ client.ready
  /\ client' = [client EXCEPT !.phase = IF mode \in {"observe", "trace"} THEN "done" ELSE "timeout"]
  /\ disco' = (disco \/ (mode \in {"observe", "trace"} /\ client.peer))
  /\ UNCHANGED <<elapsed, hellos, inputVars, serverVars, toServer, stalled, inbox, repeats, splitVars>>

\* The time of a loop is over: observe and trace_session say good bye, the
\* others fail.
OutOfTime ==
  /\ client.phase = "running" /\ mode \in Timed /\ "deadline" \in elapsed
  /\ client' = [client EXCEPT !.phase = IF mode \in {"observe", "trace"} THEN "done" ELSE "timeout"]
  /\ disco' = (disco \/ (mode \in {"observe", "trace"} /\ client.peer))
  /\ UNCHANGED <<elapsed, hellos, inputVars, serverVars, toServer, stalled, inbox, repeats, splitVars>>

\* join_bot reads its HTTP commands in every iteration, joined or not.
ApiCommand ==
  /\ mode = "join" /\ client.phase = "running"
  /\ ~\E i \in DOMAIN toServer : toServer[i].type = "command"
  /\ heard = {} /\ ~early
  /\ Send(<<Chat("command")>>)
  /\ UNCHANGED <<client, elapsed, hellos, inputVars, serverVars, stalled, inbox, repeats, splitVars>>

-----------------------------------------------------------------------------
(* The clock, the network and the server *)

\* The times that the loop of this mode looks at.
Times == IF mode \in {"move", "follow"} THEN {"deadline", "seconds"}
         ELSE IF mode = "join" THEN {} ELSE {"deadline"}

Elapse(t) ==
  /\ t \in Times \ elapsed /\ client.phase = "running"
  /\ elapsed' = elapsed \cup {t}
  /\ UNCHANGED <<client, hellos, inputVars, serverVars, networkVars, splitVars>>

\* A reliable packet is lost: the server waits for it for ever.
Lose ==
  /\ ~stalled
  /\ \E i \in DOMAIN toServer : toServer' = SubSeq(toServer, 1, i - 1)
  /\ stalled' = TRUE
  /\ UNCHANGED <<client, elapsed, hellos, inputVars, serverVars, disco, inbox, repeats, splitVars>>

IdleBuffer(k) ==
  /\ Split!Idle(k)
  /\ UNCHANGED <<client, elapsed, hellos, inputVars, serverVars, networkVars>>

\* The server takes the next packet of the type, in the given state.
Take(type, state) ==
  /\ toServer # <<>> /\ Head(toServer).type = type
  /\ server = state
  /\ toServer' = Tail(toServer)
  /\ UNCHANGED <<client, elapsed, hellos, inputVars, stalled, disco, repeats>>

Say(e) == inbox' = inbox \cup {e}

ServerPeer ==
  /\ Take("dummy", "none") /\ server' = "peer" /\ Say("peer")
  /\ UNCHANGED <<bound, early, heard, splitVars>>

ServerHello ==
  /\ Take("init", "peer") /\ server' = "hello" /\ Say("hello")
  /\ UNCHANGED <<bound, early, heard, splitVars>>

ServerRegister ==
  /\ Take("first_srp", "hello") /\ server' = "accepted" /\ Say("accept")
  /\ UNCHANGED <<bound, early, heard, splitVars>>

\* The first key of the client counts.
ServerChallenge ==
  /\ Take("srp_a", "hello") /\ server' = "challenged" /\ Say("challenge")
  /\ bound' = Head(toServer).key
  /\ UNCHANGED <<early, heard, splitVars>>

\* process_challenge: a proof is right when it is made with the key the server
\* has computed with and with the right password.
Proves(key) == key = bound /\ ~wrong

ServerVerify ==
  /\ Take("srp_m", "challenged")
  /\ LET ok == Proves(Head(toServer).key) IN
       /\ server' = IF ok THEN "accepted" ELSE "denied"
       /\ Say(IF ok THEN "accept" ELSE "denied")
  /\ UNCHANGED <<bound, early, heard, splitVars>>

ServerDefinitions ==
  /\ Take("init2", "accepted") /\ server' = "defs"
  /\ Split!SendLarge({"itemdef", "nodedef"})
  /\ UNCHANGED <<bound, inbox, early, heard>>

ServerActivate ==
  /\ Take("ready", "defs") /\ server' = "active" /\ Say("spawn")
  /\ UNCHANGED <<bound, early, heard, splitVars>>

ChatPackets == {"chat", "tp", "follow", "command"}

ServerExecute ==
  /\ \E type \in ChatPackets : Take(type, "active") /\ heard' = heard \cup {type}
  /\ UNCHANGED <<server, bound, early, inbox, repeats, splitVars>>

\* A packet that does not fit the state is dropped.
ServerIgnore ==
  /\ \E type \in {"init", "first_srp", "srp_a", "srp_m", "init2", "ready"} \cup ChatPackets :
       /\ Take(type, server)
       /\ ~(type = "init" /\ server = "peer")
       /\ ~(type \in {"first_srp", "srp_a"} /\ server = "hello")
       /\ ~(type = "srp_m" /\ server = "challenged")
       /\ ~(type = "init2" /\ server = "accepted")
       /\ ~(type = "ready" /\ server = "defs")
       /\ ~(type \in ChatPackets /\ server = "active")
       /\ early' = (early \/ (type \in ChatPackets /\ server \notin {"denied", "gone"}))
  /\ UNCHANGED <<server, bound, heard, inbox, repeats, splitVars>>

\* Another player says something.
ServerSay ==
  /\ server = "active" /\ "say" \notin inbox /\ ~client.target
  /\ mode \in {"follow", "followcmd"}
  /\ Say("say")
  /\ UNCHANGED <<client, elapsed, hellos, inputVars, serverVars, toServer, stalled, disco, repeats, splitVars>>

\* A map block follows, in chunks (in one mode: no loop treats it differently).
ServerBlock ==
  /\ mode = "join" /\ server = "active" /\ "block" \notin sent
  /\ Split!SendLarge({"block"})
  /\ UNCHANGED <<client, elapsed, hellos, inputVars, serverVars, networkVars>>

\* The DISCO arrives, before or after what was sent ahead of it.
ServerDisco ==
  /\ disco /\ server # "gone"
  /\ server' = "gone"
  /\ UNCHANGED <<client, elapsed, hellos, inputVars, bound, early, heard, networkVars, splitVars>>

-----------------------------------------------------------------------------

Arrival ==
  \/ \E e \in inbox : Receive(e)
  \/ \E chunk \in wire : ReceiveChunk(chunk)

Client == Arrival \/ ReceiveNothing \/ OutOfTime \/ ApiCommand

Environment ==
  \/ \E t \in {"deadline", "seconds"} : Elapse(t)
  \/ Lose
  \/ \E k \in Split!Keys : IdleBuffer(k)

Server ==
  \/ ServerPeer \/ ServerHello \/ ServerRegister \/ ServerChallenge \/ ServerVerify
  \/ ServerDefinitions \/ ServerActivate \/ ServerExecute \/ ServerIgnore
  \/ ServerSay \/ ServerBlock \/ ServerDisco

Next == Client \/ Environment \/ Server

Spec == Init /\ [][Next]_vars

\* What is on its way to the client arrives (the server repeats it until then),
\* the clock runs, the loop looks at it, and the server works on what it has.
FairSpec ==
  /\ Spec
  /\ WF_vars(Arrival) /\ WF_vars(OutOfTime)
  /\ WF_vars(\E t \in Times : Elapse(t))
  /\ WF_vars(Server)

-----------------------------------------------------------------------------
(* Properties *)

\* The server denies access for a wrong password, or because Hello came twice:
\* each Hello makes a new key, and the challenge for the first is answered
\* with the second.
DeniedHasCause == server = "denied" => wrong \/ hellos > 1

\* A chat command finds the bot ready at the server: the standalone modes send
\* theirs behind client_ready.  Only join_bot passes commands on before.
CommandsFindBotReady == early => mode = "join"

\* A bot that plays knows items and nodes: the server has it active only after
\* both definitions were put together, each from its own chunks, except in the
\* two modes that leave at once.
ActiveBotKnowsItsWorld ==
  server = "active" /\ mode \notin {"login", "chat"} =>
    {Split!Whole("itemdef"), Split!Whole("nodedef")} \subseteq assembled

\* What every state of a session keeps.
SessionInv == TypeOK /\ DeniedHasCause /\ CommandsFindBotReady /\ ActiveBotKnowsItsWorld

\* Reassembly neither mixes messages nor loses what it has acknowledged
\* (SplitTransport), in every session.
ReassemblyIsFaithful == Split!ReassemblyIsFaithful

\* The modes with a time of their own end, whatever the server does.
TimedModesEnd == mode \in Timed ~> client.phase # "running"

\* join_bot, which has no deadline, is joined or ends, unless a packet of its own
\* or a chunk it has acknowledged is lost: then it waits for ever.
JoinCompletes ==
  mode = "join" ~> \/ server = "active"
                   \/ client.phase # "running"
                   \/ stalled
                   \/ forgotten # {}
=============================================================================
