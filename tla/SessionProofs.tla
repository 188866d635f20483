---------------------------- MODULE SessionProofs ----------------------------
(***************************************************************************)
(* The session for every subset of the subcommands and any number of       *)
(* repeated packets: what the server, the queue and the loop know of each  *)
(* other, and reassembly.                                                  *)
(***************************************************************************)
EXTENDS Session, SequenceTheorems, TLAPS

Types == {"dummy", "init", "first_srp", "srp_a", "srp_m", "init2", "ready",
          "chat", "tp", "follow", "command", "disco"}
Packets == [type : Types, key : Nat]

-----------------------------------------------------------------------------
(* Queues of packets *)

Has(q, S) == \E i \in 1..Len(q) : q[i] \in S

\* Every packet of T has one of S ahead of it.
Preceded(q, T, S) ==
  \A i \in 1..Len(q) : q[i] \in T => \E k \in 1..Len(q) : k < i /\ q[k] \in S

Of(type) == { p \in Packets : p.type = type }
Chats == { p \in Packets : p.type \in {"chat", "tp", "follow"} }
FirstKey == {Packet("srp_a", 1)}
LaterKeys == { p \in Packets : p.type = "srp_a" /\ p.key # 1 }

\* The SRP packets are made with one of k keys.
Keyed(q, k) ==
  \A i \in 1..Len(q) :
    q[i].key \in IF q[i].type \in {"srp_a", "srp_m"} THEN 1..k ELSE {0}

-----------------------------------------------------------------------------
(* The inductive invariant *)

\* TypeOK but for the split packets.
TypePart ==
  /\ mode \in Modes /\ templates \subseteq {"tp", "follow"}
  /\ client \in Clients
  /\ elapsed \subseteq {"deadline", "seconds"}
  /\ server \in {"none", "peer", "hello", "challenged", "accepted", "defs", "active",
                 "denied", "gone"}
  /\ bound \in 0..1 /\ hellos \in 0..MaxRepeats + 1 /\ repeats \in 0..MaxRepeats
  /\ mechanism \in {"first_srp", "srp", "none"} /\ wrong \in BOOLEAN
  /\ toServer \in Seq(Packets) /\ Keyed(toServer, client.key)
  /\ stalled \in BOOLEAN /\ disco \in BOOLEAN
  /\ inbox \subseteq Small
  /\ early \in BOOLEAN /\ heard \subseteq {"chat", "tp", "follow", "command"}

Before == {"none", "peer", "hello"}
After == {"accepted", "defs", "active", "gone"}

\* One Hello is said, and it is handled once and once more for each repetition;
\* each makes a key.
HelloPart ==
  /\ hellos + (IF "hello" \in inbox THEN 1 ELSE 0) <= repeats + 1
  /\ server \in {"none", "peer"} => hellos = 0 /\ "hello" \notin inbox
  /\ client.key <= hellos

\* The key the server gets first is the first key of the client.
KeyPart ==
  /\ server \in Before =>
       /\ Preceded(toServer, LaterKeys, FirstKey)
       /\ ~stalled /\ client.key > 0 => Has(toServer, FirstKey)
  /\ server = "challenged" => bound = 1

\* What a client that was accepted has sent is in the queue in its order, until
\* the server has taken it.
OrderPart ==
  /\ client.sentReady \/ client.ready => client.need
  /\ "accept" \in inbox \/ client.need => server \in After
  /\ Has(toServer, Of("init2")) \/ Has(toServer, Of("ready")) \/ Has(toServer, Chats)
       => server \in After
  /\ server = "accepted" => Preceded(toServer, Of("ready"), Of("init2"))
  /\ server \in {"accepted", "defs"} /\ mode # "join" => Preceded(toServer, Chats, Of("ready"))
  /\ server = "accepted" /\ client.need /\ ~stalled => Has(toServer, Of("init2"))
  /\ server \in {"accepted", "defs"} /\ client.sentReady /\ ~stalled => Has(toServer, Of("ready"))
  /\ Has(toServer, Of("command")) => mode = "join"

\* client_ready is sent by a client that has put its definitions together.
WorldPart ==
  /\ \A e \in client.defs : Split!Whole(e) \in assembled
  /\ client.sentReady => client.defs = {"itemdef", "nodedef"}
  /\ mode \notin {"login", "chat"} /\ (Has(toServer, Of("ready")) \/ server = "active")
       => client.sentReady

\* What is on the wire and in the buffers of one sequence number is of one
\* message, but for a buffer that will be dropped.
SeqOf(m) == IF m = "nodedef" THEN 1 ELSE 0
CountOf(m) == IF m = "nodedef" THEN 1 ELSE 2

BufferOf(k, m) ==
  /\ SeqOf(m) = k
  /\ buffers[k].chunks \in [1..CountOf(m) -> {m, None}]
  /\ ~buffers[k].stale => \A c \in wire : SeqOf(c.message) = k => c.message = m

SplitPart ==
  /\ Split!SplitTypeOK
  /\ \A c, d \in wire : SeqOf(c.message) = SeqOf(d.message) => c.message = d.message
  /\ \A k \in Split!Keys : buffers[k] # None => \E m \in Large : BufferOf(k, m)
  /\ Split!ReassemblyIsFaithful

\* Why the server denies access or gets a chat command too early.
CausePart ==
  /\ early => mode = "join"
  /\ server = "denied" => wrong \/ hellos > 1

Rest == TypePart /\ HelloPart /\ KeyPart /\ OrderPart /\ WorldPart /\ CausePart

IInv == Rest /\ SplitPart

-----------------------------------------------------------------------------
(* Reassembly *)

LEMMA Codes ==
  ASSUME NEW m \in Large
  PROVE  /\ SeqOf(m) \in Split!Keys /\ CountOf(m) \in Nat \ {0}
         /\ Split!Whole(m) = [i \in 1..CountOf(m) |-> m]
         /\ Split!Chunks(m) = {[message |-> m, num |-> i] : i \in 1..CountOf(m)}
         /\ m # None
BY NoneAssumption DEF Split!Keys, Split!Whole, Split!Chunks, SeqOf, CountOf, Large

\* A chunk of the wire is a chunk of its message.
LEMMA ChunkOf ==
  ASSUME Split!SplitTypeOK, NEW c \in wire
  PROVE  /\ c.message \in Large /\ c.num \in 1..CountOf(c.message)
         /\ c \in Split!Chunks(c.message)
<1>1. PICK m \in Large : c \in Split!Chunks(m)
  BY DEF Split!SplitTypeOK
<1>2. PICK i \in 1..CountOf(m) : c = [message |-> m, num |-> i]
  BY <1>1, Codes
<1>3. c.message = m /\ c.num = i
  BY <1>2
<1> QED BY <1>1, <1>2, <1>3

LEMMA BufferShape ==
  ASSUME Split!SplitTypeOK, NEW k \in Split!Keys, buffers[k] # None
  PROVE  /\ buffers[k] \in Split!Buffers /\ buffers[k].stale \in BOOLEAN
         /\ buffers[k] = [chunks |-> buffers[k].chunks, stale |-> buffers[k].stale]
<1>1. buffers[k] \in Split!Buffers
  BY DEF Split!SplitTypeOK
<1>2. PICK m \in Large :
        buffers[k] \in [chunks : [1..CountOf(m) -> Large \cup {None}], stale : BOOLEAN]
  BY <1>1 DEF Split!Buffers, CountOf
<1> QED BY <1>1, <1>2

\* A buffer of one message has a type.
LEMMA TypedBuffer ==
  ASSUME NEW m \in Large, NEW t \in [1..CountOf(m) -> {m, None}], NEW s \in BOOLEAN
  PROVE  [chunks |-> t, stale |-> s] \in Split!Buffers
<1>1. t \in [1..CountOf(m) -> Large \cup {None}]
  OBVIOUS
<1>2. [chunks |-> t, stale |-> s] \in [chunks : [1..CountOf(m) -> Large \cup {None}], stale : BOOLEAN]
  BY <1>1
<1> QED BY <1>2 DEF Split!Buffers, CountOf

\* The buffer that a chunk goes into is of its message only, keeps what a buffer
\* that is not dropped had, and has the chunk.
Filled(c) == Split!Insert(Split!Entry(c), c)

LEMMA EntryIs ==
  ASSUME SplitPart, NEW c \in wire
  PROVE  LET k == SeqOf(c.message)
             e == Split!Entry(c)
         IN /\ e = [chunks |-> e.chunks, stale |-> FALSE]
            /\ e.chunks \in [1..CountOf(c.message) -> {c.message, None}]
            /\ buffers[k] # None /\ ~buffers[k].stale => e.chunks = buffers[k].chunks
<1> DEFINE k == SeqOf(c.message)
           n == CountOf(c.message)
           e == Split!Entry(c)
           old == Split!Retained[k]
<1>0. Split!SplitTypeOK
  BY DEF SplitPart
<1>1. c.message \in Large /\ k \in Split!Keys /\ n \in Nat \ {0}
  BY <1>0, ChunkOf, Codes
<1>2. old = IF buffers[k] # None /\ buffers[k].stale THEN None ELSE buffers[k]
  BY <1>1 DEF Split!Retained, Split!IsStale
<1>3. e = IF old = None \/ Len(old.chunks) # n
            THEN [chunks |-> [i \in 1..n |-> None], stale |-> FALSE]
            ELSE [old EXCEPT !.stale = FALSE]
  BY <1>1 DEF Split!Entry, Split!NewBuffer, SeqOf, CountOf
<1> HIDE DEF k, n, e, old
<1>4. CASE old = None
  <2>1. e = [chunks |-> [i \in 1..n |-> None], stale |-> FALSE]
    BY <1>3, <1>4
  <2> QED BY <1>2, <1>4, <2>1 DEF k, n, e
<1>5. CASE old # None
  <2>1. old = buffers[k] /\ buffers[k] # None /\ ~buffers[k].stale
    BY <1>2, <1>5
  <2>2. PICK m \in Large : BufferOf(k, m)
    BY <1>1, <2>1 DEF SplitPart
  <2>3. m = c.message
    BY <2>1, <2>2 DEF BufferOf, k
  <2>4. buffers[k].chunks \in [1..n -> {c.message, None}]
    BY <2>2, <2>3 DEF BufferOf, n
  <2>5. Len(old.chunks) = n
    BY <1>1, <2>1, <2>4
  <2>6. e = [chunks |-> buffers[k].chunks, stale |-> FALSE]
    BY <1>0, <1>1, <1>3, <1>5, <2>1, <2>5, BufferShape
  <2> QED BY <2>4, <2>6 DEF k, n, e
<1> QED BY <1>4, <1>5

LEMMA PutChunk ==
  ASSUME NEW t, NEW x, NEW v, NEW r, r = [[chunks |-> t, stale |-> FALSE] EXCEPT !.chunks[x] = v]
  PROVE  r = [chunks |-> [t EXCEPT ![x] = v], stale |-> FALSE]
<1> DEFINE u == [t EXCEPT ![x] = v]
           o == [chunks |-> t, stale |-> FALSE]
<1>1. r = [o EXCEPT !.chunks = [o.chunks EXCEPT ![x] = v]]
  OBVIOUS
<1>2. o.chunks = t
  OBVIOUS
<1>3. r = [o EXCEPT !.chunks = u]
  BY <1>1, <1>2
<1> HIDE DEF u
<1> QED BY <1>3

LEMMA FilledIs ==
  ASSUME SplitPart, NEW c \in wire
  PROVE  LET k == SeqOf(c.message)
             b == Filled(c)
         IN /\ b = [chunks |-> b.chunks, stale |-> FALSE]
            /\ b.chunks \in [1..CountOf(c.message) -> {c.message, None}]
            /\ b.chunks[c.num] = c.message
            /\ buffers[k] # None /\ ~buffers[k].stale =>
                 \A i \in 1..CountOf(c.message) :
                   buffers[k].chunks[i] = c.message => b.chunks[i] = c.message
<1> DEFINE k == SeqOf(c.message)
           n == CountOf(c.message)
           e == Split!Entry(c)
           b == Filled(c)
<1>1. /\ e = [chunks |-> e.chunks, stale |-> FALSE]
      /\ e.chunks \in [1..n -> {c.message, None}]
      /\ buffers[k] # None /\ ~buffers[k].stale => e.chunks = buffers[k].chunks
  BY EntryIs
<1>2. c.message \in Large /\ c.num \in 1..n
  BY ChunkOf DEF SplitPart
<1>3. c.message # None
  BY <1>2, Codes
<1>4. b = IF c.num \in DOMAIN e.chunks /\ e.chunks[c.num] = None
            THEN [e EXCEPT !.chunks[c.num] = c.message] ELSE e
  BY DEF Filled, Split!Insert
<1> HIDE DEF k, n, e, b
<1>5. CASE e.chunks[c.num] = None
  <2> DEFINE t == e.chunks
             u == [t EXCEPT ![c.num] = c.message]
  <2>1. b = [e EXCEPT !.chunks[c.num] = c.message]
    BY <1>1, <1>2, <1>4, <1>5
  <2>2. e = [chunks |-> t, stale |-> FALSE] /\ t \in [1..n -> {c.message, None}]
    BY <1>1
  <2> HIDE DEF t
  <2>3. b = [chunks |-> u, stale |-> FALSE]
    BY <2>1, <2>2, PutChunk
  <2>4. /\ u \in [1..n -> {c.message, None}] /\ u[c.num] = c.message
        /\ \A i \in 1..n : t[i] = c.message => u[i] = c.message
    BY <1>2, <2>2
  <2> HIDE DEF u
  <2>5. b.chunks = u
    BY <2>3
  <2>6. buffers[k] # None /\ ~buffers[k].stale => t = buffers[k].chunks
    BY <1>1 DEF t
  <2> QED BY <2>3, <2>4, <2>5, <2>6 DEF k, n, b
<1>6. CASE e.chunks[c.num] # None
  <2>1. b = e
    BY <1>4, <1>6
  <2>2. e.chunks[c.num] = c.message
    BY <1>1, <1>2, <1>6
  <2> QED BY <1>1, <2>1, <2>2 DEF k, n, b
<1> QED BY <1>5, <1>6

\* What a chunk does to the wire, the buffers and what was assembled.
LEMMA DeliverDoes ==
  ASSUME SplitPart, NEW c \in wire, Split!Deliver(c)
  PROVE  LET m == c.message
             k == SeqOf(m)
             b == Filled(c)
             whole == \A i \in 1..CountOf(m) : b.chunks[i] = m
         IN /\ wire' \subseteq wire /\ wire \subseteq wire' \cup {c}
            /\ buffers'[k] = IF whole THEN None ELSE b
            /\ \A j \in Split!Keys : j # k =>
                 buffers'[j] = IF buffers[j] # None /\ buffers[j].stale THEN None ELSE buffers[j]
            /\ buffers' = [j \in Split!Keys |-> buffers'[j]]
            /\ assembled' = assembled \cup (IF whole THEN {Split!Whole(m)} ELSE {})
            /\ forgotten' = forgotten \cup Split!Dropped
            /\ sent' = sent
            /\ Split!Result(c) = IF whole THEN Split!Whole(m) ELSE <<>>
<1> DEFINE m == c.message
           k == SeqOf(m)
           b == Filled(c)
           whole == \A i \in 1..CountOf(m) : b.chunks[i] = m
<1>1. /\ b = [chunks |-> b.chunks, stale |-> FALSE]
      /\ b.chunks \in [1..CountOf(m) -> {m, None}]
  BY FilledIs
<1>2. m \in Large /\ k \in Split!Keys /\ m # None /\ Split!Whole(m) = [i \in 1..CountOf(m) |-> m]
  BY ChunkOf, Codes DEF SplitPart
<1>3. Split!Complete(b) <=> whole
  BY <1>1, <1>2 DEF Split!Complete
<1>4. whole => b.chunks = Split!Whole(m)
  BY <1>1, <1>2
<1>5. /\ wire' \in {wire, wire \ {c}}
      /\ buffers' = [Split!Retained EXCEPT ![k] = IF Split!Complete(b) THEN None ELSE b]
      /\ assembled' = assembled \cup (IF Split!Complete(b) THEN {b.chunks} ELSE {})
      /\ forgotten' = forgotten \cup Split!Dropped
      /\ sent' = sent
  BY <1>2 DEF Split!Deliver, Split!HandleSplit, Filled, SeqOf
<1>6. Split!Result(c) = IF Split!Complete(b) THEN b.chunks ELSE <<>>
  BY DEF Split!Result, Filled
<1> HIDE DEF b, whole
<1>7. Split!Retained = [j \in Split!Keys |-> IF buffers[j] # None /\ buffers[j].stale THEN None ELSE buffers[j]]
  BY DEF Split!Retained, Split!IsStale
<1> HIDE DEF m, k
<1>8. buffers'[k] = IF whole THEN None ELSE b
  BY <1>2, <1>3, <1>5, <1>7
<1>9. /\ buffers' = [j \in Split!Keys |-> buffers'[j]]
      /\ \A j \in Split!Keys : j # k =>
           buffers'[j] = IF buffers[j] # None /\ buffers[j].stale THEN None ELSE buffers[j]
  BY <1>5, <1>7
<1>10. assembled' = assembled \cup (IF whole THEN {Split!Whole(m)} ELSE {})
  BY <1>3, <1>4, <1>5
<1>11. Split!Result(c) = IF whole THEN Split!Whole(m) ELSE <<>>
  BY <1>3, <1>4, <1>6
<1>12. wire' \subseteq wire /\ wire \subseteq wire' \cup {c}
  BY <1>5
<1> QED BY <1>5, <1>8, <1>9, <1>10, <1>11, <1>12 DEF m, k, b, whole

\* Where a chunk of a message is.
InBuffer(m, i) ==
  /\ buffers[SeqOf(m)] # None
  /\ i \in DOMAIN buffers[SeqOf(m)].chunks /\ buffers[SeqOf(m)].chunks[i] = m

AllKept ==
  \A m \in sent \ forgotten :
    Split!Whole(m) \in assembled \/
      \A i \in 1..CountOf(m) : [message |-> m, num |-> i] \in wire \/ InBuffer(m, i)

LEMMA KeptMeans == Split!SplitTypeOK => (Split!AcknowledgedIsKept <=> AllKept)
<1> SUFFICES ASSUME Split!SplitTypeOK PROVE Split!AcknowledgedIsKept <=> AllKept
  OBVIOUS
<1>1. \A m \in Large : \A chunk \in Split!Chunks(m) :
        \E i \in 1..CountOf(m) : chunk = [message |-> m, num |-> i] /\ chunk.num = i
  BY Codes
<1>2. \A m \in Large : \A i \in 1..CountOf(m) :
        [message |-> m, num |-> i] \in Split!Chunks(m) /\ [message |-> m, num |-> i].num = i
  BY Codes
<1> DEFINE Kept(m) == \A chunk \in Split!Chunks(m) :
                        \/ chunk \in wire
                        \/ /\ buffers[SeqOf(m)] # None
                           /\ chunk.num \in DOMAIN buffers[SeqOf(m)].chunks
                           /\ buffers[SeqOf(m)].chunks[chunk.num] = m
           Held(m) == \A i \in 1..CountOf(m) : [message |-> m, num |-> i] \in wire \/ InBuffer(m, i)
<1>4. \A m \in Large : Kept(m) <=> Held(m)
  BY <1>1, <1>2 DEF InBuffer
<1>5. sent \subseteq Large
  BY DEF Split!SplitTypeOK
<1>6. Split!AcknowledgedIsKept <=>
        \A m \in sent \ forgotten : Split!Whole(m) \in assembled \/ Kept(m)
  BY <1>5 DEF Split!AcknowledgedIsKept, SeqOf
<1> HIDE DEF Kept, Held
<1>7. Split!AcknowledgedIsKept <=>
        \A m \in sent \ forgotten : Split!Whole(m) \in assembled \/ Held(m)
  BY <1>4, <1>5, <1>6
<1> QED BY <1>7 DEF Held, AllKept

LEMMA DeliverKeeps ==
  ASSUME SplitPart, NEW c \in wire, Split!Deliver(c)
  PROVE  SplitPart'
<1> DEFINE m == c.message
           k == SeqOf(m)
           b == Filled(c)
           whole == \A i \in 1..CountOf(m) : b.chunks[i] = m
<1>0. Split!SplitTypeOK
  BY DEF SplitPart
<1>1. /\ b = [chunks |-> b.chunks, stale |-> FALSE]
      /\ b.chunks \in [1..CountOf(m) -> {m, None}]
      /\ b.chunks[c.num] = m
      /\ buffers[k] # None /\ ~buffers[k].stale =>
           \A i \in 1..CountOf(m) : buffers[k].chunks[i] = m => b.chunks[i] = m
  BY FilledIs
<1>2. /\ m \in Large /\ k \in Split!Keys /\ m # None /\ CountOf(m) \in Nat \ {0}
      /\ c.num \in 1..CountOf(m) /\ c = [message |-> m, num |-> c.num]
  BY <1>0, ChunkOf, Codes
<1>3. /\ wire' \subseteq wire /\ wire \subseteq wire' \cup {c}
      /\ buffers'[k] = IF whole THEN None ELSE b
      /\ \A j \in Split!Keys : j # k =>
           buffers'[j] = IF buffers[j] # None /\ buffers[j].stale THEN None ELSE buffers[j]
      /\ buffers' = [j \in Split!Keys |-> buffers'[j]]
      /\ assembled' = assembled \cup (IF whole THEN {Split!Whole(m)} ELSE {})
      /\ forgotten' = forgotten \cup Split!Dropped
      /\ sent' = sent
  BY DeliverDoes
<1> HIDE DEF m, k, b, whole
<1>4. b \in Split!Buffers
  BY <1>1, <1>2, TypedBuffer
<1>5. \A j \in Split!Keys : buffers'[j] \in Split!Buffers \cup {None}
  <2> TAKE j \in Split!Keys
  <2>1. buffers[j] \in Split!Buffers \cup {None}
    BY <1>0 DEF Split!SplitTypeOK
  <2> QED BY <1>3, <1>4, <2>1
<1>6. Split!Dropped \subseteq Large
  BY DEF Split!Dropped
<1>7. Split!SplitTypeOK'
  BY <1>0, <1>3, <1>5, <1>6 DEF Split!SplitTypeOK
<1>8. \A x, y \in wire' : SeqOf(x.message) = SeqOf(y.message) => x.message = y.message
  BY <1>3 DEF SplitPart
<1>9. \A j \in Split!Keys : buffers'[j] # None => \E o \in Large : BufferOf(j, o)'
  <2> SUFFICES ASSUME NEW j \in Split!Keys, buffers'[j] # None
               PROVE  \E o \in Large : BufferOf(j, o)'
    OBVIOUS
  <2>1. CASE j = k
    <3>1. buffers'[j] = b /\ ~b.stale
      BY <1>1, <1>3, <2>1
    <3>2. \A d \in wire' : SeqOf(d.message) = k => d.message = m
      BY <1>3 DEF SplitPart, k, m
    <3>3. SeqOf(m) = k
      BY DEF k, m
    <3>4. BufferOf(j, m)'
      BY <1>1, <2>1, <3>1, <3>2, <3>3 DEF BufferOf
    <3> QED BY <1>2, <3>4
  <2>2. CASE j # k
    <3>1. buffers'[j] = buffers[j] /\ buffers[j] # None
      BY <1>3, <2>2
    <3>2. PICK o \in Large : BufferOf(j, o)
      BY <3>1 DEF SplitPart
    <3>3. BufferOf(j, o)'
      BY <1>3, <3>1, <3>2 DEF BufferOf
    <3> QED BY <3>3
  <2> QED BY <2>1, <2>2
<1>10. Split!AssembledFromOneMessage'
  BY <1>2, <1>3 DEF SplitPart, Split!ReassemblyIsFaithful, Split!AssembledFromOneMessage
<1>11. \A o \in sent' \ forgotten' :
         Split!Whole(o) \in assembled' \/
           \A i \in 1..CountOf(o) : [message |-> o, num |-> i] \in wire' \/ InBuffer(o, i)'
  <2> SUFFICES ASSUME NEW o \in sent, o \notin forgotten, o \notin Split!Dropped,
                      Split!Whole(o) \notin assembled',
                      NEW i \in 1..CountOf(o), [message |-> o, num |-> i] \notin wire'
               PROVE  InBuffer(o, i)'
    BY <1>3
  <2>1. o \in Large /\ SeqOf(o) \in Split!Keys /\ CountOf(o) \in Nat \ {0} /\ Split!Whole(o) \notin assembled
    BY <1>0, <1>3, Codes DEF Split!SplitTypeOK
  <2>2. \A h \in 1..CountOf(o) : [message |-> o, num |-> h] \in wire \/ InBuffer(o, h)
    BY <1>0, <2>1, KeptMeans DEF SplitPart, Split!ReassemblyIsFaithful, AllKept
  <2>3. ASSUME NEW h \in 1..CountOf(o), InBuffer(o, h)
        PROVE  ~buffers[SeqOf(o)].stale
    BY <2>1, <2>3 DEF InBuffer, Split!Dropped, Split!IsStale
  <2>4. CASE SeqOf(o) # k
    <3>1. [message |-> o, num |-> i] # c
      BY <2>4 DEF k, m
    <3>2. InBuffer(o, i)
      BY <1>3, <2>2, <3>1
    <3>3. buffers'[SeqOf(o)] = buffers[SeqOf(o)]
      BY <1>3, <2>1, <2>3, <2>4, <3>2
    <3> QED BY <3>2, <3>3 DEF InBuffer
  <2>5. CASE o = m
    <3>1. ~whole /\ buffers'[SeqOf(o)] = b
      BY <1>3, <2>5 DEF k, m
    <3>2. DOMAIN b.chunks = 1..CountOf(m) /\ b # None
      <4>1. None \notin Split!Buffers
        BY NoneAssumption
      <4> QED BY <1>1, <1>4, <4>1
    <3>3. b.chunks[i] = m
      <4>1. CASE i = c.num
        BY <1>1, <4>1
      <4>2. CASE i # c.num
        <5>1. [message |-> o, num |-> i].num # c.num
          BY <4>2
        <5>2. [message |-> o, num |-> i] # c
          BY <5>1
        <5>3. InBuffer(o, i)
          BY <1>3, <2>2, <5>2
        <5> QED BY <1>1, <2>3, <2>5, <5>3 DEF InBuffer, k, m
      <4> QED BY <4>1, <4>2
    <3> QED BY <2>5, <3>1, <3>2, <3>3 DEF InBuffer
  <2>6. CASE SeqOf(o) = k /\ o # m
    <3>1. [message |-> o, num |-> 1] \notin wire
      <4>1. [message |-> o, num |-> 1].message = o
        OBVIOUS
      <4> QED BY <2>6, <4>1 DEF SplitPart, k, m
    <3>2. InBuffer(o, 1)
      BY <2>1, <2>2, <3>1
    <3>3. ~buffers[k].stale /\ buffers[k] # None /\ buffers[k].chunks[1] = o /\ 1 \in DOMAIN buffers[k].chunks
      BY <2>1, <2>3, <2>6, <3>2 DEF InBuffer
    <3>4. PICK p \in Large : BufferOf(k, p)
      BY <1>2, <3>3 DEF SplitPart
    <3>5. p = m
      BY <3>3, <3>4 DEF BufferOf, k, m
    <3>6. o \in {m, None}
      BY <3>3, <3>4, <3>5 DEF BufferOf
    <3> QED BY <2>1, <2>6, <3>6, Codes
  <2> QED BY <2>4, <2>5, <2>6
<1>12. Split!AcknowledgedIsKept'
  <2>1. AllKept'
    BY <1>11 DEF AllKept
  <2> QED BY <1>7, <2>1, KeptMeans, PTL
<1> QED BY <1>7, <1>8, <1>9, <1>10, <1>12 DEF SplitPart, Split!ReassemblyIsFaithful

LEMMA SendKeeps ==
  ASSUME SplitPart, NEW ms \in SUBSET Large, Split!SendLarge(ms),
         \A m, o \in ms : SeqOf(m) = SeqOf(o) => m = o
  PROVE  SplitPart'
<1>0. Split!SplitTypeOK
  BY DEF SplitPart
<1>1. /\ wire' = wire \cup UNION {Split!Chunks(m) : m \in ms}
      /\ sent' = sent \cup ms
      /\ UNCHANGED <<buffers, assembled, forgotten>>
  BY DEF Split!SendLarge
<1>2. \A m \in ms : /\ \A c \in wire : SeqOf(c.message) # SeqOf(m)
                    /\ buffers[SeqOf(m)] = None \/ buffers[SeqOf(m)].stale
  <2> SUFFICES ASSUME NEW m \in ms
               PROVE  /\ \A c \in wire : SeqOf(c.message) # SeqOf(m)
                      /\ buffers[SeqOf(m)] = None \/ buffers[SeqOf(m)].stale
    OBVIOUS
  <2>1. \A c \in wire : c.message \in Large
    BY <1>0, ChunkOf
  <2> QED BY <2>1 DEF Split!SendLarge, Split!IsStale, SeqOf
<1>3. \A c \in wire' : c \in wire \/ c.message \in ms
  BY <1>1, Codes
<1>4. Split!SplitTypeOK'
  BY <1>0, <1>1 DEF Split!SplitTypeOK
<1>5. \A x, y \in wire' : SeqOf(x.message) = SeqOf(y.message) => x.message = y.message
  <2> TAKE x, y \in wire'
  <2>1. CASE x \in wire /\ y \in wire
    BY <2>1 DEF SplitPart
  <2>2. CASE x \in wire /\ y.message \in ms
    BY <1>2, <2>2
  <2>3. CASE x.message \in ms /\ y \in wire
    BY <1>2, <2>3
  <2>4. CASE x.message \in ms /\ y.message \in ms
    BY <2>4
  <2> QED BY <1>3, <2>1, <2>2, <2>3, <2>4
<1>6. \A j \in Split!Keys : buffers'[j] # None => \E o \in Large : BufferOf(j, o)'
  <2> SUFFICES ASSUME NEW j \in Split!Keys, buffers[j] # None
               PROVE  \E o \in Large : BufferOf(j, o)'
    BY <1>1
  <2>1. PICK o \in Large : BufferOf(j, o)
    BY DEF SplitPart
  <2>2. ~buffers[j].stale => \A c \in wire' : SeqOf(c.message) = j => c \in wire
    BY <1>2, <1>3
  <2>3. BufferOf(j, o)'
    BY <1>1, <2>1, <2>2 DEF BufferOf
  <2> QED BY <2>3
<1>7. Split!AssembledFromOneMessage'
  BY <1>1 DEF SplitPart, Split!ReassemblyIsFaithful, Split!AssembledFromOneMessage
<1>8. AllKept'
  <2> SUFFICES ASSUME NEW m \in sent \cup ms, m \notin forgotten, Split!Whole(m) \notin assembled,
                      NEW i \in 1..CountOf(m)
               PROVE  [message |-> m, num |-> i] \in wire' \/ InBuffer(m, i)'
    BY <1>1 DEF AllKept
  <2>1. CASE m \in ms
    BY <1>1, <2>1, Codes
  <2>2. CASE m \in sent
    <3>1. [message |-> m, num |-> i] \in wire \/ InBuffer(m, i)
      BY <1>0, <2>2, KeptMeans DEF SplitPart, Split!ReassemblyIsFaithful, AllKept
    <3> QED BY <1>1, <3>1 DEF InBuffer
  <2> QED BY <2>1, <2>2
<1>9. Split!AcknowledgedIsKept'
  BY <1>4, <1>8, KeptMeans, PTL
<1> QED BY <1>4, <1>5, <1>6, <1>7, <1>9 DEF SplitPart, Split!ReassemblyIsFaithful

LEMMA MarkStale ==
  ASSUME NEW t, NEW s, NEW r, r = [[chunks |-> t, stale |-> s] EXCEPT !.stale = TRUE]
  PROVE  r = [chunks |-> t, stale |-> TRUE]
OBVIOUS

LEMMA IdleKeeps ==
  ASSUME SplitPart, NEW k \in Split!Keys, Split!Idle(k)
  PROVE  SplitPart'
<1>0. Split!SplitTypeOK
  BY DEF SplitPart
<1>1. /\ buffers[k] # None
      /\ buffers' = [buffers EXCEPT ![k].stale = TRUE]
      /\ UNCHANGED <<wire, sent, assembled, forgotten>>
  BY DEF Split!Idle
<1>2. PICK m \in Large : BufferOf(k, m)
  BY <1>1 DEF SplitPart
<1> DEFINE t == buffers[k].chunks
<1>3. buffers[k] = [chunks |-> t, stale |-> buffers[k].stale] /\ t \in [1..CountOf(m) -> {m, None}]
  BY <1>0, <1>1, <1>2, BufferShape DEF BufferOf
<1> HIDE DEF t
<1>4. /\ buffers'[k] = [chunks |-> t, stale |-> TRUE]
      /\ \A j \in Split!Keys : j # k => buffers'[j] = buffers[j]
      /\ buffers' = [j \in Split!Keys |-> buffers'[j]]
  <2>1. buffers = [j \in Split!Keys |-> buffers[j]]
    BY <1>0 DEF Split!SplitTypeOK
  <2>2. buffers' = [buffers EXCEPT ![k] = [buffers[k] EXCEPT !.stale = TRUE]]
    BY <1>1
  <2>3. PICK r : r = [buffers[k] EXCEPT !.stale = TRUE]
    OBVIOUS
  <2>4. r = [chunks |-> t, stale |-> TRUE]
    BY <1>3, <2>3, MarkStale
  <2>5. buffers' = [buffers EXCEPT ![k] = [chunks |-> t, stale |-> TRUE]]
    BY <2>2, <2>3, <2>4
  <2> QED BY ONLY <2>1, <2>5, k \in Split!Keys
<1>5. buffers'[k] \in Split!Buffers
  BY <1>3, <1>4, TypedBuffer
<1>6. Split!SplitTypeOK'
  <2>1. \A j \in Split!Keys : buffers'[j] \in Split!Buffers \cup {None}
    BY <1>0, <1>4, <1>5 DEF Split!SplitTypeOK
  <2>2. buffers' \in [Split!Keys -> Split!Buffers \cup {None}]
    BY <1>4, <2>1
  <2> QED BY <1>0, <1>1, <2>2 DEF Split!SplitTypeOK
<1>7. \A j \in Split!Keys : buffers'[j] # None => \E o \in Large : BufferOf(j, o)'
  <2> SUFFICES ASSUME NEW j \in Split!Keys, buffers'[j] # None
               PROVE  \E o \in Large : BufferOf(j, o)'
    OBVIOUS
  <2>1. CASE j = k
    <3>1. buffers'[k].chunks = t /\ buffers'[k].stale
      BY <1>4
    <3>2. BufferOf(k, m)'
      BY <1>2, <1>3, <3>1 DEF BufferOf
    <3> QED BY <2>1, <3>2
  <2>2. CASE j # k
    <3>1. buffers'[j] = buffers[j] /\ buffers[j] # None
      BY <1>4, <2>2
    <3>2. PICK o \in Large : BufferOf(j, o)
      BY <3>1 DEF SplitPart
    <3>3. BufferOf(j, o)'
      BY <1>1, <3>1, <3>2 DEF BufferOf
    <3> QED BY <3>3
  <2> QED BY <2>1, <2>2
<1>8. AllKept'
  <2>1. AllKept
    BY <1>0, KeptMeans DEF SplitPart, Split!ReassemblyIsFaithful
  <2>2. sent \subseteq Large
    BY <1>0 DEF Split!SplitTypeOK
  <2>3. ASSUME NEW o \in sent, NEW i, InBuffer(o, i) PROVE InBuffer(o, i)'
    <3>1. SeqOf(o) \in Split!Keys
      BY <2>2, Codes
    <3>2. buffers'[SeqOf(o)] # None /\ buffers'[SeqOf(o)].chunks = buffers[SeqOf(o)].chunks
      <4>1. None \notin Split!Buffers
        BY NoneAssumption
      <4>2. CASE SeqOf(o) = k
        <5>1. buffers'[k] # None
          BY <1>5, <4>1
        <5>2. buffers'[k].chunks = t
          BY <1>4
        <5> QED BY <4>2, <5>1, <5>2 DEF t
      <4>3. CASE SeqOf(o) # k
        BY <1>4, <2>3, <3>1, <4>3 DEF InBuffer
      <4> QED BY <4>2, <4>3
    <3> QED BY <2>3, <3>2 DEF InBuffer
  <2> QED BY <1>1, <2>1, <2>3 DEF AllKept
<1>9. Split!AcknowledgedIsKept'
  BY <1>6, <1>8, KeptMeans, PTL
<1>10. Split!AssembledFromOneMessage'
  BY <1>1 DEF SplitPart, Split!ReassemblyIsFaithful, Split!AssembledFromOneMessage
<1> QED BY <1>1, <1>6, <1>7, <1>9, <1>10 DEF SplitPart, Split!ReassemblyIsFaithful

LEMMA SplitStarts == Split!SplitInit => SplitPart
<1> SUFFICES ASSUME Split!SplitInit PROVE SplitPart
  OBVIOUS
<1>1. Split!SplitTypeOK
  BY DEF Split!SplitInit, Split!SplitTypeOK
<1>2. Split!ReassemblyIsFaithful
  BY DEF Split!SplitInit, Split!ReassemblyIsFaithful, Split!AssembledFromOneMessage,
         Split!AcknowledgedIsKept
<1> QED BY <1>1, <1>2 DEF SplitPart, Split!SplitInit

LEMMA SplitStutters == SplitPart /\ UNCHANGED splitVars => SplitPart'
<1> SUFFICES ASSUME SplitPart, UNCHANGED splitVars PROVE SplitPart'
  OBVIOUS
<1>1. UNCHANGED <<wire, buffers, sent, assembled, forgotten>>
  BY DEF splitVars
<1>2. Split!SplitTypeOK'
  BY <1>1 DEF SplitPart, Split!SplitTypeOK
<1>3. \A c, d \in wire' : SeqOf(c.message) = SeqOf(d.message) => c.message = d.message
  BY <1>1 DEF SplitPart
<1>4. \A k \in Split!Keys : buffers'[k] # None => \E m \in Large : BufferOf(k, m)'
  <2> SUFFICES ASSUME NEW k \in Split!Keys, buffers[k] # None
               PROVE  \E m \in Large : BufferOf(k, m)'
    BY <1>1
  <2>1. PICK m \in Large : BufferOf(k, m)
    BY DEF SplitPart
  <2>2. BufferOf(k, m)'
    BY <1>1, <2>1 DEF BufferOf
  <2> QED BY <2>2
<1>5. Split!AssembledFromOneMessage'
  BY <1>1 DEF SplitPart, Split!ReassemblyIsFaithful, Split!AssembledFromOneMessage
<1>6. AllKept'
  <2>1. AllKept
    BY KeptMeans DEF SplitPart, Split!ReassemblyIsFaithful
  <2> QED BY <1>1, <2>1 DEF AllKept, InBuffer
<1>7. Split!AcknowledgedIsKept'
  BY <1>2, <1>6, KeptMeans, PTL
<1> QED BY <1>2, <1>3, <1>4, <1>5, <1>7 DEF SplitPart, Split!ReassemblyIsFaithful

-----------------------------------------------------------------------------
(* Lemmas about queues of packets *)

\* What is asked of a queue does not depend on the packet that ends a session.
Sets == SUBSET { p \in Packets : p # Bye }

LEMMA Kinds ==
  /\ Packet("disco", 0) = Bye /\ Bye \in Packets
  /\ \A type \in Types \ {"disco"} : Of(type) \in Sets
  /\ Chats \in Sets /\ FirstKey \in Sets /\ LaterKeys \in Sets
BY DEF Types, Packets, Of, Chats, FirstKey, LaterKeys, Sets, Bye, Packet

LEMMA HasConcat ==
  ASSUME NEW p \in Seq(Packets), NEW q \in Seq(Packets), NEW S
  PROVE  Has(p \o q, S) <=> Has(p, S) \/ Has(q, S)
<1>1. /\ Len(p) \in Nat /\ Len(q) \in Nat /\ Len(p \o q) = Len(p) + Len(q)
      /\ \A i \in 1..Len(p) + Len(q) : (p \o q)[i] = IF i <= Len(p) THEN p[i] ELSE q[i - Len(p)]
  BY ConcatProperties, LenProperties
<1>2. ASSUME Has(p \o q, S) PROVE Has(p, S) \/ Has(q, S)
  <2>1. PICK i \in 1..Len(p) + Len(q) : (p \o q)[i] \in S
    BY <1>1, <1>2 DEF Has
  <2>2. CASE i <= Len(p)
    BY <1>1, <2>1, <2>2 DEF Has
  <2>3. CASE ~(i <= Len(p))
    <3>1. i - Len(p) \in 1..Len(q) /\ q[i - Len(p)] \in S
      BY <1>1, <2>1, <2>3
    <3> QED BY <3>1 DEF Has
  <2> QED BY <2>2, <2>3
<1>3. ASSUME Has(p, S) PROVE Has(p \o q, S)
  <2>1. PICK i \in 1..Len(p) : p[i] \in S
    BY <1>3 DEF Has
  <2>2. i \in 1..Len(p) + Len(q) /\ (p \o q)[i] = p[i]
    BY <1>1
  <2> QED BY <1>1, <2>1, <2>2 DEF Has
<1>4. ASSUME Has(q, S) PROVE Has(p \o q, S)
  <2>1. PICK i \in 1..Len(q) : q[i] \in S
    BY <1>4 DEF Has
  <2>2. /\ Len(p) + i \in 1..Len(p) + Len(q) /\ ~(Len(p) + i <= Len(p))
        /\ (Len(p) + i) - Len(p) = i
    BY <1>1
  <2>3. (p \o q)[Len(p) + i] = q[i]
    BY <1>1, <2>2
  <2> QED BY <1>1, <2>1, <2>2, <2>3 DEF Has
<1> QED BY <1>2, <1>3, <1>4

LEMMA PrecededConcat ==
  ASSUME NEW p \in Seq(Packets), NEW q \in Seq(Packets), NEW T, NEW S,
         Preceded(p, T, S), Has(p, S) \/ Preceded(q, T, S)
  PROVE  Preceded(p \o q, T, S)
<1>1. /\ Len(p) \in Nat /\ Len(q) \in Nat /\ Len(p \o q) = Len(p) + Len(q)
      /\ \A i \in 1..Len(p) + Len(q) : (p \o q)[i] = IF i <= Len(p) THEN p[i] ELSE q[i - Len(p)]
  BY ConcatProperties, LenProperties
<1> SUFFICES ASSUME NEW i \in 1..Len(p) + Len(q), (p \o q)[i] \in T
             PROVE  \E k \in 1..Len(p) + Len(q) : k < i /\ (p \o q)[k] \in S
  BY <1>1 DEF Preceded
<1>2. CASE i <= Len(p)
  <2>1. i \in 1..Len(p) /\ p[i] \in T
    BY <1>1, <1>2
  <2>2. PICK k \in 1..Len(p) : k < i /\ p[k] \in S
    BY <2>1 DEF Preceded
  <2>3. k \in 1..Len(p) + Len(q) /\ (p \o q)[k] = p[k]
    BY <1>1
  <2> QED BY <2>2, <2>3
<1>3. CASE ~(i <= Len(p)) /\ Has(p, S)
  <2>1. PICK k \in 1..Len(p) : p[k] \in S
    BY <1>3 DEF Has
  <2>2. k \in 1..Len(p) + Len(q) /\ (p \o q)[k] = p[k] /\ k < i
    BY <1>1, <1>3
  <2> QED BY <2>1, <2>2
<1>4. CASE ~(i <= Len(p)) /\ Preceded(q, T, S)
  <2> DEFINE j == i - Len(p)
  <2>1. j \in 1..Len(q) /\ q[j] \in T
    BY <1>1, <1>4
  <2>2. PICK h \in 1..Len(q) : h < j /\ q[h] \in S
    BY <1>4, <2>1 DEF Preceded
  <2>3. /\ Len(p) + h \in 1..Len(p) + Len(q) /\ ~(Len(p) + h <= Len(p))
        /\ (Len(p) + h) - Len(p) = h /\ Len(p) + h < i
    BY <1>1, <2>2
  <2>4. (p \o q)[Len(p) + h] = q[h]
    BY <1>1, <2>3
  <2> QED BY <2>2, <2>3, <2>4
<1> QED BY <1>2, <1>3, <1>4

LEMMA KeyedConcat ==
  ASSUME NEW p \in Seq(Packets), NEW q \in Seq(Packets), NEW n \in Nat, NEW k \in Nat,
         Keyed(p, n), Keyed(q, k), n <= k
  PROVE  Keyed(p \o q, k)
<1>1. /\ Len(p) \in Nat /\ Len(q) \in Nat /\ Len(p \o q) = Len(p) + Len(q)
      /\ \A i \in 1..Len(p) + Len(q) : (p \o q)[i] = IF i <= Len(p) THEN p[i] ELSE q[i - Len(p)]
  BY ConcatProperties, LenProperties
<1> SUFFICES ASSUME NEW i \in 1..Len(p) + Len(q)
             PROVE  (p \o q)[i].key \in IF (p \o q)[i].type \in {"srp_a", "srp_m"} THEN 1..k ELSE {0}
  BY <1>1 DEF Keyed
<1>2. CASE i <= Len(p)
  <2>1. i \in 1..Len(p) /\ (p \o q)[i] = p[i]
    BY <1>1, <1>2
  <2> QED BY <2>1 DEF Keyed
<1>3. CASE ~(i <= Len(p))
  <2>1. i - Len(p) \in 1..Len(q) /\ (p \o q)[i] = q[i - Len(p)]
    BY <1>1, <1>3
  <2> QED BY <2>1 DEF Keyed
<1> QED BY <1>2, <1>3

\* What holds of a queue holds of each of its prefixes.
LEMMA PrefixOf ==
  ASSUME NEW q \in Seq(Packets), NEW n \in 0..Len(q)
  PROVE  LET p == SubSeq(q, 1, n) IN
         /\ p \in Seq(Packets) /\ Len(p) = n /\ \A i \in 1..n : p[i] = q[i]
         /\ \A S : Has(p, S) => Has(q, S)
         /\ \A T, S : Preceded(q, T, S) => Preceded(p, T, S)
         /\ \A k : Keyed(q, k) => Keyed(p, k)
<1> DEFINE p == SubSeq(q, 1, n)
<1>1. Len(q) \in Nat /\ \A i \in 1..n : q[i] \in Packets
  BY LenProperties
<1>2. p \in Seq(Packets) /\ Len(p) = n /\ \A i \in 1..n : p[i] = q[i]
  BY <1>1, SubSeqProperties
<1> HIDE DEF p
<1>3. \A S : Has(p, S) => Has(q, S)
  BY <1>1, <1>2 DEF Has
<1>4. \A T, S : Preceded(q, T, S) => Preceded(p, T, S)
  <2> SUFFICES ASSUME NEW T, NEW S, Preceded(q, T, S), NEW i \in 1..n, p[i] \in T
               PROVE  \E k \in 1..n : k < i /\ p[k] \in S
    BY <1>2 DEF Preceded
  <2>1. PICK k \in 1..Len(q) : k < i /\ q[k] \in S
    BY <1>1, <1>2 DEF Preceded
  <2>2. k \in 1..n
    BY <1>1, <2>1
  <2> QED BY <1>2, <2>1, <2>2
<1>5. \A k : Keyed(q, k) => Keyed(p, k)
  BY <1>1, <1>2 DEF Keyed
<1> QED BY <1>2, <1>3, <1>4, <1>5 DEF p

\* The reliable packets of a loop: all but its good bye.
LEMMA ReliableOf ==
  ASSUME NEW q \in Seq(Packets)
  PROVE  /\ Reliable(q) \in Seq(Packets)
         /\ \A S \in Sets : Has(Reliable(q), S) <=> Has(q, S)
         /\ \A T, S : Preceded(q, T, S) => Preceded(Reliable(q), T, S)
         /\ \A k : Keyed(q, k) => Keyed(Reliable(q), k)
<1>1. CASE q # <<>> /\ q[Len(q)] = Bye
  <2> DEFINE n == Len(q) - 1
  <2>1. Len(q) \in Nat /\ n \in 0..Len(q) /\ Reliable(q) = SubSeq(q, 1, n)
    BY <1>1, LenProperties, EmptySeq DEF Reliable
  <2>2. ASSUME NEW S \in Sets, Has(q, S) PROVE Has(Reliable(q), S)
    <3>1. PICK i \in 1..Len(q) : q[i] \in S
      BY <2>2 DEF Has
    <3>2. i # Len(q)
      BY <1>1, <2>2, <3>1 DEF Sets
    <3>3. i \in 1..n
      BY <2>1, <3>2
    <3>4. Len(Reliable(q)) = n /\ Reliable(q)[i] = q[i]
      BY <2>1, <3>3, PrefixOf
    <3> QED BY <3>1, <3>3, <3>4 DEF Has
  <2> HIDE DEF n
  <2> QED BY <2>1, <2>2, PrefixOf
<1>2. CASE ~(q # <<>> /\ q[Len(q)] = Bye)
  BY <1>2 DEF Reliable
<1> QED BY <1>1, <1>2

\* What sending does to the queue.
LEMMA SendEffects ==
  ASSUME NEW p \in Seq(Packets), Send(p), toServer \in Seq(Packets)
  PROVE  /\ toServer' \in Seq(Packets)
         /\ \A S \in Sets : Has(toServer', S) => Has(toServer, S) \/ Has(p, S)
         /\ \A S \in Sets : Has(toServer, S) => Has(toServer', S)
         /\ \A S \in Sets : ~stalled /\ Has(p, S) => Has(toServer', S)
         /\ \A T, S \in Sets :
              Preceded(toServer, T, S) /\ (stalled \/ Has(toServer, S) \/ Preceded(p, T, S))
                => Preceded(toServer', T, S)
         /\ \A n, k \in Nat : Keyed(toServer, n) /\ Keyed(p, k) /\ n <= k => Keyed(toServer', k)
<1> DEFINE q == Reliable(p)
<1>1. /\ q \in Seq(Packets)
      /\ \A S \in Sets : Has(q, S) <=> Has(p, S)
      /\ \A T, S : Preceded(p, T, S) => Preceded(q, T, S)
      /\ \A k : Keyed(p, k) => Keyed(q, k)
  BY ReliableOf
<1>2. toServer' = IF stalled THEN toServer ELSE toServer \o q
  BY DEF Send
<1> HIDE DEF q
<1>3. CASE stalled
  <2>1. \A n, k \in Nat : Keyed(toServer, n) /\ n <= k => Keyed(toServer, k)
    <3> SUFFICES ASSUME NEW n \in Nat, NEW k \in Nat, Keyed(toServer, n), n <= k,
                        NEW i \in 1..Len(toServer)
                 PROVE  toServer[i].key \in IF toServer[i].type \in {"srp_a", "srp_m"} THEN 1..k ELSE {0}
      BY DEF Keyed
    <3> QED BY DEF Keyed
  <2> QED BY <1>2, <1>3, <2>1
<1>4. CASE ~stalled
  <2>1. toServer' = toServer \o q /\ toServer' \in Seq(Packets)
    BY <1>1, <1>2, <1>4, ConcatProperties
  <2>2. \A S : Has(toServer', S) <=> Has(toServer, S) \/ Has(q, S)
    BY <1>1, <2>1, HasConcat
  <2>3. \A T, S : Preceded(toServer, T, S) /\ (Has(toServer, S) \/ Preceded(q, T, S))
                    => Preceded(toServer', T, S)
    BY <1>1, <2>1, PrecededConcat
  <2>4. \A n, k \in Nat : Keyed(toServer, n) /\ Keyed(q, k) /\ n <= k => Keyed(toServer', k)
    BY <1>1, <2>1, KeyedConcat
  <2> QED BY <1>1, <1>4, <2>1, <2>2, <2>3, <2>4
<1> QED BY <1>3, <1>4

\* What taking a packet does to it.
LEMMA TakeEffects ==
  ASSUME NEW type, NEW state, Take(type, state), toServer \in Seq(Packets)
  PROVE  /\ Head(toServer) \in Packets /\ Head(toServer).type = type
         /\ toServer' \in Seq(Packets)
         /\ \A S : Head(toServer) \in S => Has(toServer, S)
         /\ \A T, S : Head(toServer) \in T => ~Preceded(toServer, T, S)
         /\ \A S : Has(toServer', S) => Has(toServer, S)
         /\ \A S : Has(toServer, S) /\ Head(toServer) \notin S => Has(toServer', S)
         /\ \A T, S : Preceded(toServer, T, S) /\ Head(toServer) \notin S => Preceded(toServer', T, S)
         /\ \A k : Keyed(toServer, k) => Keyed(toServer', k)
         /\ \A k : Keyed(toServer, k) =>
              Head(toServer).key \in IF type \in {"srp_a", "srp_m"} THEN 1..k ELSE {0}
<1> DEFINE q == toServer
           t == Tail(toServer)
<1>1. /\ q # <<>> /\ Head(q).type = type /\ toServer' = t
  BY DEF Take
<1>2. /\ Len(q) \in Nat \ {0} /\ Head(q) = q[1] /\ Head(q) \in Packets
      /\ t \in Seq(Packets) /\ Len(t) = Len(q) - 1
      /\ \A i \in 1..Len(t) : t[i] = q[i + 1]
  BY <1>1, HeadTailProperties, EmptySeq
<1> HIDE DEF q, t
<1>3. \A S : Head(q) \in S => Has(q, S)
  BY <1>2 DEF Has
<1>4. \A T, S : Head(q) \in T => ~Preceded(q, T, S)
  BY <1>2 DEF Preceded
<1>5. \A S : Has(t, S) => Has(q, S)
  <2> SUFFICES ASSUME NEW S, NEW i \in 1..Len(t), t[i] \in S PROVE Has(q, S)
    BY DEF Has
  <2>1. i + 1 \in 1..Len(q) /\ q[i + 1] \in S
    BY <1>2
  <2> QED BY <2>1 DEF Has
<1>6. \A S : Has(q, S) /\ Head(q) \notin S => Has(t, S)
  <2> SUFFICES ASSUME NEW S, NEW i \in 1..Len(q), q[i] \in S, q[1] \notin S PROVE Has(t, S)
    BY <1>2 DEF Has
  <2>1. i - 1 \in 1..Len(t) /\ t[i - 1] = q[i]
    BY <1>2
  <2> QED BY <2>1 DEF Has
<1>7. \A T, S : Preceded(q, T, S) /\ Head(q) \notin S => Preceded(t, T, S)
  <2> SUFFICES ASSUME NEW T, NEW S, Preceded(q, T, S), q[1] \notin S, NEW i \in 1..Len(t), t[i] \in T
               PROVE  \E k \in 1..Len(t) : k < i /\ t[k] \in S
    BY <1>2 DEF Preceded
  <2>1. i + 1 \in 1..Len(q) /\ q[i + 1] \in T
    BY <1>2
  <2>2. PICK k \in 1..Len(q) : k < i + 1 /\ q[k] \in S
    BY <2>1 DEF Preceded
  <2>3. k # 1
    BY <2>2
  <2>4. k - 1 \in 1..Len(t) /\ k - 1 < i /\ t[k - 1] = q[k]
    BY <1>2, <2>2, <2>3
  <2> QED BY <2>2, <2>4
<1>8. \A k : Keyed(q, k) => Keyed(t, k)
  <2> SUFFICES ASSUME NEW k, Keyed(q, k), NEW i \in 1..Len(t)
               PROVE  t[i].key \in IF t[i].type \in {"srp_a", "srp_m"} THEN 1..k ELSE {0}
    BY DEF Keyed
  <2>1. i + 1 \in 1..Len(q) /\ t[i] = q[i + 1]
    BY <1>2
  <2> QED BY <2>1 DEF Keyed
<1>9. \A k : Keyed(q, k) => Head(q).key \in IF type \in {"srp_a", "srp_m"} THEN 1..k ELSE {0}
  BY <1>1, <1>2 DEF Keyed
<1> QED BY <1>1, <1>2, <1>3, <1>4, <1>5, <1>6, <1>7, <1>8, <1>9 DEF q, t

-----------------------------------------------------------------------------
(* What an iteration of a loop does with an event *)

Events == Small \cup Large \cup {"nothing"}

Definitions == {"itemdef", "nodedef"}

ClientPart ==
  /\ client \in Clients
  /\ client.sentReady \/ client.ready => client.need
  /\ client.sentReady => client.defs = Definitions

\* A result of event e: the client c and the packets p sent so far.
Good(e, c, p) ==
  /\ c \in Clients /\ p \in Seq(Packets) /\ Keyed(p, c.key)
  /\ c.key # client.key =>
       e = "hello" /\ c.key = client.key + 1 /\ Has(p, {Packet("srp_a", c.key)})
  /\ client.need => c.need
  /\ c.need => client.need \/ (e = "accept" /\ Has(p, Of("init2")))
  /\ c.ready \/ c.sentReady => c.need
  /\ client.sentReady => c.sentReady
  /\ c.sentReady => client.sentReady \/ Has(p, Of("ready"))
  /\ c.sentReady => c.defs = Definitions
  /\ client.defs \subseteq c.defs /\ c.defs \subseteq client.defs \cup {e}
  /\ Has(p, Of("init2")) => e = "accept"
  /\ Has(p, Of("ready")) \/ Has(p, Chats) => e = "accept" \/ client.need
  /\ client.need \/ Preceded(p, Of("ready"), Of("init2"))
  /\ client.sentReady \/ Preceded(p, Chats, Of("ready"))
  /\ Has(p, Of("ready")) => c.sentReady \/ mode \in {"login", "chat"}
  /\ ~Has(p, Of("command"))

\* Packets that say nothing of the progress of a session.
Harmless == { p \in Packets : p.type \in {"init", "first_srp", "srp_m", "disco"} }

LEMMA OnePacket ==
  ASSUME NEW S, NEW x \in S
  PROVE  /\ <<x>> \in Seq(S) /\ Len(<<x>>) = 1 /\ <<x>>[1] = x
         /\ \A T : Has(<<x>>, T) <=> x \in T
         /\ \A T, U : x \notin T => Preceded(<<x>>, T, U)
         /\ \A k : Keyed(<<x>>, k) <=> x.key \in IF x.type \in {"srp_a", "srp_m"} THEN 1..k ELSE {0}
<1>1. <<x>> \in Seq(S) /\ Len(<<x>>) = 1 /\ <<x>>[1] = x
  OBVIOUS
<1>2. 1..1 = {1}
  OBVIOUS
<1> QED BY <1>1, <1>2 DEF Has, Preceded, Keyed

LEMMA Elements ==
  ASSUME NEW S \in SUBSET Packets, NEW q \in Seq(S)
  PROVE  /\ q \in Seq(Packets)
         /\ \A T : S \cap T = {} => ~Has(q, T)
         /\ \A T, U : ~Has(q, T) => Preceded(q, T, U)
<1>1. q \in Seq(Packets)
  BY SeqMonotonic
<1>2. \A i \in 1..Len(q) : q[i] \in S
  BY ElementOfSeq
<1> QED BY <1>1, <1>2 DEF Has, Preceded

\* An event that is answered with harmless packets.
LEMMA HarmlessIsGood ==
  ASSUME ClientPart, NEW e \in Events, NEW d \in Clients, NEW q \in Seq(Harmless),
         d.key = client.key, d.need = client.need, d.ready = client.ready,
         d.sentReady = client.sentReady,
         client.defs \subseteq d.defs, d.defs \subseteq client.defs \cup {e},
         Keyed(q, client.key)
  PROVE  Good(e, d, q)
<1>1. Harmless \subseteq Packets
  BY DEF Harmless
<1>2. /\ q \in Seq(Packets)
      /\ ~Has(q, Of("init2")) /\ ~Has(q, Of("ready")) /\ ~Has(q, Chats) /\ ~Has(q, Of("command"))
      /\ Preceded(q, Of("ready"), Of("init2")) /\ Preceded(q, Chats, Of("ready"))
  <2>1. /\ Harmless \cap Of("init2") = {} /\ Harmless \cap Of("ready") = {}
        /\ Harmless \cap Chats = {} /\ Harmless \cap Of("command") = {}
    BY DEF Harmless, Of, Chats
  <2> QED BY <1>1, <2>1, Elements
<1>3. d.sentReady => d.defs = Definitions
  BY DEF ClientPart, Clients, Definitions
<1> QED BY <1>2, <1>3 DEF Good, ClientPart

\* Nothing is sent.
LEMMA SilenceIsGood ==
  ASSUME ClientPart, NEW e \in Events, NEW d \in Clients,
         d.key = client.key, d.need = client.need, d.ready = client.ready,
         d.sentReady = client.sentReady,
         client.defs \subseteq d.defs, d.defs \subseteq client.defs \cup {e}
  PROVE  Good(e, d, <<>>)
<1>1. <<>> \in Seq(Harmless) /\ Keyed(<<>>, client.key)
  BY DEF Keyed
<1> QED BY <1>1, HarmlessIsGood

\* One harmless packet is sent.
LEMMA OneIsGood ==
  ASSUME ClientPart, NEW e \in Events, NEW d \in Clients,
         d.key = client.key, d.need = client.need, d.ready = client.ready,
         d.sentReady = client.sentReady, d.defs = client.defs,
         NEW x \in Harmless, x.key \in IF x.type = "srp_m" THEN 1..client.key ELSE {0}
  PROVE  Good(e, d, <<x>>)
<1>1. <<x>> \in Seq(Harmless)
  OBVIOUS
<1>2. Keyed(<<x>>, client.key)
  <2>1. x.type # "srp_a"
    BY DEF Harmless
  <2> QED BY <2>1, OnePacket
<1> QED BY <1>1, <1>2, HarmlessIsGood

LEMMA JoinIsGood ==
  ASSUME ClientPart, NEW e \in Events
  PROVE  Good(e, Join(client, e).client, Join(client, e).packets)
<1>0. client \in Clients /\ client.key \in Nat
  BY DEF ClientPart, Clients
<1>1. CASE e = "peer"
  <2>1. Join(client, e) = Then([client EXCEPT !.peer = TRUE], <<Packet("init", 0)>>)
    BY <1>1 DEF Join, OnPeer
  <2>2. Packet("init", 0) \in Harmless /\ Packet("init", 0).key = 0 /\ Packet("init", 0).type = "init"
    BY DEF Packet, Harmless, Packets, Types
  <2>3. PICK d : d = [client EXCEPT !.peer = TRUE]
    OBVIOUS
  <2>4. d \in Clients /\ d.key = client.key /\ d.need = client.need /\ d.ready = client.ready
        /\ d.sentReady = client.sentReady /\ d.defs = client.defs
    BY <1>0, <2>3 DEF Clients
  <2>5. Good(e, d, <<Packet("init", 0)>>)
    BY <2>2, <2>4, OneIsGood
  <2> QED BY <2>1, <2>3, <2>5 DEF Then
<1>2. CASE e = "hello" /\ mechanism = "first_srp"
  <2>1. Join(client, e) = Then(client, <<Packet("first_srp", 0)>>)
    BY <1>2 DEF Join, StartAuthentication
  <2>2. /\ Packet("first_srp", 0) \in Harmless /\ Packet("first_srp", 0).key = 0
        /\ Packet("first_srp", 0).type = "first_srp"
    BY DEF Packet, Harmless, Packets, Types
  <2>3. Good(e, client, <<Packet("first_srp", 0)>>)
    BY <1>0, <2>2, OneIsGood
  <2> QED BY <2>1, <2>3 DEF Then
<1>3. CASE e = "hello" /\ mechanism \notin {"none", "first_srp"}
  <2>1. PICK d : d = [client EXCEPT !.key = NewKey(client)]
    OBVIOUS
  <2>2. PICK x : x = Packet("srp_a", NewKey(client))
    OBVIOUS
  <2>3. Join(client, e) = Then(d, <<x>>)
    BY <1>3, <2>1, <2>2 DEF Join, StartAuthentication
  <2>4. /\ d \in Clients /\ d.key = client.key + 1 /\ d.need = client.need /\ d.ready = client.ready
        /\ d.sentReady = client.sentReady /\ d.defs = client.defs
    BY <1>0, <2>1 DEF Clients, NewKey
  <2>5. /\ x \in Packets /\ x.type = "srp_a" /\ x.key = d.key /\ x = Packet("srp_a", d.key)
        /\ x.key \in 1..d.key
    BY <1>0, <2>2, <2>4 DEF Packet, Packets, Types, NewKey
  <2>6. /\ <<x>> \in Seq(Packets) /\ Keyed(<<x>>, d.key) /\ Has(<<x>>, {Packet("srp_a", d.key)})
        /\ ~Has(<<x>>, Of("init2")) /\ ~Has(<<x>>, Of("ready")) /\ ~Has(<<x>>, Chats)
        /\ ~Has(<<x>>, Of("command"))
        /\ Preceded(<<x>>, Of("ready"), Of("init2")) /\ Preceded(<<x>>, Chats, Of("ready"))
    BY <2>5, OnePacket DEF Of, Chats
  <2>7. Good(e, d, <<x>>)
    BY <1>3, <2>4, <2>6 DEF Good, ClientPart
  <2> QED BY <2>3, <2>7 DEF Then
<1>4. CASE e = "challenge" /\ client.key # 0
  <2>1. Join(client, e) = Then(client, <<Packet("srp_m", client.key)>>)
    BY <1>4 DEF Join, AnswerChallenge
  <2>2. PICK x : x = Packet("srp_m", client.key)
    OBVIOUS
  <2>3. x \in Harmless /\ x.key = client.key /\ x.type = "srp_m" /\ client.key \in 1..client.key
    BY <1>0, <1>4, <2>2 DEF Packet, Harmless, Packets, Types
  <2>4. Good(e, client, <<x>>)
    BY <1>0, <2>3, OneIsGood
  <2> QED BY <2>1, <2>2, <2>4 DEF Then
<1>5. CASE e = "accept"
  <2>1. PICK d : d = [client EXCEPT !.need = TRUE, !.ready = TRUE]
    OBVIOUS
  <2>2. PICK x : x = Packet("init2", 0)
    OBVIOUS
  <2>3. Join(client, e) = Then(d, <<x>>)
    BY <1>5, <2>1, <2>2 DEF Join, Accepted
  <2>4. /\ d \in Clients /\ d.key = client.key /\ d.need /\ d.ready
        /\ d.sentReady = client.sentReady /\ d.defs = client.defs
    BY <1>0, <2>1 DEF Clients
  <2>5. x \in Packets /\ x.type = "init2" /\ x.key = 0
    BY <2>2 DEF Packet, Packets, Types
  <2>6. /\ <<x>> \in Seq(Packets) /\ Keyed(<<x>>, d.key)
        /\ Has(<<x>>, Of("init2")) /\ ~Has(<<x>>, Of("ready")) /\ ~Has(<<x>>, Chats)
        /\ ~Has(<<x>>, Of("command"))
        /\ Preceded(<<x>>, Of("ready"), Of("init2")) /\ Preceded(<<x>>, Chats, Of("ready"))
    BY <2>5, OnePacket DEF Of, Chats
  <2>7. Good(e, d, <<x>>)
    BY <1>5, <2>4, <2>6 DEF Good, ClientPart
  <2> QED BY <2>3, <2>7 DEF Then
<1>6. CASE e \in {"itemdef", "nodedef"}
  <2>1. PICK d : d = [client EXCEPT !.defs = @ \cup {e}]
    OBVIOUS
  <2>2. Join(client, e) = Stay(d)
    BY <1>6, <2>1 DEF Join
  <2>3. /\ d \in Clients /\ d.key = client.key /\ d.need = client.need /\ d.ready = client.ready
        /\ d.sentReady = client.sentReady /\ d.defs = client.defs \cup {e}
    BY <1>0, <1>6, <2>1 DEF Clients
  <2>4. Good(e, d, <<>>)
    BY <2>3, SilenceIsGood
  <2> QED BY <2>2, <2>4 DEF Stay, Then
<1>7. CASE e = "denied" \/ (e = "hello" /\ mechanism = "none")
  <2>1. PICK phase \in {"denied", "unsupported"} : Join(client, e) = End(client, phase)
    BY <1>7 DEF Join, StartAuthentication
  <2>2. PICK d : d = [client EXCEPT !.phase = phase]
    OBVIOUS
  <2>3. /\ d \in Clients /\ d.key = client.key /\ d.need = client.need /\ d.ready = client.ready
        /\ d.sentReady = client.sentReady /\ d.defs = client.defs
    BY <1>0, <2>2 DEF Clients
  <2>4. Good(e, d, <<>>)
    BY <2>3, SilenceIsGood
  <2> QED BY <2>1, <2>2, <2>4 DEF End, Stay, Then
<1>8. CASE e \in {"spawn", "say", "block", "nothing"} \/ (e = "challenge" /\ client.key = 0)
  <2>1. Join(client, e) = Stay(client)
    BY <1>8 DEF Join, AnswerChallenge
  <2>2. Good(e, client, <<>>)
    BY <1>0, SilenceIsGood
  <2> QED BY <2>1, <2>2 DEF Stay, Then
<1> QED BY <1>1, <1>2, <1>3, <1>4, <1>5, <1>6, <1>7, <1>8 DEF Events, Small, Large

\* What a loop that is done sends after INIT2: client_ready, `more' and the
\* good bye.
LEMMA DoneIsGood ==
  ASSUME ClientPart, mode \in {"login", "chat"},
         NEW p, p = <<Packet("init2", 0), Ready, Bye>> \/ p = <<Packet("init2", 0), Ready, Chat("chat"), Bye>>
  PROVE  Good("accept", [client EXCEPT !.phase = "done"], p)
<1>1. PICK d : d = [client EXCEPT !.phase = "done"]
  OBVIOUS
<1>2. /\ d \in Clients /\ d.key = client.key /\ d.need = client.need /\ d.ready = client.ready
      /\ d.sentReady = client.sentReady /\ d.defs = client.defs
  BY <1>1 DEF ClientPart, Clients
<1>3. PICK i, r, c, b : /\ i = Packet("init2", 0) /\ r = Ready /\ c = Chat("chat") /\ b = Bye
  OBVIOUS
<1>4. /\ i \in Packets /\ i.type = "init2" /\ i.key = 0
      /\ r \in Packets /\ r.type = "ready" /\ r.key = 0
      /\ c \in Packets /\ c.type = "chat" /\ c.key = 0
      /\ b \in Packets /\ b.type = "disco" /\ b.key = 0
  BY <1>3 DEF Packet, Packets, Types, Ready, Chat, Bye
<1>5. p = <<i, r, b>> \/ p = <<i, r, c, b>>
  BY <1>3
<1>6. /\ p \in Seq(Packets) /\ Len(p) \in 3..4 /\ p[1] = i /\ p[2] = r
      /\ \A n \in 3..Len(p) : p[n] \in {c, b}
  <2>1. CASE p = <<i, r, b>>
    <3>1. p \in Seq(Packets) /\ Len(p) = 3 /\ p[1] = i /\ p[2] = r /\ p[3] = b
      BY <1>4, <2>1
    <3>2. 3 \in 3..4 /\ 3..3 = {3}
      OBVIOUS
    <3> QED BY <3>1, <3>2
  <2>2. CASE p = <<i, r, c, b>>
    <3>1. p \in Seq(Packets) /\ Len(p) = 4 /\ p[1] = i /\ p[2] = r /\ p[3] = c /\ p[4] = b
      BY <1>4, <2>2
    <3>2. 4 \in 3..4 /\ 3..4 = {3, 4}
      OBVIOUS
    <3> QED BY <3>1, <3>2
  <2> QED BY <1>5, <2>1, <2>2
<1>7. /\ Has(p, Of("ready")) /\ Has(p, Of("init2"))
      /\ ~Has(p, Of("command"))
      /\ Preceded(p, Of("ready"), Of("init2")) /\ Preceded(p, Chats, Of("ready"))
      /\ Keyed(p, d.key)
  <2>1. /\ i \in Of("init2") /\ i \notin Of("ready") /\ i \notin Chats /\ i \notin Of("command")
        /\ r \in Of("ready") /\ r \notin Chats /\ r \notin Of("command")
        /\ c \notin Of("ready") /\ c \notin Of("command")
        /\ b \notin Of("ready") /\ b \notin Of("command")
    BY <1>4 DEF Of, Chats
  <2>2. \A n \in 1..Len(p) : n = 1 \/ n = 2 \/ n \in 3..Len(p)
    BY <1>6
  <2>3. 1 \in 1..Len(p) /\ 2 \in 1..Len(p) /\ 1 < 2 /\ \A n \in 3..Len(p) : 2 < n
    BY <1>6
  <2>4. Has(p, Of("ready")) /\ Has(p, Of("init2"))
    BY <1>6, <2>1, <2>3 DEF Has
  <2>5. ~Has(p, Of("command"))
    BY <1>6, <2>1, <2>2 DEF Has
  <2>6. Preceded(p, Of("ready"), Of("init2"))
    BY <1>6, <2>1, <2>2, <2>3 DEF Preceded
  <2>7. Preceded(p, Chats, Of("ready"))
    BY <1>6, <2>1, <2>2, <2>3 DEF Preceded
  <2>8. Keyed(p, d.key)
    BY <1>4, <1>6, <2>2 DEF Keyed
  <2> QED BY <2>4, <2>5, <2>6, <2>7, <2>8
<1>8. Good("accept", d, p)
  <2>1. d.sentReady => d.defs = Definitions
    BY <1>2 DEF ClientPart
  <2>2. client.defs \subseteq d.defs /\ d.defs \subseteq client.defs \cup {"accept"}
    BY <1>2
  <2>3. d.need => client.need \/ ("accept" = "accept" /\ Has(p, Of("init2")))
    BY <1>7
  <2> QED BY <1>2, <1>6, <1>7, <2>1, <2>2, <2>3 DEF Good, ClientPart
<1> QED BY <1>1, <1>8

LEMMA ReactIsGood ==
  ASSUME ClientPart, mode \in AllModes, NEW e \in Events
  PROVE  Good(e, React(client, e).client, React(client, e).packets)
<1> DEFINE IsGood(r) == Good(e, r.client, r.packets)
<1>0. client \in Clients
  BY DEF ClientPart
<1>1. IsGood(Join(client, e))
  BY JoinIsGood
<1>2. IsGood(Stay(client))
  <2>1. Good(e, client, <<>>)
    BY <1>0, SilenceIsGood
  <2> QED BY <2>1 DEF Stay, Then
<1>3. IsGood(Then([client EXCEPT !.phase = "done"], <<Bye>>))
  <2>1. PICK d : d = [client EXCEPT !.phase = "done"]
    OBVIOUS
  <2>2. /\ d \in Clients /\ d.key = client.key /\ d.need = client.need /\ d.ready = client.ready
        /\ d.sentReady = client.sentReady /\ d.defs = client.defs
    BY <1>0, <2>1 DEF Clients
  <2>3. Bye \in Harmless /\ Bye.key = 0 /\ Bye.type = "disco"
    BY DEF Bye, Packet, Harmless, Packets, Types
  <2>4. Good(e, d, <<Bye>>)
    BY <2>2, <2>3, OneIsGood
  <2> QED BY <2>1, <2>4 DEF Then
<1>4. IsGood(Stay([client EXCEPT !.spawned = TRUE]))
  <2>1. PICK d : d = [client EXCEPT !.spawned = TRUE]
    OBVIOUS
  <2>2. /\ d \in Clients /\ d.key = client.key /\ d.need = client.need /\ d.ready = client.ready
        /\ d.sentReady = client.sentReady /\ d.defs = client.defs
    BY <1>0, <2>1 DEF Clients
  <2>3. Good(e, d, <<>>)
    BY <2>2, SilenceIsGood
  <2> QED BY <2>1, <2>3 DEF Stay, Then
<1>5. IsGood(Stay([client EXCEPT !.target = TRUE]))
  <2>1. PICK d : d = [client EXCEPT !.target = TRUE]
    OBVIOUS
  <2>2. /\ d \in Clients /\ d.key = client.key /\ d.need = client.need /\ d.ready = client.ready
        /\ d.sentReady = client.sentReady /\ d.defs = client.defs
    BY <1>0, <2>1 DEF Clients
  <2>3. Good(e, d, <<>>)
    BY <2>2, SilenceIsGood
  <2> QED BY <2>1, <2>3 DEF Stay, Then
<1>6. mode \in {"login", "chat"} /\ e = "accept" => IsGood(React(client, e))
  <2> SUFFICES ASSUME mode \in {"login", "chat"}, e = "accept" PROVE IsGood(React(client, e))
    OBVIOUS
  <2>1. PICK p : /\ React(client, e) = Then([client EXCEPT !.phase = "done"], p)
                 /\ \/ p = <<Packet("init2", 0), Ready, Bye>>
                    \/ p = <<Packet("init2", 0), Ready, Chat("chat"), Bye>>
    BY DEF React, Login, SendChat
  <2>2. Good(e, [client EXCEPT !.phase = "done"], p)
    BY <2>1, DoneIsGood
  <2> QED BY <2>1, <2>2 DEF Then
<1> HIDE DEF IsGood
<1>7. CASE mode = "handshake"
  <2>1. React(client, e) = Handshake(client, e)
    BY <1>7 DEF React
  <2> QED BY <1>1, <1>2, <1>3, <2>1 DEF Handshake, IsGood
<1>8. CASE mode \in {"login", "chat"} /\ e # "accept"
  <2>1. React(client, e) \in {Join(client, e), Stay(client)}
    BY <1>8 DEF React, Login, SendChat
  <2> QED BY <1>1, <1>2, <2>1 DEF IsGood
<1>9. CASE mode \notin {"handshake", "login", "chat"}
  <2>1. React(client, e) \in {Join(client, e), Stay([client EXCEPT !.spawned = TRUE]),
                              Stay([client EXCEPT !.target = TRUE])}
    BY <1>9 DEF React, FollowPlayer, FollowCommand, Connect, Observe, TraceSession, MoveForward,
                JoinBot, AllModes
  <2> QED BY <1>1, <1>4, <1>5, <2>1 DEF IsGood
<1> QED BY <1>6, <1>7, <1>8, <1>9 DEF IsGood

\* A step that only ends the loop, notes what was done and sends chat messages
\* or the good bye.
LEMMA TailIsGood ==
  ASSUME NEW e \in Events, NEW c, NEW p, Good(e, c, p),
         NEW d \in Clients, NEW q \in Seq({Chat("tp"), Chat("follow"), Bye}),
         d.key = c.key, d.need = c.need, d.ready = c.ready, d.sentReady = c.sentReady,
         d.defs = c.defs, Has(q, Chats) => c.sentReady
  PROVE  Good(e, d, p \o q)
<1> DEFINE S == {Chat("tp"), Chat("follow"), Bye}
<1>1. /\ S \subseteq Packets /\ S \cap Of("init2") = {} /\ S \cap Of("ready") = {}
      /\ S \cap Of("command") = {} /\ \A x : S \cap {Packet("srp_a", x)} = {}
      /\ \A x \in S : x.key = 0 /\ x.type \notin {"srp_a", "srp_m"}
  BY DEF Chat, Bye, Packet, Packets, Types, Of
<1> HIDE DEF S
<1>2. q \in Seq(S)
  BY DEF S
<1>3. /\ q \in Seq(Packets) /\ ~Has(q, Of("init2")) /\ ~Has(q, Of("ready")) /\ ~Has(q, Of("command"))
      /\ Preceded(q, Of("ready"), Of("init2"))
  BY <1>1, <1>2, Elements
<1>4. Keyed(q, 0)
  <2>1. \A i \in 1..Len(q) : q[i] \in S
    BY <1>2, ElementOfSeq
  <2> QED BY <1>1, <2>1 DEF Keyed
<1>5. p \in Seq(Packets) /\ c.key \in Nat
  BY DEF Good, Clients
<1>6. p \o q \in Seq(Packets) /\ \A T : Has(p \o q, T) <=> Has(p, T) \/ Has(q, T)
  BY <1>3, <1>5, HasConcat, ConcatProperties
<1>7. Keyed(p \o q, d.key)
  <2>1. Keyed(q, c.key)
    <3>1. \A i \in 1..Len(q) : q[i] \in S
      BY <1>2, ElementOfSeq
    <3> QED BY <1>1, <3>1 DEF Keyed
  <2>2. c.key <= c.key
    BY <1>5
  <2>3. Keyed(p, c.key)
    BY DEF Good
  <2> QED BY <1>3, <1>5, <2>1, <2>2, <2>3, KeyedConcat
<1>8. client.need \/ Preceded(p \o q, Of("ready"), Of("init2"))
  BY <1>3, <1>5, PrecededConcat DEF Good
<1>9. client.sentReady \/ Preceded(p \o q, Chats, Of("ready"))
  <2> SUFFICES ASSUME ~client.sentReady PROVE Preceded(p \o q, Chats, Of("ready"))
    OBVIOUS
  <2>1. Preceded(p, Chats, Of("ready"))
    BY DEF Good
  <2>2. CASE Has(q, Chats)
    <3>1. Has(p, Of("ready"))
      BY <2>2 DEF Good
    <3> QED BY <1>3, <1>5, <2>1, <3>1, PrecededConcat
  <2>3. CASE ~Has(q, Chats)
    <3>1. Preceded(q, Chats, Of("ready"))
      BY <1>1, <1>2, <2>3, Elements
    <3> QED BY <1>3, <1>5, <2>1, <3>1, PrecededConcat
  <2> QED BY <2>2, <2>3
<1> QED BY <1>3, <1>6, <1>7, <1>8, <1>9 DEF Good

\* The steps of an iteration that follow the event.
LEMMA DeadlineIsGood ==
  ASSUME NEW e \in Events, NEW c, NEW p, Good(e, c, p)
  PROVE  Good(e, CheckDeadline(c).client, p \o CheckDeadline(c).packets)
<1>1. c \in Clients
  BY DEF Good
<1>2. PICK d : d = [c EXCEPT !.phase = "timeout"]
  OBVIOUS
<1>3. CheckDeadline(c) \in {Then(c, <<>>), Then(d, <<>>)}
  BY <1>2 DEF CheckDeadline, End, Stay
<1>4. /\ d \in Clients /\ d.key = c.key /\ d.need = c.need /\ d.ready = c.ready
      /\ d.sentReady = c.sentReady /\ d.defs = c.defs
  BY <1>1, <1>2 DEF Clients
<1>5. <<>> \in Seq({Chat("tp"), Chat("follow"), Bye}) /\ ~Has(<<>>, Chats)
  BY DEF Has
<1>6. Good(e, c, p \o <<>>) /\ Good(e, d, p \o <<>>)
  BY <1>1, <1>4, <1>5, TailIsGood
<1>7. CASE CheckDeadline(c) = Then(c, <<>>)
  BY <1>6, <1>7 DEF Then
<1>8. CASE CheckDeadline(c) = Then(d, <<>>)
  BY <1>6, <1>8 DEF Then
<1> QED BY <1>3, <1>7, <1>8

LEMMA CheckReadyIsGood ==
  ASSUME NEW e \in Events, NEW c, NEW p, Good(e, c, p)
  PROVE  Good(e, CheckReady(c).client, p \o CheckReady(c).packets)
<1>1. c \in Clients /\ c.key \in Nat /\ p \in Seq(Packets) /\ Keyed(p, c.key)
  BY DEF Good, Clients
<1>2. CASE ~(c.need /\ ~c.sentReady /\ c.defs = {"itemdef", "nodedef"})
  <2>1. CheckReady(c) = Then(c, <<>>)
    BY <1>2 DEF CheckReady, Stay
  <2>2. <<>> \in Seq({Chat("tp"), Chat("follow"), Bye}) /\ ~Has(<<>>, Chats)
    BY DEF Has
  <2>3. Good(e, c, p \o <<>>)
    BY <1>1, <2>2, TailIsGood
  <2> QED BY <2>1, <2>3 DEF Then
<1>3. CASE c.need /\ ~c.sentReady /\ c.defs = {"itemdef", "nodedef"}
  <2>1. PICK d : d = [c EXCEPT !.sentReady = TRUE]
    OBVIOUS
  <2>2. CheckReady(c) = Then(d, <<Ready>>)
    BY <1>3, <2>1 DEF CheckReady
  <2>3. /\ d \in Clients /\ d.key = c.key /\ d.need = c.need /\ d.ready = c.ready
        /\ d.sentReady /\ d.defs = c.defs
    BY <1>1, <2>1 DEF Clients
  <2>4. Ready \in Packets /\ Ready.type = "ready" /\ Ready.key = 0
    BY DEF Ready, Packet, Packets, Types
  <2> DEFINE q == <<Ready>>
  <2>5. /\ q \in Seq(Packets) /\ Keyed(q, c.key)
        /\ Has(q, Of("ready")) /\ ~Has(q, Of("init2")) /\ ~Has(q, Chats) /\ ~Has(q, Of("command"))
        /\ Preceded(q, Chats, Of("ready"))
    BY <2>4, OnePacket DEF Of, Chats
  <2> HIDE DEF q
  <2>6. p \o q \in Seq(Packets) /\ \A T : Has(p \o q, T) <=> Has(p, T) \/ Has(q, T)
    BY <1>1, <2>5, HasConcat, ConcatProperties
  <2>7. Keyed(p \o q, d.key)
    <3>1. c.key <= c.key
      BY <1>1
    <3> QED BY <1>1, <2>3, <2>5, <3>1, KeyedConcat
  <2>8. client.need \/ Preceded(p \o q, Of("ready"), Of("init2"))
    <3>1. ~client.need => Has(p, Of("init2")) /\ Preceded(p, Of("ready"), Of("init2"))
      BY <1>3 DEF Good
    <3> QED BY <1>1, <2>5, <3>1, PrecededConcat
  <2>9. client.sentReady \/ Preceded(p \o q, Chats, Of("ready"))
    <3>1. ~client.sentReady => Preceded(p, Chats, Of("ready"))
      BY DEF Good
    <3> QED BY <1>1, <2>5, <3>1, PrecededConcat
  <2>10. Good(e, d, p \o q)
    BY <1>3, <2>3, <2>5, <2>6, <2>7, <2>8, <2>9 DEF Good, Definitions
  <2> QED BY <2>2, <2>10 DEF Then, q
<1> QED BY <1>2, <1>3

LEMMA CommandIsGood ==
  ASSUME templates \subseteq {"tp", "follow"}, NEW e \in Events, NEW c, NEW p, Good(e, c, p)
  PROVE  Good(e, CommandStep(c).client, p \o CommandStep(c).packets)
<1> DEFINE S == {Chat("tp"), Chat("follow"), Bye}
<1>1. c \in Clients
  BY DEF Good
<1>2. CASE ~(mode = "followcmd" /\ c.ready /\ c.sentReady /\ c.target)
  <2>1. CommandStep(c) = Then(c, <<>>)
    BY <1>2 DEF CommandStep, Stay
  <2>2. <<>> \in Seq(S) /\ ~Has(<<>>, Chats)
    BY DEF Has
  <2>3. Good(e, c, p \o <<>>)
    BY <1>1, <2>2, TailIsGood
  <2> QED BY <2>1, <2>3 DEF Then
<1>3. CASE mode = "followcmd" /\ c.ready /\ c.sentReady /\ c.target
  <2> DEFINE tp == "tp" \in templates /\ "tp" \notin c.did
             follow == "follow" \in templates /\ "follow" \notin c.did
             did == c.did \cup templates
             over == did = {"tp", "follow"}
             d == [c EXCEPT !.did = did, !.phase = IF over THEN "done" ELSE @]
             q == (IF tp THEN <<Chat("tp")>> ELSE <<>>)
                  \o (IF follow THEN <<Chat("follow")>> ELSE <<>>)
                  \o (IF over THEN <<Bye>> ELSE <<>>)
  <2>1. CommandStep(c) = Then(d, q)
    BY <1>3 DEF CommandStep
  <2>2. q \in Seq(S)
    <3> HIDE DEF tp, follow, over
    <3>1. <<>> \in Seq(S) /\ \A x \in S : <<x>> \in Seq(S)
      BY OnePacket
    <3>2. Chat("tp") \in S /\ Chat("follow") \in S /\ Bye \in S
      OBVIOUS
    <3> HIDE DEF S
    <3>3. (IF tp THEN <<Chat("tp")>> ELSE <<>>) \in Seq(S)
      BY <3>1, <3>2
    <3>4. (IF follow THEN <<Chat("follow")>> ELSE <<>>) \in Seq(S)
      BY <3>1, <3>2
    <3>5. (IF over THEN <<Bye>> ELSE <<>>) \in Seq(S)
      BY <3>1, <3>2
    <3> QED BY <3>3, <3>4, <3>5, ConcatProperties
  <2>3. /\ d \in Clients /\ d.key = c.key /\ d.need = c.need /\ d.ready = c.ready
        /\ d.sentReady = c.sentReady /\ d.defs = c.defs
    <3>1. did \in SUBSET {"tp", "follow", "moved"}
      BY <1>1 DEF Clients
    <3> HIDE DEF did, over
    <3> QED BY <1>1, <3>1 DEF Clients
  <2> HIDE DEF q, d
  <2>4. Good(e, d, p \o q)
    BY <1>3, <2>2, <2>3, TailIsGood
  <2> QED BY <2>1, <2>4 DEF Then
<1> QED BY <1>2, <1>3

LEMMA PeriodicIsGood ==
  ASSUME NEW e \in Events, NEW c, NEW p, Good(e, c, p)
  PROVE  Good(e, Periodic(c).client, p \o Periodic(c).packets)
<1>1. c \in Clients
  BY DEF Good
<1>2. PICK d \in Clients, q \in {<<>>, <<Bye>>} :
        /\ Periodic(c) = Then(d, q)
        /\ d.key = c.key /\ d.need = c.need /\ d.ready = c.ready
        /\ d.sentReady = c.sentReady /\ d.defs = c.defs
  <2>1. PICK o : o = [c EXCEPT !.phase = "done"]
    OBVIOUS
  <2>2. /\ o \in Clients /\ o.key = c.key /\ o.need = c.need /\ o.ready = c.ready
        /\ o.sentReady = c.sentReady /\ o.defs = c.defs
    BY <1>1, <2>1 DEF Clients
  <2>3. PICK m : m = [c EXCEPT !.did = @ \cup {"moved"}]
    OBVIOUS
  <2>4. /\ m \in Clients /\ m.key = c.key /\ m.need = c.need /\ m.ready = c.ready
        /\ m.sentReady = c.sentReady /\ m.defs = c.defs
    BY <1>1, <2>3 DEF Clients
  <2>5. [c EXCEPT !.did = @ \cup {}] = c
    BY <1>1 DEF Clients
  <2>6. Periodic(c) \in {Then(c, <<>>), Then(o, <<Bye>>), Then(m, <<>>)}
    BY <2>1, <2>3, <2>5 DEF Periodic, MoveStep, FollowStep, Stay
  <2> QED BY <1>1, <2>2, <2>4, <2>6
<1>3. q \in Seq({Chat("tp"), Chat("follow"), Bye}) /\ ~Has(q, Chats)
  <2>1. CASE q = <<>>
    BY <2>1 DEF Has
  <2>2. CASE q = <<Bye>>
    <3>1. Bye \notin Chats
      BY DEF Bye, Packet, Chats
    <3>2. Bye \in {Chat("tp"), Chat("follow"), Bye}
      OBVIOUS
    <3> QED BY <2>2, <3>1, <3>2, OnePacket
  <2> QED BY <1>2, <2>1, <2>2
<1>4. Good(e, d, p \o q)
  BY <1>2, <1>3, TailIsGood
<1> QED BY <1>2, <1>4 DEF Then

\* The whole iteration.
LEMMA IterationIsGood ==
  ASSUME ClientPart, mode \in AllModes, templates \subseteq {"tp", "follow"}, NEW e \in Events, NEW due,
         NEW r \in Iteration(e, due)
  PROVE  Good(e, r.client, r.packets)
<1> DEFINE IsGood(x) == Good(e, x.client, x.packets)
<1>1. ASSUME NEW x, IsGood(x), NEW step, Good(e, step.client, x.packets \o step.packets)
      PROVE  IsGood(Follow(x, step))
  <2>1. CASE Follow(x, step) = x
    BY <1>1, <2>1
  <2>2. CASE Follow(x, step) = Then(step.client, x.packets \o step.packets)
    <3>1. PICK c, p : c = step.client /\ p = x.packets \o step.packets
      OBVIOUS
    <3>2. Follow(x, step) = [client |-> c, packets |-> p]
      BY <2>2, <3>1 DEF Then
    <3>3. Follow(x, step).client = c /\ Follow(x, step).packets = p
      BY <3>2
    <3> QED BY <1>1, <3>1, <3>3
  <2> QED BY <2>1, <2>2 DEF Follow
<1>2. ASSUME NEW x, IsGood(x)
      PROVE  /\ IsGood(Follow(x, CheckDeadline(x.client)))
             /\ IsGood(Follow(x, CheckReady(x.client)))
             /\ IsGood(Follow(x, CommandStep(x.client)))
             /\ IsGood(Follow(x, IF due THEN Periodic(x.client) ELSE Stay(x.client)))
  <2>1. /\ Good(e, CheckDeadline(x.client).client, x.packets \o CheckDeadline(x.client).packets)
        /\ Good(e, CheckReady(x.client).client, x.packets \o CheckReady(x.client).packets)
        /\ Good(e, CommandStep(x.client).client, x.packets \o CommandStep(x.client).packets)
        /\ Good(e, Periodic(x.client).client, x.packets \o Periodic(x.client).packets)
    BY <1>2, DeadlineIsGood, CheckReadyIsGood, CommandIsGood, PeriodicIsGood
  <2>2. Good(e, Stay(x.client).client, x.packets \o Stay(x.client).packets)
    <3>1. x.packets \o <<>> = x.packets
      BY <1>2, ConcatEmptySeq DEF Good
    <3> QED BY <1>2, <3>1 DEF Stay, Then
  <2> HIDE DEF IsGood
  <2>3. IsGood(Follow(x, CheckDeadline(x.client)))
    BY <1>1, <1>2, <2>1
  <2>4. IsGood(Follow(x, CheckReady(x.client)))
    BY <1>1, <1>2, <2>1
  <2>5. IsGood(Follow(x, CommandStep(x.client)))
    BY <1>1, <1>2, <2>1
  <2>6. IsGood(Follow(x, IF due THEN Periodic(x.client) ELSE Stay(x.client)))
    BY <1>1, <1>2, <2>1, <2>2
  <2> QED BY <2>3, <2>4, <2>5, <2>6
<1>3. IsGood(React(client, e))
  BY ReactIsGood
<1> HIDE DEF IsGood
<1>4. PICK a, b, s, d :
        /\ a = React(client, e)
        /\ b = Follow(a, CheckDeadline(a.client))
        /\ s = Follow(b, CheckReady(b.client))
        /\ d = Follow(s, CommandStep(s.client))
        /\ r = Follow(d, IF due THEN Periodic(d.client) ELSE Stay(d.client))
  BY DEF Iteration
<1>5. IsGood(a) /\ IsGood(b)
  BY <1>2, <1>3, <1>4
<1>6. IsGood(s) /\ IsGood(d)
  BY <1>2, <1>4, <1>5
<1>7. IsGood(r)
  BY <1>2, <1>4, <1>6
<1> QED BY <1>7 DEF IsGood

-----------------------------------------------------------------------------
(* The steps of the client *)

\* A loop handles an event, of which `inbox' and `repeats' account for Hello.
LEMMA LoopKeeps ==
  ASSUME IInv, NEW e \in Events, NEW due, Loop(e, due),
         inbox' \subseteq inbox, repeats' \in 0..MaxRepeats,
         hellos' + (IF "hello" \in inbox' THEN 1 ELSE 0) <= repeats' + 1,
         e \in {"hello", "accept"} => e \in inbox,
         e \in Definitions => Split!Whole(e) \in assembled',
         assembled \subseteq assembled'
  PROVE  Rest'
<1>1. ClientPart /\ mode \in AllModes /\ templates \subseteq {"tp", "follow"}
  BY SessionAssumption DEF IInv, Rest, TypePart, OrderPart, WorldPart, ClientPart, Definitions
<1>2. PICK r \in Iteration(e, due) : client' = r.client /\ Send(r.packets)
  BY DEF Loop
<1> DEFINE p == r.packets
<1>3. Good(e, client', p)
  BY <1>1, <1>2, IterationIsGood
<1>4. /\ UNCHANGED <<elapsed, mode, templates, mechanism, wrong, server, bound, early, heard, stalled>>
      /\ hellos' = IF e = "hello" THEN hellos + 1 ELSE hellos
  BY DEF Loop, inputVars, serverVars
<1>5. toServer \in Seq(Packets) /\ Keyed(toServer, client.key) /\ client.key \in Nat /\ client \in Clients
  BY DEF IInv, Rest, TypePart, Clients
<1>6. p \in Seq(Packets) /\ Keyed(p, client'.key) /\ client' \in Clients /\ client'.key \in Nat
      /\ client.key <= client'.key
  BY <1>3, <1>5 DEF Good, Clients
<1>7. /\ toServer' \in Seq(Packets)
      /\ \A S \in Sets : Has(toServer', S) => Has(toServer, S) \/ Has(p, S)
      /\ \A S \in Sets : Has(toServer, S) => Has(toServer', S)
      /\ \A S \in Sets : ~stalled /\ Has(p, S) => Has(toServer', S)
      /\ \A T, S \in Sets :
           Preceded(toServer, T, S) /\ (stalled \/ Has(toServer, S) \/ Preceded(p, T, S))
             => Preceded(toServer', T, S)
      /\ Keyed(toServer', client'.key)
  BY <1>2, <1>5, <1>6, SendEffects
<1> HIDE DEF p
<1>8. /\ Of("init2") \in Sets /\ Of("ready") \in Sets /\ Of("command") \in Sets /\ Chats \in Sets
      /\ FirstKey \in Sets /\ LaterKeys \in Sets
  BY Kinds DEF Types
<1>9. TypePart'
  <2>1. disco' \in BOOLEAN
    BY <1>2 DEF IInv, Rest, TypePart, Send
  <2>2. hellos' \in 0..MaxRepeats + 1
    <3>1. hellos \in Nat /\ hellos' \in Nat
      BY <1>4, SessionAssumption DEF IInv, Rest, TypePart
    <3>2. MaxRepeats \in Nat
      BY SessionAssumption
    <3>3. PICK h, m, n : /\ h = hellos' /\ m = repeats'
                         /\ n = IF "hello" \in inbox' THEN 1 ELSE 0
      OBVIOUS
    <3>4. h \in Nat /\ n \in Nat /\ m \in 0..MaxRepeats /\ h + n <= m + 1
      BY <3>1, <3>3
    <3>5. h \in 0..MaxRepeats + 1
      BY ONLY <3>2, <3>4
    <3> QED BY <3>3, <3>5
  <2>3. inbox' \subseteq Small
    BY DEF IInv, Rest, TypePart
  <2> QED BY <1>4, <1>6, <1>7, <2>1, <2>2, <2>3 DEF IInv, Rest, TypePart
<1>10. HelloPart'
  <2>1. server' \in {"none", "peer"} => hellos' = 0 /\ "hello" \notin inbox'
    BY <1>4 DEF IInv, Rest, HelloPart
  <2>2. client'.key <= hellos'
    <3>1. client.key <= hellos /\ hellos \in Nat
      BY SessionAssumption DEF IInv, Rest, HelloPart, TypePart
    <3>2. client'.key = client.key \/ (e = "hello" /\ client'.key = client.key + 1)
      BY <1>3 DEF Good
    <3> QED BY <1>4, <1>5, <3>1, <3>2
  <2> QED BY <2>1, <2>2 DEF HelloPart
<1>11. KeyPart'
  <2>1. server = "challenged" => bound = 1
    BY DEF IInv, Rest, KeyPart
  <2>2. ASSUME server \in Before PROVE Preceded(toServer', LaterKeys, FirstKey)
    <3>1. Preceded(toServer, LaterKeys, FirstKey)
      BY <2>2 DEF IInv, Rest, KeyPart
    <3>2. CASE stalled \/ client.key > 0
      BY <1>7, <1>8, <2>2, <3>1, <3>2 DEF IInv, Rest, KeyPart
    <3>3. CASE client.key = 0
      <4>1. client'.key \in 0..1
        BY <1>3, <3>3 DEF Good
      <4>2. ~Has(p, LaterKeys)
        BY <1>6, <4>1 DEF Has, Keyed, LaterKeys
      <4>3. Preceded(p, LaterKeys, FirstKey)
        BY <1>6, <4>2, Elements
      <4> QED BY <1>7, <1>8, <3>1, <4>3
    <3> QED BY <1>5, <3>2, <3>3
  <2>3. ASSUME server \in Before, ~stalled, client'.key > 0 PROVE Has(toServer', FirstKey)
    <3>1. CASE client.key > 0
      BY <1>7, <1>8, <2>3, <3>1 DEF IInv, Rest, KeyPart
    <3>2. CASE client.key = 0
      <4>1. Has(p, {Packet("srp_a", client'.key)}) /\ client'.key = 1
        BY <1>3, <2>3, <3>2 DEF Good
      <4>2. Has(p, FirstKey)
        BY <4>1 DEF FirstKey
      <4> QED BY <1>7, <1>8, <2>3, <4>2
    <3> QED BY <1>5, <3>1, <3>2
  <2> QED BY <1>4, <2>1, <2>2, <2>3 DEF KeyPart
<1>12. OrderPart'
  <2>1. client'.sentReady \/ client'.ready => client'.need
    BY <1>3 DEF Good
  <2>2. "accept" \in inbox' \/ client'.need => server \in After
    BY <1>3 DEF IInv, Rest, OrderPart, Good
  <2>3. Has(toServer', Of("init2")) \/ Has(toServer', Of("ready")) \/ Has(toServer', Chats) => server \in After
    <3>1. Has(p, Of("init2")) \/ Has(p, Of("ready")) \/ Has(p, Chats) => e = "accept" \/ client.need
      BY <1>3 DEF Good
    <3> QED BY <1>7, <1>8, <3>1 DEF IInv, Rest, OrderPart
  <2>4. server = "accepted" => Preceded(toServer', Of("ready"), Of("init2"))
    <3>1. client.need \/ Preceded(p, Of("ready"), Of("init2"))
      BY <1>3 DEF Good
    <3> QED BY <1>7, <1>8, <3>1 DEF IInv, Rest, OrderPart
  <2>5. server \in {"accepted", "defs"} /\ mode # "join" => Preceded(toServer', Chats, Of("ready"))
    <3>1. client.sentReady \/ Preceded(p, Chats, Of("ready"))
      BY <1>3 DEF Good
    <3> QED BY <1>7, <1>8, <3>1 DEF IInv, Rest, OrderPart
  <2>6. server = "accepted" /\ client'.need /\ ~stalled => Has(toServer', Of("init2"))
    <3>1. client'.need => client.need \/ Has(p, Of("init2"))
      BY <1>3 DEF Good
    <3> QED BY <1>7, <1>8, <3>1 DEF IInv, Rest, OrderPart
  <2>7. server \in {"accepted", "defs"} /\ client'.sentReady /\ ~stalled => Has(toServer', Of("ready"))
    <3>1. client'.sentReady => client.sentReady \/ Has(p, Of("ready"))
      BY <1>3 DEF Good
    <3> QED BY <1>7, <1>8, <3>1 DEF IInv, Rest, OrderPart
  <2>8. Has(toServer', Of("command")) => mode = "join"
    <3>1. ~Has(p, Of("command"))
      BY <1>3 DEF Good
    <3> QED BY <1>7, <1>8, <3>1 DEF IInv, Rest, OrderPart
  <2> QED BY <1>4, <2>1, <2>2, <2>3, <2>4, <2>5, <2>6, <2>7, <2>8 DEF OrderPart
<1>13. WorldPart'
  <2>1. \A d \in client'.defs : Split!Whole(d) \in assembled'
    <3> SUFFICES ASSUME NEW d \in client'.defs PROVE Split!Whole(d) \in assembled'
      OBVIOUS
    <3>1. d \in client.defs \/ d = e
      BY <1>3 DEF Good
    <3>2. d \in Definitions
      BY <1>6 DEF Clients, Definitions
    <3>3. CASE d \in client.defs
      BY <3>3 DEF IInv, Rest, WorldPart
    <3> QED BY <3>1, <3>2, <3>3
  <2>2. client'.sentReady => client'.defs = {"itemdef", "nodedef"}
    BY <1>3 DEF Good, Definitions
  <2>3. mode \notin {"login", "chat"} /\ (Has(toServer', Of("ready")) \/ server = "active") => client'.sentReady
    <3>1. Has(p, Of("ready")) => client'.sentReady \/ mode \in {"login", "chat"}
      BY <1>3 DEF Good
    <3>2. client.sentReady => client'.sentReady
      BY <1>3 DEF Good
    <3> QED BY <1>7, <1>8, <3>1, <3>2 DEF IInv, Rest, WorldPart
  <2>4. UNCHANGED <<mode, server>>
    BY <1>4
  <2> DEFINE W(d) == Split!Whole(d)
  <2>5. \A d \in client'.defs : (Split!Whole(d))' = Split!Whole(d)
    BY DEF Split!Whole
  <2> QED BY <2>1, <2>2, <2>3, <2>4, <2>5 DEF WorldPart
<1>14. CausePart'
  <2>1. hellos \in Nat
    BY SessionAssumption DEF IInv, Rest, TypePart
  <2> QED BY <1>4, <2>1 DEF IInv, Rest, CausePart
<1> QED BY <1>9, <1>10, <1>11, <1>12, <1>13, <1>14 DEF Rest

LEMMA WholeIsNotEmpty == \A m \in Large : Split!Whole(m) # <<>>
<1> SUFFICES ASSUME NEW m \in Large PROVE Split!Whole(m) # <<>>
  OBVIOUS
<1>1. Split!Whole(m) = [i \in 1..CountOf(m) |-> m] /\ CountOf(m) \in Nat \ {0}
  BY Codes
<1>2. DOMAIN Split!Whole(m) = 1..CountOf(m) /\ 1 \in 1..CountOf(m)
  BY <1>1
<1>3. DOMAIN <<>> = {}
  OBVIOUS
<1> QED BY <1>2, <1>3

LEMMA ReceiveKeeps ==
  ASSUME IInv, NEW e \in inbox, Receive(e)
  PROVE  IInv'
<1>1. /\ Loop(e, FALSE) /\ UNCHANGED splitVars
      /\ \/ inbox' = inbox \ {e} /\ UNCHANGED repeats
         \/ repeats < MaxRepeats /\ repeats' = repeats + 1 /\ UNCHANGED inbox
  BY DEF Receive
<1>2. /\ inbox \subseteq Small /\ repeats \in 0..MaxRepeats /\ hellos \in Nat /\ MaxRepeats \in Nat
      /\ hellos + (IF "hello" \in inbox THEN 1 ELSE 0) <= repeats + 1
  BY SessionAssumption DEF IInv, Rest, TypePart, HelloPart
<1>3. inbox' \subseteq inbox /\ repeats' \in 0..MaxRepeats
  BY <1>1, <1>2
<1>4. hellos' + (IF "hello" \in inbox' THEN 1 ELSE 0) <= repeats' + 1
  <2>1. hellos' = IF e = "hello" THEN hellos + 1 ELSE hellos
    BY <1>1 DEF Loop
  <2>2. CASE inbox' = inbox \ {e} /\ UNCHANGED repeats
    BY <1>2, <2>1, <2>2
  <2>3. CASE repeats' = repeats + 1 /\ UNCHANGED inbox
    BY <1>2, <2>1, <2>3
  <2> QED BY <1>1, <2>2, <2>3
<1>5. e \in Events /\ e \notin Definitions
  BY <1>2 DEF Events, Definitions, Small
<1>6. assembled' = assembled
  BY <1>1 DEF splitVars
<1>7. Rest'
  BY <1>1, <1>3, <1>4, <1>5, <1>6, LoopKeeps
<1>8. SplitPart'
  BY <1>1, SplitStutters DEF IInv
<1> QED BY <1>7, <1>8 DEF IInv

LEMMA ReceiveNothingKeeps ==
  ASSUME IInv, ReceiveNothing
  PROVE  IInv'
<1>1. Loop("nothing", TRUE) /\ UNCHANGED <<inbox, repeats, splitVars>>
  BY DEF ReceiveNothing
<1>2. /\ repeats \in 0..MaxRepeats /\ hellos' = hellos
      /\ hellos + (IF "hello" \in inbox THEN 1 ELSE 0) <= repeats + 1
  BY <1>1 DEF IInv, Rest, TypePart, HelloPart, Loop
<1>3. assembled' = assembled
  BY <1>1 DEF splitVars
<1>4. Rest'
  BY <1>1, <1>2, <1>3, LoopKeeps DEF Events, Definitions
<1>5. SplitPart'
  BY <1>1, SplitStutters DEF IInv
<1> QED BY <1>4, <1>5 DEF IInv

LEMMA ReceiveChunkKeeps ==
  ASSUME IInv, NEW chunk \in wire, ReceiveChunk(chunk)
  PROVE  IInv'
<1> DEFINE m == chunk.message
           e == IF Split!Result(chunk) = Split!Whole(m) THEN m ELSE "nothing"
<1>1. /\ Split!Deliver(chunk) /\ Loop(e, FALSE) /\ inbox' = inbox
      /\ repeats' = (IF chunk \in wire' THEN repeats + 1 ELSE repeats) /\ repeats' <= MaxRepeats
  BY DEF ReceiveChunk
<1>2. SplitPart /\ m \in Large
  <2>1. SplitPart
    BY DEF IInv
  <2> QED BY <2>1, ChunkOf DEF SplitPart
<1>3. /\ assembled \subseteq assembled'
      /\ Split!Result(chunk) = Split!Whole(m) => Split!Whole(m) \in assembled'
  <2> DEFINE whole == \A i \in 1..CountOf(m) : Filled(chunk).chunks[i] = m
  <2>1. /\ assembled' = assembled \cup (IF whole THEN {Split!Whole(m)} ELSE {})
        /\ Split!Result(chunk) = IF whole THEN Split!Whole(m) ELSE <<>>
    BY <1>1, <1>2, DeliverDoes
  <2> HIDE DEF whole
  <2>2. Split!Whole(m) # <<>>
    BY <1>2, WholeIsNotEmpty
  <2> HIDE DEF m
  <2> QED BY <2>1, <2>2
<1>4. /\ e \in Large \cup {"nothing"}
      /\ e \in Large => Split!Whole(e) \in assembled'
  <2>1. "nothing" \notin Large
    BY DEF Large
  <2> HIDE DEF m
  <2> QED BY <1>2, <1>3, <2>1
<1> HIDE DEF e, m
<1>5. e \in Events /\ e \notin {"hello", "accept"} /\ (e \in Definitions => e \in Large)
  BY <1>4 DEF Events, Large, Definitions
<1>6. /\ repeats \in 0..MaxRepeats /\ hellos' = hellos /\ hellos \in Nat /\ MaxRepeats \in Nat
      /\ hellos + (IF "hello" \in inbox THEN 1 ELSE 0) <= repeats + 1
  BY <1>1, <1>5, SessionAssumption DEF IInv, Rest, TypePart, HelloPart, Loop
<1>7. repeats' \in 0..MaxRepeats /\ hellos' + (IF "hello" \in inbox' THEN 1 ELSE 0) <= repeats' + 1
  <2>1. CASE repeats' = repeats
    BY <1>1, <1>6, <2>1
  <2>2. CASE repeats' = repeats + 1
    BY <1>1, <1>6, <2>2
  <2> QED BY <1>1, <2>1, <2>2
<1>8. Rest'
  BY <1>1, <1>3, <1>4, <1>5, <1>7, LoopKeeps
<1>9. SplitPart'
  BY <1>1, <1>2, DeliverKeeps
<1> QED BY <1>8, <1>9 DEF IInv

\* The frame: what these parts do not speak of may change.
LEMMA Frame ==
  ASSUME Rest,
         UNCHANGED <<mode, templates, mechanism, wrong, server, bound, early, heard, toServer,
                     stalled, inbox, repeats, hellos>>,
         client' \in Clients, client'.key = client.key, client'.need = client.need,
         client'.ready = client.ready, client'.sentReady = client.sentReady,
         client'.defs = client.defs,
         elapsed' \subseteq {"deadline", "seconds"}, disco' \in BOOLEAN, assembled' = assembled
  PROVE  Rest'
<1>1. TypePart'
  BY DEF Rest, TypePart
<1>2. HelloPart'
  BY DEF Rest, HelloPart
<1>3. KeyPart'
  BY DEF Rest, KeyPart
<1>4. OrderPart'
  BY DEF Rest, OrderPart
<1>5. WorldPart'
  BY DEF Rest, WorldPart, Split!Whole
<1>6. CausePart'
  BY DEF Rest, CausePart
<1> QED BY <1>1, <1>2, <1>3, <1>4, <1>5, <1>6 DEF Rest

LEMMA OutOfTimeKeeps ==
  ASSUME IInv, OutOfTime
  PROVE  IInv'
<1>1. /\ client' = [client EXCEPT !.phase = IF mode \in {"observe", "trace"} THEN "done" ELSE "timeout"]
      /\ disco' \in BOOLEAN
      /\ UNCHANGED <<elapsed, hellos, inputVars, serverVars, toServer, stalled, inbox, repeats, splitVars>>
  BY DEF OutOfTime
<1>2. client \in Clients /\ elapsed \subseteq {"deadline", "seconds"}
  BY DEF IInv, Rest, TypePart
<1>3. /\ client' \in Clients /\ client'.key = client.key /\ client'.need = client.need
      /\ client'.ready = client.ready /\ client'.sentReady = client.sentReady
      /\ client'.defs = client.defs
  BY <1>1, <1>2 DEF Clients
<1>4. Rest'
  BY <1>1, <1>2, <1>3, Frame DEF IInv, inputVars, serverVars, splitVars
<1>5. SplitPart'
  BY <1>1, SplitStutters DEF IInv
<1> QED BY <1>4, <1>5 DEF IInv

LEMMA ElapseKeeps ==
  ASSUME IInv, NEW t \in {"deadline", "seconds"}, Elapse(t)
  PROVE  IInv'
<1>1. /\ elapsed' = elapsed \cup {t}
      /\ UNCHANGED <<client, hellos, inputVars, serverVars, networkVars, splitVars>>
  BY DEF Elapse
<1>2. Rest'
  BY <1>1, Frame DEF IInv, Rest, TypePart, inputVars, serverVars, networkVars, splitVars
<1>3. SplitPart'
  BY <1>1, SplitStutters DEF IInv
<1> QED BY <1>2, <1>3 DEF IInv

LEMMA IdleBufferKeeps ==
  ASSUME IInv, NEW k \in Split!Keys, IdleBuffer(k)
  PROVE  IInv'
<1>1. /\ Split!Idle(k)
      /\ UNCHANGED <<client, elapsed, hellos, inputVars, serverVars, networkVars>>
  BY DEF IdleBuffer
<1>2. assembled' = assembled
  BY <1>1 DEF Split!Idle
<1>3. Rest'
  BY <1>1, <1>2, Frame DEF IInv, Rest, TypePart, inputVars, serverVars, networkVars
<1>4. SplitPart'
  BY <1>1, IdleKeeps DEF IInv
<1> QED BY <1>3, <1>4 DEF IInv

LEMMA ServerBlockKeeps ==
  ASSUME IInv, ServerBlock
  PROVE  IInv'
<1>1. /\ Split!SendLarge({"block"})
      /\ UNCHANGED <<client, elapsed, hellos, inputVars, serverVars, networkVars>>
  BY DEF ServerBlock
<1>2. assembled' = assembled
  BY <1>1 DEF Split!SendLarge
<1>3. Rest'
  BY <1>1, <1>2, Frame DEF IInv, Rest, TypePart, inputVars, serverVars, networkVars
<1>4. SplitPart'
  BY <1>1, SendKeeps DEF IInv, Large
<1> QED BY <1>3, <1>4 DEF IInv

\* A command of join_bot only adds its packet.
LEMMA ApiCommandKeeps ==
  ASSUME IInv, ApiCommand
  PROVE  IInv'
<1>1. /\ mode = "join" /\ Send(<<Chat("command")>>)
      /\ UNCHANGED <<client, elapsed, hellos, inputVars, serverVars, stalled, inbox, repeats, splitVars>>
  BY DEF ApiCommand
<1> DEFINE p == <<Chat("command")>>
<1>2. Chat("command") \in Packets /\ Chat("command").type = "command" /\ Chat("command").key = 0
  BY DEF Chat, Packet, Packets, Types
<1>3. /\ p \in Seq(Packets) /\ Keyed(p, client.key)
      /\ \A T : Has(p, T) <=> Chat("command") \in T
      /\ \A T, S : Chat("command") \notin T => Preceded(p, T, S)
  BY <1>2, OnePacket
<1>4. /\ Chat("command") \notin Of("init2") /\ Chat("command") \notin Of("ready")
      /\ Chat("command") \notin Chats /\ Chat("command") \notin LaterKeys
  BY <1>2 DEF Of, Chats, LaterKeys
<1>5. toServer \in Seq(Packets) /\ Keyed(toServer, client.key) /\ client.key \in Nat
  BY DEF IInv, Rest, TypePart, Clients
<1> HIDE DEF p
<1>6. Send(p)
  BY <1>1 DEF p
<1>7. client.key <= client.key
  BY <1>5
<1>8. /\ toServer' \in Seq(Packets) /\ Keyed(toServer', client.key)
      /\ \A S \in Sets : Has(toServer', S) => Has(toServer, S) \/ Has(p, S)
      /\ \A S \in Sets : Has(toServer, S) => Has(toServer', S)
      /\ \A T, S \in Sets : Preceded(toServer, T, S) /\ Chat("command") \notin T => Preceded(toServer', T, S)
  BY <1>3, <1>5, <1>6, <1>7, SendEffects
<1>9. /\ Of("init2") \in Sets /\ Of("ready") \in Sets /\ Of("command") \in Sets /\ Chats \in Sets
      /\ FirstKey \in Sets /\ LaterKeys \in Sets
  BY Kinds DEF Types
<1>10. UNCHANGED <<client, elapsed, hellos, mode, templates, mechanism, wrong, server, bound, early,
                   heard, stalled, inbox, repeats, assembled>>
  BY <1>1 DEF inputVars, serverVars, splitVars
<1>11. TypePart'
  BY <1>1, <1>8, <1>10 DEF IInv, Rest, TypePart, Send
<1>12. HelloPart'
  BY <1>10 DEF IInv, Rest, HelloPart
<1>13. KeyPart'
  BY <1>4, <1>8, <1>9, <1>10 DEF IInv, Rest, KeyPart
<1>14. OrderPart'
  <2>1. Has(toServer', Of("init2")) \/ Has(toServer', Of("ready")) \/ Has(toServer', Chats) =>
          server \in After
    BY <1>3, <1>4, <1>8, <1>9 DEF IInv, Rest, OrderPart
  <2>2. server = "accepted" => Preceded(toServer', Of("ready"), Of("init2"))
    BY <1>4, <1>8, <1>9 DEF IInv, Rest, OrderPart
  <2> QED BY <1>1, <1>8, <1>9, <1>10, <2>1, <2>2 DEF IInv, Rest, OrderPart
<1>15. WorldPart'
  <2>1. Has(toServer', Of("ready")) => Has(toServer, Of("ready"))
    BY <1>3, <1>4, <1>8, <1>9
  <2> QED BY <1>10, <2>1 DEF IInv, Rest, WorldPart, Split!Whole
<1>16. CausePart'
  BY <1>10 DEF IInv, Rest, CausePart
<1>17. SplitPart'
  BY <1>1, SplitStutters DEF IInv
<1> QED BY <1>11, <1>12, <1>13, <1>14, <1>15, <1>16, <1>17 DEF IInv, Rest

-----------------------------------------------------------------------------
(* The steps of the network and of the server *)

LEMMA LoseKeeps ==
  ASSUME IInv, Lose
  PROVE  IInv'
<1>1. PICK i \in DOMAIN toServer : toServer' = SubSeq(toServer, 1, i - 1)
  BY DEF Lose
<1>2. /\ stalled'
      /\ UNCHANGED <<client, elapsed, hellos, mode, templates, mechanism, wrong, server, bound, early,
                     heard, disco, inbox, repeats, assembled, splitVars>>
  BY DEF Lose, inputVars, serverVars, splitVars
<1>3. toServer \in Seq(Packets) /\ Keyed(toServer, client.key)
  BY DEF IInv, Rest, TypePart
<1>4. i - 1 \in 0..Len(toServer)
  BY <1>3, LenProperties
<1>5. /\ toServer' \in Seq(Packets) /\ Keyed(toServer', client.key)
      /\ \A S : Has(toServer', S) => Has(toServer, S)
      /\ \A T, S : Preceded(toServer, T, S) => Preceded(toServer', T, S)
  BY <1>1, <1>3, <1>4, PrefixOf
<1>6. stalled' \in BOOLEAN /\ stalled' = TRUE
  BY DEF Lose
<1>7. TypePart'
  BY <1>2, <1>5, <1>6 DEF IInv, Rest, TypePart
<1>8. HelloPart'
  BY <1>2 DEF IInv, Rest, HelloPart
<1>9. KeyPart'
  BY <1>2, <1>5 DEF IInv, Rest, KeyPart
<1>10. OrderPart'
  BY <1>2, <1>5 DEF IInv, Rest, OrderPart
<1>11. WorldPart'
  BY <1>2, <1>5 DEF IInv, Rest, WorldPart, Split!Whole
<1>12. CausePart'
  BY <1>2 DEF IInv, Rest, CausePart
<1>13. SplitPart'
  BY <1>2, SplitStutters DEF IInv
<1> QED BY <1>7, <1>8, <1>9, <1>10, <1>11, <1>12, <1>13 DEF IInv, Rest

LEMMA ServerSayKeeps ==
  ASSUME IInv, ServerSay
  PROVE  IInv'
<1>1. /\ server = "active" /\ inbox' = inbox \cup {"say"}
      /\ UNCHANGED <<client, elapsed, hellos, mode, templates, mechanism, wrong, server, bound, early,
                     heard, toServer, stalled, disco, repeats, assembled, splitVars>>
  BY DEF ServerSay, Say, inputVars, serverVars, splitVars
<1>2. TypePart'
  BY <1>1 DEF IInv, Rest, TypePart, Small
<1>3. HelloPart'
  <2>1. "hello" \in inbox' <=> "hello" \in inbox
    BY <1>1
  <2> QED BY <1>1, <2>1 DEF IInv, Rest, HelloPart
<1>4. KeyPart'
  BY <1>1 DEF IInv, Rest, KeyPart
<1>5. OrderPart'
  <2>1. "accept" \in inbox' <=> "accept" \in inbox
    BY <1>1
  <2> QED BY <1>1, <2>1 DEF IInv, Rest, OrderPart
<1>6. WorldPart'
  BY <1>1 DEF IInv, Rest, WorldPart, Split!Whole
<1>7. CausePart'
  BY <1>1 DEF IInv, Rest, CausePart
<1>8. SplitPart'
  BY <1>1, SplitStutters DEF IInv
<1> QED BY <1>2, <1>3, <1>4, <1>5, <1>6, <1>7, <1>8 DEF IInv, Rest

LEMMA ServerDiscoKeeps ==
  ASSUME IInv, ServerDisco
  PROVE  IInv'
<1>1. /\ server' = "gone"
      /\ UNCHANGED <<client, elapsed, hellos, mode, templates, mechanism, wrong, bound, early, heard,
                     toServer, stalled, disco, inbox, repeats, assembled, splitVars>>
  BY DEF ServerDisco, inputVars, networkVars, splitVars
<1>2. TypePart'
  BY <1>1 DEF IInv, Rest, TypePart
<1>3. HelloPart'
  BY <1>1 DEF IInv, Rest, HelloPart
<1>4. KeyPart'
  BY <1>1 DEF KeyPart, Before
<1>5. OrderPart'
  <2>1. server' \in After /\ server' # "accepted" /\ server' # "defs"
    BY <1>1 DEF After
  <2> QED BY <1>1, <2>1 DEF IInv, Rest, OrderPart
<1>6. WorldPart'
  BY <1>1 DEF IInv, Rest, WorldPart, Split!Whole
<1>7. CausePart'
  BY <1>1 DEF IInv, Rest, CausePart
<1>8. SplitPart'
  BY <1>1, SplitStutters DEF IInv
<1> QED BY <1>2, <1>3, <1>4, <1>5, <1>6, <1>7, <1>8 DEF IInv, Rest

\* What every step that takes a packet does.
LEMMA TakeDoes ==
  ASSUME IInv, NEW type, NEW state, Take(type, state)
  PROVE  /\ server = state
         /\ UNCHANGED <<client, elapsed, hellos, mode, templates, mechanism, wrong, stalled, disco, repeats>>
         /\ Head(toServer) \in Packets /\ Head(toServer).type = type
         /\ toServer' \in Seq(Packets) /\ Keyed(toServer', client.key)
         /\ \A S : Head(toServer) \in S => Has(toServer, S)
         /\ \A T, S : Head(toServer) \in T => ~Preceded(toServer, T, S)
         /\ \A S : Has(toServer', S) => Has(toServer, S)
         /\ \A S : Has(toServer, S) /\ Head(toServer) \notin S => Has(toServer', S)
         /\ \A T, S : Preceded(toServer, T, S) /\ Head(toServer) \notin S => Preceded(toServer', T, S)
         /\ Head(toServer).key \in IF type \in {"srp_a", "srp_m"} THEN 1..client.key ELSE {0}
<1>1. toServer \in Seq(Packets) /\ Keyed(toServer, client.key)
  BY DEF IInv, Rest, TypePart
<1>2. /\ server = state
      /\ UNCHANGED <<client, elapsed, hellos, mode, templates, mechanism, wrong, stalled, disco, repeats>>
  BY DEF Take, inputVars
<1> QED BY <1>1, <1>2, TakeEffects

\* A packet is taken by a server that has not accepted the client.
LEMMA EarlyTake ==
  ASSUME IInv, NEW type, NEW state, Take(type, state), state \notin After,
         server' \in {"none", "peer", "hello", "challenged", "accepted", "denied"},
         server' \in Before => state \in Before /\ Head(toServer) \notin FirstKey,
         server' = "challenged" => bound' = 1,
         server' = "denied" => wrong \/ hellos > 1,
         bound' \in 0..1, inbox' \subseteq Small, "accept" \in inbox' => server' = "accepted",
         early' \in BOOLEAN, early' => mode = "join", heard' = heard,
         hellos + (IF "hello" \in inbox' THEN 1 ELSE 0) <= repeats + 1,
         server' \in {"none", "peer"} => hellos = 0 /\ "hello" \notin inbox',
         UNCHANGED splitVars
  PROVE  IInv'
<1>1. /\ server = state
      /\ UNCHANGED <<client, elapsed, hellos, mode, templates, mechanism, wrong, stalled, disco, repeats>>
      /\ toServer' \in Seq(Packets) /\ Keyed(toServer', client.key)
      /\ \A S : Has(toServer', S) => Has(toServer, S)
      /\ \A S : Has(toServer, S) /\ Head(toServer) \notin S => Has(toServer', S)
      /\ \A T, S : Preceded(toServer, T, S) /\ Head(toServer) \notin S => Preceded(toServer', T, S)
  BY TakeDoes
<1>2. /\ ~client.need /\ ~client.sentReady /\ ~client.ready
      /\ ~Has(toServer, Of("init2")) /\ ~Has(toServer, Of("ready")) /\ ~Has(toServer, Chats)
      /\ Has(toServer, Of("command")) => mode = "join"
  BY <1>1 DEF IInv, Rest, OrderPart
<1>3. TypePart'
  BY <1>1 DEF IInv, Rest, TypePart
<1>4. HelloPart'
  BY <1>1 DEF IInv, Rest, HelloPart
<1>5. KeyPart'
  BY <1>1 DEF IInv, Rest, KeyPart, Before
<1>6. OrderPart'
  <2>1. /\ ~Has(toServer', Of("init2")) /\ ~Has(toServer', Of("ready")) /\ ~Has(toServer', Chats)
        /\ Has(toServer', Of("command")) => mode = "join"
    BY <1>1, <1>2
  <2>2. Preceded(toServer', Of("ready"), Of("init2")) /\ Preceded(toServer', Chats, Of("ready"))
    BY <1>1, <2>1, Elements
  <2>3. "accept" \in inbox' => server' \in After
    BY DEF After
  <2> QED BY <1>1, <1>2, <2>1, <2>2, <2>3 DEF OrderPart
<1>7. WorldPart'
  <2>1. server' # "active" /\ ~Has(toServer', Of("ready"))
    BY <1>1, <1>2
  <2> QED BY <1>1, <2>1 DEF IInv, Rest, WorldPart, Split!Whole, splitVars
<1>8. CausePart'
  BY <1>1 DEF IInv, Rest, CausePart
<1>9. SplitPart'
  BY SplitStutters DEF IInv
<1> QED BY <1>3, <1>4, <1>5, <1>6, <1>7, <1>8, <1>9 DEF IInv, Rest

\* A packet is taken by a server that has accepted the client.
LEMMA LateTake ==
  ASSUME IInv, NEW type \in Types, NEW state, Take(type, state), state \in After, server' \in After,
         server' = "accepted" => state = "accepted" /\ type # "init2",
         server' = "defs" => state \in {"accepted", "defs"} /\ type # "ready",
         server' = "active" => state = "active" \/ type = "ready",
         inbox' \subseteq Small, "hello" \in inbox' => "hello" \in inbox,
         bound' \in 0..1, early' \in BOOLEAN, early' => mode = "join",
         heard' \subseteq {"chat", "tp", "follow", "command"},
         assembled' = assembled, SplitPart'
  PROVE  IInv'
<1>1. /\ server = state
      /\ UNCHANGED <<client, elapsed, hellos, mode, templates, mechanism, wrong, stalled, disco, repeats>>
      /\ Head(toServer) \in Packets /\ Head(toServer).type = type
      /\ toServer' \in Seq(Packets) /\ Keyed(toServer', client.key)
      /\ \A S : Head(toServer) \in S => Has(toServer, S)
      /\ \A T, S : Head(toServer) \in T => ~Preceded(toServer, T, S)
      /\ \A S : Has(toServer', S) => Has(toServer, S)
      /\ \A S : Has(toServer, S) /\ Head(toServer) \notin S => Has(toServer', S)
      /\ \A T, S : Preceded(toServer, T, S) /\ Head(toServer) \notin S => Preceded(toServer', T, S)
  BY TakeDoes
<1>2. \A t \in Types : Head(toServer) \in Of(t) <=> t = type
  BY <1>1 DEF Of
<1>3. "ready" \in Types /\ "init2" \in Types
  BY DEF Types
<1>4. TypePart'
  <2>1. server' \in {"accepted", "defs", "active", "gone"}
    BY DEF After
  <2> QED BY <1>1, <2>1 DEF IInv, Rest, TypePart
<1>5. HelloPart'
  <2>1. server' \notin {"none", "peer"}
    BY DEF After
  <2>2. hellos + (IF "hello" \in inbox' THEN 1 ELSE 0) <= repeats + 1
    <3>1. hellos \in Nat /\ repeats \in Nat /\ hellos + (IF "hello" \in inbox THEN 1 ELSE 0) <= repeats + 1
      BY SessionAssumption DEF IInv, Rest, TypePart, HelloPart
    <3> QED BY <3>1
  <2> QED BY <1>1, <2>1, <2>2 DEF IInv, Rest, HelloPart
<1>6. KeyPart'
  BY DEF KeyPart, Before, After
<1>7. OrderPart'
  <2>1. server' = "accepted" => Preceded(toServer', Of("ready"), Of("init2"))
    BY <1>1, <1>2, <1>3 DEF IInv, Rest, OrderPart
  <2>2. server' \in {"accepted", "defs"} => Head(toServer) \notin Of("ready")
    <3>1. CASE state = "accepted"
      BY <1>1, <3>1 DEF IInv, Rest, OrderPart
    <3>2. CASE state = "defs" /\ server' = "defs"
      BY <1>2, <1>3, <3>2
    <3> QED BY <3>1, <3>2
  <2>3. server' \in {"accepted", "defs"} /\ mode # "join" => Preceded(toServer', Chats, Of("ready"))
    BY <1>1, <2>2 DEF IInv, Rest, OrderPart
  <2>4. server' = "accepted" /\ client.need /\ ~stalled => Has(toServer', Of("init2"))
    BY <1>1, <1>2, <1>3 DEF IInv, Rest, OrderPart
  <2>5. server' \in {"accepted", "defs"} /\ client.sentReady /\ ~stalled => Has(toServer', Of("ready"))
    BY <1>1, <2>2 DEF IInv, Rest, OrderPart
  <2> QED BY <1>1, <2>1, <2>3, <2>4, <2>5 DEF IInv, Rest, OrderPart
<1>8. WorldPart'
  <2>1. server' = "active" => state = "active" \/ Has(toServer, Of("ready"))
    BY <1>1, <1>2, <1>3
  <2>2. UNCHANGED <<client, mode>> /\ \A S : Has(toServer', S) => Has(toServer, S)
    BY <1>1
  <2> QED BY <1>1, <2>1, <2>2 DEF IInv, Rest, WorldPart, Split!Whole
<1>9. CausePart'
  BY <1>1 DEF CausePart, After
<1> QED BY <1>4, <1>5, <1>6, <1>7, <1>8, <1>9 DEF IInv, Rest

LEMMA ServerPeerKeeps ==
  ASSUME IInv, ServerPeer
  PROVE  IInv'
<1>1. /\ Take("dummy", "none") /\ server' = "peer" /\ inbox' = inbox \cup {"peer"}
      /\ UNCHANGED <<bound, early, heard, splitVars>>
  BY DEF ServerPeer, Say
<1>2. server = "none" /\ Head(toServer).type = "dummy"
  BY <1>1, TakeDoes
<1>3. Head(toServer) \notin FirstKey
  BY <1>2 DEF FirstKey, Packet
<1>4. hellos = 0 /\ "hello" \notin inbox' /\ "accept" \notin inbox'
  BY <1>1, <1>2 DEF IInv, Rest, HelloPart, OrderPart, After
<1>5. hellos + (IF "hello" \in inbox' THEN 1 ELSE 0) <= repeats + 1
  BY <1>4 DEF IInv, Rest, TypePart
<1>6. inbox' \subseteq Small /\ bound' \in 0..1 /\ early' \in BOOLEAN /\ (early' => mode = "join")
  BY <1>1 DEF IInv, Rest, TypePart, CausePart, Small
<1> QED BY <1>1, <1>3, <1>4, <1>5, <1>6, EarlyTake DEF Before, After

LEMMA ServerHelloKeeps ==
  ASSUME IInv, ServerHello
  PROVE  IInv'
<1>1. /\ Take("init", "peer") /\ server' = "hello" /\ inbox' = inbox \cup {"hello"}
      /\ UNCHANGED <<bound, early, heard, splitVars>>
  BY DEF ServerHello, Say
<1>2. server = "peer" /\ Head(toServer).type = "init"
  BY <1>1, TakeDoes
<1>3. Head(toServer) \notin FirstKey
  BY <1>2 DEF FirstKey, Packet
<1>4. hellos = 0 /\ "accept" \notin inbox'
  BY <1>1, <1>2 DEF IInv, Rest, HelloPart, OrderPart, After
<1>5. hellos + (IF "hello" \in inbox' THEN 1 ELSE 0) <= repeats + 1
  BY <1>4 DEF IInv, Rest, TypePart
<1>6. inbox' \subseteq Small /\ bound' \in 0..1 /\ early' \in BOOLEAN /\ (early' => mode = "join")
  BY <1>1 DEF IInv, Rest, TypePart, CausePart, Small
<1> QED BY <1>1, <1>3, <1>4, <1>5, <1>6, EarlyTake DEF Before, After

LEMMA ServerRegisterKeeps ==
  ASSUME IInv, ServerRegister
  PROVE  IInv'
<1>1. /\ Take("first_srp", "hello") /\ server' = "accepted" /\ inbox' = inbox \cup {"accept"}
      /\ UNCHANGED <<bound, early, heard, splitVars>>
  BY DEF ServerRegister, Say
<1>2. hellos + (IF "hello" \in inbox' THEN 1 ELSE 0) <= repeats + 1
  BY <1>1 DEF IInv, Rest, HelloPart
<1>3. inbox' \subseteq Small /\ bound' \in 0..1 /\ early' \in BOOLEAN /\ (early' => mode = "join")
  BY <1>1 DEF IInv, Rest, TypePart, CausePart, Small
<1> QED BY <1>1, <1>2, <1>3, EarlyTake DEF Before, After

LEMMA ServerChallengeKeeps ==
  ASSUME IInv, ServerChallenge
  PROVE  IInv'
<1>1. /\ Take("srp_a", "hello") /\ server' = "challenged" /\ inbox' = inbox \cup {"challenge"}
      /\ bound' = Head(toServer).key /\ UNCHANGED <<early, heard, splitVars>>
  BY DEF ServerChallenge, Say
<1>2. /\ server = "hello" /\ Head(toServer) \in Packets /\ Head(toServer).type = "srp_a"
      /\ \A T, S : Head(toServer) \in T => ~Preceded(toServer, T, S)
  BY <1>1, TakeDoes
<1>3. bound' = 1
  <2>1. Preceded(toServer, LaterKeys, FirstKey)
    BY <1>2 DEF IInv, Rest, KeyPart, Before
  <2>2. Head(toServer) \notin LaterKeys
    BY <1>2, <2>1
  <2> QED BY <1>1, <1>2, <2>2 DEF LaterKeys
<1>4. "accept" \notin inbox'
  BY <1>1, <1>2 DEF IInv, Rest, OrderPart, After
<1>5. hellos + (IF "hello" \in inbox' THEN 1 ELSE 0) <= repeats + 1
  BY <1>1 DEF IInv, Rest, HelloPart
<1>6. inbox' \subseteq Small /\ bound' \in 0..1 /\ early' \in BOOLEAN /\ (early' => mode = "join")
  BY <1>1, <1>3 DEF IInv, Rest, TypePart, CausePart, Small
<1> QED BY <1>1, <1>3, <1>4, <1>5, <1>6, EarlyTake DEF Before, After

LEMMA ServerVerifyKeeps ==
  ASSUME IInv, ServerVerify
  PROVE  IInv'
<1> DEFINE ok == Proves(Head(toServer).key)
<1>1. /\ Take("srp_m", "challenged") /\ server' = (IF ok THEN "accepted" ELSE "denied")
      /\ inbox' = inbox \cup {IF ok THEN "accept" ELSE "denied"}
      /\ UNCHANGED <<bound, early, heard, splitVars>>
  BY DEF ServerVerify, Say
<1>2. server = "challenged" /\ Head(toServer).key \in 1..client.key
  BY <1>1, TakeDoes
<1>3. ~ok => wrong \/ hellos > 1
  <2> SUFFICES ASSUME ~ok, ~wrong PROVE hellos > 1
    OBVIOUS
  <2>1. Head(toServer).key # 1
    BY <1>2 DEF Proves, IInv, Rest, KeyPart
  <2>2. client.key \in Nat /\ hellos \in Nat /\ client.key <= hellos
    BY SessionAssumption DEF IInv, Rest, TypePart, HelloPart, Clients
  <2> QED BY <1>2, <2>1, <2>2
<1> HIDE DEF ok
<1>4. "accept" \in inbox' => server' = "accepted"
  BY <1>1, <1>2 DEF IInv, Rest, OrderPart, After
<1>5. hellos + (IF "hello" \in inbox' THEN 1 ELSE 0) <= repeats + 1
  BY <1>1 DEF IInv, Rest, HelloPart
<1>6. inbox' \subseteq Small /\ bound' \in 0..1 /\ early' \in BOOLEAN /\ (early' => mode = "join")
  BY <1>1 DEF IInv, Rest, TypePart, CausePart, Small
<1>7. server' \in {"accepted", "denied"} /\ (server' = "denied" => wrong \/ hellos > 1)
  BY <1>1, <1>3
<1> QED BY <1>1, <1>4, <1>5, <1>6, <1>7, EarlyTake DEF Before, After

LEMMA ServerDefinitionsKeeps ==
  ASSUME IInv, ServerDefinitions
  PROVE  IInv'
<1>1. /\ Take("init2", "accepted") /\ server' = "defs" /\ Split!SendLarge({"itemdef", "nodedef"})
      /\ UNCHANGED <<bound, inbox, early, heard>>
  BY DEF ServerDefinitions
<1>2. SplitPart'
  <2>1. {"itemdef", "nodedef"} \in SUBSET Large
    BY DEF Large
  <2>2. \A m, o \in {"itemdef", "nodedef"} : SeqOf(m) = SeqOf(o) => m = o
    BY DEF SeqOf
  <2> QED BY <1>1, <2>1, <2>2, SendKeeps DEF IInv
<1>3. assembled' = assembled
  BY <1>1 DEF Split!SendLarge
<1>4. inbox' \subseteq Small /\ bound' \in 0..1 /\ early' \in BOOLEAN /\ (early' => mode = "join")
      /\ heard' \subseteq {"chat", "tp", "follow", "command"}
  BY <1>1 DEF IInv, Rest, TypePart, CausePart, Small
<1> QED BY <1>1, <1>2, <1>3, <1>4, LateTake DEF Types, After

LEMMA ServerActivateKeeps ==
  ASSUME IInv, ServerActivate
  PROVE  IInv'
<1>1. /\ Take("ready", "defs") /\ server' = "active" /\ inbox' = inbox \cup {"spawn"}
      /\ UNCHANGED <<bound, early, heard, splitVars>>
  BY DEF ServerActivate, Say
<1>2. SplitPart' /\ assembled' = assembled
  BY <1>1, SplitStutters DEF IInv, splitVars
<1>3. inbox' \subseteq Small /\ bound' \in 0..1 /\ early' \in BOOLEAN /\ (early' => mode = "join")
      /\ heard' \subseteq {"chat", "tp", "follow", "command"}
      /\ ("hello" \in inbox' => "hello" \in inbox)
  BY <1>1 DEF IInv, Rest, TypePart, CausePart, Small
<1> QED BY <1>1, <1>2, <1>3, LateTake DEF Types, After

LEMMA ServerExecuteKeeps ==
  ASSUME IInv, ServerExecute
  PROVE  IInv'
<1>1. PICK type \in ChatPackets : Take(type, "active") /\ heard' = heard \cup {type}
  BY DEF ServerExecute
<1>2. UNCHANGED <<server, bound, early, inbox, repeats, splitVars>>
  BY DEF ServerExecute
<1>3. server = "active" /\ type \in Types
  BY <1>1, TakeDoes DEF ChatPackets, Types
<1>4. SplitPart' /\ assembled' = assembled
  BY <1>2, SplitStutters DEF IInv, splitVars
<1>5. inbox' \subseteq Small /\ bound' \in 0..1 /\ early' \in BOOLEAN /\ (early' => mode = "join")
      /\ heard' \subseteq {"chat", "tp", "follow", "command"}
  BY <1>1, <1>2 DEF IInv, Rest, TypePart, CausePart, Small, ChatPackets
<1> QED BY <1>1, <1>2, <1>3, <1>4, <1>5, LateTake DEF After

LEMMA ServerIgnoreKeeps ==
  ASSUME IInv, ServerIgnore
  PROVE  IInv'
<1>1. PICK type \in {"init", "first_srp", "srp_a", "srp_m", "init2", "ready"} \cup ChatPackets :
        /\ Take(type, server)
        /\ ~(type = "init" /\ server = "peer")
        /\ ~(type \in {"first_srp", "srp_a"} /\ server = "hello")
        /\ ~(type = "srp_m" /\ server = "challenged")
        /\ ~(type = "init2" /\ server = "accepted")
        /\ ~(type = "ready" /\ server = "defs")
        /\ ~(type \in ChatPackets /\ server = "active")
        /\ early' = (early \/ (type \in ChatPackets /\ server \notin {"denied", "gone"}))
  BY DEF ServerIgnore
<1>2. UNCHANGED <<server, bound, heard, inbox, repeats, splitVars>>
  BY DEF ServerIgnore
<1>3. /\ Head(toServer) \in Packets /\ Head(toServer).type = type
      /\ \A S : Head(toServer) \in S => Has(toServer, S)
      /\ \A T, S : Head(toServer) \in T => ~Preceded(toServer, T, S)
      /\ Head(toServer).key \in IF type \in {"srp_a", "srp_m"} THEN 1..client.key ELSE {0}
  BY <1>1, TakeDoes
<1>4. type \in Types
  BY <1>1 DEF ChatPackets, Types
<1>5. type \in ChatPackets => Head(toServer) \in Chats \/ Head(toServer) \in Of("command")
  BY <1>3 DEF ChatPackets, Chats, Of
<1>6. early' \in BOOLEAN /\ (early' => mode = "join")
  <2>1. early \in BOOLEAN /\ (early => mode = "join")
    BY DEF IInv, Rest, TypePart, CausePart
  <2>2. ASSUME type \in ChatPackets, server \notin {"denied", "gone"} PROVE mode = "join"
    <3>1. CASE Head(toServer) \in Of("command")
      BY <1>3, <3>1 DEF IInv, Rest, OrderPart
    <3>2. CASE Head(toServer) \in Chats
      <4>1. server \in After /\ server # "active" /\ server # "gone"
        BY <1>1, <1>3, <2>2, <3>2 DEF IInv, Rest, OrderPart
      <4>2. server \in {"accepted", "defs"}
        BY <4>1 DEF After
      <4> QED BY <1>3, <3>2, <4>2 DEF IInv, Rest, OrderPart
    <3> QED BY <1>5, <2>2, <3>1, <3>2
  <2> QED BY <1>1, <2>1, <2>2
<1>7. /\ inbox' \subseteq Small /\ bound' \in 0..1 /\ heard' \subseteq {"chat", "tp", "follow", "command"}
      /\ hellos + (IF "hello" \in inbox' THEN 1 ELSE 0) <= repeats + 1
  BY <1>2 DEF IInv, Rest, TypePart, HelloPart, Small
<1>8. CASE server \in After
  <2>1. SplitPart' /\ assembled' = assembled
    BY <1>2, SplitStutters DEF IInv, splitVars
  <2> QED BY <1>1, <1>2, <1>4, <1>6, <1>7, <1>8, <2>1, LateTake
<1>9. CASE server \notin After
  <2>1. server \in {"none", "peer", "hello", "challenged", "denied"}
    BY <1>9 DEF IInv, Rest, TypePart, After
  <2>2. server \in Before => Head(toServer) \notin FirstKey
    <3>1. CASE server = "hello"
      <4>1. type # "srp_a"
        BY <1>1, <3>1
      <4> QED BY <1>3, <4>1 DEF FirstKey, Packet
    <3>2. CASE server \in {"none", "peer"}
      <4>1. client.key <= 0 /\ client.key \in Nat
        BY <3>2 DEF IInv, Rest, TypePart, HelloPart, Clients
      <4>2. type # "srp_a"
        BY <1>3, <4>1
      <4> QED BY <1>3, <4>2 DEF FirstKey, Packet
    <3> QED BY <3>1, <3>2 DEF Before
  <2>3. /\ server = "challenged" => bound = 1
        /\ server = "denied" => wrong \/ hellos > 1
        /\ "accept" \notin inbox
        /\ server \in {"none", "peer"} => hellos = 0 /\ "hello" \notin inbox
    BY <1>9 DEF IInv, Rest, KeyPart, CausePart, OrderPart, HelloPart
  <2> QED BY <1>1, <1>2, <1>6, <1>7, <1>9, <2>1, <2>2, <2>3, EarlyTake
<1> QED BY <1>8, <1>9

-----------------------------------------------------------------------------
(* The theorems *)

LEMMA InitInv == Init => IInv
<1> SUFFICES ASSUME Init PROVE IInv
  OBVIOUS
<1>1. /\ client = NewClient /\ elapsed = {} /\ server = "none" /\ bound = 0
      /\ toServer = <<Packet("dummy", 0)>> /\ stalled = FALSE /\ disco = FALSE
      /\ inbox = {} /\ repeats = 0 /\ Split!SplitInit
      /\ hellos = 0 /\ early = FALSE /\ heard = {}
      /\ mode \in Modes /\ templates \subseteq {"tp", "follow"}
      /\ mechanism \in {"first_srp", "srp", "none"} /\ wrong \in BOOLEAN
  BY DEF Init
<1>2. PICK x : x = Packet("dummy", 0)
  OBVIOUS
<1>3. x \in Packets /\ x.type = "dummy" /\ x.key = 0
  BY <1>2 DEF Packet, Packets, Types
<1>4. /\ toServer \in Seq(Packets) /\ Keyed(toServer, 0)
      /\ \A S : x \notin S => ~Has(toServer, S)
      /\ \A T, S : x \notin T => Preceded(toServer, T, S)
  BY <1>1, <1>2, <1>3, OnePacket
<1>5. /\ x \notin Of("init2") /\ x \notin Of("ready") /\ x \notin Chats /\ x \notin Of("command")
      /\ x \notin LaterKeys
  BY <1>3 DEF Of, Chats, LaterKeys
<1>6. /\ client \in Clients /\ client.key = 0 /\ client.need = FALSE /\ client.ready = FALSE
      /\ client.sentReady = FALSE /\ client.defs = {}
  BY <1>1 DEF NewClient, Clients
<1>7. TypePart
  <2>1. bound \in 0..1 /\ hellos \in 0..MaxRepeats + 1 /\ repeats \in 0..MaxRepeats
    BY <1>1, SessionAssumption
  <2>2. toServer \in Seq(Packets) /\ Keyed(toServer, client.key)
    BY <1>4, <1>6
  <2>3. /\ server \in {"none", "peer", "hello", "challenged", "accepted", "defs", "active",
                       "denied", "gone"}
        /\ elapsed \subseteq {"deadline", "seconds"} /\ inbox \subseteq Small
        /\ heard \subseteq {"chat", "tp", "follow", "command"}
        /\ stalled \in BOOLEAN /\ disco \in BOOLEAN /\ early \in BOOLEAN
    BY <1>1
  <2>4. client \in Clients
    BY <1>6
  <2> QED BY <1>1, <2>1, <2>2, <2>3, <2>4 DEF TypePart
<1>8. HelloPart
  BY <1>1, <1>6 DEF HelloPart
<1>9. KeyPart
  BY <1>1, <1>4, <1>5, <1>6 DEF KeyPart
<1>10. OrderPart
  BY <1>1, <1>4, <1>5, <1>6 DEF OrderPart
<1>11. WorldPart
  BY <1>1, <1>4, <1>5, <1>6 DEF WorldPart
<1>12. CausePart
  BY <1>1 DEF CausePart
<1>13. SplitPart
  BY <1>1, SplitStarts
<1> QED BY <1>7, <1>8, <1>9, <1>10, <1>11, <1>12, <1>13 DEF IInv, Rest

LEMMA Step == IInv /\ [Next]_vars => IInv'
<1> SUFFICES ASSUME IInv, [Next]_vars PROVE IInv'
  OBVIOUS
<1>1. ASSUME NEW e \in inbox, Receive(e) PROVE IInv'
  BY <1>1, ReceiveKeeps
<1>2. ASSUME NEW chunk \in wire, ReceiveChunk(chunk) PROVE IInv'
  BY <1>2, ReceiveChunkKeeps
<1>3. CASE ReceiveNothing
  BY <1>3, ReceiveNothingKeeps
<1>4. CASE OutOfTime
  BY <1>4, OutOfTimeKeeps
<1>5. CASE ApiCommand
  BY <1>5, ApiCommandKeeps
<1>6. ASSUME NEW t \in {"deadline", "seconds"}, Elapse(t) PROVE IInv'
  BY <1>6, ElapseKeeps
<1>7. CASE Lose
  BY <1>7, LoseKeeps
<1>8. ASSUME NEW k \in Split!Keys, IdleBuffer(k) PROVE IInv'
  BY <1>8, IdleBufferKeeps
<1>9. CASE ServerPeer
  BY <1>9, ServerPeerKeeps
<1>10. CASE ServerHello
  BY <1>10, ServerHelloKeeps
<1>11. CASE ServerRegister
  BY <1>11, ServerRegisterKeeps
<1>12. CASE ServerChallenge
  BY <1>12, ServerChallengeKeeps
<1>13. CASE ServerVerify
  BY <1>13, ServerVerifyKeeps
<1>14. CASE ServerDefinitions
  BY <1>14, ServerDefinitionsKeeps
<1>15. CASE ServerActivate
  BY <1>15, ServerActivateKeeps
<1>16. CASE ServerExecute
  BY <1>16, ServerExecuteKeeps
<1>17. CASE ServerIgnore
  BY <1>17, ServerIgnoreKeeps
<1>18. CASE ServerSay
  BY <1>18, ServerSayKeeps
<1>19. CASE ServerBlock
  BY <1>19, ServerBlockKeeps
<1>20. CASE ServerDisco
  BY <1>20, ServerDiscoKeeps
<1>21. CASE UNCHANGED vars
  <2>1. Rest'
    BY <1>21, Frame DEF vars, IInv, Rest, TypePart, inputVars, serverVars, networkVars, splitVars
  <2>2. SplitPart'
    BY <1>21, SplitStutters DEF IInv, vars
  <2> QED BY <2>1, <2>2 DEF IInv
<1> QED BY <1>1, <1>2, <1>3, <1>4, <1>5, <1>6, <1>7, <1>8, <1>9, <1>10, <1>11, <1>12, <1>13,
           <1>14, <1>15, <1>16, <1>17, <1>18, <1>19, <1>20, <1>21
           DEF Next, Client, Arrival, Environment, Server

\* The invariant of a session: what the server, the queue to it, the loop of the
\* program and the split packets know of each other, in every state.
THEOREM SessionInvariance == Spec => []IInv
BY InitInv, Step, PTL DEF Spec

LEMMA Typed == IInv => TypeOK
<1> SUFFICES ASSUME IInv PROVE TypeOK
  OBVIOUS
<1>1. \A i \in DOMAIN toServer :
        toServer[i].key \in IF toServer[i].type \in {"srp_a", "srp_m"} THEN 1..client.key ELSE {0}
  <2>1. toServer \in Seq(Packets) /\ Keyed(toServer, client.key)
    BY DEF IInv, Rest, TypePart
  <2>2. DOMAIN toServer = 1..Len(toServer)
    BY <2>1, LenProperties
  <2> QED BY <2>1, <2>2 DEF Keyed
<1>2. Split!SplitTypeOK
  BY DEF IInv, SplitPart
<1> QED BY <1>1, <1>2 DEF IInv, Rest, TypePart, TypeOK

\* Every session, in every subcommand and with any number of repeated packets: the
\* variables keep their types, the server denies access only for a wrong password
\* or a second Hello, a chat command of a standalone mode finds the bot ready
\* there, and a bot that plays has put both definitions together.
THEOREM SessionHolds == Spec => []SessionInv
<1>1. IInv => SessionInv
  <2> SUFFICES ASSUME IInv PROVE SessionInv
    OBVIOUS
  <2>1. TypeOK
    BY Typed
  <2>2. DeniedHasCause /\ CommandsFindBotReady
    BY DEF IInv, Rest, CausePart, DeniedHasCause, CommandsFindBotReady
  <2>3. ActiveBotKnowsItsWorld
    <3> SUFFICES ASSUME server = "active", mode \notin {"login", "chat"}
                 PROVE  Split!Whole("itemdef") \in assembled /\ Split!Whole("nodedef") \in assembled
      BY DEF ActiveBotKnowsItsWorld
    <3>1. client.defs = {"itemdef", "nodedef"}
      BY DEF IInv, Rest, WorldPart
    <3> QED BY <3>1 DEF IInv, Rest, WorldPart
  <2> QED BY <2>1, <2>2, <2>3 DEF SessionInv
<1> QED BY <1>1, SessionInvariance, PTL

\* Split packets in every session: what reassembly hands on is made of chunks of
\* one message, and what was acknowledged is on the wire, in a buffer, handed on
\* or was dropped with a buffer that no chunk reached for ten seconds.
THEOREM ReassemblyHolds == Spec => []ReassemblyIsFaithful
<1>1. IInv => ReassemblyIsFaithful
  BY DEF IInv, SplitPart, ReassemblyIsFaithful
<1> QED BY <1>1, SessionInvariance, PTL

=============================================================================
