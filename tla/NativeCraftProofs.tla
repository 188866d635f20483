-------------------------- MODULE NativeCraftProofs --------------------------
(***************************************************************************)
(* Proofs about NativeCraft, for any number of crafts, any recipes, slots  *)
(* and counts, and any failures, timeouts and restarts: what is left in    *)
(* the grid, what a failed craft has used up, and that the answers keep    *)
(* the contract of the transfers.                                          *)
(*                                                                         *)
(* The inductive invariant is about the one queue of packets and commands  *)
(* to the server.  KeptPart says whose they are, what they will still do   *)
(* to the result slot, and what the replies tell of the current task.      *)
(* ClearPart looks ahead: what is put into the grid is moved out again,    *)
(* and what is armed is cancelled, ahead of the next prepare command.      *)
(***************************************************************************)
EXTENDS NativeCraft, SequenceTheorems, TLAPS

Moving == {"place", "craft", "take", "return"}
Asking == {"prepare", "receipt", "cancel"}

Queue == 1..Len(toServer)

-----------------------------------------------------------------------------
(* The inductive invariant *)

\* Ids are fresh, and the helper's receipt is one of a task.
NoncePart ==
  /\ nextId \in Nat \ {0} /\ nonce < nextId
  /\ nonce = 0 <=> phase = "idle"
  /\ \A r \in toClient : r.nonce < nextId
  /\ \A i \in Queue :
       toServer[i].type \in Asking => toServer[i].nonce # 0 /\ toServer[i].nonce < nextId
  /\ receipt.nonce < nextId
  /\ receipt.nonce = 0 => receipt = NoReceipt
  /\ helper = "missing" => receipt = NoReceipt

\* Jobs are accepted one after the other; while one is being prepared, what
\* moves belongs to an earlier one.
JobPart ==
  /\ phase # "idle" => job \in Jobs /\ answer[job] = Promise!Open
  /\ \A j \in Jobs : j <= job => answer[j] # Promise!Open \/ (j = job /\ phase # "idle")
  /\ \A j \in Jobs : j > job => answer[j] = Promise!Open /\ delivered[j] = 0 /\ j \notin consumed
  /\ \A i \in Queue : toServer[i].job <= job
  /\ \A i \in Queue : toServer[i].type = "place" => toServer[i].slot # 0
  /\ phase = "preparing" =>
       \A i \in Queue : toServer[i].type \in Moving => toServer[i].job # job

\* What was told of a job, or is still open, once its craft packet has left.
Unsure(j) ==
  IF answer[j] = Promise!Open THEN j = job /\ Dispatched
  ELSE answer[j].unknown \/ answer[j].verdict \in {"completed", "partial"}

\* A craft that may use up ingredients is one whose answer leaves room for it.
ConsumedPart ==
  /\ \A j \in consumed : Unsure(j)
  /\ \A i \in Queue : toServer[i].type = "craft" => Unsure(toServer[i].job)

\* What moves is one job's, the current one's once that is prepared.
MovesPart ==
  /\ \A i, k \in Queue :
       toServer[i].type \in Moving /\ toServer[k].type \in Moving
         => toServer[i].job = toServer[k].job
  /\ Prepared => \A i \in Queue : toServer[i].type \in Moving => toServer[i].job = job

\* There is one craft packet, and it finds nothing in the result slot.
CraftPart ==
  /\ \A i \in Queue : toServer[i].type = "craft" =>
       /\ result = 0 /\ delivered[toServer[i].job] = 0
       /\ \A k \in Queue : toServer[k].type = "craft" => k = i
       /\ \A k \in Queue : k < i => toServer[k].type \notin {"take", "return", "prepare"}
  /\ phase \in {"preparing", "placing"} => delivered[job] = 0
  /\ phase = "placing" =>
       /\ result = 0
       /\ \A i \in Queue : toServer[i].type \notin {"craft", "take", "return", "prepare"}
  /\ phase = "crafting" =>
       \A i \in Queue : toServer[i].type \notin {"take", "return", "prepare"}

\* What is in the result slot or has left it came from the job that moves it.
OwnerPart ==
  /\ \A i \in Queue : toServer[i].type \in {"take", "return"} =>
       result + delivered[toServer[i].job] <= Produced(plan[toServer[i].job])
  /\ Prepared => result + delivered[job] <= Produced(plan[job])

\* A certain answer: nothing moves any more.
CertainPart ==
  \A i \in Queue :
    toServer[i].type \in {"take", "return"} =>
      \/ answer[toServer[i].job] = Promise!Open
      \/ answer[toServer[i].job].unknown
      \/ result = 0 /\ \A k \in Queue : toServer[k].type # "craft"

\* What the current task is asking for.
AskPart ==
  /\ \A i \in Queue :
       toServer[i].type = "prepare" /\ toServer[i].nonce = nonce
         => i = Len(toServer) /\ phase = "preparing"
  /\ \A i \in Queue :
       toServer[i].type = "receipt" /\ toServer[i].nonce = nonce
         => /\ phase \in {"waiting", "requested"}
            /\ \A k \in Queue : k >= i => toServer[k].type = "receipt"

\* What a reply to the current task tells.
TellPart ==
  \A r \in toClient :
    /\ r.type = "prepare" /\ r.status = "ok" /\ r.nonce = nonce /\ phase = "preparing"
         => toServer = <<>> /\ result = 0 /\ grid = EmptyGrid
    /\ r.type = "receipt" /\ r.status = "ok" /\ r.nonce = nonce /\ phase # "idle"
         => /\ phase \in {"waiting", "requested"}
            /\ \A i \in Queue : toServer[i].type = "receipt"
            /\ result = 0 /\ grid = EmptyGrid /\ receipt = NoReceipt
            /\ delivered[job] = Produced(plan[job]) /\ r.count = delivered[job]

\* What the receipt of the current task has recorded.
RecordPart ==
  nonce # 0 /\ receipt.nonce = nonce =>
    /\ phase = "preparing" => toServer = <<>>
    /\ receipt.moved <= delivered[job]
    /\ receipt.stage = "verify" => receipt.moved = Produced(plan[job])

KeptPart ==
  /\ TypeOK /\ NoncePart /\ JobPart /\ ConsumedPart /\ MovesPart /\ CraftPart
  /\ OwnerPart /\ CertainPart /\ AskPart /\ TellPart /\ RecordPart

\* Ahead of position i, whatever a craft has put into a slot is moved out again.
Ret(c, s) == c.type = "return" /\ c.slot = s

GridClear(i) ==
  /\ \A s \in 1..Slots : grid[s] > 0 => \E k \in Queue : k < i /\ Ret(toServer[k], s)
  /\ \A k \in Queue : k < i /\ toServer[k].type = "place" =>
       \E h \in Queue : k < h /\ h < i /\ Ret(toServer[h], toServer[k].slot)
  /\ result > 0 => \E k \in Queue : k < i /\ Ret(toServer[k], 0)
  /\ \A k \in Queue : k < i /\ toServer[k].type = "craft" => \E h \in Queue : k < h /\ h < i /\ Ret(toServer[h], 0)

\* Ahead of position i, the receipts of all tasks but n's are cancelled.
Cancel(c, n) == c.type = "cancel" /\ c.nonce = n

SlotClear(i, n) ==
  /\ receipt.nonce \notin {0, n} => \E k \in Queue : k < i /\ Cancel(toServer[k], receipt.nonce)
  /\ \A k \in Queue : k < i /\ toServer[k].type = "prepare" /\ toServer[k].nonce # n =>
       \E h \in Queue : k < h /\ h < i /\ Cancel(toServer[h], toServer[k].nonce)

ClearPart ==
  ~stuck =>
    /\ \A i \in Queue : toServer[i].type = "prepare" => GridClear(i) /\ SlotClear(i, 0)
    /\ phase \in {"idle", "preparing"} => GridClear(Len(toServer) + 1)
    /\ SlotClear(Len(toServer) + 1, nonce)

IInv == KeptPart /\ ClearPart

-----------------------------------------------------------------------------
(* Plans *)

LEMMA Counts ==
  /\ Slots \in Nat \ {0} /\ MaxJobs \in Nat /\ MaxPolls \in Nat
  /\ \A p \in Plans : p.count \in 0..64 /\ p.count \in Nat /\ p.yield \in Nat \ {0}
  /\ NoPlan \in Plans
<1>1. \E y \in Yields : TRUE
  BY CraftAssumption
<1>2. (CHOOSE y \in Yields : TRUE) \in Yields
  BY <1>1
<1>3. NoPlan \in Plans
  BY <1>2 DEF NoPlan, Plans
<1>4. ASSUME NEW p \in Plans PROVE p.count \in 0..64 /\ p.count \in Nat /\ p.yield \in Nat \ {0}
  <2>1. p.count \in Requests \cup {0} /\ p.yield \in Yields
    BY DEF Plans
  <2>2. p.yield \in Nat \ {0}
    BY <2>1, CraftAssumption
  <2>3. p.count = 0 \/ p.count \in 1..64
    BY <2>1, CraftAssumption
  <2>4. p.count \in 0..64 /\ p.count \in Nat
    BY <2>3
  <2> QED
    BY <2>2, <2>4
<1>5. Slots \in Nat \ {0} /\ MaxJobs \in Nat /\ MaxPolls \in Nat
  BY CraftAssumption
<1> QED
  BY <1>3, <1>4, <1>5

LEMMA DivisionIsNat ==
  ASSUME NEW c \in Nat, NEW y \in Nat \ {0} PROVE (c + y - 1) \div y \in Nat
OBVIOUS

LEMMA DivisionIsPositive ==
  ASSUME NEW c \in Nat \ {0}, NEW y \in Nat \ {0} PROVE (c + y - 1) \div y # 0
<1>1. /\ c + y - 1 \in Nat
      /\ c + y - 1 < y * ((c + y - 1) \div y) + y
  OBVIOUS
<1>2. SUFFICES ASSUME (c + y - 1) \div y = 0 PROVE FALSE
  OBVIOUS
<1>3. c + y - 1 < y * 0 + y
  BY <1>1, <1>2
<1> QED
  BY <1>3

LEMMA ProductIsNat ==
  ASSUME NEW a \in Nat, NEW y \in Nat PROVE a * y \in Nat
OBVIOUS

LEMMA ProductIsPositive ==
  ASSUME NEW a \in Nat \ {0}, NEW y \in Nat \ {0} PROVE a * y # 0
OBVIOUS

LEMMA ProductGrows ==
  ASSUME NEW a \in Nat, NEW b \in Nat, NEW y \in Nat, a <= b PROVE a * y <= b * y
OBVIOUS

LEMMA BatchesAreNat ==
  \A p \in Plans : /\ Batches(p) \in Nat /\ Produced(p) \in Nat
                   /\ p.count > 0 => Batches(p) # 0 /\ Produced(p) # 0
<1> SUFFICES ASSUME NEW p \in Plans
             PROVE  /\ Batches(p) \in Nat /\ Produced(p) \in Nat
                    /\ p.count > 0 => Batches(p) # 0 /\ Produced(p) # 0
  OBVIOUS
<1>1. p.count \in Nat /\ p.yield \in Nat \ {0}
  BY Counts
<1>2. Batches(p) \in Nat
  BY <1>1, DivisionIsNat DEF Batches
<1>3. Produced(p) \in Nat
  BY <1>1, <1>2, ProductIsNat DEF Produced
<1>4. ASSUME p.count > 0 PROVE Batches(p) # 0 /\ Produced(p) # 0
  <2>1. p.count \in Nat \ {0}
    BY <1>1, <1>4
  <2>2. Batches(p) # 0
    BY <2>1, <1>1, DivisionIsPositive DEF Batches
  <2>3. Batches(p) \in Nat \ {0}
    BY <2>2, <1>2
  <2>4. Batches(p) * p.yield # 0
    BY <2>3, <1>1, ProductIsPositive
  <2> QED
    BY <2>2, <2>4 DEF Produced
<1> QED
  BY <1>2, <1>3, <1>4

LEMMA Largest ==
  /\ MaxBatches \in Nat /\ \A p \in Plans : Batches(p) <= MaxBatches
  /\ MaxProduced \in Nat /\ \A p \in Plans : Produced(p) <= MaxProduced
<1>1. \E n \in {Batches(p) : p \in Plans} : \A p \in Plans : Batches(p) <= n
  BY PlanAssumption
<1>2. \E n \in {Produced(p) : p \in Plans} : \A p \in Plans : Produced(p) <= n
  BY PlanAssumption
<1>3. MaxBatches \in {Batches(p) : p \in Plans} /\ \A p \in Plans : Batches(p) <= MaxBatches
  BY <1>1 DEF MaxBatches
<1>4. MaxProduced \in {Produced(p) : p \in Plans} /\ \A p \in Plans : Produced(p) <= MaxProduced
  BY <1>2 DEF MaxProduced
<1> QED
  BY <1>3, <1>4, BatchesAreNat

\* What n batches of a plan yield.
LEMMA Yielded ==
  ASSUME NEW p \in Plans, NEW n \in 1..Batches(p)
  PROVE  n * p.yield \in Nat /\ n * p.yield <= Produced(p)
<1>1. p.yield \in Nat /\ Batches(p) \in Nat
  BY Counts, BatchesAreNat
<1>2. n \in Nat /\ n <= Batches(p)
  BY <1>1
<1> QED
  BY <1>1, <1>2, ProductIsNat, ProductGrows DEF Produced

LEMMA NothingPlanned == Produced(NoPlan) = 0
<1> DEFINE y == CHOOSE z \in Yields : TRUE
<1>1. y \in Nat \ {0} /\ NoPlan = [count |-> 0, yield |-> y]
  BY Counts DEF NoPlan
<1> HIDE DEF y
<1>2. (y - 1) \div y = 0
  <2>1. y - 1 \in Nat /\ y * ((y - 1) \div y) <= y - 1 /\ (y - 1) \div y \in Nat
    BY <1>1
  <2>2. (y - 1) \div y # 0 => y * ((y - 1) \div y) >= y
    BY <1>1, <2>1
  <2> QED
    BY <1>1, <2>1, <2>2
<1>3. Batches(NoPlan) = (y - 1) \div y
  BY <1>1 DEF Batches
<1> QED
  BY <1>1, <1>2, <1>3 DEF Produced

-----------------------------------------------------------------------------
(* The queue to the server *)

LEMMA QueueIsSeq ==
  ASSUME TypeOK
  PROVE  /\ Len(toServer) \in Nat
         /\ \A i \in Queue : /\ i \in Nat /\ i >= 1 /\ i <= Len(toServer)
                             /\ toServer[i] \in Commands
         /\ toServer = <<>> <=> Len(toServer) = 0
  BY LenProperties, ElementOfSeq, EmptySeq DEF TypeOK, Queue

LEMMA CommandIs ==
  ASSUME NEW type \in {"prepare", "place", "craft", "take", "return", "receipt", "cancel"},
         NEW n \in Nat, NEW s \in 0..Slots, NEW j \in Jobs
  PROVE  /\ Command(type, n, s, j) \in Commands
         /\ Command(type, n, s, j).type = type /\ Command(type, n, s, j).nonce = n
         /\ Command(type, n, s, j).slot = s /\ Command(type, n, s, j).job = j
  BY DEF Command, Commands

\* The server has taken the first command of the queue.
LEMMA Taken ==
  ASSUME TypeOK, toServer # <<>>, toServer' = Tail(toServer)
  PROVE  /\ toServer' \in Seq(Commands)
         /\ Head(toServer) = toServer[1] /\ toServer[1] \in Commands
         /\ 1 \in Queue
         /\ Len(toServer') = Len(toServer) - 1
         /\ Len(toServer) \in Nat /\ Len(toServer) >= 1 /\ Len(toServer') \in Nat
         /\ \A i \in Queue' : /\ i \in Nat /\ i >= 1 /\ i <= Len(toServer')
                              /\ i + 1 \in Queue
                              /\ toServer'[i] = toServer[i + 1]
         /\ \A i \in Queue : i \in Nat /\ (i = 1 \/ (i > 1 /\ i - 1 \in Queue'))
<1>1. /\ Head(toServer) \in Commands
      /\ Tail(toServer) \in Seq(Commands)
      /\ Len(Tail(toServer)) = Len(toServer) - 1
      /\ \A i \in 1..Len(Tail(toServer)) : Tail(toServer)[i] = toServer[i + 1]
  BY HeadTailProperties DEF TypeOK
<1>2. Len(toServer) \in Nat \ {0}
  BY LenProperties, EmptySeq DEF TypeOK
<1>3. Head(toServer) = toServer[1]
  BY DEF TypeOK
<1>4. toServer' \in Seq(Commands) /\ Len(toServer') = Len(toServer) - 1
  BY <1>1
<1>5. \A i \in Queue' : /\ i \in Nat /\ i >= 1 /\ i <= Len(toServer')
                        /\ i + 1 \in Queue
                        /\ toServer'[i] = toServer[i + 1]
  BY <1>1, <1>2, <1>4 DEF Queue
<1>6. \A i \in Queue : i \in Nat /\ (i = 1 \/ (i > 1 /\ i - 1 \in Queue'))
  <2>1. Queue = 1..Len(toServer) /\ Queue' = 1..(Len(toServer) - 1)
    BY <1>4 DEF Queue
  <2> QED
    BY <2>1, <1>2
<1>7. 1 \in Queue
  BY <1>2 DEF Queue
<1> QED
  BY <1>1, <1>2, <1>3, <1>4, <1>5, <1>6, <1>7

LEMMA Concatenated ==
  ASSUME NEW S, NEW a \in Seq(S), NEW b \in Seq(S), NEW q, q = a \o b
  PROVE  /\ q \in Seq(S)
         /\ Len(a) \in Nat /\ Len(b) \in Nat /\ Len(q) = Len(a) + Len(b)
         /\ \A k \in 1..Len(a) : k \in 1..Len(q) /\ q[k] = a[k]
         /\ \A k \in 1..Len(b) : Len(a) + k \in 1..Len(q) /\ q[Len(a) + k] = b[k]
         /\ \A i \in 1..Len(q) : i \in 1..Len(a) \/ (i > Len(a) /\ i - Len(a) \in 1..Len(b))
<1>1. /\ q \in Seq(S)
      /\ Len(q) = Len(a) + Len(b)
      /\ \A i \in 1..Len(a) + Len(b) : q[i] = IF i <= Len(a) THEN a[i] ELSE b[i - Len(a)]
  BY ConcatProperties
<1>2. Len(a) \in Nat /\ Len(b) \in Nat
  BY LenProperties
<1>3. \A k \in 1..Len(a) : k \in 1..Len(a) + Len(b) /\ k <= Len(a)
  BY <1>2
<1>4. \A k \in 1..Len(b) : /\ Len(a) + k \in 1..Len(a) + Len(b)
                           /\ ~(Len(a) + k <= Len(a)) /\ Len(a) + k - Len(a) = k
  BY <1>2
<1>5. \A i \in 1..Len(q) : i \in 1..Len(a) \/ (i > Len(a) /\ i - Len(a) \in 1..Len(b))
  BY <1>1, <1>2
<1> QED
  BY <1>1, <1>2, <1>3, <1>4, <1>5

\* The client has sent the commands q.
LEMMA Sent ==
  ASSUME TypeOK, NEW q \in Seq(Commands), toServer' = toServer \o q
  PROVE  /\ toServer' \in Seq(Commands)
         /\ Len(toServer) \in Nat /\ Len(q) \in Nat
         /\ Len(toServer') = Len(toServer) + Len(q)
         /\ \A i \in Queue : i \in Queue' /\ i \in Nat /\ i <= Len(toServer)
         /\ \A i \in Queue : toServer'[i] = toServer[i]
         /\ \A k \in 1..Len(q) : /\ Len(toServer) + k \in Queue'
                                 /\ toServer'[Len(toServer) + k] = q[k]
         /\ \A i \in Queue' : \/ i \in Queue
                              \/ /\ i \in Nat /\ i > Len(toServer) /\ i <= Len(toServer')
                                 /\ i - Len(toServer) \in 1..Len(q)
                                 /\ toServer'[i] = q[i - Len(toServer)]
<1>1. toServer \in Seq(Commands)
  BY DEF TypeOK
<1>2. /\ toServer' \in Seq(Commands)
      /\ Len(toServer') = Len(toServer) + Len(q)
      /\ \A i \in 1..Len(toServer) + Len(q) :
           toServer'[i] = IF i <= Len(toServer) THEN toServer[i] ELSE q[i - Len(toServer)]
  BY <1>1, ConcatProperties
<1>3. Len(toServer) \in Nat /\ Len(q) \in Nat
  BY <1>1, LenProperties
<1>4. \A k \in 1..Len(q) : /\ Len(toServer) + k \in 1..Len(toServer) + Len(q)
                           /\ ~(Len(toServer) + k <= Len(toServer))
                           /\ Len(toServer) + k - Len(toServer) = k
  BY <1>3
<1>5. \A k \in 1..Len(q) : toServer'[Len(toServer) + k] = q[k]
  BY <1>2, <1>4
<1>6. Queue' = 1..(Len(toServer) + Len(q)) /\ Queue = 1..Len(toServer)
  BY <1>2 DEF Queue
<1>7. \A i \in Queue : /\ i \in Queue' /\ i \in Nat /\ i <= Len(toServer)
                       /\ toServer'[i] = toServer[i]
  BY <1>2, <1>3, <1>6
<1>8. ASSUME NEW i \in Queue', i \notin Queue
      PROVE  /\ i \in Nat /\ i > Len(toServer) /\ i <= Len(toServer')
             /\ i - Len(toServer) \in 1..Len(q)
             /\ toServer'[i] = q[i - Len(toServer)]
  BY <1>2, <1>3, <1>6, <1>8
<1> QED
  BY <1>2, <1>3, <1>4, <1>5, <1>6, <1>7, <1>8

\* One command has been sent.
LEMMA SentOne ==
  ASSUME TypeOK, NEW c \in Commands, toServer' = toServer \o <<c>>
  PROVE  /\ toServer' \in Seq(Commands)
         /\ Len(toServer) \in Nat
         /\ Len(toServer') = Len(toServer) + 1
         /\ \A i \in Queue : i \in Queue' /\ i \in Nat /\ i <= Len(toServer)
         /\ \A i \in Queue : toServer'[i] = toServer[i]
         /\ Len(toServer) + 1 \in Queue'
         /\ toServer'[Len(toServer) + 1] = c
         /\ \A i \in Queue' : i \in Queue \/ i = Len(toServer) + 1
<1>1. <<c>> \in Seq(Commands) /\ Len(<<c>>) = 1 /\ <<c>>[1] = c
  OBVIOUS
<1> DEFINE q == <<c>>
<1> HIDE DEF q
<1>2. q \in Seq(Commands) /\ Len(q) = 1 /\ q[1] = c /\ toServer' = toServer \o q
  BY <1>1 DEF q
<1>3. /\ toServer' \in Seq(Commands)
      /\ Len(toServer) \in Nat /\ Len(q) \in Nat
      /\ Len(toServer') = Len(toServer) + Len(q)
      /\ \A i \in Queue : i \in Queue' /\ i \in Nat /\ i <= Len(toServer)
      /\ \A i \in Queue : toServer'[i] = toServer[i]
      /\ \A k \in 1..Len(q) : /\ Len(toServer) + k \in Queue'
                              /\ toServer'[Len(toServer) + k] = q[k]
      /\ \A i \in Queue' : \/ i \in Queue
                           \/ /\ i \in Nat /\ i > Len(toServer) /\ i <= Len(toServer')
                              /\ i - Len(toServer) \in 1..Len(q)
                              /\ toServer'[i] = q[i - Len(toServer)]
  BY <1>2, Sent
<1>4. Len(toServer) + 1 \in Queue' /\ toServer'[Len(toServer) + 1] = c
  BY <1>2, <1>3
<1>5. \A i \in Queue' : i \in Queue \/ i = Len(toServer) + 1
  BY <1>2, <1>3
<1> QED
  BY <1>2, <1>3, <1>4, <1>5

\* Append is the concatenation of one command.
LEMMA AppendIs ==
  ASSUME TypeOK, NEW c \in Commands
  PROVE  Append(toServer, c) = toServer \o <<c>>
  BY AppendIsConcat DEF TypeOK

-----------------------------------------------------------------------------
(* The initial state *)

LEMMA JobIsPlanned ==
  ASSUME TypeOK, NEW j \in Jobs
  PROVE  /\ plan[j] \in Plans /\ Batches(plan[j]) \in Nat /\ Produced(plan[j]) \in Nat
         /\ Batches(plan[j]) <= MaxBatches /\ Produced(plan[j]) <= MaxProduced
         /\ delivered[j] \in Nat /\ delivered[j] <= MaxProduced
         /\ result \in Nat /\ result <= MaxProduced
<1>1. plan[j] \in Plans /\ delivered[j] \in 0..MaxProduced /\ result \in 0..MaxProduced
  BY DEF TypeOK
<1> QED
  BY <1>1, BatchesAreNat, Largest

LEMMA ReceiptsAreTyped == NoReceipt \in Receipts /\ NoReceipt.nonce = 0 /\ NoReceipt.stage = "none"
  BY Counts, Largest DEF NoReceipt, Receipts

LEMMA InitEstablishes == Init => IInv
<1> SUFFICES ASSUME Init PROVE IInv
  OBVIOUS
<1> USE DEF Init
<1>1. TypeOK
  <2>1. toServer \in Seq(Commands)
    BY EmptySeq
  <2>2. /\ 0 \in 0..MaxBatches /\ 0 \in 0..MaxProduced /\ 0 \in 0..MaxPolls /\ 0 \in 0..MaxJobs
        /\ NoReceipt \in Receipts /\ NoPlan \in Plans
    BY Counts, Largest, ReceiptsAreTyped
  <2>3. /\ grid \in [1..Slots -> 0..MaxBatches]
        /\ delivered \in [Jobs -> 0..MaxProduced]
        /\ plan \in [Jobs -> Plans]
        /\ answer \in [Jobs -> Promise!Answer \cup {Promise!Open, Promise!Lost}]
    BY <2>2 DEF EmptyGrid
  <2> QED
    BY <2>1, <2>2, <2>3 DEF TypeOK
<1>2. Queue = {}
  BY DEF Queue
<1>3. NoncePart /\ JobPart
  BY <1>2, Counts, ReceiptsAreTyped DEF NoncePart, JobPart, Jobs
<1>4. ConsumedPart /\ MovesPart /\ CraftPart /\ OwnerPart /\ CertainPart
  BY <1>2 DEF ConsumedPart, MovesPart, CraftPart, OwnerPart, CertainPart, Prepared
<1>5. AskPart /\ TellPart /\ RecordPart
  BY <1>2 DEF AskPart, TellPart, RecordPart
<1>6. ClearPart
  <2>1. \A s \in 1..Slots : ~(grid[s] > 0)
    BY DEF EmptyGrid
  <2>2. ~(result > 0)
    OBVIOUS
  <2>3. \A i : GridClear(i) /\ SlotClear(i, 0)
    BY <2>1, <2>2, <1>2, ReceiptsAreTyped DEF GridClear, SlotClear
  <2> QED
    BY <2>3, <1>2 DEF ClearPart
<1> QED
  BY <1>1, <1>3, <1>4, <1>5, <1>6 DEF IInv, KeptPart

LEMMA StutterPreserves == IInv /\ UNCHANGED vars => IInv'
<1> SUFFICES ASSUME IInv, UNCHANGED vars PROVE IInv'
  OBVIOUS
<1> USE DEF vars, taskVars, gridVars, historyVars
<1>1. KeptPart'
  BY DEF IInv, KeptPart, TypeOK, NoncePart, JobPart, ConsumedPart, MovesPart, CraftPart,
         OwnerPart, CertainPart, AskPart, TellPart, RecordPart, Unsure, Queue,
         Prepared, Dispatched
<1>2. ClearPart'
  BY DEF IInv, ClearPart, GridClear, SlotClear, Ret, Cancel, Queue
<1> QED
  BY <1>1, <1>2 DEF IInv

-----------------------------------------------------------------------------
(* What is ahead of a position *)

\* Nothing changes ahead of what is sent.
LEMMA AheadOfSent ==
  ASSUME TypeOK, Len(toServer) \in Nat,
         \A i \in Queue : i \in Queue' /\ i \in Nat /\ i <= Len(toServer),
         \A i \in Queue : toServer'[i] = toServer[i],
         \A i \in Queue' : i \in Queue \/ i > Len(toServer),
         grid' = grid, result' = result, receipt' = receipt,
         NEW i \in 1..(Len(toServer) + 1)
  PROVE  /\ GridClear(i) => GridClear(i)'
         /\ \A n : SlotClear(i, n) => SlotClear(i, n)'
<1>0. i \in Nat /\ i <= Len(toServer) + 1
  OBVIOUS
<1>1. \A k \in Queue' : k \in Nat /\ (k < i => k \in Queue)
  BY <1>0 DEF Queue
<1>2. \A k \in Queue : \A s :
                          /\ Ret(toServer'[k], s) <=> Ret(toServer[k], s)
                          /\ Cancel(toServer'[k], s) <=> Cancel(toServer[k], s)
                          /\ toServer'[k].type = "craft" <=> toServer[k].type = "craft"
  BY DEF Ret, Cancel
<1>3. ASSUME GridClear(i) PROVE GridClear(i)'
  <2>1. \A s \in 1..Slots : grid[s] > 0 => \E k \in Queue' : k < i /\ Ret(toServer'[k], s)
    BY <1>2, <1>3 DEF GridClear
  <2>2. \A k \in Queue' : k < i /\ toServer'[k].type = "place" =>
          \E h \in Queue' : k < h /\ h < i /\ Ret(toServer'[h], toServer'[k].slot)
    BY <1>1, <1>2, <1>3 DEF GridClear
  <2>3. result > 0 => \E k \in Queue' : k < i /\ Ret(toServer'[k], 0)
    BY <1>2, <1>3 DEF GridClear
  <2>4. \A k \in Queue' : k < i /\ toServer'[k].type = "craft" => \E h \in Queue' : k < h /\ h < i /\ Ret(toServer'[h], 0)
    BY <1>1, <1>2, <1>3 DEF GridClear
  <2> QED
    BY <2>1, <2>2, <2>3, <2>4 DEF GridClear
<1>4. ASSUME NEW n, SlotClear(i, n) PROVE SlotClear(i, n)'
  <2>1. receipt.nonce \notin {0, n} => \E k \in Queue' : k < i /\ Cancel(toServer'[k], receipt.nonce)
    BY <1>2, <1>4 DEF SlotClear
  <2>2. \A k \in Queue' : k < i /\ toServer'[k].type = "prepare" /\ toServer'[k].nonce # n =>
          \E h \in Queue' : k < h /\ h < i /\ Cancel(toServer'[h], toServer'[k].nonce)
    BY <1>1, <1>2, <1>4 DEF SlotClear
  <2> QED
    BY <2>1, <2>2 DEF SlotClear
<1> QED
  BY <1>3, <1>4

\* What was sent is no place, craft or prepare command: it leaves as much as was
\* left ahead of it.
LEMMA PastSent ==
  ASSUME TypeOK, Len(toServer) \in Nat, Len(toServer') \in Nat,
         \A i \in Queue : i \in Queue' /\ i \in Nat /\ i <= Len(toServer),
         \A i \in Queue : toServer'[i] = toServer[i],
         Len(toServer) <= Len(toServer'),
         grid' = grid, result' = result, receipt' = receipt
  PROVE  /\ /\ \A i \in Queue' : i \in Queue \/ toServer'[i].type \notin {"place", "craft"}
            /\ GridClear(Len(toServer) + 1)
            => GridClear(Len(toServer) + 1)'
         /\ \A n : /\ \A i \in Queue' : i \in Queue \/ toServer'[i].type # "prepare"
                                                    \/ toServer'[i].nonce = n
                   /\ SlotClear(Len(toServer) + 1, n)
                   => SlotClear(Len(toServer) + 1, n)'
<1> DEFINE L == Len(toServer)  M == Len(toServer')
<1>1. \A k \in Queue' : k \in Nat /\ k < M + 1
  BY DEF Queue
<1>2. \A k \in Queue : \A s :
                          /\ Ret(toServer'[k], s) <=> Ret(toServer[k], s)
                          /\ Cancel(toServer'[k], s) <=> Cancel(toServer[k], s)
                          /\ toServer'[k].type = "craft" <=> toServer[k].type = "craft"
  BY DEF Ret, Cancel
<1>0. \A k \in Queue : k \in Queue' /\ k \in Nat /\ k < L + 1 /\ k < M + 1
  BY <1>1
<1>3. ASSUME \A i \in Queue' : i \in Queue \/ toServer'[i].type \notin {"place", "craft"},
             GridClear(L + 1)
      PROVE  GridClear(L + 1)'
  <2> HIDE DEF L, M
  <2>1. \A s \in 1..Slots : grid[s] > 0 => \E k \in Queue' : k < M + 1 /\ Ret(toServer'[k], s)
    BY <1>0, <1>2, <1>3 DEF GridClear
  <2>2. \A k \in Queue' : k < M + 1 /\ toServer'[k].type = "place" =>
          \E h \in Queue' : k < h /\ h < M + 1 /\ Ret(toServer'[h], toServer'[k].slot)
    BY <1>0, <1>2, <1>3 DEF GridClear
  <2>3. result > 0 => \E k \in Queue' : k < M + 1 /\ Ret(toServer'[k], 0)
    BY <1>0, <1>2, <1>3 DEF GridClear
  <2>4. \A k \in Queue' : k < M + 1 /\ toServer'[k].type = "craft" => \E h \in Queue' : k < h /\ h < M + 1 /\ Ret(toServer'[h], 0)
    BY <1>0, <1>2, <1>3 DEF GridClear
  <2> QED
    BY <2>1, <2>2, <2>3, <2>4 DEF GridClear, L, M
<1>4. ASSUME NEW n, SlotClear(L + 1, n),
             \A i \in Queue' : i \in Queue \/ toServer'[i].type # "prepare"
                                           \/ toServer'[i].nonce = n
      PROVE  SlotClear(L + 1, n)'
  <2> HIDE DEF L, M
  <2>1. receipt.nonce \notin {0, n} => \E k \in Queue' : k < M + 1 /\ Cancel(toServer'[k], receipt.nonce)
    BY <1>0, <1>2, <1>4 DEF SlotClear
  <2>2. \A k \in Queue' : k < M + 1 /\ toServer'[k].type = "prepare" /\ toServer'[k].nonce # n =>
          \E h \in Queue' : k < h /\ h < M + 1 /\ Cancel(toServer'[h], toServer'[k].nonce)
    BY <1>0, <1>2, <1>4 DEF SlotClear
  <2> QED
    BY <2>1, <2>2 DEF SlotClear, L, M
<1> QED
  BY <1>3, <1>4

\* What is ahead moves up when the first command is taken: it is enough that the
\* command left no more than it was there for.
LEMMA AheadOfTaken ==
  ASSUME TypeOK, toServer # <<>>, toServer' = Tail(toServer),
         NEW i \in 1..(Len(toServer') + 1)
  PROVE  /\ /\ \A s \in 1..Slots : grid'[s] > 0 =>
                 \/ grid[s] > 0 /\ ~Ret(toServer[1], s)
                 \/ toServer[1].type = "place" /\ toServer[1].slot = s
            /\ result' > 0 => \/ result > 0 /\ ~Ret(toServer[1], 0)
                              \/ toServer[1].type = "craft"
            /\ GridClear(i + 1)
            => GridClear(i)'
         /\ \A n :
              /\ receipt'.nonce \notin {0, n} =>
                   \/ receipt.nonce = receipt'.nonce /\ ~Cancel(toServer[1], receipt'.nonce)
                   \/ toServer[1].type = "prepare" /\ toServer[1].nonce = receipt'.nonce
              /\ SlotClear(i + 1, n)
              => SlotClear(i, n)'
<1>1. /\ 1 \in Queue
      /\ Len(toServer') \in Nat
      /\ \A k \in Queue' : /\ k \in Nat /\ k >= 1 /\ k <= Len(toServer')
                           /\ k + 1 \in Queue
                           /\ toServer'[k] = toServer[k + 1]
      /\ \A k \in Queue : k \in Nat /\ (k = 1 \/ (k > 1 /\ k - 1 \in Queue'))
  BY Taken
<1>2. i \in Nat /\ i >= 1
  BY <1>1
<1>3. \A k \in Queue : k # 1 =>
        /\ k - 1 \in Queue' /\ k - 1 \in Nat /\ toServer'[k - 1] = toServer[k]
        /\ (k < i + 1 <=> k - 1 < i)
        /\ \A h \in Queue' : h + 1 < k => h < k - 1
        /\ \A s : Ret(toServer[k], s) => Ret(toServer'[k - 1], s)
        /\ \A s : Cancel(toServer[k], s) => Cancel(toServer'[k - 1], s)
  <2> SUFFICES ASSUME NEW k \in Queue, k # 1
               PROVE  /\ k - 1 \in Queue' /\ k - 1 \in Nat /\ toServer'[k - 1] = toServer[k]
                      /\ (k < i + 1 <=> k - 1 < i)
                      /\ \A h \in Queue' : h + 1 < k => h < k - 1
                      /\ \A s : Ret(toServer[k], s) => Ret(toServer'[k - 1], s)
                      /\ \A s : Cancel(toServer[k], s) => Cancel(toServer'[k - 1], s)
    OBVIOUS
  <2>1. k \in Nat /\ k > 1 /\ k - 1 \in Queue'
    BY <1>1
  <2>2. k - 1 \in Nat /\ k - 1 + 1 = k
    BY <2>1
  <2>3. toServer'[k - 1] = toServer[k]
    BY <2>1, <2>2, <1>1
  <2>4. k < i + 1 <=> k - 1 < i
    BY <2>1, <1>2
  <2>5. \A h \in Queue' : h + 1 < k => h < k - 1
    BY <2>1, <1>1
  <2> QED
    BY <2>1, <2>2, <2>3, <2>4, <2>5 DEF Ret, Cancel
<1>4. \A k \in Queue' : /\ k + 1 \in Queue /\ k + 1 # 1 /\ 1 < k + 1
                        /\ (k < i <=> k + 1 < i + 1)
                        /\ toServer'[k] = toServer[k + 1]
                        /\ toServer'[k].type = "craft" <=> toServer[k + 1].type = "craft"
  BY <1>1, <1>2
<1>5. ASSUME \A s \in 1..Slots : grid'[s] > 0 =>
               \/ grid[s] > 0 /\ ~Ret(toServer[1], s)
               \/ toServer[1].type = "place" /\ toServer[1].slot = s,
             result' > 0 => \/ result > 0 /\ ~Ret(toServer[1], 0)
                            \/ toServer[1].type = "craft",
             GridClear(i + 1)
      PROVE  GridClear(i)'
  <2>0. 1 < i + 1
    BY <1>2
  <2>1. ASSUME NEW s \in 1..Slots, grid'[s] > 0 PROVE \E k \in Queue' : k < i /\ Ret(toServer'[k], s)
    <3>1. \E k \in Queue : k # 1 /\ k < i + 1 /\ Ret(toServer[k], s)
      <4>1. CASE grid[s] > 0 /\ ~Ret(toServer[1], s)
        BY <4>1, <1>5 DEF GridClear
      <4>2. CASE toServer[1].type = "place" /\ toServer[1].slot = s
        BY <4>2, <2>0, <1>1, <1>5 DEF GridClear
      <4> QED
        BY <4>1, <4>2, <1>5, <2>1
    <3> QED
      BY <3>1, <1>3
  <2>2. ASSUME NEW k \in Queue', k < i, toServer'[k].type = "place"
        PROVE  \E h \in Queue' : k < h /\ h < i /\ Ret(toServer'[h], toServer'[k].slot)
    <3>1. PICK h \in Queue : k + 1 < h /\ h < i + 1 /\ Ret(toServer[h], toServer[k + 1].slot)
      BY <2>2, <1>4, <1>5 DEF GridClear
    <3>2. h # 1
      BY <3>1, <1>4, <1>1
    <3> QED
      BY <3>1, <3>2, <1>3, <1>4
  <2>3. ASSUME result' > 0 PROVE \E k \in Queue' : k < i /\ Ret(toServer'[k], 0)
    <3>1. \E k \in Queue : k # 1 /\ k < i + 1 /\ Ret(toServer[k], 0)
      <4>1. CASE result > 0 /\ ~Ret(toServer[1], 0)
        BY <4>1, <1>5 DEF GridClear
      <4>2. CASE toServer[1].type = "craft"
        BY <4>2, <2>0, <1>1, <1>5 DEF GridClear
      <4> QED
        BY <4>1, <4>2, <1>5, <2>3
    <3> QED
      BY <3>1, <1>3
  <2>4. ASSUME NEW k \in Queue', k < i, toServer'[k].type = "craft"
        PROVE  \E h \in Queue' : k < h /\ h < i /\ Ret(toServer'[h], 0)
    <3>1. PICK h \in Queue : k + 1 < h /\ h < i + 1 /\ Ret(toServer[h], 0)
      BY <2>4, <1>4, <1>5 DEF GridClear
    <3>2. h # 1
      BY <3>1, <1>4, <1>1
    <3> QED
      BY <3>1, <3>2, <1>3
  <2> QED
    BY <2>1, <2>2, <2>3, <2>4 DEF GridClear
<1>6. ASSUME NEW n,
             receipt'.nonce \notin {0, n} =>
               \/ receipt.nonce = receipt'.nonce /\ ~Cancel(toServer[1], receipt'.nonce)
               \/ toServer[1].type = "prepare" /\ toServer[1].nonce = receipt'.nonce,
             SlotClear(i + 1, n)
      PROVE  SlotClear(i, n)'
  <2>0. 1 < i + 1
    BY <1>2
  <2>1. ASSUME receipt'.nonce \notin {0, n}
        PROVE  \E k \in Queue' : k < i /\ Cancel(toServer'[k], receipt'.nonce)
    <3>1. \E k \in Queue : k # 1 /\ k < i + 1 /\ Cancel(toServer[k], receipt'.nonce)
      <4>1. CASE receipt.nonce = receipt'.nonce /\ ~Cancel(toServer[1], receipt'.nonce)
        BY <4>1, <2>1, <1>6 DEF SlotClear
      <4>2. CASE toServer[1].type = "prepare" /\ toServer[1].nonce = receipt'.nonce
        BY <4>2, <2>0, <2>1, <1>1, <1>6 DEF SlotClear
      <4> QED
        BY <4>1, <4>2, <1>6, <2>1
    <3> QED
      BY <3>1, <1>3
  <2>2. ASSUME NEW k \in Queue', k < i, toServer'[k].type = "prepare", toServer'[k].nonce # n
        PROVE  \E h \in Queue' : k < h /\ h < i /\ Cancel(toServer'[h], toServer'[k].nonce)
    <3>1. PICK h \in Queue : k + 1 < h /\ h < i + 1 /\ Cancel(toServer[h], toServer[k + 1].nonce)
      BY <2>2, <1>4, <1>6 DEF SlotClear
    <3>2. h # 1
      BY <3>1, <1>4, <1>1
    <3> QED
      BY <3>1, <3>2, <1>3, <1>4
  <2> QED
    BY <2>1, <2>2 DEF SlotClear
<1> QED
  BY <1>5, <1>6

-----------------------------------------------------------------------------
(* The server takes a command *)

\* What only the bot process changes holds of the rest of the queue.
LEMMA ClientSideTaken ==
  ASSUME KeptPart, toServer # <<>>, toServer' = Tail(toServer),
         UNCHANGED <<taskVars, job, answer>>
  PROVE  MovesPart' /\ AskPart'
<1> USE DEF KeptPart, taskVars
<1>1. /\ Len(toServer') = Len(toServer) - 1
      /\ Len(toServer) \in Nat
      /\ \A i \in Queue' : /\ i \in Nat /\ i >= 1 /\ i <= Len(toServer')
                           /\ i + 1 \in Queue
                           /\ toServer'[i] = toServer[i + 1]
  BY Taken
<1>2. MovesPart'
  BY <1>1 DEF MovesPart, Prepared
<1>3. AskPart'
  <2>1. ASSUME NEW i \in Queue', toServer'[i].type = "prepare", toServer'[i].nonce = nonce'
        PROVE  i = Len(toServer') /\ phase' = "preparing"
    <3>1. i + 1 = Len(toServer) /\ phase = "preparing"
      BY <1>1, <2>1 DEF AskPart
    <3> QED
      BY <1>1, <3>1
  <2>2. ASSUME NEW i \in Queue', toServer'[i].type = "receipt", toServer'[i].nonce = nonce'
        PROVE  /\ phase' \in {"waiting", "requested"}
               /\ \A k \in Queue' : k >= i => toServer'[k].type = "receipt"
    <3>1. /\ phase \in {"waiting", "requested"}
          /\ \A k \in Queue : k >= i + 1 => toServer[k].type = "receipt"
      BY <1>1, <2>2 DEF AskPart
    <3> QED
      BY <1>1, <3>1
  <2> QED
    BY <2>1, <2>2 DEF AskPart
<1> QED
  BY <1>2, <1>3

\* Ids: a reply or a receipt has that of the command that was taken.
LEMMA NonceTaken ==
  ASSUME KeptPart, toServer # <<>>, toServer' = Tail(toServer), UNCHANGED taskVars,
         \A r \in toClient' : r \in toClient \/ r.nonce < nextId,
         receipt'.nonce < nextId, receipt'.nonce = 0 => receipt' = NoReceipt,
         helper' = helper, helper = "missing" => receipt' = receipt
  PROVE  NoncePart'
  BY Taken DEF KeptPart, NoncePart, taskVars

\* Only the job of the command that was taken gets anything.
LEMMA JobTaken ==
  ASSUME KeptPart, toServer # <<>>, toServer' = Tail(toServer),
         UNCHANGED <<taskVars, job, answer>>,
         \A j \in Jobs : j > job => /\ delivered'[j] = delivered[j]
                                    /\ j \in consumed' => j \in consumed
  PROVE  JobPart'
<1> USE DEF KeptPart, taskVars
<1>1. \A i \in Queue' : i + 1 \in Queue /\ toServer'[i] = toServer[i + 1]
  BY Taken
<1>2. \A j \in Jobs : j > job => answer[j] = Promise!Open /\ delivered'[j] = 0 /\ j \notin consumed'
  BY DEF JobPart
<1>3. /\ phase # "idle" => job \in Jobs /\ answer[job] = Promise!Open
      /\ \A j \in Jobs : j <= job => answer[j] # Promise!Open \/ (j = job /\ phase # "idle")
  BY DEF JobPart
<1>4. \A i \in Queue' : toServer'[i].job <= job
  BY <1>1 DEF JobPart
<1>5. ASSUME NEW i \in Queue', toServer'[i].type = "place" PROVE toServer'[i].slot # 0
  <2>1. \A k \in Queue : toServer[k].type = "place" => toServer[k].slot # 0
    BY DEF JobPart
  <2> QED
    BY <2>1, <1>1, <1>5
<1>6. ASSUME phase = "preparing", NEW i \in Queue', toServer'[i].type \in Moving
      PROVE  toServer'[i].job # job
  BY <1>1, <1>6 DEF JobPart
<1> QED
  BY <1>2, <1>3, <1>4, <1>5, <1>6 DEF JobPart

LEMMA ConsumedTaken ==
  ASSUME KeptPart, toServer # <<>>, toServer' = Tail(toServer),
         UNCHANGED <<taskVars, job, answer>>,
         \A j \in consumed' : \/ j \in consumed
                              \/ toServer[1].type = "craft" /\ j = toServer[1].job
  PROVE  ConsumedPart'
<1> USE DEF KeptPart, taskVars
<1>1. 1 \in Queue /\ \A i \in Queue' : i + 1 \in Queue /\ toServer'[i] = toServer[i + 1]
  BY Taken
<1>2. \A j : Unsure(j)' <=> Unsure(j)
  BY DEF Unsure, Dispatched
<1> QED
  BY <1>1, <1>2 DEF ConsumedPart

\* Nothing has moved out of or into the result slot.
LEMMA ResultsTaken ==
  ASSUME KeptPart, toServer # <<>>, toServer' = Tail(toServer),
         UNCHANGED <<taskVars, result, job, plan, delivered, answer>>
  PROVE  CraftPart' /\ OwnerPart' /\ CertainPart'
<1> USE DEF KeptPart, taskVars
<1>1. /\ \A i \in Queue' : /\ i \in Nat /\ i + 1 \in Queue
                           /\ toServer'[i] = toServer[i + 1]
      /\ \A i, k \in Queue' : /\ i < k => i + 1 < k + 1
                              /\ i + 1 = k + 1 => i = k
  BY Taken
<1>2. CraftPart'
  <2>1. ASSUME NEW i \in Queue', toServer'[i].type = "craft"
        PROVE  /\ result' = 0 /\ delivered'[toServer'[i].job] = 0
               /\ \A k \in Queue' : toServer'[k].type = "craft" => k = i
               /\ \A k \in Queue' : k < i => toServer'[k].type \notin {"take", "return", "prepare"}
    <3>1. /\ result = 0 /\ delivered[toServer[i + 1].job] = 0
          /\ \A k \in Queue : toServer[k].type = "craft" => k = i + 1
          /\ \A k \in Queue : k < i + 1 => toServer[k].type \notin {"take", "return", "prepare"}
      BY <1>1, <2>1 DEF CraftPart
    <3>2. \A k \in Queue' : toServer'[k].type = "craft" => k = i
      BY <3>1, <1>1
    <3>3. \A k \in Queue' : k < i => toServer'[k].type \notin {"take", "return", "prepare"}
      BY <3>1, <1>1
    <3> QED
      BY <3>1, <3>2, <3>3, <1>1
  <2>2. phase' \in {"preparing", "placing"} => delivered'[job'] = 0
    BY DEF CraftPart
  <2>3. phase' = "placing" =>
          /\ result' = 0
          /\ \A i \in Queue' : toServer'[i].type \notin {"craft", "take", "return", "prepare"}
    BY <1>1 DEF CraftPart
  <2>4. phase' = "crafting" =>
          \A i \in Queue' : toServer'[i].type \notin {"take", "return", "prepare"}
    BY <1>1 DEF CraftPart
  <2> QED
    BY <2>1, <2>2, <2>3, <2>4 DEF CraftPart
<1>3. OwnerPart'
  BY <1>1 DEF OwnerPart, Prepared
<1>4. CertainPart'
  BY <1>1 DEF CertainPart
<1> QED
  BY <1>2, <1>3, <1>4

\* A packet was taken: no reply that tells of the current task has been sent yet.
LEMMA TellTaken ==
  ASSUME KeptPart, toServer # <<>>, toServer' = Tail(toServer),
         UNCHANGED <<taskVars, toClient>>, toServer[1].type \in Moving
  PROVE  TellPart'
<1> USE DEF KeptPart, taskVars
<1>1. 1 \in Queue /\ toServer[1].type # "receipt"
  BY Taken DEF Moving
<1> QED
  BY <1>1 DEF TellPart

LEMMA ClearTaken ==
  ASSUME KeptPart, ClearPart, toServer # <<>>, toServer' = Tail(toServer),
         UNCHANGED taskVars,
         ~stuck' => ~stuck,
         ~stuck' => \A s \in 1..Slots : grid'[s] > 0 =>
                       \/ grid[s] > 0 /\ ~Ret(toServer[1], s)
                       \/ toServer[1].type = "place" /\ toServer[1].slot = s,
         ~stuck' => (result' > 0 => \/ result > 0 /\ ~Ret(toServer[1], 0)
                                    \/ toServer[1].type = "craft"),
         receipt'.nonce # 0 =>
           \/ receipt.nonce = receipt'.nonce /\ ~Cancel(toServer[1], receipt'.nonce)
           \/ toServer[1].type = "prepare" /\ toServer[1].nonce = receipt'.nonce
  PROVE  ClearPart'
<1> USE DEF KeptPart, taskVars
<1> SUFFICES ASSUME ~stuck' PROVE ClearPart'
  BY DEF ClearPart
<1>1. /\ Len(toServer') \in Nat /\ Len(toServer') + 1 + 1 = Len(toServer) + 1
      /\ \A i \in Queue' : /\ i \in 1..(Len(toServer') + 1)
                           /\ i + 1 \in Queue /\ toServer'[i] = toServer[i + 1]
      /\ Len(toServer') + 1 \in 1..(Len(toServer') + 1)
  BY Taken
<1>2. /\ \A i \in Queue : toServer[i].type = "prepare" => GridClear(i) /\ SlotClear(i, 0)
      /\ phase \in {"idle", "preparing"} => GridClear(Len(toServer) + 1)
      /\ SlotClear(Len(toServer) + 1, nonce)
  BY DEF ClearPart
<1>3. ASSUME NEW i \in 1..(Len(toServer') + 1)
      PROVE  /\ GridClear(i + 1) => GridClear(i)'
             /\ SlotClear(i + 1, 0) => SlotClear(i, 0)'
  BY AheadOfTaken
<1>4. ASSUME NEW i \in Queue', toServer'[i].type = "prepare" PROVE GridClear(i)' /\ SlotClear(i, 0)'
  <2>1. GridClear(i + 1) /\ SlotClear(i + 1, 0)
    BY <1>1, <1>2, <1>4
  <2> QED
    BY <2>1, <1>1, <1>3
<1>5. PICK m \in 1..(Len(toServer') + 1) : m = Len(toServer') + 1 /\ m + 1 = Len(toServer) + 1
  BY <1>1
<1>6. phase' \in {"idle", "preparing"} => GridClear(Len(toServer) + 1)'
  <2>1. phase \in {"idle", "preparing"} => GridClear(m + 1)
    BY <1>2, <1>5 DEF GridClear
  <2>2. phase \in {"idle", "preparing"} => GridClear(m)'
    BY <2>1, <1>3
  <2> QED
    BY <2>2, <1>5 DEF GridClear
<1>7. SlotClear(Len(toServer) + 1, nonce)'
  <2>1. PICK n : n = nonce
    OBVIOUS
  <2>2. SlotClear(m + 1, n)
    BY <2>1, <1>2, <1>5 DEF SlotClear
  <2>3. SlotClear(m + 1, n) => SlotClear(m, n)'
    BY <2>1, AheadOfTaken
  <2> QED
    BY <2>1, <2>2, <2>3, <1>5 DEF SlotClear
<1> QED
  BY <1>4, <1>6, <1>7 DEF ClearPart

\* The helper has taken a command: what it may have changed is its receipt and
\* what it has told.
LEMMA AskedPreserves ==
  ASSUME IInv, toServer # <<>>, toServer' = Tail(toServer),
         UNCHANGED <<taskVars, helper, gridVars, historyVars>>,
         toClient' \subseteq Replies,
         \A r \in toClient' : r \in toClient \/ r.nonce < nextId,
         receipt' \in Receipts,
         receipt'.nonce = 0 => receipt' = NoReceipt,
         helper = "missing" => receipt' = receipt,
         toServer[1].type \in Asking,
         receipt'.nonce # 0 =>
           \/ receipt.nonce = receipt'.nonce /\ ~Cancel(toServer[1], receipt'.nonce)
           \/ toServer[1].type = "prepare" /\ toServer[1].nonce = receipt'.nonce,
         TellPart', RecordPart'
  PROVE  IInv'
<1> USE DEF IInv, taskVars, gridVars, historyVars
<1>0. KeptPart /\ ClearPart /\ TypeOK
  BY DEF KeptPart
<1>1. 1 \in Queue /\ toServer' \in Seq(Commands) /\ toServer[1] \in Commands
  BY <1>0, Taken
<1>2. TypeOK'
  BY <1>0, <1>1 DEF TypeOK
<1>3. NoncePart'
  <2>1. /\ nextId \in Nat \ {0} /\ receipt.nonce < nextId
        /\ toServer[1].nonce < nextId
    BY <1>0, <1>1 DEF KeptPart, NoncePart
  <2>2. receipt'.nonce < nextId
    BY <2>1
  <2> QED
    BY <1>0, <2>2, NonceTaken
<1>4. JobPart' /\ ConsumedPart' /\ MovesPart' /\ AskPart'
  BY <1>0, JobTaken, ConsumedTaken, ClientSideTaken
<1>5. CraftPart' /\ OwnerPart' /\ CertainPart'
  BY <1>0, ResultsTaken
<1>6. ClearPart'
  <2>1. /\ \A s \in 1..Slots : ~Ret(toServer[1], s)
        /\ ~Ret(toServer[1], 0)
    BY DEF Ret, Asking
  <2> QED
    BY <1>0, <2>1, ClearTaken
<1> QED
  BY <1>2, <1>3, <1>4, <1>5, <1>6 DEF KeptPart

LEMMA RepliesAreTyped ==
  ASSUME NEW type \in {"prepare", "receipt"}, NEW n \in Nat,
         NEW status \in {"ok", "pending", "failed"}, NEW count \in 0..MaxProduced
  PROVE  /\ Reply(type, n, status, count) \in Replies
         /\ Reply(type, n, status, count).type = type
         /\ Reply(type, n, status, count).nonce = n
         /\ Reply(type, n, status, count).status = status
         /\ Reply(type, n, status, count).count = count
         /\ Unreadable \in Replies
         /\ Unreadable.type = "unreadable" /\ Unreadable.nonce = 0
  BY Largest DEF Reply, Unreadable, Replies

LEMMA ServerCancelPreserves == IInv /\ ServerCancel => IInv'
<1> SUFFICES ASSUME IInv, ServerCancel PROVE IInv'
  OBVIOUS
<1> USE DEF ServerCancel, Take
<1>1. KeptPart /\ TypeOK
  BY DEF IInv, KeptPart
<1>2. /\ Head(toServer) = toServer[1] /\ 1 \in Queue
      /\ \A i \in Queue' : i + 1 \in Queue /\ toServer'[i] = toServer[i + 1]
  BY <1>1, Taken
<1>3. receipt' \in Receipts /\ (receipt' = receipt \/ receipt' = NoReceipt)
  BY <1>1, ReceiptsAreTyped DEF TypeOK
<1>4. receipt'.nonce = 0 => receipt' = NoReceipt
  BY <1>1, <1>3 DEF KeptPart, NoncePart
<1>5. receipt'.nonce # 0 => receipt.nonce = receipt'.nonce /\ ~Cancel(toServer[1], receipt'.nonce)
  BY <1>2, ReceiptsAreTyped DEF Cancel
<1>6. TellPart'
  <2>1. toServer[1].type # "receipt"
    BY <1>2
  <2> QED
    BY <1>1, <1>2, <2>1 DEF KeptPart, TellPart, taskVars
<1>7. RecordPart'
  <2>1. receipt' = NoReceipt => nonce = 0 \/ receipt'.nonce # nonce
    BY ReceiptsAreTyped
  <2>2. toServer # <<>>
    OBVIOUS
  <2> QED
    BY <1>1, <1>3, <2>1, <2>2 DEF KeptPart, RecordPart, taskVars, historyVars
<1>8. toServer[1].type \in Asking
  BY <1>2 DEF Asking
<1>9. toClient' \subseteq Replies /\ \A r \in toClient' : r \in toClient
  BY <1>1 DEF TypeOK
<1> QED
  BY <1>2, <1>3, <1>4, <1>5, <1>6, <1>7, <1>8, <1>9, AskedPreserves

LEMMA ServerUnsupportedPreserves == IInv /\ ServerUnsupported => IInv'
<1> SUFFICES ASSUME IInv, ServerUnsupported PROVE IInv'
  OBVIOUS
<1> USE DEF ServerUnsupported, Take
<1>0. UNCHANGED <<taskVars, helper, receipt, gridVars, historyVars>> /\ Send(Unreadable)
  OBVIOUS
<1>1. KeptPart /\ TypeOK
  BY DEF IInv, KeptPart
<1>2. toServer # <<>> /\ toServer' = Tail(toServer) /\ Head(toServer).type \in {"prepare", "receipt", "cancel"}
  OBVIOUS
<1>3. /\ Head(toServer) = toServer[1] /\ 1 \in Queue
      /\ \A i \in Queue' : i + 1 \in Queue /\ toServer'[i] = toServer[i + 1]
  BY <1>1, <1>2, Taken
<1>4. toServer[1].type \in Asking
  BY <1>2, <1>3 DEF Asking
<1>5. /\ Unreadable \in Replies /\ Unreadable.type = "unreadable" /\ Unreadable.nonce = 0
  BY Largest DEF Reply, Unreadable, Replies
<1>6. \A r \in toClient' : r \in toClient \/ r = Unreadable
  BY <1>0 DEF Send
<1>7. /\ toClient' \subseteq Replies
      /\ nextId > 0
      /\ \A r \in toClient' : r \in toClient \/ r.nonce < nextId
  BY <1>1, <1>5, <1>6 DEF KeptPart, NoncePart, TypeOK
<1>8. receipt \in Receipts /\ (receipt.nonce = 0 => receipt = NoReceipt)
  BY <1>1 DEF KeptPart, NoncePart, TypeOK
<1>9. TellPart /\ RecordPart
  BY <1>1 DEF KeptPart
<1>10. receipt = NoReceipt
  BY <1>1 DEF KeptPart, NoncePart
<1>11. TellPart'
  <2>1. \A r \in toClient' : r \in toClient \/ r.type = "unreadable"
    BY <1>5, <1>6
  <2>2. ASSUME NEW r \in toClient', r \in toClient,
               r.type = "receipt", r.status = "ok", r.nonce = nonce, phase # "idle"
        PROVE  /\ phase \in {"waiting", "requested"}
               /\ \A i \in Queue' : toServer'[i].type = "receipt"
               /\ result = 0 /\ grid = EmptyGrid /\ receipt = NoReceipt
               /\ delivered[job] = Produced(plan[job]) /\ r.count = delivered[job]
    BY <1>3, <1>9, <2>2 DEF TellPart
  <2>3. ASSUME NEW r \in toClient', r \in toClient,
               r.type = "prepare", r.status = "ok", r.nonce = nonce, phase = "preparing"
        PROVE  FALSE
    BY <1>2, <1>9, <2>3 DEF TellPart
  <2> QED
    BY <1>0, <2>1, <2>2, <2>3 DEF TellPart, taskVars, gridVars, historyVars
<1>12. RecordPart'
  BY <1>0, <1>10, ReceiptsAreTyped DEF RecordPart, taskVars, historyVars
<1>13. receipt' = receipt /\ receipt'.nonce = 0
  BY <1>0, <1>10, ReceiptsAreTyped
<1> QED
  BY <1>0, <1>2, <1>4, <1>7, <1>8, <1>11, <1>12, <1>13, AskedPreserves

\* What the helper has just told is the only news.
LEMMA SentReply ==
  ASSUME TypeOK, NEW r \in Replies, Send(r)
  PROVE  /\ toClient' \subseteq Replies
         /\ \A m \in toClient' : m \in toClient \/ m = r \/ m = Unreadable
         /\ Unreadable \in Replies /\ Unreadable.type = "unreadable" /\ Unreadable.nonce = 0
<1>1. /\ Unreadable \in Replies /\ Unreadable.type = "unreadable" /\ Unreadable.nonce = 0
  BY Largest DEF Reply, Unreadable, Replies
<1> QED
  BY <1>1 DEF Send, TypeOK

LEMMA PreparedReceipt ==
  ASSUME NEW n \in Nat, NEW r, r = [NoReceipt EXCEPT !.nonce = n, !.stage = "ingredients"]
  PROVE  r \in Receipts /\ r.nonce = n /\ r.stage = "ingredients" /\ r.moved = 0
<1>1. r = [nonce |-> n, stage |-> "ingredients", next |-> 1, crafted |-> 0, moved |-> 0]
  BY DEF NoReceipt
<1>2. 1 \in 1..(Slots + 1) /\ 0 \in 0..MaxProduced
  BY Counts, Largest
<1>3. [nonce |-> n, stage |-> "ingredients", next |-> 1, crafted |-> 0, moved |-> 0] \in Receipts
  BY <1>2 DEF Receipts
<1>4. r.nonce = n /\ r.stage = "ingredients" /\ r.moved = 0
  BY ONLY <1>1
<1> QED
  BY <1>1, <1>3, <1>4

LEMMA ServerPreparePreserves == IInv /\ ServerPrepare => IInv'
<1> SUFFICES ASSUME IInv, ServerPrepare PROVE IInv'
  OBVIOUS
<1> USE DEF ServerPrepare, Take
<1>1. KeptPart /\ TypeOK
  BY DEF IInv, KeptPart
<1>2. toServer # <<>> /\ toServer' = Tail(toServer) /\ Head(toServer).type = "prepare"
  OBVIOUS
<1> DEFINE c == toServer[1]
<1>3. /\ Head(toServer) = c /\ 1 \in Queue /\ c \in Commands
      /\ \A i \in Queue' : i \in Nat /\ i + 1 \in Queue /\ toServer'[i] = toServer[i + 1]
      /\ Len(toServer') = Len(toServer) - 1 /\ Len(toServer) \in Nat
      /\ toServer' \in Seq(Commands)
  BY <1>1, <1>2, Taken
<1>4. UNCHANGED <<taskVars, helper, gridVars, historyVars>> /\ helper # "missing"
  OBVIOUS
<1>5. c.type = "prepare" /\ c.nonce \in Nat /\ c.job \in Jobs
  BY <1>2, <1>3 DEF Commands
<1>6. c.nonce # 0 /\ c.nonce < nextId /\ nextId \in Nat
  BY <1>1, <1>3, <1>5 DEF KeptPart, NoncePart, Asking
<1>7. Produced(plan[c.job]) \in 0..MaxProduced /\ 0 \in 0..MaxProduced
  BY <1>1, <1>5, JobIsPlanned, Largest
<1> DEFINE ok == Reply("prepare", c.nonce, "ok", Produced(plan[c.job]))
           no == Reply("prepare", c.nonce, "failed", 0)
           new == [NoReceipt EXCEPT !.nonce = c.nonce, !.stage = "ingredients"]
<1>8. /\ ok \in Replies /\ ok.type = "prepare" /\ ok.nonce = c.nonce
      /\ no \in Replies /\ no.type = "prepare" /\ no.nonce = c.nonce /\ no.status = "failed"
  BY <1>5, <1>7, RepliesAreTyped
<1>9. \/ /\ receipt = NoReceipt /\ grid = EmptyGrid /\ result = 0
         /\ receipt' = new /\ Send(ok)
      \/ Send(no) /\ receipt' = receipt
  BY <1>3
<1>10. /\ new \in Receipts /\ new.nonce = c.nonce /\ new.stage = "ingredients" /\ new.moved = 0
  BY <1>5, PreparedReceipt
<1> HIDE DEF ok, no, new
<1>11. /\ toClient' \subseteq Replies
       /\ \A r \in toClient' : \/ r \in toClient
                               \/ r.type = "unreadable" /\ r.nonce = 0
                               \/ r.type = "prepare" /\ r.nonce = c.nonce
                                  /\ (r.status = "ok" => /\ grid = EmptyGrid /\ result = 0
                                                         /\ receipt' = new)
  BY <1>1, <1>8, <1>9, SentReply
<1>12. \A r \in toClient' : r \in toClient \/ r.nonce < nextId
  BY <1>5, <1>6, <1>11
<1>13. receipt' \in Receipts /\ (receipt'.nonce = 0 => receipt' = NoReceipt)
  BY <1>1, <1>6, <1>9, <1>10 DEF KeptPart, NoncePart, TypeOK
<1>14. receipt'.nonce # 0 =>
         \/ receipt.nonce = receipt'.nonce /\ ~Cancel(toServer[1], receipt'.nonce)
         \/ toServer[1].type = "prepare" /\ toServer[1].nonce = receipt'.nonce
  BY <1>5, <1>9, <1>10 DEF Cancel
<1>15. c.nonce = nonce => toServer' = <<>> /\ phase = "preparing"
  <2>1. ASSUME c.nonce = nonce PROVE toServer' = <<>> /\ phase = "preparing"
    <3>1. 1 = Len(toServer) /\ phase = "preparing"
      BY <1>1, <1>3, <1>5, <2>1 DEF KeptPart, AskPart
    <3> QED
      BY <3>1, <1>3, EmptySeq
  <2> QED
    BY <2>1
<1>16. TellPart'
  <2>1. ASSUME NEW r \in toClient', r.type = "prepare", r.status = "ok", r.nonce = nonce,
               phase = "preparing"
        PROVE  toServer' = <<>> /\ result = 0 /\ grid = EmptyGrid
    <3>1. r \notin toClient
      BY <1>1, <1>2, <2>1 DEF KeptPart, TellPart
    <3> QED
      BY <3>1, <2>1, <1>11, <1>15
  <2>2. ASSUME NEW r \in toClient', r.type = "receipt", r.status = "ok", r.nonce = nonce,
               phase # "idle"
        PROVE  FALSE
    <3>1. r \in toClient
      BY <2>2, <1>11
    <3> QED
      BY <1>1, <1>3, <1>5, <3>1, <2>2 DEF KeptPart, TellPart
  <2> QED
    BY <1>4, <2>1, <2>2 DEF TellPart, taskVars, gridVars, historyVars
<1>17. RecordPart'
  <2>1. ASSUME nonce # 0, receipt'.nonce = nonce
        PROVE  /\ phase = "preparing" => toServer' = <<>>
               /\ receipt'.moved <= delivered[job]
               /\ receipt'.stage = "verify" => receipt'.moved = Produced(plan[job])
    <3>1. CASE receipt' = receipt
      BY <1>1, <1>2, <2>1, <3>1, EmptySeq DEF KeptPart, RecordPart
    <3>2. CASE receipt' = new
      <4>1. phase = "preparing" /\ toServer' = <<>>
        BY <2>1, <3>2, <1>10, <1>15
      <4>2. job \in Jobs /\ delivered[job] = 0
        BY <1>1, <4>1 DEF KeptPart, JobPart, CraftPart
      <4> QED
        BY <4>1, <4>2, <3>2, <1>10
    <3> QED
      BY <3>1, <3>2, <1>9
  <2> QED
    BY <1>4, <2>1 DEF RecordPart, taskVars, historyVars
<1>18. c.type \in Asking
  BY <1>5 DEF Asking
<1> QED
  BY <1>2, <1>4, <1>11, <1>12, <1>13, <1>14, <1>16, <1>17, <1>18, AskedPreserves

LEMMA ServerReceiptPreserves == IInv /\ ServerReceipt => IInv'
<1> SUFFICES ASSUME IInv, ServerReceipt PROVE IInv'
  OBVIOUS
<1> USE DEF ServerReceipt, Take
<1>1. KeptPart /\ TypeOK
  BY DEF IInv, KeptPart
<1>2. toServer # <<>> /\ toServer' = Tail(toServer) /\ Head(toServer).type = "receipt"
  OBVIOUS
<1> DEFINE c == toServer[1]
<1>3. /\ Head(toServer) = c /\ 1 \in Queue /\ c \in Commands
      /\ \A i \in Queue' : /\ i \in Nat /\ i >= 1 /\ i + 1 >= 1
                           /\ i + 1 \in Queue /\ toServer'[i] = toServer[i + 1]
  BY <1>1, <1>2, Taken
<1>4. UNCHANGED <<taskVars, helper, gridVars, historyVars>> /\ helper # "missing"
  OBVIOUS
<1>5. c.type = "receipt" /\ c.nonce \in Nat
  BY <1>2, <1>3 DEF Commands
<1>6. c.nonce # 0 /\ c.nonce < nextId /\ nextId \in Nat
  BY <1>1, <1>3, <1>5 DEF KeptPart, NoncePart, Asking
<1>7. /\ receipt \in Receipts /\ receipt.moved \in 0..MaxProduced /\ 0 \in 0..MaxProduced
  BY <1>1, Largest DEF TypeOK, Receipts
<1> DEFINE ok == Reply("receipt", c.nonce, "ok", receipt.moved)
           wait == Reply("receipt", c.nonce, "pending", 0)
           no == Reply("receipt", c.nonce, "failed", 0)
           bad == [receipt EXCEPT !.stage = "error"]
<1>8. /\ ok \in Replies /\ ok.type = "receipt" /\ ok.nonce = c.nonce /\ ok.count = receipt.moved
      /\ no \in Replies /\ no.type = "receipt" /\ no.nonce = c.nonce /\ no.status = "failed"
      /\ wait \in Replies /\ wait.type = "receipt" /\ wait.nonce = c.nonce /\ wait.status = "pending"
  BY <1>5, <1>7, RepliesAreTyped
<1>9. \/ /\ receipt.nonce = c.nonce /\ receipt.stage = "verify" /\ grid = EmptyGrid /\ result = 0
         /\ receipt' = NoReceipt /\ Send(ok)
      \/ receipt.nonce = c.nonce /\ receipt' = bad /\ Send(no)
      \/ receipt' = receipt /\ (Send(wait) \/ Send(no))
  BY <1>3
<1>10. /\ bad \in Receipts /\ bad.nonce = receipt.nonce /\ bad.stage = "error"
       /\ bad.moved = receipt.moved
  BY <1>7 DEF Receipts
<1> DEFINE Finished == /\ receipt.nonce = c.nonce /\ receipt.stage = "verify"
                       /\ grid = EmptyGrid /\ result = 0 /\ receipt' = NoReceipt
<1> HIDE DEF ok, no, wait, bad
<1>11. /\ toClient' \subseteq Replies
       /\ \A r \in toClient' : \/ r \in toClient
                               \/ r.type = "unreadable" /\ r.nonce = 0
                               \/ r.type = "receipt" /\ r.nonce = c.nonce
                                  /\ (r.status = "ok" => Finished /\ r.count = receipt.moved)
  BY <1>1, <1>8, <1>9, SentReply
<1>12. \A r \in toClient' : r \in toClient \/ r.nonce < nextId
  BY <1>5, <1>6, <1>11
<1>13. receipt' \in Receipts /\ (receipt'.nonce = 0 => receipt' = NoReceipt)
  BY <1>1, <1>6, <1>7, <1>9, <1>10, ReceiptsAreTyped DEF KeptPart, NoncePart
<1>14. receipt'.nonce # 0 => receipt.nonce = receipt'.nonce /\ ~Cancel(toServer[1], receipt'.nonce)
  BY <1>5, <1>9, <1>10, ReceiptsAreTyped DEF Cancel
<1>15. TellPart'
  <2>1. ASSUME NEW r \in toClient', r.type = "prepare", r.status = "ok", r.nonce = nonce,
               phase = "preparing"
        PROVE  FALSE
    <3>1. r \in toClient
      BY <2>1, <1>11
    <3> QED
      BY <1>1, <1>2, <2>1, <3>1 DEF KeptPart, TellPart
  <2>2. ASSUME NEW r \in toClient', r.type = "receipt", r.status = "ok", r.nonce = nonce,
               phase # "idle"
        PROVE  /\ phase \in {"waiting", "requested"}
               /\ \A i \in Queue' : toServer'[i].type = "receipt"
               /\ result = 0 /\ grid = EmptyGrid /\ receipt' = NoReceipt
               /\ delivered[job] = Produced(plan[job]) /\ r.count = delivered[job]
    <3>1. CASE r \in toClient
      <4>1. /\ phase \in {"waiting", "requested"}
            /\ \A i \in Queue : toServer[i].type = "receipt"
            /\ result = 0 /\ grid = EmptyGrid /\ receipt = NoReceipt
            /\ delivered[job] = Produced(plan[job]) /\ r.count = delivered[job]
        BY <1>1, <2>2, <3>1 DEF KeptPart, TellPart
      <4>2. receipt' = NoReceipt
        BY <4>1, <1>6, <1>9, ReceiptsAreTyped
      <4> QED
        BY <4>1, <4>2, <1>3
    <3>2. CASE r \notin toClient
      <4>1. r.nonce = c.nonce /\ Finished /\ r.count = receipt.moved
        BY <2>2, <3>2, <1>11
      <4>2. c.nonce = nonce /\ nonce # 0
        BY <4>1, <2>2, <1>6
      <4>3. /\ phase \in {"waiting", "requested"}
            /\ \A k \in Queue : k >= 1 => toServer[k].type = "receipt"
        BY <4>2, <1>1, <1>3, <1>5 DEF KeptPart, AskPart
      <4>4. job \in Jobs /\ receipt.moved <= delivered[job] /\ receipt.moved = Produced(plan[job])
        BY <4>1, <4>2, <2>2, <1>1 DEF KeptPart, RecordPart, JobPart
      <4>5. result + delivered[job] <= Produced(plan[job])
        BY <4>3, <1>1 DEF KeptPart, OwnerPart, Prepared
      <4>6. delivered[job] = Produced(plan[job])
        BY <4>1, <4>4, <4>5, <1>1, JobIsPlanned
      <4>7. \A i \in Queue' : toServer'[i].type = "receipt"
        BY <4>3, <1>3
      <4> QED
        BY <4>1, <4>3, <4>4, <4>6, <4>7
    <3> QED
      BY <3>1, <3>2
  <2> QED
    BY <1>4, <2>1, <2>2 DEF TellPart, taskVars, gridVars, historyVars
<1>16. RecordPart'
  <2>1. ASSUME nonce # 0, receipt'.nonce = nonce
        PROVE  /\ phase = "preparing" => toServer' = <<>>
               /\ receipt'.moved <= delivered[job]
               /\ receipt'.stage = "verify" => receipt'.moved = Produced(plan[job])
    <3>1. receipt' # NoReceipt
      BY <2>1, ReceiptsAreTyped
    <3>2. receipt.nonce = nonce /\ (receipt' = receipt \/ receipt' = bad)
      BY <2>1, <3>1, <1>9, <1>10
    <3>3. /\ phase # "preparing"
          /\ receipt.moved <= delivered[job]
          /\ receipt.stage = "verify" => receipt.moved = Produced(plan[job])
      BY <1>1, <1>2, <2>1, <3>2 DEF KeptPart, RecordPart
    <3> QED
      BY <3>2, <3>3, <1>10
  <2> QED
    BY <1>4, <2>1 DEF RecordPart, taskVars, historyVars
<1>17. c.type \in Asking
  BY <1>5 DEF Asking
<1> QED
  BY <1>2, <1>4, <1>11, <1>12, <1>13, <1>14, <1>15, <1>16, <1>17, AskedPreserves

LEMMA ReceiptExpiresPreserves == IInv /\ ReceiptExpires => IInv'
<1> SUFFICES ASSUME IInv, ReceiptExpires PROVE IInv'
  OBVIOUS
<1> USE DEF ReceiptExpires, taskVars, gridVars, historyVars
<1>1. KeptPart
  BY DEF IInv
<1> USE DEF KeptPart
<1>2. TypeOK'
  BY <1>1, ReceiptsAreTyped DEF TypeOK
<1>3. NoncePart'
  BY <1>1, ReceiptsAreTyped DEF NoncePart, Queue
<1>4. JobPart' /\ ConsumedPart' /\ MovesPart' /\ CraftPart' /\ OwnerPart' /\ CertainPart' /\ AskPart'
  BY <1>1 DEF JobPart, ConsumedPart, MovesPart, CraftPart, OwnerPart, CertainPart, AskPart,
              Unsure, Queue, Prepared, Dispatched
<1>5. TellPart' /\ RecordPart'
  BY <1>1, ReceiptsAreTyped DEF TellPart, RecordPart, Queue
<1>6. ClearPart'
  BY ReceiptsAreTyped DEF IInv, ClearPart, GridClear, SlotClear, Queue
<1> QED
  BY <1>2, <1>3, <1>4, <1>5, <1>6 DEF IInv

\* The engine has taken a packet of job c.job, and only that job's results have
\* changed; the receipt that follows it stays that of its task.
LEMMA PacketPreserves ==
  ASSUME IInv, toServer # <<>>, toServer' = Tail(toServer),
         UNCHANGED <<taskVars, helper, toClient, job, plan, answer>>,
         toServer[1].type \in Moving,
         receipt' \in Receipts, receipt'.nonce = receipt.nonce,
         receipt.stage = "none" => receipt' = receipt,
         grid' \in [1..Slots -> 0..MaxBatches], result' \in 0..MaxProduced,
         delivered' \in [Jobs -> 0..MaxProduced], stuck' \in BOOLEAN,
         \A j \in Jobs : j # toServer[1].job => delivered'[j] = delivered[j],
         \/ consumed' = consumed
         \/ toServer[1].type = "craft" /\ consumed' = consumed \cup {toServer[1].job},
         CraftPart', OwnerPart', CertainPart', RecordPart',
         ~stuck' => ~stuck,
         ~stuck' => \A s \in 1..Slots : grid'[s] > 0 =>
                       \/ grid[s] > 0 /\ ~Ret(toServer[1], s)
                       \/ toServer[1].type = "place" /\ toServer[1].slot = s,
         ~stuck' => (result' > 0 => \/ result > 0 /\ ~Ret(toServer[1], 0)
                                    \/ toServer[1].type = "craft")
  PROVE  IInv'
<1>0. KeptPart /\ ClearPart /\ TypeOK
  BY DEF IInv, KeptPart
<1>1. /\ 1 \in Queue /\ toServer' \in Seq(Commands) /\ toServer[1] \in Commands
      /\ toServer[1].job \in Jobs
  BY <1>0, Taken DEF Commands
<1>2. TypeOK'
  BY <1>0, <1>1 DEF TypeOK, taskVars
<1>3. NoncePart'
  <2>1. receipt.nonce < nextId /\ (receipt.nonce = 0 => receipt = NoReceipt)
        /\ (helper = "missing" => receipt = NoReceipt)
    BY <1>0 DEF KeptPart, NoncePart
  <2>2. receipt = NoReceipt => receipt' = receipt
    BY ReceiptsAreTyped
  <2> QED
    BY <1>0, <2>1, <2>2, NonceTaken
<1>4. JobPart'
  <2>1. \A j \in Jobs : j > job => j # toServer[1].job
    <3>1. toServer[1].job <= job /\ job \in Nat
      BY <1>0, <1>1, Counts DEF KeptPart, JobPart, TypeOK
    <3> QED
      BY <3>1 DEF Jobs
  <2>2. \A j \in Jobs : j > job => /\ delivered'[j] = delivered[j]
                                   /\ j \in consumed' => j \in consumed
    BY <2>1
  <2> QED
    BY <1>0, <2>2, JobTaken
<1>5. ConsumedPart' /\ MovesPart' /\ AskPart' /\ TellPart'
  BY <1>0, ConsumedTaken, ClientSideTaken, TellTaken
<1>6. ClearPart'
  <2>1. receipt'.nonce # 0 =>
           receipt.nonce = receipt'.nonce /\ ~Cancel(toServer[1], receipt'.nonce)
    BY DEF Cancel, Moving
  <2> QED
    BY <1>0, <2>1, ClearTaken
<1> QED
  BY <1>2, <1>3, <1>4, <1>5, <1>6 DEF IInv, KeptPart

\* A placement moves the receipt on, or fails it.
LEMMA PlacementIsCredited ==
  ASSUME receipt \in Receipts, NEW slot \in 1..Slots, NEW n, NEW batches,
         NEW r, r = CreditPlacement(slot, n, batches)
  PROVE  /\ r \in Receipts /\ r.nonce = receipt.nonce /\ r.moved = receipt.moved
         /\ receipt.stage = "none" => r = receipt
         /\ r.stage = "verify" => r = receipt
<1>1. CASE receipt.stage # "ingredients" \/ n = 0
  BY <1>1 DEF CreditPlacement
<1>2. CASE r = [receipt EXCEPT !.stage = "error"] /\ receipt.stage = "ingredients"
  BY <1>2 DEF Receipts
<1>3. CASE /\ receipt.stage = "ingredients" /\ slot = receipt.next
           /\ r = [receipt EXCEPT !.next = receipt.next + 1,
                                  !.stage = IF slot = Slots THEN "craft" ELSE "ingredients"]
  <2>1. receipt.next + 1 \in 1..(Slots + 1)
    BY <1>3, Counts
  <2> DEFINE st == IF slot = Slots THEN "craft" ELSE "ingredients"
             nx == receipt.next + 1
  <2>2. st \in {"craft", "ingredients"} /\ nx \in 1..(Slots + 1)
    BY <2>1
  <2>3. r = [receipt EXCEPT !.next = nx, !.stage = st]
    BY <1>3
  <2> HIDE DEF st, nx
  <2>4. r \in Receipts /\ r.nonce = receipt.nonce /\ r.moved = receipt.moved /\ r.stage = st
    BY <2>2, <2>3 DEF Receipts
  <2> QED
    BY <2>2, <2>4, <1>3
<1> QED
  BY <1>1, <1>2, <1>3 DEF CreditPlacement

LEMMA ServerPlacePreserves == IInv /\ ServerPlace => IInv'
<1> SUFFICES ASSUME IInv, ServerPlace PROVE IInv'
  OBVIOUS
<1>1. KeptPart /\ TypeOK
  BY DEF IInv, KeptPart
<1>2. toServer # <<>> /\ toServer' = Tail(toServer) /\ Head(toServer).type = "place"
  BY DEF ServerPlace, Take
<1> DEFINE c == toServer[1]
<1>3. Head(toServer) = c /\ 1 \in Queue /\ c \in Commands
  BY <1>1, <1>2, Taken
<1>4. UNCHANGED <<taskVars, helper, result, toClient, historyVars>>
  BY DEF ServerPlace
<1>5. c.type = "place" /\ c.job \in Jobs /\ c.slot \in 1..Slots
  <2>1. c.type = "place" /\ c.job \in Jobs /\ c.slot \in 0..Slots
    BY <1>2, <1>3 DEF Commands
  <2>2. c.slot # 0
    BY <1>1, <1>3, <2>1 DEF KeptPart, JobPart
  <2> QED
    BY <2>1, <2>2, Counts
<1>6. PICK n \in 0..Batches(plan[c.job]) :
        /\ grid[c.slot] + n <= MaxBatches
        /\ grid' = [grid EXCEPT ![c.slot] = grid[c.slot] + n]
        /\ receipt' = CreditPlacement(c.slot, n, Batches(plan[c.job]))
  BY <1>3 DEF ServerPlace
<1> HIDE DEF c
<1>7. n \in Nat /\ Batches(plan[c.job]) \in Nat
  BY <1>1, <1>5, JobIsPlanned
<1>8. /\ receipt' \in Receipts /\ receipt'.nonce = receipt.nonce /\ receipt'.moved = receipt.moved
      /\ receipt.stage = "none" => receipt' = receipt
      /\ receipt'.stage = "verify" => receipt' = receipt
  BY <1>1, <1>5, <1>6, PlacementIsCredited DEF TypeOK
<1>9. grid' \in [1..Slots -> 0..MaxBatches]
  <2>1. grid \in [1..Slots -> 0..MaxBatches]
    BY <1>1 DEF TypeOK
  <2>2. grid[c.slot] + n \in 0..MaxBatches
    BY <2>1, <1>5, <1>6, <1>7, Largest
  <2> QED
    BY <2>1, <2>2, <1>6
<1>10. \A s \in 1..Slots : s # c.slot => grid'[s] = grid[s]
  BY <1>1, <1>6 DEF TypeOK
<1>11. CraftPart' /\ OwnerPart' /\ CertainPart'
  BY <1>1, <1>2, <1>4, ResultsTaken DEF historyVars
<1>12. RecordPart'
  <2>1. ASSUME nonce # 0, receipt'.nonce = nonce
        PROVE  /\ phase = "preparing" => toServer' = <<>>
               /\ receipt'.moved <= delivered[job]
               /\ receipt'.stage = "verify" => receipt'.moved = Produced(plan[job])
    BY <1>1, <1>2, <1>8, <2>1 DEF KeptPart, RecordPart
  <2> QED
    BY <1>4, <2>1 DEF RecordPart, taskVars, historyVars
<1>13. c.type \in Moving /\ ~Ret(c, 0) /\ \A s : ~Ret(c, s)
  BY <1>5 DEF Moving, Ret
<1>14. /\ delivered' \in [Jobs -> 0..MaxProduced] /\ result' \in 0..MaxProduced
       /\ stuck' \in BOOLEAN /\ stuck' = stuck /\ delivered' = delivered
       /\ consumed' = consumed /\ result' = result
       /\ UNCHANGED <<taskVars, helper, toClient, job, plan, answer>>
  BY <1>1, <1>4 DEF TypeOK, historyVars
<1>15. \A s \in 1..Slots : grid'[s] > 0 => (grid[s] > 0 /\ ~Ret(c, s)) \/ c.slot = s
  BY <1>10, <1>13
<1> QED
  BY <1>2, <1>5, <1>8, <1>9, <1>11, <1>12, <1>13, <1>14, <1>15, PacketPreserves DEF c

LEMMA CraftIsCredited ==
  ASSUME receipt \in Receipts, NEW n \in Nat, NEW p,
         NEW r, r = CreditCraft(n, p)
  PROVE  /\ r \in Receipts /\ r.nonce = receipt.nonce /\ r.moved = receipt.moved
         /\ receipt.stage = "none" => r = receipt
         /\ r.stage = "verify" => r = receipt
<1>1. CASE receipt.stage # "craft" \/ n = 0
  BY <1>1 DEF CreditCraft
<1>2. CASE r = [receipt EXCEPT !.stage = "error"] /\ receipt.stage = "craft"
  BY <1>2 DEF Receipts
<1>3. CASE /\ receipt.stage = "craft"
           /\ r = [receipt EXCEPT
                     !.crafted = receipt.crafted + n,
                     !.stage = IF receipt.crafted + n = Batches(p) THEN "output" ELSE "craft"]
  <2>1. receipt.crafted + n \in Nat
    BY DEF Receipts
  <2> DEFINE st == IF receipt.crafted + n = Batches(p) THEN "output" ELSE "craft"
             cr == receipt.crafted + n
  <2>2. st \in {"craft", "output"} /\ cr \in Nat
    BY <2>1
  <2>3. r = [receipt EXCEPT !.crafted = cr, !.stage = st]
    BY <1>3
  <2> HIDE DEF st, cr
  <2>4. r \in Receipts /\ r.nonce = receipt.nonce /\ r.moved = receipt.moved /\ r.stage = st
    BY <2>2, <2>3 DEF Receipts
  <2> QED
    BY <2>2, <2>4, <1>3
<1> QED
  BY <1>1, <1>2, <1>3 DEF CreditCraft

LEMMA ServerCraftPreserves == IInv /\ ServerCraft => IInv'
<1> SUFFICES ASSUME IInv, ServerCraft PROVE IInv'
  OBVIOUS
<1>1. KeptPart /\ TypeOK
  BY DEF IInv, KeptPart
<1>2. toServer # <<>> /\ toServer' = Tail(toServer) /\ Head(toServer).type = "craft"
  BY DEF ServerCraft, Take
<1> DEFINE c == toServer[1]  p == plan[c.job]
<1>3. /\ Head(toServer) = c /\ 1 \in Queue /\ c \in Commands
      /\ \A i \in Queue' : /\ i \in Nat /\ i + 1 \in Queue /\ i + 1 # 1 /\ 1 < i + 1
                           /\ toServer'[i] = toServer[i + 1]
  BY <1>1, <1>2, Taken
<1>4. UNCHANGED <<taskVars, helper, toClient, job, plan, delivered, answer, stuck>>
  BY DEF ServerCraft
<1>5. c.type = "craft" /\ c.job \in Jobs
  BY <1>2, <1>3 DEF Commands
<1>6. /\ result = 0 /\ delivered[c.job] = 0
      /\ \A k \in Queue : toServer[k].type = "craft" => k = 1
  BY <1>1, <1>3, <1>5 DEF KeptPart, CraftPart
<1>7. /\ \/ \E n \in 1..Batches(p) :
              /\ \A s \in 1..Slots : grid[s] >= n
              /\ grid' = [s \in 1..Slots |-> grid[s] - n]
              /\ result' = result + n * p.yield
              /\ receipt' = CreditCraft(n, p)
              /\ consumed' = consumed \cup {c.job}
         \/ /\ grid' = [s \in 1..Slots |->
                          IF s \in {t \in 1..Slots : grid[t] > 0} THEN grid[s] - 1 ELSE 0]
            /\ consumed' = consumed \cup {c.job}
            /\ UNCHANGED <<result, receipt>>
         \/ UNCHANGED <<gridVars, receipt, consumed>>
  BY <1>3 DEF ServerCraft
<1> HIDE DEF c, p
<1>8. p \in Plans /\ Batches(p) \in Nat /\ Produced(p) \in Nat /\ Produced(p) <= MaxProduced
  BY <1>1, <1>5, JobIsPlanned DEF p
<1>9. /\ grid \in [1..Slots -> 0..MaxBatches] /\ MaxBatches \in Nat
      /\ \A s \in 1..Slots : grid[s] \in Nat /\ grid[s] <= MaxBatches
      /\ receipt \in Receipts
  BY <1>1, Largest DEF TypeOK
<1>10. /\ grid' \in [1..Slots -> 0..MaxBatches]
       /\ \A s \in 1..Slots : grid'[s] > 0 => grid[s] > 0
       /\ result' \in Nat /\ result' <= Produced(p)
       /\ receipt' \in Receipts /\ receipt'.nonce = receipt.nonce /\ receipt'.moved = receipt.moved
       /\ receipt.stage = "none" => receipt' = receipt
       /\ receipt'.stage = "verify" => receipt' = receipt
       /\ consumed' = consumed \/ consumed' = consumed \cup {c.job}
  <2>1. ASSUME NEW n \in 1..Batches(p),
               \A s \in 1..Slots : grid[s] >= n,
               grid' = [s \in 1..Slots |-> grid[s] - n],
               result' = result + n * p.yield,
               receipt' = CreditCraft(n, p),
               consumed' = consumed \cup {c.job}
        PROVE  <1>10!:
    <3>1. n \in Nat
      BY <1>8
    <3>2. \A s \in 1..Slots : grid[s] - n \in 0..MaxBatches /\ (grid[s] - n > 0 => grid[s] > 0)
      BY <1>9, <2>1, <3>1
    <3>3. /\ grid' \in [1..Slots -> 0..MaxBatches]
          /\ \A s \in 1..Slots : grid'[s] > 0 => grid[s] > 0
      BY <3>2, <2>1
    <3>4. n * p.yield \in Nat /\ n * p.yield <= Produced(p)
      BY <1>8, Yielded
    <3>5. result' \in Nat /\ result' <= Produced(p)
      BY <3>4, <1>6, <2>1
    <3>6. /\ receipt' \in Receipts /\ receipt'.nonce = receipt.nonce /\ receipt'.moved = receipt.moved
          /\ receipt.stage = "none" => receipt' = receipt
          /\ receipt'.stage = "verify" => receipt' = receipt
      BY <3>1, <1>9, <2>1, CraftIsCredited
    <3> QED
      BY <3>3, <3>5, <3>6, <2>1
  <2>2. ASSUME grid' = [s \in 1..Slots |->
                          IF s \in {t \in 1..Slots : grid[t] > 0} THEN grid[s] - 1 ELSE 0],
               consumed' = consumed \cup {c.job}, UNCHANGED <<result, receipt>>
        PROVE  <1>10!:
    <3>1. \A s \in 1..Slots :
            /\ (IF s \in {t \in 1..Slots : grid[t] > 0} THEN grid[s] - 1 ELSE 0) \in 0..MaxBatches
            /\ (IF s \in {t \in 1..Slots : grid[t] > 0} THEN grid[s] - 1 ELSE 0) > 0 => grid[s] > 0
      BY <1>9
    <3>2. /\ grid' \in [1..Slots -> 0..MaxBatches]
          /\ \A s \in 1..Slots : grid'[s] > 0 => grid[s] > 0
      BY <3>1, <2>2
    <3> QED
      BY <3>2, <2>2, <1>6, <1>8, <1>9
  <2>3. ASSUME UNCHANGED <<gridVars, receipt, consumed>>
        PROVE  <1>10!:
    BY <2>3, <1>6, <1>8, <1>9 DEF gridVars
  <2> QED
    BY <1>7, <2>1, <2>2, <2>3
<1>11. \A i \in Queue' : toServer'[i].type # "craft"
  BY <1>3, <1>6
<1>12. CraftPart'
  <2>1. phase \in {"preparing", "placing"} => delivered[job] = 0
    BY <1>1 DEF KeptPart, CraftPart
  <2>2. phase # "placing"
    BY <1>1, <1>3, <1>5 DEF KeptPart, CraftPart
  <2>3. phase = "crafting" =>
          \A i \in Queue' : toServer'[i].type \notin {"take", "return", "prepare"}
    BY <1>1, <1>3 DEF KeptPart, CraftPart
  <2> QED
    BY <1>4, <1>11, <2>1, <2>2, <2>3 DEF CraftPart, taskVars
<1>13. OwnerPart'
  <2>1. result' + delivered[c.job] <= Produced(plan[c.job])
    BY <1>6, <1>10 DEF p
  <2>2. \A i \in Queue' : toServer'[i].type \in {"take", "return"} => toServer'[i].job = c.job
    BY <1>1, <1>3, <1>5 DEF KeptPart, MovesPart, Moving, c
  <2>3. Prepared => job = c.job
    BY <1>1, <1>3, <1>5 DEF KeptPart, MovesPart, Moving, c
  <2> QED
    BY <1>4, <2>1, <2>2, <2>3 DEF OwnerPart, Prepared, taskVars
<1>14. CertainPart'
  <2>1. \A i \in Queue' : toServer'[i].type \in {"take", "return"} =>
          answer[toServer'[i].job] = Promise!Open \/ answer[toServer'[i].job].unknown
    BY <1>1, <1>3, <1>5 DEF KeptPart, CertainPart, c
  <2> QED
    BY <1>4, <2>1 DEF CertainPart
<1>15. RecordPart'
  <2>1. ASSUME nonce # 0, receipt'.nonce = nonce
        PROVE  /\ phase = "preparing" => toServer' = <<>>
               /\ receipt'.moved <= delivered[job]
               /\ receipt'.stage = "verify" => receipt'.moved = Produced(plan[job])
    BY <1>1, <1>2, <1>10, <2>1 DEF KeptPart, RecordPart
  <2> QED
    BY <1>4, <2>1 DEF RecordPart, taskVars
<1>16. c.type \in Moving /\ \A s : ~Ret(c, s)
  BY <1>5 DEF Moving, Ret
<1>17. /\ delivered' \in [Jobs -> 0..MaxProduced] /\ result' \in 0..MaxProduced
       /\ stuck' \in BOOLEAN /\ stuck' = stuck /\ delivered' = delivered
  BY <1>1, <1>4, <1>8, <1>10, Largest DEF TypeOK
<1>18. UNCHANGED <<taskVars, helper, toClient, job, plan, answer>>
  BY <1>4
<1> QED
  BY <1>2, <1>5, <1>10, <1>12, <1>13, <1>14, <1>15, <1>16, <1>17, <1>18, PacketPreserves DEF c

LEMMA OutputIsCredited ==
  ASSUME receipt \in Receipts, NEW n \in Nat, NEW produced \in 0..MaxProduced,
         NEW r, r = CreditOutput(n, produced)
  PROVE  /\ r \in Receipts /\ r.nonce = receipt.nonce
         /\ r.moved = receipt.moved \/ r.moved = receipt.moved + n
         /\ receipt.stage = "none" => r = receipt
         /\ r.stage = "verify" => r = receipt \/ r.moved = produced
<1>0. receipt.moved \in Nat /\ produced \in Nat /\ produced <= MaxProduced
  BY Largest DEF Receipts
<1>1. CASE receipt.stage # "output" \/ n = 0
  BY <1>1 DEF CreditOutput
<1>2. CASE r = [receipt EXCEPT !.stage = "error"] /\ receipt.stage = "output"
  BY <1>2 DEF Receipts
<1>3. CASE /\ receipt.stage = "output" /\ ~(receipt.moved + n > produced)
           /\ r = [receipt EXCEPT
                     !.moved = receipt.moved + n,
                     !.stage = IF receipt.moved + n = produced THEN "verify" ELSE "output"]
  <2> DEFINE st == IF receipt.moved + n = produced THEN "verify" ELSE "output"
             mv == receipt.moved + n
  <2>1. mv \in 0..MaxProduced
    BY <1>0, <1>3, Largest
  <2>2. st \in {"verify", "output"} /\ (st = "verify" => mv = produced)
    OBVIOUS
  <2>3. r = [receipt EXCEPT !.moved = mv, !.stage = st]
    BY <1>3
  <2>4. mv = receipt.moved + n
    OBVIOUS
  <2> HIDE DEF st, mv
  <2>5. r \in Receipts /\ r.nonce = receipt.nonce /\ r.moved = mv /\ r.stage = st
    BY <2>1, <2>2, <2>3 DEF Receipts
  <2> QED
    BY <2>2, <2>4, <2>5, <1>3
<1> QED
  BY <1>1, <1>2, <1>3 DEF CreditOutput

\* Results have been moved on by a take or by the return of the result slot.
LEMMA MovedPreserves ==
  ASSUME IInv, toServer # <<>>, toServer' = Tail(toServer),
         UNCHANGED <<taskVars, helper, grid, toClient, job, plan, consumed, answer>>,
         toServer[1].type \in {"take", "return"},
         toServer[1].type = "return" => toServer[1].slot = 0,
         NEW wanted \in Nat, NEW n \in 0..wanted, wanted <= result,
         toServer[1].type = "return" => wanted = result,
         MoveResult(toServer[1], n, wanted)
  PROVE  IInv'
<1> DEFINE c == toServer[1]  p == plan[c.job]
<1>1. KeptPart /\ TypeOK
  BY DEF IInv, KeptPart
<1>2. /\ 1 \in Queue /\ c \in Commands
      /\ \A i \in Queue' : /\ i \in Nat /\ i + 1 \in Queue /\ i + 1 # 1 /\ 1 < i + 1
                           /\ toServer'[i] = toServer[i + 1]
  BY <1>1, Taken
<1>3. c.job \in Jobs
  BY <1>2 DEF Commands
<1>4. /\ n = wanted \/ n < wanted
      /\ result' = result - n
      /\ delivered' = [delivered EXCEPT ![c.job] = delivered[c.job] + n]
      /\ receipt' = CreditOutput(n, Produced(p))
      /\ stuck' = (stuck \/ n < wanted)
  BY DEF MoveResult
<1>5. result + delivered[c.job] <= Produced(p)
  BY <1>1, <1>2 DEF KeptPart, OwnerPart
<1>6. \A i \in Queue' : toServer'[i].type # "craft"
  BY <1>1, <1>2 DEF KeptPart, CraftPart
<1>7. phase \notin {"placing", "crafting"}
  BY <1>1, <1>2 DEF KeptPart, CraftPart
<1>8. /\ \A i \in Queue' : toServer'[i].type \in {"take", "return"} => toServer'[i].job = c.job
      /\ Prepared => job = c.job
  BY <1>1, <1>2 DEF KeptPart, MovesPart, Moving
<1>9. phase = "preparing" => job # c.job
  BY <1>1, <1>2 DEF KeptPart, JobPart, Moving
<1>10. phase \in {"preparing", "placing"} => delivered[job] = 0
  BY <1>1 DEF KeptPart, CraftPart
<1>11. phase # "idle" => job \in Jobs
  BY <1>1 DEF KeptPart, JobPart
<1>12. \/ answer[c.job] = Promise!Open
       \/ answer[c.job].unknown
       \/ result = 0
  BY <1>1, <1>2 DEF KeptPart, CertainPart
<1> HIDE DEF c, p
<1>13. /\ Produced(p) \in Nat /\ Produced(p) <= MaxProduced /\ MaxProduced \in Nat
       /\ result \in Nat /\ delivered[c.job] \in Nat
       /\ delivered \in [Jobs -> 0..MaxProduced] /\ receipt \in Receipts
  BY <1>1, <1>3, JobIsPlanned, Largest DEF p, TypeOK
<1>14. n \in Nat /\ n <= wanted /\ n <= result
  BY <1>13
<1>15. /\ receipt' \in Receipts /\ receipt'.nonce = receipt.nonce
       /\ receipt'.moved = receipt.moved \/ receipt'.moved = receipt.moved + n
       /\ receipt.stage = "none" => receipt' = receipt
       /\ receipt'.stage = "verify" => receipt' = receipt \/ receipt'.moved = Produced(p)
  <2>1. PICK made : made = Produced(p) /\ made \in 0..MaxProduced
    BY <1>13
  <2>2. PICK r : r = receipt'
    OBVIOUS
  <2>3. r = CreditOutput(n, made)
    BY <2>1, <2>2, <1>4
  <2>4. /\ r \in Receipts /\ r.nonce = receipt.nonce
        /\ r.moved = receipt.moved \/ r.moved = receipt.moved + n
        /\ receipt.stage = "none" => r = receipt
        /\ r.stage = "verify" => r = receipt \/ r.moved = made
    <3>1. n \in Nat /\ made \in 0..MaxProduced /\ receipt \in Receipts
      BY <2>1, <1>13, <1>14
    <3> QED
      BY ONLY <2>3, <3>1, OutputIsCredited
  <2> QED
    BY <2>1, <2>2, <2>4
<1>16. /\ result' \in Nat /\ result' <= result
       /\ delivered[c.job] + n \in Nat /\ result' + (delivered[c.job] + n) <= Produced(p)
       /\ delivered[c.job] + n <= MaxProduced
  BY <1>4, <1>5, <1>13, <1>14
<1>17. /\ delivered' \in [Jobs -> 0..MaxProduced]
       /\ delivered'[c.job] = delivered[c.job] + n
       /\ \A j \in Jobs : j # c.job => delivered'[j] = delivered[j]
  BY <1>3, <1>4, <1>13, <1>16
<1>18. UNCHANGED <<taskVars, job, plan, answer>>
  OBVIOUS
<1>19. CraftPart'
  <2>1. phase = "preparing" => delivered'[job] = 0
    BY <1>9, <1>10, <1>11, <1>17
  <2> QED
    BY <1>6, <1>7, <1>18, <2>1 DEF CraftPart, taskVars
<1>20. OwnerPart'
  <2>1. result' + delivered'[c.job] <= Produced(plan[c.job])
    BY <1>16, <1>17 DEF p
  <2> QED
    BY <1>8, <1>18, <2>1 DEF OwnerPart, Prepared, taskVars
<1>21. CertainPart'
  <2>1. result = 0 => result' = 0
    BY <1>16
  <2> QED
    BY <1>6, <1>8, <1>12, <1>18, <2>1 DEF CertainPart
<1>22. RecordPart'
  <2>1. ASSUME nonce # 0, receipt'.nonce = nonce
        PROVE  /\ phase = "preparing" => toServer' = <<>>
               /\ receipt'.moved <= delivered'[job]
               /\ receipt'.stage = "verify" => receipt'.moved = Produced(plan[job])
    <3>1. /\ phase # "preparing" /\ phase # "idle"
          /\ receipt.moved <= delivered[job]
          /\ receipt.stage = "verify" => receipt.moved = Produced(plan[job])
      BY <1>1, <1>15, <2>1 DEF KeptPart, RecordPart, NoncePart
    <3>2. job = c.job
      BY <1>1, <1>8, <3>1 DEF TypeOK, Prepared, Phases
    <3>3. receipt.moved \in Nat
      BY <1>13, Largest DEF Receipts
    <3>4. receipt'.moved <= delivered'[job]
      BY <3>1, <3>2, <3>3, <1>13, <1>14, <1>15, <1>17
    <3> QED
      BY <3>1, <3>2, <3>4, <1>15 DEF p
  <2> QED
    BY <1>18, <2>1 DEF RecordPart, taskVars
<1>23. ~stuck' => ~stuck /\ n = wanted
  BY <1>4, <1>13, <1>14
<1>24. ~stuck' => (result' > 0 => result > 0 /\ ~Ret(c, 0))
  <2>1. ASSUME ~stuck', result' > 0 PROVE result > 0 /\ c.type # "return"
    BY <2>1, <1>4, <1>13, <1>14, <1>16, <1>23 DEF c
  <2> QED
    BY <2>1 DEF Ret
<1>25. \A s \in 1..Slots : ~Ret(c, s)
  BY DEF Ret, c
<1>26. /\ grid' \in [1..Slots -> 0..MaxBatches] /\ result' \in 0..MaxProduced
       /\ stuck' \in BOOLEAN /\ grid' = grid /\ consumed' = consumed
  BY <1>1, <1>4, <1>13, <1>16 DEF TypeOK
<1>27. c.type \in Moving
  BY DEF c, Moving
<1> QED
  BY <1>15, <1>17, <1>19, <1>20, <1>21, <1>22, <1>23, <1>24, <1>25, <1>26, <1>27, PacketPreserves
  DEF c

LEMMA ServerTakePreserves == IInv /\ ServerTake => IInv'
<1> SUFFICES ASSUME IInv, ServerTake PROVE IInv'
  OBVIOUS
<1>1. KeptPart /\ TypeOK
  BY DEF IInv, KeptPart
<1>2. toServer # <<>> /\ toServer' = Tail(toServer) /\ Head(toServer).type = "take"
  BY DEF ServerTake, Take
<1>3. Head(toServer) = toServer[1] /\ toServer[1] \in Commands
  BY <1>1, <1>2, Taken
<1> DEFINE wanted == Least(Produced(plan[toServer[1].job]), result)
<1>4. PICK n \in 0..wanted : MoveResult(toServer[1], n, wanted)
  BY <1>3 DEF ServerTake
<1>5. wanted \in Nat /\ wanted <= result
  <2>1. toServer[1].job \in Jobs
    BY <1>3 DEF Commands
  <2>2. Produced(plan[toServer[1].job]) \in Nat /\ result \in Nat
    BY <1>1, <2>1, JobIsPlanned
  <2> QED
    BY <2>2 DEF Least
<1> HIDE DEF wanted
<1>6. UNCHANGED <<taskVars, helper, grid, toClient, job, plan, consumed, answer>>
  BY DEF ServerTake
<1> QED
  BY <1>2, <1>3, <1>4, <1>5, <1>6, MovedPreserves

LEMMA ServerReturnPreserves == IInv /\ ServerReturn => IInv'
<1> SUFFICES ASSUME IInv, ServerReturn PROVE IInv'
  OBVIOUS
<1>1. KeptPart /\ TypeOK
  BY DEF IInv, KeptPart
<1>2. toServer # <<>> /\ toServer' = Tail(toServer) /\ Head(toServer).type = "return"
  BY DEF ServerReturn, Take
<1> DEFINE c == toServer[1]
<1>3. Head(toServer) = c /\ c \in Commands
  BY <1>1, <1>2, Taken
<1>4. UNCHANGED <<taskVars, helper, toClient, job, plan, consumed, answer>>
  BY DEF ServerReturn
<1>5. c.type = "return" /\ c.slot \in 0..Slots
  BY <1>2, <1>3 DEF Commands
<1>6. CASE c.slot = 0 /\ UNCHANGED grid /\ \E n \in 0..result : MoveResult(c, n, result)
  <2>1. PICK n \in 0..result : MoveResult(c, n, result)
    BY <1>6
  <2>2. result \in Nat /\ result <= result
    BY <1>1, Largest DEF TypeOK
  <2>3. /\ UNCHANGED <<taskVars, helper, grid, toClient, job, plan, consumed, answer>>
        /\ toServer[1].slot = 0 /\ toServer[1].type = "return"
    BY <1>4, <1>5, <1>6
  <2> QED
    BY <1>2, <2>1, <2>2, <2>3, MovedPreserves
<1>7. CASE /\ c.slot # 0
           /\ \E n \in 0..grid[c.slot] :
                grid' = [grid EXCEPT ![c.slot] = n] /\ stuck' = (stuck \/ n > 0)
           /\ UNCHANGED <<result, delivered, receipt>>
  <2>1. PICK n \in 0..grid[c.slot] :
          grid' = [grid EXCEPT ![c.slot] = n] /\ stuck' = (stuck \/ n > 0)
    BY <1>7
  <2> HIDE DEF c
  <2>2. /\ grid \in [1..Slots -> 0..MaxBatches] /\ MaxBatches \in Nat
        /\ c.slot \in 1..Slots /\ grid[c.slot] \in 0..MaxBatches
    BY <1>1, <1>5, <1>7, Counts, Largest DEF TypeOK
  <2>3. n \in 0..MaxBatches
    BY <2>2
  <2>4. /\ grid' \in [1..Slots -> 0..MaxBatches]
        /\ grid'[c.slot] = n /\ \A s \in 1..Slots : s # c.slot => grid'[s] = grid[s]
    BY <2>1, <2>2, <2>3
  <2>5. CraftPart' /\ OwnerPart' /\ CertainPart'
    BY <1>1, <1>2, <1>4, <1>7, ResultsTaken
  <2>6. RecordPart'
    <3>1. ASSUME nonce # 0, receipt.nonce = nonce
          PROVE  /\ phase = "preparing" => toServer' = <<>>
                 /\ receipt.moved <= delivered[job]
                 /\ receipt.stage = "verify" => receipt.moved = Produced(plan[job])
      BY <1>1, <1>2, <3>1 DEF KeptPart, RecordPart
    <3> QED
      BY <1>4, <1>7, <3>1 DEF RecordPart, taskVars
  <2>7. ~stuck' => ~stuck /\ n = 0
    <3>1. ~stuck' => ~stuck /\ ~(n > 0)
      BY <2>1
    <3> QED
      BY <2>2, <2>3, <3>1
  <2>8. c.type \in Moving /\ ~Ret(c, 0) /\ \A s : Ret(c, s) => s = c.slot
    BY <1>5, <1>7 DEF Moving, Ret
  <2>9. ~stuck' => \A s \in 1..Slots : grid'[s] > 0 => grid[s] > 0 /\ ~Ret(c, s)
    BY <2>4, <2>7, <2>8
  <2>10. /\ receipt \in Receipts /\ result \in 0..MaxProduced
         /\ delivered \in [Jobs -> 0..MaxProduced] /\ stuck' \in BOOLEAN
    BY <1>1, <2>1 DEF TypeOK
  <2> QED
    BY <1>2, <1>4, <1>7, <2>4, <2>5, <2>6, <2>7, <2>8, <2>9, <2>10, PacketPreserves DEF c
<1> QED
  BY <1>3, <1>6, <1>7 DEF ServerReturn

-----------------------------------------------------------------------------
(* The task goes on *)

\* What is sent without a prepare command has nothing new to find cleared.
LEMMA ClearSent ==
  ASSUME KeptPart, ClearPart, NEW q \in Seq(Commands), toServer' = toServer \o q,
         \A k \in 1..Len(q) : q[k].type # "prepare",
         nonce' = nonce, phase' \notin {"idle", "preparing"},
         UNCHANGED <<grid, result, receipt, stuck>>
  PROVE  ClearPart'
<1>0. TypeOK
  BY DEF KeptPart
<1>1. /\ Len(toServer) \in Nat /\ Len(toServer') \in Nat /\ Len(toServer) <= Len(toServer')
      /\ \A i \in Queue : i \in Queue' /\ i \in Nat /\ i <= Len(toServer)
      /\ \A i \in Queue : toServer'[i] = toServer[i]
      /\ \A i \in Queue' : i \in Queue \/ (i > Len(toServer) /\ toServer'[i].type # "prepare")
  <2>1. /\ Len(toServer) \in Nat /\ Len(q) \in Nat
        /\ Len(toServer') = Len(toServer) + Len(q)
        /\ \A i \in Queue : i \in Queue' /\ i \in Nat /\ i <= Len(toServer)
        /\ \A i \in Queue : toServer'[i] = toServer[i]
        /\ \A i \in Queue' : \/ i \in Queue
                             \/ /\ i \in Nat /\ i > Len(toServer) /\ i <= Len(toServer')
                                /\ i - Len(toServer) \in 1..Len(q)
                                /\ toServer'[i] = q[i - Len(toServer)]
    BY <1>0, Sent
  <2>2. \A i \in Queue' : i \in Queue \/ (i > Len(toServer) /\ toServer'[i].type # "prepare")
    BY <2>1
  <2>3. Len(toServer') \in Nat /\ Len(toServer) <= Len(toServer')
    BY <2>1
  <2> QED
    BY <2>1, <2>2, <2>3
<1> SUFFICES ASSUME ~stuck PROVE ClearPart'
  BY DEF ClearPart
<1>2. /\ \A i \in Queue : toServer[i].type = "prepare" => GridClear(i) /\ SlotClear(i, 0)
      /\ SlotClear(Len(toServer) + 1, nonce)
  BY DEF ClearPart
<1>3. ASSUME NEW i \in Queue', toServer'[i].type = "prepare" PROVE GridClear(i)' /\ SlotClear(i, 0)'
  <2>1. i \in Queue /\ toServer[i].type = "prepare" /\ i \in 1..(Len(toServer) + 1)
    BY <1>1, <1>3 DEF Queue
  <2>2. GridClear(i) /\ SlotClear(i, 0)
    BY <1>2, <2>1
  <2> QED
    BY <1>0, <1>1, <2>1, <2>2, AheadOfSent
<1>4. SlotClear(Len(toServer) + 1, nonce)'
  <2>1. PICK n : n = nonce
    OBVIOUS
  <2>2. SlotClear(Len(toServer) + 1, n)
    BY <2>1, <1>2
  <2>3. SlotClear(Len(toServer) + 1, n)'
    BY <1>0, <1>1, <2>2, PastSent
  <2> QED
    BY <2>1, <2>3 DEF SlotClear
<1> QED
  BY <1>3, <1>4 DEF ClearPart

\* A prepared task sends its next packet or asks for its receipt.
LEMMA GoesOn ==
  ASSUME IInv, Prepared, Prepared', NEW q \in Seq(Commands), toServer' = toServer \o q,
         UNCHANGED <<nonce, nextId, helper, receipt, gridVars, toClient, historyVars>>,
         polls' \in 0..MaxPolls,
         \A k \in 1..Len(q) : /\ q[k].job = job /\ q[k].type \in {"craft", "take", "receipt"}
                              /\ q[k].type = "receipt" => q[k].nonce = nonce
                              /\ q[k].type = "craft" => phase = "placing" /\ phase' = "crafting",
         Dispatched => Dispatched',
         phase \in {"waiting", "requested"} =>
           /\ phase' \in {"waiting", "requested"}
           /\ \A k \in 1..Len(q) : q[k].type = "receipt",
         CraftPart', AskPart'
  PROVE  IInv'
<1>0. KeptPart /\ ClearPart /\ TypeOK
  BY DEF IInv, KeptPart
<1>1. /\ phase \notin {"idle", "preparing"} /\ phase' \notin {"idle", "preparing"}
      /\ phase' \in Phases
  BY DEF Prepared, Phases
<1>2. /\ toServer' \in Seq(Commands)
      /\ \A i \in Queue : i \in Queue' /\ toServer'[i] = toServer[i]
      /\ \A i \in Queue' :
           \/ i \in Queue
           \/ /\ toServer'[i].job = job /\ toServer'[i].type \in {"craft", "take", "receipt"}
              /\ toServer'[i].type = "receipt" => toServer'[i].nonce = nonce
              /\ toServer'[i].type = "craft" => phase = "placing" /\ phase' = "crafting"
              /\ phase \in {"waiting", "requested"} => toServer'[i].type = "receipt"
  <2>1. /\ toServer' \in Seq(Commands)
        /\ \A i \in Queue : i \in Queue' /\ toServer'[i] = toServer[i]
        /\ \A i \in Queue' : \/ i \in Queue
                             \/ /\ i - Len(toServer) \in 1..Len(q)
                                /\ toServer'[i] = q[i - Len(toServer)]
    BY <1>0, Sent
  <2> QED
    BY <2>1
<1>3. job \in Jobs /\ answer[job] = Promise!Open
  BY <1>0, <1>1 DEF KeptPart, JobPart
<1>4. TypeOK'
  BY <1>0, <1>1, <1>2 DEF TypeOK, gridVars, historyVars
<1>5. NoncePart'
  <2>1. nonce # 0 /\ nonce < nextId
    BY <1>0, <1>1 DEF KeptPart, NoncePart
  <2>2. \A i \in Queue' :
          toServer'[i].type \in Asking => toServer'[i].nonce # 0 /\ toServer'[i].nonce < nextId
    BY <1>0, <1>2, <2>1 DEF KeptPart, NoncePart, Asking
  <2> QED
    BY <1>0, <1>1, <2>1, <2>2 DEF KeptPart, NoncePart
<1>6. JobPart'
  <2>1. \A i \in Queue' : toServer'[i].job <= job
    <3>1. job <= job /\ \A i \in Queue : toServer[i].job <= job
      BY <1>0, <1>3, Counts DEF KeptPart, JobPart, Jobs
    <3> QED
      BY <3>1, <1>2
  <2>2. \A i \in Queue' : toServer'[i].type = "place" => toServer'[i].slot # 0
    BY <1>0, <1>2 DEF KeptPart, JobPart
  <2> QED
    BY <1>0, <1>1, <1>3, <2>1, <2>2 DEF KeptPart, JobPart, historyVars
<1>7. ConsumedPart'
  <2>1. \A j : Unsure(j) => Unsure(j)'
    BY DEF Unsure, historyVars
  <2>2. phase' = "crafting" => Unsure(job)'
    BY <1>3 DEF Unsure, Dispatched, historyVars
  <2>3. PICK j : j = job
    OBVIOUS
  <2>4. phase' = "crafting" => Unsure(j)'
    BY <2>2, <2>3 DEF Unsure, Dispatched, historyVars
  <2>5. ASSUME NEW i \in Queue', toServer'[i].type = "craft" 
        PROVE  \E k : k = toServer'[i].job /\ Unsure(k)'
    <3>1. PICK k : k = toServer'[i].job
      OBVIOUS
    <3>2. Unsure(k)'
      BY <1>0, <1>2, <2>1, <2>3, <2>4, <2>5, <3>1 DEF KeptPart, ConsumedPart
    <3> QED
      BY <3>1, <3>2
  <2>6. \A j2 \in consumed' : Unsure(j2)'
    BY <1>0, <2>1 DEF KeptPart, ConsumedPart, historyVars
  <2> QED
    BY <2>5, <2>6 DEF ConsumedPart, Unsure
<1>8. MovesPart'
  <2>1. \A i \in Queue' : toServer'[i].type \in Moving => toServer'[i].job = job
    BY <1>0, <1>2 DEF KeptPart, MovesPart
  <2> QED
    BY <2>1 DEF MovesPart, historyVars
<1>9. OwnerPart'
  <2>1. result + delivered[job] <= Produced(plan[job])
    BY <1>0 DEF KeptPart, OwnerPart
  <2>2. \A i \in Queue' : toServer'[i].type \in {"take", "return"} => toServer'[i].job = job
    BY <1>0, <1>2 DEF KeptPart, MovesPart, Moving
  <2> QED
    BY <2>1, <2>2 DEF OwnerPart, gridVars, historyVars
<1>10. CertainPart'
  <2>1. ASSUME NEW i \in Queue', toServer'[i].type \in {"take", "return"}
        PROVE  answer[toServer'[i].job] = Promise!Open
    BY <1>0, <1>2, <1>3, <2>1 DEF KeptPart, MovesPart, Moving
  <2> QED
    BY <2>1 DEF CertainPart, historyVars
<1>11. TellPart'
  <2>1. ASSUME NEW r \in toClient, r.type = "receipt", r.status = "ok", r.nonce = nonce
        PROVE  /\ phase' \in {"waiting", "requested"}
               /\ \A i \in Queue' : toServer'[i].type = "receipt"
               /\ result = 0 /\ grid = EmptyGrid /\ receipt = NoReceipt
               /\ delivered[job] = Produced(plan[job]) /\ r.count = delivered[job]
    <3>1. /\ phase \in {"waiting", "requested"}
          /\ \A i \in Queue : toServer[i].type = "receipt"
          /\ result = 0 /\ grid = EmptyGrid /\ receipt = NoReceipt
          /\ delivered[job] = Produced(plan[job]) /\ r.count = delivered[job]
      BY <1>0, <1>1, <2>1 DEF KeptPart, TellPart
    <3> QED
      BY <3>1, <1>2
  <2> QED
    BY <1>1, <2>1 DEF TellPart, gridVars, historyVars
<1>12. RecordPart'
  BY <1>0, <1>1 DEF KeptPart, RecordPart, historyVars
<1>13. ClearPart'
  <2>1. UNCHANGED <<grid, result, receipt, stuck>> /\ nonce' = nonce
    BY DEF gridVars, historyVars
  <2>2. \A k \in 1..Len(q) : q[k].type # "prepare"
    OBVIOUS
  <2> QED
    BY <1>0, <1>1, <2>1, <2>2, ClearSent
<1> QED
  BY <1>4, <1>5, <1>6, <1>7, <1>8, <1>9, <1>10, <1>11, <1>12, <1>13 DEF IInv, KeptPart

LEMMA NothingSent ==
  ASSUME TypeOK
  PROVE  /\ <<>> \in Seq(Commands) /\ Len(<<>>) = 0 /\ toServer \o <<>> = toServer
         /\ \A k \in 1..Len(<<>>) : FALSE
  BY ConcatEmptySeq, EmptySeq DEF TypeOK

\* The receipt is asked for again.
LEMMA WaitPreserves ==
  ASSUME IInv, phase = "requested", phase' = "waiting", polls' = polls, toServer' = toServer,
         UNCHANGED <<nonce, nextId, helper, receipt, gridVars, toClient, historyVars>>
  PROVE  IInv'
<1>0. KeptPart /\ TypeOK
  BY DEF IInv, KeptPart
<1> DEFINE q == <<>>
<1>1. /\ q \in Seq(Commands) /\ toServer' = toServer \o q
      /\ \A k \in 1..Len(q) : FALSE
  BY <1>0, NothingSent
<1> HIDE DEF q
<1>2. Prepared /\ Prepared' /\ (Dispatched => Dispatched')
  BY DEF Prepared, Dispatched
<1>3. CraftPart'
  BY <1>0 DEF KeptPart, CraftPart, Queue, gridVars, historyVars
<1>4. AskPart'
  BY <1>0 DEF KeptPart, AskPart, Queue
<1>5. polls' \in 0..MaxPolls
  BY <1>0 DEF TypeOK
<1> QED
  BY <1>1, <1>2, <1>3, <1>4, <1>5, GoesOn

LEMMA RetryPreserves == IInv /\ Retry => IInv'
<1> SUFFICES ASSUME IInv, Retry PROVE IInv'
  OBVIOUS
<1>1. TypeOK
  BY DEF IInv, KeptPart
<1>2. toServer' = toServer
  BY <1>1, NothingSent DEF Retry, Advance
<1> QED
  BY <1>2, WaitPreserves DEF Retry, Advance

\* One packet of the current task: what it needs to know of it.
LEMMA OwnCommand ==
  ASSUME IInv, phase # "idle",
         NEW type \in {"prepare", "place", "craft", "take", "return", "receipt", "cancel"},
         NEW n \in Nat, NEW q, q = <<Command(type, n, 0, job)>>
  PROVE  /\ q \in Seq(Commands) /\ Len(q) = 1 /\ 1..Len(q) = {1}
         /\ q[1].type = type /\ q[1].nonce = n /\ q[1].job = job
         /\ Command(type, n, 0, job) \in Commands
         /\ Command(type, n, 0, job).type = type
<1>1. job \in Jobs /\ 0 \in 0..Slots
  BY Counts DEF IInv, KeptPart, JobPart
<1>2. PICK c : c = Command(type, n, 0, job)
  OBVIOUS
<1>3. c \in Commands /\ c.type = type /\ c.nonce = n /\ c.job = job
  BY <1>1, <1>2, CommandIs
<1>4. q = <<c>>
  BY <1>2
<1>5. q \in Seq(Commands) /\ Len(q) = 1 /\ q[1] = c
  BY <1>3, <1>4
<1>6. 1..Len(q) = {1}
  BY <1>5
<1> QED
  BY <1>2, <1>3, <1>5, <1>6

LEMMA SendCraftPreserves == IInv /\ SendCraft => IInv'
<1> SUFFICES ASSUME IInv, SendCraft PROVE IInv'
  OBVIOUS
<1>0. KeptPart /\ TypeOK
  BY DEF IInv, KeptPart
<1>1. /\ phase = "placing" /\ phase' = "crafting" /\ polls' = polls
      /\ UNCHANGED <<nonce, nextId, helper, receipt, gridVars, toClient, historyVars>>
      /\ toServer' = toServer \o <<Command("craft", 0, 0, job)>>
  BY DEF SendCraft, Advance
<1> DEFINE q == <<Command("craft", 0, 0, job)>>
<1>2. /\ q \in Seq(Commands) /\ 1..Len(q) = {1}
      /\ q[1].type = "craft" /\ q[1].job = job
      /\ Command("craft", 0, 0, job) \in Commands
      /\ Command("craft", 0, 0, job).type = "craft"
      /\ Command("craft", 0, 0, job).job = job
  BY <1>1, OwnCommand DEF Command
<1>3. /\ Len(toServer) \in Nat
      /\ \A i \in Queue : i \in Queue' /\ i \in Nat /\ i <= Len(toServer) /\ toServer'[i] = toServer[i]
      /\ Len(toServer) + 1 \in Queue'
      /\ toServer'[Len(toServer) + 1].type = "craft" /\ toServer'[Len(toServer) + 1].job = job
      /\ \A i \in Queue' : i \in Queue \/ i = Len(toServer) + 1
  BY <1>0, <1>1, <1>2, SentOne
<1> HIDE DEF q
<1>4. CraftPart'
  <2>1. /\ delivered[job] = 0 /\ result = 0
        /\ \A i \in Queue : toServer[i].type \notin {"craft", "take", "return", "prepare"}
    BY <1>0, <1>1 DEF KeptPart, CraftPart
  <2>2. ASSUME NEW i \in Queue', toServer'[i].type = "craft"
        PROVE  /\ result = 0 /\ delivered[toServer'[i].job] = 0
               /\ \A k \in Queue' : toServer'[k].type = "craft" => k = i
               /\ \A k \in Queue' : k < i => toServer'[k].type \notin {"take", "return", "prepare"}
    <3>1. i = Len(toServer) + 1
      BY <1>3, <2>1, <2>2
    <3> QED
      BY <1>3, <2>1, <3>1
  <2>3. \A i \in Queue' : toServer'[i].type \notin {"take", "return", "prepare"}
    BY <1>3, <2>1
  <2> QED
    BY <1>1, <2>2, <2>3 DEF CraftPart, gridVars, historyVars
<1>5. AskPart'
  <2>1. \A i \in Queue' : toServer'[i].type \in {"prepare", "receipt"} =>
          i \in Queue /\ toServer'[i] = toServer[i]
    BY <1>3
  <2>2. \A i \in Queue : toServer[i].type \in {"prepare", "receipt"} => toServer[i].nonce # nonce
    BY <1>0, <1>1 DEF KeptPart, AskPart
  <2> QED
    BY <1>1, <2>1, <2>2 DEF AskPart
<1>6. Prepared /\ Prepared' /\ (Dispatched => Dispatched')
  BY <1>1 DEF Prepared, Dispatched
<1>7. polls' \in 0..MaxPolls
  BY <1>0, <1>1 DEF TypeOK
<1>8. toServer' = toServer \o q
  BY <1>1 DEF q
<1> QED
  BY <1>1, <1>2, <1>4, <1>5, <1>6, <1>7, <1>8, GoesOn

LEMMA SendTakePreserves == IInv /\ SendTake => IInv'
<1> SUFFICES ASSUME IInv, SendTake PROVE IInv'
  OBVIOUS
<1>0. KeptPart /\ TypeOK
  BY DEF IInv, KeptPart
<1>1. /\ phase = "crafting" /\ phase' = "waiting" /\ polls' = polls
      /\ UNCHANGED <<nonce, nextId, helper, receipt, gridVars, toClient, historyVars>>
      /\ toServer' = toServer \o <<Command("take", 0, 0, job)>>
  BY DEF SendTake, Advance
<1> DEFINE q == <<Command("take", 0, 0, job)>>
<1>2. /\ q \in Seq(Commands) /\ 1..Len(q) = {1}
      /\ q[1].type = "take" /\ q[1].job = job
      /\ Command("take", 0, 0, job) \in Commands
      /\ Command("take", 0, 0, job).type = "take"
  BY <1>1, OwnCommand DEF Command
<1>3. /\ Len(toServer) \in Nat
      /\ \A i \in Queue : i \in Queue' /\ i \in Nat /\ i <= Len(toServer) /\ toServer'[i] = toServer[i]
      /\ toServer'[Len(toServer) + 1].type = "take"
      /\ \A i \in Queue' : i \in Queue \/ i = Len(toServer) + 1
  BY <1>0, <1>1, <1>2, SentOne
<1> HIDE DEF q
<1>4. CraftPart'
  <2>2. ASSUME NEW i \in Queue', toServer'[i].type = "craft"
        PROVE  /\ result = 0 /\ delivered[toServer'[i].job] = 0
               /\ \A k \in Queue' : toServer'[k].type = "craft" => k = i
               /\ \A k \in Queue' : k < i => toServer'[k].type \notin {"take", "return", "prepare"}
    <3>1. i \in Queue /\ toServer[i].type = "craft" /\ i <= Len(toServer)
      BY <1>3, <2>2
    <3>2. /\ result = 0 /\ delivered[toServer[i].job] = 0
          /\ \A k \in Queue : toServer[k].type = "craft" => k = i
          /\ \A k \in Queue : k < i => toServer[k].type \notin {"take", "return", "prepare"}
      BY <1>0, <3>1 DEF KeptPart, CraftPart
    <3>3. \A k \in Queue' : k < i => k \in Queue
      BY <1>3, <3>1
    <3>4. \A k \in Queue' : toServer'[k].type = "craft" => k = i
      BY <1>3, <3>2
    <3> QED
      BY <1>3, <3>1, <3>2, <3>3, <3>4
  <2> QED
    BY <1>1, <2>2 DEF CraftPart, gridVars, historyVars
<1>5. AskPart'
  <2>1. \A i \in Queue' : toServer'[i].type \in {"prepare", "receipt"} =>
          i \in Queue /\ toServer'[i] = toServer[i]
    BY <1>3
  <2>2. \A i \in Queue : toServer[i].type \in {"prepare", "receipt"} => toServer[i].nonce # nonce
    BY <1>0, <1>1 DEF KeptPart, AskPart
  <2> QED
    BY <1>1, <2>1, <2>2 DEF AskPart
<1>6. Prepared /\ Prepared' /\ (Dispatched => Dispatched')
  BY <1>1 DEF Prepared, Dispatched
<1>7. polls' \in 0..MaxPolls
  BY <1>0, <1>1 DEF TypeOK
<1>8. toServer' = toServer \o q
  BY <1>1 DEF q
<1> QED
  BY <1>1, <1>2, <1>4, <1>5, <1>6, <1>7, <1>8, GoesOn

LEMMA PollPreserves == IInv /\ Poll => IInv'
<1> SUFFICES ASSUME IInv, Poll PROVE IInv'
  OBVIOUS
<1>0. KeptPart /\ TypeOK
  BY DEF IInv, KeptPart
<1>1. /\ phase = "waiting" /\ phase' = "requested" /\ polls < MaxPolls /\ polls' = polls + 1
      /\ UNCHANGED <<nonce, nextId, helper, receipt, gridVars, toClient, historyVars>>
      /\ toServer' = Append(toServer, Command("receipt", nonce, 0, job))
  BY DEF Poll
<1> DEFINE q == <<Command("receipt", nonce, 0, job)>>
<1>2. nonce \in Nat
  BY <1>0 DEF TypeOK
<1>3. /\ q \in Seq(Commands) /\ 1..Len(q) = {1}
      /\ q[1].type = "receipt" /\ q[1].job = job /\ q[1].nonce = nonce
      /\ Command("receipt", nonce, 0, job) \in Commands
      /\ Command("receipt", nonce, 0, job).type = "receipt"
  BY <1>1, <1>2, OwnCommand DEF Command
<1>4. toServer' = toServer \o q
  BY <1>0, <1>1, <1>3, AppendIs
<1>5. /\ Len(toServer) \in Nat
      /\ \A i \in Queue : i \in Queue' /\ i \in Nat /\ i <= Len(toServer) /\ toServer'[i] = toServer[i]
      /\ toServer'[Len(toServer) + 1].type = "receipt"
      /\ \A i \in Queue' : i \in Queue \/ i = Len(toServer) + 1
  BY <1>0, <1>3, <1>4, SentOne
<1> HIDE DEF q
<1>6. CraftPart'
  <2>2. ASSUME NEW i \in Queue', toServer'[i].type = "craft"
        PROVE  /\ result = 0 /\ delivered[toServer'[i].job] = 0
               /\ \A k \in Queue' : toServer'[k].type = "craft" => k = i
               /\ \A k \in Queue' : k < i => toServer'[k].type \notin {"take", "return", "prepare"}
    <3>1. i \in Queue /\ toServer[i].type = "craft" /\ i <= Len(toServer)
      BY <1>5, <2>2
    <3>2. /\ result = 0 /\ delivered[toServer[i].job] = 0
          /\ \A k \in Queue : toServer[k].type = "craft" => k = i
          /\ \A k \in Queue : k < i => toServer[k].type \notin {"take", "return", "prepare"}
      BY <1>0, <3>1 DEF KeptPart, CraftPart
    <3>3. \A k \in Queue' : k < i => k \in Queue
      BY <1>5, <3>1
    <3>4. \A k \in Queue' : toServer'[k].type = "craft" => k = i
      BY <1>5, <3>2
    <3> QED
      BY <1>5, <3>1, <3>2, <3>3, <3>4
  <2> QED
    BY <1>1, <2>2 DEF CraftPart, gridVars, historyVars
<1>7. AskPart'
  <2>1. ASSUME NEW i \in Queue', toServer'[i].type = "prepare" PROVE toServer'[i].nonce # nonce
    BY <1>0, <1>1, <1>5, <2>1 DEF KeptPart, AskPart
  <2>2. ASSUME NEW i \in Queue', toServer'[i].type = "receipt", toServer'[i].nonce = nonce
        PROVE  \A k \in Queue' : k >= i => toServer'[k].type = "receipt"
    <3>1. CASE i \in Queue
      <4>1. \A k \in Queue : k >= i => toServer[k].type = "receipt"
        BY <1>0, <1>5, <2>2, <3>1 DEF KeptPart, AskPart
      <4> QED
        BY <4>1, <1>5
    <3>2. CASE i = Len(toServer) + 1
      <4>1. \A k \in Queue' : k >= i => k = i
        BY <1>5, <3>2
      <4> QED
        BY <4>1, <2>2
    <3> QED
      BY <3>1, <3>2, <1>5
  <2> QED
    BY <1>1, <2>1, <2>2 DEF AskPart
<1>8. Prepared /\ Prepared' /\ (Dispatched => Dispatched')
  BY <1>1 DEF Prepared, Dispatched
<1>9. polls' \in 0..MaxPolls
  BY <1>0, <1>1, Counts DEF TypeOK
<1> QED
  BY <1>1, <1>3, <1>4, <1>6, <1>7, <1>8, <1>9, GoesOn

-----------------------------------------------------------------------------
(* The task ends *)

LEMMA Modulo ==
  ASSUME NEW m \in Nat \ {0}, NEW s \in 1..m
  PROVE  /\ s % m \in 0..(m - 1)
         /\ s < m => s % m = s
         /\ s = m => s % m = 0
OBVIOUS

LEMMA FunctionIsSeq ==
  ASSUME NEW S, NEW n \in Nat, NEW f \in [1..n -> S]
  PROVE  f \in Seq(S) /\ Len(f) = n
<1>1. f \in Seq(S)
  BY SeqDef
<1>2. DOMAIN f = 1..n /\ DOMAIN f = 1..Len(f) /\ Len(f) \in Nat
  BY <1>1, LenProperties
<1> QED
  BY <1>1, <1>2

LEMMA GridIsCleaned ==
  ASSUME job \in Jobs, NEW clean, clean = CleanGrid
  PROVE  /\ clean \in Seq(Commands) /\ Len(clean) = Slots + 1
         /\ \A k \in 1..(Slots + 1) : clean[k].type = "return" /\ clean[k].job = job
         /\ \A k \in 1..Slots : Ret(clean[k], k)
         /\ Ret(clean[Slots + 1], 0)
<1>1. /\ Slots \in Nat \ {0} /\ Slots + 1 \in Nat \ {0} /\ Slots + 1 \in 1..(Slots + 1)
      /\ \A k \in 1..Slots : k \in 1..(Slots + 1) /\ k < Slots + 1
  BY Counts
<1>2. ASSUME NEW k \in 1..(Slots + 1)
      PROVE  /\ clean[k] \in Commands /\ clean[k].type = "return" /\ clean[k].job = job
             /\ clean[k].slot = k % (Slots + 1)
  <2>1. PICK m : m = k % (Slots + 1)
    OBVIOUS
  <2>2. m \in 0..Slots
    BY <1>1, <2>1, Modulo
  <2>3. PICK c : c = Command("return", 0, m, job)
    OBVIOUS
  <2>4. c \in Commands /\ c.type = "return" /\ c.slot = m /\ c.job = job
    BY <2>2, <2>3, CommandIs
  <2>5. clean[k] = c
    BY <2>1, <2>3 DEF CleanGrid
  <2> QED
    BY <2>1, <2>4, <2>5
<1>3. clean \in [1..(Slots + 1) -> Commands]
  <2>1. clean = [k \in 1..(Slots + 1) |-> clean[k]]
    BY DEF CleanGrid
  <2> QED
    BY <2>1, <1>2
<1>4. clean \in Seq(Commands) /\ Len(clean) = Slots + 1
  BY <1>1, <1>3, FunctionIsSeq
<1>5. ASSUME NEW k \in 1..Slots PROVE Ret(clean[k], k)
  <2>1. k \in 1..(Slots + 1) /\ k % (Slots + 1) = k
    BY <1>1, Modulo
  <2> QED
    BY <2>1, <1>2 DEF Ret
<1>6. Ret(clean[Slots + 1], 0)
  <2>1. (Slots + 1) % (Slots + 1) = 0
    BY <1>1, Modulo
  <2> QED
    BY <2>1, <1>1, <1>2 DEF Ret
<1> QED
  BY <1>2, <1>4, <1>5, <1>6

\* What is queued when a task fails: the moves that were still sent, the cleaning
\* of the grid if the task was prepared, and the cancel.
LEMMA FailSends ==
  ASSUME TypeOK, job \in Jobs, NEW sent \in Seq(Commands), NEW prepared \in BOOLEAN,
         \A k \in 1..Len(sent) : /\ sent[k].type = "place" /\ sent[k].slot # 0
                                 /\ sent[k].job = job,
         ~prepared => sent = <<>>,
         toServer' = toServer \o sent \o (IF prepared THEN CleanGrid ELSE <<>>)
                              \o <<Command("cancel", nonce, 0, job)>>
  PROVE  /\ toServer' \in Seq(Commands)
         /\ Len(toServer) \in Nat /\ Len(toServer') \in Nat /\ Len(toServer) < Len(toServer')
         /\ \A i \in Queue : i \in Queue' /\ i \in Nat /\ i <= Len(toServer)
         /\ \A i \in Queue : toServer'[i] = toServer[i]
         /\ Len(toServer') \in Queue' /\ toServer'[Len(toServer')].job = job
         /\ Cancel(toServer'[Len(toServer')], nonce)
         /\ \A i \in Queue' :
              \/ i \in Queue
              \/ i = Len(toServer')
              \/ /\ prepared /\ i \in Nat /\ i > Len(toServer) /\ i < Len(toServer')
                 /\ toServer'[i].job = job /\ toServer'[i].type \in {"place", "return"}
                 /\ toServer'[i].type = "place" => toServer'[i].slot # 0
         /\ prepared =>
              \A s \in 0..Slots : \E h \in Queue' :
                /\ h \in Nat /\ h > Len(toServer) /\ h < Len(toServer') /\ Ret(toServer'[h], s)
                /\ \A k \in Queue' : k \in Queue \/ toServer'[k].type = "place" => k < h
<1>0. PICK clean : clean = CleanGrid
  OBVIOUS
<1>1. /\ clean \in Seq(Commands) /\ Len(clean) = Slots + 1
      /\ \A k \in 1..(Slots + 1) : clean[k].type = "return" /\ clean[k].job = job
      /\ \A k \in 1..Slots : Ret(clean[k], k)
      /\ Ret(clean[Slots + 1], 0)
  BY <1>0, GridIsCleaned
<1>2. PICK mid : mid = IF prepared THEN clean ELSE <<>>
  OBVIOUS
<1>3. PICK c : c = Command("cancel", nonce, 0, job)
  OBVIOUS
<1>4. /\ c \in Commands /\ c.type = "cancel" /\ c.nonce = nonce /\ c.job = job
  <2>1. nonce \in Nat /\ 0 \in 0..Slots
    BY Counts DEF TypeOK
  <2> QED
    BY <2>1, <1>3, CommandIs
<1>5. PICK last : last = <<c>>
  OBVIOUS
<1>6. last \in Seq(Commands) /\ Len(last) = 1 /\ last[1] = c
  BY <1>4, <1>5
<1>7. mid \in Seq(Commands) /\ Len(mid) = (IF prepared THEN Slots + 1 ELSE 0)
  BY <1>1, <1>2, EmptySeq
<1>n. PICK n : n = Len(sent)
  OBVIOUS
<1>m. PICK m : m = Len(mid)
  OBVIOUS
<1>L. PICK L : L = Len(toServer)
  OBVIOUS
<1>M. PICK M : M = Len(toServer')
  OBVIOUS
<1>8. n \in Nat /\ m \in Nat /\ L \in Nat /\ toServer \in Seq(Commands)
  BY <1>7, <1>n, <1>m, <1>L, LenProperties DEF TypeOK
<1>t. sent \in Seq(Commands)
  OBVIOUS
<1>s. PICK u : u = sent \o mid
  OBVIOUS
<1>9. PICK w : w = u \o last
  OBVIOUS
<1>10. /\ u \in Seq(Commands) /\ Len(u) = n + m
       /\ \A k \in 1..n : k \in 1..Len(u) /\ u[k] = sent[k]
       /\ \A k \in 1..m : n + k \in 1..Len(u) /\ u[n + k] = mid[k]
       /\ \A i \in 1..Len(u) : i \in 1..n \/ (i > n /\ i - n \in 1..m)
  <2>0. mid \in Seq(Commands)
    BY <1>7
  <2>1. /\ u \in Seq(Commands) /\ Len(u) = Len(sent) + Len(mid)
        /\ \A k \in 1..Len(sent) : k \in 1..Len(u) /\ u[k] = sent[k]
        /\ \A k \in 1..Len(mid) : Len(sent) + k \in 1..Len(u) /\ u[Len(sent) + k] = mid[k]
        /\ \A i \in 1..Len(u) : i \in 1..Len(sent) \/ (i > Len(sent) /\ i - Len(sent) \in 1..Len(mid))
    BY ONLY <2>0, <1>s, <1>t, Concatenated
  <2> QED
    BY ONLY <2>1, <1>n, <1>m
<1>11. /\ w \in Seq(Commands) /\ Len(w) = Len(u) + 1
       /\ \A k \in 1..Len(u) : k \in 1..Len(w) /\ w[k] = u[k]
       /\ \A k \in 1..1 : Len(u) + k \in 1..Len(w) /\ w[Len(u) + k] = last[k]
       /\ \A i \in 1..Len(w) : i \in 1..Len(u) \/ (i > Len(u) /\ i - Len(u) \in 1..1)
  <2>0. u \in Seq(Commands) /\ last \in Seq(Commands)
    BY <1>6, <1>10
  <2>1. /\ w \in Seq(Commands) /\ Len(w) = Len(u) + Len(last)
        /\ \A k \in 1..Len(u) : k \in 1..Len(w) /\ w[k] = u[k]
        /\ \A k \in 1..Len(last) : Len(u) + k \in 1..Len(w) /\ w[Len(u) + k] = last[k]
        /\ \A i \in 1..Len(w) : i \in 1..Len(u) \/ (i > Len(u) /\ i - Len(u) \in 1..Len(last))
    BY ONLY <2>0, <1>9, Concatenated
  <2>2. Len(last) = 1
    BY <1>6
  <2> QED
    BY ONLY <2>1, <2>2
<1>12. toServer' = toServer \o w
  <2>1. toServer' = ((toServer \o sent) \o mid) \o last
    BY <1>0, <1>2, <1>3, <1>5
  <2>2. (toServer \o sent) \o mid = toServer \o u
    BY <1>7, <1>8, <1>s, ConcatAssociative
  <2>0. toServer \in Seq(Commands) /\ u \in Seq(Commands) /\ last \in Seq(Commands)
    BY <1>6, <1>8, <1>10
  <2>3. (toServer \o u) \o last = toServer \o w
    BY ONLY <2>0, <1>9, ConcatAssociative
  <2> QED
    BY <2>1, <2>2, <2>3
<1>13. /\ toServer' \in Seq(Commands)
       /\ M = L + Len(w)
       /\ \A i \in Queue : i \in Queue' /\ i \in Nat /\ i <= L
       /\ \A i \in Queue : toServer'[i] = toServer[i]
       /\ \A k \in 1..Len(w) : L + k \in Queue' /\ toServer'[L + k] = w[k]
       /\ \A i \in Queue' : \/ i \in Queue
                            \/ /\ i \in Nat /\ i > L /\ i <= M /\ i - L \in 1..Len(w)
                               /\ toServer'[i] = w[i - L]
  BY <1>11, <1>12, <1>L, <1>M, Sent
<1>14. /\ \A k \in 1..n : k \in 1..Len(w) /\ w[k] = sent[k]
       /\ \A k \in 1..m : n + k \in 1..Len(w) /\ w[n + k] = mid[k]
       /\ n + m + 1 \in 1..Len(w) /\ w[n + m + 1] = c
       /\ \A k \in 1..Len(w) : k \in 1..n \/ (k > n /\ k - n \in 1..m) \/ k = n + m + 1
  <2>1. \A k \in 1..n : k \in 1..Len(w) /\ w[k] = sent[k]
    BY <1>10, <1>11
  <2>2. \A k \in 1..m : n + k \in 1..Len(w) /\ w[n + k] = mid[k]
    BY <1>10, <1>11
  <2>3. n + m + 1 \in 1..Len(w) /\ w[n + m + 1] = c
    BY <1>6, <1>10, <1>11
  <2>4. ASSUME NEW i \in 1..Len(w), i \notin 1..Len(u) PROVE i = n + m + 1
    BY <2>4, <1>8, <1>10, <1>11
  <2> QED
    BY <2>1, <2>2, <2>3, <2>4, <1>10
<1>15. M = L + (n + m + 1) /\ M \in Nat
  <2>1. M = L + Len(w) /\ Len(w) = n + m + 1
    BY <1>10, <1>11, <1>13
  <2> QED
    BY ONLY <2>1, <1>8
<1>16. M \in Queue' /\ toServer'[M] = c
  <2>1. PICK k : k = n + m + 1
    OBVIOUS
  <2>2. k \in 1..Len(w) /\ w[k] = c /\ M = L + k
    BY <2>1, <1>14, <1>15
  <2> QED
    BY <2>2, <1>13
<1>17. ASSUME NEW i \in Queue', i \notin Queue, i # M
       PROVE  /\ prepared /\ i \in Nat /\ i > L /\ i < M
              /\ toServer'[i].job = job /\ toServer'[i].type \in {"place", "return"}
              /\ toServer'[i].type = "place" => toServer'[i].slot # 0 /\ i - L \in 1..n
  <2>1. /\ i \in Nat /\ i > L /\ i <= M /\ i - L \in 1..Len(w)
        /\ toServer'[i] = w[i - L]
    BY <1>13, <1>15, <1>17
  <2>2. PICK k : k = i - L
    OBVIOUS
  <2>3. k \in 1..Len(w) /\ k # n + m + 1 /\ i < M
    BY <1>8, <1>15, <1>17, <2>1, <2>2
  <2>4. CASE k \in 1..n
    <3>1. toServer'[i] = sent[k]
      BY <2>1, <2>2, <2>4, <1>14
    <3>2. prepared
      <4>1. sent = <<>> => n = 0
        BY <1>n, EmptySeq
      <4> QED
        BY <4>1, <2>4
    <3>3. k \in 1..Len(sent)
      BY <2>4, <1>n
    <3> QED
      BY <2>1, <2>2, <2>3, <2>4, <3>1, <3>2, <3>3, <1>15
  <2>5. CASE k > n /\ k - n \in 1..m
    <3>1. PICK h : h = k - n
      OBVIOUS
    <3>2. h \in 1..m /\ k = n + h
      BY <2>3, <2>5, <3>1, <1>8
    <3>3. toServer'[i] = mid[h]
      BY <2>1, <2>2, <3>2, <1>14
    <3>4. prepared /\ h \in 1..(Slots + 1)
      BY <3>2, <1>7, <1>m, Counts
    <3>5. toServer'[i].type = "return" /\ toServer'[i].job = job
      BY <3>3, <3>4, <1>1, <1>2
    <3> QED
      BY <2>1, <2>3, <3>4, <3>5, <1>15
  <2> QED
    BY <2>3, <2>4, <2>5, <1>14
<1>18. ASSUME prepared, NEW s \in 0..Slots
       PROVE  \E h \in Queue' :
                /\ h \in Nat /\ h > L /\ h < M /\ Ret(toServer'[h], s)
                /\ \A k \in Queue' : k \in Queue \/ toServer'[k].type = "place" => k < h
  <2>1. m = Slots + 1
    BY <1>7, <1>18, <1>m
  <2>2. PICK k : k \in 1..m /\ Ret(clean[k], s)
    <3>1. CASE s = 0
      BY <3>1, <1>1, <2>1, Counts
    <3>2. CASE s # 0
      <4>1. s \in 1..Slots /\ s \in 1..m
        BY <3>2, <2>1, Counts
      <4> QED
        BY <4>1, <1>1
    <3> QED
      BY <3>1, <3>2
  <2>3. PICK h : h = L + (n + k)
    OBVIOUS
  <2>4. h \in Queue' /\ toServer'[h] = clean[k]
    <3>1. n + k \in 1..Len(w) /\ w[n + k] = clean[k]
      BY <2>2, <1>2, <1>14, <1>18
    <3> QED
      BY <3>1, <2>3, <1>13, <1>15
  <2>5. h \in Nat /\ h > L + n /\ h > L /\ h < M
    BY <2>2, <2>3, <1>8, <1>15
  <2>6. ASSUME NEW j \in Queue', j \in Queue \/ toServer'[j].type = "place"
        PROVE  j < h
    <3>1. CASE j \in Queue
      BY <3>1, <2>5, <1>8, <1>13, <1>15
    <3>2. CASE j \notin Queue
      <4>1. j # M
        BY <3>2, <2>6, <1>4, <1>16
      <4>2. j - L \in 1..n /\ j \in Nat
        BY <4>1, <3>2, <2>6, <1>17
      <4> QED
        BY <4>2, <2>5, <1>8
    <3> QED
      BY <3>1, <3>2
  <2> QED
    BY <2>2, <2>4, <2>5, <2>6, <1>15
<1>19. L < M /\ L \in Nat
  BY <1>8, <1>15
<1>20. Cancel(toServer'[M], nonce) /\ toServer'[M].job = job
  BY <1>4, <1>16 DEF Cancel
<1>21. \A i \in Queue' :
         \/ i \in Queue
         \/ i = M
         \/ /\ prepared /\ i \in Nat /\ i > L /\ i < M
            /\ toServer'[i].job = job /\ toServer'[i].type \in {"place", "return"}
            /\ toServer'[i].type = "place" => toServer'[i].slot # 0
  BY <1>17
<1>22. M \in Queue' /\ M \in Nat
  BY <1>15, <1>16
<1>23. \A i \in Queue' :
         \/ i \in Queue
         \/ i = Len(toServer')
         \/ /\ prepared /\ i \in Nat /\ i > Len(toServer) /\ i < Len(toServer')
            /\ toServer'[i].job = job /\ toServer'[i].type \in {"place", "return"}
            /\ toServer'[i].type = "place" => toServer'[i].slot # 0
  BY ONLY <1>21, <1>L, <1>M
<1>24. prepared =>
         \A s \in 0..Slots : \E h \in Queue' :
           /\ h \in Nat /\ h > Len(toServer) /\ h < Len(toServer') /\ Ret(toServer'[h], s)
           /\ \A k \in Queue' : k \in Queue \/ toServer'[k].type = "place" => k < h
  BY <1>18, <1>L, <1>M
<1>25. /\ \A i \in Queue : i \in Queue' /\ i \in Nat /\ i <= Len(toServer)
       /\ \A i \in Queue : toServer'[i] = toServer[i]
       /\ toServer' \in Seq(Commands)
  BY ONLY <1>13, <1>L
<1>26. /\ Len(toServer) \in Nat /\ Len(toServer') \in Nat /\ Len(toServer) < Len(toServer')
       /\ Len(toServer') \in Queue' /\ toServer'[Len(toServer')].job = job
       /\ Cancel(toServer'[Len(toServer')], nonce)
  BY ONLY <1>19, <1>20, <1>22, <1>L, <1>M
<1> QED
  BY ONLY <1>23, <1>24, <1>25, <1>26

\* What it means for a task to be resolved.
LEMMA Resolved ==
  ASSUME IInv, phase # "idle",
         NEW verdict \in Promise!Verdicts, NEW unknown \in BOOLEAN, NEW count \in 0..MaxProduced,
         Resolve(verdict, unknown, count)
  PROVE  /\ job \in Jobs /\ answer[job] = Promise!Open
         /\ phase' = "idle" /\ nonce' = 0 /\ polls' = 0
         /\ answer' \in [Jobs -> Promise!Answer \cup {Promise!Open, Promise!Lost}]
         /\ answer'[job] \in Promise!Answer
         /\ answer'[job].verdict = verdict /\ answer'[job].unknown = unknown
         /\ answer'[job].confirmed = count
         /\ answer'[job] # Promise!Open
         /\ \A j \in Jobs : j # job => answer'[j] = answer[j]
<1>1. job \in Jobs /\ answer[job] = Promise!Open
  BY DEF IInv, KeptPart, JobPart
<1>2. PICK a : a = [verdict |-> verdict, unknown |-> unknown, confirmed |-> count]
  OBVIOUS
<1>3. /\ a \in Promise!Answer /\ a.verdict = verdict /\ a.unknown = unknown /\ a.confirmed = count
  BY <1>2 DEF Promise!Answer
<1>4. a # Promise!Open
  BY <1>3 DEF Promise!Open, Promise!Verdicts
<1>5. answer \in [Jobs -> Promise!Answer \cup {Promise!Open, Promise!Lost}]
  BY DEF IInv, KeptPart, TypeOK
<1>6. answer' = [answer EXCEPT ![job] = a]
  BY <1>2 DEF Resolve
<1>7. /\ answer' \in [Jobs -> Promise!Answer \cup {Promise!Open, Promise!Lost}]
      /\ answer'[job] = a
      /\ \A j \in Jobs : j # job => answer'[j] = answer[j]
  BY <1>1, <1>3, <1>5, <1>6
<1>8. phase' = "idle" /\ nonce' = 0 /\ polls' = 0
  BY DEF Resolve
<1> QED
  BY <1>1, <1>3, <1>4, <1>7, <1>8

LEMMA FailPreserves ==
  ASSUME IInv, phase # "idle",
         NEW sent \in Seq(Commands), NEW prepared \in BOOLEAN,
         \A k \in 1..Len(sent) : /\ sent[k].type = "place" /\ sent[k].slot # 0
                                 /\ sent[k].job = job,
         \/ (prepared <=> Prepared) /\ sent = <<>>
         \/ /\ prepared /\ phase = "preparing"
            /\ toServer = <<>> /\ result = 0 /\ grid = EmptyGrid,
         NEW verdict \in {"failed", "cancelled"}, FailAfter(sent, prepared, verdict),
         UNCHANGED <<nextId, helper, receipt, gridVars, toClient, job, plan, consumed,
                     delivered, stuck>>
  PROVE  IInv'
<1>0. KeptPart /\ ClearPart /\ TypeOK
  BY DEF IInv, KeptPart
<1>1. /\ job \in Jobs /\ answer[job] = Promise!Open
      /\ phase' = "idle" /\ nonce' = 0 /\ polls' = 0
      /\ answer' \in [Jobs -> Promise!Answer \cup {Promise!Open, Promise!Lost}]
      /\ answer'[job].verdict = verdict /\ answer'[job].unknown = Dispatched
      /\ answer'[job] # Promise!Open
      /\ \A j \in Jobs : j # job => answer'[j] = answer[j]
  <2>1. verdict \in Promise!Verdicts /\ Dispatched \in BOOLEAN /\ 0 \in 0..MaxProduced
    BY Largest DEF Promise!Verdicts, Dispatched
  <2>2. PICK d \in BOOLEAN : d = Dispatched
    BY <2>1
  <2>3. Resolve(verdict, d, 0)
    BY <2>2 DEF FailAfter
  <2> QED
    BY <2>1, <2>2, <2>3, Resolved
<1>2. /\ toServer' \in Seq(Commands)
      /\ Len(toServer) \in Nat /\ Len(toServer') \in Nat /\ Len(toServer) < Len(toServer')
      /\ \A i \in Queue : i \in Queue' /\ i \in Nat /\ i <= Len(toServer)
      /\ \A i \in Queue : toServer'[i] = toServer[i]
      /\ Len(toServer') \in Queue' /\ toServer'[Len(toServer')].job = job
      /\ Cancel(toServer'[Len(toServer')], nonce)
      /\ \A i \in Queue' :
           \/ i \in Queue
           \/ i = Len(toServer')
           \/ /\ prepared /\ i \in Nat /\ i > Len(toServer) /\ i < Len(toServer')
              /\ toServer'[i].job = job /\ toServer'[i].type \in {"place", "return"}
              /\ toServer'[i].type = "place" => toServer'[i].slot # 0
      /\ prepared =>
           \A s \in 0..Slots : \E h \in Queue' :
             /\ h \in Nat /\ h > Len(toServer) /\ h < Len(toServer') /\ Ret(toServer'[h], s)
             /\ \A k \in Queue' : k \in Queue \/ toServer'[k].type = "place" => k < h
  <2>1. ~prepared => sent = <<>>
    OBVIOUS
  <2>2. toServer' = toServer \o sent \o (IF prepared THEN CleanGrid ELSE <<>>)
                             \o <<Command("cancel", nonce, 0, job)>>
    BY DEF FailAfter
  <2> QED
    BY <1>0, <1>1, <2>1, <2>2, FailSends
<1>3. PICK last : last = Len(toServer')
  OBVIOUS
<1>4. \A i \in Queue' :
        \/ i \in Queue /\ toServer'[i] = toServer[i]
        \/ i = last /\ toServer'[i].type = "cancel" /\ toServer'[i].nonce = nonce /\ toServer'[i].job = job
        \/ /\ prepared /\ toServer'[i].job = job /\ toServer'[i].type \in {"place", "return"}
           /\ toServer'[i].type = "place" => toServer'[i].slot # 0
  BY <1>2, <1>3 DEF Cancel
<1>5. TypeOK'
  <2>1. polls' \in 0..MaxPolls
    BY <1>1, Counts
  <2> QED
    BY <1>0, <1>1, <1>2, <2>1 DEF TypeOK, gridVars
<1>6. NoncePart'
  <2>1. nonce # 0 /\ nonce < nextId /\ nextId \in Nat \ {0}
    BY <1>0 DEF KeptPart, NoncePart
  <2>2. \A i \in Queue' :
          toServer'[i].type \in Asking => toServer'[i].nonce # 0 /\ toServer'[i].nonce < nextId
    BY <1>0, <1>4, <2>1 DEF KeptPart, NoncePart, Asking
  <2> QED
    BY <1>0, <1>1, <2>1, <2>2 DEF KeptPart, NoncePart
<1>7. JobPart'
  <2>1. \A i \in Queue' : toServer'[i].job <= job
    <3>1. job <= job /\ \A i \in Queue : toServer[i].job <= job
      BY <1>0, <1>1, Counts DEF KeptPart, JobPart, Jobs
    <3> QED
      BY <3>1, <1>4
  <2>2. \A i \in Queue' : toServer'[i].type = "place" => toServer'[i].slot # 0
    BY <1>0, <1>4 DEF KeptPart, JobPart
  <2>3. \A j \in Jobs : j <= job => answer'[j] # Promise!Open
    BY <1>0, <1>1 DEF KeptPart, JobPart
  <2>4. \A j \in Jobs : j > job => answer'[j] = Promise!Open /\ delivered[j] = 0 /\ j \notin consumed
    <3>1. \A j \in Jobs : j > job => j # job
      BY <1>1 DEF Jobs
    <3> QED
      BY <1>0, <1>1, <3>1 DEF KeptPart, JobPart
  <2> QED
    BY <1>1, <2>1, <2>2, <2>3, <2>4 DEF JobPart
<1>8. ConsumedPart'
  <2>1. ASSUME NEW j \in Jobs, Unsure(j) PROVE Unsure(j)'
    <3>1. CASE j = job
      BY <1>1, <2>1, <3>1 DEF Unsure
    <3>2. CASE j # job
      BY <1>1, <2>1, <3>2 DEF Unsure
    <3> QED
      BY <3>1, <3>2
  <2>2. ASSUME NEW i \in Queue', toServer'[i].type = "craft"
        PROVE  \E k : k = toServer'[i].job /\ Unsure(k)'
    <3>1. i \in Queue /\ toServer'[i] = toServer[i]
      BY <1>4, <2>2
    <3>2. PICK k : k = toServer[i].job
      OBVIOUS
    <3>3. k \in Jobs
      BY <1>0, <3>1, <3>2, QueueIsSeq DEF Commands
    <3>4. Unsure(k)
      BY <1>0, <2>2, <3>1, <3>2 DEF KeptPart, ConsumedPart
    <3> QED
      BY <2>1, <3>1, <3>2, <3>3, <3>4
  <2>3. \A j \in consumed' : Unsure(j)'
    BY <1>0, <2>1 DEF KeptPart, ConsumedPart, TypeOK
  <2> QED
    BY <2>2, <2>3 DEF ConsumedPart, Unsure
<1>9. MovesPart'
  <2>1. \A i \in Queue' : toServer'[i].type \in Moving =>
          \/ i \in Queue /\ toServer'[i] = toServer[i]
          \/ prepared /\ toServer'[i].job = job
    BY <1>4 DEF Moving
  <2>2. prepared => \A i \in Queue : toServer[i].type \in Moving => toServer[i].job = job
    <3>1. CASE toServer = <<>>
      BY <1>0, <3>1, QueueIsSeq, EmptySeq DEF Queue
    <3>2. CASE prepared <=> Prepared
      BY <1>0, <3>2 DEF KeptPart, MovesPart
    <3> QED
      BY <3>1, <3>2
  <2>3. ~prepared => \A i \in Queue' : toServer'[i].type \in Moving => i \in Queue /\ toServer'[i] = toServer[i]
    BY <2>1
  <2>4. CASE prepared
    <3>1. \A i \in Queue' : toServer'[i].type \in Moving => toServer'[i].job = job
      BY <2>1, <2>2, <2>4
    <3> QED
      BY <1>1, <3>1 DEF MovesPart, Prepared
  <2>5. CASE ~prepared
    BY <1>0, <1>1, <2>3, <2>5 DEF KeptPart, MovesPart, Prepared
  <2> QED
    BY <2>4, <2>5
<1>10. CraftPart'
  <2>1. ASSUME NEW i \in Queue', toServer'[i].type = "craft"
        PROVE  /\ result = 0 /\ delivered[toServer'[i].job] = 0
               /\ \A k \in Queue' : toServer'[k].type = "craft" => k = i
               /\ \A k \in Queue' : k < i => toServer'[k].type \notin {"take", "return", "prepare"}
    <3>1. i \in Queue /\ toServer[i].type = "craft" /\ toServer'[i] = toServer[i] /\ i <= Len(toServer)
      BY <1>2, <1>4, <2>1
    <3>2. /\ result = 0 /\ delivered[toServer[i].job] = 0
          /\ \A k \in Queue : toServer[k].type = "craft" => k = i
          /\ \A k \in Queue : k < i => toServer[k].type \notin {"take", "return", "prepare"}
      BY <1>0, <3>1 DEF KeptPart, CraftPart
    <3>3. \A k \in Queue' : k < i => k \in Queue /\ toServer'[k] = toServer[k]
      BY <1>2, <3>1
    <3>4. \A k \in Queue' : toServer'[k].type = "craft" => k = i
      BY <1>4, <3>2
    <3> QED
      BY <3>1, <3>2, <3>3, <3>4
  <2> QED
    BY <1>1, <2>1 DEF CraftPart, gridVars
<1>11. prepared => result + delivered[job] <= Produced(plan[job])
  <2>1. CASE Prepared
    BY <1>0, <2>1 DEF KeptPart, OwnerPart
  <2>2. CASE phase = "preparing" /\ result = 0
    <3>1. delivered[job] = 0
      BY <1>0, <2>2 DEF KeptPart, CraftPart
    <3> QED
      BY <1>0, <1>1, <2>2, <3>1, JobIsPlanned
  <2> QED
    BY <2>1, <2>2
<1>12. OwnerPart'
  <2>1. ASSUME NEW i \in Queue', toServer'[i].type \in {"take", "return"}
        PROVE  result + delivered[toServer'[i].job] <= Produced(plan[toServer'[i].job])
    <3>1. \/ i \in Queue /\ toServer'[i] = toServer[i]
          \/ prepared /\ toServer'[i].job = job
      BY <1>4, <2>1
    <3> QED
      BY <1>0, <1>11, <2>1, <3>1 DEF KeptPart, OwnerPart
  <2> QED
    BY <1>1, <2>1 DEF OwnerPart, Prepared, gridVars
<1>13. CertainPart'
  <2>1. ASSUME NEW i \in Queue', toServer'[i].type \in {"take", "return"}
        PROVE  \/ answer'[toServer'[i].job] = Promise!Open
               \/ answer'[toServer'[i].job].unknown
               \/ result = 0 /\ \A k \in Queue' : toServer'[k].type # "craft"
    <3>1. \/ i \in Queue /\ toServer'[i] = toServer[i]
          \/ prepared /\ toServer'[i].job = job
      BY <1>4, <2>1
    <3>2. \A k \in Queue' : toServer'[k].type = "craft" => k \in Queue /\ toServer[k].type = "craft"
      BY <1>4
    <3>3. CASE toServer'[i].job # job
      <4>1. i \in Queue /\ toServer'[i] = toServer[i]
        BY <3>1, <3>3
      <4>2. toServer[i].job \in Jobs
        BY <1>0, <4>1, QueueIsSeq DEF Commands
      <4>3. answer'[toServer[i].job] = answer[toServer[i].job]
        BY <1>1, <3>3, <4>1, <4>2
      <4> QED
        BY <1>0, <2>1, <3>2, <4>1, <4>3 DEF KeptPart, CertainPart
    <3>4. CASE toServer'[i].job = job /\ Dispatched
      BY <1>1, <3>4
    <3>5. CASE toServer'[i].job = job /\ ~Dispatched
      <4>1. phase \in {"preparing", "placing"}
        BY <1>0, <3>5 DEF TypeOK, Phases, Dispatched
      <4>2. CASE phase = "placing"
        <5>1. /\ result = 0 /\ \A k \in Queue : toServer[k].type # "craft"
          BY <1>0, <4>2 DEF KeptPart, CraftPart
        <5> QED
          BY <5>1, <3>2
      <4>3. CASE phase = "preparing"
        <5>1. i \notin Queue
          BY <1>0, <1>2, <2>1, <3>5, <4>3 DEF KeptPart, JobPart, Moving
        <5>2. prepared /\ toServer = <<>> /\ result = 0
          BY <3>1, <4>3, <5>1 DEF Prepared
        <5>3. Queue = {}
          BY <1>0, <5>2, QueueIsSeq DEF Queue
        <5> QED
          BY <3>2, <5>2, <5>3
      <4> QED
        BY <4>1, <4>2, <4>3
    <3> QED
      BY <3>3, <3>4, <3>5
  <2> QED
    BY <2>1 DEF CertainPart, gridVars
<1>14. AskPart'
  <2>1. \A i \in Queue' : toServer'[i].type \in Asking => toServer'[i].nonce # 0
    BY <1>6 DEF NoncePart
  <2> QED
    BY <1>1, <2>1 DEF AskPart, Asking
<1>15. TellPart' /\ RecordPart'
  BY <1>1 DEF TellPart, RecordPart
<1>16. ClearPart'
  <2> SUFFICES ASSUME ~stuck PROVE ClearPart'
    BY DEF ClearPart
  <2>0. /\ \A i \in Queue : toServer[i].type = "prepare" => GridClear(i) /\ SlotClear(i, 0)
        /\ phase \in {"idle", "preparing"} => GridClear(Len(toServer) + 1)
        /\ SlotClear(Len(toServer) + 1, nonce)
    BY <1>0 DEF ClearPart
  <2>1. ASSUME NEW i \in Queue', toServer'[i].type = "prepare" PROVE GridClear(i)' /\ SlotClear(i, 0)'
    <3>1. i \in Queue /\ toServer[i].type = "prepare" /\ i \in 1..(Len(toServer) + 1)
      BY <1>2, <1>4, <2>1 DEF Queue
    <3>2. GridClear(i) /\ SlotClear(i, 0)
      BY <2>0, <3>1
    <3>3. \A k \in Queue' : k \in Queue \/ k > Len(toServer)
      BY <1>2
    <3> QED
      BY <1>0, <1>2, <3>1, <3>2, <3>3, AheadOfSent DEF gridVars
  <2>2. GridClear(Len(toServer) + 1)'
    <3>1. CASE ~prepared
      <4>1. phase = "preparing"
        BY <1>0, <3>1 DEF Prepared, TypeOK, Phases
      <4>2. \A i \in Queue' : i \in Queue \/ toServer'[i].type \notin {"place", "craft"}
        BY <1>4, <3>1
      <4>3. Len(toServer) <= Len(toServer')
        BY <1>2
      <4> QED
        BY <1>0, <1>2, <2>0, <4>1, <4>2, <4>3, PastSent DEF gridVars
    <3>2. CASE prepared
      <4>1. \A k \in Queue' : k < last + 1 /\ k \in Nat
        BY <1>2, <1>3 DEF Queue
      <4>2. \A s \in 0..Slots : \E h \in Queue' :
              /\ h < last + 1 /\ Ret(toServer'[h], s)
              /\ \A k \in Queue' : toServer'[k].type \in {"place", "craft"} => k < h
        <5>1. \A k \in Queue' : toServer'[k].type = "craft" => k \in Queue
          BY <1>4
        <5> QED
          BY <1>2, <3>2, <4>1, <5>1
      <4>3. /\ \A s \in 1..Slots : s \in 0..Slots
            /\ 0 \in 0..Slots
        BY Counts
      <4>4. \A k \in Queue' : toServer'[k].type = "place" => toServer'[k].slot \in 0..Slots
        <5>1. \A k \in Queue' : toServer'[k] \in Commands
          BY <1>5, ElementOfSeq DEF TypeOK, Queue
        <5> QED
          BY <5>1 DEF Commands
      <4>5. \A s \in 1..Slots : \E h \in Queue' : h < last + 1 /\ Ret(toServer'[h], s)
        BY <4>2, <4>3
      <4>6. \A k \in Queue' : toServer'[k].type = "place" =>
              \E h \in Queue' : k < h /\ h < last + 1 /\ Ret(toServer'[h], toServer'[k].slot)
        BY <4>2, <4>4
      <4>7. \E h \in Queue' : h < last + 1 /\ Ret(toServer'[h], 0)
        BY <4>2, <4>3
      <4>8. \A k \in Queue' : toServer'[k].type = "craft" =>
              \E h \in Queue' : k < h /\ h < last + 1 /\ Ret(toServer'[h], 0)
        BY <4>2, <4>3
      <4> QED
        BY <1>3, <4>5, <4>6, <4>7, <4>8 DEF GridClear
    <3> QED
      BY <3>1, <3>2
  <2>3. SlotClear(Len(toServer) + 1, nonce)'
    <3>0. /\ \A k \in Queue : k < last /\ k < last + 1 /\ k < Len(toServer) + 1
          /\ last \in Queue' /\ last < last + 1
          /\ Cancel(toServer'[last], nonce)
      BY <1>2, <1>3
    <3>1. receipt.nonce # 0 => \E k \in Queue' : k < last + 1 /\ Cancel(toServer'[k], receipt.nonce)
      <4>1. CASE receipt.nonce = nonce
        BY <3>0, <4>1
      <4>2. CASE receipt.nonce \notin {0, nonce}
        <5>1. PICK k \in Queue : k < Len(toServer) + 1 /\ Cancel(toServer[k], receipt.nonce)
          BY <2>0, <4>2 DEF SlotClear
        <5> QED
          BY <5>1, <3>0, <1>2
      <4> QED
        BY <4>1, <4>2
    <3>2. ASSUME NEW k \in Queue', toServer'[k].type = "prepare"
          PROVE  \E h \in Queue' : k < h /\ h < last + 1 /\ Cancel(toServer'[h], toServer'[k].nonce)
      <4>1. k \in Queue /\ toServer'[k] = toServer[k]
        BY <1>4, <3>2
      <4>2. CASE toServer[k].nonce = nonce
        BY <3>0, <4>1, <4>2
      <4>3. CASE toServer[k].nonce # nonce
        <5>1. PICK h \in Queue : k < h /\ Cancel(toServer[h], toServer[k].nonce)
          BY <2>0, <3>0, <3>2, <4>1, <4>3 DEF SlotClear
        <5> QED
          BY <5>1, <3>0, <4>1, <1>2
      <4> QED
        BY <4>2, <4>3
    <3> QED
      BY <1>1, <1>3, <3>1, <3>2 DEF SlotClear
  <2> QED
    BY <2>1, <2>2, <2>3 DEF ClearPart
<1> QED
  BY <1>5, <1>6, <1>7, <1>8, <1>9, <1>10, <1>12, <1>13, <1>14, <1>15, <1>16 DEF IInv, KeptPart


-----------------------------------------------------------------------------
(* The steps that end the task *)

\* fail_native_craft as it is: what is cleaned up depends on the phase only.
LEMMA FailStep ==
  ASSUME IInv, phase # "idle", NEW verdict \in {"failed", "cancelled"},
         FailAfter(<<>>, Prepared, verdict),
         UNCHANGED <<nextId, helper, receipt, gridVars, toClient, job, plan, consumed,
                     delivered, stuck>>
  PROVE  IInv'
<1>1. PICK sent : sent = <<>>
  OBVIOUS
<1>2. sent \in Seq(Commands) /\ \A k \in 1..Len(sent) : FALSE
  BY <1>1, EmptySeq
<1>3. PICK p \in BOOLEAN : p <=> Prepared
  BY DEF Prepared
<1>4. FailAfter(sent, p, verdict)
  BY <1>1, <1>3 DEF FailAfter
<1> QED
  BY <1>1, <1>2, <1>3, <1>4, FailPreserves

\* The moves of the first n slots are packets of the current task.
LEMMA MovesArePlaced ==
  ASSUME job \in Jobs, NEW n \in 0..Slots, NEW q, q = Placements(n)
  PROVE  /\ q \in Seq(Commands) /\ Len(q) = n
         /\ \A k \in 1..n : /\ q[k].type = "place" /\ q[k].slot = k /\ q[k].slot # 0
                            /\ q[k].job = job
<1>1. n \in Nat /\ \A k \in 1..n : k \in 0..Slots /\ k # 0
  BY Counts
<1>2. ASSUME NEW k \in 1..n
      PROVE  /\ q[k] \in Commands /\ q[k].type = "place" /\ q[k].slot = k /\ q[k].slot # 0
             /\ q[k].job = job
  <2>1. PICK c : c = Command("place", 0, k, job)
    OBVIOUS
  <2>2. c \in Commands /\ c.type = "place" /\ c.slot = k /\ c.job = job
    BY <1>1, <2>1, CommandIs
  <2>3. q[k] = c
    BY <2>1 DEF Placements
  <2> QED
    BY <1>1, <2>2, <2>3
<1>3. q \in [1..n -> Commands]
  <2>1. q = [k \in 1..n |-> q[k]]
    BY DEF Placements
  <2> QED
    BY <2>1, <1>2
<1> QED
  BY <1>1, <1>2, <1>3, FunctionIsSeq

LEMMA HandleUnreadablePreserves ==
  ASSUME IInv, NEW r \in toClient, HandleUnreadable(r) PROVE IInv'
  BY FailStep DEF HandleUnreadable, Fail

LEMMA TimeoutPreserves == IInv /\ Timeout => IInv'
  BY FailStep DEF Timeout, Fail

LEMMA SendFailsPreserves == IInv /\ SendFails => IInv'
  BY FailStep DEF SendFails, Fail

LEMMA StopPreserves == IInv /\ Stop => IInv'
  BY FailStep DEF Stop

\* All ingredients are on their way.
LEMMA AllArePlaced ==
  ASSUME IInv, phase = "preparing", phase' = "placing",
         toServer = <<>>, result = 0, grid = EmptyGrid,
         toServer' = toServer \o Placements(Slots),
         UNCHANGED <<nonce, polls, answer, nextId, helper, receipt, gridVars, toClient,
                     job, plan, consumed, delivered, stuck>>
  PROVE  IInv'
<1>0. KeptPart /\ ClearPart /\ TypeOK
  BY DEF IInv, KeptPart
<1>1. job \in Jobs /\ answer[job] = Promise!Open /\ delivered[job] = 0
  BY <1>0 DEF KeptPart, JobPart, CraftPart
<1>2. PICK q : q = Placements(Slots)
  OBVIOUS
<1>3. /\ q \in Seq(Commands) /\ Len(q) = Slots
      /\ \A k \in 1..Slots : q[k].type = "place" /\ q[k].slot # 0 /\ q[k].job = job
  <2>1. Slots \in 0..Slots
    BY Counts
  <2> QED
    BY <1>1, <1>2, <2>1, MovesArePlaced
<1>4. Queue = {}
  BY <1>0, QueueIsSeq DEF Queue
<1>5. /\ toServer' \in Seq(Commands)
      /\ \A i \in Queue' : toServer'[i].type = "place" /\ toServer'[i].slot # 0
                                                       /\ toServer'[i].job = job
  <2>1. toServer' = toServer \o q
    BY <1>2
  <2>2. /\ toServer' \in Seq(Commands)
        /\ \A i \in Queue' : \/ i \in Queue
                             \/ /\ i - Len(toServer) \in 1..Len(q)
                                /\ toServer'[i] = q[i - Len(toServer)]
    BY <1>0, <1>3, <2>1, Sent
  <2> QED
    BY <1>3, <1>4, <2>2
<1>6. TypeOK'
  BY <1>0, <1>5 DEF TypeOK, Phases, gridVars
<1>7. NoncePart'
  BY <1>0, <1>5 DEF KeptPart, NoncePart, Asking
<1>8. JobPart'
  <2>1. job <= job
    BY <1>1, Counts DEF Jobs
  <2> QED
    BY <1>0, <1>1, <1>5, <2>1 DEF KeptPart, JobPart
<1>9. ConsumedPart'
  <2>1. \A j : Unsure(j) => Unsure(j)'
    BY DEF Unsure, Dispatched
  <2> QED
    BY <1>0, <1>5, <2>1 DEF KeptPart, ConsumedPart
<1>10. MovesPart'
  BY <1>5 DEF MovesPart
<1>11. CraftPart'
  BY <1>1, <1>5 DEF CraftPart, gridVars
<1>12. OwnerPart'
  BY <1>0, <1>1, <1>5, JobIsPlanned DEF OwnerPart, gridVars
<1>13. CertainPart' /\ AskPart'
  BY <1>5 DEF CertainPart, AskPart
<1>14. TellPart'
  BY <1>0 DEF KeptPart, TellPart
<1>15. RecordPart'
  BY <1>0 DEF KeptPart, RecordPart
<1>16. ClearPart'
  <2>1. \A k \in 1..Len(q) : q[k].type # "prepare"
    BY <1>3
  <2>2. toServer' = toServer \o q
    BY <1>2
  <2> QED
    BY <1>0, <1>3, <2>1, <2>2, ClearSent DEF gridVars
<1> QED
  BY <1>6, <1>7, <1>8, <1>9, <1>10, <1>11, <1>12, <1>13, <1>14, <1>15, <1>16 DEF IInv, KeptPart

LEMMA HandlePreparePreserves ==
  ASSUME IInv, NEW r \in toClient, HandlePrepare(r) PROVE IInv'
<1>0. /\ r.type = "prepare" /\ phase = "preparing" /\ r.nonce = nonce
      /\ UNCHANGED <<nextId, helper, receipt, gridVars, toClient,
                     job, plan, consumed, delivered, stuck>>
  BY DEF HandlePrepare
<1>1. job \in Jobs
  BY <1>0 DEF IInv, KeptPart, JobPart
<1>2. r.status = "ok" => toServer = <<>> /\ result = 0 /\ grid = EmptyGrid
  BY <1>0 DEF IInv, KeptPart, TellPart
<1>3. CASE r.status = "ok" /\ phase' = "placing" /\ toServer' = toServer \o Placements(Slots)
                           /\ UNCHANGED <<nonce, polls, answer>>
  BY <1>0, <1>2, <1>3, AllArePlaced
<1>4. CASE r.status = "ok" /\ \E n \in 0..(Slots - 1) : FailAfter(Placements(n), TRUE, "failed")
  <2>1. PICK n \in 0..(Slots - 1) : FailAfter(Placements(n), TRUE, "failed")
    BY <1>4
  <2>2. n \in 0..Slots
    BY Counts
  <2>3. PICK q : q = Placements(n)
    OBVIOUS
  <2>4. /\ q \in Seq(Commands)
        /\ \A k \in 1..Len(q) : q[k].type = "place" /\ q[k].slot # 0 /\ q[k].job = job
    BY <1>1, <2>2, <2>3, MovesArePlaced
  <2>5. FailAfter(q, TRUE, "failed")
    BY <2>1, <2>3
  <2> QED
    BY <1>0, <1>2, <1>4, <2>4, <2>5, FailPreserves
<1>5. CASE Fail
  BY <1>0, <1>5, FailStep DEF Fail
<1> QED
  BY <1>3, <1>4, <1>5 DEF HandlePrepare

\* The receipt tells the result.
LEMMA AnswerPreserves ==
  ASSUME IInv, phase = "requested", NEW verdict \in {"completed", "partial"},
         NEW count \in 0..MaxProduced, Resolve(verdict, FALSE, count),
         \A i \in Queue : toServer[i].type = "receipt",
         result = 0, grid = EmptyGrid, receipt = NoReceipt, toServer' = toServer,
         UNCHANGED <<nextId, helper, receipt, gridVars, toClient, job, plan, consumed,
                     delivered, stuck>>
  PROVE  IInv'
<1>0. KeptPart /\ ClearPart /\ TypeOK
  BY DEF IInv, KeptPart
<1>1. /\ job \in Jobs /\ answer[job] = Promise!Open
      /\ phase' = "idle" /\ nonce' = 0 /\ polls' = 0
      /\ answer' \in [Jobs -> Promise!Answer \cup {Promise!Open, Promise!Lost}]
      /\ answer'[job].verdict = verdict
      /\ answer'[job] # Promise!Open
      /\ \A j \in Jobs : j # job => answer'[j] = answer[j]
  <2>1. verdict \in Promise!Verdicts /\ FALSE \in BOOLEAN
    BY DEF Promise!Verdicts
  <2>2. PICK u \in BOOLEAN : u = FALSE
    OBVIOUS
  <2>3. Resolve(verdict, u, count)
    BY <2>2
  <2> QED
    BY <2>1, <2>3, Resolved
<1>2. Queue' = Queue /\ \A i \in Queue' : toServer'[i] = toServer[i] /\ toServer'[i].type = "receipt"
  BY DEF Queue
<1>3. TypeOK'
  <2>1. polls' \in 0..MaxPolls
    BY <1>1, Counts
  <2> QED
    BY <1>0, <1>1, <2>1 DEF TypeOK, gridVars
<1>4. NoncePart'
  <2>1. nextId \in Nat \ {0} /\ 0 < nextId
    BY <1>0 DEF KeptPart, NoncePart
  <2> QED
    BY <1>0, <1>1, <1>2, <2>1 DEF KeptPart, NoncePart
<1>5. JobPart'
  <2>1. \A j \in Jobs : j <= job => answer'[j] # Promise!Open
    BY <1>0, <1>1 DEF KeptPart, JobPart
  <2>2. \A j \in Jobs : j > job => answer'[j] = Promise!Open /\ delivered[j] = 0 /\ j \notin consumed
    <3>1. \A j \in Jobs : j > job => j # job
      BY <1>1 DEF Jobs
    <3> QED
      BY <1>0, <1>1, <3>1 DEF KeptPart, JobPart
  <2>3. \A i \in Queue' : toServer'[i].job <= job
    BY <1>0, <1>2 DEF KeptPart, JobPart
  <2> QED
    BY <1>1, <1>2, <2>1, <2>2, <2>3 DEF JobPart
<1>6. ConsumedPart'
  <2>1. ASSUME NEW j \in Jobs, Unsure(j) PROVE Unsure(j)'
    <3>1. CASE j = job
      BY <1>1, <3>1 DEF Unsure
    <3>2. CASE j # job
      BY <1>1, <2>1, <3>2 DEF Unsure
    <3> QED
      BY <3>1, <3>2
  <2>2. \A j \in consumed' : Unsure(j)'
    BY <1>0, <2>1 DEF KeptPart, ConsumedPart, TypeOK
  <2> QED
    BY <1>2, <2>2 DEF ConsumedPart
<1>7. MovesPart' /\ CraftPart' /\ OwnerPart' /\ CertainPart'
  BY <1>1, <1>2 DEF MovesPart, CraftPart, OwnerPart, CertainPart, Moving, Prepared
<1>8. AskPart'
  <2>1. \A i \in Queue' : toServer'[i].nonce # 0
    BY <1>0, <1>2 DEF KeptPart, NoncePart, Asking
  <2> QED
    BY <1>1, <1>2, <2>1 DEF AskPart
<1>9. TellPart' /\ RecordPart'
  BY <1>1 DEF TellPart, RecordPart
<1>10. ClearPart'
  <2>1. \A s \in 1..Slots : ~(grid'[s] > 0)
    BY DEF EmptyGrid, gridVars
  <2>2. ~(result' > 0) /\ receipt'.nonce = 0
    BY ReceiptsAreTyped DEF gridVars
  <2>3. \A i : GridClear(i)' /\ \A n : SlotClear(i, n)'
    BY <2>1, <2>2, <1>2 DEF GridClear, SlotClear
  <2>4. PICK l, n : l = (Len(toServer) + 1)' /\ n = nonce'
    OBVIOUS
  <2>5. GridClear(Len(toServer) + 1)' /\ SlotClear(Len(toServer) + 1, nonce)'
    BY <2>1, <2>2, <1>2 DEF GridClear, SlotClear
  <2> QED
    BY <2>5, <1>2 DEF ClearPart
<1> QED
  BY <1>3, <1>4, <1>5, <1>6, <1>7, <1>8, <1>9, <1>10 DEF IInv, KeptPart

LEMMA HandleReceiptPreserves ==
  ASSUME IInv, NEW r \in toClient, HandleReceipt(r) PROVE IInv'
<1>0. /\ r.type = "receipt" /\ phase = "requested" /\ r.nonce = nonce
      /\ UNCHANGED <<nextId, helper, receipt, gridVars, toClient,
                     job, plan, consumed, delivered, stuck>>
  BY DEF HandleReceipt
<1>1. CASE phase' = "waiting" /\ UNCHANGED <<nonce, polls, toServer, answer>>
  <2>1. UNCHANGED <<nonce, nextId, helper, receipt, gridVars, toClient, historyVars>>
    BY <1>0, <1>1 DEF historyVars
  <2> QED
    BY <1>0, <1>1, <2>1, WaitPreserves
<1>2. CASE /\ r.status = "ok" /\ r.count \in 1..Produced(plan[job])
           /\ Resolve(IF r.count >= plan[job].count THEN "completed" ELSE "partial", FALSE, r.count)
           /\ UNCHANGED toServer
  <2>1. /\ \A i \in Queue : toServer[i].type = "receipt"
        /\ result = 0 /\ grid = EmptyGrid /\ receipt = NoReceipt
    BY <1>0, <1>2 DEF IInv, KeptPart, TellPart
  <2>2. r.count \in 0..MaxProduced
    BY DEF IInv, KeptPart, TypeOK, Replies
  <2>3. PICK v \in {"completed", "partial"} :
          v = IF r.count >= plan[job].count THEN "completed" ELSE "partial"
    OBVIOUS
  <2>4. PICK n \in 0..MaxProduced : n = r.count
    BY <2>2
  <2>5. Resolve(v, FALSE, n)
    BY <1>2, <2>3, <2>4
  <2> QED
    BY <1>0, <1>2, <2>1, <2>5, AnswerPreserves
<1>3. CASE Fail
  BY <1>0, <1>3, FailStep DEF Fail
<1> QED
  BY <1>1, <1>2, <1>3 DEF HandleReceipt


-----------------------------------------------------------------------------
(* The task begins, the process ends *)

LEMMA StartPreserves ==
  ASSUME IInv, NEW p \in Plans, Start(p) PROVE IInv'
<1>0. KeptPart /\ ClearPart /\ TypeOK
  BY DEF IInv, KeptPart
<1>1. /\ phase = "idle" /\ phase' = "preparing" /\ job < MaxJobs /\ job' = job + 1
      /\ plan' = [plan EXCEPT ![job + 1] = p]
      /\ nextId' = nextId + 1 /\ nonce' = nextId /\ polls' = 0
      /\ toServer' = Append(toServer, Command("prepare", nextId, 0, job + 1))
      /\ UNCHANGED <<helper, receipt, gridVars, toClient, consumed, delivered, answer, stuck>>
  BY DEF Start, Prepare
<1>2. /\ job \in Nat /\ job + 1 \in Jobs /\ job + 1 \in 0..MaxJobs /\ nextId \in Nat \ {0}
      /\ nextId + 1 \in Nat \ {0} /\ nextId < nextId + 1 /\ job < job + 1
      /\ nonce = 0
  BY <1>0, <1>1, Counts DEF KeptPart, NoncePart, TypeOK, Jobs
<1>3. PICK c : c = Command("prepare", nextId, 0, job + 1)
  OBVIOUS
<1>4. c \in Commands /\ c.type = "prepare" /\ c.nonce = nextId /\ c.job = job + 1
  <2>1. 0 \in 0..Slots /\ nextId \in Nat
    BY <1>2, Counts
  <2> QED
    BY <1>2, <1>3, <2>1, CommandIs
<1>5. /\ toServer' \in Seq(Commands)
      /\ Len(toServer) \in Nat
      /\ Len(toServer') = Len(toServer) + 1
      /\ \A i \in Queue : i \in Queue' /\ i \in Nat /\ i <= Len(toServer)
      /\ \A i \in Queue : toServer'[i] = toServer[i]
      /\ Len(toServer) + 1 \in Queue'
      /\ toServer'[Len(toServer) + 1] = c
      /\ \A i \in Queue' : i \in Queue \/ i = Len(toServer) + 1
  <2>1. toServer' = toServer \o <<c>>
    BY <1>0, <1>1, <1>3, <1>4, AppendIs
  <2> QED
    BY <1>0, <1>4, <2>1, SentOne
<1>6. \A i \in Queue' :
        \/ i \in Queue /\ toServer'[i] = toServer[i]
        \/ /\ i = Len(toServer') /\ toServer'[i].type = "prepare"
           /\ toServer'[i].nonce = nextId /\ toServer'[i].job = job + 1
  BY <1>4, <1>5
<1>7. \A i \in Queue : toServer[i] \in Commands /\ toServer[i].job \in Jobs /\ toServer[i].job <= job
                       /\ toServer[i].job # job + 1
  <2>1. \A i \in Queue : toServer[i].job \in Jobs /\ toServer[i].job <= job
    BY <1>0, QueueIsSeq DEF KeptPart, JobPart, Commands
  <2>2. \A j \in Jobs : j <= job => j # job + 1
    BY <1>2 DEF Jobs
  <2> QED
    BY <1>0, <2>1, <2>2, QueueIsSeq
<1>8. \A j \in Jobs : j # job + 1 => plan'[j] = plan[j]
  BY <1>0, <1>1 DEF TypeOK
<1>9. TypeOK'
  <2>1. plan' \in [Jobs -> Plans]
    BY <1>0, <1>1 DEF TypeOK
  <2>2. 0 \in 0..MaxPolls
    BY Counts
  <2> QED
    BY <1>0, <1>1, <1>2, <1>5, <2>1, <2>2 DEF TypeOK, Phases, gridVars
<1>10. NoncePart'
  <2>1. \A n \in Nat : n < nextId => n < nextId + 1
    BY <1>2
  <2>2. \A i \in Queue' :
          toServer'[i].type \in Asking => toServer'[i].nonce # 0 /\ toServer'[i].nonce < nextId + 1
    <3>1. \A i \in Queue : toServer[i].nonce \in Nat
      BY <1>7 DEF Commands
    <3> QED
      BY <1>0, <1>2, <1>6, <2>1, <3>1 DEF KeptPart, NoncePart
  <2>3. /\ \A r \in toClient : r.nonce < nextId + 1
        /\ receipt.nonce < nextId + 1
    BY <1>0, <2>1 DEF KeptPart, NoncePart, TypeOK, Replies, Receipts
  <2> QED
    BY <1>0, <1>1, <1>2, <2>2, <2>3 DEF KeptPart, NoncePart
<1>11. JobPart'
  <2>1. answer[job + 1] = Promise!Open /\ delivered[job + 1] = 0
    BY <1>0, <1>2 DEF KeptPart, JobPart
  <2>2. \A j \in Jobs : j <= job + 1 => answer[j] # Promise!Open \/ j = job + 1
    <3>1. \A j \in Jobs : j <= job + 1 => j <= job \/ j = job + 1
      BY <1>2 DEF Jobs
    <3> QED
      BY <1>0, <1>1, <3>1 DEF KeptPart, JobPart
  <2>3. \A j \in Jobs : j > job + 1 => answer[j] = Promise!Open /\ delivered[j] = 0 /\ j \notin consumed
    <3>1. \A j \in Jobs : j > job + 1 => j > job
      BY <1>2 DEF Jobs
    <3> QED
      BY <1>0, <3>1 DEF KeptPart, JobPart
  <2>4. \A i \in Queue' : toServer'[i].job <= job + 1
    <3>1. \A j \in Jobs : j <= job => j <= job + 1
      BY <1>2 DEF Jobs
    <3>2. job + 1 <= job + 1
      BY <1>2
    <3> QED
      BY <1>6, <1>7, <3>1, <3>2
  <2>5. \A i \in Queue' : toServer'[i].type = "place" => toServer'[i].slot # 0
    BY <1>0, <1>6 DEF KeptPart, JobPart
  <2>6. \A i \in Queue' : toServer'[i].type \in Moving => toServer'[i].job # job + 1
    BY <1>6, <1>7 DEF Moving
  <2> QED
    BY <1>1, <1>2, <2>1, <2>2, <2>3, <2>4, <2>5, <2>6 DEF JobPart
<1>12. ConsumedPart'
  <2>1. ASSUME NEW j \in Jobs, Unsure(j) PROVE Unsure(j)'
    <3>1. answer[j] # Promise!Open
      BY <1>1, <2>1 DEF Unsure, Dispatched
    <3> QED
      BY <1>1, <2>1, <3>1 DEF Unsure
  <2>2. \A j \in consumed' : Unsure(j)'
    BY <1>0, <1>1, <2>1 DEF KeptPart, ConsumedPart, TypeOK
  <2>3. ASSUME NEW i \in Queue', toServer'[i].type = "craft"
        PROVE  \E k : k = toServer'[i].job /\ Unsure(k)'
    <3>1. i \in Queue /\ toServer'[i] = toServer[i]
      BY <1>6, <2>3
    <3>2. PICK k : k = toServer[i].job
      OBVIOUS
    <3> QED
      BY <1>0, <1>7, <2>1, <2>3, <3>1, <3>2 DEF KeptPart, ConsumedPart
  <2> QED
    BY <2>2, <2>3 DEF ConsumedPart, Unsure
<1>13. MovesPart'
  <2>1. \A i \in Queue' : toServer'[i].type \in Moving =>
          i \in Queue /\ toServer[i].type \in Moving /\ toServer'[i].job = toServer[i].job
    BY <1>6 DEF Moving
  <2>2. \A i, k \in Queue :
          toServer[i].type \in Moving /\ toServer[k].type \in Moving
            => toServer[i].job = toServer[k].job
    BY <1>0 DEF KeptPart, MovesPart
  <2>3. ~Prepared'
    BY <1>1 DEF Prepared
  <2> QED
    BY <2>1, <2>2, <2>3 DEF MovesPart
<1>14. CraftPart'
  <2>1. ASSUME NEW i \in Queue', toServer'[i].type = "craft"
        PROVE  /\ result = 0 /\ delivered[toServer'[i].job] = 0
               /\ \A k \in Queue' : toServer'[k].type = "craft" => k = i
               /\ \A k \in Queue' : k < i => toServer'[k].type \notin {"take", "return", "prepare"}
    <3>1. i \in Queue /\ toServer[i].type = "craft" /\ toServer'[i] = toServer[i] /\ i <= Len(toServer)
      BY <1>5, <1>6, <2>1
    <3>2. /\ result = 0 /\ delivered[toServer[i].job] = 0
          /\ \A k \in Queue : toServer[k].type = "craft" => k = i
          /\ \A k \in Queue : k < i => toServer[k].type \notin {"take", "return", "prepare"}
      BY <1>0, <3>1 DEF KeptPart, CraftPart
    <3>3. \A k \in Queue' : k < i => k \in Queue /\ toServer'[k] = toServer[k]
      BY <1>5, <3>1
    <3>4. \A k \in Queue' : toServer'[k].type = "craft" => k = i
      BY <1>6, <3>2
    <3> QED
      BY <3>1, <3>2, <3>3, <3>4
  <2>2. delivered[job + 1] = 0
    BY <1>0, <1>2 DEF KeptPart, JobPart
  <2> QED
    BY <1>1, <2>1, <2>2 DEF CraftPart, gridVars
<1>15. OwnerPart'
  <2>1. ASSUME NEW i \in Queue', toServer'[i].type \in {"take", "return"}
        PROVE  result + delivered[toServer'[i].job] <= Produced(plan'[toServer'[i].job])
    <3>1. i \in Queue /\ toServer'[i] = toServer[i]
      BY <1>6, <2>1
    <3>2. plan'[toServer[i].job] = plan[toServer[i].job]
      BY <3>1, <1>7, <1>8
    <3> QED
      BY <1>0, <2>1, <3>1, <3>2 DEF KeptPart, OwnerPart
  <2> QED
    BY <1>1, <2>1 DEF OwnerPart, Prepared, gridVars
<1>16. CertainPart'
  <2>1. \A i \in Queue' : toServer'[i].type \in {"take", "return", "craft"} =>
          i \in Queue /\ toServer'[i] = toServer[i]
    BY <1>6
  <2> QED
    BY <1>0, <1>1, <2>1 DEF KeptPart, CertainPart, gridVars
<1>17. AskPart'
  <2>1. \A i \in Queue : toServer[i].type \in {"prepare", "receipt"} => toServer[i].nonce # nextId
    <3>1. \A n \in Nat : n < nextId => n # nextId
      BY <1>2
    <3>2. \A i \in Queue : toServer[i].nonce \in Nat
      BY <1>7 DEF Commands
    <3> QED
      BY <1>0, <3>1, <3>2 DEF KeptPart, NoncePart, Asking
  <2>2. \A i \in Queue' : toServer'[i].type = "prepare" /\ toServer'[i].nonce = nextId =>
          i = Len(toServer')
    BY <1>6, <2>1
  <2>3. \A i \in Queue' : toServer'[i].type = "receipt" => toServer'[i].nonce # nextId
    BY <1>6, <2>1
  <2> QED
    BY <1>1, <2>2, <2>3 DEF AskPart
<1>18. TellPart' /\ RecordPart'
  <2>1. \A n \in Nat : n < nextId => n # nextId
    BY <1>2
  <2>2. /\ \A r \in toClient : r.nonce # nextId
        /\ receipt.nonce # nextId
    BY <1>0, <2>1 DEF KeptPart, NoncePart, TypeOK, Replies, Receipts
  <2> QED
    BY <1>1, <2>2 DEF TellPart, RecordPart
<1>19. ClearPart'
  <2> SUFFICES ASSUME ~stuck PROVE ClearPart'
    BY <1>1 DEF ClearPart
  <2>0. /\ \A i \in Queue : toServer[i].type = "prepare" => GridClear(i) /\ SlotClear(i, 0)
        /\ GridClear(Len(toServer) + 1)
        /\ SlotClear(Len(toServer) + 1, 0)
    BY <1>0, <1>1, <1>2 DEF ClearPart
  <2>1. /\ \A i \in Queue' : i \in Queue \/ i > Len(toServer)
        /\ Len(toServer) + 1 \in 1..(Len(toServer) + 1)
        /\ \A i \in Queue : i \in 1..(Len(toServer) + 1)
        /\ Len(toServer') \in Nat /\ Len(toServer) <= Len(toServer')
        /\ UNCHANGED <<grid, result, receipt>>
    <3>1. Len(toServer) \in Nat /\ Len(toServer) + 1 > Len(toServer)
      BY <1>5
    <3>2. UNCHANGED <<grid, result, receipt>>
      BY <1>1 DEF gridVars
    <3> QED
      BY <1>5, <3>1, <3>2 DEF Queue
  <2>2. ASSUME NEW i \in 1..(Len(toServer) + 1), GridClear(i), SlotClear(i, 0)
        PROVE  GridClear(i)' /\ SlotClear(i, 0)'
    BY <1>0, <1>5, <2>1, <2>2, AheadOfSent
  <2>3. ASSUME NEW i \in Queue', toServer'[i].type = "prepare" PROVE GridClear(i)' /\ SlotClear(i, 0)'
    <3>1. i \in 1..(Len(toServer) + 1) /\ GridClear(i) /\ SlotClear(i, 0)
      <4>1. CASE i \in Queue
        BY <4>1, <2>0, <2>1, <2>3, <1>5
      <4>2. CASE i = Len(toServer) + 1
        BY <4>2, <2>0, <2>1
      <4> QED
        BY <4>1, <4>2, <1>5
    <3> QED
      BY <3>1, <2>2
  <2>4. GridClear(Len(toServer) + 1)'
    <3>1. \A i \in Queue' : i \in Queue \/ toServer'[i].type \notin {"place", "craft"}
      BY <1>6
    <3> QED
      BY <1>0, <1>5, <2>0, <2>1, <3>1, PastSent
  <2>5. SlotClear(Len(toServer) + 1, nonce)'
    <3>0. PICK n : n = nextId
      OBVIOUS
    <3>1. \A i \in Queue' : i \in Queue \/ toServer'[i].type # "prepare" \/ toServer'[i].nonce = n
      BY <1>6, <3>0
    <3>2. SlotClear(Len(toServer) + 1, n)
      <4>1. receipt.nonce \notin {0, n} =>
              \E k \in Queue : k < Len(toServer) + 1 /\ Cancel(toServer[k], receipt.nonce)
        BY <2>0 DEF SlotClear
      <4>2. \A k \in Queue : toServer[k].type = "prepare" => toServer[k].nonce # 0
        BY <1>0 DEF KeptPart, NoncePart, Asking
      <4>3. \A k \in Queue : k < Len(toServer) + 1 /\ toServer[k].type = "prepare" /\ toServer[k].nonce # n =>
              \E h \in Queue : k < h /\ h < Len(toServer) + 1 /\ Cancel(toServer[h], toServer[k].nonce)
        BY <2>0, <4>2 DEF SlotClear
      <4> QED
        BY <4>1, <4>3 DEF SlotClear
    <3>3. SlotClear(Len(toServer) + 1, n)'
      BY <1>0, <1>5, <2>1, <3>1, <3>2, PastSent
    <3>4. n = nonce'
      BY <1>1, <3>0
    <3> QED
      BY <3>3, <3>4 DEF SlotClear
  <2> QED
    BY <2>3, <2>4, <2>5 DEF ClearPart
<1> QED
  BY <1>9, <1>10, <1>11, <1>12, <1>13, <1>14, <1>15, <1>16, <1>17, <1>18, <1>19 DEF IInv, KeptPart

LEMMA RestartPreserves == IInv /\ Restart => IInv'
<1> SUFFICES ASSUME IInv, Restart PROVE IInv'
  OBVIOUS
<1>0. KeptPart /\ TypeOK
  BY DEF IInv, KeptPart
<1>1. /\ phase' = "idle" /\ nonce' = 0 /\ nextId' = 1 /\ polls' = 0
      /\ receipt' = NoReceipt /\ toServer' = <<>> /\ toClient' = {} /\ stuck'
      /\ answer' = IF phase = "idle" THEN answer ELSE [answer EXCEPT ![job] = Promise!Lost]
      /\ UNCHANGED <<helper, gridVars, job, plan, consumed, delivered>>
  BY DEF Restart
<1>2. Queue' = {} /\ toServer' \in Seq(Commands)
  BY <1>1, EmptySeq DEF Queue
<1>3. /\ answer' \in [Jobs -> Promise!Answer \cup {Promise!Open, Promise!Lost}]
      /\ phase # "idle" => job \in Jobs /\ answer'[job] = Promise!Lost
      /\ \A j \in Jobs : (phase = "idle" \/ j # job) => answer'[j] = answer[j]
  <2>1. phase # "idle" => job \in Jobs
    BY <1>0 DEF KeptPart, JobPart
  <2> QED
    BY <1>0, <1>1, <2>1 DEF TypeOK
<1>4. Promise!Lost # Promise!Open /\ Promise!Lost.unknown /\ Promise!Lost.verdict = "lost"
  BY DEF Promise!Lost, Promise!Open
<1>5. TypeOK'
  BY <1>0, <1>1, <1>2, <1>3, Counts, ReceiptsAreTyped DEF TypeOK, gridVars
<1>6. NoncePart'
  BY <1>1, <1>2, ReceiptsAreTyped DEF NoncePart
<1>7. JobPart'
  <2>1. \A j \in Jobs : j <= job => answer'[j] # Promise!Open
    BY <1>0, <1>3, <1>4 DEF KeptPart, JobPart
  <2>2. \A j \in Jobs : j > job => answer'[j] = Promise!Open /\ delivered[j] = 0 /\ j \notin consumed
    <3>1. \A j \in Jobs : j > job => j # job
      BY <1>0 DEF TypeOK, Jobs
    <3> QED
      BY <1>0, <1>3, <3>1 DEF KeptPart, JobPart
  <2> QED
    BY <1>1, <1>2, <2>1, <2>2 DEF JobPart
<1>8. ConsumedPart'
  <2>1. ASSUME NEW j \in consumed PROVE Unsure(j)'
    <3>1. j \in Jobs /\ Unsure(j)
      BY <1>0 DEF KeptPart, ConsumedPart, TypeOK
    <3>2. CASE phase # "idle" /\ j = job
      BY <1>3, <1>4, <3>2 DEF Unsure
    <3>3. CASE phase = "idle" \/ j # job
      <4>1. answer[j] # Promise!Open
        BY <3>1, <3>3 DEF Unsure, Dispatched
      <4> QED
        BY <1>3, <3>1, <3>3, <4>1 DEF Unsure
    <3> QED
      BY <3>2, <3>3
  <2> QED
    BY <1>1, <1>2, <2>1 DEF ConsumedPart
<1>9. MovesPart' /\ CraftPart' /\ OwnerPart' /\ CertainPart'
  BY <1>1, <1>2 DEF MovesPart, CraftPart, OwnerPart, CertainPart, Prepared
<1>10. AskPart' /\ TellPart' /\ RecordPart'
  BY <1>1, <1>2 DEF AskPart, TellPart, RecordPart
<1>11. ClearPart'
  BY <1>1 DEF ClearPart
<1> QED
  BY <1>5, <1>6, <1>7, <1>8, <1>9, <1>10, <1>11 DEF IInv, KeptPart

LEMMA NextPreserves == IInv /\ [Next]_vars => IInv'
<1> SUFFICES ASSUME IInv, [Next]_vars PROVE IInv'
  OBVIOUS
<1>1. ASSUME NEW p \in Plans, Start(p) PROVE IInv'
  BY <1>1, StartPreserves
<1>2. ASSUME NEW r \in toClient, HandlePrepare(r) \/ HandleReceipt(r) \/ HandleUnreadable(r)
      PROVE  IInv'
  BY <1>2, HandlePreparePreserves, HandleReceiptPreserves, HandleUnreadablePreserves
<1>3. CASE SendCraft \/ SendTake \/ Poll \/ Retry
  BY <1>3, SendCraftPreserves, SendTakePreserves, PollPreserves, RetryPreserves
<1>4. CASE Timeout \/ SendFails \/ Stop \/ Restart
  BY <1>4, TimeoutPreserves, SendFailsPreserves, StopPreserves, RestartPreserves
<1>5. CASE Server
  BY <1>5, ServerPreparePreserves, ServerPlacePreserves, ServerCraftPreserves, ServerTakePreserves,
     ServerReturnPreserves, ServerReceiptPreserves, ServerCancelPreserves,
     ServerUnsupportedPreserves, ReceiptExpiresPreserves DEF Server
<1>6. CASE UNCHANGED vars
  BY <1>6, StutterPreserves
<1> QED
  BY <1>1, <1>2, <1>3, <1>4, <1>5, <1>6 DEF Next, Client


-----------------------------------------------------------------------------
(* What the invariant gives *)

\* What is queued, armed and laid out belongs together in every reachable state.
\* (handle_native_craft_prepare, handle_native_craft_receipt,
\* fail_native_craft, advance_native_craft; the inventory callbacks of the helper)
THEOREM CraftInvariance == Spec => []IInv
<1>1. Init => IInv
  BY InitEstablishes
<1>2. IInv /\ [Next]_vars => IInv'
  BY NextPreserves
<1> QED
  BY <1>1, <1>2, PTL DEF Spec

\* Nothing is ahead of the first command.
LEMMA NothingAhead ==
  ASSUME TypeOK, GridClear(1) PROVE grid = EmptyGrid /\ result = 0
<1>1. \A k \in Queue : ~(k < 1)
  BY QueueIsSeq
<1>2. grid \in [1..Slots -> Nat] /\ result \in Nat
  BY Largest DEF TypeOK
<1>3. \A s \in 1..Slots : grid[s] = 0
  <2>1. \A s \in 1..Slots : grid[s] \in Nat /\ ~(grid[s] > 0)
    BY <1>1, <1>2 DEF GridClear
  <2> QED
    BY <2>1
<1>4. result = 0
  BY <1>1, <1>2 DEF GridClear
<1>5. grid = [s \in 1..Slots |-> grid[s]]
  BY <1>2
<1> QED
  BY <1>3, <1>4, <1>5 DEF EmptyGrid

\* The server has nothing of an earlier craft left when it has caught up, or
\* comes to the prepare command of the next one.
THEOREM CraftHolds == Spec => []CraftInv
<1>1. IInv => CraftInv
  <2> SUFFICES ASSUME IInv PROVE CraftInv
    OBVIOUS
  <2>1. TypeOK /\ NoncePart /\ ClearPart
    BY DEF IInv, KeptPart
  <2>2. NothingLeftInTheGrid
    <3> SUFFICES ASSUME phase = "idle", toServer = <<>>, ~stuck PROVE grid = EmptyGrid /\ result = 0
      BY DEF NothingLeftInTheGrid
    <3>1. Len(toServer) + 1 = 1
      BY <2>1, QueueIsSeq
    <3>2. GridClear(Len(toServer) + 1)
      BY <2>1 DEF ClearPart
    <3>3. GridClear(1)
      BY <3>1, <3>2 DEF GridClear
    <3> QED
      BY <2>1, <3>3, NothingAhead
  <2>3. NextCraftFindsRoom
    <3> SUFFICES ASSUME toServer # <<>>, Head(toServer).type = "prepare", ~stuck
                 PROVE  receipt = NoReceipt /\ grid = EmptyGrid /\ result = 0
      BY DEF NextCraftFindsRoom
    <3>1. 1 \in Queue /\ Head(toServer) = toServer[1]
      <4>1. Len(toServer) \in Nat \ {0}
        BY <2>1, QueueIsSeq
      <4> QED
        BY <2>1, <4>1 DEF TypeOK, Queue
    <3>2. GridClear(1) /\ SlotClear(1, 0)
      BY <2>1, <3>1 DEF ClearPart
    <3>3. receipt.nonce = 0
      <4>1. \A k \in Queue : ~(k < 1)
        BY <2>1, QueueIsSeq
      <4> QED
        BY <3>2, <4>1 DEF SlotClear
    <3> QED
      BY <2>1, <3>2, <3>3, NothingAhead DEF NoncePart
  <2> QED
    BY <2>1, <2>2, <2>3 DEF CraftInv
<1> QED
  BY <1>1, CraftInvariance, PTL

\* An answer that does not say `outcome_unknown' was given before the craft
\* packet left, so that nothing was used up or ever will be.
THEOREM FailureConsumesNothing == Spec => []CertainFailureConsumesNothing
<1>1. IInv => CertainFailureConsumesNothing
  BY DEF IInv, KeptPart, ConsumedPart, Unsure, CertainFailureConsumesNothing, Promise!Open
<1> QED
  BY <1>1, CraftInvariance, PTL

-----------------------------------------------------------------------------
(* A craft keeps the contract of the transfers *)

LEMMA InitIsPromised == Init => Promise!Init
<1> SUFFICES ASSUME Init PROVE Promise!Init
  OBVIOUS
<1>1. \A j \in Jobs : Produced(plan[j]) = 0
  BY NothingPlanned DEF Init
<1> QED
  BY <1>1 DEF Init, Promise!Init, Jobs

LEMMA VerdictIsReply ==
  ASSUME IInv, phase # "idle",
         NEW verdict \in Promise!Verdicts, NEW unknown \in BOOLEAN, NEW count \in 0..MaxProduced,
         Resolve(verdict, unknown, count),
         count <= delivered[job], ~unknown => count = delivered[job],
         verdict = "completed" => ~unknown /\ count = Produced(plan[job]),
         verdict = "partial" => ~unknown /\ count > 0,
         UNCHANGED <<job, plan, delivered>>
  PROVE  Promise!Next
<1>1. job \in Jobs /\ job \in 1..job /\ answer[job] = Promise!Open
  <2>1. job \in Jobs /\ answer[job] = Promise!Open
    BY DEF IInv, KeptPart, JobPart
  <2> QED
    BY <2>1, Counts DEF Jobs
<1>2. PICK a : a = [verdict |-> verdict, unknown |-> unknown, confirmed |-> count]
  OBVIOUS
<1>3. a \in Promise!Answer /\ a.verdict = verdict /\ a.unknown = unknown /\ a.confirmed = count
  BY <1>2 DEF Promise!Answer
<1>4. Promise!Truthful(job, a)
  BY <1>1, <1>3 DEF Promise!Truthful
<1>5. answer' = [answer EXCEPT ![job] = a]
  BY <1>2 DEF Resolve
<1>6. Promise!Reply(job, a)
  BY <1>1, <1>4, <1>5 DEF Promise!Reply
<1> QED
  BY <1>1, <1>3, <1>6 DEF Promise!Next

LEMMA FailIsReply ==
  ASSUME IInv, phase # "idle", NEW verdict \in {"failed", "cancelled"},
         Resolve(verdict, Dispatched, 0), UNCHANGED <<job, plan, delivered>>
  PROVE  Promise!Next
<1>1. job \in Jobs
  BY DEF IInv, KeptPart, JobPart
<1>2. 0 \in 0..MaxProduced /\ delivered[job] \in Nat
  BY <1>1, Largest, JobIsPlanned DEF IInv, KeptPart
<1>3. ~Dispatched => delivered[job] = 0
  <2>1. ~Dispatched => phase \in {"preparing", "placing"}
    BY DEF IInv, KeptPart, TypeOK, Phases, Dispatched
  <2> QED
    BY <2>1 DEF IInv, KeptPart, CraftPart
<1>4. PICK d \in BOOLEAN : d <=> Dispatched
  BY DEF Dispatched
<1>5. Resolve(verdict, d, 0)
  BY <1>4 DEF Resolve
<1>6. verdict \in Promise!Verdicts /\ verdict # "completed" /\ verdict # "partial"
  BY DEF Promise!Verdicts
<1>7. 0 <= delivered[job] /\ (~d => 0 = delivered[job])
  BY <1>2, <1>3, <1>4
<1> QED
  BY <1>2, <1>5, <1>6, <1>7, VerdictIsReply

LEMMA HandlePrepareImplements ==
  ASSUME IInv, NEW r \in toClient, HandlePrepare(r)
  PROVE  Promise!Next \/ UNCHANGED Promise!vars
<1>1. phase # "idle" /\ UNCHANGED <<job, plan, delivered>>
  BY DEF HandlePrepare
<1>2. CASE UNCHANGED answer
  BY <1>1, <1>2 DEF Promise!vars
<1>3. CASE Resolve("failed", Dispatched, 0)
  BY <1>1, <1>3, FailIsReply
<1> QED
  BY <1>2, <1>3 DEF HandlePrepare, Fail, FailAfter

LEMMA HandleReceiptImplements ==
  ASSUME IInv, NEW r \in toClient, HandleReceipt(r)
  PROVE  Promise!Next \/ UNCHANGED Promise!vars
<1>1. /\ r.type = "receipt" /\ phase = "requested" /\ r.nonce = nonce
      /\ UNCHANGED <<job, plan, delivered>>
  BY DEF HandleReceipt
<1>2. CASE UNCHANGED answer
  BY <1>1, <1>2 DEF Promise!vars
<1>3. CASE /\ r.status = "ok" /\ r.count \in 1..Produced(plan[job])
           /\ Resolve(IF r.count >= plan[job].count THEN "completed" ELSE "partial", FALSE, r.count)
  <2>1. r.count = delivered[job] /\ delivered[job] = Produced(plan[job])
    BY <1>1, <1>3 DEF IInv, KeptPart, TellPart
  <2>2. r.count \in 0..MaxProduced
    BY DEF IInv, KeptPart, TypeOK, Replies
  <2>3. PICK v \in {"completed", "partial"} :
          v = IF r.count >= plan[job].count THEN "completed" ELSE "partial"
    OBVIOUS
  <2>4. PICK n \in 0..MaxProduced : n = r.count
    BY <2>2
  <2>5. Resolve(v, FALSE, n)
    BY <1>3, <2>3, <2>4
  <2>6. n <= delivered[job] /\ n = delivered[job] /\ n = Produced(plan[job]) /\ n > 0
    <3>1. n \in Nat
      BY Largest
    <3>2. job \in Jobs
      BY <1>1 DEF IInv, KeptPart, JobPart
    <3>3. Produced(plan[job]) \in Nat
      BY <3>2, JobIsPlanned DEF IInv, KeptPart
    <3> QED
      BY <1>3, <2>1, <2>4, <3>1, <3>3
  <2>7. v \in Promise!Verdicts /\ FALSE \in BOOLEAN
    BY DEF Promise!Verdicts
  <2> QED
    BY <1>1, <2>5, <2>6, <2>7, VerdictIsReply
<1>4. CASE Fail
  BY <1>1, <1>4, FailIsReply DEF Fail, FailAfter
<1> QED
  BY <1>2, <1>3, <1>4 DEF HandleReceipt

LEMMA FailsImplement ==
  IInv /\ (Timeout \/ SendFails \/ Stop \/ \E r \in toClient : HandleUnreadable(r)) => Promise!Next
<1> SUFFICES ASSUME IInv, Timeout \/ SendFails \/ Stop \/ \E r \in toClient : HandleUnreadable(r)
             PROVE  Promise!Next
  OBVIOUS
<1>1. /\ phase # "idle" /\ UNCHANGED <<job, plan, delivered>>
      /\ Resolve("failed", Dispatched, 0) \/ Resolve("cancelled", Dispatched, 0)
  BY DEF Timeout, SendFails, Stop, HandleUnreadable, Fail, FailAfter
<1> QED
  BY <1>1, FailIsReply

LEMMA StartIsAccept ==
  ASSUME IInv, NEW p \in Plans, p.count > 0, Start(p) PROVE Promise!Next
<1>1. /\ phase = "idle" /\ job < MaxJobs /\ job' = job + 1
      /\ plan' = [plan EXCEPT ![job + 1] = p] /\ UNCHANGED <<delivered, answer>>
  BY DEF Start
<1>2. /\ job + 1 \in Jobs /\ plan \in [Jobs -> Plans]
      /\ \A j \in 1..job : j \in Jobs /\ j <= job
  BY <1>1, Counts DEF IInv, KeptPart, TypeOK, Jobs
<1>3. PICK n : n = Produced(p)
  OBVIOUS
<1>4. n \in 1..MaxProduced
  <2>1. n \in Nat /\ n # 0 /\ n <= MaxProduced /\ MaxProduced \in Nat
    BY <1>3, BatchesAreNat, Largest
  <2> QED
    BY <2>1
<1>5. \A j \in 1..job : answer[j] # Promise!Open
  BY <1>1, <1>2 DEF IInv, KeptPart, JobPart
<1>6. [j \in Jobs |-> Produced(plan'[j])] = [[j \in Jobs |-> Produced(plan[j])] EXCEPT ![job + 1] = n]
  <2>1. \A j \in Jobs : plan'[j] = IF j = job + 1 THEN p ELSE plan[j]
    BY <1>1, <1>2
  <2> QED
    BY <1>2, <1>3, <2>1
<1>7. Promise!Accept(n)
  BY <1>1, <1>5, <1>6 DEF Promise!Accept
<1> QED
  BY <1>4, <1>7 DEF Promise!Next

LEMMA RestartIsAbandon == IInv /\ Restart => Promise!Next \/ UNCHANGED Promise!vars
<1> SUFFICES ASSUME IInv, Restart PROVE Promise!Next \/ UNCHANGED Promise!vars
  OBVIOUS
<1>1. CASE phase = "idle"
  BY <1>1 DEF Restart, Promise!vars
<1>2. CASE phase # "idle"
  <2>1. job \in Jobs /\ answer[job] = Promise!Open
    BY <1>2 DEF IInv, KeptPart, JobPart
  <2>2. job \in 1..job
    BY <2>1, Counts DEF Jobs
  <2>3. Promise!Abandon(job)
    BY <1>2, <2>1 DEF Restart, Promise!Abandon
  <2> QED
    BY <2>2, <2>3 DEF Promise!Next
<1> QED
  BY <1>1, <1>2

\* What leaves the result slot arrives for the craft that made it.
LEMMA MovedIsMove ==
  ASSUME IInv, toServer # <<>>, toServer[1].type \in {"take", "return"},
         NEW w, NEW n \in 0..w, w <= result, w \in Nat,
         MoveResult(toServer[1], n, w), UNCHANGED <<job, plan, answer>>
  PROVE  Promise!Next \/ UNCHANGED Promise!vars
<1>0. TypeOK
  BY DEF IInv, KeptPart
<1>1. 1 \in Queue /\ toServer[1] \in Commands
  <2>1. Len(toServer) \in Nat \ {0}
    BY <1>0, QueueIsSeq
  <2> QED
    BY <1>0, <2>1, QueueIsSeq DEF Queue
<1>2. PICK j : j = toServer[1].job
  OBVIOUS
<1>3. j \in Jobs /\ j \in 1..job
  <2>1. j \in Jobs
    BY <1>1, <1>2 DEF Commands
  <2>2. j <= job /\ job \in Nat
    BY <1>0, <1>1, <1>2, Counts DEF IInv, KeptPart, JobPart, TypeOK
  <2> QED
    BY <2>1, <2>2 DEF Jobs
<1>4. delivered' = [delivered EXCEPT ![j] = delivered[j] + n]
  BY <1>2 DEF MoveResult
<1>5. /\ n \in Nat /\ n <= result /\ delivered[j] \in Nat /\ result \in Nat
      /\ Produced(plan[j]) \in Nat /\ Produced(plan[j]) <= MaxProduced
  <2>1. /\ delivered[j] \in Nat /\ result \in Nat
        /\ Produced(plan[j]) \in Nat /\ Produced(plan[j]) <= MaxProduced
    BY <1>0, <1>3, JobIsPlanned
  <2>2. n \in Nat /\ n <= result
    BY <2>1
  <2> QED
    BY <2>1, <2>2
<1>6. CASE n = 0
  <2>1. delivered[j] + n = delivered[j]
    BY <1>5, <1>6
  <2>2. delivered' = delivered
    BY <1>0, <1>4, <2>1 DEF TypeOK
  <2> QED
    BY <2>2 DEF Promise!vars
<1>7. CASE n # 0
  <2>1. answer[j] = Promise!Open \/ answer[j].unknown
    <3>1. result # 0
      BY <1>5, <1>7
    <3> QED
      BY <1>1, <1>2, <3>1 DEF IInv, KeptPart, CertainPart
  <2>2. delivered[j] + n <= Produced(plan[j])
    <3>1. result + delivered[j] <= Produced(plan[j])
      BY <1>1, <1>2 DEF IInv, KeptPart, OwnerPart
    <3> QED
      BY <3>1, <1>5
  <2>3. n \in 1..MaxProduced
    <3>1. MaxProduced \in Nat
      BY Largest
    <3> QED
      BY <2>2, <3>1, <1>5, <1>7
  <2>4. Promise!Move(j, n)
    BY <1>3, <1>4, <2>1, <2>2 DEF Promise!Move
  <2> QED
    BY <1>3, <2>3, <2>4 DEF Promise!Next
<1> QED
  BY <1>6, <1>7

LEMMA ServerTakeIsMove == IInv /\ ServerTake => Promise!Next \/ UNCHANGED Promise!vars
<1> SUFFICES ASSUME IInv, ServerTake PROVE Promise!Next \/ UNCHANGED Promise!vars
  OBVIOUS
<1>1. /\ TypeOK /\ toServer # <<>> /\ toServer' = Tail(toServer) /\ Head(toServer).type = "take"
      /\ UNCHANGED <<job, plan, answer>>
  BY DEF IInv, KeptPart, ServerTake, Take
<1>2. Head(toServer) = toServer[1] /\ toServer[1] \in Commands
  BY <1>1, Taken
<1>3. PICK w : w = Least(Produced(plan[toServer[1].job]), result)
  OBVIOUS
<1>4. PICK n \in 0..w : MoveResult(toServer[1], n, w)
  BY <1>2, <1>3 DEF ServerTake
<1>5. w \in Nat /\ w <= result
  <2>1. toServer[1].job \in Jobs
    BY <1>2 DEF Commands
  <2>2. Produced(plan[toServer[1].job]) \in Nat /\ result \in Nat
    BY <1>1, <2>1, JobIsPlanned
  <2> QED
    BY <2>2, <1>3 DEF Least
<1> QED
  BY <1>1, <1>2, <1>4, <1>5, MovedIsMove

LEMMA ServerReturnIsMove == IInv /\ ServerReturn => Promise!Next \/ UNCHANGED Promise!vars
<1> SUFFICES ASSUME IInv, ServerReturn PROVE Promise!Next \/ UNCHANGED Promise!vars
  OBVIOUS
<1>1. /\ TypeOK /\ toServer # <<>> /\ toServer' = Tail(toServer) /\ Head(toServer).type = "return"
      /\ UNCHANGED <<job, plan, answer>>
  BY DEF IInv, KeptPart, ServerReturn, Take
<1>2. Head(toServer) = toServer[1]
  BY <1>1, Taken
<1>3. CASE \E n \in 0..result : MoveResult(toServer[1], n, result)
  <2>1. PICK n \in 0..result : MoveResult(toServer[1], n, result)
    BY <1>3
  <2>2. result \in Nat /\ result <= result
    BY <1>1, Largest DEF TypeOK
  <2> QED
    BY <1>1, <1>2, <2>1, <2>2, MovedIsMove
<1>4. CASE UNCHANGED delivered
  BY <1>1, <1>4 DEF Promise!vars
<1> QED
  BY <1>2, <1>3, <1>4 DEF ServerReturn

LEMMA StepImplements == IInv /\ [Next]_vars => [Promise!Next]_Promise!vars
<1> SUFFICES ASSUME IInv, [Next]_vars PROVE Promise!Next \/ UNCHANGED Promise!vars
  OBVIOUS
<1>1. ASSUME NEW p \in {q \in Plans : q.count > 0}, Start(p) PROVE Promise!Next
  BY <1>1, StartIsAccept
<1>2. ASSUME NEW r \in toClient, HandlePrepare(r) \/ HandleReceipt(r) \/ HandleUnreadable(r)
      PROVE  Promise!Next \/ UNCHANGED Promise!vars
  BY <1>2, HandlePrepareImplements, HandleReceiptImplements, FailsImplement
<1>3. CASE SendCraft \/ SendTake \/ Poll \/ Retry
  BY <1>3 DEF SendCraft, SendTake, Poll, Retry, Advance, historyVars, Promise!vars
<1>4. CASE Timeout \/ SendFails \/ Stop \/ Restart
  BY <1>4, FailsImplement, RestartIsAbandon
<1>5. CASE ServerTake \/ ServerReturn
  BY <1>5, ServerTakeIsMove, ServerReturnIsMove
<1>6. CASE ServerPlace \/ ServerCraft
  BY <1>6 DEF ServerPlace, ServerCraft, historyVars, Promise!vars
<1>7. CASE ServerPrepare \/ ServerReceipt \/ ServerCancel \/ ServerUnsupported \/ ReceiptExpires
  BY <1>7 DEF ServerPrepare, ServerReceipt, ServerCancel, ServerUnsupported, ReceiptExpires,
              historyVars, Promise!vars
<1>8. CASE UNCHANGED vars
  BY <1>8 DEF vars, historyVars, Promise!vars
<1> QED
  BY <1>1, <1>2, <1>3, <1>4, <1>5, <1>6, <1>7, <1>8 DEF Next, Client, Server

\* A craft keeps the contract of the transfers: results arrive for the craft that
\* made them, its answer claims what arrived, and a certain answer stays exact.
THEOREM CraftsKeepPromise == Spec => KeepsPromise
<1>1. Init => Promise!Init
  BY InitIsPromised
<1>2. IInv /\ [Next]_vars => [Promise!Next]_Promise!vars
  BY StepImplements
<1> QED
  BY <1>1, <1>2, CraftInvariance, PTL DEF Spec, KeepsPromise, Promise!Spec
=============================================================================
