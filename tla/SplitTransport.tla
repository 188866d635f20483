--------------------------- MODULE SplitTransport ---------------------------
(***************************************************************************)
(* Split packets on their way to the bot (src/network/connection.rs).      *)
(*                                                                         *)
(* The server cuts a large message into chunks and repeats each chunk      *)
(* until it is acknowledged.  The client acknowledges a reliable packet    *)
(* before it looks into it and handles it in the order of arrival, so      *)
(* chunks come in any order and more than once, and a chunk that the       *)
(* client forgets after its acknowledgement never comes again.  A buffer   *)
(* that has seen no chunk for 10 seconds is dropped by the next chunk of   *)
(* any message.                                                            *)
(***************************************************************************)
EXTENDS Integers, Sequences

CONSTANTS
  Messages,     \* the large messages of a session
  Seq16,        \* [Messages -> sequence number of the split packet]
  Count,        \* [Messages -> number of chunks]
  None          \* an empty place of a buffer, or no buffer

VARIABLES
  wire,         \* chunks the server may still deliver (again)
  buffers,      \* split_buffers: [Keys -> SplitBuffer or None]
  sent,         \* history: the messages the server has sent
  assembled,    \* history: what reassembly has handed on
  forgotten     \* history: messages that were in a buffer when it was dropped

splitVars == <<wire, buffers, sent, assembled, forgotten>>

\* SplitKey: all messages share the channel and are reliable.
Keys == {Seq16[m] : m \in Messages}

Chunks(m) == {[message |-> m, num |-> i] : i \in 1..Count[m]}

Whole(m) == [i \in 1..Count[m] |-> m]

Buffers == UNION {[chunks : [1..Count[m] -> Messages \cup {None}], stale : BOOLEAN] :
                  m \in Messages}

SplitTypeOK ==
  /\ wire \subseteq UNION {Chunks(m) : m \in Messages}
  /\ buffers \in [Keys -> Buffers \cup {None}]
  /\ sent \subseteq Messages /\ forgotten \subseteq Messages

SplitInit ==
  /\ wire = {}
  /\ buffers = [k \in Keys |-> None]
  /\ sent = {}
  /\ assembled = {}
  /\ forgotten = {}

\* SplitBuffer::new
NewBuffer(count) == [chunks |-> [i \in 1..count |-> None], stale |-> FALSE]

\* SplitBuffer::insert: the first copy of a chunk counts.
Insert(b, chunk) ==
  IF chunk.num \in DOMAIN b.chunks /\ b.chunks[chunk.num] = None
    THEN [b EXCEPT !.chunks[chunk.num] = chunk.message]
    ELSE b

\* SplitBuffer::is_complete
Complete(b) == \A i \in DOMAIN b.chunks : b.chunks[i] # None

IsStale(k) == buffers[k] # None /\ buffers[k].stale

\* Mutant: buffers are kept for ever.
KeepStale == buffers

\* The buffers that are not older than 10 seconds.
Retained == [k \in Keys |-> IF IsStale(k) THEN None ELSE buffers[k]]

\* The buffer a chunk goes into: a new one when there is none of its sequence
\* number, or when the number of chunks differs.
Entry(chunk) ==
  LET old == Retained[Seq16[chunk.message]] IN
    IF old = None \/ Len(old.chunks) # Count[chunk.message]
      THEN NewBuffer(Count[chunk.message])
      ELSE [old EXCEPT !.stale = FALSE]

\* handle_split returns the chunks of a complete message, or nothing.
Result(chunk) ==
  LET b == Insert(Entry(chunk), chunk) IN IF Complete(b) THEN b.chunks ELSE <<>>

\* The messages whose chunks go with the buffers that are dropped.
Dropped == {m \in Messages : \E k \in Keys :
              IsStale(k) /\ \E i \in DOMAIN buffers[k].chunks : buffers[k].chunks[i] = m}

\* handle_split
HandleSplit(chunk) ==
  LET b == Insert(Entry(chunk), chunk) IN
    /\ buffers' = [Retained EXCEPT ![Seq16[chunk.message]] = IF Complete(b) THEN None ELSE b]
    /\ assembled' = assembled \cup (IF Complete(b) THEN {b.chunks} ELSE {})
    /\ forgotten' = forgotten \cup Dropped
    /\ UNCHANGED sent

\* A chunk arrives and is acknowledged.  Another copy may be on its way.
Deliver(chunk) ==
  /\ chunk \in wire
  /\ wire' \in {wire, wire \ {chunk}}
  /\ HandleSplit(chunk)

\* The server sends the messages ms.  It comes back to a sequence number only
\* after 65536 others, when no chunk of the earlier message is left on the
\* wire and none has arrived for 10 seconds.
SendLarge(ms) ==
  /\ \A m \in ms : /\ \A chunk \in wire : Seq16[chunk.message] # Seq16[m]
                   /\ buffers[Seq16[m]] = None \/ IsStale(Seq16[m])
  /\ wire' = wire \cup UNION {Chunks(m) : m \in ms}
  /\ sent' = sent \cup ms
  /\ UNCHANGED <<buffers, assembled, forgotten>>

\* Ten seconds pass without a chunk of a sequence number.
Idle(k) ==
  /\ buffers[k] # None
  /\ buffers' = [buffers EXCEPT ![k].stale = TRUE]
  /\ UNCHANGED <<wire, sent, assembled, forgotten>>

-----------------------------------------------------------------------------
(* Properties *)

\* What reassembly hands on are the chunks of one message, all of them and in
\* order, although sequence numbers are used again and a late copy of a chunk
\* opens a new buffer after its message was complete.
AssembledFromOneMessage ==
  \A t \in assembled : \E m \in Messages : t = Whole(m)

\* Every chunk of a message is still to come, or waits in the buffer of its
\* message, until the message is whole: an acknowledged chunk is not lost,
\* except by 10 seconds without another one.
AcknowledgedIsKept ==
  \A m \in sent \ forgotten :
    Whole(m) \in assembled \/
      \A chunk \in Chunks(m) :
        \/ chunk \in wire
        \/ /\ buffers[Seq16[m]] # None
           /\ chunk.num \in DOMAIN buffers[Seq16[m]].chunks
           /\ buffers[Seq16[m]].chunks[chunk.num] = m

\* Reassembly neither mixes messages nor loses what it has acknowledged.
ReassemblyIsFaithful == AssembledFromOneMessage /\ AcknowledgedIsKept
=============================================================================
