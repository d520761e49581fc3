------------------------------ MODULE SerialRx ------------------------------
(***************************************************************************)
(* The serial receive handoff (adapters/common/serial_rx.rs) and the port  *)
(* that owns it (adapters/chipsoft/serial_windows.rs).                     *)
(*                                                                         *)
(* Two threads.  The reader (receive_loop) reads chunks from the device    *)
(* and puts them into a bounded channel without ever blocking on it; the   *)
(* client (ByteReceiver::read) takes them in batches.  They share the      *)
(* channel, the failure cell and the stop flag.  A channel whose sender is *)
(* dropped is one whose reader is "gone".                                  *)
(*                                                                         *)
(* Abstractions.  A chunk is its number.  The device is external: a read   *)
(* brings a chunk, nothing (its 20 ms are over), or an error.  The buffer  *)
(* of the loop is CHUNK_BYTES long, so the oversized chunk of `push` does  *)
(* not occur, and the port joins the reader before it drops the receiver,  *)
(* so try_send never finds the channel without one.                        *)
(***************************************************************************)
EXTENDS Naturals, Sequences

CONSTANTS
  QueueChunks,  \* capacity of the channel (128)
  ReadChunks,   \* most chunks of one batch (32)
  MaxChunks     \* bound of the model: chunks the device produces

ASSUME SerialRxAssumption ==
  /\ QueueChunks \in Nat \ {0}
  /\ ReadChunks \in Nat \ {0}
  /\ MaxChunks \in Nat

VARIABLES
  reader,     \* position of the reader thread
  client,     \* position of the client thread
  queue,      \* the channel
  failure,    \* the failure cell; "none": empty
  stop,       \* the stop flag
  batch,      \* chunks taken by the read in progress
  arrived,    \* chunks read from the device so far
  delivered,  \* chunks returned to the client so far
  reported    \* the first error returned to the client; "none": no error yet

readerVars == <<reader, arrived>>
clientVars == <<client, batch, delivered, reported>>
vars == <<reader, client, queue, failure, stop, batch, arrived, delivered, reported>>

Causes == {"overflow", "device"}
-----------------------------------------------------------------------------
(***************************************************************************)
(* The reader thread.                                                      *)
(***************************************************************************)
ReaderGoes(from, to) == reader = from /\ reader' = to

CheckStop ==
  /\ ReaderGoes("loop", IF stop THEN "leaving" ELSE "read")
  /\ UNCHANGED <<arrived, clientVars, queue, failure, stop>>

\* Zero bytes, a timeout or an interrupt: the loop goes round.
ReadNothing ==
  /\ ReaderGoes("read", "loop")
  /\ UNCHANGED <<arrived, clientVars, queue, failure, stop>>

ReadChunk ==
  /\ arrived < MaxChunks
  /\ ReaderGoes("read", "push")
  /\ arrived' = arrived + 1
  /\ UNCHANGED <<clientVars, queue, failure, stop>>

ReadError ==
  /\ ReaderGoes("read", "device")
  /\ UNCHANGED <<arrived, clientVars, queue, failure, stop>>

\* Mutant: a full channel gives up its oldest chunk.
Push_DropsOldest ==
  /\ ReaderGoes("push", "loop")
  /\ queue' = Append(IF Len(queue) < QueueChunks THEN queue ELSE Tail(queue), arrived)
  /\ UNCHANGED <<arrived, clientVars, failure, stop>>

\* Mutant: a full channel is waited for.
Push_Blocks ==
  /\ Len(queue) < QueueChunks
  /\ ReaderGoes("push", "loop")
  /\ queue' = Append(queue, arrived)
  /\ UNCHANGED <<arrived, clientVars, failure, stop>>

\* `push`: a full channel rejects the chunk.  Only this thread sets the failure
\* cell and it leaves the loop when it does, so the check of `push` passes.
Push ==
  /\ ReaderGoes("push", IF Len(queue) < QueueChunks THEN "loop" ELSE "overflow")
  /\ queue' = IF Len(queue) < QueueChunks THEN Append(queue, arrived) ELSE queue
  /\ UNCHANGED <<arrived, clientVars, failure, stop>>

\* Mutant: the sender is dropped before the failure is recorded.
Fail_DropsFirst ==
  /\ reader \in Causes
  /\ reader' = "gone"
  /\ UNCHANGED <<failure, arrived, clientVars, queue, stop>>

\* `fail`: the first failure is kept.
Fail ==
  /\ reader \in Causes
  /\ reader' = "leaving"
  /\ failure' = IF failure = "none" THEN reader ELSE failure
  /\ UNCHANGED <<arrived, clientVars, queue, stop>>

\* The loop returns and drops the sender.
Leave ==
  /\ ReaderGoes("leaving", "gone")
  /\ UNCHANGED <<arrived, clientVars, queue, failure, stop>>

Reader == CheckStop \/ ReadNothing \/ ReadChunk \/ ReadError \/ Push \/ Fail \/ Leave
-----------------------------------------------------------------------------
(***************************************************************************)
(* The client thread: one read is several steps.                           *)
(***************************************************************************)

\* The read ends with an error.  What it has taken is dropped.
ReturnError(error) ==
  /\ client' = "idle"
  /\ batch' = <<>>
  /\ reported' = IF reported = "none" THEN error ELSE reported
  /\ UNCHANGED delivered

BeginRead ==
  /\ client = "idle"
  /\ \/ /\ failure = "none"
        /\ client' = "take"
        /\ UNCHANGED <<batch, delivered, reported>>
     \/ /\ failure # "none"
        /\ ReturnError(failure)
  /\ UNCHANGED <<readerVars, queue, failure, stop>>

\* try_recv, or the first recv_timeout, finds a chunk.
Take ==
  /\ client = "take" /\ Len(batch) < ReadChunks
  /\ queue # <<>>
  /\ batch' = Append(batch, Head(queue))
  /\ queue' = Tail(queue)
  /\ UNCHANGED <<readerVars, client, delivered, reported, failure, stop>>

\* The batch is full, or the channel is empty: at once after the first chunk,
\* for 5 ms before it.
EndTake ==
  /\ client = "take"
  /\ \/ Len(batch) = ReadChunks
     \/ queue = <<>> /\ reader # "gone"
  /\ client' = "check"
  /\ UNCHANGED <<readerVars, batch, delivered, reported, queue, failure, stop>>

\* The channel is empty and has no sender any more.
Severed ==
  /\ client = "take" /\ Len(batch) < ReadChunks
  /\ queue = <<>> /\ reader = "gone"
  /\ ReturnError(IF failure # "none" THEN failure ELSE "broken")
  /\ UNCHANGED <<readerVars, queue, failure, stop>>

\* A failure during the read invalidates the whole batch.
EndRead ==
  /\ client = "check"
  /\ \/ /\ failure = "none"
        /\ client' = "idle"
        /\ delivered' = delivered \o batch
        /\ batch' = <<>>
        /\ UNCHANGED reported
     \/ /\ failure # "none"
        /\ ReturnError(failure)
  /\ UNCHANGED <<readerVars, queue, failure, stop>>

\* The port is dropped: the reader is told to stop and joined.
Close ==
  /\ client = "idle"
  /\ stop' = TRUE
  /\ client' = "join"
  /\ UNCHANGED <<readerVars, batch, delivered, reported, queue, failure>>

Join ==
  /\ client = "join" /\ reader = "gone"
  /\ client' = "closed"
  /\ UNCHANGED <<readerVars, batch, delivered, reported, queue, failure, stop>>

Read == BeginRead \/ Take \/ EndTake \/ Severed \/ EndRead
Client == Read \/ Close \/ Join
-----------------------------------------------------------------------------
Init ==
  /\ reader = "loop" /\ client = "idle"
  /\ queue = <<>> /\ batch = <<>> /\ delivered = <<>>
  /\ failure = "none" /\ reported = "none"
  /\ stop = FALSE
  /\ arrived = 0

Next == Reader \/ Client

\* A port that is not in use: its threads have ended.
Over ==
  /\ reader = "gone" /\ client = "closed"
  /\ queue = <<>> /\ batch = <<>> /\ delivered = <<>>
  /\ failure = "none" /\ reported = "none"
  /\ stop = TRUE
  /\ arrived = 0

Spec == Init /\ [][Next]_vars

\* The threads are scheduled, a device read ends (within 20 ms), and the client
\* reads again and again.
Fairness == WF_vars(Reader) /\ WF_vars(Read) /\ WF_vars(Join)
-----------------------------------------------------------------------------
\* Every variable has its type, and the channel keeps its capacity.
TypeOK ==
  /\ reader \in {"loop", "read", "push", "leaving", "gone"} \cup Causes
  /\ client \in {"idle", "take", "check", "join", "closed"}
  /\ queue \in Seq(Nat) /\ Len(queue) <= QueueChunks
  /\ batch \in Seq(Nat) /\ Len(batch) <= ReadChunks
  /\ delivered \in Seq(Nat)
  /\ failure \in {"none"} \cup Causes
  /\ reported \in {"none", "broken"} \cup Causes
  /\ stop \in BOOLEAN
  /\ arrived \in Nat

\* The client learns why the stream ended: an error is the recorded failure, never
\* the bare end of the channel, although the sender is dropped right after the
\* failure is recorded.
EndsWithItsCause == reported \in {"none", failure}

\* Every chunk the device produced reaches the client, or the client is told of
\* a failure, unless it closes the port.
ChunksSurface ==
  \A i \in 1..MaxChunks :
    arrived >= i ~> \/ Len(delivered) >= i
                    \/ reported # "none"
                    \/ client \in {"join", "closed"}

\* Closing the port ends: the reader never waits for a client that reads no more.
CloseEnds == client = "join" ~> client = "closed"

\* Reading and closing come to an end: both of them.
StreamSettles == ChunksSurface /\ CloseEnds

\* The buffer keeps the promise of StreamPromise: chunks in order, no gap, and
\* nothing after an error.
Promise == INSTANCE StreamPromise WITH ended <- (reported # "none")
StreamKept == Promise!Spec
=============================================================================
