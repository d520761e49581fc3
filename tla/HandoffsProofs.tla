--------------------------- MODULE HandoffsProofs ---------------------------
(***************************************************************************)
(* Proofs about the handoffs of MCHandoffs, for every value of their       *)
(* constants: the serial buffer (SerialRx) and the receive pump implement  *)
(* StreamPromise, the display shows nothing stale, and the key mailbox     *)
(* loses no key and keeps the stop.                                        *)
(***************************************************************************)
EXTENDS MCHandoffs, SequenceTheorems, TLAPS

-----------------------------------------------------------------------------
(***************************************************************************)
(* The serial buffer.  While no failure is recorded, what was delivered,   *)
(* the batch being taken, the channel and the chunk in the reader's hands  *)
(* are, one after the other, the chunks 1..arrived.  After a failure       *)
(* nothing is delivered, so only the order of what was delivered before it *)
(* is left to keep.                                                        *)
(***************************************************************************)
\* The chunk the reader has read and not yet put into the channel.
InHand == IF reader \in {"push", "overflow"} THEN 1 ELSE 0

\* A sequence holds the chunks that follow the first n.
Follows(s, n) == \A i \in 1..Len(s) : s[i] = n + i

Ordered == Follows(delivered, 0) /\ Len(delivered) <= arrived

Intact ==
  failure = "none" =>
    /\ Follows(batch, Len(delivered))
    /\ Follows(queue, Len(delivered) + Len(batch))
    /\ Len(delivered) + Len(batch) + Len(queue) + InHand = arrived

\* The reader leaves for a recorded failure or because the port is closing.
Ending ==
  /\ stop => client \in {"join", "closed"}
  /\ reader \in {"leaving", "gone"} => failure # "none" \/ stop
  /\ client \notin {"take", "check"} => batch = <<>>

\* The inductive invariant.
SerialInv == TypeOK /\ Ordered /\ Intact /\ Ending /\ EndsWithItsCause

-----------------------------------------------------------------------------

\* Appending to a sequence of naturals, and taking its head away, element by element.
LEMMA AppendPoints ==
  ASSUME NEW s \in Seq(Nat), NEW x \in Nat
  PROVE  /\ Append(s, x) \in Seq(Nat)
         /\ Len(Append(s, x)) = Len(s) + 1
         /\ Append(s, x)[Len(s) + 1] = x
         /\ \A i \in 1..Len(s) : Append(s, x)[i] = s[i]
OBVIOUS

LEMMA TailPoints ==
  ASSUME NEW s \in Seq(Nat), s # <<>>
  PROVE  /\ Tail(s) \in Seq(Nat) /\ Head(s) \in Nat
         /\ Len(s) \in Nat \ {0} /\ Len(Tail(s)) = Len(s) - 1
         /\ Head(s) = s[1]
         /\ \A i \in 1..Len(Tail(s)) : Tail(s)[i] = s[i + 1]
OBVIOUS

LEMMA ConcatPoints ==
  ASSUME NEW s \in Seq(Nat), NEW t \in Seq(Nat)
  PROVE  /\ s \o t \in Seq(Nat)
         /\ Len(s \o t) = Len(s) + Len(t)
         /\ \A i \in 1..Len(s) : (s \o t)[i] = s[i]
         /\ \A i \in 1..Len(t) : (s \o t)[Len(s) + i] = t[i]
OBVIOUS

LEMMA EmptyPoints == <<>> \in Seq(Nat) /\ Len(<<>>) = 0
OBVIOUS
-----------------------------------------------------------------------------
(***************************************************************************)
(* The invariant.                                                          *)
(***************************************************************************)
LEMMA SerialInit == Init => SerialInv
<1> SUFFICES ASSUME Init PROVE SerialInv
  OBVIOUS
<1>1. TypeOK
  <2>1. Len(queue) = 0 /\ Len(batch) = 0 /\ queue \in Seq(Nat) /\ batch \in Seq(Nat)
        /\ delivered \in Seq(Nat)
    BY EmptyPoints DEF Init
  <2>2. 0 <= QueueChunks /\ 0 <= ReadChunks
    BY SerialRxAssumption DEF SerialRxAssumption
  <2>3. QED  BY <2>1, <2>2 DEF Init, TypeOK
<1>2. Ordered /\ Intact
  BY EmptyPoints DEF Init, Ordered, Intact, Follows, InHand
<1>3. Ending /\ EndsWithItsCause
  BY DEF Init, Ending, EndsWithItsCause
<1>4. QED  BY <1>1, <1>2, <1>3 DEF SerialInv

LEMMA ReaderStep == SerialInv /\ Reader => SerialInv'
<1> SUFFICES ASSUME SerialInv, Reader PROVE SerialInv'
  OBVIOUS
<1> USE DEF ReaderGoes, readerVars, clientVars
<1>1. CASE CheckStop \/ ReadNothing \/ ReadError \/ Leave
  <2>1. /\ reader \in {"loop", "read", "leaving"}
        /\ reader' \in {"loop", "read", "leaving", "device", "gone"}
        /\ reader' = "leaving" => stop
        /\ reader' = "gone" => reader = "leaving"
        /\ UNCHANGED <<arrived, client, batch, delivered, reported, queue, failure, stop>>
    BY <1>1 DEF CheckStop, ReadNothing, ReadError, Leave
  <2>2. TypeOK'
    BY <2>1 DEF SerialInv, TypeOK, Causes
  <2>3. Ordered' /\ Intact'
    BY <2>1 DEF SerialInv, Ordered, Intact, Follows, InHand
  <2>4. (Ending /\ EndsWithItsCause)'
    BY <2>1 DEF SerialInv, Ending, EndsWithItsCause
  <2>5. QED  BY <2>2, <2>3, <2>4 DEF SerialInv
<1>2. CASE ReadChunk
  <2>1. TypeOK'
    BY <1>2 DEF ReadChunk, SerialInv, TypeOK
  <2>2. Ordered'
    BY <1>2 DEF ReadChunk, SerialInv, TypeOK, Ordered, Follows
  <2>3. Intact'
    BY <1>2 DEF ReadChunk, SerialInv, TypeOK, Intact, Follows, InHand
  <2>4. (Ending /\ EndsWithItsCause)'
    BY <1>2 DEF ReadChunk, SerialInv, Ending, EndsWithItsCause
  <2>5. QED  BY <2>1, <2>2, <2>3, <2>4 DEF SerialInv
<1>3. CASE Push
  <2> DEFINE full == Len(queue) >= QueueChunks
  <2>1. /\ queue \in Seq(Nat) /\ arrived \in Nat /\ Len(queue) \in Nat
        /\ Len(delivered) \in Nat /\ Len(batch) \in Nat /\ QueueChunks \in Nat
    BY SerialRxAssumption DEF SerialInv, TypeOK, SerialRxAssumption
  <2>2. CASE full
    <3>1. /\ reader = "push" /\ reader' = "overflow"
          /\ UNCHANGED <<arrived, client, batch, delivered, reported, queue, failure, stop>>
      BY <1>3, <2>1, <2>2 DEF Push
    <3>2. TypeOK'
      BY <3>1 DEF SerialInv, TypeOK, Causes
    <3>3. Ordered' /\ Intact'
      BY <3>1 DEF SerialInv, Ordered, Intact, Follows, InHand
    <3>4. (Ending /\ EndsWithItsCause)'
      BY <3>1 DEF SerialInv, Ending, EndsWithItsCause
    <3>5. QED  BY <3>2, <3>3, <3>4 DEF SerialInv
  <2>3. CASE ~full
    <3>1. queue' = Append(queue, arrived) /\ reader' = "loop" /\ reader = "push"
          /\ UNCHANGED <<arrived, clientVars, failure, stop>>
      BY <1>3, <2>1, <2>3 DEF Push
    <3>2. TypeOK'
      BY <2>1, <2>3, <3>1, AppendPoints DEF SerialInv, TypeOK
    <3>3. Ordered'
      BY <3>1 DEF SerialInv, Ordered, Follows
    <3>4. Intact'
      <4> SUFFICES ASSUME failure' = "none" PROVE Intact'
        BY DEF Intact
      <4>1. /\ Len(delivered) + Len(batch) + Len(queue) + 1 = arrived
            /\ Follows(batch, Len(delivered))
            /\ Follows(queue, Len(delivered) + Len(batch))
        BY <3>1 DEF SerialInv, Intact, InHand
      <4>2. Len(queue') = Len(queue) + 1 /\ queue'[Len(queue) + 1] = arrived
            /\ \A i \in 1..Len(queue) : queue'[i] = queue[i]
        BY <2>1, <3>1, AppendPoints
      <4>3. Follows(queue', Len(delivered) + Len(batch))
        <5> SUFFICES ASSUME NEW i \in 1..Len(queue')
                     PROVE  queue'[i] = Len(delivered) + Len(batch) + i
          BY DEF Follows
        <5>1. CASE i \in 1..Len(queue)
          <6>1. queue'[i] = queue[i]
            BY <4>2, <5>1
          <6>2. queue[i] = Len(delivered) + Len(batch) + i
            BY <4>1, <5>1 DEF Follows
          <6>3. QED  BY <6>1, <6>2
        <5>2. CASE i = Len(queue) + 1
          BY <2>1, <4>1, <4>2, <5>2
        <5>3. QED  BY <2>1, <4>2, <5>1, <5>2
      <4>4. Follows(batch', Len(delivered'))
        BY <3>1, <4>1
      <4>5. (Len(delivered) + Len(batch) + Len(queue) + InHand = arrived)'
        BY <2>1, <3>1, <4>1, <4>2 DEF InHand
      <4>6. QED  BY <3>1, <4>3, <4>4, <4>5 DEF Intact
    <3>5. (Ending /\ EndsWithItsCause)'
      BY <3>1 DEF SerialInv, Ending, EndsWithItsCause
    <3>6. QED  BY <3>2, <3>3, <3>4, <3>5 DEF SerialInv
  <2>4. QED  BY <2>2, <2>3
<1>4. CASE Fail
  <2>1. TypeOK'
    BY <1>4 DEF Fail, SerialInv, TypeOK, Causes
  <2>2. Ordered'
    BY <1>4 DEF Fail, SerialInv, Ordered, Follows
  <2>3. failure' # "none"
    BY <1>4 DEF Fail, Causes
  <2>4. Intact'
    BY <2>3 DEF Intact
  <2>5. (Ending /\ EndsWithItsCause)'
    BY <1>4, <2>3 DEF Fail, SerialInv, Ending, EndsWithItsCause
  <2>6. QED  BY <2>1, <2>2, <2>4, <2>5 DEF SerialInv
<1>5. QED  BY <1>1, <1>2, <1>3, <1>4 DEF Reader

\* A read that ends with the recorded failure keeps the invariant.
LEMMA ErrorStep ==
  ASSUME SerialInv, failure # "none", ReturnError(failure), client \in {"idle", "take", "check"},
         UNCHANGED <<readerVars, queue, failure, stop>>
  PROVE  SerialInv'
<1>1. TypeOK'
  BY EmptyPoints, SerialRxAssumption
     DEF ReturnError, SerialInv, TypeOK, readerVars, SerialRxAssumption, Causes
<1>2. Ordered' /\ Intact'
  BY DEF ReturnError, SerialInv, Ordered, Intact, Follows, readerVars
<1>3. EndsWithItsCause'
  BY DEF ReturnError, SerialInv, EndsWithItsCause
<1>4. Ending'
  BY DEF ReturnError, SerialInv, Ending, readerVars
<1>5. QED  BY <1>1, <1>2, <1>3, <1>4 DEF SerialInv

LEMMA ClientStep == SerialInv /\ Client => SerialInv'
<1> SUFFICES ASSUME SerialInv, Client PROVE SerialInv'
  OBVIOUS
<1> USE DEF readerVars, clientVars
<1>0. /\ queue \in Seq(Nat) /\ batch \in Seq(Nat) /\ delivered \in Seq(Nat) /\ arrived \in Nat
      /\ Len(queue) \in Nat /\ Len(batch) \in Nat /\ Len(delivered) \in Nat
      /\ QueueChunks \in Nat /\ ReadChunks \in Nat
  BY SerialRxAssumption DEF SerialInv, TypeOK, SerialRxAssumption
<1>1. CASE BeginRead
  <2>1. CASE failure # "none"
    <3>1. /\ ReturnError(failure) /\ client \in {"idle", "take", "check"}
          /\ UNCHANGED <<readerVars, queue, failure, stop>>
      BY <1>1, <2>1 DEF BeginRead
    <3>2. QED  BY <2>1, <3>1, ErrorStep
  <2>2. CASE failure = "none"
    <3>1. ~stop
      BY <1>1 DEF BeginRead, SerialInv, Ending
    <3>2. QED
      BY <1>1, <2>2, <3>1 DEF BeginRead, SerialInv, TypeOK, Ordered, Intact, Ending,
                              EndsWithItsCause, Follows, InHand
  <2>3. QED  BY <2>1, <2>2
<1>2. CASE Take
  <2>1. /\ queue' = Tail(queue) /\ batch' = Append(batch, Head(queue))
        /\ queue # <<>> /\ Len(batch) < ReadChunks /\ client = "take"
        /\ UNCHANGED <<readerVars, client, delivered, reported, failure, stop>>
    BY <1>2 DEF Take
  <2>2. /\ Tail(queue) \in Seq(Nat) /\ Head(queue) = queue[1] /\ Head(queue) \in Nat
        /\ Len(queue) >= 1 /\ Len(queue') = Len(queue) - 1
        /\ \A i \in 1..Len(queue') : queue'[i] = queue[i + 1]
    BY <1>0, <2>1, TailPoints
  <2>3. /\ batch' \in Seq(Nat) /\ Len(batch') = Len(batch) + 1
        /\ batch'[Len(batch) + 1] = queue[1]
        /\ \A i \in 1..Len(batch) : batch'[i] = batch[i]
    BY <1>0, <2>1, <2>2, AppendPoints
  <2>4. TypeOK'
    BY <1>0, <2>1, <2>2, <2>3 DEF SerialInv, TypeOK
  <2>5. Ordered'
    BY <2>1 DEF SerialInv, Ordered, Follows
  <2>6. Intact'
    <3> SUFFICES ASSUME failure' = "none" PROVE Intact'
      BY DEF Intact
    <3>1. /\ Len(delivered) + Len(batch) + Len(queue) + InHand = arrived
          /\ Follows(batch, Len(delivered))
          /\ Follows(queue, Len(delivered) + Len(batch))
      BY <2>1 DEF SerialInv, Intact
    <3>2. Follows(batch', Len(delivered))
      <4> SUFFICES ASSUME NEW i \in 1..Len(batch') PROVE batch'[i] = Len(delivered) + i
        BY DEF Follows
      <4>1. CASE i \in 1..Len(batch)
        <5>1. batch'[i] = batch[i]
          BY <2>3, <4>1
        <5>2. QED  BY <3>1, <4>1, <5>1 DEF Follows
      <4>2. CASE i = Len(batch) + 1
        <5>1. queue[1] = Len(delivered) + Len(batch) + 1
          BY <1>0, <2>2, <3>1 DEF Follows
        <5>2. QED  BY <1>0, <2>3, <4>2, <5>1
      <4>3. QED  BY <1>0, <2>3, <4>1, <4>2
    <3>3. Follows(queue', Len(delivered) + Len(batch'))
      <4> SUFFICES ASSUME NEW i \in 1..Len(queue')
                   PROVE  queue'[i] = Len(delivered) + Len(batch') + i
        BY DEF Follows
      <4>1. queue'[i] = queue[i + 1] /\ i + 1 \in 1..Len(queue)
        BY <1>0, <2>2
      <4>2. queue[i + 1] = Len(delivered) + Len(batch) + (i + 1)
        BY <3>1, <4>1 DEF Follows
      <4>3. QED  BY <1>0, <2>3, <4>1, <4>2
    <3>4. InHand \in Nat /\ InHand' = InHand
      BY <2>1 DEF InHand
    <3>5. (Len(delivered) + Len(batch) + Len(queue) + InHand = arrived)'
      <4>1. delivered' = delivered /\ arrived' = arrived
        BY <2>1 DEF readerVars
      <4>2. Len(batch') + Len(queue') = Len(batch) + Len(queue)
        BY <1>0, <2>2, <2>3
      <4>3. Len(batch') \in Nat /\ Len(queue') \in Nat
        BY <1>0, <2>2, <2>3
      <4>4. Len(delivered') = Len(delivered)
        BY <4>1
      <4>5. Len(delivered) + Len(batch) + Len(queue) + InHand = arrived
        BY <3>1
      <4>6. Len(delivered) + Len(batch') + Len(queue') + InHand = arrived
        <5>1. InHand \in Nat
          BY <3>4
        <5>2. \A d, b, q, h, b1, q1 \in Nat :
                d + b + q + h = arrived /\ b1 + q1 = b + q => d + b1 + q1 + h = arrived
          BY <1>0
        <5>3. Len(delivered) \in Nat /\ Len(batch) \in Nat /\ Len(queue) \in Nat
          BY <1>0
        <5>4. QED  BY <4>2, <4>3, <4>5, <5>1, <5>2, <5>3
      <4>7. QED  BY <3>4, <4>1, <4>4, <4>6
    <3>6. QED  BY <2>1, <3>2, <3>3, <3>5 DEF Intact
  <2>7. (Ending /\ EndsWithItsCause)'
    BY <2>1 DEF SerialInv, Ending, EndsWithItsCause
  <2>8. QED  BY <2>4, <2>5, <2>6, <2>7 DEF SerialInv
<1>3. CASE EndTake
  BY <1>3 DEF EndTake, SerialInv, TypeOK, Ordered, Intact, Ending, EndsWithItsCause, Follows, InHand
<1>4. CASE Severed
  <2>1. failure # "none"
    BY <1>4 DEF Severed, SerialInv, Ending
  <2>2. /\ ReturnError(failure) /\ client \in {"idle", "take", "check"}
        /\ UNCHANGED <<readerVars, queue, failure, stop>>
    BY <1>4, <2>1 DEF Severed
  <2>3. QED  BY <2>1, <2>2, ErrorStep
<1>5. CASE EndRead
  <2>1. CASE failure # "none"
    <3>1. /\ ReturnError(failure) /\ client \in {"idle", "take", "check"}
          /\ UNCHANGED <<readerVars, queue, failure, stop>>
      BY <1>5, <2>1 DEF EndRead
    <3>2. QED  BY <2>1, <3>1, ErrorStep
  <2>2. CASE failure = "none"
    <3>1. /\ delivered' = delivered \o batch /\ batch' = <<>> /\ client' = "idle"
          /\ client = "check"
          /\ UNCHANGED <<reported, readerVars, queue, failure, stop>>
      BY <1>5, <2>2 DEF EndRead
    <3>2. /\ Len(delivered) + Len(batch) + Len(queue) + InHand = arrived
          /\ Follows(delivered, 0)
          /\ Follows(batch, Len(delivered))
          /\ Follows(queue, Len(delivered) + Len(batch))
          /\ InHand \in Nat
      BY <2>2 DEF SerialInv, Intact, Ordered, InHand
    <3>3. /\ delivered' \in Seq(Nat) /\ Len(delivered') = Len(delivered) + Len(batch)
          /\ \A i \in 1..Len(delivered) : delivered'[i] = delivered[i]
          /\ \A i \in 1..Len(batch) : delivered'[Len(delivered) + i] = batch[i]
      BY <1>0, <3>1, ConcatPoints
    <3>4. Follows(delivered', 0)
      <4> SUFFICES ASSUME NEW i \in 1..Len(delivered') PROVE delivered'[i] = i
        BY DEF Follows
      <4>1. CASE i <= Len(delivered)
        <5>1. i \in 1..Len(delivered)
          BY <1>0, <3>3, <4>1
        <5>2. delivered'[i] = delivered[i]
          BY <3>3, <5>1
        <5>3. delivered[i] = 0 + i
          BY <3>2, <5>1 DEF Follows
        <5>4. QED  BY <1>0, <5>2, <5>3
      <4>2. CASE i > Len(delivered)
        <5>1. i - Len(delivered) \in 1..Len(batch)
          BY <1>0, <3>3, <4>2
        <5>2. delivered'[Len(delivered) + (i - Len(delivered))] = batch[i - Len(delivered)]
          BY <3>3, <5>1
        <5>3. batch[i - Len(delivered)] = Len(delivered) + (i - Len(delivered))
          BY <3>2, <5>1 DEF Follows
        <5>4. Len(delivered) + (i - Len(delivered)) = i
          BY <1>0
        <5>5. QED  BY <5>2, <5>3, <5>4
      <4>3. QED  BY <1>0, <4>1, <4>2
    <3>5. Ordered'
      BY <1>0, <3>1, <3>2, <3>3, <3>4 DEF Ordered
    <3>6. TypeOK'
      BY <1>0, <3>1, <3>3, EmptyPoints DEF SerialInv, TypeOK
    <3>7. Intact'
      <4>1. Follows(batch', Len(delivered')) /\ Len(batch') = 0
        BY <3>1, EmptyPoints DEF Follows
      <4>2. Follows(queue', Len(delivered') + Len(batch'))
        BY <1>0, <3>1, <3>2, <3>3, <4>1
      <4>3. InHand' = InHand
        BY <3>1 DEF InHand
      <4>4. QED  BY <1>0, <3>1, <3>2, <3>3, <4>1, <4>2, <4>3 DEF Intact
    <3>8. (Ending /\ EndsWithItsCause)'
      BY <3>1 DEF SerialInv, Ending, EndsWithItsCause
    <3>9. QED  BY <3>5, <3>6, <3>7, <3>8 DEF SerialInv
  <2>3. QED  BY <2>1, <2>2
<1>6. CASE Close \/ Join
  BY <1>6 DEF Close, Join, SerialInv, TypeOK, Ordered, Intact, Ending, EndsWithItsCause, Follows,
              InHand
<1>7. QED  BY <1>1, <1>2, <1>3, <1>4, <1>5, <1>6 DEF Client, Read

\* The invariant holds in every state of the buffer.
THEOREM SerialRxInvariant == Spec => []SerialInv
<1>1. SerialInv /\ [Next]_vars => SerialInv'
  <2>1. SerialInv /\ UNCHANGED vars => SerialInv'
    BY DEF vars, SerialInv, TypeOK, Ordered, Intact, Ending, EndsWithItsCause, Follows, InHand
  <2>2. QED  BY <2>1, ReaderStep, ClientStep DEF Next
<1>2. QED  BY <1>1, SerialInit, PTL DEF Spec

\* An error the client is given names the recorded failure.
THEOREM SerialRxCause == Spec => []EndsWithItsCause
<1>1. SerialInv => EndsWithItsCause
  BY DEF SerialInv
<1>2. QED  BY <1>1, SerialRxInvariant, PTL

-----------------------------------------------------------------------------
(***************************************************************************)
(* The refinement.  A chunk the device produces arrives, a read that ends  *)
(* well delivers its batch, the first read that ends with an error ends    *)
(* the stream, and every other step changes nothing the client sees.       *)
(***************************************************************************)
LEMMA ErrorEnds ==
  ASSUME ReturnError(failure), UNCHANGED <<readerVars, queue, failure, stop>>, failure # "none"
  PROVE  [Promise!Next]_(Promise!vars)
<1>1. UNCHANGED <<arrived, delivered>> /\ (reported # "none")' = TRUE
  BY DEF ReturnError, readerVars
<1>2. Promise!End
  BY <1>1 DEF Promise!End
<1>3. QED  BY <1>2 DEF Promise!Next

LEMMA BatchDelivered ==
  ASSUME SerialInv, EndRead, failure = "none"
  PROVE  Promise!Deliver(Len(delivered) + Len(batch))
         /\ Len(delivered) + Len(batch) \in Len(delivered)..arrived
<1> DEFINE n == Len(delivered) + Len(batch)
<1>1. /\ delivered' = delivered \o batch
      /\ UNCHANGED <<reported, readerVars, queue, failure, stop>>
  BY DEF EndRead
<1>2. /\ batch \in Seq(Nat) /\ delivered \in Seq(Nat) /\ queue \in Seq(Nat)
      /\ Len(batch) \in Nat /\ Len(delivered) \in Nat /\ Len(queue) \in Nat /\ arrived \in Nat
  BY DEF SerialInv, TypeOK
<1>3. SerialInv'
  BY ClientStep DEF Client, Read
<1>4. delivered' \in Seq(Nat) /\ Len(delivered') = n
  BY <1>1, <1>2, ConcatPoints
<1>5. Follows(delivered', 0) /\ Len(delivered') <= arrived'
  BY <1>3 DEF SerialInv, Ordered
<1>6. delivered' = [i \in 1..n |-> i]
  <2>1. \A i \in 1..n : delivered'[i] = i
    BY <1>2, <1>4, <1>5 DEF Follows
  <2>2. DOMAIN delivered' = 1..n
    BY <1>2, <1>4
  <2>3. delivered' = [i \in DOMAIN delivered' |-> delivered'[i]]
    BY <1>4
  <2>4. QED  BY <2>1, <2>2, <2>3
<1>7. reported = "none"
  BY DEF SerialInv, EndsWithItsCause
<1>8. arrived' = arrived /\ n \in Len(delivered)..arrived
  BY <1>1, <1>2, <1>4, <1>5 DEF readerVars
<1>9. QED
  BY <1>1, <1>6, <1>7, <1>8 DEF Promise!Deliver, readerVars

\* Every step of the buffer is a step of the promise or changes nothing it speaks of.
LEMMA SerialKept == SerialInv /\ [Next]_vars => [Promise!Next]_(Promise!vars)
<1> SUFFICES ASSUME SerialInv, [Next]_vars PROVE [Promise!Next]_(Promise!vars)
  OBVIOUS
<1> USE DEF readerVars, clientVars
<1>1. CASE UNCHANGED vars
  BY <1>1 DEF vars, Promise!vars
<1>2. CASE CheckStop \/ ReadNothing \/ ReadError \/ Push \/ Fail \/ Leave
  BY <1>2 DEF CheckStop, ReadNothing, ReadError, Push, Fail, Leave, Promise!vars
<1>3. CASE ReadChunk
  BY <1>3 DEF ReadChunk, Promise!Next, Promise!Arrive
<1>4. CASE Take \/ EndTake \/ Close \/ Join
  BY <1>4 DEF Take, EndTake, Close, Join, Promise!vars
<1>5. CASE BeginRead
  <2>1. CASE failure # "none"
    <3>1. ReturnError(failure) /\ UNCHANGED <<readerVars, queue, failure, stop>>
      BY <1>5, <2>1 DEF BeginRead
    <3>2. QED  BY <2>1, <3>1, ErrorEnds
  <2>2. CASE failure = "none"
    BY <1>5, <2>2 DEF BeginRead, Promise!vars
  <2>3. QED  BY <2>1, <2>2
<1>6. CASE Severed
  <2>1. failure # "none"
    BY <1>6 DEF Severed, SerialInv, Ending
  <2>2. ReturnError(failure) /\ UNCHANGED <<readerVars, queue, failure, stop>>
    BY <1>6, <2>1 DEF Severed
  <2>3. QED  BY <2>1, <2>2, ErrorEnds
<1>7. CASE EndRead
  <2>1. CASE failure # "none"
    <3>1. ReturnError(failure) /\ UNCHANGED <<readerVars, queue, failure, stop>>
      BY <1>7, <2>1 DEF EndRead
    <3>2. QED  BY <2>1, <3>1, ErrorEnds
  <2>2. CASE failure = "none"
    <3>1. \E n \in Len(delivered)..arrived : Promise!Deliver(n)
      BY <1>7, <2>2, BatchDelivered
    <3>2. QED  BY <3>1 DEF Promise!Next
  <2>3. QED  BY <2>1, <2>2
<1>8. QED
  BY <1>1, <1>2, <1>3, <1>4, <1>5, <1>6, <1>7 DEF Next, Reader, Client, Read

\* The serial receive buffer implements the promise of a gapless stream.
THEOREM SerialRxKeepsPromise == Spec => StreamKept
<1>1. Init => Promise!Init
  BY DEF Init, Promise!Init
<1>2. Spec => [][Promise!Next]_(Promise!vars)
  BY SerialRxInvariant, SerialKept, PTL DEF Spec
<1>3. QED  BY <1>1, <1>2, PTL DEF Spec, StreamKept, Promise!Spec
-----------------------------------------------------------------------------
(***************************************************************************)
(* The receive pump: what ReceivePumpProofs proves holds of the pump of    *)
(* MCHandoffs, which is in use or over.                                    *)
(***************************************************************************)
\* The proofs about the receive pump, for the pump of this module.
PumpProofs == INSTANCE ReceivePumpProofs WITH Capacity <- PumpCapacity

LEMMA PumpSame ==
  /\ Pump!Init => PumpProofs!Init
  /\ Pump!Next => PumpProofs!Next
<1>1. Pump!Init => PumpProofs!Init
  BY DEF Pump!Init, PumpProofs!Init, Pump!None, PumpProofs!None
<1> USE DEF Pump!pumpVars, PumpProofs!pumpVars, Pump!sessionVars, PumpProofs!sessionVars,
            Pump!None, PumpProofs!None
<1>2. Pump!Fill => PumpProofs!Fill
  BY DEF Pump!Fill, PumpProofs!Fill
<1>3. Pump!Worker => PumpProofs!Worker
  BY DEF Pump!Worker, Pump!CheckStopping, Pump!Submit, Pump!WaitTimeout, Pump!WaitDone,
         Pump!ReadFails, Pump!Offer, Pump!StopSource, Pump!PumpGoes,
         PumpProofs!Worker, PumpProofs!CheckStopping, PumpProofs!Submit, PumpProofs!WaitTimeout,
         PumpProofs!WaitDone, PumpProofs!ReadFails, PumpProofs!Offer, PumpProofs!StopSource,
         PumpProofs!PumpGoes
<1>4. Pump!Serve \/ Pump!Quit => PumpProofs!Serve \/ PumpProofs!Quit
  BY DEF Pump!Serve, Pump!Poll, Pump!Take, Pump!HandOn, Pump!Stop, Pump!Joined, Pump!Quit,
         Pump!Check,
         PumpProofs!Serve, PumpProofs!Poll, PumpProofs!Take, PumpProofs!HandOn, PumpProofs!Stop,
         PumpProofs!Joined, PumpProofs!Quit, PumpProofs!Check
<1>5. QED  BY <1>1, <1>2, <1>3, <1>4 DEF Pump!Next, PumpProofs!Next

LEMMA PumpInitially == MCInit => PumpProofs!IInv
<1>1. Pump!Init => PumpProofs!IInv
  BY PumpSame, PumpProofs!IInvInit
<1>2. ASSUME Pump!Over PROVE PumpProofs!IInv
  <2> USE DEF Pump!None, PumpProofs!None
  <2>1. PumpProofs!TypeOK /\ PumpProofs!Steps /\ PumpProofs!Cancelled
    BY <1>2, EmptyPoints
    DEF Pump!Over, PumpProofs!TypeOK, PumpProofs!Steps, PumpProofs!Cancelled
  <2>2. /\ PumpProofs!Polled = 0 /\ PumpProofs!Held = 0 /\ PumpProofs!InRequest = 0
        /\ PumpProofs!Behind = 0
    BY <1>2, EmptyPoints
    DEF Pump!Over, PumpProofs!Polled, PumpProofs!Held, PumpProofs!InRequest, PumpProofs!Behind
  <2>3. PumpProofs!Ordered /\ PumpProofs!Intact
    BY <1>2, <2>2, EmptyPoints
    DEF Pump!Over, PumpProofs!Ordered, PumpProofs!Intact, PumpProofs!Follows
  <2>4. QED  BY <2>1, <2>3 DEF PumpProofs!IInv
<1>3. QED  BY <1>1, <1>2 DEF MCInit

LEMMA PumpSteps == MCSpec => MCInit /\ [][PumpProofs!Next]_(PumpProofs!vars)
<1>1. [MCNext]_MCVars => [PumpProofs!Next]_(PumpProofs!vars)
  BY PumpSame DEF MCNext, MCVars, pumpVars, PumpProofs!vars, PumpProofs!pumpVars,
                  PumpProofs!sessionVars
<1>2. QED  BY <1>1, PTL DEF MCSpec

LEMMA PumpInvariant == MCSpec => []PumpProofs!IInv
BY PumpInitially, PumpProofs!InvariantStep, PumpSteps, PTL

\* A session that ended without an error of the cleanup has no USB request outstanding.
THEOREM PumpReleased == MCSpec => []NothingOutstanding
<1>1. PumpProofs!IInv => NothingOutstanding
  BY DEF PumpProofs!IInv, PumpProofs!Cancelled, NothingOutstanding, Pump!NothingOutstanding
<1>2. QED  BY <1>1, PumpInvariant, PTL

\* The receive pump hands packets on without a gap, in order, and nothing after an end.
THEOREM PumpKeepsPromise == MCSpec => PumpKept
<1>1. MCInit => Pump!Promise!Init
  BY DEF MCInit, Pump!Init, Pump!Over, Pump!Promise!Init
<1>2. PumpProofs!IInv /\ [PumpProofs!Next]_(PumpProofs!vars)
        => [Pump!Promise!Next]_(Pump!Promise!vars)
  <2>1. [PumpProofs!Promise!Next]_(PumpProofs!Promise!vars)
          => [Pump!Promise!Next]_(Pump!Promise!vars)
    BY DEF PumpProofs!Promise!Next, PumpProofs!Promise!vars, Pump!Promise!Next,
           Pump!Promise!vars, PumpProofs!Promise!Arrive, PumpProofs!Promise!Deliver,
           PumpProofs!Promise!End, Pump!Promise!Arrive, Pump!Promise!Deliver, Pump!Promise!End
  <2>2. QED  BY <2>1, PumpProofs!StepKept
<1>3. QED
  BY <1>1, <1>2, PumpInvariant, PumpSteps, PTL DEF PumpKept, Pump!PumpKept, Pump!Promise!Spec
-----------------------------------------------------------------------------
(***************************************************************************)
(* The display.  A frame that is not of the current directory has a clear  *)
(* behind it.                                                              *)
(***************************************************************************)
Post == [do : {"present", "clear"}, epoch : Nat]

\* A frame of an earlier directory or generation has a clear on its way behind it: the
\* one that the setter is going to post or has posted.
Covered(frame) ==
  frame # Lcd!NoFrame /\ (frame.epoch # generation \/ frame.dir # directory) =>
    \/ closed
    \/ setter \in {"invalidate", "post"}
    \/ \E i \in 1..Len(posted) : posted[i] = Lcd!Clear(generation)

\* The inductive invariant of the display: it holds of the frame that is shown and of the
\* one that the main thread has checked and is about to show.
ScreenInv ==
  /\ generation \in Nat /\ posted \in Seq(Post)
  /\ Covered(shown)
  /\ ui.at = "show" => Covered(ui.frame)

LEMMA Posts ==
  ASSUME posted \in Seq(Post)
  PROVE  /\ \A p \in Post : LET q == Append(posted, p) IN
              /\ q \in Seq(Post) /\ Len(q) = Len(posted) + 1 /\ q[Len(posted) + 1] = p
              /\ \A i \in 1..Len(posted) : q[i] = posted[i]
         /\ posted # <<>> => LET q == Tail(posted) IN
              /\ q \in Seq(Post) /\ Head(posted) = posted[1] /\ Len(q) = Len(posted) - 1
              /\ \A i \in 1..Len(q) : q[i] = posted[i + 1]
         /\ Len(posted) \in Nat
BY AppendProperties, HeadTailProperties, EmptySeq, LenProperties

\* Steps that touch neither the display nor what makes its frame stale.
LEMMA ScreenApart ==
  ASSUME ScreenInv, UNCHANGED <<directory, generation, closed, setter, posted, shown, ui>>
  PROVE  ScreenInv'
BY DEF ScreenInv, Covered

LEMMA SetterScreen ==
  ASSUME ScreenInv,
         \/ \E d \in Dirs \cup {Lcd!NoDir} : Lcd!SetDirectory(d) \/ Lcd!CallSetDirectory(d)
         \/ Lcd!Invalidate \/ Lcd!PostClear \/ Lcd!Request \/ Lcd!Close
  PROVE  ScreenInv'
<1>1. CASE \E d \in Dirs \cup {Lcd!NoDir} : Lcd!SetDirectory(d)
  BY <1>1 DEF ScreenInv, Covered, Lcd!SetDirectory, Lcd!Rest, Lcd!posts
<1>2. CASE \E d \in Dirs \cup {Lcd!NoDir} : Lcd!CallSetDirectory(d)
  BY <1>2 DEF ScreenInv, Covered, Lcd!CallSetDirectory, Lcd!posts, Lcd!display
<1>3. CASE Lcd!Invalidate
  BY <1>3 DEF ScreenInv, Covered, Lcd!Invalidate, Lcd!posts, Lcd!display
<1>4. CASE Lcd!PostClear
  <2>1. /\ posted' = Append(posted, Lcd!Clear(generation))
        /\ UNCHANGED <<directory, generation, closed, shown, ui>>
    BY <1>4 DEF Lcd!PostClear, Lcd!display
  <2>2. Lcd!Clear(generation) \in Post  BY DEF ScreenInv, Lcd!Clear, Post
  <2>3. posted' \in Seq(Post) /\ \E i \in 1..Len(posted') : posted'[i] = Lcd!Clear(generation)
    BY <2>1, <2>2, Posts DEF ScreenInv
  <2>4. QED  BY <2>1, <2>3 DEF ScreenInv, Covered, Lcd!Clear
<1>5. CASE Lcd!Request
  <2>1. /\ setter \notin {"invalidate", "post"}
        /\ UNCHANGED <<directory, generation, closed, posted, shown, ui>>
    BY <1>5 DEF Lcd!Request, Lcd!posts, Lcd!display
  <2>2. QED  BY <2>1 DEF ScreenInv, Covered
<1>6. CASE Lcd!Close
  BY <1>6 DEF ScreenInv, Covered, Lcd!Close, Lcd!posts, Lcd!display
<1>7. QED  BY <1>1, <1>2, <1>3, <1>4, <1>5, <1>6

LEMMA PostedFrame ==
  ASSUME ScreenInv, Lcd!PostFrame \/ UNCHANGED posted,
         UNCHANGED <<directory, generation, closed, setter, shown>>,
         ui' = ui \/ ui'.at # "show"
  PROVE  ScreenInv'
<1>1. posted' = posted \/ posted' = Append(posted, Lcd!Present)
  BY DEF Lcd!PostFrame
<1>2. Lcd!Present \in Post  BY DEF Lcd!Present, Post
<1>3. /\ posted' \in Seq(Post) /\ Len(posted) \in Nat
      /\ Len(posted') \in {Len(posted), Len(posted) + 1}
      /\ \A i \in 1..Len(posted) : posted'[i] = posted[i]
  BY <1>1, <1>2, Posts DEF ScreenInv
<1>4. \A i \in 1..Len(posted) : i \in 1..Len(posted')
  BY <1>3
<1>5. QED  BY <1>3, <1>4 DEF ScreenInv, Covered, Lcd!Clear

LEMMA WorkerScreen == ASSUME ScreenInv, Lcd!Poll PROVE ScreenInv'
<1>1. CASE Lcd!PollPresent
  BY <1>1, PostedFrame DEF Lcd!PollPresent, Lcd!session, Lcd!display
<1>2. CASE ~Lcd!PollPresent
  BY <1>2, ScreenApart
  DEF Lcd!Poll, Lcd!PollBegin, Lcd!PollDirectory, Lcd!PollStamp, Lcd!PollDecode, Lcd!PollAccept,
      Lcd!session, Lcd!posts, Lcd!display
<1>3. QED  BY <1>1, <1>2

LEMMA UiScreen == ASSUME ScreenInv, Lcd!Ui PROVE ScreenInv'
<1>1. CASE Lcd!UiClear
  <2>1. /\ posted # <<>> /\ posted' = Tail(posted) /\ ui.at = "idle"
        /\ UNCHANGED <<directory, generation, closed, setter, ui>>
        /\ IF ~closed /\ generation = Head(posted).epoch
           THEN shown' = Lcd!NoFrame ELSE shown' = shown
    BY <1>1 DEF Lcd!UiClear, Lcd!Runs, Lcd!Rest, Lcd!session
  <2>2. /\ posted' \in Seq(Post) /\ Head(posted) = posted[1] /\ Len(posted') = Len(posted) - 1
        /\ \A i \in 1..Len(posted') : posted'[i] = posted[i + 1]
        /\ Len(posted) \in Nat
    BY <2>1, Posts DEF ScreenInv
  <2>3. CASE ~closed /\ generation = Head(posted).epoch
    BY <2>1, <2>2, <2>3 DEF ScreenInv, Covered
  <2>4. CASE ~closed /\ generation # Head(posted).epoch
    <3>1. ASSUME NEW i \in 1..Len(posted), posted[i] = Lcd!Clear(generation)
          PROVE  \E j \in 1..Len(posted') : posted'[j] = Lcd!Clear(generation)
      <4>1. i # 1  BY <2>2, <2>4, <3>1 DEF Lcd!Clear
      <4>2. i - 1 \in 1..Len(posted') /\ posted'[i - 1] = posted[i]  BY <2>2, <4>1
      <4>3. QED  BY <3>1, <4>2
    <3>2. QED  BY <2>1, <2>2, <2>4, <3>1 DEF ScreenInv, Covered, Lcd!Clear
  <2>5. CASE closed
    BY <2>1, <2>2, <2>5 DEF ScreenInv, Covered
  <2>6. QED  BY <2>3, <2>4, <2>5
<1>2. CASE Lcd!UiTake
  <2>1. /\ posted # <<>> /\ posted' = Tail(posted) /\ Head(posted).do = "present"
        /\ ui'.at = "check"
        /\ UNCHANGED <<directory, generation, closed, setter, shown>>
    BY <1>2 DEF Lcd!UiTake, Lcd!Runs, Lcd!session
  <2>2. /\ posted' \in Seq(Post) /\ Head(posted) = posted[1] /\ Len(posted') = Len(posted) - 1
        /\ \A i \in 1..Len(posted') : posted'[i] = posted[i + 1]
        /\ Len(posted) \in Nat
    BY <2>1, Posts DEF ScreenInv
  <2>3. ASSUME NEW i \in 1..Len(posted), posted[i] = Lcd!Clear(generation)
        PROVE  \E j \in 1..Len(posted') : posted'[j] = Lcd!Clear(generation)
    <3>1. i # 1  BY <2>1, <2>2, <2>3 DEF Lcd!Clear
    <3>2. i - 1 \in 1..Len(posted') /\ posted'[i - 1] = posted[i]  BY <2>2, <3>1
    <3>3. QED  BY <2>3, <3>2
  <2>4. QED  BY <2>1, <2>2, <2>3 DEF ScreenInv, Covered, Lcd!Clear
<1>3. CASE Lcd!UiCheck
  <2>1. /\ UNCHANGED <<directory, generation, closed, setter, posted, shown>>
        /\ ui' = [ui EXCEPT !.at = IF /\ ui.frame # Lcd!NoFrame /\ ~closed
                                      /\ directory = ui.frame.dir /\ generation = ui.frame.epoch
                                   THEN "show" ELSE "done"]
    BY <1>3 DEF Lcd!UiCheck, Lcd!session, Lcd!posts
  <2>2. ui'.at = "show" => ui.frame.dir = directory /\ ui.frame.epoch = generation
                           /\ ui'.frame = ui.frame
    BY <2>1
  <2>3. QED  BY <2>1, <2>2 DEF ScreenInv, Covered
<1>4. CASE Lcd!UiShow
  <2>1. /\ UNCHANGED <<directory, generation, closed, setter, posted>>
        /\ ui.at = "show" /\ shown' = ui.frame /\ ui' = [ui EXCEPT !.at = "done"]
    BY <1>4 DEF Lcd!UiShow, Lcd!session, Lcd!posts
  <2>2. ui'.at # "show"  BY <2>1
  <2>3. QED  BY <2>1, <2>2 DEF ScreenInv, Covered
<1>5. CASE Lcd!UiDone
  BY <1>5, PostedFrame DEF Lcd!UiDone, Lcd!session
<1>6. CASE Lcd!UiAgain
  BY <1>6, PostedFrame DEF Lcd!UiAgain, Lcd!session, Lcd!posts, Lcd!Rest
<1>7. QED  BY <1>1, <1>2, <1>3, <1>4, <1>5, <1>6 DEF Lcd!Ui

LEMMA ScreenStep == ScreenInv /\ [Lcd!Next]_(Lcd!vars) => ScreenInv'
<1>1. ASSUME ScreenInv, (\E d \in Dirs : Lcd!Publish(d)) \/ Lcd!Timer \/ UNCHANGED Lcd!vars
      PROVE  ScreenInv'
  BY <1>1, ScreenApart
  DEF Lcd!Publish, Lcd!Timer, Lcd!vars, Lcd!session, Lcd!posts, Lcd!display
<1>2. QED
  BY <1>1, SetterScreen, WorkerScreen, UiScreen DEF Lcd!Next, Lcd!Setter

LEMMA ScreenInitially == MCInit => ScreenInv
<1>1. ASSUME Lcd!Init \/ Lcd!Over PROVE ScreenInv
  <2>1. generation = 0 /\ posted = <<>> /\ shown = Lcd!NoFrame /\ ui.at = "idle"
    BY <1>1 DEF Lcd!Init, Lcd!Over, Lcd!Blank, Lcd!Rest
  <2>2. QED  BY <2>1 DEF ScreenInv, Covered
<1>2. QED  BY <1>1 DEF MCInit

LEMMA ScreenSteps == MCSpec => MCInit /\ [][Lcd!Next]_(Lcd!vars)
<1>1. [MCNext]_MCVars => [Lcd!Next]_(Lcd!vars)
  BY DEF MCNext, MCVars, lcdVars, Lcd!vars, Lcd!session, Lcd!requests, Lcd!decoder, Lcd!posts,
         Lcd!display
<1>2. QED  BY <1>1, PTL DEF MCSpec

\* A frame of an earlier directory is on the screen only until a clear that is posted, or
\* about to be, has been carried out.
THEOREM ScreenNotStale == MCSpec => []NoStaleScreen
<1>1. ScreenInv => NoStaleScreen
  <2>1. ScreenInv => DOMAIN posted = 1..Len(posted)  BY LenProperties DEF ScreenInv
  <2>2. QED  BY <2>1 DEF ScreenInv, Covered, NoStaleScreen, Lcd!NoStaleScreen
<1>2. QED  BY <1>1, ScreenInitially, ScreenStep, ScreenSteps, PTL
-----------------------------------------------------------------------------
(***************************************************************************)
(* The key mailbox.  Keys are numbered in the order in which they are      *)
(* accepted.  Those in the queue are the last; each of the others is in the*)
(* worker's hands, in the file or consumed, in this order, or an arrow that*)
(* has expired.                                                            *)
(***************************************************************************)
Key == [id : Nat, kind : Keys!Kinds]
Steps == {"poll", "wait", "lock", "written", "move", "end"}
Command == Key \cup {Keys!Nothing}

\* The number of the last key the pump's worker took out of the queue.
LastTaken == Len(accepted) - Len(keys)

Holds == keyPump.at \in {"wait", "lock", "written", "move"}

\* Every key has its place in the order in which the keys were accepted, and those in the
\* queue are the last of them.
KeysNumbered ==
  /\ accepted \in Seq(Key) /\ \A i \in 1..Len(accepted) : accepted[i].id = i
  /\ keys \in Seq(Key) /\ Len(keys) <= Len(accepted)
  /\ \A i \in 1..Len(keys) : keys[i] = accepted[LastTaken + i]

\* What has left the queue: the key in the worker's hands, the one in the file and those
\* before it.
KeysTaken ==
  /\ Holds => LastTaken >= 1 /\ keyPump.key = accepted[LastTaken]
  /\ consumed \in Seq(Key)
  /\ \A i \in 1..Len(consumed) :
       /\ consumed[i].id \in 1..LastTaken
       /\ Holds => consumed[i].id < LastTaken
       /\ mailbox # Keys!Nothing => consumed[i].id < mailbox.id
       /\ \A j \in 1..Len(consumed) : i < j => consumed[i].id < consumed[j].id
  /\ mailbox # Keys!Nothing =>
       /\ mailbox.id \in 1..LastTaken /\ mailbox = accepted[mailbox.id]
       /\ Holds => mailbox.id < LastTaken

\* No key is missing but arrows that expired.
KeysThere ==
  \A n \in 1..LastTaken :
    accepted[n].kind # "arrow" =>
      \/ Holds /\ n = LastTaken
      \/ mailbox = accepted[n]
      \/ \E i \in 1..Len(consumed) : consumed[i] = accepted[n]

\* When the file is free: the worker waits until it is, unless its key has expired, and
\* the program removes the key that it has read.
FileFree ==
  /\ keyPump.at = "lock" => keyPump.expired \/ mailbox = Keys!Nothing
  /\ keyPump.at \in {"written", "move"} => mailbox = Keys!Nothing
  /\ keyPump.expired => keyPump.at \in {"wait", "lock"} /\ keyPump.key.kind = "arrow"
  /\ native.at = "consume" => mailbox # Keys!Nothing /\ native.command = mailbox

\* The stop is written when the worker has ended or the wait for it was too short.
StopAfterKeys ==
  /\ keyPump \in [at : Steps, key : Command, expired : BOOLEAN]
  /\ thread # "watch" => keysClosed
  /\ thread \in {"publish", "await", "done"} => late \/ keyPump.at = "end"
  /\ mailbox = Keys!StopCommand => thread \in {"publish", "await", "done"}
  /\ keyPump.at = "end" => keysClosed

KeysOpen == ~keysClosed => KeysNumbered /\ KeysTaken /\ KeysThere /\ FileFree

KeysInv == KeysOpen /\ StopAfterKeys

\* Sequences of keys, element by element.
LEMMA KeySequences ==
  ASSUME NEW s \in Seq(Key)
  PROVE  /\ \A x \in Key :
              /\ Append(s, x) \in Seq(Key) /\ Len(Append(s, x)) = Len(s) + 1
              /\ Append(s, x)[Len(s) + 1] = x
              /\ \A i \in 1..Len(s) : Append(s, x)[i] = s[i]
         /\ s # <<>> => /\ Len(s) >= 1 /\ Head(s) = s[1]
                        /\ Tail(s) \in Seq(Key) /\ Len(Tail(s)) = Len(s) - 1
                        /\ \A i \in 1..(Len(s) - 1) : Tail(s)[i] = s[i + 1]
         /\ \A i \in 1..Len(s) : s[i] \in Key
         /\ Len(s) \in Nat
<1>1. ASSUME NEW x \in Key
      PROVE  /\ Append(s, x) \in Seq(Key) /\ Len(Append(s, x)) = Len(s) + 1
             /\ Append(s, x)[Len(s) + 1] = x
             /\ \A i \in 1..Len(s) : Append(s, x)[i] = s[i]
  BY <1>1, AppendProperties
<1>2. ASSUME s # <<>>
      PROVE  /\ Len(s) >= 1 /\ Head(s) = s[1]
             /\ Tail(s) \in Seq(Key) /\ Len(Tail(s)) = Len(s) - 1
             /\ \A i \in 1..(Len(s) - 1) : Tail(s)[i] = s[i + 1]
  BY <1>2, HeadTailProperties, EmptySeq, LenProperties
<1>3. QED  BY <1>1, <1>2, ElementOfSeq, LenProperties

LEMMA KeyKinds == \A k \in Key : k # Keys!Nothing /\ k # Keys!StopCommand
BY DEF Key, Keys!Kinds, Keys!Nothing, Keys!StopCommand

LEMMA OfferKeeps ==
  ASSUME KeysInv, NEW kind \in Keys!Kinds, Keys!Offer(kind)
  PROVE  KeysInv'
<1> DEFINE new == [id |-> Len(accepted) + 1, kind |-> kind]
<1>1. /\ ~keysClosed
      /\ accepted' = Append(accepted, new) /\ keys' = Append(keys, Keys!Last(accepted'))
      /\ UNCHANGED <<keysClosed, keyPump, mailbox, thread, late, native, consumed>>
  BY DEF Keys!Offer, Keys!nativeVars
<1>2. KeysNumbered /\ KeysTaken /\ KeysThere /\ FileFree /\ StopAfterKeys
  BY <1>1 DEF KeysInv, KeysOpen
<1>3. /\ accepted \in Seq(Key) /\ keys \in Seq(Key) /\ Len(keys) <= Len(accepted)
      /\ Len(keys) \in Nat /\ Len(accepted) \in Nat
  BY <1>2, KeySequences DEF KeysNumbered
<1>4. new \in Key  BY <1>3 DEF Key
<1>5. /\ accepted' \in Seq(Key) /\ Len(accepted') = Len(accepted) + 1
      /\ accepted'[Len(accepted) + 1] = new
      /\ \A i \in 1..Len(accepted) : accepted'[i] = accepted[i]
  BY <1>1, <1>3, <1>4, KeySequences
<1> HIDE DEF new
<1>6. Keys!Last(accepted') = new  BY <1>3, <1>5 DEF Keys!Last
<1>7. /\ keys' \in Seq(Key) /\ Len(keys') = Len(keys) + 1 /\ keys'[Len(keys) + 1] = new
      /\ \A i \in 1..Len(keys) : keys'[i] = keys[i]
  BY <1>1, <1>3, <1>4, <1>6, KeySequences
<1>8. LastTaken' = LastTaken /\ LastTaken \in 0..Len(accepted)
  BY <1>3, <1>5, <1>7 DEF LastTaken
<1>9. KeysNumbered'
  <2>1. \A i \in 1..Len(accepted') : accepted'[i].id = i
    BY <1>2, <1>3, <1>5 DEF KeysNumbered, new
  <2>2. \A i \in 1..Len(keys') : keys'[i] = accepted'[LastTaken + i]
    <3>1. ASSUME NEW i \in 1..Len(keys) PROVE keys'[i] = accepted'[LastTaken + i]
      <4>1. LastTaken + i \in 1..Len(accepted)  BY <1>3, <3>1 DEF LastTaken
      <4>2. keys[i] = accepted[LastTaken + i]  BY <1>2, <3>1 DEF KeysNumbered
      <4>3. QED  BY <1>5, <1>7, <3>1, <4>1, <4>2
    <3>2. keys'[Len(keys) + 1] = accepted'[LastTaken + Len(keys) + 1]
      BY <1>3, <1>5, <1>7 DEF LastTaken
    <3>3. ASSUME NEW i \in 1..Len(keys') PROVE keys'[i] = accepted'[LastTaken + i]
      <4>1. CASE i \in 1..Len(keys)  BY <3>1, <4>1
      <4>2. CASE i = Len(keys) + 1
        <5>1. LastTaken + i = LastTaken + Len(keys) + 1  BY <1>3, <1>8, <4>2
        <5>2. QED  BY <3>2, <4>2, <5>1
      <4>3. QED  BY <1>3, <1>7, <3>3, <4>1, <4>2
    <3>4. QED  BY <1>8, <3>3
  <2>3. QED  BY <1>3, <1>5, <1>7, <1>8, <2>1, <2>2 DEF KeysNumbered
<1>10. Holds' = Holds  BY <1>1 DEF Holds
<1>11. KeysTaken'
  BY <1>1, <1>2, <1>5, <1>8, <1>10 DEF KeysTaken
<1>12. KeysThere'
  BY <1>1, <1>2, <1>5, <1>8, <1>10 DEF KeysThere
<1>13. FileFree' /\ StopAfterKeys'
  BY <1>1, <1>2 DEF FileFree, StopAfterKeys
<1>14. QED  BY <1>9, <1>11, <1>12, <1>13 DEF KeysInv, KeysOpen

LEMMA TakeKeeps == ASSUME KeysInv, Keys!Take PROVE KeysInv'
<1>1. /\ ~keysClosed /\ keyPump.at = "poll" /\ keys # <<>> /\ keys' = Tail(keys)
      /\ keyPump' = [at |-> "wait", key |-> Head(keys), expired |-> FALSE]
      /\ UNCHANGED <<keysClosed, mailbox, accepted, thread, late, native, consumed>>
  BY DEF Keys!Take, Keys!NoKey, Keys!OthersOfPump, Keys!nativeVars
<1>2. KeysNumbered /\ KeysTaken /\ KeysThere /\ FileFree /\ StopAfterKeys
  BY <1>1 DEF KeysInv, KeysOpen
<1>3. /\ accepted \in Seq(Key) /\ keys \in Seq(Key) /\ Len(keys) <= Len(accepted)
      /\ Len(keys) \in Nat /\ Len(accepted) \in Nat
      /\ \A i \in 1..Len(accepted) : accepted[i] \in Key
  BY <1>2, KeySequences DEF KeysNumbered
<1>4. /\ Len(keys) >= 1 /\ Head(keys) = keys[1] /\ keys' \in Seq(Key) /\ Len(keys') = Len(keys) - 1
      /\ \A i \in 1..(Len(keys) - 1) : keys'[i] = keys[i + 1]
  BY <1>1, <1>3, KeySequences
<1>5. LastTaken' = LastTaken + 1 /\ LastTaken + 1 \in 1..Len(accepted) /\ LastTaken \in Nat
  BY <1>1, <1>3, <1>4 DEF LastTaken
<1>6. Head(keys) = accepted[LastTaken + 1]
  BY <1>2, <1>3, <1>4 DEF KeysNumbered
<1>7. ~Holds /\ Holds' /\ keyPump'.key = accepted[LastTaken']
  BY <1>1, <1>5, <1>6 DEF Holds
<1>8. KeysNumbered'
  <2>1. \A i \in 1..Len(keys') : keys'[i] = accepted[LastTaken' + i]
    <3>1. ASSUME NEW i \in 1..Len(keys') PROVE keys'[i] = accepted[LastTaken' + i]
      <4>1. i + 1 \in 1..Len(keys) /\ keys'[i] = keys[i + 1]  BY <1>3, <1>4, <3>1
      <4>2. keys[i + 1] = accepted[LastTaken + (i + 1)]  BY <1>2, <4>1 DEF KeysNumbered
      <4>3. LastTaken' + i = LastTaken + (i + 1)  BY <1>5, <4>1
      <4>4. QED  BY <4>1, <4>2, <4>3
    <3>2. QED  BY <3>1
  <2>2. QED  BY <1>1, <1>2, <1>3, <1>4, <2>1 DEF KeysNumbered
<1>9. KeysTaken'
  BY <1>1, <1>2, <1>5, <1>7 DEF KeysTaken
<1>10. KeysThere'
  <2>1. ASSUME NEW n \in 1..LastTaken', n # LastTaken' PROVE n \in 1..LastTaken
    BY <1>5, <2>1
  <2>2. QED  BY <1>1, <1>2, <1>7, <2>1 DEF KeysThere
<1>11. FileFree'
  BY <1>1, <1>2 DEF FileFree
<1>12. keyPump' \in [at : Steps, key : Command, expired : BOOLEAN]
  BY <1>1, <1>3, <1>5, <1>6 DEF Command, Steps
<1>13. StopAfterKeys'
  BY <1>1, <1>2, <1>12 DEF StopAfterKeys
<1>14. QED  BY <1>8, <1>9, <1>10, <1>11, <1>13 DEF KeysInv, KeysOpen

\* The other steps of the worker leave the queue alone, as long as the pump is open.
LEMMA WorkerKeeps ==
  ASSUME KeysInv, Keys!WaitFree \/ Keys!Expire \/ Keys!Lock \/ Keys!CheckClosed \/ Keys!Move
  PROVE  KeysInv'
<1>1. /\ UNCHANGED <<keys, keysClosed, accepted, thread, late, native, consumed>>
      /\ StopAfterKeys
  BY DEF Keys!WaitFree, Keys!Expire, Keys!Lock, Keys!CheckClosed, Keys!Move, Keys!OthersOfPump,
         Keys!nativeVars, KeysInv
<1>2. keyPump \in [at : Steps, key : Command, expired : BOOLEAN]
  BY <1>1 DEF StopAfterKeys
<1>3. /\ keyPump.at # "end" /\ keyPump'.at # "end"
      /\ keyPump' \in [at : Steps, key : Command, expired : BOOLEAN]
  <2>1. CASE Keys!WaitFree
    BY <1>2, <2>1 DEF Keys!WaitFree, Steps
  <2>2. CASE Keys!Expire
    BY <1>2, <2>2 DEF Keys!Expire, Steps
  <2>3. CASE Keys!Lock \/ Keys!CheckClosed \/ Keys!Move
    <3>1. keyPump' \in {Keys!NoKey, [keyPump EXCEPT !.at = "written"],
                        [keyPump EXCEPT !.at = "move"]}
      BY <2>3 DEF Keys!Lock, Keys!CheckClosed, Keys!Move
    <3>2. Keys!NoKey \in [at : Steps, key : Command, expired : BOOLEAN] /\ Keys!NoKey.at = "poll"
      BY DEF Keys!NoKey, Steps, Command
    <3>3. QED
      BY <1>2, <2>3, <3>1, <3>2 DEF Keys!Lock, Keys!CheckClosed, Keys!Move, Steps
  <2>4. QED  BY <2>1, <2>2, <2>3
<1>4. mailbox' = Keys!StopCommand => mailbox = Keys!StopCommand
  BY <1>2, KeyKinds DEF Keys!WaitFree, Keys!Expire, Keys!Lock, Keys!CheckClosed, Keys!Move,
                  Command, Steps, Keys!Nothing, Keys!StopCommand
<1>5. StopAfterKeys'
  BY <1>1, <1>3, <1>4 DEF StopAfterKeys
<1>6. ASSUME ~keysClosed PROVE KeysNumbered' /\ KeysTaken' /\ KeysThere' /\ FileFree'
  <2>1. KeysNumbered /\ KeysTaken /\ KeysThere /\ FileFree
    BY <1>6 DEF KeysInv, KeysOpen
  <2>2. KeysNumbered' /\ LastTaken' = LastTaken
    BY <1>1, <2>1 DEF KeysNumbered, LastTaken
  <2>3. /\ accepted \in Seq(Key) /\ LastTaken \in 0..Len(accepted)
        /\ \A i \in 1..Len(accepted) : accepted[i] \in Key /\ accepted[i].id = i
    BY <2>1, KeySequences DEF KeysNumbered, LastTaken
  <2>4. CASE Keys!WaitFree \/ Keys!Expire \/ Keys!CheckClosed
             \/ (Keys!Lock /\ ~keyPump.expired)
    <3>1. /\ mailbox' = mailbox /\ Holds /\ Holds' /\ keyPump'.key = keyPump.key
      BY <1>2, <2>4 DEF Keys!WaitFree, Keys!Expire, Keys!Lock, Keys!CheckClosed, Holds
    <3>2. KeysTaken' /\ KeysThere'
      BY <1>1, <2>1, <2>2, <3>1 DEF KeysTaken, KeysThere
    <3>3. FileFree'
      BY <1>1, <1>2, <1>6, <2>1, <2>4
      DEF FileFree, Keys!WaitFree, Keys!Expire, Keys!Lock, Keys!CheckClosed
    <3>4. QED  BY <2>2, <3>2, <3>3
  <2>5. CASE Keys!Lock /\ keyPump.expired
    <3>1. /\ mailbox' = mailbox /\ Holds /\ ~Holds' /\ keyPump.key.kind = "arrow"
          /\ keyPump' = Keys!NoKey
      BY <2>1, <2>5 DEF Keys!Lock, Keys!NoKey, Holds, FileFree
    <3>2. KeysTaken'
      BY <1>1, <2>1, <2>2, <2>3, <3>1 DEF KeysTaken
    <3>3. KeysThere'
      BY <1>1, <2>1, <2>2, <2>3, <3>1 DEF KeysTaken, KeysThere
    <3>4. FileFree'
      BY <1>1, <2>1, <3>1 DEF FileFree, Keys!NoKey
    <3>5. QED  BY <2>2, <3>2, <3>3, <3>4
  <2>6. CASE Keys!Move
    <3>1. /\ mailbox = Keys!Nothing /\ mailbox' = keyPump.key /\ keyPump' = Keys!NoKey
          /\ Holds /\ ~Holds' /\ native.at # "consume"
      BY <2>1, <2>6 DEF Keys!Move, Keys!NoKey, Holds, FileFree
    <3>2. /\ mailbox' = accepted[LastTaken] /\ mailbox'.id = LastTaken /\ LastTaken >= 1
          /\ mailbox' # Keys!Nothing
      BY <2>1, <2>3, <3>1, KeyKinds DEF KeysTaken
    <3>3. KeysTaken'
      BY <1>1, <2>1, <2>2, <2>3, <3>1, <3>2 DEF KeysTaken
    <3>4. KeysThere'
      BY <1>1, <2>1, <2>2, <2>3, <3>1, <3>2, KeyKinds DEF KeysThere
    <3>5. FileFree'
      BY <1>1, <2>1, <3>1, <3>2 DEF FileFree, Keys!NoKey
    <3>6. QED  BY <2>2, <3>3, <3>4, <3>5
  <2>7. QED  BY <2>4, <2>5, <2>6
<1>7. QED  BY <1>1, <1>5, <1>6 DEF KeysInv, KeysOpen

\* The pump is closed, by the user or by the session thread, or ends.
LEMMA CloseKeeps ==
  ASSUME KeysInv, Keys!Stop \/ Keys!ClosePump \/ Keys!End \/ Keys!Thread
  PROVE  KeysInv'
<1>1. StopAfterKeys  BY DEF KeysInv
<1>2. keysClosed'
  BY <1>1 DEF StopAfterKeys, Keys!Stop, Keys!ClosePump, Keys!End, Keys!Thread, Keys!Join,
              Keys!PublishStop, Keys!Ended, Keys!Destroy, Keys!pumpVars
<1>3. CASE Keys!Stop \/ Keys!ClosePump \/ Keys!End
  <2>1. keyPump' \in [at : Steps, key : Command, expired : BOOLEAN]
    BY <1>1, <1>3 DEF StopAfterKeys, Keys!Stop, Keys!ClosePump, Keys!End, Keys!NoKey, Command,
                      Steps, Keys!OthersOfThread
  <2>2. StopAfterKeys'
    BY <1>1, <1>2, <1>3, <2>1 DEF StopAfterKeys, Keys!Stop, Keys!ClosePump, Keys!End, Keys!NoKey,
                      Keys!OthersOfThread, Keys!OthersOfPump
  <2>3. QED  BY <1>2, <2>2 DEF KeysInv, KeysOpen
<1>4. CASE Keys!Thread
  <2>1. keyPump' = keyPump
    BY <1>4 DEF Keys!Thread, Keys!Join, Keys!PublishStop, Keys!Ended, Keys!Destroy,
                Keys!OthersOfThread, Keys!pumpVars
  <2>2. StopAfterKeys'
    BY <1>1, <1>2, <1>4, <2>1 DEF StopAfterKeys, Keys!Thread, Keys!Join, Keys!PublishStop,
                Keys!Ended, Keys!Destroy, Keys!OthersOfThread
  <2>3. QED  BY <1>2, <2>2 DEF KeysInv, KeysOpen
<1>5. QED  BY <1>3, <1>4

LEMMA NativeKeeps ==
  ASSUME KeysInv,
         \/ Keys!Read \/ Keys!Consume \/ Keys!Pause \/ Keys!PauseOver \/ Keys!Limit
         \/ Keys!GuestReads
  PROVE  KeysInv'
<1>1. UNCHANGED <<accepted, keys, keysClosed, keyPump, thread, late>>
  BY DEF Keys!Read, Keys!Consume, Keys!Pause, Keys!PauseOver, Keys!Limit, Keys!GuestReads,
         Keys!OthersOfNative, Keys!pumpVars
<1>2. mailbox' \in {mailbox, Keys!Nothing}
  BY DEF Keys!Read, Keys!Consume, Keys!Pause, Keys!PauseOver, Keys!Limit, Keys!GuestReads
<1>3. StopAfterKeys /\ StopAfterKeys'
  BY <1>1, <1>2 DEF KeysInv, StopAfterKeys, Keys!Nothing, Keys!StopCommand
<1>4. ASSUME ~keysClosed PROVE KeysNumbered' /\ KeysTaken' /\ KeysThere' /\ FileFree'
  <2>1. KeysNumbered /\ KeysTaken /\ KeysThere /\ FileFree
    BY <1>4 DEF KeysInv, KeysOpen
  <2>2. KeysNumbered' /\ LastTaken' = LastTaken /\ Holds' = Holds
    BY <1>1, <2>1 DEF KeysNumbered, LastTaken, Holds
  <2>3. /\ accepted \in Seq(Key) /\ LastTaken \in 0..Len(accepted)
        /\ \A i \in 1..Len(accepted) : accepted[i] \in Key /\ accepted[i].id = i
        /\ consumed \in Seq(Key) /\ Len(consumed) \in Nat
    BY <2>1, KeySequences DEF KeysNumbered, KeysTaken, LastTaken
  <2>4. CASE ~Keys!Consume
    <3>1. /\ UNCHANGED <<mailbox, consumed>>
          /\ \/ native'.at = "consume" /\ native'.command = mailbox /\ mailbox # Keys!Nothing
             \/ native' = native \/ native'.at # "consume"
      BY <2>4 DEF Keys!Read, Keys!Pause, Keys!PauseOver, Keys!Limit, Keys!GuestReads,
                  Keys!Restore, Keys!AtPoll, Keys!Stopped
    <3>2. KeysTaken' /\ KeysThere'
      BY <1>1, <2>1, <2>2, <3>1 DEF KeysTaken, KeysThere
    <3>3. FileFree'
      BY <1>1, <2>1, <3>1 DEF FileFree
    <3>4. QED  BY <2>2, <3>2, <3>3
  <2>5. CASE Keys!Consume
    <3>1. /\ native.at = "consume" /\ mailbox # Keys!Nothing /\ native.command = mailbox
          /\ mailbox \in Key /\ mailbox' = Keys!Nothing
      BY <2>1, <2>3, <2>5 DEF Keys!Consume, FileFree, KeysTaken
    <3>2. consumed' = Append(consumed, mailbox) /\ native'.at # "consume"
      BY <2>5, <3>1, KeyKinds
      DEF Keys!Consume, Keys!Press, Keys!Restore, Keys!AtPoll, Keys!Stopped
    <3>3. /\ consumed' \in Seq(Key) /\ Len(consumed') = Len(consumed) + 1
          /\ consumed'[Len(consumed) + 1] = mailbox
          /\ \A i \in 1..Len(consumed) : consumed'[i] = consumed[i]
      BY <2>3, <3>1, <3>2, KeySequences
    <3>4. KeysTaken'
      <4>1. \A i \in 1..Len(consumed') :
               \/ i \in 1..Len(consumed) /\ consumed'[i] = consumed[i]
               \/ i = Len(consumed) + 1 /\ consumed'[i] = mailbox
        BY <2>3, <3>3
      <4>2. \A i \in 1..Len(consumed') :
               /\ consumed'[i].id \in 1..LastTaken
               /\ Holds => consumed'[i].id < LastTaken
        BY <2>1, <3>1, <4>1 DEF KeysTaken
      <4>3. \A i, j \in 1..Len(consumed') : i < j => consumed'[i].id < consumed'[j].id
        BY <2>1, <2>3, <3>1, <3>3, <4>1 DEF KeysTaken
      <4>4. QED  BY <1>1, <2>1, <2>2, <3>1, <3>3, <4>2, <4>3 DEF KeysTaken
    <3>5. KeysThere'
      <4>1. accepted' = accepted  BY <1>1
      <4>2. SUFFICES ASSUME NEW n \in 1..LastTaken, accepted[n].kind # "arrow"
                     PROVE  \/ Holds /\ n = LastTaken
                            \/ \E i \in 1..Len(consumed') : consumed'[i] = accepted[n]
        BY <2>2, <4>1 DEF KeysThere
      <4>3. CASE mailbox = accepted[n]
        <5>1. Len(consumed) + 1 \in 1..Len(consumed')  BY <2>3, <3>3
        <5>2. QED  BY <3>3, <4>3, <5>1
      <4>4. CASE \E i \in 1..Len(consumed) : consumed[i] = accepted[n]
        <5>1. PICK i \in 1..Len(consumed) : consumed[i] = accepted[n]  BY <4>4
        <5>2. i \in 1..Len(consumed') /\ consumed'[i] = consumed[i]  BY <2>3, <3>3, <5>1
        <5>3. QED  BY <5>1, <5>2
      <4>5. QED  BY <2>1, <4>2, <4>3, <4>4 DEF KeysThere
    <3>6. FileFree'
      BY <1>1, <2>1, <3>1, <3>2 DEF FileFree
    <3>7. QED  BY <2>2, <3>4, <3>5, <3>6
  <2>6. QED  BY <2>4, <2>5
<1>5. QED  BY <1>1, <1>3, <1>4 DEF KeysInv, KeysOpen

LEMMA KeysStep == KeysInv /\ [Keys!Next]_(Keys!vars) => KeysInv'
<1>1. ASSUME KeysInv, UNCHANGED Keys!vars PROVE KeysInv'
  BY <1>1 DEF KeysInv, KeysOpen, KeysNumbered, KeysTaken, KeysThere, FileFree, StopAfterKeys,
              LastTaken, Holds, Keys!vars, Keys!pumpVars, Keys!nativeVars
<1>2. QED
  BY <1>1, OfferKeeps, TakeKeeps, WorkerKeeps, CloseKeeps, NativeKeeps DEF Keys!Next, Keys!Pump

LEMMA KeysInitially == MCInit => KeysInv
<1>1. ASSUME Keys!Init \/ Keys!Over PROVE KeysInv
  <2>1. /\ accepted = <<>> /\ keys = <<>> /\ consumed = <<>> /\ mailbox = Keys!Nothing
        /\ keyPump.key = Keys!Nothing /\ keyPump.expired = FALSE
        /\ native.at # "consume"
        /\ \/ keyPump.at = "poll" /\ thread = "watch"
           \/ keyPump.at = "end" /\ keysClosed
    BY <1>1 DEF Keys!Init, Keys!Over, Keys!Blank, Keys!NoKey, Keys!AtPoll, Keys!Stopped
  <2>2. keyPump \in [at : Steps, key : Command, expired : BOOLEAN]
    <3>1. Keys!NoKey \in [at : Steps, key : Command, expired : BOOLEAN]
      BY DEF Keys!NoKey, Command, Steps
    <3>2. keyPump = Keys!NoKey \/ keyPump = [Keys!NoKey EXCEPT !.at = "end"]
      BY <1>1 DEF Keys!Init, Keys!Over
    <3>3. QED  BY <3>1, <3>2 DEF Steps
  <2>3. KeysNumbered /\ LastTaken = 0
    BY <2>1 DEF KeysNumbered, LastTaken
  <2>4. KeysOpen
    BY <2>1, <2>3 DEF KeysOpen, KeysTaken, KeysThere, FileFree, Holds
  <2>5. StopAfterKeys
    BY <2>1, <2>2 DEF StopAfterKeys, Keys!Nothing, Keys!StopCommand
  <2>6. QED  BY <2>4, <2>5 DEF KeysInv
<1>2. QED  BY <1>1 DEF MCInit

LEMMA KeysSteps == MCSpec => MCInit /\ [][Keys!Next]_(Keys!vars)
<1>1. [MCNext]_MCVars => [Keys!Next]_(Keys!vars)
  BY DEF MCNext, MCVars, keyVars, Keys!vars, Keys!pumpVars, Keys!nativeVars
<1>2. QED  BY <1>1, PTL DEF MCSpec

\* Where keys are between the button and the keypad, in every state: the pump, its file,
\* the program that reads and then removes it, and its checkpoints.
THEOREM MailboxInvariant == MCSpec => []KeysInv
BY KeysInitially, KeysStep, KeysSteps, PTL

\* Concatenation, element by element.
LEMMA Joined ==
  ASSUME NEW s \in Seq(Key), NEW t \in Seq(Key)
  PROVE  /\ s \o t \in Seq(Key) /\ Len(s \o t) = Len(s) + Len(t)
         /\ \A i \in 1..Len(s) : (s \o t)[i] = s[i]
         /\ \A i \in 1..Len(t) : (s \o t)[Len(s) + i] = t[i]
         /\ \A i \in 1..Len(s \o t) :
              \/ i \in 1..Len(s)
              \/ i - Len(s) \in 1..Len(t) /\ (s \o t)[i] = t[i - Len(s)]
<1>1. Len(s) \in Nat /\ Len(t) \in Nat  BY LenProperties
<1>2. /\ s \o t \in Seq(Key) /\ Len(s \o t) = Len(s) + Len(t)
      /\ \A i \in 1 .. Len(s) + Len(t) : (s \o t)[i] =
                     IF i <= Len(s) THEN s[i] ELSE t[i - Len(s)]
  BY ConcatProperties
<1>3. ASSUME NEW i \in 1..Len(t) PROVE (s \o t)[Len(s) + i] = t[i]
  <2>1. Len(s) + i \in 1..Len(s) + Len(t) /\ ~(Len(s) + i <= Len(s)) /\ (Len(s) + i) - Len(s) = i
    BY <1>1, <1>3
  <2>2. QED  BY <1>2, <2>1
<1>4. QED  BY <1>1, <1>2, <1>3

\* s before t: both increase and every number of s is smaller than every one of t.
Increases(s) == \A i, j \in 1..Len(s) : i < j => s[i].id < s[j].id
Before(s, t) == \A i \in 1..Len(s), j \in 1..Len(t) : s[i].id < t[j].id

LEMMA JoinedIncreases ==
  ASSUME NEW s \in Seq(Key), NEW t \in Seq(Key), Increases(s), Increases(t), Before(s, t)
  PROVE  Increases(s \o t)
<1>1. Len(s) \in Nat /\ Len(t) \in Nat  BY LenProperties
<1>2. SUFFICES ASSUME NEW i \in 1..Len(s \o t), NEW j \in 1..Len(s \o t), i < j
               PROVE  (s \o t)[i].id < (s \o t)[j].id
  BY DEF Increases
<1>3. CASE i \in 1..Len(s) /\ j \in 1..Len(s)
  BY <1>2, <1>3, Joined DEF Increases
<1>4. CASE i \in 1..Len(s) /\ j \notin 1..Len(s)
  BY <1>2, <1>4, Joined DEF Before
<1>5. CASE i \notin 1..Len(s)
  BY <1>1, <1>2, <1>5, Joined DEF Increases
<1>6. QED  BY <1>3, <1>4, <1>5

\* Where the keys are makes one increasing sequence, and all but expired arrows are in it.
THEOREM MailboxKeys == MCSpec => []KeysKept
<1>1. KeysInv => KeysKept
  <2> SUFFICES ASSUME KeysInv, ~keysClosed
               PROVE  /\ Increases(Keys!OnTheWay)
                      /\ \A n \in DOMAIN accepted : accepted[n].kind # "arrow" =>
                           \E i \in 1..Len(Keys!OnTheWay) : Keys!OnTheWay[i] = accepted[n]
                      /\ DOMAIN Keys!OnTheWay = 1..Len(Keys!OnTheWay)
    BY DEF KeysKept, Keys!KeysKept, Increases, Keys!Contains
  <2>1. KeysNumbered /\ KeysTaken /\ KeysThere /\ FileFree
    BY DEF KeysInv, KeysOpen
  <2>2. /\ accepted \in Seq(Key) /\ keys \in Seq(Key) /\ Len(keys) <= Len(accepted)
        /\ Len(keys) \in Nat /\ Len(accepted) \in Nat /\ DOMAIN accepted = 1..Len(accepted)
        /\ \A i \in 1..Len(accepted) : accepted[i] \in Key /\ accepted[i].id = i
        /\ LastTaken \in 0..Len(accepted)
        /\ consumed \in Seq(Key) /\ Len(consumed) \in Nat
    BY <2>1, KeySequences, LenProperties DEF KeysNumbered, KeysTaken, LastTaken
  <2> DEFINE A == Keys!InFile
             B == Keys!Held
             C1 == consumed \o A
             C2 == C1 \o B
  <2>3. /\ A \in Seq(Key) /\ Len(A) = IF mailbox = Keys!Nothing THEN 0 ELSE 1
        /\ mailbox # Keys!Nothing => A[1] = mailbox
    <3>1. mailbox # Keys!Nothing => mailbox \in Key /\ mailbox.id # 0
      BY <2>1, <2>2 DEF KeysTaken
    <3>2. QED  BY <3>1 DEF Keys!InFile, Keys!Nothing
  <2>4. /\ B \in Seq(Key) /\ Len(B) = IF Holds THEN 1 ELSE 0
        /\ Holds => B[1] = keyPump.key
    <3>1. Holds => keyPump.key \in Key  BY <2>1, <2>2 DEF KeysTaken
    <3>2. QED  BY <3>1 DEF Keys!Held, Holds
  <2> HIDE DEF A, B
  <2>5. Keys!OnTheWay = C2 \o keys  BY DEF Keys!OnTheWay, A, B
  <2>6. ASSUME NEW i \in 1..Len(keys) PROVE keys[i].id = LastTaken + i /\ keys[i].id > LastTaken
    <3>1. LastTaken + i \in 1..Len(accepted)  BY <2>2 DEF LastTaken
    <3>2. keys[i] = accepted[LastTaken + i]  BY <2>1 DEF KeysNumbered
    <3>3. QED  BY <2>2, <3>1, <3>2
  <2>7. Increases(consumed) /\ Increases(A) /\ Increases(B) /\ Increases(keys)
    <3>1. Increases(consumed)
      BY <2>1 DEF Increases, KeysTaken
    <3>2. Increases(A) /\ Increases(B)
      BY <2>3, <2>4 DEF Increases
    <3>3. Increases(keys)
      BY <2>2, <2>6 DEF Increases
    <3>4. QED  BY <3>1, <3>2, <3>3
  <2>8. Before(consumed, A) /\ Before(consumed, B) /\ Before(A, B)
    <3>1. Before(consumed, A)
      BY <2>1, <2>3 DEF Before, KeysTaken
    <3>2. B = <<>> \/ Len(B) = 0 \/ (Len(B) = 1 /\ Holds /\ B[1].id = LastTaken)
      BY <2>1, <2>2, <2>4 DEF KeysTaken
    <3>3. Before(consumed, B)
      BY <2>1, <2>4, <3>2 DEF Before, KeysTaken
    <3>4. Before(A, B)
      BY <2>1, <2>3, <2>4, <3>2 DEF Before, KeysTaken
    <3>5. QED  BY <3>1, <3>3, <3>4
  <2>9. Before(consumed, keys) /\ Before(A, keys) /\ Before(B, keys)
    <3>1. \A i \in 1..Len(consumed) : consumed[i].id \in 1..LastTaken
      BY <2>1 DEF KeysTaken
    <3>2. \A i \in 1..Len(A) : A[i].id \in 1..LastTaken
      BY <2>1, <2>3 DEF KeysTaken
    <3>3. \A i \in 1..Len(B) : B[i].id = LastTaken
      BY <2>1, <2>2, <2>4 DEF KeysTaken
    <3>4. \A i \in 1..Len(keys) : keys[i].id \in Nat
      BY <2>2, KeySequences DEF Key
    <3>5. LastTaken \in Nat  BY <2>2
    <3>6. Before(consumed, keys)  BY <2>6, <3>1, <3>4, <3>5 DEF Before
    <3>7. Before(A, keys)  BY <2>6, <3>2, <3>4, <3>5 DEF Before
    <3>8. Before(B, keys)  BY <2>6, <3>3, <3>4, <3>5 DEF Before
    <3>9. QED  BY <3>6, <3>7, <3>8
  <2>10. C1 \in Seq(Key) /\ Increases(C1)
    BY <2>2, <2>3, <2>7, <2>8, Joined, JoinedIncreases
  <2>11. Before(C1, B) /\ Before(C1, keys)
    <3>1. \A i \in 1..Len(C1) : \/ i \in 1..Len(consumed) /\ C1[i] = consumed[i]
                                \/ i - Len(consumed) \in 1..Len(A) /\ C1[i] = A[i - Len(consumed)]
      BY <2>2, <2>3, Joined
    <3>2. QED  BY <2>8, <2>9, <3>1 DEF Before
  <2>12. C2 \in Seq(Key) /\ Increases(C2)
    BY <2>4, <2>7, <2>10, <2>11, Joined, JoinedIncreases
  <2>13. Before(C2, keys)
    <3>1. \A i \in 1..Len(C2) : \/ i \in 1..Len(C1) /\ C2[i] = C1[i]
                                \/ i - Len(C1) \in 1..Len(B) /\ C2[i] = B[i - Len(C1)]
      BY <2>4, <2>10, Joined
    <3>2. QED  BY <2>9, <2>11, <3>1 DEF Before
  <2>14. Keys!OnTheWay \in Seq(Key) /\ Increases(Keys!OnTheWay)
    BY <2>2, <2>5, <2>7, <2>12, <2>13, Joined, JoinedIncreases
  <2>15. ASSUME NEW n \in DOMAIN accepted, accepted[n].kind # "arrow"
         PROVE  \E i \in 1..Len(Keys!OnTheWay) : Keys!OnTheWay[i] = accepted[n]
    <3> DEFINE In(t) == \E i \in 1..Len(t) : t[i] = accepted[n]
    <3>1. n > LastTaken => In(keys)
      <4>1. ASSUME n > LastTaken PROVE n - LastTaken \in 1..Len(keys)
        BY <2>2, <4>1 DEF LastTaken
      <4>2. ASSUME n > LastTaken PROVE keys[n - LastTaken] = accepted[LastTaken + (n - LastTaken)]
        BY <2>1, <4>1, <4>2 DEF KeysNumbered
      <4>3. LastTaken + (n - LastTaken) = n  BY <2>2
      <4>4. QED  BY <4>1, <4>2, <4>3
    <3>2. Holds /\ n = LastTaken => In(B)
      BY <2>1, <2>4 DEF KeysTaken
    <3>3. mailbox = accepted[n] => In(A)
      BY <2>2, <2>3, KeyKinds
    <3>4. In(consumed) \/ In(A) \/ In(B) \/ In(keys)
      BY <2>1, <2>2, <2>15, <3>1, <3>2, <3>3 DEF KeysThere
    <3>5. ASSUME NEW t \in Seq(Key), NEW u \in Seq(Key), In(t) \/ In(u) PROVE In(t \o u)
      <4>1. Len(t) \in Nat /\ Len(u) \in Nat  BY LenProperties
      <4>2. CASE In(t)
        <5>1. PICK i \in 1..Len(t) : t[i] = accepted[n]  BY <4>2
        <5>2. i \in 1..Len(t \o u) /\ (t \o u)[i] = accepted[n]  BY <4>1, <5>1, Joined
        <5>3. QED  BY <5>2
      <4>3. CASE In(u)
        <5>1. PICK i \in 1..Len(u) : u[i] = accepted[n]  BY <4>3
        <5>2. Len(t) + i \in 1..Len(t \o u) /\ (t \o u)[Len(t) + i] = accepted[n]
          BY <4>1, <5>1, Joined
        <5>3. QED  BY <5>2
      <4>4. QED  BY <3>5, <4>2, <4>3
    <3> HIDE DEF In
    <3>6. In(Keys!OnTheWay)
      BY <2>2, <2>3, <2>4, <2>5, <2>10, <2>12, <3>4, <3>5
    <3>7. QED  BY <3>6 DEF In
  <2>16. QED  BY <2>14, <2>15, LenProperties
<1>2. QED  BY <1>1, MailboxInvariant, PTL

\* The stop that the session thread wrote stays in the mailbox until the program removes
\* it, or a stalled write of the pump replaces it.
THEOREM MailboxStop == MCSpec => StopKept
<1>1. KeysInv /\ [Keys!Next]_(Keys!vars) =>
        (mailbox = Keys!StopCommand /\ mailbox' # Keys!StopCommand =>
           native.at = "consume" \/ late)
  <2> SUFFICES ASSUME KeysInv, [Keys!Next]_(Keys!vars), mailbox = Keys!StopCommand,
                      mailbox' # Keys!StopCommand, ~late
               PROVE  native.at = "consume"
    OBVIOUS
  <2>1. keyPump.at = "end"  BY DEF KeysInv, StopAfterKeys
  <2>2. QED
    BY <2>1 DEF Keys!Next, Keys!vars, Keys!Offer, Keys!Stop, Keys!Pump, Keys!Take, Keys!WaitFree,
       Keys!Lock, Keys!CheckClosed, Keys!Move, Keys!End, Keys!Expire, Keys!ClosePump,
       Keys!Thread, Keys!Join, Keys!PublishStop, Keys!Ended, Keys!Destroy, Keys!Read,
       Keys!Consume, Keys!Pause, Keys!PauseOver, Keys!Limit, Keys!GuestReads
<1>2. QED  BY <1>1, MailboxInvariant, KeysSteps, PTL DEF StopKept, Keys!StopKept
=============================================================================
