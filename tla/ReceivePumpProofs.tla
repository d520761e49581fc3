------------------------- MODULE ReceivePumpProofs -------------------------
(***************************************************************************)
(* Proofs about ReceivePump for every capacity of the queue and any number *)
(* of packets: the pump implements StreamPromise, and a session that ended *)
(* without an error of the cleanup leaves no USB request outstanding.      *)
(*                                                                         *)
(* While no failure is recorded, what was received, the packet the session *)
(* polled, the queue, the packet in the hands of the worker and the one    *)
(* that waits in the USB request are, one after the other, the packets     *)
(* 1..sent.  Only the cancelled request of a worker that ends is lost; by  *)
(* then nothing follows it.                                                *)
(***************************************************************************)
EXTENDS ReceivePump, TLAPS

TypeOK ==
  /\ request \in {"idle", "queued", "filled"}
  /\ sent \in Nat /\ held \in Nat /\ polled \in Nat
  /\ packets \in Seq(Nat) /\ received \in Seq(Nat)
  /\ stopping \in BOOLEAN /\ told \in BOOLEAN /\ cleanup \in BOOLEAN

\* A sequence holds the packets that follow the first n.
Follows(s, n) == \A i \in 1..Len(s) : s[i] = n + i

Polled == IF polled = None THEN 0 ELSE 1
Held == IF held = None THEN 0 ELSE 1
InRequest == IF request = "filled" THEN 1 ELSE 0
Behind == Len(received) + Polled + Len(packets)

Ordered == Follows(received, 0) /\ Len(received) <= sent

Intact ==
  health = "none" =>
    /\ polled # None => polled = Len(received) + 1
    /\ Follows(packets, Len(received) + Polled)
    /\ held # None => held = Behind + 1
    /\ pump = "offer" => held # None
    /\ Behind + Held + InRequest <= sent
    /\ pump # "dead" => Behind + Held + InRequest = sent

\* Where the threads are.
Steps ==
  /\ held # None => pump = "offer"
  /\ polled # None => session = "polled"
  /\ told => health # "none"

\* A worker that is gone has cancelled its request or says that it could not.
Cancelled ==
  /\ pump = "dead" /\ ~cleanup => request = "idle"
  /\ session = "done" => pump = "dead"

\* The inductive invariant.
IInv == TypeOK /\ Ordered /\ Intact /\ Steps /\ Cancelled
-----------------------------------------------------------------------------
\* Appending to a sequence of naturals, and taking its head away, element by element.
LEMMA AppendPoints ==
  ASSUME NEW s \in Seq(Nat), NEW x \in Nat
  PROVE  /\ Append(s, x) \in Seq(Nat)
         /\ Len(Append(s, x)) = Len(s) + 1
         /\ Append(s, x)[Len(s) + 1] = x
         /\ \A i \in 1..Len(s) : Append(s, x)[i] = s[i]
OBVIOUS

LEMMA TailPoints ==
  ASSUME NEW s \in Seq(Nat), s # <<>>
  PROVE  /\ Tail(s) \in Seq(Nat) /\ Head(s) \in Nat
         /\ Len(s) \in Nat \ {0} /\ Len(Tail(s)) = Len(s) - 1
         /\ Head(s) = s[1]
         /\ \A i \in 1..Len(Tail(s)) : Tail(s)[i] = s[i + 1]
OBVIOUS

LEMMA EmptyPoints == <<>> \in Seq(Nat) /\ Len(<<>>) = 0
OBVIOUS

\* The next packet goes to the end of the packets that follow the first n.
LEMMA AppendFollows ==
  ASSUME NEW s \in Seq(Nat), NEW n \in Nat, NEW x \in Nat, Follows(s, n), x = n + Len(s) + 1
  PROVE  Follows(Append(s, x), n)
<1> SUFFICES ASSUME NEW i \in 1..Len(Append(s, x)) PROVE Append(s, x)[i] = n + i
  BY DEF Follows
<1>0. Len(s) \in Nat
  OBVIOUS
<1>1. CASE i \in 1..Len(s)
  BY <1>1, AppendPoints DEF Follows
<1>2. CASE i = Len(s) + 1
  BY <1>0, <1>2, AppendPoints
<1>3. QED  BY <1>0, <1>1, <1>2, AppendPoints

\* What is left of them when the first is taken.
LEMMA TailFollows ==
  ASSUME NEW s \in Seq(Nat), NEW n \in Nat, Follows(s, n), s # <<>>
  PROVE  Head(s) = n + 1 /\ Follows(Tail(s), n + 1)
<1>0. Len(s) \in Nat \ {0}
  BY TailPoints
<1>1. Head(s) = n + 1
  <2>1. 1 \in 1..Len(s)
    BY <1>0
  <2>2. QED  BY <2>1, TailPoints DEF Follows
<1>2. Follows(Tail(s), n + 1)
  <2> SUFFICES ASSUME NEW i \in 1..Len(Tail(s)) PROVE Tail(s)[i] = (n + 1) + i
    BY DEF Follows
  <2>1. i + 1 \in 1..Len(s)
    BY <1>0, TailPoints
  <2>2. s[i + 1] = n + (i + 1)
    BY <2>1 DEF Follows
  <2>3. Tail(s)[i] = s[i + 1]
    BY TailPoints
  <2>4. QED  BY <2>2, <2>3
<1>3. QED  BY <1>1, <1>2
-----------------------------------------------------------------------------
(***************************************************************************)
(* The invariant.                                                          *)
(***************************************************************************)
LEMMA Lengths ==
  ASSUME TypeOK
  PROVE  /\ Len(received) \in Nat /\ Len(packets) \in Nat
         /\ Polled \in {0, 1} /\ Held \in {0, 1} /\ InRequest \in {0, 1} /\ Behind \in Nat
BY DEF TypeOK, Polled, Held, InRequest, Behind

LEMMA IInvInit == Init => IInv
<1> SUFFICES ASSUME Init PROVE IInv
  OBVIOUS
<1>1. TypeOK /\ Steps /\ Cancelled
  BY EmptyPoints DEF Init, TypeOK, Steps, Cancelled, None
<1>2. Polled = 0 /\ Held = 0 /\ InRequest = 0 /\ Behind = 0
  BY EmptyPoints DEF Init, Polled, Held, InRequest, Behind
<1>3. Ordered
  BY EmptyPoints DEF Init, Ordered, Follows
<1>4. Intact
  BY <1>2, EmptyPoints DEF Init, Intact, Follows
<1>5. QED  BY <1>1, <1>3, <1>4 DEF IInv

LEMMA FillStep == IInv /\ Fill => IInv'
<1> SUFFICES ASSUME IInv, Fill PROVE IInv'
  OBVIOUS
<1>1. /\ request = "queued" /\ request' = "filled" /\ sent' = sent + 1 /\ sent \in Nat
      /\ UNCHANGED <<pump, held, packets, health, cleanup, session, polled, received, told, stopping>>
  BY DEF Fill, sessionVars, IInv, TypeOK
<1>2. TypeOK' /\ Steps' /\ Cancelled'
  BY <1>1 DEF IInv, TypeOK, Steps, Cancelled
<1>3. Len(received) \in Nat /\ Held \in Nat /\ Behind \in Nat
  BY Lengths DEF IInv
<1>4. Ordered'
  BY <1>1, <1>3 DEF IInv, Ordered, Follows
<1>5. Behind' = Behind /\ Held' = Held /\ Polled' = Polled /\ InRequest = 0 /\ InRequest' = 1
  BY <1>1 DEF Behind, Held, Polled, InRequest
<1>6. Intact'
  BY <1>1, <1>3, <1>5 DEF IInv, Intact, Follows
<1>7. QED  BY <1>2, <1>4, <1>6 DEF IInv

LEMMA WorkerStep == IInv /\ Worker => IInv'
<1> SUFFICES ASSUME IInv, Worker PROVE IInv'
  OBVIOUS
<1> USE DEF PumpGoes, sessionVars
<1>0. /\ Len(received) \in Nat /\ Len(packets) \in Nat
      /\ Polled \in {0, 1} /\ Held \in {0, 1} /\ InRequest \in {0, 1} /\ Behind \in Nat
      /\ sent \in Nat /\ packets \in Seq(Nat) /\ held \in Nat
  BY Lengths DEF IInv, TypeOK
<1>1. CASE CheckStopping \/ Submit \/ WaitTimeout
  <2>1. /\ pump \in {"loop", "submit", "wait"} /\ pump' \in {"finally", "submit", "wait", "loop"}
        /\ request' \in {"idle", "queued", "filled"}
        /\ request' = "filled" <=> request = "filled"
        /\ UNCHANGED <<sent, held, packets, health, cleanup, session, polled, received, told, stopping>>
    BY <1>1 DEF CheckStopping, Submit, WaitTimeout, IInv, TypeOK
  <2>2. TypeOK' /\ Ordered' /\ Steps' /\ Cancelled'
    BY <2>1 DEF IInv, TypeOK, Ordered, Steps, Cancelled, Follows
  <2>3. Behind' = Behind /\ Held' = Held /\ Polled' = Polled /\ InRequest' = InRequest
    BY <2>1 DEF Behind, Held, Polled, InRequest
  <2>4. Intact'
    BY <2>1, <2>3 DEF IInv, Intact, Follows
  <2>5. QED  BY <2>2, <2>4 DEF IInv
<1>2. CASE WaitDone
  <2>1. /\ pump = "wait" /\ pump' = "offer" /\ request = "filled" /\ request' = "idle"
        /\ held' = sent
        /\ UNCHANGED <<sent, packets, health, cleanup, session, polled, received, told, stopping>>
    BY <1>2 DEF WaitDone
  <2>2. TypeOK' /\ Ordered' /\ Steps' /\ Cancelled'
    BY <2>1 DEF IInv, TypeOK, Ordered, Steps, Cancelled, Follows
  <2>3. /\ Behind' = Behind /\ Polled' = Polled /\ Held = 0 /\ InRequest = 1 /\ InRequest' = 0
    BY <2>1 DEF Behind, Polled, Held, InRequest, IInv, Steps
  <2>4. Intact'
    <3> SUFFICES ASSUME health' = "none" PROVE Intact'
      BY DEF Intact
    <3>1. Behind + 1 = sent
      BY <1>0, <2>1, <2>3 DEF IInv, Intact
    <3>2. Held' = 1
      BY <1>0, <2>1, <3>1 DEF Held, None
    <3>3. (/\ polled # None => polled = Len(received) + 1
           /\ Follows(packets, Len(received) + Polled))'
      BY <2>1, <2>3 DEF IInv, Intact, Follows
    <3>4. held' # None /\ held' = Behind' + 1 /\ Behind' + Held' + InRequest' = sent'
      BY <1>0, <2>1, <2>3, <3>1, <3>2 DEF Held
    <3>5. QED  BY <1>0, <2>1, <3>3, <3>4 DEF Intact
  <2>5. QED  BY <2>2, <2>4 DEF IInv
<1>3. CASE ReadFails
  <2>1. health' # "none" /\ pump' = "finally" /\ pump \in {"submit", "wait"}
        /\ UNCHANGED <<request, sent, held, packets, cleanup, session, polled, received, told, stopping>>
    BY <1>3 DEF ReadFails
  <2>2. QED
    BY <2>1 DEF IInv, TypeOK, Ordered, Intact, Steps, Cancelled, Follows
<1>4. CASE Offer
  <2>1. /\ pump = "offer" /\ held' = None /\ pump' \in {"loop", "finally"}
        /\ UNCHANGED <<request, sent, cleanup, session, polled, received, told, stopping>>
    BY <1>4 DEF Offer
  <2>2. CASE packets' = Append(packets, held) /\ UNCHANGED health
    <3>1. packets' \in Seq(Nat) /\ Len(packets') = Len(packets) + 1
      BY <1>0, <2>2, AppendPoints
    <3>2. TypeOK' /\ Ordered' /\ Steps' /\ Cancelled'
      BY <2>1, <2>2, <3>1 DEF IInv, TypeOK, Ordered, Steps, Cancelled, Follows, None
    <3>3. Intact'
      <4> SUFFICES ASSUME health' = "none" PROVE Intact'
        BY DEF Intact
      <4>1. CASE held = None
        BY <2>1, <2>2, <4>1 DEF IInv, Intact
      <4>2. CASE held # None
        <5>1. held = Behind + 1 /\ Held = 1 /\ Held' = 0 /\ Polled' = Polled /\ InRequest' = InRequest
          BY <2>1, <2>2, <4>2 DEF IInv, Intact, Held, Polled, InRequest
        <5>2. Behind' = Behind + 1
          BY <1>0, <2>1, <3>1, <5>1 DEF Behind
        <5>3. held = (Len(received) + Polled) + Len(packets) + 1
          BY <5>1 DEF Behind
        <5>4. Follows(packets', Len(received) + Polled)
          BY <1>0, <2>2, <5>3, AppendFollows DEF IInv, Intact
        <5>5. QED  BY <1>0, <2>1, <2>2, <5>1, <5>2, <5>4 DEF IInv, Intact
      <4>3. QED  BY <4>1, <4>2
    <3>4. QED  BY <3>2, <3>3 DEF IInv
  <2>3. CASE health' = "overflow" /\ UNCHANGED packets
    BY <2>1, <2>3 DEF IInv, TypeOK, Ordered, Intact, Steps, Cancelled, Follows, None
  <2>4. QED  BY <1>4, <2>2, <2>3 DEF Offer
<1>5. CASE StopSource
  <2>1. /\ pump = "finally" /\ pump' = "dead"
        /\ UNCHANGED <<sent, held, packets, session, polled, received, told, stopping>>
    BY <1>5 DEF StopSource
  <2>2. CASE request' = "idle" /\ UNCHANGED <<health, cleanup>>
    <3>1. TypeOK' /\ Ordered' /\ Steps' /\ Cancelled'
      BY <2>1, <2>2 DEF IInv, TypeOK, Ordered, Steps, Cancelled, Follows
    <3>2. Behind' = Behind /\ Held' = Held /\ Polled' = Polled /\ InRequest' = 0
      BY <2>1, <2>2 DEF Behind, Held, Polled, InRequest
    <3>3. Intact'
      BY <1>0, <2>1, <2>2, <3>2 DEF IInv, Intact, Follows
    <3>4. QED  BY <3>1, <3>3 DEF IInv
  <2>3. CASE cleanup' = TRUE /\ UNCHANGED request
             /\ health' = IF health = "none" THEN "cancel" ELSE health
    BY <2>1, <2>3 DEF IInv, TypeOK, Ordered, Intact, Steps, Cancelled, Follows
  <2>4. QED  BY <1>5, <2>2, <2>3 DEF StopSource
<1>6. QED  BY <1>1, <1>2, <1>3, <1>4, <1>5 DEF Worker

LEMMA SessionStep == IInv /\ (Serve \/ Quit) => IInv'
<1> SUFFICES ASSUME IInv, Serve \/ Quit PROVE IInv'
  OBVIOUS
<1> USE DEF pumpVars
<1>0. /\ Len(received) \in Nat /\ Len(packets) \in Nat
      /\ Polled \in {0, 1} /\ Held \in {0, 1} /\ InRequest \in {0, 1} /\ Behind \in Nat
      /\ sent \in Nat /\ packets \in Seq(Nat) /\ received \in Seq(Nat) /\ polled \in Nat
  BY Lengths DEF IInv, TypeOK
<1>1. CASE Poll \/ Quit \/ Stop \/ Joined
  <2>1. /\ session # "polled" /\ stopping' \in BOOLEAN /\ told' \in BOOLEAN
        /\ told' => told \/ health # "none"
        /\ session' = "done" => pump = "dead"
        /\ UNCHANGED <<polled, received, request, sent, pump, held, packets, health, cleanup>>
    <3>1. told \in BOOLEAN /\ stopping \in BOOLEAN
      BY DEF IInv, TypeOK
    <3>2. CASE Poll
      BY <3>1, <3>2 DEF Poll, Check
    <3>3. CASE Quit
      BY <3>1, <3>3 DEF Quit
    <3>4. CASE Stop
      BY <3>1, <3>4 DEF Stop
    <3>5. CASE Joined
      BY <3>1, <3>5 DEF Joined
    <3>6. QED  BY <1>1, <3>2, <3>3, <3>4, <3>5
  <2>2. TypeOK' /\ Ordered' /\ Steps' /\ Cancelled'
    BY <2>1 DEF IInv, TypeOK, Ordered, Steps, Cancelled, Follows
  <2>3. Behind' = Behind /\ Held' = Held /\ Polled' = Polled /\ InRequest' = InRequest
    BY <2>1 DEF Behind, Held, Polled, InRequest
  <2>4. Intact'
    BY <2>1, <2>3 DEF IInv, Intact, Follows
  <2>5. QED  BY <2>2, <2>4 DEF IInv
<1>2. CASE Take
  <2>1. /\ session = "poll" /\ session' = "polled" /\ polled = None
        /\ UNCHANGED <<received, told, stopping, request, sent, pump, held, health, cleanup>>
    BY <1>2 DEF Take, IInv, Steps
  <2>2. CASE packets # <<>> /\ polled' = Head(packets) /\ packets' = Tail(packets)
    <3>1. /\ Tail(packets) \in Seq(Nat) /\ Head(packets) \in Nat
          /\ Len(packets') = Len(packets) - 1
      BY <1>0, <2>2, TailPoints
    <3>2. TypeOK' /\ Ordered' /\ Steps' /\ Cancelled'
      BY <2>1, <2>2, <3>1 DEF IInv, TypeOK, Ordered, Steps, Cancelled, Follows
    <3>3. Intact'
      <4> SUFFICES ASSUME health' = "none" PROVE Intact'
        BY DEF Intact
      <4>1. Follows(packets, Len(received)) /\ Polled = 0
        BY <1>0, <2>1 DEF IInv, Intact, Polled
      <4>2. polled' = Len(received) + 1 /\ Follows(packets', Len(received) + 1)
        BY <1>0, <2>2, <4>1, TailFollows
      <4>3. Polled' = 1
        BY <1>0, <4>2 DEF Polled, None
      <4>4. Behind' = Behind /\ Held' = Held /\ InRequest' = InRequest
        BY <1>0, <2>1, <3>1, <4>1, <4>3 DEF Behind, Held, InRequest
      <4>5. QED  BY <2>1, <4>2, <4>3, <4>4 DEF IInv, Intact
    <3>4. QED  BY <3>2, <3>3 DEF IInv
  <2>3. CASE polled' = None /\ UNCHANGED packets
    <3>1. TypeOK' /\ Ordered' /\ Steps' /\ Cancelled'
      BY <2>1, <2>3 DEF IInv, TypeOK, Ordered, Steps, Cancelled, Follows, None
    <3>2. Behind' = Behind /\ Held' = Held /\ Polled' = Polled /\ InRequest' = InRequest
      BY <2>1, <2>3 DEF Behind, Held, Polled, InRequest
    <3>3. Intact'
      BY <2>1, <2>3, <3>2 DEF IInv, Intact, Follows
    <3>4. QED  BY <3>1, <3>3 DEF IInv
  <2>4. QED  BY <1>2, <2>2, <2>3 DEF Take
<1>3. CASE HandOn
  <2>1. /\ session = "polled" /\ session' \in {"serve", "stop"} /\ polled' = None
        /\ told' \in BOOLEAN /\ (told' => told \/ health # "none")
        /\ UNCHANGED <<stopping, request, sent, pump, held, packets, health, cleanup>>
    BY <1>3 DEF HandOn, Check, IInv, TypeOK
  <2>2. CASE health = "none" /\ polled # None
    <3>1. received' = Append(received, polled)
      BY <1>3, <2>2 DEF HandOn
    <3>2. received' \in Seq(Nat) /\ Len(received') = Len(received) + 1
      BY <1>0, <3>1, AppendPoints
    <3>3. polled = Len(received) + 1 /\ Follows(received, 0) /\ Polled = 1 /\ Polled' = 0
      BY <2>1, <2>2 DEF IInv, Intact, Ordered, Polled
    <3>4. Follows(received', 0)
      BY <1>0, <3>1, <3>3, AppendFollows
    <3>5. Behind' = Behind /\ Held' = Held /\ InRequest' = InRequest
      BY <1>0, <2>1, <3>2, <3>3 DEF Behind, Held, InRequest
    <3>6. Intact'
      BY <1>0, <2>1, <2>2, <3>2, <3>3, <3>5 DEF IInv, Intact, Follows
    <3>7. Len(received') <= sent
      <4>1. Behind + Held + InRequest <= sent
        BY <2>2 DEF IInv, Intact
      <4>2. QED  BY <1>0, <3>2, <3>3, <4>1 DEF Behind
    <3>8. TypeOK' /\ Ordered' /\ Steps' /\ Cancelled'
      BY <2>1, <3>2, <3>4, <3>7 DEF IInv, TypeOK, Ordered, Steps, Cancelled, None
    <3>9. QED  BY <3>6, <3>8 DEF IInv
  <2>3. CASE ~(health = "none" /\ polled # None)
    <3>1. received' = received
      BY <1>3, <2>3 DEF HandOn
    <3>2. TypeOK' /\ Ordered' /\ Steps' /\ Cancelled'
      BY <2>1, <3>1 DEF IInv, TypeOK, Ordered, Steps, Cancelled, Follows, None
    <3>3. Intact'
      <4> SUFFICES ASSUME health' = "none" PROVE Intact'
        BY DEF Intact
      <4>1. UNCHANGED polled
        BY <2>1, <2>3
      <4>2. Behind' = Behind /\ Held' = Held /\ Polled' = Polled /\ InRequest' = InRequest
        BY <2>1, <3>1, <4>1 DEF Behind, Held, Polled, InRequest
      <4>3. QED  BY <2>1, <3>1, <4>1, <4>2 DEF IInv, Intact, Follows
    <3>4. QED  BY <3>2, <3>3 DEF IInv
  <2>4. QED  BY <2>2, <2>3
<1>4. QED  BY <1>1, <1>2, <1>3 DEF Serve

\* Every step of the pump keeps the invariant.
LEMMA InvariantStep == IInv /\ [Next]_vars => IInv'
<1>1. IInv /\ UNCHANGED vars => IInv'
  <2> SUFFICES ASSUME IInv, UNCHANGED vars PROVE IInv'
    OBVIOUS
  <2> USE DEF vars, pumpVars, sessionVars
  <2>1. TypeOK' /\ Ordered' /\ Steps' /\ Cancelled'
    BY DEF IInv, TypeOK, Ordered, Steps, Cancelled, Follows
  <2>2. Behind' = Behind /\ Held' = Held /\ Polled' = Polled /\ InRequest' = InRequest
    BY DEF Behind, Held, Polled, InRequest
  <2>3. Intact'
    BY <2>2 DEF IInv, Intact, Follows
  <2>4. QED  BY <2>1, <2>3 DEF IInv
<1>2. QED  BY <1>1, FillStep, WorkerStep, SessionStep DEF Next

\* The invariant holds in every state of the pump.
THEOREM ReceivePumpInvariant == Spec => []IInv
BY IInvInit, InvariantStep, PTL DEF Spec

\* A session that has ended without an error of the cleanup has no USB request
\* outstanding, wherever the worker was when it was stopped or failed.
THEOREM ReceivePumpReleased == Spec => []NothingOutstanding
<1>1. IInv => NothingOutstanding
  BY DEF IInv, Cancelled, NothingOutstanding
<1>2. QED  BY <1>1, ReceivePumpInvariant, PTL
-----------------------------------------------------------------------------
(***************************************************************************)
(* The refinement.  A packet of the device arrives, the one that is handed *)
(* on is delivered, a check that finds a failure ends the stream.          *)
(***************************************************************************)
LEMMA PacketDelivered ==
  ASSUME IInv, HandOn, health = "none", polled # None
  PROVE  Len(received) + 1 \in Len(received)..sent /\ Promise!Deliver(Len(received) + 1)
<1> DEFINE n == Len(received) + 1
<1>1. received' = Append(received, polled) /\ sent' = sent /\ told' = told /\ ~told
  BY DEF HandOn, Check, pumpVars, IInv, Steps
<1>2. IInv'
  BY SessionStep DEF Serve
<1>3. received' \in Seq(Nat) /\ Len(received') = n /\ Len(received) \in Nat /\ sent \in Nat
  BY <1>1, AppendPoints DEF IInv, TypeOK
<1>4. Follows(received', 0) /\ Len(received') <= sent
  BY <1>1, <1>2 DEF IInv, Ordered
<1>5. received' = [i \in 1..n |-> i]
  <2>1. \A i \in 1..n : received'[i] = i
    BY <1>3, <1>4 DEF Follows
  <2>2. DOMAIN received' = 1..n /\ received' = [i \in DOMAIN received' |-> received'[i]]
    BY <1>3
  <2>3. QED  BY <2>1, <2>2
<1>6. n \in Len(received)..sent
  BY <1>3, <1>4
<1>7. QED  BY <1>1, <1>5, <1>6 DEF Promise!Deliver

\* Every step of the pump is a step of the promise or changes nothing it speaks of.
LEMMA StepKept == IInv /\ [Next]_vars => [Promise!Next]_(Promise!vars)
<1> SUFFICES ASSUME IInv, [Next]_vars PROVE [Promise!Next]_(Promise!vars)
  OBVIOUS
<1> USE DEF pumpVars, sessionVars
<1>1. CASE UNCHANGED vars
  BY <1>1 DEF vars, Promise!vars
<1>2. CASE Fill
  BY <1>2 DEF Fill, Promise!Next, Promise!Arrive
<1>3. CASE Worker
  BY <1>3 DEF Worker, CheckStopping, Submit, WaitTimeout, WaitDone, ReadFails, Offer, StopSource,
              Promise!vars
<1>4. CASE Take \/ Quit \/ Stop \/ Joined
  BY <1>4 DEF Take, Quit, Stop, Joined, Promise!vars
<1>5. CASE Poll
  <2>1. CASE health = "none"
    BY <1>5, <2>1 DEF Poll, Check, Promise!vars
  <2>2. CASE health # "none"
    BY <1>5, <2>2 DEF Poll, Check, Promise!Next, Promise!End
  <2>3. QED  BY <2>1, <2>2
<1>6. CASE HandOn
  <2>1. CASE health = "none" /\ polled # None
    <3>1. \E n \in Len(received)..sent : Promise!Deliver(n)
      BY <1>6, <2>1, PacketDelivered
    <3>2. QED  BY <3>1 DEF Promise!Next
  <2>2. CASE health = "none" /\ polled = None
    BY <1>6, <2>2 DEF HandOn, Check, Promise!vars
  <2>3. CASE health # "none"
    BY <1>6, <2>3 DEF HandOn, Check, Promise!Next, Promise!End
  <2>4. QED  BY <2>1, <2>2, <2>3
<1>7. QED  BY <1>1, <1>2, <1>3, <1>4, <1>5, <1>6 DEF Next, Serve

\* The receive pump implements the promise of a gapless stream.
THEOREM ReceivePumpKeepsPromise == Spec => PumpKept
<1>1. Init => Promise!Init
  BY DEF Init, Promise!Init
<1>2. Spec => [][Promise!Next]_(Promise!vars)
  BY ReceivePumpInvariant, StepKept, PTL DEF Spec
<1>3. QED  BY <1>1, <1>2, PTL DEF Spec, PumpKept, Promise!Spec
=============================================================================
