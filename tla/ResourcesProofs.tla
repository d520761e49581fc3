-------------------------- MODULE ResourcesProofs --------------------------
(***************************************************************************)
(* Proofs about what MCResources puts side by side: the memory of the      *)
(* kernel, the channels, frames and requests of the VCX Nano, the texts of *)
(* the configuration, and the J2534 bridge with the MDI server, which      *)
(* implements CanPromise.                                                  *)
(***************************************************************************)
EXTENDS MCResources, SequenceTheorems, TLAPS
-----------------------------------------------------------------------------
(***************************************************************************)
(* The memory of the kernel: what PsosRegionsProofs proves holds of the    *)
(* memory of MCResources.                                                  *)
(***************************************************************************)
Memory == INSTANCE PsosRegionsProofs

LEMMA MemoryAssumed == Memory!RegionsAssumption
BY AreasAssumption DEF Memory!RegionsAssumption, Regions!RegionsAssumption, Memory!Cells,
  Regions!Cells

\* The operators of the two are the same.
LEMMA MemoryOperators ==
  /\ \A s : Memory!Cells(s) = Regions!Cells(s)
  /\ \A f, x : Memory!Without(f, x) = Regions!Without(f, x)
  /\ \A f, x, v : Memory!With(f, x, v) = Regions!With(f, x, v)
  /\ \A r, free, used : Memory!Cut(r, free, used) = Regions!Cut(r, free, used)
  /\ \A a : Memory!NewRegion(a) = Regions!NewRegion(a)
  /\ \A r, bytes : Memory!Available(r, bytes) <=> Regions!Available(r, bytes)
  /\ \A r, bytes : Memory!Segment(r, bytes) = Regions!Segment(r, bytes)
  /\ \A r, bytes : Memory!Allocate(r, bytes) = Regions!Allocate(r, bytes)
  /\ \A r, bytes : Memory!Possible(r, bytes) <=> Regions!Possible(r, bytes)
  /\ \A r, bytes : Memory!Taken(r, bytes) = Regions!Taken(r, bytes)
<1>1. \A s : Memory!Cells(s) = Regions!Cells(s)
  BY DEF Memory!Cells, Regions!Cells
<1>2. \A f, x : Memory!Without(f, x) = Regions!Without(f, x)
  BY DEF Memory!Without, Regions!Without
<1>3. \A f, x, v : Memory!With(f, x, v) = Regions!With(f, x, v)
  BY DEF Memory!With, Regions!With
<1>4. \A r, free, used : Memory!Cut(r, free, used) = Regions!Cut(r, free, used)
  BY DEF Memory!Cut, Regions!Cut
<1>5. \A a : Memory!NewRegion(a) = Regions!NewRegion(a)
  BY <1>3 DEF Memory!NewRegion, Regions!NewRegion, Memory!NoSegments, Regions!NoSegments
<1>6. \A r, bytes : Memory!Rounded(r, bytes) = Regions!Rounded(r, bytes)
  BY DEF Memory!Rounded, Regions!Rounded
<1>7. \A r, bytes : Memory!Fits(r, bytes) = Regions!Fits(r, bytes)
  BY <1>6 DEF Memory!Fits, Regions!Fits
<1>8. \A S : Memory!Min(S) = Regions!Min(S)
  BY DEF Memory!Min, Regions!Min
<1>9. \A r, bytes : Memory!Available(r, bytes) <=> Regions!Available(r, bytes)
  BY <1>7 DEF Memory!Available, Regions!Available
<1>10. \A r, bytes : Memory!Segment(r, bytes) = Regions!Segment(r, bytes)
  BY <1>6, <1>7, <1>8 DEF Memory!Segment, Regions!Segment
<1>11. \A r, bytes : Memory!Allocate(r, bytes) = Regions!Allocate(r, bytes)
  BY <1>2, <1>3, <1>4, <1>10 DEF Memory!Allocate, Regions!Allocate
<1>12. \A r, bytes : Memory!Possible(r, bytes) <=> Regions!Possible(r, bytes)
  BY <1>9 DEF Memory!Possible, Regions!Possible
<1>13. \A r, bytes : Memory!Taken(r, bytes) = Regions!Taken(r, bytes)
  BY <1>11 DEF Memory!Taken, Regions!Taken
<1>14. QED
  BY <1>1, <1>2, <1>3, <1>4, <1>5, <1>9, <1>10, <1>11, <1>12, <1>13

LEMMA MemorySame ==
  /\ Regions!Init => Memory!Init
  /\ Regions!Next => Memory!Next
<1>1. Regions!Init => Memory!Init
  BY MemoryOperators DEF Regions!Init, Memory!Init
<1>2. \A a \in Areas : Regions!CreateRegion(a) => Memory!CreateRegion(a)
  <2>1. \A S : Memory!Cardinality(S) = Regions!Cardinality(S)
    BY DEF Memory!Cardinality, Regions!Cardinality
  <2>2. QED  BY <2>1, MemoryOperators DEF Regions!CreateRegion, Memory!CreateRegion
<1>3. \A n : Regions!DeleteRegion(n) => Memory!DeleteRegion(n)
  BY MemoryOperators DEF Regions!DeleteRegion, Memory!DeleteRegion
<1>4. \A n, bytes : Regions!GetSegment(n, bytes) => Memory!GetSegment(n, bytes)
  BY MemoryOperators DEF Regions!GetSegment, Memory!GetSegment
<1>5. \A n, base : Regions!MayReturn(n, base) /\ Regions!ReturnSegment(n, base)
                     => Memory!MayReturn(n, base) /\ Memory!ReturnSegment(n, base)
  BY MemoryOperators DEF Regions!MayReturn, Memory!MayReturn, Regions!ReturnSegment,
     Memory!ReturnSegment
<1>6. \A user, super : Regions!CreateTask(user, super) => Memory!CreateTask(user, super)
  <2> SUFFICES ASSUME NEW user, NEW super, Regions!CreateTask(user, super)
               PROVE  Memory!CreateTask(user, super)
    OBVIOUS
  <2> DEFINE heap == regions[0]
             first == Regions!Possible(heap, user)
             heap1 == IF first THEN Regions!Taken(heap, user) ELSE heap
             second == Regions!Possible(heap1, super)
             heap2 == IF second THEN Regions!Taken(heap1, super) ELSE heap1
  <2>1. /\ 0 \in DOMAIN regions /\ nextTask <= MaxTask
        /\ nextTask' = nextTask + 1
        /\ regions' = [regions EXCEPT ![0] = heap2]
        /\ stacks' = IF first /\ second
                     THEN stacks \cup {[base |-> b, size |-> heap2.used[b]] :
                                         b \in DOMAIN heap2.used \ DOMAIN heap.used}
                     ELSE stacks
        /\ UNCHANGED <<fresh, held>>
    BY DEF Regions!CreateTask
  <2>2. /\ first <=> Memory!Possible(heap, user)
        /\ heap1 = IF first THEN Memory!Taken(heap, user) ELSE heap
    BY MemoryOperators
  <2> HIDE DEF first, heap1
  <2>3. /\ second <=> Memory!Possible(heap1, super)
        /\ heap2 = IF second THEN Memory!Taken(heap1, super) ELSE heap1
    BY MemoryOperators
  <2> HIDE DEF second, heap2
  <2>4. QED  BY <2>1, <2>2, <2>3 DEF Memory!CreateTask
<1>7. QED
  BY <1>1, <1>2, <1>3, <1>4, <1>5, <1>6, MemoryOperators DEF Regions!Next, Memory!Next

LEMMA MemorySpec == MCSpec => Memory!Spec
<1>1. MCInit => Memory!Init
  BY MemorySame DEF MCInit
<1>2. [MCNext]_<<part, regionVars, configVars, nanoVars, mdiVars>> => [Memory!Next]_(Memory!vars)
  BY MemorySame DEF MCNext, regionVars, Memory!vars
<1>3. QED  BY <1>1, <1>2, PTL DEF MCSpec, Memory!Spec

\* The segments of every region cover it, every cell once.
THEOREM MemoryTiled == MCSpec => []RegionsTiled
<1>1. Memory!Spec => []Memory!RegionsTiled
  BY Memory!RegionsStayTiled, MemoryAssumed
<1>2. Memory!RegionsTiled => RegionsTiled
  BY DEF Memory!RegionsTiled, RegionsTiled, Regions!RegionsTiled, Memory!Segments,
         Regions!Segments, Memory!Cells, Regions!Cells
<1>3. QED  BY <1>1, <1>2, MemorySpec, PTL

\* The stack of a task stays its own, and region 0 is there.
THEOREM MemoryStacks == MCSpec => []StacksOwned
<1>1. Memory!Spec => []Memory!StacksOwned
  BY Memory!RegionsStacksOwned, MemoryAssumed
<1>2. Memory!StacksOwned => StacksOwned
  BY DEF Memory!StacksOwned, StacksOwned, Regions!StacksOwned, Memory!Cells, Regions!Cells
<1>3. QED  BY <1>1, <1>2, MemorySpec, PTL

-----------------------------------------------------------------------------
(***************************************************************************)
(* The steps of the worker of the Nano, and those at which it works.       *)
(***************************************************************************)
Steps == {"setup", "loop", "turn", "write", "finish", "receive", "cleanup", "ending", "end"}
Working == worker.at \notin {"cleanup", "ending", "end"}
-----------------------------------------------------------------------------
(***************************************************************************)
(* The channels of the Nano.                                               *)
(***************************************************************************)
\* A channel is marked before it is set up and until it is shut down; the worker leaves
\* its cleanup when none is marked.
ChannelsInv ==
  /\ worker \in [at : Steps, left : Int]
  /\ allocated \subseteq opened \/ unacknowledged
  /\ worker.at \in {"ending", "end"} => opened = {}

LEMMA NanoSteps == MCSpec => MCInit /\ [][Nano!Next]_(Nano!vars)
<1>1. [MCNext]_<<part, regionVars, configVars, nanoVars, mdiVars>> => [Nano!Next]_(Nano!vars)
  BY DEF MCNext, nanoVars, Nano!vars, Nano!emulator, Nano!adapter
<1>2. QED  BY <1>1, PTL DEF MCSpec

LEMMA ChannelsInit == MCInit => ChannelsInv
<1>1. MCInit => Nano!Init \/ Nano!Over
  BY DEF MCInit
<1>2. Turn \in Int
  BY NanoAssumption DEF Nano!SessionAssumption
<1>3. QED
  BY <1>1, <1>2 DEF Nano!Init, Nano!Over, Nano!Blank, Nano!At, ChannelsInv, Steps

LEMMA ChannelsStep == ChannelsInv /\ [Nano!Next]_(Nano!vars) => ChannelsInv'
<1> SUFFICES ASSUME ChannelsInv, [Nano!Next]_(Nano!vars) PROVE ChannelsInv'
  OBVIOUS
<1> USE DEF ChannelsInv, Nano!emulator, Nano!adapter, Nano!OfWorker, Nano!Failing, Nano!Ending
<1>t. Turn \in Int
  BY NanoAssumption DEF Nano!SessionAssumption
<1>1. CASE UNCHANGED Nano!vars
  BY <1>1 DEF Nano!vars
<1>2. ASSUME NEW k \in Nano!Kinds, Nano!Transmit(k) \/ Nano!Refuse(k) \/ Nano!Overflow(k)
      PROVE  ChannelsInv'
  BY <1>2 DEF Nano!Transmit, Nano!Refuse, Nano!Overflow
<1>3. CASE Nano!Poll \/ Nano!Close \/ Nano!Joined
  BY <1>3 DEF Nano!Poll, Nano!PollError, Nano!PollEvents, Nano!Close, Nano!Joined
<1>4. CASE Nano!BridgeGateLate \/ Nano!LedgerGateLate
  BY <1>4 DEF Nano!BridgeGateLate, Nano!LedgerGateLate
<1>5. ASSUME NEW c \in Nano!Channels, Nano!Setup(c) PROVE ChannelsInv'
  BY <1>t, <1>5 DEF Nano!Setup, Nano!At, Steps
<1>6. ASSUME NEW c \in Nano!Channels, Nano!Shutdown(c) PROVE ChannelsInv'
  <2>1. /\ worker.at = "cleanup" /\ worker' = worker /\ opened' = opened \ {c}
        /\ \/ allocated' = allocated \ {c} /\ unacknowledged' = unacknowledged
           \/ unacknowledged' = TRUE /\ allocated' = allocated
    BY <1>6 DEF Nano!Shutdown
  <2>2. allocated \subseteq opened => allocated \ {c} \subseteq opened \ {c}
    OBVIOUS
  <2>3. QED  BY <2>1, <2>2
<1>7. CASE Nano!NextTurn \/ Nano!NoCommand \/ Nano!Write
  BY <1>t, <1>7 DEF Nano!NextTurn, Nano!NoCommand, Nano!Write, Nano!At, Steps
<1>8. CASE Nano!Prepare \/ Nano!Finish
  BY <1>t, <1>8 DEF Nano!Prepare, Nano!Finish, Nano!Credit, Nano!At, Steps
<1>9. CASE Nano!Receive
  BY <1>t, <1>9 DEF Nano!Receive, Nano!At, Steps
<1>10. CASE Nano!Report \/ Nano!End
  BY <1>t, <1>10 DEF Nano!Report, Nano!End, Steps
<1>11. QED
  BY <1>1, <1>2, <1>3, <1>4, <1>5, <1>6, <1>7, <1>8, <1>9, <1>10 DEF Nano!Next, Nano!Worker

LEMMA ChannelsInvariant == MCSpec => []ChannelsInv
BY ChannelsInit, ChannelsStep, NanoSteps, PTL

\* A worker that is gone has shut down every channel, or one shut-down was not
\* acknowledged.
THEOREM NanoChannelsClosed == MCSpec => []ChannelsClosed
<1>1. ChannelsInv => ChannelsClosed
  BY DEF ChannelsInv, ChannelsClosed, Nano!ChannelsClosed
<1>2. QED  BY <1>1, ChannelsInvariant, PTL
-----------------------------------------------------------------------------
(***************************************************************************)
(* The frames of the Nano, from the guest to the wire.                     *)
(***************************************************************************)
GuestFrame ==
  {f \in [id : Nat \ {0}, kind : {"single", "first", "body", "continuation"}, seq : Nat] :
     f.kind # "continuation" => f.seq = 0}
Event == GuestFrame \cup {Nano!NoFrame}
\* Frames that are on the wire or being written, and those that may be completed.
InHand == IF worker.at = "write" THEN 1 ELSE 0
Credited == IF worker.at = "finish" THEN Len(written) - 1 ELSE Len(written)

NanoTypes ==
  /\ sent \in Seq(GuestFrame) /\ commands \in Seq(GuestFrame)
  /\ written \in Seq([frame : GuestFrame, outcome : Nano!Outcomes])
  /\ events \in Seq(Event) /\ taken \in Seq(Event) /\ current \in Event
  /\ \A i \in DOMAIN sent : sent[i].id = i

\* While the worker works, what is written, in its hand and in the commands is what the
\* guest sent, in this order; it goes on only after a write that is whole and in time.
Handed ==
  /\ Len(written) <= Len(sent)
  /\ \A i \in DOMAIN written : written[i].frame = sent[i]
  /\ Working =>
       /\ Len(written) + InHand + Len(commands) = Len(sent)
       /\ \A i \in DOMAIN commands : commands[i] = sent[Len(written) + InHand + i]
       /\ worker.at = "write" => current = sent[Len(written) + 1]
       /\ worker.at = "finish" => Len(written) > 0 /\ current = written[Len(written)].frame
       /\ \A i \in 1..Credited : written[i].outcome = "written"

FramesInv == ChannelsInv /\ NanoTypes /\ Handed

LEMMA NoFrameEvent == Nano!NoFrame \in Event /\ Nano!NoFrame \notin GuestFrame
BY DEF Event, GuestFrame, Nano!NoFrame

LEMMA KindFrame ==
  ASSUME NEW k \in Nano!Kinds, sent \in Seq(GuestFrame)
  PROVE  /\ Nano!Frame(k) \in GuestFrame /\ Nano!Frame(k).id = Len(sent) + 1
         /\ Nano!Frame(k).kind = k.kind /\ Nano!Frame(k).seq = k.seq
BY NanoAssumption DEF Nano!Kinds, Nano!Frame, GuestFrame, Nano!SessionAssumption

LEMMA FramesInit == MCInit => FramesInv
<1>1. MCInit => Nano!Blank /\ (Nano!Init \/ Nano!Over)
  BY DEF MCInit, Nano!Init, Nano!Over
<1>2. \A S : <<>> \in Seq(S) /\ Len(<<>>) = 0 /\ DOMAIN <<>> = {}
  OBVIOUS
<1>3. MCInit => worker.at # "write" /\ worker.at # "finish"
  BY <1>1 DEF Nano!Init, Nano!Over, Nano!At
<1>4. QED
  BY <1>1, <1>2, <1>3, ChannelsInit, NoFrameEvent
  DEF Nano!Blank, FramesInv, NanoTypes, Handed, InHand, Credited

LEMMA FramesTransmit ==
  ASSUME FramesInv, NEW k \in Nano!Kinds, Nano!Transmit(k)
  PROVE  NanoTypes' /\ Handed'
<1> DEFINE f == Nano!Frame(k)
<1>1. f \in GuestFrame /\ f.id = Len(sent) + 1
  BY KindFrame DEF FramesInv, NanoTypes
<1>2. /\ sent' = Append(sent, f) /\ commands' = Append(commands, f)
      /\ UNCHANGED <<worker, current, written, events, taken>>
  BY DEF Nano!Transmit, Nano!OfWorker
<1> HIDE DEF f
<1>3. /\ sent' \in Seq(GuestFrame) /\ commands' \in Seq(GuestFrame)
      /\ Len(sent') = Len(sent) + 1 /\ Len(commands') = Len(commands) + 1
      /\ DOMAIN sent' = 1..Len(sent) + 1 /\ DOMAIN commands' = 1..Len(commands) + 1
      /\ \A i \in 1..Len(sent) : sent'[i] = sent[i]
      /\ \A i \in 1..Len(commands) : commands'[i] = commands[i]
      /\ sent'[Len(sent) + 1] = f /\ commands'[Len(commands) + 1] = f
  BY <1>1, <1>2, AppendProperties DEF FramesInv, NanoTypes
<1>4. /\ Len(sent) \in Nat /\ Len(written) \in Nat /\ Len(commands) \in Nat
      /\ DOMAIN sent = 1..Len(sent) /\ DOMAIN written = 1..Len(written)
      /\ DOMAIN commands = 1..Len(commands) /\ InHand \in {0, 1}
  BY LenProperties DEF FramesInv, NanoTypes, InHand
<1>5. NanoTypes'
  BY <1>1, <1>2, <1>3, <1>4 DEF FramesInv, NanoTypes
<1>6. InHand' = InHand /\ Credited' = Credited /\ (Working' <=> Working)
  BY <1>2 DEF InHand, Credited, Working
<1>7. Handed'
  <2>0. written' = written /\ current' = current /\ worker' = worker
    BY <1>2
  <2>1. Len(written') <= Len(sent') /\ \A i \in DOMAIN written' : written'[i].frame = sent'[i]
    <3>1. Len(written) <= Len(sent) /\ \A i \in 1..Len(written) : written[i].frame = sent[i]
      BY <1>4 DEF FramesInv, Handed
    <3>2. \A i \in 1..Len(written) : i \in 1..Len(sent)
      BY <1>4, <3>1
    <3>3. \A i \in 1..Len(written) : written[i].frame = sent'[i]
      BY <1>3, <3>1, <3>2
    <3>4. QED  BY <2>0, <1>3, <1>4, <3>1, <3>3
  <2>2. ASSUME Working
        PROVE  /\ Len(written') + InHand' + Len(commands') = Len(sent')
               /\ \A i \in DOMAIN commands' : commands'[i] = sent'[Len(written') + InHand' + i]
    <3>1. /\ Len(written) + InHand + Len(commands) = Len(sent)
          /\ \A i \in 1..Len(commands) : commands[i] = sent[Len(written) + InHand + i]
      BY <1>4, <2>2 DEF FramesInv, Handed
    <3>2. \A i \in 1..Len(commands) : Len(written) + InHand + i \in 1..Len(sent)
      BY <1>4, <3>1
    <3>3. \A i \in 1..Len(commands) : commands'[i] = sent'[Len(written) + InHand + i]
      BY <1>3, <3>1, <3>2
    <3>4. commands'[Len(commands) + 1] = sent'[Len(written) + InHand + (Len(commands) + 1)]
      <4>1. Len(written) + InHand + (Len(commands) + 1) = Len(sent) + 1
        BY <1>4, <3>1
      <4>2. QED  BY <1>3, <4>1
    <3>5. \A i \in 1..Len(commands) + 1 : i \in 1..Len(commands) \/ i = Len(commands) + 1
      BY <1>4
    <3>6. \A i \in DOMAIN commands' : commands'[i] = sent'[Len(written) + InHand + i]
      BY <1>3, <3>3, <3>4, <3>5
    <3>7. Len(written) + InHand + Len(commands') = Len(sent')
      BY <1>3, <1>4, <3>1
    <3>8. QED  BY <2>0, <1>6, <3>6, <3>7
  <2>3. ASSUME Working
        PROVE  /\ worker'.at = "write" => current' = sent'[Len(written') + 1]
               /\ worker'.at = "finish" =>
                    Len(written') > 0 /\ current' = written'[Len(written')].frame
               /\ \A i \in 1..Credited' : written'[i].outcome = "written"
    <3>1. worker.at = "write" => Len(written) + 1 \in 1..Len(sent)
      BY <1>4, <2>3 DEF FramesInv, Handed, InHand
    <3>2. QED  BY <1>2, <1>3, <1>4, <1>6, <2>3, <3>1 DEF FramesInv, Handed
  <2>4. QED  BY <1>6, <2>1, <2>2, <2>3 DEF Handed
<1>8. QED  BY <1>5, <1>7

LEMMA FramesPoll ==
  ASSUME FramesInv, Nano!Poll
  PROVE  NanoTypes' /\ Handed'
<1>1. /\ UNCHANGED <<sent, commands, worker, current, written>>
      /\ \/ UNCHANGED <<events, taken>>
         \/ \E n \in 0..Len(events) :
              /\ events' = SubSeq(events, n + 1, Len(events))
              /\ taken' = taken \/ taken' = taken \o SubSeq(events, 1, n)
  <2>1. Len(events) \in Nat /\ Batch \in Nat
    BY NanoAssumption, LenProperties DEF FramesInv, NanoTypes, Nano!SessionAssumption
  <2>2. CASE Nano!PollError
    BY <2>2 DEF Nano!PollError, Nano!OfWorker
  <2>3. CASE Nano!PollEvents
    <3> DEFINE n == IF Len(events) < Batch THEN Len(events) ELSE Batch
    <3>1. n \in 0..Len(events)
      BY <2>1
    <3>2. /\ events' = SubSeq(events, n + 1, Len(events))
          /\ taken' = taken \/ taken' = taken \o SubSeq(events, 1, n)
          /\ UNCHANGED <<sent, commands, worker, current, written>>
      BY <2>3 DEF Nano!PollEvents, Nano!OfWorker
    <3> HIDE DEF n
    <3>3. QED  BY <3>1, <3>2
  <2>4. QED  BY <2>2, <2>3 DEF Nano!Poll
<1>2. events' \in Seq(Event) /\ taken' \in Seq(Event)
  <2>1. ASSUME NEW n \in 0..Len(events)
        PROVE  /\ SubSeq(events, n + 1, Len(events)) \in Seq(Event)
               /\ SubSeq(events, 1, n) \in Seq(Event)
               /\ taken \o SubSeq(events, 1, n) \in Seq(Event)
    <3>1. events \in Seq(Event) /\ taken \in Seq(Event) /\ Len(events) \in Nat
      BY LenProperties DEF FramesInv, NanoTypes
    <3>2. /\ SubSeq(events, n + 1, Len(events)) \in Seq(Event)
          /\ SubSeq(events, 1, n) \in Seq(Event)
      BY <3>1, SubSeqProperties
    <3>3. QED  BY <3>1, <3>2, ConcatProperties
  <2>2. QED  BY <1>1, <2>1 DEF FramesInv, NanoTypes
<1>3. QED
  BY <1>1, <1>2 DEF FramesInv, NanoTypes, Handed, Working, InHand, Credited

LEMMA FramesPrepare ==
  ASSUME FramesInv, Nano!Prepare
  PROVE  NanoTypes' /\ Handed'
<1>1. /\ commands # <<>> /\ commands' = Tail(commands) /\ current' = Head(commands)
      /\ worker.at = "turn" /\ worker'.at \in {"write", "cleanup"}
      /\ UNCHANGED <<sent, written, events, taken>>
  BY DEF Nano!Prepare, Nano!Failing, Nano!emulator, Nano!adapter, FramesInv, ChannelsInv
<1>2. /\ commands \in Seq(GuestFrame)
      /\ commands' \in Seq(GuestFrame) /\ Len(commands') = Len(commands) - 1
      /\ \A i \in 1..Len(commands) - 1 : commands'[i] = commands[i + 1]
      /\ current' = commands[1] /\ current' \in GuestFrame /\ Len(commands) > 0
      /\ DOMAIN commands' = 1..Len(commands) - 1 /\ DOMAIN commands = 1..Len(commands)
      /\ Len(written) \in Nat /\ Len(sent) \in Nat /\ Len(commands) \in Nat
  <2>1. commands \in Seq(GuestFrame) /\ commands # <<>>
    BY <1>1 DEF FramesInv, NanoTypes
  <2>2. /\ Tail(commands) \in Seq(GuestFrame) /\ Len(Tail(commands)) = Len(commands) - 1
        /\ \A i \in 1..Len(commands) - 1 : Tail(commands)[i] = commands[i + 1]
        /\ Head(commands) = commands[1] /\ Len(commands) > 0 /\ Head(commands) \in GuestFrame
    BY <2>1, HeadTailProperties, EmptySeq
  <2>3. QED  BY <1>1, <2>1, <2>2, LenProperties DEF FramesInv, NanoTypes
<1>3. NanoTypes'
  BY <1>1, <1>2 DEF FramesInv, NanoTypes, Event
<1>4. Handed'
  <2>1. /\ InHand = 0 /\ Credited = Len(written) /\ Working
        /\ Credited' = Len(written) /\ (Working' => InHand' = 1 /\ worker'.at = "write")
    BY <1>1 DEF InHand, Credited, Working
  <2>2. current' = sent[Len(written) + 1]
    BY <1>2, <2>1 DEF FramesInv, Handed
  <2>3. /\ Len(written') <= Len(sent') /\ \A i \in DOMAIN written' : written'[i].frame = sent'[i]
        /\ \A i \in 1..Credited' : written'[i].outcome = "written"
    BY <1>1, <2>1 DEF FramesInv, Handed
  <2>4. ASSUME Working'
        PROVE  /\ Len(written') + InHand' + Len(commands') = Len(sent')
               /\ \A i \in DOMAIN commands' : commands'[i] = sent'[Len(written') + InHand' + i]
    <3>1. /\ Len(written) + Len(commands) = Len(sent) /\ InHand' = 1
          /\ \A i \in 1..Len(commands) : commands[i] = sent[Len(written) + i]
      <4>1. /\ Len(written) + InHand + Len(commands) = Len(sent)
            /\ \A i \in 1..Len(commands) : commands[i] = sent[Len(written) + InHand + i]
        BY <1>2, <2>1 DEF FramesInv, Handed
      <4>2. InHand = 0 /\ InHand' = 1 /\ Len(written) + 0 = Len(written)
        BY <1>2, <2>1, <2>4
      <4>3. QED  BY <4>1, <4>2
    <3>2. ASSUME NEW i \in 1..Len(commands) - 1
          PROVE  commands'[i] = sent[Len(written) + 1 + i]
      <4>1. i + 1 \in 1..Len(commands) /\ Len(written) + (i + 1) = Len(written) + 1 + i
        BY <1>2
      <4>2. QED  BY <1>2, <3>1, <4>1
    <3>3. QED  BY <1>1, <1>2, <3>1, <3>2
  <2>5. QED  BY <1>1, <2>1, <2>2, <2>3, <2>4 DEF Handed
<1>5. QED  BY <1>3, <1>4

LEMMA FramesWrite ==
  ASSUME FramesInv, Nano!Write
  PROVE  NanoTypes' /\ Handed'
<1>1. PICK outcome \in Nano!Outcomes :
        /\ written' = Append(written, [frame |-> current, outcome |-> outcome])
        /\ worker.at = "write" /\ worker'.at = "finish"
        /\ UNCHANGED <<sent, commands, current, events, taken>>
  BY DEF Nano!Write, Nano!emulator, FramesInv, ChannelsInv
<1> DEFINE w == [frame |-> current, outcome |-> outcome]
<1>2. /\ Working /\ InHand = 1 /\ Credited = Len(written)
      /\ InHand' = 0 /\ Credited' = Len(written') - 1
  BY <1>1 DEF Working, InHand, Credited
<1>3. /\ Len(written) \in Nat /\ Len(sent) \in Nat /\ Len(commands) \in Nat
      /\ DOMAIN written = 1..Len(written) /\ DOMAIN sent = 1..Len(sent)
      /\ DOMAIN commands = 1..Len(commands)
  BY LenProperties DEF FramesInv, NanoTypes
<1>4. current = sent[Len(written) + 1] /\ current \in GuestFrame
  BY <1>1, <1>2, <1>3 DEF FramesInv, Handed, NanoTypes
<1>5. /\ written' \in Seq([frame : GuestFrame, outcome : Nano!Outcomes])
      /\ Len(written') = Len(written) + 1 /\ DOMAIN written' = 1..Len(written) + 1
      /\ \A i \in 1..Len(written) : written'[i] = written[i]
      /\ written'[Len(written) + 1] = w
  <2>1. w \in [frame : GuestFrame, outcome : Nano!Outcomes]
    BY <1>4
  <2>2. written \in Seq([frame : GuestFrame, outcome : Nano!Outcomes])
    BY DEF FramesInv, NanoTypes
  <2> HIDE DEF w
  <2>3. QED  BY <1>1, <2>1, <2>2, AppendProperties DEF w
<1>6. w.frame = current
  OBVIOUS
<1> HIDE DEF w
<1>7. NanoTypes'
  BY <1>1, <1>5 DEF FramesInv, NanoTypes
<1>8. Handed'
  BY <1>1, <1>2, <1>3, <1>4, <1>5, <1>6 DEF FramesInv, Handed, Working
<1>9. QED  BY <1>7, <1>8

\* The completion of a frame that is whole and in time, or the end of the work.
LEMMA FinishEffect ==
  ASSUME FramesInv, Nano!Finish
  PROVE  /\ worker.at = "finish"
         /\ \/ /\ written[Len(written)].outcome = "written"
               /\ events' = Append(events, current) /\ worker'.at = "turn"
            \/ worker'.at = "cleanup" /\ events' = events
         /\ UNCHANGED <<sent, commands, current, written, taken, nano>>
BY DEF Nano!Finish, Nano!Credit, Nano!Failing, Nano!emulator, Nano!adapter

LEMMA FramesFinish ==
  ASSUME FramesInv, Nano!Finish
  PROVE  NanoTypes' /\ Handed'
<1>1. NanoTypes'
  <2>1. events \in Seq(Event) /\ current \in Event
    BY DEF FramesInv, NanoTypes
  <2>2. Append(events, current) \in Seq(Event)
    BY <2>1, AppendProperties
  <2>3. QED  BY <2>2, FinishEffect DEF FramesInv, NanoTypes
<1>2. /\ Working /\ InHand = 0 /\ InHand' = 0 /\ Credited = Len(written) - 1
      /\ Credited' = Len(written)
  BY FinishEffect DEF Working, InHand, Credited
<1>3. Len(written) \in Nat
  BY LenProperties DEF FramesInv, NanoTypes
<1>4. Handed'
  BY <1>2, <1>3, FinishEffect DEF FramesInv, Handed, Working
<1>5. QED  BY <1>1, <1>4

\* The frames stay where they are; a received frame may join the events.
LEMMA FramesRest ==
  ASSUME FramesInv, UNCHANGED <<sent, commands, current, written, taken>>,
         worker.at \notin {"write", "finish"} \/ worker' = worker,
         worker'.at \notin {"write", "finish"} \/ worker' = worker,
         Working' => Working,
         events' = events \/ events' = Append(events, Nano!NoFrame)
  PROVE  NanoTypes' /\ Handed'
<1>1. events' \in Seq(Event)
  <2>1. events \in Seq(Event)
    BY DEF FramesInv, NanoTypes
  <2>2. Append(events, Nano!NoFrame) \in Seq(Event)
    BY <2>1, NoFrameEvent, AppendProperties
  <2>3. QED  BY <2>1, <2>2
<1>2. InHand' = InHand /\ Credited' = Credited
  BY DEF InHand, Credited
<1>3. QED  BY <1>1, <1>2 DEF FramesInv, NanoTypes, Handed

\* What the other steps are.
Rests ==
  /\ UNCHANGED <<sent, commands, current, written, taken>>
  /\ \/ worker' = worker
     \/ worker.at \notin {"write", "finish"} /\ worker'.at \notin {"write", "finish"}
  /\ Working' => Working
  /\ events' = events \/ events' = Append(events, Nano!NoFrame)

LEMMA RestSteps ==
  ASSUME FramesInv,
         \/ UNCHANGED Nano!vars \/ \E k \in Nano!Kinds : Nano!Refuse(k) \/ Nano!Overflow(k)
         \/ Nano!Close \/ Nano!Joined \/ Nano!BridgeGateLate \/ Nano!LedgerGateLate
         \/ \E c \in Nano!Channels : Nano!Setup(c) \/ Nano!Shutdown(c)
         \/ Nano!NextTurn \/ Nano!NoCommand \/ Nano!Receive \/ Nano!Report \/ Nano!End
  PROVE  Rests
<1> USE DEF Nano!emulator, Nano!adapter, Nano!OfWorker, Nano!Failing, Nano!Ending, Nano!At,
            Rests, Working
<1>1. CASE UNCHANGED Nano!vars \/ \E k \in Nano!Kinds : Nano!Refuse(k) \/ Nano!Overflow(k)
  BY <1>1 DEF Nano!vars, Nano!Refuse, Nano!Overflow
<1>2. CASE Nano!Close \/ Nano!Joined \/ Nano!BridgeGateLate \/ Nano!LedgerGateLate
  BY <1>2 DEF Nano!Close, Nano!Joined, Nano!BridgeGateLate, Nano!LedgerGateLate
<1>3. CASE \E c \in Nano!Channels : Nano!Setup(c) \/ Nano!Shutdown(c)
  BY <1>3 DEF Nano!Setup, Nano!Shutdown
<1>4. CASE Nano!NextTurn \/ Nano!NoCommand
  BY <1>4 DEF Nano!NextTurn, Nano!NoCommand
<1>5. CASE Nano!Receive
  BY <1>5 DEF Nano!Receive
<1>6. CASE Nano!Report \/ Nano!End
  BY <1>6 DEF Nano!Report, Nano!End
<1>7. QED  BY <1>1, <1>2, <1>3, <1>4, <1>5, <1>6

LEMMA NanoCases ==
  ASSUME FramesInv, [Nano!Next]_(Nano!vars)
  PROVE  \/ \E k \in Nano!Kinds : Nano!Transmit(k)
         \/ Nano!Poll \/ Nano!Prepare \/ Nano!Write \/ Nano!Finish \/ Rests
BY RestSteps DEF Nano!Next, Nano!Worker

LEMMA FramesStep == FramesInv /\ [Nano!Next]_(Nano!vars) => FramesInv'
<1> SUFFICES ASSUME FramesInv, [Nano!Next]_(Nano!vars) PROVE FramesInv'
  OBVIOUS
<1>1. ChannelsInv'
  BY ChannelsStep DEF FramesInv
<1>2. Rests => NanoTypes' /\ Handed'
  BY FramesRest DEF Rests
<1>3. NanoTypes' /\ Handed'
  BY <1>2, NanoCases, FramesTransmit, FramesPoll, FramesPrepare, FramesWrite, FramesFinish
<1>4. QED  BY <1>1, <1>3 DEF FramesInv

-----------------------------------------------------------------------------
(***************************************************************************)
(* The completions of the Nano.                                            *)
(***************************************************************************)
Wire == Seq([frame : GuestFrame, outcome : Nano!Outcomes])
Numbered(w) == \A i \in DOMAIN w : w[i].frame.id = i /\ w[i].frame # Nano!NoFrame

\* The frames among these events are the first n of this wire, in order, all written.
Told(w, e, n) ==
  /\ \A i \in DOMAIN e : e[i] # Nano!NoFrame =>
       e[i].id \in 1..n /\ e[i] = w[e[i].id].frame /\ w[e[i].id].outcome = "written"
  /\ \A i, j \in DOMAIN e :
       i < j /\ e[i] # Nano!NoFrame /\ e[j] # Nano!NoFrame => e[i].id < e[j].id
  /\ \A k \in 1..n : \E i \in DOMAIN e : e[i] = w[k].frame

\* What the property says of the events that were taken.
Truth(w, t) ==
  \A i \in DOMAIN t : t[i] # Nano!NoFrame =>
    /\ t[i].id \in DOMAIN w /\ t[i] = w[t[i].id].frame /\ w[t[i].id].outcome = "written"
    /\ \A j \in 1..(i - 1) : t[j] # Nano!NoFrame => t[j].id < t[i].id
    /\ \A k \in 1..(t[i].id - 1) : \E j \in 1..(i - 1) : t[j] = w[k].frame

Polls == nano \in {"open", "poll"}

\* While the emulator may poll, what it has taken and what waits for it are the
\* completions of all frames that may be completed.
CompletionsInv ==
  /\ Truth(written, taken)
  /\ Polls =>
       \E n \in 0..Len(written) :
         Told(written, taken \o events, n) /\ (Working => n = Credited)

LEMMA WireNumbered ==
  ASSUME NanoTypes, Handed
  PROVE  Numbered(written)
<1>1. /\ Len(written) \in Nat /\ Len(sent) \in Nat /\ DOMAIN sent = 1..Len(sent)
      /\ DOMAIN written = 1..Len(written)
  BY LenProperties DEF NanoTypes
<1>2. \A i \in DOMAIN written : i \in DOMAIN sent /\ written[i].frame = sent[i]
  BY <1>1 DEF Handed
<1>3. \A i \in DOMAIN written : written[i].frame \in GuestFrame
  <2>1. written \in Seq([frame : GuestFrame, outcome : Nano!Outcomes])
    BY DEF NanoTypes
  <2>2. \A i \in DOMAIN written : written[i] \in [frame : GuestFrame, outcome : Nano!Outcomes]
    BY <1>1, <2>1, ElementOfSeq
  <2>3. QED  BY <2>2
<1>4. QED  BY <1>2, <1>3, NoFrameEvent DEF NanoTypes, Numbered

\* What was taken is told truthfully if all is.
LEMMA ToldTrue ==
  ASSUME NEW w \in Wire, Numbered(w), NEW t \in Seq(Event), NEW e \in Seq(Event),
         NEW n \in 0..Len(w), Told(w, t \o e, n)
  PROVE  Truth(w, t)
<1>1. /\ Len(t) \in Nat /\ Len(e) \in Nat /\ DOMAIN t = 1..Len(t)
      /\ DOMAIN w = 1..Len(w) /\ Len(w) \in Nat
  BY LenProperties DEF Wire
<1>2. /\ Len(t \o e) = Len(t) + Len(e) /\ DOMAIN (t \o e) = 1..Len(t) + Len(e)
      /\ \A i \in 1..Len(t) : (t \o e)[i] = t[i]
  BY <1>1, ConcatProperties, LenProperties
<1> DEFINE a == t \o e
<1>3. /\ Told(w, a, n) /\ DOMAIN a = 1..Len(t) + Len(e) /\ \A i \in 1..Len(t) : a[i] = t[i]
  BY <1>2
<1> HIDE DEF a
<1> SUFFICES ASSUME NEW i \in DOMAIN t, t[i] # Nano!NoFrame
             PROVE  /\ t[i].id \in DOMAIN w /\ t[i] = w[t[i].id].frame
                    /\ w[t[i].id].outcome = "written"
                    /\ \A j \in 1..(i - 1) : t[j] # Nano!NoFrame => t[j].id < t[i].id
                    /\ \A k \in 1..(t[i].id - 1) : \E j \in 1..(i - 1) : t[j] = w[k].frame
  BY DEF Truth
<1>4. i \in DOMAIN a /\ a[i] = t[i] /\ i \in 1..Len(t)
  BY <1>1, <1>3
<1>5. t[i].id \in 1..n /\ t[i] = w[t[i].id].frame /\ w[t[i].id].outcome = "written"
  BY <1>3, <1>4 DEF Told
<1>6. ASSUME NEW j \in 1..(i - 1), t[j] # Nano!NoFrame PROVE t[j].id < t[i].id
  <2>1. j \in DOMAIN a /\ j < i /\ a[j] = t[j]
    BY <1>1, <1>3, <1>4
  <2>2. QED  BY <1>3, <1>4, <1>6, <2>1 DEF Told
<1>7. ASSUME NEW k \in 1..(t[i].id - 1) PROVE \E j \in 1..(i - 1) : t[j] = w[k].frame
  <2>1. k \in 1..n /\ k < t[i].id /\ k \in DOMAIN w
    BY <1>1, <1>5
  <2>2. PICK j \in DOMAIN a : a[j] = w[k].frame
    BY <1>3, <2>1 DEF Told
  <2>3. a[j].id = k /\ a[j] # Nano!NoFrame
    BY <2>1, <2>2 DEF Numbered
  <2>4. ~(i < j) /\ i # j
    <3>1. i < j => a[i].id < a[j].id
      BY <1>3, <1>4, <2>3 DEF Told
    <3>2. a[i].id \in Nat /\ k \in Nat /\ k < a[i].id
      BY <1>4, <1>5, <2>1
    <3>3. QED  BY <2>3, <3>1, <3>2
  <2>5. j \in 1..(i - 1) /\ j \in 1..Len(t)
    BY <1>1, <1>3, <1>4, <2>4
  <2>6. QED  BY <1>3, <2>2, <2>5
<1>8. QED  BY <1>1, <1>5, <1>6, <1>7

\* What was told stays true when the wire gets longer.
LEMMA ToldStays ==
  ASSUME NEW w \in Wire, NEW more, NEW v, v = Append(w, more), v \in Wire
  PROVE  /\ \A t : Truth(w, t) => Truth(v, t)
         /\ \A e : \A n \in 0..Len(w) : Told(w, e, n) => Told(v, e, n)
<1>1. /\ Len(w) \in Nat /\ DOMAIN w = 1..Len(w) /\ DOMAIN v = 1..Len(w) + 1
      /\ \A i \in 1..Len(w) : v[i] = w[i]
  <2>1. /\ w \in Seq([frame : GuestFrame, outcome : Nano!Outcomes])
        /\ v \in Seq([frame : GuestFrame, outcome : Nano!Outcomes])
    BY DEF Wire
  <2>2. more \in [frame : GuestFrame, outcome : Nano!Outcomes]
    <3>1. Len(v) = Len(w) + 1 /\ v[Len(w) + 1] = more /\ Len(w) \in Nat
      BY <2>1, LenProperties
    <3>2. QED  BY <2>1, <3>1, ElementOfSeq
  <2>3. QED  BY <2>1, <2>2, AppendProperties, LenProperties
<1>2. ASSUME NEW e, NEW n \in 0..Len(w), Told(w, e, n) PROVE Told(v, e, n)
  <2>1. \A i \in 1..n : v[i] = w[i]
    BY <1>1
  <2>2. QED  BY <1>2, <2>1 DEF Told
<1>3. ASSUME NEW t, Truth(w, t) PROVE Truth(v, t)
  <2> SUFFICES ASSUME NEW i \in DOMAIN t, t[i] # Nano!NoFrame
               PROVE  /\ t[i].id \in DOMAIN v /\ t[i] = v[t[i].id].frame
                      /\ v[t[i].id].outcome = "written"
                      /\ \A j \in 1..(i - 1) : t[j] # Nano!NoFrame => t[j].id < t[i].id
                      /\ \A k \in 1..(t[i].id - 1) : \E j \in 1..(i - 1) : t[j] = v[k].frame
    BY DEF Truth
  <2>1. /\ t[i].id \in DOMAIN w /\ t[i] = w[t[i].id].frame /\ w[t[i].id].outcome = "written"
        /\ \A j \in 1..(i - 1) : t[j] # Nano!NoFrame => t[j].id < t[i].id
        /\ \A k \in 1..(t[i].id - 1) : \E j \in 1..(i - 1) : t[j] = w[k].frame
    BY <1>3 DEF Truth
  <2>2. \A k \in 1..(t[i].id - 1) : v[k] = w[k]
    BY <1>1, <2>1
  <2>3. QED  BY <1>1, <2>1, <2>2
<1>4. QED  BY <1>2, <1>3

\* Events that are taken stay in the same line.
LEMMA Shifted ==
  ASSUME NEW t \in Seq(Event), NEW e \in Seq(Event), NEW n \in 0..Len(e)
  PROVE  (t \o SubSeq(e, 1, n)) \o SubSeq(e, n + 1, Len(e)) = t \o e
<1> DEFINE a == SubSeq(e, 1, n)
           b == SubSeq(e, n + 1, Len(e))
<1>1. /\ Len(t) \in Nat /\ Len(e) \in Nat
  BY LenProperties
<1>2. /\ a \in Seq(Event) /\ Len(a) = n /\ \A i \in 1..n : a[i] = e[i]
      /\ b \in Seq(Event) /\ Len(b) = Len(e) - n
      /\ \A i \in 1..Len(e) - n : b[i] = e[n + i]
  BY <1>1, SubSeqProperties
<1> HIDE DEF a, b
<1>3. /\ t \o a \in Seq(Event) /\ Len(t \o a) = Len(t) + n
      /\ \A i \in 1..Len(t) + n : (t \o a)[i] = IF i <= Len(t) THEN t[i] ELSE e[i - Len(t)]
  <2>1. /\ t \o a \in Seq(Event) /\ Len(t \o a) = Len(t) + n
        /\ \A i \in 1..Len(t) + n : (t \o a)[i] = IF i <= Len(t) THEN t[i] ELSE a[i - Len(t)]
    BY <1>1, <1>2, ConcatProperties
  <2>2. \A i \in 1..Len(t) + n : ~(i <= Len(t)) => a[i - Len(t)] = e[i - Len(t)]
    BY <1>1, <1>2
  <2>3. QED  BY <2>1, <2>2
<1> DEFINE c == t \o a
<1> HIDE DEF c
<1>4. /\ c \o b \in Seq(Event) /\ Len(c \o b) = Len(t) + Len(e)
      /\ \A i \in 1..Len(t) + Len(e) :
           (c \o b)[i] = IF i <= Len(t) THEN t[i] ELSE e[i - Len(t)]
  <2>1. /\ c \in Seq(Event) /\ Len(c) = Len(t) + n
    BY <1>3 DEF c
  <2>2. /\ c \o b \in Seq(Event) /\ Len(c \o b) = Len(t) + Len(e)
        /\ \A i \in 1..Len(t) + Len(e) :
             (c \o b)[i] = IF i <= Len(t) + n THEN c[i] ELSE b[i - (Len(t) + n)]
    <3>1. /\ c \o b \in Seq(Event) /\ Len(c \o b) = Len(c) + Len(b)
          /\ \A i \in 1..Len(c) + Len(b) :
               (c \o b)[i] = IF i <= Len(c) THEN c[i] ELSE b[i - Len(c)]
      <4>1. b \in Seq(Event) /\ c \in Seq(Event)
        BY <1>2, <2>1
      <4>2. QED  BY <4>1, ConcatProperties
    <3>2. Len(c) + Len(b) = Len(t) + Len(e)
      BY <1>1, <1>2, <2>1
    <3>3. QED  BY <2>1, <3>1, <3>2
  <2>3. \A i \in 1..Len(t) + Len(e) : ~(i <= Len(t) + n) => b[i - (Len(t) + n)] = e[i - Len(t)]
    <3> SUFFICES ASSUME NEW i \in 1..Len(t) + Len(e), ~(i <= Len(t) + n)
                 PROVE  b[i - (Len(t) + n)] = e[i - Len(t)]
      OBVIOUS
    <3>1. i - (Len(t) + n) \in 1..Len(e) - n /\ n + (i - (Len(t) + n)) = i - Len(t)
      BY <1>1
    <3>2. QED  BY <1>2, <3>1
  <2>4. \A i \in 1..Len(t) + n : c[i] = IF i <= Len(t) THEN t[i] ELSE e[i - Len(t)]
    BY <1>3 DEF c
  <2>5. QED  BY <1>1, <2>2, <2>3, <2>4
<1>5. /\ t \o e \in Seq(Event) /\ Len(t \o e) = Len(t) + Len(e)
      /\ \A i \in 1..Len(t) + Len(e) :
           (t \o e)[i] = IF i <= Len(t) THEN t[i] ELSE e[i - Len(t)]
  BY <1>1, ConcatProperties
<1>6. c \o b = t \o e
  BY <1>4, <1>5, SeqEqual
<1>7. QED  BY <1>6 DEF a, b, c

CompletionsFacts == FramesInv /\ CompletionsInv

LEMMA CompletionsInit == MCInit => CompletionsInv
<1>1. MCInit => Nano!Blank /\ worker.at # "finish"
  BY DEF MCInit, Nano!Init, Nano!Over, Nano!At
<1>2. <<>> \o <<>> = <<>> /\ Len(<<>>) = 0 /\ DOMAIN <<>> = {} /\ 0 \in 0..0
  OBVIOUS
<1>3. Truth(<<>>, <<>>) /\ Told(<<>>, <<>>, 0)
  BY <1>2 DEF Truth, Told
<1>4. QED  BY <1>1, <1>2, <1>3 DEF Nano!Blank, CompletionsInv, Credited

\* The events are as they were, for the one count.
Still ==
  /\ written' = written /\ taken' = taken
  /\ Polls' => Polls
  /\ Working' => Working /\ Credited' = Credited
  /\ events' = events \/ events' = Append(events, Nano!NoFrame)

LEMMA CompletionsRest ==
  ASSUME CompletionsFacts, FramesInv', Still
  PROVE  CompletionsInv'
<1> USE DEF Still
<1>1. Truth(written, taken)'
  BY DEF CompletionsFacts, CompletionsInv
<1>2. ASSUME NEW n \in 0..Len(written), Told(written, taken \o events, n)
      PROVE  Told(written, taken \o events', n)
  <2>1. CASE events' = events
    BY <1>2, <2>1
  <2>2. CASE events' = Append(events, Nano!NoFrame)
    <3> DEFINE a == taken \o events
               b == taken \o events'
    <3>1. /\ taken \in Seq(Event) /\ events \in Seq(Event) /\ events' \in Seq(Event)
      BY DEF CompletionsFacts, FramesInv, NanoTypes
    <3>2. a \in Seq(Event) /\ b = Append(a, Nano!NoFrame)
      <4>1. a \in Seq(Event)
        BY <3>1, ConcatProperties
      <4>2. taken \o Append(events, Nano!NoFrame) = Append(taken \o events, Nano!NoFrame)
        BY <3>1, NoFrameEvent
      <4>3. QED  BY <2>2, <4>1, <4>2
    <3>3. /\ DOMAIN a = 1..Len(a) /\ Len(a) \in Nat /\ DOMAIN b = 1..Len(a) + 1
          /\ \A i \in 1..Len(a) : b[i] = a[i]
          /\ b[Len(a) + 1] = Nano!NoFrame
      <4> HIDE DEF a, b
      <4>1. QED  BY <3>2, NoFrameEvent, AppendProperties, LenProperties
    <3>4. Told(written, a, n)
      BY <1>2
    <3> HIDE DEF a, b
    <3>5. \A i \in DOMAIN b : b[i] # Nano!NoFrame => i \in DOMAIN a /\ b[i] = a[i]
      BY <3>3
    <3>6. Told(written, b, n)
      BY <3>3, <3>4, <3>5 DEF Told
    <3>7. QED  BY <3>6 DEF b
  <2>3. QED  BY <2>1, <2>2
<1>3. ASSUME Polls'
      PROVE  \E n \in 0..Len(written) :
               Told(written, taken \o events', n) /\ (Working' => n = Credited')
  <2>1. PICK n \in 0..Len(written) :
          Told(written, taken \o events, n) /\ (Working => n = Credited)
    BY <1>3 DEF CompletionsFacts, CompletionsInv
  <2>2. QED  BY <1>2, <2>1
<1>4. QED  BY <1>1, <1>3 DEF CompletionsInv

LEMMA CompletionsPoll ==
  ASSUME CompletionsFacts, FramesInv', Nano!Poll
  PROVE  CompletionsInv'
<1>1. CASE Nano!PollError
  <2>1. /\ UNCHANGED <<written, taken, events, worker>> /\ nano = "open"
    BY <1>1 DEF Nano!PollError, Nano!OfWorker
  <2>2. Credited' = Credited /\ (Working' => Working) /\ (Polls' => Polls)
    BY <2>1 DEF Credited, Working, Polls
  <2>3. Still
    BY <2>1, <2>2 DEF Still
  <2>4. QED  BY <2>3, CompletionsRest
<1>2. CASE Nano!PollEvents
  <2> DEFINE n == IF Len(events) < Batch THEN Len(events) ELSE Batch
             ended == worker.at = "end" /\ n < Batch
  <2>1. n \in 0..Len(events) /\ taken \in Seq(Event) /\ events \in Seq(Event)
        /\ taken' \in Seq(Event) /\ events' \in Seq(Event)
    <3>1. Len(events) \in Nat /\ Batch \in Nat
      BY NanoAssumption, LenProperties
      DEF CompletionsFacts, FramesInv, NanoTypes, Nano!SessionAssumption
    <3>2. QED  BY <3>1 DEF CompletionsFacts, FramesInv, NanoTypes
  <2>2. /\ events' = SubSeq(events, n + 1, Len(events))
        /\ nano = "poll" /\ nano' = IF ended THEN "failed" ELSE "open"
        /\ taken' = IF ended THEN taken ELSE taken \o SubSeq(events, 1, n)
        /\ UNCHANGED <<worker, written>>
    BY <1>2 DEF Nano!PollEvents, Nano!OfWorker
  <2> HIDE DEF n, ended
  <2>3. CASE ended
    BY <2>2, <2>3 DEF CompletionsFacts, CompletionsInv, Polls
  <2>4. CASE ~ended
    <3>1. taken' \o events' = taken \o events
      BY <2>1, <2>2, <2>4, Shifted
    <3>2. Credited' = Credited /\ (Working' <=> Working)
      BY <2>2 DEF Credited, Working
    <3>3. PICK m \in 0..Len(written) :
            Told(written, taken \o events, m) /\ (Working => m = Credited)
      BY <2>2 DEF CompletionsFacts, CompletionsInv, Polls
    <3>4. Truth(written, taken')
      <4>1. Told(written, taken' \o events', m)
        BY <3>1, <3>3
      <4>2. written \in Wire /\ Numbered(written)
        BY WireNumbered DEF CompletionsFacts, FramesInv, NanoTypes, Wire
      <4>3. QED  BY <2>1, <4>1, <4>2, ToldTrue
    <3>5. QED  BY <2>2, <3>1, <3>2, <3>3, <3>4 DEF CompletionsInv
  <2>5. QED  BY <2>3, <2>4
<1>3. QED  BY <1>1, <1>2 DEF Nano!Poll

LEMMA CompletionsWrite ==
  ASSUME CompletionsFacts, FramesInv', Nano!Write
  PROVE  CompletionsInv'
<1>1. PICK outcome \in Nano!Outcomes :
        /\ written' = Append(written, [frame |-> current, outcome |-> outcome])
        /\ worker.at = "write" /\ worker'.at = "finish"
        /\ UNCHANGED <<nano, events, taken>>
  BY DEF Nano!Write, Nano!emulator, CompletionsFacts, FramesInv, ChannelsInv
<1>2. written \in Wire /\ written' \in Wire
  BY DEF CompletionsFacts, FramesInv, NanoTypes, Wire
<1>3. /\ \A t : Truth(written, t) => Truth(written', t)
      /\ \A e : \A n \in 0..Len(written) : Told(written, e, n) => Told(written', e, n)
  <2> DEFINE more == [frame |-> current, outcome |-> outcome]
  <2>1. written' = Append(written, more)
    BY <1>1
  <2> HIDE DEF more
  <2>2. QED  BY <1>2, <2>1, ToldStays
<1>4. Len(written') = Len(written) + 1 /\ Len(written) \in Nat
  BY <1>1, <1>2, LenProperties DEF Wire
<1>5. Working /\ Credited = Len(written) /\ Credited' = Len(written)
  BY <1>1, <1>4 DEF Working, Credited
<1>6. Truth(written', taken')
  BY <1>1, <1>3 DEF CompletionsFacts, CompletionsInv
<1>7. ASSUME Polls'
      PROVE  \E n \in 0..Len(written') :
               Told(written', taken' \o events', n) /\ (Working' => n = Credited')
  <2>1. PICK n \in 0..Len(written) :
          Told(written, taken \o events, n) /\ (Working => n = Credited)
    BY <1>1, <1>7 DEF CompletionsFacts, CompletionsInv, Polls
  <2>2. Told(written', taken' \o events', n) /\ n = Credited' /\ n \in 0..Len(written')
    BY <1>1, <1>3, <1>4, <1>5, <2>1
  <2>3. QED  BY <2>2
<1>8. QED  BY <1>6, <1>7 DEF CompletionsInv

\* The next completion joins the line.
LEMMA ToldNext ==
  ASSUME NEW w \in Wire, Numbered(w), NEW e \in Seq(Event), NEW f \in Event, NEW n \in Nat,
         n + 1 \in DOMAIN w, f = w[n + 1].frame, w[n + 1].outcome = "written", Told(w, e, n)
  PROVE  Told(w, Append(e, f), n + 1)
<1> DEFINE a == Append(e, f)
<1>1. /\ Len(e) \in Nat /\ DOMAIN e = 1..Len(e) /\ DOMAIN a = 1..Len(e) + 1
      /\ \A i \in 1..Len(e) : a[i] = e[i]
      /\ a[Len(e) + 1] = f
  BY AppendProperties, LenProperties
<1>2. f.id = n + 1
  BY DEF Numbered
<1> HIDE DEF a
<1>3. ASSUME NEW i \in DOMAIN a, a[i] # Nano!NoFrame
      PROVE  /\ a[i].id \in 1..(n + 1) /\ a[i] = w[a[i].id].frame
             /\ w[a[i].id].outcome = "written"
  <2>1. CASE i \in DOMAIN e
    BY <1>1, <1>3, <2>1 DEF Told
  <2>2. CASE i = Len(e) + 1
    BY <1>1, <1>2, <2>2
  <2>3. QED  BY <1>1, <2>1, <2>2
<1>4. ASSUME NEW i \in DOMAIN a, NEW j \in DOMAIN a, i < j, a[i] # Nano!NoFrame,
             a[j] # Nano!NoFrame
      PROVE  a[i].id < a[j].id
  <2>1. i \in DOMAIN e /\ a[i] = e[i]
    BY <1>1, <1>4
  <2>2. CASE j \in DOMAIN e
    BY <1>1, <1>4, <2>1, <2>2 DEF Told
  <2>3. CASE j = Len(e) + 1
    <3>1. e[i].id \in 1..n
      BY <1>4, <2>1 DEF Told
    <3>2. QED  BY <1>1, <1>2, <2>1, <2>3, <3>1
  <2>4. QED  BY <1>1, <2>2, <2>3
<1>5. ASSUME NEW k \in 1..(n + 1) PROVE \E i \in DOMAIN a : a[i] = w[k].frame
  <2>1. CASE k \in 1..n
    <3>1. PICK i \in DOMAIN e : e[i] = w[k].frame
      BY <2>1 DEF Told
    <3>2. QED  BY <1>1, <3>1
  <2>2. CASE k = n + 1
    BY <1>1, <2>2
  <2>3. QED  BY <2>1, <2>2
<1>6. Told(w, a, n + 1)
  BY <1>3, <1>4, <1>5 DEF Told
<1>7. QED  BY <1>6 DEF a

LEMMA CompletionsFinish ==
  ASSUME CompletionsFacts, FramesInv', Nano!Finish
  PROVE  CompletionsInv'
<1>1. /\ worker.at = "finish"
      /\ \/ /\ written[Len(written)].outcome = "written"
            /\ events' = Append(events, current) /\ worker'.at = "turn"
         \/ worker'.at = "cleanup" /\ events' = events
      /\ UNCHANGED <<written, taken, nano>>
  BY FinishEffect DEF CompletionsFacts
<1>2. CASE worker'.at = "cleanup" /\ events' = events
  <2>1. written' = written /\ taken' = taken /\ nano' = nano
    BY <1>1
  <2>2. Still
    BY <1>2, <2>1 DEF Still, Working, Polls
  <2>3. QED  BY <2>2, CompletionsRest
<1>3. CASE /\ written[Len(written)].outcome = "written"
           /\ events' = Append(events, current) /\ worker'.at = "turn"
  <2>1. /\ Working /\ Credited = Len(written) - 1 /\ Credited' = Len(written)
        /\ Len(written) \in Nat /\ Len(written) > 0 /\ current = written[Len(written)].frame
        /\ Len(written) \in DOMAIN written /\ current \in Event
    <3>1. Working /\ Credited = Len(written) - 1 /\ Credited' = Len(written)
      BY <1>1, <1>3 DEF Working, Credited
    <3>2. Len(written) \in Nat /\ DOMAIN written = 1..Len(written)
      BY LenProperties DEF CompletionsFacts, FramesInv, NanoTypes
    <3>3. QED  BY <1>1, <3>1, <3>2 DEF CompletionsFacts, FramesInv, Handed, NanoTypes
  <2>2. ASSUME Polls'
        PROVE  Told(written, taken \o events', Len(written))
    <3>1. Told(written, taken \o events, Len(written) - 1)
      BY <1>1, <2>1, <2>2 DEF CompletionsFacts, CompletionsInv, Polls
    <3>2. /\ taken \in Seq(Event) /\ events \in Seq(Event)
          /\ written \in Wire /\ Numbered(written)
      BY WireNumbered DEF CompletionsFacts, FramesInv, NanoTypes, Wire
    <3>3. taken \o events \in Seq(Event)
      BY <3>2, ConcatProperties
    <3>4. /\ Len(written) - 1 \in Nat /\ Len(written) - 1 + 1 = Len(written)
      BY <2>1
    <3>5. Told(written, Append(taken \o events, current), Len(written))
      <4> DEFINE e == taken \o events
                 m == Len(written) - 1
      <4>1. e \in Seq(Event) /\ m \in Nat /\ m + 1 = Len(written) /\ Told(written, e, m)
        BY <3>1, <3>3, <3>4
      <4> HIDE DEF e, m
      <4>2. Told(written, Append(e, current), m + 1)
        BY <1>3, <2>1, <3>2, <4>1, ToldNext
      <4>3. QED  BY <4>1, <4>2 DEF e
    <3>6. taken \o Append(events, current) = Append(taken \o events, current)
      BY <2>1, <3>2
    <3>7. QED  BY <1>3, <3>5, <3>6
  <2>3. Len(written) \in 0..Len(written)
    BY <2>1
  <2>4. QED
    BY <1>1, <2>1, <2>2, <2>3 DEF CompletionsFacts, CompletionsInv
<1>4. QED  BY <1>1, <1>2, <1>3

LEMMA CompletionsStep ==
  CompletionsFacts /\ [Nano!Next]_(Nano!vars) => CompletionsFacts'
<1> SUFFICES ASSUME CompletionsFacts, [Nano!Next]_(Nano!vars) PROVE CompletionsFacts'
  OBVIOUS
<1>1. FramesInv'
  BY FramesStep DEF CompletionsFacts
<1>2. ASSUME NEW k \in Nano!Kinds, Nano!Transmit(k) PROVE CompletionsInv'
  <2>1. UNCHANGED <<written, taken, events, nano, worker>>
    BY <1>2 DEF Nano!Transmit, Nano!OfWorker
  <2>2. Credited' = Credited /\ (Working' => Working) /\ (Polls' => Polls)
    BY <2>1 DEF Credited, Working, Polls
  <2>3. Still
    BY <2>1, <2>2 DEF Still
  <2>4. QED  BY <1>1, <2>3, CompletionsRest
<1>3. ASSUME Nano!Prepare PROVE CompletionsInv'
  <2>1. UNCHANGED <<written, taken, events, nano>> /\ worker.at = "turn"
        /\ worker'.at \in {"write", "cleanup"}
    BY <1>3 DEF Nano!Prepare, Nano!Failing, Nano!emulator, Nano!adapter, CompletionsFacts,
                FramesInv, ChannelsInv
  <2>2. Credited' = Credited /\ (Working' => Working)
    BY <2>1 DEF Credited, Working
  <2>3. Still
    BY <2>1, <2>2 DEF Still, Polls
  <2>4. QED  BY <1>1, <2>3, CompletionsRest
<1>4. ASSUME Rests, ~(\E k \in Nano!Kinds : Nano!Transmit(k)), ~Nano!Poll
      PROVE  CompletionsInv'
  <2>1. Polls' => Polls
    BY <1>4 DEF Polls, Nano!Next, Nano!Worker, Nano!vars, Nano!emulator, Nano!OfWorker,
      Nano!Refuse, Nano!Overflow, Nano!Close, Nano!Joined, Nano!Setup, Nano!Shutdown, Nano!NextTurn,
      Nano!Prepare, Nano!NoCommand, Nano!Write, Nano!Finish, Nano!Credit, Nano!Receive,
      Nano!Report, Nano!End, Nano!BridgeGateLate, Nano!LedgerGateLate
  <2>2. Working' => Credited' = Credited
    BY <1>4 DEF Rests, Credited
  <2>3. Still
    BY <1>4, <2>1, <2>2 DEF Still, Rests
  <2>4. QED  BY <1>1, <2>3, CompletionsRest
<1>5. CompletionsInv'
  BY <1>1, <1>2, <1>3, <1>4, NanoCases, CompletionsPoll, CompletionsWrite, CompletionsFinish
  DEF CompletionsFacts
<1>6. QED  BY <1>1, <1>5 DEF CompletionsFacts

LEMMA CompletionsInvariant == MCSpec => []CompletionsFacts
<1>1. MCInit => CompletionsFacts
  BY FramesInit, CompletionsInit DEF CompletionsFacts
<1>2. QED  BY <1>1, CompletionsStep, NanoSteps, PTL

\* The guest is told that a frame was sent only when it was, whole and in time, in the
\* order it sent them, however many frames of a controller are on their way.
THEOREM NanoCompletions == MCSpec => []CompletionsTrue
<1>1. ASSUME CompletionsFacts PROVE CompletionsTrue
  <2>1. \A i \in DOMAIN written : written[i].frame = sent[i]
    BY <1>1 DEF CompletionsFacts, FramesInv, Handed
  <2>2. ASSUME NEW i \in DOMAIN taken, taken[i] # Nano!NoFrame
        PROVE  LET id == taken[i].id
               IN /\ id \in DOMAIN written
                  /\ written[id] = [frame |-> taken[i], outcome |-> "written"]
                  /\ \A j \in 1..(i - 1) : taken[j] # Nano!NoFrame => taken[j].id < id
                  /\ \A k \in 1..(id - 1) : \E j \in 1..(i - 1) : taken[j] = sent[k]
    <3> DEFINE id == taken[i].id
    <3>1. /\ id \in DOMAIN written /\ taken[i] = written[id].frame
          /\ written[id].outcome = "written"
          /\ \A j \in 1..(i - 1) : taken[j] # Nano!NoFrame => taken[j].id < id
          /\ \A k \in 1..(id - 1) : \E j \in 1..(i - 1) : taken[j] = written[k].frame
      BY <1>1, <2>2 DEF CompletionsFacts, CompletionsInv, Truth
    <3>2. Len(written) \in Nat /\ DOMAIN written = 1..Len(written)
      BY <1>1, LenProperties DEF CompletionsFacts, FramesInv, NanoTypes
    <3>3. written[id] = [frame |-> taken[i], outcome |-> "written"]
      <4>1. written \in Seq([frame : GuestFrame, outcome : Nano!Outcomes])
        BY <1>1 DEF CompletionsFacts, FramesInv, NanoTypes
      <4>2. written[id] \in [frame : GuestFrame, outcome : Nano!Outcomes]
        BY <3>1, <3>2, <4>1, ElementOfSeq
      <4>3. QED  BY <3>1, <4>2
    <3>4. \A k \in 1..(id - 1) : k \in DOMAIN written
      BY <3>1, <3>2
    <3>5. \A k \in 1..(id - 1) : \E j \in 1..(i - 1) : taken[j] = sent[k]
      BY <2>1, <3>1, <3>4
    <3>6. QED  BY <3>1, <3>3, <3>5
  <2>3. QED  BY <2>1, <2>2 DEF CompletionsTrue, Nano!CompletionsTrue
<1>2. QED  BY <1>1, CompletionsInvariant, PTL

-----------------------------------------------------------------------------
(***************************************************************************)
(* The requests of the Nano on the wire.                                   *)
(***************************************************************************)
\* Of these frames the ones of the engine before one of them; it is the one that is due.
Before(s, i) == {j \in 1..(i - 1) : s[j].kind # "body"}
Seamless(s, i) ==
  s[i].kind # "body" =>
    /\ Before(s, i) = {} => s[i].seq = 0
    /\ \A j \in Before(s, i) : (\A h \in Before(s, i) : h <= j) =>
         s[i].seq = Nano!DueAfter(s[j])
\* What is due after the first n of them.
DueThen(s, n, due) ==
  /\ Before(s, n + 1) = {} => due = 0
  /\ \A j \in Before(s, n + 1) : (\A h \in Before(s, n + 1) : h <= j) =>
       due = Nano!DueAfter(s[j])

Prepared == Len(written) + InHand
Due(g) == IF g.left = 0 THEN 0 ELSE g.seq

\* A gate that is due a continuation knows which one.
Gate(g) ==
  /\ g \in [left : 0..Continuations, seq : Nat, late : BOOLEAN]
  /\ g.left > 0 => g.seq = Continuations - g.left + 1

\* The frames that passed the gate of the worker are seamless, and the gate knows what is
\* due after them.
RequestsInv ==
  /\ Gate(ledger)
  /\ \A i \in 1..Prepared : Seamless(sent, i)
  /\ Working => DueThen(sent, Prepared, Due(ledger))

\* A gate that lets a frame through has been due that one.
LEMMA PassedDue ==
  ASSUME NEW g, Gate(g), NEW f \in GuestFrame, Nano!Allowed(g, f)
  PROVE  /\ Gate(Nano!Passed(g, f))
         /\ f.kind = "body" => Due(Nano!Passed(g, f)) = Due(g)
         /\ f.kind # "body" => /\ f.seq = Due(g)
                               /\ Due(Nano!Passed(g, f)) = Nano!DueAfter(f)
<1>1. /\ f.kind \in {"single", "first", "body", "continuation"} /\ f.seq \in Nat
      /\ f.kind # "continuation" => f.seq = 0
  BY DEF GuestFrame
<1>2. Continuations \in Nat \ {0}
  BY NanoAssumption DEF Nano!SessionAssumption
<1>3. CASE f.kind = "first"
  BY <1>1, <1>2, <1>3 DEF Gate, Nano!Allowed, Nano!Passed, Due, Nano!DueAfter
<1>4. CASE f.kind = "body" \/ f.kind = "single"
  BY <1>1, <1>2, <1>4 DEF Gate, Nano!Allowed, Nano!Passed, Due, Nano!DueAfter
<1>5. CASE f.kind = "continuation"
  <2>1. g.left > 0 /\ g.late = FALSE /\ f.seq = g.seq /\ g.left \in 0..Continuations
        /\ g.seq = Continuations - g.left + 1
    BY <1>5 DEF Gate, Nano!Allowed
  <2>2. CASE g.left = 1
    <3>1. Nano!Passed(g, f) = Nano!NoPacket
      BY <1>5, <2>2 DEF Nano!Passed
    <3>2. f.seq = Continuations
      BY <1>2, <2>1, <2>2
    <3>3. QED
      BY <1>1, <1>2, <1>5, <2>1, <2>2, <3>1, <3>2 DEF Gate, Due, Nano!DueAfter, Nano!NoPacket
  <2>3. CASE g.left # 1
    <3>1. Nano!Passed(g, f) = [left |-> g.left - 1, seq |-> g.seq + 1, late |-> FALSE]
      BY <1>5, <2>3 DEF Nano!Passed
    <3>2. f.seq < Continuations /\ g.left - 1 \in 1..Continuations
      BY <1>2, <2>1, <2>3
    <3>3. QED
      BY <1>1, <1>2, <1>5, <2>1, <3>1, <3>2 DEF Gate, Due, Nano!DueAfter
  <2>4. QED  BY <2>2, <2>3
<1>6. QED  BY <1>1, <1>3, <1>4, <1>5

\* The same frames, the same statements.
LEMMA SameFrames ==
  ASSUME NEW s, NEW t, NEW n \in Nat, \A i \in 1..n : s[i] = t[i]
  PROVE  /\ \A i \in 1..n : Seamless(s, i) => Seamless(t, i)
         /\ \A due : DueThen(s, n, due) => DueThen(t, n, due)
<1>1. \A i \in 1..(n + 1) : Before(s, i) = Before(t, i)
  BY DEF Before
<1>2. \A i \in 1..(n + 1) : \A j \in Before(t, i) : j \in 1..n /\ s[j] = t[j]
  BY DEF Before
<1>3. n + 1 \in 1..(n + 1) /\ \A i \in 1..n : i \in 1..(n + 1)
  OBVIOUS
<1>4. ASSUME NEW i \in 1..n, Seamless(s, i) PROVE Seamless(t, i)
  BY <1>1, <1>2, <1>3, <1>4 DEF Seamless
<1>5. ASSUME NEW due, DueThen(s, n, due) PROVE DueThen(t, n, due)
  BY <1>1, <1>2, <1>3, <1>5 DEF DueThen
<1>6. QED  BY <1>4, <1>5

\* One more frame has passed.
LEMMA DueNext ==
  ASSUME NEW s, NEW n \in Nat, NEW g, NEW h,
         DueThen(s, n, Due(g)),
         s[n + 1].kind = "body" => Due(h) = Due(g),
         s[n + 1].kind # "body" => s[n + 1].seq = Due(g) /\ Due(h) = Nano!DueAfter(s[n + 1])
  PROVE  Seamless(s, n + 1) /\ DueThen(s, n + 1, Due(h))
<1>1. Seamless(s, n + 1)
  BY DEF Seamless, DueThen
<1>2. CASE s[n + 1].kind = "body"
  <2>1. Before(s, n + 2) = Before(s, n + 1)
    BY <1>2 DEF Before
  <2>2. QED  BY <1>1, <1>2, <2>1 DEF DueThen
<1>3. CASE s[n + 1].kind # "body"
  <2>1. /\ n + 1 \in Before(s, n + 2)
        /\ \A j \in Before(s, n + 2) : j \in 1..(n + 1)
    BY <1>3 DEF Before
  <2>2. \A j \in Before(s, n + 2) : n + 1 <= j => j = n + 1
    BY <2>1
  <2>3. QED  BY <1>1, <1>3, <2>1, <2>2 DEF DueThen
<1>4. QED  BY <1>2, <1>3

RequestsFacts == FramesInv /\ RequestsInv

LEMMA RequestsInit == MCInit => RequestsInv
<1>1. MCInit => Nano!Blank /\ worker.at # "write"
  BY DEF MCInit, Nano!Init, Nano!Over, Nano!At
<1>2. Continuations \in Nat \ {0}
  BY NanoAssumption DEF Nano!SessionAssumption
<1>3. Gate(Nano!NoPacket) /\ Due(Nano!NoPacket) = 0
  BY <1>2 DEF Gate, Nano!NoPacket, Due
<1>4. Before(<<>>, 0 + 1) = {} /\ Len(<<>>) = 0
  BY DEF Before
<1>5. QED
  BY <1>1, <1>3, <1>4 DEF Nano!Blank, RequestsInv, DueThen, Prepared, InHand

LEMMA PreparedSent ==
  ASSUME FramesInv
  PROVE  /\ Prepared \in Nat /\ Len(sent) \in Nat /\ Prepared <= Len(sent)
         /\ Len(written) \in Nat /\ DOMAIN sent = 1..Len(sent) /\ DOMAIN written = 1..Len(written)
<1>1. /\ Len(sent) \in Nat /\ Len(written) \in Nat /\ Len(commands) \in Nat
      /\ DOMAIN sent = 1..Len(sent) /\ DOMAIN written = 1..Len(written)
  BY LenProperties DEF FramesInv, NanoTypes
<1>2. CASE Working
  <2>1. Len(written) + InHand + Len(commands) = Len(sent) /\ InHand \in {0, 1}
    BY <1>2 DEF FramesInv, Handed, InHand
  <2>2. QED  BY <1>1, <2>1 DEF Prepared
<1>3. CASE ~Working
  <2>1. InHand = 0 /\ Len(written) <= Len(sent)
    BY <1>3 DEF FramesInv, Handed, InHand, Working
  <2>2. QED  BY <1>1, <2>1 DEF Prepared
<1>4. QED  BY <1>2, <1>3

\* No frame passes; frames may be sent.
LEMMA RequestsRest ==
  ASSUME RequestsFacts, FramesInv', Prepared' = Prepared, Working' => Working,
         Gate(ledger'), Due(ledger') = Due(ledger),
         sent' = sent \/ \E f \in GuestFrame : sent' = Append(sent, f)
  PROVE  RequestsInv'
<1>1. \A i \in 1..Prepared : sent[i] = sent'[i]
  <2>1. CASE sent' = sent
    BY <2>1
  <2>2. ASSUME NEW f \in GuestFrame, sent' = Append(sent, f)
        PROVE  \A i \in 1..Prepared : sent[i] = sent'[i]
    <3>1. \A i \in 1..Len(sent) : sent'[i] = sent[i]
      BY <2>2, AppendProperties DEF RequestsFacts, FramesInv, NanoTypes
    <3>2. QED  BY <3>1, PreparedSent DEF RequestsFacts
  <2>3. QED  BY <2>1, <2>2
<1> DEFINE n == Prepared
           s == sent
           t == sent'
<1>2. n \in Nat /\ \A i \in 1..n : s[i] = t[i]
  BY <1>1, PreparedSent DEF RequestsFacts
<1>3. /\ \A i \in 1..n : Seamless(s, i)
      /\ Working' => DueThen(s, n, Due(ledger))
  BY DEF RequestsFacts, RequestsInv
<1> HIDE DEF n, s, t
<1>4. /\ \A i \in 1..n : Seamless(t, i)
      /\ Working' => DueThen(t, n, Due(ledger))
  BY <1>2, <1>3, SameFrames
<1>5. /\ \A i \in 1..Prepared' : Seamless(sent', i)
      /\ Working' => DueThen(sent', Prepared', Due(ledger'))
  BY <1>4 DEF n, t
<1>6. QED  BY <1>5 DEF RequestsInv

LEMMA RequestsPrepare ==
  ASSUME RequestsFacts, FramesInv', Nano!Prepare
  PROVE  RequestsInv'
<1>1. /\ worker.at = "turn" /\ commands # <<>>
      /\ \/ /\ Nano!Allowed(ledger, Head(commands))
            /\ ledger' = Nano!Passed(ledger, Head(commands)) /\ worker'.at = "write"
         \/ ledger' = ledger /\ worker'.at = "cleanup"
      /\ UNCHANGED <<sent, written>>
  BY DEF Nano!Prepare, Nano!Failing, Nano!emulator, Nano!adapter, RequestsFacts, FramesInv,
         ChannelsInv
<1>2. CASE ledger' = ledger /\ worker'.at = "cleanup"
  <2>1. Prepared' = Prepared /\ ~Working'
    BY <1>1, <1>2 DEF Prepared, InHand, Working
  <2>2. Gate(ledger') /\ Due(ledger') = Due(ledger) /\ sent' = sent
    BY <1>1, <1>2 DEF RequestsFacts, RequestsInv
  <2>3. QED  BY <2>1, <2>2, RequestsRest
<1>3. CASE /\ Nano!Allowed(ledger, Head(commands))
           /\ ledger' = Nano!Passed(ledger, Head(commands)) /\ worker'.at = "write"
  <2> DEFINE f == Head(commands)
             n == Prepared
  <2>1. Prepared' = n + 1 /\ n \in Nat /\ Working /\ n = Len(written)
    <3>1. Len(written) \in Nat
      BY PreparedSent DEF RequestsFacts
    <3>2. QED  BY <1>1, <1>3, <3>1 DEF Prepared, InHand, Working
  <2>2. f \in GuestFrame /\ f = sent[n + 1]
    <3>1. commands \in Seq(GuestFrame)
      BY DEF RequestsFacts, FramesInv, NanoTypes
    <3>2. f = commands[1] /\ f \in GuestFrame /\ Len(commands) \in Nat /\ Len(commands) > 0
      BY <1>1, <3>1, HeadTailProperties, EmptySeq
    <3>3. 1 \in DOMAIN commands
      BY <3>1, <3>2, LenProperties
    <3>4. commands[1] = sent[Len(written) + InHand + 1]
      BY <2>1, <3>3 DEF RequestsFacts, FramesInv, Handed
    <3>5. QED  BY <3>2, <3>4 DEF Prepared
  <2>3. Gate(ledger) /\ DueThen(sent, n, Due(ledger)) /\ \A i \in 1..n : Seamless(sent, i)
    BY <2>1 DEF RequestsFacts, RequestsInv
  <2>4. /\ Gate(ledger')
        /\ f.kind = "body" => Due(ledger') = Due(ledger)
        /\ f.kind # "body" => f.seq = Due(ledger) /\ Due(ledger') = Nano!DueAfter(f)
    <3>1. Nano!Allowed(ledger, f) /\ ledger' = Nano!Passed(ledger, f)
      BY <1>3
    <3> HIDE DEF f
    <3>2. QED  BY <2>2, <2>3, <3>1, PassedDue
  <2> HIDE DEF f, n
  <2>5. Seamless(sent, n + 1) /\ DueThen(sent, n + 1, Due(ledger'))
    BY <2>1, <2>2, <2>3, <2>4, DueNext
  <2>6. \A i \in 1..(n + 1) : Seamless(sent, i)
    BY <2>1, <2>3, <2>5
  <2>7. sent' = sent
    BY <1>1
  <2>8. QED  BY <2>1, <2>4, <2>5, <2>6, <2>7 DEF RequestsInv
<1>4. QED  BY <1>1, <1>2, <1>3

LEMMA RequestsStep ==
  RequestsFacts /\ [Nano!Next]_(Nano!vars) => RequestsFacts'
<1> SUFFICES ASSUME RequestsFacts, [Nano!Next]_(Nano!vars) PROVE RequestsFacts'
  OBVIOUS
<1>1. FramesInv'
  BY FramesStep DEF RequestsFacts
<1>2. Gate(ledger)
  BY DEF RequestsFacts, RequestsInv
<1>3. ASSUME NEW k \in Nano!Kinds, Nano!Transmit(k) PROVE RequestsInv'
  <2>1. /\ UNCHANGED <<written, ledger, worker>>
        /\ sent' = Append(sent, Nano!Frame(k))
    BY <1>3 DEF Nano!Transmit, Nano!OfWorker
  <2>2. Nano!Frame(k) \in GuestFrame
    BY KindFrame DEF RequestsFacts, FramesInv, NanoTypes
  <2>3. Prepared' = Prepared /\ (Working' => Working) /\ ledger' = ledger
    BY <2>1 DEF Prepared, InHand, Working
  <2>4. QED  BY <1>1, <1>2, <2>1, <2>2, <2>3, RequestsRest
<1>4. ASSUME Nano!Poll PROVE RequestsInv'
  <2>1. UNCHANGED <<sent, written, ledger, worker>>
    BY <1>4 DEF Nano!Poll, Nano!PollError, Nano!PollEvents, Nano!OfWorker
  <2>2. Prepared' = Prepared /\ (Working' => Working) /\ ledger' = ledger
    BY <2>1 DEF Prepared, InHand, Working
  <2>3. QED  BY <1>1, <1>2, <2>1, <2>2, RequestsRest
<1>5. ASSUME Nano!Write PROVE RequestsInv'
  <2>1. PICK outcome \in Nano!Outcomes :
          /\ written' = Append(written, [frame |-> current, outcome |-> outcome])
          /\ worker.at = "write" /\ worker'.at = "finish"
          /\ UNCHANGED <<sent, ledger>>
    BY <1>5 DEF Nano!Write, Nano!emulator, RequestsFacts, FramesInv, ChannelsInv
  <2>2. Len(written') = Len(written) + 1 /\ Len(written) \in Nat
    <3>1. /\ written \in Seq([frame : GuestFrame, outcome : Nano!Outcomes])
          /\ written' \in Seq([frame : GuestFrame, outcome : Nano!Outcomes])
      BY <1>1 DEF RequestsFacts, FramesInv, NanoTypes
    <3>2. QED  BY <2>1, <3>1, LenProperties
  <2>3. Prepared' = Prepared /\ (Working' => Working) /\ ledger' = ledger
    BY <2>1, <2>2 DEF Prepared, InHand, Working
  <2>4. QED  BY <1>1, <1>2, <2>1, <2>3, RequestsRest
<1>6. ASSUME Nano!Finish PROVE RequestsInv'
  <2>1. UNCHANGED <<sent, written, ledger>> /\ worker.at = "finish" /\ worker'.at # "write"
    BY <1>6 DEF Nano!Finish, Nano!Credit, Nano!Failing, Nano!emulator, Nano!adapter
  <2>2. Prepared' = Prepared /\ (Working' => Working) /\ ledger' = ledger
    BY <2>1 DEF Prepared, InHand, Working
  <2>3. QED  BY <1>1, <1>2, <2>1, <2>2, RequestsRest
<1>7. ASSUME Rests, ~(\E k \in Nano!Kinds : Nano!Transmit(k)), ~Nano!Poll, ~Nano!Prepare
      PROVE  RequestsInv'
  <2>1. ledger' = ledger \/ ledger' = [ledger EXCEPT !.late = TRUE]
    BY <1>7 DEF Nano!Next, Nano!Worker, Nano!vars, Nano!emulator, Nano!adapter, Nano!OfWorker,
      Nano!Refuse, Nano!Overflow, Nano!Close, Nano!Joined, Nano!Setup, Nano!Shutdown, Nano!NextTurn,
      Nano!NoCommand, Nano!Write, Nano!Finish, Nano!Credit, Nano!Receive,
      Nano!Report, Nano!End, Nano!BridgeGateLate, Nano!LedgerGateLate
  <2>2. Gate(ledger') /\ Due(ledger') = Due(ledger)
    BY <1>2, <2>1 DEF Gate, Due
  <2>3. Prepared' = Prepared /\ (Working' => Working) /\ sent' = sent
    BY <1>7 DEF Rests, Prepared, InHand
  <2>4. QED  BY <1>1, <2>2, <2>3, RequestsRest
<1>8. RequestsInv'
  BY <1>1, <1>3, <1>4, <1>5, <1>6, <1>7, NanoCases, RequestsPrepare DEF RequestsFacts
<1>9. QED  BY <1>1, <1>8 DEF RequestsFacts

LEMMA RequestsInvariant == MCSpec => []RequestsFacts
<1>1. MCInit => RequestsFacts
  BY FramesInit, RequestsInit DEF RequestsFacts
<1>2. QED  BY <1>1, RequestsStep, NanoSteps, PTL

\* An engine request is never torn on the wire, whatever the guest sends and withdraws.
THEOREM NanoRequests == MCSpec => []RequestsWhole
<1>1. ASSUME RequestsFacts PROVE RequestsWhole
  <2> SUFFICES ASSUME NEW i \in DOMAIN written, Nano!Engine(i)
               PROVE  LET earlier == {j \in 1..(i - 1) : Nano!Engine(j)}
                      IN /\ earlier = {} => written[i].frame.seq = 0
                         /\ \A j \in earlier : (\A h \in earlier : h <= j) =>
                              written[i].frame.seq = Nano!DueAfter(written[j].frame)
    BY DEF RequestsWhole, Nano!RequestsWhole
  <2> DEFINE earlier == {j \in 1..(i - 1) : Nano!Engine(j)}
  <2>1. /\ i \in 1..Prepared /\ \A j \in 1..i : j \in DOMAIN written
    <3>1. Len(written) \in Nat /\ DOMAIN written = 1..Len(written)
      BY <1>1, PreparedSent DEF RequestsFacts
    <3>2. QED  BY <3>1 DEF Prepared, InHand
  <2>2. i \in 1..i /\ \A j \in 1..i : written[j].frame = sent[j]
    BY <1>1, <2>1 DEF RequestsFacts, FramesInv, Handed
  <2>3. Seamless(sent, i)
    BY <1>1, <2>1 DEF RequestsFacts, RequestsInv
  <2>4. earlier = Before(sent, i) /\ \A j \in earlier : j \in 1..i
    BY <2>1, <2>2 DEF Before, Nano!Engine
  <2>5. QED
    BY <2>2, <2>3, <2>4 DEF Seamless, Nano!Engine
<1>2. QED  BY <1>1, RequestsInvariant, PTL

-----------------------------------------------------------------------------
(***************************************************************************)
(* Saving the configuration.                                               *)
(***************************************************************************)
Absent == Config!Absent
Text == {FirstText} \cup UNION {Texts[s] : s \in Savers}
Value == Text \cup {Absent}
Entries == Value \X {TRUE} \X SUBSET Value
Save == [at : {"idle", "look", "stage", "backup", "check", "replace", "verify", "sync"},
         text : Value, loaded : Value, previous : Value,
         staged : BOOLEAN, late : BOOLEAN]

\* What a save knows when it is at its steps: what it read is what its text was edited
\* from, and is backed up before it looks again; unless another replacement came since,
\* it is what its own will replace.  The text it is about to report is there.
Knows(r, d, saved, lost) ==
  /\ r.at # "idle" => r.text # Absent
  /\ r.at \in {"backup", "check", "replace"} => r.staged = TRUE
  /\ r.at \in {"look", "stage", "backup", "check"} => r.late = FALSE
  /\ r.at \in {"stage", "backup", "check", "replace"} => r.loaded \in {r.previous, Absent}
  /\ r.at \in {"check", "replace"} => r.previous \in saved \cup {Absent}
  /\ r.at = "replace" /\ r.late = FALSE => d = r.previous
  /\ r.at = "sync" => r.text \in saved \cup {d} \cup lost

\* The texts that the property excepts.
Excepted == raced \cup undone

\* The texts that have to be there are there now, and but for the unsure ones in every
\* state of the directory that a power failure may bring back.
ConfigInv ==
  /\ kept \subseteq Text
  /\ past \subseteq Entries
  /\ <<dest, synced, backups>> \in past
  /\ kept \subseteq backups \cup {dest} \cup Excepted
  /\ \A b \in past : kept \subseteq b[3] \cup {b[1]} \cup Excepted \cup unsure
  /\ saver \in [Savers -> Save]
  /\ \A s \in Savers : Knows(saver[s], dest, backups, raced)

LEMMA ConfigSteps == MCSpec => MCInit /\ [][Config!Next]_(Config!vars)
<1>1. [MCNext]_<<part, regionVars, configVars, nanoVars, mdiVars>> => [Config!Next]_(Config!vars)
  BY DEF MCNext, configVars, Config!vars, Config!files, Config!returns
<1>2. QED  BY <1>1, PTL DEF MCSpec

LEMMA TextsApart ==
  /\ Absent \notin Text /\ Config!Torn \notin Text /\ Absent # Config!Torn
  /\ Config!Torn \notin Value
BY SavesAssumption DEF Config!TextsAssumption, Text, Value, Absent, Config!Absent, Config!Torn

LEMMA IdleKnows ==
  /\ Config!Idle \in Save
  /\ \A d, saved, lost : Knows(Config!Idle, d, saved, lost)
BY DEF Config!Idle, Save, Value, Absent, Knows

LEMMA EntryTyped ==
  /\ \A d \in Value : \A saved \in SUBSET Value : <<d, TRUE, saved>> \in Entries
  /\ \A b \in Entries : b[1] \in Value /\ b[2] = TRUE /\ b[3] \in SUBSET Value
  /\ \A d, x, saved : <<d, x, saved>>[1] = d /\ <<d, x, saved>>[2] = x
                        /\ <<d, x, saved>>[3] = saved
BY DEF Entries

LEMMA FilesTyped ==
  ASSUME ConfigInv
  PROVE  dest \in Value /\ synced = TRUE /\ backups \in SUBSET Value
BY EntryTyped DEF ConfigInv

LEMMA ConfigInit == MCInit => ConfigInv
<1> SUFFICES ASSUME MCInit PROVE ConfigInv
  OBVIOUS
<1>1. /\ dest \in {Absent, FirstText} /\ synced = TRUE /\ backups = {}
      /\ past = {<<dest, synced, backups>>}
      /\ saver = [s \in Savers |-> Config!Idle]
      /\ kept = {dest} \ {Absent} /\ unsure = {} /\ undone = {} /\ raced = {}
  BY DEF MCInit, Config!Init, Config!files, Absent
<1>2. dest \in Value
  BY <1>1 DEF Value, Text
<1>3. kept \subseteq Text
  BY <1>1 DEF Text
<1>4. /\ past \subseteq Entries
      /\ kept \subseteq backups \cup {dest} \cup Excepted
      /\ \A b \in past : kept \subseteq b[3] \cup {b[1]} \cup Excepted \cup unsure
  <2>1. \A b \in past : b = <<dest, synced, backups>>
    BY <1>1
  <2>2. kept \subseteq {dest}
    BY <1>1
  <2>3. <<dest, synced, backups>> \in Entries
    BY <1>1, <1>2, EntryTyped
  <2>4. kept \subseteq backups \cup {dest} \cup Excepted
    BY <2>2
  <2>5. QED  BY <2>1, <2>3, <2>4, EntryTyped
<1>5. saver \in [Savers -> Save] /\ \A s \in Savers : Knows(saver[s], dest, backups, raced)
  BY <1>1, IdleKnows
<1>6. QED  BY <1>1, <1>3, <1>4, <1>5 DEF ConfigInv

\* A step of one save that touches no file.
LEMMA SaverMoves ==
  ASSUME ConfigInv, NEW s \in Savers, NEW r \in Save, saver' = [saver EXCEPT ![s] = r],
         Knows(r, dest, backups, raced),
         UNCHANGED <<dest, synced, backups, past, kept, unsure, undone, raced>>
  PROVE  ConfigInv'
<1>1. saver' \in [Savers -> Save]
  BY DEF ConfigInv
<1>2. \A t \in Savers : saver'[t] = IF t = s THEN r ELSE saver[t]
  BY DEF ConfigInv
<1>3. \A t \in Savers : Knows(saver'[t], dest, backups, raced)
  BY <1>2 DEF ConfigInv
<1>4. QED  BY <1>1, <1>3 DEF ConfigInv, Excepted

\* A save returns without syncing the directory: its text is there, and is unsure unless
\* it is there in every state that a power failure may bring back.
LEMMA ReturnedSafe ==
  ASSUME ConfigInv, NEW s \in Savers, saver' = [saver EXCEPT ![s] = Config!Idle],
         NEW text \in Text, text \in backups \cup {dest} \cup raced, Config!Returned(text),
         UNCHANGED <<dest, synced, backups, past, raced>>
  PROVE  ConfigInv'
<1>1. /\ kept' = kept \cup {text} /\ undone' = undone \ {text}
      /\ unsure \subseteq unsure'
      /\ text \in unsure' \/ \A b \in past : text \in b[3] \cup {b[1]}
  BY DEF Config!Returned, Config!Durable
<1>2. kept' \subseteq Text
  BY <1>1 DEF ConfigInv
<1>3. kept' \subseteq backups \cup {dest} \cup raced \cup undone'
  <2>1. kept \subseteq backups \cup {dest} \cup raced \cup undone
    BY DEF ConfigInv, Excepted
  <2>2. QED  BY <1>1, <2>1
<1>4. ASSUME NEW b \in past
      PROVE  kept' \subseteq b[3] \cup {b[1]} \cup raced \cup undone' \cup unsure'
  <2>1. kept \subseteq b[3] \cup {b[1]} \cup raced \cup undone \cup unsure
    BY DEF ConfigInv, Excepted
  <2>2. QED  BY <1>1, <2>1
<1>5. saver' \in [Savers -> Save]
  BY IdleKnows DEF ConfigInv
<1>6. \A t \in Savers : Knows(saver'[t], dest, backups, raced)
  BY IdleKnows DEF ConfigInv
<1>7. QED  BY <1>2, <1>3, <1>4, <1>5, <1>6 DEF ConfigInv, Excepted

\* The steps of a save that only move it.
LEMMA MovesSafe ==
  ASSUME ConfigInv, NEW s \in Savers,
         \/ \E text \in Texts[s] : Config!Load(s, text)
         \/ Config!Look(s) \/ Config!Stage(s) \/ Config!Check(s) \/ Config!Verify(s)
         \/ Config!Fail(s)
  PROVE  ConfigInv'
<1> USE DEF Config!At, Config!files, Config!returns
<1> DEFINE old == saver[s]
<1>1. old \in Save /\ Knows(old, dest, backups, raced) /\ dest \in Value
  BY FilesTyped DEF ConfigInv
<1>2. ASSUME Config!Ends(s), UNCHANGED <<dest, synced, backups, past, kept, unsure, undone, raced>>
      PROVE  ConfigInv'
  BY <1>2, IdleKnows, SaverMoves DEF Config!Ends
<1>3. ASSUME NEW text \in Texts[s], Config!Load(s, text) PROVE ConfigInv'
  <2>1. PICK from \in {dest, Absent} :
          saver' = [saver EXCEPT ![s] = [Config!Idle EXCEPT !.at = "look", !.text = text,
                                                            !.loaded = from]]
    BY <1>3 DEF Config!Load, Absent
  <2> DEFINE r == [Config!Idle EXCEPT !.at = "look", !.text = text, !.loaded = from]
  <2>2. text \in Text /\ text # Absent /\ from \in Value
    BY <1>1, TextsApart DEF Text, Value
  <2>3. r \in Save /\ Knows(r, dest, backups, raced)
    BY <2>2 DEF Save, Knows, Config!Idle, Value, Absent
  <2>4. UNCHANGED <<dest, synced, backups, past, kept, unsure, undone, raced>>
    BY <1>3 DEF Config!Load
  <2> HIDE DEF r
  <2>5. QED  BY <2>1, <2>3, <2>4, SaverMoves DEF r
<1>4. CASE Config!Look(s)
  <2>1. UNCHANGED <<dest, synced, backups, past, raced>> /\ old.at = "look"
    BY <1>4 DEF Config!Look
  <2>2. CASE old.loaded \notin {dest, Absent}
    BY <1>2, <1>4, <2>1, <2>2 DEF Config!Look, Absent
  <2>3. CASE old.loaded \in {dest, Absent} /\ dest = old.text
    <3>1. Config!Ends(s) /\ Config!Returned(dest)
      BY <1>4, <2>3 DEF Config!Look, Absent
    <3>2. dest \in Text
      BY <1>1, <2>1, <2>3 DEF Knows, Value
    <3>3. QED  BY <2>1, <3>1, <3>2, ReturnedSafe DEF Config!Ends
  <2>4. CASE old.loaded \in {dest, Absent} /\ dest # old.text
    <3> DEFINE r == [old EXCEPT !.at = "stage", !.previous = dest]
    <3>1. saver' = [saver EXCEPT ![s] = r] /\ UNCHANGED <<kept, unsure, undone>>
      BY <1>4, <2>4 DEF Config!Look, ConfigInv, Absent
    <3>2. r \in Save /\ Knows(r, dest, backups, raced)
      BY <1>1, <2>1, <2>4 DEF Save, Knows
    <3> HIDE DEF r
    <3>3. QED  BY <2>1, <3>1, <3>2, SaverMoves
  <2>5. QED  BY <2>2, <2>3, <2>4
<1>5. CASE Config!Stage(s)
  <2> DEFINE r == [old EXCEPT !.at = "backup", !.staged = TRUE]
  <2>1. /\ UNCHANGED <<dest, synced, backups, past, kept, unsure, undone, raced>> /\ old.at = "stage"
        /\ saver' = [saver EXCEPT ![s] = r]
    BY <1>5 DEF Config!Stage, Config!Staged, ConfigInv
  <2>2. r \in Save /\ Knows(r, dest, backups, raced)
    BY <1>1, <2>1 DEF Save, Knows
  <2> HIDE DEF r
  <2>3. QED  BY <2>1, <2>2, SaverMoves
<1>6. CASE Config!Check(s)
  <2>1. UNCHANGED <<dest, synced, backups, past, kept, unsure, undone, raced>> /\ old.at = "check"
    BY <1>6 DEF Config!Check, Config!Goes, Config!Ends
  <2>2. CASE dest # old.previous
    BY <1>2, <1>6, <2>1, <2>2 DEF Config!Check
  <2>3. CASE dest = old.previous
    <3> DEFINE r == [old EXCEPT !.at = "replace"]
    <3>1. saver' = [saver EXCEPT ![s] = r]
      BY <1>6, <2>3 DEF Config!Check, Config!Goes, ConfigInv
    <3>2. r \in Save /\ Knows(r, dest, backups, raced)
      BY <1>1, <2>1, <2>3 DEF Save, Knows
    <3> HIDE DEF r
    <3>3. QED  BY <2>1, <3>1, <3>2, SaverMoves
  <2>4. QED  BY <2>2, <2>3
<1>7. CASE Config!Verify(s)
  <2>1. UNCHANGED <<dest, synced, backups, past, kept, unsure, undone, raced>> /\ old.at = "verify"
    BY <1>7 DEF Config!Verify
  <2>2. CASE dest # old.text
    BY <1>2, <1>7, <2>1, <2>2 DEF Config!Verify
  <2>3. CASE dest = old.text
    <3> DEFINE r == [old EXCEPT !.at = "sync"]
    <3>1. saver' = [saver EXCEPT ![s] = r]
      BY <1>7, <2>3 DEF Config!Verify, Config!Goes, ConfigInv
    <3>2. r \in Save /\ Knows(r, dest, backups, raced)
      BY <1>1, <2>1, <2>3 DEF Save, Knows
    <3> HIDE DEF r
    <3>3. QED  BY <2>1, <3>1, <3>2, SaverMoves
  <2>4. QED  BY <2>2, <2>3
<1>8. CASE Config!Fail(s)
  BY <1>2, <1>8 DEF Config!Fail
<1>9. QED  BY <1>3, <1>4, <1>5, <1>6, <1>7, <1>8

LEMMA BackupSafe ==
  ASSUME ConfigInv, NEW s \in Savers, Config!Backup(s)
  PROVE  ConfigInv'
<1> DEFINE old == saver[s]
           r == [old EXCEPT !.at = "check"]
           new == <<dest, synced, backups'>>
<1>1. /\ old.at = "backup" /\ saver' = [saver EXCEPT ![s] = r]
      /\ backups' = backups \cup ({old.previous} \ {Absent})
      /\ past' = past \cup {new}
      /\ UNCHANGED <<dest, synced, kept, unsure, undone, raced>>
  BY DEF Config!Backup, Config!returns, Config!Goes, Config!At, Config!Enters, Config!files, ConfigInv, Absent
<1>2. old \in Save /\ Knows(old, dest, backups, raced)
  BY DEF ConfigInv
<1>3. dest \in Value /\ synced = TRUE /\ backups' \in SUBSET Value
  BY <1>1, <1>2, FilesTyped DEF Save
<1>4. /\ past' \subseteq Entries
      /\ <<dest, synced, backups>>' \in past'
  <2>1. new \in Entries
    BY <1>3, EntryTyped
  <2>2. <<dest, synced, backups>>' = new
    BY <1>1
  <2> HIDE DEF new
  <2>3. QED  BY <1>1, <2>1, <2>2 DEF ConfigInv
<1>5. /\ kept' \subseteq backups' \cup {dest'} \cup Excepted'
      /\ \A b \in past' : kept' \subseteq b[3] \cup {b[1]} \cup Excepted' \cup unsure'
  <2>1. kept \subseteq backups \cup {dest} \cup Excepted /\ Excepted' = Excepted
    BY <1>1 DEF ConfigInv, Excepted
  <2>2. kept \subseteq new[3] \cup {new[1]} \cup Excepted
    BY <1>1, <2>1
  <2>3. kept \subseteq backups' \cup {dest} \cup Excepted
    BY <1>1, <2>1
  <2> HIDE DEF new
  <2>4. QED  BY <1>1, <2>1, <2>2, <2>3 DEF ConfigInv
<1>6. r \in Save /\ Knows(r, dest, backups', raced)
  BY <1>1, <1>2 DEF Save, Knows
<1>7. ASSUME NEW t \in Savers, t # s PROVE Knows(saver[t], dest, backups', raced)
  BY <1>1 DEF ConfigInv, Knows
<1> HIDE DEF r
<1>8. saver' \in [Savers -> Save] /\ \A t \in Savers : saver'[t] = IF t = s THEN r ELSE saver[t]
  BY <1>1, <1>6 DEF ConfigInv
<1>9. \A t \in Savers : Knows(saver'[t], dest', backups', raced')
  BY <1>1, <1>6, <1>7, <1>8
<1>10. QED  BY <1>1, <1>4, <1>5, <1>8, <1>9 DEF ConfigInv

\* The text that is replaced was backed up, or it came after the last look, or there was
\* none.
Known(s) == dest \in backups \cup {Absent} \cup raced'

LEMMA ReplacedSafe ==
  ASSUME ConfigInv, NEW s \in Savers, Config!At(s, "replace"), Config!Replaced(s),
         Known(s), UNCHANGED <<kept, unsure, undone>>, raced \subseteq raced'
  PROVE  ConfigInv'
<1> DEFINE old == saver[s]
           new == <<old.text, TRUE, backups>>
<1>1. old \in Save /\ old.at = "replace" /\ Knows(old, dest, backups, raced)
  BY DEF ConfigInv, Config!At
<1>2. /\ dest' = old.text /\ synced' = TRUE /\ backups' = backups
      /\ past' = past \cup {new}
  BY <1>1 DEF Config!Replaced, Config!Enters, Config!files, Knows
<1>3. /\ saver' \in [Savers -> Save]
      /\ saver'[s] = [old EXCEPT !.at = "verify"]
      /\ \A t \in Savers : t # s =>
           saver'[t] = [saver[t] EXCEPT !.late = (saver[t].at = "replace")]
  <2>1. saver' = [t \in Savers |-> IF t = s THEN [saver[s] EXCEPT !.at = "verify"]
                    ELSE [saver[t] EXCEPT !.late = (saver[t].at = "replace")]]
    BY DEF Config!Replaced, Config!At
  <2>2. \A t \in Savers : saver[t] \in Save
    BY DEF ConfigInv
  <2>3. [old EXCEPT !.at = "verify"] \in Save
    BY <1>1 DEF Save
  <2>4. ASSUME NEW t \in Savers
        PROVE  [saver[t] EXCEPT !.late = (saver[t].at = "replace")] \in Save
    BY <2>2 DEF Save
  <2>5. QED  BY <2>1, <2>3, <2>4
<1>4. old.text \in Value /\ old.text # Absent /\ backups \in SUBSET Value
  BY <1>1, FilesTyped DEF Knows, Save
<1>5. /\ past' \subseteq Entries
      /\ <<dest, synced, backups>>' \in past'
  BY <1>2, <1>4, EntryTyped DEF ConfigInv
<1>6. Absent \notin kept
  BY TextsApart DEF ConfigInv
<1>7. kept \subseteq backups \cup {old.text} \cup Excepted' /\ Excepted \subseteq Excepted'
  <2>1. kept \subseteq backups \cup {dest} \cup raced \cup undone
    BY DEF ConfigInv, Excepted
  <2>2. QED  BY <1>6, <2>1 DEF Known, Excepted
<1>8. /\ kept' \subseteq backups' \cup {dest'} \cup Excepted'
      /\ \A b \in past' : kept' \subseteq b[3] \cup {b[1]} \cup Excepted' \cup unsure'
  <2>1. kept \subseteq new[3] \cup {new[1]} \cup Excepted'
    BY <1>7
  <2>2. \A b \in past : kept \subseteq b[3] \cup {b[1]} \cup Excepted' \cup unsure
    BY <1>7 DEF ConfigInv
  <2> HIDE DEF new
  <2>3. QED  BY <1>2, <1>7, <2>1, <2>2
<1>9. ASSUME NEW t \in Savers PROVE Knows(saver'[t], dest', backups', raced')
  <2>1. CASE t = s
    <3>1. saver'[s].at = "verify" /\ saver'[s].text = old.text
      BY <1>1, <1>3 DEF Save
    <3>2. QED  BY <1>4, <2>1, <3>1 DEF Knows
  <2>2. CASE t # s
    <3>1. saver[t] \in Save /\ Knows(saver[t], dest, backups, raced)
      BY DEF ConfigInv
    <3>2. /\ saver'[t].at = saver[t].at /\ saver'[t].text = saver[t].text
          /\ saver'[t].loaded = saver[t].loaded /\ saver'[t].previous = saver[t].previous
          /\ saver'[t].staged = saver[t].staged
          /\ saver'[t].late = (saver[t].at = "replace")
      BY <1>3, <2>2, <3>1 DEF Save
    <3>3. saver[t].at = "sync" => saver[t].text \in backups \cup {dest'} \cup raced'
      BY <3>1 DEF Knows, Known
    <3>4. QED  BY <1>2, <3>1, <3>2, <3>3 DEF Knows
  <2>3. QED  BY <2>1, <2>2
<1>10. QED  BY <1>3, <1>5, <1>8, <1>9 DEF ConfigInv

LEMMA ReplaceSafe ==
  ASSUME ConfigInv, NEW s \in Savers, Config!Link(s) \/ Config!Rename(s)
  PROVE  ConfigInv'
<1>1. CASE Config!Link(s)
  <2>1. CASE dest = Absent
    <3>1. /\ Config!At(s, "replace") /\ Config!Replaced(s)
          /\ UNCHANGED <<kept, unsure, undone, raced>>
      BY <1>1, <2>1 DEF Config!Link, Config!returns, Absent
    <3>2. Known(s)
      BY <2>1 DEF Known
    <3>3. QED  BY <3>1, <3>2, ReplacedSafe
  <2>2. CASE dest # Absent
    <3>1. Config!Ends(s) /\ UNCHANGED <<dest, synced, backups, past, kept, unsure, undone, raced>>
      BY <1>1, <2>2 DEF Config!Link, Config!files, Config!returns, Absent
    <3>2. QED  BY <3>1, IdleKnows, SaverMoves DEF Config!Ends
  <2>3. QED  BY <2>1, <2>2
<1>2. CASE Config!Rename(s)
  <2>1. /\ Config!At(s, "replace") /\ Config!Replaced(s) /\ UNCHANGED <<kept, unsure, undone>>
        /\ raced' = IF saver[s].late THEN raced \cup {dest} ELSE raced
    BY <1>2 DEF Config!Rename, Config!returns
  <2>2. Knows(saver[s], dest, backups, raced) /\ saver[s].at = "replace"
        /\ saver[s].late \in BOOLEAN
    BY <2>1 DEF ConfigInv, Config!At, Save
  <2>3. CASE saver[s].late
    <3>1. Known(s)
      BY <2>1, <2>3 DEF Known
    <3>2. raced \subseteq raced'
      BY <2>1, <2>3
    <3>3. QED  BY <2>1, <3>1, <3>2, ReplacedSafe
  <2>4. CASE ~saver[s].late
    <3>1. Known(s)
      BY <2>1, <2>2, <2>4 DEF Known, Knows
    <3>2. raced \subseteq raced'
      BY <2>1, <2>4
    <3>3. QED  BY <2>1, <3>1, <3>2, ReplacedSafe
  <2>5. QED  BY <2>3, <2>4
<1>3. QED  BY <1>1, <1>2

LEMMA SyncSafe ==
  ASSUME ConfigInv, NEW s \in Savers, Config!Sync(s)
  PROVE  ConfigInv'
<1> DEFINE text == saver[s].text
<1>1. /\ saver[s].at = "sync" /\ saver' = [saver EXCEPT ![s] = Config!Idle]
      /\ past' = {<<dest, synced, backups>>} /\ kept' = kept \cup {text}
      /\ undone' = undone \ {text}
      /\ UNCHANGED <<dest, synced, backups, raced>>
  BY DEF Config!Sync, Config!At, Config!Ends, Config!files
<1>2. saver[s] \in Save /\ Knows(saver[s], dest, backups, raced)
  BY DEF ConfigInv
<1>3. kept' \subseteq Text /\ kept' \subseteq backups \cup {dest} \cup Excepted'
  <2>1. text \in Text /\ text \in backups \cup {dest} \cup raced
    BY <1>1, <1>2 DEF Save, Value, Knows
  <2>2. kept \subseteq backups \cup {dest} \cup raced \cup undone
    BY DEF ConfigInv, Excepted
  <2> HIDE DEF text
  <2>3. QED  BY <1>1, <2>1, <2>2 DEF ConfigInv, Excepted
<1>4. saver' \in [Savers -> Save]
  BY <1>1, IdleKnows DEF ConfigInv
<1>5. \A t \in Savers : Knows(saver'[t], dest, backups, raced)
  BY <1>1, IdleKnows DEF ConfigInv
<1>6. /\ past' \subseteq Entries
      /\ \A b \in past' : kept' \subseteq b[3] \cup {b[1]} \cup Excepted' \cup unsure'
  <2>1. \A b \in past' : b = <<dest, synced, backups>>
    BY <1>1
  <2>2. <<dest, synced, backups>> \in Entries
    BY FilesTyped, EntryTyped
  <2>3. QED  BY <1>1, <1>3, <2>1, <2>2, EntryTyped
<1>7. QED  BY <1>1, <1>3, <1>4, <1>5, <1>6 DEF ConfigInv

LEMMA UnsyncedSafe ==
  ASSUME ConfigInv, NEW s \in Savers, Config!Return(s)
  PROVE  ConfigInv'
<1>1. /\ saver[s].at = "sync" /\ saver' = [saver EXCEPT ![s] = Config!Idle]
      /\ Config!Returned(saver[s].text)
      /\ UNCHANGED <<dest, synced, backups, past, raced>>
  BY DEF Config!Return, Config!At, Config!Ends, Config!files
<1>2. saver[s].text \in Text /\ saver[s].text \in backups \cup {dest} \cup raced
  BY <1>1 DEF ConfigInv, Save, Value, Knows
<1>3. QED  BY <1>1, <1>2, ReturnedSafe

LEMMA PowerSafe ==
  ASSUME ConfigInv, Config!PowerFails
  PROVE  ConfigInv'
<1>1. PICK before \in past :
        /\ dest' = IF before[2] \/ before[1] = Absent THEN before[1] ELSE Config!Torn
        /\ synced' = TRUE /\ backups' = before[3]
  BY DEF Config!PowerFails, Absent
<1>2. /\ saver' = [s \in Savers |-> Config!Idle]
      /\ past' = {<<dest', synced', backups'>>}
      /\ undone' = undone \cup (unsure \ (backups' \cup {dest'}))
      /\ UNCHANGED <<kept, raced>>
  BY DEF Config!PowerFails, Config!files
<1>3. before[1] \in Value /\ before[2] = TRUE /\ before[3] \in SUBSET Value
  BY EntryTyped DEF ConfigInv
<1>4. dest' = before[1]
  BY <1>1, <1>3
<1>5. kept \subseteq backups' \cup {dest'} \cup Excepted'
  <2>1. kept \subseteq backups' \cup {dest'} \cup raced \cup undone \cup unsure
    BY <1>1, <1>4 DEF ConfigInv, Excepted
  <2>2. QED  BY <1>2, <2>1 DEF Excepted
<1>6. /\ past' \subseteq Entries
      /\ \A b \in past' : kept' \subseteq b[3] \cup {b[1]} \cup Excepted' \cup unsure'
  <2>1. \A b \in past' : b = <<dest', synced', backups'>>
    BY <1>2
  <2>2. <<dest', synced', backups'>> \in Entries
    BY <1>1, <1>3, <1>4, EntryTyped
  <2>3. QED  BY <1>2, <1>5, <2>1, <2>2, EntryTyped
<1>7. saver' \in [Savers -> Save] /\ \A s \in Savers : Knows(saver'[s], dest', backups', raced')
  BY <1>2, IdleKnows
<1>8. QED  BY <1>2, <1>5, <1>6, <1>7 DEF ConfigInv

LEMMA ConfigStep == ConfigInv /\ [Config!Next]_(Config!vars) => ConfigInv'
<1>1. ConfigInv /\ UNCHANGED Config!vars => ConfigInv'
  BY DEF ConfigInv, Excepted, Config!vars, Config!files, Config!returns
<1>2. ASSUME ConfigInv, Config!Next PROVE ConfigInv'
  BY <1>2, MovesSafe, BackupSafe, ReplaceSafe, SyncSafe, UnsyncedSafe, PowerSafe DEF Config!Next
<1>3. QED  BY <1>1, <1>2

\* In every state, and in every state of the directory that a power failure may bring back
\* but for the unsure ones, the texts of the saves that returned are in the destination or
\* a backup, unless they are excepted.
THEOREM ConfigInvariant == MCSpec => []ConfigInv
BY ConfigInit, ConfigStep, ConfigSteps, PTL

\* A save replaces only what its own text was edited from.
LEMMA NoneBlindly ==
  ASSUME ConfigInv, Config!Next
  PROVE  \A s \in Savers :
           dest' # dest /\ Config!At(s, "replace") /\ saver'[s].at = "verify" =>
             saver[s].loaded \in {Absent, dest} \/ dest \in raced'
<1> SUFFICES ASSUME NEW s \in Savers, dest' # dest, saver[s].at = "replace",
                    saver'[s].at = "verify"
             PROVE  saver[s].loaded \in {Absent, dest} \/ dest \in raced'
  BY DEF Config!At
<1>1. /\ saver \in [Savers -> Save]
      /\ Knows(saver[s], dest, backups, raced)
  BY DEF ConfigInv
<1>2. ~Config!PowerFails
  BY DEF Config!PowerFails, Config!Idle
<1>3. PICK t \in Savers : Config!Link(t) \/ Config!Rename(t)
  BY <1>2 DEF Config!Next, Config!Load, Config!Look, Config!Stage, Config!Staged,
     Config!Backup, Config!Check, Config!Verify, Config!Sync, Config!Return,
     Config!Fail, Config!files
<1>4. Config!Replaced(t)
  BY <1>3 DEF Config!Link, Config!Rename, Config!files
<1>5. t = s
  <2>1. \A u \in Savers : u # t => saver'[u].at = saver[u].at
    BY <1>1, <1>4 DEF Config!Replaced, Save
  <2>2. QED  BY <2>1
<1>6. CASE Config!Link(s)
  <2>1. saver[s].previous = Absent
    BY <1>6 DEF Config!Link, Absent
  <2>2. QED  BY <1>1, <2>1 DEF Knows
<1>7. CASE Config!Rename(s)
  <2>1. raced' = IF saver[s].late THEN raced \cup {dest} ELSE raced
    BY <1>7 DEF Config!Rename
  <2>2. saver[s].late \in BOOLEAN
    BY <1>1 DEF Save
  <2>3. CASE saver[s].late
    BY <2>1, <2>3
  <2>4. CASE ~saver[s].late
    BY <1>1, <2>2, <2>4 DEF Knows
  <2>5. QED  BY <2>3, <2>4
<1>8. QED  BY <1>3, <1>5, <1>6, <1>7

\* No text of a save that returned is lost, whoever else saves and wherever a save, a
\* process or the power fails, but in the two cases that the property names.
THEOREM ConfigSavesKept == MCSpec => SavesKept
<1>1. ConfigInv => Config!SavedKept
  BY FilesTyped, TextsApart DEF ConfigInv, Excepted, Config!SavedKept
<1>2. ConfigInv /\ [Config!Next]_(Config!vars) =>
        [\A s \in Savers :
           dest' # dest /\ Config!At(s, "replace") /\ saver'[s].at = "verify" =>
             saver[s].loaded \in {Config!Absent, dest} \/ dest \in raced']_(Config!vars)
  BY NoneBlindly DEF Absent
<1>3. QED
  BY <1>1, <1>2, ConfigInvariant, ConfigSteps, PTL
  DEF SavesKept, Config!SavesKept, Config!NothingOverwrittenBlindly

-----------------------------------------------------------------------------
(***************************************************************************)
(* The J2534 bridge and the MDI server, for any number of buses, periodic  *)
(* reads and requests, wherever the link breaks and whoever crashes.       *)
(*                                                                         *)
(* The server writes a ticket only if it is larger than the last, which is *)
(* at least all that it has written; so order and uniqueness need nothing  *)
(* of the link.  That the firmware is told the truth is carried from place *)
(* to place: an ACCEPT is a line about a ticket that is on the wire, and   *)
(* the bridge takes an echo for a completion only after the ACCEPT.        *)
(***************************************************************************)
Content == [does : {"read", "start", "stop"}, id : Periodic \cup {"none"}]
LineSet == [what : {"tx", "quit", "accept", "heard", "end"}, c : Buses \cup {0}, ticket : Nat,
            content : Content]
Carried(c, k) == \E i \in DOMAIN wire[c] : wire[c][i] = k

\* What may be in the two queues.
Commands == {l \in LineSet : l.what = "tx" => l.c \in Buses /\ l.ticket \in 1..asked[l.c]}
Lines == {l \in LineSet : /\ l.what \in {"accept", "heard"} => l.c \in Buses
                          /\ l.what = "accept" => Carried(l.c, l.ticket)}

Counts ==
  /\ asked \in [Buses -> Nat] /\ wanted \in [Buses -> Nat] /\ told \in [Buses -> Nat]
  /\ last \in [Buses -> Nat] /\ tickets \in [Buses -> Nat]
  /\ \A c \in Buses : wanted[c] <= asked[c]

Wires ==
  /\ wire \in [Buses -> Seq(Nat)]
  /\ \A c \in Buses : \A i \in DOMAIN wire[c] : wire[c][i] <= tickets[c]

Queues == heard \in [Buses -> Seq(Content)] /\ down \in Seq(Commands) /\ up \in Seq(Lines)

Pendings ==
  /\ outstanding \in [Buses -> [ticket : Nat, content : Content, accepted : BOOLEAN]]
  /\ \A c \in Buses : outstanding[c].accepted => Carried(c, outstanding[c].ticket)

Reported == event # NoEvent => event.c \in Buses /\ Carried(event.c, event.ticket)

\* The inductive invariant.
BridgeInv == Counts /\ Wires /\ Queues /\ Pendings /\ Reported

\* A step of the promise, or of nothing that it speaks about.
Promised == [Promise!Next]_(Promise!vars)
-----------------------------------------------------------------------------
LEMMA ContentTypes ==
  /\ Ordinary \in Content
  /\ \A c : Contents(c) \subseteq Content
  /\ None \in [ticket : Nat, content : Content, accepted : BOOLEAN]
BY DEF Ordinary, Contents, Content, None

\* Lines that are in their queue, or were.
LEMMA QueueTypes ==
  /\ QuitLine \in Commands /\ EndLine \in Lines
  /\ \A S : \A s \in Seq(S) : \A n \in 0..Len(s) : SubSeq(s, 1, n) \in Seq(S)
  /\ \A S : \A s \in Seq(S) : s # <<>> => Head(s) \in S /\ Tail(s) \in Seq(S)
  /\ \A S : \A s \in Seq(S) : \A e \in S : Append(s, e) \in Seq(S)
<1>1. QuitLine \in Commands /\ EndLine \in Lines
  BY ContentTypes DEF QuitLine, EndLine, Line, Commands, Lines, LineSet
<1>2. QED  BY <1>1

\* A step that leaves firmware, bus, requests and tickets alone, and may take from the
\* queues or put good lines into them.
LEMMA Quiet ==
  ASSUME BridgeInv, UNCHANGED <<firmware, outstanding, last, tickets, wire>>,
         event' \in {event, NoEvent}, heard' \in [Buses -> Seq(Content)],
         down' \in Seq(Commands), up' \in Seq(Lines)
  PROVE  BridgeInv' /\ Promised
<1>1. Counts' /\ Wires'
  BY DEF BridgeInv, Counts, Wires, firmware
<1>2. Commands' = Commands /\ Lines' = Lines
  BY DEF Commands, Lines, Carried, firmware
<1>3. Queues'  BY <1>2 DEF Queues
<1>4. Pendings'  BY DEF BridgeInv, Pendings, Carried
<1>5. Reported'  BY DEF BridgeInv, Reported, Carried
<1>6. Promised  BY DEF Promised, Promise!vars, firmware
<1>7. QED  BY <1>1, <1>3, <1>4, <1>5, <1>6 DEF BridgeInv

LEMMA AskSafe ==
  ASSUME BridgeInv, NEW c \in Buses, Ask(c)
  PROVE  BridgeInv' /\ Promised
<1>1. /\ wanted[c] = 0 /\ asked' = [asked EXCEPT ![c] = @ + 1]
      /\ wanted' = [wanted EXCEPT ![c] = asked[c] + 1]
      /\ UNCHANGED <<told, outstanding, last, event, down, up, tickets, heard, wire>>
  BY DEF Ask, bridge, link, session, vehicle
<1>2. Counts'  BY <1>1 DEF BridgeInv, Counts
<1>3. Wires'  BY <1>1 DEF BridgeInv, Wires
<1>4. Commands \subseteq Commands'
  BY <1>1 DEF BridgeInv, Counts, Commands
<1>5. Lines' = Lines  BY <1>1 DEF Lines, Carried
<1>6. Queues'  BY <1>1, <1>4, <1>5 DEF BridgeInv, Queues
<1>7. Pendings' /\ Reported'
  BY <1>1 DEF BridgeInv, Pendings, Reported, Carried
<1>8. Promise!Ask(c)  BY <1>1 DEF Promise!Ask
<1>9. QED  BY <1>2, <1>3, <1>6, <1>7, <1>8 DEF BridgeInv, Promised, Promise!Next

LEMMA WithdrawSafe ==
  ASSUME BridgeInv, NEW c \in Buses, Withdraw(c)
  PROVE  BridgeInv' /\ Promised
<1>1. /\ wanted[c] # 0 /\ wanted' = [wanted EXCEPT ![c] = 0]
      /\ UNCHANGED <<asked, told, outstanding, last, event, down, up, tickets, heard, wire>>
  BY DEF Withdraw, bridge, link, session, vehicle
<1>2. Counts'  BY <1>1 DEF BridgeInv, Counts
<1>3. Wires'  BY <1>1 DEF BridgeInv, Wires
<1>4. Commands' = Commands /\ Lines' = Lines  BY <1>1 DEF Commands, Lines, Carried
<1>5. Queues'  BY <1>1, <1>4 DEF BridgeInv, Queues
<1>6. Pendings' /\ Reported'
  BY <1>1 DEF BridgeInv, Pendings, Reported, Carried
<1>7. Promise!Withdraw(c)  BY <1>1 DEF Promise!Withdraw
<1>8. QED  BY <1>2, <1>3, <1>5, <1>6, <1>7 DEF BridgeInv, Promised, Promise!Next

LEMMA TransmitSafe ==
  ASSUME BridgeInv, NEW c \in Buses, Transmit(c)
  PROVE  BridgeInv' /\ Promised
<1>0. /\ UNCHANGED <<firmware, up, tickets, heard, wire>>
      /\ wanted[c] > last[c]
  BY DEF Transmit, session, vehicle
<1>1. /\ UNCHANGED <<firmware, up, tickets, heard, wire>>
      /\ wanted[c] \in 1..asked[c] /\ wanted[c] \in Nat
  BY <1>0 DEF BridgeInv, Counts
<1>2. CASE Fails /\ UNCHANGED <<outstanding, last, down>>
  BY <1>1, <1>2, Quiet DEF Fails, BridgeInv, Queues
<1>3. CASE /\ \E x \in Contents(c) :
                /\ outstanding' = [outstanding EXCEPT ![c] =
                                     [None EXCEPT !.ticket = wanted[c], !.content = x]]
                /\ down' = IF "down" \in broken THEN down
                           ELSE Append(down, Line("tx", c, wanted[c], x))
           /\ last' = [last EXCEPT ![c] = wanted[c]]
           /\ UNCHANGED event
  <2>1. PICK x \in Content :
          /\ outstanding' = [outstanding EXCEPT ![c] =
                               [None EXCEPT !.ticket = wanted[c], !.content = x]]
          /\ down' = IF "down" \in broken THEN down
                     ELSE Append(down, Line("tx", c, wanted[c], x))
    BY <1>3, ContentTypes
  <2>2. Counts' /\ Wires'
    BY <1>1, <1>3 DEF BridgeInv, Counts, Wires, firmware
  <2>3. Commands' = Commands /\ Lines' = Lines
    BY <1>1 DEF Commands, Lines, Carried, firmware
  <2>4. Line("tx", c, wanted[c], x) \in Commands
    BY <1>1 DEF Line, Commands, LineSet
  <2>5. Queues'
    BY <1>1, <2>1, <2>3, <2>4 DEF BridgeInv, Queues
  <2>6. LET r == [None EXCEPT !.ticket = wanted[c], !.content = x]
        IN  r \in [ticket : Nat, content : Content, accepted : BOOLEAN] /\ ~r.accepted
    BY <1>1, ContentTypes DEF None
  <2>7. Pendings'
    BY <1>1, <2>1, <2>6 DEF BridgeInv, Pendings, Carried
  <2>8. Reported'  BY <1>1, <1>3 DEF BridgeInv, Reported, Carried
  <2>9. Promised  BY <1>1 DEF Promised, Promise!vars, firmware
  <2>10. QED  BY <2>2, <2>5, <2>7, <2>8, <2>9 DEF BridgeInv
<1>4. QED  BY <1>2, <1>3 DEF Transmit

LEMMA LineSafe ==
  ASSUME BridgeInv, PollLine
  PROVE  BridgeInv' /\ Promised
<1> DEFINE line == Head(up)
           c == line.c
           mine == outstanding[c]
<1>1. /\ up # <<>> /\ up' = Tail(up)
      /\ UNCHANGED <<firmware, last, down, tickets, heard, wire>>
  BY DEF PollLine, session, vehicle
<1>2. line \in Lines /\ up' \in Seq(Lines)
  BY <1>1, QueueTypes DEF BridgeInv, Queues
<1>3. heard' \in [Buses -> Seq(Content)] /\ down' \in Seq(Commands)
  BY <1>1 DEF BridgeInv, Queues
<1>4. CASE Fails /\ UNCHANGED outstanding
  BY <1>1, <1>2, <1>3, <1>4, Quiet DEF Fails
<1>5. /\ Counts' /\ Wires'
      /\ Commands' = Commands /\ Lines' = Lines
      /\ Queues' /\ Promised
  BY <1>1, <1>2, <1>3
  DEF BridgeInv, Counts, Wires, Queues, Commands, Lines, Carried, Promised, Promise!vars, firmware
<1>6. ASSUME NEW d \in Buses, NEW r,
             r \in [ticket : Nat, content : Content, accepted : BOOLEAN],
             r.accepted => Carried(d, r.ticket), outstanding' = [outstanding EXCEPT ![d] = r]
      PROVE  Pendings'
  BY <1>1, <1>6 DEF BridgeInv, Pendings, Carried
<1>7. CASE /\ line.what = "accept"
           /\ mine.ticket = line.ticket
           /\ outstanding' = [outstanding EXCEPT ![c].accepted = TRUE]
           /\ UNCHANGED event
  <2>1. c \in Buses /\ Carried(c, line.ticket)
    BY <1>2, <1>7 DEF Lines
  <2>2. mine \in [ticket : Nat, content : Content, accepted : BOOLEAN]
    BY <2>1 DEF BridgeInv, Pendings
  <2> DEFINE r == [mine EXCEPT !.accepted = TRUE]
  <2>3. r \in [ticket : Nat, content : Content, accepted : BOOLEAN] /\ r.ticket = mine.ticket
    BY <2>2
  <2>4. outstanding' = [outstanding EXCEPT ![c] = r]
    BY <1>7
  <2>5. Pendings'  BY <1>6, <1>7, <2>1, <2>3, <2>4
  <2>6. Reported'  BY <1>1, <1>7 DEF BridgeInv, Reported, Carried
  <2>7. QED  BY <1>5, <2>5, <2>6 DEF BridgeInv
<1>8. CASE /\ line.what = "heard"
           /\ mine.accepted
           /\ outstanding' = [outstanding EXCEPT ![c] = None]
           /\ event' = [c |-> c, ticket |-> mine.ticket]
  <2>1. c \in Buses  BY <1>2, <1>8 DEF Lines
  <2>2. Carried(c, mine.ticket)  BY <1>8, <2>1 DEF BridgeInv, Pendings
  <2>3. Pendings'  BY <1>6, <1>8, <2>1, ContentTypes DEF None
  <2>4. Reported'  BY <1>1, <1>8, <2>1, <2>2 DEF Reported, Carried
  <2>5. QED  BY <1>5, <2>3, <2>4 DEF BridgeInv
<1>9. \/ Fails /\ UNCHANGED outstanding
      \/ /\ line.what = "accept"
         /\ mine.ticket = line.ticket
         /\ outstanding' = [outstanding EXCEPT ![c].accepted = TRUE]
         /\ UNCHANGED event
      \/ /\ line.what = "heard"
         /\ mine.accepted
         /\ outstanding' = [outstanding EXCEPT ![c] = None]
         /\ event' = [c |-> c, ticket |-> mine.ticket]
  BY Zenon DEF PollLine
<1>10. QED  BY <1>4, <1>7, <1>8, <1>9

\* A completion reaches the controller that still wants it, or nobody.
LEMMA ReturnSafe ==
  ASSUME BridgeInv, PollReturns
  PROVE  BridgeInv' /\ Promised
<1>1. /\ event' = NoEvent
      /\ UNCHANGED <<asked, outstanding, last, down, up, tickets, heard, wire>>
  BY DEF PollReturns, link, session, vehicle
<1>2. CASE UNCHANGED <<told, wanted>>
  <2>1. UNCHANGED firmware  BY <1>1, <1>2 DEF firmware
  <2>2. QED  BY <1>1, <2>1, Quiet DEF BridgeInv, Queues
<1>3. CASE /\ event.ticket # 0 /\ wanted[event.c] = event.ticket
           /\ told' = [told EXCEPT ![event.c] = event.ticket]
           /\ wanted' = [wanted EXCEPT ![event.c] = 0]
  <2>1. event.c \in Buses /\ Carried(event.c, event.ticket)
    BY <1>3 DEF BridgeInv, Reported, NoEvent
  <2>2. event.ticket \in Nat /\ wanted[event.c] \in Promise!OnWire(event.c)
    BY <1>3, <2>1 DEF BridgeInv, Counts, Carried, Promise!OnWire
  <2>3. Counts'  BY <1>1, <1>3, <2>1, <2>2 DEF BridgeInv, Counts
  <2>4. Wires'  BY <1>1 DEF BridgeInv, Wires
  <2>5. Commands' = Commands /\ Lines' = Lines  BY <1>1 DEF Commands, Lines, Carried
  <2>6. Queues'  BY <1>1, <2>5 DEF BridgeInv, Queues
  <2>7. Pendings' /\ Reported'
    BY <1>1 DEF BridgeInv, Pendings, Reported, Carried
  <2>8. Promise!Tell(event.c)
    BY <1>1, <1>3, <2>1, <2>2 DEF Promise!Tell
  <2>9. QED  BY <2>1, <2>3, <2>4, <2>6, <2>7, <2>8 DEF BridgeInv, Promised, Promise!Next
<1>4. QED  BY <1>2, <1>3 DEF PollReturns

\* The other steps of the emulator, and those of the link.
LEMMA HostSafe ==
  ASSUME BridgeInv,
         PollBegin \/ PollEmpty \/ PollFails \/ Close \/ Crash \/ Closed \/ BreakDown \/ BreakUp
  PROVE  BridgeInv' /\ Promised
<1>1. /\ heard \in [Buses -> Seq(Content)] /\ down \in Seq(Commands) /\ up \in Seq(Lines)
  BY DEF BridgeInv, Queues
<1>2. /\ UNCHANGED <<firmware, outstanding, last, tickets, wire, heard>>
      /\ event' \in {event, NoEvent}
  BY DEF PollBegin, PollEmpty, PollFails, Close, Crash, Closed, BreakDown, BreakUp, Fails,
         bridge, link, session, vehicle
<1>3. down' \in Seq(Commands)
  <2>1. CASE Close
    <3>1. down' \in {down, Append(down, QuitLine)}  BY <2>1 DEF Close
    <3>2. QED  BY <1>1, <3>1, QueueTypes
  <2>2. CASE BreakDown
    <3>1. PICK n \in 0..Len(down) : down' = SubSeq(down, 1, n)  BY <2>2 DEF BreakDown
    <3>2. QED  BY <1>1, <3>1, QueueTypes
  <2>3. CASE UNCHANGED down
    BY <1>1, <2>3
  <2>4. QED
    BY <2>1, <2>2, <2>3
    DEF PollBegin, PollEmpty, PollFails, Crash, Closed, BreakUp, link
<1>4. up' \in Seq(Lines)
  <2>1. CASE BreakUp
    <3>1. PICK n \in 0..Len(up) : up' = SubSeq(up, 1, n)  BY <2>1 DEF BreakUp
    <3>2. QED  BY <1>1, <3>1, QueueTypes
  <2>2. CASE UNCHANGED up
    BY <1>1, <2>2
  <2>3. QED
    BY <2>1, <2>2
    DEF PollBegin, PollEmpty, PollFails, Close, Crash, Closed, BreakDown, link
<1>5. QED  BY <1>1, <1>2, <1>3, <1>4, Quiet
-----------------------------------------------------------------------------
LEMMA CommandSafe ==
  ASSUME BridgeInv, Command
  PROVE  BridgeInv' /\ Promised
<1>1. PICK l \in Commands :
        /\ l.what = "tx" /\ l.ticket > tickets[l.c] /\ down' = Tail(down)
        /\ tickets' = [tickets EXCEPT ![l.c] = l.ticket]
        /\ Write(l.c, l.ticket, l.content)
        /\ down' \in Seq(Commands)
  BY QueueTypes DEF Command, BridgeInv, Queues
<1>2. PICK c \in Buses, k \in Nat, x \in Content :
        /\ k > tickets[c] /\ k <= asked[c]
        /\ tickets' = [tickets EXCEPT ![c] = k]
        /\ Write(c, k, x)
  <2>1. l.c \in Buses /\ l.ticket \in Nat /\ l.content \in Content /\ l.ticket <= asked[l.c]
    BY <1>1 DEF Commands, LineSet, BridgeInv, Counts
  <2>2. QED  BY <1>1, <2>1, Zenon
<1>3. /\ UNCHANGED <<firmware, outstanding, last, event>>
      /\ down' \in Seq(Commands)
  BY <1>1 DEF Command, bridge
<1>4. Counts'
  BY <1>2, <1>3 DEF BridgeInv, Counts, firmware
<1>5. Commands' = Commands  BY <1>3 DEF Commands, firmware
<1>6. CASE UNCHANGED vehicle /\ UNCHANGED up
  <2>1. UNCHANGED <<wire, heard>>  BY <1>6 DEF vehicle
  <2>2. Wires'
    BY <1>2, <1>3, <2>1 DEF BridgeInv, Wires, Counts
  <2>3. Queues' /\ Pendings' /\ Reported'
    BY <1>2, <1>3, <1>5, <1>6, <2>1
    DEF BridgeInv, Queues, Pendings, Reported, Carried, Lines
  <2>4. Promised  BY <1>2, <1>3, <2>1 DEF Promised, Promise!vars, firmware
  <2>5. QED  BY <1>4, <2>2, <2>3, <2>4 DEF BridgeInv
<1>7. CASE /\ wire' = [wire EXCEPT ![c] = Append(@, k)] /\ Sent(c, x)
           /\ up' = up \/ up' = Append(up, Line("accept", c, k, x))
  <2>1. wire[c] \in Seq(Nat) /\ wire'[c] = Append(wire[c], k)
        /\ wire' \in [Buses -> Seq(Nat)]
    BY <1>2, <1>7 DEF BridgeInv, Wires
  <2> DEFINE n == Len(wire[c])
  <2>a. /\ n \in Nat /\ DOMAIN wire[c] = 1..n /\ DOMAIN wire'[c] = 1..(n + 1)
        /\ wire'[c][n + 1] = k /\ \A i \in 1..n : wire'[c][i] = wire[c][i]
    BY <2>1
  <2>b. \A d \in Buses \ {c} : wire'[d] = wire[d]
    BY <1>7 DEF BridgeInv, Wires
  <2> HIDE DEF n
  <2>2. ASSUME NEW d \in Buses, NEW j, Carried(d, j)  PROVE  Carried(d, j)'
    <3>1. PICK i \in DOMAIN wire[d] : wire[d][i] = j  BY <2>2 DEF Carried
    <3>2. CASE d = c
      <4>1. i \in 1..n /\ i \in 1..(n + 1)
        BY <2>a, <3>1, <3>2
      <4>2. wire'[c][i] = j
        BY <2>a, <3>1, <3>2, <4>1
      <4>3. QED  BY <2>a, <3>2, <4>1, <4>2 DEF Carried
    <3>3. CASE d # c
      BY <2>b, <3>1, <3>3 DEF Carried
    <3>4. QED  BY <3>2, <3>3
  <2>3. Carried(c, k)'
    BY <2>a DEF Carried
  <2>c. \A i \in 1..n : wire[c][i] \in Nat /\ wire[c][i] < k
    <3>1. \A i \in 1..n : wire[c][i] \in Nat
      BY <2>1, <2>a
    <3>2. tickets[c] \in Nat /\ \A i \in 1..n : wire[c][i] <= tickets[c]
      BY <2>a DEF BridgeInv, Wires, Counts
    <3>3. QED  BY <1>2, <3>1, <3>2
  <2>4. Wires'
    <3>1. tickets'[c] = k
      BY <1>2 DEF BridgeInv, Counts
    <3>2. \A i \in DOMAIN wire'[c] : wire'[c][i] <= tickets'[c]
      BY <2>a, <2>c, <3>1
    <3>3. \A d \in Buses \ {c} : wire'[d] = wire[d] /\ tickets'[d] = tickets[d]
      BY <1>2, <1>3, <1>7 DEF BridgeInv, Wires, Counts
    <3>4. QED  BY <2>1, <3>2, <3>3 DEF BridgeInv, Wires
  <2>5. Lines \subseteq Lines'
    BY <2>2 DEF Lines
  <2>6. Line("accept", c, k, x) \in Lines'
    BY <1>2, <2>3 DEF Line, Lines, LineSet
  <2>7. heard' \in [Buses -> Seq(Content)]
    <3>1. heard \in [Buses -> Seq(Content)]  BY DEF BridgeInv, Queues
    <3>2. heard' = heard \/ heard' = [heard EXCEPT ![c] = Append(@, x)]
      BY <1>7 DEF Sent
    <3>3. Append(heard[c], x) \in Seq(Content)  BY <3>1
    <3>4. QED  BY <3>1, <3>2, <3>3
  <2>8. up' \in Seq(Lines')
    <3>1. up \in Seq(Lines')  BY <2>5 DEF BridgeInv, Queues
    <3>2. QED  BY <1>7, <2>6, <3>1, QueueTypes
  <2>9. Queues'
    BY <1>3, <1>5, <2>7, <2>8 DEF Queues
  <2>10. Pendings'
    BY <1>2, <1>3, <2>2 DEF BridgeInv, Pendings
  <2>11. Reported'
    BY <1>2, <1>3, <2>2 DEF BridgeInv, Reported
  <2>12. Promise!Carry(c, k)
    <3>1. \A j \in Promise!OnWire(c) : j < k
      BY <2>a, <2>c DEF Promise!OnWire
    <3>2. QED  BY <1>2, <1>3, <1>7, <3>1 DEF Promise!Carry, firmware
  <2>13. Promised
    <3>1. k \in 1..asked[c]  BY <1>2 DEF BridgeInv, Counts
    <3>2. QED  BY <2>12, <3>1 DEF Promised, Promise!Next
  <2>14. QED  BY <1>4, <2>4, <2>9, <2>10, <2>11, <2>13 DEF BridgeInv
<1>8. QED
  BY <1>2, <1>6, <1>7 DEF Write, WriteSucceeds, WriteFails, Say

\* The other steps of the server.
LEMMA ServerSafe ==
  ASSUME BridgeInv,
         \/ Refused \/ Quit \/ NoCommand \/ GivesUp \/ Received \/ End \/ Kill
         \/ \E c \in Buses : Receive(c)
         \/ \E p \in Periodic : StopReading(p)
  PROVE  BridgeInv' /\ Promised
<1>1. /\ heard \in [Buses -> Seq(Content)] /\ down \in Seq(Commands) /\ up \in Seq(Lines)
  BY DEF BridgeInv, Queues
<1>2. UNCHANGED <<firmware, outstanding, last, event, tickets, wire>>
  BY DEF Refused, Quit, NoCommand, GivesUp, Received, End, Kill, Receive, StopReading,
         bridge, link, session, vehicle
<1>3. down' \in Seq(Commands)
  <2>1. \/ UNCHANGED down
        \/ down # <<>> /\ down' = Tail(down)
    BY DEF Refused, Quit, NoCommand, GivesUp, Received, End, Kill, Receive, StopReading, link
  <2>2. QED  BY <1>1, <2>1, QueueTypes
<1>4. CASE \E c \in Buses : Receive(c)
  <2>1. PICK c \in Buses : Receive(c)  BY <1>4
  <2>2. /\ heard[c] # <<>> /\ heard' = [heard EXCEPT ![c] = Tail(@)]
        /\ up' = up \/ up' = Append(up, Line("heard", c, 0, Head(heard[c])))
    BY <2>1 DEF Receive, Say
  <2>3. heard[c] \in Seq(Content)  BY <1>1
  <2>4. Head(heard[c]) \in Content /\ Tail(heard[c]) \in Seq(Content)
    BY <2>2, <2>3, QueueTypes
  <2>5. heard' \in [Buses -> Seq(Content)]  BY <1>1, <2>2, <2>4
  <2>6. Line("heard", c, 0, Head(heard[c])) \in Lines
    BY <2>4 DEF Line, Lines, LineSet
  <2>7. up' \in Seq(Lines)  BY <1>1, <2>2, <2>6, QueueTypes
  <2>8. QED  BY <1>2, <1>3, <2>5, <2>7, Quiet
<1>5. CASE \/ Refused \/ Quit \/ NoCommand \/ GivesUp \/ Received \/ End \/ Kill
           \/ \E p \in Periodic : StopReading(p)
  <2>1. UNCHANGED heard
    BY <1>5 DEF Refused, Quit, NoCommand, GivesUp, Received, End, Kill, StopReading, vehicle
  <2>2. up' = up \/ up' = Append(up, EndLine)
    BY <1>5 DEF Refused, Quit, NoCommand, GivesUp, Received, End, Kill, StopReading, link
  <2>3. up' \in Seq(Lines)  BY <1>1, <2>2, QueueTypes
  <2>4. QED  BY <1>1, <1>2, <1>3, <2>1, <2>3, Quiet
<1>6. QED  BY <1>4, <1>5
-----------------------------------------------------------------------------
LEMMA BridgeInit == Init => BridgeInv /\ Promise!Init
<1> SUFFICES ASSUME Init PROVE BridgeInv /\ Promise!Init
  OBVIOUS
<1>1. /\ asked = [c \in Buses |-> 0] /\ wanted = asked /\ told = asked /\ last = asked
      /\ outstanding = [c \in Buses |-> None] /\ event = NoEvent
      /\ down = <<>> /\ up = <<>> /\ tickets = asked
      /\ heard = [c \in Buses |-> <<>>] /\ wire = heard
  BY DEF Init, Blank
<1>2. Counts /\ Wires /\ Queues /\ Reported
  BY <1>1 DEF Counts, Wires, Queues, Reported
<1>3. Pendings
  BY <1>1, ContentTypes DEF Pendings, None
<1>4. Promise!Init
  BY <1>1 DEF Promise!Init
<1>5. QED  BY <1>2, <1>3, <1>4 DEF BridgeInv

\* Every step keeps the invariant and the promise.
LEMMA BridgeStep == BridgeInv /\ [Next]_vars => BridgeInv' /\ Promised
<1> SUFFICES ASSUME BridgeInv, [Next]_vars PROVE BridgeInv' /\ Promised
  OBVIOUS
<1>1. CASE UNCHANGED vars
  <2>1. UNCHANGED <<firmware, outstanding, last, event, down, up, tickets, heard, wire>>
    BY <1>1 DEF vars, bridge, link, session, vehicle
  <2>2. QED  BY <2>1, Quiet DEF BridgeInv, Queues
<1>2. CASE Next
  BY <1>2, AskSafe, WithdrawSafe, TransmitSafe, LineSafe, ReturnSafe, HostSafe, CommandSafe,
     ServerSafe
  DEF Next, Poll, Server
<1>3. QED  BY <1>1, <1>2

\* The inductive invariant: a ticket on the wire is at most the last that the server
\* took, and ACCEPT lines, accepted requests and completions are about tickets that
\* are on the wire.
THEOREM MdiBridgeInvariant == Spec => []BridgeInv
<1>1. QED  BY BridgeInit, BridgeStep, PTL DEF Spec

\* Each request is written to the bus at most once and in order, and the firmware is
\* told only of the request it still wants, when the bus has it.
THEOREM MdiBridgeKeepsPromise == Spec => BridgeKept
<1>1. Spec => [][Promise!Next]_(Promise!vars)
  BY MdiBridgeInvariant, BridgeStep, PTL DEF Spec, Promised
<1>2. QED  BY <1>1, BridgeInit, PTL DEF Spec, BridgeKept, Promise!Spec
=============================================================================
