------------------------------ MODULE NanoBridge ------------------------------
(***************************************************************************)
(* The USB session of the VCX Nano (vcx_nano/backend.rs, TxLedger of       *)
(* vcx_nano/native.rs, CommandGate of common/policy.rs).                   *)
(*                                                                         *)
(* Two threads: the emulator, which calls transmit, poll and close, and    *)
(* the worker, which owns the adapter.  Between them: the commands, the    *)
(* events and one error.  A frame passes the same gate twice: when the     *)
(* emulator hands it over and when the worker takes it.                    *)
(*                                                                         *)
(* Abstractions.  A frame is its number and its kind: an engine request in *)
(* one frame, the first frame of a longer one or a continuation with its   *)
(* sequence number, or a frame of the other bus; the requests a profile    *)
(* forbids are left out.  Of the guest and its controllers there is what   *)
(* they hand over: in a poll each controller may hand over one frame, the  *)
(* frame before it completed, refused, on its way or withdrawn by an abort *)
(* or a reset (CanLink has them in detail).  A completion that cannot be   *)
(* applied ends the session, which may end at any moment.  The set-up of a *)
(* channel and its shut-down are one exchange each.  Time: a deadline may  *)
(* pass at any moment.                                                     *)
(***************************************************************************)
EXTENDS Naturals, Sequences, FiniteSets

CONSTANTS
  Continuations,  \* continuations of a request that does not fit one frame
  Slots,          \* commands that can wait (16)
  Turn,           \* commands the worker takes in a turn (16)
  Batch,          \* events a poll takes (64)
  Capacity,       \* events that can wait (4096)
  MaxFrames       \* bound of the model: frames the guest transmits or receives

\* What a session has to satisfy: a request that spans frames has at least one
\* continuation, being longer than what its first frame takes (policy.rs).
SessionAssumption ==
  Continuations \in Nat \ {0} /\ Slots \in Nat /\ Turn \in Nat /\ Batch \in Nat

VARIABLES
  sent,       \* the frames handed over
  offers,     \* the buses whose controllers may hand over a frame in this poll
  gate,       \* the gate of the bridge
  bridge,     \* the emulator: what it does with the bridge
  stop,       \* the worker is told to stop; the sender of commands is gone
  commands,
  worker,     \* the step the worker is at, and commands left in its turn
  ledger,     \* the gate of the worker
  current,    \* the frame it writes
  opened,     \* channels it will shut down
  allocated,  \* channels that are open in the adapter
  broken,     \* history: a shut-down was not acknowledged
  wire,       \* history: the frames written, each with its outcome
  received,   \* frames received
  events,
  error,      \* the channel of one error
  taken       \* history: the events the emulator has taken

emulator == <<sent, offers, gate, bridge, stop, taken>>
adapter == <<opened, allocated, broken>>
vars == <<emulator, commands, worker, ledger, current, adapter, wire, received, events, error>>

Channels == {0, 1}
NoPacket == [left |-> 0, seq |-> 0, late |-> FALSE]
NoFrame == [id |-> 0, kind |-> "none", seq |-> 0]
Kinds == {[kind |-> k, seq |-> 0] : k \in {"single", "first", "body"}}
         \cup {[kind |-> "continuation", seq |-> s] : s \in 1..Continuations}
Frame(k) == [id |-> Len(sent) + 1, kind |-> k.kind, seq |-> k.seq]
-----------------------------------------------------------------------------
(***************************************************************************)
(* The gate.                                                               *)
(***************************************************************************)

\* Mutant: a request in one frame is let through between continuations.
Allowed_Between(g, f) ==
  CASE f.kind = "first" -> g.left = 0
    [] f.kind = "continuation" -> g.left > 0 /\ ~g.late /\ f.seq = g.seq
    [] OTHER -> TRUE

\* A continuation that is neither late nor out of order; another request of the
\* engine only when no continuation is due, were it overdue.
Allowed(g, f) ==
  CASE f.kind = "first" -> g.left = 0
    [] f.kind = "continuation" -> g.left > 0 /\ ~g.late /\ f.seq = g.seq
    [] f.kind = "single" -> g.left = 0
    [] OTHER -> TRUE

\* The gate after a frame it has let through; the deadline is set anew.
Passed(g, f) ==
  CASE f.kind = "first" -> [left |-> Continuations, seq |-> 1, late |-> FALSE]
    [] f.kind = "continuation" ->
         IF g.left = 1 THEN NoPacket ELSE [left |-> g.left - 1, seq |-> g.seq + 1, late |-> FALSE]
    [] OTHER -> g

Overdue(g) == g.left > 0 /\ ~g.late
BridgeGateLate ==
  /\ Overdue(gate) /\ bridge = "open"
  /\ gate' = [gate EXCEPT !.late = TRUE]
  /\ UNCHANGED <<sent, offers, bridge, stop, taken, commands, worker, ledger, current, adapter,
                 wire, received, events, error>>
LedgerGateLate ==
  /\ Overdue(ledger) /\ worker.at = "turn"
  /\ ledger' = [ledger EXCEPT !.late = TRUE]
  /\ UNCHANGED <<emulator, commands, worker, current, adapter, wire, received, events, error>>
-----------------------------------------------------------------------------
(***************************************************************************)
(* The emulator.                                                           *)
(***************************************************************************)
OfWorker == <<worker, ledger, current, adapter, wire, received>>
Bus(f) == IF f.kind = "body" THEN 2 ELSE 0

\* After the events of a poll the controllers are asked in turn, each once, for a frame
\* they have not handed over; what became of the frame before it does not matter.
Offered(k) ==
  /\ bridge = "open" /\ worker.at # "setup" /\ Len(sent) + received < MaxFrames
  /\ Bus(k) \in offers
  /\ offers' = {b \in offers : b > Bus(k)}

\* There is no room in the queue of commands, or nobody left to take them.
Blocked == Len(commands) >= Slots \/ worker.at = "end"

Transmit(k) ==
  /\ Offered(k) /\ Allowed(gate, k) /\ ~Blocked
  /\ gate' = Passed(gate, k)
  /\ sent' = Append(sent, Frame(k))
  /\ commands' = Append(commands, Frame(k))
  /\ UNCHANGED <<bridge, stop, taken, OfWorker, events, error>>

\* The gate refuses the frame: the error ends the session of the emulator.
Refuse(k) ==
  /\ Offered(k) /\ ~Allowed(gate, k)
  /\ bridge' = "failed"
  /\ UNCHANGED <<sent, gate, stop, taken, commands, OfWorker, events, error>>

\* Mutant: the result of the queue is not looked at.
Overflow_Ignored(k) ==
  /\ Offered(k) /\ Allowed(gate, k) /\ Blocked
  /\ gate' = Passed(gate, k)
  /\ sent' = Append(sent, Frame(k))
  /\ UNCHANGED <<bridge, stop, taken, commands, OfWorker, events, error>>

\* The queue refuses a frame that the gate has let through: an error as well.
Overflow(k) ==
  /\ Offered(k) /\ Allowed(gate, k) /\ Blocked
  /\ gate' = Passed(gate, k)
  /\ bridge' = "failed"
  /\ UNCHANGED <<sent, stop, taken, commands, OfWorker, events, error>>

\* `poll` looks for an error first,
PollError ==
  /\ bridge = "open"
  /\ IF error THEN bridge' = "failed" /\ error' = FALSE
     ELSE bridge' = "poll" /\ UNCHANGED error
  /\ offers' = {}
  /\ UNCHANGED <<sent, gate, stop, taken, commands, OfWorker, events>>

\* then takes events; those it has taken are lost when it finds the worker gone.
PollEvents ==
  /\ bridge = "poll"
  /\ LET n == IF Len(events) < Batch THEN Len(events) ELSE Batch
         gone == worker.at = "end" /\ n < Batch
     IN /\ events' = SubSeq(events, n + 1, Len(events))
        /\ bridge' = IF gone THEN "failed" ELSE "open"
        /\ offers' = IF gone THEN {} ELSE {0, 2}
        /\ taken' = IF gone THEN taken ELSE taken \o SubSeq(events, 1, n)
  /\ UNCHANGED <<sent, gate, stop, commands, OfWorker, error>>

\* After an error, and when the session ends: the worker is told to stop, the sender
\* is dropped and the worker joined.
Close ==
  /\ bridge \in {"open", "failed"} /\ ~stop
  /\ stop' = TRUE
  /\ bridge' = "closing" /\ offers' = {}
  /\ UNCHANGED <<sent, gate, taken, commands, OfWorker, events, error>>

Joined ==
  /\ bridge = "closing" /\ worker.at = "end"
  /\ bridge' = "closed"
  /\ UNCHANGED <<sent, offers, gate, stop, taken, commands, OfWorker, events, error>>
-----------------------------------------------------------------------------
(***************************************************************************)
(* The worker.                                                             *)
(***************************************************************************)
At(step) == [at |-> step, left |-> Turn]
\* An error ends the work; the channels are shut down before it is reported.
Failing == worker' = [at |-> "cleanup", left |-> 1]
Ending == worker' = [at |-> "cleanup", left |-> 0]

\* Mutant: a channel is marked only when it has been set up.
Setup_MarksLate(c) ==
  /\ worker.at = "setup" /\ opened = {d \in Channels : d < c}
  /\ \/ /\ allocated' = allocated \cup {c}
        /\ opened' = opened \cup {c}
        /\ worker' = IF c = 1 THEN At("turn") ELSE worker
     \/ /\ allocated' \in {allocated, allocated \cup {c}}
        /\ opened' = opened
        /\ Failing
  /\ UNCHANGED <<emulator, commands, ledger, current, broken, wire, received, events, error>>

\* A channel is marked, then set up.  What fails or is cancelled may have been done.
Setup(c) ==
  /\ worker.at = "setup" /\ opened = {d \in Channels : d < c}
  /\ opened' = opened \cup {c}
  /\ \/ /\ allocated' = allocated \cup {c}
        /\ worker' = IF c = 1 THEN At("turn") ELSE worker
     \/ /\ allocated' \in {allocated, allocated \cup {c}}
        /\ Failing
  /\ UNCHANGED <<emulator, commands, ledger, current, broken, wire, received, events, error>>

\* `while !cancelled`; a session of 300 seconds has an end too.
NextTurn ==
  /\ worker.at = "loop"
  /\ \/ stop /\ Ending
     \/ ~stop /\ worker' = At("turn")
     \/ ~stop /\ Failing
  /\ UNCHANGED <<emulator, commands, ledger, current, adapter, wire, received, events, error>>

\* The frame passes the second gate or ends the work.
Prepare ==
  /\ worker.at = "turn" /\ worker.left > 0 /\ commands # <<>>
  /\ commands' = Tail(commands)
  /\ current' = Head(commands)
  /\ IF Allowed(ledger, Head(commands))
       THEN /\ ledger' = Passed(ledger, Head(commands))
            /\ worker' = [worker EXCEPT !.at = "write"]
       ELSE Failing /\ UNCHANGED ledger
  /\ UNCHANGED <<emulator, adapter, wire, received, events, error>>

NoCommand ==
  /\ worker.at = "turn" /\ (worker.left = 0 \/ commands = <<>>)
  /\ IF stop /\ worker.left > 0 THEN Ending ELSE worker' = At("receive")
  /\ UNCHANGED <<emulator, commands, ledger, current, adapter, wire, received, events, error>>

Outcomes == {"written", "late", "failed"}
Write ==
  /\ worker.at = "write"
  /\ \E outcome \in Outcomes : wire' = Append(wire, [frame |-> current, outcome |-> outcome])
  /\ worker' = [worker EXCEPT !.at = "finish"]
  /\ UNCHANGED <<emulator, commands, ledger, current, adapter, received, events, error>>

Credit(outcomes) ==
  /\ worker.at = "finish"
  /\ IF wire[Len(wire)].outcome \in outcomes /\ Len(events) < Capacity
       THEN /\ events' = Append(events, current)
            /\ worker' = [at |-> "turn", left |-> worker.left - 1]
       ELSE Failing /\ UNCHANGED events
  /\ UNCHANGED <<emulator, commands, ledger, current, adapter, wire, received, error>>

\* Mutant: the deadline is not looked at once the write has returned.
Finish_Late == Credit({"written", "late"})

\* The completion of a write that is whole and in time; the events may be full.
Finish == Credit({"written"})

\* A frame, an error of the adapter or nothing.
Receive ==
  /\ worker.at = "receive"
  /\ \/ /\ Len(sent) + received < MaxFrames /\ received' = received + 1
        /\ IF Len(events) < Capacity
             THEN events' = Append(events, NoFrame) /\ worker' = At("loop")
             ELSE Failing /\ UNCHANGED events
     \/ (worker' = At("loop") \/ Failing) /\ UNCHANGED <<received, events>>
  /\ UNCHANGED <<emulator, commands, ledger, current, adapter, wire, error>>

\* Channels are shut down in turn, whatever became of the one before.
Shutdown(c) ==
  /\ worker.at = "cleanup" /\ c \in opened /\ \A d \in opened : d <= c
  /\ opened' = opened \ {c}
  /\ \/ allocated' = allocated \ {c} /\ UNCHANGED broken
     \/ broken' = TRUE /\ UNCHANGED allocated
  /\ UNCHANGED <<emulator, commands, worker, ledger, current, wire, received, events, error>>

\* An error, of the work or of the cleanup, is reported; then the worker is gone.
Report ==
  /\ worker.at = "cleanup" /\ opened = {}
  /\ error' = (worker.left = 1 \/ broken)
  /\ worker' = [at |-> "ending", left |-> 0]
  /\ UNCHANGED <<emulator, commands, ledger, current, adapter, wire, received, events>>

End ==
  /\ worker.at = "ending"
  /\ worker' = [at |-> "end", left |-> 0]
  /\ UNCHANGED <<emulator, commands, ledger, current, adapter, wire, received, events, error>>

Worker ==
  \/ \E c \in Channels : Setup(c) \/ Shutdown(c)
  \/ NextTurn \/ Prepare \/ NoCommand \/ Write \/ Finish \/ Receive \/ Report \/ End
-----------------------------------------------------------------------------
Blank ==
  /\ sent = <<>> /\ offers = {} /\ gate = NoPacket /\ commands = <<>> /\ ledger = NoPacket
  /\ current = NoFrame /\ opened = {} /\ allocated = {} /\ broken = FALSE
  /\ wire = <<>> /\ received = 0 /\ events = <<>> /\ error = FALSE /\ taken = <<>>

Init == Blank /\ bridge = "open" /\ stop = FALSE /\ worker = At("setup")

\* No session.
Over == Blank /\ bridge = "closed" /\ stop = TRUE /\ worker = [at |-> "end", left |-> 0]

Poll == PollError \/ PollEvents

Next ==
  \/ \E k \in Kinds : Transmit(k) \/ Refuse(k) \/ Overflow(k)
  \/ Poll \/ Close \/ Joined \/ Worker \/ BridgeGateLate \/ LedgerGateLate

\* The worker is scheduled, its exchanges have time limits, the emulator polls; it
\* closes a bridge that failed.
Fairness ==
  /\ WF_vars(Worker)
  /\ WF_vars(Poll)
  /\ WF_vars(Close /\ bridge = "failed")
  /\ WF_vars(Joined)

Spec == Init /\ [][Next]_vars
-----------------------------------------------------------------------------
Engine(i) == wire[i].frame.kind # "body"
\* The sequence number that is due on the wire after a frame of the engine.
DueAfter(f) == CASE f.kind = "first" -> 1
                 [] f.kind = "continuation" /\ f.seq < Continuations -> f.seq + 1
                 [] OTHER -> 0

\* On the wire an engine request that spans frames is never torn: the frame before a
\* continuation is the one it continues, and nothing else of the engine follows a
\* frame that has to be continued, whatever the guest sends, at whatever pace, and
\* whichever of its frames it withdraws on their way.
RequestsWhole ==
  \A i \in DOMAIN wire : Engine(i) =>
    LET earlier == {j \in 1..(i - 1) : Engine(j)}
    IN /\ earlier = {} => wire[i].frame.seq = 0
       /\ \A j \in earlier : (\A h \in earlier : h <= j) =>
            wire[i].frame.seq = DueAfter(wire[j].frame)

\* The guest is told that a frame is transmitted only when it was written whole and
\* in time; frames reach the wire, and completions the guest, once and in the order
\* the guest sent them, and none is left out, be it of a frame that the guest has
\* withdrawn, with others of its controller behind it.
CompletionsTrue ==
  /\ \A i \in DOMAIN wire : wire[i].frame = sent[i]
  /\ \A i \in DOMAIN taken : taken[i] # NoFrame =>
       LET id == taken[i].id
       IN /\ id \in DOMAIN wire /\ wire[id] = [frame |-> taken[i], outcome |-> "written"]
          /\ \A j \in 1..(i - 1) : taken[j] # NoFrame => taken[j].id < id
          /\ \A k \in 1..(id - 1) : \E j \in 1..(i - 1) : taken[j] = sent[k]

\* A worker that is gone leaves no channel of the adapter open, not even one whose
\* set-up failed half-way, unless the adapter did not acknowledge its shut-down.
ChannelsClosed == worker.at = "end" => allocated = {} \/ broken

\* A frame handed over is completed, or the session fails and the bridge is closed:
\* no fault of the adapter or of a gate, no full queue of commands or of events and
\* no worker that is gone leaves the guest waiting.
FramesAnswered ==
  \A n \in 1..MaxFrames :
    Len(sent) >= n ~> bridge = "closed" \/ \E i \in DOMAIN taken : taken[i].id = n
=============================================================================
