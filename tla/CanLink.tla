------------------------------ MODULE CanLink ------------------------------
(***************************************************************************)
(* The path of CAN frames between the CANdi firmware and a Chipsoft        *)
(* adapter: the SJA1000 controllers (candi/sja1000.rs), poll_bridge and    *)
(* advance of the native link (candi/native_link.rs), the receive staging  *)
(* (can_adapter.rs) and the worker thread with its bounded channels        *)
(* (adapters/chipsoft/backend.rs).                                         *)
(*                                                                         *)
(* Two threads.  `pc` is the position of the emulation thread: a slice of  *)
(* CANdi instructions ("cpu") and the steps of one poll_bridge alternate.  *)
(* `worker.at` is the position of the worker.  They share the channels     *)
(* `input`, `events` and `errors` and the flag `stop`.                     *)
(*                                                                         *)
(* Abstractions.  A frame to send is its ticket; a frame received is its   *)
(* number on its bus.  The 64-byte FIFO holds FifoLimit frames.  The       *)
(* worker's device is external: it accepts, fails, or delivers frames.     *)
(***************************************************************************)
EXTENDS Naturals, Sequences, FiniteSets

CONSTANTS
  Controllers,   \* the SJA1000 controllers (three in the code)
  Wired,         \* those with a bus behind the adapter (0 and 2)
  MaxTicket,     \* requests the firmware makes (a u64 in the code)
  Ring,          \* cancelled tickets a controller remembers (64)
  FifoLimit,     \* frames in a controller's FIFO (64 bytes)
  InputLimit,    \* capacity of the command channel (16)
  EventLimit,    \* capacity of the event channel (4096)
  Batch,         \* events taken by one poll (128)
  StagingLimit,  \* staged frames, of all controllers (4096)
  CommandTurn,   \* commands the worker sends between two reads (16)
  MaxFrames,     \* frames that arrive on each bus
  Modes,         \* controller modes the firmware uses
  Guest          \* the steps the firmware takes

\* "listen": listen-only; "deaf": bit timing or filter reject the traffic;
\* "dual": not the single acceptance filter; "test": sleep or self-test.
AllModes == {"reset", "on", "listen", "deaf", "dual", "test"}

ASSUME CanLinkAssumption ==
  /\ Wired \subseteq Controllers /\ IsFiniteSet(Controllers)
  /\ {MaxTicket, MaxFrames} \subseteq Nat
  /\ {Ring, FifoLimit, InputLimit, EventLimit, Batch, StagingLimit, CommandTurn}
       \subseteq Nat \ {0}
  /\ Modes \subseteq AllModes

\* A controller remembers as many cancelled tickets as the channels can hold
\* between a request and its completion: those in the command channel, the one
\* the worker has, and one for each poll the completion waits in the event
\* channel (16 + 1 + 32 of 64 in the code).
ASSUME RingAssumption ==
  Ring >= InputLimit + 1 + ((EventLimit + Batch - 1) \div Batch)

VARIABLES
  ctl,      \* the controllers
  staging,  \* frames received and not yet given to a controller
  pc,       \* position of the emulation thread
  batch,    \* events taken by the current poll
  outbox,   \* transmissions taken by the current poll
  failure,  \* why the link stopped
  input,    \* command channel
  events,   \* event channel
  errors,   \* error channel: "none" when empty
  stop,     \* the stop flag; the command channel has no sender any more
  worker,   \* the worker thread
  arrived,  \* frames each bus has delivered so far
  wire      \* tickets the device has put on each bus

linkVars == <<pc, batch, outbox, failure, stop>>
workerVars == <<worker, arrived, wire>>
vars == <<ctl, staging, linkVars, input, events, errors, workerVars>>

None == 0
Controller == [mode |-> "reset", rxIrq |-> FALSE, pending |-> None, dispatched |-> FALSE,
               cancelled |-> <<>>, next |-> 1, sent |-> TRUE, done |-> None,
               fifo |-> <<>>, overrun |-> FALSE]
Staged == UNION {{c} \X DOMAIN staging[c] : c \in Controllers}
-----------------------------------------------------------------------------
(***************************************************************************)
(* The SJA1000 controller.                                                 *)
(***************************************************************************)

\* Mutant: the ring is one place too small.
Cancel_SmallRing(chip) ==
  [chip EXCEPT !.pending = None, !.dispatched = FALSE,
     !.cancelled = IF chip.pending # None /\ chip.dispatched
                   THEN Append(IF Len(@) >= Ring - 1 THEN Tail(@) ELSE @, chip.pending)
                   ELSE @]

\* `cancel_pending`: a request that was handed over is remembered, since its
\* completion may still arrive.
Cancel(chip) ==
  [chip EXCEPT !.pending = None, !.dispatched = FALSE,
     !.cancelled = IF chip.pending # None /\ chip.dispatched
                   THEN Append(IF Len(@) = Ring THEN Tail(@) ELSE @, chip.pending)
                   ELSE @]

Remembers(chip, ticket) == \E i \in DOMAIN chip.cancelled : chip.cancelled[i] = ticket

Completes(chip, ticket) == chip.dispatched /\ chip.pending = ticket

\* Mutant: a completion is taken for one of the pending request.
Completed_AnyTicket(chip, ticket) ==
  [chip EXCEPT !.pending = None, !.sent = TRUE, !.done = chip.pending]

\* `complete`, where it succeeds: a cancelled ticket is crossed out, the pending
\* one is done.
Completed(chip, ticket) ==
  IF Remembers(chip, ticket)
  THEN LET i == CHOOSE i \in DOMAIN chip.cancelled : chip.cancelled[i] = ticket
       IN  [chip EXCEPT !.cancelled = SubSeq(@, 1, i - 1) \o SubSeq(@, i + 1, Len(@))]
  ELSE [chip EXCEPT !.pending = None, !.sent = TRUE, !.done = chip.pending]

\* The modes in which the controller takes a transmit command, and those in which
\* it takes frames.
Sends(mode) == mode \in {"on", "deaf", "dual"}
Receives(mode) == mode \in {"on", "listen"}
-----------------------------------------------------------------------------
(***************************************************************************)
(* A slice of CANdi instructions: the firmware writes controller registers.*)
(***************************************************************************)
Firmware(step) == pc = "cpu" /\ step \in Guest
OnlyChip(c, chip) ==
  /\ ctl' = [ctl EXCEPT ![c] = chip]
  /\ UNCHANGED <<staging, linkVars, input, events, errors, workerVars>>

\* Mutant: the dispatched flag of the request before is kept.
Request_KeepsDispatched(c) ==
  /\ Firmware("request")
  /\ Sends(ctl[c].mode) /\ ctl[c].pending = None /\ ctl[c].next <= MaxTicket
  /\ OnlyChip(c, [ctl[c] EXCEPT !.pending = ctl[c].next, !.next = @ + 1, !.sent = FALSE])

\* A transmit command.
Request(c) ==
  /\ Firmware("request")
  /\ Sends(ctl[c].mode) /\ ctl[c].pending = None /\ ctl[c].next <= MaxTicket
  /\ OnlyChip(c, [ctl[c] EXCEPT !.pending = ctl[c].next, !.next = @ + 1,
                                !.dispatched = FALSE, !.sent = FALSE])

Abort(c) ==
  /\ Firmware("abort")
  /\ OnlyChip(c, IF ctl[c].pending = None THEN Cancel(ctl[c])
                 ELSE [Cancel(ctl[c]) EXCEPT !.sent = FALSE])

\* The mode register.  Timing and filter change only in reset mode, which
\* aborts the request and empties the FIFO.
WriteMode(c) ==
  /\ Firmware("mode")
  /\ \E mode \in Modes :
       \/ /\ mode = "reset"
          /\ OnlyChip(c, [Cancel(ctl[c]) EXCEPT !.mode = mode, !.fifo = <<>>,
                                                !.sent = TRUE, !.overrun = FALSE])
       \/ /\ mode # "reset"
          /\ (mode = "deaf") = (ctl[c].mode = "deaf") \/ ctl[c].mode = "reset"
          /\ OnlyChip(c, [ctl[c] EXCEPT !.mode = mode])

\* The receive interrupt is enabled in the controller and routed to the CPU, or
\* it is not.
WriteInterrupts(c) ==
  /\ Firmware("irq")
  /\ \E on \in BOOLEAN : OnlyChip(c, [ctl[c] EXCEPT !.rxIrq = on])

\* Release of the oldest received frame; a second bit clears the overrun.
ReleaseReceived(c) ==
  /\ Firmware("release")
  /\ \E clear \in BOOLEAN :
       OnlyChip(c, [ctl[c] EXCEPT !.fifo = IF @ = <<>> THEN @ ELSE Tail(@),
                                  !.overrun = IF clear THEN FALSE ELSE @])
-----------------------------------------------------------------------------
(***************************************************************************)
(* The emulation thread outside the firmware: advance and poll_bridge.     *)
(***************************************************************************)

\* An error ends the link: the backend is closed, which joins the worker.
Stops(reason) ==
  /\ failure' = reason
  /\ pc' = "closing"
  /\ stop' = TRUE

\* An access the emulation does not support stops the CANdi CPU and the link.
FirmwareFault ==
  /\ Firmware("fault")
  /\ Stops("cpu")
  /\ UNCHANGED <<ctl, staging, batch, outbox, input, events, errors, workerVars>>

\* The UART side stops the link without closing the backend ...
SerialFailure ==
  /\ Firmware("serial")
  /\ failure' = "serial" /\ pc' = "halted"
  /\ UNCHANGED <<ctl, staging, batch, outbox, stop, input, events, errors, workerVars>>

\* ... which happens when the session loop sees the stopped link and drops it.
DropLink ==
  /\ pc = "halted"
  /\ Stops(failure)
  /\ UNCHANGED <<ctl, staging, batch, outbox, input, events, errors, workerVars>>

\* poll looks at the error channel first.
PollErrors ==
  /\ pc = "cpu"
  /\ \/ /\ errors = "none"
        /\ pc' = "collect" /\ batch' = <<>>
        /\ UNCHANGED <<failure, stop, errors>>
     \/ /\ errors # "none"
        /\ Stops(errors) /\ errors' = "none"
        /\ UNCHANGED batch
  /\ UNCHANGED <<ctl, staging, outbox, input, events, workerVars>>

\* Then it takes events, one by one while the worker goes on, up to a batch.
PollEvent ==
  /\ pc = "collect" /\ Len(batch) < Batch /\ events # <<>>
  /\ batch' = Append(batch, Head(events))
  /\ events' = Tail(events)
  /\ UNCHANGED <<ctl, staging, pc, outbox, failure, stop, input, errors, workerVars>>

\* No event: the batch is complete, or the worker is gone and the batch is lost.
PollEnds ==
  /\ pc = "collect"
  /\ \/ /\ Len(batch) = Batch \/ (events = <<>> /\ worker.at # "dead")
        /\ pc' = "apply"
        /\ UNCHANGED <<failure, stop>>
     \/ /\ Len(batch) < Batch /\ events = <<>> /\ worker.at = "dead"
        /\ Stops("worker ended")
  /\ UNCHANGED <<ctl, staging, batch, outbox, input, events, errors, workerVars>>

ApplyCompletion ==
  /\ pc = "apply" /\ batch # <<>> /\ Head(batch).kind = "completed"
  /\ batch' = Tail(batch)
  /\ LET c == Head(batch).c
         ticket == Head(batch).n
     IN  \/ /\ Remembers(ctl[c], ticket) \/ Completes(ctl[c], ticket)
            /\ ctl' = [ctl EXCEPT ![c] = Completed(@, ticket)]
            /\ UNCHANGED <<pc, failure, stop>>
         \/ /\ ~Remembers(ctl[c], ticket) /\ ~Completes(ctl[c], ticket)
            /\ Stops("stale completion")
            /\ UNCHANGED ctl
  /\ UNCHANGED <<staging, outbox, input, events, errors, workerVars>>

ApplyFrame ==
  /\ pc = "apply" /\ batch # <<>> /\ Head(batch).kind = "received"
  /\ batch' = Tail(batch)
  /\ \/ /\ Cardinality(Staged) < StagingLimit
        /\ staging' = [staging EXCEPT ![Head(batch).c] = Append(@, Head(batch).n)]
        /\ UNCHANGED <<pc, failure, stop>>
     \/ /\ Cardinality(Staged) >= StagingLimit
        /\ Stops("staging full")
        /\ UNCHANGED staging
  /\ UNCHANGED <<ctl, outbox, input, events, errors, workerVars>>

ApplyEnds ==
  /\ pc = "apply" /\ batch = <<>>
  /\ pc' = "drain"
  /\ UNCHANGED <<ctl, staging, batch, outbox, failure, stop, input, events, errors, workerVars>>

HasRoom(chip) == Len(chip.fifo) < FifoLimit

\* Mutant: a frame without room is lost at once, as in the hardware.
Defers_Never(chip) == FALSE

\* `should_defer_can_receive`: the FIFO is full and its interrupt handler is
\* going to empty it.
Defers(chip) == Receives(chip.mode) /\ ~HasRoom(chip) /\ chip.rxIrq

\* One staged frame leaves: into the FIFO, or lost the way hardware loses it.
Drain(c) ==
  /\ pc = "drain" /\ staging[c] # <<>> /\ ~Defers(ctl[c])
  /\ \/ /\ Receives(ctl[c].mode) /\ HasRoom(ctl[c])
        /\ ctl' = [ctl EXCEPT ![c].fifo = Append(@, Head(staging[c]))]
     \/ /\ Receives(ctl[c].mode) /\ ~HasRoom(ctl[c])
        /\ ctl' = [ctl EXCEPT ![c].overrun = TRUE]
     \/ /\ ctl[c].mode \in {"reset", "deaf"}
        /\ UNCHANGED ctl
  /\ staging' = [staging EXCEPT ![c] = Tail(@)]
  /\ UNCHANGED <<linkVars, input, events, errors, workerVars>>

\* A mode in which the emulation does not support reception.
DrainFails(c) ==
  /\ pc = "drain" /\ staging[c] # <<>> /\ ctl[c].mode \in {"dual", "test"}
  /\ Stops("receive mode")
  /\ UNCHANGED <<ctl, staging, batch, outbox, input, events, errors, workerVars>>

\* The requests not handed over yet are taken from all controllers at once.
TakesTransmissions ==
  /\ pc = "drain" /\ pc' = "submit"
  /\ outbox' = {<<c, ctl[c].pending>> : c \in {d \in Controllers :
                   ~ctl[d].dispatched /\ ctl[d].pending # None}}
  /\ ctl' = [c \in Controllers |-> [ctl[c] EXCEPT !.dispatched = TRUE]]
  /\ UNCHANGED <<staging, batch, failure, stop, input, events, errors, workerVars>>

\* The drain has taken each bus as far as its controller allows.
DrainEnds ==
  /\ \A c \in Controllers : staging[c] # <<>> => Defers(ctl[c])
  /\ TakesTransmissions

\* They go to the worker in the order of the controllers.  A bus that is not
\* wired acknowledges nothing; a guard may refuse; the channel may be full.
Submit ==
  /\ pc = "submit"
  /\ \E tx \in outbox :
       /\ \A other \in outbox : tx[1] <= other[1]
       /\ outbox' = outbox \ {tx}
       /\ \/ /\ tx[1] \notin Wired
             /\ UNCHANGED <<pc, failure, stop, input>>
          \/ /\ tx[1] \in Wired /\ Len(input) < InputLimit /\ worker.at # "dead"
             /\ input' = Append(input, tx)
             /\ UNCHANGED <<pc, failure, stop>>
          \/ /\ tx[1] \in Wired /\ (Len(input) >= InputLimit \/ worker.at = "dead")
             /\ Stops("transmit queue full")
             /\ UNCHANGED input
          \/ /\ tx[1] \in Wired /\ "guard" \in Guest
             /\ Stops("command guard")
             /\ UNCHANGED input
  /\ UNCHANGED <<ctl, staging, batch, events, errors, workerVars>>

PollReturns ==
  /\ pc = "submit" /\ outbox = {}
  /\ pc' = "cpu"
  /\ UNCHANGED <<ctl, staging, batch, outbox, failure, stop, input, events, errors, workerVars>>

\* `close` ends when the worker has.
Joined ==
  /\ pc = "closing" /\ worker.at = "dead"
  /\ pc' = "stopped"
  /\ UNCHANGED <<ctl, staging, batch, outbox, failure, stop, input, events, errors, workerVars>>
-----------------------------------------------------------------------------
(***************************************************************************)
(* The worker thread.  A failure of the device (an error reply, a lost     *)
(* device, a reply that does not come within three seconds, the session    *)
(* budget) may happen in every exchange.                                   *)
(***************************************************************************)
Free(n) == Len(events) + n <= EventLimit
WorkerStep(at) == worker.at = at
OnlyWorker == UNCHANGED <<ctl, staging, linkVars>>

\* The top of the loop: the stop flag is read here only.
WorkerLoop ==
  /\ WorkerStep("top")
  /\ worker' = [worker EXCEPT !.at = IF stop THEN "cleanup" ELSE "commands", !.turn = 0]
  /\ OnlyWorker /\ UNCHANGED <<input, events, errors, arrived, wire>>

WorkerTakes ==
  /\ WorkerStep("commands") /\ worker.turn < CommandTurn /\ input # <<>>
  /\ worker' = [worker EXCEPT !.at = "device", !.hand = Head(input), !.turn = @ + 1]
  /\ input' = Tail(input)
  /\ OnlyWorker /\ UNCHANGED <<events, errors, arrived, wire>>

\* No more commands in this turn.  What is left in a channel without a sender is
\* sent first; the flag is set just before the sender is dropped.
WorkerTurns ==
  /\ WorkerStep("commands")
  /\ \/ /\ worker.turn = CommandTurn \/ input = <<>>
        /\ worker' = [worker EXCEPT !.at = "reads"]
     \/ /\ worker.turn < CommandTurn /\ input = <<>> /\ stop
        /\ worker' = [worker EXCEPT !.at = "cleanup"]
  /\ OnlyWorker /\ UNCHANGED <<input, events, errors, arrived, wire>>

DeviceAccepts ==
  /\ WorkerStep("device")
  /\ wire' = [wire EXCEPT ![worker.hand[1]] = Append(@, worker.hand[2])]
  /\ worker' = [worker EXCEPT !.at = "confirm"]
  /\ OnlyWorker /\ UNCHANGED <<input, events, errors, arrived>>

\* Mutant: the worker waits for room in the event channel.
WorkerConfirms_Waits ==
  /\ WorkerStep("confirm") /\ Free(1)
  /\ events' = Append(events, [kind |-> "completed", c |-> worker.hand[1],
                               n |-> worker.hand[2]])
  /\ worker' = [worker EXCEPT !.at = "commands"]
  /\ OnlyWorker /\ UNCHANGED <<input, errors, arrived, wire>>

\* The event channel is never waited for: a full one is an error, although the
\* frame has been sent.
WorkerConfirms ==
  /\ WorkerStep("confirm")
  /\ \/ /\ Free(1)
        /\ events' = Append(events, [kind |-> "completed", c |-> worker.hand[1],
                                     n |-> worker.hand[2]])
        /\ worker' = [worker EXCEPT !.at = "commands"]
     \/ /\ ~Free(1)
        /\ worker' = [worker EXCEPT !.at = "cleanup", !.failed = TRUE]
        /\ UNCHANGED events
  /\ OnlyWorker /\ UNCHANGED <<input, errors, arrived, wire>>

\* One frame of a read reply.
WorkerReceives(c) ==
  /\ WorkerStep("reads") /\ arrived[c] < MaxFrames
  /\ arrived' = [arrived EXCEPT ![c] = @ + 1]
  /\ \/ /\ Free(1)
        /\ events' = Append(events, [kind |-> "received", c |-> c, n |-> arrived[c] + 1])
        /\ UNCHANGED worker
     \/ /\ ~Free(1)
        /\ worker' = [worker EXCEPT !.at = "cleanup", !.failed = TRUE]
        /\ UNCHANGED events
  /\ OnlyWorker /\ UNCHANGED <<input, errors, wire>>

WorkerReturns ==
  /\ WorkerStep("reads")
  /\ worker' = [worker EXCEPT !.at = "top"]
  /\ OnlyWorker /\ UNCHANGED <<input, events, errors, arrived, wire>>

\* A transmission that fails may have been sent: its reply was lost.
DeviceFails ==
  /\ worker.at \in {"top", "device", "reads"} /\ "device" \in Guest
  /\ worker' = [worker EXCEPT !.at = "cleanup", !.failed = TRUE]
  /\ \/ UNCHANGED wire
     \/ /\ WorkerStep("device")
        /\ wire' = [wire EXCEPT ![worker.hand[1]] = Append(@, worker.hand[2])]
  /\ OnlyWorker /\ UNCHANGED <<input, events, errors, arrived>>

\* The channels of the device are closed; a failure or an unclean end is left
\* in the error channel ...
WorkerReports ==
  /\ WorkerStep("cleanup")
  /\ \E clean \in BOOLEAN :
       errors' = IF worker.failed THEN "worker failed"
                 ELSE IF clean THEN errors ELSE "cleanup incomplete"
  /\ worker' = [worker EXCEPT !.at = "reported"]
  /\ OnlyWorker /\ UNCHANGED <<input, events, arrived, wire>>

\* ... and only then its ends of the command and event channels are dropped.
WorkerEnds ==
  /\ WorkerStep("reported")
  /\ worker' = [worker EXCEPT !.at = "dead"]
  /\ OnlyWorker /\ UNCHANGED <<input, events, errors, arrived, wire>>
-----------------------------------------------------------------------------
\* The link has been attached and the worker has opened the device.
Attached(chips) ==
  /\ ctl = chips
  /\ staging = [c \in Controllers |-> <<>>]
  /\ pc = "cpu" /\ batch = <<>> /\ outbox = {} /\ failure = "none" /\ stop = FALSE
  /\ input = <<>> /\ events = <<>> /\ errors = "none"
  /\ worker = [at |-> "top", turn |-> 0, hand |-> <<None, None>>, failed |-> FALSE]
  /\ arrived = [c \in Controllers |-> 0]
  /\ wire = [c \in Controllers |-> <<>>]

Init == Attached([c \in Controllers |-> Controller])

Slice == \E c \in Controllers :
           Request(c) \/ Abort(c) \/ WriteMode(c) \/ WriteInterrupts(c) \/ ReleaseReceived(c)
Poll == PollErrors \/ PollEvent \/ PollEnds \/ ApplyCompletion \/ ApplyFrame \/ ApplyEnds
        \/ DrainEnds \/ Submit \/ PollReturns
        \/ \E c \in Controllers : Drain(c) \/ DrainFails(c)
Ending == FirmwareFault \/ SerialFailure \/ DropLink \/ Joined
Worker == WorkerLoop \/ WorkerTakes \/ WorkerTurns \/ DeviceAccepts \/ WorkerConfirms
          \/ WorkerReturns \/ WorkerReports \/ WorkerEnds
Device == DeviceFails \/ \E c \in Wired : WorkerReceives(c)

Stopped == pc = "stopped" /\ UNCHANGED vars

Next == Slice \/ Poll \/ Ending \/ Worker \/ Device \/ Stopped

Spec == Init /\ [][Next]_vars

\* advance is called in an endless loop and takes its steps, the session loop
\* drops a stopped link, and the worker's exchanges end (within three seconds).
Fairness == WF_vars(Poll) /\ WF_vars(DropLink) /\ WF_vars(Joined) /\ WF_vars(Worker)

FairSpec == Spec /\ Fairness
-----------------------------------------------------------------------------
\* A completion is always one the controller knows: a late one of a request the
\* firmware has withdrawn never stops the link.  The ring of cancelled tickets is
\* larger than what the channels can hold between a request and its completion.
NoStaleCompletion == failure # "stale completion"

\* What the firmware is told and what the bus carries, without queues: see
\* CanPromise.
Promise == INSTANCE CanPromise WITH
             asked <- [c \in Controllers |-> ctl[c].next - 1],
             wanted <- [c \in Controllers |-> ctl[c].pending],
             done <- [c \in Controllers |-> ctl[c].done]
KeepsPromise == Promise!Spec

\* A request of a wired controller is answered, withdrawn, or the link stops:
\* it is never left pending by the flags and queues between the firmware and the
\* device.
RequestsEnd ==
  \A c \in Wired : \A k \in 1..MaxTicket :
    (ctl[c].pending = k) ~> (ctl[c].pending # k \/ pc = "stopped")

\* A link that has failed, in whichever way, closes its backend: the join ends and
\* the worker is gone.  The two threads never wait for each other.
FailedLinksClose == (failure # "none") ~> (pc = "stopped" /\ worker.at = "dead")

\* The frames of a bus in a list of events are those after `from` up to `to`, in
\* their order.
Carries(list, c, from, to) ==
  LET mine == {i \in DOMAIN list : list[i].kind = "received" /\ list[i].c = c}
  IN  /\ from <= to
      /\ {list[i].n : i \in mine} = (from + 1)..to
      /\ \A i, j \in mine : i < j => list[i].n < list[j].n

\* The frames after `from` up to `to`.
Run(from, to) == [i \in 1..(to - from) |-> from + i]

\* What a FIFO holds of the frames up to `drained`: they rise, and a firmware that stays
\* in operation with its receive interrupt on has lost none of the latest.
Holds(fifo, drained) ==
  /\ \A i, j \in DOMAIN fifo : i < j => fifo[i] < fifo[j]
  /\ \A i \in DOMAIN fifo : fifo[i] \in 1..drained
  /\ Guest \cap {"mode", "irq"} = {} => \E first \in 0..drained : fifo = Run(first, drained)

\* The path of the frames of a bus: `sent` have come into the event channel, `polled`
\* of them have been taken by a poll, `staged` of these are behind the batch, and
\* `drained` of these have left the staging, into the FIFO or lost.
InOrder(c) ==
  \E drained, staged, polled, sent \in 0..arrived[c] :
    /\ Holds(ctl[c].fifo, drained)
    /\ drained <= staged /\ staging[c] = Run(drained, staged)
    /\ Carries(batch, c, staged, polled)
    /\ Carries(events, c, polled, sent)
    /\ sent = arrived[c] \/ (worker.failed /\ sent + 1 = arrived[c])

\* While the link runs, the frames of a bus stay in order from the adapter to the
\* FIFO, none is missing between the adapter and the controller (but the one whose
\* event finds no room, which ends the session), and a firmware that stays in
\* operation with its receive interrupt on loses none at all, however the batches,
\* the shared staging and the full FIFOs delay them.  And no bus holds another back:
\* when the frames of a poll have been handed out, one with room in its FIFO has no
\* frame left in staging.
FramesInOrder ==
  failure = "none" => \A c \in Wired :
    /\ InOrder(c)
    /\ pc = "submit" /\ staging[c] # <<>> => ~HasRoom(ctl[c])
=============================================================================
