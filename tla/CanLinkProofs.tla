---------------------------- MODULE CanLinkProofs ----------------------------
(***************************************************************************)
(* CanLink implements CanPromise, for all capacities of its queues, any    *)
(* number of controllers and requests, and whatever fails: each request is *)
(* put on the bus at most once and in order, and the firmware is told of   *)
(* the request it still wants and only when the bus has carried it.        *)
(*                                                                         *)
(* The tickets of a controller move in one direction: pending, taken by a  *)
(* poll, in the command channel, in the hands of the worker, on the wire.  *)
(* The invariant says that each is larger than every ticket further on,    *)
(* and that what is reported as sent is on the wire.                       *)
(*                                                                         *)
(* On this invariant rest two more: the frames of a bus stay in order from *)
(* the adapter to the FIFO, and the ring of cancelled tickets is large     *)
(* enough for every completion that may still come.                        *)
(***************************************************************************)
EXTENDS MCCanLink, SequenceTheorems, TLAPS

Ticket == Nat \ {None}
Command == Controllers \X Ticket
Event == [kind: {"completed", "received"}, c: Controllers, n: Nat]

\* A controller, as far as requests go; its other registers hold values of S.
Chip(S) == [mode: S, rxIrq: S, pending: Nat, dispatched: BOOLEAN, cancelled: S,
            next: Ticket, sent: S, done: Nat, fifo: S, overrun: S]

PipeTypes ==
  /\ \E S : ctl \in [Controllers -> Chip(S)]
  /\ worker \in [at: {"top", "commands", "device", "confirm", "reads", "cleanup",
                      "reported", "dead"},
                 turn: Nat, hand: Command \cup {<<None, None>>}, failed: BOOLEAN]
  /\ worker.at \in {"device", "confirm"} => worker.hand \in Command
  /\ wire \in [Controllers -> Seq(Ticket)]
  /\ arrived \in [Controllers -> Nat]
  /\ input \in Seq(Command) /\ outbox \subseteq Command
  /\ events \in Seq(Event) /\ batch \in Seq(Event)

\* The bus, or the worker about to send, has only tickets of c below k ...
Before(c, k) ==
  /\ \A i \in DOMAIN wire[c] : wire[c][i] < k
  /\ worker.at = "device" /\ worker.hand[1] = c => worker.hand[2] < k

\* ... and so has the command channel.
Ahead(c, k) ==
  /\ Before(c, k)
  /\ \A i \in DOMAIN input : input[i][1] = c => input[i][2] < k

\* Later requests have larger tickets, at each place on the way.
PipeOrder ==
  /\ worker.at = "device" =>
       \A i \in DOMAIN wire[worker.hand[1]] : wire[worker.hand[1]][i] < worker.hand[2]
  /\ \A i \in DOMAIN input :
       /\ Before(input[i][1], input[i][2])
       /\ \A j \in DOMAIN input : j < i /\ input[j][1] = input[i][1] => input[j][2] < input[i][2]
  /\ \A tx \in outbox :
       /\ pc = "submit" => Ahead(tx[1], tx[2])
       /\ tx[2] < ctl[tx[1]].next
       /\ \A other \in outbox : other[1] = tx[1] => other = tx
  /\ outbox # {} => pc \in {"submit", "closing", "stopped"}
  /\ \A c \in Controllers :
       /\ Ahead(c, ctl[c].next) /\ ctl[c].pending < ctl[c].next
       /\ ctl[c].pending # None /\ ~ctl[c].dispatched => Ahead(c, ctl[c].pending)
       /\ pc = "submit" => ctl[c].dispatched

Carried(c, k) == \E i \in DOMAIN wire[c] : wire[c][i] = k
AllCarried(list) ==
  \A i \in DOMAIN list : list[i].kind = "completed" => Carried(list[i].c, list[i].n)

\* What is reported as sent has been sent.
PipeTruth ==
  /\ AllCarried(events) /\ AllCarried(batch)
  /\ worker.at = "confirm" => Carried(worker.hand[1], worker.hand[2])

\* The inductive invariant.
PipeInv == PipeTypes /\ PipeOrder /\ PipeTruth

\* A step of the promise, or of nothing that it speaks about.
Promised == [Promise!Next]_(Promise!vars)

-----------------------------------------------------------------------------
(***************************************************************************)
(* The controllers.                                                        *)
(***************************************************************************)

\* The registers of a controller change in a step that makes no request and
\* completes none: the request stays, or is withdrawn.
Kept(new, old) ==
  /\ new.next = old.next /\ new.done = old.done
  /\ \/ new.pending = old.pending /\ new.dispatched = old.dispatched
     \/ new.pending = None

IsChip(chip) == \E S : chip \in Chip(S)

\* Registers that have nothing to do with requests.
LEMMA OtherRegisters ==
  ASSUME NEW chip, IsChip(chip), NEW a, NEW b, NEW d
  PROVE  /\ LET new == [chip EXCEPT !.mode = a] IN IsChip(new) /\ Kept(new, chip)
         /\ LET new == [chip EXCEPT !.rxIrq = a] IN IsChip(new) /\ Kept(new, chip)
         /\ LET new == [chip EXCEPT !.sent = a] IN IsChip(new) /\ Kept(new, chip)
         /\ LET new == [chip EXCEPT !.cancelled = a] IN IsChip(new) /\ Kept(new, chip)
         /\ LET new == [chip EXCEPT !.fifo = a] IN IsChip(new) /\ Kept(new, chip)
         /\ LET new == [chip EXCEPT !.overrun = a] IN IsChip(new) /\ Kept(new, chip)
         /\ LET new == [chip EXCEPT !.fifo = a, !.overrun = b]
            IN  IsChip(new) /\ Kept(new, chip)
         /\ LET new == [chip EXCEPT !.mode = a, !.fifo = b, !.sent = TRUE, !.overrun = d]
            IN  IsChip(new) /\ Kept(new, chip)
<1>1. PICK S : chip \in Chip(S)  BY DEF IsChip
<1> DEFINE T == S \cup {a, b, d, TRUE}
<1>2. LET new == [chip EXCEPT !.mode = a] IN new \in Chip(T) /\ Kept(new, chip)
  BY <1>1 DEF Chip, Kept
<1>3. LET new == [chip EXCEPT !.rxIrq = a] IN new \in Chip(T) /\ Kept(new, chip)
  BY <1>1 DEF Chip, Kept
<1>4. LET new == [chip EXCEPT !.sent = a] IN new \in Chip(T) /\ Kept(new, chip)
  BY <1>1 DEF Chip, Kept
<1>5. LET new == [chip EXCEPT !.cancelled = a] IN new \in Chip(T) /\ Kept(new, chip)
  BY <1>1 DEF Chip, Kept
<1>6. LET new == [chip EXCEPT !.fifo = a, !.overrun = b]
      IN  new \in Chip(T) /\ Kept(new, chip)
  BY <1>1 DEF Chip, Kept
<1>7. LET new == [chip EXCEPT !.mode = a, !.fifo = b, !.sent = TRUE, !.overrun = d]
      IN  new \in Chip(T) /\ Kept(new, chip)
  BY <1>1 DEF Chip, Kept
<1>8. LET new == [chip EXCEPT !.fifo = a] IN new \in Chip(T) /\ Kept(new, chip)
  BY <1>1 DEF Chip, Kept
<1>9. LET new == [chip EXCEPT !.overrun = a] IN new \in Chip(T) /\ Kept(new, chip)
  BY <1>1 DEF Chip, Kept
<1>10. QED  BY <1>2, <1>3, <1>4, <1>5, <1>6, <1>7, <1>8, <1>9 DEF IsChip

\* `cancel_pending` withdraws the request.
LEMMA CancelKeeps ==
  ASSUME NEW chip, IsChip(chip)
  PROVE  IsChip(Cancel(chip)) /\ Kept(Cancel(chip), chip)
<1>1. PICK S : chip \in Chip(S)  BY DEF IsChip
<1>2. \A v : LET new == [chip EXCEPT !.pending = None, !.dispatched = FALSE, !.cancelled = v]
             IN  new \in Chip(S \cup {v}) /\ Kept(new, chip)
  BY <1>1 DEF Chip, Kept, None
<1>3. PICK v : Cancel(chip) = [chip EXCEPT !.pending = None, !.dispatched = FALSE, !.cancelled = v]
  BY DEF Cancel
<1>4. Cancel(chip) \in Chip(S \cup {v})  BY <1>2, <1>3, Zenon
<1>5. Kept(Cancel(chip), chip)  BY <1>2, <1>3, Zenon
<1>6. QED  BY <1>4, <1>5 DEF IsChip

LEMMA KeptTwice ==
  ASSUME NEW a, NEW b, NEW d, Kept(a, b), Kept(b, d)
  PROVE  Kept(a, d)
BY DEF Kept

\* One controller is replaced.
LEMMA OneChip ==
  ASSUME PipeTypes, NEW c \in Controllers, NEW chip, IsChip(chip),
         ctl' = [ctl EXCEPT ![c] = chip]
  PROVE  /\ \E S : ctl' \in [Controllers -> Chip(S)]
         /\ ctl'[c] = chip /\ \A d \in Controllers : d # c => ctl'[d] = ctl[d]
<1>1. PICK S : ctl \in [Controllers -> Chip(S)]  BY DEF PipeTypes
<1>2. PICK T : chip \in Chip(T)  BY DEF IsChip
<1>3. \A x \in Chip(S) : x \in Chip(S \cup T)  BY DEF Chip
<1>4. \A x \in Chip(T) : x \in Chip(S \cup T)  BY DEF Chip
<1>5. ctl' \in [Controllers -> Chip(S \cup T)]  BY <1>1, <1>2, <1>3, <1>4
<1>6. QED  BY <1>1, <1>5

\* Every controller is one.
LEMMA AllChips ==
  ASSUME PipeTypes
  PROVE  \A c \in Controllers :
           /\ IsChip(ctl[c])
           /\ ctl[c].pending \in Nat /\ ctl[c].next \in Ticket /\ ctl[c].done \in Nat
           /\ ctl[c].dispatched \in BOOLEAN
<1>1. PICK S : ctl \in [Controllers -> Chip(S)]  BY DEF PipeTypes
<1>2. QED  BY <1>1 DEF IsChip, Chip

\* What happens to the invariant and the promise in such a step.
LEMMA KeptSafe ==
  ASSUME PipeInv, NEW c \in Controllers, NEW chip, IsChip(chip), Kept(chip, ctl[c]),
         ctl' = [ctl EXCEPT ![c] = chip],
         UNCHANGED <<outbox, input, events, worker, arrived, wire>>,
         batch' \in Seq(Event), AllCarried(batch'), pc' # "submit", outbox = {} \/ pc' \in {"closing", "stopped"}
  PROVE  PipeInv' /\ Promised
<1>1. /\ \E S : ctl' \in [Controllers -> Chip(S)]
      /\ ctl'[c] = chip /\ \A d \in Controllers : d # c => ctl'[d] = ctl[d]
  BY OneChip DEF PipeInv
<1>2. PipeTypes'  BY <1>1 DEF PipeInv, PipeTypes
<1>3. \A d \in Controllers : Kept(ctl'[d], ctl[d])  BY <1>1 DEF Kept
<1>4. \A d, k : (Before(d, k)' <=> Before(d, k)) /\ (Ahead(d, k)' <=> Ahead(d, k))
  BY DEF Before, Ahead
<1>5. PipeOrder'
  <2>1. \A d \in Controllers :
          /\ Ahead(d, ctl'[d].next) /\ ctl'[d].pending < ctl'[d].next
          /\ ctl'[d].pending # None /\ ~ctl'[d].dispatched => Ahead(d, ctl'[d].pending)
    <3>1. SUFFICES ASSUME NEW d \in Controllers
                   PROVE  /\ Ahead(d, ctl'[d].next) /\ ctl'[d].pending < ctl'[d].next
                          /\ ctl'[d].pending # None /\ ~ctl'[d].dispatched =>
                               Ahead(d, ctl'[d].pending)
      OBVIOUS
    <3>2. ctl[d].next \in Ticket  BY AllChips DEF PipeInv
    <3>3. None < ctl[d].next  BY <3>2 DEF Ticket, None
    <3>4. QED  BY <1>3, <3>3 DEF PipeInv, PipeOrder, Kept
  <2>2. \A tx \in outbox : tx[2] < ctl'[tx[1]].next
    <3>1. \A tx \in outbox : tx[1] \in Controllers  BY DEF PipeInv, PipeTypes, Command
    <3>2. QED  BY <1>3, <3>1 DEF PipeInv, PipeOrder, Kept
  <2>3. QED  BY <1>4, <2>1, <2>2 DEF PipeInv, PipeOrder
<1>6. PipeTruth'  BY DEF PipeInv, PipeTruth, AllCarried, Carried
<1>7. Promised
  <2>1. /\ [d \in Controllers |-> ctl[d].next - 1]' = [d \in Controllers |-> ctl[d].next - 1]
        /\ [d \in Controllers |-> ctl[d].done]' = [d \in Controllers |-> ctl[d].done]
    BY <1>3 DEF Kept
  <2>2. CASE chip.pending = ctl[c].pending
    <3>1. [d \in Controllers |-> ctl[d].pending]' = [d \in Controllers |-> ctl[d].pending]
      BY <1>1, <2>2
    <3>2. QED  BY <2>1, <3>1 DEF Promised, Promise!vars
  <2>3. CASE chip.pending = None /\ ctl[c].pending # None
    <3>1. [d \in Controllers |-> ctl[d].pending]' =
            [[d \in Controllers |-> ctl[d].pending] EXCEPT ![c] = 0]
      BY <1>1, <2>3 DEF None
    <3>2. Promise!Withdraw(c)  BY <2>1, <2>3, <3>1 DEF Promise!Withdraw, None
    <3>3. QED  BY <3>2 DEF Promised, Promise!Next
  <2>4. QED  BY <2>2, <2>3 DEF Kept
<1>8. QED  BY <1>2, <1>5, <1>6, <1>7 DEF PipeInv

-----------------------------------------------------------------------------
(***************************************************************************)
(* Steps that neither touch a request nor put one on the bus.              *)
(***************************************************************************)

\* Positions, events and frames change; what is in the hands of the worker on
\* its way to the bus, or reported as sent, was so before.
LEMMA Quiet ==
  ASSUME PipeInv, UNCHANGED <<ctl, wire, input>>, outbox' \subseteq outbox,
         worker' \in [at: {"top", "commands", "device", "confirm", "reads", "cleanup",
                           "reported", "dead"},
                      turn: Nat, hand: Command \cup {<<None, None>>}, failed: BOOLEAN],
         worker'.at \in {"device", "confirm"} => worker' = worker,
         arrived' \in [Controllers -> Nat], events' \in Seq(Event), batch' \in Seq(Event),
         AllCarried(events'), AllCarried(batch'),
         pc' = "submit" => pc = "submit",
         outbox' = {} \/ pc' \in {"submit", "closing", "stopped"}
  PROVE  PipeInv' /\ Promised
<1>1. PipeTypes'  BY DEF PipeInv, PipeTypes
<1>2. \A c, k : (Before(c, k) => Before(c, k)') /\ (Ahead(c, k) => Ahead(c, k)')
  BY DEF Before, Ahead
<1>3. PipeOrder'
  <2>1. outbox' # {} => pc' \in {"submit", "closing", "stopped"}  OBVIOUS
  <2>2. \A tx \in outbox' :
          /\ pc' = "submit" => Ahead(tx[1], tx[2])'
          /\ tx[2] < ctl'[tx[1]].next
          /\ \A other \in outbox' : other[1] = tx[1] => other = tx
    BY <1>2 DEF PipeInv, PipeOrder
  <2>3. \A c \in Controllers :
          /\ Ahead(c, ctl[c].next)' /\ ctl'[c].pending < ctl'[c].next
          /\ ctl'[c].pending # None /\ ~ctl'[c].dispatched => Ahead(c, ctl[c].pending)'
          /\ pc' = "submit" => ctl'[c].dispatched
    BY <1>2 DEF PipeInv, PipeOrder, Ahead, Before
  <2>4. QED  BY <1>2, <2>1, <2>2, <2>3 DEF PipeInv, PipeOrder
<1>4. PipeTruth'  BY DEF PipeInv, PipeTruth, AllCarried, Carried
<1>5. Promised  BY DEF Promised, Promise!vars
<1>6. QED  BY <1>1, <1>3, <1>4, <1>5 DEF PipeInv

-----------------------------------------------------------------------------
(***************************************************************************)
(* The firmware.                                                           *)
(***************************************************************************)
LEMMA AheadGrows ==
  ASSUME PipeTypes, NEW c \in Controllers, NEW k \in Nat, NEW m \in Nat, k <= m
  PROVE  (Before(c, k) => Before(c, m)) /\ (Ahead(c, k) => Ahead(c, m))
<1>1. /\ \A i \in DOMAIN wire[c] : wire[c][i] \in Nat
      /\ \A i \in DOMAIN input : input[i][2] \in Nat
      /\ worker.at = "device" => worker.hand[2] \in Nat
  BY DEF PipeTypes, Command, Ticket
<1>2. Before(c, k) => Before(c, m)  BY <1>1 DEF Before
<1>3. QED  BY <1>1, <1>2 DEF Ahead

LEMMA NoOutbox ==
  ASSUME PipeInv, pc \notin {"submit", "closing", "stopped"}
  PROVE  outbox = {}
BY DEF PipeInv, PipeOrder

\* The registers after a transmit command.
LEMMA AskedRegisters ==
  ASSUME NEW chip, IsChip(chip)
  PROVE  LET new == [chip EXCEPT !.pending = chip.next, !.next = @ + 1,
                                 !.dispatched = FALSE, !.sent = FALSE]
         IN  /\ IsChip(new) /\ new.pending = chip.next /\ new.next = chip.next + 1
             /\ new.done = chip.done /\ chip.next \in Ticket
<1>1. PICK S : chip \in Chip(S)  BY DEF IsChip
<1>2. chip.next + 1 \in Ticket /\ chip.next \in Nat /\ chip.next \in Ticket
  BY <1>1 DEF Chip, Ticket, None
<1>3. \A n \in Ticket : \A k \in Nat :
        LET new == [chip EXCEPT !.pending = k, !.next = n, !.dispatched = FALSE, !.sent = FALSE]
        IN  /\ new \in Chip(S \cup {FALSE}) /\ new.pending = k /\ new.next = n
            /\ new.done = chip.done
  BY <1>1 DEF Chip
<1>4. QED  BY <1>2, <1>3 DEF IsChip

\* A new request has a ticket above all others.
LEMMA RequestSafe ==
  ASSUME PipeInv, NEW c \in Controllers, Request(c)
  PROVE  PipeInv' /\ Promised
<1> DEFINE chip == [ctl[c] EXCEPT !.pending = ctl[c].next, !.next = @ + 1,
                                  !.dispatched = FALSE, !.sent = FALSE]
<1>1. /\ pc = "cpu" /\ ctl[c].pending = None /\ ctl' = [ctl EXCEPT ![c] = chip]
      /\ UNCHANGED <<staging, pc, batch, outbox, input, events, worker, arrived, wire>>
  BY DEF Request, Firmware, OnlyChip, linkVars, workerVars
<1>2. outbox = {}  BY <1>1, NoOutbox
<1>3. \A d \in Controllers :
        ctl[d].pending \in Nat /\ ctl[d].next \in Nat /\ ctl[d].next # None
  BY AllChips DEF PipeInv, Ticket
<1>4. /\ IsChip(chip) /\ chip.pending = ctl[c].next /\ chip.next = ctl[c].next + 1
      /\ chip.done = ctl[c].done /\ ctl[c].next \in Ticket
  BY AllChips, AskedRegisters DEF PipeInv
<1>5. /\ \E T : ctl' \in [Controllers -> Chip(T)]
      /\ ctl'[c] = chip /\ \A d \in Controllers : d # c => ctl'[d] = ctl[d]
  BY <1>1, <1>4, OneChip DEF PipeInv
<1>6. PipeTypes'  BY <1>1, <1>5 DEF PipeInv, PipeTypes
<1>7. \A d, k : (Before(d, k)' <=> Before(d, k)) /\ (Ahead(d, k)' <=> Ahead(d, k))
  BY <1>1 DEF Before, Ahead
<1>8. PipeOrder'
  <2>1. Ahead(c, ctl[c].next) /\ Ahead(c, ctl[c].next + 1)
    BY <1>4, AheadGrows DEF PipeInv, PipeOrder, Ticket
  <2>2. \A d \in Controllers :
          /\ Ahead(d, ctl'[d].next) /\ ctl'[d].pending < ctl'[d].next
          /\ ctl'[d].pending # None /\ ~ctl'[d].dispatched => Ahead(d, ctl'[d].pending)
    <3>1. \A d \in Controllers : d # c =>
            /\ Ahead(d, ctl'[d].next) /\ ctl'[d].pending < ctl'[d].next
            /\ ctl'[d].pending # None /\ ~ctl'[d].dispatched => Ahead(d, ctl'[d].pending)
      BY <1>5 DEF PipeInv, PipeOrder
    <3>2. /\ Ahead(c, ctl'[c].next) /\ Ahead(c, ctl'[c].pending)
          /\ ctl'[c].pending < ctl'[c].next
      BY <1>3, <1>4, <1>5, <2>1
    <3>3. QED  BY <3>1, <3>2
  <2>3. QED  BY <1>1, <1>2, <1>7, <2>2 DEF PipeInv, PipeOrder
<1>9. PipeTruth'  BY <1>1 DEF PipeInv, PipeTruth, AllCarried, Carried
<1>10. Promised
  <2>1. /\ [d \in Controllers |-> ctl[d].next - 1]' =
             [[d \in Controllers |-> ctl[d].next - 1] EXCEPT ![c] = @ + 1]
        /\ [d \in Controllers |-> ctl[d].pending]' =
             [[d \in Controllers |-> ctl[d].pending] EXCEPT ![c] = ctl[c].next - 1 + 1]
        /\ [d \in Controllers |-> ctl[d].done]' = [d \in Controllers |-> ctl[d].done]
    <3>1. /\ \A d \in Controllers : d # c => ctl'[d] = ctl[d]
          /\ ctl'[c].next - 1 = (ctl[c].next - 1) + 1
          /\ ctl'[c].pending = (ctl[c].next - 1) + 1 /\ ctl'[c].done = ctl[c].done
      BY <1>3, <1>4, <1>5
    <3>2. QED  BY <3>1
  <2>2. Promise!Ask(c)  BY <1>1, <2>1 DEF Promise!Ask, None
  <2>3. QED  BY <2>2 DEF Promised, Promise!Next
<1>11. QED  BY <1>6, <1>8, <1>9, <1>10 DEF PipeInv

\* Every other write of the firmware keeps the request or withdraws it.
LEMMA FirmwareSafe ==
  ASSUME PipeInv, NEW c \in Controllers,
         Abort(c) \/ WriteMode(c) \/ WriteInterrupts(c) \/ ReleaseReceived(c)
  PROVE  PipeInv' /\ Promised
<1>1. pc = "cpu"  BY DEF Abort, WriteMode, WriteInterrupts, ReleaseReceived, Firmware
<1>2. outbox = {}  BY <1>1, NoOutbox
<1>3. /\ IsChip(ctl[c]) /\ Kept(ctl[c], ctl[c])
      /\ IsChip(Cancel(ctl[c])) /\ Kept(Cancel(ctl[c]), ctl[c])
  BY AllChips, CancelKeeps DEF PipeInv, Kept
<1>4. \E chip : OnlyChip(c, chip) /\ IsChip(chip) /\ Kept(chip, ctl[c])
  <2>1. CASE Abort(c)
    <3>1. CASE ctl[c].pending = None
      BY <1>3, <2>1, <3>1 DEF Abort
    <3>2. CASE ctl[c].pending # None
      <4>1. OnlyChip(c, [Cancel(ctl[c]) EXCEPT !.sent = FALSE])  BY <2>1, <3>2 DEF Abort
      <4>2. QED  BY <1>3, <4>1, OtherRegisters, KeptTwice
    <3>3. QED  BY <3>1, <3>2
  <2>2. CASE WriteMode(c)
    <3>1. CASE \E mode : OnlyChip(c, [Cancel(ctl[c]) EXCEPT !.mode = mode, !.fifo = <<>>,
                                                           !.sent = TRUE, !.overrun = FALSE])
      <4>1. PICK mode : OnlyChip(c, [Cancel(ctl[c]) EXCEPT !.mode = mode, !.fifo = <<>>,
                                                           !.sent = TRUE, !.overrun = FALSE])
        BY <3>1
      <4>2. LET new == [Cancel(ctl[c]) EXCEPT !.mode = mode, !.fifo = <<>>,
                                              !.sent = TRUE, !.overrun = FALSE]
            IN  IsChip(new) /\ Kept(new, Cancel(ctl[c]))
        BY <1>3, OtherRegisters
      <4>3. QED  BY <1>3, <4>1, <4>2, KeptTwice
    <3>2. CASE \E mode : OnlyChip(c, [ctl[c] EXCEPT !.mode = mode])
      BY <1>3, <3>2, OtherRegisters
    <3>3. QED  BY <2>2, <3>1, <3>2 DEF WriteMode
  <2>3. CASE WriteInterrupts(c)
    BY <1>3, <2>3, OtherRegisters DEF WriteInterrupts
  <2>4. CASE ReleaseReceived(c)
    <3>1. PICK clear :
            OnlyChip(c, [ctl[c] EXCEPT !.fifo = IF @ = <<>> THEN @ ELSE Tail(@),
                                       !.overrun = IF clear THEN FALSE ELSE @])
      BY <2>4 DEF ReleaseReceived
    <3>2. PICK f, o : OnlyChip(c, [ctl[c] EXCEPT !.fifo = f, !.overrun = o])
      BY <3>1
    <3>3. QED  BY <1>3, <3>2, OtherRegisters
  <2>5. QED  BY <2>1, <2>2, <2>3, <2>4
<1>5. PICK chip : OnlyChip(c, chip) /\ IsChip(chip) /\ Kept(chip, ctl[c])  BY <1>4
<1>6. /\ ctl' = [ctl EXCEPT ![c] = chip]
      /\ UNCHANGED <<pc, outbox, batch, input, events, worker, arrived, wire>>
  BY <1>5 DEF OnlyChip, linkVars, workerVars
<1>7. batch' \in Seq(Event) /\ AllCarried(batch')
  BY <1>6 DEF PipeInv, PipeTypes, PipeTruth
<1>8. QED  BY <1>1, <1>2, <1>5, <1>6, <1>7, KeptSafe

-----------------------------------------------------------------------------
(***************************************************************************)
(* The poll.                                                               *)
(***************************************************************************)
LEMMA EventTypes ==
  ASSUME NEW list, list \in Seq(Event), list # <<>>, AllCarried(list)
  PROVE  /\ Head(list) \in Event /\ Tail(list) \in Seq(Event)
         /\ AllCarried(Tail(list))
         /\ Head(list).kind = "completed" => Carried(Head(list).c, Head(list).n)
<1>1. Head(list) \in Event /\ Tail(list) \in Seq(Event)  OBVIOUS
<1>2. 1 \in DOMAIN list /\ Head(list) = list[1]  OBVIOUS
<1>3. \A i \in DOMAIN Tail(list) : i + 1 \in DOMAIN list /\ Tail(list)[i] = list[i + 1]
  OBVIOUS
<1>4. QED  BY <1>1, <1>2, <1>3 DEF AllCarried

LEMMA EventAppended ==
  ASSUME NEW list, list \in Seq(Event), AllCarried(list), NEW e \in Event,
         e.kind = "completed" => Carried(e.c, e.n)
  PROVE  Append(list, e) \in Seq(Event) /\ AllCarried(Append(list, e))
<1>1. \A i \in DOMAIN Append(list, e) :
        (i \in DOMAIN list /\ Append(list, e)[i] = list[i]) \/ Append(list, e)[i] = e
  OBVIOUS
<1>2. QED  BY <1>1 DEF AllCarried

\* A completion is told, or crosses out a cancelled ticket, or stops the link.
LEMMA CompletionSafe ==
  ASSUME PipeInv, ApplyCompletion
  PROVE  PipeInv' /\ Promised
<1>0. PICK c, ticket : c = Head(batch).c /\ ticket = Head(batch).n  OBVIOUS
<1>1. /\ pc = "apply" /\ batch # <<>> /\ Head(batch).kind = "completed"
      /\ batch' = Tail(batch)
      /\ UNCHANGED <<outbox, input, events, worker, arrived, wire>>
  BY DEF ApplyCompletion, workerVars
<1>2. outbox = {}  BY <1>1, NoOutbox
<1>3. /\ c \in Controllers /\ batch' \in Seq(Event) /\ AllCarried(batch')
      /\ Carried(c, ticket)
  BY <1>0, <1>1, EventTypes DEF PipeInv, PipeTypes, PipeTruth, Event
<1>4. IsChip(ctl[c])  BY <1>3, AllChips DEF PipeInv
<1>5. CASE Remembers(ctl[c], ticket) /\ ctl' = [ctl EXCEPT ![c] = Completed(@, ticket)]
           /\ UNCHANGED pc
  <2>1. PICK v : Completed(ctl[c], ticket) = [ctl[c] EXCEPT !.cancelled = v]
    BY <1>5 DEF Completed
  <2>2. IsChip(Completed(ctl[c], ticket)) /\ Kept(Completed(ctl[c], ticket), ctl[c])
    <3>1. LET new == [ctl[c] EXCEPT !.cancelled = v] IN IsChip(new) /\ Kept(new, ctl[c])
      BY <1>4, OtherRegisters
    <3>2. QED  BY <2>1, <3>1
  <2>3. ctl' = [ctl EXCEPT ![c] = Completed(ctl[c], ticket)]  BY <1>5
  <2>4. QED  BY <1>1, <1>2, <1>3, <1>5, <2>2, <2>3, KeptSafe
<1>6. CASE ~Remembers(ctl[c], ticket) /\ Completes(ctl[c], ticket)
           /\ ctl' = [ctl EXCEPT ![c] = Completed(@, ticket)] /\ UNCHANGED pc
  <2> DEFINE chip == Completed(ctl[c], ticket)
  <2>1. /\ IsChip(chip) /\ chip.pending = None /\ chip.next = ctl[c].next
        /\ chip.done = ctl[c].pending /\ ctl[c].pending = ticket
    <3>1. PICK S : ctl[c] \in Chip(S)  BY <1>4 DEF IsChip
    <3>2. chip = [ctl[c] EXCEPT !.pending = None, !.sent = TRUE, !.done = ctl[c].pending]
      BY <1>6 DEF Completed
    <3>3. ctl[c].pending \in Nat  BY <3>1 DEF Chip
    <3>4. \A k \in Nat :
            LET new == [ctl[c] EXCEPT !.pending = None, !.sent = TRUE, !.done = k]
            IN  /\ new \in Chip(S \cup {TRUE}) /\ new.pending = None
                /\ new.next = ctl[c].next /\ new.done = k
      BY <3>1 DEF Chip, None
    <3>5. chip \in Chip(S \cup {TRUE}) /\ chip.pending = None /\ chip.next = ctl[c].next
          /\ chip.done = ctl[c].pending
      BY <3>2, <3>3, <3>4
    <3>6. QED  BY <1>6, <3>5 DEF IsChip, Completes
  <2>2. ctl' = [ctl EXCEPT ![c] = chip]  BY <1>6
  <2> HIDE DEF chip
  <2>3. /\ \E T : ctl' \in [Controllers -> Chip(T)]
        /\ ctl'[c] = chip /\ \A d \in Controllers : d # c => ctl'[d] = ctl[d]
    BY <1>3, <2>1, <2>2, OneChip DEF PipeInv
  <2>4. PipeTypes'  BY <1>1, <1>3, <2>3 DEF PipeInv, PipeTypes
  <2>5. \A d, k : (Before(d, k)' <=> Before(d, k)) /\ (Ahead(d, k)' <=> Ahead(d, k))
    BY <1>1 DEF Before, Ahead
  <2>6. PipeOrder'
    <3>1. ctl[c].next \in Nat /\ ctl[c].next # None /\ None < ctl[c].next
      BY <1>3, AllChips DEF PipeInv, Ticket, None
    <3>2. \A d \in Controllers :
            /\ Ahead(d, ctl'[d].next) /\ ctl'[d].pending < ctl'[d].next
            /\ ctl'[d].pending # None /\ ~ctl'[d].dispatched => Ahead(d, ctl'[d].pending)
      BY <2>1, <2>3, <3>1 DEF PipeInv, PipeOrder
    <3>3. pc' # "submit"  BY <1>1, <1>6
    <3>4. QED  BY <1>1, <1>2, <2>5, <3>2, <3>3 DEF PipeInv, PipeOrder
  <2>7. PipeTruth'  BY <1>1, <1>3 DEF PipeInv, PipeTruth, AllCarried, Carried
  <2>8. Promised
    <3>1. /\ [d \in Controllers |-> ctl[d].next - 1]' = [d \in Controllers |-> ctl[d].next - 1]
          /\ [d \in Controllers |-> ctl[d].pending]' =
               [[d \in Controllers |-> ctl[d].pending] EXCEPT ![c] = 0]
          /\ [d \in Controllers |-> ctl[d].done]' =
               [[d \in Controllers |-> ctl[d].done] EXCEPT ![c] = ctl[c].pending]
      BY <2>1, <2>3 DEF None
    <3>2. ctl[c].pending \in Promise!OnWire(c)  BY <1>3, <2>1 DEF Carried, Promise!OnWire
    <3>3. Promise!Tell(c)  BY <1>1, <1>3, <3>1, <3>2 DEF Promise!Tell
    <3>4. c \in Controllers  BY <1>3
    <3>5. Promise!Next  BY <3>3, <3>4, Zenon DEF Promise!Next
    <3>6. QED  BY <3>5 DEF Promised
  <2>9. QED  BY <2>4, <2>6, <2>7, <2>8 DEF PipeInv
<1>7. CASE Stops("stale completion") /\ UNCHANGED ctl
  <2>1. /\ pc' = "closing" /\ outbox' = outbox /\ events' = events /\ worker' = worker
        /\ arrived' = arrived /\ UNCHANGED <<ctl, wire, input>>
    BY <1>1, <1>7 DEF Stops
  <2>2. QED  BY <1>3, <2>1, Quiet DEF PipeInv, PipeTypes, PipeTruth
<1>8. QED  BY <1>0, <1>5, <1>6, <1>7 DEF ApplyCompletion

\* Steps of the emulation thread that concern positions, frames and failures.
LEMMA LinkSafe ==
  ASSUME PipeInv,
         FirmwareFault \/ SerialFailure \/ DropLink \/ PollErrors \/ PollEvent \/ PollEnds
         \/ ApplyFrame \/ ApplyEnds \/ PollReturns \/ Joined
         \/ \E c \in Controllers : DrainFails(c)
  PROVE  PipeInv' /\ Promised
<1>1. /\ UNCHANGED <<ctl, wire, input, outbox, worker, arrived>>
      /\ pc' = "submit" => pc = "submit"
      /\ outbox' = {} \/ pc' \in {"submit", "closing", "stopped"}
  <2>1. outbox = {} \/ pc \in {"submit", "closing", "stopped"}
    BY DEF PipeInv, PipeOrder
  <2>2. QED
    BY <2>1 DEF FirmwareFault, SerialFailure, DropLink, PollErrors, PollEvent, PollEnds,
                ApplyFrame, ApplyEnds, PollReturns, Joined, DrainFails, Stops, Firmware,
                workerVars
<1>2. /\ events' \in Seq(Event) /\ AllCarried(events')
      /\ batch' \in Seq(Event) /\ AllCarried(batch')
  <2>1. /\ events \in Seq(Event) /\ AllCarried(events)
        /\ batch \in Seq(Event) /\ AllCarried(batch)
    BY DEF PipeInv, PipeTypes, PipeTruth
  <2>2. CASE UNCHANGED <<events, batch>>
    BY <2>1, <2>2
  <2>3. CASE UNCHANGED events /\ batch' = <<>>
    BY <2>1, <2>3 DEF AllCarried
  <2>4. CASE UNCHANGED events /\ batch # <<>> /\ batch' = Tail(batch)
    BY <2>1, <2>4, EventTypes
  <2>5. CASE PollEvent
    <3>1. events # <<>> /\ events' = Tail(events) /\ batch' = Append(batch, Head(events))
      BY <2>5 DEF PollEvent
    <3>2. QED  BY <2>1, <3>1, EventTypes, EventAppended
  <2>6. QED
    BY <2>2, <2>3, <2>4, <2>5
       DEF FirmwareFault, SerialFailure, DropLink, PollErrors, PollEnds,
           ApplyFrame, ApplyEnds, PollReturns, Joined, DrainFails
<1>3. QED  BY <1>1, <1>2, Quiet DEF PipeInv, PipeTypes

LEMMA DrainSafe ==
  ASSUME PipeInv, NEW c \in Controllers, Drain(c)
  PROVE  PipeInv' /\ Promised
<1>1. /\ pc = "drain" /\ UNCHANGED <<pc, outbox, batch, input, events, worker, arrived, wire>>
  BY DEF Drain, linkVars, workerVars
<1>2. outbox = {}  BY <1>1, NoOutbox
<1>3. IsChip(ctl[c]) /\ Kept(ctl[c], ctl[c])  BY AllChips DEF PipeInv, Kept
<1>4. PICK chip : ctl' = [ctl EXCEPT ![c] = chip] /\ IsChip(chip) /\ Kept(chip, ctl[c])
  <2>1. CASE ctl' = [ctl EXCEPT ![c].fifo = Append(@, Head(staging[c]))]
    <3>1. PICK f : f = Append(ctl[c].fifo, Head(staging[c]))  OBVIOUS
    <3>2. ctl' = [ctl EXCEPT ![c] = [ctl[c] EXCEPT !.fifo = f]]  BY <2>1, <3>1
    <3>3. LET new == [ctl[c] EXCEPT !.fifo = f] IN IsChip(new) /\ Kept(new, ctl[c])
      BY <1>3, OtherRegisters
    <3>4. QED  BY <3>2, <3>3
  <2>2. CASE ctl' = [ctl EXCEPT ![c].overrun = TRUE]
    <3>1. ctl' = [ctl EXCEPT ![c] = [ctl[c] EXCEPT !.overrun = TRUE]]  BY <2>2
    <3>2. LET new == [ctl[c] EXCEPT !.overrun = TRUE] IN IsChip(new) /\ Kept(new, ctl[c])
      BY <1>3, OtherRegisters
    <3>3. QED  BY <3>1, <3>2
  <2>3. CASE UNCHANGED ctl
    <3>1. ctl' = [ctl EXCEPT ![c] = ctl[c]]  BY <2>3 DEF PipeInv, PipeTypes
    <3>2. QED  BY <1>3, <3>1
  <2>4. QED  BY <2>1, <2>2, <2>3 DEF Drain
<1>5. batch' \in Seq(Event) /\ AllCarried(batch')
  BY <1>1 DEF PipeInv, PipeTypes, PipeTruth
<1>6. QED  BY <1>1, <1>2, <1>3, <1>4, <1>5, KeptSafe

\* The requests not handed over yet leave the controllers.
LEMMA TakesSafe ==
  ASSUME PipeInv, TakesTransmissions
  PROVE  PipeInv' /\ Promised
<1>1. /\ pc = "drain" /\ pc' = "submit"
      /\ outbox' = {<<c, ctl[c].pending>> : c \in {d \in Controllers :
                      ~ctl[d].dispatched /\ ctl[d].pending # None}}
      /\ ctl' = [c \in Controllers |-> [ctl[c] EXCEPT !.dispatched = TRUE]]
      /\ UNCHANGED <<batch, input, events, worker, arrived, wire>>
  BY DEF TakesTransmissions, workerVars
<1>2. PICK S : ctl \in [Controllers -> Chip(S)]  BY DEF PipeInv, PipeTypes
<1>3. \A chip \in Chip(S) : LET new == [chip EXCEPT !.dispatched = TRUE]
                            IN  /\ new \in Chip(S) /\ new.pending = chip.pending
                                /\ new.next = chip.next /\ new.done = chip.done
                                /\ new.dispatched = TRUE
  BY DEF Chip
<1>4. \A c \in Controllers :
        /\ ctl'[c] \in Chip(S) /\ ctl'[c].pending = ctl[c].pending
        /\ ctl'[c].next = ctl[c].next /\ ctl'[c].done = ctl[c].done /\ ctl'[c].dispatched
  <2>1. \A c \in Controllers : ctl[c] \in Chip(S) /\ ctl'[c] = [ctl[c] EXCEPT !.dispatched = TRUE]
    BY <1>1, <1>2
  <2>2. QED  BY <1>3, <2>1
<1>5. \A tx \in outbox' : /\ tx[1] \in Controllers /\ tx = <<tx[1], ctl[tx[1]].pending>>
                          /\ ctl[tx[1]].pending # None /\ ~ctl[tx[1]].dispatched
                          /\ tx[2] = ctl[tx[1]].pending
  BY <1>1
<1>6. PipeTypes'
  <2>1. ctl' \in [Controllers -> Chip(S)]
    <3>1. ctl' = [c \in Controllers |-> ctl'[c]]  BY <1>1
    <3>2. QED  BY <1>4, <3>1
  <2>2. outbox' \subseteq Command
    BY <1>5, AllChips DEF Command, Ticket, PipeInv
  <2>3. QED  BY <1>1, <2>1, <2>2 DEF PipeInv, PipeTypes
<1>7. \A d, k : (Before(d, k)' <=> Before(d, k)) /\ (Ahead(d, k)' <=> Ahead(d, k))
  BY <1>1 DEF Before, Ahead
<1>8. PipeOrder'
  <2>1. \A c \in Controllers :
          /\ Ahead(c, ctl'[c].next) /\ ctl'[c].pending < ctl'[c].next /\ ctl'[c].dispatched
    BY <1>4 DEF PipeInv, PipeOrder
  <2>2. \A tx \in outbox' :
          /\ Ahead(tx[1], tx[2]) /\ tx[2] < ctl'[tx[1]].next
          /\ \A other \in outbox' : other[1] = tx[1] => other = tx
    BY <1>4, <1>5 DEF PipeInv, PipeOrder
  <2>3. QED  BY <1>1, <1>7, <2>1, <2>2 DEF PipeInv, PipeOrder
<1>9. PipeTruth'  BY <1>1 DEF PipeInv, PipeTruth, AllCarried, Carried
<1>10. Promised
  <2>1. /\ [d \in Controllers |-> ctl[d].next - 1]' = [d \in Controllers |-> ctl[d].next - 1]
        /\ [d \in Controllers |-> ctl[d].pending]' = [d \in Controllers |-> ctl[d].pending]
        /\ [d \in Controllers |-> ctl[d].done]' = [d \in Controllers |-> ctl[d].done]
    BY <1>4
  <2>2. QED  BY <1>1, <2>1 DEF Promised, Promise!vars
<1>11. QED  BY <1>6, <1>8, <1>9, <1>10 DEF PipeInv

\* A request enters the command channel behind the ones before it.
LEMMA SubmitSafe ==
  ASSUME PipeInv, Submit
  PROVE  PipeInv' /\ Promised
<1>1. PICK tx \in outbox :
        /\ pc = "submit" /\ outbox' = outbox \ {tx}
        /\ UNCHANGED <<ctl, batch, events, worker, arrived, wire>>
        /\ \/ UNCHANGED <<pc, input>>
           \/ UNCHANGED pc /\ input' = Append(input, tx)
           \/ UNCHANGED input /\ pc' = "closing"
  BY DEF Submit, Stops, workerVars
<1>2. /\ events' \in Seq(Event) /\ AllCarried(events')
      /\ batch' \in Seq(Event) /\ AllCarried(batch')
  BY <1>1 DEF PipeInv, PipeTypes, PipeTruth
<1>3. CASE UNCHANGED input
  <2>1. /\ UNCHANGED <<ctl, wire, input, worker, arrived>> /\ outbox' \subseteq outbox
        /\ pc' \in {"submit", "closing", "stopped"} /\ (pc' = "submit" => pc = "submit")
    BY <1>1, <1>3
  <2>2. QED  BY <1>2, <2>1, Quiet DEF PipeInv, PipeTypes
<1>4. CASE UNCHANGED pc /\ input' = Append(input, tx)
  <2>1. /\ tx \in Command /\ tx[1] \in Controllers /\ input \in Seq(Command)
        /\ Ahead(tx[1], tx[2]) /\ tx[2] < ctl[tx[1]].next
    BY <1>1 DEF PipeInv, PipeTypes, PipeOrder, Command
  <2>2. PipeTypes'
    BY <1>1, <1>2, <1>4, <2>1 DEF PipeInv, PipeTypes
  <2>3. /\ DOMAIN input' = DOMAIN input \cup {Len(input) + 1} /\ Len(input) \in Nat
        /\ \A i \in DOMAIN input : i \in Nat /\ i <= Len(input) /\ input'[i] = input[i]
        /\ input'[Len(input) + 1] = tx
    BY <1>4, <2>1
  <2>4. \A c, k : Before(c, k)' <=> Before(c, k)  BY <1>1 DEF Before
  <2>5. \A c, k : Ahead(c, k) /\ (tx[1] = c => tx[2] < k) => Ahead(c, k)'
    BY <2>3, <2>4 DEF Ahead
  <2>6. PipeOrder'
    <3>1. \A i \in DOMAIN input' :
            /\ Before(input'[i][1], input'[i][2])
            /\ \A j \in DOMAIN input' : j < i /\ input'[j][1] = input'[i][1] =>
                                           input'[j][2] < input'[i][2]
      <4>1. \A i \in DOMAIN input :
              /\ Before(input[i][1], input[i][2])
              /\ \A j \in DOMAIN input : j < i /\ input[j][1] = input[i][1] =>
                                             input[j][2] < input[i][2]
        BY DEF PipeInv, PipeOrder
      <4>2. /\ Before(tx[1], tx[2])
            /\ \A j \in DOMAIN input : input[j][1] = tx[1] => input[j][2] < tx[2]
        BY <2>1 DEF Ahead
      <4>3. QED  BY <2>3, <4>1, <4>2
    <3>2. \A other \in outbox' :
            /\ Ahead(other[1], other[2])' /\ other[2] < ctl[other[1]].next
            /\ \A o \in outbox' : o[1] = other[1] => o = other
      <4>1. \A other \in outbox' : other \in outbox /\ other[1] # tx[1]
        BY <1>1 DEF PipeInv, PipeOrder
      <4>2. QED  BY <1>1, <2>5, <4>1 DEF PipeInv, PipeOrder
    <3>3. \A c \in Controllers :
            /\ Ahead(c, ctl[c].next)' /\ ctl[c].pending < ctl[c].next /\ ctl[c].dispatched
      BY <1>1, <2>1, <2>5 DEF PipeInv, PipeOrder, Ahead
    <3>4. QED  BY <1>1, <1>4, <2>4, <3>1, <3>2, <3>3 DEF PipeInv, PipeOrder, Ahead
  <2>7. PipeTruth'  BY <1>1 DEF PipeInv, PipeTruth, AllCarried, Carried
  <2>8. Promised  BY <1>1 DEF Promised, Promise!vars
  <2>9. QED  BY <2>2, <2>6, <2>7, <2>8 DEF PipeInv
<1>5. QED  BY <1>1, <1>3, <1>4

-----------------------------------------------------------------------------
(***************************************************************************)
(* The worker.                                                             *)
(***************************************************************************)

\* The next request is in the hands of the worker.
LEMMA TakeSafe ==
  ASSUME PipeInv, WorkerTakes
  PROVE  PipeInv' /\ Promised
<1>1. /\ worker.at = "commands" /\ input # <<>> /\ input' = Tail(input)
      /\ worker' = [worker EXCEPT !.at = "device", !.hand = Head(input), !.turn = @ + 1]
      /\ UNCHANGED <<ctl, pc, batch, outbox, events, arrived, wire>>
  BY DEF WorkerTakes, WorkerStep, OnlyWorker, linkVars
<1>2. /\ input \in Seq(Command) /\ Head(input) \in Command /\ Tail(input) \in Seq(Command)
      /\ 1 \in DOMAIN input /\ Head(input) = input[1]
      /\ \A i \in DOMAIN Tail(input) :
            /\ i \in Nat /\ i + 1 \in DOMAIN input /\ 1 < i + 1
            /\ Tail(input)[i] = input[i + 1]
  BY <1>1 DEF PipeInv, PipeTypes
<1>3. worker'.at = "device" /\ worker'.hand = input[1]
  BY <1>1, <1>2 DEF PipeInv, PipeTypes
<1>4. PipeTypes'
  <2>1. worker' \in [at: {"top", "commands", "device", "confirm", "reads", "cleanup",
                         "reported", "dead"},
                    turn: Nat, hand: Command \cup {<<None, None>>}, failed: BOOLEAN]
    <3>1. /\ worker \in [at: {"top", "commands", "device", "confirm", "reads", "cleanup",
                             "reported", "dead"},
                        turn: Nat, hand: Command \cup {<<None, None>>}, failed: BOOLEAN]
          /\ worker.turn + 1 \in Nat
      BY DEF PipeInv, PipeTypes
    <3>2. worker' = [worker EXCEPT !.at = "device", !.hand = Head(input), !.turn = worker.turn + 1]
      BY <1>1
    <3>3. Head(input) \in Command \cup {<<None, None>>}  BY <1>2
    <3>4. QED  BY <3>1, <3>2, <3>3
  <2>2. QED  BY <1>1, <1>2, <1>3, <2>1 DEF PipeInv, PipeTypes
<1>5. \A c, k : Ahead(c, k) => Ahead(c, k)'
  BY <1>1, <1>2, <1>3 DEF Ahead, Before
<1>6. PipeOrder'
  <2>1. \A i \in DOMAIN wire'[worker'.hand[1]] : wire'[worker'.hand[1]][i] < worker'.hand[2]
    BY <1>1, <1>2, <1>3 DEF PipeInv, PipeOrder, Before
  <2>2. \A i \in DOMAIN input' :
          /\ Before(input[i][1], input[i][2])'
          /\ \A j \in DOMAIN input' : j < i /\ input'[j][1] = input'[i][1] =>
                                         input'[j][2] < input'[i][2]
    <3>1. SUFFICES ASSUME NEW i \in DOMAIN input'
                   PROVE  /\ Before(input[i][1], input[i][2])'
                          /\ \A j \in DOMAIN input' :
                                j < i /\ input'[j][1] = input'[i][1] =>
                                  input'[j][2] < input'[i][2]
      OBVIOUS
    <3>2. /\ i \in Nat /\ i + 1 \in DOMAIN input /\ 1 < i + 1 /\ input'[i] = input[i + 1]
          /\ \A j \in DOMAIN input' : /\ j \in Nat /\ j + 1 \in DOMAIN input
                                     /\ input'[j] = input[j + 1]
      BY <1>1, <1>2
    <3>3. /\ Before(input[i + 1][1], input[i + 1][2])
          /\ \A j \in DOMAIN input : j < i + 1 /\ input[j][1] = input[i + 1][1] =>
                                         input[j][2] < input[i + 1][2]
      BY <3>2 DEF PipeInv, PipeOrder
    <3>4. Before(input[i][1], input[i][2])'
      BY <1>1, <1>2, <1>3, <3>2, <3>3 DEF Before
    <3>5. \A j \in DOMAIN input' : j < i /\ input'[j][1] = input'[i][1] =>
                                     input'[j][2] < input'[i][2]
      BY <3>2, <3>3
    <3>6. QED  BY <3>4, <3>5
  <2>3. QED  BY <1>1, <1>5, <2>1, <2>2 DEF PipeInv, PipeOrder
<1>7. PipeTruth'  BY <1>1, <1>3 DEF PipeInv, PipeTruth, AllCarried, Carried
<1>8. Promised  BY <1>1 DEF Promised, Promise!vars
<1>9. QED  BY <1>4, <1>6, <1>7, <1>8 DEF PipeInv

\* The device puts the request on the bus, whether or not it says so.
LEMMA SentSafe ==
  ASSUME PipeInv, worker.at = "device",
         wire' = [wire EXCEPT ![worker.hand[1]] = Append(@, worker.hand[2])],
         worker' \in [at: {"confirm", "cleanup"}, turn: Nat, hand: {worker.hand},
                      failed: BOOLEAN],
         UNCHANGED <<ctl, pc, batch, outbox, input, events, arrived>>
  PROVE  PipeInv' /\ Promised
<1>0. PICK c, k : c = worker.hand[1] /\ k = worker.hand[2]  OBVIOUS
<1>1. /\ worker.hand \in Command /\ c \in Controllers /\ k \in Ticket /\ k \in Nat
      /\ wire[c] \in Seq(Ticket)
  BY <1>0 DEF PipeInv, PipeTypes, Command, Ticket
<1>2. /\ worker'.at \in {"confirm", "cleanup"} /\ worker'.hand = worker.hand
      /\ wire'[c] = Append(wire[c], k)
      /\ \A d \in Controllers : d # c => wire'[d] = wire[d]
  BY <1>0, <1>1 DEF PipeInv, PipeTypes
<1>3. PipeTypes'
  <2>1. wire' \in [Controllers -> Seq(Ticket)]
    BY <1>0, <1>1 DEF PipeInv, PipeTypes
  <2>2. worker' \in [at: {"top", "commands", "device", "confirm", "reads", "cleanup",
                         "reported", "dead"},
                    turn: Nat, hand: Command \cup {<<None, None>>}, failed: BOOLEAN]
    BY <1>1
  <2>3. QED  BY <1>1, <1>2, <2>1, <2>2 DEF PipeInv, PipeTypes
<1>4. /\ DOMAIN wire'[c] = DOMAIN wire[c] \cup {Len(wire[c]) + 1}
      /\ \A i \in DOMAIN wire[c] : wire'[c][i] = wire[c][i]
      /\ wire'[c][Len(wire[c]) + 1] = k
  BY <1>1, <1>2
<1>5. \A d \in Controllers : \A n : (Before(d, n) => Before(d, n)') /\ (Ahead(d, n) => Ahead(d, n)')
  <2>1. \A d \in Controllers : \A n : Before(d, n) => Before(d, n)'
    <3>1. SUFFICES ASSUME NEW d \in Controllers, NEW n, Before(d, n)
                   PROVE  Before(d, n)'
      OBVIOUS
    <3>2. CASE d = c
      BY <1>0, <1>2, <1>4, <3>1, <3>2 DEF Before
    <3>3. CASE d # c
      BY <1>2, <3>1, <3>3 DEF Before
    <3>4. QED  BY <3>2, <3>3
  <2>2. QED  BY <2>1 DEF Ahead
<1>6. PipeOrder'
  <2>1. \A i \in DOMAIN input : input[i][1] \in Controllers  BY DEF PipeInv, PipeTypes, Command
  <2>2. \A tx \in outbox : tx[1] \in Controllers  BY DEF PipeInv, PipeTypes, Command
  <2>3. QED  BY <1>2, <1>5, <2>1, <2>2 DEF PipeInv, PipeOrder
<1>7. PipeTruth'
  <2>1. \A d \in Controllers : \A n : Carried(d, n) => Carried(d, n)'
    <3>1. SUFFICES ASSUME NEW d \in Controllers, NEW n, Carried(d, n)
                   PROVE  Carried(d, n)'
      OBVIOUS
    <3>2. CASE d = c
      BY <1>2, <1>4, <3>1, <3>2 DEF Carried
    <3>3. CASE d # c
      BY <1>2, <3>1, <3>3 DEF Carried
    <3>4. QED  BY <3>2, <3>3
  <2>2. Carried(c, k)'  BY <1>4 DEF Carried
  <2>3. \A i \in DOMAIN events : events[i].c \in Controllers
    <3>1. events \in Seq(Event)  BY DEF PipeInv, PipeTypes
    <3>2. \A i \in DOMAIN events : events[i] \in Event  BY <3>1
    <3>3. QED  BY <3>2 DEF Event
  <2>4. \A i \in DOMAIN batch : batch[i].c \in Controllers
    <3>1. batch \in Seq(Event)  BY DEF PipeInv, PipeTypes
    <3>2. \A i \in DOMAIN batch : batch[i] \in Event  BY <3>1
    <3>3. QED  BY <3>2 DEF Event
  <2>5. AllCarried(events)' /\ AllCarried(batch)'
    BY <2>1, <2>3, <2>4 DEF PipeInv, PipeTruth, AllCarried
  <2>6. (worker.at = "confirm" => Carried(worker.hand[1], worker.hand[2]))'
    BY <1>0, <1>2, <2>2
  <2>7. QED  BY <2>5, <2>6 DEF PipeTruth
<1>8. Promised
  <2>1. k < ctl[c].next /\ ctl[c].next \in Nat
    BY <1>0, <1>1, AllChips DEF PipeInv, PipeOrder, Ahead, Before, Ticket
  <2>2. k \in 1..[d \in Controllers |-> ctl[d].next - 1][c]
    BY <1>1, <2>1 DEF Ticket, None
  <2>3. \A j \in Promise!OnWire(c) : j < k
    BY <1>0 DEF PipeInv, PipeOrder, Promise!OnWire
  <2>4. Promise!Carry(c, k)
    BY <1>0, <2>3 DEF Promise!Carry
  <2>5. c \in Controllers  BY <1>1
  <2>6. Promise!Next  BY <2>2, <2>4, <2>5, Zenon DEF Promise!Next
  <2>7. QED  BY <2>6 DEF Promised
<1>9. QED  BY <1>3, <1>6, <1>7, <1>8 DEF PipeInv

\* The other steps of the worker and of the device.
LEMMA WorkerSafe ==
  ASSUME PipeInv,
         WorkerLoop \/ WorkerTurns \/ WorkerConfirms \/ WorkerReturns \/ WorkerReports
         \/ WorkerEnds \/ DeviceAccepts \/ DeviceFails \/ \E c \in Wired : WorkerReceives(c)
  PROVE  PipeInv' /\ Promised
<1> DEFINE Hand == Command \cup {<<None, None>>}
           At == {"top", "commands", "device", "confirm", "reads", "cleanup", "reported", "dead"}
<1>1. /\ UNCHANGED <<ctl, pc, batch, outbox, input>>
      /\ batch \in Seq(Event) /\ AllCarried(batch)
      /\ events \in Seq(Event) /\ AllCarried(events)
      /\ outbox = {} \/ pc \in {"submit", "closing", "stopped"}
  BY DEF WorkerLoop, WorkerTurns, WorkerConfirms, WorkerReturns, WorkerReports, WorkerEnds,
         DeviceAccepts, DeviceFails, WorkerReceives, OnlyWorker, linkVars,
         PipeInv, PipeTypes, PipeTruth, PipeOrder
<1>2. /\ worker \in [at: At, turn: Nat, hand: Hand, failed: BOOLEAN]
      /\ worker.at \in {"device", "confirm"} => worker.hand \in Command
      /\ arrived \in [Controllers -> Nat] /\ worker.hand \in Hand
      /\ worker.turn \in Nat /\ worker.failed \in BOOLEAN
  BY DEF PipeInv, PipeTypes
<1>3. \A at \in At : \A n \in Nat : \A b \in BOOLEAN :
        LET new == [worker EXCEPT !.at = at, !.turn = n, !.failed = b]
        IN  new \in [at: At, turn: Nat, hand: Hand, failed: BOOLEAN] /\ new.at = at
            /\ new.hand = worker.hand
  BY <1>2
<1> DEFINE Away == /\ worker' \in [at: At, turn: Nat, hand: Hand, failed: BOOLEAN]
                   /\ worker'.at \notin {"device", "confirm"}
<1>4. \A at \in At \ {"device", "confirm"} : \A b \in BOOLEAN :
        \/ worker' = [worker EXCEPT !.at = at]
        \/ worker' = [worker EXCEPT !.at = at, !.failed = b]
        \/ worker' = [worker EXCEPT !.at = at, !.turn = 0]
        => Away
  <2>1. SUFFICES ASSUME NEW at \in At \ {"device", "confirm"}, NEW b \in BOOLEAN,
                        \/ worker' = [worker EXCEPT !.at = at]
                        \/ worker' = [worker EXCEPT !.at = at, !.failed = b]
                        \/ worker' = [worker EXCEPT !.at = at, !.turn = 0]
                 PROVE  Away
    OBVIOUS
  <2>2. PICK n \in Nat, f \in BOOLEAN :
          worker' = [worker EXCEPT !.at = at, !.turn = n, !.failed = f]
    <3>1. [worker EXCEPT !.at = at] =
            [worker EXCEPT !.at = at, !.turn = worker.turn, !.failed = worker.failed]
      BY <1>2
    <3>2. [worker EXCEPT !.at = at, !.failed = b] =
            [worker EXCEPT !.at = at, !.turn = worker.turn, !.failed = b]
      BY <1>2
    <3>3. [worker EXCEPT !.at = at, !.turn = 0] =
            [worker EXCEPT !.at = at, !.turn = 0, !.failed = worker.failed]
      BY <1>2
    <3>4. QED  BY <1>2, <2>1, <3>1, <3>2, <3>3
  <2>3. /\ worker' \in [at: At, turn: Nat, hand: Hand, failed: BOOLEAN]
        /\ worker'.at = at
    <3>1. at \in At  OBVIOUS
    <3> HIDE DEF At, Hand
    <3>2. LET new == [worker EXCEPT !.at = at, !.turn = n, !.failed = f]
          IN  new \in [at: At, turn: Nat, hand: Hand, failed: BOOLEAN] /\ new.at = at
      BY <1>3, <3>1, Zenon
    <3>3. QED  BY <2>2, <3>2
  <2>4. QED  BY <2>3
<1>5. ASSUME Away \/ worker' = worker, UNCHANGED wire, arrived' \in [Controllers -> Nat],
             events' \in Seq(Event), AllCarried(events')
      PROVE  PipeInv' /\ Promised
  <2>1. /\ worker' \in [at: At, turn: Nat, hand: Hand, failed: BOOLEAN]
        /\ worker'.at \in {"device", "confirm"} => worker' = worker
    BY <1>2, <1>5
  <2>2. batch' \in Seq(Event) /\ AllCarried(batch')  BY <1>1
  <2>3. outbox' \subseteq outbox /\ (outbox' = {} \/ pc' \in {"submit", "closing", "stopped"})
    BY <1>1
  <2>4. QED  BY <1>1, <1>5, <2>1, <2>2, <2>3, Quiet
<1>6. ASSUME worker.at = "device", wire' = [wire EXCEPT ![worker.hand[1]] = Append(@, worker.hand[2])],
             UNCHANGED <<arrived, events>>,
             \/ worker' = [worker EXCEPT !.at = "confirm"]
             \/ worker' = [worker EXCEPT !.at = "cleanup", !.failed = TRUE]
      PROVE  PipeInv' /\ Promised
  <2>1. worker' \in [at: {"confirm", "cleanup"}, turn: Nat, hand: {worker.hand}, failed: BOOLEAN]
    BY <1>2, <1>6
  <2>2. QED  BY <1>1, <1>6, <2>1, SentSafe
<1>7. CASE WorkerLoop \/ WorkerTurns \/ WorkerReturns \/ WorkerReports \/ WorkerEnds
  <2>1. /\ UNCHANGED <<wire, arrived, events>>
        /\ \/ \E at \in At \ {"device", "confirm"} : worker' = [worker EXCEPT !.at = at]
           \/ \E at \in At \ {"device", "confirm"} : worker' = [worker EXCEPT !.at = at, !.turn = 0]
    BY <1>7 DEF WorkerLoop, WorkerTurns, WorkerReturns, WorkerReports, WorkerEnds
  <2>2. Away  BY <1>4, <2>1
  <2>3. QED  BY <1>1, <1>2, <1>5, <2>1, <2>2
<1>8. CASE DeviceFails
  <2>1. /\ worker' = [worker EXCEPT !.at = "cleanup", !.failed = TRUE]
        /\ UNCHANGED <<arrived, events>>
    BY <1>8 DEF DeviceFails
  <2>2. CASE UNCHANGED wire
    <3>1. Away  BY <1>4, <2>1
    <3>2. QED  BY <1>1, <1>2, <1>5, <2>1, <2>2, <3>1
  <2>3. CASE worker.at = "device"
             /\ wire' = [wire EXCEPT ![worker.hand[1]] = Append(@, worker.hand[2])]
    BY <1>6, <2>1, <2>3
  <2>4. QED  BY <1>8, <2>2, <2>3 DEF DeviceFails, WorkerStep
<1>9. CASE DeviceAccepts
  BY <1>6, <1>9 DEF DeviceAccepts, WorkerStep
<1>10. CASE WorkerConfirms
  <2>1. worker.at = "confirm" /\ UNCHANGED <<wire, arrived>>
    BY <1>10 DEF WorkerConfirms, WorkerStep
  <2>2. CASE UNCHANGED events /\ worker' = [worker EXCEPT !.at = "cleanup", !.failed = TRUE]
    <3>1. Away  BY <1>4, <2>2
    <3>2. QED  BY <1>1, <1>2, <1>5, <2>1, <2>2, <3>1
  <2>3. CASE /\ events' = Append(events, [kind |-> "completed", c |-> worker.hand[1],
                                          n |-> worker.hand[2]])
             /\ worker' = [worker EXCEPT !.at = "commands"]
    <3>1. Away  BY <1>4, <2>3
    <3>2. [kind |-> "completed", c |-> worker.hand[1], n |-> worker.hand[2]] \in Event
      BY <1>2, <2>1 DEF Event, Command, Ticket
    <3>3. Carried(worker.hand[1], worker.hand[2])
      BY <2>1 DEF PipeInv, PipeTruth
    <3>4. events' \in Seq(Event) /\ AllCarried(events')
      BY <1>1, <2>3, <3>2, <3>3, EventAppended
    <3>5. QED  BY <1>2, <1>5, <2>1, <3>1, <3>4
  <2>4. QED  BY <1>10, <2>2, <2>3 DEF WorkerConfirms
<1>11. CASE \E c \in Wired : WorkerReceives(c)
  <2>1. PICK c \in Wired : WorkerReceives(c)  BY <1>11
  <2>2. c \in Controllers /\ arrived[c] + 1 \in Nat  BY <1>2, CanLinkAssumption
  <2>3. UNCHANGED wire /\ arrived' \in [Controllers -> Nat]
    BY <1>2, <2>1, <2>2 DEF WorkerReceives
  <2>4. CASE UNCHANGED events /\ worker' = [worker EXCEPT !.at = "cleanup", !.failed = TRUE]
    <3>1. Away  BY <1>4, <2>4
    <3>2. QED  BY <1>1, <1>5, <2>3, <2>4, <3>1
  <2>5. CASE /\ events' = Append(events, [kind |-> "received", c |-> c, n |-> arrived[c] + 1])
             /\ UNCHANGED worker
    <3>1. [kind |-> "received", c |-> c, n |-> arrived[c] + 1] \in Event
      BY <2>2 DEF Event
    <3>2. events' \in Seq(Event) /\ AllCarried(events')
      BY <1>1, <2>5, <3>1, EventAppended
    <3>3. QED  BY <1>5, <2>3, <2>5, <3>2
  <2>6. QED  BY <2>1, <2>4, <2>5 DEF WorkerReceives
<1>12. QED  BY <1>7, <1>8, <1>9, <1>10, <1>11

\* Every step keeps the invariant and the promise.
LEMMA StepSafe == PipeInv /\ [Next]_vars => PipeInv' /\ Promised
<1> SUFFICES ASSUME PipeInv, [Next]_vars PROVE PipeInv' /\ Promised
  OBVIOUS
<1>1. CASE UNCHANGED vars
  <2>1. /\ UNCHANGED <<ctl, wire, input, outbox, batch, events, worker, arrived, pc>>
        /\ outbox' \subseteq outbox
    BY <1>1 DEF vars, linkVars, workerVars
  <2>2. QED  BY <2>1, Quiet DEF PipeInv, PipeTypes, PipeTruth, PipeOrder
<1>2. CASE Slice
  BY <1>2, RequestSafe, FirmwareSafe DEF Slice
<1>3. CASE Poll
  <2>1. CASE DrainEnds
    BY <2>1, TakesSafe DEF DrainEnds
  <2>2. QED  BY <1>3, <2>1, LinkSafe, CompletionSafe, SubmitSafe, DrainSafe DEF Poll
<1>4. CASE Ending
  BY <1>4, LinkSafe DEF Ending
<1>5. CASE Worker \/ Device
  BY <1>5, WorkerSafe, TakeSafe DEF Worker, Device
<1>6. QED  BY <1>1, <1>2, <1>3, <1>4, <1>5 DEF Next, Stopped

-----------------------------------------------------------------------------
(***************************************************************************)
(* The frames of a bus on their way to the FIFO.                           *)
(***************************************************************************)
Mine(list, c) == {i \in DOMAIN list : list[i].kind = "received" /\ list[i].c = c}

\* `Carries`, element by element.
LEMMA CarriesEach ==
  ASSUME NEW list \in Seq(Event), NEW c, NEW from \in Nat, NEW to \in Nat
  PROVE  Carries(list, c, from, to) <=>
           /\ from <= to
           /\ \A i \in Mine(list, c) : list[i].n \in (from + 1)..to
           /\ \A k \in (from + 1)..to : \E i \in Mine(list, c) : list[i].n = k
           /\ \A i, j \in Mine(list, c) : i < j => list[i].n < list[j].n
BY DEF Carries, Mine

LEMMA CarriesNone ==
  ASSUME NEW c, NEW from \in Nat
  PROVE  Carries(<<>>, c, from, from)
<1>1. DOMAIN <<>> = {} /\ (from + 1)..from = {}  OBVIOUS
<1>2. QED  BY <1>1 DEF Carries

LEMMA EventNumber ==
  ASSUME NEW list \in Seq(Event)
  PROVE  \A i \in DOMAIN list : list[i].n \in Nat /\ list[i] \in Event
<1>1. \A i \in DOMAIN list : list[i] \in Event  OBVIOUS
<1>2. QED  BY <1>1 DEF Event

\* An event leaves the list at the head ...
LEMMA CarriesTail ==
  ASSUME NEW list \in Seq(Event), list # <<>>, NEW c, NEW from \in Nat, NEW to \in Nat,
         Carries(list, c, from, to)
  PROVE  IF Head(list).kind = "received" /\ Head(list).c = c
         THEN /\ Head(list).n = from + 1 /\ from + 1 <= to
              /\ Carries(Tail(list), c, from + 1, to)
         ELSE Carries(Tail(list), c, from, to)
<1>1. /\ Tail(list) \in Seq(Event) /\ Head(list) = list[1] /\ 1 \in DOMAIN list
      /\ \A i \in DOMAIN Tail(list) : /\ i \in Nat /\ 1 < i + 1
                                      /\ i + 1 \in DOMAIN list /\ Tail(list)[i] = list[i + 1]
      /\ \A i \in DOMAIN list : i \in Nat /\ (i = 1 \/ (1 < i /\ i - 1 \in DOMAIN Tail(list)
                                                  /\ Tail(list)[i - 1] = list[i]))
  OBVIOUS
<1> DEFINE t == Tail(list)
<1>2. /\ \A i \in Mine(t, c) : /\ i \in Nat /\ i + 1 \in Mine(list, c)
                               /\ 1 < i + 1 /\ t[i] = list[i + 1]
      /\ \A i \in Mine(list, c) : /\ i \in Nat
                                  /\ i = 1 \/ (1 < i /\ i - 1 \in Mine(t, c)
                                                 /\ t[i - 1] = list[i])
  BY <1>1 DEF Mine
<1>3. /\ from <= to
      /\ \A i \in Mine(list, c) : list[i].n \in (from + 1)..to
      /\ \A k \in (from + 1)..to : \E i \in Mine(list, c) : list[i].n = k
      /\ \A i, j \in Mine(list, c) : i < j => list[i].n < list[j].n
  BY CarriesEach
<1>4. \A i, j \in Mine(t, c) : i < j => t[i].n < t[j].n
  <2>1. SUFFICES ASSUME NEW i \in Mine(t, c), NEW j \in Mine(t, c), i < j
                 PROVE  t[i].n < t[j].n
    OBVIOUS
  <2>2. i \in Nat /\ j \in Nat /\ i + 1 < j + 1  BY <1>2, <2>1
  <2>3. QED  BY <1>2, <1>3, <2>2
<1> HIDE DEF t
<1>5. CASE Head(list).kind = "received" /\ Head(list).c = c
  <2>1. 1 \in Mine(list, c)  BY <1>1, <1>5 DEF Mine
  <2>2. \A i \in Mine(list, c) : i # 1 => list[1].n < list[i].n
    BY <1>2, <1>3, <2>1
  <2>3. list[1].n = from + 1 /\ from + 1 <= to
    <3>1. list[1].n \in (from + 1)..to  BY <1>3, <2>1
    <3>2. from + 1 \in (from + 1)..to  BY <3>1
    <3>3. PICK i \in Mine(list, c) : list[i].n = from + 1  BY <1>3, <3>2
    <3>4. QED  BY <2>2, <3>1, <3>3
  <2>4. \A i \in Mine(t, c) : t[i].n \in (from + 2)..to
    <3>1. SUFFICES ASSUME NEW i \in Mine(t, c) PROVE t[i].n \in (from + 2)..to
      OBVIOUS
    <3>2. i + 1 \in Mine(list, c) /\ i + 1 # 1 /\ t[i] = list[i + 1]  BY <1>2
    <3>3. list[1].n < list[i + 1].n  BY <2>2, <3>2
    <3>4. list[i + 1].n \in (from + 1)..to  BY <1>3, <3>2
    <3>5. QED  BY <2>3, <3>2, <3>3, <3>4
  <2>5. \A k \in (from + 2)..to : \E i \in Mine(t, c) : t[i].n = k
    <3>1. SUFFICES ASSUME NEW k \in (from + 2)..to PROVE \E i \in Mine(t, c) : t[i].n = k
      OBVIOUS
    <3>2. PICK i \in Mine(list, c) : list[i].n = k  BY <1>3
    <3>3. i # 1  BY <2>3, <3>2
    <3>4. i - 1 \in Mine(t, c) /\ t[i - 1].n = k  BY <1>2, <3>2, <3>3
    <3>5. QED  BY <3>4
  <2>6. Carries(t, c, from + 1, to)
    <3>1. t \in Seq(Event) /\ from + 1 \in Nat /\ (from + 1) + 1 = from + 2
      BY <1>1 DEF t
    <3>2. QED  BY <1>4, <2>3, <2>4, <2>5, <3>1, CarriesEach
  <2>7. QED  BY <1>1, <1>5, <2>3, <2>6 DEF t
<1>6. CASE ~(Head(list).kind = "received" /\ Head(list).c = c)
  <2>1. 1 \notin Mine(list, c)  BY <1>1, <1>6 DEF Mine
  <2>2. \A i \in Mine(t, c) : t[i].n \in (from + 1)..to  BY <1>2, <1>3
  <2>3. \A k \in (from + 1)..to : \E i \in Mine(t, c) : t[i].n = k
    <3>1. SUFFICES ASSUME NEW k \in (from + 1)..to PROVE \E i \in Mine(t, c) : t[i].n = k
      OBVIOUS
    <3>2. PICK i \in Mine(list, c) : list[i].n = k  BY <1>3
    <3>3. i - 1 \in Mine(t, c) /\ t[i - 1].n = k  BY <1>2, <2>1, <3>2
    <3>4. QED  BY <3>3
  <2>4. t \in Seq(Event)  BY <1>1 DEF t
  <2>5. Carries(t, c, from, to)  BY <1>3, <1>4, <2>2, <2>3, <2>4, CarriesEach
  <2>6. QED  BY <1>6, <2>5 DEF t
<1>7. QED  BY <1>5, <1>6

\* ... or enters it at the end.
LEMMA CarriesAppend ==
  ASSUME NEW list \in Seq(Event), NEW e \in Event, NEW c, NEW from \in Nat, NEW to \in Nat,
         Carries(list, c, from, to)
  PROVE  IF e.kind = "received" /\ e.c = c
         THEN e.n = to + 1 => Carries(Append(list, e), c, from, to + 1)
         ELSE Carries(Append(list, e), c, from, to)
<1> DEFINE t == Append(list, e)
           last == Len(list) + 1
<1>1. /\ t \in Seq(Event) /\ last \in Nat /\ t[last] = e
      /\ \A i \in DOMAIN list : i \in DOMAIN t /\ t[i] = list[i] /\ i \in Nat /\ i < last
      /\ DOMAIN t = DOMAIN list \cup {last}
  OBVIOUS
<1>2. /\ \A i \in Mine(list, c) : i \in Mine(t, c) /\ t[i] = list[i] /\ i \in Nat /\ i < last
      /\ \A i \in Mine(t, c) : i = last \/ i \in Mine(list, c)
  BY <1>1 DEF Mine
<1>3. /\ from <= to
      /\ \A i \in Mine(list, c) : list[i].n \in (from + 1)..to
      /\ \A k \in (from + 1)..to : \E i \in Mine(list, c) : list[i].n = k
      /\ \A i, j \in Mine(list, c) : i < j => list[i].n < list[j].n
  BY CarriesEach
<1>4. last \in Mine(t, c) <=> e.kind = "received" /\ e.c = c
  BY <1>1 DEF Mine
<1> HIDE DEF t, last
<1>5. CASE ~(e.kind = "received" /\ e.c = c)
  <2>1. \A i \in Mine(t, c) : i \in Mine(list, c) /\ t[i] = list[i]  BY <1>2, <1>4, <1>5
  <2>2. \A k \in (from + 1)..to : \E i \in Mine(t, c) : t[i].n = k  BY <1>2, <1>3
  <2>3. Carries(t, c, from, to)  BY <1>1, <1>3, <2>1, <2>2, CarriesEach
  <2>4. QED  BY <1>5, <2>3 DEF t
<1>6. CASE e.kind = "received" /\ e.c = c /\ e.n = to + 1
  <2>1. \A i \in Mine(t, c) : t[i].n \in (from + 1)..(to + 1)
    <3>1. SUFFICES ASSUME NEW i \in Mine(t, c) PROVE t[i].n \in (from + 1)..(to + 1)
      OBVIOUS
    <3>2. CASE i = last  BY <1>1, <1>3, <1>6, <3>2
    <3>3. CASE i \in Mine(list, c)
      <4>1. t[i] = list[i] /\ list[i].n \in (from + 1)..to  BY <1>2, <1>3, <3>3
      <4>2. QED  BY <4>1
    <3>4. QED  BY <1>2, <3>2, <3>3
  <2>2. \A k \in (from + 1)..(to + 1) : \E i \in Mine(t, c) : t[i].n = k
    <3>1. SUFFICES ASSUME NEW k \in (from + 1)..(to + 1) PROVE \E i \in Mine(t, c) : t[i].n = k
      OBVIOUS
    <3>2. CASE k = to + 1  BY <1>1, <1>4, <1>6, <3>2
    <3>3. CASE k \in (from + 1)..to
      <4>1. PICK i \in Mine(list, c) : list[i].n = k  BY <1>3, <3>3
      <4>2. QED  BY <1>2, <4>1
    <3>4. QED  BY <3>2, <3>3
  <2>3. \A i, j \in Mine(t, c) : i < j => t[i].n < t[j].n
    <3>1. SUFFICES ASSUME NEW i \in Mine(t, c), NEW j \in Mine(t, c), i < j
                   PROVE  t[i].n < t[j].n
      OBVIOUS
    <3>2. i \in Mine(list, c)  BY <1>1, <1>2, <3>1
    <3>3. t[i] = list[i] /\ list[i].n \in (from + 1)..to  BY <1>2, <1>3, <3>2
    <3>4. CASE j = last  BY <1>1, <1>6, <3>3, <3>4
    <3>5. CASE j \in Mine(list, c)
      <4>1. t[j] = list[j] /\ list[i].n < list[j].n  BY <1>2, <1>3, <3>1, <3>2, <3>5
      <4>2. QED  BY <3>3, <4>1
    <3>6. QED  BY <1>2, <3>4, <3>5
  <2>4. to + 1 \in Nat /\ from <= to + 1  BY <1>3
  <2>5. Carries(t, c, from, to + 1)  BY <1>1, <2>1, <2>2, <2>3, <2>4, CarriesEach
  <2>6. QED  BY <1>6, <2>5 DEF t
<1>7. QED  BY <1>5, <1>6

\* A run grows at its end and shrinks at its head.
LEMMA RunSteps ==
  ASSUME NEW from \in Nat, NEW to \in Nat, from <= to
  PROVE  /\ Run(from, to) \in Seq(Nat)
         /\ Append(Run(from, to), to + 1) = Run(from, to + 1)
         /\ Run(from, to) # <<>> => /\ Head(Run(from, to)) = from + 1
                                    /\ Tail(Run(from, to)) = Run(from + 1, to)
                                    /\ from + 1 <= to
         /\ Run(from, from) = <<>>
<1>1. PICK n \in Nat : n = to - from  OBVIOUS
<1>2. Run(from, to) = [i \in 1..n |-> from + i]  BY <1>1 DEF Run
<1>3. Run(from, to) \in Seq(Nat) /\ Len(Run(from, to)) = n  BY <1>2
<1>4. Append(Run(from, to), to + 1) = Run(from, to + 1)
  <2>1. Run(from, to + 1) = [i \in 1..(n + 1) |-> from + i]  BY <1>1 DEF Run
  <2>2. QED  BY <1>1, <1>2, <2>1
<1>5. ASSUME Run(from, to) # <<>>
      PROVE  /\ Head(Run(from, to)) = from + 1 /\ from + 1 <= to
             /\ Tail(Run(from, to)) = Run(from + 1, to)
  <2>1. n >= 1  BY <1>2, <1>3, <1>5
  <2>2. Run(from + 1, to) = [i \in 1..(n - 1) |-> (from + 1) + i]  BY <1>1 DEF Run
  <2>3. Run(from + 1, to) \in Seq(Nat) /\ Len(Run(from + 1, to)) = n - 1  BY <2>1, <2>2
  <2>4. /\ Tail(Run(from, to)) \in Seq(Nat) /\ Len(Tail(Run(from, to))) = n - 1
        /\ \A i \in 1..(n - 1) : Tail(Run(from, to))[i] = Run(from, to)[i + 1]
    BY <1>3, <1>5, <2>1
  <2>5. \A i \in 1..(n - 1) : Tail(Run(from, to))[i] = Run(from + 1, to)[i]
    BY <1>2, <2>1, <2>2, <2>4
  <2>6. Tail(Run(from, to)) = Run(from + 1, to)  BY <2>3, <2>4, <2>5, SeqEqual
  <2>7. Head(Run(from, to)) = from + 1  BY <1>2, <1>3, <2>1
  <2>8. QED  BY <1>1, <2>1, <2>6, <2>7
<1>6. Run(from, from) = <<>>  BY DEF Run
<1>7. QED  BY <1>3, <1>4, <1>5, <1>6

\* The firmware stays in operation, with its receive interrupts on.
Undisturbed == Guest \cap {"mode", "irq"} = {}

LEMMA FifoSteps ==
  ASSUME NEW fifo \in Seq(Nat), NEW n \in Nat, Holds(fifo, n)
  PROVE  /\ fifo # <<>> => Holds(Tail(fifo), n)
         /\ Holds(Append(fifo, n + 1), n + 1)
         /\ fifo = <<>> => Holds(fifo, n + 1)
         /\ ~Undisturbed => Holds(fifo, n + 1) /\ Holds(<<>>, n)
<1>1. ASSUME fifo # <<>> PROVE Holds(Tail(fifo), n)
  <2>1. /\ \A i \in DOMAIN Tail(fifo) : /\ i \in Nat /\ i + 1 \in DOMAIN fifo
                                        /\ Tail(fifo)[i] = fifo[i + 1]
    BY <1>1
  <2>2. ASSUME Undisturbed PROVE \E first \in 0..n : Tail(fifo) = Run(first, n)
    <3>1. PICK first \in 0..n : fifo = Run(first, n)  BY <2>2 DEF Holds, Undisturbed
    <3>2. first \in Nat /\ first <= n  OBVIOUS
    <3>3. Tail(fifo) = Run(first + 1, n) /\ first + 1 <= n
      BY <1>1, <3>1, <3>2, RunSteps
    <3>4. QED  BY <3>2, <3>3
  <2>3. QED  BY <2>1, <2>2 DEF Holds, Undisturbed
<1>2. Holds(Append(fifo, n + 1), n + 1)
  <2> DEFINE longer == Append(fifo, n + 1)
  <2>1. \A i \in DOMAIN longer :
          \/ i \in DOMAIN fifo /\ longer[i] = fifo[i] /\ i < Len(fifo) + 1
          \/ i = Len(fifo) + 1 /\ longer[i] = n + 1
    OBVIOUS
  <2>2. \A i \in DOMAIN fifo : fifo[i] \in 1..n  BY DEF Holds
  <2>3. \A i, j \in DOMAIN longer : i < j => longer[i] < longer[j]
    <3>1. SUFFICES ASSUME NEW i \in DOMAIN longer, NEW j \in DOMAIN longer, i < j
                   PROVE  longer[i] < longer[j]
      OBVIOUS
    <3>2. i \in DOMAIN fifo /\ longer[i] = fifo[i]  BY <2>1, <3>1
    <3>3. CASE j \in DOMAIN fifo /\ longer[j] = fifo[j]  BY <3>1, <3>2, <3>3 DEF Holds
    <3>4. CASE longer[j] = n + 1  BY <2>2, <3>2, <3>4
    <3>5. QED  BY <2>1, <3>3, <3>4
  <2>4. \A i \in DOMAIN longer : longer[i] \in 1..(n + 1)  BY <2>1, <2>2
  <2>5. ASSUME Undisturbed PROVE \E first \in 0..(n + 1) : longer = Run(first, n + 1)
    <3>1. PICK first \in 0..n : fifo = Run(first, n)  BY <2>5 DEF Holds, Undisturbed
    <3>2. first \in Nat /\ first <= n  OBVIOUS
    <3>3. longer = Run(first, n + 1)  BY <3>1, <3>2, RunSteps
    <3>4. QED  BY <3>2, <3>3
  <2>6. QED  BY <2>3, <2>4, <2>5 DEF Holds, Undisturbed
<1>3. ASSUME fifo = <<>> PROVE Holds(fifo, n + 1)
  <2>1. fifo = Run(n + 1, n + 1) /\ n + 1 \in 0..(n + 1)  BY <1>3, RunSteps
  <2>2. DOMAIN fifo = {}  BY <1>3
  <2>3. QED  BY <2>1, <2>2 DEF Holds
<1>4. ASSUME ~Undisturbed PROVE Holds(fifo, n + 1) /\ Holds(<<>>, n)
  BY <1>4 DEF Holds, Undisturbed
<1>5. QED  BY <1>1, <1>2, <1>3, <1>4

\* In the frames' terms.
Path(c, drained, staged, polled, sent) ==
  /\ Holds(ctl[c].fifo, drained)
  /\ drained <= staged /\ staging[c] = Run(drained, staged)
  /\ Carries(batch, c, staged, polled)
  /\ Carries(events, c, polled, sent)
  /\ sent = arrived[c] \/ (worker.failed /\ sent + 1 = arrived[c])

\* With its receive interrupt on, or out of operation with an empty FIFO.
Steady(chip) == IF Receives(chip.mode) THEN chip.rxIrq ELSE chip.fifo = <<>>

FramesInv ==
  /\ PipeInv
  /\ staging \in [Controllers -> Seq(Nat)]
  /\ \A c \in Controllers : ctl[c].fifo \in Seq(Nat)
  /\ worker.failed => worker.at \in {"cleanup", "reported", "dead"}
  /\ pc \in {"cpu", "halted", "drain", "submit"} => batch = <<>>
  /\ Undisturbed => \A c \in Controllers : Steady(ctl[c])
  /\ FramesInOrder

\* No frame moves but one that the firmware takes, or all of them in a reset.
LEMMA PathStays ==
  ASSUME FramesInv, NEW c \in Wired, InOrder(c),
         UNCHANGED <<staging, batch, events, arrived>>,
         worker.failed => worker'.failed,
         \/ ctl'[c].fifo = ctl[c].fifo
         \/ ctl[c].fifo # <<>> /\ ctl'[c].fifo = Tail(ctl[c].fifo)
         \/ ~Undisturbed /\ ctl'[c].fifo = <<>>
  PROVE  InOrder(c)'
<1>1. c \in Controllers /\ arrived[c] \in Nat /\ ctl[c].fifo \in Seq(Nat)
  BY CanLinkAssumption DEF FramesInv, PipeInv, PipeTypes
<1>2. PICK drained \in 0..arrived[c], staged \in 0..arrived[c], polled \in 0..arrived[c],
           sent \in 0..arrived[c] : Path(c, drained, staged, polled, sent)
  BY DEF InOrder, Path
<1>3. Holds(ctl'[c].fifo, drained)
  BY <1>1, <1>2, FifoSteps DEF Path
<1>4. Path(c, drained, staged, polled, sent)'
  BY <1>2, <1>3 DEF Path
<1>5. QED  BY <1>2, <1>4 DEF InOrder, Path

\* What the steps need of the types.
LEMMA FrameTypes ==
  ASSUME FramesInv
  PROVE  /\ \A c \in Wired : c \in Controllers /\ arrived[c] \in Nat
         /\ events \in Seq(Event) /\ batch \in Seq(Event)
         /\ worker.failed \in BOOLEAN
         /\ \A c \in Controllers : IsChip(ctl[c]) /\ ctl[c].fifo \in Seq(Nat)
                                   /\ staging[c] \in Seq(Nat)
         /\ \E S : ctl \in [Controllers -> Chip(S)]
BY CanLinkAssumption, AllChips DEF FramesInv, PipeInv, PipeTypes

\* A step that changes no more than this of the frames' path leaves the link with the
\* rest of the invariant.
LEMMA FramesRest ==
  ASSUME FramesInv, PipeInv', UNCHANGED staging,
         \A c \in Controllers : ctl'[c].fifo \in Seq(Nat) /\ (Undisturbed => Steady(ctl'[c])),
         worker'.failed => worker'.at \in {"cleanup", "reported", "dead"},
         pc' \in {"cpu", "halted", "drain", "submit"} => batch' = <<>>,
         failure' = "none" => /\ failure = "none" /\ \A c \in Wired : InOrder(c)'
                              /\ pc' # "submit"
  PROVE  FramesInv'
BY DEF FramesInv, FramesInOrder

LEMMA ReadOnly ==
  ASSUME FramesInv, PipeInv', UNCHANGED <<ctl, staging, batch, events, arrived>>,
         worker.failed => worker'.failed,
         worker'.failed => worker'.at \in {"cleanup", "reported", "dead"},
         pc' \in {"cpu", "halted", "drain", "submit"} => batch = <<>>,
         failure' = "none" => failure = "none" /\ (pc' = "submit" => pc = "submit")
  PROVE  FramesInv'
<1>1. ASSUME NEW c \in Wired, InOrder(c) PROVE InOrder(c)'
  BY <1>1, PathStays
<1>2. ASSUME failure' = "none", NEW c \in Wired, pc' = "submit", staging'[c] # <<>>
      PROVE  ~HasRoom(ctl'[c])
  BY <1>2 DEF FramesInv, FramesInOrder
<1>3. FramesInOrder'
  BY <1>1, <1>2 DEF FramesInv, FramesInOrder
<1>4. QED  BY <1>3 DEF FramesInv

-----------------------------------------------------------------------------
\* The firmware.
LEMMA CancelFrames ==
  ASSUME NEW chip, IsChip(chip)
  PROVE  \A new \in {Cancel(chip), [Cancel(chip) EXCEPT !.sent = FALSE]} :
           new.fifo = chip.fifo /\ new.mode = chip.mode /\ new.rxIrq = chip.rxIrq
<1>1. PICK S : chip \in Chip(S)  BY DEF IsChip
<1>2. PICK v : Cancel(chip) = [chip EXCEPT !.pending = None, !.dispatched = FALSE, !.cancelled = v]
  BY DEF Cancel
<1>3. LET new == [chip EXCEPT !.pending = None, !.dispatched = FALSE, !.cancelled = v]
          more == [new EXCEPT !.sent = FALSE]
      IN  /\ new.fifo = chip.fifo /\ new.mode = chip.mode /\ new.rxIrq = chip.rxIrq
          /\ more.fifo = chip.fifo /\ more.mode = chip.mode /\ more.rxIrq = chip.rxIrq
  BY <1>1 DEF Chip
<1>4. QED  BY <1>2, <1>3

LEMMA FirmwareFrames ==
  ASSUME FramesInv, PipeInv', Slice
  PROVE  FramesInv'
<1>1. PICK c \in Controllers :
        Request(c) \/ Abort(c) \/ WriteMode(c) \/ WriteInterrupts(c) \/ ReleaseReceived(c)
  BY DEF Slice
<1>2. /\ UNCHANGED <<staging, pc, batch, failure, events, worker, arrived>> /\ pc = "cpu"
  BY <1>1 DEF Request, Abort, WriteMode, WriteInterrupts, ReleaseReceived, OnlyChip, Firmware,
              linkVars, workerVars
<1>3. PICK S : ctl \in [Controllers -> Chip(S)]  BY FrameTypes
<1>4. IsChip(ctl[c]) /\ ctl[c].fifo \in Seq(Nat)  BY FrameTypes
<1> DEFINE fifo == ctl[c].fifo
           Fits(chip) == /\ \/ chip.fifo = fifo
                            \/ fifo # <<>> /\ chip.fifo = Tail(fifo)
                            \/ ~Undisturbed /\ chip.fifo = <<>>
                         /\ Undisturbed => /\ chip.mode = ctl[c].mode /\ chip.rxIrq = ctl[c].rxIrq
<1>5. \E chip : ctl' = [ctl EXCEPT ![c] = chip] /\ Fits(chip)
  <2>0. ctl[c] \in Chip(S)  BY <1>3
  <2>1. CASE Request(c)
    <3> DEFINE chip == [ctl[c] EXCEPT !.pending = ctl[c].next, !.next = @ + 1,
                                      !.dispatched = FALSE, !.sent = FALSE]
    <3>1. Fits(chip)  BY <2>0 DEF Chip
    <3>2. ctl' = [ctl EXCEPT ![c] = chip]  BY <2>1 DEF Request, OnlyChip
    <3>3. QED  BY <3>1, <3>2
  <2>2. CASE Abort(c)
    <3>1. PICK chip : /\ ctl' = [ctl EXCEPT ![c] = chip]
                      /\ chip = Cancel(ctl[c]) \/ chip = [Cancel(ctl[c]) EXCEPT !.sent = FALSE]
      BY <2>2 DEF Abort, OnlyChip
    <3>2. Fits(chip)  BY <1>4, <3>1, CancelFrames
    <3>3. QED  BY <3>1, <3>2
  <2>3. CASE WriteMode(c)
    <3>1. ~Undisturbed  BY <2>3 DEF WriteMode, Firmware, Undisturbed
    <3>2. PICK mode, chip :
            /\ ctl' = [ctl EXCEPT ![c] = chip]
            /\ \/ chip = [Cancel(ctl[c]) EXCEPT !.mode = mode, !.fifo = <<>>,
                                                !.sent = TRUE, !.overrun = FALSE]
               \/ chip = [ctl[c] EXCEPT !.mode = mode]
      BY <2>3 DEF WriteMode, OnlyChip
    <3>3. PICK T : Cancel(ctl[c]) \in Chip(T)  BY <1>4, CancelKeeps DEF IsChip
    <3>4. chip.fifo = <<>> \/ chip.fifo = fifo
      BY <2>0, <3>2, <3>3 DEF Chip
    <3>5. QED  BY <3>1, <3>2, <3>4
  <2>4. CASE WriteInterrupts(c)
    <3>1. ~Undisturbed  BY <2>4 DEF WriteInterrupts, Firmware, Undisturbed
    <3>2. PICK on : ctl' = [ctl EXCEPT ![c] = [ctl[c] EXCEPT !.rxIrq = on]]
      BY <2>4 DEF WriteInterrupts, OnlyChip
    <3>3. [ctl[c] EXCEPT !.rxIrq = on].fifo = fifo  BY <2>0 DEF Chip
    <3>4. QED  BY <3>1, <3>2, <3>3
  <2>5. CASE ReleaseReceived(c)
    <3>1. PICK f, o : /\ ctl' = [ctl EXCEPT ![c] = [ctl[c] EXCEPT !.fifo = f, !.overrun = o]]
                      /\ f = IF fifo = <<>> THEN fifo ELSE Tail(fifo)
      BY <2>5 DEF ReleaseReceived, OnlyChip
    <3> DEFINE chip == [ctl[c] EXCEPT !.fifo = f, !.overrun = o]
    <3>2. chip.fifo = f /\ chip.mode = ctl[c].mode /\ chip.rxIrq = ctl[c].rxIrq
      BY <2>0 DEF Chip
    <3>3. Fits(chip)  BY <3>1, <3>2
    <3>4. QED  BY <3>1, <3>3
  <2>6. QED  BY <1>1, <2>1, <2>2, <2>3, <2>4, <2>5
<1>6. PICK chip : ctl' = [ctl EXCEPT ![c] = chip] /\ Fits(chip)  BY <1>5
<1>7. ctl'[c] = chip /\ \A d \in Controllers : d # c => ctl'[d] = ctl[d]
  BY <1>3, <1>6
<1>8. \A d \in Controllers : ctl'[d].fifo \in Seq(Nat) /\ (Undisturbed => Steady(ctl'[d]))
  <2>1. \A d \in Controllers : d # c => ctl'[d].fifo \in Seq(Nat) /\ (Undisturbed => Steady(ctl'[d]))
    BY <1>7 DEF FramesInv
  <2>2. chip.fifo \in Seq(Nat)
    <3>1. fifo # <<>> => Tail(fifo) \in Seq(Nat)  BY <1>4
    <3>2. <<>> \in Seq(Nat)  OBVIOUS
    <3>3. QED  BY <1>4, <1>6, <3>1, <3>2
  <2>3. Undisturbed => Steady(chip)
    BY <1>4, <1>6 DEF FramesInv, Steady
  <2>4. QED  BY <1>7, <2>1, <2>2, <2>3
<1>9. ASSUME NEW d \in Wired, InOrder(d) PROVE InOrder(d)'
  <2>1. CASE d = c
    BY <1>2, <1>6, <1>7, <1>9, <2>1, PathStays
  <2>2. CASE d # c
    <3>1. d \in Controllers  BY FrameTypes
    <3>2. ctl'[d].fifo = ctl[d].fifo  BY <1>7, <2>2, <3>1
    <3>3. QED  BY <1>2, <1>9, <3>2, PathStays
  <2>3. QED  BY <2>1, <2>2
<1>10. failure' = "none" => failure = "none" /\ (\A d \in Wired : InOrder(d)') /\ pc' # "submit"
  BY <1>2, <1>9 DEF FramesInv, FramesInOrder
<1>11. QED
  BY <1>2, <1>8, <1>10, FramesRest DEF FramesInv

-----------------------------------------------------------------------------
\* The poll.

\* An event moves from the channel into the batch.
LEMMA PollEventFrames ==
  ASSUME FramesInv, PipeInv', PollEvent
  PROVE  FramesInv'
<1>1. /\ pc = "collect" /\ events # <<>>
      /\ batch' = Append(batch, Head(events)) /\ events' = Tail(events)
      /\ UNCHANGED <<ctl, staging, pc, failure, worker, arrived>>
  BY DEF PollEvent, workerVars
<1>2. /\ events \in Seq(Event) /\ batch \in Seq(Event) /\ Head(events) \in Event
      /\ \A c \in Wired : c \in Controllers /\ arrived[c] \in Nat
  BY <1>1, FrameTypes
<1>3. ASSUME NEW c \in Wired, InOrder(c) PROVE InOrder(c)'
  <2>1. PICK drained \in 0..arrived[c], staged \in 0..arrived[c], polled \in 0..arrived[c],
             sent \in 0..arrived[c] : Path(c, drained, staged, polled, sent)
    BY <1>3 DEF InOrder, Path
  <2>2. staged \in Nat /\ polled \in Nat /\ sent \in Nat  BY <1>2
  <2>3. CASE Head(events).kind = "received" /\ Head(events).c = c
    <3>1. /\ Head(events).n = polled + 1 /\ polled + 1 <= sent
          /\ Carries(events', c, polled + 1, sent)
      BY <1>1, <1>2, <2>1, <2>2, <2>3, CarriesTail DEF Path
    <3>2. Carries(batch', c, staged, polled + 1)
      BY <1>1, <1>2, <2>1, <2>2, <2>3, <3>1, CarriesAppend DEF Path
    <3>3. Path(c, drained, staged, polled + 1, sent)'
      BY <1>1, <2>1, <3>1, <3>2 DEF Path
    <3>4. polled + 1 \in 0..arrived[c]  BY <1>2, <3>1
    <3>5. QED  BY <1>1, <2>1, <3>3, <3>4 DEF InOrder, Path
  <2>4. CASE ~(Head(events).kind = "received" /\ Head(events).c = c)
    <3>1. Carries(events', c, polled, sent)
      BY <1>1, <1>2, <2>1, <2>2, <2>4, CarriesTail DEF Path
    <3>2. Carries(batch', c, staged, polled)
      BY <1>1, <1>2, <2>1, <2>2, <2>4, CarriesAppend DEF Path
    <3>3. Path(c, drained, staged, polled, sent)'
      BY <1>1, <2>1, <3>1, <3>2 DEF Path
    <3>4. QED  BY <1>1, <2>1, <3>3 DEF InOrder, Path
  <2>5. QED  BY <2>3, <2>4
<1>4. QED  BY <1>1, <1>3, FramesRest DEF FramesInv, FramesInOrder

\* A completion leaves the batch.
LEMMA CompletionFrames ==
  ASSUME FramesInv, PipeInv', ApplyCompletion
  PROVE  FramesInv'
<1>1. /\ pc = "apply" /\ batch # <<>> /\ Head(batch).kind = "completed"
      /\ batch' = Tail(batch) /\ UNCHANGED <<staging, events, worker, arrived>>
      /\ pc' \in {"apply", "closing"}
      /\ failure' = "none" => failure = "none"
      /\ ctl' = ctl \/ ctl' = [ctl EXCEPT ![Head(batch).c] = Completed(@, Head(batch).n)]
  BY DEF ApplyCompletion, workerVars, Stops
<1>2. \A c \in Controllers : /\ ctl'[c].fifo = ctl[c].fifo /\ ctl'[c].mode = ctl[c].mode
                             /\ ctl'[c].rxIrq = ctl[c].rxIrq
  <2>1. PICK S : ctl \in [Controllers -> Chip(S)]  BY FrameTypes
  <2>2. \A chip \in Chip(S) : \A k :
          LET new == Completed(chip, k)
          IN  new.fifo = chip.fifo /\ new.mode = chip.mode /\ new.rxIrq = chip.rxIrq
    BY DEF Completed, Chip
  <2>3. QED  BY <1>1, <2>1, <2>2
<1>3. /\ batch \in Seq(Event) /\ \A c \in Wired : c \in Controllers /\ arrived[c] \in Nat
  BY FrameTypes
<1>4. ASSUME NEW c \in Wired, InOrder(c) PROVE InOrder(c)'
  <2>1. PICK drained \in 0..arrived[c], staged \in 0..arrived[c], polled \in 0..arrived[c],
             sent \in 0..arrived[c] : Path(c, drained, staged, polled, sent)
    BY <1>4 DEF InOrder, Path
  <2>2. staged \in Nat /\ polled \in Nat  BY <1>3
  <2>3. Carries(batch', c, staged, polled)
    BY <1>1, <1>3, <2>1, <2>2, CarriesTail DEF Path
  <2>4. Path(c, drained, staged, polled, sent)'
    BY <1>1, <1>2, <1>3, <2>1, <2>3 DEF Path
  <2>5. QED  BY <1>1, <2>1, <2>4 DEF InOrder, Path
<1>5. QED  BY <1>1, <1>2, <1>4, FramesRest DEF FramesInv, FramesInOrder, Steady

\* A frame leaves the batch for the staging.
LEMMA ApplyFrameFrames ==
  ASSUME FramesInv, PipeInv', ApplyFrame
  PROVE  FramesInv'
<1>1. /\ pc = "apply" /\ batch # <<>> /\ Head(batch).kind = "received"
      /\ batch' = Tail(batch) /\ UNCHANGED <<ctl, events, worker, arrived>>
      /\ \/ /\ staging' = [staging EXCEPT ![Head(batch).c] = Append(@, Head(batch).n)]
            /\ UNCHANGED <<pc, failure>>
         \/ UNCHANGED staging /\ pc' = "closing" /\ failure' = "staging full"
  BY DEF ApplyFrame, workerVars, Stops
<1>2. /\ batch \in Seq(Event) /\ Head(batch) \in Event
      /\ \A c \in Wired : c \in Controllers /\ arrived[c] \in Nat
  <2>1. batch \in Seq(Event) /\ \A c \in Wired : c \in Controllers /\ arrived[c] \in Nat
    BY FrameTypes
  <2>2. batch # <<>>  BY <1>1
  <2>3. Head(batch) \in Event  BY <2>1, <2>2
  <2>4. QED  BY <2>1, <2>3
<1>3. staging \in [Controllers -> Seq(Nat)]  BY DEF FramesInv
<1>4. staging' \in [Controllers -> Seq(Nat)]
  <2>1. Head(batch).c \in Controllers /\ Head(batch).n \in Nat  BY <1>2 DEF Event
  <2>2. Append(staging[Head(batch).c], Head(batch).n) \in Seq(Nat)  BY <1>3, <2>1
  <2>3. QED  BY <1>1, <1>3, <2>2
<1>5. ASSUME failure' = "none", NEW c \in Wired, InOrder(c) PROVE InOrder(c)'
  <2>1. PICK drained \in 0..arrived[c], staged \in 0..arrived[c], polled \in 0..arrived[c],
             sent \in 0..arrived[c] : Path(c, drained, staged, polled, sent)
    BY <1>5 DEF InOrder, Path
  <2>2. drained \in Nat /\ staged \in Nat /\ polled \in Nat  BY <1>2
  <2>3. staging' = [staging EXCEPT ![Head(batch).c] = Append(@, Head(batch).n)]
    BY <1>1, <1>5
  <2>4. CASE Head(batch).c = c
    <3>1. /\ Head(batch).n = staged + 1 /\ staged + 1 <= polled
          /\ Carries(batch', c, staged + 1, polled)
      BY <1>1, <1>2, <2>1, <2>2, <2>4, CarriesTail DEF Path
    <3>2. staging'[c] = Append(staging[c], staged + 1)
      BY <1>2, <1>3, <2>3, <2>4, <3>1
    <3>3. staging'[c] = Run(drained, staged + 1) /\ drained <= staged + 1
      <4>1. staging[c] = Run(drained, staged) /\ drained <= staged  BY <2>1 DEF Path
      <4>2. Append(Run(drained, staged), staged + 1) = Run(drained, staged + 1)
        BY <2>2, <4>1, RunSteps
      <4>3. QED  BY <2>2, <3>2, <4>1, <4>2
    <3>4. Path(c, drained, staged + 1, polled, sent)'
      BY <1>1, <2>1, <3>1, <3>3 DEF Path
    <3>5. staged + 1 \in 0..arrived[c]  BY <1>2, <3>1
    <3>6. QED  BY <1>1, <2>1, <3>4, <3>5 DEF InOrder, Path
  <2>5. CASE Head(batch).c # c
    <3>1. Carries(batch', c, staged, polled)
      BY <1>1, <1>2, <2>1, <2>2, <2>5, CarriesTail DEF Path
    <3>2. staging'[c] = staging[c]  BY <1>2, <1>3, <2>3, <2>5
    <3>3. Path(c, drained, staged, polled, sent)'
      BY <1>1, <2>1, <3>1, <3>2 DEF Path
    <3>4. QED  BY <1>1, <2>1, <3>3 DEF InOrder, Path
  <2>6. QED  BY <2>4, <2>5
<1>6. FramesInOrder'
  BY <1>1, <1>5 DEF FramesInv, FramesInOrder
<1>7. QED
  BY <1>1, <1>4, <1>6 DEF FramesInv

\* A staged frame enters the FIFO, or is lost by a controller out of operation or
\* without its interrupt.
LEMMA DrainFrames ==
  ASSUME FramesInv, PipeInv', NEW c \in Controllers, Drain(c)
  PROVE  FramesInv'
<1>1. /\ pc = "drain" /\ staging[c] # <<>> /\ ~Defers(ctl[c])
      /\ staging' = [staging EXCEPT ![c] = Tail(@)]
      /\ UNCHANGED <<pc, failure, batch, events, worker, arrived>>
  BY DEF Drain, linkVars, workerVars
<1>2. PICK S : ctl \in [Controllers -> Chip(S)]  BY FrameTypes
<1>3. staging \in [Controllers -> Seq(Nat)] /\ ctl[c].fifo \in Seq(Nat)  BY DEF FramesInv
<1>4. /\ staging' \in [Controllers -> Seq(Nat)] /\ staging'[c] = Tail(staging[c])
      /\ \A d \in Controllers : d # c => staging'[d] = staging[d]
      /\ Head(staging[c]) \in Nat
  BY <1>1, <1>3
<1>5. /\ \A d \in Controllers : /\ ctl'[d].mode = ctl[d].mode /\ ctl'[d].rxIrq = ctl[d].rxIrq
                                /\ d # c => ctl'[d].fifo = ctl[d].fifo
      /\ \/ Receives(ctl[c].mode) /\ ctl'[c].fifo = Append(ctl[c].fifo, Head(staging[c]))
         \/ Receives(ctl[c].mode) /\ ~HasRoom(ctl[c]) /\ ctl'[c].fifo = ctl[c].fifo
         \/ ~Receives(ctl[c].mode) /\ ctl'[c].fifo = ctl[c].fifo
  <2>1. CASE /\ Receives(ctl[c].mode)
             /\ ctl' = [ctl EXCEPT ![c].fifo = Append(@, Head(staging[c]))]
    BY <1>2, <2>1 DEF Chip
  <2>2. CASE Receives(ctl[c].mode) /\ ~HasRoom(ctl[c]) /\ ctl' = [ctl EXCEPT ![c].overrun = TRUE]
    BY <1>2, <2>2 DEF Chip
  <2>3. CASE ctl[c].mode \in {"reset", "deaf"} /\ UNCHANGED ctl
    BY <2>3 DEF Receives
  <2>4. QED  BY <2>1, <2>2, <2>3 DEF Drain
<1>6. \A d \in Controllers : ctl'[d].fifo \in Seq(Nat) /\ (Undisturbed => Steady(ctl'[d]))
  <2>1. SUFFICES ASSUME NEW d \in Controllers
                 PROVE  ctl'[d].fifo \in Seq(Nat) /\ (Undisturbed => Steady(ctl'[d]))
    OBVIOUS
  <2>2. ctl[d].fifo \in Seq(Nat) /\ (Undisturbed => Steady(ctl[d]))  BY DEF FramesInv
  <2>3. ctl'[d].mode = ctl[d].mode /\ ctl'[d].rxIrq = ctl[d].rxIrq  BY <1>5
  <2>4. CASE ctl'[d].fifo = ctl[d].fifo  BY <2>2, <2>3, <2>4 DEF Steady
  <2>5. CASE d = c /\ Receives(ctl[c].mode) /\ ctl'[c].fifo = Append(ctl[c].fifo, Head(staging[c]))
    <3>1. Append(ctl[c].fifo, Head(staging[c])) \in Seq(Nat)  BY <1>3, <1>4
    <3>2. QED  BY <2>2, <2>3, <2>5, <3>1 DEF Steady
  <2>6. QED  BY <1>5, <2>4, <2>5
<1>7. ASSUME NEW d \in Wired, InOrder(d) PROVE InOrder(d)'
  <2>1. PICK drained \in 0..arrived[d], staged \in 0..arrived[d], polled \in 0..arrived[d],
             sent \in 0..arrived[d] : Path(d, drained, staged, polled, sent)
    BY <1>7 DEF InOrder, Path
  <2>2. d \in Controllers /\ arrived[d] \in Nat  BY FrameTypes
  <2>3. CASE d # c
    <3>1. Path(d, drained, staged, polled, sent)'
      BY <1>1, <1>4, <1>5, <2>1, <2>2, <2>3 DEF Path
    <3>2. QED  BY <1>1, <2>1, <3>1 DEF InOrder, Path
  <2>4. CASE d = c
    <3>1. /\ drained \in Nat /\ staged \in Nat /\ drained <= staged
          /\ staging[c] = Run(drained, staged)
      BY <2>1, <2>2, <2>4 DEF Path
    <3>2. /\ Head(staging[c]) = drained + 1 /\ staging'[c] = Run(drained + 1, staged)
          /\ drained + 1 <= staged
      BY <1>1, <1>4, <3>1, RunSteps
    <3>3. Holds(ctl'[c].fifo, drained + 1)
      <4>1. Holds(ctl[c].fifo, drained)  BY <2>1, <2>4 DEF Path
      <4>2. Undisturbed => Steady(ctl[c])  BY DEF FramesInv
      <4>3. Receives(ctl[c].mode) /\ ~HasRoom(ctl[c]) => ~ctl[c].rxIrq
        BY <1>1 DEF Defers
      <4>4. /\ Holds(Append(ctl[c].fifo, drained + 1), drained + 1)
            /\ ctl[c].fifo = <<>> \/ ~Undisturbed => Holds(ctl[c].fifo, drained + 1)
        BY <1>3, <3>1, <4>1, FifoSteps
      <4>5. CASE ctl'[c].fifo = Append(ctl[c].fifo, Head(staging[c]))
        BY <3>2, <4>4, <4>5
      <4>6. CASE /\ ctl'[c].fifo = ctl[c].fifo
                 /\ Receives(ctl[c].mode) => ~HasRoom(ctl[c])
        <5>1. ctl[c].fifo = <<>> \/ ~Undisturbed  BY <4>2, <4>3, <4>6 DEF Steady
        <5>2. QED  BY <4>4, <4>6, <5>1
      <4>7. QED  BY <1>5, <4>5, <4>6
    <3>4. Path(c, drained + 1, staged, polled, sent)'
      BY <1>1, <2>1, <2>4, <3>2, <3>3 DEF Path
    <3>5. drained + 1 \in 0..arrived[d]  BY <2>2, <3>1, <3>2
    <3>6. \E e \in 0..arrived[d] : Path(d, e, staged, polled, sent)'
      BY <2>4, <3>4, <3>5
    <3>7. arrived' = arrived  BY <1>1
    <3>8. QED  BY <3>6, <3>7 DEF InOrder, Path
  <2>5. QED  BY <2>3, <2>4
<1>8. FramesInOrder'
  BY <1>1, <1>7 DEF FramesInv, FramesInOrder
<1>9. QED  BY <1>1, <1>4, <1>6, <1>8 DEF FramesInv

\* The frames of a poll have been handed out: what is left in staging waits for room.
LEMMA TakesFrames ==
  ASSUME FramesInv, PipeInv', DrainEnds
  PROVE  FramesInv'
<1>1. /\ pc = "drain" /\ pc' = "submit"
      /\ ctl' = [c \in Controllers |-> [ctl[c] EXCEPT !.dispatched = TRUE]]
      /\ UNCHANGED <<staging, batch, failure, events, worker, arrived>>
      /\ \A c \in Controllers : staging[c] # <<>> => Defers(ctl[c])
  BY DEF DrainEnds, TakesTransmissions, workerVars
<1>2. PICK S : ctl \in [Controllers -> Chip(S)]  BY FrameTypes
<1>3. \A c \in Controllers : /\ ctl'[c].fifo = ctl[c].fifo /\ ctl'[c].mode = ctl[c].mode
                             /\ ctl'[c].rxIrq = ctl[c].rxIrq
  <2>1. \A chip \in Chip(S) :
          LET new == [chip EXCEPT !.dispatched = TRUE]
          IN  new.fifo = chip.fifo /\ new.mode = chip.mode /\ new.rxIrq = chip.rxIrq
    BY DEF Chip
  <2>2. QED  BY <1>1, <1>2, <2>1
<1>4. ASSUME NEW c \in Wired, InOrder(c) PROVE InOrder(c)'
  <2>1. ctl'[c].fifo = ctl[c].fifo  BY <1>3, FrameTypes
  <2>2. QED  BY <1>1, <1>4, <2>1, PathStays
<1>5. ASSUME NEW c \in Wired, staging'[c] # <<>> PROVE ~HasRoom(ctl'[c])
  <2>1. c \in Controllers  BY FrameTypes
  <2>2. ~HasRoom(ctl[c])  BY <1>1, <1>5, <2>1 DEF Defers
  <2>3. QED  BY <1>3, <2>1, <2>2 DEF HasRoom
<1>6. FramesInOrder'
  BY <1>1, <1>4, <1>5 DEF FramesInv, FramesInOrder
<1>7. QED  BY <1>1, <1>3, <1>6 DEF FramesInv, Steady

\* The other steps of the emulation thread move no frame.
LEMMA LinkFrames ==
  ASSUME FramesInv, PipeInv',
         FirmwareFault \/ SerialFailure \/ DropLink \/ PollErrors \/ PollEnds
         \/ ApplyEnds \/ PollReturns \/ Joined \/ Submit
         \/ \E c \in Controllers : DrainFails(c)
  PROVE  FramesInv'
<1>1. UNCHANGED <<ctl, staging, events, worker, arrived>>
  BY DEF FirmwareFault, SerialFailure, DropLink, PollErrors, PollEnds, ApplyEnds, PollReturns,
         Joined, Submit, DrainFails, workerVars
<1>2. failure' = "none" => failure = "none" /\ (pc' = "submit" => pc = "submit")
  BY DEF FirmwareFault, SerialFailure, DropLink, PollErrors, PollEnds, ApplyEnds, PollReturns,
         Joined, Submit, DrainFails, Stops
<1>3. batch' = batch
  BY DEF FirmwareFault, SerialFailure, DropLink, PollErrors, PollEnds, ApplyEnds, PollReturns,
         Joined, Submit, DrainFails, FramesInv
<1>4. pc' \in {"cpu", "halted", "drain", "submit"} => batch = <<>>
  BY DEF FirmwareFault, SerialFailure, DropLink, PollErrors, PollEnds, ApplyEnds, PollReturns,
         Joined, Submit, DrainFails, FramesInv, Stops, Firmware
<1>5. QED  BY <1>1, <1>2, <1>3, <1>4, ReadOnly DEF FramesInv

\* A frame arrives: its event is the last in the channel, or there is no room.
LEMMA ReceiveFrames ==
  ASSUME FramesInv, PipeInv', NEW c \in Wired, WorkerReceives(c)
  PROVE  FramesInv'
<1>1. /\ worker.at = "reads" /\ arrived' = [arrived EXCEPT ![c] = @ + 1]
      /\ UNCHANGED <<ctl, staging, pc, batch, failure>>
      /\ \/ /\ events' = Append(events, [kind |-> "received", c |-> c, n |-> arrived[c] + 1])
            /\ UNCHANGED worker
         \/ UNCHANGED events /\ worker' = [worker EXCEPT !.at = "cleanup", !.failed = TRUE]
  BY DEF WorkerReceives, WorkerStep, OnlyWorker, linkVars
<1>2. /\ events \in Seq(Event) /\ \A d \in Wired : d \in Controllers /\ arrived[d] \in Nat
      /\ arrived \in [Controllers -> Nat]
      /\ ~worker.failed
  BY <1>1, FrameTypes DEF FramesInv, PipeInv, PipeTypes
<1>3. /\ arrived'[c] = arrived[c] + 1 /\ \A d \in Wired : d # c => arrived'[d] = arrived[d]
      /\ worker' = worker \/ (worker'.failed /\ worker'.at = "cleanup")
  BY <1>1, <1>2 DEF FramesInv, PipeInv, PipeTypes
<1>4. ASSUME NEW d \in Wired, InOrder(d) PROVE InOrder(d)'
  <2>1. PICK drained \in 0..arrived[d], staged \in 0..arrived[d], polled \in 0..arrived[d],
             sent \in 0..arrived[d] : Path(d, drained, staged, polled, sent)
    BY <1>4 DEF InOrder, Path
  <2>2. polled \in Nat /\ sent \in Nat /\ sent = arrived[d]  BY <1>2, <2>1 DEF Path
  <2>3. [kind |-> "received", c |-> c, n |-> arrived[c] + 1] \in Event  BY <1>2 DEF Event
  <2>4. CASE d = c /\ UNCHANGED worker
    <3>1. Carries(events', c, polled, sent + 1)
      <4>1. events' = Append(events, [kind |-> "received", c |-> c, n |-> arrived[c] + 1])
            \/ worker' = [worker EXCEPT !.at = "cleanup", !.failed = TRUE]
        BY <1>1
      <4>2. worker' # [worker EXCEPT !.at = "cleanup", !.failed = TRUE]
        BY <1>2, <2>4 DEF FramesInv, PipeInv, PipeTypes
      <4>3. Carries(events, c, polled, sent)  BY <2>1, <2>4 DEF Path
      <4>4. QED  BY <1>2, <2>2, <2>3, <2>4, <4>1, <4>2, <4>3, CarriesAppend
    <3>2. Path(d, drained, staged, polled, sent + 1)'
      BY <1>1, <1>3, <2>1, <2>2, <2>4, <3>1 DEF Path
    <3>3. sent + 1 \in 0..arrived'[d] /\ 0..arrived[d] \subseteq 0..arrived'[d]
      BY <1>3, <2>2, <2>4
    <3>4. QED  BY <2>1, <3>2, <3>3 DEF InOrder, Path
  <2>5. CASE d = c /\ UNCHANGED events /\ worker'.failed
    <3>1. Path(d, drained, staged, polled, sent)'
      BY <1>1, <1>3, <2>1, <2>2, <2>5 DEF Path
    <3>2. 0..arrived[d] \subseteq 0..arrived'[d]
      BY <1>3, <2>2, <2>5
    <3>3. QED  BY <2>1, <3>1, <3>2 DEF InOrder, Path
  <2>6. CASE d # c
    <3>1. Carries(events', d, polled, sent)
      <4>1. PICK e \in Event : /\ e.c = c
                               /\ events' = events \/ events' = Append(events, e)
        BY <1>1, <2>3
      <4>2. Carries(events, d, polled, sent)  BY <2>1 DEF Path
      <4>3. Carries(Append(events, e), d, polled, sent)
        BY <1>2, <2>2, <2>6, <4>1, <4>2, CarriesAppend
      <4>4. QED  BY <4>1, <4>2, <4>3
    <3>2. Path(d, drained, staged, polled, sent)'
      BY <1>1, <1>2, <1>3, <2>1, <2>2, <2>6, <3>1 DEF Path
    <3>3. arrived'[d] = arrived[d]  BY <1>3, <2>6
    <3>4. QED  BY <2>1, <3>2, <3>3 DEF InOrder, Path
  <2>7. worker' = [worker EXCEPT !.at = "cleanup", !.failed = TRUE] => worker'.failed
    BY DEF FramesInv, PipeInv, PipeTypes
  <2>8. QED  BY <1>1, <2>4, <2>5, <2>6, <2>7
<1>5. FramesInOrder'
  BY <1>1, <1>4 DEF FramesInv, FramesInOrder
<1>6. QED  BY <1>1, <1>3, <1>5 DEF FramesInv

\* A request is confirmed; the frames in the channel stay.
LEMMA ConfirmFrames ==
  ASSUME FramesInv, PipeInv', WorkerConfirms
  PROVE  FramesInv'
<1> DEFINE e == [kind |-> "completed", c |-> worker.hand[1], n |-> worker.hand[2]]
<1>1. /\ worker.at = "confirm" /\ UNCHANGED <<ctl, staging, pc, batch, failure, arrived>>
      /\ \/ events' = Append(events, e) /\ worker' = [worker EXCEPT !.at = "commands"]
         \/ UNCHANGED events /\ worker' = [worker EXCEPT !.at = "cleanup", !.failed = TRUE]
  BY DEF WorkerConfirms, WorkerStep, OnlyWorker, linkVars
<1>2. /\ events \in Seq(Event) /\ ~worker.failed
      /\ \A d \in Wired : d \in Controllers /\ arrived[d] \in Nat
  BY <1>1, FrameTypes DEF FramesInv
<1>3. worker'.failed => worker'.at = "cleanup"
  BY <1>1, <1>2 DEF FramesInv, PipeInv, PipeTypes
<1>4. e \in Event /\ e.kind # "received"
  BY <1>1 DEF FramesInv, PipeInv, PipeTypes, Event, Command, Ticket
<1>5. ASSUME NEW c \in Wired, InOrder(c) PROVE InOrder(c)'
  <2>1. PICK drained \in 0..arrived[c], staged \in 0..arrived[c], polled \in 0..arrived[c],
             sent \in 0..arrived[c] : Path(c, drained, staged, polled, sent)
    BY <1>5 DEF InOrder, Path
  <2>2. polled \in Nat /\ sent \in Nat /\ sent = arrived[c]  BY <1>2, <2>1 DEF Path
  <2> HIDE DEF e
  <2>3. Carries(events', c, polled, sent)
    <3>1. Carries(events, c, polled, sent)  BY <2>1 DEF Path
    <3>2. Carries(Append(events, e), c, polled, sent)
      BY <1>2, <1>4, <2>2, <3>1, CarriesAppend
    <3>3. QED  BY <1>1, <3>1, <3>2
  <2>4. Path(c, drained, staged, polled, sent)'
    BY <1>1, <2>1, <2>2, <2>3 DEF Path
  <2>5. QED  BY <1>1, <2>1, <2>4 DEF InOrder, Path
<1>6. FramesInOrder'
  BY <1>1, <1>5 DEF FramesInv, FramesInOrder
<1>7. QED  BY <1>1, <1>3, <1>6 DEF FramesInv

\* The other steps of the worker move no frame.
LEMMA WorkerFrames ==
  ASSUME FramesInv, PipeInv',
         WorkerLoop \/ WorkerTakes \/ WorkerTurns \/ WorkerReturns \/ WorkerReports
         \/ WorkerEnds \/ DeviceAccepts \/ DeviceFails
  PROVE  FramesInv'
<1>1. UNCHANGED <<ctl, staging, pc, batch, failure, events, arrived>>
  BY DEF WorkerLoop, WorkerTakes, WorkerTurns, WorkerReturns, WorkerReports, WorkerEnds,
         DeviceAccepts, DeviceFails, OnlyWorker, linkVars
<1>2. /\ worker \in [at: {"top", "commands", "device", "confirm", "reads", "cleanup",
                          "reported", "dead"},
                     turn: Nat, hand: Command \cup {<<None, None>>}, failed: BOOLEAN]
      /\ worker.failed => worker.at \in {"cleanup", "reported", "dead"}
  BY DEF FramesInv, PipeInv, PipeTypes
<1>3. /\ worker.failed => worker'.failed
      /\ worker'.failed => worker'.at \in {"cleanup", "reported", "dead"}
  BY <1>2 DEF WorkerLoop, WorkerTakes, WorkerTurns, WorkerReturns, WorkerReports, WorkerEnds,
              DeviceAccepts, DeviceFails, WorkerStep
<1>4. QED  BY <1>1, <1>3, ReadOnly DEF FramesInv

\* Every step keeps the order of the frames.
LEMMA FramesStep == FramesInv /\ PipeInv' /\ [Next]_vars => FramesInv'
<1> SUFFICES ASSUME FramesInv, PipeInv', [Next]_vars PROVE FramesInv'
  OBVIOUS
<1>1. CASE UNCHANGED vars
  <2>1. UNCHANGED <<ctl, staging, batch, events, arrived, worker, pc, failure>>
    BY <1>1 DEF vars, linkVars, workerVars
  <2>2. QED  BY <2>1, ReadOnly DEF FramesInv
<1>2. CASE Slice
  BY <1>2, FirmwareFrames
<1>3. CASE Poll
  BY <1>3, PollEventFrames, CompletionFrames, ApplyFrameFrames, DrainFrames, TakesFrames,
     LinkFrames DEF Poll
<1>4. CASE Ending
  BY <1>4, LinkFrames DEF Ending
<1>5. CASE Worker \/ Device
  BY <1>5, WorkerFrames, ConfirmFrames, ReceiveFrames DEF Worker, Device
<1>6. QED  BY <1>1, <1>2, <1>3, <1>4, <1>5 DEF Next, Stopped

-----------------------------------------------------------------------------
(***************************************************************************)
(* The completions that may still come.                                    *)
(***************************************************************************)
\* The polls in which a full event channel is emptied, and the most requests that are
\* handed over while a completion is on its way.
Polls == (EventLimit + Batch - 1) \div Batch
Most == InputLimit + 1 + Polls

\* The event at this position is taken in at most r polls.
Reach(position, r) == position <= r * Batch

LEMMA PollsEnough ==
  /\ {InputLimit, EventLimit, Batch, Polls, Ring} \subseteq Nat \ {0}
  /\ Most \in Nat /\ Most <= Ring
  /\ \A p \in Nat : p <= EventLimit => /\ Reach(p, Polls)
                                       /\ \A k \in Nat : k <= Batch => Reach(p + k, Polls + 1)
  /\ \A p, r \in Nat : p # 0 /\ r # 0 /\ Reach(p + Batch, r) =>
                        r - 1 \in Nat \ {0} /\ Reach(p, r - 1)
<1>1. {InputLimit, EventLimit, Batch, Ring} \subseteq Nat \ {0}  BY CanLinkAssumption
<1>2. \A b \in Nat \ {0} : \A a \in Nat : LET q == (a + b - 1) \div b IN q \in Nat /\ a <= q * b
  OBVIOUS
<1>3. Polls \in Nat /\ EventLimit <= Polls * Batch  BY <1>1, <1>2 DEF Polls
<1>4. Polls # 0
  <2>1. SUFFICES ASSUME Polls = 0 PROVE FALSE
    OBVIOUS
  <2>2. 0 * Batch = 0  BY <1>1
  <2>3. QED  BY <1>1, <1>3, <2>1, <2>2
<1>5. Most \in Nat /\ Most <= Ring
  BY <1>1, <1>3, RingAssumption DEF Most, Polls
<1>6. (Polls + 1) * Batch = Polls * Batch + Batch  BY <1>1, <1>3
<1>7. ASSUME NEW p \in Nat, p <= EventLimit
      PROVE  /\ Reach(p, Polls)
             /\ \A k \in Nat : k <= Batch => Reach(p + k, Polls + 1)
  <2>1. PICK m \in Nat : m = Polls * Batch  BY <1>1, <1>3
  <2>2. (Polls + 1) * Batch = m + Batch  BY <1>6, <2>1
  <2>3. EventLimit <= m  BY <1>3, <2>1
  <2>4. QED  BY <1>1, <1>7, <2>1, <2>2, <2>3 DEF Reach
<1>8. ASSUME NEW p \in Nat, NEW r \in Nat, p # 0, r # 0, Reach(p + Batch, r)
      PROVE  r - 1 \in Nat \ {0} /\ Reach(p, r - 1)
  <2>1. PICK m \in Nat : m = (r - 1) * Batch  BY <1>1, <1>8
  <2>2. r * Batch = m + Batch  BY <1>1, <1>8, <2>1
  <2>3. p <= m  BY <1>1, <1>8, <2>1, <2>2 DEF Reach
  <2>4. r # 1
    <3>1. SUFFICES ASSUME r = 1 PROVE FALSE
      OBVIOUS
    <3>2. m = 0 * Batch /\ 0 * Batch = 0  BY <1>1, <2>1, <3>1
    <3>3. QED  BY <1>8, <2>3, <3>2
  <2>5. QED  BY <1>8, <2>1, <2>3, <2>4 DEF Reach
<1>9. QED  BY <1>1, <1>3, <1>4, <1>5, <1>7, <1>8

-----------------------------------------------------------------------------
\* A controller recognises the completion of a request, which is the pending one, or is
\* remembered; at most n requests that were handed over later are, too.
Live(chip) == IF chip.dispatched /\ chip.pending # None THEN 1 ELSE 0
Known(chip, ticket, n) ==
  \/ Completes(chip, ticket)
  \/ \E i \in DOMAIN chip.cancelled :
       chip.cancelled[i] = ticket /\ Len(chip.cancelled) - i + Live(chip) <= n

Remembering(chip) == IsChip(chip) /\ chip.cancelled \in Seq(Nat)

LEMMA KnownMore ==
  ASSUME NEW chip, Remembering(chip), NEW t, NEW n \in Nat, NEW m \in Nat, n <= m, Known(chip, t, n)
  PROVE  Known(chip, t, m)
<1>1. Len(chip.cancelled) \in Nat /\ Live(chip) \in Nat  BY DEF Remembering, Live
<1>2. QED  BY <1>1 DEF Known, Remembering

\* The registers that matter here are the same.
SameTickets(new, old) ==
  /\ new.pending = old.pending /\ new.dispatched = old.dispatched
  /\ new.cancelled = old.cancelled

LEMMA KnownSame ==
  ASSUME NEW new, NEW old, SameTickets(new, old), NEW t, NEW n, Known(old, t, n)
  PROVE  Known(new, t, n)
BY DEF SameTickets, Known, Completes, Live

\* `cancel_pending` forgets no request that fewer than Ring others have followed.
LEMMA KnownCancel ==
  ASSUME NEW chip, Remembering(chip), NEW t \in Ticket, NEW n \in Nat, n < Ring, Known(chip, t, n)
  PROVE  Known(Cancel(chip), t, n)
<1>1. PICK S : chip \in Chip(S)  BY DEF Remembering, IsChip
<1>2. chip.pending \in Nat /\ chip.dispatched \in BOOLEAN /\ chip.cancelled \in Seq(Nat)
  BY <1>1 DEF Chip, Remembering
<1> DEFINE old == chip.cancelled
           new == Cancel(chip).cancelled
<1>3. /\ Cancel(chip).pending = None /\ Cancel(chip).dispatched = FALSE
      /\ new = IF chip.pending # None /\ chip.dispatched
               THEN Append(IF Len(old) = Ring THEN Tail(old) ELSE old, chip.pending)
               ELSE old
  BY <1>1 DEF Cancel, Chip
<1>4. Live(Cancel(chip)) = 0  BY <1>3 DEF Live
<1>5. CASE ~(chip.pending # None /\ chip.dispatched)
  <2>1. new = old /\ Live(chip) = 0  BY <1>3, <1>5 DEF Live
  <2>2. ~Completes(chip, t)  BY <1>5 DEF Completes, Ticket
  <2>3. QED  BY <1>4, <2>1, <2>2 DEF Known
<1>6. CASE chip.pending # None /\ chip.dispatched
  <2>1. Live(chip) = 1  BY <1>6 DEF Live
  <2>2. PICK kept \in Seq(Nat) : kept = IF Len(old) = Ring THEN Tail(old) ELSE old
    <3>1. Len(old) = Ring => old # <<>>  BY PollsEnough
    <3>2. old # <<>> => Tail(old) \in Seq(Nat)  BY <1>2
    <3>3. (IF Len(old) = Ring THEN Tail(old) ELSE old) \in Seq(Nat)  BY <1>2, <3>1, <3>2
    <3>4. QED  BY <3>3
  <2>3. new = Append(kept, chip.pending)  BY <1>3, <1>6, <2>2
  <2> HIDE DEF new
  <2>4. /\ Len(new) = Len(kept) + 1 /\ Len(kept) \in Nat /\ Len(kept) + 1 \in DOMAIN new
        /\ new[Len(kept) + 1] = chip.pending
        /\ \A i \in DOMAIN kept : i \in DOMAIN new /\ new[i] = kept[i]
    BY <1>2, <2>2, <2>3
  <2> USE DEF new
  <2>5. CASE Completes(chip, t)
    <3>1. new[Len(kept) + 1] = t /\ Len(new) - (Len(kept) + 1) + 0 <= n
      BY <2>4, <2>5 DEF Completes
    <3>2. QED  BY <1>4, <2>4, <3>1 DEF Known
  <2>6. CASE \E i \in DOMAIN old : old[i] = t /\ Len(old) - i + Live(chip) <= n
    <3>1. PICK i \in DOMAIN old : old[i] = t /\ Len(old) - i + 1 <= n  BY <2>1, <2>6
    <3>2. i \in Nat /\ 1 <= i /\ i <= Len(old) /\ Len(old) \in Nat  BY <1>2, <3>1
    <3>3. CASE Len(old) # Ring
      <4>1. kept = old  BY <2>2, <3>3
      <4>2. i \in DOMAIN new /\ new[i] = t /\ Len(new) - i + 0 <= n
        BY <2>4, <3>1, <3>2, <4>1
      <4>3. QED  BY <1>4, <4>2 DEF Known
    <3>4. CASE Len(old) = Ring
      <4>1. i # 1  BY <3>1, <3>2, <3>4
      <4>2. kept = Tail(old)  BY <2>2, <3>4
      <4>3. i - 1 \in DOMAIN kept /\ kept[i - 1] = old[i] /\ Len(kept) = Len(old) - 1
        <5>1. old # <<>>  BY <1>2, <3>2
        <5>2. /\ DOMAIN Tail(old) = 1..(Len(old) - 1) /\ Len(Tail(old)) = Len(old) - 1
              /\ \A m \in 1..(Len(old) - 1) : Tail(old)[m] = old[m + 1]
          BY <1>2, <5>1
        <5>3. i - 1 \in 1..(Len(old) - 1) /\ (i - 1) + 1 = i  BY <3>2, <4>1
        <5>4. Tail(old)[i - 1] = old[i]  BY <5>2, <5>3
        <5>5. QED  BY <4>2, <5>2, <5>3, <5>4
      <4>4. i - 1 \in DOMAIN new /\ new[i - 1] = t /\ Len(new) - (i - 1) + 0 <= n
        <5>1. i - 1 \in DOMAIN new /\ new[i - 1] = t  BY <2>4, <3>1, <4>3
        <5>2. Len(new) = Len(old)  BY <2>4, <3>2, <4>3
        <5>3. Len(old) - (i - 1) + 0 <= n  BY <3>1, <3>2
        <5>4. QED  BY <5>1, <5>2, <5>3
      <4>5. QED  BY <1>4, <4>4 DEF Known
    <3>5. QED  BY <3>3, <3>4
  <2>7. QED  BY <2>5, <2>6 DEF Known
<1>7. QED  BY <1>5, <1>6

\* The cancelled tickets stay numbers.
LEMMA CancelRemembers ==
  ASSUME NEW chip, Remembering(chip)
  PROVE  Remembering(Cancel(chip))
<1>1. PICK S : chip \in Chip(S)  BY DEF Remembering, IsChip
<1>2. /\ chip.pending \in Nat /\ chip.cancelled \in Seq(Nat)
      /\ Cancel(chip).cancelled = IF chip.pending # None /\ chip.dispatched
           THEN Append(IF Len(chip.cancelled) = Ring THEN Tail(chip.cancelled)
                       ELSE chip.cancelled, chip.pending)
           ELSE chip.cancelled
  BY <1>1 DEF Chip, Remembering, Cancel
<1>3. Len(chip.cancelled) = Ring => chip.cancelled # <<>>  BY PollsEnough
<1>4. Cancel(chip).cancelled \in Seq(Nat)  BY <1>2, <1>3
<1>5. QED  BY <1>4, CancelKeeps DEF Remembering

\* One ticket leaves the cancelled ones.
LEMMA RemovedOne ==
  ASSUME NEW s \in Seq(Nat), NEW i \in DOMAIN s
  PROVE  LET r == SubSeq(s, 1, i - 1) \o SubSeq(s, i + 1, Len(s))
         IN  /\ r \in Seq(Nat)
             /\ \A j \in DOMAIN s : j # i =>
                  \E m \in DOMAIN r : r[m] = s[j] /\ Len(r) - m <= Len(s) - j
<1> DEFINE a == SubSeq(s, 1, i - 1)
           b == SubSeq(s, i + 1, Len(s))
           r == a \o b
<1>1. i \in Nat /\ 1 <= i /\ i <= Len(s) /\ Len(s) \in Nat  OBVIOUS
<1>2. a \in Seq(Nat) /\ Len(a) = i - 1 /\ \A j \in 1..(i - 1) : a[j] = s[j]
  BY <1>1
<1>3. b \in Seq(Nat) /\ Len(b) = Len(s) - i /\ \A j \in 1..(Len(s) - i) : b[j] = s[j + i]
  <2>1. \A j \in (i + 1)..Len(s) : s[j] \in Nat  BY <1>1
  <2>2. /\ b \in Seq(Nat)
        /\ Len(b) = IF i + 1 <= Len(s) THEN Len(s) - (i + 1) + 1 ELSE 0
        /\ \A j \in 1..(Len(s) - (i + 1) + 1) : b[j] = s[(i + 1) + j - 1]
    <3>1. i + 1 \in Int /\ Len(s) \in Int  BY <1>1
    <3>2. \A lo, hi \in Int : (\A j \in lo..hi : s[j] \in Nat) =>
            LET cut == SubSeq(s, lo, hi)
            IN  /\ cut \in Seq(Nat)
                /\ Len(cut) = IF lo <= hi THEN hi - lo + 1 ELSE 0
                /\ \A j \in 1..(hi - lo + 1) : cut[j] = s[lo + j - 1]
      BY SubSeqProperties
    <3>3. QED  BY <2>1, <3>1, <3>2, Zenon
  <2> HIDE DEF b
  <2>3. Len(b) = Len(s) - i  BY <1>1, <2>2
  <2>4. ASSUME NEW j \in 1..(Len(s) - i) PROVE b[j] = s[j + i]
    <3>1. j \in 1..(Len(s) - (i + 1) + 1) /\ (i + 1) + j - 1 = j + i  BY <1>1
    <3>2. b[j] = s[(i + 1) + j - 1]  BY <2>2, <3>1
    <3>3. QED  BY <3>1, <3>2
  <2>5. QED  BY <2>2, <2>3, <2>4
<1> HIDE DEF a, b
<1>4. /\ r \in Seq(Nat) /\ Len(r) = Len(s) - 1
      /\ \A m \in 1..(Len(s) - 1) : r[m] = IF m <= i - 1 THEN a[m] ELSE b[m - (i - 1)]
  <2>1. /\ r \in Seq(Nat) /\ Len(r) = Len(a) + Len(b)
        /\ \A m \in 1..(Len(a) + Len(b)) : r[m] = IF m <= Len(a) THEN a[m] ELSE b[m - Len(a)]
    BY <1>2, <1>3, ConcatProperties
  <2>2. Len(a) + Len(b) = Len(s) - 1 /\ Len(a) = i - 1  BY <1>1, <1>2, <1>3
  <2>3. QED  BY <2>1, <2>2
<1>5. ASSUME NEW j \in DOMAIN s, j # i
      PROVE  \E m \in DOMAIN r : r[m] = s[j] /\ Len(r) - m <= Len(s) - j
  <2>1. j \in Nat /\ 1 <= j /\ j <= Len(s)  OBVIOUS
  <2>2. CASE j < i
    <3>1. j \in 1..(Len(s) - 1) /\ j \in 1..(i - 1)  BY <1>1, <2>1, <2>2
    <3>2. r[j] = a[j] /\ a[j] = s[j]  BY <1>1, <1>2, <1>4, <3>1
    <3>3. j \in DOMAIN r /\ Len(r) - j <= Len(s) - j  BY <1>1, <1>4, <3>1
    <3>4. QED  BY <3>2, <3>3
  <2>3. CASE j > i
    <3>1. j - i \in 1..(Len(s) - i) /\ (j - i) + i = j  BY <1>1, <2>1, <2>3
    <3>2. b[j - i] = s[j]  BY <1>3, <3>1
    <3>3. j - 1 \in 1..(Len(s) - 1) /\ ~(j - 1 <= i - 1) /\ (j - 1) - (i - 1) = j - i
      BY <1>1, <2>1, <2>3
    <3>4. r[j - 1] = b[j - i]
      <4>1. r[j - 1] = b[(j - 1) - (i - 1)]  BY <1>4, <3>3
      <4>2. QED  BY <3>3, <4>1
    <3>5. j - 1 \in DOMAIN r /\ Len(r) - (j - 1) <= Len(s) - j
      <4>1. DOMAIN r = 1..Len(r)  BY <1>4
      <4>2. j - 1 \in DOMAIN r  BY <1>4, <3>3, <4>1
      <4>3. (Len(s) - 1) - (j - 1) <= Len(s) - j  BY <1>1, <2>1
      <4>4. QED  BY <1>4, <4>2, <4>3
    <3>6. QED  BY <3>2, <3>4, <3>5
  <2>4. QED  BY <1>1, <1>5, <2>1, <2>2, <2>3
<1>6. QED  BY <1>4, <1>5 DEF a, b

\* `complete` forgets the completed request only.
LEMMA KnownCompleted ==
  ASSUME NEW chip, Remembering(chip), NEW k \in Nat
  PROVE  /\ Remembering(Completed(chip, k))
         /\ \A t \in Ticket \ {k} : \A n \in Nat :
              /\ Remembers(chip, k) \/ Completes(chip, k)
              /\ Known(chip, t, n)
              => Known(Completed(chip, k), t, n)
<1>1. PICK S : chip \in Chip(S)  BY DEF Remembering, IsChip
<1>2. chip.pending \in Nat /\ chip.dispatched \in BOOLEAN /\ chip.cancelled \in Seq(Nat)
  BY <1>1 DEF Chip, Remembering
<1> DEFINE old == chip.cancelled
           done == Completed(chip, k)
<1>3. CASE Remembers(chip, k)
  <2>1. PICK i \in DOMAIN old : /\ old[i] = k
                                /\ i = CHOOSE m \in DOMAIN old : old[m] = k
    BY <1>3 DEF Remembers
  <2>2. PICK r \in Seq(Nat) :
          /\ r = SubSeq(old, 1, i - 1) \o SubSeq(old, i + 1, Len(old))
          /\ \A j \in DOMAIN old : j # i =>
                  \E m \in DOMAIN r : r[m] = old[j] /\ Len(r) - m <= Len(old) - j
    BY <1>2, RemovedOne
  <2>3. done = [chip EXCEPT !.cancelled = r]
    BY <1>3, <2>1, <2>2 DEF Completed
  <2> HIDE DEF done
  <2>4. /\ done.cancelled = r /\ done.pending = chip.pending
        /\ done.dispatched = chip.dispatched /\ done \in Chip(S \cup {r})
    BY <1>1, <2>3 DEF Chip
  <2>5. ASSUME NEW t \in Ticket \ {k}, NEW n \in Nat, Known(chip, t, n)
        PROVE  Known(done, t, n)
    <3>1. CASE Completes(chip, t)  BY <2>4, <3>1 DEF Completes, Known
    <3>2. CASE \E j \in DOMAIN old : old[j] = t /\ Len(old) - j + Live(chip) <= n
      <4>1. PICK j \in DOMAIN old : old[j] = t /\ Len(old) - j + Live(chip) <= n  BY <3>2
      <4>2. j # i  BY <2>1, <2>5, <4>1
      <4>3. PICK m \in DOMAIN r : r[m] = t /\ Len(r) - m <= Len(old) - j
        BY <2>2, <4>1, <4>2
      <4>4. Live(done) = Live(chip) /\ Live(chip) \in Nat  BY <2>4 DEF Live
      <4>5. Len(r) \in Nat /\ m \in Nat  BY <4>3
      <4>6. Len(old) \in Nat /\ j \in Nat
        <5>1. DOMAIN old = 1..Len(old) /\ Len(old) \in Nat  BY <1>2
        <5>2. j \in 1..Len(old)  BY <5>1
        <5>3. QED  BY <5>1, <5>2
      <4>7. Len(r) - m + Live(done) <= n
        <5>1. PICK a, b, l \in Nat : a = Len(r) /\ b = Len(old) /\ l = Live(chip)
          BY <4>4, <4>5, <4>6
        <5>2. a - m <= b - j /\ b - j + l <= n  BY <4>1, <4>3, <5>1
        <5>3. a - m + l <= n  BY <4>5, <4>6, <5>2
        <5>4. QED  BY <4>4, <5>1, <5>3
      <4>8. QED  BY <2>4, <4>3, <4>7 DEF Known
    <3>3. QED  BY <2>5, <3>1, <3>2 DEF Known
  <2>6. Remembering(done)  BY <2>4 DEF Remembering, IsChip
  <2>7. QED  BY <2>5, <2>6 DEF done
<1>4. CASE ~Remembers(chip, k)
  <2>1. done = [chip EXCEPT !.pending = None, !.sent = TRUE, !.done = chip.pending]
    BY <1>4 DEF Completed
  <2> HIDE DEF done
  <2>2. /\ done.cancelled = old /\ done.pending = None /\ done.dispatched = chip.dispatched
        /\ done \in Chip(S \cup {TRUE})
    BY <1>1, <1>2, <2>1 DEF Chip, None
  <2>3. ASSUME NEW t \in Ticket \ {k}, NEW n \in Nat, Known(chip, t, n), Completes(chip, k)
        PROVE  Known(done, t, n)
    <3>1. ~Completes(chip, t)  BY <2>3 DEF Completes
    <3>2. PICK j \in DOMAIN old : old[j] = t /\ Len(old) - j + Live(chip) <= n
      BY <2>3, <3>1 DEF Known
    <3>3. /\ Live(done) = 0 /\ Live(chip) \in Nat
          /\ Len(old) \in Nat /\ j \in Nat
      BY <1>2, <2>2 DEF Live
    <3>4. Len(old) - j + Live(done) <= n  BY <3>2, <3>3
    <3>5. QED  BY <2>2, <3>2, <3>4 DEF Known
  <2>4. Remembering(done)  BY <1>2, <2>2 DEF Remembering, IsChip
  <2>5. QED  BY <1>4, <2>3, <2>4 DEF done
<1>5. QED  BY <1>3, <1>4

Going == pc \in {"cpu", "collect", "apply", "drain", "submit"}

\* A request of the controller waits to be put into the command channel.
Queued(c) == IF \E tx \in outbox : tx[1] = c THEN 1 ELSE 0

\* The completion in this place of the event channel is taken before too many requests
\* are handed over: each poll hands over one more.
Bound == IF pc \in {"apply", "drain"} THEN Most - 1 ELSE Most
Taken == IF pc = "collect" THEN Len(batch) ELSE 0
Expected(chip, ticket, position) ==
  \E r \in Nat \ {0} : \E n \in Nat :
    Known(chip, ticket, n) /\ n + r <= Bound /\ Reach(position + Taken, r)

StaleTypes ==
  /\ \A c \in Controllers : ctl[c].cancelled \in Seq(Nat)
  /\ Len(input) <= InputLimit /\ Len(events) <= EventLimit
  /\ pc = "collect" => Len(batch) <= Batch
  /\ \A i \in DOMAIN input : input[i][1] \in Wired
  /\ worker.at \in {"device", "confirm"} => worker.hand[1] \in Wired
  /\ failure # "stale completion" /\ errors # "stale completion"

Done(e) == e.kind = "completed"

\* The completions of a controller are in the order of its requests.
Below(list, c, k) == \A i \in DOMAIN list : Done(list[i]) /\ list[i].c = c => list[i].n < k
Sorted(list) ==
  \A i, j \in DOMAIN list : i < j /\ Done(list[i]) /\ Done(list[j]) /\ list[i].c = list[j].c =>
                              list[i].n < list[j].n
ToldInOrder ==
  /\ Sorted(batch) /\ Sorted(events)
  /\ \A j \in DOMAIN events : Done(events[j]) => Below(batch, events[j].c, events[j].n)
  /\ worker.at = "confirm" => /\ Below(batch, worker.hand[1], worker.hand[2])
                              /\ Below(events, worker.hand[1], worker.hand[2])
  /\ \A i \in DOMAIN batch : Done(batch[i]) => batch[i].n # None
  /\ \A i \in DOMAIN events : Done(events[i]) => events[i].n # None

\* The controllers recognise every completion that may still come.
KnowOutbox == \A tx \in outbox : Known(ctl[tx[1]], tx[2], 0)
KnowInput ==
  \A j \in DOMAIN input :
    Known(ctl[input[j][1]], input[j][2], Len(input) - j + Queued(input[j][1]))
KnowHand ==
  worker.at \in {"device", "confirm"} =>
    Known(ctl[worker.hand[1]], worker.hand[2], Len(input) + Queued(worker.hand[1]))
KnowEvents ==
  \A p \in DOMAIN events : Done(events[p]) => Expected(ctl[events[p].c], events[p].n, p)
KnowBatch ==
  \A i \in DOMAIN batch : Done(batch[i]) => Known(ctl[batch[i].c], batch[i].n, Most - 1)

StaleInv ==
  /\ FramesInv /\ StaleTypes
  /\ Going => /\ ToldInOrder
              /\ KnowOutbox /\ KnowInput /\ KnowHand /\ KnowEvents /\ KnowBatch

LEMMA StaleFacts ==
  ASSUME StaleInv
  PROVE  /\ \A c \in Controllers : Remembering(ctl[c])
         /\ input \in Seq(Command) /\ Len(input) \in Nat
         /\ \A j \in DOMAIN input : /\ input[j] \in Command /\ j \in 1..Len(input)
                                    /\ input[j][1] \in Controllers /\ input[j][2] \in Ticket
         /\ events \in Seq(Event) /\ batch \in Seq(Event)
         /\ Len(events) \in Nat /\ Len(batch) \in Nat
         /\ \A i \in DOMAIN events : /\ events[i] \in Event /\ i \in 1..Len(events)
                                     /\ events[i].c \in Controllers /\ events[i].n \in Nat
         /\ \A i \in DOMAIN batch : /\ batch[i] \in Event /\ i \in 1..Len(batch)
                                    /\ batch[i].c \in Controllers /\ batch[i].n \in Nat
         /\ \A tx \in outbox : tx \in Command /\ tx[1] \in Controllers /\ tx[2] \in Ticket
         /\ worker.at \in {"device", "confirm"} =>
              /\ worker.hand \in Command
              /\ worker.hand[1] \in Controllers /\ worker.hand[2] \in Ticket
<1>1. PipeInv  BY DEF StaleInv, FramesInv
<1>2. /\ input \in Seq(Command) /\ events \in Seq(Event) /\ batch \in Seq(Event)
      /\ outbox \subseteq Command
      /\ worker.at \in {"device", "confirm"} => worker.hand \in Command
  BY <1>1 DEF PipeInv, PipeTypes
<1>3. \A x \in Command : x[1] \in Controllers /\ x[2] \in Ticket  BY DEF Command
<1>4. \A e \in Event : e.c \in Controllers /\ e.n \in Nat  BY DEF Event
<1>5. \A j \in DOMAIN input : input[j] \in Command /\ j \in 1..Len(input)  BY <1>2
<1>6. \A i \in DOMAIN events : events[i] \in Event /\ i \in 1..Len(events)  BY <1>2
<1>7. \A i \in DOMAIN batch : batch[i] \in Event /\ i \in 1..Len(batch)  BY <1>2
<1>8. \A c \in Controllers : Remembering(ctl[c])
  BY <1>1, AllChips DEF StaleInv, StaleTypes, Remembering, PipeInv
<1>9. Len(input) \in Nat /\ Len(events) \in Nat /\ Len(batch) \in Nat  BY <1>2
<1>10. \A tx \in outbox : tx \in Command /\ tx[1] \in Controllers /\ tx[2] \in Ticket
  BY <1>2, <1>3
<1>11. \A j \in DOMAIN input : /\ input[j] \in Command /\ j \in 1..Len(input)
                               /\ input[j][1] \in Controllers /\ input[j][2] \in Ticket
  BY <1>3, <1>5
<1>12. worker.at \in {"device", "confirm"} =>
         worker.hand \in Command /\ worker.hand[1] \in Controllers /\ worker.hand[2] \in Ticket
  BY <1>2, <1>3
<1>13. \A i \in DOMAIN events : events[i].c \in Controllers /\ events[i].n \in Nat
  BY <1>4, <1>6
<1>14. \A i \in DOMAIN batch : batch[i].c \in Controllers /\ batch[i].n \in Nat
  BY <1>4, <1>7
<1>15. QED  BY <1>2, <1>6, <1>7, <1>8, <1>9, <1>10, <1>11, <1>12, <1>13, <1>14

\* Only while the requests are put into the channel does one of them wait.
LEMMA NoneQueued ==
  ASSUME StaleInv
  PROVE  /\ \A c : Queued(c) \in 0..1
         /\ Going /\ pc # "submit" => outbox = {} /\ \A c : Queued(c) = 0
<1>1. Going /\ pc # "submit" => outbox = {}
  BY NoOutbox DEF StaleInv, FramesInv, Going
<1>2. QED  BY <1>1 DEF Queued

\* What waits is never so much that the ring is full.
LEMMA FewLater ==
  ASSUME StaleInv
  PROVE  /\ InputLimit + 1 <= Most - 1 /\ Most - 1 \in Nat /\ Most - 1 < Ring
         /\ \A j \in DOMAIN input : \A c :
              /\ Len(input) - j + Queued(c) \in Nat
              /\ Len(input) - j + Queued(c) <= InputLimit
         /\ \A c : Len(input) + Queued(c) \in Nat /\ Len(input) + Queued(c) <= InputLimit + 1
         /\ Bound \in {Most - 1, Most}
         /\ \A r \in Nat \ {0} : \A n \in Nat : n + r <= Bound => n <= Most - 1
<1>1. /\ InputLimit \in Nat /\ Polls \in Nat /\ Polls >= 1
      /\ Most \in Nat /\ Most <= Ring /\ Ring \in Nat
  BY PollsEnough
<1>2. InputLimit + 1 <= Most - 1 /\ Most - 1 \in Nat /\ Most - 1 < Ring
  BY <1>1 DEF Most
<1>3. Len(input) \in Nat /\ Len(input) <= InputLimit /\ \A j \in DOMAIN input : j \in 1..Len(input)
  BY StaleFacts DEF StaleInv, StaleTypes
<1>4. \A c : Queued(c) \in 0..1  BY NoneQueued
<1>5. QED  BY <1>1, <1>2, <1>3, <1>4 DEF Bound

\* The channels and the batch stay, and no controller forgets.
LEMMA StaleSame ==
  ASSUME StaleInv, FramesInv', StaleTypes', UNCHANGED <<outbox, input, events, batch>>,
         worker'.at \in {"device", "confirm"} => worker' = worker,
         \A c \in Controllers : \A t \in Ticket : \A n \in Nat :
           n < Ring /\ Known(ctl[c], t, n) => Known(ctl'[c], t, n),
         Going' => Going /\ Bound' = Bound /\ Taken' = Taken
  PROVE  StaleInv'
<1> SUFFICES ASSUME Going' PROVE /\ ToldInOrder' /\ KnowOutbox' /\ KnowInput' /\ KnowHand'
                                 /\ KnowEvents' /\ KnowBatch'
  BY DEF StaleInv
<1>1. ToldInOrder /\ KnowOutbox /\ KnowInput /\ KnowHand /\ KnowEvents /\ KnowBatch
  BY DEF StaleInv
<1>2. ToldInOrder'
  BY <1>1 DEF ToldInOrder
<1>3. \A c : Queued(c)' = Queued(c)  BY DEF Queued
<1>4. 0 < Ring /\ InputLimit < Ring /\ InputLimit + 1 < Ring /\ Most - 1 < Ring
  <2>1. InputLimit + 1 <= Most - 1 /\ Most - 1 \in Nat /\ Most - 1 < Ring  BY FewLater
  <2>2. InputLimit \in Nat /\ Ring \in Nat  BY PollsEnough
  <2>3. PICK m \in Nat : m = Most - 1  BY <2>1
  <2>4. QED  BY <2>1, <2>2, <2>3
<1>5. KnowOutbox'
  BY <1>1, <1>4, StaleFacts DEF KnowOutbox
<1>6. KnowInput'
  <2>1. SUFFICES ASSUME NEW j \in DOMAIN input
                 PROVE  Known(ctl'[input[j][1]], input[j][2],
                              Len(input) - j + Queued(input[j][1]))
    BY <1>3 DEF KnowInput
  <2>2. /\ Len(input) - j + Queued(input[j][1]) \in Nat
        /\ Len(input) - j + Queued(input[j][1]) < Ring
    <3>1. PICK k : k = Len(input) - j + Queued(input[j][1])  OBVIOUS
    <3>2. k \in Nat /\ k <= InputLimit  BY <3>1, FewLater
    <3>3. InputLimit \in Nat /\ Ring \in Nat  BY PollsEnough
    <3>4. QED  BY <1>4, <3>1, <3>2, <3>3
  <2>3. Known(ctl[input[j][1]], input[j][2], Len(input) - j + Queued(input[j][1]))
    BY <1>1 DEF KnowInput
  <2>4. input[j][1] \in Controllers /\ input[j][2] \in Ticket  BY StaleFacts
  <2>5. QED  BY <2>2, <2>3, <2>4
<1>7. KnowHand'
  <2>1. SUFFICES ASSUME worker.at \in {"device", "confirm"}, worker' = worker
                 PROVE  Known(ctl'[worker.hand[1]], worker.hand[2],
                              Len(input) + Queued(worker.hand[1]))
    BY <1>3 DEF KnowHand
  <2>2. /\ Len(input) + Queued(worker.hand[1]) \in Nat
        /\ Len(input) + Queued(worker.hand[1]) < Ring
    <3>1. PICK k : k = Len(input) + Queued(worker.hand[1])  OBVIOUS
    <3>2. k \in Nat /\ k <= InputLimit + 1  BY <3>1, FewLater
    <3>3. InputLimit \in Nat /\ Ring \in Nat  BY PollsEnough
    <3>4. QED  BY <1>4, <3>1, <3>2, <3>3
  <2>3. Known(ctl[worker.hand[1]], worker.hand[2], Len(input) + Queued(worker.hand[1]))
    BY <1>1, <2>1 DEF KnowHand
  <2>4. worker.hand[1] \in Controllers /\ worker.hand[2] \in Ticket  BY <2>1, StaleFacts
  <2>5. QED  BY <2>2, <2>3, <2>4
<1>8. KnowEvents'
  <2>1. SUFFICES ASSUME NEW p \in DOMAIN events, Done(events[p])
                 PROVE  Expected(ctl[events[p].c], events[p].n, p)'
    BY DEF KnowEvents
  <2>2. PICK r \in Nat \ {0}, n \in Nat : /\ Known(ctl[events[p].c], events[p].n, n)
                                          /\ n + r <= Bound /\ Reach(p + Taken, r)
    BY <1>1, <2>1 DEF KnowEvents, Expected
  <2>3. n < Ring  BY <1>4, <2>2, FewLater, PollsEnough
  <2>4. events[p].c \in Controllers /\ events[p].n \in Ticket
    BY <1>1, <2>1, StaleFacts DEF ToldInOrder, Ticket
  <2>5. Known(ctl'[events[p].c], events[p].n, n)  BY <2>2, <2>3, <2>4
  <2>6. QED  BY <2>2, <2>5 DEF Expected
<1>9. KnowBatch'
  <2>1. SUFFICES ASSUME NEW i \in DOMAIN batch, Done(batch[i])
                 PROVE  Known(ctl'[batch[i].c], batch[i].n, Most - 1)
    BY DEF KnowBatch
  <2>2. Known(ctl[batch[i].c], batch[i].n, Most - 1)
    BY <1>1, <2>1 DEF KnowBatch
  <2>3. batch[i].c \in Controllers /\ batch[i].n \in Ticket
    BY <1>1, <2>1, StaleFacts DEF ToldInOrder, Ticket
  <2>4. QED  BY <1>4, <2>2, <2>3, FewLater
<1>10. QED  BY <1>2, <1>5, <1>6, <1>7, <1>8, <1>9

-----------------------------------------------------------------------------
\* The firmware withdraws requests and makes new ones.
LEMMA FirmwareStale ==
  ASSUME StaleInv, FramesInv', Slice
  PROVE  StaleInv'
<1>1. PICK c \in Controllers :
        Request(c) \/ Abort(c) \/ WriteMode(c) \/ WriteInterrupts(c) \/ ReleaseReceived(c)
  BY DEF Slice
<1>2. /\ UNCHANGED <<pc, outbox, input, events, batch, worker, failure, errors>> /\ pc = "cpu"
  BY <1>1 DEF Request, Abort, WriteMode, WriteInterrupts, ReleaseReceived, OnlyChip, Firmware,
              linkVars, workerVars
<1>3. PICK S : ctl \in [Controllers -> Chip(S)]  BY FrameTypes DEF StaleInv
<1>4. Remembering(ctl[c])  BY StaleFacts
<1> DEFINE Knows(chip) == \A t \in Ticket : \A n \in Nat :
                            n < Ring /\ Known(ctl[c], t, n) => Known(chip, t, n)
<1>5. Knows(ctl[c]) /\ Knows(Cancel(ctl[c]))
  BY <1>4, KnownCancel
<1>6. ASSUME NEW new, NEW old, Knows(old), SameTickets(new, old)
      PROVE  Knows(new)
  BY <1>6, KnownSame
<1>7. PICK T : ctl[c] \in Chip(T) /\ Cancel(ctl[c]) \in Chip(T)
  <2>1. PICK T : Cancel(ctl[c]) \in Chip(T)
    BY <1>4, CancelKeeps DEF IsChip, Remembering
  <2>2. ctl[c] \in Chip(S \cup T) /\ Cancel(ctl[c]) \in Chip(S \cup T)
    BY <1>3, <2>1 DEF Chip
  <2>3. QED  BY <2>2
<1>8. \E chip : /\ ctl' = [ctl EXCEPT ![c] = chip] /\ Knows(chip)
                /\ chip.cancelled \in {ctl[c].cancelled, Cancel(ctl[c]).cancelled}
  <2>1. CASE Request(c)
    <3> DEFINE chip == [ctl[c] EXCEPT !.pending = ctl[c].next, !.next = @ + 1,
                                      !.dispatched = FALSE, !.sent = FALSE]
    <3>1. ctl' = [ctl EXCEPT ![c] = chip] /\ ctl[c].pending = None
      BY <2>1 DEF Request, OnlyChip
    <3>2. chip.cancelled = ctl[c].cancelled /\ chip.dispatched = FALSE
      BY <1>7 DEF Chip
    <3>3. Knows(chip)
      <4>1. Live(ctl[c]) = 0 /\ Live(chip) = 0  BY <3>1, <3>2 DEF Live
      <4>2. \A t \in Ticket : ~Completes(ctl[c], t)  BY <3>1 DEF Completes, Ticket
      <4> HIDE DEF chip
      <4>3. QED  BY <3>2, <4>1, <4>2 DEF Known
    <3>4. QED  BY <3>1, <3>2, <3>3
  <2>2. CASE Abort(c)
    <3>1. PICK chip : /\ ctl' = [ctl EXCEPT ![c] = chip]
                      /\ chip = Cancel(ctl[c]) \/ chip = [Cancel(ctl[c]) EXCEPT !.sent = FALSE]
      BY <2>2 DEF Abort, OnlyChip
    <3>2. SameTickets(chip, Cancel(ctl[c]))
      BY <1>7, <3>1 DEF Chip, SameTickets
    <3>3. Knows(chip)  BY <1>5, <1>6, <3>2
    <3>4. QED  BY <3>1, <3>2, <3>3 DEF SameTickets
  <2>3. CASE WriteMode(c)
    <3>1. PICK mode, chip :
            /\ ctl' = [ctl EXCEPT ![c] = chip]
            /\ \/ chip = [Cancel(ctl[c]) EXCEPT !.mode = mode, !.fifo = <<>>,
                                                !.sent = TRUE, !.overrun = FALSE]
               \/ chip = [ctl[c] EXCEPT !.mode = mode]
      BY <2>3 DEF WriteMode, OnlyChip
    <3>2. SameTickets(chip, Cancel(ctl[c])) \/ SameTickets(chip, ctl[c])
      BY <1>7, <3>1 DEF Chip, SameTickets
    <3>3. Knows(chip)  BY <1>5, <1>6, <3>2
    <3>4. QED  BY <3>1, <3>2, <3>3 DEF SameTickets
  <2>4. CASE WriteInterrupts(c)
    <3>1. PICK on, chip : ctl' = [ctl EXCEPT ![c] = chip] /\ chip = [ctl[c] EXCEPT !.rxIrq = on]
      BY <2>4 DEF WriteInterrupts, OnlyChip
    <3>2. SameTickets(chip, ctl[c])  BY <1>7, <3>1 DEF Chip, SameTickets
    <3>3. Knows(chip)  BY <1>5, <1>6, <3>2
    <3>4. QED  BY <3>1, <3>2, <3>3 DEF SameTickets
  <2>5. CASE ReleaseReceived(c)
    <3>1. PICK f, o, chip : /\ ctl' = [ctl EXCEPT ![c] = chip]
                            /\ chip = [ctl[c] EXCEPT !.fifo = f, !.overrun = o]
      BY <2>5 DEF ReleaseReceived, OnlyChip
    <3>2. SameTickets(chip, ctl[c])  BY <1>7, <3>1 DEF Chip, SameTickets
    <3>3. Knows(chip)  BY <1>5, <1>6, <3>2
    <3>4. QED  BY <3>1, <3>2, <3>3 DEF SameTickets
  <2>6. QED  BY <1>1, <2>1, <2>2, <2>3, <2>4, <2>5
<1>9. PICK chip : /\ ctl' = [ctl EXCEPT ![c] = chip] /\ Knows(chip)
                  /\ chip.cancelled \in {ctl[c].cancelled, Cancel(ctl[c]).cancelled}
  BY <1>8
<1>10. ctl'[c] = chip /\ \A d \in Controllers : d # c => ctl'[d] = ctl[d]
  BY <1>3, <1>9
<1>11. StaleTypes'
  <2>1. chip.cancelled \in Seq(Nat)
    BY <1>4, <1>9, CancelRemembers DEF Remembering
  <2>2. QED  BY <1>2, <1>10, <2>1 DEF StaleInv, StaleTypes
<1>12. \A d \in Controllers : \A t \in Ticket : \A n \in Nat :
         n < Ring /\ Known(ctl[d], t, n) => Known(ctl'[d], t, n)
  BY <1>9, <1>10
<1>13. (Going' => Going) /\ Bound' = Bound /\ Taken' = Taken
  BY <1>2 DEF Going, Bound, Taken
<1>14. QED  BY <1>2, <1>11, <1>12, <1>13, StaleSame

\* The first of a list, and what is left.
LEMMA Behead ==
  ASSUME NEW S, NEW list \in Seq(S), list # <<>>
  PROVE  /\ 1 \in DOMAIN list /\ Head(list) = list[1] /\ Head(list) \in S
         /\ Len(list) \in Nat /\ Len(Tail(list)) = Len(list) - 1 /\ Tail(list) \in Seq(S)
         /\ \A i \in DOMAIN Tail(list) : /\ i \in Nat /\ i # 0 /\ i + 1 \in DOMAIN list
                                         /\ Tail(list)[i] = list[i + 1]
OBVIOUS

LEMMA Appended ==
  ASSUME NEW S, NEW list \in Seq(S), NEW e \in S
  PROVE  /\ Len(list) \in Nat /\ Len(Append(list, e)) = Len(list) + 1
         /\ \A i \in DOMAIN list : i \in 1..Len(list)
         /\ \A i \in DOMAIN Append(list, e) :
              \/ i \in DOMAIN list /\ Append(list, e)[i] = list[i] /\ i < Len(list) + 1
              \/ i = Len(list) + 1 /\ Append(list, e)[i] = e
OBVIOUS

\* A completion is recognised, and forgotten; every other one is still.
LEMMA CompletionStale ==
  ASSUME StaleInv, FramesInv', ApplyCompletion
  PROVE  StaleInv'
<1> DEFINE c == Head(batch).c
           k == Head(batch).n
<1>1. /\ pc = "apply" /\ batch # <<>> /\ Done(Head(batch)) /\ batch' = Tail(batch)
      /\ UNCHANGED <<outbox, input, events, worker, errors>>
      /\ \/ /\ Remembers(ctl[c], k) \/ Completes(ctl[c], k)
            /\ ctl' = [ctl EXCEPT ![c] = Completed(@, k)]
            /\ UNCHANGED <<pc, failure>>
         \/ /\ ~Remembers(ctl[c], k) /\ ~Completes(ctl[c], k)
            /\ UNCHANGED ctl
  BY DEF ApplyCompletion, workerVars, Done
<1>2. /\ ToldInOrder /\ KnowInput /\ KnowHand /\ KnowEvents /\ KnowBatch
      /\ PipeOrder /\ PipeTruth
  BY <1>1 DEF StaleInv, Going, FramesInv, PipeInv
<1>3. /\ 1 \in DOMAIN batch /\ Head(batch) = batch[1] /\ Head(batch) \in Event
      /\ c \in Controllers /\ k \in Ticket /\ k \in Nat
      /\ \A i \in DOMAIN batch' : /\ i \in Nat /\ i # 0 /\ i + 1 \in DOMAIN batch
                                  /\ batch'[i] = batch[i + 1]
  <2>1. batch \in Seq(Event)  BY StaleFacts
  <2>2. /\ 1 \in DOMAIN batch /\ Head(batch) = batch[1] /\ Head(batch) \in Event
        /\ \A i \in DOMAIN batch' : /\ i \in Nat /\ i # 0 /\ i + 1 \in DOMAIN batch
                                    /\ batch'[i] = batch[i + 1]
    BY <1>1, <2>1, Behead
  <2>3. c \in Controllers /\ k \in Nat  BY <2>2 DEF Event
  <2>4. k # None  BY <1>1, <1>2, <2>2 DEF ToldInOrder
  <2>5. QED  BY <2>2, <2>3, <2>4 DEF Ticket
<1>4. Remembers(ctl[c], k) \/ Completes(ctl[c], k)
  BY <1>1, <1>2, <1>3 DEF KnowBatch, Known, Remembers
<1>5. /\ ctl' = [ctl EXCEPT ![c] = Completed(ctl[c], k)] /\ UNCHANGED <<pc, failure>>
  BY <1>1, <1>4
<1>6. Remembering(ctl[c])  BY <1>3, StaleFacts
<1> HIDE DEF c, k
<1>7. /\ ctl'[c] = Completed(ctl[c], k) /\ \A d \in Controllers : d # c => ctl'[d] = ctl[d]
  <2>1. \E S : ctl \in [Controllers -> S]  BY FrameTypes DEF StaleInv
  <2>2. QED  BY <1>3, <1>5, <2>1
<1>8. ASSUME NEW d \in Controllers, NEW t \in Ticket, d = c => t # k, NEW n \in Nat,
             Known(ctl[d], t, n)
      PROVE  Known(ctl'[d], t, n)
  BY <1>3, <1>4, <1>6, <1>7, <1>8, KnownCompleted
<1>9. StaleTypes'
  <2>1. Completed(ctl[c], k).cancelled \in Seq(Nat)
    BY <1>3, <1>6, KnownCompleted DEF Remembering
  <2>2. QED  BY <1>1, <1>5, <1>7, <2>1 DEF StaleInv, StaleTypes
<1>10. outbox = {} /\ \A d : Queued(d) = 0 /\ Queued(d)' = 0
  BY <1>1, NoneQueued DEF Going, Queued
<1>11. Carried(c, k)
  BY <1>1, <1>2, <1>3 DEF PipeTruth, AllCarried, Done, c, k
<1>12. ToldInOrder'
  <2>1. Sorted(batch')
    <3>1. SUFFICES ASSUME NEW i \in DOMAIN batch', NEW j \in DOMAIN batch', i < j,
                          Done(batch'[i]), Done(batch'[j]), batch'[i].c = batch'[j].c
                   PROVE  batch'[i].n < batch'[j].n
      BY DEF Sorted
    <3>2. i + 1 < j + 1  BY <1>3, <3>1
    <3>3. QED  BY <1>2, <1>3, <3>1, <3>2 DEF ToldInOrder, Sorted
  <2>2. \A d, n : Below(batch, d, n) => Below(batch', d, n)
    BY <1>3 DEF Below
  <2>3. \A i \in DOMAIN batch' : Done(batch'[i]) => batch'[i].n # None
    BY <1>2, <1>3 DEF ToldInOrder
  <2>4. QED  BY <1>1, <1>2, <2>1, <2>2, <2>3 DEF ToldInOrder
<1>13. KnowOutbox'  BY <1>1, <1>10 DEF KnowOutbox
<1>14. KnowInput'
  <2>1. SUFFICES ASSUME NEW j \in DOMAIN input
                 PROVE  Known(ctl'[input[j][1]], input[j][2], Len(input) - j + 0)
    BY <1>1, <1>10 DEF KnowInput
  <2>2. Known(ctl[input[j][1]], input[j][2], Len(input) - j + 0)
    BY <1>2, <1>10 DEF KnowInput
  <2>3. /\ input[j][1] \in Controllers /\ input[j][2] \in Ticket
        /\ Len(input) - j + 0 \in Nat
    BY StaleFacts
  <2>4. input[j][1] = c => input[j][2] # k
    <3>1. SUFFICES ASSUME input[j][1] = c, input[j][2] = k PROVE FALSE
      OBVIOUS
    <3>2. Before(c, k)  BY <1>2, <3>1 DEF PipeOrder
    <3>3. QED  BY <1>3, <1>11, <3>2 DEF Before, Carried
  <2>5. QED  BY <1>8, <2>2, <2>3, <2>4
<1>15. KnowHand'
  <2>1. SUFFICES ASSUME worker.at \in {"device", "confirm"}
                 PROVE  Known(ctl'[worker.hand[1]], worker.hand[2], Len(input) + 0)
    BY <1>1, <1>10 DEF KnowHand
  <2>2. Known(ctl[worker.hand[1]], worker.hand[2], Len(input) + 0)
    BY <1>2, <1>10, <2>1 DEF KnowHand
  <2>3. /\ worker.hand[1] \in Controllers /\ worker.hand[2] \in Ticket /\ Len(input) + 0 \in Nat
    BY <2>1, StaleFacts
  <2>4. worker.hand[1] = c => worker.hand[2] # k
    <3>1. SUFFICES ASSUME worker.hand[1] = c, worker.hand[2] = k PROVE FALSE
      OBVIOUS
    <3>2. CASE worker.at = "device"
      BY <1>2, <1>3, <1>11, <3>1, <3>2 DEF PipeOrder, Carried
    <3>3. CASE worker.at = "confirm"
      <4>1. Below(batch, c, k)  BY <1>2, <3>1, <3>3 DEF ToldInOrder
      <4>2. batch[1].n < k  BY <1>1, <1>3, <4>1 DEF Below, c
      <4>3. QED  BY <1>3, <4>2 DEF k
    <3>4. QED  BY <2>1, <3>2, <3>3
  <2>5. QED  BY <1>8, <2>2, <2>3, <2>4
<1>16. KnowEvents'
  <2>1. SUFFICES ASSUME NEW p \in DOMAIN events, Done(events[p])
                 PROVE  Expected(ctl[events[p].c], events[p].n, p)'
    BY <1>1 DEF KnowEvents
  <2>2. PICK r \in Nat \ {0}, n \in Nat : /\ Known(ctl[events[p].c], events[p].n, n)
                                          /\ n + r <= Bound /\ Reach(p + Taken, r)
    BY <1>2, <2>1 DEF KnowEvents, Expected
  <2>3. events[p].c \in Controllers /\ events[p].n \in Ticket
    BY <1>2, <2>1, StaleFacts DEF ToldInOrder, Ticket
  <2>4. events[p].c = c => events[p].n # k
    <3>1. SUFFICES ASSUME events[p].c = c, events[p].n = k PROVE FALSE
      OBVIOUS
    <3>2. Below(batch, c, k)  BY <1>2, <2>1, <3>1 DEF ToldInOrder
    <3>3. batch[1].n < k  BY <1>1, <1>3, <3>2 DEF Below, c
    <3>4. QED  BY <1>3, <3>3 DEF k
  <2>5. Known(ctl'[events[p].c], events[p].n, n)  BY <1>8, <2>2, <2>3, <2>4
  <2>6. Bound' = Bound /\ Taken' = Taken  BY <1>1, <1>5 DEF Bound, Taken
  <2>7. events' = events  BY <1>1
  <2>8. QED  BY <2>2, <2>5, <2>6, <2>7 DEF Expected
<1>17. KnowBatch'
  <2>1. SUFFICES ASSUME NEW i \in DOMAIN batch', Done(batch'[i])
                 PROVE  Known(ctl'[batch'[i].c], batch'[i].n, Most - 1)
    BY DEF KnowBatch
  <2>2. i + 1 \in DOMAIN batch /\ batch'[i] = batch[i + 1] /\ 1 < i + 1  BY <1>3
  <2>3. Known(ctl[batch'[i].c], batch'[i].n, Most - 1) /\ Most - 1 \in Nat
    BY <1>2, <2>1, <2>2, FewLater DEF KnowBatch
  <2>4. batch'[i].c \in Controllers /\ batch'[i].n \in Ticket /\ batch'[i].n \in Nat
    BY <1>2, <2>1, <2>2, StaleFacts DEF ToldInOrder, Ticket
  <2>5. batch'[i].c = c => batch'[i].n # k
    <3>1. SUFFICES ASSUME batch'[i].c = c, batch'[i].n = k PROVE FALSE
      OBVIOUS
    <3>2. batch[1].n < batch[i + 1].n
      BY <1>1, <1>2, <1>3, <2>1, <2>2, <3>1 DEF ToldInOrder, Sorted, c
    <3>3. QED  BY <1>3, <2>2, <3>1, <3>2 DEF k
  <2>6. QED  BY <1>8, <2>3, <2>4, <2>5
<1>18. QED
  BY <1>9, <1>12, <1>13, <1>14, <1>15, <1>16, <1>17 DEF StaleInv

\* A frame leaves the batch.
LEMMA ApplyFrameStale ==
  ASSUME StaleInv, FramesInv', ApplyFrame
  PROVE  StaleInv'
<1>1. /\ pc = "apply" /\ batch # <<>> /\ batch' = Tail(batch)
      /\ UNCHANGED <<ctl, outbox, input, events, worker, errors>>
      /\ \/ UNCHANGED <<pc, failure>>
         \/ pc' = "closing" /\ failure' = "staging full"
  BY DEF ApplyFrame, workerVars, Stops
<1>2. \A i \in DOMAIN batch' : /\ i \in Nat /\ i # 0 /\ i + 1 \in DOMAIN batch
                               /\ batch'[i] = batch[i + 1]
  BY <1>1, StaleFacts, Behead
<1>3. StaleTypes'  BY <1>1 DEF StaleInv, StaleTypes
<1> SUFFICES ASSUME Going', UNCHANGED pc
             PROVE  /\ ToldInOrder' /\ KnowOutbox' /\ KnowInput' /\ KnowHand'
                    /\ KnowEvents' /\ KnowBatch'
  BY <1>1, <1>3 DEF StaleInv, Going
<1>4. ToldInOrder /\ KnowOutbox /\ KnowInput /\ KnowHand /\ KnowEvents /\ KnowBatch
  BY <1>1 DEF StaleInv, Going
<1>5. ToldInOrder'
  <2>1. Sorted(batch')
    <3>1. SUFFICES ASSUME NEW i \in DOMAIN batch', NEW j \in DOMAIN batch', i < j,
                          Done(batch'[i]), Done(batch'[j]), batch'[i].c = batch'[j].c
                   PROVE  batch'[i].n < batch'[j].n
      BY DEF Sorted
    <3>2. i + 1 < j + 1  BY <1>2, <3>1
    <3>3. QED  BY <1>2, <1>4, <3>1, <3>2 DEF ToldInOrder, Sorted
  <2>2. \A d, n : Below(batch, d, n) => Below(batch', d, n)
    BY <1>2 DEF Below
  <2>3. \A i \in DOMAIN batch' : Done(batch'[i]) => batch'[i].n # None
    BY <1>2, <1>4 DEF ToldInOrder
  <2>4. QED  BY <1>1, <1>4, <2>1, <2>2, <2>3 DEF ToldInOrder
<1>6. KnowBatch'  BY <1>1, <1>2, <1>4 DEF KnowBatch
<1>7. Bound' = Bound /\ Taken' = Taken  BY <1>1 DEF Bound, Taken
<1>8. QED
  BY <1>1, <1>4, <1>5, <1>6, <1>7 DEF KnowOutbox, KnowInput, KnowHand, KnowEvents, Expected, Queued

\* A completion moves from the channel into the batch.
LEMMA PollEventStale ==
  ASSUME StaleInv, FramesInv', PollEvent
  PROVE  StaleInv'
<1>1. /\ pc = "collect" /\ pc' = "collect" /\ Len(batch) < Batch /\ events # <<>>
      /\ batch' = Append(batch, Head(events)) /\ events' = Tail(events)
      /\ UNCHANGED <<ctl, outbox, input, worker, errors, failure>>
  BY DEF PollEvent, workerVars
<1>2. ToldInOrder /\ KnowOutbox /\ KnowInput /\ KnowHand /\ KnowEvents /\ KnowBatch
  BY <1>1 DEF StaleInv, Going
<1>3. /\ 1 \in DOMAIN events /\ Head(events) = events[1] /\ Head(events) \in Event
      /\ Len(events) \in Nat /\ Len(events') = Len(events) - 1
      /\ \A i \in DOMAIN events' : /\ i \in Nat /\ i # 0 /\ i + 1 \in DOMAIN events
                                   /\ events'[i] = events[i + 1]
  BY <1>1, StaleFacts, Behead
<1>4. /\ Len(batch) \in Nat /\ Len(batch') = Len(batch) + 1
      /\ \A i \in DOMAIN batch : i \in 1..Len(batch)
      /\ \A i \in DOMAIN batch' : \/ i \in DOMAIN batch /\ batch'[i] = batch[i] /\ i < Len(batch) + 1
                                  \/ i = Len(batch) + 1 /\ batch'[i] = events[1]
  BY <1>1, <1>3, StaleFacts, Appended
<1>5. StaleTypes'
  <2>1. Batch \in Nat /\ EventLimit \in Nat  BY PollsEnough
  <2>2. Len(events) <= EventLimit  BY DEF StaleInv, StaleTypes
  <2>3. Len(events') <= EventLimit /\ Len(batch') <= Batch
    BY <1>1, <1>3, <1>4, <2>1, <2>2
  <2>4. QED  BY <1>1, <2>3 DEF StaleInv, StaleTypes
<1>6. ToldInOrder'
  <2>1. Sorted(events')
    <3>1. SUFFICES ASSUME NEW i \in DOMAIN events', NEW j \in DOMAIN events', i < j,
                          Done(events'[i]), Done(events'[j]), events'[i].c = events'[j].c
                   PROVE  events'[i].n < events'[j].n
      BY DEF Sorted
    <3>2. i + 1 < j + 1  BY <1>3, <3>1
    <3>3. QED  BY <1>2, <1>3, <3>1, <3>2 DEF ToldInOrder, Sorted
  <2>2. Sorted(batch')
    <3>1. SUFFICES ASSUME NEW i \in DOMAIN batch', NEW j \in DOMAIN batch', i < j,
                          Done(batch'[i]), Done(batch'[j]), batch'[i].c = batch'[j].c
                   PROVE  batch'[i].n < batch'[j].n
      BY DEF Sorted
    <3>2. i \in DOMAIN batch /\ batch'[i] = batch[i]  BY <1>4, <3>1
    <3>3. CASE j \in DOMAIN batch /\ batch'[j] = batch[j]
      BY <1>2, <3>1, <3>2, <3>3 DEF ToldInOrder, Sorted
    <3>4. CASE batch'[j] = events[1]
      <4>1. Below(batch, events[1].c, events[1].n)
        BY <1>2, <1>3, <3>1, <3>4 DEF ToldInOrder
      <4>2. QED  BY <3>1, <3>2, <3>4, <4>1 DEF Below
    <3>5. QED  BY <1>4, <3>3, <3>4
  <2>3. \A j \in DOMAIN events' : Done(events'[j]) => Below(batch', events'[j].c, events'[j].n)
    <3>1. SUFFICES ASSUME NEW j \in DOMAIN events', Done(events'[j]), NEW i \in DOMAIN batch',
                          Done(batch'[i]), batch'[i].c = events'[j].c
                   PROVE  batch'[i].n < events'[j].n
      BY DEF Below
    <3>2. j + 1 \in DOMAIN events /\ events'[j] = events[j + 1] /\ 1 < j + 1  BY <1>3
    <3>3. CASE i \in DOMAIN batch /\ batch'[i] = batch[i]
      BY <1>2, <3>1, <3>2, <3>3 DEF ToldInOrder, Below
    <3>4. CASE batch'[i] = events[1]
      BY <1>2, <1>3, <3>1, <3>2, <3>4 DEF ToldInOrder, Sorted
    <3>5. QED  BY <1>4, <3>3, <3>4
  <2>4. worker.at = "confirm" => /\ Below(batch', worker.hand[1], worker.hand[2])
                                 /\ Below(events', worker.hand[1], worker.hand[2])
    BY <1>2, <1>3, <1>4 DEF ToldInOrder, Below
  <2>5. /\ \A i \in DOMAIN batch' : Done(batch'[i]) => batch'[i].n # None
        /\ \A i \in DOMAIN events' : Done(events'[i]) => events'[i].n # None
    BY <1>2, <1>3, <1>4 DEF ToldInOrder
  <2>6. QED  BY <1>1, <2>1, <2>2, <2>3, <2>4, <2>5 DEF ToldInOrder
<1>7. KnowEvents'
  <2>1. SUFFICES ASSUME NEW p \in DOMAIN events', Done(events'[p])
                 PROVE  \E r \in Nat \ {0} : \E n \in Nat :
                          /\ Known(ctl[events'[p].c], events'[p].n, n)
                          /\ n + r <= Bound' /\ Reach(p + Taken', r)
    BY <1>1 DEF KnowEvents, Expected
  <2>2. p + 1 \in DOMAIN events /\ events'[p] = events[p + 1] /\ p \in Nat  BY <1>3
  <2>3. PICK r \in Nat \ {0}, n \in Nat : /\ Known(ctl[events'[p].c], events'[p].n, n)
                                          /\ n + r <= Bound /\ Reach(p + 1 + Taken, r)
    BY <1>2, <2>1, <2>2 DEF KnowEvents, Expected
  <2>4. Bound' = Bound /\ p + Taken' = p + 1 + Taken
    BY <1>1, <1>4, <2>2 DEF Bound, Taken
  <2>5. Reach(p + Taken', r)  BY <2>3, <2>4
  <2>6. QED  BY <2>3, <2>4, <2>5
<1>8. KnowBatch'
  <2>1. SUFFICES ASSUME Done(events[1])
                 PROVE  Known(ctl[events[1].c], events[1].n, Most - 1)
    BY <1>1, <1>2, <1>4 DEF KnowBatch
  <2>2. PICK r \in Nat \ {0}, n \in Nat : /\ Known(ctl[events[1].c], events[1].n, n)
                                          /\ n + r <= Bound
    BY <1>2, <1>3, <2>1 DEF KnowEvents, Expected
  <2>3. n <= Most - 1 /\ Most - 1 \in Nat  BY <2>2, FewLater
  <2>4. Remembering(ctl[events[1].c])  BY <1>3, StaleFacts
  <2>5. QED  BY <2>2, <2>3, <2>4, KnownMore
<1>9. KnowOutbox' /\ KnowInput' /\ KnowHand'
  BY <1>1, <1>2 DEF KnowOutbox, KnowInput, KnowHand, Queued
<1>10. QED  BY <1>5, <1>6, <1>7, <1>8, <1>9 DEF StaleInv

\* A full batch is a poll less to wait for what is left in the channel.
LEMMA PollEndsStale ==
  ASSUME StaleInv, FramesInv', PollEnds
  PROVE  StaleInv'
<1>1. /\ pc = "collect" /\ UNCHANGED <<ctl, outbox, input, events, batch, worker, errors>>
      /\ \/ /\ Len(batch) = Batch \/ events = <<>>
            /\ pc' = "apply" /\ UNCHANGED failure
         \/ pc' = "closing" /\ failure' = "worker ended"
  BY DEF PollEnds, Stops, workerVars
<1>2. StaleTypes'  BY <1>1 DEF StaleInv, StaleTypes
<1>3. ToldInOrder /\ KnowOutbox /\ KnowInput /\ KnowHand /\ KnowEvents /\ KnowBatch
  BY <1>1 DEF StaleInv, Going
<1>4. ToldInOrder' /\ KnowOutbox' /\ KnowInput' /\ KnowHand' /\ KnowBatch'
  BY <1>1, <1>3 DEF ToldInOrder, Sorted, Below, KnowOutbox, KnowInput, KnowHand, KnowBatch, Queued
<1>5. CASE pc' = "apply" /\ Len(batch) = Batch
  <2>1. SUFFICES ASSUME NEW p \in DOMAIN events, Done(events[p])
                 PROVE  \E r \in Nat \ {0} : \E n \in Nat :
                          /\ Known(ctl[events[p].c], events[p].n, n)
                          /\ n + r <= Bound' /\ Reach(p + Taken', r)
    <3>1. SUFFICES KnowEvents'  BY <1>2, <1>4 DEF StaleInv
    <3>2. QED  BY <1>1 DEF KnowEvents, Expected
  <2>2. PICK r \in Nat \ {0}, n \in Nat : /\ Known(ctl[events[p].c], events[p].n, n)
                                          /\ n + r <= Bound /\ Reach(p + Taken, r)
    BY <1>3, <2>1 DEF KnowEvents, Expected
  <2>3. Bound = Most /\ Bound' = Most - 1 /\ Taken = Batch /\ Taken' = 0 /\ Most \in Nat
    BY <1>1, <1>5, PollsEnough DEF Bound, Taken
  <2>4. p \in Nat /\ p # 0  BY StaleFacts
  <2>5. Reach(p + Batch, r)  BY <2>2, <2>3
  <2>6. r - 1 \in Nat \ {0} /\ Reach(p, r - 1)  BY <2>4, <2>5, PollsEnough
  <2>7. n + (r - 1) <= Bound' /\ Reach(p + Taken', r - 1)
    BY <2>2, <2>3, <2>4, <2>6
  <2>8. QED  BY <2>2, <2>6, <2>7
<1>6. CASE pc' = "apply" /\ events = <<>>
  <2>1. DOMAIN events' = {}  BY <1>1, <1>6
  <2>2. KnowEvents'  BY <2>1 DEF KnowEvents
  <2>3. QED  BY <1>2, <1>4, <2>2 DEF StaleInv
<1>7. CASE pc' = "closing"
  BY <1>2, <1>7 DEF StaleInv, Going
<1>8. QED  BY <1>1, <1>5, <1>6, <1>7

\* One more request of each controller is handed over.
LEMMA TakesStale ==
  ASSUME StaleInv, FramesInv', DrainEnds
  PROVE  StaleInv'
<1>1. /\ pc = "drain" /\ pc' = "submit"
      /\ outbox' = {<<c, ctl[c].pending>> : c \in {d \in Controllers :
                      ~ctl[d].dispatched /\ ctl[d].pending # None}}
      /\ ctl' = [c \in Controllers |-> [ctl[c] EXCEPT !.dispatched = TRUE]]
      /\ UNCHANGED <<input, events, batch, worker, errors, failure>>
  BY DEF DrainEnds, TakesTransmissions, workerVars
<1>2. PICK S : ctl \in [Controllers -> Chip(S)]  BY FrameTypes DEF StaleInv
<1>3. \A c \in Controllers :
        /\ ctl'[c].cancelled = ctl[c].cancelled /\ ctl'[c].pending = ctl[c].pending
        /\ ctl'[c].dispatched = TRUE /\ ctl[c].dispatched \in BOOLEAN
  <2>1. \A chip \in Chip(S) :
          LET new == [chip EXCEPT !.dispatched = TRUE]
          IN  /\ new.cancelled = chip.cancelled /\ new.pending = chip.pending
              /\ new.dispatched = TRUE /\ chip.dispatched \in BOOLEAN
    BY DEF Chip
  <2>2. QED  BY <1>1, <1>2, <2>1
<1>4. ToldInOrder /\ KnowInput /\ KnowHand /\ KnowEvents
  BY <1>1 DEF StaleInv, Going
<1>5. \A c \in Controllers : Queued(c) = 0 /\ Live(ctl'[c]) = Live(ctl[c]) + Queued(c)'
  <2>1. \A c \in Controllers : Queued(c) = 0  BY <1>1, NoneQueued DEF Going
  <2>2. ASSUME NEW c \in Controllers PROVE Live(ctl'[c]) = Live(ctl[c]) + Queued(c)'
    <3>1. (\E tx \in outbox' : tx[1] = c) => ~ctl[c].dispatched /\ ctl[c].pending # None
      BY <1>1
    <3>2. ~ctl[c].dispatched /\ ctl[c].pending # None => <<c, ctl[c].pending>> \in outbox'
      BY <1>1
    <3>3. <<c, ctl[c].pending>>[1] = c  OBVIOUS
    <3>4. QED  BY <1>3, <3>1, <3>2, <3>3 DEF Live, Queued
  <2>3. QED  BY <2>1, <2>2
<1>6. ASSUME NEW c \in Controllers, NEW t, NEW n \in Nat, Known(ctl[c], t, n)
      PROVE  Known(ctl'[c], t, n + Queued(c)') /\ n + Queued(c)' \in Nat
             /\ Known(ctl'[c], t, n + 1)
  <2>1. Queued(c)' \in 0..1  BY DEF Queued
  <2>2. Remembering(ctl[c])  BY StaleFacts
  <2>3. CASE Completes(ctl[c], t)
    BY <1>3, <2>1, <2>3 DEF Known, Completes
  <2>4. CASE \E i \in DOMAIN ctl[c].cancelled :
               ctl[c].cancelled[i] = t /\ Len(ctl[c].cancelled) - i + Live(ctl[c]) <= n
    <3>1. PICK i \in DOMAIN ctl[c].cancelled :
            ctl[c].cancelled[i] = t /\ Len(ctl[c].cancelled) - i + Live(ctl[c]) <= n
      BY <2>4
    <3>2. /\ Len(ctl[c].cancelled) \in Nat /\ i \in Nat /\ Live(ctl[c]) \in Nat
      BY <2>2 DEF Remembering, Live
    <3>3. /\ Len(ctl[c].cancelled) - i + Live(ctl'[c]) <= n + Queued(c)'
          /\ Len(ctl[c].cancelled) - i + Live(ctl'[c]) <= n + 1
      BY <1>5, <2>1, <3>1, <3>2
    <3>4. QED  BY <1>3, <2>1, <3>1, <3>3 DEF Known
  <2>5. QED  BY <1>6, <2>3, <2>4 DEF Known
<1>7. StaleTypes'
  BY <1>1, <1>3 DEF StaleInv, StaleTypes
<1>8. KnowOutbox'
  <2>1. SUFFICES ASSUME NEW tx \in outbox' PROVE Known(ctl'[tx[1]], tx[2], 0)
    BY DEF KnowOutbox
  <2>2. tx[1] \in Controllers /\ tx[2] = ctl[tx[1]].pending  BY <1>1
  <2>3. QED  BY <1>3, <2>2 DEF Known, Completes
<1>9. KnowInput'
  <2>1. SUFFICES ASSUME NEW j \in DOMAIN input
                 PROVE  Known(ctl'[input[j][1]], input[j][2],
                              Len(input) - j + Queued(input[j][1])')
    BY <1>1 DEF KnowInput
  <2>2. /\ input[j][1] \in Controllers /\ Len(input) - j \in Nat
        /\ Len(input) - j + 0 = Len(input) - j
    BY StaleFacts
  <2>3. Known(ctl[input[j][1]], input[j][2], Len(input) - j)
    BY <1>4, <1>5, <2>2 DEF KnowInput
  <2>4. PICK n \in Nat : n = Len(input) - j  BY <2>2
  <2>5. Known(ctl'[input[j][1]], input[j][2], Len(input) - j + Queued(input[j][1])')
    <3>1. PICK c \in Controllers : c = input[j][1]  BY <2>2
    <3>2. Known(ctl'[c], input[j][2], n + Queued(c)')  BY <1>6, <2>3, <2>4, <3>1
    <3>3. Queued(c)' = Queued(input[j][1])'  BY <1>1, <3>1 DEF Queued
    <3>4. QED  BY <2>4, <3>1, <3>2, <3>3
  <2>6. QED  BY <2>5
<1>10. KnowHand'
  <2>1. SUFFICES ASSUME worker.at \in {"device", "confirm"}
                 PROVE  Known(ctl'[worker.hand[1]], worker.hand[2],
                              Len(input) + Queued(worker.hand[1])')
    BY <1>1 DEF KnowHand
  <2>2. /\ worker.hand[1] \in Controllers /\ Len(input) \in Nat /\ Len(input) + 0 = Len(input)
    BY <2>1, StaleFacts
  <2>3. Known(ctl[worker.hand[1]], worker.hand[2], Len(input))
    BY <1>4, <1>5, <2>1, <2>2 DEF KnowHand
  <2>4. PICK c \in Controllers : c = worker.hand[1]  BY <2>2
  <2>5. Known(ctl'[c], worker.hand[2], Len(input) + Queued(c)')
    BY <1>6, <2>2, <2>3, <2>4
  <2>6. Queued(c)' = Queued(worker.hand[1])'  BY <1>1, <2>4 DEF Queued
  <2>7. QED  BY <2>4, <2>5, <2>6
<1>11. KnowEvents'
  <2>1. SUFFICES ASSUME NEW p \in DOMAIN events, Done(events[p])
                 PROVE  Expected(ctl[events[p].c], events[p].n, p)'
    BY <1>1 DEF KnowEvents
  <2>2. PICK r \in Nat \ {0}, n \in Nat : /\ Known(ctl[events[p].c], events[p].n, n)
                                          /\ n + r <= Bound /\ Reach(p + Taken, r)
    BY <1>4, <2>1 DEF KnowEvents, Expected
  <2>3. Bound = Most - 1 /\ Bound' = Most /\ Taken = 0 /\ Taken' = 0 /\ Most \in Nat
    BY <1>1, PollsEnough DEF Bound, Taken
  <2>4. (n + 1) + r <= Bound' /\ n + 1 \in Nat /\ Reach(p + Taken', r)  BY <2>2, <2>3
  <2>5. events[p].c \in Controllers  BY StaleFacts
  <2>6. Known(ctl'[events[p].c], events[p].n, n + 1)  BY <1>6, <2>2, <2>5
  <2>7. QED  BY <1>1, <2>4, <2>6 DEF Expected
<1>12. KnowBatch'
  <2>1. batch' = <<>>  BY <1>1 DEF StaleInv, FramesInv
  <2>2. DOMAIN batch' = {}  BY <2>1
  <2>3. QED  BY <2>2 DEF KnowBatch
<1>13. ToldInOrder'
  BY <1>1, <1>4 DEF ToldInOrder
<1>14. QED
  BY <1>7, <1>8, <1>9, <1>10, <1>11, <1>12, <1>13 DEF StaleInv

\* A request enters the command channel, or one of a bus that is not wired is dropped.
LEMMA SubmitStale ==
  ASSUME StaleInv, FramesInv', Submit
  PROVE  StaleInv'
<1>1. PICK tx \in outbox :
        /\ pc = "submit" /\ outbox' = outbox \ {tx}
        /\ UNCHANGED <<ctl, batch, events, errors, worker>>
        /\ \/ tx[1] \notin Wired /\ UNCHANGED <<pc, failure, input>>
           \/ /\ tx[1] \in Wired /\ Len(input) < InputLimit
              /\ input' = Append(input, tx) /\ UNCHANGED <<pc, failure>>
           \/ /\ pc' = "closing" /\ failure' \in {"transmit queue full", "command guard"}
              /\ UNCHANGED input
  BY DEF Submit, Stops, workerVars
<1>2. /\ ToldInOrder /\ KnowOutbox /\ KnowInput /\ KnowHand /\ KnowEvents /\ KnowBatch
      /\ PipeOrder /\ StaleTypes
  BY <1>1 DEF StaleInv, Going, FramesInv, PipeInv
<1>3. tx \in Command /\ tx[1] \in Controllers /\ tx[2] \in Ticket  BY StaleFacts
<1>4. /\ Queued(tx[1]) = 1 /\ Queued(tx[1])' = 0
      /\ \A c : c # tx[1] => Queued(c)' = Queued(c)
  <2>1. \A other \in outbox : other[1] = tx[1] => other = tx  BY <1>2 DEF PipeOrder
  <2>2. Queued(tx[1]) = 1  BY DEF Queued
  <2>3. Queued(tx[1])' = 0
    <3>1. ~ \E other \in outbox' : other[1] = tx[1]  BY <1>1, <2>1
    <3>2. QED  BY <1>1, <3>1 DEF Queued
  <2>4. ASSUME NEW c, c # tx[1] PROVE Queued(c)' = Queued(c)
    <3>1. (\E other \in outbox' : other[1] = c) <=> (\E other \in outbox : other[1] = c)
      BY <1>1, <2>4
    <3>2. QED  BY <3>1 DEF Queued
  <2>5. QED  BY <2>2, <2>3, <2>4
<1>5. CASE pc' = "closing" /\ UNCHANGED input
  <2>1. failure' # "stale completion" \/ UNCHANGED failure  BY <1>1
  <2>2. StaleTypes'  BY <1>1, <1>2, <1>5, <2>1 DEF StaleTypes
  <2>3. QED  BY <1>5, <2>2 DEF StaleInv, Going
<1>6. ASSUME UNCHANGED pc, UNCHANGED failure
      PROVE  ToldInOrder' /\ KnowOutbox' /\ KnowEvents' /\ KnowBatch'
  <2>1. Bound' = Bound /\ Taken' = Taken  BY <1>1, <1>6 DEF Bound, Taken
  <2>2. KnowOutbox'  BY <1>1, <1>2 DEF KnowOutbox
  <2>3. KnowEvents' /\ KnowBatch'
    BY <1>1, <1>2, <2>1 DEF KnowEvents, KnowBatch, Expected
  <2>4. ToldInOrder'  BY <1>1, <1>2 DEF ToldInOrder
  <2>5. QED  BY <2>2, <2>3, <2>4
<1>7. CASE tx[1] \notin Wired /\ UNCHANGED <<pc, failure, input>>
  <2>1. StaleTypes'  BY <1>1, <1>2, <1>7 DEF StaleTypes
  <2>2. \A c \in Wired : Queued(c)' = Queued(c)  BY <1>4, <1>7
  <2>3. KnowInput'
    <3>1. SUFFICES ASSUME NEW j \in DOMAIN input
                   PROVE  Known(ctl[input[j][1]], input[j][2],
                                Len(input) - j + Queued(input[j][1])')
      BY <1>1, <1>7 DEF KnowInput, Queued
    <3>2. PICK c \in Wired : c = input[j][1]  BY <1>2 DEF StaleTypes
    <3>3. Queued(c)' = Queued(input[j][1])'  BY <1>7, <3>2 DEF Queued
    <3>4. Queued(input[j][1])' = Queued(input[j][1])  BY <2>2, <3>2, <3>3
    <3>5. QED  BY <1>2, <3>4 DEF KnowInput
  <2>4. KnowHand'
    <3>1. SUFFICES ASSUME worker.at \in {"device", "confirm"}
                   PROVE  Known(ctl[worker.hand[1]], worker.hand[2],
                                Len(input) + Queued(worker.hand[1])')
      BY <1>1, <1>7 DEF KnowHand, Queued
    <3>2. PICK c \in Wired : c = worker.hand[1]  BY <1>2, <3>1 DEF StaleTypes
    <3>3. Queued(c)' = Queued(worker.hand[1])'  BY <1>1, <3>2 DEF Queued
    <3>4. Queued(worker.hand[1])' = Queued(worker.hand[1])  BY <2>2, <3>2, <3>3
    <3>5. QED  BY <1>2, <3>1, <3>4 DEF KnowHand
  <2>5. QED  BY <1>6, <1>7, <2>1, <2>3, <2>4 DEF StaleInv
<1>8. CASE /\ tx[1] \in Wired /\ Len(input) < InputLimit
           /\ input' = Append(input, tx) /\ UNCHANGED <<pc, failure>>
  <2>1. /\ Len(input) \in Nat /\ Len(input') = Len(input) + 1
        /\ \A j \in DOMAIN input : j \in 1..Len(input)
        /\ \A j \in DOMAIN input' :
              \/ j \in DOMAIN input /\ input'[j] = input[j] /\ j < Len(input) + 1
              \/ j = Len(input) + 1 /\ input'[j] = tx
    BY <1>3, <1>8, StaleFacts, Appended
  <2>2. StaleTypes'
    <3>1. Len(input') <= InputLimit  BY <1>8, <2>1, PollsEnough
    <3>2. \A j \in DOMAIN input' : input'[j][1] \in Wired  BY <1>2, <1>8, <2>1 DEF StaleTypes
    <3>3. QED  BY <1>1, <1>2, <1>8, <3>1, <3>2 DEF StaleTypes
  <2>3. \A c : Queued(c) \in 0..1 /\ Queued(c)' \in 0..1 /\ Queued(c) <= 1 + Queued(c)'
    BY DEF Queued
  <2>4. KnowInput'
    <3>1. SUFFICES ASSUME NEW j \in DOMAIN input'
                   PROVE  Known(ctl[input'[j][1]], input'[j][2],
                                Len(input') - j + Queued(input[j][1])')
      BY <1>1 DEF KnowInput, Queued
    <3>2. CASE j \in DOMAIN input /\ input'[j] = input[j]
      <4>1. PICK c \in Controllers : c = input[j][1]  BY <3>2, StaleFacts
      <4>2. Queued(c)' = Queued(input[j][1])'  BY <3>2, <4>1 DEF Queued
      <4>3. /\ Len(input) - j + Queued(c) \in Nat /\ Len(input') - j + Queued(c)' \in Nat
            /\ Len(input) - j + Queued(c) <= Len(input') - j + Queued(c)'
        BY <2>1, <2>3, <3>2
      <4>4. Known(ctl[c], input[j][2], Len(input) - j + Queued(c))
        BY <1>2, <3>2, <4>1 DEF KnowInput
      <4>5. Known(ctl[c], input[j][2], Len(input') - j + Queued(c)')
        BY <4>3, <4>4, KnownMore, StaleFacts
      <4>6. QED  BY <3>2, <4>1, <4>2, <4>5
    <3>3. CASE j = Len(input) + 1 /\ input'[j] = tx
      <4>1. Queued(input[j][1])' = Queued(tx[1])'  BY <3>3 DEF Queued
      <4>2. Len(input') - j + Queued(tx[1])' = 0  BY <1>4, <2>1, <3>3
      <4>3. Known(ctl[tx[1]], tx[2], 0)  BY <1>2 DEF KnowOutbox
      <4>4. QED  BY <3>3, <4>1, <4>2, <4>3
    <3>4. QED  BY <2>1, <3>2, <3>3
  <2>5. KnowHand'
    <3>1. SUFFICES ASSUME worker.at \in {"device", "confirm"}
                   PROVE  Known(ctl[worker.hand[1]], worker.hand[2],
                                Len(input') + Queued(worker.hand[1])')
      BY <1>1 DEF KnowHand, Queued
    <3>2. PICK c \in Controllers : c = worker.hand[1]  BY <3>1, StaleFacts
    <3>3. Queued(c)' = Queued(worker.hand[1])'  BY <1>1, <3>2 DEF Queued
    <3>4. /\ Len(input) + Queued(c) \in Nat /\ Len(input') + Queued(c)' \in Nat
          /\ Len(input) + Queued(c) <= Len(input') + Queued(c)'
      BY <2>1, <2>3
    <3>5. Known(ctl[c], worker.hand[2], Len(input) + Queued(c))
      BY <1>2, <3>1, <3>2 DEF KnowHand
    <3>6. Known(ctl[c], worker.hand[2], Len(input') + Queued(c)')
      BY <3>4, <3>5, KnownMore, StaleFacts
    <3>7. QED  BY <3>2, <3>3, <3>6
  <2>6. QED  BY <1>6, <1>8, <2>2, <2>4, <2>5 DEF StaleInv
<1>9. QED  BY <1>1, <1>5, <1>7, <1>8

LEMMA WorkerRecord ==
  PipeTypes => \E A, B, H, F : worker \in [at: A, turn: B, hand: H, failed: F]
<1>1. ASSUME PipeTypes
      PROVE  worker \in [at: {"top", "commands", "device", "confirm", "reads", "cleanup",
                              "reported", "dead"},
                         turn: Nat, hand: Command \cup {<<None, None>>}, failed: BOOLEAN]
  BY <1>1 DEF PipeTypes
<1>2. QED  BY <1>1, Zenon

\* The worker takes the oldest request.
LEMMA WorkerTakesStale ==
  ASSUME StaleInv, FramesInv', WorkerTakes
  PROVE  StaleInv'
<1>1. /\ worker.at = "commands" /\ input # <<>> /\ input' = Tail(input)
      /\ worker'.at = "device" /\ worker'.hand = Head(input)
      /\ UNCHANGED <<ctl, pc, outbox, failure, batch, events, errors>>
  <2>1. PipeTypes  BY DEF StaleInv, FramesInv, PipeInv
  <2>2. PICK A, B, H, F : worker \in [at: A, turn: B, hand: H, failed: F]
    BY <2>1, WorkerRecord
  <2>3. QED  BY <2>2 DEF WorkerTakes, WorkerStep, OnlyWorker, linkVars
<1>2. /\ 1 \in DOMAIN input /\ Head(input) = input[1]
      /\ Len(input) \in Nat /\ Len(input') = Len(input) - 1
      /\ \A j \in DOMAIN input' : /\ j \in Nat /\ j # 0 /\ j + 1 \in DOMAIN input
                                  /\ input'[j] = input[j + 1]
  BY <1>1, StaleFacts, Behead
<1>3. StaleTypes'
  <2>1. Len(input') <= InputLimit
    <3>1. InputLimit \in Nat /\ Len(input) <= InputLimit
      BY PollsEnough DEF StaleInv, StaleTypes
    <3>2. QED  BY <1>2, <3>1
  <2>2. /\ \A j \in DOMAIN input' : input'[j][1] \in Wired
        /\ worker'.hand[1] \in Wired
    BY <1>1, <1>2 DEF StaleInv, StaleTypes
  <2>3. QED  BY <1>1, <2>1, <2>2 DEF StaleInv, StaleTypes
<1> SUFFICES ASSUME Going
             PROVE  /\ ToldInOrder' /\ KnowOutbox' /\ KnowInput' /\ KnowHand'
                    /\ KnowEvents' /\ KnowBatch'
  BY <1>1, <1>3 DEF StaleInv, Going
<1>4. ToldInOrder /\ KnowOutbox /\ KnowInput /\ KnowEvents /\ KnowBatch
  BY DEF StaleInv
<1>5. KnowInput'
  <2>1. SUFFICES ASSUME NEW j \in DOMAIN input'
                 PROVE  Known(ctl[input'[j][1]], input'[j][2],
                              Len(input') - j + Queued(input'[j][1]))
    BY <1>1 DEF KnowInput, Queued
  <2>2. /\ j + 1 \in DOMAIN input /\ input'[j] = input[j + 1]
        /\ Len(input') - j = Len(input) - (j + 1)
    BY <1>2
  <2>3. QED  BY <1>4, <2>2 DEF KnowInput
<1>6. KnowHand'
  <2>1. SUFFICES Known(ctl[input[1][1]], input[1][2], Len(input') + Queued(input[1][1]))
    BY <1>1, <1>2 DEF KnowHand, Queued
  <2>2. QED  BY <1>2, <1>4 DEF KnowInput
<1>7. KnowOutbox' /\ KnowEvents' /\ KnowBatch'
  BY <1>1, <1>4 DEF KnowOutbox, KnowEvents, KnowBatch, Expected, Bound, Taken
<1>8. ToldInOrder'
  BY <1>1, <1>4 DEF ToldInOrder
<1>9. QED  BY <1>5, <1>6, <1>7, <1>8

\* What the worker sends is later than what has been told.
LEMMA AcceptsStale ==
  ASSUME StaleInv, FramesInv', DeviceAccepts
  PROVE  StaleInv'
<1>1. /\ worker.at = "device" /\ worker'.at = "confirm" /\ worker'.hand = worker.hand
      /\ UNCHANGED <<ctl, pc, outbox, failure, batch, input, events, errors>>
  <2>1. PipeTypes  BY DEF StaleInv, FramesInv, PipeInv
  <2>2. PICK A, B, H, F : worker \in [at: A, turn: B, hand: H, failed: F]
    BY <2>1, WorkerRecord
  <2>3. QED  BY <2>2 DEF DeviceAccepts, WorkerStep, OnlyWorker, linkVars
<1>2. StaleTypes'
  BY <1>1 DEF StaleInv, StaleTypes
<1> SUFFICES ASSUME Going
             PROVE  /\ ToldInOrder' /\ KnowOutbox' /\ KnowInput' /\ KnowHand'
                    /\ KnowEvents' /\ KnowBatch'
  BY <1>1, <1>2 DEF StaleInv, Going
<1>3. /\ ToldInOrder /\ KnowOutbox /\ KnowInput /\ KnowHand /\ KnowEvents /\ KnowBatch
      /\ PipeOrder /\ PipeTruth
  BY DEF StaleInv, FramesInv, PipeInv
<1>4. \A list : AllCarried(list) => Below(list, worker.hand[1], worker.hand[2])
  BY <1>1, <1>3 DEF AllCarried, Carried, PipeOrder, Below, Done
<1>5. /\ Below(batch, worker.hand[1], worker.hand[2])
      /\ Below(events, worker.hand[1], worker.hand[2])
  BY <1>3, <1>4 DEF PipeTruth
<1>6. ToldInOrder'
  BY <1>1, <1>3, <1>5 DEF ToldInOrder
<1>7. KnowOutbox' /\ KnowInput' /\ KnowHand' /\ KnowEvents' /\ KnowBatch'
  BY <1>1, <1>3 DEF KnowOutbox, KnowInput, KnowHand, KnowEvents, KnowBatch, Expected, Queued,
                    Bound, Taken
<1>8. QED  BY <1>6, <1>7

\* The completion of a request goes into the event channel: the polls that empty it come
\* before the requests that would push its ticket out of the ring.
LEMMA ConfirmStale ==
  ASSUME StaleInv, FramesInv', WorkerConfirms, Free(1)
  PROVE  StaleInv'
<1> DEFINE c == worker.hand[1]
           k == worker.hand[2]
           e == [kind |-> "completed", c |-> c, n |-> k]
<1>1. /\ worker.at = "confirm" /\ worker'.at = "commands" /\ worker'.hand = worker.hand
      /\ events' = Append(events, e)
      /\ UNCHANGED <<ctl, pc, outbox, failure, batch, input, errors>>
  <2>1. PipeTypes  BY DEF StaleInv, FramesInv, PipeInv
  <2>2. PICK A, B, H, F : worker \in [at: A, turn: B, hand: H, failed: F]
    BY <2>1, WorkerRecord
  <2>3. QED  BY <2>2 DEF WorkerConfirms, WorkerStep, OnlyWorker, linkVars
<1>2. c \in Controllers /\ k \in Ticket /\ e \in Event
  <2>1. c \in Controllers /\ k \in Ticket  BY <1>1, StaleFacts
  <2>2. QED  BY <2>1 DEF Event, Ticket
<1>3. e.c = c /\ e.n = k /\ Done(e) /\ k # None
  BY <1>2 DEF Done, Ticket
<1> HIDE DEF e
<1>4. /\ Len(events) \in Nat /\ Len(events') = Len(events) + 1
      /\ \A p \in DOMAIN events : p \in 1..Len(events)
      /\ \A p \in DOMAIN events' :
           \/ p \in DOMAIN events /\ events'[p] = events[p] /\ p < Len(events) + 1
           \/ p = Len(events) + 1 /\ events'[p] = e
  BY <1>1, <1>2, StaleFacts, Appended
<1>5. Len(events') <= EventLimit  BY <1>1, <1>4 DEF Free
<1>6. StaleTypes'
  BY <1>1, <1>5 DEF StaleInv, StaleTypes
<1> SUFFICES ASSUME Going
             PROVE  /\ ToldInOrder' /\ KnowOutbox' /\ KnowInput' /\ KnowHand'
                    /\ KnowEvents' /\ KnowBatch'
  BY <1>1, <1>6 DEF StaleInv, Going
<1>7. /\ ToldInOrder /\ KnowOutbox /\ KnowInput /\ KnowHand /\ KnowEvents /\ KnowBatch
  BY DEF StaleInv
<1>8. Below(batch, c, k) /\ Below(events, c, k)  BY <1>1, <1>7 DEF ToldInOrder
<1>9. ToldInOrder'
  <2>1. Sorted(events')
    <3>1. SUFFICES ASSUME NEW i \in DOMAIN events', NEW j \in DOMAIN events', i < j,
                          Done(events'[i]), Done(events'[j]), events'[i].c = events'[j].c
                   PROVE  events'[i].n < events'[j].n
      BY DEF Sorted
    <3>2. i \in DOMAIN events /\ events'[i] = events[i]  BY <1>4, <3>1
    <3>3. CASE j \in DOMAIN events /\ events'[j] = events[j]
      BY <1>7, <3>1, <3>2, <3>3 DEF ToldInOrder, Sorted
    <3>4. CASE events'[j] = e
      BY <1>3, <1>8, <3>1, <3>2, <3>4 DEF Below
    <3>5. QED  BY <1>4, <3>3, <3>4
  <2>2. \A j \in DOMAIN events' : Done(events'[j]) => Below(batch, events'[j].c, events'[j].n)
    BY <1>3, <1>4, <1>7, <1>8 DEF ToldInOrder
  <2>3. \A j \in DOMAIN events' : Done(events'[j]) => events'[j].n # None
    BY <1>3, <1>4, <1>7 DEF ToldInOrder
  <2>4. QED  BY <1>1, <1>7, <2>1, <2>2, <2>3 DEF ToldInOrder
<1>10. KnowOutbox' /\ KnowInput' /\ KnowHand' /\ KnowBatch'
  BY <1>1, <1>7 DEF KnowOutbox, KnowInput, KnowHand, KnowBatch, Queued
<1>11. Bound' = Bound /\ Taken' = Taken  BY <1>1 DEF Bound, Taken
<1>12. Expected(ctl[c], k, Len(events) + 1)
  <2> DEFINE n == Len(input) + Queued(c)
  <2>1. Known(ctl[c], k, n)  BY <1>1, <1>7 DEF KnowHand
  <2>2. /\ n \in Nat /\ n <= InputLimit + 1
        /\ InputLimit \in Nat /\ Polls \in Nat \ {0} /\ Len(events) + 1 \in Nat
        /\ Len(events) + 1 <= EventLimit
    <3>1. n \in Nat /\ n <= InputLimit + 1  BY FewLater
    <3>2. InputLimit \in Nat /\ Polls \in Nat \ {0}  BY PollsEnough
    <3>3. Len(events) + 1 \in Nat /\ Len(events) + 1 <= EventLimit  BY <1>4, <1>5
    <3>4. QED  BY <3>1, <3>2, <3>3
  <2>3. pc # "submit" => n <= InputLimit
    <3>1. pc # "submit" => Queued(c) = 0  BY NoneQueued
    <3>2. Len(input) \in Nat /\ Len(input) <= InputLimit
      BY StaleFacts DEF StaleInv, StaleTypes
    <3>3. QED  BY <2>2, <3>1, <3>2
  <2> HIDE DEF n
  <2>4. CASE pc = "collect"
    <3>1. Taken = Len(batch) /\ Len(batch) \in Nat /\ Len(batch) <= Batch
      BY <2>4, StaleFacts DEF Taken, StaleInv, StaleTypes
    <3>2. Reach(Len(events) + 1 + Taken, Polls + 1)  BY <2>2, <3>1, PollsEnough
    <3>3. n + (Polls + 1) <= Bound /\ Polls + 1 \in Nat \ {0}
      BY <2>2, <2>3, <2>4 DEF Bound, Most
    <3>4. QED  BY <2>1, <2>2, <3>2, <3>3 DEF Expected
  <2>5. CASE pc # "collect"
    <3>1. Taken = 0 /\ Len(events) + 1 + 0 = Len(events) + 1  BY <1>4, <2>5 DEF Taken
    <3>2. Reach(Len(events) + 1 + Taken, Polls)  BY <2>2, <3>1, PollsEnough
    <3>3. n + Polls <= Bound
      BY <2>2, <2>3 DEF Bound, Most
    <3>4. QED  BY <2>1, <2>2, <3>2, <3>3 DEF Expected
  <2>6. QED  BY <2>4, <2>5
<1>13. KnowEvents'
  <2>1. SUFFICES ASSUME NEW p \in DOMAIN events', Done(events'[p])
                 PROVE  Expected(ctl[events'[p].c], events'[p].n, p)
    BY <1>1, <1>11 DEF KnowEvents, Expected
  <2>2. CASE p \in DOMAIN events /\ events'[p] = events[p]
    BY <1>7, <2>1, <2>2 DEF KnowEvents
  <2>3. CASE p = Len(events) + 1 /\ events'[p] = e
    BY <1>3, <1>12, <2>3
  <2>4. QED  BY <1>4, <2>2, <2>3
<1>14. QED  BY <1>9, <1>10, <1>13

\* A frame goes into the event channel.
LEMMA ReceiveStale ==
  ASSUME StaleInv, FramesInv', NEW c \in Wired, WorkerReceives(c), Free(1)
  PROVE  StaleInv'
<1> DEFINE e == [kind |-> "received", c |-> c, n |-> arrived[c] + 1]
<1>1. /\ events' = Append(events, e)
      /\ UNCHANGED <<ctl, pc, outbox, failure, batch, input, errors, worker>>
  BY DEF WorkerReceives, WorkerStep, OnlyWorker, linkVars
<1>2. e \in Event /\ ~Done(e)
  <2>1. c \in Controllers /\ arrived[c] \in Nat
    BY CanLinkAssumption DEF StaleInv, FramesInv, PipeInv, PipeTypes
  <2>2. QED  BY <2>1 DEF Event, Done
<1> HIDE DEF e
<1>3. /\ Len(events) \in Nat /\ Len(events') = Len(events) + 1
      /\ \A p \in DOMAIN events : p \in 1..Len(events)
      /\ \A p \in DOMAIN events' :
           \/ p \in DOMAIN events /\ events'[p] = events[p] /\ p < Len(events) + 1
           \/ p = Len(events) + 1 /\ events'[p] = e
  BY <1>1, <1>2, StaleFacts, Appended
<1>4. Len(events') <= EventLimit  BY <1>1, <1>3 DEF Free
<1>5. StaleTypes'
  BY <1>1, <1>4 DEF StaleInv, StaleTypes
<1>6. \A p \in DOMAIN events' : Done(events'[p]) => p \in DOMAIN events /\ events'[p] = events[p]
  BY <1>2, <1>3
<1> SUFFICES ASSUME Going
             PROVE  /\ ToldInOrder' /\ KnowOutbox' /\ KnowInput' /\ KnowHand'
                    /\ KnowEvents' /\ KnowBatch'
  BY <1>1, <1>5 DEF StaleInv, Going
<1>7. /\ ToldInOrder /\ KnowOutbox /\ KnowInput /\ KnowHand /\ KnowEvents /\ KnowBatch
  BY DEF StaleInv
<1>8. ToldInOrder'
  <2>1. Sorted(events')  BY <1>6, <1>7 DEF ToldInOrder, Sorted
  <2>2. \A d, n : Below(events, d, n) => Below(events', d, n)  BY <1>6 DEF Below
  <2>3. QED  BY <1>1, <1>6, <1>7, <2>1, <2>2 DEF ToldInOrder
<1>9. KnowEvents'
  <2>1. Bound' = Bound /\ Taken' = Taken  BY <1>1 DEF Bound, Taken
  <2>2. QED  BY <1>1, <1>6, <1>7, <2>1 DEF KnowEvents, Expected
<1>10. KnowOutbox' /\ KnowInput' /\ KnowHand' /\ KnowBatch'
  BY <1>1, <1>7 DEF KnowOutbox, KnowInput, KnowHand, KnowBatch, Queued
<1>11. QED  BY <1>8, <1>9, <1>10

\* Nothing that matters to the completions moves.
LEMMA LinkStale ==
  ASSUME StaleInv, FramesInv',
         FirmwareFault \/ SerialFailure \/ DropLink \/ PollErrors \/ ApplyEnds \/ PollReturns
         \/ Joined \/ \E c \in Controllers : Drain(c) \/ DrainFails(c)
  PROVE  StaleInv'
<1>1. /\ UNCHANGED <<outbox, input, events, worker>>
      /\ failure' \in {failure, "cpu", "serial", "receive mode"}
           \/ failure' = errors
      /\ errors' \in {errors, "none"}
      /\ pc' = "collect" => pc = "cpu" /\ batch' = <<>>
  BY DEF FirmwareFault, SerialFailure, DropLink, PollErrors, ApplyEnds, PollReturns, Joined,
         Drain, DrainFails, Stops, workerVars, linkVars, Firmware
<1>2. UNCHANGED batch
  BY DEF FirmwareFault, SerialFailure, DropLink, PollErrors, ApplyEnds, PollReturns, Joined,
         Drain, DrainFails, linkVars, StaleInv, FramesInv
<1>3. \A c \in Controllers : SameTickets(ctl'[c], ctl[c])
  <2>1. CASE UNCHANGED ctl  BY <2>1 DEF SameTickets
  <2>2. CASE \E c \in Controllers : Drain(c)
    <3>1. PICK c \in Controllers : Drain(c)  BY <2>2
    <3>2. PICK S : ctl \in [Controllers -> Chip(S)]  BY FrameTypes DEF StaleInv
    <3>3. \A chip \in Chip(S) : \A v :
            /\ SameTickets([chip EXCEPT !.fifo = v], chip)
            /\ SameTickets([chip EXCEPT !.overrun = v], chip)
      BY DEF Chip, SameTickets
    <3>4. PICK v : ctl' \in {ctl, [ctl EXCEPT ![c] = [ctl[c] EXCEPT !.fifo = v]],
                             [ctl EXCEPT ![c] = [ctl[c] EXCEPT !.overrun = v]]}
      <4>1. \/ ctl' = ctl
            \/ ctl' = [ctl EXCEPT ![c] = [ctl[c] EXCEPT !.fifo = Append(@, Head(staging[c]))]]
            \/ ctl' = [ctl EXCEPT ![c] = [ctl[c] EXCEPT !.overrun = TRUE]]
        BY <3>1, <3>2 DEF Drain
      <4>2. QED  BY <4>1
    <3>5. SameTickets(ctl[c], ctl[c])  BY DEF SameTickets
    <3>6. SameTickets(ctl'[c], ctl[c])
      <4>1. PICK chip \in Chip(S) : chip = ctl[c]  BY <3>2
      <4>2. ctl'[c] \in {chip, [chip EXCEPT !.fifo = v], [chip EXCEPT !.overrun = v]}
        BY <3>2, <3>4, <4>1
      <4>3. SameTickets(ctl'[c], chip)  BY <3>3, <3>5, <4>1, <4>2
      <4>4. QED  BY <4>1, <4>3
    <3>7. \A d \in Controllers : d # c => ctl'[d] = ctl[d]  BY <3>2, <3>4
    <3>8. QED  BY <3>6, <3>7 DEF SameTickets
  <2>3. QED
    BY <2>1, <2>2 DEF FirmwareFault, SerialFailure, DropLink, PollErrors, ApplyEnds, PollReturns,
                      Joined, DrainFails
<1>4. StaleTypes'
  <2>1. StaleTypes /\ Batch \in Nat  BY PollsEnough DEF StaleInv
  <2>2. failure' # "stale completion" /\ errors' # "stale completion"
    BY <1>1, <2>1 DEF StaleTypes
  <2>3. pc' = "collect" => Len(batch') <= Batch
    <3>1. SUFFICES ASSUME batch' = <<>> PROVE Len(batch') <= Batch
      BY <1>1
    <3>2. Len(batch') = 0  BY <3>1
    <3>3. QED  BY <2>1, <3>2
  <2>4. \A c \in Controllers : ctl'[c].cancelled \in Seq(Nat)
    BY <1>3, <2>1 DEF StaleTypes, SameTickets
  <2>5. QED  BY <1>1, <2>1, <2>2, <2>3, <2>4 DEF StaleTypes
<1>5. \A c \in Controllers : \A t \in Ticket : \A n \in Nat :
        Known(ctl[c], t, n) => Known(ctl'[c], t, n)
  BY <1>3, KnownSame
<1>6. Going' => Going /\ Bound' = Bound /\ Taken' = Taken
  <2>1. SUFFICES ASSUME Going' PROVE Going /\ Bound' = Bound /\ Taken' = Taken
    OBVIOUS
  <2>2. \/ UNCHANGED pc /\ pc # "collect"
        \/ pc = "cpu" /\ pc' = "collect"
        \/ pc = "apply" /\ pc' = "drain"
        \/ pc = "submit" /\ pc' = "cpu"
    <3>1. CASE FirmwareFault \/ SerialFailure \/ DropLink \/ Joined
                 \/ \E c \in Controllers : DrainFails(c)
      BY <2>1, <3>1 DEF FirmwareFault, SerialFailure, DropLink, Joined, DrainFails, Stops, Going
    <3>2. CASE PollErrors  BY <2>1, <3>2 DEF PollErrors, Stops, Going
    <3>3. CASE ApplyEnds \/ PollReturns  BY <3>3 DEF ApplyEnds, PollReturns
    <3>4. CASE \E c \in Controllers : Drain(c)  BY <3>4 DEF Drain, linkVars
    <3>5. QED  BY <3>1, <3>2, <3>3, <3>4
  <2>3. pc' = "collect" => Len(batch') = 0
    <3>1. Len(<<>>) = 0  OBVIOUS
    <3>2. QED  BY <1>1, <3>1
  <2>4. QED  BY <2>1, <2>2, <2>3 DEF Going, Bound, Taken
<1>7. QED  BY <1>1, <1>2, <1>4, <1>5, <1>6, StaleSame

LEMMA WorkerStale ==
  ASSUME StaleInv, FramesInv',
         \/ WorkerLoop \/ WorkerTurns \/ WorkerReturns \/ WorkerReports \/ WorkerEnds
         \/ DeviceFails
         \/ ~Free(1) /\ (WorkerConfirms \/ \E c \in Wired : WorkerReceives(c))
  PROVE  StaleInv'
<1>1. /\ UNCHANGED <<ctl, pc, batch, outbox, failure, input, events>>
      /\ errors' \in {errors, "worker failed", "cleanup incomplete"}
  BY DEF WorkerLoop, WorkerTurns, WorkerReturns, WorkerReports, WorkerEnds, DeviceFails,
         WorkerConfirms, WorkerReceives, OnlyWorker, linkVars
<1>2. worker'.at \notin {"device", "confirm"}
  <2>1. PipeTypes  BY DEF StaleInv, FramesInv, PipeInv
  <2>2. PICK A, B, H, F : worker \in [at: A, turn: B, hand: H, failed: F]
    BY <2>1, WorkerRecord
  <2>3. QED
    BY <2>2 DEF WorkerLoop, WorkerTurns, WorkerReturns, WorkerReports, WorkerEnds, DeviceFails,
                WorkerConfirms, WorkerReceives, WorkerStep
<1>3. StaleTypes'
  BY <1>1, <1>2 DEF StaleInv, StaleTypes
<1>4. Going' => Going /\ Bound' = Bound /\ Taken' = Taken
  BY <1>1 DEF Going, Bound, Taken
<1>5. \A c \in Controllers : \A t \in Ticket : \A n \in Nat :
        Known(ctl[c], t, n) => Known(ctl'[c], t, n)
  BY <1>1
<1>6. QED  BY <1>1, <1>2, <1>3, <1>4, <1>5, StaleSame

LEMMA StaleStep == StaleInv /\ FramesInv' /\ [Next]_vars => StaleInv'
<1> SUFFICES ASSUME StaleInv, FramesInv', [Next]_vars PROVE StaleInv'
  OBVIOUS
<1>1. CASE UNCHANGED vars
  <2>1. UNCHANGED <<ctl, pc, outbox, input, events, batch, worker, failure, errors>>
    BY <1>1 DEF vars, linkVars, workerVars
  <2>2. StaleTypes'  BY <2>1 DEF StaleInv, StaleTypes
  <2>3. Going' => Going /\ Bound' = Bound /\ Taken' = Taken
    BY <2>1 DEF Going, Bound, Taken
  <2>4. QED  BY <2>1, <2>2, <2>3, StaleSame
<1>2. CASE Slice
  BY <1>2, FirmwareStale
<1>3. CASE Poll
  BY <1>3, PollEventStale, PollEndsStale, CompletionStale, ApplyFrameStale, TakesStale,
     SubmitStale, LinkStale DEF Poll
<1>4. CASE Ending
  BY <1>4, LinkStale DEF Ending
<1>5. CASE Worker \/ Device
  BY <1>5, WorkerStale, WorkerTakesStale, AcceptsStale, ConfirmStale, ReceiveStale
     DEF Worker, Device
<1>6. QED  BY <1>1, <1>2, <1>3, <1>4, <1>5 DEF Next, Stopped

-----------------------------------------------------------------------------
(***************************************************************************)
(* The theorems.                                                           *)
(***************************************************************************)
\* The two starts: out of reset, and in operation.
Starts == Init \/ Attached(Operating)

LEMMA StartsWith ==
  ASSUME Starts
  PROVE  /\ pc = "cpu" /\ batch = <<>> /\ outbox = {} /\ input = <<>> /\ events = <<>>
         /\ failure = "none" /\ errors = "none"
         /\ staging = [c \in Controllers |-> <<>>]
         /\ worker = [at |-> "top", turn |-> 0, hand |-> <<None, None>>, failed |-> FALSE]
         /\ arrived = [c \in Controllers |-> 0] /\ wire = [c \in Controllers |-> <<>>]
         /\ \E S : ctl \in [Controllers -> Chip(S)]
         /\ \A c \in Controllers :
              /\ ctl[c].next = 1 /\ ctl[c].pending = None /\ ctl[c].done = None
              /\ ctl[c].fifo = <<>> /\ ctl[c].cancelled = <<>> /\ Steady(ctl[c])
<1>1. PICK chip : /\ chip = Controller \/ chip = [Controller EXCEPT !.mode = "on", !.rxIrq = TRUE]
                  /\ Attached([c \in Controllers |-> chip])
  BY DEF Starts, Init, Operating
<1>2. chip \in Chip({"reset", "on", FALSE, TRUE, <<>>})
  <2>1. Controller \in Chip({"reset", "on", FALSE, TRUE, <<>>})
    BY DEF Controller, Chip, Ticket, None
  <2>2. [Controller EXCEPT !.mode = "on", !.rxIrq = TRUE]
          \in Chip({"reset", "on", FALSE, TRUE, <<>>})
    BY <2>1 DEF Chip
  <2>3. QED  BY <1>1, <2>1, <2>2
<1>3. /\ chip.next = 1 /\ chip.pending = None /\ chip.done = None
      /\ chip.fifo = <<>> /\ chip.cancelled = <<>> /\ Steady(chip)
  <2>1. CASE chip = Controller  BY <2>1 DEF Controller, None, Steady, Receives
  <2>2. CASE chip = [Controller EXCEPT !.mode = "on", !.rxIrq = TRUE]
    BY <2>2 DEF Controller, None, Steady, Receives
  <2>3. QED  BY <1>1, <2>1, <2>2
<1>4. ctl = [c \in Controllers |-> chip]  BY <1>1 DEF Attached
<1>5. ctl \in [Controllers -> Chip({"reset", "on", FALSE, TRUE, <<>>})]  BY <1>2, <1>4
<1>6. QED  BY <1>1, <1>3, <1>4, <1>5 DEF Attached

LEMMA PipeStarts == Starts => PipeInv /\ Promise!Init
<1> SUFFICES ASSUME Starts PROVE PipeInv /\ Promise!Init
  OBVIOUS
<1>1. PipeTypes
  <2>1. \E S : ctl \in [Controllers -> Chip(S)]  BY StartsWith
  <2>2. worker = [at |-> "top", turn |-> 0, hand |-> <<None, None>>, failed |-> FALSE]
    BY StartsWith
  <2>3. /\ outbox = {} /\ input = <<>> /\ events = <<>> /\ batch = <<>>
        /\ wire = [c \in Controllers |-> <<>>] /\ arrived = [c \in Controllers |-> 0]
    BY StartsWith
  <2>4. \A S : <<>> \in Seq(S)  OBVIOUS
  <2>5. /\ wire \in [Controllers -> Seq(Ticket)] /\ arrived \in [Controllers -> Nat]
        /\ outbox \subseteq Command
    BY <2>3, <2>4
  <2>6. /\ worker \in [at: {"top", "commands", "device", "confirm", "reads", "cleanup",
                            "reported", "dead"},
                       turn: Nat, hand: Command \cup {<<None, None>>}, failed: BOOLEAN]
        /\ worker.at = "top"
    BY <2>2
  <2>7. QED  BY <2>1, <2>3, <2>4, <2>5, <2>6 DEF PipeTypes
<1>2. PipeOrder
  BY StartsWith DEF PipeOrder, Ahead, Before, None
<1>3. PipeTruth
  BY StartsWith DEF PipeTruth, AllCarried
<1>4. Promise!Init
  BY StartsWith DEF Promise!Init, None
<1>5. QED  BY <1>1, <1>2, <1>3, <1>4 DEF PipeInv

LEMMA FramesStart == Starts => FramesInv
<1> SUFFICES ASSUME Starts PROVE FramesInv
  OBVIOUS
<1>1. \A c \in Wired : c \in Controllers /\ arrived[c] = 0
  BY StartsWith, CanLinkAssumption
<1>2. ASSUME NEW c \in Wired PROVE Path(c, 0, 0, 0, 0)
  <2>1. Run(0, 0) = <<>> /\ Carries(<<>>, c, 0, 0)  BY RunSteps, CarriesNone
  <2>2. Holds(<<>>, 0)
    <3>1. DOMAIN <<>> = {}  OBVIOUS
    <3>2. QED  BY <2>1, <3>1 DEF Holds
  <2>3. QED  BY <1>1, <2>1, <2>2, StartsWith DEF Path
<1>3. \A c \in Wired : InOrder(c)
  BY <1>1, <1>2 DEF InOrder, Path
<1>4. staging \in [Controllers -> Seq(Nat)] /\ \A c \in Controllers : ctl[c].fifo \in Seq(Nat)
  <2>1. <<>> \in Seq(Nat)  OBVIOUS
  <2>2. QED  BY <2>1, StartsWith
<1>5. QED  BY <1>3, <1>4, PipeStarts, StartsWith DEF FramesInv, FramesInOrder

LEMMA StaleStart == Starts => StaleInv
<1> SUFFICES ASSUME Starts PROVE StaleInv
  OBVIOUS
<1>1. Len(<<>>) = 0 /\ <<>> \in Seq(Nat) /\ DOMAIN <<>> = {}  OBVIOUS
<1>2. StaleTypes
  <2>1. \A c \in Controllers : ctl[c].cancelled \in Seq(Nat)
    <3>1. \A c \in Controllers : ctl[c].cancelled = <<>>  BY StartsWith
    <3>2. QED  BY <1>1, <3>1
  <2>2. input = <<>> /\ events = <<>> /\ worker.at = "top" /\ pc = "cpu"
        /\ failure = "none" /\ errors = "none"
    BY StartsWith
  <2>3. InputLimit \in Nat /\ EventLimit \in Nat  BY PollsEnough
  <2>4. Len(input) = 0 /\ Len(events) = 0 /\ DOMAIN input = {}  BY <1>1, <2>2
  <2>5. QED  BY <2>1, <2>2, <2>3, <2>4 DEF StaleTypes
<1>3. ToldInOrder
  BY <1>1, StartsWith DEF ToldInOrder, Sorted
<1>4. KnowOutbox /\ KnowInput /\ KnowHand /\ KnowEvents /\ KnowBatch
  BY <1>1, StartsWith DEF KnowOutbox, KnowInput, KnowHand, KnowEvents, KnowBatch
<1>5. QED  BY <1>2, <1>3, <1>4, FramesStart DEF StaleInv

\* Tickets move one way and in order, and what is reported as sent is on the wire.
THEOREM CanLinkInvariant == (Spec => []PipeInv) /\ (OperatingSpec => []PipeInv)
<1>1. Starts /\ [][Next]_vars => []PipeInv  BY PipeStarts, StepSafe, PTL
<1>2. QED  BY <1>1, PTL DEF Spec, OperatingSpec, Starts

\* The firmware is told only of the request it still wants, and only when the bus
\* has carried it; the bus carries each request at most once and in order.
THEOREM CanLinkKeepsPromise == (Spec => KeepsPromise) /\ (OperatingSpec => KeepsPromise)
<1>1. Starts /\ [][Next]_vars => [][Promise!Next]_(Promise!vars)
  BY PipeStarts, StepSafe, PTL DEF Promised
<1>2. Starts => Promise!Init  BY PipeStarts
<1>3. QED  BY <1>1, <1>2, PTL DEF Spec, OperatingSpec, Starts, KeepsPromise, Promise!Spec

\* While the link runs, the frames of a bus stay in order and none is missing between
\* the adapter and the controller, however the batches (`poll`), the shared staging and
\* the deferred FIFOs (`drain_staged_can_receives`) delay them, and no bus holds another
\* back.
THEOREM FramesKeptInOrder ==
  (Spec => []FramesInOrder) /\ (OperatingSpec => []FramesInOrder)
<1>1. Starts /\ [][Next]_vars => []FramesInv
  <2>1. FramesInv => PipeInv  BY DEF FramesInv
  <2>2. QED  BY <2>1, FramesStart, FramesStep, StepSafe, PTL
<1>2. FramesInv => FramesInOrder  BY DEF FramesInv
<1>3. QED  BY <1>1, <1>2, PTL DEF Spec, OperatingSpec, Starts

\* A completion that comes after its request was withdrawn (`cancel_pending`) is always
\* recognised (`complete`): the ring still has its ticket, for all capacities under which
\* it is as large as RingAssumption asks.
THEOREM LateCompletionsKnown ==
  (Spec => []NoStaleCompletion) /\ (OperatingSpec => []NoStaleCompletion)
<1>1. Starts /\ [][Next]_vars => []StaleInv
  <2>1. FramesInv => PipeInv  BY DEF FramesInv
  <2>2. StaleInv => FramesInv  BY DEF StaleInv
  <2>3. QED  BY <2>1, <2>2, StaleStart, StaleStep, FramesStep, StepSafe, PTL
<1>2. StaleInv => NoStaleCompletion  BY DEF StaleInv, StaleTypes, NoStaleCompletion
<1>3. QED  BY <1>1, <1>2, PTL DEF Spec, OperatingSpec, Starts
=============================================================================
