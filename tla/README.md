# OpenSAAB T2: TLA+ verification project

This directory models the concurrent core of the Tech2 emulator in
`core-recovered/emulator` and the threads of the Android application around it:
the kernel of the guest, the path of a CAN frame to four kinds of adapter, and
the handoffs of bytes, packets, frames, keys and configuration files. The
specifications are in TLA+. TLC checks them on small instances and TLAPS proves
the most important results for every value of the constants. Paths below are
relative to `src/core-recovered/emulator/src/` unless they say otherwise.

## 1. The system

The emulator runs the original Tech2 firmware (a 68332) and the original
firmware of the CANdi interface (a CPU32 with three SJA1000 CAN controllers). It
connects the controllers to a real USB or Bluetooth adapter. Almost everything
runs on one *emulation thread*: `Machine::step_guest` (`guest.rs`) executes one
Tech2 instruction after another, and each `NativeLink::advance` runs a slice of
128 CANdi instructions. Adapters have *worker threads* that talk to the device and
to the emulation thread through bounded channels. The Android app adds threads for
keys, receive pumps and sessions.

| Component | State it keeps | Operations | Talks to | Hard because | Correct when |
|---|---|---|---|---|---|
| pSOS kernel bridge (`psos.rs`, `guest.rs`) | task table, CPU registers, semaphores, queues, timers, regions, clock | 40 services behind TRAP #11, TRAP #13, host tick | guest code, SR, interrupt handlers | tasks interleave at every instruction; handlers wake tasks; time-outs race deliveries; tasks delete, restart and suspend each other | the CPU runs the right task; every wait ends exactly once; messages and units are conserved |
| SJA1000 controllers (`candi/sja1000.rs`) | pending TX, dispatched flag, cancelled tickets, FIFO | register reads and writes, take, complete, receive | CANdi CPU, native link | a completion arrives after the guest aborted or reset | a completion never completes a newer request; a late one is recognised |
| Native CANdi link (`candi/native_link.rs`, `can_adapter.rs`) | staged frames, stop flag, last TX, failure | `poll_bridge`, `advance` | controllers, adapter backend, UART | batches, deferral, partial failure | frames in order per bus; a failure stops the link and closes the backend |
| Chipsoft backend (`adapters/chipsoft/backend.rs`) | worker, command, event and error channels | poll, transmit, close; worker loop | native link, USB | two threads, bounded queues, error reporting | each request sent at most once and confirmed in order; no deadlock at close |
| VCX Nano backend (`adapters/vcx_nano`) | TX ledger with write deadline, command gate | as above | native link, USB | unknown outcome of a late write | a late confirmation is not credited to a newer write |
| J2534 bridge and MDI server (`adapters/j2534/bridge.rs`, `adapters/mdi/server.rs`, `raw.rs`, `polling.rs`) | one request per bus with deadline, last tickets; in the server tickets, active periodic reads | transmit, poll, close; server loop, session transmit, receive, close | native link, a second process, vendor driver | a link of threads, socket and pipe that breaks anywhere; writes with unknown outcome; either process crashes | nothing written twice, the firmware told the truth, no periodic read left running |
| Serial receive buffer (`adapters/common/serial_rx.rs`, `adapters/chipsoft/serial_windows.rs`) | ring, sticky error | reader thread, `read`, close | serial worker | overflow between and during reads; the join | a FIFO prefix that ends in one error |
| USB receive pump (`src/android/shared/.../ReceivePump.java`, `NanoProbeActivity.java`) | queue, health, the outstanding USB request | worker loop, poll, stop, join | USB device, session | a wait that times out leaves the request queued; overflow; clean-up against the release of the interface | no packet lost silently, nothing outstanding at the end |
| Display observer (`src/android/shared/.../NativeLcdPump.java`) | directory, generation, stamp, waiting frame, posts | file event, timer, poll, presentation, `setDirectory`, close | native program, main thread | three threads; missed events; frames of the previous directory | the latest frame is shown, no frame of an earlier directory |
| Key mailbox (`InteractiveKeyPump.java`, `MainActivity.java`, `interactive.rs`) | queue, mailbox file, keypad bytes | offer, close, publish; poll, pause, checkpoint | two processes through a file | test and replace are not atomic; a stop races keys | keys in order and once, a stop ends the session |
| Configuration save (`config.rs`) | the file, backups, staged file | `save_checked` | file system, other processes | crash and power failure between steps; a second writer | a saved text is never lost nor torn |
| Deferred CANdi start (`candi/demand.rs`) | held call, loader process | start, poll, release | Tech2 UART, link | time-out against completion | the held request is released exactly once |
| OBDLink MX+ bridge (`adapters/obdlink_guest.rs`, `stn_parser.rs`, `src/android/shared/.../MxNativeBridge.java`, `VlinkerSppTransport.java`) | request in progress, state of the prompt, selected bus, protocol open or not; in the app a queue of packets | poll, transmit, close; worker: monitor, interrupt, select a bus, request, clean up | native link, a byte server in the app, Bluetooth, the adapter | one line of text for commands, answers and frames; an interrupt may race what it interrupts, be repeated and close the protocol; answers split anywhere, late or missing | a frame is sent once on its bus, heard frames keep their bus, failures name what may have been sent, the adapter is released |
| vLinker, MDI client, Mongoose (`adapters/...`) | request in flight, startup state | serialised request/reply | link | startup and retries | one request at a time |
| CANdi CPU and peripherals (`candi/cpu.rs`, ...) | registers, memory, UART | instruction steps | controllers | volume, not protocol | instruction semantics |
| Tech2 bus and devices (`bus.rs`, `tpu.rs`, `lcd.rs`) | registers | reads and writes | guest | sequential | register semantics |
| File services, capture (`psos_files.rs`, `capture.rs`) | open files | read-only file calls | guest | sequential | data handling |
| Recovery checkpoints (`recovery.rs`, `replay.rs`) | copies of the machine | save, restore | everything | refused with a live adapter | whole-state copy |
| Session gates (`src/android/shared`: `RequestGate`, `VehicleSession`) | allow-lists | grant, refuse | session | sequential | table contents |
| Nano startup gate (`src/android/adapters/vcx_nano`) | gate state | grant, fail | session | permission call-backs | one start per grant |
| Support reports (`src/service`) | reports on disk | HTTP | - | I/O | - |
| Older cores (`src/core-mdi`, `src/src`) | - | - | - | earlier copies | - |

`PROJECT.json` lists the components with their status, and the hazards: each place
in the code that is hard to test, with the properties that watch it or the reason
why none does yet.

## 2. What is modelled

### PsosKernel: `psos.rs` with the loop of `guest.rs`

One action per service, host step or guest step. `phase` encodes the order of
`step_guest`: a host step (`HostTick`, `FireTimer`*, `BeforeInstruction`) and then
one guest step. The guest is not modelled instruction by instruction: at each of its
turns it may execute any service of `Calls` with any arguments from the constants,
write SR, take an interrupt, return from one (`Trap13`), fault, or do something the
kernel does not see (`Compute`).

| Code | Model |
|---|---|
| task table, `Task` | `tasks[t]`: state, priority, mode, suspension, wait, ticks left, pending events, saved `cpu` |
| `cpu` | `live`: D0 (`code`), D2-D5 (`data`), SR mask, interrupt frame |
| `current`, `next_*` ids | `current`, `nextTask`, `nextSemaphore`, ... |
| `schedule(force)` | `IsBest`, `Keeps`, `SwitchTo`, `Schedule` |
| tail of `trap` | `Return`, `Done` |
| `block`, `wake`, `send_event` | `Block`, `Wake`, `WakeWith`, `SendEvent` |
| `tick` | `Tick` (time-outs) followed by one `FireTimer` for each timer that is due; no other step is enabled in between |
| `before_instruction` | `HostTick` and `BeforeInstruction` |

Data abstractions: a message is a model value that is sent once (`fresh`); a
deadline is the number of ticks left instead of an absolute 64-bit tick; an
allocation succeeds or fails; registers that no service writes are left out. The
32-bit ids are `1..MaxQueue` etc.; at the bound a create is not offered any more.

Assumptions about the guest, all named in the module:

- IDLE is two instructions that call nothing; nobody suspends, deletes or restarts
  it (`MayReset`, `T_Suspend`). The theorems show why this matters: IDLE is what
  guarantees that `schedule` always finds a task.
- Interrupt handlers do not wait (`MayWait`), do not nest, and restore the
  registers of the task they interrupted (`Result`).
- `Disciplined = TRUE` describes a guest that never deletes or restarts a task that
  waits. `psos_objects` runs without that assumption.

### PsosMessages, PsosMutex: guests that use the kernel

`PsosMessages` adds a history variable, `owed`: messages that were accepted and not
read. `PsosMutex` is a client: tasks take and give a semaphore around a section and
read the return code of `sm_p` one or more instructions after it was written.

### CanLink: controllers, native link, Chipsoft worker

`candi/sja1000.rs`, `poll_bridge` and `advance` of `candi/native_link.rs`,
`ReceiveStaging` of `can_adapter.rs` and `adapters/chipsoft/backend.rs`, which only make
sense together: a request passes from the controller through the command channel to
the worker, its completion comes back through the event channel, and received frames
take the same way into the staging and the FIFO.

There are two threads. The emulation thread moves through `pc`: "cpu" (a slice of CANdi
instructions), then the steps of one `poll_bridge` ("collect", "apply", "drain",
"submit") and back, or through "closing" (the join in `close`) to "stopped". The worker
moves through `worker.at`: "top", "commands", "device", "confirm", "reads", and at its end
"cleanup", "reported", "dead". Every access to a channel is a step of its own, so the
threads interleave wherever the code lets them.

| Code | Model |
|---|---|
| `Controller.pending, dispatched, cancelled, next_ticket` | fields of `ctl[c]`; `sent` is the TCS bit, `done` a history of the last completion |
| `rx`, `rx_bytes` | `fifo`, at most `FifoLimit` frames; `overrun` is the status bit |
| mode, filter and timing registers | `mode`, one of `AllModes`: what they make the controller do |
| `write`, `command`, `cancel_pending`, `complete` | `WriteMode`, `Request`, `Abort`, `ReleaseReceived`, `Cancel`, `Completed` |
| `Bridge::poll` | `PollErrors`, `PollEvent`, `PollEnds` |
| the event loop of `poll_bridge` | `ApplyCompletion`, `ApplyFrame`, `ApplyEnds` |
| `ReceiveStaging::drain`, `should_defer_can_receive` | `Drain`, `DrainFails`, `DrainEnds`, `Defers` |
| `take_can_transmissions`, `Bridge::transmit` | `TakesTransmissions`, `Submit` |
| `advance` when it stops, `Bridge::close` | `Stops`, `FirmwareFault`, `SerialFailure`, `DropLink`, `Joined` |
| the worker closure | `WorkerLoop` ... `WorkerEnds`, `DeviceAccepts`, `DeviceFails` |

Abstractions: a frame to send is its ticket and a frame received its number on its
bus; the 64 bytes of the FIFO are a number of frames; the allow-list, the policy and
the checks of a request are one nondeterministic refusal; so is any failure of an
exchange. The device is external. A request whose reply was lost may or may not have
been sent. Start-up is left out: `Attached` is the state in which the device is open.

`CanPromise` is what the firmware may rely on, without queues, threads or batches: a
request is wanted until the firmware withdraws it or is told that it was sent, the bus
carries each request at most once and in order, and the firmware is told only of the
request it still wants and only when the bus has carried it. `KeepsPromise` is the
refinement: `asked` is `next - 1`, `wanted` is `pending`, and every step of batches,
channels and threads is a stutter or one of four steps.

### SerialRx and ReceivePump: two buffers that keep one promise

`StreamPromise` is what a diagnostic client needs of a receive buffer: it has the first
chunks in order and without a gap, and after an error it is given nothing more, so an
incomplete reply is never taken for a complete one.

| Code | Model |
|---|---|
| `receive_loop` | `CheckStop`, `ReadNothing`, `ReadChunk`, `ReadError` |
| `push`, `fail`, the end of the thread | `Push`, `Fail`, `Leave` |
| `ByteReceiver::read`: the check, the batch, the end of the channel, the check again | `BeginRead`, `Take`, `EndTake`, `Severed`, `EndRead` |
| the drop of the port | `Close`, `Join` |
| `QueuedReader.read` | `Submit`, `WaitTimeout`, `WaitDone`, `ReadFails` (request "idle", "queued", "filled") |
| `ReceivePump` worker, clean-up | `CheckStopping`, `Offer`, `StopSource` |
| `poll`, and the session that hands packets on | `Poll`, `Take`, `HandOn`, `Quit`, `Stop`, `Joined` |

A chunk or packet is its number. The failure cell, the stop flag and the channel are
read and written in steps of their own.

### LcdPump: four threads and one display

The native program publishes frames (`Publish`), the file observer and the timer ask for
a poll (`Timer`), the worker polls (`PollBegin`, `PollDirectory`, `PollStamp`,
`PollDecode`, `PollAccept`, `PollPresent`), the main thread runs what was posted
(`UiClear`, `UiTake`, `UiCheck`, `UiShow`, `UiDone`, `UiAgain`), and `setDirectory` runs on
the main thread in one step or elsewhere in several (`CallSetDirectory`, `Invalidate`,
`PostClear`, `Request`). A frame carries its directory and generation.

### KeyMailbox: from the button to the keypad

`Offer`, `Stop` are the user's; `Take`, `WaitFree`, `Lock`, `CheckClosed`, `Move` the
worker of `InteractiveKeyPump`; `ClosePump`, `Join`, `PublishStop`, `Ended`, `Destroy` the
session thread of `MainActivity`; `Read`, `Consume`, `Pause`, `Limit`, `GuestReads` the
native program, which removes a command after it has read it. `Consume` also carries
out the checkpoint commands (`recovery.rs`): `saved` and `Restore`.

### NanoBridge, PsosRegions, ConfigSave

`NanoBridge` has the two threads of `vcx_nano/backend.rs`, the ledger with its write
deadline (`Outcomes`, `Credit`) and the command gate, which runs twice: `gate` at the
bridge and `ledger` at the worker, each with its clock (`BridgeGateLate`,
`LedgerGateLate`). Set-up and shut-down of a channel are exchanges that may fail with
the channel open. After the events of a poll the controllers are asked in turn for one frame
each (`offers`). A controller may hand over a frame although its last one is not completed:
an abort or a reset withdraws that one and frees the controller (sja1000.rs:315, 336), so
several frames of one controller may be with the worker at a time. A frame is accepted
(`Transmit`), refused by the gate (`Refuse`), or refused by the queue of commands, which has
room for 16, because it is full or because the worker is gone (`Overflow`, backend.rs:256);
both refusals end the session. What the controllers make of a completion is the subject
of `CanLink`. There the ring of 64 cancelled tickets is enough; with the queues of the
Nano (16 commands, one in the worker's hand, 4096 events taken 64 at a time) up to 81
requests of a controller may be outstanding, so a firmware that withdraws without pause may
outrun the ring. The completion is then refused and the session ends, as
after any fault: `Close` may happen at any moment.

`PsosRegions` has `rn_create`, `rn_delete`, `rn_getseg`, `rn_retseg` and the stacks of
`t_create` on a memory of cells: a region is its area, unit, free and used segments. A
kernel that cannot take its own segments and the stacks of ROOT and IDLE does not start.

`ConfigSave` has each step of `save_checked` and a file system whose directory operations
a power failure undoes back to the last sync (`past`), tearing a file that was not
synced (`Torn`). A save returns at three places: when its text is there already, where
nothing is written or synced (`Look`, config.rs:670); after the sync of the directory
(`Sync`); and, in a build for another system than Unix, without it (`Return`; the sync is
`cfg(unix)`, config.rs:731, and `Syncs` says which builds there are). The text of each is
`kept`. A text that is not in every state of the directory that a power failure may bring
back when its save returns is `unsure` until the directory is synced; if a power failure
takes it before that, it is `undone`.

### MdiBridge: two processes and a link

| Code | Model |
|---|---|
| `Bridge::transmit`, `poll`, `close` | `Transmit`; `PollBegin`, `PollLine`, `PollEmpty`, `PollFails`, `PollReturns`; `Close`, `Closed` |
| channel, writer thread, socket, reader thread, channel of the server | `down`, and `BreakDown` when any of them ends |
| output of the server, reader thread, channel of the bridge | `up`, and `BreakUp` |
| `run` in `mdi/server.rs` | `NoCommand`, `Quit`, `GivesUp`, `Receive`, `Received` |
| `Session::transmit` | `Refused`, `Command` with `Marked` and `Write` |
| `Session::close`, the drop when a `println!` panics | `StopReading`, `End`, `Say` |
| watchdog, `child.kill()`, the death of the emulator | `Kill`, `Crash` |

A ticket and its periodic read are remembered before the write, which may fail with the
frame on the bus. `BridgeKept` shows that the pair keeps the same `CanPromise` as the
Chipsoft path of `CanLink`. `ReadsEnd` says that no periodic read outlives a session.

### StnBridge: one line of text, two buses

| Code | Model |
|---|---|
| `Bridge::transmit`, `poll`, `close` | `Transmit`; `PollFails`, `PollBegin`, `PollTake`, `PollEnd`; `Close`, `Closed` |
| the worker's loop | `Stops`, `Take`, `Monitor`, `Listen`, `Complete` |
| the commands of a request, `select_bus` | `Program`, `Select`: a list, `todo`, worked off by `Send` and `Answer` or `Finish` |
| `packet`, `receive` | `Packets`, `Fetches`, `Receives`, `Harmless` |
| `reply`, `exact` | `Answer`, `Accepted` |
| `interrupt_monitor`, `finish_request`, `cleanup` | `Drain`, `Finish`, `Cleanup`, `Release` |
| deadlines, a broken journal, a broken socket | `TimesOut`, `FinishTimesOut`, `Breaks` (before or after the prompt is parsed), `ReadFails`, the second alternative of `Sends` |
| `MxNativeBridge`, `VlinkerSppTransport` | `out`, `in`, `ServerEnds` |

The adapter is external and adversarial where its manual is silent: it may refuse a
command, answer a request with a frame or an error, send a frame it then calls
failed, repeat the last command after an interrupt, or fall silent. `StnKept` is the
refinement of `CanPromise`, as for the other adapters. `ReportsTrue` is about what
the firmware and the user are told: frames on the bus on which they were heard and
without a gap, a failure that names the request that may have been sent, a clean-up
that is called confirmed. `StnSettles` says that requests and sessions end. An adapter is
released when the byte server has ended (`ServerEnds`): it is assumed that closing the
Bluetooth socket succeeds. When `close` throws (VlinkerSppTransport.java:65), the server
ends all the same, but the app does not call its close confirmed (MxNativeBridge.java:48).

## 3. The runs

| Run | Question | What it shows |
|---|---|---|
| `psos_sched` | Is the CPU always held by the right task? | From boot, with masks, non-preemptible modes, handlers that resume tasks, self-suspension and self-deletion: `CpuOwnerRunnable`, `HighestPriorityRuns`. |
| `psos_objects` | Is a wake-up ever missed, can an object inherit waiters? | Without discipline, with semaphores and queues deleted under their waiters and created again: `NoMissedWakeup`, `NewObjectsHaveNoWaiters`. |
| `psos_waits` | Does every wait end exactly once? | `WaitersAreBlocked`, `NoMissedWakeup` (with events and time-outs), `DeletedStaysDeleted`, `TimeoutFabricatesNothing`. |
| `psos_clock` | Do timed waits end, do periodic timers keep waking? | Liveness `TimedWaitEnds`, `PeriodicTimerWakes`. |
| `psos_messages` | Is each accepted message in exactly one place? | `EachMessageOnce`. |
| `psos_mutex` | Are semaphore units conserved? | `UnitsConserved`, with time-outs that race `sm_v` and return codes that are read late. |
| `can_transmit` | Can a late completion do harm? | Five requests on one controller, each withdrawn at any point by abort or reset: `NoStaleCompletion`, and `KeepsPromise`, the refinement of `CanPromise`. |
| `can_receive` | Do frames survive batches, staging and full FIFOs? | Two busy buses: `FramesInOrder`, which also says that no bus holds another back. |
| `can_close` | Does every request and every failing link come to an end? | All failures at all positions of both threads, under fairness: `RequestsEnd`, `FailedLinksClose`. |
| `handoffs` | Do four handoffs between threads lose, double or keep anything back? | Serial buffer: `StreamKept` (it implements `StreamPromise`), `EndsWithItsCause`, `StreamSettles` (`ChunksSurface` and `CloseEnds`). USB pump: `PumpKept` (the same promise), `PacketsSurface`, `NothingOutstanding`. Display: `NoStaleScreen`, `LatestShown`. Keys: `KeysKept`, `StopKept`, `StopEnds`. About 113,000 states. |
| `resources` | Is what is handed out given back, whatever fails? | Kernel memory: `RegionsTiled`, `StacksOwned`. Configuration: `SavesKept` (`SavedKept` and `NothingOverwrittenBlindly`). Nano: `RequestsWhole`, `CompletionsTrue`, `ChannelsClosed`, `FramesAnswered`. J2534 and MDI: `BridgeKept` (it implements `CanPromise`), `ReadsEnd`. About 631,000 states. |
| `obdlink` | Are the OBDLink's frames and reports right, whatever the adapter and the connection do? | `ReportsTrue`, `StnKept` (it implements `CanPromise`), `StnSettles`. About 527,000 states. |

`MCHandoffs` and `MCResources` put components side by side that share nothing: each
behaviour uses one (the others start in `Over`, the state after their session, or are
held still by `part`), so the state space is the sum of theirs and not the product.
Deadlock is not checked there, nor in `obdlink`, because sessions, ports and saves end;
that nothing stops before its end is what `StreamSettles`, `StopEnds`, `FramesAnswered`,
`PacketsSurface`, `LatestShown`, `ReadsEnd` and `StnSettles` say.

Every property has a mutant in `PROJECT.json`: a plausible bug in one definition
under which the same run finds the property violated.

**Bounds.** ROOT and IDLE always exist, so three tasks leave two that contend and
IDLE as the fallback. `psos_messages` and `psos_mutex` use four, since "first waiter",
"overtaken waiter" and "sender" are three different tasks. Two priorities make a
tie and an order. One object of each kind is enough where the property relates an
object to its waiters (objects do not interact except through tasks); `psos_objects`
needs two, one deleted and one created later, and leaves events to `psos_waits`. Two messages show order and
duplication. A time-out of one tick expires at the next tick; with two it survives
one. Queue capacities 0 and 1 give the unlimited, free and full cases.

`psos_objects`, `psos_waits`, `psos_clock`, `psos_messages` and `psos_mutex` start in
`Prepared`: ROOT has created and started the tasks and one object of each kind. That is a state the
kernel reaches from `Init` by `T_Create`, `T_Start`, `Q_Create` and `Sm_Create`.

The `can_*` runs set every capacity to its least value (one, or the least at which a
batch has an inside), which makes each limit bite within a few steps. What matters is
the relation between them, and `RingAssumption` states it: a controller must remember
as many cancelled tickets as can lie between a request and its completion. A
controller has at most one request in each place of the command channel and one in
the worker's hands, and while a completion waits in the event channel it makes one
more for each poll, which takes up to `Batch` events. With the sizes of the code that
is 16 + 1 + 32 = 49 of 64. `can_transmit` uses `Ring = 3`, exactly the bound for its
sizes, and its mutant with a ring of two loses a ticket. Five tickets exceed the three
remembered by the one pending and one more. `can_receive` needs the three controllers
(one without a bus) to show that they do not disturb each other; its staging limit of
two is reached. `can_transmit` and `can_receive` have no failing guard or serial port,
since a stopped link satisfies their properties; `can_close` has them all. The
runs start with the controllers in operation, a state that the firmware reaches by
`WriteMode` and `WriteInterrupts`.

In `handoffs` queues have room for two and streams have four elements: a queue
overflows with three, and the fourth is one that must not be delivered after the gap.
Two frames, one directory and two generations are a frame that replaces another, and a
change during a poll; a directory set again is a new generation. One key fills the
queue, the second waits while the first is in the mailbox.

In `resources` the three areas of the guest let a region number come back while another
region is live; units of one and two and areas that are no multiple of the unit make every
kind of remainder. Two savers with a text each, beside the first one that both read, make a
lost update; a saver that saves its text again, after a failure at the sync or in a build
that does not sync (`Syncs` has both), finds it there and returns early. With a text that
both may save, so that one finds the text of the other before it is synced (1,450,000
states), `SavesKept` holds as well. Three Nano frames are a first frame and its
continuation followed by another request, or frames of both buses, or three of one
controller that withdraws them; the queue of commands has room for two, so the third may
find it full. A frame received takes the place of one transmitted: the queue of events,
with room for two, overflows with either. With a fourth (1,070,000 states) the
safety properties hold as well. The MDI has
bus 2, the one with periodic reads, with two tickets: a read started and stopped, or a
request withdrawn and asked again. The two buses share only the queues and the failure of
the session, and each periodic read is marked, stopped and cleared on its own; the proof of
`BridgeKept` covers any number of each.

In `obdlink` one request of either bus meets a link that has bus 0 or bus 2 selected, so
every bus switch happens, and each wake-up; what a request leaves behind is what the next
one begins with (an idle or monitoring link, either bus, the mode restored), and `Init` has
those states. Two frames are heard, which fill the event queue of two with the completion
to come: an overflow happens in a packet, between packets and at the completion. The queue
of requests has room for the one. With two requests, one frame and room for one event
(1,750,000 states) `ReportsTrue` and `StnKept` hold as well; with liveness that instance
is too large to be a run.

**Fairness.** In `psos_clock`: `step_guest` is called in an endless loop, so the
host steps that are pending and some instruction always happen: weak fairness of
`BeforeInstruction`, `FireTimer`, `Tm_TickReturn` and `Compute`. The host clock is
due every 100000 instructions whatever the guest does, so `HostTick` happens
infinitely often although it is not enabled all the time: strong fairness. No fairness is
assumed of any kernel service or handler. In `can_close`: `advance` is called in an endless
loop and its steps do not wait (`Poll`), the session loop drops a link it finds stopped
(`DropLink`), a join ends when the thread has (`Joined`), and the worker thread runs
(`Worker`): its exchanges have time limits, so each ends or fails. Nothing is assumed of the
firmware or of the traffic, and a failure never has to happen.

In `handoffs`, `SerialRx`: the reader thread (its device reads end after 20 ms), a read the
client has begun, and the join. `ReceivePump`: the worker, whose USB waits have time
limits, and the session, which polls in a loop. `LcdPump`: the timer fires, the
worker and the main thread run, and a `setDirectory` that has begun goes on. `KeyMailbox`:
the session thread, which looks every 50 ms and closes the pump when it is stopping or the
program has ended, and the pump's worker; nothing is assumed of the native program,
which may hang, and is killed. In `resources`, `NanoBridge`: the worker (its exchanges have
time limits), the polls of the emulator, the close of a bridge that failed and its join.
In `obdlink`: the worker, whose reads and waits have
time limits, the polls of the emulator, the close of a bridge that failed and its join, and
the end of the byte server once its client is gone; nothing is assumed of the adapter.
`MdiBridge`: the server process is scheduled and its driver returns or its watchdog ends it,
a bridge that failed is closed, and the wait in `close` ends. `PsosRegions` and
`ConfigSave` have no liveness.

## 4. What is proved

`PsosKernelProofs` proves, for every value of the constants that satisfies
`KernelAssumption`:

| Theorem | Statement |
|---|---|
| `KernelTypes` | `Spec => []TypeOK` |
| `KernelOwner` | `Spec => []CpuOwnerRunnable` |
| `KernelPriority` | `Spec => []HighestPriorityRuns` |
| `KernelInvariant` | `Spec => []KernelInv`, the inductive invariant |

`TypeOK /\ CpuOwnerRunnable` is not inductive. If IDLE could block, `schedule` could
find no runnable task and leave the CPU with a caller that has just blocked. `KernelInv`
therefore adds `IdleReady` (IDLE is Ready or Running, not suspended and waits for
nothing, so no wake-up rewrites it) and `nextTask > Idle` (no create overwrites it).
It is stated as a conjunction over the tables (`TableOK`, `TasksOK`, `ObjectsOK`).

The argument goes bottom up. `WakeType`, `ElapseType`, `SendEventType`, ... type the
operators. `RootIdle` and `ScheduleEffect` say what a switch does to a table in which
IDLE can run; `ReturnEffect` lifts that to the tail of every trap; `ServiceSafe` and
`DoneSafe` reduce a service to an obligation on the table it passes on. There is
then one lemma per group of services, `NextSafe` joins them, and the temporal
theorems follow by PTL. `HighestPriorityRuns` is not inductive and needs no history:
only `BeforeInstruction` enters phase "guest", and it ends in
`schedule(false)`; `SchedulePreempts` says what that leaves.

`PsosKernelProofs` goes on with what waits rest on, for a guest of any discipline
(`KernelWaits`, with `KernelNoMissedWakeup`, `KernelNewObjects`). The
properties are not inductive, since a new object could meet old waiters; `WaitInv` adds that
whatever anyone waits for has an id that was handed out (`GivenOut`), so a new one
differs. Last come `KernelWaitersBlocked`, `KernelDeleted` and
`KernelTimeouts` under `Disciplined`. `DisciplineInv` adds that who waits is blocked, that
the registers of a waiter hold no delivery, and that task numbers not handed out have no task.

`PsosObjectsProofs` proves `EachMessageOnce` (`MessagesOnce`) for every number of tasks,
queues and messages, from `MessageAssumption` (the messages of the model are finitely many
and none is the empty register) and `Disciplined`: a task that is deleted or
restarted while it waits may take a message with it. `MessageInv` says where messages are:
one in a queue is owed and in no other place, no two contexts hold the same one, what is
owed is somewhere, and what is in the live registers or left in the table for the task that
runs has been read. Each step computes a table and the registers of its caller and ends in
a switch, which saves and restores contexts; `Handing` is the invariant between the two, so
that each service is proved up to the switch (`HarmlessHands`, `LosingHands`, ...) and the
switch once (`SwitchMessages`).

`PsosObjectsProofs` also proves `UnitsConserved` (`MutexUnits`) for any number of tasks and any
initial count within `LockAssumption`, under `Disciplined`. `MutexInv` adds to the equation
how the lock is used (`LockUse`): who waits for it has asked, who has asked waits for nothing
else, and a lock that is not there has no users. A task that has asked and runs again with
another code than "ok" owns nothing, so the lemmas say of each service that it spares the
users of the lock, their waits and their saved code (`Spares`, `Benign`).

`CanLinkProofs` proves that the CAN path implements `CanPromise`
(`CanLinkKeepsPromise`) for all capacities, and needs no `RingAssumption`: a completion that
is not known stops the link, which breaks no promise. `PipeInv` has the types
(`PipeTypes`), the order (`PipeOrder`: each ticket is larger than all that are further on
their way: controller, outbox, command channel, worker, bus) and the truth (`PipeTruth`:
whatever is reported as sent is on the bus). All four theorems of the module hold from both
starts, out of reset (`Spec`) and in operation (`OperatingSpec`). On `PipeInv` rest two more:

- `FramesInOrder` (`FramesKeptInOrder`), for any capacities. `FramesInv` adds little to the
  property: no worker has failed that still reads, no batch lies between two polls, and a
  controller of a firmware that stays in operation (`Undisturbed`) either has its interrupt
  on or an empty FIFO (`Steady`), so that `should_defer_can_receive` keeps what it cannot take.
- `NoStaleCompletion` (`LateCompletionsKnown`), under `RingAssumption`. A controller forgets
  a cancelled ticket only when `Ring` later ones were handed over and withdrawn, so
  `Known(chip, t, n)` counts: `t` is recognised, and at most `n` later requests were handed
  over. `StaleInv` says for every place on the way of a request what `n` is there: what is
  behind it in the command channel and the outbox (`KnowInput`, `KnowHand`), or, for a
  completion in the event channel, at most `Bound` less the polls it still waits for
  (`KnowEvents`, `Expected`): each poll takes a batch and hands over at most one request of
  a controller. This is `Most` = `InputLimit` + 1 + `Polls`, which the assumption compares
  with the ring. `ToldInOrder` is needed because `complete` removes a ticket: the next
  completion must be about another one.

`HandoffsProofs` has the four handoffs of `MCHandoffs`, for any capacities and any number
of chunks, packets, frames and keys:

- The serial buffer: `EndsWithItsCause` and the refinement of `StreamPromise`
  (`SerialRxCause`, `SerialRxKeepsPromise`). The invariant is a sequence: while no failure
  is recorded, what was delivered, what is in the batch, in the queue and in the reader's
  hand, read in that order, is 1, 2, ..., `arrived`.
- The receive pump: `NothingOutstanding` and `PumpKept` (`PumpReleased`,
  `PumpKeepsPromise`), from the lemmas of `ReceivePumpProofs`.
- The display: `NoStaleScreen` (`ScreenNotStale`). `ScreenInv` says of the frame that is
  shown, and of the one the main thread has checked and is about to show, that it is of
  the current directory or `Covered`: a clear of the current generation is posted or will
  be. The second part is needed because a directory may be set between check and display.
- The mailbox: `KeysKept` and `StopKept` (`MailboxKeys`, `MailboxStop`). While the pump is
  open, `KeysInv` has the keys behind the keypad, in the program, the file, the pump's
  worker and its queue numbered upwards in this order (`KeysNumbered`), every accepted key
  in one of these places or an expired arrow (`KeysThere`), and the file free when the
  worker is about to replace it (`FileFree`): nobody else writes a key, and the program
  only empties the file. `StopAfterKeys` has the worker gone when the stop is written, unless
  the join gave up (`late`).

`ReceivePumpProofs` proves `PumpKept` and `NothingOutstanding` (`ReceivePumpKeepsPromise`,
`ReceivePumpReleased`) in the same way. The one packet that the sequence loses is that of
the request a worker cancels at its end (`Intact` has an equation only until then), which
nothing follows.

`PsosRegionsProofs` proves `RegionsTiled` and `StacksOwned` (`RegionsStayTiled`,
`RegionsStacksOwned`) from `RegionsAssumption`: areas that do not overlap, sizes and units
that are positive. `All` puts the free and used segments of a region into one function. To
take a segment splits one tile (`Split`) or leaves the tiling as it is; to return one leaves
it. For the stacks the invariant adds that what the guest holds is in region 0 at another
base than any stack, or in an area of its own, also when its region was replaced.

`ResourcesProofs` has what `MCResources` puts side by side:

- The memory: `RegionsTiled` and `StacksOwned` of the run (`MemoryTiled`, `MemoryStacks`),
  from `PsosRegionsProofs`.
- The Nano, from `SessionAssumption` (a request that spans frames has a continuation;
  `policy.rs` lets only longer ones begin): `ChannelsClosed`, `CompletionsTrue` and
  `RequestsWhole` (`NanoChannelsClosed`, `NanoCompletions`, `NanoRequests`), for any
  capacities and any number of frames, of continuations and of frames of one controller on
  their way, withdrawn ones among them. `ChannelsInv`: what is allocated is
  marked, or an adapter has not answered. `Handed`: while the worker works, the wire, its
  hand and its commands are what the guest sent, in this order, and all writes but the last
  are whole. `CompletionsInv`: while the emulator polls, what it took and what waits are the
  completions of all frames that may be completed (`Told`). The property alone is not
  inductive: it says nothing of the events that the next poll takes. `RequestsInv`: the gate
  of the worker knows what is due after the frames that passed it (`DueThen`). The gate
  of the bridge is not needed for it.
- The configuration, from `TextsAssumption` (a text is neither "absent" nor "torn", and a
  build syncs the directory or does not): `SavesKept` (`ConfigSavesKept`), with the two
  exceptions it names, `raced` and `undone`. `ConfigInv` has each text whose save returned
  in every state of the directory that a power failure may bring back, unless it is
  `raced`, `undone` or `unsure`, and those that are `unsure` in the directory as it is now;
  and says what a save knows at each of its steps (`Knows`): its copy is synced, what it
  read is backed up before it looks again, and is still there unless another replacement
  came since (`late`).
- The J2534 bridge and the MDI server implement `CanPromise` (`MdiBridgeKeepsPromise`),
  wherever the link breaks. The server writes only a ticket larger than the last it took,
  which is at least all it has written, so order and uniqueness need nothing of the
  link. The truth of a completion is carried from place to place: an ACCEPT in the
  queue, an accepted request at the bridge and a completion in a poll are all about tickets on the
  wire (`Wires`, `Queues`, `Pendings`, `Reported`).

`StnBridgeProofs` proves `ReportsTrue` (`StnReportsTrue`) and the refinement of
`CanPromise` (`StnKeepsPromise`) for any buses, capacities and numbers of requests and
frames, from `StnBridgeAssumption` (the bounds are numbers). Nothing is assumed of the
answers, and the connection may break anywhere. The worker knows the adapter only from a
line of text, and a setting, a request and a clean-up all wait for the same prompt. The
properties say nothing of the line, so they are far from inductive; `StnInv` says, for each
place of the worker, what is under way and what it may be taken for:

- `Control`: what the worker thinks of the adapter where it is. While it serves requests,
  commands and replies are in step, since every doubt about that is a failure.
- `Exchange`, `Watching`, `Answering`: an exchange is a command that is not taken yet, or
  its whole answer, which ends with the one prompt; and an answer without an error comes from
  an adapter that is on the bus and in the mode the rest of the commands need (`Fits`, for
  which `FitsTail` takes the first command off the list, whatever the list is). `Fits`
  also says that the commands left contain the request exactly if the bus has not carried
  it, so a bus switch, a wake-up and the end of its mode need no case of their own.
- `Loaded`: after a failure the line may still hold a request. It is alone there, the
  adapter is on its bus and in its mode, and the failure names it. So the adapter may
  take it late, and `StnKept` and `FailureNamed` still hold.
- `Stream`: frames on their way through the line and the event queue are numbered upwards,
  and while the worker listens none is missing. `Exchange` has the other half: a frame that
  the worker will look at is of the bus it believes to be on, although an interrupted
  adapter may have been told to change it.
- `Closing`: in the clean-up, answers may belong to earlier commands (an interrupt that was
  repeated restarts the monitoring); an OK is nevertheless that of the last one, for no other
  command of the clean-up is answered so.
- `Tickets`, `Truth`, `Naming`: requests are numbered upwards from the queue to the bus, a
  completion is of a request on the bus, and a failure names the request in progress.

There is one lemma for each action of the emulator, the worker, the server and the adapter
(`AnswerStep`, `DrainStep`, `CarriesStep`, ...); the ways to fail share `FailureLeaves`, the
adapter's answers `AnsweredLeaves`.

Theorems about `MCSpec` are about the run's specification, where a part is in use or over;
a part is brought in by showing that the steps of the instance in the run are those of the
module its proofs are about (`PumpSame`, `MemorySame`).

Only model-checked: the liveness properties, which TLAPS cannot do here (`TimedWaitEnds`,
`PeriodicTimerWakes`, `RequestsEnd`, `FailedLinksClose`, `StreamSettles`, `PacketsSurface`,
`LatestShown`, `StopEnds`, `FramesAnswered`, `ReadsEnd`, `StnSettles`). Every other property
that a run checks is also a theorem.
`TypeOK` of `PsosKernel` is proved and not checked again by a run.

**Known limits of the code.** The properties state these exceptions instead of hiding them:

- A presentation posted before the clear of a `setDirectory` off the main thread may show
  the first frame of the new directory, which that clear removes (`wiped` in `LatestShown`).
- A stop that is written between the program's read of the mailbox and its removal is lost;
  the session ends when the program is killed after two seconds (`StopKept`, `StopEnds`).
  A pump worker that stalls for more than a second may replace the stop (`late`).
- A text saved by another process between the last look and the rename is replaced
  without a backup (`raced` in `SavedKept`).
- A save that finds its text in the file returns without syncing the directory
  (config.rs:670), also when the save that wrote the text failed at its sync or is not done
  yet; and a build for another system than Unix never syncs it. A power failure may then
  bring back an earlier text (`undone` in `SavedKept`); it tears nothing, and takes nothing
  that was synced since it was saved.
- A firmware that withdraws requests faster than the Nano completes them may outrun the
  ring of 64 cancelled tickets (sja1000.rs:340), which ends the session.
- `rn_create` may hand out the number of a live region (psos.rs:719), whose segments then
  belong to nobody. Segments returned are never merged (psos.rs:757), and a `t_create`
  that fails late keeps the stack it took (psos.rs:243).
- A firmware that withdraws a request and asks again while the first is unconfirmed ends
  a J2534 session (bridge.rs:207-215), where the other adapters go on.
- `Session::close` of the MDI prints each stop before it writes it: with nobody reading the
  output the panic comes first and no stop is sent (raw.rs:252; `ReadsEnd` exempts it).

## 5. Not modelled

Within the kernel: partitions, the date, the file services, names (`t_ident`, `q_ident`)
and the task registers. They do not influence scheduling or waits. Within the CAN path:
register images, frame encoding, filter arithmetic, the interrupt flags of the controllers,
pacing against the wall clock, the ignition helper and the traces (whose bounds stop the
link like any other failure). Of the adapters: start-up, the lists of requests a profile
allows (a gate may refuse any), and the encoding of lines, frames and exchanges. Periodic
reads exist only in the build with the feature `mdi-body-read-experiment`. Of the Android
application: USB writes, result files, menus and layout.

Whole components, with the reasons in `PROJECT.json`: the other adapters (vLinker, the
MDI client, Mongoose: variants of the same worker whose own core is the parsing of
replies), the deferred CANdi start (one thread around a guest call), the CANdi CPU and the
Tech2 bus and devices (instruction and register semantics: volume rather than
protocol, and most of the lines of the repository), file services and capture (sequential
reads), the sequential allow-lists, the report service (HTTP and files), and the older
copies of the emulator.

## 6. Plan

Done: the kernel with its clients, the CAN path, the four handoffs, kernel memory, the
Nano bridge, configuration save, the J2534 bridge and the MDI server, and the OBDLink
bridge, each with its proofs.

Left: models of the start-up of the adapters (OBDLink, vLinker, MDI), of the deferred CANdi
start, and of the receive FIFO in bytes.
