----------------------------- MODULE PsosKernel -----------------------------
(***************************************************************************)
(* The host side of the pSOS+ real-time kernel the Tech2 firmware calls:   *)
(* core-recovered/emulator/src/psos.rs, driven by the instruction loop of  *)
(* guest.rs.  Every guest instruction is preceded by `before_instruction`  *)
(* (host clock tick and scheduling) and may be a TRAP #11 (a kernel        *)
(* service), a TRAP #13 (return from an interrupt handler) or anything     *)
(* else.  `phase` says whose turn it is; a host step and the guest step    *)
(* after it alternate.                                                     *)
(*                                                                         *)
(* Abstractions.  A context is what the services leave in it: the return   *)
(* code in D0, the words delivered in D2-D5 (a message, or the event bits  *)
(* of D4), whether SR masks interrupts, and the frame of an interrupt      *)
(* handler running over the task.  A deadline is the number of ticks left  *)
(* instead of an absolute u64 tick.  Memory is left out: an allocation     *)
(* succeeds or fails.                                                      *)
(***************************************************************************)
EXTENDS Integers, Sequences, FiniteSets

CONSTANTS
  MaxTask,        \* largest task number (255 in the code)
  TaskTable,      \* task-table bound of the kernel configuration
  MaxSemaphore,   \* semaphore ids the model hands out (a u32 in the code)
  SemaphoreTable, \* live semaphores the kernel holds (1024)
  CountLimit,     \* saturation point of a semaphore count (2^32 - 1)
  MaxQueue,       \* queue ids the model hands out (a u32 in the code)
  QueueTable,     \* live queues the kernel holds (configuration + 1, at most 1024)
  MessageLimit,   \* messages a queue without a capacity holds (65536)
  MaxTimer,       \* timer ids the model hands out (a u32 in the code)
  TimerTable,     \* live timers the kernel holds (1024)
  MaxTimeout,     \* largest timeout or period the guest asks for (a u32)
  Priorities,     \* priorities the guest uses, within 0..255
  Counts,         \* initial counts of the semaphores the guest creates
  Capacities,     \* capacities of the queues it creates; 0: no capacity
  Messages,       \* payloads of q_send and q_urgent, each sent once
  Notices,        \* payloads of q_broadcast
  Events,         \* event bits
  Modes,          \* task modes the guest uses
  RootMode,       \* mode of ROOT in the kernel configuration
  Calls,          \* the services this guest's tasks use
  HandlerCalls,   \* the services its interrupt handlers use
  Disciplined     \* TRUE: the guest never deletes or restarts a waiting task

Mode == [np: BOOLEAN, masked: BOOLEAN]

ASSUME KernelAssumption ==
  /\ MaxTask \in Nat /\ MaxTask >= 2
  /\ TaskTable \in Nat
  /\ {MaxSemaphore, SemaphoreTable, MaxQueue, QueueTable} \subseteq Nat
  /\ {MaxTimer, TimerTable, MaxTimeout} \subseteq Nat
  /\ CountLimit \in Nat \ {0} /\ MessageLimit \in Nat \ {0}
  /\ Priorities \subseteq 0..255
  /\ Counts \subseteq 0..CountLimit
  /\ Capacities \subseteq Nat
  /\ Modes \subseteq Mode /\ RootMode \in Mode
  /\ Disciplined \in BOOLEAN

VARIABLES
  tasks,       \* the task table; "Absent" when no task has the number
  current,     \* the task whose context the CPU holds
  live,        \* the CPU's own registers
  nextTask,    \* next task number
  semaphores, nextSemaphore,
  queues, nextQueue,
  timers, nextTimer,
  fresh,       \* payloads not sent yet (each message is sent once)
  phase        \* whose step is next

vars == <<tasks, current, live, nextTask, semaphores, nextSemaphore, queues,
          nextQueue, timers, nextTimer, fresh, phase>>
objects == <<semaphores, nextSemaphore, queues, nextQueue, timers, nextTimer, fresh>>

TaskIds == 1..MaxTask
Root == 1
Idle == 2

States == {"Absent", "Created", "Ready", "Running", "Blocked", "Dead"}
Data == Messages \cup Notices \cup SUBSET Events
Nothing == {}         \* zeroed registers: no message, no event bits
Codes == {"ok", "timeout", "deleted", "refused"}
Context == [code: Codes, data: Data, masked: BOOLEAN,
            frame: {"none", "clear", "masked"}]

Wait == [on: {"none", "events", "semaphore", "queue", "sleep"},
         object: Nat, want: SUBSET Events, any: BOOLEAN]
NotWaiting == [on |-> "none", object |-> 0, want |-> {}, any |-> FALSE]
WaitFor(kind, id) == [NotWaiting EXCEPT !.on = kind, !.object = id]

Task == [state: States, priority: 0..255, mode: Mode, suspended: BOOLEAN,
         wait: Wait, left: 0..MaxTimeout, events: SUBSET Events, cpu: Context]
EmptyContext == [code |-> "ok", data |-> Nothing, masked |-> FALSE, frame |-> "none"]
NoTask == [state |-> "Absent", priority |-> 0, mode |-> [np |-> FALSE, masked |-> FALSE],
           suspended |-> FALSE, wait |-> NotWaiting, left |-> 0, events |-> {},
           cpu |-> EmptyContext]

NoSemaphore == [live |-> FALSE, count |-> 0]
NoQueue == [live |-> FALSE, byPriority |-> FALSE, capacity |-> 0, messages |-> <<>>]
NoTimer == [live |-> FALSE, task |-> Root, events |-> {}, due |-> 0, period |-> 0]

Exists(t) == tasks[t].state # "Absent"
\* Mutant: suspension is forgotten.
Runnable_IgnoresSuspension(task) == task.state \in {"Ready", "Running"}

Runnable(task) == ~task.suspended /\ task.state \in {"Ready", "Running"}
InHandler == live.frame # "none"
-----------------------------------------------------------------------------
(***************************************************************************)
(* Scheduling.  Both operators take the task table and the registers the   *)
(* caller has computed, and set tasks', live' and current'.                *)
(***************************************************************************)

\* The runnable task with the highest priority, the lowest id on a tie.
IsBest(ts, b) ==
  /\ Runnable(ts[b])
  /\ \A t \in TaskIds : Runnable(ts[t]) =>
       \/ ts[t].priority < ts[b].priority
       \/ ts[t].priority = ts[b].priority /\ b <= t

SwitchTo(ts, regs, b) ==
  LET old == ts[current]
      kept == IF old.state = "Dead" THEN old
              ELSE [old EXCEPT !.cpu = regs,
                               !.state = IF @ = "Running" THEN "Ready" ELSE @]
  IN  /\ current' = b
      /\ live' = ts[b].cpu
      /\ tasks' = [ts EXCEPT ![current] = kept, ![b].state = "Running"]

Keeps(ts, regs, b, force) ==
  \/ b = current
  \/ /\ Runnable(ts[current])
     /\ ~force
     /\ \/ regs.masked
        \/ ts[current].mode.np
        \/ ts[b].priority <= ts[current].priority

Schedule(ts, regs, force) ==
  \/ /\ \/ \A t \in TaskIds : ~Runnable(ts[t])
        \/ \E b \in TaskIds : IsBest(ts, b) /\ Keeps(ts, regs, b, force)
     /\ tasks' = ts /\ live' = regs /\ current' = current
  \/ \E b \in TaskIds : /\ IsBest(ts, b)
                        /\ ~Keeps(ts, regs, b, force)
                        /\ SwitchTo(ts, regs, b)

\* What a service leaves in D2-D5: `data`, or nothing but the arguments of the
\* call.  A handler restores the registers of the task it interrupted.
Result(data) == IF InHandler THEN live ELSE [live EXCEPT !.data = data]

\* The end of every TRAP #11: D0, the context of a caller that blocked, and a
\* switch that is forced when the caller can no longer run.
Return(ts, regs, code) ==
  LET out == IF InHandler THEN regs ELSE [regs EXCEPT !.code = code]
      saved == IF ts[current].state = "Blocked"
               THEN [ts EXCEPT ![current].cpu = out] ELSE ts
  IN  /\ Schedule(saved, out, ~Runnable(saved[current]))
      /\ phase' = "host"

\* A service that delivers nothing to its caller.
Done(ts, code) == Return(ts, Result(Nothing), code)
-----------------------------------------------------------------------------
(***************************************************************************)
(* Blocking and waking.                                                    *)
(***************************************************************************)

\* `block`: a timeout of 0 waits forever.
Block(ts, wait, timeout) ==
  [ts EXCEPT ![current].state = "Blocked", ![current].wait = wait,
             ![current].left = timeout]

\* Mutant: the waker makes the task ready and leaves its wait registered.
Wake_KeepsWait(task, code, data) ==
  [task EXCEPT !.state = "Ready", !.left = 0, !.cpu.code = code, !.cpu.data = data]

\* A wait ends: whoever ends it writes the result into the saved context.
Wake(task, code, data) ==
  [task EXCEPT !.state = "Ready", !.wait = NotWaiting, !.left = 0,
               !.cpu.code = code, !.cpu.data = data]

\* A wait ends with a return code and the registers as the wait left them.
WakeWith(task, code) == Wake(task, code, task.cpu.data)

Satisfied(have, want, any) == IF any THEN have \cap want # {} ELSE want \subseteq have

\* Mutant: a task is woken when its mask is satisfied, waiting or not.
SendEvent_AnyTask(ts, t, bits) ==
  LET have == ts[t].events \cup bits
      wait == ts[t].wait
      got == have \cap wait.want
  IN  IF Satisfied(have, wait.want, wait.any)
      THEN [ts EXCEPT ![t] = Wake([@ EXCEPT !.events = have \ got], "ok", got)]
      ELSE [ts EXCEPT ![t].events = have]

\* `send_event`: the bits are kept, and end an event wait they satisfy.
SendEvent(ts, t, bits) ==
  LET have == ts[t].events \cup bits
      wait == ts[t].wait
      got == have \cap wait.want
  IN  IF wait.on = "events" /\ Satisfied(have, wait.want, wait.any)
      THEN [ts EXCEPT ![t] = Wake([@ EXCEPT !.events = have \ got], "ok", got)]
      ELSE [ts EXCEPT ![t].events = have]

Waiters(kind, id) == {t \in TaskIds : tasks[t].wait.on = kind /\ tasks[t].wait.object = id}

\* The waiter served first: the lowest id, after the priority where it counts.
IsFirst(t, waiting, byPriority) ==
  /\ t \in waiting
  /\ \A u \in waiting :
       IF byPriority /\ tasks[u].priority # tasks[t].priority
       THEN tasks[u].priority < tasks[t].priority
       ELSE t <= u
-----------------------------------------------------------------------------
(***************************************************************************)
(* The clock.  `tick` ends the timed waits that are due, then fires the    *)
(* timers that are due one after the other in id order.  Nothing runs in   *)
(* between; the loop over the timers is split into steps.                  *)
(***************************************************************************)

\* Mutant: a sleep is not timed.
Expires_NotSleep(task) == task.state = "Blocked" /\ task.left = 1 /\ task.wait.on # "sleep"

Expires(task) == task.state = "Blocked" /\ task.left = 1

\* Mutant: a time-out leaves the wait registered.
Elapse_KeepsWait(task) ==
  IF Expires(task)
  THEN [task EXCEPT !.state = "Ready", !.left = 0,
                    !.cpu.code = IF task.wait.on = "sleep" THEN "ok" ELSE "timeout"]
  ELSE IF task.state = "Blocked" /\ task.left > 0 THEN [task EXCEPT !.left = @ - 1]
  ELSE task

Elapse(task) ==
  IF Expires(task)
  THEN WakeWith(task, IF task.wait.on = "sleep" THEN "ok" ELSE "timeout")
  ELSE IF task.state = "Blocked" /\ task.left > 0 THEN [task EXCEPT !.left = @ - 1]
  ELSE task

Tick ==
  /\ tasks' = [t \in TaskIds |-> Elapse(tasks[t])]
  /\ timers' = [i \in 1..MaxTimer |->
                  IF timers[i].live /\ timers[i].due > 0
                  THEN [timers[i] EXCEPT !.due = @ - 1] ELSE timers[i]]

Due(i) == timers[i].live /\ timers[i].due = 0

\* Mutant: the events go to the task on the CPU.
FireTimer_ToCurrent ==
  /\ phase \in {"hostTick", "trapTick"}
  /\ \E i \in 1..MaxTimer :
       /\ Due(i) /\ \A j \in 1..MaxTimer : Due(j) => i <= j
       /\ tasks' = SendEvent(tasks, current, timers[i].events)
       /\ timers' = [timers EXCEPT ![i] =
                       IF @.period = 0 THEN NoTimer ELSE [@ EXCEPT !.due = timers[i].period]]
  /\ UNCHANGED <<current, live, nextTask, semaphores, nextSemaphore, queues, nextQueue,
                 nextTimer, fresh, phase>>

FireTimer ==
  /\ phase \in {"hostTick", "trapTick"}
  /\ \E i \in 1..MaxTimer :
       /\ Due(i) /\ \A j \in 1..MaxTimer : Due(j) => i <= j
       /\ tasks' = SendEvent(tasks, timers[i].task, timers[i].events)
       /\ timers' = [timers EXCEPT ![i] =
                       IF @.period = 0 THEN NoTimer ELSE [@ EXCEPT !.due = timers[i].period]]
  /\ UNCHANGED <<current, live, nextTask, semaphores, nextSemaphore, queues, nextQueue,
                 nextTimer, fresh, phase>>

\* before_instruction, when the host clock is due: every 100000 instructions.
HostTick ==
  /\ phase = "host"
  /\ Tick
  /\ phase' = "hostTick"
  /\ UNCHANGED <<current, live, nextTask, semaphores, nextSemaphore, queues, nextQueue,
                 nextTimer, fresh>>

\* Mutant: the host schedules only when its clock ticked.
BeforeInstruction_OnTick ==
  /\ \/ phase = "host" /\ UNCHANGED <<tasks, live, current>>
     \/ /\ phase = "hostTick" /\ \A i \in 1..MaxTimer : ~Due(i)
        /\ Schedule(tasks, live, FALSE)
  /\ phase' = "guest"
  /\ UNCHANGED <<nextTask, objects>>

\* before_instruction ends with schedule(false); then the guest has the CPU.
BeforeInstruction ==
  /\ \/ phase = "host"
     \/ phase = "hostTick" /\ \A i \in 1..MaxTimer : ~Due(i)
  /\ Schedule(tasks, live, FALSE)
  /\ phase' = "guest"
  /\ UNCHANGED <<nextTask, objects>>
-----------------------------------------------------------------------------
(***************************************************************************)
(* Guest steps that are not kernel services.  IDLE is two instructions     *)
(* that call nothing; what runs over it is an interrupt handler.           *)
(***************************************************************************)
Executes(name) ==
  /\ phase = "guest"
  /\ \/ InHandler /\ name \in HandlerCalls
     \/ ~InHandler /\ current # Idle /\ name \in Calls

\* Any instruction that touches neither the kernel nor SR.
Compute ==
  /\ phase = "guest"
  /\ phase' = "host"
  /\ UNCHANGED <<tasks, current, live, nextTask, objects>>

\* MOVE to SR, which no trap announces to the kernel.
WriteSR ==
  /\ Executes("sr")
  /\ \E m \in BOOLEAN : live' = [live EXCEPT !.masked = m]
  /\ phase' = "host"
  /\ UNCHANGED <<tasks, current, nextTask, objects>>

\* An interrupt is taken over the current task: SR goes to the stack and the
\* level masks interrupts.  One handler at a time.
Interrupt ==
  /\ phase = "guest" /\ "interrupt" \in Calls
  /\ ~InHandler
  /\ live' = [live EXCEPT !.frame = IF live.masked THEN "masked" ELSE "clear",
                          !.masked = TRUE]
  /\ phase' = "host"
  /\ UNCHANGED <<tasks, current, nextTask, objects>>

\* TRAP #13: the handler returns through the kernel, which reschedules.
Trap13 ==
  /\ phase = "guest"
  /\ InHandler
  /\ Schedule(tasks, [live EXCEPT !.masked = (live.frame = "masked"), !.frame = "none"],
              FALSE)
  /\ phase' = "host"
  /\ UNCHANGED <<nextTask, objects>>

\* A TRAP #13 without a frame the kernel knows, or an unknown service: the
\* failure is recorded and step_guest runs no further instruction.
Fault ==
  /\ phase = "guest" /\ "fault" \in Calls
  /\ phase' = "stopped"
  /\ UNCHANGED <<tasks, current, live, nextTask, objects>>

Stopped == phase = "stopped" /\ UNCHANGED vars
-----------------------------------------------------------------------------
(***************************************************************************)
(* Kernel services: TRAP #11 with the service number in D0.  No guest      *)
(* suspends, deletes or restarts IDLE, and interrupt handlers do not wait. *)
(***************************************************************************)
MayWait == ~InHandler

MayReset(t) ==
  /\ t # Idle
  /\ Disciplined => tasks[t].wait.on = "none"

\* A service called with an id that is not there or arguments the kernel rejects,
\* and the services that touch only what the model leaves out: idents, task
\* registers, regions, the date, files.
NoEffect ==
  /\ Executes("noeffect")
  /\ \E code \in {"ok", "refused"} : Done(tasks, code)
  /\ UNCHANGED <<nextTask, objects>>

T_Create ==
  /\ Executes("t_create")
  /\ \E priority \in Priorities :
       \/ /\ \/ nextTask > MaxTask
             \/ Cardinality({t \in TaskIds : Exists(t)}) > TaskTable
          /\ Done(tasks, "refused")
          /\ UNCHANGED nextTask
       \/ /\ nextTask <= MaxTask
          /\ Cardinality({t \in TaskIds : Exists(t)}) <= TaskTable
          /\ nextTask' = nextTask + 1
          /\ \/ Done([tasks EXCEPT ![nextTask] =
                          [NoTask EXCEPT !.state = "Created", !.priority = priority]], "ok")
             \/ Done(tasks, "refused")   \* no memory: the number is used up
  /\ UNCHANGED objects

\* `start`: a new stack and entry point; the wait of the task is left as it is.
Started(task, mode) ==
  [task EXCEPT !.state = "Ready", !.mode = mode,
               !.cpu = [@ EXCEPT !.masked = mode.masked, !.frame = "none"]]

T_Start_Of(t) ==
  /\ Executes("t_start") /\ Exists(t) /\ MayReset(t)
  /\ \E mode \in Modes : Done([tasks EXCEPT ![t] = Started(@, mode)], "ok")
  /\ UNCHANGED <<nextTask, objects>>

T_Restart_Of(t) ==
  /\ Executes("t_restart") /\ Exists(t) /\ MayReset(t)
  /\ Done([tasks EXCEPT ![t] = Started(@, @.mode)], "ok")
  /\ UNCHANGED <<nextTask, objects>>

T_Delete_Of(t) ==
  /\ Executes("t_delete") /\ Exists(t) /\ MayReset(t)
  /\ Done([tasks EXCEPT ![t].state = "Dead"], "ok")
  /\ UNCHANGED <<nextTask, objects>>

T_Start == \E t \in TaskIds : T_Start_Of(t)
T_Restart == \E t \in TaskIds : T_Restart_Of(t)
T_Delete == \E t \in TaskIds : T_Delete_Of(t)

T_Suspend ==
  /\ Executes("t_suspend")
  /\ \E t \in TaskIds \ {Idle} :
       /\ Exists(t) /\ ~tasks[t].suspended
       /\ Done([tasks EXCEPT ![t].suspended = TRUE], "ok")
  /\ UNCHANGED <<nextTask, objects>>

T_Resume ==
  /\ Executes("t_resume")
  /\ \E t \in TaskIds :
       /\ Exists(t) /\ tasks[t].suspended
       /\ Done([tasks EXCEPT ![t].suspended = FALSE], "ok")
  /\ UNCHANGED <<nextTask, objects>>

T_SetPri ==
  /\ Executes("t_setpri")
  /\ \E t \in TaskIds, priority \in Priorities \ {0} :
       /\ Exists(t)
       /\ Done([tasks EXCEPT ![t].priority = priority], "ok")
  /\ UNCHANGED <<nextTask, objects>>

\* t_mode: the preemption bit, and the interrupt level, which also goes to SR.
T_Mode ==
  /\ Executes("t_mode")
  /\ \/ \E np \in BOOLEAN : Done([tasks EXCEPT ![current].mode.np = np], "ok")
     \/ \E mode \in Mode : Return([tasks EXCEPT ![current].mode = mode],
                                  [Result(Nothing) EXCEPT !.masked = mode.masked], "ok")
  /\ UNCHANGED <<nextTask, objects>>
-----------------------------------------------------------------------------
Q_Create ==
  /\ Executes("q_create")
  /\ \/ /\ Cardinality({q \in 1..MaxQueue : queues[q].live}) >= QueueTable
        /\ Done(tasks, "refused")
        /\ UNCHANGED <<queues, nextQueue>>
     \/ /\ Cardinality({q \in 1..MaxQueue : queues[q].live}) < QueueTable
        /\ nextQueue <= MaxQueue
        /\ \E byPriority \in BOOLEAN, capacity \in Capacities :
             queues' = [queues EXCEPT ![nextQueue] =
                          [live |-> TRUE, byPriority |-> byPriority,
                           capacity |-> capacity, messages |-> <<>>]]
        /\ nextQueue' = nextQueue + 1
        /\ Done(tasks, "ok")
  /\ UNCHANGED <<nextTask, semaphores, nextSemaphore, timers, nextTimer, fresh>>

\* q_delete takes the messages along and sends every waiter away with an error.
Q_Delete ==
  /\ Executes("q_delete")
  /\ \E q \in 1..MaxQueue :
       /\ queues[q].live
       /\ queues' = [queues EXCEPT ![q] = NoQueue]
       /\ Done([t \in TaskIds |-> IF t \in Waiters("queue", q)
                                    THEN WakeWith(tasks[t], "deleted") ELSE tasks[t]], "ok")
  /\ UNCHANGED <<nextTask, semaphores, nextSemaphore, nextQueue, timers, nextTimer, fresh>>

Deliver(to, payload) ==
  [t \in TaskIds |-> IF t \in to THEN Wake(tasks[t], "ok", payload) ELSE tasks[t]]

Full(q) ==
  \/ queues[q].capacity # 0 /\ Len(queues[q].messages) >= queues[q].capacity
  \/ Len(queues[q].messages) >= MessageLimit

\* Mutant: a message handed to a waiter is queued as well.
Q_Put_HandsAndQueues(q, message, urgent) ==
  /\ queues[q].live /\ ~Full(q)
  /\ queues' = [queues EXCEPT ![q].messages =
                  IF urgent THEN <<message>> \o @ ELSE Append(@, message)]
  /\ fresh' = fresh \ {message}
  /\ \/ \E t \in Waiters("queue", q) :
          /\ IsFirst(t, Waiters("queue", q), queues[q].byPriority)
          /\ Done(Deliver({t}, message), "ok")
     \/ Waiters("queue", q) = {} /\ Done(tasks, "ok")

\* q_send and q_urgent: straight into the registers of the first waiter, or
\* into the queue: at its end, or at its head when urgent.
Q_Put(q, message, urgent) ==
  /\ queues[q].live
  /\ \/ /\ \E t \in Waiters("queue", q) :
             /\ IsFirst(t, Waiters("queue", q), queues[q].byPriority)
             /\ Done(Deliver({t}, message), "ok")
        /\ fresh' = fresh \ {message}
        /\ UNCHANGED queues
     \/ /\ Waiters("queue", q) = {} /\ ~Full(q)
        /\ queues' = [queues EXCEPT ![q].messages =
                        IF urgent THEN <<message>> \o @ ELSE Append(@, message)]
        /\ fresh' = fresh \ {message}
        /\ Done(tasks, "ok")
     \/ /\ Waiters("queue", q) = {} /\ Full(q)
        /\ Done(tasks, "refused")
        /\ UNCHANGED <<queues, fresh>>

Q_Send ==
  /\ Executes("q_send")
  /\ \E q \in 1..MaxQueue, message \in fresh : Q_Put(q, message, FALSE)
  /\ UNCHANGED <<nextTask, semaphores, nextSemaphore, nextQueue, timers, nextTimer>>

Q_Urgent ==
  /\ Executes("q_urgent")
  /\ \E q \in 1..MaxQueue, message \in fresh : Q_Put(q, message, TRUE)
  /\ UNCHANGED <<nextTask, semaphores, nextSemaphore, nextQueue, timers, nextTimer>>

\* q_broadcast reaches every waiter; with none the notice is dropped.
Q_Broadcast ==
  /\ Executes("q_broadcast")
  /\ \E q \in 1..MaxQueue, notice \in Notices :
       /\ queues[q].live
       /\ Done(Deliver(Waiters("queue", q), notice), "ok")
  /\ UNCHANGED <<nextTask, objects>>

Q_Receive ==
  /\ Executes("q_receive")
  /\ \E q \in 1..MaxQueue :
       /\ queues[q].live
       /\ \/ /\ queues[q].messages # <<>>
             /\ queues' = [queues EXCEPT ![q].messages = Tail(@)]
             /\ Return(tasks, Result(Head(queues[q].messages)), "ok")
          \/ /\ queues[q].messages = <<>>
             /\ \/ Done(tasks, "refused")
                \/ /\ MayWait
                   /\ \E timeout \in 0..MaxTimeout :
                        Done(Block(tasks, WaitFor("queue", q), timeout), "ok")
             /\ UNCHANGED queues
  /\ UNCHANGED <<nextTask, semaphores, nextSemaphore, nextQueue, timers, nextTimer, fresh>>
-----------------------------------------------------------------------------
Ev_Send ==
  /\ Executes("ev_send")
  /\ \E t \in TaskIds, bits \in SUBSET Events :
       /\ Exists(t)
       /\ Done(SendEvent(tasks, t, bits), "ok")
  /\ UNCHANGED <<nextTask, objects>>

\* Mutant: a blocked caller keeps the mask it asked for in D4.
Ev_Receive_KeepsMask ==
  /\ Executes("ev_receive")
  /\ MayWait
  /\ \E want \in SUBSET Events \ {{}}, any \in BOOLEAN, timeout \in 0..MaxTimeout :
       /\ ~Satisfied(tasks[current].events, want, any)
       /\ Return(Block(tasks, [NotWaiting EXCEPT !.on = "events", !.want = want,
                                                !.any = any], timeout),
                 Result(want), "ok")
  /\ UNCHANGED <<nextTask, objects>>

\* Mutant: a call that may wait does not look at the events that are there.
Ev_Receive_WaitsFirst ==
  /\ Executes("ev_receive")
  /\ MayWait
  /\ \E want \in SUBSET Events \ {{}}, any \in BOOLEAN, timeout \in 0..MaxTimeout :
       Done(Block(tasks, [NotWaiting EXCEPT !.on = "events", !.want = want,
                                              !.any = any], timeout), "ok")
  /\ UNCHANGED <<nextTask, objects>>

Ev_Receive ==
  /\ Executes("ev_receive")
  /\ \E want \in SUBSET Events, any \in BOOLEAN :
       LET have == tasks[current].events
           got == have \cap want
       IN  \/ /\ want = {}
              /\ Return(tasks, Result(have), "ok")
           \/ /\ want # {} /\ Satisfied(have, want, any)
              /\ Return([tasks EXCEPT ![current].events = @ \ got],
                        Result(got), "ok")
           \/ /\ want # {} /\ ~Satisfied(have, want, any)
              /\ Done(tasks, "refused")
           \/ /\ want # {} /\ ~Satisfied(have, want, any) /\ MayWait
              /\ \E timeout \in 0..MaxTimeout :
                   Done(Block(tasks, [NotWaiting EXCEPT !.on = "events", !.want = want,
                                                          !.any = any], timeout), "ok")
  /\ UNCHANGED <<nextTask, objects>>
-----------------------------------------------------------------------------
\* Mutant: the lowest free id is handed out.
Sm_Create_ReusesId ==
  /\ Executes("sm_create")
  /\ \E s \in 1..MaxSemaphore, count \in Counts :
       /\ ~semaphores[s].live /\ \A r \in 1..(s - 1) : semaphores[r].live
       /\ semaphores' = [semaphores EXCEPT ![s] = [live |-> TRUE, count |-> count]]
  /\ nextSemaphore' = nextSemaphore + 1
  /\ Done(tasks, "ok")
  /\ UNCHANGED <<nextTask, queues, nextQueue, timers, nextTimer, fresh>>

Sm_Create ==
  /\ Executes("sm_create")
  /\ \/ /\ Cardinality({s \in 1..MaxSemaphore : semaphores[s].live}) >= SemaphoreTable
        /\ Done(tasks, "refused")
        /\ UNCHANGED <<semaphores, nextSemaphore>>
     \/ /\ Cardinality({s \in 1..MaxSemaphore : semaphores[s].live}) < SemaphoreTable
        /\ nextSemaphore <= MaxSemaphore
        /\ \E count \in Counts :
             semaphores' = [semaphores EXCEPT ![nextSemaphore] =
                              [live |-> TRUE, count |-> count]]
        /\ nextSemaphore' = nextSemaphore + 1
        /\ Done(tasks, "ok")
  /\ UNCHANGED <<nextTask, queues, nextQueue, timers, nextTimer, fresh>>

\* sm_delete leaves the tasks that wait for the semaphore waiting.
Sm_Delete_On(s) ==
  /\ Executes("sm_delete")
  /\ semaphores[s].live
  /\ semaphores' = [semaphores EXCEPT ![s] = NoSemaphore]
  /\ Done(tasks, "ok")
  /\ UNCHANGED <<nextTask, nextSemaphore, queues, nextQueue, timers, nextTimer, fresh>>

Sm_P_On(s) ==
  /\ Executes("sm_p")
  /\ semaphores[s].live
  /\ \/ /\ semaphores[s].count # 0
        /\ semaphores' = [semaphores EXCEPT ![s].count = @ - 1]
        /\ Done(tasks, "ok")
     \/ /\ semaphores[s].count = 0
        /\ \/ Done(tasks, "refused")
           \/ /\ MayWait
              /\ \E timeout \in 0..MaxTimeout :
                   Done(Block(tasks, WaitFor("semaphore", s), timeout), "ok")
        /\ UNCHANGED semaphores
  /\ UNCHANGED <<nextTask, nextSemaphore, queues, nextQueue, timers, nextTimer, fresh>>

\* Mutant: the unit goes to the waiter and to the count.
Sm_V_On_CountsToo(s) ==
  /\ Executes("sm_v")
  /\ semaphores[s].live
  /\ semaphores' = [semaphores EXCEPT ![s].count = IF @ < CountLimit THEN @ + 1 ELSE @]
  /\ \/ \E t \in Waiters("semaphore", s) :
          /\ IsFirst(t, Waiters("semaphore", s), TRUE)
          /\ Done([tasks EXCEPT ![t] = WakeWith(@, "ok")], "ok")
     \/ Waiters("semaphore", s) = {} /\ Done(tasks, "ok")
  /\ UNCHANGED <<nextTask, nextSemaphore, queues, nextQueue, timers, nextTimer, fresh>>

\* sm_v: the waiter with the highest priority gets the unit, else the count.
Sm_V_On(s) ==
  /\ Executes("sm_v")
  /\ semaphores[s].live
  /\ \/ /\ \E t \in Waiters("semaphore", s) :
             /\ IsFirst(t, Waiters("semaphore", s), TRUE)
             /\ Done([tasks EXCEPT ![t] = WakeWith(@, "ok")], "ok")
        /\ UNCHANGED semaphores
     \/ /\ Waiters("semaphore", s) = {}
        /\ semaphores' = [semaphores EXCEPT ![s].count = IF @ < CountLimit THEN @ + 1 ELSE @]
        /\ Done(tasks, "ok")
  /\ UNCHANGED <<nextTask, nextSemaphore, queues, nextQueue, timers, nextTimer, fresh>>

Sm_Delete == \E s \in 1..MaxSemaphore : Sm_Delete_On(s)
Sm_P == \E s \in 1..MaxSemaphore : Sm_P_On(s)
Sm_V == \E s \in 1..MaxSemaphore : Sm_V_On(s)
-----------------------------------------------------------------------------
\* tm_tick: the guest's clock handler announces a tick.
Tm_Tick ==
  /\ Executes("tm_tick")
  /\ Tick
  /\ phase' = "trapTick"
  /\ UNCHANGED <<current, live, nextTask, semaphores, nextSemaphore, queues, nextQueue,
                 nextTimer, fresh>>

Tm_TickReturn ==
  /\ phase = "trapTick"
  /\ \A i \in 1..MaxTimer : ~Due(i)
  /\ Done(tasks, "ok")
  /\ UNCHANGED <<nextTask, objects>>

\* tm_wkafter: sleep; with 0 only a chance for a task of higher priority.
Tm_WkAfter ==
  /\ Executes("tm_wkafter") /\ MayWait
  /\ \/ \E timeout \in 1..MaxTimeout :
          Done(Block(tasks, WaitFor("sleep", 0), timeout), "ok")
     \/ Done([tasks EXCEPT ![current].state = "Ready", ![current].cpu = live], "ok")
  /\ UNCHANGED <<nextTask, objects>>

\* tm_evafter and tm_evevery: a timer that sends events to its creator.
Tm_Ev ==
  /\ Executes("tm_ev")
  /\ \/ /\ Cardinality({i \in 1..MaxTimer : timers[i].live}) >= TimerTable
        /\ Done(tasks, "refused")
        /\ UNCHANGED <<timers, nextTimer>>
     \/ /\ Cardinality({i \in 1..MaxTimer : timers[i].live}) < TimerTable
        /\ nextTimer <= MaxTimer
        /\ \E bits \in SUBSET Events, delay \in 0..MaxTimeout, every \in BOOLEAN :
             timers' = [timers EXCEPT ![nextTimer] =
                          [live |-> TRUE, task |-> current, events |-> bits,
                           due |-> delay, period |-> IF every THEN delay ELSE 0]]
        /\ nextTimer' = nextTimer + 1
        /\ Done(tasks, "ok")
  /\ UNCHANGED <<nextTask, semaphores, nextSemaphore, queues, nextQueue, fresh>>

Tm_Cancel ==
  /\ Executes("tm_cancel")
  /\ \E i \in 1..MaxTimer :
       /\ timers[i].live
       /\ timers' = [timers EXCEPT ![i] = NoTimer]
  /\ Done(tasks, "ok")
  /\ UNCHANGED <<nextTask, semaphores, nextSemaphore, queues, nextQueue, nextTimer, fresh>>
-----------------------------------------------------------------------------
\* `initialize` has created and started ROOT and IDLE and switched to ROOT.
Init ==
  /\ tasks = [t \in TaskIds |->
       CASE t = Root -> [NoTask EXCEPT !.state = "Running", !.priority = 255,
                                       !.mode = RootMode, !.cpu.masked = RootMode.masked]
         [] t = Idle -> [NoTask EXCEPT !.state = "Ready"]
         [] OTHER -> NoTask]
  /\ current = Root
  /\ live = [EmptyContext EXCEPT !.masked = RootMode.masked]
  /\ nextTask = 3
  /\ semaphores = [s \in 1..MaxSemaphore |-> NoSemaphore] /\ nextSemaphore = 1
  /\ queues = [q \in 1..MaxQueue |-> NoQueue] /\ nextQueue = 1
  /\ timers = [i \in 1..MaxTimer |-> NoTimer] /\ nextTimer = 1
  /\ fresh = Messages
  /\ phase = "host"

TaskServices == T_Create \/ T_Start \/ T_Restart \/ T_Delete \/ T_Suspend \/ T_Resume
                \/ T_SetPri \/ T_Mode \/ NoEffect
QueueServices == Q_Create \/ Q_Delete \/ Q_Send \/ Q_Urgent \/ Q_Broadcast \/ Q_Receive
EventServices == Ev_Send \/ Ev_Receive
SemaphoreServices == Sm_Create \/ Sm_Delete \/ Sm_P \/ Sm_V
TimeServices == Tm_Tick \/ Tm_TickReturn \/ Tm_WkAfter \/ Tm_Ev \/ Tm_Cancel
Host == HostTick \/ FireTimer \/ BeforeInstruction
Guest == Compute \/ WriteSR \/ Interrupt \/ Trap13 \/ Fault

Next == Host \/ Guest \/ TaskServices \/ QueueServices \/ EventServices
        \/ SemaphoreServices \/ TimeServices \/ Stopped

Spec == Init /\ [][Next]_vars

\* step_guest is called without end: the host steps and then some instruction
\* always happen, and 100000 instructions later the host clock ticks again.
Fairness ==
  /\ WF_vars(BeforeInstruction) /\ WF_vars(FireTimer) /\ WF_vars(Tm_TickReturn)
  /\ WF_vars(Compute)
  /\ SF_vars(HostTick)

FairSpec == Spec /\ Fairness
-----------------------------------------------------------------------------
\* Every variable has its type: the kernel's tables, the CPU's registers and
\* the ids handed out next.
TypeOK ==
  /\ tasks \in [TaskIds -> Task]
  /\ current \in TaskIds
  /\ live \in Context
  /\ nextTask \in Nat
  /\ semaphores \in [1..MaxSemaphore -> [live: BOOLEAN, count: 0..CountLimit]]
  /\ nextSemaphore \in Nat
  /\ queues \in [1..MaxQueue -> [live: BOOLEAN, byPriority: BOOLEAN, capacity: Nat,
                                  messages: Seq(Messages)]]
  /\ nextQueue \in Nat
  /\ timers \in [1..MaxTimer -> [live: BOOLEAN, task: TaskIds, events: SUBSET Events,
                                  due: 0..MaxTimeout, period: 0..MaxTimeout]]
  /\ nextTimer \in Nat
  /\ fresh \subseteq Messages
  /\ phase \in {"host", "hostTick", "guest", "trapTick", "stopped"}

\* The CPU never executes a task that is blocked, suspended, deleted or not
\* started, and only the task on the CPU is Running: whatever a service did to
\* its own caller, the trap ends in a switch (the `force` of trap).
CpuOwnerRunnable ==
  /\ tasks[current].state \in {"Ready", "Running"} /\ ~tasks[current].suspended
  /\ \A t \in TaskIds : tasks[t].state = "Running" => t = current

\* An instruction is never executed for a task while a task of higher priority
\* could run, unless interrupts are masked or the task forbids preemption:
\* schedule(false) before each instruction sees every wake-up, whichever
\* service, tick, timer or SR write caused it.
HighestPriorityRuns ==
  phase = "guest" /\ ~live.masked /\ ~tasks[current].mode.np =>
    \A t \in TaskIds : Runnable(tasks[t]) => tasks[t].priority <= tasks[current].priority

\* A task that waits has nothing to take: the queue it waits for exists (q_delete
\* leaves nobody behind) and holds no message, its semaphore has no unit, and its
\* events do not satisfy it.  So no wake-up is missed and a later sender cannot be
\* served before an earlier one.
NoMissedWakeup ==
  \A t \in TaskIds :
    LET wait == tasks[t].wait
    IN  /\ wait.on = "queue" => queues[wait.object].live /\ queues[wait.object].messages = <<>>
        /\ wait.on = "semaphore" => semaphores[wait.object].count = 0
        /\ wait.on = "events" => ~Satisfied(tasks[t].events, wait.want, wait.any)

\* A new semaphore or queue has no waiters.  Ids are never handed out twice, so a
\* task that sm_delete stranded (or that a guest left behind in a queue's wait) is
\* not served by an object created later.
NewObjectsHaveNoWaiters ==
  [][/\ \A s \in 1..MaxSemaphore :
          ~semaphores[s].live /\ semaphores'[s].live => Waiters("semaphore", s)' = {}
     /\ \A q \in 1..MaxQueue :
          ~queues[q].live /\ queues'[q].live => Waiters("queue", q)' = {}]_vars

\* For a guest that leaves waiting tasks alone, exactly the blocked tasks wait:
\* nothing is delivered to a task that runs or is dead.
WaitersAreBlocked ==
  \A t \in TaskIds : tasks[t].wait.on # "none" <=> tasks[t].state = "Blocked"

\* For such a guest a deleted task stays deleted until it is started again: no
\* message, event, semaphore unit, timer or queue deletion brings it back.
DeletedStaysDeleted ==
  [][~T_Start /\ ~T_Restart =>
       \A t \in TaskIds : tasks[t].state = "Dead" => tasks'[t].state = "Dead"]_vars

\* A wait for a message or for events that times out leaves no message and no
\* event bits in the registers the task resumes with.
TimeoutFabricatesNothing ==
  [][\A t \in TaskIds :
       /\ tasks[t].wait.on \in {"queue", "events"}
       /\ tasks'[t].wait.on = "none"
       /\ tasks'[t].cpu.code = "timeout"
       => tasks'[t].cpu.data = Nothing]_vars

\* A wait with a timeout ends: the host clock keeps ticking whatever the guest
\* does.
TimedWaitEnds ==
  \A t \in TaskIds :
    (tasks[t].state = "Blocked" /\ tasks[t].left > 0) ~> (tasks[t].state # "Blocked")

\* A periodic timer that is not cancelled ends the wait of its task for events
\* it sends, as often as the task waits again.
PeriodicTimerWakes ==
  \A i \in 1..MaxTimer, t \in TaskIds :
    (/\ timers[i].live /\ timers[i].period > 0 /\ timers[i].task = t
     /\ tasks[t].wait.on = "events" /\ tasks[t].wait.want \subseteq timers[i].events)
      ~> (tasks[t].wait.on = "none" \/ ~timers[i].live)
=============================================================================
