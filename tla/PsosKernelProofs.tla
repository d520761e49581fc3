-------------------------- MODULE PsosKernelProofs --------------------------
(***************************************************************************)
(* Theorems about PsosKernel, for every value of its constants.            *)
(***************************************************************************)
EXTENDS PsosKernel, TLAPS

-----------------------------------------------------------------------------
(***************************************************************************)
(* Types of the operators that compute a task record.                      *)
(***************************************************************************)

\* Ending a wait (the wake-ups of psos.rs) yields a task record.
LEMMA WakeType ==
  ASSUME NEW task \in Task, NEW code \in Codes, NEW data \in Data
  PROVE  Wake(task, code, data) \in Task
<1>1. NotWaiting \in Wait  BY DEF NotWaiting, Wait
<1>2. 0 \in 0..MaxTimeout  BY KernelAssumption
<1>3. [task.cpu EXCEPT !.code = code, !.data = data] \in Context
  BY DEF Task, Context
<1>4. Wake(task, code, data) =
        [task EXCEPT !.state = "Ready", !.wait = NotWaiting, !.left = 0,
                     !.cpu = [task.cpu EXCEPT !.code = code, !.data = data]]
  BY DEF Wake, Task, Context
<1>5. QED  BY <1>1, <1>2, <1>3, <1>4, ZenonT(60) DEF Task, States

\* The same for the wake-ups that keep the registers of the wait.
LEMMA WakeWithType ==
  ASSUME NEW task \in Task, NEW code \in Codes
  PROVE  WakeWith(task, code) \in Task
<1>1. task.cpu.data \in Data  BY DEF Task, Context
<1>2. QED  BY <1>1, WakeType DEF WakeWith

\* One clock tick on one task (`tick`) yields a task record.
LEMMA ElapseType ==
  ASSUME NEW task \in Task
  PROVE  Elapse(task) \in Task
<1>1. CASE Expires(task)
  <2>1. "ok" \in Codes /\ "timeout" \in Codes  BY DEF Codes
  <2>2. QED  BY <1>1, <2>1, WakeWithType DEF Elapse
<1>2. CASE ~Expires(task) /\ task.state = "Blocked" /\ task.left > 0
  <2>1. task.left - 1 \in 0..MaxTimeout  BY <1>2, KernelAssumption DEF Task
  <2>2. [task EXCEPT !.left = @ - 1] \in Task  BY <2>1 DEF Task
  <2>3. QED  BY <1>2, <2>2 DEF Elapse
<1>3. QED  BY <1>1, <1>2 DEF Elapse

\* `start` yields a task record.
LEMMA StartedType ==
  ASSUME NEW task \in Task, NEW mode \in Mode
  PROVE  Started(task, mode) \in Task
<1>1. mode.masked \in BOOLEAN  BY DEF Mode
<1>2. [task.cpu EXCEPT !.masked = mode.masked, !.frame = "none"] \in Context
  BY <1>1 DEF Task, Context
<1>3. QED  BY <1>2 DEF Started, Task, States

\* `send_event` yields a task table.
LEMMA SendEventType ==
  ASSUME NEW ts \in [TaskIds -> Task], NEW t \in TaskIds, NEW bits \in SUBSET Events
  PROVE  SendEvent(ts, t, bits) \in [TaskIds -> Task]
<1> DEFINE have == ts[t].events \cup bits
           got == have \cap ts[t].wait.want
<1>1. have \in SUBSET Events /\ got \in SUBSET Events  BY DEF Task
<1>2. \A e \in SUBSET Events : [ts[t] EXCEPT !.events = e] \in Task  BY DEF Task
<1>3. Wake([ts[t] EXCEPT !.events = have \ got], "ok", got) \in Task
  <2>1. [ts[t] EXCEPT !.events = have \ got] \in Task  BY <1>1, <1>2
  <2>2. "ok" \in Codes /\ got \in Data  BY <1>1 DEF Codes, Data
  <2>3. QED  BY <2>1, <2>2, WakeType
<1>4. [ts EXCEPT ![t].events = have] \in [TaskIds -> Task]  BY <1>1, <1>2
<1>5. [ts EXCEPT ![t] = Wake([@ EXCEPT !.events = have \ got], "ok", got)]
        \in [TaskIds -> Task]  BY <1>3
<1>6. QED  BY <1>4, <1>5 DEF SendEvent

\* `block` yields a task table.
LEMMA BlockType ==
  ASSUME NEW ts \in [TaskIds -> Task], current \in TaskIds,
         NEW wait \in Wait, NEW timeout \in 0..MaxTimeout
  PROVE  Block(ts, wait, timeout) \in [TaskIds -> Task]
<1>1. \A task \in Task :
        [task EXCEPT !.state = "Blocked", !.wait = wait, !.left = timeout] \in Task
  BY DEF Task, States
<1>2. Block(ts, wait, timeout) = [ts EXCEPT ![current] =
        [@ EXCEPT !.state = "Blocked", !.wait = wait, !.left = timeout]]
  BY DEF Block
<1>3. QED  BY <1>1, <1>2

-----------------------------------------------------------------------------
(***************************************************************************)
(* What `schedule` and the end of a trap leave of the table they are given.*)
(***************************************************************************)

\* IDLE can always run and never waits.
IdleReady(ts) ==
  /\ ts[Idle].state \in {"Ready", "Running"} /\ ~ts[Idle].suspended
  /\ ts[Idle].wait.on = "none"

\* A table a service may hand to `schedule`: whatever happened to the caller, only
\* the task on the CPU may still be Running.
TableOK(ts) ==
  /\ ts \in [TaskIds -> Task]
  /\ \A t \in TaskIds : ts[t].state = "Running" => t = current
  /\ IdleReady(ts)

\* Two records of a task that differ in the saved context only, or in which of
\* Ready and Running the task is.
SameTask(new, old) ==
  /\ new.priority = old.priority /\ new.mode = old.mode
  /\ new.suspended = old.suspended /\ new.wait = old.wait
  /\ new.left = old.left /\ new.events = old.events
  /\ \/ new.state = old.state
     \/ {new.state, old.state} \subseteq {"Ready", "Running"}

\* Task numbers of ROOT and IDLE.
LEMMA RootIdle == Root \in TaskIds /\ Idle \in TaskIds
BY KernelAssumption DEF Root, Idle, TaskIds

\* `schedule` keeps the types, everything but state and context of every task,
\* and the contexts of all tasks but the one that had the CPU.
LEMMA ScheduleEffect ==
  ASSUME NEW ts \in [TaskIds -> Task], NEW regs \in Context, NEW force,
         current \in TaskIds, Schedule(ts, regs, force)
  PROVE  /\ tasks' \in [TaskIds -> Task] /\ live' \in Context /\ current' \in TaskIds
         /\ \A t \in TaskIds : SameTask(tasks'[t], ts[t])
         /\ \A t \in TaskIds \ {current} : tasks'[t].cpu = ts[t].cpu
<1>1. CASE tasks' = ts /\ live' = regs /\ current' = current
  BY <1>1 DEF SameTask
<1>2. CASE \E b \in TaskIds : /\ IsBest(ts, b) /\ ~Keeps(ts, regs, b, force)
                              /\ SwitchTo(ts, regs, b)
  <2>1. PICK b \in TaskIds : /\ IsBest(ts, b) /\ ~Keeps(ts, regs, b, force)
                             /\ SwitchTo(ts, regs, b)
    BY <1>2
  <2>2. b # current /\ Runnable(ts[b])  BY <2>1 DEF Keeps, IsBest
  <2> DEFINE old == ts[current]
             kept == IF old.state = "Dead" THEN old
                     ELSE [old EXCEPT !.cpu = regs,
                                      !.state = IF @ = "Running" THEN "Ready" ELSE @]
             first == [ts[b] EXCEPT !.state = "Running"]
  <2>3. kept \in Task /\ SameTask(kept, old)
    <3>1. \A task \in Task :
            [task EXCEPT !.cpu = regs, !.state = IF @ = "Running" THEN "Ready" ELSE @] \in Task
      BY ZenonT(60) DEF Task, States
    <3>2. \A task \in Task :
            SameTask([task EXCEPT !.cpu = regs,
                                  !.state = IF @ = "Running" THEN "Ready" ELSE @], task)
      BY DEF Task, SameTask
    <3>3. SameTask(old, old)  BY DEF SameTask
    <3>4. QED  BY <3>1, <3>2, <3>3
  <2>4. first \in Task /\ SameTask(first, ts[b]) /\ first.cpu = ts[b].cpu
    <3>1. \A task \in Task : Runnable(task) =>
            /\ [task EXCEPT !.state = "Running"] \in Task
            /\ SameTask([task EXCEPT !.state = "Running"], task)
            /\ [task EXCEPT !.state = "Running"].cpu = task.cpu
      BY DEF Task, States, SameTask, Runnable
    <3>2. QED  BY <2>2, <3>1
  <2>5. /\ tasks' = [ts EXCEPT ![current] = kept, ![b].state = "Running"]
        /\ current' = b /\ live' = ts[b].cpu
    BY <2>1 DEF SwitchTo
  <2>6. tasks' = [ts EXCEPT ![current] = kept, ![b] = first]
    BY <2>2, <2>5
  <2>7. tasks' \in [TaskIds -> Task]  BY <2>3, <2>4, <2>6
  <2>8. live' \in Context  BY <2>5 DEF Task
  <2>9. \A t \in TaskIds : SameTask(tasks'[t], ts[t])
    <3>1. \A t \in TaskIds \ {b, current} : tasks'[t] = ts[t]  BY <2>6
    <3>2. \A t \in TaskIds : SameTask(ts[t], ts[t])  BY DEF SameTask
    <3>3. QED  BY <2>2, <2>3, <2>4, <2>6, <3>1, <3>2
  <2>10. \A t \in TaskIds \ {current} : tasks'[t].cpu = ts[t].cpu
    BY <2>2, <2>4, <2>6
  <2>11. QED  BY <2>5, <2>7, <2>8, <2>9, <2>10
<1>3. QED  BY <1>1, <1>2 DEF Schedule

\* IDLE stays ready when only states among Ready and Running change.
LEMMA SameIdle ==
  ASSUME NEW ts, NEW new, IdleReady(ts), SameTask(new[Idle], ts[Idle])
  PROVE  IdleReady(new)
BY DEF IdleReady, SameTask

\* `schedule` always finds a task for the CPU, because IDLE can run: the task it
\* leaves there is neither blocked nor suspended, and no other one is Running.
LEMMA ScheduleOwner ==
  ASSUME NEW ts, TableOK(ts), NEW regs \in Context, NEW force,
         current \in TaskIds, Schedule(ts, regs, force)
  PROVE  CpuOwnerRunnable' /\ IdleReady(tasks)'
<1>1. ts \in [TaskIds -> Task] /\ IdleReady(ts)  BY DEF TableOK
<1>2. Runnable(ts[Idle])  BY <1>1 DEF IdleReady, Runnable
<1>3. /\ tasks' \in [TaskIds -> Task] /\ \A t \in TaskIds : SameTask(tasks'[t], ts[t])
  BY <1>1, ScheduleEffect
<1>4. IdleReady(tasks')  BY <1>1, <1>3, RootIdle, SameIdle
<1>5. ASSUME Runnable(ts[current]), tasks' = ts, current' = current
      PROVE  CpuOwnerRunnable'
  BY <1>5 DEF TableOK, CpuOwnerRunnable, Runnable
<1>6. ASSUME NEW b \in TaskIds, IsBest(ts, b), ~Keeps(ts, regs, b, force),
             SwitchTo(ts, regs, b)
      PROVE  CpuOwnerRunnable'
  <2>1. b # current /\ Runnable(ts[b])  BY <1>6 DEF Keeps, IsBest
  <2> DEFINE old == ts[current]
             kept == IF old.state = "Dead" THEN old
                     ELSE [old EXCEPT !.cpu = regs,
                                      !.state = IF @ = "Running" THEN "Ready" ELSE @]
             first == [ts[b] EXCEPT !.state = "Running"]
  <2>2. tasks' = [ts EXCEPT ![current] = kept, ![b] = first] /\ current' = b
    BY <1>1, <1>6, <2>1 DEF SwitchTo
  <2>3. kept.state # "Running"
    <3>1. \A task \in Task :
            [task EXCEPT !.cpu = regs,
                         !.state = IF @ = "Running" THEN "Ready" ELSE @].state # "Running"
      BY DEF Task
    <3>2. QED  BY <1>1, <3>1
  <2>4. first.state = "Running" /\ ~first.suspended  BY <1>1, <2>1 DEF Task, Runnable
  <2>5. tasks'[b] = first /\ tasks'[current] = kept  BY <1>1, <2>1, <2>2
  <2>6. \A t \in TaskIds \ {b, current} : tasks'[t] = ts[t]  BY <1>1, <2>2
  <2>7. \A t \in TaskIds : tasks'[t].state = "Running" => t = b
    BY <2>3, <2>5, <2>6 DEF TableOK
  <2>8. QED  BY <2>2, <2>4, <2>5, <2>7 DEF CpuOwnerRunnable
<1>7. CpuOwnerRunnable'
  <2>1. ASSUME NEW b \in TaskIds, IsBest(ts, b), Keeps(ts, regs, b, force),
               tasks' = ts, current' = current
        PROVE  CpuOwnerRunnable'
    BY <1>5, <2>1 DEF Keeps, IsBest
  <2>2. ~\A t \in TaskIds : ~Runnable(ts[t])  BY <1>2, RootIdle
  <2>3. QED  BY <1>6, <2>1, <2>2 DEF Schedule
<1>8. IdleReady(tasks)'  BY <1>4 DEF IdleReady
<1>9. QED  BY <1>7, <1>8

\* A switch that is not forced leaves on the CPU a task of the highest priority,
\* unless interrupts are masked or the task forbids preemption.
LEMMA SchedulePreempts ==
  ASSUME NEW ts, TableOK(ts), NEW regs \in Context, current \in TaskIds,
         Schedule(ts, regs, FALSE), ~live'.masked, ~tasks'[current'].mode.np
  PROVE  \A t \in TaskIds : Runnable(tasks'[t]) =>
           tasks'[t].priority <= tasks'[current'].priority
<1>1. ts \in [TaskIds -> Task] /\ IdleReady(ts)  BY DEF TableOK
<1>2. /\ tasks' \in [TaskIds -> Task] /\ current' \in TaskIds
      /\ \A t \in TaskIds : SameTask(tasks'[t], ts[t])
  BY <1>1, ScheduleEffect
<1>3. \A t \in TaskIds : tasks'[t].priority = ts[t].priority /\ ts[t].priority \in Int
  <2> SUFFICES ASSUME NEW t \in TaskIds
               PROVE  tasks'[t].priority = ts[t].priority /\ ts[t].priority \in Int
    OBVIOUS
  <2>1. ts[t] \in Task /\ SameTask(tasks'[t], ts[t])  BY <1>1, <1>2
  <2>2. ts[t].priority \in 0..255  BY <2>1 DEF Task
  <2>3. QED  BY <2>1, <2>2 DEF SameTask
<1>4. \A t \in TaskIds : Runnable(tasks'[t]) => Runnable(ts[t])
  BY <1>2 DEF SameTask, Runnable
<1>5. PICK b \in TaskIds : /\ IsBest(ts, b)
                          /\ \/ current' = b
                             \/ ts[b].priority <= ts[current'].priority
  <2>1. ASSUME NEW b \in TaskIds, IsBest(ts, b), Keeps(ts, regs, b, FALSE),
               tasks' = ts, live' = regs, current' = current
        PROVE  b = current' \/ ts[b].priority <= ts[current'].priority
    BY <2>1 DEF Keeps
  <2>2. ASSUME NEW b \in TaskIds, SwitchTo(ts, regs, b)
        PROVE  current' = b
    BY <2>2 DEF SwitchTo
  <2>3. ~\A t \in TaskIds : ~Runnable(ts[t])
    BY <1>1, RootIdle DEF IdleReady, Runnable
  <2>4. QED  BY <2>1, <2>2, <2>3 DEF Schedule
<1>6. ts[b].priority <= ts[current'].priority  BY <1>2, <1>3, <1>5
<1>7. \A t \in TaskIds : Runnable(ts[t]) => ts[t].priority <= ts[b].priority
  BY <1>3, <1>5 DEF IsBest
<1>8. QED  BY <1>2, <1>3, <1>4, <1>6, <1>7

\* The registers a service leaves behind.
LEMMA ResultType ==
  ASSUME live \in Context, NEW data \in Data
  PROVE  Result(data) \in Context
BY DEF Result, Context

\* D2-D5 may always be empty.
LEMMA NothingData == Nothing \in Data
BY DEF Nothing, Data

\* The end of a TRAP #11 has the effect of `schedule` on the table of the service.
LEMMA ReturnEffect ==
  ASSUME NEW ts \in [TaskIds -> Task], NEW regs \in Context, NEW code \in Codes,
         current \in TaskIds, live \in Context, Return(ts, regs, code)
  PROVE  /\ tasks' \in [TaskIds -> Task] /\ live' \in Context /\ current' \in TaskIds
         /\ phase' = "host"
         /\ \A t \in TaskIds : SameTask(tasks'[t], ts[t])
         /\ \A t \in TaskIds \ {current} : tasks'[t].cpu = ts[t].cpu
         /\ TableOK(ts) => CpuOwnerRunnable' /\ IdleReady(tasks)'
<1> DEFINE out == IF InHandler THEN regs ELSE [regs EXCEPT !.code = code]
           saved == IF ts[current].state = "Blocked"
                    THEN [ts EXCEPT ![current].cpu = out] ELSE ts
           force == ~Runnable(saved[current])
<1>1. out \in Context  BY DEF Context
<1>2. \A task \in Task : /\ [task EXCEPT !.cpu = out] \in Task
                         /\ SameTask([task EXCEPT !.cpu = out], task)
  BY <1>1 DEF Task, SameTask
<1>3. \A t \in TaskIds : SameTask(ts[t], ts[t])  BY DEF SameTask
<1>4. [ts EXCEPT ![current].cpu = out] = [ts EXCEPT ![current] = [@ EXCEPT !.cpu = out]]
  OBVIOUS
<1>5. saved \in [TaskIds -> Task]  BY <1>2, <1>4
<1>6. /\ \A t \in TaskIds : SameTask(saved[t], ts[t])
      /\ \A t \in TaskIds \ {current} : saved[t] = ts[t]
  BY <1>2, <1>3, <1>4
<1>7. Schedule(saved, out, force) /\ phase' = "host"  BY DEF Return
<1> HIDE DEF out, saved, force
<1>8. /\ tasks' \in [TaskIds -> Task] /\ live' \in Context /\ current' \in TaskIds
      /\ \A t \in TaskIds : SameTask(tasks'[t], saved[t])
      /\ \A t \in TaskIds \ {current} : tasks'[t].cpu = saved[t].cpu
  BY <1>1, <1>5, <1>7, ScheduleEffect
<1>9. \A t \in TaskIds : SameTask(tasks'[t], ts[t])
  BY <1>6, <1>8 DEF SameTask
<1>10. TableOK(ts) => TableOK(saved)
  <2>1. ASSUME TableOK(ts) PROVE TableOK(saved)
    <3>1. IdleReady(saved)  BY <1>6, <2>1, RootIdle, SameIdle DEF TableOK
    <3>2. ASSUME NEW t \in TaskIds, saved[t].state = "Running" PROVE t = current
      BY <1>6, <2>1, <3>2 DEF TableOK
    <3>3. QED  BY <1>5, <3>1, <3>2 DEF TableOK
  <2>2. QED  BY <2>1
<1>11. TableOK(ts) => CpuOwnerRunnable' /\ IdleReady(tasks)'
  BY <1>1, <1>7, <1>10, ScheduleOwner
<1>12. QED  BY <1>6, <1>7, <1>8, <1>9, <1>11

-----------------------------------------------------------------------------
(***************************************************************************)
(* The inductive invariant behind TypeOK and CpuOwnerRunnable.  IdleReady  *)
(* makes CpuOwnerRunnable inductive: `schedule` does nothing when no task  *)
(* can run, so it is IDLE that guarantees that a caller that blocked is    *)
(* switched away from.                                                     *)
(***************************************************************************)

TasksOK ==
  /\ tasks \in [TaskIds -> Task]
  /\ current \in TaskIds
  /\ live \in Context
  /\ phase \in {"host", "hostTick", "guest", "trapTick", "stopped"}
  /\ CpuOwnerRunnable
  /\ IdleReady(tasks)

ObjectsOK ==
  /\ nextTask \in Nat /\ nextTask > Idle
  /\ semaphores \in [1..MaxSemaphore -> [live: BOOLEAN, count: 0..CountLimit]]
  /\ nextSemaphore \in Nat
  /\ queues \in [1..MaxQueue -> [live: BOOLEAN, byPriority: BOOLEAN, capacity: Nat,
                                  messages: Seq(Messages)]]
  /\ nextQueue \in Nat
  /\ timers \in [1..MaxTimer -> [live: BOOLEAN, task: TaskIds, events: SUBSET Events,
                                  due: 0..MaxTimeout, period: 0..MaxTimeout]]
  /\ nextTimer \in Nat
  /\ fresh \subseteq Messages

KernelInv == TasksOK /\ ObjectsOK

\* The invariant is the type invariant and its strengthening.
LEMMA KernelInvMeaning ==
  KernelInv <=> TypeOK /\ CpuOwnerRunnable /\ IdleReady(tasks) /\ nextTask > Idle
BY DEF KernelInv, TasksOK, ObjectsOK, TypeOK

\* The table between two steps may be handed to `schedule`.
LEMMA TableNow ==
  ASSUME TasksOK
  PROVE  TableOK(tasks)
BY DEF TasksOK, TableOK, CpuOwnerRunnable

\* A service may replace the record of a task, if it does not make another task
\* than the one on the CPU Running and leaves IDLE ready.
LEMMA TableUpdate ==
  ASSUME NEW ts, TableOK(ts), NEW t \in TaskIds, NEW task \in Task,
         task.state = "Running" => t = current,
         t = Idle => /\ task.state \in {"Ready", "Running"} /\ ~task.suspended
                     /\ task.wait.on = "none"
  PROVE  TableOK([ts EXCEPT ![t] = task])
BY DEF TableOK, IdleReady

\* A service that ends with a table of this kind keeps the first half of the
\* invariant.
LEMMA ServiceSafe ==
  ASSUME TasksOK, NEW ts, TableOK(ts), NEW regs \in Context, NEW code \in Codes,
         Return(ts, regs, code)
  PROVE  TasksOK'
<1>1. ts \in [TaskIds -> Task] /\ current \in TaskIds /\ live \in Context
  BY DEF TasksOK, TableOK
<1>2. /\ tasks' \in [TaskIds -> Task] /\ live' \in Context /\ current' \in TaskIds
      /\ phase' = "host" /\ CpuOwnerRunnable' /\ IdleReady(tasks)'
  BY <1>1, ReturnEffect
<1>3. QED  BY <1>2 DEF TasksOK

\* The same for services that deliver nothing.
LEMMA DoneSafe ==
  ASSUME TasksOK, NEW ts, TableOK(ts), NEW code \in Codes, Done(ts, code)
  PROVE  TasksOK'
<1>1. Result(Nothing) \in Context  BY NothingData, ResultType DEF TasksOK
<1>2. Return(ts, Result(Nothing), code)  BY DEF Done
<1>3. QED  BY <1>1, <1>2, ServiceSafe

\* A service that touches no object keeps the second half.
LEMMA ObjectsUntouched ==
  ASSUME ObjectsOK, UNCHANGED <<nextTask, objects>>
  PROVE  ObjectsOK'
BY DEF ObjectsOK, objects

\* The return codes.
LEMMA CodesAre == {"ok", "timeout", "deleted", "refused"} \subseteq Codes
BY DEF Codes

\* A task that does not run IDLE's two instructions makes the call: a handler may
\* run over IDLE, so this is about calls that wait.
LEMMA CallerIsNotIdle ==
  ASSUME NEW name, Executes(name), MayWait
  PROVE  current # Idle
BY DEF Executes, MayWait
-----------------------------------------------------------------------------
(***************************************************************************)
(* Every step preserves the invariant: host steps and plain guest steps.   *)
(***************************************************************************)

\* A clock tick (`tick`) frees tasks and leaves the one on the CPU alone.
LEMMA TickSafe ==
  ASSUME KernelInv, Tick
  PROVE  /\ tasks' \in [TaskIds -> Task] /\ IdleReady(tasks)'
         /\ current' = current => CpuOwnerRunnable'
         /\ timers' \in [1..MaxTimer -> [live: BOOLEAN, task: TaskIds, events: SUBSET Events,
                                          due: 0..MaxTimeout, period: 0..MaxTimeout]]
<1>1. tasks' = [t \in TaskIds |-> Elapse(tasks[t])]  BY DEF Tick
<1>2. tasks \in [TaskIds -> Task]  BY DEF KernelInv, TasksOK
<1>3. tasks' \in [TaskIds -> Task]  BY <1>1, <1>2, ElapseType
<1>4. \A task \in Task : task.state # "Blocked" => Elapse(task) = task
  BY DEF Elapse, Expires
<1>5. \A task \in Task : task.state = "Blocked" => Elapse(task).state # "Running"
  BY DEF Elapse, Expires, WakeWith, Wake, Task
<1>6. \A t \in TaskIds : tasks[t].state # "Blocked" => tasks'[t] = tasks[t]
  BY <1>1, <1>2, <1>4
<1>7. IdleReady(tasks)'
  BY <1>6, RootIdle DEF KernelInv, TasksOK, IdleReady
<1>8. current' = current => CpuOwnerRunnable'
  BY <1>1, <1>2, <1>5, <1>6 DEF KernelInv, TasksOK, CpuOwnerRunnable
<1>9. timers' \in [1..MaxTimer -> [live: BOOLEAN, task: TaskIds, events: SUBSET Events,
                                     due: 0..MaxTimeout, period: 0..MaxTimeout]]
  <2> DEFINE Timer == [live: BOOLEAN, task: TaskIds, events: SUBSET Events,
                       due: 0..MaxTimeout, period: 0..MaxTimeout]
  <2>1. \A timer \in Timer : timer.due > 0 => [timer EXCEPT !.due = @ - 1] \in Timer
    BY KernelAssumption
  <2>2. timers \in [1..MaxTimer -> Timer]  BY DEF KernelInv, ObjectsOK
  <2>3. QED  BY <2>1, <2>2 DEF Tick
<1>10. QED  BY <1>3, <1>7, <1>8, <1>9

\* `send_event` changes the state of a task to Ready at most, never suspends it,
\* and leaves a task that waits for nothing waiting for nothing.
LEMMA SendEventEffect ==
  ASSUME NEW ts \in [TaskIds -> Task], NEW t \in TaskIds, NEW bits \in SUBSET Events
  PROVE  \A u \in TaskIds :
           LET new == SendEvent(ts, t, bits)[u]
           IN  /\ new.state \in {ts[u].state, "Ready"}
               /\ new.suspended = ts[u].suspended
               /\ ts[u].wait.on = "none" => new.state = ts[u].state /\ new.wait = ts[u].wait
<1> DEFINE have == ts[t].events \cup bits
           got == have \cap ts[t].wait.want
           woken == Wake([ts[t] EXCEPT !.events = have \ got], "ok", got)
<1>1. \A task \in Task : LET new == [task EXCEPT !.events = have]
                         IN  /\ new.state = task.state /\ new.suspended = task.suspended
                             /\ new.wait = task.wait
  BY DEF Task
<1>2. woken.state = "Ready" /\ woken.suspended = ts[t].suspended
  BY DEF Wake, Task
<1>3. CASE SendEvent(ts, t, bits) = [ts EXCEPT ![t].events = have]
  <2>1. SendEvent(ts, t, bits) = [ts EXCEPT ![t] = [@ EXCEPT !.events = have]]
    BY <1>3
  <2>2. QED  BY <1>1, <2>1
<1>4. CASE SendEvent(ts, t, bits) = [ts EXCEPT ![t] = woken] /\ ts[t].wait.on = "events"
  BY <1>2, <1>4
<1>5. QED  BY <1>3, <1>4 DEF SendEvent

\* A task table stays one that `schedule` may see.
LEMMA SendEventSafe ==
  ASSUME NEW ts, TableOK(ts), NEW t \in TaskIds, NEW bits \in SUBSET Events
  PROVE  TableOK(SendEvent(ts, t, bits))
<1>1. ts \in [TaskIds -> Task]  BY DEF TableOK
<1>2. SendEvent(ts, t, bits) \in [TaskIds -> Task]  BY <1>1, SendEventType
<1>3. QED  BY <1>1, <1>2, SendEventEffect, RootIdle DEF TableOK, IdleReady

\* A timer that fires (`tick`).
LEMMA FireTimerSafe == KernelInv /\ FireTimer => KernelInv'
<1> SUFFICES ASSUME KernelInv, FireTimer PROVE KernelInv'
  OBVIOUS
<1> DEFINE Timer == [live: BOOLEAN, task: TaskIds, events: SUBSET Events,
                     due: 0..MaxTimeout, period: 0..MaxTimeout]
<1>1. timers \in [1..MaxTimer -> Timer] /\ TasksOK  BY DEF KernelInv, ObjectsOK
<1>2. TableOK(tasks)  BY <1>1, TableNow
<1>3. PICK i \in 1..MaxTimer :
        /\ tasks' = SendEvent(tasks, timers[i].task, timers[i].events)
        /\ timers' = [timers EXCEPT ![i] =
                        IF @.period = 0 THEN NoTimer ELSE [@ EXCEPT !.due = timers[i].period]]
  BY DEF FireTimer
<1>4. UNCHANGED <<current, live, nextTask, semaphores, nextSemaphore, queues, nextQueue,
                  nextTimer, fresh, phase>>
  BY DEF FireTimer
<1>5. TableOK(tasks')  BY <1>1, <1>2, <1>3, SendEventSafe
<1>6. CpuOwnerRunnable'
  <2>1. tasks \in [TaskIds -> Task] /\ current \in TaskIds  BY <1>1 DEF TasksOK
  <2>2. /\ tasks'[current].state \in {tasks[current].state, "Ready"}
        /\ tasks'[current].suspended = tasks[current].suspended
    BY <1>1, <1>3, <2>1, SendEventEffect
  <2>3. QED  BY <1>1, <1>4, <1>5, <2>2 DEF TasksOK, CpuOwnerRunnable, TableOK
<1>7. TasksOK'  BY <1>1, <1>4, <1>5, <1>6 DEF TasksOK, TableOK, IdleReady
<1>8. timers' \in [1..MaxTimer -> Timer]
  <2>1. NoTimer \in Timer  BY KernelAssumption, RootIdle DEF NoTimer
  <2>2. [timers[i] EXCEPT !.due = timers[i].period] \in Timer  BY <1>1
  <2>3. QED  BY <1>1, <1>3, <2>1, <2>2
<1>9. ObjectsOK'  BY <1>4, <1>8 DEF KernelInv, ObjectsOK
<1>10. QED  BY <1>7, <1>9 DEF KernelInv

\* The clock of before_instruction and the tick the guest announces.
LEMMA TicksSafe == KernelInv /\ (HostTick \/ Tm_Tick) => KernelInv'
<1> SUFFICES ASSUME KernelInv, HostTick \/ Tm_Tick PROVE KernelInv'
  OBVIOUS
<1>1. /\ Tick /\ phase' \in {"hostTick", "trapTick"}
      /\ UNCHANGED <<current, live, nextTask, semaphores, nextSemaphore, queues, nextQueue,
                     nextTimer, fresh>>
  BY DEF HostTick, Tm_Tick
<1>2. TasksOK'  BY <1>1, TickSafe DEF KernelInv, TasksOK
<1>3. ObjectsOK'  BY <1>1, TickSafe DEF KernelInv, ObjectsOK
<1>4. QED  BY <1>2, <1>3 DEF KernelInv

\* schedule(false) before an instruction.
LEMMA BeforeInstructionSafe == KernelInv /\ BeforeInstruction => KernelInv'
<1> SUFFICES ASSUME KernelInv, BeforeInstruction PROVE KernelInv'
  OBVIOUS
<1>1. /\ Schedule(tasks, live, FALSE) /\ phase' = "guest" /\ UNCHANGED <<nextTask, objects>>
  BY DEF BeforeInstruction
<1>2. TasksOK /\ ObjectsOK /\ TableOK(tasks)  BY TableNow DEF KernelInv
<1>3. CpuOwnerRunnable' /\ IdleReady(tasks)'
  BY <1>1, <1>2, ScheduleOwner DEF TasksOK
<1>4. tasks' \in [TaskIds -> Task] /\ live' \in Context /\ current' \in TaskIds
  BY <1>1, <1>2, ScheduleEffect DEF TasksOK
<1>5. TasksOK'  BY <1>1, <1>3, <1>4 DEF TasksOK
<1>6. QED  BY <1>1, <1>2, <1>5, ObjectsUntouched DEF KernelInv

\* TRAP #13.
LEMMA Trap13Safe == KernelInv /\ Trap13 => KernelInv'
<1> SUFFICES ASSUME KernelInv, Trap13 PROVE KernelInv'
  OBVIOUS
<1> DEFINE regs == [live EXCEPT !.masked = (live.frame = "masked"), !.frame = "none"]
<1>1. /\ Schedule(tasks, regs, FALSE) /\ phase' = "host" /\ UNCHANGED <<nextTask, objects>>
  BY DEF Trap13
<1>2. TasksOK /\ ObjectsOK /\ TableOK(tasks)  BY TableNow DEF KernelInv
<1>3. regs \in Context  BY <1>2 DEF TasksOK, Context
<1> HIDE DEF regs
<1>4. CpuOwnerRunnable' /\ IdleReady(tasks)'
  BY <1>1, <1>2, <1>3, ScheduleOwner DEF TasksOK
<1>5. tasks' \in [TaskIds -> Task] /\ live' \in Context /\ current' \in TaskIds
  BY <1>1, <1>2, <1>3, ScheduleEffect DEF TasksOK
<1>6. TasksOK'  BY <1>1, <1>4, <1>5 DEF TasksOK
<1>7. QED  BY <1>1, <1>2, <1>6, ObjectsUntouched DEF KernelInv

\* Instructions that are no kernel service.
LEMMA PlainStepSafe ==
  KernelInv /\ (Compute \/ WriteSR \/ Interrupt \/ Fault \/ UNCHANGED vars) => KernelInv'
<1> SUFFICES ASSUME KernelInv, Compute \/ WriteSR \/ Interrupt \/ Fault \/ UNCHANGED vars
             PROVE  KernelInv'
  OBVIOUS
<1>1. UNCHANGED <<tasks, current, nextTask, objects>>
  BY DEF Compute, WriteSR, Interrupt, Fault, vars, objects
<1>2. live' \in Context /\ phase' \in {"host", "hostTick", "guest", "trapTick", "stopped"}
  <2>1. live \in Context /\ phase \in {"host", "hostTick", "guest", "trapTick", "stopped"}
    BY DEF KernelInv, TasksOK
  <2>2. CASE WriteSR  BY <2>1, <2>2 DEF WriteSR, Context
  <2>3. CASE Interrupt  BY <2>1, <2>3 DEF Interrupt, Context
  <2>4. CASE Compute \/ Fault \/ UNCHANGED vars  BY <2>1, <2>4 DEF Compute, Fault, vars
  <2>5. QED  BY <2>2, <2>3, <2>4
<1>3. TasksOK'  BY <1>1, <1>2 DEF KernelInv, TasksOK, CpuOwnerRunnable, IdleReady
<1>4. QED  BY <1>1, <1>3, ObjectsUntouched DEF KernelInv

-----------------------------------------------------------------------------
(***************************************************************************)
(* Every step preserves the invariant: kernel services.                    *)
(***************************************************************************)

\* A record of a task that is not IDLE and not Running may be put in the table.
LEMMA OtherTask ==
  ASSUME TasksOK, NEW t \in TaskIds, t # Idle, NEW task \in Task,
         task.state = "Running" => t = current
  PROVE  TableOK([tasks EXCEPT ![t] = task])
BY TableNow, TableUpdate

\* A record that differs from the one in the table in priority, mode or suspension.
LEMMA SameStateTask ==
  ASSUME TasksOK, NEW t \in TaskIds, NEW task \in Task,
         task.state = tasks[t].state, task.wait = tasks[t].wait,
         t = Idle => ~task.suspended
  PROVE  TableOK([tasks EXCEPT ![t] = task])
<1>1. TableOK(tasks)  BY TableNow
<1>2. QED  BY <1>1, TableUpdate DEF TableOK, IdleReady

\* Task services.
LEMMA TaskServicesSafe == KernelInv /\ TaskServices => KernelInv'
<1> SUFFICES ASSUME KernelInv, TaskServices PROVE KernelInv'
  OBVIOUS
<1>1. /\ TasksOK /\ ObjectsOK /\ TableOK(tasks)
      /\ tasks \in [TaskIds -> Task] /\ current \in TaskIds /\ live \in Context
  BY TableNow DEF KernelInv, TasksOK
<1>2. CASE T_Create
  <2>1. TasksOK'
    <3>1. ASSUME NEW priority \in Priorities, nextTask <= MaxTask,
                 Done([tasks EXCEPT ![nextTask] =
                         [NoTask EXCEPT !.state = "Created", !.priority = priority]], "ok")
          PROVE  TasksOK'
      <4>1. [NoTask EXCEPT !.state = "Created", !.priority = priority] \in Task
        <5>1. 0 \in 0..255 /\ 0 \in 0..MaxTimeout /\ priority \in 0..255  BY KernelAssumption
        <5>2. EmptyContext \in Context /\ NotWaiting \in Wait
          BY NothingData DEF EmptyContext, Context, Codes, NotWaiting, Wait
        <5>3. QED  BY <5>1, <5>2 DEF NoTask, Task, States, Mode
      <4>2. nextTask \in TaskIds /\ nextTask # Idle
        BY <1>1, <3>1 DEF ObjectsOK, TaskIds, Idle
      <4>3. [NoTask EXCEPT !.state = "Created", !.priority = priority].state # "Running"
        BY DEF NoTask
      <4>4. TableOK([tasks EXCEPT ![nextTask] =
                       [NoTask EXCEPT !.state = "Created", !.priority = priority]])
        BY <1>1, <4>1, <4>2, <4>3, OtherTask
      <4>5. QED  BY <1>1, <3>1, <4>4, DoneSafe, CodesAre
    <3>2. Done(tasks, "refused") => TasksOK'  BY <1>1, DoneSafe, CodesAre
    <3>3. QED  BY <1>2, <3>1, <3>2 DEF T_Create
  <2>2. ObjectsOK'  BY <1>1, <1>2 DEF T_Create, ObjectsOK, objects, Idle
  <2>3. QED  BY <2>1, <2>2 DEF KernelInv
<1>3. ASSUME NEW t \in TaskIds, t # Idle, NEW mode \in Mode,
             Done([tasks EXCEPT ![t] = Started(@, mode)], "ok")
      PROVE  TasksOK'
  <2>1. Started(tasks[t], mode) \in Task  BY <1>1, StartedType
  <2>2. Started(tasks[t], mode).state = "Ready"  BY <1>1 DEF Started, Task
  <2>3. TableOK([tasks EXCEPT ![t] = Started(tasks[t], mode)])
    BY <1>1, <1>3, <2>1, <2>2, OtherTask
  <2>4. QED  BY <1>1, <1>3, <2>3, DoneSafe, CodesAre
<1>4. CASE T_Start
  <2>1. TasksOK'  BY <1>3, <1>4, KernelAssumption DEF T_Start, T_Start_Of, MayReset
  <2>2. QED  BY <1>1, <1>4, <2>1, ObjectsUntouched DEF T_Start, T_Start_Of, KernelInv
<1>5. CASE T_Restart
  <2>1. \A t \in TaskIds : tasks[t].mode \in Mode  BY <1>1 DEF Task
  <2>2. TasksOK'  BY <1>3, <1>5, <2>1 DEF T_Restart, T_Restart_Of, MayReset
  <2>3. QED  BY <1>1, <1>5, <2>2, ObjectsUntouched DEF T_Restart, T_Restart_Of, KernelInv
<1>6. CASE T_Delete
  <2>1. ASSUME NEW t \in TaskIds, t # Idle,
               Done([tasks EXCEPT ![t].state = "Dead"], "ok")
        PROVE  TasksOK'
    <3>1. \A task \in Task : /\ [task EXCEPT !.state = "Dead"] \in Task
                             /\ [task EXCEPT !.state = "Dead"].state # "Running"
      BY DEF Task, States
    <3>2. TableOK([tasks EXCEPT ![t] = [tasks[t] EXCEPT !.state = "Dead"]])
      BY <1>1, <2>1, <3>1, OtherTask
    <3>3. QED  BY <1>1, <2>1, <3>2, DoneSafe, CodesAre
  <2>2. TasksOK'  BY <1>6, <2>1 DEF T_Delete, T_Delete_Of, MayReset
  <2>3. QED  BY <1>1, <1>6, <2>2, ObjectsUntouched DEF T_Delete, T_Delete_Of, KernelInv
<1>7. ASSUME NEW t \in TaskIds, NEW b \in BOOLEAN, t = Idle => ~b,
             Done([tasks EXCEPT ![t].suspended = b], "ok")
      PROVE  TasksOK'
  <2>1. \A task \in Task : LET new == [task EXCEPT !.suspended = b]
                           IN  /\ new \in Task /\ new.state = task.state
                               /\ new.wait = task.wait /\ new.suspended = b
    BY DEF Task
  <2>2. TableOK([tasks EXCEPT ![t] = [tasks[t] EXCEPT !.suspended = b]])
    BY <1>1, <1>7, <2>1, SameStateTask
  <2>3. QED  BY <1>1, <1>7, <2>2, DoneSafe, CodesAre
<1>8. CASE T_Suspend
  <2>1. TasksOK'  BY <1>7, <1>8 DEF T_Suspend
  <2>2. QED  BY <1>1, <1>8, <2>1, ObjectsUntouched DEF T_Suspend, KernelInv
<1>9. CASE T_Resume
  <2>1. TasksOK'  BY <1>7, <1>9 DEF T_Resume
  <2>2. QED  BY <1>1, <1>9, <2>1, ObjectsUntouched DEF T_Resume, KernelInv
<1>10. CASE T_SetPri
  <2>1. ASSUME NEW t \in TaskIds, NEW priority \in 0..255,
               Done([tasks EXCEPT ![t].priority = priority], "ok")
        PROVE  TasksOK'
    <3>1. \A task \in Task : LET new == [task EXCEPT !.priority = priority]
                             IN  /\ new \in Task /\ new.state = task.state
                                 /\ new.wait = task.wait /\ new.suspended = task.suspended
      BY DEF Task
    <3>2. TableOK([tasks EXCEPT ![t] = [tasks[t] EXCEPT !.priority = priority]])
      BY <1>1, <3>1, SameStateTask DEF TasksOK, IdleReady
    <3>3. QED  BY <1>1, <2>1, <3>2, DoneSafe, CodesAre
  <2>2. TasksOK'  BY <1>10, <2>1, KernelAssumption DEF T_SetPri
  <2>3. QED  BY <1>1, <1>10, <2>2, ObjectsUntouched DEF T_SetPri, KernelInv
<1>11. CASE T_Mode
  <2>1. ASSUME NEW mode \in Mode, NEW regs \in Context,
               Return([tasks EXCEPT ![current].mode = mode], regs, "ok")
        PROVE  TasksOK'
    <3>1. \A task \in Task : LET new == [task EXCEPT !.mode = mode]
                             IN  /\ new \in Task /\ new.state = task.state
                                 /\ new.wait = task.wait /\ new.suspended = task.suspended
      BY DEF Task
    <3>2. TableOK([tasks EXCEPT ![current] = [tasks[current] EXCEPT !.mode = mode]])
      BY <1>1, <3>1, SameStateTask DEF TasksOK, IdleReady
    <3>3. QED  BY <1>1, <2>1, <3>2, ServiceSafe, CodesAre
  <2>2. Result(Nothing) \in Context  BY <1>1, NothingData, ResultType
  <2>3. ASSUME NEW np \in BOOLEAN, Done([tasks EXCEPT ![current].mode.np = np], "ok")
        PROVE  TasksOK'
    <3>1. [tasks[current].mode EXCEPT !.np = np] \in Mode  BY <1>1 DEF Task, Mode
    <3>2. [tasks EXCEPT ![current].mode.np = np] =
            [tasks EXCEPT ![current].mode = [tasks[current].mode EXCEPT !.np = np]]
      OBVIOUS
    <3>3. QED  BY <2>1, <2>2, <2>3, <3>1, <3>2 DEF Done
  <2>4. ASSUME NEW mode \in Mode,
               Return([tasks EXCEPT ![current].mode = mode],
                      [Result(Nothing) EXCEPT !.masked = mode.masked], "ok")
        PROVE  TasksOK'
    <3>1. [Result(Nothing) EXCEPT !.masked = mode.masked] \in Context
      BY <2>2 DEF Context, Mode
    <3>2. QED  BY <2>1, <2>4, <3>1
  <2>5. TasksOK'  BY <1>11, <2>3, <2>4 DEF T_Mode
  <2>6. QED  BY <1>1, <1>11, <2>5, ObjectsUntouched DEF T_Mode, KernelInv
<1>12. CASE NoEffect
  <2>1. TasksOK'  BY <1>1, <1>12, DoneSafe, CodesAre DEF NoEffect
  <2>2. QED  BY <1>1, <1>12, <2>1, ObjectsUntouched DEF NoEffect, KernelInv
<1>13. QED
  BY <1>2, <1>4, <1>5, <1>6, <1>8, <1>9, <1>10, <1>11, <1>12 DEF TaskServices

\* Waking tasks that wait keeps a table that `schedule` may see: IDLE never waits.
LEMMA WakeSafe ==
  ASSUME TasksOK, NEW to \in SUBSET TaskIds, Idle \notin to, NEW code \in Codes,
         NEW data \in [TaskIds -> Data]
  PROVE  TableOK([t \in TaskIds |-> IF t \in to THEN Wake(tasks[t], code, data[t])
                                                ELSE tasks[t]])
<1> DEFINE new == [t \in TaskIds |-> IF t \in to THEN Wake(tasks[t], code, data[t])
                                                 ELSE tasks[t]]
<1>1. tasks \in [TaskIds -> Task] /\ TableOK(tasks)  BY TableNow DEF TasksOK
<1>2. \A t \in to : Wake(tasks[t], code, data[t]) \in Task
  BY <1>1, WakeType
<1>3. new \in [TaskIds -> Task]  BY <1>1, <1>2
<1>4. ASSUME NEW t \in to PROVE new[t].state = "Ready"
  <2>1. tasks[t] \in Task  BY <1>1
  <2>2. Wake(tasks[t], code, data[t]).state = "Ready"  BY <2>1, SMTT(60) DEF Wake, Task
  <2>3. QED  BY <2>2, SMTT(60)
<1>5. \A t \in TaskIds \ to : new[t] = tasks[t]  OBVIOUS
<1> HIDE DEF new
<1>6. \A t \in TaskIds : new[t].state = "Running" => t = current
  BY <1>1, <1>4, <1>5 DEF TableOK
<1>7. IdleReady(new)  BY <1>1, <1>5, RootIdle DEF TableOK, IdleReady
<1>8. TableOK(new)  BY <1>3, <1>6, <1>7 DEF TableOK
<1>9. QED  BY <1>8 DEF new

\* IDLE is among no object's waiters.
LEMMA IdleNeverWaits ==
  ASSUME TasksOK, NEW kind \in {"queue", "semaphore"}, NEW id
  PROVE  Waiters(kind, id) \subseteq TaskIds /\ Idle \notin Waiters(kind, id)
BY DEF Waiters, TasksOK, IdleReady

\* Handing a payload to waiters.
LEMMA DeliverSafe ==
  ASSUME TasksOK, NEW q, NEW to \in SUBSET Waiters("queue", q), NEW payload \in Data
  PROVE  TableOK(Deliver(to, payload))
<1>1. to \subseteq TaskIds /\ Idle \notin to  BY IdleNeverWaits
<1> DEFINE data == [t \in TaskIds |-> payload]
           woken == [t \in TaskIds |-> IF t \in to THEN Wake(tasks[t], "ok", data[t])
                                                   ELSE tasks[t]]
<1>2. data \in [TaskIds -> Data] /\ \A t \in TaskIds : data[t] = payload  OBVIOUS
<1>3. woken = Deliver(to, payload)  BY <1>2 DEF Deliver
<1>4. TableOK(woken)
  <2> HIDE DEF data
  <2>1. QED  BY <1>1, <1>2, WakeSafe, CodesAre
<1>5. QED  BY <1>3, <1>4

\* Ending waits with a return code only.
LEMMA WakeWithSafe ==
  ASSUME TasksOK, NEW kind \in {"queue", "semaphore"}, NEW id,
         NEW to \in SUBSET Waiters(kind, id), NEW code \in Codes
  PROVE  TableOK([t \in TaskIds |-> IF t \in to THEN WakeWith(tasks[t], code)
                                                ELSE tasks[t]])
<1>1. to \subseteq TaskIds /\ Idle \notin to  BY IdleNeverWaits
<1> DEFINE data == [t \in TaskIds |-> tasks[t].cpu.data]
           woken == [t \in TaskIds |-> IF t \in to THEN Wake(tasks[t], code, data[t])
                                                   ELSE tasks[t]]
<1>2. data \in [TaskIds -> Data]  BY DEF TasksOK, Task, Context
<1>3. woken = [t \in TaskIds |-> IF t \in to THEN WakeWith(tasks[t], code) ELSE tasks[t]]
  BY DEF WakeWith
<1>4. TableOK(woken)
  <2>1. \A t \in TaskIds : data[t] = tasks[t].cpu.data  OBVIOUS
  <2> HIDE DEF data
  <2>2. QED  BY <1>1, <1>2, WakeSafe
<1>5. QED  BY <1>3, <1>4

\* A caller that is not IDLE may block.
LEMMA BlockSafe ==
  ASSUME TasksOK, current # Idle, NEW wait \in Wait, NEW timeout \in 0..MaxTimeout
  PROVE  TableOK(Block(tasks, wait, timeout))
<1>1. tasks \in [TaskIds -> Task] /\ current \in TaskIds  BY DEF TasksOK
<1> DEFINE new == [tasks[current] EXCEPT !.state = "Blocked", !.wait = wait,
                                         !.left = timeout]
<1>2. \A task \in Task :
        LET blocked == [task EXCEPT !.state = "Blocked", !.wait = wait, !.left = timeout]
        IN  blocked \in Task /\ blocked.state = "Blocked"
  BY DEF Task, States
<1>3. new \in Task /\ new.state = "Blocked"  BY <1>1, <1>2
<1>4. Block(tasks, wait, timeout) = [tasks EXCEPT ![current] = new]  BY DEF Block
<1> HIDE DEF new
<1>5. QED  BY <1>1, <1>3, <1>4, OtherTask

\* What a task waits for.
LEMMA WaitForType ==
  ASSUME NEW kind \in {"semaphore", "queue", "sleep"}, NEW id \in Nat
  PROVE  WaitFor(kind, id) \in Wait
BY DEF WaitFor, NotWaiting, Wait

\* Queue services.
LEMMA QueueServicesSafe == KernelInv /\ QueueServices => KernelInv'
<1> SUFFICES ASSUME KernelInv, QueueServices PROVE KernelInv'
  OBVIOUS
<1> DEFINE Queue == [live: BOOLEAN, byPriority: BOOLEAN, capacity: Nat,
                     messages: Seq(Messages)]
<1>1. /\ TasksOK /\ ObjectsOK /\ TableOK(tasks) /\ live \in Context
      /\ queues \in [1..MaxQueue -> Queue] /\ fresh \subseteq Messages
  BY TableNow DEF KernelInv, TasksOK, ObjectsOK
<1>2. NoQueue \in Queue  BY DEF NoQueue
<1>3. ASSUME UNCHANGED <<nextTask, semaphores, nextSemaphore, timers, nextTimer>>,
             queues' \in [1..MaxQueue -> Queue], nextQueue' \in Nat, fresh' \subseteq Messages
      PROVE  ObjectsOK'
  BY <1>1, <1>3 DEF ObjectsOK
<1>4. CASE Q_Create
  <2>1. TasksOK'  BY <1>1, <1>4, DoneSafe, CodesAre DEF Q_Create
  <2>2. queues' \in [1..MaxQueue -> Queue] /\ nextQueue' \in Nat
    <3>1. nextQueue \in Nat  BY <1>1 DEF ObjectsOK
    <3>2. \A byPriority \in BOOLEAN, capacity \in Capacities :
            [live |-> TRUE, byPriority |-> byPriority, capacity |-> capacity,
             messages |-> <<>>] \in Queue
      <4>1. Capacities \subseteq Nat  BY KernelAssumption
      <4>2. <<>> \in Seq(Messages)  OBVIOUS
      <4>3. QED  BY <4>1, <4>2, SMTT(60)
    <3>3. \/ UNCHANGED <<queues, nextQueue>>
          \/ /\ nextQueue' = nextQueue + 1
             /\ \E new \in Queue : queues' = [queues EXCEPT ![nextQueue] = new]
      BY <1>4, <3>2 DEF Q_Create
    <3> HIDE DEF Queue
    <3>4. QED  BY <1>1, <3>1, <3>3
  <2>3. ObjectsOK'  BY <1>1, <1>3, <1>4, <2>2 DEF Q_Create
  <2>4. QED  BY <2>1, <2>3 DEF KernelInv
<1>5. CASE Q_Delete
  <2>1. PICK q \in 1..MaxQueue :
          /\ queues' = [queues EXCEPT ![q] = NoQueue]
          /\ Done([t \in TaskIds |-> IF t \in Waiters("queue", q)
                                       THEN WakeWith(tasks[t], "deleted") ELSE tasks[t]], "ok")
    BY <1>5 DEF Q_Delete
  <2>2. TasksOK'  BY <1>1, <2>1, WakeWithSafe, DoneSafe, CodesAre
  <2>3. queues' \in [1..MaxQueue -> Queue]  BY <1>1, <1>2, <2>1
  <2>4. ObjectsOK'  BY <1>1, <1>3, <1>5, <2>3 DEF Q_Delete, ObjectsOK
  <2>5. QED  BY <2>2, <2>4 DEF KernelInv
<1>6. ASSUME NEW q \in 1..MaxQueue, NEW message \in fresh, NEW urgent \in BOOLEAN,
             Q_Put(q, message, urgent)
      PROVE  /\ TasksOK' /\ queues' \in [1..MaxQueue -> Queue]
             /\ fresh' \subseteq Messages
  <2>1. message \in Messages /\ message \in Data  BY <1>1 DEF Data
  <2>2. TasksOK'
    <3>1. ASSUME NEW t \in Waiters("queue", q), Done(Deliver({t}, message), "ok")
          PROVE  TasksOK'
      <4>1. TableOK(Deliver({t}, message))  BY <1>1, <2>1, DeliverSafe
      <4>2. QED  BY <1>1, <3>1, <4>1, DoneSafe, CodesAre
    <3>2. ASSUME NEW code \in Codes, Done(tasks, code) PROVE TasksOK'
      BY <1>1, <3>2, DoneSafe
    <3>3. QED  BY <1>6, <3>1, <3>2, CodesAre DEF Q_Put
  <2>3. ASSUME NEW new \in Seq(Messages)
        PROVE  [queues EXCEPT ![q].messages = new] \in [1..MaxQueue -> Queue]
    BY <1>1
  <2>4. queues[q].messages \in Seq(Messages)  BY <1>1
  <2>5. /\ Append(queues[q].messages, message) \in Seq(Messages)
        /\ <<message>> \o queues[q].messages \in Seq(Messages)
    BY <2>1, <2>4
  <2>6. QED  BY <1>1, <1>6, <2>2, <2>3, <2>5, ZenonT(60) DEF Q_Put
<1>7. CASE Q_Send \/ Q_Urgent
  <2>1. PICK q \in 1..MaxQueue, message \in fresh, urgent \in BOOLEAN :
          Q_Put(q, message, urgent)
    BY <1>7 DEF Q_Send, Q_Urgent
  <2>2. ObjectsOK'  BY <1>1, <1>3, <1>6, <1>7, <2>1 DEF Q_Send, Q_Urgent, ObjectsOK
  <2>3. QED  BY <1>6, <2>1, <2>2 DEF KernelInv
<1>8. CASE Q_Broadcast
  <2>1. PICK q \in 1..MaxQueue, notice \in Notices :
          Done(Deliver(Waiters("queue", q), notice), "ok")
    BY <1>8 DEF Q_Broadcast
  <2>2. notice \in Data  BY DEF Data
  <2>3. TasksOK'  BY <1>1, <2>1, <2>2, DeliverSafe, DoneSafe, CodesAre
  <2>4. QED  BY <1>1, <1>8, <2>3, ObjectsUntouched DEF Q_Broadcast, KernelInv
<1>9. CASE Q_Receive
  <2>1. PICK q \in 1..MaxQueue :
          \/ /\ queues[q].messages # <<>>
             /\ queues' = [queues EXCEPT ![q].messages = Tail(@)]
             /\ Return(tasks, Result(Head(queues[q].messages)), "ok")
          \/ Done(tasks, "refused") /\ UNCHANGED queues
          \/ /\ MayWait /\ UNCHANGED queues
             /\ \E timeout \in 0..MaxTimeout :
                  Done(Block(tasks, WaitFor("queue", q), timeout), "ok")
    BY <1>9 DEF Q_Receive
  <2>2. CASE /\ queues[q].messages # <<>>
             /\ queues' = [queues EXCEPT ![q].messages = Tail(@)]
             /\ Return(tasks, Result(Head(queues[q].messages)), "ok")
    <3>1. queues[q].messages \in Seq(Messages)  BY <1>1
    <3>2. /\ Head(queues[q].messages) \in Data
          /\ Tail(queues[q].messages) \in Seq(Messages)
      BY <2>2, <3>1 DEF Data
    <3>3. TasksOK'  BY <1>1, <2>2, <3>2, ResultType, ServiceSafe, CodesAre
    <3>4. queues' \in [1..MaxQueue -> Queue]  BY <1>1, <2>2, <3>2
    <3>5. ObjectsOK'  BY <1>1, <1>3, <1>9, <3>4 DEF Q_Receive, ObjectsOK
    <3>6. QED  BY <3>3, <3>5 DEF KernelInv
  <2>3. CASE Done(tasks, "refused") /\ UNCHANGED queues
    <3>1. TasksOK'  BY <1>1, <2>3, DoneSafe, CodesAre
    <3>2. QED  BY <1>1, <1>3, <1>9, <2>3, <3>1 DEF Q_Receive, ObjectsOK, KernelInv
  <2>4. CASE /\ MayWait /\ UNCHANGED queues
             /\ \E timeout \in 0..MaxTimeout :
                  Done(Block(tasks, WaitFor("queue", q), timeout), "ok")
    <3>1. current # Idle  BY <1>9, <2>4, CallerIsNotIdle DEF Q_Receive
    <3>2. WaitFor("queue", q) \in Wait  BY WaitForType
    <3>3. TasksOK'  BY <1>1, <2>4, <3>1, <3>2, BlockSafe, DoneSafe, CodesAre
    <3>4. QED  BY <1>1, <1>3, <1>9, <2>4, <3>3 DEF Q_Receive, ObjectsOK, KernelInv
  <2>5. QED  BY <2>1, <2>2, <2>3, <2>4
<1>10. QED  BY <1>4, <1>5, <1>7, <1>8, <1>9 DEF QueueServices

\* Event services.
LEMMA EventServicesSafe == KernelInv /\ EventServices => KernelInv'
<1> SUFFICES ASSUME KernelInv, EventServices PROVE KernelInv'
  OBVIOUS
<1>1. /\ TasksOK /\ ObjectsOK /\ TableOK(tasks) /\ live \in Context
      /\ tasks \in [TaskIds -> Task] /\ current \in TaskIds
  BY TableNow DEF KernelInv, TasksOK
<1>2. CASE Ev_Send
  <2>1. TasksOK'  BY <1>1, <1>2, SendEventSafe, DoneSafe, CodesAre DEF Ev_Send
  <2>2. QED  BY <1>1, <1>2, <2>1, ObjectsUntouched DEF Ev_Send, KernelInv
<1>3. CASE Ev_Receive
  <2>1. PICK want \in SUBSET Events, any \in BOOLEAN :
          LET have == tasks[current].events
              got == have \cap want
          IN  \/ Return(tasks, Result(have), "ok")
              \/ Return([tasks EXCEPT ![current].events = @ \ got], Result(got), "ok")
              \/ Done(tasks, "refused")
              \/ /\ MayWait
                 /\ \E timeout \in 0..MaxTimeout :
                      Done(Block(tasks, [NotWaiting EXCEPT !.on = "events", !.want = want,
                                                           !.any = any], timeout), "ok")
    BY <1>3 DEF Ev_Receive
  <2> DEFINE have == tasks[current].events
             got == have \cap want
             rest == [tasks[current] EXCEPT !.events = have \ got]
             wait == [NotWaiting EXCEPT !.on = "events", !.want = want, !.any = any]
  <2>2. have \in SUBSET Events /\ got \in SUBSET Events  BY <1>1 DEF Task
  <2>3. Result(have) \in Context /\ Result(got) \in Context
    BY <1>1, <2>2, ResultType DEF Data
  <2>4. Return(tasks, Result(have), "ok") => TasksOK'
    BY <1>1, <2>3, ServiceSafe, CodesAre
  <2>5. Return([tasks EXCEPT ![current].events = @ \ got], Result(got), "ok") => TasksOK'
    <3>1. \A task \in Task, e \in SUBSET Events :
            LET new == [task EXCEPT !.events = e]
            IN  /\ new \in Task /\ new.state = task.state /\ new.wait = task.wait
                /\ new.suspended = task.suspended
      BY DEF Task
    <3>2. /\ rest \in Task /\ rest.state = tasks[current].state
          /\ rest.wait = tasks[current].wait /\ rest.suspended = tasks[current].suspended
      BY <1>1, <2>2, <3>1
    <3>3. [tasks EXCEPT ![current].events = @ \ got] = [tasks EXCEPT ![current] = rest]
      OBVIOUS
    <3>4. TableOK([tasks EXCEPT ![current] = rest])
      <4> HIDE DEF rest
      <4>1. QED  BY <1>1, <3>2, SameStateTask DEF TasksOK, IdleReady
    <3>5. QED  BY <1>1, <2>3, <3>3, <3>4, ServiceSafe, CodesAre
  <2>6. ASSUME MayWait, NEW timeout \in 0..MaxTimeout, Done(Block(tasks, wait, timeout), "ok")
        PROVE  TasksOK'
    <3>1. current # Idle  BY <1>3, <2>6, CallerIsNotIdle DEF Ev_Receive
    <3>2. wait \in Wait  BY DEF NotWaiting, Wait
    <3> HIDE DEF wait
    <3>3. QED  BY <1>1, <2>6, <3>1, <3>2, BlockSafe, DoneSafe, CodesAre
  <2>7. Done(tasks, "refused") => TasksOK'  BY <1>1, DoneSafe, CodesAre
  <2>8. TasksOK'  BY <2>1, <2>4, <2>5, <2>6, <2>7
  <2>9. QED  BY <1>1, <1>3, <2>8, ObjectsUntouched DEF Ev_Receive, KernelInv
<1>4. QED  BY <1>2, <1>3 DEF EventServices

\* Semaphore services.
LEMMA SemaphoreServicesSafe == KernelInv /\ SemaphoreServices => KernelInv'
<1> SUFFICES ASSUME KernelInv, SemaphoreServices PROVE KernelInv'
  OBVIOUS
<1> DEFINE Semaphore == [live: BOOLEAN, count: 0..CountLimit]
<1>1. /\ TasksOK /\ ObjectsOK /\ TableOK(tasks) /\ live \in Context
      /\ semaphores \in [1..MaxSemaphore -> Semaphore]
  BY TableNow DEF KernelInv, TasksOK, ObjectsOK
<1>2. ASSUME UNCHANGED <<nextTask, queues, nextQueue, timers, nextTimer, fresh>>,
             semaphores' \in [1..MaxSemaphore -> Semaphore], nextSemaphore' \in Nat
      PROVE  ObjectsOK'
  BY <1>1, <1>2 DEF ObjectsOK
<1>3. ASSUME NEW s \in 1..MaxSemaphore, NEW n \in 0..CountLimit
      PROVE  [semaphores EXCEPT ![s].count = n] \in [1..MaxSemaphore -> Semaphore]
  BY <1>1
<1>4. CASE Sm_Create
  <2>1. TasksOK'  BY <1>1, <1>4, DoneSafe, CodesAre DEF Sm_Create
  <2>2. semaphores' \in [1..MaxSemaphore -> Semaphore] /\ nextSemaphore' \in Nat
    <3>1. nextSemaphore \in Nat  BY <1>1 DEF ObjectsOK
    <3>2. \A count \in Counts : [live |-> TRUE, count |-> count] \in Semaphore
      BY KernelAssumption
    <3>3. \/ UNCHANGED <<semaphores, nextSemaphore>>
          \/ /\ nextSemaphore' = nextSemaphore + 1
             /\ \E new \in Semaphore : semaphores' = [semaphores EXCEPT ![nextSemaphore] = new]
      BY <1>4, <3>2 DEF Sm_Create
    <3> HIDE DEF Semaphore
    <3>4. QED  BY <1>1, <3>1, <3>3
  <2>3. QED  BY <1>2, <1>4, <2>1, <2>2 DEF Sm_Create, KernelInv
<1>5. CASE Sm_Delete
  <2>1. NoSemaphore \in Semaphore  BY KernelAssumption DEF NoSemaphore
  <2>2. semaphores' \in [1..MaxSemaphore -> Semaphore]  BY <1>1, <1>5, <2>1 DEF Sm_Delete,
       Sm_Delete_On
  <2>3. TasksOK'  BY <1>1, <1>5, DoneSafe, CodesAre DEF Sm_Delete, Sm_Delete_On
  <2>4. QED  BY <1>1, <1>2, <1>5, <2>2, <2>3 DEF Sm_Delete, Sm_Delete_On, ObjectsOK,
       KernelInv
<1>6. CASE Sm_P
  <2>1. TasksOK'
    <3>1. ASSUME MayWait, NEW s \in 1..MaxSemaphore, NEW timeout \in 0..MaxTimeout,
                 Done(Block(tasks, WaitFor("semaphore", s), timeout), "ok")
          PROVE  TasksOK'
      <4>1. current # Idle  BY <1>6, <3>1, CallerIsNotIdle DEF Sm_P, Sm_P_On
      <4>2. WaitFor("semaphore", s) \in Wait  BY WaitForType
      <4>3. QED  BY <1>1, <3>1, <4>1, <4>2, BlockSafe, DoneSafe, CodesAre
    <3>2. ASSUME NEW code \in Codes, Done(tasks, code) PROVE TasksOK'
      BY <1>1, <3>2, DoneSafe
    <3>3. QED  BY <1>6, <3>1, <3>2, CodesAre DEF Sm_P, Sm_P_On
  <2>2. semaphores' \in [1..MaxSemaphore -> Semaphore]
    <3>1. \A s \in 1..MaxSemaphore :
            semaphores[s].count # 0 => semaphores[s].count - 1 \in 0..CountLimit
      BY <1>1, KernelAssumption
    <3>2. QED  BY <1>1, <1>3, <1>6, <3>1 DEF Sm_P, Sm_P_On
  <2>3. QED  BY <1>1, <1>2, <1>6, <2>1, <2>2 DEF Sm_P, Sm_P_On, ObjectsOK, KernelInv
<1>7. CASE Sm_V
  <2>1. PICK s \in 1..MaxSemaphore :
          \/ /\ \E t \in Waiters("semaphore", s) :
                  Done([tasks EXCEPT ![t] = WakeWith(@, "ok")], "ok")
             /\ UNCHANGED semaphores
          \/ /\ semaphores' = [semaphores EXCEPT ![s].count =
                                 IF @ < CountLimit THEN @ + 1 ELSE @]
             /\ Done(tasks, "ok")
    BY <1>7 DEF Sm_V, Sm_V_On
  <2>2. TasksOK'
    <3>1. ASSUME NEW t \in Waiters("semaphore", s),
                 Done([tasks EXCEPT ![t] = WakeWith(@, "ok")], "ok")
          PROVE  TasksOK'
      <4>1. [tasks EXCEPT ![t] = WakeWith(@, "ok")] =
              [u \in TaskIds |-> IF u \in {t} THEN WakeWith(tasks[u], "ok") ELSE tasks[u]]
        BY <1>1 DEF TasksOK
      <4>2. {t} \in SUBSET Waiters("semaphore", s) /\ "semaphore" \in {"queue", "semaphore"}
        OBVIOUS
      <4>3. TableOK([u \in TaskIds |-> IF u \in {t} THEN WakeWith(tasks[u], "ok")
                                                    ELSE tasks[u]])
        BY <1>1, <4>2, WakeWithSafe, CodesAre
      <4>4. QED  BY <1>1, <3>1, <4>1, <4>3, DoneSafe, CodesAre
    <3>2. Done(tasks, "ok") => TasksOK'  BY <1>1, DoneSafe, CodesAre
    <3>3. QED  BY <2>1, <3>1, <3>2
  <2>3. semaphores' \in [1..MaxSemaphore -> Semaphore]
    <3>1. semaphores[s].count \in 0..CountLimit  BY <1>1
    <3>2. (IF semaphores[s].count < CountLimit THEN semaphores[s].count + 1
           ELSE semaphores[s].count) \in 0..CountLimit
      BY <3>1, KernelAssumption
    <3>3. QED  BY <1>1, <1>3, <2>1, <3>2
  <2>4. QED  BY <1>1, <1>2, <1>7, <2>2, <2>3 DEF Sm_V, Sm_V_On, ObjectsOK, KernelInv
<1>8. QED  BY <1>4, <1>5, <1>6, <1>7 DEF SemaphoreServices

\* Time services, the tick aside.
LEMMA TimeServicesSafe == KernelInv /\ TimeServices => KernelInv'
<1> SUFFICES ASSUME KernelInv, TimeServices PROVE KernelInv'
  OBVIOUS
<1> DEFINE Timer == [live: BOOLEAN, task: TaskIds, events: SUBSET Events,
                     due: 0..MaxTimeout, period: 0..MaxTimeout]
<1>1. /\ TasksOK /\ ObjectsOK /\ TableOK(tasks) /\ live \in Context
      /\ tasks \in [TaskIds -> Task] /\ current \in TaskIds
      /\ timers \in [1..MaxTimer -> Timer]
  BY TableNow DEF KernelInv, TasksOK, ObjectsOK
<1>2. CASE Tm_Tick  BY <1>2, TicksSafe
<1>3. CASE Tm_TickReturn
  <2>1. TasksOK'  BY <1>1, <1>3, DoneSafe, CodesAre DEF Tm_TickReturn
  <2>2. QED  BY <1>1, <1>3, <2>1, ObjectsUntouched DEF Tm_TickReturn, KernelInv
<1>4. CASE Tm_WkAfter
  <2>1. current # Idle  BY <1>4, CallerIsNotIdle DEF Tm_WkAfter
  <2>2. ASSUME NEW timeout \in 1..MaxTimeout,
               Done(Block(tasks, WaitFor("sleep", 0), timeout), "ok")
        PROVE  TasksOK'
    <3>1. timeout \in 0..MaxTimeout  BY KernelAssumption
    <3>2. WaitFor("sleep", 0) \in Wait  BY WaitForType
    <3>3. QED  BY <1>1, <2>1, <2>2, <3>1, <3>2, BlockSafe, DoneSafe, CodesAre
  <2>3. ASSUME Done([tasks EXCEPT ![current].state = "Ready", ![current].cpu = live], "ok")
        PROVE  TasksOK'
    <3> DEFINE new == [tasks[current] EXCEPT !.state = "Ready", !.cpu = live]
    <3>1. \A task \in Task : LET yields == [task EXCEPT !.state = "Ready", !.cpu = live]
                             IN  yields \in Task /\ yields.state = "Ready"
      BY <1>1 DEF Task, States
    <3>2. new \in Task /\ new.state = "Ready"  BY <1>1, <3>1
    <3>3. [tasks EXCEPT ![current].state = "Ready", ![current].cpu = live] =
            [tasks EXCEPT ![current] = new]
      OBVIOUS
    <3> HIDE DEF new
    <3>4. TableOK([tasks EXCEPT ![current] = new])  BY <1>1, <2>1, <3>2, OtherTask
    <3>5. QED  BY <1>1, <2>3, <3>3, <3>4, DoneSafe, CodesAre
  <2>4. TasksOK'  BY <1>4, <2>2, <2>3 DEF Tm_WkAfter
  <2>5. QED  BY <1>1, <1>4, <2>4, ObjectsUntouched DEF Tm_WkAfter, KernelInv
<1>5. CASE Tm_Ev
  <2>1. TasksOK'  BY <1>1, <1>5, DoneSafe, CodesAre DEF Tm_Ev
  <2>2. timers' \in [1..MaxTimer -> Timer] /\ nextTimer' \in Nat
    <3>1. nextTimer \in Nat  BY <1>1 DEF ObjectsOK
    <3>2. \A bits \in SUBSET Events, delay \in 0..MaxTimeout, every \in BOOLEAN :
            [live |-> TRUE, task |-> current, events |-> bits,
             due |-> delay, period |-> IF every THEN delay ELSE 0] \in Timer
      BY <1>1, KernelAssumption
    <3>3. \/ UNCHANGED <<timers, nextTimer>>
          \/ /\ nextTimer' = nextTimer + 1
             /\ \E new \in Timer : timers' = [timers EXCEPT ![nextTimer] = new]
      BY <1>5, <3>2 DEF Tm_Ev
    <3> HIDE DEF Timer
    <3>4. QED  BY <1>1, <3>1, <3>3
  <2>3. ObjectsOK'  BY <1>1, <1>5, <2>2 DEF Tm_Ev, ObjectsOK
  <2>4. QED  BY <2>1, <2>3 DEF KernelInv
<1>6. CASE Tm_Cancel
  <2>1. NoTimer \in Timer  BY KernelAssumption, RootIdle DEF NoTimer
  <2>2. timers' \in [1..MaxTimer -> Timer]  BY <1>1, <1>6, <2>1 DEF Tm_Cancel
  <2>3. TasksOK'  BY <1>1, <1>6, DoneSafe, CodesAre DEF Tm_Cancel
  <2>4. ObjectsOK'  BY <1>1, <1>6, <2>2 DEF Tm_Cancel, ObjectsOK
  <2>5. QED  BY <2>3, <2>4 DEF KernelInv
<1>7. QED  BY <1>2, <1>3, <1>4, <1>5, <1>6 DEF TimeServices

-----------------------------------------------------------------------------
(***************************************************************************)
(* Theorems.                                                               *)
(***************************************************************************)

\* The kernel `initialize` leaves behind.
LEMMA InitSafe == Init => KernelInv
<1> SUFFICES ASSUME Init PROVE KernelInv
  OBVIOUS
<1> DEFINE root == [NoTask EXCEPT !.state = "Running", !.priority = 255,
                                  !.mode = RootMode, !.cpu.masked = RootMode.masked]
           idle == [NoTask EXCEPT !.state = "Ready"]
<1>1. EmptyContext \in Context /\ NotWaiting \in Wait
  BY NothingData DEF EmptyContext, Context, Codes, NotWaiting, Wait
<1>2. 0 \in 0..255 /\ 255 \in 0..255 /\ 0 \in 0..MaxTimeout /\ RootMode \in Mode
  BY KernelAssumption
<1>3. NoTask \in Task /\ idle \in Task  BY <1>1, <1>2 DEF NoTask, Task, States, Mode
<1>4. [EmptyContext EXCEPT !.masked = RootMode.masked] \in Context
  BY <1>1, <1>2 DEF Context, Mode
<1>5. root \in Task
  <2>1. root = [NoTask EXCEPT !.state = "Running", !.priority = 255, !.mode = RootMode,
                              !.cpu = [EmptyContext EXCEPT !.masked = RootMode.masked]]
    BY DEF NoTask
  <2>2. \A task \in Task, mode \in Mode, cpu \in Context :
          [task EXCEPT !.state = "Running", !.priority = 255, !.mode = mode, !.cpu = cpu] \in Task
    BY <1>2, ZenonT(60) DEF Task, States
  <2>3. QED  BY <1>2, <1>3, <1>4, <2>1, <2>2, ZenonT(60)
<1>6. /\ root.state = "Running" /\ ~root.suspended
      /\ idle.state = "Ready" /\ ~idle.suspended /\ idle.wait.on = "none"
      /\ NoTask.state = "Absent"
  BY DEF NoTask, NotWaiting
<1>7. Root \in TaskIds /\ Idle \in TaskIds /\ Root # Idle  BY RootIdle DEF Root, Idle
<1>8. tasks = [t \in TaskIds |-> IF t = Root THEN root ELSE IF t = Idle THEN idle ELSE NoTask]
  BY <1>7 DEF Init
<1> HIDE DEF root, idle
<1>9. tasks \in [TaskIds -> Task]  BY <1>3, <1>5, <1>8
<1>10. CpuOwnerRunnable /\ current \in TaskIds
  BY <1>6, <1>7, <1>8 DEF Init, CpuOwnerRunnable
<1>11. IdleReady(tasks)  BY <1>6, <1>7, <1>8 DEF IdleReady
<1>12. TasksOK  BY <1>4, <1>9, <1>10, <1>11 DEF Init, TasksOK
<1>13. ObjectsOK
  <2>1. NoSemaphore \in [live: BOOLEAN, count: 0..CountLimit]
    BY KernelAssumption DEF NoSemaphore
  <2>2. NoQueue \in [live: BOOLEAN, byPriority: BOOLEAN, capacity: Nat,
                     messages: Seq(Messages)]
    BY DEF NoQueue
  <2>3. NoTimer \in [live: BOOLEAN, task: TaskIds, events: SUBSET Events,
                     due: 0..MaxTimeout, period: 0..MaxTimeout]
    BY KernelAssumption, RootIdle DEF NoTimer
  <2>4. QED  BY <2>1, <2>2, <2>3 DEF Init, ObjectsOK, Idle
<1>14. QED  BY <1>12, <1>13 DEF KernelInv

\* No step leaves the invariant.
LEMMA NextSafe == KernelInv /\ [Next]_vars => KernelInv'
<1> SUFFICES ASSUME KernelInv, [Next]_vars PROVE KernelInv'
  OBVIOUS
<1>1. CASE Host
  BY <1>1, TicksSafe, FireTimerSafe, BeforeInstructionSafe DEF Host
<1>2. CASE Guest \/ Stopped \/ UNCHANGED vars
  BY <1>2, PlainStepSafe, Trap13Safe DEF Guest, Stopped
<1>3. CASE TaskServices  BY <1>3, TaskServicesSafe
<1>4. CASE QueueServices  BY <1>4, QueueServicesSafe
<1>5. CASE EventServices  BY <1>5, EventServicesSafe
<1>6. CASE SemaphoreServices  BY <1>6, SemaphoreServicesSafe
<1>7. CASE TimeServices  BY <1>7, TimeServicesSafe
<1>8. QED  BY <1>1, <1>2, <1>3, <1>4, <1>5, <1>6, <1>7 DEF Next

\* KernelInv holds in every state the kernel reaches.
THEOREM KernelInvariant == Spec => []KernelInv
BY InitSafe, NextSafe, PTL DEF Spec

\* Whatever services tasks and handlers call, the kernel's tables, the saved
\* registers and the ids keep their types (Kernel, psos.rs).
THEOREM KernelTypes == Spec => []TypeOK
<1>1. KernelInv => TypeOK  BY KernelInvMeaning
<1>2. QED  BY <1>1, KernelInvariant, PTL

\* For any number of tasks the CPU executes one that may run: `trap` never returns
\* to a caller it has blocked, suspended or deleted.
THEOREM KernelOwner == Spec => []CpuOwnerRunnable
<1>1. KernelInv => CpuOwnerRunnable  BY KernelInvMeaning
<1>2. QED  BY <1>1, KernelInvariant, PTL

\* For any number of tasks and priorities no instruction is executed for a task
\* while one of higher priority could run: before_instruction reschedules.
THEOREM KernelPriority == Spec => []HighestPriorityRuns
<1>1. Init => HighestPriorityRuns  BY DEF Init, HighestPriorityRuns
<1>2. KernelInv /\ HighestPriorityRuns /\ [Next]_vars => HighestPriorityRuns'
  <2> SUFFICES ASSUME KernelInv, HighestPriorityRuns, [Next]_vars
               PROVE  HighestPriorityRuns'
    OBVIOUS
  <2>1. CASE BeforeInstruction
    <3>1. Schedule(tasks, live, FALSE)  BY <2>1 DEF BeforeInstruction
    <3>2. TableOK(tasks) /\ live \in Context /\ current \in TaskIds
      BY TableNow DEF KernelInv, TasksOK
    <3>3. QED  BY <3>1, <3>2, SchedulePreempts DEF HighestPriorityRuns
  <2>2. CASE UNCHANGED vars \/ Stopped
    BY <2>2 DEF Stopped, vars, HighestPriorityRuns, Runnable
  <2>3. CASE Next /\ ~BeforeInstruction /\ ~Stopped
    <3>1. phase' # "guest"
      <4>1. \A ts, code : Done(ts, code) => phase' # "guest"  BY DEF Done, Return
      <4>2. \A ts, regs, code : Return(ts, regs, code) => phase' # "guest"  BY DEF Return
      <4>3. CASE HostTick \/ FireTimer \/ Guest
        BY <4>3 DEF HostTick, FireTimer, Guest, Compute, WriteSR, Interrupt, Trap13, Fault
      <4>4. CASE TaskServices
        BY <4>1, <4>2, <4>4 DEF TaskServices, T_Create, T_Start, T_Start_Of, T_Restart,
           T_Restart_Of, T_Delete,
     T_Delete_Of, T_Suspend,
           T_Resume, T_SetPri, T_Mode, NoEffect
      <4>5. CASE QueueServices
        BY <4>1, <4>2, <4>5 DEF QueueServices, Q_Create, Q_Delete, Q_Send, Q_Urgent, Q_Put,
           Q_Broadcast, Q_Receive
      <4>6. CASE EventServices
        BY <4>1, <4>2, <4>6 DEF EventServices, Ev_Send, Ev_Receive
      <4>7. CASE SemaphoreServices
        BY <4>1, <4>2, <4>7 DEF SemaphoreServices, Sm_Create, Sm_Delete, Sm_Delete_On,
           Sm_P, Sm_P_On, Sm_V, Sm_V_On
      <4>8. CASE TimeServices
        BY <4>1, <4>2, <4>8 DEF TimeServices, Tm_Tick, Tm_TickReturn, Tm_WkAfter, Tm_Ev,
           Tm_Cancel
      <4>9. QED
        BY <2>3, <4>3, <4>4, <4>5, <4>6, <4>7, <4>8 DEF Next, Host
    <3>2. QED  BY <3>1 DEF HighestPriorityRuns
  <2>4. QED  BY <2>1, <2>2, <2>3
<1>3. QED  BY <1>1, <1>2, KernelInvariant, PTL DEF Spec

-----------------------------------------------------------------------------
(***************************************************************************)
(* Theorems about what tasks wait for in PsosKernel, for every value of    *)
(* its constants and every guest, also one that deletes and restarts tasks *)
(* while they wait: no wake-up is missed, nobody waits for a queue that is *)
(* gone, and a new object has no waiters.                                  *)
(*                                                                         *)
(* The invariant relates the wait of each task to the object it names.  A  *)
(* task that has waited may run again with its wait still registered, so   *)
(* the argument never says that who waits is blocked.                      *)
(***************************************************************************)

\* A wait that nothing ends yet, given the queues, the semaphores and the next id of
\* each: its object has an id that was handed out and nothing to give.
Pending(task, qs, nq, ss, ns) ==
  /\ task.wait.on = "queue" =>
       /\ task.wait.object \in 1..MaxQueue /\ task.wait.object < nq
       /\ qs[task.wait.object].live /\ qs[task.wait.object].messages = <<>>
  /\ task.wait.on = "semaphore" =>
       /\ task.wait.object \in 1..MaxSemaphore /\ task.wait.object < ns
       /\ ss[task.wait.object].count = 0
  /\ task.wait.on = "events" => ~Satisfied(task.events, task.wait.want, task.wait.any)

\* The inductive invariant, together with KernelInv.
WaitInv ==
  \A t \in TaskIds : Pending(tasks[t], queues, nextQueue, semaphores, nextSemaphore)

\* Queues and semaphores have ids that were handed out.
GivenOut ==
  /\ \A q \in 1..MaxQueue : queues[q].live => q < nextQueue
  /\ \A s \in 1..MaxSemaphore : semaphores[s].live => s < nextSemaphore

\* Every wait of a table is pending in the objects after a step.
AllPending(ts) ==
  \A t \in TaskIds : Pending(ts[t], queues', nextQueue', semaphores', nextSemaphore')

Fixed == UNCHANGED <<queues, nextQueue, semaphores, nextSemaphore>>

-----------------------------------------------------------------------------
(***************************************************************************)
(* What keeps a wait pending.                                              *)
(***************************************************************************)

\* The switch at the end of a step changes neither waits nor events.
LEMMA SamePending ==
  ASSUME NEW new, NEW old, SameTask(new, old), NEW qs, NEW nq, NEW ss, NEW ns,
         Pending(old, qs, nq, ss, ns)
  PROVE  Pending(new, qs, nq, ss, ns)
BY DEF SameTask, Pending

\* A task that waits for nothing.
LEMMA NothingPending ==
  ASSUME NEW task, task.wait.on = "none" \/ task.wait.on = "sleep",
         NEW qs, NEW nq, NEW ss, NEW ns
  PROVE  Pending(task, qs, nq, ss, ns)
BY DEF Pending

\* A service ends with a table in which every wait is pending.
LEMMA ReturnPending ==
  ASSUME TasksOK, NEW ts \in [TaskIds -> Task], AllPending(ts), NEW regs \in Context,
         NEW code \in Codes, Return(ts, regs, code)
  PROVE  WaitInv'
<1>1. \A t \in TaskIds : SameTask(tasks'[t], ts[t])
  BY ReturnEffect DEF TasksOK
<1>2. QED  BY <1>1, SamePending DEF AllPending, WaitInv

LEMMA DonePending ==
  ASSUME TasksOK, NEW ts \in [TaskIds -> Task], AllPending(ts), NEW code \in Codes,
         Done(ts, code)
  PROVE  WaitInv'
<1>1. Result(Nothing) \in Context  BY NothingData, ResultType DEF TasksOK
<1>2. QED  BY <1>1, ReturnPending DEF Done

\* The waits of the table stay pending when no object changes.
LEMMA TablePending ==
  ASSUME WaitInv, Fixed
  PROVE  AllPending(tasks)
BY DEF WaitInv, Fixed, AllPending

\* The record of one task is replaced.
LEMMA UpdatePending ==
  ASSUME NEW ts \in [TaskIds -> Task], AllPending(ts), NEW t \in TaskIds, NEW task,
         Pending(task, queues', nextQueue', semaphores', nextSemaphore')
  PROVE  AllPending([ts EXCEPT ![t] = task])
BY DEF AllPending

\* A task that was woken.
LEMMA WakePending ==
  ASSUME NEW task \in Task, NEW code, NEW data
  PROVE  Wake(task, code, data).wait = NotWaiting /\ WakeWith(task, code).wait = NotWaiting
BY DEF Wake, WakeWith, Task

\* A clock tick ends waits and changes none.
LEMMA ElapsePending ==
  ASSUME NEW task \in Task, NEW qs, NEW nq, NEW ss, NEW ns, Pending(task, qs, nq, ss, ns)
  PROVE  Pending(Elapse(task), qs, nq, ss, ns)
<1>1. CASE Expires(task)
  <2>1. Elapse(task).wait = NotWaiting  BY <1>1, WakePending DEF Elapse
  <2>2. QED  BY <2>1, NothingPending DEF NotWaiting
<1>2. CASE ~Expires(task)
  <2>1. Elapse(task).wait = task.wait /\ Elapse(task).events = task.events
    BY <1>2 DEF Elapse, Task
  <2>2. QED  BY <2>1 DEF Pending
<1>3. QED  BY <1>1, <1>2

\* `send_event` ends an event wait that it satisfies.
LEMMA SendEventPending ==
  ASSUME NEW ts \in [TaskIds -> Task], AllPending(ts), NEW t \in TaskIds, NEW bits
  PROVE  AllPending(SendEvent(ts, t, bits))
<1> DEFINE have == ts[t].events \cup bits
           got == have \cap ts[t].wait.want
           woken == Wake([ts[t] EXCEPT !.events = have \ got], "ok", got)
           kept == [ts[t] EXCEPT !.events = have]
<1>1. CASE ts[t].wait.on = "events" /\ Satisfied(have, ts[t].wait.want, ts[t].wait.any)
  <2>1. woken.wait = NotWaiting  BY DEF Wake, Task
  <2>2. Pending(woken, queues', nextQueue', semaphores', nextSemaphore')
    <3> HIDE DEF woken
    <3>1. QED  BY <2>1, NothingPending DEF NotWaiting
  <2>3. SendEvent(ts, t, bits) = [ts EXCEPT ![t] = woken]  BY <1>1 DEF SendEvent
  <2> HIDE DEF woken
  <2>4. AllPending([ts EXCEPT ![t] = woken])  BY <2>2, UpdatePending
  <2>5. QED  BY <2>3, <2>4 DEF AllPending
<1>2. CASE ~(ts[t].wait.on = "events" /\ Satisfied(have, ts[t].wait.want, ts[t].wait.any))
  <2>1. kept.wait = ts[t].wait /\ kept.events = have  BY DEF Task
  <2>2. Pending(kept, queues', nextQueue', semaphores', nextSemaphore')
    <3> HIDE DEF kept, have
    <3>1. QED  BY <1>2, <2>1 DEF AllPending, Pending
  <2>3. SendEvent(ts, t, bits) = [ts EXCEPT ![t] = kept]  BY <1>2 DEF SendEvent
  <2> HIDE DEF kept
  <2>4. AllPending([ts EXCEPT ![t] = kept])  BY <2>2, UpdatePending
  <2>5. QED  BY <2>3, <2>4 DEF AllPending
<1>3. QED  BY <1>1, <1>2

\* A record with the wait and the events it had.
LEMMA KeptPending ==
  ASSUME NEW ts \in [TaskIds -> Task], AllPending(ts), NEW t \in TaskIds, NEW task \in Task,
         task.wait = ts[t].wait, task.events = ts[t].events
  PROVE  AllPending([ts EXCEPT ![t] = task])
<1>1. Pending(task, queues', nextQueue', semaphores', nextSemaphore')
  BY DEF AllPending, Pending
<1>2. QED  BY <1>1, UpdatePending

-----------------------------------------------------------------------------
(***************************************************************************)
(* Every step keeps the waits pending: steps that touch no object.         *)
(***************************************************************************)

\* The step touches no queue and no semaphore.
LEMMA FixedObjects ==
  ASSUME UNCHANGED <<nextTask, objects>>
  PROVE  Fixed
BY DEF objects, Fixed

\* The clock, `schedule` before an instruction and after TRAP #13, and instructions
\* that are no kernel service.
LEMMA HostGuestPending ==
  ASSUME KernelInv, WaitInv, Host \/ Guest \/ Tm_Tick \/ UNCHANGED vars
  PROVE  WaitInv'
<1>1. TasksOK /\ tasks \in [TaskIds -> Task] /\ live \in Context /\ current \in TaskIds
  BY DEF KernelInv, TasksOK
<1>2. Fixed
  BY DEF Host, Guest, HostTick, FireTimer, BeforeInstruction, Compute, WriteSR, Interrupt,
     Trap13, Fault, Tm_Tick, objects, vars, Fixed
<1>3. AllPending(tasks)  BY <1>2, TablePending
<1>4. CASE HostTick \/ Tm_Tick
  <2>1. tasks' = [t \in TaskIds |-> Elapse(tasks[t])]  BY <1>4 DEF HostTick, Tm_Tick, Tick
  <2>2. \A t \in TaskIds : Pending(tasks'[t], queues', nextQueue', semaphores', nextSemaphore')
    BY <1>1, <1>3, <2>1, ElapsePending DEF AllPending
  <2>3. QED  BY <2>2 DEF WaitInv
<1>5. CASE FireTimer
  <2>1. PICK i \in 1..MaxTimer : tasks' = SendEvent(tasks, timers[i].task, timers[i].events)
    BY <1>5 DEF FireTimer
  <2>2. timers[i].task \in TaskIds  BY DEF KernelInv, ObjectsOK
  <2>3. AllPending(SendEvent(tasks, timers[i].task, timers[i].events))
    BY <1>1, <1>3, <2>2, SendEventPending
  <2>4. QED  BY <2>1, <2>3 DEF AllPending, WaitInv
<1>6. ASSUME NEW regs \in Context, Schedule(tasks, regs, FALSE)
      PROVE  WaitInv'
  <2>1. \A t \in TaskIds : SameTask(tasks'[t], tasks[t])  BY <1>1, <1>6, ScheduleEffect
  <2>2. QED  BY <1>3, <2>1, SamePending DEF AllPending, WaitInv
<1>7. CASE BeforeInstruction  BY <1>1, <1>6, <1>7 DEF BeforeInstruction
<1>8. CASE Trap13
  <2>1. [live EXCEPT !.masked = (live.frame = "masked"), !.frame = "none"] \in Context
    BY <1>1 DEF Context
  <2>2. QED  BY <1>6, <1>8, <2>1 DEF Trap13
<1>9. CASE Compute \/ WriteSR \/ Interrupt \/ Fault \/ UNCHANGED vars
  <2>1. tasks' = tasks  BY <1>9 DEF Compute, WriteSR, Interrupt, Fault, vars
  <2>2. QED  BY <1>3, <2>1 DEF AllPending, WaitInv
<1>10. QED  BY <1>4, <1>5, <1>7, <1>8, <1>9 DEF Host, Guest

\* A task is created, started, deleted, suspended or changed: `start` leaves the wait
\* of a task as it is, and so does `t_delete`.
LEMMA TaskServicesPending ==
  ASSUME KernelInv, WaitInv, TaskServices
  PROVE  WaitInv'
<1>1. TasksOK /\ tasks \in [TaskIds -> Task] /\ current \in TaskIds /\ live \in Context
  BY DEF KernelInv, TasksOK
<1>2. Fixed
  BY DEF TaskServices, T_Create, T_Start, T_Start_Of, T_Restart, T_Restart_Of, T_Delete,
     T_Delete_Of, T_Suspend, T_Resume, T_SetPri,
     T_Mode, NoEffect, objects, Fixed
<1>3. AllPending(tasks)  BY <1>2, TablePending
<1>4. ASSUME NEW t \in TaskIds, NEW task \in Task, NEW regs \in Context,
             task.wait = tasks[t].wait, task.events = tasks[t].events,
             Return([tasks EXCEPT ![t] = task], regs, "ok")
      PROVE  WaitInv'
  <2>1. [tasks EXCEPT ![t] = task] \in [TaskIds -> Task]  BY <1>1, <1>4
  <2>2. AllPending([tasks EXCEPT ![t] = task])  BY <1>1, <1>3, <1>4, KeptPending
  <2>3. QED  BY <1>1, <1>4, <2>1, <2>2, CodesAre, ReturnPending
<1>5. Result(Nothing) \in Context  BY <1>1, NothingData, ResultType
<1>6. ASSUME NEW t \in TaskIds, NEW task \in Task,
             task.wait = tasks[t].wait, task.events = tasks[t].events,
             Done([tasks EXCEPT ![t] = task], "ok")
      PROVE  WaitInv'
  BY <1>4, <1>5, <1>6 DEF Done
<1>7. ASSUME NEW code \in Codes, Done(tasks, code) PROVE WaitInv'
  BY <1>1, <1>3, <1>7, DonePending
<1>8. CASE T_Create
  <2>1. ASSUME NEW priority \in Priorities, nextTask <= MaxTask,
               Done([tasks EXCEPT ![nextTask] =
                       [NoTask EXCEPT !.state = "Created", !.priority = priority]], "ok")
        PROVE  WaitInv'
    <3> DEFINE new == [NoTask EXCEPT !.state = "Created", !.priority = priority]
    <3>1. new \in Task
      <4>1. 0 \in 0..255 /\ 0 \in 0..MaxTimeout /\ priority \in 0..255  BY KernelAssumption
      <4>2. EmptyContext \in Context /\ NotWaiting \in Wait
        BY NothingData DEF EmptyContext, Context, Codes, NotWaiting, Wait
      <4>3. QED  BY <4>1, <4>2 DEF NoTask, Task, States, Mode
    <3>2. new.wait.on = "none"  BY DEF NoTask, NotWaiting
    <3>3. nextTask \in TaskIds  BY <2>1 DEF KernelInv, ObjectsOK, TaskIds, Idle
    <3> HIDE DEF new
    <3>4. [tasks EXCEPT ![nextTask] = new] \in [TaskIds -> Task]  BY <1>1, <3>1
    <3>5. AllPending([tasks EXCEPT ![nextTask] = new])
      BY <1>1, <1>3, <3>2, <3>3, NothingPending, UpdatePending
    <3>6. Done([tasks EXCEPT ![nextTask] = new], "ok")  BY <2>1 DEF new
    <3>7. QED  BY <1>1, <3>4, <3>5, <3>6, CodesAre, DonePending
  <2>2. QED  BY <1>7, <1>8, <2>1, CodesAre DEF T_Create
<1>9. CASE T_Start \/ T_Restart
  <2>1. PICK t \in TaskIds, mode \in Mode : Done([tasks EXCEPT ![t] = Started(@, mode)], "ok")
    <3>1. \A t \in TaskIds : tasks[t].mode \in Mode  BY <1>1 DEF Task
    <3>2. QED  BY <1>9, <3>1, KernelAssumption DEF T_Start, T_Start_Of, T_Restart,
         T_Restart_Of
  <2>2. Started(tasks[t], mode) \in Task  BY <1>1, StartedType
  <2>3. \A task \in Task : Started(task, mode).wait = task.wait
                           /\ Started(task, mode).events = task.events
    BY DEF Started, Task
  <2>4. QED  BY <1>1, <1>6, <2>1, <2>2, <2>3
<1>10. CASE T_Delete
  <2>1. PICK t \in TaskIds : Done([tasks EXCEPT ![t].state = "Dead"], "ok")
    BY <1>10 DEF T_Delete, T_Delete_Of
  <2>2. \A task \in Task : LET new == [task EXCEPT !.state = "Dead"]
                           IN  new \in Task /\ new.wait = task.wait /\ new.events = task.events
    BY DEF Task, States
  <2>3. QED  BY <1>1, <1>6, <2>1, <2>2
<1>11. CASE T_Suspend \/ T_Resume
  <2>1. PICK t \in TaskIds, b \in BOOLEAN : Done([tasks EXCEPT ![t].suspended = b], "ok")
    BY <1>11 DEF T_Suspend, T_Resume
  <2>2. \A task \in Task : LET new == [task EXCEPT !.suspended = b]
                           IN  new \in Task /\ new.wait = task.wait /\ new.events = task.events
    BY DEF Task
  <2>3. QED  BY <1>1, <1>6, <2>1, <2>2
<1>12. CASE T_SetPri
  <2>1. PICK t \in TaskIds, priority \in 0..255 :
          Done([tasks EXCEPT ![t].priority = priority], "ok")
    BY <1>12, KernelAssumption DEF T_SetPri
  <2>2. \A task \in Task : LET new == [task EXCEPT !.priority = priority]
                           IN  new \in Task /\ new.wait = task.wait /\ new.events = task.events
    BY DEF Task
  <2>3. QED  BY <1>1, <1>6, <2>1, <2>2
<1>13. CASE T_Mode
  <2>1. ASSUME NEW mode \in Mode, NEW regs \in Context,
               Return([tasks EXCEPT ![current].mode = mode], regs, "ok")
        PROVE  WaitInv'
    <3>1. \A task \in Task : LET new == [task EXCEPT !.mode = mode]
                             IN  new \in Task /\ new.wait = task.wait /\ new.events = task.events
      BY DEF Task
    <3>2. QED  BY <1>1, <1>4, <2>1, <3>1
  <2>2. ASSUME NEW np \in BOOLEAN, Done([tasks EXCEPT ![current].mode.np = np], "ok")
        PROVE  WaitInv'
    <3>1. [tasks[current].mode EXCEPT !.np = np] \in Mode  BY <1>1 DEF Task, Mode
    <3>2. [tasks EXCEPT ![current].mode.np = np] =
            [tasks EXCEPT ![current].mode = [tasks[current].mode EXCEPT !.np = np]]
      OBVIOUS
    <3>3. QED  BY <1>5, <2>1, <2>2, <3>1, <3>2 DEF Done
  <2>3. \A mode \in Mode : [Result(Nothing) EXCEPT !.masked = mode.masked] \in Context
    BY <1>5 DEF Context, Mode
  <2>4. QED  BY <1>13, <2>1, <2>2, <2>3 DEF T_Mode
<1>14. CASE NoEffect  BY <1>7, <1>14, CodesAre DEF NoEffect
<1>15. QED
  BY <1>8, <1>9, <1>10, <1>11, <1>12, <1>13, <1>14 DEF TaskServices

-----------------------------------------------------------------------------
(***************************************************************************)
(* Every step keeps the waits pending: queues, events, semaphores, time.   *)
(***************************************************************************)

\* A caller blocks on something that has nothing to give.
LEMMA BlockPending ==
  ASSUME tasks \in [TaskIds -> Task], current \in TaskIds, AllPending(tasks),
         NEW wait \in Wait, NEW timeout \in 0..MaxTimeout,
         \A task \in Task : task.wait = wait /\ task.events = tasks[current].events =>
           Pending(task, queues', nextQueue', semaphores', nextSemaphore')
  PROVE  /\ Block(tasks, wait, timeout) \in [TaskIds -> Task]
         /\ AllPending(Block(tasks, wait, timeout))
<1> DEFINE new == [tasks[current] EXCEPT !.state = "Blocked", !.wait = wait, !.left = timeout]
<1>1. Block(tasks, wait, timeout) = [tasks EXCEPT ![current] = new]  BY DEF Block
<1>2. \A task \in Task :
        LET blocked == [task EXCEPT !.state = "Blocked", !.wait = wait, !.left = timeout]
        IN  blocked \in Task /\ blocked.wait = wait /\ blocked.events = task.events
  BY DEF Task, States
<1>3. new \in Task /\ new.wait = wait /\ new.events = tasks[current].events  BY <1>2
<1> HIDE DEF new
<1>4. AllPending([tasks EXCEPT ![current] = new])  BY <1>3, UpdatePending
<1>5. AllPending(Block(tasks, wait, timeout))  BY <1>1, <1>4 DEF AllPending
<1>6. QED  BY <1>5, BlockType

\* The waits of the table stay pending when no object changes that a task waits for.
LEMMA OthersPending ==
  ASSUME WaitInv, NEW ts, NEW t \in TaskIds, ts[t] = tasks[t],
         nextQueue' >= nextQueue, nextSemaphore' >= nextSemaphore,
         {nextQueue, nextQueue', nextSemaphore, nextSemaphore'} \subseteq Nat,
         tasks[t].wait.on = "queue" =>
           queues'[tasks[t].wait.object] = queues[tasks[t].wait.object],
         tasks[t].wait.on = "semaphore" =>
           semaphores'[tasks[t].wait.object] = semaphores[tasks[t].wait.object]
  PROVE  Pending(ts[t], queues', nextQueue', semaphores', nextSemaphore')
<1>1. Pending(tasks[t], queues, nextQueue, semaphores, nextSemaphore)  BY DEF WaitInv
<1>2. ASSUME tasks[t].wait.on = "queue"
      PROVE  /\ tasks[t].wait.object \in 1..MaxQueue
             /\ tasks[t].wait.object < nextQueue'
             /\ queues'[tasks[t].wait.object].live
             /\ queues'[tasks[t].wait.object].messages = <<>>
  BY <1>1, <1>2, KernelAssumption DEF Pending
<1>3. ASSUME tasks[t].wait.on = "semaphore"
      PROVE  /\ tasks[t].wait.object \in 1..MaxSemaphore
             /\ tasks[t].wait.object < nextSemaphore'
             /\ semaphores'[tasks[t].wait.object].count = 0
  BY <1>1, <1>3, KernelAssumption DEF Pending
<1>4. QED  BY <1>1, <1>2, <1>3 DEF Pending

\* Waits that are pending stay so when some of them end.
LEMMA WokenPending ==
  ASSUME AllPending(tasks), NEW ts,
         \A t \in TaskIds : ts[t].wait = NotWaiting \/ ts[t] = tasks[t]
  PROVE  AllPending(ts)
<1>1. SUFFICES ASSUME NEW t \in TaskIds
               PROVE  Pending(ts[t], queues', nextQueue', semaphores', nextSemaphore')
  BY DEF AllPending
<1>2. CASE ts[t].wait = NotWaiting  BY <1>2, NothingPending DEF NotWaiting
<1>3. CASE ts[t] = tasks[t]  BY <1>3 DEF AllPending
<1>4. QED  BY <1>2, <1>3

\* The next ids are numbers and only grow.
LEMMA NextIds ==
  ASSUME KernelInv, KernelInv',
         nextQueue' \in {nextQueue, nextQueue + 1},
         nextSemaphore' \in {nextSemaphore, nextSemaphore + 1}
  PROVE  /\ nextQueue' >= nextQueue /\ nextSemaphore' >= nextSemaphore
         /\ {nextQueue, nextQueue', nextSemaphore, nextSemaphore'} \subseteq Nat
BY DEF KernelInv, ObjectsOK

\* A queue is created under an id that nobody waits for, deleted with its waiters
\* woken, filled only when nobody waits, and waited for only when empty.
LEMMA QueueServicesPending ==
  ASSUME KernelInv, KernelInv', GivenOut, WaitInv, QueueServices
  PROVE  WaitInv'
<1>1. TasksOK /\ tasks \in [TaskIds -> Task] /\ current \in TaskIds /\ live \in Context
  BY DEF KernelInv, TasksOK
<1>2. /\ nextQueue' >= nextQueue /\ nextSemaphore' >= nextSemaphore
      /\ {nextQueue, nextQueue', nextSemaphore, nextSemaphore'} \subseteq Nat
      /\ UNCHANGED <<semaphores, nextSemaphore>>
  <2>1. /\ nextQueue' \in {nextQueue, nextQueue + 1} /\ nextSemaphore' = nextSemaphore
        /\ semaphores' = semaphores
    BY DEF QueueServices, Q_Create, Q_Delete, Q_Send, Q_Urgent, Q_Broadcast, Q_Receive,
       objects
  <2>2. QED  BY <2>1, NextIds
<1>3. queues \in [1..MaxQueue -> [live: BOOLEAN, byPriority: BOOLEAN, capacity: Nat,
                                   messages: Seq(Messages)]]
  BY DEF KernelInv, ObjectsOK
<1>4. ASSUME NEW ts \in [TaskIds -> Task], NEW q,
             \A r \in 1..MaxQueue : r # q => queues'[r] = queues[r],
             \A t \in TaskIds : \/ ts[t].wait = NotWaiting
                                \/ ts[t] = tasks[t] /\ t \notin Waiters("queue", q)
      PROVE  AllPending(ts)
  <2>1. SUFFICES ASSUME NEW t \in TaskIds
                 PROVE  Pending(ts[t], queues', nextQueue', semaphores', nextSemaphore')
    BY DEF AllPending
  <2>2. CASE ts[t].wait = NotWaiting  BY <2>2, NothingPending DEF NotWaiting
  <2>3. CASE ts[t] = tasks[t] /\ t \notin Waiters("queue", q)
    <3>1. tasks[t].wait.on = "queue" =>
            queues'[tasks[t].wait.object] = queues[tasks[t].wait.object]
      BY <1>4, <2>3 DEF Waiters, WaitInv, Pending
    <3>2. QED  BY <1>2, <2>3, <3>1, OthersPending
  <2>4. QED  BY <1>4, <2>2, <2>3
<1>5. ASSUME UNCHANGED queues PROVE AllPending(tasks)
  BY <1>2, <1>5, OthersPending DEF AllPending
<1>6. ASSUME NEW code \in Codes, AllPending(tasks), Done(tasks, code) PROVE WaitInv'
  BY <1>1, <1>6, DonePending
<1>7. ASSUME NEW to \in SUBSET TaskIds, NEW payload \in Data
      PROVE  /\ Deliver(to, payload) \in [TaskIds -> Task]
             /\ \A t \in TaskIds : Deliver(to, payload)[t] =
                  IF t \in to THEN Wake(tasks[t], "ok", payload) ELSE tasks[t]
             /\ \A t \in to : Deliver(to, payload)[t].wait = NotWaiting
  <2>1. \A t \in TaskIds : Deliver(to, payload)[t] =
          IF t \in to THEN Wake(tasks[t], "ok", payload) ELSE tasks[t]
    BY DEF Deliver
  <2>2. \A t \in TaskIds : Wake(tasks[t], "ok", payload) \in Task
    BY <1>1, WakeType, CodesAre
  <2>3. Deliver(to, payload) \in [TaskIds -> Task]  BY <1>1, <2>2 DEF Deliver
  <2>4. \A t \in to : Deliver(to, payload)[t].wait = NotWaiting
    BY <1>1, <2>1, WakePending
  <2>5. QED  BY <2>1, <2>3, <2>4
<1>8. CASE Q_Create
  <2>1. CASE UNCHANGED queues
    BY <1>5, <1>6, <1>8, <2>1, CodesAre DEF Q_Create
  <2>2. CASE \E new : queues' = [queues EXCEPT ![nextQueue] = new]
    <3>1. \A t \in TaskIds : t \notin Waiters("queue", nextQueue)
      BY <1>2 DEF Waiters, WaitInv, Pending
    <3>2. \A r \in 1..MaxQueue : r # nextQueue => queues'[r] = queues[r]
      BY <1>3, <2>2
    <3>3. AllPending(tasks)  BY <1>1, <1>4, <3>1, <3>2
    <3>4. QED  BY <1>6, <1>8, <3>3, CodesAre DEF Q_Create
  <2>3. QED  BY <1>8, <2>1, <2>2 DEF Q_Create
<1>9. CASE Q_Delete
  <2>1. PICK q \in 1..MaxQueue :
          /\ queues' = [queues EXCEPT ![q] = NoQueue]
          /\ Done([t \in TaskIds |-> IF t \in Waiters("queue", q)
                                       THEN WakeWith(tasks[t], "deleted") ELSE tasks[t]], "ok")
    BY <1>9 DEF Q_Delete
  <2> DEFINE ts == [t \in TaskIds |-> IF t \in Waiters("queue", q)
                                       THEN WakeWith(tasks[t], "deleted") ELSE tasks[t]]
  <2>2. ts \in [TaskIds -> Task]  BY <1>1, WakeWithType, CodesAre
  <2>3. \A t \in TaskIds : \/ ts[t].wait = NotWaiting
                           \/ ts[t] = tasks[t] /\ t \notin Waiters("queue", q)
    BY <1>1, WakePending
  <2>4. \A r \in 1..MaxQueue : r # q => queues'[r] = queues[r]  BY <1>3, <2>1
  <2>5. Done(ts, "ok")  BY <2>1
  <2> HIDE DEF ts
  <2>6. QED  BY <1>1, <1>4, <2>2, <2>3, <2>4, <2>5, CodesAre, DonePending
<1>10. CASE Q_Send \/ Q_Urgent
  <2>1. PICK q \in 1..MaxQueue, message \in fresh, urgent \in BOOLEAN :
          Q_Put(q, message, urgent)
    BY <1>10 DEF Q_Send, Q_Urgent
  <2>2. message \in Data  BY DEF KernelInv, ObjectsOK, Data
  <2>3. ASSUME NEW t \in Waiters("queue", q), UNCHANGED queues,
               Done(Deliver({t}, message), "ok")
        PROVE  WaitInv'
    <3>1. {t} \in SUBSET TaskIds  BY DEF Waiters
    <3>2. AllPending(Deliver({t}, message))
      <4>1. \A u \in TaskIds : \/ Deliver({t}, message)[u].wait = NotWaiting
                               \/ Deliver({t}, message)[u] = tasks[u]
        BY <1>7, <2>2, <3>1
      <4>2. AllPending(tasks)  BY <1>5, <2>3
      <4>3. QED  BY <4>1, <4>2, WokenPending
    <3>3. QED  BY <1>1, <1>7, <2>2, <2>3, <3>1, <3>2, CodesAre, DonePending
  <2>4. ASSUME Waiters("queue", q) = {}, NEW new,
               queues' = [queues EXCEPT ![q].messages = new], Done(tasks, "ok")
        PROVE  WaitInv'
    <3>1. \A r \in 1..MaxQueue : r # q => queues'[r] = queues[r]  BY <1>3, <2>4
    <3>2. AllPending(tasks)  BY <1>1, <1>4, <2>4, <3>1
    <3>3. QED  BY <1>6, <2>4, <3>2, CodesAre
  <2>5. ASSUME UNCHANGED queues, Done(tasks, "refused") PROVE WaitInv'
    BY <1>5, <1>6, <2>5, CodesAre
  <2>6. QED  BY <2>1, <2>3, <2>4, <2>5 DEF Q_Put
<1>11. CASE Q_Broadcast
  <2>1. PICK q \in 1..MaxQueue, notice \in Notices :
          Done(Deliver(Waiters("queue", q), notice), "ok")
    BY <1>11 DEF Q_Broadcast
  <2>2. notice \in Data /\ Waiters("queue", q) \in SUBSET TaskIds  BY DEF Data, Waiters
  <2>3. AllPending(tasks)  BY <1>5, <1>11 DEF Q_Broadcast, objects
  <2>4. AllPending(Deliver(Waiters("queue", q), notice))
    <3>1. \A t \in TaskIds : \/ Deliver(Waiters("queue", q), notice)[t].wait = NotWaiting
                             \/ Deliver(Waiters("queue", q), notice)[t] = tasks[t]
      BY <1>7, <2>2
    <3>2. QED  BY <2>3, <3>1, WokenPending
  <2>5. Deliver(Waiters("queue", q), notice) \in [TaskIds -> Task]  BY <1>7, <2>2
  <2>6. QED  BY <1>1, <2>1, <2>4, <2>5, CodesAre, DonePending
<1>12. CASE Q_Receive
  <2>1. PICK q \in 1..MaxQueue :
          /\ queues[q].live
          /\ \/ /\ queues[q].messages # <<>>
                /\ queues' = [queues EXCEPT ![q].messages = Tail(@)]
                /\ Return(tasks, Result(Head(queues[q].messages)), "ok")
             \/ Done(tasks, "refused") /\ UNCHANGED queues
             \/ /\ queues[q].messages = <<>> /\ UNCHANGED queues
                /\ \E timeout \in 0..MaxTimeout :
                     Done(Block(tasks, WaitFor("queue", q), timeout), "ok")
    BY <1>12 DEF Q_Receive
  <2>2. CASE /\ queues[q].messages # <<>>
             /\ queues' = [queues EXCEPT ![q].messages = Tail(@)]
             /\ Return(tasks, Result(Head(queues[q].messages)), "ok")
    <3>1. \A t \in TaskIds : t \notin Waiters("queue", q)
      BY <2>2 DEF Waiters, WaitInv, Pending
    <3>2. \A r \in 1..MaxQueue : r # q => queues'[r] = queues[r]  BY <1>3, <2>2
    <3>3. AllPending(tasks)  BY <1>1, <1>4, <3>1, <3>2
    <3>4. Head(queues[q].messages) \in Data  BY <1>3, <2>2 DEF Data
    <3>5. QED  BY <1>1, <2>2, <3>3, <3>4, ResultType, CodesAre, ReturnPending
  <2>3. CASE Done(tasks, "refused") /\ UNCHANGED queues
    BY <1>5, <1>6, <2>3, CodesAre
  <2>4. ASSUME queues[q].messages = <<>>, UNCHANGED queues, NEW timeout \in 0..MaxTimeout,
               Done(Block(tasks, WaitFor("queue", q), timeout), "ok")
        PROVE  WaitInv'
    <3>1. WaitFor("queue", q) \in Wait  BY WaitForType
    <3>2. WaitFor("queue", q).on = "queue" /\ WaitFor("queue", q).object = q
      BY DEF WaitFor, NotWaiting
    <3>3. q < nextQueue'  BY <1>2, <2>1 DEF GivenOut
    <3>4. \A task \in Task : task.wait = WaitFor("queue", q) =>
            Pending(task, queues', nextQueue', semaphores', nextSemaphore')
      BY <2>1, <2>4, <3>2, <3>3 DEF Pending
    <3>5. AllPending(tasks)  BY <1>5, <2>4
    <3>6. /\ Block(tasks, WaitFor("queue", q), timeout) \in [TaskIds -> Task]
          /\ AllPending(Block(tasks, WaitFor("queue", q), timeout))
      BY <1>1, <3>1, <3>4, <3>5, BlockPending
    <3>7. QED  BY <1>1, <2>4, <3>6, CodesAre, DonePending
  <2>5. QED  BY <2>1, <2>2, <2>3, <2>4
<1>13. QED  BY <1>8, <1>9, <1>10, <1>11, <1>12 DEF QueueServices

\* Events are sent, taken, or waited for when those there are do not suffice.  A task
\* that has fewer events than before is not satisfied by them either.
LEMMA EventServicesPending ==
  ASSUME KernelInv, WaitInv, EventServices
  PROVE  WaitInv'
<1>1. TasksOK /\ tasks \in [TaskIds -> Task] /\ current \in TaskIds /\ live \in Context
  BY DEF KernelInv, TasksOK
<1>2. Fixed  BY DEF EventServices, Ev_Send, Ev_Receive, objects, Fixed
<1>3. AllPending(tasks)  BY <1>2, TablePending
<1>4. CASE Ev_Send
  <2>1. PICK t \in TaskIds, bits \in SUBSET Events : Done(SendEvent(tasks, t, bits), "ok")
    BY <1>4 DEF Ev_Send
  <2>2. SendEvent(tasks, t, bits) \in [TaskIds -> Task]  BY <1>1, SendEventType
  <2>3. AllPending(SendEvent(tasks, t, bits))  BY <1>1, <1>3, SendEventPending
  <2>4. QED  BY <1>1, <2>1, <2>2, <2>3, CodesAre, DonePending
<1>5. CASE Ev_Receive
  <2>1. PICK want \in SUBSET Events, any \in BOOLEAN :
          LET have == tasks[current].events
              got == have \cap want
          IN  \/ Return(tasks, Result(have), "ok")
              \/ Return([tasks EXCEPT ![current].events = @ \ got], Result(got), "ok")
              \/ Done(tasks, "refused")
              \/ /\ ~Satisfied(have, want, any)
                 /\ \E timeout \in 0..MaxTimeout :
                      Done(Block(tasks, [NotWaiting EXCEPT !.on = "events", !.want = want,
                                                           !.any = any], timeout), "ok")
    BY <1>5 DEF Ev_Receive
  <2> DEFINE have == tasks[current].events
             got == have \cap want
             rest == [tasks[current] EXCEPT !.events = have \ got]
             wait == [NotWaiting EXCEPT !.on = "events", !.want = want, !.any = any]
  <2>2. have \in SUBSET Events /\ got \in SUBSET Events  BY <1>1 DEF Task
  <2>3. Result(have) \in Context /\ Result(got) \in Context
    BY <1>1, <2>2, ResultType DEF Data
  <2>4. Return(tasks, Result(have), "ok") => WaitInv'
    BY <1>1, <1>3, <2>3, ReturnPending, CodesAre
  <2>5. Return([tasks EXCEPT ![current].events = @ \ got], Result(got), "ok") => WaitInv'
    <3>1. rest \in Task /\ rest.wait = tasks[current].wait /\ rest.events = have \ got
      BY <1>1, <2>2 DEF Task
    <3>2. [tasks EXCEPT ![current].events = @ \ got] = [tasks EXCEPT ![current] = rest]
      OBVIOUS
    <3>3. [tasks EXCEPT ![current] = rest] \in [TaskIds -> Task]  BY <1>1, <3>1
    <3>4. Pending(rest, queues', nextQueue', semaphores', nextSemaphore')
      <4>1. Pending(tasks[current], queues', nextQueue', semaphores', nextSemaphore')
        BY <1>1, <1>3 DEF AllPending
      <4>2. \A w, a : Satisfied(have \ got, w, a) => Satisfied(have, w, a)
        BY DEF Satisfied
      <4> HIDE DEF rest, got
      <4>3. QED  BY <3>1, <4>1, <4>2 DEF Pending
    <3> HIDE DEF rest
    <3>5. AllPending([tasks EXCEPT ![current] = rest])  BY <1>1, <1>3, <3>4, UpdatePending
    <3>6. QED  BY <1>1, <2>3, <3>2, <3>3, <3>5, ReturnPending, CodesAre
  <2>6. ASSUME ~Satisfied(have, want, any), NEW timeout \in 0..MaxTimeout,
               Done(Block(tasks, wait, timeout), "ok")
        PROVE  WaitInv'
    <3>1. wait \in Wait /\ wait.on = "events" /\ wait.want = want /\ wait.any = any
      BY DEF NotWaiting, Wait
    <3> HIDE DEF wait
    <3>2. \A task \in Task : task.wait = wait /\ task.events = tasks[current].events =>
            Pending(task, queues', nextQueue', semaphores', nextSemaphore')
      BY <2>6, <3>1 DEF Pending
    <3>3. /\ Block(tasks, wait, timeout) \in [TaskIds -> Task]
          /\ AllPending(Block(tasks, wait, timeout))
      BY <1>1, <1>3, <3>1, <3>2, BlockPending
    <3>4. QED  BY <1>1, <2>6, <3>3, CodesAre, DonePending
  <2>7. Done(tasks, "refused") => WaitInv'  BY <1>1, <1>3, DonePending, CodesAre
  <2>8. QED  BY <2>1, <2>4, <2>5, <2>6, <2>7
<1>6. QED  BY <1>4, <1>5 DEF EventServices

\* A semaphore is created under an id that nobody waits for, counts only when nobody
\* waits, and is waited for only at zero.  One that is deleted has no unit either.
LEMMA SemaphoreServicesPending ==
  ASSUME KernelInv, KernelInv', GivenOut, WaitInv, SemaphoreServices
  PROVE  WaitInv'
<1>1. TasksOK /\ tasks \in [TaskIds -> Task] /\ current \in TaskIds /\ live \in Context
  BY DEF KernelInv, TasksOK
<1>2. /\ nextQueue' >= nextQueue /\ nextSemaphore' >= nextSemaphore
      /\ {nextQueue, nextQueue', nextSemaphore, nextSemaphore'} \subseteq Nat
      /\ UNCHANGED <<queues, nextQueue>>
  <2>1. /\ nextSemaphore' \in {nextSemaphore, nextSemaphore + 1} /\ nextQueue' = nextQueue
        /\ queues' = queues
    BY DEF SemaphoreServices, Sm_Create, Sm_Delete, Sm_Delete_On, Sm_P, Sm_P_On, Sm_V,
       Sm_V_On
  <2>2. QED  BY <2>1, NextIds
<1>3. semaphores \in [1..MaxSemaphore -> [live: BOOLEAN, count: 0..CountLimit]]
  BY DEF KernelInv, ObjectsOK
<1>4. ASSUME NEW s,
             \A r \in 1..MaxSemaphore : r # s => semaphores'[r] = semaphores[r],
             \/ \A t \in TaskIds : t \notin Waiters("semaphore", s)
             \/ s \in 1..MaxSemaphore /\ semaphores'[s].count = 0
      PROVE  AllPending(tasks)
  <2>1. SUFFICES ASSUME NEW t \in TaskIds
                 PROVE  Pending(tasks[t], queues', nextQueue', semaphores', nextSemaphore')
    BY DEF AllPending
  <2>2. CASE t \notin Waiters("semaphore", s)
    <3>1. tasks[t].wait.on = "semaphore" =>
            semaphores'[tasks[t].wait.object] = semaphores[tasks[t].wait.object]
      BY <1>4, <2>2 DEF Waiters, WaitInv, Pending
    <3>2. QED  BY <1>2, <3>1, OthersPending
  <2>3. CASE t \in Waiters("semaphore", s) /\ semaphores'[s].count = 0
    <3>1. tasks[t].wait.on = "semaphore" /\ tasks[t].wait.object = s
      BY <2>3 DEF Waiters
    <3>2. s \in 1..MaxSemaphore /\ s < nextSemaphore
      BY <3>1 DEF WaitInv, Pending
    <3>3. s < nextSemaphore'  BY <1>2, <3>2, KernelAssumption
    <3>4. QED  BY <2>3, <3>1, <3>2, <3>3 DEF Pending
  <2>4. QED  BY <1>4, <2>2, <2>3
<1>5. ASSUME UNCHANGED semaphores PROVE AllPending(tasks)
  BY <1>2, <1>5, OthersPending DEF AllPending
<1>6. ASSUME NEW code \in Codes, AllPending(tasks), Done(tasks, code) PROVE WaitInv'
  BY <1>1, <1>6, DonePending
<1>7. CASE Sm_Create
  <2>1. CASE UNCHANGED semaphores
    BY <1>5, <1>6, <1>7, <2>1, CodesAre DEF Sm_Create
  <2>2. CASE \E new : semaphores' = [semaphores EXCEPT ![nextSemaphore] = new]
    <3>1. \A t \in TaskIds : t \notin Waiters("semaphore", nextSemaphore)
      BY <1>2 DEF Waiters, WaitInv, Pending
    <3>2. \A r \in 1..MaxSemaphore : r # nextSemaphore => semaphores'[r] = semaphores[r]
      BY <1>3, <2>2
    <3>3. AllPending(tasks)  BY <1>4, <3>1, <3>2
    <3>4. QED  BY <1>6, <1>7, <3>3, CodesAre DEF Sm_Create
  <2>3. QED  BY <1>7, <2>1, <2>2 DEF Sm_Create
<1>8. CASE Sm_Delete
  <2>1. PICK s \in 1..MaxSemaphore : semaphores' = [semaphores EXCEPT ![s] = NoSemaphore]
    BY <1>8 DEF Sm_Delete, Sm_Delete_On
  <2>2. semaphores'[s].count = 0  BY <1>3, <2>1 DEF NoSemaphore
  <2>3. \A r \in 1..MaxSemaphore : r # s => semaphores'[r] = semaphores[r]  BY <1>3, <2>1
  <2>4. AllPending(tasks)  BY <1>4, <2>2, <2>3
  <2>5. QED  BY <1>6, <1>8, <2>4, CodesAre DEF Sm_Delete, Sm_Delete_On
<1>9. CASE Sm_P
  <2>1. PICK s \in 1..MaxSemaphore :
          /\ semaphores[s].live
          /\ \/ /\ semaphores[s].count # 0
                /\ semaphores' = [semaphores EXCEPT ![s].count = @ - 1]
                /\ Done(tasks, "ok")
             \/ Done(tasks, "refused") /\ UNCHANGED semaphores
             \/ /\ semaphores[s].count = 0 /\ UNCHANGED semaphores
                /\ \E timeout \in 0..MaxTimeout :
                     Done(Block(tasks, WaitFor("semaphore", s), timeout), "ok")
    BY <1>9 DEF Sm_P, Sm_P_On
  <2>2. CASE /\ semaphores[s].count # 0
             /\ semaphores' = [semaphores EXCEPT ![s].count = @ - 1]
             /\ Done(tasks, "ok")
    <3>1. \A t \in TaskIds : t \notin Waiters("semaphore", s)
      BY <2>2 DEF Waiters, WaitInv, Pending
    <3>2. \A r \in 1..MaxSemaphore : r # s => semaphores'[r] = semaphores[r]  BY <1>3, <2>2
    <3>3. AllPending(tasks)  BY <1>4, <3>1, <3>2
    <3>4. QED  BY <1>6, <2>2, <3>3, CodesAre
  <2>3. CASE Done(tasks, "refused") /\ UNCHANGED semaphores
    BY <1>5, <1>6, <2>3, CodesAre
  <2>4. ASSUME semaphores[s].count = 0, UNCHANGED semaphores, NEW timeout \in 0..MaxTimeout,
               Done(Block(tasks, WaitFor("semaphore", s), timeout), "ok")
        PROVE  WaitInv'
    <3>1. WaitFor("semaphore", s) \in Wait  BY WaitForType
    <3>2. WaitFor("semaphore", s).on = "semaphore" /\ WaitFor("semaphore", s).object = s
      BY DEF WaitFor, NotWaiting
    <3>3. s < nextSemaphore'
      <4>1. s < nextSemaphore  BY <2>1 DEF GivenOut
      <4>2. QED  BY <1>2, <4>1, KernelAssumption
    <3>4. \A task \in Task : task.wait = WaitFor("semaphore", s) =>
            Pending(task, queues', nextQueue', semaphores', nextSemaphore')
      BY <2>1, <2>4, <3>2, <3>3 DEF Pending
    <3>5. AllPending(tasks)  BY <1>5, <2>4
    <3>6. /\ Block(tasks, WaitFor("semaphore", s), timeout) \in [TaskIds -> Task]
          /\ AllPending(Block(tasks, WaitFor("semaphore", s), timeout))
      BY <1>1, <3>1, <3>4, <3>5, BlockPending
    <3>7. QED  BY <1>1, <2>4, <3>6, CodesAre, DonePending
  <2>5. QED  BY <2>1, <2>2, <2>3, <2>4
<1>10. CASE Sm_V
  <2>1. PICK s \in 1..MaxSemaphore :
          \/ /\ \E t \in Waiters("semaphore", s) :
                  Done([tasks EXCEPT ![t] = WakeWith(@, "ok")], "ok")
             /\ UNCHANGED semaphores
          \/ /\ Waiters("semaphore", s) = {}
             /\ \E n : semaphores' = [semaphores EXCEPT ![s].count = n]
             /\ Done(tasks, "ok")
    BY <1>10 DEF Sm_V, Sm_V_On
  <2>2. ASSUME NEW t \in Waiters("semaphore", s), UNCHANGED semaphores,
               Done([tasks EXCEPT ![t] = WakeWith(@, "ok")], "ok")
        PROVE  WaitInv'
    <3>1. t \in TaskIds  BY DEF Waiters
    <3> DEFINE ts == [tasks EXCEPT ![t] = WakeWith(tasks[t], "ok")]
    <3>2. WakeWith(tasks[t], "ok") \in Task /\ WakeWith(tasks[t], "ok").wait = NotWaiting
      BY <1>1, <3>1, WakeWithType, WakePending, CodesAre
    <3>3. ts \in [TaskIds -> Task]  BY <1>1, <3>1, <3>2
    <3>4. \A u \in TaskIds : ts[u].wait = NotWaiting \/ ts[u] = tasks[u]
      BY <1>1, <3>1, <3>2
    <3>5. Done(ts, "ok")  BY <2>2
    <3> HIDE DEF ts
    <3>6. AllPending(tasks)  BY <1>5, <2>2
    <3>7. AllPending(ts)  BY <3>4, <3>6, WokenPending
    <3>8. QED  BY <1>1, <3>3, <3>5, <3>7, CodesAre, DonePending
  <2>3. CASE /\ Waiters("semaphore", s) = {}
             /\ \E n : semaphores' = [semaphores EXCEPT ![s].count = n]
             /\ Done(tasks, "ok")
    <3>1. \A r \in 1..MaxSemaphore : r # s => semaphores'[r] = semaphores[r]  BY <1>3, <2>3
    <3>2. AllPending(tasks)  BY <1>4, <2>3, <3>1
    <3>3. QED  BY <1>6, <2>3, <3>2, CodesAre
  <2>4. QED  BY <2>1, <2>2, <2>3
<1>11. QED  BY <1>7, <1>8, <1>9, <1>10 DEF SemaphoreServices

\* Sleeping, timers and the tick of the guest.
LEMMA TimeServicesPending ==
  ASSUME KernelInv, WaitInv, TimeServices
  PROVE  WaitInv'
<1>1. TasksOK /\ tasks \in [TaskIds -> Task] /\ current \in TaskIds /\ live \in Context
  BY DEF KernelInv, TasksOK
<1>2. CASE Tm_Tick  BY <1>2, HostGuestPending
<1>3. Fixed
  BY DEF TimeServices, Tm_Tick, Tm_TickReturn, Tm_WkAfter, Tm_Ev, Tm_Cancel, objects, Fixed
<1>4. AllPending(tasks)  BY <1>3, TablePending
<1>5. ASSUME NEW code \in Codes, Done(tasks, code) PROVE WaitInv'
  BY <1>1, <1>4, <1>5, DonePending
<1>6. CASE Tm_WkAfter
  <2>1. ASSUME NEW timeout \in 1..MaxTimeout,
               Done(Block(tasks, WaitFor("sleep", 0), timeout), "ok")
        PROVE  WaitInv'
    <3>1. timeout \in 0..MaxTimeout  BY KernelAssumption
    <3>2. WaitFor("sleep", 0) \in Wait  BY WaitForType
    <3>3. WaitFor("sleep", 0).on = "sleep"  BY DEF WaitFor, NotWaiting
    <3>4. \A task \in Task : task.wait = WaitFor("sleep", 0) =>
            Pending(task, queues', nextQueue', semaphores', nextSemaphore')
      BY <3>3, NothingPending
    <3>5. /\ Block(tasks, WaitFor("sleep", 0), timeout) \in [TaskIds -> Task]
          /\ AllPending(Block(tasks, WaitFor("sleep", 0), timeout))
      BY <1>1, <1>4, <3>1, <3>2, <3>4, BlockPending
    <3>6. QED  BY <1>1, <2>1, <3>5, CodesAre, DonePending
  <2>2. ASSUME Done([tasks EXCEPT ![current].state = "Ready", ![current].cpu = live], "ok")
        PROVE  WaitInv'
    <3> DEFINE new == [tasks[current] EXCEPT !.state = "Ready", !.cpu = live]
    <3>1. \A task \in Task : LET yields == [task EXCEPT !.state = "Ready", !.cpu = live]
                             IN  /\ yields \in Task /\ yields.wait = task.wait
                                 /\ yields.events = task.events
      BY <1>1 DEF Task, States
    <3>2. /\ new \in Task /\ new.wait = tasks[current].wait
          /\ new.events = tasks[current].events
      BY <1>1, <3>1
    <3>3. [tasks EXCEPT ![current].state = "Ready", ![current].cpu = live] =
            [tasks EXCEPT ![current] = new]
      OBVIOUS
    <3> HIDE DEF new
    <3>4. [tasks EXCEPT ![current] = new] \in [TaskIds -> Task]  BY <1>1, <3>2
    <3>5. AllPending([tasks EXCEPT ![current] = new])  BY <1>1, <1>4, <3>2, KeptPending
    <3>6. QED  BY <1>1, <2>2, <3>3, <3>4, <3>5, CodesAre, DonePending
  <2>3. QED  BY <1>6, <2>1, <2>2 DEF Tm_WkAfter
<1>7. CASE Tm_TickReturn \/ Tm_Ev \/ Tm_Cancel
  BY <1>5, <1>7, CodesAre DEF Tm_TickReturn, Tm_Ev, Tm_Cancel
<1>8. QED  BY <1>2, <1>6, <1>7 DEF TimeServices

-----------------------------------------------------------------------------
(***************************************************************************)
(* Theorems.                                                               *)
(***************************************************************************)

\* An object that becomes live has the id that is handed out in that step.
LEMMA NewIds ==
  ASSUME KernelInv, [Next]_vars
  PROVE  /\ \A q \in 1..MaxQueue : ~queues[q].live /\ queues'[q].live =>
              q = nextQueue /\ nextQueue' = nextQueue + 1
         /\ \A s \in 1..MaxSemaphore : ~semaphores[s].live /\ semaphores'[s].live =>
              s = nextSemaphore /\ nextSemaphore' = nextSemaphore + 1
         /\ nextQueue' \in {nextQueue, nextQueue + 1}
         /\ nextSemaphore' \in {nextSemaphore, nextSemaphore + 1}
         /\ nextQueue' # nextQueue \/ nextSemaphore' # nextSemaphore => Done(tasks, "ok")
<1>1. /\ queues \in [1..MaxQueue -> [live: BOOLEAN, byPriority: BOOLEAN, capacity: Nat,
                                     messages: Seq(Messages)]]
      /\ semaphores \in [1..MaxSemaphore -> [live: BOOLEAN, count: 0..CountLimit]]
  BY DEF KernelInv, ObjectsOK
<1>2. CASE Host \/ Guest \/ TaskServices \/ EventServices \/ TimeServices \/ Stopped
           \/ UNCHANGED vars
  <2>1. Fixed
    BY <1>2 DEF Host, Guest, TaskServices, EventServices, TimeServices, Stopped, HostTick,
       FireTimer,
       BeforeInstruction, Compute, WriteSR, Interrupt, Trap13, Fault, T_Create, T_Start,
     T_Start_Of,
       T_Restart, T_Restart_Of, T_Delete, T_Delete_Of, T_Suspend, T_Resume, T_SetPri,
     T_Mode, NoEffect, Ev_Send, Ev_Receive,
       Tm_Tick, Tm_TickReturn, Tm_WkAfter, Tm_Ev, Tm_Cancel, objects, vars, Fixed
  <2>2. QED  BY <2>1 DEF Fixed
<1>3. CASE QueueServices
  <2>1. UNCHANGED <<semaphores, nextSemaphore>>
    BY <1>3 DEF QueueServices, Q_Create, Q_Delete, Q_Send, Q_Urgent, Q_Broadcast, Q_Receive,
       objects
  <2>2. \/ UNCHANGED <<queues, nextQueue>>
        \/ /\ nextQueue' = nextQueue + 1 /\ Done(tasks, "ok")
           /\ \E new : queues' = [queues EXCEPT ![nextQueue] = new]
        \/ nextQueue' = nextQueue /\ \E q \in 1..MaxQueue : queues' = [queues EXCEPT ![q] = NoQueue]
        \/ nextQueue' = nextQueue /\ \E q \in 1..MaxQueue : \E new :
              queues' = [queues EXCEPT ![q].messages = new]
    <3>1. CASE Q_Create  BY <3>1 DEF Q_Create
    <3>2. CASE Q_Delete  BY <3>2 DEF Q_Delete
    <3>3. CASE Q_Send \/ Q_Urgent
      <4>1. nextQueue' = nextQueue  BY <3>3 DEF Q_Send, Q_Urgent
      <4>2. PICK q \in 1..MaxQueue, message \in fresh, urgent \in BOOLEAN :
              Q_Put(q, message, urgent)
        BY <3>3 DEF Q_Send, Q_Urgent
      <4>3. UNCHANGED queues \/ \E new : queues' = [queues EXCEPT ![q].messages = new]
        BY <4>2 DEF Q_Put
      <4>4. QED  BY <4>1, <4>3
    <3>4. CASE Q_Broadcast  BY <3>4 DEF Q_Broadcast, objects
    <3>5. CASE Q_Receive  BY <3>5 DEF Q_Receive
    <3>6. QED  BY <1>3, <3>1, <3>2, <3>3, <3>4, <3>5 DEF QueueServices
  <2>3. \A q \in 1..MaxQueue : \A new : [queues[q] EXCEPT !.messages = new].live = queues[q].live
    BY <1>1
  <2>4. ASSUME NEW q \in 1..MaxQueue, ~queues[q].live, queues'[q].live
        PROVE  q = nextQueue /\ nextQueue' = nextQueue + 1
    <3>1. ASSUME NEW r \in 1..MaxQueue, queues' = [queues EXCEPT ![r] = NoQueue] PROVE FALSE
      BY <1>1, <2>4, <3>1 DEF NoQueue
    <3>2. ASSUME NEW r \in 1..MaxQueue, NEW new,
                 queues' = [queues EXCEPT ![r].messages = new]
          PROVE  FALSE
      <4>1. queues'[r] = [queues[r] EXCEPT !.messages = new]  BY <1>1, <3>2
      <4>2. \A p \in 1..MaxQueue : p # r => queues'[p] = queues[p]  BY <1>1, <3>2
      <4>3. QED  BY <2>3, <2>4, <4>1, <4>2
    <3>3. ASSUME NEW new, queues' = [queues EXCEPT ![nextQueue] = new] PROVE q = nextQueue
      BY <1>1, <2>4, <3>3
    <3>4. QED  BY <2>2, <2>4, <3>1, <3>2, <3>3
  <2>5. QED  BY <2>1, <2>2, <2>4
<1>4. CASE SemaphoreServices
  <2>1. UNCHANGED <<queues, nextQueue>>
    BY <1>4 DEF SemaphoreServices, Sm_Create, Sm_Delete, Sm_Delete_On, Sm_P, Sm_P_On, Sm_V,
       Sm_V_On
  <2>2. \/ UNCHANGED <<semaphores, nextSemaphore>>
        \/ /\ nextSemaphore' = nextSemaphore + 1 /\ Done(tasks, "ok")
           /\ \E new : semaphores' = [semaphores EXCEPT ![nextSemaphore] = new]
        \/ nextSemaphore' = nextSemaphore /\ \E s \in 1..MaxSemaphore :
              semaphores' = [semaphores EXCEPT ![s] = NoSemaphore]
        \/ nextSemaphore' = nextSemaphore /\ \E s \in 1..MaxSemaphore : \E new :
              semaphores' = [semaphores EXCEPT ![s].count = new]
    BY <1>4 DEF SemaphoreServices, Sm_Create, Sm_Delete, Sm_Delete_On, Sm_P, Sm_P_On, Sm_V,
       Sm_V_On
  <2>3. \A s \in 1..MaxSemaphore : \A new :
          [semaphores[s] EXCEPT !.count = new].live = semaphores[s].live
    BY <1>1
  <2>4. ASSUME NEW s \in 1..MaxSemaphore, ~semaphores[s].live, semaphores'[s].live
        PROVE  s = nextSemaphore /\ nextSemaphore' = nextSemaphore + 1
    <3>1. ASSUME NEW r \in 1..MaxSemaphore, semaphores' = [semaphores EXCEPT ![r] = NoSemaphore] PROVE FALSE
      BY <1>1, <2>4, <3>1 DEF NoSemaphore
    <3>2. ASSUME NEW r \in 1..MaxSemaphore, NEW new,
                 semaphores' = [semaphores EXCEPT ![r].count = new]
          PROVE  FALSE
      <4>1. semaphores'[r] = [semaphores[r] EXCEPT !.count = new]  BY <1>1, <3>2
      <4>2. \A p \in 1..MaxSemaphore : p # r => semaphores'[p] = semaphores[p]  BY <1>1, <3>2
      <4>3. QED  BY <2>3, <2>4, <4>1, <4>2
    <3>3. ASSUME NEW new, semaphores' = [semaphores EXCEPT ![nextSemaphore] = new] PROVE s = nextSemaphore
      BY <1>1, <2>4, <3>3
    <3>4. QED  BY <2>2, <2>4, <3>1, <3>2, <3>3
  <2>5. QED  BY <2>1, <2>2, <2>4
<1>5. QED  BY <1>2, <1>3, <1>4 DEF Next

\* At boot there is no object and nobody waits.
LEMMA InitPending == Init => GivenOut /\ WaitInv
<1> SUFFICES ASSUME Init PROVE GivenOut /\ WaitInv
  OBVIOUS
<1>1. GivenOut  BY DEF Init, GivenOut, NoQueue, NoSemaphore
<1>2. \A t \in TaskIds : tasks[t].wait.on = "none"  BY DEF Init, NoTask, NotWaiting
<1>3. QED  BY <1>1, <1>2, NothingPending DEF WaitInv

\* No step leaves the invariant.
LEMMA NextPending ==
  ASSUME KernelInv, KernelInv', GivenOut, WaitInv, [Next]_vars
  PROVE  GivenOut' /\ WaitInv'
<1>1. GivenOut'
  <2>1. nextQueue \in Nat /\ nextSemaphore \in Nat  BY DEF KernelInv, ObjectsOK
  <2>2. ASSUME NEW q \in 1..MaxQueue, queues'[q].live PROVE q < nextQueue'
    <3>1. q \in Nat  BY KernelAssumption
    <3>2. queues[q].live => q < nextQueue  BY DEF GivenOut
    <3>3. QED  BY <2>1, <2>2, <3>1, <3>2, NewIds
  <2>3. ASSUME NEW s \in 1..MaxSemaphore, semaphores'[s].live PROVE s < nextSemaphore'
    <3>1. s \in Nat  BY KernelAssumption
    <3>2. semaphores[s].live => s < nextSemaphore  BY DEF GivenOut
    <3>3. QED  BY <2>1, <2>3, <3>1, <3>2, NewIds
  <2>4. QED  BY <2>2, <2>3 DEF GivenOut
<1>2. WaitInv'
  <2>1. CASE Host \/ Guest \/ UNCHANGED vars  BY <2>1, HostGuestPending
  <2>2. CASE Stopped  BY <2>2, HostGuestPending DEF Stopped
  <2>3. CASE TaskServices  BY <2>3, TaskServicesPending
  <2>4. CASE QueueServices  BY <2>4, QueueServicesPending
  <2>5. CASE EventServices  BY <2>5, EventServicesPending
  <2>6. CASE SemaphoreServices  BY <2>6, SemaphoreServicesPending
  <2>7. CASE TimeServices  BY <2>7, TimeServicesPending
  <2>8. QED  BY <2>1, <2>2, <2>3, <2>4, <2>5, <2>6, <2>7 DEF Next
<1>3. QED  BY <1>1, <1>2

\* Every wait is pending in every state the kernel reaches.
THEOREM KernelWaits == Spec => [](GivenOut /\ WaitInv)
<1>1. Init => GivenOut /\ WaitInv  BY InitPending
<1>2. KernelInv /\ KernelInv' /\ GivenOut /\ WaitInv /\ [Next]_vars => GivenOut' /\ WaitInv'
  BY NextPending
<1>3. QED  BY <1>1, <1>2, KernelInvariant, PTL DEF Spec

\* No wake-up is missed, for any number of tasks and objects and also when the guest
\* deletes and restarts tasks that wait: what a task waits for is not there.
THEOREM KernelNoMissedWakeup == Spec => []NoMissedWakeup
<1>1. WaitInv => NoMissedWakeup  BY DEF WaitInv, Pending, NoMissedWakeup
<1>2. QED  BY <1>1, KernelWaits, PTL

\* A new semaphore or queue has no waiters, whoever was stranded before: ids are not
\* handed out twice.
THEOREM KernelNewObjects == Spec => NewObjectsHaveNoWaiters
<1> DEFINE Step ==
      /\ \A s \in 1..MaxSemaphore :
           ~semaphores[s].live /\ semaphores'[s].live => Waiters("semaphore", s)' = {}
      /\ \A q \in 1..MaxQueue :
           ~queues[q].live /\ queues'[q].live => Waiters("queue", q)' = {}
<1>1. ASSUME KernelInv, GivenOut, WaitInv, [Next]_vars
      PROVE  Step
  <2>1. TasksOK /\ tasks \in [TaskIds -> Task] /\ nextQueue \in Nat /\ nextSemaphore \in Nat
    BY <1>1 DEF KernelInv, TasksOK, ObjectsOK
  <2>2. ASSUME nextQueue' = nextQueue + 1 \/ nextSemaphore' = nextSemaphore + 1
        PROVE  \A t \in TaskIds : tasks'[t].wait = tasks[t].wait
    <3>1. Done(tasks, "ok")  BY <1>1, <2>1, <2>2, NewIds
    <3>2. Result(Nothing) \in Context  BY <2>1, NothingData, ResultType DEF TasksOK
    <3>3. \A t \in TaskIds : SameTask(tasks'[t], tasks[t])
      BY <2>1, <3>1, <3>2, ReturnEffect, CodesAre DEF Done, TasksOK
    <3>4. QED  BY <3>3 DEF SameTask
  <2>3. ASSUME NEW s \in 1..MaxSemaphore, ~semaphores[s].live, semaphores'[s].live
        PROVE  Waiters("semaphore", s)' = {}
    <3>1. s = nextSemaphore /\ nextSemaphore' = nextSemaphore + 1  BY <1>1, <2>3, NewIds
    <3>2. \A t \in TaskIds :
            tasks[t].wait.on = "semaphore" => tasks[t].wait.object < nextSemaphore
      BY <1>1 DEF WaitInv, Pending
    <3>3. QED  BY <2>1, <2>2, <3>1, <3>2 DEF Waiters
  <2>4. ASSUME NEW q \in 1..MaxQueue, ~queues[q].live, queues'[q].live
        PROVE  Waiters("queue", q)' = {}
    <3>1. q = nextQueue /\ nextQueue' = nextQueue + 1  BY <1>1, <2>4, NewIds
    <3>2. \A t \in TaskIds : tasks[t].wait.on = "queue" => tasks[t].wait.object < nextQueue
      BY <1>1 DEF WaitInv, Pending
    <3>3. QED  BY <2>1, <2>2, <3>1, <3>2 DEF Waiters
  <2>5. QED  BY <2>3, <2>4
<1>2. QED  BY <1>1, KernelInvariant, KernelWaits, PTL DEF Spec, NewObjectsHaveNoWaiters

-----------------------------------------------------------------------------
(***************************************************************************)
(* Theorems about PsosKernel when the guest leaves waiting tasks alone     *)
(* (Disciplined): exactly the blocked tasks wait, a deleted task stays     *)
(* deleted, and a wait that times out makes up no message and no event.    *)
(*                                                                         *)
(* A blocked task waits with empty registers, since the trap that blocked  *)
(* it cleared them and nothing but a wake-up writes the context of a task  *)
(* that is not on the CPU; so a time-out, which writes only the return     *)
(* code, leaves them empty.                                                *)
(***************************************************************************)

Waits(task) == task.wait.on # "none" <=> task.state = "Blocked"
Empty(task) == task.wait.on \in {"queue", "events"} => task.cpu.data = Nothing

\* A step ends a wait of this task with a time-out only if it leaves it nothing.
Honest(old, new) ==
  old.wait.on \in {"queue", "events"} /\ new.wait.on = "none" /\ new.cpu.code = "timeout" =>
    new.cpu.data = Nothing

\* The inductive invariant, together with KernelInv.  Numbers not handed out yet have
\* no task, so no create overwrites one that was deleted.
DisciplineInv ==
  \A t \in TaskIds : /\ Waits(tasks[t]) /\ Empty(tasks[t])
                     /\ t >= nextTask => tasks[t].state = "Absent"

\* The same of a table that a service passes on.  The registers of the caller are
\* those of the CPU.
Orderly(ts) ==
  \A t \in TaskIds : /\ Waits(ts[t])
                     /\ t >= nextTask' => ts[t].state = "Absent"
                     /\ t # current => Empty(ts[t]) /\ Honest(tasks[t], ts[t])

KeepsDead(ts) == \A t \in TaskIds : tasks[t].state = "Dead" => ts[t].state = "Dead"

HonestStep == \A t \in TaskIds : Honest(tasks[t], tasks'[t])
DeadStep == \A t \in TaskIds : tasks[t].state = "Dead" => tasks'[t].state = "Dead"
Disciplines == DisciplineInv' /\ HonestStep

-----------------------------------------------------------------------------
(***************************************************************************)
(* The end of a step.                                                      *)
(***************************************************************************)

\* The task on the CPU waits for nothing.
LEMMA CallerFree ==
  ASSUME KernelInv, DisciplineInv
  PROVE  /\ current \in TaskIds /\ tasks[current].state \in {"Ready", "Running"}
         /\ tasks[current].wait.on = "none" /\ current < nextTask
<1>1. current \in TaskIds /\ tasks[current].state \in {"Ready", "Running"}
  BY DEF KernelInv, TasksOK, CpuOwnerRunnable
<1>2. tasks[current].wait.on = "none"  BY <1>1 DEF DisciplineInv, Waits
<1>3. current \in Nat /\ nextTask \in Nat
  BY <1>1, KernelAssumption DEF TaskIds, KernelInv, ObjectsOK
<1>4. ~(current >= nextTask)  BY <1>1 DEF DisciplineInv
<1>5. QED  BY <1>1, <1>2, <1>3, <1>4

\* A switch: only the registers of the task that had the CPU are saved.
LEMMA SwitchDisciplines ==
  ASSUME KernelInv, DisciplineInv, NEW ts, Orderly(ts),
         \A t \in TaskIds : SameTask(tasks'[t], ts[t]),
         \A t \in TaskIds \ {current} : tasks'[t].cpu = ts[t].cpu,
         Empty(tasks'[current])
  PROVE  /\ Disciplines
         /\ KeepsDead(ts) => DeadStep
<1>1. ASSUME NEW t \in TaskIds
      PROVE  /\ Waits(tasks'[t]) /\ Empty(tasks'[t])
             /\ t >= nextTask' => tasks'[t].state = "Absent"
             /\ Honest(tasks[t], tasks'[t])
  <2>1. SameTask(tasks'[t], ts[t])  OBVIOUS
  <2>2. Waits(tasks'[t])  BY <2>1 DEF SameTask, Waits, Orderly
  <2>3. t >= nextTask' => tasks'[t].state = "Absent"  BY <2>1 DEF SameTask, Orderly
  <2>4. CASE t # current
    BY <2>1, <2>2, <2>3, <2>4 DEF SameTask, Empty, Honest, Orderly
  <2>5. CASE t = current
    BY <2>2, <2>3, <2>5, CallerFree DEF Honest
  <2>6. QED  BY <2>4, <2>5
<1>2. KeepsDead(ts) => DeadStep  BY DEF KeepsDead, DeadStep, SameTask
<1>3. DisciplineInv'  BY <1>1 DEF DisciplineInv
<1>4. QED  BY <1>1, <1>2, <1>3 DEF Disciplines, HonestStep

\* A caller that blocked gets its registers saved, whether there is a switch or not.
LEMMA BlockedIsSaved ==
  ASSUME NEW ts \in [TaskIds -> Task], NEW regs \in Context, NEW code \in Codes,
         current \in TaskIds, Return(ts, regs, code), ts[current].state = "Blocked"
  PROVE  tasks'[current].cpu.data = regs.data
<1> DEFINE out == IF InHandler THEN regs ELSE [regs EXCEPT !.code = code]
           task == [ts[current] EXCEPT !.cpu = out]
           saved == [ts EXCEPT ![current] = task]
<1>1. out.data = regs.data /\ out \in Context  BY DEF Context
<1>2. task.cpu = out /\ task.state = "Blocked" /\ task \in Task
  BY <1>1 DEF Task
<1>3. Schedule(saved, out, ~Runnable(saved[current]))
  BY DEF Return
<1> HIDE DEF task, out
<1>4. saved[current] = task  OBVIOUS
<1>5. CASE tasks' = saved  BY <1>1, <1>2, <1>4, <1>5
<1>6. ASSUME NEW b \in TaskIds, Runnable(saved[b]), SwitchTo(saved, out, b)
      PROVE  tasks'[current].cpu = out
  <2>1. b # current  BY <1>2, <1>4, <1>6 DEF Runnable
  <2> DEFINE kept == [task EXCEPT !.cpu = out,
                                  !.state = IF @ = "Running" THEN "Ready" ELSE @]
  <2>2. tasks' = [saved EXCEPT ![current] = kept, ![b].state = "Running"]
    BY <1>2, <1>4, <1>6 DEF SwitchTo
  <2>3. kept.cpu = out  BY <1>2 DEF Task
  <2> HIDE DEF kept
  <2>4. tasks'[current] = kept  BY <2>1, <2>2
  <2>5. QED  BY <2>3, <2>4
<1>7. QED  BY <1>1, <1>3, <1>5, <1>6 DEF Schedule, IsBest

\* The end of a TRAP #11.
LEMMA ReturnDisciplines ==
  ASSUME KernelInv, DisciplineInv, NEW ts \in [TaskIds -> Task], Orderly(ts),
         NEW regs \in Context, NEW code \in Codes, Return(ts, regs, code),
         ts[current].state = "Blocked" => regs.data = Nothing
  PROVE  /\ Disciplines
         /\ KeepsDead(ts) => DeadStep
<1>1. current \in TaskIds /\ live \in Context  BY DEF KernelInv, TasksOK
<1>2. /\ \A t \in TaskIds : SameTask(tasks'[t], ts[t])
      /\ \A t \in TaskIds \ {current} : tasks'[t].cpu = ts[t].cpu
  BY <1>1, ReturnEffect
<1>3. Empty(tasks'[current])
  <2>1. SameTask(tasks'[current], ts[current]) /\ Waits(ts[current])
    BY <1>1, <1>2 DEF Orderly
  <2>2. CASE ts[current].state = "Blocked"
    <3>1. tasks'[current].cpu.data = Nothing  BY <1>1, <2>2, BlockedIsSaved
    <3>2. QED  BY <3>1 DEF Empty
  <2>3. CASE ts[current].state # "Blocked"
    BY <2>1, <2>3 DEF Waits, SameTask, Empty
  <2>4. QED  BY <2>2, <2>3
<1>4. QED  BY <1>2, <1>3, SwitchDisciplines

\* A service that delivers nothing; when it waits it is no handler's.
LEMMA DoneDisciplines ==
  ASSUME KernelInv, DisciplineInv, NEW ts \in [TaskIds -> Task], Orderly(ts),
         NEW code \in Codes, Done(ts, code), ts[current].state = "Blocked" => MayWait
  PROVE  /\ Disciplines
         /\ KeepsDead(ts) => DeadStep
<1>1. live \in Context  BY DEF KernelInv, TasksOK
<1>2. Result(Nothing) \in Context  BY <1>1, NothingData, ResultType
<1>3. MayWait => Result(Nothing).data = Nothing  BY <1>1 DEF MayWait, Result, Context
<1>4. QED  BY <1>2, <1>3, ReturnDisciplines DEF Done

\* The record of one task is replaced.
LEMMA UpdateOrderly ==
  ASSUME KernelInv, DisciplineInv, nextTask' >= nextTask, nextTask' \in Nat,
         NEW u \in TaskIds, NEW task \in Task, Waits(task),
         u >= nextTask' => task.state = "Absent",
         u # current => Empty(task) /\ Honest(tasks[u], task)
  PROVE  /\ [tasks EXCEPT ![u] = task] \in [TaskIds -> Task]
         /\ Orderly([tasks EXCEPT ![u] = task])
         /\ (tasks[u].state = "Dead" => task.state = "Dead") =>
              KeepsDead([tasks EXCEPT ![u] = task])
<1> DEFINE ts == [tasks EXCEPT ![u] = task]
<1>1. tasks \in [TaskIds -> Task] /\ nextTask \in Nat  BY DEF KernelInv, TasksOK, ObjectsOK
<1>2. ts \in [TaskIds -> Task] /\ ts[u] = task  BY <1>1
<1>3. \A t \in TaskIds : t # u => ts[t] = tasks[t]  BY <1>1
<1> HIDE DEF ts
<1>4. ASSUME NEW t \in TaskIds, t # u
      PROVE  /\ Waits(ts[t]) /\ Empty(ts[t]) /\ Honest(tasks[t], ts[t])
             /\ t >= nextTask' => ts[t].state = "Absent"
  <2>1. t \in Nat  BY KernelAssumption DEF TaskIds
  <2>2. t >= nextTask' => t >= nextTask  BY <1>1, <2>1
  <2>3. ts[t] = tasks[t]  BY <1>3, <1>4
  <2>4. QED  BY <2>2, <2>3 DEF DisciplineInv, Honest
<1>5. Orderly(ts)
  <2>1. SUFFICES ASSUME NEW t \in TaskIds
                 PROVE  /\ Waits(ts[t])
                        /\ t >= nextTask' => ts[t].state = "Absent"
                        /\ t # current => Empty(ts[t]) /\ Honest(tasks[t], ts[t])
    BY DEF Orderly
  <2>2. CASE t = u  BY <1>2, <2>2
  <2>3. CASE t # u  BY <1>4, <2>3
  <2>4. QED  BY <2>2, <2>3
<1>6. (tasks[u].state = "Dead" => task.state = "Dead") => KeepsDead(ts)
  BY <1>2, <1>3 DEF KeepsDead
<1>7. QED  BY <1>2, <1>5, <1>6 DEF ts

\* The table as it is.
LEMMA TableOrderly ==
  ASSUME KernelInv, DisciplineInv, nextTask' = nextTask
  PROVE  tasks \in [TaskIds -> Task] /\ Orderly(tasks) /\ KeepsDead(tasks)
BY DEF KernelInv, TasksOK, DisciplineInv, Orderly, KeepsDead, Honest

\* What a step does to a task it does not (re)start, delete or make wait: it leaves
\* it as it is, or it ends its wait and keeps its registers if it is a time-out.
Touched(new, old) ==
  \/ new.state = old.state /\ new.wait = old.wait /\ new.cpu = old.cpu
  \/ /\ old.wait.on # "none"
     /\ new.state = "Ready" /\ new.wait = NotWaiting
     /\ new.cpu.code = "timeout" => new.cpu.data = old.cpu.data

LEMMA TouchedOrderly ==
  ASSUME KernelInv, DisciplineInv, nextTask' = nextTask, NEW ts,
         \A t \in TaskIds : Touched(ts[t], tasks[t])
  PROVE  Orderly(ts) /\ KeepsDead(ts)
<1>1. ASSUME NEW t \in TaskIds
      PROVE  /\ Waits(ts[t]) /\ Empty(ts[t]) /\ Honest(tasks[t], ts[t])
             /\ t >= nextTask => ts[t].state = "Absent"
             /\ tasks[t].state = "Dead" => ts[t].state = "Dead"
  <2>1. /\ Waits(tasks[t]) /\ Empty(tasks[t])
        /\ t >= nextTask => tasks[t].state = "Absent"
    BY DEF DisciplineInv
  <2>2. Touched(ts[t], tasks[t])  OBVIOUS
  <2>3. CASE /\ ts[t].state = tasks[t].state /\ ts[t].wait = tasks[t].wait
             /\ ts[t].cpu = tasks[t].cpu
    BY <2>1, <2>3 DEF Waits, Empty, Honest
  <2>4. CASE /\ tasks[t].wait.on # "none"
             /\ ts[t].state = "Ready" /\ ts[t].wait = NotWaiting
             /\ ts[t].cpu.code = "timeout" => ts[t].cpu.data = tasks[t].cpu.data
    BY <2>1, <2>4 DEF Waits, Empty, Honest, NotWaiting
  <2>5. QED  BY <2>2, <2>3, <2>4 DEF Touched
<1>2. Orderly(ts)  BY <1>1 DEF Orderly
<1>3. QED  BY <1>1, <1>2 DEF KeepsDead

\* A step without a switch.
LEMMA TouchedStep ==
  ASSUME KernelInv, DisciplineInv, nextTask' = nextTask,
         \A t \in TaskIds : Touched(tasks'[t], tasks[t])
  PROVE  Disciplines /\ DeadStep
<1>1. Orderly(tasks') /\ KeepsDead(tasks')  BY TouchedOrderly
<1>2. \A t \in TaskIds : SameTask(tasks'[t], tasks'[t])  BY DEF SameTask
<1>3. Empty(tasks'[current])
  BY CallerFree DEF Touched, Empty
<1>4. QED  BY <1>1, <1>2, <1>3, SwitchDisciplines

-----------------------------------------------------------------------------
(***************************************************************************)
(* Every step.                                                             *)
(***************************************************************************)

\* A task that was woken.
LEMMA WakeEnds ==
  ASSUME NEW task \in Task, NEW code, NEW data
  PROVE  /\ Wake(task, code, data).state = "Ready"
         /\ Wake(task, code, data).wait = NotWaiting
         /\ Wake(task, code, data).cpu.code = code
         /\ Wake(task, code, data).cpu.data = data
BY DEF Wake, Task, Context

\* A clock tick ends a wait with the registers as they are.
LEMMA ElapseTouches ==
  ASSUME NEW task \in Task, Waits(task)
  PROVE  Touched(Elapse(task), task)
<1>1. CASE Expires(task)
  <2>1. task.wait.on # "none"  BY <1>1 DEF Expires, Waits
  <2>2. PICK code : Elapse(task) = Wake(task, code, task.cpu.data)
    BY <1>1 DEF Elapse, WakeWith
  <2>3. QED  BY <2>1, <2>2, WakeEnds DEF Touched
<1>2. CASE ~Expires(task)
  BY <1>2 DEF Elapse, Touched, Task
<1>3. QED  BY <1>1, <1>2

\* `send_event` wakes only a task that waits for events.
LEMMA SendEventTouches ==
  ASSUME NEW u \in TaskIds, NEW bits \in SUBSET Events, tasks \in [TaskIds -> Task]
  PROVE  \A t \in TaskIds : Touched(SendEvent(tasks, u, bits)[t], tasks[t])
<1> DEFINE have == tasks[u].events \cup bits
           got == have \cap tasks[u].wait.want
           rest == [tasks[u] EXCEPT !.events = have \ got]
           woken == Wake(rest, "ok", got)
           kept == [tasks[u] EXCEPT !.events = have]
<1>1. Touched(tasks[u], tasks[u]) /\ \A t \in TaskIds : Touched(tasks[t], tasks[t])
  BY DEF Touched
<1>2. CASE tasks[u].wait.on = "events" /\ Satisfied(have, tasks[u].wait.want, tasks[u].wait.any)
  <2>1. SendEvent(tasks, u, bits) = [tasks EXCEPT ![u] = woken]  BY <1>2 DEF SendEvent
  <2>2. woken.state = "Ready" /\ woken.wait = NotWaiting /\ woken.cpu.code = "ok"
    <3>1. tasks[u] \in Task /\ have \ got \in SUBSET Events  BY DEF Task
    <3>2. rest \in Task  BY <3>1 DEF Task
    <3> HIDE DEF rest
    <3>3. QED  BY <3>2, WakeEnds
  <2> HIDE DEF woken
  <2>3. Touched(woken, tasks[u])  BY <1>2, <2>2 DEF Touched
  <2>4. QED  BY <1>1, <2>1, <2>3
<1>3. CASE ~(tasks[u].wait.on = "events" /\ Satisfied(have, tasks[u].wait.want, tasks[u].wait.any))
  <2>1. SendEvent(tasks, u, bits) = [tasks EXCEPT ![u] = kept]  BY <1>3 DEF SendEvent
  <2>2. Touched(kept, tasks[u])  BY DEF Touched, Task
  <2> HIDE DEF kept
  <2>3. QED  BY <1>1, <2>1, <2>2
<1>4. QED  BY <1>2, <1>3

\* The clock, `schedule` before an instruction and after TRAP #13, and instructions
\* that are no kernel service.
LEMMA HostGuestDisciplines ==
  ASSUME KernelInv, DisciplineInv, Host \/ Guest \/ Tm_Tick \/ UNCHANGED vars
  PROVE  Disciplines /\ DeadStep
<1>1. tasks \in [TaskIds -> Task] /\ live \in Context /\ current \in TaskIds
  BY DEF KernelInv, TasksOK
<1>2. nextTask' = nextTask
  BY DEF Host, Guest, HostTick, FireTimer, BeforeInstruction, Compute, WriteSR, Interrupt,
     Trap13, Fault, Tm_Tick, vars
<1>3. CASE HostTick \/ Tm_Tick
  <2>1. tasks' = [t \in TaskIds |-> Elapse(tasks[t])]  BY <1>3 DEF HostTick, Tm_Tick, Tick
  <2>2. \A t \in TaskIds : Touched(tasks'[t], tasks[t])
    BY <1>1, <2>1, ElapseTouches DEF DisciplineInv
  <2>3. QED  BY <1>2, <2>2, TouchedStep
<1>4. CASE FireTimer
  <2>1. PICK i \in 1..MaxTimer : tasks' = SendEvent(tasks, timers[i].task, timers[i].events)
    BY <1>4 DEF FireTimer
  <2>2. timers[i].task \in TaskIds /\ timers[i].events \in SUBSET Events
    BY DEF KernelInv, ObjectsOK
  <2>3. \A t \in TaskIds : Touched(tasks'[t], tasks[t])
    BY <1>1, <2>1, <2>2, SendEventTouches
  <2>4. QED  BY <1>2, <2>3, TouchedStep
<1>5. ASSUME NEW regs \in Context, Schedule(tasks, regs, FALSE)
      PROVE  Disciplines /\ DeadStep
  <2>1. /\ \A t \in TaskIds : SameTask(tasks'[t], tasks[t])
        /\ \A t \in TaskIds \ {current} : tasks'[t].cpu = tasks[t].cpu
    BY <1>1, <1>5, ScheduleEffect
  <2>2. Empty(tasks'[current])  BY <1>1, <2>1, CallerFree DEF SameTask, Empty
  <2>3. QED  BY <1>2, <2>1, <2>2, TableOrderly, SwitchDisciplines
<1>6. CASE BeforeInstruction  BY <1>1, <1>5, <1>6 DEF BeforeInstruction
<1>7. CASE Trap13
  <2>1. [live EXCEPT !.masked = (live.frame = "masked"), !.frame = "none"] \in Context
    BY <1>1 DEF Context
  <2>2. QED  BY <1>5, <1>7, <2>1 DEF Trap13
<1>8. CASE Compute \/ WriteSR \/ Interrupt \/ Fault \/ UNCHANGED vars
  <2>1. tasks' = tasks  BY <1>8 DEF Compute, WriteSR, Interrupt, Fault, vars
  <2>2. \A t \in TaskIds : Touched(tasks'[t], tasks[t])  BY <2>1 DEF Touched
  <2>3. QED  BY <1>2, <2>2, TouchedStep
<1>9. QED  BY <1>3, <1>4, <1>6, <1>7, <1>8 DEF Host, Guest

\* A service that touches the tasks it does and switches.
LEMMA TouchedDone ==
  ASSUME KernelInv, DisciplineInv, nextTask' = nextTask, NEW ts \in [TaskIds -> Task],
         \A t \in TaskIds : Touched(ts[t], tasks[t]),
         NEW regs \in Context, NEW code \in Codes, Return(ts, regs, code)
  PROVE  Disciplines /\ DeadStep
<1>1. Orderly(ts) /\ KeepsDead(ts)  BY TouchedOrderly
<1>2. ts[current].state # "Blocked"
  BY CallerFree DEF Touched
<1>3. QED  BY <1>1, <1>2, ReturnDisciplines

\* Registers of the caller in which a service ends.
LEMMA ResultNow ==
  ASSUME KernelInv
  PROVE  /\ live \in Context /\ tasks \in [TaskIds -> Task] /\ current \in TaskIds
         /\ Result(Nothing) \in Context
         /\ \A data \in Data : Result(data) \in Context
BY NothingData, ResultType DEF KernelInv, TasksOK

LEMMA TableDone ==
  ASSUME KernelInv, DisciplineInv, nextTask' = nextTask,
         NEW regs \in Context, NEW code \in Codes, Return(tasks, regs, code)
  PROVE  Disciplines /\ DeadStep
<1>1. \A t \in TaskIds : Touched(tasks[t], tasks[t])  BY DEF Touched
<1>2. QED  BY <1>1, ResultNow, TouchedDone

\* The caller waits; no handler does.
LEMMA BlockDone ==
  ASSUME KernelInv, DisciplineInv, nextTask' = nextTask,
         NEW wait \in Wait, wait.on # "none", NEW timeout \in 0..MaxTimeout, MayWait,
         Done(Block(tasks, wait, timeout), "ok")
  PROVE  Disciplines /\ DeadStep
<1> DEFINE new == [tasks[current] EXCEPT !.state = "Blocked", !.wait = wait, !.left = timeout]
<1>1. Block(tasks, wait, timeout) = [tasks EXCEPT ![current] = new]  BY DEF Block
<1>2. tasks[current] \in Task /\ current \in TaskIds  BY CallerFree DEF KernelInv, TasksOK
<1>3. new \in Task /\ new.wait = wait /\ new.state = "Blocked"
  BY <1>2 DEF Task, States
<1> HIDE DEF new
<1>4. nextTask \in Nat /\ current \in Nat
  BY <1>2, KernelAssumption DEF KernelInv, ObjectsOK, TaskIds
<1>5. /\ [tasks EXCEPT ![current] = new] \in [TaskIds -> Task]
      /\ Orderly([tasks EXCEPT ![current] = new])
      /\ KeepsDead([tasks EXCEPT ![current] = new])
  BY <1>2, <1>3, <1>4, CallerFree, UpdateOrderly DEF Waits
<1>6. Done([tasks EXCEPT ![current] = new], "ok")  BY <1>1
<1>7. QED  BY <1>5, <1>6, CodesAre, DoneDisciplines

\* Queues: a receiver waits with empty registers; senders and q_delete wake waiters.
LEMMA QueueServicesDisciplines ==
  ASSUME KernelInv, DisciplineInv, QueueServices
  PROVE  Disciplines /\ DeadStep
<1>1. nextTask' = nextTask
  BY DEF QueueServices, Q_Create, Q_Delete, Q_Send, Q_Urgent, Q_Broadcast, Q_Receive
<1>2. ASSUME NEW code \in Codes, Done(tasks, code) PROVE Disciplines /\ DeadStep
  BY <1>1, <1>2, ResultNow, TableDone DEF Done
<1>3. ASSUME NEW q, NEW to \in SUBSET Waiters("queue", q), NEW payload \in Data,
             Done(Deliver(to, payload), "ok")
      PROVE  Disciplines /\ DeadStep
  <2>1. \A t \in TaskIds : tasks[t] \in Task  BY ResultNow
  <2>2. \A t \in TaskIds : Wake(tasks[t], "ok", payload) \in Task
    BY <2>1, WakeType, CodesAre
  <2>3. Deliver(to, payload) \in [TaskIds -> Task]  BY <2>1, <2>2 DEF Deliver
  <2>4. \A t \in TaskIds : Touched(Deliver(to, payload)[t], tasks[t])
    <3>1. SUFFICES ASSUME NEW t \in TaskIds
                   PROVE  Touched(Deliver(to, payload)[t], tasks[t])
      OBVIOUS
    <3>2. CASE t \in to
      <4>1. tasks[t].wait.on # "none"  BY <3>2 DEF Waiters
      <4>2. Deliver(to, payload)[t] = Wake(tasks[t], "ok", payload)  BY <3>2 DEF Deliver
      <4>3. QED  BY <2>1, <4>1, <4>2, WakeEnds DEF Touched
    <3>3. CASE t \notin to
      <4>1. Deliver(to, payload)[t] = tasks[t]  BY <3>3 DEF Deliver
      <4>2. QED  BY <4>1 DEF Touched
    <3>4. QED  BY <3>2, <3>3
  <2>5. QED  BY <1>1, <1>3, <2>3, <2>4, ResultNow, CodesAre, TouchedDone DEF Done
<1>4. CASE Q_Create  BY <1>2, <1>4, CodesAre DEF Q_Create
<1>5. CASE Q_Delete
  <2>1. PICK q \in 1..MaxQueue :
          Done([t \in TaskIds |-> IF t \in Waiters("queue", q)
                                    THEN WakeWith(tasks[t], "deleted") ELSE tasks[t]], "ok")
    BY <1>5 DEF Q_Delete
  <2> DEFINE ts == [t \in TaskIds |-> IF t \in Waiters("queue", q)
                                       THEN WakeWith(tasks[t], "deleted") ELSE tasks[t]]
  <2>2. \A t \in TaskIds : tasks[t] \in Task  BY ResultNow
  <2>3. ts \in [TaskIds -> Task]  BY <2>2, WakeWithType, CodesAre
  <2>4. \A t \in TaskIds : Touched(ts[t], tasks[t])
    <3>1. SUFFICES ASSUME NEW t \in TaskIds PROVE Touched(ts[t], tasks[t])
      OBVIOUS
    <3>2. CASE t \in Waiters("queue", q)
      <4>1. tasks[t].wait.on # "none"  BY <3>2 DEF Waiters
      <4>2. ts[t] = Wake(tasks[t], "deleted", tasks[t].cpu.data)  BY <3>2 DEF WakeWith
      <4> HIDE DEF ts
      <4>3. QED  BY <2>2, <4>1, <4>2, WakeEnds DEF Touched
    <3>3. CASE t \notin Waiters("queue", q)  BY <3>3 DEF Touched
    <3>4. QED  BY <3>2, <3>3
  <2>5. Done(ts, "ok")  BY <2>1
  <2> HIDE DEF ts
  <2>6. QED  BY <1>1, <2>3, <2>4, <2>5, ResultNow, CodesAre, TouchedDone DEF Done
<1>6. CASE Q_Send \/ Q_Urgent
  <2>1. PICK q \in 1..MaxQueue, message \in fresh, urgent \in BOOLEAN :
          Q_Put(q, message, urgent)
    BY <1>6 DEF Q_Send, Q_Urgent
  <2>2. message \in Data  BY DEF KernelInv, ObjectsOK, Data
  <2>3. \/ \E t \in Waiters("queue", q) : Done(Deliver({t}, message), "ok")
        \/ \E code \in {"ok", "refused"} : Done(tasks, code)
    BY <2>1 DEF Q_Put
  <2>4. QED  BY <1>2, <1>3, <2>2, <2>3, CodesAre
<1>7. CASE Q_Broadcast
  <2>1. PICK q \in 1..MaxQueue, notice \in Notices :
          Done(Deliver(Waiters("queue", q), notice), "ok")
    BY <1>7 DEF Q_Broadcast
  <2>2. notice \in Data  BY DEF Data
  <2>3. QED  BY <1>3, <2>1, <2>2
<1>8. CASE Q_Receive
  <2>1. PICK q \in 1..MaxQueue :
          \/ /\ queues[q].messages # <<>>
             /\ Return(tasks, Result(Head(queues[q].messages)), "ok")
          \/ Done(tasks, "refused")
          \/ /\ MayWait
             /\ \E timeout \in 0..MaxTimeout :
                  Done(Block(tasks, WaitFor("queue", q), timeout), "ok")
    BY <1>8 DEF Q_Receive
  <2>2. queues[q].messages # <<>> => Head(queues[q].messages) \in Data
    <3>1. queues[q].messages \in Seq(Messages)  BY DEF KernelInv, ObjectsOK
    <3>2. QED  BY <3>1 DEF Data
  <2>3. WaitFor("queue", q) \in Wait /\ WaitFor("queue", q).on # "none"
    <3>1. q \in Nat  BY KernelAssumption
    <3>2. WaitFor("queue", q).on = "queue"  BY DEF WaitFor, NotWaiting
    <3>3. QED  BY <3>1, <3>2, WaitForType
  <2>4. QED  BY <1>1, <1>2, <2>1, <2>2, <2>3, ResultNow, CodesAre, TableDone, BlockDone
<1>9. QED  BY <1>4, <1>5, <1>6, <1>7, <1>8 DEF QueueServices

\* Events, semaphores and time.
LEMMA OtherServicesDisciplines ==
  ASSUME KernelInv, DisciplineInv, EventServices \/ SemaphoreServices \/ TimeServices
  PROVE  Disciplines /\ DeadStep
<1>1. nextTask' = nextTask
  BY DEF EventServices, SemaphoreServices, TimeServices, Ev_Send, Ev_Receive, Sm_Create,
     Sm_Delete, Sm_Delete_On, Sm_P, Sm_P_On, Sm_V, Sm_V_On, Tm_Tick, Tm_TickReturn,
     Tm_WkAfter, Tm_Ev, Tm_Cancel
<1>2. ASSUME NEW code \in Codes, Done(tasks, code) PROVE Disciplines /\ DeadStep
  BY <1>1, <1>2, ResultNow, TableDone DEF Done
<1>3. CASE Ev_Send
  <2>1. PICK u \in TaskIds, bits \in SUBSET Events : Done(SendEvent(tasks, u, bits), "ok")
    BY <1>3 DEF Ev_Send
  <2>2. SendEvent(tasks, u, bits) \in [TaskIds -> Task]  BY ResultNow, SendEventType
  <2>3. \A t \in TaskIds : Touched(SendEvent(tasks, u, bits)[t], tasks[t])
    BY ResultNow, SendEventTouches
  <2>4. QED  BY <1>1, <2>1, <2>2, <2>3, ResultNow, CodesAre, TouchedDone DEF Done
<1>4. CASE Ev_Receive
  <2>1. PICK want \in SUBSET Events, any \in BOOLEAN :
          LET have == tasks[current].events
              got == have \cap want
          IN  \/ Return(tasks, Result(have), "ok")
              \/ Return([tasks EXCEPT ![current].events = @ \ got], Result(got), "ok")
              \/ Done(tasks, "refused")
              \/ /\ MayWait
                 /\ \E timeout \in 0..MaxTimeout :
                      Done(Block(tasks, [NotWaiting EXCEPT !.on = "events", !.want = want,
                                                           !.any = any], timeout), "ok")
    BY <1>4 DEF Ev_Receive
  <2> DEFINE have == tasks[current].events
             got == have \cap want
             rest == [tasks[current] EXCEPT !.events = have \ got]
             wait == [NotWaiting EXCEPT !.on = "events", !.want = want, !.any = any]
  <2>2. have \in SUBSET Events /\ got \in SUBSET Events  BY ResultNow DEF Task
  <2>3. Result(have) \in Context /\ Result(got) \in Context  BY <2>2, ResultNow DEF Data
  <2>4. Return(tasks, Result(have), "ok") => Disciplines /\ DeadStep
    BY <1>1, <2>3, CodesAre, TableDone
  <2>5. Return([tasks EXCEPT ![current].events = @ \ got], Result(got), "ok")
          => Disciplines /\ DeadStep
    <3>1. rest \in Task /\ Touched(rest, tasks[current])
      BY <2>2, ResultNow DEF Task, Touched
    <3>2. [tasks EXCEPT ![current].events = @ \ got] = [tasks EXCEPT ![current] = rest]
      OBVIOUS
    <3> HIDE DEF rest
    <3>3. /\ [tasks EXCEPT ![current] = rest] \in [TaskIds -> Task]
          /\ \A t \in TaskIds : Touched([tasks EXCEPT ![current] = rest][t], tasks[t])
      BY <3>1, ResultNow DEF Touched
    <3>4. QED  BY <1>1, <2>3, <3>2, <3>3, CodesAre, TouchedDone
  <2>6. wait \in Wait /\ wait.on # "none"  BY DEF NotWaiting, Wait
  <2>7. ASSUME MayWait, NEW timeout \in 0..MaxTimeout, Done(Block(tasks, wait, timeout), "ok")
        PROVE  Disciplines /\ DeadStep
    <3> HIDE DEF wait
    <3>1. QED  BY <1>1, <2>6, <2>7, BlockDone
  <2>8. Done(tasks, "refused") => Disciplines /\ DeadStep  BY <1>2, CodesAre
  <2>9. QED  BY <2>1, <2>4, <2>5, <2>7, <2>8
<1>5. CASE Sm_P
  <2>1. PICK s \in 1..MaxSemaphore :
          \/ \E code \in {"ok", "refused"} : Done(tasks, code)
          \/ /\ MayWait
             /\ \E timeout \in 0..MaxTimeout :
                  Done(Block(tasks, WaitFor("semaphore", s), timeout), "ok")
    BY <1>5 DEF Sm_P, Sm_P_On
  <2>2. WaitFor("semaphore", s) \in Wait /\ WaitFor("semaphore", s).on # "none"
    <3>1. s \in Nat  BY KernelAssumption
    <3>2. WaitFor("semaphore", s).on = "semaphore"  BY DEF WaitFor, NotWaiting
    <3>3. QED  BY <3>1, <3>2, WaitForType
  <2>3. QED  BY <1>1, <1>2, <2>1, <2>2, CodesAre, BlockDone
<1>6. CASE Sm_V
  <2>1. PICK s \in 1..MaxSemaphore :
          \/ \E u \in Waiters("semaphore", s) :
               Done([tasks EXCEPT ![u] = WakeWith(@, "ok")], "ok")
          \/ Done(tasks, "ok")
    BY <1>6 DEF Sm_V, Sm_V_On
  <2>2. ASSUME NEW u \in Waiters("semaphore", s),
               Done([tasks EXCEPT ![u] = WakeWith(@, "ok")], "ok")
        PROVE  Disciplines /\ DeadStep
    <3>1. u \in TaskIds /\ tasks[u].wait.on # "none"  BY DEF Waiters
    <3> DEFINE woken == WakeWith(tasks[u], "ok")
    <3>2. woken \in Task  BY <3>1, ResultNow, WakeWithType, CodesAre
    <3>3. woken = Wake(tasks[u], "ok", tasks[u].cpu.data)  BY DEF WakeWith
    <3>4. Done([tasks EXCEPT ![u] = woken], "ok")  BY <2>2
    <3> HIDE DEF woken
    <3>5. Touched(woken, tasks[u])  BY <3>1, <3>3, ResultNow, WakeEnds DEF Touched
    <3>6. /\ [tasks EXCEPT ![u] = woken] \in [TaskIds -> Task]
          /\ \A t \in TaskIds : Touched([tasks EXCEPT ![u] = woken][t], tasks[t])
      BY <3>1, <3>2, <3>5, ResultNow DEF Touched
    <3>7. QED  BY <1>1, <3>4, <3>6, ResultNow, CodesAre, TouchedDone DEF Done
  <2>3. QED  BY <1>2, <2>1, <2>2, CodesAre
<1>7. CASE Tm_Tick  BY <1>7, HostGuestDisciplines
<1>8. CASE Tm_WkAfter
  <2>1. ASSUME NEW timeout \in 1..MaxTimeout, MayWait,
               Done(Block(tasks, WaitFor("sleep", 0), timeout), "ok")
        PROVE  Disciplines /\ DeadStep
    <3>1. timeout \in 0..MaxTimeout  BY KernelAssumption
    <3>2. WaitFor("sleep", 0) \in Wait /\ WaitFor("sleep", 0).on # "none"
      BY DEF WaitFor, NotWaiting, Wait
    <3>3. QED  BY <1>1, <2>1, <3>1, <3>2, BlockDone
  <2>2. ASSUME Done([tasks EXCEPT ![current].state = "Ready", ![current].cpu = live], "ok")
        PROVE  Disciplines /\ DeadStep
    <3> DEFINE new == [tasks[current] EXCEPT !.state = "Ready", !.cpu = live]
    <3>1. tasks[current] \in Task /\ live \in Context  BY ResultNow
    <3>2. new \in Task /\ new.state = "Ready" /\ new.wait = tasks[current].wait
      BY <3>1 DEF Task, States
    <3>3. [tasks EXCEPT ![current].state = "Ready", ![current].cpu = live] =
            [tasks EXCEPT ![current] = new]
      OBVIOUS
    <3> HIDE DEF new
    <3>4. current \in TaskIds /\ tasks[current].wait.on = "none"
          /\ tasks[current].state # "Dead" /\ ~(current >= nextTask)
      BY CallerFree DEF DisciplineInv
    <3>5. nextTask \in Nat  BY DEF KernelInv, ObjectsOK
    <3>6. /\ [tasks EXCEPT ![current] = new] \in [TaskIds -> Task]
          /\ Orderly([tasks EXCEPT ![current] = new])
          /\ KeepsDead([tasks EXCEPT ![current] = new])
      BY <1>1, <3>2, <3>4, <3>5, UpdateOrderly DEF Waits
    <3>7. [tasks EXCEPT ![current] = new][current].state # "Blocked"
      BY <3>2, <3>4, ResultNow
    <3>8. QED  BY <2>2, <3>3, <3>6, <3>7, CodesAre, DoneDisciplines
  <2>3. QED  BY <1>8, <2>1, <2>2 DEF Tm_WkAfter
<1>9. CASE Sm_Create \/ Sm_Delete \/ Tm_TickReturn \/ Tm_Ev \/ Tm_Cancel
  BY <1>2, <1>9, CodesAre DEF Sm_Create, Sm_Delete, Sm_Delete_On, Tm_TickReturn, Tm_Ev,
     Tm_Cancel
<1>10. QED
  BY <1>3, <1>4, <1>5, <1>6, <1>7, <1>8, <1>9 DEF EventServices, SemaphoreServices,
     TimeServices

\* Task services.  A created task has a new number; who is started, restarted or
\* deleted waits for nothing, and only a start brings back a deleted task.
LEMMA TaskServicesDisciplines ==
  ASSUME KernelInv, DisciplineInv, Disciplined, TaskServices
  PROVE  Disciplines /\ (T_Start \/ T_Restart \/ DeadStep)
<1>1. nextTask \in Nat /\ \A t \in TaskIds : t \in Nat /\ tasks[t] \in Task
  BY ResultNow, KernelAssumption DEF KernelInv, ObjectsOK, TaskIds
<1>2. T_Create \/ nextTask' = nextTask
  BY DEF TaskServices, T_Start, T_Start_Of, T_Restart, T_Restart_Of, T_Delete, T_Delete_Of,
     T_Suspend, T_Resume, T_SetPri, T_Mode,
     NoEffect
<1>3. ASSUME nextTask' = nextTask, NEW code \in Codes, Done(tasks, code)
      PROVE  Disciplines /\ DeadStep
  BY <1>3, ResultNow, TableDone DEF Done
<1>4. ASSUME nextTask' = nextTask, NEW u \in TaskIds, NEW task \in Task,
             Touched(task, tasks[u]), NEW regs \in Context,
             Return([tasks EXCEPT ![u] = task], regs, "ok")
      PROVE  Disciplines /\ DeadStep
  <2>1. /\ [tasks EXCEPT ![u] = task] \in [TaskIds -> Task]
        /\ \A t \in TaskIds : Touched([tasks EXCEPT ![u] = task][t], tasks[t])
    BY <1>4, ResultNow DEF Touched
  <2>2. QED  BY <1>4, <2>1, CodesAre, TouchedDone
<1>5. ASSUME nextTask' = nextTask, NEW u \in TaskIds, tasks[u].state # "Absent",
             tasks[u].wait.on = "none", NEW task \in Task, task.wait = tasks[u].wait,
             task.state \in {"Ready", "Dead"}, Done([tasks EXCEPT ![u] = task], "ok")
      PROVE  Disciplines /\ (task.state = "Dead" => DeadStep)
  <2>1. ~(u >= nextTask)  BY <1>5 DEF DisciplineInv
  <2>2. Waits(task) /\ Empty(task) /\ Honest(tasks[u], task)
    BY <1>5 DEF Waits, Empty, Honest
  <2>3. /\ [tasks EXCEPT ![u] = task] \in [TaskIds -> Task]
        /\ Orderly([tasks EXCEPT ![u] = task])
        /\ task.state = "Dead" => KeepsDead([tasks EXCEPT ![u] = task])
    BY <1>1, <1>5, <2>1, <2>2, UpdateOrderly
  <2>4. [tasks EXCEPT ![u] = task][current].state # "Blocked"
    BY <1>5, ResultNow, CallerFree
  <2>5. QED  BY <1>5, <2>3, <2>4, CodesAre, DoneDisciplines
<1>6. CASE T_Create
  <2>1. ASSUME UNCHANGED nextTask, Done(tasks, "refused") PROVE Disciplines /\ DeadStep
    BY <1>3, <2>1, CodesAre
  <2>2. ASSUME nextTask <= MaxTask, nextTask' = nextTask + 1, NEW priority \in Priorities
        PROVE  /\ Done(tasks, "refused") => Disciplines /\ DeadStep
               /\ Done([tasks EXCEPT ![nextTask] =
                         [NoTask EXCEPT !.state = "Created", !.priority = priority]], "ok")
                    => Disciplines /\ DeadStep
    <3> DEFINE new == [NoTask EXCEPT !.state = "Created", !.priority = priority]
    <3>1. new \in Task
      <4>1. 0 \in 0..255 /\ 0 \in 0..MaxTimeout /\ priority \in 0..255  BY KernelAssumption
      <4>2. EmptyContext \in Context /\ NotWaiting \in Wait
        BY NothingData DEF EmptyContext, Context, Codes, NotWaiting, Wait
      <4>3. QED  BY <4>1, <4>2 DEF NoTask, Task, States, Mode
    <3>2. new.wait.on = "none" /\ new.state = "Created"  BY DEF NoTask, NotWaiting
    <3>3. nextTask \in TaskIds  BY <2>2 DEF KernelInv, ObjectsOK, TaskIds, Idle
    <3> HIDE DEF new
    <3>4. tasks[nextTask].state = "Absent"  BY <1>1, <3>3 DEF DisciplineInv
    <3>5. nextTask' >= nextTask /\ nextTask' \in Nat /\ ~(nextTask >= nextTask')
      BY <1>1, <2>2
    <3>6. Waits(new) /\ Empty(new) /\ Honest(tasks[nextTask], new)
      <4>1. Waits(tasks[nextTask])  BY <3>3 DEF DisciplineInv
      <4>2. QED  BY <3>2, <3>4, <4>1 DEF Waits, Empty, Honest
    <3>7. /\ [tasks EXCEPT ![nextTask] = new] \in [TaskIds -> Task]
          /\ Orderly([tasks EXCEPT ![nextTask] = new])
          /\ KeepsDead([tasks EXCEPT ![nextTask] = new])
      BY <3>1, <3>3, <3>4, <3>5, <3>6, UpdateOrderly
    <3>8. current # nextTask /\ tasks[current].state # "Blocked"
      BY <1>1, CallerFree
    <3>9. [tasks EXCEPT ![nextTask] = new][current].state # "Blocked"
      BY <3>8, ResultNow
    <3>10. Done([tasks EXCEPT ![nextTask] = new], "ok") => Disciplines /\ DeadStep
      BY <3>7, <3>9, CodesAre, DoneDisciplines
    <3>11. tasks \in [TaskIds -> Task] /\ Orderly(tasks) /\ KeepsDead(tasks)
      <4>1. [tasks EXCEPT ![current] = tasks[current]] = tasks  BY ResultNow
      <4>2. Waits(tasks[current]) /\ ~(current >= nextTask')
        BY <1>1, <3>5, CallerFree DEF DisciplineInv
      <4>3. /\ Orderly([tasks EXCEPT ![current] = tasks[current]])
            /\ KeepsDead([tasks EXCEPT ![current] = tasks[current]])
        BY <1>1, <3>5, <4>2, CallerFree, UpdateOrderly
      <4>4. QED  BY <4>1, <4>3, ResultNow
    <3>12. Done(tasks, "refused") => Disciplines /\ DeadStep
      BY <3>8, <3>11, CodesAre, DoneDisciplines
    <3>13. QED  BY <3>10, <3>12 DEF new
  <2>3. QED  BY <1>6, <2>1, <2>2 DEF T_Create
<1>7. CASE T_Start \/ T_Restart
  <2>1. PICK u \in TaskIds, mode \in Mode :
          /\ tasks[u].state # "Absent" /\ tasks[u].wait.on = "none"
          /\ Done([tasks EXCEPT ![u] = Started(@, mode)], "ok")
    <3>1. \A t \in TaskIds : tasks[t].mode \in Mode  BY <1>1 DEF Task
    <3>2. QED  BY <1>7, <3>1, KernelAssumption DEF T_Start, T_Start_Of, T_Restart,
         T_Restart_Of, Exists, MayReset
  <2>2. Started(tasks[u], mode) \in Task  BY <1>1, StartedType
  <2>3. Started(tasks[u], mode).wait = tasks[u].wait /\ Started(tasks[u], mode).state = "Ready"
    BY <1>1 DEF Started, Task
  <2>4. nextTask' = nextTask  BY <1>7 DEF T_Start, T_Start_Of, T_Restart, T_Restart_Of
  <2>5. Disciplines  BY <1>5, <2>1, <2>2, <2>3, <2>4
  <2>6. QED  BY <1>7, <2>5
<1>8. CASE T_Delete
  <2>1. PICK u \in TaskIds :
          /\ tasks[u].state # "Absent" /\ tasks[u].wait.on = "none"
          /\ Done([tasks EXCEPT ![u].state = "Dead"], "ok")
    BY <1>8 DEF T_Delete, T_Delete_Of, Exists, MayReset
  <2> DEFINE new == [tasks[u] EXCEPT !.state = "Dead"]
  <2>2. new \in Task /\ new.wait = tasks[u].wait /\ new.state = "Dead"
    BY <1>1 DEF Task, States
  <2>3. Done([tasks EXCEPT ![u] = new], "ok") /\ nextTask' = nextTask
    BY <1>8, <2>1 DEF T_Delete, T_Delete_Of
  <2> HIDE DEF new
  <2>4. QED  BY <1>5, <2>1, <2>2, <2>3
<1>9. ASSUME nextTask' = nextTask, NEW u \in TaskIds, NEW task \in Task,
             Touched(task, tasks[u]), Done([tasks EXCEPT ![u] = task], "ok")
      PROVE  Disciplines /\ DeadStep
  BY <1>4, <1>9, ResultNow DEF Done
<1>10. CASE T_Suspend \/ T_Resume
  <2>1. PICK u \in TaskIds, b \in BOOLEAN : Done([tasks EXCEPT ![u].suspended = b], "ok")
    BY <1>10 DEF T_Suspend, T_Resume
  <2>2. \A task \in Task : LET new == [task EXCEPT !.suspended = b]
                           IN  new \in Task /\ Touched(new, task)
    BY DEF Task, Touched
  <2>3. nextTask' = nextTask  BY <1>10 DEF T_Suspend, T_Resume
  <2>4. QED  BY <1>1, <1>9, <2>1, <2>2, <2>3
<1>11. CASE T_SetPri
  <2>1. PICK u \in TaskIds, priority \in 0..255 :
          Done([tasks EXCEPT ![u].priority = priority], "ok")
    BY <1>11, KernelAssumption DEF T_SetPri
  <2>2. \A task \in Task : LET new == [task EXCEPT !.priority = priority]
                           IN  new \in Task /\ Touched(new, task)
    BY DEF Task, Touched
  <2>3. nextTask' = nextTask  BY <1>11 DEF T_SetPri
  <2>4. QED  BY <1>1, <1>9, <2>1, <2>2, <2>3
<1>12. CASE T_Mode
  <2>1. ASSUME NEW mode \in Mode, NEW regs \in Context,
               Return([tasks EXCEPT ![current].mode = mode], regs, "ok")
        PROVE  Disciplines /\ DeadStep
    <3>1. \A task \in Task : LET new == [task EXCEPT !.mode = mode]
                             IN  new \in Task /\ Touched(new, task)
      BY DEF Task, Touched
    <3>2. nextTask' = nextTask  BY <1>12 DEF T_Mode
    <3>3. QED  BY <1>4, <2>1, <3>1, <3>2, ResultNow
  <2>2. ASSUME NEW np \in BOOLEAN, Done([tasks EXCEPT ![current].mode.np = np], "ok")
        PROVE  Disciplines /\ DeadStep
    <3>1. [tasks[current].mode EXCEPT !.np = np] \in Mode
      BY ResultNow DEF Task, Mode
    <3>2. [tasks EXCEPT ![current].mode.np = np] =
            [tasks EXCEPT ![current].mode = [tasks[current].mode EXCEPT !.np = np]]
      OBVIOUS
    <3>3. QED  BY <2>1, <2>2, <3>1, <3>2, ResultNow DEF Done
  <2>3. \A mode \in Mode : [Result(Nothing) EXCEPT !.masked = mode.masked] \in Context
    BY ResultNow DEF Context, Mode
  <2>4. QED  BY <1>12, <2>1, <2>2, <2>3 DEF T_Mode
<1>13. CASE NoEffect  BY <1>2, <1>3, <1>13, CodesAre DEF NoEffect
<1>14. QED
  BY <1>6, <1>7, <1>8, <1>10, <1>11, <1>12, <1>13 DEF TaskServices

\* At boot nobody waits and only ROOT and IDLE exist.
LEMMA InitDisciplines == Init => DisciplineInv
<1> SUFFICES ASSUME Init, NEW t \in TaskIds
             PROVE  /\ Waits(tasks[t]) /\ Empty(tasks[t])
                    /\ t >= nextTask => tasks[t].state = "Absent"
  BY DEF DisciplineInv
<1>1. tasks[t].wait.on = "none"  BY DEF Init, NoTask, NotWaiting
<1>2. tasks[t].state \in {"Running", "Ready", "Absent"}  BY DEF Init, NoTask
<1>3. t >= nextTask => tasks[t].state = "Absent"  BY DEF Init, NoTask, Root, Idle
<1>4. QED  BY <1>1, <1>2, <1>3 DEF Waits, Empty

\* No step leaves the invariant.
LEMMA NextDisciplines ==
  ASSUME KernelInv, DisciplineInv, Disciplined, [Next]_vars
  PROVE  Disciplines /\ (T_Start \/ T_Restart \/ DeadStep)
<1>1. CASE Host \/ Guest \/ UNCHANGED vars  BY <1>1, HostGuestDisciplines
<1>2. CASE Stopped  BY <1>2, HostGuestDisciplines DEF Stopped
<1>3. CASE TaskServices  BY <1>3, TaskServicesDisciplines
<1>4. CASE QueueServices  BY <1>4, QueueServicesDisciplines
<1>5. CASE EventServices \/ SemaphoreServices \/ TimeServices
  BY <1>5, OtherServicesDisciplines
<1>6. QED  BY <1>1, <1>2, <1>3, <1>4, <1>5 DEF Next

-----------------------------------------------------------------------------
(***************************************************************************)
(* Theorems.                                                               *)
(***************************************************************************)

\* The registers and the state of every task agree with its wait, in every state.
THEOREM KernelDiscipline ==
  ASSUME Disciplined PROVE Spec => []DisciplineInv
<1>1. Init => DisciplineInv  BY InitDisciplines
<1>2. KernelInv /\ DisciplineInv /\ [Next]_vars => DisciplineInv'
  BY NextDisciplines DEF Disciplines
<1>3. QED  BY <1>1, <1>2, KernelInvariant, PTL DEF Spec

\* When the guest leaves waiting tasks alone, exactly the blocked tasks wait: nothing
\* is delivered to a task that runs or is dead.
THEOREM KernelWaitersBlocked ==
  ASSUME Disciplined PROVE Spec => []WaitersAreBlocked
<1>1. DisciplineInv => WaitersAreBlocked  BY DEF DisciplineInv, Waits, WaitersAreBlocked
<1>2. QED  BY <1>1, KernelDiscipline, PTL

\* A deleted task stays deleted until it is started again: no message, event,
\* semaphore unit, timer, time-out or queue deletion brings it back, and no create
\* reuses its number.
THEOREM KernelDeleted ==
  ASSUME Disciplined PROVE Spec => DeletedStaysDeleted
<1>1. KernelInv /\ DisciplineInv /\ [Next]_vars =>
        [~T_Start /\ ~T_Restart =>
           \A t \in TaskIds : tasks[t].state = "Dead" => tasks'[t].state = "Dead"]_vars
  BY NextDisciplines DEF DeadStep
<1>2. QED  BY <1>1, KernelInvariant, KernelDiscipline, PTL DEF Spec, DeletedStaysDeleted

\* A wait for a message or events that times out leaves no message and no event bits
\* in the registers the task resumes with.
THEOREM KernelTimeouts ==
  ASSUME Disciplined PROVE Spec => TimeoutFabricatesNothing
<1>1. KernelInv /\ DisciplineInv /\ [Next]_vars =>
        [\A t \in TaskIds :
           /\ tasks[t].wait.on \in {"queue", "events"}
           /\ tasks'[t].wait.on = "none"
           /\ tasks'[t].cpu.code = "timeout"
           => tasks'[t].cpu.data = Nothing]_vars
  BY NextDisciplines DEF Disciplines, HonestStep, Honest
<1>2. QED  BY <1>1, KernelInvariant, KernelDiscipline, PTL DEF Spec,
     TimeoutFabricatesNothing
=============================================================================
