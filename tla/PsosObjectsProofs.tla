------------------------- MODULE PsosObjectsProofs --------------------------
(***************************************************************************)
(* Proofs about what the objects of PsosKernel hold, for a guest that      *)
(* leaves waiting tasks alone (Disciplined): messages (PsosMessages) and   *)
(* the units of a semaphore (PsosMutex).                                   *)
(***************************************************************************)
EXTENDS PsosKernelProofs, PsosMessages, PsosMutex, FiniteSetTheorems, SequenceTheorems

-----------------------------------------------------------------------------
(***************************************************************************)
(* Theorem about the messages of PsosKernel: whatever the guest calls, as  *)
(* long as it leaves waiting tasks alone (Disciplined), a message that the *)
(* kernel accepted is in exactly one place until a task reads it.          *)
(*                                                                         *)
(* A step computes a task table and the registers of its caller and ends   *)
(* in a switch.  Handing says what must hold between the two; the switch   *)
(* saves the registers of the caller and gives the CPU those of the task   *)
(* that runs next, whose message, if it had one, is thereby read.          *)
(***************************************************************************)

\* Message m is in a queue of qs; in a saved context of ts.
InQueue(qs, m) ==
  \E q \in 1..MaxQueue : \E i \in DOMAIN qs[q].messages : qs[q].messages[i] = m
InTable(ts, m) == \E t \in TaskIds : ts[t].cpu.data = m

Distinct(qs) ==
  \A p \in 1..MaxQueue, q \in 1..MaxQueue :
    \A i \in DOMAIN qs[p].messages, j \in DOMAIN qs[q].messages :
      qs[p].messages[i] = qs[q].messages[j] => p = q /\ i = j

\* Every message of `kept` has at most one place among queues and contexts, a queue
\* holds no other message, and a message not sent yet is nowhere.
Stored(qs, ts, kept, free) ==
  /\ kept \subseteq Messages /\ kept \cap free = {}
  /\ Distinct(qs)
  /\ \A m : InQueue(qs, m) => m \in kept /\ ~InTable(ts, m)
  /\ \A t \in TaskIds, u \in TaskIds :
       ts[t].cpu.data = ts[u].cpu.data /\ ts[t].cpu.data \in kept => t = u
  /\ \A t \in TaskIds : ts[t].cpu.data \notin free

\* Numbers not handed out yet have no task and no queue.
NotHandedOut(qs, ts, nq, nt) ==
  /\ \A q \in 1..MaxQueue : q >= nq => ~qs[q].live /\ qs[q].messages = <<>>
  /\ \A t \in TaskIds : t >= nt => ts[t].cpu.data \notin Messages

\* The inductive invariant, together with KernelInv and DisciplineInv.  What is in the
\* registers of the CPU, or left in the table for the task that runs, was read.
MessageInv ==
  /\ Stored(queues, tasks, owed, fresh)
  /\ \A m \in owed : InQueue(queues, m) \/ InTable(tasks, m)
  /\ live.data \notin fresh \cup owed
  /\ tasks[current].cpu.data \notin owed
  /\ NotHandedOut(queues, tasks, nextQueue, nextTask)

\* A table and the caller's registers before the switch.  Only a caller that goes on
\* running has a message of its own there.
Handing(ts, regs, kept) ==
  /\ Stored(queues', ts, kept, fresh')
  /\ \A m \in kept : InQueue(queues', m) \/ InTable(ts, m) \/ m = regs.data
  /\ regs.data \notin fresh'
  /\ regs.data \in kept => /\ ~InQueue(queues', regs.data) /\ ~InTable(ts, regs.data)
                           /\ ts[current].state \in {"Ready", "Running"}
  /\ ts[current].cpu.data \notin kept
  /\ NotHandedOut(queues', ts, nextQueue', nextTask')

Unread == ((owed \cup Accepted) \ Discarded) \ (HandlerTakes \cap Messages)
Follows == owed' = ((owed \cup Accepted) \ Discarded) \ Read

-----------------------------------------------------------------------------
(***************************************************************************)
(* The switch at the end of a step.                                        *)
(***************************************************************************)

LEMMA Remaining ==
  ASSUME Follows, NEW kept \in SUBSET Messages, Unread = kept
  PROVE  owed' = kept \ {live'.data}
BY DEF Follows, Read, Unread

\* What a step with the intermediate table `ts` and registers `regs` does to the
\* registers: no switch, or one that saves `regs` unless the caller was deleted.
Switched(ts, regs) ==
  \/ current' = current /\ tasks' = ts /\ live' = regs
  \/ /\ current' \in TaskIds \ {current}
     /\ live'.data = ts[current'].cpu.data
     /\ \A t \in TaskIds \ {current} : tasks'[t].cpu.data = ts[t].cpu.data
     /\ tasks'[current].cpu.data \in {regs.data, ts[current].cpu.data}
     /\ ts[current].state # "Dead" => tasks'[current].cpu.data = regs.data

LEMMA ScheduleRegisters ==
  ASSUME NEW ts \in [TaskIds -> Task], NEW regs \in Context, NEW force,
         current \in TaskIds, Schedule(ts, regs, force)
  PROVE  Switched(ts, regs)
<1>1. SUFFICES ASSUME NEW b \in TaskIds, IsBest(ts, b), ~Keeps(ts, regs, b, force),
                      SwitchTo(ts, regs, b)
               PROVE  /\ current' \in TaskIds \ {current}
                      /\ live'.data = ts[current'].cpu.data
                      /\ tasks'[current].cpu.data \in {regs.data, ts[current].cpu.data}
                      /\ ts[current].state # "Dead" => tasks'[current].cpu.data = regs.data
  BY ScheduleEffect DEF Schedule, Switched
<1>2. b # current /\ current' = b /\ live' = ts[b].cpu  BY <1>1 DEF Keeps, SwitchTo
<1> DEFINE old == ts[current]
           kept == IF old.state = "Dead" THEN old
                   ELSE [old EXCEPT !.cpu = regs,
                                    !.state = IF @ = "Running" THEN "Ready" ELSE @]
<1>3. tasks' = [ts EXCEPT ![current] = kept, ![b].state = "Running"]
  BY <1>1 DEF SwitchTo
<1>4. old \in Task  OBVIOUS
<1>5. /\ kept.cpu.data \in {regs.data, old.cpu.data}
      /\ old.state # "Dead" => kept.cpu.data = regs.data
  BY <1>4 DEF Task
<1> HIDE DEF kept
<1>6. tasks'[current] = kept  BY <1>2, <1>3
<1>7. QED  BY <1>2, <1>5, <1>6

LEMMA SwitchMessages ==
  ASSUME KernelInv, NEW ts, NEW regs, NEW kept, Handing(ts, regs, kept),
         Switched(ts, regs), Follows, Unread = kept, ~(current >= nextTask')
  PROVE  MessageInv'
<1>1. current \in TaskIds  BY DEF KernelInv, TasksOK
<1>2. kept \subseteq Messages  BY DEF Handing, Stored
<1>3. owed' = kept \ {live'.data}  BY <1>2, Remaining
<1>4. CASE current' = current /\ tasks' = ts /\ live' = regs
  <2>1. Stored(queues', tasks', owed', fresh')
    BY <1>3, <1>4 DEF Handing, Stored
  <2>2. \A m \in owed' : InQueue(queues', m) \/ InTable(tasks', m)
    BY <1>3, <1>4 DEF Handing
  <2>3. live'.data \notin fresh' \cup owed' /\ tasks'[current'].cpu.data \notin owed'
    BY <1>3, <1>4 DEF Handing
  <2>4. NotHandedOut(queues', tasks', nextQueue', nextTask')
    BY <1>4 DEF Handing
  <2>5. QED
    BY <2>1, <2>2, <2>3, <2>4 DEF MessageInv, Stored, InQueue, InTable, Distinct, NotHandedOut
<1>5. CASE /\ current' \in TaskIds \ {current}
           /\ live'.data = ts[current'].cpu.data
           /\ \A t \in TaskIds \ {current} : tasks'[t].cpu.data = ts[t].cpu.data
           /\ tasks'[current].cpu.data \in {regs.data, ts[current].cpu.data}
           /\ ts[current].state # "Dead" => tasks'[current].cpu.data = regs.data
  <2>1. \A t \in TaskIds : t # current => tasks'[t].cpu.data = ts[t].cpu.data
    BY <1>5
  <2>2. ASSUME NEW m, InTable(tasks', m), m \in kept
        PROVE  InTable(ts, m) \/ m = regs.data
    BY <1>5, <2>1, <2>2 DEF InTable
  <2>3. \A m : InQueue(queues', m) => m \in kept /\ ~InTable(ts, m) /\ m # regs.data
    BY DEF Handing, Stored
  <2>4. \A m : InQueue(queues', m) => m \in owed' /\ ~InTable(tasks', m)
    BY <1>3, <1>5, <2>2, <2>3 DEF InTable
  <2>5. ASSUME NEW t \in TaskIds, NEW u \in TaskIds, t # u,
               tasks'[t].cpu.data = tasks'[u].cpu.data, tasks'[t].cpu.data \in kept
        PROVE  FALSE
    <3>1. ASSUME NEW v \in TaskIds, v # current, tasks'[v].cpu.data = tasks'[current].cpu.data,
                 tasks'[v].cpu.data \in kept
          PROVE  FALSE
      BY <1>1, <1>5, <2>1, <3>1 DEF Handing, InTable
    <3>2. CASE t # current /\ u # current
      BY <2>1, <2>5, <3>2 DEF Handing, Stored
    <3>3. QED  BY <2>5, <3>1, <3>2
  <2>6. \A t \in TaskIds : tasks'[t].cpu.data \notin fresh'
    BY <1>1, <1>5, <2>1 DEF Handing, Stored
  <2>7. Stored(queues', tasks', owed', fresh')
    <3>1. owed' \subseteq Messages /\ owed' \cap fresh' = {} /\ Distinct(queues')
      BY <1>3 DEF Handing, Stored
    <3>2. QED  BY <1>3, <2>4, <2>5, <2>6, <3>1 DEF Stored
  <2>8. ASSUME NEW m \in owed' PROVE InQueue(queues', m) \/ InTable(tasks', m)
    <3>1. m \in kept  BY <1>3
    <3>2. CASE InTable(ts, m)
      <4>1. PICK t \in TaskIds : ts[t].cpu.data = m  BY <3>2 DEF InTable
      <4>2. t # current  BY <3>1, <4>1 DEF Handing
      <4>3. QED  BY <2>1, <4>1, <4>2 DEF InTable
    <3>3. CASE m = regs.data
      <4>1. ts[current].state # "Dead"  BY <3>1, <3>3 DEF Handing
      <4>2. QED  BY <1>1, <1>5, <3>3, <4>1 DEF InTable
    <3>4. QED  BY <3>1, <3>2, <3>3 DEF Handing
  <2>9. live'.data \notin fresh' \cup owed' /\ tasks'[current'].cpu.data \notin owed'
    BY <1>3, <1>5 DEF Handing, Stored
  <2>10. NotHandedOut(queues', tasks', nextQueue', nextTask')
    BY <1>1, <2>1 DEF Handing, NotHandedOut
  <2>11. QED
    BY <2>7, <2>8, <2>9, <2>10 DEF MessageInv, Stored, InQueue, InTable, Distinct, NotHandedOut
<1>6. QED  BY <1>4, <1>5 DEF Switched

\* The end of a TRAP #11, which saves the registers of a caller that blocked.
LEMMA ReturnMessages ==
  ASSUME KernelInv, NEW ts \in [TaskIds -> Task], NEW regs \in Context, NEW code \in Codes,
         NEW kept, Handing(ts, regs, kept), Return(ts, regs, code),
         Follows, Unread = kept, ~(current >= nextTask')
  PROVE  MessageInv'
<1> DEFINE out == IF InHandler THEN regs ELSE [regs EXCEPT !.code = code]
           task == [ts[current] EXCEPT !.cpu = out]
           saved == IF ts[current].state = "Blocked" THEN [ts EXCEPT ![current] = task] ELSE ts
<1>1. current \in TaskIds  BY DEF KernelInv, TasksOK
<1>2. out.data = regs.data /\ out \in Context  BY DEF Context
<1>3. ts[current] \in Task  BY <1>1
<1>4. task \in Task /\ task.cpu = out /\ task.state = ts[current].state
  BY <1>2, <1>3 DEF Task
<1>5. Schedule(saved, out, ~Runnable(saved[current]))  BY DEF Return
<1> HIDE DEF out, task
<1>6. saved \in [TaskIds -> Task]  BY <1>4
<1>7. /\ \A t \in TaskIds : t # current => saved[t] = ts[t]
      /\ saved[current].state = ts[current].state
      /\ \/ saved[current].cpu.data = ts[current].cpu.data
         \/ /\ saved[current].cpu.data = regs.data
            /\ ts[current].state = "Blocked"
  BY <1>1, <1>2, <1>4
<1> HIDE DEF saved
<1>8. saved[current].cpu.data \notin kept \cup fresh'
  BY <1>1, <1>7 DEF Handing, Stored
<1>9. \A m \in kept : InTable(saved, m) <=> InTable(ts, m)
  BY <1>1, <1>7, <1>8 DEF InTable, Handing
<1>10. \A m : InQueue(queues', m) => m \in kept /\ ~InTable(saved, m)
  BY <1>9 DEF Handing, Stored
<1>11. ASSUME NEW t \in TaskIds, NEW u \in TaskIds, t # u,
              saved[t].cpu.data = saved[u].cpu.data, saved[t].cpu.data \in kept
       PROVE  FALSE
  BY <1>7, <1>8, <1>11 DEF Handing, Stored
<1>12. Stored(queues', saved, kept, fresh')
  <2>1. \A t \in TaskIds : saved[t].cpu.data \notin fresh'
    BY <1>7, <1>8 DEF Handing, Stored
  <2>2. kept \subseteq Messages /\ kept \cap fresh' = {} /\ Distinct(queues')
    BY DEF Handing, Stored
  <2>3. QED  BY <1>10, <1>11, <2>1, <2>2 DEF Stored
<1>13. NotHandedOut(queues', saved, nextQueue', nextTask')
  BY <1>7 DEF Handing, NotHandedOut
<1>14. Handing(saved, out, kept)
  BY <1>2, <1>7, <1>8, <1>9, <1>12, <1>13 DEF Handing
<1>15. QED  BY <1>1, <1>2, <1>5, <1>6, <1>14, ScheduleRegisters, SwitchMessages

-----------------------------------------------------------------------------
(***************************************************************************)
(* Steps that neither put a message somewhere nor take one.                *)
(***************************************************************************)

\* Every context keeps its data, or had and has no message that is owed.
Harmless(ts) ==
  \A t \in TaskIds :
    \/ ts[t].cpu.data = tasks[t].cpu.data
    \/ /\ tasks[t].cpu.data \notin owed /\ ts[t].cpu.data \notin owed \cup fresh
       /\ ~(t >= nextTask')

\* No message is sent and every queue keeps its messages.
Quiet ==
  /\ fresh' = fresh
  /\ \A q \in 1..MaxQueue : /\ queues'[q].messages = queues[q].messages
                            /\ queues[q].live => queues'[q].live
                            /\ q >= nextQueue' => ~queues'[q].live /\ queues'[q].messages = <<>>

Invs == KernelInv /\ DisciplineInv /\ MessageInv

\* Nothing was sent, deleted or taken by a handler.
LEMMA NothingMoves ==
  ASSUME KernelInv, Quiet
  PROVE  Unread = owed
<1>1. Accepted = {}  BY DEF Quiet, Accepted
<1>2. Discarded = {}  BY DEF Quiet, Discarded
<1>3. HandlerTakes = {}
  <2>1. ASSUME NEW q \in 1..MaxQueue, queues[q].messages # <<>>
        PROVE  queues'[q].messages # Tail(queues[q].messages)
    <3>1. queues[q].messages \in Seq(Messages)  BY DEF KernelInv, ObjectsOK
    <3>2. Len(Tail(queues[q].messages)) # Len(queues[q].messages)  BY <2>1, <3>1
    <3>3. QED  BY <3>2 DEF Quiet
  <2>2. QED  BY <2>1 DEF Quiet, HandlerTakes
<1>4. QED  BY <1>1, <1>2, <1>3 DEF Unread

LEMMA HarmlessHands ==
  ASSUME MessageInv, NEW ts, Harmless(ts), NEW regs, Quiet,
         regs.data = live.data \/ regs.data \notin Messages,
         \A t \in TaskIds : t >= nextTask' => t >= nextTask,
         current \in TaskIds, fresh \subseteq Messages
  PROVE  Handing(ts, regs, owed)
<1> USE DEF Quiet
<1>1. \A m : InQueue(queues', m) <=> InQueue(queues, m)  BY DEF InQueue
<1>2. Distinct(queues')  BY DEF MessageInv, Stored, Distinct
<1>3. \A m \in owed : InTable(ts, m) <=> InTable(tasks, m)
  BY DEF Harmless, InTable
<1>4. \A m : InQueue(queues, m) => m \in owed /\ ~InTable(ts, m)
  BY <1>3 DEF MessageInv, Stored
<1>5. \A t \in TaskIds : /\ ts[t].cpu.data \notin fresh
                         /\ ts[t].cpu.data \in owed => ts[t].cpu.data = tasks[t].cpu.data
  BY DEF Harmless, MessageInv, Stored
<1>6. \A t \in TaskIds, u \in TaskIds :
        ts[t].cpu.data = ts[u].cpu.data /\ ts[t].cpu.data \in owed => t = u
  BY <1>5 DEF MessageInv, Stored
<1>7. Stored(queues', ts, owed, fresh')
  <2>1. owed \subseteq Messages /\ owed \cap fresh' = {}  BY DEF MessageInv, Stored
  <2>2. QED  BY <1>1, <1>2, <1>4, <1>5, <1>6, <2>1 DEF Stored
<1>8. regs.data \notin fresh' \cup owed  BY DEF MessageInv, Stored
<1>9. \A m \in owed : InQueue(queues', m) \/ InTable(ts, m)
  BY <1>1, <1>3 DEF MessageInv
<1>10. ts[current].cpu.data \notin owed  BY <1>5 DEF MessageInv
<1>11. NotHandedOut(queues', ts, nextQueue', nextTask')
  BY DEF MessageInv, NotHandedOut, Harmless
<1>12. QED  BY <1>7, <1>8, <1>9, <1>10, <1>11 DEF Handing

\* The numbers that are free stay free.
LEMMA NumbersKept ==
  ASSUME KernelInv, nextTask' \in Nat, nextTask' >= nextTask
  PROVE  \A t \in TaskIds : t >= nextTask' => t >= nextTask
<1>1. nextTask \in Nat /\ \A t \in TaskIds : t \in Nat
  BY KernelAssumption DEF TaskIds, KernelInv, ObjectsOK
<1>2. QED  BY <1>1

\* The task on the CPU has a number that was handed out.
LEMMA CallerNumber ==
  ASSUME KernelInv, DisciplineInv, nextTask' \in Nat, nextTask' >= nextTask
  PROVE  ~(current >= nextTask')
<1>1. current \in TaskIds /\ current < nextTask  BY CallerFree
<1>2. nextTask \in Nat /\ current \in Nat
  BY <1>1, KernelAssumption DEF KernelInv, ObjectsOK, TaskIds
<1>3. QED  BY <1>1, <1>2

\* Queues that no step touches.
LEMMA UntouchedQuiet ==
  ASSUME MessageInv, UNCHANGED <<queues, nextQueue, fresh>>
  PROVE  Quiet
BY DEF MessageInv, NotHandedOut, Quiet

\* A step without a trap.
LEMMA HarmlessSwitch ==
  ASSUME Invs, Follows, Quiet, nextTask' \in Nat, nextTask' >= nextTask,
         NEW ts, Harmless(ts), NEW regs, regs.data = live.data \/ regs.data \notin Messages,
         Switched(ts, regs)
  PROVE  MessageInv'
<1>1. current \in TaskIds /\ fresh \subseteq Messages
  BY ResultNow DEF Invs, KernelInv, ObjectsOK
<1>2. ~(current >= nextTask')  BY CallerNumber DEF Invs
<1>3. \A t \in TaskIds : t >= nextTask' => t >= nextTask  BY NumbersKept DEF Invs
<1>4. Handing(ts, regs, owed)  BY <1>1, <1>3, HarmlessHands DEF Invs
<1>5. Unread = owed  BY NothingMoves DEF Invs
<1>6. QED  BY <1>2, <1>4, <1>5, SwitchMessages DEF Invs

\* A service.
LEMMA HarmlessReturn ==
  ASSUME Invs, Follows, Quiet, nextTask' \in Nat, nextTask' >= nextTask,
         NEW ts \in [TaskIds -> Task], Harmless(ts), NEW regs \in Context,
         regs.data = live.data \/ regs.data \notin Messages, NEW code \in Codes,
         Return(ts, regs, code)
  PROVE  MessageInv'
<1>1. current \in TaskIds /\ fresh \subseteq Messages
  BY ResultNow DEF Invs, KernelInv, ObjectsOK
<1>2. ~(current >= nextTask')  BY CallerNumber DEF Invs
<1>3. \A t \in TaskIds : t >= nextTask' => t >= nextTask  BY NumbersKept DEF Invs
<1>4. Handing(ts, regs, owed)  BY <1>1, <1>3, HarmlessHands DEF Invs
<1>5. Unread = owed  BY NothingMoves DEF Invs
<1>6. QED  BY <1>2, <1>4, <1>5, ReturnMessages DEF Invs

\* Notices, event bits and empty registers are no messages.
LEMMA NoMessage ==
  /\ Nothing \notin Messages
  /\ \A data \in Notices \cup SUBSET Events : data \notin Messages
BY MessageAssumption DEF Nothing

LEMMA HarmlessDone ==
  ASSUME Invs, Follows, Quiet, nextTask' \in Nat, nextTask' >= nextTask,
         NEW ts \in [TaskIds -> Task], Harmless(ts), NEW code \in Codes, Done(ts, code)
  PROVE  MessageInv'
<1>1. live \in Context /\ Result(Nothing) \in Context  BY ResultNow DEF Invs
<1>2. Result(Nothing).data \in {live.data, Nothing}  BY <1>1 DEF Result, Context
<1>3. QED  BY <1>1, <1>2, NoMessage, HarmlessReturn DEF Done

\* A table in which every task keeps its data, or waited for a message or events and
\* got something else than a message.
LEMMA WakesHarmless ==
  ASSUME Invs, nextTask' = nextTask, NEW ts,
         \A t \in TaskIds : \/ ts[t].cpu.data = tasks[t].cpu.data
                           \/ /\ tasks[t].wait.on \in {"queue", "events"}
                              /\ ts[t].cpu.data \notin Messages
  PROVE  Harmless(ts)
<1>1. SUFFICES ASSUME NEW t \in TaskIds, tasks[t].wait.on \in {"queue", "events"},
                      ts[t].cpu.data \notin Messages
               PROVE  /\ tasks[t].cpu.data \notin owed
                      /\ ts[t].cpu.data \notin owed \cup fresh
                      /\ ~(t >= nextTask')
  BY DEF Harmless
<1>2. tasks[t].cpu.data \notin Messages  BY <1>1, NoMessage DEF Invs, DisciplineInv, Empty
<1>3. owed \subseteq Messages /\ fresh \subseteq Messages
  BY DEF Invs, MessageInv, Stored, KernelInv, ObjectsOK
<1>4. tasks[t].state = "Blocked"  BY <1>1 DEF Invs, DisciplineInv, Waits
<1>5. ~(t >= nextTask)  BY <1>4 DEF Invs, DisciplineInv
<1>6. QED  BY <1>1, <1>2, <1>3, <1>5

-----------------------------------------------------------------------------
(***************************************************************************)
(* Every step but those that move messages.                                *)
(***************************************************************************)

LEMMA WakeData ==
  ASSUME NEW task \in Task, NEW code
  PROVE  WakeWith(task, code).cpu.data = task.cpu.data
BY WakeEnds DEF WakeWith

LEMMA ElapseData ==
  ASSUME NEW task \in Task
  PROVE  Elapse(task).cpu.data = task.cpu.data
<1>1. CASE Expires(task)  BY <1>1, WakeData DEF Elapse
<1>2. CASE ~Expires(task)  BY <1>2 DEF Elapse, Task
<1>3. QED  BY <1>1, <1>2

LEMMA SendEventData ==
  ASSUME NEW u \in TaskIds, NEW bits \in SUBSET Events, tasks \in [TaskIds -> Task]
  PROVE  \A t \in TaskIds : \/ SendEvent(tasks, u, bits)[t].cpu.data = tasks[t].cpu.data
                            \/ /\ tasks[t].wait.on = "events"
                               /\ SendEvent(tasks, u, bits)[t].cpu.data \in SUBSET Events
<1> DEFINE have == tasks[u].events \cup bits
           got == have \cap tasks[u].wait.want
           rest == [tasks[u] EXCEPT !.events = have \ got]
           woken == Wake(rest, "ok", got)
           kept == [tasks[u] EXCEPT !.events = have]
<1>1. CASE tasks[u].wait.on = "events" /\ Satisfied(have, tasks[u].wait.want, tasks[u].wait.any)
  <2>1. SendEvent(tasks, u, bits) = [tasks EXCEPT ![u] = woken]  BY <1>1 DEF SendEvent
  <2>2. woken.cpu.data = got
    <3>1. tasks[u] \in Task /\ have \ got \in SUBSET Events  BY DEF Task
    <3>2. rest \in Task  BY <3>1 DEF Task
    <3> HIDE DEF rest
    <3>3. QED  BY <3>2, WakeEnds
  <2>3. got \in SUBSET Events  BY DEF Task
  <2> HIDE DEF woken, got
  <2>4. QED  BY <1>1, <2>1, <2>2, <2>3
<1>2. CASE ~(tasks[u].wait.on = "events" /\ Satisfied(have, tasks[u].wait.want, tasks[u].wait.any))
  <2>1. SendEvent(tasks, u, bits) = [tasks EXCEPT ![u] = kept]  BY <1>2 DEF SendEvent
  <2>2. kept.cpu.data = tasks[u].cpu.data  BY DEF Task
  <2> HIDE DEF kept
  <2>3. QED  BY <2>1, <2>2
<1>3. QED  BY <1>1, <1>2

LEMMA SendEventHarmless ==
  ASSUME Invs, nextTask' = nextTask, NEW u \in TaskIds, NEW bits \in SUBSET Events
  PROVE  /\ SendEvent(tasks, u, bits) \in [TaskIds -> Task]
         /\ Harmless(SendEvent(tasks, u, bits))
<1>1. tasks \in [TaskIds -> Task]  BY ResultNow DEF Invs
<1>2. SendEvent(tasks, u, bits) \in [TaskIds -> Task]  BY <1>1, SendEventType
<1> DEFINE ts == SendEvent(tasks, u, bits)
<1>3. \A t \in TaskIds : \/ ts[t].cpu.data = tasks[t].cpu.data
                          \/ /\ tasks[t].wait.on = "events"
                             /\ ts[t].cpu.data \in SUBSET Events
  BY <1>1, SendEventData
<1> HIDE DEF ts
<1>4. Harmless(ts)  BY <1>3, NoMessage, WakesHarmless
<1>5. QED  BY <1>2, <1>4 DEF ts

\* The table as it is, and one record replaced by one with the same data.
LEMMA SameDataHarmless ==
  ASSUME Invs, NEW u \in TaskIds, NEW task \in Task, task.cpu.data = tasks[u].cpu.data
  PROVE  /\ [tasks EXCEPT ![u] = task] \in [TaskIds -> Task]
         /\ Harmless([tasks EXCEPT ![u] = task])
         /\ tasks \in [TaskIds -> Task] /\ Harmless(tasks)
BY ResultNow DEF Invs, Harmless

LEMMA TableMessages ==
  ASSUME Invs, Follows, Quiet, nextTask' \in Nat, nextTask' >= nextTask,
         NEW code \in Codes, Done(tasks, code)
  PROVE  MessageInv'
BY ResultNow, HarmlessDone DEF Invs, Harmless

LEMMA BlockMessages ==
  ASSUME Invs, Follows, Quiet, nextTask' = nextTask, NEW wait \in Wait,
         NEW timeout \in 0..MaxTimeout, Done(Block(tasks, wait, timeout), "ok")
  PROVE  MessageInv'
<1> DEFINE new == [tasks[current] EXCEPT !.state = "Blocked", !.wait = wait, !.left = timeout]
<1>1. Block(tasks, wait, timeout) = [tasks EXCEPT ![current] = new]  BY DEF Block
<1>2. tasks[current] \in Task /\ current \in TaskIds  BY ResultNow DEF Invs
<1>3. new \in Task /\ new.cpu = tasks[current].cpu  BY <1>2 DEF Task, States
<1> HIDE DEF new
<1>4. /\ [tasks EXCEPT ![current] = new] \in [TaskIds -> Task]
      /\ Harmless([tasks EXCEPT ![current] = new])
  BY <1>2, <1>3, SameDataHarmless
<1>5. nextTask' \in Nat /\ nextTask' >= nextTask  BY DEF Invs, KernelInv, ObjectsOK
<1>6. Done([tasks EXCEPT ![current] = new], "ok")  BY <1>1
<1>7. QED  BY <1>4, <1>5, <1>6, CodesAre, HarmlessDone

\* The clock, `schedule`, and instructions that are no kernel service.
LEMMA HostGuestMessages ==
  ASSUME Invs, Follows, Host \/ Guest \/ Tm_Tick \/ UNCHANGED vars
  PROVE  MessageInv'
<1>1. tasks \in [TaskIds -> Task] /\ live \in Context /\ current \in TaskIds
  BY ResultNow DEF Invs
<1>2. nextTask' = nextTask /\ UNCHANGED <<queues, nextQueue, fresh>>
  BY DEF Host, Guest, HostTick, FireTimer, BeforeInstruction, Compute, WriteSR, Interrupt,
     Trap13, Fault, Tm_Tick, vars, objects
<1>3. Quiet  BY <1>2, UntouchedQuiet DEF Invs
<1>4. nextTask \in Nat  BY DEF Invs, KernelInv, ObjectsOK
<1>5. ASSUME Harmless(tasks'), current' = current, live'.data = live.data
      PROVE  MessageInv'
  <2>1. Switched(tasks', live')  BY <1>5 DEF Switched
  <2>2. QED  BY <1>2, <1>3, <1>4, <1>5, <2>1, HarmlessSwitch
<1>6. ASSUME NEW regs \in Context, regs.data = live.data, Schedule(tasks, regs, FALSE)
      PROVE  MessageInv'
  <2>1. Harmless(tasks)  BY DEF Harmless
  <2>2. Switched(tasks, regs)  BY <1>1, <1>6, ScheduleRegisters
  <2>3. QED  BY <1>2, <1>3, <1>4, <1>6, <2>1, <2>2, HarmlessSwitch
<1>7. CASE HostTick \/ Tm_Tick
  <2>1. tasks' = [t \in TaskIds |-> Elapse(tasks[t])] /\ UNCHANGED <<current, live>>
    BY <1>7 DEF HostTick, Tm_Tick, Tick
  <2>2. Harmless(tasks')  BY <1>1, <2>1, ElapseData DEF Harmless
  <2>3. QED  BY <1>5, <2>1, <2>2
<1>8. CASE FireTimer
  <2>1. PICK i \in 1..MaxTimer : tasks' = SendEvent(tasks, timers[i].task, timers[i].events)
    BY <1>8 DEF FireTimer
  <2>2. timers[i].task \in TaskIds /\ timers[i].events \in SUBSET Events
    BY DEF Invs, KernelInv, ObjectsOK
  <2>3. Harmless(tasks')  BY <1>2, <2>1, <2>2, SendEventHarmless
  <2>4. QED  BY <1>5, <1>8, <2>3 DEF FireTimer
<1>9. CASE BeforeInstruction  BY <1>1, <1>6, <1>9 DEF BeforeInstruction
<1>10. CASE Trap13
  <2>1. LET regs == [live EXCEPT !.masked = (live.frame = "masked"), !.frame = "none"]
        IN  regs \in Context /\ regs.data = live.data
    BY <1>1 DEF Context
  <2>2. QED  BY <1>6, <1>10, <2>1 DEF Trap13
<1>11. CASE Compute \/ WriteSR \/ Interrupt \/ Fault \/ UNCHANGED vars
  <2>1. tasks' = tasks /\ current' = current
    BY <1>11 DEF Compute, WriteSR, Interrupt, Fault, vars
  <2>2. live'.data = live.data
    BY <1>1, <1>11 DEF Compute, WriteSR, Interrupt, Fault, vars, Context
  <2>3. Harmless(tasks')  BY <2>1 DEF Harmless
  <2>4. QED  BY <1>5, <2>1, <2>2, <2>3
<1>12. QED  BY <1>7, <1>8, <1>9, <1>10, <1>11 DEF Host, Guest

\* Task services.  A created task has a new number; the others keep every context.
LEMMA TaskServicesMessages ==
  ASSUME Invs, Follows, TaskServices
  PROVE  MessageInv'
<1>1. nextTask \in Nat /\ \A t \in TaskIds : t \in Nat /\ tasks[t] \in Task
  BY ResultNow, KernelAssumption DEF Invs, KernelInv, ObjectsOK, TaskIds
<1>2. UNCHANGED <<queues, nextQueue, fresh>> /\ (T_Create \/ nextTask' = nextTask)
  BY DEF TaskServices, T_Create, T_Start, T_Start_Of, T_Restart, T_Restart_Of, T_Delete,
     T_Delete_Of, T_Suspend, T_Resume, T_SetPri,
     T_Mode, NoEffect, objects
<1>3. Quiet  BY <1>2, UntouchedQuiet DEF Invs
<1>4. ASSUME nextTask' = nextTask, NEW u \in TaskIds, NEW task \in Task,
             task.cpu.data = tasks[u].cpu.data, Done([tasks EXCEPT ![u] = task], "ok")
      PROVE  MessageInv'
  <2>1. /\ [tasks EXCEPT ![u] = task] \in [TaskIds -> Task]
        /\ Harmless([tasks EXCEPT ![u] = task])
    BY <1>4, SameDataHarmless
  <2>2. nextTask' \in Nat /\ nextTask' >= nextTask  BY <1>1, <1>4
  <2>3. QED  BY <1>3, <1>4, <2>1, <2>2, CodesAre, HarmlessDone
<1>5. CASE T_Create
  <2>1. ASSUME NEW code \in Codes, Done(tasks, code), nextTask' \in {nextTask, nextTask + 1}
        PROVE  MessageInv'
    <3>1. nextTask' \in Nat /\ nextTask' >= nextTask  BY <1>1, <2>1
    <3>2. QED  BY <1>3, <2>1, <3>1, TableMessages
  <2>2. ASSUME nextTask <= MaxTask, nextTask' = nextTask + 1, NEW priority \in Priorities,
               Done([tasks EXCEPT ![nextTask] =
                       [NoTask EXCEPT !.state = "Created", !.priority = priority]], "ok")
        PROVE  MessageInv'
    <3> DEFINE new == [NoTask EXCEPT !.state = "Created", !.priority = priority]
               ts == [tasks EXCEPT ![nextTask] = new]
    <3>1. new \in Task
      <4>1. 0 \in 0..255 /\ 0 \in 0..MaxTimeout /\ priority \in 0..255  BY KernelAssumption
      <4>2. EmptyContext \in Context /\ NotWaiting \in Wait
        BY NothingData DEF EmptyContext, Context, Codes, NotWaiting, Wait
      <4>3. QED  BY <4>1, <4>2 DEF NoTask, Task, States, Mode
    <3>2. new.cpu.data = Nothing  BY DEF NoTask, EmptyContext
    <3>3. nextTask \in TaskIds
      BY <2>2 DEF Invs, KernelInv, ObjectsOK, TaskIds, Idle
    <3>4. Done(ts, "ok")  BY <2>2
    <3> HIDE DEF new
    <3>5. nextTask' \in Nat /\ nextTask' >= nextTask /\ ~(nextTask >= nextTask')
      BY <1>1, <2>2
    <3>6. ts \in [TaskIds -> Task] /\ ts[nextTask].cpu.data = Nothing
          /\ \A t \in TaskIds : t # nextTask => ts[t] = tasks[t]
      BY <3>1, <3>2, <3>3, ResultNow DEF Invs
    <3> HIDE DEF ts
    <3>7. tasks[nextTask].cpu.data \notin owed
      <4>1. nextTask >= nextTask  BY <1>1
      <4>2. QED  BY <3>3, <4>1 DEF Invs, MessageInv, NotHandedOut, Stored
    <3>8. Nothing \notin owed \cup fresh
      BY NoMessage DEF Invs, MessageInv, Stored, KernelInv, ObjectsOK
    <3>9. Harmless(ts)  BY <3>5, <3>6, <3>7, <3>8 DEF Harmless
    <3>10. QED  BY <1>3, <3>4, <3>5, <3>6, <3>9, CodesAre, HarmlessDone
  <2>3. QED  BY <1>5, <2>1, <2>2, CodesAre DEF T_Create
<1>6. CASE T_Start \/ T_Restart
  <2>1. PICK u \in TaskIds, mode \in Mode : Done([tasks EXCEPT ![u] = Started(@, mode)], "ok")
    <3>1. \A t \in TaskIds : tasks[t].mode \in Mode  BY <1>1 DEF Task
    <3>2. QED  BY <1>6, <3>1, KernelAssumption DEF T_Start, T_Start_Of, T_Restart, T_Restart_Of
  <2> DEFINE new == Started(tasks[u], mode)
  <2>2. new \in Task  BY <1>1, StartedType
  <2>3. new.cpu.data = tasks[u].cpu.data  BY <1>1 DEF Started, Task, Context
  <2>4. nextTask' = nextTask  BY <1>6 DEF T_Start, T_Start_Of, T_Restart, T_Restart_Of
  <2>5. Done([tasks EXCEPT ![u] = new], "ok")  BY <2>1
  <2> HIDE DEF new
  <2>6. QED  BY <1>4, <2>2, <2>3, <2>4, <2>5
<1>7. ASSUME nextTask' = nextTask, NEW u \in TaskIds, NEW state \in States,
             NEW suspended \in BOOLEAN, NEW priority \in 0..255, NEW mode \in Mode,
             \/ Done([tasks EXCEPT ![u].state = state], "ok")
             \/ Done([tasks EXCEPT ![u].suspended = suspended], "ok")
             \/ Done([tasks EXCEPT ![u].priority = priority], "ok")
             \/ Done([tasks EXCEPT ![u].mode = mode], "ok")
      PROVE  MessageInv'
  <2>1. \A task \in Task :
          /\ [task EXCEPT !.state = state] \in Task
          /\ [task EXCEPT !.state = state].cpu = task.cpu
          /\ [task EXCEPT !.suspended = suspended] \in Task
          /\ [task EXCEPT !.suspended = suspended].cpu = task.cpu
          /\ [task EXCEPT !.priority = priority] \in Task
          /\ [task EXCEPT !.priority = priority].cpu = task.cpu
          /\ [task EXCEPT !.mode = mode] \in Task
          /\ [task EXCEPT !.mode = mode].cpu = task.cpu
    BY DEF Task
  <2>2. PICK new \in Task :
          new.cpu = tasks[u].cpu /\ Done([tasks EXCEPT ![u] = new], "ok")
    BY <1>1, <1>7, <2>1
  <2>3. QED  BY <1>4, <1>7, <2>2
<1>8. CASE T_Delete \/ T_Suspend \/ T_Resume \/ T_SetPri
  <2>1. \/ \E u \in TaskIds : Done([tasks EXCEPT ![u].state = "Dead"], "ok")
        \/ \E u \in TaskIds, suspended \in BOOLEAN :
             Done([tasks EXCEPT ![u].suspended = suspended], "ok")
        \/ \E u \in TaskIds, priority \in 0..255 :
             Done([tasks EXCEPT ![u].priority = priority], "ok")
    <3>1. T_Delete => \E u \in TaskIds : Done([tasks EXCEPT ![u].state = "Dead"], "ok")
      BY DEF T_Delete, T_Delete_Of
    <3>2. T_Suspend \/ T_Resume =>
            \E u \in TaskIds, suspended \in BOOLEAN :
              Done([tasks EXCEPT ![u].suspended = suspended], "ok")
      BY DEF T_Suspend, T_Resume
    <3>3. T_SetPri => \E u \in TaskIds, priority \in 0..255 :
                        Done([tasks EXCEPT ![u].priority = priority], "ok")
      BY KernelAssumption DEF T_SetPri
    <3>4. QED  BY <1>8, <3>1, <3>2, <3>3
  <2>2. "Dead" \in States /\ RootMode \in Mode /\ 0 \in 0..255
    BY KernelAssumption DEF States
  <2>3. nextTask' = nextTask  BY <1>8 DEF T_Delete, T_Delete_Of, T_Suspend, T_Resume, T_SetPri
  <2>4. QED  BY <1>7, <2>1, <2>2, <2>3
<1>9. CASE T_Mode
  <2>1. nextTask' = nextTask  BY <1>9 DEF T_Mode
  <2>2. tasks[current] \in Task /\ current \in TaskIds /\ live \in Context
        /\ Result(Nothing) \in Context
    BY ResultNow DEF Invs
  <2>3. ASSUME NEW np \in BOOLEAN, Done([tasks EXCEPT ![current].mode.np = np], "ok")
        PROVE  MessageInv'
    <3>1. [tasks[current].mode EXCEPT !.np = np] \in Mode  BY <2>2 DEF Task, Mode
    <3>2. [tasks EXCEPT ![current].mode.np = np] =
            [tasks EXCEPT ![current].mode = [tasks[current].mode EXCEPT !.np = np]]
      OBVIOUS
    <3>3. 0 \in 0..255 /\ "Dead" \in States  BY DEF States
    <3>4. Done([tasks EXCEPT ![current].mode = [tasks[current].mode EXCEPT !.np = np]], "ok")
      BY <2>3, <3>2
    <3>5. QED  BY <1>7, <2>1, <2>2, <3>1, <3>3, <3>4
  <2>4. ASSUME NEW mode \in Mode,
               Return([tasks EXCEPT ![current].mode = mode],
                      [Result(Nothing) EXCEPT !.masked = mode.masked], "ok")
        PROVE  MessageInv'
    <3> DEFINE regs == [Result(Nothing) EXCEPT !.masked = mode.masked]
               new == [tasks[current] EXCEPT !.mode = mode]
    <3>1. regs \in Context /\ regs.data = Result(Nothing).data
      BY <2>2, <2>4 DEF Context, Mode
    <3>2. Result(Nothing).data \in {live.data, Nothing}  BY <2>2 DEF Result, Context
    <3>3. new \in Task /\ new.cpu = tasks[current].cpu  BY <2>2 DEF Task
    <3>4. Return([tasks EXCEPT ![current] = new], regs, "ok")  BY <2>4
    <3> HIDE DEF regs, new
    <3>5. /\ [tasks EXCEPT ![current] = new] \in [TaskIds -> Task]
          /\ Harmless([tasks EXCEPT ![current] = new])
      BY <2>2, <3>3, SameDataHarmless
    <3>6. nextTask' \in Nat /\ nextTask' >= nextTask  BY <1>1, <2>1
    <3>7. QED
      BY <1>3, <3>1, <3>2, <3>4, <3>5, <3>6, NoMessage, CodesAre, HarmlessReturn
  <2>5. QED  BY <1>9, <2>3, <2>4 DEF T_Mode
<1>10. CASE NoEffect
  <2>1. nextTask' \in Nat /\ nextTask' >= nextTask  BY <1>1, <1>10 DEF NoEffect
  <2>2. QED  BY <1>3, <1>10, <2>1, CodesAre, TableMessages DEF NoEffect
<1>11. QED  BY <1>5, <1>6, <1>8, <1>9, <1>10 DEF TaskServices

\* Events, semaphores and time.
LEMMA OtherServicesMessages ==
  ASSUME Invs, Follows, EventServices \/ SemaphoreServices \/ TimeServices
  PROVE  MessageInv'
<1>1. nextTask' = nextTask /\ UNCHANGED <<queues, nextQueue, fresh>>
  BY DEF EventServices, SemaphoreServices, TimeServices, Ev_Send, Ev_Receive, Sm_Create,
     Sm_Delete, Sm_Delete_On, Sm_P, Sm_P_On, Sm_V, Sm_V_On, Tm_Tick, Tm_TickReturn,
     Tm_WkAfter, Tm_Ev, Tm_Cancel, objects
<1>2. Quiet  BY <1>1, UntouchedQuiet DEF Invs
<1>3. nextTask' \in Nat /\ nextTask' >= nextTask  BY <1>1 DEF Invs, KernelInv, ObjectsOK
<1>4. /\ live \in Context /\ tasks \in [TaskIds -> Task] /\ current \in TaskIds
      /\ tasks[current] \in Task
  BY ResultNow DEF Invs
<1>5. ASSUME NEW code \in Codes, Done(tasks, code) PROVE MessageInv'
  BY <1>2, <1>3, <1>5, TableMessages
<1>6. CASE Ev_Send
  <2>1. PICK u \in TaskIds, bits \in SUBSET Events : Done(SendEvent(tasks, u, bits), "ok")
    BY <1>6 DEF Ev_Send
  <2>2. /\ SendEvent(tasks, u, bits) \in [TaskIds -> Task]
        /\ Harmless(SendEvent(tasks, u, bits))
    BY <1>1, SendEventHarmless
  <2>3. QED  BY <1>2, <1>3, <2>1, <2>2, CodesAre, HarmlessDone
<1>7. CASE Ev_Receive
  <2>1. PICK want \in SUBSET Events, any \in BOOLEAN :
          LET have == tasks[current].events
              got == have \cap want
          IN  \/ Return(tasks, Result(have), "ok")
              \/ Return([tasks EXCEPT ![current].events = @ \ got], Result(got), "ok")
              \/ Done(tasks, "refused")
              \/ \E timeout \in 0..MaxTimeout :
                   Done(Block(tasks, [NotWaiting EXCEPT !.on = "events", !.want = want,
                                                        !.any = any], timeout), "ok")
    BY <1>7 DEF Ev_Receive
  <2> DEFINE have == tasks[current].events
             got == have \cap want
             rest == [tasks[current] EXCEPT !.events = have \ got]
             wait == [NotWaiting EXCEPT !.on = "events", !.want = want, !.any = any]
  <2>2. have \in SUBSET Events /\ got \in SUBSET Events  BY <1>4 DEF Task
  <2>3. ASSUME NEW bits \in SUBSET Events
        PROVE  /\ Result(bits) \in Context
               /\ Result(bits).data = live.data \/ Result(bits).data \notin Messages
    <3>1. Result(bits) \in Context  BY ResultNow DEF Invs, Data
    <3>2. Result(bits).data \in {live.data, bits}  BY <1>4 DEF Result, Context
    <3>3. QED  BY <3>1, <3>2, NoMessage
  <2>4. Return(tasks, Result(have), "ok") => MessageInv'
    <3>1. Harmless(tasks)  BY DEF Harmless
    <3>2. QED  BY <1>2, <1>3, <1>4, <2>2, <2>3, <3>1, CodesAre, HarmlessReturn
  <2>5. Return([tasks EXCEPT ![current].events = @ \ got], Result(got), "ok") => MessageInv'
    <3>1. rest \in Task /\ rest.cpu = tasks[current].cpu  BY <1>4, <2>2 DEF Task
    <3>2. [tasks EXCEPT ![current].events = @ \ got] = [tasks EXCEPT ![current] = rest]
      OBVIOUS
    <3> HIDE DEF rest, got
    <3>3. /\ [tasks EXCEPT ![current] = rest] \in [TaskIds -> Task]
          /\ Harmless([tasks EXCEPT ![current] = rest])
      BY <1>4, <3>1, SameDataHarmless
    <3>4. QED  BY <1>2, <1>3, <2>2, <2>3, <3>2, <3>3, CodesAre, HarmlessReturn
  <2>6. wait \in Wait  BY DEF NotWaiting, Wait
  <2>7. ASSUME NEW timeout \in 0..MaxTimeout, Done(Block(tasks, wait, timeout), "ok")
        PROVE  MessageInv'
    <3> HIDE DEF wait
    <3>1. QED  BY <1>1, <1>2, <2>6, <2>7, BlockMessages
  <2>8. Done(tasks, "refused") => MessageInv'  BY <1>5, CodesAre
  <2>9. QED  BY <2>1, <2>4, <2>5, <2>7, <2>8
<1>8. CASE Sm_P
  <2>1. PICK s \in 1..MaxSemaphore :
          \/ \E code \in {"ok", "refused"} : Done(tasks, code)
          \/ \E timeout \in 0..MaxTimeout :
               Done(Block(tasks, WaitFor("semaphore", s), timeout), "ok")
    BY <1>8 DEF Sm_P, Sm_P_On
  <2>2. WaitFor("semaphore", s) \in Wait
    <3>1. s \in Nat  BY KernelAssumption
    <3>2. QED  BY <3>1, WaitForType
  <2>3. QED  BY <1>1, <1>2, <1>5, <2>1, <2>2, CodesAre, BlockMessages
<1>9. CASE Sm_V
  <2>1. PICK s \in 1..MaxSemaphore :
          \/ \E u \in Waiters("semaphore", s) :
               Done([tasks EXCEPT ![u] = WakeWith(@, "ok")], "ok")
          \/ Done(tasks, "ok")
    BY <1>9 DEF Sm_V, Sm_V_On
  <2>2. ASSUME NEW u \in Waiters("semaphore", s),
               Done([tasks EXCEPT ![u] = WakeWith(@, "ok")], "ok")
        PROVE  MessageInv'
    <3>1. u \in TaskIds  BY DEF Waiters
    <3> DEFINE woken == WakeWith(tasks[u], "ok")
    <3>2. woken \in Task  BY <1>4, <3>1, WakeWithType, CodesAre
    <3>3. woken.cpu.data = tasks[u].cpu.data  BY <1>4, <3>1, WakeData
    <3>4. Done([tasks EXCEPT ![u] = woken], "ok")  BY <2>2
    <3> HIDE DEF woken
    <3>5. /\ [tasks EXCEPT ![u] = woken] \in [TaskIds -> Task]
          /\ Harmless([tasks EXCEPT ![u] = woken])
      BY <3>1, <3>2, <3>3, SameDataHarmless
    <3>6. QED  BY <1>2, <1>3, <3>4, <3>5, CodesAre, HarmlessDone
  <2>3. QED  BY <1>5, <2>1, <2>2, CodesAre
<1>10. CASE Tm_Tick  BY <1>10, HostGuestMessages
<1>11. CASE Tm_WkAfter
  <2>1. ASSUME NEW timeout \in 1..MaxTimeout, Done(Block(tasks, WaitFor("sleep", 0), timeout), "ok")
        PROVE  MessageInv'
    <3>1. timeout \in 0..MaxTimeout  BY KernelAssumption
    <3>2. WaitFor("sleep", 0) \in Wait  BY DEF WaitFor, NotWaiting, Wait
    <3>3. QED  BY <1>1, <1>2, <2>1, <3>1, <3>2, BlockMessages
  <2>2. ASSUME Done([tasks EXCEPT ![current].state = "Ready", ![current].cpu = live], "ok")
        PROVE  MessageInv'
    <3> DEFINE new == [tasks[current] EXCEPT !.state = "Ready", !.cpu = live]
               ts == [tasks EXCEPT ![current] = new]
    <3>1. new \in Task /\ new.cpu = live  BY <1>4 DEF Task, States
    <3>2. [tasks EXCEPT ![current].state = "Ready", ![current].cpu = live] = ts
      OBVIOUS
    <3> HIDE DEF new
    <3>3. ts \in [TaskIds -> Task] /\ ts[current].cpu = live
          /\ \A t \in TaskIds : t # current => ts[t] = tasks[t]
      BY <1>4, <3>1
    <3>4. Done(ts, "ok")  BY <2>2, <3>2
    <3> HIDE DEF ts
    <3>5. ~(current >= nextTask')
      <4>1. current < nextTask /\ nextTask \in Nat /\ current \in Nat
        BY CallerFree, KernelAssumption DEF Invs, KernelInv, ObjectsOK, TaskIds
      <4>2. QED  BY <1>1, <4>1
    <3>6. Harmless(ts)  BY <3>3, <3>5 DEF Harmless, Invs, MessageInv
    <3>7. QED  BY <1>2, <1>3, <3>3, <3>4, <3>6, CodesAre, HarmlessDone
  <2>3. QED  BY <1>11, <2>1, <2>2 DEF Tm_WkAfter
<1>12. CASE Sm_Create \/ Sm_Delete \/ Tm_TickReturn \/ Tm_Ev \/ Tm_Cancel
  BY <1>5, <1>12, CodesAre DEF Sm_Create, Sm_Delete, Sm_Delete_On, Tm_TickReturn, Tm_Ev, Tm_Cancel
<1>13. QED
  BY <1>6, <1>7, <1>8, <1>9, <1>10, <1>11, <1>12 DEF EventServices, SemaphoreServices,
     TimeServices

-----------------------------------------------------------------------------
(***************************************************************************)
(* The steps that move messages.                                           *)
(***************************************************************************)

\* A message that is sent is nowhere yet.
LEMMA FreshNowhere ==
  ASSUME Invs, NEW message \in fresh
  PROVE  /\ message \in Messages /\ message \notin owed
         /\ ~InQueue(queues, message) /\ ~InTable(tasks, message)
         /\ live.data # message
BY DEF Invs, KernelInv, ObjectsOK, MessageInv, Stored, InTable

\* What is owed after a message was sent and no queue lost one.
LEMMA SentUnread ==
  ASSUME KernelInv, NEW message \in fresh, fresh' = fresh \ {message},
         \A q \in 1..MaxQueue :
           /\ queues[q].live => queues'[q].live
           /\ Len(queues'[q].messages) >= Len(queues[q].messages)
  PROVE  Unread = owed \cup {message}
<1>1. Accepted = {message}  BY DEF Accepted
<1>2. Discarded = {}  BY DEF Discarded
<1>3. HandlerTakes = {}
  <2>1. ASSUME NEW q \in 1..MaxQueue, queues[q].messages # <<>>
        PROVE  queues'[q].messages # Tail(queues[q].messages)
    <3>1. queues[q].messages \in Seq(Messages)  BY DEF KernelInv, ObjectsOK
    <3>2. Len(Tail(queues[q].messages)) < Len(queues[q].messages)  BY <2>1, <3>1
    <3>3. Len(queues[q].messages) \in Nat /\ Len(Tail(queues[q].messages)) \in Nat
      BY <2>1, <3>1
    <3>4. Len(queues'[q].messages) >= Len(queues[q].messages)  OBVIOUS
    <3>5. ASSUME queues'[q].messages = Tail(queues[q].messages) PROVE FALSE
      <4>1. Len(Tail(queues[q].messages)) >= Len(queues[q].messages)  BY <3>4, <3>5
      <4>2. QED  BY <3>2, <3>3, <4>1
    <3>6. QED  BY <3>5
  <2>2. QED  BY <2>1 DEF HandlerTakes
<1>4. QED  BY <1>1, <1>2, <1>3 DEF Unread

\* A message straight into the registers of a waiter.
LEMMA DeliverMessage ==
  ASSUME Invs, Follows, NEW q \in 1..MaxQueue, NEW message \in fresh,
         NEW u \in Waiters("queue", q), Done(Deliver({u}, message), "ok"),
         fresh' = fresh \ {message}, UNCHANGED <<queues, nextQueue, nextTask>>
  PROVE  MessageInv'
<1> DEFINE ts == Deliver({u}, message)
           kept == owed \cup {message}
           regs == Result(Nothing)
<1>1. /\ u \in TaskIds /\ tasks[u].wait.on = "queue"
      /\ tasks \in [TaskIds -> Task] /\ current \in TaskIds
      /\ live \in Context /\ regs \in Context
  BY ResultNow DEF Waiters, Invs
<1>2. u # current /\ current < nextTask /\ ~(u >= nextTask)
  <2>1. tasks[u].state = "Blocked"  BY <1>1 DEF Invs, DisciplineInv, Waits
  <2>2. QED  BY <1>1, <2>1, CallerFree DEF Invs, DisciplineInv
<1>3. tasks[u].cpu.data = Nothing  BY <1>1 DEF Invs, DisciplineInv, Empty
<1>4. /\ message \in Messages /\ message \notin owed
      /\ ~InQueue(queues, message) /\ ~InTable(tasks, message) /\ live.data # message
  BY FreshNowhere
<1>5. /\ ts \in [TaskIds -> Task]
      /\ \A t \in TaskIds : t # u => ts[t] = tasks[t]
      /\ ts[u].cpu.data = message
  <2>1. message \in Data  BY <1>4 DEF Data
  <2>2. Wake(tasks[u], "ok", message) \in Task  BY <1>1, <2>1, WakeType, CodesAre
  <2>3. Wake(tasks[u], "ok", message).cpu.data = message  BY <1>1, WakeEnds
  <2>4. ts = [t \in TaskIds |-> IF t = u THEN Wake(tasks[t], "ok", message) ELSE tasks[t]]
    BY DEF Deliver
  <2>5. QED  BY <1>1, <2>2, <2>3, <2>4
<1>6. Nothing \notin Messages  BY NoMessage
<1>7. regs.data \in {live.data, Nothing}  BY <1>1 DEF Result, Context
<1>8. Return(ts, regs, "ok")  BY DEF Done
<1>9. Unread = kept
  <2>1. \A p \in 1..MaxQueue : /\ queues[p].live => queues'[p].live
                               /\ Len(queues'[p].messages) >= Len(queues[p].messages)
    <3>1. \A p \in 1..MaxQueue : Len(queues[p].messages) \in Nat
      BY DEF Invs, KernelInv, ObjectsOK
    <3>2. QED  BY <3>1
  <2>2. QED  BY <2>1, SentUnread DEF Invs
<1> HIDE DEF ts, kept, regs
<1>10. kept = owed \cup {message} /\ owed \subseteq Messages /\ fresh \subseteq Messages
  BY DEF kept, Invs, MessageInv, Stored, KernelInv, ObjectsOK
<1>11. \A m : InQueue(queues', m) <=> InQueue(queues, m)  BY DEF InQueue
<1>12. \A m \in owed : InTable(ts, m) <=> InTable(tasks, m)
  BY <1>1, <1>3, <1>4, <1>5, <1>6, <1>10 DEF InTable
<1>13. Stored(queues', ts, kept, fresh')
  <2>1. kept \subseteq Messages /\ kept \cap fresh' = {}
    BY <1>4, <1>10 DEF Invs, MessageInv, Stored
  <2>2. Distinct(queues')  BY DEF Invs, MessageInv, Stored, Distinct
  <2>3. \A m : InQueue(queues', m) => m \in kept /\ ~InTable(ts, m)
    BY <1>10, <1>11, <1>12 DEF Invs, MessageInv, Stored
  <2>4. \A t \in TaskIds : t # u => ts[t].cpu.data # message
    BY <1>4, <1>5 DEF InTable
  <2>5. \A t \in TaskIds, v \in TaskIds :
          ts[t].cpu.data = ts[v].cpu.data /\ ts[t].cpu.data \in kept => t = v
    BY <1>5, <1>10, <2>4 DEF Invs, MessageInv, Stored
  <2>6. \A t \in TaskIds : ts[t].cpu.data \notin fresh'
    BY <1>5 DEF Invs, MessageInv, Stored
  <2>7. QED  BY <2>1, <2>2, <2>3, <2>5, <2>6 DEF Stored
<1>14. \A m \in kept : InQueue(queues', m) \/ InTable(ts, m)
  <2>1. InTable(ts, message)  BY <1>1, <1>5 DEF InTable
  <2>2. QED  BY <1>10, <1>11, <1>12, <2>1 DEF Invs, MessageInv
<1>15. regs.data \notin kept \cup fresh'
  BY <1>4, <1>6, <1>7, <1>10 DEF Invs, MessageInv
<1>16. ts[current].cpu.data \notin kept
  BY <1>1, <1>2, <1>4, <1>5, <1>10 DEF Invs, MessageInv, InTable
<1>17. NotHandedOut(queues', ts, nextQueue', nextTask')
  BY <1>2, <1>5 DEF Invs, MessageInv, NotHandedOut
<1>18. Handing(ts, regs, kept)
  BY <1>13, <1>14, <1>15, <1>16, <1>17 DEF Handing
<1>19. ~(current >= nextTask')
  BY CallerNumber DEF Invs, KernelInv, ObjectsOK
<1>20. QED  BY <1>1, <1>5, <1>8, <1>9, <1>18, <1>19, CodesAre, ReturnMessages DEF Invs

\* Sequence r is s with a message put in at some place.
Gains(r, s, message) ==
  /\ \E k \in DOMAIN r :
       /\ r[k] = message
       /\ \A i \in DOMAIN r : i # k =>
            \E j \in DOMAIN s : r[i] = s[j] /\ j = IF i > k THEN i - 1 ELSE i
  /\ \A j \in DOMAIN s : \E i \in DOMAIN r : r[i] = s[j]

\* At its head or at its end.
LEMMA PutInSequence ==
  ASSUME NEW s \in Seq(Messages), NEW message \in Messages, NEW urgent \in BOOLEAN,
         NEW r, r = IF urgent THEN <<message>> \o s ELSE Append(s, message)
  PROVE  /\ r \in Seq(Messages) /\ Len(r) = Len(s) + 1
         /\ Gains(r, s, message)
<1>1. CASE urgent
  <2>1. r = <<message>> \o s  BY <1>1
  <2>2. r \in Seq(Messages) /\ Len(r) = Len(s) + 1 /\ r[1] = message  BY <2>1
  <2>3. \A i \in DOMAIN r : i # 1 => i - 1 \in DOMAIN s /\ r[i] = s[i - 1] /\ i > 1
    BY <2>1, <2>2
  <2>4. \A j \in DOMAIN s : j + 1 \in DOMAIN r /\ r[j + 1] = s[j]  BY <2>1, <2>2
  <2>5. 1 \in DOMAIN r  BY <2>2
  <2>6. QED  BY <2>2, <2>3, <2>4, <2>5 DEF Gains
<1>2. CASE ~urgent
  <2>1. r = Append(s, message)  BY <1>2
  <2>2. r \in Seq(Messages) /\ Len(r) = Len(s) + 1 /\ r[Len(s) + 1] = message  BY <2>1
  <2>3. \A i \in DOMAIN r : i # Len(s) + 1 =>
          i \in DOMAIN s /\ r[i] = s[i] /\ ~(i > Len(s) + 1)
    BY <2>1, <2>2
  <2>4. \A j \in DOMAIN s : j \in DOMAIN r /\ r[j] = s[j]  BY <2>1, <2>2
  <2>5. Len(s) + 1 \in DOMAIN r  BY <2>2
  <2>6. QED  BY <2>2, <2>3, <2>4, <2>5 DEF Gains
<1>3. QED  BY <1>1, <1>2

\* A message into a queue that nobody waits for.
LEMMA QueueMessage ==
  ASSUME Invs, Follows, NEW q \in 1..MaxQueue, NEW message \in fresh, NEW urgent \in BOOLEAN,
         queues[q].live,
         queues' = [queues EXCEPT ![q].messages =
                      IF urgent THEN <<message>> \o @ ELSE Append(@, message)],
         fresh' = fresh \ {message}, Done(tasks, "ok"), UNCHANGED <<nextQueue, nextTask>>
  PROVE  MessageInv'
<1> DEFINE kept == owed \cup {message}
           regs == Result(Nothing)
           s == queues[q].messages
           r == queues'[q].messages
<1>1. /\ tasks \in [TaskIds -> Task] /\ current \in TaskIds
      /\ live \in Context /\ regs \in Context
  BY ResultNow DEF Invs
<1>2. /\ message \in Messages /\ message \notin owed
      /\ ~InQueue(queues, message) /\ ~InTable(tasks, message) /\ live.data # message
  BY FreshNowhere
<1>3. Nothing \notin Messages /\ regs.data \in {live.data, Nothing}
  BY <1>1, NoMessage DEF Result, Context
<1>4. /\ \A p \in 1..MaxQueue : p # q => queues'[p] = queues[p]
      /\ queues'[q].live
      /\ r = IF urgent THEN <<message>> \o s ELSE Append(s, message)
      /\ s \in Seq(Messages)
  BY DEF Invs, KernelInv, ObjectsOK
<1>5. r \in Seq(Messages) /\ Len(r) = Len(s) + 1 /\ Gains(r, s, message)
  <2> HIDE DEF s, r
  <2>1. QED  BY <1>2, <1>4, PutInSequence
<1>6. Return(tasks, regs, "ok")  BY DEF Done
<1>7. Unread = kept
  <2>1. \A p \in 1..MaxQueue : /\ queues[p].live => queues'[p].live
                               /\ Len(queues'[p].messages) >= Len(queues[p].messages)
    <3>1. \A p \in 1..MaxQueue : Len(queues[p].messages) \in Nat
      BY DEF Invs, KernelInv, ObjectsOK
    <3>2. QED  BY <1>4, <1>5, <3>1
  <2>2. QED  BY <2>1, SentUnread DEF Invs
<1> HIDE DEF kept, regs
<1>8. kept = owed \cup {message} /\ owed \subseteq Messages /\ fresh \subseteq Messages
  BY DEF kept, Invs, MessageInv, Stored, KernelInv, ObjectsOK
<1>9. \A m : InQueue(queues', m) <=> InQueue(queues, m) \/ m = message
  <2>1. PICK k \in DOMAIN r :
          /\ r[k] = message
          /\ \A i \in DOMAIN r : i # k =>
               \E j \in DOMAIN s : r[i] = s[j] /\ j = IF i > k THEN i - 1 ELSE i
    BY <1>5 DEF Gains
  <2>2. ASSUME NEW m, InQueue(queues', m) PROVE InQueue(queues, m) \/ m = message
    BY <1>4, <2>1, <2>2 DEF InQueue
  <2>3. ASSUME NEW m, InQueue(queues, m) PROVE InQueue(queues', m)
    <3>1. PICK p \in 1..MaxQueue : \E i \in DOMAIN queues[p].messages : queues[p].messages[i] = m
      BY <2>3 DEF InQueue
    <3>2. CASE p = q
      <4>1. \E j \in DOMAIN s : s[j] = m  BY <3>1, <3>2
      <4> HIDE DEF s, r
      <4>2. \E i \in DOMAIN r : r[i] = m  BY <1>5, <4>1 DEF Gains
      <4>3. QED  BY <4>2 DEF r, InQueue
    <3>3. CASE p # q  BY <1>4, <3>1, <3>3 DEF InQueue
    <3>4. QED  BY <3>2, <3>3
  <2>4. InQueue(queues', message)  BY <2>1 DEF InQueue
  <2>5. QED  BY <2>2, <2>3, <2>4
<1>10. Distinct(queues')
  <2>1. PICK k \in DOMAIN r :
          /\ r[k] = message
          /\ \A i \in DOMAIN r : i # k =>
               \E j \in DOMAIN s : r[i] = s[j] /\ j = IF i > k THEN i - 1 ELSE i
    BY <1>5 DEF Gains
  <2>2. DOMAIN r = 1..Len(r) /\ DOMAIN s = 1..Len(s) /\ Len(s) \in Nat /\ k \in Int
    BY <1>4, <1>5
  <2> HIDE DEF r, s
  <2>3. Distinct(queues)  BY DEF Invs, MessageInv, Stored
  <2>4. ASSUME NEW p \in 1..MaxQueue, NEW i \in DOMAIN queues[p].messages
        PROVE  queues[p].messages[i] # message
    BY <1>2, <2>4 DEF InQueue
  <2>5. ASSUME NEW i \in DOMAIN r, NEW j \in DOMAIN r, r[i] = r[j] PROVE i = j
    <3>1. \A a \in DOMAIN s, b \in DOMAIN s : s[a] = s[b] => a = b
      BY <2>3 DEF Distinct, s
    <3>2. \A a \in DOMAIN s : s[a] # message  BY <2>4 DEF s
    <3>3. CASE i = k  BY <2>1, <2>5, <3>2, <3>3
    <3>4. CASE j = k  BY <2>1, <2>5, <3>2, <3>4
    <3>5. CASE i # k /\ j # k
      <4>1. (IF i > k THEN i - 1 ELSE i) = (IF j > k THEN j - 1 ELSE j)
        BY <2>1, <2>5, <3>1, <3>5
      <4>2. i \in Int /\ j \in Int  BY <2>2
      <4>3. QED  BY <2>2, <3>5, <4>1, <4>2
    <3>6. QED  BY <3>3, <3>4, <3>5
  <2>6. ASSUME NEW p \in 1..MaxQueue, p # q, NEW i \in DOMAIN queues[p].messages,
               NEW j \in DOMAIN r
        PROVE  queues[p].messages[i] # r[j]
    <3>1. \A a \in DOMAIN s : queues[p].messages[i] # s[a]
      BY <2>3, <2>6 DEF Distinct, s
    <3>2. queues[p].messages[i] # message  BY <2>4
    <3>3. QED  BY <2>1, <3>1, <3>2
  <2>7. SUFFICES ASSUME NEW p1 \in 1..MaxQueue, NEW p2 \in 1..MaxQueue,
                        NEW i \in DOMAIN queues'[p1].messages,
                        NEW j \in DOMAIN queues'[p2].messages,
                        queues'[p1].messages[i] = queues'[p2].messages[j]
                 PROVE  p1 = p2 /\ i = j
    BY DEF Distinct
  <2>8. CASE p1 = q /\ p2 = q  BY <2>5, <2>7, <2>8 DEF r
  <2>9. CASE p1 = q /\ p2 # q  BY <1>4, <2>6, <2>7, <2>9 DEF r
  <2>10. CASE p1 # q /\ p2 = q  BY <1>4, <2>6, <2>7, <2>10 DEF r
  <2>11. CASE p1 # q /\ p2 # q  BY <1>4, <2>3, <2>7, <2>11 DEF Distinct
  <2>12. QED  BY <2>8, <2>9, <2>10, <2>11
<1>11. Stored(queues', tasks, kept, fresh')
  <2>1. kept \subseteq Messages /\ kept \cap fresh' = {}
    BY <1>2, <1>8 DEF Invs, MessageInv, Stored
  <2>2. \A m : InQueue(queues', m) => m \in kept /\ ~InTable(tasks, m)
    BY <1>2, <1>8, <1>9 DEF Invs, MessageInv, Stored
  <2>3. \A t \in TaskIds, u \in TaskIds :
          tasks[t].cpu.data = tasks[u].cpu.data /\ tasks[t].cpu.data \in kept => t = u
    BY <1>2, <1>8 DEF Invs, MessageInv, Stored, InTable
  <2>4. \A t \in TaskIds : tasks[t].cpu.data \notin fresh'
    BY DEF Invs, MessageInv, Stored
  <2>5. QED  BY <1>10, <2>1, <2>2, <2>3, <2>4 DEF Stored
<1>12. \A m \in kept : InQueue(queues', m) \/ InTable(tasks, m)
  BY <1>8, <1>9 DEF Invs, MessageInv
<1>13. regs.data \notin kept \cup fresh'
  BY <1>2, <1>3, <1>8 DEF Invs, MessageInv
<1>14. tasks[current].cpu.data \notin kept
  BY <1>1, <1>2, <1>8 DEF Invs, MessageInv, InTable
<1>15. NotHandedOut(queues', tasks, nextQueue', nextTask')
  <2>1. NotHandedOut(queues, tasks, nextQueue, nextTask)  BY DEF Invs, MessageInv
  <2>2. ~(q >= nextQueue)  BY <2>1 DEF NotHandedOut
  <2>3. QED  BY <1>4, <2>1, <2>2 DEF NotHandedOut
<1>16. Handing(tasks, regs, kept)
  BY <1>11, <1>12, <1>13, <1>14, <1>15 DEF Handing
<1>17. ~(current >= nextTask')
  BY CallerNumber DEF Invs, KernelInv, ObjectsOK
<1>18. QED  BY <1>1, <1>6, <1>7, <1>16, <1>17, CodesAre, ReturnMessages DEF Invs

\* Only a queue that lost its first message equals its own tail.
LEMMA SameIsNotTail ==
  ASSUME NEW s \in Seq(Messages), s # <<>>
  PROVE  s # Tail(s)
<1>1. Len(Tail(s)) < Len(s) /\ Len(s) \in Nat  OBVIOUS
<1>2. QED  BY <1>1

\* The first k messages of queue q are gone.
LEMMA QueueLoses ==
  ASSUME Invs, NEW q \in 1..MaxQueue,
         \A p \in 1..MaxQueue : p # q => queues'[p].messages = queues[p].messages,
         NEW k \in 0..Len(queues[q].messages),
         queues'[q].messages = SubSeq(queues[q].messages, k + 1, Len(queues[q].messages)),
         NEW gone, gone = {queues[q].messages[i] : i \in 1..k}
  PROVE  /\ Distinct(queues')
         /\ \A m : InQueue(queues', m) <=> InQueue(queues, m) /\ m \notin gone
         /\ \A m \in gone : InQueue(queues, m)
<1> DEFINE s == queues[q].messages
           r == queues'[q].messages
<1>1. Distinct(queues) /\ s \in Seq(Messages)
  BY DEF Invs, MessageInv, Stored, KernelInv, ObjectsOK
<1>2. /\ Len(s) \in Nat /\ k \in Nat /\ k <= Len(s)
      /\ DOMAIN s = 1..Len(s) /\ DOMAIN r = 1..(Len(s) - k)
      /\ \A i \in 1..(Len(s) - k) : r[i] = s[i + k]
  <2>1. Len(s) \in Nat /\ k \in Nat /\ k <= Len(s) /\ DOMAIN s = 1..Len(s)  BY <1>1
  <2> DEFINE n == Len(s)
  <2>2. r = SubSeq(s, k + 1, n)  OBVIOUS
  <2> HIDE DEF r, s
  <2>3. Len(r) = n - k /\ r \in Seq(Messages)
    <3>1. \A i \in (k + 1)..n : s[i] \in Messages  BY <1>1, <2>1
    <3> HIDE DEF n
    <3>2. r \in Seq(Messages) /\ Len(r) = IF k + 1 <= n THEN n - (k + 1) + 1 ELSE 0
      BY <2>1, <2>2, <3>1, SubSeqProperties DEF n
    <3>3. n \in Nat /\ k \in Nat /\ k <= n  BY <2>1 DEF n
    <3>4. QED  BY <3>2, <3>3
  <2>4. DOMAIN r = 1..(n - k)  BY <2>3
  <2>5. \A i \in 1..(n - k) : r[i] = s[i + k]  BY <1>1, <2>1, <2>2
  <2>6. QED  BY <2>1, <2>4, <2>5
<1> DEFINE shift(p) == IF p = q THEN k ELSE 0
<1>3. ASSUME NEW p \in 1..MaxQueue, NEW i \in DOMAIN queues'[p].messages
      PROVE  /\ i \in Int /\ i + shift(p) \in DOMAIN queues[p].messages
             /\ queues'[p].messages[i] = queues[p].messages[i + shift(p)]
             /\ p = q => i > 0
  <2>1. CASE p = q
    <3>1. i \in 1..(Len(s) - k)  BY <1>2, <1>3, <2>1
    <3>2. i + k \in DOMAIN s /\ i \in Int /\ i > 0  BY <1>2, <3>1
    <3>3. r[i] = s[i + k]  BY <1>2, <3>1
    <3>4. QED  BY <2>1, <3>2, <3>3
  <2>2. CASE p # q
    <3>1. queues'[p].messages = queues[p].messages  BY <2>2
    <3>2. queues[p].messages \in Seq(Messages)  BY DEF Invs, KernelInv, ObjectsOK
    <3>3. i \in Int /\ i + 0 = i  BY <1>3, <3>1, <3>2
    <3>4. QED  BY <1>3, <2>2, <3>1, <3>3
  <2>3. QED  BY <2>1, <2>2
<1> HIDE DEF shift
<1>4. Distinct(queues')
  <2>1. SUFFICES ASSUME NEW p1 \in 1..MaxQueue, NEW p2 \in 1..MaxQueue,
                        NEW i \in DOMAIN queues'[p1].messages,
                        NEW j \in DOMAIN queues'[p2].messages,
                        queues'[p1].messages[i] = queues'[p2].messages[j]
                 PROVE  p1 = p2 /\ i = j
    BY DEF Distinct
  <2>2. p1 = p2 /\ i + shift(p1) = j + shift(p2)
    BY <1>1, <1>3, <2>1 DEF Distinct
  <2>3. shift(p1) \in Int /\ i \in Int /\ j \in Int  BY <1>2, <1>3 DEF shift
  <2>4. QED  BY <2>2, <2>3
<1>5. ASSUME NEW m, InQueue(queues', m) PROVE InQueue(queues, m) /\ m \notin gone
  <2>1. PICK p \in 1..MaxQueue : \E i \in DOMAIN queues'[p].messages : queues'[p].messages[i] = m
    BY <1>5 DEF InQueue
  <2>2. PICK i \in DOMAIN queues'[p].messages : queues'[p].messages[i] = m  BY <2>1
  <2>3. i + shift(p) \in DOMAIN queues[p].messages /\ queues[p].messages[i + shift(p)] = m
    BY <1>3, <2>2
  <2>4. InQueue(queues, m)  BY <2>3 DEF InQueue
  <2>5. ASSUME NEW j \in 1..k, s[j] = m PROVE FALSE
    <3>1. j \in DOMAIN s  BY <1>2
    <3>2. p = q /\ j = i + shift(p)  BY <1>1, <2>3, <2>5, <3>1 DEF Distinct
    <3>3. i \in Int /\ i > 0 /\ j = i + k  BY <1>3, <3>2 DEF shift
    <3>4. QED  BY <1>2, <3>3
  <2>6. QED  BY <2>4, <2>5
<1>6. ASSUME NEW m, InQueue(queues, m), m \notin gone PROVE InQueue(queues', m)
  <2>1. PICK p \in 1..MaxQueue : \E i \in DOMAIN queues[p].messages : queues[p].messages[i] = m
    BY <1>6 DEF InQueue
  <2>2. PICK i \in DOMAIN queues[p].messages : queues[p].messages[i] = m  BY <2>1
  <2>3. CASE p = q
    <3>1. i \in 1..Len(s) /\ ~(i \in 1..k)  BY <1>2, <1>6, <2>2, <2>3
    <3>2. i - k \in 1..(Len(s) - k) /\ (i - k) + k = i  BY <1>2, <3>1
    <3>3. i - k \in DOMAIN r /\ r[i - k] = m  BY <1>2, <2>2, <2>3, <3>2
    <3>4. QED  BY <3>3 DEF InQueue
  <2>4. CASE p # q  BY <2>2, <2>4 DEF InQueue
  <2>5. QED  BY <2>3, <2>4
<1>7. ASSUME NEW m \in gone PROVE InQueue(queues, m)
  <2>1. PICK j \in 1..k : s[j] = m  OBVIOUS
  <2>2. j \in DOMAIN s  BY <1>2
  <2>3. QED  BY <2>1, <2>2 DEF InQueue
<1>8. QED  BY <1>4, <1>5, <1>6, <1>7

\* A queue loses messages that the step reads or discards, or one that the caller has
\* in its registers when it goes on.
LEMMA LosingHands ==
  ASSUME Invs, NEW gone, Distinct(queues'), fresh' = fresh,
         \A m : InQueue(queues', m) <=> InQueue(queues, m) /\ m \notin gone,
         \A m \in gone : InQueue(queues, m),
         NEW ts, \A t \in TaskIds : ts[t].cpu.data = tasks[t].cpu.data,
         NEW kept, NEW regs, current \in TaskIds,
         \/ kept = owed \ gone /\ (regs.data = live.data \/ regs.data \notin Messages)
         \/ /\ kept = owed /\ gone = {regs.data}
            /\ ts[current].state \in {"Ready", "Running"},
         NotHandedOut(queues', ts, nextQueue', nextTask')
  PROVE  Handing(ts, regs, kept)
<1>1. Stored(queues, tasks, owed, fresh)  BY DEF Invs, MessageInv
<1>2. owed \subseteq Messages /\ gone \subseteq owed /\ kept \subseteq owed
      /\ fresh \subseteq Messages
  BY <1>1 DEF Stored, Invs, KernelInv, ObjectsOK
<1>3. \A m : InTable(ts, m) <=> InTable(tasks, m)  BY DEF InTable
<1>4. \A m : InQueue(queues', m) => m \in kept /\ ~InTable(ts, m)
  BY <1>1, <1>3 DEF Stored
<1>5. Stored(queues', ts, kept, fresh')
  <2>1. \A t \in TaskIds, u \in TaskIds :
          ts[t].cpu.data = ts[u].cpu.data /\ ts[t].cpu.data \in kept => t = u
    BY <1>1, <1>2 DEF Stored
  <2>2. \A t \in TaskIds : ts[t].cpu.data \notin fresh'  BY <1>1 DEF Stored
  <2>3. kept \subseteq Messages /\ kept \cap fresh' = {}  BY <1>1, <1>2 DEF Stored
  <2>4. QED  BY <1>4, <2>1, <2>2, <2>3 DEF Stored
<1>6. \A m \in kept : InQueue(queues', m) \/ InTable(ts, m) \/ m = regs.data
  BY <1>2, <1>3 DEF Invs, MessageInv
<1>7. live.data \notin fresh \cup owed /\ tasks[current].cpu.data \notin owed
  BY DEF Invs, MessageInv
<1>8. regs.data \notin fresh'
  BY <1>1, <1>2, <1>7 DEF Stored
<1>9. regs.data \in kept => /\ ~InQueue(queues', regs.data) /\ ~InTable(ts, regs.data)
                           /\ ts[current].state \in {"Ready", "Running"}
  BY <1>1, <1>2, <1>3, <1>7 DEF Stored
<1>10. ts[current].cpu.data \notin kept  BY <1>2, <1>7
<1>11. QED  BY <1>5, <1>6, <1>8, <1>9, <1>10 DEF Handing

\* A receiver takes the first message: into the registers of the task, or a handler
\* reads it at once.
LEMMA TakeMessage ==
  ASSUME Invs, Follows, NEW q \in 1..MaxQueue, queues[q].messages # <<>>,
         queues' = [queues EXCEPT ![q].messages = Tail(@)],
         Return(tasks, Result(Head(queues[q].messages)), "ok"),
         UNCHANGED <<nextQueue, nextTask, fresh>>
  PROVE  MessageInv'
<1> DEFINE s == queues[q].messages
           h == Head(s)
           gone == {h}
           regs == Result(h)
           kept == IF InHandler THEN owed \ gone ELSE owed
<1>1. /\ s \in Seq(Messages) /\ s # <<>> /\ h \in Messages /\ h = s[1] /\ Len(s) \in Nat
      /\ 1 <= Len(s) /\ Tail(s) = SubSeq(s, 1 + 1, Len(s))
  <2>1. s \in Seq(Messages)  BY DEF Invs, KernelInv, ObjectsOK
  <2>2. Tail(s) = SubSeq(s, 2, Len(s))  BY <2>1, TailIsSubSeq
  <2>3. QED  BY <2>1, <2>2
<1>2. /\ queues \in [1..MaxQueue -> [live: BOOLEAN, byPriority: BOOLEAN, capacity: Nat,
                                     messages: Seq(Messages)]]
      /\ tasks \in [TaskIds -> Task] /\ current \in TaskIds /\ live \in Context
  BY ResultNow DEF Invs, KernelInv, ObjectsOK
<1>3. /\ \A p \in 1..MaxQueue : /\ p # q => queues'[p] = queues[p]
                                /\ queues'[p].live = queues[p].live
      /\ queues'[q].messages = Tail(s)
  BY <1>2
<1>4. regs \in Context /\ regs.data = IF InHandler THEN live.data ELSE h
  <2>1. h \in Data  BY <1>1 DEF Data
  <2>2. regs \in Context  BY <2>1, ResultNow DEF Invs
  <2>3. QED  BY <1>2, <2>2 DEF Result, Context
<1>5. /\ Distinct(queues')
      /\ \A m : InQueue(queues', m) <=> InQueue(queues, m) /\ m \notin gone
      /\ \A m \in gone : InQueue(queues, m)
  <2>1. gone = {s[i] : i \in 1..1}
    <3>1. 1..1 = {1}  OBVIOUS
    <3> HIDE DEF s, h
    <3>2. QED  BY <1>1, <3>1
  <2>2. \A p \in 1..MaxQueue : p # q => queues'[p].messages = queues[p].messages  BY <1>3
  <2>3. 1 \in 0..Len(s)  BY <1>1
  <2>4. queues'[q].messages = SubSeq(s, 1 + 1, Len(s))  BY <1>1, <1>3
  <2> HIDE DEF gone, h
  <2>5. QED  BY <2>1, <2>2, <2>3, <2>4, QueueLoses
<1>6. Accepted = {} /\ Discarded = {}  BY <1>3 DEF Accepted, Discarded
<1>7. HandlerTakes = IF InHandler THEN {h} ELSE {}
  <2>1. ASSUME NEW p \in 1..MaxQueue, p # q, queues[p].messages # <<>>
        PROVE  queues'[p].messages # Tail(queues[p].messages)
    <3>1. queues[p].messages \in Seq(Messages)  BY <1>2
    <3>2. queues'[p].messages = queues[p].messages  BY <1>3, <2>1
    <3>3. QED  BY <2>1, <3>1, <3>2, SameIsNotTail
  <2>2. {p \in 1..MaxQueue : /\ InHandler /\ queues[p].messages # <<>>
                             /\ queues'[p].messages = Tail(queues[p].messages)} =
          IF InHandler THEN {q} ELSE {}
    BY <1>1, <1>3, <2>1
  <2>3. QED  BY <2>2 DEF HandlerTakes
<1>8. Unread = kept  BY <1>1, <1>6, <1>7 DEF Unread
<1>9. NotHandedOut(queues', tasks, nextQueue', nextTask')
  <2>1. NotHandedOut(queues, tasks, nextQueue, nextTask)  BY DEF Invs, MessageInv
  <2>2. ~(q >= nextQueue)  BY <1>1, <2>1 DEF NotHandedOut
  <2>3. QED  BY <1>3, <2>1, <2>2 DEF NotHandedOut
<1>10. tasks[current].state \in {"Ready", "Running"}  BY CallerFree DEF Invs
<1>11. Return(tasks, regs, "ok")  OBVIOUS
<1> DEFINE data == regs.data
<1>12. \/ kept = owed \ gone /\ (data = live.data \/ data \notin Messages)
       \/ kept = owed /\ gone = {data}
  <2>1. CASE InHandler  BY <1>4, <2>1
  <2>2. CASE ~InHandler  BY <1>4, <2>2
  <2>3. QED  BY <2>1, <2>2
<1> HIDE DEF kept, regs, gone, h, s
<1>13. Handing(tasks, regs, kept)
  BY <1>2, <1>5, <1>9, <1>10, <1>12, LosingHands
<1>14. ~(current >= nextTask')  BY CallerNumber DEF Invs, KernelInv, ObjectsOK
<1>15. QED  BY <1>2, <1>4, <1>8, <1>11, <1>13, <1>14, CodesAre, ReturnMessages DEF Invs

\* q_delete: the messages of the queue go with it, and who waits for it is sent away.
LEMMA DeleteMessages ==
  ASSUME Invs, Follows, Q_Delete
  PROVE  MessageInv'
<1>1. PICK q \in 1..MaxQueue :
        /\ queues[q].live
        /\ queues' = [queues EXCEPT ![q] = NoQueue]
        /\ Done([t \in TaskIds |-> IF t \in Waiters("queue", q)
                                     THEN WakeWith(tasks[t], "deleted") ELSE tasks[t]], "ok")
  BY DEF Q_Delete
<1> DEFINE ts == [t \in TaskIds |-> IF t \in Waiters("queue", q)
                                     THEN WakeWith(tasks[t], "deleted") ELSE tasks[t]]
           s == queues[q].messages
           gone == {s[i] : i \in 1..Len(s)}
           kept == owed \ gone
           regs == Result(Nothing)
<1>2. UNCHANGED <<nextTask, nextQueue, fresh>>  BY DEF Q_Delete
<1>3. /\ queues \in [1..MaxQueue -> [live: BOOLEAN, byPriority: BOOLEAN, capacity: Nat,
                                     messages: Seq(Messages)]]
      /\ tasks \in [TaskIds -> Task] /\ current \in TaskIds /\ live \in Context
      /\ regs \in Context
  BY ResultNow DEF Invs, KernelInv, ObjectsOK
<1>4. s \in Seq(Messages) /\ Len(s) \in Nat /\ DOMAIN s = 1..Len(s)  BY <1>3
<1>5. /\ \A p \in 1..MaxQueue : p # q => queues'[p] = queues[p]
      /\ queues'[q].messages = <<>> /\ ~queues'[q].live
  BY <1>1, <1>3 DEF NoQueue
<1>6. /\ ts \in [TaskIds -> Task]
      /\ \A t \in TaskIds : ts[t].cpu.data = tasks[t].cpu.data
  BY <1>3, WakeWithType, WakeData, CodesAre
<1>7. /\ Distinct(queues')
      /\ \A m : InQueue(queues', m) <=> InQueue(queues, m) /\ m \notin gone
      /\ \A m \in gone : InQueue(queues, m)
  <2>1. \A p \in 1..MaxQueue : p # q => queues'[p].messages = queues[p].messages  BY <1>5
  <2>2. queues'[q].messages = SubSeq(s, Len(s) + 1, Len(s))
    <3>1. Len(s) \in Int /\ Len(s) + 1 \in Int /\ Len(s) < Len(s) + 1  BY <1>4
    <3> HIDE DEF s
    <3>2. SubSeq(s, Len(s) + 1, Len(s)) = <<>>  BY <3>1, SubSeqEmpty
    <3>3. QED  BY <1>5, <3>2
  <2>3. Len(s) \in 0..Len(s)  BY <1>4
  <2>4. gone = {s[i] : i \in 1..Len(s)}  OBVIOUS
  <2> HIDE DEF gone
  <2>5. QED  BY <2>1, <2>2, <2>3, <2>4, QueueLoses
<1>8. Accepted = {} /\ Discarded = gone
  <2>1. {p \in 1..MaxQueue : queues[p].live /\ ~queues'[p].live} = {q}  BY <1>1, <1>5
  <2>2. {queues[q].messages[i] : i \in DOMAIN queues[q].messages} = gone  BY <1>4
  <2> HIDE DEF gone
  <2>3. Discarded = gone  BY <2>1, <2>2 DEF Discarded
  <2>4. QED  BY <1>2, <2>3 DEF Accepted
<1>9. HandlerTakes \subseteq gone
  <2>1. ASSUME NEW p \in 1..MaxQueue, p # q, queues[p].messages # <<>>
        PROVE  queues'[p].messages # Tail(queues[p].messages)
    <3>1. queues[p].messages \in Seq(Messages)  BY <1>3
    <3>2. queues'[p].messages = queues[p].messages  BY <1>5, <2>1
    <3>3. QED  BY <2>1, <3>1, <3>2, SameIsNotTail
  <2>2. s # <<>> => Head(s) \in gone
    <3>1. s # <<>> => Head(s) = s[1] /\ 1 \in 1..Len(s)  BY <1>4
    <3>2. QED  BY <3>1
  <2> HIDE DEF gone
  <2>3. QED  BY <2>1, <2>2 DEF HandlerTakes
<1>10. owed \subseteq Messages  BY DEF Invs, MessageInv, Stored
<1>11. Unread = kept
  <2> HIDE DEF gone
  <2>1. QED  BY <1>8, <1>9 DEF Unread
<1>12. NotHandedOut(queues', ts, nextQueue', nextTask')
  BY <1>2, <1>5, <1>6 DEF Invs, MessageInv, NotHandedOut
<1>13. regs.data \in {live.data, Nothing}  BY <1>3 DEF Result, Context
<1>14. Return(ts, regs, "ok")  BY <1>1 DEF Done
<1> DEFINE data == regs.data
<1>15. kept = owed \ gone /\ (data = live.data \/ data \notin Messages)
  BY <1>13, NoMessage
<1> HIDE DEF kept, regs, gone, s, ts
<1>16. Handing(ts, regs, kept)
  BY <1>2, <1>3, <1>6, <1>7, <1>12, <1>15, LosingHands
<1>17. ~(current >= nextTask')  BY <1>2, CallerNumber DEF Invs, KernelInv, ObjectsOK
<1>18. QED  BY <1>3, <1>6, <1>11, <1>14, <1>16, <1>17, CodesAre, ReturnMessages DEF Invs

\* Queues.
LEMMA QueueServicesMessages ==
  ASSUME Invs, Follows, QueueServices
  PROVE  MessageInv'
<1>1. nextTask' = nextTask
  BY DEF QueueServices, Q_Create, Q_Delete, Q_Send, Q_Urgent, Q_Broadcast, Q_Receive
<1>2. nextTask' \in Nat /\ nextTask' >= nextTask  BY <1>1 DEF Invs, KernelInv, ObjectsOK
<1>3. /\ queues \in [1..MaxQueue -> [live: BOOLEAN, byPriority: BOOLEAN, capacity: Nat,
                                     messages: Seq(Messages)]]
      /\ nextQueue \in Nat /\ \A q \in 1..MaxQueue : q \in Nat
      /\ tasks \in [TaskIds -> Task]
  BY ResultNow, KernelAssumption DEF Invs, KernelInv, ObjectsOK
<1>4. ASSUME UNCHANGED <<queues, nextQueue, fresh>>, NEW code \in Codes, Done(tasks, code)
      PROVE  MessageInv'
  BY <1>2, <1>4, UntouchedQuiet, TableMessages DEF Invs
<1>5. CASE Q_Create
  <2>1. ASSUME NEW new, new.messages = <<>>, nextQueue <= MaxQueue,
               queues' = [queues EXCEPT ![nextQueue] = new], nextQueue' = nextQueue + 1
        PROVE  Quiet
    <3>1. NotHandedOut(queues, tasks, nextQueue, nextTask)  BY DEF Invs, MessageInv
    <3>2. \A q \in 1..MaxQueue : q # nextQueue => queues'[q] = queues[q]  BY <1>3, <2>1
    <3>3. \A q \in 1..MaxQueue : q = nextQueue =>
            /\ queues'[q].messages = <<>> /\ queues[q].messages = <<>> /\ ~queues[q].live
            /\ ~(q >= nextQueue')
      BY <1>3, <2>1, <3>1 DEF NotHandedOut
    <3>4. \A q \in 1..MaxQueue : q >= nextQueue' => q >= nextQueue  BY <1>3, <2>1
    <3>5. fresh' = fresh  BY <1>5 DEF Q_Create
    <3>6. QED  BY <3>1, <3>2, <3>3, <3>4, <3>5 DEF NotHandedOut, Quiet
  <2>2. ASSUME Quiet, Done(tasks, "ok") PROVE MessageInv'
    BY <1>2, <2>2, CodesAre, TableMessages
  <2>3. QED  BY <1>4, <1>5, <2>1, <2>2, CodesAre DEF Q_Create
<1>6. CASE Q_Delete  BY <1>6, DeleteMessages
<1>7. CASE Q_Send \/ Q_Urgent
  <2>1. PICK q \in 1..MaxQueue, message \in fresh, urgent \in BOOLEAN :
          Q_Put(q, message, urgent)
    BY <1>7 DEF Q_Send, Q_Urgent
  <2>2. nextQueue' = nextQueue  BY <1>7 DEF Q_Send, Q_Urgent
  <2>3. CASE \E u \in Waiters("queue", q) : /\ Done(Deliver({u}, message), "ok")
                                           /\ fresh' = fresh \ {message} /\ UNCHANGED queues
    BY <1>1, <2>2, <2>3, DeliverMessage
  <2>4. CASE /\ queues' = [queues EXCEPT ![q].messages =
                              IF urgent THEN <<message>> \o @ ELSE Append(@, message)]
             /\ fresh' = fresh \ {message} /\ Done(tasks, "ok")
    BY <1>1, <2>1, <2>2, <2>4, QueueMessage DEF Q_Put
  <2>5. CASE Done(tasks, "refused") /\ UNCHANGED <<queues, fresh>>
    BY <1>4, <2>2, <2>5, CodesAre
  <2>6. QED  BY <2>1, <2>3, <2>4, <2>5 DEF Q_Put
<1>8. CASE Q_Broadcast
  <2>1. PICK q \in 1..MaxQueue, notice \in Notices :
          Done(Deliver(Waiters("queue", q), notice), "ok")
    BY <1>8 DEF Q_Broadcast
  <2> DEFINE ts == Deliver(Waiters("queue", q), notice)
  <2>2. notice \in Data  BY DEF Data
  <2>3. \A t \in TaskIds : /\ Wake(tasks[t], "ok", notice) \in Task
                           /\ Wake(tasks[t], "ok", notice).cpu.data = notice
    BY <1>3, <2>2, WakeType, WakeEnds, CodesAre
  <2>4. ts \in [TaskIds -> Task]  BY <1>3, <2>3 DEF Deliver
  <2>5. \A t \in TaskIds : \/ ts[t].cpu.data = tasks[t].cpu.data
                           \/ tasks[t].wait.on = "queue" /\ ts[t].cpu.data = notice
    BY <2>3 DEF Deliver, Waiters
  <2> HIDE DEF ts
  <2>6. Harmless(ts)  BY <1>1, <2>5, NoMessage, WakesHarmless
  <2>7. Quiet  BY <1>8, UntouchedQuiet DEF Q_Broadcast, objects, Invs
  <2>8. Done(ts, "ok")  BY <2>1 DEF ts
  <2>9. QED  BY <1>2, <2>4, <2>6, <2>7, <2>8, CodesAre, HarmlessDone
<1>9. CASE Q_Receive
  <2>1. PICK q \in 1..MaxQueue :
          \/ /\ queues[q].messages # <<>>
             /\ queues' = [queues EXCEPT ![q].messages = Tail(@)]
             /\ Return(tasks, Result(Head(queues[q].messages)), "ok")
          \/ Done(tasks, "refused") /\ UNCHANGED queues
          \/ /\ UNCHANGED queues
             /\ \E timeout \in 0..MaxTimeout :
                  Done(Block(tasks, WaitFor("queue", q), timeout), "ok")
    BY <1>9 DEF Q_Receive
  <2>2. nextQueue' = nextQueue /\ fresh' = fresh  BY <1>9 DEF Q_Receive
  <2>3. WaitFor("queue", q) \in Wait
    <3>1. q \in Nat  BY <1>3
    <3>2. QED  BY <3>1, WaitForType
  <2>4. UNCHANGED queues => Quiet  BY <2>2, UntouchedQuiet DEF Invs
  <2>5. QED
    BY <1>1, <1>4, <2>1, <2>2, <2>3, <2>4, CodesAre, TakeMessage, BlockMessages
<1>10. QED  BY <1>5, <1>6, <1>7, <1>8, <1>9 DEF QueueServices

-----------------------------------------------------------------------------
(***************************************************************************)
(* Theorems.                                                               *)
(***************************************************************************)

\* At boot nothing was sent.
LEMMA InitMessages == MessageInit => MessageInv
<1> SUFFICES ASSUME Init, owed = {} PROVE MessageInv
  BY DEF MessageInit
<1>1. /\ \A q \in 1..MaxQueue : queues[q].messages = <<>> /\ ~queues[q].live
      /\ \A t \in TaskIds : tasks[t].cpu.data = Nothing
      /\ live.data = Nothing /\ fresh = Messages
  BY DEF Init, NoQueue, NoTask, EmptyContext
<1>2. current \in TaskIds  BY RootIdle DEF Init
<1>3. \A m : ~InQueue(queues, m)  BY <1>1 DEF InQueue
<1>4. Distinct(queues)  BY <1>1 DEF Distinct
<1>5. QED  BY <1>1, <1>2, <1>3, <1>4, NoMessage DEF MessageInv, Stored, NotHandedOut

\* No step leaves the invariant.
LEMMA NextMessages ==
  ASSUME KernelInv, DisciplineInv, MessageInv, [MessageNext]_<<vars, owed>>
  PROVE  MessageInv'
<1>1. Invs  BY DEF Invs
<1>2. CASE UNCHANGED <<vars, owed>>
  BY <1>2 DEF vars, MessageInv, Stored, Distinct, InQueue, InTable, NotHandedOut
<1>3. CASE MessageNext
  <2>1. Follows  BY <1>3 DEF MessageNext, Follows
  <2>2. Next  BY <1>3 DEF MessageNext
  <2>3. CASE Host \/ Guest  BY <1>1, <2>1, <2>3, HostGuestMessages
  <2>4. CASE Stopped  BY <1>1, <2>1, <2>4, HostGuestMessages DEF Stopped
  <2>5. CASE TaskServices  BY <1>1, <2>1, <2>5, TaskServicesMessages
  <2>6. CASE QueueServices  BY <1>1, <2>1, <2>6, QueueServicesMessages
  <2>7. CASE EventServices \/ SemaphoreServices \/ TimeServices
    BY <1>1, <2>1, <2>7, OtherServicesMessages
  <2>8. QED  BY <2>2, <2>3, <2>4, <2>5, <2>6, <2>7 DEF Next
<1>4. QED  BY <1>2, <1>3

\* A message that has one place is counted once.
LEMMA CountOnce ==
  ASSUME KernelInv, MessageInv
  PROVE  EachMessageOnce
<1>1. \A q \in 1..MaxQueue : \A i \in DOMAIN queues[q].messages : queues[q].messages[i] \in owed
  BY DEF MessageInv, Stored, InQueue
<1>2. ASSUME NEW m \in owed
      PROVE  Cardinality(InQueues(m)) + Cardinality(InContexts(m)) = 1
  <2>1. Distinct(queues) /\ tasks[current].cpu.data # m  BY DEF MessageInv, Stored
  <2>2. CASE InQueue(queues, m)
    <3>1. PICK q \in 1..MaxQueue : \E i \in DOMAIN queues[q].messages : queues[q].messages[i] = m
      BY <2>2 DEF InQueue
    <3>2. PICK i \in DOMAIN queues[q].messages : queues[q].messages[i] = m  BY <3>1
    <3>3. InQueues(m) = {<<q, i>>}
      <4>1. \A p \in 1..MaxQueue : \A j \in DOMAIN queues[p].messages :
              queues[p].messages[j] = m => p = q /\ j = i
        BY <2>1, <3>2 DEF Distinct
      <4>2. <<q, i>> \in InQueues(m)  BY <3>2 DEF InQueues
      <4>3. ASSUME NEW place \in InQueues(m) PROVE place = <<q, i>>
        BY <4>1 DEF InQueues
      <4>4. QED  BY <4>2, <4>3
    <3>4. InContexts(m) = {}
      BY <2>2 DEF InContexts, MessageInv, Stored, InTable
    <3>5. Cardinality(InQueues(m)) = 1 /\ Cardinality(InContexts(m)) = 0
      BY <3>3, <3>4, FS_Singleton, FS_EmptySet
    <3>6. QED  BY <3>5
  <2>3. CASE ~InQueue(queues, m)
    <3>1. InQueues(m) = {}  BY <2>3 DEF InQueues, InQueue
    <3>2. PICK t \in TaskIds : tasks[t].cpu.data = m
      BY <2>3 DEF MessageInv, InTable
    <3>3. t # current  BY <2>1, <3>2
    <3>4. InContexts(m) = {t}
      BY <3>2, <3>3 DEF InContexts, MessageInv, Stored
    <3>5. Cardinality(InQueues(m)) = 0 /\ Cardinality(InContexts(m)) = 1
      BY <3>1, <3>4, FS_Singleton, FS_EmptySet
    <3>6. QED  BY <3>5
  <2>4. QED  BY <2>2, <2>3
<1>3. QED  BY <1>1, <1>2 DEF EachMessageOnce

\* The messages are part of a run of the kernel.
LEMMA MessageSteps == MessageSpec => Spec
<1>1. MessageInit => Init  BY DEF MessageInit
<1>2. [MessageNext]_<<vars, owed>> => [Next]_vars  BY DEF MessageNext
<1>3. QED  BY <1>1, <1>2, PTL DEF MessageSpec, Spec

\* What is owed is in one place, and what is in a queue is owed, in every state.
THEOREM MessagesInvariant ==
  ASSUME Disciplined PROVE MessageSpec => []MessageInv
<1>1. MessageInit => MessageInv  BY InitMessages
<1>2. KernelInv /\ DisciplineInv /\ MessageInv /\ [MessageNext]_<<vars, owed>> => MessageInv'
  BY NextMessages
<1>3. QED
  BY <1>1, <1>2, MessageSteps, KernelInvariant, KernelDiscipline, PTL DEF MessageSpec

\* A message the kernel accepted is in exactly one position of one queue or in the saved
\* registers of one task until that task reads it, and no queue holds a message that was
\* read: none is lost, doubled or delivered twice, for any number of tasks, queues and
\* messages and whatever services the guest calls.
THEOREM MessagesOnce ==
  ASSUME Disciplined PROVE MessageSpec => []EachMessageOnce
<1>1. KernelInv /\ MessageInv => EachMessageOnce  BY CountOnce
<1>2. QED  BY <1>1, MessageSteps, KernelInvariant, MessagesInvariant, PTL
-----------------------------------------------------------------------------
(***************************************************************************)
(* Proof that the units of a semaphore are conserved (PsosMutex), for any  *)
(* number of tasks and units, when the guest leaves waiting tasks alone.   *)
(*                                                                         *)
(* The count and the owners change together only in sm_p and sm_v on the   *)
(* semaphore.  Everything else must leave alone what makes a task an owner *)
(* a task that has called sm_p and not read D0 yet waits for this          *)
(* semaphore or for nothing, so nothing but sm_v and a time-out ends its   *)
(* wait, and its return code is saved and restored with its registers.     *)
(***************************************************************************)

OnLock(task) == task.wait.on = "semaphore" /\ task.wait.object = Lock

\* What the tasks of a table wait for: those that called sm_p and have not read D0
\* wait for Lock or for nothing, the others not for Lock.  A user of Lock exists.
LockUse(ts, sec) ==
  \A t \in TaskIds :
    /\ OnLock(ts[t]) => sec[t] = "asked"
    /\ sec[t] = "asked" /\ ts[t].wait.on # "none" => OnLock(ts[t])
    /\ sec[t] # "out" => ts[t].state \notin {"Dead", "Absent"}

\* A table whose task on the CPU has the registers `regs`.
Owner(ts, regs, sec, t) ==
  \/ sec[t] = "in"
  \/ /\ sec[t] = "asked" /\ ts[t].wait.on = "none"
     /\ IF t = current THEN regs.code = "ok" ELSE ts[t].cpu.code = "ok"

Owners(ts, regs, sec) == {t \in TaskIds : Owner(ts, regs, sec, t)}
OwnersNow == {t \in TaskIds : Owns(t)}

\* The inductive invariant, together with those of the kernel.
MutexInv ==
  /\ section \in [TaskIds -> {"out", "asked", "in"}]
  /\ LockUse(tasks, section)
  /\ phase = "trapTick" /\ ~InHandler => section[current] # "asked"
  /\ IF semaphores[Lock].live
     THEN semaphores[Lock].count + Cardinality(OwnersNow) = Units
     ELSE \A t \in TaskIds : section[t] = "out"

Premises == KernelInv /\ DisciplineInv /\ GivenOut /\ MutexInv
-----------------------------------------------------------------------------
(***************************************************************************)
(* A switch changes no owner.                                              *)
(***************************************************************************)

\* The owners of the table that is handed to `schedule` are the owners afterwards: the
\* return code goes with the registers.
LEMMA ScheduleOwners ==
  ASSUME NEW ts \in [TaskIds -> Task], NEW regs \in Context, NEW force,
         current \in TaskIds, Schedule(ts, regs, force), LockUse(ts, section')
  PROVE  LockUse(tasks', section') /\ OwnersNow' = Owners(ts, regs, section')
<1>1. \A t \in TaskIds : SameTask(tasks'[t], ts[t])  BY ScheduleEffect
<1>2. LockUse(tasks', section')
  <2>1. SUFFICES ASSUME NEW t \in TaskIds
                 PROVE  /\ OnLock(tasks'[t]) => section'[t] = "asked"
                        /\ section'[t] = "asked" /\ tasks'[t].wait.on # "none" => OnLock(tasks'[t])
                        /\ section'[t] # "out" => tasks'[t].state \notin {"Dead", "Absent"}
    BY DEF LockUse
  <2>2. tasks'[t].wait = ts[t].wait  BY <1>1 DEF SameTask
  <2>3. tasks'[t].state \in {"Dead", "Absent"} => tasks'[t].state = ts[t].state
    BY <1>1 DEF SameTask
  <2>4. QED  BY <2>2, <2>3 DEF LockUse, OnLock
<1>3. ASSUME NEW t \in TaskIds, section'[t] = "asked"
      PROVE  CodeOf(t)' = IF t = current THEN regs.code ELSE ts[t].cpu.code
  <2>1. ts[t].state # "Dead"  BY <1>3 DEF LockUse
  <2>2. CASE tasks' = ts /\ live' = regs /\ current' = current  BY <2>2 DEF CodeOf
  <2>3. CASE \E b \in TaskIds : IsBest(ts, b) /\ ~Keeps(ts, regs, b, force) /\ SwitchTo(ts, regs, b)
    <3>1. PICK b \in TaskIds : ~Keeps(ts, regs, b, force) /\ SwitchTo(ts, regs, b)  BY <2>3
    <3>2. b # current  BY <3>1 DEF Keeps
    <3>3. /\ current' = b /\ live' = ts[b].cpu
          /\ tasks' = [ts EXCEPT ![current] = IF ts[current].state = "Dead" THEN ts[current]
                                              ELSE [ts[current] EXCEPT !.cpu = regs,
                                                      !.state = IF @ = "Running" THEN "Ready" ELSE @],
                                 ![b].state = "Running"]
      BY <3>1 DEF SwitchTo
    <3>4. CASE t = b  BY <3>2, <3>3, <3>4 DEF CodeOf
    <3>5. CASE t = current
      <4>1. tasks'[t].cpu = regs  BY <2>1, <3>2, <3>3, <3>5 DEF Task
      <4>2. QED  BY <3>2, <3>3, <3>5, <4>1 DEF CodeOf
    <3>6. CASE t # b /\ t # current  BY <3>3, <3>6 DEF CodeOf
    <3>7. QED  BY <3>4, <3>5, <3>6
  <2>4. QED  BY <2>2, <2>3 DEF Schedule
<1>4. ASSUME NEW t \in TaskIds PROVE Owns(t)' <=> Owner(ts, regs, section', t)
  <2>1. tasks'[t].wait = ts[t].wait  BY <1>1 DEF SameTask
  <2>2. CASE section'[t] = "asked"  BY <1>3, <2>1, <2>2 DEF Owns, Owner
  <2>3. CASE section'[t] # "asked"  BY <2>3 DEF Owns, Owner
  <2>4. QED  BY <2>2, <2>3
<1>5. QED  BY <1>2, <1>4 DEF OwnersNow, Owners

\* The same for the end of a TRAP #11, which writes the return code of a task.
LEMMA ReturnOwners ==
  ASSUME NEW ts \in [TaskIds -> Task], NEW regs \in Context, NEW code \in Codes,
         current \in TaskIds, Return(ts, regs, code), LockUse(ts, section')
  PROVE  /\ LockUse(tasks', section') /\ phase' = "host"
         /\ OwnersNow' = Owners(ts, IF InHandler THEN regs ELSE [regs EXCEPT !.code = code],
                                section')
<1> DEFINE out == IF InHandler THEN regs ELSE [regs EXCEPT !.code = code]
           task == [ts[current] EXCEPT !.cpu = out]
           saved == IF ts[current].state = "Blocked" THEN [ts EXCEPT ![current] = task] ELSE ts
<1>1. out \in Context  BY DEF Context
<1> HIDE DEF out
<1>2. /\ task \in Task /\ task.state = ts[current].state /\ task.wait = ts[current].wait
  BY <1>1 DEF Task
<1> HIDE DEF task
<1>3. /\ saved \in [TaskIds -> Task]
      /\ \A t \in TaskIds : saved[t].state = ts[t].state /\ saved[t].wait = ts[t].wait
      /\ \A t \in TaskIds : t # current => saved[t] = ts[t]
  BY <1>2
<1>4. Schedule(saved, out, ~Runnable(saved[current])) /\ phase' = "host"
  BY DEF Return, saved, task, out
<1> HIDE DEF saved
<1>5. LockUse(saved, section')  BY <1>3 DEF LockUse, OnLock
<1>6. LockUse(tasks', section') /\ OwnersNow' = Owners(saved, out, section')
  BY <1>1, <1>3, <1>4, <1>5, ScheduleOwners
<1>7. Owners(saved, out, section') = Owners(ts, out, section')
  BY <1>3 DEF Owners, Owner
<1>8. QED  BY <1>4, <1>6, <1>7 DEF out
-----------------------------------------------------------------------------
(***************************************************************************)
(* Steps that spare the users of Lock.                                     *)
(***************************************************************************)

\* What such a step does to a task: it leaves state, wait and return code as they are,
\* or ends its wait, and a wait for Lock only with another code than "ok".
Benign(new, old) ==
  \/ new.state = old.state /\ new.wait = old.wait /\ new.cpu.code = old.cpu.code
  \/ /\ old.wait.on # "none" /\ new.wait.on = "none" /\ new.state = "Ready"
     /\ OnLock(old) => new.cpu.code # "ok"

\* A task that does not use Lock may be changed at will, but not made to wait for it.
Spares(ts) ==
  \A t \in TaskIds : \/ Benign(ts[t], tasks[t])
                     \/ section[t] = "out" /\ ~OnLock(ts[t])
                     \/ section[t] = "in" /\ ~OnLock(ts[t]) /\ ts[t].state \notin {"Dead", "Absent"}

\* Such a table has the owners of the one before.
LEMMA SparesOwners ==
  ASSUME Premises, UNCHANGED section, NEW ts, Spares(ts), NEW regs, regs.code = live.code
  PROVE  /\ LockUse(ts, section') /\ Owners(ts, regs, section') = OwnersNow
<1>1. /\ LockUse(tasks, section) /\ tasks[current].wait.on = "none" /\ current \in TaskIds
  BY CallerFree DEF Premises, MutexInv
<1>2. ASSUME NEW t \in TaskIds
      PROVE  /\ OnLock(ts[t]) => section[t] = "asked"
             /\ section[t] = "asked" /\ ts[t].wait.on # "none" => OnLock(ts[t])
             /\ section[t] # "out" => ts[t].state \notin {"Dead", "Absent"}
             /\ Owner(ts, regs, section, t) <=> Owns(t)
  <2>1. /\ OnLock(tasks[t]) => section[t] = "asked"
        /\ section[t] = "asked" /\ tasks[t].wait.on # "none" => OnLock(tasks[t])
        /\ section[t] # "out" => tasks[t].state \notin {"Dead", "Absent"}
    BY <1>1 DEF LockUse
  <2>2. CASE section[t] # "asked"
    BY <2>1, <2>2 DEF Spares, Benign, Owner, Owns, OnLock
  <2>3. CASE section[t] = "asked"
    <3>1. Benign(ts[t], tasks[t])  BY <2>3 DEF Spares
    <3>2. CASE ts[t].state = tasks[t].state /\ ts[t].wait = tasks[t].wait
               /\ ts[t].cpu.code = tasks[t].cpu.code
      BY <2>1, <2>3, <3>2 DEF Owner, Owns, CodeOf, OnLock
    <3>3. CASE /\ tasks[t].wait.on # "none" /\ ts[t].wait.on = "none" /\ ts[t].state = "Ready"
               /\ OnLock(tasks[t]) => ts[t].cpu.code # "ok"
      <4>1. t # current  BY <1>1, <3>3
      <4>2. QED  BY <2>1, <2>3, <3>3, <4>1 DEF Owner, Owns, CodeOf, OnLock
    <3>4. QED  BY <3>1, <3>2, <3>3 DEF Benign
  <2>4. QED  BY <2>2, <2>3
<1>3. QED  BY <1>2 DEF LockUse, Owners, OwnersNow

\* The end of a step that leaves the owners and the count alone.
LEMMA OwnersKept ==
  ASSUME Premises, UNCHANGED section, LockUse(tasks', section'), OwnersNow' = OwnersNow,
         semaphores'[Lock] = semaphores[Lock],
         phase' = "trapTick" /\ ~InHandler' => section[current'] # "asked"
  PROVE  MutexInv'
BY DEF Premises, MutexInv

\* A step without a trap, and one with.
LEMMA SparedSchedule ==
  ASSUME Premises, UNCHANGED section, semaphores'[Lock] = semaphores[Lock], phase' # "trapTick",
         NEW ts \in [TaskIds -> Task], Spares(ts), NEW regs \in Context,
         regs.code = live.code, NEW force, Schedule(ts, regs, force)
  PROVE  MutexInv'
<1>1. current \in TaskIds  BY CallerFree DEF Premises
<1>2. LockUse(ts, section') /\ Owners(ts, regs, section') = OwnersNow  BY SparesOwners
<1>3. LockUse(tasks', section') /\ OwnersNow' = OwnersNow  BY <1>1, <1>2, ScheduleOwners
<1>4. QED  BY <1>3, OwnersKept

LEMMA SparedReturn ==
  ASSUME Premises, UNCHANGED section, semaphores'[Lock] = semaphores[Lock],
         NEW ts \in [TaskIds -> Task], Spares(ts), NEW regs \in Context,
         regs.code = live.code, NEW code \in Codes, Return(ts, regs, code),
         section[current] # "asked" \/ InHandler
  PROVE  MutexInv'
<1> DEFINE out == IF InHandler THEN regs ELSE [regs EXCEPT !.code = code]
<1>1. current \in TaskIds  BY CallerFree DEF Premises
<1>2. LockUse(ts, section') /\ Owners(ts, regs, section') = OwnersNow  BY SparesOwners
<1>3. LockUse(tasks', section') /\ phase' = "host" /\ OwnersNow' = Owners(ts, out, section')
  BY <1>1, <1>2, ReturnOwners
<1>4. Owners(ts, out, section') = Owners(ts, regs, section')
  BY DEF Owners, Owner
<1>5. QED  BY <1>2, <1>3, <1>4, OwnersKept

LEMMA SparedDone ==
  ASSUME Premises, UNCHANGED section, semaphores'[Lock] = semaphores[Lock],
         NEW ts \in [TaskIds -> Task], Spares(ts), NEW code \in Codes, Done(ts, code),
         section[current] # "asked" \/ InHandler
  PROVE  MutexInv'
<1>1. Result(Nothing) \in Context /\ Result(Nothing).code = live.code
  BY ResultNow DEF Premises, Result, Context
<1>2. QED  BY <1>1, SparedReturn DEF Done
-----------------------------------------------------------------------------
(***************************************************************************)
(* What the operators of the kernel do to the users of Lock.               *)
(***************************************************************************)

LEMMA SameBenign ==
  ASSUME NEW old, NEW new, new.state = old.state, new.wait = old.wait,
         new.cpu.code = old.cpu.code
  PROVE  Benign(new, old)
BY DEF Benign

LEMMA TableSpared == Spares(tasks)
BY SameBenign DEF Spares

LEMMA ElapseBenign ==
  ASSUME NEW task \in Task, Waits(task)
  PROVE  Benign(Elapse(task), task)
<1>1. CASE Expires(task)
  <2> DEFINE code == IF task.wait.on = "sleep" THEN "ok" ELSE "timeout"
  <2>1. Elapse(task) = Wake(task, code, task.cpu.data)  BY <1>1 DEF Elapse, WakeWith
  <2>2. task.wait.on # "none"  BY <1>1 DEF Expires, Waits
  <2>3. OnLock(task) => code # "ok"  BY DEF OnLock
  <2> HIDE DEF code
  <2>4. QED  BY <2>1, <2>2, <2>3, WakeEnds DEF Benign, NotWaiting
<1>2. CASE ~Expires(task)  BY <1>2 DEF Elapse, Benign, Task
<1>3. QED  BY <1>1, <1>2

LEMMA SendEventBenign ==
  ASSUME Premises, NEW u \in TaskIds, NEW bits \in SUBSET Events
  PROVE  SendEvent(tasks, u, bits) \in [TaskIds -> Task] /\ Spares(SendEvent(tasks, u, bits))
<1>1. tasks \in [TaskIds -> Task]  BY ResultNow DEF Premises
<1> DEFINE have == tasks[u].events \cup bits
           got == have \cap tasks[u].wait.want
           rest == [tasks[u] EXCEPT !.events = have \ got]
           woken == Wake(rest, "ok", got)
           kept == [tasks[u] EXCEPT !.events = have]
<1>2. tasks[u] \in Task /\ rest \in Task  BY <1>1 DEF Task
<1>3. Benign(kept, tasks[u])  BY <1>2 DEF Task, Benign
<1>4. woken.state = "Ready" /\ woken.wait.on = "none"  BY <1>2, WakeEnds DEF NotWaiting
<1>5. tasks[u].wait.on = "events" => Benign(woken, tasks[u])  BY <1>4 DEF Benign, OnLock
<1>6. /\ SendEvent(tasks, u, bits) =
           [tasks EXCEPT ![u] = IF tasks[u].wait.on = "events"
                                   /\ Satisfied(have, tasks[u].wait.want, tasks[u].wait.any)
                                THEN woken ELSE kept]
  BY <1>1 DEF SendEvent
<1>7. SendEvent(tasks, u, bits) \in [TaskIds -> Task]  BY <1>1, SendEventType
<1> HIDE DEF woken, kept, rest, got, have
<1>8. ASSUME NEW t \in TaskIds PROVE Benign(SendEvent(tasks, u, bits)[t], tasks[t])
  BY <1>1, <1>3, <1>5, <1>6, SameBenign
<1>9. QED  BY <1>7, <1>8 DEF Spares

\* Wake-ups of tasks that wait for something else than Lock.
LEMMA WakesSpared ==
  ASSUME Premises, NEW ts, NEW to \in SUBSET TaskIds,
         \A t \in to : tasks[t].wait.on # "none" /\ ~OnLock(tasks[t]),
         \A t \in TaskIds : IF t \in to THEN ts[t].wait = NotWaiting /\ ts[t].state = "Ready"
                            ELSE ts[t] = tasks[t]
  PROVE  Spares(ts)
BY DEF Spares, Benign, NotWaiting

\* The record of one task is replaced.
LEMMA UpdateSpared ==
  ASSUME Premises, NEW u \in TaskIds, NEW task \in Task,
         \/ Benign(task, tasks[u])
         \/ section[u] = "out" /\ ~OnLock(task)
         \/ section[u] = "in" /\ ~OnLock(task) /\ task.state \notin {"Dead", "Absent"}
  PROVE  /\ [tasks EXCEPT ![u] = task] \in [TaskIds -> Task]
         /\ Spares([tasks EXCEPT ![u] = task])
<1>1. tasks \in [TaskIds -> Task]  BY ResultNow DEF Premises
<1>2. QED  BY <1>1, SameBenign DEF Spares

\* The caller waits for something else than Lock.
LEMMA BlockSpared ==
  ASSUME Premises, section[current] # "asked", NEW wait \in Wait, NEW timeout \in 0..MaxTimeout,
         ~(wait.on = "semaphore" /\ wait.object = Lock)
  PROVE  /\ Block(tasks, wait, timeout) \in [TaskIds -> Task]
         /\ Spares(Block(tasks, wait, timeout))
<1> DEFINE new == [tasks[current] EXCEPT !.state = "Blocked", !.wait = wait, !.left = timeout]
<1>1. Block(tasks, wait, timeout) = [tasks EXCEPT ![current] = new]  BY DEF Block
<1>2. tasks[current] \in Task /\ current \in TaskIds  BY ResultNow DEF Premises
<1>3. new \in Task /\ new.wait = wait /\ new.state = "Blocked"  BY <1>2 DEF Task, States
<1>4. section[current] \in {"out", "in"}  BY <1>2 DEF Premises, MutexInv
<1> HIDE DEF new
<1>5. QED  BY <1>1, <1>2, <1>3, <1>4, UpdateSpared DEF OnLock
-----------------------------------------------------------------------------
(***************************************************************************)
(* Everything that is not a step on Lock.                                  *)
(***************************************************************************)

\* The clock, `schedule` before an instruction and after TRAP #13, and instructions that
\* are no kernel service.
LEMMA HostGuestUnits ==
  ASSUME Premises, UNCHANGED section,
         \/ Host \/ Guest \/ UNCHANGED vars
         \/ Tm_Tick /\ (section[current] # "asked" \/ InHandler)
  PROVE  MutexInv'
<1>1. tasks \in [TaskIds -> Task] /\ live \in Context /\ current \in TaskIds
  BY ResultNow DEF Premises
<1>2. semaphores' = semaphores
  BY DEF Host, Guest, HostTick, FireTimer, BeforeInstruction, Compute, WriteSR, Interrupt,
     Trap13, Fault, Tm_Tick, vars, objects
<1>3. ASSUME NEW ts, Spares(ts), tasks' = ts, current' = current, live'.code = live.code,
             phase' = "trapTick" /\ ~InHandler' => section[current'] # "asked"
      PROVE  MutexInv'
  <2>1. LockUse(ts, section') /\ Owners(ts, live', section') = OwnersNow
    BY <1>3, SparesOwners
  <2>2. OwnersNow' = Owners(ts, live', section')
    BY <1>3 DEF OwnersNow, Owners, Owns, Owner, CodeOf
  <2>3. QED  BY <1>2, <1>3, <2>1, <2>2, OwnersKept
<1>4. ASSUME Tick, UNCHANGED <<current, live>>,
             phase' = "trapTick" /\ ~InHandler' => section[current'] # "asked"
      PROVE  MutexInv'
  <2>1. tasks' = [t \in TaskIds |-> Elapse(tasks[t])]  BY <1>4 DEF Tick
  <2>2. \A t \in TaskIds : Benign(Elapse(tasks[t]), tasks[t])
    BY <1>1, ElapseBenign DEF Premises, DisciplineInv
  <2>3. Spares([t \in TaskIds |-> Elapse(tasks[t])])  BY <2>2 DEF Spares
  <2>4. QED  BY <1>3, <1>4, <2>1, <2>3
<1>5. CASE FireTimer
  <2>1. PICK i \in 1..MaxTimer : tasks' = SendEvent(tasks, timers[i].task, timers[i].events)
    BY <1>5 DEF FireTimer
  <2>2. timers[i].task \in TaskIds /\ timers[i].events \in SUBSET Events
    BY DEF Premises, KernelInv, ObjectsOK
  <2>3. Spares(SendEvent(tasks, timers[i].task, timers[i].events))  BY <2>2, SendEventBenign
  <2>4. UNCHANGED <<current, live, phase>>  BY <1>5 DEF FireTimer
  <2>5. phase' = "trapTick" /\ ~InHandler' => section[current'] # "asked"
    BY <2>4 DEF Premises, MutexInv, InHandler
  <2>6. QED  BY <1>3, <2>1, <2>3, <2>4, <2>5
<1>6. CASE BeforeInstruction
  <2>1. Schedule(tasks, live, FALSE) /\ phase' # "trapTick"  BY <1>6 DEF BeforeInstruction
  <2>2. QED  BY <1>1, <1>2, <2>1, TableSpared, SparedSchedule
<1>7. CASE Trap13
  <2> DEFINE regs == [live EXCEPT !.masked = (live.frame = "masked"), !.frame = "none"]
  <2>1. Schedule(tasks, regs, FALSE) /\ phase' # "trapTick"  BY <1>7 DEF Trap13
  <2>2. regs \in Context /\ regs.code = live.code  BY <1>1 DEF Context
  <2> HIDE DEF regs
  <2>3. QED  BY <1>1, <1>2, <2>1, <2>2, TableSpared, SparedSchedule
<1>8. CASE Compute \/ WriteSR \/ Interrupt \/ Fault
  <2>1. tasks' = tasks /\ current' = current /\ phase' # "trapTick"
    BY <1>8 DEF Compute, WriteSR, Interrupt, Fault
  <2>2. live'.code = live.code
    BY <1>1, <1>8 DEF Compute, WriteSR, Interrupt, Fault, Context
  <2>3. QED  BY <1>3, <2>1, <2>2, TableSpared
<1>9. CASE UNCHANGED vars
  <2>1. UNCHANGED <<tasks, current, live, phase>>  BY <1>9 DEF vars
  <2>2. phase' = "trapTick" /\ ~InHandler' => section[current'] # "asked"
    BY <2>1 DEF Premises, MutexInv, InHandler
  <2>3. QED  BY <1>3, <2>1, <2>2, TableSpared
<1>10. CASE HostTick
  <2>1. Tick /\ UNCHANGED <<current, live>> /\ phase' = "hostTick"  BY <1>10 DEF HostTick
  <2>2. QED  BY <1>4, <2>1
<1>11. CASE Host \/ Guest  BY <1>5, <1>6, <1>7, <1>8, <1>10, <1>11 DEF Host, Guest
<1>12. CASE Tm_Tick /\ (section[current] # "asked" \/ InHandler)
  <2>1. Tick /\ UNCHANGED <<current, live>>  BY <1>12 DEF Tm_Tick
  <2>2. ~InHandler' => section[current'] # "asked"  BY <1>12, <2>1 DEF InHandler
  <2>3. QED  BY <1>4, <2>1, <2>2
<1>13. QED  BY <1>9, <1>11, <1>12

\* Task services: the tasks they start again or delete do not use Lock.
LEMMA TaskServicesUnits ==
  ASSUME Premises, UNCHANGED section, section[current] # "asked" \/ InHandler,
         \/ T_Create \/ T_Suspend \/ T_Resume \/ T_SetPri \/ T_Mode \/ NoEffect
         \/ \E t \in TaskIds :
              section[t] = "out" /\ (T_Start_Of(t) \/ T_Restart_Of(t) \/ T_Delete_Of(t))
  PROVE  MutexInv'
<1>1. /\ tasks \in [TaskIds -> Task] /\ live \in Context /\ current \in TaskIds
      /\ LockUse(tasks, section)
  BY ResultNow DEF Premises, MutexInv
<1>2. semaphores' = semaphores
  BY DEF T_Create, T_Suspend, T_Resume, T_SetPri, T_Mode, NoEffect, T_Start_Of, T_Restart_Of,
     T_Delete_Of, objects
<1>3. ASSUME NEW u \in TaskIds, NEW task \in Task, NEW code \in Codes,
             Done([tasks EXCEPT ![u] = task], code)
      PROVE  /\ Benign(task, tasks[u]) => MutexInv'
             /\ section[u] = "out" /\ ~OnLock(task) => MutexInv'
  <2>1. ASSUME \/ Benign(task, tasks[u])
               \/ section[u] = "out" /\ ~OnLock(task)
               \/ section[u] = "in" /\ ~OnLock(task) /\ task.state \notin {"Dead", "Absent"}
        PROVE  MutexInv'
    BY <1>2, <1>3, <2>1, UpdateSpared, SparedDone
  <2>2. QED  BY <2>1
<1>4. ASSUME NEW code \in Codes, Done(tasks, code) PROVE MutexInv'
  BY <1>1, <1>2, <1>4, TableSpared, SparedDone
<1>5. CASE T_Create
  <2>1. PICK priority \in Priorities :
           \/ Done(tasks, "refused")
           \/ /\ nextTask <= MaxTask
              /\ Done([tasks EXCEPT ![nextTask] =
                         [NoTask EXCEPT !.state = "Created", !.priority = priority]], "ok")
    BY <1>5 DEF T_Create
  <2> DEFINE task == [NoTask EXCEPT !.state = "Created", !.priority = priority]
  <2>2. task \in Task /\ ~OnLock(task)
    <3>1. EmptyContext \in Context /\ NotWaiting \in Wait
      BY NothingData DEF EmptyContext, Context, Codes, NotWaiting, Wait
    <3>2. 0 \in 0..MaxTimeout /\ priority \in 0..255  BY KernelAssumption
    <3>3. QED  BY <3>1, <3>2 DEF Task, NoTask, States, Mode, OnLock, NotWaiting
  <2>3. nextTask <= MaxTask => nextTask \in TaskIds /\ section[nextTask] = "out"
    <3>1. nextTask \in Nat /\ nextTask > Idle  BY DEF Premises, KernelInv, TasksOK, ObjectsOK
    <3>2. nextTask <= MaxTask => nextTask \in TaskIds
      BY <3>1, KernelAssumption DEF TaskIds, Idle
    <3>3. nextTask \in TaskIds => tasks[nextTask].state = "Absent"
      BY <3>1 DEF Premises, DisciplineInv
    <3>4. QED  BY <1>1, <3>2, <3>3 DEF LockUse
  <2> HIDE DEF task
  <2>4. QED  BY <1>3, <1>4, <2>1, <2>2, <2>3, CodesAre DEF task
<1>6. CASE \E t \in TaskIds :
              section[t] = "out" /\ (T_Start_Of(t) \/ T_Restart_Of(t) \/ T_Delete_Of(t))
  <2>1. PICK t \in TaskIds :
              section[t] = "out" /\ (T_Start_Of(t) \/ T_Restart_Of(t) \/ T_Delete_Of(t))
    BY <1>6
  <2>2. ~OnLock(tasks[t])  BY <1>1, <2>1 DEF LockUse
  <2>3. CASE T_Start_Of(t) \/ T_Restart_Of(t)
    <3>1. PICK mode \in Mode : Done([tasks EXCEPT ![t] = Started(tasks[t], mode)], "ok")
      <4>1. tasks[t].mode \in Mode /\ Modes \subseteq Mode
        BY <1>1, KernelAssumption DEF Task
      <4>2. QED  BY <2>3, <4>1 DEF T_Start_Of, T_Restart_Of
    <3>2. Started(tasks[t], mode) \in Task  BY <1>1, StartedType
    <3>3. Started(tasks[t], mode).wait = tasks[t].wait  BY <1>1 DEF Started, Task
    <3>4. QED  BY <1>3, <2>1, <2>2, <3>1, <3>2, <3>3, CodesAre DEF OnLock
  <2>4. CASE T_Delete_Of(t)
    <3> DEFINE task == [tasks[t] EXCEPT !.state = "Dead"]
    <3>1. task \in Task /\ task.wait = tasks[t].wait  BY <1>1 DEF Task, States
    <3>2. Done([tasks EXCEPT ![t] = task], "ok")  BY <2>4 DEF T_Delete_Of
    <3> HIDE DEF task
    <3>3. QED  BY <1>3, <2>1, <2>2, <3>1, <3>2, CodesAre DEF OnLock
  <2>5. QED  BY <2>1, <2>3, <2>4
<1>7. CASE T_Suspend \/ T_Resume \/ T_SetPri
  <2>1. CASE T_Suspend \/ T_Resume
    <3>1. PICK t \in TaskIds, suspended \in BOOLEAN :
             Done([tasks EXCEPT ![t].suspended = suspended], "ok")
      BY <2>1 DEF T_Suspend, T_Resume
    <3> DEFINE task == [tasks[t] EXCEPT !.suspended = suspended]
    <3>2. task \in Task  BY <1>1 DEF Task
    <3>3. Benign(task, tasks[t])  BY <1>1 DEF Task, Benign
    <3>4. Done([tasks EXCEPT ![t] = task], "ok")  BY <3>1
    <3> HIDE DEF task
    <3>5. QED  BY <1>3, <3>2, <3>3, <3>4, CodesAre
  <2>2. CASE T_SetPri
    <3>1. PICK t \in TaskIds, priority \in Priorities :
             Done([tasks EXCEPT ![t].priority = priority], "ok")
      BY <2>2 DEF T_SetPri
    <3> DEFINE task == [tasks[t] EXCEPT !.priority = priority]
    <3>2. task \in Task  BY <1>1, KernelAssumption DEF Task
    <3>3. Benign(task, tasks[t])  BY <1>1 DEF Task, Benign
    <3>4. Done([tasks EXCEPT ![t] = task], "ok")  BY <3>1
    <3> HIDE DEF task
    <3>5. QED  BY <1>3, <3>2, <3>3, <3>4, CodesAre
  <2>3. QED  BY <1>7, <2>1, <2>2
<1>8. CASE T_Mode
  <2>1. CASE \E np \in BOOLEAN : Done([tasks EXCEPT ![current].mode.np = np], "ok")
    <3>1. PICK np \in BOOLEAN : Done([tasks EXCEPT ![current].mode.np = np], "ok")  BY <2>1
    <3> DEFINE task == [tasks[current] EXCEPT !.mode.np = np]
    <3>2. task \in Task  BY <1>1 DEF Task, Mode
    <3>3. Benign(task, tasks[current])  BY <1>1 DEF Task, Benign
    <3>4. Done([tasks EXCEPT ![current] = task], "ok")  BY <3>1
    <3> HIDE DEF task
    <3>5. QED  BY <1>1, <1>3, <3>2, <3>3, <3>4, CodesAre
  <2>2. CASE \E mode \in Mode : Return([tasks EXCEPT ![current].mode = mode],
                                       [Result(Nothing) EXCEPT !.masked = mode.masked], "ok")
    <3>1. PICK mode \in Mode : Return([tasks EXCEPT ![current].mode = mode],
                                     [Result(Nothing) EXCEPT !.masked = mode.masked], "ok")
      BY <2>2
    <3> DEFINE task == [tasks[current] EXCEPT !.mode = mode]
               regs == [Result(Nothing) EXCEPT !.masked = mode.masked]
    <3>2. task \in Task /\ Benign(task, tasks[current])  BY <1>1 DEF Task, Benign
    <3>3. Result(Nothing) \in Context /\ Result(Nothing).code = live.code
      BY <1>1, ResultNow DEF Premises, Result, Context
    <3>4. regs \in Context /\ regs.code = live.code  BY <3>3 DEF Context, Mode
    <3>5. Return([tasks EXCEPT ![current] = task], regs, "ok")  BY <3>1
    <3> HIDE DEF task, regs
    <3>6. /\ [tasks EXCEPT ![current] = task] \in [TaskIds -> Task]
          /\ Spares([tasks EXCEPT ![current] = task])
      BY <1>1, <3>2, UpdateSpared
    <3>7. QED  BY <1>2, <3>4, <3>5, <3>6, SparedReturn, CodesAre
  <2>3. QED  BY <1>8, <2>1, <2>2 DEF T_Mode
<1>9. CASE NoEffect
  <2>1. \E code \in {"ok", "refused"} : Done(tasks, code)  BY <1>9 DEF NoEffect
  <2>2. QED  BY <1>4, <2>1, CodesAre
<1>10. QED  BY <1>5, <1>6, <1>7, <1>8, <1>9

\* Queue and event services.
LEMMA QueueEventUnits ==
  ASSUME Premises, UNCHANGED section, section[current] # "asked" \/ InHandler,
         QueueServices \/ EventServices
  PROVE  MutexInv'
<1>1. /\ tasks \in [TaskIds -> Task] /\ live \in Context /\ current \in TaskIds
      /\ fresh \subseteq Messages
  BY ResultNow DEF Premises, KernelInv, ObjectsOK
<1>2. semaphores' = semaphores
  BY DEF QueueServices, EventServices, Q_Create, Q_Delete, Q_Send, Q_Urgent, Q_Broadcast,
     Q_Receive, Ev_Send, Ev_Receive, objects
<1>3. ASSUME NEW code \in Codes, Done(tasks, code) PROVE MutexInv'
  BY <1>1, <1>2, <1>3, TableSpared, SparedDone
<1>4. ASSUME NEW q, NEW to \in SUBSET Waiters("queue", q), NEW payload \in Data,
             Done(Deliver(to, payload), "ok")
      PROVE  MutexInv'
  <2>1. TableOK(Deliver(to, payload)) /\ to \subseteq TaskIds
    BY DeliverSafe, IdleNeverWaits DEF Premises, KernelInv
  <2>2. \A t \in to : tasks[t].wait.on # "none" /\ ~OnLock(tasks[t])
    BY DEF Waiters, OnLock
  <2>3. \A t \in TaskIds : IF t \in to THEN /\ Deliver(to, payload)[t].wait = NotWaiting
                                           /\ Deliver(to, payload)[t].state = "Ready"
                           ELSE Deliver(to, payload)[t] = tasks[t]
    BY <1>1, WakeEnds DEF Deliver
  <2>4. Spares(Deliver(to, payload))  BY <2>1, <2>2, <2>3, WakesSpared
  <2>5. QED  BY <1>2, <1>4, <2>1, <2>4, SparedDone, CodesAre DEF TableOK
<1>5. ASSUME MayWait, NEW wait \in Wait, NEW timeout \in 0..MaxTimeout,
             wait.on \in {"queue", "events"}, Done(Block(tasks, wait, timeout), "ok")
      PROVE  MutexInv'
  <2>1. section[current] # "asked"  BY <1>5 DEF MayWait
  <2>2. /\ Block(tasks, wait, timeout) \in [TaskIds -> Task]
        /\ Spares(Block(tasks, wait, timeout))
    BY <1>5, <2>1, BlockSpared
  <2>3. QED  BY <1>2, <1>5, <2>1, <2>2, SparedDone, CodesAre
<1>6. ASSUME NEW ts \in [TaskIds -> Task], Spares(ts), NEW data \in Data,
             Return(ts, Result(data), "ok")
      PROVE  MutexInv'
  <2>1. Result(data) \in Context /\ Result(data).code = live.code
    BY <1>1, ResultType DEF Result, Context
  <2>2. QED  BY <1>2, <1>6, <2>1, SparedReturn, CodesAre
<1>7. CASE Q_Create
  <2>1. \E code \in Codes : Done(tasks, code)  BY <1>7, CodesAre DEF Q_Create
  <2>2. QED  BY <1>3, <2>1
<1>8. CASE Q_Delete
  <2>1. PICK q \in 1..MaxQueue :
           Done([t \in TaskIds |-> IF t \in Waiters("queue", q)
                                    THEN WakeWith(tasks[t], "deleted") ELSE tasks[t]], "ok")
    BY <1>8 DEF Q_Delete
  <2> DEFINE ts == [t \in TaskIds |-> IF t \in Waiters("queue", q)
                                      THEN WakeWith(tasks[t], "deleted") ELSE tasks[t]]
  <2>2. Waiters("queue", q) \subseteq TaskIds /\ TableOK(ts)
    BY CodesAre, WakeWithSafe, IdleNeverWaits DEF Premises, KernelInv
  <2>3. \A t \in Waiters("queue", q) : tasks[t].wait.on # "none" /\ ~OnLock(tasks[t])
    BY DEF Waiters, OnLock
  <2>4. \A t \in TaskIds : IF t \in Waiters("queue", q)
                           THEN ts[t].wait = NotWaiting /\ ts[t].state = "Ready"
                           ELSE ts[t] = tasks[t]
    BY <1>1, WakeEnds DEF WakeWith
  <2>5. Done(ts, "ok")  BY <2>1
  <2> HIDE DEF ts
  <2>6. Spares(ts)  BY <2>2, <2>3, <2>4, WakesSpared
  <2>7. QED  BY <1>2, <2>2, <2>5, <2>6, SparedDone, CodesAre DEF TableOK
<1>9. CASE Q_Send \/ Q_Urgent
  <2>1. PICK q \in 1..MaxQueue, message \in fresh :
           \/ \E t \in Waiters("queue", q) : Done(Deliver({t}, message), "ok")
           \/ Done(tasks, "ok") \/ Done(tasks, "refused")
    BY <1>9 DEF Q_Send, Q_Urgent, Q_Put
  <2>2. message \in Data  BY <1>1 DEF Data
  <2>3. QED  BY <1>3, <1>4, <2>1, <2>2, CodesAre
<1>10. CASE Q_Broadcast
  <2>1. PICK q \in 1..MaxQueue, notice \in Notices :
           Done(Deliver(Waiters("queue", q), notice), "ok")
    BY <1>10 DEF Q_Broadcast
  <2>2. QED  BY <1>4, <2>1 DEF Data
<1>11. CASE Q_Receive
  <2>1. PICK q \in 1..MaxQueue :
           \/ /\ queues[q].messages # <<>>
              /\ Return(tasks, Result(Head(queues[q].messages)), "ok")
           \/ Done(tasks, "refused")
           \/ MayWait /\ \E timeout \in 0..MaxTimeout :
                           Done(Block(tasks, WaitFor("queue", q), timeout), "ok")
    BY <1>11 DEF Q_Receive
  <2>2. queues[q].messages # <<>> => Head(queues[q].messages) \in Data
    <3>1. queues[q].messages \in Seq(Messages)  BY DEF Premises, KernelInv, ObjectsOK
    <3>2. QED  BY <3>1 DEF Data
  <2>3. WaitFor("queue", q) \in Wait /\ WaitFor("queue", q).on = "queue"
    <3>1. q \in Nat  BY KernelAssumption
    <3>2. QED  BY <3>1, WaitForType DEF WaitFor, NotWaiting
  <2>4. QED  BY <1>1, <1>3, <1>5, <1>6, <2>1, <2>2, <2>3, TableSpared, CodesAre
<1>12. CASE Ev_Send
  <2>1. PICK t \in TaskIds, bits \in SUBSET Events : Done(SendEvent(tasks, t, bits), "ok")
    BY <1>12 DEF Ev_Send
  <2>2. SendEvent(tasks, t, bits) \in [TaskIds -> Task] /\ Spares(SendEvent(tasks, t, bits))
    BY SendEventBenign
  <2>3. QED  BY <1>2, <2>1, <2>2, SparedDone, CodesAre
<1>13. CASE Ev_Receive
  <2>1. PICK want \in SUBSET Events, any \in BOOLEAN :
           \/ Return(tasks, Result(tasks[current].events), "ok")
           \/ Return([tasks EXCEPT ![current].events = @ \ (tasks[current].events \cap want)],
                     Result(tasks[current].events \cap want), "ok")
           \/ Done(tasks, "refused")
           \/ MayWait /\ \E timeout \in 0..MaxTimeout :
                Done(Block(tasks, [NotWaiting EXCEPT !.on = "events", !.want = want,
                                                     !.any = any], timeout), "ok")
    BY <1>13 DEF Ev_Receive
  <2> DEFINE got == tasks[current].events \cap want
             task == [tasks[current] EXCEPT !.events = @ \ got]
             wait == [NotWaiting EXCEPT !.on = "events", !.want = want, !.any = any]
  <2>2. tasks[current].events \in Data /\ got \in Data  BY <1>1 DEF Task, Data
  <2>3. task \in Task /\ Benign(task, tasks[current])  BY <1>1 DEF Task, Benign
  <2>4. wait \in Wait /\ wait.on = "events"  BY DEF NotWaiting, Wait
  <2>5. \/ Return(tasks, Result(tasks[current].events), "ok")
        \/ Return([tasks EXCEPT ![current] = task], Result(got), "ok")
        \/ Done(tasks, "refused")
        \/ MayWait /\ \E timeout \in 0..MaxTimeout : Done(Block(tasks, wait, timeout), "ok")
    BY <2>1
  <2> HIDE DEF got, task, wait
  <2>6. /\ [tasks EXCEPT ![current] = task] \in [TaskIds -> Task]
        /\ Spares([tasks EXCEPT ![current] = task])
    BY <1>1, <2>3, UpdateSpared
  <2>7. QED  BY <1>1, <1>3, <1>5, <1>6, <2>2, <2>4, <2>5, <2>6, TableSpared, CodesAre
<1>14. QED
  BY <1>7, <1>8, <1>9, <1>10, <1>11, <1>12, <1>13 DEF QueueServices, EventServices

\* Services on other semaphores, the creation of Lock, and the clock services.
LEMMA SemaphoreTimeUnits ==
  ASSUME Premises, UNCHANGED section, section[current] # "asked" \/ InHandler,
         \/ \E s \in (1..MaxSemaphore) \ {Lock} : Sm_P_On(s) \/ Sm_V_On(s) \/ Sm_Delete_On(s)
         \/ Tm_TickReturn \/ Tm_WkAfter \/ Tm_Ev \/ Tm_Cancel
  PROVE  MutexInv'
<1>1. /\ tasks \in [TaskIds -> Task] /\ live \in Context /\ current \in TaskIds
      /\ semaphores \in [1..MaxSemaphore -> [live: BOOLEAN, count: 0..CountLimit]]
      /\ Lock \in 1..MaxSemaphore
  BY ResultNow, LockAssumption DEF Premises, KernelInv, ObjectsOK
<1>2. semaphores'[Lock] = semaphores[Lock]
  BY <1>1 DEF Sm_P_On, Sm_V_On, Sm_Delete_On, Tm_TickReturn, Tm_WkAfter, Tm_Ev, Tm_Cancel, objects
<1>3. ASSUME NEW code \in Codes, Done(tasks, code) PROVE MutexInv'
  BY <1>1, <1>2, <1>3, TableSpared, SparedDone
<1>4. ASSUME MayWait, NEW wait \in Wait, NEW timeout \in 0..MaxTimeout,
             ~(wait.on = "semaphore" /\ wait.object = Lock), Done(Block(tasks, wait, timeout), "ok")
      PROVE  MutexInv'
  <2>1. section[current] # "asked"  BY <1>4 DEF MayWait
  <2>2. /\ Block(tasks, wait, timeout) \in [TaskIds -> Task]
        /\ Spares(Block(tasks, wait, timeout))
    BY <1>4, <2>1, BlockSpared
  <2>3. QED  BY <1>2, <1>4, <2>1, <2>2, SparedDone, CodesAre
<1>5. CASE \E s \in (1..MaxSemaphore) \ {Lock} : Sm_P_On(s) \/ Sm_V_On(s) \/ Sm_Delete_On(s)
  <2>1. PICK s \in (1..MaxSemaphore) \ {Lock} : Sm_P_On(s) \/ Sm_V_On(s) \/ Sm_Delete_On(s)
    BY <1>5
  <2>2. CASE Sm_P_On(s)
    <3>1. \/ Done(tasks, "ok") \/ Done(tasks, "refused")
          \/ MayWait /\ \E timeout \in 0..MaxTimeout :
                          Done(Block(tasks, WaitFor("semaphore", s), timeout), "ok")
      BY <2>2 DEF Sm_P_On
    <3>2. WaitFor("semaphore", s) \in Wait /\ WaitFor("semaphore", s).object = s
      <4>1. s \in Nat  BY KernelAssumption
      <4>2. QED  BY <4>1, WaitForType DEF WaitFor, NotWaiting
    <3>3. QED  BY <1>3, <1>4, <2>1, <3>1, <3>2, CodesAre
  <2>3. CASE Sm_V_On(s)
    <3>1. \/ Done(tasks, "ok")
          \/ \E t \in Waiters("semaphore", s) :
               Done([tasks EXCEPT ![t] = WakeWith(tasks[t], "ok")], "ok")
      BY <2>3 DEF Sm_V_On
    <3>2. ASSUME NEW t \in Waiters("semaphore", s),
                 Done([tasks EXCEPT ![t] = WakeWith(tasks[t], "ok")], "ok")
          PROVE  MutexInv'
      <4>1. t \in TaskIds /\ tasks[t].wait.on # "none" /\ ~OnLock(tasks[t])
        BY <2>1 DEF Waiters, OnLock
      <4> DEFINE task == WakeWith(tasks[t], "ok")
      <4>2. task \in Task  BY <1>1, <4>1, WakeWithType, CodesAre
      <4>3. task.state = "Ready" /\ task.wait.on = "none"
        BY <1>1, <4>1, WakeEnds DEF WakeWith, NotWaiting
      <4>4. Done([tasks EXCEPT ![t] = task], "ok")  BY <3>2
      <4> HIDE DEF task
      <4>5. Benign(task, tasks[t])  BY <4>1, <4>3 DEF Benign
      <4>6. /\ [tasks EXCEPT ![t] = task] \in [TaskIds -> Task]
            /\ Spares([tasks EXCEPT ![t] = task])
        BY <4>1, <4>2, <4>5, UpdateSpared
      <4>7. QED  BY <1>2, <4>4, <4>6, SparedDone, CodesAre
    <3>3. QED  BY <1>3, <3>1, <3>2, CodesAre
  <2>4. CASE Sm_Delete_On(s)  BY <1>3, <2>4, CodesAre DEF Sm_Delete_On
  <2>5. QED  BY <2>1, <2>2, <2>3, <2>4
<1>6. CASE Tm_WkAfter
  <2>1. \/ \E timeout \in 1..MaxTimeout :
             MayWait /\ Done(Block(tasks, WaitFor("sleep", 0), timeout), "ok")
        \/ /\ MayWait
           /\ Done([tasks EXCEPT ![current].state = "Ready", ![current].cpu = live], "ok")
    BY <1>6 DEF Tm_WkAfter
  <2>2. WaitFor("sleep", 0) \in Wait /\ WaitFor("sleep", 0).on = "sleep"
    BY WaitForType DEF WaitFor, NotWaiting
  <2>3. ASSUME MayWait,
               Done([tasks EXCEPT ![current].state = "Ready", ![current].cpu = live], "ok")
        PROVE  MutexInv'
    <3> DEFINE task == [tasks[current] EXCEPT !.state = "Ready", !.cpu = live]
    <3>1. [tasks EXCEPT ![current].state = "Ready", ![current].cpu = live] =
            [tasks EXCEPT ![current] = task]
      BY <1>1
    <3>2. task \in Task /\ task.state = "Ready" /\ task.wait = tasks[current].wait
      <4>1. tasks[current] \in Task  BY <1>1
      <4>2. \A old \in Task : LET new == [old EXCEPT !.state = "Ready", !.cpu = live]
                              IN  new \in Task /\ new.state = "Ready" /\ new.wait = old.wait
        BY <1>1 DEF Task, States
      <4>3. QED  BY <4>1, <4>2
    <3>3. section[current] \in {"out", "in"} /\ tasks[current].wait.on = "none"
      BY <1>1, <2>3, CallerFree DEF MayWait, Premises, MutexInv
    <3> HIDE DEF task
    <3>4. ~OnLock(task) /\ task.state \notin {"Dead", "Absent"}  BY <3>2, <3>3 DEF OnLock
    <3>5. /\ [tasks EXCEPT ![current] = task] \in [TaskIds -> Task]
          /\ Spares([tasks EXCEPT ![current] = task])
      BY <1>1, <3>2, <3>3, <3>4, UpdateSpared
    <3>6. QED  BY <1>2, <2>3, <3>1, <3>5, SparedDone, CodesAre
  <2>4. 1..MaxTimeout \subseteq 0..MaxTimeout  BY KernelAssumption
  <2>5. QED  BY <1>4, <2>1, <2>2, <2>3, <2>4
<1>7. CASE Tm_TickReturn \/ Tm_Ev \/ Tm_Cancel
  BY <1>3, <1>7, CodesAre DEF Tm_TickReturn, Tm_Ev, Tm_Cancel
<1>8. QED  BY <1>5, <1>6, <1>7

\* Lock is created once, with its units; nobody uses it before.
LEMMA CreateUnits ==
  ASSUME Premises, UNCHANGED section, section[current] # "asked" \/ InHandler, CreatesLock
  PROVE  MutexInv'
<1>1. /\ tasks \in [TaskIds -> Task] /\ live \in Context /\ current \in TaskIds
      /\ semaphores \in [1..MaxSemaphore -> [live: BOOLEAN, count: 0..CountLimit]]
      /\ Lock \in 1..MaxSemaphore /\ nextSemaphore \in Nat
  BY ResultNow, LockAssumption DEF Premises, KernelInv, ObjectsOK
<1>2. \E code \in Codes : Done(tasks, code)
  BY CodesAre DEF CreatesLock, Sm_Create
<1>3. CASE semaphores'[Lock] = semaphores[Lock]
  BY <1>1, <1>2, <1>3, TableSpared, SparedDone
<1>4. CASE semaphores'[Lock] # semaphores[Lock]
  <2>1. nextSemaphore = Lock /\ semaphores'[Lock].live
    <3>1. PICK count \in Counts :
             semaphores' = [semaphores EXCEPT ![nextSemaphore] = [live |-> TRUE, count |-> count]]
      BY <1>4 DEF CreatesLock, Sm_Create
    <3>2. QED  BY <1>1, <1>4, <3>1
  <2>2. ~semaphores[Lock].live  BY <1>1, <2>1 DEF Premises, GivenOut
  <2>3. semaphores'[Lock].count = Units  BY <2>1, <2>2 DEF CreatesLock
  <2>4. \A t \in TaskIds : section[t] = "out"  BY <2>2 DEF Premises, MutexInv
  <2>5. PICK code \in Codes : Done(tasks, code)  BY <1>2
  <2>6. Result(Nothing) \in Context /\ Return(tasks, Result(Nothing), code)
    BY <2>5, ResultNow DEF Premises, Done
  <2>7. LockUse(tasks, section')  BY DEF Premises, MutexInv
  <2>8. LockUse(tasks', section') /\ phase' = "host"
    BY <1>1, <2>6, <2>7, ReturnOwners
  <2>9. OwnersNow' = {}  BY <2>4 DEF OwnersNow, Owns
  <2>10. Cardinality(OwnersNow') = 0 /\ Units \in Nat
    BY <2>9, FS_EmptySet, LockAssumption, KernelAssumption
  <2>11. semaphores'[Lock].count + Cardinality(OwnersNow') = Units  BY <2>3, <2>10
  <2>12. QED  BY <2>1, <2>8, <2>11 DEF Premises, MutexInv
<1>5. QED  BY <1>3, <1>4
-----------------------------------------------------------------------------
(***************************************************************************)
(* sm_p, the instruction after it, and sm_v.                               *)
(***************************************************************************)

LEMMA OwnersFinite == IsFiniteSet(OwnersNow)
<1>1. IsFiniteSet(TaskIds)  BY FS_Interval, KernelAssumption DEF TaskIds
<1>2. OwnersNow \subseteq TaskIds  BY DEF OwnersNow
<1>3. QED  BY <1>1, <1>2, FS_Subset

LEMMA EntersUnits == ASSUME Premises, Enters PROVE MutexInv'
<1>1. /\ tasks \in [TaskIds -> Task] /\ live \in Context /\ current \in TaskIds
      /\ semaphores \in [1..MaxSemaphore -> [live: BOOLEAN, count: 0..CountLimit]]
      /\ Lock \in 1..MaxSemaphore /\ Result(Nothing) \in Context
      /\ tasks[current].wait.on = "none" /\ tasks[current].state \in {"Ready", "Running"}
  BY ResultNow, CallerFree, LockAssumption DEF Premises, KernelInv, ObjectsOK
<1>2. /\ ~InHandler /\ section[current] = "out" /\ semaphores[Lock].live
      /\ section' = [section EXCEPT ![current] = "asked"]
  BY DEF Enters, Sm_P_On
<1>3. /\ section \in [TaskIds -> {"out", "asked", "in"}] /\ LockUse(tasks, section)
      /\ semaphores[Lock].count + Cardinality(OwnersNow) = Units
  BY <1>2 DEF Premises, MutexInv
<1>4. section' \in [TaskIds -> {"out", "asked", "in"}] /\ section'[current] = "asked"
  BY <1>1, <1>2, <1>3
<1>5. ASSUME NEW ts \in [TaskIds -> Task], NEW code \in Codes, Done(ts, code), LockUse(ts, section')
      PROVE  /\ LockUse(tasks', section') /\ phase' = "host"
             /\ OwnersNow' = Owners(ts, [Result(Nothing) EXCEPT !.code = code], section')
  BY <1>1, <1>2, <1>5, ReturnOwners DEF Done
<1>6. LockUse(tasks, section')  BY <1>1, <1>2, <1>3 DEF LockUse, OnLock
<1>7. current \notin OwnersNow  BY <1>2 DEF OwnersNow, Owns
<1>8. \A code \in Codes : [Result(Nothing) EXCEPT !.code = code].code = code
  BY <1>1 DEF Context
<1>9. CASE /\ semaphores[Lock].count # 0 /\ Done(tasks, "ok")
           /\ semaphores' = [semaphores EXCEPT ![Lock].count = @ - 1]
  <2> DEFINE regs == [Result(Nothing) EXCEPT !.code = "ok"]
  <2>1. regs.code = "ok"  BY <1>8, CodesAre
  <2>2. LockUse(tasks', section') /\ phase' = "host" /\ OwnersNow' = Owners(tasks, regs, section')
    BY <1>1, <1>5, <1>6, <1>9, CodesAre
  <2> HIDE DEF regs
  <2>3. Owners(tasks, regs, section') = OwnersNow \cup {current}
    BY <1>1, <1>2, <1>3, <2>1 DEF Owners, Owner, OwnersNow, Owns, CodeOf
  <2>4. Cardinality(OwnersNow') = Cardinality(OwnersNow) + 1
    BY <1>7, <2>2, <2>3, OwnersFinite, FS_AddElement
  <2>5. /\ semaphores'[Lock].live /\ semaphores'[Lock].count = semaphores[Lock].count - 1
    BY <1>1, <1>2, <1>9
  <2>6. Cardinality(OwnersNow) \in Nat /\ semaphores[Lock].count \in Nat
    BY <1>1, OwnersFinite, FS_CardinalityType, KernelAssumption
  <2>7. semaphores'[Lock].count + Cardinality(OwnersNow') = Units
    BY <1>3, <2>4, <2>5, <2>6
  <2>8. QED  BY <1>4, <2>2, <2>5, <2>7 DEF MutexInv
<1>10. CASE semaphores' = semaphores /\ Done(tasks, "refused")
  <2> DEFINE regs == [Result(Nothing) EXCEPT !.code = "refused"]
  <2>1. regs.code = "refused"  BY <1>8, CodesAre
  <2>2. LockUse(tasks', section') /\ phase' = "host" /\ OwnersNow' = Owners(tasks, regs, section')
    BY <1>1, <1>5, <1>6, <1>10, CodesAre
  <2> HIDE DEF regs
  <2>3. Owners(tasks, regs, section') = OwnersNow
    BY <1>1, <1>2, <1>3, <2>1 DEF Owners, Owner, OwnersNow, Owns, CodeOf
  <2>4. QED  BY <1>2, <1>3, <1>4, <1>10, <2>2, <2>3 DEF MutexInv
<1>11. CASE /\ semaphores' = semaphores
            /\ \E timeout \in 0..MaxTimeout :
                 Done(Block(tasks, WaitFor("semaphore", Lock), timeout), "ok")
  <2>1. PICK timeout \in 0..MaxTimeout :
           Done(Block(tasks, WaitFor("semaphore", Lock), timeout), "ok")
    BY <1>11
  <2> DEFINE wait == WaitFor("semaphore", Lock)
             ts == Block(tasks, wait, timeout)
             new == [tasks[current] EXCEPT !.state = "Blocked", !.wait = wait, !.left = timeout]
             regs == [Result(Nothing) EXCEPT !.code = "ok"]
  <2>2. wait \in Wait /\ wait.on = "semaphore" /\ wait.object = Lock
    <3>1. Lock \in Nat  BY <1>1, KernelAssumption
    <3>2. QED  BY <3>1, WaitForType DEF WaitFor, NotWaiting
  <2>3. ts = [tasks EXCEPT ![current] = new]  BY DEF Block
  <2> HIDE DEF wait
  <2>4. new \in Task /\ new.wait = wait /\ new.state = "Blocked"
    <3>1. tasks[current] \in Task  BY <1>1
    <3>2. \A old \in Task : LET n == [old EXCEPT !.state = "Blocked", !.wait = wait, !.left = timeout]
                            IN  n \in Task /\ n.wait = wait /\ n.state = "Blocked"
      BY <2>2 DEF Task, States
    <3>3. QED  BY <3>1, <3>2
  <2>5. Done(ts, "ok")  BY <2>1 DEF wait
  <2> HIDE DEF ts, new
  <2>6. ts \in [TaskIds -> Task]  BY <1>1, <2>3, <2>4
  <2>7. LockUse(ts, section')  BY <1>1, <1>4, <1>6, <2>2, <2>3, <2>4 DEF LockUse, OnLock
  <2>8. LockUse(tasks', section') /\ phase' = "host" /\ OwnersNow' = Owners(ts, regs, section')
    BY <1>5, <2>5, <2>6, <2>7, CodesAre
  <2> HIDE DEF regs
  <2>9. Owners(ts, regs, section') = OwnersNow
    BY <1>1, <1>2, <1>3, <2>2, <2>3, <2>4 DEF Owners, Owner, OwnersNow, Owns, CodeOf
  <2>10. QED  BY <1>2, <1>3, <1>4, <1>11, <2>8, <2>9 DEF MutexInv
<1>12. QED  BY <1>9, <1>10, <1>11 DEF Enters, Sm_P_On

\* The instruction that reads D0: who was granted a unit is in, who was not is out.
LEMMA ReadsCodeUnits == ASSUME Premises, ReadsCode PROVE MutexInv'
<1>1. /\ section \in [TaskIds -> {"out", "asked", "in"}] /\ LockUse(tasks, section)
      /\ current \in TaskIds /\ tasks[current].wait.on = "none"
  BY CallerFree DEF Premises, MutexInv
<1>2. /\ UNCHANGED <<tasks, current, live, semaphores>> /\ phase' = "host"
      /\ section[current] = "asked"
      /\ section' = [section EXCEPT ![current] = IF live.code = "ok" THEN "in" ELSE "out"]
  BY DEF ReadsCode, Compute, objects
<1>3. section' \in [TaskIds -> {"out", "asked", "in"}]  BY <1>1, <1>2
<1>4. LockUse(tasks', section')  BY <1>1, <1>2 DEF LockUse, OnLock
<1>5. OwnersNow' = OwnersNow  BY <1>1, <1>2 DEF OwnersNow, Owns, CodeOf
<1>6. semaphores[Lock].live /\ semaphores[Lock].count + Cardinality(OwnersNow) = Units
  BY <1>1, <1>2 DEF Premises, MutexInv
<1>7. QED  BY <1>2, <1>3, <1>4, <1>5, <1>6 DEF MutexInv

\* sm_v: the unit goes to the first waiter or to the count, which is below its limit
\* because the caller owned a unit.
LEMMA LeavesUnits == ASSUME Premises, Leaves PROVE MutexInv'
<1>1. /\ tasks \in [TaskIds -> Task] /\ live \in Context /\ current \in TaskIds
      /\ semaphores \in [1..MaxSemaphore -> [live: BOOLEAN, count: 0..CountLimit]]
      /\ Lock \in 1..MaxSemaphore /\ Result(Nothing) \in Context
      /\ tasks[current].wait.on = "none" /\ tasks[current].state \in {"Ready", "Running"}
  BY ResultNow, CallerFree, LockAssumption DEF Premises, KernelInv, ObjectsOK
<1>2. /\ ~InHandler /\ section[current] = "in" /\ semaphores[Lock].live
      /\ section' = [section EXCEPT ![current] = "out"]
  BY DEF Leaves, Sm_V_On
<1>3. /\ section \in [TaskIds -> {"out", "asked", "in"}] /\ LockUse(tasks, section)
      /\ semaphores[Lock].count + Cardinality(OwnersNow) = Units
  BY <1>2 DEF Premises, MutexInv
<1>4. section' \in [TaskIds -> {"out", "asked", "in"}] /\ section'[current] = "out"
  BY <1>1, <1>2, <1>3
<1> DEFINE regs == [Result(Nothing) EXCEPT !.code = "ok"]
<1>5. ASSUME NEW ts \in [TaskIds -> Task], Done(ts, "ok"), LockUse(ts, section')
      PROVE  /\ LockUse(tasks', section') /\ phase' = "host"
             /\ OwnersNow' = Owners(ts, regs, section')
  BY <1>1, <1>2, <1>5, ReturnOwners, CodesAre DEF Done
<1> HIDE DEF regs
<1>6. current \in OwnersNow  BY <1>1, <1>2 DEF OwnersNow, Owns
<1>7. /\ IsFiniteSet(OwnersNow \ {current})
      /\ Cardinality(OwnersNow \ {current}) = Cardinality(OwnersNow) - 1
  BY <1>6, OwnersFinite, FS_RemoveElement
<1>8. Cardinality(OwnersNow) \in Nat /\ semaphores[Lock].count \in Nat /\ Units \in 0..CountLimit
  BY <1>1, OwnersFinite, FS_CardinalityType, KernelAssumption, LockAssumption
<1>9. Cardinality(OwnersNow \ {current}) \in Nat  BY <1>7, FS_CardinalityType
<1>10. CASE /\ semaphores' = semaphores
            /\ \E t \in Waiters("semaphore", Lock) :
                 Done([tasks EXCEPT ![t] = WakeWith(@, "ok")], "ok")
  <2>1. PICK t \in Waiters("semaphore", Lock) :
           Done([tasks EXCEPT ![t] = WakeWith(@, "ok")], "ok")
    BY <1>10
  <2> DEFINE new == WakeWith(tasks[t], "ok")
             ts == [tasks EXCEPT ![t] = new]
  <2>2. t \in TaskIds /\ OnLock(tasks[t]) /\ tasks[t].wait.on # "none"
    BY <2>1 DEF Waiters, OnLock
  <2>3. section[t] = "asked" /\ t # current  BY <1>1, <1>3, <2>2 DEF LockUse
  <2>4. new \in Task  BY <1>1, <2>2, WakeWithType, CodesAre
  <2>5. new.state = "Ready" /\ new.wait.on = "none" /\ new.cpu.code = "ok"
    BY <1>1, <2>2, WakeEnds DEF WakeWith, NotWaiting
  <2>6. Done(ts, "ok")  BY <2>1
  <2> HIDE DEF new
  <2>7. ts \in [TaskIds -> Task]  BY <1>1, <2>4
  <2>8. LockUse(ts, section')
    BY <1>1, <1>2, <1>3, <2>2, <2>3, <2>5 DEF LockUse, OnLock
  <2>9. LockUse(tasks', section') /\ phase' = "host" /\ OwnersNow' = Owners(ts, regs, section')
    BY <1>5, <2>6, <2>7, <2>8
  <2>10. Owners(ts, regs, section') = (OwnersNow \ {current}) \cup {t}
    BY <1>1, <1>2, <1>3, <2>2, <2>3, <2>5 DEF Owners, Owner, OwnersNow, Owns, CodeOf
  <2>11. t \notin OwnersNow \ {current}  BY <2>2, <2>3 DEF OwnersNow, Owns
  <2> DEFINE others == OwnersNow \ {current}
  <2>12. Cardinality(OwnersNow') = Cardinality(OwnersNow)
    <3>1. OwnersNow' = others \cup {t}  BY <2>9, <2>10
    <3>2. IsFiniteSet(others) /\ t \notin others /\ Cardinality(others) = Cardinality(OwnersNow) - 1
      BY <1>7, <2>11
    <3> HIDE DEF others
    <3>3. Cardinality(others \cup {t}) = Cardinality(others) + 1  BY <3>2, FS_AddElement
    <3>4. QED  BY <1>8, <3>1, <3>2, <3>3
  <2>13. QED  BY <1>2, <1>3, <1>4, <1>10, <2>9, <2>12 DEF MutexInv
<1>11. CASE /\ Waiters("semaphore", Lock) = {} /\ Done(tasks, "ok")
            /\ semaphores' = [semaphores EXCEPT ![Lock].count =
                                 IF @ < CountLimit THEN @ + 1 ELSE @]
  <2>1. LockUse(tasks, section')  BY <1>1, <1>2, <1>3 DEF LockUse, OnLock
  <2>2. LockUse(tasks', section') /\ phase' = "host" /\ OwnersNow' = Owners(tasks, regs, section')
    BY <1>1, <1>5, <1>11, <2>1
  <2>3. Owners(tasks, regs, section') = OwnersNow \ {current}
    BY <1>1, <1>2, <1>3 DEF Owners, Owner, OwnersNow, Owns, CodeOf
  <2>4. Cardinality(OwnersNow') = Cardinality(OwnersNow) - 1  BY <1>7, <2>2, <2>3
  <2>5. semaphores[Lock].count < CountLimit
    BY <1>3, <1>7, <1>8, <1>9, KernelAssumption
  <2>6. /\ semaphores'[Lock].live = semaphores[Lock].live
        /\ semaphores'[Lock].count = semaphores[Lock].count + 1
    BY <1>1, <1>11, <2>5
  <2>7. semaphores'[Lock].count + Cardinality(OwnersNow') = Units
    BY <1>3, <1>8, <2>4, <2>6
  <2>8. QED  BY <1>2, <1>4, <2>2, <2>6, <2>7 DEF MutexInv
<1>12. QED  BY <1>10, <1>11 DEF Leaves, Sm_V_On
-----------------------------------------------------------------------------
LEMMA InitUnits == MutexInit => MutexInv
<1> SUFFICES ASSUME Init, section = [t \in TaskIds |-> "out"] PROVE MutexInv
  BY DEF MutexInit
<1>1. /\ \A t \in TaskIds : tasks[t].wait.on = "none"
      /\ ~semaphores[Lock].live /\ phase = "host"
  BY LockAssumption DEF Init, NoTask, NotWaiting, NoSemaphore
<1>2. QED  BY <1>1 DEF MutexInv, LockUse, OnLock

\* Every step of PsosMutex is one of the kernel.
LEMMA MutexSteps == MutexSpec => Spec
<1>1. MutexInit => Init  BY DEF MutexInit
<1>2. MutexNext => Next
  <2>1. Enters => SemaphoreServices
    BY LockAssumption DEF Enters, SemaphoreServices, Sm_P
  <2>2. Leaves => SemaphoreServices
    BY LockAssumption DEF Leaves, SemaphoreServices, Sm_V
  <2>3. ReadsCode => Guest  BY DEF ReadsCode, Guest
  <2>4. OtherServices => \/ TaskServices \/ QueueServices \/ EventServices \/ SemaphoreServices
                         \/ TimeServices
    BY DEF OtherServices, CreatesLock, TaskServices, T_Start, T_Restart, T_Delete,
       SemaphoreServices, Sm_P, Sm_V, Sm_Delete, TimeServices
  <2>5. Elsewhere => Next
    BY <2>4 DEF Elsewhere, Next, Guest, TimeServices
  <2>6. QED  BY <2>1, <2>2, <2>3, <2>5 DEF MutexNext, Next
<1>3. [MutexNext]_<<vars, section>> => [Next]_vars  BY <1>2
<1>4. QED  BY <1>1, <1>3, PTL DEF MutexSpec, Spec

LEMMA NextUnits == Premises /\ [MutexNext]_<<vars, section>> => MutexInv'
<1> SUFFICES ASSUME Premises, [MutexNext]_<<vars, section>> PROVE MutexInv'
  OBVIOUS
<1>1. CASE Enters  BY <1>1, EntersUnits
<1>2. CASE ReadsCode  BY <1>2, ReadsCodeUnits
<1>3. CASE Leaves  BY <1>3, LeavesUnits
<1>4. CASE UNCHANGED <<vars, section>>
  <2>1. UNCHANGED vars /\ UNCHANGED section  BY <1>4
  <2>2. QED  BY <2>1, HostGuestUnits
<1>5. CASE Elsewhere
  <2>1. UNCHANGED section  BY <1>5 DEF Elsewhere
  <2>2. CASE Host \/ Interrupt \/ Trap13 \/ Fault \/ Stopped \/ Compute \/ WriteSR
    BY <2>1, <2>2, HostGuestUnits DEF Guest, Stopped
  <2>3. CASE Tm_TickReturn
    <3>1. section[current] # "asked" \/ InHandler
      BY <2>3 DEF Tm_TickReturn, Premises, MutexInv
    <3>2. QED  BY <2>1, <2>3, <3>1, SemaphoreTimeUnits
  <2>4. CASE (section[current] # "asked" \/ InHandler) /\ OtherServices
    <3>1. section[current] # "asked" \/ InHandler  BY <2>4
    <3>2. CASE Tm_Tick  BY <2>1, <3>1, <3>2, HostGuestUnits
    <3>3. CASE \/ T_Create \/ T_Suspend \/ T_Resume \/ T_SetPri \/ T_Mode \/ NoEffect
               \/ \E t \in TaskIds :
                    section[t] = "out" /\ (T_Start_Of(t) \/ T_Restart_Of(t) \/ T_Delete_Of(t))
      BY <2>1, <3>1, <3>3, TaskServicesUnits
    <3>4. CASE \/ \E s \in (1..MaxSemaphore) \ {Lock} : Sm_P_On(s) \/ Sm_V_On(s) \/ Sm_Delete_On(s)
               \/ Tm_TickReturn \/ Tm_WkAfter \/ Tm_Ev \/ Tm_Cancel
      BY <2>1, <3>1, <3>4, SemaphoreTimeUnits
    <3>5. CASE CreatesLock  BY <2>1, <3>1, <3>5, CreateUnits
    <3>6. CASE QueueServices \/ EventServices  BY <2>1, <3>1, <3>6, QueueEventUnits
    <3>7. QED  BY <2>4, <3>2, <3>3, <3>4, <3>5, <3>6 DEF OtherServices
  <2>5. QED  BY <1>5, <2>2, <2>3, <2>4 DEF Elsewhere
<1>6. QED  BY <1>1, <1>2, <1>3, <1>4, <1>5 DEF MutexNext

\* What tasks wait for, and the sum of count and owners, in every state.
THEOREM MutexInvariant == ASSUME Disciplined PROVE MutexSpec => []MutexInv
<1>1. MutexInit => MutexInv  BY InitUnits
<1>2. KernelInv /\ DisciplineInv /\ GivenOut /\ MutexInv /\ [MutexNext]_<<vars, section>>
        => MutexInv'
  BY NextUnits DEF Premises
<1>3. QED
  BY <1>1, <1>2, MutexSteps, KernelInvariant, KernelDiscipline, KernelWaits, PTL DEF MutexSpec

\* For any number of tasks and units no unit of the semaphore is granted twice or lost:
\* not by an sm_v that finds a wait just timed out, and not between the grant and the
\* instruction that reads D0.
THEOREM MutexUnits == ASSUME Disciplined PROVE MutexSpec => []UnitsConserved
<1>1. MutexInv => UnitsConserved  BY DEF MutexInv, UnitsConserved, OwnersNow
<1>2. QED  BY <1>1, MutexInvariant, PTL
=============================================================================
