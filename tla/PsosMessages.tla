---------------------------- MODULE PsosMessages ----------------------------
(***************************************************************************)
(* The messages of PsosKernel, followed from q_send or q_urgent to the     *)
(* task that reads them.  `owed` is a history variable: the messages the   *)
(* kernel accepted that no task has had in its registers yet.              *)
(***************************************************************************)
EXTENDS PsosKernel

VARIABLE owed

\* A message is told apart from a notice and from event bits.
ASSUME MessageAssumption ==
  \A m \in Messages : m \notin Notices /\ \A bits \in SUBSET Events : m # bits

\* A message the sender was told is sent.
Accepted == fresh \ fresh'

\* The messages of a queue that is deleted go with it.
Discarded ==
  UNION {{queues[q].messages[i] : i \in DOMAIN queues[q].messages} :
           q \in {p \in 1..MaxQueue : queues[p].live /\ ~queues'[p].live}}

\* What an interrupt handler receives, which it reads in registers of its own.
HandlerTakes ==
  {Head(queues[q].messages) :
     q \in {p \in 1..MaxQueue : /\ InHandler /\ queues[p].messages # <<>>
                                /\ queues'[p].messages = Tail(queues[p].messages)}}

\* What the task on the CPU reads in D2-D5, and what a handler has read.
Read == ({live'.data} \cup HandlerTakes) \cap Messages

MessageInit == Init /\ owed = {}
MessageNext == Next /\ owed' = ((owed \cup Accepted) \ Discarded) \ Read
MessageSpec == MessageInit /\ [][MessageNext]_<<vars, owed>>

InQueues(m) ==
  UNION {{<<q, i>> : i \in {j \in DOMAIN queues[q].messages : queues[q].messages[j] = m}} :
           q \in 1..MaxQueue}
InContexts(m) == {t \in TaskIds \ {current} : tasks[t].cpu.data = m}

\* A message the kernel accepted is in exactly one place until a task reads it
\* (one position of one queue, or the saved registers of one woken task), and
\* no queue holds a message that was read: none is lost, doubled or delivered
\* twice, whatever suspensions, time-outs, urgent sends and interrupts do.
EachMessageOnce ==
  /\ \A m \in owed : Cardinality(InQueues(m)) + Cardinality(InContexts(m)) = 1
  /\ \A q \in 1..MaxQueue : \A i \in DOMAIN queues[q].messages : queues[q].messages[i] \in owed
=============================================================================
