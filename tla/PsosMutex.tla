------------------------------ MODULE PsosMutex ------------------------------
(***************************************************************************)
(* Tasks that use a pSOS semaphore the way guests do: sm_p before a        *)
(* section, the return code in D0 read when the task has the CPU again,    *)
(* sm_v after the section.  Between the grant of a unit and the            *)
(* instruction that reads D0 the task may be switched away, suspended,     *)
(* overtaken or interrupted.  The guest creates the semaphore once, does   *)
(* not delete it, and neither deletes nor restarts a task that uses it.    *)
(***************************************************************************)
EXTENDS PsosKernel

CONSTANTS Lock,  \* the semaphore
          Units  \* its initial count: how many tasks the section admits

ASSUME LockAssumption == Lock \in 1..MaxSemaphore /\ Units \in 0..CountLimit

VARIABLE section  \* of each task: "out", "asked" (sm_p called) or "in"

Enters ==
  /\ Sm_P_On(Lock) /\ ~InHandler
  /\ section[current] = "out"
  /\ section' = [section EXCEPT ![current] = "asked"]

\* The instruction after sm_p reads D0.
ReadsCode ==
  /\ Compute /\ ~InHandler
  /\ section[current] = "asked"
  /\ section' = [section EXCEPT ![current] = IF live.code = "ok" THEN "in" ELSE "out"]

Leaves ==
  /\ Sm_V_On(Lock) /\ ~InHandler
  /\ section[current] = "in"
  /\ section' = [section EXCEPT ![current] = "out"]

\* Lock is created with Units.
CreatesLock ==
  Sm_Create /\ (~semaphores[Lock].live /\ semaphores'[Lock].live =>
                  semaphores'[Lock].count = Units)

\* The services that leave Lock and its users alone.
OtherServices ==
  \/ T_Create \/ T_Suspend \/ T_Resume \/ T_SetPri \/ T_Mode \/ NoEffect
  \/ \E t \in TaskIds : section[t] = "out" /\ (T_Start_Of(t) \/ T_Restart_Of(t) \/ T_Delete_Of(t))
  \/ \E s \in (1..MaxSemaphore) \ {Lock} : Sm_P_On(s) \/ Sm_V_On(s) \/ Sm_Delete_On(s)
  \/ CreatesLock \/ QueueServices \/ EventServices
  \/ Tm_Tick \/ Tm_WkAfter \/ Tm_Ev \/ Tm_Cancel

\* Everything else that happens; a task that called sm_p reads D0 first.
Elsewhere ==
  /\ \/ Host \/ Interrupt \/ Trap13 \/ Tm_TickReturn \/ Fault \/ Stopped
     \/ (section[current] # "asked" \/ InHandler) /\ (Compute \/ WriteSR \/ OtherServices)
  /\ UNCHANGED section

MutexInit == Init /\ section = [t \in TaskIds |-> "out"]
MutexNext == Enters \/ ReadsCode \/ Leaves \/ Elsewhere
MutexSpec == MutexInit /\ [][MutexNext]_<<vars, section>>

CodeOf(t) == IF t = current THEN live.code ELSE tasks[t].cpu.code

\* A task owns a unit once it has been granted, read or not.
Owns(t) ==
  \/ section[t] = "in"
  \/ section[t] = "asked" /\ tasks[t].wait.on = "none" /\ CodeOf(t) = "ok"

\* Units are conserved: the count and the tasks that own a unit add up to the
\* initial count, so a unit is never granted twice (an sm_v that wakes a task
\* whose wait has just timed out) and never vanishes.
UnitsConserved ==
  semaphores[Lock].live =>
    semaphores[Lock].count + Cardinality({t \in TaskIds : Owns(t)}) = Units
=============================================================================
