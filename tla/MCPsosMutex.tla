---------------------------- MODULE MCPsosMutex ----------------------------
(***************************************************************************)
(* Instances of PsosMutex for TLC.                                         *)
(***************************************************************************)
EXTENDS PsosMutex, MCPsosKernel

PreparedMutexSpec ==
  /\ Prepared
  /\ section = [t \in TaskIds |-> "out"]
  /\ [][MutexNext]_<<vars, section>>

MutexCalls == {"sm_p", "sm_v", "sm_create", "sm_delete", "t_suspend", "t_resume", "t_delete",
               "t_restart", "interrupt"}
MutexHandlerCalls == {"tm_tick"}
=============================================================================
