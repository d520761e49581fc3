--------------------------- MODULE MCPsosMessages ---------------------------
(***************************************************************************)
(* Instances of PsosMessages for TLC.                                      *)
(***************************************************************************)
EXTENDS PsosMessages, MCPsosKernel

PreparedMessageSpec == Prepared /\ owed = {} /\ [][MessageNext]_<<vars, owed>>

MessageCalls == {"q_send", "q_urgent", "q_broadcast", "q_receive", "q_delete", "t_suspend",
                 "t_resume", "t_restart", "interrupt"}
MessageHandlerCalls == {"q_send", "q_receive"}
=============================================================================
