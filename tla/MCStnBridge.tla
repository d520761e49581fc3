----------------------------- MODULE MCStnBridge -----------------------------
(***************************************************************************)
(* An instance of StnBridge for TLC.                                       *)
(***************************************************************************)
EXTENDS StnBridge

FairSpec == Spec /\ Fairness
=============================================================================
