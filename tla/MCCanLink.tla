----------------------------- MODULE MCCanLink -----------------------------
(***************************************************************************)
(* Instances of CanLink for TLC.                                           *)
(***************************************************************************)
EXTENDS CanLink, TLC

\* Controllers that are in operation, with their receive interrupts on.
Operating ==
  [c \in Controllers |-> [Controller EXCEPT !.mode = "on", !.rxIrq = TRUE]]

OperatingSpec == Attached(Operating) /\ [][Next]_vars
OperatingFairSpec == OperatingSpec /\ Fairness
=============================================================================
