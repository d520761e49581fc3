--------------------------- MODULE StreamPromise ---------------------------
(***************************************************************************)
(* What a receive buffer between a device and a diagnostic client          *)
(* promises, with no threads, queues or flags: the client has the first    *)
(* chunks the device produced, in order and without a gap, and once it has *)
(* been told of a failure it is given nothing more.  An incomplete reply   *)
(* is therefore never taken for a complete one.                            *)
(***************************************************************************)
EXTENDS Naturals, Sequences

VARIABLES
  arrived,    \* chunks the device has produced; they are 1, 2, ...
  delivered,  \* chunks the client has been given
  ended       \* the client has been told of a failure

vars == <<arrived, delivered, ended>>

Init ==
  /\ arrived = 0
  /\ delivered = <<>>
  /\ ended = FALSE

Arrive ==
  /\ arrived' = arrived + 1
  /\ UNCHANGED <<delivered, ended>>

Deliver(n) ==
  /\ ~ended
  /\ n \in Len(delivered)..arrived
  /\ delivered' = [i \in 1..n |-> i]
  /\ UNCHANGED <<arrived, ended>>

End ==
  /\ ended' = TRUE
  /\ UNCHANGED <<arrived, delivered>>

Next ==
  \/ Arrive
  \/ \E n \in Len(delivered)..arrived : Deliver(n)
  \/ End

Spec == Init /\ [][Next]_vars
=============================================================================
