----------------------------- MODULE CanPromise -----------------------------
(***************************************************************************)
(* What a CANdi controller promises its firmware about transmissions, with *)
(* no queues, threads or batches.  A request is `wanted` until the         *)
(* firmware withdraws it (abort, reset) or is told that it was sent.  The  *)
(* bus carries each request at most once and in the order of the requests, *)
(* withdrawn ones included: a request that is on its way is not recalled.  *)
(***************************************************************************)
EXTENDS Naturals, Sequences

CONSTANT Controllers

VARIABLES
  asked,   \* number of requests so far; they are 1, 2, ...
  wanted,  \* the request the firmware waits for; 0: none
  wire,    \* the requests each bus has carried
  done     \* the last request the firmware was told is sent

vars == <<asked, wanted, wire, done>>

OnWire(c) == {wire[c][i] : i \in DOMAIN wire[c]}

Init ==
  /\ asked = [c \in Controllers |-> 0]
  /\ wanted = [c \in Controllers |-> 0]
  /\ wire = [c \in Controllers |-> <<>>]
  /\ done = [c \in Controllers |-> 0]

Ask(c) ==
  /\ wanted[c] = 0
  /\ asked' = [asked EXCEPT ![c] = @ + 1]
  /\ wanted' = [wanted EXCEPT ![c] = asked[c] + 1]
  /\ UNCHANGED <<wire, done>>

Withdraw(c) ==
  /\ wanted[c] # 0
  /\ wanted' = [wanted EXCEPT ![c] = 0]
  /\ UNCHANGED <<asked, wire, done>>

Carry(c, k) ==
  /\ \A j \in OnWire(c) : j < k
  /\ wire' = [wire EXCEPT ![c] = Append(@, k)]
  /\ UNCHANGED <<asked, wanted, done>>

\* The firmware is told of the request it still wants, and only when the bus
\* has carried it.
Tell(c) ==
  /\ wanted[c] \in OnWire(c)
  /\ done' = [done EXCEPT ![c] = wanted[c]]
  /\ wanted' = [wanted EXCEPT ![c] = 0]
  /\ UNCHANGED <<asked, wire>>

Next ==
  \E c \in Controllers :
    \/ Ask(c) \/ Withdraw(c) \/ Tell(c)
    \/ \E k \in 1..asked[c] : Carry(c, k)

Spec == Init /\ [][Next]_vars
=============================================================================
