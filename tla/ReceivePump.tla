----------------------------- MODULE ReceivePump -----------------------------
(***************************************************************************)
(* The USB receive pump of the Android application (ReceivePump.java) with *)
(* its source, the queued USB read of the Nano (QueuedReader), and the     *)
(* session that serves the native program from it (NanoProbeActivity).     *)
(*                                                                         *)
(* Two threads: the worker, which reads packets and offers them to a       *)
(* bounded queue, and the session, which polls the queue.  One USB request *)
(* is outstanding at a time; a wait that times out leaves it queued, and   *)
(* the next read waits for the same request again.                         *)
(*                                                                         *)
(* Abstractions.  A packet is its number; the device fills the outstanding *)
(* request at any time (`filled`).  The buffers all have the size of a USB *)
(* packet, so no length check fails.  The counters of stats() are left out.*)
(***************************************************************************)
EXTENDS Naturals, Sequences

CONSTANTS
  Capacity,    \* capacity of the queue (4096)
  MaxPackets   \* bound of the model: packets the device sends

VARIABLES
  request,      \* the USB request: "idle", "queued" or "filled"
  sent,         \* packets the device has sent so far
  pump,         \* position of the worker thread
  held,         \* the packet the worker has read; 0: none
  packets,      \* the queue between the threads
  stopping,     \* the stop flag
  health,       \* the failure field; "none": healthy
  cleanup,      \* the cleanupFailure field
  session,      \* position of the session thread
  polled,       \* the packet taken by the read in progress; 0: none
  received,     \* packets handed to the native program
  told          \* the session has seen a failure

pumpVars == <<request, sent, pump, held, packets, health, cleanup>>
sessionVars == <<session, polled, received, told, stopping>>
vars == <<pumpVars, sessionVars>>

None == 0
-----------------------------------------------------------------------------
(***************************************************************************)
(* The device, external: it fills the outstanding request.                 *)
(***************************************************************************)
Fill ==
  /\ request = "queued" /\ sent < MaxPackets
  /\ request' = "filled"
  /\ sent' = sent + 1
  /\ UNCHANGED <<pump, held, packets, health, cleanup, sessionVars>>
-----------------------------------------------------------------------------
(***************************************************************************)
(* The worker thread.                                                      *)
(***************************************************************************)
PumpGoes(from, to) == pump = from /\ pump' = to

CheckStopping ==
  /\ PumpGoes("loop", IF stopping THEN "finally" ELSE "submit")
  /\ UNCHANGED <<request, sent, held, packets, health, cleanup, sessionVars>>

\* Mutant: every read submits the request anew; what it holds is lost.
Submit_Anew ==
  /\ PumpGoes("submit", "wait")
  /\ request' = "queued"
  /\ UNCHANGED <<sent, held, packets, health, cleanup, sessionVars>>

\* `QueuedReader.read` submits the request unless it is still queued.
Submit ==
  /\ PumpGoes("submit", "wait")
  /\ request' = IF request = "idle" THEN "queued" ELSE request
  /\ UNCHANGED <<sent, held, packets, health, cleanup, sessionVars>>

\* requestWait times out; the request stays where it is.
WaitTimeout ==
  /\ request = "queued"
  /\ PumpGoes("wait", "loop")
  /\ UNCHANGED <<request, sent, held, packets, health, cleanup, sessionVars>>

WaitDone ==
  /\ request = "filled"
  /\ PumpGoes("wait", "offer")
  /\ request' = "idle"
  /\ held' = sent
  /\ UNCHANGED <<sent, packets, health, cleanup, sessionVars>>

\* The request cannot be queued or its completion is missing: the worker's
\* exception sets the failure field.
ReadFails ==
  /\ pump \in {"submit", "wait"}
  /\ pump' = "finally"
  /\ health' = "device"
  /\ UNCHANGED <<request, sent, held, packets, cleanup, sessionVars>>

\* Mutant: the result of offer is ignored.
Offer_Ignored ==
  /\ PumpGoes("offer", "loop")
  /\ held' = None
  /\ packets' = IF Len(packets) < Capacity THEN Append(packets, held) ELSE packets
  /\ UNCHANGED <<request, sent, health, cleanup, sessionVars>>

\* offer, and the exception of a full queue, which sets the failure field.
Offer ==
  /\ pump = "offer"
  /\ held' = None
  /\ \/ /\ Len(packets) < Capacity
        /\ packets' = Append(packets, held)
        /\ pump' = "loop"
        /\ UNCHANGED health
     \/ /\ Len(packets) >= Capacity
        /\ pump' = "finally"
        /\ health' = "overflow"
        /\ UNCHANGED packets
  /\ UNCHANGED <<request, sent, cleanup, sessionVars>>

\* Mutant: a worker that ends on a failure leaves the request behind.
StopSource_AfterStopOnly ==
  /\ PumpGoes("finally", "dead")
  /\ request' = IF health = "none" THEN "idle" ELSE request
  /\ UNCHANGED <<sent, held, packets, health, cleanup, sessionVars>>

\* `source.stop` cancels a request that is queued and waits for it; when it
\* fails, the first failure is kept.
StopSource ==
  /\ PumpGoes("finally", "dead")
  /\ \/ /\ request' = "idle"
        /\ UNCHANGED <<health, cleanup>>
     \/ /\ request # "idle"
        /\ cleanup' = TRUE
        /\ health' = IF health = "none" THEN "cancel" ELSE health
        /\ UNCHANGED request
  /\ UNCHANGED <<sent, held, packets, sessionVars>>

Worker ==
  \/ CheckStopping \/ Submit \/ WaitTimeout \/ WaitDone \/ ReadFails \/ Offer \/ StopSource
-----------------------------------------------------------------------------
(***************************************************************************)
(* The session thread.  An exception ends it: it stops the pump and reads  *)
(* no more.                                                                *)
(***************************************************************************)
Check(then) ==
  IF health = "none" THEN session' = then /\ UNCHANGED told
  ELSE session' = "stop" /\ told' = TRUE

\* A READ command, after the checkHealthy of the command loop.
Poll ==
  /\ session = "serve"
  /\ Check("poll")
  /\ UNCHANGED <<polled, received, stopping, pumpVars>>

\* packets.poll: the oldest packet, or none in time.
Take ==
  /\ session = "poll"
  /\ session' = "polled"
  /\ \/ /\ packets # <<>>
        /\ polled' = Head(packets)
        /\ packets' = Tail(packets)
     \/ /\ packets = <<>>
        /\ polled' = None
        /\ UNCHANGED packets
  /\ UNCHANGED <<received, told, stopping, request, sent, pump, held, health, cleanup>>

\* The health is checked again before the packet is handed on.
HandOn ==
  /\ session = "polled"
  /\ Check("serve")
  /\ received' = IF health = "none" /\ polled # None THEN Append(received, polled)
                 ELSE received
  /\ polled' = None
  /\ UNCHANGED <<stopping, pumpVars>>

\* The session ends: QUIT, Stop, or its time is over.
Quit ==
  /\ session = "serve"
  /\ session' = "stop"
  /\ UNCHANGED <<polled, received, told, stopping, pumpVars>>

\* `stop` sets the flag and waits up to a second for the worker.
Stop ==
  /\ session = "stop"
  /\ stopping' = TRUE
  /\ session' = "joining"
  /\ UNCHANGED <<polled, received, told, pumpVars>>

\* The worker ends in time, or is reported as not stopped.
Joined ==
  /\ session = "joining"
  /\ session' = IF pump = "dead" THEN "done" ELSE "abandoned"
  /\ UNCHANGED <<polled, received, told, stopping, pumpVars>>

Serve == Poll \/ Take \/ HandOn \/ Stop \/ Joined
-----------------------------------------------------------------------------
Init ==
  /\ request = "idle" /\ sent = 0
  /\ pump = "loop" /\ held = None
  /\ packets = <<>>
  /\ stopping = FALSE /\ health = "none" /\ cleanup = FALSE
  /\ session = "serve" /\ polled = None /\ received = <<>> /\ told = FALSE

\* No session with a pump: both threads have ended.
Over ==
  /\ request = "idle" /\ sent = 0
  /\ pump = "dead" /\ held = None
  /\ packets = <<>>
  /\ stopping = TRUE /\ health = "none" /\ cleanup = FALSE
  /\ session = "done" /\ polled = None /\ received = <<>> /\ told = FALSE

Next == Fill \/ Worker \/ Serve \/ Quit

\* Both threads are scheduled, and every USB wait ends.
Fairness == WF_vars(Worker) /\ WF_vars(Serve)

Spec == Init /\ [][Next]_vars
-----------------------------------------------------------------------------
\* Every packet the device sent reaches the native program, or the session is told
\* of a failure, or it is ending.
PacketsSurface ==
  \A i \in 1..MaxPackets :
    sent >= i ~> Len(received) >= i \/ told \/ session \notin {"serve", "poll", "polled"}

\* When the session has ended without an error of the cleanup, no USB request is
\* outstanding: the interface can be released.
NothingOutstanding == session = "done" /\ ~cleanup => request = "idle"

\* The pump keeps the promise of StreamPromise.
Promise ==
  INSTANCE StreamPromise WITH arrived <- sent, delivered <- received, ended <- told
PumpKept == Promise!Spec
=============================================================================
