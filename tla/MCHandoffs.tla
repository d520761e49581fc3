----------------------------- MODULE MCHandoffs -----------------------------
(***************************************************************************)
(* The handoffs between two threads, side by side: in a behaviour one of   *)
(* them is in use and the others are over, so that every state is a state  *)
(* of one handoff.                                                         *)
(***************************************************************************)
EXTENDS SerialRx

CONSTANTS
  PumpCapacity, MaxPackets,
  Dirs, MaxFrames, MaxEpoch,
  KeyCapacity, MaxKeys

VARIABLES
  request, sent, pump, held, packets, stopping, health, cleanup, session,
  polled, received, told

VARIABLES
  files, directory, generation, closed, setter, revision, queued, worker,
  applied, ready, uiQueued, posted, ui, shown, wiped

VARIABLES
  accepted, keys, keysClosed, keyPump, mailbox, keysStopping, thread, late,
  native, consumed, bytes, waiting, saved

serialVars == vars
pumpVars ==
  <<request, sent, pump, held, packets, stopping, health, cleanup, session, polled, received, told>>
lcdVars ==
  <<files, directory, generation, closed, setter, revision, queued, worker, applied, ready,
    uiQueued, posted, ui, shown, wiped>>
keyVars ==
  <<accepted, keys, keysClosed, keyPump, mailbox, keysStopping, thread, late, native, consumed,
    bytes, waiting, saved>>
MCVars == <<serialVars, pumpVars, lcdVars, keyVars>>

Pump == INSTANCE ReceivePump WITH Capacity <- PumpCapacity
Lcd == INSTANCE LcdPump
Keys ==
  INSTANCE KeyMailbox WITH
    Capacity <- KeyCapacity, queue <- keys, closed <- keysClosed,
    pump <- keyPump, stopping <- keysStopping

MCInit ==
  \/ Init /\ Pump!Over /\ Lcd!Over /\ Keys!Over
  \/ Over /\ Pump!Init /\ Lcd!Over /\ Keys!Over
  \/ Over /\ Pump!Over /\ Lcd!Init /\ Keys!Over
  \/ Over /\ Pump!Over /\ Lcd!Over /\ Keys!Init

MCNext ==
  \/ Next /\ UNCHANGED <<pumpVars, lcdVars, keyVars>>
  \/ Pump!Next /\ UNCHANGED <<serialVars, lcdVars, keyVars>>
  \/ Lcd!Next /\ UNCHANGED <<serialVars, pumpVars, keyVars>>
  \/ Keys!Next /\ UNCHANGED <<serialVars, pumpVars, lcdVars>>

MCSpec ==
  /\ MCInit /\ [][MCNext]_MCVars
  /\ Fairness /\ Pump!Fairness /\ Lcd!Fairness /\ Keys!Fairness
-----------------------------------------------------------------------------
(***************************************************************************)
(* The properties of the modules, under names a configuration can use.     *)
(***************************************************************************)

\* A session that has ended leaves no USB request outstanding (ReceivePump).
NothingOutstanding == Pump!NothingOutstanding

\* Every USB packet is received or a failure is reported (ReceivePump).
PacketsSurface == Pump!PacketsSurface

\* The receive pump implements StreamPromise (ReceivePump).
PumpKept == Pump!PumpKept

\* The display shows no frame of an earlier directory (LcdPump).
NoStaleScreen == Lcd!NoStaleScreen

\* The latest frame is shown in the end (LcdPump).
LatestShown == Lcd!LatestShown

\* No key is lost, doubled or overtaken (KeyMailbox).
KeysKept == Keys!KeysKept

\* The stop command stays until the program reads it (KeyMailbox).
StopKept == Keys!StopKept

\* A stopped session ends (KeyMailbox).
StopEnds == Keys!StopEnds
=============================================================================
