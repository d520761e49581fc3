----------------------------- MODULE MCResources -----------------------------
(***************************************************************************)
(* What is handed out and has to be given back, side by side: the memory   *)
(* of the kernel, the channels of the VCX Nano, the periodic reads of the  *)
(* MDI and the text of the configuration.  A behaviour is one of the part  *)
(* that it begins with; the others stay as they are.                       *)
(***************************************************************************)
EXTENDS MdiBridge, TLC

CONSTANTS
  Heap, Areas, Requests, Glue, FirstStack, FirstSuper, MaxTask,
  Savers, Texts, FirstText, Syncs,
  Continuations, Slots, Turn, Batch, Capacity, MaxFrames

VARIABLE part

VARIABLES regions, nextTask, stacks, fresh, held

VARIABLES dest, synced, backups, past, saver, kept, unsure, undone, raced

VARIABLES
  sent, offers, gate, nano, stop, commands, worker, ledger, current, opened, allocated,
  unacknowledged, written, received, events, error, taken

regionVars == <<regions, nextTask, stacks, fresh, held>>
configVars == <<dest, synced, backups, past, saver, kept, unsure, undone, raced>>
nanoVars ==
  <<sent, offers, gate, nano, stop, commands, worker, ledger, current, opened, allocated,
    unacknowledged, written, received, events, error, taken>>
mdiVars == vars

Regions == INSTANCE PsosRegions
Config == INSTANCE ConfigSave
Nano ==
  INSTANCE NanoBridge WITH bridge <- nano, broken <- unacknowledged, wire <- written

ASSUME AreasAssumption == Regions!RegionsAssumption
ASSUME SavesAssumption == Config!TextsAssumption
ASSUME NanoAssumption == Nano!SessionAssumption

MCInit ==
  /\ part \in {"regions", "config", "nano", "mdi"}
  /\ Regions!Init
  /\ Config!Init /\ (part # "config" => dest = FirstText)
  /\ IF part = "nano" THEN Nano!Init ELSE Nano!Over
  /\ IF part = "mdi" THEN Init ELSE Over

MCNext ==
  /\ UNCHANGED part
  /\ \/ part = "regions" /\ Regions!Next /\ UNCHANGED <<configVars, nanoVars, mdiVars>>
     \/ part = "config" /\ Config!Next /\ UNCHANGED <<regionVars, nanoVars, mdiVars>>
     \/ part = "nano" /\ Nano!Next /\ UNCHANGED <<regionVars, configVars, mdiVars>>
     \/ part = "mdi" /\ Next /\ UNCHANGED <<regionVars, configVars, nanoVars>>

MCSpec ==
  /\ MCInit /\ [][MCNext]_<<part, regionVars, configVars, nanoVars, mdiVars>>
  /\ Nano!Fairness /\ Fairness

HeapArea == [base |-> 1, size |-> 14, unit |-> 2]
GuestAreas == {[base |-> 20, size |-> 5, unit |-> 2], [base |-> 30, size |-> 2, unit |-> 1],
               [base |-> 40, size |-> 1, unit |-> 1]}
SaverTexts == ("s1" :> {"a"}) @@ ("s2" :> {"b"})
-----------------------------------------------------------------------------
(***************************************************************************)
(* The properties of the modules, under names a configuration can use.     *)
(***************************************************************************)

\* The segments of a region cover it, every cell once (PsosRegions).
RegionsTiled == Regions!RegionsTiled

\* The stacks of tasks stay their own (PsosRegions).
StacksOwned == Regions!StacksOwned

\* Texts that were saved are still there, and a save replaces only what its own was
\* edited from (ConfigSave).
SavesKept == Config!SavesKept

\* Engine requests are whole on the wire (NanoBridge).
RequestsWhole == Nano!RequestsWhole

\* Completions are those of frames written in time (NanoBridge).
CompletionsTrue == Nano!CompletionsTrue

\* A worker that is gone leaves no channel open (NanoBridge).
ChannelsClosed == Nano!ChannelsClosed

\* A frame is completed or the bridge closes (NanoBridge).
FramesAnswered == Nano!FramesAnswered
=============================================================================
