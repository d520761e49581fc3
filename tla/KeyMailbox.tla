------------------------------ MODULE KeyMailbox ------------------------------
(***************************************************************************)
(* Keys and the stop command on their way from the Android application to  *)
(* the native program, through one file that holds one command.            *)
(*                                                                         *)
(* Threads: the user interface offers keys (InteractiveKeyPump.offer) and  *)
(* stops the session (MainActivity.stopSession); the pump's worker writes  *)
(* the file (InteractiveKeyPump.run); the session thread closes the pump   *)
(* and writes "stop" (MainActivity.runSession); the native program reads   *)
(* and then removes the file (interactive.rs, Session::poll) and gives the *)
(* key to the guest as two bytes, down and up (bus.rs, press_key).         *)
(*                                                                         *)
(* Abstractions.  A key is its number and its kind.  Time: a key of an     *)
(* arrow may expire while the pump holds it, a wait may time out whenever  *)
(* it goes on.  A byte stands for the six reads it is held.  The session   *)
(* is offline; checkpoints are there or not (recovery.rs).                 *)
(***************************************************************************)
EXTENDS Naturals, Sequences, SequencesExt

CONSTANTS
  Capacity,  \* keys the queue of the pump holds (16)
  MaxKeys    \* bound of the model: keys that are accepted

Kinds == {"arrow", "action", "exit"}

VARIABLES
  accepted,   \* the keys accepted so far
  queue,      \* the queue of the pump
  closed,     \* the pump is cancelled or closed
  pump,       \* its worker: the step it is at, its key, whether that has expired
  mailbox,    \* the command in the file, or Nothing
  stopping,   \* the user has stopped the session
  thread,     \* the step the session thread is at
  late,       \* history: the pump outlived the second that close waits for it
  native,     \* the native program: the step it is at and the command it has read
  consumed,   \* keys it has removed from the file
  bytes,      \* bytes that the guest has still to read from the keypad
  waiting,    \* the guest is paused, to be restored
  saved       \* there is a checkpoint

pumpVars == <<queue, closed, pump>>
nativeVars == <<native, consumed, bytes, waiting, saved>>
vars == <<accepted, pumpVars, mailbox, stopping, thread, late, nativeVars>>

Nothing == [id |-> 0, kind |-> "nothing"]
StopCommand == [id |-> 0, kind |-> "stop"]
NoKey == [at |-> "poll", key |-> Nothing, expired |-> FALSE]
Running == native.at \in {"poll", "consume"}
-----------------------------------------------------------------------------
(***************************************************************************)
(* The user interface.                                                     *)
(***************************************************************************)

\* A full queue refuses the key.
Offer(kind) ==
  /\ ~closed /\ ~stopping /\ Len(accepted) < MaxKeys
  /\ Len(queue) < Capacity
  /\ accepted' = Append(accepted, [id |-> Len(accepted) + 1, kind |-> kind])
  /\ queue' = Append(queue, Last(accepted'))
  /\ UNCHANGED <<closed, pump, mailbox, stopping, thread, late, nativeVars>>

\* The session is stopped and the pump cancelled.
Stop ==
  /\ ~stopping /\ thread # "done"
  /\ stopping' = TRUE
  /\ closed' = TRUE /\ queue' = <<>>
  /\ UNCHANGED <<accepted, pump, mailbox, thread, late, nativeVars>>
-----------------------------------------------------------------------------
(***************************************************************************)
(* The worker of the pump.                                                 *)
(***************************************************************************)
OthersOfPump == <<accepted, stopping, thread, late, nativeVars>>

Take ==
  /\ pump.at = "poll" /\ ~closed /\ queue # <<>>
  /\ pump' = [NoKey EXCEPT !.at = "wait", !.key = Head(queue)]
  /\ queue' = Tail(queue)
  /\ UNCHANGED <<closed, mailbox, OthersOfPump>>

\* Half a second after it was pressed.
Expire ==
  /\ pump.at \in {"wait", "lock"} /\ pump.key.kind = "arrow" /\ ~pump.expired
  /\ pump' = [pump EXCEPT !.expired = TRUE]
  /\ UNCHANGED <<queue, closed, mailbox, OthersOfPump>>

\* Mutant: a key that has expired waits no longer, but is not dropped either.
Lock_Publishes ==
  /\ pump.at = "lock" /\ ~closed
  /\ pump' = [pump EXCEPT !.at = "written"]
  /\ UNCHANGED <<queue, closed, mailbox, OthersOfPump>>

\* The wait is over when the file is gone, the key has expired or the pump closes.
WaitFree ==
  /\ pump.at = "wait"
  /\ closed \/ mailbox = Nothing \/ pump.expired
  /\ pump' = [pump EXCEPT !.at = "lock"]
  /\ UNCHANGED <<queue, closed, mailbox, OthersOfPump>>

\* The key that has expired is dropped, another is written to a temporary file.
Lock ==
  /\ pump.at = "lock" /\ ~closed
  /\ pump' = IF pump.expired THEN NoKey ELSE [pump EXCEPT !.at = "written"]
  /\ UNCHANGED <<queue, closed, mailbox, OthersOfPump>>

CheckClosed ==
  /\ pump.at = "written" /\ ~closed
  /\ pump' = [pump EXCEPT !.at = "move"]
  /\ UNCHANGED <<queue, closed, mailbox, OthersOfPump>>

\* The temporary file replaces the file, if there is one.
Move ==
  /\ pump.at = "move"
  /\ mailbox' = pump.key
  /\ pump' = NoKey
  /\ UNCHANGED <<queue, closed, OthersOfPump>>

\* A worker that finds the pump closed, or is interrupted, ends.
End ==
  /\ closed /\ pump.at \in {"poll", "lock", "written"}
  /\ pump' = [NoKey EXCEPT !.at = "end"]
  /\ queue' = <<>>
  /\ UNCHANGED <<closed, mailbox, OthersOfPump>>

Pump == Take \/ WaitFree \/ Lock \/ CheckClosed \/ Move \/ End
-----------------------------------------------------------------------------
(***************************************************************************)
(* The session thread.                                                     *)
(***************************************************************************)
OthersOfThread == <<accepted, pump, stopping, nativeVars>>

\* The program has ended, the session is stopped or its deadline has come: the
\* pump is closed.
ClosePump ==
  /\ thread = "watch"
  /\ closed' = TRUE /\ queue' = <<>>
  /\ thread' = "join"
  /\ UNCHANGED <<mailbox, late, OthersOfThread>>

\* Mutant: the worker is not waited for.
Join_Not ==
  /\ thread = "join"
  /\ thread' = "publish"
  /\ UNCHANGED <<queue, closed, mailbox, late, OthersOfThread>>

\* close waits a second for the worker.
Join ==
  /\ thread = "join"
  /\ late' = (pump.at # "end")
  /\ thread' = "publish"
  /\ UNCHANGED <<queue, closed, mailbox, OthersOfThread>>

PublishStop ==
  /\ thread = "publish"
  /\ mailbox' = IF Running THEN StopCommand ELSE mailbox
  /\ thread' = IF Running THEN "await" ELSE "done"
  /\ UNCHANGED <<queue, closed, late, OthersOfThread>>

Ended ==
  /\ thread = "await" /\ ~Running
  /\ thread' = "done"
  /\ UNCHANGED <<queue, closed, mailbox, late, OthersOfThread>>

\* Mutant: no limit to the wait for the program.
Destroy_Never ==
  /\ FALSE
  /\ UNCHANGED vars

\* After two seconds the program is destroyed.
Destroy ==
  /\ thread = "await" /\ Running
  /\ native' = [at |-> "destroyed", command |-> Nothing]
  /\ thread' = "done"
  /\ UNCHANGED <<accepted, pumpVars, mailbox, stopping, late, consumed, bytes, waiting, saved>>

Thread == Join \/ PublishStop \/ Ended \/ Destroy
-----------------------------------------------------------------------------
(***************************************************************************)
(* The native program.                                                     *)
(***************************************************************************)
OthersOfNative == <<accepted, pumpVars, stopping, thread, late>>
AtPoll == [at |-> "poll", command |-> Nothing]
Stopped == [at |-> "stopped", command |-> Nothing]

\* The key waits in the file while the guest has not read the one before.
Backpressure == mailbox # StopCommand /\ ~waiting /\ bytes > 0

Read ==
  /\ native.at = "poll" /\ mailbox # Nothing /\ ~Backpressure
  /\ native' = [at |-> "consume", command |-> mailbox]
  /\ UNCHANGED <<mailbox, consumed, bytes, waiting, saved, OthersOfNative>>

\* Pause over: the guest is restored to the checkpoint, or the session stops.
Restore ==
  /\ native' = IF saved THEN AtPoll ELSE Stopped
  /\ waiting' = ~saved
  /\ saved' = FALSE
  /\ bytes' = IF saved THEN 0 ELSE bytes

\* A key that is not an arrow may replace the checkpoint.
Press(key) ==
  /\ bytes' = bytes + 2
  /\ native' = AtPoll
  /\ saved' = (saved \/ key.kind # "arrow") \/ UNCHANGED saved
  /\ UNCHANGED waiting

\* The file is removed, whatever it holds by now, and the command is carried out.
\* During the pause only EXIT counts.
Consume ==
  /\ native.at = "consume"
  /\ mailbox' = Nothing
  /\ IF native.command = StopCommand
       THEN native' = Stopped /\ UNCHANGED <<consumed, bytes, waiting, saved>>
       ELSE /\ consumed' = Append(consumed, native.command)
            /\ IF ~waiting THEN Press(native.command)
               ELSE IF native.command.kind = "exit" THEN Restore
               ELSE native' = AtPoll /\ UNCHANGED <<bytes, waiting, saved>>
  /\ UNCHANGED OthersOfNative

\* The guest shows that it cannot go on: it is paused for five seconds.
Pause ==
  /\ native.at = "poll" /\ ~waiting
  /\ waiting' = TRUE
  /\ UNCHANGED <<mailbox, native, consumed, bytes, saved, OthersOfNative>>

PauseOver ==
  /\ native.at = "poll" /\ waiting
  /\ Restore
  /\ UNCHANGED <<mailbox, consumed, OthersOfNative>>

\* Half an hour, the size of the log, an error.
Limit ==
  /\ native.at = "poll"
  /\ native' = Stopped
  /\ UNCHANGED <<mailbox, consumed, bytes, waiting, saved, OthersOfNative>>

\* The guest, unless it is paused, may read the keypad.
GuestReads ==
  /\ native.at = "poll" /\ ~waiting /\ bytes > 0
  /\ bytes' = bytes - 1
  /\ UNCHANGED <<mailbox, native, consumed, waiting, saved, OthersOfNative>>
-----------------------------------------------------------------------------
Blank ==
  /\ queue = <<>> /\ mailbox = Nothing /\ stopping = FALSE /\ late = FALSE
  /\ consumed = <<>> /\ bytes = 0 /\ waiting = FALSE /\ saved = FALSE

Init ==
  /\ Blank
  /\ accepted = <<>> /\ closed = FALSE /\ pump = NoKey
  /\ thread = "watch" /\ native = AtPoll

\* No session.
Over ==
  /\ Blank
  /\ accepted = <<>> /\ closed = TRUE /\ pump = [NoKey EXCEPT !.at = "end"]
  /\ thread = "done" /\ native = Stopped

Next ==
  \/ \E kind \in Kinds : Offer(kind)
  \/ Stop \/ Pump \/ Expire \/ ClosePump \/ Thread
  \/ Read \/ Consume \/ Pause \/ PauseOver \/ Limit \/ GuestReads

\* The threads of the application are scheduled and timers fire; the session thread
\* looks every 50 ms.  Nothing is assumed of the native program.
Fairness ==
  /\ WF_vars(ClosePump /\ (stopping \/ ~Running))
  /\ WF_vars(Thread)
  /\ WF_vars(Pump)

Spec == Init /\ [][Next]_vars
-----------------------------------------------------------------------------
Held == IF pump.at \in {"wait", "lock", "written", "move"} THEN <<pump.key>> ELSE <<>>
InFile == IF mailbox.id = 0 THEN <<>> ELSE <<mailbox>>
OnTheWay == consumed \o InFile \o Held \o queue

\* Until the pump is closed no key is lost, doubled or overtaken between the button
\* and the native program, except the arrow that expired: a key never overwrites one
\* that has not been read, for all the checks of the file that are made before.
KeysKept ==
  ~closed =>
    /\ \A i, j \in DOMAIN OnTheWay : i < j => OnTheWay[i].id < OnTheWay[j].id
    /\ \A i \in DOMAIN accepted :
         accepted[i].kind # "arrow" => Contains(OnTheWay, accepted[i])

\* The stop that the session thread has written stays until the program has read it.
\* The pump was joined before, so no key replaces it, unless the pump's worker stalls
\* for a second; and the program, which reads the file and then removes it, removes
\* it unread only when it was at a key at that moment.
StopKept ==
  [][mailbox = StopCommand /\ mailbox' # StopCommand =>
       \/ native.at = "consume"
       \/ late]_vars

\* The session that is stopped ends, also when the stop is lost on the way or the
\* guest or the program hangs.
StopEnds == stopping ~> (~Running /\ thread = "done")
=============================================================================
