------------------------------- MODULE LcdPump -------------------------------
(***************************************************************************)
(* The display observer of the Android application (NativeLcdPump.java).   *)
(* The native program publishes frames into the directory of its session,  *)
(* each replacing the one before; the pump decodes the latest and shows it.*)
(*                                                                         *)
(* Threads: the native program with the file observer, the worker, which   *)
(* decodes, the main thread, which runs what is posted to it, and a thread *)
(* of the application that may also call setDirectory.                     *)
(*                                                                         *)
(* Abstractions.  A frame is its number in its directory; the time stamp   *)
(* and length of the file identify it.  A frame that is decoded and not    *)
(* shown is recycled, which the model leaves out, as it does I/O errors.   *)
(***************************************************************************)
EXTENDS Naturals, Sequences

CONSTANTS
  Dirs,       \* the directories of the sessions
  MaxFrames,  \* bound of the model: frames published in one directory
  MaxEpoch    \* bound of the model: calls of setDirectory

VARIABLES
  files,       \* the frame published last in each directory; 0: none
  directory,   \* the directory that is shown; NoDir: none
  generation,  \* counts the calls of setDirectory
  closed,
  setter,      \* where a call of setDirectory off the main thread stands
  revision,    \* counts the changes that call for a decode
  queued,      \* a poll is waiting for the worker
  worker,      \* the poll in progress
  applied,     \* stamp of the frame accepted last
  ready,       \* the frame that waits for the main thread
  uiQueued,    \* the presentation of a frame is posted or running
  posted,      \* what is posted to the main thread
  ui,          \* what the main thread is doing, with which frame
  shown,       \* the frame on the display
  wiped        \* history: the frame shown last was removed by a clear that ran late

session == <<directory, generation, closed, setter>>
requests == <<revision, queued>>
decoder == <<worker, applied>>
posts == <<uiQueued, posted>>
display == <<ui, shown, wiped>>
vars == <<files, session, requests, decoder, ready, posts, display>>

NoDir == "no directory"
NoFrame == [dir |-> NoDir, frame |-> 0, epoch |-> 0]
Idle == [at |-> "idle", epoch |-> 0, dir |-> NoDir, observed |-> 0, stamp |-> 0, frame |-> 0]
Rest == [at |-> "idle", frame |-> NoFrame]
Present == [do |-> "present", epoch |-> 0]
Clear(epoch) == [do |-> "clear", epoch |-> epoch]
-----------------------------------------------------------------------------
\* A frame is published.  The event of the observer, which may be missed, asks for
\* a poll, unless one waits already.
Publish(d) ==
  /\ files[d] < MaxFrames
  /\ files' = [files EXCEPT ![d] = @ + 1]
  /\ \/ /\ d = directory /\ ~closed /\ setter = "idle"
        /\ revision' = revision + 1
        /\ queued' = TRUE
     \/ UNCHANGED requests
  /\ UNCHANGED <<session, decoder, ready, posts, display>>

\* The request of every second, which recovers from a missed event.
Timer ==
  /\ ~closed /\ worker = Idle /\ ~queued
  /\ queued' = TRUE
  /\ UNCHANGED <<files, session, revision, decoder, ready, posts, display>>
-----------------------------------------------------------------------------
(***************************************************************************)
(* setDirectory (clear and clearDirectory call it) and close.              *)
(***************************************************************************)
MaySet == generation < MaxEpoch /\ ~closed /\ setter = "idle"

\* On the main thread the display is cleared at once.
SetDirectory(d) ==
  /\ MaySet /\ ui = Rest
  /\ directory' = d
  /\ generation' = generation + 1
  /\ ready' = NoFrame
  /\ shown' = NoFrame
  /\ revision' = revision + 1
  /\ queued' = TRUE
  /\ UNCHANGED <<files, closed, setter, decoder, posts, ui, wiped>>

\* On another thread, which holds the lock meanwhile: the directory, the
\* generation and the waiting frame, the clear that is posted, the request.
CallSetDirectory(d) ==
  /\ MaySet
  /\ directory' = d
  /\ setter' = "invalidate"
  /\ UNCHANGED <<files, generation, closed, requests, decoder, ready, posts, display>>

Invalidate ==
  /\ setter = "invalidate"
  /\ generation' = generation + 1
  /\ ready' = NoFrame
  /\ setter' = "post"
  /\ UNCHANGED <<files, directory, closed, requests, decoder, posts, display>>

\* Mutant: the clear is for the generation before (getAndIncrement).
PostClear_Previous ==
  /\ setter = "post"
  /\ posted' = Append(posted, Clear(generation - 1))
  /\ setter' = "request"
  /\ UNCHANGED <<files, directory, generation, closed, requests, decoder, ready, uiQueued, display>>

PostClear ==
  /\ setter = "post"
  /\ posted' = Append(posted, Clear(generation))
  /\ setter' = "request"
  /\ UNCHANGED <<files, directory, generation, closed, requests, decoder, ready, uiQueued, display>>

Request ==
  /\ setter = "request"
  /\ revision' = revision + 1
  /\ queued' = TRUE
  /\ setter' = "idle"
  /\ UNCHANGED <<files, directory, generation, closed, decoder, ready, posts, display>>

Close ==
  /\ ~closed /\ setter = "idle" /\ ui = Rest
  /\ closed' = TRUE
  /\ directory' = NoDir
  /\ generation' = generation + 1
  /\ queued' = FALSE
  /\ ready' = NoFrame
  /\ UNCHANGED <<files, setter, revision, decoder, posts, display>>
-----------------------------------------------------------------------------
(***************************************************************************)
(* The worker thread: `poll`.                                              *)
(***************************************************************************)
PollBegin ==
  /\ queued /\ worker = Idle
  /\ queued' = FALSE
  /\ worker' = [Idle EXCEPT !.at = "directory", !.epoch = generation]
  /\ UNCHANGED <<files, session, revision, applied, ready, posts, display>>

PollDirectory ==
  /\ worker.at = "directory"
  /\ worker' = IF closed \/ directory = NoDir \/ files[directory] = 0 THEN Idle
               ELSE [worker EXCEPT !.at = "stamp", !.dir = directory, !.observed = revision]
  /\ UNCHANGED <<files, session, requests, applied, ready, posts, display>>

Stamp(frame) == [dir |-> worker.dir, frame |-> frame, revision |-> worker.observed]

\* A frame that was accepted with this revision is not decoded again.
PollStamp ==
  /\ worker.at = "stamp"
  /\ worker' = IF Stamp(files[worker.dir]) = applied THEN Idle
               ELSE [worker EXCEPT !.at = "decode", !.stamp = files[worker.dir]]
  /\ UNCHANGED <<files, session, requests, applied, ready, posts, display>>

\* The file is read after its stamp: it may hold a newer frame.
PollDecode ==
  /\ worker.at = "decode"
  /\ worker' = [worker EXCEPT !.at = "accept", !.frame = files[worker.dir]]
  /\ UNCHANGED <<files, session, requests, applied, ready, posts, display>>

Current == ~closed /\ directory = worker.dir /\ generation = worker.epoch
Decoded == [dir |-> worker.dir, frame |-> worker.frame, epoch |-> worker.epoch]

\* Mutant: the stamp is remembered also for a frame that is not accepted.
PollAccept_StampsAll ==
  /\ worker.at = "accept" /\ setter = "idle"
  /\ applied' = Stamp(worker.stamp)
  /\ ready' = IF Current THEN Decoded ELSE ready
  /\ worker' = IF Current THEN [worker EXCEPT !.at = "present"] ELSE Idle
  /\ UNCHANGED <<files, session, requests, posts, display>>

\* The synchronized block: the frame is accepted if nothing was set meanwhile.
PollAccept ==
  /\ worker.at = "accept" /\ setter = "idle"
  /\ applied' = IF Current THEN Stamp(worker.stamp) ELSE applied
  /\ ready' = IF Current THEN Decoded ELSE ready
  /\ worker' = IF Current THEN [worker EXCEPT !.at = "present"] ELSE Idle
  /\ UNCHANGED <<files, session, requests, posts, display>>

\* `present`: unless a presentation is under way, one is posted.
PostFrame ==
  /\ uiQueued' = TRUE
  /\ posted' = IF uiQueued THEN posted ELSE Append(posted, Present)

PollPresent ==
  /\ worker.at = "present"
  /\ PostFrame
  /\ worker' = Idle
  /\ UNCHANGED <<files, session, requests, applied, ready, display>>
-----------------------------------------------------------------------------
(***************************************************************************)
(* The main thread.                                                        *)
(***************************************************************************)
Runs(do) == ui = Rest /\ posted # <<>> /\ Head(posted).do = do

UiClear ==
  /\ Runs("clear")
  /\ posted' = Tail(posted)
  /\ IF ~closed /\ generation = Head(posted).epoch
       THEN shown' = NoFrame /\ wiped' = (wiped \/ shown.epoch = generation)
       ELSE UNCHANGED <<shown, wiped>>
  /\ UNCHANGED <<files, session, requests, decoder, ready, uiQueued, ui>>

UiTake ==
  /\ Runs("present")
  /\ posted' = Tail(posted)
  /\ ui' = [at |-> "check", frame |-> ready]
  /\ ready' = NoFrame
  /\ UNCHANGED <<files, session, requests, decoder, uiQueued, shown, wiped>>

UiCheck ==
  /\ ui.at = "check"
  /\ ui' = [ui EXCEPT !.at = IF /\ ui.frame # NoFrame /\ ~closed
                                /\ directory = ui.frame.dir /\ generation = ui.frame.epoch
                             THEN "show" ELSE "done"]
  /\ UNCHANGED <<files, session, requests, decoder, ready, posts, shown, wiped>>

UiShow ==
  /\ ui.at = "show"
  /\ shown' = ui.frame /\ wiped' = FALSE
  /\ ui' = [ui EXCEPT !.at = "done"]
  /\ UNCHANGED <<files, session, requests, decoder, ready, posts>>

UiDone ==
  /\ ui.at = "done"
  /\ uiQueued' = FALSE
  /\ ui' = [at |-> "again", frame |-> NoFrame]
  /\ UNCHANGED <<files, session, requests, decoder, ready, posted, shown, wiped>>

\* A frame that came meanwhile is presented next.
UiAgain ==
  /\ ui.at = "again"
  /\ IF ready # NoFrame THEN PostFrame ELSE UNCHANGED posts
  /\ ui' = Rest
  /\ UNCHANGED <<files, session, requests, decoder, ready, shown, wiped>>
-----------------------------------------------------------------------------
Blank ==
  /\ directory = NoDir /\ generation = 0 /\ setter = "idle"
  /\ revision = 0 /\ queued = FALSE
  /\ worker = Idle /\ applied = [dir |-> NoDir, frame |-> 0, revision |-> 0]
  /\ ready = NoFrame /\ uiQueued = FALSE /\ posted = <<>>
  /\ ui = Rest /\ shown = NoFrame /\ wiped = FALSE

Init == Blank /\ files = [d \in Dirs |-> 0] /\ closed = FALSE

\* No display: the pump is closed and nothing is published.
Over == Blank /\ files = [d \in Dirs |-> MaxFrames] /\ closed = TRUE

Setter == Invalidate \/ PostClear \/ Request
Poll == PollBegin \/ PollDirectory \/ PollStamp \/ PollDecode \/ PollAccept \/ PollPresent
Ui == UiClear \/ UiTake \/ UiCheck \/ UiShow \/ UiDone \/ UiAgain

Next ==
  \/ \E d \in Dirs : Publish(d)
  \/ \E d \in Dirs \cup {NoDir} : SetDirectory(d) \/ CallSetDirectory(d)
  \/ Timer \/ Setter \/ Close \/ Poll \/ Ui

\* The threads are scheduled and the timer fires.
Fairness == WF_vars(Timer) /\ WF_vars(Setter) /\ WF_vars(Poll) /\ WF_vars(Ui)

Spec == Init /\ [][Next]_vars
-----------------------------------------------------------------------------
\* Once a change of directory has been carried out on the main thread, the display
\* shows no frame of an earlier generation: neither a poll nor a presentation that
\* was under way brings one back.
NoStaleScreen ==
  shown # NoFrame /\ (shown.epoch # generation \/ shown.dir # directory) =>
    \/ closed
    \/ setter # "idle"
    \/ \E i \in DOMAIN posted : posted[i] = Clear(generation)

\* The latest frame of the directory that stays is shown in the end, missed events
\* and frames that come during a poll or a presentation included.  One case is
\* left: a presentation posted before the clear of a setDirectory off the main
\* thread may show the first frame of the new directory, which that clear then
\* removes; the stamp says that it was shown, and the next frame has to come.
LatestShown ==
  \A d \in Dirs, e \in 1..MaxEpoch :
    (directory = d /\ generation = e /\ files[d] = MaxFrames)
      ~> \/ shown = [dir |-> d, frame |-> MaxFrames, epoch |-> e]
         \/ wiped
         \/ generation # e \/ closed
=============================================================================
