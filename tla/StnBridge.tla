------------------------------ MODULE StnBridge ------------------------------
(***************************************************************************)
(* The bridge to an OBDLink MX+ (adapters/obdlink_guest.rs) and the byte   *)
(* server of the Android app at its other end (MxNativeBridge.java).       *)
(*                                                                         *)
(* The adapter has one line of text in each direction and is on one bus at *)
(* a time.  The worker lets it monitor (STM) when there is nothing to do,  *)
(* interrupts that for a request, takes it through the commands that the   *)
(* request needs, and waits for the prompt that ends each of them.  `out`  *)
(* and `in` are what is under way to and from the adapter.                 *)
(*                                                                         *)
(* Abstractions.  A run of settings that are written and read back with no *)
(* other effect is one command.  A received line is a frame or one of the  *)
(* answers that the worker tells apart; one that cannot be parsed is       *)
(* "other".  A socket command and its reply are one step, which may fail   *)
(* with or without its effect; a reply that comes late can only be read by *)
(* the clean-up, which has failed by then.  The gate and the start-up are  *)
(* left out.  The adapter is external: it may refuse a command, fail to    *)
(* send a frame it was given, or say nothing any more.                     *)
(***************************************************************************)
EXTENDS Naturals, Sequences, FiniteSets

CONSTANTS
  Buses,        \* the controllers that have a bus: 0 and 2
  InputLimit,   \* requests on their way to the worker (32)
  EventLimit,   \* events on their way to the emulator (4096)
  MaxRequests,  \* bound of the model: requests of all controllers
  MaxHeard      \* bound of the model: frames of others

ASSUME StnBridgeAssumption == {InputLimit, EventLimit, MaxRequests, MaxHeard} \subseteq Nat

VARIABLES
  asked, wanted, told,  \* as in MdiBridge
  host,         \* where the emulation thread is
  requests,     \* input: requests for the worker
  events,       \* output: events for the emulator
  errors,       \* the failure of the worker: the request it was at
  stop,         \* the worker has to end
  worker,       \* where the worker is
  job,          \* the request the worker has taken
  active,       \* the request a failure would name (active_tx)
  todo,         \* the commands that are left of it
  lines,        \* the answer so far to the first of them
  link,         \* receiving, monitoring, synchronized, controller
  release,      \* the clean-up: none, running, confirmed or unconfirmed
  server,       \* the byte server: it serves or has released Bluetooth
  out, in,
  adapter,      \* the adapter: mode, bus, protocol open, wake-up mode
  wire,         \* history: the tickets each bus has carried; 0: a wrong frame
  heard,        \* history: the bus of each frame that was heard
  posted,       \* history: the requests reported as sent
  got           \* the last frame the emulator has received

firmware == <<asked, wanted, told>>
bridge == <<host, got>>
channels == <<requests, events, errors, stop>>
work == <<job, active, todo, lines>>
air == <<out, in>>
device == <<adapter, wire, heard>>
vars ==
  <<firmware, bridge, channels, worker, work, link, release, server, air, device, posted>>

None == [c |-> 0, ticket |-> 0, wake |-> FALSE]
Command(what) == [what |-> what, c |-> 0, ticket |-> 0, wake |-> FALSE, last |-> FALSE]
Text(what) == [what |-> what, c |-> 0, n |-> 0]
Prompt == Text("prompt")
Quiet == [receiving |-> FALSE, monitoring |-> FALSE, synchronized |-> TRUE, controller |-> 0]

Asked == {request \in Buses \X (1..MaxRequests) : request[2] <= asked[request[1]]}
Least(S) == CHOOSE n \in S : \A m \in S : n <= m
-----------------------------------------------------------------------------
(***************************************************************************)
(* The firmware of the controllers (CanLink has them in detail) and the    *)
(* bridge, on the emulation thread.                                        *)
(***************************************************************************)
workerSide == <<worker, work, link, release, server, air, device, posted>>

Withdraw(c) ==
  /\ host = "open" /\ wanted[c] # 0
  /\ wanted' = [wanted EXCEPT ![c] = 0]
  /\ UNCHANGED <<asked, told, bridge, channels, workerSide>>

\* A request, and its `transmit`: it goes behind those of both controllers that are
\* waiting.  A frame the gate refuses, a full queue, or no worker is an error.
Transmit(c) ==
  /\ host = "open" /\ wanted[c] = 0 /\ Cardinality(Asked) < MaxRequests
  /\ asked' = [asked EXCEPT ![c] = @ + 1]
  /\ wanted' = [wanted EXCEPT ![c] = asked[c] + 1]
  /\ \/ /\ Len(requests) < InputLimit /\ worker # "ended"
        /\ \E wake \in IF c = 2 THEN BOOLEAN ELSE {FALSE} :
             requests' = Append(requests, [c |-> c, ticket |-> wanted'[c], wake |-> wake])
        /\ UNCHANGED host
     \/ host' = "failed" /\ UNCHANGED requests
  /\ UNCHANGED <<told, got, events, errors, stop, workerSide>>

\* `poll` asks for a failure first, which leaves the events unread,
PollFails ==
  /\ host = "open" /\ errors # <<>>
  /\ host' = "failed"
  /\ UNCHANGED <<firmware, got, channels, workerSide>>

\* and takes all events there are, also those of a worker that fails meanwhile.
PollBegin ==
  /\ host = "open" /\ errors = <<>> /\ events # <<>>
  /\ host' = "poll"
  /\ UNCHANGED <<firmware, got, channels, workerSide>>

\* A completion goes to its controller, which knows whether it is still wanted.
PollTake ==
  /\ host = "poll" /\ events # <<>>
  /\ events' = Tail(events)
  /\ LET e == Head(events)
     IN IF e.what = "received" THEN got' = e.n /\ UNCHANGED firmware
        ELSE /\ IF wanted[e.c] = e.n
                  THEN /\ told' = [told EXCEPT ![e.c] = e.n]
                       /\ wanted' = [wanted EXCEPT ![e.c] = 0]
                  ELSE UNCHANGED <<told, wanted>>
             /\ UNCHANGED <<asked, got>>
  /\ UNCHANGED <<host, requests, errors, stop, workerSide>>

PollEnd ==
  /\ host = "poll" /\ events = <<>>
  /\ host' = "open"
  /\ UNCHANGED <<firmware, got, channels, workerSide>>

\* `close`, after an error or when the session ends, waits for the worker.
Close ==
  /\ host \in {"open", "failed"}
  /\ host' = "closing" /\ stop' = TRUE
  /\ UNCHANGED <<firmware, got, requests, events, errors, workerSide>>

Closed ==
  /\ host = "closing" /\ worker = "ended"
  /\ host' = "closed"
  /\ UNCHANGED <<firmware, got, channels, workerSide>>
-----------------------------------------------------------------------------
(***************************************************************************)
(* The worker: commands and answers.                                       *)
(***************************************************************************)
ending == release # "none"

\* An error of the session is reported, with the request in progress, and the
\* clean-up follows; one of the clean-up ends it.
Fails ==
  /\ worker' = IF ending THEN "release" ELSE "cleanup"
  /\ errors' = IF ending THEN errors ELSE <<active>>
  /\ release' = IF ending THEN "unconfirmed" ELSE release

Goes(next) == worker' = next /\ UNCHANGED <<errors, release>>

\* What a command that fails may have done.
Written(x) ==
  {out} \cup IF link.synchronized /\ server = "serves" THEN {Append(out, x)} ELSE {}

\* A command to the server (`socket`): nothing is said any more once the order of
\* commands and replies is in doubt.
Sends(x, after, next) ==
  \/ /\ link.synchronized /\ server = "serves"
     /\ out' = Append(out, x)
     /\ link' = after
     /\ Goes(next)
  \/ /\ out' \in Written(x)
     /\ link' = [link EXCEPT !.synchronized = FALSE]
     /\ Fails

\* READ with bytes: what is under way is split anywhere.  A prompt ends the exchange
\* before the lines are looked at.
Packets == IF link.synchronized THEN {SubSeq(in, 1, n) : n \in 1..Len(in)} ELSE {}
Prompted(items) == \E i \in DOMAIN items : items[i] = Prompt
Idle(items) ==
  IF Prompted(items) THEN [link EXCEPT !.receiving = FALSE, !.monitoring = FALSE] ELSE link
Fetches(items) ==
  /\ in' = SubSeq(in, Len(items) + 1, Len(in))
  /\ link' = Idle(items)

\* Mutant: a status line is no error.
Harmless_AnyStatus(item) == TRUE

\* The lines of a session are frames, or one of these; a STOPPED only where the
\* worker has interrupted.
Harmless(item) ==
  \/ item.what \in {"frame", "ok", "nodata", "prompt"}
  \/ item.what = "stopped" /\ link.monitoring

\* The places of S, in their order.
InOrder(S) ==
  {at \in [1..Cardinality(S) -> S] :
     /\ \A i, j \in DOMAIN at : i < j => at[i] < at[j]
     /\ \A s \in S : \E i \in DOMAIN at : at[i] = s}

\* `receive`: frames become events, up to the first line that is an error, or the
\* first frame for which there is no room.
Receives(next) ==
  \E items \in Packets :
    LET bad == {i \in DOMAIN items : ~Harmless(items[i])}
        good == 1 .. IF bad = {} THEN Len(items) ELSE Least(bad) - 1
    IN \E at \in InOrder({i \in good : items[i].what = "frame"}) :
         LET all == events \o [i \in DOMAIN at |-> [what |-> "received", c |-> link.controller, n |-> items[at[i]].n]]
         IN /\ Fetches(items)
            /\ events' = SubSeq(all, 1, IF Len(all) < EventLimit THEN Len(all) ELSE EventLimit)
            /\ IF bad = {} /\ Len(all) <= EventLimit
                 THEN Goes(IF Prompted(items) THEN next ELSE worker)
                 ELSE Fails

others == <<firmware, bridge, requests, stop, server, device, posted>>

\* No bytes any more: the socket is closed, or out of order.
ReadFails ==
  /\ worker \in {"loop", "drain", "answer", "finish"} /\ link.receiving
  /\ worker = "loop" => ~stop /\ requests = <<>>
  /\ server = "released" \/ ~link.synchronized
  /\ link' = [link EXCEPT !.synchronized = FALSE]
  /\ Fails
  /\ UNCHANGED <<others, events, work, air>>

\* The journal cannot be written, before a command, with a packet that is lost before it
\* is parsed or when its prompt has been seen; a packet is none; or the session is 30
\* minutes old.
Breaks ==
  /\ worker \in {"loop", "drain", "next", "answer", "finish"}
  /\ worker = "loop" => ~stop
  /\ Fails
  /\ \E items \in {<<>>} \cup Packets :
       /\ in' = SubSeq(in, Len(items) + 1, Len(in))
       /\ link' \in {link, Idle(items)}
  /\ UNCHANGED <<others, events, work, out>>

\* A deadline passes: two seconds for the end of monitoring, three for an answer.
TimesOut ==
  /\ worker \in {"drain", "answer"} /\ link.receiving
  /\ Fails
  /\ UNCHANGED <<others, events, work, link, air>>

\* Mutant: the deadline is looked at after a packet only.
FinishTimesOut_AfterPacket ==
  /\ worker = "finish" /\ link.receiving /\ in # <<>>
  /\ link' = [link EXCEPT !.synchronized = FALSE]
  /\ Fails
  /\ UNCHANGED <<others, events, work, air>>

\* Three seconds for an ordinary request, which is neither interrupted nor repeated.
FinishTimesOut ==
  /\ worker = "finish" /\ link.receiving
  /\ link' = [link EXCEPT !.synchronized = FALSE]
  /\ Fails
  /\ UNCHANGED <<others, events, work, air>>
-----------------------------------------------------------------------------
(***************************************************************************)
(* The worker: its loop.                                                   *)
(***************************************************************************)
\* The commands of a request.  On the single-wire bus a wake-up is sent in a mode of
\* its own.  The protocol is opened for each: an interrupt may have closed it.
Mode(wake) == [Command("mode") EXCEPT !.wake = wake]
Last(x) == [x EXCEPT !.last = TRUE]
Select(c) ==
  LET to == [Command("bus") EXCEPT !.c = c]
  IN IF c = 2 THEN <<Command("close"), to, Command("open"), Last(Mode(FALSE))>>
     ELSE <<Command("close"), to, Last(Command("open"))>>
Program(r) ==
  LET request == [Command("request") EXCEPT !.c = r.c, !.ticket = r.ticket, !.wake = r.wake]
  IN (IF link.controller # r.c THEN Select(r.c) ELSE <<>>)
       \o CASE r.wake -> <<Command("open"), Mode(TRUE), request, Mode(FALSE), Command("counters")>>
            [] r.c = 2 /\ ~r.wake -> <<Command("open"), Mode(FALSE), request>>
            [] OTHER -> <<Command("open"), request>>
Begins(r) == active' = r /\ todo' = Program(r)

Stops ==
  /\ worker = "loop" /\ stop
  /\ Goes("cleanup")
  /\ UNCHANGED <<others, events, work, link, air>>

\* The monitoring is interrupted for a request.
Take ==
  /\ worker = "loop" /\ ~stop /\ requests # <<>>
  /\ requests' = Tail(requests)
  /\ job' = Head(requests)
  /\ \/ /\ link.receiving /\ Sends(Command("interrupt"), link, "drain")
        /\ UNCHANGED <<active, todo>>
     \/ ~link.receiving /\ Begins(Head(requests)) /\ Goes("next") /\ UNCHANGED <<link, out>>
  /\ UNCHANGED <<firmware, bridge, stop, server, device, posted, events, lines, in>>

Monitor ==
  /\ worker = "loop" /\ ~stop /\ requests = <<>> /\ ~link.receiving
  /\ Sends(Command("monitor"), [link EXCEPT !.receiving = TRUE, !.monitoring = TRUE], "loop")
  /\ UNCHANGED <<others, events, work, in>>

Listen ==
  /\ worker = "loop" /\ ~stop /\ requests = <<>> /\ link.receiving
  /\ Receives("loop")
  /\ UNCHANGED <<others, work, out>>

Drain ==
  /\ worker = "drain" /\ link.receiving
  /\ Receives("next")
  /\ IF worker' = "next" /\ ~ending THEN Begins(job) ELSE UNCHANGED <<active, todo>>
  /\ UNCHANGED <<others, job, lines, out>>

\* `send`.  A frame with data is waited for as an ordinary request.
Send ==
  /\ worker = "next" /\ todo # <<>>
  /\ LET x == Head(todo)
     IN Sends(x, [link EXCEPT !.receiving = TRUE],
              IF x.what = "request" /\ ~x.wake THEN "finish" ELSE "answer")
  /\ lines' = <<>>
  /\ UNCHANGED <<others, events, job, active, todo, in>>

Finish ==
  /\ worker = "finish" /\ link.receiving
  /\ Receives("next")
  /\ todo' = IF worker' = "next" /\ ~ending THEN Tail(todo) ELSE todo
  /\ UNCHANGED <<others, job, active, lines, out>>

\* Mutant: what is answered is not compared.
Accepted_AnyAnswer(x, answer) == TRUE

\* `exact`, `reply`: the answer must be OK; a wake-up may have no answer, and counters
\* may be anything.
Accepted(x, answer) ==
  CASE x.what = "request" -> \A i \in DOMAIN answer : answer[i] \in {"ok", "nodata"}
    [] x.what = "counters" -> TRUE
    [] OTHER -> answer = <<"ok">>

Answer ==
  /\ worker = "answer" /\ link.receiving
  /\ \E items \in Packets : \E at \in InOrder({i \in DOMAIN items : items[i] # Prompt}) :
       LET answer == lines \o [i \in DOMAIN at |-> items[at[i]].what]
           x == Head(todo)
       IN /\ in' = SubSeq(in, Len(items) + 1, Len(in))
          /\ lines' = IF Prompted(items) THEN <<>> ELSE answer
          /\ IF ~Prompted(items) THEN Goes("answer") /\ UNCHANGED <<link, todo>>
             ELSE IF Accepted(x, answer)
               THEN /\ link' = IF x.last THEN [Idle(items) EXCEPT !.controller = job.c] ELSE Idle(items)
                    /\ todo' = Tail(todo) /\ Goes("next")
               ELSE link' = Idle(items) /\ UNCHANGED todo /\ Fails
  /\ UNCHANGED <<others, events, job, active, out>>

\* The request is reported as sent; no room for that is an error.
Complete ==
  /\ worker = "next" /\ todo = <<>> /\ ~ending
  /\ IF Len(events) < EventLimit
       THEN /\ events' = Append(events, [what |-> "completed", c |-> job.c, n |-> job.ticket])
            /\ posted' = posted \cup {<<job.c, job.ticket>>}
            /\ active' = None
            /\ job' = None
            /\ Goes("loop")
       ELSE Fails /\ UNCHANGED <<events, posted, active, job>>
  /\ UNCHANGED <<firmware, bridge, requests, stop, server, device, todo, lines, link, air>>

\* `cleanup` ends what is going on as the session would, without a request, and
\* closes the protocol.  (What the worker will not look at again is reset, here and at
\* its end.)
Cleanup ==
  /\ worker = "cleanup"
  /\ todo' = <<Command("counters"), Command("close")>>
  /\ \/ /\ link.monitoring /\ link.synchronized /\ server = "serves"
        /\ out' = Append(out, Command("interrupt"))
        /\ worker' = "drain" /\ release' = "running"
        /\ UNCHANGED link
     \/ /\ ~link.monitoring
        /\ worker' = (IF link.receiving THEN "finish" ELSE "next") /\ release' = "running"
        /\ UNCHANGED <<link, out>>
     \/ /\ link.monitoring
        /\ link' = [link EXCEPT !.synchronized = FALSE]
        /\ worker' = "release" /\ release' = "unconfirmed"
        /\ out' \in Written(Command("interrupt"))
  /\ job' = None /\ active' = None /\ lines' = <<>>
  /\ UNCHANGED <<others, events, errors, in>>

\* CLOSE is the server's own and is sent in any case.  The worker then drops its end.
Release ==
  /\ worker = "release" \/ (worker = "next" /\ todo = <<>> /\ ending)
  /\ worker' = "ended"
  /\ \/ /\ server = "serves" /\ server' = "released"
        /\ release' = IF release = "running" THEN "confirmed" ELSE release
     \/ server' \in {server, "released"} /\ release' = "unconfirmed"
  /\ \E n \in 0..Len(out) : out' = IF server' = server THEN out ELSE SubSeq(out, 1, n)
  /\ in' = <<>> /\ todo' = <<>> /\ lines' = <<>> /\ link' = Quiet
  /\ UNCHANGED <<firmware, bridge, requests, events, errors, stop, job, active, device, posted>>
-----------------------------------------------------------------------------
(***************************************************************************)
(* The byte server, Bluetooth and the adapter.                             *)
(***************************************************************************)
beyond == <<firmware, bridge, channels, worker, work, link, release, posted>>

\* The server ends: the emulator is gone, the adapter is disconnected, a write or the
\* emulator takes too long, the queue of packets is full, the app closes it.  What was
\* received is dropped, and so is some of what was sent.  It closes Bluetooth, which is
\* assumed to succeed: the code cannot do more than try.
ServerEnds ==
  /\ server = "serves" /\ server' = "released"
  /\ in' = <<>>
  /\ \E n \in 0..Len(out) : out' = SubSeq(out, 1, n)
  /\ UNCHANGED <<beyond, device>>

Says(items) == in' = IF server = "serves" /\ worker # "ended" THEN in \o items ELSE in
Replies(what) == Says(<<Text(what), Prompt>>)

\* A frame of another unit, while the adapter monitors.
Hear ==
  /\ adapter.mode = "monitor" /\ server = "serves" /\ Len(heard) < MaxHeard
  /\ heard' = Append(heard, adapter.bus)
  /\ Says(<<[what |-> "frame", c |-> adapter.bus, n |-> Len(heard) + 1]>>)
  /\ UNCHANGED <<beyond, server, out, adapter, wire>>

\* What arrives while it monitors only ends that; a return alone repeats the last
\* command, if it is answered with more than a prompt.
Interrupted ==
  /\ adapter.mode = "monitor" /\ out # <<>>
  /\ out' = Tail(out)
  /\ adapter' = [adapter EXCEPT !.mode = "idle", !.open = FALSE]
  /\ Replies("stopped")
  /\ UNCHANGED <<beyond, server, wire, heard>>

Takes(what) ==
  /\ adapter.mode = "idle" /\ out # <<>> /\ Head(out).what = what
  /\ out' = Tail(out)
  /\ UNCHANGED <<beyond, server>>

Monitors ==
  /\ Takes("monitor") /\ adapter' = [adapter EXCEPT !.mode = "monitor", !.open = TRUE]
  /\ UNCHANGED <<in, wire, heard>>

Return ==
  /\ Takes("interrupt")
  /\ \/ adapter' = adapter /\ Says(<<Prompt>>)
     \/ adapter' = [adapter EXCEPT !.mode = "monitor", !.open = TRUE] /\ UNCHANGED in
  /\ UNCHANGED <<wire, heard>>

\* A setting takes effect and is confirmed, or is refused.
Settled(x) ==
  CASE x.what = "open" -> [adapter EXCEPT !.open = TRUE]
    [] x.what = "close" -> [adapter EXCEPT !.open = FALSE]
    [] x.what = "bus" -> [adapter EXCEPT !.bus = x.c, !.open = FALSE]
    [] OTHER -> [adapter EXCEPT !.wake = x.wake]
Sets ==
  /\ \E what \in {"open", "close", "bus", "mode"} : Takes(what)
  /\ \/ adapter' = Settled(Head(out)) /\ Replies("ok")
     \/ adapter' = adapter /\ Replies("other")
  /\ UNCHANGED <<wire, heard>>

Counts ==
  /\ Takes("counters") /\ Replies("other")
  /\ UNCHANGED device

\* A frame goes to the bus and in the mode the adapter has, if the protocol is open; a
\* response may be heard before the prompt.  An error says nothing about the frame.
Carries ==
  LET x == Head(out)
      carried == IF x.c = adapter.bus /\ x.wake = adapter.wake THEN x.ticket ELSE 0
      sent == wire' = [wire EXCEPT ![adapter.bus] = Append(@, carried)]
  IN /\ Takes("request")
     /\ \/ adapter.open /\ sent /\ Replies("nodata") /\ UNCHANGED heard
        \/ /\ adapter.open /\ sent /\ Len(heard) < MaxHeard /\ server = "serves"
           /\ heard' = Append(heard, adapter.bus)
           /\ Says(<<[what |-> "frame", c |-> adapter.bus, n |-> Len(heard) + 1], Prompt>>)
        \/ ((adapter.open /\ sent) \/ UNCHANGED wire) /\ Replies("other") /\ UNCHANGED heard
     /\ UNCHANGED adapter

-----------------------------------------------------------------------------
\* The set-up is done, which selects bus 0, or requests of either bus have been served
\* before those that are counted.
Init ==
  /\ asked = [c \in Buses |-> 0] /\ wanted = asked /\ told = asked
  /\ host = "open" /\ stop = FALSE /\ got = 0
  /\ requests = <<>> /\ events = <<>> /\ errors = <<>>
  /\ worker = "loop" /\ job = None /\ active = None /\ todo = <<>> /\ lines = <<>>
  /\ link \in {[Quiet EXCEPT !.controller = c] : c \in {0} \cup Buses}
  /\ release = "none" /\ server = "serves" /\ out = <<>> /\ in = <<>>
  /\ adapter = [mode |-> "idle", bus |-> link.controller, open |-> TRUE, wake |-> FALSE]
  /\ wire = [c \in Buses |-> <<>>] /\ heard = <<>> /\ posted = {}

Poll == PollFails \/ PollBegin \/ PollTake \/ PollEnd
Worker ==
  \/ Stops \/ Take \/ Monitor \/ Listen \/ Drain \/ Send \/ Finish \/ Answer
  \/ Complete \/ Cleanup \/ Release
  \/ ReadFails \/ TimesOut \/ FinishTimesOut
Adapter ==
  Hear \/ Interrupted \/ Monitors \/ Return \/ Sets \/ Counts \/ Carries

Next ==
  \/ \E c \in Buses : Transmit(c) \/ Withdraw(c)
  \/ Poll \/ Close \/ Closed
  \/ Worker \/ Breaks \/ ServerEnds \/ Adapter

\* The worker is scheduled and its deadlines pass, the emulator polls and closes a
\* bridge that failed, and the server sees that the emulator has dropped its end.
\* Nothing is assumed of the adapter.
Fairness ==
  /\ WF_vars(Worker)
  /\ WF_vars(Poll)
  /\ WF_vars(Close /\ host = "failed")
  /\ WF_vars(Closed)
  /\ WF_vars(ServerEnds /\ worker = "ended")

Spec == Init /\ [][Next]_vars
-----------------------------------------------------------------------------
\* The bridge keeps the promise of CanPromise: whatever the adapter answers, a frame is
\* given to the bus once, on its own bus and in its mode, and the firmware is told only
\* of the request it still wants, when the bus has it.
Promise == INSTANCE CanPromise WITH Controllers <- Buses, done <- told
StnKept == Promise!Spec

\* What is told is true.  The emulator receives the frames that were heard, in order
\* and on the bus each was heard on, although the adapter is on one bus at a time; none
\* is missing, unless there is a failure.  A request that is on the bus and not reported
\* as sent is the one that a failure names.  A clean-up that calls itself confirmed
\* leaves an adapter with the protocol closed that nobody is connected to, also when an
\* interrupt had to be repeated.
FramesTrue ==
  \A i \in DOMAIN events : events[i].what = "received" =>
    LET e == events[i]
        before(n) == \E j \in 1..(i - 1) : events[j].what = "received" /\ events[j].n = n
    IN /\ e.n \in DOMAIN heard /\ e.c = heard[e.n]
       /\ e.n > got /\ \A n \in e.n .. Len(heard) : ~before(n)
       /\ errors = <<>> => \A n \in (got + 1) .. (e.n - 1) : before(n)
FailureNamed ==
  \A c \in Buses : \A i \in DOMAIN wire[c] :
    \/ <<c, wire[c][i]>> \in posted
    \/ LET named == IF errors = <<>> THEN active ELSE Head(errors)
       IN named.c = c /\ named.ticket = wire[c][i]
CleanupTrue ==
  release = "confirmed" =>
    server = "released" /\ out = <<>> /\ adapter.mode = "idle" /\ ~adapter.open
ReportsTrue == FramesTrue /\ FailureNamed /\ CleanupTrue

\* Every request that was handed over is completed or the session ends, and a session
\* that ends, in whatever way, releases the adapter, also one that answers no more.
Pending(c, k) ==
  /\ worker # "ended"
  /\ \/ job.c = c /\ job.ticket = k
     \/ \E i \in DOMAIN requests : requests[i].c = c /\ requests[i].ticket = k
StnSettles ==
  /\ \A c \in Buses, k \in 1..MaxRequests : Pending(c, k) ~> ~Pending(c, k)
  /\ errors # <<>> \/ stop ~> host = "closed" /\ server = "released"
=============================================================================
