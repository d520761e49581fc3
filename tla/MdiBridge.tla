------------------------------ MODULE MdiBridge ------------------------------
(***************************************************************************)
(* The J2534 bridge of the emulator (adapters/j2534/bridge.rs) and the MDI *)
(* server at its other end (adapters/mdi/server.rs, Session of mdi/raw.rs),*)
(* which runs in a process of its own.                                     *)
(*                                                                         *)
(* Commands go down through a channel, a writer thread, a socket, a reader *)
(* thread and a channel: `down` is all of them, one queue.  Lines come up  *)
(* through the output of the process, a reader thread and a channel: `up`. *)
(* A command is in `down` when it reaches the server; the bridge may find  *)
(* no line for now though one is in `up`.  Each may break at any place.    *)
(*                                                                         *)
(* Abstractions.  A request is its ticket and its content: an ordinary     *)
(* frame, or one that starts or stops a periodic read of a control unit    *)
(* (build feature mdi-body-read-experiment; without it no such frame       *)
(* passes the gate).  Frames of others, the lines for the log, and PING    *)
(* are left out, but not what becomes of a PING that fails.  The driver is *)
(* external: a write returns when the frame is sent, or fails and may have *)
(* sent it; what is sent is heard again on its bus, in order, or not at    *)
(* all.                                                                    *)
(***************************************************************************)
EXTENDS Naturals, Sequences

CONSTANTS
  Buses,     \* the buses of the adapter (0 and 2)
  Periodic,  \* control units whose periodic reads may be started (four, on bus 2)
  MaxTicket  \* bound of the model: requests of a controller

VARIABLES
  asked,        \* requests of each controller so far
  wanted,       \* the request its firmware waits for; 0: none
  told,         \* the last request the firmware was told is sent
  host,         \* where the emulation thread is
  outstanding,  \* the request of each bus handed over and not confirmed
  last,         \* the last ticket handed over
  event,        \* the completion that the poll in progress will return
  down, up,
  gone,         \* queues whose sender is gone
  broken,       \* queues that nobody reads any more
  server,       \* where the server's main thread is
  tickets,      \* the last ticket the server has taken
  active,       \* periodic reads the server will stop (polling_active)
  clean,        \* cleanup_ok
  heard,        \* what each bus of the driver has to be read
  wire,         \* history: the tickets sent on each bus
  reading       \* the periodic reads that are running, in the vehicle

firmware == <<asked, wanted, told>>
bridge == <<host, outstanding, last, event>>
link == <<down, up, gone, broken>>
session == <<server, tickets, active, clean>>
vehicle == <<heard, wire, reading>>
vars == <<firmware, bridge, link, session, vehicle>>

Ordinary == [does |-> "read", id |-> "none"]
Contents(c) ==
  {Ordinary} \cup IF c = 2 THEN [does : {"start", "stop"}, id : Periodic] ELSE {}
None == [ticket |-> 0, content |-> Ordinary, accepted |-> FALSE]
NoEvent == [c |-> 0, ticket |-> 0]
Line(what, c, ticket, content) == [what |-> what, c |-> c, ticket |-> ticket, content |-> content]
EndLine == Line("end", 0, 0, Ordinary)
QuitLine == Line("quit", 0, 0, Ordinary)
-----------------------------------------------------------------------------
(***************************************************************************)
(* The firmware of the controllers (CanLink has them in detail).           *)
(***************************************************************************)
Ask(c) ==
  /\ host = "open" /\ wanted[c] = 0 /\ asked[c] < MaxTicket
  /\ asked' = [asked EXCEPT ![c] = @ + 1]
  /\ wanted' = [wanted EXCEPT ![c] = asked[c] + 1]
  /\ UNCHANGED <<told, bridge, link, session, vehicle>>

Withdraw(c) ==
  /\ host = "open" /\ wanted[c] # 0
  /\ wanted' = [wanted EXCEPT ![c] = 0]
  /\ UNCHANGED <<asked, told, bridge, link, session, vehicle>>
-----------------------------------------------------------------------------
(***************************************************************************)
(* The bridge, on the emulation thread.                                    *)
(***************************************************************************)
Fails == host' = "failed" /\ event' = NoEvent

\* `transmit`: an error when the last request is unconfirmed, withdrawn or not, or
\* when the command cannot be queued.
Transmit(c) ==
  /\ host = "open" /\ wanted[c] > last[c]
  /\ \/ /\ outstanding[c] = None
        /\ \E x \in Contents(c) :
             /\ outstanding' = [outstanding EXCEPT ![c] = [None EXCEPT !.ticket = wanted[c], !.content = x]]
             /\ down' = IF "down" \in broken THEN down
                        ELSE Append(down, Line("tx", c, wanted[c], x))
        /\ last' = [last EXCEPT ![c] = wanted[c]]
        /\ UNCHANGED <<host, event>>
     \/ /\ outstanding[c] # None \/ "down" \in broken
        /\ Fails
        /\ UNCHANGED <<outstanding, last, down>>
  /\ UNCHANGED <<firmware, up, gone, broken, session, vehicle>>

PollBegin ==
  /\ host = "open" /\ host' = "poll"
  /\ UNCHANGED <<firmware, outstanding, last, event, link, session, vehicle>>

\* A line for an unknown request, or out of order, is an error; so is the end of
\* the server.
PollLine ==
  /\ host = "poll" /\ up # <<>>
  /\ up' = Tail(up)
  /\ LET line == Head(up)
         c == line.c
         mine == outstanding[c]
     IN CASE line.what = "accept" ->
               IF mine.ticket = line.ticket /\ ~mine.accepted
                 THEN /\ outstanding' = [outstanding EXCEPT ![c].accepted = TRUE]
                      /\ UNCHANGED <<host, event>>
                 ELSE Fails /\ UNCHANGED outstanding
          [] line.what = "heard" ->
               IF mine # None /\ mine.accepted /\ mine.content = line.content
                 THEN /\ outstanding' = [outstanding EXCEPT ![c] = None]
                      /\ event' = [c |-> c, ticket |-> mine.ticket]
                      /\ host' = "checks"
                 ELSE Fails /\ UNCHANGED outstanding
          [] OTHER -> Fails /\ UNCHANGED outstanding
  /\ UNCHANGED <<firmware, last, down, gone, broken, session, vehicle>>

\* No line for now, or none any more.
PollEmpty ==
  /\ host = "poll"
  /\ \/ host' = "checks" /\ UNCHANGED event
     \/ up = <<>> /\ "up" \in gone \cup broken /\ Fails
  /\ UNCHANGED <<firmware, outstanding, last, link, session, vehicle>>

\* The deadline of a request, the exit of the server, a PING that cannot be queued:
\* the completion of the batch is lost with the error.
PollFails ==
  /\ host = "checks"
  /\ \/ \E c \in Buses : outstanding[c] # None
     \/ server \in {"ended", "killed"}
     \/ "down" \in broken
  /\ Fails
  /\ UNCHANGED <<firmware, outstanding, last, link, session, vehicle>>

\* The completion goes to its controller, which knows whether it is still wanted.
PollReturns ==
  /\ host = "checks"
  /\ host' = "open"
  /\ event' = NoEvent
  /\ IF event.ticket # 0 /\ wanted[event.c] = event.ticket
       THEN /\ told' = [told EXCEPT ![event.c] = event.ticket]
            /\ wanted' = [wanted EXCEPT ![event.c] = 0]
       ELSE UNCHANGED <<told, wanted>>
  /\ UNCHANGED <<asked, outstanding, last, link, session, vehicle>>

\* `close`, after an error or when the session ends: QUIT, if it can be queued, is
\* the last command.
Close ==
  /\ host \in {"open", "failed"}
  /\ host' = "closing"
  /\ down' \in {down} \cup IF "down" \in broken THEN {} ELSE {Append(down, QuitLine)}
  /\ gone' = gone \cup {"down"}
  /\ UNCHANGED <<firmware, outstanding, last, event, up, broken, session, vehicle>>

\* The emulator ends without a close (in a close, that breaks what it still reads).
Crash ==
  /\ host \in {"open", "poll", "checks", "failed"}
  /\ host' = "crashed"
  /\ gone' = gone \cup {"down"}
  /\ broken' = broken \cup {"up"}
  /\ event' = NoEvent
  /\ UNCHANGED <<firmware, outstanding, last, down, up, session, vehicle>>

\* close waits for the process, which it kills after two seconds.
Closed ==
  /\ host = "closing" /\ server \in {"ended", "killed"}
  /\ host' = "closed"
  /\ UNCHANGED <<firmware, outstanding, last, event, link, session, vehicle>>
-----------------------------------------------------------------------------
(***************************************************************************)
(* The link: a thread at one of its places ends, what has not passed it is *)
(* lost.                                                                   *)
(***************************************************************************)
BreakDown ==
  /\ "down" \notin broken
  /\ \E n \in 0..Len(down) : down' = SubSeq(down, 1, n)
  /\ broken' = broken \cup {"down"}
  /\ gone' = gone \cup {"down"}
  /\ UNCHANGED <<firmware, bridge, up, session, vehicle>>

BreakUp ==
  /\ "up" \notin broken
  /\ \E n \in 0..Len(up) : up' = SubSeq(up, 1, n)
  /\ broken' = broken \cup {"up"}
  /\ UNCHANGED <<firmware, bridge, down, gone, session, vehicle>>
-----------------------------------------------------------------------------
(***************************************************************************)
(* The server.                                                             *)
(***************************************************************************)
Runs == server \in {"commands", "receive"}

\* A line that nobody reads is a panic, and the session is closed as it unwinds, or it
\* is lost further up.
Say(line, next) ==
  IF "up" \in broken THEN server' \in {"closing", next} /\ UNCHANGED up
  ELSE server' = next /\ up' = Append(up, line)

Marked(x) == CASE x.does = "start" -> active \cup {x.id}
               [] x.does = "stop" -> active \ {x.id}
               [] OTHER -> active
Sent(c, x) ==
  /\ reading' = CASE x.does = "start" -> reading \cup {x.id}
                  [] x.does = "stop" -> reading \ {x.id}
                  [] OTHER -> reading
  /\ heard' \in {[heard EXCEPT ![c] = Append(@, x)], heard}

\* A write that fails, and may have sent the frame.
WriteFails(c, ticket, x) ==
  /\ \/ wire' = [wire EXCEPT ![c] = Append(@, ticket)] /\ Sent(c, x)
     \/ UNCHANGED vehicle
  /\ clean' = (clean /\ x.does # "stop")
  /\ server' = "closing"
  /\ UNCHANGED up

WriteSucceeds(c, ticket, x) ==
  /\ wire' = [wire EXCEPT ![c] = Append(@, ticket)] /\ Sent(c, x)
  /\ Say(Line("accept", c, ticket, x), "commands")
  /\ UNCHANGED clean

\* Mutant: a write that fails is tried again.
Write_Retries(c, ticket, x) ==
  \/ WriteSucceeds(c, ticket, x)
  \/ /\ wire' = [wire EXCEPT ![c] = Append(Append(@, ticket), ticket)] /\ Sent(c, x)
     /\ Say(Line("accept", c, ticket, x), "commands")
     /\ UNCHANGED clean

Write(c, ticket, x) == WriteSucceeds(c, ticket, x) \/ WriteFails(c, ticket, x)

\* The gate refuses what is no periodic read, or the ticket is old: an error.
Refused ==
  /\ server = "commands" /\ down # <<>> /\ Head(down).what = "tx"
  /\ Head(down).content = Ordinary \/ Head(down).ticket <= tickets[Head(down).c]
  /\ down' = Tail(down)
  /\ server' = "closing"
  /\ UNCHANGED <<firmware, bridge, up, gone, broken, tickets, active, clean, vehicle>>

\* Mutant: a start is remembered only when its write has succeeded.
Command_MarksLate ==
  /\ server = "commands" /\ down # <<>> /\ Head(down).what = "tx"
  /\ Head(down).ticket > tickets[Head(down).c]
  /\ down' = Tail(down)
  /\ tickets' = [tickets EXCEPT ![Head(down).c] = Head(down).ticket]
  /\ \/ WriteSucceeds(Head(down).c, Head(down).ticket, Head(down).content)
          /\ active' = Marked(Head(down).content)
     \/ WriteFails(Head(down).c, Head(down).ticket, Head(down).content)
          /\ UNCHANGED active
  /\ UNCHANGED <<firmware, bridge, gone, broken>>

\* `transmit`: the ticket and the periodic read are remembered, then the frame is
\* written, once, and accepted.
Command ==
  /\ server = "commands" /\ down # <<>> /\ Head(down).what = "tx"
  /\ Head(down).ticket > tickets[Head(down).c]
  /\ down' = Tail(down)
  /\ tickets' = [tickets EXCEPT ![Head(down).c] = Head(down).ticket]
  /\ active' = Marked(Head(down).content)
  /\ Write(Head(down).c, Head(down).ticket, Head(down).content)
  /\ UNCHANGED <<firmware, bridge, gone, broken>>

Quit ==
  /\ server = "commands" /\ down # <<>> /\ Head(down).what = "quit"
  /\ down' = Tail(down)
  /\ server' = "closing"
  /\ UNCHANGED <<firmware, bridge, up, gone, broken, tickets, active, clean, vehicle>>

\* No command for now; none any more is an error.
NoCommand ==
  /\ server = "commands" /\ down = <<>>
  /\ server' = IF "down" \in gone THEN "closing" ELSE "receive"
  /\ UNCHANGED <<firmware, bridge, link, tickets, active, clean, vehicle>>

\* The host is silent for five seconds, the session takes 300, or a read fails.
GivesUp ==
  /\ Runs
  /\ server' = "closing"
  /\ UNCHANGED <<firmware, bridge, link, tickets, active, clean, vehicle>>

Receive(c) ==
  /\ server = "receive" /\ heard[c] # <<>>
  /\ heard' = [heard EXCEPT ![c] = Tail(@)]
  /\ Say(Line("heard", c, 0, Head(heard[c])), "receive")
  /\ UNCHANGED <<firmware, bridge, down, gone, broken, tickets, active, clean, wire, reading>>

Received ==
  /\ server = "receive" /\ server' = "commands"
  /\ UNCHANGED <<firmware, bridge, link, tickets, active, clean, vehicle>>

\* `close` stops the periodic reads in turn, each once; one that fails makes the
\* clean-up fail.
StopReading(p) ==
  /\ server = "closing" /\ p \in active
  /\ active' = active \ {p}
  /\ \/ reading' = reading \ {p} /\ UNCHANGED clean
     \/ reading' \in {reading, reading \ {p}} /\ clean' = FALSE
  /\ UNCHANGED <<firmware, bridge, link, server, tickets, heard, wire>>

\* The channels are released, which may fail, and the result is printed.  A stop is
\* printed before it is written: if nobody reads, the panic leaves it out.
End ==
  /\ server = "closing" /\ (active = {} \/ "up" \in broken)
  /\ server' = "ended"
  /\ clean' \in {clean, FALSE}
  /\ up' = IF "up" \in broken THEN up ELSE Append(up, EndLine)
  /\ gone' = gone \cup {"up"}
  /\ UNCHANGED <<firmware, bridge, down, broken, tickets, active, vehicle>>

\* By close after two seconds, or by the watchdog of the server when the driver hangs.
Kill ==
  /\ server \notin {"ended", "killed"}
  /\ server' = "killed"
  /\ gone' = gone \cup {"up"}
  /\ UNCHANGED <<firmware, bridge, down, up, broken, tickets, active, clean, vehicle>>
-----------------------------------------------------------------------------
Blank ==
  /\ asked = [c \in Buses |-> 0] /\ wanted = asked /\ told = asked /\ last = asked
  /\ outstanding = [c \in Buses |-> None] /\ event = NoEvent
  /\ down = <<>> /\ up = <<>> /\ gone = {} /\ broken = {}
  /\ tickets = asked /\ active = {} /\ clean = TRUE
  /\ heard = [c \in Buses |-> <<>>] /\ wire = heard /\ reading = {}

\* `start` has returned and the server is READY.
Init == Blank /\ host = "open" /\ server = "commands"

\* No session.
Over == Blank /\ host = "closed" /\ server = "ended"

Poll == PollBegin \/ PollLine \/ PollEmpty \/ PollFails \/ PollReturns
Server ==
  \/ Refused \/ Command \/ Quit \/ NoCommand \/ GivesUp \/ Received \/ End
  \/ \E c \in Buses : Receive(c)
  \/ \E p \in Periodic : StopReading(p)

Next ==
  \/ \E c \in Buses : Ask(c) \/ Withdraw(c) \/ Transmit(c)
  \/ Poll \/ Close \/ Crash \/ Closed \/ BreakDown \/ BreakUp \/ Server \/ Kill

\* The server is scheduled and its driver returns or the watchdog ends it; a bridge
\* that failed is closed.
Fairness ==
  /\ WF_vars(Server)
  /\ WF_vars(Close /\ host = "failed")
  /\ WF_vars(Closed)

Spec == Init /\ [][Next]_vars
-----------------------------------------------------------------------------
\* Bridge and server keep the promise of CanPromise: a request is written at most
\* once, also when a write or the link fails, and the firmware is told only of the
\* request it still wants, when the vehicle has it.
Promise == INSTANCE CanPromise WITH Controllers <- Buses, done <- told
BridgeKept == Promise!Spec

\* When the emulator is done with the bridge, in whatever way, the server ends, and
\* it leaves no periodic read running in the vehicle, not even one whose start had no
\* known outcome: unless it was killed, a stop was not acknowledged, or nobody read
\* its output any more.
ReadsEnd ==
  host \in {"failed", "crashed", "closing"} ~>
    \/ server = "killed"
    \/ server = "ended" /\ (reading = {} \/ ~clean \/ "up" \in broken)
=============================================================================
