--------------------------- MODULE StnBridgeProofs ---------------------------
(***************************************************************************)
(* StnBridge implements CanPromise, and what it reports is true, for any   *)
(* buses, queues and numbers of requests and frames, whatever the adapter  *)
(* answers and wherever the connection breaks.                             *)
(*                                                                         *)
(* The difficulty is that the worker knows the adapter only from a line of *)
(* text.  The invariant says what is under way between the two, for each   *)
(* place of the worker: while it serves requests, an exchange is a command *)
(* not taken yet or its whole answer, and an answer that will be accepted  *)
(* is that of an adapter which has done what it was asked (Answering);     *)
(* after a failure only that at most one request is left, which the        *)
(* adapter will still send on its bus and in its mode (Loaded); in the     *)
(* clean-up, where answers may belong to other commands, that an OK is     *)
(* that of the last one (Closing).                                         *)
(***************************************************************************)
EXTENDS StnBridge, FiniteSetTheorems, SequenceTheorems, WellFoundedInduction, TLAPS

Bus == Buses \cup {0}
Request == [c: Buses, ticket: Nat \ {0}, wake: BOOLEAN]
Settings == {"close", "bus", "open", "mode"}
Commands == Settings \cup {"monitor", "interrupt", "request", "counters"}
Cmd == [what: Commands, c: Bus, ticket: Nat, wake: BOOLEAN, last: BOOLEAN]
Words == {"frame", "ok", "nodata", "other", "stopped"}
Item == {Prompt} \cup [what: Words, c: Bus, n: Nat]
Event == [what: {"completed", "received"}, c: Bus, n: Nat]

StnTypes ==
  /\ asked \in [Buses -> Nat] /\ wanted \in [Buses -> Nat] /\ told \in [Buses -> Nat]
  /\ requests \in Seq(Request) /\ events \in Seq(Event) /\ errors \in Seq(Request \cup {None})
  /\ worker \in {"loop", "drain", "next", "answer", "finish", "cleanup", "release", "ended"}
  /\ job \in Request \cup {None} /\ active \in Request \cup {None}
  /\ todo \in Seq(Cmd) /\ lines \in Seq(Words)
  /\ link \in [receiving: BOOLEAN, monitoring: BOOLEAN, synchronized: BOOLEAN, controller: Bus]
  /\ release \in {"none", "running", "confirmed", "unconfirmed"}
  /\ server \in {"serves", "released"}
  /\ out \in Seq(Cmd) /\ in \in Seq(Item)
  /\ adapter \in [mode: {"idle", "monitor"}, bus: Bus, open: BOOLEAN, wake: BOOLEAN]
  /\ wire \in [Buses -> Seq(Nat)] /\ heard \in Seq(Bus) /\ got \in Nat

Only(list, S) == \A i \in DOMAIN list : list[i].what \in S
Holds(list, what) == \E i \in DOMAIN list : list[i].what = what
Carried(w, k) == \E i \in DOMAIN w : w[i] = k
Beyond(w, k) == \A i \in DOMAIN w : w[i] < k

\* The worker serves requests; it still looks at what is received.
Serving == worker \in {"loop", "drain", "next", "answer", "finish"} /\ release = "none"
Listening ==
  /\ link.synchronized
  /\ Serving \/ worker = "cleanup" \/ worker \in {"drain", "finish"}

\* Where the worker is says what it thinks of the adapter.
Control ==
  /\ worker \in {"loop", "cleanup"} => release = "none"
  /\ worker \in {"drain", "next", "answer", "finish"} => release \in {"none", "running"}
  /\ worker = "release" => release = "unconfirmed"
  /\ worker = "ended" => release \in {"confirmed", "unconfirmed"}
  /\ Serving => link.synchronized /\ errors = <<>>
  /\ link.monitoring => link.receiving
  /\ worker = "loop" => link.monitoring = link.receiving
  /\ worker = "drain" => link.synchronized /\ link.monitoring
  /\ worker = "answer" => link.synchronized /\ ~link.monitoring /\ link.receiving
  /\ worker = "finish" => ~link.monitoring /\ link.receiving
  /\ worker = "next" => ~link.monitoring /\ ~link.receiving
  /\ server = "released" \/ worker = "ended" => in = <<>>
  /\ worker \in {"loop", "drain", "next", "finish"} \/ (worker = "cleanup" /\ errors = <<>>) =>
       lines = <<>>

\* Requests are numbered in the order in which they come.
Tickets ==
  /\ \A c \in Buses : \A i \in DOMAIN wire[c] : wire[c][i] \in 1..asked[c]
  /\ Serving =>
       /\ \A i \in DOMAIN requests :
            LET r == requests[i]
            IN /\ r.ticket \in 1..asked[r.c] /\ (r.wake => r.c = 2) /\ Beyond(wire[r.c], r.ticket)
               /\ r.c = job.c => job.ticket < r.ticket
               /\ \A j \in 1..(i - 1) : requests[j].c = r.c => requests[j].ticket < r.ticket
       /\ IF worker = "loop" THEN job = None
          ELSE job \in Request /\ job.ticket \in 1..asked[job.c] /\ (job.wake => job.c = 2)
       /\ worker = "drain" => Beyond(wire[job.c], job.ticket)

\* The commands `list` take an adapter with the registers `d`, which the worker thinks
\* is on the bus of `controller`, through the request `r`: to its bus, in its mode, and
\* out of that mode.  The bus has carried `w`.
FitsAt(list, i, r, d) ==
  LET x == list[i]
  IN /\ x.what \in Settings \cup {"request", "counters"}
     /\ x.what = "bus" => x.c = r.c
     /\ x.what = "mode" =>
          /\ r.c = 2
          /\ x.wake => \E j \in DOMAIN list : j > i /\ list[j].what = "mode" /\ ~list[j].wake
     /\ x.what = "request" =>
          /\ x.c = r.c /\ x.ticket = r.ticket /\ x.wake = r.wake /\ ~x.last
          /\ \A j \in DOMAIN list : list[j].last \/ list[j].what \in {"bus", "request"} => j <= i
          /\ IF i = 1 THEN d.wake = x.wake
             ELSE r.c = 2 => list[i - 1].what = "mode" /\ list[i - 1].wake = x.wake
Fits(list, r, controller, d, w) ==
  /\ \A i \in DOMAIN list : FitsAt(list, i, r, d)
  /\ d.bus = r.c \/ Holds(list, "bus")
  /\ controller = r.c \/ \E i \in DOMAIN list : list[i].last
  /\ d.wake => r.c = 2 /\ \E i \in DOMAIN list : list[i].what = "mode" /\ ~list[i].wake
  /\ IF Holds(list, "request") THEN Beyond(w, r.ticket) ELSE Carried(w, r.ticket)

FitsNow == Fits(todo, job, link.controller, adapter, wire[job.c])
FitsThen ==
  Fits(Tail(todo), job, IF Head(todo).last THEN job.c ELSE link.controller, adapter, wire[job.c])

\* While the worker monitors, or has asked the adapter to stop that.
asks == IF worker = "drain" THEN <<Command("interrupt")>> ELSE <<>>
Watching ==
  \/ server = "released"
  \/ adapter.mode = "idle" /\ out = <<Command("monitor")>> \o asks /\ in = <<>>
  \/ adapter.mode = "monitor" /\ out = asks /\ Only(in, {"frame"})
  \/ /\ worker = "drain" /\ adapter.mode = "idle" /\ out = <<>>
     /\ \A i \in DOMAIN in : in[i] = Prompt => i = Len(in)

\* While the worker waits for an answer: its words are in `lines` and `in`.
Said(word) == (\E i \in DOMAIN lines : lines[i] = word) \/ Holds(in, word)
Answering ==
  /\ todo # <<>> /\ (worker = "finish" => ~Head(todo).last)
  /\ \/ server = "released"
     \/ out = <<Head(todo)>> /\ lines = <<>> /\ FitsNow
     \/ /\ out = <<>> /\ in # <<>> /\ in[Len(in)] = Prompt
        /\ ~Said("other") \/ Head(todo).what = "counters" => FitsThen
        /\ Said("frame") => Head(todo).what = "request"

Phase ==
  Serving =>
    /\ worker \in {"loop", "drain"} => adapter.bus = link.controller /\ ~adapter.wake
    /\ worker \in {"loop", "drain"} /\ link.receiving => Watching
    /\ worker = "next" => FitsNow
    /\ worker \in {"answer", "finish"} => Answering

\* What is under way as long as the worker may look at it.
Exchange ==
  Listening =>
    /\ \A i \in DOMAIN in : in[i].what = "frame" => in[i].c = link.controller
    /\ IF link.monitoring
       THEN /\ adapter.bus = link.controller
            /\ Only(out, {"monitor", "interrupt"}) /\ Only(in, {"frame", "stopped", "prompt"})
       ELSE /\ adapter.mode = "idle"
            /\ Len(out) <= 1 /\ Only(out, Settings \cup {"request", "counters"})
            /\ out # <<>> => link.receiving /\ in = <<>>
            /\ in # <<>> => link.receiving
            /\ \A i \in DOMAIN in : in[i] = Prompt => i = Len(in)
            /\ Holds(out, "request") => adapter.bus = link.controller

\* The request that is in progress, or that a failure names.
Named == IF errors = <<>> THEN active ELSE Head(errors)

\* A request that the adapter has not taken yet.
Loaded ==
  \A i \in DOMAIN out : out[i].what = "request" =>
    LET x == out[i]
    IN /\ x.c \in Buses /\ x.ticket \in 1..asked[x.c] /\ Beyond(wire[x.c], x.ticket)
       /\ Len(out) = 1 /\ in = <<>>
       /\ adapter.mode = "idle" /\ adapter.bus = x.c /\ adapter.wake = x.wake
       /\ Named.c = x.c /\ Named.ticket = x.ticket
       /\ worker \in {"next", "answer", "finish", "cleanup", "release", "ended"}
       /\ worker # "ended" => ~link.monitoring /\ (link.receiving \/ ~link.synchronized)

Truth ==
  \A i \in DOMAIN events : events[i].what = "completed" =>
    events[i].c \in Buses /\ Carried(wire[events[i].c], events[i].n)

Naming ==
  /\ FailureNamed
  /\ IF Serving /\ worker \in {"next", "answer", "finish"} THEN active = job
     ELSE errors = <<>> => active = None

\* Frames are in order on their way, and while the worker listens none is missing.
Rising(list, kind, last, h) ==
  \A i \in DOMAIN list : list[i].what = kind =>
    /\ list[i].n \in 1..Len(h) /\ list[i].n > last /\ list[i].c = h[list[i].n]
    /\ \A j \in 1..(i - 1) : list[j].what = kind => list[j].n < list[i].n
Reported(list, n) == \E i \in DOMAIN list : list[i].what = "received" /\ list[i].n = n
Underway(list, n) == \E i \in DOMAIN list : list[i].what = "frame" /\ list[i].n = n
Whole(list, last) ==
  \A i \in DOMAIN list : list[i].what = "received" =>
    \A n \in (last + 1)..(list[i].n - 1) : Reported(list, n)
Stream ==
  /\ got <= Len(heard)
  /\ Rising(events, "received", got, heard) /\ Rising(in, "frame", got, heard)
  /\ \A i \in DOMAIN in : in[i].what = "frame" =>
       \A j \in DOMAIN events : events[j].what = "received" => events[j].n < in[i].n
  /\ errors = <<>> => Whole(events, got)
  /\ Listening /\ server = "serves" /\ errors = <<>> /\ (\A i \in DOMAIN lines : lines[i] # "frame") =>
       \A n \in (got + 1)..Len(heard) : Reported(events, n) \/ Underway(in, n)

\* The clean-up.
LastCommand == worker = "answer" /\ todo = <<Command("close")>>
Shut == out = <<>> /\ adapter.mode = "idle" /\ ~adapter.open
Closing ==
  /\ release = "running" /\ worker \in {"drain", "finish"} =>
       todo = <<Command("counters"), Command("close")>>
  /\ release = "running" /\ worker \in {"next", "answer"} =>
       /\ todo \in {<<Command("counters"), Command("close")>>, <<Command("close")>>, <<>>}
       /\ IF todo = <<>> THEN worker = "next" /\ Shut
          ELSE link.synchronized =>
                 /\ Only(out, {"monitor", "interrupt", "counters", "close"})
                 /\ \A i \in DOMAIN out : out[i].what = "close" => i = Len(out) /\ LastCommand
                 /\ Holds(in, "ok") => LastCommand /\ Shut
                 /\ worker = "answer" /\ (\E i \in DOMAIN lines : lines[i] = "ok") =>
                      LastCommand /\ Shut
  /\ release = "confirmed" => server = "released" /\ Shut

StnInv ==
  /\ StnTypes /\ Control /\ Tickets /\ Phase /\ Exchange /\ Loaded /\ Truth
  /\ Naming /\ Stream /\ Closing
-----------------------------------------------------------------------------
(***************************************************************************)
(* The firmware and the emulation thread.                                  *)
(***************************************************************************)

\* What the worker and the adapter have does not change with the emulation thread.
LEMMA HostLeaves ==
  ASSUME StnInv, UNCHANGED <<worker, work, link, release, server, air, device, posted, errors>>
  PROVE  Control' /\ Phase' /\ Exchange' /\ Naming' /\ Closing'
<1> USE DEF StnInv, work, air, device
<1>1. Control'  BY DEF Control, Serving
<1>2. Phase'
  BY DEF Phase, Serving, Watching, Answering, asks, FitsNow, FitsThen, Said
<1>3. Exchange'  BY DEF Exchange, Listening, Serving
<1>4. Naming'  BY DEF Naming, FailureNamed, Serving
<1>5. Closing'  BY DEF Closing, LastCommand, Shut
<1>6. QED  BY <1>1, <1>2, <1>3, <1>4, <1>5

\* ... nor, if it takes nothing and asks nothing, anything else.
LEMMA HostIdles ==
  ASSUME StnInv, UNCHANGED <<asked, told, got, requests, events, errors, workerSide>>,
         wanted' \in [Buses -> Nat]
  PROVE  StnInv'
<1> USE DEF StnInv, workerSide, work, air, device
<1>1. StnTypes'  BY DEF StnTypes
<1>2. Control' /\ Phase' /\ Exchange' /\ Naming' /\ Closing'  BY HostLeaves
<1>3. Tickets'  BY DEF Tickets, Serving
<1>4. Loaded'  BY DEF Loaded, Named
<1>5. Truth'  BY DEF Truth
<1>6. Stream'  BY DEF Stream, Listening, Serving
<1>7. QED  BY <1>1, <1>2, <1>3, <1>4, <1>5, <1>6

LEMMA HostSteps ==
  ASSUME StnInv,
         (\E c \in Buses : Withdraw(c)) \/ PollFails \/ PollBegin \/ PollEnd \/ Close \/ Closed
  PROVE  StnInv'
<1>1. CASE \E c \in Buses : Withdraw(c)
  <2>1. wanted' \in [Buses -> Nat]  BY <1>1 DEF Withdraw, StnInv, StnTypes
  <2>2. UNCHANGED <<asked, told, got, requests, events, errors, workerSide>>
    BY <1>1 DEF Withdraw, bridge, channels
  <2>3. QED  BY <2>1, <2>2, HostIdles
<1>2. CASE PollFails \/ PollBegin \/ PollEnd \/ Close \/ Closed
  <2>1. UNCHANGED <<asked, told, got, requests, events, errors, workerSide>>
    BY <1>2 DEF PollFails, PollBegin, PollEnd, Close, Closed, firmware, channels
  <2>2. wanted' = wanted
    BY <1>2 DEF PollFails, PollBegin, PollEnd, Close, Closed, firmware
  <2>3. wanted' \in [Buses -> Nat]  BY <2>2 DEF StnInv, StnTypes
  <2>4. QED  BY <2>1, <2>3, HostIdles
<1>3. QED  BY <1>1, <1>2

\* A request is the last one of its controller.
LEMMA TransmitStep ==
  ASSUME StnInv, NEW c \in Buses, Transmit(c)
  PROVE  StnInv'
<1> USE DEF Transmit, workerSide, work, air, device
<1>1. UNCHANGED <<events, errors, told, got, workerSide>>
  OBVIOUS
<1> USE DEF StnInv
<1>2. Control' /\ Phase' /\ Exchange' /\ Naming' /\ Closing'  BY <1>1, HostLeaves
<1>3. /\ asked' = [asked EXCEPT ![c] = asked[c] + 1] /\ asked' \in [Buses -> Nat]
      /\ wanted' \in [Buses -> Nat] /\ wanted'[c] = asked[c] + 1
  BY DEF StnTypes
<1>4. \A b \in Buses : asked[b] \in Nat /\ asked'[b] \in Nat /\ asked[b] <= asked'[b]
  BY <1>3 DEF StnTypes
<1>5. requests' \in Seq(Request)
      /\ \/ requests' = requests
         \/ /\ Len(requests') = Len(requests) + 1
            /\ \A i \in 1..Len(requests) : requests'[i] = requests[i]
            /\ requests'[Len(requests')].c = c
            /\ requests'[Len(requests')].ticket = asked[c] + 1
            /\ requests'[Len(requests')].wake => c = 2
  <2>1. CASE requests' = requests  BY <2>1 DEF StnTypes
  <2>2. ASSUME NEW wake \in BOOLEAN, wake => c = 2,
               requests' = Append(requests, [c |-> c, ticket |-> wanted'[c], wake |-> wake])
        PROVE  <1>5
    <3> DEFINE r == [c |-> c, ticket |-> wanted'[c], wake |-> wake]
    <3>1. r \in Request  BY <1>3, <1>4 DEF Request
    <3>2. requests \in Seq(Request)  BY DEF StnTypes
    <3>3. QED  BY <3>1, <3>2, <2>2, <1>3, AppendProperties
  <2>3. \/ requests' = requests
        \/ \E wake \in IF c = 2 THEN BOOLEAN ELSE {FALSE} :
             requests' = Append(requests, [c |-> c, ticket |-> wanted'[c], wake |-> wake])
    OBVIOUS
  <2>4. QED  BY <2>1, <2>2, <2>3
<1>6. StnTypes'  BY <1>1, <1>3, <1>5 DEF StnTypes
<1>7. Tickets'
  <2>1. \A b \in Buses : \A i \in DOMAIN wire'[b] : wire'[b][i] \in 1..asked'[b]
    BY <1>1, <1>4 DEF Tickets, StnTypes
  <2>2. ASSUME Serving'
        PROVE  /\ IF worker' = "loop" THEN job' = None
                  ELSE job' \in Request /\ job'.ticket \in 1..asked'[job'.c]
                       /\ (job'.wake => job'.c = 2)
               /\ worker' = "drain" => Beyond(wire'[job'.c], job'.ticket)
    BY <2>2, <1>1, <1>4 DEF Tickets, Serving, Request
  <2>3. ASSUME Serving', NEW i \in DOMAIN requests'
        PROVE  LET r == requests'[i]
               IN /\ r.ticket \in 1..asked'[r.c] /\ (r.wake => r.c = 2) /\ Beyond(wire'[r.c], r.ticket)
                  /\ r.c = job'.c => job'.ticket < r.ticket
                  /\ \A j \in 1..(i - 1) : requests'[j].c = r.c => requests'[j].ticket < r.ticket
    <3>0. Serving /\ UNCHANGED <<worker, job, wire>>  BY <2>3, <1>1 DEF Serving
    <3>1. requests \in Seq(Request) /\ \A j \in 1..Len(requests) : requests[j] \in Request
      BY DEF StnTypes
    <3>2. CASE i \in 1..Len(requests)
      <4>1. requests'[i] = requests[i] /\ \A j \in 1..(i - 1) : requests'[j] = requests[j]
        BY <3>1, <3>2, <1>5
      <4>2. i \in DOMAIN requests /\ requests[i].c \in Buses /\ requests[i].ticket \in Nat
        BY <3>1, <3>2 DEF Request
      <4>3. /\ requests[i].ticket \in 1..asked[requests[i].c] /\ (requests[i].wake => requests[i].c = 2)
            /\ Beyond(wire[requests[i].c], requests[i].ticket)
            /\ requests[i].c = job.c => job.ticket < requests[i].ticket
            /\ \A j \in 1..(i - 1) :
                 requests[j].c = requests[i].c => requests[j].ticket < requests[i].ticket
        BY <4>2, <3>0 DEF Tickets
      <4>4. requests[i].ticket \in 1..asked'[requests[i].c]  BY <4>2, <4>3, <1>4
      <4>5. QED  BY <4>1, <4>3, <4>4, <3>0
    <3>3. CASE i \notin 1..Len(requests)
      <4>1. /\ i = Len(requests) + 1 /\ requests'[i].c = c /\ requests'[i].ticket = asked[c] + 1
            /\ requests'[i].wake => c = 2
            /\ \A j \in 1..(i - 1) : requests'[j] = requests[j]
        BY <3>1, <3>3, <2>3, <1>5
      <4>2. Beyond(wire'[c], asked[c] + 1)
        BY <3>0, <1>4 DEF Beyond, Tickets, StnTypes
      <4>3. c = job'.c => job'.ticket < asked[c] + 1
        BY <3>0, <1>4 DEF Tickets, Request, None
      <4>4. \A j \in 1..(i - 1) : requests'[j].c = c => requests'[j].ticket < asked[c] + 1
        BY <4>1, <3>0, <3>1, <1>4 DEF Tickets, Request
      <4>5. QED  BY <4>1, <4>2, <4>3, <4>4, <1>3, <1>4
    <3>4. QED  BY <3>2, <3>3
  <2>4. QED  BY <2>1, <2>2, <2>3 DEF Tickets
<1>8. Loaded'  BY <1>1, <1>4 DEF Loaded, Named
<1>9. Truth'  BY <1>1 DEF Truth
<1>10. Stream'  BY <1>1 DEF Stream, Listening, Serving
<1>11. QED  BY <1>2, <1>6, <1>7, <1>8, <1>9, <1>10

\* The emulation thread takes an event.
LEMMA PollTakeStep ==
  ASSUME StnInv, PollTake
  PROVE  StnInv'
<1> USE DEF StnInv, PollTake, workerSide, work, air, device
<1>1. UNCHANGED <<asked, requests, errors, workerSide>>
  BY DEF firmware
<1>2. Control' /\ Phase' /\ Exchange' /\ Naming' /\ Closing'  BY <1>1, HostLeaves
<1>3. events \in Seq(Event) /\ events # <<>>
  BY DEF StnTypes
<1>4. /\ Head(events) \in Event /\ Head(events) = events[1] /\ 1 \in DOMAIN events
      /\ events' \in Seq(Event) /\ Len(events') = Len(events) - 1
      /\ DOMAIN events = 1..Len(events) /\ DOMAIN events' = 1..Len(events') /\ Len(events) \in Nat
      /\ \A i \in 1..Len(events') : events'[i] = events[i + 1]
  BY <1>3, HeadTailProperties
<1>5. /\ got' = IF events[1].what = "received" THEN events[1].n ELSE got
      /\ wanted' \in [Buses -> Nat] /\ told' \in [Buses -> Nat] /\ got' \in Nat
  <2>1. CASE events[1].what = "received"
    BY <2>1, <1>4 DEF StnTypes, Event, firmware
  <2>2. CASE events[1].what # "received"
    <3>1. events[1].what = "completed" /\ events[1].n \in Nat  BY <2>2, <1>4 DEF Event
    <3>2. events[1].c \in Buses  BY <3>1, <1>4 DEF Truth
    <3>3. \/ wanted' = wanted /\ told' = told
          \/ /\ told' = [told EXCEPT ![events[1].c] = events[1].n]
             /\ wanted' = [wanted EXCEPT ![events[1].c] = 0]
      BY <2>2, <1>4
    <3>4. got' = got  BY <2>2, <1>4
    <3>5. wanted \in [Buses -> Nat] /\ told \in [Buses -> Nat] /\ got \in Nat  BY DEF StnTypes
    <3>6. wanted' \in [Buses -> Nat] /\ told' \in [Buses -> Nat]
      BY ONLY <3>1, <3>2, <3>3, <3>5
    <3>7. QED  BY <2>2, <3>4, <3>5, <3>6
  <2>3. QED  BY <2>1, <2>2
<1>6. StnTypes'  BY <1>1, <1>4, <1>5 DEF StnTypes
<1>7. Tickets'  BY <1>1 DEF Tickets, Serving
<1>8. Loaded'  BY <1>1 DEF Loaded, Named
<1>9. Truth'
  <2>1. \A i \in DOMAIN events' : i + 1 \in DOMAIN events /\ events'[i] = events[i + 1]  BY <1>4
  <2>2. QED  BY <2>1, <1>1 DEF Truth
<1>10. Stream'
  <2>1. \A i \in DOMAIN events' : i + 1 \in DOMAIN events /\ events'[i] = events[i + 1]  BY <1>4
  <2>2. UNCHANGED <<in, heard, errors, lines, server>> /\ Listening' = Listening
    BY <1>1 DEF Listening, Serving
  <2>3. got \in Nat /\ Len(heard) \in Nat  BY DEF StnTypes
  <2>4. /\ got <= got' /\ got' <= Len(heard)
        /\ \A n \in Nat : Reported(events, n) /\ n > got' => Reported(events', n)
    <3>1. ASSUME NEW n \in Nat, n > got', NEW i \in DOMAIN events, events[i].what = "received",
                 events[i].n = n
          PROVE  Reported(events', n)
      <4>1. i # 1  BY <3>1, <1>5
      <4>2. i - 1 \in DOMAIN events' /\ events'[i - 1] = events[i]  BY <4>1, <3>1, <1>4
      <4>3. QED  BY <4>2, <3>1 DEF Reported
    <3>2. QED  BY <3>1, <2>3, <1>4, <1>5 DEF Reported, Stream, Rising
  <2>5. \A i \in DOMAIN events : events[i].what = "received" => i = 1 \/ events[i].n > got'
    <3> SUFFICES ASSUME NEW i \in DOMAIN events, events[i].what = "received", i # 1
                 PROVE  events[i].n > got'
      OBVIOUS
    <3>1. events[i].n > got /\ (events[1].what = "received" => events[1].n < events[i].n)
      BY <1>4 DEF Stream, Rising
    <3>2. events[1] \in Event /\ events[i] \in Event  BY <1>3, <1>4, ElementOfSeq
    <3>3. events[1].n \in Nat /\ events[i].n \in Nat  BY <3>2 DEF Event
    <3>4. QED  BY <3>1, <3>3, <1>5
  <2>6. Rising(events', "received", got', heard)
    <3> SUFFICES ASSUME NEW i \in DOMAIN events', events'[i].what = "received"
                 PROVE  /\ events'[i].n \in 1..Len(heard) /\ events'[i].n > got'
                        /\ events'[i].c = heard[events'[i].n]
                        /\ \A j \in 1..(i - 1) : events'[j].what = "received" => events'[j].n < events'[i].n
      BY DEF Rising
    <3>1. i + 1 # 1 /\ \A j \in 1..(i - 1) : j \in DOMAIN events' /\ j + 1 \in 1..((i + 1) - 1)
      BY <1>4
    <3>2. QED  BY <3>1, <2>1, <2>5 DEF Stream, Rising
  <2>7. Rising(in, "frame", got', heard)
    BY <2>3, <1>4, <1>5 DEF Stream, Rising
  <2>8. \A i \in DOMAIN in : in[i].what = "frame" =>
          \A j \in DOMAIN events' : events'[j].what = "received" => events'[j].n < in[i].n
    BY <2>1 DEF Stream
  <2>9. errors = <<>> => Whole(events', got')
    <3> SUFFICES ASSUME errors = <<>>, NEW i \in DOMAIN events', events'[i].what = "received",
                        NEW n \in (got' + 1)..(events'[i].n - 1)
                 PROVE  Reported(events', n)
      BY DEF Whole
    <3>1. events'[i].n \in Nat  BY <2>6 DEF Rising
    <3>2. n \in Nat /\ n > got' /\ n \in (got + 1)..(events'[i].n - 1)  BY <3>1, <2>3, <2>4, <1>5
    <3>3. Reported(events, n)  BY <3>2, <2>1 DEF Stream, Whole
    <3>4. QED  BY <3>2, <3>3, <2>4
  <2>10. ASSUME Listening, server = "serves", errors = <<>>, \A i \in DOMAIN lines : lines[i] # "frame",
                NEW n \in (got' + 1)..Len(heard)
         PROVE  Reported(events', n) \/ Underway(in, n)
    <3>1. n \in Nat /\ n > got' /\ n \in (got + 1)..Len(heard)  BY <2>3, <2>4, <1>5
    <3>2. QED  BY <3>1, <2>4, <2>10 DEF Stream
  <2>11. QED  BY <2>2, <2>4, <2>6, <2>7, <2>8, <2>9, <2>10 DEF Stream
<1>11. QED  BY <1>2, <1>6, <1>7, <1>8, <1>9, <1>10

-----------------------------------------------------------------------------
(***************************************************************************)
(* The worker: what is received, and what a failure leaves.                *)
(***************************************************************************)

AtWork == worker \in {"loop", "drain", "next", "answer", "finish"}

LEMMA OneItem ==
  ASSUME NEW S, NEW e \in S
  PROVE  /\ <<e>> \in Seq(S) /\ <<e>> # <<>> /\ Len(<<e>>) = 1 /\ DOMAIN <<e>> = {1}
         /\ <<e>>[1] = e /\ Head(<<e>>) = e /\ Tail(<<e>>) = <<>>
OBVIOUS

LEMMA FirstOf ==
  ASSUME NEW S, NEW e \in S, NEW s \in Seq(S)
  PROVE  (<<e>> \o s)[1] = e /\ Head(<<e>> \o s) = e /\ Tail(<<e>> \o s) = s
<1> DEFINE t == <<e>> \o s
<1>1. <<e>> \in Seq(S) /\ Len(<<e>>) = 1 /\ <<e>>[1] = e /\ Len(s) \in Nat  BY OneItem
<1>2. t \in Seq(S) /\ Len(t) = 1 + Len(s) /\ t[1] = e
      /\ \A i \in 1..Len(s) : t[i + 1] = s[i]
  <2>1. /\ t \in Seq(S) /\ Len(t) = 1 + Len(s)
        /\ \A i \in 1..(1 + Len(s)) : t[i] = IF i <= 1 THEN <<e>>[i] ELSE s[i - 1]
    BY <1>1, ConcatProperties
  <2> HIDE DEF t
  <2>2. 1 \in 1..(1 + Len(s)) /\ \A i \in 1..Len(s) :
          i + 1 \in 1..(1 + Len(s)) /\ ~(i + 1 <= 1) /\ (i + 1) - 1 = i
    BY <1>1
  <2>3. t[1] = e  BY <1>1, <2>1, <2>2
  <2>4. \A i \in 1..Len(s) : t[i + 1] = s[i]  BY <2>1, <2>2
  <2>5. QED  BY <2>1, <2>3, <2>4
<1> HIDE DEF t
<1>3. t # <<>>
  <2>1. Len(t) # 0  BY <1>1, <1>2
  <2>2. QED  BY <2>1, EmptySeq
<1>4. /\ Head(t) = t[1] /\ Tail(t) \in Seq(S) /\ Len(Tail(t)) = Len(s)
      /\ \A i \in 1..Len(s) : Tail(t)[i] = s[i]
  <2>1. /\ Head(t) = t[1] /\ Tail(t) \in Seq(S) /\ Len(Tail(t)) = Len(t) - 1
        /\ \A i \in 1..Len(Tail(t)) : Tail(t)[i] = t[i + 1]
    BY <1>2, <1>3, HeadTailProperties
  <2>2. Len(Tail(t)) = Len(s)  BY <1>1, <1>2, <2>1
  <2>3. QED  BY <1>2, <2>1, <2>2
<1>5. Tail(t) = s  BY <1>4, SeqEqual
<1>6. QED  BY <1>2, <1>4, <1>5 DEF t

LEMMA SuffixOf ==
  ASSUME NEW S, NEW s \in Seq(S), NEW n \in 0..Len(s)
  PROVE  /\ SubSeq(s, n + 1, Len(s)) \in Seq(S)
         /\ DOMAIN SubSeq(s, n + 1, Len(s)) = 1..(Len(s) - n)
         /\ Len(SubSeq(s, n + 1, Len(s))) = Len(s) - n
         /\ \A i \in 1..(Len(s) - n) : SubSeq(s, n + 1, Len(s))[i] = s[n + i]
         /\ n = 0 => SubSeq(s, n + 1, Len(s)) = s
         /\ n = Len(s) => SubSeq(s, n + 1, Len(s)) = <<>>
<1>0. Len(s) \in Nat /\ \A i \in (n + 1)..Len(s) : s[i] \in S  BY ElementOfSeq
<1> DEFINE r == SubSeq(s, n + 1, Len(s))
<1>1. r \in Seq(S) /\ Len(r) = Len(s) - n /\ \A i \in 1..(Len(s) - n) : r[i] = s[n + i]
  <2>1. /\ r \in Seq(S) /\ Len(r) = IF n + 1 <= Len(s) THEN Len(s) - (n + 1) + 1 ELSE 0
        /\ \A i \in 1..(Len(s) - (n + 1) + 1) : r[i] = s[(n + 1) + i - 1]
    BY <1>0, SubSeqProperties
  <2> HIDE DEF r
  <2>2. QED  BY <2>1, <1>0
<1>2. n = 0 => r = s  BY <1>0, SubSeqFull
<1>3. n = Len(s) => r = <<>>  BY <1>0, SubSeqEmpty
<1>4. DOMAIN r = 1..(Len(s) - n)  BY <1>1, LenProperties
<1>5. QED  BY <1>1, <1>2, <1>3, <1>4

\* A packet is the first part of what is under way.
LEMMA PacketIs ==
  ASSUME StnTypes, NEW items \in Packets
  PROVE  \E n \in 1..Len(in) :
           /\ link.synchronized /\ items \in Seq(Item) /\ Len(items) = n /\ DOMAIN items = 1..n
           /\ \A i \in 1..n : items[i] = in[i] /\ in[i] \in Item
<1>1. PICK n \in 1..Len(in) : items = SubSeq(in, 1, n)  BY DEF Packets
<1>2. in \in Seq(Item) /\ Len(in) \in Nat /\ \A i \in 1..n : in[i] \in Item
  BY ElementOfSeq DEF StnTypes
<1>3. /\ SubSeq(in, 1, n) \in Seq(Item) /\ Len(SubSeq(in, 1, n)) = n
      /\ \A i \in 1..n : SubSeq(in, 1, n)[i] = in[i]
  BY <1>2, SubSeqProperties
<1>4. DOMAIN items = 1..n  BY <1>1, <1>3, LenProperties
<1>5. link.synchronized  BY DEF Packets
<1>6. QED  BY <1>1, <1>2, <1>3, <1>4, <1>5

\* What remains of `in` after n items.
Reads(n) == in' = SubSeq(in, n + 1, Len(in))
PromptIn(n) == \E i \in 1..n : in[i] = Prompt

LEMMA ReadsSuffix ==
  ASSUME StnTypes, NEW n \in 0..Len(in), Reads(n)
  PROVE  /\ in \in Seq(Item) /\ DOMAIN in = 1..Len(in) /\ Len(in) \in Nat
         /\ in' \in Seq(Item) /\ Len(in') = Len(in) - n /\ DOMAIN in' = 1..(Len(in) - n)
         /\ \A i \in DOMAIN in' : i + n \in DOMAIN in /\ in'[i] = in[i + n]
         /\ n = Len(in) => in' = <<>>
         /\ in = <<>> => in' = <<>>
<1>1. in \in Seq(Item) /\ DOMAIN in = 1..Len(in) /\ Len(in) \in Nat  BY DEF StnTypes
<1>2. /\ in' \in Seq(Item) /\ Len(in') = Len(in) - n /\ DOMAIN in' = 1..(Len(in) - n)
      /\ \A i \in 1..(Len(in) - n) : in'[i] = in[n + i]
      /\ n = 0 => in' = in
      /\ n = Len(in) => in' = <<>>
  BY <1>1, SuffixOf DEF Reads
<1>3. \A i \in 1..(Len(in) - n) : i + n \in 1..Len(in) /\ i + n = n + i  BY <1>1
<1>4. in = <<>> => n = Len(in)  BY <1>1
<1>5. QED  BY <1>1, <1>2, <1>3, <1>4

LEMMA NoneIsNone == None \notin Request /\ None.ticket = 0 /\ None.c = 0
BY DEF None, Request

\* A failure leaves the request that is in progress to be named, and nothing to serve.
LEMMA FailureLeaves ==
  ASSUME StnInv, Fails, AtWork, UNCHANGED <<wire, asked, active, posted, server>>,
         link'.monitoring => link'.receiving, in = <<>> => in' = <<>>
  PROVE  /\ Control' /\ Tickets' /\ Phase' /\ Naming' /\ Closing'
         /\ Named' = Named
         /\ worker' \in {"cleanup", "release"} /\ release' \in {"none", "unconfirmed"}
         /\ errors' \in Seq(Request \cup {None})
         /\ worker' = "cleanup" => AtWork /\ Serving /\ errors' # <<>>
<1> USE DEF StnInv, Fails, ending, AtWork
<1>1. CASE release = "none"
  <2>1. Serving /\ errors = <<>>  BY <1>1 DEF Serving, Control
  <2>2. worker' = "cleanup" /\ release' = "none" /\ errors' = <<active>>  BY <1>1
  <2>3. errors' # <<>> /\ Head(errors') = active /\ errors' \in Seq(Request \cup {None})
    <3>1. active \in Request \cup {None}  BY DEF StnTypes
    <3>2. <<active>> # <<>> /\ Head(<<active>>) = active /\ <<active>> \in Seq(Request \cup {None})
      BY ONLY <3>1, OneItem
    <3>3. errors' = <<active>>  BY ONLY <2>2
    <3>4. QED  BY ONLY <3>2, <3>3
  <2>4. Named' = Named  BY <2>1, <2>3 DEF Named
  <2>5. Control'  BY <2>2, <2>3 DEF Control, Serving
  <2>6. Tickets' /\ Phase'  BY <2>2 DEF Tickets, Phase, Serving
  <2>7. Naming'  BY <2>2, <2>3, <2>4 DEF Naming, FailureNamed, Serving, Named
  <2>8. Closing'  BY <2>2 DEF Closing
  <2>9. QED  BY <2>1, <2>2, <2>3, <2>4, <2>5, <2>6, <2>7, <2>8
<1>2. CASE release # "none"
  <2>1. ~Serving  BY <1>2 DEF Serving
  <2>2. worker' = "release" /\ release' = "unconfirmed" /\ errors' = errors  BY <1>2
  <2>3. Control'  BY <2>2 DEF Control, Serving
  <2>4. Tickets' /\ Phase'  BY <2>2 DEF Tickets, Phase, Serving
  <2>5. Naming' /\ Named' = Named
    BY <2>1, <2>2 DEF Naming, FailureNamed, Serving, Named
  <2>6. Closing'  BY <2>2 DEF Closing
  <2>7. QED  BY <2>2, <2>3, <2>4, <2>5, <2>6 DEF StnTypes
<1>3. QED  BY <1>1, <1>2

\* A request that the adapter has not taken stays as long as the worker adds nothing.
LEMMA LoadedStays ==
  ASSUME StnInv, UNCHANGED <<out, asked, wire, adapter>>, Named' = Named, in = <<>> => in' = <<>>,
         Holds(out, "request") =>
           /\ worker' \in {"next", "answer", "finish", "cleanup", "release", "ended"}
           /\ worker' # "ended" => ~link'.monitoring /\ (link'.receiving \/ ~link'.synchronized)
  PROVE  Loaded'
<1>1. SUFFICES ASSUME NEW i \in DOMAIN out, out[i].what = "request"
               PROVE  LET x == out[i]
                      IN /\ x.c \in Buses /\ x.ticket \in 1..asked[x.c] /\ Beyond(wire[x.c], x.ticket)
                         /\ Len(out) = 1 /\ in' = <<>>
                         /\ adapter.mode = "idle" /\ adapter.bus = x.c /\ adapter.wake = x.wake
                         /\ Named.c = x.c /\ Named.ticket = x.ticket
                         /\ worker' \in {"next", "answer", "finish", "cleanup", "release", "ended"}
                         /\ worker' # "ended" =>
                              ~link'.monitoring /\ (link'.receiving \/ ~link'.synchronized)
  BY DEF Loaded
<1>2. Holds(out, "request")  BY <1>1 DEF Holds
<1>3. QED  BY <1>1, <1>2 DEF StnInv, Loaded

LEMMA RisingSuffix ==
  ASSUME StnTypes, NEW n \in 0..Len(in), Reads(n), Rising(in, "frame", got, heard)
  PROVE  Rising(in', "frame", got, heard)
<1>1. SUFFICES ASSUME NEW i \in DOMAIN in', in'[i].what = "frame"
               PROVE  /\ in'[i].n \in 1..Len(heard) /\ in'[i].n > got /\ in'[i].c = heard[in'[i].n]
                      /\ \A j \in 1..(i - 1) : in'[j].what = "frame" => in'[j].n < in'[i].n
  BY DEF Rising
<1>2. /\ i + n \in DOMAIN in /\ in'[i] = in[i + n]
      /\ \A j \in 1..(i - 1) : in'[j] = in[j + n] /\ j + n \in 1..((i + n) - 1)
  BY <1>1, ReadsSuffix
<1>3. QED  BY <1>1, <1>2 DEF Rising

\* What is lost after a failure is not missed.
LEMMA StreamFails ==
  ASSUME StnInv, UNCHANGED <<events, got, heard>>, NEW n \in 0..Len(in), Reads(n),
         worker' \in {"cleanup", "release"}, worker' = "cleanup" => errors' # <<>>,
         errors' = <<>> => errors = <<>>
  PROVE  Stream'
<1> USE DEF StnInv
<1>1. Rising(in', "frame", got, heard)  BY RisingSuffix DEF Stream
<1>2. \A i \in DOMAIN in' : i + n \in DOMAIN in /\ in'[i] = in[i + n]  BY ReadsSuffix
<1>3. \A i \in DOMAIN in' : in'[i].what = "frame" =>
        \A j \in DOMAIN events : events[j].what = "received" => events[j].n < in'[i].n
  BY <1>2 DEF Stream
<1>4. QED  BY <1>1, <1>3 DEF Stream, Listening, Serving

\* What is under way stays in order when the worker reads a part of it.
LEMMA ExchangeReads ==
  ASSUME StnInv, UNCHANGED <<out, adapter>>, NEW n \in 0..Len(in), Reads(n),
         Listening' => Listening,
         link' = IF PromptIn(n) THEN [link EXCEPT !.receiving = FALSE, !.monitoring = FALSE] ELSE link,
         Listening' /\ PromptIn(n) /\ link.monitoring => Serving
  PROVE  Exchange'
<1> USE DEF StnInv
<1>1. SUFFICES ASSUME Listening', Listening  PROVE Exchange'
  BY DEF Exchange
<1>2. /\ DOMAIN in = 1..Len(in) /\ Len(in) \in Nat /\ Len(in') = Len(in) - n /\ DOMAIN in' = 1..(Len(in) - n)
      /\ \A i \in DOMAIN in' : i + n \in DOMAIN in /\ in'[i] = in[i + n]
      /\ n = Len(in) => in' = <<>>
      /\ in = <<>> => in' = <<>>
  BY ReadsSuffix
<1>3. CASE ~PromptIn(n)
  <2>1. link' = link  BY <1>3
  <2>2. \A i \in DOMAIN in' : in'[i].what = "frame" => in'[i].c = link.controller
    BY <1>1, <1>2 DEF Exchange
  <2>3. CASE link.monitoring
    <3>1. Only(in', {"frame", "stopped", "prompt"})  BY <1>1, <1>2, <2>3 DEF Exchange, Only
    <3>2. QED  BY <1>1, <2>1, <2>2, <2>3, <3>1 DEF Exchange
  <2>4. CASE ~link.monitoring
    <3>1. \A i \in DOMAIN in' : in'[i] = Prompt => i = Len(in')  BY <1>1, <1>2, <2>4 DEF Exchange
    <3>2. in' # <<>> => link.receiving  BY <1>1, <1>2, <2>4 DEF Exchange
    <3>3. QED  BY <1>1, <1>2, <2>1, <2>2, <2>4, <3>1, <3>2 DEF Exchange
  <2>5. QED  BY <2>3, <2>4
<1>4. CASE PromptIn(n)
  <2>1. PICK i \in 1..n : in[i] = Prompt  BY <1>4 DEF PromptIn
  <2>2. i \in DOMAIN in /\ in # <<>> /\ n \in 1..Len(in)  BY <1>2, <2>1
  <2>3. i = Len(in) /\ out = <<>> /\ adapter.mode = "idle"
    <3>1. CASE link.monitoring
      <4>1. Serving  BY <1>1, <1>4, <3>1
      <4>2. worker \in {"loop", "drain"} /\ link.receiving  BY <3>1, <4>1 DEF Control, Serving
      <4>3. Watching  BY <4>1, <4>2 DEF Phase
      <4>4. server # "released"  BY <2>2 DEF Control
      <4>5. ~Only(in, {"frame"})
        <5>1. in[i].what = "prompt"  BY <2>1 DEF Prompt, Text
        <5>2. QED  BY <5>1, <2>2 DEF Only
      <4>6. QED  BY <2>1, <2>2, <4>3, <4>4, <4>5 DEF Watching
    <3>2. CASE ~link.monitoring  BY <1>1, <2>1, <2>2, <3>2 DEF Exchange
    <3>3. QED  BY <3>1, <3>2
  <2>4. n = Len(in) /\ in' = <<>>  BY <1>2, <2>1, <2>2, <2>3
  <2>5. ~link'.monitoring  BY <1>4 DEF StnTypes
  <2>6. QED  BY <2>3, <2>4, <2>5, <1>1 DEF Exchange, Only, Holds
<1>5. QED  BY <1>3, <1>4

\* Nothing else changes when the worker fails while it waits.
LEMMA WaitFails ==
  ASSUME StnInv, Fails, AtWork, UNCHANGED <<others, events, work, out>>,
         NEW n \in 0..Len(in), Reads(n),
         \/ link' = link
         \/ link' = [link EXCEPT !.synchronized = FALSE]
         \/ PromptIn(n) /\ link' = [link EXCEPT !.receiving = FALSE, !.monitoring = FALSE]
  PROVE  StnInv'
<1> USE DEF StnInv, others, work, device, firmware, bridge
<1>0. in = <<>> => in' = <<>>  BY ReadsSuffix
<1>i. PromptIn(n) => in # <<>>
  <2>1. DOMAIN in = 1..Len(in) /\ Len(in) \in Nat  BY ReadsSuffix
  <2>2. QED  BY <2>1 DEF PromptIn
<1>1. /\ link'.monitoring => link.monitoring /\ link'.receiving
      /\ ~PromptIn(n) => link'.monitoring = link.monitoring /\ link'.receiving = link.receiving
      /\ link.synchronized = link'.synchronized \/ ~link'.synchronized
      /\ ~PromptIn(n) /\ link'.synchronized => link' = link
      /\ link' \in [receiving: BOOLEAN, monitoring: BOOLEAN, synchronized: BOOLEAN, controller: Bus]
  BY DEF StnTypes, Control
<1>2. /\ Control' /\ Tickets' /\ Phase' /\ Naming' /\ Closing'
      /\ Named' = Named
      /\ worker' \in {"cleanup", "release"} /\ release' \in {"none", "unconfirmed"}
      /\ errors' \in Seq(Request \cup {None})
      /\ worker' = "cleanup" => AtWork /\ Serving /\ errors' # <<>>
  <2>1. UNCHANGED <<wire, asked, active, posted, server>>  OBVIOUS
  <2>2. link'.monitoring => link'.receiving  BY <1>1
  <2>3. QED  BY <1>0, <2>1, <2>2, FailureLeaves
<1>3. StnTypes'
  <2>1. in' \in Seq(Item)  BY ReadsSuffix
  <2>2. QED  BY <1>1, <1>2, <2>1 DEF StnTypes
<1>4. Loaded'
  <2>1. Holds(out, "request") =>
          in = <<>> /\ ~link.monitoring /\ (link.receiving \/ ~link.synchronized)
    BY DEF Loaded, Holds, AtWork
  <2>2. Holds(out, "request") => ~link'.monitoring /\ (link'.receiving \/ ~link'.synchronized)
    BY <1>i, <1>1, <2>1 DEF StnTypes
  <2>3. QED  BY <1>0, <1>1, <1>2, <2>2, LoadedStays
<1>5. Truth'  BY DEF Truth
<1>6. Stream'
  <2>1. errors' = <<>> => errors = <<>>  BY DEF Fails, ending, Control, Serving
  <2>2. QED  BY <1>2, <2>1, StreamFails
<1>7. Exchange'
  <2>1. SUFFICES ASSUME Listening'  PROVE Exchange'
    BY DEF Exchange
  <2>2. Serving /\ worker' = "cleanup"  BY <1>2, <2>1 DEF Listening, Serving
  <2>3. Listening  BY <2>2, <1>1, <2>1 DEF Listening
  <2>4. CASE \/ link' = link /\ ~PromptIn(n)
             \/ PromptIn(n) /\ link' = [link EXCEPT !.receiving = FALSE, !.monitoring = FALSE]
    BY <2>2, <2>3, <2>4, ExchangeReads
  <2>5. CASE link' = link /\ PromptIn(n)
    <3>1. PICK i \in 1..n : in[i] = Prompt  BY <2>5 DEF PromptIn
    <3>2. /\ i \in DOMAIN in /\ in # <<>> /\ in'= SubSeq(in, n + 1, Len(in))
          /\ DOMAIN in' = 1..(Len(in) - n) /\ \A k \in DOMAIN in' : k + n \in DOMAIN in /\ in'[k] = in[k + n]
          /\ Len(in') = Len(in) - n /\ Len(in) \in Nat
      BY <3>1, ReadsSuffix DEF Reads
    <3>3. \A k \in DOMAIN in' : in'[k].what = "frame" => in'[k].c = link.controller
      BY <3>2, <2>3 DEF Exchange
    <3>4. CASE link.monitoring
      <4>1. Only(in', {"frame", "stopped", "prompt"})  BY <3>2, <3>4, <2>3 DEF Exchange, Only
      <4>2. QED  BY <2>3, <2>5, <3>3, <3>4, <4>1 DEF Exchange
    <3>5. CASE ~link.monitoring
      <4>1. \A j \in DOMAIN in : in[j] = Prompt => j = Len(in)  BY <3>5, <2>3 DEF Exchange
      <4>2. \A k \in DOMAIN in' : in'[k] = Prompt => k + n = Len(in)  BY ONLY <3>2, <4>1
      <4>3. \A k \in 1..(Len(in) - n) : k + n = Len(in) => k = Len(in) - n  BY ONLY <3>2
      <4>4. \A k \in DOMAIN in' : in'[k] = Prompt => k = Len(in')  BY ONLY <3>2, <4>2, <4>3
      <4>5. out = <<>> /\ link.receiving  BY <3>2, <3>5, <2>3 DEF Exchange
      <4>6. QED  BY <2>3, <2>5, <3>3, <3>5, <4>4, <4>5 DEF Exchange
    <3>6. QED  BY <3>4, <3>5
  <2>6. QED  BY <2>1, <2>4, <2>5 DEF Listening, StnTypes
<1>8. QED  BY <1>2, <1>3, <1>4, <1>5, <1>6, <1>7

LEMMA WaitFailures ==
  ASSUME StnInv, ReadFails \/ TimesOut \/ FinishTimesOut \/ Breaks
  PROVE  StnInv'
<1>0. in \in Seq(Item) /\ Len(in) \in Nat  BY DEF StnInv, StnTypes
<1>1. CASE ReadFails \/ TimesOut \/ FinishTimesOut
  <2>1. AtWork /\ Fails /\ UNCHANGED <<others, events, work, out, in>>
        /\ (link' = link \/ link' = [link EXCEPT !.synchronized = FALSE])
    BY <1>1 DEF ReadFails, TimesOut, FinishTimesOut, AtWork, air
  <2>2. Reads(0) /\ 0 \in 0..Len(in)  BY <1>0, <2>1, SubSeqFull DEF Reads
  <2>3. QED  BY <2>1, <2>2, WaitFails
<1>2. CASE Breaks
  <2>1. PICK items \in {<<>>} \cup Packets :
          in' = SubSeq(in, Len(items) + 1, Len(in)) /\ link' \in {link, Idle(items)}
    BY <1>2 DEF Breaks
  <2>2. /\ Len(items) \in 0..Len(in)
        /\ Prompted(items) => PromptIn(Len(items))
    <3>1. CASE items = <<>>  BY <1>0, <3>1 DEF Prompted, PromptIn
    <3>2. CASE items \in Packets
      <4>1. PICK n \in 1..Len(in) :
              /\ Len(items) = n /\ DOMAIN items = 1..n
              /\ \A i \in 1..n : items[i] = in[i]
        BY <3>2, PacketIs DEF StnInv
      <4>2. QED  BY <1>0, <4>1 DEF Prompted, PromptIn
    <3>3. QED  BY <2>1, <3>1, <3>2
  <2>3. Reads(Len(items))  BY <2>1 DEF Reads
  <2>4. \/ link' = link
        \/ /\ PromptIn(Len(items))
           /\ link' = [link EXCEPT !.receiving = FALSE, !.monitoring = FALSE]
    BY <2>1, <2>2 DEF Idle
  <2>5. AtWork /\ Fails /\ UNCHANGED <<others, events, work, out>>
    BY <1>2 DEF Breaks, AtWork
  <2>6. QED  BY <2>2, <2>3, <2>4, <2>5, WaitFails
<1>3. QED  BY <1>1, <1>2

-----------------------------------------------------------------------------
(***************************************************************************)
(* The worker: its loop.                                                   *)
(***************************************************************************)

\* No frame is missing afterwards, if none was or if that no longer counts.
LEMMA StreamSame ==
  ASSUME StnInv, UNCHANGED <<events, got, heard, in>>,
         errors' = <<>> => errors = <<>>,
         Listening' /\ server' = "serves" /\ errors' = <<>> /\ (\A i \in DOMAIN lines' : lines'[i] # "frame") =>
           Listening /\ server = "serves" /\ (\A i \in DOMAIN lines : lines[i] # "frame")
  PROVE  Stream'
BY DEF StnInv, Stream

\* The adapter has no request where the worker may send something, or watches.
LEMMA NothingLoaded ==
  ASSUME StnInv, worker \in {"loop", "drain"} \/ (worker = "next" /\ link.synchronized)
  PROVE  ~Holds(out, "request")
BY DEF StnInv, Loaded, Holds, Control

LEMMA StopsStep ==
  ASSUME StnInv, Stops
  PROVE  StnInv'
<1> USE DEF StnInv, Stops, Goes, others, work, air, device, firmware, bridge
<1>1. worker = "loop" /\ worker' = "cleanup" /\ Serving /\ Listening
  BY DEF Serving, Listening, Control
<1>2. StnTypes'  BY DEF StnTypes
<1>3. Control'  BY <1>1 DEF Control, Serving
<1>4. Tickets' /\ Phase'  BY <1>1 DEF Tickets, Phase, Serving
<1>5. Exchange'  BY <1>1 DEF Exchange
<1>6. Loaded'
  <2>1. ~Holds(out, "request")  BY <1>1, NothingLoaded
  <2>2. QED  BY <2>1 DEF Loaded, Holds
<1>7. Truth'  BY DEF Truth
<1>8. Naming'  BY <1>1 DEF Naming, FailureNamed, Serving
<1>9. Stream'  BY <1>1, StreamSame
<1>10. Closing'  BY <1>1 DEF Closing, Control
<1>11. QED  BY <1>2, <1>3, <1>4, <1>5, <1>6, <1>7, <1>8, <1>9, <1>10

\* A command that cannot be sent leaves the order of commands and answers in doubt.
LEMMA SendFails ==
  ASSUME StnInv, AtWork, Fails, NEW x \in Cmd, out' \in Written(x),
         link' = [link EXCEPT !.synchronized = FALSE],
         x.what = "request" =>
           /\ Serving /\ worker = "next" /\ out = <<>> /\ in = <<>> /\ adapter.mode = "idle"
           /\ x.c \in Buses /\ x.ticket \in 1..asked[x.c] /\ Beyond(wire[x.c], x.ticket)
           /\ adapter.bus = x.c /\ adapter.wake = x.wake
           /\ active.c = x.c /\ active.ticket = x.ticket,
         worker = "next" \/ worker = "loop",
         UNCHANGED <<firmware, events, got, active, posted, server, device, in>>,
         requests' \in Seq(Request), job' \in Request \cup {None}, todo' \in Seq(Cmd), lines' \in Seq(Words)
  PROVE  StnInv'
<1> USE DEF StnInv, firmware, device
<1>1. /\ ~link'.synchronized /\ link'.monitoring = link.monitoring /\ link'.receiving = link.receiving
      /\ link' \in [receiving: BOOLEAN, monitoring: BOOLEAN, synchronized: BOOLEAN, controller: Bus]
  BY DEF StnTypes
<1>2. /\ Control' /\ Tickets' /\ Phase' /\ Naming' /\ Closing'
      /\ Named' = Named
      /\ worker' \in {"cleanup", "release"} /\ release' \in {"none", "unconfirmed"}
      /\ errors' \in Seq(Request \cup {None})
      /\ worker' = "cleanup" => AtWork /\ Serving /\ errors' # <<>>
  <2>1. link'.monitoring => link'.receiving  BY <1>1 DEF Control
  <2>2. QED  BY <2>1, FailureLeaves
<1>3. out \in Seq(Cmd) /\ (out' = out \/ (out' = Append(out, x) /\ link.synchronized))
  BY DEF Written, StnTypes
<1>4. StnTypes'
  <2>1. out' \in Seq(Cmd)  BY <1>3, AppendProperties
  <2>2. QED  BY <1>1, <1>2, <2>1 DEF StnTypes
<1>5. Exchange'  BY <1>1 DEF Exchange, Listening
<1>6. Truth'  BY DEF Truth
<1>7. Stream'
  <2>1. errors' = <<>> => errors = <<>>  BY DEF Fails, ending, Control, Serving, AtWork
  <2>2. QED  BY <1>1, <2>1, StreamSame DEF Listening
<1>8. Loaded'
  <2>0. worker \in {"loop", "drain"} => link.receiving = link.monitoring \/ worker = "drain"
    BY DEF Control
  <2>1. CASE out' = out
    <3>1. Holds(out, "request") => ~link.monitoring  BY DEF Loaded, Holds, AtWork
    <3>2. QED  BY <1>1, <1>2, <2>1, <3>1, LoadedStays
  <2>2. CASE out' = Append(out, x) /\ link.synchronized
    <3>1. ~Holds(out, "request")  BY <2>2, NothingLoaded
    <3>2. DOMAIN out = 1..Len(out) /\ Len(out) \in Nat /\ DOMAIN out' = 1..(Len(out) + 1)
          /\ Len(out') = Len(out) + 1
          /\ out'[Len(out) + 1] = x /\ \A i \in 1..Len(out) : out'[i] = out[i]
      BY <1>3, <2>2, AppendProperties, LenProperties
    <3>3. CASE x.what # "request"
      BY <3>1, <3>2, <3>3 DEF Loaded, Holds
    <3>4. CASE x.what = "request"
      <4>1. Serving /\ errors = <<>> /\ ~link.monitoring  BY <3>4 DEF Control
      <4>2. Named.c = x.c /\ Named.ticket = x.ticket  BY <4>1, <3>4 DEF Named
      <4>3. Len(out) = 0  BY <3>4
      <4>4. \A i \in DOMAIN out' : out'[i] = x /\ Len(out') = 1  BY <4>3, <3>2
      <4>5. QED  BY <4>1, <4>2, <4>4, <3>4, <1>1, <1>2 DEF Loaded
    <3>5. QED  BY <3>3, <3>4
  <2>3. QED  BY <1>3, <2>1, <2>2
<1>9. QED  BY <1>2, <1>4, <1>5, <1>6, <1>7, <1>8

LEMMA PlainCommand ==
  ASSUME NEW what \in Commands
  PROVE  /\ Command(what) \in Cmd /\ Command(what).what = what /\ ~Command(what).last
         /\ ~Command(what).wake
BY DEF Command, Cmd, Bus, Commands

\* What `out` is after a command was sent.
LEMMA Appended ==
  ASSUME NEW S, NEW list \in Seq(S), NEW x \in S
  PROVE  /\ Append(list, x) \in Seq(S) /\ DOMAIN Append(list, x) = 1..(Len(list) + 1)
         /\ Len(list) \in Nat /\ DOMAIN list = 1..Len(list)
         /\ Len(Append(list, x)) = Len(list) + 1 /\ Append(list, x)[Len(list) + 1] = x
         /\ \A i \in 1..Len(list) : Append(list, x)[i] = list[i]
         /\ list = <<>> => Append(list, x) = <<x>>
<1>1. list = <<>> => Append(list, x) = <<x>>  OBVIOUS
<1>2. QED  BY <1>1, AppendProperties, LenProperties

LEMMA MonitorStep ==
  ASSUME StnInv, Monitor
  PROVE  StnInv'
<1> USE DEF StnInv, others, work, device, firmware, bridge
<1> DEFINE x == Command("monitor")
<1>0. x \in Cmd /\ x.what = "monitor"  BY PlainCommand DEF Commands
<1>1. worker = "loop" /\ ~link.receiving /\ ~link.monitoring /\ Serving /\ Listening
      /\ link.synchronized /\ release = "none"
  BY DEF Monitor, Serving, Listening, Control
<1>2. /\ out = <<>> /\ in = <<>> /\ adapter.mode = "idle"
      /\ adapter.bus = link.controller /\ ~adapter.wake
  BY <1>1 DEF Exchange, Phase
<1>3. CASE /\ link.synchronized /\ server = "serves"
           /\ out' = Append(out, x)
           /\ link' = [link EXCEPT !.receiving = TRUE, !.monitoring = TRUE]
           /\ Goes("loop")
  <2> USE <1>3 DEF Goes
  <2>1. UNCHANGED <<firmware, got, requests, server, device, posted, events, errors, work, in, worker, release>>
    BY <1>1 DEF Monitor
  <2>2. out \in Seq(Cmd)  BY DEF StnTypes
  <2>3. out' = <<x>> /\ out' \in Seq(Cmd) /\ DOMAIN out' = {1} /\ out'[1] = x
    <3>1. out' = <<x>>  BY <1>0, <1>2
    <3>2. <<x>> \in Seq(Cmd) /\ DOMAIN <<x>> = {1} /\ <<x>>[1] = x  BY ONLY <1>0, OneItem
    <3>3. QED  BY ONLY <3>1, <3>2
  <2>4. /\ link'.receiving /\ link'.monitoring /\ link'.synchronized
        /\ link'.controller = link.controller
        /\ link' \in [receiving: BOOLEAN, monitoring: BOOLEAN, synchronized: BOOLEAN, controller: Bus]
    BY DEF StnTypes
  <2> HIDE <1>3
  <2>5. StnTypes'  BY <2>1, <2>3, <2>4 DEF StnTypes
  <2>6. Control'  BY <1>1, <2>1, <2>4 DEF Control, Serving
  <2>7. Tickets'  BY <2>1 DEF Tickets, Serving
  <2>8. Phase'
    <3>1. asks' = <<>>  BY <1>1, <2>1 DEF asks
    <3>2. out' = <<Command("monitor")>> \o asks'  BY <3>1, <2>3
    <3>3. Watching'  BY <1>2, <2>1, <3>2 DEF Watching
    <3>4. QED  BY <1>1, <1>2, <2>1, <2>4, <3>3 DEF Phase, Serving
  <2>9. Exchange'  BY <1>0, <1>2, <2>1, <2>3, <2>4 DEF Exchange, Only
  <2>10. Loaded'  BY <1>0, <2>3 DEF Loaded
  <2>11. Truth'  BY <2>1 DEF Truth
  <2>12. Naming'  BY <2>1 DEF Naming, FailureNamed, Serving
  <2>13. Stream'  BY <2>1, <1>1, StreamSame
  <2>14. Closing'  BY <2>1, <1>1 DEF Closing
  <2>15. QED  BY <2>5, <2>6, <2>7, <2>8, <2>9, <2>10, <2>11, <2>12, <2>13, <2>14
<1>4. CASE out' \in Written(x) /\ link' = [link EXCEPT !.synchronized = FALSE] /\ Fails
  <2>1. UNCHANGED <<firmware, events, got, active, posted, server, device, in, requests, job, todo, lines>>
    BY DEF Monitor
  <2>2. requests' \in Seq(Request) /\ job' \in Request \cup {None} /\ todo' \in Seq(Cmd) /\ lines' \in Seq(Words)
    BY <2>1 DEF StnTypes
  <2>3. QED  BY <1>0, <1>1, <1>4, <2>1, <2>2, SendFails DEF AtWork
<1>5. QED  BY <1>3, <1>4 DEF Monitor, Sends

\* The request is done: the bus has carried it.
LEMMA CompleteStep ==
  ASSUME StnInv, Complete
  PROVE  StnInv'
<1> USE DEF StnInv, work, air, device, firmware, bridge
<1>1. worker = "next" /\ release = "none" /\ Serving /\ Listening /\ AtWork /\ todo = <<>>
  BY DEF Complete, ending, Serving, Listening, Control, AtWork
<1>2. /\ out = <<>> /\ in = <<>> /\ ~link.receiving /\ ~link.monitoring /\ errors = <<>> /\ lines = <<>>
      /\ job \in Request /\ active = job
  BY <1>1 DEF Exchange, Control, Tickets, Naming
<1>3. /\ adapter.bus = job.c /\ link.controller = job.c /\ ~adapter.wake
      /\ Carried(wire[job.c], job.ticket)
  BY <1>1 DEF Phase, FitsNow, Fits, Holds
<1>4. UNCHANGED <<firmware, bridge, requests, stop, server, device, todo, lines, link, air>>
  BY DEF Complete
<1>5. CASE Len(events) < EventLimit
  <2> DEFINE e == [what |-> "completed", c |-> job.c, n |-> job.ticket]
  <2>1. /\ events' = Append(events, e) /\ posted' = posted \cup {<<job.c, job.ticket>>}
        /\ active' = None /\ job' = None /\ worker' = "loop" /\ UNCHANGED <<errors, release>>
    BY <1>5 DEF Complete, Goes
  <2>2. e \in Event  BY <1>2 DEF Event, Request, Bus
  <2>3. /\ events' \in Seq(Event) /\ DOMAIN events' = 1..(Len(events) + 1)
        /\ Len(events) \in Nat /\ DOMAIN events = 1..Len(events)
        /\ events'[Len(events) + 1] = e /\ \A i \in 1..Len(events) : events'[i] = events[i]
    <3>1. events \in Seq(Event)  BY DEF StnTypes
    <3> HIDE DEF e
    <3>2. QED  BY <3>1, <2>1, <2>2, Appended
  <2>4. StnTypes'  BY <1>4, <2>1, <2>3 DEF StnTypes
  <2>5. Control'
    <3>1. link.receiving = FALSE /\ link.monitoring = FALSE  BY <1>2 DEF StnTypes
    <3>2. QED  BY <3>1, <1>1, <1>2, <1>4, <2>1 DEF Control, Serving
  <2>6. Tickets'
    <3>1. None.ticket = 0 /\ \A i \in DOMAIN requests : requests[i].ticket \in Nat /\ requests[i].ticket > 0
      <4>1. \A i \in DOMAIN requests : requests[i] \in Request  BY ElementOfSeq DEF StnTypes
      <4>2. QED  BY <4>1 DEF Request, None
    <3>2. QED  BY <1>1, <1>4, <2>1, <3>1 DEF Tickets, Serving
  <2>7. Phase'  BY <1>1, <1>2, <1>3, <1>4, <2>1 DEF Phase, Serving
  <2>8. Exchange'  BY <1>1, <1>4, <2>1 DEF Exchange, Listening, Serving
  <2>9. Loaded'  BY <1>2, <1>4 DEF Loaded
  <2>10. Truth'
    <3>1. \A i \in DOMAIN events' : i = Len(events) + 1 \/ (i \in DOMAIN events /\ events'[i] = events[i])
      BY <2>3
    <3>2. e.c = job.c /\ e.n = job.ticket /\ job.c \in Buses  BY <1>2 DEF Request
    <3>3. QED  BY <1>3, <1>4, <2>3, <3>1, <3>2 DEF Truth
  <2>11. Naming'
    <3>1. FailureNamed'
      BY <1>2, <1>4, <2>1 DEF Naming, FailureNamed
    <3>2. QED  BY <2>1, <3>1 DEF Naming, Serving
  <2>12. Stream'
    <3>1. \A i \in DOMAIN events' : events'[i].what = "received" =>
            i \in DOMAIN events /\ events'[i] = events[i] /\ (\A j \in 1..(i - 1) : events'[j] = events[j])
      BY <2>3
    <3>2. \A n : Reported(events, n) => Reported(events', n)  BY <2>3 DEF Reported
    <3>3. Rising(events', "received", got, heard)  BY <3>1 DEF Stream, Rising
    <3>4. errors = <<>> => Whole(events', got)  BY <3>1, <3>2 DEF Stream, Whole
    <3>5. Listening' = Listening  BY <1>1, <1>4, <2>1 DEF Listening, Serving
    <3>6. QED  BY <1>4, <2>1, <3>1, <3>2, <3>3, <3>4, <3>5 DEF Stream
  <2>13. Closing'  BY <1>1, <2>1 DEF Closing
  <2>14. QED  BY <2>4, <2>5, <2>6, <2>7, <2>8, <2>9, <2>10, <2>11, <2>12, <2>13
<1>6. CASE ~(Len(events) < EventLimit)
  <2>1. Fails /\ UNCHANGED <<events, posted, active, job>>  BY <1>6 DEF Complete
  <2>2. Reads(0)
    <3>1. in \in Seq(Item)  BY DEF StnTypes
    <3>2. QED  BY <1>4, <3>1, SubSeqFull DEF Reads
  <2>3. 0 \in 0..Len(in)  BY <1>2
  <2>4. UNCHANGED <<others, events, work, out>>  BY <1>4, <2>1 DEF others
  <2>5. QED  BY <1>1, <1>4, <2>1, <2>2, <2>3, <2>4, WaitFails
<1>7. QED  BY <1>5, <1>6

-----------------------------------------------------------------------------
(***************************************************************************)
(* The worker: its clean-up.                                               *)
(***************************************************************************)

Farewell == <<Command("counters"), Command("close")>>

LEMMA FarewellIs ==
  /\ Farewell \in Seq(Cmd) /\ Len(Farewell) = 2 /\ Farewell # <<>>
  /\ Head(Farewell) = Command("counters") /\ Tail(Farewell) = <<Command("close")>>
  /\ Farewell # <<Command("close")>>
  /\ <<Command("close")>> \in Seq(Cmd) /\ <<Command("close")>> # <<>>
  /\ Head(<<Command("close")>>) = Command("close") /\ Tail(<<Command("close")>>) = <<>>
<1>1. Command("counters") \in Cmd /\ Command("close") \in Cmd  BY PlainCommand DEF Commands, Settings
<1> DEFINE a == Command("counters")
           b == Command("close")
<1> HIDE DEF a, b
<1>2. \A x, y \in Cmd : /\ <<x, y>> \in Seq(Cmd) /\ Len(<<x, y>>) = 2 /\ Head(<<x, y>>) = x
                        /\ Tail(<<x, y>>) = <<y>> /\ <<x, y>> # <<>> /\ <<y>> # <<>>
                        /\ Len(<<y>>) = 1 /\ Head(<<y>>) = y /\ Tail(<<y>>) = <<>> /\ <<y>> \in Seq(Cmd)
  OBVIOUS
<1>3. QED  BY <1>1, <1>2 DEF Farewell, a, b

LEMMA CleanupStep ==
  ASSUME StnInv, Cleanup
  PROVE  StnInv'
<1> USE DEF StnInv, others, device, firmware, bridge
<1>1. worker = "cleanup" /\ release = "none" /\ ~Serving
  BY DEF Cleanup, Control, Serving
<1>2. /\ todo' = Farewell /\ job' = None /\ active' = None /\ lines' = <<>>
      /\ UNCHANGED <<firmware, bridge, requests, stop, server, device, posted, events, errors, in>>
  BY DEF Cleanup, Farewell
<1>3. (link.monitoring => link.receiving) /\ (errors = <<>> => active = None /\ lines = <<>>)
  BY <1>1 DEF Control, Naming
<1>4. Named' = Named  BY <1>2, <1>3 DEF Named
<1>5. \/ /\ link.monitoring /\ link.synchronized /\ out' = Append(out, Command("interrupt"))
         /\ worker' = "drain" /\ release' = "running" /\ link' = link
      \/ /\ ~link.monitoring /\ worker' = (IF link.receiving THEN "finish" ELSE "next")
         /\ release' = "running" /\ link' = link /\ out' = out
      \/ /\ link.monitoring /\ link' = [link EXCEPT !.synchronized = FALSE]
         /\ worker' = "release" /\ release' = "unconfirmed"
         /\ out' \in Written(Command("interrupt"))
  BY DEF Cleanup
<1>6. /\ link'.monitoring = link.monitoring /\ link'.receiving = link.receiving
      /\ link' = link \/ ~link'.synchronized
      /\ link' \in [receiving: BOOLEAN, monitoring: BOOLEAN, synchronized: BOOLEAN, controller: Bus]
      /\ worker' \in {"drain", "finish", "next", "release"} /\ release' \in {"running", "unconfirmed"}
  BY <1>5 DEF StnTypes
<1>7. /\ out' \in Seq(Cmd) /\ out \in Seq(Cmd)
      /\ \/ out' = out
         \/ /\ link.monitoring /\ DOMAIN out' = 1..(Len(out) + 1) /\ Len(out) \in Nat
            /\ DOMAIN out = 1..Len(out)
            /\ out'[Len(out) + 1].what = "interrupt" /\ \A i \in 1..Len(out) : out'[i] = out[i]
  <2>1. out \in Seq(Cmd) /\ Command("interrupt") \in Cmd /\ Command("interrupt").what = "interrupt"
    BY PlainCommand DEF StnTypes, Commands
  <2>2. out' = out \/ (link.monitoring /\ out' = Append(out, Command("interrupt")))
    BY <1>5 DEF Written
  <2>3. QED  BY <2>1, <2>2, Appended
<1>8. StnTypes'  BY <1>2, <1>6, <1>7, FarewellIs DEF StnTypes
<1>9. Control'
  <2>1. link \in [receiving: BOOLEAN, monitoring: BOOLEAN, synchronized: BOOLEAN, controller: Bus]
    BY DEF StnTypes
  <2>2. worker' \in {"finish", "next"} \/ worker' \in {"drain", "release"}  BY <1>6
  <2>3. QED  BY <1>2, <1>3, <1>5, <1>6, <2>1, <2>2 DEF Control, Serving
<1>10. Tickets' /\ Phase'  BY <1>2, <1>6 DEF Tickets, Phase, Serving
<1>11. Exchange'
  <2>1. SUFFICES ASSUME Listening'  PROVE Exchange'  BY DEF Exchange
  <2>2. link' = link /\ Listening  BY <1>1, <1>6, <2>1 DEF Listening
  <2>3. CASE out' = out  BY <1>2, <2>2, <2>3 DEF Exchange
  <2>4. CASE out' # out
    <3>1. link.monitoring  BY <1>7, <2>4
    <3>2. Only(out', {"monitor", "interrupt"})
      <4>1. SUFFICES ASSUME NEW i \in DOMAIN out'  PROVE out'[i].what \in {"monitor", "interrupt"}
        BY DEF Only
      <4>2. i = Len(out) + 1 \/ (i \in DOMAIN out /\ out'[i] = out[i])  BY <1>7, <2>4
      <4>3. QED  BY <1>7, <2>2, <2>4, <3>1, <4>2 DEF Exchange, Only
    <3>3. QED  BY <1>2, <2>2, <3>1, <3>2 DEF Exchange
  <2>5. QED  BY <2>3, <2>4
<1>12. Loaded'
  <2>1. Holds(out, "request") => ~link.monitoring /\ (link.receiving \/ ~link.synchronized)
    BY <1>1 DEF Loaded, Holds
  <2>2. CASE out' = out
    <3>1. Holds(out, "request") => worker' \in {"next", "finish"}  BY <1>5, <2>1
    <3>2. Holds(out, "request") => ~link'.monitoring /\ (link'.receiving \/ ~link'.synchronized)
      BY <1>6, <2>1
    <3>3. UNCHANGED <<asked, wire, adapter, in>>  BY <1>2
    <3>4. QED  BY <2>2, <3>1, <3>2, <3>3, <1>4, LoadedStays
  <2>3. CASE out' # out
    <3>1. ~Holds(out, "request")  BY <1>7, <2>1, <2>3
    <3>2. \A i \in DOMAIN out' : out'[i].what # "request"
      BY <1>7, <2>3, <3>1 DEF Holds
    <3>3. QED  BY <3>2 DEF Loaded
  <2>4. QED  BY <2>2, <2>3
<1>13. Truth'  BY <1>2 DEF Truth
<1>14. Naming'
  <2>1. FailureNamed'
    <3>1. UNCHANGED <<wire, posted>>  BY <1>2
    <3>2. QED  BY <3>1, <1>4 DEF Naming, FailureNamed, Named
  <2>2. QED  BY <1>2, <1>6, <2>1 DEF Naming, Serving
<1>15. Stream'
  <2>1. errors = <<>> => \A i \in DOMAIN lines : lines[i] # "frame"  BY <1>3
  <2>2. Listening' => Listening  BY <1>1, <1>6 DEF Listening
  <2>3. QED  BY <1>2, <2>1, <2>2, StreamSame
<1>16. Closing'
  <2>1. worker' = "next" /\ link'.synchronized => out' = <<>> /\ in' = <<>>
    <3>1. SUFFICES ASSUME worker' = "next", link'.synchronized  PROVE out' = <<>> /\ in' = <<>>
      OBVIOUS
    <3>2. ~link.monitoring /\ ~link.receiving /\ link' = link /\ out' = out  BY <3>1, <1>5
    <3>3. Listening  BY <1>1, <3>1, <3>2 DEF Listening
    <3>4. QED  BY <1>2, <3>2, <3>3 DEF Exchange
  <2>2. QED  BY <1>2, <1>6, <2>1, FarewellIs DEF Closing, Only, Holds, Farewell
<1>17. QED  BY <1>8, <1>9, <1>10, <1>11, <1>12, <1>13, <1>14, <1>15, <1>16

\* The worker drops its end.  A clean-up that succeeded has left the adapter idle.
LEMMA ReleaseStep ==
  ASSUME StnInv, Release
  PROVE  StnInv'
<1> USE DEF StnInv, device, firmware, bridge
<1>1. /\ worker' = "ended" /\ in' = <<>> /\ todo' = <<>> /\ lines' = <<>> /\ link' = Quiet
      /\ UNCHANGED <<firmware, bridge, requests, events, errors, stop, job, active, device, posted>>
  BY DEF Release
<1>2. release \in {"running", "unconfirmed"} /\ ~Serving /\ (release = "running" => worker = "next" /\ todo = <<>>)
  BY DEF Release, ending, Control, Serving
<1>3. release' \in {"confirmed", "unconfirmed"} /\ server' \in {"serves", "released"}
      /\ (release' = "confirmed" => release = "running" /\ server' = "released")
  BY <1>2 DEF Release, StnTypes
<1>4. out \in Seq(Cmd) /\ DOMAIN out = 1..Len(out) /\ Len(out) \in Nat  BY DEF StnTypes
<1>5. out' \in Seq(Cmd) /\ DOMAIN out' \subseteq DOMAIN out /\ Len(out') <= Len(out) /\ Len(out') \in Nat
      /\ DOMAIN out' = 1..Len(out') /\ \A i \in DOMAIN out' : out'[i] = out[i]
  <2>1. PICK n \in 0..Len(out) : out' = IF server' = server THEN out ELSE SubSeq(out, 1, n)
    BY DEF Release
  <2>2. \A i \in 1..n : out[i] \in Cmd  BY <1>4, ElementOfSeq
  <2>3. /\ SubSeq(out, 1, n) \in Seq(Cmd) /\ Len(SubSeq(out, 1, n)) = n
        /\ \A i \in 1..n : SubSeq(out, 1, n)[i] = out[i]
    BY <1>4, <2>2, SubSeqProperties
  <2>4. DOMAIN SubSeq(out, 1, n) = 1..n  BY <2>3, LenProperties
  <2>5. QED  BY <1>4, <2>1, <2>3, <2>4
<1>6. /\ Quiet \in [receiving: BOOLEAN, monitoring: BOOLEAN, synchronized: BOOLEAN, controller: Bus]
      /\ ~Quiet.monitoring
  BY DEF Quiet, Bus
<1>7. StnTypes'  BY <1>1, <1>3, <1>5, <1>6 DEF StnTypes
<1>8. Control'  BY <1>1, <1>3, <1>6 DEF Control, Serving
<1>9. Tickets' /\ Phase' /\ Exchange'
  BY <1>1 DEF Tickets, Phase, Exchange, Serving, Listening
<1>10. Named' = Named  BY <1>1 DEF Named
<1>11. Loaded'
  <2>1. SUFFICES ASSUME NEW i \in DOMAIN out', out'[i].what = "request"
                 PROVE  LET x == out'[i]
                        IN /\ x.c \in Buses /\ x.ticket \in 1..asked[x.c] /\ Beyond(wire[x.c], x.ticket)
                           /\ Len(out') = 1
                           /\ adapter.mode = "idle" /\ adapter.bus = x.c /\ adapter.wake = x.wake
                           /\ Named.c = x.c /\ Named.ticket = x.ticket
    BY <1>1, <1>10 DEF Loaded
  <2>2. i \in DOMAIN out /\ out'[i] = out[i] /\ i >= 1 /\ i <= Len(out')  BY <1>5, <2>1
  <2>3. Len(out) = 1  BY <2>1, <2>2 DEF Loaded
  <2>4. Len(out') = 1  BY <1>5, <2>2, <2>3
  <2>5. QED  BY <2>1, <2>2, <2>4 DEF Loaded
<1>12. Truth'  BY <1>1 DEF Truth
<1>13. Naming'
  BY <1>1, <1>2 DEF Naming, FailureNamed, Serving
<1>14. Stream'  BY <1>1 DEF Stream, Rising, Listening, Serving
<1>15. Closing'
  <2>1. release' = "confirmed" => Shut  BY <1>2, <1>3 DEF Closing
  <2>2. out = <<>> => out' = <<>>  BY <1>4, <1>5
  <2>3. QED  BY <1>1, <1>3, <2>1, <2>2 DEF Closing, Shut
<1>16. QED  BY <1>7, <1>8, <1>9, <1>11, <1>12, <1>13, <1>14, <1>15

-----------------------------------------------------------------------------
(***************************************************************************)
(* The worker: the commands of a request.                                  *)
(***************************************************************************)

\* The part of a program that selects no bus, on an adapter that is on it.
Here(list, r) ==
  /\ list \in Seq(Cmd) /\ list # <<>> /\ list[1].what = "open"
  /\ \A i \in DOMAIN list : ~list[i].last /\ list[i].what # "bus"
  /\ Holds(list, "request")
  /\ \A i \in DOMAIN list :
       LET x == list[i]
       IN /\ x.what \in Settings \cup {"request", "counters"}
          /\ x.what = "mode" =>
               /\ r.c = 2
               /\ x.wake => \E j \in DOMAIN list : j > i /\ list[j].what = "mode" /\ ~list[j].wake
          /\ x.what = "request" =>
               /\ x.c = r.c /\ x.ticket = r.ticket /\ x.wake = r.wake
               /\ \A j \in DOMAIN list : list[j].what = "request" => j <= i
               /\ r.c = 2 => list[i - 1].what = "mode" /\ list[i - 1].wake = x.wake

LEMMA Steps ==
  ASSUME NEW r \in Request
  PROVE  LET q == [Command("request") EXCEPT !.c = r.c, !.ticket = r.ticket, !.wake = r.wake]
             to == [Command("bus") EXCEPT !.c = r.c]
         IN /\ q \in Cmd /\ q.what = "request" /\ q.c = r.c /\ q.ticket = r.ticket /\ q.wake = r.wake
            /\ ~q.last
            /\ to \in Cmd /\ to.what = "bus" /\ to.c = r.c /\ ~to.last
            /\ \A wake \in BOOLEAN :
                 /\ Mode(wake) \in Cmd /\ Mode(wake).what = "mode" /\ Mode(wake).wake = wake
                 /\ ~Mode(wake).last
            /\ Last(Mode(FALSE)) \in Cmd /\ Last(Mode(FALSE)).what = "mode" /\ ~Last(Mode(FALSE)).wake
            /\ Last(Mode(FALSE)).last
            /\ Last(Command("open")) \in Cmd /\ Last(Command("open")).what = "open"
            /\ Last(Command("open")).last
            /\ \A what \in Commands : /\ Command(what) \in Cmd /\ Command(what).what = what
                                      /\ ~Command(what).last
BY DEF Request, Command, Cmd, Commands, Settings, Bus, Mode, Last

LEMMA HereWake ==
  ASSUME NEW r \in Request, r.wake, r.c = 2
  PROVE  LET q == [Command("request") EXCEPT !.c = r.c, !.ticket = r.ticket, !.wake = r.wake]
         IN Here(<<Command("open"), Mode(TRUE), q, Mode(FALSE), Command("counters")>>, r)
<1> DEFINE q == [Command("request") EXCEPT !.c = r.c, !.ticket = r.ticket, !.wake = r.wake]
           a == Command("open")
           m == Mode(TRUE)
           n == Mode(FALSE)
           z == Command("counters")
           list == <<a, m, q, n, z>>
<1>1. /\ a \in Cmd /\ a.what = "open" /\ ~a.last
      /\ m \in Cmd /\ m.what = "mode" /\ m.wake /\ ~m.last
      /\ q \in Cmd /\ q.what = "request" /\ q.c = r.c /\ q.ticket = r.ticket /\ q.wake = r.wake /\ ~q.last
      /\ n \in Cmd /\ n.what = "mode" /\ ~n.wake /\ ~n.last
      /\ z \in Cmd /\ z.what = "counters" /\ ~z.last
  BY Steps DEF Commands, Settings
<1>a. m.wake = r.wake
  <2>1. m.wake = TRUE  BY Steps
  <2>2. r.wake = TRUE  BY DEF Request
  <2>3. QED  BY <2>1, <2>2
<1> HIDE DEF a, m, q, n, z
<1>2. /\ list \in Seq(Cmd) /\ list # <<>> /\ DOMAIN list = {1, 2, 3, 4, 5}
      /\ list[1] = a /\ list[2] = m /\ list[3] = q /\ list[4] = n /\ list[5] = z
  BY <1>1
<1> HIDE DEF list
<1>b. \A i \in DOMAIN list : i = 1 \/ i = 2 \/ i = 3 \/ i = 4 \/ i = 5  BY <1>2
<1>3. Here(list, r)
  <2>1. \A i \in DOMAIN list : ~list[i].last /\ list[i].what # "bus"  BY <1>1, <1>2, <1>b
  <2>2. Holds(list, "request")  BY <1>1, <1>2 DEF Holds
  <2>3. \A i \in DOMAIN list : list[i].what \in Settings \cup {"request", "counters"}
    BY <1>1, <1>2, <1>b DEF Settings
  <2>4. 4 \in DOMAIN list /\ list[4].what = "mode" /\ ~list[4].wake  BY <1>1, <1>2
  <2>5. \A i \in DOMAIN list : list[i].what = "mode" /\ list[i].wake => i = 2
    BY <1>1, <1>2, <1>b
  <2>6. \A i \in DOMAIN list : list[i].what = "mode" /\ list[i].wake =>
          \E j \in DOMAIN list : j > i /\ list[j].what = "mode" /\ ~list[j].wake
    BY <2>4, <2>5
  <2>7. \A i \in DOMAIN list : list[i].what = "request" => i = 3  BY <1>1, <1>2, <1>b
  <2>8. \A i \in Nat : i = 3 => list[i - 1] = m
    <3>1. 3 - 1 = 2  OBVIOUS
    <3>2. QED  BY <3>1, <1>2
  <2>9. \A i \in DOMAIN list : list[i].what = "request" =>
          /\ list[i].c = r.c /\ list[i].ticket = r.ticket /\ list[i].wake = r.wake
          /\ \A j \in DOMAIN list : list[j].what = "request" => j <= i
          /\ list[i - 1].what = "mode" /\ list[i - 1].wake = list[i].wake
    <3> SUFFICES ASSUME NEW i \in DOMAIN list, list[i].what = "request"
                 PROVE  /\ list[i].c = r.c /\ list[i].ticket = r.ticket /\ list[i].wake = r.wake
                        /\ \A j \in DOMAIN list : list[j].what = "request" => j <= i
                        /\ list[i - 1].what = "mode" /\ list[i - 1].wake = list[i].wake
      OBVIOUS
    <3>1. i = 3 /\ i \in Nat /\ list[i] = q  BY <1>2, <2>7
    <3>2. list[i - 1] = m  BY <2>8, <3>1
    <3>3. q.wake = r.wake  BY <1>1
    <3>4. \A j \in DOMAIN list : list[j].what = "request" => j <= i  BY <2>7, <3>1
    <3>5. m.what = "mode" /\ q.c = r.c /\ q.ticket = r.ticket  BY <1>1
    <3>6. list[i].wake = r.wake /\ list[i - 1].wake = list[i].wake  BY ONLY <3>1, <3>2, <3>3, <1>a
    <3>7. QED  BY <3>1, <3>2, <3>4, <3>5, <3>6
  <2>10. QED  BY <1>1, <1>2, <2>1, <2>2, <2>3, <2>6, <2>9 DEF Here
<1>4. QED  BY <1>3 DEF list, a, m, q, n, z

LEMMA HereMode ==
  ASSUME NEW r \in Request, ~r.wake, r.c = 2
  PROVE  LET q == [Command("request") EXCEPT !.c = r.c, !.ticket = r.ticket, !.wake = r.wake]
         IN Here(<<Command("open"), Mode(FALSE), q>>, r)
<1> DEFINE q == [Command("request") EXCEPT !.c = r.c, !.ticket = r.ticket, !.wake = r.wake]
           a == Command("open")
           n == Mode(FALSE)
           list == <<a, n, q>>
<1>1. /\ a \in Cmd /\ a.what = "open" /\ ~a.last
      /\ q \in Cmd /\ q.what = "request" /\ q.c = r.c /\ q.ticket = r.ticket /\ q.wake = r.wake /\ ~q.last
      /\ n \in Cmd /\ n.what = "mode" /\ ~n.wake /\ ~n.last
  BY Steps DEF Commands, Settings
<1>a. n.wake = r.wake
  <2>1. n.wake = FALSE  BY Steps
  <2>2. r.wake = FALSE  BY DEF Request
  <2>3. QED  BY <2>1, <2>2
<1> HIDE DEF a, q, n
<1>2. /\ list \in Seq(Cmd) /\ list # <<>> /\ DOMAIN list = {1, 2, 3}
      /\ list[1] = a /\ list[2] = n /\ list[3] = q
  BY <1>1
<1> HIDE DEF list
<1>3. Here(list, r)  BY <1>1, <1>a, <1>2 DEF Here, Holds, Settings
<1>4. QED  BY <1>3 DEF list, a, q, n

LEMMA HerePlain ==
  ASSUME NEW r \in Request, r.c # 2
  PROVE  LET q == [Command("request") EXCEPT !.c = r.c, !.ticket = r.ticket, !.wake = r.wake]
         IN Here(<<Command("open"), q>>, r)
<1> DEFINE q == [Command("request") EXCEPT !.c = r.c, !.ticket = r.ticket, !.wake = r.wake]
           a == Command("open")
           list == <<a, q>>
<1>1. /\ a \in Cmd /\ a.what = "open" /\ ~a.last
      /\ q \in Cmd /\ q.what = "request" /\ q.c = r.c /\ q.ticket = r.ticket /\ q.wake = r.wake /\ ~q.last
  BY Steps DEF Commands, Settings
<1> HIDE DEF a, q
<1>2. /\ list \in Seq(Cmd) /\ list # <<>> /\ DOMAIN list = {1, 2} /\ list[1] = a /\ list[2] = q
  BY <1>1
<1> HIDE DEF list
<1>3. Here(list, r)  BY <1>1, <1>2 DEF Here, Holds, Settings
<1>4. QED  BY <1>3 DEF list, a, q

\* The part that selects the bus of the request.
LEMMA SelectIs ==
  ASSUME NEW r \in Request
  PROVE  /\ Select(r.c) \in Seq(Cmd)
         /\ \A i \in DOMAIN Select(r.c) :
              LET x == Select(r.c)[i]
              IN /\ x.what \in Settings
                 /\ x.what = "bus" => x.c = r.c
                 /\ x.what = "mode" => r.c = 2 /\ ~x.wake
         /\ Holds(Select(r.c), "bus") /\ \E i \in DOMAIN Select(r.c) : Select(r.c)[i].last
<1> DEFINE a == Command("close")
           to == [Command("bus") EXCEPT !.c = r.c]
           b == Command("open")
           n == Last(Mode(FALSE))
           e == Last(Command("open"))
<1>1. /\ a \in Cmd /\ a.what = "close"
      /\ to \in Cmd /\ to.what = "bus" /\ to.c = r.c
      /\ b \in Cmd /\ b.what = "open"
      /\ n \in Cmd /\ n.what = "mode" /\ ~n.wake /\ n.last
      /\ e \in Cmd /\ e.what = "open" /\ e.last
  BY Steps DEF Commands, Settings
<1>2. Select(r.c) = IF r.c = 2 THEN <<a, to, b, n>> ELSE <<a, to, e>>  BY DEF Select
<1> HIDE DEF a, to, b, n, e
<1>3. CASE r.c = 2
  <2> DEFINE list == <<a, to, b, n>>
  <2>1. /\ list \in Seq(Cmd) /\ DOMAIN list = {1, 2, 3, 4}
        /\ list[1] = a /\ list[2] = to /\ list[3] = b /\ list[4] = n
    BY <1>1
  <2>2. Select(r.c) = list  BY <1>2, <1>3
  <2> HIDE DEF list
  <2>3. QED  BY <1>1, <1>3, <2>1, <2>2 DEF Settings, Holds
<1>4. CASE r.c # 2
  <2> DEFINE list == <<a, to, e>>
  <2>1. list \in Seq(Cmd) /\ DOMAIN list = {1, 2, 3} /\ list[1] = a /\ list[2] = to /\ list[3] = e
    BY <1>1
  <2>2. Select(r.c) = list  BY <1>2, <1>4
  <2> HIDE DEF list
  <2>3. QED  BY <1>1, <1>4, <2>1, <2>2 DEF Settings, Holds
<1>5. QED  BY <1>3, <1>4

LEMMA ProgramIs ==
  ASSUME NEW r \in Request, r.wake => r.c = 2
  PROVE  \E H : /\ Here(H, r)
                /\ Program(r) = (IF link.controller # r.c THEN Select(r.c) ELSE <<>>) \o H
<1> DEFINE q == [Command("request") EXCEPT !.c = r.c, !.ticket = r.ticket, !.wake = r.wake]
           L == (IF link.controller # r.c THEN Select(r.c) ELSE <<>>)
<1>1. CASE r.wake
  <2> DEFINE H == <<Command("open"), Mode(TRUE), q, Mode(FALSE), Command("counters")>>
  <2>1. Here(H, r)  BY <1>1, HereWake
  <2>2. Program(r) = L \o H  BY <1>1 DEF Program
  <2>3. QED  BY <2>1, <2>2
<1>2. CASE ~r.wake /\ r.c = 2
  <2> DEFINE H == <<Command("open"), Mode(FALSE), q>>
  <2>1. Here(H, r)  BY <1>2, HereMode
  <2>2. Program(r) = L \o H  BY <1>2 DEF Program
  <2>3. QED  BY <2>1, <2>2
<1>3. CASE ~r.wake /\ r.c # 2
  <2> DEFINE H == <<Command("open"), q>>
  <2>1. Here(H, r)  BY <1>3, HerePlain
  <2>2. Program(r) = L \o H  BY <1>3 DEF Program
  <2>3. QED  BY <2>1, <2>2
<1>4. QED  BY <1>1, <1>2, <1>3

\* A program takes an adapter on the bus the worker thinks it is on through the request.
LEMMA ProgramFits ==
  ASSUME NEW r \in Request, r.wake => r.c = 2, NEW d, NEW w,
         d.bus = link.controller, ~d.wake, Beyond(w, r.ticket)
  PROVE  Program(r) \in Seq(Cmd) /\ Fits(Program(r), r, link.controller, d, w)
<1> DEFINE P == IF link.controller # r.c THEN Select(r.c) ELSE <<>>
<1>1. PICK H : Here(H, r) /\ Program(r) = P \o H  BY ProgramIs
<1> DEFINE list == Program(r)
           p == Len(P)
           h == Len(H)
<1>2. P \in Seq(Cmd) /\ H \in Seq(Cmd) /\ p \in Nat /\ h \in Nat
      /\ DOMAIN P = 1..p /\ DOMAIN H = 1..h
  <2>1. P \in Seq(Cmd)  BY SelectIs
  <2>2. H \in Seq(Cmd)  BY <1>1 DEF Here
  <2>3. QED  BY <2>1, <2>2, LenProperties
<1>3. \A i \in DOMAIN P : /\ P[i].what \in Settings
                          /\ P[i].what = "bus" => P[i].c = r.c
                          /\ P[i].what = "mode" => r.c = 2 /\ ~P[i].wake
  <2>1. CASE link.controller # r.c  BY <2>1, SelectIs
  <2>2. CASE link.controller = r.c  BY <2>2
  <2>3. QED  BY <2>1, <2>2
<1>4. link.controller = r.c \/ (Holds(P, "bus") /\ \E i \in DOMAIN P : P[i].last)
  BY SelectIs
<1> HIDE DEF P
<1>5. /\ list \in Seq(Cmd) /\ DOMAIN list = 1..(p + h)
      /\ \A i \in 1..p : list[i] = P[i] /\ i \in DOMAIN list
      /\ \A i \in 1..h : list[p + i] = H[i] /\ p + i \in DOMAIN list
  <2>1. /\ P \o H \in Seq(Cmd) /\ Len(P \o H) = p + h
        /\ \A i \in 1..(p + h) : (P \o H)[i] = IF i <= p THEN P[i] ELSE H[i - p]
    BY <1>2, ConcatProperties
  <2>2. list = P \o H  BY <1>1
  <2> HIDE DEF list, p, h
  <2>3. DOMAIN list = 1..(p + h)  BY <2>1, <2>2, LenProperties
  <2>4. \A i \in 1..p : i \in 1..(p + h) /\ i <= p  BY <1>2
  <2>5. \A i \in 1..h : p + i \in 1..(p + h) /\ ~(p + i <= p) /\ (p + i) - p = i  BY <1>2
  <2>6. QED  BY <2>1, <2>2, <2>3, <2>4, <2>5
<1>6. \A i \in DOMAIN list : i \in 1..p \/ \E k \in 1..h : i = p + k
  <2>1. \A i \in 1..(p + h) : i \in 1..p \/ (i - p \in 1..h /\ i = p + (i - p))  BY <1>2
  <2>2. QED  BY <2>1, <1>5
<1> HIDE DEF list, p, h
<1>7. \A k \in 1..h : ~H[k].last /\ H[k].what # "bus"
  <2>1. \A k \in DOMAIN H : ~H[k].last /\ H[k].what # "bus"  BY <1>1 DEF Here
  <2>2. \A k \in 1..h : k \in DOMAIN H  BY <1>2
  <2>3. QED  BY ONLY <2>1, <2>2
<1>8. ASSUME NEW i \in DOMAIN list  PROVE FitsAt(list, i, r, d)
  <2>1. CASE i \in 1..p
    <3>1. list[i] = P[i] /\ P[i].what \in Settings /\ P[i].what # "request"
      BY <1>2, <1>3, <1>5, <2>1 DEF Settings
    <3>2. QED  BY <3>1, <1>2, <1>3, <2>1 DEF FitsAt
  <2>2. ASSUME NEW k \in 1..h, i = p + k  PROVE FitsAt(list, i, r, d)
    <3>1. list[i] = H[k] /\ k \in DOMAIN H /\ k \in Nat /\ i \in Nat
      <4>1. list[p + k] = H[k] /\ p + k \in 1..(p + h)  BY <1>5
      <4>2. DOMAIN H = 1..h /\ p \in Nat /\ h \in Nat  BY <1>2
      <4>3. k \in 1..h  OBVIOUS
      <4>4. k \in DOMAIN H /\ k \in Nat /\ p + k \in Nat  BY ONLY <4>2, <4>3
      <4>5. QED  BY <4>1, <4>4, <2>2
    <3>2. H[k].what = "mode" =>
            /\ r.c = 2
            /\ H[k].wake => \E j \in DOMAIN list : j > i /\ list[j].what = "mode" /\ ~list[j].wake
      <4>1. SUFFICES ASSUME H[k].what = "mode", H[k].wake
                     PROVE  \E j \in DOMAIN list : j > i /\ list[j].what = "mode" /\ ~list[j].wake
        BY <1>1, <3>1 DEF Here
      <4>2. PICK j \in DOMAIN H : j > k /\ H[j].what = "mode" /\ ~H[j].wake
        BY <4>1, <1>1, <3>1 DEF Here
      <4>3. p + j \in DOMAIN list /\ list[p + j] = H[j] /\ p + j > i  BY <4>2, <1>2, <1>5, <2>2
      <4>4. QED  BY <4>2, <4>3
    <3>3. ASSUME H[k].what = "request"
          PROVE  /\ H[k].c = r.c /\ H[k].ticket = r.ticket /\ H[k].wake = r.wake /\ ~H[k].last
                 /\ \A j \in DOMAIN list : list[j].last \/ list[j].what \in {"bus", "request"} => j <= i
                 /\ i # 1 /\ (r.c = 2 => list[i - 1].what = "mode" /\ list[i - 1].wake = H[k].wake)
      <4>1. k # 1 /\ k - 1 \in 1..h /\ i - 1 = p + (k - 1) /\ i # 1
        BY <3>1, <3>3, <1>1, <1>2, <2>2 DEF Here
      <4>2. list[i - 1] = H[k - 1]  BY <4>1, <1>5
      <4>3. /\ H[k].c = r.c /\ H[k].ticket = r.ticket /\ H[k].wake = r.wake
            /\ \A j \in DOMAIN H : H[j].what = "request" => j <= k
            /\ r.c = 2 => H[k - 1].what = "mode" /\ H[k - 1].wake = H[k].wake
        BY <1>1, <3>1, <3>3 DEF Here
      <4>4. ASSUME NEW j \in DOMAIN list, list[j].last \/ list[j].what \in {"bus", "request"}
            PROVE  j <= i
        <5>1. CASE j \in 1..p  BY <5>1, <1>2, <2>2
        <5>2. ASSUME NEW l \in 1..h, j = p + l  PROVE j <= i
          <6>1. list[j] = H[l] /\ l \in DOMAIN H  BY <5>2, <1>2, <1>5
          <6>2. H[l].what = "request"  BY <6>1, <4>4, <1>7
          <6>3. l <= k  BY <6>1, <6>2, <4>3
          <6>4. QED  BY <6>3, <5>2, <1>2, <2>2
        <5>3. QED  BY <5>1, <5>2, <1>6
      <4>5. QED  BY <4>1, <4>2, <4>3, <4>4, <1>7
    <3>4. H[k].what \in Settings \cup {"request", "counters"} /\ H[k].what # "bus"
      BY <1>1, <1>7, <3>1 DEF Here
    <3>5. QED  BY <3>1, <3>2, <3>3, <3>4 DEF FitsAt
  <2>3. QED  BY <2>1, <2>2, <1>6
<1>9. Holds(list, "request")
  <2>1. PICK k \in DOMAIN H : H[k].what = "request"  BY <1>1 DEF Here, Holds
  <2>2. p + k \in DOMAIN list /\ list[p + k] = H[k]  BY <2>1, <1>2, <1>5
  <2>3. QED  BY <2>1, <2>2 DEF Holds
<1>10. link.controller = r.c \/ (Holds(list, "bus") /\ \E i \in DOMAIN list : list[i].last)
  BY <1>2, <1>4, <1>5 DEF Holds
<1>11. QED  BY <1>5, <1>8, <1>9, <1>10 DEF Fits, list

\* The effect of a command that an adapter has accepted.
LEMMA FitsTail ==
  ASSUME NEW r \in Request, r.wake => r.c = 2, NEW list \in Seq(Cmd), list # <<>>,
         NEW c, NEW d, NEW w \in Seq(Nat), NEW d2, NEW w2, Fits(list, r, c, d, w),
         d.wake \in BOOLEAN,
         d2.bus = IF Head(list).what = "bus" THEN Head(list).c ELSE d.bus,
         d2.wake = IF Head(list).what = "mode" THEN Head(list).wake ELSE d.wake,
         w2 = IF Head(list).what = "request" THEN Append(w, r.ticket) ELSE w
  PROVE  Fits(Tail(list), r, IF Head(list).last THEN r.c ELSE c, d2, w2)
<1> DEFINE x == Head(list)
           t == Tail(list)
<1>1. /\ x = list[1] /\ x \in Cmd /\ t \in Seq(Cmd) /\ 1 \in DOMAIN list
      /\ DOMAIN list = 1..Len(list) /\ Len(list) \in Nat /\ DOMAIN t = 1..(Len(list) - 1)
      /\ \A i \in DOMAIN t : t[i] = list[i + 1] /\ i + 1 \in DOMAIN list /\ i \in Nat /\ i >= 1
      /\ \A j \in DOMAIN list : j # 1 => j - 1 \in DOMAIN t /\ t[j - 1] = list[j]
  <2>1. /\ x = list[1] /\ x \in Cmd /\ t \in Seq(Cmd) /\ Len(t) = Len(list) - 1
        /\ DOMAIN list = 1..Len(list) /\ Len(list) \in Nat /\ DOMAIN t = 1..Len(t) /\ Len(list) # 0
        /\ \A i \in 1..Len(t) : t[i] = list[i + 1]
    BY HeadTailProperties, LenProperties, EmptySeq
  <2> HIDE DEF x, t
  <2>2. QED  BY <2>1
<1> HIDE DEF x, t
<1>2. \A i \in DOMAIN list : FitsAt(list, i, r, d) /\ list[i] \in Cmd  BY ElementOfSeq, <1>1 DEF Fits
<1>3. d2.wake => r.c = 2 /\ \E i \in DOMAIN t : t[i].what = "mode" /\ ~t[i].wake
  <2>1. SUFFICES ASSUME d2.wake
                 PROVE  r.c = 2 /\ \E j \in DOMAIN list : j # 1 /\ list[j].what = "mode" /\ ~list[j].wake
    BY <1>1
  <2>2. CASE x.what = "mode"
    <3>1. x.wake  BY <2>1, <2>2 DEF x
    <3>2. QED  BY <1>1, <1>2, <2>2, <3>1 DEF FitsAt
  <2>3. CASE x.what # "mode"  BY <1>1, <2>1, <2>3 DEF Fits, x
  <2>4. QED  BY <2>2, <2>3
<1>4. ASSUME NEW i \in DOMAIN t  PROVE FitsAt(t, i, r, d2)
  <2>1. t[i] = list[i + 1] /\ i + 1 \in DOMAIN list /\ i \in Nat /\ FitsAt(list, i + 1, r, d)
    BY <1>1, <1>2
  <2>2. ASSUME t[i].what = "mode", t[i].wake
        PROVE  \E j \in DOMAIN t : j > i /\ t[j].what = "mode" /\ ~t[j].wake
    <3>1. PICK j \in DOMAIN list : j > i + 1 /\ list[j].what = "mode" /\ ~list[j].wake
      BY <2>1, <2>2 DEF FitsAt
    <3>2. j - 1 \in DOMAIN t /\ t[j - 1] = list[j] /\ j - 1 > i  BY <1>1, <2>1, <3>1
    <3>3. QED  BY <3>1, <3>2
  <2>3. ASSUME t[i].what = "request"
        PROVE  /\ \A j \in DOMAIN t : t[j].last \/ t[j].what \in {"bus", "request"} => j <= i
               /\ IF i = 1 THEN d2.wake = t[i].wake
                  ELSE r.c = 2 => t[i - 1].what = "mode" /\ t[i - 1].wake = t[i].wake
    <3>1. ASSUME NEW j \in DOMAIN t, t[j].last \/ t[j].what \in {"bus", "request"}  PROVE j <= i
      <4>1. t[j] = list[j + 1] /\ j + 1 \in DOMAIN list /\ j \in Nat  BY <1>1
      <4>2. j + 1 <= i + 1  BY <2>1, <2>3, <3>1, <4>1 DEF FitsAt
      <4>3. QED  BY <2>1, <4>1, <4>2
    <3>2. r.c = 2 => list[i].what = "mode" /\ list[i].wake = t[i].wake
      <4>1. i + 1 # 1 /\ (i + 1) - 1 = i /\ i >= 1  BY <1>1, <2>1
      <4>2. QED  BY <2>1, <2>3, <4>1 DEF FitsAt
    <3>3. CASE i = 1
      <4>1. CASE r.c = 2
        <5>1. x.what = "mode" /\ x.wake = t[i].wake  BY <1>1, <3>2, <3>3, <4>1
        <5>2. QED  BY <5>1, <3>1, <3>3 DEF x
      <4>2. CASE r.c # 2
        <5>1. ~d2.wake /\ x.what # "mode"  BY <1>1, <1>2, <1>3, <4>2 DEF FitsAt
        <5>2. d2.wake \in BOOLEAN  BY <5>1 DEF x
        <5>3. t[i].wake = r.wake /\ r.wake \in BOOLEAN /\ ~r.wake  BY <2>1, <2>3, <4>2 DEF FitsAt, Request
        <5>4. d2.wake = FALSE /\ t[i].wake = FALSE  BY <5>1, <5>2, <5>3
        <5>5. QED  BY <5>4, <3>1, <3>3
      <4>3. QED  BY <4>1, <4>2
    <3>4. CASE i # 1
      <4>1. i - 1 \in DOMAIN t /\ t[i - 1] = list[i]
        <5>1. i \in DOMAIN list  BY <1>1, <2>1
        <5>2. QED  BY <1>1, <3>4, <5>1
      <4>2. QED  BY <3>1, <3>2, <3>4, <4>1
    <3>5. QED  BY <3>3, <3>4
  <2>4. QED  BY <2>1, <2>2, <2>3 DEF FitsAt
<1>5. d2.bus = r.c \/ Holds(t, "bus")
  <2>1. CASE x.what = "bus"  BY <1>1, <1>2, <2>1 DEF FitsAt, x
  <2>2. CASE x.what # "bus"
    <3>1. d2.bus = d.bus  BY <2>2 DEF x
    <3>2. Holds(list, "bus") => Holds(t, "bus")  BY <1>1, <2>2 DEF Holds
    <3>3. QED  BY <3>1, <3>2 DEF Fits
  <2>3. QED  BY <2>1, <2>2
<1>6. LET c2 == IF x.last THEN r.c ELSE c
      IN c2 = r.c \/ \E i \in DOMAIN t : t[i].last
  BY <1>1 DEF Fits
<1>7. IF Holds(t, "request") THEN Beyond(w2, r.ticket) ELSE Carried(w2, r.ticket)
  <2>1. CASE x.what = "request"
    <3>1. ~Holds(t, "request")
      <4>1. \A j \in DOMAIN list : list[j].what = "request" => j <= 1  BY <1>1, <1>2, <2>1 DEF FitsAt
      <4>2. \A j \in DOMAIN t : t[j].what = "request" => j + 1 <= 1 /\ j \in Nat /\ j >= 1
        BY <1>1, <4>1
      <4>3. QED  BY <4>2 DEF Holds
    <3>2. w2 = Append(w, r.ticket) /\ r.ticket \in Nat  BY <2>1 DEF x, Request
    <3>3. Carried(w2, r.ticket)
      <4>1. Len(w) + 1 \in DOMAIN w2 /\ w2[Len(w) + 1] = r.ticket  BY <3>2, Appended
      <4>2. QED  BY <4>1 DEF Carried
    <3>4. QED  BY <3>1, <3>3
  <2>2. CASE x.what # "request"
    <3>1. w2 = w  BY <2>2 DEF x
    <3>2. Holds(list, "request") <=> Holds(t, "request")  BY <1>1, <2>2 DEF Holds
    <3>3. QED  BY <3>1, <3>2 DEF Fits
  <2>3. QED  BY <2>1, <2>2
<1>8. QED  BY <1>3, <1>4, <1>5, <1>6, <1>7 DEF Fits, x, t

\* A request that is taken comes before those that are left.
LEMMA Taken ==
  ASSUME StnInv, worker = "loop", requests # <<>>, requests' = Tail(requests), job' = Head(requests),
         UNCHANGED <<asked, wire>>, worker' # "loop"
  PROVE  /\ Tickets' /\ requests' \in Seq(Request) /\ job' \in Request
         /\ (job'.wake => job'.c = 2) /\ Beyond(wire[job'.c], job'.ticket)
<1> USE DEF StnInv
<1>1. Serving  BY DEF Serving, Control
<1>2. /\ job' = requests[1] /\ job' \in Request /\ requests' \in Seq(Request) /\ 1 \in DOMAIN requests
      /\ DOMAIN requests' = 1..(Len(requests) - 1) /\ Len(requests) \in Nat
      /\ \A i \in DOMAIN requests' : requests'[i] = requests[i + 1] /\ i + 1 \in DOMAIN requests
  <2>1. requests \in Seq(Request)  BY DEF StnTypes
  <2>2. /\ Head(requests) = requests[1] /\ Head(requests) \in Request
        /\ Tail(requests) \in Seq(Request) /\ Len(Tail(requests)) = Len(requests) - 1
        /\ DOMAIN requests = 1..Len(requests) /\ Len(requests) \in Nat /\ Len(requests) # 0
        /\ \A i \in 1..Len(Tail(requests)) : Tail(requests)[i] = requests[i + 1]
    BY <2>1, HeadTailProperties, LenProperties, EmptySeq
  <2>3. DOMAIN Tail(requests) = 1..(Len(requests) - 1)  BY <2>2, LenProperties
  <2>4. QED  BY <2>2, <2>3
<1>3. /\ job'.c \in Buses /\ job'.ticket \in Nat /\ job'.ticket \in 1..asked[job'.c]
      /\ (job'.wake => job'.c = 2) /\ Beyond(wire[job'.c], job'.ticket)
  BY <1>1, <1>2 DEF Tickets, Request
<1>4. ASSUME NEW i \in DOMAIN requests'
      PROVE  LET r == requests'[i]
             IN /\ r.ticket \in 1..asked[r.c] /\ (r.wake => r.c = 2) /\ Beyond(wire[r.c], r.ticket)
                /\ r.c = job'.c => job'.ticket < r.ticket
                /\ \A j \in 1..(i - 1) : requests'[j].c = r.c => requests'[j].ticket < r.ticket
  <2>1. requests'[i] = requests[i + 1] /\ i + 1 \in DOMAIN requests /\ i \in Nat /\ i >= 1
        /\ i <= Len(requests) - 1
    BY <1>2
  <2>2. 1 \in 1..((i + 1) - 1)
        /\ \A j \in 1..(i - 1) : j \in DOMAIN requests' /\ j + 1 \in 1..((i + 1) - 1)
    BY <1>2, <2>1
  <2>3. LET r == requests[i + 1]
        IN /\ r.ticket \in 1..asked[r.c] /\ (r.wake => r.c = 2) /\ Beyond(wire[r.c], r.ticket)
           /\ \A j \in 1..((i + 1) - 1) : requests[j].c = r.c => requests[j].ticket < r.ticket
    BY <1>1, <2>1 DEF Tickets
  <2>4. \A j \in 1..(i - 1) : requests'[j].c = requests[i + 1].c => requests'[j].ticket < requests[i + 1].ticket
    BY <1>2, <2>2, <2>3
  <2>5. requests[i + 1].c = job'.c => job'.ticket < requests[i + 1].ticket
    BY <1>2, <2>2, <2>3
  <2>6. QED  BY <2>1, <2>3, <2>4, <2>5
<1>5. \A c \in Buses : \A i \in DOMAIN wire'[c] : wire'[c][i] \in 1..asked'[c]  BY DEF Tickets
<1>6. Tickets'  BY <1>2, <1>3, <1>4, <1>5 DEF Tickets
<1>7. QED  BY <1>2, <1>3, <1>6

\* As long as no request is in progress, all that the buses have carried is reported.
LEMMA AllPosted ==
  ASSUME StnInv, Named = None
  PROVE  \A c \in Buses : \A i \in DOMAIN wire[c] : <<c, wire[c][i]>> \in posted
<1>1. SUFFICES ASSUME NEW c \in Buses, NEW i \in DOMAIN wire[c]  PROVE <<c, wire[c][i]>> \in posted
  OBVIOUS
<1>2. wire[c][i] \in 1..asked[c] /\ asked[c] \in Nat  BY DEF StnInv, Tickets, StnTypes
<1>3. None.ticket # wire[c][i]  BY <1>2, NoneIsNone
<1>4. <<c, wire[c][i]>> \in posted \/ Named.ticket = wire[c][i]
  BY DEF StnInv, Naming, FailureNamed, Named
<1>5. QED  BY <1>3, <1>4

LEMMA TakeStep ==
  ASSUME StnInv, Take
  PROVE  StnInv'
<1> USE DEF StnInv, device, firmware, bridge
<1> DEFINE x == Command("interrupt")
<1>0. x \in Cmd /\ x.what = "interrupt"  BY PlainCommand DEF Commands
<1>1. /\ worker = "loop" /\ Serving /\ Listening /\ link.synchronized /\ release = "none"
      /\ errors = <<>> /\ lines = <<>> /\ (link.receiving => link.monitoring)
  <2>1. worker = "loop"  BY DEF Take
  <2>2. link.monitoring \in BOOLEAN /\ link.receiving \in BOOLEAN  BY DEF StnTypes
  <2>3. release = "none" /\ link.monitoring = link.receiving  BY <2>1 DEF Control
  <2>4. Serving  BY <2>1, <2>3 DEF Serving
  <2>5. QED  BY <2>1, <2>2, <2>3, <2>4 DEF Listening, Control
<1>2. /\ UNCHANGED <<firmware, bridge, stop, server, device, posted, events, lines, in>>
      /\ requests' = Tail(requests) /\ job' = Head(requests) /\ requests # <<>>
  BY DEF Take
<1>3. worker' # "loop" =>
        /\ Tickets' /\ requests' \in Seq(Request) /\ job' \in Request
        /\ (job'.wake => job'.c = 2) /\ Beyond(wire[job'.c], job'.ticket)
  BY <1>1, <1>2, Taken
<1>4. adapter.bus = link.controller /\ ~adapter.wake /\ (link.receiving => Watching)
  BY <1>1 DEF Phase
<1>5. ~Holds(out, "request")  BY <1>1, NothingLoaded
<1>6. CASE /\ link.receiving /\ server = "serves" /\ out' = Append(out, x) /\ link' = link
           /\ Goes("drain") /\ UNCHANGED <<active, todo>>
  <2>1. /\ worker' = "drain" /\ link.receiving /\ link.monitoring /\ server = "serves"
        /\ UNCHANGED <<link, active, todo, errors, release>>
    BY <1>1, <1>6 DEF Goes
  <2>2. /\ out \in Seq(Cmd) /\ out' \in Seq(Cmd) /\ DOMAIN out' = 1..(Len(out) + 1) /\ Len(out) \in Nat
        /\ DOMAIN out = 1..Len(out)
        /\ out'[Len(out) + 1] = x /\ \A i \in 1..Len(out) : out'[i] = out[i]
        /\ out = <<>> => out' = <<x>>
    <3>1. out \in Seq(Cmd) /\ out' = Append(out, x)  BY <1>6 DEF StnTypes
    <3> HIDE DEF x
    <3>2. QED  BY <3>1, <1>0, Appended
  <2>3. StnTypes'  BY <1>2, <1>3, <2>1, <2>2 DEF StnTypes
  <2>4. Control'  BY <1>1, <1>2, <2>1 DEF Control, Serving
  <2>5. Phase'
    <3>1. asks = <<>> /\ asks' = <<x>>  BY <1>1, <2>1 DEF asks
    <3>2. Watching'
      <4>1. CASE adapter.mode = "idle" /\ out = <<Command("monitor")>> \o asks /\ in = <<>>
        <5>1. Command("monitor") \in Cmd  BY PlainCommand DEF Commands
        <5>2. out = <<Command("monitor")>>  BY <3>1, <4>1, <5>1
        <5>3. \A e, f \in Cmd : Append(<<e>>, f) = <<e>> \o <<f>>  OBVIOUS
        <5>4. out' = <<Command("monitor")>> \o asks'  BY <1>0, <1>6, <3>1, <5>1, <5>2, <5>3
        <5>5. QED  BY <1>2, <4>1, <5>4 DEF Watching
      <4>2. CASE adapter.mode = "monitor" /\ out = asks /\ Only(in, {"frame"})
        BY <1>2, <2>2, <3>1, <4>2 DEF Watching
      <4>3. QED  BY <1>1, <1>4, <2>1, <4>1, <4>2 DEF Watching
    <3>3. QED  BY <1>2, <1>4, <2>1, <3>2 DEF Phase
  <2>6. Exchange'
    <3>1. Only(out', {"monitor", "interrupt"})
      <4>1. SUFFICES ASSUME NEW i \in DOMAIN out'  PROVE out'[i].what \in {"monitor", "interrupt"}
        BY DEF Only
      <4>2. i = Len(out) + 1 \/ (i \in DOMAIN out /\ out'[i] = out[i])  BY <2>2
      <4>3. QED  BY <1>0, <1>1, <2>1, <2>2, <4>2 DEF Exchange, Only
    <3>2. QED  BY <1>1, <1>2, <2>1, <3>1 DEF Exchange
  <2>7. Loaded'
    <3>1. \A i \in DOMAIN out' : out'[i].what # "request"  BY <1>0, <1>5, <2>2 DEF Holds
    <3>2. QED  BY <3>1 DEF Loaded
  <2>8. Truth'  BY <1>2 DEF Truth
  <2>9. Naming'  BY <1>1, <1>2, <2>1 DEF Naming, FailureNamed, Serving
  <2>10. Stream'  BY <1>1, <1>2, <2>1, StreamSame
  <2>11. Closing'  BY <1>1, <2>1 DEF Closing
  <2>12. QED  BY <1>3, <2>1, <2>3, <2>4, <2>5, <2>6, <2>7, <2>8, <2>9, <2>10, <2>11
<1>7. CASE /\ out' \in Written(x) /\ link' = [link EXCEPT !.synchronized = FALSE] /\ Fails
           /\ UNCHANGED <<active, todo>>
  <2>1. worker' # "loop"  BY <1>7 DEF Fails
  <2>2. todo' \in Seq(Cmd) /\ lines' \in Seq(Words) /\ job' \in Request \cup {None} /\ requests' \in Seq(Request)
    BY <1>2, <1>3, <1>7, <2>1 DEF StnTypes
  <2>3. UNCHANGED <<firmware, events, got, active, posted, server, device, in>>  BY <1>2, <1>7
  <2>4. QED  BY <1>0, <1>1, <1>7, <2>2, <2>3, SendFails DEF AtWork
<1>8. CASE ~link.receiving /\ Begins(Head(requests)) /\ Goes("next") /\ UNCHANGED <<link, out>>
  <2>1. /\ worker' = "next" /\ ~link.receiving /\ ~link.monitoring
        /\ active' = job' /\ todo' = Program(job')
        /\ UNCHANGED <<link, out, errors, release>>
    BY <1>2, <1>8 DEF Goes, Begins, Control
  <2>2. todo' \in Seq(Cmd) /\ Fits(todo', job', link.controller, adapter, wire[job'.c])
    <3>1. job' \in Request /\ (job'.wake => job'.c = 2) /\ Beyond(wire[job'.c], job'.ticket)
      BY <1>3, <2>1
    <3>2. QED  BY <1>4, <2>1, <3>1, ProgramFits
  <2>3. StnTypes'  BY <1>2, <1>3, <2>1, <2>2 DEF StnTypes
  <2>4. Control'  BY <1>1, <1>2, <2>1 DEF Control, Serving
  <2>5. Phase'  BY <1>2, <2>1, <2>2 DEF Phase, FitsNow
  <2>6. Exchange'  BY <1>1, <1>2, <2>1 DEF Exchange
  <2>7. Loaded'  BY <1>5, <2>1 DEF Loaded, Holds
  <2>8. Truth'  BY <1>2 DEF Truth
  <2>9. Naming'
    <3>1. Named = None  BY <1>1 DEF Naming, Named
    <3>2. FailureNamed'  BY <1>2, <3>1, AllPosted DEF FailureNamed
    <3>3. QED  BY <1>1, <2>1, <3>2 DEF Naming, Serving
  <2>10. Stream'  BY <1>1, <1>2, <2>1, StreamSame
  <2>11. Closing'  BY <1>1, <2>1 DEF Closing
  <2>12. QED  BY <1>3, <2>1, <2>3, <2>4, <2>5, <2>6, <2>7, <2>8, <2>9, <2>10, <2>11
<1>9. QED  BY <1>6, <1>7, <1>8 DEF Take, Sends

\* The first command of a request that the adapter fits.
LEMMA FitsHead ==
  ASSUME NEW r, NEW list \in Seq(Cmd), list # <<>>, NEW c, NEW d, NEW w, Fits(list, r, c, d, w)
  PROVE  /\ Head(list).what \in Settings \cup {"request", "counters"}
         /\ Head(list).what = "request" =>
              /\ Head(list).c = r.c /\ Head(list).ticket = r.ticket /\ Head(list).wake = r.wake
              /\ ~Head(list).last /\ d.bus = r.c /\ c = r.c /\ d.wake = Head(list).wake
              /\ Beyond(w, r.ticket)
<1>1. 1 \in DOMAIN list /\ Head(list) = list[1] /\ \A i \in DOMAIN list : i \in Nat /\ i >= 1
  BY EmptySeq, LenProperties
<1>2. FitsAt(list, 1, r, d)  BY <1>1 DEF Fits
<1>3. list[1].what \in Settings \cup {"request", "counters"}  BY <1>2 DEF FitsAt
<1>4. ASSUME list[1].what = "request"
      PROVE  /\ list[1].c = r.c /\ list[1].ticket = r.ticket /\ list[1].wake = r.wake
             /\ ~list[1].last /\ d.bus = r.c /\ c = r.c /\ d.wake = list[1].wake
             /\ Beyond(w, r.ticket)
  <2>1. \A j \in DOMAIN list : list[j].last \/ list[j].what \in {"bus", "request"} => j = 1
    BY <1>1, <1>2, <1>4 DEF FitsAt
  <2>2. ~Holds(list, "bus") /\ \A j \in DOMAIN list : ~list[j].last
    BY <1>2, <1>4, <2>1 DEF FitsAt, Holds
  <2>3. Holds(list, "request")  BY <1>1, <1>4 DEF Holds
  <2>4. QED  BY <1>2, <1>4, <2>2, <2>3 DEF FitsAt, Fits
<1>5. QED  BY <1>1, <1>3, <1>4

\* The worker sends a command when nothing is under way.
LEMMA SendStep ==
  ASSUME StnInv, Send
  PROVE  StnInv'
<1> USE DEF StnInv, others, device, firmware, bridge
<1> DEFINE x == Head(todo)
<1>1. /\ worker = "next" /\ todo # <<>> /\ ~link.monitoring /\ ~link.receiving /\ AtWork
      /\ release \in {"none", "running"} /\ lines = <<>> /\ (release = "none" => Serving)
  BY DEF Send, Control, AtWork, Serving
<1>2. x \in Cmd /\ todo \in Seq(Cmd)  BY <1>1, HeadTailProperties DEF StnTypes
<1>3. /\ UNCHANGED <<firmware, bridge, requests, stop, server, device, posted, events, job, active, todo, in>>
      /\ lines' = <<>>
  BY DEF Send
<1>4. Serving =>
        /\ Listening /\ out = <<>> /\ in = <<>> /\ adapter.mode = "idle" /\ errors = <<>> /\ FitsNow
        /\ job \in Request /\ job.ticket \in 1..asked[job.c] /\ active = job
        /\ x.what \in Settings \cup {"request", "counters"}
        /\ x.what = "request" =>
             /\ x.c = job.c /\ x.ticket = job.ticket /\ ~x.last
             /\ adapter.bus = job.c /\ link.controller = job.c /\ adapter.wake = x.wake
             /\ Beyond(wire[job.c], job.ticket)
  <2>1. SUFFICES ASSUME Serving  PROVE <1>4!2
    OBVIOUS
  <2>2. Listening  BY <2>1 DEF Listening, Control
  <2>3. out = <<>> /\ in = <<>> /\ adapter.mode = "idle"  BY <1>1, <2>2 DEF Exchange
  <2>4. /\ errors = <<>> /\ FitsNow /\ job \in Request /\ job.ticket \in 1..asked[job.c] /\ active = job
    BY <1>1, <2>1 DEF Control, Phase, Tickets, Naming
  <2>5. Fits(todo, job, link.controller, adapter, wire[job.c])  BY <2>4 DEF FitsNow
  <2>6. /\ x.what \in Settings \cup {"request", "counters"}
        /\ x.what = "request" =>
             /\ x.c = job.c /\ x.ticket = job.ticket /\ ~x.last
             /\ adapter.bus = job.c /\ link.controller = job.c /\ adapter.wake = x.wake
             /\ Beyond(wire[job.c], job.ticket)
    BY <1>1, <1>2, <2>5, FitsHead
  <2>7. QED  BY <2>2, <2>3, <2>4, <2>6
<1>5. ~Serving =>
        /\ release = "running" /\ errors \in Seq(Request \cup {None})
        /\ todo = Farewell \/ todo = <<Command("close")>>
        /\ x.what \in {"counters", "close"} /\ (x.what = "close" => todo = <<Command("close")>>)
        /\ link.synchronized => /\ Only(out, {"monitor", "interrupt", "counters"})
                                /\ ~Holds(in, "ok")
  <2>1. SUFFICES ASSUME ~Serving  PROVE <1>5!2
    OBVIOUS
  <2>2. release = "running"  BY <1>1, <2>1
  <2>3. todo = Farewell \/ todo = <<Command("close")>>  BY <1>1, <2>2 DEF Closing, Farewell
  <2>4. Command("counters").what = "counters" /\ Command("close").what = "close"
    BY PlainCommand DEF Commands, Settings
  <2>5. x = Command("counters") \/ (x = Command("close") /\ todo = <<Command("close")>>)
    BY <2>3, FarewellIs
  <2>6. link.synchronized => /\ Only(out, {"monitor", "interrupt", "counters"})
                             /\ ~Holds(in, "ok")
    BY <1>1, <2>2 DEF Closing, Only, LastCommand
  <2>7. errors \in Seq(Request \cup {None})  BY DEF StnTypes
  <2>8. QED  BY <2>2, <2>3, <2>4, <2>5, <2>6, <2>7
<1>6. x.what = "request" => Serving  BY <1>5
<1> HIDE DEF x
<1>7. CASE /\ link.synchronized /\ server = "serves" /\ out' = Append(out, x)
           /\ link' = [link EXCEPT !.receiving = TRUE]
           /\ Goes(IF x.what = "request" /\ ~x.wake THEN "finish" ELSE "answer")
  <2>1. /\ worker' = (IF x.what = "request" /\ ~x.wake THEN "finish" ELSE "answer")
        /\ UNCHANGED <<errors, release>> /\ link.synchronized
    BY <1>7 DEF Goes
  <2>2. /\ link'.receiving /\ link'.synchronized /\ ~link'.monitoring /\ link'.controller = link.controller
        /\ link' \in [receiving: BOOLEAN, monitoring: BOOLEAN, synchronized: BOOLEAN, controller: Bus]
    BY <1>1, <1>7 DEF StnTypes
  <2>3. /\ out \in Seq(Cmd) /\ out' \in Seq(Cmd) /\ DOMAIN out' = 1..(Len(out) + 1) /\ Len(out) \in Nat
        /\ DOMAIN out = 1..Len(out) /\ Len(out') = Len(out) + 1
        /\ out'[Len(out) + 1] = x /\ \A i \in 1..Len(out) : out'[i] = out[i]
        /\ out = <<>> => out' = <<x>>
    <3>1. out \in Seq(Cmd) /\ out' = Append(out, x)  BY <1>7 DEF StnTypes
    <3>2. QED  BY <3>1, <1>2, Appended
  <2>4. (x.what = "request" => Serving) /\ worker' \in {"finish", "answer"}
        /\ Serving' = Serving /\ (worker' = "finish" => x.what = "request")
    BY <1>1, <1>6, <2>1 DEF Serving
  <2>5. StnTypes'
    <3>1. lines' \in Seq(Words)  BY <1>3
    <3>2. QED  BY <1>3, <2>1, <2>2, <2>3, <2>4, <3>1 DEF StnTypes
  <2>6. Control'  BY <1>1, <1>3, <2>1, <2>2, <2>4 DEF Control, Serving
  <2>7. Tickets'
    BY <1>1, <1>3, <2>1, <2>4 DEF Tickets
  <2>8. Phase'
    <3>1. SUFFICES ASSUME Serving  PROVE Answering'  BY <2>4 DEF Phase, Serving
    <3>2. out' = <<Head(todo)>>  BY <1>4, <2>3, <3>1 DEF x
    <3>3. FitsNow'  BY <1>3, <1>4, <2>2, <3>1 DEF FitsNow
    <3>4. QED  BY <1>1, <1>3, <1>4, <2>1, <2>4, <3>1, <3>2, <3>3 DEF Answering, x
  <2>9. Exchange'
    <3>1. SUFFICES ASSUME Serving  PROVE Exchange'  BY <2>4 DEF Exchange, Listening
    <3>2. out' = <<x>> /\ Len(out') = 1 /\ DOMAIN out' = {1} /\ out'[1] = x
      BY <1>4, <2>3, <3>1
    <3>3. QED  BY <1>3, <1>4, <2>2, <3>1, <3>2 DEF Exchange, Only, Holds
  <2>10. Loaded'
    <3>1. ~Holds(out, "request")  BY <1>1, <2>1, NothingLoaded
    <3>2. CASE x.what # "request"  BY <2>3, <3>1, <3>2 DEF Loaded, Holds
    <3>3. CASE x.what = "request"
      <4>1. Serving /\ out = <<>>  BY <1>4, <2>4, <3>3
      <4>2. Len(out') = 1 /\ \A i \in DOMAIN out' : out'[i] = x  BY <2>3, <4>1
      <4>3. Named'.c = x.c /\ Named'.ticket = x.ticket /\ x.c \in Buses
        BY <1>3, <1>4, <2>1, <3>3, <4>1 DEF Named, Request
      <4>4. QED  BY <1>3, <1>4, <2>2, <2>4, <3>3, <4>1, <4>2, <4>3 DEF Loaded
    <3>4. QED  BY <3>2, <3>3
  <2>11. Truth'  BY <1>3 DEF Truth
  <2>12. Naming'
    <3>1. FailureNamed'  BY <1>3, <2>1 DEF Naming, FailureNamed
    <3>2. QED  BY <1>1, <1>3, <1>4, <2>1, <2>4, <3>1 DEF Naming
  <2>13. Stream'
    <3>1. Listening' => Listening  BY <1>4, <2>2, <2>4 DEF Listening
    <3>2. QED  BY <1>1, <1>3, <2>1, <3>1, StreamSame
  <2>14. Closing'
    <3>1. CASE Serving  BY <3>1, <2>1 DEF Closing, Serving
    <3>2. CASE ~Serving
      <4>1. worker' = "answer"  BY <2>4, <3>2
      <4>2. Only(out', {"monitor", "interrupt", "counters", "close"})
        <5>1. SUFFICES ASSUME NEW i \in DOMAIN out'
                       PROVE  out'[i].what \in {"monitor", "interrupt", "counters", "close"}
          BY DEF Only
        <5>2. i = Len(out) + 1 \/ (i \in DOMAIN out /\ out'[i] = out[i])  BY <2>3
        <5>3. QED  BY <1>5, <2>1, <2>3, <3>2, <5>2 DEF Only
      <4>3. ASSUME NEW i \in DOMAIN out', out'[i].what = "close"  PROVE i = Len(out') /\ LastCommand'
        <5>1. i = Len(out) + 1 \/ (i \in DOMAIN out /\ out'[i] = out[i])  BY <2>3
        <5>2. i = Len(out) + 1  BY <1>5, <2>1, <3>2, <4>3, <5>1 DEF Only
        <5>3. x.what = "close"  BY <2>3, <4>3, <5>2
        <5>4. todo = <<Command("close")>>  BY <1>5, <3>2, <5>3
        <5>5. QED  BY <1>3, <2>3, <4>1, <5>2, <5>4 DEF LastCommand
      <4>4. todo = Farewell \/ todo = <<Command("close")>>  BY <1>5, <3>2
      <4>5. QED  BY <1>1, <1>3, <1>5, <2>1, <3>2, <4>1, <4>2, <4>3, <4>4 DEF Closing, Farewell
    <3>3. QED  BY <3>1, <3>2
  <2>15. QED
    BY <2>5, <2>6, <2>7, <2>8, <2>9, <2>10, <2>11, <2>12, <2>13, <2>14
<1>8. CASE out' \in Written(x) /\ link' = [link EXCEPT !.synchronized = FALSE] /\ Fails
  <2>1. UNCHANGED <<firmware, events, got, active, posted, server, device, in, requests, job, todo>>
        /\ lines' \in Seq(Words)
    BY <1>3
  <2>2. requests' \in Seq(Request) /\ job' \in Request \cup {None} /\ todo' \in Seq(Cmd)
    BY <2>1 DEF StnTypes
  <2>3. x.what = "request" =>
           /\ Serving /\ worker = "next" /\ out = <<>> /\ in = <<>> /\ adapter.mode = "idle"
           /\ x.c \in Buses /\ x.ticket \in 1..asked[x.c] /\ Beyond(wire[x.c], x.ticket)
           /\ adapter.bus = x.c /\ adapter.wake = x.wake
           /\ active.c = x.c /\ active.ticket = x.ticket
    BY <1>1, <1>4, <1>6 DEF Request
  <2>4. QED  BY <1>1, <1>2, <1>8, <2>1, <2>2, <2>3, SendFails
<1>9. QED  BY <1>7, <1>8 DEF Send, Sends, x

-----------------------------------------------------------------------------
(***************************************************************************)
(* The worker: what it receives.                                           *)
(***************************************************************************)

LEMMA LeastIs ==
  ASSUME NEW S \in SUBSET Nat, S # {}
  PROVE  Least(S) \in S /\ \A n \in S : Least(S) <= n
<1> DEFINE Less == {ss \in Nat \X Nat : ss[1] < ss[2]}
<1>1. IsWellFoundedOn(Less, Nat)
  BY NatLessThanWellFounded, Zenon DEF OpToRel
<1>2. PICK x \in S : \A y \in S : ~(<<y, x>> \in Less)
  <2> HIDE DEF Less
  <2>1. QED  BY <1>1, WFMin
<1>3. \A y \in S : x <= y
  <2> SUFFICES ASSUME NEW y \in S, y < x PROVE FALSE
    OBVIOUS
  <2>1. <<y, x>> \in Less
    OBVIOUS
  <2>2. QED  BY <1>2, <2>1
<1>4. QED  BY <1>3 DEF Least

\* The places of a set are numbered without a gap.
LEMMA InOrderIs ==
  ASSUME NEW n \in Nat, NEW S \in SUBSET (1..n), NEW at \in InOrder(S)
  PROVE  \E k \in Nat :
           /\ at \in [1..k -> S] /\ DOMAIN at = 1..k
           /\ \A i, j \in 1..k : i < j => at[i] < at[j]
           /\ \A s \in S : \E i \in 1..k : at[i] = s
<1>1. IsFiniteSet(1..n)  BY FS_Interval
<1>2. IsFiniteSet(S)  BY <1>1, FS_Subset
<1>3. Cardinality(S) \in Nat  BY <1>2, FS_CardinalityType
<1>4. at \in [1..Cardinality(S) -> S]  BY DEF InOrder
<1>5. DOMAIN at = 1..Cardinality(S)  BY <1>4
<1>6. \A i, j \in DOMAIN at : i < j => at[i] < at[j]  BY DEF InOrder
<1>7. \A s \in S : \E i \in DOMAIN at : at[i] = s  BY DEF InOrder
<1>8. QED  BY <1>3, <1>4, <1>5, <1>6, <1>7

\* The events `all`: those there are, and one for each frame of the first g items.
TakesFrames(all, g, k, at) ==
  /\ all \in Seq(Event) /\ k \in Nat /\ at \in [1..k -> 1..g]
  /\ Len(all) = Len(events) + k /\ DOMAIN all = 1..(Len(events) + k)
  /\ \A i \in 1..k : in[at[i]].what = "frame"
  /\ \A i, j \in 1..k : i < j => at[i] < at[j]
  /\ \A p \in 1..g : in[p].what = "frame" => \E i \in 1..k : at[i] = p
  /\ \A i \in 1..Len(events) : all[i] = events[i]
  /\ \A i \in 1..k : /\ all[Len(events) + i].what = "received"
                     /\ all[Len(events) + i].c = link.controller
                     /\ all[Len(events) + i].n = in[at[i]].n

LEMMA FramesTaken ==
  ASSUME StnTypes, NEW g \in 0..Len(in),
         NEW at \in InOrder({i \in 1..g : in[i].what = "frame"})
  PROVE  \E k \in Nat :
           /\ at \in [1..k -> 1..g] /\ DOMAIN at = 1..k
           /\ TakesFrames(
                events \o [i \in 1..k |-> [what |-> "received", c |-> link.controller, n |-> in[at[i]].n]],
                g, k, at)
<1> DEFINE S == {i \in 1..g : in[i].what = "frame"}
<1>0. in \in Seq(Item) /\ events \in Seq(Event) /\ Len(in) \in Nat /\ Len(events) \in Nat
      /\ DOMAIN in = 1..Len(in) /\ link.controller \in Bus
  BY LenProperties DEF StnTypes
<1>1. S \in SUBSET (1..g) /\ g \in Nat  BY <1>0
<1> HIDE DEF S
<1>2. PICK k \in Nat : /\ at \in [1..k -> S] /\ DOMAIN at = 1..k
                       /\ \A i, j \in 1..k : i < j => at[i] < at[j]
                       /\ \A s \in S : \E i \in 1..k : at[i] = s
  BY <1>1, InOrderIs DEF S
<1>3. \A p : p \in S <=> p \in 1..g /\ in[p].what = "frame"  BY DEF S
<1>4. \A i \in 1..k : at[i] \in 1..g /\ in[at[i]].what = "frame"  BY <1>2, <1>3
<1>5. at \in [1..k -> 1..g]  BY <1>2, <1>4
<1>6. \A p \in 1..g : in[p].what = "frame" => in[p].n \in Nat
  <2>1. \A p \in 1..g : p \in 1..Len(in) /\ in[p] \in Item  BY <1>0, ElementOfSeq
  <2>2. Prompt.what = "prompt"  BY DEF Prompt, Text
  <2>3. QED  BY <2>1, <2>2 DEF Item
<1> DEFINE e(i) == [what |-> "received", c |-> link.controller, n |-> in[at[i]].n]
           new == [i \in 1..k |-> e(i)]
           all == events \o new
<1>7. \A i \in 1..k : e(i) \in Event  BY <1>0, <1>4, <1>6 DEF Event
<1>8. new \in [1..k -> Event]  BY <1>7
<1>9. new \in Seq(Event) /\ Len(new) = k
  <2>1. new \in Seq(Event)  BY <1>8, SeqDef
  <2>2. DOMAIN new = 1..k  OBVIOUS
  <2> HIDE DEF new
  <2>3. QED  BY <2>1, <2>2, LenProperties
<1>10. \A i \in 1..k : new[i] = e(i)  OBVIOUS
<1> HIDE DEF new
<1>11. /\ all \in Seq(Event) /\ Len(all) = Len(events) + k
       /\ \A i \in 1..(Len(events) + k) :
            all[i] = IF i <= Len(events) THEN events[i] ELSE new[i - Len(events)]
  BY <1>0, <1>9, ConcatProperties
<1> HIDE DEF all
<1>12. \A i \in 1..Len(events) : all[i] = events[i]  BY <1>0, <1>11
<1>13. \A i \in 1..k : all[Len(events) + i] = e(i)
  <2> SUFFICES ASSUME NEW i \in 1..k  PROVE all[Len(events) + i] = e(i)
    OBVIOUS
  <2>1. /\ Len(events) + i \in 1..(Len(events) + k) /\ ~(Len(events) + i <= Len(events))
        /\ (Len(events) + i) - Len(events) = i
    BY <1>0
  <2>2. all[Len(events) + i] = new[i]  BY <1>11, <2>1
  <2>3. QED  BY <1>10, <2>2
<1>14. DOMAIN all = 1..(Len(events) + k)  BY <1>11, LenProperties
<1>b. \A i \in 1..k : /\ all[Len(events) + i].what = "received"
                      /\ all[Len(events) + i].c = link.controller
                      /\ all[Len(events) + i].n = in[at[i]].n
  <2>1. \A i \in 1..k : e(i).what = "received" /\ e(i).c = link.controller /\ e(i).n = in[at[i]].n
    OBVIOUS
  <2> HIDE DEF e
  <2>2. QED  BY ONLY <1>13, <2>1
<1>c. \A p \in 1..g : in[p].what = "frame" => \E i \in 1..k : at[i] = p  BY <1>2, <1>3
<1> HIDE DEF e
<1>15. TakesFrames(all, g, k, at)
  BY <1>2, <1>4, <1>5, <1>11, <1>12, <1>b, <1>c, <1>14 DEF TakesFrames
<1>16. QED  BY <1>2, <1>5, <1>15 DEF all, new, e

\* `receive` reads n items and turns frames of the first g into events, the first m of
\* which find room.
LEMMA ReceivesIs ==
  ASSUME StnTypes, NEW next, Receives(next)
  PROVE  \E n, g, k, all, at, m :
           /\ n \in 1..Len(in) /\ g \in 0..Len(in)
           /\ link.synchronized /\ Reads(n) /\ g <= n /\ TakesFrames(all, g, k, at)
           /\ link' = IF PromptIn(n) THEN [link EXCEPT !.receiving = FALSE, !.monitoring = FALSE] ELSE link
           /\ m \in 0..Len(all) /\ events' = SubSeq(all, 1, m)
           /\ \/ /\ g = n /\ m = Len(all) /\ \A i \in 1..n : Harmless(in[i])
                 /\ Goes(IF PromptIn(n) THEN next ELSE worker)
              \/ Fails
<1>0. in \in Seq(Item) /\ Len(in) \in Nat /\ EventLimit \in Nat  BY StnBridgeAssumption DEF StnTypes
<1>1. PICK items \in Packets :
        LET bad == {i \in DOMAIN items : ~Harmless(items[i])}
            good == 1 .. IF bad = {} THEN Len(items) ELSE Least(bad) - 1
        IN \E at \in InOrder({i \in good : items[i].what = "frame"}) :
             LET all == events \o [i \in DOMAIN at |-> [what |-> "received", c |-> link.controller, n |-> items[at[i]].n]]
             IN /\ Fetches(items)
                /\ events' = SubSeq(all, 1, IF Len(all) < EventLimit THEN Len(all) ELSE EventLimit)
                /\ IF bad = {} /\ Len(all) <= EventLimit
                     THEN Goes(IF Prompted(items) THEN next ELSE worker)
                     ELSE Fails
  BY DEF Receives
<1>2. PICK n \in 1..Len(in) :
        /\ link.synchronized /\ items \in Seq(Item) /\ Len(items) = n /\ DOMAIN items = 1..n
        /\ \A i \in 1..n : items[i] = in[i] /\ in[i] \in Item
  BY PacketIs
<1> DEFINE bad == {i \in DOMAIN items : ~Harmless(items[i])}
           g == IF bad = {} THEN Len(items) ELSE Least(bad) - 1
           T == {i \in 1..g : items[i].what = "frame"}
           S == {i \in 1..g : in[i].what = "frame"}
<1>3. PICK at \in InOrder(T) :
        LET all == events \o [i \in DOMAIN at |-> [what |-> "received", c |-> link.controller, n |-> items[at[i]].n]]
        IN /\ Fetches(items)
           /\ events' = SubSeq(all, 1, IF Len(all) < EventLimit THEN Len(all) ELSE EventLimit)
           /\ IF bad = {} /\ Len(all) <= EventLimit
                THEN Goes(IF Prompted(items) THEN next ELSE worker)
                ELSE Fails
  BY <1>1
<1>4. g \in 0..n /\ (bad = {} => g = n)
  <2>1. CASE bad = {}  BY <1>0, <1>2, <2>1
  <2>2. CASE bad # {}
    <3>1. bad \in SUBSET Nat /\ bad \subseteq 1..n  BY <1>0, <1>2
    <3> HIDE DEF bad
    <3>2. Least(bad) \in 1..n  BY <2>2, <3>1, LeastIs
    <3>3. QED  BY <1>0, <2>2, <3>2
  <2>3. QED  BY <2>1, <2>2
<1>5. bad = {} => \A i \in 1..n : Harmless(in[i])  BY <1>2
<1>6. Prompted(items) <=> PromptIn(n)  BY <1>2 DEF Prompted, PromptIn
<1>7. Reads(n) /\ link' = IF PromptIn(n) THEN [link EXCEPT !.receiving = FALSE, !.monitoring = FALSE] ELSE link
  BY <1>2, <1>3, <1>6 DEF Fetches, Idle, Reads
<1> HIDE DEF bad
<1>8. T = S
  <2>1. \A i \in 1..g : i \in 1..n  BY <1>0, <1>4
  <2>2. \A i \in 1..g : items[i] = in[i]  BY <1>2, <2>1
  <2> HIDE DEF g
  <2>3. QED  BY <2>2
<1>9. g \in 0..Len(in) /\ g <= n  BY <1>0, <1>4
<1> HIDE DEF g, T
<1>10. PICK k \in Nat :
         /\ at \in [1..k -> 1..g] /\ DOMAIN at = 1..k
         /\ TakesFrames(
              events \o [i \in 1..k |-> [what |-> "received", c |-> link.controller, n |-> in[at[i]].n]],
              g, k, at)
  BY <1>3, <1>8, <1>9, FramesTaken
<1> DEFINE new == [i \in 1..k |-> [what |-> "received", c |-> link.controller, n |-> in[at[i]].n]]
           all == events \o new
           m == IF Len(all) < EventLimit THEN Len(all) ELSE EventLimit
<1>11. [i \in DOMAIN at |-> [what |-> "received", c |-> link.controller, n |-> items[at[i]].n]] = new
  <2>1. \A i \in 1..k : at[i] \in 1..n  BY <1>0, <1>4, <1>10
  <2>2. \A i \in 1..k : items[at[i]] = in[at[i]]  BY <1>2, <2>1
  <2>3. QED  BY <1>10, <2>2
<1>12. /\ events' = SubSeq(all, 1, m)
       /\ IF bad = {} /\ Len(all) <= EventLimit
            THEN Goes(IF Prompted(items) THEN next ELSE worker)
            ELSE Fails
  BY <1>3, <1>11
<1>13. TakesFrames(all, g, k, at)  BY <1>10
<1> HIDE DEF all
<1>14. m \in 0..Len(all) /\ (Len(all) <= EventLimit => m = Len(all))
  <2>1. Len(all) \in Nat  BY <1>13, LenProperties DEF TakesFrames
  <2>2. QED  BY <1>0, <2>1
<1>15. \/ /\ g = n /\ m = Len(all) /\ \A i \in 1..n : Harmless(in[i])
          /\ Goes(IF PromptIn(n) THEN next ELSE worker)
       \/ Fails
  BY <1>4, <1>5, <1>6, <1>12, <1>14
<1> HIDE DEF m
<1>16. QED  BY <1>2, <1>7, <1>9, <1>12, <1>13, <1>14, <1>15

\* A part of the events is as they are.
LEMMA FirstEvents ==
  ASSUME NEW all \in Seq(Event), NEW m \in 0..Len(all)
  PROVE  /\ SubSeq(all, 1, m) \in Seq(Event) /\ DOMAIN SubSeq(all, 1, m) = 1..m
         /\ \A i \in 1..m : SubSeq(all, 1, m)[i] = all[i] /\ i \in DOMAIN all
         /\ m = Len(all) => SubSeq(all, 1, m) = all
<1>1. Len(all) \in Nat /\ DOMAIN all = 1..Len(all) /\ \A i \in 1..m : all[i] \in Event /\ i \in 1..Len(all)
  BY LenProperties, ElementOfSeq
<1>2. /\ SubSeq(all, 1, m) \in Seq(Event) /\ Len(SubSeq(all, 1, m)) = m
      /\ \A i \in 1..m : SubSeq(all, 1, m)[i] = all[i]
  BY <1>1, SubSeqProperties
<1>3. m = Len(all) => SubSeq(all, 1, m) = all  BY SubSeqFull
<1>4. QED  BY <1>1, <1>2, <1>3, LenProperties

\* The frames become events in the order in which they were heard, and none is left out.
LEMMA ReceivesStream ==
  ASSUME StnInv, worker \in {"loop", "drain", "finish"}, NEW n \in 1..Len(in), NEW g \in 0..Len(in),
         NEW k, NEW all, NEW at, NEW m, link.synchronized, Reads(n), g <= n, TakesFrames(all, g, k, at),
         m \in 0..Len(all), events' = SubSeq(all, 1, m), UNCHANGED <<got, heard, wire, server>>,
         \/ g = n /\ m = Len(all) /\ errors' = errors
         \/ /\ worker' \in {"cleanup", "release"} /\ (worker' = "cleanup" => errors' # <<>>)
            /\ (errors' = <<>> => errors = <<>>)
  PROVE  events' \in Seq(Event) /\ Stream' /\ Truth'
<1> USE DEF StnInv
<1>0. /\ in \in Seq(Item) /\ DOMAIN in = 1..Len(in) /\ Len(in) \in Nat /\ in # <<>>
      /\ DOMAIN events = 1..Len(events) /\ Len(events) \in Nat /\ got \in Nat /\ Len(heard) \in Nat
      /\ DOMAIN in' = 1..(Len(in) - n) /\ \A i \in DOMAIN in' : i + n \in DOMAIN in /\ in'[i] = in[i + n]
      /\ n \in Nat /\ n \in 0..Len(in)
  <2>1. n \in 0..Len(in) /\ Len(in) \in Nat /\ in # <<>>  BY DEF StnTypes
  <2>2. /\ in \in Seq(Item) /\ DOMAIN in = 1..Len(in)
        /\ DOMAIN in' = 1..(Len(in) - n) /\ \A i \in DOMAIN in' : i + n \in DOMAIN in /\ in'[i] = in[i + n]
    BY <2>1, ReadsSuffix
  <2>3. events \in Seq(Event) /\ heard \in Seq(Bus) /\ got \in Nat  BY DEF StnTypes
  <2>4. DOMAIN events = 1..Len(events) /\ Len(events) \in Nat /\ Len(heard) \in Nat
    BY ONLY <2>3, LenProperties
  <2>5. n \in Nat  BY ONLY <2>1
  <2>6. QED  BY ONLY <2>1, <2>2, <2>3, <2>4, <2>5
<1>1. Listening /\ server = "serves" /\ lines = <<>>
  BY <1>0 DEF Listening, Serving, Control, StnTypes
<1>2. /\ k \in Nat /\ DOMAIN all = 1..(Len(events) + k) /\ all \in Seq(Event)
      /\ Len(all) = Len(events) + k
      /\ \A i \in 1..Len(events) : all[i] = events[i]
      /\ \A i, j \in 1..k : i < j => at[i] < at[j]
      /\ \A p \in 1..g : in[p].what = "frame" => \E i \in 1..k : at[i] = p
  BY DEF TakesFrames
<1>3. \A l \in 1..k : /\ at[l] \in 1..g /\ at[l] \in DOMAIN in /\ at[l] \in Nat
                      /\ in[at[l]].what = "frame"
                      /\ all[Len(events) + l].what = "received"
                      /\ all[Len(events) + l].c = link.controller
                      /\ all[Len(events) + l].n = in[at[l]].n
  <2>1. \A l \in 1..k : at[l] \in 1..g  BY DEF TakesFrames
  <2>2. \A p \in 1..g : p \in DOMAIN in /\ p \in Nat  BY <1>0
  <2>3. QED  BY <2>1, <2>2 DEF TakesFrames
<1>4. /\ events' \in Seq(Event) /\ DOMAIN events' = 1..m
      /\ \A i \in 1..m : events'[i] = all[i] /\ i \in DOMAIN all
      /\ m = Len(all) => events' = all
  BY <1>2, FirstEvents
<1>5. ASSUME NEW i \in DOMAIN events'
      PROVE  \/ i \in DOMAIN events /\ events'[i] = events[i]
             \/ \E l \in 1..k : i = Len(events) + l /\ events'[i] = all[Len(events) + l]
  <2>1. i \in 1..(Len(events) + k) /\ events'[i] = all[i]  BY <1>2, <1>4
  <2>2. CASE i <= Len(events)
    <3>1. i \in 1..Len(events)  BY <1>0, <1>2, <2>1, <2>2
    <3>2. QED  BY <1>0, <1>2, <2>1, <3>1
  <2>3. CASE ~(i <= Len(events))
    <3>1. i - Len(events) \in 1..k /\ i = Len(events) + (i - Len(events))
      BY <1>0, <1>2, <2>1, <2>3
    <3>2. QED  BY <2>1, <3>1
  <2>4. QED  BY <2>2, <2>3
<1>6. \A p \in DOMAIN in : in[p].what = "frame" =>
        /\ in[p].n \in 1..Len(heard) /\ in[p].n > got /\ in[p].c = heard[in[p].n]
        /\ in[p].c = link.controller
        /\ \A j \in DOMAIN events : events[j].what = "received" => events[j].n < in[p].n
  BY <1>1 DEF Stream, Rising, Exchange
<1>7. \A p, q \in DOMAIN in : in[p].what = "frame" /\ in[q].what = "frame" =>
        (q < p <=> in[q].n < in[p].n)
  <2>1. \A p, q \in DOMAIN in : in[p].what = "frame" /\ in[q].what = "frame" /\ q < p => in[q].n < in[p].n
    <3> SUFFICES ASSUME NEW p \in DOMAIN in, NEW q \in DOMAIN in,
                        in[p].what = "frame", in[q].what = "frame", q < p
                 PROVE  in[q].n < in[p].n
      OBVIOUS
    <3>1. q \in 1..(p - 1)  BY <1>0
    <3>2. QED  BY <3>1 DEF Stream, Rising
  <2>2. \A p \in DOMAIN in : in[p].what = "frame" => in[p].n \in Nat  BY <1>0, <1>6
  <2>3. \A p, q \in DOMAIN in : q < p \/ p < q \/ p = q  BY <1>0
  <2>4. \A a, b \in Nat : ~(a < b /\ b < a) /\ ~(a < a)  OBVIOUS
  <2>5. QED  BY <2>1, <2>2, <2>3, <2>4
<1>8. Rising(in', "frame", got, heard)  BY <1>0, RisingSuffix DEF Stream
<1>9. Rising(events', "received", got, heard)
  <2> SUFFICES ASSUME NEW i \in DOMAIN events', events'[i].what = "received"
               PROVE  /\ events'[i].n \in 1..Len(heard) /\ events'[i].n > got
                      /\ events'[i].c = heard[events'[i].n]
                      /\ \A j \in 1..(i - 1) : events'[j].what = "received" => events'[j].n < events'[i].n
    BY DEF Rising
  <2>1. CASE i \in DOMAIN events /\ events'[i] = events[i]
    <3>1. \A j \in 1..(i - 1) : j \in DOMAIN events' /\ j \in 1..Len(events) /\ j <= Len(events)
      <4>1. i \in 1..m /\ i \in 1..Len(events)  BY <1>0, <1>4, <2>1
      <4>2. DOMAIN events' = 1..m /\ m \in Nat /\ Len(events) \in Nat  BY <1>0, <1>2, <1>4
      <4>3. \A j \in 1..(i - 1) : j \in 1..m /\ j \in 1..Len(events) /\ j <= Len(events)
        BY ONLY <4>1, <4>2
      <4>4. QED  BY ONLY <4>2, <4>3
    <3>2. \A j \in 1..(i - 1) : events'[j] = events[j]  BY <1>2, <1>4, <3>1
    <3>3. QED  BY <2>1, <3>2 DEF Stream, Rising
  <2>2. ASSUME NEW l \in 1..k, i = Len(events) + l, events'[i] = all[Len(events) + l]
        PROVE  /\ events'[i].n \in 1..Len(heard) /\ events'[i].n > got
               /\ events'[i].c = heard[events'[i].n]
               /\ \A j \in 1..(i - 1) : events'[j].what = "received" => events'[j].n < events'[i].n
    <3>1. events'[i].n = in[at[l]].n /\ events'[i].c = link.controller /\ at[l] \in DOMAIN in
          /\ in[at[l]].what = "frame"
      BY <1>3, <2>2
    <3>2. ASSUME NEW j \in 1..(i - 1), events'[j].what = "received"  PROVE events'[j].n < events'[i].n
      <4>1. j \in DOMAIN events' /\ j < i  BY <1>0, <1>4
      <4>2. CASE j \in DOMAIN events /\ events'[j] = events[j]
        BY <1>6, <3>1, <3>2, <4>2
      <4>3. ASSUME NEW h \in 1..k, j = Len(events) + h, events'[j] = all[Len(events) + h]
            PROVE  events'[j].n < events'[i].n
        <5>1. h < l  BY <1>0, <1>2, <2>2, <4>1, <4>3
        <5>2. at[h] < at[l]  BY <1>2, <5>1
        <5>3. at[h] \in DOMAIN in /\ in[at[h]].what = "frame" /\ events'[j].n = in[at[h]].n
          BY <1>3, <4>3
        <5>4. in[at[h]].n < in[at[l]].n  BY ONLY <1>7, <3>1, <5>2, <5>3
        <5>5. QED  BY ONLY <3>1, <5>3, <5>4
      <4>4. QED  BY <1>5, <4>1, <4>2, <4>3
    <3>3. QED  BY <1>6, <3>1, <3>2
  <2>3. QED  BY <1>5, <2>1, <2>2
<1>10. ASSUME NEW i \in DOMAIN in', in'[i].what = "frame",
              NEW j \in DOMAIN events', events'[j].what = "received"
       PROVE  events'[j].n < in'[i].n
  <2>1. i + n \in DOMAIN in /\ in'[i] = in[i + n] /\ i >= 1  BY <1>0
  <2>2. CASE j \in DOMAIN events /\ events'[j] = events[j]  BY <1>6, <1>10, <2>1, <2>2
  <2>3. ASSUME NEW h \in 1..k, events'[j] = all[Len(events) + h]  PROVE events'[j].n < in'[i].n
    <3>1. at[h] \in DOMAIN in /\ in[at[h]].what = "frame" /\ events'[j].n = in[at[h]].n /\ at[h] \in 1..g
      BY <1>3, <2>3
    <3>2. at[h] < i + n  BY <1>0, <2>1, <3>1
    <3>3. QED  BY <1>7, <1>10, <2>1, <3>1, <3>2
  <2>4. QED  BY <1>5, <2>2, <2>3
\* An item that was looked at has become an event before those of later items.
<1>11. ASSUME NEW q \in 1..g, in[q].what = "frame"
       PROVE  \E l \in 1..k : at[l] = q /\ all[Len(events) + l].what = "received"
                              /\ all[Len(events) + l].n = in[q].n
  <2>1. PICK l \in 1..k : at[l] = q  BY <1>2, <1>11
  <2>2. QED  BY <1>3, <2>1
<1>12. ASSUME errors' = <<>>  PROVE Whole(events', got)
  <2>1. errors = <<>>  BY <1>12
  <2> SUFFICES ASSUME NEW i \in DOMAIN events', events'[i].what = "received",
                      NEW x \in (got + 1)..(events'[i].n - 1)
               PROVE  Reported(events', x)
    BY DEF Whole
  <2>2. events'[i].n \in 1..Len(heard) /\ x \in Nat /\ x < events'[i].n /\ x \in (got + 1)..Len(heard)
    <3>1. events'[i].n \in 1..Len(heard)  BY <1>9 DEF Rising
    <3>2. x \in (got + 1)..(events'[i].n - 1) /\ got \in Nat /\ Len(heard) \in Nat  BY <1>0
    <3>3. QED  BY ONLY <3>1, <3>2
  <2>3. ASSUME NEW j \in DOMAIN events, events[j].what = "received", events[j].n = x, j < i
        PROVE  Reported(events', x)
    <3>1. j \in DOMAIN events' /\ events'[j] = events[j]  BY <1>0, <1>2, <1>4, <2>3
    <3>2. QED  BY <2>3, <3>1 DEF Reported
  <2>4. CASE i \in DOMAIN events /\ events'[i] = events[i]
    <3>1. PICK j \in DOMAIN events : events[j].what = "received" /\ events[j].n = x
      BY <2>1, <2>2, <2>4 DEF Stream, Whole, Reported
    <3>2. ~(i < j) /\ i # j
      <4>1. i # j  BY <2>2, <2>4, <3>1
      <4>2. i < j => i \in 1..(j - 1)  BY <1>0, <2>4, <3>1
      <4>3. i < j => events[i].n < events[j].n  BY <2>4, <3>1, <4>2 DEF Stream, Rising
      <4>4. QED  BY <2>2, <2>4, <3>1, <4>1, <4>3
    <3>3. j < i  BY <1>0, <2>4, <3>1, <3>2
    <3>4. QED  BY <2>3, <3>1, <3>3
  <2>5. ASSUME NEW l \in 1..k, i = Len(events) + l, events'[i] = all[Len(events) + l]
        PROVE  Reported(events', x)
    <3>1. at[l] \in DOMAIN in /\ in[at[l]].what = "frame" /\ events'[i].n = in[at[l]].n /\ at[l] \in 1..g
      BY <1>3, <2>5
    <3>2. Reported(events, x) \/ Underway(in, x)  BY <1>1, <2>1, <2>2 DEF Stream
    <3>3. CASE Reported(events, x)
      <4>1. PICK j \in DOMAIN events : events[j].what = "received" /\ events[j].n = x
        BY <3>3 DEF Reported
      <4>2. j < i  BY <1>0, <1>2, <2>5
      <4>3. QED  BY <2>3, <4>1, <4>2
    <3>4. CASE Underway(in, x)
      <4>1. PICK q \in DOMAIN in : in[q].what = "frame" /\ in[q].n = x  BY <3>4 DEF Underway
      <4>2. q < at[l]  BY <1>7, <2>2, <3>1, <4>1
      <4>3. q \in 1..g  BY <1>0, <3>1, <4>1, <4>2
      <4>4. PICK h \in 1..k : at[h] = q /\ all[Len(events) + h].what = "received"
                              /\ all[Len(events) + h].n = x
        BY <1>11, <4>1, <4>3
      <4>5. h < l
        <5>1. l < h => at[l] < at[h]  BY <1>2
        <5>2. l # h  BY <1>0, <4>2, <4>4, <3>1
        <5>3. ~(at[l] < q)  BY <1>0, <3>1, <4>1, <4>2
        <5>4. QED  BY <1>2, <4>4, <5>1, <5>2, <5>3
      <4>6. Len(events) + h \in 1..m  BY <1>0, <1>2, <1>4, <2>5, <4>5
      <4>7. QED  BY <1>4, <4>4, <4>6 DEF Reported
    <3>5. QED  BY <3>2, <3>3, <3>4
  <2>6. QED  BY <1>5, <2>4, <2>5
<1>13. ASSUME Listening', errors' = <<>>, NEW x \in (got + 1)..Len(heard)
       PROVE  Reported(events', x) \/ Underway(in', x)
  <2>1. ~(worker' \in {"cleanup", "release"} /\ (worker' = "cleanup" => errors' # <<>>))
    BY <1>13 DEF Listening, Serving
  <2>2. g = n /\ m = Len(all) /\ errors = <<>> /\ events' = all  BY <1>4, <1>13, <2>1
  <2>3. Reported(events, x) \/ Underway(in, x)  BY <1>1, <2>2 DEF Stream
  <2>4. CASE Reported(events, x)
    <3>1. PICK j \in DOMAIN events : events[j].what = "received" /\ events[j].n = x
      BY <2>4 DEF Reported
    <3>2. j \in DOMAIN all /\ all[j] = events[j]  BY <1>0, <1>2
    <3>3. QED  BY <2>2, <3>1, <3>2 DEF Reported
  <2>5. CASE Underway(in, x)
    <3>1. PICK q \in DOMAIN in : in[q].what = "frame" /\ in[q].n = x  BY <2>5 DEF Underway
    <3>2. CASE q <= n
      <4>1. q \in 1..g  BY <1>0, <2>2, <3>2
      <4>2. PICK h \in 1..k : all[Len(events) + h].what = "received" /\ all[Len(events) + h].n = x
        BY <1>11, <3>1, <4>1
      <4>3. Len(events) + h \in DOMAIN all  BY <1>0, <1>2
      <4>4. QED  BY <2>2, <4>2, <4>3 DEF Reported
    <3>3. CASE ~(q <= n)
      <4>1. q - n \in DOMAIN in' /\ (q - n) + n = q  BY <1>0, <3>3
      <4>2. in'[q - n] = in[q]  BY <1>0, <4>1
      <4>3. QED  BY <3>1, <4>1, <4>2 DEF Underway
    <3>4. QED  BY <3>2, <3>3
  <2>6. QED  BY <2>3, <2>4, <2>5
<1>14. Stream'  BY <1>8, <1>9, <1>10, <1>12, <1>13 DEF Stream
<1>15. Truth'
  <2> SUFFICES ASSUME NEW i \in DOMAIN events', events'[i].what = "completed"
               PROVE  events'[i].c \in Buses /\ Carried(wire[events'[i].c], events'[i].n)
    BY DEF Truth
  <2>1. i \in DOMAIN events /\ events'[i] = events[i]  BY <1>3, <1>5
  <2>2. QED  BY <2>1 DEF Truth
<1>16. QED  BY <1>4, <1>14, <1>15

\* There is no request on its way to the adapter when something is read.
LEMMA ReadsNoRequest ==
  ASSUME StnInv, in # <<>>
  PROVE  ~Holds(out, "request")
BY DEF StnInv, Loaded, Holds

\* A failure when something is received.
LEMMA ReceiveFails ==
  ASSUME StnInv, AtWork, Fails, link.synchronized, NEW n \in 1..Len(in), Reads(n),
         link' = IF PromptIn(n) THEN [link EXCEPT !.receiving = FALSE, !.monitoring = FALSE] ELSE link,
         UNCHANGED <<others, job, active, todo, out>>, lines' \in Seq(Words),
         events' \in Seq(Event), Stream', Truth'
  PROVE  StnInv'
<1> USE DEF StnInv, others, device, firmware, bridge
<1>0. in # <<>> /\ n \in 0..Len(in) /\ Len(in) \in Nat  BY DEF StnTypes
<1>1. in = <<>> => in' = <<>>  BY <1>0
<1>2. /\ link' \in [receiving: BOOLEAN, monitoring: BOOLEAN, synchronized: BOOLEAN, controller: Bus]
      /\ (link'.monitoring => link'.receiving) /\ link'.synchronized = link.synchronized
  BY DEF StnTypes, Control
<1>3. /\ Control' /\ Tickets' /\ Phase' /\ Naming' /\ Closing'
      /\ worker' \in {"cleanup", "release"} /\ release' \in {"none", "unconfirmed"}
      /\ errors' \in Seq(Request \cup {None})
      /\ worker' = "cleanup" => AtWork /\ Serving /\ errors' # <<>>
  BY <1>1, <1>2, FailureLeaves
<1>4. StnTypes'
  <2>1. in' \in Seq(Item)  BY <1>0, ReadsSuffix
  <2>2. UNCHANGED <<job, active, todo, out>>  OBVIOUS
  <2>3. QED  BY <1>2, <1>3, <2>1, <2>2 DEF StnTypes
<1>5. Loaded'  BY <1>0, ReadsNoRequest DEF Loaded, Holds
<1>6. Exchange'
  <2>1. SUFFICES ASSUME Listening'  PROVE Exchange'  BY DEF Exchange
  <2>2. Serving /\ Listening  BY <1>2, <1>3, <2>1 DEF Listening, Serving
  <2>3. QED  BY <1>0, <2>2, ExchangeReads
<1>7. QED  BY <1>3, <1>4, <1>5, <1>6

\* The worker reads what it was not asked for.
LEMMA ListenStep ==
  ASSUME StnInv, Listen
  PROVE  StnInv'
<1> USE DEF StnInv, others, work, device, firmware, bridge
<1>1. worker = "loop" /\ Serving /\ Listening /\ release = "none" /\ link.receiving /\ AtWork
  BY DEF Listen, Serving, Listening, Control, AtWork
<1>2. UNCHANGED <<others, work, out>> /\ Receives("loop")  BY DEF Listen
<1>3. PICK n, g, k, all, at, m :
           /\ n \in 1..Len(in) /\ g \in 0..Len(in)
           /\ link.synchronized /\ Reads(n) /\ g <= n /\ TakesFrames(all, g, k, at)
           /\ link' = IF PromptIn(n) THEN [link EXCEPT !.receiving = FALSE, !.monitoring = FALSE] ELSE link
           /\ m \in 0..Len(all) /\ events' = SubSeq(all, 1, m)
           /\ \/ /\ g = n /\ m = Len(all) /\ \A i \in 1..n : Harmless(in[i])
                 /\ Goes(IF PromptIn(n) THEN "loop" ELSE worker)
              \/ Fails
  BY <1>2, ReceivesIs
<1>4. n \in 0..Len(in) /\ in # <<>> /\ Len(in) \in Nat  BY <1>3 DEF StnTypes
<1>5. CASE Fails
  <2>1. /\ worker' \in {"cleanup", "release"} /\ (worker' = "cleanup" => errors' # <<>>)
        /\ (errors' = <<>> => errors = <<>>)
    <3>1. worker' = "cleanup" /\ errors' = <<active>>  BY <1>1, <1>5 DEF Fails, ending
    <3>2. errors' # <<>>  BY <3>1
    <3>3. QED  BY <3>1, <3>2
  <2>2. events' \in Seq(Event) /\ Stream' /\ Truth'  BY <1>1, <1>2, <1>3, <2>1, ReceivesStream
  <2>3. lines' \in Seq(Words)  BY <1>2 DEF StnTypes
  <2>4. UNCHANGED <<others, job, active, todo, out>>  BY <1>2
  <2>5. QED  BY <1>1, <1>3, <1>5, <2>2, <2>3, <2>4, ReceiveFails
<1>6. CASE g = n /\ m = Len(all) /\ Goes(IF PromptIn(n) THEN "loop" ELSE worker)
  <2>1. worker' = "loop" /\ UNCHANGED <<errors, release>>  BY <1>1, <1>6 DEF Goes
  <2>2. events' \in Seq(Event) /\ Stream' /\ Truth'  BY <1>1, <1>2, <1>3, <1>6, <2>1, ReceivesStream
  <2>3. Watching /\ server = "serves"
    BY <1>1, <1>4 DEF Phase, Control, StnTypes
  <2>4. adapter.mode = "monitor" /\ out = asks /\ Only(in, {"frame"})
    BY <1>1, <1>4, <2>3 DEF Watching
  <2>5. ~PromptIn(n) /\ link' = link
    <3>1. Prompt.what = "prompt"  BY DEF Prompt, Text
    <3>2. DOMAIN in = 1..Len(in)  BY <1>4, ReadsSuffix, <1>3
    <3>3. \A i \in 1..n : i \in DOMAIN in  BY <1>4, <3>2
    <3>4. ~PromptIn(n)  BY <2>4, <3>1, <3>3 DEF Only, PromptIn
    <3>5. QED  BY <1>3, <3>4
  <2>6. in' \in Seq(Item) /\ \A i \in DOMAIN in' : i + n \in DOMAIN in /\ in'[i] = in[i + n]
    BY <1>3, <1>4, ReadsSuffix
  <2>7. StnTypes'  BY <1>2, <2>1, <2>2, <2>5, <2>6 DEF StnTypes
  <2>8. Control'
    <3>1. server' = "serves" /\ worker' = "loop"  BY <1>2, <2>1, <2>3
    <3>2. QED  BY <1>1, <1>2, <2>1, <2>5, <3>1 DEF Control, Serving
  <2>9. Tickets'  BY <1>1, <1>2, <2>1 DEF Tickets, Serving
  <2>10. Phase'
    <3>1. asks' = asks  BY <1>1, <2>1 DEF asks
    <3>2. Watching'  BY <1>2, <2>4, <2>6, <3>1 DEF Watching, Only
    <3>3. QED  BY <1>1, <1>2, <2>1, <2>5, <3>2 DEF Phase
  <2>11. Exchange'
    <3>1. Listening' => Listening  BY <1>1
    <3>2. QED  BY <1>2, <1>3, <1>4, <2>5, <3>1, ExchangeReads
  <2>12. Loaded'  BY <1>2, <1>4, ReadsNoRequest DEF Loaded, Holds
  <2>13. Naming'  BY <1>1, <1>2, <2>1 DEF Naming, FailureNamed, Serving
  <2>14. Closing'  BY <1>1, <2>1 DEF Closing
  <2>15. QED  BY <2>2, <2>7, <2>8, <2>9, <2>10, <2>11, <2>12, <2>13, <2>14
<1>7. QED  BY <1>3, <1>5, <1>6

\* The adapter has been interrupted: what it says ends with a prompt.
LEMMA DrainStep ==
  ASSUME StnInv, Drain
  PROVE  StnInv'
<1> USE DEF StnInv, others, device, firmware, bridge
<1>1. /\ worker = "drain" /\ Listening /\ link.receiving /\ link.monitoring /\ AtWork /\ lines = <<>>
      /\ release \in {"none", "running"} /\ (release = "none" <=> Serving)
  BY DEF Drain, Serving, Listening, Control, AtWork
<1>2. /\ UNCHANGED <<others, job, lines, out>> /\ Receives("next")
      /\ IF worker' = "next" /\ ~ending THEN Begins(job) ELSE UNCHANGED <<active, todo>>
  BY DEF Drain
<1>3. PICK n, g, k, all, at, m :
           /\ n \in 1..Len(in) /\ g \in 0..Len(in)
           /\ link.synchronized /\ Reads(n) /\ g <= n /\ TakesFrames(all, g, k, at)
           /\ link' = IF PromptIn(n) THEN [link EXCEPT !.receiving = FALSE, !.monitoring = FALSE] ELSE link
           /\ m \in 0..Len(all) /\ events' = SubSeq(all, 1, m)
           /\ \/ /\ g = n /\ m = Len(all) /\ \A i \in 1..n : Harmless(in[i])
                 /\ Goes(IF PromptIn(n) THEN "next" ELSE worker)
              \/ Fails
  BY <1>2, ReceivesIs
<1>4. n \in 0..Len(in) /\ in # <<>> /\ Len(in) \in Nat  BY <1>3 DEF StnTypes
<1>5. CASE Fails
  <2>1. /\ worker' \in {"cleanup", "release"} /\ (worker' = "cleanup" => errors' # <<>>)
        /\ (errors' = <<>> => errors = <<>>)
    <3>1. CASE release = "none"
      <4>1. worker' = "cleanup" /\ errors' = <<active>>  BY <1>5, <3>1 DEF Fails, ending
      <4>2. errors' # <<>>  BY <4>1
      <4>3. QED  BY <4>1, <4>2
    <3>2. CASE release # "none"  BY <1>5, <3>2 DEF Fails, ending
    <3>3. QED  BY <3>1, <3>2
  <2>2. events' \in Seq(Event) /\ Stream' /\ Truth'  BY <1>1, <1>2, <1>3, <2>1, ReceivesStream
  <2>3. lines' \in Seq(Words)  BY <1>2 DEF StnTypes
  <2>4. UNCHANGED <<others, job, active, todo, out>>  BY <1>2, <2>1
  <2>5. QED  BY <1>1, <1>3, <1>5, <2>2, <2>3, <2>4, ReceiveFails
<1>6. CASE /\ g = n /\ m = Len(all) /\ \A i \in 1..n : Harmless(in[i])
           /\ Goes(IF PromptIn(n) THEN "next" ELSE worker)
  <2>1. worker' = (IF PromptIn(n) THEN "next" ELSE "drain") /\ UNCHANGED <<errors, release>>
    BY <1>1, <1>6 DEF Goes
  <2>2. events' \in Seq(Event) /\ Stream' /\ Truth'  BY <1>1, <1>2, <1>3, <1>6, <2>1, ReceivesStream
  <2>3. /\ DOMAIN in = 1..Len(in) /\ DOMAIN in' = 1..(Len(in) - n) /\ Len(in') = Len(in) - n
        /\ in' \in Seq(Item) /\ \A i \in DOMAIN in' : i + n \in DOMAIN in /\ in'[i] = in[i + n]
    BY <1>3, <1>4, ReadsSuffix
  <2>4. /\ link' \in [receiving: BOOLEAN, monitoring: BOOLEAN, synchronized: BOOLEAN, controller: Bus]
        /\ link'.controller = link.controller /\ link'.synchronized = link.synchronized
        /\ (PromptIn(n) => ~link'.receiving /\ ~link'.monitoring)
        /\ (~PromptIn(n) => link' = link)
    BY <1>3 DEF StnTypes
  <2>5. server = "serves"  BY <1>1, <1>4 DEF Control, StnTypes
  <2>6. Serving' = Serving  BY <1>1, <2>1 DEF Serving
  <2>7. Loaded'  BY <1>2, <1>4, ReadsNoRequest DEF Loaded, Holds
  <2>8. Exchange'
    <3>1. Listening' => Listening  BY <1>1
    <3>2. Listening' /\ PromptIn(n) => Serving  BY <2>1, <2>6 DEF Listening
    <3>3. QED  BY <1>2, <1>3, <1>4, <3>1, <3>2, ExchangeReads
  <2>9. Control'  BY <1>1, <1>2, <2>1, <2>4, <2>5, <2>6 DEF Control
  <2>10. Tickets'  BY <1>1, <1>2, <2>1, <2>6 DEF Tickets
  <2>11. CASE Serving /\ PromptIn(n)
    <3>1. worker' = "next" /\ active' = job /\ todo' = Program(job) /\ release = "none"
      BY <1>1, <1>2, <2>1, <2>11 DEF Begins, ending
    <3>2. /\ job \in Request /\ (job.wake => job.c = 2) /\ Beyond(wire[job.c], job.ticket)
          /\ adapter.bus = link.controller /\ ~adapter.wake
      BY <1>1, <2>11 DEF Tickets, Phase
    <3>3. todo' \in Seq(Cmd) /\ Fits(todo', job, link.controller, adapter, wire[job.c])
      BY <3>1, <3>2, ProgramFits
    <3>4. StnTypes'  BY <1>2, <2>1, <2>2, <2>3, <2>4, <3>1, <3>2, <3>3 DEF StnTypes
    <3>5. Phase'  BY <1>2, <2>4, <3>1, <3>3 DEF Phase, FitsNow
    <3>6. Naming'
      <4>1. Named = None  BY <1>1, <2>11 DEF Naming, Named, Control
      <4>2. FailureNamed'  BY <1>2, <4>1, AllPosted DEF FailureNamed
      <4>3. QED  BY <1>2, <2>1, <2>6, <2>11, <3>1, <4>2 DEF Naming
    <3>7. Closing'  BY <2>1, <3>1 DEF Closing
    <3>8. QED  BY <2>2, <2>7, <2>8, <2>9, <2>10, <3>4, <3>5, <3>6, <3>7
  <2>12. CASE ~(Serving /\ PromptIn(n))
    <3>1. UNCHANGED <<active, todo>>  BY <1>1, <1>2, <2>1, <2>12 DEF ending
    <3>2. StnTypes'  BY <1>2, <2>1, <2>2, <2>3, <2>4, <3>1 DEF StnTypes
    <3>3. Phase'
      <4>1. SUFFICES ASSUME Serving  PROVE Phase'  BY <2>6 DEF Phase
      <4>2. ~PromptIn(n) /\ worker' = "drain" /\ link' = link  BY <2>1, <2>4, <2>12, <4>1
      <4>3. Watching  BY <1>1, <4>1 DEF Phase
      <4>4. asks' = asks  BY <1>1, <4>2 DEF asks
      <4>5. Watching'
        <5>1. CASE adapter.mode = "monitor" /\ out = asks /\ Only(in, {"frame"})
          BY <1>2, <2>3, <4>4, <5>1 DEF Watching, Only
        <5>2. CASE /\ adapter.mode = "idle" /\ out = <<>>
                   /\ \A i \in DOMAIN in : in[i] = Prompt => i = Len(in)
          <6>1. \A i \in DOMAIN in' : in'[i] = Prompt => i = Len(in')  BY <1>4, <2>3, <5>2
          <6>2. QED  BY <1>2, <4>2, <5>2, <6>1 DEF Watching
        <5>3. QED  BY <1>4, <2>5, <4>3, <5>1, <5>2 DEF Watching
      <4>6. QED  BY <1>1, <1>2, <4>1, <4>2, <4>5 DEF Phase
    <3>4. Naming'
      <4>1. FailureNamed'  BY <1>2, <2>1, <3>1 DEF Naming, FailureNamed
      <4>2. Serving => worker' = "drain"  BY <2>1, <2>12
      <4>3. QED  BY <1>1, <2>1, <2>6, <3>1, <4>1, <4>2 DEF Naming
    <3>5. Closing'
      <4>1. CASE Serving  BY <1>1, <2>1, <4>1 DEF Closing
      <4>2. CASE ~Serving
        <5>1. release = "running" /\ todo = Farewell  BY <1>1, <4>2 DEF Closing, Farewell
        <5>2. Only(out, {"monitor", "interrupt"}) /\ Only(in, {"frame", "stopped", "prompt"})
          BY <1>1 DEF Exchange
        <5>3. Only(out, {"monitor", "interrupt", "counters", "close"})
              /\ \A i \in DOMAIN out : out[i].what # "close"
          BY <5>2 DEF Only
        <5>4. ~Holds(in', "ok")  BY <2>3, <5>2 DEF Only, Holds
        <5>5. worker' \in {"drain", "next"} /\ todo' = Farewell /\ out' = out /\ release' = "running"
          BY <1>2, <2>1, <3>1, <5>1
        <5>6. QED  BY <5>3, <5>4, <5>5, FarewellIs DEF Closing, Farewell
      <4>3. QED  BY <4>1, <4>2
    <3>6. QED  BY <2>2, <2>7, <2>8, <2>9, <2>10, <3>2, <3>3, <3>4, <3>5
  <2>13. QED  BY <2>11, <2>12
<1>7. QED  BY <1>3, <1>5, <1>6

\* While the worker serves, what it reads is a part of the whole answer.
LEMMA AnswerUnderway ==
  ASSUME StnInv, Serving, worker \in {"answer", "finish"}, in # <<>>
  PROVE  /\ todo # <<>> /\ (worker = "finish" => ~Head(todo).last)
         /\ out = <<>> /\ in[Len(in)] = Prompt /\ \A i \in DOMAIN in : in[i] = Prompt => i = Len(in)
         /\ ~Said("other") \/ Head(todo).what = "counters" => FitsThen
         /\ Said("frame") => Head(todo).what = "request"
<1>1. Answering /\ server = "serves"  BY DEF StnInv, Phase, Control, StnTypes
<1>2. Listening /\ ~link.monitoring  BY DEF StnInv, Control, Listening
<1>3. out = <<>> /\ \A i \in DOMAIN in : in[i] = Prompt => i = Len(in)
  BY <1>2 DEF StnInv, Exchange
<1>4. <<Head(todo)>> # <<>>  OBVIOUS
<1>5. QED  BY <1>1, <1>3, <1>4 DEF Answering

\* The answer to a request that is waited for.
LEMMA FinishStep ==
  ASSUME StnInv, Finish
  PROVE  StnInv'
<1> USE DEF StnInv, others, device, firmware, bridge
<1>1. /\ worker = "finish" /\ link.receiving /\ ~link.monitoring /\ AtWork /\ lines = <<>>
      /\ release \in {"none", "running"} /\ (release = "none" <=> Serving)
  BY DEF Finish, Serving, Control, AtWork
<1>2. /\ UNCHANGED <<others, job, active, lines, out>> /\ Receives("next")
      /\ todo' = IF worker' = "next" /\ ~ending THEN Tail(todo) ELSE todo
  BY DEF Finish
<1>3. PICK n, g, k, all, at, m :
           /\ n \in 1..Len(in) /\ g \in 0..Len(in)
           /\ link.synchronized /\ Reads(n) /\ g <= n /\ TakesFrames(all, g, k, at)
           /\ link' = IF PromptIn(n) THEN [link EXCEPT !.receiving = FALSE, !.monitoring = FALSE] ELSE link
           /\ m \in 0..Len(all) /\ events' = SubSeq(all, 1, m)
           /\ \/ /\ g = n /\ m = Len(all) /\ \A i \in 1..n : Harmless(in[i])
                 /\ Goes(IF PromptIn(n) THEN "next" ELSE worker)
              \/ Fails
  BY <1>2, ReceivesIs
<1>4. n \in 0..Len(in) /\ in # <<>> /\ Len(in) \in Nat /\ Listening
  BY <1>1, <1>3 DEF StnTypes, Listening
<1>5. CASE Fails
  <2>1. /\ worker' \in {"cleanup", "release"} /\ (worker' = "cleanup" => errors' # <<>>)
        /\ (errors' = <<>> => errors = <<>>)
    <3>1. CASE release = "none"
      <4>1. worker' = "cleanup" /\ errors' = <<active>>  BY <1>5, <3>1 DEF Fails, ending
      <4>2. errors' # <<>>  BY <4>1
      <4>3. QED  BY <4>1, <4>2
    <3>2. CASE release # "none"  BY <1>5, <3>2 DEF Fails, ending
    <3>3. QED  BY <3>1, <3>2
  <2>2. events' \in Seq(Event) /\ Stream' /\ Truth'  BY <1>1, <1>2, <1>3, <2>1, ReceivesStream
  <2>3. lines' \in Seq(Words)  BY <1>2 DEF StnTypes
  <2>4. UNCHANGED <<others, job, active, todo, out>>  BY <1>2, <2>1
  <2>5. QED  BY <1>1, <1>3, <1>5, <2>2, <2>3, <2>4, ReceiveFails
<1>6. CASE /\ g = n /\ m = Len(all) /\ \A i \in 1..n : Harmless(in[i])
           /\ Goes(IF PromptIn(n) THEN "next" ELSE worker)
  <2>1. worker' = (IF PromptIn(n) THEN "next" ELSE "finish") /\ UNCHANGED <<errors, release>>
    BY <1>1, <1>6 DEF Goes
  <2>2. events' \in Seq(Event) /\ Stream' /\ Truth'  BY <1>1, <1>2, <1>3, <1>6, <2>1, ReceivesStream
  <2>3. /\ DOMAIN in = 1..Len(in) /\ DOMAIN in' = 1..(Len(in) - n) /\ Len(in') = Len(in) - n
        /\ in' \in Seq(Item) /\ \A i \in DOMAIN in' : i + n \in DOMAIN in /\ in'[i] = in[i + n]
        /\ n = Len(in) => in' = <<>>
    BY <1>3, <1>4, ReadsSuffix
  <2>4. /\ link' \in [receiving: BOOLEAN, monitoring: BOOLEAN, synchronized: BOOLEAN, controller: Bus]
        /\ link'.controller = link.controller /\ link'.synchronized = link.synchronized
        /\ (PromptIn(n) => ~link'.receiving /\ ~link'.monitoring)
        /\ (~PromptIn(n) => link' = link)
    BY <1>3 DEF StnTypes
  <2>5. Serving' = Serving /\ server = "serves"  BY <1>1, <1>4, <2>1 DEF Serving, Control, StnTypes
  <2>6. Loaded'  BY <1>2, <1>4, ReadsNoRequest DEF Loaded, Holds
  <2>7. Exchange'
    <3>1. Listening' => Listening  BY <1>4
    <3>2. QED  BY <1>1, <1>2, <1>3, <1>4, <3>1, ExchangeReads
  <2>8. Control'  BY <1>1, <1>2, <2>1, <2>4, <2>5 DEF Control
  <2>9. Tickets'  BY <1>1, <1>2, <2>1, <2>5 DEF Tickets
  <2>10. Naming'
    <3>1. FailureNamed'  BY <1>2, <2>1 DEF Naming, FailureNamed
    <3>2. QED  BY <1>1, <1>2, <2>1, <2>5, <3>1 DEF Naming
  <2>11. out = <<>> /\ \A i \in DOMAIN in : in[i] = Prompt => i = Len(in)
    BY <1>1, <1>4 DEF Exchange
  <2>a. n \in Nat /\ n >= 1 /\ n <= Len(in) /\ Len(in) \in Nat  BY <1>3, <1>4
  <2>b. \A i \in 1..n : i \in DOMAIN in /\ i <= n
    <3>1. \A i \in 1..n : i \in 1..Len(in) /\ i <= n  BY ONLY <2>a
    <3>2. DOMAIN in = 1..Len(in)  BY <2>3
    <3>3. QED  BY ONLY <3>1, <3>2
  <2>12. PromptIn(n) => n = Len(in)
    <3>1. \A i \in 1..n : in[i] = Prompt => i = Len(in) /\ i <= n  BY <2>b, <2>11
    <3>2. PromptIn(n) => Len(in) <= n  BY <3>1 DEF PromptIn
    <3>3. QED  BY <2>a, <3>2
  <2>13. \A i \in 1..n : in[i].what # "other"  BY <1>1, <1>6 DEF Harmless
  <2>14. CASE Serving
    <3>1. /\ todo # <<>> /\ ~Head(todo).last /\ in[Len(in)] = Prompt
          /\ ~Said("other") \/ Head(todo).what = "counters" => FitsThen
          /\ Said("frame") => Head(todo).what = "request"
      BY <1>1, <1>4, <2>14, AnswerUnderway
    <3>2. todo \in Seq(Cmd) /\ Tail(todo) \in Seq(Cmd) /\ job \in Request
      <4>1. job \in Request  BY <1>1, <2>14 DEF Tickets
      <4>2. QED  BY <3>1, <4>1, HeadTailProperties DEF StnTypes
    <3>3. todo' \in Seq(Cmd)  BY <1>2, <3>2
    <3>4. StnTypes'  BY <1>2, <2>1, <2>2, <2>3, <2>4, <3>2, <3>3 DEF StnTypes
    <3>5. Closing'  BY <2>1, <2>14 DEF Closing, Serving
    <3>6. Phase'
      <4>1. CASE PromptIn(n)
        <5>1. worker' = "next" /\ todo' = Tail(todo)  BY <1>1, <1>2, <2>1, <2>14, <4>1 DEF ending
        <5>2. \A i \in DOMAIN in : in[i].what # "other"  BY <2>3, <2>12, <2>13, <4>1
        <5>3. FitsThen  BY <1>1, <3>1, <5>2 DEF Said, Holds
        <5>4. FitsNow'  BY <1>2, <2>4, <3>1, <5>1, <5>3 DEF FitsNow, FitsThen
        <5>5. QED  BY <5>1, <5>4 DEF Phase
      <4>2. CASE ~PromptIn(n)
        <5>1. worker' = "finish" /\ todo' = todo /\ link' = link  BY <1>2, <2>1, <2>4, <4>2
        <5>2. n # Len(in)
          <6>1. n = Len(in) => Len(in) \in 1..n  BY <1>4
          <6>2. QED  BY <3>1, <4>2, <6>1 DEF PromptIn
        <5>3. Len(in') \in DOMAIN in' /\ in'[Len(in')] = Prompt /\ in' # <<>>
          <6>1. Len(in) - n \in 1..(Len(in) - n) /\ (Len(in) - n) + n = Len(in)
            BY ONLY <2>a, <5>2
          <6>2. Len(in') \in DOMAIN in' /\ Len(in') + n = Len(in)  BY <2>3, <6>1
          <6>3. in'[Len(in')] = in[Len(in)]  BY <2>3, <6>2
          <6>4. in' # <<>>
            <7>1. DOMAIN <<>> = {}  OBVIOUS
            <7>2. QED  BY ONLY <6>2, <7>1
          <6>5. in'[Len(in')] = Prompt  BY <3>1, <6>3
          <6>6. QED  BY <6>2, <6>4, <6>5
        <5>4. Said("other") => Said("other")'
          <6>1. SUFFICES ASSUME NEW i \in DOMAIN in, in[i].what = "other"  PROVE Holds(in', "other")
            BY <1>1 DEF Said, Holds
          <6>2. i \notin 1..n  BY <2>13, <6>1
          <6>3. i - n \in DOMAIN in' /\ (i - n) + n = i
            <7>1. i \in 1..Len(in)  BY <2>3, <6>1
            <7>2. i - n \in 1..(Len(in) - n) /\ (i - n) + n = i  BY ONLY <2>a, <6>2, <7>1
            <7>3. QED  BY <2>3, <7>2
          <6>4. QED  BY <2>3, <6>1, <6>3 DEF Holds
        <5>5. Said("frame")' => Said("frame")  BY <1>1, <1>2, <2>3 DEF Said, Holds
        <5>6. FitsThen' = FitsThen  BY <1>2, <5>1 DEF FitsThen
        <5>7. Answering'  BY <1>1, <1>2, <2>11, <3>1, <5>1, <5>3, <5>4, <5>5, <5>6 DEF Answering
        <5>8. QED  BY <5>1, <5>7 DEF Phase
      <4>3. QED  BY <4>1, <4>2
    <3>7. QED  BY <2>2, <2>6, <2>7, <2>8, <2>9, <2>10, <3>4, <3>5, <3>6
  <2>15. CASE ~Serving
    <3>1. release = "running" /\ todo' = todo /\ todo = Farewell
      BY <1>1, <1>2, <2>15 DEF Closing, Farewell, ending
    <3>2. StnTypes'
      <4>1. UNCHANGED <<job, active, lines, out, todo>>  BY <1>2, <3>1
      <4>2. QED  BY <1>2, <2>1, <2>2, <2>3, <2>4, <4>1 DEF StnTypes
    <3>3. Phase'  BY <2>5, <2>15 DEF Phase
    <3>4. Closing'
      <4>1. worker' = "next" => in' = <<>>  BY <2>1, <2>3, <2>12
      <4>2. worker' \in {"finish", "next"} /\ todo' = Farewell /\ out' = <<>> /\ release' = "running"
        BY <1>2, <2>1, <2>11, <3>1
      <4>3. QED  BY <4>1, <4>2, FarewellIs DEF Closing, Farewell, Only, Holds
    <3>5. QED  BY <2>2, <2>6, <2>7, <2>8, <2>9, <2>10, <3>2, <3>3, <3>4
  <2>16. QED  BY <2>14, <2>15
<1>7. QED  BY <1>3, <1>5, <1>6

LEMMA StreamReads ==
  ASSUME StnInv, UNCHANGED <<events, got, heard>>, NEW n \in 0..Len(in), Reads(n),
         errors' = <<>> => errors = <<>>,
         Listening' /\ errors' = <<>> /\ (\A i \in DOMAIN lines' : lines'[i] # "frame") =>
           /\ Listening /\ server = "serves" /\ \A i \in DOMAIN lines : lines[i] # "frame"
           /\ \A i \in 1..n : in[i].what # "frame"
  PROVE  Stream'
<1> USE DEF StnInv
<1>0. /\ DOMAIN in = 1..Len(in) /\ Len(in) \in Nat /\ DOMAIN in' = 1..(Len(in) - n)
      /\ \A i \in DOMAIN in' : i + n \in DOMAIN in /\ in'[i] = in[i + n]
  BY ReadsSuffix
<1>1. Rising(in', "frame", got, heard)  BY RisingSuffix DEF Stream
<1>2. \A i \in DOMAIN in' : in'[i].what = "frame" =>
        \A j \in DOMAIN events : events[j].what = "received" => events[j].n < in'[i].n
  BY <1>0 DEF Stream
<1>3. ASSUME Listening', errors' = <<>>, \A i \in DOMAIN lines' : lines'[i] # "frame",
             NEW x \in (got + 1)..Len(heard), Underway(in, x)
      PROVE  Underway(in', x)
  <2>1. PICK i \in DOMAIN in : in[i].what = "frame" /\ in[i].n = x  BY <1>3 DEF Underway
  <2>2. i \notin 1..n  BY <1>3, <2>1
  <2>3. i \in 1..Len(in) /\ n \in 0..Len(in)  BY <1>0
  <2>4. i - n \in 1..(Len(in) - n) /\ (i - n) + n = i  BY ONLY <1>0, <2>2, <2>3
  <2>5. in'[i - n] = in[i]  BY <1>0, <2>4
  <2>6. QED  BY <1>0, <2>1, <2>4, <2>5 DEF Underway
<1>4. QED  BY <1>1, <1>2, <1>3 DEF Stream

\* The words of an answer are those that have come before and those that were read.
LEMMA AnswerIs ==
  ASSUME StnTypes, Answer
  PROVE  \E n \in 1..Len(in), answer \in Seq(Words) :
           LET x == Head(todo)
               idle == [link EXCEPT !.receiving = FALSE, !.monitoring = FALSE]
           IN /\ link.synchronized /\ Reads(n)
              /\ \A i \in DOMAIN lines : \E j \in DOMAIN answer : answer[j] = lines[i]
              /\ \A i \in 1..n : in[i] # Prompt => \E j \in DOMAIN answer : answer[j] = in[i].what
              /\ \A j \in DOMAIN answer : \/ \E i \in DOMAIN lines : lines[i] = answer[j]
                                          \/ \E i \in 1..n : in[i] # Prompt /\ in[i].what = answer[j]
              /\ lines' = IF PromptIn(n) THEN <<>> ELSE answer
              /\ IF ~PromptIn(n) THEN Goes("answer") /\ UNCHANGED <<link, todo>>
                 ELSE IF Accepted(x, answer)
                   THEN /\ link' = IF x.last THEN [idle EXCEPT !.controller = job.c] ELSE idle
                        /\ todo' = Tail(todo) /\ Goes("next")
                   ELSE link' = idle /\ UNCHANGED todo /\ Fails
<1> DEFINE x == Head(todo)
           idle == [link EXCEPT !.receiving = FALSE, !.monitoring = FALSE]
<1>1. PICK items \in Packets : \E at \in InOrder({i \in DOMAIN items : items[i] # Prompt}) :
       LET answer == lines \o [i \in DOMAIN at |-> items[at[i]].what]
       IN /\ in' = SubSeq(in, Len(items) + 1, Len(in))
          /\ lines' = IF Prompted(items) THEN <<>> ELSE answer
          /\ IF ~Prompted(items) THEN Goes("answer") /\ UNCHANGED <<link, todo>>
             ELSE IF Accepted(x, answer)
               THEN /\ link' = IF x.last THEN [Idle(items) EXCEPT !.controller = job.c] ELSE Idle(items)
                    /\ todo' = Tail(todo) /\ Goes("next")
               ELSE link' = Idle(items) /\ UNCHANGED todo /\ Fails
  BY DEF Answer
<1>2. PICK n \in 1..Len(in) :
        /\ link.synchronized /\ items \in Seq(Item) /\ Len(items) = n /\ DOMAIN items = 1..n
        /\ \A i \in 1..n : items[i] = in[i] /\ in[i] \in Item
  BY PacketIs
<1> DEFINE S == {i \in DOMAIN items : items[i] # Prompt}
<1>3. PICK at \in InOrder(S) :
       LET answer == lines \o [i \in DOMAIN at |-> items[at[i]].what]
       IN /\ in' = SubSeq(in, Len(items) + 1, Len(in))
          /\ lines' = IF Prompted(items) THEN <<>> ELSE answer
          /\ IF ~Prompted(items) THEN Goes("answer") /\ UNCHANGED <<link, todo>>
             ELSE IF Accepted(x, answer)
               THEN /\ link' = IF x.last THEN [Idle(items) EXCEPT !.controller = job.c] ELSE Idle(items)
                    /\ todo' = Tail(todo) /\ Goes("next")
               ELSE link' = Idle(items) /\ UNCHANGED todo /\ Fails
  BY <1>1
<1>4. /\ n \in Nat /\ lines \in Seq(Words) /\ DOMAIN lines = 1..Len(lines) /\ Len(lines) \in Nat
      /\ S \in SUBSET (1..n)
  BY <1>2, LenProperties DEF StnTypes
<1>5. \A i : i \in S <=> i \in 1..n /\ in[i] # Prompt  BY <1>2
<1> HIDE DEF S
<1>a. at \in InOrder(S)  BY <1>3, Zenon
<1>b. n \in Nat /\ S \in SUBSET (1..n)  BY <1>4
<1>6. PICK k \in Nat : /\ at \in [1..k -> S] /\ DOMAIN at = 1..k
                       /\ \A i, j \in 1..k : i < j => at[i] < at[j]
                       /\ \A s \in S : \E i \in 1..k : at[i] = s
  <2>1. \A nn \in Nat : \A SS \in SUBSET (1..nn) : \A aa \in InOrder(SS) :
          \E k \in Nat :
            /\ aa \in [1..k -> SS] /\ DOMAIN aa = 1..k
            /\ \A i, j \in 1..k : i < j => aa[i] < aa[j]
            /\ \A s \in SS : \E i \in 1..k : aa[i] = s
    BY InOrderIs
  <2>2. \A SS \in SUBSET (1..n) : \A aa \in InOrder(SS) :
          \E k \in Nat :
            /\ aa \in [1..k -> SS] /\ DOMAIN aa = 1..k
            /\ \A i, j \in 1..k : i < j => aa[i] < aa[j]
            /\ \A s \in SS : \E i \in 1..k : aa[i] = s
    BY <1>b, <2>1
  <2>3. QED  BY <1>a, <1>b, <2>2
<1>7. \A i \in 1..k : at[i] \in 1..n /\ in[at[i]] # Prompt /\ items[at[i]] = in[at[i]]
                      /\ in[at[i]].what \in Words
  BY <1>2, <1>5, <1>6 DEF Item
<1> DEFINE new == [i \in DOMAIN at |-> items[at[i]].what]
           answer == lines \o new
<1>8. new \in Seq(Words) /\ Len(new) = k /\ \A i \in 1..k : new[i] = in[at[i]].what
  <2>1. new \in [1..k -> Words]  BY <1>6, <1>7
  <2>2. new \in Seq(Words)  BY <2>1, SeqDef
  <2>3. \A i \in 1..k : new[i] = in[at[i]].what  BY <1>6, <1>7
  <2>4. DOMAIN new = 1..k  BY <2>1
  <2> HIDE DEF new
  <2>5. QED  BY <2>2, <2>3, <2>4, LenProperties
<1>9. /\ in' = SubSeq(in, Len(items) + 1, Len(in))
      /\ lines' = IF Prompted(items) THEN <<>> ELSE answer
      /\ IF ~Prompted(items) THEN Goes("answer") /\ UNCHANGED <<link, todo>>
         ELSE IF Accepted(x, answer)
           THEN /\ link' = IF x.last THEN [Idle(items) EXCEPT !.controller = job.c] ELSE Idle(items)
                /\ todo' = Tail(todo) /\ Goes("next")
           ELSE link' = Idle(items) /\ UNCHANGED todo /\ Fails
  BY <1>3
<1> HIDE DEF new
<1>10. /\ answer \in Seq(Words) /\ Len(answer) = Len(lines) + k
       /\ \A i \in 1..(Len(lines) + k) :
            answer[i] = IF i <= Len(lines) THEN lines[i] ELSE new[i - Len(lines)]
  BY <1>4, <1>8, ConcatProperties
<1> HIDE DEF answer
<1>11. DOMAIN answer = 1..(Len(lines) + k)  BY <1>10, LenProperties
<1>12. \A i \in DOMAIN lines : i \in DOMAIN answer /\ answer[i] = lines[i]
  BY <1>4, <1>10, <1>11
<1>13. \A i \in 1..k : Len(lines) + i \in DOMAIN answer /\ answer[Len(lines) + i] = in[at[i]].what
  <2> SUFFICES ASSUME NEW i \in 1..k
               PROVE  Len(lines) + i \in DOMAIN answer /\ answer[Len(lines) + i] = in[at[i]].what
    OBVIOUS
  <2>1. /\ Len(lines) + i \in 1..(Len(lines) + k) /\ ~(Len(lines) + i <= Len(lines))
        /\ (Len(lines) + i) - Len(lines) = i
    BY <1>4
  <2>2. answer[Len(lines) + i] = new[i]  BY <1>10, <2>1
  <2>3. QED  BY <1>8, <1>11, <2>1, <2>2
<1>14. \A i \in 1..n : in[i] # Prompt => \E j \in DOMAIN answer : answer[j] = in[i].what
  <2> SUFFICES ASSUME NEW i \in 1..n, in[i] # Prompt
               PROVE  \E j \in DOMAIN answer : answer[j] = in[i].what
    OBVIOUS
  <2>1. PICK l \in 1..k : at[l] = i  BY <1>5, <1>6
  <2>2. QED  BY <1>13, <2>1
<1>15. \A j \in DOMAIN answer : \/ \E i \in DOMAIN lines : lines[i] = answer[j]
                                \/ \E i \in 1..n : in[i] # Prompt /\ in[i].what = answer[j]
  <2> SUFFICES ASSUME NEW j \in DOMAIN answer
               PROVE  \/ \E i \in DOMAIN lines : lines[i] = answer[j]
                      \/ \E i \in 1..n : in[i] # Prompt /\ in[i].what = answer[j]
    OBVIOUS
  <2>1. CASE j <= Len(lines)
    <3>1. j \in 1..Len(lines)  BY <1>4, <1>11, <2>1
    <3>2. QED  BY <1>4, <1>12, <3>1
  <2>2. CASE ~(j <= Len(lines))
    <3>1. j - Len(lines) \in 1..k  BY <1>4, <1>11, <2>2
    <3>2. answer[j] = new[j - Len(lines)]  BY <1>10, <1>11, <2>2
    <3>3. QED  BY <1>7, <1>8, <3>1, <3>2
  <2>3. QED  BY <2>1, <2>2
<1>16. Prompted(items) <=> PromptIn(n)  BY <1>2 DEF Prompted, PromptIn
<1>17. PromptIn(n) => Idle(items) = idle  BY <1>16 DEF Idle
<1>18. Reads(n)  BY <1>2, <1>9 DEF Reads
<1>19. /\ lines' = IF PromptIn(n) THEN <<>> ELSE answer
       /\ IF ~PromptIn(n) THEN Goes("answer") /\ UNCHANGED <<link, todo>>
          ELSE IF Accepted(x, answer)
            THEN /\ link' = IF x.last THEN [idle EXCEPT !.controller = job.c] ELSE idle
                 /\ todo' = Tail(todo) /\ Goes("next")
            ELSE link' = idle /\ UNCHANGED todo /\ Fails
  BY <1>9, <1>16, <1>17
<1> HIDE DEF idle, x
<1>20. /\ link.synchronized /\ Reads(n)
       /\ \A i \in DOMAIN lines : \E j \in DOMAIN answer : answer[j] = lines[i]
       /\ \A i \in 1..n : in[i] # Prompt => \E j \in DOMAIN answer : answer[j] = in[i].what
       /\ \A j \in DOMAIN answer : \/ \E i \in DOMAIN lines : lines[i] = answer[j]
                                   \/ \E i \in 1..n : in[i] # Prompt /\ in[i].what = answer[j]
  BY <1>2, <1>12, <1>14, <1>15, <1>18
<1>21. QED  BY <1>10, <1>19, <1>20 DEF idle, x

\* The answer to a setting, a wake-up or the counters.
LEMMA AnswerStep ==
  ASSUME StnInv, Answer
  PROVE  StnInv'
<1> USE DEF StnInv, others, device, firmware, bridge
<1> DEFINE x == Head(todo)
           idle == [link EXCEPT !.receiving = FALSE, !.monitoring = FALSE]
<1>1. /\ worker = "answer" /\ link.receiving /\ ~link.monitoring /\ link.synchronized /\ AtWork
      /\ release \in {"none", "running"} /\ (release = "none" <=> Serving)
  BY DEF Answer, Serving, Control, AtWork
<1>2. UNCHANGED <<others, events, job, active, out>>  BY DEF Answer
<1>3. PICK n \in 1..Len(in), answer \in Seq(Words) :
        /\ link.synchronized /\ Reads(n)
        /\ \A i \in DOMAIN lines : \E j \in DOMAIN answer : answer[j] = lines[i]
        /\ \A i \in 1..n : in[i] # Prompt => \E j \in DOMAIN answer : answer[j] = in[i].what
        /\ \A j \in DOMAIN answer : \/ \E i \in DOMAIN lines : lines[i] = answer[j]
                                    \/ \E i \in 1..n : in[i] # Prompt /\ in[i].what = answer[j]
        /\ lines' = IF PromptIn(n) THEN <<>> ELSE answer
        /\ IF ~PromptIn(n) THEN Goes("answer") /\ UNCHANGED <<link, todo>>
           ELSE IF Accepted(x, answer)
             THEN /\ link' = IF x.last THEN [idle EXCEPT !.controller = job.c] ELSE idle
                  /\ todo' = Tail(todo) /\ Goes("next")
             ELSE link' = idle /\ UNCHANGED todo /\ Fails
  BY AnswerIs
<1>4. n \in Nat /\ n >= 1 /\ n <= Len(in) /\ Len(in) \in Nat /\ n \in 0..Len(in) /\ in # <<>>
  BY DEF StnTypes
<1>5. /\ DOMAIN in = 1..Len(in) /\ DOMAIN in' = 1..(Len(in) - n) /\ Len(in') = Len(in) - n
      /\ in' \in Seq(Item) /\ \A i \in DOMAIN in' : i + n \in DOMAIN in /\ in'[i] = in[i + n]
      /\ n = Len(in) => in' = <<>>
  BY <1>3, <1>4, ReadsSuffix
<1>6. server = "serves" /\ ~Holds(out, "request")  BY <1>4, ReadsNoRequest DEF Control, StnTypes
<1>7. Loaded' /\ Truth'  BY <1>2, <1>6 DEF Loaded, Holds, Truth
<1>8. /\ idle \in [receiving: BOOLEAN, monitoring: BOOLEAN, synchronized: BOOLEAN, controller: Bus]
      /\ ~idle.receiving /\ ~idle.monitoring /\ idle.synchronized = link.synchronized
      /\ idle.controller = link.controller
  BY DEF StnTypes
<1>9. \A word \in Words : Said(word) <=> (\E j \in DOMAIN answer : answer[j] = word) \/ Holds(in', word)
  <2> SUFFICES ASSUME NEW word \in Words
               PROVE  Said(word) <=> (\E j \in DOMAIN answer : answer[j] = word) \/ Holds(in', word)
    OBVIOUS
  <2>1. ASSUME NEW i \in DOMAIN lines, lines[i] = word  PROVE \E j \in DOMAIN answer : answer[j] = word
    BY <1>3, <2>1
  <2>2. ASSUME NEW i \in DOMAIN in, in[i].what = word
        PROVE  (\E j \in DOMAIN answer : answer[j] = word) \/ Holds(in', word)
    <3>1. in[i] # Prompt
      <4>1. Prompt.what \notin Words  BY DEF Prompt, Text, Words
      <4>2. QED  BY <2>2, <4>1
    <3>2. CASE i \in 1..n  BY <1>3, <2>2, <3>1, <3>2
    <3>3. CASE i \notin 1..n
      <4>1. i \in 1..Len(in)  BY <1>5
      <4>2. i - n \in 1..(Len(in) - n) /\ (i - n) + n = i  BY ONLY <1>4, <3>3, <4>1
      <4>3. in'[i - n] = in[i] /\ i - n \in DOMAIN in'  BY <1>5, <4>2
      <4>4. QED  BY <2>2, <4>3 DEF Holds
    <3>4. QED  BY <3>2, <3>3
  <2>3. ASSUME NEW j \in DOMAIN answer, answer[j] = word  PROVE Said(word)
    <3>1. \A i \in 1..n : i \in DOMAIN in
      <4>1. \A i \in 1..n : i \in 1..Len(in)  BY ONLY <1>4
      <4>2. QED  BY <1>5, <4>1
    <3>2. QED  BY <1>3, <2>3, <3>1 DEF Said, Holds
  <2>4. Holds(in', word) => Said(word)  BY <1>5 DEF Said, Holds
  <2>5. QED  BY <2>1, <2>2, <2>3, <2>4 DEF Said, Holds
<1>10. {"frame", "ok", "other"} \subseteq Words  BY DEF Words
<1>11. ~PromptIn(n) => n # Len(in) \/ in[Len(in)] # Prompt
  <2>1. Len(in) \in 1..Len(in)  BY <1>4
  <2>2. QED  BY <2>1 DEF PromptIn
<1>12. Serving /\ PromptIn(n) => n = Len(in)
  <2>1. SUFFICES ASSUME Serving, NEW i \in 1..n, in[i] = Prompt  PROVE n = Len(in)
    BY DEF PromptIn
  <2>2. i \in 1..Len(in)  BY <1>4
  <2>3. i = Len(in)  BY <1>1, <1>4, <1>5, <2>1, <2>2, AnswerUnderway
  <2>4. QED  BY <1>4, <2>2, <2>3
<1> HIDE DEF x, idle
\* More is to come.
<1>13. CASE ~PromptIn(n)
  <2>1. worker' = "answer" /\ UNCHANGED <<link, todo, errors, release>> /\ lines' = answer
        /\ Serving' = Serving
    BY <1>1, <1>3, <1>13 DEF Goes, Serving
  <2>2. StnTypes'
    <3>1. lines' \in Seq(Words) /\ in' \in Seq(Item)  BY <1>3, <1>5, <2>1
    <3>2. QED  BY <1>2, <2>1, <3>1 DEF StnTypes
  <2>3. Control'  BY <1>1, <1>2, <1>6, <2>1 DEF Control
  <2>4. Tickets'  BY <1>1, <1>2, <2>1 DEF Tickets
  <2>5. Phase'
    <3>1. SUFFICES ASSUME Serving  PROVE Answering'  BY <2>1 DEF Phase
    <3>2. /\ todo # <<>> /\ out = <<>> /\ in[Len(in)] = Prompt
          /\ ~Said("other") \/ x.what = "counters" => FitsThen
          /\ Said("frame") => x.what = "request"
      BY <1>1, <1>4, <3>1, AnswerUnderway DEF x
    <3>3. in' # <<>> /\ in'[Len(in')] = Prompt
      <4>1. n # Len(in)  BY <1>11, <1>13, <3>2
      <4>2. Len(in) - n \in 1..(Len(in) - n) /\ (Len(in) - n) + n = Len(in)  BY ONLY <1>4, <4>1
      <4>3. Len(in') \in DOMAIN in' /\ Len(in') + n = Len(in)  BY <1>5, <4>2
      <4>4. in'[Len(in')] = in[Len(in)]  BY <1>5, <4>3
      <4>5. DOMAIN <<>> = {}  OBVIOUS
      <4>6. in' # <<>>  BY ONLY <4>3, <4>5
      <4>7. QED  BY <3>2, <4>4, <4>6
    <3>4. \A word \in Words : Said(word)' <=> Said(word)  BY <1>9, <2>1 DEF Said
    <3>5. FitsThen' = FitsThen  BY <1>2, <2>1 DEF FitsThen
    <3>6. QED  BY <1>2, <1>10, <2>1, <3>2, <3>3, <3>4, <3>5 DEF Answering, x
  <2>6. Exchange'
    <3>1. Listening' => Listening  BY <1>1, <2>1 DEF Listening
    <3>2. QED  BY <1>1, <1>2, <1>3, <1>4, <1>13, <2>1, <3>1, ExchangeReads
  <2>7. Naming'
    <3>1. FailureNamed'  BY <1>2, <2>1 DEF Naming, FailureNamed
    <3>2. QED  BY <1>1, <1>2, <2>1, <3>1 DEF Naming
  <2>8. Stream'
    <3>1. Listening' => Listening  BY <1>1, <2>1 DEF Listening
    <3>2. (\A i \in DOMAIN lines' : lines'[i] # "frame") =>
            /\ \A i \in DOMAIN lines : lines[i] # "frame"
            /\ \A i \in 1..n : in[i].what # "frame"
      <4>1. Prompt.what # "frame"  BY DEF Prompt, Text
      <4>2. QED  BY <1>3, <2>1, <4>1
    <3>3. QED  BY <1>2, <1>3, <1>4, <1>6, <2>1, <3>1, <3>2, StreamReads
  <2>9. Closing'
    <3>1. CASE Serving  BY <1>1, <2>1, <3>1 DEF Closing
    <3>2. CASE ~Serving
      <4>1. release = "running"  BY <1>1, <3>2
      <4>2. LastCommand' = LastCommand /\ Shut' = Shut  BY <1>1, <1>2, <2>1 DEF LastCommand, Shut
      <4>3. /\ todo \in {<<Command("counters"), Command("close")>>, <<Command("close")>>} /\ todo # <<>>
            /\ Only(out, {"monitor", "interrupt", "counters", "close"})
            /\ \A i \in DOMAIN out : out[i].what = "close" => i = Len(out) /\ LastCommand
            /\ Said("ok") => LastCommand /\ Shut
        BY <1>1, <4>1 DEF Closing, Said
      <4>4. Holds(in', "ok") => LastCommand /\ Shut  BY <1>9, <1>10, <4>3
      <4>5. (\E i \in DOMAIN lines' : lines'[i] = "ok") => LastCommand /\ Shut
        BY <1>9, <1>10, <2>1, <4>3
      <4>6. QED  BY <1>1, <1>2, <2>1, <4>1, <4>2, <4>3, <4>4, <4>5 DEF Closing
    <3>3. QED  BY <3>1, <3>2
  <2>10. QED  BY <1>7, <2>2, <2>3, <2>4, <2>5, <2>6, <2>7, <2>8, <2>9
\* The answer is accepted, and the adapter has done what it was asked.
<1>14. CASE PromptIn(n) /\ Accepted(x, answer)
  <2>1. /\ link' = (IF x.last THEN [idle EXCEPT !.controller = job.c] ELSE idle)
        /\ todo' = Tail(todo) /\ worker' = "next" /\ UNCHANGED <<errors, release>> /\ lines' = <<>>
        /\ Serving' = Serving
    BY <1>1, <1>3, <1>14 DEF Goes, Serving
  <2>2. todo # <<>> /\ todo' \in Seq(Cmd)
    <3>1. todo # <<>>
      <4>1. Serving => todo # <<>>  BY <1>1, <1>4, AnswerUnderway
      <4>2. ~Serving => todo # <<>>  BY <1>1 DEF Closing
      <4>3. QED  BY <4>1, <4>2
    <3>2. QED  BY <2>1, <3>1, HeadTailProperties DEF StnTypes
  <2>3. /\ link' \in [receiving: BOOLEAN, monitoring: BOOLEAN, synchronized: BOOLEAN, controller: Bus]
        /\ ~link'.receiving /\ ~link'.monitoring /\ link'.synchronized = link.synchronized
        /\ link'.controller = IF x.last THEN job.c ELSE link.controller
    <3>1. job \in Request \cup {None}  BY DEF StnTypes
    <3>2. job.c \in Bus  BY <3>1 DEF Request, Bus, None
    <3>3. QED  BY <1>8, <2>1, <3>2
  <2>4. StnTypes'
    <3>1. lines' \in Seq(Words)  BY <2>1
    <3>2. QED  BY <1>2, <1>5, <2>1, <2>2, <2>3, <3>1 DEF StnTypes
  <2>5. Control'  BY <1>1, <1>2, <1>6, <2>1, <2>3 DEF Control
  <2>6. Tickets'  BY <1>1, <1>2, <2>1 DEF Tickets
  <2>7. Naming'
    <3>1. FailureNamed'  BY <1>2, <2>1 DEF Naming, FailureNamed
    <3>2. QED  BY <1>1, <1>2, <2>1, <3>1 DEF Naming
  <2>8. CASE Serving
    <3>1. /\ out = <<>> /\ n = Len(in) /\ in' = <<>>
          /\ ~Said("other") \/ x.what = "counters" => FitsThen
          /\ Said("frame") => x.what = "request"
      BY <1>1, <1>4, <1>5, <1>12, <1>14, <2>8, AnswerUnderway DEF x
    <3>2. \A word \in Words : Said(word) <=> \E j \in DOMAIN answer : answer[j] = word
      BY <1>9, <3>1 DEF Holds
    <3>3. /\ ~Said("other") \/ x.what = "counters"
          /\ ~Said("frame")
      <4>1. CASE x.what = "request"
        <5>1. \A i \in DOMAIN answer : answer[i] \in {"ok", "nodata"}  BY <1>14, <4>1 DEF Accepted
        <5>2. QED  BY <1>10, <3>2, <5>1
      <4>2. CASE x.what = "counters"  BY <3>1, <4>2
      <4>3. CASE x.what \notin {"request", "counters"}
        <5>1. answer = <<"ok">>  BY <1>14, <4>3 DEF Accepted
        <5>2. \A j \in DOMAIN answer : answer[j] = "ok"  BY <5>1
        <5>3. QED  BY <1>10, <3>2, <5>2
      <4>4. QED  BY <4>1, <4>2, <4>3
    <3>4. FitsThen  BY <3>1, <3>3
    <3>5. FitsNow'  BY <1>2, <2>1, <2>3, <3>4 DEF FitsNow, FitsThen, x
    <3>6. Phase'  BY <2>1, <3>5 DEF Phase
    <3>7. adapter.mode = "idle"  BY <1>1, <2>8 DEF Exchange, Listening
    <3>8. Exchange'  BY <1>2, <2>1, <2>3, <3>1, <3>7 DEF Exchange, Only, Holds
    <3>9. Stream'
      <4>1. \A i \in DOMAIN lines : lines[i] # "frame"  BY <3>3 DEF Said
      <4>2. \A i \in 1..n : in[i].what # "frame"
        <5>1. \A i \in 1..n : i \in DOMAIN in  BY <1>5, <3>1
        <5>2. QED  BY <3>3, <5>1 DEF Said, Holds
      <4>3. Listening  BY <1>1, <2>8 DEF Listening
      <4>4. QED  BY <1>2, <1>3, <1>4, <1>6, <2>1, <4>1, <4>2, <4>3, StreamReads
    <3>10. Closing'  BY <1>1, <2>1, <2>8 DEF Closing
    <3>11. QED  BY <1>7, <2>4, <2>5, <2>6, <2>7, <3>6, <3>8, <3>9, <3>10
  <2>9. CASE ~Serving
    <3>1. ~Listening' /\ ~Serving' /\ release = "running"  BY <1>1, <2>1, <2>9 DEF Listening
    <3>2. Phase' /\ Exchange'  BY <3>1 DEF Phase, Exchange
    <3>3. Stream'  BY <1>2, <1>3, <1>4, <2>1, <3>1, StreamReads
    <3>4. /\ todo = Farewell \/ todo = <<Command("close")>>
          /\ Only(out, {"monitor", "interrupt", "counters", "close"})
          /\ \A i \in DOMAIN out : out[i].what = "close" => LastCommand
          /\ Said("ok") => LastCommand /\ Shut
      BY <1>1, <2>2, <3>1 DEF Closing, Said, Farewell
    <3>5. CASE todo = Farewell
      <4>1. ~LastCommand  BY <3>5, FarewellIs DEF LastCommand
      <4>2. todo' = <<Command("close")>> /\ todo' # <<>>  BY <2>1, <3>5, FarewellIs
      <4>3. ~Holds(in', "ok") /\ \A i \in DOMAIN out : out[i].what # "close"
        BY <1>9, <1>10, <3>4, <4>1
      <4>4. UNCHANGED out /\ release' = "running" /\ worker' = "next"  BY <1>2, <2>1, <3>1
      <4>5. Closing'  BY <3>4, <4>2, <4>3, <4>4 DEF Closing
      <4>6. QED  BY <1>7, <2>4, <2>5, <2>6, <2>7, <3>2, <3>3, <4>5
    <3>6. CASE todo = <<Command("close")>>
      <4>1. x = Command("close") /\ Command("close").what = "close"
        BY <3>6, FarewellIs, PlainCommand DEF x, Commands, Settings
      <4>2. answer = <<"ok">>  BY <1>14, <4>1 DEF Accepted
      <4>3. 1 \in DOMAIN answer /\ answer[1] = "ok"  BY <4>2
      <4>4. Shut  BY <1>9, <1>10, <3>4, <4>3
      <4>5. todo' = <<>> /\ Shut'  BY <1>2, <2>1, <3>6, <4>4, FarewellIs DEF Shut
      <4>6. release' = "running" /\ worker' = "next"  BY <2>1, <3>1
      <4>7. Closing'  BY <4>5, <4>6 DEF Closing
      <4>8. QED  BY <1>7, <2>4, <2>5, <2>6, <2>7, <3>2, <3>3, <4>7
    <3>7. QED  BY <3>4, <3>5, <3>6
  <2>10. QED  BY <2>8, <2>9
\* It is not.
<1>15. CASE PromptIn(n) /\ ~Accepted(x, answer)
  <2>1. link' = idle /\ UNCHANGED todo /\ Fails /\ lines' = <<>>  BY <1>3, <1>15
  <2>2. lines' \in Seq(Words) /\ events' \in Seq(Event)  BY <1>2, <2>1 DEF StnTypes
  <2>3. UNCHANGED <<others, job, active, todo, out>>  BY <1>2, <2>1
  <2>4. link' = IF PromptIn(n) THEN [link EXCEPT !.receiving = FALSE, !.monitoring = FALSE] ELSE link
    BY <1>15, <2>1 DEF idle
  <2>5. Stream'
    <3>1. /\ worker' \in {"cleanup", "release"} /\ (worker' = "cleanup" => errors' # <<>>)
          /\ (errors' = <<>> => errors = <<>>)
      <4>1. CASE release = "none"
        <5>1. worker' = "cleanup" /\ errors' = <<active>>  BY <2>1, <4>1 DEF Fails, ending
        <5>2. errors' # <<>>  BY <5>1
        <5>3. QED  BY <5>1, <5>2
      <4>2. CASE release # "none"  BY <2>1, <4>2 DEF Fails, ending
      <4>3. QED  BY <4>1, <4>2
    <3>2. QED  BY <1>2, <1>3, <1>4, <3>1, StreamFails
  <2>6. QED  BY <1>1, <1>3, <1>7, <2>1, <2>2, <2>3, <2>4, <2>5, ReceiveFails
<1>16. QED  BY <1>13, <1>14, <1>15

-----------------------------------------------------------------------------
(***************************************************************************)
(* The byte server and the adapter.                                        *)
(***************************************************************************)

LEMMA OutTail ==
  ASSUME StnTypes, out # <<>>, out' = Tail(out)
  PROVE  /\ out' \in Seq(Cmd) /\ Len(out) \in Nat /\ Len(out') = Len(out) - 1
         /\ DOMAIN out = 1..Len(out) /\ DOMAIN out' = 1..(Len(out) - 1)
         /\ 1 \in DOMAIN out /\ Head(out) = out[1] /\ out[1] \in Cmd
         /\ \A i \in DOMAIN out' : i + 1 \in DOMAIN out /\ out'[i] = out[i + 1]
         /\ Len(out) = 1 => out' = <<>>
<1>1. out \in Seq(Cmd)  BY DEF StnTypes
<1>2. /\ Head(out) = out[1] /\ Head(out) \in Cmd /\ Tail(out) \in Seq(Cmd)
      /\ Len(Tail(out)) = Len(out) - 1 /\ DOMAIN out = 1..Len(out) /\ Len(out) \in Nat /\ Len(out) # 0
      /\ \A i \in 1..Len(Tail(out)) : Tail(out)[i] = out[i + 1]
  BY <1>1, HeadTailProperties, LenProperties, EmptySeq
<1>3. DOMAIN Tail(out) = 1..(Len(out) - 1)  BY <1>2, LenProperties
<1>4. Len(out) = 1 => Tail(out) = <<>>  BY <1>2, EmptySeq
<1>5. QED  BY <1>2, <1>3, <1>4

\* What the adapter says comes after what is under way, or nobody listens.
LEMMA SaysIs ==
  ASSUME StnInv, NEW items \in Seq(Item), Says(items)
  PROVE  /\ in' \in Seq(Item) /\ in \in Seq(Item) /\ Len(in) \in Nat /\ Len(items) \in Nat
         /\ DOMAIN in = 1..Len(in) /\ DOMAIN in' = 1..Len(in') /\ Len(in') \in Nat
         /\ \A i \in DOMAIN in : i \in DOMAIN in' /\ in'[i] = in[i]
         /\ \A i \in DOMAIN in' : \/ i \in DOMAIN in /\ in'[i] = in[i]
                                  \/ \E k \in 1..Len(items) : i = Len(in) + k /\ in'[i] = items[k]
         /\ \/ /\ server = "serves" /\ worker # "ended" /\ Len(in') = Len(in) + Len(items)
               /\ \A k \in 1..Len(items) : Len(in) + k \in DOMAIN in' /\ in'[Len(in) + k] = items[k]
            \/ (server = "released" \/ worker = "ended") /\ in = <<>> /\ in' = <<>>
<1>1. in \in Seq(Item) /\ Len(in) \in Nat /\ DOMAIN in = 1..Len(in) /\ Len(items) \in Nat
  BY LenProperties DEF StnInv, StnTypes
<1>2. CASE server = "serves" /\ worker # "ended"
  <2>1. in' = in \o items  BY <1>2 DEF Says
  <2>2. /\ in' \in Seq(Item) /\ Len(in') = Len(in) + Len(items)
        /\ \A i \in 1..(Len(in) + Len(items)) : in'[i] = IF i <= Len(in) THEN in[i] ELSE items[i - Len(in)]
    BY <1>1, <2>1, ConcatProperties
  <2>3. DOMAIN in' = 1..(Len(in) + Len(items))  BY <2>2, LenProperties
  <2>4. \A i \in DOMAIN in : i \in DOMAIN in' /\ in'[i] = in[i]
    <3>1. \A i \in 1..Len(in) : i \in 1..(Len(in) + Len(items)) /\ i <= Len(in)  BY <1>1
    <3>2. QED  BY <1>1, <2>2, <2>3, <3>1
  <2>5. \A k \in 1..Len(items) : Len(in) + k \in DOMAIN in' /\ in'[Len(in) + k] = items[k]
    <3>1. \A k \in 1..Len(items) : /\ Len(in) + k \in 1..(Len(in) + Len(items))
                                   /\ ~(Len(in) + k <= Len(in)) /\ (Len(in) + k) - Len(in) = k
      BY <1>1
    <3>2. QED  BY <2>2, <2>3, <3>1
  <2>6. \A i \in DOMAIN in' : i \in 1..Len(in) \/ (i - Len(in) \in 1..Len(items) /\ i = Len(in) + (i - Len(in)))
    BY <1>1, <2>3
  <2>7. \A i \in DOMAIN in' : \/ i \in DOMAIN in /\ in'[i] = in[i]
                              \/ \E k \in 1..Len(items) : i = Len(in) + k /\ in'[i] = items[k]
    BY <1>1, <2>4, <2>5, <2>6
  <2>8. QED  BY <1>1, <1>2, <2>2, <2>3, <2>4, <2>5, <2>7
<1>3. CASE ~(server = "serves" /\ worker # "ended")
  <2>1. in' = in /\ (server = "released" \/ worker = "ended")  BY <1>3 DEF Says, StnInv, StnTypes
  <2>2. in = <<>>  BY <2>1 DEF StnInv, Control
  <2>3. QED  BY <1>1, <2>1, <2>2
<1>4. QED  BY <1>2, <1>3

LEMMA Sayings ==
  /\ Prompt \in Item /\ Prompt.what = "prompt"
  /\ \A what \in Words : /\ Text(what) \in Item /\ Text(what).what = what /\ Text(what) # Prompt
                         /\ <<Text(what), Prompt>> \in Seq(Item) /\ Len(<<Text(what), Prompt>>) = 2
                         /\ <<Text(what), Prompt>>[1] = Text(what) /\ <<Text(what), Prompt>>[2] = Prompt
  /\ <<Prompt>> \in Seq(Item) /\ Len(<<Prompt>>) = 1 /\ <<Prompt>>[1] = Prompt
<1>1. Prompt \in Item /\ Prompt.what = "prompt"  BY DEF Prompt, Text, Item
<1>2. ASSUME NEW what \in Words
      PROVE  Text(what) \in Item /\ Text(what).what = what /\ Text(what) # Prompt
  <2>1. Text(what).what = what /\ Text(what) \in Item  BY DEF Text, Item, Bus
  <2>2. what # "prompt"  BY DEF Words
  <2>3. QED  BY <1>1, <2>1, <2>2
<1>3. \A e, f \in Item : /\ <<e, f>> \in Seq(Item) /\ Len(<<e, f>>) = 2 /\ <<e, f>>[1] = e /\ <<e, f>>[2] = f
                         /\ <<e>> \in Seq(Item) /\ Len(<<e>>) = 1 /\ <<e>>[1] = e
  OBVIOUS
<1>4. QED  BY <1>1, <1>2, <1>3

\* An answer ends with the prompt.
LEMMA AnswersIs ==
  ASSUME StnInv, NEW e \in Item, e # Prompt, Says(<<e, Prompt>>)
  PROVE  /\ in' \in Seq(Item) /\ (server = "released" \/ worker = "ended" => in' = <<>>)
         /\ in = <<>> /\ server # "released" /\ worker # "ended" =>
              Len(in') = 2 /\ in'[1] = e /\ in'[Len(in')] = Prompt /\ in' # <<>> /\ 1 \in DOMAIN in'
         /\ server # "released" /\ worker # "ended" => Len(in) + 1 \in DOMAIN in' /\ in'[Len(in) + 1] = e
         /\ \A i \in DOMAIN in : i \in DOMAIN in' /\ in'[i] = in[i]
         /\ \A i \in DOMAIN in' : \/ i \in DOMAIN in /\ in'[i] = in[i]
                                  \/ i = Len(in) + 1 /\ in'[i] = e /\ in'[i] # Prompt
                                  \/ i = Len(in') /\ in'[i] = Prompt /\ in'[i].what = "prompt"
<1> DEFINE items == <<e, Prompt>>
<1>1. /\ items \in Seq(Item) /\ Len(items) = 2 /\ items[1] = e /\ items[2] = Prompt
      /\ Prompt.what = "prompt" /\ Prompt \in Item
  <2>1. Prompt \in Item /\ Prompt.what = "prompt"  BY Sayings
  <2>2. QED  BY <2>1
<1> HIDE DEF items
<1>2. Says(items)  BY DEF items
<1>3. \A k \in 1..2 : k = 1 \/ k = 2  OBVIOUS
<1>4. /\ in' \in Seq(Item) /\ Len(in) \in Nat /\ Len(in') \in Nat /\ DOMAIN in' = 1..Len(in')
      /\ \A i \in DOMAIN in : i \in DOMAIN in' /\ in'[i] = in[i]
      /\ \A i \in DOMAIN in' : \/ i \in DOMAIN in /\ in'[i] = in[i]
                               \/ \E k \in 1..2 : i = Len(in) + k /\ in'[i] = items[k]
      /\ \/ /\ server = "serves" /\ worker # "ended" /\ Len(in') = Len(in) + 2
            /\ \A k \in 1..2 : Len(in) + k \in DOMAIN in' /\ in'[Len(in) + k] = items[k]
         \/ (server = "released" \/ worker = "ended") /\ in = <<>> /\ in' = <<>>
  <2>1. /\ in' \in Seq(Item) /\ Len(in) \in Nat /\ Len(in') \in Nat /\ DOMAIN in' = 1..Len(in')
        /\ \A i \in DOMAIN in : i \in DOMAIN in' /\ in'[i] = in[i]
        /\ \A i \in DOMAIN in' : \/ i \in DOMAIN in /\ in'[i] = in[i]
                                 \/ \E k \in 1..Len(items) : i = Len(in) + k /\ in'[i] = items[k]
        /\ \/ /\ server = "serves" /\ worker # "ended" /\ Len(in') = Len(in) + Len(items)
              /\ \A k \in 1..Len(items) : Len(in) + k \in DOMAIN in' /\ in'[Len(in) + k] = items[k]
           \/ (server = "released" \/ worker = "ended") /\ in = <<>> /\ in' = <<>>
    BY <1>1, <1>2, SaysIs
  <2>2. QED  BY <2>1, <1>1
<1>5. DOMAIN <<>> = {}  OBVIOUS
<1>6. ASSUME NEW i \in DOMAIN in'
      PROVE  \/ i \in DOMAIN in /\ in'[i] = in[i]
             \/ i = Len(in) + 1 /\ in'[i] = e /\ in'[i] # Prompt
             \/ i = Len(in') /\ in'[i] = Prompt /\ in'[i].what = "prompt"
  <2>1. CASE i \in DOMAIN in /\ in'[i] = in[i]  BY <2>1
  <2>2. CASE \E k \in 1..2 : i = Len(in) + k /\ in'[i] = items[k]
    <3>1. Len(in') = Len(in) + 2  BY <1>4, <1>5
    <3>2. (i = Len(in) + 1 /\ in'[i] = items[1]) \/ (i = Len(in) + 2 /\ in'[i] = items[2])
      BY <2>2, <1>3
    <3>3. QED  BY <3>1, <3>2, <1>1
  <2>3. QED  BY <1>4, <2>1, <2>2
<1>7. server = "released" \/ worker = "ended" => in' = <<>>  BY <1>4
<1>8. ASSUME server # "released", worker # "ended"
      PROVE  /\ Len(in) + 1 \in DOMAIN in' /\ in'[Len(in) + 1] = e
             /\ in = <<>> => Len(in') = 2 /\ in'[1] = e /\ in'[Len(in')] = Prompt /\ in' # <<>> /\ 1 \in DOMAIN in'
  <2>1. 1 \in 1..2 /\ 2 \in 1..2  OBVIOUS
  <2>2. /\ Len(in') = Len(in) + 2 /\ Len(in) + 1 \in DOMAIN in' /\ in'[Len(in) + 1] = e
        /\ in'[Len(in) + 2] = Prompt
    BY <1>1, <1>4, <1>8, <2>1
  <2>3. in = <<>> => Len(in) = 0  OBVIOUS
  <2>4. QED  BY <1>4, <1>5, <2>2, <2>3
<1>9. QED  BY <1>4, <1>6, <1>7, <1>8

\* What the adapter says that is no frame changes nothing for those.
LEMMA StreamSays ==
  ASSUME StnInv, UNCHANGED <<events, got, errors, heard, link, worker, release, lines, server>>,
         \A i \in DOMAIN in : i \in DOMAIN in' /\ in'[i] = in[i],
         \A i \in DOMAIN in' : (i \in DOMAIN in /\ in'[i] = in[i]) \/ in'[i].what # "frame",
         in' \in Seq(Item)
  PROVE  Stream'
<1> USE DEF StnInv
<1>1. Rising(in', "frame", got, heard)
  <2> SUFFICES ASSUME NEW i \in DOMAIN in', in'[i].what = "frame"
               PROVE  /\ in'[i].n \in 1..Len(heard) /\ in'[i].n > got /\ in'[i].c = heard[in'[i].n]
                      /\ \A j \in 1..(i - 1) : in'[j].what = "frame" => in'[j].n < in'[i].n
    BY DEF Rising
  <2>1. i \in DOMAIN in /\ in'[i] = in[i]  OBVIOUS
  <2>2. DOMAIN in' = 1..Len(in') /\ Len(in') \in Nat  BY LenProperties
  <2>3. \A j \in 1..(i - 1) : j \in DOMAIN in'  BY <2>2
  <2>4. \A j \in 1..(i - 1) : in'[j].what = "frame" => in'[j] = in[j]  BY <2>3
  <2>5. QED  BY <2>1, <2>4 DEF Stream, Rising
<1>2. \A x : Underway(in, x) => Underway(in', x)  BY DEF Underway
<1>3. \A i \in DOMAIN in' : in'[i].what = "frame" =>
        \A j \in DOMAIN events : events[j].what = "received" => events[j].n < in'[i].n
  BY DEF Stream
<1>4. Listening' = Listening  BY DEF Listening, Serving
<1>5. QED  BY <1>1, <1>2, <1>3, <1>4 DEF Stream

\* A frame that is heard is the last one, and it is under way if the worker listens.
LEMMA StreamHears ==
  ASSUME StnInv, UNCHANGED <<events, got, errors, link, worker, release, lines, server>>,
         NEW b \in Bus, heard' = Append(heard, b), in' \in Seq(Item),
         \A i \in DOMAIN in : i \in DOMAIN in' /\ in'[i] = in[i],
         \A i \in DOMAIN in' :
           \/ i \in DOMAIN in /\ in'[i] = in[i]
           \/ in'[i].what = "frame" => /\ i = Len(in) + 1 /\ in'[i].n = Len(heard) + 1 /\ in'[i].c = b,
         worker # "ended" =>
           Len(in) + 1 \in DOMAIN in' /\ in'[Len(in) + 1].what = "frame" /\ in'[Len(in) + 1].n = Len(heard) + 1
  PROVE  Stream'
<1> USE DEF StnInv
<1>1. /\ heard \in Seq(Bus) /\ Len(heard) \in Nat /\ Len(heard') = Len(heard) + 1 /\ heard' \in Seq(Bus)
      /\ heard'[Len(heard) + 1] = b /\ \A x \in 1..Len(heard) : heard'[x] = heard[x]
      /\ got \in Nat /\ in \in Seq(Item) /\ DOMAIN in = 1..Len(in) /\ Len(in) \in Nat
      /\ DOMAIN in' = 1..Len(in') /\ Len(in') \in Nat
  <2>1. heard \in Seq(Bus) /\ got \in Nat /\ in \in Seq(Item)  BY DEF StnTypes
  <2>2. QED  BY <2>1, Appended, LenProperties
<1>2. \A x \in 1..Len(heard) : x \in 1..Len(heard')  BY <1>1
<1>3. Rising(events, "received", got, heard')  BY <1>1, <1>2 DEF Stream, Rising
<1>4. got <= Len(heard') /\ got <= Len(heard)  BY <1>1 DEF Stream
<1>5. ASSUME NEW i \in DOMAIN in', in'[i].what = "frame"
      PROVE  /\ in'[i].n \in 1..Len(heard') /\ in'[i].n > got /\ in'[i].c = heard'[in'[i].n]
             /\ \A j \in 1..(i - 1) : in'[j].what = "frame" => in'[j].n < in'[i].n
             /\ \A j \in DOMAIN events : events[j].what = "received" => events[j].n < in'[i].n
  <2>0. \A j \in 1..(i - 1) : j \in DOMAIN in' /\ j < i  BY <1>1
  <2>1. CASE i \in DOMAIN in /\ in'[i] = in[i]
    <3>1. \A j \in 1..(i - 1) : j \in DOMAIN in /\ in'[j] = in[j]
      <4>1. \A j \in 1..(i - 1) : j \in DOMAIN in  BY <1>1, <2>1
      <4>2. QED  BY <4>1
    <3>2. /\ in[i].n \in 1..Len(heard) /\ in[i].n > got /\ in[i].c = heard[in[i].n]
          /\ \A j \in 1..(i - 1) : in[j].what = "frame" => in[j].n < in[i].n
          /\ \A j \in DOMAIN events : events[j].what = "received" => events[j].n < in[i].n
      BY <1>5, <2>1 DEF Stream, Rising
    <3>3. heard'[in[i].n] = heard[in[i].n] /\ in[i].n \in 1..Len(heard')  BY <1>1, <1>2, <3>2
    <3>4. \A j \in 1..(i - 1) : in'[j].what = "frame" => in'[j].n < in'[i].n
      BY ONLY <2>1, <3>1, <3>2
    <3>5. in'[i].n \in 1..Len(heard') /\ in'[i].n > got /\ in'[i].c = heard'[in'[i].n]
      BY ONLY <2>1, <3>2, <3>3
    <3>6. \A j \in DOMAIN events : events[j].what = "received" => events[j].n < in'[i].n
      BY ONLY <2>1, <3>2
    <3>7. QED  BY <3>4, <3>5, <3>6
  <2>2. CASE i = Len(in) + 1 /\ in'[i].n = Len(heard) + 1 /\ in'[i].c = b
    <3>1. in'[i].n \in 1..Len(heard') /\ in'[i].n > got /\ in'[i].c = heard'[in'[i].n]
      BY <1>1, <1>4, <2>2
    <3>2. ASSUME NEW j \in 1..(i - 1), in'[j].what = "frame"  PROVE in'[j].n < in'[i].n
      <4>1. j \in DOMAIN in  BY <1>1, <2>2
      <4>2. in'[j] = in[j] /\ in[j].n \in 1..Len(heard)  BY <3>2, <4>1 DEF Stream, Rising
      <4>3. QED  BY <1>1, <2>2, <4>2
    <3>3. ASSUME NEW j \in DOMAIN events, events[j].what = "received"  PROVE events[j].n < in'[i].n
      <4>1. events[j].n \in 1..Len(heard)  BY <3>3 DEF Stream, Rising
      <4>2. QED  BY <1>1, <2>2, <4>1
    <3>4. QED  BY <3>1, <3>2, <3>3
  <2>3. QED  BY <1>5, <2>1, <2>2
<1>6. Rising(in', "frame", got, heard')  BY <1>5 DEF Rising
<1>7. Listening' = Listening /\ (Listening => worker # "ended")  BY DEF Listening, Serving
<1>8. ASSUME Listening, server = "serves", errors = <<>>, \A i \in DOMAIN lines : lines[i] # "frame",
             NEW x \in (got + 1)..Len(heard')
      PROVE  Reported(events, x) \/ Underway(in', x)
  <2>1. CASE x = Len(heard) + 1
    BY <1>7, <1>8, <2>1 DEF Underway
  <2>2. CASE x # Len(heard) + 1
    <3>1. x \in (got + 1)..Len(heard)  BY <1>1, <2>2
    <3>2. Reported(events, x) \/ Underway(in, x)  BY <1>8, <3>1 DEF Stream
    <3>3. Underway(in, x) => Underway(in', x)  BY DEF Underway
    <3>4. QED  BY <3>2, <3>3
  <2>3. QED  BY <2>1, <2>2
<1>9. QED  BY <1>3, <1>4, <1>5, <1>6, <1>7, <1>8 DEF Stream

\* What the worker and the emulator have does not change with the server and the adapter.
LEMMA BeyondLeaves ==
  ASSUME UNCHANGED beyond
  PROVE  UNCHANGED <<asked, wanted, told, host, got, requests, events, errors, stop, worker, job, active,
                     todo, lines, link, release, posted>>
BY DEF beyond, firmware, bridge, channels, work

LEMMA AdapterLeaves ==
  ASSUME StnInv, UNCHANGED beyond, server' = server, in' \in Seq(Item), out' \in Seq(Cmd),
         heard' \in Seq(Bus), UNCHANGED wire,
         adapter' \in [mode: {"idle", "monitor"}, bus: Bus, open: BOOLEAN, wake: BOOLEAN],
         server = "released" \/ worker = "ended" => in' = <<>>
  PROVE  StnTypes' /\ Control' /\ Tickets' /\ Truth' /\ Naming'
<1> USE DEF StnInv
<1>0. UNCHANGED <<asked, wanted, told, host, got, requests, events, errors, stop, worker, job, active,
                  todo, lines, link, release, posted>>
  BY BeyondLeaves
<1>1. StnTypes'  BY <1>0 DEF StnTypes
<1>2. Control'  BY <1>0 DEF Control, Serving
<1>3. Tickets'  BY <1>0 DEF Tickets, Serving
<1>4. Truth'  BY <1>0 DEF Truth
<1>5. Naming'  BY <1>0 DEF Naming, FailureNamed, Serving
<1>6. QED  BY <1>1, <1>2, <1>3, <1>4, <1>5

\* No request is left when a command is taken.
LEMMA LoadedTakes ==
  ASSUME StnInv, out # <<>>, out' = Tail(out)
  PROVE  Loaded' /\ ~Holds(out', "request")
<1>1. ~Holds(out', "request")
  <2>1. SUFFICES ASSUME NEW i \in DOMAIN out', out'[i].what = "request"  PROVE FALSE
    BY DEF Holds
  <2>2. StnTypes  BY DEF StnInv
  <2>3. i + 1 \in DOMAIN out /\ out'[i] = out[i + 1] /\ i \in 1..(Len(out) - 1) /\ Len(out) \in Nat
    BY <2>1, <2>2, OutTail
  <2>4. Len(out) = 1  BY <2>1, <2>3 DEF StnInv, Loaded
  <2>5. QED  BY <2>3, <2>4
<1>2. Loaded'  BY <1>1 DEF Loaded, Holds
<1>3. QED  BY <1>1, <1>2

\* ... and the clean-up is not done; an OK is that of its last command.
LEMMA ClosingTakes ==
  ASSUME StnInv, UNCHANGED beyond, server' = server, out # <<>>, out' = Tail(out),
         release = "running" /\ worker \in {"next", "answer"} /\ link.synchronized /\ Holds(in', "ok") =>
           Holds(in, "ok") \/ (LastCommand /\ Shut')
  PROVE  Closing'
<1> USE DEF StnInv
<1>0. UNCHANGED <<worker, todo, lines, link, release, server>>  BY BeyondLeaves
<1>1. ~Shut  BY DEF Shut
<1>2. release # "confirmed"  BY <1>1 DEF Closing
<1>3. ASSUME release = "running", worker \in {"next", "answer"}
      PROVE  /\ todo \in {<<Command("counters"), Command("close")>>, <<Command("close")>>, <<>>}
             /\ todo # <<>>
             /\ link.synchronized =>
                  /\ Only(out, {"monitor", "interrupt", "counters", "close"})
                  /\ \A i \in DOMAIN out : out[i].what = "close" => i = Len(out) /\ LastCommand
                  /\ ~Holds(in, "ok")
                  /\ ~(worker = "answer" /\ (\E i \in DOMAIN lines : lines[i] = "ok"))
  BY <1>1, <1>3 DEF Closing
<1>4. /\ Len(out) \in Nat /\ Len(out') = Len(out) - 1 /\ DOMAIN out' = 1..(Len(out) - 1)
      /\ \A i \in DOMAIN out' : i + 1 \in DOMAIN out /\ out'[i] = out[i + 1]
  BY OutTail
<1>5. LastCommand' = LastCommand  BY <1>0 DEF LastCommand
<1>6. ASSUME release = "running", worker \in {"next", "answer"}, link.synchronized
      PROVE  /\ Only(out', {"monitor", "interrupt", "counters", "close"})
             /\ \A i \in DOMAIN out' : out'[i].what = "close" => i = Len(out') /\ LastCommand
             /\ Holds(in', "ok") => LastCommand /\ Shut'
  <2>1. Only(out', {"monitor", "interrupt", "counters", "close"})  BY <1>3, <1>4, <1>6 DEF Only
  <2>2. ASSUME NEW i \in DOMAIN out', out'[i].what = "close"  PROVE i = Len(out') /\ LastCommand
    <3>1. i + 1 = Len(out) /\ LastCommand /\ i \in Nat  BY <1>3, <1>4, <1>6, <2>2
    <3>2. QED  BY <1>4, <3>1
  <2>3. QED  BY <1>3, <1>6, <2>1, <2>2
<1>7. QED  BY <1>0, <1>2, <1>3, <1>5, <1>6 DEF Closing

\* Where the worker serves a request the adapter is idle, and takes one command at most.
LEMMA AtRequest ==
  ASSUME StnInv, Serving, worker \in {"next", "answer", "finish"}
  PROVE  /\ Listening /\ adapter.mode = "idle" /\ ~link.monitoring
         /\ Len(out) <= 1 /\ (out # <<>> => in = <<>>)
         /\ \A i \in DOMAIN in : in[i] = Prompt => i = Len(in)
BY DEF StnInv, Listening, Serving, Control, Exchange

-----------------------------------------------------------------------------
LEMMA InterruptedStep ==
  ASSUME StnInv, Interrupted
  PROVE  StnInv'
<1> USE DEF StnInv
<1>0. /\ adapter.mode = "monitor" /\ out # <<>> /\ out' = Tail(out)
      /\ adapter' = [adapter EXCEPT !.mode = "idle", !.open = FALSE]
      /\ Says(<<Text("stopped"), Prompt>>) /\ UNCHANGED beyond /\ UNCHANGED <<server, wire, heard>>
  BY DEF Interrupted, Replies
<1>1. UNCHANGED <<asked, wanted, told, host, got, requests, events, errors, stop, worker, job, active,
                  todo, lines, link, release, posted>>
  BY <1>0, BeyondLeaves
<1>2. /\ adapter' \in [mode: {"idle", "monitor"}, bus: Bus, open: BOOLEAN, wake: BOOLEAN]
      /\ adapter'.mode = "idle" /\ adapter'.bus = adapter.bus /\ adapter'.wake = adapter.wake
  BY <1>0 DEF StnTypes
<1>3. out' \in Seq(Cmd)  BY <1>0, OutTail
<1>4. /\ in' \in Seq(Item) /\ (server = "released" \/ worker = "ended" => in' = <<>>)
      /\ \A i \in DOMAIN in : i \in DOMAIN in' /\ in'[i] = in[i]
      /\ \A i \in DOMAIN in' : \/ i \in DOMAIN in /\ in'[i] = in[i]
                               \/ in'[i].what = "stopped" /\ in'[i] # Prompt
                               \/ i = Len(in') /\ in'[i] = Prompt /\ in'[i].what = "prompt"
  <2>1. Text("stopped") \in Item /\ Text("stopped") # Prompt /\ Text("stopped").what = "stopped"
    BY Sayings DEF Words
  <2>2. QED  BY <1>0, <2>1, AnswersIs
<1>5. StnTypes' /\ Control' /\ Tickets' /\ Truth' /\ Naming'
  <2>1. heard' \in Seq(Bus)  BY <1>0 DEF StnTypes
  <2>2. QED  BY <1>0, <1>2, <1>3, <1>4, <2>1, AdapterLeaves
<1>6. Loaded'  BY <1>0, LoadedTakes
<1>7. Closing'
  <2>1. Holds(in', "ok") => Holds(in, "ok")  BY <1>4 DEF Holds
  <2>2. QED  BY <1>0, <2>1, ClosingTakes
<1>8. Stream'
  <2>1. \A i \in DOMAIN in' : (i \in DOMAIN in /\ in'[i] = in[i]) \/ in'[i].what # "frame"  BY <1>4
  <2>2. QED  BY <1>0, <1>1, <1>4, <2>1, StreamSays
<1>9. Exchange'
  <2>1. SUFFICES ASSUME Listening  PROVE Exchange'
    BY <1>0, <1>1 DEF Exchange, Listening, Serving
  <2>2. link.monitoring  BY <1>0, <2>1 DEF Exchange
  <2>3. \A i \in DOMAIN in' : in'[i].what = "frame" => in'[i].c = link.controller
    BY <1>4, <2>1 DEF Exchange
  <2>4. Only(out', {"monitor", "interrupt"})
    BY <1>0, <2>1, <2>2, OutTail DEF Exchange, Only
  <2>5. Only(in', {"frame", "stopped", "prompt"})  BY <1>4, <2>1, <2>2 DEF Exchange, Only
  <2>6. adapter'.bus = link.controller  BY <1>2, <2>1, <2>2 DEF Exchange
  <2>7. QED  BY <1>1, <2>2, <2>3, <2>4, <2>5, <2>6 DEF Exchange
<1>10. Phase'
  <2>1. SUFFICES ASSUME Serving  PROVE Phase'
    BY <1>0, <1>1 DEF Phase, Serving
  <2>2. worker \in {"loop", "drain"}  BY <1>0, <2>1, AtRequest DEF Serving
  <2>3. adapter'.bus = link.controller /\ ~adapter'.wake  BY <1>2, <2>1, <2>2 DEF Phase
  <2>4. link.receiving => Watching'
    <3>1. SUFFICES ASSUME link.receiving, server # "released"  PROVE Watching'
      BY <1>0 DEF Watching
    <3>2. Watching  BY <2>1, <2>2, <3>1 DEF Phase
    <3>3. worker = "drain" /\ out = <<Command("interrupt")>> /\ Only(in, {"frame"})
      BY <1>0, <3>1, <3>2 DEF Watching, asks
    <3>4. out' = <<>>
      <4>1. Len(out) = 1  BY <3>3
      <4>2. QED  BY <1>0, <4>1, OutTail
    <3>5. \A i \in DOMAIN in : in[i] # Prompt  BY <3>3, Sayings DEF Only
    <3>6. \A i \in DOMAIN in' : in'[i] = Prompt => i = Len(in')  BY <1>4, <3>5
    <3>7. QED  BY <1>1, <1>2, <3>3, <3>4, <3>6 DEF Watching
  <2>5. QED  BY <1>1, <2>2, <2>3, <2>4 DEF Phase
<1>11. QED  BY <1>5, <1>6, <1>7, <1>8, <1>9, <1>10

LEMMA ServerEndsStep ==
  ASSUME StnInv, ServerEnds
  PROVE  StnInv'
<1> USE DEF StnInv
<1>0. /\ server = "serves" /\ server' = "released" /\ in' = <<>>
      /\ UNCHANGED beyond /\ UNCHANGED <<adapter, wire, heard>>
  BY DEF ServerEnds, device
<1>1. UNCHANGED <<asked, wanted, told, host, got, requests, events, errors, stop, worker, job, active,
                  todo, lines, link, release, posted>>
  BY <1>0, BeyondLeaves
<1>2. out \in Seq(Cmd) /\ DOMAIN out = 1..Len(out) /\ Len(out) \in Nat  BY DEF StnTypes
<1>3. out' \in Seq(Cmd) /\ DOMAIN out' \subseteq DOMAIN out /\ Len(out') <= Len(out) /\ Len(out') \in Nat
      /\ DOMAIN out' = 1..Len(out') /\ (\A i \in DOMAIN out' : out'[i] = out[i])
      /\ (out = <<>> => out' = <<>>)
  <2>1. PICK n \in 0..Len(out) : out' = SubSeq(out, 1, n)  BY DEF ServerEnds
  <2>2. \A i \in 1..n : out[i] \in Cmd  BY <1>2, ElementOfSeq
  <2>3. /\ SubSeq(out, 1, n) \in Seq(Cmd) /\ Len(SubSeq(out, 1, n)) = n
        /\ \A i \in 1..n : SubSeq(out, 1, n)[i] = out[i]
    BY <1>2, <2>2, SubSeqProperties
  <2>4. DOMAIN SubSeq(out, 1, n) = 1..n  BY <2>3, LenProperties
  <2>5. out = <<>> => Len(out') = 0  BY <1>2, <2>1, <2>3
  <2>6. QED  BY <1>2, <2>1, <2>3, <2>4, <2>5, EmptySeq
<1>4. StnTypes'  BY <1>0, <1>1, <1>3 DEF StnTypes
<1>5. Control'  BY <1>0, <1>1 DEF Control, Serving
<1>6. Tickets' /\ Truth' /\ Naming'
  BY <1>0, <1>1 DEF Tickets, Truth, Naming, FailureNamed, Serving
<1>7. Phase'  BY <1>0, <1>1 DEF Phase, Serving, Watching, Answering, FitsNow
<1>8. Exchange'
  <2>1. SUFFICES ASSUME Listening  PROVE Exchange'
    BY <1>0, <1>1 DEF Exchange, Listening, Serving
  <2>2. \A S : Only(out, S) => Only(out', S)  BY <1>3 DEF Only
  <2>3. Only(in', {"frame", "stopped", "prompt"}) /\ DOMAIN in' = {}  BY <1>0 DEF Only
  <2>4. Holds(out', "request") => Holds(out, "request")  BY <1>3 DEF Holds
  <2>5. CASE link.monitoring  BY <1>0, <1>1, <2>1, <2>2, <2>3, <2>5 DEF Exchange
  <2>6. CASE ~link.monitoring
    <3>1. /\ adapter.mode = "idle" /\ Len(out) <= 1 /\ Only(out, Settings \cup {"request", "counters"})
          /\ out # <<>> => link.receiving
          /\ Holds(out, "request") => adapter.bus = link.controller
      BY <2>1, <2>6 DEF Exchange
    <3>2. Len(out') <= 1  BY <1>2, <1>3, <3>1
    <3>3. QED  BY <1>0, <1>1, <1>3, <2>2, <2>3, <2>4, <2>6, <3>1, <3>2 DEF Exchange
  <2>7. QED  BY <2>5, <2>6
<1>9. Loaded'
  <2>0. Named' = Named  BY <1>1 DEF Named
  <2>1. SUFFICES ASSUME NEW i \in DOMAIN out', out'[i].what = "request"
                 PROVE  Len(out') = 1
    BY <1>0, <1>1, <1>3, <2>0 DEF Loaded
  <2>2. i \in DOMAIN out /\ out'[i] = out[i] /\ i >= 1 /\ i <= Len(out')  BY <1>3, <2>1
  <2>3. Len(out) = 1  BY <2>1, <2>2 DEF Loaded
  <2>4. QED  BY <1>3, <2>2, <2>3
<1>10. Stream'  BY <1>0, <1>1 DEF Stream, Rising, Listening, Serving
<1>11. Closing'
  <2>1. Shut => Shut'  BY <1>0, <1>3 DEF Shut
  <2>2. \A S : Only(out, S) => Only(out', S)  BY <1>3 DEF Only
  <2>3. ASSUME \A i \in DOMAIN out : out[i].what = "close" => i = Len(out) /\ LastCommand
        PROVE  \A i \in DOMAIN out' : out'[i].what = "close" => i = Len(out') /\ LastCommand
    <3>1. SUFFICES ASSUME NEW i \in DOMAIN out', out'[i].what = "close"
                   PROVE  i = Len(out') /\ LastCommand
      OBVIOUS
    <3>2. i = Len(out) /\ LastCommand /\ i <= Len(out') /\ i \in Nat  BY <1>3, <2>3, <3>1
    <3>3. Len(out) \in Nat /\ Len(out') \in Nat /\ Len(out') <= Len(out)  BY <1>2, <1>3
    <3>4. QED  BY ONLY <3>2, <3>3
  <2>4. ~Holds(in', "ok")  BY <1>0 DEF Holds
  <2>5. LastCommand' = LastCommand  BY <1>1 DEF LastCommand
  <2>6. QED  BY <1>0, <1>1, <2>1, <2>2, <2>3, <2>4, <2>5 DEF Closing
<1>12. QED  BY <1>4, <1>5, <1>6, <1>7, <1>8, <1>9, <1>10, <1>11

LEMMA HearStep ==
  ASSUME StnInv, Hear
  PROVE  StnInv'
<1> USE DEF StnInv
<1> DEFINE e == [what |-> "frame", c |-> adapter.bus, n |-> Len(heard) + 1]
<1>0. /\ adapter.mode = "monitor" /\ server = "serves" /\ heard' = Append(heard, adapter.bus)
      /\ Says(<<e>>) /\ UNCHANGED beyond /\ UNCHANGED <<server, out, adapter, wire>>
  BY DEF Hear
<1>1. UNCHANGED <<asked, wanted, told, host, got, requests, events, errors, stop, worker, job, active,
                  todo, lines, link, release, posted>>
  BY <1>0, BeyondLeaves
<1>2. adapter.bus \in Bus /\ heard \in Seq(Bus) /\ Len(heard) \in Nat /\ out \in Seq(Cmd)  BY DEF StnTypes
<1>3. e \in Item /\ e.what = "frame" /\ e.c = adapter.bus /\ e.n = Len(heard) + 1
  BY <1>2 DEF Item, Words
<1>4. heard' \in Seq(Bus)  BY <1>0, <1>2, Appended
<1> HIDE DEF e
<1>5. /\ in' \in Seq(Item) /\ (server = "released" \/ worker = "ended" => in' = <<>>)
      /\ \A i \in DOMAIN in : i \in DOMAIN in' /\ in'[i] = in[i]
      /\ \A i \in DOMAIN in' : (i \in DOMAIN in /\ in'[i] = in[i]) \/ (i = Len(in) + 1 /\ in'[i] = e)
      /\ worker # "ended" => Len(in) + 1 \in DOMAIN in' /\ in'[Len(in) + 1] = e
  <2>1. <<e>> \in Seq(Item) /\ Len(<<e>>) = 1 /\ <<e>>[1] = e  BY <1>3, OneItem
  <2>2. \A k \in 1..Len(<<e>>) : k = 1  BY <2>1
  <2>3. 1 \in 1..Len(<<e>>)  BY <2>1
  <2>4. /\ in' \in Seq(Item)
        /\ \A i \in DOMAIN in : i \in DOMAIN in' /\ in'[i] = in[i]
        /\ \A i \in DOMAIN in' : \/ i \in DOMAIN in /\ in'[i] = in[i]
                                 \/ \E k \in 1..Len(<<e>>) : i = Len(in) + k /\ in'[i] = <<e>>[k]
        /\ \/ /\ server = "serves" /\ worker # "ended"
              /\ \A k \in 1..Len(<<e>>) : Len(in) + k \in DOMAIN in' /\ in'[Len(in) + k] = <<e>>[k]
           \/ (server = "released" \/ worker = "ended") /\ in' = <<>>
    BY <1>0, <2>1, SaysIs
  <2>5. QED  BY <1>0, <2>1, <2>2, <2>3, <2>4
<1>6. StnTypes' /\ Control' /\ Tickets' /\ Truth' /\ Naming'
  <2>1. adapter' \in [mode: {"idle", "monitor"}, bus: Bus, open: BOOLEAN, wake: BOOLEAN]
    BY <1>0 DEF StnTypes
  <2>2. QED  BY <1>0, <1>2, <1>4, <1>5, <2>1, AdapterLeaves
<1>7. Loaded'
  <2>1. ~Holds(out, "request")  BY <1>0 DEF Loaded, Holds
  <2>2. QED  BY <1>0, <2>1 DEF Loaded, Holds
<1>8. Stream'
  <2>1. \A i \in DOMAIN in' :
          \/ i \in DOMAIN in /\ in'[i] = in[i]
          \/ in'[i].what = "frame" => i = Len(in) + 1 /\ in'[i].n = Len(heard) + 1 /\ in'[i].c = adapter.bus
    BY <1>3, <1>5
  <2>2. worker # "ended" =>
          Len(in) + 1 \in DOMAIN in' /\ in'[Len(in) + 1].what = "frame" /\ in'[Len(in) + 1].n = Len(heard) + 1
    BY <1>3, <1>5
  <2>3. QED  BY <1>0, <1>1, <1>2, <1>5, <2>1, <2>2, StreamHears
<1>9. Exchange'
  <2>1. SUFFICES ASSUME Listening  PROVE Exchange'
    BY <1>0, <1>1 DEF Exchange, Listening, Serving
  <2>2. link.monitoring  BY <1>0, <2>1 DEF Exchange
  <2>3. adapter.bus = link.controller  BY <2>1, <2>2 DEF Exchange
  <2>4. \A i \in DOMAIN in' : in'[i].what = "frame" => in'[i].c = link.controller
    BY <1>3, <1>5, <2>1, <2>3 DEF Exchange
  <2>5. Only(in', {"frame", "stopped", "prompt"})  BY <1>3, <1>5, <2>1, <2>2 DEF Exchange, Only
  <2>6. QED  BY <1>0, <1>1, <2>1, <2>2, <2>4, <2>5 DEF Exchange
<1>10. Phase'
  <2>1. SUFFICES ASSUME Serving  PROVE Phase'
    BY <1>0, <1>1 DEF Phase, Serving
  <2>2. worker \in {"loop", "drain"}  BY <1>0, <2>1, AtRequest DEF Serving
  <2>3. link.receiving => Watching'
    <3>1. SUFFICES ASSUME link.receiving  PROVE Watching'
      OBVIOUS
    <3>2. Watching  BY <2>1, <2>2, <3>1 DEF Phase
    <3>3. out = asks /\ Only(in, {"frame"})  BY <1>0, <3>2 DEF Watching
    <3>4. Only(in', {"frame"})  BY <1>3, <1>5, <3>3 DEF Only
    <3>5. asks' = asks  BY <1>1 DEF asks
    <3>6. QED  BY <1>0, <3>3, <3>4, <3>5 DEF Watching
  <2>4. QED  BY <1>0, <1>1, <2>1, <2>2, <2>3 DEF Phase
<1>11. Closing'
  <2>1. ~Shut /\ ~Shut'  BY <1>0 DEF Shut
  <2>2. Holds(in', "ok") => Holds(in, "ok")  BY <1>3, <1>5 DEF Holds
  <2>3. LastCommand' = LastCommand  BY <1>1 DEF LastCommand
  <2>4. QED  BY <1>0, <1>1, <2>1, <2>2, <2>3 DEF Closing
<1>12. QED  BY <1>6, <1>7, <1>8, <1>9, <1>10, <1>11

\* Where the worker serves and watches, it has only asked for that or for its end.
LEMMA AtWatch ==
  ASSUME StnInv, Serving, worker \in {"loop", "drain"}, out # <<>>
  PROVE  link.monitoring /\ link.receiving /\ Only(out, {"monitor", "interrupt"})
BY DEF StnInv, Listening, Serving, Control, Exchange

\* ... and where it serves a request it waits for the answer to what the adapter takes.
LEMMA AtAnswer ==
  ASSUME StnInv, Serving, worker \in {"next", "answer", "finish"}, out # <<>>
  PROVE  /\ worker \in {"answer", "finish"} /\ Len(out) = 1 /\ in = <<>>
         /\ Only(out, Settings \cup {"request", "counters"})
         /\ server # "released" => out = <<Head(todo)>> /\ lines = <<>> /\ FitsNow
<1> USE DEF StnInv
<1>1. Listening /\ ~link.monitoring  BY AtRequest
<1>2. Len(out) \in Nat /\ Len(out) # 0  BY EmptySeq DEF StnTypes
<1>3. Len(out) = 1 /\ in = <<>> /\ Only(out, Settings \cup {"request", "counters"})
      /\ link.receiving
  <2>1. in = <<>> /\ Only(out, Settings \cup {"request", "counters"}) /\ link.receiving
    BY <1>1 DEF Exchange
  <2>2. Len(out) <= 1  BY <1>1 DEF Exchange
  <2>3. \A i \in Nat : i # 0 /\ i <= 1 => i = 1  OBVIOUS
  <2>4. Len(out) = 1  BY <1>2, <2>2, <2>3, Zenon
  <2>5. QED  BY <2>1, <2>4
<1>4. worker \in {"answer", "finish"}  BY <1>3 DEF Control
<1>5. server # "released" => out = <<Head(todo)>> /\ lines = <<>> /\ FitsNow
  BY <1>4 DEF Phase, Answering
<1>6. QED  BY <1>3, <1>4, <1>5

\* The adapter starts to monitor.
LEMMA MonitorsStep ==
  ASSUME StnInv, Monitors
  PROVE  StnInv'
<1> USE DEF StnInv
<1>0. /\ adapter.mode = "idle" /\ out # <<>> /\ out' = Tail(out) /\ Head(out).what = "monitor"
      /\ adapter' = [adapter EXCEPT !.mode = "monitor", !.open = TRUE]
      /\ UNCHANGED beyond /\ UNCHANGED <<server, in, wire, heard>>
  BY DEF Monitors, Takes
<1>1. UNCHANGED <<asked, wanted, told, host, got, requests, events, errors, stop, worker, job, active,
                  todo, lines, link, release, posted>>
  BY <1>0, BeyondLeaves
<1>2. /\ adapter' \in [mode: {"idle", "monitor"}, bus: Bus, open: BOOLEAN, wake: BOOLEAN]
      /\ adapter'.mode = "monitor" /\ adapter'.bus = adapter.bus /\ adapter'.wake = adapter.wake
  BY <1>0 DEF StnTypes
<1>3. /\ out' \in Seq(Cmd) /\ 1 \in DOMAIN out /\ Head(out) = out[1]
      /\ \A i \in DOMAIN out' : i + 1 \in DOMAIN out /\ out'[i] = out[i + 1]
  BY <1>0, OutTail
<1>4. StnTypes' /\ Control' /\ Tickets' /\ Truth' /\ Naming'
  <2>1. in' \in Seq(Item) /\ heard' \in Seq(Bus)  BY <1>0 DEF StnTypes
  <2>2. server = "released" \/ worker = "ended" => in' = <<>>  BY <1>0 DEF Control
  <2>3. QED  BY <1>0, <1>2, <1>3, <2>1, <2>2, AdapterLeaves
<1>5. Loaded'  BY <1>0, LoadedTakes
<1>6. Closing'
  <2>1. Holds(in', "ok") => Holds(in, "ok")  BY <1>0
  <2>2. QED  BY <1>0, <2>1, ClosingTakes
<1>7. Stream'
  <2>1. Listening' = Listening  BY <1>1 DEF Listening, Serving
  <2>2. QED  BY <1>0, <1>1, <2>1, StreamSame
<1>8. ~Only(out, Settings \cup {"request", "counters"})
  BY <1>0, <1>3 DEF Only, Settings
<1>9. Exchange'
  <2>1. SUFFICES ASSUME Listening  PROVE Exchange'
    BY <1>0, <1>1 DEF Exchange, Listening, Serving
  <2>2. link.monitoring  BY <1>8, <2>1 DEF Exchange
  <2>3. Only(out', {"monitor", "interrupt"})  BY <1>3, <2>1, <2>2 DEF Exchange, Only
  <2>4. QED  BY <1>0, <1>1, <1>2, <2>1, <2>2, <2>3 DEF Exchange
<1>10. Phase'
  <2>1. SUFFICES ASSUME Serving  PROVE Phase'
    BY <1>0, <1>1 DEF Phase, Serving
  <2>2. worker \in {"loop", "drain"}  BY <1>0, <1>8, <2>1, AtAnswer DEF Serving
  <2>3. adapter'.bus = link.controller /\ ~adapter'.wake  BY <1>2, <2>1, <2>2 DEF Phase
  <2>4. link.receiving => Watching'
    <3>1. SUFFICES ASSUME link.receiving, server # "released"  PROVE Watching'
      BY <1>0 DEF Watching
    <3>2. Watching  BY <2>1, <2>2, <3>1 DEF Phase
    <3>3. out = <<Command("monitor")>> \o asks /\ in = <<>>  BY <1>0, <3>1, <3>2 DEF Watching
    <3>4. out' = asks
      <4>1. Command("monitor") \in Cmd /\ Command("interrupt") \in Cmd  BY PlainCommand DEF Commands
      <4>2. asks \in Seq(Cmd)  BY <4>1, OneItem, EmptySeq DEF asks
      <4>3. QED  BY <1>0, <3>3, <4>1, <4>2, FirstOf
    <3>5. Only(in', {"frame"})  BY <1>0, <3>3 DEF Only
    <3>6. asks' = asks  BY <1>1 DEF asks
    <3>7. QED  BY <1>2, <3>4, <3>5, <3>6 DEF Watching
  <2>5. QED  BY <1>1, <2>2, <2>3, <2>4 DEF Phase
<1>11. QED  BY <1>4, <1>5, <1>6, <1>7, <1>9, <1>10

LEMMA ReturnStep ==
  ASSUME StnInv, Return
  PROVE  StnInv'
<1> USE DEF StnInv
<1>0. /\ adapter.mode = "idle" /\ out # <<>> /\ out' = Tail(out) /\ Head(out).what = "interrupt"
      /\ \/ adapter' = adapter /\ Says(<<Prompt>>)
         \/ adapter' = [adapter EXCEPT !.mode = "monitor", !.open = TRUE] /\ UNCHANGED in
      /\ UNCHANGED beyond /\ UNCHANGED <<server, wire, heard>>
  BY DEF Return, Takes
<1>1. UNCHANGED <<asked, wanted, told, host, got, requests, events, errors, stop, worker, job, active,
                  todo, lines, link, release, posted>>
  BY <1>0, BeyondLeaves
<1>2. /\ adapter' \in [mode: {"idle", "monitor"}, bus: Bus, open: BOOLEAN, wake: BOOLEAN]
      /\ adapter'.bus = adapter.bus /\ adapter'.wake = adapter.wake
  BY <1>0 DEF StnTypes
<1>3. /\ out' \in Seq(Cmd) /\ 1 \in DOMAIN out /\ Head(out) = out[1] /\ Len(out) \in Nat
      /\ DOMAIN out = 1..Len(out)
      /\ \A i \in DOMAIN out' : i + 1 \in DOMAIN out /\ out'[i] = out[i + 1]
  BY <1>0, OutTail
<1>4. /\ in' \in Seq(Item) /\ (server = "released" \/ worker = "ended" => in' = <<>>)
      /\ \A i \in DOMAIN in : i \in DOMAIN in' /\ in'[i] = in[i]
      /\ \A i \in DOMAIN in' : (i \in DOMAIN in /\ in'[i] = in[i]) \/ in'[i].what = "prompt"
  <2>1. CASE UNCHANGED in
    BY <2>1 DEF StnTypes, Control
  <2>2. CASE Says(<<Prompt>>)
    <3>1. <<Prompt>> \in Seq(Item) /\ Len(<<Prompt>>) = 1 /\ <<Prompt>>[1] = Prompt /\ Prompt.what = "prompt"
      BY Sayings
    <3>2. \A k \in 1..Len(<<Prompt>>) : <<Prompt>>[k].what = "prompt"  BY <3>1
    <3>3. /\ in' \in Seq(Item)
          /\ \A i \in DOMAIN in : i \in DOMAIN in' /\ in'[i] = in[i]
          /\ \A i \in DOMAIN in' : \/ i \in DOMAIN in /\ in'[i] = in[i]
                                   \/ \E k \in 1..Len(<<Prompt>>) : i = Len(in) + k /\ in'[i] = <<Prompt>>[k]
          /\ \/ server = "serves" /\ worker # "ended"
             \/ (server = "released" \/ worker = "ended") /\ in' = <<>>
      BY <2>2, <3>1, SaysIs
    <3>4. QED  BY <3>2, <3>3
  <2>3. QED  BY <1>0, <2>1, <2>2
<1>5. StnTypes' /\ Control' /\ Tickets' /\ Truth' /\ Naming'
  <2>1. heard' \in Seq(Bus)  BY <1>0 DEF StnTypes
  <2>2. QED  BY <1>0, <1>2, <1>3, <1>4, <2>1, AdapterLeaves
<1>6. Loaded'  BY <1>0, LoadedTakes
<1>7. Closing'
  <2>1. Holds(in', "ok") => Holds(in, "ok")  BY <1>4 DEF Holds
  <2>2. QED  BY <1>0, <2>1, ClosingTakes
<1>8. Stream'
  <2>1. \A i \in DOMAIN in' : (i \in DOMAIN in /\ in'[i] = in[i]) \/ in'[i].what # "frame"  BY <1>4
  <2>2. QED  BY <1>0, <1>1, <1>4, <2>1, StreamSays
<1>9. ~Only(out, Settings \cup {"request", "counters"})
  BY <1>0, <1>3 DEF Only, Settings
<1>10. Exchange'
  <2>1. SUFFICES ASSUME Listening  PROVE Exchange'
    BY <1>0, <1>1 DEF Exchange, Listening, Serving
  <2>2. link.monitoring  BY <1>9, <2>1 DEF Exchange
  <2>3. Only(out', {"monitor", "interrupt"})  BY <1>3, <2>1, <2>2 DEF Exchange, Only
  <2>4. Only(in', {"frame", "stopped", "prompt"})  BY <1>4, <2>1, <2>2 DEF Exchange, Only
  <2>5. \A i \in DOMAIN in' : in'[i].what = "frame" => in'[i].c = link.controller
    BY <1>4, <2>1 DEF Exchange
  <2>6. adapter'.bus = link.controller  BY <1>2, <2>1, <2>2 DEF Exchange
  <2>7. QED  BY <1>1, <2>2, <2>3, <2>4, <2>5, <2>6 DEF Exchange
<1>11. Phase'
  <2>1. SUFFICES ASSUME Serving  PROVE Phase'
    BY <1>0, <1>1 DEF Phase, Serving
  <2>2. worker \in {"loop", "drain"}  BY <1>0, <1>9, <2>1, AtAnswer DEF Serving
  <2>3. adapter'.bus = link.controller /\ ~adapter'.wake  BY <1>2, <2>1, <2>2 DEF Phase
  <2>4. server = "released"
    <3>1. link.receiving  BY <1>0, <2>1, <2>2, AtWatch
    <3>2. Watching  BY <2>1, <2>2, <3>1 DEF Phase
    <3>3. Command("monitor") \in Cmd /\ Command("interrupt") \in Cmd  BY PlainCommand DEF Commands
    <3>4. ASSUME out = <<Command("monitor")>> \o asks  PROVE FALSE
      <4>0. asks \in Seq(Cmd)  BY <3>3, OneItem, EmptySeq DEF asks
      <4>1. out[1] = Command("monitor")  BY <3>3, <3>4, <4>0, FirstOf
      <4>2. QED  BY <1>0, <1>3, <4>1 DEF Command
    <3>5. QED  BY <1>0, <3>2, <3>4 DEF Watching
  <2>5. Watching'  BY <1>0, <2>4 DEF Watching
  <2>6. QED  BY <1>1, <2>2, <2>3, <2>5 DEF Phase
<1>12. QED  BY <1>5, <1>6, <1>7, <1>8, <1>10, <1>11

\* A command is answered: the worker has the whole answer, and will accept it only if the
\* adapter has done what was asked.
LEMMA AnsweredLeaves ==
  ASSUME StnInv, UNCHANGED beyond, server' = server, adapter.mode = "idle", adapter'.mode = "idle",
         out # <<>>, out' = Tail(out), Head(out).what \in Settings \cup {"request", "counters"},
         NEW e \in Item, e # Prompt, e.what # "prompt", Says(<<e, Prompt>>),
         e.what = "frame" => Head(out).what = "request" /\ e.c = adapter.bus,
         Serving /\ out = <<Head(todo)>> /\ FitsNow /\ (e.what # "other" \/ Head(todo).what = "counters") =>
           FitsThen'
  PROVE  Exchange' /\ Phase'
<1> USE DEF StnInv
<1>1. UNCHANGED <<asked, wanted, told, host, got, requests, events, errors, stop, worker, job, active,
                  todo, lines, link, release, posted>>
  BY BeyondLeaves
<1>2. /\ out' \in Seq(Cmd) /\ 1 \in DOMAIN out /\ Head(out) = out[1]
      /\ Len(out) = 1 => out' = <<>>
  BY OutTail
<1>3. Len(out) \in Nat /\ Len(out) # 0  BY EmptySeq DEF StnTypes
<1>4. /\ in = <<>> /\ server # "released" /\ worker # "ended" =>
           in'[1] = e /\ in'[Len(in')] = Prompt /\ in' # <<>> /\ 1 \in DOMAIN in'
      /\ server = "released" => in' = <<>>
      /\ \A i \in DOMAIN in' : \/ i \in DOMAIN in /\ in'[i] = in[i]
                               \/ in'[i] = e /\ in'[i] # Prompt
                               \/ i = Len(in') /\ in'[i] = Prompt /\ in'[i].what = "prompt"
  BY AnswersIs
<1>5. ~Only(out, {"monitor", "interrupt"})  BY <1>2 DEF Only, Settings
<1>6. DOMAIN <<>> = {}  OBVIOUS
<1>7. Exchange'
  <2>1. SUFFICES ASSUME Listening  PROVE Exchange'
    BY <1>1 DEF Exchange, Listening, Serving
  <2>2. ~link.monitoring  BY <1>5, <2>1 DEF Exchange
  <2>3. /\ Len(out) <= 1 /\ in = <<>> /\ link.receiving
        /\ Holds(out, "request") => adapter.bus = link.controller
    BY <2>1, <2>2 DEF Exchange
  <2>4. out' = <<>>
    <3>1. \A n \in Nat : n # 0 /\ n <= 1 => n = 1  OBVIOUS
    <3>2. Len(out) = 1  BY <1>3, <2>3, <3>1, Zenon
    <3>3. QED  BY <1>2, <3>2
  <2>5. \A i \in DOMAIN in' : in'[i].what = "frame" => in'[i].c = link.controller
    <3>1. Head(out).what = "request" => Holds(out, "request")  BY <1>2 DEF Holds
    <3>2. e.what = "frame" => e.c = link.controller  BY <2>3, <3>1
    <3>3. QED  BY <1>4, <1>6, <2>3, <3>2
  <2>6. \A i \in DOMAIN in' : in'[i] = Prompt => i = Len(in')  BY <1>4, <1>6, <2>3
  <2>7. QED  BY <1>1, <2>2, <2>3, <2>4, <2>5, <2>6 DEF Exchange, Only, Holds
<1>8. Phase'
  <2>1. SUFFICES ASSUME Serving  PROVE Phase'
    BY <1>1 DEF Phase, Serving
  <2>2. worker \notin {"loop", "drain"}  BY <1>5, <2>1, AtWatch
  <2>3. worker \in {"answer", "finish"} /\ Len(out) = 1 /\ in = <<>>
        /\ (server # "released" => out = <<Head(todo)>> /\ lines = <<>> /\ FitsNow)
    BY <2>1, <2>2, AtAnswer DEF Serving
  <2>4. todo # <<>> /\ (worker = "finish" => ~Head(todo).last)
    BY <2>1, <2>3 DEF Phase, Answering
  <2>5. CASE server = "released"
    BY <1>1, <2>3, <2>4, <2>5 DEF Phase, Answering
  <2>6. CASE server # "released"
    <3>1. out' = <<>> /\ in' # <<>> /\ in'[Len(in')] = Prompt /\ in'[1] = e /\ 1 \in DOMAIN in'
      BY <1>2, <1>4, <2>3, <2>6
    <3>2. Head(out) = Head(todo)
      <4>1. \A x : <<x>>[1] = x  OBVIOUS
      <4>2. QED  BY <1>2, <2>3, <2>6, <4>1
    <3>3. e.what = "other" => Said("other")'  BY <3>1 DEF Said, Holds
    <3>4. ~Said("other")' \/ Head(todo).what = "counters" => FitsThen'
      BY <2>1, <2>3, <2>6, <3>3
    <3>5. Said("frame")' => Head(todo).what = "request"
      <4>1. lines' = <<>>  BY <1>1, <2>3, <2>6
      <4>2. ASSUME Said("frame")'  PROVE e.what = "frame"
        <5>1. PICK i \in DOMAIN in' : in'[i].what = "frame"  BY <1>6, <4>1, <4>2 DEF Said, Holds
        <5>2. QED  BY <1>4, <1>6, <2>3, <5>1
      <4>3. QED  BY <3>2, <4>2
    <3>6. Answering'  BY <1>1, <2>4, <3>1, <3>4, <3>5 DEF Answering
    <3>7. QED  BY <1>1, <2>3, <3>6 DEF Phase
  <2>7. QED  BY <2>5, <2>6
<1>9. QED  BY <1>7, <1>8

\* A setting that is confirmed has taken effect.
LEMMA SettledIs ==
  ASSUME StnTypes, NEW x \in Cmd, x.what \in Settings
  PROVE  /\ Settled(x) \in [mode: {"idle", "monitor"}, bus: Bus, open: BOOLEAN, wake: BOOLEAN]
         /\ Settled(x).mode = adapter.mode
         /\ Settled(x).bus = IF x.what = "bus" THEN x.c ELSE adapter.bus
         /\ Settled(x).wake = IF x.what = "mode" THEN x.wake ELSE adapter.wake
         /\ x.what = "close" => ~Settled(x).open
<1>1. x.c \in Bus /\ x.wake \in BOOLEAN  BY DEF Cmd
<1>2. CASE x.what = "open"  BY <1>1, <1>2 DEF Settled, StnTypes
<1>3. CASE x.what = "close"  BY <1>1, <1>3 DEF Settled, StnTypes
<1>4. CASE x.what = "bus"  BY <1>1, <1>4 DEF Settled, StnTypes
<1>5. CASE x.what = "mode"  BY <1>1, <1>5 DEF Settled, StnTypes
<1>6. QED  BY <1>2, <1>3, <1>4, <1>5 DEF Settings

LEMMA SetsStep ==
  ASSUME StnInv, Sets
  PROVE  StnInv'
<1> USE DEF StnInv
<1> DEFINE x == Head(out)
<1>0. /\ adapter.mode = "idle" /\ out # <<>> /\ out' = Tail(out) /\ x.what \in Settings
      /\ UNCHANGED beyond /\ UNCHANGED <<server, wire, heard>>
      /\ \/ adapter' = Settled(x) /\ Says(<<Text("ok"), Prompt>>)
         \/ adapter' = adapter /\ Says(<<Text("other"), Prompt>>)
  BY DEF Sets, Takes, Settings, Replies
<1>1. UNCHANGED <<asked, wanted, told, host, got, requests, events, errors, stop, worker, job, active,
                  todo, lines, link, release, posted>>
  BY <1>0, BeyondLeaves
<1>2. /\ out' \in Seq(Cmd) /\ 1 \in DOMAIN out /\ x = out[1] /\ x \in Cmd
      /\ Len(out) = 1 => out' = <<>>
  BY <1>0, OutTail
<1> HIDE DEF x
<1>3. /\ adapter' \in [mode: {"idle", "monitor"}, bus: Bus, open: BOOLEAN, wake: BOOLEAN]
      /\ adapter'.mode = "idle"
  BY <1>0, <1>2, SettledIs DEF StnTypes
<1>4. PICK e \in {Text("ok"), Text("other")} :
        /\ Says(<<e, Prompt>>)
        /\ e = Text("ok") => adapter' = Settled(x)
  <2>1. Text("ok").what = "ok" /\ Text("other").what = "other"  BY Sayings DEF Words
  <2>2. Text("ok") # Text("other")  BY <2>1
  <2>3. QED  BY <1>0, <2>2
<1>5. e \in Item /\ e # Prompt /\ e.what \in {"ok", "other"} /\ (e.what = "ok" => adapter' = Settled(x))
  BY <1>4, Sayings DEF Words
<1>6. /\ in' \in Seq(Item) /\ (server = "released" \/ worker = "ended" => in' = <<>>)
      /\ \A i \in DOMAIN in : i \in DOMAIN in' /\ in'[i] = in[i]
      /\ \A i \in DOMAIN in' : \/ i \in DOMAIN in /\ in'[i] = in[i]
                               \/ in'[i] = e
                               \/ in'[i].what = "prompt"
  BY <1>4, <1>5, AnswersIs
<1>7. StnTypes' /\ Control' /\ Tickets' /\ Truth' /\ Naming'
  <2>1. heard' \in Seq(Bus)  BY <1>0 DEF StnTypes
  <2>2. QED  BY <1>0, <1>2, <1>3, <1>6, <2>1, AdapterLeaves
<1>8. Loaded'  BY <1>0, LoadedTakes
<1>9. Closing'
  <2>1. SUFFICES ASSUME release = "running", worker \in {"next", "answer"}, link.synchronized,
                        Holds(in', "ok"), ~Holds(in, "ok")
                 PROVE  LastCommand /\ Shut'
    BY <1>0, ClosingTakes
  <2>2. e.what = "ok"  BY <1>6, <2>1 DEF Holds
  <2>3. todo # <<>>  BY <1>0, <2>1 DEF Closing, Shut
  <2>4. Only(out, {"monitor", "interrupt", "counters", "close"})
        /\ \A i \in DOMAIN out : out[i].what = "close" => i = Len(out) /\ LastCommand
    BY <2>1, <2>3 DEF Closing
  <2>5. x.what = "close"  BY <1>0, <1>2, <2>4 DEF Only, Settings
  <2>6. Len(out) = 1 /\ LastCommand  BY <1>2, <2>4, <2>5
  <2>7. adapter' = Settled(x) /\ ~Settled(x).open  BY <1>2, <1>5, <2>2, <2>5, SettledIs DEF Settings
  <2>8. QED  BY <1>2, <1>3, <2>6, <2>7 DEF Shut
<1>10. Stream'
  <2>1. \A i \in DOMAIN in' : (i \in DOMAIN in /\ in'[i] = in[i]) \/ in'[i].what # "frame"
    BY <1>5, <1>6
  <2>2. QED  BY <1>0, <1>1, <1>6, <2>1, StreamSays
<1>11. ASSUME Serving, out = <<Head(todo)>>, FitsNow, e.what # "other" \/ Head(todo).what = "counters"
       PROVE  FitsThen'
  <2>1. Head(todo) = x
    <3>1. \A y : <<y>>[1] = y  OBVIOUS
    <3>2. QED  BY <1>2, <1>11, <3>1
  <2>2. e.what = "ok" /\ adapter' = Settled(x)  BY <1>0, <1>5, <1>11, <2>1 DEF Settings
  <2>3. worker \in {"next", "answer", "finish"}
    <3>1. ~Only(out, {"monitor", "interrupt"})  BY <1>0, <1>2 DEF Only, Settings
    <3>2. QED  BY <1>0, <1>11, <3>1, AtWatch DEF Serving
  <2>4. worker \in {"answer", "finish"}  BY <1>0, <1>11, <2>3, AtAnswer
  <2>5. todo # <<>> /\ todo \in Seq(Cmd)  BY <1>11, <2>4 DEF Phase, Answering, StnTypes
  <2>6. job \in Request /\ (job.wake => job.c = 2)  BY <1>11, <2>4 DEF Tickets
  <2>7. wire[job.c] \in Seq(Nat) /\ adapter.wake \in BOOLEAN  BY <2>6 DEF StnTypes, Request
  <2>8. /\ Settled(x).bus = IF x.what = "bus" THEN x.c ELSE adapter.bus
        /\ Settled(x).wake = IF x.what = "mode" THEN x.wake ELSE adapter.wake
    BY <1>0, <1>2, SettledIs
  <2>9. wire[job.c] = IF x.what = "request" THEN Append(wire[job.c], job.ticket) ELSE wire[job.c]
    BY <1>0 DEF Settings
  <2>10. Fits(todo, job, link.controller, adapter, wire[job.c])  BY <1>11 DEF FitsNow
  <2>11. Fits(Tail(todo), job, IF x.last THEN job.c ELSE link.controller, Settled(x), wire[job.c])
    BY <2>1, <2>5, <2>6, <2>7, <2>8, <2>9, <2>10, FitsTail
  <2>12. QED  BY <1>0, <1>1, <2>1, <2>2, <2>11 DEF FitsThen
<1>12. Exchange' /\ Phase'
  <2>1. /\ e.what # "prompt" /\ e.what # "frame"
        /\ Head(out).what \in Settings \cup {"request", "counters"}
    BY <1>0, <1>5 DEF x
  <2>2. QED  BY <1>0, <1>3, <1>4, <1>5, <1>11, <2>1, AnsweredLeaves
<1>13. QED  BY <1>7, <1>8, <1>9, <1>10, <1>12

LEMMA CountsStep ==
  ASSUME StnInv, Counts
  PROVE  StnInv'
<1> USE DEF StnInv
<1> DEFINE e == Text("other")
<1>0. /\ adapter.mode = "idle" /\ out # <<>> /\ out' = Tail(out) /\ Head(out).what = "counters"
      /\ UNCHANGED beyond /\ UNCHANGED <<server, adapter, wire, heard>> /\ Says(<<e, Prompt>>)
  BY DEF Counts, Takes, Replies, device
<1>1. UNCHANGED <<asked, wanted, told, host, got, requests, events, errors, stop, worker, job, active,
                  todo, lines, link, release, posted>>
  BY <1>0, BeyondLeaves
<1>2. /\ out' \in Seq(Cmd) /\ 1 \in DOMAIN out /\ Head(out) = out[1] /\ Head(out) \in Cmd
  BY <1>0, OutTail
<1>3. e \in Item /\ e # Prompt /\ e.what = "other"  BY Sayings DEF Words
<1> HIDE DEF e
<1>4. /\ in' \in Seq(Item) /\ (server = "released" \/ worker = "ended" => in' = <<>>)
      /\ \A i \in DOMAIN in : i \in DOMAIN in' /\ in'[i] = in[i]
      /\ \A i \in DOMAIN in' : (i \in DOMAIN in /\ in'[i] = in[i]) \/ in'[i].what \in {"other", "prompt"}
  BY <1>0, <1>3, AnswersIs
<1>5. StnTypes' /\ Control' /\ Tickets' /\ Truth' /\ Naming'
  <2>1. heard' \in Seq(Bus)
        /\ adapter' \in [mode: {"idle", "monitor"}, bus: Bus, open: BOOLEAN, wake: BOOLEAN]
    BY <1>0 DEF StnTypes
  <2>2. QED  BY <1>0, <1>2, <1>4, <2>1, AdapterLeaves
<1>6. Loaded'  BY <1>0, LoadedTakes
<1>7. Closing'
  <2>1. Holds(in', "ok") => Holds(in, "ok")  BY <1>4 DEF Holds
  <2>2. QED  BY <1>0, <2>1, ClosingTakes
<1>8. Stream'
  <2>1. \A i \in DOMAIN in' : (i \in DOMAIN in /\ in'[i] = in[i]) \/ in'[i].what # "frame"  BY <1>4
  <2>2. QED  BY <1>0, <1>1, <1>4, <2>1, StreamSays
<1>9. ASSUME Serving, out = <<Head(todo)>>, FitsNow
      PROVE  FitsThen'
  <2>1. Head(todo) = Head(out) /\ Head(todo).what = "counters"
    <3>1. \A y : <<y>>[1] = y  OBVIOUS
    <3>2. QED  BY <1>0, <1>2, <1>9, <3>1
  <2>2. ~Only(out, {"monitor", "interrupt"})  BY <1>0, <1>2 DEF Only
  <2>3. worker \in {"answer", "finish"}
    <3>1. worker \in {"next", "answer", "finish"}  BY <1>0, <1>9, <2>2, AtWatch DEF Serving
    <3>2. QED  BY <1>0, <1>9, <3>1, AtAnswer
  <2>4. todo # <<>> /\ todo \in Seq(Cmd)  BY <1>9, <2>3 DEF Phase, Answering, StnTypes
  <2>5. job \in Request /\ (job.wake => job.c = 2)  BY <1>9, <2>3 DEF Tickets
  <2>6. wire[job.c] \in Seq(Nat) /\ adapter.wake \in BOOLEAN  BY <2>5 DEF StnTypes, Request
  <2>7. Fits(todo, job, link.controller, adapter, wire[job.c])  BY <1>9 DEF FitsNow
  <2>8. /\ adapter.bus = IF Head(todo).what = "bus" THEN Head(todo).c ELSE adapter.bus
        /\ adapter.wake = IF Head(todo).what = "mode" THEN Head(todo).wake ELSE adapter.wake
        /\ wire[job.c] = IF Head(todo).what = "request" THEN Append(wire[job.c], job.ticket) ELSE wire[job.c]
    BY <2>1
  <2>9. Fits(Tail(todo), job, IF Head(todo).last THEN job.c ELSE link.controller, adapter, wire[job.c])
    BY <2>4, <2>5, <2>6, <2>7, <2>8, FitsTail
  <2>10. QED  BY <1>0, <1>1, <2>9 DEF FitsThen
<1>10. Exchange' /\ Phase'
  <2>1. e.what # "prompt" /\ e.what # "frame" /\ adapter'.mode = "idle"
        /\ Head(out).what \in Settings \cup {"request", "counters"}
    BY <1>0, <1>3
  <2>2. QED  BY <1>0, <1>3, <1>9, <2>1, AnsweredLeaves
<1>11. QED  BY <1>5, <1>6, <1>7, <1>8, <1>10

\* The request that the adapter takes is in progress, or it is the one that a failure names.
LEMMA RequestTaken ==
  ASSUME StnInv, out # <<>>, Head(out).what = "request"
  PROVE  LET x == Head(out)
         IN /\ x = out[1] /\ x \in Cmd /\ x.c \in Buses /\ x.ticket \in 1..asked[x.c] /\ Beyond(wire[x.c], x.ticket)
            /\ in = <<>> /\ adapter.bus = x.c /\ adapter.wake = x.wake
            /\ Named.c = x.c /\ Named.ticket = x.ticket
            /\ Holds(out, "request") /\ ~Only(out, {"monitor", "interrupt"})
            /\ Serving => /\ worker \in {"answer", "finish"} /\ job \in Request
                          /\ job.c = x.c /\ job.ticket = x.ticket
<1> USE DEF StnInv
<1> DEFINE x == Head(out)
<1>1. x = out[1] /\ 1 \in DOMAIN out /\ x \in Cmd
  <2>1. out \in Seq(Cmd)  BY DEF StnTypes
  <2>2. Head(out) = out[1] /\ Head(out) \in Cmd /\ DOMAIN out = 1..Len(out) /\ Len(out) \in Nat /\ Len(out) # 0
    BY <2>1, HeadTailProperties, LenProperties, EmptySeq
  <2>3. QED  BY <2>2
<1> HIDE DEF x
<1>2. x.what = "request"  BY DEF x
<1>3. /\ x.c \in Buses /\ x.ticket \in 1..asked[x.c] /\ Beyond(wire[x.c], x.ticket)
      /\ in = <<>> /\ adapter.bus = x.c /\ adapter.wake = x.wake
      /\ Named.c = x.c /\ Named.ticket = x.ticket
      /\ worker \in {"next", "answer", "finish", "cleanup", "release", "ended"}
  BY <1>1, <1>2 DEF Loaded
<1>4. Holds(out, "request") /\ ~Only(out, {"monitor", "interrupt"})
  BY <1>1, <1>2 DEF Holds, Only
<1>5. ASSUME Serving
      PROVE  worker \in {"answer", "finish"} /\ job \in Request /\ job.c = x.c /\ job.ticket = x.ticket
  <2>1. worker \in {"next", "answer", "finish"}  BY <1>3, <1>5 DEF Serving
  <2>2. worker \in {"answer", "finish"}  BY <1>5, <2>1, AtAnswer
  <2>3. active = job /\ job \in Request  BY <1>5, <2>2 DEF Naming, Tickets
  <2>4. Named = active  BY <1>5 DEF Named, Control
  <2>5. QED  BY <1>3, <2>2, <2>3, <2>4
<1>6. QED  BY <1>1, <1>3, <1>4, <1>5 DEF x

\* The bus carries the request, which was the next one of its controller.
LEMMA CarriedLeaves ==
  ASSUME StnInv, UNCHANGED beyond, out # <<>>, Head(out).what = "request",
         wire' = [wire EXCEPT ![Head(out).c] = Append(@, Head(out).ticket)] \/ wire' = wire
  PROVE  Tickets' /\ Truth' /\ Naming' /\ wire' \in [Buses -> Seq(Nat)]
<1> USE DEF StnInv
<1> DEFINE x == Head(out)
<1>1. UNCHANGED <<asked, wanted, told, host, got, requests, events, errors, stop, worker, job, active,
                  todo, lines, link, release, posted>>
  BY BeyondLeaves
<1>2. /\ x.c \in Buses /\ x.ticket \in 1..asked[x.c]
      /\ Named.c = x.c /\ Named.ticket = x.ticket
      /\ Serving => worker \in {"answer", "finish"} /\ job.c = x.c /\ job.ticket = x.ticket
  BY RequestTaken
<1>3. x.ticket \in Nat /\ asked[x.c] \in Nat  BY <1>2 DEF StnTypes
<1> HIDE DEF x
<1>4. CASE wire' = wire
  BY <1>1, <1>4 DEF Tickets, Truth, Naming, FailureNamed, Serving, StnTypes
<1>5. CASE wire' = [wire EXCEPT ![x.c] = Append(wire[x.c], x.ticket)]
  <2>1. wire \in [Buses -> Seq(Nat)]  BY DEF StnTypes
  <2>2. /\ wire' \in [Buses -> Seq(Nat)]
        /\ \A c \in Buses : wire'[c] = IF c = x.c THEN Append(wire[c], x.ticket) ELSE wire[c]
    <3>1. Append(wire[x.c], x.ticket) \in Seq(Nat)  BY <1>2, <1>3, <2>1
    <3>2. QED  BY <1>2, <1>5, <2>1, <3>1
  <2>3. ASSUME NEW c \in Buses
        PROVE  /\ \A i \in DOMAIN wire[c] : i \in DOMAIN wire'[c] /\ wire'[c][i] = wire[c][i]
               /\ \A i \in DOMAIN wire'[c] :
                    \/ i \in DOMAIN wire[c] /\ wire'[c][i] = wire[c][i]
                    \/ c = x.c /\ wire'[c][i] = x.ticket
    <3>1. CASE c = x.c
      <4>1. wire[c] \in Seq(Nat) /\ wire'[c] = Append(wire[c], x.ticket)  BY <2>1, <2>2, <3>1
      <4>2. /\ Len(wire'[c]) = Len(wire[c]) + 1 /\ Len(wire[c]) \in Nat /\ wire'[c] \in Seq(Nat)
            /\ wire'[c][Len(wire[c]) + 1] = x.ticket
            /\ \A i \in 1..Len(wire[c]) : wire'[c][i] = wire[c][i]
        BY <1>3, <4>1, AppendProperties
      <4>3. DOMAIN wire[c] = 1..Len(wire[c]) /\ DOMAIN wire'[c] = 1..(Len(wire[c]) + 1)
        BY <4>1, <4>2, LenProperties
      <4>4. \A i \in 1..(Len(wire[c]) + 1) : i \in 1..Len(wire[c]) \/ i = Len(wire[c]) + 1
        BY <4>2
      <4>5. \A i \in 1..Len(wire[c]) : i \in 1..(Len(wire[c]) + 1)  BY <4>2
      <4>6. QED  BY <3>1, <4>2, <4>3, <4>4, <4>5
    <3>2. CASE c # x.c
      <4>1. wire'[c] = wire[c]  BY <2>2, <3>2
      <4>2. QED  BY <4>1
    <3>3. QED  BY <3>1, <3>2
  <2>4. Tickets'
    <3>1. \A c \in Buses : \A i \in DOMAIN wire'[c] : wire'[c][i] \in 1..asked'[c]
      <4>1. SUFFICES ASSUME NEW c \in Buses, NEW i \in DOMAIN wire'[c]
                     PROVE  wire'[c][i] \in 1..asked[c]
        BY <1>1
      <4>2. CASE i \in DOMAIN wire[c] /\ wire'[c][i] = wire[c][i]  BY <4>2 DEF Tickets
      <4>3. CASE c = x.c /\ wire'[c][i] = x.ticket  BY <4>3, <1>2
      <4>4. QED  BY <2>3, <4>2, <4>3
    <3>2. ASSUME Serving, NEW i \in DOMAIN requests
          PROVE  Beyond(wire'[requests[i].c], requests[i].ticket)
      <4>1. requests[i] \in Request
        <5>1. requests \in Seq(Request)  BY DEF StnTypes
        <5>2. QED  BY <5>1, LenProperties, ElementOfSeq
      <4>2. requests[i].c \in Buses  BY <4>1 DEF Request
      <4>3. Beyond(wire[requests[i].c], requests[i].ticket)
            /\ (requests[i].c = job.c => job.ticket < requests[i].ticket)
        BY <3>2 DEF Tickets
      <4>4. requests[i].c = x.c => x.ticket < requests[i].ticket  BY <1>2, <3>2, <4>3
      <4>5. SUFFICES ASSUME NEW k \in DOMAIN wire'[requests[i].c]
                     PROVE  wire'[requests[i].c][k] < requests[i].ticket
        BY DEF Beyond
      <4>6. CASE k \in DOMAIN wire[requests[i].c] /\ wire'[requests[i].c][k] = wire[requests[i].c][k]
        BY <4>3, <4>6 DEF Beyond
      <4>7. CASE requests[i].c = x.c /\ wire'[requests[i].c][k] = x.ticket  BY <4>4, <4>7
      <4>8. QED  BY <2>3, <4>2, <4>6, <4>7
    <3>3. Serving => worker # "drain"  BY <1>2
    <3>4. Serving' = Serving  BY <1>1 DEF Serving
    <3>5. ASSUME Serving, NEW i \in DOMAIN requests
          PROVE  LET r == requests[i]
                 IN /\ r.ticket \in 1..asked[r.c] /\ (r.wake => r.c = 2)
                    /\ r.c = job.c => job.ticket < r.ticket
                    /\ \A j \in 1..(i - 1) : requests[j].c = r.c => requests[j].ticket < r.ticket
      BY <3>5 DEF Tickets
    <3>6. Serving => IF worker = "loop" THEN job = None
                     ELSE job \in Request /\ job.ticket \in 1..asked[job.c] /\ (job.wake => job.c = 2)
      BY DEF Tickets
    <3>7. QED  BY <1>1, <3>1, <3>2, <3>3, <3>4, <3>5, <3>6 DEF Tickets
  <2>5. Truth'
    <3>1. SUFFICES ASSUME NEW i \in DOMAIN events, events[i].what = "completed"
                   PROVE  events[i].c \in Buses /\ Carried(wire'[events[i].c], events[i].n)
      BY <1>1 DEF Truth
    <3>2. events[i].c \in Buses /\ Carried(wire[events[i].c], events[i].n)  BY <3>1 DEF Truth
    <3>3. PICK k \in DOMAIN wire[events[i].c] : wire[events[i].c][k] = events[i].n  BY <3>2 DEF Carried
    <3>4. k \in DOMAIN wire'[events[i].c] /\ wire'[events[i].c][k] = events[i].n  BY <2>3, <3>2, <3>3
    <3>5. QED  BY <3>2, <3>4 DEF Carried
  <2>6. Naming'
    <3>1. Named' = Named /\ Serving' = Serving  BY <1>1 DEF Named, Serving
    <3>2. \A c \in Buses : \A i \in DOMAIN wire[c] :
            <<c, wire[c][i]>> \in posted \/ (Named.c = c /\ Named.ticket = wire[c][i])
      BY DEF Naming, FailureNamed, Named
    <3>3. ASSUME NEW c \in Buses, NEW i \in DOMAIN wire'[c]
          PROVE  <<c, wire'[c][i]>> \in posted \/ (Named.c = c /\ Named.ticket = wire'[c][i])
      <4>1. CASE i \in DOMAIN wire[c] /\ wire'[c][i] = wire[c][i]  BY <3>2, <4>1
      <4>2. CASE c = x.c /\ wire'[c][i] = x.ticket  BY <1>2, <4>2
      <4>3. QED  BY <2>3, <4>1, <4>2
    <3>4. FailureNamed'  BY <1>1, <3>1, <3>3 DEF FailureNamed, Named
    <3>5. QED  BY <1>1, <3>1, <3>4 DEF Naming
  <2>7. QED  BY <2>2, <2>4, <2>5, <2>6
<1>6. QED  BY <1>4, <1>5 DEF x

LEMMA CarriesStep ==
  ASSUME StnInv, Carries
  PROVE  StnInv'
<1> USE DEF StnInv
<1> DEFINE x == Head(out)
           f == [what |-> "frame", c |-> adapter.bus, n |-> Len(heard) + 1]
           carried == IF x.c = adapter.bus /\ x.wake = adapter.wake THEN x.ticket ELSE 0
           sent == wire' = [wire EXCEPT ![adapter.bus] = Append(@, carried)]
<1>0. /\ adapter.mode = "idle" /\ out # <<>> /\ out' = Tail(out) /\ x.what = "request"
      /\ UNCHANGED beyond /\ UNCHANGED <<server, adapter>>
      /\ \/ sent /\ Says(<<Text("nodata"), Prompt>>) /\ UNCHANGED heard
         \/ /\ sent /\ server = "serves" /\ heard' = Append(heard, adapter.bus)
            /\ Says(<<f, Prompt>>)
         \/ (sent \/ UNCHANGED wire) /\ Says(<<Text("other"), Prompt>>) /\ UNCHANGED heard
  BY DEF Carries, Takes, Replies
<1>1. UNCHANGED <<asked, wanted, told, host, got, requests, events, errors, stop, worker, job, active,
                  todo, lines, link, release, posted>>
  BY <1>0, BeyondLeaves
<1>2. /\ x = out[1] /\ x \in Cmd /\ x.c \in Buses /\ x.ticket \in 1..asked[x.c]
      /\ in = <<>> /\ adapter.bus = x.c /\ adapter.wake = x.wake
      /\ Holds(out, "request") /\ ~Only(out, {"monitor", "interrupt"})
      /\ Serving => /\ worker \in {"answer", "finish"} /\ job \in Request
                    /\ job.c = x.c /\ job.ticket = x.ticket
  BY <1>0, RequestTaken
<1>3. sent => wire' = [wire EXCEPT ![x.c] = Append(@, x.ticket)]  BY <1>2
<1>4. /\ heard \in Seq(Bus) /\ Len(heard) \in Nat /\ adapter.bus \in Bus
      /\ adapter' \in [mode: {"idle", "monitor"}, bus: Bus, open: BOOLEAN, wake: BOOLEAN]
  BY <1>0 DEF StnTypes
<1>5. f \in Item /\ f.what = "frame" /\ f.c = adapter.bus /\ f.n = Len(heard) + 1 /\ f # Prompt
  <2>1. f \in Item /\ f.what = "frame" /\ f.c = adapter.bus /\ f.n = Len(heard) + 1
    BY <1>4 DEF Item, Words
  <2>2. QED  BY <2>1, Sayings
<1> HIDE DEF x, f, sent
<1>6. PICK e \in {Text("nodata"), f, Text("other")} :
        /\ Says(<<e, Prompt>>)
        /\ e.what = "other" \/ sent
        /\ sent \/ wire' = wire
        /\ IF e.what = "frame" THEN server = "serves" /\ e = f /\ heard' = Append(heard, adapter.bus)
           ELSE heard' = heard
  <2>1. Text("nodata").what = "nodata" /\ Text("other").what = "other"  BY Sayings DEF Words
  <2>2. CASE sent /\ Says(<<Text("nodata"), Prompt>>) /\ UNCHANGED heard  BY <2>1, <2>2
  <2>3. CASE sent /\ server = "serves" /\ heard' = Append(heard, adapter.bus) /\ Says(<<f, Prompt>>)
    BY <1>5, <2>3
  <2>4. CASE (sent \/ UNCHANGED wire) /\ Says(<<Text("other"), Prompt>>) /\ UNCHANGED heard
    BY <2>1, <2>4
  <2>5. QED  BY <1>0, <2>2, <2>3, <2>4
<1>7. e \in Item /\ e # Prompt /\ e.what \in {"frame", "nodata", "other"}
      /\ (e.what = "frame" => e.c = adapter.bus /\ e.n = Len(heard) + 1)
  BY <1>5, <1>6, Sayings DEF Words
<1>8. /\ in' \in Seq(Item) /\ (server = "released" \/ worker = "ended" => in' = <<>>)
      /\ server # "released" /\ worker # "ended" => Len(in) + 1 \in DOMAIN in' /\ in'[Len(in) + 1] = e
      /\ \A i \in DOMAIN in : i \in DOMAIN in' /\ in'[i] = in[i]
      /\ \A i \in DOMAIN in' : \/ i \in DOMAIN in /\ in'[i] = in[i]
                               \/ i = Len(in) + 1 /\ in'[i] = e
                               \/ in'[i].what = "prompt"
  BY <1>6, <1>7, AnswersIs
<1>9. heard' \in Seq(Bus)  BY <1>4, <1>6, Appended
<1>10. out' \in Seq(Cmd)  BY <1>0, OutTail
<1>11. Tickets' /\ Truth' /\ Naming' /\ wire' \in [Buses -> Seq(Nat)]
  <2>1. wire' = [wire EXCEPT ![Head(out).c] = Append(@, Head(out).ticket)] \/ wire' = wire
    BY <1>3, <1>6 DEF x
  <2>2. QED  BY <1>0, <2>1, CarriedLeaves DEF x
<1>12. StnTypes'
  <2>1. wire' \in [Buses -> Seq(Nat)]  BY <1>11
  <2>2. in' \in Seq(Item)  BY <1>8
  <2>3. UNCHANGED adapter  BY <1>0
  <2>4. release' \in {"none", "running", "confirmed", "unconfirmed"} /\ server' = server
    BY <1>0, <1>1 DEF StnTypes
  <2>5. StnTypes  OBVIOUS
  <2>6. QED  BY ONLY <2>5, <1>1, <1>9, <1>10, <2>1, <2>2, <2>3, <2>4 DEF StnTypes
<1>13. Control'  BY <1>0, <1>1, <1>8 DEF Control, Serving
<1>14. Loaded'  BY <1>0, LoadedTakes
<1>15. Closing'
  <2>1. Holds(in', "ok") => Holds(in, "ok")  BY <1>7, <1>8 DEF Holds
  <2>2. QED  BY <1>0, <2>1, ClosingTakes
<1>16. Stream'
  <2>1. CASE e.what = "frame"
    <3>1. \A i \in DOMAIN in' :
            \/ i \in DOMAIN in /\ in'[i] = in[i]
            \/ in'[i].what = "frame" => i = Len(in) + 1 /\ in'[i].n = Len(heard) + 1 /\ in'[i].c = adapter.bus
      BY <1>7, <1>8
    <3>2. worker # "ended" =>
            Len(in) + 1 \in DOMAIN in' /\ in'[Len(in) + 1].what = "frame" /\ in'[Len(in) + 1].n = Len(heard) + 1
      BY <1>6, <1>7, <1>8, <2>1
    <3>3. heard' = Append(heard, adapter.bus)  BY <1>6, <2>1
    <3>4. QED  BY <1>0, <1>1, <1>4, <1>8, <3>1, <3>2, <3>3, StreamHears
  <2>2. CASE e.what # "frame"
    <3>1. \A i \in DOMAIN in' : (i \in DOMAIN in /\ in'[i] = in[i]) \/ in'[i].what # "frame"
      BY <1>8, <2>2
    <3>2. heard' = heard  BY <1>6, <2>2
    <3>3. QED  BY <1>0, <1>1, <1>8, <3>1, <3>2, StreamSays
  <2>3. QED  BY <2>1, <2>2
<1>17. ASSUME Serving, out = <<Head(todo)>>, FitsNow, e.what # "other" \/ Head(todo).what = "counters"
       PROVE  FitsThen'
  <2>1. Head(todo) = x /\ x.what = "request"
    <3>1. \A y : <<y>>[1] = y  OBVIOUS
    <3>2. QED  BY <1>0, <1>2, <1>17, <3>1
  <2>2. worker \in {"answer", "finish"} /\ job \in Request /\ job.c = x.c /\ job.ticket = x.ticket
    BY <1>2, <1>17
  <2>3. todo # <<>> /\ todo \in Seq(Cmd)  BY <1>17, <2>2 DEF Phase, Answering, StnTypes
  <2>4. job.wake => job.c = 2  BY <1>17, <2>2 DEF Tickets
  <2>5. wire \in [Buses -> Seq(Nat)] /\ wire[job.c] \in Seq(Nat) /\ adapter.wake \in BOOLEAN
    BY <1>2, <2>2 DEF StnTypes
  <2>6. sent  BY <1>6, <1>17, <2>1
  <2>7. wire'[job.c] = Append(wire[job.c], job.ticket)  BY <1>2, <1>3, <2>2, <2>5, <2>6
  <2>8. Fits(todo, job, link.controller, adapter, wire[job.c])  BY <1>17 DEF FitsNow
  <2>9. /\ adapter.bus = IF Head(todo).what = "bus" THEN Head(todo).c ELSE adapter.bus
        /\ adapter.wake = IF Head(todo).what = "mode" THEN Head(todo).wake ELSE adapter.wake
        /\ wire'[job.c] = IF Head(todo).what = "request" THEN Append(wire[job.c], job.ticket) ELSE wire[job.c]
    BY <2>1, <2>7
  <2>10. Fits(Tail(todo), job, IF Head(todo).last THEN job.c ELSE link.controller, adapter, wire'[job.c])
    BY <2>2, <2>3, <2>4, <2>5, <2>8, <2>9, FitsTail
  <2>11. QED  BY <1>0, <1>1, <2>10 DEF FitsThen
<1>18. Exchange' /\ Phase'
  <2>1. /\ e.what # "prompt" /\ adapter'.mode = "idle"
        /\ Head(out).what \in Settings \cup {"request", "counters"}
        /\ e.what = "frame" => Head(out).what = "request" /\ e.c = adapter.bus
    BY <1>0, <1>7 DEF x
  <2>2. QED  BY <1>0, <1>6, <1>7, <1>17, <2>1, AnsweredLeaves
<1>19. QED  BY <1>11, <1>12, <1>13, <1>14, <1>15, <1>16, <1>18

-----------------------------------------------------------------------------
(***************************************************************************)
(* The invariant, and what follows from it.                                *)
(***************************************************************************)

LEMMA InitInv ==
  ASSUME Init
  PROVE  StnInv
<1>1. StnTypes
  <2>1. /\ \A c \in Bus : [Quiet EXCEPT !.controller = c] \in
               [receiving: BOOLEAN, monitoring: BOOLEAN, synchronized: BOOLEAN, controller: Bus]
    BY DEF Quiet
  <2>2. link \in [receiving: BOOLEAN, monitoring: BOOLEAN, synchronized: BOOLEAN, controller: Bus]
    BY <2>1 DEF Init, Bus
  <2>3. QED  BY <2>2 DEF Init, StnTypes, Bus
<1>2. link.receiving = FALSE /\ link.monitoring = FALSE /\ link.synchronized = TRUE  BY DEF Init, Quiet
<1>3. Control  BY <1>2 DEF Init, Control, Serving
<1>4. Tickets  BY DEF Init, Tickets, Serving
<1>5. Phase  BY <1>2 DEF Init, Phase, Serving
<1>6. Exchange  BY <1>2 DEF Init, Exchange, Only, Holds
<1>7. Loaded /\ Truth  BY DEF Init, Loaded, Truth
<1>8. Naming  BY DEF Init, Naming, FailureNamed, Serving
<1>9. Stream  BY DEF Init, Stream, Rising, Whole, Reported, Underway
<1>10. Closing  BY DEF Init, Closing
<1>11. QED  BY <1>1, <1>3, <1>4, <1>5, <1>6, <1>7, <1>8, <1>9, <1>10 DEF StnInv

LEMMA NextInv ==
  ASSUME StnInv, [Next]_vars
  PROVE  StnInv'
<1>1. CASE \E c \in Buses : Transmit(c)  BY <1>1, TransmitStep
<1>2. CASE \E c \in Buses : Withdraw(c)  BY <1>2, HostSteps
<1>3. CASE Poll  BY <1>3, HostSteps, PollTakeStep DEF Poll
<1>4. CASE Close \/ Closed  BY <1>4, HostSteps
<1>5. CASE Worker \/ Breaks
  BY <1>5, StopsStep, TakeStep, MonitorStep, ListenStep, DrainStep, SendStep, FinishStep, AnswerStep,
     CompleteStep, CleanupStep, ReleaseStep, WaitFailures DEF Worker
<1>6. CASE ServerEnds  BY <1>6, ServerEndsStep
<1>7. CASE Adapter
  BY <1>7, HearStep, InterruptedStep, MonitorsStep, ReturnStep, SetsStep, CountsStep, CarriesStep DEF Adapter
<1>8. CASE UNCHANGED vars
  <2>1. UNCHANGED <<asked, told, got, requests, events, errors, workerSide>> /\ wanted' = wanted
    BY <1>8 DEF vars, firmware, bridge, channels, workerSide
  <2>2. wanted' \in [Buses -> Nat]  BY <2>1 DEF StnInv, StnTypes
  <2>3. QED  BY <2>1, <2>2, HostIdles
<1>9. QED  BY <1>1, <1>2, <1>3, <1>4, <1>5, <1>6, <1>7, <1>8 DEF Next

\* The invariant holds: wherever the worker, the line and the adapter are, what is under
\* way is what the worker will take it for, or it is not looked at any more.
THEOREM StnInvariant == Spec => []StnInv
<1>1. Init => StnInv  BY InitInv
<1>2. StnInv /\ [Next]_vars => StnInv'  BY NextInv
<1>3. QED  BY <1>1, <1>2, PTL DEF Spec

LEMMA FramesTell ==
  ASSUME StnInv
  PROVE  FramesTrue
<1> USE DEF StnInv
<1>1. SUFFICES ASSUME NEW i \in DOMAIN events, events[i].what = "received"
               PROVE  LET e == events[i]
                          before(n) == \E j \in 1..(i - 1) : events[j].what = "received" /\ events[j].n = n
                      IN /\ e.n \in DOMAIN heard /\ e.c = heard[e.n]
                         /\ e.n > got /\ \A n \in e.n .. Len(heard) : ~before(n)
                         /\ errors = <<>> => \A n \in (got + 1) .. (e.n - 1) : before(n)
  BY DEF FramesTrue
<1>2. /\ DOMAIN events = 1..Len(events) /\ Len(events) \in Nat
      /\ DOMAIN heard = 1..Len(heard) /\ Len(heard) \in Nat /\ got \in Nat
  BY LenProperties DEF StnTypes
<1>3. \A k \in DOMAIN events : events[k].what = "received" =>
        /\ events[k].n \in 1..Len(heard) /\ events[k].n > got /\ events[k].c = heard[events[k].n]
        /\ \A j \in 1..(k - 1) : events[j].what = "received" => events[j].n < events[k].n
  BY DEF Stream, Rising
<1>4. ASSUME NEW n \in events[i].n .. Len(heard), NEW j \in 1..(i - 1),
             events[j].what = "received", events[j].n = n
      PROVE  FALSE
  <2>1. events[j].n < events[i].n /\ events[i].n \in 1..Len(heard)  BY <1>1, <1>3, <1>4
  <2>2. QED  BY <1>2, <1>4, <2>1
<1>5. ASSUME errors = <<>>, NEW n \in (got + 1) .. (events[i].n - 1)
      PROVE  \E j \in 1..(i - 1) : events[j].what = "received" /\ events[j].n = n
  <2>1. Reported(events, n)  BY <1>1, <1>5 DEF Stream, Whole
  <2>2. PICK j \in DOMAIN events : events[j].what = "received" /\ events[j].n = n  BY <2>1 DEF Reported
  <2>3. n < events[i].n /\ n \in Nat /\ events[i].n \in Nat  BY <1>1, <1>2, <1>3, <1>5
  <2>4. j # i  BY <2>2, <2>3
  <2>5. ~(i \in 1..(j - 1))
    <3>1. i \in 1..(j - 1) => events[i].n < n  BY <1>1, <1>3, <2>2
    <3>2. QED  BY <2>3, <3>1
  <2>6. j \in 1..(i - 1)  BY <1>1, <1>2, <2>2, <2>4, <2>5
  <2>7. QED  BY <2>2, <2>6
<1>6. QED  BY <1>1, <1>2, <1>3, <1>4, <1>5

\* What is told is true: the emulator receives the frames that were heard, each once, in
\* order and of its own bus, and none is missing before a failure (`receive`); a request
\* that the bus has and nothing reports is the one a failure names (`active_tx`); and a
\* confirmed clean-up has closed the protocol (`cleanup`).
THEOREM StnReportsTrue == Spec => []ReportsTrue
<1>1. StnInv => ReportsTrue
  <2>1. ASSUME StnInv  PROVE FailureNamed /\ CleanupTrue
    BY <2>1 DEF StnInv, Naming, Closing, Shut, CleanupTrue
  <2>2. QED  BY <2>1, FramesTell DEF ReportsTrue
<1>2. QED  BY <1>1, StnInvariant, PTL

\* A step of the bridge is one of the promise, or none of its business.
LEMMA StepKept ==
  ASSUME StnInv, [Next]_vars
  PROVE  [Promise!Next]_(Promise!vars)
<1> USE DEF StnInv
<1> DEFINE Same == UNCHANGED <<asked, wanted, wire, told>>
<1>1. Same => [Promise!Next]_(Promise!vars)  BY DEF Promise!vars
<1>2. ASSUME NEW c \in Buses, Transmit(c)  PROVE Promise!Next
  <2>1. Promise!Ask(c)  BY <1>2 DEF Transmit, Promise!Ask, workerSide, device
  <2>2. QED  BY <2>1 DEF Promise!Next
<1>3. ASSUME NEW c \in Buses, Withdraw(c)  PROVE Promise!Next
  <2>1. Promise!Withdraw(c)  BY <1>3 DEF Withdraw, Promise!Withdraw, workerSide, device
  <2>2. QED  BY <2>1 DEF Promise!Next
<1>4. CASE PollTake
  <2> DEFINE e == Head(events)
  <2>1. UNCHANGED <<asked, wire>>
    BY <1>4 DEF PollTake, workerSide, device, firmware
  <2>2. CASE e.what = "received" \/ wanted[e.c] # e.n
    BY <1>1, <1>4, <2>1, <2>2 DEF PollTake, firmware
  <2>3. CASE e.what # "received" /\ wanted[e.c] = e.n
    <3>1. 1 \in DOMAIN events /\ e = events[1] /\ e \in Event
      <4>1. events \in Seq(Event) /\ events # <<>>  BY <1>4 DEF PollTake, StnTypes
      <4>2. /\ e = events[1] /\ e \in Event /\ DOMAIN events = 1..Len(events)
            /\ Len(events) \in Nat /\ Len(events) # 0
        BY <4>1, HeadTailProperties, LenProperties, EmptySeq
      <4>3. QED  BY <4>2
    <3>2. e.what = "completed"  BY <2>3, <3>1 DEF Event
    <3>3. e.c \in Buses /\ Carried(wire[e.c], e.n)  BY <3>1, <3>2 DEF Truth
    <3>4. wanted[e.c] \in Promise!OnWire(e.c)  BY <2>3, <3>3 DEF Carried, Promise!OnWire
    <3>5. /\ told' = [told EXCEPT ![e.c] = wanted[e.c]] /\ wanted' = [wanted EXCEPT ![e.c] = 0]
      BY <1>4, <2>3 DEF PollTake
    <3>6. Promise!Tell(e.c)  BY <2>1, <3>4, <3>5 DEF Promise!Tell
    <3>7. QED  BY <3>3, <3>6 DEF Promise!Next
  <2>4. QED  BY <2>2, <2>3
<1>5. CASE PollFails \/ PollBegin \/ PollEnd \/ Close \/ Closed
  BY <1>1, <1>5 DEF PollFails, PollBegin, PollEnd, Close, Closed, firmware, workerSide, device
<1>6. CASE Worker \/ Breaks
  <2>1. UNCHANGED <<firmware, device>>
    BY <1>6 DEF Worker, Breaks, Stops, Take, Monitor, Listen, Drain, Send, Finish, Answer, Complete,
                Cleanup, Release, ReadFails, TimesOut, FinishTimesOut, others
  <2>2. QED  BY <1>1, <2>1 DEF firmware, device
<1>7. CASE ServerEnds  BY <1>1, <1>7, BeyondLeaves DEF ServerEnds, device
<1>8. CASE Hear \/ Interrupted \/ Monitors \/ Return \/ Sets \/ Counts
  <2>1. UNCHANGED beyond /\ UNCHANGED wire
    BY <1>8 DEF Hear, Interrupted, Monitors, Return, Sets, Counts, Takes, device
  <2>2. QED  BY <1>1, <2>1, BeyondLeaves
<1>9. CASE Carries
  <2> DEFINE x == Head(out)
  <2>1. /\ out # <<>> /\ x.what = "request" /\ UNCHANGED beyond
        /\ LET carried == IF x.c = adapter.bus /\ x.wake = adapter.wake THEN x.ticket ELSE 0
           IN wire' = [wire EXCEPT ![adapter.bus] = Append(@, carried)] \/ wire' = wire
    BY <1>9 DEF Carries, Takes
  <2>2. /\ x.c \in Buses /\ x.ticket \in 1..asked[x.c] /\ Beyond(wire[x.c], x.ticket)
        /\ adapter.bus = x.c /\ adapter.wake = x.wake
    BY <2>1, RequestTaken
  <2> HIDE DEF x
  <2>3. CASE wire' = wire  BY <1>1, <2>1, <2>3, BeyondLeaves
  <2>4. CASE wire' = [wire EXCEPT ![x.c] = Append(@, x.ticket)]
    <3>1. \A j \in Promise!OnWire(x.c) : j < x.ticket  BY <2>2 DEF Beyond, Promise!OnWire
    <3>2. UNCHANGED <<asked, wanted, told>>  BY <2>1, BeyondLeaves
    <3>3. Promise!Carry(x.c, x.ticket)  BY <2>4, <3>1, <3>2 DEF Promise!Carry
    <3>4. QED  BY <2>2, <3>3 DEF Promise!Next
  <2>5. QED  BY <2>1, <2>2, <2>3, <2>4
<1>10. CASE UNCHANGED vars  BY <1>1, <1>10 DEF vars, firmware, device
<1>11. QED
  BY <1>2, <1>3, <1>4, <1>5, <1>6, <1>7, <1>8, <1>9, <1>10 DEF Next, Poll, Adapter

\* The bridge keeps the promise of CanPromise: whatever the adapter answers, it is given a
\* request once and on its own bus (`select_bus`, `transmit_blocking`), and the firmware is
\* told only of the request it still wants, when the bus has carried it.
THEOREM StnKeepsPromise == Spec => StnKept
<1>1. Init => Promise!Init  BY DEF Init, Promise!Init
<1>2. StnInv /\ [Next]_vars => [Promise!Next]_(Promise!vars)  BY StepKept
<1>3. QED  BY <1>1, <1>2, StnInvariant, PTL DEF Spec, StnKept, Promise!Spec
=============================================================================
