---------------------------- MODULE MCPsosKernel ----------------------------
(***************************************************************************)
(* Instances of PsosKernel for TLC.                                        *)
(***************************************************************************)
EXTENDS PsosKernel, TLC

Plain == [np |-> FALSE, masked |-> FALSE]
Masked == [np |-> FALSE, masked |-> TRUE]
NonPreemptible == [np |-> TRUE, masked |-> FALSE]
OnlyPlain == {Plain}

SchedulingCalls == {"t_create", "t_start", "t_delete", "t_suspend", "t_resume",
                    "t_setpri", "t_mode", "sr", "interrupt", "fault"}
SchedulingHandlerCalls == {"t_resume"}

\* A state ROOT reaches: it has created and started the other tasks, and one
\* object of each kind.
Prepared ==
  /\ tasks = [t \in TaskIds |->
       [NoTask EXCEPT !.state = IF t = Root THEN "Running" ELSE "Ready",
                      !.priority = IF t = Root THEN 255 ELSE IF t = Idle THEN 0 ELSE t,
                      !.mode = RootMode, !.cpu.masked = RootMode.masked]]
  /\ current = Root
  /\ live = tasks[Root].cpu
  /\ nextTask = MaxTask + 1
  /\ semaphores \in {[s \in 1..MaxSemaphore |->
                        IF s = 1 THEN [live |-> TRUE, count |-> c] ELSE NoSemaphore] : c \in Counts}
  /\ nextSemaphore = IF MaxSemaphore = 0 THEN 1 ELSE 2
  /\ queues \in {[q \in 1..MaxQueue |->
                    IF q > 1 THEN NoQueue
                    ELSE [live |-> TRUE, byPriority |-> b, capacity |-> c, messages |-> <<>>]] :
                    b \in BOOLEAN, c \in Capacities}
  /\ nextQueue = IF MaxQueue = 0 THEN 1 ELSE 2
  /\ timers = [i \in 1..MaxTimer |-> NoTimer] /\ nextTimer = 1
  /\ fresh = Messages
  /\ phase = "host"

PreparedSpec == Prepared /\ [][Next]_vars

\* Objects come and go while tasks wait for them and are deleted and restarted.
ObjectCalls == {"q_create", "q_send", "q_urgent", "q_broadcast", "q_receive", "q_delete",
                "sm_create", "sm_p", "sm_v", "sm_delete", "t_delete", "t_restart", "interrupt",
                "noeffect"}
ObjectHandlerCalls == {"q_send", "sm_v"}

WaitCalls == {"q_send", "q_receive", "q_delete", "sm_p", "sm_v", "ev_send", "ev_receive",
              "t_delete", "t_restart", "tm_wkafter"}
WaitHandlerCalls == {}

PreparedFairSpec == PreparedSpec /\ Fairness
ClockCalls == {"ev_receive", "tm_ev", "tm_cancel", "tm_wkafter", "interrupt"}
ClockHandlerCalls == {"tm_tick"}
=============================================================================
