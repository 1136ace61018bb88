-------------------------------- MODULE WSLGd --------------------------------
(***************************************************************************)
(* main() of src/WSLGd/main.cpp: set the system distro up, open the socket *)
(* on which Weston reports that it is ready, launch Weston, wait for the   *)
(* report, launch the other services, and become the ProcessMonitor.       *)
(*                                                                         *)
(* Services exit at any moment, in particular while main() is still        *)
(* launching and nobody calls waitpid().                                   *)
(***************************************************************************)
EXTENDS ProcessMonitor, Sequences

CONSTANT Services \* the commands in the order main() launches them; the first
                  \* is Weston

ASSUME ServicesAssumption ==
    /\ Services \in Seq(Cmd)
    /\ Len(Services) > 0
    /\ \A c \in Cmd : \E i \in 1..Len(Services) : Services[i] = c

VARIABLES
    pc,    \* "setup", "launch", "accept", "run": where main() is
    ready  \* WESTON_NOTIFY_SOCKET: "none", "listening", "connected" (Weston's
           \* connection is in the backlog), "closed" (accepted and unlinked)

wslgdVars == <<vars, pc, ready>>

Weston == Services[1]

-----------------------------------------------------------------------------
WInit == /\ Init
         /\ pc = "setup"
         /\ ready = "none"

\* Mutant of Setup: the notify socket does not listen yet when Weston starts.
SetupDeaf ==
    /\ pc = "setup"
    /\ pc' = "launch"
    /\ UNCHANGED <<vars, ready>>

\* Environment, mounts, the vsock listener, resource limits, and last the
\* notify socket, which is listening before Weston exists.
Setup ==
    /\ pc = "setup"
    /\ pc' = "launch"
    /\ ready' = "listening"
    /\ UNCHANGED vars

\* Some step of the setup throws, or main() finds that it is not root or that
\* there is no VM id: main() returns.
SetupFails ==
    /\ pc = "setup"
    /\ MayFail
    /\ mon' = "stopped"
    /\ threw' = TRUE
    /\ pc' = "run"
    /\ UNCHANGED <<children, crashes, launched, abandoned, kernelVars, now, ready>>

\* Mutant of LaunchWeston: no wait for the report.
LaunchWestonNoWait ==
    /\ pc = "launch"
    /\ launched = {}
    /\ \E p \in Pid : LaunchProcess(Weston, p)
    /\ UNCHANGED <<pc, ready>>

LaunchWeston ==
    /\ pc = "launch"
    /\ launched = {}
    /\ \E p \in Pid : LaunchProcess(Weston, p)
    /\ pc' = "accept"
    /\ UNCHANGED ready

\* wslgd-notify.so, in Weston: connect to the notify socket.
WestonReady ==
    /\ Up(Weston)
    /\ ready = "listening"
    /\ ready' = "connected"
    /\ UNCHANGED <<vars, pc>>

\* WaitForReadyNotify: accept() blocks until a connection is in the backlog;
\* then the socket is unlinked and the font monitor started.
WaitForReadyNotify ==
    /\ pc = "accept"
    /\ ready = "connected"
    /\ ready' = "closed"
    /\ pc' = "launch"
    /\ UNCHANGED vars

\* The next service in order.
LaunchNext ==
    /\ pc = "launch"
    /\ launched # {}
    /\ \E p \in Pid, i \in 2..Len(Services) :
         /\ \A j \in 1..(i - 1) : Services[j] \in launched
         /\ LaunchProcess(Services[i], p)
    /\ UNCHANGED <<pc, ready>>

\* fork() or accept() fails: the exception ends main().
LaunchThrows ==
    /\ pc \in {"launch", "accept"}
    /\ LaunchFails
    /\ pc' = "run"
    /\ UNCHANGED ready

EnterRun ==
    /\ pc = "launch"
    /\ StartRun
    /\ pc' = "run"
    /\ UNCHANGED ready

\* ProcessMonitor::Run().
RunLoop ==
    /\ \/ \E p \in Pid : Reap(p)
       \/ RunNoChildren
    /\ UNCHANGED <<pc, ready>>

Environment ==
    /\ \/ \E p \in Pid : ChildExits(p)
       \/ Tick
    /\ UNCHANGED <<pc, ready>>

Proceeds == \/ Setup \/ LaunchWeston \/ WaitForReadyNotify
            \/ LaunchNext \/ EnterRun \/ RunLoop

Main == Proceeds \/ SetupFails \/ LaunchThrows

WNext == Main \/ WestonReady \/ Environment

\* main() is one thread that keeps running unless accept() or waitpid() blocks
\* it, and need not fail; waitpid() serves the oldest zombie first (per-pid
\* fairness).  Weston, while it is alive, goes on to report that it is ready.
WFairness ==
    /\ WF_wslgdVars(Proceeds)
    /\ \A p \in Pid : WF_wslgdVars(Reap(p) /\ UNCHANGED <<pc, ready>>)
    /\ WF_wslgdVars(WestonReady)

WSpec == WInit /\ [][WNext]_wslgdVars /\ WFairness

-----------------------------------------------------------------------------
\* main() waits for a report that nobody is left to send.
AcceptStuck == /\ pc = "accept"
               /\ ready = "listening"
               /\ ~Up(Weston)

\* "Wait weston to be ready before starting RDP client, pulseaudio server."
\* (main.cpp:450): whatever crashes meanwhile, no other service is running or
\* tracked until Weston has reported.
WestonReadyFirst ==
    \A p \in Pid : (image[p] # NoCmd /\ image[p] # Weston) => ready = "closed"

\* Start-up always comes to an end, in Run() or by an exception, except that it
\* hangs when Weston exits before it has reported.
StartupEnds == <>(mon # "launching" \/ AcceptStuck)

\* What exits during start-up is not missed: its exit is found and answered once
\* Run() is reached, as long as fork() does not return the pid just reaped.
EarlyExitsRestarted ==
    \A c \in Cmd :
        (c \in launched /\ ~Up(c))
            ~> (Up(c) \/ c \in abandoned \/ mon = "stopped" \/ AcceptStuck)

\* README.md:146: "WSLGd then monitors these processes and if they exit by error
\* (say as a result of a crash), it automatically restarts them."
ServicesRestarted ==
    \A c \in Cmd :
        (c \in launched /\ ~Up(c))
            ~> (Up(c) \/ c \in abandoned \/ mon = "stopped")
=============================================================================
