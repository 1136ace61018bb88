---------------------------- MODULE WSLGd_proofs ----------------------------
(***************************************************************************)
(* Proofs about WSLGd: main() uses the ProcessMonitor as its specification *)
(* allows, whatever exits during start-up, so that what is proved of       *)
(* ProcessMonitor holds of WSLGd; and nothing runs before Weston is ready. *)
(***************************************************************************)
EXTENDS WSLGd, ProcessMonitor_proofs

\* Up to the first launch nothing is launched, and while the notify socket is
\* not closed only Weston is.
StartupInv ==
    /\ pc \in {"setup", "launch", "accept", "run"}
    /\ pc = "setup" => mon = "launching" /\ launched = {}
    /\ ready # "closed" => launched \subseteq {Weston}
    /\ pc = "launch" /\ launched # {} => ready = "closed"
    /\ pc = "run" => mon # "launching"

LEMMA ServicesAreCommands == Weston \in Cmd /\ \A i \in 2..Len(Services) : Services[i] \in Cmd
  BY ServicesAssumption DEF Weston

\* Every step of WSLGd is a step of the monitor or leaves it alone.
LEMMA MainStep == StartupInv /\ [WNext]_wslgdVars => [Next]_vars
<1> SUFFICES ASSUME StartupInv, [WNext]_wslgdVars PROVE [Next]_vars
  OBVIOUS
<1>1. ASSUME Setup \/ WestonReady \/ WaitForReadyNotify \/ UNCHANGED wslgdVars
      PROVE  UNCHANGED vars
  BY <1>1 DEF Setup, WestonReady, WaitForReadyNotify, wslgdVars
<1>2. ASSUME SetupFails
      PROVE  LaunchFails
  <2>1. launched # Cmd
    BY <1>2, ServicesAreCommands DEF StartupInv, SetupFails
  <2> QED
    BY <1>2, <2>1 DEF SetupFails, LaunchFails, StartupInv
<1>3. ASSUME LaunchWeston
      PROVE  MonitorNext
  BY <1>3, ServicesAreCommands DEF LaunchWeston, MonitorNext
<1>4. ASSUME LaunchNext
      PROVE  MonitorNext
  BY <1>4, ServicesAreCommands DEF LaunchNext, MonitorNext
<1>5. ASSUME LaunchThrows \/ EnterRun \/ RunLoop
      PROVE  MonitorNext
  BY <1>5 DEF LaunchThrows, EnterRun, RunLoop, MonitorNext
<1>6. ASSUME Environment
      PROVE  Next
  BY <1>6 DEF Environment, Next, MonitorNext
<1> QED
  BY <1>1, <1>2, <1>3, <1>4, <1>5, <1>6 DEF WNext, Main, Proceeds, Next, MonitorNext

\* Every step keeps the start-up invariant.
LEMMA StartupStep == StartupInv /\ [WNext]_wslgdVars => StartupInv'
<1> SUFFICES ASSUME StartupInv, [WNext]_wslgdVars PROVE StartupInv'
  OBVIOUS
<1> USE DEF StartupInv
<1>1. CASE Setup \/ WestonReady \/ WaitForReadyNotify \/ UNCHANGED wslgdVars
  BY <1>1 DEF Setup, WestonReady, WaitForReadyNotify, wslgdVars, vars, monitorVars
<1>2. CASE SetupFails
  BY <1>2 DEF SetupFails
<1>3. CASE LaunchWeston
  BY <1>3 DEF LaunchWeston, LaunchProcess
<1>4. CASE LaunchNext
  BY <1>4 DEF LaunchNext, LaunchProcess
<1>5. CASE LaunchThrows \/ EnterRun
  BY <1>5 DEF LaunchThrows, LaunchFails, EnterRun, StartRun
<1>6. CASE RunLoop
  <2>1. launched' = launched /\ mon = "running" /\ mon' # "launching"
    BY <1>6 DEF RunLoop, Reap, RunUntracked, RunAbandon, RunRestart, RunForkFails,
                RunNoChildren, Released, monitorVars
  <2> QED
    BY <1>6, <2>1 DEF RunLoop
<1>7. CASE Environment
  BY <1>7 DEF Environment, ChildExits, Tick, monitorVars
<1> QED
  BY <1>1, <1>2, <1>3, <1>4, <1>5, <1>6, <1>7 DEF WNext, Main, Proceeds

LEMMA StartupInvariance == WSpec => []StartupInv
<1>1. WInit => StartupInv
  BY DEF WInit, Init, StartupInv
<1> QED
  BY <1>1, StartupStep, PTL DEF WSpec

-----------------------------------------------------------------------------
\* WSLGd, start-up included, is a correct use of the ProcessMonitor: it implements
\* its specification, so its theorems hold of the daemon as a whole.
THEOREM UsesMonitorCorrectly == WSpec => Spec
<1>1. WInit => Init
  BY DEF WInit
<1> QED
  BY <1>1, MainStep, StartupInvariance, PTL DEF WSpec, Spec

\* No service but Weston has a process before Weston has reported that it is
\* ready (main.cpp:450), whatever exits and whatever fails during start-up.
THEOREM WestonAlwaysFirst == WSpec => []WestonReadyFirst
<1>1. StartupInv /\ IInv => WestonReadyFirst
  BY DEF StartupInv, IInv, Relations, OnlyLaunched, WestonReadyFirst
<1> QED
  BY <1>1, StartupInvariance, UsesMonitorCorrectly, Invariance, PTL
=============================================================================
