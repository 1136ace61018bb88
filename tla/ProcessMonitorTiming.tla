------------------------ MODULE ProcessMonitorTiming ------------------------
(***************************************************************************)
(* ProcessMonitor against real time.  Run() judges a service by wall-clock *)
(* stamps (time(nullptr)); here a history records, in time that cannot be  *)
(* stepped, when each exit was handled, so that "more than Limit exits in  *)
(* Window seconds" can be stated of what really happened.                  *)
(***************************************************************************)
EXTENDS ProcessMonitor, Sequences, SequencesExt

CONSTANT MaxElapsed \* bound of real time

VARIABLES
    elapsed, \* seconds of real time
    handled, \* handled[c]: real times of the last Limit + 1 exits of c that
             \* Run() handled, oldest first
    steps    \* the directions, "back" and "forth", the wall clock was set in

timedVars == <<vars, elapsed, handled, steps>>

\* This step of Run() handles an exit of c.
Handles(c) == crashes'[c] # crashes[c]

LastOf(s) == IF Len(s) > Limit + 1 THEN Tail(s) ELSE s

TimedInit == /\ Init
             /\ elapsed = 0
             /\ handled = [c \in Cmd |-> <<>>]
             /\ steps = {}

RunStep ==
    /\ MonitorNext
    /\ handled' = [c \in Cmd |->
                     IF \E p \in Pid : Released(p) /\ children[p] = c /\ Handles(c)
                     THEN LastOf(Append(handled[c], elapsed))
                     ELSE handled[c]]
    /\ UNCHANGED <<elapsed, steps>>

SecondPasses == /\ Tick
                /\ elapsed < MaxElapsed
                /\ elapsed' = elapsed + 1
                /\ UNCHANGED <<handled, steps>>

ClockStepped == /\ \E d \in Adjustments : /\ AdjustClock(d)
                                           /\ steps' = steps \cup {IF d < 0 THEN "back" ELSE "forth"}
                /\ UNCHANGED <<elapsed, handled>>

TimedNext == RunStep \/ SecondPasses \/ ClockStepped

TimedSpec == TimedInit /\ [][TimedNext]_timedVars

-----------------------------------------------------------------------------
\* The last Limit + 1 exits of c all happened within Window seconds.
Burst(c) == /\ Len(handled[c]) = Limit + 1
            /\ Last(handled[c]) - Head(handled[c]) <= Window

\* As long as the wall clock is never set back, a service is given up only if it
\* really exited more than Limit times within Window seconds: exits that are
\* spread out, however many they are, never add up, and a clock that jumps
\* forward only makes the monitor forget.  (A clock that was set back leaves
\* stamps of the future, which :117 keeps, so that exits far apart add up.)
AbandonedOnlyAfterBurst == "back" \notin steps => \A c \in abandoned : Burst(c)

\* The converse, as long as the wall clock is never set forward: the relaunch
\* loop cannot spin, because a service that exits more than Limit times within
\* Window seconds is given up.
NoRestartStorm == "forth" \notin steps => \A c \in Cmd : Burst(c) => c \in abandoned
=============================================================================
