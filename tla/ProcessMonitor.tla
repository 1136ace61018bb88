--------------------------- MODULE ProcessMonitor ---------------------------
(***************************************************************************)
(* wslgd::ProcessMonitor (src/WSLGd/ProcessMonitor.cpp): the supervisor    *)
(* that WSLGd's main thread becomes.  LaunchProcess forks a service and    *)
(* remembers its pid; Run waits for children in a loop and relaunches the  *)
(* ones it remembers, unless the same command line has exited more than    *)
(* Limit times within Window seconds.                                      *)
(*                                                                         *)
(* The kernel side (process table, pid allocation, wall clock) is modelled *)
(* only as far as the monitor can see it: fork(), waitpid(0), time().      *)
(***************************************************************************)
EXTENDS Integers, FiniteSets

CONSTANTS
    Cmd,         \* command lines; one service each
    Pid,         \* pids the kernel can hand out
    NoCmd,       \* "no entry" in m_children, "no program" in the process table
    Limit,       \* exits tolerated within the window (10 in the code)
    Window,      \* length of the window in seconds (60 in the code)
    MaxTime,     \* bound of the wall clock
    Adjustments, \* jumps the wall clock can make (settimeofday, host resume)
    ReuseReaped, \* can fork() return the very pid that was just reaped?
    MayFail      \* can the system refuse fork(), or a call of main()'s set-up?

ASSUME NoCmdAssumption   == NoCmd \notin Cmd
ASSUME LimitAssumption   == Limit \in Nat /\ Window \in Nat /\ MaxTime \in Nat
ASSUME ClockAssumption   == Adjustments \subseteq Int
ASSUME KernelAssumption  == ReuseReaped \in BOOLEAN /\ MayFail \in BOOLEAN

VARIABLES
    mon,        \* "launching": main() still calls LaunchProcess; "running":
                \* inside Run(); "stopped": Run() or main() has returned
    children,   \* m_children: the command tracked under each pid, or NoCmd
    crashes,    \* crashes[cmd]: the multiset of exit times Run() keeps, as a
                \* set of pairs <<time, occurrence>>
    now,        \* time(nullptr)
    launched,   \* commands main() has launched
    abandoned,  \* commands Run() has decided not to start again
    threw,      \* a failure other than ECHILD has ended Run() or main()
    state,      \* process table: "free", "alive" or "zombie"
    image       \* the command each unreaped process runs

monitorVars == <<mon, children, crashes, launched, abandoned, threw>>
kernelVars  == <<state, image>>
vars        == <<monitorVars, kernelVars, now>>

-----------------------------------------------------------------------------
(* State functions. *)

\* The commands some process runs.
Running == {image[p] : p \in {q \in Pid : state[q] = "alive"}}

Up(c) == c \in Running

\* Mutant of Unreaped: a waitpid() that only counts live children.
UnreapedLive == {p \in Pid : state[p] = "alive"}

Unreaped == {p \in Pid : state[p] # "free"}

\* Mutant of Recent: old exit times are never erased.
RecentForever(c) == crashes[c]

\* What is left of a command's exit times once those older than the window
\* are erased ("ts < now - 60").
Recent(c) == {x \in crashes[c] : x[1] >= now - Window}

\* ... and with the exit that is being handled pushed onto it.
WithThisExit(c) ==
    Recent(c) \cup {<<now, Cardinality({x \in Recent(c) : x[1] = now})>>}

\* Mutant of TooManyExits: off by one.
TooManyExitsLate(c) == Cardinality(WithThisExit(c)) > Limit + 1

TooManyExits(c) == Cardinality(WithThisExit(c)) > Limit

\* Pids fork() may return while Run() handles the exit of p, which waitpid()
\* has already released.
AllocatableAfterReaping(p) ==
    {q \in Pid : state[q] = "free"} \cup (IF ReuseReaped THEN {p} ELSE {})

\* Mutant of Replaced: the moved-from entry of p, its argv empty, is not erased.
ReplacedMovedFrom(p, q, c) == [[children EXCEPT ![q] = c] EXCEPT ![p] = <<>>]

\* Mutant of Replaced: the new pid is not stored.
ReplacedUnstored(p, q, c) == [children EXCEPT ![p] = NoCmd]

\* m_children after Run() relaunched c as q in place of p: LaunchProcess
\* stores the entry of q first, then Run() erases the entry it found for p.
Replaced(p, q, c) == [[children EXCEPT ![q] = c] EXCEPT ![p] = NoCmd]

\* Mutant of Forget: giving up leaves the entry.
ForgetNothing(p) == children

Forget(p) == [children EXCEPT ![p] = NoCmd]

-----------------------------------------------------------------------------
Init ==
    /\ mon = "launching"
    /\ children = [p \in Pid |-> NoCmd]
    /\ crashes = [c \in Cmd |-> {}]
    /\ now = 0
    /\ launched = {}
    /\ abandoned = {}
    /\ threw = FALSE
    /\ state = [p \in Pid |-> "free"]
    /\ image = [p \in Pid |-> NoCmd]

-----------------------------------------------------------------------------
(* The kernel and the launched programs. *)

\* A launched program ends: a crash, a normal exit, or the _exit(1) of a
\* child whose setuid/capability/exec sequence failed.
ChildExits(p) ==
    /\ state[p] = "alive"
    /\ state' = [state EXCEPT ![p] = "zombie"]
    /\ UNCHANGED <<image, monitorVars, now>>

Tick ==
    /\ now < MaxTime
    /\ now' = now + 1
    /\ UNCHANGED <<monitorVars, kernelVars>>

\* The wall clock is stepped; it is not time that passes.
AdjustClock(d) ==
    /\ now + d \in 0..MaxTime
    /\ now' = now + d
    /\ UNCHANGED <<monitorVars, kernelVars>>

-----------------------------------------------------------------------------
(* main(): the launches before Run(). *)

\* Mutant of LaunchProcess: main() launches a service again.
LaunchProcessAgain(c, p) ==
    /\ mon = "launching"
    /\ state[p] = "free"
    /\ state' = [state EXCEPT ![p] = "alive"]
    /\ image' = [image EXCEPT ![p] = c]
    /\ children' = [children EXCEPT ![p] = c]
    /\ launched' = launched \cup {c}
    /\ UNCHANGED <<mon, crashes, abandoned, threw, now>>

\* LaunchProcess in the parent: fork, then remember the pid.
LaunchProcess(c, p) ==
    /\ mon = "launching"
    /\ c \notin launched
    /\ state[p] = "free"
    /\ state' = [state EXCEPT ![p] = "alive"]
    /\ image' = [image EXCEPT ![p] = c]
    /\ children' = [children EXCEPT ![p] = c]
    /\ launched' = launched \cup {c}
    /\ UNCHANGED <<mon, crashes, abandoned, threw, now>>

\* fork() < 0: the exception ends main().
LaunchFails ==
    /\ mon = "launching"
    /\ launched # Cmd
    /\ MayFail
    /\ mon' = "stopped"
    /\ threw' = TRUE
    /\ UNCHANGED <<children, crashes, launched, abandoned, kernelVars, now>>

\* Mutant of StartRun: Run() is entered before the last launch.
StartRunEarly ==
    /\ mon = "launching"
    /\ mon' = "running"
    /\ UNCHANGED <<children, crashes, launched, abandoned, threw,
                   kernelVars, now>>

StartRun ==
    /\ mon = "launching"
    /\ launched = Cmd
    /\ mon' = "running"
    /\ UNCHANGED <<children, crashes, launched, abandoned, threw,
                   kernelVars, now>>

-----------------------------------------------------------------------------
(* Run(): one iteration of its loop, from waitpid() to the next waitpid(). *)

\* waitpid() returned p: it is out of the process table.
Released(p) == /\ mon = "running"
               /\ state[p] = "zombie"

RunUntracked(p) ==
    /\ Released(p)
    /\ children[p] = NoCmd
    /\ state' = [state EXCEPT ![p] = "free"]
    /\ image' = [image EXCEPT ![p] = NoCmd]
    /\ UNCHANGED <<monitorVars, now>>

RunAbandon(p) ==
    LET c == children[p] IN
    /\ Released(p)
    /\ c # NoCmd
    /\ TooManyExits(c)
    /\ crashes' = [crashes EXCEPT ![c] = WithThisExit(c)]
    /\ children' = Forget(p)
    /\ abandoned' = abandoned \cup {c}
    /\ state' = [state EXCEPT ![p] = "free"]
    /\ image' = [image EXCEPT ![p] = NoCmd]
    /\ UNCHANGED <<mon, launched, threw, now>>

RunRestart(p, q) ==
    LET c == children[p] IN
    /\ Released(p)
    /\ c # NoCmd
    /\ ~TooManyExits(c)
    /\ q \in AllocatableAfterReaping(p)
    /\ crashes' = [crashes EXCEPT ![c] = WithThisExit(c)]
    /\ children' = Replaced(p, q, c)
    /\ state' = [[state EXCEPT ![p] = "free"] EXCEPT ![q] = "alive"]
    /\ image' = [[image EXCEPT ![p] = NoCmd] EXCEPT ![q] = c]
    /\ UNCHANGED <<mon, launched, abandoned, threw, now>>

\* fork() < 0 inside Run(): the exception leaves the loop, and Run() and
\* main() return.  The entry of p is still in m_children.
RunForkFails(p) ==
    LET c == children[p] IN
    /\ Released(p)
    /\ c # NoCmd
    /\ ~TooManyExits(c)
    /\ MayFail
    /\ crashes' = [crashes EXCEPT ![c] = WithThisExit(c)]
    /\ mon' = "stopped"
    /\ threw' = TRUE
    /\ state' = [state EXCEPT ![p] = "free"]
    /\ image' = [image EXCEPT ![p] = NoCmd]
    /\ UNCHANGED <<children, launched, abandoned, now>>

\* waitpid() fails with ECHILD: nothing is left to wait for.
RunNoChildren ==
    /\ mon = "running"
    /\ Unreaped = {}
    /\ mon' = "stopped"
    /\ UNCHANGED <<children, crashes, launched, abandoned, threw,
                   kernelVars, now>>

Reap(p) ==
    \/ RunUntracked(p)
    \/ RunAbandon(p)
    \/ \E q \in Pid : RunRestart(p, q)
    \/ RunForkFails(p)

-----------------------------------------------------------------------------
MonitorNext ==
    \/ \E c \in Cmd, p \in Pid : LaunchProcess(c, p)
    \/ LaunchFails
    \/ StartRun
    \/ \E p \in Pid : Reap(p)
    \/ RunNoChildren
    \/ \E p \in Pid : ChildExits(p)

Next ==
    \/ MonitorNext
    \/ Tick
    \/ \E d \in Adjustments : AdjustClock(d)

Spec == Init /\ [][Next]_vars

\* main() and Run() are one thread that does nothing but these steps.  The
\* kernel scans the children of a waiter oldest first, so a zombie cannot be
\* passed over for ever.  Nothing obliges a child to exit or a clock to move.
Fairness ==
    /\ \A c \in Cmd : WF_vars(\E p \in Pid : LaunchProcess(c, p))
    /\ WF_vars(StartRun)
    /\ \A p \in Pid : WF_vars(Reap(p))
    /\ WF_vars(RunNoChildren)

FairSpec == Spec /\ Fairness

-----------------------------------------------------------------------------
(* Properties. *)

\* Every variable has its type.
TypeOK ==
    /\ mon \in {"launching", "running", "stopped"}
    /\ children \in [Pid -> Cmd \cup {NoCmd}]
    /\ crashes \in [Cmd -> SUBSET (Int \X Nat)]
    /\ now \in Int
    /\ launched \subseteq Cmd
    /\ abandoned \subseteq Cmd
    /\ threw \in BOOLEAN
    /\ state \in [Pid -> {"free", "alive", "zombie"}]
    /\ image \in [Pid -> Cmd \cup {NoCmd}]

\* As long as the monitor runs, m_children names only processes that exist,
\* and under the command they really run: no stale entry can make Run() take
\* the exit of a stranger for the exit of a service (the erase at :127 and the
\* store at :83 happen in that order, around a fork that may reuse a pid).
TrackedAreReal ==
    mon # "stopped" =>
        \A p \in Pid : children[p] # NoCmd =>
            state[p] # "free" /\ image[p] = children[p]

\* No service ever runs twice: a relaunch always replaces an instance that is
\* gone and reaped, whichever pid the new one gets.
OneInstance ==
    \A p, q \in Pid :
        (image[p] # NoCmd /\ image[p] = image[q]) => p = q

\* When fork() never returns the pid just reaped, the monitor loses track of
\* no child: whatever it launched and has not reaped is in m_children.
NothingUntracked ==
    ~ReuseReaped => \A p \in Pid : image[p] # NoCmd => children[p] = image[p]

\* Without fork failures WSLGd ends only after every service was given up:
\* Run() returns through ECHILD, and that must mean there is nothing to guard.
EndsOnlyWhenAllAbandoned ==
    (~ReuseReaped /\ mon = "stopped" /\ ~threw) => abandoned = Cmd

\* A service that has exited is launched again, unless it is given up or the
\* monitor itself ends.
Restarted ==
    \A c \in Cmd :
        (mon = "running" /\ ~Up(c)) ~> (Up(c) \/ c \in abandoned \/ mon = "stopped")

-----------------------------------------------------------------------------
(* The monitor implements the abstract supervisor. *)

Status == [c \in Cmd |-> IF c \notin launched THEN "absent"
                         ELSE IF c \in abandoned THEN "abandoned"
                         ELSE IF Up(c) THEN "up" ELSE "down"]

Abstract == INSTANCE Supervisor
                WITH Service <- Cmd, MayFail <- MayFail,
                     status <- Status, halted <- (mon = "stopped")

\* The whole promise of the supervisor, its liveness included, is kept by the
\* fork/waitpid loop as long as fork() does not return the pid just reaped.
ImplementsSupervisor == Abstract!Spec
=============================================================================
