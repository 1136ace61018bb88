------------------------ MODULE ProcessMonitor_proofs ------------------------
(***************************************************************************)
(* Proofs about ProcessMonitor, for every set of commands and pids, every  *)
(* limit, window and clock.  The inductive invariant relates m_children to *)
(* the process table: a tracked pid is the one unreaped process that runs  *)
(* its command, and every launched command is running, waiting to be       *)
(* reaped, or given up.                                                    *)
(***************************************************************************)
EXTENDS ProcessMonitor, FiniteSetTheorems, TLAPS

\* The exit times Run() keeps for a command are finitely many.
FiniteCrashes == \A c \in Cmd : IsFiniteSet(crashes[c])

\* A pid is free exactly when no program is behind it.
TableOK == \A p \in Pid : state[p] = "free" <=> image[p] = NoCmd

\* Only launched commands are given up, and only the others have a process.
OnlyLaunched ==
    /\ abandoned \subseteq launched
    /\ \A p \in Pid : image[p] # NoCmd => image[p] \in launched \ abandoned

\* No launched command is forgotten without having been given up.
Accounted ==
    ~ReuseReaped => \A c \in launched :
        \/ c \in abandoned
        \/ \E p \in Pid : image[p] = c
        \/ threw

\* Past the launches everything is launched, and a regular end leaves nothing.
Phases ==
    /\ mon = "running" => launched = Cmd /\ ~threw
    /\ mon = "stopped" /\ ~threw => launched = Cmd /\ \A p \in Pid : image[p] = NoCmd
    /\ mon = "launching" => ~threw

\* The relations between m_children, the process table and the phases.
Relations == /\ TableOK
             /\ TrackedAreReal
             /\ OneInstance
             /\ NothingUntracked
             /\ OnlyLaunched
             /\ Accounted
             /\ Phases

IInv == TypeOK /\ FiniteCrashes /\ Relations

-----------------------------------------------------------------------------
\* Handling an exit keeps the exit times of a command a finite set of stamps.
LEMMA ExitTimesType ==
    ASSUME TypeOK, FiniteCrashes, NEW c \in Cmd
    PROVE  /\ WithThisExit(c) \in SUBSET (Int \X Nat)
           /\ IsFiniteSet(WithThisExit(c))
<1>1. Recent(c) \subseteq crashes[c]
  BY DEF Recent
<1>2. IsFiniteSet(Recent(c))
  BY <1>1, FS_Subset DEF FiniteCrashes
<1> DEFINE Same == {x \in Recent(c) : x[1] = now}
<1>3. Cardinality(Same) \in Nat
  <2>1. IsFiniteSet(Same)
    BY <1>2, FS_Subset
  <2> QED
    BY <2>1, FS_CardinalityType
<1>4. IsFiniteSet(WithThisExit(c))
  BY <1>2, FS_AddElement DEF WithThisExit
<1>5. crashes[c] \in SUBSET (Int \X Nat)
  BY DEF TypeOK
<1>6. <<now, Cardinality(Same)>> \in Int \X Nat
  BY <1>3 DEF TypeOK
<1> QED
  BY <1>1, <1>4, <1>5, <1>6 DEF WithThisExit

\* The initial states satisfy the inductive invariant.
LEMMA InitIInv == Init => IInv
<1> SUFFICES ASSUME Init PROVE IInv
  OBVIOUS
<1>1. TypeOK
  <2>1. crashes \in [Cmd -> SUBSET (Int \X Nat)]
    BY Zenon DEF Init
  <2>2. mon \in {"launching", "running", "stopped"} /\ now \in Int
    BY DEF Init
  <2>3. launched \subseteq Cmd /\ abandoned \subseteq Cmd /\ threw \in BOOLEAN
    BY Zenon DEF Init
  <2>4. /\ children \in [Pid -> Cmd \cup {NoCmd}]
        /\ image \in [Pid -> Cmd \cup {NoCmd}]
    BY Zenon DEF Init
  <2>5. state \in [Pid -> {"free", "alive", "zombie"}]
    BY Zenon DEF Init
  <2> QED
    BY <2>1, <2>2, <2>3, <2>4, <2>5 DEF TypeOK
<1>2. FiniteCrashes
  BY FS_EmptySet DEF Init, FiniteCrashes
<1>3. TableOK /\ TrackedAreReal /\ OneInstance /\ NothingUntracked
  BY DEF Init, TableOK, TrackedAreReal, OneInstance, NothingUntracked
<1>4. OnlyLaunched /\ Accounted /\ Phases
  BY DEF Init, OnlyLaunched, Accounted, Phases
<1> QED
  BY <1>1, <1>2, <1>3, <1>4 DEF IInv, Relations

-----------------------------------------------------------------------------
\* Every step keeps the types, and the exit times finite.
LEMMA TypeStep == TypeOK /\ FiniteCrashes /\ [Next]_vars => TypeOK' /\ FiniteCrashes'
<1> SUFFICES ASSUME TypeOK, FiniteCrashes, [Next]_vars
             PROVE  TypeOK' /\ FiniteCrashes'
  OBVIOUS
<1> USE NoCmdAssumption
<1>1. ASSUME NEW c \in Cmd, NEW p \in Pid, LaunchProcess(c, p)
      PROVE  TypeOK' /\ FiniteCrashes'
  BY <1>1 DEF LaunchProcess, TypeOK, FiniteCrashes, vars, monitorVars, kernelVars
<1>2. ASSUME LaunchFails
      PROVE  TypeOK' /\ FiniteCrashes'
  BY <1>2 DEF LaunchFails, TypeOK, FiniteCrashes, vars, monitorVars, kernelVars
<1>3. ASSUME StartRun
      PROVE  TypeOK' /\ FiniteCrashes'
  BY <1>3 DEF StartRun, TypeOK, FiniteCrashes, vars, monitorVars, kernelVars
<1>4. ASSUME NEW p \in Pid, RunUntracked(p)
      PROVE  TypeOK' /\ FiniteCrashes'
  BY <1>4 DEF RunUntracked, Released, TypeOK, FiniteCrashes, vars, monitorVars, kernelVars
<1>5. ASSUME NEW p \in Pid, RunAbandon(p)
      PROVE  TypeOK' /\ FiniteCrashes'
  <2> DEFINE c == children[p]
  <2>1. c \in Cmd
    BY <1>5 DEF RunAbandon, TypeOK
  <2>2. crashes' = [crashes EXCEPT ![c] = WithThisExit(c)]
    BY <1>5 DEF RunAbandon
  <2>3. crashes' \in [Cmd -> SUBSET (Int \X Nat)]
    BY <2>1, <2>2, ExitTimesType DEF TypeOK
  <2>4. FiniteCrashes'
    BY <2>1, <2>2, ExitTimesType DEF FiniteCrashes, TypeOK
  <2>5. TypeOK'
    BY <1>5, <2>1, <2>3 DEF RunAbandon, Released, Forget, TypeOK
  <2> QED
    BY <2>4, <2>5
<1>6. ASSUME NEW p \in Pid, NEW q \in Pid, RunRestart(p, q)
      PROVE  TypeOK' /\ FiniteCrashes'
  <2> DEFINE c == children[p]
  <2>1. c \in Cmd
    BY <1>6 DEF RunRestart, TypeOK
  <2>2. crashes' = [crashes EXCEPT ![c] = WithThisExit(c)]
    BY <1>6 DEF RunRestart
  <2>3. crashes' \in [Cmd -> SUBSET (Int \X Nat)]
    BY <2>1, <2>2, ExitTimesType DEF TypeOK
  <2>4. FiniteCrashes'
    BY <2>1, <2>2, ExitTimesType DEF FiniteCrashes, TypeOK
  <2>5. TypeOK'
    BY <1>6, <2>1, <2>3 DEF RunRestart, Released, Replaced, AllocatableAfterReaping, TypeOK
  <2> QED
    BY <2>4, <2>5
<1>7. ASSUME NEW p \in Pid, RunForkFails(p)
      PROVE  TypeOK' /\ FiniteCrashes'
  <2> DEFINE c == children[p]
  <2>1. c \in Cmd
    BY <1>7 DEF RunForkFails, TypeOK
  <2>2. crashes' = [crashes EXCEPT ![c] = WithThisExit(c)]
    BY <1>7 DEF RunForkFails
  <2>3. crashes' \in [Cmd -> SUBSET (Int \X Nat)]
    BY <2>1, <2>2, ExitTimesType DEF TypeOK
  <2>4. FiniteCrashes'
    BY <2>1, <2>2, ExitTimesType DEF FiniteCrashes, TypeOK
  <2>5. TypeOK'
    BY <1>7, <2>1, <2>3 DEF RunForkFails, Released, TypeOK
  <2> QED
    BY <2>4, <2>5
<1>8. ASSUME RunNoChildren
      PROVE  TypeOK' /\ FiniteCrashes'
  BY <1>8 DEF RunNoChildren, Unreaped, TypeOK, FiniteCrashes, vars, monitorVars, kernelVars
<1>9. ASSUME NEW p \in Pid, ChildExits(p)
      PROVE  TypeOK' /\ FiniteCrashes'
  BY <1>9 DEF ChildExits, TypeOK, FiniteCrashes, vars, monitorVars, kernelVars
<1>10. CASE Tick \/ UNCHANGED vars
  BY <1>10 DEF Tick, TypeOK, FiniteCrashes, vars, monitorVars, kernelVars
<1>11. ASSUME NEW d \in Adjustments, AdjustClock(d)
       PROVE  TypeOK' /\ FiniteCrashes'
  BY <1>11, ClockAssumption DEF AdjustClock, TypeOK, FiniteCrashes, monitorVars, kernelVars
<1> QED
  BY <1>1, <1>2, <1>3, <1>4, <1>5, <1>6, <1>7, <1>8, <1>9, <1>10, <1>11 DEF Next, MonitorNext, Reap

-----------------------------------------------------------------------------
(* The relations. *)

\* Every step keeps them.
LEMMA RelationsStep == TypeOK /\ Relations /\ [Next]_vars => Relations'
<1> SUFFICES ASSUME TypeOK, Relations, [Next]_vars
             PROVE  Relations'
  OBVIOUS
<1> USE NoCmdAssumption DEF Relations
<1>1. ASSUME NEW c \in Cmd, NEW p \in Pid, LaunchProcess(c, p)
      PROVE  Relations'
  <2>1. TableOK'
    BY <1>1 DEF LaunchProcess,
       TypeOK, TableOK
  <2>2. TrackedAreReal'
    BY <1>1 DEF LaunchProcess,
       TypeOK, TableOK, TrackedAreReal, OneInstance
  <2>3. OneInstance'
    BY <1>1 DEF LaunchProcess,
       TypeOK, TrackedAreReal, OneInstance, OnlyLaunched
  <2>4. NothingUntracked'
    BY <1>1 DEF LaunchProcess,
       TypeOK, TrackedAreReal, NothingUntracked, TableOK
  <2>5. OnlyLaunched'
    BY <1>1 DEF LaunchProcess,
       TypeOK, TrackedAreReal, OneInstance, OnlyLaunched, Phases
  <2>6. Accounted'
    BY <1>1 DEF LaunchProcess,
       TypeOK, TableOK, TrackedAreReal, OneInstance, NothingUntracked, Accounted, Phases
  <2>7. Phases'
    BY <1>1 DEF LaunchProcess,
       TypeOK, TableOK, Phases
  <2> QED
    BY <2>1, <2>2, <2>3, <2>4, <2>5, <2>6, <2>7
<1>2. ASSUME LaunchFails
      PROVE  Relations'
  <2>1. TableOK'
    BY <1>2 DEF LaunchFails, kernelVars,
       TypeOK, TableOK
  <2>2. TrackedAreReal'
    BY <1>2 DEF LaunchFails, kernelVars,
       TypeOK, TableOK, TrackedAreReal, OneInstance
  <2>3. OneInstance'
    BY <1>2 DEF LaunchFails, kernelVars,
       TypeOK, TrackedAreReal, OneInstance, OnlyLaunched
  <2>4. NothingUntracked'
    BY <1>2 DEF LaunchFails, kernelVars,
       TypeOK, TrackedAreReal, NothingUntracked, TableOK
  <2>5. OnlyLaunched'
    BY <1>2 DEF LaunchFails, kernelVars,
       TypeOK, TrackedAreReal, OneInstance, OnlyLaunched, Phases
  <2>6. Accounted'
    BY <1>2 DEF LaunchFails, kernelVars,
       TypeOK, TableOK, TrackedAreReal, OneInstance, NothingUntracked, Accounted, Phases
  <2>7. Phases'
    BY <1>2 DEF LaunchFails, kernelVars,
       TypeOK, TableOK, Phases
  <2> QED
    BY <2>1, <2>2, <2>3, <2>4, <2>5, <2>6, <2>7
<1>3. ASSUME StartRun
      PROVE  Relations'
  <2>1. TableOK'
    BY <1>3 DEF StartRun, kernelVars,
       TypeOK, TableOK
  <2>2. TrackedAreReal'
    BY <1>3 DEF StartRun, kernelVars,
       TypeOK, TableOK, TrackedAreReal, OneInstance
  <2>3. OneInstance'
    BY <1>3 DEF StartRun, kernelVars,
       TypeOK, TrackedAreReal, OneInstance, OnlyLaunched
  <2>4. NothingUntracked'
    BY <1>3 DEF StartRun, kernelVars,
       TypeOK, TrackedAreReal, NothingUntracked, TableOK
  <2>5. OnlyLaunched'
    BY <1>3 DEF StartRun, kernelVars,
       TypeOK, TrackedAreReal, OneInstance, OnlyLaunched, Phases
  <2>6. Accounted'
    BY <1>3 DEF StartRun, kernelVars,
       TypeOK, TableOK, TrackedAreReal, OneInstance, NothingUntracked, Accounted, Phases
  <2>7. Phases'
    BY <1>3 DEF StartRun, kernelVars,
       TypeOK, TableOK, Phases
  <2> QED
    BY <2>1, <2>2, <2>3, <2>4, <2>5, <2>6, <2>7
<1>4. ASSUME NEW p \in Pid, RunUntracked(p)
      PROVE  Relations'
  <2>1. TableOK'
    BY <1>4 DEF RunUntracked, Released, monitorVars,
       TypeOK, TableOK
  <2>2. TrackedAreReal'
    BY <1>4 DEF RunUntracked, Released, monitorVars,
       TypeOK, TableOK, TrackedAreReal, OneInstance
  <2>3. OneInstance'
    BY <1>4 DEF RunUntracked, Released, monitorVars,
       TypeOK, TrackedAreReal, OneInstance, OnlyLaunched
  <2>4. NothingUntracked'
    BY <1>4 DEF RunUntracked, Released, monitorVars,
       TypeOK, TrackedAreReal, NothingUntracked, TableOK
  <2>5. OnlyLaunched'
    BY <1>4 DEF RunUntracked, Released, monitorVars,
       TypeOK, TrackedAreReal, OneInstance, OnlyLaunched, Phases
  <2>6. Accounted'
    BY <1>4 DEF RunUntracked, Released, monitorVars,
       TypeOK, TableOK, TrackedAreReal, OneInstance, NothingUntracked, Accounted, Phases
  <2>7. Phases'
    BY <1>4 DEF RunUntracked, Released, monitorVars,
       TypeOK, TableOK, Phases
  <2> QED
    BY <2>1, <2>2, <2>3, <2>4, <2>5, <2>6, <2>7
<1>5. ASSUME NEW p \in Pid, RunAbandon(p)
      PROVE  Relations'
  <2>1. TableOK'
    BY <1>5 DEF RunAbandon, Released, Forget,
       TypeOK, TableOK
  <2>2. TrackedAreReal'
    BY <1>5 DEF RunAbandon, Released, Forget,
       TypeOK, TableOK, TrackedAreReal, OneInstance
  <2>3. OneInstance'
    BY <1>5 DEF RunAbandon, Released, Forget,
       TypeOK, TrackedAreReal, OneInstance, OnlyLaunched
  <2>4. NothingUntracked'
    BY <1>5 DEF RunAbandon, Released, Forget,
       TypeOK, TrackedAreReal, NothingUntracked, TableOK
  <2>5. OnlyLaunched'
    BY <1>5 DEF RunAbandon, Released, Forget,
       TypeOK, TrackedAreReal, OneInstance, OnlyLaunched, Phases
  <2>6. Accounted'
    BY <1>5 DEF RunAbandon, Released, Forget,
       TypeOK, TableOK, TrackedAreReal, OneInstance, NothingUntracked, Accounted, Phases
  <2>7. Phases'
    BY <1>5 DEF RunAbandon, Released, Forget,
       TypeOK, TableOK, Phases
  <2> QED
    BY <2>1, <2>2, <2>3, <2>4, <2>5, <2>6, <2>7
<1>6. ASSUME NEW p \in Pid, NEW q \in Pid, RunRestart(p, q)
      PROVE  Relations'
  <2>1. TableOK'
    BY <1>6 DEF RunRestart, Released, Replaced, AllocatableAfterReaping,
       TypeOK, TableOK
  <2>2. TrackedAreReal'
    BY <1>6 DEF RunRestart, Released, Replaced, AllocatableAfterReaping,
       TypeOK, TableOK, TrackedAreReal, OneInstance
  <2>3. OneInstance'
    BY <1>6 DEF RunRestart, Released, Replaced, AllocatableAfterReaping,
       TypeOK, TrackedAreReal, OneInstance, OnlyLaunched
  <2>4. NothingUntracked'
    BY <1>6 DEF RunRestart, Released, Replaced, AllocatableAfterReaping,
       TypeOK, TrackedAreReal, NothingUntracked, TableOK
  <2>5. OnlyLaunched'
    BY <1>6 DEF RunRestart, Released, Replaced, AllocatableAfterReaping,
       TypeOK, TrackedAreReal, OneInstance, OnlyLaunched, Phases
  <2>6. Accounted'
    BY <1>6 DEF RunRestart, Released, Replaced, AllocatableAfterReaping,
       TypeOK, TableOK, TrackedAreReal, OneInstance, NothingUntracked, Accounted, Phases
  <2>7. Phases'
    BY <1>6 DEF RunRestart, Released, Replaced, AllocatableAfterReaping,
       TypeOK, TableOK, Phases
  <2> QED
    BY <2>1, <2>2, <2>3, <2>4, <2>5, <2>6, <2>7
<1>7. ASSUME NEW p \in Pid, RunForkFails(p)
      PROVE  Relations'
  <2>1. TableOK'
    BY <1>7 DEF RunForkFails, Released,
       TypeOK, TableOK
  <2>2. TrackedAreReal'
    BY <1>7 DEF RunForkFails, Released,
       TypeOK, TableOK, TrackedAreReal, OneInstance
  <2>3. OneInstance'
    BY <1>7 DEF RunForkFails, Released,
       TypeOK, TrackedAreReal, OneInstance, OnlyLaunched
  <2>4. NothingUntracked'
    BY <1>7 DEF RunForkFails, Released,
       TypeOK, TrackedAreReal, NothingUntracked, TableOK
  <2>5. OnlyLaunched'
    BY <1>7 DEF RunForkFails, Released,
       TypeOK, TrackedAreReal, OneInstance, OnlyLaunched, Phases
  <2>6. Accounted'
    BY <1>7 DEF RunForkFails, Released,
       TypeOK, TableOK, TrackedAreReal, OneInstance, NothingUntracked, Accounted, Phases
  <2>7. Phases'
    BY <1>7 DEF RunForkFails, Released,
       TypeOK, TableOK, Phases
  <2> QED
    BY <2>1, <2>2, <2>3, <2>4, <2>5, <2>6, <2>7
<1>8. ASSUME RunNoChildren
      PROVE  Relations'
  <2>1. TableOK'
    BY <1>8 DEF RunNoChildren, Unreaped, kernelVars,
       TypeOK, TableOK
  <2>2. TrackedAreReal'
    BY <1>8 DEF RunNoChildren, Unreaped, kernelVars,
       TypeOK, TableOK, TrackedAreReal, OneInstance
  <2>3. OneInstance'
    BY <1>8 DEF RunNoChildren, Unreaped, kernelVars,
       TypeOK, TrackedAreReal, OneInstance, OnlyLaunched
  <2>4. NothingUntracked'
    BY <1>8 DEF RunNoChildren, Unreaped, kernelVars,
       TypeOK, TrackedAreReal, NothingUntracked, TableOK
  <2>5. OnlyLaunched'
    BY <1>8 DEF RunNoChildren, Unreaped, kernelVars,
       TypeOK, TrackedAreReal, OneInstance, OnlyLaunched, Phases
  <2>6. Accounted'
    BY <1>8 DEF RunNoChildren, Unreaped, kernelVars,
       TypeOK, TableOK, TrackedAreReal, OneInstance, NothingUntracked, Accounted, Phases
  <2>7. Phases'
    BY <1>8 DEF RunNoChildren, Unreaped, kernelVars,
       TypeOK, TableOK, Phases
  <2> QED
    BY <2>1, <2>2, <2>3, <2>4, <2>5, <2>6, <2>7
<1>9. ASSUME NEW p \in Pid, ChildExits(p)
      PROVE  Relations'
  <2>1. TableOK'
    BY <1>9 DEF ChildExits, monitorVars,
       TypeOK, TableOK
  <2>2. TrackedAreReal'
    BY <1>9 DEF ChildExits, monitorVars,
       TypeOK, TableOK, TrackedAreReal, OneInstance
  <2>3. OneInstance'
    BY <1>9 DEF ChildExits, monitorVars,
       TypeOK, TrackedAreReal, OneInstance, OnlyLaunched
  <2>4. NothingUntracked'
    BY <1>9 DEF ChildExits, monitorVars,
       TypeOK, TrackedAreReal, NothingUntracked, TableOK
  <2>5. OnlyLaunched'
    BY <1>9 DEF ChildExits, monitorVars,
       TypeOK, TrackedAreReal, OneInstance, OnlyLaunched, Phases
  <2>6. Accounted'
    BY <1>9 DEF ChildExits, monitorVars,
       TypeOK, TableOK, TrackedAreReal, OneInstance, NothingUntracked, Accounted, Phases
  <2>7. Phases'
    BY <1>9 DEF ChildExits, monitorVars,
       TypeOK, TableOK, Phases
  <2> QED
    BY <2>1, <2>2, <2>3, <2>4, <2>5, <2>6, <2>7
<1>10. CASE Tick \/ UNCHANGED vars
  BY <1>10 DEF Tick, vars, monitorVars, kernelVars, TableOK, TrackedAreReal, OneInstance, NothingUntracked, OnlyLaunched, Accounted, Phases
<1>11. ASSUME NEW d \in Adjustments, AdjustClock(d)
       PROVE  Relations'
  BY <1>11 DEF AdjustClock, monitorVars, kernelVars, TableOK, TrackedAreReal, OneInstance, NothingUntracked, OnlyLaunched, Accounted, Phases
<1> QED
  BY <1>1, <1>2, <1>3, <1>4, <1>5, <1>6, <1>7, <1>8, <1>9, <1>10, <1>11 DEF Next, MonitorNext, Reap

-----------------------------------------------------------------------------
(* The theorems. *)

\* The inductive invariant holds throughout.
THEOREM Invariance == Spec => []IInv
<1>1. Init => IInv
  BY InitIInv
<1>2. IInv /\ [Next]_vars => IInv'
  BY TypeStep, RelationsStep DEF IInv
<1> QED
  BY <1>1, <1>2, PTL DEF Spec

\* Every variable keeps its type, for every number of services and pids.
THEOREM TypeCorrect == Spec => []TypeOK
<1>1. IInv => TypeOK
  BY DEF IInv
<1> QED
  BY <1>1, Invariance, PTL

\* m_children never names a pid that is free or that runs something else: the
\* store at ProcessMonitor.cpp:83 and the erase at :127 leave no stale entry, even
\* when fork() returns the pid that was just reaped.
THEOREM TrackedAlwaysReal == Spec => []TrackedAreReal
<1>1. IInv => TrackedAreReal
  BY DEF IInv, Relations
<1> QED
  BY <1>1, Invariance, PTL

\* No service ever runs twice, whatever the pids, failures and clock jumps.
THEOREM NeverTwice == Spec => []OneInstance
<1>1. IInv => OneInstance
  BY DEF IInv, Relations
<1> QED
  BY <1>1, Invariance, PTL

\* Unless fork() returns the pid just reaped, no launched process is ever lost.
THEOREM NothingLost == Spec => []NothingUntracked
<1>1. IInv => NothingUntracked
  BY DEF IInv, Relations
<1> QED
  BY <1>1, Invariance, PTL

\* Run() returns through ECHILD only when it has given every service up.
THEOREM RegularEnd == Spec => []EndsOnlyWhenAllAbandoned
<1>1. IInv => EndsOnlyWhenAllAbandoned
  <2> SUFFICES ASSUME IInv, ~ReuseReaped, mon = "stopped", ~threw
               PROVE  abandoned = Cmd
    BY DEF EndsOnlyWhenAllAbandoned
  <2>1. launched = Cmd /\ \A p \in Pid : image[p] = NoCmd
    BY DEF IInv, Relations, Phases
  <2>2. Cmd \subseteq abandoned
    <3> SUFFICES ASSUME NEW c \in Cmd PROVE c \in abandoned
      OBVIOUS
    <3>1. ~ \E p \in Pid : image[p] = c
      BY <2>1, NoCmdAssumption
    <3> QED
      BY <2>1, <3>1 DEF IInv, Relations, Accounted
  <2>3. abandoned \subseteq Cmd
    BY DEF IInv, TypeOK
  <2> QED
    BY <2>2, <2>3
<1> QED
  BY <1>1, Invariance, PTL

-----------------------------------------------------------------------------
(* The safety part of the refinement. *)

\* The monitor starts as the abstract supervisor does.
LEMMA AbstractInit == Init => Abstract!Init
  BY DEF Init, Abstract!Init, Status, Up

\* If one step changes at most what there is to show of command c, then Status
\* changes at most at c.
LEMMA StatusChange ==
    ASSUME NEW c \in Cmd, NEW to,
           to = Status'[c],
           \A d \in Cmd \ {c} : /\ d \in Running' <=> d \in Running
                                /\ d \in launched' <=> d \in launched
                                /\ d \in abandoned' <=> d \in abandoned
    PROVE  Status' = [Status EXCEPT ![c] = to]
<1>1. ASSUME NEW d \in Cmd, d # c
      PROVE  Status'[d] = Status[d]
  <2>1. d \in Running' <=> d \in Running
    BY <1>1
  <2>2. d \in launched' <=> d \in launched
    BY <1>1
  <2>3. d \in abandoned' <=> d \in abandoned
    BY <1>1
  <2> QED
    BY <2>1, <2>2, <2>3, Zenon DEF Status, Up
<1> QED
  BY <1>1 DEF Status, Up

\* What runs depends only on the processes that are alive.
LEMMA RunningKept ==
    ASSUME NEW d,
           \A r \in Pid : (state'[r] = "alive" /\ image'[r] = d)
                           <=> (state[r] = "alive" /\ image[r] = d)
    PROVE  d \in Running' <=> d \in Running
BY DEF Running

\* If it changes nothing there is to show, Status stays.
LEMMA StatusKept ==
    ASSUME \A d \in Cmd : d \in Running' <=> d \in Running,
           launched' = launched, abandoned' = abandoned
    PROVE  Status' = Status
BY DEF Status, Up

\* Each of its steps is a step of the abstract supervisor or changes nothing
\* that the supervisor shows.
LEMMA AbstractStep ==
    ~ReuseReaped /\ IInv /\ [Next]_vars => [Abstract!Next]_(Abstract!vars)
<1> SUFFICES ASSUME ~ReuseReaped, IInv, [Next]_vars
             PROVE  [Abstract!Next]_(Abstract!vars)
  OBVIOUS
<1> USE NoCmdAssumption
<1>0. TypeOK /\ TableOK /\ TrackedAreReal /\ OneInstance /\ OnlyLaunched /\ Phases
  BY DEF IInv, Relations
<1>1. ASSUME NEW c \in Cmd, NEW p \in Pid, LaunchProcess(c, p)
      PROVE  Abstract!Start(c)
  <2>1. mon = "launching" /\ mon' = mon
    BY <1>1 DEF LaunchProcess
  <2>2. Status[c] = "absent"
    BY <1>1 DEF LaunchProcess, Status, Up
  <2>3. c \in Running' /\ c \in launched' /\ c \notin abandoned'
    BY <1>0, <1>1 DEF LaunchProcess, Running, TypeOK, OnlyLaunched
  <2>4. \A d \in Cmd \ {c} : /\ d \in Running' <=> d \in Running
                             /\ d \in launched' <=> d \in launched
                             /\ d \in abandoned' <=> d \in abandoned
    <3> SUFFICES ASSUME NEW d \in Cmd \ {c}
                 PROVE  /\ d \in Running' <=> d \in Running
                        /\ d \in launched' <=> d \in launched
                        /\ d \in abandoned' <=> d \in abandoned
      OBVIOUS
    <3>1. ASSUME NEW r \in Pid
          PROVE  (state'[r] = "alive" /\ image'[r] = d)
                     <=> (state[r] = "alive" /\ image[r] = d)
      BY <1>0, <1>1 DEF LaunchProcess, TypeOK
    <3>2. d \in Running' <=> d \in Running
      BY <3>1, RunningKept
    <3> QED
      BY <3>2, <1>1 DEF LaunchProcess
  <2>5. Status'[c] = "up"
    BY <2>3 DEF Status, Up
  <2>6. Status' = [Status EXCEPT ![c] = "up"]
    BY <2>4, <2>5, StatusChange
  <2> QED
    BY <2>1, <2>2, <2>6 DEF Abstract!Start, Abstract!Move
<1>2. ASSUME LaunchFails
      PROVE  Abstract!Halt
  <2>1. Status' = Status
    BY <1>2, StatusKept DEF LaunchFails, Running, kernelVars
  <2> QED
    BY <1>2, <2>1 DEF LaunchFails, Abstract!Halt
<1>3. ASSUME StartRun
      PROVE  UNCHANGED Abstract!vars
  <2>1. Status' = Status
    BY <1>3, StatusKept DEF StartRun, Running, kernelVars
  <2>2. mon = "launching" /\ mon' = "running"
    BY <1>3 DEF StartRun
  <2> QED
    BY <2>1, <2>2 DEF Abstract!vars
<1>4. ASSUME NEW p \in Pid, RunUntracked(p)
      PROVE  FALSE
  <2>1. image[p] = NoCmd
    BY <1>4 DEF RunUntracked, IInv, Relations, NothingUntracked
  <2> QED
    BY <1>0, <1>4, <2>1 DEF RunUntracked, Released, TableOK
<1>5. ASSUME NEW p \in Pid, RunAbandon(p)
      PROVE  Abstract!Abandon(children[p])
  <2> DEFINE c == children[p]
  <2>1. c \in Cmd /\ mon = "running" /\ mon' = mon
    BY <1>0, <1>5 DEF RunAbandon, Released, TypeOK
  <2>2. image[p] = c /\ c \in launched /\ c \notin abandoned
    BY <1>0, <1>5, <2>1 DEF RunAbandon, TrackedAreReal, OnlyLaunched
  <2>3. c \notin Running
    BY <1>0, <1>5, <2>1, <2>2 DEF RunAbandon, Released, OneInstance, Running
  <2>4. \A d \in Cmd \ {c} : /\ d \in Running' <=> d \in Running
                             /\ d \in launched' <=> d \in launched
                             /\ d \in abandoned' <=> d \in abandoned
    <3> SUFFICES ASSUME NEW d \in Cmd \ {c}
                 PROVE  /\ d \in Running' <=> d \in Running
                        /\ d \in launched' <=> d \in launched
                        /\ d \in abandoned' <=> d \in abandoned
      OBVIOUS
    <3>1. ASSUME NEW r \in Pid
          PROVE  (state'[r] = "alive" /\ image'[r] = d)
                     <=> (state[r] = "alive" /\ image[r] = d)
      BY <1>0, <1>5, <2>2 DEF RunAbandon, TypeOK
    <3>2. d \in Running' <=> d \in Running
      BY <3>1, RunningKept
    <3> QED
      BY <3>2, <1>5 DEF RunAbandon
  <2>5. Status[c] = "down"
    BY <2>1, <2>2, <2>3 DEF Status, Up
  <2>6. Status'[c] = "abandoned"
    BY <1>5, <2>1, <2>2 DEF RunAbandon, Status, Up
  <2>7. Status' = [Status EXCEPT ![c] = "abandoned"]
    BY <2>1, <2>4, <2>6, StatusChange
  <2> QED
    BY <2>1, <2>5, <2>7 DEF Abstract!Abandon, Abstract!Move
<1>6. ASSUME NEW p \in Pid, NEW q \in Pid, RunRestart(p, q)
      PROVE  Abstract!Restart(children[p])
  <2> DEFINE c == children[p]
  <2>1. c \in Cmd /\ mon = "running" /\ mon' = mon
    BY <1>0, <1>6 DEF RunRestart, Released, TypeOK
  <2>2. image[p] = c /\ c \in launched /\ c \notin abandoned
    BY <1>0, <1>6, <2>1 DEF RunRestart, TrackedAreReal, OnlyLaunched
  <2>3. c \notin Running
    BY <1>0, <1>6, <2>1, <2>2 DEF RunRestart, Released, OneInstance, Running
  <2>4. state[q] = "free" /\ image[q] = NoCmd
    BY <1>0, <1>6 DEF RunRestart, AllocatableAfterReaping, TableOK
  <2>5. \A d \in Cmd \ {c} : /\ d \in Running' <=> d \in Running
                             /\ d \in launched' <=> d \in launched
                             /\ d \in abandoned' <=> d \in abandoned
    <3> SUFFICES ASSUME NEW d \in Cmd \ {c}
                 PROVE  /\ d \in Running' <=> d \in Running
                        /\ d \in launched' <=> d \in launched
                        /\ d \in abandoned' <=> d \in abandoned
      OBVIOUS
    <3>1. ASSUME NEW r \in Pid
          PROVE  (state'[r] = "alive" /\ image'[r] = d)
                     <=> (state[r] = "alive" /\ image[r] = d)
      BY <1>0, <1>6, <2>2, <2>4 DEF RunRestart, TypeOK
    <3>2. d \in Running' <=> d \in Running
      BY <3>1, RunningKept
    <3> QED
      BY <3>2, <1>6 DEF RunRestart
  <2>6. c \in Running'
    <3>1. state'[q] = "alive" /\ image'[q] = c
      BY <1>0, <1>6 DEF RunRestart, TypeOK
    <3> QED
      BY <3>1 DEF Running
  <2>7. Status[c] = "down"
    BY <2>1, <2>2, <2>3 DEF Status, Up
  <2>8. Status'[c] = "up"
    <3>1. c \in launched' /\ c \notin abandoned'
      BY <1>6, <2>2 DEF RunRestart
    <3> QED
      BY <2>1, <2>6, <3>1 DEF Status, Up
  <2>9. Status' = [Status EXCEPT ![c] = "up"]
    BY <2>1, <2>5, <2>8, StatusChange
  <2> QED
    BY <2>1, <2>7, <2>9 DEF Abstract!Restart, Abstract!Move
<1>7. ASSUME NEW p \in Pid, RunForkFails(p)
      PROVE  Abstract!Halt
  <2>1. Status' = Status
    BY <1>0, <1>7, StatusKept DEF RunForkFails, Released, Running, TypeOK
  <2> QED
    BY <1>7, <2>1 DEF RunForkFails, Released, Abstract!Halt
<1>8. ASSUME RunNoChildren
      PROVE  Abstract!Halt
  <2>1. Status' = Status
    BY <1>8, StatusKept DEF RunNoChildren, Running, kernelVars
  <2>2. launched = Cmd /\ \A p \in Pid : image[p] = NoCmd
    BY <1>0, <1>8 DEF RunNoChildren, Unreaped, Phases, TableOK
  <2>3. ASSUME NEW c \in Cmd
        PROVE  Status[c] = "abandoned"
    <3>1. ~ \E p \in Pid : image[p] = c
      BY <2>2
    <3>2. ~threw
      BY <1>0, <1>8 DEF Phases, RunNoChildren
    <3>3. c \in abandoned
      BY <2>2, <3>1, <3>2 DEF IInv, Relations, Accounted
    <3> QED
      BY <2>2, <3>3 DEF Status, Up
  <2> QED
    BY <1>8, <2>1, <2>3 DEF RunNoChildren, Abstract!Halt
<1>9. ASSUME NEW p \in Pid, ChildExits(p)
      PROVE  Abstract!Fail(image[p])
  <2> DEFINE c == image[p]
  <2>1. c \in Cmd /\ c \in launched /\ c \notin abandoned
    BY <1>0, <1>9 DEF ChildExits, TypeOK, TableOK, OnlyLaunched
  <2>2. c \in Running /\ c \notin Running'
    BY <1>0, <1>9, <2>1 DEF ChildExits, Running, OneInstance, TypeOK
  <2>3. \A d \in Cmd \ {c} : /\ d \in Running' <=> d \in Running
                             /\ d \in launched' <=> d \in launched
                             /\ d \in abandoned' <=> d \in abandoned
    <3> SUFFICES ASSUME NEW d \in Cmd \ {c}
                 PROVE  /\ d \in Running' <=> d \in Running
                        /\ d \in launched' <=> d \in launched
                        /\ d \in abandoned' <=> d \in abandoned
      OBVIOUS
    <3>1. ASSUME NEW r \in Pid
          PROVE  (state'[r] = "alive" /\ image'[r] = d)
                     <=> (state[r] = "alive" /\ image[r] = d)
      BY <1>0, <1>9 DEF ChildExits, TypeOK
    <3>2. d \in Running' <=> d \in Running
      BY <3>1, RunningKept
    <3> QED
      BY <3>2, <1>9 DEF ChildExits, monitorVars
  <2>4. Status[c] = "up"
    BY <2>1, <2>2 DEF Status, Up
  <2>5. Status'[c] = "down"
    BY <1>9, <2>1, <2>2 DEF ChildExits, Status, Up, monitorVars
  <2>6. Status' = [Status EXCEPT ![c] = "down"]
    BY <2>1, <2>3, <2>5, StatusChange
  <2> QED
    BY <1>9, <2>4, <2>6 DEF ChildExits, monitorVars, Abstract!Fail, Abstract!Move
<1>10. ASSUME UNCHANGED <<monitorVars, kernelVars>>
       PROVE  UNCHANGED Abstract!vars
  BY <1>10, StatusKept DEF monitorVars, kernelVars, Running, Abstract!vars
<1>11. ASSUME Tick \/ (\E d \in Adjustments : AdjustClock(d)) \/ UNCHANGED vars
       PROVE  UNCHANGED <<monitorVars, kernelVars>>
  BY <1>11 DEF Tick, AdjustClock, vars
<1>12. \A p \in Pid : (RunAbandon(p) \/ (\E q \in Pid : RunRestart(p, q)))
                        => children[p] \in Cmd
  BY <1>0 DEF RunAbandon, RunRestart, TypeOK
<1>13. \A p \in Pid : ChildExits(p) => image[p] \in Cmd
  BY <1>0 DEF ChildExits, TypeOK, TableOK
<1> QED
  BY <1>1, <1>2, <1>3, <1>4, <1>5, <1>6, <1>7, <1>8, <1>9, <1>10, <1>11, <1>12, <1>13
     DEF Next, MonitorNext, Reap, Abstract!Next

\* The fork/waitpid loop implements the abstract supervisor, step by step, unless
\* fork() returns the pid just reaped.  (That it also keeps the supervisor's
\* fairness is checked with TLC.)
THEOREM Refinement ==
    ASSUME ~ReuseReaped
    PROVE  Spec => Abstract!Init /\ [][Abstract!Next]_(Abstract!vars)
<1>1. Init => Abstract!Init
  BY AbstractInit
<1>2. IInv /\ [Next]_vars => [Abstract!Next]_(Abstract!vars)
  BY AbstractStep
<1> QED
  BY <1>1, <1>2, Invariance, PTL DEF Spec
=============================================================================
