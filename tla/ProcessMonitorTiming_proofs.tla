--------------------- MODULE ProcessMonitorTiming_proofs ---------------------
(***************************************************************************)
(* Proofs about ProcessMonitorTiming, for every limit, window and clock.   *)
(* The wall-clock stamps Run() keeps and the real times of the exits are   *)
(* related by counting: as long as the clock was not set back, k stamps    *)
(* younger than some age witness k exits younger than that age, and as     *)
(* long as it was not set forward, the converse within the window.         *)
(***************************************************************************)
EXTENDS ProcessMonitorTiming, ProcessMonitor_proofs

\* The stamps in s at or after t.
Since(s, t) == {x \in s : x[1] >= t}

\* The stamps in s of the second t.
StampsOf(s, t) == {x \in s : x[1] = t}

\* The k-th latest exit of c.
Latest(h, k) == h[Len(h) + 1 - k]

TimedType ==
    /\ elapsed \in Nat
    /\ handled \in [Cmd -> Seq(Int)]
    /\ \A c \in Cmd : /\ Len(handled[c]) <= Limit + 1
                      /\ \A i \in 1..Len(handled[c]) : handled[c][i] <= elapsed

\* Stamps of the same second are numbered from 0, so that the stamp of the next
\* exit is a new one.
Fresh == \A c \in Cmd : \A x \in crashes[c] :
            x[2] < Cardinality(StampsOf(crashes[c], x[1]))

\* Without steps back no stamp lies in the future, and k stamps since t mean
\* that the k-th latest exit is at most as long ago as t.
StampsMeanExits ==
    "back" \notin steps =>
        \A c \in Cmd :
            /\ \A x \in crashes[c] : x[1] <= now
            /\ \A t \in Int, k \in 1..(Limit + 1) :
                 Cardinality(Since(crashes[c], t)) >= k =>
                     /\ Len(handled[c]) >= k
                     /\ Latest(handled[c], k) - elapsed >= t - now

\* Without steps forth, k exits in the last w seconds, w within the window, have
\* left k stamps in the last w seconds of the wall clock.
ExitsMeanStamps ==
    "forth" \notin steps =>
        \A c \in Cmd : \A k \in 1..Len(handled[c]), w \in Int :
            w <= Window /\ Latest(handled[c], k) >= elapsed - w
                => Cardinality(Since(crashes[c], now - w)) >= k

TimedInv == /\ IInv
            /\ TimedType
            /\ Fresh
            /\ StampsMeanExits
            /\ ExitsMeanStamps
            /\ AbandonedOnlyAfterBurst
            /\ NoRestartStorm

-----------------------------------------------------------------------------
(* What the history and the stamps become when an exit is handled. *)

\* Appending to the history makes the new exit the latest one, moves every other
\* one place back and drops at most the oldest.
LEMMA HistoryStep ==
    ASSUME NEW h \in Seq(Int), Len(h) <= Limit + 1, NEW e \in Int
    PROVE  LET g == LastOf(Append(h, e))
           IN  /\ g \in Seq(Int)
               /\ Len(g) = IF Len(h) = Limit + 1 THEN Len(h) ELSE Len(h) + 1
               /\ Latest(g, 1) = e
               /\ \A k \in 2..Len(g) : /\ k - 1 \in 1..Len(h)
                                       /\ Latest(g, k) = Latest(h, k - 1)
               /\ \A i \in 1..Len(g) : g[i] = e \/ \E j \in 1..Len(h) : g[i] = h[j]
<1> DEFINE a == Append(h, e)
           g == LastOf(a)
<1> USE LimitAssumption
<1>1. a \in Seq(Int) /\ Len(a) = Len(h) + 1 /\ Len(h) \in Nat
  OBVIOUS
<1>2. a[Len(h) + 1] = e /\ \A i \in 1..Len(h) : a[i] = h[i]
  OBVIOUS
<1>3. CASE Len(h) = Limit + 1
  <2>1. g = Tail(a)
    BY <1>1, <1>3 DEF LastOf
  <2>2. Len(g) = Len(h) /\ g \in Seq(Int)
    BY <1>1, <1>3, <2>1
  <2>3. \A i \in 1..Len(h) : g[i] = a[i + 1]
    BY <1>1, <1>3, <2>1
  <2> HIDE DEF a, g
  <2>4. Latest(g, 1) = e
    BY <1>1, <1>2, <1>3, <2>2, <2>3 DEF Latest
  <2>5. ASSUME NEW k \in 2..Len(g)
        PROVE  k - 1 \in 1..Len(h) /\ Latest(g, k) = Latest(h, k - 1)
    <3> DEFINE i == Len(h) + 1 - k
    <3>1. i \in 1..Len(h) /\ i + 1 \in 1..Len(h) /\ i + 1 = Len(h) + 1 - (k - 1)
      BY <1>1, <1>3, <2>2
    <3>2. g[i] = h[i + 1]
      BY <1>2, <2>3, <3>1
    <3>3. Latest(g, k) = g[i] /\ Latest(h, k - 1) = h[i + 1]
      BY <2>2, <3>1 DEF Latest
    <3> QED
      BY <1>1, <1>3, <2>2, <3>2, <3>3
  <2>6. ASSUME NEW i \in 1..Len(g)
        PROVE  g[i] = e \/ \E j \in 1..Len(h) : g[i] = h[j]
    <3>1. CASE i = Len(h)
      BY <1>1, <1>2, <2>2, <2>3, <3>1
    <3>2. CASE i # Len(h)
      <4>1. i + 1 \in 1..Len(h)
        BY <1>1, <2>2, <3>2
      <4> QED
        BY <1>1, <1>2, <2>2, <2>3, <4>1
    <3> QED
      BY <3>1, <3>2
  <2> QED
    BY <1>3, <2>2, <2>4, <2>5, <2>6 DEF a, g
<1>4. CASE Len(h) # Limit + 1
  <2>1. g = a
    BY <1>1, <1>4 DEF LastOf
  <2> HIDE DEF a, g
  <2>2. Latest(g, 1) = e
    BY <1>1, <1>2, <2>1 DEF Latest
  <2>3. ASSUME NEW k \in 2..Len(g)
        PROVE  k - 1 \in 1..Len(h) /\ Latest(g, k) = Latest(h, k - 1)
    <3> DEFINE i == Len(h) + 2 - k
    <3> DEFINE n == Len(h)
    <3>a. n \in Nat /\ Len(g) = n + 1 /\ k \in 2..(n + 1)
      BY <1>1, <2>1, SMTT(20)
    <3>b. i = n + 2 - k
      OBVIOUS
    <3> HIDE DEF n, i
    <3>c. i \in 1..n /\ i = (n + 1) + 1 - k /\ i = n + 1 - (k - 1) /\ k - 1 \in 1..n
      BY <3>a, <3>b
    <3> USE DEF n
    <3>1. i \in 1..Len(h) /\ i = Len(g) + 1 - k /\ i = Len(h) + 1 - (k - 1)
      BY <3>a, <3>c
    <3>2. g[i] = h[i]
      BY <1>2, <2>1, <3>1
    <3>3. Latest(g, k) = g[i] /\ Latest(h, k - 1) = h[i]
      BY <3>1 DEF Latest
    <3> QED
      BY <3>2, <3>3, <3>c
  <2>4. ASSUME NEW i \in 1..Len(g)
        PROVE  g[i] = e \/ \E j \in 1..Len(h) : g[i] = h[j]
    <3>1. i \in 1..Len(h) \/ i = Len(h) + 1
      BY <1>1, <2>1, SMTT(20)
    <3> QED
      BY <1>2, <2>1, <3>1
  <2> QED
    BY <1>1, <1>4, <2>1, <2>2, <2>3, <2>4 DEF a, g
<1> QED
  BY <1>3, <1>4

\* The stamp of the exit that is being handled.
Stamp(c) == <<now, Cardinality({x \in Recent(c) : x[1] = now})>>

\* There are finitely many stamps to count.
LEMMA StampsFinite ==
    ASSUME TypeOK, FiniteCrashes, NEW c \in Cmd, NEW t
    PROVE  /\ IsFiniteSet(StampsOf(crashes[c], t)) /\ Cardinality(StampsOf(crashes[c], t)) \in Nat
           /\ IsFiniteSet(Since(crashes[c], t)) /\ Cardinality(Since(crashes[c], t)) \in Nat
<1>1. IsFiniteSet(crashes[c])
  BY DEF FiniteCrashes
<1>2. IsFiniteSet(StampsOf(crashes[c], t)) /\ IsFiniteSet(Since(crashes[c], t))
  BY <1>1, FS_Subset DEF StampsOf, Since
<1> QED
  BY <1>2, FS_CardinalityType

\* The stamp of the exit is not among those Run() already keeps, the stamps kept
\* with it are all within the window, and they are numbered as before.
LEMMA StampStep ==
    ASSUME TypeOK, FiniteCrashes, Fresh, NEW c \in Cmd
    PROVE  /\ Stamp(c) \notin crashes[c]
           /\ Stamp(c) \in Int \X Nat
           /\ Stamp(c)[1] = now
           /\ WithThisExit(c) = Recent(c) \cup {Stamp(c)}
           /\ WithThisExit(c) # crashes[c]
           /\ \A x \in WithThisExit(c) : x[1] >= now - Window
           /\ \A x \in WithThisExit(c) :
                x[2] < Cardinality(StampsOf(WithThisExit(c), x[1]))
<1> USE LimitAssumption
<1>1. crashes[c] \subseteq Int \X Nat /\ now \in Int
  BY DEF TypeOK
<1>2. {x \in Recent(c) : x[1] = now} = StampsOf(crashes[c], now)
  BY <1>1 DEF Recent, StampsOf
<1>3. IsFiniteSet(StampsOf(crashes[c], now)) /\ Cardinality(StampsOf(crashes[c], now)) \in Nat
  BY StampsFinite
<1>4. Stamp(c) = <<now, Cardinality(StampsOf(crashes[c], now))>>
  BY <1>2 DEF Stamp
<1>5. /\ Stamp(c) \in Int \X Nat
      /\ Stamp(c)[1] = now /\ Stamp(c)[2] = Cardinality(StampsOf(crashes[c], now))
  BY <1>1, <1>3, <1>4
<1>6. Stamp(c) \notin crashes[c]
  <2> SUFFICES ASSUME Stamp(c) \in crashes[c] PROVE FALSE
    OBVIOUS
  <2>1. Cardinality(StampsOf(crashes[c], now)) < Cardinality(StampsOf(crashes[c], now))
    BY <1>5 DEF Fresh
  <2> QED
    BY <1>3, <2>1
<1>7. WithThisExit(c) = Recent(c) \cup {Stamp(c)}
  BY DEF WithThisExit, Stamp
<1>8. \A x \in WithThisExit(c) : x[1] >= now - Window
  BY <1>1, <1>5, <1>7 DEF Recent
<1>9. ASSUME NEW x \in WithThisExit(c)
      PROVE  x[2] < Cardinality(StampsOf(WithThisExit(c), x[1]))
  <2>1. CASE x[1] = now
    <3>1. StampsOf(WithThisExit(c), x[1]) = StampsOf(crashes[c], now) \cup {Stamp(c)}
      BY <1>1, <1>2, <1>5, <1>7, <2>1 DEF Recent, StampsOf
    <3>2. Stamp(c) \notin StampsOf(crashes[c], now)
      BY <1>6 DEF StampsOf
    <3>3. Cardinality(StampsOf(crashes[c], now) \cup {Stamp(c)})
            = Cardinality(StampsOf(crashes[c], now)) + 1
      BY <1>3, <3>2, FS_AddElement
    <3>4. x[2] \in Int /\ x[2] <= Cardinality(StampsOf(crashes[c], now))
      <4>1. CASE x = Stamp(c)
        BY <1>3, <1>5, <4>1
      <4>2. CASE x # Stamp(c)
        <5>1. x \in crashes[c] /\ x[2] \in Int
          BY <1>1, <1>7, <4>2 DEF Recent
        <5>2. x[2] < Cardinality(StampsOf(crashes[c], now))
          BY <2>1, <5>1 DEF Fresh
        <5> QED
          BY <1>3, <5>1, <5>2
      <4> QED
        BY <4>1, <4>2
    <3> QED
      BY <1>3, <3>1, <3>3, <3>4
  <2>2. CASE x[1] # now
    <3>1. x \in Recent(c) /\ x \in crashes[c]
      BY <1>5, <1>7, <2>2 DEF Recent
    <3>2. StampsOf(WithThisExit(c), x[1]) = StampsOf(crashes[c], x[1])
      BY <1>5, <1>7, <2>2, <3>1 DEF Recent, StampsOf
    <3> QED
      BY <3>1, <3>2 DEF Fresh
  <2> QED
    BY <2>1, <2>2
<1> QED
  BY <1>1, <1>5, <1>6, <1>7, <1>8, <1>9

\* Handling an exit adds at most its own stamp to those since t, and exactly it
\* when t is within the window.
LEMMA SinceStep ==
    ASSUME TypeOK, FiniteCrashes, Fresh, NEW c \in Cmd, NEW t \in Int
    PROVE  /\ Cardinality(Since(WithThisExit(c), t)) \in Nat
           /\ Cardinality(Since(WithThisExit(c), t))
                <= Cardinality(Since(crashes[c], t)) + 1
           /\ (now - Window <= t /\ t <= now)
                => Cardinality(Since(WithThisExit(c), t))
                     = Cardinality(Since(crashes[c], t)) + 1
           /\ Since(WithThisExit(c), now - Window) = WithThisExit(c)
<1> USE LimitAssumption
<1> DEFINE old == Since(crashes[c], t)
           new == Since(WithThisExit(c), t)
<1>1. /\ Stamp(c) \notin crashes[c] /\ Stamp(c)[1] = now
      /\ WithThisExit(c) = Recent(c) \cup {Stamp(c)}
      /\ \A x \in WithThisExit(c) : x[1] >= now - Window
  BY StampStep
<1>2. crashes[c] \subseteq Int \X Nat /\ now \in Int
  BY DEF TypeOK
<1>3. IsFiniteSet(old) /\ Cardinality(old) \in Nat
  BY StampsFinite
<1>4. Stamp(c) \notin old /\ Recent(c) \subseteq crashes[c]
  BY <1>1 DEF Since, Recent
<1>5. IsFiniteSet(old \cup {Stamp(c)}) /\ Cardinality(old \cup {Stamp(c)}) = Cardinality(old) + 1
  BY <1>3, <1>4, FS_AddElement
<1>6. new \subseteq old \cup {Stamp(c)}
  BY <1>1, <1>4 DEF Since
<1>7. IsFiniteSet(new) /\ Cardinality(new) <= Cardinality(old) + 1
  BY <1>5, <1>6, FS_Subset
<1>8. Cardinality(new) \in Nat
  BY <1>7, FS_CardinalityType
<1>9. ASSUME now - Window <= t, t <= now
      PROVE  Cardinality(new) = Cardinality(old) + 1
  <2>1. old \cup {Stamp(c)} \subseteq new
    <3>1. old \subseteq new
      BY <1>1, <1>2, <1>9 DEF Since, Recent
    <3>2. Stamp(c) \in new
      BY <1>1, <1>9 DEF Since
    <3> QED
      BY <3>1, <3>2
  <2>2. new = old \cup {Stamp(c)}
    BY <1>6, <2>1
  <2> QED
    BY <1>5, <2>2
<1>10. Since(WithThisExit(c), now - Window) = WithThisExit(c)
  BY <1>1 DEF Since
<1> QED
  BY <1>7, <1>8, <1>9, <1>10

-----------------------------------------------------------------------------
(* What a step of the monitor shows of stamps and histories. *)

\* Run() handles an exit of c.
ExitHandled(c) ==
    /\ c \notin abandoned
    /\ crashes' = [crashes EXCEPT ![c] = WithThisExit(c)]
    /\ handled' = [handled EXCEPT ![c] = LastOf(Append(handled[c], elapsed))]
    /\ abandoned' = IF TooManyExits(c) THEN abandoned \cup {c} ELSE abandoned

\* A step of the monitor handles one exit, of a service not given up yet, or
\* leaves stamps, histories and verdicts alone.
LEMMA MonitorStep ==
    ASSUME IInv, TimedType, Fresh, RunStep
    PROVE  /\ UNCHANGED <<now, elapsed, steps>>
           /\ \/ UNCHANGED <<crashes, handled, abandoned>>
              \/ \E c \in Cmd : ExitHandled(c)
<1> USE NoCmdAssumption
<1>0. TypeOK /\ FiniteCrashes /\ TrackedAreReal /\ OnlyLaunched
  BY DEF IInv, Relations
<1>1. handled \in [Cmd -> Seq(Int)] /\ handled' = [c \in Cmd |->
                     IF \E p \in Pid : Released(p) /\ children[p] = c /\ Handles(c)
                     THEN LastOf(Append(handled[c], elapsed))
                     ELSE handled[c]]
  BY DEF RunStep, TimedType
<1>2. MonitorNext /\ UNCHANGED <<elapsed, steps>>
  BY DEF RunStep
<1>3. ASSUME UNCHANGED <<crashes, abandoned>>
      PROVE  UNCHANGED <<crashes, handled, abandoned>>
  <2>1. \A c \in Cmd : handled'[c] = handled[c]
    BY <1>1, <1>3 DEF Handles
  <2> QED
    BY <1>1, <1>3, <2>1
<1>4. ASSUME NEW p \in Pid, Released(p), children[p] # NoCmd,
             crashes' = [crashes EXCEPT ![children[p]] = WithThisExit(children[p])],
             abandoned' = IF TooManyExits(children[p])
                          THEN abandoned \cup {children[p]} ELSE abandoned
      PROVE  \E c \in Cmd : ExitHandled(c)
  <2> DEFINE c == children[p]
  <2>1. c \in Cmd
    BY <1>0, <1>4 DEF TypeOK
  <2>2. c \notin abandoned
    BY <1>0, <1>4 DEF Released, TrackedAreReal, OnlyLaunched
  <2>3. crashes'[c] # crashes[c] /\ \A d \in Cmd \ {c} : crashes'[d] = crashes[d]
    <3>1. WithThisExit(c) # crashes[c]
      BY <1>0, <2>1, StampStep
    <3> QED
      BY <1>0, <1>4, <2>1, <3>1 DEF TypeOK
  <2>4. handled'[c] = LastOf(Append(handled[c], elapsed))
    BY <1>1, <1>4, <2>1, <2>3 DEF Handles
  <2>5. \A d \in Cmd \ {c} : handled'[d] = handled[d]
    BY <1>1, <2>3 DEF Handles
  <2>6. handled' = [handled EXCEPT ![c] = LastOf(Append(handled[c], elapsed))]
    BY <1>1, <2>4, <2>5, ZenonT(40)
  <2> QED
    BY <1>4, <2>1, <2>2, <2>6 DEF ExitHandled
<1>5. ASSUME NEW p \in Pid, Reap(p)
      PROVE  now' = now /\ (UNCHANGED <<crashes, abandoned>> \/ \E c \in Cmd : ExitHandled(c))
  <2>1. CASE RunUntracked(p)
    BY <2>1 DEF RunUntracked, monitorVars
  <2>2. CASE RunAbandon(p)
    BY <2>2, <1>4 DEF RunAbandon
  <2>3. ASSUME NEW q \in Pid, RunRestart(p, q)
        PROVE  now' = now /\ \E c \in Cmd : ExitHandled(c)
    BY <2>3, <1>4 DEF RunRestart
  <2>4. CASE RunForkFails(p)
    BY <2>4, <1>4 DEF RunForkFails
  <2> QED
    BY <1>5, <2>1, <2>2, <2>3, <2>4 DEF Reap
<1>6. ASSUME ~ \E p \in Pid : Reap(p)
      PROVE  UNCHANGED <<now, crashes, abandoned>>
  BY <1>2, <1>6 DEF MonitorNext, LaunchProcess, LaunchFails, StartRun,
                    RunNoChildren, ChildExits, monitorVars
<1> QED
  BY <1>2, <1>3, <1>5, <1>6

-----------------------------------------------------------------------------
(* Handling an exit keeps the invariant. *)

\* What is left alone around ExitHandled(c).
Around == UNCHANGED <<now, elapsed, steps>>

\* The histories keep their type, and the stamps stay numbered.
LEMMA ExitKeepsTypes ==
    ASSUME IInv, TimedType, Fresh, NEW c \in Cmd, ExitHandled(c), Around
    PROVE  TimedType' /\ Fresh'
<1> USE LimitAssumption
<1> DEFINE h == handled[c]
           g == LastOf(Append(h, elapsed))
<1>0. TypeOK /\ FiniteCrashes
  BY DEF IInv
<1>1. /\ h \in Seq(Int) /\ Len(h) <= Limit + 1 /\ elapsed \in Int
      /\ \A i \in 1..Len(h) : h[i] <= elapsed
  BY DEF TimedType
<1>2. /\ g \in Seq(Int)
      /\ Len(g) = IF Len(h) = Limit + 1 THEN Len(h) ELSE Len(h) + 1
      /\ \A i \in 1..Len(g) : g[i] = elapsed \/ \E j \in 1..Len(h) : g[i] = h[j]
  BY <1>1, HistoryStep
<1>3. Len(h) \in Nat
  BY <1>1
<1> HIDE DEF g, h
<1>4. Len(g) <= Limit + 1 /\ \A i \in 1..Len(g) : g[i] <= elapsed
  <2>1. Len(g) <= Limit + 1
    BY <1>1, <1>2, <1>3
  <2>2. ASSUME NEW i \in 1..Len(g)
        PROVE  g[i] <= elapsed
    <3>1. CASE g[i] = elapsed
      BY <1>1, <3>1
    <3>2. CASE \E j \in 1..Len(h) : g[i] = h[j]
      BY <1>1, <3>2
    <3> QED
      BY <1>2, <3>1, <3>2
  <2> QED
    BY <2>1, <2>2
<1>5. handled' = [handled EXCEPT ![c] = g] /\ elapsed' = elapsed
  BY DEF ExitHandled, Around, g, h
<1>6. TimedType'
  BY <1>2, <1>4, <1>5 DEF TimedType
<1>7. Fresh'
  <2> SUFFICES ASSUME NEW d \in Cmd, NEW x \in crashes'[d]
               PROVE  x[2] < Cardinality(StampsOf(crashes'[d], x[1]))
    BY DEF Fresh
  <2>1. CASE d = c
    <3>1. crashes'[d] = WithThisExit(c)
      BY <1>0, <2>1 DEF ExitHandled, TypeOK
    <3> QED
      BY <1>0, <3>1, StampStep
  <2>2. CASE d # c
    <3>1. crashes'[d] = crashes[d]
      BY <1>0, <2>2 DEF ExitHandled, TypeOK
    <3> QED
      BY <3>1 DEF Fresh
  <2> QED
    BY <2>1, <2>2
<1> QED
  BY <1>6, <1>7

\* Stamps still mean exits: the new stamp stands for the new exit, and each
\* other one for the exit that is now one place further back.
LEMMA ExitKeepsStampsMeanExits ==
    ASSUME IInv, TimedType, Fresh, StampsMeanExits,
           NEW c \in Cmd, ExitHandled(c), Around
    PROVE  StampsMeanExits'
<1> USE LimitAssumption
<1> DEFINE h == handled[c]
           g == LastOf(Append(h, elapsed))
<1>0. TypeOK /\ FiniteCrashes
  BY DEF IInv
<1>1. h \in Seq(Int) /\ Len(h) <= Limit + 1 /\ elapsed \in Int /\ now \in Int
  BY <1>0 DEF TimedType, TypeOK
<1>2. /\ Len(g) = IF Len(h) = Limit + 1 THEN Len(h) ELSE Len(h) + 1
      /\ Latest(g, 1) = elapsed
      /\ \A k \in 2..Len(g) : /\ k - 1 \in 1..Len(h)
                              /\ Latest(g, k) = Latest(h, k - 1)
  BY <1>1, HistoryStep
<1>3. /\ handled'[c] = g /\ crashes'[c] = WithThisExit(c)
      /\ \A d \in Cmd \ {c} : handled'[d] = handled[d] /\ crashes'[d] = crashes[d]
      /\ elapsed' = elapsed /\ now' = now /\ steps' = steps
  BY <1>0 DEF ExitHandled, Around, TimedType, TypeOK
<1>4. Len(h) \in Nat
  BY <1>1
<1> HIDE DEF g, h
<1> SUFFICES ASSUME "back" \notin steps, NEW d \in Cmd
             PROVE  /\ \A x \in crashes'[d] : x[1] <= now
                    /\ \A t \in Int, k \in 1..(Limit + 1) :
                         Cardinality(Since(crashes'[d], t)) >= k =>
                             /\ Len(handled'[d]) >= k
                             /\ Latest(handled'[d], k) - elapsed >= t - now
  BY <1>3 DEF StampsMeanExits
<1>5. CASE d # c
  BY <1>3, <1>5 DEF StampsMeanExits
<1>6. CASE d = c
  <2>1. ASSUME NEW x \in WithThisExit(c)
        PROVE  x[1] <= now
    <3>1. Stamp(c)[1] = now /\ WithThisExit(c) = Recent(c) \cup {Stamp(c)}
      BY <1>0, StampStep
    <3> QED
      BY <1>1, <3>1 DEF Recent, StampsMeanExits
  <2>2. ASSUME NEW t \in Int, NEW k \in 1..(Limit + 1),
               Cardinality(Since(WithThisExit(c), t)) >= k
        PROVE  Len(g) >= k /\ Latest(g, k) - elapsed >= t - now
    <3>1. CASE k = 1
      <4>1. \E x \in WithThisExit(c) : x[1] >= t
        <5> SUFFICES ASSUME ~ \E x \in WithThisExit(c) : x[1] >= t
                     PROVE  FALSE
          OBVIOUS
        <5>1. Since(WithThisExit(c), t) = {}
          BY DEF Since
        <5> QED
          BY <2>2, <3>1, <5>1, FS_EmptySet
      <4>2. PICK x \in WithThisExit(c) : x[1] >= t
        BY <4>1
      <4>3. x[1] <= now /\ x[1] \in Int
        BY <1>0, <2>1, ExitTimesType
      <4>4. t - now <= 0
        BY <1>1, <4>2, <4>3
      <4> QED
        BY <1>1, <1>2, <1>4, <3>1, <4>4
    <3>2. CASE k # 1
      <4>1. k - 1 \in 1..(Limit + 1) /\ Cardinality(Since(crashes[c], t)) >= k - 1
        <5>1. /\ Cardinality(Since(WithThisExit(c), t)) \in Nat
              /\ Cardinality(Since(crashes[c], t)) \in Nat
              /\ Cardinality(Since(WithThisExit(c), t))
                   <= Cardinality(Since(crashes[c], t)) + 1
          BY <1>0, SinceStep, StampsFinite
        <5> QED
          BY <2>2, <3>2, <5>1
      <4>2. Len(h) >= k - 1 /\ Latest(h, k - 1) - elapsed >= t - now
        BY <4>1 DEF StampsMeanExits, h
      <4>3. Len(g) >= k
        BY <1>1, <1>2, <1>4, <4>2
      <4>4. Latest(g, k) = Latest(h, k - 1)
        BY <1>2, <1>4, <3>2, <4>3
      <4> QED
        BY <4>2, <4>3, <4>4
    <3> QED
      BY <3>1, <3>2
  <2> QED
    BY <1>3, <1>6, <2>1, <2>2
<1> QED
  BY <1>5, <1>6

\* Exits still mean stamps: within the window no stamp was erased, and the new
\* one counts for the new exit.
LEMMA ExitKeepsExitsMeanStamps ==
    ASSUME IInv, TimedType, Fresh, ExitsMeanStamps,
           NEW c \in Cmd, ExitHandled(c), Around
    PROVE  ExitsMeanStamps'
<1> USE LimitAssumption
<1> DEFINE h == handled[c]
           g == LastOf(Append(h, elapsed))
<1>0. TypeOK /\ FiniteCrashes
  BY DEF IInv
<1>1. /\ h \in Seq(Int) /\ Len(h) <= Limit + 1 /\ elapsed \in Int /\ now \in Int
      /\ \A i \in 1..Len(h) : h[i] <= elapsed
  BY <1>0 DEF TimedType, TypeOK
<1>2. /\ Len(g) = IF Len(h) = Limit + 1 THEN Len(h) ELSE Len(h) + 1
      /\ Latest(g, 1) = elapsed
      /\ \A k \in 2..Len(g) : /\ k - 1 \in 1..Len(h)
                              /\ Latest(g, k) = Latest(h, k - 1)
  BY <1>1, HistoryStep
<1>3. /\ handled'[c] = g /\ crashes'[c] = WithThisExit(c)
      /\ \A d \in Cmd \ {c} : handled'[d] = handled[d] /\ crashes'[d] = crashes[d]
      /\ elapsed' = elapsed /\ now' = now /\ steps' = steps
  BY <1>0 DEF ExitHandled, Around, TimedType, TypeOK
<1>4. Len(h) \in Nat /\ \A k \in 1..Len(h) : Latest(h, k) \in Int /\ Latest(h, k) <= elapsed
  BY <1>1 DEF Latest
<1> HIDE DEF g, h
<1> SUFFICES ASSUME "forth" \notin steps, NEW d \in Cmd,
                    NEW k \in 1..Len(handled'[d]), NEW w \in Int,
                    w <= Window, Latest(handled'[d], k) >= elapsed - w
             PROVE  Cardinality(Since(crashes'[d], now - w)) >= k
  BY <1>3 DEF ExitsMeanStamps
<1>5. CASE d # c
  BY <1>3, <1>5 DEF ExitsMeanStamps
<1>6. CASE d = c
  <2>1. k \in 1..Len(g) /\ Latest(g, k) >= elapsed - w
    BY <1>3, <1>6
  <2>2. Latest(g, k) \in Int /\ Latest(g, k) <= elapsed
    <3>1. CASE k = 1
      BY <1>1, <1>2, <3>1
    <3>2. CASE k # 1
      <4>1. k - 1 \in 1..Len(h) /\ Latest(g, k) = Latest(h, k - 1)
        BY <1>2, <1>4, <2>1, <3>2
      <4> QED
        BY <1>4, <4>1
    <3> QED
      BY <3>1, <3>2
  <2>3. now - w \in Int /\ now - Window <= now - w /\ now - w <= now
    BY <1>1, <2>1, <2>2
  <2>4. /\ Cardinality(Since(crashes[c], now - w)) \in Nat
        /\ Cardinality(Since(WithThisExit(c), now - w))
             = Cardinality(Since(crashes[c], now - w)) + 1
    BY <1>0, <2>3, SinceStep, StampsFinite
  <2>5. Cardinality(Since(crashes[c], now - w)) >= k - 1
    <3>1. CASE k = 1
      BY <2>4, <3>1
    <3>2. CASE k # 1
      <4>1. k - 1 \in 1..Len(h) /\ Latest(g, k) = Latest(h, k - 1)
        BY <1>2, <1>4, <2>1, <3>2
      <4> QED
        BY <2>1, <4>1 DEF ExitsMeanStamps, h
    <3> QED
      BY <3>1, <3>2
  <2> QED
    BY <1>3, <1>6, <2>1, <2>4, <2>5
<1> QED
  BY <1>5, <1>6

\* The first and the last entry of a full history are its oldest and latest exit.
LEMMA FullHistory ==
    ASSUME NEW h \in Seq(Int), Len(h) = Limit + 1
    PROVE  /\ Head(h) = Latest(h, Limit + 1) /\ Last(h) = Latest(h, 1)
           /\ Latest(h, Limit + 1) \in Int /\ Latest(h, 1) \in Int
<1> USE LimitAssumption
<1>1. Head(h) = h[1] /\ Last(h) = h[Len(h)] /\ h[1] \in Int /\ h[Len(h)] \in Int
  BY DEF Last
<1>2. Latest(h, Limit + 1) = h[1] /\ Latest(h, 1) = h[Len(h)]
  BY DEF Latest
<1> QED
  BY <1>1, <1>2

\* A service is given up at an exit that ends a burst, and at every such exit.
LEMMA ExitKeepsVerdicts ==
    ASSUME TimedInv, NEW c \in Cmd, ExitHandled(c), Around,
           TimedType', StampsMeanExits', ExitsMeanStamps'
    PROVE  AbandonedOnlyAfterBurst' /\ NoRestartStorm'
<1> USE LimitAssumption
<1> DEFINE h == handled[c]
           g == LastOf(Append(h, elapsed))
<1>0. TypeOK /\ FiniteCrashes /\ TimedType /\ Fresh
  BY DEF TimedInv, IInv
<1>1. /\ h \in Seq(Int) /\ Len(h) <= Limit + 1 /\ elapsed \in Int /\ now \in Int
      /\ abandoned \subseteq Cmd
  BY <1>0 DEF TimedType, TypeOK
<1>2. g \in Seq(Int) /\ Latest(g, 1) = elapsed /\ Len(g) \in Nat
  BY <1>1, HistoryStep
<1>3. /\ handled'[c] = g /\ crashes'[c] = WithThisExit(c)
      /\ \A d \in Cmd \ {c} : handled'[d] = handled[d]
      /\ elapsed' = elapsed /\ now' = now /\ steps' = steps
  BY <1>0 DEF ExitHandled, Around, TimedType, TypeOK
<1>4. Len(g) <= Limit + 1
  BY <1>3 DEF TimedType
<1> HIDE DEF g, h
<1>5. /\ Since(WithThisExit(c), now - Window) = WithThisExit(c)
      /\ Cardinality(WithThisExit(c)) \in Nat
  <2>1. now - Window \in Int
    BY <1>1
  <2> QED
    BY <1>0, <2>1, SinceStep
<1>6. \A d \in Cmd \ {c} : /\ Burst(d)' <=> Burst(d)
                           /\ d \in abandoned' <=> d \in abandoned
  BY <1>3 DEF Burst, ExitHandled
<1>7. Burst(c)' <=> Len(g) = Limit + 1 /\ Last(g) - Head(g) <= Window
  BY <1>3 DEF Burst
<1>8. AbandonedOnlyAfterBurst'
  <2> SUFFICES ASSUME "back" \notin steps, NEW d \in abandoned' PROVE Burst(d)'
    BY <1>3 DEF AbandonedOnlyAfterBurst
  <2>1. CASE d # c
    <3>1. d \in abandoned /\ d \in Cmd
      BY <1>1, <2>1 DEF ExitHandled
    <3> QED
      BY <1>6, <2>1, <3>1 DEF TimedInv, AbandonedOnlyAfterBurst
  <2>2. CASE d = c
    <3>1. Cardinality(WithThisExit(c)) >= Limit + 1
      BY <1>1, <1>5, <2>2 DEF ExitHandled, TooManyExits
    <3>2. Len(g) >= Limit + 1 /\ Latest(g, Limit + 1) - elapsed >= (now - Window) - now
      <4>1. now - Window \in Int /\ Limit + 1 \in 1..(Limit + 1)
        BY <1>1
      <4> QED
        BY <1>3, <1>5, <3>1, <4>1 DEF StampsMeanExits
    <3>3. Len(g) = Limit + 1
      BY <1>2, <1>4, <3>2
    <3>4. Last(g) - Head(g) <= Window
      BY <1>1, <1>2, <3>2, <3>3, FullHistory, SMTT(30)
    <3> QED
      BY <1>7, <2>2, <3>3, <3>4
  <2> QED
    BY <2>1, <2>2
<1>9. NoRestartStorm'
  <2> SUFFICES ASSUME "forth" \notin steps, NEW d \in Cmd, Burst(d)' PROVE d \in abandoned'
    BY <1>3 DEF NoRestartStorm
  <2>1. CASE d # c
    BY <1>6, <2>1 DEF TimedInv, NoRestartStorm
  <2>2. CASE d = c
    <3>1. Len(g) = Limit + 1 /\ Last(g) - Head(g) <= Window
      BY <1>7, <2>2
    <3>2. Latest(g, Limit + 1) >= elapsed - Window
      BY <1>1, <1>2, <3>1, FullHistory
    <3>3. Cardinality(WithThisExit(c)) >= Limit + 1
      <4>1. Limit + 1 \in 1..Len(g) /\ Window \in Int /\ Window <= Window
        BY <3>1
      <4> QED
        BY <1>3, <1>5, <3>2, <4>1 DEF ExitsMeanStamps
    <3>4. TooManyExits(c)
      BY <1>5, <3>3 DEF TooManyExits
    <3> QED
      BY <2>2, <3>4 DEF ExitHandled
  <2> QED
    BY <2>1, <2>2
<1> QED
  BY <1>8, <1>9

-----------------------------------------------------------------------------
(* The steps of time and of the clock. *)

\* A step of time or of the clock leaves the exits alone.  Without steps back the
\* clock shows at least the time that passes, and without steps forth at most.
ClockMoves ==
    /\ UNCHANGED <<crashes, handled, abandoned>>
    /\ now' \in Int /\ elapsed' \in Nat /\ steps \subseteq steps'
    /\ elapsed' >= elapsed
    /\ "back" \notin steps' => now' - now >= elapsed' - elapsed
    /\ "forth" \notin steps' => now' - now <= elapsed' - elapsed

\* Time and clock keep everything but IInv, which is about ProcessMonitor alone.
LEMMA ClockStep ==
    ASSUME TimedInv, ClockMoves
    PROVE  /\ TimedType' /\ Fresh' /\ StampsMeanExits' /\ ExitsMeanStamps'
           /\ AbandonedOnlyAfterBurst' /\ NoRestartStorm'
<1> USE LimitAssumption
<1>1. TypeOK /\ FiniteCrashes /\ TimedType
  BY DEF TimedInv, IInv
<1>2. elapsed \in Int /\ now \in Int /\ elapsed' \in Nat /\ now' \in Int
  BY <1>1 DEF TypeOK, TimedType, ClockMoves
<1>3. SUFFICES ASSUME NEW m \in Int, NEW f \in Nat, now' = m, elapsed' = f
               PROVE  /\ TimedType' /\ Fresh' /\ StampsMeanExits' /\ ExitsMeanStamps'
                      /\ AbandonedOnlyAfterBurst' /\ NoRestartStorm'
  BY <1>2
<1>4. /\ elapsed \in Int /\ now \in Int /\ m \in Int /\ f \in Int /\ f >= elapsed
      /\ "back" \notin steps' => "back" \notin steps /\ m - now >= f - elapsed
      /\ "forth" \notin steps' => "forth" \notin steps /\ m - now <= f - elapsed
  BY <1>2, <1>3 DEF ClockMoves
<1>5. TimedType'
  BY <1>1, <1>2 DEF ClockMoves, TimedType
<1>6. Fresh'
  BY DEF TimedInv, ClockMoves, Fresh
<1>7. StampsMeanExits'
  <2> SUFFICES ASSUME "back" \notin steps', NEW c \in Cmd
               PROVE  /\ \A x \in crashes[c] : x[1] <= m
                      /\ \A t \in Int, k \in 1..(Limit + 1) :
                           Cardinality(Since(crashes[c], t)) >= k =>
                               /\ Len(handled[c]) >= k
                               /\ Latest(handled[c], k) - f >= t - m
    BY <1>3 DEF StampsMeanExits, ClockMoves
  <2>1. "back" \notin steps /\ m >= now /\ f - m <= elapsed - now
    BY <1>4
  <2>2. ASSUME NEW x \in crashes[c]
        PROVE  x[1] <= m
    <3>1. x[1] <= now /\ x[1] \in Int
      BY <1>1, <2>1 DEF TimedInv, StampsMeanExits, TypeOK
    <3> QED
      BY <1>4, <2>1, <3>1
  <2>3. ASSUME NEW t \in Int, NEW k \in 1..(Limit + 1),
               Cardinality(Since(crashes[c], t)) >= k
        PROVE  Len(handled[c]) >= k /\ Latest(handled[c], k) - f >= t - m
    <3>1. Len(handled[c]) >= k /\ Latest(handled[c], k) - elapsed >= t - now
      BY <2>1, <2>3 DEF TimedInv, StampsMeanExits
    <3>2. Latest(handled[c], k) \in Int
      BY <1>1, <3>1 DEF TimedType, Latest
    <3> QED
      BY <1>4, <2>1, <3>1, <3>2
  <2> QED
    BY <2>2, <2>3
<1>8. ExitsMeanStamps'
  <2> SUFFICES ASSUME "forth" \notin steps', NEW c \in Cmd,
                      NEW k \in 1..Len(handled[c]), NEW w \in Int,
                      w <= Window, Latest(handled[c], k) >= f - w
               PROVE  Cardinality(Since(crashes[c], m - w)) >= k
    BY <1>3 DEF ExitsMeanStamps, ClockMoves
  <2> DEFINE v == w - (f - elapsed)
  <2>1. /\ "forth" \notin steps /\ v \in Int /\ v <= Window
        /\ f - w = elapsed - v /\ m - w <= now - v
        /\ m - w \in Int /\ now - v \in Int
    BY <1>4
  <2> HIDE DEF v
  <2>2. Cardinality(Since(crashes[c], now - v)) >= k
    BY <2>1 DEF TimedInv, ExitsMeanStamps
  <2>3. Since(crashes[c], now - v) \subseteq Since(crashes[c], m - w)
    <3>1. \A x \in crashes[c] : x[1] \in Int
      BY <1>1 DEF TypeOK
    <3>2. \A i \in Int : i >= now - v => i >= m - w
      BY <2>1
    <3> QED
      BY <3>1, <3>2 DEF Since
  <2>4. /\ IsFiniteSet(Since(crashes[c], m - w))
        /\ Cardinality(Since(crashes[c], m - w)) \in Nat
        /\ Cardinality(Since(crashes[c], now - v)) \in Nat
    BY <1>1, StampsFinite
  <2>5. Cardinality(Since(crashes[c], now - v)) <= Cardinality(Since(crashes[c], m - w))
    BY <2>3, <2>4, FS_Subset
  <2> QED
    BY <2>2, <2>4, <2>5
<1>9. AbandonedOnlyAfterBurst' /\ NoRestartStorm'
  BY DEF TimedInv, ClockMoves, AbandonedOnlyAfterBurst, NoRestartStorm, Burst
<1> QED
  BY <1>5, <1>6, <1>7, <1>8, <1>9

-----------------------------------------------------------------------------
(* The theorems. *)

\* The counting invariant holds throughout.
THEOREM TimedInvariance == TimedSpec => []TimedInv
<1>1. TimedInit => TimedInv
  <2> SUFFICES ASSUME TimedInit PROVE TimedInv
    OBVIOUS
  <2>1. IInv
    BY InitIInv DEF TimedInit
  <2>2. /\ crashes = [c \in Cmd |-> {}] /\ handled = [c \in Cmd |-> <<>>]
        /\ abandoned = {} /\ elapsed = 0
    BY DEF TimedInit, Init
  <2>3. TimedType /\ Fresh
    BY <2>2, LimitAssumption DEF TimedType, Fresh
  <2>4. \A c \in Cmd, t \in Int : Cardinality(Since(crashes[c], t)) = 0
    <3>1. \A c \in Cmd, t \in Int : Since(crashes[c], t) = {}
      BY <2>2 DEF Since
    <3> QED
      BY <3>1, FS_EmptySet
  <2>5. StampsMeanExits
    BY <2>2, <2>4 DEF StampsMeanExits
  <2>6. ExitsMeanStamps
    BY <2>2 DEF ExitsMeanStamps
  <2>7. AbandonedOnlyAfterBurst /\ NoRestartStorm
    BY <2>2, LimitAssumption DEF AbandonedOnlyAfterBurst, NoRestartStorm, Burst
  <2> QED
    BY <2>1, <2>3, <2>5, <2>6, <2>7 DEF TimedInv
<1>2. TimedInv /\ [TimedNext]_timedVars => TimedInv'
  <2> SUFFICES ASSUME TimedInv, [TimedNext]_timedVars PROVE TimedInv'
    OBVIOUS
  <2>1. IInv /\ TimedType /\ Fresh /\ StampsMeanExits /\ ExitsMeanStamps
    BY DEF TimedInv
  <2>2. now \in Int /\ elapsed \in Nat
    BY <2>1 DEF IInv, TypeOK, TimedType
  <2>3. [Next]_vars
    BY DEF TimedNext, RunStep, SecondPasses, ClockStepped, Next, timedVars
  <2>4. IInv'
    BY <2>1, <2>3, TypeStep, RelationsStep DEF IInv
  <2>5. CASE \E c \in Cmd : ExitHandled(c) /\ Around
    <3>1. PICK c \in Cmd : ExitHandled(c) /\ Around
      BY <2>5
    <3>2. TimedType' /\ Fresh'
      BY <2>1, <3>1, ExitKeepsTypes
    <3>3. StampsMeanExits'
      BY <2>1, <3>1, ExitKeepsStampsMeanExits
    <3>4. ExitsMeanStamps'
      BY <2>1, <3>1, ExitKeepsExitsMeanStamps
    <3>5. AbandonedOnlyAfterBurst' /\ NoRestartStorm'
      BY <3>1, <3>2, <3>3, <3>4, ExitKeepsVerdicts
    <3> QED
      BY <2>4, <3>2, <3>3, <3>4, <3>5 DEF TimedInv
  <2>6. CASE ClockMoves
    BY <2>4, <2>6, ClockStep DEF TimedInv
  <2>7. CASE RunStep
    <3>1. CASE UNCHANGED <<crashes, handled, abandoned>>
      <4>1. ClockMoves
        BY <2>1, <2>2, <2>7, <3>1, MonitorStep DEF ClockMoves
      <4> QED
        BY <2>6, <4>1
    <3>2. CASE \E c \in Cmd : ExitHandled(c)
      <4>1. Around
        BY <2>1, <2>7, MonitorStep DEF Around
      <4> QED
        BY <2>5, <3>2, <4>1
    <3> QED
      BY <2>1, <2>7, <3>1, <3>2, MonitorStep
  <2>8. CASE SecondPasses
    <3>1. ClockMoves
      BY <2>2, <2>8 DEF SecondPasses, Tick, ClockMoves, monitorVars
    <3> QED
      BY <2>6, <3>1
  <2>9. CASE ClockStepped
    <3>1. PICK d \in Adjustments : /\ AdjustClock(d)
                                   /\ steps' = steps \cup {IF d < 0 THEN "back" ELSE "forth"}
      BY <2>9 DEF ClockStepped
    <3>2. d \in Int /\ elapsed' = elapsed /\ handled' = handled
      BY <2>9, ClockAssumption DEF ClockStepped
    <3>3. ClockMoves
      <4>1. now' = now + d /\ UNCHANGED <<crashes, abandoned>>
        BY <3>1 DEF AdjustClock, monitorVars
      <4>2. CASE d < 0
        BY <2>2, <3>1, <3>2, <4>1, <4>2 DEF ClockMoves
      <4>3. CASE ~(d < 0)
        BY <2>2, <3>1, <3>2, <4>1, <4>3 DEF ClockMoves
      <4> QED
        BY <4>2, <4>3
    <3> QED
      BY <2>6, <3>3
  <2>10. CASE UNCHANGED timedVars
    <3>1. ClockMoves
      BY <2>2, <2>10 DEF timedVars, vars, monitorVars, ClockMoves
    <3> QED
      BY <2>6, <3>1
  <2> QED
    BY <2>7, <2>8, <2>9, <2>10 DEF TimedNext
<1> QED
  BY <1>1, <1>2, PTL DEF TimedSpec

\* A service is given up only after a real burst of exits, as long as the clock
\* was never set back, whatever the limit and the window (ProcessMonitor.cpp:115-125).
THEOREM GivenUpForABurst == TimedSpec => []AbandonedOnlyAfterBurst
<1>1. TimedInv => AbandonedOnlyAfterBurst
  BY DEF TimedInv
<1> QED
  BY <1>1, TimedInvariance, PTL

\* Every real burst makes the monitor give up, as long as the clock was never set
\* forward: the relaunch loop cannot spin.
THEOREM NoSpin == TimedSpec => []NoRestartStorm
<1>1. TimedInv => NoRestartStorm
  BY DEF TimedInv
<1> QED
  BY <1>1, TimedInvariance, PTL
=============================================================================
