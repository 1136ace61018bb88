------------------------- MODULE FontMonitor_proofs -------------------------
(***************************************************************************)
(* Proofs about FontMonitor: for any paths, trees, faults and restarts,    *)
(* m_isPathAdded is right about the X font path but for paths in doubt,    *)
(* and what is in it belongs to a FontFolder.  The two rest on who can     *)
(* wait for the xset process, on which FontFolder the thread has in hand,  *)
(* and on m_isPathAdded going with its FontFolder, not on the file tree.   *)
(***************************************************************************)
EXTENDS FontMonitor, TLAPS

ChildState == {"none", "forked", "grouped", "ok", "refused", "killed", "reaped"}

Commanding == {"setpgid", "wait"}

\* There is a child while the thread waits for it; it has left WSLGd's group
\* before it calls exec, so that Run can only take one that was killed.
ChildInv ==
    /\ child \in [state : ChildState, pgrp : {"WSLGd", "own"}]
    /\ call \in [isAdd : BOOLEAN, back : {"scan", "watch", "unwatch"}]
    /\ obj = [path |-> obj.path, wd |-> obj.wd]
    /\ at \in Commanding => child.state # "none"
    /\ child.state # "none" => at \in Commanding \cup {"aborted"}
    /\ child.state \in {"grouped", "ok", "refused"} => child.pgrp = "own"
    /\ child.state = "refused" => call.isAdd
    /\ child.state \in {"killed", "reaped"} => "failed" \in lapses

\* m_isPathAdded and the X font path differ by what the command just did, and in
\* the paths in doubt.
Belief == IF child.state # "ok" THEN added
          ELSE IF call.isAdd THEN added \cup {obj.path} ELSE added \ {obj.path}

Doubt == IF child.state # "ok" THEN doubt ELSE doubt \ {obj.path}

BeliefInv ==
    /\ "restarted" \notin lapses => xpath \ Doubt = Belief \ Doubt
    /\ xpath \subseteq Belief \cup Doubt
    /\ child.state = "killed" => obj.path \in doubt
    /\ doubt # {} => "failed" \in lapses

\* The FontFolder in hand.
Held == IF at \in {"sleep", "setpgid", "wait", "watch", "unwatch", "aborted"} THEN {obj.path} ELSE {}

\* It is not in the map yet, or any more.
Unlisted ==
    \/ at \in {"check", "watch", "unwatch"}
    \/ at \in {"sleep", "setpgid", "wait"} /\ call.back \in {"watch", "unwatch"}

HeldInv ==
    /\ call.back = "unwatch" /\ at \in {"sleep", "setpgid", "wait"} => ~call.isAdd
    /\ call.back = "scan" /\ at \in {"sleep", "setpgid", "wait"} => obj.path \in Tracked
    /\ Unlisted => obj.path \notin Tracked
    /\ added \subseteq Tracked \cup Held
    /\ "failed" \notin lapses /\ at = "unwatch" => obj.path \notin added
    /\ at \in {"start", "stopped"} => Tracked = {}

IInv == ChildInv /\ BeliefInv /\ HeldInv

LEMMA InitInv == Init => IInv
  BY DEF Init, IInv, ChildInv, BeliefInv, Belief, Doubt, HeldInv, Held, Unlisted, Tracked, NoChild, ChildState, Commanding

\* Steps that leave the monitor and its child alone.
LEMMA FrameInv ==
    ASSUME IInv, UNCHANGED <<folders, added, obj, at, call, child, xpath, doubt>>,
           lapses \subseteq lapses'
    PROVE  IInv'
  BY DEF IInv, ChildInv, BeliefInv, Belief, Doubt, HeldInv, Unlisted, Held, Tracked

LEMMA TreeInv == IInv /\ TreeStep => IInv'
<1> SUFFICES ASSUME IInv, TreeStep PROVE IInv'
  OBVIOUS
<1>1. PICK S : Changes(S)
  BY DEF TreeStep, MakeFolder, RemoveFolder, ChangeFonts, MoveFolder
<1>2. UNCHANGED <<folders, added, obj, at, call, child, xpath, doubt>> /\ lapses \subseteq lapses'
  BY <1>1 DEF Changes, Fault, monitor
<1> QED
  BY <1>2, FrameInv

\* ExecuteShellCommand, in the parent.
LEMMA CommandInv == IInv /\ (Fork \/ ForkFails \/ SetGroup) => IInv'
<1> SUFFICES ASSUME IInv, Fork \/ ForkFails \/ SetGroup PROVE IInv'
  OBVIOUS
<1> USE DEF IInv
<1>1. CASE Fork
  <2> USE <1>1 DEF Fork, history
  <2>1. child.state = "none"
    BY DEF ChildInv, Commanding
  <2>2. ChildInv'
    BY <2>1 DEF ChildInv, ChildState, Commanding
  <2>3. BeliefInv'
    BY <2>1 DEF BeliefInv, Belief, Doubt
  <2>4. HeldInv'
    BY DEF HeldInv, Unlisted, Held, Tracked, ChildInv
  <2> QED
    BY <2>2, <2>3, <2>4
<1>2. CASE ForkFails
  <2> USE <1>2 DEF ForkFails, Fault
  <2>1. ChildInv'
    BY DEF ChildInv, Commanding
  <2>2. BeliefInv'
    BY DEF BeliefInv, Belief, Doubt
  <2>3. HeldInv'
    BY DEF HeldInv, Unlisted, ChildInv, Held, Tracked
  <2> QED
    BY <2>1, <2>2, <2>3
<1>3. CASE SetGroup
  <2> USE <1>3 DEF SetGroup, ParentGroups, history
  <2>1. child'.state = child.state /\ child'.pgrp \in {child.pgrp, "own"}
        /\ child' \in [state : ChildState, pgrp : {"WSLGd", "own"}]
    BY DEF ChildInv
  <2>2. ChildInv'
    BY <2>1 DEF ChildInv, Commanding
  <2>3. BeliefInv'
    BY <2>1 DEF BeliefInv, Belief, Doubt
  <2>4. HeldInv'
    BY DEF HeldInv, Unlisted, Held, Tracked
  <2> QED
    BY <2>2, <2>3, <2>4
<1> QED
  BY <1>1, <1>2, <1>3

\* The child, and whoever else waits for it.
LEMMA ChildStepInv == IInv /\ (ChildStep \/ ChildKilled) => IInv'
<1> SUFFICES ASSUME IInv, ChildStep \/ ChildKilled PROVE IInv'
  OBVIOUS
<1> USE DEF IInv
<1>1. UNCHANGED <<folders, added, obj, at, call>> /\ lapses \subseteq lapses'
  BY DEF ChildStep, ChildSetsGroup, ChildRuns, RunReaps, ChildKilled, monitor, history, Fault
<1>2. HeldInv'
  BY <1>1 DEF HeldInv, Unlisted, Held, Tracked
<1>3. CASE ChildSetsGroup
  BY <1>1, <1>2, <1>3 DEF ChildSetsGroup, ChildGroup, history, ChildInv, ChildState, BeliefInv, Belief, Doubt
<1>4. CASE ChildRuns
  <2> USE <1>4 DEF ChildRuns, history
  <2>1. /\ child'.pgrp = "own" /\ child.state # "ok"
        /\ Refused => child'.state = "refused" /\ xpath' = xpath
        /\ ~Refused => child'.state = "ok" /\ xpath' = IF call.isAdd THEN xpath \cup {obj.path}
                                                                     ELSE xpath \ {obj.path}
    BY DEF ChildInv, Modified
  <2>2. ChildInv'
    BY <1>1, <2>1 DEF ChildInv, ChildState, Refused
  <2>3. BeliefInv'
    BY <1>1, <2>1 DEF BeliefInv, Belief, Doubt
  <2> QED
    BY <1>2, <2>2, <2>3
<1>5. CASE RunReaps
  <2> USE <1>5 DEF RunReaps, Exited, history
  <2>1. child.state = "killed" /\ child'.state = "reaped" /\ child'.pgrp = child.pgrp
    BY DEF ChildInv
  <2>2. ChildInv'
    BY <1>1, <2>1 DEF ChildInv, ChildState
  <2>3. BeliefInv'
    BY <1>1, <2>1 DEF BeliefInv, Belief, Doubt
  <2> QED
    BY <1>2, <2>2, <2>3
<1>6. CASE ChildKilled
  <2> USE <1>6 DEF ChildKilled, Fault
  <2>1. child'.state = "killed" /\ child'.pgrp = child.pgrp /\ child.state # "ok"
    BY DEF ChildInv
  <2>2. ChildInv'
    BY <1>1, <2>1 DEF ChildInv, ChildState
  <2>3. \A p : p # obj.path => (p \in xpath' <=> p \in xpath)
    BY DEF Modified
  <2>4. doubt' = doubt \cup {obj.path} /\ obj.path \in doubt' /\ "failed" \in lapses'
        /\ ("restarted" \in lapses' <=> "restarted" \in lapses)
    OBVIOUS
  <2>5. Belief' = added /\ Belief = added /\ Doubt' = doubt' /\ Doubt = doubt
    BY <1>1, <2>1 DEF Belief, Doubt
  <2>6. BeliefInv'
    BY <1>1, <2>1, <2>3, <2>4, <2>5 DEF BeliefInv
  <2> QED
    BY <1>2, <2>2, <2>6
<1> QED
  BY <1>3, <1>4, <1>5, <1>6 DEF ChildStep

LEMMA WaitInv == IInv /\ WaitChild => IInv'
<1> SUFFICES ASSUME IInv, WaitChild PROVE IInv'
  OBVIOUS
<1> USE DEF IInv, WaitChild, Exited, Believed, NoChild, history
<1>1. ChildInv'
  BY DEF ChildInv, ChildState, Commanding
<1>2. BeliefInv'
  BY DEF BeliefInv, Belief, Doubt
<1>3. HeldInv'
  <2>1. "failed" \notin lapses => child.state = "ok" \/ (child.state = "refused" /\ call.isAdd)
    BY DEF ChildInv
  <2>2. /\ call.back = "unwatch" => ~call.isAdd
        /\ call.back = "scan" <=> obj.path \in Tracked
        /\ call.back \in {"scan", "watch", "unwatch"}
    BY DEF HeldInv, Unlisted, ChildInv
  <2>3. added' \subseteq Tracked \cup {obj.path}
    BY DEF HeldInv, Held
  <2>4. call.back = "unwatch" /\ "failed" \notin lapses => obj.path \notin added'
    BY <2>1, <2>2
  <2> QED
    BY <2>2, <2>3, <2>4 DEF HeldInv, Unlisted, Held, Tracked
<1> QED
  BY <1>1, <1>2, <1>3

\* The thread has no child, and the belief is not touched.
LEMMA QuietInv ==
    ASSUME IInv, at \notin Commanding \cup {"aborted"},
           UNCHANGED <<added, child, xpath, lapses, doubt>>,
           call' \in [isAdd : BOOLEAN, back : {"scan", "watch", "unwatch"}],
           obj' = [path |-> obj'.path, wd |-> obj'.wd],
           at' \notin Commanding
    PROVE  ChildInv' /\ BeliefInv'
<1>1. child.state = "none"
  BY DEF IInv, ChildInv, Commanding
<1>2. ChildInv'
  BY <1>1 DEF IInv, ChildInv, Commanding
<1>3. BeliefInv'
  BY <1>1 DEF IInv, BeliefInv, Belief, Doubt
<1> QED
  BY <1>2, <1>3

LEMMA ModifyQuiet ==
    ASSUME IInv, NEW f, f = [path |-> f.path, wd |-> f.wd],
           NEW isAdd \in BOOLEAN, NEW back \in {"scan", "watch", "unwatch"},
           at \notin Commanding \cup {"aborted"}, Modify(f, isAdd, back),
           UNCHANGED <<added, child, xpath, lapses, doubt>>
    PROVE  ChildInv' /\ BeliefInv'
<1>1. call' \in [isAdd : BOOLEAN, back : {"scan", "watch", "unwatch"}]
  BY DEF Modify
<1>2. obj' = [path |-> obj'.path, wd |-> obj'.wd]
  BY DEF Modify
<1>3. at' \notin Commanding
  BY DEF Modify, Commanding
<1> QED
  BY <1>1, <1>2, <1>3, QuietInv

LEMMA FolderInv == IInv /\ (CheckFolder \/ AddWatch) => IInv'
<1> SUFFICES ASSUME IInv, CheckFolder \/ AddWatch PROVE IInv'
  OBVIOUS
<1>1. CASE CheckFolder
  <2>0. at = "check" /\ UNCHANGED <<added, child, xpath, lapses, folders, doubt>>
    BY <1>1 DEF CheckFolder
  <2>1. Modify(obj, TRUE, "watch") \/ (at' = "watch" /\ UNCHANGED <<obj, call>>)
    BY <1>1 DEF CheckFolder
  <2>3. ChildInv' /\ BeliefInv'
    <3>1. CASE Modify(obj, TRUE, "watch")
      BY <2>0, <3>1, ModifyQuiet DEF IInv, ChildInv, Commanding
    <3>2. CASE at' = "watch" /\ UNCHANGED <<obj, call>>
      BY <2>0, <3>2, QuietInv DEF IInv, ChildInv, Commanding
    <3> QED
      BY <2>1, <3>1, <3>2
  <2>2. HeldInv'
    BY <2>0, <2>1 DEF IInv, HeldInv, Unlisted, Held, Tracked, Modify
  <2> QED
    BY <2>3, <2>2 DEF IInv
<1>2. CASE AddWatch
  <2>1. \/ /\ folders' = With(folders, obj.path, obj'.wd)
           /\ obj' = [path |-> obj.path, wd |-> obj'.wd]
           /\ at' = "list" /\ call' = call
        \/ /\ Modify(obj, FALSE, "unwatch") /\ folders' = folders
    <3>1. obj = [path |-> obj.path, wd |-> obj.wd]
      BY DEF IInv, ChildInv
    <3>2. PICK wd : IF Keeps(wd)
                    THEN /\ folders' = With(folders, obj.path, wd)
                         /\ obj' = [obj EXCEPT !.wd = wd]
                         /\ at' = "list"
                         /\ UNCHANGED call
                    ELSE Modify(obj, FALSE, "unwatch") /\ UNCHANGED folders
      BY <1>2 DEF AddWatch
    <3>3. CASE Keeps(wd)
      <4>1. obj' = [path |-> obj.path, wd |-> wd]
        BY <3>1, <3>2, <3>3
      <4> QED
        BY <3>2, <3>3, <4>1
    <3> QED
      BY <3>2, <3>3
  <2>2. at = "watch" /\ UNCHANGED <<added, child, xpath, lapses, doubt>>
    BY <1>2 DEF AddWatch, history
  <2>3. ChildInv' /\ BeliefInv'
    <3>1. CASE Modify(obj, FALSE, "unwatch")
      BY <2>2, <3>1, ModifyQuiet DEF IInv, ChildInv, Commanding
    <3>2. CASE obj' = [path |-> obj.path, wd |-> obj'.wd] /\ at' = "list" /\ call' = call
      <4>1. obj' = [path |-> obj'.path, wd |-> obj'.wd]
        BY <3>2
      <4> QED
        BY <2>2, <3>2, <4>1, QuietInv DEF IInv, ChildInv, Commanding
    <3> QED
      BY <2>1, <3>1, <3>2
  <2>4. HeldInv'
    <3>1. added \subseteq Tracked \cup {obj.path} /\ obj.path \notin Tracked
      BY <2>2 DEF IInv, HeldInv, Unlisted, Held, Tracked
    <3>2. CASE folders' = With(folders, obj.path, obj'.wd) /\ at' = "list"
      <4>1. Tracked' = Tracked \cup {obj.path}
        BY <3>2 DEF Tracked, With
      <4> QED
        BY <2>2, <3>1, <3>2, <4>1 DEF HeldInv, Unlisted, Held, Tracked
    <3>3. CASE Modify(obj, FALSE, "unwatch") /\ folders' = folders
      BY <2>2, <3>1, <3>3 DEF HeldInv, Unlisted, Held, Tracked, Modify
    <3> QED
      BY <2>1, <3>2, <3>3
  <2> QED
    BY <2>3, <2>4 DEF IInv
<1> QED
  BY <1>1, <1>2

\* A FontFolder leaves the map and is destroyed, or was not in it.
LEMMA RemoveInv ==
    ASSUME NEW p, IInv, at \in {"scan", "stop"}, RemoveMonitorFolder(p),
           UNCHANGED <<added, child, xpath, lapses, doubt>>
    PROVE  IInv'
<1>1. ChildInv' /\ BeliefInv'
  <2>1. CASE p \in Tracked
    <3> DEFINE f == [path |-> p, wd |-> folders[p]]
    <3>1. f = [path |-> f.path, wd |-> f.wd] /\ Modify(f, FALSE, "unwatch")
      BY <2>1 DEF RemoveMonitorFolder
    <3> QED
      BY <3>1, ModifyQuiet DEF Commanding
  <2>2. CASE p \notin Tracked
    BY <2>2, QuietInv DEF RemoveMonitorFolder, IInv, ChildInv, Commanding
  <2> QED
    BY <2>1, <2>2
<1>2. added \subseteq Tracked
  BY DEF IInv, HeldInv, Unlisted, Held, Tracked
<1>3. Tracked' = Tracked \ {p}
  BY DEF RemoveMonitorFolder, Erased, Without, Tracked
<1>4. HeldInv'
  BY <1>2, <1>3 DEF HeldInv, Unlisted, Held, RemoveMonitorFolder, Modify, Tracked
<1> QED
  BY <1>1, <1>4 DEF IInv

\* The visits: nothing is modified but the thread's position and object.
LEMMA VisitInv ==
    ASSUME IInv, at \in {"scan", "list", "stop"},
           \/ at' \in {"scan", "list", "stop"} /\ UNCHANGED obj
           \/ at' = "check" /\ \E p : p \notin Tracked /\ obj' = [path |-> p, wd |-> NONE],
           UNCHANGED <<folders, call, added, child, xpath, lapses, doubt>>
    PROVE  IInv'
<1>1. obj' = [path |-> obj'.path, wd |-> obj'.wd]
  BY DEF IInv, ChildInv
<1>2. ChildInv' /\ BeliefInv'
  BY <1>1, QuietInv DEF IInv, ChildInv, Commanding
<1>3. HeldInv'
  BY DEF IInv, HeldInv, Unlisted, Held, Tracked
<1> QED
  BY <1>2, <1>3 DEF IInv

LEMMA ScanInv == IInv /\ (ListFolder \/ Scan) => IInv'
<1> SUFFICES ASSUME IInv, ListFolder \/ Scan PROVE IInv'
  OBVIOUS
<1>1. at \in {"scan", "list"} /\ UNCHANGED <<folders, call, added, child, xpath, lapses, doubt>>
  BY DEF ListFolder, Scan, AddMonitorFolder, history
<1>2. \/ at' \in {"scan", "list"} /\ UNCHANGED obj
      \/ at' = "check" /\ \E p : p \notin Tracked /\ obj' = [path |-> p, wd |-> NONE]
  BY DEF ListFolder, Scan, AddMonitorFolder
<1> QED
  BY <1>1, <1>2, VisitInv

\* The belief goes with the FontFolder, and leaves the path in doubt.
LEMMA UnwatchInv == IInv /\ Unwatch => IInv'
<1> SUFFICES ASSUME IInv, Unwatch PROVE IInv'
  OBVIOUS
<1>1. /\ at = "unwatch" /\ at' \in {"scan", "stop"}
      /\ added' = added \ {obj.path} /\ doubt' = doubt \cup (added \cap {obj.path})
      /\ UNCHANGED <<folders, obj, call, child, xpath, lapses>>
  BY DEF Unwatch
<1>2. child.state = "none" /\ ("failed" \notin lapses => obj.path \notin added)
  BY <1>1 DEF IInv, ChildInv, HeldInv, Commanding
<1>3. ChildInv'
  BY <1>1, <1>2 DEF IInv, ChildInv, Commanding
<1>4. BeliefInv'
  BY <1>1, <1>2 DEF IInv, BeliefInv, Belief, Doubt
<1>5. HeldInv'
  BY <1>1 DEF IInv, HeldInv, Unlisted, Held, Tracked
<1> QED
  BY <1>3, <1>4, <1>5 DEF IInv

LEMMA HandleInv == IInv /\ HandleEvent => IInv'
<1> SUFFICES ASSUME IInv, HandleEvent PROVE IInv'
  OBVIOUS
<1>1. at = "scan" /\ UNCHANGED <<added, child, xpath, lapses, doubt>>
  BY DEF HandleEvent, Reading, history
<1> DEFINE event == Head(queue)
<1>2. \/ UNCHANGED <<folders, at, obj, call>>
      \/ \E p \in Tracked : HandleFolderEvent(p, event) \/ HandleFontsDirEvent(p, event)
  BY DEF HandleEvent
<1> HIDE DEF event
<1>3. CASE UNCHANGED <<folders, at, obj, call>>
  BY <1>1, <1>3, VisitInv
<1>4. ASSUME NEW p \in Tracked, HandleFolderEvent(p, event) PROVE IInv'
  <2>1. \/ RemoveMonitorFolder(Append(p, event.name))
        \/ AddMonitorFolder(Append(p, event.name), scans)
        \/ UNCHANGED <<folders, at, obj, call>>
    BY <1>4 DEF HandleFolderEvent
  <2>2. CASE AddMonitorFolder(Append(p, event.name), scans)
    BY <1>1, <2>2, VisitInv DEF AddMonitorFolder
  <2>3. CASE RemoveMonitorFolder(Append(p, event.name))
    BY <1>1, <2>3, RemoveInv
  <2> QED
    BY <1>3, <2>1, <2>2, <2>3
<1>5. ASSUME NEW p \in Tracked, HandleFontsDirEvent(p, event) PROVE IInv'
  <2>1. folders' = folders
    BY <1>5 DEF HandleFontsDirEvent
  <2>2. \/ UNCHANGED <<at, obj, call>>
        \/ Modify([path |-> p, wd |-> folders[p]], event.kind = "add", "scan")
    BY <1>5 DEF HandleFontsDirEvent
  <2>3. CASE Modify([path |-> p, wd |-> folders[p]], event.kind = "add", "scan")
    <3>1. (event.kind = "add") \in BOOLEAN
      OBVIOUS
    <3> DEFINE f == [path |-> p, wd |-> folders[p]]
    <3>2. f = [path |-> f.path, wd |-> f.wd]
      OBVIOUS
    <3>4. ChildInv' /\ BeliefInv'
      BY <1>1, <2>3, <3>1, <3>2, ModifyQuiet DEF Commanding
    <3>3. HeldInv'
      BY <1>1, <2>1, <2>3 DEF Modify, IInv, HeldInv, Unlisted, Held, Tracked
    <3> QED
      BY <3>4, <3>3 DEF IInv
  <2> QED
    BY <1>3, <2>1, <2>2, <2>3
<1> QED
  BY <1>2, <1>3, <1>4, <1>5

\* Start, and the end.
LEMMA EndsInv ==
    IInv /\ (Start \/ ThreadStarts \/ Cancelled \/ StopFolder \/ RunReturns \/ XRestarts) => IInv'
<1> SUFFICES ASSUME IInv, Start \/ ThreadStarts \/ Cancelled \/ StopFolder \/ RunReturns \/ XRestarts
             PROVE IInv'
  OBVIOUS
<1>1. CASE Start
  BY <1>1 DEF Start, history, IInv, ChildInv, BeliefInv, Belief, Doubt, HeldInv, Unlisted, Held, Tracked, Commanding
<1>2. CASE ThreadStarts \/ RunReturns
  BY <1>2, FrameInv DEF ThreadStarts, RunReturns, monitor, history
<1>3. CASE Cancelled
  BY <1>3 DEF Cancelled, Reading, history, IInv, ChildInv, BeliefInv, Belief, Doubt, HeldInv, Unlisted, Held, Tracked, Commanding
<1>4. CASE StopFolder
  <2>1. CASE Tracked = {}
    <3>1. at = "stop" /\ at' = "stopped"
          /\ UNCHANGED <<folders, obj, call, added, child, xpath, lapses, doubt>>
      BY <1>4, <2>1 DEF StopFolder, Cleared, history
    <3>2. ChildInv' /\ BeliefInv'
      BY <3>1, QuietInv DEF IInv, ChildInv, Commanding
    <3>3. HeldInv'
      BY <2>1, <3>1 DEF IInv, HeldInv, Unlisted, Held, Tracked
    <3> QED
      BY <3>2, <3>3 DEF IInv
  <2>2. CASE Tracked # {}
    BY <1>4, <2>2, RemoveInv DEF StopFolder, Cleared, history
  <2> QED
    BY <2>1, <2>2
<1>5. CASE XRestarts
  BY <1>5 DEF XRestarts, Fault, monitor, IInv, ChildInv, BeliefInv, Belief, Doubt, HeldInv, Unlisted, Held, Tracked
<1> QED
  BY <1>1, <1>2, <1>3, <1>4, <1>5

LEMMA StepInv == IInv /\ [Next]_vars => IInv'
<1>1. ASSUME IInv, UNCHANGED vars PROVE IInv'
  BY <1>1, FrameInv DEF vars, monitor, history
<1> QED
  BY <1>1, TreeInv, CommandInv, ChildStepInv, WaitInv, FolderInv, ScanInv, UnwatchInv, HandleInv, EndsInv
  DEF Next, MonitorStep

LEMMA AlwaysInv == Spec => []IInv
  BY InitInv, StepInv, PTL DEF Spec

\* Until the X server is restarted m_isPathAdded is right but for a path whose xset
\* was killed or whose FontFolder was destroyed though its -fp failed: the exit
\* status of xset is never lost to ProcessMonitor::Run (FontMonitor.cpp:39, :57,
\* :62, :74).
THEOREM BeliefHolds == Spec => []BeliefIsTrue
<1>1. IInv => BeliefIsTrue
  BY DEF IInv, BeliefInv, Belief, Doubt, BeliefIsTrue
<1> QED
  BY <1>1, AlwaysInv, PTL

\* Every path the monitor has put in the X font path has a FontFolder that will
\* take it out, unless a command failed (:39).
THEOREM PathsHaveOwners == Spec => []NoPathLeft
<1>1. IInv => NoPathLeft
  <2> SUFFICES ASSUME IInv, "failed" \notin lapses
               PROVE  xpath \subseteq Tracked \cup (IF Reading THEN {} ELSE {obj.path})
    BY DEF NoPathLeft
  <2>1. CASE child.state = "ok"
    <3>1. ~Reading
      BY <2>1 DEF IInv, ChildInv, Reading, Commanding
    <3> QED
      BY <2>1, <3>1 DEF IInv, BeliefInv, Belief, Doubt, HeldInv, Unlisted, Held, Tracked
  <2>2. CASE child.state # "ok"
    BY <2>2 DEF IInv, BeliefInv, Belief, Doubt, HeldInv, Unlisted, Held, Reading, Tracked
  <2> QED
    BY <2>1, <2>2
<1> QED
  BY <1>1, AlwaysInv, PTL

\* After a regular end none of its folders is left in the X font path (:310).
THEOREM EndsClean == Spec => []StopCleans
<1>1. IInv => StopCleans
  <2> SUFFICES ASSUME IInv, at = "stopped", "failed" \notin lapses PROVE xpath = {}
    BY DEF StopCleans
  <2>1. child.state # "ok"
    BY DEF IInv, ChildInv, Commanding
  <2> QED
    BY <2>1 DEF IInv, BeliefInv, Belief, Doubt, HeldInv, Unlisted, Held, Tracked
<1> QED
  BY <1>1, AlwaysInv, PTL
=============================================================================
