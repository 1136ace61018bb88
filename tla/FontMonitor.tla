---------------------------- MODULE FontMonitor ----------------------------
(***************************************************************************)
(* FontMonitor (src/WSLGd/FontMonitor.cpp): a thread of WSLGd that follows *)
(* the font folders of the user distro with inotify and keeps the X        *)
(* server's font path equal to the folders that hold a fonts.dir, through  *)
(* xset processes that it forks and waits for, beside ProcessMonitor::Run, *)
(* which waits for the children of the same process.                       *)
(*                                                                         *)
(* The file tree belongs to the user distro and changes at any time.  A    *)
(* path is a sequence of names; inodes and watch descriptors are numbers,  *)
(* of which the least that nothing refers to is as good as a fresh one.    *)
(***************************************************************************)
EXTENDS Integers, FiniteSets, SequencesExt

CONSTANTS
    Path,        \* the paths the distro uses: sequences of names, a root being one
    Roots,       \* USER_DISTRO_FONT_PATH and ALT_DISTRO_FONT_PATH
    Mount,       \* USER_DISTRO_FONT_PATH
    X11,         \* the only name followed immediately under Mount
    Trees,       \* sets of folders there may be when the monitor starts
    Inode, Wd,   \* inodes and watch descriptors
    MaxFaults    \* changes of the file tree, commands that fail though they could
                 \* succeed, and restarts of the X server, together

ASSUME PathAssumption ==
    /\ Path \subseteq Seq(STRING) \ {<<>>}
    /\ Roots \subseteq Path /\ Mount \in Roots /\ \A p \in Roots : Len(p) = 1
    /\ Inode \subseteq Nat \ {0} /\ Wd \subseteq Nat \ {0}
    /\ MaxFaults \in Nat

\* There are inodes enough, and a folder is in its parent.
ASSUME TreesAssumption ==
    \A T \in Trees :
        /\ T \subseteq Path
        /\ \A p \in T : \A k \in 1..Len(p) : SubSeq(p, 1, k) \in T
        /\ \E f \in [T -> Inode] : IsInjective(f)

NONE == 0

\* The names that events have.
Name == {"fonts.dir"} \cup {Last(p) : p \in Path}

VARIABLES
    \* the user distro's file system and the kernel's inotify instance
    tree,     \* folder -> its inode
    fonts,    \* inodes of the folders that hold a fonts.dir
    watch,    \* watched inode -> watch descriptor
    queue,    \* events not handled yet
    \* FontMonitor and its FontFolders
    folders,  \* m_fontMonitorFolders: path -> m_wd
    added,    \* paths of which there is a FontFolder with m_isPathAdded
    obj,      \* the FontFolder that is constructed, destroyed or modified
    scans,    \* folders still to be visited by each level of AddMonitorFolder
    at,       \* position of the thread
    call,     \* ModifyX11FontPath's argument, and the position it returns to
    \* processes
    child,    \* the xset process
    run,      \* ProcessMonitor::Run: "before", "running", "returned"; "stopping"
              \* once the thread is joined
    xpath,    \* the X server's font path, as far as it is the monitor's
    \* history
    faults,
    lapses,   \* "moved": a folder was renamed; "busy": the tree changed before
              \* the monitor had caught up; "failed": a command failed;
              \* "restarted": the X server was
    unseen,   \* paths whose fonts.dir came or went as its FontFolder was constructed
    left,     \* paths whose folder went away when it or one above it was renamed,
              \* until a FontFolder is constructed for them
    doubt     \* paths whose xset was killed, or whose FontFolder was destroyed with
              \* m_isPathAdded, until xset succeeds for them

fs      == <<tree, fonts, watch, queue>>
monitor == <<folders, added, obj, scans, at, call>>
history == <<faults, lapses, unseen, left, doubt>>
vars    == <<fs, monitor, child, run, xpath, history>>

-----------------------------------------------------------------------------
Tracked == DOMAIN folders
Exists(p) == p \in DOMAIN tree

\* access(p/fonts.dir, R_OK)
HasFonts(p) == Exists(p) /\ tree[p] \in fonts

Below(p) == {q \in DOMAIN tree : q # p /\ IsPrefix(p, q)}
Subfolders(p) == {q \in DOMAIN tree : q # <<>> /\ Front(q) = p}

\* What a folder's subfolders the monitor follows: any, but under Mount X11 only.
Follows(p, name) == p = Mount => name = X11

Without(f, S) == [x \in DOMAIN f \ S |-> f[x]]
With(f, x, y) == [z \in DOMAIN f \cup {x} |-> IF z = x THEN y ELSE f[z]]

\* The least number not in use.
Least(S) == {x \in S : \A y \in S : x <= y}

\* Reading: the thread is in read(), or has events in its buffer.
Reading == at = "scan" /\ scans = <<>> /\ run # "before"
Idle == Reading /\ queue = <<>>

NoChild == [state |-> "none", pgrp |-> "own"]

Init ==
    /\ \E T \in Trees :
          /\ tree = CHOOSE f \in [T -> Inode] : IsInjective(f)
          /\ fonts \in {{}, {tree[p] : p \in T}}
    /\ watch = <<>> /\ queue = <<>>
    /\ folders = <<>> /\ added = {}
    /\ obj = [path |-> Mount, wd |-> NONE]
    /\ scans = <<>>
    /\ at = "start"
    /\ call = [isAdd |-> FALSE, back |-> "scan"]
    /\ child = NoChild
    /\ run = "before"
    /\ xpath = {}
    /\ faults = 0 /\ lapses = {} /\ unseen = {} /\ left = {} /\ doubt = {}

-----------------------------------------------------------------------------
(* The user distro and inotify. *)

\* what: "folder" if the event has IN_ISDIR.
Event(inode, kind, what, name) ==
    IF inode \in DOMAIN watch
    THEN <<[wd |-> watch[inode], kind |-> kind, what |-> what, name |-> name]>> ELSE <<>>

\* One more fault, of the kinds in S.
Fault(S) ==
    /\ faults < MaxFaults
    /\ faults' = faults + 1
    /\ lapses' = lapses \cup S

\* The FontFolder under construction has looked for fonts.dir and not added its
\* watch yet.
BeforeWatch ==
    at = "watch" \/ (at \in {"sleep", "setpgid", "wait"} /\ call.back = "watch")

Changes(S) ==
    /\ Fault(S \cup (IF Idle \/ at = "start" THEN {} ELSE {"busy"}))
    /\ LET p   == obj.path
           has == p \in DOMAIN tree' /\ tree'[p] \in fonts'
       IN unseen' = IF BeforeWatch /\ has # HasFonts(p) THEN unseen \cup {p} ELSE unseen
    /\ UNCHANGED <<monitor, child, run, xpath, doubt>>

MakeFolder(p) ==
    /\ ~Exists(p)
    /\ Len(p) > 1 => Exists(Front(p))
    /\ \E i \in Least(Inode \ Range(tree)) : tree' = With(tree, p, i)
    /\ queue' = IF Len(p) > 1 THEN queue \o Event(tree[Front(p)], "add", "folder", Last(p)) ELSE queue
    /\ UNCHANGED <<fonts, watch, left>>
    /\ Changes({})

\* The kernel drops the watch of a folder that is gone.
RemoveFolder(p) ==
    /\ Exists(p) /\ Below(p) = {} /\ ~HasFonts(p)
    /\ tree' = Without(tree, {p})
    /\ watch' = Without(watch, {tree[p]})
    /\ queue' = IF Len(p) > 1 THEN queue \o Event(tree[Front(p)], "del", "folder", Last(p)) ELSE queue
    /\ UNCHANGED <<fonts, left>>
    /\ Changes({})

\* The watches go with the inodes.
MoveFolder(p, q) ==
    /\ Exists(p) /\ ~Exists(q) /\ ~IsPrefix(p, q)
    /\ Len(p) > 1 /\ Len(q) > 1 /\ Exists(Front(q))
    /\ LET moved   == {p} \cup Below(p)
           To(x)   == q \o SubSeq(x, Len(p) + 1, Len(x))
           From(y) == p \o SubSeq(y, Len(q) + 1, Len(y))
       IN /\ {To(x) : x \in moved} \subseteq Path
          /\ tree' = [y \in (DOMAIN tree \ moved) \cup {To(x) : x \in moved} |->
                        IF IsPrefix(q, y) THEN tree[From(y)] ELSE tree[y]]
    /\ queue' = queue \o Event(tree[Front(p)], "del", "folder", Last(p))
                      \o Event(tree[Front(q)], "add", "folder", Last(q))
    /\ left' = left \cup {p} \cup Below(p)
    /\ UNCHANGED <<fonts, watch>>
    /\ Changes({"moved"})

\* fonts.dir is created or removed.
ChangeFonts(p) ==
    /\ Exists(p)
    /\ fonts' = IF HasFonts(p) THEN fonts \ {tree[p]} ELSE fonts \cup {tree[p]}
    /\ queue' = queue \o Event(tree[p], IF HasFonts(p) THEN "del" ELSE "add", "file", "fonts.dir")
    /\ UNCHANGED <<tree, watch, left>>
    /\ Changes({})

TreeStep ==
    \E p \in Path :
        \/ MakeFolder(p) \/ RemoveFolder(p) \/ ChangeFonts(p)
        \/ \E q \in Path : MoveFolder(p, q)

-----------------------------------------------------------------------------
(* FontFolder::ModifyX11FontPath and ExecuteShellCommand. *)

\* A call of ModifyX11FontPath on f, in which the thread sleeps first.
Modify(f, isAdd, back) ==
    /\ at' = "sleep"
    /\ obj' = f
    /\ call' = [isAdd |-> isAdd, back |-> back]

\* Awake: nothing to do, or xset is forked.
Fork ==
    /\ at = "sleep"
    /\ IF (obj.path \in added) = call.isAdd
       THEN at' = call.back /\ UNCHANGED child
       ELSE at' = "setpgid" /\ child' = [state |-> "forked", pgrp |-> "WSLGd"]
    /\ UNCHANGED <<fs, folders, added, obj, scans, call, run, xpath, history>>

ForkFails ==
    /\ at = "sleep"
    /\ (obj.path \in added) # call.isAdd
    /\ Fault({"failed"})
    /\ at' = call.back
    /\ UNCHANGED <<fs, folders, added, obj, scans, call, child, run, xpath, unseen, left, doubt>>

\* Mutant of ChildGroup: the child stays in WSLGd's group.
ChildGroupNone == child.pgrp
ChildGroup == "own"

ChildSetsGroup ==
    /\ child.state = "forked"
    /\ child' = [state |-> "grouped", pgrp |-> ChildGroup]
    /\ UNCHANGED <<fs, monitor, run, xpath, history>>

\* The parent's setpgid: refused once the child has called exec, and pointless
\* once it is reaped; the exception is caught.
ParentGroups == IF child.state \in {"forked", "grouped", "killed"} THEN "own" ELSE child.pgrp

SetGroup ==
    /\ at = "setpgid"
    /\ at' = "wait"
    /\ child' = [child EXCEPT !.pgrp = ParentGroups]
    /\ UNCHANGED <<fs, folders, added, obj, scans, call, run, xpath, history>>

\* The X server takes a folder only if it has a fonts.dir.
Refused == call.isAdd /\ ~HasFonts(obj.path)
Modified == IF Refused THEN xpath
            ELSE IF call.isAdd THEN xpath \cup {obj.path} ELSE xpath \ {obj.path}

\* xset
ChildRuns ==
    /\ child.state = "grouped"
    /\ child' = [child EXCEPT !.state = IF Refused THEN "refused" ELSE "ok"]
    /\ xpath' = Modified
    /\ UNCHANGED <<fs, monitor, run, history>>

\* Killed before or after the X server answers.
ChildKilled ==
    /\ child.state \in {"forked", "grouped"}
    /\ Fault({"failed"})
    /\ child' = [child EXCEPT !.state = "killed"]
    /\ xpath' \in {xpath} \cup (IF child.state = "grouped" THEN {Modified} ELSE {})
    /\ doubt' = doubt \cup {obj.path}
    /\ UNCHANGED <<fs, monitor, run, unseen, left>>

Exited == child.state \in {"ok", "refused", "killed"}

\* waitpid(0) in ProcessMonitor::Run takes any child of WSLGd's group.
RunReaps ==
    /\ run = "running"
    /\ Exited /\ child.pgrp = "WSLGd"
    /\ child' = [child EXCEPT !.state = "reaped"]
    /\ UNCHANGED <<fs, monitor, run, xpath, history>>

\* Mutant of Believed: m_isPathAdded is not assigned.
BelievedNot == added

\* m_isPathAdded follows a success.
Believed == IF child.state # "ok" THEN added
            ELSE IF call.isAdd THEN added \cup {obj.path} ELSE added \ {obj.path}

\* waitpid(childPid); after a success "xset fp rehash" is run too, and its
\* result ignored.
WaitChild ==
    /\ at = "wait"
    /\ Exited \/ child.state = "reaped"
    /\ at' = call.back
    /\ added' = Believed
    /\ doubt' = IF child.state = "ok" THEN doubt \ {obj.path} ELSE doubt
    /\ child' = NoChild
    /\ UNCHANGED <<fs, folders, obj, scans, call, run, xpath, faults, lapses, unseen, left>>

ChildStep == ChildSetsGroup \/ ChildRuns \/ RunReaps

-----------------------------------------------------------------------------
(* FontFolder's constructor and destructor, and AddMonitorFolder. *)

\* The rest of the callers' loops is in `rest`.  The new FontFolder's m_isPathAdded
\* is FALSE: `added` lost p with the last FontFolder of p (Unwatch).
AddMonitorFolder(p, rest) ==
    /\ scans' = rest
    /\ IF p \in Tracked THEN UNCHANGED <<at, obj>>
       ELSE at' = "check" /\ obj' = [path |-> p, wd |-> NONE]
    /\ UNCHANGED <<folders, call>>

\* Mutant of Erased: nothing is erased.
ErasedNot(p) == folders
Erased(p) == Without(folders, {p})

\* RemoveMonitorFolder and the destructor it runs: p only, and no subfolder.
RemoveMonitorFolder(p) ==
    /\ folders' = Erased(p)
    /\ IF p \in Tracked THEN Modify([path |-> p, wd |-> folders[p]], FALSE, "unwatch")
                        ELSE UNCHANGED <<at, obj, call>>

\* Mutant of Ready: the folder is not looked at.
ReadyNever(p) == FALSE
Ready(p) == HasFonts(p)

CheckFolder ==
    /\ at = "check"
    /\ IF Ready(obj.path) THEN Modify(obj, TRUE, "watch")
                          ELSE at' = "watch" /\ UNCHANGED <<obj, call>>
    /\ unseen' = unseen \ {obj.path}
    /\ left' = left \ {obj.path}
    /\ UNCHANGED <<fs, folders, added, scans, child, run, xpath, faults, lapses, doubt>>

\* Mutant of Keeps: a FontFolder without a watch is kept.
KeepsAny(wd) == TRUE
Keeps(wd) == wd # NONE

\* inotify_add_watch: a folder that is watched already keeps its descriptor, and
\* another one gets a number that nothing refers to.
InUse == Range(watch) \cup Range(folders) \cup {queue[k].wd : k \in DOMAIN queue}

WatchOf(p) ==
    IF ~Exists(p) THEN {NONE}
    ELSE IF tree[p] \in DOMAIN watch THEN {watch[tree[p]]} ELSE Least(Wd \ InUse)

\* If there is no such folder the FontFolder is destroyed.
AddWatch ==
    /\ at = "watch"
    /\ \E wd \in WatchOf(obj.path) :
          /\ watch' = IF Exists(obj.path) THEN With(watch, tree[obj.path], wd) ELSE watch
          /\ IF Keeps(wd)
             THEN /\ folders' = With(folders, obj.path, wd)
                  /\ obj' = [obj EXCEPT !.wd = wd]
                  /\ at' = "list"
                  /\ UNCHANGED call
             ELSE Modify(obj, FALSE, "unwatch") /\ UNCHANGED folders
    /\ UNCHANGED <<tree, fonts, queue, added, scans, child, run, xpath, history>>

\* Mutant of Listed: the subfolders there are already are not visited.
ListedNone(p) == {}

\* Of Mount only X11, of any other folder all subfolders, if it is still there.
Listed(p) == {q \in Subfolders(p) : Follows(p, Last(q))}

ListFolder ==
    /\ at = "list"
    /\ scans' = Append(scans, Listed(obj.path))
    /\ at' = "scan"
    /\ UNCHANGED <<fs, folders, added, obj, call, child, run, xpath, history>>

\* The next folder of the innermost loop, or the end of that loop.
Scan ==
    /\ at = "scan" /\ scans # <<>>
    /\ IF Last(scans) = {}
       THEN scans' = Front(scans) /\ UNCHANGED <<folders, at, obj, call>>
       ELSE \E p \in Last(scans) :
               LET rest == Append(Front(scans), Last(scans) \ {p})
               IN IF Exists(p) THEN AddMonitorFolder(p, rest)
                  ELSE scans' = rest /\ UNCHANGED <<folders, at, obj, call>>
    /\ UNCHANGED <<fs, added, child, run, xpath, history>>

\* The end of the destructor: inotify_rm_watch, of whatever has that descriptor.
\* m_isPathAdded goes with the FontFolder, also when -fp failed.
Unwatch ==
    /\ at = "unwatch"
    /\ watch' = Without(watch, {i \in DOMAIN watch : watch[i] = obj.wd})
    /\ at' = IF run = "stopping" THEN "stop" ELSE "scan"
    /\ added' = added \ {obj.path}
    /\ doubt' = doubt \cup (added \cap {obj.path})
    /\ UNCHANGED <<tree, fonts, queue, folders, obj, scans, call, child, run, xpath,
                   faults, lapses, unseen, left>>

-----------------------------------------------------------------------------
(* FontMonitor: Start, the thread's loop, Stop. *)

Start ==
    /\ at = "start"
    /\ LET there == Roots \cap DOMAIN tree
       IN IF there = {} THEN at' = "stopped" /\ UNCHANGED scans
          ELSE at' = "scan" /\ scans' = <<there>>
    /\ UNCHANGED <<fs, folders, added, obj, call, child, run, xpath, history>>

\* The thread is created; later main() calls ProcessMonitor::Run.
ThreadStarts ==
    /\ at = "scan" /\ scans = <<>> /\ run = "before"
    /\ run' = "running"
    /\ UNCHANGED <<fs, monitor, child, xpath, history>>

\* A folder came or went in the folder p.
HandleFolderEvent(p, event) ==
    IF event.kind = "add"
    THEN IF Follows(p, event.name) THEN AddMonitorFolder(Append(p, event.name), scans)
                                   ELSE UNCHANGED <<folders, scans, at, obj, call>>
    ELSE RemoveMonitorFolder(Append(p, event.name)) /\ UNCHANGED scans

HandleFontsDirEvent(p, event) ==
    /\ IF event.kind = "del" \/ HasFonts(p)
       THEN Modify([path |-> p, wd |-> folders[p]], event.kind = "add", "scan")
       ELSE UNCHANGED <<at, obj, call>>
    /\ UNCHANGED <<folders, scans>>

\* Mutant of Handled: the loop does not go on to the next event.
HandledNot == queue
Handled == Tail(queue)

\* One event: of the folders that have its descriptor the first one is taken,
\* here any of them.
HandleEvent ==
    /\ Reading /\ run # "stopping" /\ queue # <<>>
    /\ queue' = Handled
    /\ LET event == Head(queue)
           match == {p \in Tracked : folders[p] = event.wd}
       IN IF match = {} THEN UNCHANGED <<folders, scans, at, obj, call>>
          ELSE \E p \in match :
                  IF event.what = "folder" THEN HandleFolderEvent(p, event)
                                           ELSE HandleFontsDirEvent(p, event)
    /\ UNCHANGED <<tree, fonts, watch, added, child, run, xpath, history>>

\* Run returns, main() returns, and ~FontMonitor cancels the thread.
RunReturns ==
    /\ run = "running"
    /\ run' = "returned"
    /\ UNCHANGED <<fs, monitor, child, xpath, history>>

\* In read() the thread ends.  In sleep() and waitpid() the handlers' catch (...)
\* swallows the cancellation, which the runtime answers with abort().
Cancelled ==
    /\ run = "returned"
    /\ \/ Reading /\ at' = "stop" /\ run' = "stopping"
       \/ at \in {"sleep", "wait"} /\ at' = "aborted" /\ UNCHANGED run
    /\ UNCHANGED <<fs, folders, added, obj, scans, call, child, xpath, history>>

\* Mutant of Cleared: only the roots are removed.
ClearedRoots == Tracked \cap Roots

\* Both roots, then m_fontMonitorFolders.clear().
Cleared == Tracked

StopFolder ==
    /\ at = "stop"
    /\ IF Cleared = {} THEN at' = "stopped" /\ UNCHANGED <<folders, obj, call>>
       ELSE \E p \in Cleared : RemoveMonitorFolder(p)
    /\ UNCHANGED <<fs, added, scans, child, run, xpath, history>>

MonitorStep ==
    \/ Fork \/ SetGroup \/ WaitChild
    \/ CheckFolder \/ AddWatch \/ ListFolder \/ Scan \/ Unwatch
    \/ Start \/ ThreadStarts \/ HandleEvent \/ Cancelled \/ StopFolder

\* Weston and its X server are restarted by ProcessMonitor::Run.
XRestarts ==
    /\ run = "running"
    /\ Fault({"restarted"})
    /\ xpath' = {}
    /\ UNCHANGED <<fs, monitor, child, run, unseen, left, doubt>>

Next ==
    \/ MonitorStep \/ ChildStep \/ TreeStep
    \/ ForkFails \/ ChildKilled \/ RunReturns \/ XRestarts

\* The thread and its child run.
Fairness == WF_vars(MonitorStep) /\ WF_vars(ChildSetsGroup \/ ChildRuns)

Spec == Init /\ [][Next]_vars /\ Fairness

-----------------------------------------------------------------------------
(* Properties. *)

TypeOK ==
    /\ DOMAIN tree \subseteq Path /\ Range(tree) \subseteq Inode /\ IsInjective(tree)
    /\ fonts \subseteq Range(tree)
    /\ DOMAIN watch \subseteq Range(tree) /\ Range(watch) \subseteq Wd
    /\ queue \in Seq([wd : Wd, kind : {"add", "del"}, what : {"folder", "file"}, name : Name])
    /\ Tracked \subseteq Path /\ Range(folders) \subseteq Wd
    /\ xpath \subseteq Path
    /\ added \subseteq Tracked \cup {obj.path}
    /\ obj.wd \in Wd \cup {NONE}
    /\ at \in {"start", "scan", "check", "watch", "list", "sleep", "setpgid", "wait",
               "unwatch", "stop", "stopped", "aborted"}
    /\ call \in [isAdd : BOOLEAN, back : {"scan", "watch", "unwatch"}]
    /\ child.state \in {"none", "forked", "grouped", "ok", "refused", "killed", "reaped"}
    /\ child.pgrp \in {"WSLGd", "own"}
    /\ run \in {"before", "running", "returned", "stopping"}

\* m_isPathAdded says whether the folder is in the X font path (FontMonitor.h:28),
\* also when fork fails, xset is refused, or xset is waited for by the monitor of
\* processes at the same time (:57, :62, :74).  Until the X server is restarted it
\* is wrong only of a path whose xset was killed, or whose FontFolder was destroyed
\* though its -fp failed (:39): m_isPathAdded went with it, the next FontFolder of
\* that path takes it for not added, and only an xset for it that succeeds ends that.
BeliefIsTrue ==
    child.state = "none" /\ "restarted" \notin lapses => xpath \ doubt = added \ doubt

\* Whatever is in the X font path belongs to a FontFolder that will take it out:
\* one that is tracked, or is being constructed or destroyed (:39).
NoPathLeft ==
    "failed" \notin lapses => xpath \subseteq Tracked \cup (IF Reading THEN {} ELSE {obj.path})

\* p's watch is of the folder that is there now, and of no other FontFolder.
Watched(p) ==
    /\ p \in Tracked /\ Exists(p)
    /\ tree[p] \in DOMAIN watch /\ watch[tree[p]] = folders[p]
    /\ \A q \in Tracked \ {p} : folders[q] # folders[p]

\* When the monitor has caught up it tracks every subfolder of a folder whose
\* watch is good, whether it came before the watch, before the listing or after
\* (:30, :148).
NothingMissed ==
    Idle => \A q \in DOMAIN tree \ Roots :
                Watched(Front(q)) /\ Front(q) \notin left /\ Follows(Front(q), Last(q))
                    => q \in Tracked

\* When it has caught up, a folder whose watch is good is in the X font path just
\* if it has a fonts.dir: unless that came or went between the look for it (:24)
\* and the watch (:30), a command failed or the X server was restarted.
ListedExact ==
    Idle /\ lapses \cap {"failed", "restarted"} = {} =>
        \A p \in Path \ (unseen \cup left) : Watched(p) => (p \in xpath <=> HasFonts(p))

\* If it could follow each change before the next, and no folder was renamed, what
\* it tracks below a root it watches is what is there and is to be followed.  (A
\* rename leaves subfolders under their old paths, :162.)
Followed(p) == \A q \in Path \ Roots : IsPrefix(q, p) => Follows(Front(q), Last(q))

TrackedExact ==
    Idle /\ lapses \cap {"moved", "busy"} = {} =>
        \A p \in Path \ Roots :
            p \in Tracked <=> Exists(p) /\ Followed(p) /\ Watched(SubSeq(p, 1, 1))

\* A regular end leaves none of the monitor's folders in the X font path (:310).
StopCleans == at = "stopped" /\ "failed" \notin lapses => xpath = {}

\* Once the tree stays as it is the monitor comes to rest: no event and no
\* command blocks it for ever.
Settles == <>[](Idle \/ at \in {"stopped", "aborted"})
=============================================================================
