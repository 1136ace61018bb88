# WSLg: TLA+ specifications, model checking and proofs

WSLg runs Linux GUI applications on a Windows desktop. This directory holds
TLA+ models of the parts of this repository that carry its control logic, the
TLC runs that check them on small instances, and TLAPS proofs of their main
invariants for all instances. Paths below are relative to `src/`.

## 1. The system

```
 Linux VM, system distro                                Windows host
 +-----------------------------------------------+      +---------------------------+
 | WSLGd main thread                             |      | mstsc / msrdc             |
 |   set-up -> launch Weston -> wait ready ->    |      |   WSLDVCPlugin (COM)      |
 |   launch RDP client, dbus, pulse ->           |      |     ListenerCallback      |
 |   ProcessMonitor::Run (waitpid, relaunch)     |      |     WSLDVCCallback        |
 |      | fork/exec        ^ notify socket       |      |       m_spFileDB          |
 |   Weston -- rdpapplist server -- DVC channel -+------+->     m_spFileDBSync      |
 | FontMonitor thread (inotify, xset children)   |      |   Start menu .lnk, .ico   |
 +-----------------------------------------------+      +---------------------------+
```

| Component | State | Operations | What is hard | What makes it correct |
|---|---|---|---|---|
| `WSLGd/ProcessMonitor.cpp` | `m_children`: pid to command; `crashes`: command to exit times; the process table behind them | `LaunchProcess`, `Run` | exits in any order; the kernel reuses pids; `fork` fails; the wall clock is stepped; the edges of "10 times in 60 seconds" | nothing is lost, nothing runs twice, a service is restarted or given up for the stated reason, the monitor ends only when there is nothing left |
| `WSLGd/main.cpp` | how far start-up is, the notify socket | set-up, four launches, `WaitForReadyNotify`, `Run` | services that exit before anybody calls `waitpid`; a blocking `accept` | order of the services, start-up ends, early exits are answered |
| `WSLDVCPlugin` client (`WSLDVCCallback`, `WSLDVCFileDB`, `utils`) | link and icon files; the file database; the sync database; `m_handShakeComplated`, `m_bChannelClosed` | six commands, sync mode, `OnClose`, a new connection | a flag read outside the lock; several PDUs in a buffer; handlers that fail half-way; files that outlive the connection | after a sync the menu is what was reported; no handler without a database; nothing after close |
| `WSLDVCPlugin/dllmain.cpp` `RemoveAppProvider` | the same files, from another process | delete a provider's menu and icons | no lock shared with the channel | leaves no files but those written meanwhile |
| `rdpapplist/server` (in Weston) | channel handle, thread, stop event, `isReady` | open, close, send caps/update/delete/associate, thread loop | thread against close; failures in open; readiness that outlives a channel; a thread that ends at any error | the thread ends only for a cause and before its channel; close returns; no channel leaks |
| `rdpapplist` wire format | header, strings, icon data | encode on the server, decode on the client | lengths at the limit | what is accepted for sending can be read |
| `WSLGd/FontMonitor.cpp` | map of watched folders, watch descriptors, `m_isPathAdded`; behind them the file tree, inotify, the X font path | add/remove folders on inotify events, run `xset`, `Start`, `Stop` | check before watch; a tree that changes during a scan; renames; a second user of `waitpid`; `pthread_cancel` | at rest the X font path is the set of followed folders with `fonts.dir`; what was put in is taken out |
| `lxwil.h`, `trace.h`, `common.h`, plug-in registration, path helpers | none of their own | | | |
| Docker, pipelines, MSI, debug info, samples | build time only | | | |

Interaction: `main()` calls `ProcessMonitor` directly on one thread; the
kernel and the launched programs act in parallel with it; Weston reports
through a local socket. The list server in Weston sends PDUs over the dynamic
virtual channel; the plug-in's host calls `OnDataReceived` and `OnClose`,
which may be different threads. An uninstaller calls `RemoveAppProvider` in a
process of its own. `FontMonitor` shares only the process table with the monitor.

## 2. Modules

| Module | Models | Composes |
|---|---|---|
| `Supervisor` | what WSLGd promises of its services: absent, up, down, abandoned | |
| `ProcessMonitor` | `ProcessMonitor.cpp` with the kernel it sees; its refinement mapping to `Supervisor` | `Supervisor` |
| `ProcessMonitorTiming` | the same against time that cannot be stepped | extends `ProcessMonitor` |
| `WSLGd` | `main()`: set-up, launches, readiness, monitor | extends `ProcessMonitor` |
| `AppListClient` | the plug-in's channel callback, its databases and files | |
| `AppListRemoval` | `RemoveAppProvider` beside a channel | extends `AppListClient` |
| `AppListProtocol` | the PDUs as the server writes and the client reads them: pure operators | |
| `AppListServer` | the server's context, its thread, its owner, a client that answers | extends `AppListProtocol` |
| `FontMonitor` | `FontMonitor.cpp` with the file tree, inotify, `xset` and `ProcessMonitor::Run`'s `waitpid` | |
| `MC*` | instances for TLC | |
| `*_proofs` | theorems | |

### ProcessMonitor

`children` is `m_children`, `crashes` the local map of `Run()`, `state` and
`image` the kernel's process table, `now` is `time(nullptr)`. An iteration of
`Run()` from one `waitpid` to the next is one action: `RunUntracked`,
`RunAbandon`, `RunRestart`, `RunForkFails`, or `RunNoChildren` (ECHILD). This
is sound because the thread shares nothing but the process table, and the order
of the kernel calls inside an iteration is kept: the exited pid is free before
`fork` chooses one (`AllocatableAfterReaping`), and the new entry is stored
before the old one is erased (`Replaced`). Exit times are a set of pairs
<<time, occurrence>>, the multiset that the vector is used as.

A child that fails between `fork` and `exec` (`_exit(1)`), one that crashes and
one that ends by itself are all `ChildExits`: `Run()` treats them alike.
The service is the process that was forked: for Weston and PulseAudio that is
the `sh -c` around them.

`ReuseReaped` says whether `fork` can return the very pid that was just reaped.
Linux hands pids out cyclically, so it happens only when the cursor has come
round; the code cannot exclude it. The runs and theorems say for which value
each property holds. `MayFail` allows `fork` (and main's set-up) to fail.

`launched`, `abandoned`, `threw` and `mon` record what main() and Run() have
done; no guard of the code's own reads `abandoned` or `threw`.

### ProcessMonitorTiming

Adds `elapsed`, real time, and `handled`, the real times at which the last
`Limit + 1` exits of each command were handled. `SecondPasses` moves both
clocks, `ClockStepped` only the wall clock.

### WSLGd

`pc` is main()'s position, `ready` the notify socket. Set-up is one action with
success and failure: its steps are not seen by anything that runs at the time.
The socket listens before Weston is launched, so Weston's `connect` succeeds
whenever it is made; a connection made before a crash stays in the backlog.
`WestonReady` models `wslgd-notify.so`, which is not in this repository. The font
monitor, started after the report, is left out here: what its children and
`waitpid(0)` do to each other is in `FontMonitor`.

### AppListClient

`links` and `icons` are the files, `db` is `m_spFileDB`, `syncFiles` is
`m_spFileDBSync`. `rpc` is the position of `OnDataReceived`, with a step between
its unlocked check of `m_bChannelClosed` and `EnterCriticalSection`, and one
between the loop's check and each handler; `cpc` is the position of `OnClose`.
A handler is one action, since it holds `m_crit` from start to end and nothing
it reads can change meanwhile. A failed handler drops the rest of the buffer.

An application is its key `[group\]appId`; an update says which link file its
description names, whether it carries an icon, and its command line. What the
server can say of an application is the constant `Offer`, which flags it can
use is `Hints`. `wellFormed = FALSE` stands for every check of names and path
lengths between the sync flags and the file database, all of which fail alike.
`BadNames` and `FsMayFail` switch those and file-system errors on. `kept`,
`offered`, `named` and `ended` are history: they record what the server has
said since the sync started, which the code does not remember. So is `strays`, the
files that were on disk before the connection or that a delete could not remove.

A connection has one provider (the code would let a second capabilities PDU
change the menu path). Directories are left out: they are created on demand and
removed when empty. `OnAssociateWindowId` changes only window properties; it
is there because it reads `m_spFileDB`.

### AppListRemoval

Adds a caller of `RemoveAppProvider`: `Scan` fills `doomed`, the call's own file
database, from the menu (links, and the icon file each link names), `DeleteNext`
is one round of `deleteAllFileIdFiles`, and `RemovalEnds` its return. Every step
of `AppListClient` can come between. The scan of the directories is one step.
`pointed` and `excused` are history for `RemovalComplete`.

### AppListProtocol

A stream is a sequence of fields, each with its size and, for lengths, its number,
and the position behind them. `Sent` is what a sender writes, `PayloadLength` what it
added up before, `Accepts` its check. The senders and readers go through the strings
one after the other, at most five of them, as the code does: `WriteString` and
`ReadString` are the i-th `if` of the five. A reader has the rest of the buffer (`cur`)
and the number of bytes in it (`left`). `ReadPdu` is a handler's reading scope on the client:
a field taken at the wrong place makes it "garbled", a check that fails "refused".
The contents of strings and pixels are left out.

### AppListServer

`channel`, `channelEvent`, `thread`, `stopEvent` and `isReady` are the fields of
the private data, `tpc` and `events` the thread (it copies the handles once, when
it starts, after open may have gone on), `opc` the owner. The thread's calls of the
channel manager (query, size, read) are actions of their own, as each uses the
handle that close may free. A message is a sequence of PDUs, each found where the
length of the one before leads, right or wrong (`AfterPdu`); `NextPdu` and
`ReceivePdu` are the loop over them. A PDU of length 0 sets the stream back to where
it begins ("rewind"), so the thread handles it for ever, as long as the owner's
callback succeeds (`Spinning`). `OpenSucceeds(event, created)` covers the two failures
that open reports as success; `OpenFails` the three it reports. `live`, `ready`,
`gone` and `inbox` are the channel manager and the client. `SetEvent`, wait and the
final frees of close are `CloseBegins` and `CloseEnds`, each with or without the free
of the context; `CloseFails` is close when its wait fails: everything stays as it is,
and the owner may close again, but `context_free` does not look at the error and frees
the private data (`opc = "freed"`) under a thread that may be alive. At its next use of
them the thread is at "undefined" (`ThreadOnFreed`) and does nothing more: what it would
do there is not the program's. `opens`, `faults`, `bad` and `unwaited` are history;
`opens` is also a bound.

The owner opens only a context without a channel, as the header's `Open`/`Close`
pair asks, and does not use one it has freed.

### FontMonitor

A path is a sequence of names, `tree` maps it to an inode, `watch` an inode to a
descriptor: a watch follows a renamed folder, as in the kernel, and a new watch gets
the least number that no watch, `FontFolder` or pending event refers to. An event has
the descriptor, whether something came or went, whether it was a folder or `fonts.dir`,
and the name. `folders` is `m_fontMonitorFolders`,
`added` the paths of which there is a `FontFolder` with `m_isPathAdded`, `xpath` the X
server's font path. `m_isPathAdded` is a member: it goes with its `FontFolder` at the
end of the destructor (`Unwatch`), also when the `-fp` there failed, and starts false
in the next one.
`at` is the position of the thread: `check`, `watch`, `list` are the steps of
`FontFolder`'s constructor and of `AddMonitorFolder`, `scans` the stack of its
recursion, `sleep`, `setpgid`, `wait` are `ModifyX11FontPath` and
`ExecuteShellCommand`, `unwatch` the destructor. Between any two the distro may
change the tree, the child of the fork may run, and `Run` may reap it
(`RunReaps`: only a child still in WSLGd's process group).

Where several `FontFolder`s have an event's descriptor the code takes the first in
the order of paths; the model takes any. The first run of `Start` is on the main
thread before `Run`, so nothing reaps then. A cancellation in `read()` ends the
thread; one in `sleep()` or `waitpid()` runs into the handlers' `catch (...)`, which
glibc answers with `abort()` (`at = "aborted"`). `xset fp rehash` is left out: its
result is ignored.

`faults` bounds changes of the tree, failures and restarts of the X server,
together. An `xset` that is killed may have been heard by the X server or not.
`lapses`, `unseen`, `left` and `doubt` are history: they name the cases in which
the code does not do what one would wish, so that the properties can say that
there is no other. `left` holds each path whose folder was renamed, or was below one
that was, until a `FontFolder` is constructed for that path again: the map may still
have the old one, whose watch is on a folder that is now elsewhere. `doubt` holds each
path whose `xset` was killed, or whose `FontFolder` was destroyed with `m_isPathAdded`
set, until an `xset` for it succeeds.

## 3. Runs

| Run | Instance | Checks |
|---|---|---|
| `ProcessMonitor` | 2 commands, 3 pids, Limit 2, Window 1, clock 0..3 with jumps of 2, pid reuse, failures | `TypeOK`, `TrackedAreReal`, `OneInstance` |
| `ProcessMonitorTracked` | the same without pid reuse and jumps, with fairness | `NothingUntracked`, `EndsOnlyWhenAllAbandoned`, `ImplementsSupervisor` |
| `ProcessMonitorPidReuse` | with pid reuse, with fairness | `Restarted`: violated |
| `ProcessMonitorTiming` | Limit 2, Window 2, clock 0..4 with jumps of 2, 3 s of real time | `AbandonedOnlyAfterBurst`, `NoRestartStorm` |
| `WSLGd` | Weston and two services, 4 pids, Limit 1, failures | `WestonReadyFirst`, `StartupEnds`, `EarlyExitsRestarted` |
| `WSLGdStartupHang` | the same without failures | `ServicesRestarted`: violated |
| `AppListClient` | 2 applications with 3 links of their own, renames, lost icons, 1 PDU per buffer, bad names | `SyncExact`, `NothingOrphaned` |
| `AppListClientClose` | 2 PDUs per buffer, a shared link, failing files, `RemoveAppProvider` at any time | `TypeOK`, `HandlersHaveDB`, `ClosedIsQuiet`, `RemovalComplete` |
| `AppListClientSyncEnd` | an application that changes its command line | `SyncRemovesUnreported`: violated |
| `AppListClientResync` | the same | `SyncSparesReported`: violated |
| `AppListServer` | 3 opens, 2 messages waiting; the client may answer, or send one refused PDU, two at a time, or one of length 0; 512-byte strings, PDUs of each command with one field more or less, or one string of length 0, 2, 510..512 or 514 | `TypeOK`, `NoCallOnClosed`, `NoChannelLeaked`, `FirstReadIsReady`, `EndsForCause`, `FillsItsStream`, `ReadBack`, `OnlyLongStringsRefused`, `CloseReturns`, `Served` |
| `FontMonitor` | one root with `X11`, another name, and a subfolder of either; 3 faults | `TypeOK`, `BeliefIsTrue`, `NoPathLeft`, `NothingMissed`, `ListedExact`, `TrackedExact`, `StopCleans`, `Settles` |

Bounds. One pid more than there are services lets a relaunch choose between the
pid just reaped and another. `Limit` 2 gives exits below, at and above the limit
within the window, and `Window` with `MaxTime` gives stamps inside, on and
outside its edge. Two applications suffice for one to be reported and one not,
and three links for a rename and a neighbour. With one PDU per buffer every
sequence of PDUs is still possible; two PDUs are used where a failure must drop
a successor or a close fall between them. Two opens are what a stale `isReady`
needs, a third lets the owner go on after it; two PDUs in a message are one that is
followed and one that follows. A PDU's strings are independent, so one string at a limit at a time is
enough. The format is checked where the PDU is on the wire; what happens next does
not depend on its shape, and a CONSTRAINT follows only an ordinary capabilities PDU
and an ordinary delete any further (`OddPdusGoNoFurther`). In `FontMonitor` the paths are those that the rules tell apart (followed or
not under the mount path, at any depth elsewhere), and three faults allow a race
with a consequence, such as a rename and a change below it; the same properties
also held with four faults, and with a second root and deeper paths (8.7 and 10.8
million states, too long to keep). Symmetry is used only for invariants.
Deadlock checking is off where the program really stops: the monitor returns, the
server's context is freed, the font monitor is stopped.

What the passing runs show beyond their properties' names:

* The server's thread can end while its client lives and has done nothing wrong in
  one case only: `close` leaves `isReady` set (`rdpapplist_main.c:698`), the next
  channel is read before it is connected, and ERROR_NO_DATA ends the thread
  (`EndsForCause`, `FirstReadIsReady`). A stop event that cannot be created does not
  make `close` hang: the wait on a null handle fails and the thread ends
  (`CloseReturns`), but then nobody reads the channel although `open` reported
  success (`Served`).
* One thing a client sends makes `close` hang: a PDU whose header has length 0, on
  which the thread spins without a look at the stop event (`rdpapplist_main.c:108`,
  `:177`). `CloseReturns` and `Served` name that case and hold in every other.
* Only a failure of `close`'s own wait lets the thread meet a closed channel's context
  or freed private data, or leaks a channel, and only if the owner then frees the
  context (`rdpapplist_main.c:711`, `:779`; `NoCallOnClosed`, `NoChannelLeaked`).
* What is in the menu can be deleted through the database, through updates that change
  an application, syncs that delete files behind the database's back, and
  reconnections; only what an earlier connection left, and no sync has looked at
  since, has no entry (`NothingOrphaned`). It is the refusal of changed data at
  `WSLDVCFileDB.cpp:166` that keeps this so; without it an old link would have no
  entry left.
* Strings of 511 and 512 bytes pass the server's check and fail the client's, which
  needs room for a terminator; nothing else that the protocol allows is refused
  (`OnlyLongStringsRefused`). An update that is refused so is lost with its buffer.
* A child of the font monitor is always in its own process group before it runs
  `xset`, whichever of the two `setpgid` comes first, so that `Run` can take the
  result only of a child that was killed before `exec`. `m_isPathAdded` can be wrong,
  until the X server restarts, only of a path whose `xset` was killed or whose
  `FontFolder` was destroyed although its `-fp` failed (`FontMonitor.cpp:39`): the path
  then stays in the font path and the next `FontFolder` for it believes it is not there
  (`BeliefIsTrue`).
* The font path can be wrong at rest only for a folder whose `fonts.dir` came or
  went between `FontMonitor.cpp:24` and `:30`, for a folder that was renamed and those
  below it (`:162` erases one folder only, and finds it by the path that its parent's
  `FontFolder` had), after a command failed, and after the X
  server was restarted, when `m_isPathAdded` is no longer true (`ListedExact`,
  `TrackedExact`).
* `RemoveAppProvider` needs no lock to do its own work, but a channel that is open
  meanwhile can write links and icons back (`RemovalComplete`), and its database
  then names files that are gone.

What the violations show:

* `ProcessMonitor.cpp:127` erases by iterator after `LaunchProcess` may have
  stored the new child under the same pid; the service then runs untracked and
  its next exit is not answered (`ProcessMonitorPidReuse`), against README.md:146.
* `main.cpp:451` waits in `accept` for a Weston that nobody restarts yet
  (`WSLGdStartupHang`), against README.md:146.
* `WSLDVCCallback.cpp:768` is not reached when the update with SYNC_END fails:
  no clean-up, and sync mode stays on (`AppListClientSyncEnd`), against
  `rdpapplist_protocol.h:59`.
* `WSLDVCFileDB.cpp:178` refuses an application whose data changed, and the end
  of the sync then deletes its link (`AppListClientResync`), against the same line.

Three more divergences are modelled as the code has them and have no run:
`ProcessMonitor.cpp:117` keeps stamps of the future after the clock was set back, so
that exits far apart add up, against the message at :121 (`AbandonedOnlyAfterBurst`
excludes that case); `DELETE_APPLIST_PROVIDER` does nothing, against
`rdpapplist_protocol.h:139`; and `WSLDVCCallback.cpp:695` names the link after the
description, not after appId as `rdpapplist_protocol.h:116` says, so that two
applications can share a link, and deleting one takes it from the other, which stays
in the database (`NothingOrphaned` holds all the same: no file is left unknown).

Fairness. `ProcessMonitor`'s `Fairness`: main() and `Run()` are a thread that is
never blocked but in `waitpid`, and the kernel looks through the children of a
waiter in order of age, so no zombie is passed over for ever: weak fairness per
command for the launches and per pid for reaping. `WSLGd` adds that main() goes
on unless it is blocked (`Proceeds`: nothing obliges it to fail), and that a Weston which stays alive reports. No child is
obliged to exit, no clock to move, no failure to happen. In `AppListServer` the
thread runs and `close` goes on when its wait is over; no wait is obliged to fail, and
neither owner nor client is
obliged to do anything. In `FontMonitor` the thread and its `xset` child run (xset is
local and ends), the distro and `Run` need not. The plug-in's client has only
safety properties: it reacts to its server.

## 4. Proofs

All proofs are checked by TLAPS from the assumptions the modules state, which
say no more than the types of the constants.

`ProcessMonitor_proofs`, for any sets of commands and pids, limit, window and
clock adjustments. The inductive invariant `IInv` is the type invariant with
relations that the three safety properties need of each other: an entry of
`m_children` names a process that exists and runs that command; a free pid runs
nothing; each command has at most one process; a command that was never launched
or was given up has none; without pid reuse, each unreaped process has its entry,
and each launched command that is not given up has a process until Run() ends.
`OneInstance` alone is not inductive: that the relaunched command has no other
process follows only from the entry of the reaped pid being real and unique.
Theorems: `TypeCorrect`, `TrackedAlwaysReal`, `NeverTwice`, `NothingLost`,
`RegularEnd`. `Refinement` shows that, without pid reuse, initial states and
steps map to those of `Supervisor` under `Status`; its lemma `StatusChange`
says which statuses one step can change.

`ProcessMonitorTiming_proofs`, for any limit, window and clock: `TimedInv` relates
wall-clock stamps and real exits by counting. As long as the clock was not set back,
k stamps since a time mean that the k-th latest exit is at most as long ago
(`StampsMeanExits`), so more than `Limit` recent stamps are a burst
(`GivenUpForABurst`). As long as it was not set forward, k exits within the window
have left k stamps in it (`ExitsMeanStamps`), so a burst is always seen (`NoSpin`).
Both count on each exit leaving a stamp of its own (`Fresh`).

`WSLGd_proofs`: every behaviour of `WSLGd` is one of `ProcessMonitor`
(`UsesMonitorCorrectly`), so the theorems above hold of it, and
`WestonAlwaysFirst` for any list of services.

`AppListClient_proofs`: `ThreadInv` relates the flag, the database and the
positions of the two threads; from it `NoNullDatabase` and `QuietAfterClose`,
for any applications, links, updates and buffer sizes. `TypeCorrect` needs
that a handler has a PDU to count down (`TypeInv`). `DiskIsKnown` needs nothing of the
file system: whichever files fail to be written or deleted, an update puts only files
on disk that its entry names (`AcceptedWrites`), and an entry is forgotten only as its
files are deleted or become strays (`DeletedFiles`); that no entry is replaced by
another one is the refusal of changed data (`AddFails`).
`SyncEndsExact` needs that no file operation fails and that no two applications share
a link (`OwnLinksOnly`). It rests on `SyncInv`: while a sync is on, each link in the
menu is reported or on the sync database, and the files of an application kept by the
sync are there and are not on it; so what the end of the sync deletes is the rest.

`AppListRemoval_proofs`, for the same constants: the channel's invariants are those
of `AppListClient` because a removal touches only files (`HandlersBesideRemoval`,
`QuietBesideRemoval`). `RemovesAll` rests on `RemovalInv`: while a removal runs, each
link in the menu is doomed or excused, and so is each icon that a link named at the
scan. It needs that a deletion of the channel only takes files away, and that what a
step writes is excused.

`AppListServer_proofs`, for any set of PDUs and any bounds. The invariant ties the
thread to the context: a thread that runs has a handle, its channel is the context's
and is open, its copy of the events is what the context holds, and a context without
a thread is closed or never had one; but for a context that was freed without a
successful wait, of which nothing is left but the thread. From it `ThreadStopsFirst`, `NothingLeaked`,
`FirstChannelReady` (a first channel's `isReady` is the client's answer) and
`NoIdleEnd`.

`FontMonitor_proofs`, for any paths, roots and trees, with no bound on the kernel's
numbers. The invariant says for each position of the thread what `xpath` and `added`
have to do with each other outside `doubt`: equal with no child, and with a child
differing at most by the folder it was started for, according to its state; that each
path added is tracked or is the one being worked on, so that a new `FontFolder` starts
with its path not added; and that nothing is in doubt unless a command failed. `BeliefHolds`, `PathsHaveOwners`,
`EndsClean`.

`FontMonitorTree_proofs`, for any paths, roots and trees and any number of changes of
them. `TrackInv` relates the tree to the monitor: `FsInv`, `HandInv` and `WatchInv` give
the types, what the thread has in hand at each position, and that a folder which was
not renamed has its own watch; `LookInv`, `ListInv` and `FollowInv` say that what tree
and monitor disagree about is on the way. A `fonts.dir` that the font path does not
show, or shows wrongly, has an event pending whose last word is right, or is the one
in hand, or came or went in the window of `unseen`; a followed subfolder without a
`FontFolder` has an event pending, or is on the stack of the scan, or in hand. The
properties at rest follow, since then nothing is on the way. Each change of the tree
meets two lemmas: it keeps good watches good (`Stays`), and it appends an event for
each thing it makes untrue of the monitor (`Reports`); `MakeEffect`, `RemoveEffect`,
`FontsEffect` and `MoveEffect` prove both. Theorems: `TypeCorrect`, `NothingIsMissed`,
`ListsExactly`.

`CalmInv` is the second invariant there, for a monitor that could follow each change
before the next: at most one event is pending and it says what is the case (`TellInv`),
each `FontFolder` has a descriptor of its own (`OwnInv`), and each folder that is
tracked or about to be has a good parent that follows it, and has a watch itself or is
the one reported as gone (`RootInv`). `TracksExactly` goes along the path from it: what
is tracked has tracked folders above it up to a root, and what is there and followed
cannot have a first folder on its path that is not tracked (`LeastNumber`).

The attempt to prove `NothingMissed` and `ListedExact` showed that they were false in
trees larger than the run's: a `FontFolder` can be left behind for the very folder
that was renamed, not only for those below it. `left` now holds that folder too.

The wire format is proved in `AppListServer_proofs`, for any PDUs: any fields, lengths
of strings up to 65535, versions and sizes of icons. `Begins` relates a stream to the
longer one that is sent, `Reading` a reader to what it has read of it; `ReadsField` is
the step for one field, `ReadsString` for one string, which is read or refused for its
length (`BadString`), and `PduIsRead` composes them for the whole PDU. It counts on
`SameOrder`: both sides have the same strings in the same order and agree on which
are there. Theorems: `StreamIsFilled`, `ReadAsWritten`, `RefusedForLength`.

Every safety invariant of the passing runs is a theorem. Only model-checked: liveness
(`Settles`, `CloseReturns`, `Served`, `StartupEnds`, `EarlyExitsRestarted`) and the
fairness part of the refinement, which are out of the prover's reach.

## 5. Not modelled

* The client's handling of a second capabilities PDU (`WSLDVCCallback.cpp:414`): the
  only server sends one per channel. Paths and names as strings, their length
  limits but as one refusal, window properties, directories.
* `AppListServer` and `AppListClient` over one channel: they share no state but the
  PDUs, whose encoding is checked in `AppListProtocol`; the client's database and the
  server's thread do not depend on each other, so that the composition would only
  multiply their states. Messages are neither lost nor reordered by a dynamic channel.
* The server's owner opening a context whose channel is still open, or using one it has
  freed. Of a client's message with wrong lengths the position each PDU is read from is
  modelled, not the bytes found there.
* Icon sizes near 2^32 (the sum in `rdpapplist_main.c:399` has 32 bits, the client's is
  checked), memory that runs out in the senders (they change nothing).
* `RemoveAppProvider`'s directory scan as single steps, the COM class factory and
  the listener's registration, which keep no state.
* inotify queue overflow and the limit on watches; the contents of `fonts.dir` and
  the rehash after them (`FontMonitor.cpp:98` skips it when the file is rewritten in
  place); `pthread_create` failing (`:296` tests for a negative result, which it never
  returns).
* Environment variables, mounts, command lines, the search for a free port
  (`main.cpp:334`) and the choice of the RDP client in `main()`: one step that
  succeeds or fails. Capability and credential calls between fork and exec.
* Path formats and locale names in `utils.cpp`, its disabled signature check,
  logging and RAII helpers, and everything used only to build, package or debug.
