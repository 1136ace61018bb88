---------------------------- MODULE AppListClient ----------------------------
(***************************************************************************)
(* The Windows end of the application-list channel: WSLDVCCallback         *)
(* (src/WSLDVCPlugin/WSLDVCCallback.cpp) with its two WSLDVCFileDB's, and  *)
(* the Start-menu links and icon files they manage.                        *)
(*                                                                         *)
(* The channel host may deliver data (OnDataReceived) and close the        *)
(* channel (OnClose) on different threads.  One buffer can hold several    *)
(* PDUs; m_crit is held over the whole buffer, m_bChannelClosed is read    *)
(* and set outside it.  The files outlive the connection, everything else  *)
(* is made anew for each one.                                              *)
(*                                                                         *)
(* An application is known by its key, "[group\]appId".  Its icon file is  *)
(* named after the key and its link after group and description, so two    *)
(* applications can name the same link.                                    *)
(***************************************************************************)
EXTENDS Naturals, FiniteSets

CONSTANTS
    App,     \* keys
    Link,    \* link paths under m_appMenuPath
    Offer,   \* Offer[a]: the contents an update of a can have
    Hints,   \* the sets of HINT_SYNC_* flags an update can carry
    NoApp, NoFile, NoEntry,
    MaxPdus, \* PDUs in one buffer
    BadNames, \* can an update carry a name or a path that is refused?
    FsMayFail \* can writing or deleting a file fail?

\* What an update says of an application besides its key.
Entry == [link : Link, icon : BOOLEAN, args : {"old", "new"}]

ASSUME OfferAssumption == Offer \in [App -> SUBSET Entry]
ASSUME HintsAssumption == Hints \subseteq SUBSET {"start", "sync", "end"}
ASSUME NoneAssumption  == NoApp \notin App /\ NoEntry \notin Entry
ASSUME BoundAssumption == MaxPdus \in Nat /\ BadNames \in BOOLEAN
                                          /\ FsMayFail \in BOOLEAN

LinkFile == [icon : App \cup {NoApp}, args : {"old", "new"}]
FileId   == ({"lnk"} \X Link) \cup ({"ico"} \X App)

ASSUME NoFileAssumption == NoFile \notin LinkFile

VARIABLES
    \* files
    links,     \* the .lnk files: contents, or NoFile
    icons,     \* the applications whose .ico file exists
    \* the callback object
    db,        \* m_spFileDB: the entry stored under each key, or NoEntry
    dbOpen,    \* m_spFileDB is not null
    syncOn,    \* m_spFileDBSync is not null
    syncFiles, \* m_spFileDBSync: the files to delete when the sync ends
    closed,    \* m_bChannelClosed
    handshake, \* m_handShakeComplated
    \* threads
    rpc,       \* OnDataReceived: "idle", "entering" (past the unlocked check),
               \* "loop" (at the loop head), "handling" (inside a handler)
    cmd,       \* the command in the header just read
    left,      \* PDUs left in the buffer
    cpc,       \* OnClose: "open", "closing" (flag set), "closed"
    \* history
    kept,      \* applications whose last accepted update since the sync
               \* started had HINT_SYNC, and that were not deleted since
    offered,   \* links of all updates accepted since the sync started
    named,     \* links named by any HINT_SYNC update since the sync started,
               \* accepted or not, and not deleted since
    ended,     \* the last SYNC_END: "cleaned" (the menu is as it was left),
               \* "refused", or "no" (none since the menu or the sync changed)
    strays     \* files that were on disk before the connection, or that a delete
               \* could not remove, and that no update has named since

files   == <<links, icons>>
dbVars  == <<db, dbOpen>>
sync    == <<syncOn, syncFiles>>
history == <<kept, offered, named, ended, strays>>
thread  == <<rpc, cmd, left>>
vars    == <<files, dbVars, sync, closed, handshake, thread, cpc, history>>

-----------------------------------------------------------------------------
Present == {l \in Link : links[l] # NoFile}
OnDisk  == ({"lnk"} \X Present) \cup ({"ico"} \X icons)

\* addAllFilesAsFileIdAt: every link under the menu path, and the icon file
\* each one points to.
MenuFiles ==
    ({"lnk"} \X Present)
        \cup {<<"ico", links[l].icon>> : l \in {k \in Present : links[k].icon # NoApp}}

\* Mutant of LockFree: OnClose does not take m_crit.
LockFreeAlways == TRUE

\* m_crit is held from the loop's entry to its exit.
LockFree == rpc \notin {"loop", "handling"}

Commands == {"caps", "update", "delete", "provider", "window", "other"}

Update == [app : App, entry : Entry, wellFormed : BOOLEAN, hints : Hints]

Updates == {u \in Update : /\ u.entry \in Offer[u.app]
                           /\ u.wellFormed \/ BadNames}

Starts(u) == "start" \in u.hints \* RDPAPPLIST_HINT_SYNC_START
InSync(u) == "sync" \in u.hints  \* RDPAPPLIST_HINT_SYNC
Ends(u)   == "end" \in u.hints   \* RDPAPPLIST_HINT_SYNC_END

\* The files of a as its entry e names them.
FilesNamed(a, e) == {<<"lnk", e.link>>} \cup (IF e.icon THEN {<<"ico", a>>} ELSE {})

\* Mutant of AddFails: the new data replaces the old (the TODO at :176).
AddFailsNever(u) == FALSE

\* OnFileAdded: a key that is already there must have the same data.
AddFails(u) == db[u.app] \notin {NoEntry, u.entry}

\* What OnUpdateAppList finds wrong, in the order of its checks: sync already
\* started, sync not started, a bad name or path, or other data for the key.
Refused(u) ==
    \/ Starts(u) /\ syncOn
    \/ (InSync(u) \/ Ends(u)) /\ ~(Starts(u) \/ syncOn)
    \/ ~u.wellFormed
    \/ AddFails(u)

\* OnSyncStart succeeds before anything else is checked.
StartsSync(u) == Starts(u) /\ ~syncOn

\* The sync database once the flags of u are taken into account.
SyncFilesWith(u) == IF StartsSync(u) THEN MenuFiles ELSE syncFiles

Since(u, links_) == IF StartsSync(u) THEN {} ELSE links_
NamedWith(u) == Since(u, named) \cup (IF InSync(u) THEN {u.entry.link} ELSE {})

\* CreateIconFile can fail, CreateShellLink can fail (ignored), and so can
\* each DeleteFile.
Outcomes == IF FsMayFail THEN BOOLEAN ELSE {TRUE}
Undeleted(fs) == IF FsMayFail THEN SUBSET fs ELSE {{}}

-----------------------------------------------------------------------------
Fresh ==
    /\ db' = [a \in App |-> NoEntry]
    /\ dbOpen' = TRUE
    /\ syncOn' = FALSE
    /\ syncFiles' = {}
    /\ closed' = FALSE
    /\ handshake' = FALSE
    /\ rpc' = "idle"
    /\ cmd' = "none"
    /\ left' = 0
    /\ cpc' = "open"
    /\ kept' = {} /\ offered' = {} /\ named' = {} /\ ended' = "no"
    /\ strays' = OnDisk

Init ==
    /\ links = [l \in Link |-> NoFile]
    /\ icons = {}
    /\ db = [a \in App |-> NoEntry]
    /\ dbOpen = TRUE
    /\ syncOn = FALSE
    /\ syncFiles = {}
    /\ closed = FALSE
    /\ handshake = FALSE
    /\ rpc = "idle"
    /\ cmd = "none"
    /\ left = 0
    /\ cpc = "open"
    /\ kept = {} /\ offered = {} /\ named = {} /\ ended = "no" /\ strays = {}

\* OnNewChannelConnection: a new callback object; the files stay.
Reconnect ==
    /\ cpc = "closed"
    /\ rpc = "idle"
    /\ Fresh
    /\ UNCHANGED files

-----------------------------------------------------------------------------
(* OnDataReceived outside its handlers. *)

\* The check of m_bChannelClosed before the lock is taken.
Receive(n) ==
    /\ rpc = "idle"
    /\ ~closed
    /\ rpc' = "entering"
    /\ left' = n
    /\ UNCHANGED <<files, dbVars, sync, closed, handshake, cmd, cpc, history>>

EnterLock ==
    /\ rpc = "entering"
    /\ rpc' = "loop"
    /\ UNCHANGED <<files, dbVars, sync, closed, handshake, cmd, left, cpc, history>>

\* The handler succeeded: on to the next PDU.
NextPdu == rpc' = "loop" /\ cmd' = "none" /\ left' = left - 1

\* The handler failed: the rest of the buffer is dropped.
DropBuffer == rpc' = "idle" /\ cmd' = "none" /\ left' = 0

\* Mutants of MoreToHandle: one half of the loop condition is missing.
MoreUnlessClosed == ~closed
MoreWhileData == left > 0

\* while (len && !m_bChannelClosed)
MoreToHandle == left > 0 /\ ~closed

\* ReadAppListHeader; a header that cannot be read counts as "other".
ReadHeader ==
    /\ rpc = "loop"
    /\ MoreToHandle
    /\ rpc' = "handling"
    /\ cmd' \in Commands
    /\ UNCHANGED <<files, dbVars, sync, closed, handshake, left, cpc, history>>

LeaveLoop ==
    /\ rpc = "loop"
    /\ ~MoreToHandle
    /\ DropBuffer
    /\ UNCHANGED <<files, dbVars, sync, closed, handshake, cpc, history>>

-----------------------------------------------------------------------------
(* The handlers. *)

\* Inside the handler of c.  Anything but capabilities waits for the handshake.
Handling(c) == /\ rpc = "handling"
               /\ cmd = c
               /\ c = "caps" \/ handshake

\* OnCaps: done; or the version or the reply failed; or it failed before.
CapsAccepted ==
    /\ Handling("caps")
    /\ handshake' = TRUE
    /\ NextPdu
    /\ UNCHANGED <<files, dbVars, sync, closed, cpc, history>>

CapsRejected ==
    /\ Handling("caps")
    /\ handshake' \in {FALSE, handshake}
    /\ DropBuffer
    /\ UNCHANGED <<files, dbVars, sync, closed, cpc, history>>

\* The handler fails before it changes anything: the PDU cannot be read, the
\* command is unknown, or the handshake is not done.
Fails ==
    /\ DropBuffer
    /\ UNCHANGED <<files, dbVars, sync, closed, handshake, cpc, history>>

Unreadable == /\ rpc = "handling"
              /\ cmd # "caps"
              /\ Fails

\* "Nothing to do": the payload is left in the buffer, so that its flags are
\* read as the next command, an unknown one.
DeleteProvider == Handling("provider") /\ Fails

\* OnAssociateWindowId looks m_spFileDB up and changes only the taskbar.
AssociateWindowId ==
    /\ Handling("window")
    /\ NextPdu
    /\ UNCHANGED <<files, dbVars, sync, closed, handshake, cpc, history>>

\* OnUpdateAppList returns a failure.  A sync it has just started stays on.
UpdateRefused(u) ==
    /\ Handling("update")
    /\ Refused(u)
    /\ DropBuffer
    /\ syncOn' = (syncOn \/ Starts(u))
    /\ syncFiles' = SyncFilesWith(u)
    /\ kept' = Since(u, kept)
    /\ offered' = Since(u, offered)
    /\ named' = NamedWith(u)
    /\ ended' = IF Ends(u) /\ syncOn' THEN "refused"
                ELSE IF StartsSync(u) THEN "no" ELSE ended
    /\ UNCHANGED <<files, dbVars, closed, handshake, cpc, strays>>

\* The links and icons once the files in fs are deleted from ls and is.
LinksWithout(ls, fs) == [l \in Link |-> IF <<"lnk", l>> \in fs THEN NoFile ELSE ls[l]]
IconsWithout(is, fs) == {a \in is : <<"ico", a>> \notin fs}

\* Mutant of Spared: the icon stays on the sync database.
SparedLinkOnly(u, hasIcon) == IF InSync(u) THEN {<<"lnk", u.entry.link>>} ELSE {}

\* What HINT_SYNC takes off the sync database.
Spared(u, hasIcon) ==
    IF InSync(u) THEN {<<"lnk", u.entry.link>>}
                       \cup (IF hasIcon THEN {<<"ico", u.app>>} ELSE {})
    ELSE {}

\* OnUpdateAppList succeeds: store the entry, write the icon (an error leaves no
\* file, or a truncated one), save the link (errors are ignored), take both off
\* the sync database in sync mode, and with SYNC_END delete what is left on it.
UpdateAccepted(u) ==
    /\ Handling("update")
    /\ ~Refused(u)
    /\ db' = [db EXCEPT ![u.app] = u.entry]
    /\ \E iconOpened, iconWritten, saved \in Outcomes :
        LET hasIcon == u.entry.icon /\ iconOpened /\ iconWritten
            iconsNow == icons \cup (IF u.entry.icon /\ iconOpened THEN {u.app} ELSE {})
            link == [icon |-> IF hasIcon THEN u.app ELSE NoApp, args |-> u.entry.args]
            linksNow == IF saved THEN [links EXCEPT ![u.entry.link] = link] ELSE links
            unreported == SyncFilesWith(u) \ Spared(u, hasIcon)
        IN \E stuck \in Undeleted(IF Ends(u) THEN unreported ELSE {}) :
            LET gone == IF Ends(u) THEN unreported \ stuck ELSE {} IN
            /\ links' = LinksWithout(linksNow, gone)
            /\ icons' = IconsWithout(iconsNow, gone)
            /\ syncFiles' = IF Ends(u) THEN {} ELSE unreported
    /\ syncOn' = ((syncOn \/ Starts(u)) /\ ~Ends(u))
    /\ kept' = (Since(u, kept) \ {u.app}) \cup (IF InSync(u) THEN {u.app} ELSE {})
    /\ offered' = Since(u, offered) \cup {u.entry.link}
    /\ named' = NamedWith(u)
    /\ ended' = IF Ends(u) THEN "cleaned" ELSE "no"
    /\ strays' = strays \ FilesNamed(u.app, u.entry)
    /\ NextPdu
    /\ UNCHANGED <<dbOpen, closed, handshake, cpc>>

\* FindFiles: what m_spFileDB knows of a's files.
FilesOf(a) == FilesNamed(a, db[a])

\* OnDeleteAppList of a key that is in m_spFileDB: delete both files, forget it.
DeleteApp(a) ==
    /\ Handling("delete")
    /\ db[a] # NoEntry
    /\ \E stuck \in Undeleted(FilesOf(a)) :
            /\ links' = LinksWithout(links, FilesOf(a) \ stuck)
            /\ icons' = IconsWithout(icons, FilesOf(a) \ stuck)
            /\ strays' = strays \cup stuck
    /\ db' = [db EXCEPT ![a] = NoEntry]
    /\ kept' = kept \ {a}
    /\ named' = named \ {db[a].link}
    /\ ended' = "no"
    /\ NextPdu
    /\ UNCHANGED <<dbOpen, sync, closed, handshake, cpc, offered>>

\* ... of a key that is not.
DeleteUnknownApp(a) ==
    /\ Handling("delete")
    /\ db[a] = NoEntry
    /\ Fails

-----------------------------------------------------------------------------
(* OnClose. *)

CloseFlag ==
    /\ cpc = "open"
    /\ closed' = TRUE
    /\ cpc' = "closing"
    /\ UNCHANGED <<files, dbVars, sync, handshake, thread, history>>

\* Under m_crit: cancel the sync without deleting, drop m_spFileDB.
CloseBody ==
    /\ cpc = "closing"
    /\ LockFree
    /\ syncOn' = FALSE
    /\ syncFiles' = {}
    /\ db' = [a \in App |-> NoEntry]
    /\ dbOpen' = FALSE
    /\ cpc' = "closed"
    /\ UNCHANGED <<files, closed, handshake, thread, history>>

-----------------------------------------------------------------------------
Handler ==
    \/ CapsAccepted \/ CapsRejected \/ Unreadable \/ DeleteProvider
    \/ AssociateWindowId
    \/ \E u \in Updates : UpdateRefused(u) \/ UpdateAccepted(u)
    \/ \E a \in App : DeleteApp(a) \/ DeleteUnknownApp(a)

DataThread ==
    \/ \E n \in 1..MaxPdus : Receive(n)
    \/ EnterLock
    \/ ReadHeader
    \/ LeaveLoop
    \/ Handler

CloseThread == CloseFlag \/ CloseBody

Next == DataThread \/ CloseThread \/ Reconnect

Spec == Init /\ [][Next]_vars

-----------------------------------------------------------------------------
(* Properties. *)

\* Every variable has its type.
TypeOK ==
    /\ links \in [Link -> LinkFile \cup {NoFile}]
    /\ icons \subseteq App
    /\ db \in [App -> Entry \cup {NoEntry}]
    /\ dbOpen \in BOOLEAN
    /\ syncOn \in BOOLEAN
    /\ syncFiles \subseteq FileId
    /\ closed \in BOOLEAN /\ handshake \in BOOLEAN
    /\ rpc \in {"idle", "entering", "loop", "handling"}
    /\ cmd \in Commands \cup {"none"}
    /\ left \in 0..MaxPdus
    /\ cpc \in {"open", "closing", "closed"}
    /\ kept \subseteq App /\ offered \subseteq Link /\ named \subseteq Link
    /\ ended \in {"no", "cleaned", "refused"}
    /\ strays \subseteq FileId

\* No handler runs after OnClose has set m_spFileDB to null: every handler
\* dereferences it, and the only guards are the lock and a flag that is read
\* and set outside the lock (WSLDVCCallback.cpp:1003, :1011, :1084).
HandlersHaveDB == rpc = "handling" => dbOpen

\* Once OnClose has returned, a buffer that was already past the unlocked
\* check touches neither the Start menu nor the sync state, at any step of either
\* thread.
ClosedIsQuiet ==
    [][cpc = "closed" /\ cpc' = "closed" => UNCHANGED <<files, dbVars, sync>>]_<<thread, cpc>>

\* After a sync the menu shows what the server reported: every link was accepted
\* since the sync started, and each application accepted with HINT_SYNC has its
\* link and its icon file, whatever was on disk before, was deleted meanwhile, or
\* was left by a connection that closed in mid-sync.
SyncExact ==
    (ended = "cleaned" /\ dbOpen) =>
        /\ Present \subseteq offered
        /\ \A a \in kept : /\ db[a].link \in Present
                           /\ db[a].icon => a \in icons

\* Database and disk agree: a file in the menu belongs to an entry of m_spFileDB,
\* so that a delete of its application removes it, unless it was there before the
\* connection or DeleteFile failed; through updates that change an application,
\* syncs that delete by file and not by entry, and reconnections
\* (WSLDVCFileDB.cpp:166, WSLDVCCallback.cpp:823).
Known == UNION {FilesOf(a) : a \in {b \in App : db[b] # NoEntry}}
NothingOrphaned == dbOpen => OnDisk \subseteq Known \cup strays

\* "Client should remove any app entry those are not reported between _START and
\* _END during sync mode" (rdpapplist_protocol.h:59): whatever becomes of the
\* PDU that carries _END, only reported links remain.
SyncRemovesUnreported == ended # "no" => Present \subseteq offered \cup named

\* The same line, read the other way: a link that was reported is not removed.
SyncSparesReported ==
    [][ended' = "cleaned" => \A l \in Present \cap named' : links'[l] # NoFile]_vars
=============================================================================
