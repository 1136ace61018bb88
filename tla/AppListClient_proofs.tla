------------------------ MODULE AppListClient_proofs ------------------------
(***************************************************************************)
(* Proofs about AppListClient: what the lock and the flag, which is read   *)
(* and set outside the lock, guarantee between OnDataReceived and OnClose, *)
(* for every set of applications, links, updates and buffer sizes.         *)
(***************************************************************************)
EXTENDS AppListClient, TLAPS

\* m_spFileDB is there until the body of OnClose has run, the flag is set
\* from its first step on, and no handler is inside its body by then.
ThreadInv ==
    /\ cpc \in {"open", "closing", "closed"}
    /\ dbOpen <=> cpc # "closed"
    /\ closed <=> cpc # "open"
    /\ HandlersHaveDB

\* A new callback object satisfies it.
LEMMA InitThreadInv == Init => ThreadInv
  BY DEF Init, ThreadInv, HandlersHaveDB

\* A handler neither closes the channel nor touches the flag, and starts only
\* while the file database is there.
LEMMA HandlerStep ==
    ASSUME Handler
    PROVE  rpc = "handling" /\ rpc' # "handling" /\ UNCHANGED <<dbOpen, closed, cpc>>
<1>1. ASSUME CapsAccepted \/ CapsRejected
      PROVE  rpc = "handling" /\ rpc' # "handling" /\ UNCHANGED <<dbOpen, closed, cpc>>
  BY <1>1 DEF CapsAccepted, CapsRejected, Handling, NextPdu, DropBuffer, dbVars
<1>2. ASSUME Unreadable \/ DeleteProvider \/ AssociateWindowId
      PROVE  rpc = "handling" /\ rpc' # "handling" /\ UNCHANGED <<dbOpen, closed, cpc>>
  BY <1>2 DEF Unreadable, DeleteProvider, AssociateWindowId, Handling, Fails,
              NextPdu, DropBuffer, dbVars
<1>3. ASSUME NEW u \in Updates, UpdateRefused(u) \/ UpdateAccepted(u)
      PROVE  rpc = "handling" /\ rpc' # "handling" /\ UNCHANGED <<dbOpen, closed, cpc>>
  BY <1>3 DEF UpdateRefused, UpdateAccepted, Handling, NextPdu, DropBuffer, dbVars
<1>4. ASSUME NEW a \in App, DeleteApp(a) \/ DeleteUnknownApp(a)
      PROVE  rpc = "handling" /\ rpc' # "handling" /\ UNCHANGED <<dbOpen, closed, cpc>>
  BY <1>4 DEF DeleteApp, DeleteUnknownApp, Handling, Fails, NextPdu, DropBuffer, dbVars
<1> QED
  BY <1>1, <1>2, <1>3, <1>4 DEF Handler

\* Every step keeps the invariant.
LEMMA ThreadStep == ThreadInv /\ [Next]_vars => ThreadInv'
<1> SUFFICES ASSUME ThreadInv, [Next]_vars
             PROVE  ThreadInv'
  OBVIOUS
<1> USE DEF ThreadInv, HandlersHaveDB
<1>1. ASSUME NEW n \in 1..MaxPdus, Receive(n)
      PROVE  ThreadInv'
  BY <1>1 DEF Receive, dbVars
<1>2. ASSUME EnterLock
      PROVE  ThreadInv'
  BY <1>2 DEF EnterLock, dbVars
<1>3. ASSUME ReadHeader
      PROVE  ThreadInv'
  BY <1>3 DEF ReadHeader, MoreToHandle, dbVars
<1>4. ASSUME LeaveLoop
      PROVE  ThreadInv'
  BY <1>4 DEF LeaveLoop, DropBuffer, dbVars
<1>5. ASSUME Handler
      PROVE  ThreadInv'
  BY <1>5, HandlerStep
<1>6. ASSUME CloseFlag
      PROVE  ThreadInv'
  BY <1>6 DEF CloseFlag, dbVars, thread
<1>7. ASSUME CloseBody
      PROVE  ThreadInv'
  BY <1>7 DEF CloseBody, LockFree, thread
<1>8. ASSUME Reconnect
      PROVE  ThreadInv'
  BY <1>8 DEF Reconnect, Fresh
<1>9. CASE UNCHANGED vars
  BY <1>9 DEF vars, dbVars, thread
<1> QED
  BY <1>1, <1>2, <1>3, <1>4, <1>5, <1>6, <1>7, <1>8, <1>9
     DEF Next, DataThread, CloseThread

\* The invariant holds throughout.
LEMMA ThreadInvariance == Spec => []ThreadInv
<1> QED
  BY InitThreadInv, ThreadStep, PTL DEF Spec

-----------------------------------------------------------------------------
\* No handler of OnDataReceived ever finds m_spFileDB null, however OnClose falls
\* between its unlocked check, its lock and its PDUs.
THEOREM NoNullDatabase == Spec => []HandlersHaveDB
<1>1. ThreadInv => HandlersHaveDB
  BY DEF ThreadInv
<1> QED
  BY <1>1, ThreadInvariance, PTL

\* Once OnClose has returned nothing touches the files, the database or the sync
\* state until a new connection is made.
LEMMA QuietStep ==
    ASSUME ThreadInv, [Next]_vars, cpc = "closed", cpc' = "closed"
    PROVE  UNCHANGED <<files, dbVars, sync>>
<1>1. CASE UNCHANGED vars
  BY <1>1 DEF vars
<1>2. CASE Next
  <2>1. ~Handler
    BY HandlerStep DEF ThreadInv, HandlersHaveDB
  <2>2. CASE \E n \in 1..MaxPdus : Receive(n)
    BY <2>2 DEF Receive
  <2>3. CASE EnterLock \/ ReadHeader \/ LeaveLoop
    BY <2>3 DEF EnterLock, ReadHeader, LeaveLoop
  <2>4. CASE CloseFlag \/ CloseBody \/ Reconnect
    BY <2>4 DEF CloseFlag, CloseBody, Reconnect, Fresh
  <2> QED
    BY <1>2, <2>1, <2>2, <2>3, <2>4 DEF Next, DataThread, CloseThread
<1> QED
  BY <1>1, <1>2

\* The same of a behavior.
THEOREM QuietAfterClose == Spec => ClosedIsQuiet
<1>1. ThreadInv /\ [Next]_vars =>
        [cpc = "closed" /\ cpc' = "closed" => UNCHANGED <<files, dbVars, sync>>]_<<thread, cpc>>
  BY QuietStep
<1> QED
  BY <1>1, ThreadInvariance, PTL DEF Spec, ClosedIsQuiet

-----------------------------------------------------------------------------
(* Type correctness. *)

\* Deleting files leaves a well-typed menu.
LEMMA WithoutType ==
    ASSUME NEW ls \in [Link -> LinkFile \cup {NoFile}], NEW is \in SUBSET App, NEW fs
    PROVE  /\ LinksWithout(ls, fs) \in [Link -> LinkFile \cup {NoFile}]
           /\ IconsWithout(is, fs) \in SUBSET App
BY DEF LinksWithout, IconsWithout

\* Scanning the menu yields file names.
LEMMA MenuFilesType == TypeOK => MenuFiles \subseteq FileId
<1> SUFFICES ASSUME TypeOK, NEW f \in MenuFiles
             PROVE  f \in FileId
  OBVIOUS
<1>1. CASE f \in {"lnk"} \X Present
  BY <1>1 DEF Present, FileId
<1>2. ASSUME NEW l \in Present, links[l].icon # NoApp, f = <<"ico", links[l].icon>>
      PROVE  f \in FileId
  <2>1. links[l] \in LinkFile
    BY <1>2 DEF Present, TypeOK
  <2>2. links[l].icon \in App
    BY <1>2, <2>1 DEF LinkFile
  <2> QED
    BY <1>2, <2>2 DEF FileId
<1> QED
  BY <1>1, <1>2 DEF MenuFiles

\* The files an entry names are files, and what is on disk has a name.
LEMMA FilesType ==
    ASSUME NEW a \in App, NEW e \in Entry
    PROVE  FilesNamed(a, e) \subseteq FileId
BY DEF FilesNamed, FileId, Entry

LEMMA OnDiskType == TypeOK => OnDisk \subseteq FileId
  BY DEF TypeOK, OnDisk, Present, FileId

\* The parts of an update.
LEMMA UpdateType ==
    ASSUME NEW u \in Updates
    PROVE  /\ u.app \in App
           /\ u.entry \in Entry
           /\ u.entry.link \in Link
           /\ u.entry.icon \in BOOLEAN
           /\ u.entry.args \in {"old", "new"}
BY DEF Updates, Update, Entry

\* What follows a handler is a legal thread state.
LEMMA ThreadType ==
    ASSUME TypeOK, rpc = "handling", left > 0, NextPdu \/ DropBuffer
    PROVE  /\ rpc' \in {"idle", "entering", "loop", "handling"}
           /\ cmd' \in Commands \cup {"none"}
           /\ left' \in 0..MaxPdus
BY BoundAssumption DEF TypeOK, NextPdu, DropBuffer

\* An accepted update leaves every variable with its type.
LEMMA AcceptedType ==
    ASSUME TypeOK, left > 0, NEW u \in Updates, UpdateAccepted(u)
    PROVE  TypeOK'
<1>1. db' \in [App -> Entry \cup {NoEntry}]
  BY UpdateType DEF UpdateAccepted, TypeOK
<1>2. PICK iconOpened, iconWritten, saved \in Outcomes :
        LET hasIcon == u.entry.icon /\ iconOpened /\ iconWritten
            iconsNow == icons \cup (IF u.entry.icon /\ iconOpened THEN {u.app} ELSE {})
            link == [icon |-> IF hasIcon THEN u.app ELSE NoApp, args |-> u.entry.args]
            linksNow == IF saved THEN [links EXCEPT ![u.entry.link] = link] ELSE links
            unreported == SyncFilesWith(u) \ Spared(u, hasIcon)
        IN \E stuck \in Undeleted(IF Ends(u) THEN unreported ELSE {}) :
            LET gone == IF Ends(u) THEN unreported \ stuck ELSE {} IN
            /\ links' = LinksWithout(linksNow, gone)
            /\ icons' = IconsWithout(iconsNow, gone)
            /\ syncFiles' = IF Ends(u) THEN {} ELSE unreported
  BY DEF UpdateAccepted
<1> DEFINE hasIcon == u.entry.icon /\ iconOpened /\ iconWritten
           iconsNow == icons \cup (IF u.entry.icon /\ iconOpened THEN {u.app} ELSE {})
           link == [icon |-> IF hasIcon THEN u.app ELSE NoApp, args |-> u.entry.args]
           linksNow == IF saved THEN [links EXCEPT ![u.entry.link] = link] ELSE links
           unreported == SyncFilesWith(u) \ Spared(u, hasIcon)
<1>3. link \in LinkFile
  BY UpdateType DEF LinkFile
<1>4. linksNow \in [Link -> LinkFile \cup {NoFile}]
  BY <1>3, UpdateType DEF TypeOK
<1>5. iconsNow \in SUBSET App
  BY UpdateType DEF TypeOK
<1>6. unreported \subseteq FileId
  BY MenuFilesType DEF SyncFilesWith, TypeOK
<1>7. \E gone : /\ links' = LinksWithout(linksNow, gone)
               /\ icons' = IconsWithout(iconsNow, gone)
               /\ syncFiles' = IF Ends(u) THEN {} ELSE unreported
  BY <1>2
<1>8. links' \in [Link -> LinkFile \cup {NoFile}] /\ icons' \subseteq App /\ syncFiles' \subseteq FileId
  <2> HIDE DEF linksNow, iconsNow, unreported
  <2> QED
    BY <1>4, <1>5, <1>6, <1>7, WithoutType
<1>9. kept' \subseteq App /\ offered' \subseteq Link /\ named' \subseteq Link
  BY UpdateType DEF UpdateAccepted, TypeOK, Since, NamedWith
<1>10. rpc = "handling" /\ NextPdu
  BY DEF UpdateAccepted, Handling
<1>11. syncOn' \in BOOLEAN
  BY DEF UpdateAccepted
<1>12. ended' \in {"no", "cleaned", "refused"}
  BY DEF UpdateAccepted
<1>13. dbOpen' = dbOpen /\ closed' = closed /\ handshake' = handshake /\ cpc' = cpc
  BY DEF UpdateAccepted
<1>14. strays' \subseteq FileId
  BY DEF UpdateAccepted, TypeOK
<1> QED
  BY <1>1, <1>8, <1>9, <1>10, <1>11, <1>12, <1>13, <1>14, ThreadType DEF TypeOK

\* A refused update changes only the sync state and the history.
LEMMA RefusedType ==
    ASSUME TypeOK, left > 0, NEW u \in Updates, UpdateRefused(u)
    PROVE  TypeOK'
<1>1. syncFiles' \subseteq FileId
  BY MenuFilesType DEF UpdateRefused, SyncFilesWith, TypeOK
<1>2. kept' \subseteq App /\ offered' \subseteq Link /\ named' \subseteq Link
  BY UpdateType DEF UpdateRefused, TypeOK, Since, NamedWith
<1>3. rpc = "handling" /\ DropBuffer
  BY DEF UpdateRefused, Handling
<1>4. syncOn' \in BOOLEAN
  BY DEF UpdateRefused, Starts
<1>5. ended' \in {"no", "cleaned", "refused"}
  BY DEF UpdateRefused, TypeOK
<1>6. /\ links' = links /\ icons' = icons /\ db' = db /\ dbOpen' = dbOpen
      /\ closed' = closed /\ handshake' = handshake /\ cpc' = cpc /\ strays' = strays
  BY DEF UpdateRefused, files, dbVars
<1> QED
  BY <1>1, <1>2, <1>3, <1>4, <1>5, <1>6, ThreadType DEF TypeOK

\* Deleting an application.
LEMMA DeletedType ==
    ASSUME TypeOK, left > 0, NEW a \in App, DeleteApp(a)
    PROVE  TypeOK'
<1>1. db' \in [App -> Entry \cup {NoEntry}]
  BY DEF DeleteApp, TypeOK
<1>2. \E gone : links' = LinksWithout(links, gone) /\ icons' = IconsWithout(icons, gone)
  BY DEF DeleteApp
<1>3. links' \in [Link -> LinkFile \cup {NoFile}] /\ icons' \subseteq App
  BY <1>2, WithoutType DEF TypeOK
<1>4. rpc = "handling" /\ NextPdu
  BY DEF DeleteApp, Handling
<1>5. /\ dbOpen' = dbOpen /\ syncOn' = syncOn /\ syncFiles' = syncFiles
      /\ closed' = closed /\ handshake' = handshake /\ cpc' = cpc
      /\ kept' \subseteq App /\ offered' = offered /\ named' \subseteq Link
      /\ ended' = "no"
  BY DEF DeleteApp, sync, TypeOK
<1>6. strays' \subseteq FileId
  <2>1. db[a] \in Entry
    BY DEF DeleteApp, TypeOK
  <2>2. PICK stuck \in Undeleted(FilesOf(a)) : strays' = strays \cup stuck
    BY DEF DeleteApp
  <2>3. stuck \subseteq FilesOf(a)
    BY DEF Undeleted
  <2> QED
    BY <2>1, <2>2, <2>3, FilesType DEF TypeOK, FilesOf
<1> QED
  BY <1>1, <1>3, <1>4, <1>5, <1>6, ThreadType DEF TypeOK

\* Inside a handler there is a PDU left to count down.
TypeInv == TypeOK /\ (rpc = "handling" => left > 0)

\* Every step keeps the types.
LEMMA TypeStep == TypeInv /\ [Next]_vars => TypeInv'
<1> SUFFICES ASSUME TypeInv, [Next]_vars
             PROVE  TypeInv'
  OBVIOUS
<1> USE BoundAssumption DEF TypeInv
<1>1. ASSUME NEW n \in 1..MaxPdus, Receive(n)
      PROVE  TypeInv'
  BY <1>1 DEF Receive, TypeOK, files, dbVars, sync, history
<1>2. ASSUME EnterLock
      PROVE  TypeInv'
  BY <1>2 DEF EnterLock, TypeOK, files, dbVars, sync, history
<1>3. ASSUME ReadHeader
      PROVE  TypeInv'
  BY <1>3 DEF ReadHeader, MoreToHandle, TypeOK, files, dbVars, sync, history
<1>4. ASSUME LeaveLoop
      PROVE  TypeInv'
  BY <1>4 DEF LeaveLoop, DropBuffer, TypeOK, files, dbVars, sync, history
<1>5. ASSUME CapsAccepted \/ CapsRejected
      PROVE  TypeInv'
  <2>1. handshake' \in BOOLEAN
    <3>1. CASE CapsAccepted
      BY <3>1, Zenon DEF CapsAccepted
    <3>2. CASE CapsRejected
      BY <3>2, Zenon DEF CapsRejected, TypeOK
    <3> QED
      BY <1>5, <3>1, <3>2
  <2>2. rpc = "handling" /\ rpc' # "handling" /\ (NextPdu \/ DropBuffer)
    BY <1>5 DEF CapsAccepted, CapsRejected, Handling, NextPdu, DropBuffer
  <2>3. UNCHANGED <<files, dbVars, sync, closed, cpc, history>>
    BY <1>5 DEF CapsAccepted, CapsRejected
  <2> QED
    BY <2>1, <2>2, <2>3, ThreadType DEF TypeOK, files, dbVars, sync, history
<1>6. ASSUME Fails, rpc = "handling"
      PROVE  TypeInv'
  BY <1>6 DEF Fails, DropBuffer, TypeOK, files, dbVars, sync, history
<1>7. ASSUME AssociateWindowId
      PROVE  TypeInv'
  BY <1>7 DEF AssociateWindowId, Handling, NextPdu, TypeOK, files, dbVars, sync, history
<1>8. ASSUME NEW u \in Updates, UpdateRefused(u) \/ UpdateAccepted(u)
      PROVE  TypeInv'
  <2>1. rpc = "handling" /\ rpc' # "handling"
    BY <1>8 DEF UpdateRefused, UpdateAccepted, Handling, NextPdu, DropBuffer
  <2> QED
    BY <1>8, <2>1, RefusedType, AcceptedType
<1>9. ASSUME NEW a \in App, DeleteApp(a)
      PROVE  TypeInv'
  <2>1. rpc = "handling" /\ rpc' # "handling"
    BY <1>9 DEF DeleteApp, Handling, NextPdu
  <2> QED
    BY <1>9, <2>1, DeletedType
<1>10. ASSUME Unreadable \/ DeleteProvider \/ \E a \in App : DeleteUnknownApp(a)
       PROVE  TypeInv'
  BY <1>6, <1>10 DEF Unreadable, DeleteProvider, DeleteUnknownApp, Handling
<1>11. ASSUME CloseFlag
       PROVE  TypeInv'
  BY <1>11 DEF CloseFlag, TypeOK, files, dbVars, sync, thread, history
<1>12. ASSUME CloseBody
       PROVE  TypeInv'
  BY <1>12 DEF CloseBody, TypeOK, files, thread, history
<1>13. ASSUME Reconnect
       PROVE  TypeInv'
  <2>1. db' \in [App -> Entry \cup {NoEntry}]
    BY <1>13 DEF Reconnect, Fresh
  <2>2. dbOpen' \in BOOLEAN /\ syncOn' \in BOOLEAN /\ closed' \in BOOLEAN /\ handshake' \in BOOLEAN
    BY <1>13, Zenon DEF Reconnect, Fresh
  <2>3. rpc' = "idle" /\ cmd' = "none" /\ left' = 0 /\ left' \in 0..MaxPdus /\ cpc' = "open"
    BY <1>13 DEF Reconnect, Fresh
  <2>4. syncFiles' = {} /\ kept' = {} /\ offered' = {} /\ named' = {} /\ ended' = "no"
    BY <1>13 DEF Reconnect, Fresh
  <2>5. links' = links /\ icons' = icons /\ strays' \subseteq FileId
    BY <1>13, OnDiskType DEF Reconnect, Fresh, files
  <2> QED
    BY <2>1, <2>2, <2>3, <2>4, <2>5 DEF TypeOK
<1>14. CASE UNCHANGED vars
  BY <1>14 DEF vars, TypeOK, files, dbVars, sync, thread, history
<1> QED
  BY <1>1, <1>2, <1>3, <1>4, <1>5, <1>7, <1>8, <1>9, <1>10, <1>11, <1>12, <1>13, <1>14
     DEF Next, DataThread, CloseThread, Handler

\* Every variable keeps its type, whatever the updates and their flags.
THEOREM TypeCorrect == Spec => []TypeOK
<1>1. ASSUME Init
      PROVE  TypeInv
  <2>1. /\ links \in [Link -> LinkFile \cup {NoFile}]
        /\ db \in [App -> Entry \cup {NoEntry}]
    BY <1>1 DEF Init
  <2>2. dbOpen \in BOOLEAN /\ syncOn \in BOOLEAN /\ closed \in BOOLEAN /\ handshake \in BOOLEAN
    BY <1>1, Zenon DEF Init
  <2>3. rpc = "idle" /\ cmd = "none" /\ left = 0 /\ left \in 0..MaxPdus /\ cpc = "open"
    BY <1>1, BoundAssumption DEF Init
  <2>4. icons = {} /\ syncFiles = {} /\ kept = {} /\ offered = {} /\ named = {} /\ ended = "no"
        /\ strays = {}
    BY <1>1 DEF Init
  <2> QED
    BY <2>1, <2>2, <2>3, <2>4 DEF TypeInv, TypeOK
<1>2. TypeInv => TypeOK
  BY DEF TypeInv
<1> QED
  BY <1>1, <1>2, TypeStep, PTL DEF Spec

-----------------------------------------------------------------------------
(* Deleting an application. *)

\* A delete of c removes one entry, and of the links at most that entry's own.
LEMMA DeleteEffect ==
    ASSUME TypeOK, NEW c \in App, DeleteApp(c)
    PROVE  /\ \A b \in App \ {c} : db'[b] = db[b]
           /\ db'[c] = NoEntry
           /\ \A l \in Link \ {db[c].link} : links'[l] = links[l]
<1>1. (\A b \in App \ {c} : db'[b] = db[b]) /\ db'[c] = NoEntry
  BY DEF DeleteApp, TypeOK
<1>2. PICK stuck : links' = LinksWithout(links, FilesOf(c) \ stuck)
  BY DEF DeleteApp
<1>3. \A l \in Link \ {db[c].link} : <<"lnk", l>> \notin FilesOf(c)
  BY DEF FilesOf, FilesNamed
<1>4. \A l \in Link \ {db[c].link} : links'[l] = links[l]
  BY <1>2, <1>3 DEF LinksWithout
<1> QED
  BY <1>1, <1>4

\* An accepted update leaves nothing on disk that was not there, but the files its
\* entry names.
LEMMA AcceptedWrites ==
    ASSUME TypeOK, NEW u \in Updates, UpdateAccepted(u)
    PROVE  OnDisk' \subseteq OnDisk \cup FilesNamed(u.app, u.entry)
<1>1. PICK iconOpened, iconWritten, saved \in Outcomes :
        LET hasIcon == u.entry.icon /\ iconOpened /\ iconWritten
            iconsNow == icons \cup (IF u.entry.icon /\ iconOpened THEN {u.app} ELSE {})
            link == [icon |-> IF hasIcon THEN u.app ELSE NoApp, args |-> u.entry.args]
            linksNow == IF saved THEN [links EXCEPT ![u.entry.link] = link] ELSE links
            unreported == SyncFilesWith(u) \ Spared(u, hasIcon)
        IN \E stuck \in Undeleted(IF Ends(u) THEN unreported ELSE {}) :
            LET gone == IF Ends(u) THEN unreported \ stuck ELSE {} IN
            /\ links' = LinksWithout(linksNow, gone)
            /\ icons' = IconsWithout(iconsNow, gone)
            /\ syncFiles' = IF Ends(u) THEN {} ELSE unreported
  BY DEF UpdateAccepted
<1> DEFINE hasIcon == u.entry.icon /\ iconOpened /\ iconWritten
           iconsNow == icons \cup (IF u.entry.icon /\ iconOpened THEN {u.app} ELSE {})
           link == [icon |-> IF hasIcon THEN u.app ELSE NoApp, args |-> u.entry.args]
           linksNow == IF saved THEN [links EXCEPT ![u.entry.link] = link] ELSE links
<1>2. PICK gone : links' = LinksWithout(linksNow, gone) /\ icons' = IconsWithout(iconsNow, gone)
  BY <1>1
<1>3. \A l \in Link : l # u.entry.link => linksNow[l] = links[l]
  BY DEF TypeOK
<1>4. \A a \in iconsNow : a \in icons \/ (u.entry.icon /\ a = u.app)
  BY UpdateType
<1> HIDE DEF linksNow, iconsNow
<1>5. \A l \in Present' : l \in Present \/ l = u.entry.link
  BY <1>2, <1>3 DEF Present, LinksWithout
<1>6. \A a \in icons' : a \in icons \/ (u.entry.icon /\ a = u.app)
  BY <1>2, <1>4 DEF IconsWithout
<1>7. ASSUME NEW l \in Present' PROVE <<"lnk", l>> \in OnDisk \cup FilesNamed(u.app, u.entry)
  BY <1>5 DEF OnDisk, FilesNamed
<1>8. ASSUME NEW a \in icons' PROVE <<"ico", a>> \in OnDisk \cup FilesNamed(u.app, u.entry)
  BY <1>6 DEF OnDisk, FilesNamed
<1> QED
  BY <1>7, <1>8 DEF OnDisk

\* A delete takes the files of its entry off the disk, but for those that are stuck.
LEMMA DeletedFiles ==
    ASSUME TypeOK, NEW c \in App, DeleteApp(c)
    PROVE  \A f \in OnDisk' : f \in OnDisk /\ (f \in FilesOf(c) => f \in strays')
<1>1. PICK stuck : /\ links' = LinksWithout(links, FilesOf(c) \ stuck)
                  /\ icons' = IconsWithout(icons, FilesOf(c) \ stuck)
                  /\ strays' = strays \cup stuck
  BY DEF DeleteApp
<1>2. ASSUME NEW l \in Present' PROVE l \in Present /\ <<"lnk", l>> \notin FilesOf(c) \ stuck
  BY <1>1 DEF Present, LinksWithout
<1>3. ASSUME NEW a \in icons' PROVE a \in icons /\ <<"ico", a>> \notin FilesOf(c) \ stuck
  BY <1>1 DEF IconsWithout
<1> QED
  BY <1>1, <1>2, <1>3 DEF OnDisk

\* The invariant by files.
LEMMA OrphanedByFile ==
    NothingOrphaned <=>
        (dbOpen => \A f \in OnDisk :
             f \in strays \/ \E a \in App : db[a] # NoEntry /\ f \in FilesOf(a))
BY DEF NothingOrphaned, Known

\* Steps that leave the files, the database and the history alone.
LEMMA FrameOrphans ==
    ASSUME NothingOrphaned, UNCHANGED <<files, dbVars, strays>>
    PROVE  NothingOrphaned'
BY DEF NothingOrphaned, Known, OnDisk, Present, FilesOf, files, dbVars

\* Every step keeps it: an update writes what its entry names, and an entry is
\* replaced by no other one, only deleted with its files.
LEMMA OrphanStep == TypeOK /\ NothingOrphaned /\ [Next]_vars => NothingOrphaned'
<1> SUFFICES ASSUME TypeOK, NothingOrphaned, [Next]_vars
             PROVE  NothingOrphaned'
  OBVIOUS
<1>1. CASE \E n \in 1..MaxPdus : Receive(n)
  BY <1>1, FrameOrphans DEF Receive, history
<1>2. CASE EnterLock \/ ReadHeader \/ LeaveLoop
  BY <1>2, FrameOrphans DEF EnterLock, ReadHeader, LeaveLoop, history
<1>3. CASE CapsAccepted \/ CapsRejected \/ Unreadable \/ DeleteProvider \/ AssociateWindowId
  BY <1>3, FrameOrphans DEF CapsAccepted, CapsRejected, Unreadable, DeleteProvider,
                            AssociateWindowId, Fails, history
<1>4. CASE \E a \in App : DeleteUnknownApp(a)
  BY <1>4, FrameOrphans DEF DeleteUnknownApp, Fails, history
<1>5. CASE \E u \in Updates : UpdateRefused(u)
  BY <1>5, FrameOrphans DEF UpdateRefused
<1>6. ASSUME NEW u \in Updates, UpdateAccepted(u)
      PROVE  NothingOrphaned'
  <2>1. /\ db' = [db EXCEPT ![u.app] = u.entry] /\ u.entry # NoEntry /\ u.app \in App
        /\ strays' = strays \ FilesNamed(u.app, u.entry) /\ dbOpen' = dbOpen
        /\ db[u.app] \in {NoEntry, u.entry}
    BY <1>6, UpdateType, NoneAssumption DEF UpdateAccepted, Refused, AddFails
  <2>2. db'[u.app] = u.entry /\ FilesOf(u.app)' = FilesNamed(u.app, u.entry)
    BY <2>1 DEF FilesOf, TypeOK
  <2>3. \A a \in App : db[a] # NoEntry => db'[a] = db[a] /\ FilesOf(a)' = FilesOf(a)
    BY <2>1 DEF FilesOf, TypeOK
  <2>4. ASSUME dbOpen, NEW f \in OnDisk'
        PROVE  f \in strays' \/ \E a \in App : db'[a] # NoEntry /\ f \in FilesOf(a)'
    <3>1. CASE f \in FilesNamed(u.app, u.entry)
      BY <2>1, <2>2, <3>1
    <3>2. CASE f \notin FilesNamed(u.app, u.entry)
      <4>1. f \in OnDisk
        BY <1>6, <2>4, <3>2, AcceptedWrites
      <4> QED
        BY <2>1, <2>3, <2>4, <3>2, <4>1, OrphanedByFile
    <3> QED
      BY <3>1, <3>2
  <2> QED
    BY <2>1, <2>4 DEF NothingOrphaned, Known
<1>7. ASSUME NEW c \in App, DeleteApp(c)
      PROVE  NothingOrphaned'
  <2>1. dbOpen' = dbOpen /\ strays \subseteq strays'
    BY <1>7 DEF DeleteApp
  <2>2. \A a \in App \ {c} : db'[a] = db[a] /\ FilesOf(a)' = FilesOf(a)
    BY <1>7, DeleteEffect DEF FilesOf
  <2>3. ASSUME dbOpen, NEW f \in OnDisk', f \notin strays'
        PROVE  \E a \in App : db'[a] # NoEntry /\ f \in FilesOf(a)'
    <3>1. f \in OnDisk /\ f \notin FilesOf(c)
      BY <1>7, <2>3, DeletedFiles
    <3>2. PICK a \in App : db[a] # NoEntry /\ f \in FilesOf(a)
      BY <2>1, <2>3, <3>1, OrphanedByFile
    <3> QED
      BY <2>2, <3>1, <3>2
  <2> QED
    BY <2>1, <2>3 DEF NothingOrphaned, Known
<1>8. CASE CloseFlag
  BY <1>8, FrameOrphans DEF CloseFlag, history
<1>9. CASE CloseBody
  BY <1>9 DEF CloseBody, NothingOrphaned
<1>10. CASE Reconnect
  <2>1. OnDisk' = OnDisk /\ strays' = OnDisk
    BY <1>10 DEF Reconnect, Fresh, files, OnDisk, Present
  <2> QED
    BY <2>1 DEF NothingOrphaned
<1>11. CASE UNCHANGED vars
  BY <1>11, FrameOrphans DEF vars, history
<1> QED
  BY <1>1, <1>2, <1>3, <1>4, <1>5, <1>6, <1>7, <1>8, <1>9, <1>10, <1>11
     DEF Next, DataThread, CloseThread, Handler

\* Every file the connection has written belongs to an application that the
\* database knows, or is one that could not be deleted, whatever links applications
\* share and whichever file operations fail (WSLDVCFileDB.cpp:166).
THEOREM DiskIsKnown == Spec => []NothingOrphaned
<1>1. Init => NothingOrphaned
  BY DEF Init, NothingOrphaned, OnDisk, Present
<1> QED
  BY <1>1, OrphanStep, TypeCorrect, PTL DEF Spec

-----------------------------------------------------------------------------
(* A sync that ends leaves what was reported. *)

\* No two applications name one link: they differ in group or description.
OwnLinksOnly ==
    \A a, b \in App : a # b => \A e \in Offer[a], f \in Offer[b] : e.link # f.link

\* The files of a are there, and the sync database will not delete them.
Shown(a) ==
    /\ db[a] # NoEntry
    /\ db[a].link \in Present
    /\ <<"lnk", db[a].link>> \notin syncFiles
    /\ db[a].icon => a \in icons /\ <<"ico", a>> \notin syncFiles

\* While a sync is on, each link is reported or due to be deleted at its end.
SyncInv ==
    /\ \A a \in App : db[a] # NoEntry => db[a] \in Offer[a]
    /\ syncOn => \A l \in Present : l \in offered \/ <<"lnk", l>> \in syncFiles
    /\ dbOpen => \A a \in kept : Shown(a)
    /\ ended = "cleaned" /\ dbOpen => Present \subseteq offered

\* What an update leaves on the sync database before it may end the sync, and what
\* it deletes.
Rest(u) == SyncFilesWith(u) \ Spared(u, u.entry.icon)
Gone(u) == IF Ends(u) THEN Rest(u) ELSE {}

\* The files after an accepted update, when no file operation fails.
LEMMA AcceptedEffect ==
    ASSUME TypeOK, ~FsMayFail, NEW u \in Updates, UpdateAccepted(u)
    PROVE  /\ \A l \in Link : links'[l] # NoFile <=>
                 (l = u.entry.link \/ links[l] # NoFile) /\ <<"lnk", l>> \notin Gone(u)
           /\ \A a \in App : a \in icons' <=>
                 (a \in icons \/ (u.entry.icon /\ a = u.app)) /\ <<"ico", a>> \notin Gone(u)
           /\ syncFiles' = IF Ends(u) THEN {} ELSE Rest(u)
<1> DEFINE link == [icon |-> IF u.entry.icon THEN u.app ELSE NoApp, args |-> u.entry.args]
           linksNow == [links EXCEPT ![u.entry.link] = link]
           iconsNow == icons \cup (IF u.entry.icon THEN {u.app} ELSE {})
<1>1. Outcomes = {TRUE} /\ \A fs : Undeleted(fs) = {{}}
  BY DEF Outcomes, Undeleted
<1>2. /\ links' = LinksWithout(linksNow, Gone(u))
      /\ icons' = IconsWithout(iconsNow, Gone(u))
      /\ syncFiles' = IF Ends(u) THEN {} ELSE Rest(u)
  <2>1. PICK iconOpened, iconWritten, saved \in Outcomes :
          LET hasIcon == u.entry.icon /\ iconOpened /\ iconWritten
              iconsN == icons \cup (IF u.entry.icon /\ iconOpened THEN {u.app} ELSE {})
              lk == [icon |-> IF hasIcon THEN u.app ELSE NoApp, args |-> u.entry.args]
              linksN == IF saved THEN [links EXCEPT ![u.entry.link] = lk] ELSE links
              unreported == SyncFilesWith(u) \ Spared(u, hasIcon)
          IN \E stuck \in Undeleted(IF Ends(u) THEN unreported ELSE {}) :
              LET gone == IF Ends(u) THEN unreported \ stuck ELSE {} IN
              /\ links' = LinksWithout(linksN, gone)
              /\ icons' = IconsWithout(iconsN, gone)
              /\ syncFiles' = IF Ends(u) THEN {} ELSE unreported
    BY DEF UpdateAccepted
  <2>2. iconOpened = TRUE /\ iconWritten = TRUE /\ saved = TRUE
    BY <1>1
  <2>3. u.entry.icon \in BOOLEAN
    BY UpdateType
  <2>4. (u.entry.icon /\ iconOpened /\ iconWritten) = u.entry.icon
        /\ (u.entry.icon /\ iconOpened) = u.entry.icon
    BY <2>2, <2>3
  <2>5. \E stuck \in Undeleted(IF Ends(u) THEN Rest(u) ELSE {}) :
          LET gone == IF Ends(u) THEN Rest(u) \ stuck ELSE {} IN
          /\ links' = LinksWithout(linksNow, gone)
          /\ icons' = IconsWithout(iconsNow, gone)
          /\ syncFiles' = IF Ends(u) THEN {} ELSE Rest(u)
    BY <2>1, <2>2, <2>4 DEF Rest
  <2>6. Rest(u) \ {} = Rest(u)
    OBVIOUS
  <2> QED
    BY <1>1, <2>5, <2>6 DEF Gone
<1>3. link # NoFile
  BY UpdateType, NoFileAssumption DEF LinkFile
<1>4. \A l \in Link : linksNow[l] # NoFile <=> l = u.entry.link \/ links[l] # NoFile
  BY <1>3 DEF TypeOK
<1>5. \A a \in App : a \in iconsNow <=> a \in icons \/ (u.entry.icon /\ a = u.app)
  BY UpdateType
<1> HIDE DEF linksNow, iconsNow
<1>6. \A l \in Link : links'[l] # NoFile <=> linksNow[l] # NoFile /\ <<"lnk", l>> \notin Gone(u)
  BY <1>2 DEF LinksWithout
<1>7. \A a \in App : a \in icons' <=> a \in iconsNow /\ <<"ico", a>> \notin Gone(u)
  BY <1>2 DEF IconsWithout
<1> QED
  BY <1>2, <1>4, <1>5, <1>6, <1>7

\* An accepted update keeps the invariant, also when it starts or ends a sync.
LEMMA AcceptedSync ==
    ASSUME TypeOK, ThreadInv, ~FsMayFail, SyncInv, NEW u \in Updates, UpdateAccepted(u)
    PROVE  SyncInv'
<1> DEFINE a0 == u.app
           l0 == u.entry.link
<1>1. dbOpen /\ dbOpen' = dbOpen
  BY DEF UpdateAccepted, Handling, ThreadInv, HandlersHaveDB
<1>2. /\ Starts(u) => ~syncOn
      /\ InSync(u) \/ Ends(u) => StartsSync(u) \/ syncOn
      /\ StartsSync(u) <=> Starts(u)
  BY DEF UpdateAccepted, Refused, StartsSync
<1>3. /\ db' = [db EXCEPT ![a0] = u.entry] /\ a0 \in App /\ l0 \in Link
      /\ u.entry # NoEntry /\ u.entry \in Offer[a0]
  BY UpdateType, NoneAssumption DEF UpdateAccepted, Updates
<1>4. /\ offered' = Since(u, offered) \cup {l0}
      /\ kept' = (Since(u, kept) \ {a0}) \cup (IF InSync(u) THEN {a0} ELSE {})
      /\ ended' = IF Ends(u) THEN "cleaned" ELSE "no"
      /\ syncOn' = ((syncOn \/ Starts(u)) /\ ~Ends(u))
  BY DEF UpdateAccepted
<1>5. /\ \A l \in Link : links'[l] # NoFile <=>
            (l = l0 \/ links[l] # NoFile) /\ <<"lnk", l>> \notin Gone(u)
      /\ \A a \in App : a \in icons' <=>
            (a \in icons \/ (u.entry.icon /\ a = a0)) /\ <<"ico", a>> \notin Gone(u)
      /\ syncFiles' = IF Ends(u) THEN {} ELSE Rest(u)
  BY AcceptedEffect
<1>6. /\ \A l \in Link \ {l0} : <<"lnk", l>> \notin Spared(u, u.entry.icon)
      /\ InSync(u) => <<"lnk", l0>> \notin Rest(u)
      /\ InSync(u) /\ u.entry.icon => <<"ico", a0>> \notin Rest(u)
  BY DEF Spared, Rest
<1>7. Gone(u) \subseteq Rest(u) /\ syncFiles' \subseteq Rest(u)
  BY <1>5 DEF Gone
<1>8. StartsSync(u) => \A l \in Present : <<"lnk", l>> \in SyncFilesWith(u)
  BY DEF SyncFilesWith, MenuFiles
<1>9. Present \subseteq Link /\ Present' = {l \in Link : links'[l] # NoFile}
  BY DEF Present
<1> HIDE DEF a0, l0
\* Of the links that were there, those not reported are due to be deleted.
<1>10. ASSUME NEW l \in Present, l # l0, StartsSync(u) \/ syncOn
       PROVE  l \in offered' \/ <<"lnk", l>> \in Rest(u)
  <2>1. l \in Since(u, offered) \/ <<"lnk", l>> \in SyncFilesWith(u)
    BY <1>8, <1>10 DEF SyncInv, Since, SyncFilesWith
  <2> QED
    BY <1>4, <1>6, <1>9, <1>10, <2>1 DEF Rest
<1>11. ASSUME NEW a \in App, db'[a] # NoEntry
       PROVE  db'[a] \in Offer[a]
  BY <1>3, <1>11 DEF SyncInv, TypeOK
<1>12. ASSUME syncOn', NEW l \in Present'
       PROVE  l \in offered' \/ <<"lnk", l>> \in syncFiles'
  <2>1. ~Ends(u) /\ (StartsSync(u) \/ syncOn) /\ syncFiles' = Rest(u)
    BY <1>2, <1>4, <1>5, <1>12
  <2>2. l = l0 \/ l \in Present
    BY <1>5, <1>9, <1>12 DEF Present
  <2> QED
    BY <1>4, <1>10, <2>1, <2>2
<1>13. ASSUME NEW a \in kept'
       PROVE  Shown(a)'
  <2>1. CASE a = a0
    <3>1. InSync(u) /\ db'[a] = u.entry
      BY <1>3, <1>4, <1>13, <2>1 DEF TypeOK
    <3>2. l0 \in Present' /\ <<"lnk", l0>> \notin syncFiles'
      BY <1>3, <1>5, <1>6, <1>7, <1>9, <3>1
    <3>3. u.entry.icon => a0 \in icons' /\ <<"ico", a0>> \notin syncFiles'
      BY <1>3, <1>5, <1>6, <1>7, <3>1
    <3> QED
      BY <1>3, <2>1, <3>1, <3>2, <3>3 DEF Shown, l0
  <2>2. CASE a # a0
    <3>1. a \in kept /\ a \in App /\ ~StartsSync(u) /\ db'[a] = db[a]
      BY <1>3, <1>4, <1>13, <2>2 DEF Since, TypeOK
    <3>2. Shown(a) /\ Rest(u) \subseteq syncFiles
      BY <1>1, <3>1 DEF SyncInv, Rest, SyncFilesWith
    <3>3. db[a].link \in Present' /\ <<"lnk", db[a].link>> \notin syncFiles'
      BY <1>5, <1>7, <1>9, <3>2 DEF Shown, Present
    <3>4. db[a].icon => a \in icons' /\ <<"ico", a>> \notin syncFiles'
      BY <1>5, <1>7, <3>1, <3>2 DEF Shown
    <3> QED
      BY <3>1, <3>2, <3>3, <3>4 DEF Shown
  <2> QED
    BY <2>1, <2>2
<1>14. ASSUME ended' = "cleaned"
       PROVE  Present' \subseteq offered'
  <2>1. Ends(u) /\ (StartsSync(u) \/ syncOn) /\ Gone(u) = Rest(u)
    BY <1>2, <1>4, <1>14 DEF Gone
  <2> SUFFICES ASSUME NEW l \in Present', l # l0 PROVE l \in offered'
    BY <1>4
  <2>2. l \in Present /\ <<"lnk", l>> \notin Rest(u)
    BY <1>5, <1>9, <2>1 DEF Present
  <2> QED
    BY <1>10, <2>1, <2>2
<1> QED
  BY <1>11, <1>12, <1>13, <1>14 DEF SyncInv

\* A refused update changes no file; a sync that it started has everything to delete.
LEMMA RefusedSync ==
    ASSUME TypeOK, SyncInv, NEW u \in Updates, UpdateRefused(u)
    PROVE  SyncInv'
<1>1. UNCHANGED <<links, icons, db, dbOpen>>
  BY DEF UpdateRefused, files, dbVars
<1>2. /\ syncOn' = (syncOn \/ Starts(u)) /\ syncFiles' = SyncFilesWith(u)
      /\ kept' = Since(u, kept) /\ offered' = Since(u, offered)
      /\ ended' = IF Ends(u) /\ syncOn' THEN "refused"
                  ELSE IF StartsSync(u) THEN "no" ELSE ended
  BY DEF UpdateRefused
<1>3. CASE StartsSync(u)
  <2>1. kept' = {} /\ ended' # "cleaned"
    BY <1>2, <1>3 DEF Since
  <2>2. \A l \in Present' : <<"lnk", l>> \in syncFiles'
    BY <1>1, <1>2, <1>3 DEF SyncFilesWith, MenuFiles, Present
  <2> QED
    BY <1>1, <2>1, <2>2 DEF SyncInv
<1>4. CASE ~StartsSync(u)
  <2>1. syncOn' = syncOn /\ syncFiles' = syncFiles /\ kept' = kept /\ offered' = offered
        /\ ended' \in {"refused", ended}
    BY <1>2, <1>4 DEF StartsSync, SyncFilesWith, Since, TypeOK
  <2> QED
    BY <1>1, <2>1 DEF SyncInv, Shown, Present
<1> QED
  BY <1>3, <1>4

\* Deleting an application takes its own link only, as no other names it.
LEMMA DeletedSync ==
    ASSUME TypeOK, OwnLinksOnly, SyncInv, NEW c \in App, DeleteApp(c)
    PROVE  SyncInv'
<1>1. /\ \A b \in App \ {c} : db'[b] = db[b]
      /\ db'[c] = NoEntry
      /\ \A l \in Link \ {db[c].link} : links'[l] = links[l]
  BY DeleteEffect
<1>2. db[c] # NoEntry /\ kept' = kept \ {c} /\ ended' = "no" /\ kept \subseteq App
      /\ UNCHANGED <<dbOpen, syncOn, syncFiles, offered>>
  BY DEF DeleteApp, sync, TypeOK
<1>3. PICK stuck : /\ links' = LinksWithout(links, FilesOf(c) \ stuck)
                   /\ icons' = IconsWithout(icons, FilesOf(c) \ stuck)
  BY DEF DeleteApp
<1>4. Present' \subseteq Present /\ \A b \in App \ {c} : b \in icons => b \in icons'
  BY <1>3 DEF LinksWithout, IconsWithout, FilesOf, FilesNamed, Present
<1>5. ASSUME dbOpen, NEW b \in kept'
      PROVE  Shown(b)'
  <2>1. b \in App \ {c} /\ Shown(b) /\ db'[b] = db[b]
    BY <1>1, <1>2, <1>5 DEF SyncInv
  <2>2. db[b].link # db[c].link
    BY <1>2, <2>1 DEF OwnLinksOnly, SyncInv, Shown
  <2>3. db[b].link \in Present'
    BY <1>1, <2>1, <2>2 DEF Shown, Present
  <2> QED
    BY <1>2, <1>4, <2>1, <2>3 DEF Shown
<1> QED
  BY <1>1, <1>2, <1>4, <1>5 DEF SyncInv

\* What leaves the files, the database and the sync alone keeps the invariant.
LEMMA FrameSync ==
    ASSUME SyncInv, UNCHANGED <<files, dbVars, sync, history>>
    PROVE  SyncInv'
BY DEF SyncInv, Shown, Present, files, dbVars, sync, history

\* Every step keeps it.
LEMMA SyncStep ==
    ~FsMayFail /\ OwnLinksOnly /\ TypeOK /\ ThreadInv /\ SyncInv /\ [Next]_vars => SyncInv'
<1> SUFFICES ASSUME ~FsMayFail, OwnLinksOnly, TypeOK, ThreadInv, SyncInv, [Next]_vars
             PROVE  SyncInv'
  OBVIOUS
<1>1. CASE \E n \in 1..MaxPdus : Receive(n)
  BY <1>1, FrameSync DEF Receive
<1>2. CASE EnterLock \/ ReadHeader \/ LeaveLoop
  BY <1>2, FrameSync DEF EnterLock, ReadHeader, LeaveLoop
<1>3. CASE CapsAccepted \/ CapsRejected \/ Unreadable \/ DeleteProvider \/ AssociateWindowId
  BY <1>3, FrameSync DEF CapsAccepted, CapsRejected, Unreadable, DeleteProvider,
                         AssociateWindowId, Fails
<1>4. CASE \E u \in Updates : UpdateRefused(u) \/ UpdateAccepted(u)
  BY <1>4, RefusedSync, AcceptedSync
<1>5. CASE \E a \in App : DeleteApp(a)
  BY <1>5, DeletedSync
<1>6. CASE \E a \in App : DeleteUnknownApp(a)
  BY <1>6, FrameSync DEF DeleteUnknownApp, Fails
<1>7. CASE CloseFlag
  BY <1>7, FrameSync DEF CloseFlag
<1>8. CASE CloseBody
  BY <1>8 DEF CloseBody, SyncInv
<1>9. CASE Reconnect
  BY <1>9 DEF Reconnect, Fresh, SyncInv
<1>10. CASE UNCHANGED vars
  BY <1>10, FrameSync DEF vars
<1> QED
  BY <1>1, <1>2, <1>3, <1>4, <1>5, <1>6, <1>7, <1>8, <1>9, <1>10
     DEF Next, DataThread, CloseThread, Handler

\* When a sync has ended the menu shows what the server reported, provided that no
\* file operation failed and no two applications share a link (WSLDVCCallback.cpp:768).
THEOREM SyncEndsExact ==
    ASSUME ~FsMayFail, OwnLinksOnly
    PROVE  Spec => []SyncExact
<1>1. Init => SyncInv
  BY DEF Init, SyncInv
<1>2. TypeOK /\ ThreadInv /\ SyncInv /\ [Next]_vars => SyncInv'
  BY SyncStep
<1>3. SyncInv => SyncExact
  BY DEF SyncInv, SyncExact, Shown
<1> QED
  BY <1>1, <1>2, <1>3, TypeCorrect, ThreadInvariance, PTL DEF Spec
=============================================================================
