--------------------------- MODULE AppListRemoval ---------------------------
(***************************************************************************)
(* RemoveAppProvider (src/WSLDVCPlugin/dllmain.cpp), which an uninstaller  *)
(* calls in a process of its own: it makes a file database of everything   *)
(* in the provider's menu and deletes those files one by one, while a      *)
(* channel (AppListClient) may be updating, syncing or closing.  The two   *)
(* share the files and no lock.                                            *)
(***************************************************************************)
EXTENDS AppListClient

VARIABLES
    removal, \* is RemoveAppProvider running?
    doomed,  \* m_fileEntries of the call's own file database
    \* history of the call
    pointed, \* applications a link of the menu pointed to at the scan
    excused  \* files that could not be deleted, or were written since the scan

remVars == <<removal, doomed, pointed, excused>>
allVars == <<vars, remVars>>

RInit == Init /\ removal = FALSE /\ doomed = {} /\ pointed = {} /\ excused = {}

\* Mutant of Scanned: links only.
ScannedLinks == {"lnk"} \X Present

\* addAllFilesAsFileIdAt
Scanned == MenuFiles

Scan ==
    /\ ~removal
    /\ removal' = TRUE
    /\ doomed' = Scanned
    /\ pointed' = {links[l].icon : l \in Present} \ {NoApp}
    /\ UNCHANGED <<vars, excused>>

\* One round of deleteAllFileIdFiles: a file that is gone, or cannot be deleted,
\* is passed over.
DeleteNext(f) ==
    /\ removal
    /\ f \in doomed
    /\ doomed' = doomed \ {f}
    /\ \E stuck \in Undeleted({f}) :
          /\ links' = LinksWithout(links, {f} \ stuck)
          /\ icons' = IconsWithout(icons, {f} \ stuck)
          /\ excused' = excused \cup stuck
    /\ UNCHANGED <<dbVars, sync, closed, handshake, thread, cpc, history, removal, pointed>>

RemovalEnds ==
    /\ removal
    /\ doomed = {}
    /\ removal' = FALSE
    /\ pointed' = {} /\ excused' = {}
    /\ UNCHANGED <<vars, doomed>>

Removal == Scan \/ RemovalEnds \/ \E f \in doomed : DeleteNext(f)

\* The files that a step writes.
Written == {<<"lnk", l>> : l \in {k \in Link : links'[k] \notin {NoFile, links[k]}}}
              \cup {<<"ico", a>> : a \in (icons' \ icons) \cap pointed}

\* A step of the channel.
Channel ==
    /\ Next
    /\ excused' = IF removal THEN excused \cup Written ELSE {}
    /\ UNCHANGED <<removal, doomed, pointed>>

RNext == Channel \/ Removal

RSpec == RInit /\ [][RNext]_allVars

-----------------------------------------------------------------------------
\* When RemoveAppProvider returns, no link is left in the menu, nor the icon file
\* of one that was: but for files that could not be deleted and files that the
\* channel has written since (dllmain.cpp:94).  Deletes, the end of a sync and the
\* close of the channel may take files from under it.
RemovalComplete ==
    [][RemovalEnds =>
         /\ \A l \in Present : <<"lnk", l>> \in excused
         /\ \A a \in icons \cap pointed : <<"ico", a>> \in excused]_allVars
=============================================================================
