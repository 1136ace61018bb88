----------------------- MODULE AppListRemoval_proofs -----------------------
(***************************************************************************)
(* Proofs about AppListRemoval: RemoveAppProvider does its work whatever   *)
(* the channel does meanwhile, and the guarantees between the channel's    *)
(* two threads hold beside it, for any applications, links and updates.    *)
(***************************************************************************)
EXTENDS AppListRemoval, AppListClient_proofs

\* What the call has still to answer for.
RemovalInv ==
    removal => /\ \A l \in Present : <<"lnk", l>> \in doomed \cup excused
               /\ \A a \in icons \cap pointed : <<"ico", a>> \in doomed \cup excused

RInv == ThreadInv /\ RemovalInv

LEMMA RInitInv == RInit => RInv
  BY InitThreadInv DEF RInit, RInv, RemovalInv

\* The removal leaves the state of the channel's threads alone.
LEMMA RemovalLeavesThreads ==
    Removal => UNCHANGED <<dbVars, sync, closed, rpc, cpc, thread>>
<1>1. ASSUME Scan \/ RemovalEnds PROVE UNCHANGED <<dbVars, sync, closed, rpc, cpc, thread>>
  BY <1>1 DEF Scan, RemovalEnds, vars, thread
<1>2. ASSUME NEW f \in doomed, DeleteNext(f) PROVE UNCHANGED <<dbVars, sync, closed, rpc, cpc, thread>>
  BY <1>2 DEF DeleteNext, thread
<1> QED
  BY <1>1, <1>2 DEF Removal

LEMMA RThreadStep == ThreadInv /\ [RNext]_allVars => ThreadInv'
<1> SUFFICES ASSUME ThreadInv, [RNext]_allVars PROVE ThreadInv'
  OBVIOUS
<1>1. CASE Channel
  BY <1>1, ThreadStep DEF Channel
<1>2. CASE Removal
  BY <1>2, RemovalLeavesThreads DEF ThreadInv, HandlersHaveDB, dbVars
<1>3. CASE UNCHANGED allVars
  BY <1>3, ThreadStep DEF allVars
<1> QED
  BY <1>1, <1>2, <1>3 DEF RNext

\* Whatever the channel writes is excused, what it deletes need not be deleted.
LEMMA ChannelStep == RemovalInv /\ Channel => RemovalInv'
<1> SUFFICES ASSUME RemovalInv, Channel, removal PROVE RemovalInv'
  BY DEF RemovalInv, Channel
<1> USE DEF RemovalInv, Channel
<1>1. ASSUME NEW l \in Present' PROVE <<"lnk", l>> \in doomed' \cup excused'
  <2>1. l \in Link /\ links'[l] # NoFile
    BY DEF Present
  <2>2. CASE links'[l] = links[l]
    BY <2>1, <2>2 DEF Present
  <2>3. CASE links'[l] # links[l]
    BY <2>1, <2>3 DEF Written
  <2> QED
    BY <2>2, <2>3
<1>2. ASSUME NEW a \in (icons \cap pointed)' PROVE <<"ico", a>> \in doomed' \cup excused'
  BY <1>2 DEF Written
<1> QED
  BY <1>1, <1>2

LEMMA ScanStep == Scan => RemovalInv'
<1> SUFFICES ASSUME Scan PROVE RemovalInv'
  OBVIOUS
<1>1. doomed' = MenuFiles /\ links' = links /\ icons' = icons
      /\ pointed' = {links[l].icon : l \in Present} \ {NoApp}
  BY DEF Scan, Scanned, vars, files
<1>2. ASSUME NEW l \in Present' PROVE <<"lnk", l>> \in doomed'
  BY <1>1 DEF Present, MenuFiles
<1>3. ASSUME NEW a \in (icons \cap pointed)' PROVE <<"ico", a>> \in doomed'
  <2>1. PICK l \in Present : a = links[l].icon /\ a # NoApp
    BY <1>1
  <2> QED
    BY <1>1, <2>1 DEF MenuFiles
<1> QED
  BY <1>2, <1>3 DEF RemovalInv

LEMMA DeleteStep == ASSUME RemovalInv, NEW f \in doomed, DeleteNext(f) PROVE RemovalInv'
<1>1. PICK stuck : /\ links' = LinksWithout(links, {f} \ stuck)
                  /\ icons' = IconsWithout(icons, {f} \ stuck)
                  /\ excused' = excused \cup stuck
  BY DEF DeleteNext
<1>2. removal /\ doomed' = doomed \ {f} /\ pointed' = pointed
  BY DEF DeleteNext
<1>3. ASSUME NEW l \in Present' PROVE <<"lnk", l>> \in doomed' \cup excused'
  <2>1. l \in Present /\ <<"lnk", l>> \notin {f} \ stuck
    BY <1>1 DEF Present, LinksWithout
  <2> QED
    BY <1>1, <1>2, <2>1 DEF RemovalInv
<1>4. ASSUME NEW a \in (icons \cap pointed)' PROVE <<"ico", a>> \in doomed' \cup excused'
  <2>1. a \in icons /\ a \in pointed /\ <<"ico", a>> \notin {f} \ stuck
    BY <1>1, <1>2 DEF IconsWithout
  <2> QED
    BY <1>1, <1>2, <2>1 DEF RemovalInv
<1> QED
  BY <1>3, <1>4 DEF RemovalInv

LEMMA RStep == RInv /\ [RNext]_allVars => RInv'
<1> SUFFICES ASSUME RInv, [RNext]_allVars PROVE RemovalInv'
  BY RThreadStep DEF RInv
<1>1. CASE RemovalEnds
  BY <1>1 DEF RemovalEnds, RemovalInv
<1>2. CASE UNCHANGED allVars
  BY <1>2 DEF allVars, vars, remVars, files, RInv, RemovalInv, Present
<1> QED
  BY <1>1, <1>2, ChannelStep, ScanStep, DeleteStep DEF RNext, Removal, RInv

LEMMA RAlways == RSpec => []RInv
  BY RInitInv, RStep, PTL DEF RSpec

\* RemoveAppProvider leaves nothing behind but what could not be deleted and what
\* the channel wrote while it ran (dllmain.cpp:94).
THEOREM RemovesAll == RSpec => RemovalComplete
<1>1. RInv /\ [RNext]_allVars =>
        [RemovalEnds =>
            /\ \A l \in Present : <<"lnk", l>> \in excused
            /\ \A a \in icons \cap pointed : <<"ico", a>> \in excused]_allVars
  BY DEF RInv, RemovalInv, RemovalEnds
<1> QED
  BY <1>1, RAlways, PTL DEF RSpec, RemovalComplete

\* Beside it the channel's handlers still have their database (:1003, :1084 of
\* WSLDVCCallback.cpp), although it takes no lock.
THEOREM HandlersBesideRemoval == RSpec => []HandlersHaveDB
<1>1. RInv => HandlersHaveDB
  BY DEF RInv, ThreadInv
<1> QED
  BY <1>1, RAlways, PTL

\* And a closed channel stays quiet.
THEOREM QuietBesideRemoval == RSpec => ClosedIsQuiet
<1>1. RInv /\ [RNext]_allVars =>
        [cpc = "closed" /\ cpc' = "closed" => UNCHANGED <<files, dbVars, sync>>]_<<thread, cpc>>
  <2> SUFFICES ASSUME RInv, [RNext]_allVars, ~UNCHANGED <<thread, cpc>>,
                      cpc = "closed", cpc' = "closed"
               PROVE  UNCHANGED <<files, dbVars, sync>>
    OBVIOUS
  <2>1. [Next]_vars
    BY RemovalLeavesThreads DEF RNext, Channel, allVars
  <2> QED
    BY <2>1, QuietStep DEF RInv
<1> QED
  BY <1>1, RAlways, PTL DEF RSpec, ClosedIsQuiet
=============================================================================
