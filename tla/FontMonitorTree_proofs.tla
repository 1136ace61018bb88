----------------------- MODULE FontMonitorTree_proofs -----------------------
(***************************************************************************)
(* Proofs about what FontMonitor makes of a file tree that changes while   *)
(* it looks: for any paths, roots and trees, and any changes of them, a    *)
(* FontFolder whose watch is good loses no subfolder and no fonts.dir.     *)
(* They rest on one relation: what the tree and the monitor disagree about *)
(* is still on the way, as an event that is pending, a folder still to be  *)
(* visited or the FontFolder in hand.                                      *)
(***************************************************************************)
EXTENDS FontMonitor_proofs, SequenceTheorems, WellFoundedInduction

EventRecord == [wd : Wd, kind : {"add", "del"}, what : {"folder", "file"}, name : Name]

\* The types of the file system, inotify and the monitor's map.
FsInv ==
    /\ tree \in [DOMAIN tree -> Inode] /\ DOMAIN tree \subseteq Path /\ IsInjective(tree)
    /\ \A p \in DOMAIN tree : \A k \in 1..Len(p) : SubSeq(p, 1, k) \in DOMAIN tree
    /\ fonts \subseteq Range(tree)
    /\ watch \in [DOMAIN watch -> Wd] /\ DOMAIN watch \subseteq Range(tree) /\ IsInjective(watch)
    /\ queue \in Seq(EventRecord)
    /\ folders \in [Tracked -> Wd] /\ Tracked \subseteq Path

Commands == {"sleep", "setpgid", "wait"}

\* The FontFolder in hand is being constructed, and has no watch yet; or it is
\* being destroyed, and its watch is not taken away yet.
Constructing == at \in {"check", "watch"} \/ (at \in Commands /\ call.back = "watch")
Dropping == at = "unwatch" \/ (at \in Commands \cup {"aborted"} /\ call.back = "unwatch")

HandInv ==
    /\ at \in Commands \cup {"start", "scan", "check", "watch", "list", "unwatch", "stop",
                            "stopped", "aborted"}
    /\ run \in {"before", "running", "returned", "stopping"}
    /\ obj.wd \in Wd \cup {NONE}
    /\ Constructing => obj.wd = NONE
    /\ Constructing \/ Dropping => obj.path \notin Tracked
    /\ at \in Commands /\ call.back = "watch" => call.isAdd
    /\ at = "start" => Tracked = {} /\ DOMAIN watch = {}
    /\ at = "stop" => run = "stopping"
    /\ run = "stopping" =>
          at \in {"stop", "stopped", "unwatch"} \/ (at \in Commands /\ call.back = "unwatch")
    /\ scans \in Seq(SUBSET Path) /\ xpath \subseteq Path

\* Each watch is a FontFolder's, and a folder that was not renamed has its own.
WatchInv ==
    /\ Range(watch) \subseteq Range(folders) \cup (IF Dropping THEN {obj.wd} ELSE {})
    /\ \A p \in Tracked \ left :
          folders[p] \in Range(watch) =>
              Exists(p) /\ tree[p] \in DOMAIN watch /\ watch[tree[p]] = folders[p]

\* p's watch is good, and stays so if nobody touches p.
Good(p) == Watched(p) /\ p \notin left /\ ~(Dropping /\ obj.wd = folders[p])

\* Events about fonts.dir, and about a subfolder, of a watched folder.
FontsEvents(wd) == {e \in EventRecord : e.wd = wd /\ e.what = "file"}
FolderEvents(wd, name) == {e \in EventRecord : e.wd = wd /\ e.what = "folder" /\ e.name = name}

\* Where the events M are in the queue q, and what the last of them says.
Pending(q, M) == {k \in DOMAIN q : q[k] \in M}
Says(q, M, kind) ==
    \A k \in Pending(q, M) : (\A j \in Pending(q, M) : j <= k) => q[k].kind = kind

\* What an event that tells the truth about p's fonts.dir says.
Truth(p) == IF HasFonts(p) THEN "add" ELSE "del"

\* Whether the font path holds p, or will once the command for p has run.
Modifying(p) == at \in Commands /\ obj.path = p /\ call.back = "scan"
Lists(p) == IF Modifying(p) THEN call.isAdd ELSE p \in added

\* The folder that is constructed was looked at and did not change since, or it is
\* remembered in `unseen`.
LookInv ==
    "failed" \notin lapses /\ obj.path \notin unseen =>
        /\ at = "watch" => (obj.path \in added <=> HasFonts(obj.path))
        /\ at \in Commands /\ call.back = "watch" =>
              HasFonts(obj.path) /\ child.state # "refused"

Listing(p) ==
    /\ Says(queue, FontsEvents(folders[p]), Truth(p))
    /\ Pending(queue, FontsEvents(folders[p])) = {} =>
          /\ Lists(p) <=> HasFonts(p)
          /\ Modifying(p) => child.state # "refused"

ListInv ==
    "failed" \notin lapses /\ at # "aborted" =>
        \A p \in Tracked : Good(p) /\ p \notin unseen => Listing(p)

\* A subfolder that is still to be visited, or being constructed.
Coming(q) ==
    \/ \E k \in DOMAIN scans : q \in scans[k]
    \/ Constructing /\ obj.path = q
    \/ at = "list" /\ obj.path = Front(q)

Following(p, q) ==
    /\ Says(queue, FolderEvents(folders[p], Last(q)), "add")
    /\ Pending(queue, FolderEvents(folders[p], Last(q))) = {} => q \in Tracked \/ Coming(q)

FollowInv ==
    at # "aborted" /\ run # "stopping" =>
        \A p \in Tracked : \A q \in DOMAIN tree :
            Good(p) /\ Len(q) > 1 /\ Front(q) = p /\ Follows(p, Last(q)) => Following(p, q)

TrackInv == FsInv /\ HandInv /\ WatchInv /\ LookInv /\ ListInv /\ FollowInv

-----------------------------------------------------------------------------
(* Functions, sequences and paths. *)

IsFcn(f) == f = [z \in DOMAIN f |-> f[z]]

\* A function with one value set.
LEMMA WithFacts ==
    ASSUME NEW f, NEW x, NEW y
    PROVE  /\ IsFcn(With(f, x, y)) /\ With(f, x, y)[x] = y
           /\ \A z : z \in DOMAIN With(f, x, y) <=> z \in DOMAIN f \/ z = x
           /\ \A z \in DOMAIN f : z # x => With(f, x, y)[z] = f[z]
  BY DEF With, IsFcn

\* A function without the arguments in T.
LEMMA WithoutFacts ==
    ASSUME NEW f, NEW T
    PROVE  /\ IsFcn(Without(f, T))
           /\ \A z : z \in DOMAIN Without(f, T) <=> z \in DOMAIN f /\ z \notin T
           /\ \A z \in DOMAIN f : z \notin T => Without(f, T)[z] = f[z]
  BY DEF Without, IsFcn

\* The first k names of a path.
LEMMA PrefixFacts ==
    ASSUME NEW S, NEW p \in Seq(S), NEW k \in 0..Len(p)
    PROVE  /\ SubSeq(p, 1, k) \in Seq(S) /\ Len(SubSeq(p, 1, k)) = k
           /\ \A i \in 1..k : SubSeq(p, 1, k)[i] = p[i]
<1>1. Len(p) \in Nat /\ \A i \in 1..k : p[i] \in S
  OBVIOUS
<1>2. /\ SubSeq(p, 1, k) \in Seq(S) /\ Len(SubSeq(p, 1, k)) = IF 1 <= k THEN k - 1 + 1 ELSE 0
      /\ \A i \in 1..(k - 1 + 1) : SubSeq(p, 1, k)[i] = p[1 + i - 1]
  BY <1>1, SubSeqProperties
<1> QED
  BY <1>1, <1>2

\* A path is its parent with its own name appended.
LEMMA FrontFacts ==
    ASSUME NEW S, NEW p \in Seq(S), p # <<>>
    PROVE  /\ Front(p) \in Seq(S) /\ Len(p) \in Nat \ {0} /\ Len(Front(p)) = Len(p) - 1
           /\ Last(p) \in S
           /\ \A k \in 1..Len(p) - 1 : Front(p)[k] = p[k]
           /\ p = Append(Front(p), Last(p))
<1>1. Len(p) \in Nat \ {0} /\ \A k \in 1..Len(p) : p[k] \in S
  OBVIOUS
<1>2. Front(p) \in Seq(S) /\ Len(Front(p)) = Len(p) - 1
      /\ \A k \in 1..Len(p) - 1 : Front(p)[k] = p[k]
  <2>1. Len(p) - 1 \in 0..Len(p) /\ Front(p) = SubSeq(p, 1, Len(p) - 1)
    BY <1>1 DEF Front
  <2> QED
    BY <2>1, PrefixFacts
<1>3. Last(p) \in S
  BY <1>1 DEF Last
<1>4. p = Append(Front(p), Last(p))
  <2> DEFINE q == Append(Front(p), Last(p))
  <2>1. q \in Seq(S) /\ Len(q) = Len(p)
    BY <1>1, <1>2, <1>3
  <2>2. \A k \in 1..Len(p) : q[k] = p[k]
    BY <1>1, <1>2, <1>3 DEF Last
  <2>3. p = q
    <3> HIDE DEF q
    <3> QED
      BY <2>1, <2>2, SeqEqual
  <2> QED
    BY <2>3
<1> QED
  BY <1>1, <1>2, <1>3, <1>4

\* Two paths with the same parent and the same name are one.
LEMMA SameParent ==
    ASSUME NEW S, NEW p \in Seq(S), NEW q \in Seq(S), p # <<>>, q # <<>>,
           Front(p) = Front(q), Last(p) = Last(q)
    PROVE  p = q
<1>1. p = Append(Front(p), Last(p)) /\ q = Append(Front(q), Last(q))
  BY FrontFacts
<1> QED
  BY ONLY <1>1, Front(p) = Front(q), Last(p) = Last(q)

\* The parent and the name of a subfolder's path.
LEMMA AppendFacts ==
    ASSUME NEW S, NEW p \in Seq(S), NEW x \in S
    PROVE  /\ Append(p, x) \in Seq(S) /\ Append(p, x) # <<>>
           /\ Front(Append(p, x)) = p /\ Last(Append(p, x)) = x
  BY DEF Front, Last

\* One path is below another just if their names agree as far as the shorter goes.
LEMMA IsPrefixFacts ==
    ASSUME NEW S, NEW s \in Seq(S), NEW t \in Seq(S)
    PROVE  IsPrefix(s, t) <=> Len(s) <= Len(t) /\ \A i \in 1..Len(s) : s[i] = t[i]
<1>1. Len(s) \in Nat /\ Len(t) \in Nat
  OBVIOUS
<1>2. CASE Len(s) <= Len(t)
  <2> DEFINE a == SubSeq(s, 1, Len(s))
             b == SubSeq(t, 1, Len(s))
  <2>1. a \in Seq(S) /\ Len(a) = Len(s) /\ \A i \in 1..Len(s) : a[i] = s[i]
    BY <1>1, PrefixFacts
  <2>2. b \in Seq(S) /\ Len(b) = Len(s) /\ \A i \in 1..Len(s) : b[i] = t[i]
    BY <1>1, <1>2, PrefixFacts
  <2>3. a = b <=> \A i \in 1..Len(s) : s[i] = t[i]
    <3> HIDE DEF a, b
    <3>1. (\A i \in 1..Len(s) : s[i] = t[i]) => \A i \in 1..Len(a) : a[i] = b[i]
      BY <2>1, <2>2
    <3> QED
      BY <2>1, <2>2, <3>1, SeqEqual
  <2> QED
    BY <1>2, <2>3 DEF IsPrefix
<1>3. CASE ~(Len(s) <= Len(t))
  BY <1>3 DEF IsPrefix
<1> QED
  BY <1>2, <1>3

\* What a rename makes of a path: the prefix p of x becomes q.
Renamed(x, p, q) == q \o SubSeq(x, Len(p) + 1, Len(x))

\* A path below p, after p is renamed to q: its type, its length, and that it is below q.
LEMMA RenamedFacts ==
    ASSUME NEW S, NEW p \in Seq(S), NEW q \in Seq(S), NEW x \in Seq(S), IsPrefix(p, x)
    PROVE  /\ Renamed(x, p, q) \in Seq(S)
           /\ Len(Renamed(x, p, q)) = Len(q) + Len(x) - Len(p)
           /\ \A i \in 1..Len(q) : Renamed(x, p, q)[i] = q[i]
           /\ IsPrefix(q, Renamed(x, p, q))
<1> DEFINE r == SubSeq(x, Len(p) + 1, Len(x))
           y == Renamed(x, p, q)
<1>1. Len(p) \in Nat /\ Len(q) \in Nat /\ Len(x) \in Nat /\ Len(p) <= Len(x)
      /\ \A i \in Len(p) + 1..Len(x) : x[i] \in S
  BY IsPrefixFacts
<1>2. r \in Seq(S) /\ Len(r) = IF Len(p) + 1 <= Len(x) THEN Len(x) - (Len(p) + 1) + 1 ELSE 0
  BY <1>1, SubSeqProperties
<1> HIDE DEF r
<1>3. Len(r) = Len(x) - Len(p)
  BY <1>1, <1>2
<1>4. /\ y \in Seq(S) /\ Len(y) = Len(q) + Len(r)
      /\ \A i \in 1..Len(q) + Len(r) : y[i] = IF i <= Len(q) THEN q[i] ELSE r[i - Len(q)]
  BY <1>2, ConcatProperties DEF Renamed, r
<1> HIDE DEF y
<1>5. ASSUME NEW i \in 1..Len(q) PROVE y[i] = q[i]
  <2>1. i \in 1..Len(q) + Len(r) /\ i <= Len(q)
    BY <1>1, <1>3
  <2> QED
    BY <1>4, <2>1
<1>7. IsPrefix(q, y)
  <2>1. Len(q) <= Len(y)
    BY <1>1, <1>3, <1>4
  <2> QED
    BY <1>4, <1>5, <2>1, IsPrefixFacts
<1> QED
  BY <1>1, <1>3, <1>4, <1>5, <1>7 DEF y

\* It begins with the names of q.
LEMMA RenamedHead ==
    ASSUME NEW S, NEW p \in Seq(S), NEW q \in Seq(S), NEW x \in Seq(S), IsPrefix(p, x),
           NEW i \in 1..Len(q)
    PROVE  Renamed(x, p, q)[i] = q[i]
  BY RenamedFacts

\* Its other names are those it had below p.
LEMMA RenamedAt ==
    ASSUME NEW S, NEW p \in Seq(S), NEW q \in Seq(S), NEW x \in Seq(S), IsPrefix(p, x),
           NEW i \in 1..Len(x) - Len(p), NEW j, j = Len(q) + i, NEW m, m = Len(p) + i
    PROVE  Renamed(x, p, q)[j] = x[m]
<1> DEFINE r == SubSeq(x, Len(p) + 1, Len(x))
           y == Renamed(x, p, q)
<1>1. Len(p) \in Nat /\ Len(q) \in Nat /\ Len(x) \in Nat /\ Len(p) <= Len(x)
      /\ \A k \in Len(p) + 1..Len(x) : x[k] \in S
  BY IsPrefixFacts
<1>2. i \in 1..Len(x) - (Len(p) + 1) + 1 /\ Len(p) + 1 + i - 1 = Len(p) + i
      /\ i \in 1..Len(x) - Len(p)
  BY <1>1
<1>3. /\ r \in Seq(S)
      /\ Len(r) = IF Len(p) + 1 <= Len(x) THEN Len(x) - (Len(p) + 1) + 1 ELSE 0
      /\ \A k \in 1..Len(x) - (Len(p) + 1) + 1 : r[k] = x[Len(p) + 1 + k - 1]
  BY <1>1, SubSeqProperties
<1>4. r[i] = x[Len(p) + i]
  <2> HIDE DEF r
  <2>1. r[i] = x[Len(p) + 1 + i - 1]
    BY <1>2, <1>3
  <2> QED
    BY <1>2, <2>1
<1>5. \A k \in 1..Len(q) + Len(r) : y[k] = IF k <= Len(q) THEN q[k] ELSE r[k - Len(q)]
  BY <1>3, ConcatProperties DEF Renamed, r
<1> HIDE DEF r, y
<1>6. j \in 1..Len(q) + Len(r) /\ ~(j <= Len(q)) /\ j - Len(q) = i
  BY <1>1, <1>2, <1>3
<1>7. y[j] = r[i]
  BY <1>5, <1>6
<1> QED
  BY <1>4, <1>7 DEF y

\* Two renames that undo each other.
LEMMA RenamedBack ==
    ASSUME NEW S, NEW p \in Seq(S), NEW q \in Seq(S), NEW x \in Seq(S), IsPrefix(p, x)
    PROVE  Renamed(Renamed(x, p, q), q, p) = x
<1>1. /\ Len(p) \in Nat /\ Len(q) \in Nat /\ Len(x) \in Nat /\ Len(p) <= Len(x)
      /\ \A i \in 1..Len(p) : p[i] = x[i]
  BY IsPrefixFacts
<1>2. PICK y : y = Renamed(x, p, q)
  OBVIOUS
<1>3. y \in Seq(S) /\ Len(y) = Len(q) + Len(x) - Len(p) /\ IsPrefix(q, y)
  BY <1>2, RenamedFacts
<1>4. PICK z : z = Renamed(y, q, p)
  OBVIOUS
<1>5. z \in Seq(S) /\ Len(z) = Len(p) + Len(y) - Len(q)
  BY <1>3, <1>4, RenamedFacts
<1>6. ASSUME NEW i \in 1..Len(p) PROVE z[i] = p[i]
  BY <1>3, <1>4, RenamedHead
<1>7. ASSUME NEW i \in 1..Len(x) - Len(p), NEW m, m = Len(p) + i PROVE z[m] = x[m]
  <2>1. PICK j : j = Len(q) + i
    OBVIOUS
  <2>2. y[j] = x[m]
    BY <1>2, <1>7, <2>1, RenamedAt
  <2>3. i \in 1..Len(y) - Len(q)
    BY <1>1, <1>3
  <2>4. z[m] = y[j]
    BY <1>3, <1>4, <1>7, <2>1, <2>3, RenamedAt
  <2> QED
    BY <2>2, <2>4
<1>8. Len(z) = Len(x)
  BY <1>1, <1>3, <1>5
<1>9. ASSUME NEW k \in 1..Len(z) PROVE z[k] = x[k]
  <2>1. CASE k \in 1..Len(p)
    BY <1>1, <1>6, <2>1
  <2>2. CASE k \notin 1..Len(p)
    <3>1. PICK i : i = k - Len(p)
      OBVIOUS
    <3>2. i \in 1..Len(x) - Len(p) /\ k = Len(p) + i
      BY <1>1, <1>8, <2>2, <3>1
    <3> QED
      BY <1>7, <3>2
  <2> QED
    BY <2>1, <2>2
<1>10. z = x
  BY <1>5, <1>8, <1>9, SeqEqual
<1> QED
  BY <1>2, <1>4, <1>10

\* The parent of a folder exists, as mkdir, rename and rm -r leave a tree.
LEMMA ParentExists ==
    ASSUME FsInv, NEW p \in DOMAIN tree, Len(p) > 1
    PROVE  Front(p) \in DOMAIN tree
<1>1. p \in Seq(STRING) \ {<<>>}
  BY PathAssumption DEF FsInv
<1>2. Len(p) - 1 \in 1..Len(p)
  BY <1>1
<1> QED
  BY <1>1, <1>2 DEF FsInv, Front

-----------------------------------------------------------------------------
(* Events that are appended and taken. *)

\* The queue t says what s does about the events M, or that the last is of this kind.
Quiet(s, t, M) ==
    /\ Pending(t, M) = Pending(s, M)
    /\ \A kind : Says(s, M, kind) => Says(t, M, kind)
Tells(t, M, kind) == Pending(t, M) # {} /\ Says(t, M, kind)

\* A queue that did not change is quiet about everything.
LEMMA QuietSame == ASSUME NEW s, NEW M PROVE Quiet(s, s, M)
  BY DEF Quiet

\* An event that is appended is the last word on what it is about, and nothing else changes.
LEMMA AppendEvent ==
    ASSUME NEW s \in Seq(EventRecord), NEW e \in EventRecord, NEW M
    PROVE  /\ Append(s, e) \in Seq(EventRecord)
           /\ e \in M => Tells(Append(s, e), M, e.kind)
           /\ e \notin M => Quiet(s, Append(s, e), M)
<1> DEFINE t == Append(s, e)
           n == Len(s) + 1
<1>1. t \in Seq(EventRecord) /\ Len(s) \in Nat /\ n \in Nat
  OBVIOUS
<1>2. DOMAIN s = 1..Len(s) /\ DOMAIN t = 1..n
  OBVIOUS
<1>3. t[n] = e /\ \A k \in 1..Len(s) : t[k] = s[k]
  OBVIOUS
<1> HIDE DEF t
<1>4. Pending(t, M) = Pending(s, M) \cup (IF e \in M THEN {n} ELSE {})
  BY <1>1, <1>2, <1>3 DEF Pending
<1>5. \A k \in Pending(s, M) : k \in 1..Len(s)
  BY <1>2 DEF Pending
<1>6. ASSUME e \in M PROVE Pending(t, M) # {} /\ Says(t, M, e.kind)
  <2>1. n \in Pending(t, M)
    BY <1>4, <1>6
  <2>2. ASSUME NEW k \in Pending(t, M), \A j \in Pending(t, M) : j <= k
        PROVE  t[k].kind = e.kind
    <3>1. n <= k
      BY <2>1, <2>2
    <3>2. k = n
      BY <1>1, <1>4, <1>5, <3>1
    <3> QED
      BY <1>3, <3>2
  <2> QED
    BY <2>1, <2>2 DEF Says
<1>7. ASSUME NEW kind, e \notin M, Says(s, M, kind) PROVE Says(t, M, kind)
  <2>1. Pending(t, M) = Pending(s, M)
    BY <1>4, <1>7
  <2> QED
    BY <1>3, <1>5, <1>7, <2>1 DEF Says
<1> QED
  BY <1>1, <1>4, <1>6, <1>7 DEF t, Tells, Quiet

\* inotify reports what happened to the folder i, if that is watched.
Note(i, kind, what, name) == [wd |-> watch[i], kind |-> kind, what |-> what, name |-> name]

Push(s, i, kind, what, name) == s \o Event(i, kind, what, name)

\* inotify reports a change of a watched folder to whoever waits for such an event.
LEMMA PushNew ==
    ASSUME FsInv, NEW s \in Seq(EventRecord), NEW i, NEW kind \in {"add", "del"},
           NEW what \in {"folder", "file"}, NEW name \in Name, NEW M,
           i \in DOMAIN watch
    PROVE  /\ Push(s, i, kind, what, name) \in Seq(EventRecord)
           /\ Note(i, kind, what, name) \in M =>
                 Tells(Push(s, i, kind, what, name), M, kind)
<1> DEFINE t == Push(s, i, kind, what, name)
           e == Note(i, kind, what, name)
           a == Append(s, e)
<1>1. e \in EventRecord /\ e.kind = kind
  BY DEF FsInv, EventRecord, Note
<1>2. Event(i, kind, what, name) = <<e>>
  BY DEF Event, Note
<1> HIDE DEF e
<1>3. t = a
  BY <1>1, <1>2, AppendIsConcat DEF Push
<1>4. a \in Seq(EventRecord) /\ (e \in M => Tells(a, M, e.kind))
  BY <1>1, AppendEvent
<1> HIDE DEF a, t
<1> QED
  BY <1>1, <1>3, <1>4 DEF e, t

\* inotify adds nothing to what M is about when the folder is not watched or the event is another.
LEMMA PushSame ==
    ASSUME FsInv, NEW s \in Seq(EventRecord), NEW i, NEW kind \in {"add", "del"},
           NEW what \in {"folder", "file"}, NEW name \in Name, NEW M,
           i \notin DOMAIN watch \/ Note(i, kind, what, name) \notin M
    PROVE  Quiet(s, Push(s, i, kind, what, name), M)
<1> DEFINE t == Push(s, i, kind, what, name)
           e == Note(i, kind, what, name)
           a == Append(s, e)
<1>1. CASE i \in DOMAIN watch
  <2>1. e \in EventRecord /\ e \notin M
    BY <1>1 DEF FsInv, EventRecord, Note
  <2>2. Event(i, kind, what, name) = <<e>>
    BY <1>1 DEF Event, Note
  <2> HIDE DEF e
  <2>3. t = a
    BY <2>1, <2>2, AppendIsConcat DEF Push
  <2>4. Quiet(s, a, M)
    BY <2>1, AppendEvent
  <2> HIDE DEF a, t
  <2> QED
    BY <2>3, <2>4 DEF t
<1>2. CASE i \notin DOMAIN watch
  <2>1. t = s
    BY <1>2, ConcatEmptySeq DEF Push, Event
  <2>2. Quiet(s, s, M)
    BY DEF Quiet
  <2> HIDE DEF t
  <2> QED
    BY <2>1, <2>2 DEF t
<1> QED
  BY <1>1, <1>2

\* What inotify reports has the type of an event.
LEMMA PushType ==
    ASSUME FsInv, NEW s \in Seq(EventRecord), NEW i, NEW kind \in {"add", "del"},
           NEW what \in {"folder", "file"}, NEW name \in Name
    PROVE  Push(s, i, kind, what, name) \in Seq(EventRecord)
<1>1. CASE i \in DOMAIN watch
  BY <1>1, PushNew
<1>2. CASE i \notin DOMAIN watch
  BY <1>2, ConcatEmptySeq DEF Push, Event
<1> QED
  BY <1>1, <1>2

\* Reading the oldest event leaves the last word of the others what it was.
LEMMA TakeEvent ==
    ASSUME NEW s \in Seq(EventRecord), s # <<>>, NEW M, NEW kind
    PROVE  /\ Head(s) \in EventRecord /\ Tail(s) \in Seq(EventRecord)
           /\ Says(s, M, kind) => Says(Tail(s), M, kind)
           /\ Head(s) \notin M /\ Pending(Tail(s), M) = {} => Pending(s, M) = {}
           /\ Head(s) \in M /\ Pending(Tail(s), M) = {} /\ Says(s, M, kind)
                 => Head(s).kind = kind
<1> DEFINE t == Tail(s)
<1>1. /\ t \in Seq(EventRecord) /\ Len(s) \in Nat \ {0} /\ Len(t) = Len(s) - 1
      /\ Head(s) = s[1] /\ s[1] \in EventRecord
  OBVIOUS
<1>2. DOMAIN s = 1..Len(s) /\ DOMAIN t = 1..Len(t)
  OBVIOUS
<1>3. \A k \in 1..Len(t) : t[k] = s[k + 1]
  OBVIOUS
<1> HIDE DEF t
<1>4. \A k \in Pending(t, M) : k \in 1..Len(t) /\ k + 1 \in Pending(s, M)
  BY <1>1, <1>2, <1>3 DEF Pending
<1>5. \A k \in Pending(s, M) : k = 1 \/ (k - 1 \in Pending(t, M) /\ k \in Nat /\ k > 1)
  BY <1>1, <1>2, <1>3 DEF Pending
<1>6. ASSUME Says(s, M, kind) PROVE Says(t, M, kind)
  <2>1. ASSUME NEW k \in Pending(t, M), \A j \in Pending(t, M) : j <= k
        PROVE  t[k].kind = kind
    <3>1. k + 1 \in Pending(s, M) /\ k \in 1..Len(t)
      BY <1>4
    <3>2. ASSUME NEW j \in Pending(s, M) PROVE j <= k + 1
      <4>1. CASE j = 1
        BY <1>1, <3>1, <4>1
      <4>2. CASE j - 1 \in Pending(t, M) /\ j \in Nat
        <5>1. j - 1 <= k
          BY <2>1, <4>2
        <5> QED
          BY <1>1, <3>1, <4>2, <5>1
      <4> QED
        BY <1>5, <4>1, <4>2
    <3>3. s[k + 1].kind = kind
      BY <1>6, <3>1, <3>2 DEF Says
    <3> QED
      BY <1>3, <3>1, <3>3
  <2> QED
    BY <2>1 DEF Says
<1>7. Head(s) \notin M /\ Pending(t, M) = {} => Pending(s, M) = {}
  BY <1>1, <1>5 DEF Pending
<1>8. ASSUME Head(s) \in M, Pending(t, M) = {}, Says(s, M, kind) PROVE Head(s).kind = kind
  <2>1. 1 \in Pending(s, M) /\ \A k \in Pending(s, M) : k = 1
    BY <1>1, <1>2, <1>5, <1>8 DEF Pending
  <2> QED
    BY <1>1, <1>8, <2>1 DEF Says
<1> QED
  BY <1>1, <1>6, <1>7, <1>8 DEF t

-----------------------------------------------------------------------------
(* The user distro changes its file tree. *)

\* A path has at least one name.
LEMMA PathFacts ==
    ASSUME NEW p \in Path
    PROVE  p \in Seq(STRING) /\ p # <<>> /\ Len(p) \in Nat \ {0}
  BY PathAssumption

\* The folders above a path, and above its parent.
LEMMA PrefixParts ==
    ASSUME NEW S, NEW p \in Seq(S), p # <<>>
    PROVE  /\ SubSeq(p, 1, Len(p)) = p
           /\ \A k \in 1..Len(p) - 1 : SubSeq(p, 1, k) = SubSeq(Front(p), 1, k)
<1>1. Len(p) \in Nat \ {0} /\ Front(p) \in Seq(S) /\ Len(Front(p)) = Len(p) - 1
      /\ \A k \in 1..Len(p) - 1 : Front(p)[k] = p[k]
  BY FrontFacts
<1>2. SubSeq(p, 1, Len(p)) = p
  <2>1. Len(p) \in 0..Len(p)
    BY <1>1
  <2> DEFINE q == SubSeq(p, 1, Len(p))
  <2>2. q \in Seq(S) /\ Len(q) = Len(p) /\ \A i \in 1..Len(p) : q[i] = p[i]
    BY <2>1, PrefixFacts
  <2> HIDE DEF q
  <2>3. q = p
    BY <2>2, SeqEqual
  <2> QED
    BY <2>3 DEF q
<1>3. ASSUME NEW k \in 1..Len(p) - 1 PROVE SubSeq(p, 1, k) = SubSeq(Front(p), 1, k)
  <2> DEFINE a == SubSeq(p, 1, k)
             b == SubSeq(Front(p), 1, k)
  <2>1. k \in 0..Len(p) /\ k \in 0..Len(Front(p))
    BY <1>1
  <2>2. a \in Seq(S) /\ Len(a) = k /\ \A i \in 1..k : a[i] = p[i]
    BY <2>1, PrefixFacts
  <2>3. b \in Seq(S) /\ Len(b) = k /\ \A i \in 1..k : b[i] = Front(p)[i]
    BY <1>1, <2>1, PrefixFacts
  <2> HIDE DEF a, b
  <2>4. ASSUME NEW i \in 1..k PROVE a[i] = b[i]
    <3>1. i \in 1..Len(p) - 1
      BY <1>1
    <3> QED
      BY <1>1, <2>2, <2>3, <3>1
  <2>5. a = b
    BY <2>2, <2>3, <2>4, SeqEqual
  <2> QED
    BY <2>5 DEF a, b
<1> QED
  BY <1>2, <1>3

\* A folder that is not renamed keeps its inode as long as that is watched.
Stays ==
    /\ \A i \in DOMAIN watch' : i \in DOMAIN watch /\ watch'[i] = watch[i]
    /\ left \subseteq left'
    /\ \A p \in DOMAIN tree \ left' :
          tree[p] \in DOMAIN watch' => p \in DOMAIN tree' /\ tree'[p] = tree[p]

\* A change of the tree is reported to the watch of the folder it is in.
FontsTold(p) ==
    LET M == FontsEvents(watch[tree[p]])
    IN Tells(queue', M, Truth(p)') \/ (Truth(p)' = Truth(p) /\ Quiet(queue, queue', M))

FolderTold(p, q) ==
    LET M == FolderEvents(watch[tree[p]], Last(q))
    IN Tells(queue', M, "add") \/ (q \in DOMAIN tree /\ Quiet(queue, queue', M))

Reports ==
    \A p \in DOMAIN tree \ left' :
        p \in DOMAIN tree' /\ tree'[p] = tree[p] /\ tree[p] \in DOMAIN watch =>
            /\ FontsTold(p)
            /\ \A q \in DOMAIN tree' : Len(q) > 1 /\ Front(q) = p => FolderTold(p, q)

\* An event about a folder says nothing about another one, nor about fonts.dir.
LEMMA FontsOther ==
    ASSUME FsInv, NEW s \in Seq(EventRecord), NEW i, NEW kind \in {"add", "del"},
           NEW name \in Name, NEW wd, NEW M, M = FontsEvents(wd)
    PROVE  Quiet(s, Push(s, i, kind, "folder", name), M)
<1>1. Note(i, kind, "folder", name) \notin M
  BY DEF FontsEvents, Note
<1> QED
  BY <1>1, PushSame

\* An event about one folder is not about another that is watched from its parent.
LEMMA FolderOther ==
    ASSUME FsInv, NEW s \in Seq(EventRecord), NEW kind \in {"add", "del"},
           NEW x \in Path, Front(x) \in DOMAIN tree, NEW i, i = tree[Front(x)],
           NEW q \in Path, q # x, Front(q) \in DOMAIN tree, tree[Front(q)] \in DOMAIN watch,
           NEW M, M = FolderEvents(watch[tree[Front(q)]], Last(q))
    PROVE  Quiet(s, Push(s, i, kind, "folder", Last(x)), M)
<1>1. /\ x \in Seq(STRING) /\ x # <<>> /\ Last(x) \in Name
      /\ q \in Seq(STRING) /\ q # <<>>
  BY PathFacts, FrontFacts DEF Name
<1>2. ASSUME i \in DOMAIN watch, Note(i, kind, "folder", Last(x)) \in M PROVE FALSE
  <2>1. watch[i] = watch[tree[Front(q)]] /\ Last(x) = Last(q)
    BY <1>2 DEF FolderEvents, Note
  <2>2. Front(x) = Front(q)
    BY <1>2, <2>1 DEF FsInv, IsInjective
  <2> QED
    BY <1>1, <2>1, <2>2, SameParent
<1>3. i \notin DOMAIN watch \/ Note(i, kind, "folder", Last(x)) \notin M
  BY <1>2
<1> QED
  BY <1>1, <1>3, PushSame

\* A folder that appears is reported by its parent's watch.
LEMMA FolderSame ==
    ASSUME FsInv, NEW s \in Seq(EventRecord),
           NEW q \in Path, Front(q) \in DOMAIN tree, tree[Front(q)] \in DOMAIN watch,
           NEW i, i = tree[Front(q)],
           NEW M, M = FolderEvents(watch[tree[Front(q)]], Last(q))
    PROVE  Tells(Push(s, i, "add", "folder", Last(q)), M, "add")
<1>1. Last(q) \in Name
  BY PathFacts, FrontFacts DEF Name
<1>2. Note(i, "add", "folder", Last(q)) \in M
  BY <1>1 DEF FsInv, EventRecord, FolderEvents, Note
<1> QED
  BY <1>1, <1>2, PushNew

\* mkdir keeps watches good, and is reported.
LEMMA MakeEffect ==
    ASSUME FsInv, NEW x \in Path, MakeFolder(x)
    PROVE  FsInv' /\ Stays /\ Reports
<1>1. PICK i \in Inode \ Range(tree) : tree' = With(tree, x, i)
  BY DEF MakeFolder, Least
<1>2. x \notin DOMAIN tree /\ UNCHANGED <<fonts, watch, left, folders>>
      /\ (Len(x) > 1 => Front(x) \in DOMAIN tree)
  BY DEF MakeFolder, Exists, Changes, monitor
<1>3. /\ DOMAIN tree' = DOMAIN tree \cup {x} /\ tree' \in [DOMAIN tree' -> Inode]
      /\ tree'[x] = i /\ \A z \in DOMAIN tree : tree'[z] = tree[z]
  <2>1. tree \in [DOMAIN tree -> Inode] /\ i \in Inode
    BY DEF FsInv
  <2>2. \A z : z \in DOMAIN tree' <=> z \in DOMAIN tree \/ z = x
    BY <1>1, WithFacts
  <2>3. \A z \in DOMAIN tree : z # x => tree'[z] = tree[z]
    BY <1>1, WithFacts
  <2>4. IsFcn(tree') /\ tree'[x] = i
    BY <1>1, WithFacts
  <2> QED
    BY <1>2, <2>1, <2>2, <2>3, <2>4 DEF IsFcn
<1>4. x \in Seq(STRING) /\ x # <<>> /\ Len(x) \in Nat \ {0} /\ Last(x) \in Name
  BY PathFacts, FrontFacts DEF Name
<1>5. Range(tree') = Range(tree) \cup {i}
  BY <1>3 DEF Range
<1>6. queue \in Seq(EventRecord) /\ queue' \in Seq(EventRecord)
      /\ (Len(x) > 1 => queue' = Push(queue, tree[Front(x)], "add", "folder", Last(x)))
      /\ (~(Len(x) > 1) => queue' = queue)
  <2>1. queue \in Seq(EventRecord)
    BY DEF FsInv
  <2>2. Len(x) > 1 => queue' = Push(queue, tree[Front(x)], "add", "folder", Last(x))
    BY DEF MakeFolder, Push
  <2>3. ~(Len(x) > 1) => queue' = queue
    BY DEF MakeFolder
  <2>4. ASSUME NEW i1 PROVE Push(queue, i1, "add", "folder", Last(x)) \in Seq(EventRecord)
    BY <1>4, <2>1, PushType
  <2> QED
    BY <2>1, <2>2, <2>3, <2>4
<1>7. IsInjective(tree')
  BY <1>3 DEF FsInv, IsInjective, Range
<1>8. \A p \in DOMAIN tree' : \A k \in 1..Len(p) : SubSeq(p, 1, k) \in DOMAIN tree'
  <2>1. ASSUME NEW k \in 1..Len(x) PROVE SubSeq(x, 1, k) \in DOMAIN tree'
    <3>1. CASE k = Len(x)
      BY <1>3, <1>4, <3>1, PrefixParts
    <3>2. CASE k # Len(x)
      <4>1. k \in 1..Len(x) - 1 /\ Len(x) > 1
        BY <1>4, <3>2
      <4>2. SubSeq(x, 1, k) = SubSeq(Front(x), 1, k) /\ k \in 1..Len(Front(x))
        BY <1>4, <4>1, PrefixParts, FrontFacts
      <4> QED
        BY <1>2, <1>3, <4>1, <4>2 DEF FsInv
    <3> QED
      BY <3>1, <3>2
  <2> QED
    BY <1>3, <2>1 DEF FsInv
<1>9. FsInv'
  BY <1>2, <1>3, <1>5, <1>6, <1>7, <1>8 DEF FsInv, Tracked
<1>10. Stays
  BY <1>2, <1>3 DEF Stays
<1>11. Reports
  <2> SUFFICES ASSUME NEW p \in DOMAIN tree, tree[p] \in DOMAIN watch
               PROVE  /\ FontsTold(p)
                      /\ \A q \in DOMAIN tree' : Len(q) > 1 /\ Front(q) = p => FolderTold(p, q)
    BY DEF Reports
  <2>1. FontsTold(p)
    <3>1. Truth(p)' = Truth(p)
      BY <1>2, <1>3 DEF Truth, HasFonts, Exists
    <3>2. ASSUME NEW i1, queue' = Push(queue, i1, "add", "folder", Last(x))
          PROVE  Quiet(queue, queue', FontsEvents(watch[tree[p]]))
      <4> DEFINE wd == watch[tree[p]]
                 M == FontsEvents(wd)
      <4> HIDE DEF wd
      <4>1. M = FontsEvents(wd)
        OBVIOUS
      <4> HIDE DEF M
      <4>2. Quiet(queue, queue', M)
        BY <1>4, <1>6, <3>2, <4>1, FontsOther
      <4> QED
        BY <4>2 DEF M, wd
    <3>3. CASE Len(x) > 1
      BY <1>6, <3>1, <3>2, <3>3 DEF FontsTold
    <3>4. CASE ~(Len(x) > 1)
      BY <1>6, <3>1, <3>4, QuietSame DEF FontsTold
    <3> QED
      BY <3>3, <3>4
  <2>2. ASSUME NEW q \in DOMAIN tree', Len(q) > 1, Front(q) = p PROVE FolderTold(p, q)
    <3> DEFINE M == FolderEvents(watch[tree[p]], Last(q))
               i1 == tree[Front(x)]
    <3>1. q \in Path
      BY <1>9 DEF FsInv
    <3>2. CASE q = x
      <4>1. queue' = Push(queue, i1, "add", "folder", Last(q)) /\ i1 = tree[Front(q)]
        BY <1>6, <2>2, <3>2
      <4> HIDE DEF i1, M
      <4>2. Tells(queue', M, "add")
        BY <1>6, <2>2, <3>1, <4>1, FolderSame DEF M
      <4> QED
        BY <4>2 DEF FolderTold, M
    <3>3. CASE q # x
      <4>1. q \in DOMAIN tree
        BY <1>3, <3>3
      <4>2. Quiet(queue, queue', M)
        <5>1. CASE Len(x) > 1
          <6>1. queue' = Push(queue, i1, "add", "folder", Last(x)) /\ Front(x) \in DOMAIN tree
            BY <1>2, <1>6, <5>1
          <6>2. M = FolderEvents(watch[tree[Front(q)]], Last(q))
            BY <2>2
          <6>3. i1 = tree[Front(x)]
            OBVIOUS
          <6> HIDE DEF i1, M
          <6> QED
            BY <1>6, <2>2, <3>1, <3>3, <6>1, <6>2, <6>3, FolderOther
        <5> QED
          BY <1>6, <5>1, QuietSame
      <4> QED
        BY <4>1, <4>2 DEF FolderTold
    <3> QED
      BY <3>2, <3>3
  <2> QED
    BY <2>1, <2>2
<1> QED
  BY <1>9, <1>10, <1>11

\* The prefixes of a path.
LEMMA PrefixOf ==
    ASSUME NEW S, NEW p \in Seq(S), NEW k \in 1..Len(p)
    PROVE  IsPrefix(SubSeq(p, 1, k), p)
<1> DEFINE a == SubSeq(p, 1, k)
<1>1. Len(p) \in Nat /\ k \in 0..Len(p)
  OBVIOUS
<1>2. a \in Seq(S) /\ Len(a) = k /\ \A i \in 1..k : a[i] = p[i]
  BY <1>1, PrefixFacts
<1> HIDE DEF a
<1>3. IsPrefix(a, p)
  BY <1>1, <1>2, IsPrefixFacts
<1> QED
  BY <1>3 DEF a

\* rm -r keeps the watches of the folders that stay, and is reported.
LEMMA RemoveEffect ==
    ASSUME FsInv, NEW x \in Path, RemoveFolder(x)
    PROVE  FsInv' /\ Stays /\ Reports
<1>1. /\ x \in DOMAIN tree /\ tree[x] \notin fonts /\ Below(x) = {}
      /\ UNCHANGED <<fonts, left, folders>>
  BY DEF RemoveFolder, Exists, HasFonts, Changes, monitor
<1>2. /\ \A z : z \in DOMAIN tree' <=> z \in DOMAIN tree /\ z # x
      /\ \A z \in DOMAIN tree : z # x => tree'[z] = tree[z]
      /\ IsFcn(tree')
  <2>1. tree' = Without(tree, {x})
    BY DEF RemoveFolder
  <2> QED
    BY <2>1, WithoutFacts
<1>3. /\ \A i : i \in DOMAIN watch' <=> i \in DOMAIN watch /\ i # tree[x]
      /\ \A i \in DOMAIN watch' : watch'[i] = watch[i]
      /\ IsFcn(watch')
  <2>1. watch' = Without(watch, {tree[x]})
    BY DEF RemoveFolder
  <2> QED
    BY <2>1, WithoutFacts
<1>4. x \in Seq(STRING) /\ x # <<>> /\ Len(x) \in Nat \ {0} /\ Last(x) \in Name
  BY PathFacts, FrontFacts DEF Name
<1>5. Len(x) > 1 => Front(x) \in DOMAIN tree
  BY <1>1, ParentExists
<1>6. queue \in Seq(EventRecord) /\ queue' \in Seq(EventRecord)
      /\ (Len(x) > 1 => queue' = Push(queue, tree[Front(x)], "del", "folder", Last(x)))
      /\ (~(Len(x) > 1) => queue' = queue)
  <2>1. queue \in Seq(EventRecord)
    BY DEF FsInv
  <2>2. Len(x) > 1 => queue' = Push(queue, tree[Front(x)], "del", "folder", Last(x))
    BY DEF RemoveFolder, Push
  <2>3. ~(Len(x) > 1) => queue' = queue
    BY DEF RemoveFolder
  <2>4. ASSUME NEW i1 PROVE Push(queue, i1, "del", "folder", Last(x)) \in Seq(EventRecord)
    BY <1>4, <2>1, PushType
  <2> QED
    BY <2>1, <2>2, <2>3, <2>4
<1>7. /\ tree' \in [DOMAIN tree' -> Inode] /\ DOMAIN tree' \subseteq Path /\ IsInjective(tree')
      /\ \A i \in Range(tree) : i # tree[x] => i \in Range(tree')
  <2>1. tree' \in [DOMAIN tree' -> Inode] /\ DOMAIN tree' \subseteq Path
    BY <1>2 DEF FsInv, IsFcn
  <2>2. IsInjective(tree')
    BY <1>2 DEF FsInv, IsInjective
  <2>3. \A i \in Range(tree) : i # tree[x] => i \in Range(tree')
    BY <1>2 DEF Range
  <2> QED
    BY <2>1, <2>2, <2>3
<1>8. \A p \in DOMAIN tree' : \A k \in 1..Len(p) : SubSeq(p, 1, k) \in DOMAIN tree'
  <2> SUFFICES ASSUME NEW p \in DOMAIN tree', NEW k \in 1..Len(p)
               PROVE  SubSeq(p, 1, k) \in DOMAIN tree'
    OBVIOUS
  <2>1. p \in DOMAIN tree /\ p # x /\ SubSeq(p, 1, k) \in DOMAIN tree
    BY <1>2 DEF FsInv
  <2>2. p \in Seq(STRING)
    BY <2>1, PathFacts DEF FsInv
  <2>3. ASSUME SubSeq(p, 1, k) = x PROVE FALSE
    BY <1>1, <2>1, <2>2, <2>3, PrefixOf DEF Below
  <2> QED
    BY <1>2, <2>1, <2>3
<1>9. FsInv'
  <2>1. fonts' \subseteq Range(tree') /\ DOMAIN watch' \subseteq Range(tree')
    BY <1>1, <1>3, <1>7 DEF FsInv
  <2>2. watch' \in [DOMAIN watch' -> Wd] /\ IsInjective(watch')
    BY <1>3 DEF FsInv, IsFcn, IsInjective
  <2> QED
    BY <1>1, <1>6, <1>7, <1>8, <2>1, <2>2 DEF FsInv, Tracked
<1>10. Stays
  BY <1>1, <1>2, <1>3 DEF Stays
<1>11. Reports
  <2> SUFFICES ASSUME NEW p \in DOMAIN tree', p \in DOMAIN tree, tree[p] \in DOMAIN watch
               PROVE  /\ FontsTold(p)
                      /\ \A q \in DOMAIN tree' : Len(q) > 1 /\ Front(q) = p => FolderTold(p, q)
    BY DEF Reports
  <2>1. FontsTold(p)
    <3>1. Truth(p)' = Truth(p)
      BY <1>1, <1>2 DEF Truth, HasFonts, Exists
    <3>2. ASSUME NEW i1, queue' = Push(queue, i1, "del", "folder", Last(x))
          PROVE  Quiet(queue, queue', FontsEvents(watch[tree[p]]))
      <4> DEFINE wd == watch[tree[p]]
                 M == FontsEvents(wd)
      <4> HIDE DEF wd
      <4>1. M = FontsEvents(wd)
        OBVIOUS
      <4> HIDE DEF M
      <4>2. Quiet(queue, queue', M)
        BY <1>4, <1>6, <3>2, <4>1, FontsOther
      <4> QED
        BY <4>2 DEF M, wd
    <3>3. CASE Len(x) > 1
      BY <1>6, <3>1, <3>2, <3>3 DEF FontsTold
    <3>4. CASE ~(Len(x) > 1)
      BY <1>6, <3>1, <3>4, QuietSame DEF FontsTold
    <3> QED
      BY <3>3, <3>4
  <2>2. ASSUME NEW q \in DOMAIN tree', Len(q) > 1, Front(q) = p PROVE FolderTold(p, q)
    <3> DEFINE M == FolderEvents(watch[tree[p]], Last(q))
               i1 == tree[Front(x)]
    <3>1. q \in Path /\ q \in DOMAIN tree /\ q # x
      BY <1>2, <1>9 DEF FsInv
    <3>2. Quiet(queue, queue', M)
      <4>1. CASE Len(x) > 1
        <5>1. queue' = Push(queue, i1, "del", "folder", Last(x)) /\ Front(x) \in DOMAIN tree
          BY <1>5, <1>6, <4>1
        <5>2. M = FolderEvents(watch[tree[Front(q)]], Last(q))
          BY <2>2
        <5>3. i1 = tree[Front(x)]
          OBVIOUS
        <5> HIDE DEF i1, M
        <5> QED
          BY <1>6, <2>2, <3>1, <5>1, <5>2, <5>3, FolderOther
      <4> QED
        BY <1>6, <4>1, QuietSame
    <3> QED
      BY <3>1, <3>2 DEF FolderTold
  <2> QED
    BY <2>1, <2>2
<1> QED
  BY <1>9, <1>10, <1>11

\* mkfontdir and rm fonts.dir are reported.
LEMMA FontsEffect ==
    ASSUME FsInv, NEW x \in Path, ChangeFonts(x)
    PROVE  FsInv' /\ Stays /\ Reports
<1> DEFINE i == tree[x]
           kind == IF HasFonts(x) THEN "del" ELSE "add"
<1>1. x \in DOMAIN tree /\ UNCHANGED <<tree, watch, left, folders>> /\ queue \in Seq(EventRecord)
  BY DEF ChangeFonts, Exists, Changes, monitor, FsInv
<1>2. /\ kind \in {"add", "del"} /\ kind = Truth(x)' /\ fonts' \subseteq Range(tree)
      /\ \A j : j # i => (j \in fonts' <=> j \in fonts)
  BY <1>1 DEF ChangeFonts, Truth, HasFonts, Exists, FsInv, Range
<1>3. queue' = Push(queue, i, kind, "file", "fonts.dir") /\ "fonts.dir" \in Name
  <2>1. queue' = queue \o Event(i, kind, "file", "fonts.dir")
    BY Zenon DEF ChangeFonts
  <2>2. "fonts.dir" \in Name
    BY DEF Name
  <2> HIDE DEF i, kind
  <2> QED
    BY <2>1, <2>2 DEF Push
<1> HIDE DEF i, kind
<1>4. queue' \in Seq(EventRecord)
  BY <1>1, <1>2, <1>3, PushType
<1>5. FsInv'
  BY <1>1, <1>2, <1>4 DEF FsInv, Tracked
<1>6. Stays
  BY <1>1 DEF Stays
<1>7. Reports
  <2> SUFFICES ASSUME NEW p \in DOMAIN tree, tree[p] \in DOMAIN watch
               PROVE  /\ FontsTold(p)
                      /\ \A q \in DOMAIN tree : Len(q) > 1 /\ Front(q) = p => FolderTold(p, q)
    BY <1>1 DEF Reports
  <2>0. watch[tree[p]] \in Wd
    BY DEF FsInv
  <2>1. FontsTold(p)
    <3> DEFINE M == FontsEvents(watch[tree[p]])
    <3>1. CASE p = x
      <4>1. i \in DOMAIN watch /\ Note(i, kind, "file", "fonts.dir") \in M
        BY <1>2, <1>3, <2>0, <3>1 DEF FontsEvents, EventRecord, Note, i
      <4> HIDE DEF M
      <4>2. Tells(queue', M, kind)
        BY <1>1, <1>2, <1>3, <4>1, PushNew
      <4> QED
        BY <1>2, <3>1, <4>2 DEF FontsTold, M
    <3>2. CASE p # x
      <4>1. tree[p] # i
        BY <1>1, <3>2 DEF FsInv, IsInjective, i
      <4>2. i \notin DOMAIN watch \/ Note(i, kind, "file", "fonts.dir") \notin M
        BY <4>1 DEF FsInv, IsInjective, FontsEvents, Note
      <4>3. Truth(p)' = Truth(p)
        BY <1>1, <1>2, <4>1 DEF Truth, HasFonts, Exists
      <4> HIDE DEF M
      <4>4. Quiet(queue, queue', M)
        BY <1>1, <1>2, <1>3, <4>2, PushSame
      <4> QED
        BY <4>3, <4>4 DEF FontsTold, M
    <3> QED
      BY <3>1, <3>2
  <2>2. ASSUME NEW q \in DOMAIN tree PROVE FolderTold(p, q)
    <3> DEFINE M == FolderEvents(watch[tree[p]], Last(q))
    <3>1. Note(i, kind, "file", "fonts.dir") \notin M
      BY DEF FolderEvents, Note
    <3> HIDE DEF M
    <3>2. Quiet(queue, queue', M)
      BY <1>1, <1>2, <1>3, <3>1, PushSame
    <3> QED
      BY <3>2 DEF FolderTold, M
  <2> QED
    BY <2>1, <2>2
<1> QED
  BY <1>5, <1>6, <1>7

\* A prefix is what its length says.
LEMMA PrefixIs ==
    ASSUME NEW S, NEW s \in Seq(S), NEW t \in Seq(S), s # <<>>, IsPrefix(s, t)
    PROVE  s = SubSeq(t, 1, Len(s)) /\ Len(s) \in 1..Len(t)
<1> DEFINE a == SubSeq(t, 1, Len(s))
           b == SubSeq(s, 1, Len(s))
<1>1. Len(s) \in Nat \ {0} /\ Len(t) \in Nat /\ Len(s) <= Len(t)
  BY IsPrefixFacts
<1>2. b = a
  BY DEF IsPrefix
<1>3. b = s
  <2> HIDE DEF a
  <2> QED
    BY PrefixParts
<1> HIDE DEF a, b
<1>4. s = a
  BY <1>2, <1>3
<1> QED
  BY <1>1, <1>4 DEF a

\* A prefix of the same length is the path itself.
LEMMA PrefixSame ==
    ASSUME NEW S, NEW s \in Seq(S), NEW t \in Seq(S), IsPrefix(s, t), Len(s) = Len(t)
    PROVE  s = t
<1>1. \A i \in 1..Len(s) : s[i] = t[i]
  BY IsPrefixFacts
<1> QED
  BY <1>1, SeqEqual

\* What is above a path and not the path is above its parent or the parent.
LEMMA PrefixFront ==
    ASSUME NEW S, NEW s \in Seq(S), NEW t \in Seq(S), IsPrefix(s, t), s # t, t # <<>>
    PROVE  IsPrefix(s, Front(t))
<1>1. Len(s) \in Nat /\ Len(s) <= Len(t) /\ \A i \in 1..Len(s) : s[i] = t[i]
  BY IsPrefixFacts
<1>2. /\ Front(t) \in Seq(S) /\ Len(t) \in Nat \ {0} /\ Len(Front(t)) = Len(t) - 1
      /\ \A i \in 1..Len(t) - 1 : Front(t)[i] = t[i]
  BY FrontFacts
<1>3. Len(s) # Len(t)
  BY PrefixSame
<1>4. Len(s) <= Len(t) - 1
  BY <1>1, <1>2, <1>3
<1>5. ASSUME NEW i \in 1..Len(s) PROVE s[i] = Front(t)[i]
  <2>1. i \in 1..Len(t) - 1
    BY <1>1, <1>2, <1>4
  <2> QED
    BY <1>1, <1>2, <2>1
<1> QED
  BY <1>2, <1>4, <1>5, IsPrefixFacts

\* What is above what is above a path is above the path.
LEMMA PrefixTrans ==
    ASSUME NEW S, NEW s \in Seq(S), NEW t \in Seq(S), NEW u \in Seq(S),
           IsPrefix(s, t), IsPrefix(t, u)
    PROVE  IsPrefix(s, u)
<1>1. Len(s) \in Nat /\ Len(s) <= Len(t) /\ \A i \in 1..Len(s) : s[i] = t[i]
  BY IsPrefixFacts
<1>2. Len(t) \in Nat /\ Len(u) \in Nat /\ Len(t) <= Len(u) /\ \A i \in 1..Len(t) : t[i] = u[i]
  BY IsPrefixFacts
<1>3. Len(s) <= Len(u)
  BY <1>1, <1>2
<1>4. ASSUME NEW i \in 1..Len(s) PROVE s[i] = u[i]
  <2>1. i \in 1..Len(t)
    BY <1>1, <1>2
  <2> QED
    BY <1>1, <1>2, <2>1
<1> QED
  BY <1>3, <1>4, IsPrefixFacts

\* Two paths one above the other agree on the folders above both.
LEMMA PrefixPrefix ==
    ASSUME NEW S, NEW s \in Seq(S), NEW t \in Seq(S), IsPrefix(s, t), NEW k \in 1..Len(s)
    PROVE  SubSeq(t, 1, k) = SubSeq(s, 1, k)
<1> DEFINE a == SubSeq(t, 1, k)
           b == SubSeq(s, 1, k)
<1>1. Len(s) \in Nat /\ Len(t) \in Nat /\ Len(s) <= Len(t) /\ \A i \in 1..Len(s) : s[i] = t[i]
  BY IsPrefixFacts
<1>2. k \in 0..Len(s) /\ k \in 0..Len(t)
  BY <1>1
<1>3. a \in Seq(S) /\ Len(a) = k /\ \A i \in 1..k : a[i] = t[i]
  BY <1>2, PrefixFacts
<1>4. b \in Seq(S) /\ Len(b) = k /\ \A i \in 1..k : b[i] = s[i]
  BY <1>2, PrefixFacts
<1> HIDE DEF a, b
<1>5. ASSUME NEW i \in 1..k PROVE a[i] = b[i]
  <2>1. i \in 1..Len(s)
    BY <1>1, <1>2
  <2> QED
    BY <1>1, <1>3, <1>4, <2>1
<1>6. a = b
  BY <1>3, <1>4, <1>5, SeqEqual
<1> QED
  BY <1>6 DEF a, b

\* A prefix of a renamed path, beyond the new name, is a renamed prefix.
LEMMA RenamedPrefix ==
    ASSUME NEW S, NEW p \in Seq(S), NEW q \in Seq(S), NEW x \in Seq(S), IsPrefix(p, x),
           NEW m \in Len(p)..Len(x), NEW k, k = m - Len(p) + Len(q)
    PROVE  /\ IsPrefix(p, SubSeq(x, 1, m))
           /\ SubSeq(Renamed(x, p, q), 1, k) = Renamed(SubSeq(x, 1, m), p, q)
<1>1. /\ Len(p) \in Nat /\ Len(q) \in Nat /\ Len(x) \in Nat /\ Len(p) <= Len(x)
      /\ \A i \in 1..Len(p) : p[i] = x[i]
  BY IsPrefixFacts
<1>2. PICK y : y = Renamed(x, p, q)
  OBVIOUS
<1>3. y \in Seq(S) /\ Len(y) = Len(q) + Len(x) - Len(p)
  BY <1>2, RenamedFacts
<1>4. ASSUME NEW i \in 1..Len(q) PROVE y[i] = q[i]
  BY <1>2, RenamedHead
<1>5. PICK v : v = SubSeq(x, 1, m)
  OBVIOUS
<1>6. v \in Seq(S) /\ Len(v) = m /\ \A i \in 1..m : v[i] = x[i]
  <2>1. m \in 0..Len(x)
    BY <1>1
  <2> QED
    BY <1>5, <2>1, PrefixFacts
<1>7. PICK a : a = SubSeq(y, 1, k)
  OBVIOUS
<1>8. a \in Seq(S) /\ Len(a) = k /\ k \in Nat /\ \A i \in 1..k : a[i] = y[i]
  <2>1. k \in 0..Len(y) /\ k \in Nat
    BY <1>1, <1>3
  <2> QED
    BY <1>3, <1>7, <2>1, PrefixFacts
<1>9. IsPrefix(p, v)
  <2>1. ASSUME NEW i \in 1..Len(p) PROVE p[i] = v[i]
    BY <1>1, <1>6
  <2>2. Len(p) <= Len(v)
    BY <1>1, <1>6
  <2> QED
    BY <1>6, <2>1, <2>2, IsPrefixFacts
<1>10. PICK b : b = Renamed(v, p, q)
  OBVIOUS
<1>11. b \in Seq(S) /\ Len(b) = Len(q) + Len(v) - Len(p)
  BY <1>6, <1>9, <1>10, RenamedFacts
<1>12. ASSUME NEW i \in 1..Len(q) PROVE b[i] = q[i]
  BY <1>6, <1>9, <1>10, RenamedHead
<1>13. Len(b) = k
  BY <1>1, <1>6, <1>11
<1>14. ASSUME NEW i \in 1..k PROVE a[i] = b[i]
  <2>1. CASE i <= Len(q)
    <3>1. i \in 1..Len(q)
      BY <1>1, <2>1
    <3> QED
      BY <1>4, <1>8, <1>12, <3>1
  <2>2. CASE ~(i <= Len(q))
    <3>1. PICK j : j = i - Len(q)
      OBVIOUS
    <3>2. PICK n : n = Len(p) + j
      OBVIOUS
    <3>3. /\ j \in 1..Len(x) - Len(p) /\ j \in 1..Len(v) - Len(p) /\ i = Len(q) + j
          /\ n \in 1..m
      BY <1>1, <1>6, <1>8, <2>2, <3>1, <3>2
    <3>4. y[i] = x[n]
      BY <1>2, <3>2, <3>3, RenamedAt
    <3>5. b[i] = v[n]
      BY <1>6, <1>9, <1>10, <3>2, <3>3, RenamedAt
    <3>6. v[n] = x[n]
      BY <1>6, <3>3
    <3> QED
      BY <1>8, <3>4, <3>5, <3>6
  <2> QED
    BY <2>1, <2>2
<1>15. a = b
  BY <1>8, <1>11, <1>13, <1>14, SeqEqual
<1> QED
  BY <1>2, <1>5, <1>7, <1>9, <1>10, <1>15

\* The tree after the folder x was renamed to y: what was below x is below y, under
\* the same inodes, and nothing else has moved.
LEMMA MoveTree ==
    ASSUME FsInv, NEW x \in Path, NEW y \in Path, MoveFolder(x, y)
    PROVE  /\ x \in DOMAIN tree /\ Front(x) \in DOMAIN tree /\ Front(y) \in DOMAIN tree
           /\ \A z \in DOMAIN tree : ~IsPrefix(y, z)
           /\ \A z : z \in DOMAIN tree /\ ~IsPrefix(x, z) => z \in DOMAIN tree' /\ tree'[z] = tree[z]
           /\ \A z : z \in DOMAIN tree /\ IsPrefix(x, z) =>
                 /\ Renamed(z, x, y) \in DOMAIN tree' /\ tree'[Renamed(z, x, y)] = tree[z]
                 /\ z \in left'
           /\ \A w \in DOMAIN tree' :
                 \/ w \in DOMAIN tree /\ ~IsPrefix(x, w)
                 \/ \E z \in DOMAIN tree : IsPrefix(x, z) /\ w = Renamed(z, x, y)
           /\ IsFcn(tree') /\ DOMAIN tree' \subseteq Path
<1> DEFINE moved == {x} \cup Below(x)
           To(z) == y \o SubSeq(z, Len(x) + 1, Len(z))
           From(w) == x \o SubSeq(w, Len(y) + 1, Len(w))
<1>1. /\ x \in DOMAIN tree /\ y \notin DOMAIN tree /\ Front(y) \in DOMAIN tree
      /\ Len(x) > 1 /\ left' = left \cup {x} \cup Below(x)
  BY DEF MoveFolder, Exists
<1>2. /\ {To(z) : z \in moved} \subseteq Path
      /\ tree' = [w \in (DOMAIN tree \ moved) \cup {To(z) : z \in moved} |->
                     IF IsPrefix(y, w) THEN tree[From(w)] ELSE tree[w]]
  BY DEF MoveFolder
<1>3. x \in Seq(STRING) /\ x # <<>> /\ y \in Seq(STRING) /\ y # <<>>
  BY PathFacts
<1>4. \A z \in DOMAIN tree : z \in Seq(STRING)
  BY PathFacts DEF FsInv
<1>5. IsPrefix(x, x)
  BY <1>3, IsPrefixFacts
<1>6. \A z : z \in moved <=> z \in DOMAIN tree /\ IsPrefix(x, z)
  BY <1>1, <1>5 DEF Below
<1>7. ASSUME NEW z \in DOMAIN tree, IsPrefix(y, z) PROVE FALSE
  <2>1. y = SubSeq(z, 1, Len(y)) /\ Len(y) \in 1..Len(z)
    BY <1>3, <1>4, <1>7, PrefixIs
  <2> DEFINE k == Len(y)
  <2>2. SubSeq(z, 1, k) \in DOMAIN tree
    <3> HIDE DEF k
    <3>1. k \in 1..Len(z)
      BY <2>1 DEF k
    <3> QED
      BY <3>1 DEF FsInv
  <2> QED
    BY ONLY <1>1, <2>1, <2>2
<1>8. ASSUME NEW z \in moved PROVE To(z) = Renamed(z, x, y)
  BY DEF Renamed
<1>9. ASSUME NEW w PROVE From(w) = Renamed(w, y, x)
  BY DEF Renamed
<1> HIDE DEF moved, To, From
<1>10. \A w : w \in DOMAIN tree' <=> (w \in DOMAIN tree /\ w \notin moved) \/ \E z \in moved : w = To(z)
  BY <1>2
<1>11. ASSUME NEW z \in DOMAIN tree, z \notin moved PROVE tree'[z] = tree[z] /\ z \in DOMAIN tree'
  BY <1>2, <1>7, <1>11
<1>12. ASSUME NEW z \in moved PROVE tree'[To(z)] = tree[z] /\ To(z) \in DOMAIN tree'
  <2>1. z \in Seq(STRING) /\ IsPrefix(x, z)
    BY <1>4, <1>6
  <2>2. IsPrefix(y, To(z))
    BY <1>3, <1>8, <2>1, RenamedFacts
  <2>3. From(To(z)) = z
    BY <1>3, <1>8, <1>9, <2>1, RenamedBack
  <2> QED
    BY <1>2, <2>2, <2>3
<1>13. \A z \in moved : z \in left'
  BY <1>1 DEF moved
<1>14. IsFcn(tree') /\ DOMAIN tree' \subseteq Path
  <2>1. IsFcn(tree')
    BY <1>2 DEF IsFcn
  <2>2. DOMAIN tree' \subseteq Path
    BY <1>2, <1>10 DEF FsInv
  <2> QED
    BY <2>1, <2>2
<1>15. Front(x) \in DOMAIN tree
  BY <1>1, ParentExists
<1>16. \A w \in DOMAIN tree' :
          \/ w \in DOMAIN tree /\ ~IsPrefix(x, w)
          \/ \E z \in DOMAIN tree : IsPrefix(x, z) /\ w = Renamed(z, x, y)
  BY <1>6, <1>8, <1>10
<1> QED
  BY <1>1, <1>6, <1>7, <1>8, <1>11, <1>12, <1>13, <1>14, <1>15, <1>16

\* Where a folder was before the folder x was renamed to y.
Was(z, w, x, y) ==
    \/ z = w /\ ~IsPrefix(x, z)
    \/ IsPrefix(x, z) /\ w = Renamed(z, x, y)

\* A rename neither makes nor removes an inode.
LEMMA MoveFrom ==
    ASSUME FsInv, NEW x \in Path, NEW y \in Path, MoveFolder(x, y)
    PROVE  /\ \A w \in DOMAIN tree' : \E z \in DOMAIN tree : Was(z, w, x, y) /\ tree'[w] = tree[z]
           /\ \A z \in DOMAIN tree : \E w \in DOMAIN tree' : tree'[w] = tree[z]
<1>1. \A z : z \in DOMAIN tree /\ ~IsPrefix(x, z) => z \in DOMAIN tree' /\ tree'[z] = tree[z]
  BY MoveTree
<1>2. \A z : z \in DOMAIN tree /\ IsPrefix(x, z) =>
          Renamed(z, x, y) \in DOMAIN tree' /\ tree'[Renamed(z, x, y)] = tree[z]
  BY MoveTree
<1>3. \A w \in DOMAIN tree' :
          \/ w \in DOMAIN tree /\ ~IsPrefix(x, w)
          \/ \E z \in DOMAIN tree : IsPrefix(x, z) /\ w = Renamed(z, x, y)
  BY MoveTree
<1> QED
  BY <1>1, <1>2, <1>3 DEF Was

\* The prefixes of the paths there are still exist.
LEMMA MoveClosed ==
    ASSUME FsInv, NEW x \in Path, NEW y \in Path, MoveFolder(x, y),
           NEW w \in DOMAIN tree', NEW k \in 1..Len(w)
    PROVE  SubSeq(w, 1, k) \in DOMAIN tree'
<1>1. /\ x \in Seq(STRING) /\ y \in Seq(STRING) /\ x # <<>> /\ y # <<>> /\ ~IsPrefix(x, y)
      /\ Front(y) \in DOMAIN tree
      /\ \A z : z \in DOMAIN tree /\ ~IsPrefix(x, z) => z \in DOMAIN tree'
      /\ \A z : z \in DOMAIN tree /\ IsPrefix(x, z) => Renamed(z, x, y) \in DOMAIN tree'
  BY MoveTree, PathFacts DEF MoveFolder
<1>2. \A z \in DOMAIN tree : z \in Seq(STRING) /\ \A j \in 1..Len(z) : SubSeq(z, 1, j) \in DOMAIN tree
  BY PathFacts DEF FsInv
<1>3. PICK z \in DOMAIN tree : Was(z, w, x, y)
  BY MoveFrom
<1>4. CASE z = w /\ ~IsPrefix(x, w)
  <2> DEFINE a == SubSeq(w, 1, k)
  <2>1. a \in DOMAIN tree /\ a \in Seq(STRING) /\ IsPrefix(a, w) /\ w \in Seq(STRING)
    BY <1>2, <1>4, PrefixOf
  <2> HIDE DEF a
  <2>2. ~IsPrefix(x, a)
    BY <1>1, <1>4, <2>1, PrefixTrans
  <2>3. a \in DOMAIN tree'
    BY <1>1, <2>1, <2>2
  <2> QED
    BY <2>3 DEF a
<1>5. CASE IsPrefix(x, z) /\ w = Renamed(z, x, y)
  <2>1. /\ w \in Seq(STRING) /\ Len(w) = Len(y) + Len(z) - Len(x) /\ IsPrefix(y, w)
        /\ Len(x) \in Nat \ {0} /\ Len(y) \in Nat \ {0} /\ Len(z) \in Nat /\ Len(x) <= Len(z)
    <3>1. z \in Seq(STRING)
      BY <1>2
    <3>2. Renamed(z, x, y) \in Seq(STRING) /\ IsPrefix(y, Renamed(z, x, y))
      BY <1>1, <1>5, <3>1, RenamedFacts
    <3>3. Len(Renamed(z, x, y)) = Len(y) + Len(z) - Len(x)
      BY <1>1, <1>5, <3>1, RenamedFacts
    <3>4. Len(x) <= Len(z)
      BY <1>1, <1>5, <3>1, IsPrefixFacts
    <3> QED
      BY <1>1, <1>5, <3>1, <3>2, <3>3, <3>4
  <2>2. CASE k < Len(y)
    <3> DEFINE a == SubSeq(w, 1, k)
               f == Front(y)
    <3>1. k \in 1..Len(y) /\ k \in 1..Len(y) - 1
      BY <2>1, <2>2
    <3>2. a = SubSeq(y, 1, k) /\ SubSeq(y, 1, k) = SubSeq(f, 1, k)
      <4>1. a = SubSeq(y, 1, k)
        BY <1>1, <2>1, <3>1, PrefixPrefix
      <4>2. SubSeq(y, 1, k) = SubSeq(f, 1, k)
        BY <1>1, <3>1, PrefixParts
      <4> QED
        BY <4>1, <4>2
    <3>3. f \in DOMAIN tree /\ k \in 1..Len(f)
      BY <1>1, <2>1, <3>1, FrontFacts
    <3> HIDE DEF f
    <3>4. SubSeq(f, 1, k) \in DOMAIN tree
      BY <1>2, <3>3
    <3>5. IsPrefix(SubSeq(y, 1, k), y)
      BY <1>1, <3>1, PrefixOf
    <3> HIDE DEF a
    <3>6. a \in DOMAIN tree /\ IsPrefix(a, y)
      BY <3>2, <3>4, <3>5
    <3>7. ~IsPrefix(x, a)
      BY <1>1, <1>2, <3>6, PrefixTrans
    <3>8. a \in DOMAIN tree'
      BY <1>1, <3>6, <3>7
    <3> QED
      BY <3>8 DEF a
  <2>3. CASE ~(k < Len(y))
    <3> DEFINE m == k - Len(y) + Len(x)
               v == SubSeq(z, 1, m)
    <3>1. m \in Len(x)..Len(z) /\ m \in 1..Len(z) /\ k = m - Len(x) + Len(y)
      BY <2>1, <2>3
    <3> HIDE DEF m
    <3>2. IsPrefix(x, v) /\ SubSeq(Renamed(z, x, y), 1, k) = Renamed(v, x, y)
      <4>1. x \in Seq(STRING) /\ y \in Seq(STRING) /\ z \in Seq(STRING) /\ IsPrefix(x, z)
        BY <1>1, <1>2, <1>5
      <4>2. IsPrefix(x, v)
        BY <1>1, <1>5, <3>1, <4>1, RenamedPrefix
      <4>3. SubSeq(Renamed(z, x, y), 1, k) = Renamed(v, x, y)
        BY ONLY <3>1, <4>1, RenamedPrefix DEF v
      <4> QED
        BY <4>2, <4>3
    <3>3. v \in DOMAIN tree
      BY <1>2, <3>1
    <3> HIDE DEF v
    <3>4. Renamed(v, x, y) \in DOMAIN tree'
      BY <1>1, <3>2, <3>3
    <3> QED
      BY <1>5, <3>2, <3>4
  <2> QED
    BY <2>2, <2>3
<1> QED
  BY <1>3, <1>4, <1>5 DEF Was

\* A rename is reported by the watch of the old parent and then by that of the new one.
LEMMA MoveQueue ==
    ASSUME FsInv, NEW x \in Path, NEW y \in Path, MoveFolder(x, y),
           NEW i, i = tree[Front(x)], NEW j, j = tree[Front(y)]
    PROVE  \E s \in Seq(EventRecord) :
              /\ s = Push(queue, i, "del", "folder", Last(x))
              /\ queue' = Push(s, j, "add", "folder", Last(y))
              /\ queue' \in Seq(EventRecord)
<1> DEFINE s == Push(queue, i, "del", "folder", Last(x))
           t == Push(s, j, "add", "folder", Last(y))
<1>1. queue \in Seq(EventRecord) /\ Last(x) \in Name /\ Last(y) \in Name
  BY DEF FsInv, Name
<1>2. queue' = t
  BY DEF MoveFolder, Push
<1> HIDE DEF t
<1>3. s \in Seq(EventRecord)
  BY <1>1, PushType
<1> HIDE DEF s
<1>4. t \in Seq(EventRecord)
  BY <1>1, <1>3, PushType DEF t
<1> QED
  BY <1>2, <1>3, <1>4 DEF s, t

\* A rename leaves a tree, and the watches of folders that were not renamed good.
LEMMA MoveFs ==
    ASSUME FsInv, NEW x \in Path, NEW y \in Path, MoveFolder(x, y)
    PROVE  FsInv' /\ Stays
<1>1. UNCHANGED <<fonts, watch, folders>> /\ left \subseteq left'
  BY DEF MoveFolder, Changes, monitor
<1>2. /\ \A w \in DOMAIN tree' : \E z \in DOMAIN tree : Was(z, w, x, y) /\ tree'[w] = tree[z]
      /\ \A z \in DOMAIN tree : \E w \in DOMAIN tree' : tree'[w] = tree[z]
  BY MoveFrom
<1>3. tree' \in [DOMAIN tree' -> Inode] /\ DOMAIN tree' \subseteq Path
  <2>1. \A w \in DOMAIN tree' : tree'[w] \in Inode
    BY <1>2 DEF FsInv
  <2>2. IsFcn(tree') /\ DOMAIN tree' \subseteq Path
    BY MoveTree
  <2> QED
    BY <2>1, <2>2 DEF IsFcn
<1>4. IsInjective(tree')
  <2> SUFFICES ASSUME NEW w1 \in DOMAIN tree', NEW w2 \in DOMAIN tree', tree'[w1] = tree'[w2]
               PROVE  w1 = w2
    BY DEF IsInjective
  <2>1. PICK z1 \in DOMAIN tree : Was(z1, w1, x, y) /\ tree'[w1] = tree[z1]
    BY <1>2
  <2>2. PICK z2 \in DOMAIN tree : Was(z2, w2, x, y) /\ tree'[w2] = tree[z2]
    BY <1>2
  <2>3. z1 = z2
    BY <2>1, <2>2 DEF FsInv, IsInjective
  <2> QED
    BY <2>1, <2>2, <2>3 DEF Was
<1>5. Range(tree) \subseteq Range(tree')
  BY <1>2 DEF Range
<1>6. \A p \in DOMAIN tree' : \A k \in 1..Len(p) : SubSeq(p, 1, k) \in DOMAIN tree'
  BY MoveClosed
<1>7. queue' \in Seq(EventRecord)
  BY MoveQueue
<1>8. FsInv'
  BY <1>1, <1>3, <1>4, <1>5, <1>6, <1>7 DEF FsInv, Tracked
<1>9. Stays
  <2>1. \A z : z \in DOMAIN tree /\ ~IsPrefix(x, z) => z \in DOMAIN tree' /\ tree'[z] = tree[z]
    BY MoveTree
  <2>2. \A z : z \in DOMAIN tree /\ IsPrefix(x, z) => z \in left'
    BY MoveTree
  <2> QED
    BY <1>1, <2>1, <2>2 DEF Stays
<1> QED
  BY <1>8, <1>9

\* Two steps that say nothing about M say nothing about it together.
LEMMA QuietTwice ==
    ASSUME NEW s, NEW t, NEW u, NEW M, Quiet(s, t, M), Quiet(t, u, M)
    PROVE  Quiet(s, u, M)
  BY DEF Quiet

\* What is renamed into a folder was not there, unless the folder was renamed too.
LEMMA MoveInto ==
    ASSUME FsInv, NEW x \in Path, NEW y \in Path, MoveFolder(x, y),
           NEW q \in DOMAIN tree', Front(q) \in DOMAIN tree, q # y
    PROVE  q \in DOMAIN tree /\ q # x
<1>1. /\ x \in Seq(STRING) /\ y \in Seq(STRING) /\ x # <<>> /\ y # <<>>
      /\ \A z \in DOMAIN tree : z \in Seq(STRING) /\ ~IsPrefix(y, z)
  BY MoveTree, PathFacts DEF FsInv
<1>2. q \in Seq(STRING) /\ q # <<>>
  <2>1. q \in Path
    BY MoveTree
  <2> QED
    BY <2>1, PathFacts
<1>3. PICK z \in DOMAIN tree : Was(z, q, x, y)
  BY MoveFrom
<1>4. ASSUME IsPrefix(x, z), q = Renamed(z, x, y) PROVE FALSE
  <2>1. IsPrefix(y, q)
    BY <1>1, <1>4, RenamedFacts
  <2>2. IsPrefix(y, Front(q))
    BY <1>1, <1>2, <2>1, PrefixFront
  <2> QED
    BY <1>1, <2>2
<1>5. z = q /\ ~IsPrefix(x, q)
  BY <1>3, <1>4 DEF Was
<1>6. IsPrefix(x, x)
  BY <1>1, IsPrefixFacts
<1> QED
  BY <1>5, <1>6

\* rename keeps watches good, and is reported.
LEMMA MoveEffect ==
    ASSUME FsInv, NEW x \in Path, NEW y \in Path, MoveFolder(x, y)
    PROVE  FsInv' /\ Stays /\ Reports
<1>1. FsInv' /\ Stays
  BY MoveFs
<1>2. Reports
  <2> SUFFICES ASSUME NEW p \in DOMAIN tree \ left', p \in DOMAIN tree', tree'[p] = tree[p],
                      tree[p] \in DOMAIN watch
               PROVE  /\ FontsTold(p)
                      /\ \A q \in DOMAIN tree' : Len(q) > 1 /\ Front(q) = p => FolderTold(p, q)
    BY DEF Reports
  <2>1. PICK i : i = tree[Front(x)]
    OBVIOUS
  <2>2. PICK j : j = tree[Front(y)]
    OBVIOUS
  <2>3. PICK s \in Seq(EventRecord) :
           /\ s = Push(queue, i, "del", "folder", Last(x))
           /\ queue' = Push(s, j, "add", "folder", Last(y))
    BY <2>1, <2>2, MoveQueue
  <2>4. queue \in Seq(EventRecord) /\ Last(x) \in Name /\ Last(y) \in Name
    BY DEF FsInv, Name
  <2>5. Front(x) \in DOMAIN tree /\ Front(y) \in DOMAIN tree
    BY MoveTree
  <2>6. FontsTold(p)
    <3> DEFINE wd == watch[tree[p]]
               M == FontsEvents(wd)
    <3> HIDE DEF wd
    <3>1. M = FontsEvents(wd)
      OBVIOUS
    <3> HIDE DEF M
    <3>2. Quiet(queue, s, M)
      BY <2>3, <2>4, <3>1, FontsOther
    <3>3. Quiet(s, queue', M)
      BY <2>3, <2>4, <3>1, FontsOther
    <3>4. Quiet(queue, queue', M)
      BY <3>2, <3>3, QuietTwice
    <3>5. Truth(p)' = Truth(p)
      BY DEF Truth, HasFonts, Exists, MoveFolder
    <3> QED
      BY <3>4, <3>5 DEF FontsTold, M, wd
  <2>7. ASSUME NEW q \in DOMAIN tree', Len(q) > 1, Front(q) = p PROVE FolderTold(p, q)
    <3> DEFINE M == FolderEvents(watch[tree[p]], Last(q))
    <3>1. q \in Path /\ M = FolderEvents(watch[tree[Front(q)]], Last(q))
      BY <1>1, <2>7 DEF FsInv
    <3> HIDE DEF M
    <3>2. CASE q = y
      <4>1. queue' = Push(s, j, "add", "folder", Last(q)) /\ j = tree[Front(q)]
        BY <2>2, <2>3, <3>2
      <4>2. Tells(queue', M, "add")
        BY <2>7, <3>1, <4>1, FolderSame
      <4> QED
        BY <4>2 DEF FolderTold, M
    <3>3. CASE q # y
      <4>1. q \in DOMAIN tree /\ q # x
        BY <2>7, <3>3, MoveInto
      <4>2. Quiet(queue, s, M)
        BY <2>1, <2>3, <2>4, <2>5, <2>7, <3>1, <4>1, FolderOther
      <4>3. Quiet(s, queue', M)
        BY <2>2, <2>3, <2>5, <2>7, <3>1, <3>3, FolderOther
      <4>4. Quiet(queue, queue', M)
        BY <4>2, <4>3, QuietTwice
      <4> QED
        BY <4>1, <4>4 DEF FolderTold, M
    <3> QED
      BY <3>2, <3>3
  <2> QED
    BY <2>6, <2>7
<1> QED
  BY <1>1, <1>2

\* A watch that is good after a change of the tree was good before, for the same inode.
LEMMA GoodStays ==
    ASSUME FsInv, FsInv', Stays, WatchInv, UNCHANGED <<folders, at, call, obj>>,
           NEW p, Good(p)'
    PROVE  /\ Good(p) /\ p \in DOMAIN tree \ left' /\ p \in DOMAIN tree' /\ tree'[p] = tree[p]
           /\ tree[p] \in DOMAIN watch /\ watch[tree[p]] = folders[p]
<1>1. /\ p \in Tracked /\ p \in DOMAIN tree' /\ tree'[p] \in DOMAIN watch'
      /\ watch'[tree'[p]] = folders[p] /\ p \notin left' /\ p \notin left
      /\ \A q \in Tracked \ {p} : folders[q] # folders[p]
  BY DEF Good, Watched, Exists, Tracked, Stays
<1>2. tree'[p] \in DOMAIN watch /\ watch[tree'[p]] = folders[p]
  BY <1>1 DEF Stays
<1>3. Exists(p) /\ tree[p] \in DOMAIN watch /\ watch[tree[p]] = folders[p]
  BY <1>1, <1>2 DEF WatchInv, Range
<1>4. tree[p] = tree'[p]
  BY <1>2, <1>3 DEF FsInv, IsInjective
<1>5. Good(p)
  BY <1>1, <1>3 DEF Good, Watched, Dropping, Tracked
<1> QED
  BY <1>1, <1>3, <1>4, <1>5 DEF Exists

\* Every change of the tree keeps watches good and is reported.
LEMMA TreeEffect ==
    ASSUME FsInv, TreeStep
    PROVE  FsInv' /\ Stays /\ Reports
<1>1. PICK x \in Path :
         MakeFolder(x) \/ RemoveFolder(x) \/ ChangeFonts(x) \/ \E y \in Path : MoveFolder(x, y)
  BY DEF TreeStep
<1> QED
  BY <1>1, MakeEffect, RemoveEffect, FontsEffect, MoveEffect

\* A change of the tree keeps the relation: what becomes untrue of the monitor is pending.
LEMMA TreeTrack ==
    ASSUME TrackInv, TreeStep
    PROVE  TrackInv'
<1>1. FsInv /\ HandInv /\ WatchInv /\ LookInv /\ ListInv /\ FollowInv
  BY DEF TrackInv
<1>2. FsInv' /\ Stays /\ Reports
  BY <1>1, TreeEffect
<1>3. PICK S : Changes(S)
  BY DEF TreeStep, MakeFolder, RemoveFolder, ChangeFonts, MoveFolder
<1>4. /\ UNCHANGED <<folders, added, obj, scans, at, call, child, run, xpath>>
      /\ lapses \subseteq lapses' /\ unseen \subseteq unseen'
      /\ BeforeWatch /\ obj.path \notin unseen' => HasFonts(obj.path)' = HasFonts(obj.path)
  BY <1>3 DEF Changes, Fault, monitor, HasFonts, Exists
<1>5. HandInv'
  BY <1>1, <1>2, <1>4 DEF HandInv, Constructing, Dropping, Tracked, Stays
<1>6. WatchInv'
  <2>1. Range(watch') \subseteq Range(watch)
    BY <1>2 DEF Stays, Range
  <2>2. ASSUME NEW p \in Tracked, p \notin left', folders[p] \in Range(watch')
        PROVE  p \in DOMAIN tree' /\ tree'[p] \in DOMAIN watch' /\ watch'[tree'[p]] = folders[p]
    <3>1. PICK i \in DOMAIN watch' : watch'[i] = folders[p]
      BY <2>2 DEF Range
    <3>2. i \in DOMAIN watch /\ watch[i] = folders[p] /\ p \notin left
      BY <1>2, <2>2, <3>1 DEF Stays
    <3>3. p \in DOMAIN tree /\ tree[p] \in DOMAIN watch /\ watch[tree[p]] = folders[p]
      BY <1>1, <3>2 DEF WatchInv, Range, Exists
    <3>4. i = tree[p]
      BY <1>1, <3>2, <3>3 DEF FsInv, IsInjective
    <3> QED
      BY <1>2, <2>2, <3>1, <3>3, <3>4 DEF Stays
  <2> QED
    BY <1>1, <1>4, <2>1, <2>2 DEF WatchInv, Dropping, Tracked, Exists
<1>7. LookInv'
  BY <1>1, <1>4 DEF LookInv, BeforeWatch, Commands
<1>8. ListInv'
  <2> SUFFICES ASSUME "failed" \notin lapses', at' # "aborted",
                      NEW p \in Tracked, Good(p)', p \notin unseen'
               PROVE  Listing(p)'
    BY <1>4 DEF ListInv, Tracked
  <2>1. /\ Good(p) /\ p \in DOMAIN tree \ left' /\ p \in DOMAIN tree' /\ tree'[p] = tree[p]
        /\ tree[p] \in DOMAIN watch /\ watch[tree[p]] = folders[p]
    BY <1>1, <1>2, <1>4, GoodStays
  <2>2. Listing(p)
    BY <1>1, <1>4, <2>1 DEF ListInv
  <2>3. FontsTold(p)
    BY <1>2, <2>1 DEF Reports
  <2> DEFINE M == FontsEvents(folders[p])
  <2>4. Lists(p)' = Lists(p) /\ Modifying(p)' = Modifying(p)
    BY <1>4 DEF Lists, Modifying
  <2>5. CASE Tells(queue', M, Truth(p)')
    <3> HIDE DEF M
    <3>1. Pending(queue', M) # {} /\ Says(queue', M, Truth(p)')
      BY <2>5 DEF Tells
    <3>2. M = FontsEvents(folders'[p])
      BY <1>4 DEF M
    <3> QED
      BY <3>1, <3>2 DEF Listing
  <2>6. CASE Truth(p)' = Truth(p) /\ Quiet(queue, queue', M)
    <3> HIDE DEF M
    <3>1. HasFonts(p)' <=> HasFonts(p)
      BY <2>6 DEF Truth
    <3>2. M = FontsEvents(folders'[p]) /\ M = FontsEvents(folders[p])
      BY <1>4 DEF M
    <3>3. Says(queue', M, Truth(p)')
      BY <2>2, <2>6, <3>2 DEF Listing, Quiet
    <3>4. Pending(queue', M) = Pending(queue, M)
      BY <2>6 DEF Quiet
    <3> QED
      BY <1>4, <2>2, <2>4, <3>1, <3>2, <3>3, <3>4 DEF Listing
  <2> QED
    BY <2>1, <2>3, <2>5, <2>6 DEF FontsTold
<1>9. FollowInv'
  <2> SUFFICES ASSUME at' # "aborted", run' # "stopping", NEW p \in Tracked,
                      NEW q \in DOMAIN tree',
                      Good(p)', Len(q) > 1, Front(q) = p, Follows(p, Last(q))
               PROVE  Following(p, q)'
    BY <1>4 DEF FollowInv, Tracked
  <2>1. /\ Good(p) /\ p \in DOMAIN tree \ left' /\ p \in DOMAIN tree' /\ tree'[p] = tree[p]
        /\ tree[p] \in DOMAIN watch /\ watch[tree[p]] = folders[p]
    BY <1>1, <1>2, <1>4, GoodStays
  <2>2. FolderTold(p, q)
    BY <1>2, <2>1 DEF Reports
  <2> DEFINE M == FolderEvents(folders[p], Last(q))
  <2>3. M = FolderEvents(folders'[p], Last(q)) /\ M = FolderEvents(folders[p], Last(q))
    BY <1>4
  <2>4. Tells(queue', M, "add") \/ (q \in DOMAIN tree /\ Quiet(queue, queue', M))
    BY <2>1, <2>2 DEF FolderTold
  <2> HIDE DEF M
  <2>5. CASE Tells(queue', M, "add")
    BY <2>3, <2>5 DEF Following, Tells
  <2>6. CASE q \in DOMAIN tree /\ Quiet(queue, queue', M)
    <3>1. Following(p, q)
      BY <1>1, <1>4, <2>1, <2>6 DEF FollowInv
    <3>2. Says(queue', M, "add") /\ Pending(queue', M) = Pending(queue, M)
      BY <2>3, <2>6, <3>1 DEF Following, Quiet
    <3>3. Coming(q)' = Coming(q) /\ Tracked' = Tracked
      BY <1>4 DEF Coming, Constructing, Tracked
    <3> QED
      BY <2>3, <3>1, <3>2, <3>3 DEF Following
  <2> QED
    BY <2>4, <2>5, <2>6
<1> QED
  BY <1>2, <1>5, <1>6, <1>7, <1>8, <1>9 DEF TrackInv

-----------------------------------------------------------------------------
(* The monitor and its child. *)

\* What a step that leaves the file system, the watches and the FontFolders alone
\* must do with the folders that are still to be visited.
LEMMA FrameTrack ==
    ASSUME FsInv, WatchInv, FollowInv,
           UNCHANGED <<tree, fonts, watch, queue, folders>>,
           Dropping => Dropping' /\ obj'.wd = obj.wd,
           \A p \in Tracked : p \in left' <=> p \in left,
           at = "aborted" \/ run = "stopping" => at' = "aborted" \/ run' = "stopping",
           \A q \in DOMAIN tree :
               Front(q) \in Tracked /\ Follows(Front(q), Last(q)) /\ Coming(q)
                   => q \in Tracked \/ Coming(q)'
    PROVE  FsInv' /\ WatchInv' /\ FollowInv' /\ \A p \in Tracked : Good(p)' => Good(p)
<1>1. FsInv'
  BY DEF FsInv, Tracked
<1>2. WatchInv'
  BY DEF WatchInv, Tracked, Exists
<1>3. ASSUME NEW p \in Tracked, Good(p)' PROVE Good(p)
  BY <1>3 DEF Good, Watched, Tracked, Exists
<1>4. FollowInv'
  <2> SUFFICES ASSUME at' # "aborted", run' # "stopping", NEW p \in Tracked,
                      NEW q \in DOMAIN tree,
                      Good(p)', Len(q) > 1, Front(q) = p, Follows(p, Last(q))
               PROVE  Following(p, q)'
    BY DEF FollowInv, Tracked
  <2>1. Following(p, q)
    BY <1>3 DEF FollowInv
  <2>2. FolderEvents(folders'[p], Last(q)) = FolderEvents(folders[p], Last(q))
    OBVIOUS
  <2> QED
    BY <2>1, <2>2 DEF Following, Pending, Says, Tracked
<1> QED
  BY <1>1, <1>2, <1>3, <1>4

\* The same for what the monitor believes of the font path.
LEMMA FrameList ==
    ASSUME ListInv, UNCHANGED <<tree, fonts, queue, folders>>,
           \A p \in Tracked : Good(p)' => Good(p),
           lapses \subseteq lapses', \A p \in Tracked : p \in unseen => p \in unseen',
           at = "aborted" => at' = "aborted",
           "failed" \notin lapses' =>
              \A p \in Tracked :
                 (Modifying(p) => child.state # "refused") =>
                    /\ Lists(p)' <=> Lists(p)
                    /\ Modifying(p)' /\ (Lists(p) <=> HasFonts(p)) => child'.state # "refused"
    PROVE  ListInv'
<1> SUFFICES ASSUME "failed" \notin lapses', at' # "aborted",
                    NEW p \in Tracked, Good(p)', p \notin unseen'
             PROVE  Listing(p)'
  BY DEF ListInv, Tracked
<1>1. Listing(p)
  BY DEF ListInv
<1>2. FontsEvents(folders'[p]) = FontsEvents(folders[p]) /\ Truth(p)' = Truth(p)
      /\ HasFonts(p)' = HasFonts(p)
  BY DEF Truth, HasFonts, Exists
<1>3. Says(queue, FontsEvents(folders[p]), Truth(p))' /\ Pending(queue, FontsEvents(folders[p]))' = Pending(queue, FontsEvents(folders[p]))
  BY <1>1, <1>2 DEF Listing, Says, Pending
<1> QED
  BY <1>1, <1>2, <1>3 DEF Listing

\* So does the monitor's thread while it forks and waits for xset.
LEMMA CommandTrack ==
    ASSUME TrackInv, IInv, Fork \/ ForkFails \/ SetGroup \/ WaitChild
    PROVE  TrackInv'
<1>1. FsInv /\ HandInv /\ WatchInv /\ LookInv /\ ListInv /\ FollowInv
  BY DEF TrackInv
<1>2. /\ UNCHANGED <<tree, fonts, watch, queue, folders, obj, scans, call, run, unseen, left, xpath>>
      /\ lapses \subseteq lapses' /\ at \in Commands
      /\ at' \in Commands \/ at' = call.back
  BY DEF Fork, ForkFails, SetGroup, WaitChild, fs, history, Fault, Commands
<1>3. ChildInv
  BY DEF IInv
<1>4. call.back \in {"scan", "watch", "unwatch"} /\ call.isAdd \in BOOLEAN
  BY <1>3 DEF ChildInv
<1>5. Dropping' = Dropping /\ Constructing' = Constructing /\ at' # "aborted"
      /\ (call.back # "scan" => obj.path \notin Tracked)
  BY <1>1, <1>2, <1>4 DEF Dropping, Constructing, Commands, HandInv
<1>6. HandInv'
  BY <1>1, <1>2, <1>4, <1>5 DEF HandInv, Commands, Tracked
<1>7. FsInv' /\ WatchInv' /\ FollowInv' /\ \A p \in Tracked : Good(p)' => Good(p)
  <2>1. \A q : Coming(q) => Coming(q)'
    BY <1>2, <1>5 DEF Coming, Commands
  <2> QED
    BY <1>1, <1>2, <1>5, <2>1, FrameTrack DEF Commands
<1>8. ASSUME "failed" \notin lapses', child.state # "refused"
      PROVE  /\ at' = call.back => (obj.path \in added' <=> call.isAdd)
             /\ \A p : p # obj.path => (p \in added' <=> p \in added)
  <2>1. CASE Fork
    BY <1>4, <2>1 DEF Fork, Commands
  <2>2. CASE ForkFails
    BY <1>8, <2>2 DEF ForkFails, Fault
  <2>3. CASE SetGroup
    BY <1>4, <2>3 DEF SetGroup
  <2>4. CASE WaitChild
    <3>1. child.state = "ok"
      BY <1>2, <1>3, <1>8, <2>4 DEF WaitChild, ChildInv, ChildState, Exited
    <3> QED
      BY <2>4, <3>1 DEF WaitChild, Believed
  <2> QED
    BY <2>1, <2>2, <2>3, <2>4
<1>9. /\ at' \in Commands /\ child'.state = "refused" => child.state = "refused" /\ at \in Commands
      /\ at' \in Commands => UNCHANGED added
      /\ \A p : p # obj.path => (p \in added' <=> p \in added)
  BY <1>3, <1>4 DEF Fork, ForkFails, SetGroup, WaitChild, Believed, Commands, ChildInv, Commanding, NoChild
<1>10. LookInv'
  BY <1>1, <1>2, <1>4, <1>8, <1>9 DEF LookInv, HandInv, Commands, HasFonts, Exists
<1>11. ListInv'
  <2>1. ASSUME "failed" \notin lapses', NEW p \in Tracked, Modifying(p) => child.state # "refused"
        PROVE  /\ Lists(p)' <=> Lists(p)
               /\ Modifying(p)' => child'.state # "refused"
    <3>1. CASE p = obj.path
      <4>1. call.back = "scan" /\ Modifying(p) /\ child.state # "refused"
        BY <1>2, <1>5, <2>1, <3>1 DEF Modifying
      <4>2. Lists(p) <=> call.isAdd
        BY <4>1 DEF Lists
      <4>3. at' \in Commands => (Lists(p)' <=> call.isAdd)
        BY <1>2, <3>1, <4>1 DEF Lists, Modifying
      <4>4. at' = "scan" => (Lists(p)' <=> call.isAdd)
        BY <1>2, <1>8, <2>1, <3>1, <4>1 DEF Lists, Modifying, Commands
      <4> QED
        BY <1>2, <1>9, <4>1, <4>2, <4>3, <4>4 DEF Modifying
    <3>2. CASE p # obj.path
      BY <1>2, <1>9, <3>2 DEF Lists, Modifying
    <3> QED
      BY <3>1, <3>2
  <2> QED
    BY <1>1, <1>2, <1>7, <2>1, FrameList DEF Commands
<1> QED
  BY <1>6, <1>7, <1>10, <1>11 DEF TrackInv

\* So does xset itself, also one that is killed.
LEMMA ChildTrack ==
    ASSUME TrackInv, IInv, ChildStep \/ ChildKilled
    PROVE  TrackInv'
<1>1. FsInv /\ HandInv /\ WatchInv /\ LookInv /\ ListInv /\ FollowInv
  BY DEF TrackInv
<1>2. /\ UNCHANGED <<tree, fonts, watch, queue, folders, added, obj, scans, at, call, run, unseen, left>>
      /\ lapses \subseteq lapses'
  BY DEF ChildStep, ChildSetsGroup, ChildRuns, RunReaps, ChildKilled, fs, monitor, history, Fault
<1>3. ChildInv
  BY DEF IInv
<1>4. xpath' \subseteq Path
  <2>1. ~Refused /\ call.isAdd => obj.path \in Path
    BY <1>1 DEF Refused, HasFonts, Exists, FsInv
  <2>2. Modified \subseteq Path
    BY <1>1, <2>1 DEF Modified, HandInv
  <2> QED
    BY <1>1, <2>2 DEF ChildStep, ChildSetsGroup, ChildRuns, RunReaps, ChildKilled, HandInv
<1>5. HandInv'
  BY <1>1, <1>2, <1>4 DEF HandInv, Constructing, Dropping, Tracked
<1>6. FsInv' /\ WatchInv' /\ FollowInv' /\ \A p \in Tracked : Good(p)' => Good(p)
  <2>1. \A q : Coming(q) => Coming(q)'
    BY <1>2 DEF Coming, Constructing
  <2>2. Dropping => Dropping'
    BY <1>2 DEF Dropping
  <2> QED
    BY <1>1, <1>2, <2>1, <2>2, FrameTrack
<1>7. child'.state = "refused" /\ child.state # "refused" => call.isAdd /\ ~HasFonts(obj.path)
  BY <1>3 DEF ChildStep, ChildSetsGroup, ChildRuns, RunReaps, ChildKilled, ChildInv, Refused
<1>8. LookInv'
  BY <1>1, <1>2, <1>7 DEF LookInv, HasFonts, Exists
<1>9. ListInv'
  <2>1. ASSUME NEW p \in Tracked, Modifying(p) => child.state # "refused"
        PROVE  /\ Lists(p)' <=> Lists(p)
               /\ Modifying(p)' /\ (Lists(p) <=> HasFonts(p)) => child'.state # "refused"
    BY <1>2, <1>7, <2>1 DEF Lists, Modifying
  <2> QED
    BY <1>1, <1>2, <1>6, <2>1, FrameList
<1> QED
  BY <1>5, <1>6, <1>8, <1>9 DEF TrackInv

\* Outside the commands the belief is about `added` alone.
LEMMA RestList ==
    ASSUME ListInv, UNCHANGED <<tree, fonts, queue, folders, child>>,
           \A p \in Tracked : p \in added' <=> p \in added,
           \A p \in Tracked : Good(p)' => Good(p),
           lapses \subseteq lapses', \A p \in Tracked : p \in unseen => p \in unseen',
           at \notin Commands \cup {"aborted"},
           at' \in Commands => call'.back # "scan"
    PROVE  ListInv'
<1>1. \A p : ~Modifying(p) /\ ~Modifying(p)'
  BY DEF Modifying
<1>2. \A p \in Tracked : Lists(p)' <=> Lists(p)
  BY <1>1 DEF Lists
<1> QED
  BY <1>1, <1>2, FrameList

\* Start, Stop and the others that concern no FontFolder.
LEMMA ThreadTrack ==
    ASSUME TrackInv, IInv, Start \/ ThreadStarts \/ Cancelled \/ RunReturns \/ XRestarts
    PROVE  TrackInv'
<1>1. FsInv /\ HandInv /\ WatchInv /\ LookInv /\ ListInv /\ FollowInv
  BY DEF TrackInv
<1>2. /\ UNCHANGED <<tree, fonts, watch, queue, folders, added, obj, call, child, unseen, left>>
      /\ lapses \subseteq lapses'
  BY DEF Start, ThreadStarts, Cancelled, RunReturns, XRestarts, fs, monitor, history, Fault
<1>3. \/ /\ at = "start" /\ at' \in {"scan", "stopped"} /\ UNCHANGED <<run, xpath>>
         /\ scans' = scans \/ scans' = <<Roots \cap DOMAIN tree>>
      \/ /\ at = "scan" /\ run = "before" /\ run' = "running"
         /\ UNCHANGED <<at, scans, xpath>>
      \/ /\ at = "scan" /\ run = "returned" /\ at' = "stop" /\ run' = "stopping"
         /\ UNCHANGED <<scans, xpath>>
      \/ /\ at \in Commands /\ run = "returned" /\ at' = "aborted"
         /\ UNCHANGED <<run, scans, xpath>>
      \/ /\ run \in {"running", "returned"} /\ run' \in {"running", "returned"}
         /\ UNCHANGED <<at, scans>> /\ xpath' \in {xpath, {}}
  BY DEF Start, ThreadStarts, Cancelled, RunReturns, XRestarts, monitor, Reading, Commands
<1>4. HandInv'
  <2>1. scans' \in Seq(SUBSET Path)
    <3> DEFINE there == Roots \cap DOMAIN tree
    <3>1. there \in SUBSET Path
      BY <1>1 DEF FsInv
    <3> HIDE DEF there
    <3>2. <<there>> \in Seq(SUBSET Path)
      BY <3>1
    <3>3. scans \in Seq(SUBSET Path)
      BY <1>1 DEF HandInv
    <3>4. scans' = scans \/ scans' = <<there>>
      BY <1>3 DEF there
    <3> QED
      BY <3>2, <3>3, <3>4
  <2> QED
    BY <1>1, <1>2, <1>3, <2>1 DEF HandInv, Constructing, Dropping, Commands, Tracked
<1>5. FsInv' /\ WatchInv' /\ FollowInv' /\ \A p \in Tracked : Good(p)' => Good(p)
  <2>1. Dropping => Dropping'
    BY <1>2, <1>3 DEF Dropping, Commands
  <2>2. at = "aborted" \/ run = "stopping" => at' = "aborted" \/ run' = "stopping"
    BY <1>1, <1>3 DEF HandInv, Commands
  <2>3. CASE at = "start"
    <3>1. Tracked = {}
      BY <1>1, <2>3 DEF HandInv
    <3> QED
      BY <1>1, <1>2, <2>1, <2>2, <3>1, FrameTrack
  <2>4. CASE at # "start" /\ at' # "aborted" /\ run' # "stopping"
    <3>1. UNCHANGED <<at, scans>>
      BY <1>3, <2>4
    <3>2. \A q : Coming(q) => Coming(q)'
      BY <1>2, <3>1 DEF Coming, Constructing
    <3> QED
      BY <1>1, <1>2, <2>1, <2>2, <3>2, FrameTrack
  <2>5. CASE at' = "aborted" \/ run' = "stopping"
    <3>1. FsInv' /\ WatchInv'
      BY <1>1, <1>2, <2>1 DEF FsInv, WatchInv, Tracked, Exists
    <3>2. \A p \in Tracked : Good(p)' => Good(p)
      BY <1>2, <2>1 DEF Good, Watched, Tracked, Exists
    <3> QED
      BY <2>5, <3>1, <3>2 DEF FollowInv
  <2> QED
    BY <2>3, <2>4, <2>5
<1>6. LookInv'
  BY <1>1, <1>2, <1>3 DEF LookInv, HasFonts, Exists, Commands
<1>7. ListInv'
  <2>1. CASE UNCHANGED at
    <3>1. \A p : (Modifying(p)' <=> Modifying(p)) /\ (Lists(p)' <=> Lists(p))
      BY <1>2, <2>1 DEF Modifying, Lists
    <3> QED
      BY <1>1, <1>2, <1>5, <2>1, <3>1, FrameList
  <2>2. CASE at' = "aborted"
    BY <2>2 DEF ListInv
  <2>3. CASE at \notin Commands \cup {"aborted"} /\ at' \notin Commands
    BY <1>1, <1>2, <1>5, <2>3, RestList
  <2> QED
    BY <1>3, <2>1, <2>2, <2>3 DEF Commands
<1> QED
  BY <1>4, <1>5, <1>6, <1>7 DEF TrackInv

\* So does the look for fonts.dir in the constructor of FontFolder.
LEMMA CheckTrack ==
    ASSUME TrackInv, IInv, CheckFolder
    PROVE  TrackInv'
<1>1. FsInv /\ HandInv /\ WatchInv /\ LookInv /\ ListInv /\ FollowInv
  BY DEF TrackInv
<1>2. /\ UNCHANGED <<tree, fonts, watch, queue, folders, added, scans, child, run, xpath, lapses>>
      /\ at = "check" /\ unseen' = unseen \ {obj.path} /\ left' = left \ {obj.path}
      /\ UNCHANGED obj
      /\ \/ HasFonts(obj.path) /\ at' = "sleep" /\ call' = [isAdd |-> TRUE, back |-> "watch"]
         \/ ~HasFonts(obj.path) /\ at' = "watch" /\ UNCHANGED call
  BY DEF CheckFolder, fs, Ready, Modify
<1>3. obj.path \notin Tracked /\ Constructing /\ Constructing' /\ ~Dropping /\ ~Dropping'
  BY <1>1, <1>2 DEF HandInv, Constructing, Dropping, Commands
<1>4. HandInv'
  BY <1>1, <1>2, <1>3 DEF HandInv, Commands, Tracked
<1>5. FsInv' /\ WatchInv' /\ FollowInv' /\ \A p \in Tracked : Good(p)' => Good(p)
  <2>1. \A q : Coming(q) => Coming(q)'
    BY <1>2, <1>3 DEF Coming
  <2>2. \A p \in Tracked : p \in left' <=> p \in left
    BY <1>2, <1>3
  <2> QED
    BY <1>1, <1>2, <1>3, <2>1, <2>2, FrameTrack
<1>6. child.state = "none"
  BY <1>2 DEF IInv, ChildInv, Commanding
<1>7. LookInv'
  <2>1. HasFonts(obj.path)' = HasFonts(obj.path)
    BY <1>2 DEF HasFonts, Exists
  <2>2. "failed" \notin lapses => obj.path \notin added
    BY <1>2, <1>3 DEF IInv, HeldInv, Held
  <2> QED
    BY <1>2, <1>6, <2>1, <2>2 DEF LookInv, Commands
<1>8. ListInv'
  <2>1. \A p \in Tracked : p \in unseen => p \in unseen'
    BY <1>2, <1>3
  <2> QED
    BY <1>1, <1>2, <1>5, <2>1, RestList DEF Commands
<1> QED
  BY <1>4, <1>5, <1>7, <1>8 DEF TrackInv

\* So does listing the subfolders of the folder in hand, which are then to be visited.
LEMMA ListTrack ==
    ASSUME TrackInv, IInv, ListFolder
    PROVE  TrackInv'
<1>1. FsInv /\ HandInv /\ WatchInv /\ LookInv /\ ListInv /\ FollowInv
  BY DEF TrackInv
<1>2. /\ UNCHANGED <<tree, fonts, watch, queue, folders, added, obj, call, child, run, xpath, lapses, unseen, left>>
      /\ at = "list" /\ at' = "scan" /\ scans' = Append(scans, Listed(obj.path))
  BY DEF ListFolder, fs, history
<1>3. Listed(obj.path) \in SUBSET Path
  BY <1>1 DEF Listed, Subfolders, FsInv
<1> DEFINE T == Listed(obj.path)
           t == Append(scans, T)
<1>4. \A q \in DOMAIN tree : Front(q) = obj.path /\ q # <<>> /\ Follows(Front(q), Last(q)) => q \in T
  BY DEF Listed, Subfolders
<1> HIDE DEF T
<1>5. /\ t \in Seq(SUBSET Path)
      /\ \A q : (\E k \in DOMAIN scans : q \in scans[k]) => \E k \in DOMAIN t : q \in t[k]
      /\ \A q \in T : \E k \in DOMAIN t : q \in t[k]
  <2>1. scans \in Seq(SUBSET Path) /\ T \in SUBSET Path /\ Len(scans) \in Nat
    BY <1>1, <1>3 DEF HandInv, T
  <2>2. t \in Seq(SUBSET Path) /\ Len(t) = Len(scans) + 1
    BY <2>1
  <2>3. \A k \in 1..Len(scans) : t[k] = scans[k]
    BY <2>1
  <2>4. t[Len(scans) + 1] = T
    BY <2>1
  <2>5. DOMAIN t = 1..Len(scans) + 1 /\ DOMAIN scans = 1..Len(scans)
    BY <2>1, <2>2
  <2> HIDE DEF t
  <2>6. \A k \in 1..Len(scans) : k \in 1..Len(scans) + 1
    BY <2>1
  <2>7. Len(scans) + 1 \in 1..Len(scans) + 1
    BY <2>1
  <2> QED
    BY <2>2, <2>3, <2>4, <2>5, <2>6, <2>7
<1>6. scans' = t
  BY <1>2 DEF T
<1> HIDE DEF t
<1>7. HandInv'
  BY <1>1, <1>2, <1>5, <1>6 DEF HandInv, Constructing, Dropping, Commands, Tracked
<1>8. ~Dropping /\ ~Constructing
  BY <1>2 DEF Dropping, Constructing, Commands
<1>9. FsInv' /\ WatchInv' /\ FollowInv' /\ \A p \in Tracked : Good(p)' => Good(p)
  <2>1. ASSUME NEW q \in DOMAIN tree, Follows(Front(q), Last(q)), Coming(q) PROVE Coming(q)'
    <3>1. q # <<>>
      BY <1>1, PathFacts DEF FsInv
    <3>2. \E k \in DOMAIN t : q \in t[k]
      BY <1>4, <1>5, <1>8, <2>1, <3>1 DEF Coming
    <3> QED
      BY <1>6, <3>2 DEF Coming
  <2> QED
    BY <1>1, <1>2, <1>8, <2>1, FrameTrack
<1>10. LookInv'
  BY <1>2 DEF LookInv, Commands
<1>11. ListInv'
  BY <1>1, <1>2, <1>9, RestList DEF Commands
<1> QED
  BY <1>7, <1>9, <1>10, <1>11 DEF TrackInv

\* So does inotify_rm_watch in the destructor of FontFolder.
LEMMA UnwatchTrack ==
    ASSUME TrackInv, IInv, Unwatch
    PROVE  TrackInv'
<1>1. FsInv /\ HandInv /\ WatchInv /\ LookInv /\ ListInv /\ FollowInv
  BY DEF TrackInv
<1>2. /\ UNCHANGED <<tree, fonts, queue, folders, obj, scans, call, child, run, xpath, lapses, unseen, left>>
      /\ added' = added \ {obj.path} /\ at = "unwatch" /\ at' = (IF run = "stopping" THEN "stop" ELSE "scan")
  BY DEF Unwatch, history
<1>3. /\ \A i : i \in DOMAIN watch' <=> i \in DOMAIN watch /\ watch[i] # obj.wd
      /\ \A i \in DOMAIN watch' : watch'[i] = watch[i]
      /\ IsFcn(watch')
  <2> DEFINE T == {i \in DOMAIN watch : watch[i] = obj.wd}
  <2>1. watch' = Without(watch, T) /\ \A i : i \in T <=> i \in DOMAIN watch /\ watch[i] = obj.wd
    BY DEF Unwatch
  <2> HIDE DEF T
  <2> QED
    BY <2>1, WithoutFacts
<1>4. Dropping /\ ~Dropping' /\ ~Constructing /\ ~Constructing' /\ at' \notin Commands /\ at' # "list"
  BY <1>2 DEF Dropping, Constructing, Commands
<1>5. HandInv'
  BY <1>1, <1>2, <1>3, <1>4 DEF HandInv, Tracked
<1>6. FsInv'
  <2>1. watch' \in [DOMAIN watch' -> Wd] /\ IsInjective(watch')
    BY <1>1, <1>3 DEF FsInv, IsFcn, IsInjective
  <2>2. DOMAIN watch' \subseteq Range(tree')
    BY <1>1, <1>2, <1>3 DEF FsInv
  <2> QED
    BY <1>1, <1>2, <2>1, <2>2 DEF FsInv, Tracked
<1>7. WatchInv'
  <2>1. Range(watch') \subseteq Range(folders)
    <3>1. \A wd \in Range(watch') : wd \in Range(watch) /\ wd # obj.wd
      BY <1>3 DEF Range
    <3> QED
      BY <1>1, <3>1 DEF WatchInv
  <2>2. ASSUME NEW p \in Tracked, p \notin left, folders[p] \in Range(watch')
        PROVE  p \in DOMAIN tree /\ tree[p] \in DOMAIN watch' /\ watch'[tree[p]] = folders[p]
    <3>1. folders[p] \in Range(watch) /\ folders[p] # obj.wd
      BY <1>3, <2>2 DEF Range
    <3>2. p \in DOMAIN tree /\ tree[p] \in DOMAIN watch /\ watch[tree[p]] = folders[p]
      BY <1>1, <2>2, <3>1 DEF WatchInv, Exists
    <3> QED
      BY <1>3, <3>1, <3>2
  <2> QED
    BY <1>2, <2>1, <2>2 DEF WatchInv, Tracked, Exists
<1>8. ASSUME NEW p \in Tracked, Good(p)' PROVE Good(p)
  <2>1. /\ p \in DOMAIN tree /\ tree[p] \in DOMAIN watch' /\ watch'[tree[p]] = folders[p]
        /\ \A q \in Tracked \ {p} : folders[q] # folders[p]
        /\ p \notin left
    BY <1>2, <1>8 DEF Good, Watched, Exists, Tracked
  <2>2. tree[p] \in DOMAIN watch /\ watch[tree[p]] = folders[p] /\ folders[p] # obj.wd
    BY <1>3, <2>1
  <2> QED
    BY <2>1, <2>2 DEF Good, Watched, Exists
<1>9. FollowInv'
  <2> SUFFICES ASSUME at' # "aborted", run' # "stopping", NEW p \in Tracked,
                      NEW q \in DOMAIN tree,
                      Good(p)', Len(q) > 1, Front(q) = p, Follows(p, Last(q))
               PROVE  Following(p, q)'
    BY <1>2 DEF FollowInv, Tracked
  <2>1. Following(p, q)
    BY <1>1, <1>2, <1>8 DEF FollowInv
  <2>2. FolderEvents(folders'[p], Last(q)) = FolderEvents(folders[p], Last(q)) /\ queue' = queue
    BY <1>2
  <2>3. Coming(q)' = Coming(q) /\ Tracked' = Tracked
    BY <1>2, <1>4 DEF Coming, Tracked
  <2> QED
    BY <2>1, <2>2, <2>3 DEF Following, Pending, Says
<1>10. LookInv'
  BY <1>4 DEF LookInv, Commands, Constructing
<1>11. ListInv'
  <2>1. \A p \in Tracked : p \in added' <=> p \in added
    BY <1>1, <1>2, <1>4 DEF HandInv
  <2> QED
    BY <1>1, <1>2, <1>4, <1>8, <2>1, RestList DEF Commands
<1> QED
  BY <1>5, <1>6, <1>7, <1>9, <1>10, <1>11 DEF TrackInv

\* Some level of AddMonitorFolder has q still to visit.
InSome(s, q) == \E k \in DOMAIN s : q \in s[k]

\* Putting a set of paths on the stack of folders to be visited.
LEMMA InAppend ==
    ASSUME NEW s \in Seq(SUBSET Path), NEW T \in SUBSET Path
    PROVE  /\ Append(s, T) \in Seq(SUBSET Path)
           /\ \A q : InSome(Append(s, T), q) <=> InSome(s, q) \/ q \in T
<1> DEFINE t == Append(s, T)
<1>1. t \in Seq(SUBSET Path) /\ Len(s) \in Nat /\ Len(t) = Len(s) + 1
  OBVIOUS
<1>2. (\A k \in 1..Len(s) : t[k] = s[k]) /\ t[Len(s) + 1] = T
  OBVIOUS
<1>3. DOMAIN t = 1..Len(s) + 1 /\ DOMAIN s = 1..Len(s)
  BY <1>1
<1>4. \A k : k \in 1..Len(s) + 1 <=> k \in 1..Len(s) \/ k = Len(s) + 1
  BY <1>1
<1> HIDE DEF t
<1>5. \A q : InSome(t, q) <=> InSome(s, q) \/ q \in T
  BY <1>2, <1>3, <1>4 DEF InSome
<1> QED
  BY <1>1, <1>5 DEF t

\* So does taking the next folder to be visited, which is constructed unless it is gone or tracked.
LEMMA ScanTrack ==
    ASSUME TrackInv, IInv, Scan
    PROVE  TrackInv'
<1>1. FsInv /\ HandInv /\ WatchInv /\ LookInv /\ ListInv /\ FollowInv
  BY DEF TrackInv
<1>2. /\ UNCHANGED <<tree, fonts, watch, queue, folders, added, call, child, run, xpath, lapses, unseen, left>>
      /\ at = "scan" /\ scans # <<>>
      /\ UNCHANGED <<at, obj>> \/ (at' = "check" /\ obj'.path \notin Tracked /\ obj'.wd = NONE)
  BY DEF Scan, AddMonitorFolder, fs, history
<1> DEFINE f == Front(scans)
           L == Last(scans)
<1>3. f \in Seq(SUBSET Path) /\ L \in SUBSET Path /\ \A q : InSome(scans, q) <=> InSome(f, q) \/ q \in L
  <2>1. f \in Seq(SUBSET Path) /\ L \in SUBSET Path
    BY <1>1, <1>2, FrontFacts DEF HandInv
  <2>2. scans = Append(f, L)
    BY <1>1, <1>2, FrontFacts DEF HandInv
  <2> HIDE DEF f, L
  <2>3. \A q : InSome(Append(f, L), q) <=> InSome(f, q) \/ q \in L
    BY <2>1, InAppend
  <2> QED
    BY <2>1, <2>2, <2>3
<1>4. /\ scans' \in Seq(SUBSET Path)
      /\ \A q \in DOMAIN tree : InSome(scans, q) =>
            InSome(scans', q) \/ q \in Tracked \/ (at' = "check" /\ obj'.path = q)
  <2>1. CASE L = {}
    <3>1. scans' = f
      BY <2>1 DEF Scan
    <3> QED
      BY <1>3, <2>1, <3>1
  <2>2. CASE L # {}
    <3>1. PICK p \in L :
             /\ scans' = Append(f, L \ {p})
             /\ Exists(p) => p \in Tracked \/ (at' = "check" /\ obj'.path = p)
      BY <2>2 DEF Scan, AddMonitorFolder
    <3> HIDE DEF f, L
    <3> DEFINE T == L \ {p}
    <3>2. T \in SUBSET Path /\ \A q \in L : q \in T \/ q = p
      BY <1>3
    <3>3. scans' = Append(f, T)
      BY <3>1
    <3> HIDE DEF T
    <3>4. Append(f, T) \in Seq(SUBSET Path) /\ \A q : InSome(Append(f, T), q) <=> InSome(f, q) \/ q \in T
      BY <1>3, <3>2, InAppend
    <3> QED
      BY <1>3, <3>1, <3>2, <3>3, <3>4 DEF Exists
  <2> QED
    BY <2>1, <2>2
<1> HIDE DEF f, L
<1>5. ~Dropping /\ ~Dropping' /\ ~Constructing /\ (Constructing' => at' = "check")
      /\ at' \in {"scan", "check"}
  BY <1>2 DEF Dropping, Constructing, Commands
<1>6. HandInv'
  BY <1>1, <1>2, <1>4, <1>5 DEF HandInv, Commands, Tracked
<1>7. FsInv' /\ WatchInv' /\ FollowInv' /\ \A p \in Tracked : Good(p)' => Good(p)
  <2>1. ASSUME NEW q \in DOMAIN tree, Coming(q) PROVE q \in Tracked \/ Coming(q)'
    <3>1. InSome(scans, q)
      BY <1>2, <1>5, <2>1 DEF Coming, InSome
    <3>2. InSome(scans', q) \/ q \in Tracked \/ (at' = "check" /\ obj'.path = q)
      BY <1>4, <3>1
    <3>3. InSome(scans', q) => Coming(q)'
      BY DEF Coming, InSome
    <3>4. at' = "check" /\ obj'.path = q => Coming(q)'
      BY DEF Coming, Constructing
    <3> QED
      BY <3>2, <3>3, <3>4
  <2> QED
    BY <1>1, <1>2, <1>5, <2>1, FrameTrack
<1>8. LookInv'
  BY <1>5 DEF LookInv, Commands
<1>9. ListInv'
  BY <1>1, <1>2, <1>5, <1>7, RestList DEF Commands
<1> QED
  BY <1>6, <1>7, <1>8, <1>9 DEF TrackInv

\* There is no such folder: the FontFolder is destroyed.
LEMMA WatchNone ==
    ASSUME TrackInv, IInv, AddWatch, ~Exists(obj.path)
    PROVE  TrackInv'
<1>1. FsInv /\ HandInv /\ WatchInv /\ LookInv /\ ListInv /\ FollowInv
  BY DEF TrackInv
<1>2. /\ UNCHANGED <<tree, fonts, watch, queue, folders, obj, added, scans, child, run, xpath, lapses, unseen, left>>
      /\ at = "watch" /\ at' = "sleep" /\ call' = [isAdd |-> FALSE, back |-> "unwatch"]
  BY DEF AddWatch, WatchOf, Keeps, Modify, history
<1>3. Constructing /\ ~Dropping /\ ~Constructing' /\ obj.path \notin Tracked
  BY <1>1, <1>2 DEF Constructing, Dropping, HandInv, Commands
<1>4. HandInv'
  BY <1>1, <1>2, <1>3 DEF HandInv, Commands, Tracked
<1>5. FsInv' /\ WatchInv' /\ FollowInv' /\ \A p \in Tracked : Good(p)' => Good(p)
  <2>1. ASSUME NEW q \in DOMAIN tree, Coming(q) PROVE Coming(q)'
    <3>1. obj.path # q
      BY DEF Exists
    <3> QED
      BY <1>2, <2>1, <3>1 DEF Coming
  <2> QED
    BY <1>1, <1>2, <1>3, <2>1, FrameTrack
<1>6. LookInv'
  BY <1>2 DEF LookInv, Commands
<1>7. ListInv'
  BY <1>1, <1>2, <1>5, RestList DEF Commands
<1> QED
  BY <1>4, <1>5, <1>6, <1>7 DEF TrackInv

\* The folder is watched, by another FontFolder if it was watched before.
LEMMA WatchSome ==
    ASSUME TrackInv, IInv, AddWatch, Exists(obj.path)
    PROVE  TrackInv'
<1>1. FsInv /\ HandInv /\ WatchInv /\ LookInv /\ ListInv /\ FollowInv
  BY DEF TrackInv
<1>2. PICK p : p = obj.path
  OBVIOUS
<1>3. PICK i : i = tree[p]
  OBVIOUS
<1>4. p \in DOMAIN tree /\ p \in Path /\ i \in Range(tree)
  BY <1>1, <1>2, <1>3 DEF FsInv, Exists, Range
<1>5. PICK wd \in Wd :
         /\ \/ i \in DOMAIN watch /\ watch[i] = wd
            \/ i \notin DOMAIN watch /\ wd \notin InUse
         /\ watch' = With(watch, i, wd) /\ folders' = With(folders, p, wd)
         /\ obj'.path = p /\ obj'.wd = wd /\ at' = "list" /\ UNCHANGED call
  <2>1. PICK d \in WatchOf(p) :
           /\ watch' = With(watch, i, d)
           /\ Keeps(d) =>
                 /\ folders' = With(folders, p, d)
                 /\ obj' = [obj EXCEPT !.wd = d]
                 /\ at' = "list" /\ UNCHANGED call
    BY <1>2, <1>3 DEF AddWatch
  <2>2. (i \in DOMAIN watch /\ d = watch[i]) \/ (i \notin DOMAIN watch /\ d \in Least(Wd \ InUse))
    BY <1>2, <1>3, <2>1 DEF WatchOf
  <2>3. d \in Wd /\ (i \notin DOMAIN watch => d \notin InUse)
    BY <1>1, <2>2 DEF FsInv, Least
  <2>4. Keeps(d)
    BY <2>3, PathAssumption DEF Keeps, NONE
  <2>5. obj = [path |-> obj.path, wd |-> obj.wd]
    BY DEF IInv, ChildInv
  <2>6. obj'.path = p /\ obj'.wd = d
    BY <1>2, <2>1, <2>4, <2>5
  <2> QED
    BY <2>1, <2>2, <2>3, <2>4, <2>6
<1>6. /\ UNCHANGED <<tree, fonts, queue, added, scans, child, run, xpath, lapses, unseen, left>>
      /\ at = "watch"
  BY DEF AddWatch, history
<1>7. /\ Constructing /\ ~Dropping /\ ~Constructing' /\ ~Dropping'
      /\ p \notin Tracked /\ run # "stopping"
  BY <1>1, <1>2, <1>5, <1>6 DEF Constructing, Dropping, HandInv, Commands
<1>8. /\ \A z : z \in DOMAIN watch' <=> z \in DOMAIN watch \/ z = i
      /\ watch'[i] = wd /\ \A z \in DOMAIN watch : watch'[z] = watch[z]
      /\ IsFcn(watch')
  <2>1. \A z \in DOMAIN watch : z # i => watch'[z] = watch[z]
    BY <1>5, WithFacts
  <2>2. \A z : z \in DOMAIN watch' <=> z \in DOMAIN watch \/ z = i
    BY <1>5, WithFacts
  <2>3. watch'[i] = wd /\ IsFcn(watch')
    BY <1>5, WithFacts
  <2>4. i \in DOMAIN watch => watch[i] = wd
    BY <1>5
  <2> QED
    BY <2>1, <2>2, <2>3, <2>4
<1>9. /\ \A z : z \in Tracked' <=> z \in Tracked \/ z = p
      /\ folders'[p] = wd /\ \A z \in Tracked : folders'[z] = folders[z]
      /\ IsFcn(folders')
  <2>1. \A z \in DOMAIN folders : z # p => folders'[z] = folders[z]
    BY <1>5, WithFacts
  <2>2. \A z : z \in DOMAIN folders' <=> z \in DOMAIN folders \/ z = p
    BY <1>5, WithFacts
  <2>3. folders'[p] = wd /\ IsFcn(folders')
    BY <1>5, WithFacts
  <2> QED
    BY <1>7, <2>1, <2>2, <2>3 DEF Tracked
<1>10. /\ i \in DOMAIN watch => \E q \in Tracked : folders[q] = wd
       /\ i \notin DOMAIN watch =>
             /\ \A z \in DOMAIN watch : watch[z] # wd
             /\ \A q \in Tracked : folders[q] # wd
             /\ \A k \in DOMAIN queue : queue[k].wd # wd
  <2>1. CASE i \in DOMAIN watch
    <3>1. wd \in Range(folders)
      BY <1>1, <1>5, <1>7, <2>1 DEF WatchInv, Range
    <3> QED
      BY <2>1, <3>1 DEF Range, Tracked
  <2>2. CASE i \notin DOMAIN watch
    BY <1>5, <2>2 DEF InUse, Range, Tracked
  <2> QED
    BY <2>1, <2>2
<1>11. HandInv'
  BY <1>1, <1>5, <1>6, <1>7, <1>9 DEF HandInv, Commands
<1>12. FsInv'
  <2>1. watch' \in [DOMAIN watch' -> Wd] /\ DOMAIN watch' \subseteq Range(tree)
    BY <1>1, <1>4, <1>8 DEF FsInv, IsFcn
  <2>2. IsInjective(watch')
    BY <1>1, <1>8, <1>10 DEF FsInv, IsInjective
  <2>3. folders' \in [Tracked' -> Wd] /\ Tracked' \subseteq Path
    BY <1>1, <1>4, <1>9 DEF FsInv, IsFcn, Tracked
  <2> QED
    BY <1>1, <1>6, <2>1, <2>2, <2>3 DEF FsInv
<1>13. WatchInv'
  <2>1. \A z \in DOMAIN watch' : \E q \in Tracked' : folders'[q] = watch'[z]
    <3>1. ASSUME NEW z \in DOMAIN watch PROVE \E q \in Tracked : folders[q] = watch[z]
      BY <1>1, <1>7, <3>1 DEF WatchInv, Range, Tracked
    <3> QED
      BY <1>8, <1>9, <3>1
  <2>2. Range(watch') \subseteq Range(folders')
    BY <2>1 DEF Range, Tracked
  <2>3. ASSUME NEW r \in Tracked', r \notin left, folders'[r] \in Range(watch')
        PROVE  r \in DOMAIN tree /\ tree[r] \in DOMAIN watch' /\ watch'[tree[r]] = folders'[r]
    <3>1. CASE r = p
      BY <1>3, <1>4, <1>8, <1>9, <3>1
    <3>2. CASE r # p
      <4>1. r \in Tracked /\ folders'[r] = folders[r]
        BY <1>9, <3>2
      <4>2. folders[r] \in Range(watch)
        <5>1. PICK z \in DOMAIN watch' : watch'[z] = folders[r]
          BY <2>3, <4>1 DEF Range
        <5>2. z = i /\ i \notin DOMAIN watch => FALSE
          BY <1>8, <1>10, <4>1, <5>1
        <5>3. z \in DOMAIN watch
          BY <1>8, <5>1, <5>2
        <5> QED
          BY <1>8, <5>1, <5>3 DEF Range
      <4>3. r \in DOMAIN tree /\ tree[r] \in DOMAIN watch /\ watch[tree[r]] = folders[r]
        BY <1>1, <2>3, <4>1, <4>2 DEF WatchInv, Exists
      <4> QED
        BY <1>8, <4>1, <4>3
    <3> QED
      BY <3>1, <3>2
  <2> QED
    BY <1>6, <1>7, <2>2, <2>3 DEF WatchInv, Exists
<1>14. ASSUME NEW r, Good(r)'
       PROVE  \/ r = p /\ i \notin DOMAIN watch
              \/ r \in Tracked /\ r # p /\ Good(r) /\ folders'[r] = folders[r]
  <2>1. /\ r \in Tracked' /\ r \in DOMAIN tree /\ tree[r] \in DOMAIN watch'
        /\ watch'[tree[r]] = folders'[r] /\ r \notin left
        /\ \A q \in Tracked' : q # r => folders'[q] # folders'[r]
    BY <1>6, <1>14 DEF Good, Watched, Exists
  <2>2. CASE r = p
    BY <1>7, <1>9, <1>10, <2>1, <2>2
  <2>3. CASE r # p
    <3>1. r \in Tracked /\ folders'[r] = folders[r]
      BY <1>9, <2>1, <2>3
    <3>2. tree[r] # i
      BY <1>1, <1>3, <1>4, <2>1, <2>3 DEF FsInv, IsInjective
    <3>3. tree[r] \in DOMAIN watch /\ watch[tree[r]] = folders[r]
      BY <1>8, <2>1, <3>1, <3>2
    <3>4. \A q \in Tracked \ {r} : folders[q] # folders[r]
      BY <1>9, <2>1, <3>1
    <3>5. Good(r)
      BY <1>7, <2>1, <3>1, <3>3, <3>4 DEF Good, Watched, Exists
    <3> QED
      BY <2>3, <3>1, <3>5
  <2> QED
    BY <2>2, <2>3
<1>15. ASSUME i \notin DOMAIN watch, NEW M, \A e \in M : e.wd = wd
       PROVE  Pending(queue, M) = {} /\ \A kind : Says(queue, M, kind)
  BY <1>10, <1>15 DEF Pending, Says
<1>16. LookInv'
  BY <1>5 DEF LookInv, Commands
<1>17. ListInv'
  <2> SUFFICES ASSUME "failed" \notin lapses, NEW r, Good(r)', r \notin unseen
               PROVE  Listing(r)'
    BY <1>6 DEF ListInv
  <2>1. HasFonts(r)' = HasFonts(r) /\ Truth(r)' = Truth(r)
    BY <1>6 DEF HasFonts, Exists, Truth
  <2>2. ~Modifying(r) /\ ~Modifying(r)' /\ (Lists(r) <=> r \in added) /\ (Lists(r)' <=> r \in added)
    BY <1>5, <1>6 DEF Modifying, Lists, Commands
  <2> DEFINE M == FontsEvents(folders'[r])
  <2>3. CASE r = p /\ i \notin DOMAIN watch
    <3>1. \A e \in M : e.wd = wd
      BY <1>9, <2>3 DEF FontsEvents
    <3> HIDE DEF M
    <3>2. Pending(queue, M) = {} /\ Says(queue, M, Truth(r)')
      BY <1>15, <2>3, <3>1
    <3>3. r \in added <=> HasFonts(r)
      BY <1>1, <1>2, <1>6, <2>3 DEF LookInv
    <3> QED
      BY <1>6, <2>1, <2>2, <3>2, <3>3 DEF Listing, M
  <2>4. CASE r \in Tracked /\ Good(r) /\ folders'[r] = folders[r]
    <3>1. Listing(r)
      BY <1>1, <1>6, <2>4 DEF ListInv
    <3> QED
      BY <1>6, <2>1, <2>2, <2>4, <3>1 DEF Listing
  <2> QED
    BY <1>14, <2>3, <2>4
<1>18. FollowInv'
  <2> SUFFICES ASSUME NEW r, NEW q \in DOMAIN tree,
                      Good(r)', Len(q) > 1, Front(q) = r, Follows(r, Last(q))
               PROVE  Following(r, q)'
    BY <1>6 DEF FollowInv
  <2> DEFINE M == FolderEvents(folders'[r], Last(q))
  <2>1. CASE r = p /\ i \notin DOMAIN watch
    <3>1. \A e \in M : e.wd = wd
      BY <1>9, <2>1 DEF FolderEvents
    <3> HIDE DEF M
    <3>2. Pending(queue, M) = {} /\ Says(queue, M, "add")
      BY <1>15, <2>1, <3>1
    <3>3. Coming(q)'
      BY <1>5, <2>1 DEF Coming
    <3> QED
      BY <1>6, <3>2, <3>3 DEF Following, M
  <2>2. CASE r \in Tracked /\ Good(r) /\ folders'[r] = folders[r]
    <3>1. Following(r, q)
      BY <1>1, <1>6, <1>7, <2>2 DEF FollowInv
    <3>2. Coming(q) => q \in Tracked' \/ Coming(q)'
      BY <1>2, <1>6, <1>9 DEF Coming
    <3>3. q \in Tracked => q \in Tracked'
      BY <1>9
    <3> QED
      BY <1>6, <2>2, <3>1, <3>2, <3>3 DEF Following
  <2> QED
    BY <1>14, <2>1, <2>2
<1> QED
  BY <1>11, <1>12, <1>13, <1>16, <1>17, <1>18 DEF TrackInv

\* So does inotify_add_watch, which takes the number that nothing refers to.
LEMMA WatchTrack == TrackInv /\ IInv /\ AddWatch => TrackInv'
  BY WatchNone, WatchSome

\* A FontFolder is taken out of m_fontMonitorFolders, and its watch is still there.
LEMMA DropTrack ==
    ASSUME FsInv, WatchInv, NEW x \in Tracked, RemoveMonitorFolder(x),
           UNCHANGED <<tree, fonts, watch, left>>, ~Dropping, queue' \in Seq(EventRecord)
    PROVE  /\ FsInv' /\ WatchInv' /\ Dropping' /\ ~Constructing'
           /\ obj'.path = x /\ obj'.wd \in Wd /\ at' = "sleep" /\ call'.back = "unwatch"
           /\ \A z : z \in Tracked' <=> z \in Tracked /\ z # x
           /\ \A z \in Tracked' : folders'[z] = folders[z]
           /\ \A p : Good(p)' => Good(p)
<1>1. /\ at' = "sleep" /\ obj'.path = x /\ obj'.wd = folders[x]
      /\ call'.isAdd = FALSE /\ call'.back = "unwatch"
  BY DEF RemoveMonitorFolder, Modify
<1>2. /\ \A z : z \in Tracked' <=> z \in Tracked /\ z # x
      /\ \A z \in Tracked' : folders'[z] = folders[z]
      /\ IsFcn(folders')
  <2>1. folders' = Without(folders, {x})
    BY DEF RemoveMonitorFolder, Erased
  <2>2. \A z : z \in DOMAIN folders' <=> z \in DOMAIN folders /\ z \notin {x}
    BY <2>1, WithoutFacts
  <2>3. \A z \in DOMAIN folders : z \notin {x} => folders'[z] = folders[z]
    BY <2>1, WithoutFacts
  <2>4. IsFcn(folders')
    BY <2>1, WithoutFacts
  <2> QED
    BY <2>2, <2>3, <2>4 DEF Tracked
<1>3. Dropping' /\ ~Constructing'
  BY <1>1 DEF Dropping, Constructing, Commands
<1>4. FsInv'
  <2>1. folders' \in [Tracked' -> Wd] /\ Tracked' \subseteq Path
    BY <1>2 DEF FsInv, IsFcn, Tracked
  <2> QED
    BY <2>1 DEF FsInv
<1>5. WatchInv'
  <2>1. Range(watch') \subseteq Range(folders') \cup {obj'.wd}
    <3>1. ASSUME NEW d \in Range(watch) PROVE d \in Range(folders') \/ d = obj'.wd
      <4>1. PICK z \in Tracked : folders[z] = d
        BY <3>1 DEF WatchInv, Range, Tracked
      <4> QED
        BY <1>1, <1>2, <4>1 DEF Range, Tracked
    <3> QED
      BY <3>1
  <2> QED
    BY <1>2, <1>3, <2>1 DEF WatchInv, Exists
<1>6. ASSUME NEW p, Good(p)' PROVE Good(p)
  <2>1. /\ p \in Tracked' /\ p \in DOMAIN tree /\ tree[p] \in DOMAIN watch
        /\ watch[tree[p]] = folders'[p] /\ p \notin left
        /\ \A q \in Tracked' \ {p} : folders'[q] # folders'[p]
        /\ obj'.wd # folders'[p]
    BY <1>3, <1>6 DEF Good, Watched, Exists
  <2>2. p \in Tracked /\ folders'[p] = folders[p]
    BY <1>2, <2>1
  <2>3. ASSUME NEW q \in Tracked \ {p} PROVE folders[q] # folders[p]
    BY <1>1, <1>2, <2>1, <2>2
  <2> QED
    BY <2>1, <2>2, <2>3 DEF Good, Watched, Exists
<1> QED
  BY <1>1, <1>2, <1>3, <1>4, <1>5, <1>6 DEF FsInv

\* So does Stop(), which takes the FontFolders out of the map one by one.
LEMMA StopTrack ==
    ASSUME TrackInv, IInv, StopFolder
    PROVE  TrackInv'
<1>1. FsInv /\ HandInv /\ WatchInv /\ LookInv /\ ListInv /\ FollowInv
  BY DEF TrackInv
<1>2. /\ UNCHANGED <<tree, fonts, watch, queue, added, scans, child, run, xpath, lapses, unseen, left>>
      /\ at = "stop" /\ run = "stopping"
  BY <1>1 DEF StopFolder, fs, history, HandInv
<1>3. ~Dropping /\ ~Constructing
  BY <1>2 DEF Dropping, Constructing, Commands
<1>4. CASE Tracked = {}
  <2>1. at' = "stopped" /\ UNCHANGED <<folders, obj, call>>
    BY <1>4 DEF StopFolder, Cleared
  <2>2. HandInv'
    BY <1>1, <1>2, <2>1 DEF HandInv, Constructing, Dropping, Commands, Tracked
  <2>3. FsInv' /\ WatchInv' /\ FollowInv' /\ \A p \in Tracked : Good(p)' => Good(p)
    BY <1>1, <1>2, <1>3, <1>4, <2>1, FrameTrack
  <2>4. LookInv'
    BY <2>1 DEF LookInv, Commands
  <2>5. ListInv'
    BY <1>4, <2>1 DEF ListInv, Tracked
  <2> QED
    BY <2>2, <2>3, <2>4, <2>5 DEF TrackInv
<1>5. CASE Tracked # {}
  <2>1. PICK x \in Tracked : RemoveMonitorFolder(x)
    BY <1>5 DEF StopFolder, Cleared
  <2>2. queue' \in Seq(EventRecord)
    BY <1>1, <1>2 DEF FsInv
  <2>3. /\ FsInv' /\ WatchInv' /\ Dropping' /\ ~Constructing'
        /\ obj'.path = x /\ obj'.wd \in Wd /\ at' = "sleep" /\ call'.back = "unwatch"
        /\ \A z : z \in Tracked' <=> z \in Tracked /\ z # x
        /\ \A z \in Tracked' : folders'[z] = folders[z]
        /\ \A p : Good(p)' => Good(p)
    BY <1>1, <1>2, <1>3, <2>1, <2>2, DropTrack
  <2>4. HandInv'
    BY <1>1, <1>2, <2>3 DEF HandInv, Commands
  <2>5. LookInv'
    BY <2>3 DEF LookInv
  <2>6. ListInv'
    <3> SUFFICES ASSUME "failed" \notin lapses, NEW p \in Tracked', Good(p)', p \notin unseen
                 PROVE  Listing(p)'
      BY <1>2 DEF ListInv
    <3>1. Listing(p) /\ folders'[p] = folders[p]
      BY <1>1, <1>2, <2>3 DEF ListInv
    <3>2. HasFonts(p)' = HasFonts(p) /\ Truth(p)' = Truth(p)
      BY <1>2 DEF HasFonts, Exists, Truth
    <3>3. ~Modifying(p) /\ ~Modifying(p)' /\ (Lists(p)' <=> Lists(p))
      BY <1>2, <2>3 DEF Modifying, Lists, Commands
    <3> QED
      BY <1>2, <3>1, <3>2, <3>3 DEF Listing
  <2>7. FollowInv'
    BY <1>2 DEF FollowInv
  <2> QED
    BY <2>3, <2>4, <2>5, <2>6, <2>7 DEF TrackInv
<1> QED
  BY <1>4, <1>5

\* What HandleEvent does with the event e.
Removes(e, x) ==
    \E p \in Tracked :
        e.what = "folder" /\ e.kind = "del" /\ folders[p] = e.wd /\ x = Append(p, e.name)

\* What one event of inotify does to the monitor: at most one FontFolder is taken out of the map.
LEMMA HandleEffect ==
    ASSUME FsInv, HandInv, WatchInv, HandleEvent, NEW e, e = Head(queue)
    PROVE  /\ ~Dropping /\ e \in EventRecord /\ queue' \in Seq(EventRecord)
           /\ UNCHANGED scans
           /\ \/ UNCHANGED folders /\ ~Dropping'
              \/ \E x \in Tracked : RemoveMonitorFolder(x) /\ Removes(e, x)
           /\ at' \in {"scan", "check", "sleep"}
           /\ at' = "scan" => UNCHANGED obj
           /\ at' = "check" => obj'.path \notin Tracked' /\ obj'.wd = NONE
           /\ at' = "sleep" => call'.back \in {"scan", "unwatch"} /\ obj'.wd \in Wd
           /\ \A p : Modifying(p)' =>
                 p \in Tracked /\ e.what = "file" /\ folders[p] = e.wd
<1>1. /\ at = "scan" /\ scans = <<>> /\ queue # <<>> /\ run # "stopping" /\ queue' = Tail(queue)
      /\ queue \in Seq(EventRecord)
  BY DEF HandleEvent, Reading, Handled, FsInv
<1>2. e \in EventRecord /\ queue' \in Seq(EventRecord)
  BY <1>1
<1>3. ~Dropping
  BY <1>1 DEF Dropping, Commands
<1>4. CASE UNCHANGED <<folders, scans, at, obj, call>>
  BY <1>1, <1>2, <1>3, <1>4 DEF Dropping, Commands, Modifying
<1>5. ASSUME NEW p0 \in Tracked, folders[p0] = e.wd, e.what = "folder", HandleFolderEvent(p0, e)
      PROVE  /\ UNCHANGED scans
             /\ \/ UNCHANGED folders /\ ~Dropping'
                \/ \E x \in Tracked : RemoveMonitorFolder(x) /\ Removes(e, x)
             /\ at' \in {"scan", "check", "sleep"}
             /\ at' = "scan" => UNCHANGED obj
             /\ at' = "check" => obj'.path \notin Tracked' /\ obj'.wd = NONE
             /\ at' = "sleep" => call'.back = "unwatch" /\ obj'.wd \in Wd
  <2>1. PICK x : x = Append(p0, e.name)
    OBVIOUS
  <2>2. CASE e.kind = "add"
    <3>1. \/ UNCHANGED <<folders, scans, at, obj, call>>
          \/ UNCHANGED <<folders, scans, call>> /\ at' = "check" /\ obj'.path \notin Tracked /\ obj'.wd = NONE
      <4>1. AddMonitorFolder(x, scans) \/ UNCHANGED <<folders, scans, at, obj, call>>
        BY <1>5, <2>1, <2>2 DEF HandleFolderEvent
      <4> QED
        BY <4>1 DEF AddMonitorFolder
    <3> QED
      BY <1>1, <3>1 DEF Dropping, Commands, Tracked
  <2>3. CASE e.kind # "add"
    <3>0. e.kind = "del"
      BY <1>2, <2>3 DEF EventRecord
    <3>1. RemoveMonitorFolder(x) /\ UNCHANGED scans
      BY <1>5, <2>1, <2>3 DEF HandleFolderEvent
    <3>2. Removes(e, x)
      BY <1>5, <2>1, <3>0 DEF Removes
    <3>3. CASE x \in Tracked
      <4>1. at' = "sleep" /\ call'.back = "unwatch" /\ obj'.wd = folders[x]
        BY <3>1, <3>3 DEF RemoveMonitorFolder, Modify
      <4>2. folders[x] \in Wd
        BY <3>3 DEF FsInv
      <4> QED
        BY <3>1, <3>2, <3>3, <4>1, <4>2
    <3>4. CASE x \notin Tracked
      <4>1. UNCHANGED <<at, obj, call>> /\ folders' = [z \in DOMAIN folders \ {x} |-> folders[z]]
        BY <3>1, <3>4 DEF RemoveMonitorFolder, Erased, Without
      <4>2. DOMAIN folders \ {x} = DOMAIN folders
        BY <3>4 DEF Tracked
      <4>3. folders' = [z \in DOMAIN folders |-> folders[z]]
        BY <4>1, <4>2
      <4>4. folders' = folders
        BY <4>3 DEF FsInv, Tracked
      <4> QED
        BY <1>1, <3>1, <4>1, <4>4 DEF Dropping, Commands
    <3> QED
      BY <3>3, <3>4
  <2> QED
    BY <2>2, <2>3
<1>6. ASSUME NEW p0 \in Tracked, folders[p0] = e.wd, e.what = "folder", HandleFolderEvent(p0, e)
      PROVE  \A p : ~Modifying(p)'
  BY <1>1, <1>5, <1>6 DEF Modifying, Commands
<1>7. ASSUME NEW p0 \in Tracked, folders[p0] = e.wd, e.what # "folder", HandleFontsDirEvent(p0, e)
      PROVE  /\ UNCHANGED <<folders, scans>> /\ ~Dropping'
             /\ \/ UNCHANGED <<at, obj, call>>
                \/ at' = "sleep" /\ call'.back = "scan" /\ obj'.wd \in Wd /\ obj'.path = p0
             /\ e.what = "file"
  <2>1. UNCHANGED <<folders, scans>> /\ e.what = "file"
    BY <1>2, <1>7 DEF HandleFontsDirEvent, EventRecord
  <2>2. \/ UNCHANGED <<at, obj, call>>
        \/ at' = "sleep" /\ call'.back = "scan" /\ obj'.wd = folders[p0] /\ obj'.path = p0
    BY <1>7 DEF HandleFontsDirEvent, Modify
  <2>3. folders[p0] \in Wd
    BY DEF FsInv
  <2> QED
    BY <1>1, <2>1, <2>2, <2>3 DEF Dropping, Commands
<1>8. \/ UNCHANGED <<folders, scans, at, obj, call>>
      \/ \E p0 \in Tracked : folders[p0] = e.wd /\ e.what = "folder" /\ HandleFolderEvent(p0, e)
      \/ \E p0 \in Tracked : folders[p0] = e.wd /\ e.what # "folder" /\ HandleFontsDirEvent(p0, e)
  BY DEF HandleEvent
<1>9. CASE \E p0 \in Tracked : folders[p0] = e.wd /\ e.what = "folder" /\ HandleFolderEvent(p0, e)
  <2>1. PICK p0 \in Tracked : folders[p0] = e.wd /\ e.what = "folder" /\ HandleFolderEvent(p0, e)
    BY <1>9
  <2>2. \A p : ~Modifying(p)'
    BY <1>6, <2>1
  <2> QED
    BY <1>2, <1>3, <1>5, <2>1, <2>2
<1>10. CASE \E p0 \in Tracked : folders[p0] = e.wd /\ e.what # "folder" /\ HandleFontsDirEvent(p0, e)
  <2>1. PICK p0 \in Tracked : folders[p0] = e.wd /\ e.what # "folder" /\ HandleFontsDirEvent(p0, e)
    BY <1>10
  <2>2. \A p : Modifying(p)' => p = p0
    BY <1>1, <1>7, <2>1 DEF Modifying, Commands
  <2> QED
    BY <1>1, <1>2, <1>3, <1>7, <2>1, <2>2
<1> QED
  BY <1>4, <1>8, <1>9, <1>10

\* The one FontFolder that has the descriptor of the event e gets it.
LEMMA HandleAdd ==
    ASSUME HandleEvent, NEW e, e = Head(queue), NEW p \in Tracked, folders[p] = e.wd,
           \A q \in Tracked \ {p} : folders[q] # folders[p],
           e.what = "folder", e.kind = "add", Follows(p, e.name),
           NEW x, x = Append(p, e.name)
    PROVE  x \in Tracked' \/ (at' = "check" /\ obj'.path = x)
<1>1. HandleFolderEvent(p, e)
  BY DEF HandleEvent
<1>2. AddMonitorFolder(x, scans)
  BY <1>1 DEF HandleFolderEvent
<1> QED
  BY <1>2 DEF AddMonitorFolder, Tracked

\* An event about fonts.dir that tells the truth calls ModifyX11FontPath for the folder of its watch.
LEMMA HandleFonts ==
    ASSUME HandleEvent, NEW e, e = Head(queue), NEW p \in Tracked, folders[p] = e.wd,
           \A q \in Tracked \ {p} : folders[q] # folders[p],
           e.what = "file", e.kind = "del" \/ HasFonts(p)
    PROVE  Modifying(p)' /\ (call'.isAdd <=> e.kind = "add")
<1>1. HandleFontsDirEvent(p, e)
  BY DEF HandleEvent
<1>2. Modify([path |-> p, wd |-> folders[p]], e.kind = "add", "scan")
  BY <1>1 DEF HandleFontsDirEvent
<1> QED
  BY <1>2 DEF Modify, Modifying, Commands

\* So does an event of inotify: what it was pending for is now in hand, or true.
LEMMA HandleTrack ==
    ASSUME TrackInv, IInv, HandleEvent
    PROVE  TrackInv'
<1>1. FsInv /\ HandInv /\ WatchInv /\ LookInv /\ ListInv /\ FollowInv
  BY DEF TrackInv
<1>2. PICK e : e = Head(queue)
  OBVIOUS
<1>3. /\ UNCHANGED <<tree, fonts, watch, added, child, run, xpath, lapses, unseen, left>>
      /\ at = "scan" /\ scans = <<>> /\ run # "stopping" /\ queue # <<>> /\ queue' = Tail(queue)
      /\ queue \in Seq(EventRecord)
  BY <1>1 DEF HandleEvent, Reading, Handled, history, FsInv
<1>4. /\ ~Dropping /\ e \in EventRecord /\ queue' \in Seq(EventRecord)
      /\ UNCHANGED scans
      /\ \/ UNCHANGED folders /\ ~Dropping'
         \/ \E x \in Tracked : RemoveMonitorFolder(x) /\ Removes(e, x)
      /\ at' \in {"scan", "check", "sleep"}
      /\ at' = "scan" => UNCHANGED obj
      /\ at' = "check" => obj'.path \notin Tracked' /\ obj'.wd = NONE
      /\ at' = "sleep" => call'.back \in {"scan", "unwatch"} /\ obj'.wd \in Wd
      /\ \A p : Modifying(p)' => p \in Tracked /\ e.what = "file" /\ folders[p] = e.wd
  BY <1>1, <1>2, HandleEffect
<1>5. /\ FsInv' /\ WatchInv'
      /\ Dropping' => obj'.path \notin Tracked'
      /\ \A p : p \in Tracked' => p \in Tracked /\ folders'[p] = folders[p]
      /\ \A p \in Tracked : p \in Tracked' \/ Removes(e, p)
      /\ \A p : Good(p)' => Good(p)
  <2>1. CASE UNCHANGED folders /\ ~Dropping'
    <3>1. FsInv' /\ WatchInv'
      BY <1>1, <1>3, <1>4, <2>1 DEF FsInv, WatchInv, Tracked, Exists
    <3>2. \A p : Good(p)' => Good(p)
      BY <1>3, <1>4, <2>1 DEF Good, Watched, Tracked, Exists
    <3> QED
      BY <2>1, <3>1, <3>2 DEF Tracked
  <2>2. CASE \E x \in Tracked : RemoveMonitorFolder(x) /\ Removes(e, x)
    <3>1. PICK x \in Tracked : RemoveMonitorFolder(x) /\ Removes(e, x)
      BY <2>2
    <3>2. /\ FsInv' /\ WatchInv' /\ Dropping' /\ obj'.path = x /\ at' = "sleep"
          /\ \A z : z \in Tracked' <=> z \in Tracked /\ z # x
          /\ \A z \in Tracked' : folders'[z] = folders[z]
          /\ \A p : Good(p)' => Good(p)
      BY <1>1, <1>3, <1>4, <3>1, DropTrack
    <3> QED
      BY <3>1, <3>2
  <2> QED
    BY <1>4, <2>1, <2>2

<1>6. \A p : ~Modifying(p) /\ ~Coming(p)
  BY <1>3 DEF Modifying, Coming, Constructing, Commands
<1>7. HandInv'
  <2>1. at' = "scan" => obj'.wd \in Wd \cup {NONE}
    BY <1>1, <1>4 DEF HandInv
  <2> QED
    BY <1>1, <1>3, <1>4, <1>5, <2>1 DEF HandInv, Constructing, Dropping, Commands
<1>8. LookInv'
  BY <1>4 DEF LookInv, Commands
<1>9. child'.state = "none"
  BY <1>3 DEF IInv, ChildInv, Commanding
<1>10. ASSUME NEW M, NEW kind, Says(queue, M, kind)
       PROVE  /\ Says(queue', M, kind)
              /\ Pending(queue', M) = {} =>
                    \/ e \notin M /\ Pending(queue, M) = {}
                    \/ e \in M /\ e.kind = kind
  BY <1>2, <1>3, <1>10, TakeEvent
<1>11. ListInv'
  <2> SUFFICES ASSUME "failed" \notin lapses, NEW p, Good(p)', p \in Tracked', p \notin unseen
               PROVE  Listing(p)'
    BY <1>3 DEF ListInv
  <2>1. p \in Tracked /\ folders'[p] = folders[p] /\ Good(p) /\ Listing(p)
    BY <1>1, <1>3, <1>5 DEF ListInv
  <2>2. \A q \in Tracked \ {p} : folders[q] # folders[p]
    BY <2>1 DEF Good, Watched
  <2>3. HasFonts(p)' = HasFonts(p) /\ Truth(p)' = Truth(p)
    BY <1>3 DEF HasFonts, Exists, Truth
  <2> DEFINE M == FontsEvents(folders[p])
  <2>4. M = FontsEvents(folders'[p]) /\ (e \in M <=> e.wd = folders[p] /\ e.what = "file")
    BY <1>4, <2>1 DEF FontsEvents
  <2>5. Says(queue, M, Truth(p)) /\ (Pending(queue, M) = {} => (Lists(p) <=> HasFonts(p)))
    BY <2>1 DEF Listing
  <2> HIDE DEF M
  <2>6. Says(queue', M, Truth(p)')
    BY <1>10, <2>3, <2>5
  <2>7. ASSUME Pending(queue', M) = {} PROVE Lists(p)' <=> HasFonts(p)
    <3>1. CASE e \notin M /\ Pending(queue, M) = {}
      <4>1. ~Modifying(p)'
        BY <1>4, <2>4, <3>1
      <4> QED
        BY <1>3, <1>6, <2>5, <3>1, <4>1 DEF Lists
    <3>2. CASE e \in M /\ e.kind = Truth(p)
      <4>1. (e.kind = "add" <=> HasFonts(p)) /\ (e.kind = "del" <=> ~HasFonts(p))
        BY <3>2 DEF Truth
      <4>2. Modifying(p)' /\ (call'.isAdd <=> e.kind = "add")
        BY <1>2, <2>1, <2>2, <2>4, <3>2, <4>1, HandleFonts
      <4> QED
        BY <4>1, <4>2 DEF Lists
    <3> QED
      BY <1>10, <2>5, <2>7, <3>1, <3>2
  <2> QED
    BY <1>9, <2>3, <2>4, <2>6, <2>7 DEF Listing
<1>12. FollowInv'
  <2> SUFFICES ASSUME NEW p \in Tracked', NEW q \in DOMAIN tree,
                      Good(p)', Len(q) > 1, Front(q) = p, Follows(p, Last(q))
               PROVE  Following(p, q)'
    BY <1>3 DEF FollowInv
  <2>1. p \in Tracked /\ folders'[p] = folders[p] /\ Good(p)
    BY <1>5
  <2>2. Following(p, q)
    BY <1>1, <1>3, <2>1 DEF FollowInv
  <2>3. \A r \in Tracked \ {p} : folders[r] # folders[p]
    BY <2>1 DEF Good, Watched
  <2>4. q \in Seq(STRING) /\ q # <<>> /\ q = Append(p, Last(q))
    <3>1. q \in Seq(STRING) /\ q # <<>>
      BY <1>1, PathFacts DEF FsInv
    <3>2. q = Append(Front(q), Last(q))
      BY <3>1, FrontFacts
    <3> QED
      BY <3>1, <3>2
  <2> DEFINE M == FolderEvents(folders[p], Last(q))
  <2>5. /\ M = FolderEvents(folders'[p], Last(q))
        /\ e \in M <=> e.wd = folders[p] /\ e.what = "folder" /\ e.name = Last(q)
    BY <1>4, <2>1 DEF FolderEvents
  <2>6. Says(queue, M, "add") /\ (Pending(queue, M) = {} => q \in Tracked)
    BY <1>6, <2>2 DEF Following
  <2> HIDE DEF M
  <2>7. Says(queue', M, "add")
    BY <1>10, <2>6
  <2>8. ASSUME Pending(queue', M) = {} PROVE q \in Tracked' \/ Coming(q)'
    <3>1. CASE e \notin M /\ Pending(queue, M) = {}
      <4>1. q \in Tracked
        BY <2>6, <3>1
      <4>2. ASSUME Removes(e, q) PROVE FALSE
        <5>1. PICK r \in Tracked : /\ e.what = "folder" /\ folders[r] = e.wd
                                   /\ q = Append(r, e.name)
          BY <4>2 DEF Removes
        <5>2. r = p /\ e.name = Last(q)
          <6> DEFINE S == STRING \cup Name
          <6>1. r \in Seq(STRING) /\ e.name \in S
            BY <1>1, <1>4, PathFacts DEF FsInv, EventRecord
          <6>2. r \in Seq(S)
            BY <6>1
          <6> HIDE DEF S
          <6>3. Front(Append(r, e.name)) = r /\ Last(Append(r, e.name)) = e.name
            BY <6>1, <6>2, AppendFacts
          <6> QED
            BY <5>1, <6>3
        <5> QED
          BY <2>5, <3>1, <5>1, <5>2
      <4> QED
        BY <1>5, <4>1, <4>2
    <3>2. CASE e \in M /\ e.kind = "add"
      <4>1. q = Append(p, e.name) /\ Follows(p, e.name)
        BY <2>4, <2>5, <3>2
      <4>2. q \in Tracked' \/ (at' = "check" /\ obj'.path = q)
        BY <1>2, <2>1, <2>3, <2>5, <3>2, <4>1, HandleAdd
      <4> QED
        BY <4>2 DEF Coming, Constructing
    <3> QED
      BY <1>10, <2>6, <2>8, <3>1, <3>2
  <2> QED
    BY <2>5, <2>7, <2>8 DEF Following
<1> QED
  BY <1>5, <1>7, <1>8, <1>11, <1>12 DEF TrackInv

\* Before Start() there is nothing to disagree about.
LEMMA InitTrack == Init => TrackInv
<1> SUFFICES ASSUME Init PROVE TrackInv
  OBVIOUS
<1>1. /\ DOMAIN watch = {} /\ DOMAIN folders = {} /\ queue = <<>> /\ scans = <<>>
      /\ at = "start" /\ run = "before" /\ obj = [path |-> Mount, wd |-> NONE] /\ xpath = {}
      /\ watch = <<>> /\ folders = <<>>
  BY DEF Init
<1>2. PICK T \in Trees : tree = CHOOSE f \in [T -> Inode] : IsInjective(f)
  BY DEF Init
<1>3. tree \in [T -> Inode] /\ IsInjective(tree)
  BY <1>2, TreesAssumption
<1>4. DOMAIN tree = T /\ T \subseteq Path /\ \A p \in T : \A k \in 1..Len(p) : SubSeq(p, 1, k) \in T
  BY <1>3, TreesAssumption
<1>5. fonts \subseteq Range(tree)
  <2>1. PICK U \in Trees : /\ tree = CHOOSE f \in [U -> Inode] : IsInjective(f)
                           /\ fonts \in {{}, {tree[p] : p \in U}}
    BY DEF Init
  <2>2. tree \in [U -> Inode]
    BY <2>1, TreesAssumption
  <2> QED
    BY <2>1, <2>2 DEF Range
<1>6. FsInv
  <2>1. queue \in Seq(EventRecord)
    BY <1>1
  <2>2. watch \in [DOMAIN watch -> Wd] /\ IsInjective(watch) /\ DOMAIN watch \subseteq Range(tree)
    BY <1>1 DEF IsInjective
  <2>3. folders \in [Tracked -> Wd] /\ Tracked \subseteq Path
    BY <1>1 DEF Tracked
  <2> QED
    BY <1>3, <1>4, <1>5, <2>1, <2>2, <2>3 DEF FsInv
<1>7. HandInv
  BY <1>1 DEF HandInv, Constructing, Dropping, Commands, Tracked
<1>8. WatchInv
  BY <1>1 DEF WatchInv, Tracked, Range
<1>9. LookInv /\ ListInv /\ FollowInv
  BY <1>1 DEF LookInv, ListInv, FollowInv, Tracked, Commands
<1> QED
  BY <1>6, <1>7, <1>8, <1>9 DEF TrackInv

\* The relation is inductive.
LEMMA StepTrack == TrackInv /\ IInv /\ [Next]_vars => TrackInv'
<1> SUFFICES ASSUME TrackInv, IInv, [Next]_vars PROVE TrackInv'
  OBVIOUS
<1>1. CASE UNCHANGED vars
  <2>1. UNCHANGED <<tree, fonts, watch, queue, folders, added, obj, scans, at, call, child, run,
                    xpath, lapses, unseen, left>>
    BY <1>1 DEF vars, fs, monitor, history
  <2>2. (Dropping' <=> Dropping) /\ (Constructing' <=> Constructing) /\ Tracked' = Tracked
    BY <2>1 DEF Dropping, Constructing, Tracked
  <2>3. FsInv' /\ HandInv' /\ WatchInv'
    BY <2>1, <2>2 DEF TrackInv, FsInv, HandInv, WatchInv, Exists
  <2>4. LookInv'
    BY <2>1 DEF TrackInv, LookInv, HasFonts, Exists
  <2>5. \A p : Good(p)' <=> Good(p)
    BY <2>1, <2>2 DEF Good, Watched, Exists
  <2>6. ListInv'
    <3>1. \A p : Listing(p)' <=> Listing(p)
      BY <2>1 DEF Listing, Says, Pending, Truth, Lists, Modifying, HasFonts, Exists
    <3> QED
      BY <2>1, <2>2, <2>5, <3>1 DEF TrackInv, ListInv
  <2>7. FollowInv'
    <3>1. \A p, q : Following(p, q)' <=> Following(p, q)
      BY <2>1, <2>2 DEF Following, Says, Pending, Coming
    <3> QED
      BY <2>1, <2>2, <2>5, <3>1 DEF TrackInv, FollowInv
  <2> QED
    BY <2>3, <2>4, <2>6, <2>7 DEF TrackInv
<1>2. CASE Next
  BY <1>2, CommandTrack, CheckTrack, WatchTrack, ListTrack, ScanTrack, UnwatchTrack, ThreadTrack,
     HandleTrack, StopTrack, ChildTrack, TreeTrack DEF Next, MonitorStep
<1> QED
  BY <1>1, <1>2

\* It holds of every state.
LEMMA AlwaysTrack == Spec => [](TrackInv /\ IInv)
<1>1. Init => TrackInv /\ IInv
  BY InitTrack, InitInv
<1>2. TrackInv /\ IInv /\ [Next]_vars => (TrackInv /\ IInv)'
  BY StepTrack, StepInv
<1> QED
  BY <1>1, <1>2, PTL DEF Spec

-----------------------------------------------------------------------------
\* The types of the variables.
THEOREM TypeCorrect == Spec => []TypeOK
<1>1. TrackInv /\ IInv => TypeOK
  <2> SUFFICES ASSUME TrackInv, IInv PROVE TypeOK
    OBVIOUS
  <2>1. FsInv /\ HandInv /\ ChildInv
    BY DEF TrackInv, IInv
  <2>2. /\ DOMAIN tree \subseteq Path /\ IsInjective(tree) /\ fonts \subseteq Range(tree)
        /\ DOMAIN watch \subseteq Range(tree) /\ Tracked \subseteq Path /\ xpath \subseteq Path
    BY <2>1 DEF FsInv, HandInv
  <2>3. Range(tree) \subseteq Inode /\ Range(watch) \subseteq Wd /\ Range(folders) \subseteq Wd
    BY <2>1 DEF FsInv, Range, Tracked
  <2>4. queue \in Seq([wd : Wd, kind : {"add", "del"}, what : {"folder", "file"}, name : Name])
    BY <2>1 DEF FsInv, EventRecord
  <2>5. obj.wd \in Wd \cup {NONE} /\ run \in {"before", "running", "returned", "stopping"}
        /\ at \in {"start", "scan", "check", "watch", "list", "sleep", "setpgid", "wait",
                   "unwatch", "stop", "stopped", "aborted"}
    BY <2>1 DEF HandInv, Commands
  <2>6. /\ call \in [isAdd : BOOLEAN, back : {"scan", "watch", "unwatch"}]
        /\ child.state \in {"none", "forked", "grouped", "ok", "refused", "killed", "reaped"}
        /\ child.pgrp \in {"WSLGd", "own"}
    BY <2>1 DEF ChildInv, ChildState
  <2>7. added \subseteq Tracked \cup {obj.path}
    BY DEF IInv, HeldInv, Held
  <2> QED
    BY <2>2, <2>3, <2>4, <2>5, <2>6, <2>7 DEF TypeOK
<1> QED
  BY <1>1, AlwaysTrack, PTL

\* A monitor that has caught up tracks every subfolder, that is to be followed, of a
\* folder with a good watch: nothing that came between the look, the watch, the
\* listing and the events is lost (FontMonitor.cpp:30, :148).
THEOREM NothingIsMissed == Spec => []NothingMissed
<1>1. TrackInv => NothingMissed
  <2> SUFFICES ASSUME TrackInv, Idle, NEW q \in DOMAIN tree \ Roots, Watched(Front(q)),
                      Front(q) \notin left, Follows(Front(q), Last(q))
               PROVE  q \in Tracked
    BY DEF NothingMissed
  <2>1. FsInv /\ HandInv /\ FollowInv
    BY DEF TrackInv
  <2>2. at = "scan" /\ scans = <<>> /\ queue = <<>> /\ run # "stopping"
    BY <2>1 DEF Idle, Reading, HandInv, Commands
  <2>3. Good(Front(q)) /\ Front(q) \in Tracked
    BY <2>2 DEF Good, Watched, Dropping, Commands
  <2>4. Len(q) > 1
    <3>1. q \in Seq(STRING) /\ q # <<>> /\ Front(q) # <<>>
      BY <2>1, <2>3, PathFacts DEF FsInv
    <3>2. Front(q) \in Seq(STRING) /\ Len(q) \in Nat \ {0} /\ Len(Front(q)) = Len(q) - 1
      BY <3>1, FrontFacts
    <3>3. Len(Front(q)) # 0
      BY <3>1, <3>2, EmptySeq
    <3> QED
      BY <3>2, <3>3
  <2>5. Following(Front(q), q)
    BY <2>1, <2>2, <2>3, <2>4 DEF FollowInv
  <2>6. \A M : Pending(queue, M) = {}
    BY <2>2 DEF Pending
  <2>7. ~Coming(q)
    BY <2>2 DEF Coming, Constructing, Commands
  <2> QED
    BY <2>5, <2>6, <2>7 DEF Following
<1> QED
  BY <1>1, AlwaysTrack, PTL

\* A monitor that has caught up has a folder with a good watch in the X font path
\* just if the folder holds a fonts.dir, but for what came or went between the look
\* for it and the watch (FontMonitor.cpp:24, :30).
THEOREM ListsExactly == Spec => []ListedExact
<1>1. TrackInv /\ IInv /\ BeliefIsTrue => ListedExact
  <2> SUFFICES ASSUME TrackInv, IInv, BeliefIsTrue, Idle,
                      lapses \cap {"failed", "restarted"} = {},
                      NEW p \in Path \ (unseen \cup left), Watched(p)
               PROVE  p \in xpath <=> HasFonts(p)
    BY DEF ListedExact
  <2>1. at = "scan" /\ queue = <<>>
    BY DEF Idle, Reading
  <2>2. Good(p) /\ p \in Tracked
    BY <2>1 DEF Good, Watched, Dropping, Commands
  <2>3. Listing(p)
    BY <2>1, <2>2 DEF TrackInv, ListInv
  <2>4. \A M : Pending(queue, M) = {}
    BY <2>1 DEF Pending
  <2>5. p \in added <=> HasFonts(p)
    BY <2>1, <2>3, <2>4 DEF Listing, Lists, Modifying, Commands
  <2>6. child.state = "none"
    BY <2>1 DEF IInv, ChildInv, Commanding
  <2>7. xpath = added
    BY <2>6 DEF BeliefIsTrue, IInv, BeliefInv
  <2> QED
    BY <2>5, <2>7
<1> QED
  BY <1>1, AlwaysTrack, BeliefHolds, PTL

-----------------------------------------------------------------------------
(* A monitor that can follow each change before the next. *)

\* No folder was renamed and the tree changed only when the monitor was at rest.
Calm == lapses \cap {"moved", "busy"} = {} /\ at # "aborted" /\ run # "stopping"

\* A FontFolder for p is wanted: its parent's watch is good, and p is followed.
Wanted(p) == Watched(Front(p)) /\ Follows(Front(p), Last(p))

\* p was removed, and its parent's watch has reported it.
Gone(p) ==
    /\ ~Exists(p) /\ queue # <<>>
    /\ Head(queue).what = "folder" /\ Head(queue).kind = "del"
    /\ Head(queue).wd = folders[Front(p)] /\ Head(queue).name = Last(p)

\* A path that a FontFolder will be constructed for, or is.
Expected(q) == InSome(scans, q) \/ (Constructing /\ obj.path = q)

\* Each FontFolder has a descriptor of its own.
OwnInv ==
    /\ left = {} /\ IsInjective(folders)
    /\ Dropping => obj.wd \notin Range(folders)

\* There is one change at a time.
RestInv ==
    /\ Len(queue) <= 1
    /\ queue # <<>> => Reading
    /\ at = "start" => scans = <<>>

\* What is tracked or expected is what is there below a root.
RootInv ==
    /\ \A p \in Tracked \ Roots : Wanted(p) /\ (Watched(p) \/ Gone(p))
    /\ \A q \in Path : Expected(q) => q \in Roots \/ (Exists(q) /\ Wanted(q))
    /\ at = "list" => Watched(obj.path)

\* The event that is pending says what is the case.
TellInv ==
    queue # <<>> /\ Head(queue).what = "folder" =>
        \A r \in Tracked :
            folders[r] = Head(queue).wd =>
                /\ Watched(r)
                /\ Head(queue).kind = "add" <=> Exists(Append(r, Head(queue).name))

CalmInv == Calm => OwnInv /\ RestInv /\ RootInv /\ TellInv

\* A step that leaves tree, watches, events and map alone keeps CalmInv if it expects only what is wanted.
LEMMA FrameCalm ==
    ASSUME CalmInv, Calm, UNCHANGED <<tree, watch, queue, folders, left>>,
           Dropping' => obj'.wd \notin Range(folders),
           \A q \in Path : Expected(q)' => Expected(q) \/ q \in Roots \/ (Exists(q) /\ Wanted(q)),
           at' = "list" => at = "list" /\ obj'.path = obj.path,
           queue # <<>> => Reading', at' = "start" => at = "start" /\ UNCHANGED scans
    PROVE  CalmInv'
<1>1. OwnInv /\ RestInv /\ RootInv /\ TellInv
  BY DEF CalmInv
<1>2. /\ Tracked' = Tracked
      /\ \A p : (Exists(p)' <=> Exists(p)) /\ (Watched(p)' <=> Watched(p))
  BY DEF Tracked, Exists, Watched
<1>3. \A p : (Wanted(p)' <=> Wanted(p)) /\ (Gone(p)' <=> Gone(p))
  BY <1>2 DEF Wanted, Gone
<1>4. OwnInv' /\ RestInv'
  BY <1>1 DEF OwnInv, RestInv
<1>5. RootInv'
  BY <1>1, <1>2, <1>3 DEF RootInv
<1>6. TellInv'
  BY <1>1, <1>2 DEF TellInv
<1> QED
  BY <1>4, <1>5, <1>6 DEF CalmInv

\* The commands.
LEMMA CommandCalm ==
    ASSUME IInv, CalmInv, Fork \/ ForkFails \/ SetGroup \/ WaitChild
    PROVE  CalmInv'
<1> SUFFICES ASSUME Calm' PROVE CalmInv'
  BY DEF CalmInv
<1>1. /\ UNCHANGED <<tree, watch, queue, folders, left, obj, scans, call, run>>
      /\ at \in Commands /\ lapses \subseteq lapses'
      /\ at' \in {"setpgid", "wait", call.back}
  BY DEF Fork, ForkFails, SetGroup, WaitChild, Fault, fs, history, Commands
<1>2. call.back \in {"scan", "watch", "unwatch"}
  BY DEF IInv, ChildInv
<1>3. Calm
  BY <1>1 DEF Calm, Commands
<1>4. OwnInv /\ RestInv
  BY <1>3 DEF CalmInv
<1>5. Dropping' => Dropping
  BY <1>1, <1>2 DEF Dropping, Commands
<1>6. Constructing' => Constructing
  BY <1>1, <1>2 DEF Constructing, Commands
<1>7. queue = <<>>
  BY <1>1, <1>4 DEF RestInv, Reading, Commands
<1>8. Dropping' => obj'.wd \notin Range(folders)
  BY <1>1, <1>4, <1>5 DEF OwnInv
<1>9. \A q : Expected(q)' => Expected(q)
  BY <1>1, <1>6 DEF Expected
<1>10. at' # "list" /\ at' # "start"
  BY <1>1, <1>2
<1> QED
  BY <1>1, <1>3, <1>7, <1>8, <1>9, <1>10, FrameCalm

\* xset and the X server disturb nothing of it.
LEMMA ChildCalm ==
    ASSUME CalmInv, ChildStep \/ ChildKilled \/ XRestarts
    PROVE  CalmInv'
<1> SUFFICES ASSUME Calm' PROVE CalmInv'
  BY DEF CalmInv
<1>1. /\ UNCHANGED <<tree, watch, queue, folders, left, obj, scans, call, run, at>>
      /\ lapses \subseteq lapses'
  BY DEF ChildStep, ChildSetsGroup, ChildRuns, RunReaps, ChildKilled, XRestarts, Fault,
         fs, monitor, history
<1>2. Calm
  BY <1>1 DEF Calm
<1>3. OwnInv /\ RestInv
  BY <1>2 DEF CalmInv
<1>4. (Dropping' <=> Dropping) /\ (Reading' <=> Reading) /\ \A q : Expected(q)' <=> Expected(q)
  BY <1>1 DEF Dropping, Reading, Expected, Constructing
<1> QED
  BY <1>1, <1>2, <1>3, <1>4, FrameCalm DEF OwnInv, RestInv

\* The thread begins and ends.
LEMMA ThreadCalm ==
    ASSUME TrackInv, CalmInv, Start \/ ThreadStarts \/ Cancelled \/ RunReturns
    PROVE  CalmInv'
<1> SUFFICES ASSUME Calm' PROVE CalmInv'
  BY DEF CalmInv
<1>1. UNCHANGED <<tree, watch, queue, folders, left, obj, call>> /\ UNCHANGED lapses
  BY DEF Start, ThreadStarts, Cancelled, RunReturns, fs, monitor, history
<1>2. CASE Start
  <2>1. at = "start" /\ at' \in {"scan", "stopped"} /\ UNCHANGED run
    BY <1>2 DEF Start
  <2>2. Calm
    BY <1>1, <2>1 DEF Calm
  <2>3. OwnInv /\ RestInv /\ scans = <<>> /\ queue = <<>>
    BY <2>1, <2>2 DEF CalmInv, RestInv, Reading
  <2>4. scans' = scans \/ scans' = <<Roots \cap DOMAIN tree>>
    BY <1>2 DEF Start
  <2>5. ASSUME NEW q \in Path, Expected(q)' PROVE q \in Roots
    <3>1. InSome(scans', q)
      BY <2>1, <2>5 DEF Expected, Constructing, Commands
    <3>2. ~InSome(scans, q)
      BY <2>3 DEF InSome
    <3>3. scans' = <<Roots \cap DOMAIN tree>>
      BY <2>4, <3>1, <3>2
    <3> QED
      BY <3>1, <3>3 DEF InSome
  <2>6. ~Dropping'
    BY <2>1 DEF Dropping, Commands
  <2> QED
    BY <1>1, <2>1, <2>2, <2>3, <2>5, <2>6, FrameCalm
<1>3. CASE ThreadStarts \/ RunReturns
  <2>1. UNCHANGED <<at, scans>> /\ (run = "before" \/ run = "running") /\ run' \in {"running", "returned"}
    BY <1>3 DEF ThreadStarts, RunReturns, monitor
  <2>2. Calm
    BY <1>1, <2>1 DEF Calm
  <2>3. OwnInv /\ RestInv
    BY <2>2 DEF CalmInv
  <2>4. (Dropping' <=> Dropping) /\ (Reading => Reading') /\ \A q : Expected(q)' <=> Expected(q)
    BY <1>1, <2>1 DEF Dropping, Reading, Expected, Constructing
  <2> QED
    BY <1>1, <2>1, <2>2, <2>3, <2>4, FrameCalm DEF OwnInv, RestInv
<1>4. CASE Cancelled
  BY <1>4 DEF Cancelled, Calm
<1> QED
  BY <1>2, <1>3, <1>4

\* fonts.dir is looked for.
LEMMA CheckCalm ==
    ASSUME TrackInv, CalmInv, CheckFolder
    PROVE  CalmInv'
<1> SUFFICES ASSUME Calm' PROVE CalmInv'
  BY DEF CalmInv
<1>1. UNCHANGED <<tree, watch, queue, folders, lapses, run, scans>> /\ at = "check"
  BY DEF CheckFolder, fs
<1>2. \/ at' = "watch" /\ obj' = obj
      \/ at' = "sleep" /\ call'.back = "watch" /\ obj' = obj
  BY DEF CheckFolder, Modify
<1>3. Calm
  BY <1>1 DEF Calm
<1>4. OwnInv /\ RestInv
  BY <1>3 DEF CalmInv
<1>5. queue = <<>>
  BY <1>1, <1>4 DEF RestInv, Reading
<1>6. UNCHANGED left
  BY <1>4 DEF OwnInv, CheckFolder
<1>7. ~Dropping' /\ \A q : Expected(q)' <=> Expected(q)
  BY <1>1, <1>2 DEF Dropping, Expected, Constructing, Commands
<1>8. at' # "list" /\ at' # "start"
  BY <1>2
<1> QED
  BY <1>1, <1>3, <1>5, <1>6, <1>7, <1>8, FrameCalm

\* The subfolders there are already: each is wanted.
LEMMA ListCalm ==
    ASSUME TrackInv, CalmInv, ListFolder
    PROVE  CalmInv'
<1> SUFFICES ASSUME Calm' PROVE CalmInv'
  BY DEF CalmInv
<1>1. /\ UNCHANGED <<tree, watch, queue, folders, left, obj, lapses, run>>
      /\ at = "list" /\ at' = "scan" /\ scans' = Append(scans, Listed(obj.path))
  BY DEF ListFolder, fs, history
<1>2. Calm
  BY <1>1 DEF Calm
<1>3. OwnInv /\ RestInv /\ RootInv
  BY <1>2 DEF CalmInv
<1>4. queue = <<>>
  BY <1>1, <1>3 DEF RestInv, Reading
<1>5. PICK T : T = Listed(obj.path)
  OBVIOUS
<1>6. scans \in Seq(SUBSET Path) /\ T \in SUBSET Path
  BY <1>5 DEF TrackInv, HandInv, FsInv, Listed, Subfolders
<1>7. ASSUME NEW q \in Path, Expected(q)' PROVE Expected(q) \/ (Exists(q) /\ Wanted(q))
  <2>1. InSome(Append(scans, T), q)
    BY <1>1, <1>5, <1>7 DEF Expected, Constructing, Commands
  <2>2. InSome(scans, q) \/ q \in T
    BY <1>6, <2>1, InAppend
  <2>3. ASSUME q \in T PROVE Exists(q) /\ Wanted(q)
    BY <1>1, <1>3, <1>5, <2>3 DEF Listed, Subfolders, Exists, Wanted, RootInv
  <2> QED
    BY <2>2, <2>3 DEF Expected
<1>8. ~Dropping'
  BY <1>1 DEF Dropping, Commands
<1> QED
  BY <1>1, <1>2, <1>4, <1>7, <1>8, FrameCalm

\* A visit expects only subfolders that are there, of a folder whose watch is good.
LEMMA ScanCalm ==
    ASSUME TrackInv, CalmInv, Scan
    PROVE  CalmInv'
<1> SUFFICES ASSUME Calm' PROVE CalmInv'
  BY DEF CalmInv
<1>1. /\ UNCHANGED <<tree, watch, queue, folders, left, lapses, run>>
      /\ at = "scan" /\ scans # <<>> /\ at' \in {"scan", "check"}
  BY DEF Scan, AddMonitorFolder, fs, history
<1>2. Calm
  BY <1>1 DEF Calm
<1>3. OwnInv /\ RestInv
  BY <1>2 DEF CalmInv
<1>4. queue = <<>>
  BY <1>1, <1>3 DEF RestInv, Reading
<1> DEFINE f == Front(scans)
           L == Last(scans)
<1>5. f \in Seq(SUBSET Path) /\ L \in SUBSET Path /\ \A q : InSome(scans, q) <=> InSome(f, q) \/ q \in L
  <2>1. f \in Seq(SUBSET Path) /\ L \in SUBSET Path
    BY <1>1, FrontFacts DEF TrackInv, HandInv
  <2>2. scans = Append(f, L)
    BY <1>1, FrontFacts DEF TrackInv, HandInv
  <2> HIDE DEF f, L
  <2>3. \A q : InSome(Append(f, L), q) <=> InSome(f, q) \/ q \in L
    BY <2>1, InAppend
  <2> QED
    BY <2>1, <2>2, <2>3
<1>6. ASSUME NEW q, Expected(q)' PROVE InSome(scans, q)
  <2>1. InSome(scans', q) \/ (at' = "check" /\ obj'.path = q)
    BY <1>1, <1>6 DEF Expected, Constructing, Commands
  <2>2. CASE L = {}
    <3>1. scans' = f /\ at' = at
      BY <2>2 DEF Scan
    <3> QED
      BY <1>1, <1>5, <2>1, <3>1
  <2>3. CASE L # {}
    <3>1. PICK p \in L : scans' = Append(f, L \ {p}) /\ (at' = "check" => obj'.path = p)
      BY <1>1, <2>3 DEF Scan, AddMonitorFolder
    <3> HIDE DEF f, L
    <3>2. PICK T : T = L \ {p}
      OBVIOUS
    <3>3. T \in SUBSET Path /\ \A r \in T : r \in L
      BY <1>5, <3>2
    <3>4. \A r : InSome(Append(f, T), r) <=> InSome(f, r) \/ r \in T
      BY <1>5, <3>3, InAppend
    <3>5. InSome(scans', q) => InSome(f, q) \/ q \in T
      BY <3>1, <3>2, <3>4
    <3> QED
      BY <1>5, <2>1, <3>1, <3>3, <3>5
  <2> QED
    BY <2>2, <2>3
<1>7. ~Dropping'
  BY <1>1 DEF Dropping, Commands
<1> QED
  BY <1>1, <1>2, <1>4, <1>6, <1>7, FrameCalm DEF Expected

\* The FontFolder whose watch is taken away had its descriptor for itself.
LEMMA UnwatchCalm ==
    ASSUME TrackInv, CalmInv, Unwatch
    PROVE  CalmInv'
<1> SUFFICES ASSUME Calm' PROVE CalmInv'
  BY DEF CalmInv
<1>1. /\ UNCHANGED <<tree, queue, folders, left, lapses, run, scans, obj>>
      /\ at = "unwatch" /\ at' \in {"stop", "scan"}
      /\ watch' = Without(watch, {i \in DOMAIN watch : watch[i] = obj.wd})
  BY DEF Unwatch, history
<1>2. Calm
  BY <1>1 DEF Calm
<1>3. OwnInv /\ RestInv /\ RootInv
  BY <1>2 DEF CalmInv
<1>4. queue = <<>> /\ obj.wd \notin Range(folders)
  BY <1>1, <1>3 DEF RestInv, OwnInv, Reading, Dropping
<1>5. ASSUME NEW p, Watched(p) PROVE Watched(p)'
  <2> DEFINE D == {i \in DOMAIN watch : watch[i] = obj.wd}
  <2>1. watch[tree[p]] # obj.wd /\ tree[p] \in DOMAIN watch
    BY <1>4, <1>5 DEF Watched, Range, Tracked
  <2>2. tree[p] \notin D
    BY <2>1
  <2> HIDE DEF D
  <2>3. watch' = Without(watch, D)
    BY <1>1 DEF D
  <2>4. tree[p] \in DOMAIN watch' /\ watch'[tree[p]] = watch[tree[p]]
    BY <2>1, <2>2, <2>3, WithoutFacts
  <2> QED
    BY <1>1, <1>5, <2>4 DEF Watched, Tracked, Exists
<1>6. ASSUME NEW p, Wanted(p) PROVE Wanted(p)'
  BY <1>5, <1>6 DEF Wanted
<1>7. ASSUME NEW p, Gone(p) PROVE FALSE
  BY <1>4, <1>7 DEF Gone
<1>8. ~Dropping' /\ at' # "list" /\ at' # "start" /\ \A q : Expected(q)' => Expected(q)
  BY <1>1 DEF Dropping, Expected, Constructing, Commands
<1>9. OwnInv' /\ RestInv' /\ TellInv'
  BY <1>1, <1>3, <1>4, <1>8 DEF OwnInv, RestInv, TellInv
<1>10. RootInv'
  BY <1>1, <1>3, <1>5, <1>6, <1>7, <1>8 DEF RootInv, Tracked, Exists
<1> QED
  BY <1>9, <1>10 DEF CalmInv

\* A FontFolder with a watch that is new is put in m_fontMonitorFolders.
LEMMA WatchCalm ==
    ASSUME TrackInv, IInv, CalmInv, AddWatch
    PROVE  CalmInv'
<1> SUFFICES ASSUME Calm' PROVE CalmInv'
  BY DEF CalmInv
<1>1. UNCHANGED <<tree, queue, left, lapses, run, scans>> /\ at = "watch" /\ at' \in {"list", "sleep"}
  BY DEF AddWatch, Modify, history
<1>2. Calm
  BY <1>1 DEF Calm
<1>3. OwnInv /\ RestInv /\ RootInv
  BY <1>2 DEF CalmInv
<1>4. FsInv /\ HandInv /\ WatchInv
  BY DEF TrackInv
<1>5. queue = <<>> /\ ~Dropping /\ Constructing /\ obj.path \notin Tracked /\ obj.wd = NONE
  BY <1>1, <1>3, <1>4 DEF RestInv, Reading, Dropping, Constructing, Commands, HandInv
<1>6. ~Constructing'
  <2>1. at' = "sleep" => call'.back = "unwatch"
    BY DEF AddWatch, Modify
  <2> QED
    BY <1>1, <2>1 DEF Constructing, Commands
<1>7. CASE ~Exists(obj.path)
  <2>1. /\ UNCHANGED <<watch, folders>> /\ at' = "sleep" /\ obj' = obj
    BY <1>7 DEF AddWatch, WatchOf, Keeps, Modify
  <2>2. obj'.wd \notin Range(folders)
    <3>1. NONE \notin Wd
      BY PathAssumption DEF NONE
    <3> QED
      BY <1>4, <1>5, <2>1, <3>1 DEF FsInv, Range, Tracked
  <2>3. \A q : Expected(q)' => Expected(q)
    BY <1>1, <1>6 DEF Expected
  <2> QED
    BY <1>1, <1>2, <1>5, <2>1, <2>2, <2>3, FrameCalm
<1>8. CASE Exists(obj.path)
  <2>1. PICK x : x = obj.path
    OBVIOUS
  <2>2. PICK i : i = tree[x]
    OBVIOUS
  <2>3. x \in DOMAIN tree /\ x \in Path /\ x \notin Tracked
    BY <1>4, <1>5, <1>8, <2>1 DEF Exists, FsInv
  <2>4. ASSUME i \in DOMAIN watch PROVE FALSE
    <3>1. PICK z \in Tracked : folders[z] = watch[i]
      BY <1>4, <1>5, <2>4 DEF WatchInv, Range, Tracked
    <3>2. z \in DOMAIN tree /\ tree[z] \in DOMAIN watch /\ watch[tree[z]] = watch[i]
      BY <1>3, <1>4, <2>4, <3>1 DEF WatchInv, OwnInv, Range, Exists
    <3>3. tree[z] = i
      BY <1>4, <2>4, <3>2 DEF FsInv, IsInjective
    <3>4. z = x
      BY <1>4, <2>2, <2>3, <3>2, <3>3 DEF FsInv, IsInjective
    <3> QED
      BY <2>3, <3>1, <3>4
  <2>5. PICK wd \in Least(Wd \ InUse) :
           /\ watch' = With(watch, i, wd)
           /\ folders' = With(folders, x, wd)
           /\ at' = "list" /\ obj'.path = x
    <3>1. WatchOf(obj.path) = Least(Wd \ InUse)
      BY <1>8, <2>1, <2>2, <2>4 DEF WatchOf
    <3>2. NONE \notin Wd /\ \A wd \in Least(Wd \ InUse) : wd \in Wd
      BY PathAssumption DEF NONE, Least
    <3>3. PICK wd \in Least(Wd \ InUse) :
             /\ watch' = With(watch, tree[obj.path], wd)
             /\ folders' = With(folders, obj.path, wd)
             /\ at' = "list" /\ obj' = [obj EXCEPT !.wd = wd]
      BY <1>8, <3>1, <3>2 DEF AddWatch, Keeps
    <3>4. obj = [path |-> obj.path, wd |-> obj.wd]
      BY DEF IInv, ChildInv
    <3>5. obj'.path = obj.path
      BY ONLY <3>3, <3>4
    <3> QED
      BY <2>1, <2>2, <3>3, <3>5
  <2>6. wd \in Wd /\ wd \notin Range(folders)
    BY <2>5 DEF Least, InUse
  <2>7. /\ \A z : z \in Tracked' <=> z \in Tracked \/ z = x
        /\ folders'[x] = wd /\ \A z \in Tracked : folders'[z] = folders[z]
    <3>1. \A z : z \in DOMAIN folders' <=> z \in DOMAIN folders \/ z = x
      BY <2>5, WithFacts
    <3>2. \A z \in DOMAIN folders : z # x => folders'[z] = folders[z]
      BY <2>5, WithFacts
    <3>3. folders'[x] = wd
      BY <2>5, WithFacts
    <3> QED
      BY <2>3, <3>1, <3>2, <3>3 DEF Tracked
  <2>8. /\ i \in DOMAIN watch' /\ watch'[i] = wd
        /\ \A j \in DOMAIN watch : j \in DOMAIN watch' /\ watch'[j] = watch[j]
    <3>1. \A j : j \in DOMAIN watch' <=> j \in DOMAIN watch \/ j = i
      BY <2>5, WithFacts
    <3>2. \A j \in DOMAIN watch : j # i => watch'[j] = watch[j]
      BY <2>5, WithFacts
    <3>3. watch'[i] = wd
      BY <2>5, WithFacts
    <3> QED
      BY <2>4, <3>1, <3>2, <3>3
  <2>9. IsInjective(folders')
    <3>1. \A z \in Tracked : folders[z] # wd
      BY <2>6 DEF Range, Tracked
    <3>2. \A y, z \in Tracked : folders[y] = folders[z] => y = z
      BY <1>3 DEF OwnInv, IsInjective, Tracked
    <3>3. \A y, z \in Tracked' : folders'[y] = folders'[z] => y = z
      BY <2>7, <3>1, <3>2
    <3> QED
      BY <3>3 DEF IsInjective, Tracked
  <2>10. \A p \in Tracked' : \A q \in Tracked' \ {p} : folders'[q] # folders'[p]
    BY <2>9 DEF IsInjective, Tracked
  <2>11. ASSUME NEW p, Watched(p) PROVE Watched(p)'
    BY <1>1, <2>7, <2>8, <2>10, <2>11 DEF Watched, Exists
  <2>12. Watched(x)'
    BY <1>1, <2>2, <2>3, <2>7, <2>8, <2>10 DEF Watched, Exists
  <2>13. ASSUME NEW p, Wanted(p) PROVE Wanted(p)'
    BY <2>11, <2>13 DEF Wanted
  <2>14. x \in Roots \/ Wanted(x)
    BY <1>3, <1>5, <2>1, <2>3 DEF RootInv, Expected
  <2>15. ~Dropping'
    BY <2>5 DEF Dropping, Commands
  <2>16. OwnInv' /\ RestInv' /\ TellInv'
    BY <1>1, <1>3, <1>5, <2>5, <2>9, <2>15 DEF OwnInv, RestInv, TellInv
  <2>17. \A p \in Tracked' \ Roots : Wanted(p)' /\ Watched(p)'
    <3>1. \A p : ~Gone(p)
      BY <1>5 DEF Gone
    <3> QED
      BY <1>3, <2>7, <2>11, <2>12, <2>13, <2>14, <3>1 DEF RootInv
  <2>18. \A q : Expected(q)' => Expected(q)
    BY <1>1, <1>6 DEF Expected
  <2>19. RootInv'
    BY <1>1, <1>3, <2>5, <2>12, <2>13, <2>17, <2>18 DEF RootInv, Exists
  <2> QED
    BY <2>16, <2>19 DEF CalmInv
<1> QED
  BY <1>7, <1>8

\* Which FontFolder HandleEvent constructs, and which it takes out.
LEMMA HandleCheck ==
    ASSUME HandleEvent, NEW e, e = Head(queue), at' = "check"
    PROVE  \E p \in Tracked :
              /\ e.what = "folder" /\ e.kind = "add" /\ folders[p] = e.wd
              /\ Follows(p, e.name) /\ obj'.path = Append(p, e.name)
<1>1. at = "scan"
  BY DEF HandleEvent, Reading
<1>2. PICK p \in Tracked :
         /\ folders[p] = e.wd
         /\ \/ e.what = "folder" /\ HandleFolderEvent(p, e)
            \/ HandleFontsDirEvent(p, e)
  BY <1>1 DEF HandleEvent
<1>3. e.what = "folder" /\ HandleFolderEvent(p, e)
  BY <1>1, <1>2 DEF HandleFontsDirEvent, Modify
<1>4. PICK x : x = Append(p, e.name)
  OBVIOUS
<1>5. e.kind = "add" /\ Follows(p, e.name) /\ AddMonitorFolder(x, scans)
  BY <1>1, <1>3, <1>4 DEF HandleFolderEvent, RemoveMonitorFolder, Modify
<1>6. obj'.path = x
  BY <1>1, <1>5 DEF AddMonitorFolder
<1> QED
  BY <1>2, <1>3, <1>4, <1>5, <1>6

\* A FontFolder of a folder reported as gone is no longer in the map.
LEMMA HandleDel ==
    ASSUME HandleEvent, NEW e, e = Head(queue), NEW p \in Tracked, folders[p] = e.wd,
           \A q \in Tracked \ {p} : folders[q] # folders[p],
           e.what = "folder", e.kind = "del",
           NEW x, x = Append(p, e.name)
    PROVE  x \notin Tracked'
<1>1. HandleFolderEvent(p, e)
  BY DEF HandleEvent
<1>2. RemoveMonitorFolder(x)
  BY <1>1 DEF HandleFolderEvent
<1>3. folders' = Without(folders, {x})
  BY <1>2 DEF RemoveMonitorFolder, Erased
<1>4. \A z : z \in DOMAIN folders' <=> z \in DOMAIN folders /\ z \notin {x}
  BY <1>3, WithoutFacts
<1> QED
  BY <1>4 DEF Tracked

\* The one event that is pending is handled: a new folder is expected, a removed one forgotten.
LEMMA HandleCalm ==
    ASSUME TrackInv, CalmInv, HandleEvent
    PROVE  CalmInv'
<1> SUFFICES ASSUME Calm' PROVE CalmInv'
  BY DEF CalmInv
<1>1. /\ UNCHANGED <<tree, watch, left, lapses, run>>
      /\ at = "scan" /\ scans = <<>> /\ queue # <<>> /\ queue' = Tail(queue)
  BY DEF HandleEvent, Reading, Handled, history
<1>2. Calm
  BY <1>1 DEF Calm
<1>3. OwnInv /\ RestInv /\ RootInv /\ TellInv
  BY <1>2 DEF CalmInv
<1>4. FsInv /\ HandInv /\ WatchInv
  BY DEF TrackInv
<1>5. PICK e : e = Head(queue)
  OBVIOUS
<1>6. /\ ~Dropping /\ e \in EventRecord /\ scans' = <<>>
      /\ \/ UNCHANGED folders /\ ~Dropping'
         \/ \E x \in Tracked : RemoveMonitorFolder(x) /\ Removes(e, x)
      /\ at' \in {"scan", "check", "sleep"}
      /\ at' = "sleep" => call'.back \in {"scan", "unwatch"}
  BY <1>1, <1>4, <1>5, HandleEffect
<1>7. queue' = <<>>
  BY <1>1, <1>3, <1>4 DEF RestInv, FsInv
<1>8. \A p, q \in Tracked : folders[p] = folders[q] => p = q
  BY <1>3 DEF OwnInv, IsInjective, Tracked
<1>9. \A p, q \in Tracked : q # p => folders[q] # folders[p]
  BY <1>8
\* What the event is about.
<1>10. ASSUME NEW p \in Tracked, NEW n, n \in STRING \cup Name
       PROVE  Front(Append(p, n)) = p /\ Last(Append(p, n)) = n /\ p # <<>>
  <2> DEFINE S == STRING \cup Name
  <2>1. p \in Seq(STRING) /\ p # <<>> /\ n \in S
    BY <1>4, <1>10, PathFacts DEF FsInv
  <2>2. p \in Seq(S)
    BY <2>1
  <2> HIDE DEF S
  <2> QED
    BY <2>1, <2>2, AppendFacts
<1>11. e.name \in STRING \cup Name
  BY <1>6 DEF EventRecord
<1>12. ASSUME NEW q \in Path, Expected(q)' PROVE Exists(q) /\ Wanted(q)
  <2>1. at' = "check" /\ obj'.path = q
    BY <1>6, <1>12 DEF Expected, InSome, Constructing, Commands
  <2>2. PICK p \in Tracked :
           /\ e.what = "folder" /\ e.kind = "add" /\ folders[p] = e.wd
           /\ Follows(p, e.name) /\ obj'.path = Append(p, e.name)
    BY <1>5, <2>1, HandleCheck
  <2>3. Watched(p) /\ Exists(Append(p, e.name))
    BY <1>1, <1>3, <1>5, <2>2 DEF TellInv
  <2>4. q = Append(p, e.name)
    BY <2>1, <2>2
  <2>5. Front(q) = p /\ Last(q) = e.name
    BY <1>10, <1>11, <2>4
  <2> QED
    BY <2>2, <2>3, <2>4, <2>5 DEF Wanted
<1>13. ASSUME NEW p \in Tracked, p \notin Roots, Gone(p) PROVE p \notin Tracked'
  <2>1. /\ e.what = "folder" /\ e.kind = "del" /\ e.wd = folders[Front(p)] /\ e.name = Last(p)
    BY <1>5, <1>13 DEF Gone
  <2>2. Front(p) \in Tracked
    BY <1>3, <1>13 DEF RootInv, Wanted, Watched
  <2>3. p = Append(Front(p), e.name)
    <3>1. p \in Seq(STRING) /\ p # <<>>
      BY <1>4, PathFacts DEF FsInv
    <3>2. p = Append(Front(p), Last(p))
      BY <3>1, FrontFacts
    <3> QED
      BY <2>1, <3>2
  <2> QED
    BY <1>5, <1>9, <2>1, <2>2, <2>3, HandleDel
<1>14. CASE UNCHANGED folders /\ ~Dropping'
  <2>1. \A p : (Watched(p)' <=> Watched(p)) /\ (Exists(p)' <=> Exists(p))
    BY <1>1, <1>14 DEF Watched, Exists, Tracked
  <2>2. \A p : Wanted(p)' <=> Wanted(p)
    BY <2>1 DEF Wanted
  <2>3. OwnInv' /\ RestInv' /\ TellInv'
    BY <1>1, <1>3, <1>6, <1>7, <1>14 DEF OwnInv, RestInv, TellInv
  <2>4. RootInv'
    BY <1>3, <1>6, <1>12, <1>13, <1>14, <2>1, <2>2 DEF RootInv, Tracked
  <2> QED
    BY <2>3, <2>4 DEF CalmInv
<1>15. CASE \E x \in Tracked : RemoveMonitorFolder(x) /\ Removes(e, x)
  <2>1. PICK x \in Tracked : RemoveMonitorFolder(x) /\ Removes(e, x)
    BY <1>15
  <2>2. /\ \A z : z \in Tracked' <=> z \in Tracked /\ z # x
        /\ \A z \in Tracked' : folders'[z] = folders[z]
        /\ obj'.wd = folders[x] /\ at' = "sleep" /\ call'.back = "unwatch"
    <3>1. folders' = Without(folders, {x})
      BY <2>1 DEF RemoveMonitorFolder, Erased
    <3>2. \A z : z \in DOMAIN folders' <=> z \in DOMAIN folders /\ z \notin {x}
      BY <3>1, WithoutFacts
    <3>3. \A z \in DOMAIN folders : z \notin {x} => folders'[z] = folders[z]
      BY <3>1, WithoutFacts
    <3>4. obj'.wd = folders[x] /\ at' = "sleep" /\ call'.back = "unwatch"
      BY <2>1 DEF RemoveMonitorFolder, Modify
    <3> QED
      BY <3>2, <3>3, <3>4 DEF Tracked
  <2>3. ~Exists(x)
    <3>1. PICK p \in Tracked :
             e.what = "folder" /\ e.kind = "del" /\ folders[p] = e.wd /\ x = Append(p, e.name)
      BY <2>1 DEF Removes
    <3> QED
      BY <1>1, <1>3, <1>5, <3>1 DEF TellInv
  <2>4. ASSUME NEW p, Watched(p) PROVE Watched(p)'
    <3>1. p \in Tracked' /\ folders'[p] = folders[p]
      BY <2>2, <2>3, <2>4 DEF Watched
    <3>2. \A q \in Tracked' \ {p} : folders'[q] # folders'[p]
      BY <1>9, <2>2, <3>1
    <3> QED
      BY <1>1, <2>4, <3>1, <3>2 DEF Watched, Exists
  <2>5. ASSUME NEW p, Wanted(p) PROVE Wanted(p)'
    BY <2>4, <2>5 DEF Wanted
  <2>6. OwnInv'
    <3>1. \A y, z \in Tracked' : folders'[y] = folders'[z] => y = z
      BY <1>8, <2>2
    <3>2. \A z \in Tracked' : folders'[z] # obj'.wd
      BY <1>8, <2>2
    <3> QED
      BY <1>1, <1>3, <3>1, <3>2 DEF OwnInv, IsInjective, Range, Tracked
  <2>7. RestInv' /\ TellInv'
    BY <1>6, <1>7 DEF RestInv, TellInv
  <2>8. \A p \in Tracked' \ Roots : Wanted(p)' /\ Watched(p)'
    BY <1>3, <1>13, <2>2, <2>4, <2>5 DEF RootInv
  <2>9. RootInv'
    BY <1>1, <1>12, <2>2, <2>5, <2>8 DEF RootInv, Exists
  <2> QED
    BY <2>6, <2>7, <2>9 DEF CalmInv
<1> QED
  BY <1>6, <1>14, <1>15

\* A report to a monitor at rest is the one event there is.
LEMMA OneEvent ==
    ASSUME FsInv, queue = <<>>, NEW i, NEW kind \in {"add", "del"},
           NEW what \in {"folder", "file"}, NEW name \in Name,
           NEW t, t = Push(queue, i, kind, what, name)
    PROVE  /\ Len(t) <= 1
           /\ t # <<>> => i \in DOMAIN watch
           /\ i \in DOMAIN watch =>
                 /\ t # <<>> /\ Head(t).wd = watch[i] /\ Head(t).kind = kind
                 /\ Head(t).what = what /\ Head(t).name = name
<1>1. CASE i \in DOMAIN watch
  <2>1. PICK e : e = Note(i, kind, what, name)
    OBVIOUS
  <2>2. e \in EventRecord /\ e.wd = watch[i] /\ e.kind = kind /\ e.what = what /\ e.name = name
    BY <1>1, <2>1 DEF FsInv, EventRecord, Note
  <2>3. Event(i, kind, what, name) = <<e>>
    BY <1>1, <2>1 DEF Event, Note
  <2>4. t = <<e>>
    BY <2>2, <2>3, ConcatEmptySeq DEF Push
  <2>5. Len(t) <= 1 /\ t # <<>> /\ Head(t) = e
    BY <2>2, <2>4
  <2>6. /\ Head(t).wd = watch[i] /\ Head(t).kind = kind
        /\ Head(t).what = what /\ Head(t).name = name
    BY <2>2, <2>5
  <2> QED
    BY <1>1, <2>5, <2>6
<1>2. CASE i \notin DOMAIN watch
  <2>1. t = <<>>
    BY <1>2, ConcatEmptySeq DEF Push, Event
  <2> QED
    BY <1>2, <2>1
<1> QED
  BY <1>1, <1>2

\* At rest, a change of the tree: what is tracked, but for the folder x that may be
\* removed, has the watch it had, and the report is about x.
LEMMA RestCalm ==
    ASSUME TrackInv, CalmInv, Calm, Idle, FsInv',
           UNCHANGED <<monitor, left, run>>, NEW x \in Path,
           \A z \in Tracked : z # x /\ Watched(z) => Watched(z)',
           Watched(x) => \/ Watched(x)'
                         \/ /\ x \in Roots \/ Gone(x)'
                            /\ \A z \in Tracked \ Roots : Front(z) # x,
           Len(queue') <= 1,
           queue' # <<>> /\ Head(queue').what = "folder" =>
              /\ Front(x) \in DOMAIN tree /\ tree[Front(x)] \in DOMAIN watch
              /\ Head(queue').wd = watch[tree[Front(x)]] /\ Head(queue').name = Last(x)
              /\ Head(queue').kind = "add" <=> x \in DOMAIN tree'
    PROVE  CalmInv'
<1>1. at = "scan" /\ scans = <<>> /\ queue = <<>> /\ Reading /\ UNCHANGED <<at, scans, folders, obj, call>>
  BY DEF Idle, Reading, monitor
<1>2. OwnInv /\ RestInv /\ RootInv
  BY DEF CalmInv
<1>3. FsInv /\ HandInv /\ WatchInv
  BY DEF TrackInv
<1>4. ~Dropping' /\ ~Constructing' /\ Reading'
  BY <1>1 DEF Dropping, Constructing, Commands, Reading
<1>5. OwnInv'
  BY <1>1, <1>2, <1>4 DEF OwnInv
<1>6. RestInv'
  BY <1>1, <1>4 DEF RestInv
<1>7. ASSUME NEW p \in Tracked \ Roots PROVE Wanted(p)' /\ (Watched(p)' \/ Gone(p)')
  <2>1. Wanted(p) /\ Watched(p)
    BY <1>1, <1>2 DEF RootInv, Gone
  <2>2. Watched(Front(p))'
    BY <2>1 DEF Wanted, Watched
  <2> QED
    BY <2>1, <2>2 DEF Wanted
<1>8. RootInv'
  BY <1>1, <1>4, <1>7 DEF RootInv, Expected, InSome, Tracked
<1>9. TellInv'
  <2> SUFFICES ASSUME queue' # <<>>, Head(queue').what = "folder", NEW r \in Tracked,
                      folders[r] = Head(queue').wd
               PROVE  /\ Watched(r)'
                      /\ Head(queue').kind = "add"
                            <=> Append(r, Head(queue').name) \in DOMAIN tree'
    BY <1>1 DEF TellInv, Tracked, Exists
  <2>1. /\ r \in DOMAIN tree /\ tree[r] \in DOMAIN watch
        /\ watch[tree[r]] = folders[r]
    BY <1>2, <1>3 DEF WatchInv, OwnInv, Range, Exists
  <2>2. r = Front(x)
    <3>1. tree[r] = tree[Front(x)]
      BY <1>3, <2>1 DEF FsInv, IsInjective
    <3> QED
      BY <1>3, <2>1, <3>1 DEF FsInv, IsInjective
  <2>3. x \in Seq(STRING) /\ x # <<>>
    BY PathFacts
  <2>4. x = Append(r, Head(queue').name)
    <3>1. x = Append(Front(x), Last(x))
      BY <2>3, FrontFacts
    <3> QED
      BY <2>2, <3>1
  <2>5. r # x
    <3>1. Len(Front(x)) # Len(x)
      BY <2>3, FrontFacts
    <3> QED
      BY <2>2, <3>1
  <2>6. Watched(r)
    <3>1. \A p, q \in Tracked : folders[p] = folders[q] => p = q
      BY <1>2 DEF OwnInv, IsInjective, Tracked
    <3> QED
      BY <2>1, <3>1 DEF Watched, Exists
  <2>7. Watched(r)'
    BY <2>5, <2>6
  <2>8. Head(queue').kind = "add" <=> x \in DOMAIN tree'
    OBVIOUS
  <2> QED
    BY ONLY <2>4, <2>7, <2>8
<1> QED
  BY <1>5, <1>6, <1>8, <1>9 DEF CalmInv

\* A change of the tree from which the monitor is calm happens at rest or at the start.
LEMMA RestOrStart ==
    ASSUME TreeStep, Calm'
    PROVE  /\ Calm /\ UNCHANGED <<monitor, left, run>> /\ (Idle \/ at = "start")
           /\ \E x \in Path : MakeFolder(x) \/ RemoveFolder(x) \/ ChangeFonts(x)
<1>1. PICK x \in Path : \/ MakeFolder(x) \/ RemoveFolder(x) \/ ChangeFonts(x)
                        \/ \E y \in Path : MoveFolder(x, y)
  BY DEF TreeStep
<1>2. PICK S : Changes(S)
  BY <1>1 DEF MakeFolder, RemoveFolder, ChangeFonts, MoveFolder
<1>3. /\ lapses' = lapses \cup S \cup (IF Idle \/ at = "start" THEN {} ELSE {"busy"})
      /\ UNCHANGED <<monitor, run>>
  BY <1>2 DEF Changes, Fault
<1>4. Calm /\ (Idle \/ at = "start")
  BY <1>3 DEF Calm, monitor
<1>5. ASSUME NEW y \in Path, MoveFolder(x, y) PROVE FALSE
  <2>1. "moved" \in lapses'
    BY <1>5 DEF MoveFolder, Changes, Fault
  <2> QED
    BY <2>1 DEF Calm
<1>6. MakeFolder(x) \/ RemoveFolder(x) \/ ChangeFonts(x)
  BY <1>1, <1>5
<1>7. UNCHANGED left
  BY <1>6 DEF MakeFolder, RemoveFolder, ChangeFonts
<1> QED
  BY <1>3, <1>4, <1>6, <1>7

\* A folder made while the monitor is at rest is all its one event tells.
LEMMA MakeCalm ==
    ASSUME TrackInv, CalmInv, Calm, Idle, FsInv', UNCHANGED <<monitor, left, run>>,
           NEW x \in Path, MakeFolder(x)
    PROVE  CalmInv'
<1>1. FsInv /\ queue = <<>> /\ Last(x) \in Name /\ UNCHANGED <<watch, folders>>
  BY DEF TrackInv, Idle, Name, MakeFolder, monitor
<1>2. PICK i : tree' = With(tree, x, i)
  BY DEF MakeFolder
<1>3. /\ x \notin DOMAIN tree /\ (Len(x) > 1 => Front(x) \in DOMAIN tree)
      /\ Len(x) > 1 => queue' = Push(queue, tree[Front(x)], "add", "folder", Last(x))
      /\ ~(Len(x) > 1) => queue' = queue
  BY DEF MakeFolder, Exists, Push
<1>4. /\ \A z : z \in DOMAIN tree' <=> z \in DOMAIN tree \/ z = x
      /\ \A z \in DOMAIN tree : z # x => tree'[z] = tree[z]
  BY <1>2, WithFacts
<1>5. ASSUME NEW z, Watched(z) PROVE Watched(z)'
  BY <1>1, <1>3, <1>4, <1>5 DEF Watched, Exists, Tracked
<1>6. ~Watched(x)
  BY <1>3 DEF Watched, Exists
<1>7. CASE Len(x) > 1
  <2>1. PICK j : j = tree[Front(x)]
    OBVIOUS
  <2>2. queue' = Push(queue, j, "add", "folder", Last(x)) /\ Front(x) \in DOMAIN tree
    BY <1>3, <1>7, <2>1
  <2>3. /\ Len(queue') <= 1
        /\ queue' # <<>> => j \in DOMAIN watch
        /\ j \in DOMAIN watch =>
              /\ queue' # <<>> /\ Head(queue').wd = watch[j] /\ Head(queue').kind = "add"
              /\ Head(queue').what = "folder" /\ Head(queue').name = Last(x)
    BY <1>1, <2>2, OneEvent
  <2>4. x \in DOMAIN tree'
    BY <1>4
  <2> QED
    BY <1>5, <1>6, <2>1, <2>2, <2>3, <2>4, RestCalm
<1>8. CASE ~(Len(x) > 1)
  <2>1. queue' = <<>>
    BY <1>1, <1>3, <1>8
  <2> QED
    BY <1>5, <1>6, <2>1, RestCalm
<1> QED
  BY <1>7, <1>8

\* A folder removed while the monitor is at rest had no subfolder, and its one event tells so.
LEMMA RemoveCalm ==
    ASSUME TrackInv, CalmInv, Calm, Idle, FsInv', UNCHANGED <<monitor, left, run>>,
           NEW x \in Path, RemoveFolder(x)
    PROVE  CalmInv'
<1>1. FsInv /\ queue = <<>> /\ Last(x) \in Name /\ UNCHANGED folders
  BY DEF TrackInv, Idle, Name, monitor
<1>2. /\ x \in DOMAIN tree /\ Below(x) = {}
      /\ Len(x) > 1 => queue' = Push(queue, tree[Front(x)], "del", "folder", Last(x))
      /\ ~(Len(x) > 1) => queue' = queue
  BY DEF RemoveFolder, Exists, Push
<1>3. x \in Seq(STRING) /\ x # <<>>
  BY PathFacts
<1>4. /\ \A z : z \in DOMAIN tree' <=> z \in DOMAIN tree /\ z # x
      /\ \A z \in DOMAIN tree : z # x => tree'[z] = tree[z]
  <2>1. tree' = Without(tree, {x})
    BY DEF RemoveFolder
  <2> QED
    BY <2>1, WithoutFacts
<1>5. \A i \in DOMAIN watch : i # tree[x] => i \in DOMAIN watch' /\ watch'[i] = watch[i]
  <2>1. watch' = Without(watch, {tree[x]})
    BY DEF RemoveFolder
  <2> QED
    BY <2>1, WithoutFacts
<1>6. ASSUME NEW z, z # x, Watched(z) PROVE Watched(z)'
  <2>1. z \in DOMAIN tree /\ tree[z] \in DOMAIN watch /\ tree[z] # tree[x]
    BY <1>1, <1>2, <1>6 DEF Watched, Exists, FsInv, IsInjective
  <2> QED
    BY <1>1, <1>4, <1>5, <1>6, <2>1 DEF Watched, Exists, Tracked
<1>7. ASSUME NEW z \in Tracked \ Roots PROVE Front(z) # x
  <2>1. z \in DOMAIN tree
    BY <1>1, <1>7 DEF CalmInv, RootInv, Gone, Watched, Exists
  <2>2. z \in Seq(STRING) /\ z # <<>>
    BY <1>1, <2>1, PathFacts DEF FsInv
  <2>3. IsPrefix(Front(z), z) /\ Front(z) # z
    <3>1. /\ Front(z) \in Seq(STRING) /\ Len(z) \in Nat \ {0} /\ Len(Front(z)) = Len(z) - 1
          /\ \A k \in 1..Len(z) - 1 : Front(z)[k] = z[k]
      BY <2>2, FrontFacts
    <3>2. Len(Front(z)) <= Len(z) /\ Len(Front(z)) # Len(z)
      BY <3>1
    <3>3. \A k \in 1..Len(Front(z)) : Front(z)[k] = z[k]
      BY <3>1
    <3> QED
      BY <2>2, <3>1, <3>2, <3>3, IsPrefixFacts
  <2> QED
    BY <1>2, <2>1, <2>3 DEF Below
<1>8. CASE Len(x) > 1
  <2>1. PICK j : j = tree[Front(x)]
    OBVIOUS
  <2>2. queue' = Push(queue, j, "del", "folder", Last(x)) /\ Front(x) \in DOMAIN tree
    BY <1>1, <1>2, <1>8, <2>1, ParentExists
  <2>3. /\ Len(queue') <= 1
        /\ queue' # <<>> => j \in DOMAIN watch
        /\ j \in DOMAIN watch =>
              /\ queue' # <<>> /\ Head(queue').wd = watch[j] /\ Head(queue').kind = "del"
              /\ Head(queue').what = "folder" /\ Head(queue').name = Last(x)
    BY <1>1, <2>2, OneEvent
  <2>4. x \notin DOMAIN tree'
    BY <1>4
  <2>5. ASSUME Watched(x), x \notin Roots PROVE Gone(x)'
    <3>1. Watched(Front(x))
      BY <2>5 DEF CalmInv, RootInv, Wanted, Watched
    <3>2. j \in DOMAIN watch /\ watch[j] = folders[Front(x)]
      BY <2>1, <3>1 DEF Watched
    <3> QED
      BY <1>1, <2>3, <2>4, <3>2 DEF Gone, Exists
  <2> QED
    BY <1>6, <1>7, <2>1, <2>2, <2>3, <2>4, <2>5, RestCalm
<1>9. CASE ~(Len(x) > 1)
  <2>1. queue' = <<>>
    BY <1>1, <1>2, <1>9
  <2>2. Watched(x) => x \in Roots
    <3>1. ASSUME Watched(x), x \notin Roots PROVE FALSE
      <4>1. Front(x) \in Path
        BY <1>1, <3>1 DEF CalmInv, RootInv, Wanted, Watched, FsInv
      <4>2. Len(Front(x)) \in Nat \ {0} /\ Len(Front(x)) = Len(x) - 1 /\ Len(x) \in Nat
        BY <1>3, <4>1, PathFacts, FrontFacts
      <4> QED
        BY <1>9, <4>2
    <3> QED
      BY <3>1
  <2> QED
    BY <1>6, <1>7, <2>1, <2>2, RestCalm
<1> QED
  BY <1>8, <1>9

\* Nor does a fonts.dir that is made or removed disturb anything.
LEMMA FontsCalm ==
    ASSUME TrackInv, CalmInv, Calm, Idle, FsInv', UNCHANGED <<monitor, left, run>>,
           NEW x \in Path, ChangeFonts(x)
    PROVE  CalmInv'
<1>1. FsInv /\ queue = <<>> /\ UNCHANGED <<tree, watch, folders>>
  BY DEF TrackInv, Idle, ChangeFonts, monitor
<1>2. \A z : Watched(z)' <=> Watched(z)
  BY <1>1 DEF Watched, Exists, Tracked
<1>3. "fonts.dir" \in Name
  BY DEF Name
<1>4. PICK kind \in {"add", "del"} : queue' = Push(queue, tree[x], kind, "file", "fonts.dir")
  BY DEF ChangeFonts, Push
<1>5. PICK j : j = tree[x]
  OBVIOUS
<1>6. /\ Len(queue') <= 1
      /\ queue' # <<>> => j \in DOMAIN watch
      /\ j \in DOMAIN watch =>
            /\ queue' # <<>> /\ Head(queue').wd = watch[j] /\ Head(queue').kind = kind
            /\ Head(queue').what = "file" /\ Head(queue').name = "fonts.dir"
  BY <1>1, <1>3, <1>4, <1>5, OneEvent
<1>7. Len(queue') <= 1 /\ (queue' # <<>> => Head(queue').what # "folder")
  BY <1>6
<1> QED
  BY <1>2, <1>7, RestCalm

\* Each change of the tree is made at rest, or ends the calm.
LEMMA TreeCalm ==
    ASSUME TrackInv, CalmInv, TreeStep
    PROVE  CalmInv'
<1> SUFFICES ASSUME Calm' PROVE CalmInv'
  BY DEF CalmInv
<1>1. /\ Calm /\ UNCHANGED <<monitor, left, run>> /\ (Idle \/ at = "start")
      /\ \E x \in Path : MakeFolder(x) \/ RemoveFolder(x) \/ ChangeFonts(x)
  BY RestOrStart
<1>2. FsInv'
  BY TreeEffect DEF TrackInv
<1>3. CASE Idle
  BY <1>1, <1>2, <1>3, MakeCalm, RemoveCalm, FontsCalm
<1>4. CASE at = "start"
  <2>1. queue = <<>> /\ scans = <<>> /\ left = {} /\ Tracked = {} /\ DOMAIN watch = {}
    BY <1>1, <1>4 DEF CalmInv, RestInv, OwnInv, Reading, TrackInv, HandInv
  <2>2. UNCHANGED <<at, scans, folders, obj, call, left>>
    BY <1>1 DEF monitor
  <2>3. \A i, kind, what, name : queue \o Event(i, kind, what, name) = <<>>
    BY <2>1, ConcatEmptySeq DEF Event
  <2>4. queue' = <<>>
    BY <1>1, <2>1, <2>3 DEF MakeFolder, RemoveFolder, ChangeFonts
  <2>5. ~Dropping' /\ ~Constructing'
    BY <1>4, <2>2 DEF Dropping, Constructing, Commands
  <2>6. OwnInv' /\ RestInv' /\ TellInv'
    BY <1>4, <2>1, <2>2, <2>4, <2>5 DEF OwnInv, RestInv, TellInv, IsInjective, Tracked
  <2>7. RootInv'
    BY <1>4, <2>1, <2>2, <2>5 DEF RootInv, Expected, InSome, Tracked
  <2> QED
    BY <2>6, <2>7 DEF CalmInv
<1> QED
  BY <1>1, <1>3, <1>4

\* A monitor that is stopping is past what is calm.
LEMMA StopCalm ==
    ASSUME TrackInv, CalmInv, StopFolder
    PROVE  CalmInv'
  BY DEF TrackInv, HandInv, StopFolder, CalmInv, Calm

\* Nothing is tracked or expected at first.
LEMMA InitCalm == Init => CalmInv
<1> SUFFICES ASSUME Init PROVE CalmInv
  OBVIOUS
<1>1. /\ Tracked = {} /\ queue = <<>> /\ scans = <<>> /\ left = {}
      /\ at = "start" /\ run = "before"
  BY DEF Init, Tracked
<1>2. OwnInv /\ RestInv /\ TellInv
  BY <1>1 DEF OwnInv, RestInv, TellInv, IsInjective, Tracked, Dropping, Commands
<1>3. RootInv
  BY <1>1 DEF RootInv, Expected, InSome, Constructing, Commands
<1> QED
  BY <1>2, <1>3 DEF CalmInv

\* What holds under one change at a time is inductive.
LEMMA StepCalm == TrackInv /\ IInv /\ CalmInv /\ [Next]_vars => CalmInv'
<1> SUFFICES ASSUME TrackInv, IInv, CalmInv, [Next]_vars PROVE CalmInv'
  OBVIOUS
<1>1. CASE UNCHANGED vars
  <2>1. UNCHANGED <<tree, watch, queue, folders, obj, scans, at, call, run, lapses, left>>
    BY <1>1 DEF vars, fs, monitor, history
  <2>2. /\ Tracked' = Tracked /\ (Dropping' <=> Dropping) /\ (Reading' <=> Reading)
        /\ (Calm' <=> Calm) /\ \A q : Expected(q)' <=> Expected(q)
    BY <2>1 DEF Tracked, Dropping, Reading, Calm, Expected, Constructing
  <2>3. CASE Calm
    BY <2>1, <2>2, <2>3, FrameCalm DEF CalmInv, OwnInv, RestInv
  <2> QED
    BY <2>2, <2>3 DEF CalmInv
<1>2. CASE Next
  BY <1>2, CommandCalm, CheckCalm, WatchCalm, ListCalm, ScanCalm, UnwatchCalm, ThreadCalm,
     HandleCalm, StopCalm, ChildCalm, TreeCalm DEF Next, MonitorStep
<1> QED
  BY <1>1, <1>2

\* It holds of every state.
LEMMA AlwaysCalm == Spec => [](TrackInv /\ CalmInv)
<1>1. Init => TrackInv /\ IInv /\ CalmInv
  BY InitTrack, InitInv, InitCalm
<1>2. TrackInv /\ IInv /\ CalmInv /\ [Next]_vars => (TrackInv /\ IInv /\ CalmInv)'
  BY StepTrack, StepInv, StepCalm
<1> QED
  BY <1>1, <1>2, PTL DEF Spec

\* A set of numbers that is not empty has a least one.
LEMMA LeastNumber ==
    ASSUME NEW S, S \subseteq Nat, S # {}
    PROVE  \E n \in S : \A m \in S : n <= m
<1> DEFINE R == OpToRel(<, Nat)
<1>1. IsWellFoundedOn(R, Nat)
  BY NatLessThanWellFounded
<1>2. \A x, y \in Nat : x < y => <<x, y>> \in R
  BY DEF OpToRel
<1> HIDE DEF R
<1>3. PICK n \in S : \A m \in S : ~(<<m, n>> \in R)
  BY <1>1, WFMin
<1>4. ASSUME NEW m \in S PROVE n <= m
  <2>1. ~(m < n)
    BY <1>2, <1>3
  <2> QED
    BY <2>1
<1> QED
  BY <1>3, <1>4

\* The first k names of a path.
Upto(p, k) == SubSeq(p, 1, k)

\* The first k names of a path, under a name the provers leave alone.
LEMMA UptoFacts ==
    ASSUME NEW S, NEW p \in Seq(S), NEW k \in 1..Len(p)
    PROVE  Upto(p, k) \in Seq(S) /\ Len(Upto(p, k)) = k /\ IsPrefix(Upto(p, k), p)
<1>1. k \in 0..Len(p)
  OBVIOUS
<1> QED
  BY <1>1, PrefixFacts, PrefixOf DEF Upto

\* All names are the path.
LEMMA UptoAll ==
    ASSUME NEW S, NEW p \in Seq(S), p # <<>>
    PROVE  Upto(p, Len(p)) = p
  BY PrefixParts DEF Upto

\* A folder above a path is the path up to some name.
LEMMA UptoIs ==
    ASSUME NEW S, NEW q \in Seq(S), NEW p \in Seq(S), q # <<>>, IsPrefix(q, p)
    PROVE  q = Upto(p, Len(q)) /\ Len(q) \in 1..Len(p)
  BY PrefixIs DEF Upto

\* One name less is the parent.
LEMMA UptoUp ==
    ASSUME NEW S, NEW p \in Seq(S), NEW k \in 1..Len(p), NEW j \in 1..Len(p), k = j + 1
    PROVE  Front(Upto(p, k)) = Upto(p, j)
<1>1. /\ Len(p) \in Nat /\ k \in 0..Len(p) /\ j \in 0..Len(p) /\ k - 1 = j
      /\ k \in Nat /\ k > 1
  OBVIOUS
<1>2. PICK q : q = Upto(p, k)
  OBVIOUS
<1>3. q \in Seq(S) /\ Len(q) = k /\ \A i \in 1..k : q[i] = p[i]
  BY <1>1, <1>2, PrefixFacts DEF Upto
<1>4. q # <<>>
  BY <1>1, <1>3
<1>5. PICK f : f = Front(q)
  OBVIOUS
<1>6. f \in Seq(S) /\ Len(f) = Len(q) - 1 /\ \A i \in 1..Len(q) - 1 : f[i] = q[i]
  BY <1>3, <1>4, <1>5, FrontFacts
<1>7. PICK r : r = Upto(p, j)
  OBVIOUS
<1>8. r \in Seq(S) /\ Len(r) = j /\ \A i \in 1..j : r[i] = p[i]
  BY <1>1, <1>7, PrefixFacts DEF Upto
<1>9. Len(f) = Len(r)
  BY <1>1, <1>3, <1>6, <1>8
<1>10. ASSUME NEW i \in 1..Len(r) PROVE f[i] = r[i]
  <2>1. i \in 1..k /\ i \in 1..j /\ i \in 1..Len(q) - 1
    BY <1>1, <1>3, <1>8
  <2> QED
    BY <1>3, <1>6, <1>8, <2>1
<1>11. f = r
  BY <1>6, <1>8, <1>9, <1>10, SeqEqual
<1> QED
  BY <1>2, <1>5, <1>7, <1>11

\* At rest, what is above a tracked folder is tracked.
LEMMA TrackedUpto ==
    ASSUME TrackInv, CalmInv, Calm, Idle, NEW p \in Tracked, NEW k \in 1..Len(p)
    PROVE  Upto(p, k) \in Tracked
<1>1. p \in Seq(STRING) /\ p # <<>> /\ Len(p) \in Nat \ {0}
  BY PathFacts DEF TrackInv, FsInv
<1> SUFFICES ASSUME Upto(p, k) \notin Tracked PROVE FALSE
  OBVIOUS
<1> DEFINE S == {n \in Nat : n < Len(p) /\ Upto(p, Len(p) - n) \notin Tracked}
<1>2. S # {}
  <2>1. PICK n : n = Len(p) - k
    OBVIOUS
  <2>2. n \in Nat /\ n < Len(p) /\ Len(p) - n = k
    BY <1>1, <2>1
  <2> QED
    BY <2>2
<1>3. PICK n \in S : \A m \in S : n <= m
  <2> HIDE DEF S
  <2>1. S \subseteq Nat
    BY DEF S
  <2> QED
    BY <1>2, <2>1, LeastNumber
<1>4. n \in Nat /\ n < Len(p) /\ Upto(p, Len(p) - n) \notin Tracked
  BY <1>3
<1>5. n # 0
  <2>1. Upto(p, Len(p)) = p
    BY <1>1, UptoAll
  <2>2. n = 0 => Len(p) - n = Len(p)
    BY <1>1
  <2> QED
    BY <1>4, <2>1, <2>2
<1>6. PICK i \in 1..Len(p) : i = Len(p) - n
  BY <1>1, <1>4, <1>5
<1>7. PICK j \in 1..Len(p) : j = i + 1
  <2>1. i + 1 \in 1..Len(p)
    BY <1>1, <1>4, <1>5, <1>6
  <2> QED
    BY <2>1
<1>8. Upto(p, j) \in Tracked
  <2>1. PICK m : m = n - 1
    OBVIOUS
  <2>2. m \in Nat /\ m < Len(p) /\ Len(p) - m = j /\ ~(n <= m)
    BY <1>1, <1>4, <1>5, <1>6, <1>7, <2>1
  <2>3. m \notin S
    <3> HIDE DEF S
    <3> QED
      BY <1>3, <2>2
  <2> QED
    BY <2>2, <2>3
<1>9. Front(Upto(p, j)) = Upto(p, i)
  BY <1>1, <1>7, UptoUp
<1>10. Upto(p, j) \notin Roots
  <2>1. Len(Upto(p, j)) = j /\ j # 1
    BY <1>1, <1>7, UptoFacts
  <2> QED
    BY <2>1, PathAssumption
<1>11. Upto(p, i) \in Tracked
  BY <1>8, <1>9, <1>10 DEF CalmInv, RootInv, Wanted, Watched
<1> QED
  BY <1>4, <1>6, <1>11

\* A monitor that could follow each change before the next, no folder being renamed,
\* tracks below a root it watches just what is there and is to be followed
\* (FontMonitor.cpp:148, :162).
THEOREM TracksExactly == Spec => []TrackedExact
<1>1. TrackInv /\ CalmInv /\ NothingMissed => TrackedExact
  <2> SUFFICES ASSUME TrackInv, CalmInv, NothingMissed, Idle,
                      lapses \cap {"moved", "busy"} = {}, NEW p \in Path \ Roots
               PROVE  p \in Tracked <=> Exists(p) /\ Followed(p) /\ Watched(Upto(p, 1))
    BY DEF TrackedExact, Upto
  <2>1. FsInv /\ HandInv /\ queue = <<>> /\ at = "scan" /\ run # "stopping"
    BY DEF TrackInv, HandInv, Idle, Reading, Commands
  <2>2. Calm
    BY <2>1 DEF Calm
  <2>3. left = {} /\ \A q \in Tracked \ Roots : Wanted(q) /\ Watched(q)
    BY <2>1, <2>2 DEF CalmInv, OwnInv, RootInv, Gone
  <2>4. p \in Seq(STRING) /\ p # <<>> /\ Len(p) \in Nat \ {0}
    BY PathFacts
  <2>5. \A q \in Roots : Len(q) = 1
    BY PathAssumption
  <2>6. ASSUME p \in Tracked PROVE Exists(p) /\ Followed(p) /\ Watched(Upto(p, 1))
    <3>1. Exists(p)
      BY <2>3, <2>6 DEF Watched
    <3>2. ASSUME NEW q \in Path \ Roots, IsPrefix(q, p) PROVE Follows(Front(q), Last(q))
      <4>1. q \in Seq(STRING) /\ q # <<>>
        BY PathFacts
      <4>2. q = Upto(p, Len(q)) /\ Len(q) \in 1..Len(p)
        BY <2>4, <3>2, <4>1, UptoIs
      <4>3. q \in Tracked
        <5>1. PICK n \in 1..Len(p) : n = Len(q)
          BY <4>2
        <5>2. Upto(p, n) \in Tracked
          BY <2>2, <2>6, TrackedUpto
        <5> QED
          BY <4>2, <5>1, <5>2
      <4> QED
        BY <2>3, <4>3 DEF Wanted
    <3>3. 1 \in 1..Len(p) /\ 2 \in 1..Len(p)
      <4>1. Front(p) \in Path
        BY <2>1, <2>3, <2>6 DEF Wanted, Watched, FsInv
      <4>2. Len(Front(p)) \in Nat \ {0} /\ Len(Front(p)) = Len(p) - 1
        BY <2>4, <4>1, PathFacts, FrontFacts
      <4> QED
        BY <2>4, <4>2
    <3>4. PICK k \in 1..Len(p) : k = 2
      BY <3>3
    <3>5. PICK j \in 1..Len(p) : j = 1
      BY <3>3
    <3>6. Len(Upto(p, k)) = k /\ k # 1 /\ k = j + 1
      <4>1. Len(Upto(p, k)) = k
        BY <2>4, UptoFacts
      <4>2. k # 1 /\ k = j + 1
        BY <3>4, <3>5
      <4> QED
        BY <4>1, <4>2
    <3>7. Front(Upto(p, k)) = Upto(p, j)
      BY <2>4, <3>6, UptoUp
    <3>8. Upto(p, k) \in Tracked \ Roots
      <4>1. Upto(p, k) \in Tracked
        BY <2>2, <2>6, TrackedUpto
      <4> QED
        BY <2>5, <3>6, <4>1
    <3>9. Watched(Upto(p, 1))
      BY <2>3, <3>5, <3>7, <3>8 DEF Wanted
    <3> QED
      BY <3>1, <3>2, <3>9 DEF Followed
  <2>7. ASSUME Exists(p), Followed(p), Watched(Upto(p, 1)), p \notin Tracked PROVE FALSE
    <3> DEFINE S == {n \in 1..Len(p) : Upto(p, n) \notin Tracked}
    <3>1. Len(p) \in S
      <4>1. Upto(p, Len(p)) = p /\ Len(p) \in 1..Len(p)
        BY <2>4, UptoAll
      <4> QED
        BY <2>7, <4>1
    <3>2. PICK n \in S : \A m \in S : n <= m
      <4> HIDE DEF S
      <4>1. S \subseteq Nat
        BY <2>4 DEF S
      <4> QED
        BY <3>1, <4>1, LeastNumber
    <3>3. n \in 1..Len(p) /\ Upto(p, n) \notin Tracked
      BY <3>2
    <3>4. n # 1
      BY <2>7, <3>3 DEF Watched
    <3>5. PICK j \in 1..Len(p) : n = j + 1
      <4>1. n - 1 \in 1..Len(p) /\ n = (n - 1) + 1
        BY <2>4, <3>3, <3>4
      <4> QED
        BY <4>1
    <3>6. Upto(p, j) \in Tracked
      <4>1. ~(n <= j)
        BY <3>5
      <4>2. j \notin S
        <5> HIDE DEF S
        <5> QED
          BY <3>2, <4>1
      <4> QED
        BY <4>2
    <3>7. PICK q : q = Upto(p, n)
      OBVIOUS
    <3>8. q \in Seq(STRING) /\ Len(q) = n /\ IsPrefix(q, p) /\ Front(q) = Upto(p, j)
      <4>1. Upto(p, n) \in Seq(STRING) /\ Len(Upto(p, n)) = n /\ IsPrefix(Upto(p, n), p)
        BY <2>4, <3>3, UptoFacts
      <4>2. Front(Upto(p, n)) = Upto(p, j)
        BY <2>4, <3>3, <3>5, UptoUp
      <4> QED
        BY <3>7, <4>1, <4>2
    <3>9. Watched(Front(q))
      <4>1. CASE j = 1
        BY <2>7, <3>8, <4>1
      <4>2. CASE j # 1
        <5>1. Len(Upto(p, j)) = j
          BY <2>4, UptoFacts
        <5>2. Front(q) \in Tracked \ Roots
          BY <2>5, <3>6, <3>8, <4>2, <5>1
        <5> QED
          BY <2>3, <5>2
      <4> QED
        BY <4>1, <4>2
    <3>10. q \in DOMAIN tree \ Roots
      <4>1. q \in DOMAIN tree
        BY <2>1, <2>7, <3>3, <3>7 DEF FsInv, Exists, Upto
      <4> QED
        BY <2>5, <3>4, <3>8, <4>1
    <3>11. Follows(Front(q), Last(q))
      BY <2>1, <2>7, <3>8, <3>10 DEF Followed, FsInv
    <3>12. q \in Tracked
      BY <2>3, <3>9, <3>10, <3>11 DEF NothingMissed
    <3> QED
      BY <3>3, <3>7, <3>12
  <2> QED
    BY <2>6, <2>7
<1> QED
  BY <1>1, AlwaysCalm, NothingIsMissed, PTL

=============================================================================
