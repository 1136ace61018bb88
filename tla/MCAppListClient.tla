--------------------------- MODULE MCAppListClient ---------------------------
(* Instances of AppListClient for TLC. *)
EXTENDS AppListClient, TLC

CONSTANTS a1, a2, l1, l2, l3

MCApp  == {a1, a2}
MCLink == {l1, l2, l3}

Says(l, i, g) == [link |-> l, icon |-> i, args |-> g]

\* a1 can be renamed and lose its icon, a2 can lose its icon.
OwnLinks == (a1 :> {Says(l1, TRUE, "old"), Says(l2, FALSE, "old")})
             @@ (a2 :> {Says(l3, TRUE, "old"), Says(l3, FALSE, "old")})

\* a1 can change its command line.
Relaunched == (a1 :> {Says(l1, FALSE, "old"), Says(l1, FALSE, "new")})
               @@ (a2 :> {Says(l3, FALSE, "old")})

\* Two applications that share one description.
SharedLink == (a1 :> {Says(l1, TRUE, "old")})
               @@ (a2 :> {Says(l1, FALSE, "old")})

AnyHints == SUBSET {"start", "sync", "end"}

\* "use with _SYNC" (rdpapplist_protocol.h:57-58)
ProtocolHints == {h \in AnyHints : h \cap {"start", "end"} # {} => "sync" \in h}
=============================================================================
