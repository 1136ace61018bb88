--------------------------- MODULE MCAppListServer ---------------------------
(* An instance of AppListServer for TLC: PDUs that are ordinary but for one   *)
(* field, and a client that says more than the protocol lets it.              *)
EXTENDS AppListServer, TLC

Ordinary(c) ==
    [cmd |-> c, version |-> 4, bits |-> 0,
     fields |-> CASE c = "update"   -> {"id", "exec", "desc"}
                  [] c = "delete"   -> {"id"}
                  [] c = "provider" -> {"provider"}
                  [] c = "window"   -> {"id", "windowId"}
                  [] OTHER          -> {},
     len |-> [f \in StringField |-> 6]]

Lengths == {0, 2, MaxString - 2, MaxString - 1, MaxString, MaxString + 2}

Flagged(c) == {Strings[c][i] : i \in DOMAIN Strings[c]}

\* One string more, or one less, than usual.
OtherFields(m) ==
    {[m EXCEPT !.fields = @ \cup {f}] : f \in Flagged(m.cmd)}
        \cup {[m EXCEPT !.fields = @ \ {f}] : f \in m.fields}

\* One string, sent or not, of a length at a limit.
OtherLengths(m) ==
    {[m EXCEPT !.fields = @ \cup (IF m.cmd = "caps" THEN {} ELSE {f}), !.len[f] = n] :
        f \in Flagged(m.cmd), n \in Lengths}

WithIcon == {[Ordinary("update") EXCEPT !.fields = @ \cup {"icon", "dir"}, !.bits = b] :
                b \in {0, 9}}

Old == {[Ordinary("caps") EXCEPT !.version = 3]}

MCPdus == UNION {{Ordinary(c)} \cup OtherFields(Ordinary(c)) \cup OtherLengths(Ordinary(c)) :
                    c \in Command} \cup WithIcon \cup Old

\* Capabilities, which the client answers, and a PDU that it does not.
FewPdus == {Ordinary("caps"), Ordinary("delete")}

\* The format is checked where a PDU is on the wire. What follows does not depend
\* on its shape, so that only two of the PDUs are followed further.
OddPdusGoNoFurther == wire \in FewPdus \cup {NoPdu}

\* One PDU that is refused; two at a time; one of length 0 after another.
MCMessages == {<<"bad">>, <<"caps", "caps">>, <<"caps", "rewind">>}
=============================================================================
