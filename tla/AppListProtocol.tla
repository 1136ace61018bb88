--------------------------- MODULE AppListProtocol ---------------------------
(***************************************************************************)
(* PDUs of the application-list channel: what the server's senders         *)
(* (src/rdpapplist/server/rdpapplist_main.c) write, and what the readers   *)
(* of the Windows plug-in (src/WSLDVCPlugin/WSLDVCCallback.cpp,            *)
(* rdpapplist.h) make of it.                                               *)
(*                                                                         *)
(* The two sides agree on nothing but the order and the widths of fields.  *)
(* A stream is a sequence of tokens, each a field of `size` bytes whose    *)
(* number, if the other side uses it, is `value`, and the position behind  *)
(* them in bytes.  Reading a field at the wrong place garbles the PDU.     *)
(***************************************************************************)
EXTENDS Naturals, Sequences

CONSTANT MaxString \* RDPAPPLIST_MAX_STRING_SIZE, in bytes

ASSUME MaxStringAssumption == MaxString \in Nat

Command == {"caps", "update", "delete", "provider", "window"}

\* Strings of a PDU in the order the server writes them.
Strings ==
    [caps     |-> <<"provider", "unique">>,
     update   |-> <<"id", "group", "exec", "dir", "desc">>,
     delete   |-> <<"id", "group">>,
     provider |-> <<"provider">>,
     window   |-> <<"id", "group", "exec", "desc">>]

StringField == {"provider", "unique", "id", "group", "exec", "dir", "desc"}

Flag == StringField \cup {"icon", "windowId"}

\* The length of a RAIL_UNICODE_STRING is a UINT16.
UINT16 == {n \in Nat : n < 65536}

\* fields: the RDPAPPLIST_FIELD_* flags; len: the length of each string;
\* bits: iconBitsLength.
Pdu == [cmd : Command, version : Nat, bits : Nat,
        fields : SUBSET Flag, len : [StringField -> UINT16]]

-----------------------------------------------------------------------------
(* The server. *)

Carries(m, f) == m.cmd = "caps" \/ f \in m.fields

Written(m) ==
    {f \in StringField : Carries(m, f) /\ \E i \in DOMAIN Strings[m.cmd] : Strings[m.cmd][i] = f}

\* The only check of a sender: no string is too large.  The unique id of the
\* capabilities is not checked.
Accepts(m) == \A f \in Written(m) \ {"unique"} : m.len[f] <= MaxString

HeaderSize == 8

\* Version; or flags; or flags and window id.
FixedSize(cmd) == CASE cmd = "caps" -> 2 [] cmd = "window" -> 8 [] OTHER -> 4

HasIcon(m) == m.cmd = "update" /\ "icon" \in m.fields

\* Mutant of IconHeaderSize: one of the seven numbers is not counted.
IconHeaderSizeShort == 6 * 4
IconHeaderSize == 7 * 4

\* The i-th string of a PDU, of at most five, is written behind its length.
Has(m, i) == i \in DOMAIN Strings[m.cmd] /\ Carries(m, Strings[m.cmd][i])

TextLength(m, i) == IF Has(m, i) THEN 2 + m.len[Strings[m.cmd][i]] ELSE 0

\* What the sender adds up before it allocates the stream.
PayloadLength(m) ==
    FixedSize(m.cmd)
        + TextLength(m, 1) + TextLength(m, 2) + TextLength(m, 3) + TextLength(m, 4) + TextLength(m, 5)
        + (IF HasIcon(m) THEN IconHeaderSize + m.bits ELSE 0)

\* rdpapplist_server_single_packet_new
HeaderLength(m) == HeaderSize + PayloadLength(m)

NewStream == [tokens |-> <<>>, position |-> 0]

Write(s, size, value) ==
    IF size = 0 THEN s
    ELSE [tokens   |-> Append(s.tokens, [size |-> size, value |-> value]),
          position |-> s.position + size]

WriteHeader(m) == Write(Write(NewStream, 4, 0), 4, HeaderLength(m))

WriteFixed(s, m) ==
    CASE m.cmd = "caps"   -> Write(s, 2, m.version)
      [] m.cmd = "window" -> Write(Write(s, 4, 0), 4, 0)
      [] OTHER            -> Write(s, 4, 0)

WriteText(s, n) == Write(Write(s, 2, n), n, 0)

WriteString(s, m, i) == IF Has(m, i) THEN WriteText(s, m.len[Strings[m.cmd][i]]) ELSE s

WriteStrings(s, m) ==
    WriteString(WriteString(WriteString(WriteString(WriteString(s, m, 1), m, 2), m, 3), m, 4), m, 5)

\* Seven numbers, the last of them the length of the pixels that follow.
WriteThree(s) == Write(Write(Write(s, 4, 0), 4, 0), 4, 0)

WriteIcon(s, m) ==
    IF HasIcon(m) THEN Write(Write(WriteThree(WriteThree(s)), 4, m.bits), m.bits, 0) ELSE s

Sent(m) == WriteIcon(WriteStrings(WriteFixed(WriteHeader(m), m), m), m)

-----------------------------------------------------------------------------
(* The client.  A reader is before the token `cur`, with `left` bytes left. *)

StartReading(s) == [tokens |-> s.tokens, cur |-> 1, left |-> s.position, status |-> "reading"]

Stop(r, status) == [tokens |-> r.tokens, cur |-> r.cur, left |-> r.left, status |-> status]

\* ReadUINT16, ReadUINT32 and ReadBYTES: too little left is an error, anything
\* else is taken for what is expected there.
Read(r, size) ==
    IF r.status # "reading" \/ size = 0 THEN r
    ELSE IF size > r.left THEN Stop(r, "refused")
    ELSE IF r.tokens[r.cur].size # size THEN Stop(r, "garbled")
    ELSE [r EXCEPT !.cur = @ + 1, !.left = @ - size]

Value(r) == IF r.cur \in DOMAIN r.tokens THEN r.tokens[r.cur].value ELSE 0

\* Mutant of StringFits: the terminator is counted twice.
StringFitsTwice(n) == n + 4 <= MaxString
\* ReadSTRING: room for the terminator (2 bytes) in a buffer of MaxString.
StringFits(n) == n + 2 <= MaxString

ReadText(r, required) ==
    LET n == Value(r)
        s == Read(r, 2)
    IN IF s.status # "reading" THEN s
       ELSE IF ~StringFits(n) \/ (n = 0 /\ required) THEN Stop(s, "refused")
       ELSE Read(s, n)

\* Strings in the order the client reads them, and those that must not be empty.
StringsRead ==
    [caps   |-> <<"provider", "unique">>,
     update |-> <<"id", "group", "exec", "dir", "desc">>,
     delete |-> <<"id", "group">>,
     window |-> <<"id", "group", "exec", "desc">>]

NonEmpty == {"provider", "unique", "id", "exec", "desc"}

\* CheckRequiredFlags
RequiredFlags ==
    [caps   |-> {},
     update |-> {"id", "exec", "desc"},
     delete |-> {"id"},
     window |-> {"id", "windowId"}]

\* Mutant of Expects: the unique id of version 4 is not read.
ExpectsOld(m, f) == IF m.cmd = "caps" THEN f # "unique" ELSE f \in m.fields
Expects(m, f) == IF m.cmd = "caps" THEN f # "unique" \/ m.version >= 4 ELSE f \in m.fields

ReadString(r, m, i) ==
    IF i \in DOMAIN StringsRead[m.cmd] /\ Expects(m, StringsRead[m.cmd][i])
    THEN ReadText(r, StringsRead[m.cmd][i] \in NonEmpty)
    ELSE r

ReadStrings(r, m) ==
    ReadString(ReadString(ReadString(ReadString(ReadString(r, m, 1), m, 2), m, 3), m, 4), m, 5)

ReadThree(r) == Read(Read(Read(r, 4), 4), 4)

ReadIcon(r) ==
    LET atBits == ReadThree(ReadThree(r))
    IN Read(Read(atBits, 4), Value(atBits))

ReadHeader(s) == Read(Read(StartReading(s), 4), 4)

\* The version; or the flags, and the window id if they say that it is there.
ReadFixed(r, m) ==
    LET flags == Read(r, IF m.cmd = "caps" THEN 2 ELSE 4)
    IN IF ~(RequiredFlags[m.cmd] \subseteq m.fields) THEN Stop(flags, "refused")
       ELSE IF m.cmd = "window" THEN Read(flags, 4)
       ELSE flags

\* A handler's read scope.  Capabilities of an older version fail at the end of
\* OnCaps.
ReadPdu(m, s) ==
    LET behind == ReadHeader(s)
        text   == ReadStrings(ReadFixed(behind, m), m)
    IN IF m.cmd = "provider" THEN behind \* "Nothing to do."
       ELSE IF m.cmd = "caps" /\ m.version < 4 THEN Stop(text, "refused")
       ELSE IF HasIcon(m) THEN ReadIcon(text)
       ELSE text
=============================================================================
