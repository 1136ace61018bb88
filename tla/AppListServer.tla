---------------------------- MODULE AppListServer ----------------------------
(***************************************************************************)
(* The Linux end of the application-list channel                           *)
(* (src/rdpapplist/server/rdpapplist_main.c): a context that its owner,    *)
(* the compositor, opens, sends with and closes, and the thread that open  *)
(* creates to receive what the client says.                                *)
(*                                                                         *)
(* The thread shares the private data with the owner without a lock: the   *)
(* handle of the channel, the two events it copies when it starts, and     *)
(* isReady.  Only close's wait for the thread orders them.                 *)
(***************************************************************************)
EXTENDS AppListProtocol, FiniteSets

CONSTANTS
    Pdus,           \* what the owner sends
    NoPdu,
    ClientMessages, \* what a client may send besides its capabilities
    MaxOpens,       \* channels opened in a behavior
    MaxMessages     \* client messages waiting on a channel

\* A PDU as receive_pdu finds it: capabilities; capabilities whose header has
\* length 0, so that the stream goes back to where they begin; or one that is
\* refused, as its command is unknown or its data end early.
ClientPdu == {"caps", "rewind", "bad"}

\* A message: the PDUs found where the length of each leads, exact or not.  A
\* wake-up without data is the empty one.
Message == Seq(ClientPdu)
Note == <<>>

ASSUME PdusAssumption  == Pdus \subseteq Pdu /\ NoPdu \notin Pdu
ASSUME ClientAssumption == ClientMessages \subseteq Message
ASSUME BoundsAssumption == MaxOpens \in Nat /\ MaxMessages \in Nat

NULL == 0
Handle == 1..MaxOpens

VARIABLES
    \* RdpAppListServerPrivate
    channel,      \* rdpapplist_channel
    channelEvent, \* the channel whose event it is
    thread,       \* the thread's handle is not NULL
    stopEvent,    \* "null", "unset" or "set"
    isReady,
    \* the thread
    tpc,          \* "none", "start", "wait", "query", "size", "read", "loop", "pdu",
                  \* "ended", or "undefined": it has used private data that is freed
    events,       \* what it waits for: is there a stop event, whose channel event
    stream,       \* input_stream: the PDUs from its position on
    \* the owner
    opc,          \* "idle", "closing" or "freed"
    \* channel manager and client
    live,         \* channels that are open
    ready,        \* is the client's end of `channel` connected?
    gone,         \* was it refused or disconnected?
    inbox,        \* messages from the client on `channel`
    wire,         \* the PDU sent to the client and not read yet
    \* history
    opens,        \* channels opened so far
    faults,       \* "event", "thread": not created by the last open; "early": the
                  \* thread ended as it read a channel that was not ready
    bad,          \* since then the client sent a bad message, there was no memory
                  \* for it, or the owner's callback or the thread's wait failed
    unwaited      \* the last close could not wait for the thread

priv    == <<channel, channelEvent, thread, stopEvent, isReady>>
client  == <<ready, gone, inbox, wire>>
history == <<opens, faults, bad, unwaited>>
vars    == <<priv, tpc, events, stream, opc, live, client, history>>

-----------------------------------------------------------------------------
\* rdpapplist_server_context_new
Init ==
    /\ channel = NULL /\ channelEvent = NULL
    /\ thread = FALSE
    /\ stopEvent = "null"
    /\ isReady = FALSE
    /\ tpc = "none"
    /\ events = [stop |-> FALSE, channel |-> NULL]
    /\ stream = <<>>
    /\ opc = "idle"
    /\ live = {}
    /\ ready = FALSE /\ gone = FALSE /\ inbox = <<>> /\ wire = NoPdu
    /\ opens = 0 /\ faults = {} /\ bad = FALSE /\ unwaited = FALSE

-----------------------------------------------------------------------------
(* Open: of a context that has no channel, so that there is no thread. *)

Fresh == ready' = FALSE /\ gone' = FALSE /\ inbox' = <<>> /\ wire' = NoPdu

\* Mutant of OutClose: nothing is closed.
OutCloseNot(h) == live \cup {h}

\* out_close: the channel just opened, if there is one, is closed.
OutClose(h) == (live \cup {h}) \ {h}

\* The session cannot be queried, the channel not be opened, or its event not
\* be had.
OpenFails(stage) ==
    /\ opc = "idle" /\ channel = NULL
    /\ stage = "event" => opens < MaxOpens
    /\ opens' = IF stage = "event" THEN opens + 1 ELSE opens
    /\ live' = OutClose(IF stage = "event" THEN opens + 1 ELSE NULL)
    /\ channelEvent' = NULL
    /\ UNCHANGED <<channel, thread, stopEvent, isReady, tpc, events, stream, opc,
                   client, faults, bad, unwaited>>

\* The stop event or the thread may not be created; open succeeds all the same.
OpenSucceeds(event, created) ==
    /\ opc = "idle" /\ channel = NULL
    /\ opens < MaxOpens
    /\ opens' = opens + 1
    /\ channel' = opens + 1
    /\ channelEvent' = opens + 1
    /\ live' = live \cup {opens + 1}
    /\ thread' = created
    /\ stopEvent' = IF event /\ created THEN "unset" ELSE "null"
    /\ tpc' = IF created THEN "start" ELSE "none"
    /\ faults' = (IF event THEN {} ELSE {"event"}) \cup (IF created THEN {} ELSE {"thread"})
    /\ bad' = FALSE
    /\ Fresh
    /\ UNCHANGED <<isReady, events, stream, opc, unwaited>>

-----------------------------------------------------------------------------
(* The thread. *)

Ends == tpc' = "ended"

\* It is at a step that reads private data, and they are there.
At(pc) == tpc = pc /\ opc # "freed"

\* It copies the handles of both events once.
ThreadStarts ==
    /\ At("start")
    /\ tpc' = "wait"
    /\ events' = [stop |-> stopEvent # "null", channel |-> channelEvent]
    /\ UNCHANGED <<priv, stream, opc, live, client, history>>

\* Mutant of Invalid: a stop event that could not be created does not count.
InvalidChannelOnly == events.channel \notin live

\* One of the two handles is NULL or closed.
Invalid == ~events.stop \/ events.channel \notin live

\* WAIT_FAILED
WaitFails ==
    /\ tpc = "wait"
    /\ Invalid
    /\ Ends
    /\ UNCHANGED <<priv, events, stream, opc, live, client, history>>

\* The same without a cause in this program.
WaitBreaks ==
    /\ tpc = "wait"
    /\ Ends
    /\ bad' = TRUE
    /\ UNCHANGED <<priv, events, stream, opc, live, client, opens, faults, unwaited>>

\* WAIT_OBJECT_0: the first of two signaled events wins.
ThreadStops ==
    /\ tpc = "wait"
    /\ ~Invalid
    /\ stopEvent = "set"
    /\ Ends
    /\ UNCHANGED <<priv, events, stream, opc, live, client, history>>

\* The channel's event: there is a message, or the client is gone; it may be
\* set before the channel is ready, which is why the thread asks.
Signaled == inbox # <<>> \/ gone \/ ~ready

\* handle_messages is called.
ThreadWakes ==
    /\ At("wait")
    /\ ~Invalid
    /\ stopEvent # "set"
    /\ Signaled
    /\ tpc' = IF isReady THEN "size" ELSE "query"
    /\ UNCHANGED <<priv, events, stream, opc, live, client, history>>

\* Mutant of Reported: any answer counts as ready.
ReportedAny == TRUE

\* The value WTSVirtualChannelQuery(WTSVirtualChannelReady) returns.
Reported == ready

QueryReady ==
    /\ At("query")
    /\ IF channel \in live /\ ~gone
       THEN /\ isReady' = Reported
            /\ tpc' = IF Reported THEN "size" ELSE "wait"
       ELSE Ends /\ UNCHANGED isReady
    /\ UNCHANGED <<channel, channelEvent, thread, stopEvent, events, stream, opc, live,
                   client, history>>

\* Mutant of AfterMessage: it reads on until there is nothing to read.
AfterMessageDrain == "size"
AfterMessage == "wait"

\* WTSVirtualChannelRead for the size: nothing to read (ERROR_NO_DATA) or a
\* channel that is closed end the thread, and so does a lack of memory.
ReadSize(memory) ==
    /\ At("size")
    /\ IF channel \notin live \/ inbox = <<>>
       THEN /\ Ends
            /\ faults' = IF channel \in live /\ ~ready THEN faults \cup {"early"} ELSE faults
            /\ UNCHANGED <<inbox, bad>>
       ELSE IF Head(inbox) = Note
       THEN tpc' = AfterMessage /\ inbox' = Tail(inbox) /\ UNCHANGED <<bad, faults>>
       ELSE /\ tpc' = IF memory THEN "read" ELSE "ended"
            /\ bad' = (bad \/ ~memory)
            /\ UNCHANGED <<inbox, faults>>
    /\ UNCHANGED <<priv, events, stream, opc, live, ready, gone, wire, opens, unwaited>>

\* WTSVirtualChannelRead for the message, which the stream then holds.
ReadMessage ==
    /\ At("read")
    /\ IF channel \in live /\ inbox # <<>>
       THEN tpc' = "loop" /\ stream' = Head(inbox) /\ inbox' = Tail(inbox)
       ELSE Ends /\ UNCHANGED <<stream, inbox>>
    /\ UNCHANGED <<priv, events, opc, live, ready, gone, wire, history>>

\* while (Stream_GetPosition(s) < Stream_Length(s))
NextPdu ==
    /\ At("loop")
    /\ tpc' = IF stream = <<>> THEN AfterMessage ELSE "pdu"
    /\ UNCHANGED <<priv, events, stream, opc, live, client, history>>

\* Mutant of AfterPdu: it goes back to where the PDU begins whatever its length.
AfterPduStuck == stream

\* Stream_SetPosition(s, beg + header.length)
AfterPdu == IF Head(stream) = "rewind" THEN stream ELSE Tail(stream)

\* receive_pdu: capabilities go to the owner's callback, which can fail; the
\* first error ends the loop and the thread.
ReceivePdu(callback) ==
    /\ At("pdu")
    /\ IF Head(stream) # "bad" /\ callback
       THEN tpc' = "loop" /\ stream' = AfterPdu /\ UNCHANGED bad
       ELSE Ends /\ stream' = <<>> /\ bad' = TRUE
    /\ UNCHANGED <<priv, events, opc, live, client, opens, faults, unwaited>>

\* It reads private data that context_free has freed; what it does from then on is
\* undefined.
ThreadOnFreed ==
    /\ opc = "freed"
    /\ tpc \in {"start", "query", "size", "read", "loop", "pdu"}
    /\ tpc' = "undefined"
    /\ UNCHANGED <<priv, events, stream, opc, live, client, history>>

ThreadStep ==
    \/ ThreadStarts \/ WaitFails \/ ThreadStops \/ ThreadWakes \/ QueryReady
    \/ ReadMessage \/ NextPdu \/ ThreadOnFreed
    \/ \E b \in BOOLEAN : ReadSize(b) \/ ReceivePdu(b)

-----------------------------------------------------------------------------
(* Close and context_free. *)

CloseBegins ==
    /\ opc = "idle"
    /\ opc' = "closing"
    /\ stopEvent' = IF thread /\ stopEvent = "unset" THEN "set" ELSE stopEvent
    /\ UNCHANGED <<channel, channelEvent, thread, isReady, tpc, events, stream, live,
                   client, history>>

\* Mutant of ThreadOver: close does not wait.
ThreadOverAlways == TRUE

\* WaitForSingleObject(priv->thread)
ThreadOver == thread => tpc = "ended"

\* WaitForSingleObject fails: close returns with everything as it is, and the owner
\* may close again; context_free does not look at the error and frees the data.
CloseFails(free) ==
    /\ opc = "closing"
    /\ thread
    /\ opc' = IF free THEN "freed" ELSE "idle"
    /\ unwaited' = TRUE
    /\ UNCHANGED <<priv, tpc, events, stream, live, client, opens, faults, bad>>

\* isReady and channelEvent are left as they are.
CloseEnds(free) ==
    /\ opc = "closing"
    /\ ThreadOver
    /\ opc' = IF free THEN "freed" ELSE "idle"
    /\ thread' = FALSE
    /\ stopEvent' = IF thread THEN "null" ELSE stopEvent
    /\ tpc' = IF thread /\ tpc = "ended" THEN "none" ELSE tpc
    /\ live' = live \ {channel}
    /\ channel' = NULL
    /\ unwaited' = FALSE
    /\ Fresh
    /\ UNCHANGED <<channelEvent, isReady, events, stream, opens, faults, bad>>

-----------------------------------------------------------------------------
(* Sending, and the client. *)

\* A sender; a PDU it refuses, or that cannot be written, changes nothing.
Send(m) ==
    /\ opc = "idle"
    /\ Accepts(m)
    /\ channel \in live /\ ready /\ ~gone
    /\ wire = NoPdu
    /\ wire' = m
    /\ UNCHANGED <<priv, tpc, events, stream, opc, live, ready, gone, inbox, history>>

\* The client opens its end of the channel, or does not; later it may go.
Connect ==
    /\ channel \in live /\ ~ready /\ ~gone
    /\ Len(inbox) < MaxMessages
    /\ ready' = TRUE
    /\ inbox' = Append(inbox, Note)
    /\ UNCHANGED <<priv, tpc, events, stream, opc, live, gone, wire, history>>

Disconnect ==
    /\ channel \in live /\ ~gone
    /\ gone' = TRUE
    /\ UNCHANGED <<priv, tpc, events, stream, opc, live, ready, inbox, wire, history>>

\* WSLDVCCallback reads the PDU and answers capabilities with its own, unless it
\* cannot do what they ask for.
ClientReads(able) ==
    /\ wire # NoPdu /\ ~gone
    /\ Len(inbox) < MaxMessages
    /\ inbox' = IF able /\ wire.cmd = "caps" /\ ReadPdu(wire, Sent(wire)).status = "reading"
                THEN Append(inbox, <<"caps">>) ELSE inbox
    /\ wire' = NoPdu
    /\ UNCHANGED <<priv, tpc, events, stream, opc, live, ready, gone, history>>

\* A client of another make sends a message of its own.
ClientSends(m) ==
    /\ channel \in live /\ ready /\ ~gone
    /\ Len(inbox) < MaxMessages
    /\ inbox' = Append(inbox, m)
    /\ UNCHANGED <<priv, tpc, events, stream, opc, live, ready, gone, wire, history>>

-----------------------------------------------------------------------------
OwnerStep ==
    \/ \E b, c \in BOOLEAN : OpenSucceeds(b, c)
    \/ \E stage \in {"session", "channel", "event"} : OpenFails(stage)
    \/ \E b \in BOOLEAN : CloseEnds(b) \/ CloseFails(b)
    \/ CloseBegins
    \/ \E m \in Pdus : Send(m)

ClientStep ==
    \/ Connect
    \/ Disconnect
    \/ \E b \in BOOLEAN : ClientReads(b)
    \/ \E m \in ClientMessages : ClientSends(m)

Next == OwnerStep \/ ThreadStep \/ WaitBreaks \/ ClientStep

\* The thread runs, and close goes on once the thread has ended.
Fairness == WF_vars(ThreadStep) /\ WF_vars(\E b \in BOOLEAN : CloseEnds(b))

Spec == Init /\ [][Next]_vars /\ Fairness

-----------------------------------------------------------------------------
(* Properties. *)

Calling == tpc \in {"query", "size", "read"}

\* Every variable has its type.
TypeOK ==
    /\ channel \in Handle \cup {NULL} /\ channelEvent \in Handle \cup {NULL}
    /\ thread \in BOOLEAN /\ isReady \in BOOLEAN
    /\ stopEvent \in {"null", "unset", "set"}
    /\ tpc \in {"none", "start", "wait", "query", "size", "read", "loop", "pdu", "ended",
               "undefined"}
    /\ events \in [stop : BOOLEAN, channel : Handle \cup {NULL}]
    /\ stream \in Message
    /\ opc \in {"idle", "closing", "freed"}
    /\ live \subseteq Handle
    /\ ready \in BOOLEAN /\ gone \in BOOLEAN /\ bad \in BOOLEAN /\ unwaited \in BOOLEAN
    /\ inbox \in Seq(Message)
    /\ wire \in Pdus \cup {NoPdu}
    /\ opens \in 0..MaxOpens
    /\ faults \subseteq {"event", "thread", "early"}

\* The thread never hands a closed channel to the channel manager, nor is it there
\* when the private data are freed, but for the one case in which it uses them all
\* the same: close could not wait for it, and context_free ignores that (:707-712,
\* :779-787).
NoCallOnClosed ==
    /\ Calling => channel \in live
    /\ opc = "freed" /\ tpc # "none" => unwaited
    /\ tpc = "undefined" => opc = "freed"

\* No channel is left open that the context no longer knows, through the failures of
\* open, close and free (:686-690, :720-724), but for the channel of a context that
\* is freed although close could not wait for the thread (:707-712, :779-787).
NoChannelLeaked ==
    live \subseteq (IF opc = "freed" /\ ~unwaited THEN {} ELSE {channel})

\* The comment at :144: a channel is read only once it has reported that it is
\* ready.  close does not reset isReady, so this is true of a context's first
\* channel only.
FirstReadIsReady == (tpc \in {"size", "read"} /\ opens = 1) => ready

\* The thread ends at the first error, ERROR_NO_DATA included (:225), and is not
\* replaced; yet it never ends by itself before the client goes or sends what is
\* not handled, but for one case: isReady left set by the channel before, so that
\* it reads a channel that is still being connected (:145, :698).
EndsForCause ==
    /\ tpc = "ended" => stopEvent = "set" \/ gone \/ bad \/ faults # {}
    /\ "early" \in faults => opens > 1

\* The stream a sender allocates holds exactly what it then writes, and that is
\* the length in the header (:251, :260).
FillsItsStream == wire # NoPdu => Sent(wire).position = HeaderLength(wire)

\* What the client accepts it has read as it was written, to the last byte: the
\* header's length is never used to find the next PDU (WSLDVCCallback.cpp:1011).
ReadBack ==
    wire # NoPdu /\ wire.cmd # "provider" =>
        LET r == ReadPdu(wire, Sent(wire))
        IN r.status # "garbled" /\ (r.status = "reading" => r.left = 0)

\* A PDU the server has sent with what the protocol requires is refused by the
\* client only if a string fills the last two bytes of its buffer, or more.
OnlyLongStringsRefused ==
    wire # NoPdu /\ wire.cmd # "provider" /\ ReadPdu(wire, Sent(wire)).status = "refused" =>
        \/ ~(RequiredFlags[wire.cmd] \subseteq wire.fields)
        \/ \E f \in Written(wire) \cap NonEmpty : wire.len[f] = 0
        \/ wire.cmd = "caps" /\ wire.version < 4
        \/ \E f \in Written(wire) : wire.len[f] > MaxString - 2

\* The thread handles one PDU over and over: its length is 0 and the owner's callback
\* succeeds each time (:102-109, :177).
Spinning == tpc \in {"loop", "pdu"} /\ stream # <<>> /\ Head(stream) = "rewind"

\* close returns: the thread ends once the stop event is set, or could not be
\* created, or the wait for it fails; whatever the client does but to send a PDU of
\* length 0, on which the thread may spin for ever and never look at the event.
CloseReturns == opc = "closing" ~> (opc # "closing" \/ []Spinning)

\* What a connected client says does not stay on the channel: some of it is taken
\* off, unless the thread has ended or spins on a PDU of length 0, the context is
\* closed, or open did not create what it should and reported success (:685).
Served ==
    \A n \in 1..MaxMessages :
        (ready /\ Len(inbox) = n /\ faults = {}) ~>
            (Len(inbox) # n \/ tpc = "ended" \/ []Spinning \/ opc # "idle")
=============================================================================
