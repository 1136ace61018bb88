------------------------ MODULE AppListServer_proofs ------------------------
(***************************************************************************)
(* Proofs about AppListServer: for any PDUs, any number of opens and any   *)
(* client, the thread never uses a closed channel, and neither outlives    *)
(* the context unless close could not wait for the thread; the thread ends *)
(* only for a cause; and what a sender writes the client reads.            *)
(***************************************************************************)
EXTENDS AppListServer, TLAPS

\* It is inside handle_messages.
Working == Calling \/ tpc \in {"loop", "pdu"}

\* Who knows which channel: the context knows every open one, the thread exists
\* only while there is one, and both are there after free only if close failed.
HandlesInv ==
    /\ live \subseteq {channel}
    /\ channel # NULL => channel \in live
    /\ thread <=> tpc # "none"
    /\ thread => channel # NULL
    /\ opc = "freed" => channel = NULL \/ unwaited
    /\ tpc = "undefined" => opc = "freed"

\* The events the thread waits for are those of the open channel.
EventsInv ==
    /\ tpc = "start" => channelEvent = channel
    /\ tpc = "start" /\ stopEvent = "null" => faults # {}
    /\ tpc = "wait" \/ Working => events.channel = channel
    /\ tpc = "wait" /\ ~events.stop => faults # {}
    /\ Working => events.stop

\* isReady is right about a context's first channel.
ReadyInv ==
    /\ isReady => opens >= 1
    /\ channel <= opens
    /\ isReady /\ opens = 1 /\ channel # NULL => ready
    /\ tpc \in {"size", "read"} => isReady
    /\ tpc \in {"query", "size"} => Signaled
    /\ tpc = "read" => inbox # <<>>
    /\ tpc = "pdu" => stream # <<>>

IInv == TypeOK /\ HandlesInv /\ EventsInv /\ ReadyInv /\ EndsForCause

LEMMA InitInv == Init => IInv
<1> SUFFICES ASSUME Init PROVE IInv
  OBVIOUS
<1>1. TypeOK
  <2>1. inbox \in Seq(Message) /\ opens \in 0..MaxOpens /\ stream \in Message
    BY BoundsAssumption DEF Init, Message
  <2> QED
    BY <2>1 DEF Init, TypeOK
<1>2. HandlesInv /\ EventsInv /\ ReadyInv /\ EndsForCause
  BY DEF Init, HandlesInv, EventsInv, ReadyInv, EndsForCause, Working, Calling, NULL
<1> QED
  BY <1>1, <1>2 DEF IInv

LEMMA OpenFailsInv == ASSUME NEW stage, IInv, OpenFails(stage) PROVE IInv'
<1> USE DEF OpenFails, OutClose, client, IInv
<1>0. opens' \in 0..MaxOpens /\ opens <= opens' /\ live' \subseteq live
  BY BoundsAssumption DEF TypeOK, HandlesInv, NULL, Handle
<1>1. TypeOK'
  BY <1>0 DEF TypeOK
<1>2. ~thread /\ tpc = "none" /\ channel = NULL
  BY DEF HandlesInv
<1>3. HandlesInv'
  BY <1>2 DEF HandlesInv
<1>4. EventsInv'
  BY <1>2 DEF EventsInv, Working, Calling
<1>5. ReadyInv'
  BY <1>0, <1>2 DEF ReadyInv, NULL, TypeOK
<1>6. EndsForCause'
  BY <1>0, <1>2 DEF EndsForCause, TypeOK
<1> QED
  BY <1>1, <1>3, <1>4, <1>5, <1>6

LEMMA OpenSucceedsInv ==
    ASSUME NEW event \in BOOLEAN, NEW created \in BOOLEAN, IInv, OpenSucceeds(event, created)
    PROVE  IInv'
<1> USE DEF OpenSucceeds, Fresh, IInv
<1>0. opens + 1 \in Handle /\ opens' \in 0..MaxOpens /\ opens + 1 # NULL
  BY BoundsAssumption DEF TypeOK, NULL, Handle
<1>1. TypeOK'
  <2>1. inbox' \in Seq(Message) /\ faults' \subseteq {"event", "thread", "early"}
    OBVIOUS
  <2> QED
    BY <1>0, <2>1 DEF TypeOK
<1>2. ~thread /\ tpc = "none" /\ live = {}
  BY DEF HandlesInv, TypeOK, NULL, Handle
<1>3. HandlesInv'
  BY <1>0, <1>2 DEF HandlesInv
<1>4. EventsInv'
  BY <1>2 DEF EventsInv, Working, Calling
<1>5. ReadyInv'
  BY <1>0 DEF ReadyInv, NULL, TypeOK
<1>6. EndsForCause'
  BY <1>2 DEF EndsForCause
<1> QED
  BY <1>1, <1>3, <1>4, <1>5, <1>6

LEMMA ThreadStartsInv == IInv /\ ThreadStarts => IInv'
<1> SUFFICES ASSUME IInv, ThreadStarts PROVE IInv'
  OBVIOUS
<1> USE DEF ThreadStarts, At, priv, client, history, IInv
<1>1. TypeOK'
  BY DEF TypeOK
<1>2. HandlesInv'
  BY DEF HandlesInv
<1>3. EventsInv'
  BY DEF EventsInv, Working, Calling
<1>4. ReadyInv' /\ EndsForCause'
  BY DEF ReadyInv, EndsForCause, Signaled
<1> QED
  BY <1>1, <1>2, <1>3, <1>4

\* The thread ends or goes to a call, and nothing but its own state changes.
LEMMA WaitInv == IInv /\ (WaitFails \/ WaitBreaks \/ ThreadStops \/ ThreadWakes) => IInv'
<1> SUFFICES ASSUME IInv, WaitFails \/ WaitBreaks \/ ThreadStops \/ ThreadWakes PROVE IInv'
  OBVIOUS
<1> USE DEF WaitFails, WaitBreaks, ThreadStops, ThreadWakes, At, Ends, priv, client, history, IInv
<1>1. TypeOK'
  BY ZenonT(40) DEF TypeOK
<1>2. HandlesInv'
  BY DEF HandlesInv
<1>3. EventsInv'
  BY DEF EventsInv, Working, Calling, Invalid
<1>4. ReadyInv'
  BY DEF ReadyInv, Signaled
<1>5. EndsForCause'
  <2>1. CASE WaitFails
    <3>1. events.channel \in live
      BY <2>1 DEF EventsInv, HandlesInv
    <3> QED
      BY <2>1, <3>1 DEF EndsForCause, EventsInv, Invalid
  <2> QED
    BY <2>1 DEF EndsForCause
<1> QED
  BY <1>1, <1>2, <1>3, <1>4, <1>5

LEMMA QueryReadyInv == IInv /\ QueryReady => IInv'
<1> SUFFICES ASSUME IInv, QueryReady PROVE IInv'
  OBVIOUS
<1> USE DEF QueryReady, At, Ends, Reported, client, history, IInv
<1>0. channel # NULL /\ channel \in live
  BY DEF HandlesInv
<1>1. TypeOK'
  BY DEF TypeOK
<1>2. HandlesInv'
  BY DEF HandlesInv
<1>3. EventsInv'
  BY DEF EventsInv, Working, Calling
<1>4. ReadyInv'
  BY <1>0 DEF ReadyInv, Signaled, TypeOK, NULL, Handle
<1>5. EndsForCause'
  BY <1>0 DEF EndsForCause
<1> QED
  BY <1>1, <1>2, <1>3, <1>4, <1>5

LEMMA ReadSizeInv == ASSUME NEW memory \in BOOLEAN, IInv, ReadSize(memory) PROVE IInv'
<1> USE DEF ReadSize, At, Ends, AfterMessage, priv, IInv
<1>0. channel # NULL /\ channel \in live /\ opens >= 1
  BY DEF HandlesInv, ReadyInv
<1>1. TypeOK'
  <2>1. inbox' \in Seq(Message)
    BY <1>0 DEF TypeOK
  <2>2. bad' \in BOOLEAN
    BY <1>0 DEF TypeOK
  <2>3. faults' \subseteq {"event", "thread", "early"}
    BY <1>0 DEF TypeOK
  <2> QED
    BY <1>0, <2>1, <2>2, <2>3 DEF TypeOK
<1>2. HandlesInv'
  BY <1>0 DEF HandlesInv
<1>3. EventsInv'
  BY <1>0 DEF EventsInv, Working, Calling
<1>4. ReadyInv'
  BY <1>0 DEF ReadyInv, Signaled
<1>5. EndsForCause'
  <2>1. CASE inbox = <<>>
    <3>1. gone \/ ~ready
      BY <2>1 DEF ReadyInv, Signaled
    <3>2. ~ready => opens > 1
      BY <1>0 DEF ReadyInv, TypeOK
    <3> QED
      BY <1>0, <2>1, <3>1, <3>2 DEF EndsForCause
  <2>2. CASE inbox # <<>>
    BY <1>0, <2>2 DEF EndsForCause
  <2> QED
    BY <2>1, <2>2
<1> QED
  BY <1>1, <1>2, <1>3, <1>4, <1>5

LEMMA ReadMessageInv == IInv /\ ReadMessage => IInv'
<1> SUFFICES ASSUME IInv, ReadMessage PROVE IInv'
  OBVIOUS
<1> USE DEF ReadMessage, At, priv, history, IInv
<1>0. channel \in live /\ inbox # <<>>
  BY DEF HandlesInv, ReadyInv
<1>1. TypeOK'
  <2>1. inbox' \in Seq(Message) /\ stream' \in Message
    BY <1>0 DEF TypeOK
  <2> QED
    BY <1>0, <2>1 DEF TypeOK
<1>2. HandlesInv'
  BY <1>0 DEF HandlesInv
<1>3. EventsInv'
  BY <1>0 DEF EventsInv, Working, Calling
<1>4. ReadyInv'
  BY <1>0 DEF ReadyInv, Signaled
<1>5. EndsForCause'
  BY <1>0 DEF EndsForCause
<1> QED
  BY <1>1, <1>2, <1>3, <1>4, <1>5

\* Of the message only the stream changes; an error is a cause to end.
LEMMA PduInv == ASSUME NEW callback \in BOOLEAN, IInv, NextPdu \/ ReceivePdu(callback) PROVE IInv'
<1> USE DEF NextPdu, ReceivePdu, At, Ends, AfterMessage, priv, client, history, IInv
<1>1. TypeOK'
  <2>1. stream' \in Message
    <3>1. CASE NextPdu
      BY <3>1 DEF TypeOK
    <3>2. CASE ReceivePdu(callback)
      <4>1. stream \in Seq(ClientPdu) /\ stream # <<>>
        BY <3>2 DEF TypeOK, Message, ReadyInv
      <4>2. Tail(stream) \in Seq(ClientPdu) /\ <<>> \in Seq(ClientPdu)
        BY <4>1
      <4>3. stream' = stream \/ stream' = Tail(stream) \/ stream' = <<>>
        BY <3>2 DEF AfterPdu
      <4> QED
        BY <4>1, <4>2, <4>3, Zenon DEF Message
    <3> QED
      BY <3>1, <3>2
  <2>2. bad' \in BOOLEAN
    BY DEF TypeOK
  <2> QED
    BY <2>1, <2>2, ZenonT(40) DEF TypeOK
<1>2. HandlesInv'
  BY DEF HandlesInv
<1>3. EventsInv'
  BY DEF EventsInv, Working, Calling
<1>4. ReadyInv'
  BY DEF ReadyInv, Signaled
<1>5. EndsForCause'
  BY DEF EndsForCause
<1> QED
  BY <1>1, <1>2, <1>3, <1>4, <1>5

LEMMA FreedInv == IInv /\ ThreadOnFreed => IInv'
<1> SUFFICES ASSUME IInv, ThreadOnFreed PROVE IInv'
  OBVIOUS
<1> USE DEF ThreadOnFreed, priv, client, history, IInv
<1>1. TypeOK'
  BY DEF TypeOK
<1>2. HandlesInv' /\ EventsInv'
  BY DEF HandlesInv, EventsInv, Working, Calling
<1>3. ReadyInv' /\ EndsForCause'
  BY DEF ReadyInv, EndsForCause, Signaled
<1> QED
  BY <1>1, <1>2, <1>3

LEMMA CloseInv ==
    ASSUME NEW free \in BOOLEAN, IInv, CloseBegins \/ CloseEnds(free) \/ CloseFails(free)
    PROVE  IInv'
<1> USE DEF CloseBegins, CloseEnds, CloseFails, priv, ThreadOver, Fresh, client, history, IInv
<1>1. TypeOK'
  <2>1. inbox' = inbox \/ inbox' = <<>>
    OBVIOUS
  <2>2. inbox \in Seq(Message) /\ <<>> \in Seq(Message)
    BY DEF TypeOK
  <2>3. inbox' \in Seq(Message)
    BY <2>1, <2>2, Zenon
  <2> QED
    BY <2>3, ZenonT(40) DEF TypeOK
<1>2. HandlesInv'
  BY DEF HandlesInv
<1>3. EventsInv'
  BY DEF EventsInv, Working, Calling, HandlesInv
<1>4. ReadyInv'
  BY DEF ReadyInv, Signaled, HandlesInv, NULL, TypeOK
<1>5. EndsForCause'
  BY DEF EndsForCause, HandlesInv
<1> QED
  BY <1>1, <1>2, <1>3, <1>4, <1>5

LEMMA ClientInv ==
    ASSUME IInv, ClientStep \/ \E m \in Pdus : Send(m)
    PROVE  IInv'
<1> USE DEF ClientStep, Connect, Disconnect, ClientReads, ClientSends, Send, IInv
<1>0. UNCHANGED <<priv, tpc, events, stream, opc, live, history>>
  OBVIOUS
<1>1. inbox' \in Seq(Message) /\ (inbox # <<>> => inbox' # <<>>)
  <2>1. \/ inbox' = inbox
        \/ \E msg \in Message : inbox' = Append(inbox, msg)
    <3>1. Note \in Message /\ <<"caps">> \in Message /\ ClientMessages \subseteq Message
      BY ClientAssumption DEF Note, Message, ClientPdu
    <3> QED
      BY <3>1
  <2>2. inbox \in Seq(Message)
    BY DEF TypeOK
  <2> QED
    BY <2>1, <2>2
<1>2. wire' \in Pdus \cup {NoPdu} /\ ready' \in BOOLEAN /\ gone' \in BOOLEAN
  BY DEF TypeOK
<1>3. TypeOK'
  BY <1>0, <1>1, <1>2 DEF TypeOK, priv, history
<1>4. HandlesInv'
  BY <1>0 DEF HandlesInv, priv, history
<1>5. EventsInv'
  BY <1>0 DEF EventsInv, Working, Calling, priv, history
<1>6. (ready => ready') /\ (gone => gone') /\ (ready' /\ ~ready => inbox' # <<>>)
  <2>1. ASSUME Connect PROVE inbox' # <<>>
    BY <2>1 DEF TypeOK
  <2> QED
    BY <2>1
<1>7. ReadyInv'
  BY <1>0, <1>1, <1>6 DEF ReadyInv, Signaled, priv, history
<1>8. EndsForCause'
  BY <1>0, <1>6 DEF EndsForCause, priv, history
<1> QED
  BY <1>3, <1>4, <1>5, <1>7, <1>8

LEMMA StepInv == IInv /\ [Next]_vars => IInv'
<1> SUFFICES ASSUME IInv, [Next]_vars PROVE IInv'
  OBVIOUS
<1>1. CASE OwnerStep
  BY <1>1, OpenSucceedsInv, OpenFailsInv, CloseInv, ClientInv DEF OwnerStep
<1>2. CASE ThreadStep
  BY <1>2, ThreadStartsInv, WaitInv, QueryReadyInv, ReadSizeInv, ReadMessageInv, PduInv,
     FreedInv DEF ThreadStep
<1>3. CASE ClientStep \/ WaitBreaks
  BY <1>3, ClientInv, WaitInv
<1>4. CASE UNCHANGED vars
  BY <1>4 DEF vars, priv, client, history, IInv, TypeOK, HandlesInv, EventsInv, ReadyInv,
              EndsForCause, Signaled, Working, Calling
<1> QED
  BY <1>1, <1>2, <1>3, <1>4 DEF Next

LEMMA AlwaysInv == Spec => []IInv
  BY InitInv, StepInv, PTL DEF Spec

\* Every variable keeps its type (rdpapplist_main.c, all handlers).
THEOREM TypeCorrect == Spec => []TypeOK
<1>1. IInv => TypeOK
  BY DEF IInv
<1> QED
  BY <1>1, AlwaysInv, PTL

\* The thread never uses a closed channel, and is gone when the private data are
\* freed unless close could not wait for it (:703-724, :707-712, :779-787).
THEOREM ThreadStopsFirst == Spec => []NoCallOnClosed
<1>1. IInv => NoCallOnClosed
  BY DEF IInv, HandlesInv, NoCallOnClosed, Calling
<1> QED
  BY <1>1, AlwaysInv, PTL

\* Every open channel is the one the context knows, and none is open once the context
\* is freed unless close could not wait for the thread (:686-690, :720-724, :779-787).
THEOREM NothingLeaked == Spec => []NoChannelLeaked
<1>1. IInv => NoChannelLeaked
  BY DEF IInv, TypeOK, HandlesInv, NoChannelLeaked, Handle, NULL
<1> QED
  BY <1>1, AlwaysInv, PTL

\* isReady is right about a context's first channel (:128-145).
THEOREM FirstChannelReady == Spec => []FirstReadIsReady
<1>1. IInv => FirstReadIsReady
  BY DEF IInv, HandlesInv, ReadyInv, FirstReadIsReady
<1> QED
  BY <1>1, AlwaysInv, PTL

\* The thread ends for a cause, and reads too early only on a later channel
\* (:134, :145, :225).
THEOREM NoIdleEnd == Spec => []EndsForCause
<1>1. IInv => EndsForCause
  BY DEF IInv
<1> QED
  BY <1>1, AlwaysInv, PTL
-----------------------------------------------------------------------------
(* What is written is read. *)

Token == [size : Nat, value : Nat]
Stream == [tokens : Seq(Token), position : Nat]

\* The stream t begins with the tokens of s.
Begins(s, t) ==
    /\ s \in Stream /\ t \in Stream
    /\ s.position <= t.position /\ Len(s.tokens) <= Len(t.tokens)
    /\ \A i \in 1..Len(s.tokens) : t.tokens[i] = s.tokens[i]

\* A reader of t has read what s holds of it.
Reading(r, s, t) ==
    /\ r = [tokens |-> t.tokens, cur |-> Len(s.tokens) + 1,
            left |-> t.position - s.position, status |-> "reading"]

\* Writing adds to a stream, and moves its position by what is written.
LEMMA WriteAdds ==
    ASSUME NEW s \in Stream, NEW size \in Nat, NEW value \in Nat
    PROVE  /\ Begins(s, Write(s, size, value))
           /\ Write(s, size, value).position = s.position + size
<1>1. CASE size = 0
  BY <1>1 DEF Write, Begins, Stream
<1>2. CASE size # 0
  <2> DEFINE e == [size |-> size, value |-> value]
             w == [tokens |-> Append(s.tokens, e), position |-> s.position + size]
  <2>1. Write(s, size, value) = w
    BY <1>2 DEF Write
  <2>2. s.tokens \in Seq(Token) /\ s.position \in Nat /\ e \in Token
    BY DEF Stream, Token
  <2> HIDE DEF e
  <2>3. /\ Append(s.tokens, e) \in Seq(Token) /\ Len(Append(s.tokens, e)) = Len(s.tokens) + 1
        /\ \A i \in 1..Len(s.tokens) : Append(s.tokens, e)[i] = s.tokens[i]
    BY <2>2
  <2>4. w \in Stream /\ w.tokens = Append(s.tokens, e) /\ w.position = s.position + size
    BY <2>2, <2>3 DEF Stream
  <2> HIDE DEF w
  <2>5. Len(s.tokens) <= Len(w.tokens) /\ s.position <= w.position
    BY <2>2, <2>3, <2>4
  <2>6. \A i \in 1..Len(s.tokens) : w.tokens[i] = s.tokens[i]
    BY <2>3, <2>4
  <2> QED
    BY <2>1, <2>4, <2>5, <2>6 DEF Begins
<1> QED
  BY <1>1, <1>2

\* Both are streams.
LEMMA BeginsStream == ASSUME NEW s, NEW t, Begins(s, t) PROVE s \in Stream /\ t \in Stream
  BY DEF Begins

\* A stream that begins with more begins with less.
LEMMA BeginsTrans ==
    ASSUME NEW s, NEW t, NEW u, Begins(s, t), Begins(t, u)
    PROVE  Begins(s, u)
<1>1. s \in Stream /\ t \in Stream /\ u \in Stream
  BY DEF Begins
<1>2. Len(s.tokens) \in Nat /\ Len(t.tokens) \in Nat /\ Len(u.tokens) \in Nat
  BY <1>1 DEF Stream
<1>3. s.position \in Nat /\ t.position \in Nat /\ u.position \in Nat
  BY <1>1 DEF Stream
<1>4. s.position <= u.position /\ Len(s.tokens) <= Len(u.tokens)
  BY <1>2, <1>3 DEF Begins
<1>5. ASSUME NEW i \in 1..Len(s.tokens) PROVE u.tokens[i] = s.tokens[i]
  BY <1>2, <1>5 DEF Begins
<1> QED
  BY <1>1, <1>4, <1>5 DEF Begins

\* A reader that has read what was written before a field reads that field.
LEMMA ReadsField ==
    ASSUME NEW s \in Stream, NEW t, NEW size \in Nat, NEW value \in Nat,
           Begins(Write(s, size, value), t), NEW r, Reading(r, s, t)
    PROVE  /\ Reading(Read(r, size), Write(s, size, value), t)
           /\ size # 0 => Value(r) = value
<1>1. CASE size = 0
  BY <1>1 DEF Write, Read, Reading
<1>2. CASE size # 0
  <2> DEFINE e == [size |-> size, value |-> value]
             w == Write(s, size, value)
  <2>1. w.tokens = Append(s.tokens, e) /\ w.position = s.position + size
    BY <1>2 DEF Write
  <2>2. s.tokens \in Seq(Token) /\ s.position \in Nat /\ e \in Token /\ e.size = size /\ e.value = value
    BY DEF Stream, Token
  <2>3. w \in Stream /\ t \in Stream
    BY DEF Begins
  <2>4. t.tokens \in Seq(Token) /\ t.position \in Nat
    BY <2>3 DEF Stream
  <2> DEFINE n == Len(s.tokens) + 1
  <2>5. /\ w.position <= t.position /\ Len(w.tokens) <= Len(t.tokens)
        /\ \A i \in 1..Len(w.tokens) : t.tokens[i] = w.tokens[i]
    BY DEF Begins
  <2> HIDE DEF w, e
  <2>6. n \in Nat /\ Len(w.tokens) = n /\ w.tokens[n] = e
    BY <2>1, <2>2
  <2>7. n \in 1..Len(t.tokens) /\ t.tokens[n] = e
    <3>1. n \in 1..n /\ n \in 1..Len(t.tokens)
      BY <2>2, <2>4, <2>5, <2>6
    <3> QED
      BY <2>5, <2>6, <3>1
  <2>8. DOMAIN t.tokens = 1..Len(t.tokens)
    BY <2>4
  <2>9. /\ r.status = "reading" /\ r.cur = n /\ r.left = t.position - s.position
        /\ r.tokens = t.tokens
        /\ r = [tokens |-> r.tokens, cur |-> r.cur, left |-> r.left, status |-> r.status]
    BY DEF Reading
  <2>10. Value(r) = value
    BY <2>2, <2>7, <2>8, <2>9 DEF Value
  <2>11. ~(size > r.left) /\ r.left - size = t.position - w.position
    BY <2>1, <2>2, <2>4, <2>5, <2>9
  <2>12. r.tokens[r.cur].size = size
    BY <2>2, <2>7, <2>9
  <2>13. Read(r, size) = [r EXCEPT !.cur = r.cur + 1, !.left = r.left - size]
    BY <1>2, <2>9, <2>11, <2>12 DEF Read
  <2>14. r.cur + 1 = Len(w.tokens) + 1
    BY <2>6, <2>9
  <2>15. Reading(Read(r, size), w, t)
    BY <2>9, <2>11, <2>13, <2>14 DEF Reading
  <2> QED
    BY <2>10, <2>15 DEF w
<1> QED
  BY <1>1, <1>2

\* So does a string, behind its length.
LEMMA TextAdds ==
    ASSUME NEW s \in Stream, NEW n \in Nat
    PROVE  /\ Begins(s, WriteText(s, n)) /\ Begins(Write(s, 2, n), WriteText(s, n))
           /\ WriteText(s, n).position = s.position + 2 + n
<1>1. Begins(s, Write(s, 2, n)) /\ Write(s, 2, n).position = s.position + 2
  BY WriteAdds
<1>2. Write(s, 2, n) \in Stream
  BY <1>1 DEF Begins
<1>3. /\ Begins(Write(s, 2, n), Write(Write(s, 2, n), n, 0))
      /\ Write(Write(s, 2, n), n, 0).position = Write(s, 2, n).position + n
  BY <1>2, WriteAdds
<1>4. Begins(s, Write(Write(s, 2, n), n, 0))
  BY <1>1, <1>3, BeginsTrans
<1>5. WriteText(s, n) = Write(Write(s, 2, n), n, 0)
  BY DEF WriteText
<1>6. s.position \in Nat
  BY DEF Stream
<1> QED
  BY <1>1, <1>3, <1>4, <1>5, <1>6

\* A string of the length that is written is read, or refused for its length.
LEMMA ReadsText ==
    ASSUME NEW s \in Stream, NEW t, NEW n \in Nat, NEW required \in BOOLEAN,
           Begins(WriteText(s, n), t), NEW r, Reading(r, s, t)
    PROVE  \/ Reading(ReadText(r, required), WriteText(s, n), t)
           \/ /\ ReadText(r, required).status = "refused"
              /\ ~StringFits(n) \/ (n = 0 /\ required)
<1> DEFINE u == Write(s, 2, n)
<1>1. Begins(s, u) /\ Begins(u, WriteText(s, n))
  BY WriteAdds, TextAdds
<1>2. u \in Stream /\ Begins(u, t)
  BY <1>1, BeginsTrans DEF Begins
<1>3. Reading(Read(r, 2), u, t) /\ Value(r) = n
  BY <1>2, ReadsField
<1>4. Read(r, 2).status = "reading"
  BY <1>3 DEF Reading
<1>5. CASE ~StringFits(n) \/ (n = 0 /\ required)
  <2>1. ReadText(r, required) = Stop(Read(r, 2), "refused")
    BY <1>3, <1>4, <1>5 DEF ReadText
  <2>2. Stop(Read(r, 2), "refused").status = "refused"
    BY <1>3 DEF Stop, Reading
  <2> QED
    BY <1>5, <2>1, <2>2
<1>6. CASE ~(~StringFits(n) \/ (n = 0 /\ required))
  <2>1. ReadText(r, required) = Read(Read(r, 2), n)
    BY <1>3, <1>4, <1>6 DEF ReadText
  <2>2. WriteText(s, n) = Write(u, n, 0)
    BY DEF WriteText
  <2>3. Reading(Read(Read(r, 2), n), Write(u, n, 0), t)
    BY <1>2, <1>3, <2>2, ReadsField
  <2> QED
    BY <2>1, <2>2, <2>3
<1> QED
  BY <1>5, <1>6

\* Why the client may refuse the strings of a PDU.
BadString(m) ==
    \/ \E f \in Written(m) \cap NonEmpty : m.len[f] = 0
    \/ \E f \in Written(m) : m.len[f] > MaxString - 2

\* A reader has read what s holds, or has refused a string for what it is.
ReadSoFar(r, s, t, m) == Reading(r, s, t) \/ (r.status = "refused" /\ BadString(m))

\* The fields of a PDU.
LEMMA PduFacts ==
    ASSUME NEW m \in Pdu
    PROVE  /\ m.cmd \in Command /\ m.version \in Nat /\ m.bits \in Nat
           /\ \A f \in StringField : m.len[f] \in Nat
  BY DEF Pdu, UINT16

\* The strings of a PDU, their names and their lengths.
LEMMA StringFacts ==
    ASSUME NEW m \in Pdu, NEW i \in 1..5, Has(m, i)
    PROVE  /\ Strings[m.cmd][i] \in Written(m)
           /\ m.len[Strings[m.cmd][i]] \in Nat
<1>1. m.cmd \in {"caps", "update", "delete", "provider", "window"}
  BY PduFacts DEF Command
<1>2. i \in DOMAIN Strings[m.cmd] /\ Carries(m, Strings[m.cmd][i])
  BY DEF Has
<1>3. Strings[m.cmd][i] \in StringField
  <2>1. CASE m.cmd = "caps"
    BY <1>2, <2>1 DEF Strings, StringField
  <2>2. CASE m.cmd = "update"
    BY <1>2, <2>2 DEF Strings, StringField
  <2>3. CASE m.cmd = "delete"
    BY <1>2, <2>3 DEF Strings, StringField
  <2>4. CASE m.cmd = "provider"
    BY <1>2, <2>4 DEF Strings, StringField
  <2>5. CASE m.cmd = "window"
    BY <1>2, <2>5 DEF Strings, StringField
  <2> QED
    BY <1>1, <2>1, <2>2, <2>3, <2>4, <2>5
<1>4. Strings[m.cmd][i] \in Written(m)
  BY <1>2, <1>3 DEF Written
<1> QED
  BY <1>3, <1>4, PduFacts

\* Writing a string of a PDU adds what its sender counted for it.
LEMMA StringAdds ==
    ASSUME NEW s \in Stream, NEW m \in Pdu, NEW i \in 1..5
    PROVE  /\ Begins(s, WriteString(s, m, i))
           /\ WriteString(s, m, i).position = s.position + TextLength(m, i)
           /\ TextLength(m, i) \in Nat
<1>0. s.position \in Nat
  BY DEF Stream
<1>1. CASE Has(m, i)
  <2> DEFINE n == m.len[Strings[m.cmd][i]]
  <2>1. n \in Nat
    BY <1>1, StringFacts
  <2>2. WriteString(s, m, i) = WriteText(s, n) /\ TextLength(m, i) = 2 + n
    BY <1>1 DEF WriteString, TextLength
  <2> HIDE DEF n
  <2>3. Begins(s, WriteText(s, n)) /\ WriteText(s, n).position = s.position + 2 + n
    BY <2>1, TextAdds
  <2> QED
    BY <1>0, <2>1, <2>2, <2>3
<1>2. CASE ~Has(m, i)
  <2>1. WriteString(s, m, i) = s /\ TextLength(m, i) = 0
    BY <1>2 DEF WriteString, TextLength
  <2>2. Begins(s, s)
    BY DEF Begins, Stream
  <2> QED
    BY <1>0, <2>1, <2>2
<1> QED
  BY <1>1, <1>2

\* The strings of one PDU, each written behind the one before.
LEMMA StringsAdd ==
    ASSUME NEW s \in Stream, NEW m \in Pdu
    PROVE  /\ Begins(s, WriteStrings(s, m))
           /\ WriteStrings(s, m).position =
                 s.position + TextLength(m, 1) + TextLength(m, 2) + TextLength(m, 3)
                            + TextLength(m, 4) + TextLength(m, 5)
<1> DEFINE s1 == WriteString(s, m, 1)
           s2 == WriteString(s1, m, 2)
           s3 == WriteString(s2, m, 3)
           s4 == WriteString(s3, m, 4)
           s5 == WriteString(s4, m, 5)
<1>0. s.position \in Nat
  BY DEF Stream
<1>1. Begins(s, s1) /\ s1.position = s.position + TextLength(m, 1) /\ TextLength(m, 1) \in Nat
  BY StringAdds
<1>2. s1 \in Stream
  BY <1>1 DEF Begins
<1>3. Begins(s1, s2) /\ s2.position = s1.position + TextLength(m, 2) /\ TextLength(m, 2) \in Nat
  BY <1>2, StringAdds
<1>4. s2 \in Stream
  BY <1>3 DEF Begins
<1>5. Begins(s2, s3) /\ s3.position = s2.position + TextLength(m, 3) /\ TextLength(m, 3) \in Nat
  BY <1>4, StringAdds
<1>6. s3 \in Stream
  BY <1>5 DEF Begins
<1>7. Begins(s3, s4) /\ s4.position = s3.position + TextLength(m, 4) /\ TextLength(m, 4) \in Nat
  BY <1>6, StringAdds
<1>8. s4 \in Stream
  BY <1>7 DEF Begins
<1>9. Begins(s4, s5) /\ s5.position = s4.position + TextLength(m, 5) /\ TextLength(m, 5) \in Nat
  BY <1>8, StringAdds
<1>10. WriteStrings(s, m) = s5
  BY DEF WriteStrings
<1> HIDE DEF s1, s2, s3, s4, s5
<1>11. Begins(s, s5)
  BY <1>1, <1>3, <1>5, <1>7, <1>9, BeginsTrans
<1> QED
  BY <1>0, <1>1, <1>3, <1>5, <1>7, <1>9, <1>10, <1>11

\* A reader that has read so far, or has refused, goes on so.
LEMMA ReadsOn ==
    ASSUME NEW s \in Stream, NEW t, NEW m, NEW size \in Nat, NEW value \in Nat,
           Begins(Write(s, size, value), t), NEW r, ReadSoFar(r, s, t, m)
    PROVE  ReadSoFar(Read(r, size), Write(s, size, value), t, m)
<1>1. CASE Reading(r, s, t)
  BY <1>1, ReadsField DEF ReadSoFar
<1>2. CASE r.status = "refused" /\ BadString(m)
  BY <1>2 DEF Read, ReadSoFar
<1> QED
  BY <1>1, <1>2 DEF ReadSoFar

\* Both sides have the strings of a PDU in one order, and agree on which are there.
LEMMA SameOrder ==
    ASSUME NEW m \in Pdu, m.cmd # "provider", m.cmd = "caps" => m.version >= 4
    PROVE  /\ StringsRead[m.cmd] = Strings[m.cmd]
           /\ \A f : Expects(m, f) <=> Carries(m, f)
<1>1. m.cmd \in {"caps", "update", "delete", "window"}
  BY PduFacts DEF Command
<1>2. StringsRead[m.cmd] = Strings[m.cmd]
  <2>1. CASE m.cmd = "caps"
    BY <2>1 DEF Strings, StringsRead
  <2>2. CASE m.cmd = "update"
    BY <2>2 DEF Strings, StringsRead
  <2>3. CASE m.cmd = "delete"
    BY <2>3 DEF Strings, StringsRead
  <2>4. CASE m.cmd = "window"
    BY <2>4 DEF Strings, StringsRead
  <2> QED
    BY <1>1, <2>1, <2>2, <2>3, <2>4
<1> QED
  BY <1>2 DEF Expects, Carries

\* The client reads a string that is there, or refuses it for its length.
LEMMA ReadsString ==
    ASSUME NEW s \in Stream, NEW t, NEW m \in Pdu, NEW i \in 1..5,
           m.cmd # "provider", m.cmd = "caps" => m.version >= 4,
           Begins(WriteString(s, m, i), t), NEW r, ReadSoFar(r, s, t, m)
    PROVE  ReadSoFar(ReadString(r, m, i), WriteString(s, m, i), t, m)
<1>1. CASE ~Has(m, i)
  <2>1. ReadString(r, m, i) = r
    BY <1>1, SameOrder DEF ReadString, Has
  <2> QED
    BY <1>1, <2>1 DEF WriteString
<1>2. CASE Has(m, i)
  <2> DEFINE f == Strings[m.cmd][i]
             n == m.len[f]
             required == f \in NonEmpty
  <2>1. n \in Nat /\ f \in Written(m)
    BY <1>2, StringFacts
  <2>2. ReadString(r, m, i) = ReadText(r, required)
    BY <1>2, SameOrder DEF ReadString, Has
  <2>3. WriteString(s, m, i) = WriteText(s, n)
    BY <1>2 DEF WriteString
  <2>4. CASE Reading(r, s, t)
    <3>1. required \in BOOLEAN
      OBVIOUS
    <3> HIDE DEF n, required
    <3>2. \/ Reading(ReadText(r, required), WriteText(s, n), t)
          \/ /\ ReadText(r, required).status = "refused"
             /\ ~StringFits(n) \/ (n = 0 /\ required)
      BY <2>1, <2>3, <2>4, <3>1, ReadsText
    <3>3. ~StringFits(n) \/ (n = 0 /\ required) => BadString(m)
      BY <2>1, MaxStringAssumption DEF BadString, StringFits, n, required
    <3> QED
      BY <2>2, <2>3, <3>2, <3>3 DEF ReadSoFar
  <2>5. CASE r.status = "refused" /\ BadString(m)
    <3>1. ReadText(r, required) = r
      BY <2>5 DEF ReadText, Read
    <3> QED
      BY <2>2, <2>5, <3>1 DEF ReadSoFar
  <2> QED
    BY <2>4, <2>5 DEF ReadSoFar
<1> QED
  BY <1>1, <1>2

\* So it goes through all of them.
LEMMA ReadsStrings ==
    ASSUME NEW s \in Stream, NEW t, NEW m \in Pdu,
           m.cmd # "provider", m.cmd = "caps" => m.version >= 4,
           Begins(WriteStrings(s, m), t), NEW r, ReadSoFar(r, s, t, m)
    PROVE  ReadSoFar(ReadStrings(r, m), WriteStrings(s, m), t, m)
<1> DEFINE s1 == WriteString(s, m, 1)
           s2 == WriteString(s1, m, 2)
           s3 == WriteString(s2, m, 3)
           s4 == WriteString(s3, m, 4)
           s5 == WriteString(s4, m, 5)
           r1 == ReadString(r, m, 1)
           r2 == ReadString(r1, m, 2)
           r3 == ReadString(r2, m, 3)
           r4 == ReadString(r3, m, 4)
           r5 == ReadString(r4, m, 5)
<1>1. WriteStrings(s, m) = s5 /\ ReadStrings(r, m) = r5
  BY DEF WriteStrings, ReadStrings
<1>2. Begins(s, s1) /\ s1 \in Stream
  BY StringAdds, BeginsStream
<1>3. Begins(s1, s2) /\ s2 \in Stream
  BY <1>2, StringAdds, BeginsStream
<1>4. Begins(s2, s3) /\ s3 \in Stream
  BY <1>3, StringAdds, BeginsStream
<1>5. Begins(s3, s4) /\ s4 \in Stream
  BY <1>4, StringAdds, BeginsStream
<1>6. Begins(s4, s5) /\ Begins(s5, t)
  BY <1>1, <1>5, StringAdds
<1>7. Begins(s4, t)
  BY <1>6, BeginsTrans
<1>8. Begins(s3, t)
  BY <1>5, <1>7, BeginsTrans
<1>9. Begins(s2, t)
  BY <1>4, <1>8, BeginsTrans
<1>10. Begins(s1, t)
  BY <1>3, <1>9, BeginsTrans
<1>11. ReadSoFar(r1, s1, t, m)
  BY <1>10, ReadsString
<1>12. ReadSoFar(r2, s2, t, m)
  BY <1>2, <1>9, <1>11, ReadsString
<1>13. ReadSoFar(r3, s3, t, m)
  BY <1>3, <1>8, <1>12, ReadsString
<1>14. ReadSoFar(r4, s4, t, m)
  BY <1>4, <1>7, <1>13, ReadsString
<1>15. ReadSoFar(r5, s5, t, m)
  BY <1>5, <1>6, <1>14, ReadsString
<1> QED
  BY <1>1, <1>15

\* Three numbers of an icon are written.
LEMMA ThreeAdd ==
    ASSUME NEW s \in Stream
    PROVE  Begins(s, WriteThree(s)) /\ WriteThree(s).position = s.position + 12
<1> DEFINE s1 == Write(s, 4, 0)
           s2 == Write(s1, 4, 0)
           s3 == Write(s2, 4, 0)
<1>0. s.position \in Nat
  BY DEF Stream
<1>1. Begins(s, s1) /\ s1.position = s.position + 4
  BY WriteAdds
<1>2. s1 \in Stream
  BY <1>1 DEF Begins
<1>3. Begins(s1, s2) /\ s2.position = s1.position + 4
  BY <1>2, WriteAdds
<1>4. s2 \in Stream
  BY <1>3 DEF Begins
<1>5. Begins(s2, s3) /\ s3.position = s2.position + 4
  BY <1>4, WriteAdds
<1>6. WriteThree(s) = s3
  BY DEF WriteThree
<1> HIDE DEF s1, s2, s3
<1>7. Begins(s, s3)
  BY <1>1, <1>3, <1>5, BeginsTrans
<1> QED
  BY <1>0, <1>1, <1>3, <1>5, <1>6, <1>7

\* And read.
LEMMA ReadsThree ==
    ASSUME NEW s \in Stream, NEW t, NEW m, Begins(WriteThree(s), t),
           NEW r, ReadSoFar(r, s, t, m)
    PROVE  ReadSoFar(ReadThree(r), WriteThree(s), t, m)
<1> DEFINE s1 == Write(s, 4, 0)
           s2 == Write(s1, 4, 0)
           s3 == Write(s2, 4, 0)
<1>1. WriteThree(s) = s3 /\ ReadThree(r) = Read(Read(Read(r, 4), 4), 4)
  BY DEF WriteThree, ReadThree
<1>2. Begins(s, s1) /\ s1 \in Stream
  BY WriteAdds, BeginsStream
<1>3. Begins(s1, s2) /\ s2 \in Stream
  BY <1>2, WriteAdds, BeginsStream
<1>4. Begins(s2, s3) /\ Begins(s3, t)
  BY <1>1, <1>3, WriteAdds
<1>5. Begins(s2, t)
  BY <1>4, BeginsTrans
<1>6. Begins(s1, t)
  BY <1>3, <1>5, BeginsTrans
<1>7. ReadSoFar(Read(r, 4), s1, t, m)
  BY <1>6, ReadsOn
<1>8. ReadSoFar(Read(Read(r, 4), 4), s2, t, m)
  BY <1>2, <1>5, <1>7, ReadsOn
<1>9. ReadSoFar(Read(Read(Read(r, 4), 4), 4), s3, t, m)
  BY <1>3, <1>4, <1>8, ReadsOn
<1> QED
  BY <1>1, <1>9

\* The icon adds seven numbers and the pixels.
LEMMA IconAdds ==
    ASSUME NEW s \in Stream, NEW m \in Pdu
    PROVE  /\ Begins(s, WriteIcon(s, m))
           /\ WriteIcon(s, m).position =
                 s.position + (IF HasIcon(m) THEN IconHeaderSize + m.bits ELSE 0)
<1>0. s.position \in Nat /\ m.bits \in Nat
  BY PduFacts DEF Stream
<1>1. CASE ~HasIcon(m)
  BY <1>0, <1>1 DEF WriteIcon, Begins, Stream
<1>2. CASE HasIcon(m)
  <2> DEFINE s1 == WriteThree(s)
             s2 == WriteThree(s1)
             s3 == Write(s2, 4, m.bits)
             s4 == Write(s3, m.bits, 0)
  <2>1. Begins(s, s1) /\ s1.position = s.position + 12
    BY ThreeAdd
  <2>2. s1 \in Stream
    BY <2>1 DEF Begins
  <2>3. Begins(s1, s2) /\ s2.position = s1.position + 12
    BY <2>2, ThreeAdd
  <2>4. s2 \in Stream
    BY <2>3 DEF Begins
  <2>5. Begins(s2, s3) /\ s3.position = s2.position + 4
    BY <1>0, <2>4, WriteAdds
  <2>6. s3 \in Stream
    BY <2>5 DEF Begins
  <2>7. Begins(s3, s4) /\ s4.position = s3.position + m.bits
    BY <1>0, <2>6, WriteAdds
  <2>8. WriteIcon(s, m) = s4
    BY <1>2 DEF WriteIcon
  <2> HIDE DEF s1, s2, s3, s4
  <2>9. Begins(s, s4)
    BY <2>1, <2>3, <2>5, <2>7, BeginsTrans
  <2>10. s4.position = s.position + (28 + m.bits)
    BY <1>0, <2>1, <2>3, <2>5, <2>7
  <2>11. IconHeaderSize = 28
    BY DEF IconHeaderSize
  <2> QED
    BY <1>2, <2>8, <2>9, <2>10, <2>11
<1> QED
  BY <1>1, <1>2

\* The client reads as many pixels as there are.
LEMMA ReadsIcon ==
    ASSUME NEW s \in Stream, NEW t, NEW m \in Pdu, HasIcon(m), Begins(WriteIcon(s, m), t),
           NEW r, ReadSoFar(r, s, t, m)
    PROVE  ReadSoFar(ReadIcon(r), WriteIcon(s, m), t, m)
<1> DEFINE s1 == WriteThree(s)
           s2 == WriteThree(s1)
           s3 == Write(s2, 4, m.bits)
           s4 == Write(s3, m.bits, 0)
           r1 == ReadThree(r)
           r2 == ReadThree(r1)
           r3 == Read(r2, 4)
<1>0. m.bits \in Nat
  BY PduFacts
<1>1. WriteIcon(s, m) = s4 /\ ReadIcon(r) = Read(r3, Value(r2))
  BY DEF WriteIcon, ReadIcon
<1>2. Begins(s, s1) /\ s1 \in Stream
  BY ThreeAdd, BeginsStream
<1>3. Begins(s1, s2) /\ s2 \in Stream
  BY <1>2, ThreeAdd, BeginsStream
<1>4. Begins(s2, s3) /\ s3 \in Stream
  BY <1>0, <1>3, WriteAdds, BeginsStream
<1>5. Begins(s3, s4) /\ Begins(s4, t)
  BY <1>0, <1>1, <1>4, WriteAdds
<1>6. Begins(s3, t)
  BY <1>5, BeginsTrans
<1>7. Begins(s2, t)
  BY <1>4, <1>6, BeginsTrans
<1>8. Begins(s1, t)
  BY <1>3, <1>7, BeginsTrans
<1>9. ReadSoFar(r1, s1, t, m)
  BY <1>8, ReadsThree
<1>10. ReadSoFar(r2, s2, t, m)
  BY <1>2, <1>7, <1>9, ReadsThree
<1>11. CASE Reading(r2, s2, t)
  <2>1. Reading(r3, s3, t) /\ Value(r2) = m.bits
    <3>1. PICK b \in Nat : b = m.bits
      BY <1>0
    <3>2. s2 \in Stream /\ s3 = Write(s2, 4, b)
      BY <1>3, <3>1
    <3> HIDE DEF s2, s3, r2
    <3>3. Reading(Read(r2, 4), s3, t) /\ Value(r2) = b
      BY <1>6, <1>11, <3>2, ReadsField
    <3> QED
      BY <3>1, <3>3
  <2>2. Reading(Read(r3, m.bits), s4, t)
    BY <1>0, <1>4, <1>5, <2>1, ReadsField
  <2> QED
    BY <1>1, <2>1, <2>2 DEF ReadSoFar
<1>12. CASE r2.status = "refused" /\ BadString(m)
  <2>1. ReadIcon(r) = r2
    BY <1>1, <1>12 DEF Read
  <2> QED
    BY <1>12, <2>1 DEF ReadSoFar
<1> QED
  BY <1>10, <1>11, <1>12 DEF ReadSoFar

\* The version or the flags, and the window id.
LEMMA FixedAdds ==
    ASSUME NEW s \in Stream, NEW m \in Pdu
    PROVE  /\ Begins(s, WriteFixed(s, m))
           /\ WriteFixed(s, m).position = s.position + FixedSize(m.cmd)
           /\ m.cmd = "window" => Begins(Write(s, 4, 0), WriteFixed(s, m))
<1>0. s.position \in Nat /\ m.version \in Nat
  BY PduFacts DEF Stream
<1>1. CASE m.cmd = "caps"
  <2>1. WriteFixed(s, m) = Write(s, 2, m.version) /\ FixedSize(m.cmd) = 2
    BY <1>1 DEF WriteFixed, FixedSize
  <2> QED
    BY <1>0, <1>1, <2>1, WriteAdds
<1>2. CASE m.cmd = "window"
  <2> DEFINE s1 == Write(s, 4, 0)
             s2 == Write(s1, 4, 0)
  <2>1. WriteFixed(s, m) = s2 /\ FixedSize(m.cmd) = 8
    BY <1>2 DEF WriteFixed, FixedSize
  <2>2. Begins(s, s1) /\ s1.position = s.position + 4
    BY WriteAdds
  <2>3. Begins(s1, s2) /\ s2.position = s1.position + 4
    BY <2>2, WriteAdds, BeginsStream
  <2> HIDE DEF s2
  <2>4. Begins(s, s2) /\ s2.position = s.position + 8
    BY <1>0, <2>2, <2>3, BeginsTrans
  <2> QED
    BY <2>1, <2>3, <2>4
<1>3. CASE m.cmd # "caps" /\ m.cmd # "window"
  <2>1. WriteFixed(s, m) = Write(s, 4, 0) /\ FixedSize(m.cmd) = 4
    BY <1>3 DEF WriteFixed, FixedSize
  <2> QED
    BY <1>3, <2>1, WriteAdds
<1> QED
  BY <1>1, <1>2, <1>3

\* They are read, or refused for a flag that is required.
LEMMA ReadsFixed ==
    ASSUME NEW s \in Stream, NEW t, NEW m \in Pdu, Begins(WriteFixed(s, m), t),
           NEW r, Reading(r, s, t)
    PROVE  IF RequiredFlags[m.cmd] \subseteq m.fields
           THEN Reading(ReadFixed(r, m), WriteFixed(s, m), t)
           ELSE ReadFixed(r, m).status = "refused"
<1>1. CASE ~(RequiredFlags[m.cmd] \subseteq m.fields)
  BY <1>1 DEF ReadFixed, Stop
<1>2. CASE RequiredFlags[m.cmd] \subseteq m.fields
  <2>1. CASE m.cmd = "caps"
    <3>1. WriteFixed(s, m) = Write(s, 2, m.version) /\ ReadFixed(r, m) = Read(r, 2)
      BY <1>2, <2>1 DEF WriteFixed, ReadFixed
    <3>2. PICK v \in Nat : v = m.version
      BY PduFacts
    <3>3. Reading(Read(r, 2), Write(s, 2, v), t)
      BY <3>1, <3>2, ReadsField
    <3> QED
      BY <1>2, <3>1, <3>2, <3>3
  <2>2. CASE m.cmd = "window"
    <3> DEFINE s1 == Write(s, 4, 0)
    <3>1. WriteFixed(s, m) = Write(s1, 4, 0) /\ ReadFixed(r, m) = Read(Read(r, 4), 4)
      BY <1>2, <2>2 DEF WriteFixed, ReadFixed
    <3>2. Begins(s1, WriteFixed(s, m))
      BY <2>2, FixedAdds
    <3>3. s1 \in Stream /\ Begins(s1, t)
      BY <3>2, BeginsStream, BeginsTrans
    <3>4. Reading(Read(r, 4), s1, t)
      BY <3>3, ReadsField
    <3>5. Reading(Read(Read(r, 4), 4), Write(s1, 4, 0), t)
      BY <3>1, <3>3, <3>4, ReadsField
    <3> QED
      BY <1>2, <3>1, <3>5
  <2>3. CASE m.cmd # "caps" /\ m.cmd # "window"
    <3>1. WriteFixed(s, m) = Write(s, 4, 0) /\ ReadFixed(r, m) = Read(r, 4)
      BY <1>2, <2>3 DEF WriteFixed, ReadFixed
    <3> QED
      BY <1>2, <3>1, ReadsField
  <2> QED
    BY <2>1, <2>2, <2>3
<1> QED
  BY <1>1, <1>2

\* Once refused, always refused.
LEMMA RefusedStays ==
    ASSUME NEW r, r.status = "refused", NEW m
    PROVE  ReadStrings(r, m) = r /\ ReadIcon(r) = r
<1>1. \A n : Read(r, n) = r
  BY DEF Read
<1>2. \A required : ReadText(r, required) = r
  BY <1>1 DEF ReadText
<1>3. \A i : ReadString(r, m, i) = r
  BY <1>2 DEF ReadString
<1> QED
  BY <1>1, <1>3 DEF ReadStrings, ReadIcon, ReadThree

\* The lengths that the sender adds up.
LEMMA LengthFacts ==
    ASSUME NEW m \in Pdu
    PROVE  /\ HeaderLength(m) \in Nat
           /\ HeaderLength(m) = 8 + FixedSize(m.cmd)
                + TextLength(m, 1) + TextLength(m, 2) + TextLength(m, 3)
                + TextLength(m, 4) + TextLength(m, 5)
                + (IF HasIcon(m) THEN IconHeaderSize + m.bits ELSE 0)
<1>1. FixedSize(m.cmd) \in Nat
  BY DEF FixedSize
<1>2. NewStream \in Stream
  BY DEF NewStream, Stream
<1>3. /\ TextLength(m, 1) \in Nat /\ TextLength(m, 2) \in Nat /\ TextLength(m, 3) \in Nat
      /\ TextLength(m, 4) \in Nat /\ TextLength(m, 5) \in Nat
  BY <1>2, StringAdds
<1>4. (IF HasIcon(m) THEN IconHeaderSize + m.bits ELSE 0) \in Nat
  BY PduFacts DEF IconHeaderSize
<1> HIDE DEF FixedSize, TextLength
<1> QED
  BY <1>1, <1>3, <1>4 DEF HeaderLength, HeaderSize, PayloadLength

\* The header is read from the first byte.
LEMMA HeaderAdds ==
    ASSUME NEW m \in Pdu
    PROVE  /\ WriteHeader(m) \in Stream /\ WriteHeader(m).position = 8
           /\ \A t : Begins(WriteHeader(m), t) => Reading(ReadHeader(t), WriteHeader(m), t)
<1> DEFINE s1 == Write(NewStream, 4, 0)
<1>1. PICK n \in Nat : n = HeaderLength(m)
  BY LengthFacts
<1>2. NewStream \in Stream /\ NewStream.position = 0 /\ Len(NewStream.tokens) = 0
  BY DEF NewStream, Stream
<1>3. Begins(NewStream, s1) /\ s1.position = 4
  BY <1>2, WriteAdds
<1>4. s1 \in Stream
  BY <1>3, BeginsStream
<1>5. Begins(s1, Write(s1, 4, n)) /\ Write(s1, 4, n).position = 8
  BY <1>3, <1>4, WriteAdds
<1>6. WriteHeader(m) = Write(s1, 4, n)
  BY <1>1 DEF WriteHeader
<1>7. ASSUME NEW t, Begins(WriteHeader(m), t)
      PROVE  Reading(ReadHeader(t), WriteHeader(m), t)
  <2>1. t \in Stream /\ Begins(s1, t)
    BY <1>5, <1>6, <1>7, BeginsStream, BeginsTrans
  <2>2. t.position \in Nat
    BY <2>1 DEF Stream
  <2>3. Reading(StartReading(t), NewStream, t)
    BY <1>2, <2>2 DEF Reading, StartReading
  <2> DEFINE r1 == Read(StartReading(t), 4)
  <2>4. Reading(r1, s1, t)
    BY <1>2, <2>1, <2>3, ReadsField
  <2> HIDE DEF s1, r1
  <2>5. Reading(Read(r1, 4), Write(s1, 4, n), t)
    BY <1>4, <1>6, <1>7, <2>4, ReadsField
  <2> QED
    BY <1>6, <2>5 DEF ReadHeader, r1
<1> QED
  BY <1>5, <1>6, <1>7, BeginsStream

\* A sender writes its fields one behind the other, as many bytes as it counted.
LEMMA SentAdds ==
    ASSUME NEW m \in Pdu,
           NEW s1, s1 = WriteHeader(m), NEW s2, s2 = WriteFixed(s1, m),
           NEW s3, s3 = WriteStrings(s2, m)
    PROVE  /\ s1 \in Stream /\ Begins(s1, s2) /\ Begins(s2, s3) /\ Begins(s3, Sent(m))
           /\ Sent(m) = WriteIcon(s3, m)
           /\ Sent(m).position = HeaderLength(m)
<1>1. s1 \in Stream /\ s1.position = 8
  BY HeaderAdds
<1>2. Begins(s1, s2) /\ s2.position = s1.position + FixedSize(m.cmd)
  BY <1>1, FixedAdds
<1>3. s2 \in Stream
  BY <1>2, BeginsStream
<1>4. /\ Begins(s2, s3)
      /\ s3.position = s2.position + TextLength(m, 1) + TextLength(m, 2) + TextLength(m, 3)
                                   + TextLength(m, 4) + TextLength(m, 5)
  BY <1>3, StringsAdd
<1>5. s3 \in Stream
  BY <1>4, BeginsStream
<1>6. Sent(m) = WriteIcon(s3, m)
  BY DEF Sent
<1>7. /\ Begins(s3, Sent(m))
      /\ Sent(m).position =
            s3.position + (IF HasIcon(m) THEN IconHeaderSize + m.bits ELSE 0)
  BY <1>5, <1>6, IconAdds
<1> QED
  BY <1>1, <1>2, <1>4, <1>6, <1>7, LengthFacts

\* What the client makes of a PDU: it has read all of it, or refused it for a
\* flag, a version or a string.
LEMMA PduIsRead ==
    ASSUME NEW m \in Pdu, m.cmd # "provider", NEW r, r = ReadPdu(m, Sent(m))
    PROVE  \/ Reading(r, Sent(m), Sent(m))
           \/ /\ r.status = "refused"
              /\ \/ ~(RequiredFlags[m.cmd] \subseteq m.fields)
                 \/ m.cmd = "caps" /\ m.version < 4
                 \/ BadString(m)
<1> DEFINE s1 == WriteHeader(m)
           s2 == WriteFixed(s1, m)
           s3 == WriteStrings(s2, m)
           t == Sent(m)
           r1 == ReadHeader(t)
           r2 == ReadFixed(r1, m)
           r3 == ReadStrings(r2, m)
<1>1. /\ s1 \in Stream /\ Begins(s1, s2) /\ Begins(s2, s3) /\ Begins(s3, t)
      /\ t = WriteIcon(s3, m)
  BY SentAdds
<1>2. s2 \in Stream /\ s3 \in Stream /\ Begins(s2, t) /\ Begins(t, t)
  <2>1. s2 \in Stream /\ s3 \in Stream /\ t \in Stream
    BY <1>1, BeginsStream
  <2>2. Begins(s2, t)
    BY <1>1, BeginsTrans
  <2>3. Begins(t, t)
    BY <2>1 DEF Begins, Stream
  <2> QED
    BY <2>1, <2>2, <2>3
<1>3. Begins(s1, t)
  BY <1>1, <1>2, BeginsTrans
<1>4. Reading(r1, s1, t)
  BY <1>3, HeaderAdds
<1>5. IF RequiredFlags[m.cmd] \subseteq m.fields THEN Reading(r2, s2, t) ELSE r2.status = "refused"
  BY <1>1, <1>2, <1>4, ReadsFixed
<1>6. r = IF m.cmd = "caps" /\ m.version < 4 THEN Stop(r3, "refused")
          ELSE IF HasIcon(m) THEN ReadIcon(r3) ELSE r3
  BY DEF ReadPdu
<1> HIDE DEF s1, s2, s3, t, r1, r2, r3
<1>7. CASE m.cmd = "caps" /\ m.version < 4
  BY <1>6, <1>7 DEF Stop
<1>8. CASE ~(m.cmd = "caps" /\ m.version < 4) /\ ~(RequiredFlags[m.cmd] \subseteq m.fields)
  <2>1. r2.status = "refused" /\ r3 = ReadStrings(r2, m)
    BY <1>5, <1>8 DEF r3
  <2>2. r3 = r2
    BY <2>1, RefusedStays
  <2>3. ReadIcon(r3) = r3
    BY <2>1, <2>2, RefusedStays
  <2> QED
    BY <1>6, <1>8, <2>1, <2>2, <2>3
<1>9. CASE ~(m.cmd = "caps" /\ m.version < 4) /\ RequiredFlags[m.cmd] \subseteq m.fields
  <2>1. m.cmd = "caps" => m.version >= 4
    BY <1>9, PduFacts
  <2>2. ReadSoFar(r2, s2, t, m)
    BY <1>5, <1>9 DEF ReadSoFar
  <2>3. r3 = ReadStrings(r2, m) /\ s3 = WriteStrings(s2, m)
    BY DEF r3, s3
  <2>4. ReadSoFar(r3, s3, t, m)
    BY <1>1, <1>2, <2>1, <2>2, <2>3, ReadsStrings
  <2>5. ReadSoFar(r, t, t, m)
    <3>1. CASE HasIcon(m)
      BY <1>1, <1>2, <1>6, <1>9, <2>4, <3>1, ReadsIcon
    <3>2. CASE ~HasIcon(m)
      <4>1. t = s3
        BY <1>1, <3>2 DEF WriteIcon
      <4> QED
        BY <1>6, <1>9, <2>4, <3>2, <4>1
    <3> QED
      BY <3>1, <3>2
  <2> QED
    BY <2>5 DEF ReadSoFar, t
<1> QED
  BY <1>7, <1>8, <1>9

\* What is on the wire is a PDU.
LEMMA AlwaysPdu == Spec => [](wire # NoPdu => wire \in Pdu)
<1>1. IInv => (wire # NoPdu => wire \in Pdu)
  BY PdusAssumption DEF IInv, TypeOK
<1> QED
  BY <1>1, AlwaysInv, PTL

\* For PDUs with any fields, strings and icons, a sender fills the stream that it
\* has allocated, and no more.
THEOREM StreamIsFilled == Spec => []FillsItsStream
<1>1. (wire # NoPdu => wire \in Pdu) => FillsItsStream
  <2> SUFFICES ASSUME wire \in Pdu PROVE Sent(wire).position = HeaderLength(wire)
    BY DEF FillsItsStream
  <2> QED
    BY SentAdds
<1> QED
  BY <1>1, AlwaysPdu, PTL

\* The client never takes a field for another one, and what it accepts it has read
\* to the last byte.
THEOREM ReadAsWritten == Spec => []ReadBack
<1>1. (wire # NoPdu => wire \in Pdu) => ReadBack
  <2> SUFFICES ASSUME wire \in Pdu, wire.cmd # "provider",
                      NEW r, r = ReadPdu(wire, Sent(wire))
               PROVE  r.status # "garbled" /\ (r.status = "reading" => r.left = 0)
    BY DEF ReadBack
  <2>1. Reading(r, Sent(wire), Sent(wire)) \/ r.status = "refused"
    BY PduIsRead
  <2>2. Sent(wire).position \in Nat
    BY SentAdds, LengthFacts
  <2>3. CASE Reading(r, Sent(wire), Sent(wire))
    BY <2>2, <2>3 DEF Reading
  <2>4. CASE r.status = "refused"
    BY <2>4
  <2> QED
    BY <2>1, <2>3, <2>4
<1> QED
  BY <1>1, AlwaysPdu, PTL

\* A PDU with what the protocol requires is refused only for a string that fills
\* the last two bytes of the client's buffer, or more.
THEOREM RefusedForLength == Spec => []OnlyLongStringsRefused
<1>1. (wire # NoPdu => wire \in Pdu) => OnlyLongStringsRefused
  <2> SUFFICES ASSUME wire \in Pdu, wire.cmd # "provider",
                      ReadPdu(wire, Sent(wire)).status = "refused"
               PROVE  \/ ~(RequiredFlags[wire.cmd] \subseteq wire.fields)
                      \/ wire.cmd = "caps" /\ wire.version < 4
                      \/ BadString(wire)
    BY DEF OnlyLongStringsRefused, BadString
  <2> QED
    BY PduIsRead DEF Reading
<1> QED
  BY <1>1, AlwaysPdu, PTL
=============================================================================
