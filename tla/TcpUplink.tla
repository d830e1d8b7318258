----------------------------- MODULE TcpUplink -----------------------------
(***************************************************************************)
(* One TCP connection from the local proxy to the relay: TcpParsePdu       *)
(* appends packed PDUs to send_buf_ and flushes as much as the socket      *)
(* takes; the select loop of NetClient flushes the rest when the socket is *)
(* writable; TCPChannel of the relay cuts the byte stream into PDUs again. *)
(*                                                                         *)
(* A byte is <<p, i>>, the i-th byte of the p-th PDU; bytes 1 .. HeadLen   *)
(* are the header.  The relay compares two letters, a version and a length *)
(* and no more, so bytes inside a PDU may be taken for a header as well:   *)
(* what they say then is an input, chosen when the PDU is sent.            *)
(***************************************************************************)
EXTENDS Naturals, Sequences, FiniteSets

CONSTANTS
    DataLen,    \* the data lengths of the payloads given to SendRawData
    TypedLen,   \* the data length of an authentication request or heartbeat
    HeadLen,    \* PDU_HEAD_LEN
    MaxData,    \* PACK_MAX_LEN - 8: the longest data parsePduHead accepts
    BufLen,     \* TCP_MAX_BUF_LEN
    Word,       \* 2^16: the range of uint16_t
    PosedAt,    \* where in a PDU there may be bytes that look like a header
    Stated,     \* the data lengths that such bytes may state
    Window,     \* bound: the bytes the connection holds
    MaxPdu      \* bound: the PDUs that are sent

ASSUME LengthAssumption ==
    /\ DataLen \subseteq Nat
    /\ {TypedLen, HeadLen, MaxData, BufLen, Word, Window, MaxPdu} \subseteq Nat \ {0}
    /\ TypedLen <= MaxData /\ HeadLen < Word
    /\ PosedAt \subseteq Nat /\ Stated \subseteq Nat

VARIABLES
    conn,       \* m_bConnected and socket_fd_ of the TcpNetClient
    sendBuf,    \* send_buf_[0 .. cur_send_pos - 1]
    loopPc,     \* the select loop: about to fill the fd sets, or in select
    writeSet,   \* the socket is in the fds_write that select waits with
    notified,   \* a wake-up datagram waits at notify_socket_fd_
    wire,       \* the bytes TCP has accepted and not delivered
    recvBuf,    \* the relay's recv_buf_[0 .. left_recvdata_size_ - 1]
    relayOpen,  \* the relay's socket is open
    size,       \* history: the length of every PDU accepted by SendTcpPdu
    posed,      \* history: what bytes inside every PDU say when read as a header
    handled,    \* history: the PDUs handlePduPack has handled, in order
    misread     \* history: the PDUs of which it has handled bytes inside as a PDU

loopVars == <<loopPc, writeSet>>
sentVars == <<size, posed>>
handledVars == <<handled, misread>>
vars == <<conn, sendBuf, loopVars, notified, wire, recvBuf, relayOpen, sentVars, handledVars>>

Bytes(p, n) == [i \in 1 .. n |-> <<p, i>>]
Smaller(a, b) == IF a < b THEN a ELSE b
Drop(s, n) == SubSeq(s, n + 1, Len(s))

-----------------------------------------------------------------------------

\* TcpNetClient::Open has called Connect, which has woken the loop up.
Init ==
    /\ conn = "connecting"
    /\ sendBuf = << >>
    /\ loopPc = "fill"
    /\ writeSet = FALSE
    /\ notified = TRUE
    /\ wire = << >>
    /\ recvBuf = << >>
    /\ relayOpen = TRUE
    /\ size = << >>
    /\ posed = << >>
    /\ handled = << >>
    /\ misread = {}

\* Mutant of Send: a short write does not wake the loop up.
SendNoWakeup(buf, n) ==
    /\ n \in 0 .. Smaller(Len(buf), Window - Len(wire))
    /\ n = 0 => Len(wire) = Window
    /\ wire' = wire \o SubSeq(buf, 1, n)
    /\ UNCHANGED notified

\* SendTcpData gives the socket buf, which takes n bytes, none only when it is
\* full; unless it takes them all the loop is woken up.
Send(buf, n) ==
    /\ n \in 0 .. Smaller(Len(buf), Window - Len(wire))
    /\ n = 0 => Len(wire) = Window
    /\ wire' = wire \o SubSeq(buf, 1, n)
    /\ notified' = (notified \/ n < Len(buf))

\* Mutant of FlushSendBuf: the wrong end of the buffer is kept.
FlushSendBufKeeping(up, buf) ==
    \/ /\ ~up \/ buf = << >> \/ Len(buf) > BufLen
       /\ sendBuf' = buf
       /\ UNCHANGED <<wire, notified>>
    \/ /\ up /\ buf # << >> /\ Len(buf) <= BufLen
       /\ \E n \in 0 .. Len(buf) : Send(buf, n) /\ sendBuf' = SubSeq(buf, 1, Len(buf) - n)

\* FlushSendBuf when send_buf_ holds buf; up is m_bConnected.
FlushSendBuf(up, buf) ==
    \/ /\ ~up \/ buf = << >> \/ Len(buf) > BufLen
       /\ sendBuf' = buf
       /\ UNCHANGED <<wire, notified>>
    \/ /\ up /\ buf # << >> /\ Len(buf) <= BufLen
       /\ \E n \in 0 .. Len(buf) : Send(buf, n) /\ sendBuf' = Drop(buf, n)

\* What eight bytes say as a header: the data length, which is refused when it is
\* more than MaxData and stands for all that is no header, and whether the data is
\* what the command expects.
NoHead == <<MaxData + 1, TRUE>>
Heads == {NoHead} \cup (Stated \X BOOLEAN)

\* A PDU with d bytes of data, of whatever contents, is packed behind the others
\* and flushed.
appendPdu(d) ==
    /\ Len(size) < MaxPdu
    /\ size' = Append(size, HeadLen + d)
    /\ \E c \in [PosedAt \cap (2 .. HeadLen + d) -> Heads] : posed' = Append(posed, c)
    /\ FlushSendBuf(conn = "connected", sendBuf \o Bytes(Len(size) + 1, HeadLen + d))
    /\ UNCHANGED <<conn, loopVars, recvBuf, relayOpen, handledVars>>

\* SendRawData: SendTcpPdu with a buffer.  It refuses what does not fit.
SendRawData(d) ==
    /\ Len(sendBuf) + HeadLen + d <= BufLen
    /\ appendPdu(d)

\* Mutant of room: packPduBuf does not keep the header back.
roomWithHead == (BufLen - Len(sendBuf)) % Word

\* uint16_t data_buf_len = TCP_MAX_BUF_LEN - cur_send_pos, of which packPduBuf
\* passes data_buf_len - 8, a uint16_t again, to serial.
room == (((BufLen - Len(sendBuf)) % Word) + Word - HeadLen) % Word

\* SendPduData: SendTcpPdu with a PDUSerialBase.  What serial writes behind the
\* end of send_buf_ is not modelled: a full buffer is never flushed again.
SendPduData ==
    /\ Len(sendBuf) < BufLen
    /\ TypedLen <= room
    /\ appendPdu(TypedLen)

isNeedSend == sendBuf # << >> /\ Len(sendBuf) <= BufLen

\* FillFdset: which events select waits for.
FillFdset ==
    /\ loopPc = "fill"
    /\ writeSet' = isNeedSend
    /\ loopPc' = "select"
    /\ UNCHANGED <<conn, sendBuf, notified, wire, recvBuf, relayOpen, sentVars, handledVars>>

\* select returns because of the notify socket.
wakeup ==
    /\ loopPc = "select"
    /\ notified
    /\ notified' = FALSE
    /\ loopPc' = "fill"
    /\ UNCHANGED <<conn, sendBuf, writeSet, wire, recvBuf, relayOpen, sentVars, handledVars>>

\* HandleConnecting finds the connection established and calls OnConnected; a
\* connecting socket is in fds_write, so OnSendReady follows in the same round.
OnConnected ==
    /\ loopPc = "select"
    /\ conn = "connecting"
    /\ conn' = "connected"
    /\ FlushSendBuf(TRUE, sendBuf)
    /\ loopPc' = "fill"
    /\ UNCHANGED <<writeSet, recvBuf, relayOpen, sentVars, handledVars>>

\* The socket is writable: TcpNetClient::OnSendReady.
OnSendReady ==
    /\ loopPc = "select"
    /\ conn = "connected"
    /\ writeSet
    /\ Len(wire) < Window
    /\ FlushSendBuf(TRUE, sendBuf)
    /\ loopPc' = "fill"
    /\ UNCHANGED <<conn, writeSet, recvBuf, relayOpen, sentVars, handledVars>>

\* TcpNetClient::Close.
Close ==
    /\ conn # "closed"
    /\ conn' = "closed"
    /\ notified' = TRUE
    /\ UNCHANGED <<sendBuf, loopVars, wire, recvBuf, relayOpen, sentVars, handledVars>>

-----------------------------------------------------------------------------
(* The relay.                                                               *)

DataLenOf(p) == size[p] - HeadLen

\* The PDU of the byte x, and what the bytes from x on say as a header.
Pdu(x) == x[1]
headAt(x) ==
    IF x[2] = 1 THEN <<DataLenOf(Pdu(x)), TRUE>>
    ELSE IF x[2] \in DOMAIN posed[Pdu(x)] THEN posed[Pdu(x)][x[2]] ELSE NoHead

\* handlePduPack has handled the PDU that starts at x and taken n bytes; it takes
\* all of them when the data is not what the command expects.
consume(s, x, n) ==
    IF ~headAt(x)[2] THEN [s EXCEPT !.buf = << >>]
    ELSE [buf |-> Drop(s.buf, n),
          done |-> IF x[2] = 1 THEN Append(s.done, Pdu(x)) ELSE s.done,
          pieces |-> IF x[2] = 1 THEN s.pieces ELSE s.pieces \cup {Pdu(x)}]

\* Mutant of parseOne: a PDU is handled as soon as its header is there.
parseOneEager(s) ==
    LET x == s.buf[1]
        n == HeadLen + headAt(x)[1]
    IN  IF Len(s.buf) < HeadLen THEN s
        ELSE IF headAt(x)[1] > MaxData THEN [s EXCEPT !.buf = << >>]
        ELSE consume(s, x, Smaller(Len(s.buf), n))

\* Mutant of parseOne: a complete PDU waits for one more byte.
parseOneLate(s) ==
    LET x == s.buf[1]
        n == HeadLen + headAt(x)[1]
    IN  IF Len(s.buf) < HeadLen \/ Len(s.buf) <= n THEN s ELSE consume(s, x, n)

\* Mutant of parseOne: process_len is the length of the data, without the header.
parseOneDataOnly(s) ==
    LET x == s.buf[1]
        n == HeadLen + headAt(x)[1]
    IN  IF Len(s.buf) < HeadLen THEN s
        ELSE IF headAt(x)[1] > MaxData THEN [s EXCEPT !.buf = << >>]
        ELSE IF Len(s.buf) < n THEN s
        ELSE consume(s, x, headAt(x)[1])

\* One round of processData: what is no header or states too much data empties the
\* buffer, an incomplete PDU waits, a complete one is handled.
parseOne(s) ==
    LET x == s.buf[1]
        n == HeadLen + headAt(x)[1]
    IN  IF Len(s.buf) < HeadLen THEN s
        ELSE IF headAt(x)[1] > MaxData THEN [s EXCEPT !.buf = << >>]
        ELSE IF Len(s.buf) < n THEN s
        ELSE consume(s, x, n)

processData(b) ==
    LET round[k \in 0 .. Len(b)] ==
            IF k = 0 THEN [buf |-> b, done |-> << >>, pieces |-> {}] ELSE parseOne(round[k - 1])
    IN  round[Len(b)]

\* TCPChannel::handleRecv: recv gives n bytes.
handleRecv(n) ==
    /\ relayOpen
    /\ n \in 1 .. Len(wire)
    /\ LET r == processData(recvBuf \o SubSeq(wire, 1, n))
       IN  recvBuf' = r.buf /\ handled' = handled \o r.done /\ misread' = misread \cup r.pieces
    /\ wire' = Drop(wire, n)
    /\ UNCHANGED <<conn, sendBuf, loopVars, notified, relayOpen, sentVars>>

\* recv returns 0: TCPChannel::handleClose.
handleClose ==
    /\ relayOpen
    /\ conn = "closed"
    /\ wire = << >>
    /\ recvBuf' = << >>
    /\ relayOpen' = FALSE
    /\ UNCHANGED <<conn, sendBuf, loopVars, notified, wire, sentVars, handledVars>>

Loop == FillFdset \/ wakeup \/ OnConnected \/ OnSendReady
Relay == handleClose \/ \E n \in 1 .. Window : handleRecv(n)

Next == Loop \/ Relay \/ Close \/ SendPduData \/ \E d \in DataLen : SendRawData(d)

Spec == Init /\ [][Next]_vars

\* The two loops run and the connection is established in the end.
LiveSpec == Spec /\ WF_vars(Loop) /\ WF_vars(Relay)

-----------------------------------------------------------------------------
(* Properties.                                                              *)

TooLong(p) == DataLenOf(p) > MaxData
Overflow == Len(sendBuf) > BufLen
Handled == {handled[i] : i \in 1 .. Len(handled)}

\* Types; what waits for the rest of a PDU is less than the longest PDU, so
\* processData never fills recv_buf_.
TypeOK ==
    /\ conn \in {"connecting", "connected", "closed"}
    /\ loopPc \in {"fill", "select"}
    /\ {writeSet, notified, relayOpen} \subseteq BOOLEAN
    /\ Len(size) <= MaxPdu
    /\ Len(posed) = Len(size)
    /\ Handled \cup misread \subseteq 1 .. Len(size)
    /\ Len(wire) <= Window
    /\ Len(recvBuf) < HeadLen + MaxData

\* Short writes at one end and arbitrary cuts at the other lose, repeat and
\* reorder no byte: until the relay closes, its recv_buf_, the connection and
\* send_buf_ together are the end of the stream of all PDUs accepted.
StreamIntact ==
    LET s == recvBuf \o wire \o sendBuf IN
    relayOpen =>
        /\ s # << >> => s[Len(s)] = <<Len(size), size[Len(size)]>>
        /\ \A i \in 1 .. Len(s) - 1 :
             s[i + 1] = IF s[i][2] < size[s[i][1]] THEN <<s[i][1], s[i][2] + 1>> ELSE <<s[i][1] + 1, 1>>

\* Up to the first payload that parsePduHead refuses, the connection implements
\* RelayFifo: the relay handles the PDUs that SendTcpPdu accepted, in order, once
\* each, however the stream is cut.
Fits(p) == \A l \in 1 .. p : ~TooLong(l)
Fitting == {p \in 1 .. Len(size) : Fits(p)}
Fifo == INSTANCE RelayFifo WITH
            Packet <- 1 .. MaxPdu,
            accepted <- [p \in Fitting |-> p],
            sent <- SubSeq(handled, 1, Cardinality({i \in DOMAIN handled : handled[i] <= Cardinality(Fitting)}))
DeliversInOrder == Fifo!Spec

\* A payload of more than PACK_MAX_LEN - 8 bytes, which the proxy accepts, makes
\* processData throw away its whole buffer and lose its place in the stream; from
\* then on it may take bytes inside a PDU for a PDU, and PDUs may be lost.  Before
\* such a payload was sent neither happens, whatever the payloads contain: a PDU is
\* lost, and bytes inside a PDU are handled as one, only at or behind a payload
\* that is too long; and also behind it none is handled twice or out of order.
LossOnlyAfterTooLong ==
    /\ \A i, j \in 1 .. Len(handled) : i < j => handled[i] < handled[j]
    /\ \A p \in Handled : ~TooLong(p)
    /\ \A p \in Handled : \A q \in 1 .. p : q \in Handled \/ \E l \in 1 .. q : TooLong(l)
    /\ \A p \in misread : \E l \in 1 .. p : TooLong(l)

\* A PDU that does not fit is refused (`send buf overflow'), although the room is
\* counted in 16 bits, except when less than a header is left in send_buf_: the
\* room then wraps, and the PDU is written behind the end.
OverflowOnlyAtEnd ==
    [][~Overflow /\ Overflow' => BufLen - Len(sendBuf) < HeadLen]_vars

\* What SendTcpPdu accepted on a connection that stays open reaches the relay's
\* handler, also when the caller's own flush was a short write or came before
\* the connection was established: again and again all that was accepted has been
\* handled, up to the first payload that is too long.
AllHandled ==
    []<>(conn = "closed" \/ Overflow \/ Fitting \subseteq Handled)

=============================================================================
