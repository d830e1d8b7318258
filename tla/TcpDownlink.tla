---------------------------- MODULE TcpDownlink ----------------------------
(***************************************************************************)
(* The caller channel of a TCP session of the relay, in the direction to   *)
(* the local proxy: TCPChannel::sendBuf and handleSend put packets, wrapped*)
(* as PDUs, into the connection, and TcpParsePdu::ParseTcpPdu of the proxy *)
(* cuts them out again.  The peer may close or reset the connection, the   *)
(* time-out closes the channel, and a new connection from the same address *)
(* is put into the same channel (resetSocket).                             *)
(*                                                                         *)
(* Both channels of a session, and here the listening channel too, are on  *)
(* one event loop: every action is one handler of that loop, or the client.*)
(***************************************************************************)
EXTENDS Naturals, Sequences, FiniteSets

CONSTANTS
    DataLen,    \* the data lengths of the packets that are relayed
    HeadLen,    \* PDU_HEAD_LEN
    MaxData,    \* PACK_MAX_LEN - 8: the longest data packPduBuf wraps
    Window,     \* bound: the bytes the connection holds
    MaxPacket,  \* bound: the packets that are relayed
    MaxReset    \* bound: the connections that replace the first

ASSUME LengthAssumption ==
    /\ DataLen \subseteq Nat
    /\ {HeadLen, MaxData, Window} \subseteq Nat \ {0}
    /\ {MaxPacket, MaxReset} \subseteq Nat

VARIABLES
    queue,      \* buffer_: the packets that wait
    sendBuf,    \* send_buf_[0 .. left_senddata_size_ - 1]
    armed,      \* epoll watches the socket for POLLOUT
    sock,       \* the socket: connected, broken by the peer, or closed (-1)
    state,      \* state_ of the channel
    wire,       \* the bytes TCP has accepted and not delivered
    recvBuf,    \* the proxy's recv_buf_[0 .. cur_pos_ - 1]
    resets,     \* history: the connections that have replaced the first
    size,       \* history: the PDU length of every packet given to sendBuf
    got         \* history: the PDUs ParseTcpPdu has handed up, in order

vars == <<queue, sendBuf, armed, sock, state, wire, recvBuf, resets, size, got>>

\* A packet is <<p, n>>: it is the p-th, and its PDU has n bytes.
Bytes(pkt) == [i \in 1 .. pkt[2] |-> <<pkt[1], i>>]
Smaller(a, b) == IF a < b THEN a ELSE b
Drop(s, n) == SubSeq(s, n + 1, Len(s))
TooLong(pkt) == pkt[2] > HeadLen + MaxData

-----------------------------------------------------------------------------

\* The channel has been added to the loop.
Init ==
    /\ queue = << >>
    /\ sendBuf = << >>
    /\ armed = FALSE
    /\ sock = "up"
    /\ state = "RW"
    /\ wire = << >>
    /\ recvBuf = << >>
    /\ resets = 0
    /\ size = << >>
    /\ got = << >>

\* Mutant of sendLoop: a packet that cannot be wrapped takes the others with it.
sendLoopClearing(q) ==
    LET k == Cardinality({j \in 1 .. Len(q) : \A i \in 1 .. j : ~TooLong(q[i])})
        cat[j \in 0 .. k] == IF j = 0 THEN sendBuf ELSE cat[j - 1] \o Bytes(q[j])
        room == IF sock = "closed" THEN 0 ELSE Window - Len(wire)
        full == Len(cat[k]) > room
        j == IF full THEN CHOOSE i \in 0 .. k : Len(cat[i]) > room /\ \A h \in 0 .. i - 1 : Len(cat[h]) <= room ELSE k
        n == Smaller(room, Len(cat[j]))
    IN  [wire |-> wire \o SubSeq(cat[j], 1, n), left |-> Drop(cat[j], n),
         queue |-> IF full THEN Drop(q, j) ELSE << >>]

\* The loop of handleSend when buffer_ holds q and the connection is not broken.
\* It sends what is left, then pops and wraps packets, until the socket takes
\* no more or the queue is empty.  A packet that cannot be wrapped ends the
\* loop too, and is neither put back nor released.  k packets can be wrapped,
\* and j are popped for their bytes.  (What begins with the letters of a header,
\* the relay's own answers, is copied as it is: a PDU already.  Bytes(q[j]) are
\* the bytes that go out, in either case.)
sendLoop(q) ==
    LET k == Cardinality({j \in 1 .. Len(q) : \A i \in 1 .. j : ~TooLong(q[i])})
        cat[j \in 0 .. k] == IF j = 0 THEN sendBuf ELSE cat[j - 1] \o Bytes(q[j])
        room == IF sock = "closed" THEN 0 ELSE Window - Len(wire)
        full == Len(cat[k]) > room
        j == IF full THEN CHOOSE i \in 0 .. k : Len(cat[i]) > room /\ \A h \in 0 .. i - 1 : Len(cat[h]) <= room ELSE k
        n == Smaller(room, Len(cat[j]))
    IN  [wire |-> wire \o SubSeq(cat[j], 1, n), left |-> Drop(cat[j], n),
         queue |-> Drop(q, IF full THEN j ELSE j + 1)]

\* handleSend when buffer_ holds q.  On a broken connection Send fails with
\* EPIPE or ECONNRESET: what was left is given up and handleClose closes the
\* socket.  With an empty queue postRecv stops waiting for POLLOUT.
handleSend(q) ==
    LET r == sendLoop(q) IN
    IF sock = "broken" /\ (sendBuf # << >> \/ (q # << >> /\ ~TooLong(Head(q))))
    THEN /\ queue' = IF sendBuf = << >> THEN Tail(q) ELSE q
         /\ sendBuf' = << >>
         /\ sock' = "closed"
         /\ armed' = FALSE
         /\ UNCHANGED wire
    ELSE /\ queue' = r.queue
         /\ sendBuf' = r.left
         /\ wire' = r.wire
         /\ armed' = (armed /\ r.queue # << >>)
         /\ UNCHANGED sock

\* Mutant of sendBufTo: a packet that has to wait does not ask for POLLOUT.
sendBufToSilent(d) ==
    /\ state # "CLOSED"
    /\ Len(size) < MaxPacket
    /\ size' = Append(size, HeadLen + d)
    /\ IF sendBuf = << >>
       THEN handleSend(Append(queue, <<Len(size) + 1, HeadLen + d>>))
       ELSE /\ queue' = Append(queue, <<Len(size) + 1, HeadLen + d>>)
            /\ UNCHANGED <<sendBuf, wire, sock, armed>>
    /\ UNCHANGED <<state, recvBuf, resets, got>>

\* copyBufferAndSend or an answer: TCPChannel::sendBuf pushes a packet with d
\* bytes of data and sends at once, or asks for POLLOUT when a packet is not
\* out yet (which fails on a closed socket).
sendBufTo(d) ==
    /\ state # "CLOSED"
    /\ Len(size) < MaxPacket
    /\ size' = Append(size, HeadLen + d)
    /\ IF sendBuf = << >>
       THEN handleSend(Append(queue, <<Len(size) + 1, HeadLen + d>>))
       ELSE /\ queue' = Append(queue, <<Len(size) + 1, HeadLen + d>>)
            /\ armed' = (sock # "closed")
            /\ UNCHANGED <<sendBuf, wire, sock>>
    /\ UNCHANGED <<state, recvBuf, resets, got>>

\* The loop reports POLLOUT.
pollOut ==
    /\ armed
    /\ Len(wire) < Window \/ sock = "broken"
    /\ handleSend(queue)
    /\ UNCHANGED <<state, recvBuf, resets, size, got>>

\* The peer resets the connection: what is under way is lost.
peerReset ==
    /\ sock = "up"
    /\ sock' = "broken"
    /\ wire' = << >>
    /\ recvBuf' = << >>
    /\ UNCHANGED <<queue, sendBuf, armed, state, resets, size, got>>

\* Mutant of handleClose: the poll events of the descriptor stay.
handleCloseKeepingPoll ==
    /\ sock # "closed"
    /\ sock' = "closed"
    /\ UNCHANGED <<armed, queue, sendBuf, state, wire, recvBuf, resets, size, got>>

\* handleRecv reads the end of the stream, or an error: handleClose.
handleClose ==
    /\ sock # "closed"
    /\ sock' = "closed"
    /\ armed' = FALSE
    /\ UNCHANGED <<queue, sendBuf, state, wire, recvBuf, resets, size, got>>

\* The loop closes a channel that has timed out: TCPChannel::close.
close ==
    /\ state = "RW"
    /\ state' = "CLOSED"
    /\ sock' = "closed"
    /\ armed' = FALSE
    /\ sendBuf' = << >>
    /\ UNCHANGED <<queue, wire, recvBuf, resets, size, got>>

\* Mutant of resetSocket: left_senddata_size_ survives.
resetSocketKeeping ==
    /\ resets < MaxReset
    /\ resets' = resets + 1
    /\ sock' = "up"
    /\ state' = "RW"
    /\ armed' = FALSE
    /\ wire' = << >>
    /\ recvBuf' = << >>
    /\ UNCHANGED <<queue, sendBuf, size, got>>

\* The listening channel accepts a connection from the same address:
\* resetOrCreateSession, resetSocket, addToPoll.  The proxy has reset its
\* TcpParsePdu for the connection (TcpNetClient::Open).
resetSocket ==
    /\ resets < MaxReset
    /\ resets' = resets + 1
    /\ sock' = "up"
    /\ state' = "RW"
    /\ armed' = FALSE
    /\ sendBuf' = << >>
    /\ wire' = << >>
    /\ recvBuf' = << >>
    /\ UNCHANGED <<queue, size, got>>

-----------------------------------------------------------------------------
(* The proxy.                                                               *)

\* One round of ParseTcpPdu, which believes the length it finds.
parseOne(s) ==
    IF Len(s.buf) < HeadLen \/ Len(s.buf) < size[s.buf[1][1]] THEN s
    ELSE [buf |-> Drop(s.buf, size[s.buf[1][1]]),
          done |-> Append(s.done, s.buf[1][1])]

ParseTcpPdu(b) ==
    LET round[k \in 0 .. Len(b)] == IF k = 0 THEN [buf |-> b, done |-> << >>] ELSE parseOne(round[k - 1])
    IN  round[Len(b)]

\* TcpNetClient::OnReciveData with n bytes.
OnReciveData(n) ==
    /\ n \in 1 .. Len(wire)
    /\ LET r == ParseTcpPdu(recvBuf \o SubSeq(wire, 1, n))
       IN  recvBuf' = r.buf /\ got' = got \o r.done
    /\ wire' = Drop(wire, n)
    /\ UNCHANGED <<queue, sendBuf, armed, sock, state, resets, size>>

Client == \E n \in 1 .. Window : OnReciveData(n)

Next ==
    \/ \E d \in DataLen : sendBufTo(d)
    \/ pollOut \/ handleClose \/ close \/ resetSocket
    \/ peerReset \/ Client

Spec == Init /\ [][Next]_vars

\* The loop reports a socket that is writable, and the proxy reads.
LiveSpec == Spec /\ WF_vars(pollOut) /\ WF_vars(Client)

-----------------------------------------------------------------------------
(* Properties.                                                              *)

Got == {got[i] : i \in 1 .. Len(got)}
Stream == recvBuf \o wire \o sendBuf
InStream == {Stream[i][1] : i \in 1 .. Len(Stream)}
Left(p) == sendBuf # << >> /\ sendBuf[1][1] = p
Queued == {queue[i][1] : i \in 1 .. Len(queue)}

\* Types; epoll watches no descriptor that is closed, after whatever order of
\* close, reset and resetSocket.
TypeOK ==
    /\ sock \in {"up", "broken", "closed"}
    /\ state \in {"RW", "CLOSED"}
    /\ armed \in BOOLEAN
    /\ armed => sock # "closed"
    /\ Len(size) <= MaxPacket
    /\ resets <= MaxReset
    /\ Queued \cup Got \cup InStream \subseteq 1 .. Len(size)
    /\ Len(wire) <= Window

\* What a connection carries is whole PDUs one after the other, although a
\* short write leaves the rest of one in send_buf_ and connections come and go:
\* the bytes that are not parsed yet start with a header when a new connection
\* does, go on with the next byte of the same PDU or the first of a later one,
\* and end with the last byte of one.
WholePdus ==
    sock = "up" /\ Stream # << >> =>
        /\ Stream[1][2] = 1
        /\ Stream[Len(Stream)][2] = size[Stream[Len(Stream)][1]]
        /\ \A i \in 1 .. Len(Stream) - 1 :
             LET p == Stream[i][1]  q == Stream[i + 1][1] IN
             IF Stream[i][2] < size[p] THEN Stream[i + 1] = <<p, Stream[i][2] + 1>>
             ELSE p < q /\ Stream[i + 1][2] = 1

\* Packets reach the proxy in the order in which they were given to sendBuf,
\* each at most once, across short writes and replaced connections; and on the
\* first connection only a packet that cannot be wrapped is missing.
InOrderNoLoss ==
    /\ \A i, j \in 1 .. Len(got) : i < j => got[i] < got[j]
    /\ sock = "up" /\ resets = 0 =>
         \A p \in 1 .. Len(size) : TooLong(<<p, size[p]>>) \/ p \in Got \cup InStream \cup Queued

\* After a short write the rest of a packet may wait although the socket is
\* writable (postRecv asks only whether buffer_ is empty), but not longer than
\* until the next packet: that one gets it out, unless the connection goes.
NextPacketFlushes ==
    \A p, n \in 1 .. MaxPacket :
        [](sock = "up" /\ Left(p) /\ Len(size) = n
             => [](Len(size) = n) \/ <>(~Left(p) \/ sock # "up"))

=============================================================================
