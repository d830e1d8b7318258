----------------------------- MODULE ClientLoop -----------------------------
(***************************************************************************)
(* NetClient, the select loop of the local proxy, and the TcpNetClients    *)
(* that use it.  Clients are opened and closed by the loop's own thread    *)
(* (OnTimerEvent, OnClose) and by the user's.  The loop works on snapshots *)
(* of tcp_socket_map_ and connecting_map_, and the system gives the number *)
(* of a closed descriptor to the next socket.                              *)
(*                                                                         *)
(* Payload is left out (TcpUplink, TcpDownlink), and so are UDP sockets.   *)
(* What happens after two threads have worked on one client at the same    *)
(* time is left open: behaviours end there (raced).                        *)
(***************************************************************************)
EXTENDS Naturals

CONSTANTS
    Client,     \* TcpNetClient objects
    NoClient,   \* no context
    MaxFd,      \* bound: descriptors
    MaxOpen     \* bound: calls of Open

ASSUME BoundAssumption == MaxFd \in Nat \ {0} /\ MaxOpen \in Nat /\ NoClient \notin Client

Fd == 1 .. MaxFd
Closed == 0     \* socket_fd_ = -1
Thread == {"loop", "user"}
NoMap == [f \in Fd |-> NoClient]
Idle == [pc |-> "idle", c |-> NoClient, f |-> Closed]

VARIABLES
    fd,         \* socket_fd_ of a client
    connected,  \* m_bConnected of a client
    sock,       \* the socket behind a descriptor, as the system sees it
    tcpMap,     \* tcp_socket_map_
    connMap,    \* connecting_map_
    notified,   \* wake-up datagrams wait at the notify socket
    running,    \* running_ of the NetClient
    loopPc,     \* where MyRun is
    tcpTmp,     \* tcp_socket_map_tmp
    connTmp,    \* connecting_map_tmp
    fdsRead,    \* fds_read, as select left it
    fdsWrite,   \* fds_write likewise
    todo,       \* the entries of the snapshot that are still to be handled
    op,         \* the Open or Close that a thread is in
    opens,      \* history: calls of Open
    stopped,    \* history: Stop has been called
    stale,      \* history: HandleConnecting met a socket closed since select
    raced       \* history: two threads have worked on one client

netVars == <<fd, connected, sock, tcpMap, connMap>>
snapVars == <<tcpTmp, connTmp, fdsRead, fdsWrite, todo>>
histVars == <<opens, stopped, stale, raced>>
vars == <<netVars, notified, running, loopPc, snapVars, op, histVars>>

Entries(m) == {f \in Fd : m[f] # NoClient}
Without(m, f) == [m EXCEPT ![f] = NoClient]

\* A TCP socket that was never connected is readable and writable for select.
Readable(f) == sock[f] \in {"new", "failed", "eof"}
Writable(f) == sock[f] \in {"new", "established", "failed", "eof"}

-----------------------------------------------------------------------------

\* Start has created the thread and no client is open.
Init ==
    /\ fd = [c \in Client |-> Closed]
    /\ connected = [c \in Client |-> FALSE]
    /\ sock = [f \in Fd |-> "free"]
    /\ tcpMap = NoMap /\ connMap = NoMap
    /\ notified = FALSE /\ running = FALSE
    /\ loopPc = "start"
    /\ tcpTmp = NoMap /\ connTmp = NoMap
    /\ fdsRead = {} /\ fdsWrite = {} /\ todo = {}
    /\ op = [t \in Thread |-> Idle]
    /\ opens = 0
    /\ stopped = FALSE /\ stale = FALSE /\ raced = FALSE

(* Clients: Open and Close of a TcpNetClient by thread t. *)

\* The user's thread may call at any time, the loop's from OnTimerEvent.
mayCall(t) == op[t] = Idle /\ (t = "loop" => loopPc = "timer")

\* Open: a closed client gets the lowest free descriptor.  The callers see to
\* it that a client is opened by one thread only.
Open(t, c) ==
    /\ mayCall(t)
    /\ opens < MaxOpen /\ opens' = opens + 1
    /\ fd[c] = Closed
    /\ \A u \in Thread : op[u].c # c
    /\ \E f \in Fd :
         /\ sock[f] = "free" /\ \A g \in 1 .. f - 1 : sock[g] # "free"
         /\ sock' = [sock EXCEPT ![f] = "new"]
         /\ fd' = [fd EXCEPT ![c] = f]
         /\ op' = [op EXCEPT ![t] = [pc |-> "context", c |-> c, f |-> f]]
    /\ connected' = [connected EXCEPT ![c] = FALSE]
    /\ UNCHANGED <<tcpMap, connMap, notified, running, loopPc, snapVars, stopped, stale, raced>>

\* SetSocketContext: the socket is registered, before it is connected.
SetSocketContext(t) ==
    /\ op[t].pc = "context"
    /\ tcpMap' = [tcpMap EXCEPT ![op[t].f] = op[t].c]
    /\ notified' = TRUE
    /\ op' = [op EXCEPT ![t].pc = "connect"]
    /\ UNCHANGED <<fd, connected, sock, connMap, running, loopPc, snapVars, histVars>>

\* Connect: the connection is under way, and then the loop is told; or connect
\* fails at once, and Open calls Close.
Connect(t) ==
    /\ op[t].pc = "connect"
    /\ \/ /\ sock' = [sock EXCEPT ![op[t].f] = "connecting"]
          /\ op' = [op EXCEPT ![t].pc = "connecting"]
       \/ /\ op' = [op EXCEPT ![t].pc = "erase"]
          /\ UNCHANGED sock
    /\ UNCHANGED <<fd, connected, tcpMap, connMap, notified, running, loopPc, snapVars, histVars>>

\* Mutant of connecting: the loop is not woken up.
connectingSilent(t) ==
    /\ op[t].pc = "connecting"
    /\ connMap' = [connMap EXCEPT ![op[t].f] = op[t].c]
    /\ op' = [op EXCEPT ![t] = Idle]
    /\ UNCHANGED <<notified, fd, connected, sock, tcpMap, running, loopPc, snapVars, histVars>>

\* The end of Connect: connecting_map_ and the wake-up.
connecting(t) ==
    /\ op[t].pc = "connecting"
    /\ connMap' = [connMap EXCEPT ![op[t].f] = op[t].c]
    /\ notified' = TRUE
    /\ op' = [op EXCEPT ![t] = Idle]
    /\ UNCHANGED <<fd, connected, sock, tcpMap, running, loopPc, snapVars, histVars>>

\* Close of an open client begins; a second thread may be at the same client.
beginClose(t, c) ==
    /\ fd[c] # Closed
    /\ op' = [op EXCEPT ![t] = [pc |-> "erase", c |-> c, f |-> fd[c]]]
    /\ raced' = (\E u \in Thread \ {t} : op[u].c = c)

Close(t, c) ==
    /\ mayCall(t)
    /\ beginClose(t, c)
    /\ UNCHANGED <<netVars, notified, running, loopPc, snapVars, opens, stopped, stale>>

\* Mutant of CloseSocket: the entry in tcp_socket_map_ stays.
CloseSocketKeeping(t) ==
    /\ op[t].pc = "erase"
    /\ connMap' = Without(connMap, op[t].f)
    /\ op' = [op EXCEPT ![t].pc = "close"]
    /\ UNCHANGED <<tcpMap, fd, connected, sock, notified, running, loopPc, snapVars, histVars>>

\* CloseSocket takes the socket out of the maps (which nobody reads together) ...
CloseSocket(t) ==
    /\ op[t].pc = "erase"
    /\ tcpMap' = Without(tcpMap, op[t].f)
    /\ connMap' = Without(connMap, op[t].f)
    /\ op' = [op EXCEPT ![t].pc = "close"]
    /\ UNCHANGED <<fd, connected, sock, notified, running, loopPc, snapVars, histVars>>

\* ... closes the descriptor, and wakes the loop up.
close_socket(t) ==
    /\ op[t].pc = "close"
    /\ sock' = [sock EXCEPT ![op[t].f] = "free"]
    /\ notified' = TRUE
    /\ op' = [op EXCEPT ![t].pc = "reset"]
    /\ UNCHANGED <<fd, connected, tcpMap, connMap, running, loopPc, snapVars, histVars>>

\* The end of TcpNetClient::Close.
closed(t) ==
    /\ op[t].pc = "reset"
    /\ fd' = [fd EXCEPT ![op[t].c] = Closed]
    /\ connected' = [connected EXCEPT ![op[t].c] = FALSE]
    /\ op' = [op EXCEPT ![t] = Idle]
    /\ UNCHANGED <<sock, tcpMap, connMap, notified, running, loopPc, snapVars, histVars>>

clientStep(t) ==
    SetSocketContext(t) \/ Connect(t) \/ connecting(t) \/ CloseSocket(t) \/ close_socket(t) \/ closed(t)

\* The peer accepts or refuses a connection, or ends it.
peer ==
    /\ \E f \in Fd :
         \/ sock[f] = "connecting" /\ \E s \in {"established", "failed"} : sock' = [sock EXCEPT ![f] = s]
         \/ sock[f] = "established" /\ sock' = [sock EXCEPT ![f] = "eof"]
    /\ UNCHANGED <<fd, connected, tcpMap, connMap, notified, running, loopPc, snapVars, op, histVars>>

-----------------------------------------------------------------------------
(* The loop. *)

\* MyRun sets running_ ...
MyRun ==
    /\ loopPc = "start"
    /\ running' = TRUE
    /\ loopPc' = "while"
    /\ UNCHANGED <<netVars, notified, snapVars, op, histVars>>

\* ... takes connecting_map_ in each round and enters select, which fails when
\* one of the descriptors is closed.
FillFdset ==
    /\ loopPc = "while" /\ running
    /\ connTmp' = connMap
    /\ IF \E f \in Entries(connMap) \cup Entries(tcpTmp) : sock[f] = "free"
       THEN tcpTmp' = tcpMap /\ UNCHANGED loopPc
       ELSE loopPc' = "select" /\ UNCHANGED tcpTmp
    /\ UNCHANGED <<netVars, notified, running, fdsRead, fdsWrite, todo, op, histVars>>

ended ==
    /\ loopPc = "while" /\ ~running
    /\ loopPc' = "ended"
    /\ UNCHANGED <<netVars, notified, running, snapVars, op, histVars>>

\* select returns; it waits for writing only on sockets that connect.  A wake-up
\* is read, and may be one of the timer's.
select ==
    LET r == {f \in Entries(connTmp) \cup Entries(tcpTmp) : Readable(f)}
        w == {f \in Entries(connTmp) : Writable(f)}
    IN  /\ loopPc = "select"
        /\ notified \/ r \cup w # {}
        /\ fdsRead' = r /\ fdsWrite' = w
        /\ notified' = FALSE
        /\ loopPc' = IF notified THEN "timer" ELSE "connecting"
        /\ todo' = Entries(connTmp)
        /\ UNCHANGED <<netVars, running, tcpTmp, connTmp, op, histVars>>

\* After a wake-up and OnTimerEvent the loop takes tcp_socket_map_.
refresh ==
    /\ loopPc = "timer" /\ op["loop"] = Idle
    /\ tcpTmp' = tcpMap
    /\ loopPc' = "connecting"
    /\ UNCHANGED <<netVars, notified, running, connTmp, fdsRead, fdsWrite, todo, op, histVars>>

\* HandleConnecting of descriptor f: getsockopt of a closed one fails, and all
\* of connecting_map_ is given up; a failed connection is forgotten (HandleEvent
\* follows); otherwise a writable socket counts as connected.  An entry that has
\* gone or changed since select makes the step stale; to erase a failed one that
\* has gone is undefined, and shown here as doing nothing.
HandleConnecting(f) ==
    /\ loopPc = "connecting" /\ f \in todo
    /\ \/ /\ f \in fdsRead \cap fdsWrite /\ sock[f] = "free"
          /\ connMap' = NoMap
          /\ todo' = {}
          /\ UNCHANGED connected
       \/ /\ f \in fdsRead \cap fdsWrite /\ sock[f] = "failed"
          /\ connMap' = Without(connMap, f)
          /\ todo' = todo \ {f}
          /\ UNCHANGED connected
       \/ /\ f \in fdsWrite /\ (f \in fdsRead => sock[f] \notin {"free", "failed"})
          /\ connected' = [connected EXCEPT ![connTmp[f]] = TRUE]
          /\ connMap' = Without(connMap, f)
          /\ todo' = todo \ {f}
       \/ /\ f \notin fdsWrite
          /\ todo' = todo \ {f}
          /\ UNCHANGED <<connected, connMap>>
    /\ stale' = (stale \/ (f \in fdsWrite /\ connMap[f] # connTmp[f]) \/ (f \in fdsWrite /\ ~Writable(f)))
    /\ UNCHANGED <<fd, sock, tcpMap, notified, running, loopPc, tcpTmp, connTmp, fdsRead, fdsWrite, op, opens, stopped, raced>>

HandleEvent ==
    /\ loopPc = "connecting" /\ todo = {}
    /\ loopPc' = "tcp"
    /\ todo' = Entries(tcpTmp) \cap fdsRead
    /\ UNCHANGED <<netVars, notified, running, tcpTmp, connTmp, fdsRead, fdsWrite, op, histVars>>

\* HandleTcpSocketEvent of descriptor f: when recv fails, or reads the end,
\* OnClose closes the client, if f is still its own.
HandleTcpSocketEvent(f) ==
    /\ loopPc = "tcp" /\ op["loop"] = Idle /\ f \in todo
    /\ todo' = todo \ {f}
    /\ IF sock[f] \notin {"connecting", "established"} /\ fd[tcpTmp[f]] = f
       THEN beginClose("loop", tcpTmp[f])
       ELSE UNCHANGED <<op, raced>>
    /\ UNCHANGED <<netVars, notified, running, loopPc, tcpTmp, connTmp, fdsRead, fdsWrite, opens, stopped, stale>>

endOfRound ==
    /\ loopPc = "tcp" /\ op["loop"] = Idle /\ todo = {}
    /\ loopPc' = "while"
    /\ UNCHANGED <<netVars, notified, running, snapVars, op, histVars>>

\* Mutant of Stop: the loop is not woken up.
StopSilent ==
    /\ op["user"] = Idle /\ ~stopped
    /\ running' = FALSE
    /\ stopped' = TRUE
    /\ UNCHANGED <<notified, netVars, loopPc, snapVars, op, opens, stale, raced>>

\* Stop, which then waits for the thread to end.
Stop ==
    /\ op["user"] = Idle /\ ~stopped
    /\ running' = FALSE
    /\ notified' = TRUE
    /\ stopped' = TRUE
    /\ UNCHANGED <<netVars, loopPc, snapVars, op, opens, stale, raced>>

loopStep ==
    \/ MyRun \/ FillFdset \/ ended \/ select \/ refresh \/ HandleEvent \/ endOfRound
    \/ \E f \in Fd : HandleConnecting(f) \/ HandleTcpSocketEvent(f)
    \/ clientStep("loop")

Next ==
    /\ ~raced
    /\ \/ loopStep \/ clientStep("user") \/ peer \/ Stop
       \/ \E c \in Client : Close("loop", c) \/ (~stopped /\ Close("user", c))
       \/ \E c \in Client : Open("loop", c) \/ (~stopped /\ Open("user", c))

Spec == Init /\ [][Next]_vars

\* Both threads run, and a thread that is in Open or Close comes to its end.
LiveSpec == Spec /\ WF_vars(~raced /\ loopStep) /\ WF_vars(~raced /\ clientStep("user"))

-----------------------------------------------------------------------------
(* Properties.                                                              *)

\* While two threads open and close clients and descriptors are used again, a
\* client that no thread is working on is registered for its own socket, and
\* for no other: no Close takes away the entry of the socket that came next.  A
\* socket that is connecting is so for the client it is registered for.
SocketRegistered ==
    /\ \A f \in Fd : connMap[f] \in {tcpMap[f], NoClient}
    /\ ~raced => \A c \in Client :
        (\A t \in Thread : op[t].c # c) =>
            /\ {f \in Fd : tcpMap[f] = c} = {fd[c]} \ {Closed}
            /\ fd[c] # Closed => sock[fd[c]] # "free"

Out == raced \/ stale \/ loopPc = "ended"

\* A connection that is established, and one that has failed or ended, is
\* reported to its client, although the sockets were entered while the loop was
\* working on its snapshots.
Unreported(c) ==
    fd[c] # Closed /\ (sock[fd[c]] \in {"failed", "eof"} \/ (sock[fd[c]] = "established" /\ ~connected[c]))
EventsReported == \A c \in Client : Unreported(c) ~> (~Unreported(c) \/ Out)

\* A Stop that comes after MyRun has set running_ ends the loop, wherever it is.
StopReturns == (~running /\ loopPc # "start") ~> (loopPc = "ended" \/ raced)

=============================================================================
