---------------------------- MODULE ChannelSend ----------------------------
(***************************************************************************)
(* The sending half of one UDPChannel of the relay server: buffer_, the    *)
(* queue of packets to send, mempool_, the pool its packets come from,     *)
(* post_events_, the event mask last asked for, and the mask epoll really  *)
(* has.  Threads that relay to this channel (UDPAccept::handleRecv for a   *)
(* callee channel, the handleRecv of every callee channel for the accept   *)
(* channel) fill a packet and call sendBuf; the channel's own event loop   *)
(* runs handleSend when the socket is writable and closes the channel.     *)
(*                                                                         *)
(* One action is one locked section of Buffer or MemPool, one access to    *)
(* the unprotected post_events_, or one epoll_ctl.                         *)
(***************************************************************************)
EXTENDS Naturals, Sequences, FiniteSets

CONSTANTS
    Sender,     \* the threads that call sendBuf on this channel
    Buf,        \* DataBuffer objects: what `new T' may return
    NoBuf,      \* the NULL DataBuffer
    PoolLen,    \* mempool_size
    MaxPush     \* bound: the packets that are relayed

ASSUME NoBufAssumption == NoBuf \notin Buf
ASSUME BoundAssumption == PoolLen \in Nat /\ MaxPush \in Nat

VARIABLES
    pool,       \* bufptr_list_[0 .. cur_obj_cnt_ - 1]
    alloc,      \* the DataBuffers that are allocated
    data,       \* what a DataBuffer contains
    queue,      \* buffer_.buf_list_
    wantOut,    \* post_events_ has POLLOUT
    armed,      \* the mask epoll has for the channel has POLLOUT
    open,       \* the socket is open and registered with epoll
    closed,     \* the state copyBufferAndSend reads is CLOSED or TIMEOUT
    posted,     \* the channel is in tmout_chls_ of its loop
    pc,         \* what a sender is doing
    held,       \* the DataBuffer a sender is filling
    arg,        \* the mask a thread has read and passes to epoll_ctl
    loopPc,     \* what the event loop is doing
    cur,        \* the DataBuffer handleSend has popped
    loopArg,    \* the mask the event loop passes to epoll_ctl
    count,      \* history: the packets received so far
    accepted,   \* history: the packets pushed, in order
    slipped,    \* history: a packet in the queue was pushed while another thread set the mask
    sent        \* history: the packets given to sendto, in order

poolVars == <<pool, alloc>>
maskVars == <<wantOut, armed>>
chlVars  == <<open, closed, posted>>
sendVars == <<pc, held, arg>>
loopVars == <<loopPc, cur, loopArg>>
pushVars == <<accepted, slipped>>
vars == <<poolVars, data, queue, maskVars, chlVars, sendVars, loopVars, count, pushVars, sent>>

\* A packet is named after the order in which the relay receives them.
Packet == 1 .. MaxPush
NoPacket == 0

-----------------------------------------------------------------------------

\* addToPoll has registered the channel for input.
Init ==
    /\ pool = << >>
    /\ alloc = {}
    /\ data = [b \in Buf |-> NoPacket]
    /\ queue = << >>
    /\ wantOut = FALSE
    /\ armed = FALSE
    /\ open = TRUE
    /\ closed = FALSE
    /\ posted = FALSE
    /\ pc = [t \in Sender |-> "idle"]
    /\ held = [t \in Sender |-> NoBuf]
    /\ arg = [t \in Sender |-> FALSE]
    /\ loopPc = "wait"
    /\ cur = NoBuf
    /\ loopArg = FALSE
    /\ count = 0
    /\ accepted = << >>
    /\ slipped = FALSE
    /\ sent = << >>

\* MemPool::GetMemery gives the caller b: the top of the pool, or a new object
\* when the pool is empty.
GetMemery(b) ==
    \/ /\ pool # << >>
       /\ b = pool[Len(pool)]
       /\ pool' = SubSeq(pool, 1, Len(pool) - 1)
       /\ UNCHANGED alloc
    \/ /\ pool = << >>
       /\ b \notin alloc
       /\ alloc' = alloc \cup {b}
       /\ UNCHANGED pool

\* Mutant of Release: the capacity of bufptr_list_ is not checked.
ReleaseUnbounded(b) ==
    /\ pool' = Append(pool, b)
    /\ UNCHANGED alloc

\* MemPool::Release takes b back, or deletes it when the pool is full.
Release(b) ==
    \/ /\ Len(pool) >= PoolLen
       /\ alloc' = alloc \ {b}
       /\ UNCHANGED pool
    \/ /\ Len(pool) < PoolLen
       /\ pool' = Append(pool, b)
       /\ UNCHANGED alloc

-----------------------------------------------------------------------------
(* A relaying thread.                                                       *)

\* copyBufferAndSend, or the handleRecv of the peer: get a packet and fill it.
getBuffer(t, b) ==
    /\ pc[t] = "idle"
    /\ count < MaxPush
    /\ ~closed
    /\ GetMemery(b)
    /\ held' = [held EXCEPT ![t] = b]
    /\ data' = [data EXCEPT ![b] = count + 1]
    /\ count' = count + 1
    /\ pc' = [pc EXCEPT ![t] = "push"]
    /\ UNCHANGED <<queue, maskVars, chlVars, arg, loopVars, pushVars, sent>>

\* RecvFrom, or the packing of an answer, failed: the packet goes back.
abandon(t) ==
    /\ pc[t] = "push"
    /\ Release(held[t])
    /\ held' = [held EXCEPT ![t] = NoBuf]
    /\ pc' = [pc EXCEPT ![t] = "idle"]
    /\ UNCHANGED <<data, queue, maskVars, chlVars, arg, loopVars, count, pushVars, sent>>

\* sendBuf: buffer_.Push.
Push(t) ==
    /\ pc[t] = "push"
    /\ queue' = Append(queue, held[t])
    /\ accepted' = Append(accepted, data[held[t]])
    /\ slipped' = \/ loopPc \in {"want", "read", "mod"}
                  \/ \E u \in Sender \ {t} : pc[u] \in {"want", "read", "mod"}
                  \/ slipped /\ (queue # << >> \/ cur # NoBuf)
    /\ held' = [held EXCEPT ![t] = NoBuf]
    /\ pc' = [pc EXCEPT ![t] = "want"]
    /\ UNCHANGED <<poolVars, data, maskVars, chlVars, arg, loopVars, count, sent>>

\* sendBuf: postSend assigns post_events_ ...
postSend(t) ==
    /\ pc[t] = "want"
    /\ wantOut' = TRUE
    /\ pc' = [pc EXCEPT ![t] = "read"]
    /\ UNCHANGED <<poolVars, data, queue, armed, chlVars, held, arg, loopVars, count, pushVars,
                   sent>>

\* ... updateChannel reads it back ...
getPostEvents(t) ==
    /\ pc[t] = "read"
    /\ arg' = [arg EXCEPT ![t] = wantOut]
    /\ pc' = [pc EXCEPT ![t] = "mod"]
    /\ UNCHANGED <<poolVars, data, queue, maskVars, chlVars, held, loopVars, count, pushVars,
                   sent>>

\* ... and pollModChannel passes it to epoll_ctl, which fails on a closed socket.
pollModChannel(t) ==
    /\ pc[t] = "mod"
    /\ armed' = IF open THEN arg[t] ELSE armed
    /\ pc' = [pc EXCEPT ![t] = "idle"]
    /\ UNCHANGED <<poolVars, data, queue, wantOut, chlVars, held, arg, loopVars, count,
                   pushVars, sent>>

-----------------------------------------------------------------------------
(* The channel's event loop.                                                *)

\* epoll_wait reports POLLOUT; handleEvent calls handleSend.
pollOut ==
    /\ loopPc = "wait"
    /\ armed
    /\ loopPc' = "pop"
    /\ UNCHANGED <<poolVars, data, queue, maskVars, chlVars, sendVars, cur, loopArg, count,
                   pushVars, sent>>

\* handleSend: buffer_.pop.
pop ==
    /\ loopPc = "pop"
    /\ \/ /\ queue = << >>
          /\ loopPc' = "empty"
          /\ UNCHANGED <<queue, cur>>
       \/ /\ queue # << >>
          /\ loopPc' = "send"
          /\ cur' = Head(queue)
          /\ queue' = Tail(queue)
    /\ UNCHANGED <<poolVars, data, maskVars, chlVars, sendVars, loopArg, count, pushVars, sent>>

\* SendTo succeeds and the packet goes back to the pool.
sendTo ==
    /\ loopPc = "send"
    /\ sent' = Append(sent, data[cur])
    /\ Release(cur)
    /\ cur' = NoBuf
    /\ loopPc' = "pop"
    /\ UNCHANGED <<data, queue, maskVars, chlVars, sendVars, loopArg, count, pushVars>>

\* Mutant of PushFront: the packet is put back at the end of the queue.
PushBack ==
    /\ loopPc = "send"
    /\ queue' = Append(queue, cur)
    /\ cur' = NoBuf
    /\ loopPc' = "empty"
    /\ UNCHANGED <<poolVars, data, maskVars, chlVars, sendVars, loopArg, count, pushVars, sent>>

\* Mutant of PushFront: the packet is put back and released too.
PushFrontReleasing ==
    /\ loopPc = "send"
    /\ queue' = <<cur>> \o queue
    /\ Release(cur)
    /\ cur' = NoBuf
    /\ loopPc' = "empty"
    /\ UNCHANGED <<data, maskVars, chlVars, sendVars, loopArg, count, pushVars, sent>>

\* SendTo fails: the packet goes back to the front of the queue.
PushFront ==
    /\ loopPc = "send"
    /\ queue' = <<cur>> \o queue
    /\ cur' = NoBuf
    /\ loopPc' = "empty"
    /\ UNCHANGED <<poolVars, data, maskVars, chlVars, sendVars, loopArg, count, pushVars,
                   sent>>

\* Mutant of isEmpty: postRecv is called whatever is left in the queue.
isEmptyIgnored ==
    /\ loopPc = "empty"
    /\ loopPc' = "want"
    /\ UNCHANGED <<poolVars, data, queue, maskVars, chlVars, sendVars, cur, loopArg, count,
                   pushVars, sent>>

\* handleSend: buffer_.isEmpty decides whether POLLOUT is still wanted.
isEmpty ==
    /\ loopPc = "empty"
    /\ loopPc' = IF queue = << >> THEN "want" ELSE "wait"
    /\ UNCHANGED <<poolVars, data, queue, maskVars, chlVars, sendVars, cur, loopArg, count,
                   pushVars, sent>>

\* postRecv, in the same three steps as postSend.
postRecv ==
    /\ loopPc = "want"
    /\ wantOut' = FALSE
    /\ loopPc' = "read"
    /\ UNCHANGED <<poolVars, data, queue, armed, chlVars, sendVars, cur, loopArg, count,
                   pushVars, sent>>

loopGetPostEvents ==
    /\ loopPc = "read"
    /\ loopArg' = wantOut
    /\ loopPc' = "mod"
    /\ UNCHANGED <<poolVars, data, queue, maskVars, chlVars, sendVars, cur, count, pushVars,
                   sent>>

loopPollModChannel ==
    /\ loopPc = "mod"
    /\ armed' = loopArg
    /\ loopPc' = "wait"
    /\ UNCHANGED <<poolVars, data, queue, wantOut, chlVars, sendVars, cur, loopArg, count,
                   pushVars, sent>>

\* ChannelBase::postTimeout, in the timer thread: senders see the state.
postTimeout ==
    /\ ~closed
    /\ closed' = TRUE
    /\ posted' = TRUE
    /\ UNCHANGED <<poolVars, data, queue, maskVars, open, sendVars, loopVars, count, pushVars,
                   sent>>

\* UDPSession::setRemoteAddress, when its caller authenticates again: the state
\* is INIT again, the socket and tmout_chls_ are left as they are.
setRemoteAddress ==
    /\ closed
    /\ closed' = FALSE
    /\ UNCHANGED <<poolVars, data, queue, maskVars, open, posted, sendVars, loopVars, count,
                   pushVars, sent>>

\* Channel::close, from doPendingCloseChannels.  The queue is not emptied.
close ==
    /\ loopPc = "wait"
    /\ posted
    /\ posted' = FALSE
    /\ open' = FALSE
    /\ closed' = TRUE
    /\ armed' = FALSE
    /\ UNCHANGED <<poolVars, data, queue, wantOut, sendVars, loopVars, count, pushVars, sent>>

-----------------------------------------------------------------------------

SenderNext(t) ==
    \/ \E b \in Buf : getBuffer(t, b)
    \/ abandon(t)
    \/ Push(t)
    \/ postSend(t)
    \/ getPostEvents(t)
    \/ pollModChannel(t)

handleSend ==
    \/ pollOut
    \/ pop
    \/ sendTo
    \/ PushFront
    \/ isEmpty
    \/ postRecv
    \/ loopGetPostEvents
    \/ loopPollModChannel

Next ==
    \/ \E t \in Sender : SenderNext(t)
    \/ handleSend
    \/ postTimeout
    \/ setRemoteAddress
    \/ close

Spec == Init /\ [][Next]_vars

-----------------------------------------------------------------------------
(* Properties.                                                              *)

\* Types; the pool keeps no more than mempool_size objects.
TypeOK ==
    /\ pool \in Seq(Buf) /\ Len(pool) <= PoolLen
    /\ alloc \subseteq Buf
    /\ data \in [Buf -> Packet \cup {NoPacket}]
    /\ queue \in Seq(Buf)
    /\ {wantOut, armed, open, closed, posted, loopArg, slipped} \subseteq BOOLEAN
    /\ pc \in [Sender -> {"idle", "push", "want", "read", "mod"}]
    /\ held \in [Sender -> Buf \cup {NoBuf}]
    /\ arg \in [Sender -> BOOLEAN]
    /\ count \in 0 .. MaxPush
    /\ loopPc \in {"wait", "pop", "send", "empty", "want", "read", "mod"}
    /\ cur \in Buf \cup {NoBuf}
    /\ accepted \in Seq(Packet)
    /\ sent \in Seq(Packet)

\* How many of the places that can own a DataBuffer own b.
Owners(b) ==
    Cardinality({i \in DOMAIN pool : pool[i] = b})
    + Cardinality({i \in DOMAIN queue : queue[i] = b})
    + Cardinality({t \in Sender : held[t] = b})
    + (IF cur = b THEN 1 ELSE 0)

\* Every DataBuffer that is allocated has exactly one owner (the pool, the queue,
\* one relaying thread or handleSend) and no deleted one has any: GetMemery never
\* hands out a packet that is still to be sent, and Release never loses one.
BufferOwned == \A b \in Buf : Owners(b) = IF b \in alloc THEN 1 ELSE 0

\* The channel implements the in-order, exactly-once, unaltered relay of
\* RelayFifo, although senders push while handleSend pops, puts back and
\* recycles the packets' memory.
Fifo == INSTANCE RelayFifo WITH Packet <- Packet, accepted <- accepted, sent <- sent
RelaysInOrder == Fifo!Spec

\* No packet is forgotten: when all threads are done and the loop sits in
\* epoll_wait over a queue that is not empty, epoll watches for POLLOUT, unless a
\* packet was pushed while another thread was between its access to post_events_
\* and its epoll_ctl.  (The mask of that thread may then be the last: POLLOUT is
\* off over a queue that is not empty, and stays off until the next sendBuf.)
WaitsArmed ==
    open /\ queue # << >> /\ loopPc = "wait" /\ (\A t \in Sender : pc[t] = "idle")
        => armed \/ slipped

=============================================================================
