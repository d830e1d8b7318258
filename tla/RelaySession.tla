---------------------------- MODULE RelaySession ----------------------------
(***************************************************************************)
(* The UDP half of the relay server (relayserver/): the session table of   *)
(* UDPSessionManager and the three kinds of thread that work on it.        *)
(*                                                                         *)
(*   - the timer thread (Timer::run, SessionManager::updateSessions) scans *)
(*     the table once a second, posts time-outs and deletes dead sessions; *)
(*   - the accept channel (UDPAccept::handleRecv) looks callers up, resets *)
(*     or creates their session and answers them; it runs in event loop 0; *)
(*   - every event loop (Poll::poll) handles the events of the callee      *)
(*     channels that live on it and then closes the channels other threads *)
(*     have posted to it (Poll::doPendingCloseChannels).                   *)
(*                                                                         *)
(* A session object is a member of Sid; it owns the pair channel_er_,      *)
(* channel_ee_.  One action is one section of code that another thread     *)
(* cannot cut in two: a locked section, or the code between two of them.   *)
(* Time is explicit: `now' is the second now_sec() returns.                *)
(***************************************************************************)
EXTENDS Integers

CONSTANTS
    Caller,       \* caller addresses: the keys of sessions_
    Callee,       \* callee addresses the white list accepts
    Arrivals,     \* the kinds of datagram callers send
    Sid,          \* session objects: what `new UDPSession' may return
    NoSid,        \* the NULL channel or session
    NoCallee,     \* the zeroed remote_addr_ of a closed channel
    NLoop,        \* loop_threads_list_.size()
    TimeoutSec,   \* DEFAULTTIMEOUTSEC
    LoopSec,      \* seconds within which a loop reaches the next doPendingCloseChannels
    TimerSec,     \* seconds within which the timer thread reads the clock again
    LockDelay,    \* seconds the timer may spend between now_sec() and owning mutex_
    Modulus,      \* 2^64: uint64_t subtraction wraps here
    MaxClock,     \* bound: the last second of a behaviour
    LastArrival   \* bound: no packet arrives after this second

ASSUME SidAssumption == NoSid \notin Sid
ASSUME CalleeAssumption == NoCallee \notin Callee
ASSUME LoopAssumption == NLoop \in Nat \ {0}
\* The loop waits at most kPollTimeMs = 5 s, the time-out is 30 s.
ASSUME TimeAssumption ==
    /\ TimeoutSec \in Nat
    /\ LoopSec \in Nat
    /\ LoopSec + LoopSec < TimeoutSec
    /\ TimerSec \in Nat \ {0}
    /\ LockDelay \in Nat
    /\ MaxClock \in Nat
    /\ LastArrival \in Nat
    /\ Modulus \in Nat
    /\ Modulus > MaxClock + TimeoutSec

VARIABLES
    now,          \* the wall clock, in seconds
    sessions,     \* sessions_: caller -> session object
    callerChl,    \* caller_chl_map_: caller -> the session whose channel_er_ it maps to
    alloc,        \* the session objects that are allocated
    erState,      \* channel_er_->state_
    eeState,      \* channel_ee_->state_
    lastRecv,     \* channel_er_->last_recv_time_
    eeOpen,       \* the sessions whose channel_ee_ has an open socket, registered with epoll
    eeRemote,     \* channel_ee_->remote_addr_
    loopOf,       \* the loop the session was given by getEventLoopThread
    nextLoop,     \* current_loop_id_
    pending,      \* how often channel_ee_ is in tmout_chls_ of its loop
    closing,      \* how often it is in the vector doPendingCloseChannels swapped out
    loopPc,       \* what an event loop is doing
    ready,        \* channel_ee_ pointers epoll_wait returned, not handled yet
    inClose,      \* the channel_ee_ a loop is in the middle of closing
    start,        \* when a loop last swapped tmout_chls_
    timerPc,      \* what the timer thread is doing
    sec,          \* its reading of the clock
    todo,         \* the sessions its scan has still to visit
    dead,         \* the sessions its scan has found dead
    toPost,       \* the session whose channel_ee_ it is about to enqueue
    accPc,        \* what UDPAccept::handleRecv is doing
    accCaller,    \* addr_caller of the datagram it handles
    accMsg,       \* what the datagram is
    accCallee,    \* the callee it asks for, if it is an authentication request
    accChl,       \* the pointer findChannel returned
    accNew,       \* the session createSession is building
    accAns,       \* the success_ field of the answer being sent
    posted,       \* history: when channel_ee_ was last posted
    heard         \* history: when the caller's last datagram was looked up

tableVars == <<sessions, callerChl, alloc>>
chanVars  == <<erState, eeState, lastRecv, eeOpen, eeRemote, loopOf>>
postVars  == <<pending, closing, posted>>
loopVars  == <<loopPc, ready, inClose, start>>
timerVars == <<timerPc, sec, todo, dead, toPost>>
accVars   == <<accPc, accCaller, accMsg, accCallee, accChl, accNew, accAns>>
vars == <<now, tableVars, chanVars, nextLoop, postVars, loopVars, timerVars, accVars, heard>>

\* enum CHANNEL_STATE of NetCommon.h.
ChannelState == {"INIT", "RW", "TIMEOUT", "CLOSED"}
Loop == 0 .. NLoop - 1
\* The loop getEventLoopThread gave the accept channel before any session existed.
AcceptLoop == 0
\* What a datagram can be to UDPAccept::handleRecv: a payload that is not the
\* relay's own protocol ("raw"), or a PDU with one of the commands of
\* handlePduPack.  An "auth" names a callee of the white list, a "badauth" one
\* that is zero or unknown to it; "other" is a command the relay does not know;
\* "rtp" also stands for a PDU that handlePduPack drops because it cannot be
\* parsed or is cut short: neither is answered.
Message == {"raw", "auth", "badauth", "heartbeat", "rtp", "conf", "other"}

ASSUME ArrivalsAssumption == Arrivals \subseteq Message

-----------------------------------------------------------------------------

Init ==
    /\ now = 0
    /\ sessions = [c \in Caller |-> NoSid]
    /\ callerChl = [c \in Caller |-> NoSid]
    /\ alloc = {}
    /\ erState = [s \in Sid |-> "INIT"]
    /\ eeState = [s \in Sid |-> "INIT"]
    /\ lastRecv = [s \in Sid |-> 0]
    /\ eeOpen = {}
    /\ eeRemote = [s \in Sid |-> NoCallee]
    /\ loopOf = [s \in Sid |-> 0]
    /\ nextLoop = 1 % NLoop
    /\ pending = [s \in Sid |-> 0]
    /\ closing = [s \in Sid |-> 0]
    /\ posted = [s \in Sid |-> 0]
    /\ loopPc = [l \in Loop |-> "wait"]
    /\ ready = {}
    /\ inClose = {}
    /\ start = [l \in Loop |-> 0]
    /\ timerPc = "sleep"
    /\ sec = 0
    /\ todo = {}
    /\ dead = {}
    /\ toPost = NoSid
    /\ accPc = "idle"
    /\ accCaller \in Caller
    /\ accMsg = "raw"
    /\ accCallee = NoCallee
    /\ accChl = NoSid
    /\ accNew = NoSid
    /\ accAns = "NONE"
    /\ heard = [c \in Caller |-> 0]

\* The timer thread is inside updateSessions and owns SessionManager::mutex_;
\* the locked sections of the accept thread are single actions.
TimerOwnsMutex == timerPc \in {"check", "post"}

-----------------------------------------------------------------------------
(* The clock.  A second passes only when every thread has kept the pace the *)
(* constants allow it: a loop its LoopSec, the timer its TimerSec and its   *)
(* LockDelay.                                                               *)

Tick ==
    /\ now < MaxClock
    /\ \A l \in Loop : now - start[l] < LoopSec
    /\ now - sec < TimerSec
    /\ timerPc = "lock" => now - sec < LockDelay
    /\ now' = now + 1
    /\ UNCHANGED <<tableVars, chanVars, nextLoop, postVars, loopVars, timerVars, accVars, heard>>

-----------------------------------------------------------------------------
(* The timer thread.                                                        *)

\* Timer::run: select() sleeps a second, then the clock is read, before
\* updateSessions takes the mutex.
TimerRead ==
    /\ timerPc = "sleep"
    /\ now > sec
    /\ timerPc' = "lock"
    /\ sec' = now
    /\ UNCHANGED <<now, tableVars, chanVars, nextLoop, postVars, loopVars, todo, dead, toPost, accVars, heard>>

\* updateSessions takes mutex_ and starts its scan.
TimerLock ==
    /\ timerPc = "lock"
    /\ timerPc' = "check"
    /\ todo' = {s \in Sid : \E c \in Caller : sessions[c] = s}
    /\ dead' = {}
    /\ UNCHANGED <<now, tableVars, chanVars, nextLoop, postVars, loopVars, sec, toPost, accVars, heard>>

\* sec - last_recv_time_ as uint64_t.
Elapsed(t, last) == IF t >= last THEN t - last ELSE t - last + Modulus

\* ChannelBase::checkTimeout of channel_er_.
checkTimeout(s) == Elapsed(sec, lastRecv[s]) >= TimeoutSec

\* Session::checkChannelsTimeout for one session of the scan.  channel_er_ has
\* no loop, so its postTimeout closes it at once; that of channel_ee_ sets
\* TIMEOUT here and enqueues the channel in postTimeoutChannel.
TimerCheck(s) ==
    /\ timerPc = "check"
    /\ s \in todo
    /\ todo' = todo \ {s}
    /\ \/ /\ ~checkTimeout(s)
          /\ UNCHANGED <<timerPc, dead, toPost, erState, eeState>>
       \/ /\ checkTimeout(s)
          /\ erState[s] = "CLOSED" /\ eeState[s] = "CLOSED"
          /\ dead' = dead \cup {s}
          /\ UNCHANGED <<timerPc, toPost, erState, eeState>>
       \/ /\ checkTimeout(s)
          /\ erState[s] \notin {"TIMEOUT", "CLOSED"}
          /\ erState' = [erState EXCEPT ![s] = "CLOSED"]
          /\ eeState' = [eeState EXCEPT ![s] = "TIMEOUT"]
          /\ timerPc' = "post"
          /\ toPost' = s
          /\ UNCHANGED dead
       \/ /\ checkTimeout(s)
          /\ erState[s] \in {"TIMEOUT", "CLOSED"}
          /\ ~(erState[s] = "CLOSED" /\ eeState[s] = "CLOSED")
          /\ UNCHANGED <<timerPc, dead, toPost, erState, eeState>>
    /\ UNCHANGED <<now, tableVars, lastRecv, eeOpen, eeRemote, loopOf, nextLoop, postVars,
                   loopVars, sec, accVars, heard>>

\* Mutant of postTimeoutChannel: the time-out is recorded but the channel is
\* not pushed on tmout_chls_.
postTimeoutChannelLost ==
    /\ timerPc = "post"
    /\ timerPc' = "check"
    /\ toPost' = NoSid
    /\ posted' = [posted EXCEPT ![toPost] = now]
    /\ UNCHANGED <<now, tableVars, chanVars, nextLoop, pending, closing, loopVars, sec, todo,
                   dead, accVars, heard>>

\* Poll::postTimeoutChannel, under the mutex of the channel's loop.
postTimeoutChannel ==
    /\ timerPc = "post"
    /\ timerPc' = "check"
    /\ toPost' = NoSid
    /\ pending' = [pending EXCEPT ![toPost] = @ + 1]
    /\ posted' = [posted EXCEPT ![toPost] = now]
    /\ UNCHANGED <<now, tableVars, chanVars, nextLoop, closing, loopVars, sec, todo, dead,
                   accVars, heard>>

\* Mutant of removeSessions: removeCallerChlMap is not called.
removeSessionsKeepingChl ==
    /\ timerPc = "check"
    /\ todo = {}
    /\ timerPc' = "sleep"
    /\ sessions' = [c \in Caller |-> IF sessions[c] \in dead THEN NoSid ELSE sessions[c]]
    /\ alloc' = alloc \ dead
    /\ eeOpen' = eeOpen \ dead
    /\ dead' = {}
    /\ UNCHANGED <<now, callerChl, erState, eeState, lastRecv, eeRemote, loopOf, nextLoop,
                   postVars, loopVars, sec, todo, toPost, accVars, heard>>

\* Mutant of removeSessions: the table entry goes, the session is not deleted.
removeSessionsNoDelete ==
    /\ timerPc = "check"
    /\ todo = {}
    /\ timerPc' = "sleep"
    /\ sessions' = [c \in Caller |-> IF sessions[c] \in dead THEN NoSid ELSE sessions[c]]
    /\ callerChl' = [c \in Caller |-> IF sessions[c] \in dead THEN NoSid ELSE callerChl[c]]
    /\ dead' = {}
    /\ UNCHANGED <<now, alloc, chanVars, nextLoop, postVars, loopVars, sec, todo, toPost,
                   accVars, heard>>

\* handleInvalidSessions, removeSessions, deleteSession with the destructors
\* it runs (~Socket closes); then updateSessions releases mutex_.
removeSessions ==
    /\ timerPc = "check"
    /\ todo = {}
    /\ timerPc' = "sleep"
    /\ sessions' = [c \in Caller |-> IF sessions[c] \in dead THEN NoSid ELSE sessions[c]]
    /\ callerChl' = [c \in Caller |-> IF sessions[c] \in dead THEN NoSid ELSE callerChl[c]]
    /\ alloc' = alloc \ dead
    /\ eeOpen' = eeOpen \ dead
    /\ dead' = {}
    /\ UNCHANGED <<now, erState, eeState, lastRecv, eeRemote, loopOf, nextLoop, postVars,
                   loopVars, sec, todo, toPost, accVars, heard>>

-----------------------------------------------------------------------------
(* An event loop.                                                           *)

\* Loop l has the thread to itself: the accept channel's handler, when l is its
\* loop, is not running.
LoopFree(l) == l = AcceptLoop => accPc \in {"idle", "ready"}

\* epoll_wait returns the pointers of some registered channels, or times out.
\* On the accept channel's loop it may return that channel too (accPc becomes
\* "ready"): one datagram is read for each such event.
epoll_wait(l, evs) ==
    /\ loopPc[l] = "wait"
    /\ loopPc' = [loopPc EXCEPT ![l] = "events"]
    /\ ready' = ready \cup evs
    /\ \/ UNCHANGED accPc
       \/ /\ l = AcceptLoop
          /\ now <= LastArrival
          /\ accPc' = "ready"
    /\ UNCHANGED <<now, tableVars, chanVars, nextLoop, postVars, inClose, start, timerVars,
                   accCaller, accMsg, accCallee, accChl, accNew, accAns, heard>>

\* Poll::doEvent for one channel_ee_: UDPChannel::handleRecv and handleSend move
\* payloads and touch nothing of the session's life cycle.
handleEvent(l, s) ==
    /\ loopPc[l] = "events"
    /\ LoopFree(l)
    /\ s \in ready
    /\ loopOf[s] = l
    /\ ready' = ready \ {s}
    /\ UNCHANGED <<now, tableVars, chanVars, nextLoop, postVars, loopPc, inClose, start,
                   timerVars, accVars, heard>>

\* Mutant of swapPending: tmout_chls_ is copied instead of swapped.
swapPendingCopying(l) ==
    /\ loopPc[l] = "events"
    /\ l = AcceptLoop => accPc = "idle"
    /\ \A s \in ready : loopOf[s] # l
    /\ loopPc' = [loopPc EXCEPT ![l] = "closing"]
    /\ closing' = [s \in Sid |-> IF loopOf[s] = l THEN pending[s] ELSE closing[s]]
    /\ start' = [start EXCEPT ![l] = now]
    /\ UNCHANGED <<now, tableVars, chanVars, nextLoop, pending, posted, ready, inClose,
                   timerVars, accVars, heard>>

\* Poll::doPendingCloseChannels takes the posted channels out of tmout_chls_.
swapPending(l) ==
    /\ loopPc[l] = "events"
    /\ l = AcceptLoop => accPc = "idle"
    /\ \A s \in ready : loopOf[s] # l
    /\ loopPc' = [loopPc EXCEPT ![l] = "closing"]
    /\ closing' = [s \in Sid |-> IF loopOf[s] = l THEN pending[s] ELSE closing[s]]
    /\ pending' = [s \in Sid |-> IF loopOf[s] = l THEN 0 ELSE pending[s]]
    /\ start' = [start EXCEPT ![l] = now]
    /\ UNCHANGED <<now, tableVars, chanVars, nextLoop, posted, ready, inClose, timerVars,
                   accVars, heard>>

\* Channel::close up to ChannelBase::close: leave epoll, close the socket, zero
\* the address.
closeSocket(l, s) ==
    /\ loopPc[l] = "closing"
    /\ closing[s] > 0
    /\ loopOf[s] = l
    /\ \A r \in inClose : loopOf[r] # l
    /\ inClose' = inClose \cup {s}
    /\ eeOpen' = eeOpen \ {s}
    /\ eeRemote' = [eeRemote EXCEPT ![s] = NoCallee]
    /\ UNCHANGED <<now, tableVars, erState, eeState, lastRecv, loopOf, nextLoop, postVars,
                   loopPc, ready, start, timerVars, accVars, heard>>

\* The last assignment of ChannelBase::close.
closeMark(l, s) ==
    /\ loopPc[l] = "closing"
    /\ s \in inClose
    /\ loopOf[s] = l
    /\ inClose' = inClose \ {s}
    /\ closing' = [closing EXCEPT ![s] = @ - 1]
    /\ eeState' = [eeState EXCEPT ![s] = "CLOSED"]
    /\ UNCHANGED <<now, tableVars, erState, lastRecv, eeOpen, eeRemote, loopOf, nextLoop,
                   pending, posted, loopPc, ready, start, timerVars, accVars, heard>>

\* All posted channels are closed: back to epoll_wait.
loopAgain(l) ==
    /\ loopPc[l] = "closing"
    /\ \A s \in Sid : loopOf[s] = l => closing[s] = 0
    /\ loopPc' = [loopPc EXCEPT ![l] = "wait"]
    /\ UNCHANGED <<now, tableVars, chanVars, nextLoop, postVars, ready, inClose, start,
                   timerVars, accVars, heard>>

-----------------------------------------------------------------------------
(* The accept channel: UDPAccept::handleRecv, in loop AcceptLoop.           *)

\* The one datagram this event is for is received; caller c sent it.
recvFrom(c, m, callee) ==
    /\ loopPc[AcceptLoop] = "events"
    /\ accPc = "ready"
    /\ accPc' = "find"
    /\ accCaller' = c
    /\ accMsg' = m
    /\ accCallee' = callee
    /\ UNCHANGED <<now, tableVars, chanVars, nextLoop, postVars, loopVars, timerVars, accChl,
                   accNew, accAns, heard>>

\* Mutant of findChannel: the caller's last_recv_time_ is not refreshed.
findChannelNoRefresh ==
    /\ accPc = "find"
    /\ ~TimerOwnsMutex
    /\ accPc' = "dispatch"
    /\ accChl' = callerChl[accCaller]
    /\ heard' = [heard EXCEPT ![accCaller] = now]
    /\ UNCHANGED <<now, tableVars, chanVars, nextLoop, postVars, loopVars, timerVars, accCaller,
                   accMsg, accCallee, accNew, accAns>>

\* UDPSessionManager::findChannel, under mutex_: the pointer outlives the lock.
findChannel ==
    /\ accPc = "find"
    /\ ~TimerOwnsMutex
    /\ accPc' = "dispatch"
    /\ accChl' = callerChl[accCaller]
    /\ lastRecv' = [s \in Sid |-> IF s = callerChl[accCaller] THEN now ELSE lastRecv[s]]
    /\ heard' = [heard EXCEPT ![accCaller] = now]
    /\ UNCHANGED <<now, tableVars, erState, eeState, eeOpen, eeRemote, loopOf, nextLoop, postVars,
                   loopVars, timerVars, accCaller, accMsg, accCallee, accNew, accAns>>

\* A payload of a known caller: copyBufferAndSend queues it on channel_ee_, or
\* drops it there when that channel is closed or timed out.
relayPayload ==
    /\ accPc = "dispatch"
    /\ accMsg = "raw"
    /\ accChl # NoSid
    /\ accPc' = "idle"
    /\ accChl' = NoSid
    /\ UNCHANGED <<now, tableVars, chanVars, nextLoop, postVars, loopVars, timerVars, accCaller,
                   accMsg, accCallee, accNew, accAns, heard>>

\* The answer of handleRecv and handlePduPack to everything but a good
\* authentication request; "NONE" when the code sends nothing.
Reply(m) ==
    CASE m = "raw" -> "NEED_REAUTH"
      [] m \in {"badauth", "other"} -> "INVALID_ARG"
      [] m = "heartbeat" -> "HEARTBEAT"
      [] m = "conf" -> "CONF"
      [] OTHER -> "NONE"

\* Mutant of dispatchReply: a payload is answered whether its caller is known
\* or not.
dispatchReplyAlways ==
    /\ accPc = "dispatch"
    /\ accMsg # "auth"
    /\ accPc' = "answer"
    /\ accAns' = Reply(accMsg)
    /\ UNCHANGED <<now, tableVars, chanVars, nextLoop, postVars, loopVars, timerVars, accCaller,
                   accMsg, accCallee, accChl, accNew, heard>>

\* A payload of an unknown caller, or a PDU that concerns no session.
dispatchReply ==
    /\ accPc = "dispatch"
    /\ accMsg # "auth"
    /\ accMsg = "raw" => accChl = NoSid
    /\ accPc' = "answer"
    /\ accAns' = Reply(accMsg)
    /\ UNCHANGED <<now, tableVars, chanVars, nextLoop, postVars, loopVars, timerVars, accCaller,
                   accMsg, accCallee, accChl, accNew, heard>>

\* resetOrCreateSession, its locked lookup.  An existing session is reset by
\* UDPSession::setRemoteAddress; its socket is left as it is.
resetOrCreateSession ==
    /\ accPc = "dispatch"
    /\ accMsg = "auth"
    /\ ~TimerOwnsMutex
    /\ \/ /\ sessions[accCaller] # NoSid
          /\ erState' = [erState EXCEPT ![sessions[accCaller]] = "INIT"]
          /\ eeState' = [eeState EXCEPT ![sessions[accCaller]] = "INIT"]
          /\ lastRecv' = [lastRecv EXCEPT ![sessions[accCaller]] = now]
          /\ eeRemote' = [eeRemote EXCEPT ![sessions[accCaller]] = accCallee]
          /\ accPc' = "answer"
          /\ accAns' = "SUCC_AUTH"
       \/ /\ sessions[accCaller] = NoSid
          /\ accPc' = "create"
          /\ UNCHANGED <<erState, eeState, lastRecv, eeRemote, accAns>>
    /\ UNCHANGED <<now, tableVars, eeOpen, loopOf, nextLoop, postVars, loopVars, timerVars,
                   accCaller, accMsg, accCallee, accChl, accNew, heard>>

\* createSession before its lock: the new session's channel_ee_ is registered
\* with its loop (and so may have events) before the table knows the session.
createSession(s) ==
    /\ accPc = "create"
    /\ s \notin alloc
    /\ accPc' = "insert"
    /\ accNew' = s
    /\ alloc' = alloc \cup {s}
    /\ erState' = [erState EXCEPT ![s] = "INIT"]
    /\ eeState' = [eeState EXCEPT ![s] = "RW"]
    /\ lastRecv' = [lastRecv EXCEPT ![s] = now]
    /\ eeOpen' = eeOpen \cup {s}
    /\ eeRemote' = [eeRemote EXCEPT ![s] = accCallee]
    /\ loopOf' = [loopOf EXCEPT ![s] = nextLoop]
    /\ nextLoop' = (nextLoop + 1) % NLoop
    /\ UNCHANGED <<now, sessions, callerChl, postVars, loopVars, timerVars, accCaller, accMsg,
                   accCallee, accChl, accAns, heard>>

\* createSession under mutex_.
insertSession ==
    /\ accPc = "insert"
    /\ ~TimerOwnsMutex
    /\ callerChl' = [callerChl EXCEPT ![accCaller] = accNew]
    /\ sessions' = [sessions EXCEPT ![accCaller] = accNew]
    /\ accPc' = "answer"
    /\ accAns' = "SUCC_AUTH"
    /\ accNew' = NoSid
    /\ UNCHANGED <<now, alloc, chanVars, nextLoop, postVars, loopVars, timerVars, accCaller,
                   accMsg, accCallee, accChl, heard>>

\* The answer is queued.  A caller handleRecv found in the table is sent a
\* SUCC_AUTH after whatever handlePduPack answered.
sendAnswer ==
    /\ accPc = "answer"
    /\ accPc' = IF accChl # NoSid THEN "again" ELSE "idle"
    /\ accAns' = IF accChl # NoSid THEN "SUCC_AUTH" ELSE "NONE"
    /\ UNCHANGED <<now, tableVars, chanVars, nextLoop, postVars, loopVars, timerVars, accCaller,
                   accMsg, accCallee, accChl, accNew, heard>>

sendSuccAuth ==
    /\ accPc = "again"
    /\ accPc' = "idle"
    /\ accAns' = "NONE"
    /\ accChl' = NoSid
    /\ UNCHANGED <<now, tableVars, chanVars, nextLoop, postVars, loopVars, timerVars, accCaller,
                   accMsg, accCallee, accNew, heard>>

-----------------------------------------------------------------------------

TimerNext ==
    \/ TimerRead
    \/ TimerLock
    \/ \E s \in Sid : TimerCheck(s)
    \/ postTimeoutChannel
    \/ removeSessions

LoopNext(l) ==
    \/ \E evs \in SUBSET {s \in eeOpen : loopOf[s] = l} : epoll_wait(l, evs)
    \/ swapPending(l)
    \/ loopAgain(l)
    \/ \E s \in Sid : handleEvent(l, s) \/ closeSocket(l, s) \/ closeMark(l, s)

AcceptNext ==
    \/ findChannel
    \/ relayPayload
    \/ dispatchReply
    \/ resetOrCreateSession
    \/ \E s \in Sid : createSession(s)
    \/ insertSession
    \/ sendAnswer
    \/ sendSuccAuth

Arrival ==
    \E c \in Caller, m \in Arrivals :
        IF m = "auth" THEN \E callee \in Callee : recvFrom(c, m, callee)
                      ELSE recvFrom(c, m, NoCallee)

Next ==
    \/ Tick
    \/ TimerNext
    \/ \E l \in Loop : LoopNext(l)
    \/ AcceptNext
    \/ Arrival

Spec == Init /\ [][Next]_vars

-----------------------------------------------------------------------------
(* Properties.                                                              *)

TypeOK ==
    /\ now \in Nat
    /\ sessions \in [Caller -> Sid \cup {NoSid}]
    /\ callerChl \in [Caller -> Sid \cup {NoSid}]
    /\ alloc \subseteq Sid
    /\ erState \in [Sid -> ChannelState]
    /\ eeState \in [Sid -> ChannelState]
    /\ lastRecv \in [Sid -> Nat]
    /\ eeOpen \subseteq Sid
    /\ eeRemote \in [Sid -> Callee \cup {NoCallee}]
    /\ loopOf \in [Sid -> Loop]
    /\ nextLoop \in Loop
    /\ pending \in [Sid -> Nat]
    /\ closing \in [Sid -> Nat]
    /\ posted \in [Sid -> Nat]
    /\ loopPc \in [Loop -> {"wait", "events", "closing"}]
    /\ ready \subseteq Sid
    /\ inClose \subseteq Sid
    /\ start \in [Loop -> Nat]
    /\ timerPc \in {"sleep", "lock", "check", "post"}
    /\ sec \in Nat
    /\ todo \subseteq Sid
    /\ dead \subseteq Sid
    /\ toPost \in Sid \cup {NoSid}
    /\ accPc \in {"idle", "ready", "find", "dispatch", "create", "insert", "answer", "again"}
    /\ accCaller \in Caller
    /\ accMsg \in Message
    /\ accCallee \in Callee \cup {NoCallee}
    /\ accChl \in Sid \cup {NoSid}
    /\ accNew \in Sid \cup {NoSid}
    /\ accAns \in {"NONE", "NEED_REAUTH", "SUCC_AUTH", "INVALID_ARG", "HEARTBEAT", "CONF"}
    /\ heard \in [Caller -> Nat]

\* The session objects some thread or table still has a pointer to.
Referenced ==
    {s \in Sid :
        \/ \E c \in Caller : s \in {sessions[c], callerChl[c]}
        \/ s \in {accChl, accNew, toPost}
        \/ s \in ready \cup inClose
        \/ pending[s] > 0
        \/ closing[s] > 0}

\* No pointer to a deleted session or channel survives deleteSession: neither in
\* the tables, nor in the accept thread's hands between findChannel and its use
\* of the channel, nor in the time-out queue of a loop, nor in the event batch a
\* loop is working on.
NoDangling == Referenced \subseteq alloc

\* No session object is lost: each one that is allocated is in the table of its
\* caller, or createSession is about to put it there.
NoLeak ==
    \A s \in alloc : s = accNew \/ \E c \in Caller : sessions[c] = s

\* What the relay answers is true when it is sent: SUCC_AUTH goes to a caller
\* that has a session, NEED_REAUTH to one that has none, although handleRecv
\* looked the caller up several unlocked steps before.
AnswerTruthful ==
    accPc \in {"answer", "again"} =>
        /\ accAns = "SUCC_AUTH" => sessions[accCaller] # NoSid
        /\ accAns = "NEED_REAUTH" => sessions[accCaller] = NoSid

\* updateSessions times a session out only when its caller has not been heard
\* for TimeoutSec seconds.
TimeoutOnlySilent ==
    [][\A c \in Caller :
        LET s == sessions[c] IN
            (s # NoSid /\ erState[s] # "CLOSED" /\ erState'[s] = "CLOSED")
                => now - heard[c] >= TimeoutSec]_vars

\* A session whose caller side is live has a callee side that is connected:
\* "channel_ee is connection between relay and mcu" (Channel.h).
PairConnected ==
    \A c \in Caller :
        LET s == sessions[c] IN
            s # NoSid /\ erState[s] \in {"INIT", "RW"} => s \in eeOpen

\* A session is deleted in time after the last datagram of its caller, although
\* that takes the timer (to notice and to post), the loop (to swap its queue and
\* to close) and the timer again (to notice and to delete), and although it may
\* be reset in between.  The bound is exact.
ReclaimedInTime ==
    \A c \in Caller :
        LET s == sessions[c] IN
            s # NoSid => now - lastRecv[s] < TimeoutSec + 2 * LoopSec + 4 * TimerSec

-----------------------------------------------------------------------------
(* The inductive invariant behind the safety properties.  It holds when the *)
(* timer takes the mutex in the second in which it read the clock           *)
(* (LockDelay = 0).                                                         *)

\* The sessions that are in the table.
Tabled == {s \in Sid : \E c \in Caller : sessions[c] = s}

\* Some queue of s's loop, or the timer thread, will hand channel_ee_ to close().
Posted(s) == pending[s] > 0 \/ closing[s] > 0 \/ toPost = s

TableInv ==
    /\ callerChl = sessions
    /\ \A c, d \in Caller : sessions[c] = sessions[d] /\ sessions[c] # NoSid => c = d
    /\ Tabled \subseteq alloc
    /\ NoLeak
    /\ accNew # NoSid => accPc = "insert" /\ accNew \in alloc \ Tabled
    /\ accPc = "insert" => accNew # NoSid
    /\ accPc \in {"create", "insert"} => sessions[accCaller] = NoSid

ClockInv ==
    /\ sec <= now
    /\ now <= MaxClock
    /\ \A l \in Loop : start[l] <= now /\ now <= start[l] + LoopSec
    /\ \A s \in Sid : lastRecv[s] <= now /\ posted[s] <= now
    /\ \A c \in Caller : heard[c] <= now
    /\ \A c \in Caller : sessions[c] # NoSid => heard[c] <= lastRecv[sessions[c]]
    /\ timerPc = "lock" => sec = now
    /\ TimerOwnsMutex => \A s \in Tabled : lastRecv[s] <= sec

\* A posted channel is posted once, and either still waits for its close or has
\* been reset since, in which case its caller was heard too recently to be
\* timed out before the close has been done.
QueueOK(s) ==
    /\ pending[s] + closing[s] <= 1
    /\ toPost = s => pending[s] + closing[s] = 0
    /\ Posted(s) =>
          /\ s \in Tabled
          /\ \/ erState[s] = "CLOSED" /\ eeState[s] = "TIMEOUT"
             \/ /\ erState[s] = "INIT" /\ eeState[s] = "INIT"
                /\ lastRecv[s] >= posted[s]
                /\ toPost # s
    /\ pending[s] > 0 => posted[s] >= start[loopOf[s]]
    /\ closing[s] > 0 =>
          /\ loopPc[loopOf[s]] = "closing"
          /\ posted[s] + LoopSec >= start[loopOf[s]]
    /\ s \in inClose => closing[s] > 0

QueueInv == \A s \in Sid : QueueOK(s)

\* A registered channel is neither closed nor being closed, and only registered
\* channels are in the batch of events a loop is working on.
EventOK(s) ==
    /\ s \in ready => s \in eeOpen /\ loopPc[loopOf[s]] = "events"
    /\ s \in eeOpen => s \in alloc \ inClose /\ eeState[s] # "CLOSED"

EventInv == \A s \in Sid : EventOK(s)

ScanInv ==
    /\ ~TimerOwnsMutex => todo = {} /\ dead = {}
    /\ timerPc = "post" <=> toPost # NoSid
    /\ todo \cup dead \subseteq Tabled
    /\ \A s \in dead :
          /\ erState[s] = "CLOSED" /\ eeState[s] = "CLOSED"
          /\ sec - lastRecv[s] >= TimeoutSec

\* The caller the accept thread works for was heard after that thread's loop
\* last closed channels, so that its session cannot be deleted under it.
AcceptInv ==
    /\ accPc # "idle" => loopPc[AcceptLoop] = "events"
    /\ accChl # NoSid => accPc \notin {"idle", "ready", "find"} /\ sessions[accCaller] = accChl
    /\ accPc = "dispatch" /\ accChl = NoSid => sessions[accCaller] = NoSid
    /\ accPc = "insert" => /\ lastRecv[accNew] >= start[AcceptLoop]
                           /\ lastRecv[accNew] >= heard[accCaller]
    /\ accPc \notin {"idle", "ready", "find"} /\ sessions[accCaller] # NoSid
          => lastRecv[sessions[accCaller]] >= start[AcceptLoop]
    /\ AnswerTruthful

\* The inductive strengthening of NoDangling, NoLeak, AnswerTruthful and
\* TimeoutOnlySilent: no thread's pointer, queue entry or answer outlives the
\* session it is about, because each is younger than the time-out.
Inv == TypeOK /\ TableInv /\ ClockInv /\ QueueInv /\ EventInv /\ ScanInv /\ AcceptInv

=============================================================================
