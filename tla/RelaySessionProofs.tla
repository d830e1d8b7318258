------------------------- MODULE RelaySessionProofs -------------------------
(***************************************************************************)
(* Proofs about RelaySession.  Each action has a lemma: it preserves the   *)
(* invariant Inv, shown conjunct by conjunct.  The properties the runs     *)
(* check follow from Inv.                                                  *)
(*                                                                         *)
(* The argument is one of time.  A pointer outside the table (the accept   *)
(* thread's, a loop's event batch, an entry of tmout_chls_) refers to a    *)
(* session whose caller was heard, or whose channel was posted, at most    *)
(* 2 * LoopSec seconds ago; deletion takes a caller that was silent for    *)
(* TimeoutSec > 2 * LoopSec.                                               *)
(*                                                                         *)
(* That every session is deleted in time needs a second invariant,         *)
(* DeadlineInv, which bounds the age of a session in each stage of its     *)
(* end.                                                                    *)
(***************************************************************************)
EXTENDS RelaySession, TLAPS

\* What the definitions over the constants amount to: the loop numbers are
\* closed under getEventLoopThread's round robin, and only a payload is answered
\* NEED_REAUTH.
LEMMA Facts ==
  /\ {"INIT", "RW", "TIMEOUT", "CLOSED"} \subseteq ChannelState
  /\ AcceptLoop \in Loop
  /\ \A l \in Loop : (l + 1) % NLoop \in Loop
  /\ 1 % NLoop \in Loop
  /\ \A m \in Message : Reply(m) \in {"NONE", "NEED_REAUTH", "INVALID_ARG", "HEARTBEAT", "CONF"}
  /\ \A m \in Message : Reply(m) = "NEED_REAUTH" => m = "raw"
<1>1. {"INIT", "RW", "TIMEOUT", "CLOSED"} \subseteq ChannelState BY DEF ChannelState
<1>2. AcceptLoop \in Loop BY LoopAssumption DEF AcceptLoop, Loop
<1>3. \A l \in Loop : (l + 1) % NLoop \in Loop BY LoopAssumption DEF Loop
<1>4. 1 % NLoop \in Loop BY LoopAssumption DEF Loop
<1>5. \A m \in Message : Reply(m) \in {"NONE", "NEED_REAUTH", "INVALID_ARG", "HEARTBEAT", "CONF"}
  BY DEF Message, Reply
<1>6. \A m \in Message : Reply(m) = "NEED_REAUTH" => m = "raw" BY DEF Message, Reply
<1>7. QED BY <1>1, <1>2, <1>3, <1>4, <1>5, <1>6

\* Time.  The one place where LockDelay = 0 is used: no second passes between
\* the timer's reading of the clock and its lock.
LEMMA Tick_Inv ==
  ASSUME LockDelay = 0, Inv, Tick
  PROVE  Inv'
<1>1. TypeOK'
  BY DEF Inv, TypeOK, Tick, tableVars, chanVars, postVars, loopVars, timerVars, accVars
<1>2. TableInv' BY DEF Inv, TableInv, Tabled, NoLeak, Tick, tableVars, accVars
<1>3. ClockInv'
  BY TimeAssumption
     DEF Inv, TypeOK, ClockInv, Tabled, TimerOwnsMutex, Tick, tableVars, chanVars, postVars,
         loopVars, timerVars
<1>4. QueueInv'
  <2> SUFFICES ASSUME NEW s \in Sid PROVE QueueOK(s)' BY DEF QueueInv
  <2>1. QueueOK(s) BY DEF Inv, QueueInv
  <2>2. QED
    BY <2>1
       DEF Inv, QueueOK, Posted, Tabled, Tick, tableVars, chanVars, postVars, loopVars, timerVars
<1>5. EventInv'
  <2> SUFFICES ASSUME NEW s \in Sid PROVE EventOK(s)' BY DEF EventInv
  <2>1. EventOK(s) /\ QueueOK(s) BY DEF Inv, EventInv, QueueInv
  <2>2. QED BY <2>1 DEF Inv, EventOK, Tick, tableVars, chanVars, loopVars
<1>6. ScanInv' BY DEF Inv, ScanInv, Tabled, TimerOwnsMutex, Tick, tableVars, chanVars, timerVars
<1>7. AcceptInv'
  BY DEF Inv, AcceptInv, AnswerTruthful, Tick, tableVars, chanVars, loopVars, accVars
<1>8. QED BY <1>1, <1>2, <1>3, <1>4, <1>5, <1>6, <1>7 DEF Inv

\* Timer::run reads the clock.
LEMMA TimerRead_Inv ==
  ASSUME Inv, TimerRead
  PROVE  Inv'
<1>1. TypeOK' BY DEF Inv, TypeOK, TimerRead, tableVars, chanVars, postVars, loopVars, accVars
<1>2. TableInv' BY DEF Inv, TableInv, Tabled, NoLeak, TimerRead, tableVars, accVars
<1>3. ClockInv'
  BY DEF Inv, TypeOK, ClockInv, TimerOwnsMutex, TimerRead, tableVars, chanVars, postVars, loopVars
<1>4. QueueInv'
  <2> SUFFICES ASSUME NEW s \in Sid PROVE QueueOK(s)' BY DEF QueueInv
  <2>1. QueueOK(s) BY DEF Inv, QueueInv
  <2>2. QED
    BY <2>1 DEF Inv, QueueOK, Posted, Tabled, TimerRead, tableVars, chanVars, postVars, loopVars
<1>5. EventInv'
  <2> SUFFICES ASSUME NEW s \in Sid PROVE EventOK(s)' BY DEF EventInv
  <2>1. EventOK(s) /\ QueueOK(s) BY DEF Inv, EventInv, QueueInv
  <2>2. QED BY <2>1 DEF Inv, EventOK, TimerRead, tableVars, chanVars, loopVars
<1>6. ScanInv' BY DEF Inv, ScanInv, TimerOwnsMutex, TimerRead
<1>7. AcceptInv'
  BY DEF Inv, AcceptInv, AnswerTruthful, TimerRead, tableVars, chanVars, loopVars, accVars
<1>8. QED BY <1>1, <1>2, <1>3, <1>4, <1>5, <1>6, <1>7 DEF Inv

\* updateSessions locks: all times in the table are at most the reading.
LEMMA TimerLock_Inv ==
  ASSUME Inv, TimerLock
  PROVE  Inv'
<1>1. TypeOK' BY DEF Inv, TypeOK, TimerLock, tableVars, chanVars, postVars, loopVars, accVars
<1>2. TableInv' BY DEF Inv, TableInv, Tabled, NoLeak, TimerLock, tableVars, accVars
<1>3. ClockInv' BY DEF Inv, ClockInv, Tabled, TimerLock, tableVars, chanVars, postVars, loopVars
<1>4. QueueInv'
  <2> SUFFICES ASSUME NEW s \in Sid PROVE QueueOK(s)' BY DEF QueueInv
  <2>1. QueueOK(s) BY DEF Inv, QueueInv
  <2>2. QED
    BY <2>1 DEF Inv, QueueOK, Posted, Tabled, TimerLock, tableVars, chanVars, postVars, loopVars
<1>5. EventInv'
  <2> SUFFICES ASSUME NEW s \in Sid PROVE EventOK(s)' BY DEF EventInv
  <2>1. EventOK(s) /\ QueueOK(s) BY DEF Inv, EventInv, QueueInv
  <2>2. QED BY <2>1 DEF Inv, EventOK, TimerLock, tableVars, chanVars, loopVars
<1>6. ScanInv' BY DEF Inv, ScanInv, Tabled, TimerOwnsMutex, TimerLock, tableVars
<1>7. AcceptInv'
  BY DEF Inv, AcceptInv, AnswerTruthful, TimerLock, tableVars, chanVars, loopVars, accVars
<1>8. QED BY <1>1, <1>2, <1>3, <1>4, <1>5, <1>6, <1>7 DEF Inv

\* checkChannelsTimeout.  A channel that still waits for its close cannot be
\* posted again: if it was reset, its caller was heard after it was posted, less
\* than TimeoutSec ago.
LEMMA TimerCheck_Inv ==
  ASSUME Inv, NEW x \in Sid, TimerCheck(x)
  PROVE  Inv'
<1>1. TypeOK'
  BY Facts DEF Inv, TypeOK, TimerCheck, tableVars, postVars, loopVars, accVars
<1>2. TableInv' BY DEF Inv, TableInv, Tabled, NoLeak, TimerCheck, tableVars, accVars
<1>3. ClockInv'
  BY DEF Inv, ClockInv, Tabled, TimerOwnsMutex, TimerCheck, tableVars, postVars, loopVars
<1>4. QueueInv'
  <2> SUFFICES ASSUME NEW s \in Sid PROVE QueueOK(s)' BY DEF QueueInv
  <2>1. QueueOK(s) BY DEF Inv, QueueInv
  <2>2. QED
    BY <2>1, TimeAssumption
       DEF Inv, TypeOK, ClockInv, QueueOK, Posted, Tabled, ScanInv, TimerCheck, checkTimeout,
           Elapsed, tableVars, postVars, loopVars
<1>5. EventInv'
  <2> SUFFICES ASSUME NEW s \in Sid PROVE EventOK(s)' BY DEF EventInv
  <2>1. EventOK(s) /\ QueueOK(s) BY DEF Inv, EventInv, QueueInv
  <2>2. QED BY <2>1 DEF Inv, TypeOK, EventOK, TimerCheck, tableVars, loopVars
<1>6. ScanInv'
  BY DEF Inv, TypeOK, ClockInv, ScanInv, QueueInv, QueueOK, Posted, Tabled, TimerOwnsMutex,
         TimerCheck, checkTimeout, Elapsed, tableVars
<1>7. AcceptInv' BY DEF Inv, AcceptInv, AnswerTruthful, TimerCheck, tableVars, loopVars, accVars
<1>8. QED BY <1>1, <1>2, <1>3, <1>4, <1>5, <1>6, <1>7 DEF Inv

\* The channel enters tmout_chls_, once.
LEMMA postTimeoutChannel_Inv ==
  ASSUME Inv, postTimeoutChannel
  PROVE  Inv'
<1>1. TypeOK'
  BY DEF Inv, TypeOK, ScanInv, postTimeoutChannel, tableVars, chanVars, loopVars, accVars
<1>2. TableInv' BY DEF Inv, TableInv, Tabled, NoLeak, postTimeoutChannel, tableVars, accVars
<1>3. ClockInv'
  BY DEF Inv, TypeOK, ClockInv, Tabled, TimerOwnsMutex, postTimeoutChannel, tableVars, chanVars,
         loopVars
<1>4. QueueInv'
  <2> SUFFICES ASSUME NEW s \in Sid PROVE QueueOK(s)' BY DEF QueueInv
  <2>1. QueueOK(s) BY DEF Inv, QueueInv
  <2>2. QED
    BY <2>1, SidAssumption
       DEF Inv, TypeOK, ClockInv, QueueOK, Posted, Tabled, postTimeoutChannel, tableVars,
           chanVars, loopVars
<1>5. EventInv'
  <2> SUFFICES ASSUME NEW s \in Sid PROVE EventOK(s)' BY DEF EventInv
  <2>1. EventOK(s) /\ QueueOK(s) BY DEF Inv, EventInv, QueueInv
  <2>2. QED BY <2>1 DEF Inv, EventOK, postTimeoutChannel, tableVars, chanVars, loopVars
<1>6. ScanInv'
  BY DEF Inv, ScanInv, Tabled, TimerOwnsMutex, postTimeoutChannel, tableVars, chanVars
<1>7. AcceptInv'
  BY DEF Inv, AcceptInv, AnswerTruthful, postTimeoutChannel, tableVars, chanVars, loopVars,
         accVars
<1>8. QED BY <1>1, <1>2, <1>3, <1>4, <1>5, <1>6, <1>7 DEF Inv

\* Deletion.  What the scan found dead is closed, hence not posted, not
\* registered, and not the session of the caller being served.
LEMMA removeSessions_Inv ==
  ASSUME Inv, removeSessions
  PROVE  Inv'
<1>1. TypeOK' BY DEF Inv, TypeOK, removeSessions, postVars, loopVars, accVars
<1>2. TableInv'
  BY SidAssumption DEF Inv, TypeOK, TableInv, Tabled, NoLeak, ScanInv, removeSessions, accVars
<1>3. ClockInv' BY DEF Inv, ClockInv, TimerOwnsMutex, removeSessions, postVars, loopVars
<1>4. QueueInv'
  <2> SUFFICES ASSUME NEW s \in Sid PROVE QueueOK(s)' BY DEF QueueInv
  <2>1. QueueOK(s) BY DEF Inv, QueueInv
  <2>2. QED BY <2>1 DEF Inv, QueueOK, Posted, Tabled, ScanInv, removeSessions, postVars, loopVars
<1>5. EventInv'
  <2> SUFFICES ASSUME NEW s \in Sid PROVE EventOK(s)' BY DEF EventInv
  <2>1. EventOK(s) /\ QueueOK(s) BY DEF Inv, EventInv, QueueInv
  <2>2. QED BY <2>1 DEF Inv, EventOK, ScanInv, removeSessions, loopVars
<1>6. ScanInv' BY DEF Inv, ScanInv, removeSessions
<1>7. AcceptInv'
  BY TimeAssumption, Facts
     DEF Inv, TypeOK, ClockInv, ScanInv, AcceptInv, AnswerTruthful, removeSessions, loopVars,
         accVars
<1>8. QED BY <1>1, <1>2, <1>3, <1>4, <1>5, <1>6, <1>7 DEF Inv

\* Only registered channels enter an event batch.
LEMMA epoll_wait_Inv ==
  ASSUME Inv, NEW l \in Loop, NEW evs \in SUBSET {s \in eeOpen : loopOf[s] = l}, epoll_wait(l, evs)
  PROVE  Inv'
<1>1. TypeOK' BY DEF Inv, TypeOK, epoll_wait, tableVars, chanVars, postVars, timerVars
<1>2. TableInv' BY DEF Inv, TableInv, Tabled, NoLeak, AcceptInv, epoll_wait, tableVars
<1>3. ClockInv'
  BY DEF Inv, ClockInv, Tabled, TimerOwnsMutex, epoll_wait, tableVars, chanVars, postVars,
         timerVars
<1>4. QueueInv'
  <2> SUFFICES ASSUME NEW s \in Sid PROVE QueueOK(s)' BY DEF QueueInv
  <2>1. QueueOK(s) BY DEF Inv, QueueInv
  <2>2. QED
    BY <2>1 DEF Inv, QueueOK, Posted, Tabled, epoll_wait, tableVars, chanVars, postVars, timerVars
<1>5. EventInv'
  <2> SUFFICES ASSUME NEW s \in Sid PROVE EventOK(s)' BY DEF EventInv
  <2>1. EventOK(s) /\ QueueOK(s) BY DEF Inv, EventInv, QueueInv
  <2>2. QED BY <2>1 DEF Inv, TypeOK, EventOK, epoll_wait, tableVars, chanVars
<1>6. ScanInv'
  BY DEF Inv, ScanInv, Tabled, TimerOwnsMutex, epoll_wait, tableVars, chanVars, timerVars
<1>7. AcceptInv' BY DEF Inv, TypeOK, AcceptInv, AnswerTruthful, epoll_wait, tableVars, chanVars
<1>8. QED BY <1>1, <1>2, <1>3, <1>4, <1>5, <1>6, <1>7 DEF Inv

\* Handling an event leaves the life cycle alone.
LEMMA handleEvent_Inv ==
  ASSUME Inv, NEW l \in Loop, NEW x \in Sid, handleEvent(l, x)
  PROVE  Inv'
<1>1. TypeOK' BY DEF Inv, TypeOK, handleEvent, tableVars, chanVars, postVars, timerVars, accVars
<1>2. TableInv' BY DEF Inv, TableInv, Tabled, NoLeak, handleEvent, tableVars, accVars
<1>3. ClockInv'
  BY DEF Inv, ClockInv, Tabled, TimerOwnsMutex, handleEvent, tableVars, chanVars, postVars,
         timerVars
<1>4. QueueInv'
  <2> SUFFICES ASSUME NEW s \in Sid PROVE QueueOK(s)' BY DEF QueueInv
  <2>1. QueueOK(s) BY DEF Inv, QueueInv
  <2>2. QED
    BY <2>1
       DEF Inv, QueueOK, Posted, Tabled, handleEvent, tableVars, chanVars, postVars, timerVars
<1>5. EventInv'
  <2> SUFFICES ASSUME NEW s \in Sid PROVE EventOK(s)' BY DEF EventInv
  <2>1. EventOK(s) /\ QueueOK(s) BY DEF Inv, EventInv, QueueInv
  <2>2. QED BY <2>1 DEF Inv, EventOK, handleEvent, tableVars, chanVars
<1>6. ScanInv'
  BY DEF Inv, ScanInv, Tabled, TimerOwnsMutex, handleEvent, tableVars, chanVars, timerVars
<1>7. AcceptInv' BY DEF Inv, AcceptInv, AnswerTruthful, handleEvent, tableVars, chanVars, accVars
<1>8. QED BY <1>1, <1>2, <1>3, <1>4, <1>5, <1>6, <1>7 DEF Inv

\* doPendingCloseChannels takes over the queue of its loop.
LEMMA swapPending_Inv ==
  ASSUME Inv, NEW l \in Loop, swapPending(l)
  PROVE  Inv'
<1>1. TypeOK' BY DEF Inv, TypeOK, swapPending, tableVars, chanVars, timerVars, accVars
<1>2. TableInv' BY DEF Inv, TableInv, Tabled, NoLeak, swapPending, tableVars, accVars
<1>3. ClockInv'
  BY TimeAssumption
     DEF Inv, TypeOK, ClockInv, Tabled, TimerOwnsMutex, swapPending, tableVars, chanVars,
         timerVars
<1>4. QueueInv'
  <2> SUFFICES ASSUME NEW s \in Sid PROVE QueueOK(s)' BY DEF QueueInv
  <2>1. QueueOK(s) BY DEF Inv, QueueInv
  <2>2. QED
    BY <2>1, TimeAssumption
       DEF Inv, TypeOK, ClockInv, QueueOK, Posted, Tabled, swapPending, tableVars, chanVars,
           timerVars
<1>5. EventInv'
  <2> SUFFICES ASSUME NEW s \in Sid PROVE EventOK(s)' BY DEF EventInv
  <2>1. EventOK(s) /\ QueueOK(s) BY DEF Inv, EventInv, QueueInv
  <2>2. QED BY <2>1 DEF Inv, EventOK, swapPending, tableVars, chanVars
<1>6. ScanInv'
  BY DEF Inv, ScanInv, Tabled, TimerOwnsMutex, swapPending, tableVars, chanVars, timerVars
<1>7. AcceptInv' BY DEF Inv, AcceptInv, AnswerTruthful, swapPending, tableVars, chanVars, accVars
<1>8. QED BY <1>1, <1>2, <1>3, <1>4, <1>5, <1>6, <1>7 DEF Inv

\* A channel that is being closed leaves epoll.
LEMMA closeSocket_Inv ==
  ASSUME Inv, NEW l \in Loop, NEW x \in Sid, closeSocket(l, x)
  PROVE  Inv'
<1>1. TypeOK' BY DEF Inv, TypeOK, closeSocket, tableVars, postVars, timerVars, accVars
<1>2. TableInv' BY DEF Inv, TableInv, Tabled, NoLeak, closeSocket, tableVars, accVars
<1>3. ClockInv'
  BY DEF Inv, ClockInv, Tabled, TimerOwnsMutex, closeSocket, tableVars, postVars, timerVars
<1>4. QueueInv'
  <2> SUFFICES ASSUME NEW s \in Sid PROVE QueueOK(s)' BY DEF QueueInv
  <2>1. QueueOK(s) BY DEF Inv, QueueInv
  <2>2. QED BY <2>1 DEF Inv, QueueOK, Posted, Tabled, closeSocket, tableVars, postVars, timerVars
<1>5. EventInv'
  <2> SUFFICES ASSUME NEW s \in Sid PROVE EventOK(s)' BY DEF EventInv
  <2>1. EventOK(s) /\ QueueOK(s) BY DEF Inv, EventInv, QueueInv
  <2>2. QED BY <2>1 DEF Inv, EventOK, closeSocket, tableVars
<1>6. ScanInv' BY DEF Inv, ScanInv, Tabled, TimerOwnsMutex, closeSocket, tableVars, timerVars
<1>7. AcceptInv' BY DEF Inv, AcceptInv, AnswerTruthful, closeSocket, tableVars, accVars
<1>8. QED BY <1>1, <1>2, <1>3, <1>4, <1>5, <1>6, <1>7 DEF Inv

\* The close is complete: CLOSED is set after the channel has left every queue.
LEMMA closeMark_Inv ==
  ASSUME Inv, NEW l \in Loop, NEW x \in Sid, closeMark(l, x)
  PROVE  Inv'
<1>1. TypeOK'
  BY Facts DEF Inv, TypeOK, QueueInv, QueueOK, closeMark, tableVars, timerVars, accVars
<1>2. TableInv' BY DEF Inv, TableInv, Tabled, NoLeak, closeMark, tableVars, accVars
<1>3. ClockInv' BY DEF Inv, ClockInv, Tabled, TimerOwnsMutex, closeMark, tableVars, timerVars
<1>4. QueueInv'
  <2> SUFFICES ASSUME NEW s \in Sid PROVE QueueOK(s)' BY DEF QueueInv
  <2>1. QueueOK(s) BY DEF Inv, QueueInv
  <2>2. QED BY <2>1 DEF Inv, TypeOK, QueueOK, Posted, Tabled, closeMark, tableVars, timerVars
<1>5. EventInv'
  <2> SUFFICES ASSUME NEW s \in Sid PROVE EventOK(s)' BY DEF EventInv
  <2>1. EventOK(s) /\ QueueOK(s) BY DEF Inv, EventInv, QueueInv
  <2>2. QED BY <2>1 DEF Inv, EventOK, closeMark, tableVars
<1>6. ScanInv' BY DEF Inv, ScanInv, Tabled, TimerOwnsMutex, closeMark, tableVars, timerVars
<1>7. AcceptInv' BY DEF Inv, AcceptInv, AnswerTruthful, closeMark, tableVars, accVars
<1>8. QED BY <1>1, <1>2, <1>3, <1>4, <1>5, <1>6, <1>7 DEF Inv

\* The loop returns to epoll_wait.
LEMMA loopAgain_Inv ==
  ASSUME Inv, NEW l \in Loop, loopAgain(l)
  PROVE  Inv'
<1>1. TypeOK' BY DEF Inv, TypeOK, loopAgain, tableVars, chanVars, postVars, timerVars, accVars
<1>2. TableInv' BY DEF Inv, TableInv, Tabled, NoLeak, loopAgain, tableVars, accVars
<1>3. ClockInv'
  BY DEF Inv, ClockInv, Tabled, TimerOwnsMutex, loopAgain, tableVars, chanVars, postVars,
         timerVars
<1>4. QueueInv'
  <2> SUFFICES ASSUME NEW s \in Sid PROVE QueueOK(s)' BY DEF QueueInv
  <2>1. QueueOK(s) BY DEF Inv, QueueInv
  <2>2. QED
    BY <2>1 DEF Inv, QueueOK, Posted, Tabled, loopAgain, tableVars, chanVars, postVars, timerVars
<1>5. EventInv'
  <2> SUFFICES ASSUME NEW s \in Sid PROVE EventOK(s)' BY DEF EventInv
  <2>1. EventOK(s) /\ QueueOK(s) BY DEF Inv, EventInv, QueueInv
  <2>2. QED BY <2>1 DEF Inv, EventOK, loopAgain, tableVars, chanVars
<1>6. ScanInv'
  BY DEF Inv, ScanInv, Tabled, TimerOwnsMutex, loopAgain, tableVars, chanVars, timerVars
<1>7. AcceptInv' BY DEF Inv, AcceptInv, AnswerTruthful, loopAgain, tableVars, chanVars, accVars
<1>8. QED BY <1>1, <1>2, <1>3, <1>4, <1>5, <1>6, <1>7 DEF Inv

\* A datagram is read; nothing is known of its caller yet.
LEMMA recvFrom_Inv ==
  ASSUME Inv, NEW y \in Caller, NEW m \in Arrivals, NEW callee \in Callee \cup {NoCallee},
         recvFrom(y, m, callee)
  PROVE  Inv'
<1>1. TypeOK'
  BY ArrivalsAssumption
     DEF Inv, TypeOK, recvFrom, tableVars, chanVars, postVars, loopVars, timerVars
<1>2. TableInv' BY DEF Inv, TableInv, Tabled, NoLeak, recvFrom, tableVars
<1>3. ClockInv'
  BY DEF Inv, ClockInv, Tabled, TimerOwnsMutex, recvFrom, tableVars, chanVars, postVars, loopVars,
         timerVars
<1>4. QueueInv'
  <2> SUFFICES ASSUME NEW s \in Sid PROVE QueueOK(s)' BY DEF QueueInv
  <2>1. QueueOK(s) BY DEF Inv, QueueInv
  <2>2. QED
    BY <2>1
       DEF Inv, QueueOK, Posted, Tabled, recvFrom, tableVars, chanVars, postVars, loopVars,
           timerVars
<1>5. EventInv'
  <2> SUFFICES ASSUME NEW s \in Sid PROVE EventOK(s)' BY DEF EventInv
  <2>1. EventOK(s) /\ QueueOK(s) BY DEF Inv, EventInv, QueueInv
  <2>2. QED BY <2>1 DEF Inv, EventOK, recvFrom, tableVars, chanVars, loopVars
<1>6. ScanInv'
  BY DEF Inv, ScanInv, Tabled, TimerOwnsMutex, recvFrom, tableVars, chanVars, timerVars
<1>7. AcceptInv' BY DEF Inv, AcceptInv, AnswerTruthful, recvFrom, loopVars
<1>8. QED BY <1>1, <1>2, <1>3, <1>4, <1>5, <1>6, <1>7 DEF Inv

\* The lookup refreshes last_recv_time_, so what it returns is as young as the
\* loop's last swap.
LEMMA findChannel_Inv ==
  ASSUME Inv, findChannel
  PROVE  Inv'
<1>1. TypeOK' BY DEF Inv, TypeOK, findChannel, tableVars, postVars, loopVars, timerVars
<1>2. TableInv' BY DEF Inv, TableInv, Tabled, NoLeak, findChannel, tableVars
<1>3. ClockInv'
  BY DEF Inv, TypeOK, TableInv, ClockInv, TimerOwnsMutex, findChannel, tableVars, postVars,
         loopVars, timerVars
<1>4. QueueInv'
  <2> SUFFICES ASSUME NEW s \in Sid PROVE QueueOK(s)' BY DEF QueueInv
  <2>1. QueueOK(s) BY DEF Inv, QueueInv
  <2>2. QED
    BY <2>1
       DEF Inv, ClockInv, QueueOK, Posted, Tabled, findChannel, tableVars, postVars, loopVars,
           timerVars
<1>5. EventInv'
  <2> SUFFICES ASSUME NEW s \in Sid PROVE EventOK(s)' BY DEF EventInv
  <2>1. EventOK(s) /\ QueueOK(s) BY DEF Inv, EventInv, QueueInv
  <2>2. QED BY <2>1 DEF Inv, EventOK, findChannel, tableVars, loopVars
<1>6. ScanInv' BY DEF Inv, ScanInv, findChannel, timerVars
<1>7. AcceptInv'
  BY Facts
     DEF Inv, TypeOK, TableInv, ClockInv, AcceptInv, AnswerTruthful, findChannel, tableVars,
         loopVars
<1>8. QED BY <1>1, <1>2, <1>3, <1>4, <1>5, <1>6, <1>7 DEF Inv

\* The payload is handed on and the pointer is dropped.
LEMMA relayPayload_Inv ==
  ASSUME Inv, relayPayload
  PROVE  Inv'
<1>1. TypeOK' BY DEF Inv, TypeOK, relayPayload, tableVars, chanVars, postVars, loopVars, timerVars
<1>2. TableInv' BY DEF Inv, TableInv, Tabled, NoLeak, relayPayload, tableVars
<1>3. ClockInv'
  BY DEF Inv, ClockInv, Tabled, TimerOwnsMutex, relayPayload, tableVars, chanVars, postVars,
         loopVars, timerVars
<1>4. QueueInv'
  <2> SUFFICES ASSUME NEW s \in Sid PROVE QueueOK(s)' BY DEF QueueInv
  <2>1. QueueOK(s) BY DEF Inv, QueueInv
  <2>2. QED
    BY <2>1
       DEF Inv, QueueOK, Posted, Tabled, relayPayload, tableVars, chanVars, postVars, loopVars,
           timerVars
<1>5. EventInv'
  <2> SUFFICES ASSUME NEW s \in Sid PROVE EventOK(s)' BY DEF EventInv
  <2>1. EventOK(s) /\ QueueOK(s) BY DEF Inv, EventInv, QueueInv
  <2>2. QED BY <2>1 DEF Inv, EventOK, relayPayload, tableVars, chanVars, loopVars
<1>6. ScanInv'
  BY DEF Inv, ScanInv, Tabled, TimerOwnsMutex, relayPayload, tableVars, chanVars, timerVars
<1>7. AcceptInv' BY DEF Inv, AcceptInv, AnswerTruthful, relayPayload
<1>8. QED BY <1>1, <1>2, <1>3, <1>4, <1>5, <1>6, <1>7 DEF Inv

\* NEED_REAUTH is chosen for a caller the lookup did not find.
LEMMA dispatchReply_Inv ==
  ASSUME Inv, dispatchReply
  PROVE  Inv'
<1>1. TypeOK'
  BY Facts DEF Inv, TypeOK, dispatchReply, tableVars, chanVars, postVars, loopVars, timerVars
<1>2. TableInv' BY DEF Inv, TableInv, Tabled, NoLeak, dispatchReply, tableVars
<1>3. ClockInv'
  BY DEF Inv, ClockInv, Tabled, TimerOwnsMutex, dispatchReply, tableVars, chanVars, postVars,
         loopVars, timerVars
<1>4. QueueInv'
  <2> SUFFICES ASSUME NEW s \in Sid PROVE QueueOK(s)' BY DEF QueueInv
  <2>1. QueueOK(s) BY DEF Inv, QueueInv
  <2>2. QED
    BY <2>1
       DEF Inv, QueueOK, Posted, Tabled, dispatchReply, tableVars, chanVars, postVars, loopVars,
           timerVars
<1>5. EventInv'
  <2> SUFFICES ASSUME NEW s \in Sid PROVE EventOK(s)' BY DEF EventInv
  <2>1. EventOK(s) /\ QueueOK(s) BY DEF Inv, EventInv, QueueInv
  <2>2. QED BY <2>1 DEF Inv, EventOK, dispatchReply, tableVars, chanVars, loopVars
<1>6. ScanInv'
  BY DEF Inv, ScanInv, Tabled, TimerOwnsMutex, dispatchReply, tableVars, chanVars, timerVars
<1>7. AcceptInv'
  BY Facts
     DEF Inv, TypeOK, AcceptInv, AnswerTruthful, dispatchReply, tableVars, chanVars, loopVars
<1>8. QED BY <1>1, <1>2, <1>3, <1>4, <1>5, <1>6, <1>7 DEF Inv

\* A reset gives a posted channel its second form in QueueOK.
LEMMA resetOrCreateSession_Inv ==
  ASSUME Inv, resetOrCreateSession
  PROVE  Inv'
<1>1. TypeOK'
  BY Facts
     DEF Inv, TypeOK, resetOrCreateSession, tableVars, postVars, loopVars, timerVars
<1>2. TableInv' BY DEF Inv, TableInv, Tabled, NoLeak, resetOrCreateSession, tableVars
<1>3. ClockInv'
  BY DEF Inv, TypeOK, ClockInv, TimerOwnsMutex, resetOrCreateSession, tableVars, postVars,
         loopVars, timerVars
<1>4. QueueInv'
  <2> SUFFICES ASSUME NEW s \in Sid PROVE QueueOK(s)' BY DEF QueueInv
  <2>1. QueueOK(s) BY DEF Inv, QueueInv
  <2>2. QED
    BY <2>1
       DEF Inv, TypeOK, ClockInv, QueueOK, Posted, Tabled, ScanInv, TimerOwnsMutex,
           resetOrCreateSession, tableVars, postVars, loopVars, timerVars
<1>5. EventInv'
  <2> SUFFICES ASSUME NEW s \in Sid PROVE EventOK(s)' BY DEF EventInv
  <2>1. EventOK(s) /\ QueueOK(s) BY DEF Inv, EventInv, QueueInv
  <2>2. QED BY <2>1 DEF Inv, TypeOK, EventOK, resetOrCreateSession, tableVars, loopVars
<1>6. ScanInv' BY DEF Inv, ScanInv, resetOrCreateSession, timerVars
<1>7. AcceptInv'
  BY Facts
     DEF Inv, TypeOK, ClockInv, AcceptInv, AnswerTruthful, resetOrCreateSession, tableVars,
         loopVars
<1>8. QED BY <1>1, <1>2, <1>3, <1>4, <1>5, <1>6, <1>7 DEF Inv

\* The new session is allocated and registered, not yet in the table.
LEMMA createSession_Inv ==
  ASSUME Inv, NEW x \in Sid, createSession(x)
  PROVE  Inv'
<1>1. TypeOK' BY Facts DEF Inv, TypeOK, createSession, postVars, loopVars, timerVars
<1>2. TableInv' BY DEF Inv, TypeOK, TableInv, Tabled, NoLeak, createSession
<1>3. ClockInv'
  BY DEF Inv, TypeOK, TableInv, ClockInv, Tabled, TimerOwnsMutex, createSession, postVars,
         loopVars, timerVars
<1>4. QueueInv'
  <2> SUFFICES ASSUME NEW s \in Sid PROVE QueueOK(s)' BY DEF QueueInv
  <2>1. QueueOK(s) BY DEF Inv, QueueInv
  <2>2. QED
    BY <2>1
       DEF Inv, TableInv, QueueOK, Posted, Tabled, createSession, postVars, loopVars, timerVars
<1>5. EventInv'
  <2> SUFFICES ASSUME NEW s \in Sid PROVE EventOK(s)' BY DEF EventInv
  <2>1. EventOK(s) /\ QueueOK(s) BY DEF Inv, EventInv, QueueInv
  <2>2. QED BY <2>1 DEF Inv, TypeOK, TableInv, EventOK, QueueOK, Posted, createSession, loopVars
<1>6. ScanInv' BY DEF Inv, TableInv, ScanInv, Tabled, TimerOwnsMutex, createSession, timerVars
<1>7. AcceptInv'
  BY Facts DEF Inv, TypeOK, ClockInv, AcceptInv, AnswerTruthful, createSession, loopVars
<1>8. QED BY <1>1, <1>2, <1>3, <1>4, <1>5, <1>6, <1>7 DEF Inv

\* The new session enters both tables.
LEMMA insertSession_Inv ==
  ASSUME Inv, insertSession
  PROVE  Inv'
<1>1. TypeOK' BY DEF Inv, TypeOK, insertSession, chanVars, postVars, loopVars, timerVars
<1>2. TableInv' BY DEF Inv, TypeOK, TableInv, Tabled, NoLeak, insertSession
<1>3. ClockInv'
  BY DEF Inv, ClockInv, AcceptInv, TimerOwnsMutex, insertSession, chanVars, postVars, loopVars,
         timerVars
<1>4. QueueInv'
  <2> SUFFICES ASSUME NEW s \in Sid PROVE QueueOK(s)' BY DEF QueueInv
  <2>1. QueueOK(s) BY DEF Inv, QueueInv
  <2>2. QED
    BY <2>1, SidAssumption
       DEF Inv, TableInv, QueueOK, Posted, Tabled, insertSession, chanVars, postVars, loopVars,
           timerVars
<1>5. EventInv'
  <2> SUFFICES ASSUME NEW s \in Sid PROVE EventOK(s)' BY DEF EventInv
  <2>1. EventOK(s) /\ QueueOK(s) BY DEF Inv, EventInv, QueueInv
  <2>2. QED BY <2>1 DEF Inv, EventOK, insertSession, chanVars, loopVars
<1>6. ScanInv' BY DEF Inv, ScanInv, insertSession, timerVars
<1>7. AcceptInv'
  BY DEF Inv, TypeOK, TableInv, AcceptInv, AnswerTruthful, insertSession, chanVars, loopVars
<1>8. QED BY <1>1, <1>2, <1>3, <1>4, <1>5, <1>6, <1>7 DEF Inv

\* The first answer: the second, SUCC_AUTH, is for a caller that was found.
LEMMA sendAnswer_Inv ==
  ASSUME Inv, sendAnswer
  PROVE  Inv'
<1>1. TypeOK' BY DEF Inv, TypeOK, sendAnswer, tableVars, chanVars, postVars, loopVars, timerVars
<1>2. TableInv' BY DEF Inv, TableInv, Tabled, NoLeak, sendAnswer, tableVars
<1>3. ClockInv'
  BY DEF Inv, ClockInv, Tabled, TimerOwnsMutex, sendAnswer, tableVars, chanVars, postVars,
         loopVars, timerVars
<1>4. QueueInv'
  <2> SUFFICES ASSUME NEW s \in Sid PROVE QueueOK(s)' BY DEF QueueInv
  <2>1. QueueOK(s) BY DEF Inv, QueueInv
  <2>2. QED
    BY <2>1
       DEF Inv, QueueOK, Posted, Tabled, sendAnswer, tableVars, chanVars, postVars, loopVars,
           timerVars
<1>5. EventInv'
  <2> SUFFICES ASSUME NEW s \in Sid PROVE EventOK(s)' BY DEF EventInv
  <2>1. EventOK(s) /\ QueueOK(s) BY DEF Inv, EventInv, QueueInv
  <2>2. QED BY <2>1 DEF Inv, EventOK, sendAnswer, tableVars, chanVars, loopVars
<1>6. ScanInv'
  BY DEF Inv, ScanInv, Tabled, TimerOwnsMutex, sendAnswer, tableVars, chanVars, timerVars
<1>7. AcceptInv' BY DEF Inv, AcceptInv, AnswerTruthful, sendAnswer, tableVars, chanVars, loopVars
<1>8. QED BY <1>1, <1>2, <1>3, <1>4, <1>5, <1>6, <1>7 DEF Inv

\* The second answer ends handleRecv.
LEMMA sendSuccAuth_Inv ==
  ASSUME Inv, sendSuccAuth
  PROVE  Inv'
<1>1. TypeOK' BY DEF Inv, TypeOK, sendSuccAuth, tableVars, chanVars, postVars, loopVars, timerVars
<1>2. TableInv' BY DEF Inv, TableInv, Tabled, NoLeak, sendSuccAuth, tableVars
<1>3. ClockInv'
  BY DEF Inv, ClockInv, Tabled, TimerOwnsMutex, sendSuccAuth, tableVars, chanVars, postVars,
         loopVars, timerVars
<1>4. QueueInv'
  <2> SUFFICES ASSUME NEW s \in Sid PROVE QueueOK(s)' BY DEF QueueInv
  <2>1. QueueOK(s) BY DEF Inv, QueueInv
  <2>2. QED
    BY <2>1
       DEF Inv, QueueOK, Posted, Tabled, sendSuccAuth, tableVars, chanVars, postVars, loopVars,
           timerVars
<1>5. EventInv'
  <2> SUFFICES ASSUME NEW s \in Sid PROVE EventOK(s)' BY DEF EventInv
  <2>1. EventOK(s) /\ QueueOK(s) BY DEF Inv, EventInv, QueueInv
  <2>2. QED BY <2>1 DEF Inv, EventOK, sendSuccAuth, tableVars, chanVars, loopVars
<1>6. ScanInv'
  BY DEF Inv, ScanInv, Tabled, TimerOwnsMutex, sendSuccAuth, tableVars, chanVars, timerVars
<1>7. AcceptInv' BY DEF Inv, AcceptInv, AnswerTruthful, sendSuccAuth
<1>8. QED BY <1>1, <1>2, <1>3, <1>4, <1>5, <1>6, <1>7 DEF Inv


\* The server starts with empty tables.
LEMMA InitInv == Init => Inv
<1> SUFFICES ASSUME Init PROVE Inv OBVIOUS
<1>1. TypeOK BY Facts DEF Init, TypeOK, Message, AcceptLoop
<1>2. TableInv /\ ScanInv
  BY SidAssumption DEF Init, TableInv, ScanInv, Tabled, NoLeak, TimerOwnsMutex
<1>3. ClockInv BY TimeAssumption DEF Init, ClockInv, Tabled, TimerOwnsMutex
<1>4. QueueInv BY SidAssumption DEF Init, QueueInv, QueueOK, Posted
<1>5. EventInv /\ AcceptInv BY DEF Init, EventInv, EventOK, AcceptInv, AnswerTruthful
<1>6. QED BY <1>1, <1>2, <1>3, <1>4, <1>5 DEF Inv

\* A step that changes nothing.
LEMMA StutterInv == Inv /\ UNCHANGED vars => Inv'
BY DEF vars, tableVars, chanVars, postVars, loopVars, timerVars, accVars, Inv, TypeOK, TableInv,
       ClockInv, QueueInv, QueueOK, EventInv, EventOK, ScanInv, AcceptInv, Tabled, NoLeak, Posted,
       AnswerTruthful, TimerOwnsMutex

\* Every step of every thread preserves the invariant.
LEMMA NextInv == ASSUME LockDelay = 0, Inv, [Next]_vars PROVE Inv'
<1>1. CASE Tick BY <1>1, Tick_Inv
<1>2. CASE TimerNext
    BY <1>2, TimerRead_Inv, TimerLock_Inv, TimerCheck_Inv, postTimeoutChannel_Inv,
       removeSessions_Inv
     DEF TimerNext
<1>3. ASSUME NEW l \in Loop, LoopNext(l) PROVE Inv'
  BY <1>3, epoll_wait_Inv, handleEvent_Inv, swapPending_Inv, closeSocket_Inv, closeMark_Inv,
     loopAgain_Inv DEF LoopNext
<1>4. CASE AcceptNext
  BY <1>4, findChannel_Inv, relayPayload_Inv, dispatchReply_Inv, resetOrCreateSession_Inv,
     createSession_Inv, insertSession_Inv, sendAnswer_Inv, sendSuccAuth_Inv DEF AcceptNext
<1>5. CASE Arrival
  <2>1. PICK y \in Caller, m \in Arrivals, callee \in Callee \cup {NoCallee} :
               recvFrom(y, m, callee)
    BY <1>5 DEF Arrival
  <2>2. QED BY <2>1, recvFrom_Inv
<1>6. CASE UNCHANGED vars BY <1>6, StutterInv
<1>7. QED BY <1>1, <1>2, <1>3, <1>4, <1>5, <1>6 DEF Next

\* The inductive invariant holds in every reachable state, for any number of
\* callers, sessions and loops, when updateSessions owns mutex_ in the second in
\* which Timer::run read the clock.
THEOREM Invariance == ASSUME LockDelay = 0 PROVE Spec => []Inv
<1>1. Inv /\ [Next]_vars => Inv' BY NextInv
<1>2. QED BY <1>1, InitInv, PTL DEF Spec

\* Every variable keeps its type.
THEOREM TypeCorrect == ASSUME LockDelay = 0 PROVE Spec => []TypeOK
<1>1. Inv => TypeOK BY DEF Inv
<1>2. QED BY <1>1, Invariance, PTL

\* deleteSession never frees a session or channel that a table, a time-out
\* queue, an event batch, the timer or the accept thread still points to.
THEOREM NoDanglingPointer == ASSUME LockDelay = 0 PROVE Spec => []NoDangling
<1>1. Inv => NoDangling
  <2> SUFFICES ASSUME Inv, NEW s \in Referenced PROVE s \in alloc BY DEF NoDangling
  <2>1. s \in Sid /\ s # NoSid BY SidAssumption DEF Referenced
  <2>2. Tabled \subseteq alloc BY DEF Inv, TableInv
  <2>3. CASE \E c \in Caller : s \in {sessions[c], callerChl[c]}
    BY <2>1, <2>2, <2>3 DEF Inv, TableInv, Tabled
  <2>4. CASE s = accChl
    BY <2>1, <2>2, <2>4 DEF Inv, TypeOK, AcceptInv, Tabled
  <2>5. CASE s = accNew
    BY <2>1, <2>5 DEF Inv, TableInv
  <2>6. CASE s \in ready
    BY <2>1, <2>6 DEF Inv, EventInv, EventOK
  <2>7. CASE s = toPost \/ s \in inClose \/ pending[s] > 0 \/ closing[s] > 0
    BY <2>1, <2>2, <2>7 DEF Inv, QueueInv, QueueOK, Posted
  <2>8. QED BY <2>3, <2>4, <2>5, <2>6, <2>7 DEF Referenced
<1>2. QED BY <1>1, Invariance, PTL

\* Every session createSession allocates is in sessions_ or about to be put
\* there: none is lost.
THEOREM NoSessionLeak == ASSUME LockDelay = 0 PROVE Spec => []NoLeak
<1>1. Inv => NoLeak BY DEF Inv, TableInv
<1>2. QED BY <1>1, Invariance, PTL

\* handleRecv answers SUCC_AUTH only to a caller that has a session, NEED_REAUTH
\* only to one that has none, at the time the answer is queued.
THEOREM AnswersAreTrue == ASSUME LockDelay = 0 PROVE Spec => []AnswerTruthful
<1>1. Inv => AnswerTruthful BY DEF Inv, AcceptInv
<1>2. QED BY <1>1, Invariance, PTL

\* checkChannelsTimeout closes a caller's channel only when that caller has been
\* silent for TimeoutSec seconds.
THEOREM TimeoutsAreDue == ASSUME LockDelay = 0 PROVE Spec => TimeoutOnlySilent
<1> DEFINE Due == \A c \in Caller :
        LET s == sessions[c] IN
            (s # NoSid /\ erState[s] # "CLOSED" /\ erState'[s] = "CLOSED")
                => now - heard[c] >= TimeoutSec
<1>1. ASSUME Inv, [Next]_vars PROVE [Due]_vars
  <2> SUFFICES ASSUME NEW c \in Caller, sessions[c] # NoSid,
                      erState[sessions[c]] # "CLOSED", erState'[sessions[c]] = "CLOSED"
               PROVE  now - heard[c] >= TimeoutSec
    OBVIOUS
  <2> DEFINE s == sessions[c]
  <2>1. s \in Sid /\ s \in Tabled BY <1>1 DEF Inv, TypeOK, Tabled
  <2>2. erState' # erState BY <2>1
  <2>3. PICK x \in Sid : TimerCheck(x)
    BY <1>1, <2>1, <2>2
       DEF Next, Tick, TimerNext, LoopNext, AcceptNext, Arrival, TimerRead, TimerLock,
           postTimeoutChannel, removeSessions, epoll_wait, handleEvent, swapPending, closeSocket,
           closeMark, loopAgain, recvFrom, findChannel, relayPayload, dispatchReply,
           resetOrCreateSession, createSession, insertSession, sendAnswer, sendSuccAuth,
           vars, chanVars, Inv, TypeOK
  <2>4. checkTimeout(s)
    BY <1>1, <2>1, <2>3 DEF TimerCheck, Inv, TypeOK
  <2>5. lastRecv[s] <= sec /\ sec <= now /\ heard[c] <= lastRecv[s]
    BY <1>1, <2>1, <2>3 DEF Inv, ClockInv, TimerCheck, TimerOwnsMutex
  <2>6. lastRecv[s] \in Nat /\ sec \in Nat /\ now \in Nat /\ heard[c] \in Nat
    BY <1>1, <2>1 DEF Inv, TypeOK
  <2>7. QED BY <2>4, <2>5, <2>6, TimeAssumption DEF checkTimeout, Elapsed
<1>2. QED BY <1>1, Invariance, PTL DEF Spec, TimeoutOnlySilent

-----------------------------------------------------------------------------
(* How long a session lives.                                                *)

\* What a scan that is due, or has not come to s or to its end, adds.
Slack(s) == IF timerPc = "lock" \/ s \in todo \/ s \in dead THEN TimerSec ELSE 0

\* How long ago the caller of a session in the table was last heard: before it is
\* timed out, while its channel_ee_ waits for its close, and before it is deleted.
DeadlineOK(s) ==
    /\ erState[s] # "CLOSED" => sec - lastRecv[s] < TimeoutSec + Slack(s)
    /\ erState[s] = "CLOSED" => eeState[s] \in {"TIMEOUT", "CLOSED"}
    /\ erState[s] = "CLOSED" /\ eeState[s] = "TIMEOUT" =>
          /\ Posted(s)
          /\ toPost = s => sec - lastRecv[s] < TimeoutSec + TimerSec
          /\ toPost # s => posted[s] - lastRecv[s] < TimeoutSec + 2 * TimerSec
    /\ erState[s] = "CLOSED" /\ eeState[s] = "CLOSED" =>
          sec - lastRecv[s] < TimeoutSec + 2 * LoopSec + 2 * TimerSec + Slack(s)

\* The timer keeps its pace, channel_er_ is closed at once and never waits in
\* TIMEOUT, and every session in the table keeps its deadline.
DeadlineInv ==
    /\ now <= sec + TimerSec
    /\ \A s \in Sid : erState[s] # "TIMEOUT"
    /\ accNew # NoSid => erState[accNew] = "INIT"
    /\ \A s \in Tabled : DeadlineOK(s)

\* The numbers of a session in the table.
LEMMA DeadlineTypes ==
  ASSUME Inv, NEW s \in Sid
  PROVE  /\ now \in Nat /\ sec \in Nat /\ lastRecv[s] \in Nat /\ posted[s] \in Nat /\ sec <= now
         /\ lastRecv[s] <= now /\ posted[s] <= now
         /\ TimeoutSec \in Nat /\ LoopSec \in Nat /\ TimerSec \in Nat
         /\ TimeoutSec > 2 * LoopSec /\ Slack(s) \in {0, TimerSec}
BY TimeAssumption DEF Inv, TypeOK, ClockInv, Slack

\* Steps that concern neither the table, the states, the clock nor the timer.
LEMMA Quiet_Deadline ==
  ASSUME DeadlineInv,
         UNCHANGED <<now, sessions, erState, eeState, lastRecv, postVars, timerVars, accNew>>
  PROVE  DeadlineInv'
BY DEF DeadlineInv, DeadlineOK, Slack, Posted, Tabled, postVars, timerVars

\* A second passes only while the timer keeps its pace.
LEMMA Tick_Deadline ==
  ASSUME Inv, DeadlineInv, Tick
  PROVE  DeadlineInv'
<1>1. now' <= sec' + TimerSec BY TimeAssumption DEF Tick, timerVars, Inv, TypeOK
<1>2. QED BY <1>1 DEF DeadlineInv, DeadlineOK, Slack, Posted, Tabled, Tick, tableVars, chanVars, postVars, timerVars, accVars

\* The next scan reads the clock at most TimerSec after the last one did.
LEMMA TimerRead_Deadline ==
  ASSUME Inv, DeadlineInv, TimerRead
  PROVE  DeadlineInv'
<1>1. /\ now' <= sec' + TimerSec /\ (\A s \in Sid : erState'[s] # "TIMEOUT")
      /\ (accNew' # NoSid => erState'[accNew'] = "INIT") /\ Tabled' = Tabled
  BY TimeAssumption DEF DeadlineInv, TimerRead, Tabled, tableVars, chanVars, accVars, Inv, TypeOK
<1> SUFFICES ASSUME NEW s \in Tabled PROVE DeadlineOK(s)' BY <1>1 DEF DeadlineInv
<1>2. s \in Sid /\ DeadlineOK(s) BY DEF Tabled, DeadlineInv
<1>3. Slack(s) = 0 /\ Slack(s)' = TimerSec /\ toPost # s
  BY <1>2, SidAssumption DEF Slack, TimerRead, Inv, ScanInv, TimerOwnsMutex
<1>4. /\ sec' = now /\ now <= sec + TimerSec
      /\ UNCHANGED <<erState, eeState, lastRecv, pending, closing, posted, toPost>>
  BY DEF TimerRead, DeadlineInv, chanVars, postVars
<1>5. QED BY <1>2, <1>3, <1>4, DeadlineTypes DEF DeadlineOK, Posted

\* The scan begins with all sessions of the table.
LEMMA TimerLock_Deadline ==
  ASSUME Inv, DeadlineInv, TimerLock
  PROVE  DeadlineInv'
<1>1. /\ UNCHANGED <<now, sec, erState, eeState, lastRecv, pending, closing, posted, toPost, accNew>>
      /\ Tabled' = Tabled /\ todo' = Tabled
  BY DEF TimerLock, Tabled, tableVars, chanVars, postVars, accVars
<1>2. \A s \in Tabled : Slack(s) = TimerSec /\ Slack(s)' = TimerSec BY <1>1 DEF TimerLock, Slack
<1>3. QED BY <1>1, <1>2 DEF DeadlineInv, DeadlineOK, Posted

\* A session the scan passes by is not due, waits for its close, or is dead.
LEMMA TimerCheck_Deadline ==
  ASSUME Inv, DeadlineInv, NEW x \in Sid, TimerCheck(x)
  PROVE  DeadlineInv'
<1>1. /\ UNCHANGED <<now, sec, sessions, lastRecv, pending, closing, posted, accNew>>
      /\ Tabled' = Tabled /\ todo' = todo \ {x} /\ x \in todo /\ timerPc = "check"
      /\ timerPc' \in {"check", "post"} /\ x \in Tabled
  BY DEF TimerCheck, Tabled, tableVars, postVars, accVars, Inv, ScanInv
<1>2. \A s \in Sid : s # x => /\ erState'[s] = erState[s] /\ eeState'[s] = eeState[s]
                              /\ (s \in dead' <=> s \in dead) /\ toPost # s /\ toPost' # s
  <2>1. toPost = NoSid BY <1>1 DEF Inv, ScanInv
  <2>2. QED BY <2>1, SidAssumption DEF TimerCheck, Inv, TypeOK
<1>3. \A s \in Sid : erState'[s] # "TIMEOUT" BY DEF TimerCheck, DeadlineInv, Inv, TypeOK
<1>4. accNew' # NoSid => erState'[accNew'] = "INIT"
  <2>1. accNew # NoSid => accNew \in Sid /\ accNew # x BY <1>1 DEF Inv, TypeOK, TableInv
  <2>2. QED BY <1>1, <1>2, <2>1 DEF DeadlineInv
<1>5. ASSUME NEW s \in Tabled, s # x PROVE DeadlineOK(s)'
  <2>1. s \in Sid /\ DeadlineOK(s) BY DEF Tabled, DeadlineInv
  <2>2. Slack(s)' = Slack(s) BY <1>1, <1>2, <1>5, <2>1 DEF Slack
  <2>3. QED BY <1>1, <1>2, <1>5, <2>1, <2>2 DEF DeadlineOK, Posted
<1>6. DeadlineOK(x)'
  <2>1. DeadlineOK(x) /\ Slack(x) = TimerSec BY <1>1 DEF DeadlineInv, Slack
  <2>2. lastRecv[x] <= sec BY <1>1 DEF Inv, ClockInv, TimerOwnsMutex
  <2>3. Slack(x)' = IF x \in dead' THEN TimerSec ELSE 0 BY <1>1 DEF Slack
  <2>4. CASE ~ checkTimeout(x)
    <3>1. UNCHANGED <<dead, toPost, erState, eeState>> BY <2>4 DEF TimerCheck
    <3>2. sec - lastRecv[x] < TimeoutSec BY <2>2, <2>4, DeadlineTypes DEF checkTimeout, Elapsed
    <3>3. Slack(x)' \in {0, TimerSec} BY <2>3
    <3>4. QED BY <1>1, <2>1, <3>1, <3>2, <3>3, DeadlineTypes DEF DeadlineOK, Posted
  <2>5. CASE checkTimeout(x) /\ erState[x] = "CLOSED" /\ eeState[x] = "CLOSED"
    <3>1. UNCHANGED <<toPost, erState, eeState>> /\ x \in dead' BY <2>5 DEF TimerCheck
    <3>2. QED BY <1>1, <2>1, <2>3, <2>5, <3>1 DEF DeadlineOK
  <2>6. CASE checkTimeout(x) /\ erState[x] # "CLOSED"
    <3>1. erState[x] # "TIMEOUT" BY DEF DeadlineInv
    <3>2. toPost' = x /\ erState'[x] = "CLOSED" /\ eeState'[x] = "TIMEOUT"
      BY <2>6, <3>1 DEF TimerCheck, Inv, TypeOK
    <3>3. QED BY <1>1, <2>1, <2>6, <3>2 DEF DeadlineOK, Posted
  <2>7. CASE checkTimeout(x) /\ erState[x] = "CLOSED" /\ eeState[x] # "CLOSED"
    <3>1. UNCHANGED <<dead, toPost, erState, eeState>> BY <2>7 DEF TimerCheck
    <3>2. QED BY <1>1, <2>1, <2>7, <3>1 DEF DeadlineOK, Posted
  <2>8. QED BY <2>4, <2>5, <2>6, <2>7
<1>7. QED BY <1>1, <1>3, <1>4, <1>5, <1>6 DEF DeadlineInv

\* The channel is posted before the scan is over.
LEMMA postTimeoutChannel_Deadline ==
  ASSUME Inv, DeadlineInv, postTimeoutChannel
  PROVE  DeadlineInv'
<1>1. /\ UNCHANGED <<now, sec, sessions, erState, eeState, lastRecv, closing, todo, dead, accNew>>
      /\ Tabled' = Tabled /\ toPost' = NoSid /\ toPost \in Sid
      /\ timerPc' = "check" /\ timerPc = "post"
      /\ pending' = [pending EXCEPT ![toPost] = @ + 1] /\ posted' = [posted EXCEPT ![toPost] = now]
  BY DEF postTimeoutChannel, Tabled, tableVars, chanVars, accVars, Inv, TypeOK, ScanInv
<1> SUFFICES ASSUME NEW s \in Tabled PROVE DeadlineOK(s)' BY <1>1 DEF DeadlineInv
<1>2. s \in Sid /\ DeadlineOK(s) /\ Slack(s)' = Slack(s) /\ s # NoSid
  BY <1>1, SidAssumption DEF Tabled, DeadlineInv, Slack
<1>3. pending \in [Sid -> Nat] /\ posted \in [Sid -> Nat] /\ now <= sec + TimerSec BY DEF Inv, TypeOK, DeadlineInv
<1>4. CASE s = toPost
  <2>1. pending'[s] > 0 /\ posted'[s] = now BY <1>1, <1>2, <1>3, <1>4
  <2>2. QED BY <1>1, <1>2, <1>3, <1>4, <2>1, DeadlineTypes DEF DeadlineOK, Posted
<1>5. CASE s # toPost
  <2>1. pending'[s] = pending[s] /\ posted'[s] = posted[s] BY <1>1, <1>2, <1>3, <1>5
  <2>2. QED BY <1>1, <1>2, <1>5, <2>1 DEF DeadlineOK, Posted
<1>6. QED BY <1>4, <1>5

\* What the scan found dead leaves the table.
LEMMA removeSessions_Deadline ==
  ASSUME Inv, DeadlineInv, removeSessions
  PROVE  DeadlineInv'
<1>1. /\ UNCHANGED <<now, sec, erState, eeState, lastRecv, pending, closing, posted, toPost, accNew>>
      /\ todo' = {} /\ dead' = {} /\ timerPc' = "sleep" /\ timerPc = "check" /\ todo = {}
      /\ Tabled' \subseteq Tabled \ dead
  <2>1. Tabled' \subseteq Tabled \ dead BY SidAssumption DEF removeSessions, Tabled
  <2>2. QED BY <2>1 DEF removeSessions, postVars, accVars
<1>2. \A s \in Tabled' : Slack(s)' = 0 /\ Slack(s) = 0 BY <1>1 DEF Slack
<1>3. QED BY <1>1, <1>2 DEF DeadlineInv, DeadlineOK, Posted

\* The posted channels of a loop stay posted.
LEMMA swapPending_Deadline ==
  ASSUME Inv, DeadlineInv, NEW l \in Loop, swapPending(l)
  PROVE  DeadlineInv'
<1>1. /\ UNCHANGED <<now, sec, timerPc, todo, dead, sessions, erState, eeState, lastRecv, posted, toPost, accNew>>
      /\ Tabled' = Tabled
  BY DEF swapPending, Tabled, tableVars, chanVars, timerVars, accVars
<1>2. ASSUME NEW s \in Sid, Posted(s) PROVE Posted(s)'
  <2>1. QueueOK(s) /\ pending[s] \in Nat /\ closing[s] \in Nat BY DEF Inv, QueueInv, TypeOK
  <2>2. CASE loopOf[s] = l
    <3>1. closing[s] = 0 BY <2>1, <2>2 DEF QueueOK, swapPending
    <3>2. closing'[s] = pending[s] BY <2>2 DEF swapPending
    <3>3. QED BY <1>1, <1>2, <2>1, <3>1, <3>2 DEF Posted
  <2>3. CASE loopOf[s] # l
    <3>1. closing'[s] = closing[s] /\ pending'[s] = pending[s] BY <2>3 DEF swapPending
    <3>2. QED BY <1>1, <1>2, <3>1 DEF Posted
  <2>4. QED BY <2>2, <2>3
<1> SUFFICES ASSUME NEW s \in Tabled PROVE DeadlineOK(s)' BY <1>1 DEF DeadlineInv
<1>3. s \in Sid /\ DeadlineOK(s) /\ Slack(s)' = Slack(s) BY <1>1 DEF Tabled, DeadlineInv, Slack
<1>4. QED BY <1>1, <1>2, <1>3 DEF DeadlineOK

\* A posted channel is closed within two rounds of its loop.
LEMMA closeMark_Deadline ==
  ASSUME Inv, DeadlineInv, NEW l \in Loop, NEW x \in Sid, closeMark(l, x)
  PROVE  DeadlineInv'
<1>1. /\ UNCHANGED <<now, sec, timerPc, todo, dead, sessions, erState, lastRecv, pending, posted, toPost, accNew>>
      /\ Tabled' = Tabled
      /\ closing' = [closing EXCEPT ![x] = @ - 1] /\ eeState' = [eeState EXCEPT ![x] = "CLOSED"]
  BY DEF closeMark, Tabled, tableVars, timerVars, accVars
<1>2. closing \in [Sid -> Nat] /\ eeState \in [Sid -> ChannelState] BY DEF Inv, TypeOK
<1> SUFFICES ASSUME NEW s \in Tabled PROVE DeadlineOK(s)' BY <1>1 DEF DeadlineInv
<1>3. s \in Sid /\ DeadlineOK(s) /\ Slack(s)' = Slack(s) BY <1>1 DEF Tabled, DeadlineInv, Slack
<1>4. CASE s # x
  <2>1. closing'[s] = closing[s] /\ eeState'[s] = eeState[s] BY <1>1, <1>2, <1>3, <1>4
  <2>2. QED BY <1>1, <1>3, <2>1 DEF DeadlineOK, Posted
<1>5. CASE s = x
  <2>1. QueueOK(s) /\ closing[s] > 0 /\ loopOf[s] \in Loop BY <1>3, <1>5 DEF Inv, QueueInv, QueueOK, TypeOK, closeMark
  <2>2. toPost # s BY <1>2, <1>3, <2>1 DEF QueueOK, Inv, TypeOK
  <2>3. now <= posted[s] + 2 * LoopSec
    <3>1. start[loopOf[s]] \in Nat /\ now <= start[loopOf[s]] + LoopSec BY <2>1 DEF Inv, TypeOK, ClockInv
    <3>2. posted[s] + LoopSec >= start[loopOf[s]] BY <2>1 DEF QueueOK
    <3>3. QED BY <1>3, <3>1, <3>2, DeadlineTypes
  <2>4. eeState'[s] = "CLOSED" BY <1>1, <1>2, <1>3, <1>5
  <2>5. erState[s] = "CLOSED" => eeState[s] = "TIMEOUT" BY <2>1 DEF QueueOK, Posted
  <2>6. erState[s] = "CLOSED" => sec - lastRecv[s] < TimeoutSec + 2 * LoopSec + 2 * TimerSec
    <3> SUFFICES ASSUME erState[s] = "CLOSED" PROVE sec - lastRecv[s] < TimeoutSec + 2 * LoopSec + 2 * TimerSec OBVIOUS
    <3>1. posted[s] - lastRecv[s] < TimeoutSec + 2 * TimerSec BY <1>3, <2>2, <2>5 DEF DeadlineOK
    <3>2. QED BY <1>3, <2>3, <3>1, DeadlineTypes
  <2>7. QED BY <1>1, <1>3, <2>4, <2>6, DeadlineTypes DEF DeadlineOK
<1>6. QED BY <1>4, <1>5

\* A datagram moves the deadline on.
LEMMA findChannel_Deadline ==
  ASSUME Inv, DeadlineInv, findChannel
  PROVE  DeadlineInv'
<1>1. /\ UNCHANGED <<now, sec, timerPc, todo, dead, sessions, erState, eeState, pending, closing, posted, toPost, accNew>>
      /\ Tabled' = Tabled
  BY DEF findChannel, Tabled, tableVars, postVars, timerVars
<1> SUFFICES ASSUME NEW s \in Tabled PROVE DeadlineOK(s)' BY <1>1 DEF DeadlineInv
<1>2. s \in Sid /\ DeadlineOK(s) /\ Slack(s)' = Slack(s) BY <1>1 DEF Tabled, DeadlineInv, Slack
<1>3. lastRecv'[s] \in {lastRecv[s], now} BY <1>2 DEF findChannel
<1>4. lastRecv'[s] >= lastRecv[s] /\ lastRecv'[s] \in Nat BY <1>2, <1>3, DeadlineTypes
<1>5. QED BY <1>1, <1>2, <1>4, DeadlineTypes DEF DeadlineOK, Posted

\* A session that is reset was heard now.
LEMMA resetOrCreateSession_Deadline ==
  ASSUME Inv, DeadlineInv, resetOrCreateSession
  PROVE  DeadlineInv'
<1>1. /\ UNCHANGED <<now, sec, timerPc, todo, dead, sessions, pending, closing, posted, toPost, accNew>>
      /\ Tabled' = Tabled
  BY DEF resetOrCreateSession, Tabled, tableVars, postVars, timerVars
<1>2. CASE sessions[accCaller] = NoSid
  <2>1. UNCHANGED <<erState, eeState, lastRecv>> BY <1>2 DEF resetOrCreateSession
  <2>2. QED BY <1>1, <2>1, Quiet_Deadline DEF postVars, timerVars
<1>3. CASE sessions[accCaller] # NoSid
  <2> DEFINE x == sessions[accCaller]
  <2>1. x \in Sid /\ x \in Tabled BY <1>3 DEF Inv, TypeOK, Tabled
  <2>2. /\ erState' = [erState EXCEPT ![x] = "INIT"] /\ eeState' = [eeState EXCEPT ![x] = "INIT"]
        /\ lastRecv' = [lastRecv EXCEPT ![x] = now]
    BY <1>3 DEF resetOrCreateSession
  <2> HIDE DEF x
  <2>3. erState \in [Sid -> ChannelState] /\ eeState \in [Sid -> ChannelState] /\ lastRecv \in [Sid -> Nat]
    BY DEF Inv, TypeOK
  <2>4. erState'[x] = "INIT" /\ lastRecv'[x] = now BY <2>1, <2>2, <2>3
  <2>5. \A s \in Sid : s # x => erState'[s] = erState[s] /\ eeState'[s] = eeState[s] /\ lastRecv'[s] = lastRecv[s]
    BY <2>1, <2>2, <2>3
  <2>6. \A s \in Sid : erState'[s] # "TIMEOUT" BY <2>1, <2>4, <2>5 DEF DeadlineInv
  <2>7. accNew' # NoSid => erState'[accNew'] = "INIT"
    <3>1. accNew # NoSid => accNew \in Sid /\ accNew # x BY <2>1 DEF Inv, TypeOK, TableInv
    <3>2. QED BY <1>1, <2>5, <3>1 DEF DeadlineInv
  <2>8. ASSUME NEW s \in Tabled PROVE DeadlineOK(s)'
    <3>1. s \in Sid /\ DeadlineOK(s) /\ Slack(s)' = Slack(s) BY <1>1 DEF Tabled, DeadlineInv, Slack
    <3>2. CASE s # x BY <1>1, <2>5, <3>1, <3>2 DEF DeadlineOK, Posted
    <3>3. CASE s = x
      <4>1. sec - now < TimeoutSec + Slack(s) BY <3>1, DeadlineTypes
      <4>2. QED BY <1>1, <2>4, <3>1, <3>3, <4>1 DEF DeadlineOK
    <3>4. QED BY <3>2, <3>3
  <2>9. QED BY <1>1, <2>6, <2>7, <2>8 DEF DeadlineInv
<1>4. QED BY <1>2, <1>3

\* A new session is not in the table yet.
LEMMA createSession_Deadline ==
  ASSUME Inv, DeadlineInv, NEW x \in Sid, createSession(x)
  PROVE  DeadlineInv'
<1>1. /\ UNCHANGED <<now, sec, timerPc, todo, dead, sessions, pending, closing, posted, toPost>>
      /\ Tabled' = Tabled /\ accNew' = x /\ ~ (x \in Tabled)
  BY DEF createSession, Tabled, postVars, timerVars, Inv, TableInv
<1>2. erState'[x] = "INIT" BY DEF createSession, Inv, TypeOK
<1>3. \A s \in Sid : s # x => erState'[s] = erState[s] /\ eeState'[s] = eeState[s] /\ lastRecv'[s] = lastRecv[s]
  BY DEF createSession, Inv, TypeOK
<1>4. \A s \in Sid : erState'[s] # "TIMEOUT" BY <1>2, <1>3 DEF DeadlineInv
<1>5. ASSUME NEW s \in Tabled PROVE DeadlineOK(s)'
  <2>1. s \in Sid /\ DeadlineOK(s) /\ Slack(s)' = Slack(s) /\ s # x BY <1>1 DEF Tabled, DeadlineInv, Slack
  <2>2. QED BY <1>1, <1>3, <2>1 DEF DeadlineOK, Posted
<1>6. QED BY <1>1, <1>2, <1>4, <1>5 DEF DeadlineInv

\* A new session was made in this round of the accept loop.
LEMMA insertSession_Deadline ==
  ASSUME Inv, DeadlineInv, insertSession
  PROVE  DeadlineInv'
<1>1. /\ UNCHANGED <<now, sec, timerPc, todo, dead, erState, eeState, lastRecv, pending, closing, posted, toPost>>
      /\ accNew' = NoSid /\ accNew # NoSid /\ accNew \in Sid /\ Tabled' \subseteq Tabled \cup {accNew}
  BY DEF insertSession, Tabled, chanVars, postVars, timerVars, Inv, TypeOK, TableInv
<1> SUFFICES ASSUME NEW s \in Tabled' PROVE DeadlineOK(s)' BY <1>1 DEF DeadlineInv
<1>2. Slack(s)' = Slack(s) BY <1>1 DEF Slack
<1>3. CASE s \in Tabled
  <2>1. DeadlineOK(s) BY <1>3 DEF DeadlineInv
  <2>2. QED BY <1>1, <1>2, <2>1 DEF DeadlineOK, Posted
<1>4. CASE s = accNew
  <2>1. erState[s] = "INIT" /\ s \in Sid BY <1>1, <1>4 DEF DeadlineInv
  <2>2. /\ lastRecv[s] >= start[AcceptLoop] /\ start[AcceptLoop] \in Nat
        /\ now <= start[AcceptLoop] + LoopSec
    BY <1>4, Facts DEF insertSession, Inv, AcceptInv, ClockInv, TypeOK
  <2>3. sec - lastRecv[s] < TimeoutSec + Slack(s) BY <2>1, <2>2, DeadlineTypes
  <2>4. QED BY <1>1, <1>2, <2>1, <2>3 DEF DeadlineOK
<1>5. QED BY <1>1, <1>3, <1>4

\* Initially the table is empty.
LEMMA InitDeadline == Init => DeadlineInv
<1> SUFFICES ASSUME Init PROVE DeadlineInv OBVIOUS
<1>1. Tabled = {} BY SidAssumption DEF Init, Tabled
<1>2. now <= sec + TimerSec BY TimeAssumption DEF Init
<1>3. (\A s \in Sid : erState[s] # "TIMEOUT") /\ accNew = NoSid BY DEF Init
<1>4. QED BY <1>1, <1>2, <1>3 DEF DeadlineInv

\* Every step keeps every session's deadline.
LEMMA NextDeadline == ASSUME Inv, DeadlineInv, [Next]_vars PROVE DeadlineInv'
<1>1. CASE Tick BY <1>1, Tick_Deadline
<1>2. CASE TimerNext
  BY <1>2, TimerRead_Deadline, TimerLock_Deadline, TimerCheck_Deadline, postTimeoutChannel_Deadline,
     removeSessions_Deadline DEF TimerNext
<1>3. ASSUME NEW l \in Loop, LoopNext(l) PROVE DeadlineInv'
  <2>1. CASE swapPending(l) BY <2>1, swapPending_Deadline
  <2>2. CASE \E s \in Sid : closeMark(l, s) BY <2>2, closeMark_Deadline
  <2>3. CASE \/ \E evs \in SUBSET {s \in eeOpen : loopOf[s] = l} : epoll_wait(l, evs)
             \/ loopAgain(l) \/ \E s \in Sid : handleEvent(l, s) \/ closeSocket(l, s)
    BY <2>3, Quiet_Deadline
       DEF epoll_wait, loopAgain, handleEvent, closeSocket, tableVars, chanVars, accVars
  <2>4. QED BY <1>3, <2>1, <2>2, <2>3 DEF LoopNext
<1>4. CASE AcceptNext
  <2>1. CASE relayPayload \/ dispatchReply \/ sendAnswer \/ sendSuccAuth
    BY <2>1, Quiet_Deadline DEF relayPayload, dispatchReply, sendAnswer, sendSuccAuth, tableVars, chanVars
  <2>2. QED
    BY <1>4, <2>1, findChannel_Deadline, resetOrCreateSession_Deadline, createSession_Deadline,
       insertSession_Deadline DEF AcceptNext
<1>5. CASE Arrival
  BY <1>5, Quiet_Deadline DEF Arrival, recvFrom, tableVars, chanVars
<1>6. CASE UNCHANGED vars BY <1>6, Quiet_Deadline DEF vars, tableVars, chanVars, accVars
<1>7. QED BY <1>1, <1>2, <1>3, <1>4, <1>5, <1>6 DEF Next

\* updateSessions deletes a session within TimeoutSec + 2 * LoopSec + 4 * TimerSec
\* seconds of the last datagram of its caller: a scan notices it, its loop closes
\* its channel within two rounds, and a later scan deletes it.
THEOREM ReclaimsInTime == ASSUME LockDelay = 0 PROVE Spec => []ReclaimedInTime
<1>1. Inv /\ DeadlineInv /\ [Next]_vars => DeadlineInv' BY NextDeadline
<1>2. ASSUME Inv, DeadlineInv PROVE ReclaimedInTime
  <2> SUFFICES ASSUME NEW c \in Caller, sessions[c] # NoSid
               PROVE  now - lastRecv[sessions[c]] < TimeoutSec + 2 * LoopSec + 4 * TimerSec
    BY DEF ReclaimedInTime
  <2> DEFINE s == sessions[c]
  <2>1. s \in Sid /\ s \in Tabled BY <1>2 DEF Inv, TypeOK, Tabled
  <2> HIDE DEF s
  <2>2. DeadlineOK(s) /\ now <= sec + TimerSec BY <1>2, <2>1 DEF DeadlineInv
  <2>3. CASE erState[s] # "CLOSED" \/ eeState[s] = "CLOSED"
    BY <1>2, <2>1, <2>2, <2>3, DeadlineTypes, TimeAssumption DEF DeadlineOK, s
  <2>4. CASE erState[s] = "CLOSED" /\ toPost = s /\ eeState[s] = "TIMEOUT"
    BY <1>2, <2>1, <2>2, <2>4, DeadlineTypes, TimeAssumption DEF DeadlineOK, s
  <2>5. CASE erState[s] = "CLOSED" /\ toPost # s /\ eeState[s] = "TIMEOUT"
    <3>1. posted[s] - lastRecv[s] < TimeoutSec + 2 * TimerSec /\ Posted(s) BY <2>2, <2>5 DEF DeadlineOK
    <3>2. QueueOK(s) /\ loopOf[s] \in Loop BY <1>2, <2>1 DEF Inv, QueueInv, TypeOK
    <3>3. start[loopOf[s]] \in Nat /\ now <= start[loopOf[s]] + LoopSec BY <1>2, <3>2 DEF Inv, TypeOK, ClockInv
    <3>4. posted[s] + LoopSec >= start[loopOf[s]]
      BY <1>2, <2>1, <2>5, <3>1, <3>2, <3>3, DeadlineTypes DEF QueueOK, Posted
    <3>5. QED BY <1>2, <2>1, <3>1, <3>3, <3>4, DeadlineTypes DEF s
  <2>6. eeState[s] \in {"TIMEOUT", "CLOSED"} \/ erState[s] # "CLOSED" BY <2>2 DEF DeadlineOK
  <2>7. QED BY <2>3, <2>4, <2>5, <2>6 DEF s
<1>3. QED BY <1>1, <1>2, Invariance, InitDeadline, PTL DEF Spec

=============================================================================
