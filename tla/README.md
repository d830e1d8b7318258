# TLA+ models of the relay server and the local proxy

This directory holds a TLA+ development of the network relay that lives beside the
CryptoWrapper library: modules that TLC model-checks on small instances and theorems
that TLAPS proves for every value of the constants. `PROJECT.json` lists the
components, runs, mutants, findings, hazards and theorems, and maps every definition
to the lines it models.

## The system

A *local proxy* (`localproxy/`, on the client) relays SIP and RTP through a *relay
server* (`relayserver/`) to media servers ("mcu") the client cannot reach. They speak a
small PDU protocol (`common/PackDef`, `ParsePdu`) over UDP or TCP. The repository also
holds wrappers of AES, SM4 and SM2 (`BaseLib/CryptoWrapper`), which the relay does not
use.

| Component | State | Operations | Threads, hard behaviour |
|---|---|---|---|
| UDP session table (`SessionManager`, `Session`, `Hash`) | `sessions_`, `caller_chl_map_`, per session a pair of channels with state and `last_recv_time_` | find, reset or create, time out, delete | accept loop and timer thread share it under `mutex_`; pointers leave the lock |
| Timer (`Timer`) | none | once a second: scan, post time-outs, delete dead sessions | reads the clock before it owns the lock |
| Event loop (`Poll`, `EventLoopThread`) | epoll set, `tmout_chls_` | wait, handle a batch of events, close posted channels | raw pointers in batch and queue, closes up to 5 s late |
| Accept channel (`Accept`) | one socket | receive a datagram, look the caller up, relay or answer | runs in one of the loops |
| Channel (`Channel`, `Buffer`, `MemPool`) | send queue, packet pool, `post_events_` | `sendBuf` from any thread, `handleSend` and `close` in its loop | unprotected event mask, packets recycled across threads |
| TCP channel and session | partial receive and send buffers | framing, partial sends, socket reset | reset by the accept thread under the loop |
| Client network loop (`NetClient`, `TcpNetClient`, `UdpNetClient`) | socket maps, connecting map | select, connect, close, wake up | snapshots of maps, descriptor reuse, start and stop |
| PDU framing (`PackDef`, `ParsePdu`, `TcpParsePdu`) | stream buffers | pack, parse, reassemble | 16-bit lengths, split packets |
| Remote transport (`RemoteTransport`) | `auth_successed_`, addresses | authenticate, heartbeat, send | loss, late answers, retries |
| Server tests (`NetTestManager`) | result maps | append, test, choose | late results against a rebuilt map |
| SIP and RTP relay (`SipRelay`, `RtpChannel*`, `LocalProxyImpl`) | channels, restart flags | bind, detach, restart | delayed release, races with the timer |
| CryptoWrapper | none | encrypt, decrypt, check | padding and length contracts |

What makes the server correct: no thread uses a channel that another has deleted; no
session is lost or kept for ever; a caller is timed out only when it has been silent;
what the relay answers is true when it is sent; packets are relayed in order, each once,
and their memory has one owner.

## Modules

**RelaySession** is the core: the UDP session table with the timer thread, the accept
channel and the event loops. `Sid` stands for session objects, so `alloc` is the heap and
a pointer is a member of `Sid`; a session's `channel_er_` and `channel_ee_` are the
functions `erState`, `eeState`, `lastRecv`, `eeRemote`, `loopOf` and the set `eeOpen`.
One action is a piece of code that no other thread can cut: a section under `mutex_` or
under the mutex of a loop, or the code between two such sections. The close of a channel
is two actions (`closeSocket`, `closeMark`) because it runs without a lock and the timer
reads its result. `TimerOwnsMutex` says that the scan of `updateSessions`, which takes
several actions, holds `mutex_`.

| Action | Code |
|---|---|
| `TimerRead`, `TimerLock` | `Timer::run`, the lock of `updateSessions` |
| `TimerCheck`, `postTimeoutChannel` | `checkChannelsTimeout`, `postTimeout` of both channels |
| `removeSessions` | `handleInvalidSessions` to `deleteSession`, then unlock |
| `epoll_wait`, `handleEvent` | `Poll::poll`, `doEvent` |
| `swapPending`, `closeSocket`, `closeMark`, `loopAgain` | `doPendingCloseChannels`, `Channel::close` |
| `recvFrom`, `findChannel`, `relayPayload`, `dispatchReply` | `UDPAccept::handleRecv`, `handlePduPack` |
| `resetOrCreateSession`, `createSession`, `insertSession` | the functions of those names |
| `sendAnswer`, `sendSuccAuth` | `responseAuth` and the second answer of `handleRecv` |

Time is explicit. `Tick` lets a second pass only if each loop has swapped its time-out
queue within `LoopSec` seconds (5 s in the code, `kPollTimeMs`, plus the work of a
batch), the timer has read the clock within `TimerSec`, and it has waited no more than
`LockDelay` seconds between reading the clock and owning the mutex. `posted` and `heard`
are history variables. `Elapsed` is the `uint64_t` subtraction of
`ChannelBase::checkTimeout`.

**ChannelSend** is the sending half of one `UDPChannel`: the `Buffer` queue, the
`MemPool`, the unprotected `post_events_` and the mask epoll has. Relaying threads fill a
packet and call `sendBuf`; the loop runs `handleSend` and `close`; the timer and a new
authentication change the state `copyBufferAndSend` reads. An access to `post_events_`
and the `epoll_ctl` that follows are separate actions; `slipped` records that a packet was
pushed in between. **RelayFifo** is its abstract
specification: packets are sent in the order they were accepted, each at most once and
unaltered; `RelaysInOrder` states the refinement.

RelayFifo is implemented a second time by TcpUplink (`DeliversInOrder`), where accepting is
`SendTcpPdu` in the proxy and sending is `handlePduPack` in the relay, up to the first
payload that is too long for the relay; `LossOnlyAfterTooLong` says what happens then.

**TcpUplink** is one TCP connection from the proxy to the relay. A byte is `<<p, i>>`, the
i-th of the p-th PDU, so the model cuts the stream wherever `send` and `recv` may, without
building contents. `sendBuf` is `send_buf_[0..cur_send_pos-1]`, `room` the 16-bit
subtraction of `SendTcpPdu`, `parseOne` one round of `processData`. The relay knows a header by
two letters, a zero version and a length, which bytes of a payload may have as well: what the bytes
inside a PDU say when they are read as a header (`posed`: nothing, or any data length with data that
suits its command or not) is an input, chosen when the PDU is sent, and `headAt` believes it. `misread`
records the PDUs inside which the relay has found one.

| Action | Code |
|---|---|
| `SendRawData`, `SendPduData` | the two `SendTcpPdu`, with `FlushSendBuf` at their end |
| `FillFdset`, `wakeup`, `OnConnected`, `OnSendReady` | a round of the select loop |
| `Close` | `TcpNetClient::Close` |
| `handleRecv`, `handleClose` | `TCPChannel::handleRecv` with `processData`, `handleClose` |

**TcpDownlink** is the other direction: a TCP caller channel of the relay (`sendBufTo`,
`pollOut`, `peerReset`, `close`, `resetSocket`) and `TcpParsePdu::ParseTcpPdu` of the
proxy (`OnReciveData`). Every relay action is one handler of the session's loop. A packet that
begins with the letters of a header, which the relay's own answers do, is copied to the stream
unwrapped; the model has lengths of PDUs and does not tell the two apart.

**AuthProtocol** puts `RemoteTransport` (`SetAuthInfo`, `OnTimer`, `SendRawData`,
`OnHandlePdu`, `ConnectRelaySvr`) against the relay's answers (`relayRecv`:
`UDPAccept::handleRecv` or `TCPChannel::handleRecv`, both with `handlePduPack`). The two
directions are sequences of messages; over UDP any of them may be taken next, lost or
repeated (`netFault`), over TCP only the first. `useTcp` is `trans_type_`, chosen anew by each
`ConnectRelaySvr`. `relayForgets` stands for a time-out or a
restart of the relay, whose inner workings are RelaySession's.

**NetTest** is `NetTestManager`. An action is one lock section: `AppendServer` is
two (`appendStart` is its `StartTest`), `OnTimer` reads the clock in one (`onTimerClock`)
and decides in another (`onTimerTest`), and `GetNewSvr` starts a test afterwards (`getNewSvrStart`).
`UpdateTestResult` is the effect of an answer, however late. The model keeps times whole; the
code sees them through `Time`, the 32 bits of `Utils::Time()`, and compares and subtracts those.

**SipRelay** is `SipRelay::OnTimer` (`timerLocal`, `openUdp`, `bindUdp`, `timerRemote`,
`timerRestart`) in the network loop against `LocalProxyImpl::GetSipChannel` (`GetState`,
`readRestart`, `clearRestart`, `GetService`), `ResetChannel` and `DisConnectRelaySvr` in the user's
thread. The flags are not locked, so each access is an action. Ports are numbered by
`epoch`, the count of sockets made, so that an old port can be told from a new one.

**RtpChannels** is `RtpChannelManager` with `DelayRelease`: `AddChannel`, `BindChannel`,
`Detach`, `ClearRtpChannel`, `ResetRelayIp` and `OnTimer`, on the 32-bit clock of `Utils::Time()`.
Channel objects are numbered in the order they are made; `Deleted` are those in neither
the map nor the queue.

**ClientLoop** is `NetClient` with the `TcpNetClient`s on it. `MyRun` is cut wherever
another thread can come between: taking `connecting_map_` and entering select (`FillFdset`),
its return (`select`), the timer callback and the new snapshot (`refresh`), each entry of
`HandleConnecting`, each of `HandleTcpSocketEvent`. Open is `Open`, `SetSocketContext`, `Connect`,
`connecting`; Close is `beginClose`, `CloseSocket`, `close_socket`, `closed`. Either thread may
be in one. The system gives out the lowest free descriptor, so a number that was closed
comes back at once. When two threads work on the same client the outcome is a data race
on `socket_fd_`; behaviours end there (`raced`).

**CryptoWrapper** models the wrappers around AES, SM4 and SM2 over symbolic ciphers: a
ciphertext byte stands for its algorithm, key, block and index (`cipherByte`, `genuine`: what the
vendored block ciphers do, block by block, without their arithmetic), and what another key makes
of it is any byte. Padding, trailer, the checks before decryption, `size_t` subtraction and
return values are as in the code. The caller encrypts in layers and decrypts with anything.

The theorems about a module `M` are in **MProofs**: RelaySessionProofs, ChannelSendProofs,
TcpUplinkProofs, TcpDownlinkProofs, AuthProtocolProofs, ClientLoopProofs and
CryptoWrapperProofs. **LocalProxyProofs** holds those about RtpChannels, SipRelay and
NetTest, which have no variable and no action in common: their names are told apart (`SipInit`,
`NetSpec` and so on) so that one module can extend all three. **MCRelaySession** and
**MCChannelSend** are the modules TLC runs for RelaySession and ChannelSend; the other
modules are checked as they are. Definitions commented as *mutants* are
plausible mistakes in the definition that follows them; putting one in its place must
break the property `PROJECT.json` names with it.

How they compose: RelaySession abstracts a channel to its state and its socket; ChannelSend
and TcpDownlink are what happens inside one while it is open. AuthProtocol abstracts the
session table to the callee of one caller; its `relayForgets` is any deletion of
RelaySession. SipRelay abstracts AuthProtocol to `auth` and its `granted`. ClientLoop
justifies the single loop of TcpUplink and NetTest.

## Runs

| Run | Shows |
|---|---|
| `session` | all properties of RelaySession: one caller, one session object, two loops, every kind of datagram |
| `late_timer` | violation: with `LockDelay = 1` a session is deleted under the accept thread |
| `pair_connected` | violation: a reset session has no callee socket |
| `channel_send` | packets' memory has one owner, no packet is forgotten but by one race, and the channel refines RelayFifo |
| `uplink` | short writes and arbitrary cuts lose no byte; the connection refines RelayFifo up to a payload that is too long; only from there on are PDUs lost or payload bytes taken for PDUs, whatever payloads contain; a PDU that does not fit is refused, except at the very end of the buffer; what is accepted is handled, or the connection goes, or a payload was too long |
| `downlink` | whole PDUs, in order, over partial sends and replaced connections; the rest of a partial send leaves with the next packet |
| `auth` | the proxy takes itself for authenticated only if the relay accepted its target or, after a change that was not quiet, an earlier one of the socket; after any faults it regains its session; a change of target on a quiet connection is honoured |
| `net_test` | what may be picked, that a lost server is left unless the clock ran over, when a test is stopped |
| `sip_relay` | a user with an outdated registration is told, unless the flag was wiped out; after the faults GetSipChannel returns a port |
| `rtp_channels` | no channel is handed out while it waits for deletion, or deleted early; a detached channel is deleted |
| `client_loop` | clients stay registered for their own sockets while descriptors are reused; events are reported; `Stop` ends the loop |
| `crypto` | round trip for all lengths and last bytes, algorithms told apart, lengths bounded |

*Properties of RelaySession.* `NoDangling`: no table, queue, event batch or thread keeps
a pointer to a deleted session. `NoLeak`: every allocated session is in the table or
about to be. `AnswerTruthful`: SUCC_AUTH goes to callers that have a session,
NEED_REAUTH to callers that have none. `TimeoutOnlySilent`: only silent callers are
timed out. `ReclaimedInTime`: a session is deleted less than `TimeoutSec + 2 * LoopSec +
4 * TimerSec` seconds after its caller was last heard (44 s in the code), although that
takes the timer, the loop and the timer again; TLC finds the bound exact. `Inv` is the
inductive invariant of the proofs (`TypeOK` is its first conjunct). None of the first four
follows from the locking: the accept thread uses pointers outside the lock, and the
time-out queue and event batch hold pointers that deletion does not search. They hold
because of time: what refers to a session is younger than the time-out.

*Properties of the other modules.* Each is stated in the comment above it. The ones that
took most thought: `StreamIntact` (both ends of a connection and what is between them are
always the end of one stream), `WholePdus` (the rest of a packet that was cut by a
short write never opens a new connection), `GrantedOnlyIfAccepted` (a
SUCC_AUTH sent to an earlier socket cannot arrive at a new one, and over TCP, where nothing follows
a refusal, none is left for the next target), `FailsOver` and
`SipPicksUsable` (late answers against rebuilt maps, and a clock that runs over), `SocketRegistered` (no Close removes
the entry of the socket that took its descriptor), `WaitsArmed` (the loop never waits over a
full queue with POLLOUT off, except after one race) and `EventsReported` (the wake-ups are
enough although the loop works on snapshots).

*Bounds.* `TimeoutSec = 3`, `LoopSec = 1`, `TimerSec = 1` keep the proportions of the
code (30 s, 5 s, 1 s): the proof needs only `2 * LoopSec < TimeoutSec`. `MaxClock = 13`
lets a session be created, time out, be reset in the middle of its close, time out again
and be deleted within the bound of `ReclaimedInTime`; `LastArrival = 4` stops new datagrams
late enough for a reset after the first time-out. One caller and one session object are
enough for TLC, because the theorems hold for any number of them. `Modulus = 100`
exceeds every clock value, as 2^64 does. In ChannelSend four packets, two senders and a
pool of one give put-backs, recycling, a full pool and an empty one; `Buf` has one
object per packet, so `new` never blocks.

Lengths in TcpUplink and TcpDownlink are scaled: a header of 2 and data of 1 to 4 bytes (4
is too long) against a window of 2 or 4 give cuts inside the header, inside the data and
between PDUs, and PDUs longer than the window; in TcpUplink `Word = 8` is smaller than the buffer, as 2^16 is.
Three or four PDUs are enough for one that
is cut, one that waits and one that follows. Bytes that look like a header are at the fourth of a PDU,
where processData may go on after it has thrown its buffer away, and state data that ends with the PDU
or in the one behind it; TLC reaches both. AuthProtocol has two good targets and
a bad one, two changes of target, three messages under way in each direction and one
fault (two, with the same result, take three times as long): enough for an answer to the first
request to arrive after the second, or after a reconnection. NetTest has two servers, for
a choice, and time for a test, its end and another; its clock of 3 readings runs over once, with
tests begun and answered on both sides of it. ClientLoop has two clients, two
descriptors and two calls of Open: a descriptor is reused by the same client or by the
other. RtpChannels has time for two channels to be detached and to
wait out their delay one after the other. CryptoWrapper has blocks of 3 bytes, messages of
up to two blocks and one byte, in two layers, with a byte that looks like padding and one that
is larger than a block. `CHECK_DEADLOCK FALSE` is used where a bound, a closed connection,
Stop or a caller that does no more ends the behaviour.

*Fairness.* RelaySession and ChannelSend need none: what must happen is stated there as a
bound on time, which `Tick` makes the threads keep (each loops for ever and waits for at
most a bounded time: `select` 1 s, `epoll_wait` 5 s), and as a property of the states in which
nobody will act.
TcpUplink, TcpDownlink: the select loop, the relay's loop and the client run (`WF`);
senders need not send. AuthProtocol: time passes, the timer fires, messages are read
(`WF` on the first of each direction); payload is sent again and again (`SF`, because
`MaxNet` closes its guard now and then, which the network of the code does not); faults are finitely
many (`MaxFault`). SipRelay: the timer wakes the loop every 300 ms and the user polls (`WF`);
a socket that is opened, a server that is looked for and an answer that is awaited again and
again are there some time (`SF`). RtpChannels: time and the timer. ClientLoop: the loop's
thread runs and a thread inside Open or Close finishes it (`WF`); peers, callers and Stop
are free.

## Findings

*The timer's stale clock* (`late_timer`). `Timer::run` reads the clock, then
`updateSessions` waits for the mutex. If the second changes meanwhile and `findChannel`
stores the new one, `sec - last_recv_time_` wraps and the caller served last is timed
out. If its channels are already closed (after an earlier time-out), its session is
deleted while `handleRecv` still uses the channel. Without the delay (`LockDelay = 0`)
all properties hold, and the theorems say so for every instance.

*A reset session relays nothing* (`pair_connected`). A time-out closes the callee's
socket. If the caller authenticates again before the timer deletes the session,
`setRemoteAddress` resets states and addresses but does not reopen the socket, and a
close still queued is executed after the reset. The caller is told SUCC_AUTH, its
payload refreshes the session, and nothing is relayed until it stays silent for 30 s.

The following are not runs of their own; the model has them, and a property says how far
the code is right.

*Room that wraps.* `SendTcpPdu` keeps the room left in a 2 MiB buffer in 16 bits and
`packPduBuf` subtracts the header from it: with fewer than 8 bytes left it becomes nearly
64 KiB, and a PDU is written behind the end. `OverflowOnlyAtEnd`: in no other case.

*Payload taken for a PDU.* `SendTcpPdu` accepts payloads that `parsePduHead` refuses. The relay then
throws away what it has of the stream and goes on in the middle of a PDU, where it takes for a
header whatever begins with 'S', 'R' and a zero and states a length that is not too large: it handles
payload bytes as a request, and may skip PDUs. `LossOnlyAfterTooLong`: in no other case.

*A refused target that is granted.* `UDPAccept::handleRecv` sends a caller it knows SUCC_AUTH behind
every answer of `handlePduPack`, INVALID_ARG included. A proxy that changes to a target the relay
refuses takes itself for authenticated, and its payload goes to the earlier target.
`GrantedOnlyIfAccepted`: only after a change of target on the same socket, and over TCP only with an
answer still under way.

*A lost wake-up.* Between `isEmpty` and `postRecv` of `handleSend` a sender can push and
arm POLLOUT, which `postRecv` switches off again; and a sender can read back the mask that the
loop has written and apply it later. The packet waits for the next `sendBuf`. `WaitsArmed`:
in no other case.

*A restart that is not reported.* `IsRestarted` reads the flag and clears it in two steps;
what OnTimer sets in between is lost. `StaleIsTold`, which is proved: in no other case.

*The clock wraps.* `Utils::Time()` is a 32-bit time that `RtpChannelManager::OnTimer`
subtracts in 64 bits: after 49.7 days the difference is negative and it returns early. With
`ClockSize = 4` TLC refutes `DetachedReleased`. `NetTestManager` does the same in `OnTimer` and
`StartTest`: no test is stopped, and none begun that is not forced, until the reading has passed that of the last
test. And `GetNewSvr` takes only results whose reading is below the present one, so that right after
the clock has run over it returns the server in use although another had answered. `FailsOver`:
in no other case but an answer in the same millisecond; without the exception TLC refutes it.
`RemoteTransport` has the same subtractions in `CheckTimeout`, `SendAuthData` and `OnTimer`; AuthProtocol, which has
no times, has them come true late (`Elapse`).

*Choice of server.* `GetNewSvr` picks the oldest result where its comment says the last;
`AppendServer` clears the map before it looks which servers are new.

*Connected by an earlier socket.* A client that is closed and opened again between select
and `HandleConnecting` may get the same descriptor, and is told that it is connected while
the new socket is not; its entry in `connecting_map_` is erased.

*Return values.* `EncryptAES` of the C wrapper sets its out pointer to null and then
dereferences it; `DecryptSM2` returns 0 for data it could not decrypt.

## Proofs

Every theorem holds for all values of the constants that satisfy the named assumptions of
its module (`ASSUME` in the component's module, which TLC evaluates on each run), and so
for any number of callers, clients, servers, packets and faults. The pattern is the same
everywhere: an inductive invariant (`Inv` or `IInv`; `SipInv`, `NetInv`), a lemma per action or group of actions
that it is preserved, `Spec => []IInv`, and the properties of the runs as consequences.
Each invariant was model-checked on its run's instance before it was proved.

| Module | Invariant | Properties proved |
|---|---|---|
| `RelaySessionProofs` | `Invariance`, and `DeadlineInv` | `TypeOK`, `NoDangling`, `NoLeak`, `AnswerTruthful`, `TimeoutOnlySilent`, `ReclaimedInTime` |
| `ChannelSendProofs` | `SendInvariance` | `TypeOK`, `BufferOwned`, `WaitsArmed`, `RelaysInOrder` |
| `TcpUplinkProofs` | `UplinkInvariance` | `TypeOK`, `StreamIntact`, `LossOnlyAfterTooLong`, `OverflowOnlyAtEnd`, `DeliversInOrder` |
| `TcpDownlinkProofs` | `DownlinkInvariance` | `TypeOK`, `WholePdus`, `InOrderNoLoss` |
| `AuthProtocolProofs` | `GrantInvariance` | `TypeOK`, `GrantedOnlyIfAccepted` |
| `LocalProxyProofs`, RtpChannels | `RtpInvariance` | `TypeOK`, `BindsLive`, `GracePeriod` |
| `LocalProxyProofs`, SipRelay | `SipInvariance` | `SipTypeOK`, `StaleIsTold` |
| `LocalProxyProofs`, NetTest | `NetTestInvariance` | `SipPicksUsable`, `FailsOver`, `StopsEarlyOnlyIfRaced` |
| `ClientLoopProofs` | `LoopInvariance` | `SocketRegistered` |
| `CryptoWrapperProofs` | `CryptoInvariance` | `LengthsBounded`, `RoundTrip`, `AlgorithmsApart` |

`RelaySessionProofs` proves, assuming `LockDelay = 0` and the named assumptions on the
constants, `Invariance` (`Spec => []Inv`) and from it `TypeCorrect`,
`NoDanglingPointer`, `NoSessionLeak`, `AnswersAreTrue`, the action property
`TimeoutsAreDue` and `ReclaimsInTime`. There is one lemma per action; each has one step per conjunct of `Inv`.

The invariant:
- `TableInv`: the two tables agree, sessions have one caller, and what is not in the
  table is being created;
- `ClockInv`: readings are not in the future, loops keep their pace, and
  `last_recv_time_` is at least the caller's last lookup;
- `QueueInv`: a channel is posted at most once and is in the table while posted. Either
  its states are CLOSED/TIMEOUT, or it was reset after being posted; then its caller was
  heard after the post, and the close is done within `2 * LoopSec < TimeoutSec` seconds
  of it, before the next time-out can post it again or delete it;
- `EventInv`: only registered channels are in an event batch, and no registered channel
  is closed or being closed;
- `ScanInv`: what a scan has found dead is in the table, closed, and silent;
- `AcceptInv`: the caller being served was heard since its loop last swapped its queue,
  less than `TimeoutSec` ago, so its session cannot be found dead.

`QueueInv` and `AcceptInv` are where time is used; without them neither `NoDangling` nor
`AnswerTruthful` is inductive.

`ReclaimedInTime` needs a second invariant, `DeadlineInv`, which follows a session through
its end. Until it is timed out, the last reading of the clock is less than `TimeoutSec`
after its caller was heard, or `TimerSec` more while a scan is due (`Slack`); its channel is
posted in that scan, at most `TimerSec` later; it is closed at most `2 * LoopSec` after the
post; and the first scan that begins after the close deletes it. A datagram on the way only moves
the deadline on, and a new session enters the table in the same round of the accept loop
in which it was made, less than `TimeoutSec` old. The sum is the bound.

`ChannelSendProofs`. `BufferOwned` and the refinement need that every buffer is in exactly
one of pool, queue, `handleSend`'s hands and a sender's hands (`OwnInv`), that a thread holds
one exactly at the program points between taking and giving it away (`PcInv`), that what is
allocated was filled (`DataInv`), and that the packets accepted are those sent, the one popped
and those queued, in this order (`FifoInv`): a put-back after a failed `sendto` is then a
stuttering step, because the popped packet returns to the front. `WaitInv` is `WaitsArmed`
inside `sendBuf`: while a packet waits that nobody slipped behind, only the thread that pushed it
is at the mask, and the value it carries says POLLOUT.

`TcpUplinkProofs`. `StreamInv` is the invariant that matters: while the relay is open, receive
buffer, connection and send buffer are an end of the stream of all accepted PDUs (`Chain`);
the PDUs handled are, up to the first that is too long, exactly those before the place where
that end begins (`HandledInv`); and the place is inside a PDU only behind one that is too
long (`InPlace`). Without `InPlace`, `LossOnlyAfterTooLong` is not inductive: `processData` might
throw away a PDU whose beginning it had lost, or find one in its middle. Nothing is assumed of what
bytes inside a PDU say (`PosedInv` is their type): that they are not asked before a too-long payload is
what is proved, case by case of what a round does (`ParseCases`, `SkipTo`, `Emptied`). `processData` is a recursive function
over its rounds. The library's induction theorems cannot be used (they take an operator), so
the proof goes by sets: a set of numbers has a least element (`LeastNat`, from the library's
`WFMin`), hence a set with 0 and with k the number k + 1 has them all (`Induction`), hence the function exists
(`RoundsExist`) and a set of pairs (round, state) that is closed under `parseOne` contains
the result (`Rounds`). `RoomIsReal` is the 16-bit arithmetic of `room`: if a header is left,
the narrowed room is at most the real one, for any word size. For `DeliversInOrder` the mapping is
shown to give the sequences 1..f and 1..k with k <= f (`MappedExists`), which grow by one
with `appendPdu` and by any number with `handleRecv`.

`TcpDownlinkProofs`. The invariant follows the bytes that will still reach the proxy on this
connection (`Carried`): receive buffer and connection, and `send_buf_` too while the connection is
up, for what is left of a PDU never follows once the socket is broken or closed. They start where a PDU
starts and each byte is followed by the next of its PDU or by the first of a later one (`Linked`);
while the connection is up the last of them ends a PDU (`Ends`). They lie between what was handed
up and what is queued (`Between`), which makes the order inductive over replaced connections. `Accounted`
is the second half of `InOrderNoLoss`. Both loops of the code are recursive functions, and both
are handled as in TcpUplinkProofs, by sets closed under a step: `Parsed` says what is true after any
rounds of `ParseTcpPdu` (`ParseStep`, `ParseResult`), `Wrapped` what is true when `handleSend` has
wrapped any number of packets (`WrapStep`). `SendLoop` then says what the loop does to the three
buffers wherever the socket stops it; that k is the number of packets in front of the first that is
too long needs that a set of numbers with all their predecessors is an interval (`Interval`).
A short write moves bytes from `send_buf_` to the connection and leaves the whole as it was
(`WholeKept`), a read takes PDUs off its front (`ReadPart`, `LinkedTail`), and a close cuts it at
its end (`LinkedStart`).

`AuthProtocolProofs`. `GrantedOnlyIfAccepted` is not inductive: a SUCC_AUTH may be under way, and
the relay sends another to any caller it finds in its table. `GrantInv` says the same of both: a
session at the relay (over UDP), or a SUCC_AUTH on this socket, exists only after an acceptance on it.
`AskedInv` follows the targets: what is requested, and so what is accepted, on a socket is the present
target or a former one. A quiet change over TCP keeps both, because nothing is under way.

`LocalProxyProofs`, NetTest. `SipPicksUsable` needs only the shape of the result maps
(`ResultInv`); `FailsOver` also that answers are not from the future, and a least time among
finitely many candidates; and that of two readings in the same round of the clock the earlier is the
smaller (`Rounds`, `Readings`, for any range of the clock). `StopInv` says that when `OnTimer` stands before `StopTest` the test is
old or a new one has begun since its reading of the clock; it holds over a wrap because readings
are never further apart than the times.

`LocalProxyProofs`, SipRelay, for any `MaxFault`. The invariant is
`SipTypeOK /\ LoopInv /\ FirstInv /\ ToldInv`. `StaleIsTold` speaks only of a user who is not in
a call; `ToldInv` extends it into the call: between the two halves of `IsRestarted` the flag may
live only in `bRestart`. `LoopInv` says that `OnTimer` makes a new socket (and so a new epoch)
only while the channel is inactive, and `FirstInv` that the flag is raised at the next
activation: `m_bFirstUse` is off once a user can have learnt of the channel. There are two lemmas per
group of actions, one for the types and one for the rest.

`LocalProxyProofs`, RtpChannels. `GracePeriod` needs `DelayInv`: a channel that waits was
detached, and the age that `RelayExpireObj` computes on the wrapping clock never exceeds the true
time since it was closed (`Ageing`: a step of the clock adds one to a difference modulo
`ClockSize`, or makes it 0). So a wrapped clock can delay a deletion but not hasten it.

`ClientLoopProofs`. `SocketRegistered` speaks of clients at rest. The invariant extends it into
`Open` and `Close`: a client owns its descriptor from `Open` to `close_socket` (`Owns`), no two own
the same one, and `tcp_socket_map_` names only owners (`MapInv`); so `CloseSocket`, which comes before
`close_socket`, removes its own entry and never that of the client which has got the descriptor
since. The conjuncts are claimed only while no two threads have worked on the same client (`~raced`).

`CryptoWrapperProofs`. The caller may encrypt in layers and decrypt with anything, so the
invariant says of every layer on the buffer what the wrappers made of it, and that plain bytes are
under the last (`Layered`); and that no length comes near the end of `size_t` (`SizeInv`), so that
the subtraction in `Decrypt` does not wrap. `RoundTrip` rests on the arithmetic of the padding: a
padded message fills whole blocks, and its last byte is the number of bytes added, which is at
least 1 and at most `Block` (`FillRange`, `Padded`). With another key the blocks decrypt to any bytes,
and the bound of `badDelete` keeps `LengthsBounded`. `AlgorithmsApart` rests on the trailers and on the symbolic
ciphers: a byte of an SM2 ciphertext is never one of a trailer, which the real one is with a probability
of 2^-32.

Only model-checked: every liveness property (fairness and ENABLED are outside the proof
system's reach): `AllHandled`, `NextPacketFlushes`, `SessionRegained`, `QuietChangeHonoured`,
`PortReturned`, `DetachedReleased`, `EventsReported`, `StopReturns`. Every invariant and every
safety action property that a passing run checks is proved. The two runs with `LockDelay = 1` or
a violated property need no proof.

## Not modelled

Most of the repository's lines are vendored: OpenSSL headers, MIRACL, SM2 and SM4. They are
arithmetic on big integers and tables, which neither TLC nor the provers can say anything
about at a useful size, and they are not this program's logic; CryptoWrapper has symbolic operators for
their calls. So the share of all lines that the map covers stays small,
while of the relay, the proxy and the wrappers most code that changes shared state is
covered.

Also left out: logging (`TraceLog`), configuration files (`LpConfig`), HTTP helpers, key
creation (random bytes), build files and demos, start-up, and the empty `Connection` and
`Authentication` stubs: formatting, I/O or nothing. Within modelled parts:
- RelaySession: payload contents, the caller's own socket, stopping the server (`main`
  never does); the TCP session table, which is the same code with one map less;
- TcpDownlink: `resetSocket` by a loop other than the session's, a data race on plain
  integers;
- ClientLoop: UDP sockets, a notify socket that fails, two threads at one client, a Stop
  before MyRun has set `running_` (it is lost; see the hazards);
- SipRelay: the SIP messages and `Enable(false)`; RtpChannels: the payload path and the
  change of server of a single channel;
- PDU fields, by which no property tells messages apart.

## Status

All planned modules are modelled, checked and proved: RelaySession, ChannelSend, TcpUplink,
TcpDownlink, AuthProtocol, NetTest, SipRelay, RtpChannels, ClientLoop and CryptoWrapper, with the
two refinements of RelayFifo.

Worth adding when the code around them changes: the TCP session table beside RelaySession's; the
destructor of a channel with packets in its queue; and `resetSocket` in another loop than the
session's, once the code says who owns the buffers then.
