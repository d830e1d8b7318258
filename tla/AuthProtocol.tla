---------------------------- MODULE AuthProtocol ----------------------------
(***************************************************************************)
(* The authentication of a RemoteTransport of the local proxy with a relay:*)
(* requests with a target (auth_ip_, auth_port_), their repetition by the  *)
(* timer, heartbeats and payload, and the answers of UDPAccept or of a     *)
(* TCPChannel, which carry nothing but a result code.  UDP loses, repeats  *)
(* and reorders datagrams; TCP does not.  The relay may forget the caller  *)
(* (restart or time-out), and the proxy may connect anew.                  *)
(***************************************************************************)
EXTENDS Naturals, Sequences

CONSTANTS
    Good,       \* the targets the relay accepts
    Bad,        \* the targets its white list refuses
    NoTarget,   \* auth_ip_ or auth_port_ is 0
    MaxNet,     \* bound: the messages under way in one direction
    MaxFault,   \* bound: losses, repetitions, restarts and reconnections
    MaxTarget   \* bound: the targets that are set

ASSUME TargetAssumption == NoTarget \notin Good \cup Bad
ASSUME BoundAssumption == MaxNet >= 2 /\ {MaxNet, MaxFault, MaxTarget} \subseteq Nat

VARIABLES
    useTcp,     \* trans_type_ = TRANS_TCP
    target,     \* auth_ip_, auth_port_
    auth,       \* auth_successed_
    authDue,    \* m_nAuthTime is at least s_nAuthPeriod ago
    beatDue,    \* m_nSchedulingTime is more than the heartbeat period ago
    open,       \* the socket is open
    up,         \* messages under way to the relay
    down,       \* messages under way to the proxy
    session,    \* the callee of the relay's session for this socket
    accepted,   \* history: the targets the relay has accepted on this socket ...
    former,     \* history: ... and those it had before, since the last quiet change
    faults,     \* history: the faults so far
    changes     \* history: the calls of SetAuthInfo so far

proxyVars == <<target, auth, authDue, beatDue, open>>
histVars == <<former, faults, changes>>
vars == <<useTcp, proxyVars, up, down, session, accepted, histVars>>

Target == Good \cup Bad
Request(t) == [type |-> "AUTH_REQ", target |-> t]
Plain(ty) == [type |-> ty, target |-> NoTarget]
Beat == Plain("HEARTBEAT")
Payload == Plain("RTP_RTCP")
Answer(code) == Plain(code)
Room(net, n) == Len(net) + n <= MaxNet
Without(net, i) == SubSeq(net, 1, i - 1) \o SubSeq(net, i + 1, Len(net))

-----------------------------------------------------------------------------

\* A RemoteTransport that has opened its socket and has no target.
Init ==
    /\ useTcp \in BOOLEAN
    /\ target = NoTarget
    /\ auth = FALSE
    /\ authDue = TRUE
    /\ beatDue = FALSE
    /\ open = TRUE
    /\ up = << >>
    /\ down = << >>
    /\ session = NoTarget
    /\ accepted = {}
    /\ former = {}
    /\ faults = 0
    /\ changes = 0

\* Nothing is under way in either direction, over TCP.
quiet == useTcp /\ up = << >> /\ down = << >>

\* SetAuthInfo with a target other than the present one.
SetAuthInfo(t) ==
    /\ changes < MaxTarget
    /\ t # target
    /\ target' = t
    /\ auth' = FALSE
    /\ changes' = changes + 1
    /\ IF quiet
       THEN former' = {} /\ accepted' = {}
       ELSE former' = former \cup ({target} \ {NoTarget}) /\ UNCHANGED accepted
    /\ UNCHANGED <<useTcp, authDue, beatDue, open, up, down, session, faults>>

\* Time passes.
Elapse ==
    /\ ~(authDue /\ beatDue)
    /\ authDue' = TRUE
    /\ beatDue' = TRUE
    /\ UNCHANGED <<useTcp, target, auth, open, up, down, session, accepted, histVars>>

\* The requests SendAuthData sends: one, when there is a target.
AuthData == IF target = NoTarget THEN << >> ELSE <<Request(target)>>

\* RemoteTransport::OnTimer: a request at most every s_nAuthPeriod until the
\* relay has answered it, then heartbeats.
OnTimer ==
    /\ open
    /\ Room(up, 1)
    /\ \/ /\ ~auth /\ authDue /\ target # NoTarget
          /\ up' = up \o AuthData
          /\ authDue' = FALSE
       \/ /\ auth /\ beatDue
          /\ up' = Append(up, Beat)
          /\ UNCHANGED authDue
    /\ beatDue' = FALSE
    /\ UNCHANGED <<useTcp, target, auth, open, down, session, accepted, histVars>>

\* RemoteTransport::SendRawData: payload, behind a request while there is no
\* authentication.
SendRawData ==
    /\ open
    /\ Room(up, IF auth THEN 1 ELSE 1 + Len(AuthData))
    /\ up' = Append(IF auth THEN up ELSE up \o AuthData, Payload)
    /\ authDue' = (authDue /\ (auth \/ target = NoTarget))
    /\ beatDue' = FALSE
    /\ UNCHANGED <<useTcp, target, auth, open, down, session, accepted, histVars>>

\* Mutant of handleAnswer: NEED_REAUTH is not looked at.
handleAnswerDeaf(m) ==
    auth' = (auth \/ m.type = "SUCC_AUTH")

\* RemoteTransport::OnHandlePdu: what an answer does to auth_successed_.
handleAnswer(m) ==
    auth' = CASE m.type = "SUCC_AUTH" -> TRUE
              [] m.type = "NEED_REAUTH" -> FALSE
              [] OTHER -> auth

\* The loop hands up the i-th message under way; TCP keeps the order.
OnHandlePdu(i) ==
    /\ open
    /\ i \in 1 .. Len(down)
    /\ useTcp => i = 1
    /\ handleAnswer(down[i])
    /\ down' = Without(down, i)
    /\ UNCHANGED <<useTcp, target, authDue, beatDue, open, up, session, accepted, histVars>>

\* ConnectRelaySvr: a new socket, which the relay knows nothing of, and a
\* request at once, over the transport that GetNewSvr has found.  The callers do
\* so when the transport is closed or silent.
ConnectRelaySvr ==
    /\ useTcp' \in BOOLEAN
    /\ auth' = FALSE
    /\ open' = TRUE
    /\ up' = AuthData
    /\ authDue' = (authDue /\ target = NoTarget)
    /\ beatDue' = (beatDue /\ target = NoTarget)
    /\ down' = << >>
    /\ session' = NoTarget
    /\ accepted' = {}
    /\ former' = {}
    /\ UNCHANGED <<target, changes>>

Reopen == ~open /\ ConnectRelaySvr /\ UNCHANGED faults
Reconnect == open /\ faults < MaxFault /\ ConnectRelaySvr /\ faults' = faults + 1

-----------------------------------------------------------------------------
(* The relay.                                                               *)

\* Mutant of handlePduPack: a refused target is answered SUCC_AUTH.
handlePduPackGranting(m) ==
    CASE m.type = "AUTH_REQ" -> <<Answer("SUCC_AUTH")>>
      [] m.type = "HEARTBEAT" -> <<Beat>>
      [] m.type = "RTP_RTCP" -> IF useTcp /\ session = NoTarget THEN <<Answer("NEED_REAUTH")>> ELSE << >>

\* HandleRecvData::handlePduPack: the answers to a PDU.  A TCP channel without
\* callee asks for authentication when it gets payload; a heartbeat is answered
\* with a heartbeat, whether the caller is known or not.
handlePduPack(m) ==
    CASE m.type = "AUTH_REQ" -> <<Answer(IF m.target \in Good THEN "SUCC_AUTH" ELSE "INVALID_ARG")>>
      [] m.type = "HEARTBEAT" -> <<Beat>>
      [] m.type = "RTP_RTCP" -> IF useTcp /\ session = NoTarget THEN <<Answer("NEED_REAUTH")>> ELSE << >>

\* UDPAccept::handleRecv: payload comes unwrapped; a known caller is sent
\* SUCC_AUTH behind the answer to any PDU.
udpAnswers(m) ==
    IF m = Payload
    THEN IF session = NoTarget THEN <<Answer("NEED_REAUTH")>> ELSE << >>
    ELSE handlePduPack(m) \o IF session = NoTarget THEN << >> ELSE <<Answer("SUCC_AUTH")>>

\* Mutant of relayRecv: a session that exists keeps its callee.
relayRecvKeeping(i) ==
    /\ open
    /\ i \in 1 .. Len(up)
    /\ useTcp => i = 1
    /\ Room(down, 2)
    /\ down' = down \o IF useTcp THEN handlePduPack(up[i]) ELSE udpAnswers(up[i])
    /\ IF up[i].target \in Good /\ session = NoTarget
       THEN session' = up[i].target /\ accepted' = accepted \cup {up[i].target}
       ELSE UNCHANGED <<session, accepted>>
    /\ up' = Without(up, i)
    /\ UNCHANGED <<useTcp, proxyVars, histVars>>

\* Mutant of relayRecv: the white list is not asked.
relayRecvUnchecked(i) ==
    /\ open
    /\ i \in 1 .. Len(up)
    /\ useTcp => i = 1
    /\ Room(down, 2)
    /\ down' = down \o IF useTcp THEN handlePduPack(up[i]) ELSE udpAnswers(up[i])
    /\ IF up[i].target # NoTarget
       THEN session' = up[i].target /\ accepted' = accepted \cup {up[i].target}
       ELSE UNCHANGED <<session, accepted>>
    /\ up' = Without(up, i)
    /\ UNCHANGED <<useTcp, proxyVars, histVars>>

\* The relay handles the i-th message under way: doSuccessAuth makes the target
\* of a request it accepts the callee.
relayRecv(i) ==
    /\ open
    /\ i \in 1 .. Len(up)
    /\ useTcp => i = 1
    /\ Room(down, 2)
    /\ down' = down \o IF useTcp THEN handlePduPack(up[i]) ELSE udpAnswers(up[i])
    /\ IF up[i].target \in Good
       THEN session' = up[i].target /\ accepted' = accepted \cup {up[i].target}
       ELSE UNCHANGED <<session, accepted>>
    /\ up' = Without(up, i)
    /\ UNCHANGED <<useTcp, proxyVars, histVars>>

\* The relay restarts or times the caller out; a TCP connection is gone then.
relayForgets ==
    /\ faults < MaxFault
    /\ open
    /\ session' = NoTarget
    /\ IF useTcp THEN open' = FALSE /\ up' = << >> /\ down' = << >> ELSE UNCHANGED <<open, up, down>>
    /\ faults' = faults + 1
    /\ UNCHANGED <<useTcp, target, auth, authDue, beatDue, accepted, former, changes>>

\* A datagram is lost, or arrives twice.
loseUp(i) == up' = Without(up, i) /\ UNCHANGED down
loseDown(i) == down' = Without(down, i) /\ UNCHANGED up
repeatUp(i) == Room(up, 1) /\ up' = Append(up, up[i]) /\ UNCHANGED down
repeatDown(i) == Room(down, 1) /\ down' = Append(down, down[i]) /\ UNCHANGED up
netFault ==
    /\ ~useTcp
    /\ faults < MaxFault
    /\ \/ \E i \in 1 .. Len(up) : loseUp(i) \/ repeatUp(i)
       \/ \E i \in 1 .. Len(down) : loseDown(i) \/ repeatDown(i)
    /\ faults' = faults + 1
    /\ UNCHANGED <<useTcp, proxyVars, session, accepted, former, changes>>

Next ==
    \/ \E t \in Target : SetAuthInfo(t)
    \/ Elapse \/ OnTimer \/ SendRawData \/ Reopen \/ Reconnect
    \/ \E i \in 1 .. MaxNet : OnHandlePdu(i) \/ relayRecv(i)
    \/ relayForgets \/ netFault

Spec == Init /\ [][Next]_vars

\* The timer runs, the user of the transport keeps sending, its owner reopens a
\* closed transport, and what is not lost arrives.  (Strong fairness, because the
\* room that MaxNet leaves comes and goes.)
LiveSpec ==
    /\ Spec
    /\ WF_vars(Elapse) /\ WF_vars(OnTimer) /\ SF_vars(SendRawData) /\ WF_vars(Reopen)
    /\ WF_vars(OnHandlePdu(1)) /\ WF_vars(relayRecv(1))

-----------------------------------------------------------------------------
(* Properties.                                                              *)

\* Types; the relay has sessions with accepted targets only.
TypeOK ==
    /\ target \in Target \cup {NoTarget}
    /\ session \in Good \cup {NoTarget}
    /\ accepted \subseteq Good /\ former \subseteq Target
    /\ {useTcp, auth, authDue, beatDue, open} \subseteq BOOLEAN
    /\ Len(up) <= MaxNet /\ Len(down) <= MaxNet
    /\ useTcp => (~open => up = << >> /\ down = << >>)

\* The proxy takes itself for authenticated only if the relay has accepted, on
\* this very socket, its target or one that the socket had before: a SUCC_AUTH that
\* an earlier socket was sent does not count, and a socket that has had one target
\* has that target accepted.  Over TCP a change that finds nothing under way begins
\* anew: only an acceptance of the new target counts.  Over UDP it does not, for a
\* known caller is sent SUCC_AUTH behind the refusal of the new target too; and an
\* answer that is under way is taken for one to the new request.
GrantedOnlyIfAccepted ==
    /\ auth => accepted # {}
    /\ accepted \subseteq former \cup {target}

\* Whatever was lost, repeated, reordered or forgotten by the relay, a proxy
\* whose only target is good and which keeps sending is served in the end: its
\* session has its target and it knows it.
SessionRegained ==
    \A t \in Good : (target = t /\ changes = 1) ~> (changes > 1 \/ (auth /\ session = t))

\* A change of target is honoured when no answer to an earlier message is under
\* way: the new target is requested and becomes the callee.  (An answer that is
\* under way ends the authentication before the new target was requested.)
QuietChangeHonoured ==
    \A t \in Good : (target = t /\ ~auth /\ up = << >> /\ down = << >>)
                        ~> (target # t \/ (auth /\ session = t))

=============================================================================
