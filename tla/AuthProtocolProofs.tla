------------------------- MODULE AuthProtocolProofs -------------------------
(***************************************************************************)
(* Proofs about AuthProtocol, for any targets and any number of messages,  *)
(* faults and changes of target: its types, and that the proxy takes       *)
(* itself for authenticated only if the relay has accepted a target of     *)
(* this socket, which is its target unless that was changed on the socket  *)
(* (over TCP: changed while a message was under way).                      *)
(***************************************************************************)
EXTENDS AuthProtocol, SequenceTheorems, TLAPS

\* What may be under way: a request always has a target, nothing else has.
UpMessage == {Request(t) : t \in Target} \cup {Beat, Payload}
DownMessage == {Beat, Answer("SUCC_AUTH"), Answer("INVALID_ARG"), Answer("NEED_REAUTH")}
NetOK == up \in Seq(UpMessage) /\ down \in Seq(DownMessage)

\* Whatever can make the proxy take itself for authenticated now or later, an
\* answer that is under way or, over UDP, a session that the next PDU finds, comes
\* from a request that was accepted on this socket, since the last quiet change.
GrantInv ==
    /\ auth => accepted # {}
    /\ ~useTcp /\ session # NoTarget => accepted # {}
    /\ \A i \in 1 .. Len(down) : down[i].type = "SUCC_AUTH" => accepted # {}

\* The targets that were requested on this socket, whether the request is under
\* way or was accepted, are the present one and those that the socket had before.
Asked == (former \cup {target}) \ {NoTarget}
AskedInv ==
    /\ accepted \subseteq Asked
    /\ \A i \in 1 .. Len(up) : up[i].target \in Asked \cup {NoTarget}

IInv == TypeOK /\ NetOK /\ GrantInv /\ AskedInv

\* A message that is taken or lost leaves the others as they were.
LEMMA WithoutOne ==
    ASSUME NEW S, NEW s \in Seq(S), NEW i \in 1 .. Len(s)
    PROVE  /\ Without(s, i) \in Seq(S)
           /\ Len(Without(s, i)) = Len(s) - 1
           /\ \A j \in 1 .. Len(Without(s, i)) : \E k \in 1 .. Len(s) : Without(s, i)[j] = s[k]
<1> DEFINE a == SubSeq(s, 1, i - 1)
          b == SubSeq(s, i + 1, Len(s))
<1>0. Len(s) \in Nat /\ i \in Nat /\ 1 <= i /\ i <= Len(s)
  BY LenProperties
<1>1. a \in Seq(S) /\ Len(a) = i - 1 /\ \A j \in 1 .. i - 1 : a[j] = s[j]
  BY <1>0, SubSeqProperties
<1>2. b \in Seq(S) /\ Len(b) = Len(s) - i /\ \A j \in 1 .. Len(s) - i : b[j] = s[i + j]
  BY <1>0, SubSeqProperties
<1> HIDE DEF a, b
<1>3. /\ a \o b \in Seq(S)
      /\ Len(a \o b) = Len(s) - 1
      /\ \A j \in 1 .. Len(s) - 1 : (a \o b)[j] = IF j <= i - 1 THEN a[j] ELSE b[j - (i - 1)]
  <2>1. /\ a \o b \in Seq(S)
        /\ Len(a \o b) = Len(a) + Len(b)
        /\ \A j \in 1 .. Len(a) + Len(b) : (a \o b)[j] = IF j <= Len(a) THEN a[j] ELSE b[j - Len(a)]
    BY <1>1, <1>2, ConcatProperties
  <2>2. Len(a) = i - 1 /\ Len(a) + Len(b) = Len(s) - 1 BY <1>0, <1>1, <1>2
  <2>3. QED BY <2>1, <2>2
<1>4. ASSUME NEW j \in 1 .. Len(s) - 1
      PROVE  \E k \in 1 .. Len(s) : (a \o b)[j] = s[k]
  <2>1. CASE j <= i - 1
    <3>1. (a \o b)[j] = s[j] /\ j \in 1 .. Len(s) BY <2>1, <1>0, <1>1, <1>3
    <3>2. QED BY <3>1
  <2>2. CASE ~(j <= i - 1)
    <3>1. (a \o b)[j] = b[j - (i - 1)] BY <2>2, <1>0, <1>3
    <3>2. j - (i - 1) \in 1 .. Len(s) - i BY <2>2, <1>0
    <3>3. (a \o b)[j] = s[i + (j - (i - 1))] BY <3>1, <3>2, <1>2
    <3>4. i + (j - (i - 1)) \in 1 .. Len(s) BY <3>2, <1>0
    <3>5. QED BY <3>3, <3>4
  <2>3. QED BY <2>1, <2>2
<1>5. QED BY <1>0, <1>3, <1>4 DEF Without, a, b

\* Messages that are put behind others.
LEMMA Behind ==
    ASSUME NEW S, NEW s \in Seq(S), NEW t \in Seq(S)
    PROVE  /\ s \o t \in Seq(S)
           /\ Len(s \o t) = Len(s) + Len(t)
           /\ \A j \in 1 .. Len(s \o t) :
                \/ \E k \in 1 .. Len(s) : (s \o t)[j] = s[k]
                \/ \E k \in 1 .. Len(t) : (s \o t)[j] = t[k]
<1>1. Len(s) \in Nat /\ Len(t) \in Nat BY LenProperties
<1>2. /\ s \o t \in Seq(S)
      /\ Len(s \o t) = Len(s) + Len(t)
      /\ \A j \in 1 .. Len(s) + Len(t) : (s \o t)[j] = IF j <= Len(s) THEN s[j] ELSE t[j - Len(s)]
  BY ConcatProperties
<1>3. ASSUME NEW j \in 1 .. Len(s) + Len(t)
      PROVE  \/ \E k \in 1 .. Len(s) : (s \o t)[j] = s[k]
             \/ \E k \in 1 .. Len(t) : (s \o t)[j] = t[k]
  <2>1. CASE j <= Len(s)
    <3>1. j \in 1 .. Len(s) /\ (s \o t)[j] = s[j] BY <1>1, <1>2, <2>1
    <3>2. QED BY <3>1
  <2>2. CASE ~(j <= Len(s))
    <3>1. j - Len(s) \in 1 .. Len(t) /\ (s \o t)[j] = t[j - Len(s)] BY <1>1, <1>2, <2>2
    <3>2. QED BY <3>1
  <2>3. QED BY <2>1, <2>2
<1>4. QED BY <1>2, <1>3

\* A single message, and none.
LEMMA Singles ==
    ASSUME NEW S
    PROVE  /\ << >> \in Seq(S) /\ Len(<< >>) = 0
           /\ \A x \in S : <<x>> \in Seq(S) /\ Len(<<x>>) = 1 /\ <<x>>[1] = x
  OBVIOUS

\* The result code of an answer, and what may be under way.
LEMMA Messages ==
    /\ Answer("SUCC_AUTH") \in DownMessage /\ Answer("SUCC_AUTH").type = "SUCC_AUTH"
    /\ Answer("INVALID_ARG") \in DownMessage /\ Answer("INVALID_ARG").type = "INVALID_ARG"
    /\ Answer("NEED_REAUTH") \in DownMessage /\ Answer("NEED_REAUTH").type = "NEED_REAUTH"
    /\ Beat \in DownMessage /\ Beat.type = "HEARTBEAT" /\ Beat.target = NoTarget
    /\ Payload.type = "RTP_RTCP" /\ Payload.target = NoTarget /\ Beat # Payload
    /\ \A t \in Target : Request(t).type = "AUTH_REQ" /\ Request(t).target = t /\ Request(t) # Payload
    /\ Beat \in UpMessage /\ Payload \in UpMessage /\ \A t \in Target : Request(t) \in UpMessage
<1>1. Answer("SUCC_AUTH") \in DownMessage /\ Answer("INVALID_ARG") \in DownMessage
      /\ Answer("NEED_REAUTH") \in DownMessage /\ Beat \in DownMessage
  BY DEF DownMessage
<1>2. Beat \in UpMessage /\ Payload \in UpMessage /\ \A t \in Target : Request(t) \in UpMessage
  BY DEF UpMessage
<1>3. QED BY <1>1, <1>2 DEF Answer, Plain, Beat, Payload, Request

\* What handlePduPack answers: at most one answer, and SUCC_AUTH only to an
\* accepted request.
LEMMA PackOK ==
    ASSUME NEW m \in UpMessage
    PROVE  /\ handlePduPack(m) \in Seq(DownMessage) /\ Len(handlePduPack(m)) <= 1
           /\ \A j \in 1 .. Len(handlePduPack(m)) :
                handlePduPack(m)[j].type = "SUCC_AUTH" => m.target \in Good
<1> DEFINE One(x) == handlePduPack(m) = <<x>> /\ x \in DownMessage /\ (x.type = "SUCC_AUTH" => m.target \in Good)
<1>1. CASE \E t \in Target : m = Request(t)
  <2>1. PICK t \in Target : m = Request(t) BY <1>1
  <2>2. handlePduPack(m) = <<Answer(IF t \in Good THEN "SUCC_AUTH" ELSE "INVALID_ARG")>>
    BY <2>1, Messages DEF handlePduPack
  <2>3. CASE t \in Good
    <3>1. One(Answer("SUCC_AUTH")) BY <2>1, <2>2, <2>3, Messages
    <3>2. QED BY <3>1, Singles
  <2>4. CASE t \notin Good
    <3>1. One(Answer("INVALID_ARG")) BY <2>1, <2>2, <2>4, Messages
    <3>2. QED BY <3>1, Singles
  <2>5. QED BY <2>3, <2>4
<1>2. CASE m = Beat
  <2>1. One(Beat) BY <1>2, Messages DEF handlePduPack
  <2>2. QED BY <2>1, Singles
<1>3. CASE m = Payload
  <2>1. handlePduPack(m) = << >> \/ One(Answer("NEED_REAUTH")) BY <1>3, Messages DEF handlePduPack
  <2>2. CASE handlePduPack(m) = << >> BY <2>2, Singles
  <2>3. CASE One(Answer("NEED_REAUTH")) BY <2>3, Singles
  <2>4. QED BY <2>1, <2>2, <2>3
<1>4. QED BY <1>1, <1>2, <1>3 DEF UpMessage

\* What UDPAccept answers: one more SUCC_AUTH, to a caller that it knows.
LEMMA AnswersOK ==
    ASSUME NEW m \in UpMessage
    PROVE  /\ udpAnswers(m) \in Seq(DownMessage) /\ Len(udpAnswers(m)) <= 2
           /\ \A j \in 1 .. Len(udpAnswers(m)) :
                udpAnswers(m)[j].type = "SUCC_AUTH" => m.target \in Good \/ session # NoTarget
<1>1. CASE m = Payload
  <2>1. \/ udpAnswers(m) = << >>
        \/ udpAnswers(m) = <<Answer("NEED_REAUTH")>>
    BY <1>1 DEF udpAnswers
  <2>2. CASE udpAnswers(m) = << >> BY <2>2, Singles
  <2>3. CASE udpAnswers(m) = <<Answer("NEED_REAUTH")>> BY <2>3, Singles, Messages
  <2>4. QED BY <2>1, <2>2, <2>3
<1>2. CASE m # Payload
  <2> DEFINE h == handlePduPack(m)
             g == IF session = NoTarget THEN << >> ELSE <<Answer("SUCC_AUTH")>>
  <2>1. udpAnswers(m) = h \o g BY <1>2 DEF udpAnswers
  <2>2. g \in Seq(DownMessage) /\ Len(g) <= 1 /\ Len(g) \in Nat
        /\ \A j \in 1 .. Len(g) : session # NoTarget
    BY Singles, Messages
  <2>3. h \in Seq(DownMessage) /\ Len(h) <= 1 /\ Len(h) \in Nat
        /\ \A j \in 1 .. Len(h) : h[j].type = "SUCC_AUTH" => m.target \in Good
    BY PackOK, LenProperties
  <2> HIDE DEF h, g
  <2>4. QED BY <2>1, <2>2, <2>3, Behind
<1>3. QED BY <1>1, <1>2

\* Requests are well formed.
LEMMA AuthDataOK ==
    ASSUME target \in Target \cup {NoTarget}
    PROVE  AuthData \in Seq(UpMessage) /\ Len(AuthData) <= 1 /\ Len(AuthData) \in Nat
           /\ (target # NoTarget => Len(AuthData) = 1)
           /\ \A j \in 1 .. Len(AuthData) : AuthData[j].target \in {target} \ {NoTarget}
<1>1. CASE target = NoTarget
  BY <1>1, Singles DEF AuthData
<1>2. CASE target # NoTarget
  <2>1. /\ AuthData = <<Request(target)>> /\ Request(target) \in UpMessage
        /\ Request(target).target = target
    BY <1>2, Messages DEF AuthData
  <2>2. QED BY <1>2, <2>1, Singles
<1>3. QED BY <1>1, <1>2

\* The invariant holds when the transport has opened its socket.
LEMMA InitInv == Init => IInv
<1> SUFFICES ASSUME Init PROVE IInv
  OBVIOUS
<1>1. TypeOK
  <2>1. {useTcp, auth, authDue, beatDue, open} \subseteq BOOLEAN BY DEF Init
  <2>2. Len(up) <= MaxNet /\ Len(down) <= MaxNet BY BoundAssumption, Singles DEF Init
  <2>3. QED BY <2>1, <2>2 DEF Init, TypeOK
<1>2. NetOK BY Singles DEF Init, NetOK
<1>3. GrantInv BY Singles DEF Init, GrantInv
<1>4. AskedInv BY Singles DEF Init, AskedInv
<1>5. QED BY <1>1, <1>2, <1>3, <1>4 DEF IInv

\* The lengths are numbers.
LEMMA Lengths ==
    ASSUME NetOK
    PROVE  Len(up) \in Nat /\ Len(down) \in Nat /\ MaxNet \in Nat
  BY BoundAssumption, LenProperties DEF NetOK

\* One more message behind others.
LEMMA Added ==
    ASSUME NEW S, NEW s \in Seq(S), NEW x \in S
    PROVE  /\ Append(s, x) \in Seq(S)
           /\ Len(Append(s, x)) = Len(s) + 1
           /\ \A j \in 1 .. Len(Append(s, x)) :
                (\E k \in 1 .. Len(s) : Append(s, x)[j] = s[k]) \/ Append(s, x)[j] = x
<1>1. Len(s) \in Nat BY LenProperties
<1>2. /\ Append(s, x) \in Seq(S) /\ Len(Append(s, x)) = Len(s) + 1
      /\ \A j \in 1 .. Len(s) : Append(s, x)[j] = s[j]
      /\ Append(s, x)[Len(s) + 1] = x
  BY <1>1, AppendProperties
<1>3. ASSUME NEW j \in 1 .. Len(s) + 1
      PROVE  (\E k \in 1 .. Len(s) : Append(s, x)[j] = s[k]) \/ Append(s, x)[j] = x
  <2>1. j \in 1 .. Len(s) \/ j = Len(s) + 1 BY <1>1
  <2>2. QED BY <1>2, <2>1
<1>4. QED BY <1>2, <1>3

\* A request is put behind what is under way: its target is the present one.
LEMMA RequestBehind ==
    ASSUME IInv
    PROVE  /\ up \o AuthData \in Seq(UpMessage) /\ Len(up \o AuthData) = Len(up) + Len(AuthData)
           /\ \A j \in 1 .. Len(up \o AuthData) : (up \o AuthData)[j].target \in Asked \cup {NoTarget}
<1> DEFINE a == AuthData
<1>1. a \in Seq(UpMessage) /\ \A j \in 1 .. Len(a) : a[j].target \in {target} \ {NoTarget}
  BY AuthDataOK DEF IInv, TypeOK
<1>2. up \in Seq(UpMessage) BY DEF IInv, NetOK
<1>3. /\ \A j \in 1 .. Len(up) : up[j].target \in Asked \cup {NoTarget}
      /\ {target} \ {NoTarget} \subseteq Asked
  BY DEF IInv, AskedInv, Asked
<1> HIDE DEF a
<1>4. /\ up \o a \in Seq(UpMessage) /\ Len(up \o a) = Len(up) + Len(a)
      /\ \A j \in 1 .. Len(up \o a) : \/ \E k \in 1 .. Len(up) : (up \o a)[j] = up[k]
                                      \/ \E k \in 1 .. Len(a) : (up \o a)[j] = a[k]
  BY <1>1, <1>2, Behind
<1>5. \A j \in 1 .. Len(up \o a) : (up \o a)[j].target \in Asked \cup {NoTarget} BY <1>1, <1>3, <1>4
<1>6. QED BY <1>4, <1>5 DEF a

\* SetAuthInfo and the passing of time leave the network alone.
LEMMA SetAuthInfoInv ==
    ASSUME IInv, NEW t \in Target, SetAuthInfo(t)
    PROVE  IInv'
<1> USE DEF SetAuthInfo, IInv
<1>1. TypeOK' BY DEF TypeOK
<1>2. NetOK' BY DEF NetOK
<1>3. CASE quiet
  <2>1. up = << >> /\ down = << >> /\ useTcp BY <1>3 DEF quiet
  <2>2. GrantInv' BY <1>3, <2>1, Singles DEF GrantInv
  <2>3. AskedInv' BY <1>3, <2>1, Singles DEF AskedInv
  <2>4. QED BY <1>1, <1>2, <2>2, <2>3
<1>4. CASE ~quiet
  <2>1. GrantInv' BY <1>4 DEF GrantInv
  <2>2. Asked \subseteq Asked' BY <1>4 DEF Asked
  <2>3. AskedInv' BY <1>4, <2>2 DEF AskedInv
  <2>4. QED BY <1>1, <1>2, <2>1, <2>3
<1>5. QED BY <1>3, <1>4

\* Time passes.
LEMMA ElapseInv ==
    ASSUME IInv, Elapse
    PROVE  IInv'
<1> USE DEF Elapse, IInv, histVars
<1>1. TypeOK' BY DEF TypeOK
<1>2. NetOK' BY DEF NetOK
<1>3. GrantInv' BY DEF GrantInv
<1>4. AskedInv' BY DEF AskedInv, Asked
<1>5. QED BY <1>1, <1>2, <1>3, <1>4

\* What the proxy sends is well formed and finds room.
LEMMA SendInv ==
    ASSUME IInv, OnTimer \/ SendRawData
    PROVE  IInv'
<1>0. target \in Target \cup {NoTarget} BY DEF IInv, TypeOK
<1>1. /\ up' \in Seq(UpMessage) /\ Len(up') <= MaxNet
      /\ \A j \in 1 .. Len(up') : up'[j].target \in Asked \cup {NoTarget}
  <2>0. \A j \in 1 .. Len(up) : up[j].target \in Asked \cup {NoTarget} BY DEF IInv, AskedInv
  <2>1. CASE OnTimer
    <3>1. CASE target # NoTarget /\ up' = up \o AuthData
      <4>1. Len(AuthData) = 1 BY <1>0, <3>1, AuthDataOK
      <4>2. Len(up) + 1 <= MaxNet BY <2>1 DEF OnTimer, Room
      <4>3. /\ up \o AuthData \in Seq(UpMessage) /\ Len(up \o AuthData) = Len(up) + Len(AuthData)
            /\ \A j \in 1 .. Len(up \o AuthData) : (up \o AuthData)[j].target \in Asked \cup {NoTarget}
        BY RequestBehind
      <4>4. QED BY <3>1, <4>1, <4>2, <4>3
    <3>2. CASE up' = Append(up, Beat)
      <4>1. Len(up) + 1 <= MaxNet BY <2>1 DEF OnTimer, Room
      <4>2. up \in Seq(UpMessage) BY DEF IInv, NetOK
      <4>3. QED BY <2>0, <3>2, <4>1, <4>2, Messages, Added
    <3>3. QED BY <2>1, <3>1, <3>2 DEF OnTimer
  <2>2. CASE SendRawData
    <3> DEFINE u == IF auth THEN up ELSE up \o AuthData
    <3>1. up' = Append(u, Payload) BY <2>2 DEF SendRawData
    <3>2. /\ u \in Seq(UpMessage) /\ Len(u) + 1 <= MaxNet
          /\ \A j \in 1 .. Len(u) : u[j].target \in Asked \cup {NoTarget}
      <4>1. Len(up) \in Nat /\ MaxNet \in Nat /\ up \in Seq(UpMessage) BY Lengths DEF IInv, NetOK
      <4>2. CASE auth BY <2>0, <2>2, <4>1, <4>2 DEF SendRawData, Room
      <4>3. CASE ~auth
        <5>1. Len(AuthData) \in Nat BY <1>0, AuthDataOK
        <5>2. Len(up) + (1 + Len(AuthData)) <= MaxNet BY <2>2, <4>3 DEF SendRawData, Room
        <5>3. /\ up \o AuthData \in Seq(UpMessage) /\ Len(up \o AuthData) = Len(up) + Len(AuthData)
              /\ \A j \in 1 .. Len(up \o AuthData) : (up \o AuthData)[j].target \in Asked \cup {NoTarget}
          BY RequestBehind
        <5>4. QED BY <4>1, <4>3, <5>1, <5>2, <5>3
      <4>4. QED BY <4>2, <4>3
    <3> HIDE DEF u
    <3>3. QED BY <3>1, <3>2, Messages, Added
  <2>3. QED BY <2>1, <2>2
<1>2. /\ UNCHANGED <<useTcp, target, auth, open, down, session, accepted, former>>
      /\ open
      /\ authDue' \in BOOLEAN /\ beatDue' \in BOOLEAN
  BY DEF IInv, TypeOK, OnTimer, SendRawData, histVars
<1>3. TypeOK' BY <1>1, <1>2 DEF IInv, TypeOK
<1>4. NetOK' BY <1>1, <1>2 DEF IInv, NetOK
<1>5. GrantInv' BY <1>2 DEF IInv, GrantInv
<1>6. AskedInv' BY <1>1, <1>2 DEF IInv, AskedInv, Asked
<1>7. QED BY <1>3, <1>4, <1>5, <1>6 DEF IInv

\* The proxy believes only answers that were under way.
LEMMA OnHandlePduInv ==
    ASSUME IInv, NEW i \in 1 .. MaxNet, OnHandlePdu(i)
    PROVE  IInv'
<1>1. /\ i \in 1 .. Len(down) /\ open /\ down' = Without(down, i)
      /\ handleAnswer(down[i])
      /\ UNCHANGED <<useTcp, target, authDue, beatDue, open, up, session, accepted, former>>
  BY DEF OnHandlePdu, histVars
<1>2. down \in Seq(DownMessage) /\ Len(down) \in Nat /\ MaxNet \in Nat BY Lengths DEF IInv, NetOK
<1>3. /\ down' \in Seq(DownMessage) /\ Len(down') = Len(down) - 1
      /\ \A j \in 1 .. Len(down') : \E k \in 1 .. Len(down) : down'[j] = down[k]
  <2>1. i \in 1 .. Len(down) BY <1>1
  <2>2. /\ Without(down, i) \in Seq(DownMessage) /\ Len(Without(down, i)) = Len(down) - 1
        /\ \A j \in 1 .. Len(Without(down, i)) : \E k \in 1 .. Len(down) : Without(down, i)[j] = down[k]
    BY <1>2, <2>1, WithoutOne
  <2>3. down' = Without(down, i) BY <1>1
  <2>4. QED BY <2>2, <2>3
<1>4. auth' \in BOOLEAN /\ (auth' => auth \/ down[i].type = "SUCC_AUTH")
  BY <1>1 DEF handleAnswer, IInv, TypeOK
<1>5. TypeOK'
  <2>1. Len(down') <= MaxNet BY <1>2, <1>3 DEF IInv, TypeOK
  <2>2. QED BY <1>1, <1>4, <2>1 DEF IInv, TypeOK
<1>6. NetOK' BY <1>1, <1>3 DEF IInv, NetOK
<1>7. GrantInv' BY <1>1, <1>3, <1>4 DEF IInv, GrantInv
<1>8. AskedInv' BY <1>1 DEF IInv, AskedInv, Asked
<1>9. QED BY <1>5, <1>6, <1>7, <1>8 DEF IInv

\* A new socket starts from nothing but a request.
LEMMA ConnectInv ==
    ASSUME IInv, ConnectRelaySvr
    PROVE  IInv'
<1>1. /\ useTcp' \in BOOLEAN /\ auth' = FALSE /\ open' = TRUE /\ up' = AuthData /\ down' = << >>
      /\ authDue' \in BOOLEAN /\ beatDue' \in BOOLEAN
      /\ session' = NoTarget /\ accepted' = {} /\ former' = {} /\ target' = target
  BY DEF ConnectRelaySvr
<1>2. /\ AuthData \in Seq(UpMessage) /\ Len(AuthData) <= 1 /\ Len(AuthData) \in Nat
      /\ \A j \in 1 .. Len(AuthData) : AuthData[j].target \in {target} \ {NoTarget}
  BY AuthDataOK DEF IInv, TypeOK
<1>3. TypeOK'
  <2>1. Len(up') <= MaxNet /\ Len(down') <= MaxNet BY <1>1, <1>2, BoundAssumption, Singles
  <2>2. QED BY <1>1, <2>1 DEF IInv, TypeOK
<1>4. NetOK' BY <1>1, <1>2, Singles DEF NetOK
<1>5. GrantInv' BY <1>1, Singles DEF GrantInv
<1>6. AskedInv' BY <1>1, <1>2 DEF AskedInv, Asked
<1>7. QED BY <1>3, <1>4, <1>5, <1>6 DEF IInv

\* A request is the only message with a target the relay may accept.
LEMMA TargetOfMessage ==
    ASSUME NEW m \in UpMessage
    PROVE  m.target \in Target \cup {NoTarget}
<1>1. CASE \E t \in Target : m = Request(t) BY <1>1, Messages
<1>2. CASE m = Beat \/ m = Payload BY <1>2, Messages
<1>3. QED BY <1>1, <1>2 DEF UpMessage

\* The relay answers SUCC_AUTH only to a request that it accepts, or on a socket
\* for which it has a session.
LEMMA relayRecvInv ==
    ASSUME IInv, NEW i \in 1 .. MaxNet, relayRecv(i)
    PROVE  IInv'
<1> DEFINE a == IF useTcp THEN handlePduPack(up[i]) ELSE udpAnswers(up[i])
<1>1. /\ i \in 1 .. Len(up) /\ open /\ up' = Without(up, i) /\ down' = down \o a
      /\ Len(down) + 2 <= MaxNet
      /\ IF up[i].target \in Good
         THEN session' = up[i].target /\ accepted' = accepted \cup {up[i].target}
         ELSE UNCHANGED <<session, accepted>>
      /\ UNCHANGED <<useTcp, target, auth, authDue, beatDue, open, former>>
  BY DEF relayRecv, Room, proxyVars, histVars
<1>2. /\ up \in Seq(UpMessage) /\ down \in Seq(DownMessage)
      /\ Len(up) \in Nat /\ Len(down) \in Nat /\ MaxNet \in Nat
  BY Lengths DEF IInv, NetOK
<1>3. up[i] \in UpMessage BY <1>1, <1>2, ElementOfSeq
<1>4. /\ a \in Seq(DownMessage) /\ Len(a) <= 2 /\ Len(a) \in Nat
      /\ \A j \in 1 .. Len(a) :
            a[j].type = "SUCC_AUTH" => up[i].target \in Good \/ (~useTcp /\ session # NoTarget)
  <2>1. CASE useTcp
    <3>1. a = handlePduPack(up[i]) BY <2>1
    <3>2. /\ handlePduPack(up[i]) \in Seq(DownMessage) /\ Len(handlePduPack(up[i])) <= 1
          /\ Len(handlePduPack(up[i])) \in Nat
          /\ \A j \in 1 .. Len(handlePduPack(up[i])) :
                handlePduPack(up[i])[j].type = "SUCC_AUTH" => up[i].target \in Good
      BY <1>3, PackOK, LenProperties
    <3> HIDE DEF a
    <3>3. QED BY <3>1, <3>2
  <2>2. CASE ~useTcp
    <3>1. a = udpAnswers(up[i]) BY <2>2
    <3> HIDE DEF a
    <3>2. QED BY <2>2, <3>1, <1>3, AnswersOK, LenProperties
  <2>3. QED BY <2>1, <2>2
<1> HIDE DEF a
<1>5. /\ up' \in Seq(UpMessage) /\ Len(up') = Len(up) - 1
      /\ \A j \in 1 .. Len(up') : \E k \in 1 .. Len(up) : up'[j] = up[k]
  <2> DEFINE w == Without(up, i)
  <2>1. /\ w \in Seq(UpMessage) /\ Len(w) = Len(up) - 1
        /\ \A j \in 1 .. Len(w) : \E k \in 1 .. Len(up) : w[j] = up[k]
    <3>1. i \in 1 .. Len(up) BY <1>1
    <3>2. QED BY <1>2, <3>1, WithoutOne
  <2>2. up' = w BY <1>1
  <2> HIDE DEF w
  <2>3. QED BY <2>1, <2>2
<1>6. /\ down' \in Seq(DownMessage) /\ Len(down') = Len(down) + Len(a)
      /\ \A j \in 1 .. Len(down') : \/ \E k \in 1 .. Len(down) : down'[j] = down[k]
                                   \/ \E k \in 1 .. Len(a) : down'[j] = a[k]
  BY <1>1, <1>2, <1>4, Behind
<1>7. /\ accepted \subseteq accepted' /\ accepted' \subseteq Good
      /\ up[i].target \in Good => accepted' # {}
      /\ session' \in Good \cup {NoTarget}
      /\ session' # NoTarget => accepted' # {} \/ session # NoTarget
  BY <1>1 DEF IInv, TypeOK
<1>8. TypeOK'
  <2>1. Len(up') <= MaxNet BY <1>2, <1>5 DEF IInv, TypeOK
  <2>2. Len(down') <= MaxNet BY <1>1, <1>2, <1>4, <1>6
  <2>3. QED BY <1>1, <1>7, <2>1, <2>2 DEF IInv, TypeOK
<1>9. NetOK' BY <1>5, <1>6 DEF NetOK
<1>10. GrantInv'
  <2>1. (auth => accepted # {}) /\ (~useTcp /\ session # NoTarget => accepted # {})
        /\ \A j \in 1 .. Len(down) : down[j].type = "SUCC_AUTH" => accepted # {}
    BY DEF IInv, GrantInv
  <2>2. (auth' => accepted' # {}) /\ (~useTcp' /\ session' # NoTarget => accepted' # {})
    BY <1>1, <1>7, <2>1
  <2>3. ASSUME NEW j \in 1 .. Len(down'), down'[j].type = "SUCC_AUTH" PROVE accepted' # {}
    BY <1>4, <1>6, <1>7, <2>1, <2>3
  <2>4. QED BY <2>2, <2>3 DEF GrantInv
<1>11. AskedInv'
  <2>1. /\ accepted \subseteq Asked /\ Asked' = Asked
        /\ \A j \in 1 .. Len(up) : up[j].target \in Asked \cup {NoTarget}
    BY <1>1 DEF IInv, AskedInv, Asked
  <2>2. accepted' \subseteq Asked
    <3>1. up[i].target \in Good => up[i].target \in Asked BY <1>1, <2>1, TargetAssumption
    <3>2. QED BY <1>1, <2>1, <3>1
  <2>3. QED BY <1>5, <2>1, <2>2 DEF AskedInv
<1>12. QED BY <1>8, <1>9, <1>10, <1>11 DEF IInv

\* A relay that forgets the caller takes its session away and grants nothing.
LEMMA relayForgetsInv ==
    ASSUME IInv, relayForgets
    PROVE  IInv'
<1>1. /\ session' = NoTarget
      /\ UNCHANGED <<useTcp, target, auth, authDue, beatDue, accepted, former>>
      /\ IF useTcp THEN open' = FALSE /\ up' = << >> /\ down' = << >> ELSE UNCHANGED <<open, up, down>>
  BY DEF relayForgets
<1>2. CASE useTcp
  <2>0. Len(up') <= MaxNet /\ Len(down') <= MaxNet BY <1>1, <1>2, BoundAssumption, Singles
  <2>1. TypeOK' BY <1>1, <1>2, <2>0 DEF IInv, TypeOK
  <2>2. NetOK' BY <1>1, <1>2, Singles DEF NetOK
  <2>3. GrantInv' BY <1>1, <1>2, Singles DEF IInv, GrantInv
  <2>4. AskedInv' BY <1>1, <1>2, Singles DEF IInv, AskedInv, Asked
  <2>5. QED BY <2>1, <2>2, <2>3, <2>4 DEF IInv
<1>3. CASE ~useTcp
  <2>1. TypeOK' BY <1>1, <1>3 DEF IInv, TypeOK
  <2>2. NetOK' BY <1>1, <1>3 DEF IInv, NetOK
  <2>3. GrantInv' BY <1>1, <1>3 DEF IInv, GrantInv
  <2>4. AskedInv' BY <1>1, <1>3 DEF IInv, AskedInv, Asked
  <2>5. QED BY <2>1, <2>2, <2>3, <2>4 DEF IInv
<1>4. QED BY <1>2, <1>3

\* Losses and repetitions put nothing new under way.
LEMMA netFaultInv ==
    ASSUME IInv, netFault
    PROVE  IInv'
<1>1. UNCHANGED <<useTcp, target, auth, authDue, beatDue, open, session, accepted, former>> /\ ~useTcp
  BY DEF netFault, proxyVars
<1>2. /\ up \in Seq(UpMessage) /\ down \in Seq(DownMessage)
      /\ Len(up) \in Nat /\ Len(down) \in Nat /\ MaxNet \in Nat
      /\ Len(up) <= MaxNet /\ Len(down) <= MaxNet
  BY Lengths DEF IInv, NetOK, TypeOK
<1>3. /\ up' \in Seq(UpMessage) /\ Len(up') <= MaxNet
      /\ \A j \in 1 .. Len(up') : \E k \in 1 .. Len(up) : up'[j] = up[k]
      /\ down' \in Seq(DownMessage) /\ Len(down') <= MaxNet
      /\ \A j \in 1 .. Len(down') : \E k \in 1 .. Len(down) : down'[j] = down[k]
  <2>1. CASE \E i \in 1 .. Len(up) : loseUp(i)
    <3>1. PICK i \in 1 .. Len(up) : up' = Without(up, i) /\ down' = down BY <2>1 DEF loseUp
    <3> DEFINE u == Without(up, i)
    <3>2. /\ u \in Seq(UpMessage) /\ Len(u) = Len(up) - 1
          /\ \A j \in 1 .. Len(u) : \E k \in 1 .. Len(up) : u[j] = up[k]
      <4>1. up \in Seq(UpMessage) BY <1>2
      <4>2. QED BY <4>1, WithoutOne
    <3>3. up' = u BY <3>1
    <3>4. /\ down' \in Seq(DownMessage) /\ Len(down') <= MaxNet
          /\ \A j \in 1 .. Len(down') : \E k \in 1 .. Len(down) : down'[j] = down[k]
      BY <1>2, <3>1
    <3> HIDE DEF u
    <3>5. Len(u) <= MaxNet BY <1>2, <3>2
    <3>6. QED BY <3>2, <3>3, <3>4, <3>5
  <2>2. CASE \E i \in 1 .. Len(up) : repeatUp(i)
    <3>1. PICK i \in 1 .. Len(up) : up' = Append(up, up[i]) /\ down' = down /\ Len(up) + 1 <= MaxNet
      BY <2>2 DEF repeatUp, Room
    <3> DEFINE m == up[i]
    <3>2. m \in UpMessage /\ up \in Seq(UpMessage) BY <1>2, ElementOfSeq
    <3>3. up' = Append(up, m) BY <3>1
    <3>4. m = up[i] OBVIOUS
    <3> HIDE DEF m
    <3> DEFINE u == Append(up, m)
    <3>5. /\ u \in Seq(UpMessage) /\ Len(u) = Len(up) + 1
          /\ \A j \in 1 .. Len(u) : (\E k \in 1 .. Len(up) : u[j] = up[k]) \/ u[j] = m
      BY <3>2, Added
    <3>6. up' = u BY <3>3
    <3> HIDE DEF u
    <3>7. \A j \in 1 .. Len(u) : \E k \in 1 .. Len(up) : u[j] = up[k] BY <3>4, <3>5
    <3>8. /\ down' \in Seq(DownMessage) /\ Len(down') <= MaxNet
          /\ \A j \in 1 .. Len(down') : \E k \in 1 .. Len(down) : down'[j] = down[k]
      BY <1>2, <3>1
    <3>9. Len(u) <= MaxNet BY <3>1, <3>5
    <3>10. QED BY <3>5, <3>6, <3>7, <3>8, <3>9
  <2>3. CASE \E i \in 1 .. Len(down) : loseDown(i)
    <3>1. PICK i \in 1 .. Len(down) : down' = Without(down, i) /\ up' = up BY <2>3 DEF loseDown
    <3> DEFINE d == Without(down, i)
    <3>2. /\ d \in Seq(DownMessage) /\ Len(d) = Len(down) - 1
          /\ \A j \in 1 .. Len(d) : \E k \in 1 .. Len(down) : d[j] = down[k]
      <4>1. down \in Seq(DownMessage) BY <1>2
      <4>2. QED BY <4>1, WithoutOne
    <3>3. down' = d BY <3>1
    <3>4. /\ up' \in Seq(UpMessage) /\ Len(up') <= MaxNet
          /\ \A j \in 1 .. Len(up') : \E k \in 1 .. Len(up) : up'[j] = up[k]
      BY <1>2, <3>1
    <3> HIDE DEF d
    <3>5. Len(d) <= MaxNet BY <1>2, <3>2
    <3>6. QED BY <3>2, <3>3, <3>4, <3>5
  <2>4. CASE \E i \in 1 .. Len(down) : repeatDown(i)
    <3>1. PICK i \in 1 .. Len(down) : down' = Append(down, down[i]) /\ up' = up /\ Len(down) + 1 <= MaxNet
      BY <2>4 DEF repeatDown, Room
    <3> DEFINE m == down[i]
    <3>2. m \in DownMessage /\ down \in Seq(DownMessage) BY <1>2, ElementOfSeq
    <3>3. down' = Append(down, m) BY <3>1
    <3>4. m = down[i] OBVIOUS
    <3> HIDE DEF m
    <3> DEFINE d == Append(down, m)
    <3>5. /\ d \in Seq(DownMessage) /\ Len(d) = Len(down) + 1
          /\ \A j \in 1 .. Len(d) : (\E k \in 1 .. Len(down) : d[j] = down[k]) \/ d[j] = m
      BY <3>2, Added
    <3>6. down' = d BY <3>3
    <3> HIDE DEF d
    <3>7. \A j \in 1 .. Len(d) : \E k \in 1 .. Len(down) : d[j] = down[k] BY <3>4, <3>5
    <3>8. /\ up' \in Seq(UpMessage) /\ Len(up') <= MaxNet
          /\ \A j \in 1 .. Len(up') : \E k \in 1 .. Len(up) : up'[j] = up[k]
      BY <1>2, <3>1
    <3>9. Len(d) <= MaxNet BY <3>1, <3>5
    <3>10. QED BY <3>5, <3>6, <3>7, <3>8, <3>9
  <2>5. QED BY <2>1, <2>2, <2>3, <2>4 DEF netFault
<1>4. TypeOK' BY <1>1, <1>3 DEF IInv, TypeOK
<1>5. NetOK' BY <1>3 DEF NetOK
<1>6. GrantInv' BY <1>1, <1>3 DEF IInv, GrantInv
<1>7. AskedInv' BY <1>1, <1>3 DEF IInv, AskedInv, Asked
<1>8. QED BY <1>4, <1>5, <1>6, <1>7 DEF IInv

\* Every step of the proxy, of the relay and of the network keeps the invariant.
LEMMA StepInv == IInv /\ [Next]_vars => IInv'
<1> SUFFICES ASSUME IInv, [Next]_vars PROVE IInv'
  OBVIOUS
<1>1. CASE \E t \in Target : SetAuthInfo(t) BY <1>1, SetAuthInfoInv
<1>2. CASE Elapse BY <1>2, ElapseInv
<1>3. CASE OnTimer \/ SendRawData BY <1>3, SendInv
<1>4. CASE Reopen \/ Reconnect BY <1>4, ConnectInv DEF Reopen, Reconnect
<1>5. CASE \E i \in 1 .. MaxNet : OnHandlePdu(i) BY <1>5, OnHandlePduInv
<1>6. CASE \E i \in 1 .. MaxNet : relayRecv(i) BY <1>6, relayRecvInv
<1>7. CASE relayForgets BY <1>7, relayForgetsInv
<1>8. CASE netFault BY <1>8, netFaultInv
<1>9. CASE UNCHANGED vars
  <2>1. UNCHANGED <<useTcp, target, auth, authDue, beatDue, open, up, down, session, accepted, former>>
    BY <1>9 DEF vars, proxyVars, histVars
  <2>2. TypeOK' BY <2>1 DEF IInv, TypeOK
  <2>3. NetOK' BY <2>1 DEF IInv, NetOK
  <2>4. GrantInv' BY <2>1 DEF IInv, GrantInv
  <2>5. AskedInv' BY <2>1 DEF IInv, AskedInv, Asked
  <2>6. QED BY <2>2, <2>3, <2>4, <2>5 DEF IInv
<1>10. QED BY <1>1, <1>2, <1>3, <1>4, <1>5, <1>6, <1>7, <1>8, <1>9 DEF Next

\* The inductive invariant of the proxy, the relay and the messages between them.
THEOREM GrantInvariance == Spec => []IInv
  BY InitInv, StepInv, PTL DEF Spec

\* RemoteTransport and the relay keep their types for any number of targets,
\* messages and faults: sessions only with accepted targets, and nothing under
\* way on a TCP connection that is closed.
THEOREM AuthTypes == Spec => []TypeOK
<1>1. IInv => TypeOK BY DEF IInv
<1>2. QED BY <1>1, GrantInvariance, PTL

\* auth_successed_ is set only on a socket on which the relay has accepted the
\* target, or a target that was set on the same socket before it, whatever is
\* lost, repeated, reordered or forgotten; over TCP a target that was set before
\* the last quiet change does not count.
THEOREM GrantsAreAccepted == Spec => []GrantedOnlyIfAccepted
<1>1. IInv => GrantedOnlyIfAccepted
  BY DEF IInv, GrantInv, AskedInv, Asked, GrantedOnlyIfAccepted
<1>2. QED BY <1>1, GrantInvariance, PTL
=============================================================================
