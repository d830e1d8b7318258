-------------------------- MODULE LocalProxyProofs --------------------------
(***************************************************************************)
(* Proofs about the parts of the local proxy that the network loop shares  *)
(* with the user's thread, each for all values of its constants:           *)
(*   - RtpChannels: no channel that waits to be deleted is handed out or   *)
(*     waits twice, and none is deleted before Delay has passed since it   *)
(*     was closed, although the clock of RelayExpireObj wraps around;      *)
(*   - SipRelay: a user with an outdated registration is told so, or       *)
(*     IsRestarted has wiped the flag out;                                 *)
(*   - NetTest: what can be picked for SIP is usable, GetNewSvr fails over *)
(*     to a server that has answered since the 32-bit clock last ran over, *)
(*     and StopTest ends a test early only if it lost a race.              *)
(***************************************************************************)
EXTENDS RtpChannels, SipRelay, NetTest,
        SequenceTheorems, FiniteSetTheorems, WellFoundedInduction, TLAPS

(* RtpChannels.                                                             *)

\* A node of the list: a channel and the reading of the clock when it was put there.
Node == [obj : Nat, at : 0 .. ClockSize - 1]

\* The time since a reading of the clock, as RelayExpireObj computes it.
Age(at) == (now - at) % ClockSize

\* Types, of the history too.
TypeInv ==
    /\ TypeOK
    /\ ticks \in Nat /\ closedAt \in [1 .. MaxChan -> Nat]

\* A channel that waits has been detached, and the clock never says that it has
\* waited for longer than it has.
DelayInv ==
    /\ delayed \in Seq(Node)
    /\ \A i \in DOMAIN delayed :
         /\ delayed[i].obj \in detached
         /\ Age(delayed[i].at) <= ticks - closedAt[delayed[i].obj]

IInv == TypeInv /\ DelayInv /\ BindsLive /\ GracePeriod

-----------------------------------------------------------------------------
(* What the operators compute.                                              *)

\* The constants are numbers.
LEMMA Numbers ==
    MaxChan \in Nat /\ MaxTicks \in Nat /\ Period \in Nat /\ Delay \in Nat /\ ClockSize \in Nat
    /\ Delay > 0 /\ ClockSize > 0
  BY BoundAssumption

\* A set of numbers has a least one.
LEMMA LeastNat ==
    ASSUME NEW T, T \subseteq Nat, T # {}
    PROVE  \E x \in T : \A y \in T : x <= y
<1> DEFINE R == OpToRel(<, Nat)
<1>1. \E x \in T : \A y \in T : ~ (<<y, x>> \in R)
  <2>1. IsWellFoundedOn(R, Nat) BY NatLessThanWellFounded
  <2> HIDE DEF R
  <2>2. QED BY <2>1, WFMin
<1>2. PICK x \in T : \A y \in T : ~ (<<y, x>> \in R) BY <1>1
<1>3. ASSUME NEW y \in T PROVE x <= y
  <2>1. ~ (<<y, x>> \in R) BY <1>2
  <2>2. <<y, x>> \in R <=> y < x BY DEF OpToRel
  <2> HIDE DEF R
  <2>3. y \in Nat /\ x \in Nat OBVIOUS
  <2>4. QED BY <2>1, <2>2, <2>3
<1>4. QED BY <1>3

\* Between two readings of a clock of C units: the difference, or C more than it.
LEMMA Difference ==
    ASSUME NEW C \in Nat, C > 0, NEW x \in 0 .. C - 1, NEW y \in 0 .. C - 1
    PROVE  (x - y) % C = IF y <= x THEN x - y ELSE x - y + C
<1>1. (x - y) % C \in 0 .. C - 1 OBVIOUS
<1>2. x - y = C * ((x - y) \div C) + ((x - y) % C) OBVIOUS
<1> DEFINE d == (x - y) \div C
           r == (x - y) % C
<1>3. d \in Int /\ r \in 0 .. C - 1 /\ x - y = C * d + r BY <1>1, <1>2
<1> HIDE DEF d, r
<1>4. d = 0 \/ d = -1
  <2>1. CASE d >= 1
    <3>1. C * d >= C BY <1>3, <2>1
    <3>2. QED BY <1>3, <3>1
  <2>2. CASE d <= -2
    <3>1. C * d <= C * (-2) BY <1>3, <2>2
    <3>2. QED BY <1>3, <3>1
  <2>3. QED BY <1>3, <2>1, <2>2
<1>5. CASE d = 0
  <2>1. x - y = r BY <1>3, <1>5
  <2>2. QED BY <1>3, <2>1 DEF r
<1>6. CASE d = -1
  <2>1. x - y = r - C BY <1>3, <1>6
  <2>2. QED BY <1>3, <2>1 DEF r
<1>7. QED BY <1>4, <1>5, <1>6

\* One unit later the clock shows one more, or starts again at 0.
LEMMA ClockStep ==
    ASSUME NEW C \in Nat, C > 0, NEW x \in 0 .. C - 1
    PROVE  (x + 1) % C = IF x = C - 1 THEN 0 ELSE x + 1
<1>1. CASE x = C - 1
  <2>1. C % C = 0
    <3>1. C % C \in 0 .. C - 1 /\ C = C * (C \div C) + (C % C) /\ C \div C \in Int OBVIOUS
    <3> DEFINE d == C \div C
               r == C % C
    <3>2. d \in Int /\ r \in 0 .. C - 1 /\ C = C * d + r BY <3>1
    <3> HIDE DEF d, r
    <3>3. CASE d >= 2
      <4>1. C * d >= C * 2 BY <3>2, <3>3
      <4>2. QED BY <3>2, <4>1
    <3>4. CASE d <= 0
      <4>1. C * d <= 0 BY <3>2, <3>4
      <4>2. QED BY <3>2, <4>1
    <3>5. CASE d = 1 BY <3>2, <3>5 DEF r
    <3>6. QED BY <3>2, <3>3, <3>4, <3>5
  <2>2. QED BY <1>1, <2>1
<1>2. CASE x # C - 1
  <2>1. x + 1 \in 0 .. C - 1 /\ 0 \in 0 .. C - 1 BY <1>2
  <2>2. (x + 1 - 0) % C = IF 0 <= x + 1 THEN x + 1 - 0 ELSE x + 1 - 0 + C BY <2>1, Difference
  <2>3. x + 1 - 0 = x + 1 OBVIOUS
  <2>4. QED BY <1>2, <2>2, <2>3
<1>3. QED BY <1>1, <1>2

\* No reading ages by more than one unit when the clock moves by one.
LEMMA Ageing ==
    ASSUME NEW C \in Nat, C > 0, NEW x \in 0 .. C - 1, NEW y \in 0 .. C - 1
    PROVE  (((x + 1) % C) - y) % C <= ((x - y) % C) + 1
<1> DEFINE z == (x + 1) % C
<1>1. z = IF x = C - 1 THEN 0 ELSE x + 1 BY ClockStep
<1>2. z \in 0 .. C - 1 BY <1>1
<1> HIDE DEF z
<1>3. (z - y) % C = IF y <= z THEN z - y ELSE z - y + C BY <1>2, Difference
<1>4. (x - y) % C = IF y <= x THEN x - y ELSE x - y + C BY Difference
<1>5. (z - y) % C <= ((x - y) % C) + 1
  <2> DEFINE p == (z - y) % C
             q == (x - y) % C
  <2>1. p = (IF y <= z THEN z - y ELSE z - y + C) /\ q = (IF y <= x THEN x - y ELSE x - y + C) BY <1>3, <1>4
  <2> HIDE DEF p, q
  <2>2. p <= q + 1 BY <1>1, <2>1
  <2>3. QED BY <2>2 DEF p, q
<1>6. QED BY <1>5 DEF z

\* SetToSeq lists a finite set, each element once.
LEMMA Listing ==
    ASSUME NEW S, IsFiniteSet(S)
    PROVE  /\ SetToSeq(S) \in Seq(S)
           /\ \A i, j \in 1 .. Len(SetToSeq(S)) : SetToSeq(S)[i] = SetToSeq(S)[j] => i = j
           /\ \A x \in S : \E i \in 1 .. Len(SetToSeq(S)) : SetToSeq(S)[i] = x
<1> DEFINE n == Cardinality(S)
           f == SetToSeq(S)
<1>1. n \in Nat /\ ExistsBijection(1 .. n, S) BY FS_CardinalityType
<1>2. \E g \in [1 .. n -> S] : IsInjective(g)
  BY <1>1 DEF ExistsBijection, Bijection, Injection
<1>3. f \in [1 .. n -> S] /\ IsInjective(f) BY <1>2 DEF SetToSeq
<1> HIDE DEF f, n
<1>4. f \in Seq(S) /\ Len(f) = n BY <1>1, <1>3
<1> DEFINE T == {f[i] : i \in 1 .. n}
<1>5. T = S
  <2>1. f \in Bijection(1 .. n, T) BY <1>3 DEF Bijection, Injection, Surjection, IsInjective
  <2>2. T \in SUBSET S BY <1>3
  <2> HIDE DEF T
  <2>3. Cardinality(T) = n
    <3>1. ExistsBijection(1 .. n, T) BY <2>1 DEF ExistsBijection
    <3>2. QED BY <1>1, <3>1, FS_CountingElements
  <2>4. Cardinality(S) = Cardinality(T) BY <2>3 DEF n
  <2>5. QED BY <2>2, <2>4, FS_Subset
<1>6. \A x \in S : \E i \in 1 .. n : f[i] = x BY <1>5
<1>7. \A i, j \in 1 .. n : f[i] = f[j] => i = j BY <1>3 DEF IsInjective
<1>8. QED BY <1>4, <1>6, <1>7 DEF f

\* What RelayExpireObj takes away has expired, and the rest stays as it is.
LEMMA Expiry ==
    ASSUME NEW S, NEW lst \in Seq(S)
    PROVE  \E n \in 0 .. Len(lst) :
             /\ \A i \in 1 .. n : expired(lst[i])
             /\ RelayExpireObj(lst) \in Seq(S)
             /\ Len(RelayExpireObj(lst)) = Len(lst) - n
             /\ \A i \in 1 .. Len(lst) - n : RelayExpireObj(lst)[i] = lst[n + i]
<1>0. Len(lst) \in Nat OBVIOUS
<1> DEFINE T == {k \in 0 .. Len(lst) : k < Len(lst) => ~ expired(lst[k + 1])}
           Stop(k) == (\A i \in 1 .. k : expired(lst[i])) /\ (k < Len(lst) => ~ expired(lst[k + 1]))
<1>1. \E k \in 0 .. Len(lst) : Stop(k)
  <2>1. Len(lst) \in T BY <1>0
  <2>2. T \subseteq Nat BY <1>0
  <2>3. PICK k \in T : \A y \in T : k <= y
    <3> HIDE DEF T
    <3>1. QED BY <2>1, <2>2, LeastNat
  <2>4. ASSUME NEW i \in 1 .. k PROVE expired(lst[i])
    <3>1. i - 1 \in 0 .. Len(lst) /\ i - 1 < k /\ (i - 1) + 1 = i BY <1>0, <2>3
    <3>2. ~ (i - 1 \in T)
      <4> HIDE DEF T
      <4>1. k \in Nat BY <2>2, <2>3
      <4>2. QED BY <2>3, <3>1, <4>1
    <3>3. expired(lst[(i - 1) + 1]) BY <3>1, <3>2
    <3>4. QED BY <3>1, <3>3
  <2>5. QED BY <2>3, <2>4
<1> DEFINE n == CHOOSE k \in 0 .. Len(lst) : Stop(k)
<1>2. n \in 0 .. Len(lst) /\ Stop(n)
  <2> HIDE DEF Stop
  <2>1. QED BY <1>1
<1>3. RelayExpireObj(lst) = SubSeq(lst, n + 1, Len(lst)) BY DEF RelayExpireObj
<1> HIDE DEF n
<1>4. n + 1 \in Int /\ Len(lst) \in Int /\ \A i \in n + 1 .. Len(lst) : lst[i] \in S BY <1>0, <1>2
<1>5. /\ SubSeq(lst, n + 1, Len(lst)) \in Seq(S)
      /\ Len(SubSeq(lst, n + 1, Len(lst))) = IF n + 1 <= Len(lst) THEN Len(lst) - (n + 1) + 1 ELSE 0
      /\ \A i \in 1 .. Len(lst) - (n + 1) + 1 : SubSeq(lst, n + 1, Len(lst))[i] = lst[(n + 1) + i - 1]
  BY <1>4, SubSeqProperties
<1> DEFINE q == SubSeq(lst, n + 1, Len(lst))
<1>6. q \in Seq(S) /\ Len(q) = Len(lst) - n /\ \A i \in 1 .. Len(lst) - n : q[i] = lst[n + i]
  <2>1. Len(lst) - (n + 1) + 1 = Len(lst) - n BY <1>0, <1>2
  <2>2. (IF n + 1 <= Len(lst) THEN Len(lst) - (n + 1) + 1 ELSE 0) = Len(lst) - n BY <1>0, <1>2
  <2>3. \A i \in 1 .. Len(lst) - n : (n + 1) + i - 1 = n + i BY <1>0, <1>2
  <2>4. QED BY <1>5, <2>1, <2>2, <2>3
<1> HIDE DEF q
<1>7. QED BY <1>2, <1>3, <1>6 DEF q

\* The list after a call of OnTimer that closes the channels gone.
Scanned(gone) == RelayExpireObj(delayed) \o SetToSeq({[obj |-> c, at |-> now] : c \in gone})

\* What a call of OnTimer leaves in the list: nodes that were there, the ones that
\* are gone have expired, and a node for each channel closed, with the time it is.
LEMMA ScanList ==
    ASSUME IInv, NEW gone, gone \subseteq Chan, gone \cap InDelay = {},
           NEW D, D = Scanned(gone)
    PROVE  /\ D \in Seq(Node)
           /\ \A i \in 1 .. Len(D) : \/ \E j \in 1 .. Len(delayed) : D[i] = delayed[j]
                                     \/ D[i].obj \in gone /\ D[i].at = now
           /\ \A i, j \in 1 .. Len(D) : D[i].obj = D[j].obj => i = j
           /\ \A c \in gone : \E i \in 1 .. Len(D) : D[i].obj = c
           /\ \A j \in 1 .. Len(delayed) : expired(delayed[j]) \/ \E i \in 1 .. Len(D) : D[i] = delayed[j]
<1> DEFINE N(c) == [obj |-> c, at |-> now]
           S == {N(c) : c \in gone}
           q == RelayExpireObj(delayed)
           f == SetToSeq(S)
<1>0. made \in Nat /\ now \in 0 .. ClockSize - 1 BY Numbers DEF IInv, TypeInv, TypeOK
<1>1. delayed \in Seq(Node) /\ Len(delayed) \in Nat /\ DOMAIN delayed = 1 .. Len(delayed)
  BY DEF IInv, DelayInv
<1>2. IsFiniteSet(S)
  <2>1. IsFiniteSet(gone)
    <3>1. IsFiniteSet(1 .. made) BY <1>0, FS_Interval
    <3>2. gone \in SUBSET (1 .. made) BY DEF Chan
    <3>3. QED BY <3>1, <3>2, FS_Subset
  <2> DEFINE g == [c \in gone |-> N(c)]
  <2>2. g \in Surjection(gone, S) BY DEF Surjection
  <2> HIDE DEF g, S
  <2>3. QED BY <2>1, <2>2, FS_Surjection
<1>3. S \subseteq Node BY <1>0 DEF Node, Chan
<1>4. \A x \in S : x.obj \in gone /\ x.at = now /\ x = N(x.obj) OBVIOUS
<1>5. \A c \in gone : N(c) \in S /\ N(c).obj = c OBVIOUS
<1> HIDE DEF S, N
<1>6. /\ f \in Seq(S)
      /\ \A i, j \in 1 .. Len(f) : f[i] = f[j] => i = j
      /\ \A x \in S : \E i \in 1 .. Len(f) : f[i] = x
  BY <1>2, Listing
<1> HIDE DEF f
<1>7. Len(f) \in Nat /\ \A i \in 1 .. Len(f) : f[i] \in S BY <1>6
<1>8. f \in Seq(Node) BY <1>3, <1>6, <1>7
<1>9. PICK n \in 0 .. Len(delayed) :
        /\ \A i \in 1 .. n : expired(delayed[i])
        /\ q \in Seq(Node)
        /\ Len(q) = Len(delayed) - n
        /\ \A i \in 1 .. Len(delayed) - n : q[i] = delayed[n + i]
  BY <1>1, Expiry
<1>10. D = q \o f BY DEF Scanned, q, f, S, N
<1> HIDE DEF q
<1>11. /\ D \in Seq(Node) /\ Len(D) = Len(q) + Len(f)
       /\ \A i \in 1 .. Len(q) + Len(f) : D[i] = IF i <= Len(q) THEN q[i] ELSE f[i - Len(q)]
  <2>1. q \in Seq(Node) /\ f \in Seq(Node) BY <1>8, <1>9
  <2>2. /\ q \o f \in Seq(Node)
        /\ Len(q \o f) = Len(q) + Len(f)
        /\ \A i \in 1 .. Len(q) + Len(f) : (q \o f)[i] = IF i <= Len(q) THEN q[i] ELSE f[i - Len(q)]
    BY <2>1, ConcatProperties
  <2>3. QED BY <1>10, <2>2
<1>12. Len(q) \in Nat BY <1>1, <1>9
<1>13. \A i \in 1 .. Len(q) : D[i] = delayed[n + i] /\ n + i \in 1 .. Len(delayed) /\ i \in 1 .. Len(D)
  BY <1>1, <1>7, <1>9, <1>11, <1>12
<1>14. \A i \in 1 .. Len(f) : D[Len(q) + i] = f[i] /\ Len(q) + i \in 1 .. Len(D)
  <2> SUFFICES ASSUME NEW i \in 1 .. Len(f) PROVE D[Len(q) + i] = f[i] /\ Len(q) + i \in 1 .. Len(D)
    OBVIOUS
  <2>1. Len(q) + i \in 1 .. Len(q) + Len(f) /\ ~ (Len(q) + i <= Len(q)) /\ Len(q) + i - Len(q) = i
    BY <1>7, <1>12
  <2> DEFINE k == Len(q) + i
  <2>2. k \in 1 .. Len(q) + Len(f) /\ ~ (k <= Len(q)) /\ k - Len(q) = i BY <2>1
  <2> HIDE DEF k
  <2>3. D[k] = f[k - Len(q)] /\ k \in 1 .. Len(D) BY <1>11, <2>2
  <2>4. QED BY <2>2, <2>3 DEF k
<1>15. \A i \in 1 .. Len(D) : i \in 1 .. Len(q) \/ \E k \in 1 .. Len(f) : i = Len(q) + k
  <2> SUFFICES ASSUME NEW i \in 1 .. Len(D), ~ (i \in 1 .. Len(q)) PROVE \E k \in 1 .. Len(f) : i = Len(q) + k
    OBVIOUS
  <2>1. i - Len(q) \in 1 .. Len(f) /\ i = Len(q) + (i - Len(q)) BY <1>7, <1>11, <1>12
  <2>2. QED BY <2>1
<1>16. \A j \in 1 .. Len(delayed) : ~ (delayed[j].obj \in gone) BY <1>1 DEF InDelay
<1>17. ASSUME NEW i \in 1 .. Len(D), NEW j \in 1 .. Len(D), D[i].obj = D[j].obj PROVE i = j
  <2>1. CASE i \in 1 .. Len(q) /\ j \in 1 .. Len(q)
    <3>1. delayed[n + i].obj = delayed[n + j].obj BY <1>13, <1>17, <2>1
    <3>2. n + i = n + j BY <1>1, <1>13, <2>1, <3>1 DEF IInv, BindsLive
    <3>3. QED BY <1>1, <1>9, <2>1, <3>2
  <2>2. CASE ~ (i \in 1 .. Len(q)) /\ ~ (j \in 1 .. Len(q))
    <3>1. PICK k \in 1 .. Len(f) : i = Len(q) + k BY <1>15, <2>2
    <3>2. PICK l \in 1 .. Len(f) : j = Len(q) + l BY <1>15, <2>2
    <3>3. f[k].obj = f[l].obj BY <1>14, <1>17, <3>1, <3>2
    <3>4. f[k] = f[l] BY <1>4, <1>7, <3>3
    <3>5. k = l BY <1>6, <3>4
    <3>6. QED BY <3>1, <3>2, <3>5
  <2>3. CASE i \in 1 .. Len(q) /\ ~ (j \in 1 .. Len(q))
    <3>1. PICK l \in 1 .. Len(f) : j = Len(q) + l BY <1>15, <2>3
    <3>2. D[j].obj \in gone BY <1>4, <1>7, <1>14, <3>1
    <3>3. QED BY <1>13, <1>16, <1>17, <2>3, <3>2
  <2>4. CASE ~ (i \in 1 .. Len(q)) /\ j \in 1 .. Len(q)
    <3>1. PICK l \in 1 .. Len(f) : i = Len(q) + l BY <1>15, <2>4
    <3>2. D[i].obj \in gone BY <1>4, <1>7, <1>14, <3>1
    <3>3. QED BY <1>13, <1>16, <1>17, <2>4, <3>2
  <2>5. QED BY <2>1, <2>2, <2>3, <2>4
<1>18. ASSUME NEW i \in 1 .. Len(D)
       PROVE  (\E j \in 1 .. Len(delayed) : D[i] = delayed[j]) \/ (D[i].obj \in gone /\ D[i].at = now)
  <2>1. CASE i \in 1 .. Len(q) BY <1>13, <2>1
  <2>2. CASE ~ (i \in 1 .. Len(q))
    <3>1. PICK l \in 1 .. Len(f) : i = Len(q) + l BY <1>15, <2>2
    <3>2. QED BY <1>4, <1>7, <1>14, <3>1
  <2>3. QED BY <2>1, <2>2
<1>19. ASSUME NEW c \in gone PROVE \E i \in 1 .. Len(D) : D[i].obj = c
  <2>1. PICK k \in 1 .. Len(f) : f[k] = N(c) BY <1>5, <1>6
  <2>2. QED BY <1>5, <1>14, <2>1
<1>20. ASSUME NEW j \in 1 .. Len(delayed), ~ expired(delayed[j]) PROVE \E i \in 1 .. Len(D) : D[i] = delayed[j]
  <2>1. ~ (j \in 1 .. n) BY <1>9, <1>20
  <2>2. j - n \in 1 .. Len(q) /\ n + (j - n) = j BY <1>1, <1>9, <2>1
  <2>3. QED BY <1>13, <2>2
<1>21. QED BY <1>11, <1>17, <1>18, <1>19, <1>20

-----------------------------------------------------------------------------
(* The steps.                                                               *)

\* The channels made are within the bound.
LEMMA ChanBound ==
    ASSUME IInv
    PROVE  made \in Nat /\ Chan \subseteq 1 .. MaxChan /\ \A c \in 1 .. MaxChan : closedAt[c] \in Nat
  BY Numbers DEF IInv, TypeInv, TypeOK, Chan

\* A step that leaves the channels of the map, the list and the clock alone.
LEMMA UserStep ==
    ASSUME IInv, TypeOK', detached \subseteq detached', UNCHANGED <<map, made, delayed, now, ticks, closedAt>>
    PROVE  IInv'
<1>1. TypeInv' BY DEF IInv, TypeInv
<1>2. DelayInv' BY DEF IInv, DelayInv, Age
<1>3. Mapped' = Mapped /\ InDelay' = InDelay /\ Chan' = Chan BY DEF Mapped, InDelay, Chan
<1>4. BindsLive'
  <2>1. Mapped' \cap InDelay' = {} BY <1>3 DEF IInv, BindsLive
  <2>2. \A i, j \in DOMAIN delayed' : delayed'[i].obj = delayed'[j].obj => i = j BY DEF IInv, BindsLive
  <2>3. QED BY <2>1, <2>2 DEF BindsLive
<1>5. GracePeriod'
  <2>1. Deleted' = Deleted BY <1>3 DEF Deleted
  <2>2. QED BY <2>1 DEF IInv, GracePeriod
<1>6. QED BY <1>1, <1>2, <1>4, <1>5 DEF IInv

\* Initially there is no channel.
LEMMA InitInv == Init => IInv
<1> SUFFICES ASSUME Init PROVE IInv OBVIOUS
<1>1. TypeInv
  <2>1. map \in [Addr -> 0 .. made] /\ \A a \in Addr : map[a] = 0 BY DEF Init
  <2>2. made \in 0 .. MaxChan /\ now \in 0 .. ClockSize - 1 /\ schedTime \in 0 .. ClockSize - 1
    BY Numbers DEF Init
  <2>3. active \cup sink \cup detached \cup held \subseteq Chan BY DEF Init
  <2>4. server \in BOOLEAN /\ called \in BOOLEAN BY DEF Init
  <2>5. ticks \in Nat /\ closedAt \in [1 .. MaxChan -> Nat] BY DEF Init
  <2>6. TypeOK BY <2>1, <2>2, <2>3, <2>4 DEF TypeOK
  <2>7. QED BY <2>5, <2>6 DEF TypeInv
<1>2. Len(<< >>) = 0 /\ DOMAIN delayed = {} /\ delayed \in Seq(Node) BY DEF Init
<1>3. DelayInv BY <1>2 DEF DelayInv
<1>4. BindsLive BY <1>2 DEF BindsLive, InDelay
<1>5. Chan = {} BY DEF Init, Chan
<1>6. GracePeriod BY <1>5 DEF GracePeriod, Deleted
<1>7. QED BY <1>1, <1>3, <1>4, <1>6 DEF IInv

\* Tick: a channel that waits ages by one unit, and by no more on the clock.
LEMMA TickInv == IInv /\ Tick => IInv'
<1> SUFFICES ASSUME IInv, Tick PROVE IInv' OBVIOUS
<1>0. /\ ClockSize \in Nat /\ ClockSize > 0 /\ now \in 0 .. ClockSize - 1 /\ ticks \in Nat
      /\ now' = (now + 1) % ClockSize /\ ticks' = ticks + 1
      /\ UNCHANGED <<map, made, detached, delayed, closedAt>>
  BY Numbers DEF IInv, TypeInv, TypeOK, Tick, chanVars
<1>1. now' \in 0 .. ClockSize - 1 BY <1>0
<1>2. TypeInv'
  <2>1. ticks' \in Nat /\ closedAt' \in [1 .. MaxChan -> Nat] BY <1>0 DEF IInv, TypeInv
  <2>2. TypeOK' BY <1>1 DEF IInv, TypeInv, TypeOK, Tick, chanVars, Chan
  <2>3. QED BY <2>1, <2>2 DEF TypeInv
<1>3. DelayInv'
  <2>1. delayed' \in Seq(Node) BY <1>0 DEF IInv, DelayInv
  <2>2. ASSUME NEW i \in DOMAIN delayed
        PROVE  /\ delayed[i].obj \in detached
               /\ (now' - delayed[i].at) % ClockSize <= ticks' - closedAt[delayed[i].obj]
    <3> DEFINE c == delayed[i].obj
               y == delayed[i].at
    <3>1. c \in detached /\ y \in 0 .. ClockSize - 1 /\ (now - y) % ClockSize <= ticks - closedAt[c]
      <4>1. delayed[i] \in Node BY DEF IInv, DelayInv
      <4>2. QED BY <4>1 DEF IInv, DelayInv, Age, Node
    <3>2. closedAt[c] \in Nat
      <4>1. c \in 1 .. MaxChan BY <3>1, Numbers DEF IInv, TypeInv, TypeOK, Chan
      <4>2. QED BY <4>1 DEF IInv, TypeInv
    <3> HIDE DEF c, y
    <3>3. (((now + 1) % ClockSize) - y) % ClockSize <= ((now - y) % ClockSize) + 1 BY <1>0, <3>1, Ageing
    <3>4. (now' - y) % ClockSize <= ((now - y) % ClockSize) + 1 BY <1>0, <3>3
    <3>5. (now - y) % ClockSize \in Int /\ (now' - y) % ClockSize \in Int BY <1>0, <1>1, <3>1
    <3>6. (now' - y) % ClockSize <= ticks' - closedAt[c]
      <4> DEFINE u == (now - y) % ClockSize
                 v == (now' - y) % ClockSize
      <4>1. u \in Int /\ v \in Int /\ v <= u + 1 /\ u <= ticks - closedAt[c] BY <3>1, <3>4, <3>5
      <4> HIDE DEF u, v
      <4>2. v <= ticks' - closedAt[c] BY <1>0, <3>2, <4>1
      <4>3. QED BY <4>2 DEF v
    <3>7. QED BY <3>1, <3>6 DEF c, y
  <2>3. QED BY <1>0, <2>1, <2>2 DEF DelayInv, Age
<1>4. Mapped' = Mapped /\ InDelay' = InDelay /\ Chan' = Chan BY <1>0 DEF Mapped, InDelay, Chan
<1>5. BindsLive'
  <2>1. Mapped' \cap InDelay' = {} BY <1>4 DEF IInv, BindsLive
  <2>2. \A i, j \in DOMAIN delayed' : delayed'[i].obj = delayed'[j].obj => i = j BY <1>0 DEF IInv, BindsLive
  <2>3. QED BY <2>1, <2>2 DEF BindsLive
<1>6. GracePeriod'
  <2>1. Deleted' = Deleted /\ Deleted \subseteq 1 .. MaxChan
    <3>1. Deleted' = Deleted BY <1>4 DEF Deleted
    <3>2. Deleted \subseteq 1 .. MaxChan BY ChanBound DEF Deleted
    <3>3. QED BY <3>1, <3>2
  <2>2. ASSUME NEW c \in Deleted PROVE c \in detached' /\ ticks' >= closedAt'[c] + Delay
    <3>1. c \in detached /\ ticks >= closedAt[c] + Delay BY DEF IInv, GracePeriod
    <3>2. closedAt[c] \in Nat BY <2>1 DEF IInv, TypeInv
    <3>3. QED BY <1>0, <3>1, <3>2, Numbers
  <2>3. QED BY <2>1, <2>2 DEF GracePeriod
<1>7. QED BY <1>2, <1>3, <1>5, <1>6 DEF IInv

\* AddChannel: the channel is new, so nobody waits for it to be deleted.
LEMMA AddChannelInv == ASSUME NEW a \in Addr PROVE IInv /\ AddChannel(a) => IInv'
<1> SUFFICES ASSUME IInv, AddChannel(a) PROVE IInv' OBVIOUS
<1>0. /\ made \in Nat /\ MaxChan \in Nat /\ made < MaxChan /\ made' = made + 1
      /\ map \in [Addr -> 0 .. made] /\ map[a] = 0 /\ map' = [map EXCEPT ![a] = made + 1]
      /\ UNCHANGED <<server, sink, detached, held, delayed, now, schedTime, called, ticks, closedAt>>
  BY Numbers DEF IInv, TypeInv, TypeOK, AddChannel, timeVars
<1>1. TypeOK'
  <2>1. map' \in [Addr -> 0 .. made'] /\ made' \in 0 .. MaxChan BY <1>0
  <2>2. ASSUME NEW x \in Addr, NEW y \in Addr, map'[x] = map'[y] PROVE x = y \/ map'[x] = 0
    <3>1. \A b \in Addr : map[b] # made + 1 BY <1>0
    <3>2. \A b \in Addr : map'[b] = IF b = a THEN made + 1 ELSE map[b] BY <1>0
    <3>3. map[x] = map[y] => x = y \/ map[x] = 0 BY DEF IInv, TypeInv, TypeOK
    <3>4. QED BY <2>2, <3>1, <3>2, <3>3
  <2>3. active' \cup sink' \cup detached' \cup held' \subseteq Chan'
    <3>1. Chan \subseteq Chan' /\ made + 1 \in Chan' BY <1>0 DEF Chan
    <3>2. active' \subseteq active \cup {made + 1} BY DEF AddChannel
    <3>3. QED BY <1>0, <3>1, <3>2 DEF IInv, TypeInv, TypeOK
  <2>4. /\ now' \in 0 .. ClockSize - 1 /\ schedTime' \in 0 .. ClockSize - 1
        /\ server' \in BOOLEAN /\ called' \in BOOLEAN BY <1>0 DEF IInv, TypeInv, TypeOK
  <2>5. QED BY <2>1, <2>2, <2>3, <2>4 DEF TypeOK
<1>2. TypeInv' BY <1>0, <1>1 DEF IInv, TypeInv
<1>3. DelayInv' BY <1>0 DEF IInv, DelayInv, Age
<1>4. InDelay' = InDelay BY <1>0 DEF InDelay
<1>5. Mapped' = Mapped \cup {made + 1}
  <2>1. \A b \in Addr : map'[b] = IF b = a THEN made + 1 ELSE map[b] BY <1>0
  <2>2. made + 1 # 0 BY <1>0
  <2>3. QED BY <1>0, <2>1, <2>2 DEF Mapped
<1>6. ~ (made + 1 \in InDelay)
  <2>1. InDelay \subseteq 1 .. made BY DEF InDelay, IInv, DelayInv, TypeInv, TypeOK, Chan
  <2>2. QED BY <1>0, <2>1
<1>7. BindsLive'
  <2>1. Mapped' \cap InDelay' = {} BY <1>4, <1>5, <1>6 DEF IInv, BindsLive
  <2>2. \A i, j \in DOMAIN delayed' : delayed'[i].obj = delayed'[j].obj => i = j BY <1>0 DEF IInv, BindsLive
  <2>3. QED BY <2>1, <2>2 DEF BindsLive
<1>8. GracePeriod'
  <2>1. Chan' = Chan \cup {made + 1} BY <1>0 DEF Chan
  <2>2. Deleted' \subseteq Deleted BY <1>4, <1>5, <2>1 DEF Deleted
  <2>3. QED BY <1>0, <2>2 DEF IInv, GracePeriod
<1>9. QED BY <1>2, <1>3, <1>7, <1>8 DEF IInv

\* OnTimer's scan: a channel leaves the map when it enters the list, and leaves the
\* list only when the clock, and therefore the time, says it has waited Delay.
LEMMA ScanInv ==
    ASSUME IInv, scan(detached \cap Mapped), TypeOK', UNCHANGED <<made, detached, now, ticks>>
    PROVE  IInv'
<1> DEFINE gone == detached \cap Mapped
           D == delayed'
<1>0. ticks \in Nat /\ ClockSize \in Nat /\ ClockSize > 0 /\ Delay \in Nat /\ now \in 0 .. ClockSize - 1
  BY Numbers DEF IInv, TypeInv, TypeOK
<1>1. gone \subseteq Chan /\ gone \cap InDelay = {} BY DEF IInv, TypeInv, TypeOK, BindsLive
<1>2. /\ D \in Seq(Node)
      /\ \A i \in 1 .. Len(D) : \/ \E j \in 1 .. Len(delayed) : D[i] = delayed[j]
                                \/ D[i].obj \in gone /\ D[i].at = now
      /\ \A i, j \in 1 .. Len(D) : D[i].obj = D[j].obj => i = j
      /\ \A c \in gone : \E i \in 1 .. Len(D) : D[i].obj = c
      /\ \A j \in 1 .. Len(delayed) : expired(delayed[j]) \/ \E i \in 1 .. Len(D) : D[i] = delayed[j]
  <2> HIDE DEF gone
  <2>1. D = Scanned(gone) BY DEF scan, Scanned, gone
  <2>2. IInv /\ gone \subseteq Chan /\ gone \cap InDelay = {} BY <1>1
  <2> HIDE DEF D
  <2>3. QED BY <2>1, <2>2, ScanList
<1>3. DOMAIN D = 1 .. Len(D) /\ DOMAIN delayed = 1 .. Len(delayed) BY <1>2 DEF IInv, DelayInv
<1>4. \A c \in 1 .. MaxChan : closedAt'[c] = IF c \in gone THEN ticks ELSE closedAt[c] BY DEF scan
<1>5. \A c \in 1 .. MaxChan : closedAt[c] \in Nat BY ChanBound
<1>6. TypeInv'
  <2>1. closedAt' \in [1 .. MaxChan -> Nat]
    <3>1. closedAt' = [c \in 1 .. MaxChan |-> IF c \in gone THEN ticks ELSE closedAt[c]] BY DEF scan
    <3> HIDE DEF gone
    <3>2. QED BY <1>0, <1>5, <3>1
  <2>2. QED BY <1>0, <2>1 DEF TypeInv
<1>7. InDelay' = {D[i].obj : i \in 1 .. Len(D)} BY <1>3 DEF InDelay
<1>8. Mapped' = Mapped \ gone
  <2>1. map' = [b \in Addr |-> IF map[b] \in gone THEN 0 ELSE map[b]] BY DEF scan
  <2> HIDE DEF gone
  <2>2. QED BY <2>1 DEF Mapped
<1> HIDE DEF D
<1>9. ASSUME NEW i \in 1 .. Len(D)
      PROVE  /\ D[i].obj \in detached
             /\ (now - D[i].at) % ClockSize <= ticks - closedAt'[D[i].obj]
  <2>1. CASE \E j \in 1 .. Len(delayed) : D[i] = delayed[j]
    <3>1. PICK j \in 1 .. Len(delayed) : D[i] = delayed[j] BY <2>1
    <3>2. /\ delayed[j].obj \in detached
          /\ (now - delayed[j].at) % ClockSize <= ticks - closedAt[delayed[j].obj]
      BY <1>3 DEF IInv, DelayInv, Age
    <3>3. ~ (delayed[j].obj \in gone) BY <1>1, <1>3 DEF InDelay
    <3>4. delayed[j].obj \in 1 .. MaxChan BY <3>2, ChanBound DEF IInv, TypeInv, TypeOK
    <3> HIDE DEF gone
    <3>5. QED BY <1>4, <3>1, <3>2, <3>3, <3>4
  <2>2. CASE D[i].obj \in gone /\ D[i].at = now
    <3>1. D[i].obj \in detached /\ D[i].obj \in 1 .. MaxChan BY <1>1, <2>2, ChanBound
    <3> HIDE DEF gone
    <3>2. closedAt'[D[i].obj] = ticks BY <1>4, <2>2, <3>1
    <3>3. (now - now) % ClockSize = IF now <= now THEN now - now ELSE now - now + ClockSize
      BY <1>0, Difference
    <3>4. (now - now) % ClockSize = 0 BY <1>0, <3>3
    <3>5. ticks - closedAt'[D[i].obj] = 0 BY <1>0, <3>2
    <3>6. QED BY <2>2, <3>1, <3>4, <3>5
  <2>3. QED BY <1>2, <2>1, <2>2
<1>10. DelayInv' BY <1>2, <1>3, <1>9 DEF DelayInv, Age, D
<1>11. BindsLive'
  <2>1. ASSUME NEW i \in 1 .. Len(D), D[i].obj \in Mapped, ~ (D[i].obj \in gone) PROVE FALSE
    <3> HIDE DEF gone
    <3>1. PICK j \in 1 .. Len(delayed) : D[i] = delayed[j] BY <1>2, <2>1
    <3>2. delayed[j].obj \in InDelay BY <1>3 DEF InDelay
    <3>3. QED BY <2>1, <3>1, <3>2 DEF IInv, BindsLive
  <2> HIDE DEF gone
  <2>2. Mapped' \cap InDelay' = {} BY <1>7, <1>8, <2>1
  <2>3. \A i, j \in DOMAIN D : D[i].obj = D[j].obj => i = j BY <1>2, <1>3
  <2>4. QED BY <2>2, <2>3 DEF BindsLive, D
<1>12. GracePeriod'
  <2>1. ASSUME NEW c \in Deleted' PROVE c \in detached' /\ ticks' >= closedAt'[c] + Delay
    <3>1. c \in Chan /\ ~ (c \in Mapped') /\ ~ (c \in InDelay') BY <2>1 DEF Deleted, Chan
    <3>2. ~ (c \in gone)
      <4> HIDE DEF gone
      <4>1. QED BY <1>2, <1>7, <3>1
    <3> HIDE DEF gone
    <3>3. ~ (c \in Mapped) /\ c \in 1 .. MaxChan BY <1>8, <3>1, <3>2, ChanBound
    <3>4. closedAt'[c] = closedAt[c] /\ closedAt[c] \in Nat BY <1>4, <1>5, <3>2, <3>3
    <3>5. CASE c \in InDelay
      <4>1. PICK j \in 1 .. Len(delayed) : c = delayed[j].obj BY <1>3, <3>5 DEF InDelay
      <4>2. expired(delayed[j]) BY <1>2, <1>7, <3>1, <4>1
      <4>3. /\ c \in detached
            /\ (now - delayed[j].at) % ClockSize <= ticks - closedAt[c]
            /\ (now - delayed[j].at) % ClockSize >= Delay
        BY <1>3, <4>1, <4>2 DEF IInv, DelayInv, Age, expired
      <4>4. delayed[j].at \in Int
        <5>1. delayed[j] \in Node BY <1>3 DEF IInv, DelayInv
        <5>2. QED BY <1>0, <5>1 DEF Node
      <4> DEFINE u == (now - delayed[j].at) % ClockSize
      <4>5. u \in Int /\ u <= ticks - closedAt[c] /\ u >= Delay BY <1>0, <4>3, <4>4
      <4> HIDE DEF u
      <4>6. ticks >= closedAt[c] + Delay BY <1>0, <3>4, <4>5
      <4>7. QED BY <3>4, <4>3, <4>6
    <3>6. CASE ~ (c \in InDelay)
      <4>1. c \in Deleted BY <3>1, <3>3, <3>6 DEF Deleted
      <4>2. QED BY <3>4, <4>1 DEF IInv, GracePeriod
    <3>7. QED BY <3>5, <3>6
  <2>2. QED BY <2>1 DEF GracePeriod
<1>13. QED BY <1>6, <1>10, <1>11, <1>12 DEF IInv

\* OnTimer: it returns early or scans the map.
LEMMA OnTimerInv == IInv /\ OnTimer => IInv'
<1> SUFFICES ASSUME IInv, OnTimer PROVE IInv' OBVIOUS
<1>1. CASE tooEarly
  <2>1. UNCHANGED <<chanVars, closedAt, schedTime, now, ticks>> /\ called' = TRUE BY <1>1 DEF OnTimer
  <2>2. TypeOK' BY <2>1 DEF IInv, TypeInv, TypeOK, chanVars, Chan
  <2>3. QED BY <2>1, <2>2, UserStep DEF chanVars
<1>2. CASE ~ tooEarly
  <2>1. /\ scan(detached \cap Mapped) /\ schedTime' = now /\ server' \in {server, TRUE} /\ called' = TRUE
        /\ UNCHANGED <<made, detached, held, now, ticks>>
    BY <1>2 DEF OnTimer
  <2>2. TypeOK'
    <3>1. map \in [Addr -> 0 .. made] /\ made \in Nat BY ChanBound DEF IInv, TypeInv, TypeOK
    <3>2. map' = [b \in Addr |-> IF map[b] \in detached \cap Mapped THEN 0 ELSE map[b]] BY <2>1 DEF scan
    <3>3. map' \in [Addr -> 0 .. made'] BY <2>1, <3>1, <3>2
    <3>4. ASSUME NEW x \in Addr, NEW y \in Addr, map'[x] = map'[y] PROVE x = y \/ map'[x] = 0
      BY <3>2, <3>4 DEF IInv, TypeInv, TypeOK
    <3>5. active' \subseteq active /\ sink' \subseteq sink BY <2>1 DEF scan
    <3>6. active' \cup sink' \cup detached' \cup held' \subseteq Chan'
      BY <2>1, <3>5 DEF IInv, TypeInv, TypeOK, Chan
    <3>7. /\ made' \in 0 .. MaxChan /\ now' \in 0 .. ClockSize - 1 /\ schedTime' \in 0 .. ClockSize - 1
          /\ server' \in BOOLEAN /\ called' \in BOOLEAN
      BY <2>1 DEF IInv, TypeInv, TypeOK
    <3>8. QED BY <3>3, <3>4, <3>6, <3>7 DEF TypeOK
  <2>3. QED BY <2>1, <2>2, ScanInv
<1>3. QED BY <1>1, <1>2

\* Every step keeps the invariant.
LEMMA NextInv == IInv /\ [Next]_vars => IInv'
<1> SUFFICES ASSUME IInv, [Next]_vars PROVE IInv' OBVIOUS
<1>1. CASE Tick BY <1>1, TickInv
<1>2. CASE OnTimer BY <1>2, OnTimerInv
<1>3. CASE ClearRtpChannel
  <2>1. TypeOK' BY <1>3 DEF ClearRtpChannel, timeVars, IInv, TypeInv, TypeOK, Chan
  <2>2. QED BY <1>3, <2>1, UserStep DEF ClearRtpChannel, timeVars
<1>4. CASE ResetRelayIp
  <2>1. TypeOK' BY <1>4 DEF ResetRelayIp, timeVars, IInv, TypeInv, TypeOK, Chan
  <2>2. QED BY <1>4, <2>1, UserStep DEF ResetRelayIp, timeVars
<1>5. ASSUME NEW a \in Addr, AddChannel(a) PROVE IInv' BY <1>5, AddChannelInv
<1>6. ASSUME NEW a \in Addr, BindChannel(a) PROVE IInv'
  <2>1. map[a] \in Chan
    <3>1. map[a] # 0 /\ map[a] \in 0 .. made /\ made \in Nat BY <1>6, ChanBound DEF BindChannel, IInv, TypeInv, TypeOK
    <3>2. QED BY <3>1 DEF Chan
  <2>2. TypeOK' BY <1>6, <2>1 DEF BindChannel, timeVars, IInv, TypeInv, TypeOK, Chan
  <2>3. QED BY <1>6, <2>2, UserStep DEF BindChannel, timeVars
<1>7. ASSUME NEW c \in Chan, Detach(c) PROVE IInv'
  <2>1. TypeOK' BY <1>7 DEF Detach, timeVars, IInv, TypeInv, TypeOK, Chan
  <2>2. QED BY <1>7, <2>1, UserStep DEF Detach, timeVars
<1>8. CASE UNCHANGED vars
  <2>1. TypeOK' BY <1>8 DEF vars, chanVars, timeVars, IInv, TypeInv, TypeOK, Chan
  <2>2. QED BY <1>8, <2>1, UserStep DEF vars, chanVars, timeVars
<1>9. QED BY <1>1, <1>2, <1>3, <1>4, <1>5, <1>6, <1>7, <1>8 DEF Next

-----------------------------------------------------------------------------

\* The channels of the map, the list of channels to delete and the clock fit
\* together after every step of the user and of the timer.
THEOREM RtpInvariance == Spec => []IInv
  BY InitInv, NextInv, PTL DEF Spec

\* RtpChannelManager keeps its types, and every address has a channel of its own.
THEOREM RtpTypes == Spec => []TypeOK
<1>1. IInv => TypeOK BY DEF IInv, TypeInv
<1>2. QED BY <1>1, RtpInvariance, PTL

\* BindChannel hands out no channel that waits to be deleted, and OnTimer deletes
\* none twice.
THEOREM BoundChannelsAreLive == Spec => []BindsLive
<1>1. IInv => BindsLive BY DEF IInv
<1>2. QED BY <1>1, RtpInvariance, PTL

\* RelayExpireObj deletes only channels that were detached and closed at least Delay
\* before, whenever the 32-bit clock wraps.
THEOREM DeletedAfterGrace == Spec => []GracePeriod
<1>1. IInv => GracePeriod BY DEF IInv
<1>2. QED BY <1>1, RtpInvariance, PTL

-----------------------------------------------------------------------------
(* SipRelay.                                                                *)

\* OnTimer makes the UDP socket anew only when the channel is inactive.
LoopInv == timerPc \in {"open", "bind"} => ~sipActive

\* The channel was active before a user could learn of it.
FirstInv ==
    sipActive \/ known # 0 \/ userPc \in {"read", "clear", "port"} => ~firstUse

\* Between the two halves of IsRestarted the flag may be in bRestart only.
ToldInv ==
    sipActive /\ known \notin {0, epoch} =>
        restart \/ lost \/ (userPc = "clear" /\ bRestart)

SipInv == SipTypeOK /\ LoopInv /\ FirstInv /\ ToldInv

\* The constructor leaves the invariant true.
LEMMA SipInitInv == SipInit => SipInv
<1> SUFFICES ASSUME SipInit PROVE SipInv
  OBVIOUS
<1>1. FlagsOK BY DEF SipInit, FlagsOK
<1>2. NumbersOK BY FaultAssumption DEF SipInit, NumbersOK
<1>3. LoopInv /\ FirstInv /\ ToldInv BY DEF SipInit, LoopInv, FirstInv, ToldInv
<1>4. QED BY <1>1, <1>2, <1>3 DEF SipInv, SipTypeOK

\* The steps of OnTimer preserve the flags,
LEMMA LoopFlags ==
    ASSUME SipInv, loop
    PROVE  FlagsOK'
<1> USE DEF SipInv, SipTypeOK, FlagsOK, netVars, flagVars, apiVars
<1>1. CASE timerLocal BY <1>1 DEF timerLocal
<1>2. CASE openUdp BY <1>2 DEF openUdp
<1>3. CASE bindUdp BY <1>3 DEF bindUdp
<1>4. CASE timerRemote BY <1>4, ZenonT(60) DEF timerRemote
<1>5. CASE timerRestart BY <1>5 DEF timerRestart
<1>6. QED BY <1>1, <1>2, <1>3, <1>4, <1>5 DEF loop

\* the numbers,
LEMMA LoopNumbers ==
    ASSUME SipInv, loop
    PROVE  NumbersOK'
<1> USE FaultAssumption DEF SipInv, SipTypeOK, NumbersOK, netVars, flagVars, apiVars
<1>1. CASE timerLocal BY <1>1 DEF timerLocal
<1>2. CASE openUdp BY <1>2 DEF openUdp
<1>3. CASE bindUdp BY <1>3 DEF bindUdp
<1>4. CASE timerRemote BY <1>4 DEF timerRemote
<1>5. CASE timerRestart BY <1>5 DEF timerRestart
<1>6. QED BY <1>1, <1>2, <1>3, <1>4, <1>5 DEF loop

\* and what is told: the channel is made anew only while it is
\* inactive, and becomes active again with the flag set.
LEMMA LoopTold ==
    ASSUME SipInv, loop
    PROVE  LoopInv' /\ FirstInv' /\ ToldInv'
<1> USE DEF SipInv, SipTypeOK, FlagsOK, LoopInv, FirstInv, ToldInv, netVars, flagVars, apiVars
<1>1. CASE timerLocal BY <1>1 DEF timerLocal
<1>2. CASE openUdp BY <1>2 DEF openUdp
<1>3. CASE bindUdp BY <1>3 DEF bindUdp
<1>4. CASE timerRemote BY <1>4 DEF timerRemote
<1>5. CASE timerRestart BY <1>5 DEF timerRestart
<1>6. QED BY <1>1, <1>2, <1>3, <1>4, <1>5 DEF loop

\* GetSipChannel preserves the flags,
LEMMA ApiFlags ==
    ASSUME SipInv, GetSipChannel
    PROVE  FlagsOK'
<1> USE DEF SipInv, SipTypeOK, FlagsOK, netVars, flagVars, apiVars
<1>1. CASE GetState BY <1>1 DEF GetState
<1>2. CASE readRestart BY <1>2 DEF readRestart
<1>3. CASE clearRestart BY <1>3 DEF clearRestart
<1>4. CASE GetService BY <1>4 DEF GetService
<1>5. QED BY <1>1, <1>2, <1>3, <1>4 DEF GetSipChannel

\* the numbers,
LEMMA ApiNumbers ==
    ASSUME SipInv, GetSipChannel
    PROVE  NumbersOK'
<1> USE FaultAssumption DEF SipInv, SipTypeOK, NumbersOK, netVars, flagVars, apiVars
<1>1. CASE GetState BY <1>1 DEF GetState
<1>2. CASE readRestart BY <1>2 DEF readRestart
<1>3. CASE clearRestart BY <1>3 DEF clearRestart
<1>4. CASE GetService BY <1>4 DEF GetService
<1>5. QED BY <1>1, <1>2, <1>3, <1>4 DEF GetSipChannel

\* and what is told: a flag that it clears unread is lost.
LEMMA ApiTold ==
    ASSUME SipInv, GetSipChannel
    PROVE  LoopInv' /\ FirstInv' /\ ToldInv'
<1> USE DEF SipInv, SipTypeOK, FlagsOK, LoopInv, FirstInv, ToldInv, netVars, flagVars, apiVars
<1>1. CASE GetState BY <1>1 DEF GetState
<1>2. CASE readRestart BY <1>2 DEF readRestart
<1>3. CASE clearRestart BY <1>3 DEF clearRestart
<1>4. CASE GetService BY <1>4 DEF GetService
<1>5. QED BY <1>1, <1>2, <1>3, <1>4 DEF GetSipChannel

\* Answers of the relay, faults and ResetChannel preserve the flags,
LEMMA OtherFlags ==
    ASSUME SipInv, granted \/ fault \/ ResetChannel \/ DisConnectRelaySvr
    PROVE  FlagsOK'
<1> USE DEF SipInv, SipTypeOK, FlagsOK, netVars, flagVars, apiVars
<1>1. CASE granted BY <1>1 DEF granted
<1>2. CASE fault BY <1>2, ZenonT(60) DEF fault
<1>3. CASE ResetChannel BY <1>3 DEF ResetChannel
<1>4. CASE DisConnectRelaySvr BY <1>4 DEF DisConnectRelaySvr
<1>5. QED BY <1>1, <1>2, <1>3, <1>4

\* the numbers,
LEMMA OtherNumbers ==
    ASSUME SipInv, granted \/ fault \/ ResetChannel \/ DisConnectRelaySvr
    PROVE  NumbersOK'
<1> USE FaultAssumption DEF SipInv, SipTypeOK, NumbersOK, netVars, flagVars, apiVars
<1>1. CASE granted BY <1>1 DEF granted
<1>2. CASE fault BY <1>2 DEF fault
<1>3. CASE ResetChannel BY <1>3 DEF ResetChannel
<1>4. CASE DisConnectRelaySvr BY <1>4 DEF DisConnectRelaySvr
<1>5. QED BY <1>1, <1>2, <1>3, <1>4

\* and what is told.
LEMMA OtherTold ==
    ASSUME SipInv, granted \/ fault \/ ResetChannel \/ DisConnectRelaySvr
    PROVE  LoopInv' /\ FirstInv' /\ ToldInv'
<1> USE DEF SipInv, SipTypeOK, FlagsOK, LoopInv, FirstInv, ToldInv, netVars, flagVars, apiVars
<1>1. CASE granted BY <1>1 DEF granted
<1>2. CASE fault BY <1>2 DEF fault
<1>3. CASE ResetChannel BY <1>3 DEF ResetChannel
<1>4. CASE DisConnectRelaySvr BY <1>4 DEF DisConnectRelaySvr
<1>5. QED BY <1>1, <1>2, <1>3, <1>4

\* The invariant of the SIP channel and its user is inductive.
THEOREM SipInvariance == SipSpec => []SipInv
<1>1. SipInv /\ [SipNext]_sipVars => SipInv'
  <2> SUFFICES ASSUME SipInv, [SipNext]_sipVars PROVE SipInv'
    OBVIOUS
  <2>1. CASE loop BY <2>1, LoopFlags, LoopNumbers, LoopTold DEF SipInv, SipTypeOK
  <2>2. CASE GetSipChannel BY <2>2, ApiFlags, ApiNumbers, ApiTold DEF SipInv, SipTypeOK
  <2>3. CASE granted \/ fault \/ ResetChannel \/ DisConnectRelaySvr
    BY <2>3, OtherFlags, OtherNumbers, OtherTold DEF SipInv, SipTypeOK
  <2>4. CASE UNCHANGED sipVars
    BY <2>4 DEF sipVars, netVars, flagVars, apiVars, SipInv, SipTypeOK, FlagsOK, NumbersOK, LoopInv, FirstInv, ToldInv
  <2>5. QED BY <2>1, <2>2, <2>3, <2>4 DEF SipNext
<1>2. QED BY <1>1, SipInitInv, PTL DEF SipSpec

\* Types of SipRelay; GetSipChannel returns only ports that UdpNetClient::Open
\* has bound.
THEOREM SipTypeCorrect == SipSpec => []SipTypeOK
<1>1. SipInv => SipTypeOK BY DEF SipInv
<1>2. QED BY <1>1, SipInvariance, PTL

\* A user that has registered with a channel that was made anew since is told
\* so by the next GetSipChannel, unless IsRestarted has wiped the flag out.
THEOREM StaleUserIsTold == SipSpec => []StaleIsTold
<1>1. SipInv => StaleIsTold BY DEF SipInv, ToldInv, StaleIsTold
<1>2. QED BY <1>1, SipInvariance, PTL

-----------------------------------------------------------------------------
(* NetTest.                                                                 *)

\* No clock reading lies in the future.
ClockInv ==
    /\ clock \in Nat /\ lastTest \in Nat /\ loopNow \in Nat
    /\ lastTest <= clock /\ loopNow <= clock

\* What is recorded of a server: ways it has answered, at a time that was.
Recorded(a) == a.use \subseteq Proto /\ a.at \in Nat /\ a.at <= clock
ResultInv ==
    /\ DOMAIN result = RelayType
    /\ \A ty \in RelayType :
         /\ DOMAIN result[ty] \subseteq Server
         /\ \A s \in DOMAIN result[ty] : Recorded(result[ty][s])

\* When OnTimer has decided to stop a test, the test is old, or a new one has
\* begun behind its back.
StopInv == loopPc = "stop" => loopNow - lastTest > TestPeriod \/ lastTest >= loopNow

NetInv == ClockInv /\ ResultInv /\ SipPicksUsable /\ StopInv

-----------------------------------------------------------------------------

\* The constants are numbers.
LEMMA NetNumbers ==
    /\ StartTime \in Nat /\ TestPeriod \in Nat /\ TestInterval \in Nat /\ MaxTime \in Nat
    /\ TestPeriod < TestInterval /\ TimeRange \in Nat /\ TimeRange > 0
<1>1. StartTime \in Nat /\ TestPeriod \in Nat /\ TestInterval \in Nat /\ MaxTime \in Nat
  BY TimeAssumption
<1>2. TestPeriod < TestInterval /\ TimeRange \in Nat /\ TestInterval < TimeRange BY TimeAssumption
<1>3. QED BY <1>1, <1>2

\* Two numbers and their remainders: the later one has been round at least as
\* often, the remainders are apart by no more than the numbers, and by just as
\* much when both have been round equally often.
LEMMA Rounds ==
    ASSUME NEW R \in Nat, R > 0, NEW a \in Nat, NEW c \in Nat, a <= c
    PROVE  /\ a % R \in Nat /\ c % R \in Nat
           /\ (c % R) - (a % R) <= c - a
           /\ (a \div R) < (c \div R) \/ (c % R) - (a % R) = c - a
<1> DEFINE p == a \div R
           u == a % R
           q == c \div R
           v == c % R
           Claim == u \in Nat /\ v \in Nat /\ v - u <= c - a /\ (p < q \/ v - u = c - a)
<1>1. p \in Int /\ u \in 0 .. R - 1 /\ a = R * p + u OBVIOUS
<1>2. q \in Int /\ v \in 0 .. R - 1 /\ c = R * q + v OBVIOUS
<1> HIDE DEF p, u, q, v
<1>3. R * q - R * p = R * (q - p) BY <1>1, <1>2
<1>4. R * p \in Int /\ R * q \in Int BY <1>1, <1>2
<1>5. R * (q - p) = (c - a) - (v - u) BY <1>1, <1>2, <1>3, <1>4
<1>6. q - p >= 0
  <2>1. CASE q - p <= -1
    <3>1. R * (q - p) <= R * (-1) BY <1>1, <1>2, <2>1
    <3>2. QED BY <1>1, <1>2, <1>5, <3>1
  <2>2. QED BY <1>1, <1>2, <2>1
<1>7. ASSUME p = q PROVE Claim
  <2>1. R * (q - p) = 0 BY <1>1, <1>2, <1>7
  <2>2. v - u = c - a BY <1>1, <1>2, <1>5, <2>1
  <2>3. QED BY <1>1, <1>2, <2>2
<1>8. ASSUME p < q PROVE Claim
  <2>1. R * (q - p) >= 0 BY <1>1, <1>2, <1>8
  <2>2. v - u <= c - a BY <1>1, <1>2, <1>5, <2>1
  <2>3. QED BY <1>1, <1>2, <1>8, <2>2
<1>9. Claim BY <1>1, <1>2, <1>6, <1>7, <1>8
<1>10. QED BY <1>9 DEF p, q, u, v

\* The same of the readings of Utils::Time.
LEMMA Readings ==
    ASSUME NEW a \in Nat, NEW c \in Nat, a <= c
    PROVE  /\ Time(a) \in Nat /\ Time(c) \in Nat
           /\ Time(c) - Time(a) <= c - a
           /\ a \div TimeRange < c \div TimeRange \/ Time(c) - Time(a) = c - a
  BY NetNumbers, Rounds DEF Time

\* Among servers that have answered in the ways u, one has the smallest reading.
LEMMA OldestExists ==
    ASSUME NEW r, NEW u, \A s \in DOMAIN r : r[s].at \in Nat, Candidates(r, u) # {}
    PROVE  Oldest(r, u) # {}
<1> DEFINE T == {Time(r[s].at) : s \in Candidates(r, u)}
<1>0. \A s \in DOMAIN r : Time(r[s].at) \in Nat
  <2>1. \A n \in Nat : n <= n OBVIOUS
  <2>2. QED BY <2>1, Readings
<1>1. T \subseteq Nat /\ T # {} BY <1>0 DEF Candidates
<1> HIDE DEF T
<1>2. PICK x \in T : \A y \in T : x <= y BY <1>1, LeastNat
<1> USE DEF T
<1>3. PICK s \in Candidates(r, u) : x = Time(r[s].at) OBVIOUS
<1>4. \A y \in Candidates(r, u) : Time(r[s].at) <= Time(r[y].at) BY <1>2, <1>3
<1>5. QED BY <1>3, <1>4 DEF Oldest

\* The three preferences are the three ways to have answered.
LEMMA Preferences ==
    ASSUME NEW ty \in RelayType, NEW u, u \subseteq Proto, u # {}
    PROVE  \E i \in 1 .. 3 : Preference(ty)[i] = u
<1>1. u = Proto \/ u = {"TCP"} \/ u = {"UDP"} BY DEF Proto
<1>2. CASE ty = "SIP"
  <2>1. Preference(ty) = <<Proto, {"TCP"}, {"UDP"}>> BY <1>2 DEF Preference
  <2>2. Preference(ty)[1] = Proto /\ Preference(ty)[2] = {"TCP"} /\ Preference(ty)[3] = {"UDP"} BY <2>1
  <2>3. 1 \in 1 .. 3 /\ 2 \in 1 .. 3 /\ 3 \in 1 .. 3 OBVIOUS
  <2>4. QED BY <1>1, <2>2, <2>3
<1>3. CASE ty # "SIP"
  <2>1. Preference(ty) = <<Proto, {"UDP"}, {"TCP"}>> BY <1>3 DEF Preference
  <2>2. Preference(ty)[1] = Proto /\ Preference(ty)[2] = {"UDP"} /\ Preference(ty)[3] = {"TCP"} BY <2>1
  <2>3. 1 \in 1 .. 3 /\ 2 \in 1 .. 3 /\ 3 \in 1 .. 3 OBVIOUS
  <2>4. QED BY <1>1, <2>2, <2>3
<1>4. QED BY <1>2, <1>3

\* None of the preferences is to have answered in no way.
LEMMA PreferenceNonempty ==
    ASSUME NEW ty \in RelayType, NEW i \in 1 .. 3
    PROVE  Preference(ty)[i] # {}
<1>1. i = 1 \/ i = 2 \/ i = 3 OBVIOUS
<1>2. CASE ty = "SIP"
  <2>1. Preference(ty) = <<Proto, {"TCP"}, {"UDP"}>> BY <1>2 DEF Preference
  <2>2. QED BY <1>1, <2>1 DEF Proto
<1>3. CASE ty # "SIP"
  <2>1. Preference(ty) = <<Proto, {"UDP"}, {"TCP"}>> BY <1>3 DEF Preference
  <2>2. QED BY <1>1, <2>1 DEF Proto
<1>4. QED BY <1>2, <1>3

\* GetNewSvr finds a server if and only if one has answered at a reading below the
\* present one, and what it finds has answered.
LEMMA BestIsSound ==
    ASSUME NEW ty \in RelayType, NEW r,
           \A s \in DOMAIN r : r[s].at \in Nat /\ r[s].use \subseteq Proto
    PROVE  /\ \A s \in Best(r, ty) : s \in DOMAIN r /\ r[s].use # {} /\ Time(r[s].at) < Time(clock)
           /\ Best(r, ty) = {} => \A s \in DOMAIN r : r[s].use = {} \/ ~(Time(r[s].at) < Time(clock))
<1> DEFINE P == Preference(ty)
           ok == {i \in 1 .. 3 : Candidates(r, P[i]) # {}}
           k == CHOOSE i \in ok : \A j \in ok : i <= j
<1>1. Best(r, ty) = IF ok = {} THEN {} ELSE Oldest(r, P[k]) BY DEF Best
<1>2. ASSUME ok # {} PROVE k \in ok
  <2>1. ok \subseteq Nat OBVIOUS
  <2> HIDE DEF ok
  <2>2. \E i \in ok : \A j \in ok : i <= j BY <1>2, <2>1, LeastNat
  <2>3. QED BY <2>2
<1>3. ASSUME NEW s \in Best(r, ty) PROVE s \in DOMAIN r /\ r[s].use # {} /\ Time(r[s].at) < Time(clock)
  <2>1. ok # {} /\ s \in Oldest(r, P[k]) BY <1>1
  <2>2. k \in 1 .. 3 BY <1>2, <2>1
  <2> HIDE DEF k, ok
  <2>3. s \in Candidates(r, P[k]) BY <2>1 DEF Oldest
  <2>4. P[k] # {} BY <2>2, PreferenceNonempty
  <2>5. QED BY <2>3, <2>4 DEF Candidates, GetPriority
<1>4. ASSUME Best(r, ty) = {}, NEW s \in DOMAIN r, r[s].use # {}, Time(r[s].at) < Time(clock) PROVE FALSE
  <2>1. PICK i \in 1 .. 3 : P[i] = r[s].use BY <1>4, Preferences
  <2>2. s \in Candidates(r, P[i]) BY <1>4, <2>1 DEF Candidates, GetPriority
  <2>3. ok # {} BY <2>2
  <2>4. Candidates(r, P[k]) # {} BY <1>2, <2>3
  <2> HIDE DEF k, ok, P
  <2>5. Oldest(r, P[k]) # {} BY <2>4, OldestExists
  <2>6. QED BY <1>1, <1>4, <2>3, <2>5
<1>5. QED BY <1>3, <1>4

-----------------------------------------------------------------------------

\* The invariant holds when the manager is made.
LEMMA NetInitInv == NetInit => NetInv
<1> SUFFICES ASSUME NetInit PROVE NetInv
  OBVIOUS
<1> USE DEF NetInit
<1>1. ClockInv BY NetNumbers DEF ClockInv
<1>2. ResultInv BY DEF ResultInv, RelayType
<1>3. SipPicksUsable BY DEF SipPicksUsable, RelayType
<1>4. StopInv BY DEF StopInv
<1>5. QED BY <1>1, <1>2, <1>3, <1>4 DEF NetInv

\* A forgotten result is a record like any other.
LEMMA BlankOK == ClockInv => Recorded(Blank) /\ Blank.use = {}
  BY DEF ClockInv, Recorded, Blank

\* StartTest changes neither the servers nor any clock but that of the test,
\* keeps or forgets the results, and never ends a test.
LEMMA StartTestOK ==
    ASSUME NetInv, NEW forced \in BOOLEAN, StartTest(forced), clock' = clock, sipServers' = sipServers
    PROVE  /\ ResultInv' /\ SipPicksUsable'
           /\ lastTest' = lastTest \/ lastTest' = clock
           /\ testActive => testActive'
<1>1. CASE DoStartTest(forced)
  <2>1. lastTest' = clock /\ (testActive => testActive') BY <1>1 DEF DoStartTest
  <2>2. \/ result' = result
        \/ result' = [ty \in RelayType |-> [s \in DOMAIN result[ty] |-> Blank]]
    BY <1>1 DEF DoStartTest
  <2>3. CASE result' = result
    <3>1. ResultInv' BY <2>3 DEF NetInv, ResultInv, Recorded
    <3>2. SipPicksUsable' BY <2>3 DEF NetInv, SipPicksUsable
    <3>3. QED BY <2>1, <3>1, <3>2
  <2>4. CASE result' = [ty \in RelayType |-> [s \in DOMAIN result[ty] |-> Blank]]
    <3>1. /\ DOMAIN result' = RelayType
          /\ \A ty \in RelayType : /\ DOMAIN result'[ty] = DOMAIN result[ty]
                                   /\ \A s \in DOMAIN result[ty] : result'[ty][s] = Blank
      BY <2>4
    <3>2. Recorded(Blank)' /\ Blank.use = {} BY BlankOK DEF NetInv, ClockInv, Recorded, Blank
    <3>3. ResultInv' BY <3>1, <3>2 DEF NetInv, ResultInv, Recorded
    <3>4. SipPicksUsable' BY <3>1, <3>2 DEF NetInv, SipPicksUsable, RelayType
    <3>5. QED BY <2>1, <3>3, <3>4
  <2>5. QED BY <2>2, <2>3, <2>4
<1>2. CASE UNCHANGED <<result, lastTest, testActive, probes>>
  <2>1. ResultInv' BY <1>2 DEF NetInv, ResultInv, Recorded
  <2>2. SipPicksUsable' BY <1>2 DEF NetInv, SipPicksUsable
  <2>3. QED BY <1>2, <2>1, <2>2
<1>3. QED BY <1>1, <1>2 DEF StartTest

\* What OnTimer leaves: a test that it will stop is one that was old when it
\* looked, and a new test is none of those.
LEMMA onTimerTestInv ==
    ASSUME NetInv, onTimerTest
    PROVE  NetInv'
<1>1. clock' = clock /\ loopNow' = loopNow /\ sipServers' = sipServers BY DEF onTimerTest
<1>2. /\ ResultInv' /\ SipPicksUsable'
      /\ lastTest' = lastTest \/ lastTest' = clock
  <2>1. CASE StartTest(TRUE) BY <1>1, <2>1, StartTestOK
  <2>2. CASE UNCHANGED <<result, lastTest, testActive, probes>>
    BY <1>1, <2>2 DEF NetInv, ResultInv, Recorded, SipPicksUsable
  <2>3. QED BY <2>1, <2>2 DEF onTimerTest
<1>3. ClockInv' BY <1>1, <1>2 DEF NetInv, ClockInv
<1>4. StopInv'
  <2>1. SUFFICES ASSUME loopPc' = "stop", ~(lastTest' >= loopNow) PROVE loopNow - lastTest' > TestPeriod
    BY <1>1 DEF StopInv
  <2>2. Time(loopNow) - Time(lastTest') > TestPeriod BY <2>1 DEF onTimerTest
  <2>3. loopNow \in Nat /\ lastTest' \in Nat BY <1>1, <1>3 DEF ClockInv
  <2>4. lastTest' <= loopNow BY <2>1, <2>3
  <2>5. /\ Time(lastTest') \in Nat /\ Time(loopNow) \in Nat
        /\ Time(loopNow) - Time(lastTest') <= loopNow - lastTest'
    BY <2>3, <2>4, Readings
  <2> DEFINE x == Time(loopNow)
             y == Time(lastTest')
             z == lastTest'
  <2>6. /\ x \in Nat /\ y \in Nat /\ z \in Nat /\ loopNow \in Nat /\ TestPeriod \in Nat
        /\ x - y > TestPeriod /\ x - y <= loopNow - z
    BY <2>2, <2>3, <2>5, NetNumbers
  <2> HIDE DEF x, y, z
  <2>7. loopNow - z > TestPeriod BY <2>6
  <2>8. QED BY <2>7 DEF z
<1>5. QED BY <1>2, <1>3, <1>4 DEF NetInv

\* A test that AppendServer or GetNewSvr starts while OnTimer is about to stop
\* the last one begins no earlier than OnTimer's reading of the clock.
LEMMA StartInv ==
    ASSUME NetInv, appendStart \/ getNewSvrStart
    PROVE  NetInv'
<1>1. /\ clock' = clock /\ loopNow' = loopNow /\ sipServers' = sipServers
      /\ loopPc' = "stop" => loopPc = "stop"
  BY DEF appendStart, getNewSvrStart
<1>2. \E forced \in BOOLEAN : StartTest(forced) BY DEF appendStart, getNewSvrStart
<1>3. /\ ResultInv' /\ SipPicksUsable'
      /\ lastTest' = lastTest \/ lastTest' = clock
  BY <1>1, <1>2, StartTestOK
<1>4. ClockInv' BY <1>1, <1>3 DEF NetInv, ClockInv
<1>5. StopInv' BY <1>1, <1>3 DEF NetInv, ClockInv, StopInv
<1>6. QED BY <1>3, <1>4, <1>5 DEF NetInv

\* The steps that touch no result.
LEMMA ClockSteps ==
    ASSUME NetInv, ClockTick \/ onTimerClock \/ StopTest \/ UNCHANGED testVars
    PROVE  NetInv'
<1>1. /\ result' = result /\ sipServers' = sipServers /\ lastTest' = lastTest
      /\ clock' = clock \/ clock' = clock + 1
      /\ loopNow' = loopNow \/ loopNow' = clock
      /\ loopPc' = "stop" => loopPc = "stop" /\ loopNow' = loopNow
  BY DEF ClockTick, onTimerClock, StopTest, testVars
<1>2. ClockInv' BY <1>1 DEF NetInv, ClockInv
<1>3. ResultInv'
  <2>1. clock \in Nat /\ clock <= clock' BY <1>1 DEF NetInv, ClockInv
  <2>2. ASSUME NEW a, Recorded(a) PROVE Recorded(a)'
    BY <1>2, <2>1, <2>2 DEF Recorded, ClockInv
  <2>3. \A ty \in RelayType : \A s \in DOMAIN result[ty] :
           result[ty][s].use \subseteq Proto /\ result[ty][s].at \in Nat /\ result[ty][s].at <= clock'
    BY <1>2, <2>1 DEF NetInv, ResultInv, Recorded, ClockInv
  <2>4. QED BY <1>1, <2>3 DEF NetInv, ResultInv, Recorded
<1>4. SipPicksUsable' BY <1>1 DEF NetInv, SipPicksUsable
<1>5. StopInv' BY <1>1 DEF NetInv, StopInv
<1>6. QED BY <1>2, <1>3, <1>4, <1>5 DEF NetInv

\* Servers that are set anew have not answered.
LEMMA AppendServerInv ==
    ASSUME NetInv, NEW ty \in RelayType, NEW S \in SUBSET Server, AppendServer(ty, S)
    PROVE  NetInv'
<1> DEFINE blanks == [s \in S |-> Blank]
<1>1. /\ clock' = clock /\ lastTest' = lastTest /\ loopNow' = loopNow /\ loopPc' = loopPc
      /\ result' = [result EXCEPT ![ty] = blanks]
      /\ sipServers' = IF ty = "SIP" THEN S ELSE sipServers
  BY DEF AppendServer
<1>2. DOMAIN blanks = S /\ \A s \in S : blanks[s] = Blank OBVIOUS
<1>3. Recorded(Blank) /\ Blank.use = {} BY BlankOK DEF NetInv
<1> HIDE DEF blanks
<1>4. /\ DOMAIN result' = RelayType
      /\ \A x \in RelayType : result'[x] = IF x = ty THEN blanks ELSE result[x]
  BY <1>1 DEF NetInv, ResultInv
<1>5. ClockInv' BY <1>1 DEF NetInv, ClockInv
<1>6. ResultInv'
  <2>1. ASSUME NEW x \in RelayType
        PROVE  DOMAIN result'[x] \subseteq Server /\ \A s \in DOMAIN result'[x] : Recorded(result'[x][s])
    <3>1. CASE x = ty BY <1>2, <1>3, <1>4, <3>1
    <3>2. CASE x # ty BY <1>4, <3>2 DEF NetInv, ResultInv
    <3>3. QED BY <3>1, <3>2
  <2>2. QED BY <1>1, <1>4, <2>1 DEF ResultInv, Recorded
<1>7. SipPicksUsable'
  <2>1. CASE ty = "SIP" BY <1>1, <1>2, <1>3, <1>4, <2>1 DEF SipPicksUsable
  <2>2. CASE ty # "SIP" BY <1>1, <1>4, <2>2 DEF NetInv, SipPicksUsable, RelayType
  <2>3. QED BY <2>1, <2>2
<1>8. StopInv' BY <1>1 DEF NetInv, StopInv
<1>9. QED BY <1>5, <1>6, <1>7, <1>8 DEF NetInv

\* An answer over UDP does not reach the SIP servers, and one over TCP adds none.
LEMMA OnHandlePduInv ==
    ASSUME NetInv, NEW s \in Server, NEW p \in Proto, OnHandlePdu(s, p)
    PROVE  NetInv'
<1> DEFINE new(ty) == [use |-> {p} \cup (IF s \in DOMAIN result[ty] THEN result[ty][s].use ELSE {}), at |-> clock]
           D(ty) == DOMAIN result[ty] \cup (IF p = "UDP" THEN {s} ELSE {})
<1>1. /\ clock' = clock /\ lastTest' = lastTest /\ loopNow' = loopNow /\ loopPc' = loopPc
      /\ sipServers' = sipServers /\ UpdateTestResult(s, p)
  BY DEF OnHandlePdu
<1>2. /\ DOMAIN result' = RelayType
      /\ \A ty \in RelayType :
            result'[ty] = IF p = "UDP" /\ ty = "SIP" THEN result[ty]
                          ELSE [x \in D(ty) |-> IF x = s THEN new(ty) ELSE result[ty][x]]
  BY <1>1 DEF UpdateTestResult
<1>3. \A ty \in RelayType : /\ new(ty).use = {p} \cup (IF s \in DOMAIN result[ty] THEN result[ty][s].use ELSE {})
                            /\ new(ty).at = clock
  OBVIOUS
<1>4. \A ty \in RelayType : D(ty) \subseteq Server /\ DOMAIN result[ty] \subseteq D(ty)
                            /\ D(ty) \subseteq DOMAIN result[ty] \cup {s}
                            /\ (p # "UDP" => D(ty) = DOMAIN result[ty])
  BY DEF NetInv, ResultInv
<1> HIDE DEF new, D
<1>5. ClockInv' BY <1>1 DEF NetInv, ClockInv
<1>6. ResultInv'
  <2>1. ASSUME NEW ty \in RelayType
        PROVE  DOMAIN result'[ty] \subseteq Server /\ \A x \in DOMAIN result'[ty] : Recorded(result'[ty][x])
    <3>1. CASE p = "UDP" /\ ty = "SIP" BY <1>2, <3>1 DEF NetInv, ResultInv
    <3>2. CASE ~(p = "UDP" /\ ty = "SIP")
      <4>1. DOMAIN result'[ty] = D(ty)
            /\ \A x \in D(ty) : result'[ty][x] = IF x = s THEN new(ty) ELSE result[ty][x]
        BY <1>2, <3>2
      <4>2. Recorded(new(ty)) BY <1>3 DEF NetInv, ClockInv, ResultInv, Recorded
      <4>3. \A x \in D(ty) : x # s => Recorded(result[ty][x]) BY <1>4 DEF NetInv, ResultInv
      <4>4. QED BY <1>4, <4>1, <4>2, <4>3
    <3>3. QED BY <3>1, <3>2
  <2>2. QED BY <1>1, <1>2, <2>1 DEF ResultInv, Recorded
<1>7. SipPicksUsable'
  <2>1. "SIP" \in RelayType BY DEF RelayType
  <2>2. CASE p = "UDP" BY <1>1, <1>2, <2>1, <2>2 DEF NetInv, SipPicksUsable
  <2>3. CASE p # "UDP"
    <3>1. p = "TCP" BY <2>3 DEF Proto
    <3>2. /\ DOMAIN result'["SIP"] = DOMAIN result["SIP"]
          /\ \A x \in DOMAIN result["SIP"] : result'["SIP"][x] = IF x = s THEN new("SIP") ELSE result["SIP"][x]
      BY <1>2, <1>4, <2>1, <2>3
    <3>3. s \in DOMAIN result["SIP"] => new("SIP").use \subseteq {"TCP"}
      BY <1>3, <2>1, <3>1 DEF NetInv, SipPicksUsable
    <3>4. QED BY <1>1, <3>2, <3>3 DEF NetInv, SipPicksUsable
  <2>4. QED BY <2>2, <2>3
<1>8. StopInv' BY <1>1 DEF NetInv, StopInv
<1>9. QED BY <1>5, <1>6, <1>7, <1>8 DEF NetInv

\* GetNewSvr forgets a result at most.
LEMMA resetCurrentOK ==
    ASSUME NEW ty \in RelayType, NEW cur
    PROVE  /\ DOMAIN resetCurrent(ty, cur) = DOMAIN result[ty]
           /\ \A s \in DOMAIN result[ty] :
                resetCurrent(ty, cur)[s] = IF s = cur /\ hasOther(ty, cur) THEN Blank ELSE result[ty][s]
<1>1. CASE hasOther(ty, cur)
  <2>1. cur \in DOMAIN result[ty] BY <1>1 DEF hasOther
  <2>2. resetCurrent(ty, cur) = [result[ty] EXCEPT ![cur] = Blank] BY <1>1 DEF resetCurrent
  <2>3. QED BY <1>1, <2>1, <2>2
<1>2. CASE ~hasOther(ty, cur)
  BY <1>2 DEF resetCurrent
<1>3. QED BY <1>1, <1>2

\* GetNewSvr keeps the invariant.
LEMMA GetNewSvrInv ==
    ASSUME NetInv, NEW ty \in RelayType, NEW cur, NEW s, GetNewSvr(ty, cur, s)
    PROVE  NetInv'
<1> DEFINE r == resetCurrent(ty, cur)
<1>1. /\ clock' = clock /\ lastTest' = lastTest /\ loopNow' = loopNow /\ loopPc' = "start"
      /\ sipServers' = sipServers /\ result' = [result EXCEPT ![ty] = r]
  BY DEF GetNewSvr
<1>2. /\ DOMAIN r = DOMAIN result[ty]
      /\ \A x \in DOMAIN result[ty] : r[x] = Blank \/ r[x] = result[ty][x]
  BY resetCurrentOK
<1> HIDE DEF r
<1>3. Recorded(Blank) /\ Blank.use = {} BY BlankOK DEF NetInv
<1>4. /\ DOMAIN result' = RelayType
      /\ \A x \in RelayType : result'[x] = IF x = ty THEN r ELSE result[x]
  BY <1>1 DEF NetInv, ResultInv
<1>5. \A x \in RelayType : /\ DOMAIN result'[x] = DOMAIN result[x]
                           /\ \A y \in DOMAIN result[x] : result'[x][y] = Blank \/ result'[x][y] = result[x][y]
  BY <1>2, <1>4
<1>6. ClockInv' BY <1>1 DEF NetInv, ClockInv
<1>7. ResultInv'
  <2>1. \A x \in RelayType : /\ DOMAIN result'[x] \subseteq Server
                             /\ \A y \in DOMAIN result'[x] : Recorded(result'[x][y])
    BY <1>3, <1>5 DEF NetInv, ResultInv
  <2>2. QED BY <1>1, <1>4, <2>1 DEF ResultInv, Recorded
<1>8. SipPicksUsable' BY <1>1, <1>3, <1>5 DEF NetInv, SipPicksUsable, RelayType
<1>9. StopInv' BY <1>1 DEF StopInv
<1>10. QED BY <1>6, <1>7, <1>8, <1>9 DEF NetInv

\* Every step of the two threads keeps the invariant.
LEMMA StepInv == NetInv /\ [NetNext]_testVars => NetInv'
<1> SUFFICES ASSUME NetInv, [NetNext]_testVars PROVE NetInv'
  OBVIOUS
<1>1. CASE ClockTick \/ onTimerClock \/ StopTest \/ UNCHANGED testVars BY <1>1, ClockSteps
<1>2. CASE onTimerTest BY <1>2, onTimerTestInv
<1>3. CASE appendStart \/ getNewSvrStart BY <1>3, StartInv
<1>4. CASE \E ty \in RelayType, S \in SUBSET Server \ {{}} : AppendServer(ty, S)
  BY <1>4, AppendServerInv
<1>5. CASE \E s \in Server, p \in Proto : OnHandlePdu(s, p) BY <1>5, OnHandlePduInv
<1>6. CASE \E ty \in RelayType, cur \in ServerOrNone, s \in ServerOrNone : GetNewSvr(ty, cur, s)
  BY <1>6, GetNewSvrInv
<1>7. QED BY <1>1, <1>2, <1>3, <1>4, <1>5, <1>6 DEF NetNext

\* The inductive invariant of the results, the clocks and the two threads.
THEOREM NetTestInvariance == NetSpec => []NetInv
  BY NetInitInv, StepInv, PTL DEF NetSpec

\* Whatever answers come late, and from whom, GetNewSvr finds for SIP only
\* servers that were set for SIP and that have answered over TCP.
THEOREM SipPicksAreUsable == NetSpec => []SipPicksUsable
<1>1. NetInv => SipPicksUsable BY DEF NetInv
<1>2. QED BY <1>1, NetTestInvariance, PTL

\* GetNewSvr keeps the server in use only if no other server had answered before
\* the present time, or the 32 bits of Utils::Time have run over since.
THEOREM GetNewSvrFailsOver == NetSpec => FailsOver
<1> DEFINE Failover ==
        \A ty \in RelayType, cur \in Server :
            GetNewSvr(ty, cur, cur) =>
                \A s \in DOMAIN result[ty] \ {cur} :
                    result[ty][s].use = {} \/ result[ty][s].at = clock \/ WrappedSince(result[ty][s].at)
<1>1. ASSUME NetInv, NEW ty \in RelayType, NEW cur \in Server, GetNewSvr(ty, cur, cur),
             NEW s \in DOMAIN result[ty] \ {cur}
      PROVE  result[ty][s].use = {} \/ result[ty][s].at = clock \/ WrappedSince(result[ty][s].at)
  <2> DEFINE r == resetCurrent(ty, cur)
  <2>1. /\ DOMAIN r = DOMAIN result[ty]
        /\ \A x \in DOMAIN r : r[x] = IF x = cur /\ hasOther(ty, cur) THEN Blank ELSE result[ty][x]
    BY resetCurrentOK
  <2>2. \/ cur \in Best(r, ty)
        \/ Best(r, ty) = {} /\ cur = IF hasOther(ty, cur) /\ GetPriority(result[ty][cur]) # {} THEN cur ELSE NoServer
    BY <1>1 DEF GetNewSvr
  <2> HIDE DEF r
  <2>3. clock \in Nat /\ \A x \in DOMAIN result[ty] : Recorded(result[ty][x])
    BY <1>1 DEF NetInv, ClockInv, ResultInv
  <2>4. Blank.use = {} /\ Blank.at = 0 BY DEF Blank
  <2>5. \A x \in DOMAIN r : r[x].at \in Nat /\ r[x].use \subseteq Proto
    BY <2>1, <2>3, <2>4 DEF Recorded
  <2>6. /\ \A x \in Best(r, ty) : x \in DOMAIN r /\ r[x].use # {} /\ Time(r[x].at) < Time(clock)
        /\ Best(r, ty) = {} => \A x \in DOMAIN r : r[x].use = {} \/ ~(Time(r[x].at) < Time(clock))
    BY <2>5, BestIsSound
  <2>7. CASE cur \in Best(r, ty)
    <3>1. cur \in DOMAIN result[ty] /\ r[cur].use # {} BY <2>1, <2>6, <2>7
    <3>2. ~hasOther(ty, cur) BY <2>1, <2>4, <3>1
    <3> DEFINE D == DOMAIN result[ty]
    <3>3. IsFiniteSet(D)
      <4>1. D \in SUBSET Server BY <1>1 DEF NetInv, ResultInv
      <4>2. QED BY <4>1, ServerAssumption, FS_Subset
    <3>4. ~(Cardinality(D) > 1) BY <3>1, <3>2 DEF hasOther
    <3> HIDE DEF D
    <3>5. IsFiniteSet(D \ {cur}) /\ Cardinality(D \ {cur}) = Cardinality(D) - 1
      BY <3>1, <3>3, FS_RemoveElement DEF D
    <3>6. Cardinality(D) \in Nat /\ Cardinality(D \ {cur}) \in Nat BY <3>3, <3>5, FS_CardinalityType
    <3>7. Cardinality(D \ {cur}) = 0 BY <3>4, <3>5, <3>6
    <3>8. D \ {cur} = {} BY <3>5, <3>7, FS_EmptySet
    <3>9. QED BY <3>8 DEF D
  <2>8. CASE Best(r, ty) = {}
    <3>1. r[s] = result[ty][s] /\ s \in DOMAIN r BY <2>1
    <3>2. result[ty][s].use = {} \/ ~(Time(result[ty][s].at) < Time(clock)) BY <2>6, <2>8, <3>1
    <3>3. result[ty][s].at \in Nat /\ result[ty][s].at <= clock BY <2>3 DEF Recorded
    <3>4. /\ Time(result[ty][s].at) \in Nat /\ Time(clock) \in Nat
          /\ \/ result[ty][s].at \div TimeRange < clock \div TimeRange
             \/ Time(clock) - Time(result[ty][s].at) = clock - result[ty][s].at
      BY <2>3, <3>3, Readings
    <3>5. QED BY <2>3, <3>2, <3>3, <3>4 DEF WrappedSince
  <2>9. QED BY <2>2, <2>7, <2>8
<1>2. NetInv => [Failover]_testVars BY <1>1
<1>3. QED BY <1>2, NetTestInvariance, PTL DEF FailsOver

\* StopTest closes the sockets of a test that is younger than TestPeriod only if
\* the test began no earlier than OnTimer's reading of the clock.
THEOREM StopsEarlyOnlyInRace == NetSpec => StopsEarlyOnlyIfRaced
<1> DEFINE Late == testActive /\ ~testActive' => clock - lastTest > TestPeriod \/ lastTest >= loopNow
<1>1. ASSUME NetInv, NetNext, testActive, ~testActive'
      PROVE  clock - lastTest > TestPeriod \/ lastTest >= loopNow
  <2>1. CASE StopTest
    <3>1. loopNow - lastTest > TestPeriod \/ lastTest >= loopNow
      BY <1>1, <2>1 DEF StopTest, NetInv, StopInv
    <3>2. QED BY <1>1, <3>1, NetNumbers DEF NetInv, ClockInv
  <2>2. CASE onTimerTest \/ appendStart \/ getNewSvrStart
    <3>1. clock' = clock /\ sipServers' = sipServers BY <2>2 DEF onTimerTest, appendStart, getNewSvrStart
    <3>2. (\E forced \in BOOLEAN : StartTest(forced)) \/ UNCHANGED testActive
      BY <2>2 DEF onTimerTest, appendStart, getNewSvrStart
    <3>3. QED BY <1>1, <3>1, <3>2, StartTestOK
  <2>3. CASE \/ ClockTick \/ onTimerClock
             \/ \E ty \in RelayType, S \in SUBSET Server \ {{}} : AppendServer(ty, S)
             \/ \E s \in Server, p \in Proto : OnHandlePdu(s, p)
             \/ \E ty \in RelayType, cur \in ServerOrNone, s \in ServerOrNone : GetNewSvr(ty, cur, s)
    <3>1. UNCHANGED testActive BY <2>3 DEF ClockTick, onTimerClock, AppendServer, OnHandlePdu, GetNewSvr
    <3>2. QED BY <1>1, <3>1
  <2>4. QED BY <1>1, <2>1, <2>2, <2>3 DEF NetNext
<1>2. NetInv /\ [NetNext]_testVars => [Late]_testVars BY <1>1
<1>3. NetSpec => [][NetNext]_testVars BY DEF NetSpec
<1>4. QED BY <1>2, <1>3, NetTestInvariance, PTL DEF StopsEarlyOnlyIfRaced

=============================================================================
