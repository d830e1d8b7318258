------------------------- MODULE TcpDownlinkProofs -------------------------
(***************************************************************************)
(* Proofs about TcpDownlink, for any lengths of packets, any window and    *)
(* any number of packets and connections: what a connection carries is     *)
(* whole PDUs, packets reach the proxy in order and at most once, and the  *)
(* first connection loses none but those that cannot be wrapped.           *)
(*                                                                         *)
(* The inductive invariant speaks of the bytes that will still reach the   *)
(* proxy on this connection: they start where a PDU starts, go on PDU by   *)
(* PDU, belong to later packets than those handed up and to earlier ones   *)
(* than those queued.                                                      *)
(***************************************************************************)
EXTENDS TcpDownlink, Integers, SequenceTheorems, FiniteSetTheorems, WellFoundedInduction, TLAPS

\* Byte i of packet p is <<p, i>>.
Byte == Nat \X Nat

\* The PDU lengths of the packets.
Sizes(sz) == sz \in Seq(Nat) /\ \A p \in 1 .. Len(sz) : sz[p] >= HeadLen

\* The packets of q wait in order, with their lengths.
Waiting(q, sz) ==
    /\ q \in Seq(Nat \X Nat)
    /\ \A i \in 1 .. Len(q) : q[i][1] \in 1 .. Len(sz) /\ q[i][2] = sz[q[i][1]]
    /\ \A i, j \in 1 .. Len(q) : i < j => q[i][1] < q[j][1]

\* The packets of g were handed up in order.
Handed(g, sz) ==
    /\ g \in Seq(Nat)
    /\ \A i \in 1 .. Len(g) : g[i] \in 1 .. Len(sz)
    /\ \A i, j \in 1 .. Len(g) : i < j => g[i] < g[j]

\* Bytes of packets that were given to sendBuf.
Known(F, sz) == F \in Seq(Byte) /\ \A i \in 1 .. Len(F) : F[i][1] \in 1 .. Len(sz)

\* Byte b comes next after a: in the same PDU, or as the first of a later one.
Follows(a, b, sz) ==
    IF a[2] < sz[a[1]] THEN b = <<a[1], a[2] + 1>> ELSE a[1] < b[1] /\ b[2] = 1

\* The bytes F start with a PDU and go on PDU by PDU,
Linked(F, sz) ==
    /\ Known(F, sz)
    /\ \A i \in 1 .. Len(F) : F[i][2] <= sz[F[i][1]]
    /\ Len(F) > 0 => F[1][2] = 1
    /\ \A i \in 1 .. Len(F) - 1 : Follows(F[i], F[i + 1], sz)

\* and the last of them is whole.
Ends(F, sz) == Len(F) > 0 => F[Len(F)][2] = sz[F[Len(F)][1]]

\* What was handed up is older than what is under way, and that than what waits.
Between(g, F, q) ==
    /\ \A i \in 1 .. Len(g), j \in 1 .. Len(F) : g[i] < F[j][1]
    /\ \A i \in 1 .. Len(g), j \in 1 .. Len(q) : g[i] < q[j][1]
    /\ \A i \in 1 .. Len(F), j \in 1 .. Len(q) : F[i][1] < q[j][1]

\* Every packet was handed up, is under way or waits, or cannot be wrapped.
Accounted(g, F, q, sz) ==
    \A p \in 1 .. Len(sz) :
        \/ TooLong(<<p, sz[p]>>)
        \/ \E i \in 1 .. Len(g) : g[i] = p
        \/ \E i \in 1 .. Len(F) : F[i][1] = p
        \/ \E i \in 1 .. Len(q) : q[i][1] = p

\* The bytes that will reach the proxy if nothing happens to the connection: what
\* is left in send_buf_ is among them only while the connection is up.
Carried == IF sock = "up" THEN Stream ELSE recvBuf \o wire

ControlInv ==
    /\ sock \in {"up", "broken", "closed"} /\ state \in {"RW", "CLOSED"} /\ armed \in BOOLEAN
    /\ armed => sock # "closed"
    /\ resets \in 0 .. MaxReset
    /\ wire \in Seq(Byte) /\ recvBuf \in Seq(Byte) /\ Len(wire) <= Window

\* The invariant, if q waits and packets with the lengths sz were given to sendBuf.
Sound(q, sz) ==
    /\ ControlInv
    /\ Sizes(sz) /\ Len(sz) <= MaxPacket
    /\ Waiting(q, sz) /\ Handed(got, sz) /\ Known(sendBuf, sz)
    /\ Linked(Carried, sz) /\ (sock = "up" => Ends(Carried, sz))
    /\ Between(got, Carried, q)
    /\ sock = "up" /\ resets = 0 => Accounted(got, Carried, q, sz)

IInv == Sound(queue, size)

-----------------------------------------------------------------------------
(* Numbers and sequences.                                                   *)

\* The constants are numbers.
LEMMA Numbers ==
    /\ HeadLen \in Nat /\ MaxData \in Nat /\ Window \in Nat /\ MaxPacket \in Nat /\ MaxReset \in Nat
    /\ HeadLen > 0 /\ Window > 0
  BY LengthAssumption

\* A set of numbers has a least one.
LEMMA LeastNat ==
    ASSUME NEW T, T \subseteq Nat, T # {}
    PROVE  \E x \in T : \A y \in T : x <= y
<1> DEFINE R == OpToRel(<, Nat)
<1>1. \E x \in T : \A y \in T : ~ (<<y, x>> \in R)
  <2>1. IsWellFoundedOn(R, Nat) BY NatLessThanWellFounded
  <2> HIDE DEF R
  <2>2. QED BY <2>1, WFMin
<1>2. PICK x \in T : \A y \in T : ~ (<<y, x>> \in R) BY <1>1
<1>3. ASSUME NEW y \in T PROVE x <= y
  <2>1. ~ (<<y, x>> \in R) BY <1>2
  <2>2. <<y, x>> \in R <=> y < x BY DEF OpToRel
  <2> HIDE DEF R
  <2>3. y \in Nat /\ x \in Nat OBVIOUS
  <2>4. QED BY <2>1, <2>2, <2>3
<1>4. QED BY <1>3

\* Induction: a set of numbers that has 0, and with k the number k + 1, has them all.
LEMMA Induction ==
    ASSUME NEW T, 0 \in T, \A k \in Nat : k \in T => k + 1 \in T
    PROVE  Nat \subseteq T
<1> DEFINE U == {k \in Nat : ~ (k \in T)}
<1> SUFFICES ASSUME U # {} PROVE FALSE OBVIOUS
<1>1. PICK x \in U : \A y \in U : x <= y
  <2>1. U \subseteq Nat OBVIOUS
  <2> HIDE DEF U
  <2>2. QED BY <2>1, LeastNat
<1>2. x \in Nat /\ ~ (x \in T) /\ x # 0 BY <1>1
<1>3. x - 1 \in Nat /\ (x - 1) + 1 = x /\ ~ (x <= x - 1) BY <1>2
<1>4. x - 1 \in T BY <1>1, <1>3
<1>5. QED BY <1>2, <1>3, <1>4

\* A set of numbers that has with each one all the smaller ones is an interval.
LEMMA Interval ==
    ASSUME NEW n \in Nat, NEW A, A \subseteq 1 .. n, \A p \in A : \A q \in 1 .. p : q \in A
    PROVE  \E k \in 0 .. n : A = 1 .. k /\ Cardinality(A) = k
<1> DEFINE T == {x \in Nat : ~ (x + 1 \in A)}
<1>1. PICK k \in T : \A y \in T : k <= y
  <2>1. T \subseteq Nat OBVIOUS
  <2>2. n \in T OBVIOUS
  <2> HIDE DEF T
  <2>3. QED BY <2>1, <2>2, LeastNat
<1>2. n \in T OBVIOUS
<1>3. k \in 0 .. n /\ k \in Nat /\ ~ (k + 1 \in A)
  <2>1. k \in Nat /\ k <= n /\ ~ (k + 1 \in A) BY <1>1, <1>2
  <2>2. QED BY <2>1
<1>4. ASSUME NEW p \in A PROVE p \in 1 .. k
  <2>1. p \in 1 .. n OBVIOUS
  <2>2. CASE p <= k BY <1>3, <2>1, <2>2
  <2>3. CASE p > k
    <3>1. k + 1 \in 1 .. p BY <1>3, <2>1, <2>3
    <3>2. QED BY <1>3, <3>1
  <2>4. QED BY <1>3, <2>1, <2>2, <2>3
<1>5. ASSUME NEW p \in 1 .. k PROVE p \in A
  <2>1. p - 1 \in Nat /\ ~ (k <= p - 1) /\ (p - 1) + 1 = p BY <1>3
  <2>2. ~ (p - 1 \in T) BY <1>1, <2>1
  <2>3. QED BY <2>1, <2>2
<1>6. A = 1 .. k BY <1>4, <1>5
<1>7. Cardinality(1 .. k) = k
  <2>1. Cardinality(1 .. k) = IF 1 > k THEN 0 ELSE k - 1 + 1 BY <1>3, FS_Interval
  <2>2. QED BY <1>3, <2>1
<1>8. QED BY <1>3, <1>6, <1>7

\* The length and the elements of what two sequences make together.
LEMMA Joined ==
    ASSUME NEW S, NEW s \in Seq(S), NEW t \in Seq(S)
    PROVE  /\ s \o t \in Seq(S) /\ Len(s \o t) = Len(s) + Len(t)
           /\ \A i \in 1 .. Len(s) : (s \o t)[i] = s[i]
           /\ \A i \in 1 .. Len(t) : (s \o t)[Len(s) + i] = t[i]
<1> DEFINE a == s \o t
<1>0. Len(s) \in Nat /\ Len(t) \in Nat OBVIOUS
<1>1. /\ s \o t \in Seq(S)
      /\ Len(s \o t) = Len(s) + Len(t)
      /\ \A i \in 1 .. Len(s) + Len(t) : (s \o t)[i] = IF i <= Len(s) THEN s[i] ELSE t[i - Len(s)]
  BY ConcatProperties
<1>2. /\ a \in Seq(S) /\ Len(a) = Len(s) + Len(t)
      /\ \A i \in 1 .. Len(s) + Len(t) : a[i] = IF i <= Len(s) THEN s[i] ELSE t[i - Len(s)]
  BY <1>1
<1> HIDE DEF a
<1>3. \A i \in 1 .. Len(s) : a[i] = s[i] BY <1>0, <1>2
<1>4. ASSUME NEW i \in 1 .. Len(t) PROVE a[Len(s) + i] = t[i]
  <2> DEFINE k == Len(s) + i
  <2>1. k \in 1 .. Len(s) + Len(t) /\ ~ (k <= Len(s)) /\ k - Len(s) = i BY <1>0
  <2> HIDE DEF k
  <2>2. a[k] = t[i] BY <1>2, <2>1
  <2>3. QED BY <2>2 DEF k
<1>5. QED BY <1>2, <1>3, <1>4 DEF a

\* What is left when n elements are dropped.
LEMMA Dropped ==
    ASSUME NEW S, NEW s \in Seq(S), NEW n \in 0 .. Len(s)
    PROVE  /\ Drop(s, n) \in Seq(S) /\ Len(Drop(s, n)) = Len(s) - n
           /\ \A i \in 1 .. Len(s) - n : Drop(s, n)[i] = s[n + i]
<1> DEFINE a == SubSeq(s, n + 1, Len(s))
<1>0. Len(s) \in Nat /\ n \in Nat OBVIOUS
<1>1. n + 1 \in Int /\ Len(s) \in Int /\ \A i \in n + 1 .. Len(s) : s[i] \in S BY <1>0
<1>2. /\ SubSeq(s, n + 1, Len(s)) \in Seq(S)
      /\ Len(SubSeq(s, n + 1, Len(s))) = IF n + 1 <= Len(s) THEN Len(s) - (n + 1) + 1 ELSE 0
      /\ \A i \in 1 .. Len(s) - (n + 1) + 1 : SubSeq(s, n + 1, Len(s))[i] = s[(n + 1) + i - 1]
  BY <1>1, SubSeqProperties
<1>3. Len(s) - (n + 1) + 1 = Len(s) - n BY <1>0
<1>4. (IF n + 1 <= Len(s) THEN Len(s) - (n + 1) + 1 ELSE 0) = Len(s) - n BY <1>0
<1>5. \A i \in 1 .. Len(s) - n : (n + 1) + i - 1 = n + i BY <1>0
<1>6. a \in Seq(S) /\ Len(a) = Len(s) - n /\ \A i \in 1 .. Len(s) - n : a[i] = s[n + i]
  BY <1>2, <1>3, <1>4, <1>5
<1> HIDE DEF a
<1>7. QED BY <1>6 DEF Drop, a

\* The first n elements.
LEMMA Taken ==
    ASSUME NEW S, NEW s \in Seq(S), NEW n \in 0 .. Len(s)
    PROVE  /\ SubSeq(s, 1, n) \in Seq(S) /\ Len(SubSeq(s, 1, n)) = n
           /\ \A i \in 1 .. n : SubSeq(s, 1, n)[i] = s[i]
<1>0. Len(s) \in Nat /\ n \in Nat OBVIOUS
<1>1. 1 \in Int /\ n \in Int /\ \A i \in 1 .. n : s[i] \in S BY <1>0
<1>2. /\ SubSeq(s, 1, n) \in Seq(S)
      /\ Len(SubSeq(s, 1, n)) = IF 1 <= n THEN n - 1 + 1 ELSE 0
      /\ \A i \in 1 .. n - 1 + 1 : SubSeq(s, 1, n)[i] = s[1 + i - 1]
  BY <1>1, SubSeqProperties
<1>3. n - 1 + 1 = n /\ (IF 1 <= n THEN n - 1 + 1 ELSE 0) = n /\ \A i \in 1 .. n : 1 + i - 1 = i BY <1>0
<1>4. QED BY <1>2, <1>3

\* What is taken and what is left make the sequence.
LEMMA Rejoined ==
    ASSUME NEW S, NEW s \in Seq(S), NEW n \in 0 .. Len(s)
    PROVE  SubSeq(s, 1, n) \o Drop(s, n) = s
<1> DEFINE a == SubSeq(s, 1, n)
           d == Drop(s, n)
           j == a \o d
<1>0. Len(s) \in Nat /\ n \in Nat OBVIOUS
<1>1. a \in Seq(S) /\ Len(a) = n /\ \A i \in 1 .. n : a[i] = s[i] BY Taken
<1>2. d \in Seq(S) /\ Len(d) = Len(s) - n /\ \A i \in 1 .. Len(s) - n : d[i] = s[n + i] BY Dropped
<1> HIDE DEF a, d
<1>3. /\ j \in Seq(S) /\ Len(j) = Len(a) + Len(d)
      /\ \A i \in 1 .. Len(a) : j[i] = a[i]
      /\ \A i \in 1 .. Len(d) : j[Len(a) + i] = d[i]
  BY <1>1, <1>2, Joined
<1> HIDE DEF j
<1>4. Len(j) = Len(s) BY <1>0, <1>1, <1>2, <1>3
<1>5. ASSUME NEW i \in 1 .. Len(j) PROVE j[i] = s[i]
  <2>1. CASE i <= n
    <3>1. i \in 1 .. n /\ i \in 1 .. Len(a) BY <1>0, <1>1, <2>1
    <3>2. QED BY <1>1, <1>3, <3>1
  <2>2. CASE ~ (i <= n)
    <3>1. i - n \in 1 .. Len(d) /\ n + (i - n) = i BY <1>0, <1>2, <1>4, <2>2
    <3>2. i - n \in 1 .. Len(s) - n BY <1>2, <3>1
    <3>3. j[n + (i - n)] = d[i - n] BY <1>1, <1>3, <3>1
    <3>4. d[i - n] = s[n + (i - n)] BY <1>2, <3>2
    <3>5. QED BY <3>1, <3>3, <3>4
  <2>3. QED BY <2>1, <2>2
<1>6. j = s BY <1>3, <1>4, <1>5, SeqEqual
<1>7. QED BY <1>6 DEF a, d, j

\* Dropping from the first of two sequences that are joined.
LEMMA DroppedJoined ==
    ASSUME NEW S, NEW s \in Seq(S), NEW t \in Seq(S), NEW n \in 0 .. Len(s)
    PROVE  Drop(s \o t, n) = Drop(s, n) \o t
<1> DEFINE d == Drop(s, n)
           a == s \o t
           b == d \o t
           c == Drop(a, n)
<1>0. Len(s) \in Nat /\ Len(t) \in Nat /\ n \in Nat OBVIOUS
<1>1. d \in Seq(S) /\ Len(d) = Len(s) - n /\ \A i \in 1 .. Len(s) - n : d[i] = s[n + i] BY Dropped
<1>2. /\ a \in Seq(S) /\ Len(a) = Len(s) + Len(t)
      /\ \A i \in 1 .. Len(s) : a[i] = s[i]
      /\ \A i \in 1 .. Len(t) : a[Len(s) + i] = t[i]
  BY Joined
<1> HIDE DEF a, d
<1>3. /\ b \in Seq(S) /\ Len(b) = Len(d) + Len(t)
      /\ \A i \in 1 .. Len(d) : b[i] = d[i]
      /\ \A i \in 1 .. Len(t) : b[Len(d) + i] = t[i]
  <2>1. d \in Seq(S) BY <1>1
  <2>2. QED BY <2>1, Joined
<1>4. c \in Seq(S) /\ Len(c) = Len(a) - n /\ \A i \in 1 .. Len(a) - n : c[i] = a[n + i]
  <2>1. n \in 0 .. Len(a) BY <1>0, <1>2
  <2>2. QED BY <1>2, <2>1, Dropped
<1> HIDE DEF b, c
<1>5. Len(c) = Len(b) BY <1>0, <1>1, <1>2, <1>3, <1>4
<1>6. ASSUME NEW i \in 1 .. Len(c) PROVE c[i] = b[i]
  <2>1. c[i] = a[n + i] BY <1>4
  <2>2. CASE i <= Len(s) - n
    <3>1. n + i \in 1 .. Len(s) /\ i \in 1 .. Len(d) /\ i \in 1 .. Len(s) - n BY <1>0, <1>1, <2>2
    <3>2. QED BY <1>1, <1>2, <1>3, <2>1, <3>1
  <2>3. CASE ~ (i <= Len(s) - n)
    <3> DEFINE k == i - (Len(s) - n)
    <3>1. k \in 1 .. Len(t) /\ Len(s) + k = n + i /\ Len(d) + k = i BY <1>0, <1>1, <1>2, <1>4, <2>3
    <3> HIDE DEF k
    <3>2. QED BY <1>2, <1>3, <2>1, <3>1
  <2>4. QED BY <2>2, <2>3
<1>7. c = b BY <1>3, <1>4, <1>5, <1>6, SeqEqual
<1>8. QED BY <1>7 DEF a, b, c, d

\* Dropping twice.
LEMMA DroppedTwice ==
    ASSUME NEW S, NEW s \in Seq(S), NEW m \in 0 .. Len(s), NEW n \in 0 .. Len(s) - m
    PROVE  Drop(Drop(s, m), n) = Drop(s, m + n)
<1> DEFINE a == Drop(s, m)
           b == Drop(s, m + n)
           c == Drop(a, n)
<1>0. Len(s) \in Nat /\ m \in Nat /\ n \in Nat /\ m + n \in 0 .. Len(s) OBVIOUS
<1>1. a \in Seq(S) /\ Len(a) = Len(s) - m /\ \A i \in 1 .. Len(s) - m : a[i] = s[m + i] BY Dropped
<1>2. b \in Seq(S) /\ Len(b) = Len(s) - (m + n) /\ \A i \in 1 .. Len(s) - (m + n) : b[i] = s[m + n + i]
  BY <1>0, Dropped
<1> HIDE DEF a, b
<1>3. c \in Seq(S) /\ Len(c) = Len(a) - n /\ \A i \in 1 .. Len(a) - n : c[i] = a[n + i]
  <2>1. a \in Seq(S) /\ n \in 0 .. Len(a) BY <1>0, <1>1
  <2>2. QED BY <2>1, Dropped
<1> HIDE DEF c
<1>4. Len(c) = Len(b) BY <1>0, <1>1, <1>2, <1>3
<1>5. ASSUME NEW i \in 1 .. Len(c) PROVE c[i] = b[i]
  <2>1. n + i \in 1 .. Len(s) - m /\ i \in 1 .. Len(s) - (m + n) /\ i \in 1 .. Len(a) - n /\ m + (n + i) = m + n + i
    BY <1>0, <1>1, <1>3
  <2>2. QED BY <1>1, <1>2, <1>3, <2>1
<1>6. c = b BY <1>2, <1>3, <1>4, <1>5, SeqEqual
<1>7. QED BY <1>6 DEF a, b, c

-----------------------------------------------------------------------------
(* ParseTcpPdu runs parseOne as often as there are bytes.                   *)

\* The rounds of ParseTcpPdu.
LEMMA RoundsExist ==
    ASSUME NEW b, Len(b) \in Nat
    PROVE  \E f : /\ f[0] = [buf |-> b, done |-> << >>]
                  /\ \A k \in 1 .. Len(b) : f[k] = parseOne(f[k - 1])
                  /\ ParseTcpPdu(b) = f[Len(b)]
<1> DEFINE base == [buf |-> b, done |-> << >>]
           Is(f, n) == f = [k \in 0 .. n |-> IF k = 0 THEN base ELSE parseOne(f[k - 1])]
           T == {n \in Nat : \E f : Is(f, n)}
<1> HIDE DEF base
<1>1. 0 \in T
  <2> DEFINE f == [k \in 0 .. 0 |-> base]
  <2>1. Is(f, 0) OBVIOUS
  <2>2. QED BY <2>1
<1>2. ASSUME NEW n \in Nat, n \in T PROVE n + 1 \in T
  <2>1. PICK f : Is(f, n) BY <1>2
  <2> DEFINE g == [k \in 0 .. n + 1 |-> IF k <= n THEN f[k] ELSE parseOne(f[n])]
  <2>2. ASSUME NEW k \in 0 .. n + 1 PROVE g[k] = IF k = 0 THEN base ELSE parseOne(g[k - 1])
    <3>1. CASE k = 0
      <4>1. f[0] = base BY <2>1
      <4>2. QED BY <3>1, <4>1
    <3>2. CASE k # 0 /\ k <= n
      <4>1. f[k] = parseOne(f[k - 1]) BY <2>1, <3>2
      <4>2. k - 1 \in 0 .. n + 1 /\ k - 1 <= n BY <3>2
      <4>3. g[k] = f[k] /\ g[k - 1] = f[k - 1] BY <3>2, <4>2
      <4>4. QED BY <3>2, <4>1, <4>3
    <3>3. CASE k = n + 1
      <4>1. k - 1 = n /\ n \in 0 .. n + 1 /\ k # 0 /\ ~ (k <= n) BY <3>3
      <4>2. g[k] = parseOne(f[n]) /\ g[k - 1] = f[n] BY <4>1
      <4>3. QED BY <4>1, <4>2
    <3>4. QED BY <3>1, <3>2, <3>3
  <2>3. Is(g, n + 1)
    <3>1. g = [k \in 0 .. n + 1 |-> g[k]] OBVIOUS
    <3> HIDE DEF g
    <3>2. QED BY <2>2, <3>1
  <2> HIDE DEF g, Is
  <2>4. n + 1 \in Nat OBVIOUS
  <2>5. QED BY <2>3, <2>4
<1>3. Len(b) \in T
  <2> HIDE DEF T
  <2>1. QED BY <1>1, <1>2, Induction
<1> DEFINE round == CHOOSE f : Is(f, Len(b))
<1>4. Is(round, Len(b))
  <2>1. \E f : Is(f, Len(b)) BY <1>3
  <2> HIDE DEF Is
  <2>2. QED BY <2>1
<1>5. ParseTcpPdu(b) = round[Len(b)] BY DEF ParseTcpPdu, base
<1> HIDE DEF round
<1>6. round[0] = base BY <1>4
<1>7. \A k \in 1 .. Len(b) : round[k] = parseOne(round[k - 1]) BY <1>4
<1>8. QED BY <1>5, <1>6, <1>7 DEF base

\* What holds before the first round and is kept by each holds of the result.
LEMMA Rounds ==
    ASSUME NEW b, Len(b) \in Nat, NEW S,
           <<0, [buf |-> b, done |-> << >>]>> \in S,
           \A k \in Nat : \A s : <<k, s>> \in S => <<k + 1, parseOne(s)>> \in S
    PROVE  <<Len(b), ParseTcpPdu(b)>> \in S
<1>1. PICK f : /\ f[0] = [buf |-> b, done |-> << >>]
               /\ \A k \in 1 .. Len(b) : f[k] = parseOne(f[k - 1])
               /\ ParseTcpPdu(b) = f[Len(b)]
  BY RoundsExist
<1> DEFINE T == {k \in Nat : k <= Len(b) => <<k, f[k]>> \in S}
<1>2. 0 \in T BY <1>1
<1>3. ASSUME NEW k \in Nat, k \in T PROVE k + 1 \in T
  <2> SUFFICES ASSUME k + 1 <= Len(b) PROVE <<k + 1, f[k + 1]>> \in S OBVIOUS
  <2>1. <<k, f[k]>> \in S BY <1>3
  <2>2. k + 1 \in 1 .. Len(b) /\ (k + 1) - 1 = k OBVIOUS
  <2>3. f[k + 1] = parseOne(f[k]) BY <1>1, <2>2
  <2>4. QED BY <2>1, <2>3
<1>4. Len(b) \in T
  <2> HIDE DEF T
  <2>1. QED BY <1>2, <1>3, Induction
<1>5. QED BY <1>1, <1>4

-----------------------------------------------------------------------------
(* Bytes that follow each other.                                            *)

\* A step from a byte to the next stays in its packet or goes to a later one.
LEMMA Sorted ==
    ASSUME NEW F, NEW sz, Sizes(sz), Linked(F, sz), NEW i \in 1 .. Len(F), NEW j \in i .. Len(F)
    PROVE  F[i][1] <= F[j][1]
<1>0. Len(F) \in Nat /\ i \in Nat /\ F \in Seq(Byte) BY DEF Linked, Known
<1>1. \A h \in 1 .. Len(F) : F[h][1] \in Nat BY DEF Linked, Known, Byte
<1> DEFINE T == {d \in Nat : i + d <= Len(F) => F[i][1] <= F[i + d][1]}
<1>2. 0 \in T
  <2>1. i + 0 = i BY <1>0
  <2>2. F[i][1] <= F[i][1] BY <1>1
  <2>3. QED BY <2>1, <2>2
<1>3. ASSUME NEW d \in Nat, d \in T PROVE d + 1 \in T
  <2> SUFFICES ASSUME i + (d + 1) <= Len(F) PROVE F[i][1] <= F[i + (d + 1)][1] OBVIOUS
  <2> DEFINE h == i + d
  <2>1. h \in 1 .. Len(F) - 1 /\ h \in 1 .. Len(F) /\ h + 1 \in 1 .. Len(F) /\ i + (d + 1) = h + 1 BY <1>0
  <2>2. F[i][1] <= F[h][1] BY <1>3, <2>1
  <2> HIDE DEF h
  <2>3. F[h][1] <= F[h + 1][1]
    <3>1. Follows(F[h], F[h + 1], sz) BY <2>1 DEF Linked
    <3>2. F[h][1] \in Nat /\ F[h + 1][1] \in Nat BY <1>1, <2>1
    <3>3. QED BY <3>1, <3>2 DEF Follows
  <2>4. F[i][1] \in Nat /\ F[h][1] \in Nat /\ F[h + 1][1] \in Nat BY <1>1, <2>1
  <2>5. QED BY <2>1, <2>2, <2>3, <2>4
<1>4. j - i \in T
  <2>1. j - i \in Nat BY <1>0
  <2> HIDE DEF T
  <2>2. QED BY <1>2, <1>3, <2>1, Induction
<1>5. i + (j - i) = j /\ j <= Len(F) BY <1>0
<1>6. QED BY <1>4, <1>5

\* Behind the first byte of a packet come its other bytes, as far as bytes come.
LEMMA WholePdu ==
    ASSUME NEW F, NEW sz, Sizes(sz), Linked(F, sz), NEW m \in Nat, m < Len(F), F[m + 1][2] = 1,
           NEW n \in Nat, 0 < n, n <= sz[F[m + 1][1]], m + n <= Len(F)
    PROVE  F[m + n] = <<F[m + 1][1], n>>
<1> DEFINE p == F[m + 1][1]
<1>0. Len(F) \in Nat /\ F \in Seq(Byte) BY DEF Linked, Known
<1>1. m + 1 \in 1 .. Len(F) BY <1>0
<1>2. p \in 1 .. Len(sz) /\ p \in Nat /\ sz[p] \in Nat
  <2>1. p \in 1 .. Len(sz) BY <1>1 DEF Linked, Known
  <2> HIDE DEF p
  <2>2. sz \in Seq(Nat) BY DEF Sizes
  <2>3. QED BY <2>1, <2>2
<1>3. F[m + 1] = <<p, 1>>
  <2>1. F[m + 1] \in Nat \X Nat BY <1>0, <1>1 DEF Byte
  <2>2. F[m + 1] = <<F[m + 1][1], F[m + 1][2]>> BY <2>1
  <2>3. QED BY <2>2
<1> HIDE DEF p
<1> DEFINE T == {d \in Nat : d < sz[p] /\ m + 1 + d <= Len(F) => F[m + 1 + d] = <<p, d + 1>>}
<1>4. 0 \in T
  <2>1. m + 1 + 0 = m + 1 /\ 0 + 1 = 1 OBVIOUS
  <2>2. QED BY <1>3, <2>1
<1>5. ASSUME NEW d \in Nat, d \in T PROVE d + 1 \in T
  <2> SUFFICES ASSUME d + 1 < sz[p], m + 1 + (d + 1) <= Len(F) PROVE F[m + 1 + (d + 1)] = <<p, d + 1 + 1>> OBVIOUS
  <2> DEFINE h == m + 1 + d
  <2>1. h \in 1 .. Len(F) - 1 /\ m + 1 + (d + 1) = h + 1 /\ d < sz[p] /\ m + 1 + d <= Len(F) BY <1>0, <1>2
  <2>2. F[h] = <<p, d + 1>> BY <1>5, <2>1
  <2> HIDE DEF h
  <2>3. Follows(F[h], F[h + 1], sz) BY <2>1 DEF Linked
  <2>4. F[h][1] = p /\ F[h][2] = d + 1 BY <2>2
  <2>5. F[h + 1] = <<p, d + 1 + 1>> BY <2>3, <2>4 DEF Follows
  <2>6. QED BY <2>1, <2>5
<1>6. n - 1 \in T
  <2>1. n - 1 \in Nat OBVIOUS
  <2> HIDE DEF T
  <2>2. QED BY <1>4, <1>5, <2>1, Induction
<1>7. n - 1 < sz[p] /\ m + 1 + (n - 1) = m + n /\ n - 1 + 1 = n BY <1>2 DEF p
<1>8. F[m + n] = <<p, n>> BY <1>6, <1>7
<1>9. QED BY <1>8 DEF p

\* Without whole PDUs at its start a sequence is still one of whole PDUs.
LEMMA LinkedTail ==
    ASSUME NEW F, NEW sz, Linked(F, sz), NEW m \in 0 .. Len(F), m < Len(F) => F[m + 1][2] = 1
    PROVE  /\ Linked(Drop(F, m), sz)
           /\ Ends(F, sz) => Ends(Drop(F, m), sz)
<1> DEFINE G == Drop(F, m)
<1>0. Len(F) \in Nat /\ m \in Nat /\ F \in Seq(Byte) BY DEF Linked, Known
<1>1. G \in Seq(Byte) /\ Len(G) = Len(F) - m /\ \A i \in 1 .. Len(F) - m : G[i] = F[m + i] BY <1>0, Dropped
<1> HIDE DEF G
<1>2. \A i \in 1 .. Len(G) : m + i \in 1 .. Len(F) /\ G[i] = F[m + i] BY <1>0, <1>1
<1>3. Known(G, sz) BY <1>1, <1>2 DEF Linked, Known
<1>4. \A i \in 1 .. Len(G) : G[i][2] <= sz[G[i][1]] BY <1>2 DEF Linked
<1>5. Len(G) > 0 => G[1][2] = 1
  <2> SUFFICES ASSUME Len(G) > 0 PROVE G[1][2] = 1 OBVIOUS
  <2>1. 1 \in 1 .. Len(G) /\ m < Len(F) BY <1>0, <1>1
  <2>2. QED BY <1>2, <2>1
<1>6. ASSUME NEW i \in 1 .. Len(G) - 1 PROVE Follows(G[i], G[i + 1], sz)
  <2>1. /\ i \in 1 .. Len(G) /\ i + 1 \in 1 .. Len(G) /\ m + i \in 1 .. Len(F) - 1 /\ m + (i + 1) = (m + i) + 1
    <3>1. Len(G) = Len(F) - m BY <1>1
    <3>2. QED BY <1>0, <3>1
  <2>2. G[i] = F[m + i] /\ G[i + 1] = F[(m + i) + 1]
    <3> DEFINE h == i + 1
    <3>1. h \in 1 .. Len(G) /\ m + h = (m + i) + 1 BY <2>1
    <3> HIDE DEF h
    <3>2. G[h] = F[(m + i) + 1] BY <1>2, <3>1
    <3>3. G[i] = F[m + i] BY <1>2, <2>1
    <3>4. QED BY <3>2, <3>3 DEF h
  <2>3. QED BY <2>1, <2>2 DEF Linked
<1>7. Linked(G, sz) BY <1>3, <1>4, <1>5, <1>6 DEF Linked
<1>8. ASSUME Ends(F, sz), Len(G) > 0 PROVE G[Len(G)][2] = sz[G[Len(G)][1]]
  <2>1. Len(G) \in 1 .. Len(G) /\ m + Len(G) = Len(F) /\ Len(F) > 0 BY <1>0, <1>1, <1>8
  <2>2. G[Len(G)] = F[Len(F)] BY <1>2, <2>1
  <2>3. QED BY <1>8, <2>1, <2>2 DEF Ends
<1>9. QED BY <1>7, <1>8 DEF G, Ends

\* So is its beginning, but for the last of them.
LEMMA LinkedStart ==
    ASSUME NEW r \in Seq(Byte), NEW s \in Seq(Byte), NEW sz, Linked(r \o s, sz)
    PROVE  Linked(r, sz)
<1> DEFINE F == r \o s
<1>0. Len(r) \in Nat /\ Len(s) \in Nat OBVIOUS
<1>1. F \in Seq(Byte) /\ Len(F) = Len(r) + Len(s) /\ \A i \in 1 .. Len(r) : F[i] = r[i] BY Joined
<1>2. Linked(F, sz) OBVIOUS
<1> HIDE DEF F
<1>3. \A i \in 1 .. Len(r) : i \in 1 .. Len(F) BY <1>0, <1>1
<1>4. Known(r, sz) BY <1>1, <1>2, <1>3 DEF Linked, Known
<1>5. \A i \in 1 .. Len(r) : r[i][2] <= sz[r[i][1]] BY <1>1, <1>2, <1>3 DEF Linked
<1>6. Len(r) > 0 => r[1][2] = 1
  <2> SUFFICES ASSUME Len(r) > 0 PROVE r[1][2] = 1 OBVIOUS
  <2>1. 1 \in 1 .. Len(r) /\ Len(F) > 0 BY <1>0, <1>1
  <2>2. QED BY <1>1, <1>2, <2>1 DEF Linked
<1>7. ASSUME NEW i \in 1 .. Len(r) - 1 PROVE Follows(r[i], r[i + 1], sz)
  <2>1. i \in 1 .. Len(r) /\ i + 1 \in 1 .. Len(r) /\ i \in 1 .. Len(F) - 1 BY <1>0, <1>1
  <2>2. QED BY <1>1, <1>2, <2>1 DEF Linked
<1>8. QED BY <1>4, <1>5, <1>6, <1>7 DEF Linked

\* The bytes of a PDU.
LEMMA PduBytes ==
    ASSUME NEW p \in Nat, NEW n \in Nat
    PROVE  /\ Bytes(<<p, n>>) \in Seq(Byte) /\ Len(Bytes(<<p, n>>)) = n
           /\ \A i \in 1 .. n : Bytes(<<p, n>>)[i] = <<p, i>>
<1> DEFINE b == Bytes(<<p, n>>)
<1>1. b = [i \in 1 .. n |-> <<p, i>>] BY DEF Bytes
<1>2. \A i \in 1 .. n : <<p, i>> \in Byte BY DEF Byte
<1>3. b \in [1 .. n -> Byte] BY <1>1, <1>2
<1>4. b \in Seq(Byte) /\ Len(b) = n
  <2> HIDE DEF b
  <2>1. QED BY <1>3
<1>5. QED BY <1>1, <1>4

\* A later packet may be put behind whole PDUs.
LEMMA Grown ==
    ASSUME NEW F, NEW sz, Sizes(sz), Linked(F, sz), Ends(F, sz), NEW p \in 1 .. Len(sz),
           \A i \in 1 .. Len(F) : F[i][1] < p
    PROVE  /\ Linked(F \o Bytes(<<p, sz[p]>>), sz)
           /\ Ends(F \o Bytes(<<p, sz[p]>>), sz)
<1> DEFINE n == sz[p]
           b == Bytes(<<p, n>>)
           G == F \o b
<1>0. Len(F) \in Nat /\ F \in Seq(Byte) /\ p \in Nat /\ n \in Nat /\ n > 0 /\ sz[p] = n
  <2>1. Len(F) \in Nat /\ F \in Seq(Byte) BY DEF Linked, Known
  <2>2. sz \in Seq(Nat) /\ sz[p] >= HeadLen BY DEF Sizes
  <2>3. p \in Nat /\ sz[p] \in Nat BY <2>2
  <2>4. QED BY <2>1, <2>2, <2>3, Numbers
<1> HIDE DEF n
<1>1. b \in Seq(Byte) /\ Len(b) = n /\ \A i \in 1 .. n : b[i] = <<p, i>> BY <1>0, PduBytes
<1> HIDE DEF b
<1>2. /\ G \in Seq(Byte) /\ Len(G) = Len(F) + Len(b)
      /\ \A i \in 1 .. Len(F) : G[i] = F[i]
      /\ \A i \in 1 .. Len(b) : G[Len(F) + i] = b[i]
  <2>1. F \in Seq(Byte) /\ b \in Seq(Byte) BY <1>0, <1>1
  <2>2. QED BY <2>1, Joined
<1> HIDE DEF G
<1>3. \A i \in 1 .. n : G[Len(F) + i] = <<p, i>> BY <1>1, <1>2
<1>4. ASSUME NEW i \in 1 .. Len(G), ~ (i <= Len(F)) PROVE i - Len(F) \in 1 .. n /\ G[i] = <<p, i - Len(F)>>
  <2>1. i - Len(F) \in 1 .. n /\ Len(F) + (i - Len(F)) = i BY <1>0, <1>1, <1>2, <1>4
  <2>2. QED BY <1>3, <2>1
<1>5. ASSUME NEW i \in 1 .. Len(G) PROVE G[i][1] \in 1 .. Len(sz) /\ G[i][2] <= sz[G[i][1]]
  <2>1. CASE i <= Len(F)
    <3>1. i \in 1 .. Len(F) BY <1>0, <2>1
    <3>2. QED BY <1>2, <3>1 DEF Linked, Known
  <2>2. CASE ~ (i <= Len(F))
    <3>1. i - Len(F) \in 1 .. n /\ G[i] = <<p, i - Len(F)>> BY <1>4, <2>2
    <3>2. G[i][1] = p /\ G[i][2] = i - Len(F) BY <3>1
    <3>3. i - Len(F) <= n BY <1>0, <3>1
    <3>4. QED BY <1>0, <3>2, <3>3
  <2>3. QED BY <2>1, <2>2
<1>6. G[1][2] = 1
  <2>1. CASE Len(F) = 0
    <3>1. Len(F) + 1 = 1 /\ 1 \in 1 .. n BY <1>0, <2>1
    <3>2. G[1] = <<p, 1>> BY <1>3, <3>1
    <3>3. QED BY <3>2
  <2>2. CASE Len(F) # 0
    <3>1. Len(F) > 0 /\ 1 \in 1 .. Len(F) BY <1>0, <2>2
    <3>2. QED BY <1>2, <3>1 DEF Linked
  <2>3. QED BY <2>1, <2>2
<1>7. ASSUME NEW i \in 1 .. Len(G) - 1 PROVE Follows(G[i], G[i + 1], sz)
  <2>0. i \in Nat /\ i \in 1 .. Len(G) /\ i + 1 \in 1 .. Len(G) BY <1>0, <1>1, <1>2
  <2>1. CASE i < Len(F)
    <3>1. i \in 1 .. Len(F) - 1 /\ i \in 1 .. Len(F) /\ i + 1 \in 1 .. Len(F) BY <1>0, <2>0, <2>1
    <3>2. G[i] = F[i] /\ G[i + 1] = F[i + 1] BY <1>2, <3>1
    <3>3. QED BY <3>1, <3>2 DEF Linked
  <2>2. CASE i = Len(F)
    <3>1. Len(F) \in 1 .. Len(F) /\ 1 \in 1 .. n /\ Len(F) > 0 BY <1>0, <2>0, <2>2
    <3>2. G[i] = F[Len(F)] /\ G[i + 1] = <<p, 1>> BY <1>2, <1>3, <2>2, <3>1
    <3>3. F[Len(F)][2] = sz[F[Len(F)][1]] /\ F[Len(F)][1] < p BY <3>1 DEF Ends
    <3>4. F[Len(F)][1] \in 1 .. Len(sz) BY <3>1 DEF Linked, Known
    <3>5. sz[F[Len(F)][1]] \in Nat
      <4> DEFINE x == F[Len(F)][1]
      <4>1. sz \in Seq(Nat) /\ x \in 1 .. Len(sz) BY <3>4 DEF Sizes
      <4> HIDE DEF x
      <4>2. sz[x] \in Nat BY <4>1
      <4>3. QED BY <4>2 DEF x
    <3>6. ~ (G[i][2] < sz[G[i][1]]) BY <3>2, <3>3, <3>5
    <3>7. G[i + 1][1] = p /\ G[i + 1][2] = 1 BY <3>2
    <3>8. QED BY <3>2, <3>3, <3>6, <3>7 DEF Follows
  <2>3. CASE i > Len(F)
    <3>1. ~ (i <= Len(F)) /\ ~ (i + 1 <= Len(F)) BY <1>0, <2>0, <2>3
    <3>2. i - Len(F) \in 1 .. n /\ G[i] = <<p, i - Len(F)>> BY <1>4, <2>0, <3>1
    <3>3. (i + 1) - Len(F) \in 1 .. n /\ G[i + 1] = <<p, (i + 1) - Len(F)>>
      <4> DEFINE h == i + 1
      <4>1. h \in 1 .. Len(G) /\ ~ (h <= Len(F)) BY <2>0, <3>1
      <4> HIDE DEF h
      <4>2. h - Len(F) \in 1 .. n /\ G[h] = <<p, h - Len(F)>> BY <1>4, <4>1
      <4>3. QED BY <4>2 DEF h
    <3>4. (i + 1) - Len(F) = (i - Len(F)) + 1 /\ i - Len(F) < n
      <4>1. (i + 1) - Len(F) \in 1 .. n BY <3>3
      <4>2. QED BY <1>0, <2>0, <4>1
    <3>5. G[i][1] = p /\ G[i][2] = i - Len(F) BY <3>2
    <3>6. QED BY <1>0, <3>3, <3>4, <3>5 DEF Follows
  <2>4. QED BY <1>0, <2>0, <2>1, <2>2, <2>3
<1>8. Linked(G, sz) BY <1>2, <1>5, <1>6, <1>7 DEF Linked, Known
<1>9. Ends(G, sz)
  <2>1. n \in 1 .. n /\ Len(G) = Len(F) + n BY <1>0, <1>1, <1>2
  <2>2. G[Len(G)] = <<p, n>> BY <1>3, <2>1
  <2>3. G[Len(G)][1] = p /\ G[Len(G)][2] = n BY <2>2
  <2>4. QED BY <1>0, <2>3 DEF Ends
<1>10. QED BY <1>8, <1>9 DEF G, b, n

-----------------------------------------------------------------------------
(* The proxy.                                                               *)

\* F are the bytes of a connection and the first of them, b, have been read.  After
\* some rounds of ParseTcpPdu m of them are parsed, and these are the packets that
\* are done.
Parsed(F, b, m, s) ==
    /\ m \in 0 .. Len(b)
    /\ s.buf = Drop(b, m)
    /\ m < Len(F) => F[m + 1][2] = 1
    /\ s.done \in Seq(Nat)
    /\ \A i, j \in 1 .. Len(s.done) : i < j => s.done[i] < s.done[j]
    /\ \A i \in 1 .. Len(s.done) : \E h \in 1 .. m : F[h][1] = s.done[i]
    /\ \A h \in 1 .. m : \E i \in 1 .. Len(s.done) : s.done[i] = F[h][1]
    /\ \A i \in 1 .. Len(s.done), h \in m + 1 .. Len(F) : s.done[i] < F[h][1]

\* A round takes the next PDU, if it is whole.
LEMMA ParseStep ==
    ASSUME Sizes(size), NEW F, Linked(F, size), NEW b \in Seq(Byte),
           Len(b) <= Len(F), \A i \in 1 .. Len(b) : F[i] = b[i],
           NEW m, NEW s, Parsed(F, b, m, s)
    PROVE  \E k : Parsed(F, b, k, parseOne(s))
<1>0. Len(F) \in Nat /\ Len(b) \in Nat /\ m \in Nat /\ m <= Len(b) /\ F \in Seq(Byte) /\ m \in 0 .. Len(b)
  BY DEF Linked, Known, Parsed
<1>1. /\ s.buf \in Seq(Byte) /\ Len(s.buf) = Len(b) - m
      /\ \A i \in 1 .. Len(b) - m : s.buf[i] = b[m + i]
  <2>1. /\ Drop(b, m) \in Seq(Byte) /\ Len(Drop(b, m)) = Len(b) - m
        /\ \A i \in 1 .. Len(b) - m : Drop(b, m)[i] = b[m + i]
    BY <1>0, Dropped
  <2>2. QED BY <2>1 DEF Parsed
<1> DEFINE p == s.buf[1][1]
<1>2. CASE Len(s.buf) < HeadLen \/ Len(s.buf) < size[p]
  <2>1. parseOne(s) = s BY <1>2 DEF parseOne
  <2>2. QED BY <2>1
<1>3. CASE ~ (Len(s.buf) < HeadLen \/ Len(s.buf) < size[p])
  <2> DEFINE n == size[p]
             t == parseOne(s)
  <2>1. m < Len(b) /\ m < Len(F) /\ 1 \in 1 .. Len(b) - m /\ m + 1 \in 1 .. Len(b) /\ m + 1 \in 1 .. Len(F)
    BY <1>0, <1>1, <1>3, Numbers
  <2>2. p = F[m + 1][1] /\ F[m + 1][2] = 1 BY <1>1, <2>1 DEF Parsed
  <2>3. p \in 1 .. Len(size) /\ p \in Nat BY <2>1, <2>2 DEF Linked, Known
  <2> HIDE DEF p
  <2>4. n \in Nat /\ n > 0 /\ n <= Len(b) - m BY <1>0, <1>1, <1>3, <2>3, Numbers DEF Sizes
  <2>5. t = [buf |-> Drop(s.buf, n), done |-> Append(s.done, p)] BY <1>3 DEF parseOne, p
  <2>6. t.buf = Drop(s.buf, n) /\ t.done = Append(s.done, p) BY <2>5
  <2> HIDE DEF t
  <2>7. size[p] = n OBVIOUS
  <2> HIDE DEF n
  <2> DEFINE k == m + n
  <2>8. k \in Nat /\ k \in 0 .. Len(b) /\ k <= Len(F) /\ k \in 1 .. Len(F) /\ m < k BY <1>0, <2>4
  <2>9. t.buf = Drop(b, k)
    <3>1. n \in 0 .. Len(b) - m BY <1>0, <2>4
    <3>2. Drop(Drop(b, m), n) = Drop(b, m + n) BY <1>0, <3>1, DroppedTwice
    <3>3. QED BY <2>6, <3>2 DEF Parsed
  <2>10. ASSUME NEW h \in m + 1 .. k PROVE F[h] = <<p, h - m>>
    <3> DEFINE d == h - m
    <3>1. d \in Nat /\ 0 < d /\ d <= n /\ m + d = h /\ m + d <= Len(F) BY <1>0, <2>4, <2>8
    <3> HIDE DEF d
    <3>2. d <= size[F[m + 1][1]] BY <2>2, <2>7, <3>1
    <3>3. F[m + d] = <<F[m + 1][1], d>> BY <1>0, <2>1, <2>2, <3>1, <3>2, WholePdu
    <3>4. QED BY <2>2, <3>1, <3>3 DEF d
  <2>11. F[k][1] = p /\ F[k][2] = n
    <3>1. k \in m + 1 .. k /\ k - m = n BY <1>0, <2>4, <2>8
    <3>2. F[k] = <<p, n>> BY <2>10, <3>1
    <3>3. QED BY <3>2
  <2>12. ASSUME k < Len(F) PROVE F[k + 1][2] = 1 /\ p < F[k + 1][1]
    <3>1. k \in 1 .. Len(F) - 1 BY <1>0, <2>8, <2>12
    <3>2. Follows(F[k], F[k + 1], size) BY <3>1 DEF Linked
    <3>3. QED BY <2>4, <2>7, <2>11, <3>2 DEF Follows
  <2>13. ASSUME NEW h \in k + 1 .. Len(F) PROVE p < F[h][1]
    <3>1. k < Len(F) /\ k + 1 \in 1 .. Len(F) /\ h \in 1 .. Len(F) BY <1>0, <2>8
    <3>2. F[k + 1][1] <= F[h][1] BY <3>1, Sorted
    <3>3. F[k + 1][1] \in Nat /\ F[h][1] \in Nat BY <3>1 DEF Linked, Known, Byte
    <3>4. QED BY <2>3, <2>12, <3>1, <3>2, <3>3
  <2>14. s.done \in Seq(Nat) /\ Len(s.done) \in Nat BY DEF Parsed
  <2>15. /\ t.done \in Seq(Nat) /\ Len(t.done) = Len(s.done) + 1
         /\ \A i \in 1 .. Len(s.done) : t.done[i] = s.done[i]
         /\ t.done[Len(s.done) + 1] = p
    BY <2>3, <2>6, <2>14
  <2>16. \A i \in 1 .. Len(t.done) : i \in 1 .. Len(s.done) \/ i = Len(s.done) + 1 BY <2>14, <2>15
  <2>17. \A i \in 1 .. Len(s.done) : s.done[i] < p
    <3>1. m + 1 \in m + 1 .. Len(F) BY <2>1, <1>0
    <3>2. QED BY <2>2, <3>1 DEF Parsed
  <2>18. \A i, j \in 1 .. Len(t.done) : i < j => t.done[i] < t.done[j]
    <3> SUFFICES ASSUME NEW i \in 1 .. Len(t.done), NEW j \in 1 .. Len(t.done), i < j PROVE t.done[i] < t.done[j]
      OBVIOUS
    <3>1. i \in 1 .. Len(s.done) BY <2>14, <2>15, <2>16
    <3>2. CASE j \in 1 .. Len(s.done) BY <2>15, <3>1, <3>2 DEF Parsed
    <3>3. CASE j = Len(s.done) + 1 BY <2>15, <2>17, <3>1, <3>3
    <3>4. QED BY <2>16, <3>2, <3>3
  <2>19. ASSUME NEW i \in 1 .. Len(t.done) PROVE \E h \in 1 .. k : F[h][1] = t.done[i]
    <3>1. CASE i \in 1 .. Len(s.done)
      <4>1. PICK h \in 1 .. m : F[h][1] = s.done[i] BY <3>1 DEF Parsed
      <4>2. h \in 1 .. k BY <1>0, <2>8
      <4>3. QED BY <2>15, <3>1, <4>1, <4>2
    <3>2. CASE i = Len(s.done) + 1
      <4>1. k \in 1 .. k BY <2>8
      <4>2. QED BY <2>11, <2>15, <3>2, <4>1
    <3>3. QED BY <2>16, <3>1, <3>2
  <2>20. ASSUME NEW h \in 1 .. k PROVE \E i \in 1 .. Len(t.done) : t.done[i] = F[h][1]
    <3>1. CASE h <= m
      <4>1. h \in 1 .. m BY <1>0, <3>1
      <4>2. PICK i \in 1 .. Len(s.done) : s.done[i] = F[h][1] BY <4>1 DEF Parsed
      <4>3. i \in 1 .. Len(t.done) BY <2>14, <2>15
      <4>4. QED BY <2>15, <4>2, <4>3
    <3>2. CASE ~ (h <= m)
      <4>1. h \in m + 1 .. k BY <1>0, <2>8, <3>2
      <4>2. F[h][1] = p BY <2>10, <4>1
      <4>3. Len(s.done) + 1 \in 1 .. Len(t.done) BY <2>14, <2>15
      <4>4. QED BY <2>15, <4>2, <4>3
    <3>3. QED BY <3>1, <3>2
  <2>21. ASSUME NEW i \in 1 .. Len(t.done), NEW h \in k + 1 .. Len(F) PROVE t.done[i] < F[h][1]
    <3>1. CASE i \in 1 .. Len(s.done)
      <4>1. h \in m + 1 .. Len(F) BY <1>0, <2>8
      <4>2. QED BY <2>15, <3>1, <4>1 DEF Parsed
    <3>2. CASE i = Len(s.done) + 1 BY <2>13, <2>15, <3>2
    <3>3. QED BY <2>16, <3>1, <3>2
  <2>22. k < Len(F) => F[k + 1][2] = 1 BY <2>12
  <2> HIDE DEF k
  <2>23. Parsed(F, b, k, t) BY <2>8, <2>9, <2>15, <2>18, <2>19, <2>20, <2>21, <2>22 DEF Parsed
  <2>24. QED BY <2>23 DEF t
<1>4. QED BY <1>2, <1>3

\* What ParseTcpPdu hands up and leaves of the bytes read.
LEMMA ParseResult ==
    ASSUME Sizes(size), NEW F, Linked(F, size), NEW b \in Seq(Byte),
           Len(b) <= Len(F), \A i \in 1 .. Len(b) : F[i] = b[i]
    PROVE  \E m : Parsed(F, b, m, ParseTcpPdu(b))
<1> DEFINE first == [buf |-> b, done |-> << >>]
           R == [buf : Seq(Byte), done : Seq(Nat)]
           S == {x \in Nat \X R : \E m : Parsed(F, b, m, x[2])}
<1>1. Len(b) \in Nat /\ Len(F) \in Nat BY DEF Linked, Known
<1>2. first.buf = b /\ first.done = << >> OBVIOUS
<1>3. first \in R
  <2>1. << >> \in Seq(Nat) OBVIOUS
  <2>2. QED BY <2>1
<1>4. Parsed(F, b, 0, first)
  <2>1. Drop(b, 0) = b BY DEF Drop
  <2>2. 0 \in 0 .. Len(b) /\ first.done \in Seq(Nat) /\ Len(first.done) = 0 BY <1>1, <1>2
  <2>3. 0 < Len(F) => F[0 + 1][2] = 1 BY DEF Linked
  <2> HIDE DEF first
  <2>4. QED BY <1>2, <2>1, <2>2, <2>3 DEF Parsed
<1>5. <<0, first>> \in S
  <2> HIDE DEF first, R
  <2>1. <<0, first>> \in Nat \X R /\ <<0, first>>[2] = first BY <1>3
  <2>2. QED BY <1>4, <2>1
<1>6. ASSUME NEW k \in Nat, NEW s, <<k, s>> \in S PROVE <<k + 1, parseOne(s)>> \in S
  <2>1. PICK m : Parsed(F, b, m, s) BY <1>6
  <2>2. PICK n : Parsed(F, b, n, parseOne(s)) BY <2>1, ParseStep
  <2>3. parseOne(s) \in R
    <3>1. s \in R
      <4> HIDE DEF R
      <4>1. <<k, s>> \in Nat \X R BY <1>6
      <4>2. QED BY <4>1
    <3> DEFINE t == parseOne(s)
    <3>3. t = s \/ t = [buf |-> Drop(s.buf, size[s.buf[1][1]]), done |-> Append(s.done, s.buf[1][1])]
      BY DEF parseOne
    <3>4. CASE t = s BY <3>1, <3>4
    <3>5. CASE t = [buf |-> Drop(s.buf, size[s.buf[1][1]]), done |-> Append(s.done, s.buf[1][1])]
      <4>1. t.done \in Seq(Nat) /\ t.buf = Drop(b, n) /\ n \in 0 .. Len(b) BY <2>2 DEF Parsed
      <4>2. Drop(b, n) \in Seq(Byte) BY <4>1, Dropped
      <4>3. t.buf \in Seq(Byte) BY <4>1, <4>2
      <4>4. t = [buf |-> t.buf, done |-> t.done] BY <3>5
      <4> HIDE DEF t
      <4>5. t \in R BY <4>1, <4>3, <4>4
      <4>6. QED BY <4>5 DEF t
    <3>6. QED BY <3>3, <3>4, <3>5
  <2> HIDE DEF R
  <2>4. QED BY <2>2, <2>3
<1> HIDE DEF S
<1>7. <<Len(b), ParseTcpPdu(b)>> \in S BY <1>1, <1>5, <1>6, Rounds DEF first
<1>8. QED BY <1>7 DEF S

-----------------------------------------------------------------------------
(* handleSend.                                                              *)

\* What sendLoop wraps, packet by packet: cat of sendLoop, if the first k packets of
\* q can be wrapped.
Cat(q, k) == CHOOSE f : f = [j \in 0 .. k |-> IF j = 0 THEN sendBuf ELSE f[j - 1] \o Bytes(q[j])]

\* There is such a function.
LEMMA CatExists ==
    ASSUME NEW q, NEW k \in Nat
    PROVE  /\ Cat(q, k)[0] = sendBuf
           /\ \A j \in 1 .. k : Cat(q, k)[j] = Cat(q, k)[j - 1] \o Bytes(q[j])
<1> DEFINE Is(f, n) == f = [j \in 0 .. n |-> IF j = 0 THEN sendBuf ELSE f[j - 1] \o Bytes(q[j])]
           T == {n \in Nat : \E f : Is(f, n)}
<1>1. 0 \in T
  <2> DEFINE f == [j \in 0 .. 0 |-> sendBuf]
  <2>1. Is(f, 0) OBVIOUS
  <2>2. QED BY <2>1
<1>2. ASSUME NEW n \in Nat, n \in T PROVE n + 1 \in T
  <2>1. PICK f : Is(f, n) BY <1>2
  <2> DEFINE g == [j \in 0 .. n + 1 |-> IF j <= n THEN f[j] ELSE f[n] \o Bytes(q[n + 1])]
  <2>2. ASSUME NEW j \in 0 .. n + 1 PROVE g[j] = IF j = 0 THEN sendBuf ELSE g[j - 1] \o Bytes(q[j])
    <3>1. CASE j = 0
      <4>1. f[0] = sendBuf BY <2>1
      <4>2. QED BY <3>1, <4>1
    <3>2. CASE j # 0 /\ j <= n
      <4>1. f[j] = f[j - 1] \o Bytes(q[j]) BY <2>1, <3>2
      <4>2. j - 1 \in 0 .. n + 1 /\ j - 1 <= n BY <3>2
      <4>3. g[j] = f[j] /\ g[j - 1] = f[j - 1] BY <3>2, <4>2
      <4>4. QED BY <3>2, <4>1, <4>3
    <3>3. CASE j = n + 1
      <4>1. j - 1 = n /\ n \in 0 .. n + 1 /\ j # 0 /\ ~ (j <= n) BY <3>3
      <4>2. g[j] = f[n] \o Bytes(q[n + 1]) /\ g[j - 1] = f[n] BY <4>1
      <4>3. QED BY <3>3, <4>1, <4>2
    <3>4. QED BY <3>1, <3>2, <3>3
  <2>3. Is(g, n + 1)
    <3>1. g = [j \in 0 .. n + 1 |-> g[j]] OBVIOUS
    <3> HIDE DEF g
    <3>2. QED BY <2>2, <3>1
  <2> HIDE DEF g, Is
  <2>4. n + 1 \in Nat OBVIOUS
  <2>5. QED BY <2>3, <2>4
<1>3. k \in T
  <2> HIDE DEF T
  <2>1. QED BY <1>1, <1>2, Induction
<1> DEFINE cat == CHOOSE f : Is(f, k)
<1>4. Is(cat, k)
  <2>1. \E f : Is(f, k) BY <1>3
  <2> HIDE DEF Is
  <2>2. QED BY <2>1
<1>5. Cat(q, k) = cat BY DEF Cat
<1> HIDE DEF cat
<1>6. cat[0] = sendBuf BY <1>4
<1>7. \A j \in 1 .. k : cat[j] = cat[j - 1] \o Bytes(q[j]) BY <1>4
<1>8. QED BY <1>5, <1>6, <1>7

\* What holds of send_buf_ and is kept when a packet is wrapped holds throughout.
LEMMA CatRule ==
    ASSUME NEW q, NEW k \in Nat, NEW S, <<0, sendBuf>> \in S,
           \A j \in 0 .. k - 1 : \A s : <<j, s>> \in S => <<j + 1, s \o Bytes(q[j + 1])>> \in S
    PROVE  \A j \in 0 .. k : <<j, Cat(q, k)[j]>> \in S
<1> DEFINE cat == Cat(q, k)
           T == {j \in Nat : j <= k => <<j, cat[j]>> \in S}
<1>1. cat[0] = sendBuf /\ \A j \in 1 .. k : cat[j] = cat[j - 1] \o Bytes(q[j]) BY CatExists
<1> HIDE DEF cat
<1>2. 0 \in T BY <1>1
<1>3. ASSUME NEW j \in Nat, j \in T PROVE j + 1 \in T
  <2> SUFFICES ASSUME j + 1 <= k PROVE <<j + 1, cat[j + 1]>> \in S OBVIOUS
  <2>1. <<j, cat[j]>> \in S BY <1>3
  <2>2. j + 1 \in 1 .. k /\ (j + 1) - 1 = j /\ j \in 0 .. k - 1 OBVIOUS
  <2>3. cat[j + 1] = cat[j] \o Bytes(q[j + 1]) BY <1>1, <2>2
  <2>4. QED BY <2>1, <2>2, <2>3
<1>4. \A j \in 0 .. k : j \in T
  <2> HIDE DEF T
  <2>1. Nat \subseteq T BY <1>2, <1>3, Induction
  <2>2. QED BY <2>1
<1>5. QED BY <1>4 DEF cat

\* Packets before the first that cannot be wrapped.
LEMMA Wrappable ==
    ASSUME NEW q, Len(q) \in Nat
    PROVE  \E k \in 0 .. Len(q) :
              /\ k = Cardinality({j \in 1 .. Len(q) : \A i \in 1 .. j : ~TooLong(q[i])})
              /\ \A i \in 1 .. k : ~TooLong(q[i])
              /\ k < Len(q) => TooLong(q[k + 1])
<1> DEFINE A == {j \in 1 .. Len(q) : \A i \in 1 .. j : ~TooLong(q[i])}
<1>1. PICK k \in 0 .. Len(q) : A = 1 .. k /\ Cardinality(A) = k
  <2>1. A \subseteq 1 .. Len(q) OBVIOUS
  <2>2. ASSUME NEW p \in A, NEW h \in 1 .. p PROVE h \in A OBVIOUS
  <2> HIDE DEF A
  <2>3. QED BY <2>1, <2>2, Interval
<1>2. ASSUME NEW i \in 1 .. k PROVE ~TooLong(q[i])
  <2>1. i \in A BY <1>1
  <2>2. i \in 1 .. i OBVIOUS
  <2>3. QED BY <2>1, <2>2
<1>3. ASSUME k < Len(q) PROVE TooLong(q[k + 1])
  <2>1. k + 1 \in 1 .. Len(q) /\ k + 1 \notin A
    <3> HIDE DEF A
    <3>1. k + 1 \in 1 .. Len(q) /\ k + 1 \notin 1 .. k BY <1>3
    <3>2. QED BY <1>1, <3>1
  <2>2. PICK i \in 1 .. k + 1 : TooLong(q[i]) BY <2>1
  <2>3. i \in 1 .. k \/ i = k + 1 OBVIOUS
  <2>4. QED BY <1>2, <2>2, <2>3
<1>4. QED BY <1>1, <1>2, <1>3

\* Dropping more than there is.
LEMMA DroppedAll ==
    ASSUME NEW S, NEW s \in Seq(S)
    PROVE  Drop(s, Len(s) + 1) = Drop(s, Len(s))
<1>0. Len(s) \in Nat OBVIOUS
<1>1. Drop(s, Len(s)) = << >> /\ Drop(s, Len(s) + 1) = << >> BY <1>0 DEF Drop
<1>2. QED BY <1>1

\* sendLoop wraps j packets, gives n of their bytes to the connection, and pops at
\* most one packet more, which cannot be wrapped.
LEMMA SendLoop ==
    ASSUME NEW q, q \in Seq(Nat \X Nat), Len(wire) \in Nat, Len(wire) <= Window,
           NEW P, <<0, sendBuf>> \in P, P \subseteq Nat \X Seq(Byte),
           \A j \in 0 .. Len(q) - 1 : \A s : <<j, s>> \in P => <<j + 1, s \o Bytes(q[j + 1])>> \in P
    PROVE  \E j \in 0 .. Len(q), m \in 0 .. Len(q), c \in Seq(Byte) : \E n \in 0 .. Len(c) :
              /\ <<j, c>> \in P
              /\ Len(wire) + n <= Window /\ (sock = "closed" => n = 0)
              /\ j <= m /\ \A i \in j + 1 .. m : TooLong(q[i])
              /\ Len(q) > 0 /\ TooLong(q[1]) => j = 0
              /\ sendLoop(q).wire = wire \o SubSeq(c, 1, n)
              /\ sendLoop(q).left = Drop(c, n)
              /\ sendLoop(q).queue = Drop(q, m)
<1>0. Len(q) \in Nat OBVIOUS
<1> DEFINE k == Cardinality({x \in 1 .. Len(q) : \A i \in 1 .. x : ~TooLong(q[i])})
           cat == Cat(q, k)
           room == IF sock = "closed" THEN 0 ELSE Window - Len(wire)
           full == Len(cat[k]) > room
           j == IF full THEN CHOOSE i \in 0 .. k : Len(cat[i]) > room /\ \A h \in 0 .. i - 1 : Len(cat[h]) <= room ELSE k
           n == Smaller(room, Len(cat[j]))
           m == IF full THEN j ELSE j + 1
<1>1. sendLoop(q) = [wire |-> wire \o SubSeq(cat[j], 1, n), left |-> Drop(cat[j], n), queue |-> Drop(q, m)]
  BY DEF sendLoop, Cat
<1>2. /\ sendLoop(q).wire = wire \o SubSeq(cat[j], 1, n)
      /\ sendLoop(q).left = Drop(cat[j], n)
      /\ sendLoop(q).queue = Drop(q, m)
  <2> DEFINE w == wire \o SubSeq(cat[j], 1, n)
             l == Drop(cat[j], n)
             u == Drop(q, m)
             r == sendLoop(q)
  <2>1. r = [wire |-> w, left |-> l, queue |-> u] BY <1>1
  <2> HIDE DEF w, l, u, r
  <2>2. r.wire = w /\ r.left = l /\ r.queue = u BY <2>1
  <2>3. QED BY <2>2 DEF w, l, u, r
<1>3. k \in 0 .. Len(q) /\ (\A i \in 1 .. k : ~TooLong(q[i])) /\ (k < Len(q) => TooLong(q[k + 1]))
  <2> HIDE DEF k
  <2>1. PICK x \in 0 .. Len(q) :
              /\ x = Cardinality({y \in 1 .. Len(q) : \A i \in 1 .. y : ~TooLong(q[i])})
              /\ \A i \in 1 .. x : ~TooLong(q[i])
              /\ x < Len(q) => TooLong(q[x + 1])
    BY <1>0, Wrappable
  <2>2. x = k BY <2>1 DEF k
  <2>3. QED BY <2>1, <2>2
<1> HIDE DEF k
<1>4. k \in Nat BY <1>0, <1>3
<1>5. \A i \in 0 .. k : <<i, cat[i]>> \in P
  <2>1. \A x \in 0 .. k - 1 : x \in 0 .. Len(q) - 1 BY <1>0, <1>3
  <2>2. QED BY <1>4, <2>1, CatRule
<1> HIDE DEF cat
<1>6. \A i \in 0 .. k : cat[i] \in Seq(Byte) /\ Len(cat[i]) \in Nat
  <2>1. ASSUME NEW i \in 0 .. k PROVE cat[i] \in Seq(Byte)
    <3>1. <<i, cat[i]>> \in Nat \X Seq(Byte) BY <1>5
    <3>2. QED BY <3>1
  <2>2. QED BY <2>1
<1>7. room \in Nat /\ Len(wire) + room <= Window /\ (sock = "closed" => room = 0) BY Numbers
<1> HIDE DEF room
<1>8. j \in 0 .. k /\ (~full => j = k)
  <2>1. CASE ~full BY <1>4, <2>1
  <2>2. CASE full
    <3> DEFINE T == {i \in 0 .. k : Len(cat[i]) > room}
    <3>1. k \in T BY <1>4, <2>2
    <3>2. PICK x \in T : \A y \in T : x <= y
      <4>1. T \subseteq Nat OBVIOUS
      <4> HIDE DEF T
      <4>2. QED BY <3>1, <4>1, LeastNat
    <3>3. ASSUME NEW h \in 0 .. x - 1 PROVE Len(cat[h]) <= room
      <4>1. h \in 0 .. k /\ ~ (x <= h) BY <1>4, <3>2
      <4>2. h \notin T BY <3>2, <4>1
      <4>3. QED BY <1>6, <1>7, <4>1, <4>2
    <3>4. \E i \in 0 .. k : Len(cat[i]) > room /\ \A h \in 0 .. i - 1 : Len(cat[h]) <= room BY <3>2, <3>3
    <3>5. QED BY <2>2, <3>4
  <2>3. QED BY <2>1, <2>2
<1> HIDE DEF full, j
<1>9. n \in 0 .. Len(cat[j]) /\ n <= room /\ n \in Nat BY <1>6, <1>7, <1>8 DEF Smaller
<1> HIDE DEF n
<1>10. j \in Nat /\ j \in 0 .. Len(q) BY <1>0, <1>3, <1>8
<1>11. \E x \in 0 .. Len(q) : Drop(q, m) = Drop(q, x) /\ j <= x /\ \A i \in j + 1 .. x : TooLong(q[i])
  <2>1. CASE full
    <3>1. m = j /\ j <= j /\ \A i \in j + 1 .. j : TooLong(q[i]) BY <1>10, <2>1
    <3>2. QED BY <1>10, <3>1
  <2>2. CASE ~full /\ k < Len(q)
    <3>1. m = k + 1 /\ j = k /\ k + 1 \in 0 .. Len(q) BY <1>0, <1>4, <1>8, <2>2
    <3>2. \A i \in k + 1 .. k + 1 : i = k + 1 BY <1>4
    <3>3. k <= k + 1 BY <1>4
    <3>4. QED BY <1>3, <2>2, <3>1, <3>2, <3>3
  <2>3. CASE ~full /\ ~ (k < Len(q))
    <3>1. m = k + 1 /\ j = k /\ k = Len(q) BY <1>0, <1>3, <1>4, <1>8, <2>3
    <3>2. Drop(q, m) = Drop(q, j) BY <3>1, DroppedAll
    <3>3. \A i \in j + 1 .. j : TooLong(q[i]) BY <1>10
    <3>4. j <= j BY <1>10
    <3>5. QED BY <1>10, <3>2, <3>3, <3>4
  <2>4. QED BY <2>1, <2>2, <2>3
<1>12. PICK x \in 0 .. Len(q) : Drop(q, m) = Drop(q, x) /\ j <= x /\ \A i \in j + 1 .. x : TooLong(q[i]) BY <1>11
<1> HIDE DEF m
<1>13. Len(wire) + n <= Window /\ (sock = "closed" => n = 0) BY <1>7, <1>9, Numbers
<1>14. ASSUME Len(q) > 0, TooLong(q[1]) PROVE j = 0
  <2>1. ~ (1 \in 1 .. k) BY <1>3, <1>14
  <2>2. QED BY <1>4, <1>8, <2>1
<1>15. cat[j] \in Seq(Byte) /\ <<j, cat[j]>> \in P BY <1>5, <1>6, <1>8
<1> DEFINE c == cat[j]
<1>16. c \in Seq(Byte) /\ n \in 0 .. Len(c) /\ <<j, c>> \in P BY <1>9, <1>15
<1>17. /\ sendLoop(q).wire = wire \o SubSeq(c, 1, n)
       /\ sendLoop(q).left = Drop(c, n)
       /\ sendLoop(q).queue = Drop(q, x)
  BY <1>2, <1>12
<1> HIDE DEF c
<1>18. QED BY <1>10, <1>12, <1>13, <1>14, <1>16, <1>17

\* The three buffers one after the other.
Whole(r, w, s) == r \o w \o s

\* They may be joined in either order.
LEMMA WholeJoined ==
    ASSUME NEW r \in Seq(Byte), NEW w \in Seq(Byte), NEW s \in Seq(Byte)
    PROVE  Whole(r, w, s) = r \o (w \o s)
  BY ConcatAssociative DEF Whole

\* The bytes s, with those the connection has, while j packets of q are wrapped.
Wrapped(q, sz, j, s) ==
    LET F == (recvBuf \o wire) \o s IN
    /\ j \in 0 .. Len(q) /\ Known(s, sz)
    /\ j = 0 => s = sendBuf
    /\ sock = "up" =>
         /\ Linked(F, sz) /\ Ends(F, sz)
         /\ \A i \in 1 .. Len(got), h \in 1 .. Len(F) : got[i] < F[h][1]
         /\ \A h \in 1 .. Len(F), i \in j + 1 .. Len(q) : F[h][1] < q[i][1]
         /\ \A h \in 1 .. Len(Carried) : \E i \in 1 .. Len(F) : F[i][1] = Carried[h][1]
         /\ \A i \in 1 .. j : \E h \in 1 .. Len(F) : F[h][1] = q[i][1]

\* The packets of a sequence of bytes to which one PDU is added.
LEMMA Extended ==
    ASSUME NEW F \in Seq(Byte), NEW p \in Nat, NEW n \in Nat, n > 0
    PROVE  /\ F \o Bytes(<<p, n>>) \in Seq(Byte)
           /\ \A h \in 1 .. Len(F \o Bytes(<<p, n>>)) :
                 \/ h \in 1 .. Len(F) /\ (F \o Bytes(<<p, n>>))[h] = F[h]
                 \/ (F \o Bytes(<<p, n>>))[h][1] = p
           /\ \A h \in 1 .. Len(F) : h \in 1 .. Len(F \o Bytes(<<p, n>>)) /\ (F \o Bytes(<<p, n>>))[h] = F[h]
           /\ \E h \in 1 .. Len(F \o Bytes(<<p, n>>)) : (F \o Bytes(<<p, n>>))[h][1] = p
<1> DEFINE b == Bytes(<<p, n>>)
           G == F \o b
<1>0. Len(F) \in Nat OBVIOUS
<1>1. b \in Seq(Byte) /\ Len(b) = n /\ \A i \in 1 .. n : b[i] = <<p, i>> BY PduBytes
<1> HIDE DEF b
<1>2. /\ G \in Seq(Byte) /\ Len(G) = Len(F) + Len(b)
      /\ \A i \in 1 .. Len(F) : G[i] = F[i]
      /\ \A i \in 1 .. Len(b) : G[Len(F) + i] = b[i]
  <2>1. F \in Seq(Byte) /\ b \in Seq(Byte) BY <1>1
  <2>2. QED BY <2>1, Joined
<1> HIDE DEF G
<1>3. ASSUME NEW i \in 1 .. n PROVE Len(F) + i \in 1 .. Len(G) /\ G[Len(F) + i][1] = p
  <2>1. Len(F) + i \in 1 .. Len(G) BY <1>0, <1>1, <1>2
  <2>2. G[Len(F) + i] = <<p, i>> BY <1>1, <1>2
  <2>3. <<p, i>>[1] = p OBVIOUS
  <2>4. QED BY <2>1, <2>2, <2>3
<1>4. ASSUME NEW h \in 1 .. Len(G) PROVE (h \in 1 .. Len(F) /\ G[h] = F[h]) \/ G[h][1] = p
  <2>1. CASE h <= Len(F)
    <3>1. h \in 1 .. Len(F) BY <1>0, <2>1
    <3>2. QED BY <1>2, <3>1
  <2>2. CASE ~ (h <= Len(F))
    <3>1. h - Len(F) \in 1 .. n /\ Len(F) + (h - Len(F)) = h BY <1>0, <1>1, <1>2, <2>2
    <3>2. QED BY <1>3, <3>1
  <2>3. QED BY <2>1, <2>2
<1>5. \A h \in 1 .. Len(F) : h \in 1 .. Len(G) BY <1>0, <1>1, <1>2
<1>6. \E h \in 1 .. Len(G) : G[h][1] = p
  <2>1. 1 \in 1 .. n OBVIOUS
  <2>2. QED BY <1>3, <2>1
<1>7. QED BY <1>2, <1>4, <1>5, <1>6 DEF G, b

\* What is in send_buf_ is the beginning.
LEMMA WrapFirst ==
    ASSUME NEW q, NEW sz, Sound(q, sz)
    PROVE  Wrapped(q, sz, 0, sendBuf)
<1> USE DEF Sound
<1>1. Len(q) \in Nat /\ 0 \in 0 .. Len(q) BY DEF Waiting
<1> DEFINE F == (recvBuf \o wire) \o sendBuf
           Rest ==
             /\ Linked(F, sz) /\ Ends(F, sz)
             /\ \A i \in 1 .. Len(got), h \in 1 .. Len(F) : got[i] < F[h][1]
             /\ \A h \in 1 .. Len(F), i \in 0 + 1 .. Len(q) : F[h][1] < q[i][1]
             /\ \A h \in 1 .. Len(Carried) : \E i \in 1 .. Len(F) : F[i][1] = Carried[h][1]
             /\ \A i \in 1 .. 0 : \E h \in 1 .. Len(F) : F[h][1] = q[i][1]
<1>2. ASSUME sock = "up" PROVE Rest
  <2>1. Carried = F BY <1>2 DEF Carried, Stream
  <2> HIDE DEF F
  <2>2. Linked(F, sz) /\ Ends(F, sz) BY <1>2, <2>1
  <2>3. \A i \in 1 .. Len(got), h \in 1 .. Len(F) : got[i] < F[h][1] BY <2>1 DEF Between
  <2>4. \A h \in 1 .. Len(F), i \in 0 + 1 .. Len(q) : F[h][1] < q[i][1] BY <2>1 DEF Between
  <2>5. \A i \in 1 .. 0 : FALSE OBVIOUS
  <2>6. QED BY <2>1, <2>2, <2>3, <2>4, <2>5
<1>3. Known(sendBuf, sz) OBVIOUS
<1>4. QED BY <1>1, <1>2, <1>3 DEF Wrapped

\* The next packet is put behind.
LEMMA WrapStep ==
    ASSUME NEW q, NEW sz, Sound(q, sz), NEW j \in 0 .. Len(q) - 1, NEW s, Wrapped(q, sz, j, s)
    PROVE  Wrapped(q, sz, j + 1, s \o Bytes(q[j + 1]))
<1> DEFINE base == recvBuf \o wire
           p == q[j + 1][1]
           b == Bytes(<<p, sz[p]>>)
           t == s \o b
           F == base \o s
           G == base \o t
<1>0. Len(q) \in Nat /\ j \in Nat /\ j + 1 \in 1 .. Len(q) /\ j + 1 \in 0 .. Len(q) /\ j + 1 # 0
  BY DEF Sound, Waiting
<1>1. p \in 1 .. Len(sz) /\ p \in Nat /\ sz[p] \in Nat /\ sz[p] > 0 /\ Sizes(sz)
  <2>1. Waiting(q, sz) /\ Sizes(sz) BY DEF Sound
  <2>2. p \in 1 .. Len(sz) BY <1>0, <2>1 DEF Waiting
  <2> HIDE DEF p
  <2>3. sz \in Seq(Nat) /\ Len(sz) \in Nat /\ sz[p] >= HeadLen BY <2>1, <2>2 DEF Sizes
  <2>4. p \in Nat /\ sz[p] \in Nat BY <2>2, <2>3
  <2>5. QED BY <2>1, <2>2, <2>3, <2>4, Numbers
<1>2. q[j + 1] = <<p, sz[p]>>
  <2>1. q[j + 1] \in Nat \X Nat BY <1>0 DEF Sound, Waiting
  <2>2. q[j + 1] = <<q[j + 1][1], q[j + 1][2]>> BY <2>1
  <2>3. q[j + 1][2] = sz[p] BY <1>0 DEF Sound, Waiting
  <2>4. QED BY <2>2, <2>3
<1>3. b \in Seq(Byte) BY <1>1, PduBytes
<1>4. base \in Seq(Byte) /\ s \in Seq(Byte) /\ F \in Seq(Byte)
  <2>1. recvBuf \in Seq(Byte) /\ wire \in Seq(Byte) BY DEF Sound, ControlInv
  <2>2. base \in Seq(Byte) BY <2>1, Joined
  <2>3. s \in Seq(Byte) BY DEF Wrapped, Known
  <2> HIDE DEF base
  <2>4. QED BY <2>2, <2>3, Joined
<1>5. G = F \o b
  <2> HIDE DEF base, b
  <2>1. base \in Seq(Byte) /\ s \in Seq(Byte) /\ b \in Seq(Byte) BY <1>3, <1>4
  <2>2. Whole(base, s, b) = base \o (s \o b) BY <2>1, WholeJoined
  <2>3. QED BY <2>2 DEF Whole
<1>6. /\ G \in Seq(Byte)
      /\ \A h \in 1 .. Len(G) : (h \in 1 .. Len(F) /\ G[h] = F[h]) \/ G[h][1] = p
      /\ \A h \in 1 .. Len(F) : h \in 1 .. Len(G) /\ G[h] = F[h]
      /\ \E h \in 1 .. Len(G) : G[h][1] = p
  <2> DEFINE e == sz[p]
             H == F \o Bytes(<<p, e>>)
  <2>1. G = H BY <1>5
  <2>2. F \in Seq(Byte) /\ p \in Nat /\ e \in Nat /\ e > 0 BY <1>1, <1>4
  <2> HIDE DEF F, p, G, e
  <2>3. /\ H \in Seq(Byte)
        /\ \A h \in 1 .. Len(H) : (h \in 1 .. Len(F) /\ H[h] = F[h]) \/ H[h][1] = p
        /\ \A h \in 1 .. Len(F) : h \in 1 .. Len(H) /\ H[h] = F[h]
        /\ \E h \in 1 .. Len(H) : H[h][1] = p
    BY <2>2, Extended
  <2> HIDE DEF H
  <2>4. QED BY <2>1, <2>3
<1>7. Known(t, sz)
  <2> DEFINE e == sz[p]
             H == s \o Bytes(<<p, e>>)
  <2>0. t = H OBVIOUS
  <2>1. s \in Seq(Byte) /\ p \in Nat /\ e \in Nat /\ e > 0 BY <1>1, <1>4
  <2> HIDE DEF p, t, e
  <2>2. /\ H \in Seq(Byte)
        /\ \A h \in 1 .. Len(H) : (h \in 1 .. Len(s) /\ H[h] = s[h]) \/ H[h][1] = p
    BY <2>1, Extended
  <2> HIDE DEF H
  <2>3. QED BY <1>1, <2>0, <2>2 DEF Wrapped, Known
<1> DEFINE Rest ==
             /\ Linked(G, sz) /\ Ends(G, sz)
             /\ \A i \in 1 .. Len(got), h \in 1 .. Len(G) : got[i] < G[h][1]
             /\ \A h \in 1 .. Len(G), i \in (j + 1) + 1 .. Len(q) : G[h][1] < q[i][1]
             /\ \A h \in 1 .. Len(Carried) : \E i \in 1 .. Len(G) : G[i][1] = Carried[h][1]
             /\ \A i \in 1 .. j + 1 : \E h \in 1 .. Len(G) : G[h][1] = q[i][1]
<1>8. ASSUME sock = "up" PROVE Rest
  <2>1. /\ Linked(F, sz) /\ Ends(F, sz)
        /\ \A i \in 1 .. Len(got), h \in 1 .. Len(F) : got[i] < F[h][1]
        /\ \A h \in 1 .. Len(F), i \in j + 1 .. Len(q) : F[h][1] < q[i][1]
        /\ \A h \in 1 .. Len(Carried) : \E i \in 1 .. Len(F) : F[i][1] = Carried[h][1]
        /\ \A i \in 1 .. j : \E h \in 1 .. Len(F) : F[h][1] = q[i][1]
    BY <1>8 DEF Wrapped
  <2> HIDE DEF F, G, b, t
  <2>2. \A h \in 1 .. Len(F) : F[h][1] < p
    <3>1. j + 1 \in j + 1 .. Len(q) BY <1>0
    <3>2. QED BY <2>1, <3>1
  <2>3. Linked(G, sz) /\ Ends(G, sz)
    <3> HIDE DEF p
    <3>1. Linked(F \o Bytes(<<p, sz[p]>>), sz) /\ Ends(F \o Bytes(<<p, sz[p]>>), sz)
      BY <1>1, <2>1, <2>2, Grown
    <3>2. QED BY <1>5, <3>1 DEF b
  <2>4. ASSUME NEW i \in 1 .. Len(got), NEW h \in 1 .. Len(G) PROVE got[i] < G[h][1]
    <3>1. CASE h \in 1 .. Len(F) /\ G[h] = F[h] BY <2>1, <3>1
    <3>2. CASE G[h][1] = p BY <1>0, <3>2 DEF Sound, Between
    <3>3. QED BY <1>6, <3>1, <3>2
  <2>5. ASSUME NEW h \in 1 .. Len(G), NEW i \in (j + 1) + 1 .. Len(q) PROVE G[h][1] < q[i][1]
    <3>1. i \in j + 1 .. Len(q) /\ i \in 1 .. Len(q) /\ j + 1 < i BY <1>0
    <3>2. CASE h \in 1 .. Len(F) /\ G[h] = F[h] BY <2>1, <3>1, <3>2
    <3>3. CASE G[h][1] = p BY <1>0, <3>1, <3>3 DEF Sound, Waiting
    <3>4. QED BY <1>6, <3>2, <3>3
  <2>6. ASSUME NEW h \in 1 .. Len(Carried) PROVE \E i \in 1 .. Len(G) : G[i][1] = Carried[h][1]
    <3>1. PICK i \in 1 .. Len(F) : F[i][1] = Carried[h][1] BY <2>1
    <3>2. i \in 1 .. Len(G) /\ G[i] = F[i] BY <1>6
    <3>3. QED BY <3>1, <3>2
  <2>7. ASSUME NEW i \in 1 .. j + 1 PROVE \E h \in 1 .. Len(G) : G[h][1] = q[i][1]
    <3>1. CASE i = j + 1 BY <1>6, <3>1
    <3>2. CASE i # j + 1
      <4>1. i \in 1 .. j BY <1>0, <3>2
      <4>2. PICK h \in 1 .. Len(F) : F[h][1] = q[i][1] BY <2>1, <4>1
      <4>3. h \in 1 .. Len(G) /\ G[h] = F[h] BY <1>6
      <4>4. QED BY <4>2, <4>3
    <3>3. QED BY <3>1, <3>2
  <2>8. QED BY <2>3, <2>4, <2>5, <2>6, <2>7
<1>9. Wrapped(q, sz, j + 1, t) BY <1>0, <1>7, <1>8 DEF Wrapped
<1>10. QED BY <1>2, <1>9

\* The packets that are left in the queue.
LEMMA Shorter ==
    ASSUME NEW q, NEW sz, Waiting(q, sz), NEW m \in 0 .. Len(q)
    PROVE  /\ Waiting(Drop(q, m), sz) /\ Len(Drop(q, m)) = Len(q) - m
           /\ \A i \in 1 .. Len(q) - m : Drop(q, m)[i] = q[m + i]
           /\ \A g, F : Between(g, F, q) => Between(g, F, Drop(q, m))
<1> DEFINE r == Drop(q, m)
<1>0. Len(q) \in Nat /\ m \in Nat /\ q \in Seq(Nat \X Nat) BY DEF Waiting
<1>1. r \in Seq(Nat \X Nat) /\ Len(r) = Len(q) - m /\ \A i \in 1 .. Len(q) - m : r[i] = q[m + i]
  BY <1>0, Dropped
<1> HIDE DEF r
<1>2. \A i \in 1 .. Len(r) : m + i \in 1 .. Len(q) /\ r[i] = q[m + i]
  <2>1. Len(r) = Len(q) - m BY <1>1
  <2>2. ASSUME NEW i \in 1 .. Len(r) PROVE i \in 1 .. Len(q) - m /\ m + i \in 1 .. Len(q) BY <1>0, <2>1
  <2>3. QED BY <1>1, <2>2
<1>3. \A i, j \in 1 .. Len(r) : i < j => m + i < m + j BY <1>0, <1>1
<1>4. Waiting(r, sz)
  <2>1. \A i \in 1 .. Len(r) : r[i][1] \in 1 .. Len(sz) /\ r[i][2] = sz[r[i][1]] BY <1>2 DEF Waiting
  <2>2. \A i, j \in 1 .. Len(r) : i < j => r[i][1] < r[j][1] BY <1>2, <1>3 DEF Waiting
  <2>3. QED BY <1>1, <2>1, <2>2 DEF Waiting
<1>5. \A g, F : Between(g, F, q) => Between(g, F, r) BY <1>2 DEF Between
<1>6. QED BY <1>1, <1>4, <1>5 DEF r

\* What a short write puts into the connection and what it leaves in send_buf_.
LEMMA ShortWrite ==
    ASSUME NEW w \in Seq(Byte), NEW c \in Seq(Byte), NEW n \in 0 .. Len(c)
    PROVE  /\ w \o SubSeq(c, 1, n) \in Seq(Byte) /\ Drop(c, n) \in Seq(Byte)
           /\ Len(w \o SubSeq(c, 1, n)) = Len(w) + n
           /\ (w \o SubSeq(c, 1, n)) \o Drop(c, n) = w \o c
           /\ n = 0 => w \o SubSeq(c, 1, n) = w
<1> DEFINE a == SubSeq(c, 1, n)
           d == Drop(c, n)
<1>1. a \in Seq(Byte) /\ Len(a) = n BY Taken
<1>2. d \in Seq(Byte) BY Dropped
<1>3. a \o d = c BY Rejoined
<1> HIDE DEF a, d
<1>4. w \o a \in Seq(Byte) /\ Len(w \o a) = Len(w) + n
  <2>1. w \in Seq(Byte) /\ a \in Seq(Byte) BY <1>1
  <2>2. w \o a \in Seq(Byte) /\ Len(w \o a) = Len(w) + Len(a) BY <2>1, Joined
  <2>3. QED BY <1>1, <2>2
<1>5. (w \o a) \o d = w \o c
  <2>1. w \in Seq(Byte) /\ a \in Seq(Byte) /\ d \in Seq(Byte) BY <1>1, <1>2
  <2>2. Whole(w, a, d) = w \o (a \o d) BY <2>1, WholeJoined
  <2>3. QED BY <1>3, <2>2 DEF Whole
<1>6. ASSUME n = 0 PROVE w \o a = w
  <2>1. a = << >> BY <1>1, <1>6
  <2>2. QED BY <2>1
<1>7. QED BY <1>2, <1>4, <1>5, <1>6 DEF a, d

\* A short write does not change what they hold together.
LEMMA WholeKept ==
    ASSUME NEW r \in Seq(Byte), NEW w \in Seq(Byte), NEW c \in Seq(Byte), NEW n \in 0 .. Len(c)
    PROVE  Whole(r, w \o SubSeq(c, 1, n), Drop(c, n)) = Whole(r, w, c)
<1> DEFINE u == w \o SubSeq(c, 1, n)
           v == Drop(c, n)
<1>1. u \in Seq(Byte) /\ v \in Seq(Byte) /\ u \o v = w \o c BY ShortWrite
<1> HIDE DEF u, v
<1>2. Whole(r, u, v) = r \o (u \o v) BY <1>1, WholeJoined
<1>3. Whole(r, w, c) = r \o (w \o c) BY WholeJoined
<1>4. Whole(r, u, v) = Whole(r, w, c) BY <1>1, <1>2, <1>3
<1>5. QED BY <1>4 DEF u, v

\* handleSend keeps the invariant: it changes where the bytes are and not what the
\* connection carries, and what it pops is put behind that.
LEMMA HandleSendInv ==
    ASSUME NEW q, NEW sz, Sound(q, sz), handleSend(q), size' = sz, UNCHANGED <<state, recvBuf, resets, got>>
    PROVE  IInv'
<1>0. /\ ControlInv /\ Sizes(sz) /\ Len(sz) <= MaxPacket /\ Waiting(q, sz) /\ Handed(got, sz)
      /\ Known(sendBuf, sz) /\ Between(got, Carried, q) /\ Linked(Carried, sz)
      /\ recvBuf \in Seq(Byte) /\ wire \in Seq(Byte) /\ Len(wire) \in Nat /\ Len(wire) <= Window
      /\ q \in Seq(Nat \X Nat) /\ Len(q) \in Nat
  BY DEF Sound, ControlInv, Waiting
<1>1. CASE sock = "broken" /\ (sendBuf # << >> \/ (q # << >> /\ ~TooLong(Head(q))))
  <2>1. /\ queue' = IF sendBuf = << >> THEN Tail(q) ELSE q
        /\ sendBuf' = << >> /\ sock' = "closed" /\ armed' = FALSE /\ wire' = wire
    BY <1>1 DEF handleSend
  <2>2. Carried' = Carried BY <1>1, <2>1 DEF Carried
  <2>3. Waiting(queue', sz) /\ Between(got, Carried, queue')
    <3>1. CASE sendBuf # << >> BY <1>0, <2>1, <3>1
    <3>2. CASE sendBuf = << >>
      <4>1. q # << >> /\ 1 \in 0 .. Len(q) BY <1>0, <1>1, <3>2
      <4>2. queue' = Drop(q, 1) BY <1>0, <2>1, <3>2, <4>1 DEF Drop
      <4>3. QED BY <1>0, <4>1, <4>2, Shorter
    <3>3. QED BY <3>1, <3>2
  <2>4. Known(sendBuf', sz) BY <2>1 DEF Known
  <2>5. ControlInv' BY <1>0, <2>1 DEF ControlInv
  <2>6. QED BY <1>0, <2>1, <2>2, <2>3, <2>4, <2>5 DEF IInv, Sound
<1>2. CASE ~ (sock = "broken" /\ (sendBuf # << >> \/ (q # << >> /\ ~TooLong(Head(q)))))
  <2>1. /\ queue' = sendLoop(q).queue /\ sendBuf' = sendLoop(q).left /\ wire' = sendLoop(q).wire
        /\ armed' = (armed /\ sendLoop(q).queue # << >>) /\ sock' = sock
    BY <1>2 DEF handleSend
  <2> DEFINE P == {x \in Nat \X Seq(Byte) : Wrapped(q, sz, x[1], x[2])}
  <2>2. <<0, sendBuf>> \in P
    <3>1. <<0, sendBuf>> \in Nat \X Seq(Byte) BY <1>0 DEF Known
    <3>2. <<0, sendBuf>>[1] = 0 /\ <<0, sendBuf>>[2] = sendBuf OBVIOUS
    <3>3. Wrapped(q, sz, 0, sendBuf) BY WrapFirst
    <3>4. QED BY <3>1, <3>2, <3>3
  <2>3. ASSUME NEW j \in 0 .. Len(q) - 1, NEW s, <<j, s>> \in P PROVE <<j + 1, s \o Bytes(q[j + 1])>> \in P
    <3> DEFINE t == s \o Bytes(q[j + 1])
    <3>1. Wrapped(q, sz, j, s) BY <2>3
    <3>2. Wrapped(q, sz, j + 1, t) BY <3>1, WrapStep
    <3>3. t \in Seq(Byte) /\ j + 1 \in Nat BY <3>2 DEF Wrapped, Known
    <3> HIDE DEF t
    <3>4. <<j + 1, t>> \in P BY <3>2, <3>3
    <3>5. QED BY <3>4 DEF t
  <2>4. P \subseteq Nat \X Seq(Byte) OBVIOUS
  <2> HIDE DEF P
  <2>5. PICK j \in 0 .. Len(q), m \in 0 .. Len(q), c \in Seq(Byte) : \E n \in 0 .. Len(c) :
              /\ <<j, c>> \in P
              /\ Len(wire) + n <= Window /\ (sock = "closed" => n = 0)
              /\ j <= m /\ \A i \in j + 1 .. m : TooLong(q[i])
              /\ Len(q) > 0 /\ TooLong(q[1]) => j = 0
              /\ sendLoop(q).wire = wire \o SubSeq(c, 1, n)
              /\ sendLoop(q).left = Drop(c, n)
              /\ sendLoop(q).queue = Drop(q, m)
    BY <1>0, <2>2, <2>3, <2>4, SendLoop
  <2>6. PICK n \in 0 .. Len(c) :
              /\ <<j, c>> \in P
              /\ Len(wire) + n <= Window /\ (sock = "closed" => n = 0)
              /\ j <= m /\ \A i \in j + 1 .. m : TooLong(q[i])
              /\ Len(q) > 0 /\ TooLong(q[1]) => j = 0
              /\ wire' = wire \o SubSeq(c, 1, n)
              /\ sendBuf' = Drop(c, n)
              /\ queue' = Drop(q, m)
    BY <2>1, <2>5
  <2>7. Wrapped(q, sz, j, c) BY <2>6 DEF P
  <2>8. /\ wire' \in Seq(Byte) /\ Len(wire') <= Window /\ sendBuf' \in Seq(Byte)
        /\ recvBuf \o wire' \o sendBuf' = (recvBuf \o wire) \o c
        /\ n = 0 => wire' = wire
    <3>1. recvBuf \in Seq(Byte) /\ wire \in Seq(Byte) BY <1>0
    <3>2. wire' \in Seq(Byte) /\ sendBuf' \in Seq(Byte) /\ Len(wire') = Len(wire) + n /\ (n = 0 => wire' = wire)
      BY <2>6, <3>1, ShortWrite
    <3>3. Whole(recvBuf, wire', sendBuf') = Whole(recvBuf, wire, c) BY <2>6, <3>1, WholeKept
    <3>4. QED BY <2>6, <3>2, <3>3 DEF Whole
  <2>9. Known(sendBuf', sz)
    <3>1. Len(sendBuf') = Len(c) - n /\ \A i \in 1 .. Len(c) - n : sendBuf'[i] = c[n + i] BY <2>6, Dropped
    <3>2. \A i \in 1 .. Len(c) - n : n + i \in 1 .. Len(c) OBVIOUS
    <3>3. \A i \in 1 .. Len(c) : c[i][1] \in 1 .. Len(sz) BY <2>7 DEF Wrapped, Known
    <3>4. QED BY <2>8, <3>1, <3>2, <3>3 DEF Known
  <2>10. /\ Waiting(queue', sz) /\ Len(queue') = Len(q) - m
         /\ \A i \in 1 .. Len(q) - m : queue'[i] = q[m + i]
         /\ \A g, F : Between(g, F, q) => Between(g, F, queue')
    BY <1>0, <2>6, Shorter
  <2>11. ControlInv'
    <3>1. armed' \in BOOLEAN /\ (armed' => armed) BY <1>0, <2>1 DEF ControlInv
    <3>2. QED BY <1>0, <2>1, <2>8, <3>1 DEF ControlInv
  <2>12. CASE sock # "up"
    <3>1. n = 0
      <4>1. CASE sock = "closed" BY <2>6, <4>1
      <4>2. CASE sock = "broken"
        <5>1. sendBuf = << >> /\ (q = << >> \/ TooLong(Head(q))) BY <1>2, <4>2
        <5>2. j = 0
          <6>1. CASE q = << >> BY <6>1
          <6>2. CASE q # << >>
            <7>1. Len(q) > 0 /\ Head(q) = q[1] BY <1>0, <6>2
            <7>2. QED BY <2>6, <5>1, <6>2, <7>1
          <6>3. QED BY <6>1, <6>2
        <5>3. c = << >> BY <2>7, <5>1, <5>2 DEF Wrapped
        <5>4. QED BY <5>3
      <4>3. QED BY <1>0, <2>12, <4>1, <4>2 DEF ControlInv
    <3>2. Carried' = Carried BY <2>1, <2>8, <2>12, <3>1 DEF Carried
    <3>3. Between(got, Carried, queue') BY <1>0, <2>10
    <3>4. QED BY <1>0, <2>1, <2>9, <2>10, <2>11, <2>12, <3>2, <3>3 DEF IInv, Sound
  <2>13. CASE sock = "up"
    <3> DEFINE F == (recvBuf \o wire) \o c
    <3>1. Carried' = F BY <2>1, <2>8, <2>13 DEF Carried, Stream
    <3>2. /\ Linked(F, sz) /\ Ends(F, sz)
          /\ \A i \in 1 .. Len(got), h \in 1 .. Len(F) : got[i] < F[h][1]
          /\ \A h \in 1 .. Len(F), i \in j + 1 .. Len(q) : F[h][1] < q[i][1]
          /\ \A h \in 1 .. Len(Carried) : \E i \in 1 .. Len(F) : F[i][1] = Carried[h][1]
          /\ \A i \in 1 .. j : \E h \in 1 .. Len(F) : F[h][1] = q[i][1]
      BY <2>7, <2>13 DEF Wrapped
    <3> HIDE DEF F
    <3>3. Between(got, F, queue')
      <4>1. \A i \in 1 .. Len(got), h \in 1 .. Len(queue') : got[i] < queue'[h][1]
        BY <1>0, <2>10 DEF Between
      <4>2. ASSUME NEW h \in 1 .. Len(F), NEW i \in 1 .. Len(queue') PROVE F[h][1] < queue'[i][1]
        <5>1. i \in 1 .. Len(q) - m /\ m + i \in j + 1 .. Len(q) BY <1>0, <2>6, <2>10
        <5>2. queue'[i] = q[m + i] BY <2>10, <5>1
        <5>3. QED BY <3>2, <5>1, <5>2
      <4>3. QED BY <3>2, <4>1, <4>2 DEF Between
    <3>4. ASSUME resets = 0 PROVE Accounted(got, F, queue', sz)
      <4>1. Accounted(got, Carried, q, sz) BY <2>13, <3>4 DEF Sound
      <4>2. ASSUME NEW p \in 1 .. Len(sz), NEW i \in 1 .. Len(q), q[i][1] = p
            PROVE  \/ TooLong(<<p, sz[p]>>)
                   \/ \E h \in 1 .. Len(F) : F[h][1] = p
                   \/ \E h \in 1 .. Len(queue') : queue'[h][1] = p
        <5>1. CASE i <= j
          <6>1. i \in 1 .. j BY <5>1
          <6>2. QED BY <3>2, <4>2, <6>1
        <5>2. CASE j < i /\ i <= m
          <6>1. i \in j + 1 .. m BY <5>2
          <6>2. TooLong(q[i]) /\ q[i][2] = sz[p] BY <1>0, <2>6, <4>2, <6>1 DEF Waiting
          <6>3. <<p, sz[p]>>[2] = sz[p] OBVIOUS
          <6>4. QED BY <6>2, <6>3 DEF TooLong
        <5>3. CASE m < i
          <6>1. i - m \in 1 .. Len(q) - m /\ m + (i - m) = i BY <1>0, <5>3
          <6>2. queue'[i - m] = q[i] /\ i - m \in 1 .. Len(queue') BY <2>10, <6>1
          <6>3. QED BY <4>2, <6>2
        <5>4. i <= j \/ (j < i /\ i <= m) \/ m < i BY <1>0
        <5>5. QED BY <5>1, <5>2, <5>3, <5>4
      <4>3. ASSUME NEW p \in 1 .. Len(sz)
            PROVE  \/ TooLong(<<p, sz[p]>>)
                   \/ \E i \in 1 .. Len(got) : got[i] = p
                   \/ \E i \in 1 .. Len(F) : F[i][1] = p
                   \/ \E i \in 1 .. Len(queue') : queue'[i][1] = p
        <5>1. \/ TooLong(<<p, sz[p]>>)
              \/ \E i \in 1 .. Len(got) : got[i] = p
              \/ \E i \in 1 .. Len(Carried) : Carried[i][1] = p
              \/ \E i \in 1 .. Len(q) : q[i][1] = p
          BY <4>1 DEF Accounted
        <5>2. CASE \E i \in 1 .. Len(Carried) : Carried[i][1] = p BY <3>2, <5>2
        <5>3. CASE \E i \in 1 .. Len(q) : q[i][1] = p BY <4>2, <5>3
        <5>4. QED BY <5>1, <5>2, <5>3
      <4>4. QED BY <4>3 DEF Accounted
    <3>5. Accounted(got, F, queue', sz) \/ resets # 0 BY <3>4
    <3>6. QED BY <1>0, <2>1, <2>9, <2>10, <2>11, <3>1, <3>2, <3>3, <3>5 DEF IInv, Sound
  <2>14. QED BY <2>12, <2>13
<1>3. QED BY <1>1, <1>2

-----------------------------------------------------------------------------
(* The actions.                                                             *)

\* What holds of the packets so far holds when there are more.
LEMMA Longer ==
    ASSUME NEW sz, NEW tz, Sizes(sz), Sizes(tz), Len(sz) <= Len(tz), \A p \in 1 .. Len(sz) : tz[p] = sz[p], NEW F
    PROVE  /\ Known(F, sz) => Known(F, tz)
           /\ Handed(F, sz) => Handed(F, tz)
           /\ Linked(F, sz) => Linked(F, tz)
           /\ Linked(F, sz) /\ Ends(F, sz) => Ends(F, tz)
<1>0. Len(sz) \in Nat /\ Len(tz) \in Nat BY DEF Sizes
<1>1. \A p \in 1 .. Len(sz) : p \in 1 .. Len(tz) BY <1>0
<1>2. Known(F, sz) => Known(F, tz) BY <1>1 DEF Known
<1>3. Handed(F, sz) => Handed(F, tz) BY <1>1 DEF Handed
<1>4. ASSUME Linked(F, sz) PROVE Linked(F, tz) /\ (Ends(F, sz) => Ends(F, tz))
  <2>0. Len(F) \in Nat /\ Known(F, sz) BY <1>4 DEF Linked, Known
  <2>1. \A i \in 1 .. Len(F) : F[i][1] \in 1 .. Len(sz) /\ tz[F[i][1]] = sz[F[i][1]] BY <2>0 DEF Known
  <2>2. \A i \in 1 .. Len(F) : F[i][2] <= tz[F[i][1]] BY <1>4, <2>1 DEF Linked
  <2>3. ASSUME NEW i \in 1 .. Len(F) - 1 PROVE Follows(F[i], F[i + 1], tz)
    <3>1. i \in 1 .. Len(F) BY <2>0
    <3>2. Follows(F[i], F[i + 1], sz) BY <1>4 DEF Linked
    <3>3. QED BY <2>1, <3>1, <3>2 DEF Follows
  <2>4. Linked(F, tz) BY <1>2, <1>4, <2>0, <2>2, <2>3 DEF Linked
  <2>5. ASSUME Ends(F, sz), Len(F) > 0 PROVE F[Len(F)][2] = tz[F[Len(F)][1]]
    <3>1. Len(F) \in 1 .. Len(F) BY <2>0, <2>5
    <3>2. QED BY <2>1, <2>5, <3>1 DEF Ends
  <2>6. QED BY <2>4, <2>5 DEF Ends
<1>5. QED BY <1>2, <1>3, <1>4

\* A packet that is pushed is the last one.
LEMMA Pushed ==
    ASSUME IInv, NEW e \in Nat, e >= HeadLen, Len(size) < MaxPacket
    PROVE  Sound(Append(queue, <<Len(size) + 1, e>>), Append(size, e))
<1> DEFINE n == Len(size) + 1
           k == Len(queue) + 1
           tz == Append(size, e)
           q == Append(queue, <<n, e>>)
<1>0. /\ ControlInv /\ Sizes(size) /\ Len(size) <= MaxPacket
      /\ Waiting(queue, size) /\ Handed(got, size) /\ Known(sendBuf, size)
      /\ Linked(Carried, size) /\ (sock = "up" => Ends(Carried, size))
      /\ Between(got, Carried, queue)
      /\ (sock = "up" /\ resets = 0 => Accounted(got, Carried, queue, size))
  BY DEF IInv, Sound
<1>1. /\ size \in Seq(Nat) /\ Len(size) \in Nat /\ n \in Nat
      /\ queue \in Seq(Nat \X Nat) /\ Len(queue) \in Nat /\ k \in Nat
  BY <1>0 DEF Sizes, Waiting
<1>2. /\ tz \in Seq(Nat) /\ Len(tz) = n /\ tz[n] = e /\ \A p \in 1 .. Len(size) : tz[p] = size[p]
  BY <1>1, AppendProperties
<1>3. <<n, e>> \in Nat \X Nat BY <1>1
<1>4. /\ q \in Seq(Nat \X Nat) /\ Len(q) = k /\ q[k] = <<n, e>> /\ \A i \in 1 .. Len(queue) : q[i] = queue[i]
  BY <1>1, <1>3, AppendProperties
<1>5. \A p \in 1 .. n : p \in 1 .. Len(size) \/ p = n BY <1>1
<1>6. \A i \in 1 .. k : i \in 1 .. Len(queue) \/ i = k BY <1>1
<1>7. \A p \in 1 .. Len(size) : p \in 1 .. n /\ p < n BY <1>1
<1>8. n \in 1 .. n /\ k \in 1 .. k BY <1>1
<1>9. Len(size) <= n /\ n <= MaxPacket BY <1>1, Numbers
<1>10. \A i \in 1 .. Len(queue) : i \in 1 .. k BY <1>1
<1> HIDE DEF tz, q
<1>11. Sizes(tz) BY <1>0, <1>2, <1>5 DEF Sizes
<1>12. Known(sendBuf, tz) /\ Handed(got, tz) /\ Linked(Carried, tz) /\ (sock = "up" => Ends(Carried, tz))
  <2>1. Len(size) <= Len(tz) BY <1>2, <1>9
  <2> HIDE DEF n, k
  <2>2. QED BY <1>0, <1>2, <1>11, <2>1, Longer
<1>13. \A i \in 1 .. Len(queue) : queue[i][1] \in 1 .. Len(size) /\ queue[i][2] = size[queue[i][1]] BY <1>0 DEF Waiting
<1>14. q[k][1] = n /\ q[k][2] = e BY <1>4
<1>15. Waiting(q, tz)
  <2>1. ASSUME NEW i \in 1 .. k PROVE q[i][1] \in 1 .. n /\ q[i][2] = tz[q[i][1]]
    <3> HIDE DEF n, k
    <3>1. CASE i \in 1 .. Len(queue)
      <4>1. q[i] = queue[i] BY <1>4, <3>1
      <4>2. q[i][1] \in 1 .. Len(size) /\ q[i][2] = size[q[i][1]] BY <1>13, <3>1, <4>1
      <4>3. QED BY <1>2, <1>7, <4>2
    <3>2. CASE i = k BY <1>2, <1>8, <1>14, <3>2
    <3>3. QED BY <1>6, <3>1, <3>2
  <2>2. ASSUME NEW i \in 1 .. k, NEW j \in 1 .. k, i < j PROVE q[i][1] < q[j][1]
    <3>1. i \in 1 .. Len(queue) BY <1>1, <2>2
    <3> HIDE DEF n, k
    <3>2. CASE j \in 1 .. Len(queue) BY <1>0, <1>4, <2>2, <3>1, <3>2 DEF Waiting
    <3>3. CASE j = k BY <1>4, <1>7, <1>13, <1>14, <3>1, <3>3
    <3>4. QED BY <1>6, <3>2, <3>3
  <2> HIDE DEF n, k
  <2>3. QED BY <1>2, <1>4, <2>1, <2>2 DEF Waiting
<1>16. Between(got, Carried, q)
  <2> HIDE DEF n, k
  <2>1. ASSUME NEW i \in 1 .. Len(got), NEW j \in 1 .. k PROVE got[i] < q[j][1]
    <3>1. CASE j \in 1 .. Len(queue) BY <1>0, <1>4, <3>1 DEF Between
    <3>2. CASE j = k
      <4>1. got[i] \in 1 .. Len(size) BY <1>0 DEF Handed
      <4>2. QED BY <1>7, <1>14, <3>2, <4>1
    <3>3. QED BY <1>6, <3>1, <3>2
  <2>2. ASSUME NEW i \in 1 .. Len(Carried), NEW j \in 1 .. k PROVE Carried[i][1] < q[j][1]
    <3>1. CASE j \in 1 .. Len(queue) BY <1>0, <1>4, <3>1 DEF Between
    <3>2. CASE j = k
      <4>1. Carried[i][1] \in 1 .. Len(size) BY <1>0 DEF Linked, Known
      <4>2. QED BY <1>7, <1>14, <3>2, <4>1
    <3>3. QED BY <1>6, <3>1, <3>2
  <2>3. QED BY <1>0, <1>4, <2>1, <2>2 DEF Between
<1>17. ASSUME sock = "up", resets = 0 PROVE Accounted(got, Carried, q, tz)
  <2> HIDE DEF n, k
  <2>1. ASSUME NEW p \in 1 .. n
        PROVE  \/ TooLong(<<p, tz[p]>>)
               \/ \E i \in 1 .. Len(got) : got[i] = p
               \/ \E i \in 1 .. Len(Carried) : Carried[i][1] = p
               \/ \E i \in 1 .. k : q[i][1] = p
    <3>1. CASE p = n BY <1>8, <1>14, <3>1
    <3>2. CASE p \in 1 .. Len(size)
      <4>1. \/ TooLong(<<p, size[p]>>)
            \/ \E i \in 1 .. Len(got) : got[i] = p
            \/ \E i \in 1 .. Len(Carried) : Carried[i][1] = p
            \/ \E i \in 1 .. Len(queue) : queue[i][1] = p
        BY <1>0, <1>17, <3>2 DEF Accounted
      <4>2. tz[p] = size[p] BY <1>2, <3>2
      <4>3. CASE \E i \in 1 .. Len(queue) : queue[i][1] = p BY <1>4, <1>10, <4>3
      <4>4. QED BY <4>1, <4>2, <4>3
    <3>3. QED BY <1>5, <3>1, <3>2
  <2>2. QED BY <1>2, <1>4, <2>1 DEF Accounted
<1>18. Sound(q, tz)
  <2>1. Len(tz) <= MaxPacket BY <1>2, <1>9
  <2> HIDE DEF n, k
  <2>2. QED BY <1>0, <1>11, <1>12, <1>15, <1>16, <1>17, <2>1 DEF Sound
<1>19. QED BY <1>18 DEF q, tz

\* sendBuf keeps the invariant.
LEMMA SendBufInv ==
    ASSUME IInv, NEW d \in DataLen, sendBufTo(d)
    PROVE  IInv'
<1> DEFINE e == HeadLen + d
           q == Append(queue, <<Len(size) + 1, e>>)
           tz == Append(size, e)
<1>1. e \in Nat /\ e >= HeadLen BY LengthAssumption
<1>2. Len(size) < MaxPacket /\ size' = tz /\ UNCHANGED <<state, recvBuf, resets, got>> BY DEF sendBufTo
<1> HIDE DEF e
<1>3. Sound(q, tz) BY <1>1, <1>2, Pushed
<1>4. CASE sendBuf = << >>
  <2>1. handleSend(q) BY <1>4 DEF sendBufTo, e
  <2> HIDE DEF q, tz
  <2>2. QED BY <1>2, <1>3, <2>1, HandleSendInv
<1>5. CASE sendBuf # << >>
  <2>1. queue' = q /\ armed' = (sock # "closed") /\ UNCHANGED <<sendBuf, wire, sock>> BY <1>5 DEF sendBufTo, e
  <2> HIDE DEF q, tz
  <2>2. Carried' = Carried BY <1>2, <2>1 DEF Carried, Stream
  <2>3. ControlInv' BY <1>2, <1>3, <2>1 DEF Sound, ControlInv
  <2>4. QED BY <1>2, <1>3, <2>1, <2>2, <2>3 DEF IInv, Sound
<1>6. QED BY <1>4, <1>5

\* A connection that is lost carries nothing.
LEMMA NothingCarried ==
    ASSUME NEW sz
    PROVE  Linked(<< >>, sz) /\ Ends(<< >>, sz) /\ Known(<< >>, sz)
<1>1. << >> \in Seq(Byte) /\ Len(<< >>) = 0 OBVIOUS
<1>2. 1 .. 0 = {} /\ 1 .. 0 - 1 = {} OBVIOUS
<1>3. QED BY <1>1, <1>2 DEF Linked, Ends, Known

\* Nor is anything between what was handed up and what waits.
LEMMA NothingBetween ==
    ASSUME NEW q, NEW F, NEW g, Between(g, F, q)
    PROVE  Between(g, << >>, q)
<1>1. Len(<< >>) = 0 OBVIOUS
<1>2. QED BY <1>1 DEF Between

\* A reset by the peer keeps the invariant.
LEMMA PeerResetInv ==
    ASSUME IInv, peerReset
    PROVE  IInv'
<1>1. << >> \in Seq(Byte) /\ Len(<< >>) = 0 /\ << >> \o << >> = << >> OBVIOUS
<1>2. Carried' = << >> BY <1>1 DEF peerReset, Carried
<1>3. Linked(<< >>, size) /\ Between(got, << >>, queue)
  BY NothingCarried, NothingBetween DEF IInv, Sound
<1>4. ControlInv' BY <1>1, Numbers DEF IInv, Sound, ControlInv, peerReset
<1>5. QED BY <1>2, <1>3, <1>4 DEF IInv, Sound, peerReset

\* A new connection keeps the invariant.
LEMMA ResetSocketInv ==
    ASSUME IInv, resetSocket
    PROVE  IInv'
<1>1. << >> \in Seq(Byte) /\ Len(<< >>) = 0 /\ << >> \o << >> = << >> OBVIOUS
<1>2. Carried' = << >> BY <1>1 DEF resetSocket, Carried, Stream
<1>3. Linked(<< >>, size) /\ Ends(<< >>, size) /\ Known(<< >>, size) /\ Between(got, << >>, queue)
  BY NothingCarried, NothingBetween DEF IInv, Sound
<1>4. resets' \in 0 .. MaxReset /\ resets' # 0
  <2>1. resets \in 0 .. MaxReset /\ resets < MaxReset /\ resets' = resets + 1
    BY DEF IInv, Sound, ControlInv, resetSocket
  <2>2. QED BY <2>1, Numbers
<1>5. ControlInv'
  <2>1. sock' = "up" /\ state' = "RW" /\ armed' = FALSE /\ wire' = << >> /\ recvBuf' = << >> BY DEF resetSocket
  <2>2. Len(wire') <= Window BY <1>1, <2>1, Numbers
  <2>3. QED BY <1>1, <1>4, <2>1, <2>2 DEF ControlInv
<1>6. QED BY <1>2, <1>3, <1>4, <1>5 DEF IInv, Sound, resetSocket

\* What is left in send_buf_ never follows when the socket is closed.
LEMMA ClosedInv ==
    ASSUME IInv, sock' = "closed", armed' = FALSE, sendBuf' \in {sendBuf, << >>}, state' \in {"RW", "CLOSED"},
           UNCHANGED <<queue, wire, recvBuf, resets, size, got>>
    PROVE  IInv'
<1> DEFINE F == recvBuf \o wire
<1>1. ControlInv /\ recvBuf \in Seq(Byte) /\ wire \in Seq(Byte) /\ sendBuf \in Seq(Byte)
  BY DEF IInv, Sound, ControlInv, Known
<1>2. F \in Seq(Byte)
  <2>1. recvBuf \in Seq(Byte) /\ wire \in Seq(Byte) BY <1>1
  <2>2. QED BY <2>1, Joined
<1>3. Carried' = F BY DEF Carried
<1>4. Linked(Carried, size) /\ Between(got, Carried, queue) BY DEF IInv, Sound
<1>5. Carried = F \o sendBuf \/ Carried = F BY DEF Carried, Stream
<1> HIDE DEF F
<1>6. Linked(F, size)
  <2>1. CASE Carried = F BY <1>4, <2>1
  <2>2. CASE Carried = F \o sendBuf
    <3>1. sendBuf \in Seq(Byte) BY <1>1
    <3>2. QED BY <1>2, <1>4, <2>2, <3>1, LinkedStart
  <2>3. QED BY <1>5, <2>1, <2>2
<1>7. Between(got, F, queue)
  <2>1. CASE Carried = F BY <1>4, <2>1
  <2>2. CASE Carried = F \o sendBuf
    <3>1. sendBuf \in Seq(Byte) BY <1>1
    <3>2. Len(Carried) = Len(F) + Len(sendBuf) /\ \A i \in 1 .. Len(F) : Carried[i] = F[i]
      BY <1>2, <2>2, <3>1, Joined
    <3>3. Len(F) \in Nat /\ Len(sendBuf) \in Nat BY <1>1, <1>2
    <3>4. \A i \in 1 .. Len(F) : i \in 1 .. Len(Carried) BY <3>2, <3>3
    <3>5. QED BY <1>4, <3>2, <3>4 DEF Between
  <2>3. QED BY <1>5, <2>1, <2>2
<1>8. Known(sendBuf', size) BY NothingCarried DEF IInv, Sound
<1>9. ControlInv' BY <1>1 DEF ControlInv
<1>10. QED BY <1>3, <1>6, <1>7, <1>8, <1>9 DEF IInv, Sound

\* n bytes of w are read behind r, which makes b, and m bytes of b are parsed: what
\* is left follows on what is not yet read.
PartRead(r, w, s, n, b, m) ==
    /\ Drop(b, m) \o Drop(w, n) = Drop(r \o w, m)
    /\ (Drop(b, m) \o Drop(w, n)) \o s = Drop((r \o w) \o s, m)

\* What is read is the beginning of what is under way.
LEMMA ReadPart ==
    ASSUME NEW r \in Seq(Byte), NEW w \in Seq(Byte), NEW s \in Seq(Byte), NEW n \in 0 .. Len(w),
           NEW b, b = r \o SubSeq(w, 1, n), NEW m \in 0 .. Len(b)
    PROVE  /\ b \in Seq(Byte)
           /\ Len(b) <= Len(r \o w) /\ \A i \in 1 .. Len(b) : (r \o w)[i] = b[i]
           /\ Len(b) <= Len((r \o w) \o s) /\ \A i \in 1 .. Len(b) : ((r \o w) \o s)[i] = b[i]
           /\ PartRead(r, w, s, n, b, m)
<1> DEFINE x == SubSeq(w, 1, n)
           d == Drop(w, n)
           v == r \o w
           F == v \o s
<1>1. x \in Seq(Byte) BY Taken
<1>2. d \in Seq(Byte) BY Dropped
<1>3. x \o d = w BY Rejoined
<1>4. b = r \o x OBVIOUS
<1> HIDE DEF x, d
<1>5. b \in Seq(Byte) BY <1>1, <1>4, Joined
<1>6. v = b \o d
  <2>1. r \in Seq(Byte) /\ x \in Seq(Byte) /\ d \in Seq(Byte) BY <1>1, <1>2
  <2>2. Whole(r, x, d) = r \o (x \o d) BY <2>1, WholeJoined
  <2>3. Whole(r, x, d) = b \o d BY <1>4 DEF Whole
  <2>4. QED BY <1>3, <2>2, <2>3
<1> HIDE DEF v
<1>7. v \in Seq(Byte) /\ Len(v) = Len(b) + Len(d) /\ \A i \in 1 .. Len(b) : v[i] = b[i]
  <2>1. b \in Seq(Byte) /\ d \in Seq(Byte) BY <1>2, <1>5
  <2>2. QED BY <1>6, <2>1, Joined
<1>8. F \in Seq(Byte) /\ Len(F) = Len(v) + Len(s) /\ \A i \in 1 .. Len(v) : F[i] = v[i]
  <2>1. v \in Seq(Byte) BY <1>7
  <2>2. QED BY <2>1, Joined
<1>9. Len(b) \in Nat /\ Len(d) \in Nat /\ Len(s) \in Nat /\ Len(v) \in Nat BY <1>2, <1>5, <1>7
<1>10. Drop(v, m) = Drop(b, m) \o d
  <2>1. b \in Seq(Byte) /\ d \in Seq(Byte) BY <1>2, <1>5
  <2>2. QED BY <1>6, <2>1, DroppedJoined
<1>11. Drop(F, m) = Drop(v, m) \o s
  <2>1. v \in Seq(Byte) /\ m \in 0 .. Len(v) BY <1>7, <1>9
  <2>2. QED BY <2>1, DroppedJoined
<1> HIDE DEF F
<1>12. Len(b) <= Len(v) /\ Len(b) <= Len(F) /\ \A i \in 1 .. Len(b) : i \in 1 .. Len(v) BY <1>7, <1>8, <1>9
<1>13. \A i \in 1 .. Len(b) : F[i] = b[i] BY <1>7, <1>8, <1>12
<1>14. (Drop(b, m) \o d) \o s = Drop(F, m) BY <1>10, <1>11
<1>15. QED BY <1>5, <1>7, <1>10, <1>12, <1>13, <1>14 DEF PartRead, F, v, d

\* What is parsed is handed up behind what was, and is older than what is left.
LEMMA HandedOn ==
    ASSUME NEW g, NEW d, NEW F, NEW q, NEW sz, NEW b, NEW m, NEW s, NEW G, Sizes(sz), Handed(g, sz), Linked(F, sz),
           Between(g, F, q), Parsed(F, b, m, s), d = s.done, m \in 0 .. Len(F), G = Drop(F, m)
    PROVE  /\ Handed(g \o d, sz) /\ Between(g \o d, G, q)
           /\ Accounted(g, F, q, sz) => Accounted(g \o d, G, q, sz)
<1> DEFINE t == g \o d
<1>0. /\ g \in Seq(Nat) /\ d \in Seq(Nat) /\ F \in Seq(Byte)
      /\ Len(g) \in Nat /\ Len(d) \in Nat /\ Len(F) \in Nat /\ m \in Nat
  BY DEF Handed, Parsed, Linked, Known
<1>1. /\ t \in Seq(Nat) /\ Len(t) = Len(g) + Len(d)
      /\ \A i \in 1 .. Len(g) : t[i] = g[i]
      /\ \A i \in 1 .. Len(d) : t[Len(g) + i] = d[i]
  BY <1>0, Joined
<1>2. Len(G) = Len(F) - m /\ \A i \in 1 .. Len(F) - m : G[i] = F[m + i] BY <1>0, Dropped
<1>3. \A i \in 1 .. Len(G) : m + i \in m + 1 .. Len(F) /\ m + i \in 1 .. Len(F) /\ G[i] = F[m + i]
  <2>1. ASSUME NEW i \in 1 .. Len(G)
        PROVE  m + i \in m + 1 .. Len(F) /\ m + i \in 1 .. Len(F) /\ i \in 1 .. Len(F) - m
    BY <1>0, <1>2
  <2>2. QED BY <1>2, <2>1
<1> HIDE DEF t
\* An element of t is one of g or the first of a byte that was parsed.
<1>4. ASSUME NEW i \in 1 .. Len(t)
      PROVE  \/ i \in 1 .. Len(g) /\ t[i] = g[i]
             \/ i - Len(g) \in 1 .. Len(d) /\ Len(g) < i /\ t[i] = d[i - Len(g)]
  <2>1. CASE i <= Len(g)
    <3>1. i \in 1 .. Len(g) BY <1>0, <2>1
    <3>2. QED BY <1>1, <3>1
  <2>2. CASE ~ (i <= Len(g))
    <3> DEFINE k == i - Len(g)
    <3>1. k \in 1 .. Len(d) /\ Len(g) < i /\ Len(g) + k = i BY <1>0, <1>1, <2>2
    <3> HIDE DEF k
    <3>2. t[i] = d[k] BY <1>1, <3>1
    <3>3. QED BY <3>1, <3>2 DEF k
  <2>3. QED BY <2>1, <2>2
<1>5. \A i \in 1 .. Len(d) : \E h \in 1 .. Len(F) : F[h][1] = d[i]
  <2>1. \A i \in 1 .. Len(d) : \E h \in 1 .. m : F[h][1] = d[i] BY DEF Parsed
  <2>2. \A h \in 1 .. m : h \in 1 .. Len(F) BY <1>0
  <2>3. QED BY <2>1, <2>2
<1>6. ASSUME NEW i \in 1 .. Len(t) PROVE t[i] \in 1 .. Len(sz)
  <2>1. \A h \in 1 .. Len(g) : g[h] \in 1 .. Len(sz) BY DEF Handed
  <2>2. \A h \in 1 .. Len(F) : F[h][1] \in 1 .. Len(sz) BY DEF Linked, Known
  <2>3. \A h \in 1 .. Len(d) : d[h] \in 1 .. Len(sz) BY <1>5, <2>2
  <2>4. QED BY <1>4, <2>1, <2>3
<1>7. ASSUME NEW i \in 1 .. Len(t), NEW j \in 1 .. Len(t), i < j PROVE t[i] < t[j]
  <2>1. CASE j \in 1 .. Len(g) /\ t[j] = g[j]
    <3>1. i \in 1 .. Len(g) BY <1>0, <1>7, <2>1
    <3>2. QED BY <1>1, <1>7, <2>1, <3>1 DEF Handed
  <2>2. CASE j - Len(g) \in 1 .. Len(d) /\ Len(g) < j /\ t[j] = d[j - Len(g)]
    <3>1. CASE i \in 1 .. Len(g) /\ t[i] = g[i]
      <4>1. PICK h \in 1 .. Len(F) : F[h][1] = d[j - Len(g)] BY <1>5, <2>2
      <4>2. g[i] < F[h][1] BY <3>1 DEF Between
      <4>3. QED BY <2>2, <3>1, <4>1, <4>2
    <3>2. CASE i - Len(g) \in 1 .. Len(d) /\ Len(g) < i /\ t[i] = d[i - Len(g)]
      <4>1. i - Len(g) < j - Len(g) BY <1>0, <1>7
      <4>2. \A x, y \in 1 .. Len(d) : x < y => d[x] < d[y] BY DEF Parsed
      <4>3. QED BY <2>2, <3>2, <4>1, <4>2
    <3>3. QED BY <1>4, <3>1, <3>2
  <2>3. QED BY <1>4, <2>1, <2>2
<1>8. Handed(t, sz) BY <1>1, <1>6, <1>7 DEF Handed
<1>9. ASSUME NEW i \in 1 .. Len(t), NEW j \in 1 .. Len(G) PROVE t[i] < G[j][1]
  <2>1. m + j \in m + 1 .. Len(F) /\ m + j \in 1 .. Len(F) /\ G[j] = F[m + j] BY <1>3
  <2>2. \A x \in 1 .. Len(g) : g[x] < F[m + j][1] BY <2>1 DEF Between
  <2>3. \A x \in 1 .. Len(d) : d[x] < F[m + j][1] BY <2>1 DEF Parsed
  <2>4. QED BY <1>4, <2>1, <2>2, <2>3
<1>10. ASSUME NEW i \in 1 .. Len(t), NEW j \in 1 .. Len(q) PROVE t[i] < q[j][1]
  <2>1. \A x \in 1 .. Len(g) : g[x] < q[j][1] BY DEF Between
  <2>2. \A x \in 1 .. Len(F) : F[x][1] < q[j][1] BY DEF Between
  <2>3. \A x \in 1 .. Len(d) : d[x] < q[j][1] BY <1>5, <2>2
  <2>4. QED BY <1>4, <2>1, <2>3
<1>11. \A i \in 1 .. Len(G), j \in 1 .. Len(q) : G[i][1] < q[j][1] BY <1>3 DEF Between
<1>12. Between(t, G, q) BY <1>9, <1>10, <1>11 DEF Between
<1>13. ASSUME Accounted(g, F, q, sz) PROVE Accounted(t, G, q, sz)
  <2>1. ASSUME NEW i \in 1 .. Len(g) PROVE \E h \in 1 .. Len(t) : t[h] = g[i]
    <3>1. Len(t) = Len(g) + Len(d) /\ t[i] = g[i] BY <1>1
    <3>2. i \in 1 .. Len(t) BY <1>0, <3>1
    <3>3. QED BY <3>1, <3>2
  <2>2. ASSUME NEW i \in 1 .. Len(d) PROVE \E h \in 1 .. Len(t) : t[h] = d[i]
    <3>1. Len(t) = Len(g) + Len(d) /\ t[Len(g) + i] = d[i] BY <1>1
    <3>2. Len(g) + i \in 1 .. Len(t) BY <1>0, <3>1
    <3>3. QED BY <3>1, <3>2
  <2>3. ASSUME NEW i \in 1 .. Len(F)
        PROVE  (\E h \in 1 .. Len(t) : t[h] = F[i][1]) \/ (\E h \in 1 .. Len(G) : G[h][1] = F[i][1])
    <3>1. CASE i <= m
      <4>1. i \in 1 .. m BY <1>0, <3>1
      <4>2. PICK x \in 1 .. Len(d) : d[x] = F[i][1] BY <4>1 DEF Parsed
      <4>3. QED BY <2>2, <4>2
    <3>2. CASE ~ (i <= m)
      <4>1. i - m \in 1 .. Len(G) /\ m + (i - m) = i BY <1>0, <1>2, <3>2
      <4>2. G[i - m] = F[i] BY <1>3, <4>1
      <4>3. QED BY <4>1, <4>2
    <3>3. QED BY <3>1, <3>2
  <2>4. ASSUME NEW p \in 1 .. Len(sz)
        PROVE  \/ TooLong(<<p, sz[p]>>)
               \/ \E i \in 1 .. Len(t) : t[i] = p
               \/ \E i \in 1 .. Len(G) : G[i][1] = p
               \/ \E i \in 1 .. Len(q) : q[i][1] = p
    <3>1. \/ TooLong(<<p, sz[p]>>)
          \/ \E i \in 1 .. Len(g) : g[i] = p
          \/ \E i \in 1 .. Len(F) : F[i][1] = p
          \/ \E i \in 1 .. Len(q) : q[i][1] = p
      BY <1>13 DEF Accounted
    <3>2. CASE \E i \in 1 .. Len(g) : g[i] = p BY <2>1, <3>2
    <3>3. CASE \E i \in 1 .. Len(F) : F[i][1] = p BY <2>3, <3>3
    <3>4. QED BY <3>1, <3>2, <3>3
  <2>5. QED BY <2>4 DEF Accounted
<1>14. QED BY <1>8, <1>12, <1>13 DEF t

\* Reading keeps the invariant.
LEMMA OnReciveDataInv ==
    ASSUME IInv, NEW n, OnReciveData(n)
    PROVE  IInv'
<1> DEFINE b == recvBuf \o SubSeq(wire, 1, n)
           r == ParseTcpPdu(b)
           v == recvBuf \o wire
           F == Carried
<1>0. /\ ControlInv /\ Sizes(size) /\ Handed(got, size) /\ Linked(F, size) /\ Between(got, F, queue)
      /\ recvBuf \in Seq(Byte) /\ wire \in Seq(Byte) /\ sendBuf \in Seq(Byte) /\ Len(wire) \in Nat
      /\ Len(wire) <= Window
  BY DEF IInv, Sound, ControlInv, Known
<1>1. n \in 1 .. Len(wire) /\ n \in 0 .. Len(wire)
  <2>1. n \in 1 .. Len(wire) BY DEF OnReciveData
  <2>2. QED BY <1>0, <2>1
<1>2. /\ recvBuf' = r.buf /\ got' = got \o r.done /\ wire' = Drop(wire, n)
      /\ UNCHANGED <<queue, sendBuf, armed, sock, state, resets, size>>
  BY DEF OnReciveData
<1>3. (sock = "up" => F = v \o sendBuf) /\ (sock # "up" => F = v) BY DEF Carried, Stream
<1>4. b = recvBuf \o SubSeq(wire, 1, n) OBVIOUS
<1> HIDE DEF b, r, F
<1>5. /\ b \in Seq(Byte)
      /\ Len(b) <= Len(v) /\ \A i \in 1 .. Len(b) : v[i] = b[i]
      /\ Len(b) <= Len(v \o sendBuf) /\ \A i \in 1 .. Len(b) : (v \o sendBuf)[i] = b[i]
  <2>1. recvBuf \in Seq(Byte) /\ wire \in Seq(Byte) /\ sendBuf \in Seq(Byte) BY <1>0
  <2>2. 0 \in 0 .. Len(b)
    <3>1. SubSeq(wire, 1, n) \in Seq(Byte) BY <1>1, <2>1, Taken
    <3>2. b \in Seq(Byte) BY <1>4, <2>1, <3>1, Joined
    <3>3. QED BY <3>2
  <2>3. QED BY <1>1, <1>4, <2>1, <2>2, ReadPart
<1>6. Len(b) <= Len(F) /\ \A i \in 1 .. Len(b) : F[i] = b[i]
  <2> HIDE DEF v
  <2>1. CASE sock = "up" BY <1>3, <1>5, <2>1
  <2>2. CASE sock # "up" BY <1>3, <1>5, <2>2
  <2>3. QED BY <2>1, <2>2
<1>7. PICK m : Parsed(F, b, m, r)
  <2>1. b \in Seq(Byte) BY <1>5
  <2>2. \E m : Parsed(F, b, m, ParseTcpPdu(b)) BY <1>0, <1>6, <2>1, ParseResult
  <2>3. QED BY <2>2 DEF r
<1>8. m \in 0 .. Len(b) /\ r.buf = Drop(b, m) /\ (m < Len(F) => F[m + 1][2] = 1) BY <1>7 DEF Parsed
<1>9. m \in 0 .. Len(F)
  <2>1. Len(F) \in Nat /\ Len(b) \in Nat BY <1>0, <1>5 DEF Linked, Known
  <2>2. QED BY <1>6, <1>8, <2>1
<1> DEFINE G == Drop(F, m)
<1>10. Carried' = G
  <2>1. recvBuf \in Seq(Byte) /\ wire \in Seq(Byte) /\ sendBuf \in Seq(Byte) BY <1>0
  <2>2. /\ Drop(b, m) \o Drop(wire, n) = Drop(v, m)
        /\ (Drop(b, m) \o Drop(wire, n)) \o sendBuf = Drop(v \o sendBuf, m)
    <3>1. m \in 0 .. Len(b) BY <1>8
    <3>2. n \in 0 .. Len(wire) BY <1>1
    <3>3. PartRead(recvBuf, wire, sendBuf, n, b, m) BY <1>4, <2>1, <3>1, <3>2, ReadPart
    <3>4. QED BY <3>3 DEF PartRead
  <2>3. /\ sock = "up" => Carried' = (recvBuf' \o wire') \o sendBuf
        /\ sock # "up" => Carried' = recvBuf' \o wire'
    BY <1>2 DEF Carried, Stream
  <2> HIDE DEF v
  <2>4. recvBuf' \o wire' = Drop(v, m) BY <1>2, <1>8, <2>2
  <2>5. (recvBuf' \o wire') \o sendBuf = Drop(v \o sendBuf, m) BY <1>2, <1>8, <2>2
  <2>6. CASE sock = "up" BY <1>3, <2>3, <2>5, <2>6
  <2>7. CASE sock # "up" BY <1>3, <2>3, <2>4, <2>7
  <2>8. QED BY <2>6, <2>7
<1>11. Linked(G, size) /\ (Ends(F, size) => Ends(G, size)) BY <1>0, <1>8, <1>9, LinkedTail
<1>12. /\ Handed(got', size) /\ Between(got', G, queue)
       /\ Accounted(got, F, queue, size) => Accounted(got', G, queue, size)
  <2>1. got' = got \o r.done BY <1>2
  <2>2. /\ Handed(got \o r.done, size) /\ Between(got \o r.done, G, queue)
        /\ Accounted(got, F, queue, size) => Accounted(got \o r.done, G, queue, size)
    BY <1>0, <1>7, <1>9, HandedOn
  <2>3. QED BY <2>1, <2>2
<1> HIDE DEF G
<1>13. ControlInv'
  <2>1. recvBuf' \in Seq(Byte) BY <1>2, <1>5, <1>8, Dropped
  <2>2. wire' \in Seq(Byte) /\ Len(wire') = Len(wire) - n BY <1>0, <1>1, <1>2, Dropped
  <2>3. Len(wire') <= Window BY <1>0, <1>1, <2>2, Numbers
  <2>4. QED BY <1>0, <1>2, <2>1, <2>2, <2>3 DEF ControlInv
<1>14. QED BY <1>2, <1>10, <1>11, <1>12, <1>13 DEF IInv, Sound, F

\* A channel that was just added satisfies the invariant,
LEMMA InitInv == Init => IInv
<1> SUFFICES ASSUME Init PROVE IInv OBVIOUS
<1>1. << >> \in Seq(Byte) /\ Len(<< >>) = 0 /\ << >> \o << >> = << >> /\ << >> \in Seq(Nat) /\ << >> \in Seq(Nat \X Nat)
  OBVIOUS
<1>2. Carried = << >> BY <1>1 DEF Init, Carried, Stream
<1>3. Linked(Carried, size) /\ Ends(Carried, size) /\ Known(sendBuf, size) BY <1>2, NothingCarried DEF Init
<1>4. 1 .. 0 = {} OBVIOUS
<1>5. Sizes(size) /\ Waiting(queue, size) /\ Handed(got, size) /\ Len(size) <= MaxPacket
  BY <1>1, <1>4, Numbers DEF Init, Sizes, Waiting, Handed
<1>6. Between(got, Carried, queue) /\ Accounted(got, Carried, queue, size)
  BY <1>1, <1>2, <1>4 DEF Init, Between, Accounted
<1>7. ControlInv
  <2>1. sock = "up" /\ state = "RW" /\ armed = FALSE /\ wire = << >> /\ recvBuf = << >> BY DEF Init
  <2>2. resets \in 0 .. MaxReset /\ Len(wire) <= Window BY <1>1, Numbers DEF Init
  <2>3. QED BY <1>1, <2>1, <2>2 DEF ControlInv
<1>8. QED BY <1>3, <1>5, <1>6, <1>7 DEF IInv, Sound

\* and every handler of the relay and of the proxy keeps it.
LEMMA NextInv ==
    ASSUME IInv, [Next]_vars
    PROVE  IInv'
<1>1. ASSUME NEW d \in DataLen, sendBufTo(d) PROVE IInv' BY <1>1, SendBufInv
<1>2. CASE pollOut
  <2>1. handleSend(queue) /\ size' = size /\ UNCHANGED <<state, recvBuf, resets, got>> BY <1>2 DEF pollOut
  <2>2. Sound(queue, size) BY DEF IInv
  <2>3. QED BY <2>1, <2>2, HandleSendInv
<1>3. CASE handleClose
  <2>1. /\ sock' = "closed" /\ armed' = FALSE /\ sendBuf' = sendBuf /\ state' = state
        /\ UNCHANGED <<queue, wire, recvBuf, resets, size, got>>
    BY <1>3 DEF handleClose
  <2>2. state \in {"RW", "CLOSED"} BY DEF IInv, Sound, ControlInv
  <2>3. QED BY <2>1, <2>2, ClosedInv
<1>4. CASE close
  <2>1. /\ sock' = "closed" /\ armed' = FALSE /\ sendBuf' = << >> /\ state' = "CLOSED"
        /\ UNCHANGED <<queue, wire, recvBuf, resets, size, got>>
    BY <1>4 DEF close
  <2>2. QED BY <2>1, ClosedInv
<1>5. CASE resetSocket BY <1>5, ResetSocketInv
<1>6. CASE peerReset BY <1>6, PeerResetInv
<1>7. CASE Client
  <2>1. PICK n \in 1 .. Window : OnReciveData(n) BY <1>7 DEF Client
  <2>2. QED BY <2>1, OnReciveDataInv
<1>8. CASE UNCHANGED vars
  <2>1. UNCHANGED <<queue, sendBuf, armed, sock, state, wire, recvBuf, resets, size, got>> BY <1>8 DEF vars
  <2>2. Carried' = Carried BY <2>1 DEF Carried, Stream
  <2>3. ControlInv' BY <2>1 DEF IInv, Sound, ControlInv
  <2>4. QED BY <2>1, <2>2, <2>3 DEF IInv, Sound
<1>9. QED BY <1>1, <1>2, <1>3, <1>4, <1>5, <1>6, <1>7, <1>8 DEF Next

-----------------------------------------------------------------------------
(* What follows from the invariant.                                         *)

\* All the bytes of the connection are of packets that were given to sendBuf.
LEMMA StreamKnown ==
    ASSUME IInv
    PROVE  \A i \in 1 .. Len(Stream) : Stream[i][1] \in 1 .. Len(size)
<1> DEFINE F == recvBuf \o wire
<1>1. Known(Carried, size) /\ Known(sendBuf, size) BY DEF IInv, Sound, Linked
<1>2. CASE sock = "up" BY <1>1, <1>2 DEF Known, Carried
<1>3. CASE sock # "up"
  <2>1. Known(F, size) /\ Stream = F \o sendBuf BY <1>1, <1>3 DEF Carried, Stream
  <2> HIDE DEF F
  <2>2. F \in Seq(Byte) /\ sendBuf \in Seq(Byte) /\ Len(F) \in Nat /\ Len(sendBuf) \in Nat BY <1>1, <2>1 DEF Known
  <2>3. /\ Len(Stream) = Len(F) + Len(sendBuf)
        /\ \A i \in 1 .. Len(F) : Stream[i] = F[i]
        /\ \A i \in 1 .. Len(sendBuf) : Stream[Len(F) + i] = sendBuf[i]
    BY <2>1, <2>2, Joined
  <2>4. ASSUME NEW i \in 1 .. Len(Stream) PROVE Stream[i][1] \in 1 .. Len(size)
    <3>1. CASE i <= Len(F)
      <4>1. i \in 1 .. Len(F) BY <2>2, <3>1
      <4>2. QED BY <2>1, <2>3, <4>1 DEF Known
    <3>2. CASE ~ (i <= Len(F))
      <4> DEFINE k == i - Len(F)
      <4>1. k \in 1 .. Len(sendBuf) /\ Len(F) + k = i BY <2>2, <2>3, <3>2
      <4> HIDE DEF k
      <4>2. Stream[i] = sendBuf[k] BY <2>3, <4>1
      <4>3. QED BY <1>1, <4>1, <4>2 DEF Known
    <3>3. QED BY <3>1, <3>2
  <2>5. QED BY <2>4
<1>4. QED BY <1>2, <1>3

\* While the connection is up, what will reach the proxy is all of it.
LEMMA InvWholePdus ==
    ASSUME IInv
    PROVE  WholePdus
<1> SUFFICES ASSUME sock = "up", Stream # << >>
             PROVE  /\ Stream[1][2] = 1
                    /\ Stream[Len(Stream)][2] = size[Stream[Len(Stream)][1]]
                    /\ \A i \in 1 .. Len(Stream) - 1 : Follows(Stream[i], Stream[i + 1], size)
  BY DEF WholePdus, Follows
<1>1. Linked(Stream, size) /\ Ends(Stream, size) BY DEF IInv, Sound, Carried
<1>2. Len(Stream) > 0
  <2>1. Stream \in Seq(Byte) BY <1>1 DEF Linked, Known
  <2> DEFINE s == Stream
  <2>2. s \in Seq(Byte) /\ s # << >> BY <2>1
  <2> HIDE DEF s
  <2>3. Len(s) > 0 BY <2>2
  <2>4. QED BY <2>3 DEF s
<1>3. QED BY <1>1, <1>2 DEF Linked, Ends

\* Order is part of the invariant, and so is that no packet is missing.
LEMMA InvInOrderNoLoss ==
    ASSUME IInv
    PROVE  InOrderNoLoss
<1>1. \A i, j \in 1 .. Len(got) : i < j => got[i] < got[j] BY DEF IInv, Sound, Handed
<1>2. ASSUME sock = "up", resets = 0, NEW p \in 1 .. Len(size)
      PROVE  TooLong(<<p, size[p]>>) \/ p \in Got \cup InStream \cup Queued
  <2>1. Accounted(got, Stream, queue, size) BY <1>2 DEF IInv, Sound, Carried
  <2>2. \/ TooLong(<<p, size[p]>>)
        \/ \E i \in 1 .. Len(got) : got[i] = p
        \/ \E i \in 1 .. Len(Stream) : Stream[i][1] = p
        \/ \E i \in 1 .. Len(queue) : queue[i][1] = p
    BY <1>2, <2>1 DEF Accounted
  <2>3. QED BY <2>2 DEF Got, InStream, Queued
<1>3. QED BY <1>1, <1>2 DEF InOrderNoLoss

\* The invariant holds in every state: the bytes that will reach the proxy on this
\* connection go on PDU by PDU, between the packets handed up and those queued,
\* whatever the order of short writes, time-outs, resets and new connections.
THEOREM DownlinkInvariance == Spec => []IInv
<1>1. Init => IInv BY InitInv
<1>2. IInv /\ [Next]_vars => IInv' BY NextInv
<1>3. QED BY <1>1, <1>2, PTL DEF Spec

\* Types; epoll never watches a closed descriptor, the connection never holds more
\* than its window and no byte is of a packet that nobody gave to sendBuf.
THEOREM DownlinkTypes == Spec => []TypeOK
<1>1. ASSUME IInv PROVE TypeOK
  <2>1. /\ sock \in {"up", "broken", "closed"} /\ state \in {"RW", "CLOSED"} /\ armed \in BOOLEAN
        /\ (armed => sock # "closed") /\ Len(size) <= MaxPacket /\ resets <= MaxReset /\ Len(wire) <= Window
    BY <1>1, Numbers DEF IInv, Sound, ControlInv
  <2>2. Queued \subseteq 1 .. Len(size) BY <1>1 DEF IInv, Sound, Waiting, Queued
  <2>3. Got \subseteq 1 .. Len(size) BY <1>1 DEF IInv, Sound, Handed, Got
  <2>4. InStream \subseteq 1 .. Len(size) BY <1>1, StreamKnown DEF InStream
  <2>5. QED BY <2>1, <2>2, <2>3, <2>4 DEF TypeOK
<1>2. QED BY <1>1, DownlinkInvariance, PTL

\* What handleSend puts into a connection, with what it leaves in send_buf_, is
\* whole PDUs one after the other, for any window: ParseTcpPdu finds a header
\* where it looks for one.
THEOREM WholePdusOnly == Spec => []WholePdus
<1>1. IInv => WholePdus BY InvWholePdus
<1>2. QED BY <1>1, DownlinkInvariance, PTL

\* ParseTcpPdu hands packets up in the order of sendBuf, each at most once, over all
\* connections of the channel; on the first one none is lost but those that
\* packPduBuf does not wrap.
THEOREM OrderedWithoutLoss == Spec => []InOrderNoLoss
<1>1. IInv => InOrderNoLoss BY InvInOrderNoLoss
<1>2. QED BY <1>1, DownlinkInvariance, PTL

=============================================================================
