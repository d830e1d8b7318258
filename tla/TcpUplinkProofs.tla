-------------------------- MODULE TcpUplinkProofs --------------------------
(***************************************************************************)
(* Proofs about TcpUplink, for any lengths of PDUs, buffers and windows:   *)
(* what the relay's recv_buf_, the connection and send_buf_ hold together  *)
(* is always an end of the stream of accepted PDUs; the relay handles them *)
(* in order, once each, and misses one, or takes bytes inside one for a    *)
(* PDU, only behind one that is too long, whatever the payloads contain;   *)
(* so the connection implements RelayFifo up to that one.                  *)
(*                                                                         *)
(* The inductive invariant says where in that stream the relay stands.     *)
(* What processData makes of a buffer is proved by induction over its      *)
(* rounds, as a property of the set of pairs (round, state).               *)
(***************************************************************************)
EXTENDS TcpUplink, Integers, SequenceTheorems, FiniteSetTheorems, WellFoundedInduction, TLAPS

Byte == Nat \X Nat

\* The lengths of PDUs: every one has a header.
Sizes(sz) == sz \in Seq(Nat) /\ \A p \in 1 .. Len(sz) : sz[p] >= HeadLen

\* The byte behind the first m of the stream F; behind the last one it is the first
\* byte of the PDU that will be sent next.
At(F, sz, m) == IF m = Len(F) THEN <<Len(sz) + 1, 1>> ELSE F[m + 1]

\* The byte that follows byte x in the stream of all PDUs.
After(x, sz) == IF x[2] < sz[x[1]] THEN <<x[1], x[2] + 1>> ELSE <<x[1] + 1, 1>>

\* F is an end of the stream of all PDUs.
Chain(F, sz) ==
    /\ F \in Seq(Byte)
    /\ \A m \in 0 .. Len(F) - 1 :
         /\ At(F, sz, m)[1] \in 1 .. Len(sz)
         /\ At(F, sz, m)[2] \in 1 .. sz[At(F, sz, m)[1]]
         /\ At(F, sz, m + 1) = After(At(F, sz, m), sz)

\* A payload that parsePduHead refuses, and the PDUs before the first of them.
Long(sz, p) == sz[p] - HeadLen > MaxData
Fit(sz, p) == \A l \in 1 .. p : ~ Long(sz, l)

\* The PDUs h have been handled, and the stream has arrived at PDU n: PDUs before n
\* were handled once each and in order, and only from one that is too long on may
\* some be missing.
HandledInv(sz, h, n) ==
    /\ h \in Seq(Nat)
    /\ \A i \in 1 .. Len(h) : h[i] \in 1 .. n - 1 /\ ~ Long(sz, h[i]) /\ (Fit(sz, h[i]) => h[i] = i)
    /\ \A i, j \in 1 .. Len(h) : i < j => h[i] < h[j]
    /\ \A q \in 1 .. n - 1 : Fit(sz, q) => q <= Len(h) /\ h[q] = q

\* The relay has lost its place in the stream only behind a PDU that is too long.
InPlace(sz, x) == x[2] # 1 => ~ Fit(sz, x[1])

\* What bytes inside a PDU say as a header, for every PDU.
Contents == UNION {[D -> Heads] : D \in SUBSET PosedAt}
PosedInv(sz, ps) == ps \in Seq(Contents) /\ Len(ps) = Len(sz)

\* Bytes inside a PDU were handled as one only behind a PDU that is too long.
MisreadInv(sz, ms) == \A p \in ms : p \in 1 .. Len(sz) /\ ~ Fit(sz, p)

\* A state of processData, and what holds after k of its rounds on the buffer b, with
\* which the stream F begins: m bytes have been consumed, and at least k if there is
\* more to do.
Parsed == [buf : Seq(Byte), done : Seq(Nat), pieces : SUBSET Nat]
AfterRounds(F, b, k, s) ==
    \E m \in 0 .. Len(b) :
        /\ s.buf = Drop(b, m)
        /\ HandledInv(size, handled \o s.done, At(F, size, m)[1])
        /\ InPlace(size, At(F, size, m))
        /\ MisreadInv(size, misread \cup s.pieces)
        /\ k <= m \/ parseOne(s) = s

-----------------------------------------------------------------------------
(* Numbers and sequences.                                                   *)

\* The constants are numbers.
LEMMA Numbers ==
    /\ TypedLen \in Nat /\ HeadLen \in Nat /\ MaxData \in Nat /\ BufLen \in Nat
    /\ Word \in Nat /\ Window \in Nat /\ MaxPdu \in Nat
    /\ TypedLen > 0 /\ HeadLen > 0 /\ MaxData > 0 /\ Word > 0
    /\ TypedLen <= MaxData /\ HeadLen < Word
    /\ PosedAt \subseteq Nat /\ Stated \subseteq Nat
  BY LengthAssumption

\* A set of numbers has a least one.
LEMMA LeastNat ==
    ASSUME NEW T, T \subseteq Nat, T # {}
    PROVE  \E x \in T : \A y \in T : x <= y
<1> DEFINE R == OpToRel(<, Nat)
<1>1. \E x \in T : \A y \in T : ~ (<<y, x>> \in R)
  <2>1. IsWellFoundedOn(R, Nat) BY NatLessThanWellFounded
  <2> HIDE DEF R
  <2>2. QED BY <2>1, WFMin
<1>2. PICK x \in T : \A y \in T : ~ (<<y, x>> \in R) BY <1>1
<1>3. ASSUME NEW y \in T PROVE x <= y
  <2>1. ~ (<<y, x>> \in R) BY <1>2
  <2>2. <<y, x>> \in R <=> y < x BY DEF OpToRel
  <2> HIDE DEF R
  <2>3. y \in Nat /\ x \in Nat OBVIOUS
  <2>4. QED BY <2>1, <2>2, <2>3
<1>4. QED BY <1>3

\* Induction: a set of numbers that has 0, and with k the number k + 1, has them all.
LEMMA Induction ==
    ASSUME NEW T, 0 \in T, \A k \in Nat : k \in T => k + 1 \in T
    PROVE  Nat \subseteq T
<1> DEFINE U == {k \in Nat : ~ (k \in T)}
<1> SUFFICES ASSUME U # {} PROVE FALSE OBVIOUS
<1>1. PICK x \in U : \A y \in U : x <= y
  <2>1. U \subseteq Nat OBVIOUS
  <2> HIDE DEF U
  <2>2. QED BY <2>1, LeastNat
<1>2. x \in Nat /\ ~ (x \in T) /\ x # 0 BY <1>1
<1>3. x - 1 \in Nat /\ (x - 1) + 1 = x /\ ~ (x <= x - 1) BY <1>2
<1>4. x - 1 \in T BY <1>1, <1>3
<1>5. QED BY <1>2, <1>3, <1>4

-----------------------------------------------------------------------------
(* processData runs parseOne as often as there are bytes.                   *)

\* The rounds of processData.
LEMMA RoundsExist ==
    ASSUME NEW b, Len(b) \in Nat
    PROVE  \E f : /\ f[0] = [buf |-> b, done |-> << >>, pieces |-> {}]
                  /\ \A k \in 1 .. Len(b) : f[k] = parseOne(f[k - 1])
                  /\ processData(b) = f[Len(b)]
<1> DEFINE base == [buf |-> b, done |-> << >>, pieces |-> {}]
           Is(f, n) == f = [k \in 0 .. n |-> IF k = 0 THEN base ELSE parseOne(f[k - 1])]
           T == {n \in Nat : \E f : Is(f, n)}
<1> HIDE DEF base
<1>1. 0 \in T
  <2> DEFINE f == [k \in 0 .. 0 |-> base]
  <2>1. Is(f, 0) OBVIOUS
  <2>2. QED BY <2>1
<1>2. ASSUME NEW n \in Nat, n \in T PROVE n + 1 \in T
  <2>1. PICK f : Is(f, n) BY <1>2
  <2> DEFINE g == [k \in 0 .. n + 1 |-> IF k <= n THEN f[k] ELSE parseOne(f[n])]
  <2>2. ASSUME NEW k \in 0 .. n + 1 PROVE g[k] = IF k = 0 THEN base ELSE parseOne(g[k - 1])
    <3>1. CASE k = 0
      <4>1. f[0] = base BY <2>1
      <4>2. QED BY <3>1, <4>1
    <3>2. CASE k # 0 /\ k <= n
      <4>1. f[k] = parseOne(f[k - 1]) BY <2>1, <3>2
      <4>2. k - 1 \in 0 .. n + 1 /\ k - 1 <= n BY <3>2
      <4>3. g[k] = f[k] /\ g[k - 1] = f[k - 1] BY <3>2, <4>2
      <4>4. QED BY <3>2, <4>1, <4>3
    <3>3. CASE k = n + 1
      <4>1. k - 1 = n /\ n \in 0 .. n + 1 /\ k # 0 /\ ~ (k <= n) BY <3>3
      <4>2. g[k] = parseOne(f[n]) /\ g[k - 1] = f[n] BY <4>1
      <4>3. QED BY <4>1, <4>2
    <3>4. QED BY <3>1, <3>2, <3>3
  <2>3. Is(g, n + 1)
    <3>1. g = [k \in 0 .. n + 1 |-> g[k]] OBVIOUS
    <3> HIDE DEF g
    <3>2. QED BY <2>2, <3>1
  <2> HIDE DEF g, Is
  <2>4. n + 1 \in Nat OBVIOUS
  <2>5. QED BY <2>3, <2>4
<1>3. Len(b) \in T
  <2> HIDE DEF T
  <2>1. QED BY <1>1, <1>2, Induction
<1> DEFINE round == CHOOSE f : Is(f, Len(b))
<1>4. Is(round, Len(b))
  <2>1. \E f : Is(f, Len(b)) BY <1>3
  <2> HIDE DEF Is
  <2>2. QED BY <2>1
<1>5. processData(b) = round[Len(b)] BY DEF processData, base
<1> HIDE DEF round
<1>6. round[0] = base BY <1>4
<1>7. \A k \in 1 .. Len(b) : round[k] = parseOne(round[k - 1]) BY <1>4
<1>8. QED BY <1>5, <1>6, <1>7 DEF base

\* What holds before the first round and is kept by each holds of the result.
LEMMA Rounds ==
    ASSUME NEW b, Len(b) \in Nat, NEW S,
           <<0, [buf |-> b, done |-> << >>, pieces |-> {}]>> \in S,
           \A k \in Nat : \A s : <<k, s>> \in S => <<k + 1, parseOne(s)>> \in S
    PROVE  <<Len(b), processData(b)>> \in S
<1>1. PICK f : /\ f[0] = [buf |-> b, done |-> << >>, pieces |-> {}]
               /\ \A k \in 1 .. Len(b) : f[k] = parseOne(f[k - 1])
               /\ processData(b) = f[Len(b)]
  BY RoundsExist
<1> DEFINE T == {k \in Nat : k <= Len(b) => <<k, f[k]>> \in S}
<1>2. 0 \in T BY <1>1
<1>3. ASSUME NEW k \in Nat, k \in T PROVE k + 1 \in T
  <2> SUFFICES ASSUME k + 1 <= Len(b) PROVE <<k + 1, f[k + 1]>> \in S OBVIOUS
  <2>1. <<k, f[k]>> \in S BY <1>3
  <2>2. k + 1 \in 1 .. Len(b) /\ (k + 1) - 1 = k OBVIOUS
  <2>3. f[k + 1] = parseOne(f[k]) BY <1>1, <2>2
  <2>4. QED BY <2>1, <2>3
<1>4. Len(b) \in T
  <2> HIDE DEF T
  <2>1. QED BY <1>2, <1>3, Induction
<1>5. QED BY <1>1, <1>4

-----------------------------------------------------------------------------
(* Cutting and joining sequences.                                           *)

\* The length and the elements of what two sequences make together.
LEMMA Joined ==
    ASSUME NEW S, NEW s \in Seq(S), NEW t \in Seq(S)
    PROVE  /\ s \o t \in Seq(S) /\ Len(s \o t) = Len(s) + Len(t)
           /\ \A i \in 1 .. Len(s) : (s \o t)[i] = s[i]
           /\ \A i \in 1 .. Len(t) : (s \o t)[Len(s) + i] = t[i]
<1> DEFINE a == s \o t
<1>0. Len(s) \in Nat /\ Len(t) \in Nat OBVIOUS
<1>1. /\ s \o t \in Seq(S)
      /\ Len(s \o t) = Len(s) + Len(t)
      /\ \A i \in 1 .. Len(s) + Len(t) : (s \o t)[i] = IF i <= Len(s) THEN s[i] ELSE t[i - Len(s)]
  BY ConcatProperties
<1>2. /\ a \in Seq(S) /\ Len(a) = Len(s) + Len(t)
      /\ \A i \in 1 .. Len(s) + Len(t) : a[i] = IF i <= Len(s) THEN s[i] ELSE t[i - Len(s)]
  BY <1>1
<1> HIDE DEF a
<1>3. \A i \in 1 .. Len(s) : a[i] = s[i] BY <1>0, <1>2
<1>4. ASSUME NEW i \in 1 .. Len(t) PROVE a[Len(s) + i] = t[i]
  <2> DEFINE k == Len(s) + i
  <2>1. k \in 1 .. Len(s) + Len(t) /\ ~ (k <= Len(s)) /\ k - Len(s) = i BY <1>0
  <2> HIDE DEF k
  <2>2. a[k] = t[i] BY <1>2, <2>1
  <2>3. QED BY <2>2 DEF k
<1>5. QED BY <1>2, <1>3, <1>4 DEF a

\* What is left when n elements are dropped.
LEMMA Dropped ==
    ASSUME NEW S, NEW s \in Seq(S), NEW n \in 0 .. Len(s)
    PROVE  /\ Drop(s, n) \in Seq(S) /\ Len(Drop(s, n)) = Len(s) - n
           /\ \A i \in 1 .. Len(s) - n : Drop(s, n)[i] = s[n + i]
<1> DEFINE a == SubSeq(s, n + 1, Len(s))
<1>0. Len(s) \in Nat /\ n \in Nat OBVIOUS
<1>1. n + 1 \in Int /\ Len(s) \in Int /\ \A i \in n + 1 .. Len(s) : s[i] \in S BY <1>0
<1>2. /\ SubSeq(s, n + 1, Len(s)) \in Seq(S)
      /\ Len(SubSeq(s, n + 1, Len(s))) = IF n + 1 <= Len(s) THEN Len(s) - (n + 1) + 1 ELSE 0
      /\ \A i \in 1 .. Len(s) - (n + 1) + 1 : SubSeq(s, n + 1, Len(s))[i] = s[(n + 1) + i - 1]
  BY <1>1, SubSeqProperties
<1>3. Len(s) - (n + 1) + 1 = Len(s) - n BY <1>0
<1>4. (IF n + 1 <= Len(s) THEN Len(s) - (n + 1) + 1 ELSE 0) = Len(s) - n BY <1>0
<1>5. \A i \in 1 .. Len(s) - n : (n + 1) + i - 1 = n + i BY <1>0
<1>6. a \in Seq(S) /\ Len(a) = Len(s) - n /\ \A i \in 1 .. Len(s) - n : a[i] = s[n + i]
  BY <1>2, <1>3, <1>4, <1>5
<1> HIDE DEF a
<1>7. QED BY <1>6 DEF Drop, a

\* The first n elements.
LEMMA Taken ==
    ASSUME NEW S, NEW s \in Seq(S), NEW n \in 0 .. Len(s)
    PROVE  /\ SubSeq(s, 1, n) \in Seq(S) /\ Len(SubSeq(s, 1, n)) = n
           /\ \A i \in 1 .. n : SubSeq(s, 1, n)[i] = s[i]
<1>0. Len(s) \in Nat /\ n \in Nat OBVIOUS
<1>1. 1 \in Int /\ n \in Int /\ \A i \in 1 .. n : s[i] \in S BY <1>0
<1>2. /\ SubSeq(s, 1, n) \in Seq(S)
      /\ Len(SubSeq(s, 1, n)) = IF 1 <= n THEN n - 1 + 1 ELSE 0
      /\ \A i \in 1 .. n - 1 + 1 : SubSeq(s, 1, n)[i] = s[1 + i - 1]
  BY <1>1, SubSeqProperties
<1>3. n - 1 + 1 = n /\ (IF 1 <= n THEN n - 1 + 1 ELSE 0) = n /\ \A i \in 1 .. n : 1 + i - 1 = i BY <1>0
<1>4. QED BY <1>2, <1>3

\* What is taken and what is left make the sequence.
LEMMA Rejoined ==
    ASSUME NEW S, NEW s \in Seq(S), NEW n \in 0 .. Len(s)
    PROVE  SubSeq(s, 1, n) \o Drop(s, n) = s
<1> DEFINE a == SubSeq(s, 1, n)
           d == Drop(s, n)
           j == a \o d
<1>0. Len(s) \in Nat /\ n \in Nat OBVIOUS
<1>1. a \in Seq(S) /\ Len(a) = n /\ \A i \in 1 .. n : a[i] = s[i] BY Taken
<1>2. d \in Seq(S) /\ Len(d) = Len(s) - n /\ \A i \in 1 .. Len(s) - n : d[i] = s[n + i] BY Dropped
<1> HIDE DEF a, d
<1>3. /\ j \in Seq(S) /\ Len(j) = Len(a) + Len(d)
      /\ \A i \in 1 .. Len(a) : j[i] = a[i]
      /\ \A i \in 1 .. Len(d) : j[Len(a) + i] = d[i]
  BY <1>1, <1>2, Joined
<1> HIDE DEF j
<1>4. Len(j) = Len(s) BY <1>0, <1>1, <1>2, <1>3
<1>5. ASSUME NEW i \in 1 .. Len(j) PROVE j[i] = s[i]
  <2>1. CASE i <= n
    <3>1. i \in 1 .. n /\ i \in 1 .. Len(a) BY <1>0, <1>1, <2>1
    <3>2. QED BY <1>1, <1>3, <3>1
  <2>2. CASE ~ (i <= n)
    <3>1. i - n \in 1 .. Len(d) /\ n + (i - n) = i BY <1>0, <1>2, <1>4, <2>2
    <3>2. i - n \in 1 .. Len(s) - n BY <1>2, <3>1
    <3>3. j[n + (i - n)] = d[i - n] BY <1>1, <1>3, <3>1
    <3>4. d[i - n] = s[n + (i - n)] BY <1>2, <3>2
    <3>5. QED BY <3>1, <3>3, <3>4
  <2>3. QED BY <2>1, <2>2
<1>6. j = s BY <1>3, <1>4, <1>5, SeqEqual
<1>7. QED BY <1>6 DEF a, d, j

\* Dropping twice.
LEMMA DroppedTwice ==
    ASSUME NEW S, NEW s \in Seq(S), NEW m \in 0 .. Len(s), NEW n \in 0 .. Len(s) - m
    PROVE  Drop(Drop(s, m), n) = Drop(s, m + n)
<1> DEFINE a == Drop(s, m)
           b == Drop(s, m + n)
           c == Drop(a, n)
<1>0. Len(s) \in Nat /\ m \in Nat /\ n \in Nat /\ m + n \in 0 .. Len(s) OBVIOUS
<1>1. a \in Seq(S) /\ Len(a) = Len(s) - m /\ \A i \in 1 .. Len(s) - m : a[i] = s[m + i] BY Dropped
<1>2. b \in Seq(S) /\ Len(b) = Len(s) - (m + n) /\ \A i \in 1 .. Len(s) - (m + n) : b[i] = s[m + n + i]
  BY <1>0, Dropped
<1> HIDE DEF a, b
<1>3. c \in Seq(S) /\ Len(c) = Len(a) - n /\ \A i \in 1 .. Len(a) - n : c[i] = a[n + i]
  <2>1. a \in Seq(S) /\ n \in 0 .. Len(a) BY <1>0, <1>1
  <2>2. QED BY <2>1, Dropped
<1> HIDE DEF c
<1>4. Len(c) = Len(b) BY <1>0, <1>1, <1>2, <1>3
<1>5. ASSUME NEW i \in 1 .. Len(c) PROVE c[i] = b[i]
  <2>1. n + i \in 1 .. Len(s) - m /\ i \in 1 .. Len(s) - (m + n) /\ i \in 1 .. Len(a) - n /\ m + (n + i) = m + n + i
    BY <1>0, <1>1, <1>3
  <2>2. QED BY <1>1, <1>2, <1>3, <2>1
<1>6. c = b BY <1>2, <1>3, <1>4, <1>5, SeqEqual
<1>7. QED BY <1>6 DEF a, b, c

\* Dropping from the first of two sequences that are joined.
LEMMA DroppedJoined ==
    ASSUME NEW S, NEW s \in Seq(S), NEW t \in Seq(S), NEW n \in 0 .. Len(s)
    PROVE  Drop(s \o t, n) = Drop(s, n) \o t
<1> DEFINE d == Drop(s, n)
           a == s \o t
           b == d \o t
           c == Drop(a, n)
<1>0. Len(s) \in Nat /\ Len(t) \in Nat /\ n \in Nat OBVIOUS
<1>1. d \in Seq(S) /\ Len(d) = Len(s) - n /\ \A i \in 1 .. Len(s) - n : d[i] = s[n + i] BY Dropped
<1>2. /\ a \in Seq(S) /\ Len(a) = Len(s) + Len(t)
      /\ \A i \in 1 .. Len(s) : a[i] = s[i]
      /\ \A i \in 1 .. Len(t) : a[Len(s) + i] = t[i]
  BY Joined
<1> HIDE DEF a, d
<1>3. /\ b \in Seq(S) /\ Len(b) = Len(d) + Len(t)
      /\ \A i \in 1 .. Len(d) : b[i] = d[i]
      /\ \A i \in 1 .. Len(t) : b[Len(d) + i] = t[i]
  <2>1. d \in Seq(S) BY <1>1
  <2>2. QED BY <2>1, Joined
<1>4. c \in Seq(S) /\ Len(c) = Len(a) - n /\ \A i \in 1 .. Len(a) - n : c[i] = a[n + i]
  <2>1. n \in 0 .. Len(a) BY <1>0, <1>2
  <2>2. QED BY <1>2, <2>1, Dropped
<1> HIDE DEF b, c
<1>5. Len(c) = Len(b) BY <1>0, <1>1, <1>2, <1>3, <1>4
<1>6. ASSUME NEW i \in 1 .. Len(c) PROVE c[i] = b[i]
  <2>1. c[i] = a[n + i] BY <1>4
  <2>2. CASE i <= Len(s) - n
    <3>1. n + i \in 1 .. Len(s) /\ i \in 1 .. Len(d) /\ i \in 1 .. Len(s) - n BY <1>0, <1>1, <2>2
    <3>2. QED BY <1>1, <1>2, <1>3, <2>1, <3>1
  <2>3. CASE ~ (i <= Len(s) - n)
    <3> DEFINE k == i - (Len(s) - n)
    <3>1. k \in 1 .. Len(t) /\ Len(s) + k = n + i /\ Len(d) + k = i BY <1>0, <1>1, <1>2, <1>4, <2>3
    <3> HIDE DEF k
    <3>2. QED BY <1>2, <1>3, <2>1, <3>1
  <2>4. QED BY <2>2, <2>3
<1>7. c = b BY <1>3, <1>4, <1>5, <1>6, SeqEqual
<1>8. QED BY <1>7 DEF a, b, c, d

-----------------------------------------------------------------------------
(* Positions in the stream.                                                 *)

\* A position is a byte of a PDU that was sent, or the first byte of the next one.
LEMMA Position ==
    ASSUME NEW F, NEW sz, Sizes(sz), Chain(F, sz), NEW m \in 0 .. Len(F)
    PROVE  /\ Len(F) \in Nat /\ Len(sz) \in Nat
           /\ At(F, sz, m) \in Byte /\ At(F, sz, m)[1] \in 1 .. Len(sz) + 1
           /\ m < Len(F) => At(F, sz, m)[1] \in 1 .. Len(sz) /\ At(F, sz, m) = F[m + 1]
<1>1. F \in Seq(Byte) /\ sz \in Seq(Nat) BY DEF Chain, Sizes
<1>2. Len(F) \in Nat /\ Len(sz) \in Nat BY <1>1
<1>3. CASE m = Len(F)
  <2>1. At(F, sz, m) = <<Len(sz) + 1, 1>> BY <1>3 DEF At
  <2>2. QED BY <1>2, <1>3, <2>1 DEF Byte
<1>4. CASE m # Len(F)
  <2>1. m \in 0 .. Len(F) - 1 /\ m + 1 \in 1 .. Len(F) BY <1>2, <1>4
  <2>2. At(F, sz, m) = F[m + 1] BY <1>4 DEF At
  <2>3. F[m + 1] \in Byte BY <1>1, <2>1
  <2>4. At(F, sz, m)[1] \in 1 .. Len(sz) BY <2>1 DEF Chain
  <2>5. QED BY <1>2, <2>2, <2>3, <2>4
<1>5. QED BY <1>3, <1>4

\* Further on in the stream are the same or later PDUs.
LEMMA Forward ==
    ASSUME NEW F, NEW sz, Sizes(sz), Chain(F, sz), NEW m \in 0 .. Len(F), NEW n \in m .. Len(F)
    PROVE  At(F, sz, m)[1] <= At(F, sz, n)[1]
<1> DEFINE P(k) == At(F, sz, m)[1] <= At(F, sz, m + k)[1]
           T == {k \in Nat : m + k <= Len(F) => P(k)}
<1>0. Len(F) \in Nat /\ m \in Nat /\ n \in Nat BY Position
<1>1. \A k \in 0 .. Len(F) : At(F, sz, k) \in Byte /\ At(F, sz, k)[1] \in Nat BY Position DEF Byte
<1>2. 0 \in T
  <2>1. m + 0 = m /\ At(F, sz, m)[1] \in Nat BY <1>0, <1>1
  <2>2. P(0) BY <2>1
  <2>3. QED BY <2>2
<1>3. ASSUME NEW k \in Nat, k \in T PROVE k + 1 \in T
  <2> SUFFICES ASSUME m + (k + 1) <= Len(F) PROVE P(k + 1) OBVIOUS
  <2>1. m + k \in 0 .. Len(F) - 1 /\ (m + k) + 1 = m + (k + 1) /\ m + k <= Len(F) BY <1>0
  <2>2. P(k) BY <1>3, <2>1
  <2> DEFINE x == At(F, sz, m + k)
             y == At(F, sz, m + (k + 1))
             z == At(F, sz, m)[1]
  <2>3. y = After(x, sz) BY <2>1 DEF Chain
  <2>4. x \in Byte /\ z \in Nat /\ z <= x[1] BY <1>0, <1>1, <2>1, <2>2
  <2> HIDE DEF x, y, z
  <2>5. z <= y[1] BY <2>3, <2>4 DEF After, Byte
  <2>6. QED BY <2>5 DEF y, z
<1>4. n - m \in T
  <2>1. n - m \in Nat BY <1>0
  <2> HIDE DEF T
  <2>2. QED BY <1>2, <1>3, <2>1, Induction
<1>5. m + (n - m) = n /\ n <= Len(F) BY <1>0
<1>6. QED BY <1>4, <1>5

\* Behind a whole PDU that starts at m the next one starts.
LEMMA WholePdu ==
    ASSUME NEW F, NEW sz, Sizes(sz), Chain(F, sz), NEW m \in 0 .. Len(F) - 1, NEW p \in 1 .. Len(sz),
           At(F, sz, m) = <<p, 1>>, m + sz[p] <= Len(F)
    PROVE  At(F, sz, m + sz[p]) = <<p + 1, 1>>
<1> DEFINE T == {k \in Nat : k < sz[p] => At(F, sz, m + k) = <<p, k + 1>>}
<1>0. Len(F) \in Nat /\ m \in Nat /\ p \in Nat /\ sz[p] \in Nat /\ sz[p] > 0
  <2>1. Len(F) \in Nat BY DEF Chain
  <2>2. sz[p] \in Nat /\ sz[p] >= HeadLen BY DEF Sizes
  <2>3. Len(sz) \in Nat BY DEF Sizes
  <2>4. QED BY <2>1, <2>2, <2>3, Numbers
<1>1. 0 \in T
  <2>1. m + 0 = m /\ 0 + 1 = 1 BY <1>0
  <2>2. QED BY <2>1
<1>2. ASSUME NEW k \in Nat, k \in T PROVE k + 1 \in T
  <2> SUFFICES ASSUME k + 1 < sz[p] PROVE At(F, sz, m + (k + 1)) = <<p, (k + 1) + 1>> OBVIOUS
  <2>1. k < sz[p] /\ m + k \in 0 .. Len(F) - 1 /\ (m + k) + 1 = m + (k + 1) BY <1>0
  <2>2. At(F, sz, m + k) = <<p, k + 1>> BY <1>2, <2>1
  <2>3. At(F, sz, m + (k + 1)) = After(<<p, k + 1>>, sz) BY <2>1, <2>2 DEF Chain
  <2>4. QED BY <2>3 DEF After
<1> DEFINE k == sz[p] - 1
<1>3. k \in Nat /\ k < sz[p] /\ k + 1 = sz[p] /\ m + k \in 0 .. Len(F) - 1 /\ (m + k) + 1 = m + sz[p] BY <1>0
<1>4. k \in T
  <2> HIDE DEF T, k
  <2>1. QED BY <1>1, <1>2, <1>3, Induction
<1>5. At(F, sz, m + k) = <<p, k + 1>> BY <1>3, <1>4
<1>6. At(F, sz, (m + k) + 1) = After(<<p, k + 1>>, sz)
  <2> HIDE DEF k
  <2>1. QED BY <1>3, <1>5 DEF Chain
<1>7. After(<<p, k + 1>>, sz) = <<p + 1, 1>>
  <2> HIDE DEF k
  <2>1. ~ (k + 1 < sz[p]) BY <1>0, <1>3
  <2>2. QED BY <2>1 DEF After
<1>8. QED BY <1>3, <1>6, <1>7

\* An end of an end of the stream is an end of the stream.
LEMMA ChainDropped ==
    ASSUME NEW F, NEW sz, Sizes(sz), Chain(F, sz), NEW m \in 0 .. Len(F)
    PROVE  Chain(Drop(F, m), sz) /\ At(Drop(F, m), sz, 0) = At(F, sz, m)
<1> DEFINE G == Drop(F, m)
<1>0. F \in Seq(Byte) /\ Len(F) \in Nat /\ m \in Nat BY DEF Chain
<1>1. G \in Seq(Byte) /\ Len(G) = Len(F) - m /\ \A i \in 1 .. Len(F) - m : G[i] = F[m + i] BY <1>0, Dropped
<1> HIDE DEF G
<1>2. ASSUME NEW j \in 0 .. Len(G) PROVE At(G, sz, j) = At(F, sz, m + j)
  <2>1. CASE j = Len(G)
    <3>1. m + j = Len(F) BY <1>0, <1>1, <2>1
    <3>2. QED BY <2>1, <3>1 DEF At
  <2>2. CASE j # Len(G)
    <3>1. Len(G) = Len(F) - m /\ Len(G) \in Nat BY <1>0, <1>1
    <3>2. j < Len(G) BY <2>2, <3>1
    <3>3. j \in Nat /\ j < Len(F) - m BY <3>1, <3>2
    <3>4. j + 1 \in 1 .. Len(F) - m /\ m + j # Len(F) /\ m + (j + 1) = (m + j) + 1 BY <1>0, <3>3
    <3>5. G[j + 1] = F[(m + j) + 1] BY <1>1, <3>4
    <3>6. QED BY <2>2, <3>4, <3>5 DEF At
  <2>3. QED BY <2>1, <2>2
<1>3. ASSUME NEW j \in 0 .. Len(G) - 1
      PROVE  /\ At(G, sz, j)[1] \in 1 .. Len(sz)
             /\ At(G, sz, j)[2] \in 1 .. sz[At(G, sz, j)[1]]
             /\ At(G, sz, j + 1) = After(At(G, sz, j), sz)
  <2>1. /\ m + j \in 0 .. Len(F) - 1 /\ j \in 0 .. Len(G) /\ j + 1 \in 0 .. Len(G)
        /\ m + (j + 1) = (m + j) + 1
    BY <1>0, <1>1
  <2>2. At(G, sz, j) = At(F, sz, m + j) /\ At(G, sz, j + 1) = At(F, sz, (m + j) + 1) BY <1>2, <2>1
  <2>3. QED BY <2>1, <2>2 DEF Chain
<1>4. At(G, sz, 0) = At(F, sz, m)
  <2>1. 0 \in 0 .. Len(G) /\ m + 0 = m BY <1>0, <1>1
  <2>2. QED BY <1>2, <2>1
<1>5. QED BY <1>1, <1>3, <1>4 DEF Chain, G

\* The stream with one more PDU, of e bytes.
LEMMA ChainGrown ==
    ASSUME NEW F, NEW sz, Sizes(sz), Chain(F, sz), NEW e \in Nat, e > 0
    PROVE  /\ Chain(F \o Bytes(Len(sz) + 1, e), Append(sz, e))
           /\ At(F \o Bytes(Len(sz) + 1, e), Append(sz, e), 0) = At(F, sz, 0)
<1> DEFINE B == Bytes(Len(sz) + 1, e)
           G == F \o B
           tz == Append(sz, e)
           L == Len(F)
           N == Len(sz)
<1>0. F \in Seq(Byte) /\ L \in Nat /\ sz \in Seq(Nat) /\ N \in Nat BY DEF Chain, Sizes
<1>1. B \in Seq(Byte) /\ Len(B) = e /\ \A i \in 1 .. e : B[i] = <<N + 1, i>>
  <2>1. \A i \in 1 .. e : <<N + 1, i>> \in Byte BY <1>0 DEF Byte
  <2>2. B \in [1 .. e -> Byte] BY <2>1 DEF Bytes
  <2>3. QED BY <2>2 DEF Bytes
<1>2. tz \in Seq(Nat) /\ Len(tz) = N + 1 /\ tz[N + 1] = e /\ \A i \in 1 .. N : tz[i] = sz[i]
  BY <1>0, AppendProperties
<1> HIDE DEF B, tz
<1>3. /\ G \in Seq(Byte) /\ Len(G) = L + e
      /\ \A i \in 1 .. L : G[i] = F[i]
      /\ \A i \in 1 .. e : G[L + i] = <<N + 1, i>>
  <2>1. B \in Seq(Byte) BY <1>1
  <2>2. /\ G \in Seq(Byte) /\ Len(G) = Len(F) + Len(B)
        /\ \A i \in 1 .. Len(F) : G[i] = F[i]
        /\ \A i \in 1 .. Len(B) : G[Len(F) + i] = B[i]
    BY <1>0, <2>1, Joined
  <2>3. QED BY <1>1, <2>2
<1> HIDE DEF G, L, N
<1>4. ASSUME NEW m \in 0 .. L PROVE At(G, tz, m) = At(F, sz, m)
  <2>1. CASE m = L
    <3>1. m # Len(G) /\ 1 \in 1 .. e BY <1>0, <1>3, <2>1
    <3>2. G[m + 1] = <<N + 1, 1>> BY <1>3, <2>1, <3>1
    <3>3. QED BY <2>1, <3>1, <3>2 DEF At, L, N
  <2>2. CASE m # L
    <3>1. m # Len(G) /\ m + 1 \in 1 .. L BY <1>0, <1>3, <2>2
    <3>2. QED BY <1>3, <2>2, <3>1 DEF At, L
  <2>3. QED BY <2>1, <2>2
<1>5. ASSUME NEW i \in 0 .. e - 1 PROVE At(G, tz, L + i) = <<N + 1, i + 1>>
  <2>1. i + 1 \in 1 .. e /\ L + i # Len(G) /\ (L + i) + 1 = L + (i + 1) BY <1>0, <1>3
  <2>2. QED BY <1>3, <2>1 DEF At
<1>6. At(G, tz, L + e) = <<(N + 1) + 1, 1>> BY <1>2, <1>3 DEF At
<1>7. ASSUME NEW m \in 0 .. Len(G) - 1
      PROVE  /\ At(G, tz, m)[1] \in 1 .. Len(tz)
             /\ At(G, tz, m)[2] \in 1 .. tz[At(G, tz, m)[1]]
             /\ At(G, tz, m + 1) = After(At(G, tz, m), tz)
  <2>1. CASE m < L
    <3>1. m \in 0 .. L /\ m + 1 \in 0 .. L /\ m \in 0 .. L - 1 BY <1>0, <2>1
    <3>2. At(G, tz, m) = At(F, sz, m) /\ At(G, tz, m + 1) = At(F, sz, m + 1) BY <1>4, <3>1
    <3> DEFINE x == At(F, sz, m)
    <3>3. x[1] \in 1 .. N /\ x[2] \in 1 .. sz[x[1]] /\ At(F, sz, m + 1) = After(x, sz)
      BY <3>1 DEF Chain, L, N
    <3> HIDE DEF x
    <3>4. tz[x[1]] = sz[x[1]] /\ x[1] \in 1 .. Len(tz) BY <1>0, <1>2, <3>3
    <3>5. After(x, tz) = After(x, sz) BY <3>4 DEF After
    <3>6. QED BY <3>2, <3>3, <3>4, <3>5 DEF x
  <2>2. CASE ~ (m < L)
    <3> DEFINE i == m - L
    <3>1. i \in 0 .. e - 1 /\ L + i = m /\ L + (i + 1) = m + 1 BY <1>0, <1>3, <2>2
    <3> HIDE DEF i
    <3>2. At(G, tz, m) = <<N + 1, i + 1>> BY <1>5, <3>1
    <3>3. At(G, tz, m + 1) = After(<<N + 1, i + 1>>, tz)
      <4>1. CASE i + 1 < e
        <5>1. i + 1 \in 0 .. e - 1 BY <3>1, <4>1
        <5>2. At(G, tz, m + 1) = <<N + 1, (i + 1) + 1>> BY <1>5, <3>1, <5>1
        <5>3. QED BY <1>2, <4>1, <5>2 DEF After
      <4>2. CASE ~ (i + 1 < e)
        <5>1. i + 1 = e BY <3>1, <4>2
        <5>2. QED BY <1>2, <1>6, <3>1, <5>1 DEF After
      <4>3. QED BY <4>1, <4>2
    <3>4. N + 1 \in 1 .. Len(tz) /\ i + 1 \in 1 .. tz[N + 1] BY <1>0, <1>2, <3>1
    <3>5. QED BY <3>2, <3>3, <3>4
  <2>3. QED BY <2>1, <2>2
<1>8. At(G, tz, 0) = At(F, sz, 0)
  <2>1. 0 \in 0 .. L BY <1>0
  <2>2. QED BY <1>4, <2>1
<1>9. Chain(G, tz) BY <1>3, <1>7 DEF Chain
<1>10. QED BY <1>8, <1>9 DEF B, G, tz, N

-----------------------------------------------------------------------------
(* A round of processData.                                                  *)

\* Everything behind a PDU that is too long may be missing.
LEMMA Skipped ==
    ASSUME NEW sz, NEW h, NEW n \in Nat, n >= 1, HandledInv(sz, h, n), ~ Fit(sz, n), NEW n2 \in Nat, n <= n2
    PROVE  HandledInv(sz, h, n2) /\ ~ Fit(sz, n2)
<1>1. ASSUME NEW q \in Nat, n <= q PROVE ~ Fit(sz, q)
  <2>1. PICK l \in 1 .. n : Long(sz, l) BY DEF Fit
  <2>2. l \in 1 .. q BY <1>1
  <2>3. QED BY <2>1, <2>2 DEF Fit
<1>2. h \in Seq(Nat) /\ Len(h) \in Nat BY DEF HandledInv
<1>3. ASSUME NEW i \in 1 .. Len(h) PROVE h[i] \in 1 .. n2 - 1 /\ ~ Long(sz, h[i]) /\ (Fit(sz, h[i]) => h[i] = i)
  <2>1. h[i] \in 1 .. n - 1 /\ ~ Long(sz, h[i]) /\ (Fit(sz, h[i]) => h[i] = i) BY DEF HandledInv
  <2>2. h[i] \in 1 .. n2 - 1 BY <2>1
  <2>3. QED BY <2>1, <2>2
<1>4. ASSUME NEW q \in 1 .. n2 - 1, Fit(sz, q) PROVE q <= Len(h) /\ h[q] = q
  <2>1. q \in 1 .. n - 1 BY <1>1, <1>4
  <2>2. QED BY <1>4, <2>1 DEF HandledInv
<1>5. HandledInv(sz, h, n2) BY <1>2, <1>3, <1>4 DEF HandledInv
<1>6. QED BY <1>1, <1>5

\* A PDU that is not too long is handled when the stream has arrived at it.
LEMMA HandledNext ==
    ASSUME NEW sz, NEW h, NEW n \in Nat, n >= 1, HandledInv(sz, h, n), ~ Long(sz, n)
    PROVE  HandledInv(sz, Append(h, n), n + 1)
<1> DEFINE g == Append(h, n)
           L == Len(h)
<1>1. h \in Seq(Nat) /\ L \in Nat BY DEF HandledInv
<1>2. g \in Seq(Nat) /\ Len(g) = L + 1 /\ g[L + 1] = n /\ \A i \in 1 .. L : g[i] = h[i]
  BY <1>1, AppendProperties
<1> HIDE DEF g
<1>3. \A i \in 1 .. L : h[i] \in 1 .. n - 1 /\ ~ Long(sz, h[i]) /\ (Fit(sz, h[i]) => h[i] = i) BY DEF HandledInv
<1>4. ASSUME Fit(sz, n) PROVE L + 1 = n
  <2>1. ASSUME NEW q \in 1 .. n - 1 PROVE q <= L /\ h[q] = q
    <3>1. Fit(sz, q)
      <4>1. \A l \in 1 .. q : l \in 1 .. n OBVIOUS
      <4>2. QED BY <1>4, <4>1 DEF Fit
    <3>2. QED BY <3>1 DEF HandledInv
  <2>2. n - 1 <= L
    <3>1. CASE n = 1 BY <1>1, <3>1
    <3>2. CASE n # 1
      <4>1. n - 1 \in 1 .. n - 1 BY <3>2
      <4>2. QED BY <2>1, <4>1
    <3>3. QED BY <3>1, <3>2
  <2>3. ~ (n <= L)
    <3> SUFFICES ASSUME n <= L PROVE FALSE OBVIOUS
    <3>1. n \in 1 .. L BY <1>1
    <3>2. h[n] \in 1 .. n - 1 BY <1>3, <3>1
    <3>3. n - 1 \in 1 .. n - 1 /\ n - 1 \in 1 .. L /\ n - 1 < n BY <1>1, <3>1, <3>2
    <3>4. h[n - 1] = n - 1 BY <2>1, <3>3
    <3>5. h[n - 1] < h[n] BY <3>1, <3>3 DEF HandledInv
    <3>6. QED BY <3>2, <3>4, <3>5
  <2>4. QED BY <1>1, <2>2, <2>3
<1>5. ASSUME NEW i \in 1 .. Len(g) PROVE g[i] \in 1 .. n /\ ~ Long(sz, g[i]) /\ (Fit(sz, g[i]) => g[i] = i)
  <2>1. CASE i = L + 1 BY <1>2, <1>4, <2>1
  <2>2. CASE i # L + 1
    <3>1. i \in 1 .. L BY <1>1, <1>2, <2>2
    <3>2. g[i] = h[i] /\ h[i] \in 1 .. n BY <1>2, <1>3, <3>1
    <3>3. QED BY <1>3, <3>1, <3>2
  <2>3. QED BY <2>1, <2>2
<1>6. ASSUME NEW i \in 1 .. Len(g), NEW j \in 1 .. Len(g), i < j PROVE g[i] < g[j]
  <2>1. i \in 1 .. L /\ g[i] = h[i] BY <1>1, <1>2, <1>6
  <2>2. CASE j = L + 1
    <3>1. h[i] \in 1 .. n - 1 BY <1>3, <2>1
    <3>2. QED BY <1>2, <2>1, <2>2, <3>1
  <2>3. CASE j # L + 1
    <3>1. j \in 1 .. L /\ g[j] = h[j] BY <1>1, <1>2, <2>3
    <3>2. QED BY <1>6, <2>1, <3>1 DEF HandledInv
  <2>4. QED BY <2>2, <2>3
<1>7. ASSUME NEW q \in 1 .. n, Fit(sz, q) PROVE q <= Len(g) /\ g[q] = q
  <2>1. CASE q = n BY <1>2, <1>4, <1>7, <2>1
  <2>2. CASE q # n
    <3>1. q \in 1 .. n - 1 BY <2>2
    <3>2. q <= L /\ h[q] = q BY <1>7, <3>1 DEF HandledInv
    <3>3. q \in 1 .. L BY <1>1, <3>2
    <3>4. QED BY <1>1, <1>2, <3>2, <3>3
  <2>3. QED BY <2>1, <2>2
<1>8. n + 1 - 1 = n OBVIOUS
<1>9. HandledInv(sz, g, n + 1) BY <1>2, <1>5, <1>6, <1>7, <1>8 DEF HandledInv
<1>10. QED BY <1>9 DEF g

\* What the bytes from x on say as a header: a length, and a genuine header states the
\* length of its PDU.
LEMMA HeadIs ==
    ASSUME Sizes(size), PosedInv(size, posed), NEW x \in Byte, x[1] \in 1 .. Len(size)
    PROVE  /\ headAt(x)[1] \in Nat /\ headAt(x)[2] \in BOOLEAN
           /\ x[2] = 1 => headAt(x)[1] = size[x[1]] - HeadLen /\ headAt(x)[2]
<1> DEFINE p == x[1]
           i == x[2]
<1>0. MaxData \in Nat /\ HeadLen \in Nat /\ Stated \subseteq Nat BY Numbers
<1>1. ASSUME NEW h \in Heads PROVE h[1] \in Nat /\ h[2] \in BOOLEAN
  <2>1. CASE h = NoHead BY <1>0, <2>1 DEF NoHead
  <2>2. CASE h \in Stated \X BOOLEAN BY <1>0, <2>2
  <2>3. QED BY <2>1, <2>2 DEF Heads
<1>2. CASE i = 1
  <2>1. size[p] \in Nat /\ size[p] >= HeadLen BY DEF Sizes
  <2>2. size[p] - HeadLen \in Nat BY <1>0, <2>1
  <2>3. headAt(x) = <<size[p] - HeadLen, TRUE>> BY <1>2 DEF headAt, DataLenOf, Pdu
  <2>4. QED BY <2>2, <2>3
<1>3. CASE i # 1 /\ i \in DOMAIN posed[p]
  <2>1. posed \in Seq(Contents) /\ p \in 1 .. Len(posed) BY DEF PosedInv
  <2>2. posed[p] \in Contents BY <2>1
  <2>3. PICK D \in SUBSET PosedAt : posed[p] \in [D -> Heads] BY <2>2 DEF Contents
  <2>4. posed[p][i] \in Heads BY <1>3, <2>3
  <2>5. headAt(x) = posed[p][i] BY <1>3 DEF headAt, Pdu
  <2>6. QED BY <1>1, <1>3, <2>4, <2>5
<1>4. CASE i # 1 /\ ~ (i \in DOMAIN posed[p])
  <2>1. headAt(x) = NoHead BY <1>4 DEF headAt, Pdu
  <2>2. QED BY <1>0, <1>4, <2>1 DEF NoHead
<1>5. QED BY <1>2, <1>3, <1>4

\* What a round does, case by case.
LEMMA ParseCases ==
    ASSUME NEW s \in Parsed, NEW x, x = s.buf[1], NEW h, h = headAt(x)[1], h \in Nat, headAt(x)[2] \in BOOLEAN
    PROVE  /\ Len(s.buf) < HeadLen => parseOne(s) = s
           /\ Len(s.buf) >= HeadLen /\ h > MaxData => parseOne(s) = [s EXCEPT !.buf = << >>]
           /\ Len(s.buf) >= HeadLen /\ h <= MaxData /\ Len(s.buf) < HeadLen + h => parseOne(s) = s
           /\ Len(s.buf) >= HeadLen /\ h <= MaxData /\ Len(s.buf) >= HeadLen + h
                => parseOne(s) = consume(s, x, HeadLen + h)
<1>1. Len(s.buf) \in Nat /\ HeadLen \in Nat /\ MaxData \in Nat BY Numbers DEF Parsed
<1>2. parseOne(s) = IF Len(s.buf) < HeadLen THEN s
                    ELSE IF h > MaxData THEN [s EXCEPT !.buf = << >>]
                    ELSE IF Len(s.buf) < HeadLen + h THEN s
                    ELSE consume(s, x, HeadLen + h)
  BY DEF parseOne
<1>3. CASE Len(s.buf) < HeadLen BY <1>1, <1>2, <1>3
<1>4. CASE Len(s.buf) >= HeadLen /\ h > MaxData
  <2>1. ~ (Len(s.buf) < HeadLen) /\ ~ (h <= MaxData) BY <1>1, <1>4
  <2>2. QED BY <1>2, <1>4, <2>1
<1>5. CASE Len(s.buf) >= HeadLen /\ h <= MaxData
  <2>1. ~ (Len(s.buf) < HeadLen) /\ ~ (h > MaxData) BY <1>1, <1>5
  <2>2. Len(s.buf) >= HeadLen + h => ~ (Len(s.buf) < HeadLen + h) BY <1>1
  <2>3. QED BY <1>2, <2>1, <2>2
<1>6. QED BY <1>1, <1>3, <1>4, <1>5

\* Sequences of handled PDUs may be joined in either order.
LEMMA HandledAssociative ==
    ASSUME NEW h \in Seq(Nat), NEW d \in Seq(Nat), NEW t \in Seq(Nat)
    PROVE  (h \o d) \o t = h \o (d \o t)
  BY ConcatAssociative, SMTT(60)

\* A PDU is appended to all that were handled.
LEMMA AppendDone ==
    ASSUME NEW h \in Seq(Nat), NEW d \in Seq(Nat), NEW p \in Nat
    PROVE  Append(d, p) \in Seq(Nat) /\ h \o Append(d, p) = Append(h \o d, p)
<1>1. <<p>> \in Seq(Nat) OBVIOUS
<1>2. Append(d, p) = d \o <<p>> BY AppendIsConcat
<1>3. h \o d \in Seq(Nat) BY Joined
<1>4. Append(h \o d, p) = (h \o d) \o <<p>> BY <1>3, AppendIsConcat
<1>5. (h \o d) \o <<p>> = h \o (d \o <<p>>) BY <1>1, HandledAssociative
<1>6. d \o <<p>> \in Seq(Nat) BY <1>1, Joined
<1>7. QED BY <1>2, <1>4, <1>5, <1>6

\* The place moves on to n, behind a PDU that is too long: what is skipped may be missing,
\* and bytes inside the PDU p may have been handled as a PDU.
LEMMA SkipTo ==
    ASSUME Sizes(size), NEW b \in Seq(Byte), NEW F, Chain(F, size), Len(b) <= Len(F),
           NEW s \in Parsed, NEW m \in 0 .. Len(b), NEW n \in m .. Len(b), NEW p, p = At(F, size, m)[1],
           p \in 1 .. Len(size), HandledInv(size, handled \o s.done, p), ~ Fit(size, p),
           MisreadInv(size, misread \cup s.pieces), NEW k \in Nat, k <= n,
           NEW t, t \subseteq s.pieces \cup {p}
    PROVE  /\ [buf |-> Drop(b, n), done |-> s.done, pieces |-> t] \in Parsed
           /\ AfterRounds(F, b, k, [buf |-> Drop(b, n), done |-> s.done, pieces |-> t])
<1> DEFINE r == [buf |-> Drop(b, n), done |-> s.done, pieces |-> t]
           y == At(F, size, n)
<1>0. Len(b) \in Nat /\ Len(F) \in Nat /\ Len(size) \in Nat BY DEF Chain, Sizes
<1>1. m \in 0 .. Len(F) /\ n \in m .. Len(F) /\ n \in 0 .. Len(F) /\ n \in 0 .. Len(b) /\ p \in Nat /\ p >= 1
  BY <1>0
<1>2. p <= y[1] BY <1>1, Forward
<1>3. y[1] \in Nat
  <2>1. y[1] \in 1 .. Len(size) + 1 BY <1>1, Position
  <2>2. QED BY <1>0, <2>1
<1> HIDE DEF y
<1>4. HandledInv(size, handled \o s.done, y[1]) /\ ~ Fit(size, y[1]) BY <1>1, <1>2, <1>3, Skipped
<1>5. InPlace(size, y) BY <1>4 DEF InPlace
<1>6. MisreadInv(size, misread \cup t) BY DEF MisreadInv
<1>7. r \in Parsed
  <2>1. Drop(b, n) \in Seq(Byte) BY <1>1, Dropped
  <2>2. s.done \in Seq(Nat) /\ t \in SUBSET Nat BY <1>1 DEF Parsed
  <2>3. QED BY <2>1, <2>2 DEF Parsed
<1>8. r.buf = Drop(b, n) /\ r.done = s.done /\ r.pieces = t OBVIOUS
<1> HIDE DEF r
<1>9. AfterRounds(F, b, k, r) BY <1>1, <1>4, <1>5, <1>6, <1>8 DEF AfterRounds, y
<1>10. QED BY <1>7, <1>9 DEF r

\* The state with its buffer thrown away.
LEMMA Emptied ==
    ASSUME NEW s \in Parsed
    PROVE  [s EXCEPT !.buf = << >>] = [buf |-> << >>, done |-> s.done, pieces |-> s.pieces]
<1>1. ASSUME NEW B, NEW D, NEW P, NEW t \in [buf : B, done : D, pieces : P], NEW e
      PROVE  [t EXCEPT !.buf = e] = [buf |-> e, done |-> t.done, pieces |-> t.pieces]
  OBVIOUS
<1> DEFINE B == Seq(Byte)
           D == Seq(Nat)
           P == SUBSET Nat
<1>2. s \in [buf : B, done : D, pieces : P] BY DEF Parsed
<1> HIDE DEF B, D, P
<1>3. QED BY <1>1, <1>2

\* A round keeps AfterRounds: it throws the buffer away, or takes bytes inside a PDU for
\* one, only where the relay has lost its place or meets a PDU that is too long, and
\* handles the PDU it has arrived at.
LEMMA ParseStep ==
    ASSUME Sizes(size), PosedInv(size, posed), handled \in Seq(Nat), NEW b \in Seq(Byte), NEW F, Chain(F, size),
           Len(b) <= Len(F), \A i \in 1 .. Len(b) : F[i] = b[i],
           NEW k \in Nat, NEW s \in Parsed, AfterRounds(F, b, k, s)
    PROVE  parseOne(s) \in Parsed /\ AfterRounds(F, b, k + 1, parseOne(s))
<1>0. Len(b) \in Nat /\ Len(F) \in Nat /\ Len(size) \in Nat BY DEF Chain, Sizes
<1>1. PICK m \in 0 .. Len(b) :
        /\ s.buf = Drop(b, m)
        /\ HandledInv(size, handled \o s.done, At(F, size, m)[1])
        /\ InPlace(size, At(F, size, m))
        /\ MisreadInv(size, misread \cup s.pieces)
        /\ k <= m \/ parseOne(s) = s
  BY DEF AfterRounds
<1>2. /\ s.buf \in Seq(Byte) /\ s.done \in Seq(Nat) /\ s.pieces \in SUBSET Nat
      /\ s = [buf |-> s.buf, done |-> s.done, pieces |-> s.pieces]
  BY DEF Parsed
<1>3. /\ Len(s.buf) = Len(b) - m
      /\ \A i \in 1 .. Len(b) - m : s.buf[i] = b[m + i]
  BY <1>1, Dropped
<1>4. CASE parseOne(s) = s BY <1>1, <1>4 DEF AfterRounds
<1>5. CASE parseOne(s) # s
  <2>1. Len(s.buf) >= HeadLen /\ HeadLen > 0 /\ HeadLen \in Nat /\ Len(s.buf) \in Nat
    <3>1. Len(s.buf) \in Nat /\ HeadLen \in Nat /\ HeadLen > 0 BY <1>2, Numbers
    <3>2. ~ (Len(s.buf) < HeadLen) BY <1>5 DEF parseOne
    <3>3. QED BY <3>1, <3>2
  <2> DEFINE x == At(F, size, m)
             p == x[1]
             h == headAt(x)[1]
             e == HeadLen + h
             n == m + e
  <2>2. m < Len(b) /\ m \in Nat /\ m \in 0 .. Len(F) /\ m < Len(F) /\ m + 1 \in 1 .. Len(b) /\ 1 \in 1 .. Len(b) - m
    BY <1>0, <1>3, <2>1
  <2>3. x = F[m + 1] /\ x \in Byte /\ p \in 1 .. Len(size) BY <2>2, Position
  <2>4. s.buf[1] = x BY <1>3, <2>2, <2>3
  <2>5. HandledInv(size, handled \o s.done, p) /\ InPlace(size, x) /\ k <= m BY <1>1, <1>5
  <2>6. p \in Nat /\ p >= 1 BY <1>0, <2>3
  <2>7. /\ h \in Nat /\ headAt(x)[2] \in BOOLEAN
        /\ x[2] = 1 => h = size[p] - HeadLen /\ headAt(x)[2]
    <3> HIDE DEF x
    <3>1. QED BY <2>3, HeadIs
  <2>8. /\ h > MaxData => parseOne(s) = [s EXCEPT !.buf = << >>]
        /\ h <= MaxData => ~ (Len(s.buf) < e) /\ parseOne(s) = consume(s, x, e)
    <3> HIDE DEF x, h
    <3>1. /\ Len(s.buf) >= HeadLen /\ h > MaxData => parseOne(s) = [s EXCEPT !.buf = << >>]
          /\ Len(s.buf) >= HeadLen /\ h <= MaxData /\ Len(s.buf) < HeadLen + h => parseOne(s) = s
          /\ Len(s.buf) >= HeadLen /\ h <= MaxData /\ Len(s.buf) >= HeadLen + h
               => parseOne(s) = consume(s, x, HeadLen + h)
      BY <2>4, <2>7, ParseCases DEF h
    <3>2. HeadLen + h \in Nat /\ (Len(s.buf) < HeadLen + h \/ Len(s.buf) >= HeadLen + h) BY <2>1, <2>7
    <3>3. Len(s.buf) >= HeadLen + h => ~ (Len(s.buf) < HeadLen + h) BY <2>1, <3>2
    <3>4. QED BY <1>5, <2>1, <3>1, <3>2, <3>3
  <2>9. h <= MaxData => e \in 0 .. Len(b) - m /\ n \in m .. Len(b) /\ n \in 0 .. Len(b) /\ k + 1 <= n
    <3> HIDE DEF h, x
    <3> SUFFICES ASSUME h <= MaxData PROVE e \in 0 .. Len(b) - m /\ n \in m .. Len(b) /\ n \in 0 .. Len(b) /\ k + 1 <= n
      OBVIOUS
    <3>1. e \in Nat /\ e >= 1 BY <2>1, <2>7
    <3>2. ~ (Len(b) - m < e) BY <1>3, <2>8
    <3> HIDE DEF e
    <3>3. QED BY <1>0, <2>2, <2>5, <3>1, <3>2
  <2>10. ASSUME parseOne(s) = [s EXCEPT !.buf = << >>], ~ Fit(size, p)
         PROVE  parseOne(s) \in Parsed /\ AfterRounds(F, b, k + 1, parseOne(s))
    <3> DEFINE l == Len(b)
    <3>1. l \in m .. Len(b) /\ k + 1 <= l /\ l \in 0 .. Len(b) /\ k + 1 \in Nat BY <1>0, <2>2, <2>5
    <3>2. Drop(b, l) = << >>
      <4>1. Drop(b, l) \in Seq(Byte) /\ Len(Drop(b, l)) = Len(b) - l BY <3>1, Dropped
      <4>2. Len(b) - l = 0 BY <1>0
      <4>3. QED BY <4>1, <4>2, EmptySeq
    <3>3. [s EXCEPT !.buf = << >>] = [buf |-> << >>, done |-> s.done, pieces |-> s.pieces] BY Emptied
    <3>4. s.pieces \subseteq s.pieces \cup {p} OBVIOUS
    <3> HIDE DEF l
    <3>5. /\ [buf |-> Drop(b, l), done |-> s.done, pieces |-> s.pieces] \in Parsed
          /\ AfterRounds(F, b, k + 1, [buf |-> Drop(b, l), done |-> s.done, pieces |-> s.pieces])
      BY <1>1, <2>3, <2>5, <2>10, <3>1, <3>4, SkipTo
    <3>6. QED BY <2>10, <3>2, <3>3, <3>5
  <2>11. CASE h > MaxData
    <3>1. ~ Fit(size, p)
      <4>1. CASE x[2] = 1
        <5>1. Long(size, p) BY <2>7, <2>11, <4>1 DEF Long
        <5>2. p \in 1 .. p BY <2>6
        <5>3. QED BY <5>1, <5>2 DEF Fit
      <4>2. CASE x[2] # 1 BY <2>5, <4>2 DEF InPlace
      <4>3. QED BY <4>1, <4>2
    <3>2. QED BY <2>8, <2>10, <2>11, <3>1
  <2>12. CASE h <= MaxData /\ ~ headAt(x)[2]
    <3>1. parseOne(s) = [s EXCEPT !.buf = << >>] BY <2>8, <2>12 DEF consume
    <3>2. ~ Fit(size, p) BY <2>5, <2>7, <2>12 DEF InPlace
    <3>3. QED BY <2>10, <3>1, <3>2
  <2>13. CASE h <= MaxData /\ headAt(x)[2] /\ x[2] # 1
    <3> DEFINE t == s.pieces \cup {p}
    <3>1. parseOne(s) = [buf |-> Drop(s.buf, e), done |-> s.done, pieces |-> t]
      BY <2>8, <2>13 DEF consume, Pdu
    <3>2. ~ Fit(size, p) BY <2>5, <2>13 DEF InPlace
    <3>3. Drop(s.buf, e) = Drop(b, n)
      <4> HIDE DEF e
      <4>1. QED BY <1>1, <2>9, <2>13, DroppedTwice
    <3>4. t \subseteq s.pieces \cup {p} /\ k + 1 \in Nat /\ p = At(F, size, m)[1] OBVIOUS
    <3> HIDE DEF t, e, n, h, x, p
    <3>5. /\ [buf |-> Drop(b, n), done |-> s.done, pieces |-> t] \in Parsed
          /\ AfterRounds(F, b, k + 1, [buf |-> Drop(b, n), done |-> s.done, pieces |-> t])
      <4>1. n \in m .. Len(b) /\ k + 1 <= n BY <2>9, <2>13
      <4>2. QED BY <1>1, <2>3, <2>5, <3>2, <3>4, <4>1, SkipTo
    <3>6. QED BY <3>1, <3>3, <3>5
  <2>14. CASE h <= MaxData /\ headAt(x)[2] /\ x[2] = 1
    <3> DEFINE r == [buf |-> Drop(s.buf, e), done |-> Append(s.done, p), pieces |-> s.pieces]
    <3>1. parseOne(s) = r BY <2>8, <2>14 DEF consume, Pdu
    <3>2. size[p] \in Nat /\ size[p] >= HeadLen
      <4>1. size \in Seq(Nat) /\ size[p] >= HeadLen BY <2>3 DEF Sizes
      <4>2. QED BY <2>3, <4>1
    <3>3. e = size[p] /\ ~ Long(size, p)
      <4> HIDE DEF h, x
      <4>1. h = size[p] - HeadLen BY <2>7, <2>14
      <4>2. e = size[p] BY <2>1, <3>2, <4>1
      <4>3. ~ (h > MaxData) BY <2>7, <2>14, Numbers
      <4>4. QED BY <4>1, <4>2, <4>3 DEF Long
    <3> HIDE DEF e
    <3>4. e \in 0 .. Len(b) - m /\ n \in 0 .. Len(b) /\ n <= Len(F) /\ k + 1 <= n
      <4>1. n \in 0 .. Len(b) BY <2>9, <2>14
      <4> HIDE DEF n
      <4>2. n <= Len(F) BY <1>0, <4>1
      <4>3. QED BY <2>9, <2>14, <4>2
    <3>5. Drop(s.buf, e) = Drop(b, n) BY <1>1, <3>4, DroppedTwice
    <3>6. x = <<p, 1>> BY <2>3, <2>14 DEF Byte
    <3>7. At(F, size, n) = <<p + 1, 1>>
      <4>1. m \in 0 .. Len(F) - 1 BY <1>0, <2>2
      <4>2. At(F, size, m) = <<p, 1>> /\ p \in 1 .. Len(size) /\ m + size[p] <= Len(F) BY <2>3, <3>3, <3>4, <3>6
      <4> HIDE DEF p, x
      <4>3. At(F, size, m + size[p]) = <<p + 1, 1>> BY <4>1, <4>2, WholePdu
      <4>4. QED BY <3>3, <4>3
    <3> HIDE DEF p, x
    <3>8. Append(s.done, p) \in Seq(Nat) /\ handled \o Append(s.done, p) = Append(handled \o s.done, p)
      BY <1>2, <2>6, AppendDone
    <3>9. HandledInv(size, handled \o Append(s.done, p), p + 1) BY <2>5, <2>6, <3>3, <3>8, HandledNext
    <3>10. r \in Parsed
      <4>1. Drop(b, n) \in Seq(Byte) BY <3>4, Dropped
      <4>2. Drop(s.buf, e) \in Seq(Byte) BY <3>5, <4>1
      <4>3. QED BY <1>2, <3>8, <4>2 DEF Parsed
    <3>11. r.buf = Drop(b, n) /\ r.done = Append(s.done, p) /\ r.pieces = s.pieces BY <3>5
    <3>12. InPlace(size, At(F, size, n)) /\ At(F, size, n)[1] = p + 1 BY <3>7 DEF InPlace
    <3>13. AfterRounds(F, b, k + 1, r)
      <4> HIDE DEF r, n
      <4>1. QED BY <1>1, <3>4, <3>9, <3>11, <3>12 DEF AfterRounds
    <3>14. QED BY <3>1, <3>10, <3>13
  <2>15. h > MaxData \/ h <= MaxData BY <2>7, Numbers
  <2>16. QED BY <2>7, <2>11, <2>12, <2>13, <2>14, <2>15
<1>6. QED BY <1>4, <1>5

\* processData: it consumes the first m bytes, handles PDUs as it should, and leaves less
\* than the longest PDU.
LEMMA ProcessData ==
    ASSUME Sizes(size), PosedInv(size, posed), handled \in Seq(Nat), NEW b \in Seq(Byte), NEW F, Chain(F, size),
           Len(b) <= Len(F), \A i \in 1 .. Len(b) : F[i] = b[i], MisreadInv(size, misread),
           HandledInv(size, handled, At(F, size, 0)[1]), InPlace(size, At(F, size, 0))
    PROVE  /\ Len(processData(b).buf) < HeadLen + MaxData
           /\ processData(b).done \in Seq(Nat)
           /\ MisreadInv(size, misread \cup processData(b).pieces)
           /\ \E m \in 0 .. Len(b) :
                /\ processData(b).buf = Drop(b, m)
                /\ HandledInv(size, handled \o processData(b).done, At(F, size, m)[1])
                /\ InPlace(size, At(F, size, m))
<1> DEFINE base == [buf |-> b, done |-> << >>, pieces |-> {}]
           Good(k, s) == AfterRounds(F, b, k, s)
           S == {x \in Nat \X Parsed : Good(x[1], x[2])}
           r == processData(b)
<1>0. Len(b) \in Nat OBVIOUS
<1>1. base \in Parsed /\ AfterRounds(F, b, 0, base)
  <2>1. << >> \in Seq(Nat) BY EmptySeq
  <2>2. base \in Parsed BY <2>1 DEF Parsed
  <2>3. handled \o << >> = handled /\ misread \cup {} = misread BY ConcatEmptySeq
  <2>4. Drop(b, 0) = b
    <3>1. 0 \in 0 .. Len(b) BY <1>0
    <3>2. Drop(b, 0) \in Seq(Byte) /\ Len(Drop(b, 0)) = Len(b) - 0 /\ \A i \in 1 .. Len(b) - 0 : Drop(b, 0)[i] = b[0 + i]
      BY <3>1, Dropped
    <3>3. Len(b) - 0 = Len(b) /\ \A i \in 1 .. Len(b) : 0 + i = i BY <1>0
    <3>4. Len(Drop(b, 0)) = Len(b) /\ \A i \in 1 .. Len(b) : Drop(b, 0)[i] = b[i] BY <3>2, <3>3
    <3>5. QED BY <3>2, <3>4, SeqEqual
  <2>5. base.buf = b /\ base.done = << >> /\ base.pieces = {} OBVIOUS
  <2>6. 0 \in 0 .. Len(b) /\ 0 <= 0 BY <1>0
  <2> HIDE DEF base
  <2>7. AfterRounds(F, b, 0, base) BY <2>3, <2>4, <2>5, <2>6 DEF AfterRounds
  <2>8. QED BY <2>2, <2>7
<1>2. <<0, base>> \in S
  <2> HIDE DEF base
  <2>1. QED BY <1>1
<1>3. ASSUME NEW k \in Nat, NEW s, <<k, s>> \in S PROVE <<k + 1, parseOne(s)>> \in S
  <2>1. s \in Parsed /\ AfterRounds(F, b, k, s) BY <1>3
  <2>2. parseOne(s) \in Parsed /\ AfterRounds(F, b, k + 1, parseOne(s)) BY <2>1, ParseStep
  <2>3. QED BY <2>2
<1>4. <<Len(b), r>> \in S
  <2> HIDE DEF S
  <2>1. QED BY <1>0, <1>2, <1>3, Rounds
<1>5. r \in Parsed /\ AfterRounds(F, b, Len(b), r)
  <2> HIDE DEF r
  <2>1. QED BY <1>4
<1> HIDE DEF r, S
<1>6. PICK m \in 0 .. Len(b) :
        /\ r.buf = Drop(b, m)
        /\ HandledInv(size, handled \o r.done, At(F, size, m)[1])
        /\ InPlace(size, At(F, size, m))
        /\ MisreadInv(size, misread \cup r.pieces)
        /\ Len(b) <= m \/ parseOne(r) = r
  BY <1>5 DEF AfterRounds
<1>7. Len(r.buf) < HeadLen + MaxData
  <2>1. Len(r.buf) = Len(b) - m /\ Len(r.buf) \in Nat /\ HeadLen \in Nat /\ MaxData \in Nat /\ MaxData > 0 /\ HeadLen > 0
    <3>1. Len(r.buf) = Len(b) - m BY <1>6, Dropped
    <3>2. Len(r.buf) \in Nat BY <1>0, <3>1
    <3>3. QED BY <3>1, <3>2, Numbers
  <2>2. CASE Len(b) <= m BY <1>0, <2>1, <2>2
  <2>3. CASE ~ (Len(b) <= m) /\ Len(r.buf) >= HeadLen
    <3> DEFINE x == r.buf[1]
               h == headAt(x)[1]
               e == HeadLen + h
    <3>1. parseOne(r) = r /\ r.buf \in Seq(Byte) BY <1>5, <1>6, <2>3 DEF Parsed
    <3>2. ~ (r.buf = << >>)
      <4>1. Len(<< >>) = 0 OBVIOUS
      <4>2. QED BY <2>1, <2>3, <4>1
    <3>3. h \in Nat /\ headAt(x)[2] \in BOOLEAN
      <4>1. m \in 0 .. Len(F) /\ m < Len(F) /\ m + 1 \in 1 .. Len(b) /\ 1 \in 1 .. Len(b) - m
        <5>1. Len(F) \in Nat BY DEF Chain
        <5>2. QED BY <1>0, <2>3, <5>1
      <4>2. At(F, size, m) \in Byte /\ At(F, size, m)[1] \in 1 .. Len(size) /\ At(F, size, m) = F[m + 1]
        BY <4>1, Position
      <4>3. x = b[m + 1] BY <1>6, <4>1, Dropped
      <4>4. x \in Byte /\ x[1] \in 1 .. Len(size) BY <4>1, <4>2, <4>3
      <4> HIDE DEF x
      <4>5. QED BY <4>4, HeadIs
    <3>4. /\ h > MaxData => r = [r EXCEPT !.buf = << >>]
          /\ h <= MaxData /\ Len(r.buf) >= e => r = consume(r, x, e)
      <4> HIDE DEF h, x
      <4>1. /\ Len(r.buf) >= HeadLen /\ h > MaxData => parseOne(r) = [r EXCEPT !.buf = << >>]
            /\ Len(r.buf) >= HeadLen /\ h <= MaxData /\ Len(r.buf) >= HeadLen + h
                 => parseOne(r) = consume(r, x, HeadLen + h)
        BY <1>5, <3>3, ParseCases DEF h, x
      <4>2. QED BY <2>3, <3>1, <4>1
    <3>5. r # [r EXCEPT !.buf = << >>]
      <4>1. [r EXCEPT !.buf = << >>].buf = << >> BY <1>5 DEF Parsed
      <4>2. QED BY <3>2, <4>1
    <3>6. h <= MaxData /\ e \in Nat /\ e > 0
      <4> HIDE DEF h
      <4>1. QED BY <2>1, <3>3, <3>4, <3>5
    <3>7. Len(r.buf) < e
      <4> SUFFICES ASSUME Len(r.buf) >= e PROVE FALSE BY <2>1, <3>6
      <4>1. r = consume(r, x, e) BY <3>4, <3>6
      <4> HIDE DEF e
      <4>2. r.buf = Drop(r.buf, e) BY <3>5, <4>1 DEF consume
      <4>3. e \in 0 .. Len(r.buf) BY <2>1, <3>6
      <4>4. Len(Drop(r.buf, e)) = Len(r.buf) - e BY <3>1, <4>3, Dropped
      <4>5. QED BY <2>1, <3>6, <4>2, <4>4
    <3> HIDE DEF h
    <3>8. QED BY <2>1, <3>3, <3>6, <3>7
  <2>4. CASE Len(r.buf) < HeadLen BY <2>1, <2>4
  <2>5. QED BY <2>1, <2>2, <2>3, <2>4
<1>8. r.done \in Seq(Nat) BY <1>5 DEF Parsed
<1>9. QED BY <1>6, <1>7, <1>8 DEF r

-----------------------------------------------------------------------------
(* The inductive invariant.                                                 *)

\* The bytes on their way to the handler of the relay.
Stream == recvBuf \o wire \o sendBuf

\* Types of what is not data.
ControlInv ==
    /\ conn \in {"connecting", "connected", "closed"}
    /\ loopPc \in {"fill", "select"}
    /\ {writeSet, notified, relayOpen} \subseteq BOOLEAN

\* Buffers of bytes, within their bounds, and the lengths of the PDUs.
BufferInv ==
    /\ sendBuf \in Seq(Byte) /\ wire \in Seq(Byte) /\ recvBuf \in Seq(Byte)
    /\ Len(wire) <= Window /\ Len(recvBuf) < HeadLen + MaxData
    /\ Sizes(size) /\ Len(size) <= MaxPdu /\ PosedInv(size, posed)

\* The bytes on their way are an end of the stream of all PDUs, and the PDUs before
\* them have been handled; when the relay has closed, those before some PDU have.
StreamInv ==
    /\ MisreadInv(size, misread)
    /\ \E n \in 1 .. Len(size) + 1 : HandledInv(size, handled, n)
    /\ relayOpen => /\ Chain(Stream, size)
                    /\ HandledInv(size, handled, At(Stream, size, 0)[1])
                    /\ InPlace(size, At(Stream, size, 0))

IInv == ControlInv /\ BufferInv /\ StreamInv

\* A step of the loop or of the user that moves no data.
LEMMA QuietStep ==
    ASSUME IInv, ControlInv', UNCHANGED <<sendBuf, wire, recvBuf, relayOpen, sentVars, handledVars>>
    PROVE  IInv'
<1>1. BufferInv' BY DEF IInv, BufferInv, sentVars
<1>2. Stream' = Stream BY DEF Stream
<1>3. StreamInv' BY <1>2 DEF IInv, StreamInv, sentVars, handledVars
<1>4. QED BY <1>1, <1>3 DEF IInv

\* FlushSendBuf, with short writes and without, moves bytes from one buffer to the
\* next and loses none.
LEMMA Flushed ==
    ASSUME wire \in Seq(Byte), Len(wire) <= Window, notified \in BOOLEAN,
           NEW up, NEW buf \in Seq(Byte), FlushSendBuf(up, buf)
    PROVE  /\ wire' \in Seq(Byte) /\ sendBuf' \in Seq(Byte) /\ Len(wire') <= Window /\ notified' \in BOOLEAN
           /\ wire' \o sendBuf' = wire \o buf
           /\ Len(sendBuf') <= Len(buf)
<1>0. Len(wire) \in Nat /\ Len(buf) \in Nat /\ Window \in Nat BY Numbers
<1>1. CASE sendBuf' = buf /\ UNCHANGED <<wire, notified>> BY <1>0, <1>1
<1>2. ASSUME NEW n \in 0 .. Len(buf), Send(buf, n), sendBuf' = Drop(buf, n)
      PROVE  /\ wire' \in Seq(Byte) /\ sendBuf' \in Seq(Byte) /\ Len(wire') <= Window /\ notified' \in BOOLEAN
             /\ wire' \o sendBuf' = wire \o buf
             /\ Len(sendBuf') <= Len(buf)
  <2> DEFINE a == SubSeq(buf, 1, n)
             d == Drop(buf, n)
  <2>1. n \in Nat /\ n <= Window - Len(wire)
    <3>1. n \in 0 .. Smaller(Len(buf), Window - Len(wire)) BY <1>2 DEF Send
    <3>2. Smaller(Len(buf), Window - Len(wire)) \in Int /\ Smaller(Len(buf), Window - Len(wire)) <= Window - Len(wire)
      BY <1>0 DEF Smaller
    <3>3. QED BY <1>0, <3>1, <3>2
  <2>2. a \in Seq(Byte) /\ Len(a) = n BY Taken
  <2>3. d \in Seq(Byte) /\ Len(d) = Len(buf) - n BY Dropped
  <2>4. a \o d = buf BY Rejoined
  <2>5. wire' = wire \o a /\ sendBuf' = d /\ notified' \in BOOLEAN BY <1>2 DEF Send
  <2> HIDE DEF a, d
  <2>6. wire \o a \in Seq(Byte) /\ Len(wire \o a) = Len(wire) + Len(a)
    <3>1. a \in Seq(Byte) BY <2>2
    <3>2. QED BY <3>1, Joined
  <2>7. (wire \o a) \o d = wire \o (a \o d)
    <3>1. a \in Seq(Byte) /\ d \in Seq(Byte) BY <2>2, <2>3
    <3>2. QED BY <3>1, ConcatAssociative
  <2>8. Len(wire) + n <= Window /\ Len(buf) - n <= Len(buf) BY <1>0, <2>1
  <2>9. QED BY <2>2, <2>3, <2>4, <2>5, <2>6, <2>7, <2>8
<1>3. QED BY <1>1, <1>2 DEF FlushSendBuf

\* The three buffers, joined in either order.
LEMMA StreamJoined ==
    ASSUME NEW r \in Seq(Byte), NEW w \in Seq(Byte), NEW t \in Seq(Byte)
    PROVE  r \o w \o t = r \o (w \o t) /\ r \o w \in Seq(Byte) /\ w \o t \in Seq(Byte)
<1>1. (r \o w) \o t = r \o (w \o t) BY ConcatAssociative
<1>2. r \o w \in Seq(Byte) /\ w \o t \in Seq(Byte) BY Joined
<1>3. QED BY <1>1, <1>2

\* OnSendReady and OnConnected flush send_buf_: the stream stays as it is.
LEMMA FlushInv ==
    ASSUME IInv, FlushSendBuf(TRUE, sendBuf), UNCHANGED <<writeSet, recvBuf, relayOpen, sentVars, handledVars>>,
           conn' \in {"connecting", "connected", "closed"}, loopPc' \in {"fill", "select"}
    PROVE  IInv'
<1>1. /\ wire' \in Seq(Byte) /\ sendBuf' \in Seq(Byte) /\ Len(wire') <= Window /\ notified' \in BOOLEAN
      /\ wire' \o sendBuf' = wire \o sendBuf
  BY Flushed DEF IInv, ControlInv, BufferInv
<1>2. Stream' = Stream
  <2>1. Stream = recvBuf \o (wire \o sendBuf) BY StreamJoined DEF Stream, IInv, BufferInv
  <2>2. Stream' = recvBuf' \o (wire' \o sendBuf')
    <3>1. recvBuf' \in Seq(Byte) BY DEF IInv, BufferInv
    <3>2. QED BY <1>1, <3>1, StreamJoined DEF Stream
  <2>3. QED BY <1>1, <2>1, <2>2
<1>3. ControlInv' BY <1>1 DEF IInv, ControlInv
<1>4. BufferInv' BY <1>1 DEF IInv, BufferInv, sentVars
<1>5. StreamInv' BY <1>2 DEF IInv, StreamInv, sentVars, handledVars
<1>6. QED BY <1>3, <1>4, <1>5 DEF IInv

\* What was said of the PDUs handled stays true when another is sent.
LEMMA HandledGrown ==
    ASSUME NEW sz, Sizes(sz), NEW e \in Nat, NEW h, NEW n \in 1 .. Len(sz) + 1, HandledInv(sz, h, n)
    PROVE  /\ HandledInv(Append(sz, e), h, n)
           /\ \A q \in 1 .. Len(sz) : Fit(Append(sz, e), q) <=> Fit(sz, q)
<1> DEFINE tz == Append(sz, e)
<1>1. sz \in Seq(Nat) /\ Len(sz) \in Nat BY DEF Sizes
<1>2. \A i \in 1 .. Len(sz) : tz[i] = sz[i] BY <1>1, AppendProperties
<1> HIDE DEF tz
<1>3. \A q \in 1 .. Len(sz) : Long(tz, q) <=> Long(sz, q) BY <1>2 DEF Long
<1>4. ASSUME NEW q \in 1 .. Len(sz) PROVE Fit(tz, q) <=> Fit(sz, q)
  <2>1. \A l \in 1 .. q : l \in 1 .. Len(sz) BY <1>1
  <2>2. QED BY <1>3, <2>1 DEF Fit
<1>5. h \in Seq(Nat) /\ Len(h) \in Nat BY DEF HandledInv
<1>6. \A q \in 1 .. n - 1 : q \in 1 .. Len(sz) BY <1>1
<1>7. HandledInv(tz, h, n) BY <1>3, <1>4, <1>5, <1>6 DEF HandledInv
<1>8. QED BY <1>4, <1>7 DEF tz

\* SendTcpPdu: the stream gets one more PDU.
LEMMA AppendPduInv ==
    ASSUME IInv, NEW d \in Nat, appendPdu(d)
    PROVE  IInv'
<1> DEFINE e == HeadLen + d
           B == Bytes(Len(size) + 1, e)
           tz == Append(size, e)
<1>0. e \in Nat /\ e > 0 /\ e >= HeadLen /\ HeadLen \in Nat BY Numbers
<1>1. /\ sendBuf \in Seq(Byte) /\ wire \in Seq(Byte) /\ recvBuf \in Seq(Byte)
      /\ Len(wire) <= Window /\ Len(recvBuf) < HeadLen + MaxData
      /\ Sizes(size) /\ Len(size) <= MaxPdu /\ size \in Seq(Nat) /\ Len(size) \in Nat
      /\ notified \in BOOLEAN
  BY DEF IInv, ControlInv, BufferInv, Sizes
<1>2. B \in Seq(Byte)
  <2>1. \A i \in 1 .. e : <<Len(size) + 1, i>> \in Byte BY <1>0, <1>1 DEF Byte
  <2>2. B \in [1 .. e -> Byte] BY <2>1 DEF Bytes
  <2>3. QED BY <1>0, <2>2
<1>3. /\ size' = tz /\ Len(size) < MaxPdu /\ FlushSendBuf(conn = "connected", sendBuf \o B)
      /\ UNCHANGED <<conn, loopPc, writeSet, recvBuf, relayOpen, handled, misread>>
  BY DEF appendPdu, loopVars, handledVars
<1> HIDE DEF B, e
<1>4. sendBuf \o B \in Seq(Byte) BY <1>1, <1>2, Joined
<1>5. /\ wire' \in Seq(Byte) /\ sendBuf' \in Seq(Byte) /\ Len(wire') <= Window /\ notified' \in BOOLEAN
      /\ wire' \o sendBuf' = wire \o (sendBuf \o B)
  BY <1>1, <1>3, <1>4, Flushed
<1>6. Stream' = Stream \o B
  <2>1. recvBuf' \in Seq(Byte) /\ wire' \in Seq(Byte) /\ sendBuf' \in Seq(Byte) BY <1>1, <1>3, <1>5
  <2>2. recvBuf \in Seq(Byte) /\ wire \in Seq(Byte) /\ sendBuf \in Seq(Byte) BY <1>1
  <2>3. wire \in Seq(Byte) /\ sendBuf \in Seq(Byte) /\ B \in Seq(Byte) BY <1>1, <1>2
  <2>4. recvBuf' \o wire' \o sendBuf' = recvBuf' \o (wire' \o sendBuf') BY <2>1, StreamJoined
  <2>5. Stream' = recvBuf \o (wire \o (sendBuf \o B)) BY <1>3, <1>5, <2>4 DEF Stream
  <2>6. wire \o sendBuf \o B = wire \o (sendBuf \o B) BY <2>3, StreamJoined, ZenonT(60)
  <2>7. recvBuf \in Seq(Byte) /\ wire \o sendBuf \in Seq(Byte) /\ B \in Seq(Byte) BY <2>2, <2>3, StreamJoined
  <2>8. recvBuf \o (wire \o sendBuf) \o B = recvBuf \o ((wire \o sendBuf) \o B) BY <2>7, StreamJoined, ZenonT(60)
  <2>9. recvBuf \o wire \o sendBuf = recvBuf \o (wire \o sendBuf) BY <2>2, StreamJoined
  <2>10. QED BY <2>5, <2>6, <2>8, <2>9 DEF Stream
<1>7. tz \in Seq(Nat) /\ Len(tz) = Len(size) + 1 /\ tz[Len(size) + 1] = e /\ \A i \in 1 .. Len(size) : tz[i] = size[i]
  BY <1>0, <1>1, AppendProperties
<1>8. ControlInv' BY <1>3, <1>5 DEF IInv, ControlInv
<1>9. BufferInv'
  <2>1. Sizes(tz)
    <3>1. ASSUME NEW i \in 1 .. Len(tz) PROVE tz[i] >= HeadLen
      <4> HIDE DEF tz
      <4>1. i \in 1 .. Len(size) \/ i = Len(size) + 1 BY <1>1, <1>7
      <4>2. QED BY <1>0, <1>1, <1>7, <4>1 DEF Sizes
    <3>2. QED BY <1>7, <3>1 DEF Sizes
  <2> HIDE DEF tz
  <2>2. Len(tz) <= MaxPdu BY <1>1, <1>3, <1>7, Numbers
  <2>3. PosedInv(tz, posed')
    <3>1. PICK c \in [PosedAt \cap (2 .. HeadLen + d) -> Heads] : posed' = Append(posed, c) BY DEF appendPdu
    <3>2. c \in Contents BY DEF Contents
    <3>3. posed \in Seq(Contents) /\ Len(posed) = Len(size) BY DEF IInv, BufferInv, PosedInv
    <3>4. Append(posed, c) \in Seq(Contents) /\ Len(Append(posed, c)) = Len(posed) + 1
      BY <3>2, <3>3, AppendProperties
    <3>5. QED BY <1>7, <3>1, <3>3, <3>4 DEF PosedInv
  <2>4. QED BY <1>1, <1>3, <1>5, <2>1, <2>2, <2>3 DEF BufferInv
<1>10. StreamInv'
  <2>1. \E n \in 1 .. Len(size') + 1 : HandledInv(size', handled', n)
    <3>1. PICK n \in 1 .. Len(size) + 1 : HandledInv(size, handled, n) BY DEF IInv, StreamInv
    <3>2. HandledInv(tz, handled, n) BY <1>0, <1>1, <3>1, HandledGrown
    <3>3. n \in 1 .. Len(tz) + 1
      <4> HIDE DEF tz
      <4>1. QED BY <1>1, <1>7
    <3>4. QED BY <1>3, <3>2, <3>3
  <2>2. ASSUME relayOpen
        PROVE  /\ Chain(Stream', size')
               /\ HandledInv(size', handled', At(Stream', size', 0)[1])
               /\ InPlace(size', At(Stream', size', 0))
    <3> DEFINE x == At(Stream, size, 0)
    <3>1. Chain(Stream, size) /\ HandledInv(size, handled, x[1]) /\ InPlace(size, x) BY <2>2 DEF IInv, StreamInv
    <3>2. Chain(Stream', size') /\ At(Stream', size', 0) = x
      <4>1. /\ Chain(Stream \o Bytes(Len(size) + 1, e), Append(size, e))
            /\ At(Stream \o Bytes(Len(size) + 1, e), Append(size, e), 0) = At(Stream, size, 0)
        BY <1>0, <1>1, <3>1, ChainGrown
      <4>2. QED BY <1>3, <1>6, <4>1 DEF B
    <3>3. x[1] \in 1 .. Len(size) + 1 /\ (x[1] = Len(size) + 1 => x[2] = 1)
      <4>1. Len(Stream) \in Nat /\ 0 \in 0 .. Len(Stream) BY <3>1 DEF Chain
      <4>2. x[1] \in 1 .. Len(size) + 1 /\ (0 < Len(Stream) => x[1] \in 1 .. Len(size)) BY <1>1, <3>1, <4>1, Position
      <4>3. 0 = Len(Stream) => x = <<Len(size) + 1, 1>> BY DEF At
      <4> HIDE DEF x
      <4>4. 0 = Len(Stream) => x[2] = 1 BY <4>3
      <4>5. QED BY <1>1, <4>1, <4>2, <4>4
    <3> HIDE DEF x, tz, e
    <3>4. HandledInv(Append(size, e), handled, x[1]) /\ \A q \in 1 .. Len(size) : Fit(Append(size, e), q) <=> Fit(size, q)
      BY <1>0, <1>1, <3>1, <3>3, HandledGrown
    <3>5. InPlace(Append(size, e), x)
      <4> SUFFICES ASSUME x[2] # 1 PROVE ~ Fit(Append(size, e), x[1]) BY DEF InPlace
      <4>1. x[1] \in 1 .. Len(size) BY <1>1, <3>3
      <4>2. ~ Fit(size, x[1]) BY <3>1 DEF InPlace
      <4>3. QED BY <3>4, <4>1, <4>2
    <3>6. QED BY <1>3, <3>2, <3>4, <3>5 DEF tz
  <2>3. MisreadInv(tz, misread)
    <3>1. PICK n \in 1 .. Len(size) + 1 : HandledInv(size, handled, n) BY DEF IInv, StreamInv
    <3>2. \A q \in 1 .. Len(size) : Fit(tz, q) <=> Fit(size, q) BY <1>0, <1>1, <3>1, HandledGrown
    <3> HIDE DEF tz
    <3>3. ASSUME NEW p \in misread PROVE p \in 1 .. Len(tz) /\ ~ Fit(tz, p)
      <4>1. p \in 1 .. Len(size) /\ ~ Fit(size, p) BY DEF IInv, StreamInv, MisreadInv
      <4>2. p \in 1 .. Len(tz) BY <1>1, <1>7, <4>1
      <4>3. QED BY <3>2, <4>1, <4>2
    <3>4. QED BY <3>3 DEF MisreadInv
  <2>4. QED BY <1>3, <2>1, <2>2, <2>3 DEF StreamInv
<1>11. QED BY <1>8, <1>9, <1>10 DEF IInv

\* handleRecv: processData takes PDUs from the front of the stream.
LEMMA HandleRecvInv ==
    ASSUME IInv, NEW n, handleRecv(n)
    PROVE  IInv' /\ \E d \in Seq(Nat) : handled' = handled \o d
<1> DEFINE b == recvBuf \o SubSeq(wire, 1, n)
           r == processData(b)
           rest == Drop(wire, n) \o sendBuf
<1>1. /\ sendBuf \in Seq(Byte) /\ wire \in Seq(Byte) /\ recvBuf \in Seq(Byte)
      /\ Len(wire) \in Nat /\ Len(wire) <= Window /\ Window \in Nat
      /\ Sizes(size) /\ size \in Seq(Nat) /\ Len(size) \in Nat /\ PosedInv(size, posed)
      /\ MisreadInv(size, misread)
  BY Numbers DEF IInv, BufferInv, StreamInv, Sizes
<1>2. /\ relayOpen /\ n \in 1 .. Len(wire) /\ recvBuf' = r.buf /\ handled' = handled \o r.done
      /\ misread' = misread \cup r.pieces /\ wire' = Drop(wire, n)
      /\ UNCHANGED <<conn, sendBuf, loopPc, writeSet, notified, relayOpen, size, posed>>
  BY DEF handleRecv, loopVars, sentVars
<1>3. n \in 0 .. Len(wire) /\ n \in Nat /\ n >= 1 BY <1>1, <1>2
<1>4. /\ SubSeq(wire, 1, n) \in Seq(Byte) /\ Drop(wire, n) \in Seq(Byte) /\ Len(Drop(wire, n)) = Len(wire) - n
      /\ SubSeq(wire, 1, n) \o Drop(wire, n) = wire
  BY <1>1, <1>3, Taken, Dropped, Rejoined
<1>5. b \in Seq(Byte) /\ rest \in Seq(Byte) BY <1>1, <1>4, Joined
<1>6. Stream = b \o rest
  <2> DEFINE u == SubSeq(wire, 1, n)
             v == Drop(wire, n)
  <2>1. u \in Seq(Byte) /\ v \in Seq(Byte) /\ wire = u \o v BY <1>4
  <2> HIDE DEF u, v
  <2>2. Stream = recvBuf \o (wire \o sendBuf) BY <1>1, StreamJoined DEF Stream
  <2>3. u \in Seq(Byte) /\ v \in Seq(Byte) /\ sendBuf \in Seq(Byte) /\ recvBuf \in Seq(Byte) BY <1>1, <2>1
  <2>4. u \o v \o sendBuf = u \o (v \o sendBuf) /\ v \o sendBuf \in Seq(Byte) BY <2>3, StreamJoined
  <2>5. recvBuf \o u \o (v \o sendBuf) = recvBuf \o (u \o (v \o sendBuf)) BY <2>3, <2>4, StreamJoined, ZenonT(60)
  <2>6. QED BY <2>1, <2>2, <2>4, <2>5 DEF b, rest, u, v
<1> HIDE DEF b, rest, r
<1>7. /\ Stream \in Seq(Byte) /\ Len(b) <= Len(Stream) /\ \A i \in 1 .. Len(b) : Stream[i] = b[i]
  <2>1. b \o rest \in Seq(Byte) /\ Len(b \o rest) = Len(b) + Len(rest) /\ \A i \in 1 .. Len(b) : (b \o rest)[i] = b[i]
    BY <1>5, Joined
  <2>2. Len(b) \in Nat /\ Len(rest) \in Nat BY <1>5
  <2>3. QED BY <1>6, <2>1, <2>2
<1>8. /\ Chain(Stream, size) /\ HandledInv(size, handled, At(Stream, size, 0)[1])
      /\ InPlace(size, At(Stream, size, 0)) /\ handled \in Seq(Nat)
  BY <1>2 DEF IInv, StreamInv, HandledInv
<1>9. /\ Len(r.buf) < HeadLen + MaxData /\ r.done \in Seq(Nat)
      /\ MisreadInv(size, misread \cup r.pieces)
      /\ \E m \in 0 .. Len(b) :
           /\ r.buf = Drop(b, m)
           /\ HandledInv(size, handled \o r.done, At(Stream, size, m)[1])
           /\ InPlace(size, At(Stream, size, m))
  BY <1>1, <1>5, <1>7, <1>8, ProcessData DEF r
<1>10. PICK m \in 0 .. Len(b) :
         /\ r.buf = Drop(b, m)
         /\ HandledInv(size, handled \o r.done, At(Stream, size, m)[1])
         /\ InPlace(size, At(Stream, size, m))
  BY <1>9
<1>11. recvBuf' \in Seq(Byte) BY <1>2, <1>5, <1>10, Dropped
<1>12. Stream' = Drop(Stream, m)
  <2>1. wire' \in Seq(Byte) /\ sendBuf' \in Seq(Byte) BY <1>1, <1>2, <1>4
  <2>2. Stream' = recvBuf' \o (wire' \o sendBuf') BY <1>11, <2>1, StreamJoined DEF Stream
  <2>3. Stream' = Drop(b, m) \o rest BY <1>2, <1>10, <2>2 DEF rest
  <2>4. Drop(b \o rest, m) = Drop(b, m) \o rest BY <1>5, DroppedJoined
  <2>5. QED BY <1>6, <2>3, <2>4
<1>13. m \in 0 .. Len(Stream)
  <2>1. Len(b) \in Nat /\ Len(Stream) \in Nat BY <1>5, <1>7
  <2>2. QED BY <1>7, <2>1
<1>14. Chain(Stream', size') /\ At(Stream', size', 0) = At(Stream, size, m) BY <1>1, <1>2, <1>8, <1>12, <1>13, ChainDropped
<1>15. ControlInv' BY <1>2 DEF IInv, ControlInv
<1>16. BufferInv'
  <2>1. Len(wire') <= Window BY <1>1, <1>2, <1>3, <1>4
  <2>2. Len(recvBuf') < HeadLen + MaxData BY <1>2, <1>9
  <2>3. QED BY <1>1, <1>2, <1>4, <1>11, <2>1, <2>2 DEF IInv, BufferInv
<1>17. StreamInv'
  <2>1. HandledInv(size', handled', At(Stream', size', 0)[1]) /\ InPlace(size', At(Stream', size', 0)) BY <1>2, <1>10, <1>14
  <2>2. At(Stream', size', 0)[1] \in 1 .. Len(size') + 1 BY <1>1, <1>2, <1>8, <1>13, <1>14, Position
  <2>3. MisreadInv(size', misread') BY <1>2, <1>9
  <2>4. QED BY <1>14, <2>1, <2>2, <2>3 DEF StreamInv
<1>18. QED BY <1>2, <1>9, <1>15, <1>16, <1>17 DEF IInv

\* handleClose: what was handled stays.
LEMMA HandleCloseInv == IInv /\ handleClose => IInv'
<1> SUFFICES ASSUME IInv, handleClose PROVE IInv' OBVIOUS
<1>1. /\ recvBuf' = << >> /\ relayOpen' = FALSE
      /\ UNCHANGED <<conn, sendBuf, loopPc, writeSet, notified, wire, size, posed, handled, misread>>
  BY DEF handleClose, loopVars, sentVars, handledVars
<1>2. ControlInv' BY <1>1 DEF IInv, ControlInv
<1>3. << >> \in Seq(Byte) /\ Len(<< >>) = 0 BY EmptySeq
<1>4. 0 < HeadLen + MaxData BY Numbers
<1>5. BufferInv' BY <1>1, <1>3, <1>4 DEF IInv, BufferInv
<1>6. StreamInv' BY <1>1 DEF IInv, StreamInv
<1>7. QED BY <1>2, <1>5, <1>6 DEF IInv

\* Before anything is sent the stream is empty.
LEMMA InitInv == Init => IInv
<1> SUFFICES ASSUME Init PROVE IInv OBVIOUS
<1> USE DEF Init
<1>1. ControlInv BY DEF ControlInv
<1>2. << >> \in Seq(Byte) /\ << >> \in Seq(Nat) /\ Len(<< >>) = 0 BY EmptySeq
<1>3. Sizes(size) BY <1>2 DEF Sizes
<1>4. BufferInv
  <2>1. << >> \in Seq(Contents) BY EmptySeq
  <2>2. QED BY <1>2, <1>3, <2>1, Numbers DEF BufferInv, PosedInv
<1>5. HandledInv(size, handled, 1) BY <1>2 DEF HandledInv
<1>6. Stream = << >>
  <2>1. << >> \o << >> = << >> BY <1>2, ConcatEmptySeq
  <2>2. QED BY <2>1 DEF Stream
<1>7. Chain(Stream, size) BY <1>2, <1>6 DEF Chain
<1>8. At(Stream, size, 0) = <<1, 1>> BY <1>2, <1>6 DEF At
<1>9. InPlace(size, <<1, 1>>) BY DEF InPlace
<1>10. <<1, 1>>[1] = 1 /\ 1 \in 1 .. Len(size) + 1 BY <1>2
<1>11. StreamInv BY <1>5, <1>7, <1>8, <1>9, <1>10 DEF StreamInv, MisreadInv
<1>12. QED BY <1>1, <1>4, <1>11 DEF IInv

\* What is given to SendTcpPdu.
LEMMA AppendSteps ==
    ASSUME SendPduData \/ \E d \in DataLen : SendRawData(d)
    PROVE  \E d \in Nat : appendPdu(d)
<1>1. DataLen \subseteq Nat /\ TypedLen \in Nat BY LengthAssumption
<1>2. QED BY <1>1 DEF SendPduData, SendRawData

\* Every step keeps the invariant.
LEMMA NextInv == IInv /\ [Next]_vars => IInv'
<1> SUFFICES ASSUME IInv, [Next]_vars PROVE IInv' OBVIOUS
<1>1. CASE FillFdset
  <2>1. ControlInv' BY <1>1 DEF FillFdset, isNeedSend, IInv, ControlInv
  <2>2. QED BY <1>1, <2>1, QuietStep DEF FillFdset
<1>2. CASE wakeup
  <2>1. ControlInv' BY <1>2 DEF wakeup, IInv, ControlInv
  <2>2. QED BY <1>2, <2>1, QuietStep DEF wakeup
<1>3. CASE OnConnected BY <1>3, FlushInv DEF OnConnected
<1>4. CASE OnSendReady BY <1>4, FlushInv DEF OnSendReady
<1>5. CASE Close
  <2>1. ControlInv' BY <1>5 DEF Close, loopVars, IInv, ControlInv
  <2>2. QED BY <1>5, <2>1, QuietStep DEF Close
<1>6. CASE handleClose BY <1>6, HandleCloseInv
<1>7. CASE \E n \in 1 .. Window : handleRecv(n) BY <1>7, HandleRecvInv
<1>8. CASE SendPduData \/ \E d \in DataLen : SendRawData(d)
  <2>1. PICK d \in Nat : appendPdu(d) BY <1>8, AppendSteps
  <2>2. QED BY <2>1, AppendPduInv
<1>9. CASE UNCHANGED vars
  <2>1. ControlInv' BY <1>9 DEF vars, loopVars, IInv, ControlInv
  <2>2. QED BY <1>9, <2>1, QuietStep DEF vars, loopVars
<1>10. QED BY <1>1, <1>2, <1>3, <1>4, <1>5, <1>6, <1>7, <1>8, <1>9 DEF Next, Loop, Relay

\* The two ways to say that a payload is refused.
LEMMA SameLong == \A p : (TooLong(p) <=> Long(size, p)) /\ (Fits(p) <=> Fit(size, p))
  BY DEF TooLong, DataLenOf, Long, Fits, Fit

-----------------------------------------------------------------------------
(* The theorems.                                                            *)

\* The bytes between SendTcpPdu and processData, and the PDUs handled, are in step
\* with the PDUs accepted.
THEOREM UplinkInvariance == Spec => []IInv
  BY InitInv, NextInv, PTL DEF Spec

\* The connection keeps its types, and processData never fills recv_buf_: less than
\* the longest PDU waits in it.
THEOREM UplinkTypes == Spec => []TypeOK
<1>1. ASSUME IInv PROVE TypeOK
  <2>1. PICK n \in 1 .. Len(size) + 1 : HandledInv(size, handled, n) BY <1>1 DEF IInv, StreamInv
  <2>2. Len(size) \in Nat BY <1>1 DEF IInv, BufferInv, Sizes
  <2>3. \A i \in 1 .. Len(handled) : handled[i] \in 1 .. Len(size)
    <3>1. \A i \in 1 .. Len(handled) : handled[i] \in 1 .. n - 1 BY <2>1 DEF HandledInv
    <3>2. QED BY <2>2, <3>1
  <2>4. Handled \cup misread \subseteq 1 .. Len(size) BY <1>1, <2>3 DEF Handled, IInv, StreamInv, MisreadInv
  <2>5. QED BY <1>1, <2>4 DEF IInv, ControlInv, BufferInv, PosedInv, TypeOK
<1>2. QED BY <1>1, UplinkInvariance, PTL

\* However SendTcpData's writes are shortened and recv's data cut, recv_buf_, the
\* connection and send_buf_ together are the end of the stream of the PDUs accepted.
THEOREM StreamStaysIntact == Spec => []StreamIntact
<1>1. ASSUME IInv PROVE StreamIntact
  <2> DEFINE s == recvBuf \o wire \o sendBuf
  <2> SUFFICES ASSUME relayOpen
               PROVE  /\ s # << >> => s[Len(s)] = <<Len(size), size[Len(size)]>>
                      /\ \A i \in 1 .. Len(s) - 1 :
                           s[i + 1] = IF s[i][2] < size[s[i][1]] THEN <<s[i][1], s[i][2] + 1>> ELSE <<s[i][1] + 1, 1>>
    BY DEF StreamIntact
  <2>1. Chain(s, size) /\ Sizes(size) BY <1>1 DEF IInv, StreamInv, BufferInv, Stream
  <2> HIDE DEF s
  <2>2. s \in Seq(Byte) /\ Len(s) \in Nat /\ Len(size) \in Nat BY <2>1 DEF Chain, Sizes
  <2>3. ASSUME NEW i \in 1 .. Len(s)
        PROVE  /\ s[i] \in Byte /\ s[i][1] \in 1 .. Len(size) /\ s[i][2] \in 1 .. size[s[i][1]]
               /\ At(s, size, i) = After(s[i], size)
    <3>1. i - 1 \in 0 .. Len(s) - 1 /\ (i - 1) + 1 = i /\ i - 1 # Len(s) BY <2>2
    <3>2. At(s, size, i - 1) = s[i] BY <3>1 DEF At
    <3>3. QED BY <2>1, <2>2, <3>1, <3>2 DEF Chain
  <2>4. ASSUME s # << >> PROVE s[Len(s)] = <<Len(size), size[Len(size)]>>
    <3>1. Len(s) \in 1 .. Len(s)
      <4>1. Len(s) \in Nat \ {0} BY <2>2, <2>4, EmptySeq
      <4>2. QED BY <4>1
    <3> DEFINE x == s[Len(s)]
    <3>2. x \in Byte /\ x[1] \in 1 .. Len(size) /\ x[2] \in 1 .. size[x[1]] /\ <<Len(size) + 1, 1>> = After(x, size)
      BY <2>3, <3>1 DEF At
    <3>3. size[x[1]] \in Nat BY <2>1, <3>2 DEF Sizes
    <3> HIDE DEF x
    <3>4. ~ (x[2] < size[x[1]])
      <4> SUFFICES ASSUME x[2] < size[x[1]] PROVE FALSE OBVIOUS
      <4>1. <<Len(size) + 1, 1>> = <<x[1], x[2] + 1>> BY <3>2 DEF After
      <4>2. Len(size) + 1 = x[1] BY <4>1
      <4>3. QED BY <2>2, <3>2, <4>2
    <3>5. <<Len(size) + 1, 1>> = <<x[1] + 1, 1>> BY <3>2, <3>4 DEF After
    <3>6. Len(size) + 1 = x[1] + 1 BY <3>5
    <3>7. x[1] = Len(size) BY <2>2, <3>2, <3>6
    <3>8. x[2] = size[x[1]] BY <3>2, <3>3, <3>4
    <3>9. x = <<x[1], x[2]>> BY <3>2 DEF Byte
    <3>10. QED BY <3>7, <3>8, <3>9 DEF x
  <2>5. ASSUME NEW i \in 1 .. Len(s) - 1
        PROVE  s[i + 1] = IF s[i][2] < size[s[i][1]] THEN <<s[i][1], s[i][2] + 1>> ELSE <<s[i][1] + 1, 1>>
    <3>1. i \in 1 .. Len(s) /\ i # Len(s) BY <2>2
    <3>2. s[i + 1] = After(s[i], size) BY <2>3, <3>1 DEF At
    <3>3. QED BY <3>2 DEF After
  <2>6. QED BY <2>4, <2>5
<1>2. QED BY <1>1, UplinkInvariance, PTL

\* processData handles every PDU at most once and in order; it misses one, or takes bytes
\* inside one for a PDU, only at or behind a payload that parsePduHead refuses, whatever
\* the payloads contain.
THEOREM LossesFollowTooLong == Spec => []LossOnlyAfterTooLong
<1>1. ASSUME IInv PROVE LossOnlyAfterTooLong
  <2>1. PICK n \in 1 .. Len(size) + 1 : HandledInv(size, handled, n) BY <1>1 DEF IInv, StreamInv
  <2>2. Len(size) \in Nat /\ Len(handled) \in Nat BY <1>1, <2>1 DEF IInv, BufferInv, Sizes, HandledInv
  <2>3. \A i, j \in 1 .. Len(handled) : i < j => handled[i] < handled[j] BY <2>1 DEF HandledInv
  <2>4. ASSUME NEW p \in Handled
        PROVE  /\ ~ TooLong(p)
               /\ \A q \in 1 .. p : q \in Handled \/ \E l \in 1 .. q : TooLong(l)
    <3>1. PICK i \in 1 .. Len(handled) : p = handled[i] BY DEF Handled
    <3>2. p \in 1 .. n - 1 /\ ~ Long(size, p) BY <2>1, <3>1 DEF HandledInv
    <3>3. ~ TooLong(p) BY <3>2, SameLong
    <3>4. ASSUME NEW q \in 1 .. p, ~ \E l \in 1 .. q : TooLong(l) PROVE q \in Handled
      <4>1. q \in 1 .. n - 1 BY <2>2, <3>2
      <4>2. Fit(size, q) BY <3>4, SameLong DEF Fit
      <4>3. q <= Len(handled) /\ handled[q] = q BY <2>1, <4>1, <4>2 DEF HandledInv
      <4>4. q \in 1 .. Len(handled) BY <2>2, <4>1, <4>3
      <4>5. QED BY <4>3, <4>4 DEF Handled
    <3>5. QED BY <3>3, <3>4
  <2>5. ASSUME NEW p \in misread PROVE \E l \in 1 .. p : TooLong(l)
    <3>1. ~ Fit(size, p) BY <1>1 DEF IInv, StreamInv, MisreadInv
    <3>2. QED BY <3>1, SameLong DEF Fit
  <2>6. QED BY <2>3, <2>4, <2>5 DEF LossOnlyAfterTooLong
<1>2. QED BY <1>1, UplinkInvariance, PTL

-----------------------------------------------------------------------------
(* The room in send_buf_.                                                   *)

\* A remainder is what is left.
LEMMA Remainder ==
    ASSUME NEW W \in Nat, W > 0, NEW x \in Int, NEW q \in Int, NEW r \in 0 .. W - 1, x = W * q + r
    PROVE  x % W = r
<1> DEFINE d == x \div W
           t == x % W
<1>1. d \in Int /\ t \in 0 .. W - 1 /\ x = W * d + t OBVIOUS
<1> HIDE DEF d, t
<1>2. W * q - W * d = W * (q - d) BY <1>1
<1>3. W * (q - d) = t - r
  <2>1. W * q \in Int /\ W * d \in Int BY <1>1
  <2>2. W * q + r = W * d + t BY <1>1
  <2>3. QED BY <1>1, <1>2, <2>1, <2>2
<1>4. q - d = 0
  <2>1. CASE q - d >= 1
    <3>1. W * (q - d) >= W BY <1>1, <2>1
    <3>2. QED BY <1>1, <1>3, <3>1
  <2>2. CASE q - d <= -1
    <3>1. W * (q - d) <= W * (-1) BY <1>1, <2>2
    <3>2. QED BY <1>1, <1>3, <3>1
  <2>3. QED BY <1>1, <2>1, <2>2
<1>5. t = r
  <2>1. W * (q - d) = 0 BY <1>4
  <2>2. QED BY <1>1, <1>3, <2>1
<1>6. QED BY <1>5 DEF t

\* While a header fits, the room counted in 16 bits is at most the room there is.
LEMMA RoomIsReal ==
    ASSUME NEW L \in Nat, L = Len(sendBuf), L <= BufLen, BufLen - L >= HeadLen
    PROVE  room \in Nat /\ L + HeadLen + room <= BufLen
<1> DEFINE a == BufLen - L
           r == a % Word
           q == a \div Word
           H == HeadLen
           W == Word
<1>0. BufLen \in Nat /\ H \in Nat /\ W \in Nat /\ W > 0 /\ H < W /\ a \in Nat /\ a >= H BY Numbers
<1>1. q \in Int /\ r \in 0 .. W - 1 /\ a = W * q + r
  <2> HIDE DEF a
  <2>1. QED BY <1>0
<1>2. room = (r + W - H) % W BY DEF room
<1> HIDE DEF a, r, q
<1>3. CASE r >= H
  <2>1. r - H \in 0 .. W - 1 /\ r + W - H \in Int /\ r + W - H = W * 1 + (r - H) BY <1>0, <1>1, <1>3
  <2>2. (r + W - H) % W = r - H
    <3> DEFINE y == r + W - H
               z == r - H
    <3>1. z \in 0 .. W - 1 /\ y \in Int /\ 1 \in Int /\ y = W * 1 + z BY <2>1
    <3> HIDE DEF y, z, W
    <3>2. y % W = z BY <1>0, <3>1, Remainder
    <3>3. QED BY <3>2 DEF y, z, W
  <2>3. r <= a
    <3>1. CASE q >= 0
      <4>1. W * q >= 0 BY <1>0, <1>1, <3>1
      <4>2. W * q \in Int BY <1>0, <1>1
      <4>3. QED BY <1>0, <1>1, <4>1, <4>2
    <3>2. CASE q <= -1
      <4>1. W * q <= W * (-1) BY <1>0, <1>1, <3>2
      <4>2. W * q \in Int BY <1>0, <1>1
      <4>3. QED BY <1>0, <1>1, <4>1, <4>2
    <3>3. QED BY <1>1, <3>1, <3>2
  <2>4. room = r - H BY <1>2, <2>2
  <2>5. QED BY <1>0, <1>1, <1>3, <2>3, <2>4 DEF a
<1>4. CASE r < H
  <2>1. r + W - H \in 0 .. W - 1 /\ r + W - H \in Int /\ r + W - H = W * 0 + (r + W - H) BY <1>0, <1>1, <1>4
  <2>2. (r + W - H) % W = r + W - H
    <3> DEFINE y == r + W - H
    <3>1. y \in 0 .. W - 1 /\ y \in Int /\ y = W * 0 + y BY <2>1
    <3> HIDE DEF y, W
    <3>2. y % W = y BY <1>0, <3>1, Remainder
    <3>3. QED BY <3>2 DEF y, W
  <2>3. r + W <= a
    <3>1. CASE q >= 1
      <4>1. W * q >= W BY <1>0, <1>1, <3>1
      <4>2. W * q \in Int BY <1>0, <1>1
      <4>3. QED BY <1>0, <1>1, <4>1, <4>2
    <3>2. CASE q <= 0
      <4>1. W * q <= 0 BY <1>0, <1>1, <3>2
      <4>2. W * q \in Int BY <1>0, <1>1
      <4>3. QED BY <1>0, <1>1, <1>4, <4>1, <4>2
    <3>3. QED BY <1>1, <3>1, <3>2
  <2>4. room = r + W - H BY <1>2, <2>2
  <2>5. QED BY <1>0, <1>1, <2>1, <2>3, <2>4 DEF a
<1>5. QED BY <1>0, <1>1, <1>3, <1>4

\* SendTcpPdu writes behind the end of send_buf_ only when less than a header was left in it.
THEOREM OverflowsOnlyAtEnd == Spec => OverflowOnlyAtEnd
<1>1. ASSUME IInv, [Next]_vars PROVE [~ Overflow /\ Overflow' => BufLen - Len(sendBuf) < HeadLen]_vars
  <2> SUFFICES ASSUME ~ Overflow, Overflow' PROVE BufLen - Len(sendBuf) < HeadLen OBVIOUS
  <2>0. /\ BufLen \in Nat /\ HeadLen \in Nat /\ TypedLen \in Nat /\ DataLen \subseteq Nat
        /\ sendBuf \in Seq(Byte) /\ Len(sendBuf) \in Nat /\ Len(sendBuf) <= BufLen
        /\ Len(size) \in Nat /\ wire \in Seq(Byte) /\ Len(wire) <= Window /\ notified \in BOOLEAN
    BY <1>1, Numbers, LengthAssumption DEF IInv, ControlInv, BufferInv, Sizes, Overflow
  <2>1. CASE sendBuf' = sendBuf BY <2>1 DEF Overflow
  <2>2. ASSUME NEW up, FlushSendBuf(up, sendBuf) PROVE FALSE
    <3>1. sendBuf' \in Seq(Byte) /\ Len(sendBuf') <= Len(sendBuf) BY <2>0, <2>2, Flushed
    <3>2. Len(sendBuf') \in Nat BY <3>1
    <3>3. QED BY <2>0, <3>1, <3>2 DEF Overflow
  <2>3. ASSUME NEW d \in Nat, appendPdu(d) PROVE Len(sendBuf) + HeadLen + d > BufLen
    <3> DEFINE e == HeadLen + d
               B == Bytes(Len(size) + 1, e)
    <3>1. B \in Seq(Byte) /\ Len(B) = e /\ e \in Nat
      <4>1. e \in Nat BY <2>0
      <4>2. \A i \in 1 .. e : <<Len(size) + 1, i>> \in Byte BY <2>0, <4>1 DEF Byte
      <4>3. B \in [1 .. e -> Byte] BY <4>2 DEF Bytes
      <4>4. QED BY <4>1, <4>3
    <3>2. FlushSendBuf(conn = "connected", sendBuf \o B) BY <2>3 DEF appendPdu
    <3> HIDE DEF B, e
    <3>3. sendBuf \o B \in Seq(Byte) /\ Len(sendBuf \o B) = Len(sendBuf) + Len(B)
      <4>1. sendBuf \in Seq(Byte) /\ B \in Seq(Byte) BY <2>0, <3>1
      <4>2. QED BY <4>1, Joined
    <3>4. sendBuf' \in Seq(Byte) /\ Len(sendBuf') <= Len(sendBuf \o B) BY <2>0, <3>2, <3>3, Flushed
    <3>5. Len(sendBuf') \in Nat BY <3>4
    <3>6. Len(sendBuf) + e > BufLen BY <2>0, <3>1, <3>3, <3>4, <3>5 DEF Overflow
    <3>7. QED BY <2>0, <3>6 DEF e
  <2>4. CASE SendPduData
    <3>1. TypedLen <= room /\ appendPdu(TypedLen) BY <2>4 DEF SendPduData
    <3>2. Len(sendBuf) + HeadLen + TypedLen > BufLen BY <2>0, <2>3, <3>1
    <3> SUFFICES ASSUME ~ (BufLen - Len(sendBuf) < HeadLen) PROVE FALSE OBVIOUS
    <3>3. BufLen - Len(sendBuf) >= HeadLen BY <2>0
    <3>4. room \in Nat /\ Len(sendBuf) + HeadLen + room <= BufLen BY <2>0, <3>3, RoomIsReal
    <3>5. QED BY <2>0, <3>1, <3>2, <3>4
  <2>5. CASE \E d \in DataLen : SendRawData(d)
    <3>1. PICK d \in DataLen : SendRawData(d) BY <2>5
    <3>2. d \in Nat /\ appendPdu(d) /\ Len(sendBuf) + HeadLen + d <= BufLen BY <2>0, <3>1 DEF SendRawData
    <3>3. Len(sendBuf) + HeadLen + d > BufLen BY <2>3, <3>2
    <3>4. QED BY <2>0, <3>2, <3>3
  <2>6. CASE OnConnected \/ OnSendReady BY <2>2, <2>6 DEF OnConnected, OnSendReady
  <2>7. CASE FillFdset \/ wakeup \/ Close \/ handleClose \/ (\E n \in 1 .. Window : handleRecv(n)) \/ UNCHANGED vars
    <3>1. sendBuf' = sendBuf BY <2>7 DEF FillFdset, wakeup, Close, handleClose, handleRecv, vars
    <3>2. QED BY <2>1, <3>1
  <2>8. QED BY <1>1, <2>4, <2>5, <2>6, <2>7 DEF Next, Loop, Relay
<1>2. QED BY <1>1, UplinkInvariance, PTL DEF Spec, OverflowOnlyAtEnd

-----------------------------------------------------------------------------
(* The refinement of RelayFifo.                                             *)

Upto(n) == [p \in 1 .. n |-> p]

\* What the refinement mapping of DeliversInOrder takes for accepted and sent.
FitSet(sz) == {p \in 1 .. Len(sz) : Fit(sz, p)}
AcceptedOf(sz) == [p \in FitSet(sz) |-> p]
HandledUpto(h, f) == {i \in DOMAIN h : h[i] <= f}
SentOf(sz, h) == SubSeq(h, 1, Cardinality(HandledUpto(h, Cardinality(FitSet(sz)))))

\* The PDUs up to f were sent before one that is too long, and those up to k of them
\* have been handled.
Mapped(sz, h, f, k) ==
    /\ f \in 0 .. Len(sz) /\ k \in 0 .. f
    /\ FitSet(sz) = 1 .. f /\ HandledUpto(h, f) = 1 .. k
    /\ AcceptedOf(sz) = Upto(f) /\ SentOf(sz, h) = Upto(k)

\* A set of numbers that has with each one all the smaller ones is an interval.
LEMMA Interval ==
    ASSUME NEW n \in Nat, NEW A, A \subseteq 1 .. n, \A p \in A : \A q \in 1 .. p : q \in A
    PROVE  \E k \in 0 .. n : A = 1 .. k /\ Cardinality(A) = k
<1> DEFINE T == {x \in Nat : ~ (x + 1 \in A)}
<1>1. PICK k \in T : \A y \in T : k <= y
  <2>1. T \subseteq Nat OBVIOUS
  <2>2. n \in T OBVIOUS
  <2> HIDE DEF T
  <2>3. QED BY <2>1, <2>2, LeastNat
<1>2. n \in T OBVIOUS
<1>3. k \in 0 .. n /\ k \in Nat /\ ~ (k + 1 \in A)
  <2>1. k \in Nat /\ k <= n /\ ~ (k + 1 \in A) BY <1>1, <1>2
  <2>2. QED BY <2>1
<1>4. ASSUME NEW p \in A PROVE p \in 1 .. k
  <2>1. p \in 1 .. n OBVIOUS
  <2>2. CASE p <= k BY <1>3, <2>1, <2>2
  <2>3. CASE p > k
    <3>1. k + 1 \in 1 .. p BY <1>3, <2>1, <2>3
    <3>2. QED BY <1>3, <3>1
  <2>4. QED BY <1>3, <2>1, <2>2, <2>3
<1>5. ASSUME NEW p \in 1 .. k PROVE p \in A
  <2>1. p - 1 \in Nat /\ ~ (k <= p - 1) /\ (p - 1) + 1 = p BY <1>3
  <2>2. ~ (p - 1 \in T) BY <1>1, <2>1
  <2>3. QED BY <2>1, <2>2
<1>6. A = 1 .. k BY <1>4, <1>5
<1>7. Cardinality(1 .. k) = k
  <2>1. Cardinality(1 .. k) = IF 1 > k THEN 0 ELSE k - 1 + 1 BY <1>3, FS_Interval
  <2>2. QED BY <1>3, <2>1
<1>8. QED BY <1>3, <1>6, <1>7

\* In every reachable state the mapping gives two such numbers.
LEMMA MappedExists ==
    ASSUME NEW sz, Len(sz) \in Nat, NEW h, NEW n \in 1 .. Len(sz) + 1, HandledInv(sz, h, n)
    PROVE  \E f \in Nat, k \in Nat : Mapped(sz, h, f, k)
<1>1. PICK f \in 0 .. Len(sz) : FitSet(sz) = 1 .. f /\ Cardinality(FitSet(sz)) = f
  <2>1. FitSet(sz) \subseteq 1 .. Len(sz) BY DEF FitSet
  <2>2. ASSUME NEW p \in FitSet(sz), NEW q \in 1 .. p PROVE q \in FitSet(sz)
    <3>1. p \in 1 .. Len(sz) /\ Fit(sz, p) BY DEF FitSet
    <3>2. q \in 1 .. Len(sz) /\ \A l \in 1 .. q : l \in 1 .. p BY <3>1
    <3>3. Fit(sz, q) BY <3>1, <3>2 DEF Fit
    <3>4. QED BY <3>2, <3>3 DEF FitSet
  <2>3. QED BY <2>1, <2>2, Interval
<1>2. h \in Seq(Nat) /\ Len(h) \in Nat /\ DOMAIN h = 1 .. Len(h) BY DEF HandledInv
<1>3. ASSUME NEW i \in HandledUpto(h, f) PROVE i \in 1 .. Len(h) /\ h[i] = i /\ i <= f
  <2>1. i \in 1 .. Len(h) /\ h[i] <= f BY <1>2 DEF HandledUpto
  <2>2. h[i] \in 1 .. n - 1 /\ (Fit(sz, h[i]) => h[i] = i) BY <2>1 DEF HandledInv
  <2>3. h[i] \in 1 .. f BY <2>1, <2>2
  <2>4. Fit(sz, h[i]) BY <1>1, <2>3 DEF FitSet
  <2>5. QED BY <2>1, <2>2, <2>4
<1>4. PICK k \in 0 .. Len(h) : HandledUpto(h, f) = 1 .. k /\ Cardinality(HandledUpto(h, f)) = k
  <2>1. HandledUpto(h, f) \subseteq 1 .. Len(h) BY <1>3
  <2>2. ASSUME NEW i \in HandledUpto(h, f), NEW j \in 1 .. i PROVE j \in HandledUpto(h, f)
    <3>1. i \in 1 .. Len(h) /\ h[i] = i /\ i <= f BY <1>3
    <3>2. j \in 1 .. Len(h) /\ (j = i \/ j < i) BY <1>2, <3>1
    <3>3. j < i => h[j] < h[i] BY <3>1, <3>2 DEF HandledInv
    <3>4. h[j] \in Nat BY <1>2, <3>2
    <3>5. h[j] <= f BY <1>1, <3>1, <3>2, <3>3, <3>4
    <3>6. QED BY <1>2, <3>2, <3>5 DEF HandledUpto
  <2>3. QED BY <1>2, <2>1, <2>2, Interval
<1>5. \A i \in 1 .. k : i \in 1 .. Len(h) /\ h[i] = i /\ i <= f BY <1>3, <1>4
<1>6. k \in 0 .. f
  <2>1. CASE k = 0 BY <1>1, <2>1
  <2>2. CASE k >= 1
    <3>1. k \in 1 .. k BY <1>4, <2>2
    <3>2. QED BY <1>1, <1>4, <1>5, <3>1
  <2>3. QED BY <1>4, <2>1, <2>2
<1>7. AcceptedOf(sz) = Upto(f) BY <1>1 DEF AcceptedOf, Upto
<1>8. SentOf(sz, h) = Upto(k)
  <2>1. SentOf(sz, h) = SubSeq(h, 1, k) BY <1>1, <1>4 DEF SentOf
  <2>2. SubSeq(h, 1, k) = [i \in 1 .. k |-> h[i]]
    <3>1. SubSeq(h, 1, k) \in Seq(Nat) /\ Len(SubSeq(h, 1, k)) = k /\ \A i \in 1 .. k : SubSeq(h, 1, k)[i] = h[i]
      BY <1>2, <1>4, Taken
    <3>2. QED BY <3>1
  <2>3. [i \in 1 .. k |-> h[i]] = Upto(k) BY <1>5 DEF Upto
  <2>4. QED BY <2>1, <2>2, <2>3
<1>9. f \in Nat /\ k \in Nat BY <1>1, <1>4
<1>10. QED BY <1>1, <1>4, <1>6, <1>7, <1>8, <1>9 DEF Mapped

\* The sequence 1 .. n, one more, and its beginnings.
LEMMA UptoProperties ==
    ASSUME NEW n \in Nat
    PROVE  /\ Len(Upto(n)) = n
           /\ Upto(n + 1) = Append(Upto(n), n + 1)
           /\ \A m \in 0 .. n : Upto(m) = SubSeq(Upto(n), 1, m)
<1>1. \A m \in Nat : Upto(m) \in Seq(Nat) /\ Len(Upto(m)) = m /\ \A i \in 1 .. m : Upto(m)[i] = i BY DEF Upto
<1>2. Upto(n + 1) = Append(Upto(n), n + 1)
  <2> DEFINE a == Append(Upto(n), n + 1)
  <2>1. a \in Seq(Nat) /\ Len(a) = n + 1 /\ (\A i \in 1 .. n : a[i] = Upto(n)[i]) /\ a[n + 1] = n + 1
    <3> DEFINE u == Upto(n)
    <3>1. u \in Seq(Nat) /\ Len(u) = n /\ n + 1 \in Nat BY <1>1
    <3> HIDE DEF u
    <3>2. /\ Append(u, n + 1) \in Seq(Nat) /\ Len(Append(u, n + 1)) = n + 1
          /\ (\A i \in 1 .. n : Append(u, n + 1)[i] = u[i]) /\ Append(u, n + 1)[n + 1] = n + 1
      BY <3>1, AppendProperties
    <3>3. QED BY <3>2 DEF u
  <2>2. n + 1 \in Nat /\ \A i \in 1 .. n + 1 : i \in 1 .. n \/ i = n + 1 OBVIOUS
  <2> HIDE DEF a
  <2>3. \A i \in 1 .. n + 1 : a[i] = i BY <1>1, <2>1, <2>2
  <2>4. a = [i \in 1 .. n + 1 |-> a[i]] BY <2>1
  <2>5. QED BY <2>3, <2>4 DEF Upto, a
<1>3. ASSUME NEW m \in 0 .. n PROVE Upto(m) = SubSeq(Upto(n), 1, m)
  <2> DEFINE u == Upto(n)
  <2>1. u \in Seq(Nat) /\ Len(u) = n /\ \A i \in 1 .. n : u[i] = i BY <1>1
  <2> HIDE DEF u
  <2>2. SubSeq(u, 1, m) \in Seq(Nat) /\ Len(SubSeq(u, 1, m)) = m /\ \A i \in 1 .. m : SubSeq(u, 1, m)[i] = u[i]
    BY <2>1, Taken
  <2>3. SubSeq(u, 1, m) = [i \in 1 .. m |-> SubSeq(u, 1, m)[i]] BY <2>2
  <2>4. \A i \in 1 .. m : SubSeq(u, 1, m)[i] = i BY <2>1, <2>2
  <2>5. QED BY <2>3, <2>4 DEF Upto, u
<1>4. QED BY <1>1, <1>2, <1>3

\* A PDU more is accepted by the mapping, unless it or an earlier one is too long.
LEMMA MappedAppend ==
    ASSUME NEW sz, Sizes(sz), NEW e \in Nat, NEW h, NEW n \in 1 .. Len(sz) + 1, HandledInv(sz, h, n),
           NEW f \in Nat, NEW k \in Nat, Mapped(sz, h, f, k),
           NEW f2 \in Nat, NEW k2 \in Nat, Mapped(Append(sz, e), h, f2, k2)
    PROVE  k2 = k /\ (f2 = f \/ f2 = f + 1) /\ f2 <= Len(sz) + 1
<1> DEFINE tz == Append(sz, e)
           L == Len(sz)
<1>0. L \in Nat /\ Len(tz) = L + 1 BY AppendProperties DEF Sizes
<1>1. \A q \in 1 .. L : Fit(tz, q) <=> Fit(sz, q) BY HandledGrown
<1> HIDE DEF tz
<1>2. f <= L /\ f2 <= L + 1 /\ FitSet(sz) = 1 .. f /\ FitSet(tz) = 1 .. f2 BY <1>0 DEF Mapped, tz
<1>3. \A q \in 1 .. L : (q <= f <=> q <= f2)
  <2> SUFFICES ASSUME NEW q \in 1 .. L PROVE q <= f <=> q <= f2 OBVIOUS
  <2>1. q \in 1 .. Len(tz) BY <1>0
  <2>2. (q \in FitSet(sz) <=> Fit(sz, q)) /\ (q \in FitSet(tz) <=> Fit(tz, q)) BY <2>1 DEF FitSet
  <2>3. (q \in 1 .. f <=> q <= f) /\ (q \in 1 .. f2 <=> q <= f2) BY <1>0
  <2>4. QED BY <1>1, <1>2, <2>2, <2>3
<1>4. f2 = f \/ f2 = f + 1
  <2>1. CASE f = L
    <3>1. f2 >= L
      <4>1. CASE L = 0 BY <4>1
      <4>2. CASE L >= 1
        <5>1. L \in 1 .. L BY <1>0, <4>2
        <5>2. QED BY <1>0, <1>3, <2>1, <5>1
      <4>3. QED BY <1>0, <4>1, <4>2
    <3>2. QED BY <1>0, <1>2, <2>1, <3>1
  <2>2. CASE f < L
    <3>1. f + 1 \in 1 .. L BY <1>0, <2>2
    <3>2. ~ (f + 1 <= f2) BY <1>3, <3>1
    <3>3. f >= 1 => f <= f2
      <4>1. f >= 1 => f \in 1 .. L BY <1>0, <2>2
      <4>2. QED BY <1>3, <4>1
    <3>4. QED BY <3>2, <3>3
  <2>3. QED BY <1>0, <1>2, <2>1, <2>2
<1>5. HandledUpto(h, f2) = HandledUpto(h, f)
  <2>1. h \in Seq(Nat) /\ DOMAIN h = 1 .. Len(h) BY DEF HandledInv
  <2>2. ASSUME NEW i \in DOMAIN h PROVE h[i] <= f <=> h[i] <= f2
    <3>1. h[i] \in 1 .. n - 1 BY <2>1 DEF HandledInv
    <3>2. h[i] \in 1 .. L BY <1>0, <3>1
    <3>3. QED BY <1>3, <3>2
  <2>3. QED BY <2>2 DEF HandledUpto
<1>6. 1 .. k = 1 .. k2 BY <1>5 DEF Mapped
<1>7. k = k2
  <2>1. (k \in 1 .. k <=> k >= 1) /\ (k2 \in 1 .. k2 <=> k2 >= 1) OBVIOUS
  <2>2. k >= 1 => k <= k2 BY <1>6, <2>1
  <2>3. k2 >= 1 => k2 <= k BY <1>6, <2>1
  <2>4. QED BY <2>2, <2>3
<1>8. QED BY <1>2, <1>4, <1>7

\* Handling more only adds to what the mapping takes for sent.
LEMMA MappedHandled ==
    ASSUME NEW sz, NEW h \in Seq(Nat), NEW d \in Seq(Nat),
           NEW f \in Nat, NEW k \in Nat, Mapped(sz, h, f, k),
           NEW f2 \in Nat, NEW k2 \in Nat, Mapped(sz, h \o d, f2, k2)
    PROVE  f2 = f /\ k <= k2
<1>1. 1 .. f = 1 .. f2 BY DEF Mapped
<1>2. f = f2
  <2>1. (f \in 1 .. f <=> f >= 1) /\ (f2 \in 1 .. f2 <=> f2 >= 1) OBVIOUS
  <2>2. f >= 1 => f <= f2 BY <1>1, <2>1
  <2>3. f2 >= 1 => f2 <= f BY <1>1, <2>1
  <2>4. QED BY <2>2, <2>3
<1>3. /\ h \o d \in Seq(Nat) /\ Len(h \o d) = Len(h) + Len(d)
      /\ \A i \in 1 .. Len(h) : (h \o d)[i] = h[i]
      /\ Len(h) \in Nat /\ Len(d) \in Nat
  BY ConcatProperties
<1>4. CASE k >= 1
  <2>1. k \in HandledUpto(h, f) BY <1>4 DEF Mapped
  <2>2. k \in 1 .. Len(h) /\ h[k] <= f BY <2>1 DEF HandledUpto
  <2>3. k \in DOMAIN (h \o d) /\ (h \o d)[k] <= f BY <1>3, <2>2
  <2>4. k \in HandledUpto(h \o d, f2) BY <1>2, <2>3 DEF HandledUpto
  <2>5. k \in 1 .. k2 BY <2>4 DEF Mapped
  <2>6. QED BY <1>2, <2>5
<1>5. CASE k = 0 BY <1>2, <1>5
<1>6. QED BY <1>2, <1>4, <1>5

\* The refinement mapping of DeliversInOrder.
acceptedBar == [p \in Fitting |-> p]
sentBar == SubSeq(handled, 1, Cardinality({i \in DOMAIN handled : handled[i] <= Cardinality(Fitting)}))

\* The connection implements RelayFifo up to the first payload that parsePduHead
\* refuses: the relay handles what SendTcpPdu accepted, in order and once each.
THEOREM UplinkImplementsFifo == Spec => DeliversInOrder
<1>0. /\ acceptedBar = AcceptedOf(size) /\ sentBar = SentOf(size, handled)
      /\ acceptedBar' = AcceptedOf(size') /\ sentBar' = SentOf(size', handled')
  BY DEF acceptedBar, sentBar, AcceptedOf, SentOf, HandledUpto, FitSet, Fitting, Fits, TooLong, DataLenOf, Fit, Long
<1>1. ASSUME IInv PROVE /\ Sizes(size) /\ Len(size) \in Nat
                        /\ \E n \in 1 .. Len(size) + 1 : HandledInv(size, handled, n)
                        /\ \E f \in Nat, k \in Nat : Mapped(size, handled, f, k)
  <2>1. Sizes(size) /\ Len(size) \in Nat BY <1>1 DEF IInv, BufferInv, Sizes
  <2>2. PICK n \in 1 .. Len(size) + 1 : HandledInv(size, handled, n) BY <1>1 DEF IInv, StreamInv
  <2>3. \E f \in Nat, k \in Nat : Mapped(size, handled, f, k) BY <2>1, <2>2, MappedExists
  <2>4. QED BY <2>1, <2>2, <2>3
<1>2. ASSUME Init PROVE Fifo!Init
  <2>1. IInv BY <1>2, InitInv
  <2>2. PICK f \in Nat, k \in Nat : Mapped(size, handled, f, k) BY <1>1, <2>1
  <2>3. Len(size) = 0 BY <1>2 DEF Init
  <2>4. f = 0 /\ k = 0 BY <2>2, <2>3 DEF Mapped
  <2>5. acceptedBar = Upto(0) /\ sentBar = Upto(0) BY <1>0, <2>2, <2>4 DEF Mapped
  <2>6. Upto(0) = << >> BY DEF Upto
  <2>7. acceptedBar = << >> /\ sentBar = << >> BY <2>5, <2>6
  <2>8. QED BY <2>7 DEF Fifo!Init, acceptedBar, sentBar
<1>3. ASSUME IInv, [Next]_vars, IInv' PROVE [Fifo!Next]_<<acceptedBar, sentBar>>
  <2>1. PICK n \in 1 .. Len(size) + 1 : HandledInv(size, handled, n) BY <1>1, <1>3
  <2>2. PICK f \in Nat, k \in Nat : Mapped(size, handled, f, k) BY <1>1, <1>3
  <2>3. PICK n2 \in 1 .. Len(size') + 1 : HandledInv(size', handled', n2) BY <1>3 DEF IInv, StreamInv
  <2>4. Len(size') \in Nat BY <1>3 DEF IInv, BufferInv, Sizes
  <2>5. PICK f2 \in Nat, k2 \in Nat : Mapped(size', handled', f2, k2) BY <2>3, <2>4, MappedExists
  <2>6. acceptedBar = Upto(f) /\ sentBar = Upto(k) /\ acceptedBar' = Upto(f2) /\ sentBar' = Upto(k2)
    BY <1>0, <2>2, <2>5 DEF Mapped
  <2>7. CASE UNCHANGED <<size, handled>>
    <3>1. acceptedBar' = acceptedBar /\ sentBar' = sentBar BY <1>0, <2>7
    <3>2. QED BY <3>1
  <2>8. ASSUME NEW d \in Nat, appendPdu(d) PROVE [Fifo!Next]_<<acceptedBar, sentBar>>
    <3>1. Len(size) < MaxPdu /\ size' = Append(size, HeadLen + d) /\ handled' = handled
      BY <2>8 DEF appendPdu, handledVars
    <3>2. HeadLen + d \in Nat /\ MaxPdu \in Nat BY Numbers
    <3>3. k2 = k /\ (f2 = f \/ f2 = f + 1) /\ f2 <= Len(size) + 1
      <4>1. Mapped(Append(size, HeadLen + d), handled, f2, k2) BY <2>5, <3>1
      <4>2. QED BY <1>1, <1>3, <2>1, <2>2, <3>2, <4>1, MappedAppend
    <3>4. CASE f2 = f
      <4>1. acceptedBar' = acceptedBar /\ sentBar' = sentBar BY <2>6, <3>3, <3>4
      <4>2. QED BY <4>1
    <3>5. CASE f2 = f + 1
      <4>1. f + 1 \in 1 .. MaxPdu BY <1>1, <1>3, <3>1, <3>2, <3>3, <3>5
      <4>2. acceptedBar' = Append(acceptedBar, f + 1) /\ sentBar' = sentBar BY <2>6, <3>3, <3>5, UptoProperties
      <4>3. QED BY <4>1, <4>2 DEF Fifo!Next, Fifo!Accept, acceptedBar, sentBar
    <3>6. QED BY <3>3, <3>4, <3>5
  <2>9. ASSUME NEW m \in 1 .. Window, handleRecv(m) PROVE [Fifo!Next]_<<acceptedBar, sentBar>>
    <3>1. f2 = f /\ k <= k2
      <4>1. PICK d \in Seq(Nat) : handled' = handled \o d BY <1>3, <2>9, HandleRecvInv
      <4>2. size' = size BY <2>9 DEF handleRecv, sentVars
      <4>3. handled \in Seq(Nat) BY <2>1 DEF HandledInv
      <4>4. Mapped(size, handled \o d, f2, k2) BY <2>5, <4>1, <4>2
      <4>5. QED BY <2>2, <4>3, <4>4, MappedHandled
    <3>2. k2 <= f BY <2>5, <3>1 DEF Mapped
    <3>3. CASE k2 = k
      <4>1. acceptedBar' = acceptedBar /\ sentBar' = sentBar BY <2>6, <3>1, <3>3
      <4>2. QED BY <4>1
    <3>4. CASE k2 # k
      <4>1. Len(acceptedBar) = f /\ Len(sentBar) = k BY <2>6, UptoProperties
      <4>2. k2 \in Len(sentBar) + 1 .. Len(acceptedBar) BY <3>1, <3>2, <3>4, <4>1
      <4>3. k2 \in 0 .. f BY <3>2
      <4>4. sentBar' = SubSeq(acceptedBar, 1, k2) /\ acceptedBar' = acceptedBar
        BY <2>6, <3>1, <4>3, UptoProperties
      <4>5. QED BY <4>2, <4>4 DEF Fifo!Next, Fifo!Send, acceptedBar, sentBar
    <3>5. QED BY <3>3, <3>4
  <2>10. CASE SendPduData \/ \E d \in DataLen : SendRawData(d)
    <3>1. \E d \in Nat : appendPdu(d) BY <2>10, LengthAssumption, Numbers DEF SendPduData, SendRawData
    <3>2. QED BY <2>8, <3>1
  <2>11. CASE Loop \/ handleClose \/ Close \/ UNCHANGED vars
    <3>1. UNCHANGED <<size, handled>>
      BY <2>11 DEF Loop, FillFdset, wakeup, OnConnected, OnSendReady, handleClose, Close, vars, sentVars, handledVars
    <3>2. QED BY <2>7, <3>1
  <2>12. QED BY <1>3, <2>9, <2>10, <2>11 DEF Next, Relay
<1>4. QED BY <1>2, <1>3, UplinkInvariance, PTL DEF Spec, DeliversInOrder, Fifo!Spec, acceptedBar, sentBar

=============================================================================
