------------------------ MODULE CryptoWrapperProofs ------------------------
(***************************************************************************)
(* Proofs about CryptoWrapper, for any keys, block size, overhead of SM2   *)
(* and length of messages that size_t can count: what a block cipher of    *)
(* the wrappers has encrypted is decrypted to the message it was; the      *)
(* trailers tell the algorithms apart; and no call returns more bytes than *)
(* its caller must expect.                                                 *)
(*                                                                         *)
(* The inductive invariant says what the caller's buffer holds: under all  *)
(* layers a message of plain bytes, and over each the encryption of it.    *)
(* Bytes nest without end, so a sequence is one over some set.             *)
(***************************************************************************)
EXTENDS CryptoWrapper, SequenceTheorems, TLAPS

IsSeq(d) == \E S : d \in Seq(S)

\* The number of bytes that fill the last block up.
Fill(m) == IF Len(m) % Block = 0 THEN Block ELSE Block - (Len(m) % Block)

\* The blocks of an encryption, without the trailer.
Cipher(alg, key, m) == [i \in 1 .. Len(padded(m)) |-> cipherByte(alg, key, padded(m), Block, i)]

\* What an encryption makes of m.
Sealed(alg, key, m) ==
    IF alg = "SM2" THEN [i \in 1 .. Len(m) + SM2Extra |-> <<"c", "SM2", key, m, i>>]
    ELSE Encrypted(alg, key, m)

\* The algorithms that encrypt: EncryptAES of the C wrapper never returns.
Algorithm == {"SM4", "AES++", "SM2"}

\* No byte of d is one of a ciphertext.
Plain(d) == IsSeq(d) /\ \A i \in 1 .. Len(d) : d[i][1] = "b"

\* What is left of the data d when i of its layers l are taken off.
Text(d, l, i) == IF i = 0 THEN d ELSE l[i].plain

\* The layers l are on d: each is an encryption of what is under it, and plain bytes
\* are under the last.
Layered(d, l) ==
    /\ IsSeq(l)
    /\ \A i \in 0 .. Len(l) : IsSeq(Text(d, l, i))
    /\ \A i \in 1 .. Len(l) :
         l[i].alg \in Algorithm /\ Text(d, l, i - 1) = Sealed(l[i].alg, l[i].key, Text(d, l, i))
    /\ Plain(Text(d, l, Len(l)))

\* An encryption adds at most Growth bytes, so that no length wraps around.
Growth == 2 * Block + SM2Extra + 4
SizeInv == made \in 0 .. MaxLayer /\ Len(data) <= MaxLen + made * Growth

IInv == Layered(data, layers) /\ SizeInv /\ LengthsBounded

-----------------------------------------------------------------------------
(* Numbers.                                                                 *)

\* The constants are numbers.
LEMMA Numbers ==
    /\ Block \in Nat /\ SM2Extra \in Nat /\ SizeT \in Nat /\ MaxLen \in Nat /\ MaxLayer \in Nat
    /\ Block > 0 /\ SM2Extra > 0 /\ SizeT > 0
    /\ PlainByte \subseteq Nat
  BY SizeAssumption

\* Quotient and remainder.
LEMMA Division ==
    ASSUME NEW x \in Nat, NEW n \in Nat, n > 0
    PROVE  /\ x \div n \in Nat /\ x % n \in 0 .. n - 1
           /\ x = (x \div n) * n + (x % n)
  OBVIOUS

\* One more block.
LEMMA MulStep ==
    ASSUME NEW q \in Int, NEW n \in Int
    PROVE  (q + 1) * n = q * n + n /\ q * n \in Int
  OBVIOUS

\* More blocks are not shorter.
LEMMA MulMono ==
    ASSUME NEW q \in Nat, NEW r \in Nat, q <= r, NEW n \in Nat
    PROVE  q * n <= r * n
  OBVIOUS

\* The quotient and the remainder are the only ones.
LEMMA QuotientUnique ==
    ASSUME NEW q \in Nat, NEW n \in Nat, n > 0, NEW r \in 0 .. n - 1
    PROVE  (q * n + r) \div n = q /\ (q * n + r) % n = r
<1> DEFINE x == q * n + r
<1>1. x \in Nat OBVIOUS
<1> DEFINE k == x \div n
           s == x % n
<1>2. k \in Nat /\ s \in 0 .. n - 1 /\ x = k * n + s BY <1>1, Division
<1> HIDE DEF k, s
<1>3. k < q => k * n + n <= q * n
  <2>1. k < q => k + 1 <= q BY <1>2
  <2>2. k < q => (k + 1) * n <= q * n BY <2>1, <1>2, MulMono
  <2>3. QED BY <2>2, <1>2, MulStep
<1>4. q < k => q * n + n <= k * n
  <2>1. q < k => q + 1 <= k BY <1>2
  <2>2. q < k => (q + 1) * n <= k * n BY <2>1, <1>2, MulMono
  <2>3. QED BY <2>2, <1>2, MulStep
<1>5. k = q
  <2>1. q * n \in Nat /\ k * n \in Nat /\ q * n + r = k * n + s BY <1>2
  <2>2. ~ (k < q) BY <2>1, <1>2, <1>3
  <2>3. ~ (q < k) BY <2>1, <1>2, <1>4
  <2>4. QED BY <2>2, <2>3, <1>2
<1>6. s = r
  <2>1. q * n \in Nat /\ q * n + r = q * n + s BY <1>2, <1>5
  <2>2. QED BY <2>1, <1>2
<1>7. QED BY <1>5, <1>6 DEF k, s

\* A number below n is its own remainder: size_t has not wrapped around.
LEMMA InRange ==
    ASSUME NEW n \in Nat, n > 0, NEW r \in 0 .. n - 1
    PROVE  r % n = r
<1>1. (0 * n + r) % n = r BY QuotientUnique
<1>2. 0 * n + r = r OBVIOUS
<1>3. QED BY <1>1, <1>2

-----------------------------------------------------------------------------
(* Sequences.                                                               *)

\* A sequence is a function on its indices.
LEMMA SeqLen ==
    ASSUME NEW d, IsSeq(d)
    PROVE  Len(d) \in Nat /\ DOMAIN d = 1 .. Len(d) /\ d = [i \in 1 .. Len(d) |-> d[i]]
<1>1. PICK S : d \in Seq(S) BY DEF IsSeq
<1>2. QED BY <1>1

\* Sequences with the same length and elements are the same.
LEMMA SameSeq ==
    ASSUME NEW d, NEW e, IsSeq(d), IsSeq(e), Len(d) = Len(e), \A i \in 1 .. Len(d) : d[i] = e[i]
    PROVE  d = e
<1>1. d = [i \in 1 .. Len(d) |-> d[i]] BY SeqLen
<1>2. e = [i \in 1 .. Len(d) |-> e[i]] BY SeqLen
<1>3. [i \in 1 .. Len(d) |-> d[i]] = [i \in 1 .. Len(d) |-> e[i]] OBVIOUS
<1>4. QED BY <1>1, <1>2, <1>3, Zenon

\* A function on 1 .. n is a sequence of length n.
LEMMA FcnIsSeq ==
    ASSUME NEW n \in Nat, NEW f, f = [i \in 1 .. n |-> f[i]]
    PROVE  IsSeq(f) /\ Len(f) = n
<1> DEFINE S == {f[i] : i \in 1 .. n}
<1>1. f \in [1 .. n -> S] OBVIOUS
<1>2. f \in Seq(S) BY <1>1
<1>3. Len(f) = n BY <1>1, <1>2
<1>4. QED BY <1>2, <1>3 DEF IsSeq

\* The length and the elements of what two sequences make together.
LEMMA Joined ==
    ASSUME NEW d, NEW e, IsSeq(d), IsSeq(e)
    PROVE  /\ IsSeq(d \o e) /\ Len(d \o e) = Len(d) + Len(e)
           /\ \A i \in 1 .. Len(d) : (d \o e)[i] = d[i]
           /\ \A i \in 1 .. Len(e) : (d \o e)[Len(d) + i] = e[i]
<1>1. PICK S : d \in Seq(S) BY DEF IsSeq
<1>2. PICK T : e \in Seq(T) BY DEF IsSeq
<1> DEFINE U == S \cup T
           j == d \o e
<1>3. d \in Seq(U) /\ e \in Seq(U) BY <1>1, <1>2
<1>4. Len(d) \in Nat /\ Len(e) \in Nat BY <1>1, <1>2
<1> HIDE DEF U
<1>5. /\ d \o e \in Seq(U) /\ Len(d \o e) = Len(d) + Len(e)
      /\ \A i \in 1 .. Len(d) + Len(e) : (d \o e)[i] = IF i <= Len(d) THEN d[i] ELSE e[i - Len(d)]
  BY <1>3, ConcatProperties
<1>6. /\ j \in Seq(U) /\ Len(j) = Len(d) + Len(e)
      /\ \A i \in 1 .. Len(d) + Len(e) : j[i] = IF i <= Len(d) THEN d[i] ELSE e[i - Len(d)]
  BY <1>5
<1> HIDE DEF j
<1>7. \A i \in 1 .. Len(d) : j[i] = d[i] BY <1>4, <1>6
<1>8. ASSUME NEW i \in 1 .. Len(e) PROVE j[Len(d) + i] = e[i]
  <2> DEFINE k == Len(d) + i
  <2>1. k \in 1 .. Len(d) + Len(e) /\ ~ (k <= Len(d)) /\ k - Len(d) = i BY <1>4
  <2> HIDE DEF k
  <2>2. j[k] = e[i] BY <1>6, <2>1
  <2>3. QED BY <2>2 DEF k
<1>9. QED BY <1>6, <1>7, <1>8 DEF j, IsSeq

\* The part of a sequence behind its first m elements, up to the n-th.
LEMMA Cut ==
    ASSUME NEW d, IsSeq(d), NEW m \in Nat, NEW n \in Nat, m <= n, n <= Len(d)
    PROVE  /\ IsSeq(SubSeq(d, m + 1, n)) /\ Len(SubSeq(d, m + 1, n)) = n - m
           /\ \A i \in 1 .. n - m : SubSeq(d, m + 1, n)[i] = d[m + i]
<1>1. PICK S : d \in Seq(S) BY DEF IsSeq
<1>2. Len(d) \in Nat BY <1>1
<1>3. m + 1 \in Int /\ n \in Int /\ \A i \in m + 1 .. n : d[i] \in S BY <1>1, <1>2
<1>4. /\ SubSeq(d, m + 1, n) \in Seq(S)
      /\ Len(SubSeq(d, m + 1, n)) = IF m + 1 <= n THEN n - (m + 1) + 1 ELSE 0
      /\ \A i \in 1 .. n - (m + 1) + 1 : SubSeq(d, m + 1, n)[i] = d[(m + 1) + i - 1]
  BY <1>3, SubSeqProperties
<1>5. /\ n - (m + 1) + 1 = n - m /\ (IF m + 1 <= n THEN n - (m + 1) + 1 ELSE 0) = n - m
      /\ \A i \in 1 .. n - m : (m + 1) + i - 1 = m + i
  OBVIOUS
<1>6. QED BY <1>4, <1>5 DEF IsSeq

-----------------------------------------------------------------------------
(* Padding and the shape of an encryption.                                  *)

\* With the filling a message has whole blocks, and at least one byte is filled in.
LEMMA FillRange ==
    ASSUME NEW m, IsSeq(m)
    PROVE  /\ Fill(m) \in 1 .. Block /\ Len(m) \in Nat
           /\ Len(m) + Fill(m) = (Len(m) \div Block + 1) * Block /\ Len(m) \div Block \in Nat
<1> DEFINE q == Len(m) \div Block
           r == Len(m) % Block
<1>1. Len(m) \in Nat /\ Block \in Nat /\ Block > 0 BY SeqLen, Numbers
<1>2. q \in Nat /\ r \in 0 .. Block - 1 /\ Len(m) = q * Block + r BY <1>1, Division
<1>3. Fill(m) = IF r = 0 THEN Block ELSE Block - r BY DEF Fill
<1> HIDE DEF q, r
<1>4. (q + 1) * Block = q * Block + Block /\ q * Block \in Int BY <1>1, <1>2, MulStep
<1>5. Fill(m) \in 1 .. Block BY <1>1, <1>2, <1>3
<1>6. Len(m) + Fill(m) = (q + 1) * Block
  <2> DEFINE a == q * Block
  <2>1. a \in Int /\ Len(m) = a + r /\ (q + 1) * Block = a + Block BY <1>2, <1>4
  <2> HIDE DEF a
  <2>2. QED BY <1>1, <1>2, <1>3, <2>1
<1>7. QED BY <1>1, <1>2, <1>5, <1>6 DEF q

\* padded keeps the message, and its last byte says how many were filled in.
LEMMA Padded ==
    ASSUME NEW m, IsSeq(m)
    PROVE  /\ IsSeq(padded(m)) /\ Len(padded(m)) = Len(m) + Fill(m)
           /\ \A i \in 1 .. Len(m) : padded(m)[i] = m[i]
           /\ padded(m)[Len(m) + Fill(m)] = B(Fill(m))
<1> DEFINE e == [i \in 1 .. Fill(m) |-> B(Fill(m))]
<1>1. padded(m) = m \o e BY DEF padded, Fill
<1>2. Fill(m) \in Nat /\ Fill(m) \in 1 .. Fill(m)
  BY FillRange, Numbers
<1>3. e = [i \in 1 .. Fill(m) |-> e[i]] OBVIOUS
<1>4. IsSeq(e) /\ Len(e) = Fill(m) BY <1>2, <1>3, FcnIsSeq
<1>5. e[Fill(m)] = B(Fill(m)) BY <1>2
<1> HIDE DEF e
<1>6. /\ IsSeq(m \o e) /\ Len(m \o e) = Len(m) + Len(e)
      /\ \A i \in 1 .. Len(m) : (m \o e)[i] = m[i]
      /\ \A i \in 1 .. Len(e) : (m \o e)[Len(m) + i] = e[i]
  BY <1>4, Joined
<1>7. (m \o e)[Len(m) + Fill(m)] = e[Fill(m)] BY <1>2, <1>4, <1>6
<1>8. QED BY <1>1, <1>4, <1>5, <1>6, <1>7

\* A trailer has four bytes, and the first is the flag of the algorithm.
LEMMA TrailerShape ==
    ASSUME NEW alg \in BlockAlg
    PROVE  /\ IsSeq(Trailer(alg)) /\ Len(Trailer(alg)) = CHECK_ENCRYPTED_SIZE
           /\ Trailer(alg)[1] = IF alg = "AES" THEN B(1) ELSE IF alg = "SM4" THEN B(2) ELSE B(240)
<1> DEFINE flag == IF alg = "AES" THEN B(1) ELSE IF alg = "SM4" THEN B(2) ELSE B(240)
           f == <<flag>>
           e == [i \in 1 .. CHECK_ENCRYPTED_SIZE - 1 |-> CHECK_ENCRYPTE_KEY_VAULE]
<1>1. Trailer(alg) = f \o e BY DEF Trailer, BlockAlg, CHECK_ENCRYPTE_KEY_VAULE
<1>2. f = [i \in 1 .. 1 |-> f[i]] /\ f[1] = flag OBVIOUS
<1>3. e = [i \in 1 .. 3 |-> e[i]] BY DEF CHECK_ENCRYPTED_SIZE
<1> HIDE DEF f, e, flag
<1>4. IsSeq(f) /\ Len(f) = 1 BY <1>2, FcnIsSeq
<1>5. IsSeq(e) /\ Len(e) = 3 BY <1>3, FcnIsSeq
<1>6. IsSeq(f \o e) /\ Len(f \o e) = 4 /\ (f \o e)[1] = f[1]
  <2>0. IsSeq(f) /\ IsSeq(e) BY <1>4, <1>5
  <2>1. /\ IsSeq(f \o e) /\ Len(f \o e) = Len(f) + Len(e)
        /\ \A i \in 1 .. Len(f) : (f \o e)[i] = f[i]
    BY <2>0, Joined
  <2>2. 1 \in 1 .. Len(f) /\ Len(f) + Len(e) = 4 BY <1>4, <1>5
  <2>3. QED BY <2>1, <2>2
<1>7. QED BY <1>1, <1>2, <1>6 DEF CHECK_ENCRYPTED_SIZE, flag

\* The blocks of an encryption are as long as the padded message.
LEMMA CipherShape ==
    ASSUME NEW alg, NEW key, NEW m, IsSeq(m)
    PROVE  /\ IsSeq(Cipher(alg, key, m)) /\ Len(Cipher(alg, key, m)) = Len(m) + Fill(m)
           /\ \A i \in 1 .. Len(m) + Fill(m) :
                Cipher(alg, key, m)[i] = cipherByte(alg, key, padded(m), Block, i)
<1> DEFINE c == Cipher(alg, key, m)
           n == Len(m) + Fill(m)
<1>1. n \in Nat BY FillRange, Numbers
<1>2. Len(padded(m)) = n BY Padded
<1>3. c = [i \in 1 .. n |-> cipherByte(alg, key, padded(m), Block, i)] BY <1>2 DEF Cipher
<1>4. c = [i \in 1 .. n |-> c[i]] BY <1>3
<1>5. \A i \in 1 .. n : c[i] = cipherByte(alg, key, padded(m), Block, i) BY <1>3
<1> HIDE DEF c, n
<1>6. IsSeq(c) /\ Len(c) = n BY <1>1, <1>4, FcnIsSeq
<1>7. QED BY <1>5, <1>6 DEF c, n

\* The first n elements.
LEMMA Prefix ==
    ASSUME NEW d, IsSeq(d), NEW n \in Nat, n <= Len(d)
    PROVE  /\ IsSeq(SubSeq(d, 1, n)) /\ Len(SubSeq(d, 1, n)) = n
           /\ \A i \in 1 .. n : SubSeq(d, 1, n)[i] = d[i]
<1> DEFINE m == 0
<1>1. m \in Nat /\ m <= n /\ m + 1 = 1 /\ n - m = n /\ \A i \in 1 .. n : m + i = i OBVIOUS
<1> HIDE DEF m
<1>2. /\ IsSeq(SubSeq(d, m + 1, n)) /\ Len(SubSeq(d, m + 1, n)) = n - m
      /\ \A i \in 1 .. n - m : SubSeq(d, m + 1, n)[i] = d[m + i]
  BY <1>1, Cut
<1>3. QED BY <1>1, <1>2

\* The parts of two sequences that were joined can be cut out again.
LEMMA Parts ==
    ASSUME NEW c, NEW t, IsSeq(c), IsSeq(t), Len(t) >= 1
    PROVE  /\ IsSeq(c \o t) /\ Len(c \o t) = Len(c) + Len(t)
           /\ SubSeq(c \o t, 1, Len(c)) = c
           /\ SubSeq(c \o t, Len(c) + 1, Len(c) + Len(t)) = t
           /\ (c \o t)[Len(c) + 1] = t[1]
<1> DEFINE w == c \o t
           n == Len(c)
           k == Len(c) + Len(t)
           u == SubSeq(w, 1, n)
           v == SubSeq(w, n + 1, k)
<1>1. /\ IsSeq(w) /\ Len(w) = k
      /\ \A i \in 1 .. n : w[i] = c[i]
      /\ \A i \in 1 .. Len(t) : w[n + i] = t[i]
  BY Joined
<1>2. n \in Nat /\ Len(t) \in Nat BY SeqLen
<1> HIDE DEF w
<1>3. k \in Nat /\ n <= k /\ k - n = Len(t) BY <1>2
<1> HIDE DEF n, k
<1>4. IsSeq(u) /\ Len(u) = n /\ \A i \in 1 .. n : u[i] = w[i] BY <1>1, <1>2, <1>3, Prefix
<1>5. IsSeq(v) /\ Len(v) = k - n /\ \A i \in 1 .. k - n : v[i] = w[n + i] BY <1>1, <1>2, <1>3, Cut
<1> HIDE DEF u, v
<1>6. u = c
  <2>1. Len(u) = Len(c) /\ \A i \in 1 .. Len(u) : u[i] = c[i] BY <1>1, <1>4 DEF n
  <2>2. QED BY <2>1, <1>4, SameSeq
<1>7. v = t
  <2>1. Len(v) = Len(t) /\ \A i \in 1 .. Len(v) : v[i] = t[i] BY <1>1, <1>3, <1>5
  <2>2. QED BY <2>1, <1>5, SameSeq
<1>8. w[n + 1] = t[1] BY <1>1, <1>2
<1>9. QED BY <1>1, <1>6, <1>7, <1>8 DEF w, n, k, u, v

\* An encryption is its blocks and its trailer.
LEMMA EncryptedShape ==
    ASSUME NEW alg \in BlockAlg, NEW key, NEW m, IsSeq(m)
    PROVE  LET d == Encrypted(alg, key, m)
               n == Len(m) + Fill(m)
           IN  /\ IsSeq(d) /\ Len(d) = n + CHECK_ENCRYPTED_SIZE
               /\ SubSeq(d, 1, n) = Cipher(alg, key, m)
               /\ SubSeq(d, n + 1, Len(d)) = Trailer(alg)
               /\ d[n + 1] = Trailer(alg)[1]
<1> DEFINE c == Cipher(alg, key, m)
           t == Trailer(alg)
           n == Len(m) + Fill(m)
<1>1. Encrypted(alg, key, m) = c \o t BY DEF Encrypted, Cipher
<1>2. IsSeq(c) /\ Len(c) = n BY CipherShape
<1>3. IsSeq(t) /\ Len(t) = 4 BY TrailerShape DEF CHECK_ENCRYPTED_SIZE
<1> HIDE DEF c, t, n
<1>4. Len(t) >= 1 BY <1>3
<1>5. /\ IsSeq(c \o t) /\ Len(c \o t) = Len(c) + Len(t)
      /\ SubSeq(c \o t, 1, Len(c)) = c
      /\ SubSeq(c \o t, Len(c) + 1, Len(c) + Len(t)) = t
      /\ (c \o t)[Len(c) + 1] = t[1]
  BY <1>2, <1>3, <1>4, Parts
<1>6. QED BY <1>1, <1>2, <1>3, <1>5 DEF c, t, n, CHECK_ENCRYPTED_SIZE

\* Where byte i of a ciphertext of q blocks stands.
LEMMA InBlock ==
    ASSUME NEW q \in Nat, NEW i \in 1 .. q * Block
    PROVE  LET first == ((i - 1) \div Block) * Block
           IN  /\ first \in Nat /\ first + Block <= q * Block
               /\ i - first \in 1 .. Block /\ first + (i - first) = i
               /\ i - first = ((i - 1) % Block) + 1
               /\ i - ((i - 1) % Block) = first + 1
               /\ first + 1 \in 1 .. q * Block
               /\ (((first + 1) - 1) \div Block) * Block = first
<1> DEFINE k == (i - 1) \div Block
           r == (i - 1) % Block
           a == k * Block
           e == q * Block
<1>1. Block \in Nat /\ Block > 0 BY Numbers
<1>2. e \in Nat /\ i \in 1 .. e BY <1>1
<1>3. i - 1 \in Nat BY <1>2
<1>4. k \in Nat /\ r \in 0 .. Block - 1 /\ i - 1 = k * Block + r BY <1>1, <1>3, Division
<1> HIDE DEF k, r
<1>5. a \in Nat /\ i - 1 = a + r BY <1>1, <1>4
<1>6. k < q
  <2> SUFFICES ASSUME q <= k PROVE FALSE BY <1>4
  <2>1. q * Block <= k * Block BY <1>1, <1>4, MulMono
  <2> HIDE DEF a, e
  <2>2. e <= a BY <2>1 DEF a, e
  <2>3. QED BY <1>2, <1>4, <1>5, <2>2
<1>7. a + Block <= e
  <2>1. k + 1 \in Nat /\ k + 1 <= q BY <1>4, <1>6
  <2>2. (k + 1) * Block <= q * Block BY <1>1, <2>1, MulMono
  <2>3. (k + 1) * Block = k * Block + Block BY <1>1, <1>4, MulStep
  <2>4. QED BY <2>2, <2>3
<1>8. (k * Block + 0) \div Block = k BY <1>1, <1>4, QuotientUnique
<1>9. (((a + 1) - 1) \div Block) * Block = a
  <2>1. (a + 1) - 1 = k * Block + 0 BY <1>5
  <2>2. QED BY <1>8, <2>1
<1> HIDE DEF a, e
<1>10. /\ i - a \in 1 .. Block /\ a + (i - a) = i /\ i - a = r + 1 /\ i - r = a + 1
       /\ a + 1 \in 1 .. e
  BY <1>1, <1>2, <1>4, <1>5, <1>7
<1>11. QED BY <1>5, <1>7, <1>9, <1>10 DEF a, e, k, r

\* A byte of a ciphertext names its algorithm, key, block and place in it; the byte at
\* that place of the block is the one that was encrypted.
LEMMA CipherBytes ==
    ASSUME NEW alg, NEW key, NEW m, IsSeq(m), NEW i \in 1 .. Len(m) + Fill(m)
    PROVE  LET c == Cipher(alg, key, m)
           IN  /\ c[i][1] = "c" /\ c[i][2] = alg /\ c[i][3] = key
               /\ c[i][5] = ((i - 1) % Block) + 1
               /\ i - ((i - 1) % Block) \in 1 .. Len(m) + Fill(m)
               /\ c[i][4] = c[i - ((i - 1) % Block)][4]
               /\ c[i][4][c[i][5]] = padded(m)[i]
<1> DEFINE c == Cipher(alg, key, m)
           p == padded(m)
           q == Len(m) \div Block + 1
           n == Len(m) + Fill(m)
           first == ((i - 1) \div Block) * Block
           h == first + 1
<1>1. n = q * Block /\ q \in Nat BY FillRange
<1>2. IsSeq(p) /\ Len(p) = n BY Padded
<1>3. Block \in Nat /\ Block > 0 BY Numbers
<1>4. i \in 1 .. q * Block BY <1>1
<1>5. /\ first \in Nat /\ first + Block <= n
      /\ i - first \in 1 .. Block /\ first + (i - first) = i
      /\ i - first = ((i - 1) % Block) + 1
      /\ i - ((i - 1) % Block) = h
      /\ h \in 1 .. n
      /\ ((h - 1) \div Block) * Block = first
  BY <1>1, <1>4, InBlock
<1>6. \A j \in 1 .. n : c[j] = cipherByte(alg, key, p, Block, j) BY CipherShape
<1> HIDE DEF c, p, n
<1>7. c[i] = <<"c", alg, key, SubSeq(p, first + 1, first + Block), i - first>>
  BY <1>6 DEF cipherByte, n
<1>8. c[h][4] = SubSeq(p, first + 1, first + Block)
  <2> HIDE DEF h, first
  <2> DEFINE g == ((h - 1) \div Block) * Block
             b == SubSeq(p, g + 1, g + Block)
  <2>1. c[h] = <<"c", alg, key, b, h - g>> BY <1>5, <1>6 DEF cipherByte
  <2>2. b = SubSeq(p, first + 1, first + Block) BY <1>5
  <2> HIDE DEF b, g
  <2>3. c[h][4] = b BY <2>1
  <2>4. QED BY <2>2, <2>3
<1> HIDE DEF first, h
<1>9. SubSeq(p, first + 1, first + Block)[i - first] = p[i]
  <2> DEFINE b == SubSeq(p, first + 1, first + Block)
  <2>1. first + Block \in Nat /\ first <= first + Block /\ (first + Block) - first = Block BY <1>3, <1>5
  <2>2. \A j \in 1 .. (first + Block) - first : b[j] = p[first + j] BY <1>2, <1>5, <2>1, Cut
  <2> HIDE DEF b
  <2>3. b[i - first] = p[first + (i - first)] BY <1>5, <2>1, <2>2
  <2>4. QED BY <1>5, <2>3 DEF b
<1>10. /\ c[i][1] = "c" /\ c[i][2] = alg /\ c[i][3] = key /\ c[i][5] = i - first
       /\ c[i][4] = SubSeq(p, first + 1, first + Block)
  <2> DEFINE b == SubSeq(p, first + 1, first + Block)
  <2>1. c[i] = <<"c", alg, key, b, i - first>> BY <1>7
  <2> HIDE DEF b
  <2>2. c[i][1] = "c" /\ c[i][2] = alg /\ c[i][3] = key /\ c[i][5] = i - first /\ c[i][4] = b BY <2>1
  <2>3. QED BY <2>2 DEF b
<1>11. QED BY <1>5, <1>8, <1>9, <1>10 DEF c, p, n

-----------------------------------------------------------------------------
(* What a check and a decryption make of encrypted data.                    *)

\* What SM2 encrypts keeps the message, and has no byte of a trailer.
LEMMA SealedSM2 ==
    ASSUME NEW key, NEW m, IsSeq(m)
    PROVE  LET d == Sealed("SM2", key, m)
           IN  /\ IsSeq(d) /\ Len(d) = Len(m) + SM2Extra
               /\ \A i \in 1 .. Len(d) : d[i][1] = "c"
               /\ d[1][4] = m
<1> DEFINE d == [i \in 1 .. Len(m) + SM2Extra |-> <<"c", "SM2", key, m, i>>]
<1>1. Len(m) \in Nat /\ Len(m) + SM2Extra \in Nat /\ 1 \in 1 .. Len(m) + SM2Extra BY SeqLen, Numbers
<1>2. Sealed("SM2", key, m) = d BY DEF Sealed
<1>3. d = [i \in 1 .. Len(m) + SM2Extra |-> d[i]] OBVIOUS
<1>4. IsSeq(d) /\ Len(d) = Len(m) + SM2Extra
  <2> HIDE DEF d
  <2>1. QED BY <1>1, <1>3, FcnIsSeq
<1>5. \A i \in 1 .. Len(m) + SM2Extra : d[i] = <<"c", "SM2", key, m, i>> OBVIOUS
<1> HIDE DEF d
<1>6. \A i \in 1 .. Len(m) + SM2Extra : d[i][1] = "c" BY <1>5
<1>7. d[1][4] = m BY <1>1, <1>5
<1>8. QED BY <1>2, <1>4, <1>6, <1>7

\* What a block cipher makes of a message.
LEMMA SealedBlocks ==
    ASSUME NEW alg \in BlockAlg, NEW key, NEW m
    PROVE  Sealed(alg, key, m) = Encrypted(alg, key, m)
  BY DEF Sealed, BlockAlg

\* The padded message has whole blocks, and at most one more than the message.
LEMMA MultipleOfBlock ==
    ASSUME NEW m, IsSeq(m)
    PROVE  /\ (Len(m) + Fill(m)) % Block = 0
           /\ Len(m) + Fill(m) \in Nat /\ Len(m) + Fill(m) > 0
           /\ Len(m) + Fill(m) <= Len(m) + Block
<1> DEFINE q == Len(m) \div Block + 1
<1>1. /\ Fill(m) \in 1 .. Block /\ Len(m) \in Nat /\ Len(m) + Fill(m) = q * Block /\ q \in Nat
  BY FillRange
<1>2. Block \in Nat /\ Block > 0 BY Numbers
<1> HIDE DEF q
<1>3. \A r \in 0 .. Block - 1 : (q * Block + r) % Block = r BY <1>1, <1>2, QuotientUnique
<1>4. (q * Block) % Block = 0
  <2>1. 0 \in 0 .. Block - 1 /\ q * Block + 0 = q * Block BY <1>1, <1>2
  <2>2. QED BY <1>3, <2>1
<1>5. QED BY <1>1, <1>2, <1>4

\* CheckEncrypted accepts what its algorithm has encrypted.
LEMMA ChecksOwn ==
    ASSUME NEW alg \in BlockAlg, NEW key, NEW m, IsSeq(m)
    PROVE  CheckEncrypted(alg, Encrypted(alg, key, m))
<1> DEFINE d == Encrypted(alg, key, m)
           n == Len(m) + Fill(m)
<1>1. Len(d) = n + 4 /\ SubSeq(d, n + 1, Len(d)) = Trailer(alg) BY EncryptedShape DEF CHECK_ENCRYPTED_SIZE
<1>2. n % Block = 0 /\ n \in Nat /\ n > 0 BY MultipleOfBlock
<1> HIDE DEF d, n
<1>3. Len(d) - 4 = n BY <1>1, <1>2
<1>4. CheckEncrypted(alg, d) BY <1>1, <1>2, <1>3 DEF CheckEncrypted, CHECK_ENCRYPTED_SIZE
<1>5. QED BY <1>4 DEF d

\* The blocks decrypt to the padded message.
LEMMA OpensOwn ==
    ASSUME NEW alg \in BlockAlg, NEW key, NEW m, IsSeq(m)
    PROVE  Decrypted(alg, key, Encrypted(alg, key, m)) = {padded(m)}
<1> DEFINE d == Encrypted(alg, key, m)
           n == Len(m) + Fill(m)
           c == Cipher(alg, key, m)
           out == [i \in 1 .. n |-> c[i][4][c[i][5]]]
<1>1. Len(d) = n + 4 /\ SubSeq(d, 1, n) = c BY EncryptedShape DEF CHECK_ENCRYPTED_SIZE
<1>2. n \in Nat /\ n > 0 BY MultipleOfBlock
<1>3. IsSeq(c) /\ Len(c) = n BY CipherShape
<1>4. \A i \in 1 .. n :
        /\ c[i][1] = "c" /\ c[i][2] = alg /\ c[i][3] = key
        /\ c[i][5] = ((i - 1) % Block) + 1
        /\ c[i][4] = c[i - ((i - 1) % Block)][4]
        /\ c[i][4][c[i][5]] = padded(m)[i]
  BY CipherBytes
<1> HIDE DEF d, n, c
<1>5. DOMAIN c = 1 .. n /\ c # << >> BY <1>2, <1>3, SeqLen
<1>6. genuine(alg, key, c, Block) BY <1>4, <1>5 DEF genuine
<1>7. Len(d) - 4 = n BY <1>1, <1>2
<1>8. Decrypted(alg, key, d) = {out}
  <2>1. Decrypted(alg, key, d) =
          LET k == Len(d) - 4
              b == SubSeq(d, 1, k)
          IN  IF genuine(alg, key, b, Block)
              THEN {[i \in 1 .. k |-> b[i][4][b[i][5]]]}
              ELSE {[i \in 1 .. k |-> IF i < k THEN B(0) ELSE B(last)] : last \in 0 .. Block + 1}
    BY DEF Decrypted, CHECK_ENCRYPTED_SIZE
  <2>2. QED BY <1>1, <1>6, <1>7, <2>1
<1>9. out = padded(m)
  <2>1. IsSeq(padded(m)) /\ Len(padded(m)) = n BY Padded DEF n
  <2>2. padded(m) = [i \in 1 .. n |-> padded(m)[i]] BY <2>1, SeqLen
  <2>3. out = [i \in 1 .. n |-> padded(m)[i]] BY <1>4
  <2>4. QED BY <2>2, <2>3
<1>10. QED BY <1>8, <1>9 DEF d

\* CheckEncrypted refuses what another block cipher has encrypted,
LEMMA RefusesOther ==
    ASSUME NEW alg \in BlockAlg, NEW other \in BlockAlg, other # alg, NEW key, NEW m, IsSeq(m)
    PROVE  ~ CheckEncrypted(other, Encrypted(alg, key, m))
<1> DEFINE d == Encrypted(alg, key, m)
           n == Len(m) + Fill(m)
<1>1. Len(d) = n + 4 /\ SubSeq(d, n + 1, Len(d)) = Trailer(alg) BY EncryptedShape DEF CHECK_ENCRYPTED_SIZE
<1>2. n \in Nat BY MultipleOfBlock
<1> HIDE DEF d, n
<1>3. Len(d) - 4 = n BY <1>1, <1>2
<1>4. Trailer(alg) # Trailer(other)
  <2>1. Trailer(alg)[1] = IF alg = "AES" THEN B(1) ELSE IF alg = "SM4" THEN B(2) ELSE B(240)
    BY TrailerShape
  <2>2. Trailer(other)[1] = IF other = "AES" THEN B(1) ELSE IF other = "SM4" THEN B(2) ELSE B(240)
    BY TrailerShape
  <2>3. B(1) # B(2) /\ B(1) # B(240) /\ B(2) # B(240) BY DEF B
  <2>4. QED BY <2>1, <2>2, <2>3 DEF BlockAlg
<1>5. ~ CheckEncrypted(other, d) BY <1>1, <1>3, <1>4 DEF CheckEncrypted, CHECK_ENCRYPTED_SIZE
<1>6. QED BY <1>5 DEF d

\* and what SM2 has encrypted.
LEMMA RefusesSM2 ==
    ASSUME NEW alg \in BlockAlg, NEW key, NEW m, IsSeq(m)
    PROVE  ~ CheckEncrypted(alg, Sealed("SM2", key, m))
<1> DEFINE d == Sealed("SM2", key, m)
           n == Len(d) - 4
           t == SubSeq(d, n + 1, Len(d))
<1> SUFFICES ASSUME CheckEncrypted(alg, d) PROVE FALSE OBVIOUS
<1>1. n > 0 /\ t = Trailer(alg) BY DEF CheckEncrypted, CHECK_ENCRYPTED_SIZE
<1>2. IsSeq(d) /\ Len(d) \in Nat /\ \A i \in 1 .. Len(d) : d[i][1] = "c" BY SealedSM2, SeqLen
<1> HIDE DEF d
<1>3. n \in Nat /\ n <= Len(d) /\ Len(d) - n = 4 BY <1>1, <1>2
<1> HIDE DEF n
<1>4. \A i \in 1 .. Len(d) - n : t[i] = d[n + i] BY <1>2, <1>3, Cut
<1> HIDE DEF t
<1>5. 1 \in 1 .. Len(d) - n /\ n + 1 \in 1 .. Len(d) BY <1>2, <1>3
<1>6. t[1] = d[n + 1] BY <1>4, <1>5
<1>7. t[1][1] = "c" BY <1>2, <1>5, <1>6
<1>8. Trailer(alg)[1] \in {B(1), B(2), B(240)} BY TrailerShape
<1>9. B(1)[1] = "b" /\ B(2)[1] = "b" /\ B(240)[1] = "b" BY DEF B
<1>10. QED BY <1>1, <1>7, <1>8, <1>9

\* With another key the blocks are not genuine.
LEMMA WrongKey ==
    ASSUME NEW alg \in BlockAlg, NEW key, NEW other, other # key, NEW m, IsSeq(m)
    PROVE  LET d == Encrypted(alg, key, m)
           IN  ~ genuine(alg, other, SubSeq(d, 1, Len(d) - CHECK_ENCRYPTED_SIZE), Block)
<1> DEFINE d == Encrypted(alg, key, m)
           n == Len(m) + Fill(m)
           c == Cipher(alg, key, m)
<1>1. Len(d) = n + 4 /\ SubSeq(d, 1, n) = c BY EncryptedShape DEF CHECK_ENCRYPTED_SIZE
<1>2. n \in Nat /\ n > 0 BY MultipleOfBlock
<1>3. IsSeq(c) /\ Len(c) = n BY CipherShape
<1>4. \A i \in 1 .. n : c[i][3] = key BY CipherBytes
<1> HIDE DEF d, n, c
<1>5. DOMAIN c = 1 .. n /\ 1 \in 1 .. n /\ Len(d) - 4 = n BY <1>1, <1>2, <1>3, SeqLen
<1>6. ~ genuine(alg, other, c, Block) BY <1>4, <1>5 DEF genuine
<1>7. SubSeq(d, 1, Len(d) - 4) = c BY <1>1, <1>5
<1>8. QED BY <1>6, <1>7 DEF d, CHECK_ENCRYPTED_SIZE

\* Plain bytes are not the encryption of anything.
LEMMA PlainIsNotGenuine ==
    ASSUME NEW alg, NEW key, NEW d, Plain(d), NEW n \in Nat, n <= Len(d)
    PROVE  ~ genuine(alg, key, SubSeq(d, 1, n), Block)
<1> DEFINE c == SubSeq(d, 1, n)
<1>1. IsSeq(c) /\ Len(c) = n /\ \A i \in 1 .. n : c[i] = d[i] BY Prefix DEF Plain
<1> HIDE DEF c
<1>2. DOMAIN c = 1 .. n /\ (n = 0 => c = << >>)
  <2>1. DOMAIN c = 1 .. n BY <1>1, SeqLen
  <2>2. ASSUME n = 0 PROVE c = << >>
    <3>1. PICK S : c \in Seq(S) BY <1>1 DEF IsSeq
    <3>2. QED BY <1>1, <2>2, <3>1
  <2>3. QED BY <2>1, <2>2
<1>3. Len(d) \in Nat /\ \A i \in 1 .. Len(d) : d[i][1] = "b" BY SeqLen DEF Plain
<1>4. ASSUME genuine(alg, key, c, Block) PROVE FALSE
  <2>1. n > 0 BY <1>2, <1>4 DEF genuine
  <2>2. 1 \in 1 .. n /\ 1 \in 1 .. Len(d) BY <1>3, <2>1
  <2>3. c[1][1] = "c" BY <1>2, <1>4, <2>2 DEF genuine
  <2>4. c[1][1] = "b" BY <1>1, <1>3, <2>2
  <2>5. QED BY <2>3, <2>4
<1>5. QED BY <1>4 DEF c

-----------------------------------------------------------------------------
(* The calls.                                                               *)

\* DecryptAES and DecryptSM4 take the last layer off, if it is theirs.
LEMMA DecryptOwn ==
    ASSUME NEW alg \in BlockAlg, NEW key, NEW m, IsSeq(m), data = Encrypted(alg, key, m),
           Len(data) < SizeT, intact(alg, key), Decrypt(alg, key)
    PROVE  data' = m /\ layers' = Tail(layers) /\ call' = Called("decrypt", alg, 0, Len(m))
<1> DEFINE p == padded(m)
           f == Fill(m)
<1>1. CheckEncrypted(alg, data) BY ChecksOwn
<1>2. Decrypted(alg, key, data) = {p} BY OpensOwn
<1>3. Len(m) \in Nat /\ f \in Nat /\ f <= Block /\ f >= 1 BY FillRange, Numbers
<1>4. IsSeq(p) /\ Len(p) = Len(m) + f /\ p[Len(p)] = B(f) /\ \A i \in 1 .. Len(m) : p[i] = m[i] BY Padded
<1>5. Len(data) = Len(m) + f + 4 BY EncryptedShape DEF CHECK_ENCRYPTED_SIZE
<1> HIDE DEF p, f
<1>6. p[Len(p)][1] = "b" /\ p[Len(p)][2] = f BY <1>4 DEF B
<1>7. (Len(p) - f) % SizeT = Len(m)
  <2>1. SizeT \in Nat /\ SizeT > 0 BY Numbers
  <2>2. Len(m) \in 0 .. SizeT - 1 BY <1>3, <1>5, <2>1
  <2>3. Len(p) - f = Len(m) BY <1>3, <1>4
  <2>4. QED BY <2>1, <2>2, <2>3, InRange
<1>8. ~ badDelete(f) BY <1>3, Numbers DEF badDelete
<1>9. SelectPrefix(p, Len(m)) = m
  <2> DEFINE u == SubSeq(p, 1, Len(m))
  <2>1. Len(m) <= Len(p) BY <1>3, <1>4
  <2>2. IsSeq(u) /\ Len(u) = Len(m) /\ \A i \in 1 .. Len(m) : u[i] = p[i] BY <1>3, <1>4, <2>1, Prefix
  <2> HIDE DEF u
  <2>3. \A i \in 1 .. Len(u) : u[i] = m[i] BY <1>4, <2>2
  <2>4. u = m BY <2>2, <2>3, SameSeq
  <2>5. QED BY <2>1, <2>4 DEF SelectPrefix, u
<1>10. LET del == IF p[Len(p)][1] = "b" THEN p[Len(p)][2] ELSE Block + 1
           length == (Len(p) - del) % SizeT
       IN  IF badDelete(del)
           THEN call' = Called("decrypt", alg, -1, Len(p)) /\ UNCHANGED <<data, layers>>
           ELSE /\ call' = Called("decrypt", alg, 0, length)
                /\ data' = SelectPrefix(p, length)
                /\ layers' = IF intact(alg, key) THEN Tail(layers) ELSE << >>
  BY <1>1, <1>2 DEF Decrypt
<1>11. QED BY <1>6, <1>7, <1>8, <1>9, <1>10

\* Other data is refused, or yields plain bytes, fewer than were given.
LEMMA DecryptForeign ==
    ASSUME NEW alg \in BlockAlg, NEW key, IsSeq(data), Len(data) < SizeT, Decrypt(alg, key),
           ~ intact(alg, key),
           CheckEncrypted(alg, data) =>
             ~ genuine(alg, key, SubSeq(data, 1, Len(data) - CHECK_ENCRYPTED_SIZE), Block)
    PROVE  \/ /\ UNCHANGED <<data, layers>>
              /\ \E k \in Nat : k <= Len(data) /\ call' = Called("decrypt", alg, -1, k)
           \/ /\ Plain(data') /\ Len(data') <= Len(data) /\ layers' = << >>
              /\ \E k \in Nat : k <= Len(data) /\ call' = Called("decrypt", alg, 0, k)
<1>1. Len(data) \in Nat BY SeqLen
<1>2. Block \in Nat /\ Block > 0 /\ SizeT \in Nat /\ SizeT > 0 BY Numbers
<1>3. CASE ~ CheckEncrypted(alg, data)
  <2>1. UNCHANGED <<data, layers>> /\ call' = Called("decrypt", alg, -1, 0) BY <1>3 DEF Decrypt
  <2>2. 0 \in Nat /\ 0 <= Len(data) BY <1>1
  <2>3. QED BY <2>1, <2>2
<1>4. CASE CheckEncrypted(alg, data)
  <2> DEFINE n == Len(data) - 4
             garbage(last) == [i \in 1 .. n |-> IF i < n THEN B(0) ELSE B(last)]
  <2>1. n > 0 /\ n % Block = 0 BY <1>4 DEF CheckEncrypted, CHECK_ENCRYPTED_SIZE
  <2>2. n \in Nat /\ n <= Len(data) /\ n >= Block
    <3>1. n \in Nat /\ n <= Len(data) BY <1>1, <2>1
    <3> HIDE DEF n
    <3>2. n = (n \div Block) * Block + (n % Block) /\ n \div Block \in Nat BY <1>2, <3>1, Division
    <3>3. n \div Block # 0 BY <1>2, <2>1, <3>1, <3>2
    <3>4. 1 <= n \div Block BY <3>2, <3>3
    <3>5. 1 * Block <= (n \div Block) * Block BY <1>2, <3>2, <3>4, MulMono
    <3>6. QED BY <1>2, <2>1, <3>1, <3>2, <3>5
  <2>3. Decrypted(alg, key, data) = {garbage(last) : last \in 0 .. Block + 1}
    BY <1>4 DEF Decrypted, CHECK_ENCRYPTED_SIZE
  <2> DEFINE del(out) == IF out[Len(out)][1] = "b" THEN out[Len(out)][2] ELSE Block + 1
             length(out) == (Len(out) - del(out)) % SizeT
  <2>4. PICK out \in Decrypted(alg, key, data) :
          IF badDelete(del(out))
          THEN call' = Called("decrypt", alg, -1, Len(out)) /\ UNCHANGED <<data, layers>>
          ELSE /\ call' = Called("decrypt", alg, 0, length(out))
               /\ data' = SelectPrefix(out, length(out))
               /\ layers' = IF intact(alg, key) THEN Tail(layers) ELSE << >>
    BY <1>4 DEF Decrypt
  <2>5. PICK last \in 0 .. Block + 1 : out = garbage(last) BY <2>3, <2>4
  <2> HIDE DEF n
  <2>6. out = [i \in 1 .. n |-> out[i]] BY <2>5
  <2>7. IsSeq(out) /\ Len(out) = n BY <2>2, <2>6, FcnIsSeq
  <2>8. n \in 1 .. n /\ ~ (n < n) BY <2>1, <2>2
  <2>9. out[n] = B(last) BY <2>5, <2>8
  <2>10. \A i \in 1 .. n : out[i][1] = "b" BY <2>5 DEF B
  <2>11. del(out) = last BY <2>7, <2>9 DEF B
  <2> HIDE DEF del
  <2>12. CASE badDelete(last)
    <3>1. UNCHANGED <<data, layers>> /\ call' = Called("decrypt", alg, -1, n) BY <2>4, <2>7, <2>11, <2>12
    <3>2. QED BY <2>2, <3>1
  <2>13. CASE ~ badDelete(last)
    <3>1. last \in 0 .. Block BY <1>2, <2>13 DEF badDelete
    <3> DEFINE k == n - last
               u == SubSeq(out, 1, k)
    <3>2. k \in Nat /\ k <= n /\ k \in 0 .. SizeT - 1 BY <1>1, <1>2, <2>2, <3>1
    <3>3. length(out) = k BY <1>2, <2>7, <2>11, <3>2, InRange
    <3> HIDE DEF length, k
    <3>4. call' = Called("decrypt", alg, 0, k) /\ layers' = << >> /\ data' = u
      BY <2>4, <2>7, <2>11, <2>13, <3>2, <3>3 DEF SelectPrefix
    <3>5. IsSeq(u) /\ Len(u) = k /\ \A i \in 1 .. k : u[i] = out[i] BY <2>7, <3>2, Prefix
    <3> HIDE DEF u
    <3>6. \A i \in 1 .. k : u[i][1] = "b" BY <2>2, <2>10, <3>2, <3>5
    <3>7. Plain(u) BY <3>5, <3>6 DEF Plain
    <3>8. Len(u) <= Len(data) /\ k <= Len(data) BY <1>1, <2>2, <3>2, <3>5
    <3>9. QED BY <3>2, <3>4, <3>7, <3>8
  <2>14. QED BY <2>12, <2>13
<1>5. QED BY <1>3, <1>4

-----------------------------------------------------------------------------
(* Layers.                                                                  *)

\* The length of an encryption.
LEMMA SealedIsSeq ==
    ASSUME NEW alg \in Algorithm, NEW key, NEW m, IsSeq(m)
    PROVE  /\ IsSeq(Sealed(alg, key, m)) /\ Len(m) \in Nat /\ Len(m) <= Len(Sealed(alg, key, m))
           /\ alg = "SM2" => Len(Sealed(alg, key, m)) = Len(m) + SM2Extra
           /\ alg # "SM2" => Len(Sealed(alg, key, m)) <= Len(m) + Block + 4
<1>1. Len(m) \in Nat /\ SM2Extra \in Nat /\ Block \in Nat BY SeqLen, Numbers
<1>2. CASE alg = "SM2"
  <2>1. IsSeq(Sealed("SM2", key, m)) /\ Len(Sealed("SM2", key, m)) = Len(m) + SM2Extra BY SealedSM2
  <2>2. QED BY <1>1, <1>2, <2>1
<1>3. CASE alg # "SM2"
  <2>1. alg \in BlockAlg BY <1>3 DEF Algorithm, BlockAlg
  <2>2. Sealed(alg, key, m) = Encrypted(alg, key, m) BY <2>1, SealedBlocks
  <2>3. IsSeq(Encrypted(alg, key, m)) /\ Len(Encrypted(alg, key, m)) = Len(m) + Fill(m) + 4
    BY <2>1, EncryptedShape DEF CHECK_ENCRYPTED_SIZE
  <2>4. Fill(m) \in 1 .. Block BY FillRange
  <2>5. QED BY <1>1, <1>3, <2>2, <2>3, <2>4
<1>4. QED BY <1>2, <1>3

\* Plain bytes have no layers.
LEMMA Unlayered ==
    ASSUME NEW d, Plain(d)
    PROVE  Layered(d, << >>)
<1>1. << >> \in Seq({}) /\ Len(<< >>) = 0 OBVIOUS
<1>2. IsSeq(<< >>) BY <1>1 DEF IsSeq
<1>3. \A i \in 0 .. 0 : Text(d, << >>, i) = d BY DEF Text
<1>4. QED BY <1>1, <1>2, <1>3 DEF Layered, Plain

\* An encryption puts a layer on the data.
LEMMA AddLayer ==
    ASSUME NEW d, NEW l, Layered(d, l), NEW alg \in Algorithm, NEW key
    PROVE  Layered(Sealed(alg, key, d), <<[alg |-> alg, key |-> key, plain |-> d]>> \o l)
<1> DEFINE x == [alg |-> alg, key |-> key, plain |-> d]
           f == <<x>>
           g == f \o l
           s == Sealed(alg, key, d)
<1>1. f = [i \in 1 .. 1 |-> f[i]] /\ f[1] = x OBVIOUS
<1>2. x.alg = alg /\ x.key = key /\ x.plain = d OBVIOUS
<1> HIDE DEF x, f
<1>3. IsSeq(f) /\ Len(f) = 1 BY <1>1, FcnIsSeq
<1>4. IsSeq(l) /\ Len(l) \in Nat BY SeqLen DEF Layered
<1>5. /\ IsSeq(g) /\ Len(g) = Len(f) + Len(l)
      /\ \A i \in 1 .. Len(f) : g[i] = f[i]
      /\ \A i \in 1 .. Len(l) : g[Len(f) + i] = l[i]
  <2>1. IsSeq(f) /\ IsSeq(l) BY <1>3, <1>4
  <2>2. QED BY <2>1, Joined
<1> HIDE DEF g
<1>6. g[1] = x /\ Len(g) = 1 + Len(l) /\ \A i \in 1 .. Len(l) : g[1 + i] = l[i] BY <1>1, <1>3, <1>5
<1>7. IsSeq(Text(d, l, 0)) /\ Text(d, l, 0) = d BY <1>4 DEF Layered, Text
<1>8. IsSeq(s) BY <1>7, SealedIsSeq
<1> HIDE DEF s
<1>9. ASSUME NEW i \in 0 .. Len(l) PROVE Text(s, g, i + 1) = Text(d, l, i)
  <2>1. CASE i = 0 BY <2>1, <1>2, <1>6 DEF Text
  <2>2. CASE i # 0
    <3>1. i \in 1 .. Len(l) /\ i + 1 # 0 /\ i + 1 = 1 + i BY <2>2, <1>4
    <3>2. g[i + 1] = l[i] BY <1>6, <3>1
    <3>3. QED BY <2>2, <3>1, <3>2 DEF Text
  <2>3. QED BY <2>1, <2>2
<1>10. ASSUME NEW i \in 0 .. Len(g) PROVE IsSeq(Text(s, g, i))
  <2>1. CASE i = 0 BY <2>1, <1>8 DEF Text
  <2>2. CASE i # 0
    <3>1. i - 1 \in 0 .. Len(l) /\ (i - 1) + 1 = i BY <2>2, <1>4, <1>6
    <3>2. Text(s, g, (i - 1) + 1) = Text(d, l, i - 1) BY <1>9, <3>1
    <3>3. QED BY <3>1, <3>2 DEF Layered
  <2>3. QED BY <2>1, <2>2
<1>11. ASSUME NEW i \in 1 .. Len(g)
       PROVE  g[i].alg \in Algorithm /\ Text(s, g, i - 1) = Sealed(g[i].alg, g[i].key, Text(s, g, i))
  <2>1. CASE i = 1
    <3>1. Text(s, g, 1) = d BY <1>2, <1>6 DEF Text
    <3>2. Text(s, g, 0) = s BY DEF Text
    <3>3. i - 1 = 0 BY <2>1
    <3>4. QED BY <1>2, <1>6, <2>1, <3>1, <3>2, <3>3 DEF s
  <2>2. CASE i # 1
    <3> DEFINE j == i - 1
    <3>1. j \in 1 .. Len(l) /\ j \in 0 .. Len(l) /\ j - 1 \in 0 .. Len(l) /\ 1 + j = i /\ j + 1 = i /\ (j - 1) + 1 = j
      BY <2>2, <1>4, <1>6
    <3>2. i - 1 = j OBVIOUS
    <3> HIDE DEF j
    <3>3. g[i] = l[j] BY <1>6, <3>1
    <3>4. Text(s, g, i) = Text(d, l, j) BY <1>9, <3>1
    <3>5. Text(s, g, j) = Text(d, l, j - 1)
      <4>1. Text(s, g, (j - 1) + 1) = Text(d, l, j - 1) BY <1>9, <3>1
      <4>2. QED BY <4>1, <3>1
    <3>6. l[j].alg \in Algorithm /\ Text(d, l, j - 1) = Sealed(l[j].alg, l[j].key, Text(d, l, j))
      BY <3>1 DEF Layered
    <3>7. QED BY <3>2, <3>3, <3>4, <3>5, <3>6
  <2>3. QED BY <2>1, <2>2
<1>12. Text(s, g, Len(g)) = Text(d, l, Len(l))
  <2>1. Len(l) \in 0 .. Len(l) /\ Len(g) = Len(l) + 1 BY <1>4, <1>6
  <2>2. QED BY <1>9, <2>1
<1>13. Plain(Text(s, g, Len(g))) BY <1>12 DEF Layered
<1>14. Layered(s, g) BY <1>5, <1>10, <1>11, <1>13 DEF Layered
<1>15. QED BY <1>14 DEF s, g, f, x

\* Under the last layer are the data it was put on, with the other layers.
LEMMA DropLayer ==
    ASSUME NEW d, NEW l, Layered(d, l), l # << >>
    PROVE  /\ Layered(l[1].plain, Tail(l))
           /\ IsSeq(l[1].plain) /\ l[1].alg \in Algorithm /\ d = Sealed(l[1].alg, l[1].key, l[1].plain)
           /\ Len(l[1].plain) <= Len(d)
<1> DEFINE p == l[1].plain
           t == Tail(l)
<1>1. PICK S : l \in Seq(S) BY DEF Layered, IsSeq
<1>2. Len(l) \in Nat /\ Len(l) > 0 BY <1>1
<1>3. t \in Seq(S) /\ Len(t) = Len(l) - 1 /\ \A i \in 1 .. Len(l) - 1 : t[i] = l[i + 1] BY <1>1, <1>2
<1>4. IsSeq(t) BY <1>3 DEF IsSeq
<1>5. Text(d, l, 1) = p /\ Text(d, l, 0) = d BY DEF Text
<1>6. IsSeq(p) /\ l[1].alg \in Algorithm /\ d = Sealed(l[1].alg, l[1].key, p)
  <2>1. 1 \in 0 .. Len(l) /\ 1 \in 1 .. Len(l) BY <1>2
  <2>2. IsSeq(Text(d, l, 1)) BY <2>1 DEF Layered
  <2>3. l[1].alg \in Algorithm /\ Text(d, l, 1 - 1) = Sealed(l[1].alg, l[1].key, Text(d, l, 1))
    BY <2>1 DEF Layered
  <2>4. 1 - 1 = 0 OBVIOUS
  <2>5. QED BY <2>2, <2>3, <2>4, <1>5
<1>7. Len(p) <= Len(d) BY <1>6, SealedIsSeq
<1> HIDE DEF p, t
<1>8. ASSUME NEW i \in 0 .. Len(t) PROVE Text(p, t, i) = Text(d, l, i + 1)
  <2>1. CASE i = 0 BY <2>1, <1>5 DEF Text
  <2>2. CASE i # 0
    <3>1. i \in 1 .. Len(l) - 1 /\ i + 1 # 0 BY <2>2, <1>2, <1>3
    <3>2. t[i] = l[i + 1] BY <1>3, <3>1
    <3>3. QED BY <2>2, <3>1, <3>2 DEF Text
  <2>3. QED BY <2>1, <2>2
<1>9. ASSUME NEW i \in 0 .. Len(t) PROVE IsSeq(Text(p, t, i))
  <2>1. i + 1 \in 0 .. Len(l) BY <1>2, <1>3
  <2>2. QED BY <1>8, <2>1 DEF Layered
<1>10. ASSUME NEW i \in 1 .. Len(t)
       PROVE  t[i].alg \in Algorithm /\ Text(p, t, i - 1) = Sealed(t[i].alg, t[i].key, Text(p, t, i))
  <2> DEFINE j == i + 1
  <2>1. j \in 1 .. Len(l) /\ i \in 0 .. Len(t) /\ i - 1 \in 0 .. Len(t) /\ (i - 1) + 1 = i /\ j - 1 = i
        /\ i \in 1 .. Len(l) - 1
    BY <1>2, <1>3
  <2>2. t[i] = l[j] BY <1>3, <2>1
  <2>3. Text(p, t, i) = Text(d, l, j) BY <1>8, <2>1
  <2>4. Text(p, t, i - 1) = Text(d, l, i)
    <3>1. Text(p, t, i - 1) = Text(d, l, (i - 1) + 1) BY <1>8, <2>1
    <3>2. QED BY <2>1, <3>1
  <2> HIDE DEF j
  <2>5. l[j].alg \in Algorithm /\ Text(d, l, j - 1) = Sealed(l[j].alg, l[j].key, Text(d, l, j))
    BY <2>1 DEF Layered
  <2>6. QED BY <2>1, <2>2, <2>3, <2>4, <2>5
<1>11. Plain(Text(p, t, Len(t)))
  <2>1. Len(t) \in 0 .. Len(t) /\ Len(t) + 1 = Len(l) BY <1>2, <1>3
  <2>2. Text(p, t, Len(t)) = Text(d, l, Len(l)) BY <1>8, <2>1
  <2>3. QED BY <2>2 DEF Layered
<1>12. Layered(p, t) BY <1>4, <1>9, <1>10, <1>11 DEF Layered
<1>13. QED BY <1>6, <1>7, <1>12 DEF p, t

-----------------------------------------------------------------------------
(* The inductive invariant.                                                 *)

\* size_t can count the data.
LEMMA DataLength ==
    ASSUME IInv
    PROVE  IsSeq(data) /\ Len(data) \in Nat /\ Len(data) < SizeT
<1>1. IsSeq(Text(data, layers, 0)) /\ Text(data, layers, 0) = data
  <2>1. Len(layers) \in Nat BY SeqLen DEF IInv, Layered
  <2>2. 0 \in 0 .. Len(layers) BY <2>1
  <2>3. QED BY <2>2 DEF IInv, Layered, Text
<1>2. Len(data) \in Nat BY <1>1, SeqLen
<1>3. Growth \in Nat /\ MaxLayer \in Nat /\ MaxLen \in Nat /\ SizeT \in Nat BY Numbers DEF Growth
<1>4. made \in Nat /\ made <= MaxLayer /\ Len(data) <= MaxLen + made * Growth BY <1>3 DEF IInv, SizeInv
<1>5. made * Growth <= MaxLayer * Growth BY <1>3, <1>4, MulMono
<1>6. MaxLen + MaxLayer * Growth < SizeT BY SizeAssumption DEF Growth
<1>7. made * Growth \in Nat /\ MaxLayer * Growth \in Nat BY <1>3, <1>4
<1> DEFINE a == made * Growth
           b == MaxLayer * Growth
<1>8. /\ a \in Nat /\ b \in Nat /\ a <= b /\ MaxLen + b < SizeT /\ Len(data) <= MaxLen + a
  BY <1>4, <1>5, <1>6, <1>7
<1> HIDE DEF a, b
<1>9. Len(data) < SizeT BY <1>2, <1>3, <1>8
<1>10. QED BY <1>1, <1>2, <1>9

\* A message has no layers and no call was made.
LEMMA InitInv == Init => IInv
<1> SUFFICES ASSUME Init PROVE IInv OBVIOUS
<1>1. PICK n \in 0 .. MaxLen : data \in [1 .. n -> {B(x) : x \in PlainByte}] BY DEF Init, Message
<1>2. n \in Nat /\ n <= MaxLen /\ MaxLen \in Nat /\ MaxLayer \in Nat BY <1>1, Numbers
<1>3. data = [i \in 1 .. n |-> data[i]] BY <1>1
<1>4. IsSeq(data) /\ Len(data) = n BY <1>2, <1>3, FcnIsSeq
<1>5. ASSUME NEW i \in 1 .. n PROVE data[i][1] = "b"
  <2>1. PICK x \in PlainByte : data[i] = B(x) BY <1>1
  <2>2. QED BY <2>1 DEF B
<1>6. Plain(data) BY <1>4, <1>5 DEF Plain
<1>7. Layered(data, layers) BY <1>6, Unlayered DEF Init
<1>8. SizeInv
  <2>1. Growth \in Nat BY Numbers DEF Growth
  <2>2. made = 0 /\ made * Growth = 0 BY <2>1 DEF Init
  <2>3. QED BY <1>2, <1>4, <2>2 DEF SizeInv
<1>9. LengthsBounded BY DEF Init, NoCall, LengthsBounded
<1>10. QED BY <1>7, <1>8, <1>9 DEF IInv

\* An encryption adds a layer and leaves room.
LEMMA Grows ==
    ASSUME IInv, NEW alg \in Algorithm, NEW key, made < MaxLayer, made' = made + 1,
           data' = Sealed(alg, key, data)
    PROVE  SizeInv' /\ Len(data') \in Nat /\ (alg # "SM2" => Len(data') <= Len(data) + Block + 4)
<1>1. IsSeq(data) /\ Len(data) \in Nat BY DataLength
<1>2. /\ IsSeq(data')
      /\ alg = "SM2" => Len(data') = Len(data) + SM2Extra
      /\ alg # "SM2" => Len(data') <= Len(data) + Block + 4
  BY <1>1, SealedIsSeq
<1>3. Len(data') \in Nat BY <1>2, SeqLen
<1>4. Block \in Nat /\ SM2Extra \in Nat /\ MaxLen \in Nat /\ MaxLayer \in Nat BY Numbers
<1>5. Len(data') <= Len(data) + Growth BY <1>1, <1>2, <1>3, <1>4 DEF Growth
<1>6. Growth \in Nat BY <1>4 DEF Growth
<1>7. made \in Nat /\ made <= MaxLayer /\ Len(data) <= MaxLen + made * Growth BY <1>4 DEF IInv, SizeInv
<1>8. (made + 1) * Growth = made * Growth + Growth /\ made * Growth \in Int BY <1>6, <1>7, MulStep
<1> DEFINE a == made * Growth
<1>9. a \in Int /\ Len(data) <= MaxLen + a /\ (made + 1) * Growth = a + Growth BY <1>7, <1>8
<1> HIDE DEF a
<1>10. Len(data') <= MaxLen + (made + 1) * Growth BY <1>1, <1>3, <1>4, <1>5, <1>6, <1>9
<1>11. made' \in 0 .. MaxLayer BY <1>4, <1>7
<1>12. SizeInv' BY <1>10, <1>11 DEF SizeInv, Growth
<1>13. QED BY <1>2, <1>3, <1>12

\* A decryption never makes the data longer.
LEMMA Shrinks ==
    ASSUME IInv, made' = made, Len(data') \in Nat, Len(data') <= Len(data)
    PROVE  SizeInv'
<1>1. Len(data) \in Nat BY DataLength
<1>2. Growth \in Nat /\ MaxLen \in Nat BY Numbers DEF Growth
<1>3. made \in Nat /\ made \in 0 .. MaxLayer /\ Len(data) <= MaxLen + made * Growth BY Numbers DEF IInv, SizeInv
<1>4. made * Growth \in Nat BY <1>2, <1>3
<1> DEFINE a == made * Growth
<1>5. a \in Nat /\ Len(data) <= MaxLen + a BY <1>3, <1>4
<1> HIDE DEF a
<1>6. Len(data') <= MaxLen + a BY <1>1, <1>2, <1>5
<1>7. QED BY <1>3, <1>6 DEF SizeInv, Growth, a

\* EncryptSM4 and EncryptAES of the C++ wrapper preserve the invariant,
LEMMA EncryptStep ==
    ASSUME IInv, NEW alg \in {"SM4", "AES++"}, NEW key, Encrypt(alg, key)
    PROVE  IInv'
<1>1. alg \in Algorithm /\ alg \in BlockAlg /\ alg # "SM2" BY DEF Algorithm, BlockAlg
<1>2. data' = Sealed(alg, key, data) BY <1>1, SealedBlocks DEF Encrypt
<1>3. made < MaxLayer /\ made' = made + 1 BY DEF Encrypt
<1>4. SizeInv' /\ Len(data') <= Len(data) + Block + 4 BY <1>1, <1>2, <1>3, Grows
<1>5. Layered(data', layers') BY <1>1, <1>2, AddLayer DEF IInv, Encrypt
<1>6. call' = Called("encrypt", alg, 0, Len(data')) BY DEF Encrypt
<1>7. call'.fn = "encrypt" /\ call'.length = Len(data') /\ call'.input = Len(data) BY <1>6 DEF Called
<1>8. LengthsBounded' BY <1>4, <1>7 DEF LengthsBounded, CHECK_ENCRYPTED_SIZE
<1>9. QED BY <1>4, <1>5, <1>8 DEF IInv

\* EncryptAES of the C wrapper too, which changes no data before it crashes,
LEMMA EncryptAESStep ==
    ASSUME IInv, NEW key, EncryptAES(key)
    PROVE  IInv'
<1>1. data' = data /\ layers' = layers /\ made' = made + 1 /\ made < MaxLayer BY DEF EncryptAES
<1>2. Len(data) \in Nat BY DataLength
<1>3. Growth \in Nat /\ MaxLen \in Nat /\ MaxLayer \in Nat /\ Block \in Nat BY Numbers DEF Growth
<1>4. made \in Nat /\ Len(data) <= MaxLen + made * Growth BY <1>3 DEF IInv, SizeInv
<1>5. (made + 1) * Growth = made * Growth + Growth /\ made * Growth \in Int BY <1>3, <1>4, MulStep
<1> DEFINE a == made * Growth
<1>6. a \in Int /\ Len(data) <= MaxLen + a /\ (made + 1) * Growth = a + Growth BY <1>4, <1>5
<1> HIDE DEF a
<1>7. Len(data) <= MaxLen + (made + 1) * Growth BY <1>2, <1>3, <1>6
<1>8. SizeInv' BY <1>1, <1>3, <1>4, <1>7 DEF SizeInv, Growth
<1>9. call'.fn = "encrypt" /\ call'.length = 0 /\ call'.input = Len(data) BY DEF EncryptAES, Called
<1>10. 0 <= Len(data) + Block + 4 BY <1>2, <1>3
<1>11. LengthsBounded' BY <1>9, <1>10 DEF LengthsBounded, CHECK_ENCRYPTED_SIZE
<1>12. QED BY <1>1, <1>8, <1>11 DEF IInv

\* and EncryptSM2.
LEMMA EncryptSM2Step ==
    ASSUME IInv, NEW key, EncryptSM2(key)
    PROVE  IInv'
<1>1. "SM2" \in Algorithm BY DEF Algorithm
<1>2. data' = Sealed("SM2", key, data) BY DEF EncryptSM2, Sealed
<1>3. made < MaxLayer /\ made' = made + 1 BY DEF EncryptSM2
<1>4. SizeInv' BY <1>1, <1>2, <1>3, Grows
<1>5. Layered(data', layers') BY <1>1, <1>2, AddLayer DEF IInv, EncryptSM2
<1>6. call'.fn = "encrypt" /\ call'.alg = "SM2" BY DEF EncryptSM2, Called
<1>7. LengthsBounded' BY <1>6 DEF LengthsBounded
<1>8. QED BY <1>4, <1>5, <1>7 DEF IInv

\* What alg and key have not made is refused or is not genuine.
LEMMA NotOwn ==
    ASSUME IInv, NEW alg \in BlockAlg, NEW key, ~ intact(alg, key), CheckEncrypted(alg, data)
    PROVE  ~ genuine(alg, key, SubSeq(data, 1, Len(data) - CHECK_ENCRYPTED_SIZE), Block)
<1>1. CASE layers = << >>
  <2>1. Plain(data) BY <1>1 DEF IInv, Layered, Text
  <2> DEFINE n == Len(data) - 4
  <2>2. n > 0 BY DEF CheckEncrypted, CHECK_ENCRYPTED_SIZE
  <2>3. Len(data) \in Nat BY DataLength
  <2>4. n \in Nat /\ n <= Len(data) BY <2>2, <2>3
  <2> HIDE DEF n
  <2>5. ~ genuine(alg, key, SubSeq(data, 1, n), Block) BY <2>1, <2>4, PlainIsNotGenuine
  <2>6. QED BY <2>5 DEF n, CHECK_ENCRYPTED_SIZE
<1>2. CASE layers # << >>
  <2> DEFINE a == layers[1].alg
             k == layers[1].key
             m == layers[1].plain
  <2>1. IsSeq(m) /\ a \in Algorithm /\ data = Sealed(a, k, m) BY <1>2, DropLayer DEF IInv
  <2>2. a # alg \/ k # key BY <1>2 DEF intact
  <2> HIDE DEF a, k, m
  <2>3. a # "SM2" BY <2>1, RefusesSM2
  <2>4. a \in BlockAlg BY <2>1, <2>3 DEF Algorithm, BlockAlg
  <2>5. data = Encrypted(a, k, m) BY <2>1, <2>4, SealedBlocks
  <2>6. a = alg BY <2>1, <2>4, <2>5, RefusesOther
  <2>7. key # k BY <2>2, <2>6
  <2>8. QED BY <2>1, <2>5, <2>6, <2>7, WrongKey
<1>3. QED BY <1>1, <1>2

\* What alg and key have made is decrypted.
LEMMA Own ==
    ASSUME IInv, NEW alg \in BlockAlg, NEW key, intact(alg, key), Decrypt(alg, key)
    PROVE  /\ layers # << >> /\ data' = layers[1].plain /\ layers' = Tail(layers)
           /\ call' = Called("decrypt", alg, 0, Len(layers[1].plain))
           /\ IsSeq(layers[1].plain) /\ Len(layers[1].plain) <= Len(data)
<1> DEFINE m == layers[1].plain
<1>1. layers # << >> /\ layers[1].alg = alg /\ layers[1].key = key BY DEF intact
<1>2. IsSeq(m) /\ data = Sealed(alg, key, m) /\ Len(m) <= Len(data) BY <1>1, DropLayer DEF IInv
<1> HIDE DEF m
<1>3. data = Encrypted(alg, key, m) BY <1>2, SealedBlocks
<1>4. Len(data) < SizeT BY DataLength
<1>5. data' = m /\ layers' = Tail(layers) /\ call' = Called("decrypt", alg, 0, Len(m))
  BY <1>2, <1>3, <1>4, DecryptOwn
<1>6. QED BY <1>1, <1>2, <1>5 DEF m

\* DecryptAES and DecryptSM4 preserve the invariant,
LEMMA DecryptStep ==
    ASSUME IInv, NEW alg \in BlockAlg, NEW key, Decrypt(alg, key)
    PROVE  IInv'
<1>1. IsSeq(data) /\ Len(data) \in Nat /\ Len(data) < SizeT BY DataLength
<1>2. made' = made BY DEF Decrypt
<1>3. ASSUME NEW r, NEW k, call' = Called("decrypt", alg, r, k), k <= Len(data) PROVE LengthsBounded'
  <2>1. call'.fn = "decrypt" /\ call'.length = k /\ call'.input = Len(data) BY <1>3 DEF Called
  <2>2. QED BY <1>3, <2>1 DEF LengthsBounded
<1>4. CASE intact(alg, key)
  <2>1. /\ layers # << >> /\ data' = layers[1].plain /\ layers' = Tail(layers)
        /\ call' = Called("decrypt", alg, 0, Len(layers[1].plain))
        /\ IsSeq(layers[1].plain) /\ Len(layers[1].plain) <= Len(data)
    BY <1>4, Own
  <2>2. Layered(data', layers') BY <2>1, DropLayer DEF IInv
  <2>3. Len(data') \in Nat BY <2>1, SeqLen
  <2>4. SizeInv' BY <1>2, <2>1, <2>3, Shrinks
  <2>5. LengthsBounded' BY <1>3, <2>1
  <2>6. QED BY <2>2, <2>4, <2>5 DEF IInv
<1>5. CASE ~ intact(alg, key)
  <2>1. CheckEncrypted(alg, data) =>
          ~ genuine(alg, key, SubSeq(data, 1, Len(data) - CHECK_ENCRYPTED_SIZE), Block)
    BY <1>5, NotOwn
  <2>2. \/ /\ UNCHANGED <<data, layers>>
           /\ \E k \in Nat : k <= Len(data) /\ call' = Called("decrypt", alg, -1, k)
        \/ /\ Plain(data') /\ Len(data') <= Len(data) /\ layers' = << >>
           /\ \E k \in Nat : k <= Len(data) /\ call' = Called("decrypt", alg, 0, k)
    BY <1>1, <1>5, <2>1, DecryptForeign
  <2>3. LengthsBounded' BY <1>3, <2>2
  <2>4. CASE UNCHANGED <<data, layers>>
    <3>1. SizeInv' BY <1>1, <1>2, <2>4, Shrinks
    <3>2. QED BY <2>3, <2>4, <3>1 DEF IInv
  <2>5. CASE Plain(data') /\ Len(data') <= Len(data) /\ layers' = << >>
    <3>1. Layered(data', layers') BY <2>5, Unlayered
    <3>2. Len(data') \in Nat BY <2>5, SeqLen DEF Plain
    <3>3. SizeInv' BY <1>2, <2>5, <3>2, Shrinks
    <3>4. QED BY <2>3, <3>1, <3>3 DEF IInv
  <2>6. QED BY <2>2, <2>4, <2>5
<1>6. QED BY <1>4, <1>5

\* and DecryptSM2.
LEMMA DecryptSM2Step ==
    ASSUME IInv, NEW key, DecryptSM2(key)
    PROVE  IInv'
<1>1. IsSeq(data) /\ Len(data) \in Nat BY DataLength
<1>2. made' = made BY DEF DecryptSM2
<1>3. LengthsBounded'
  <2>1. call'.fn = "decrypt" /\ call'.alg = "SM2" BY DEF DecryptSM2, Called
  <2>2. QED BY <2>1 DEF LengthsBounded
<1>4. CASE intact("SM2", key)
  <2> DEFINE m == layers[1].plain
  <2>1. layers # << >> /\ layers[1].alg = "SM2" BY <1>4 DEF intact
  <2>2. /\ Layered(m, Tail(layers)) /\ IsSeq(m) /\ data = Sealed("SM2", layers[1].key, m)
        /\ Len(m) <= Len(data)
    BY <2>1, DropLayer DEF IInv
  <2> HIDE DEF m
  <2>3. data[1][4] = m BY <2>2, SealedSM2
  <2>4. data' = m /\ layers' = Tail(layers) BY <1>4, <2>3 DEF DecryptSM2
  <2>5. Len(data') \in Nat BY <2>2, <2>4, SeqLen
  <2>6. SizeInv' BY <1>2, <2>2, <2>4, <2>5, Shrinks
  <2>7. QED BY <1>3, <2>2, <2>4, <2>6 DEF IInv
<1>5. CASE ~ intact("SM2", key)
  <2>1. data' = data /\ layers' = layers BY <1>5 DEF DecryptSM2
  <2>2. SizeInv' BY <1>1, <1>2, <2>1, Shrinks
  <2>3. QED BY <1>3, <2>1, <2>2 DEF IInv
<1>6. QED BY <1>4, <1>5

\* The caller's buffer holds the encryptions that were made and not undone, one over
\* the other, whatever calls are made with whatever keys; and the lengths are bounded.
THEOREM CryptoInvariance == Spec => []IInv
<1>1. IInv /\ [Next]_vars => IInv'
  <2> SUFFICES ASSUME IInv, [Next]_vars PROVE IInv'
    OBVIOUS
  <2>1. CASE \E key \in Key : \E alg \in {"SM4", "AES++"} : Encrypt(alg, key) BY <2>1, EncryptStep
  <2>2. CASE \E key \in Key : \E alg \in BlockAlg : Decrypt(alg, key) BY <2>2, DecryptStep
  <2>3. CASE \E key \in Key : EncryptAES(key) BY <2>3, EncryptAESStep
  <2>4. CASE \E key \in Key : EncryptSM2(key) BY <2>4, EncryptSM2Step
  <2>5. CASE \E key \in Key : DecryptSM2(key) BY <2>5, DecryptSM2Step
  <2>6. CASE UNCHANGED vars BY <2>6 DEF vars, IInv, SizeInv, Growth, LengthsBounded
  <2>7. QED BY <2>1, <2>2, <2>3, <2>4, <2>5, <2>6 DEF Next
<1>2. QED BY <1>1, InitInv, PTL DEF Spec

\* An encryption by AES or SM4 adds at most a block and the trailer, and a decryption,
\* with whatever key, returns no more than it was given.
THEOREM LengthsAreBounded == Spec => []LengthsBounded
<1>1. IInv => LengthsBounded BY DEF IInv
<1>2. QED BY <1>1, CryptoInvariance, PTL

\* DecryptAES and DecryptSM4 return the message that was encrypted with the same
\* algorithm and key, with its length, whatever its length and its last bytes are.
THEOREM DecryptionInvertsEncryption == Spec => RoundTrip
<1>1. IInv /\ [Next]_vars =>
        [\A alg \in BlockAlg, key \in Key :
           intact(alg, key) /\ Decrypt(alg, key)
              => data' = layers[1].plain /\ call'.ret = 0 /\ call'.length = Len(layers[1].plain)]_vars
  <2> SUFFICES ASSUME IInv, NEW alg \in BlockAlg, NEW key \in Key, intact(alg, key), Decrypt(alg, key)
               PROVE  data' = layers[1].plain /\ call'.ret = 0 /\ call'.length = Len(layers[1].plain)
    OBVIOUS
  <2>1. data' = layers[1].plain /\ call' = Called("decrypt", alg, 0, Len(layers[1].plain)) BY Own
  <2>2. QED BY <2>1 DEF Called
<1>2. QED BY <1>1, CryptoInvariance, PTL DEF Spec, RoundTrip

\* A block cipher returns -1 for a buffer whose last layer is not its own.
LEMMA RefusesForeign ==
    ASSUME IInv, layers # << >>, NEW alg \in BlockAlg, alg # layers[1].alg, NEW key, Decrypt(alg, key)
    PROVE  call'.ret = -1
<1> DEFINE a == layers[1].alg
           k == layers[1].key
           m == layers[1].plain
<1>1. IsSeq(m) /\ a \in Algorithm /\ data = Sealed(a, k, m) BY DropLayer DEF IInv
<1>2. alg # a OBVIOUS
<1> HIDE DEF a, k, m
<1>3. ~ CheckEncrypted(alg, data)
  <2>1. CASE a = "SM2" BY <1>1, <2>1, RefusesSM2
  <2>2. CASE a # "SM2"
    <3>1. a \in BlockAlg BY <1>1, <2>2 DEF Algorithm, BlockAlg
    <3>2. data = Encrypted(a, k, m) BY <1>1, <3>1, SealedBlocks
    <3>3. QED BY <1>1, <1>2, <3>1, <3>2, RefusesOther
  <2>3. QED BY <2>1, <2>2
<1>4. call' = Called("decrypt", alg, -1, 0) BY <1>3 DEF Decrypt
<1>5. QED BY <1>4 DEF Called

\* Only Decrypt leaves the record of a decryption with a block cipher.
LEMMA RecordOfDecrypt ==
    ASSUME Next, call'.fn = "decrypt", call'.alg \in BlockAlg
    PROVE  \E alg \in BlockAlg, key \in Key : call'.alg = alg /\ Decrypt(alg, key)
<1>1. PICK key \in Key : \/ \E alg \in {"SM4", "AES++"} : Encrypt(alg, key)
                         \/ \E alg \in BlockAlg : Decrypt(alg, key)
                         \/ EncryptAES(key) \/ EncryptSM2(key) \/ DecryptSM2(key)
  BY DEF Next
<1>2. ASSUME \/ \E alg \in {"SM4", "AES++"} : Encrypt(alg, key)
             \/ EncryptAES(key) \/ EncryptSM2(key)
      PROVE  FALSE
  <2>1. call'.fn = "encrypt" BY <1>2 DEF Encrypt, EncryptAES, EncryptSM2, Called
  <2>2. QED BY <2>1
<1>3. ~ DecryptSM2(key)
  <2>1. DecryptSM2(key) => call'.alg = "SM2" BY DEF DecryptSM2, Called
  <2>2. QED BY <2>1 DEF BlockAlg
<1>4. PICK alg \in BlockAlg : Decrypt(alg, key) BY <1>1, <1>2, <1>3
<1>5. call'.alg = alg
  <2>1. call' = Called("decrypt", alg, call'.ret, call'.length) BY <1>4 DEF Decrypt, Called
  <2>2. QED BY <2>1 DEF Called
<1>6. QED BY <1>4, <1>5

\* Data that one of the algorithms has encrypted is refused by the block ciphers it was
\* not encrypted with.
THEOREM AlgorithmsAreApart == Spec => AlgorithmsApart
<1>1. IInv /\ [Next]_vars =>
        [layers # << >> /\ call'.fn = "decrypt" /\ call'.alg \in BlockAlg \ {layers[1].alg}
           => call'.ret = -1 \/ call' = call]_vars
  <2> SUFFICES ASSUME IInv, Next, layers # << >>, call'.fn = "decrypt", call'.alg \in BlockAlg \ {layers[1].alg}
               PROVE  call'.ret = -1
    OBVIOUS
  <2>1. PICK alg \in BlockAlg, key \in Key : call'.alg = alg /\ Decrypt(alg, key) BY RecordOfDecrypt
  <2>2. QED BY <2>1, RefusesForeign
<1>2. QED BY <1>1, CryptoInvariance, PTL DEF Spec, AlgorithmsApart

=============================================================================
