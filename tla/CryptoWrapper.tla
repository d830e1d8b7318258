---------------------------- MODULE CryptoWrapper ----------------------------
(***************************************************************************)
(* The C wrappers around AES, SM4 and SM2 (BaseLib/CryptoWrapper) and the  *)
(* C++ wrapper around AES (BaseLib/AES): padding, the trailer that marks   *)
(* encrypted data, and what the calls return.  A caller encrypts a message *)
(* in layers, and decrypts with any algorithm and any key.  The ciphers    *)
(* are symbolic: a byte of a ciphertext stands for its                     *)
(* algorithm, key, block and index, and what another key makes of it is    *)
(* unknown.                                                                *)
(***************************************************************************)
EXTENDS Integers, Sequences

CONSTANTS
    Key,        \* passwords, or SM2 key pairs
    Block,      \* AES_BLOCK_SIZE and SM4_BLOCK_SIZE: 16 in the code
    SM2Extra,   \* what SM2 adds to a message: 96 in the code
    SizeT,      \* size_t counts modulo SizeT
    PlainByte,  \* the bytes of messages
    MaxLen,     \* bound: the length of a message
    MaxLayer    \* bound: how often it is encrypted

ASSUME SizeAssumption ==
    /\ {Block, SM2Extra, SizeT} \subseteq Nat \ {0} /\ {MaxLen, MaxLayer} \subseteq Nat
    /\ PlainByte \subseteq 0 .. 255 /\ Block < 240
    /\ MaxLen + MaxLayer * (2 * Block + SM2Extra + 4) < SizeT

VARIABLES
    data,       \* the caller's buffer
    layers,     \* history: the encryptions that data has on it, the last first
    call,       \* history: the last call, its input, what it returned
    crashed,    \* the process has dereferenced a null pointer
    made        \* history: the encryptions so far

vars == <<data, layers, call, crashed, made>>

B(n) == <<"b", n>>
BlockAlg == {"AES", "SM4", "AES++"}
CHECK_ENCRYPTED_SIZE == 4
CHECK_ENCRYPTE_KEY_VAULE == B(240)

NoCall == [fn |-> "none", alg |-> "none", ret |-> 0, input |-> 0, length |-> 0]
Called(fn, alg, ret, length) == [fn |-> fn, alg |-> alg, ret |-> ret, input |-> Len(data), length |-> length]

\* The four bytes behind the blocks; the C++ wrapper has no flag of its own.
Trailer(alg) ==
    LET flag == CASE alg = "AES" -> B(1) [] alg = "SM4" -> B(2) [] alg = "AES++" -> CHECK_ENCRYPTE_KEY_VAULE
    IN  <<flag>> \o [i \in 1 .. CHECK_ENCRYPTED_SIZE - 1 |-> CHECK_ENCRYPTE_KEY_VAULE]

-----------------------------------------------------------------------------
(* The ciphers. *)

\* Byte i of the encryption of m, which is made in blocks of n bytes.
cipherByte(alg, key, m, n, i) ==
    LET first == ((i - 1) \div n) * n
    IN  <<"c", alg, key, SubSeq(m, first + 1, first + n), i - first>>

\* Bytes d are the encryption of something with this algorithm and key.
genuine(alg, key, d, n) ==
    /\ d # << >>
    /\ \A i \in DOMAIN d : d[i][1] = "c" /\ d[i][2] = alg
    /\ \A i \in DOMAIN d : d[i][3] = key /\ d[i][5] = ((i - 1) % n) + 1
    /\ \A i \in DOMAIN d : d[i][4] = d[i - ((i - 1) % n)][4]

-----------------------------------------------------------------------------
(* Block ciphers: AES and SM4. *)

\* Mutant of padded: a message of whole blocks is not padded.
paddedPartly(m) ==
    LET rest == Len(m) % Block
        fill == IF rest = 0 THEN 0 ELSE Block - rest
    IN  m \o [i \in 1 .. fill |-> B(fill)]

\* The message with its last block, nTemp, filled up.
padded(m) ==
    LET rest == Len(m) % Block
        fill == IF rest = 0 THEN Block ELSE Block - rest
    IN  m \o [i \in 1 .. fill |-> B(fill)]

Encrypted(alg, key, m) ==
    LET p == padded(m)
    IN  [i \in 1 .. Len(p) |-> cipherByte(alg, key, p, Block, i)] \o Trailer(alg)

\* EncryptSM4, and EncryptAES of the C++ wrapper.
Encrypt(alg, key) ==
    /\ ~crashed /\ made < MaxLayer /\ made' = made + 1
    /\ data' = Encrypted(alg, key, data)
    /\ layers' = <<[alg |-> alg, key |-> key, plain |-> data]>> \o layers
    /\ call' = Called("encrypt", alg, 0, Len(data'))
    /\ UNCHANGED crashed

\* EncryptAES of the C wrapper sets the pointer output_length, not what it
\* points to, to 0, and then adds to what it points to.
EncryptAES(key) ==
    /\ ~crashed /\ made < MaxLayer /\ made' = made + 1
    /\ crashed' = TRUE
    /\ call' = Called("encrypt", "AES", 0, 0)
    /\ UNCHANGED <<data, layers>>

\* Mutant of CheckEncrypted: the flag is not looked at.
CheckEncryptedAny(alg, d) ==
    LET n == Len(d) - CHECK_ENCRYPTED_SIZE IN
    n > 0 /\ n % Block = 0 /\ Tail(SubSeq(d, n + 1, Len(d))) = Tail(Trailer(alg))

\* CheckEncryptedAES, CheckEncryptedSM4 and CheckEncrypted return 0.
CheckEncrypted(alg, d) ==
    LET n == Len(d) - CHECK_ENCRYPTED_SIZE IN
    n > 0 /\ n % Block = 0 /\ SubSeq(d, n + 1, Len(d)) = Trailer(alg)

\* Mutant of badDelete: the bound is off by one.
badDeleteLate(n) == n > Block + 1

\* The number of padding bytes is out of bounds.
badDelete(n) == n > Block

\* What the blocks of d decrypt to: with another key any bytes, of which only
\* the last matters.
Decrypted(alg, key, d) ==
    LET n == Len(d) - CHECK_ENCRYPTED_SIZE
        c == SubSeq(d, 1, n)
    IN  IF genuine(alg, key, c, Block)
        THEN {[i \in 1 .. n |-> c[i][4][c[i][5]]]}
        ELSE {[i \in 1 .. n |-> IF i < n THEN B(0) ELSE B(last)] : last \in 0 .. Block + 1}

\* The part of the output buffer that holds a result of this length.
SelectPrefix(out, length) == IF length <= Len(out) THEN SubSeq(out, 1, length) ELSE out

\* data is what the last encryption made, and alg and key are its own.
intact(alg, key) == layers # << >> /\ layers[1].alg = alg /\ layers[1].key = key

\* DecryptAES and DecryptSM4.
Decrypt(alg, key) ==
    /\ ~crashed
    /\ IF CheckEncrypted(alg, data)
       THEN \E out \in Decrypted(alg, key, data) :
              LET del == IF out[Len(out)][1] = "b" THEN out[Len(out)][2] ELSE Block + 1
                  length == (Len(out) - del) % SizeT
              IN  IF badDelete(del)
                  THEN call' = Called("decrypt", alg, -1, Len(out)) /\ UNCHANGED <<data, layers>>
                  ELSE /\ call' = Called("decrypt", alg, 0, length)
                       /\ data' = SelectPrefix(out, length)
                       /\ layers' = IF intact(alg, key) THEN Tail(layers) ELSE << >>
       ELSE call' = Called("decrypt", alg, -1, 0) /\ UNCHANGED <<data, layers>>
    /\ UNCHANGED <<crashed, made>>

-----------------------------------------------------------------------------
(* SM2. *)

EncryptSM2(key) ==
    /\ ~crashed /\ made < MaxLayer /\ made' = made + 1
    /\ data' = [i \in 1 .. Len(data) + SM2Extra |-> <<"c", "SM2", key, data, i>>]
    /\ layers' = <<[alg |-> "SM2", key |-> key, plain |-> data]>> \o layers
    /\ call' = Called("encrypt", "SM2", 0, Len(data'))
    /\ UNCHANGED crashed

\* DecryptSM2 returns 0 whatever sm2_decrypt returned; the caller's input stays
\* when it fails.
DecryptSM2(key) ==
    /\ ~crashed
    /\ call' = Called("decrypt", "SM2", 0, (Len(data) - SM2Extra) % SizeT)
    /\ IF intact("SM2", key)
       THEN data' = data[1][4] /\ layers' = Tail(layers)
       ELSE UNCHANGED <<data, layers>>
    /\ UNCHANGED <<crashed, made>>

-----------------------------------------------------------------------------

Message == UNION {[1 .. n -> {B(x) : x \in PlainByte}] : n \in 0 .. MaxLen}

Init ==
    /\ data \in Message
    /\ layers = << >>
    /\ call = NoCall
    /\ crashed = FALSE
    /\ made = 0

Next ==
    \E key \in Key :
        \/ \E alg \in {"SM4", "AES++"} : Encrypt(alg, key)
        \/ \E alg \in BlockAlg : Decrypt(alg, key)
        \/ EncryptAES(key) \/ EncryptSM2(key) \/ DecryptSM2(key)

Spec == Init /\ [][Next]_vars

-----------------------------------------------------------------------------
(* Properties.                                                              *)

\* What was encrypted is decrypted with its algorithm and key to the message it
\* was, of its length, whatever its length and its last bytes are.
RoundTrip ==
    [][\A alg \in BlockAlg, key \in Key :
         intact(alg, key) /\ Decrypt(alg, key)
            => data' = layers[1].plain /\ call'.ret = 0 /\ call'.length = Len(layers[1].plain)]_vars

\* Data that one of the algorithms has encrypted is refused by the others: the
\* trailers tell them apart.
AlgorithmsApart ==
    [][layers # << >> /\ call'.fn = "decrypt" /\ call'.alg \in BlockAlg \ {layers[1].alg}
         => call'.ret = -1 \/ call' = call]_vars

\* The lengths that are returned: an encryption adds at most a block and the
\* trailer, 20 bytes of the 32 the header asks for, and no decryption, with
\* whatever key, returns more than it was given.
LengthsBounded ==
    /\ call.fn = "encrypt" /\ call.alg # "SM2" => call.length <= call.input + Block + CHECK_ENCRYPTED_SIZE
    /\ call.fn = "decrypt" /\ call.alg # "SM2" => call.length <= call.input

=============================================================================
