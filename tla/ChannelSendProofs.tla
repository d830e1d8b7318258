------------------------- MODULE ChannelSendProofs -------------------------
(***************************************************************************)
(* Proofs about ChannelSend, for any senders, buffers, pool size and       *)
(* number of packets: every DataBuffer has one owner, no packet is         *)
(* forgotten in the queue, and the channel implements RelayFifo.           *)
(***************************************************************************)
EXTENDS ChannelSend, SequenceTheorems, FiniteSetTheorems, TLAPS

\* What a list of buffers owns, and that it owns nothing twice.
Elems(s) == {s[i] : i \in 1 .. Len(s)}
Unique(s) == \A i, j \in 1 .. Len(s) : s[i] = s[j] => i = j

\* The threads whose step between Push and epoll_ctl is not over.
Busy == {"want", "read", "mod"}

\* A thread holds a buffer exactly while it is to push or to send it.
PcInv ==
    /\ \A t \in Sender : pc[t] = "push" <=> held[t] # NoBuf
    /\ loopPc = "send" <=> cur # NoBuf

\* No two places own the same buffer, and what they own is what is allocated.
ListsInv ==
    /\ Unique(pool) /\ Unique(queue)
    /\ Elems(pool) \cap Elems(queue) = {}
    /\ cur \notin Elems(pool) /\ cur \notin Elems(queue)
HeldInv ==
    \A t \in Sender :
        /\ held[t] \notin Elems(pool) /\ held[t] \notin Elems(queue)
        /\ held[t] # NoBuf => held[t] # cur
        /\ \A u \in Sender : held[t] # NoBuf /\ held[t] = held[u] => t = u
AllocInv ==
    \A b \in Buf :
        b \in alloc <=> b \in Elems(pool) \/ b \in Elems(queue) \/ b = cur \/ \E t \in Sender : held[t] = b
OwnInv == ListsInv /\ HeldInv /\ AllocInv

\* A buffer that is allocated has been filled.
DataInv == \A b \in alloc : data[b] \in Packet

\* The packets that were accepted are those that were sent, the one that
\* handleSend has popped and those in the queue, in this order.
Popped == IF cur = NoBuf THEN 0 ELSE 1
FifoInv ==
    /\ Len(accepted) = Len(sent) + Popped + Len(queue)
    /\ \A i \in 1 .. Len(sent) : sent[i] = accepted[i]
    /\ cur # NoBuf => data[cur] = accepted[Len(sent) + 1]
    /\ \A i \in 1 .. Len(queue) : data[queue[i]] = accepted[Len(sent) + Popped + i]

\* While a packet waits that no thread has slipped behind, only the thread that
\* pushed it is at the mask, and it asks for POLLOUT.
WaitInv ==
    open /\ ~slipped /\ (queue # << >> \/ cur # NoBuf) =>
        /\ loopPc \notin Busy
        /\ \A t \in Sender : \A u \in Sender : pc[t] \in Busy /\ pc[u] \in Busy => t = u
        /\ (\A t \in Sender : pc[t] \notin Busy) => armed
        /\ \A t \in Sender : (pc[t] = "read" => wantOut) /\ (pc[t] = "mod" => arg[t])

IInv == TypeOK /\ PcInv /\ OwnInv /\ DataInv /\ FifoInv /\ WaitInv

-----------------------------------------------------------------------------
(* Lists of buffers.                                                        *)

\* A buffer that is put behind the others.
LEMMA AppendElems ==
    ASSUME NEW S, NEW s \in Seq(S), NEW x \in S
    PROVE  /\ Append(s, x) \in Seq(S) /\ Len(Append(s, x)) = Len(s) + 1
           /\ Append(s, x) # << >>
           /\ Elems(Append(s, x)) = Elems(s) \cup {x}
           /\ Unique(s) /\ x \notin Elems(s) => Unique(Append(s, x))
<1> DEFINE a == Append(s, x)
<1>1. Len(s) \in Nat BY LenProperties
<1>2. /\ a \in Seq(S) /\ Len(a) = Len(s) + 1 /\ a # << >>
      /\ \A i \in 1 .. Len(s) : a[i] = s[i]
      /\ a[Len(s) + 1] = x
  BY AppendProperties
<1> HIDE DEF a
<1>3. \A i \in 1 .. Len(a) : i \in 1 .. Len(s) \/ i = Len(s) + 1 BY <1>1, <1>2
<1>4. Elems(a) = Elems(s) \cup {x}
  <2>1. ASSUME NEW y \in Elems(a) PROVE y \in Elems(s) \cup {x}
    BY <1>2, <1>3 DEF Elems
  <2>2. ASSUME NEW y \in Elems(s) PROVE y \in Elems(a)
    <3>1. PICK i \in 1 .. Len(s) : y = s[i] BY DEF Elems
    <3>2. i \in 1 .. Len(a) /\ a[i] = y BY <1>1, <1>2, <3>1
    <3>3. QED BY <3>2 DEF Elems
  <2>3. x \in Elems(a)
    <3>1. Len(s) + 1 \in 1 .. Len(a) BY <1>1, <1>2
    <3>2. QED BY <1>2, <3>1 DEF Elems
  <2>4. QED BY <2>1, <2>2, <2>3
<1>5. ASSUME Unique(s), x \notin Elems(s) PROVE Unique(a)
  <2>1. \A i \in 1 .. Len(s) : s[i] # x BY <1>5 DEF Elems
  <2>2. ASSUME NEW i \in 1 .. Len(a), NEW j \in 1 .. Len(a), a[i] = a[j] PROVE i = j
    <3>1. CASE i \in 1 .. Len(s) /\ j \in 1 .. Len(s)
      BY <1>2, <1>5, <2>2, <3>1 DEF Unique
    <3>2. CASE i \in 1 .. Len(s) /\ j = Len(s) + 1 BY <1>2, <2>1, <2>2, <3>2
    <3>3. CASE i = Len(s) + 1 /\ j \in 1 .. Len(s) BY <1>2, <2>1, <2>2, <3>3
    <3>4. QED BY <1>3, <3>1, <3>2, <3>3
  <2>3. QED BY <2>2 DEF Unique
<1>6. QED BY <1>2, <1>4, <1>5 DEF a

\* A buffer that is taken from the top of the pool.
LEMMA FrontElems ==
    ASSUME NEW S, NEW s \in Seq(S), s # << >>, Unique(s)
    PROVE  LET f == SubSeq(s, 1, Len(s) - 1) IN
           /\ f \in Seq(S) /\ Len(f) = Len(s) - 1
           /\ s[Len(s)] \in Elems(s)
           /\ Elems(f) = Elems(s) \ {s[Len(s)]}
           /\ Unique(f)
<1> DEFINE f == SubSeq(s, 1, Len(s) - 1)
<1>1. Len(s) \in Nat /\ Len(s) >= 1 BY EmptySeq
<1>2. \A i \in 1 .. Len(s) : s[i] \in S BY ElementOfSeq
<1>3. f \in Seq(S) /\ Len(f) = Len(s) - 1 /\ \A i \in 1 .. Len(s) - 1 : f[i] = s[i]
  <2> DEFINE n == Len(s) - 1
  <2>1. n \in Int /\ 1 \in Int /\ \A i \in 1 .. n : s[i] \in S BY <1>1, <1>2
  <2>2. n >= 0 /\ n - 1 + 1 = n /\ \A i \in 1 .. n : 1 + i - 1 = i BY <1>1
  <2> HIDE DEF n
  <2>3. /\ SubSeq(s, 1, n) \in Seq(S)
        /\ Len(SubSeq(s, 1, n)) = IF 1 <= n THEN n - 1 + 1 ELSE 0
        /\ \A i \in 1 .. n - 1 + 1 : SubSeq(s, 1, n)[i] = s[1 + i - 1]
    BY <2>1, SubSeqProperties
  <2>4. SubSeq(s, 1, n) \in Seq(S) /\ Len(SubSeq(s, 1, n)) = n /\ \A i \in 1 .. n : SubSeq(s, 1, n)[i] = s[i]
    BY <2>1, <2>2, <2>3
  <2>5. QED BY <2>4 DEF n
<1> HIDE DEF f
<1>4. s[Len(s)] \in Elems(s)
  <2>1. Len(s) \in 1 .. Len(s) BY <1>1
  <2>2. QED BY <2>1 DEF Elems
<1>5. \A i \in 1 .. Len(f) : i \in 1 .. Len(s) /\ i # Len(s) /\ f[i] = s[i] BY <1>1, <1>3
<1>6. Unique(f) BY <1>5 DEF Unique
<1>7. Elems(f) = Elems(s) \ {s[Len(s)]}
  <2>1. ASSUME NEW y \in Elems(f) PROVE y \in Elems(s) /\ y # s[Len(s)]
    <3>1. PICK i \in 1 .. Len(f) : y = f[i] BY DEF Elems
    <3>2. Len(s) \in 1 .. Len(s) BY <1>1
    <3>3. QED BY <1>5, <3>1, <3>2 DEF Elems, Unique
  <2>2. ASSUME NEW y \in Elems(s), y # s[Len(s)] PROVE y \in Elems(f)
    <3>1. PICK i \in 1 .. Len(s) : y = s[i] BY DEF Elems
    <3>2. i \in 1 .. Len(f) BY <1>1, <1>3, <2>2, <3>1
    <3>3. QED BY <1>5, <3>1, <3>2 DEF Elems
  <2>3. QED BY <2>1, <2>2
<1>8. QED BY <1>3, <1>4, <1>6, <1>7 DEF f

\* A packet that is popped from the queue.
LEMMA TailElems ==
    ASSUME NEW S, NEW s \in Seq(S), s # << >>, Unique(s)
    PROVE  /\ Tail(s) \in Seq(S) /\ Len(Tail(s)) = Len(s) - 1
           /\ Head(s) = s[1] /\ Head(s) \in Elems(s)
           /\ \A i \in 1 .. Len(Tail(s)) : Tail(s)[i] = s[i + 1]
           /\ Elems(Tail(s)) = Elems(s) \ {Head(s)}
           /\ Unique(Tail(s))
<1> DEFINE f == Tail(s)
<1>1. Len(s) \in Nat /\ Len(s) >= 1 BY EmptySeq
<1>2. f \in Seq(S) /\ Len(f) = Len(s) - 1 /\ \A i \in 1 .. Len(f) : f[i] = s[i + 1]
  BY HeadTailProperties
<1>3. Head(s) = s[1] OBVIOUS
<1> HIDE DEF f
<1>4. 1 \in 1 .. Len(s) BY <1>1
<1>5. \A i \in 1 .. Len(f) : i + 1 \in 1 .. Len(s) /\ i + 1 # 1 /\ f[i] = s[i + 1] BY <1>1, <1>2
<1>6. Unique(f)
  <2> SUFFICES ASSUME NEW i \in 1 .. Len(f), NEW j \in 1 .. Len(f), f[i] = f[j] PROVE i = j
    BY DEF Unique
  <2>1. i + 1 = j + 1 BY <1>5 DEF Unique
  <2>2. QED BY <2>1
<1>7. Elems(f) = Elems(s) \ {s[1]}
  <2>1. ASSUME NEW y \in Elems(f) PROVE y \in Elems(s) /\ y # s[1]
    <3>1. PICK i \in 1 .. Len(f) : y = f[i] BY DEF Elems
    <3>2. QED BY <1>4, <1>5, <3>1 DEF Elems, Unique
  <2>2. ASSUME NEW y \in Elems(s), y # s[1] PROVE y \in Elems(f)
    <3>1. PICK i \in 1 .. Len(s) : y = s[i] BY DEF Elems
    <3>2. i - 1 \in 1 .. Len(f) /\ (i - 1) + 1 = i BY <1>1, <1>2, <2>2, <3>1
    <3>3. f[i - 1] = y BY <1>5, <3>1, <3>2
    <3>4. QED BY <3>2, <3>3 DEF Elems
  <2>3. QED BY <2>1, <2>2
<1>8. s[1] \in Elems(s) BY <1>4 DEF Elems
<1>9. QED BY <1>2, <1>3, <1>6, <1>7, <1>8 DEF f

\* A packet that is put back at the front of the queue.
LEMMA ConsElems ==
    ASSUME NEW S, NEW s \in Seq(S), NEW x \in S
    PROVE  /\ <<x>> \o s \in Seq(S) /\ Len(<<x>> \o s) = Len(s) + 1
           /\ (<<x>> \o s)[1] = x
           /\ \A i \in 1 .. Len(s) : (<<x>> \o s)[i + 1] = s[i]
           /\ Elems(<<x>> \o s) = Elems(s) \cup {x}
           /\ Unique(s) /\ x \notin Elems(s) => Unique(<<x>> \o s)
<1> DEFINE o == <<x>>
           a == o \o s
<1>1. Len(s) \in Nat BY LenProperties
<1>2. o \in Seq(S) /\ Len(o) = 1 /\ o[1] = x OBVIOUS
<1> HIDE DEF o
<1>3. /\ a \in Seq(S) /\ Len(a) = 1 + Len(s)
      /\ \A i \in 1 .. 1 + Len(s) : a[i] = IF i <= 1 THEN o[i] ELSE s[i - 1]
  <2>1. /\ a \in Seq(S) /\ Len(a) = Len(o) + Len(s)
        /\ \A i \in 1 .. Len(o) + Len(s) : a[i] = IF i <= Len(o) THEN o[i] ELSE s[i - Len(o)]
    BY <1>2, ConcatProperties
  <2>2. QED BY <1>2, <2>1
<1> HIDE DEF a
<1>4. a[1] = x BY <1>1, <1>2, <1>3
<1>5. ASSUME NEW i \in 1 .. Len(s) PROVE a[i + 1] = s[i] /\ i + 1 \in 1 .. Len(a)
  BY <1>1, <1>3
<1>6. \A i \in 1 .. Len(a) : i = 1 \/ (i - 1 \in 1 .. Len(s) /\ a[i] = s[i - 1]) BY <1>1, <1>3
<1>7. Elems(a) = Elems(s) \cup {x}
  <2>1. ASSUME NEW y \in Elems(a) PROVE y \in Elems(s) \cup {x}
    BY <1>4, <1>6 DEF Elems
  <2>2. ASSUME NEW y \in Elems(s) PROVE y \in Elems(a)
    <3>1. PICK i \in 1 .. Len(s) : y = s[i] BY DEF Elems
    <3>2. QED BY <1>5, <3>1 DEF Elems
  <2>3. x \in Elems(a)
    <3>1. 1 \in 1 .. Len(a) BY <1>1, <1>3
    <3>2. QED BY <1>4, <3>1 DEF Elems
  <2>4. QED BY <2>1, <2>2, <2>3
<1>8. ASSUME Unique(s), x \notin Elems(s) PROVE Unique(a)
  <2>1. \A i \in 1 .. Len(s) : s[i] # x BY <1>8 DEF Elems
  <2>2. ASSUME NEW i \in 1 .. Len(a), NEW j \in 1 .. Len(a), a[i] = a[j] PROVE i = j
    <3>1. CASE i = 1 /\ j = 1 BY <3>1
    <3>2. CASE i = 1 /\ j # 1 BY <1>4, <1>6, <2>1, <2>2, <3>2
    <3>3. CASE i # 1 /\ j = 1 BY <1>4, <1>6, <2>1, <2>2, <3>3
    <3>4. CASE i # 1 /\ j # 1
      <4>1. i - 1 = j - 1 BY <1>6, <1>8, <2>2, <3>4 DEF Unique
      <4>2. QED BY <4>1
    <3>5. QED BY <3>1, <3>2, <3>3, <3>4
  <2>3. QED BY <2>2 DEF Unique
<1>9. QED BY <1>1, <1>3, <1>4, <1>5, <1>7, <1>8 DEF a, o

\* How often a list that owns nothing twice owns b.
LEMMA CountIn ==
    ASSUME NEW S, NEW s \in Seq(S), Unique(s), NEW b
    PROVE  Cardinality({i \in DOMAIN s : s[i] = b}) = IF b \in Elems(s) THEN 1 ELSE 0
<1> DEFINE I == {i \in DOMAIN s : s[i] = b}
<1>1. DOMAIN s = 1 .. Len(s) BY LenProperties
<1>2. CASE b \in Elems(s)
  <2>1. PICK i \in 1 .. Len(s) : s[i] = b BY <1>2 DEF Elems
  <2>2. I = {i} BY <1>1, <2>1 DEF Unique
  <2> HIDE DEF I
  <2>3. Cardinality(I) = 1 BY <2>2, FS_Singleton
  <2>4. QED BY <1>2, <2>3 DEF I
<1>3. CASE b \notin Elems(s)
  <2>1. I = {} BY <1>1, <1>3 DEF Elems
  <2> HIDE DEF I
  <2>2. Cardinality(I) = 0 BY <2>1, FS_EmptySet
  <2>3. QED BY <1>3, <2>2 DEF I
<1>4. QED BY <1>2, <1>3

\* From the inductive invariant to the count of owners.
LEMMA OwnersCounted == TypeOK /\ PcInv /\ OwnInv => BufferOwned
<1> SUFFICES ASSUME TypeOK, PcInv, OwnInv, NEW b \in Buf
             PROVE  Owners(b) = IF b \in alloc THEN 1 ELSE 0
  BY DEF BufferOwned
<1> DEFINE H == {t \in Sender : held[t] = b}
           p == Cardinality({i \in DOMAIN pool : pool[i] = b})
           q == Cardinality({i \in DOMAIN queue : queue[i] = b})
           h == Cardinality(H)
           c == IF cur = b THEN 1 ELSE 0
<1>1. p = IF b \in Elems(pool) THEN 1 ELSE 0 BY CountIn DEF TypeOK, OwnInv, ListsInv
<1>2. q = IF b \in Elems(queue) THEN 1 ELSE 0 BY CountIn DEF TypeOK, OwnInv, ListsInv
<1>3. h = IF \E t \in Sender : held[t] = b THEN 1 ELSE 0
  <2>1. CASE \E t \in Sender : held[t] = b
    <3>1. PICK t \in Sender : held[t] = b BY <2>1
    <3>2. held[t] # NoBuf BY <3>1, NoBufAssumption
    <3>3. H = {t} BY <3>1, <3>2 DEF OwnInv, ListsInv, HeldInv, AllocInv
    <3> HIDE DEF H
    <3>4. QED BY <2>1, <3>3, FS_Singleton
  <2>2. CASE ~\E t \in Sender : held[t] = b
    <3>1. H = {} BY <2>2
    <3> HIDE DEF H
    <3>2. QED BY <2>2, <3>1, FS_EmptySet
  <2>3. QED BY <2>1, <2>2
<1>4. Owners(b) = p + q + h + c BY DEF Owners
<1> HIDE DEF p, q, h
<1>5. /\ b \in alloc <=> \/ b \in Elems(pool) \/ b \in Elems(queue) \/ cur = b
                         \/ \E t \in Sender : held[t] = b
      /\ ~(b \in Elems(pool) /\ b \in Elems(queue))
      /\ cur = b => b \notin Elems(pool) /\ b \notin Elems(queue)
      /\ (\E t \in Sender : held[t] = b) => b \notin Elems(pool) /\ b \notin Elems(queue) /\ cur # b
  BY NoBufAssumption DEF OwnInv, ListsInv, HeldInv, AllocInv
<1>6. QED BY <1>1, <1>2, <1>3, <1>4, <1>5

-----------------------------------------------------------------------------
(* MemPool.                                                                 *)

\* GetMemery hands out a buffer that nobody has.
LEMMA GetMemeryOK ==
    ASSUME TypeOK, OwnInv, NEW b \in Buf, GetMemery(b)
    PROVE  /\ pool' \in Seq(Buf) /\ Len(pool') <= PoolLen /\ Unique(pool')
           /\ Elems(pool') = Elems(pool) \ {b} /\ alloc' = alloc \cup {b}
           /\ b \notin Elems(queue) /\ b # cur /\ \A t \in Sender : held[t] # b
<1>1. pool \in Seq(Buf) /\ Len(pool) <= PoolLen /\ Unique(pool) /\ Len(pool) \in Nat /\ PoolLen \in Nat
  BY LenProperties, BoundAssumption DEF TypeOK, OwnInv, ListsInv
<1>2. CASE pool # << >> /\ b = pool[Len(pool)] /\ pool' = SubSeq(pool, 1, Len(pool) - 1) /\ alloc' = alloc
  <2>1. /\ pool' \in Seq(Buf) /\ Len(pool') = Len(pool) - 1 /\ Unique(pool')
        /\ b \in Elems(pool) /\ Elems(pool') = Elems(pool) \ {b}
    BY <1>1, <1>2, FrontElems
  <2>2. Len(pool') <= PoolLen BY <1>1, <2>1
  <2>3. b \in alloc /\ b \notin Elems(queue) /\ b # cur /\ \A t \in Sender : held[t] # b
    BY <2>1 DEF OwnInv, ListsInv, HeldInv, AllocInv
  <2>4. QED BY <1>2, <2>1, <2>2, <2>3
<1>3. CASE pool = << >> /\ b \notin alloc /\ alloc' = alloc \cup {b} /\ pool' = pool
  <2>1. b \notin Elems(pool) /\ b \notin Elems(queue) /\ b # cur /\ \A t \in Sender : held[t] # b
    BY <1>3 DEF OwnInv, ListsInv, HeldInv, AllocInv
  <2>2. QED BY <1>1, <1>3, <2>1
<1>4. QED BY <1>2, <1>3 DEF GetMemery

\* Release keeps b or deletes it.
LEMMA ReleaseOK ==
    ASSUME TypeOK, OwnInv, NEW b \in Buf, b \notin Elems(pool), Release(b)
    PROVE  /\ pool' \in Seq(Buf) /\ Len(pool') <= PoolLen /\ Unique(pool')
           /\ \/ Elems(pool') = Elems(pool) /\ alloc' = alloc \ {b}
              \/ Elems(pool') = Elems(pool) \cup {b} /\ alloc' = alloc
<1>1. pool \in Seq(Buf) /\ Len(pool) <= PoolLen /\ Unique(pool) /\ Len(pool) \in Nat /\ PoolLen \in Nat
  BY LenProperties, BoundAssumption DEF TypeOK, OwnInv, ListsInv
<1>2. CASE alloc' = alloc \ {b} /\ pool' = pool BY <1>1, <1>2
<1>3. CASE Len(pool) < PoolLen /\ pool' = Append(pool, b) /\ alloc' = alloc
  <2>1. /\ pool' \in Seq(Buf) /\ Len(pool') = Len(pool) + 1 /\ Unique(pool')
        /\ Elems(pool') = Elems(pool) \cup {b}
    BY <1>1, <1>3, AppendElems
  <2>2. Len(pool') <= PoolLen BY <1>1, <1>3, <2>1
  <2>3. QED BY <1>3, <2>1, <2>2
<1>4. QED BY <1>2, <1>3 DEF Release

-----------------------------------------------------------------------------
(* Who owns a buffer.                                                       *)

\* What the ownership is about.
ownVars == <<pool, alloc, data, queue, held, cur, accepted, sent>>

\* A filled buffer is that of the thread that filled it.
LEMMA getBufferOwn ==
    ASSUME IInv, NEW t \in Sender, NEW b \in Buf, getBuffer(t, b)
    PROVE  OwnInv' /\ DataInv' /\ FifoInv' /\ PcInv'
<1>1. TypeOK /\ OwnInv /\ PcInv /\ DataInv /\ FifoInv BY DEF IInv
<1>2. /\ pc[t] = "idle" /\ GetMemery(b)
      /\ held' = [held EXCEPT ![t] = b] /\ data' = [data EXCEPT ![b] = count + 1]
      /\ pc' = [pc EXCEPT ![t] = "push"] /\ count < MaxPush
      /\ queue' = queue /\ cur' = cur /\ loopPc' = loopPc /\ accepted' = accepted /\ sent' = sent
  BY DEF getBuffer, loopVars, pushVars
<1>3. /\ Unique(pool') /\ Elems(pool') = Elems(pool) \ {b} /\ alloc' = alloc \cup {b}
      /\ b \notin Elems(queue) /\ b # cur /\ \A u \in Sender : held[u] # b
  BY <1>1, <1>2, GetMemeryOK
<1>4. \A u \in Sender : held'[u] = (IF u = t THEN b ELSE held[u]) /\ pc'[u] = (IF u = t THEN "push" ELSE pc[u])
  BY <1>1, <1>2 DEF TypeOK
<1>5. b # NoBuf /\ held[t] = NoBuf BY <1>1, <1>2, NoBufAssumption DEF PcInv
<1>6. PcInv' BY <1>1, <1>2, <1>4, <1>5 DEF PcInv
<1>7. OwnInv'
  <2>1. ListsInv' BY <1>1, <1>2, <1>3 DEF OwnInv, ListsInv
  <2>2. HeldInv' BY <1>1, <1>2, <1>3, <1>4, <1>5 DEF OwnInv, HeldInv
  <2>3. AllocInv'
    <3> SUFFICES ASSUME NEW x \in Buf
                 PROVE  x \in alloc' <=> \/ x \in Elems(pool') \/ x \in Elems(queue) \/ x = cur
                                         \/ \E u \in Sender : held'[u] = x
      BY <1>2 DEF AllocInv
    <3>1. CASE x = b BY <1>3, <1>4, <3>1
    <3>2. CASE x # b
      <4>1. (\E u \in Sender : held'[u] = x) <=> (\E u \in Sender : held[u] = x)
        BY <1>4, <1>5, <3>2, NoBufAssumption
      <4>2. QED BY <1>1, <1>3, <3>2, <4>1 DEF OwnInv, AllocInv
    <3>3. QED BY <3>1, <3>2
  <2>4. QED BY <2>1, <2>2, <2>3 DEF OwnInv
<1>8. \A x \in Buf : data'[x] = IF x = b THEN count + 1 ELSE data[x] BY <1>1, <1>2 DEF TypeOK
<1>9. DataInv'
  <2>1. count + 1 \in Packet BY <1>1, <1>2, BoundAssumption DEF TypeOK, Packet
  <2>2. alloc \subseteq Buf BY <1>1 DEF TypeOK
  <2>3. QED BY <1>1, <1>3, <1>8, <2>1, <2>2 DEF DataInv, Packet
<1>10. FifoInv'
  <2>1. Popped' = Popped BY <1>2 DEF Popped
  <2>2. \A i \in 1 .. Len(queue) : data'[queue[i]] = data[queue[i]]
    <3>1. \A i \in 1 .. Len(queue) : queue[i] \in Buf /\ queue[i] \in Elems(queue)
      BY <1>1, ElementOfSeq DEF TypeOK, Elems
    <3>2. QED BY <1>3, <1>8, <3>1
  <2>3. cur # NoBuf => data'[cur] = data[cur] BY <1>1, <1>3, <1>8 DEF TypeOK
  <2>4. QED BY <1>1, <1>2, <2>1, <2>2, <2>3 DEF FifoInv
<1>11. QED BY <1>6, <1>7, <1>9, <1>10

\* A buffer that is given up is the pool's or nobody's.
LEMMA abandonOwn ==
    ASSUME IInv, NEW t \in Sender, abandon(t)
    PROVE  OwnInv' /\ DataInv' /\ FifoInv' /\ PcInv'
<1>1. TypeOK /\ OwnInv /\ PcInv /\ DataInv /\ FifoInv BY DEF IInv
<1> DEFINE b == held[t]
<1>2. /\ pc[t] = "push" /\ Release(b)
      /\ held' = [held EXCEPT ![t] = NoBuf] /\ pc' = [pc EXCEPT ![t] = "idle"]
      /\ data' = data /\ queue' = queue /\ cur' = cur /\ loopPc' = loopPc /\ accepted' = accepted /\ sent' = sent
  BY DEF abandon, loopVars, pushVars
<1>3. b # NoBuf /\ b \in Buf /\ b \notin Elems(pool) /\ b \notin Elems(queue) /\ b # cur
  BY <1>1, <1>2 DEF TypeOK, PcInv, OwnInv, HeldInv
<1>4. \A u \in Sender : u # t => held[u] # b BY <1>1, <1>3 DEF OwnInv, ListsInv, HeldInv, AllocInv
<1>5. \A u \in Sender : held'[u] = (IF u = t THEN NoBuf ELSE held[u]) /\ pc'[u] = (IF u = t THEN "idle" ELSE pc[u])
  BY <1>1, <1>2 DEF TypeOK
<1>6. NoBuf \notin Elems(pool) /\ NoBuf \notin Elems(queue) /\ Elems(pool) \subseteq Buf
  BY <1>1, NoBufAssumption, ElementOfSeq DEF TypeOK, Elems
<1> HIDE DEF b
<1>7. /\ Unique(pool')
      /\ \/ Elems(pool') = Elems(pool) /\ alloc' = alloc \ {b}
         \/ Elems(pool') = Elems(pool) \cup {b} /\ alloc' = alloc
  BY <1>1, <1>2, <1>3, ReleaseOK
<1>8. OwnInv'
  <2>1. ListsInv' BY <1>1, <1>2, <1>3, <1>7 DEF OwnInv, ListsInv
  <2>2. HeldInv'
    <3> SUFFICES ASSUME NEW u \in Sender
                 PROVE  /\ held'[u] \notin Elems(pool') /\ held'[u] \notin Elems(queue)
                        /\ held'[u] # NoBuf => held'[u] # cur
                        /\ \A v \in Sender : held'[u] # NoBuf /\ held'[u] = held'[v] => u = v
      BY <1>2 DEF HeldInv
    <3>1. CASE u = t BY <1>3, <1>5, <1>6, <1>7, <3>1
    <3>2. CASE u # t BY <1>1, <1>4, <1>5, <1>7, <3>2 DEF OwnInv, HeldInv
    <3>3. QED BY <3>1, <3>2
  <2>3. AllocInv'
    <3> SUFFICES ASSUME NEW x \in Buf
                 PROVE  x \in alloc' <=> \/ x \in Elems(pool') \/ x \in Elems(queue) \/ x = cur
                                         \/ \E u \in Sender : held'[u] = x
      BY <1>2 DEF AllocInv
    <3>1. (\E u \in Sender : held'[u] = x) <=> x # b /\ (\E u \in Sender : held[u] = x)
      BY <1>4, <1>5, NoBufAssumption DEF b
    <3>2. b \in alloc BY <1>1, <1>3 DEF OwnInv, AllocInv, b
    <3>3. QED BY <1>1, <1>3, <1>7, <3>1, <3>2 DEF OwnInv, AllocInv
  <2>4. QED BY <2>1, <2>2, <2>3 DEF OwnInv
<1>9. DataInv' BY <1>1, <1>2, <1>7 DEF DataInv
<1>10. FifoInv' BY <1>1, <1>2 DEF FifoInv, Popped
<1>11. PcInv' BY <1>1, <1>2, <1>5 DEF PcInv
<1>12. QED BY <1>8, <1>9, <1>10, <1>11

\* The lists hold buffers.
LEMMA ListsOfBuf ==
    ASSUME TypeOK
    PROVE  /\ Elems(pool) \subseteq Buf /\ Elems(queue) \subseteq Buf
           /\ NoBuf \notin Elems(pool) /\ NoBuf \notin Elems(queue)
           /\ Len(queue) \in Nat /\ Len(accepted) \in Nat /\ Len(sent) \in Nat
  BY NoBufAssumption, ElementOfSeq, LenProperties DEF TypeOK, Elems

\* A pushed packet changes its owner and is the last of those accepted.
LEMMA PushOwn ==
    ASSUME IInv, NEW t \in Sender, Push(t)
    PROVE  OwnInv' /\ DataInv' /\ FifoInv' /\ PcInv'
<1>1. TypeOK /\ OwnInv /\ PcInv /\ DataInv /\ FifoInv BY DEF IInv
<1> DEFINE b == held[t]
<1>2. /\ pc[t] = "push" /\ queue' = Append(queue, b) /\ accepted' = Append(accepted, data[b])
      /\ held' = [held EXCEPT ![t] = NoBuf] /\ pc' = [pc EXCEPT ![t] = "want"]
      /\ pool' = pool /\ alloc' = alloc
      /\ data' = data /\ cur' = cur /\ loopPc' = loopPc /\ sent' = sent
  BY DEF Push, loopVars, poolVars
<1>3. b # NoBuf /\ b \in Buf /\ b \notin Elems(pool) /\ b \notin Elems(queue) /\ b # cur
  BY <1>1, <1>2 DEF TypeOK, PcInv, OwnInv, HeldInv
<1>4. \A u \in Sender : u # t => held[u] # b BY <1>1, <1>3 DEF OwnInv, HeldInv
<1>5. \A u \in Sender : held'[u] = (IF u = t THEN NoBuf ELSE held[u]) /\ pc'[u] = (IF u = t THEN "want" ELSE pc[u])
  BY <1>1, <1>2 DEF TypeOK
<1>6. data[b] \in Packet
  <2>1. b \in alloc BY <1>1, <1>3 DEF OwnInv, AllocInv
  <2>2. QED BY <1>1, <2>1 DEF DataInv
<1>7. held[t] = b OBVIOUS
<1> HIDE DEF b
<1>8. /\ queue' \in Seq(Buf) /\ Len(queue') = Len(queue) + 1 /\ Unique(queue')
      /\ Elems(queue') = Elems(queue) \cup {b}
  BY <1>1, <1>2, <1>3, AppendElems DEF TypeOK, OwnInv, ListsInv
<1>9. OwnInv'
  <2>1. ListsInv' BY <1>1, <1>2, <1>3, <1>8 DEF OwnInv, ListsInv
  <2>2. HeldInv'
    <3> SUFFICES ASSUME NEW u \in Sender
                 PROVE  /\ held'[u] \notin Elems(pool) /\ held'[u] \notin Elems(queue')
                        /\ held'[u] # NoBuf => held'[u] # cur
                        /\ \A v \in Sender : held'[u] # NoBuf /\ held'[u] = held'[v] => u = v
      BY <1>2 DEF HeldInv
    <3>1. CASE u = t BY <1>1, <1>3, <1>5, <1>8, <3>1, ListsOfBuf
    <3>2. CASE u # t BY <1>1, <1>4, <1>5, <1>8, <3>2 DEF OwnInv, HeldInv
    <3>3. QED BY <3>1, <3>2
  <2>3. AllocInv'
    <3> SUFFICES ASSUME NEW x \in Buf
                 PROVE  x \in alloc <=> \/ x \in Elems(pool) \/ x \in Elems(queue') \/ x = cur
                                        \/ \E u \in Sender : held'[u] = x
      BY <1>2 DEF AllocInv
    <3>1. (\E u \in Sender : held'[u] = x) <=> x # b /\ (\E u \in Sender : held[u] = x)
      BY <1>4, <1>5, <1>7, NoBufAssumption
    <3>2. \E u \in Sender : held[u] = b BY <1>7
    <3>3. QED BY <1>1, <1>3, <1>8, <3>1, <3>2 DEF OwnInv, AllocInv
  <2>4. QED BY <2>1, <2>2, <2>3 DEF OwnInv
<1>10. DataInv' BY <1>1, <1>2 DEF DataInv
<1>11. FifoInv'
  <2>0. Len(queue) \in Nat /\ Len(accepted) \in Nat /\ Len(sent) \in Nat BY <1>1, ListsOfBuf
  <2>1. Popped' = Popped /\ Popped \in Nat /\ (cur # NoBuf => Popped = 1) BY <1>2 DEF Popped
  <2>2. /\ Len(accepted') = Len(accepted) + 1
        /\ \A i \in 1 .. Len(accepted) : accepted'[i] = accepted[i]
        /\ accepted'[Len(accepted) + 1] = data[b]
    BY <1>1, <1>2, <1>6, AppendProperties DEF TypeOK
  <2>3. /\ \A i \in 1 .. Len(queue) : queue'[i] = queue[i]
        /\ queue'[Len(queue) + 1] = b
    BY <1>1, <1>2, <1>3, AppendProperties DEF TypeOK
  <2>4. Len(accepted) = Len(sent) + Popped + Len(queue) BY <1>1 DEF FifoInv
  <2>5. Len(accepted') = Len(sent) + Popped + Len(queue') BY <2>0, <2>1, <2>2, <2>4, <1>8
  <2>6. \A i \in 1 .. Len(sent) : sent[i] = accepted'[i]
    BY <1>1, <2>0, <2>1, <2>2, <2>4 DEF FifoInv
  <2>7. cur # NoBuf => data[cur] = accepted'[Len(sent) + 1]
    <3>1. cur # NoBuf => Len(sent) + 1 \in 1 .. Len(accepted) BY <2>0, <2>1, <2>4
    <3>2. QED BY <1>1, <2>2, <3>1 DEF FifoInv
  <2>8. ASSUME NEW i \in 1 .. Len(queue') PROVE data[queue'[i]] = accepted'[Len(sent) + Popped + i]
    <3>1. CASE i \in 1 .. Len(queue)
      <4>1. Len(sent) + Popped + i \in 1 .. Len(accepted) BY <2>0, <2>1, <2>4, <3>1
      <4>2. QED BY <1>1, <2>2, <2>3, <3>1, <4>1 DEF FifoInv
    <3>2. CASE i = Len(queue) + 1
      <4>1. Len(sent) + Popped + i = Len(accepted) + 1 BY <2>0, <2>1, <2>4, <3>2
      <4>2. QED BY <2>2, <2>3, <3>2, <4>1
    <3>3. QED BY <1>8, <2>0, <3>1, <3>2
  <2>9. QED BY <1>2, <2>1, <2>5, <2>6, <2>7, <2>8 DEF FifoInv
<1>12. PcInv' BY <1>1, <1>2, <1>5 DEF PcInv
<1>13. QED BY <1>9, <1>10, <1>11, <1>12

\* pop moves the first packet of the queue, if there is one, to handleSend.
LEMMA popOwn ==
    ASSUME IInv, pop, queue # << >>
    PROVE  OwnInv' /\ DataInv' /\ FifoInv' /\ PcInv'
<1>1. TypeOK /\ OwnInv /\ PcInv /\ DataInv /\ FifoInv BY DEF IInv
<1>2. /\ loopPc = "pop" /\ loopPc' = "send" /\ cur' = Head(queue) /\ queue' = Tail(queue)
      /\ pool' = pool /\ alloc' = alloc /\ held' = held /\ pc' = pc
      /\ data' = data /\ accepted' = accepted /\ sent' = sent
  BY DEF pop, pushVars, poolVars, sendVars
<1>3. /\ Len(queue') = Len(queue) - 1 /\ cur' = queue[1] /\ cur' \in Elems(queue)
      /\ \A i \in 1 .. Len(queue') : queue'[i] = queue[i + 1]
      /\ Elems(queue') = Elems(queue) \ {cur'} /\ Unique(queue')
  BY <1>1, <1>2, TailElems DEF TypeOK, OwnInv, ListsInv
<1>4. cur = NoBuf BY <1>1, <1>2 DEF PcInv
<1>5. cur' \in Buf /\ cur' # NoBuf BY <1>1, <1>3, ListsOfBuf
<1>6. OwnInv'
  <2>1. ListsInv' BY <1>1, <1>2, <1>3 DEF OwnInv, ListsInv
  <2>2. HeldInv' BY <1>1, <1>2, <1>3 DEF OwnInv, HeldInv
  <2>3. AllocInv' BY <1>1, <1>2, <1>3, <1>4, NoBufAssumption DEF OwnInv, AllocInv
  <2>4. QED BY <2>1, <2>2, <2>3 DEF OwnInv
<1>7. DataInv' BY <1>1, <1>2 DEF DataInv
<1>8. FifoInv'
  <2>0. Len(queue) \in Nat /\ Len(accepted) \in Nat /\ Len(sent) \in Nat /\ Len(queue) >= 1
    BY <1>1, ListsOfBuf, EmptySeq DEF TypeOK
  <2>1. Popped' = 1 /\ Popped = 0 BY <1>4, <1>5 DEF Popped
  <2>2. Len(accepted) = Len(sent) + Len(queue) BY <1>1, <2>0, <2>1 DEF FifoInv
  <2>3. \A i \in 1 .. Len(queue) : data[queue[i]] = accepted[Len(sent) + i]
    BY <1>1, <2>0, <2>1 DEF FifoInv
  <2>4. Len(accepted) = Len(sent) + 1 + Len(queue') BY <1>3, <2>0, <2>2
  <2>5. data[cur'] = accepted[Len(sent) + 1] BY <1>3, <2>0, <2>3
  <2>6. ASSUME NEW i \in 1 .. Len(queue') PROVE data[queue'[i]] = accepted[Len(sent) + 1 + i]
    <3>1. i + 1 \in 1 .. Len(queue) /\ Len(sent) + (i + 1) = Len(sent) + 1 + i BY <1>3, <2>0
    <3>2. data[queue[i + 1]] = accepted[Len(sent) + (i + 1)] BY <2>3, <3>1
    <3>3. QED BY <1>3, <3>1, <3>2
  <2>7. \A i \in 1 .. Len(sent) : sent[i] = accepted[i] BY <1>1 DEF FifoInv
  <2>8. QED BY <1>2, <2>1, <2>4, <2>5, <2>6, <2>7 DEF FifoInv
<1>9. PcInv' BY <1>1, <1>2, <1>5 DEF PcInv
<1>10. QED BY <1>6, <1>7, <1>8, <1>9

\* What handleSend has popped is a buffer that nobody else has.
LEMMA PoppedOwn ==
    ASSUME IInv, loopPc = "send"
    PROVE  /\ cur # NoBuf /\ cur \in Buf /\ cur \in alloc /\ data[cur] \in Packet
           /\ cur \notin Elems(pool) /\ cur \notin Elems(queue)
           /\ \A t \in Sender : held[t] # cur
<1>1. TypeOK /\ OwnInv /\ PcInv /\ DataInv BY DEF IInv
<1>2. cur # NoBuf /\ cur \in Buf BY <1>1 DEF PcInv, TypeOK
<1>3. cur \in alloc BY <1>1, <1>2 DEF OwnInv, AllocInv
<1>4. data[cur] \in Packet BY <1>1, <1>3 DEF DataInv
<1>5. cur \notin Elems(pool) /\ cur \notin Elems(queue) BY <1>1 DEF OwnInv, ListsInv
<1>6. \A t \in Sender : held[t] # cur BY <1>1, <1>2 DEF OwnInv, HeldInv
<1>7. QED BY <1>2, <1>3, <1>4, <1>5, <1>6

\* A packet that was sent is the first of those not yet sent.
LEMMA sendToOwn ==
    ASSUME IInv, sendTo
    PROVE  OwnInv' /\ DataInv' /\ FifoInv' /\ PcInv'
<1>1. TypeOK /\ OwnInv /\ PcInv /\ DataInv /\ FifoInv BY DEF IInv
<1>2. /\ loopPc = "send" /\ loopPc' = "pop" /\ cur' = NoBuf /\ queue' = queue /\ Release(cur)
      /\ held' = held /\ pc' = pc /\ data' = data /\ accepted' = accepted
      /\ sent' = Append(sent, data[cur])
  BY DEF sendTo, pushVars, sendVars
<1>3. /\ cur # NoBuf /\ cur \in Buf /\ cur \in alloc /\ data[cur] \in Packet
      /\ cur \notin Elems(pool) /\ cur \notin Elems(queue)
      /\ \A t \in Sender : held[t] # cur
  BY <1>2, PoppedOwn
<1>4. /\ Unique(pool')
      /\ \/ Elems(pool') = Elems(pool) /\ alloc' = alloc \ {cur}
         \/ Elems(pool') = Elems(pool) \cup {cur} /\ alloc' = alloc
  BY <1>1, <1>2, <1>3, ReleaseOK
<1>5. NoBuf \notin Elems(pool) /\ NoBuf \notin Elems(queue) BY <1>1, ListsOfBuf
<1>6. OwnInv'
  <2>1. ListsInv' BY <1>1, <1>2, <1>3, <1>4, <1>5 DEF OwnInv, ListsInv
  <2>2. HeldInv' BY <1>1, <1>2, <1>3, <1>4 DEF OwnInv, HeldInv
  <2>3. AllocInv'
    <3> SUFFICES ASSUME NEW x \in Buf
                 PROVE  x \in alloc' <=> \/ x \in Elems(pool') \/ x \in Elems(queue) \/ x = NoBuf
                                         \/ \E u \in Sender : held[u] = x
      BY <1>2 DEF AllocInv
    <3>1. x # NoBuf BY NoBufAssumption
    <3>2. QED BY <1>1, <1>3, <1>4, <3>1 DEF OwnInv, AllocInv
  <2>4. QED BY <2>1, <2>2, <2>3 DEF OwnInv
<1>7. DataInv' BY <1>1, <1>2, <1>4 DEF DataInv
<1>8. FifoInv'
  <2>0. Len(queue) \in Nat /\ Len(accepted) \in Nat /\ Len(sent) \in Nat BY <1>1, ListsOfBuf
  <2>1. Popped' = 0 /\ Popped = 1 BY <1>2, <1>3 DEF Popped
  <2>2. /\ Len(sent') = Len(sent) + 1
        /\ \A i \in 1 .. Len(sent) : sent'[i] = sent[i]
        /\ sent'[Len(sent) + 1] = data[cur]
    BY <1>1, <1>2, <1>3, AppendProperties DEF TypeOK
  <2>3. Len(accepted) = Len(sent') + Popped' + Len(queue) BY <1>1, <2>0, <2>1, <2>2 DEF FifoInv
  <2>4. ASSUME NEW i \in 1 .. Len(sent') PROVE sent'[i] = accepted[i]
    <3>1. i \in 1 .. Len(sent) \/ i = Len(sent) + 1 BY <2>0, <2>2
    <3>2. QED BY <1>1, <1>3, <2>2, <3>1 DEF FifoInv
  <2>5. \A i \in 1 .. Len(queue) : data[queue[i]] = accepted[Len(sent') + Popped' + i]
    <3>1. Len(sent') + Popped' = Len(sent) + Popped BY <2>0, <2>1, <2>2
    <3>2. QED BY <1>1, <3>1 DEF FifoInv
  <2>6. QED BY <1>2, <2>3, <2>4, <2>5 DEF FifoInv
<1>9. PcInv' BY <1>1, <1>2 DEF PcInv
<1>10. QED BY <1>6, <1>7, <1>8, <1>9

\* A packet that could not be sent is the first of the queue again.
LEMMA PushFrontOwn ==
    ASSUME IInv, PushFront
    PROVE  OwnInv' /\ DataInv' /\ FifoInv' /\ PcInv'
<1>1. TypeOK /\ OwnInv /\ PcInv /\ DataInv /\ FifoInv BY DEF IInv
<1>2. /\ loopPc = "send" /\ loopPc' = "empty" /\ cur' = NoBuf /\ queue' = <<cur>> \o queue
      /\ pool' = pool /\ alloc' = alloc
      /\ held' = held /\ pc' = pc /\ data' = data /\ accepted' = accepted /\ sent' = sent
  BY DEF PushFront, pushVars, poolVars, sendVars
<1>3. /\ cur # NoBuf /\ cur \in Buf /\ cur \notin Elems(pool) /\ cur \notin Elems(queue)
      /\ \A t \in Sender : held[t] # cur
  BY <1>2, PoppedOwn
<1>4. /\ queue' \in Seq(Buf) /\ Len(queue') = Len(queue) + 1 /\ queue'[1] = cur
      /\ \A i \in 1 .. Len(queue) : queue'[i + 1] = queue[i]
      /\ Elems(queue') = Elems(queue) \cup {cur} /\ Unique(queue')
  BY <1>1, <1>2, <1>3, ConsElems DEF TypeOK, OwnInv, ListsInv
<1>5. NoBuf \notin Elems(pool) /\ NoBuf \notin Elems(queue) BY <1>1, ListsOfBuf
<1>6. OwnInv'
  <2>1. ListsInv' BY <1>1, <1>2, <1>3, <1>4, <1>5 DEF OwnInv, ListsInv
  <2>2. HeldInv' BY <1>1, <1>2, <1>3, <1>4 DEF OwnInv, HeldInv
  <2>3. AllocInv' BY <1>1, <1>2, <1>3, <1>4, NoBufAssumption DEF OwnInv, AllocInv
  <2>4. QED BY <2>1, <2>2, <2>3 DEF OwnInv
<1>7. DataInv' BY <1>1, <1>2 DEF DataInv
<1>8. FifoInv'
  <2>0. Len(queue) \in Nat /\ Len(accepted) \in Nat /\ Len(sent) \in Nat BY <1>1, ListsOfBuf
  <2>1. Popped' = 0 /\ Popped = 1 BY <1>2, <1>3 DEF Popped
  <2>2. Len(accepted) = Len(sent) + Popped' + Len(queue') BY <1>1, <1>4, <2>0, <2>1 DEF FifoInv
  <2>3. ASSUME NEW i \in 1 .. Len(queue') PROVE data[queue'[i]] = accepted[Len(sent) + Popped' + i]
    <3>1. CASE i = 1
      <4>1. Len(sent) + Popped' + i = Len(sent) + 1 BY <2>0, <2>1, <3>1
      <4>2. QED BY <1>1, <1>3, <1>4, <3>1, <4>1 DEF FifoInv
    <3>2. CASE i # 1
      <4>1. i - 1 \in 1 .. Len(queue) /\ (i - 1) + 1 = i BY <1>4, <2>0, <3>2
      <4>2. queue'[i] = queue[i - 1] BY <1>4, <4>1
      <4>3. Len(sent) + Popped + (i - 1) = Len(sent) + Popped' + i BY <2>0, <2>1, <4>1
      <4>4. data[queue[i - 1]] = accepted[Len(sent) + Popped + (i - 1)] BY <1>1, <4>1 DEF FifoInv
      <4>5. QED BY <4>2, <4>3, <4>4
    <3>3. QED BY <3>1, <3>2
  <2>4. \A i \in 1 .. Len(sent) : sent[i] = accepted[i] BY <1>1 DEF FifoInv
  <2>5. QED BY <1>2, <2>2, <2>3, <2>4 DEF FifoInv
<1>9. PcInv' BY <1>1, <1>2 DEF PcInv
<1>10. QED BY <1>6, <1>7, <1>8, <1>9

\* The steps that touch the mask, the state or nothing but the control.
MaskStep == \E t \in Sender : postSend(t) \/ getPostEvents(t) \/ pollModChannel(t)
LoopStep ==
    \/ pollOut \/ isEmpty \/ postRecv \/ loopGetPostEvents \/ loopPollModChannel
    \/ (pop /\ queue = << >>)
StateStep == postTimeout \/ setRemoteAddress \/ close \/ UNCHANGED vars

\* Steps of the control move no buffer and leave every list as it is.
LEMMA ControlOwn ==
    ASSUME IInv, MaskStep \/ LoopStep \/ StateStep
    PROVE  OwnInv' /\ DataInv' /\ FifoInv' /\ PcInv' /\ UNCHANGED ownVars
<1>1. TypeOK /\ OwnInv /\ PcInv /\ DataInv /\ FifoInv BY DEF IInv
<1>2. UNCHANGED ownVars
  <2> USE DEF ownVars, poolVars, sendVars, loopVars, pushVars
  <2>1. CASE MaskStep BY <2>1 DEF MaskStep, postSend, getPostEvents, pollModChannel
  <2>2. CASE LoopStep
    BY <2>2 DEF LoopStep, pollOut, isEmpty, postRecv, loopGetPostEvents, loopPollModChannel, pop
  <2>3. CASE StateStep BY <2>3 DEF StateStep, postTimeout, setRemoteAddress, close, vars
  <2>4. QED BY <2>1, <2>2, <2>3
<1>3. \A t \in Sender : pc'[t] = "push" <=> pc[t] = "push"
  <2>1. CASE MaskStep
    <3>1. PICK t \in Sender : postSend(t) \/ getPostEvents(t) \/ pollModChannel(t) BY <2>1 DEF MaskStep
    <3>2. /\ pc[t] \in Busy
          /\ \E x \in {"read", "mod", "idle"} : pc' = [pc EXCEPT ![t] = x]
      BY <3>1 DEF postSend, getPostEvents, pollModChannel, Busy
    <3>3. QED BY <1>1, <3>2 DEF TypeOK, Busy
  <2>2. CASE LoopStep
    BY <2>2 DEF LoopStep, pollOut, isEmpty, postRecv, loopGetPostEvents, loopPollModChannel, pop, sendVars
  <2>3. CASE StateStep BY <2>3 DEF StateStep, postTimeout, setRemoteAddress, close, vars, sendVars
  <2>4. QED BY <2>1, <2>2, <2>3
<1>4. loopPc' = "send" <=> loopPc = "send"
  <2>1. CASE MaskStep BY <2>1 DEF MaskStep, postSend, getPostEvents, pollModChannel, loopVars
  <2>2. CASE LoopStep
    BY <2>2 DEF LoopStep, pollOut, isEmpty, postRecv, loopGetPostEvents, loopPollModChannel, pop
  <2>3. CASE StateStep BY <2>3 DEF StateStep, postTimeout, setRemoteAddress, close, vars, loopVars
  <2>4. QED BY <2>1, <2>2, <2>3
<1>5. OwnInv' BY <1>1, <1>2 DEF ownVars, OwnInv, ListsInv, HeldInv, AllocInv
<1>6. DataInv' BY <1>1, <1>2 DEF ownVars, DataInv
<1>7. FifoInv' BY <1>1, <1>2 DEF ownVars, FifoInv, Popped
<1>8. PcInv' BY <1>1, <1>2, <1>3, <1>4 DEF ownVars, PcInv
<1>9. QED BY <1>2, <1>5, <1>6, <1>7, <1>8

\* The three actions of a sender that move a buffer, and those of handleSend.
SenderOwn == \E t \in Sender : (\E b \in Buf : getBuffer(t, b)) \/ abandon(t) \/ Push(t)
LoopOwn == (pop /\ queue # << >>) \/ sendTo \/ PushFront

\* Every step is one of these.
LEMMA StepKinds ==
    ASSUME [Next]_vars
    PROVE  SenderOwn \/ LoopOwn \/ MaskStep \/ LoopStep \/ StateStep
  BY DEF Next, SenderNext, handleSend, SenderOwn, LoopOwn, MaskStep, LoopStep, StateStep

\* Buffers keep one owner, and packets their order.
LEMMA OwnStep ==
    ASSUME IInv, [Next]_vars
    PROVE  OwnInv' /\ DataInv' /\ FifoInv' /\ PcInv'
<1>1. CASE SenderOwn BY <1>1, getBufferOwn, abandonOwn, PushOwn DEF SenderOwn
<1>2. CASE LoopOwn BY <1>2, popOwn, sendToOwn, PushFrontOwn DEF LoopOwn
<1>3. CASE MaskStep \/ LoopStep \/ StateStep BY <1>3, ControlOwn
<1>4. QED BY <1>1, <1>2, <1>3, StepKinds

-----------------------------------------------------------------------------
(* Types.                                                                   *)

\* The types of the lists, the packets and the owners.
OwnType ==
    /\ pool \in Seq(Buf) /\ Len(pool) <= PoolLen
    /\ alloc \subseteq Buf
    /\ data \in [Buf -> Packet \cup {NoPacket}]
    /\ queue \in Seq(Buf)
    /\ held \in [Sender -> Buf \cup {NoBuf}]
    /\ cur \in Buf \cup {NoBuf}
    /\ accepted \in Seq(Packet)
    /\ sent \in Seq(Packet)
\* The types of the control.
ControlType ==
    /\ {wantOut, armed, open, closed, posted, loopArg, slipped} \subseteq BOOLEAN
    /\ pc \in [Sender -> {"idle", "push", "want", "read", "mod"}]
    /\ arg \in [Sender -> BOOLEAN]
    /\ count \in 0 .. MaxPush
    /\ loopPc \in {"wait", "pop", "send", "empty", "want", "read", "mod"}

\* The type invariant in its two parts.
LEMMA TypeParts == TypeOK <=> OwnType /\ ControlType
  BY DEF TypeOK, OwnType, ControlType

\* A sender's steps keep the types of the pool, the queue and the histories.
LEMMA SenderOwnType ==
    ASSUME IInv, SenderOwn
    PROVE  OwnType'
<1>1. TypeOK /\ OwnType /\ OwnInv /\ PcInv /\ DataInv BY TypeParts DEF IInv
<1>2. PICK t \in Sender : (\E b \in Buf : getBuffer(t, b)) \/ abandon(t) \/ Push(t) BY DEF SenderOwn
<1>3. CASE \E b \in Buf : getBuffer(t, b)
  <2>1. PICK b \in Buf : getBuffer(t, b) BY <1>3
  <2>2. /\ GetMemery(b) /\ held' = [held EXCEPT ![t] = b] /\ data' = [data EXCEPT ![b] = count + 1]
        /\ count < MaxPush
        /\ queue' = queue /\ cur' = cur /\ accepted' = accepted /\ sent' = sent
    BY <2>1 DEF getBuffer, loopVars, pushVars
  <2>3. pool' \in Seq(Buf) /\ Len(pool') <= PoolLen /\ alloc' = alloc \cup {b}
    BY <1>1, <2>2, GetMemeryOK
  <2>4. count + 1 \in Packet BY <1>1, <2>2, BoundAssumption DEF TypeOK, Packet
  <2>5. QED BY <1>1, <2>2, <2>3, <2>4 DEF OwnType
<1>4. CASE abandon(t)
  <2>1. /\ pc[t] = "push" /\ Release(held[t]) /\ held' = [held EXCEPT ![t] = NoBuf]
        /\ data' = data /\ queue' = queue /\ cur' = cur /\ accepted' = accepted /\ sent' = sent
    BY <1>4 DEF abandon, loopVars, pushVars
  <2>2. held[t] \in Buf /\ held[t] \notin Elems(pool)
    BY <1>1, <2>1 DEF OwnType, PcInv, OwnInv, HeldInv
  <2>3. pool' \in Seq(Buf) /\ Len(pool') <= PoolLen /\ (alloc' = alloc \ {held[t]} \/ alloc' = alloc)
    BY <1>1, <2>1, <2>2, ReleaseOK
  <2>4. QED BY <1>1, <2>1, <2>3 DEF OwnType
<1>5. CASE Push(t)
  <2>1. /\ pc[t] = "push" /\ queue' = Append(queue, held[t]) /\ accepted' = Append(accepted, data[held[t]])
        /\ held' = [held EXCEPT ![t] = NoBuf] /\ pool' = pool /\ alloc' = alloc
        /\ data' = data /\ cur' = cur /\ sent' = sent
    BY <1>5 DEF Push, loopVars, poolVars
  <2>2. held[t] \in Buf BY <1>1, <2>1 DEF OwnType, PcInv
  <2>3. held[t] \in alloc BY <1>1, <2>2 DEF OwnInv, AllocInv
  <2>4. data[held[t]] \in Packet BY <1>1, <2>3 DEF DataInv
  <2>5. queue' \in Seq(Buf) BY <1>1, <2>1, <2>2, AppendProperties DEF OwnType
  <2>6. accepted' \in Seq(Packet) BY <1>1, <2>1, <2>4, AppendProperties DEF OwnType
  <2>7. QED BY <1>1, <2>1, <2>5, <2>6 DEF OwnType
<1>6. QED BY <1>2, <1>3, <1>4, <1>5

\* So do the loop's.
LEMMA LoopOwnType ==
    ASSUME IInv, LoopOwn
    PROVE  OwnType'
<1>1. TypeOK /\ OwnType /\ OwnInv /\ PcInv /\ DataInv BY TypeParts DEF IInv
<1>2. CASE pop /\ queue # << >>
  <2>1. /\ cur' = Head(queue) /\ queue' = Tail(queue)
        /\ pool' = pool /\ alloc' = alloc /\ held' = held
        /\ data' = data /\ accepted' = accepted /\ sent' = sent
    BY <1>2 DEF pop, pushVars, poolVars, sendVars
  <2>2. cur' \in Buf /\ queue' \in Seq(Buf) BY <1>1, <1>2, <2>1, HeadTailProperties DEF OwnType
  <2>3. QED BY <1>1, <2>1, <2>2 DEF OwnType
<1>3. CASE sendTo
  <2>1. /\ loopPc = "send" /\ cur' = NoBuf /\ queue' = queue /\ Release(cur)
        /\ held' = held /\ data' = data /\ accepted' = accepted
        /\ sent' = Append(sent, data[cur])
    BY <1>3 DEF sendTo, pushVars, sendVars
  <2>2. cur \in Buf /\ data[cur] \in Packet /\ cur \notin Elems(pool) BY <2>1, PoppedOwn
  <2>3. pool' \in Seq(Buf) /\ Len(pool') <= PoolLen /\ (alloc' = alloc \ {cur} \/ alloc' = alloc)
    BY <1>1, <2>1, <2>2, ReleaseOK
  <2>4. sent' \in Seq(Packet) BY <1>1, <2>1, <2>2, AppendProperties DEF OwnType
  <2>5. QED BY <1>1, <2>1, <2>3, <2>4 DEF OwnType
<1>4. CASE PushFront
  <2>1. /\ loopPc = "send" /\ cur' = NoBuf /\ queue' = <<cur>> \o queue
        /\ pool' = pool /\ alloc' = alloc
        /\ held' = held /\ data' = data /\ accepted' = accepted /\ sent' = sent
    BY <1>4 DEF PushFront, pushVars, poolVars, sendVars
  <2>2. cur \in Buf BY <2>1, PoppedOwn
  <2>3. queue' \in Seq(Buf) BY <1>1, <2>1, <2>2, ConsElems DEF OwnType
  <2>4. QED BY <1>1, <2>1, <2>3 DEF OwnType
<1>5. QED BY <1>2, <1>3, <1>4 DEF LoopOwn

\* Every step keeps the types of the control.
LEMMA ControlTypeStep ==
    ASSUME IInv, [Next]_vars
    PROVE  ControlType'
<1>1. ControlType BY TypeParts DEF IInv
<1> USE <1>1 DEF ControlType
<1>2. CASE SenderOwn
  <2>1. PICK t \in Sender : (\E b \in Buf : getBuffer(t, b)) \/ abandon(t) \/ Push(t) BY <1>2 DEF SenderOwn
  <2>2. CASE \E b \in Buf : getBuffer(t, b)
    BY <2>2, BoundAssumption DEF getBuffer, loopVars, pushVars, maskVars, chlVars
  <2>3. CASE abandon(t) BY <2>3 DEF abandon, loopVars, pushVars, maskVars, chlVars
  <2>4. CASE Push(t)
    <3>1. slipped' \in BOOLEAN BY <2>4 DEF Push
    <3>2. QED BY <2>4, <3>1 DEF Push, loopVars, pushVars, maskVars, chlVars
  <2>5. QED BY <2>1, <2>2, <2>3, <2>4
<1>3. CASE LoopOwn BY <1>3 DEF LoopOwn, pop, sendTo, PushFront, pushVars, maskVars, chlVars, sendVars
<1>4. CASE MaskStep
  BY <1>4 DEF MaskStep, postSend, getPostEvents, pollModChannel, loopVars, pushVars, maskVars, chlVars
<1>5. CASE LoopStep
  BY <1>5 DEF LoopStep, pollOut, isEmpty, postRecv, loopGetPostEvents, loopPollModChannel, pop,
              pushVars, maskVars, chlVars, sendVars
<1>6. CASE StateStep
  BY <1>6 DEF StateStep, postTimeout, setRemoteAddress, close, vars, pushVars, maskVars, chlVars,
              sendVars, loopVars
<1>7. QED BY <1>2, <1>3, <1>4, <1>5, <1>6, StepKinds

\* Every step keeps the types.
LEMMA TypeStep ==
    ASSUME IInv, [Next]_vars
    PROVE  TypeOK'
<1>1. OwnType'
  <2>1. CASE SenderOwn BY <2>1, SenderOwnType
  <2>2. CASE LoopOwn BY <2>2, LoopOwnType
  <2>3. CASE MaskStep \/ LoopStep \/ StateStep
    BY <2>3, ControlOwn, TypeParts DEF IInv, ownVars, OwnType
  <2>4. QED BY <2>1, <2>2, <2>3, StepKinds
<1>2. ControlType' BY ControlTypeStep
<1>3. (TypeOK <=> OwnType /\ ControlType)' BY TypeParts DEF TypeOK, OwnType, ControlType
<1>4. QED BY <1>1, <1>2, <1>3

-----------------------------------------------------------------------------
(* No packet is forgotten.                                                  *)

\* A packet waits, and was pushed while no other thread was at the mask.
Waiting == open /\ ~slipped /\ (queue # << >> \/ cur # NoBuf)
AtMask ==
    /\ loopPc \notin Busy
    /\ \A t \in Sender : \A u \in Sender : pc[t] \in Busy /\ pc[u] \in Busy => t = u
    /\ (\A t \in Sender : pc[t] \notin Busy) => armed
    /\ \A t \in Sender : (pc[t] = "read" => wantOut) /\ (pc[t] = "mod" => arg[t])

\* WaitInv is about these two.
LEMMA WaitParts == WaitInv <=> (Waiting => AtMask)
  BY DEF WaitInv, Waiting, AtMask

\* A push that is not slipped finds nobody at the mask; a buffer that is taken or
\* given up leaves the mask alone.
LEMMA SenderOwnWait ==
    ASSUME IInv, SenderOwn, Waiting'
    PROVE  AtMask'
<1>1. ControlType /\ (Waiting => AtMask) BY TypeParts, WaitParts DEF IInv
<1>2. PICK t \in Sender : (\E b \in Buf : getBuffer(t, b)) \/ abandon(t) \/ Push(t) BY DEF SenderOwn
<1>3. CASE (\E b \in Buf : getBuffer(t, b)) \/ abandon(t)
  <2>1. /\ UNCHANGED <<queue, cur, loopPc, slipped, open, wantOut, armed, arg>>
        /\ pc[t] \notin Busy
        /\ \E x \in {"idle", "push"} : pc' = [pc EXCEPT ![t] = x]
    BY <1>3 DEF getBuffer, abandon, Busy, loopVars, pushVars, maskVars, chlVars
  <2>2. \A u \in Sender : pc'[u] = pc[u] \/ (u = t /\ pc'[u] \notin Busy /\ pc[u] \notin Busy)
    BY <1>1, <2>1 DEF ControlType, Busy
  <2>3. Waiting BY <2>1 DEF Waiting
  <2>4. QED BY <1>1, <2>1, <2>2, <2>3 DEF AtMask, Busy
<1>4. CASE Push(t)
  <2>1. /\ pc' = [pc EXCEPT ![t] = "want"]
        /\ UNCHANGED <<loopPc, wantOut, armed, arg>>
        /\ slipped' = \/ loopPc \in {"want", "read", "mod"}
                      \/ \E u \in Sender \ {t} : pc[u] \in {"want", "read", "mod"}
                      \/ slipped /\ (queue # << >> \/ cur # NoBuf)
    BY <1>4 DEF Push, loopVars, maskVars
  <2>2. loopPc \notin Busy /\ \A u \in Sender : u # t => pc[u] \notin Busy
    BY <2>1 DEF Waiting, Busy
  <2>3. \A u \in Sender : pc'[u] = IF u = t THEN "want" ELSE pc[u] BY <1>1, <2>1 DEF ControlType
  <2>4. QED BY <2>1, <2>2, <2>3 DEF AtMask, Busy
<1>5. QED BY <1>2, <1>3, <1>4

\* handleSend leaves the mask alone while there are packets.
LEMMA LoopOwnWait ==
    ASSUME IInv, LoopOwn, Waiting'
    PROVE  AtMask'
<1>1. PcInv /\ (Waiting => AtMask) BY WaitParts DEF IInv
<1>2. /\ UNCHANGED <<pc, slipped, open, wantOut, armed, arg>>
      /\ queue # << >> \/ cur # NoBuf
      /\ loopPc' \notin Busy
  BY <1>1 DEF LoopOwn, pop, sendTo, PushFront, PcInv, Busy, pushVars, maskVars, chlVars, sendVars
<1>3. Waiting BY <1>2 DEF Waiting
<1>4. QED BY <1>1, <1>2, <1>3 DEF AtMask

\* The one thread at the mask asks for POLLOUT.
LEMMA MaskWait ==
    ASSUME IInv, MaskStep, Waiting'
    PROVE  AtMask'
<1>1. ControlType /\ (Waiting => AtMask) BY TypeParts, WaitParts DEF IInv
<1>2. PICK t \in Sender : postSend(t) \/ getPostEvents(t) \/ pollModChannel(t) BY DEF MaskStep
<1>3. UNCHANGED <<queue, cur, loopPc, slipped, open>>
  BY <1>2 DEF postSend, getPostEvents, pollModChannel, loopVars, pushVars, chlVars
<1>4. Waiting /\ AtMask /\ open BY <1>1, <1>3 DEF Waiting
<1>5. pc[t] \in Busy BY <1>2 DEF postSend, getPostEvents, pollModChannel, Busy
<1>6. \A u \in Sender : u # t => pc[u] \notin Busy BY <1>4, <1>5 DEF AtMask
<1>7. CASE postSend(t)
  <2>1. wantOut' = TRUE /\ pc' = [pc EXCEPT ![t] = "read"] BY <1>7 DEF postSend
  <2>2. \A u \in Sender : pc'[u] = IF u = t THEN "read" ELSE pc[u] BY <1>1, <2>1 DEF ControlType
  <2>3. QED BY <1>3, <1>4, <1>6, <2>1, <2>2 DEF AtMask, Busy
<1>8. CASE getPostEvents(t)
  <2>1. pc[t] = "read" /\ arg' = [arg EXCEPT ![t] = wantOut] /\ pc' = [pc EXCEPT ![t] = "mod"]
    BY <1>8 DEF getPostEvents
  <2>2. \A u \in Sender : pc'[u] = IF u = t THEN "mod" ELSE pc[u] BY <1>1, <2>1 DEF ControlType
  <2>3. wantOut BY <1>4, <2>1 DEF AtMask
  <2>4. arg'[t] BY <1>1, <2>1, <2>3 DEF ControlType
  <2>5. QED BY <1>3, <1>4, <1>6, <2>2, <2>4 DEF AtMask, Busy
<1>9. CASE pollModChannel(t)
  <2>1. pc[t] = "mod" /\ armed' = arg[t] /\ pc' = [pc EXCEPT ![t] = "idle"]
    BY <1>4, <1>9 DEF pollModChannel
  <2>2. \A u \in Sender : pc'[u] = IF u = t THEN "idle" ELSE pc[u] BY <1>1, <2>1 DEF ControlType
  <2>3. armed' BY <1>4, <2>1 DEF AtMask
  <2>4. QED BY <1>3, <1>4, <1>6, <2>2, <2>3 DEF AtMask, Busy
<1>10. QED BY <1>2, <1>7, <1>8, <1>9

\* postRecv is called over an empty queue only.
LEMMA LoopWait ==
    ASSUME IInv, LoopStep \/ StateStep, Waiting'
    PROVE  AtMask'
<1>1. PcInv /\ (Waiting => AtMask) BY WaitParts DEF IInv
<1>2. UNCHANGED <<queue, cur>> BY ControlOwn DEF ownVars
<1>3. CASE LoopStep
  <2>1. UNCHANGED <<pc, slipped, open, arg>>
    BY <1>3 DEF LoopStep, pollOut, isEmpty, postRecv, loopGetPostEvents, loopPollModChannel, pop,
                pushVars, chlVars, sendVars
  <2>2. Waiting /\ AtMask /\ loopPc \notin Busy BY <1>1, <1>2, <2>1 DEF Waiting, AtMask
  <2>3. CASE pollOut \/ (pop /\ queue = << >>)
    <3>1. UNCHANGED <<wantOut, armed>> /\ loopPc' \notin Busy
      BY <2>3 DEF pollOut, pop, maskVars, Busy
    <3>2. QED BY <2>1, <2>2, <3>1 DEF AtMask
  <2>4. CASE isEmpty
    <3>1. UNCHANGED <<wantOut, armed>> /\ loopPc = "empty" BY <2>4 DEF isEmpty, maskVars
    <3>2. cur = NoBuf BY <1>1, <3>1 DEF PcInv
    <3>3. queue # << >> BY <2>2, <3>2 DEF Waiting
    <3>4. loopPc' \notin Busy BY <2>4, <3>3 DEF isEmpty, Busy
    <3>5. QED BY <2>1, <2>2, <3>1, <3>4 DEF AtMask
  <2>5. CASE postRecv \/ loopGetPostEvents \/ loopPollModChannel
    BY <2>2, <2>5 DEF postRecv, loopGetPostEvents, loopPollModChannel, Busy
  <2>6. QED BY <1>3, <2>3, <2>4, <2>5 DEF LoopStep
<1>4. CASE StateStep
  <2>1. CASE close BY <2>1 DEF close, Waiting
  <2>2. CASE postTimeout \/ setRemoteAddress \/ UNCHANGED vars
    <3>1. UNCHANGED <<pc, slipped, open, arg, wantOut, armed, loopPc>>
      BY <2>2 DEF postTimeout, setRemoteAddress, vars, pushVars, maskVars, chlVars, sendVars, loopVars
    <3>2. Waiting BY <1>2, <3>1 DEF Waiting
    <3>3. QED BY <1>1, <3>1, <3>2 DEF AtMask
  <2>3. QED BY <1>4, <2>1, <2>2 DEF StateStep
<1>5. QED BY <1>3, <1>4

\* Every step keeps WaitInv.
LEMMA WaitStep ==
    ASSUME IInv, [Next]_vars
    PROVE  WaitInv'
<1>1. ASSUME Waiting' PROVE AtMask'
  BY <1>1, SenderOwnWait, LoopOwnWait, MaskWait, LoopWait, StepKinds
<1>2. QED BY <1>1 DEF WaitInv, Waiting, AtMask

-----------------------------------------------------------------------------

\* The invariant holds when the channel is registered with its loop.
LEMMA InitInv == Init => IInv
<1> SUFFICES ASSUME Init PROVE IInv
  OBVIOUS
<1> USE DEF Init
<1>1. TypeOK
  <2>1. OwnType
    <3>1. Len(pool) = 0 /\ PoolLen \in Nat BY BoundAssumption, EmptySeq
    <3>2. Len(pool) <= PoolLen BY <3>1
    <3>3. << >> \in Seq(Buf) /\ << >> \in Seq(Packet) BY EmptySeq
    <3>4. QED BY <3>2, <3>3 DEF OwnType
  <2>2. ControlType
    <3>1. count \in 0 .. MaxPush BY BoundAssumption
    <3>2. QED BY <3>1 DEF ControlType
  <2>3. QED BY <2>1, <2>2, TypeParts
<1>2. PcInv BY DEF PcInv
<1>3. Elems(pool) = {} /\ Unique(pool) /\ Elems(queue) = {} /\ Unique(queue)
  BY EmptySeq DEF Elems, Unique
<1>4. OwnInv BY <1>3, NoBufAssumption DEF OwnInv, ListsInv, HeldInv, AllocInv
<1>5. DataInv BY DEF DataInv
<1>6. FifoInv BY EmptySeq DEF FifoInv, Popped
<1>7. WaitInv BY DEF WaitInv
<1>8. QED BY <1>1, <1>2, <1>4, <1>5, <1>6, <1>7 DEF IInv

\* The inductive invariant of the queue, the pool and the mask.
THEOREM SendInvariance == Spec => []IInv
<1>1. IInv /\ [Next]_vars => IInv' BY OwnStep, TypeStep, WaitStep DEF IInv
<1>2. QED BY <1>1, InitInv, PTL DEF Spec

\* Every variable keeps its type, and the pool never has more than mempool_size
\* objects.
THEOREM SendTypes == Spec => []TypeOK
<1>1. IInv => TypeOK BY DEF IInv
<1>2. QED BY <1>1, SendInvariance, PTL

\* MemPool and Buffer: every DataBuffer that is allocated has exactly one owner,
\* whatever the interleaving of the senders and handleSend.
THEOREM BuffersAreOwned == Spec => []BufferOwned
<1>1. IInv => BufferOwned BY OwnersCounted DEF IInv
<1>2. QED BY <1>1, SendInvariance, PTL

\* A packet that was pushed while no other thread was between its access to
\* post_events_ and its epoll_ctl is waited for with POLLOUT.
THEOREM QueueIsWatched == Spec => []WaitsArmed
<1>1. IInv => WaitsArmed BY DEF IInv, WaitInv, WaitsArmed, Busy
<1>2. QED BY <1>1, SendInvariance, PTL

\* handleSend and its senders implement RelayFifo: a push is its Accept, a SendTo
\* that succeeds its Send of one packet, and every other step a stuttering step.
THEOREM ImplementsRelayFifo == Spec => RelaysInOrder
<1>1. Init => Fifo!Init BY DEF Init, Fifo!Init
<1>2. ASSUME IInv, [Next]_vars PROVE [Fifo!Next]_<<accepted, sent>>
  <2>1. TypeOK /\ FifoInv /\ PcInv /\ OwnInv /\ DataInv BY <1>2 DEF IInv
  <2>2. CASE \E t \in Sender : Push(t)
    <3>1. PICK t \in Sender : Push(t) BY <2>2
    <3>2. accepted' = Append(accepted, data[held[t]]) /\ sent' = sent /\ pc[t] = "push"
      BY <3>1 DEF Push
    <3>3. held[t] \in Buf BY <2>1, <3>2 DEF TypeOK, PcInv
    <3>4. held[t] \in alloc BY <2>1, <3>3 DEF OwnInv, AllocInv
    <3>5. data[held[t]] \in Packet BY <2>1, <3>4 DEF DataInv
    <3>6. QED BY <3>2, <3>5 DEF Fifo!Next, Fifo!Accept
  <2>3. CASE sendTo
    <3>1. loopPc = "send" /\ sent' = Append(sent, data[cur]) /\ accepted' = accepted
      BY <2>3 DEF sendTo, pushVars
    <3>2. cur # NoBuf /\ data[cur] \in Packet BY <1>2, <3>1, PoppedOwn
    <3> DEFINE n == Len(sent) + 1
               a == SubSeq(accepted, 1, n)
    <3>3. /\ Len(sent) \in Nat /\ Len(accepted) \in Nat /\ Len(queue) \in Nat
          /\ Len(accepted) = Len(sent) + 1 + Len(queue)
      BY <2>1, <3>2, ListsOfBuf DEF FifoInv, Popped
    <3>4. n \in Len(sent) + 1 .. Len(accepted) /\ n \in Nat /\ n >= 1 BY <3>3
    <3>5. \A i \in 1 .. n : i \in 1 .. Len(accepted) BY <3>3
    <3>6. \A i \in 1 .. n : accepted[i] \in Packet BY <2>1, <3>5, ElementOfSeq DEF TypeOK
    <3>7. a \in Seq(Packet) /\ Len(a) = n /\ \A i \in 1 .. n : a[i] = accepted[i]
      <4> HIDE DEF n
      <4>1. n \in Int /\ 1 \in Int /\ 1 <= n /\ n - 1 + 1 = n /\ \A i \in 1 .. n : 1 + i - 1 = i BY <3>4
      <4>2. /\ SubSeq(accepted, 1, n) \in Seq(Packet)
            /\ Len(SubSeq(accepted, 1, n)) = IF 1 <= n THEN n - 1 + 1 ELSE 0
            /\ \A i \in 1 .. n - 1 + 1 : SubSeq(accepted, 1, n)[i] = accepted[1 + i - 1]
        BY <3>6, <4>1, SubSeqProperties
      <4>3. QED BY <4>1, <4>2
    <3>8. /\ sent' \in Seq(Packet) /\ Len(sent') = n
          /\ \A i \in 1 .. Len(sent) : sent'[i] = sent[i]
          /\ sent'[n] = data[cur]
      BY <2>1, <3>1, <3>2, AppendProperties DEF TypeOK
    <3>9. ASSUME NEW i \in 1 .. n PROVE sent'[i] = accepted[i]
      <4>1. i \in 1 .. Len(sent) \/ i = n BY <3>3
      <4>2. accepted[n] = data[cur] BY <2>1, <3>2 DEF FifoInv
      <4> HIDE DEF n
      <4>3. QED BY <2>1, <3>8, <4>1, <4>2 DEF FifoInv
    <3>10. sent' = a
      <4> HIDE DEF n, a
      <4>1. QED BY <3>7, <3>8, <3>9, SeqEqual
    <3>11. QED BY <3>1, <3>4, <3>10 DEF Fifo!Next, Fifo!Send
  <2>4. CASE UNCHANGED <<accepted, sent>> BY <2>4
  <2>5. CASE (\E t \in Sender : (\E b \in Buf : getBuffer(t, b)) \/ abandon(t))
             \/ (pop /\ queue # << >>) \/ PushFront
    <3>1. UNCHANGED <<accepted, sent>> BY <2>5 DEF getBuffer, abandon, pop, PushFront, pushVars
    <3>2. QED BY <3>1
  <2>6. CASE MaskStep \/ LoopStep \/ StateStep BY <1>2, <2>6, ControlOwn DEF ownVars
  <2>7. QED BY <1>2, <2>2, <2>3, <2>5, <2>6, StepKinds DEF SenderOwn, LoopOwn
<1>3. QED BY <1>1, <1>2, SendInvariance, PTL DEF Spec, RelaysInOrder, Fifo!Spec
=============================================================================
