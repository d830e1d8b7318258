-------------------------- MODULE ClientLoopProofs --------------------------
(***************************************************************************)
(* Proofs about ClientLoop, for any clients, descriptors and number of     *)
(* calls of Open: a client that no thread is working on is registered for  *)
(* its own socket and for no other.                                        *)
(***************************************************************************)
EXTENDS ClientLoop, TLAPS

Context == Client \cup {NoClient}
SockState == {"free", "new", "connecting", "established", "failed", "eof"}
OpPc == {"idle", "context", "connect", "connecting", "erase", "close", "reset"}

TypeInv ==
    /\ fd \in [Client -> Fd \cup {Closed}]
    /\ sock \in [Fd -> SockState]
    /\ tcpMap \in [Fd -> Context] /\ connMap \in [Fd -> Context] /\ tcpTmp \in [Fd -> Context]
    /\ op \in [Thread -> [pc : OpPc, c : Context, f : Fd \cup {Closed}]]
    /\ loopPc = "tcp" => todo \subseteq Entries(tcpTmp)

\* What a thread is working on: its client's own descriptor, and no other
\* thread's client.
OpInv ==
    \A t \in Thread :
        /\ op[t].pc = "idle" <=> op[t].c = NoClient
        /\ op[t].pc # "idle" => op[t].f = fd[op[t].c] /\ op[t].f # Closed
        /\ \A u \in Thread : op[t].c = op[u].c => t = u \/ op[t].c = NoClient

\* A client owns its descriptor from Open until close_socket.
Owns(c) == fd[c] # Closed /\ \A t \in Thread : op[t].c = c => op[t].pc # "reset"
OwnInv ==
    /\ \A c \in Client : Owns(c) => sock[fd[c]] # "free"
    /\ \A c, d \in Client : Owns(c) /\ Owns(d) /\ fd[c] = fd[d] => c = d

\* Who is registered, and who is not.
MapInv ==
    /\ \A f \in Fd, c \in Client : tcpMap[f] = c => Owns(c) /\ fd[c] = f
    /\ \A c \in Client :
         Owns(c) /\ (\A t \in Thread : op[t].c = c => op[t].pc \notin {"context", "close"}) => tcpMap[fd[c]] = c
    /\ \A t \in Thread : op[t].pc = "close" => tcpMap[op[t].f] # op[t].c

ConnInv == \A f \in Fd : connMap[f] \in {tcpMap[f], NoClient}

IInv == TypeInv /\ ConnInv /\ (~raced => OpInv /\ OwnInv /\ MapInv)

-----------------------------------------------------------------------------

\* Descriptors are not the closed one.
LEMMA FdNotClosed == Closed \notin Fd /\ NoClient \notin Client
  BY BoundAssumption DEF Closed, Fd

\* A thread goes on with the Open or Close it is in.
LEMMA OpGoesOn ==
    ASSUME TypeInv, NEW t \in Thread, NEW x \in OpPc, op' = [op EXCEPT ![t].pc = x]
    PROVE  /\ op' \in [Thread -> [pc : OpPc, c : Context, f : Fd \cup {Closed}]]
           /\ op'[t].pc = x /\ op'[t].c = op[t].c /\ op'[t].f = op[t].f
           /\ \A u \in Thread : u # t => op'[u] = op[u]
           /\ \A u \in Thread : op'[u].c = op[u].c /\ op'[u].f = op[u].f
  BY DEF TypeInv

\* A thread begins or ends one.
LEMMA OpSet ==
    ASSUME TypeInv, NEW t \in Thread, NEW r \in [pc : OpPc, c : Context, f : Fd \cup {Closed}],
           op' = [op EXCEPT ![t] = r]
    PROVE  /\ op' \in [Thread -> [pc : OpPc, c : Context, f : Fd \cup {Closed}]]
           /\ op'[t] = r
           /\ \A u \in Thread : u # t => op'[u] = op[u]
  BY DEF TypeInv

\* A thread that is in neither.
LEMMA IdleIs ==
    Idle \in [pc : OpPc, c : Context, f : Fd \cup {Closed}] /\ Idle.pc = "idle" /\ Idle.c = NoClient
  BY DEF Idle, OpPc, Context

\* What the types say of a thread that is in Open or Close.
LEMMA Working ==
    ASSUME TypeInv, OpInv, NEW t \in Thread, op[t].pc # "idle"
    PROVE  /\ op[t].c \in Client /\ op[t].c # NoClient /\ op[t].f \in Fd /\ op[t].f = fd[op[t].c]
           /\ \A u \in Thread : u # t => op[u].c # op[t].c
<1>1. op[t].c \in Context /\ op[t].f \in Fd \cup {Closed} BY DEF TypeInv
<1>2. op[t].c # NoClient /\ op[t].f = fd[op[t].c] /\ op[t].f # Closed BY DEF OpInv
<1>3. \A u \in Thread : u # t => op[u].c # op[t].c BY <1>2 DEF OpInv
<1>4. QED BY <1>1, <1>2, <1>3 DEF Context

\* The invariant holds when the loop is started.
LEMMA InitInv == Init => IInv
<1> SUFFICES ASSUME Init PROVE IInv
  OBVIOUS
<1>1. /\ fd = [c \in Client |-> Closed] /\ sock = [f \in Fd |-> "free"]
      /\ tcpMap = [f \in Fd |-> NoClient] /\ connMap = [f \in Fd |-> NoClient]
      /\ tcpTmp = [f \in Fd |-> NoClient] /\ op = [t \in Thread |-> Idle] /\ loopPc = "start"
  BY DEF Init, NoMap
<1>2. TypeInv BY <1>1, IdleIs DEF TypeInv, SockState, Context
<1>3. ConnInv BY <1>1 DEF ConnInv
<1>4. \A t \in Thread : op[t].pc = "idle" /\ op[t].c = NoClient BY <1>1, IdleIs
<1>5. OpInv BY <1>4 DEF OpInv
<1>6. OwnInv BY <1>1 DEF OwnInv, Owns
<1>7. MapInv BY <1>1, <1>4, FdNotClosed DEF MapInv, Owns
<1>8. QED BY <1>2, <1>3, <1>5, <1>6, <1>7 DEF IInv

\* A step that neither opens nor closes, nor goes on with it, changes no owner.
LEMMA QuietInv ==
    ASSUME OpInv, OwnInv, MapInv, UNCHANGED <<fd, tcpMap, op>>, TypeInv,
           \A f \in Fd : sock'[f] = "free" => sock[f] = "free"
    PROVE  OpInv' /\ OwnInv' /\ MapInv'
<1>1. OpInv' BY DEF OpInv
<1>2. \A c \in Client : Owns(c)' = Owns(c) BY DEF Owns
<1>3. OwnInv'
  <2>1. ASSUME NEW c \in Client, Owns(c) PROVE sock'[fd[c]] # "free"
    <3>1. fd[c] \in Fd BY <2>1 DEF Owns, TypeInv
    <3>2. QED BY <2>1, <3>1 DEF OwnInv
  <2>2. QED BY <1>2, <2>1 DEF OwnInv
<1>4. MapInv' BY DEF MapInv, Owns
<1>5. QED BY <1>1, <1>3, <1>4

\* Open gives a client a descriptor that no other client owns.
LEMMA OpenInv ==
    ASSUME IInv, ~raced, NEW t \in Thread, NEW c \in Client, Open(t, c)
    PROVE  IInv'
<1>1. TypeInv /\ ConnInv /\ OpInv /\ OwnInv /\ MapInv BY DEF IInv
<1>2. PICK f \in Fd : /\ sock[f] = "free"
                      /\ sock' = [sock EXCEPT ![f] = "new"]
                      /\ fd' = [fd EXCEPT ![c] = f]
                      /\ op' = [op EXCEPT ![t] = [pc |-> "context", c |-> c, f |-> f]]
  BY DEF Open
<1>3. /\ op[t] = Idle /\ fd[c] = Closed /\ \A u \in Thread : op[u].c # c
      /\ UNCHANGED <<tcpMap, connMap, loopPc, tcpTmp, todo, raced>>
  BY DEF Open, mayCall, snapVars
<1> DEFINE r == [pc |-> "context", c |-> c, f |-> f]
<1>4. r \in [pc : OpPc, c : Context, f : Fd \cup {Closed}] /\ r.pc = "context" /\ r.c = c /\ r.f = f
  BY DEF OpPc, Context
<1>5. op' = [op EXCEPT ![t] = r] BY <1>2
<1> HIDE DEF r
<1>6. /\ op' \in [Thread -> [pc : OpPc, c : Context, f : Fd \cup {Closed}]]
      /\ op'[t] = r
      /\ \A u \in Thread : u # t => op'[u] = op[u]
  BY <1>1, <1>4, <1>5, OpSet
<1>7. /\ fd' \in [Client -> Fd \cup {Closed}] /\ sock' \in [Fd -> SockState]
      /\ \A d \in Client : fd'[d] = IF d = c THEN f ELSE fd[d]
      /\ \A g \in Fd : sock'[g] = IF g = f THEN "new" ELSE sock[g]
  BY <1>1, <1>2 DEF TypeInv, SockState
<1>8. TypeInv' BY <1>1, <1>3, <1>6, <1>7 DEF TypeInv, Entries
<1>9. ConnInv' BY <1>1, <1>3 DEF ConnInv
<1>10. OpInv'
  <2> SUFFICES ASSUME NEW u \in Thread
               PROVE  /\ op'[u].pc = "idle" <=> op'[u].c = NoClient
                      /\ op'[u].pc # "idle" => op'[u].f = fd'[op'[u].c] /\ op'[u].f # Closed
                      /\ \A v \in Thread : op'[u].c = op'[v].c => u = v \/ op'[u].c = NoClient
    BY DEF OpInv
  <2>1. CASE u = t BY <1>3, <1>4, <1>6, <1>7, <2>1, FdNotClosed
  <2>2. CASE u # t
    <3>1. op'[u] = op[u] /\ op[u].c # c BY <1>3, <1>6, <2>2
    <3>2. op[u].pc # "idle" => op[u].c \in Client BY <1>1, Working
    <3>3. op'[u].pc # "idle" => op'[u].f = fd'[op'[u].c] /\ op'[u].f # Closed
      BY <1>1, <1>7, <3>1, <3>2 DEF OpInv
    <3>4. QED BY <1>1, <1>4, <1>6, <3>1, <3>3 DEF OpInv
  <2>3. QED BY <2>1, <2>2
<1>11. \A d \in Client : d # c => (Owns(d)' <=> Owns(d))
  <2> SUFFICES ASSUME NEW d \in Client, d # c PROVE Owns(d)' <=> Owns(d)
    OBVIOUS
  <2>1. op[t].c = NoClient /\ d # NoClient BY <1>3, IdleIs, FdNotClosed
  <2>2. \A u \in Thread : op'[u].c = d <=> op[u].c = d BY <1>4, <1>6, <2>1
  <2>3. \A u \in Thread : op[u].c = d => op'[u] = op[u] BY <1>6, <2>1
  <2>4. QED BY <1>7, <2>2, <2>3 DEF Owns
<1>12. OwnInv'
  <2>1. \A d \in Client : d # c /\ Owns(d) => fd[d] # f BY <1>1, <1>2 DEF OwnInv
  <2>2. \A d \in Client : Owns(d) => fd[d] \in Fd BY <1>1 DEF Owns, TypeInv
  <2>3. ASSUME NEW d \in Client, Owns(d)' PROVE sock'[fd'[d]] # "free"
    BY <1>1, <1>7, <1>11, <2>2, <2>3 DEF OwnInv
  <2>4. ASSUME NEW d \in Client, NEW e \in Client, Owns(d)', Owns(e)', fd'[d] = fd'[e] PROVE d = e
    <3>1. CASE d = c BY <1>7, <1>11, <2>1, <2>4, <3>1
    <3>2. CASE e = c BY <1>7, <1>11, <2>1, <2>4, <3>2
    <3>3. CASE d # c /\ e # c BY <1>1, <1>7, <1>11, <2>4, <3>3 DEF OwnInv
    <3>4. QED BY <3>1, <3>2, <3>3
  <2>5. QED BY <2>3, <2>4 DEF OwnInv
<1>13. MapInv'
  <2>2. \A g \in Fd : tcpMap[g] # c BY <1>1, <1>3, FdNotClosed DEF MapInv, Owns
  <2>3. ASSUME NEW g \in Fd, NEW d \in Client, tcpMap[g] = d PROVE Owns(d)' /\ fd'[d] = g
    <3>1. d # c /\ Owns(d) /\ fd[d] = g BY <1>1, <2>2, <2>3 DEF MapInv
    <3>2. QED BY <1>7, <1>11, <3>1
  <2>4. ASSUME NEW d \in Client, Owns(d)',
               \A u \in Thread : op'[u].c = d => op'[u].pc \notin {"context", "close"}
        PROVE  tcpMap[fd'[d]] = d
    <3>1. d # c BY <1>4, <1>6, <2>4
    <3>2. Owns(d) BY <1>11, <2>4, <3>1
    <3>3. op[t].c # d BY <1>3, IdleIs, FdNotClosed
    <3>4. \A u \in Thread : op[u].c = d => op[u].pc \notin {"context", "close"} BY <1>6, <2>4, <3>3
    <3>5. QED BY <1>1, <1>7, <3>1, <3>2, <3>4 DEF MapInv
  <2>5. ASSUME NEW u \in Thread, op'[u].pc = "close" PROVE tcpMap[op'[u].f] # op'[u].c
    BY <1>1, <1>4, <1>6, <2>5 DEF MapInv
  <2>6. QED BY <1>3, <2>3, <2>4, <2>5 DEF MapInv
<1>14. QED BY <1>8, <1>9, <1>10, <1>12, <1>13 DEF IInv

\* Close of a client that no other thread is working on.
LEMMA beginCloseInv ==
    ASSUME IInv, ~raced, NEW t \in Thread, NEW c \in Client, op[t] = Idle, beginClose(t, c),
           UNCHANGED <<fd, sock, tcpMap, connMap, loopPc, tcpTmp>>, todo' \subseteq todo
    PROVE  IInv'
<1>1. TypeInv /\ ConnInv /\ OpInv /\ OwnInv /\ MapInv BY DEF IInv
<1> DEFINE r == [pc |-> "erase", c |-> c, f |-> fd[c]]
<1>2. fd[c] # Closed /\ op' = [op EXCEPT ![t] = r] /\ raced' = (\E u \in Thread \ {t} : op[u].c = c)
  BY DEF beginClose
<1>3. r \in [pc : OpPc, c : Context, f : Fd \cup {Closed}] /\ r.pc = "erase" /\ r.c = c /\ r.f = fd[c]
  BY <1>1 DEF OpPc, Context, TypeInv
<1> HIDE DEF r
<1>4. /\ op' \in [Thread -> [pc : OpPc, c : Context, f : Fd \cup {Closed}]]
      /\ op'[t] = r
      /\ \A u \in Thread : u # t => op'[u] = op[u]
  BY <1>1, <1>2, <1>3, OpSet
<1>5. TypeInv' BY <1>1, <1>4 DEF TypeInv, Entries
<1>6. ConnInv' BY <1>1 DEF ConnInv
<1>7. ASSUME ~raced' PROVE OpInv' /\ OwnInv' /\ MapInv'
  <2>1. \A u \in Thread : u # t => op[u].c # c BY <1>2, <1>7
  <2>2. op[t].c = NoClient /\ op[t].pc = "idle" BY IdleIs
  <2>3. OpInv' BY <1>1, <1>2, <1>3, <1>4, <2>1, FdNotClosed DEF OpInv
  <2>4. \A d \in Client : Owns(d)' <=> Owns(d)
    <3> SUFFICES ASSUME NEW d \in Client PROVE Owns(d)' <=> Owns(d)
      OBVIOUS
    <3>1. d # NoClient BY FdNotClosed
    <3>2. CASE d = c BY <1>2, <1>3, <1>4, <2>1, <2>2, <3>1, <3>2 DEF Owns
    <3>3. CASE d # c BY <1>3, <1>4, <2>2, <3>1, <3>3 DEF Owns
    <3>4. QED BY <3>2, <3>3
  <2>5. OwnInv' BY <1>1, <2>4 DEF OwnInv
  <2>6. MapInv'
    <3>2. ASSUME NEW g \in Fd, NEW d \in Client, tcpMap[g] = d PROVE Owns(d)' /\ fd[d] = g
      BY <1>1, <2>4, <3>2 DEF MapInv
    <3>3. ASSUME NEW d \in Client, Owns(d)',
                 \A u \in Thread : op'[u].c = d => op'[u].pc \notin {"context", "close"}
          PROVE  tcpMap[fd[d]] = d
      <4>1. d # NoClient /\ Owns(d) BY <2>4, <3>3, FdNotClosed
      <4>2. \A u \in Thread : op[u].c = d => op[u].pc \notin {"context", "close"}
        BY <1>4, <2>2, <3>3, <4>1
      <4>3. QED BY <1>1, <4>1, <4>2 DEF MapInv
    <3>4. ASSUME NEW u \in Thread, op'[u].pc = "close" PROVE tcpMap[op'[u].f] # op'[u].c
      BY <1>1, <1>3, <1>4, <3>4 DEF MapInv
    <3>5. QED BY <3>2, <3>3, <3>4 DEF MapInv
  <2>7. QED BY <2>3, <2>5, <2>6
<1>8. QED BY <1>5, <1>6, <1>7 DEF IInv

\* The descriptor that a thread is registering is its client's own: no other
\* client's entry is overwritten.
LEMMA SetSocketContextInv ==
    ASSUME IInv, ~raced, NEW t \in Thread, SetSocketContext(t)
    PROVE  IInv'
<1>1. TypeInv /\ ConnInv /\ OpInv /\ OwnInv /\ MapInv BY DEF IInv
<1> DEFINE c == op[t].c
           f == op[t].f
<1>2. /\ op[t].pc = "context" /\ tcpMap' = [tcpMap EXCEPT ![f] = c] /\ op' = [op EXCEPT ![t].pc = "connect"]
      /\ UNCHANGED <<fd, sock, connMap, loopPc, tcpTmp, todo, raced>>
  BY DEF SetSocketContext, snapVars, histVars
<1>3. /\ c \in Client /\ c # NoClient /\ f \in Fd /\ f = fd[c]
      /\ \A u \in Thread : u # t => op[u].c # c
  BY <1>1, <1>2, Working
<1>4. /\ op' \in [Thread -> [pc : OpPc, c : Context, f : Fd \cup {Closed}]]
      /\ op'[t].pc = "connect" /\ op'[t].c = c /\ op'[t].f = f
      /\ \A u \in Thread : u # t => op'[u] = op[u]
      /\ \A u \in Thread : op'[u].c = op[u].c /\ op'[u].f = op[u].f
  <2>1. "connect" \in OpPc BY DEF OpPc
  <2>2. QED BY <1>1, <1>2, <2>1, OpGoesOn
<1>5. op[t].c = c OBVIOUS
<1> HIDE DEF c, f
<1>6. /\ tcpMap' \in [Fd -> Context]
      /\ \A g \in Fd : tcpMap'[g] = IF g = f THEN c ELSE tcpMap[g]
  BY <1>1, <1>2, <1>3 DEF TypeInv, Context
<1>7. TypeInv' BY <1>1, <1>2, <1>4, <1>6 DEF TypeInv, Entries
<1>8. \A d \in Client : Owns(d)' <=> Owns(d)
  BY <1>2, <1>4 DEF Owns
<1>9. Owns(c) BY <1>2, <1>3, FdNotClosed DEF Owns
<1>10. ConnInv'
  <2>1. connMap[f] = NoClient \/ connMap[f] = c
    <3>1. CASE connMap[f] # NoClient
      <4>1. connMap[f] = tcpMap[f] BY <1>1, <1>3, <3>1 DEF ConnInv
      <4>2. tcpMap[f] \in Client BY <1>1, <1>3, <3>1, <4>1 DEF TypeInv, Context
      <4>3. Owns(tcpMap[f]) /\ fd[tcpMap[f]] = f BY <1>1, <1>3, <4>2 DEF MapInv
      <4>4. QED BY <1>1, <1>3, <1>9, <4>1, <4>2, <4>3 DEF OwnInv
    <3>2. QED BY <3>1
  <2>2. QED BY <1>1, <1>2, <1>6, <2>1 DEF ConnInv
<1>11. OpInv'
  <2> SUFFICES ASSUME NEW u \in Thread
               PROVE  /\ op'[u].pc = "idle" <=> op'[u].c = NoClient
                      /\ op'[u].pc # "idle" => op'[u].f = fd[op'[u].c] /\ op'[u].f # Closed
                      /\ \A v \in Thread : op'[u].c = op'[v].c => u = v \/ op'[u].c = NoClient
    BY <1>2 DEF OpInv
  <2>1. CASE u = t BY <1>3, <1>4, <2>1, FdNotClosed
  <2>2. CASE u # t BY <1>1, <1>4, <2>2 DEF OpInv
  <2>3. QED BY <2>1, <2>2
<1>12. OwnInv' BY <1>1, <1>2, <1>8 DEF OwnInv
<1>13. MapInv'
  <2>1. ASSUME NEW g \in Fd, NEW d \in Client, tcpMap'[g] = d PROVE Owns(d)' /\ fd[d] = g
    <3>1. CASE g = f BY <1>3, <1>6, <1>8, <1>9, <2>1, <3>1
    <3>2. CASE g # f BY <1>1, <1>6, <1>8, <2>1, <3>2 DEF MapInv
    <3>3. QED BY <3>1, <3>2
  <2>2. ASSUME NEW d \in Client, Owns(d)',
               \A u \in Thread : op'[u].c = d => op'[u].pc \notin {"context", "close"}
        PROVE  tcpMap'[fd[d]] = d
    <3>1. Owns(d) /\ fd[d] \in Fd BY <1>1, <1>8, <2>2 DEF Owns, TypeInv
    <3>2. CASE d = c BY <1>3, <1>6, <3>2
    <3>3. CASE d # c
      <4>1. fd[d] # f BY <1>1, <1>3, <1>9, <3>1, <3>3 DEF OwnInv
      <4>2. \A u \in Thread : op[u].c = d => op[u].pc \notin {"context", "close"}
        BY <1>4, <1>5, <2>2, <3>3
      <4>3. tcpMap[fd[d]] = d BY <1>1, <3>1, <4>2 DEF MapInv
      <4>4. QED BY <1>6, <3>1, <4>1, <4>3
    <3>4. QED BY <3>2, <3>3
  <2>3. ASSUME NEW u \in Thread, op'[u].pc = "close" PROVE tcpMap'[op'[u].f] # op'[u].c
    <3>1. u # t /\ op'[u] = op[u] BY <1>4, <2>3
    <3>2. op[u].f \in Fd /\ tcpMap[op[u].f] # op[u].c /\ op[u].c # c
      BY <1>1, <1>3, <2>3, <3>1, Working DEF MapInv
    <3>3. QED BY <1>6, <3>1, <3>2
  <2>4. QED BY <1>2, <2>1, <2>2, <2>3 DEF MapInv
<1>14. QED BY <1>2, <1>7, <1>10, <1>11, <1>12, <1>13 DEF IInv

\* Connect: the socket stays registered.
LEMMA ConnectInv ==
    ASSUME IInv, ~raced, NEW t \in Thread, Connect(t)
    PROVE  IInv'
<1>1. TypeInv /\ ConnInv /\ OpInv /\ OwnInv /\ MapInv BY DEF IInv
<1>2. /\ op[t].pc = "connect"
      /\ UNCHANGED <<fd, tcpMap, connMap, loopPc, tcpTmp, todo, raced>>
      /\ sock' = sock \/ sock' = [sock EXCEPT ![op[t].f] = "connecting"]
  BY DEF Connect, snapVars, histVars
<1>3. PICK x \in {"connecting", "erase"} : op' = [op EXCEPT ![t].pc = x] BY DEF Connect
<1>4. /\ op' \in [Thread -> [pc : OpPc, c : Context, f : Fd \cup {Closed}]]
      /\ op'[t].pc = x /\ op'[t].c = op[t].c /\ op'[t].f = op[t].f
      /\ \A u \in Thread : u # t => op'[u] = op[u]
      /\ \A u \in Thread : op'[u].c = op[u].c /\ op'[u].f = op[u].f
  <2>1. x \in OpPc BY DEF OpPc
  <2>2. QED BY <1>1, <1>3, <2>1, OpGoesOn
<1>5. sock' \in [Fd -> SockState] /\ \A g \in Fd : sock'[g] = "free" => sock[g] = "free"
  BY <1>1, <1>2 DEF TypeInv, SockState
<1>6. \A u \in Thread : \/ op'[u] = op[u]
                        \/ /\ op'[u].pc \notin {"idle", "context", "close", "reset"}
                           /\ op[u].pc \notin {"idle", "context", "close", "reset"}
  BY <1>2, <1>4
<1>7. TypeInv' BY <1>1, <1>2, <1>4, <1>5 DEF TypeInv, Entries
<1>8. ConnInv' BY <1>1, <1>2 DEF ConnInv
<1>9. OpInv'
  <2> SUFFICES ASSUME NEW u \in Thread
               PROVE  /\ op'[u].pc = "idle" <=> op'[u].c = NoClient
                      /\ op'[u].pc # "idle" => op'[u].f = fd[op'[u].c] /\ op'[u].f # Closed
                      /\ \A v \in Thread : op'[u].c = op'[v].c => u = v \/ op'[u].c = NoClient
    BY <1>2 DEF OpInv
  <2>1. QED BY <1>1, <1>4, <1>6 DEF OpInv
<1>10. \A d \in Client : Owns(d)' <=> Owns(d) BY <1>2, <1>4, <1>6 DEF Owns
<1>11. OwnInv'
  <2>1. \A d \in Client : Owns(d) => fd[d] \in Fd BY <1>1 DEF Owns, TypeInv
  <2>2. QED BY <1>1, <1>2, <1>5, <1>10, <2>1 DEF OwnInv
<1>12. MapInv'
  <2>1. ASSUME NEW d \in Client, Owns(d)',
               \A u \in Thread : op'[u].c = d => op'[u].pc \notin {"context", "close"}
        PROVE  tcpMap[fd[d]] = d
    <3>1. \A u \in Thread : op[u].c = d => op[u].pc \notin {"context", "close"} BY <1>4, <1>6, <2>1
    <3>2. QED BY <1>1, <1>10, <2>1, <3>1 DEF MapInv
  <2>2. ASSUME NEW u \in Thread, op'[u].pc = "close" PROVE tcpMap[op'[u].f] # op'[u].c
    BY <1>1, <1>4, <1>6, <2>2 DEF MapInv
  <2>3. QED BY <1>1, <1>2, <1>10, <2>1, <2>2 DEF MapInv
<1>13. QED BY <1>2, <1>7, <1>8, <1>9, <1>11, <1>12 DEF IInv

\* The end of Connect: connecting_map_ gets the client that tcp_socket_map_ has.
LEMMA connectingInv ==
    ASSUME IInv, ~raced, NEW t \in Thread, connecting(t)
    PROVE  IInv'
<1>1. TypeInv /\ ConnInv /\ OpInv /\ OwnInv /\ MapInv BY DEF IInv
<1> DEFINE c == op[t].c
           f == op[t].f
<1>2. /\ op[t].pc = "connecting" /\ connMap' = [connMap EXCEPT ![f] = c] /\ op' = [op EXCEPT ![t] = Idle]
      /\ UNCHANGED <<fd, sock, tcpMap, loopPc, tcpTmp, todo, raced>>
  BY DEF connecting, snapVars, histVars
<1>3. /\ c \in Client /\ c # NoClient /\ f \in Fd /\ f = fd[c]
      /\ \A u \in Thread : u # t => op[u].c # c
  BY <1>1, <1>2, Working
<1>4. op[t].c = c OBVIOUS
<1> HIDE DEF c, f
<1>5. /\ op' \in [Thread -> [pc : OpPc, c : Context, f : Fd \cup {Closed}]]
      /\ op'[t].pc = "idle" /\ op'[t].c = NoClient
      /\ \A u \in Thread : u # t => op'[u] = op[u]
  BY <1>1, <1>2, IdleIs, OpSet
<1>6. Owns(c) BY <1>2, <1>3, FdNotClosed DEF Owns
<1>7. tcpMap[f] = c BY <1>1, <1>2, <1>3, <1>6 DEF MapInv
<1>8. TypeInv' BY <1>1, <1>2, <1>3, <1>5 DEF TypeInv, Entries, Context
<1>9. ConnInv' BY <1>1, <1>2, <1>7 DEF ConnInv, TypeInv
<1>10. OpInv' BY <1>1, <1>2, <1>5 DEF OpInv
<1>11. \A d \in Client : Owns(d)' <=> Owns(d)
  <2> SUFFICES ASSUME NEW d \in Client PROVE Owns(d)' <=> Owns(d)
    OBVIOUS
  <2>1. d # NoClient BY FdNotClosed
  <2>2. QED BY <1>2, <1>5, <2>1 DEF Owns
<1>12. OwnInv' BY <1>1, <1>2, <1>11 DEF OwnInv
<1>13. MapInv'
  <2>1. ASSUME NEW d \in Client, Owns(d)',
               \A u \in Thread : op'[u].c = d => op'[u].pc \notin {"context", "close"}
        PROVE  tcpMap[fd[d]] = d
    <3>1. \A u \in Thread : op[u].c = d => op[u].pc \notin {"context", "close"} BY <1>2, <1>5, <2>1
    <3>2. QED BY <1>1, <1>11, <2>1, <3>1 DEF MapInv
  <2>2. ASSUME NEW u \in Thread, op'[u].pc = "close" PROVE tcpMap[op'[u].f] # op'[u].c
    BY <1>1, <1>5, <2>2 DEF MapInv
  <2>3. QED BY <1>1, <1>2, <1>11, <2>1, <2>2 DEF MapInv
<1>14. QED BY <1>2, <1>8, <1>9, <1>10, <1>12, <1>13 DEF IInv

\* CloseSocket takes away the entry of its own client only: the descriptor has
\* not been given to another one yet.
LEMMA CloseSocketInv ==
    ASSUME IInv, ~raced, NEW t \in Thread, CloseSocket(t)
    PROVE  IInv'
<1>1. TypeInv /\ ConnInv /\ OpInv /\ OwnInv /\ MapInv BY DEF IInv
<1> DEFINE c == op[t].c
           f == op[t].f
<1>2. /\ op[t].pc = "erase" /\ op' = [op EXCEPT ![t].pc = "close"]
      /\ tcpMap' = [tcpMap EXCEPT ![f] = NoClient] /\ connMap' = [connMap EXCEPT ![f] = NoClient]
      /\ UNCHANGED <<fd, sock, loopPc, tcpTmp, todo, raced>>
  BY DEF CloseSocket, Without, snapVars, histVars
<1>3. /\ c \in Client /\ c # NoClient /\ f \in Fd /\ f = fd[c]
      /\ \A u \in Thread : u # t => op[u].c # c
  BY <1>1, <1>2, Working
<1>4. /\ op' \in [Thread -> [pc : OpPc, c : Context, f : Fd \cup {Closed}]]
      /\ op'[t].pc = "close" /\ op'[t].c = c /\ op'[t].f = f
      /\ \A u \in Thread : u # t => op'[u] = op[u]
      /\ \A u \in Thread : op'[u].c = op[u].c /\ op'[u].f = op[u].f
  <2>1. "close" \in OpPc BY DEF OpPc
  <2>2. QED BY <1>1, <1>2, <2>1, OpGoesOn
<1>5. op[t].c = c OBVIOUS
<1> HIDE DEF c, f
<1>6. /\ tcpMap' \in [Fd -> Context] /\ connMap' \in [Fd -> Context]
      /\ \A g \in Fd : tcpMap'[g] = (IF g = f THEN NoClient ELSE tcpMap[g])
      /\ \A g \in Fd : connMap'[g] = (IF g = f THEN NoClient ELSE connMap[g])
  BY <1>1, <1>2, <1>3 DEF TypeInv, Context
<1>7. TypeInv' BY <1>1, <1>2, <1>4, <1>6 DEF TypeInv, Entries
<1>8. ConnInv' BY <1>1, <1>6 DEF ConnInv
<1>9. \A d \in Client : Owns(d)' <=> Owns(d) BY <1>2, <1>4 DEF Owns
<1>10. Owns(c) BY <1>2, <1>3, FdNotClosed DEF Owns
<1>11. OpInv'
  <2> SUFFICES ASSUME NEW u \in Thread
               PROVE  /\ op'[u].pc = "idle" <=> op'[u].c = NoClient
                      /\ op'[u].pc # "idle" => op'[u].f = fd[op'[u].c] /\ op'[u].f # Closed
                      /\ \A v \in Thread : op'[u].c = op'[v].c => u = v \/ op'[u].c = NoClient
    BY <1>2 DEF OpInv
  <2>1. CASE u = t BY <1>3, <1>4, <2>1, FdNotClosed
  <2>2. CASE u # t BY <1>1, <1>4, <2>2 DEF OpInv
  <2>3. QED BY <2>1, <2>2
<1>12. OwnInv' BY <1>1, <1>2, <1>9 DEF OwnInv
<1>13. MapInv'
  <2>1. ASSUME NEW g \in Fd, NEW d \in Client, tcpMap'[g] = d PROVE Owns(d)' /\ fd[d] = g
    <3>1. tcpMap[g] = d BY <1>6, <2>1, FdNotClosed
    <3>2. QED BY <1>1, <1>9, <3>1 DEF MapInv
  <2>2. ASSUME NEW d \in Client, Owns(d)',
               \A u \in Thread : op'[u].c = d => op'[u].pc \notin {"context", "close"}
        PROVE  tcpMap'[fd[d]] = d
    <3>1. Owns(d) /\ fd[d] \in Fd BY <1>1, <1>9, <2>2 DEF Owns, TypeInv
    <3>2. d # c BY <1>4, <2>2
    <3>3. fd[d] # f BY <1>1, <1>3, <1>10, <3>1, <3>2 DEF OwnInv
    <3>4. \A u \in Thread : op[u].c = d => op[u].pc \notin {"context", "close"} BY <1>4, <1>5, <2>2, <3>2
    <3>5. tcpMap[fd[d]] = d BY <1>1, <3>1, <3>4 DEF MapInv
    <3>6. QED BY <1>6, <3>1, <3>3, <3>5
  <2>3. ASSUME NEW u \in Thread, op'[u].pc = "close" PROVE tcpMap'[op'[u].f] # op'[u].c
    <3>1. CASE u = t BY <1>3, <1>4, <1>6, <3>1
    <3>2. CASE u # t
      <4>1. op'[u] = op[u] BY <1>4, <3>2
      <4>2. op[u].f \in Fd /\ tcpMap[op[u].f] # op[u].c /\ op[u].c # NoClient
        BY <1>1, <2>3, <4>1, Working DEF MapInv
      <4>3. QED BY <1>6, <4>1, <4>2
    <3>3. QED BY <3>1, <3>2
  <2>4. QED BY <1>2, <2>1, <2>2, <2>3 DEF MapInv
<1>14. QED BY <1>2, <1>7, <1>8, <1>11, <1>12, <1>13 DEF IInv

\* close_socket frees a descriptor that nobody is registered for.
LEMMA close_socketInv ==
    ASSUME IInv, ~raced, NEW t \in Thread, close_socket(t)
    PROVE  IInv'
<1>1. TypeInv /\ ConnInv /\ OpInv /\ OwnInv /\ MapInv BY DEF IInv
<1> DEFINE c == op[t].c
           f == op[t].f
<1>2. /\ op[t].pc = "close" /\ op' = [op EXCEPT ![t].pc = "reset"]
      /\ sock' = [sock EXCEPT ![f] = "free"] /\ tcpMap[f] # c
      /\ UNCHANGED <<fd, tcpMap, connMap, loopPc, tcpTmp, todo, raced>>
  BY <1>1 DEF close_socket, snapVars, histVars, MapInv
<1>3. /\ c \in Client /\ c # NoClient /\ f \in Fd /\ f = fd[c]
      /\ \A u \in Thread : u # t => op[u].c # c
  BY <1>1, <1>2, Working
<1>4. /\ op' \in [Thread -> [pc : OpPc, c : Context, f : Fd \cup {Closed}]]
      /\ op'[t].pc = "reset" /\ op'[t].c = c /\ op'[t].f = f
      /\ \A u \in Thread : u # t => op'[u] = op[u]
      /\ \A u \in Thread : op'[u].c = op[u].c /\ op'[u].f = op[u].f
  <2>1. "reset" \in OpPc BY DEF OpPc
  <2>2. QED BY <1>1, <1>2, <2>1, OpGoesOn
<1>5. op[t].c = c OBVIOUS
<1> HIDE DEF c, f
<1>6. sock' \in [Fd -> SockState] /\ \A g \in Fd : sock'[g] = IF g = f THEN "free" ELSE sock[g]
  BY <1>1, <1>2, <1>3 DEF TypeInv, SockState
<1>7. TypeInv' BY <1>1, <1>2, <1>4, <1>6 DEF TypeInv, Entries
<1>8. ConnInv' BY <1>1, <1>2 DEF ConnInv
<1>9. Owns(c) BY <1>2, <1>3, FdNotClosed DEF Owns
<1>10. \A d \in Client : Owns(d)' <=> Owns(d) /\ d # c
  <2> SUFFICES ASSUME NEW d \in Client PROVE Owns(d)' <=> Owns(d) /\ d # c
    OBVIOUS
  <2>1. CASE d = c BY <1>4, <2>1 DEF Owns
  <2>2. CASE d # c BY <1>2, <1>4, <1>5, <2>2 DEF Owns
  <2>3. QED BY <2>1, <2>2
<1>11. OpInv'
  <2> SUFFICES ASSUME NEW u \in Thread
               PROVE  /\ op'[u].pc = "idle" <=> op'[u].c = NoClient
                      /\ op'[u].pc # "idle" => op'[u].f = fd[op'[u].c] /\ op'[u].f # Closed
                      /\ \A v \in Thread : op'[u].c = op'[v].c => u = v \/ op'[u].c = NoClient
    BY <1>2 DEF OpInv
  <2>1. CASE u = t BY <1>3, <1>4, <2>1, FdNotClosed
  <2>2. CASE u # t BY <1>1, <1>4, <2>2 DEF OpInv
  <2>3. QED BY <2>1, <2>2
<1>12. OwnInv'
  <2>1. ASSUME NEW d \in Client, Owns(d)' PROVE sock'[fd[d]] # "free"
    <3>1. Owns(d) /\ d # c /\ fd[d] \in Fd BY <1>1, <1>10, <2>1 DEF Owns, TypeInv
    <3>2. fd[d] # f BY <1>1, <1>3, <1>9, <3>1 DEF OwnInv
    <3>3. QED BY <1>1, <1>6, <3>1, <3>2 DEF OwnInv
  <2>2. QED BY <1>1, <1>2, <1>10, <2>1 DEF OwnInv
<1>13. MapInv'
  <2>1. ASSUME NEW g \in Fd, NEW d \in Client, tcpMap[g] = d PROVE Owns(d)' /\ fd[d] = g
    <3>1. Owns(d) /\ fd[d] = g BY <1>1, <2>1 DEF MapInv
    <3>2. d # c BY <1>2, <1>3, <2>1, <3>1
    <3>3. QED BY <1>10, <3>1, <3>2
  <2>2. ASSUME NEW d \in Client, Owns(d)',
               \A u \in Thread : op'[u].c = d => op'[u].pc \notin {"context", "close"}
        PROVE  tcpMap[fd[d]] = d
    <3>1. Owns(d) /\ d # c BY <1>10, <2>2
    <3>2. \A u \in Thread : op[u].c = d => op[u].pc \notin {"context", "close"} BY <1>4, <1>5, <2>2, <3>1
    <3>3. QED BY <1>1, <3>1, <3>2 DEF MapInv
  <2>3. ASSUME NEW u \in Thread, op'[u].pc = "close" PROVE tcpMap[op'[u].f] # op'[u].c
    BY <1>1, <1>4, <2>3 DEF MapInv
  <2>4. QED BY <1>2, <2>1, <2>2, <2>3 DEF MapInv
<1>14. QED BY <1>2, <1>7, <1>8, <1>11, <1>12, <1>13 DEF IInv

\* A client that forgets its descriptor did not own it any more.
LEMMA closedInv ==
    ASSUME IInv, ~raced, NEW t \in Thread, closed(t)
    PROVE  IInv'
<1>1. TypeInv /\ ConnInv /\ OpInv /\ OwnInv /\ MapInv BY DEF IInv
<1> DEFINE c == op[t].c
<1>2. /\ op[t].pc = "reset" /\ fd' = [fd EXCEPT ![c] = Closed] /\ op' = [op EXCEPT ![t] = Idle]
      /\ UNCHANGED <<sock, tcpMap, connMap, loopPc, tcpTmp, todo, raced>>
  BY DEF closed, snapVars, histVars
<1>3. c \in Client /\ c # NoClient /\ \A u \in Thread : u # t => op[u].c # c
  BY <1>1, <1>2, Working
<1>4. op[t].c = c OBVIOUS
<1> HIDE DEF c
<1>5. /\ op' \in [Thread -> [pc : OpPc, c : Context, f : Fd \cup {Closed}]]
      /\ op'[t].pc = "idle" /\ op'[t].c = NoClient
      /\ \A u \in Thread : u # t => op'[u] = op[u]
  BY <1>1, <1>2, IdleIs, OpSet
<1>6. /\ fd' \in [Client -> Fd \cup {Closed}]
      /\ \A d \in Client : fd'[d] = IF d = c THEN Closed ELSE fd[d]
  BY <1>1, <1>2 DEF TypeInv
<1>7. TypeInv' BY <1>1, <1>2, <1>5, <1>6 DEF TypeInv, Entries
<1>8. ConnInv' BY <1>1, <1>2 DEF ConnInv
<1>9. ~Owns(c) BY <1>2, <1>4 DEF Owns
<1>10. \A d \in Client : Owns(d)' <=> Owns(d)
  <2> SUFFICES ASSUME NEW d \in Client PROVE Owns(d)' <=> Owns(d)
    OBVIOUS
  <2>1. d # NoClient BY FdNotClosed
  <2>2. CASE d = c BY <1>6, <1>9, <2>2 DEF Owns
  <2>3. CASE d # c BY <1>4, <1>5, <1>6, <2>1, <2>3 DEF Owns
  <2>4. QED BY <2>2, <2>3
<1>11. OpInv'
  <2> SUFFICES ASSUME NEW u \in Thread
               PROVE  /\ op'[u].pc = "idle" <=> op'[u].c = NoClient
                      /\ op'[u].pc # "idle" => op'[u].f = fd'[op'[u].c] /\ op'[u].f # Closed
                      /\ \A v \in Thread : op'[u].c = op'[v].c => u = v \/ op'[u].c = NoClient
    BY DEF OpInv
  <2>1. CASE u = t BY <1>5, <2>1
  <2>2. CASE u # t
    <3>1. op'[u] = op[u] /\ op[u].c # c BY <1>3, <1>5, <2>2
    <3>2. op[u].pc # "idle" => op[u].c \in Client BY <1>1, Working
    <3>3. op'[u].pc # "idle" => op'[u].f = fd'[op'[u].c] /\ op'[u].f # Closed
      BY <1>1, <1>6, <3>1, <3>2 DEF OpInv
    <3>4. QED BY <1>1, <1>5, <3>1, <3>3 DEF OpInv
  <2>3. QED BY <2>1, <2>2
<1>12. \A d \in Client : Owns(d) => fd'[d] = fd[d] BY <1>6, <1>9
<1>13. OwnInv' BY <1>1, <1>2, <1>10, <1>12 DEF OwnInv
<1>14. MapInv'
  <2>1. ASSUME NEW g \in Fd, NEW d \in Client, tcpMap[g] = d PROVE Owns(d)' /\ fd'[d] = g
    BY <1>1, <1>10, <1>12, <2>1 DEF MapInv
  <2>2. ASSUME NEW d \in Client, Owns(d)',
               \A u \in Thread : op'[u].c = d => op'[u].pc \notin {"context", "close"}
        PROVE  tcpMap[fd'[d]] = d
    <3>1. Owns(d) /\ d # c /\ fd'[d] = fd[d] BY <1>9, <1>10, <1>12, <2>2
    <3>2. \A u \in Thread : op[u].c = d => op[u].pc \notin {"context", "close"} BY <1>4, <1>5, <2>2, <3>1
    <3>3. QED BY <1>1, <3>1, <3>2 DEF MapInv
  <2>3. ASSUME NEW u \in Thread, op'[u].pc = "close" PROVE tcpMap[op'[u].f] # op'[u].c
    BY <1>1, <1>5, <2>3 DEF MapInv
  <2>4. QED BY <1>2, <2>1, <2>2, <2>3 DEF MapInv
<1>15. QED BY <1>2, <1>7, <1>8, <1>11, <1>13, <1>14 DEF IInv

\* The loop's own steps, Stop and the peer open and close nothing.
QuietStep ==
    \/ MyRun \/ FillFdset \/ ended \/ select \/ refresh \/ HandleEvent \/ endOfRound \/ Stop \/ peer
    \/ (\E f \in Fd : HandleConnecting(f)) \/ UNCHANGED vars

\* They keep the invariant.
LEMMA QuietStepInv ==
    ASSUME IInv, QuietStep
    PROVE  IInv'
<1>1. TypeInv /\ ConnInv BY DEF IInv
<1>2. UNCHANGED <<fd, tcpMap, op, raced>>
  BY DEF QuietStep, MyRun, FillFdset, ended, select, refresh, HandleEvent, endOfRound, Stop, peer,
         HandleConnecting, vars, netVars, histVars
<1>3. sock' \in [Fd -> SockState] /\ \A f \in Fd : sock'[f] = "free" => sock[f] = "free"
  <2>1. CASE peer
    <3>1. PICK f \in Fd, x \in {"established", "failed", "eof"} : sock' = [sock EXCEPT ![f] = x] BY <2>1 DEF peer
    <3>2. QED BY <1>1, <3>1 DEF TypeInv, SockState
  <2>2. CASE ~peer
    <3>1. UNCHANGED sock
      BY <2>2 DEF QuietStep, MyRun, FillFdset, ended, select, refresh, HandleEvent, endOfRound, Stop,
                  HandleConnecting, vars, netVars
    <3>2. QED BY <1>1, <3>1 DEF TypeInv
  <2>3. QED BY <2>1, <2>2
<1>4. connMap' \in [Fd -> Context] /\ ConnInv'
  <2>1. CASE \E f \in Fd : HandleConnecting(f)
    <3>1. PICK f \in Fd : HandleConnecting(f) BY <2>1
    <3>2. connMap' = NoMap \/ connMap' = Without(connMap, f) \/ connMap' = connMap
      BY <3>1 DEF HandleConnecting
    <3>3. QED BY <1>1, <1>2, <3>2 DEF TypeInv, ConnInv, NoMap, Without, Context
  <2>2. CASE ~\E f \in Fd : HandleConnecting(f)
    <3>1. UNCHANGED connMap
      BY <2>2 DEF QuietStep, MyRun, FillFdset, ended, select, refresh, HandleEvent, endOfRound, Stop, peer,
                  vars, netVars
    <3>2. QED BY <1>1, <1>2, <3>1 DEF TypeInv, ConnInv
  <2>3. QED BY <2>1, <2>2
<1>5. tcpTmp' \in [Fd -> Context]
  <2>1. tcpTmp' = tcpTmp \/ tcpTmp' = tcpMap
    BY DEF QuietStep, MyRun, FillFdset, ended, select, refresh, HandleEvent, endOfRound, Stop, peer,
           HandleConnecting, vars, snapVars
  <2>2. QED BY <1>1, <2>1 DEF TypeInv
<1>6. loopPc' = "tcp" => todo' \subseteq Entries(tcpTmp)'
  <2>1. CASE HandleEvent BY <2>1 DEF HandleEvent, Entries
  <2>2. CASE ~HandleEvent
    <3>1. loopPc' = "tcp" => loopPc = "tcp" /\ UNCHANGED <<todo, tcpTmp>>
      BY <2>2 DEF QuietStep, MyRun, FillFdset, ended, select, refresh, endOfRound, Stop, peer,
                  HandleConnecting, vars, snapVars
    <3>2. QED BY <1>1, <3>1 DEF TypeInv, Entries
  <2>3. QED BY <2>1, <2>2
<1>7. TypeInv' BY <1>1, <1>2, <1>3, <1>4, <1>5, <1>6 DEF TypeInv
<1>8. ASSUME ~raced' PROVE OpInv' /\ OwnInv' /\ MapInv'
  <2>1. OpInv /\ OwnInv /\ MapInv BY <1>2, <1>8 DEF IInv
  <2>2. QED BY <1>1, <1>2, <1>3, <2>1, QuietInv
<1>9. QED BY <1>4, <1>7, <1>8 DEF IInv

\* OnClose from HandleTcpSocketEvent.
LEMMA HandleTcpSocketEventInv ==
    ASSUME IInv, ~raced, NEW f \in Fd, HandleTcpSocketEvent(f)
    PROVE  IInv'
<1>1. TypeInv /\ ConnInv /\ OpInv /\ OwnInv /\ MapInv BY DEF IInv
<1>2. /\ loopPc = "tcp" /\ op["loop"] = Idle /\ f \in todo /\ todo' \subseteq todo
      /\ UNCHANGED <<fd, sock, tcpMap, connMap, loopPc, tcpTmp>>
  BY DEF HandleTcpSocketEvent, netVars
<1>3. "loop" \in Thread BY DEF Thread
<1>4. tcpTmp[f] \in Client
  <2>1. tcpTmp[f] # NoClient BY <1>1, <1>2 DEF TypeInv, Entries
  <2>2. QED BY <1>1, <2>1 DEF TypeInv, Context
<1>5. CASE beginClose("loop", tcpTmp[f]) BY <1>2, <1>3, <1>4, <1>5, beginCloseInv
<1>6. CASE UNCHANGED <<op, raced>>
  <2>1. TypeInv' BY <1>1, <1>2, <1>6 DEF TypeInv, Entries
  <2>2. ConnInv' BY <1>1, <1>2 DEF ConnInv
  <2>3. OpInv' /\ OwnInv' /\ MapInv' BY <1>1, <1>2, <1>6, QuietInv
  <2>4. QED BY <2>1, <2>2, <2>3 DEF IInv
<1>7. QED BY <1>5, <1>6 DEF HandleTcpSocketEvent

\* Every step of the two threads and of the peers keeps the invariant.
LEMMA StepInv == IInv /\ [Next]_vars => IInv'
<1> SUFFICES ASSUME IInv, [Next]_vars PROVE IInv'
  OBVIOUS
<1>1. CASE QuietStep BY <1>1, QuietStepInv
<1>2. CASE ~raced /\ \E t \in Thread : clientStep(t)
  BY <1>2, SetSocketContextInv, ConnectInv, connectingInv, CloseSocketInv, close_socketInv, closedInv
     DEF clientStep
<1>3. CASE ~raced /\ \E f \in Fd : HandleTcpSocketEvent(f) BY <1>3, HandleTcpSocketEventInv
<1>4. CASE ~raced /\ \E t \in Thread, c \in Client : Close(t, c)
  <2>1. PICK t \in Thread, c \in Client : Close(t, c) BY <1>4
  <2>2. /\ op[t] = Idle /\ beginClose(t, c)
        /\ UNCHANGED <<fd, sock, tcpMap, connMap, loopPc, tcpTmp, todo>>
    BY <2>1 DEF Close, mayCall, netVars, snapVars
  <2>3. QED BY <1>4, <2>2, beginCloseInv
<1>5. CASE ~raced /\ \E t \in Thread, c \in Client : Open(t, c) BY <1>5, OpenInv
<1>6. QED BY <1>1, <1>2, <1>3, <1>4, <1>5 DEF Next, loopStep, QuietStep, Thread

\* The inductive invariant of the clients, the descriptors and the two maps.
THEOREM LoopInvariance == Spec => []IInv
  BY InitInv, StepInv, PTL DEF Spec

\* Whatever the interleaving of Open and Close in the two threads, and whichever
\* descriptors are used again, a client at rest is registered for its own socket
\* and for no other, and connecting_map_ agrees with tcp_socket_map_.
THEOREM SocketsAreRegistered == Spec => []SocketRegistered
<1>1. IInv => SocketRegistered
  <2> SUFFICES ASSUME IInv PROVE SocketRegistered
    OBVIOUS
  <2>1. \A f \in Fd : connMap[f] \in {tcpMap[f], NoClient} BY DEF IInv, ConnInv
  <2>2. ASSUME ~raced, NEW c \in Client, \A t \in Thread : op[t].c # c
        PROVE  /\ {f \in Fd : tcpMap[f] = c} = {fd[c]} \ {Closed}
               /\ fd[c] # Closed => sock[fd[c]] # "free"
    <3>1. TypeInv /\ OwnInv /\ MapInv BY <2>2 DEF IInv
    <3>2. Owns(c) <=> fd[c] # Closed BY <2>2 DEF Owns
    <3>3. fd[c] # Closed => fd[c] \in Fd /\ tcpMap[fd[c]] = c BY <2>2, <3>1, <3>2 DEF MapInv, TypeInv
    <3>4. \A f \in Fd : tcpMap[f] = c => fd[c] = f /\ fd[c] # Closed BY <3>1, <3>2 DEF MapInv
    <3>5. QED BY <3>1, <3>2, <3>3, <3>4 DEF OwnInv
  <2>3. QED BY <2>1, <2>2 DEF SocketRegistered
<1>2. QED BY <1>1, LoopInvariance, PTL
=============================================================================
