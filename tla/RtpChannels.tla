----------------------------- MODULE RtpChannels -----------------------------
(***************************************************************************)
(* RtpChannelManager of the local proxy: RTP channels by remote address,   *)
(* added, bound and detached by the user, and closed and, some time later, *)
(* deleted by the timer of the network loop.  The clock is Utils::Time(),  *)
(* 32 bits of milliseconds; the manager stores it in 64 bits.  OnTimer is  *)
(* one step: what the user's thread does between its parts commutes with   *)
(* one of them.  Payload and the transports' state are left out.           *)
(***************************************************************************)
EXTENDS Integers, Sequences, SequencesExt

CONSTANTS
    Addr,           \* remote addresses
    MaxChan,        \* bound: RtpChannel objects that are made
    Period,         \* s_nSchedulingPeriod
    Delay,          \* the argument of RelayExpireObj
    ClockSize,      \* 2^32: the clock counts 0 .. ClockSize - 1
    MaxTicks        \* bound: time

ASSUME BoundAssumption ==
    /\ MaxChan \in Nat /\ MaxTicks \in Nat
    /\ {Period, Delay, ClockSize} \subseteq Nat \ {0}

VARIABLES
    map,        \* m_nRtpChannelMap: the channel of an address, or 0
    made,       \* the channels made are 1 .. made
    server,     \* m_nRelayServer is set
    active,     \* the channels with m_bActive
    sink,       \* the channels with a remote_data_sink_
    detached,   \* the channels with m_bDeatched
    held,       \* the channels the user has bound and not detached since
    delayed,    \* m_nDelayRtpChannel
    now,        \* Utils::Time()
    schedTime,  \* m_nSchedulingTime
    called,     \* the loop has called OnTimer since the clock last moved
    ticks,      \* history: time
    closedAt    \* history: when a channel was closed

chanVars == <<map, made, server, active, sink, detached, held, delayed>>
timeVars == <<now, schedTime, called, ticks>>
vars == <<chanVars, timeVars, closedAt>>

Chan == 1 .. made
Mapped == {map[a] : a \in Addr} \ {0}
InDelay == {delayed[i].obj : i \in DOMAIN delayed}
Deleted == Chan \ (Mapped \cup InDelay)

-----------------------------------------------------------------------------

Init ==
    /\ map = [a \in Addr |-> 0]
    /\ made = 0
    /\ server = FALSE
    /\ active = {} /\ sink = {} /\ detached = {} /\ held = {}
    /\ delayed = << >>
    /\ now = 0 /\ schedTime = 0 /\ called = FALSE
    /\ ticks = 0
    /\ closedAt = [c \in 1 .. MaxChan |-> 0]

\* The loop, woken every 300 ms, has run OnTimer in each unit of time.
Tick ==
    /\ called /\ ticks < MaxTicks
    /\ now' = (now + 1) % ClockSize
    /\ ticks' = ticks + 1
    /\ called' = FALSE
    /\ UNCHANGED <<chanVars, schedTime, closedAt>>

\* Mutant of AddChannel: the channel made last is entered again.
AddChannelShared(a) ==
    /\ map[a] = 0 /\ made < MaxChan
    /\ made' = IF made = 0 THEN 1 ELSE made
    /\ map' = [map EXCEPT ![a] = made']
    /\ active' = IF server THEN active \cup {made'} ELSE active
    /\ UNCHANGED <<server, sink, detached, held, delayed, timeVars, closedAt>>

\* AddChannel of an address that has none; it is connected, for good, only when
\* a server is known.
AddChannel(a) ==
    /\ map[a] = 0 /\ made < MaxChan
    /\ made' = made + 1
    /\ map' = [map EXCEPT ![a] = made + 1]
    /\ active' = IF server THEN active \cup {made + 1} ELSE active
    /\ UNCHANGED <<server, sink, detached, held, delayed, timeVars, closedAt>>

\* BindChannel of an address that has a channel.
BindChannel(a) ==
    /\ map[a] # 0
    /\ sink' = sink \cup {map[a]}
    /\ held' = held \cup {map[a]}
    /\ UNCHANGED <<map, made, server, active, detached, delayed, timeVars, closedAt>>

\* Detach by a user that has bound the channel; the timer does the rest.
Detach(c) ==
    /\ c \in held \ Deleted
    /\ held' = held \ {c}
    /\ active' = active \ {c}
    /\ detached' = detached \cup {c}
    /\ UNCHANGED <<map, made, server, sink, delayed, timeVars, closedAt>>

\* ClearRtpChannel takes the sinks away.
ClearRtpChannel ==
    /\ sink \cap Mapped # {}
    /\ sink' = sink \ Mapped
    /\ UNCHANGED <<map, made, server, active, detached, held, delayed, timeVars, closedAt>>

\* SetRelayServer of RTP servers: the server in use is forgotten.
ResetRelayIp ==
    /\ server
    /\ server' = FALSE
    /\ UNCHANGED <<map, made, active, sink, detached, held, delayed, timeVars, closedAt>>

\* Mutant of expired: the first object goes in any case.
expiredEager(n) == n.at # now

\* RelayExpireObj: whether node n has waited long enough, in 32 bits.
expired(n) == (now - n.at) % ClockSize >= Delay

\* What RelayExpireObj leaves: it stops at the first that has not expired.
RelayExpireObj(lst) ==
    LET n == CHOOSE k \in 0 .. Len(lst) :
                 /\ \A i \in 1 .. k : expired(lst[i])
                 /\ k < Len(lst) => ~expired(lst[k + 1])
    IN  SubSeq(lst, n + 1, Len(lst))

\* Mutant of scan: a channel that is closed stays in the map.
scanKeeping(gone) ==
    /\ active' = active \ gone
    /\ sink' = sink \ gone
    /\ map' = map
    /\ delayed' = RelayExpireObj(delayed) \o SetToSeq({[obj |-> c, at |-> now] : c \in gone})
    /\ closedAt' = [c \in 1 .. MaxChan |-> IF c \in gone THEN ticks ELSE closedAt[c]]

\* OnTimer closes the channels gone, which are detached, and keeps them for
\* RelayExpireObj of a later call.
scan(gone) ==
    /\ active' = active \ gone
    /\ sink' = sink \ gone
    /\ map' = [a \in Addr |-> IF map[a] \in gone THEN 0 ELSE map[a]]
    /\ delayed' = RelayExpireObj(delayed) \o SetToSeq({[obj |-> c, at |-> now] : c \in gone})
    /\ closedAt' = [c \in 1 .. MaxChan |-> IF c \in gone THEN ticks ELSE closedAt[c]]

\* Mutant of tooEarly: the period is counted twice.
tooEarlyTwice == now - schedTime < 2 * Period

\* OnTimer's early return, with the clock in 64 bits.
tooEarly == now - schedTime < Period

\* OnTimer: GetNewSvr, called every s_nTestInterval, when channels time out or
\* when no server is known, may find a server.
OnTimer ==
    /\ called' = TRUE
    /\ IF tooEarly
       THEN ~called /\ UNCHANGED <<chanVars, closedAt, schedTime>>
       ELSE /\ schedTime' = now
            /\ scan(detached \cap Mapped)
            /\ server' \in {server, TRUE}
            /\ UNCHANGED <<made, detached, held>>
    /\ UNCHANGED <<now, ticks>>

Next ==
    \/ Tick \/ OnTimer \/ ClearRtpChannel \/ ResetRelayIp
    \/ \E a \in Addr : AddChannel(a) \/ BindChannel(a)
    \/ \E c \in Chan : Detach(c)

Spec == Init /\ [][Next]_vars

\* Time passes, and the timer thread keeps waking the loop.
LiveSpec == Spec /\ WF_vars(Tick) /\ WF_vars(OnTimer)

-----------------------------------------------------------------------------
(* Properties.                                                              *)

\* Types; an address has its own channel.
TypeOK ==
    /\ map \in [Addr -> 0 .. made] /\ made \in 0 .. MaxChan
    /\ \A a, b \in Addr : map[a] = map[b] => a = b \/ map[a] = 0
    /\ active \cup sink \cup detached \cup held \subseteq Chan
    /\ now \in 0 .. ClockSize - 1 /\ schedTime \in 0 .. ClockSize - 1
    /\ server \in BOOLEAN /\ called \in BOOLEAN

\* BindChannel never hands out a channel that waits to be deleted, and no
\* channel waits twice (it would be deleted twice).
BindsLive ==
    /\ Mapped \cap InDelay = {}
    /\ \A i, j \in DOMAIN delayed : delayed[i].obj = delayed[j].obj => i = j

\* A channel is deleted only after a Detach, and not before Delay has passed
\* since it was closed: a call that another thread is in has time to return.
GracePeriod ==
    \A c \in Deleted : c \in detached /\ ticks >= closedAt[c] + Delay

\* A channel that is detached while Delay and one Period are left is deleted before
\* MaxTicks: OnTimer does its work in every Period, and the queue is emptied.
DetachedReleased ==
    \A c \in 1 .. MaxChan : c \in detached /\ ticks + Delay + Period <= MaxTicks ~> c \in Deleted

=============================================================================
