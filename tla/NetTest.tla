------------------------------ MODULE NetTest ------------------------------
(***************************************************************************)
(* NetTestManager of the local proxy: the relay servers that are set for   *)
(* SIP and RTP, the heartbeats that test them over TCP and UDP, and the    *)
(* choice of a server for a transport that has lost its own.  AppendServer *)
(* runs in the user's thread, everything else in the network loop; the two *)
(* meet at result_map_lock_ and start_test_lock_.                          *)
(*                                                                         *)
(* The model keeps times whole.  The program has only what Utils::Time     *)
(* returns of them, the low 32 bits, and compares those as they are.       *)
(***************************************************************************)
EXTENDS Integers, FiniteSets, TLC

CONSTANTS
    Server,         \* server addresses
    NoServer,       \* the empty InetAddress
    TimeRange,      \* 2^32: the range of the uint32_t that Utils::Time returns
    StartTime,      \* the time when the manager is made
    TestPeriod,     \* s_nTestPeriod
    TestInterval,   \* s_nTestInterval
    MaxTime,        \* bound: the clock
    MaxSets         \* bound: calls of AppendServer

ASSUME ServerAssumption == NoServer \notin Server /\ IsFiniteSet(Server)
ASSUME TimeAssumption ==
    /\ {StartTime, TestPeriod, TestInterval, MaxTime, MaxSets} \subseteq Nat
    /\ TestPeriod < TestInterval /\ TimeRange \in Nat /\ TestInterval < TimeRange

RelayType == {"SIP", "RTP"}
Proto == {"TCP", "UDP"}
ServerOrNone == Server \cup {NoServer}

VARIABLES
    result,     \* m_nSipResult, m_nRtpResult: server -> Attribute
    lastTest,   \* m_nLastTestTime
    testActive, \* m_bTestActive
    probes,     \* the heartbeats whose answer may still come
    clock,      \* the time in milliseconds
    loopNow,    \* OnTimer's local now
    loopPc,     \* the network loop: between two locked sections, or idle
    apiPc,      \* the user's thread likewise
    sets,       \* history: calls of AppendServer
    sipServers  \* history: the SIP servers last set

testVars == <<result, lastTest, testActive, probes, clock, loopNow, loopPc, apiPc, sets, sipServers>>

\* Utils::Time() at time t.
Time(t) == t % TimeRange

\* Attribute: how the server has answered since the last Reset, and when.
Blank == [use |-> {}, at |-> 0]
GetPriority(a) == a.use

-----------------------------------------------------------------------------

NetInit ==
    /\ result = [ty \in RelayType |-> [s \in {} |-> Blank]]
    /\ lastTest = 0
    /\ testActive = FALSE
    /\ probes = {}
    /\ clock = StartTime
    /\ loopNow = 0
    /\ loopPc = "idle"
    /\ apiPc = "idle"
    /\ sets = 0
    /\ sipServers = {}

\* A millisecond of Utils::TimeNanos passes.
ClockTick ==
    /\ clock < MaxTime
    /\ clock' = clock + 1
    /\ UNCHANGED <<result, lastTest, testActive, probes, loopNow, loopPc, apiPc, sets, sipServers>>

\* The body of StartTest: RTP servers are tested over UDP and TCP, SIP servers
\* over TCP; a test that is not forced forgets the results.
DoStartTest(forced) ==
    LET dest == ((DOMAIN result["RTP"]) \X Proto) \cup ((DOMAIN result["SIP"]) \X {"TCP"}) IN
    /\ lastTest' = clock
    /\ \/ dest # {} /\ probes' = probes \cup dest /\ testActive' = TRUE
       \/ UNCHANGED <<probes, testActive>>    \* no server, or no socket opens
    /\ result' = IF forced THEN result ELSE [ty \in RelayType |-> [s \in DOMAIN result[ty] |-> Blank]]

\* StartTest: a test that is not forced waits TestPeriod after the last.
StartTest(forced) ==
    \/ /\ forced \/ Time(clock) - Time(lastTest) >= TestPeriod
       /\ DoStartTest(forced)
    \/ /\ ~forced /\ Time(clock) - Time(lastTest) < TestPeriod
       /\ UNCHANGED <<result, lastTest, testActive, probes>>

\* OnTimer reads the clock ...
onTimerClock ==
    /\ loopPc = "idle"
    /\ loopNow' = clock
    /\ loopPc' = "timer"
    /\ UNCHANGED <<result, lastTest, testActive, probes, clock, apiPc, sets, sipServers>>

\* Mutant of onTimerTest: the period of the test is not awaited.
onTimerTestHasty ==
    /\ loopPc = "timer"
    /\ IF Time(loopNow) - Time(lastTest) > TestInterval
       THEN StartTest(TRUE)
       ELSE UNCHANGED <<result, lastTest, testActive, probes>>
    /\ loopPc' = IF testActive' THEN "stop" ELSE "idle"
    /\ UNCHANGED <<clock, loopNow, apiPc, sets, sipServers>>

\* ... starts the test of every TestInterval, and decides whether to stop one.
onTimerTest ==
    /\ loopPc = "timer"
    /\ IF Time(loopNow) - Time(lastTest) > TestInterval
       THEN StartTest(TRUE)
       ELSE UNCHANGED <<result, lastTest, testActive, probes>>
    /\ loopPc' = IF testActive' /\ Time(loopNow) - Time(lastTest') > TestPeriod THEN "stop" ELSE "idle"
    /\ UNCHANGED <<clock, loopNow, apiPc, sets, sipServers>>

\* StopTest closes the test sockets: later answers are lost.  The other thread
\* may have started a new test since OnTimer looked at the clock.
StopTest ==
    /\ loopPc = "stop"
    /\ testActive' = FALSE
    /\ probes' = IF testActive THEN {} ELSE probes
    /\ loopPc' = "idle"
    /\ UNCHANGED <<result, lastTest, clock, loopNow, apiPc, sets, sipServers>>

\* AppendServer replaces the servers of a type ...
AppendServer(ty, S) ==
    /\ apiPc = "idle" /\ sets < MaxSets
    /\ sets' = sets + 1
    /\ result' = [result EXCEPT ![ty] = [s \in S |-> Blank]]
    /\ sipServers' = IF ty = "SIP" THEN S ELSE sipServers
    /\ apiPc' = "start"
    /\ UNCHANGED <<lastTest, testActive, probes, clock, loopNow, loopPc>>

\* ... and starts a test.
appendStart ==
    /\ apiPc = "start"
    /\ StartTest(TRUE)
    /\ apiPc' = "idle"
    /\ UNCHANGED <<clock, loopNow, loopPc, sets, sipServers>>

\* Mutant of UpdateTestResult: a replaced server is let in again over TCP too.
UpdateTestResultAll(s, p) ==
    result' = [ty \in RelayType |->
        [x \in DOMAIN result[ty] \cup {s} |->
            IF x # s THEN result[ty][x]
            ELSE [use |-> {p} \cup (IF s \in DOMAIN result[ty] THEN result[ty][s].use ELSE {}), at |-> clock]]]

\* UpdateTestResult: a UDP answer concerns RTP only, and an unknown address is
\* let in (a server with a dynamic address); a TCP answer concerns both.
UpdateTestResult(s, p) ==
    result' = [ty \in RelayType |->
        LET old == result[ty]
            new == [use |-> {p} \cup (IF s \in DOMAIN old THEN old[s].use ELSE {}), at |-> clock]
        IN  IF p = "UDP" /\ ty = "SIP" THEN old
            ELSE [x \in DOMAIN old \cup (IF p = "UDP" THEN {s} ELSE {}) |-> IF x = s THEN new ELSE old[x]]]

\* NetTest::OnHandlePdu: s answers over p, over UDP perhaps in the place of the
\* address that was tested.
OnHandlePdu(s, p) ==
    /\ loopPc = "idle"
    /\ \E t \in Server : <<t, p>> \in probes /\ (p = "TCP" => t = s) /\ probes' = probes \ {<<t, p>>}
    /\ UpdateTestResult(s, p)
    /\ UNCHANGED <<lastTest, testActive, clock, loopNow, loopPc, apiPc, sets, sipServers>>

\* The servers of map r that have answered in exactly the ways u and whose
\* update_time_ is below the present one, of which GetNewSvr keeps one with the
\* smallest.
Candidates(r, u) == {s \in DOMAIN r : GetPriority(r[s]) = u /\ Time(r[s].at) < Time(clock)}
Oldest(r, u) == {s \in Candidates(r, u) : \A x \in Candidates(r, u) : Time(r[s].at) <= Time(r[x].at)}

\* The order in which GetNewSvr prefers them.
Preference(ty) == IF ty = "SIP" THEN <<Proto, {"TCP"}, {"UDP"}>> ELSE <<Proto, {"UDP"}, {"TCP"}>>
Best(r, ty) ==
    LET P == Preference(ty)
        ok == {i \in 1 .. 3 : Candidates(r, P[i]) # {}}
    IN  IF ok = {} THEN {} ELSE Oldest(r, P[CHOOSE i \in ok : \A j \in ok : i <= j])

\* cur is set, and is not the only server.
hasOther(ty, cur) == cur \in DOMAIN result[ty] /\ Cardinality(DOMAIN result[ty]) > 1

\* Mutant of resetCurrent: the server in use keeps its result.
resetCurrentKeeping(ty, cur) == result[ty]

\* GetNewSvr first forgets the result of the server in use, if there are others.
resetCurrent(ty, cur) ==
    IF hasOther(ty, cur)
    THEN [result[ty] EXCEPT ![cur] = Blank]
    ELSE result[ty]

\* GetNewSvr up to the unlock: the best server, or the one in use when there is
\* none and it had answered.
GetNewSvr(ty, cur, s) ==
    LET r == resetCurrent(ty, cur) IN
    /\ loopPc = "idle" /\ loopPc' = "start"
    /\ \/ s \in Best(r, ty)
       \/ /\ Best(r, ty) = {}
          /\ s = IF hasOther(ty, cur) /\ GetPriority(result[ty][cur]) # {} THEN cur ELSE NoServer
    /\ result' = [result EXCEPT ![ty] = r]
    /\ UNCHANGED <<lastTest, testActive, probes, clock, loopNow, apiPc, sets, sipServers>>

\* GetNewSvr ends with StartTest.
getNewSvrStart ==
    /\ loopPc = "start"
    /\ StartTest(FALSE)
    /\ loopPc' = "idle"
    /\ UNCHANGED <<clock, loopNow, apiPc, sets, sipServers>>

NetNext ==
    \/ ClockTick \/ onTimerClock \/ onTimerTest \/ StopTest \/ appendStart \/ getNewSvrStart
    \/ \E ty \in RelayType, S \in SUBSET Server \ {{}} : AppendServer(ty, S)
    \/ \E s \in Server, p \in Proto : OnHandlePdu(s, p)
    \/ \E ty \in RelayType, cur \in ServerOrNone, s \in ServerOrNone : GetNewSvr(ty, cur, s)

\* The names of the servers do not matter.
Symmetry == Permutations(Server)

NetSpec == NetInit /\ [][NetNext]_testVars

-----------------------------------------------------------------------------
(* Properties.                                                              *)

\* SipRelay connects over TCP whatever GetNewSvr says: a server that can be
\* picked for SIP has answered over TCP, and is one of those last set, although
\* UpdateTestResult lets in unknown servers and answers to earlier tests.
SipPicksUsable ==
    \A s \in DOMAIN result["SIP"] : s \in sipServers /\ result["SIP"][s].use \subseteq {"TCP"}

\* The 32 bits of Utils::Time have run over since t.
WrappedSince(t) == t \div TimeRange < clock \div TimeRange

\* GetNewSvr stays with the server in use only when every other one has not
\* answered, or answered in this very millisecond, or before the clock ran over:
\* otherwise a transport that lost its server fails over.
FailsOver ==
    [][\A ty \in RelayType, cur \in Server :
         GetNewSvr(ty, cur, cur) =>
             \A s \in DOMAIN result[ty] \ {cur} :
                 result[ty][s].use = {} \/ result[ty][s].at = clock \/ WrappedSince(result[ty][s].at)]_testVars

\* StopTest takes the sockets from a test before its TestPeriod is over only if
\* the test began after OnTimer had read the clock.
StopsEarlyOnlyIfRaced ==
    [][testActive /\ ~testActive' => clock - lastTest > TestPeriod \/ lastTest >= loopNow]_testVars

=============================================================================
