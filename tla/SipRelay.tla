------------------------------ MODULE SipRelay ------------------------------
(***************************************************************************)
(* SipRelay of the local proxy and GetSipChannel, through which the user   *)
(* learns the local port for SIP, and that the channel was made anew so    *)
(* that it must register again.  OnTimer runs in the network loop, step by *)
(* step; GetSipChannel and ResetChannel run in the user's thread.  The     *)
(* flags they share are not locked.  The relay is enabled throughout.      *)
(***************************************************************************)
EXTENDS Integers

CONSTANTS
    MaxFault    \* bound: sockets lost or refused, time-outs, resets, ...

ASSUME FaultAssumption == MaxFault \in Nat

VARIABLES
    udp,        \* socket_fd_ of the local UDP socket is open
    port,       \* local_port_
    remote,     \* the connection of m_pRemoteTransport is open
    late,       \* its CheckTimeout holds
    auth,       \* its auth_successed_
    sipActive,  \* m_bActive
    restart,    \* m_bRestart
    firstUse,   \* m_bFirstUse
    timerPc,    \* where OnTimer is
    userPc,     \* where the user's thread is
    bRestart,   \* bRestart, the local variable of IsRestarted
    ret,        \* what GetSipChannel returned last
    epoch,      \* history: how often the channel was made
    known,      \* history: the epoch the user has registered with, or 0
    lost,       \* history: IsRestarted cleared a flag that it had not read
    faults      \* history: the faults so far

flagVars == <<sipActive, restart, firstUse>>
netVars == <<udp, port, remote, late, auth>>
apiVars == <<userPc, bRestart, ret, known, lost>>
sipVars == <<netVars, flagVars, timerPc, apiVars, epoch, faults>>

-----------------------------------------------------------------------------

\* The constructor opens the UDP socket; the transport is not connected.
SipInit ==
    /\ udp = TRUE /\ port = 1
    /\ remote = FALSE /\ late = FALSE /\ auth = FALSE
    /\ sipActive = FALSE /\ restart = FALSE /\ firstUse = TRUE
    /\ timerPc = "idle"
    /\ userPc = "idle" /\ bRestart = FALSE /\ ret = -1
    /\ epoch = 1 /\ known = 0 /\ lost = FALSE
    /\ faults = 0

(* The network loop. *)

\* OnTimer: a UDP socket that is closed is opened anew ...
timerLocal ==
    /\ timerPc = "idle"
    /\ sipActive' = (sipActive /\ udp)
    /\ timerPc' = IF udp THEN "remote" ELSE "open"
    /\ UNCHANGED <<netVars, restart, firstUse, apiVars, epoch, faults>>

\* ... by UdpNetClient::Open, which sets the descriptor before the port ...
openUdp ==
    /\ timerPc = "open"
    /\ \/ udp' = TRUE /\ timerPc' = "bind"
       \/ udp' = FALSE /\ timerPc' = "idle"
    /\ UNCHANGED <<port, remote, late, auth, flagVars, apiVars, epoch, faults>>

\* Mutant of bindUdp: the port the system chose is not read back.
bindUdpBlind ==
    /\ timerPc = "bind"
    /\ IF udp
       THEN port' = 0 /\ epoch' = epoch + 1 /\ timerPc' = "remote"
       ELSE timerPc' = "idle" /\ UNCHANGED <<port, epoch>>
    /\ UNCHANGED <<udp, remote, late, auth, flagVars, apiVars, faults>>

\* ... and binds it, unless it is closed again.
bindUdp ==
    /\ timerPc = "bind"
    /\ IF udp
       THEN port' = epoch + 1 /\ epoch' = epoch + 1 /\ timerPc' = "remote"
       ELSE timerPc' = "idle" /\ UNCHANGED <<port, epoch>>
    /\ UNCHANGED <<udp, remote, late, auth, flagVars, apiVars, faults>>

\* Mutant of timerRemote: the channel stays active while the relay is changed.
timerRemoteActive ==
    /\ timerPc = "remote"
    /\ IF remote /\ ~late
       THEN timerPc' = "restart" /\ UNCHANGED <<sipActive, remote, late, auth, epoch, faults>>
       ELSE /\ sipActive' = sipActive
            /\ \/ timerPc' = "idle" /\ UNCHANGED <<remote, late, auth, epoch, faults>>
               \/ /\ \/ remote' = TRUE /\ UNCHANGED faults
                     \/ remote' = FALSE /\ faults < MaxFault /\ faults' = faults + 1
                  /\ late' = FALSE /\ auth' = FALSE
                  /\ epoch' = epoch + 1
                  /\ timerPc' = "restart"
    /\ UNCHANGED <<udp, port, restart, firstUse, apiVars>>

\* A transport that is closed or late gets the server GetNewSvr finds, if any;
\* ConnectRelaySvr may fail to open the connection.
timerRemote ==
    /\ timerPc = "remote"
    /\ IF remote /\ ~late
       THEN timerPc' = "restart" /\ UNCHANGED <<sipActive, remote, late, auth, epoch, faults>>
       ELSE /\ sipActive' = FALSE
            /\ \/ timerPc' = "idle" /\ UNCHANGED <<remote, late, auth, epoch, faults>>
               \/ /\ \/ remote' = TRUE /\ UNCHANGED faults
                     \/ remote' = FALSE /\ faults < MaxFault /\ faults' = faults + 1
                  /\ late' = FALSE /\ auth' = FALSE
                  /\ epoch' = epoch + 1
                  /\ timerPc' = "restart"
    /\ UNCHANGED <<udp, port, restart, firstUse, apiVars>>

\* The end of OnTimer: the channel is active; it was restarted if it had been
\* inactive, except the first time.
timerRestart ==
    /\ timerPc = "restart"
    /\ restart' = (restart \/ (~sipActive /\ ~firstUse))
    /\ firstUse' = FALSE
    /\ sipActive' = TRUE
    /\ timerPc' = "idle"
    /\ UNCHANGED <<netVars, apiVars, epoch, faults>>

\* The relay's SUCC_AUTH arrives.
granted ==
    /\ timerPc = "idle" /\ remote /\ ~auth
    /\ auth' = TRUE
    /\ UNCHANGED <<udp, port, remote, late, flagVars, timerPc, apiVars, epoch, faults>>

\* OnClose of a socket, a relay that is silent, or NEED_REAUTH.
fault ==
    /\ timerPc = "idle" /\ faults < MaxFault
    /\ faults' = faults + 1
    /\ \/ udp /\ udp' = FALSE /\ UNCHANGED <<remote, late, auth>>
       \/ remote /\ remote' = FALSE /\ UNCHANGED <<udp, late, auth>>
       \/ remote /\ ~late /\ late' = TRUE /\ UNCHANGED <<udp, remote, auth>>
       \/ auth /\ auth' = FALSE /\ UNCHANGED <<udp, remote, late>>
    /\ UNCHANGED <<port, flagVars, timerPc, apiVars, epoch>>

(* The user's thread. *)

\* ResetChannel, called when new servers are set, closes the UDP socket ...
ResetChannel ==
    /\ userPc = "idle" /\ faults < MaxFault
    /\ faults' = faults + 1
    /\ udp' = FALSE
    /\ userPc' = "disconnect"
    /\ UNCHANGED <<port, remote, late, auth, flagVars, timerPc, bRestart, ret, epoch, known, lost>>

\* ... and then the connection to the relay.
DisConnectRelaySvr ==
    /\ userPc = "disconnect"
    /\ remote' = FALSE
    /\ userPc' = "idle"
    /\ UNCHANGED <<udp, port, late, auth, flagVars, timerPc, bRestart, ret, epoch, known, lost, faults>>

\* GetSipChannel: GetState.
GetState ==
    /\ userPc = "idle"
    /\ IF sipActive /\ auth
       THEN userPc' = "read" /\ UNCHANGED ret
       ELSE ret' = -1 /\ UNCHANGED userPc
    /\ UNCHANGED <<netVars, flagVars, timerPc, bRestart, epoch, known, lost, faults>>

\* IsRestarted reads the flag ...
readRestart ==
    /\ userPc = "read"
    /\ bRestart' = restart
    /\ userPc' = "clear"
    /\ UNCHANGED <<netVars, flagVars, timerPc, ret, epoch, known, lost, faults>>

\* Mutant of clearRestart: the flag stays.
clearRestartKeeping ==
    /\ userPc = "clear"
    /\ lost' = lost
    /\ IF bRestart
       THEN ret' = -2 /\ known' = epoch /\ userPc' = "idle"
       ELSE userPc' = "port" /\ UNCHANGED <<ret, known>>
    /\ UNCHANGED <<netVars, flagVars, timerPc, bRestart, epoch, faults>>

\* ... and clears it: -2 when it was set.
clearRestart ==
    /\ userPc = "clear"
    /\ restart' = FALSE
    /\ lost' = (lost \/ (restart /\ ~bRestart))
    /\ IF bRestart
       THEN ret' = -2 /\ known' = epoch /\ userPc' = "idle"
       ELSE userPc' = "port" /\ UNCHANGED <<ret, known>>
    /\ UNCHANGED <<netVars, sipActive, firstUse, timerPc, bRestart, epoch, faults>>

\* GetService: the port of the UDP socket, or -1 when it is closed.  Open has
\* set local_port_ to 0, or not yet, while it binds the socket.
GetService ==
    /\ userPc = "port"
    /\ ret' \in (IF udp THEN {port} ELSE {}) \cup (IF udp /\ timerPc # "bind" THEN {} ELSE {-1})
    /\ known' = IF known = 0 /\ ret' > 0 THEN epoch ELSE known
    /\ userPc' = "idle"
    /\ UNCHANGED <<netVars, flagVars, timerPc, bRestart, epoch, lost, faults>>

loop == timerLocal \/ openUdp \/ bindUdp \/ timerRemote \/ timerRestart
GetSipChannel == GetState \/ readRestart \/ clearRestart \/ GetService

SipNext == loop \/ granted \/ fault \/ ResetChannel \/ DisConnectRelaySvr \/ GetSipChannel
SipSpec == SipInit /\ [][SipNext]_sipVars

\* The timer thread wakes the loop every 300 ms, the user polls GetSipChannel,
\* and a socket that is opened, a server that is looked for or an answer that is
\* awaited again and again is there some time.
SipLiveSpec ==
    /\ SipSpec
    /\ WF_sipVars(loop) /\ WF_sipVars(GetSipChannel) /\ WF_sipVars(DisConnectRelaySvr)
    /\ SF_sipVars(openUdp /\ udp') /\ SF_sipVars(timerRemote /\ timerPc' = "restart") /\ SF_sipVars(granted)

-----------------------------------------------------------------------------
(* Properties.                                                              *)

\* Types; only a port that was bound is returned.
FlagsOK ==
    /\ udp \in BOOLEAN /\ remote \in BOOLEAN /\ late \in BOOLEAN /\ auth \in BOOLEAN
    /\ sipActive \in BOOLEAN /\ restart \in BOOLEAN /\ firstUse \in BOOLEAN
    /\ bRestart \in BOOLEAN /\ lost \in BOOLEAN
    /\ timerPc \in {"idle", "open", "bind", "remote", "restart"}
    /\ userPc \in {"idle", "read", "clear", "port", "disconnect"}
NumbersOK ==
    /\ ret \in {-1, -2} \cup 1 .. epoch
    /\ epoch \in Nat /\ port \in 1 .. epoch /\ known \in 0 .. epoch
    /\ faults \in 0 .. MaxFault
SipTypeOK == FlagsOK /\ NumbersOK

\* A user that has registered with a channel that was made anew since is told
\* so by the next GetSipChannel, unless IsRestarted has wiped the flag out.
StaleIsTold ==
    sipActive /\ userPc = "idle" /\ known \notin {0, epoch} => restart \/ lost

\* Once the faults have ended GetSipChannel returns a port, again and again.
PortReturned == []<>(ret > 0)

=============================================================================
