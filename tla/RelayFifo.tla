----------------------------- MODULE RelayFifo -----------------------------
(***************************************************************************)
(* What a channel of the relay promises about the packets it is given: it  *)
(* sends them in the order in which it accepted them, each at most once,   *)
(* and with the contents they had when it accepted them.                   *)
(***************************************************************************)
EXTENDS Naturals, Sequences

CONSTANT Packet

VARIABLES
    accepted,   \* the packets accepted so far, in order
    sent        \* the packets sent so far, in order

Init == accepted = << >> /\ sent = << >>

Accept(p) ==
    /\ accepted' = Append(accepted, p)
    /\ UNCHANGED sent

\* One step may send several packets: a TCP receiver takes what one recv gave it.
Send ==
    /\ \E n \in Len(sent) + 1 .. Len(accepted) : sent' = SubSeq(accepted, 1, n)
    /\ UNCHANGED accepted

Next == Send \/ \E p \in Packet : Accept(p)

Spec == Init /\ [][Next]_<<accepted, sent>>

=============================================================================
