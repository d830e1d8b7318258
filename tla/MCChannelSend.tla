--------------------------- MODULE MCChannelSend ---------------------------
(***************************************************************************)
(* TLC instances of ChannelSend.  DataBuffer objects and senders are       *)
(* interchangeable.                                                        *)
(***************************************************************************)
EXTENDS ChannelSend, TLC

Symmetry == Permutations(Buf) \cup Permutations(Sender)

=============================================================================
