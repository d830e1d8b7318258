-------------------------- MODULE MCRelaySession --------------------------
(***************************************************************************)
(* RelaySession for TLC: the configurations give the constants.            *)
(***************************************************************************)
EXTENDS RelaySession

=============================================================================
