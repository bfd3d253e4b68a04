---------------------------- MODULE MCPeerManager ----------------------------
(***************************************************************************)
(* Two addresses, the first configured twice: the next connection goes to  *)
(* the address of the one before, as with a single address, or to another. *)
(***************************************************************************)
EXTENDS PeerManager

TwoIps == <<"i", "i", "j">>
=============================================================================
