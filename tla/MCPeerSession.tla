--------------------------- MODULE MCPeerSession ---------------------------
(***************************************************************************)
(* Instances of PeerSession for TLC.                                       *)
(***************************************************************************)
EXTENDS PeerSession

\* One end sends more than the other.
TwoAndOne == [e \in End |-> IF e = "dialler" THEN 2 ELSE 1]

=============================================================================
