--------------------------- MODULE MCNodeProcess ---------------------------
(***************************************************************************)
(* Instances of NodeProcess for TLC: two workers, a peer, a transaction    *)
(* that is valid once and one that never is.                               *)
(***************************************************************************)
EXTENDS NodeProcess

CONSTANTS w1, w2, p1, good, bad

=============================================================================
