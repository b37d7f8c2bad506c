----------------------------- MODULE MCStorage -----------------------------
(***************************************************************************)
(* Instances of Storage for TLC: one authority, and a client with a        *)
(* transfer for each of its first two nonces.                              *)
(***************************************************************************)
EXTENDS Storage

CONSTANT A

OneAuthority == <<A>>
TwoTransfers == {createTransaction(1, 2, 1, 0, 0), createTransaction(1, 2, 1, 1, 0)}
Allocations == [a \in {1} |-> 2]

=============================================================================
