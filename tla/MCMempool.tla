------------------------------ MODULE MCMempool ------------------------------
(***************************************************************************)
(* A small ledger for TLC.  Accounts 1 and 2 exist at genesis, 3 does not. *)
(* Sender 1 has a chain of nonces 0, 1, 2 it cannot always pay for, a      *)
(* rival for nonce 0 (a transfer to itself); sender 3 can only pay once it *)
(* has been paid; one transaction was redirected after it was signed, and  *)
(* competes with the original.  Supply 4 of a word of 8.                   *)
(***************************************************************************)
EXTENDS Mempool

MCAddress == {1, 2, 3}
MCAllocations == [a \in {1, 2} |-> IF a = 1 THEN 3 ELSE 1]

MCTxs ==
    { createTransaction(1, 2, 1, 0, 0), createTransaction(1, 3, 2, 1, 0),
      createTransaction(1, 2, 1, 2, 0), createTransaction(1, 1, 3, 0, 1),
      createTransaction(2, 1, 1, 0, 0), createTransaction(3, 1, 1, 0, 0),
      [createTransaction(2, 1, 1, 0, 0) EXCEPT !.recipient = 3] }

=============================================================================
