---------------------------- MODULE Transactions ----------------------------
(***************************************************************************)
(* Keys and signatures of crypto/keys.cpp, and the signed transfers of     *)
(* core/transaction.cpp.  SHA-256 is collision free, so a hash is modelled *)
(* as the tuple of the fields it covers.  A key pair, its public key and   *)
(* the address derived from it are one value; a signature is the pair of   *)
(* the key it was made with and the hash it signs.                         *)
(***************************************************************************)

CONSTANT Txs            \* every transaction that may turn up

\* A transaction has the fields of struct Transaction and no others.
ASSUME TransactionShape ==
    \A tx \in Txs :
        tx = [sender          |-> tx.sender,
              recipient       |-> tx.recipient,
              amount          |-> tx.amount,
              nonce           |-> tx.nonce,
              timestamp       |-> tx.timestamp,
              senderPublicKey |-> tx.senderPublicKey,
              hash            |-> tx.hash,
              signature       |-> tx.signature]

-----------------------------------------------------------------------------

\* deriveAddress: one address for each key.
deriveAddress(key) == key

\* ECDSA with a deterministic nonce: one signature for each key and hash.
sign(hash, key) == <<key, hash>>

\* The signature is what the owner of the key signs that hash with.
verify(hash, signature, key) == signature = sign(hash, key)

\* The signable fields; it is the transaction's identity.
computeTransactionHash(tx) ==
    <<tx.sender, tx.recipient, tx.amount, tx.nonce, tx.timestamp,
      tx.senderPublicKey>>

\* createTransaction and signTransaction, at time now.
createTransaction(key, recipient, amount, nonce, now) ==
    LET hash == <<deriveAddress(key), recipient, amount, nonce, now, key>>
    IN  [sender          |-> deriveAddress(key),
         recipient       |-> recipient,
         amount          |-> amount,
         nonce           |-> nonce,
         timestamp       |-> now,
         senderPublicKey |-> key,
         hash            |-> hash,
         signature       |-> sign(hash, key)]

\* The key is the sender's, the hash is that of the fields, and the key
\* signed it.
verifyTransaction(tx) ==
    /\ deriveAddress(tx.senderPublicKey) = tx.sender
    /\ tx.hash = computeTransactionHash(tx)
    /\ verify(tx.hash, tx.signature, tx.senderPublicKey)

=============================================================================
