------------------------------ MODULE PoAChain ------------------------------
(***************************************************************************)
(* Blocks and the rules for adding them to a chain, as operators:          *)
(* core/block.cpp, core/blockchain.cpp and core/consensus.cpp.             *)
(*                                                                         *)
(* A chain is a sequence of blocks; the block with index i is chain[i+1].  *)
(* SHA-256 is collision free.  A hash covers the header and, through       *)
(* previousHash, every header before it, so it is modelled as the list of  *)
(* those headers: two hashes are equal exactly when everything they commit *)
(* to is.  A key pair and its address are one value, an element of Key.    *)
(***************************************************************************)
EXTENDS Integers, Sequences, Transactions

CONSTANTS
    Key,                \* key pairs, of the nodes and of the genesis validator
    Authorities,        \* the authorities in round-robin order
    GenesisValidator    \* the key every node signs its genesis block with

ASSUME PoAAssumption ==
    /\ Authorities \in Seq(Key)
    /\ Authorities # << >>
    /\ GenesisValidator \in Key

-----------------------------------------------------------------------------
(***************************************************************************)
(* PoAConsensus                                                            *)
(***************************************************************************)

\* The authority whose turn it is to produce the block with this index.
getProducer(index) == Authorities[(index % Len(Authorities)) + 1]

\* The block comes from that authority.
validateBlock(b) == b.validator = getProducer(b.index)

-----------------------------------------------------------------------------
(***************************************************************************)
(* Blocks                                                                  *)
(***************************************************************************)

Header == [index : Nat, timestamp : Nat, validator : Key,
           transactions : Seq({tx.hash : tx \in Txs})]

Hash == Seq(Header)

ZeroHash == << >>

Block == [index : Nat, timestamp : Nat, previousHash : Hash, validator : Key,
          transactions : Seq(Txs), hash : Hash, signature : Key \X Hash]

\* The hashes of the transactions in order: their concatenation is hashed.
computeTransactionRootHash(txs) == [i \in DOMAIN txs |-> txs[i].hash]

\* The header fields, the root hash of the transactions included.
computeBlockHash(b) ==
    Append(b.previousHash,
           [index |-> b.index, timestamp |-> b.timestamp,
            validator |-> b.validator,
            transactions |-> computeTransactionRootHash(b.transactions)])

\* signBlock: the hash is computed and signed with the validator's key.
SignedBlock(header, key) ==
    LET h == computeBlockHash(header)
    IN  [index        |-> header.index,
         timestamp    |-> header.timestamp,
         previousHash |-> header.previousHash,
         validator    |-> header.validator,
         transactions |-> header.transactions,
         hash         |-> h,
         signature    |-> sign(h, key)]

\* Timestamp 0 on every node, so that all nodes compute the same block.
GenesisBlock ==
    SignedBlock([index        |-> 0,
                 timestamp    |-> 0,
                 previousHash |-> ZeroHash,
                 validator    |-> GenesisValidator,
                 transactions |-> << >>], GenesisValidator)

createBlock(key, previousBlock, transactions, now) ==
    SignedBlock([index        |-> previousBlock.index + 1,
                 timestamp    |-> now,
                 previousHash |-> previousBlock.hash,
                 validator    |-> key,
                 transactions |-> transactions], key)

\* Mutant: the transactions are not checked one by one.
verifyBlock_HeaderOnly(b) ==
    /\ b.hash = computeBlockHash(b)
    /\ verify(b.hash, b.signature, b.validator)

\* The hash matches the header, the validator signed it, and every
\* transaction verifies.
verifyBlock(b) ==
    /\ b.hash = computeBlockHash(b)
    /\ verify(b.hash, b.signature, b.validator)
    /\ b.transactions \in Seq({tx \in Txs : verifyTransaction(tx)})

-----------------------------------------------------------------------------
(***************************************************************************)
(* Blockchain                                                              *)
(***************************************************************************)

getHeight(chain) == Len(chain)

getLatestBlock(chain) == chain[Len(chain)]

\* Mutant: the block's integrity is taken on trust.
Follows_Unverified(b, latest, height) ==
    /\ b.index = height
    /\ b.previousHash = latest.hash
    /\ validateBlock(b)

\* The checks a block must pass to follow the block latest at position
\* height of a chain: index, link, integrity, authority.
Follows(b, latest, height) ==
    /\ b.index = height
    /\ b.previousHash = latest.hash
    /\ verifyBlock(b)
    /\ validateBlock(b)

\* Blockchain::addBlock accepts the block.
CanAdd(chain, b) == Follows(b, getLatestBlock(chain), getHeight(chain))

\* Every block is where its index says, is linked and intact.  Unlike addBlock
\* it does not ask whose turn a block was.
validateChain(chain) ==
    /\ chain # << >>
    /\ chain[1].previousHash = ZeroHash
    /\ \A i \in DOMAIN chain :
          /\ chain[i].index = i - 1
          /\ i > 1 => chain[i].previousHash = chain[i-1].hash
          /\ verifyBlock(chain[i])

\* The first block with this hash, as a set with at most one element.
findBlockByHash(chain, hash) ==
    {chain[i] : i \in {i \in DOMAIN chain :
                          /\ chain[i].hash = hash
                          /\ \A j \in 1..i-1 : chain[j].hash # hash}}

=============================================================================
