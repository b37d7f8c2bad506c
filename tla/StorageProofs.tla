--------------------------- MODULE StorageProofs ---------------------------
(***************************************************************************)
(* What the database of a node promises, for every number of blocks,       *)
(* deaths, lost writes and damaged records: proofs about Storage.          *)
(*                                                                         *)
(* The argument.  A hash commits to everything before it, so two chains    *)
(* that the node has had and that hold the same hash agree up to there     *)
(* (OneOrigin).  Every stored record stems from a block of such a chain,   *)
(* and a damaged one no longer verifies (Stems).  Hence what is replayed   *)
(* at a restart is, block by block, a chain that the node has had.  Where  *)
(* nothing was damaged, Intact says more: the blocks below the height of   *)
(* every content the disk may come back with are one of those chains, and  *)
(* the contents follow memory write by write (Following).                  *)
(***************************************************************************)
EXTENDS Storage, WellFoundedInduction, TLAPS

-----------------------------------------------------------------------------
(***************************************************************************)
(* Numbers and sequences                                                   *)
(***************************************************************************)

\* A set of natural numbers that is not empty has a least one: induction, for
\* provers that do not take a predicate as a parameter.
LEMMA LeastNumber ==
    ASSUME NEW T \in SUBSET Nat, T # {}
    PROVE  \E x \in T : \A y \in T : x <= y
  <1>1. PICK x \in T : \A y \in T : ~ (<<y, x>> \in OpToRel(<, Nat))
    BY NatLessThanWellFounded, WFMin, Zenon
  <1>2. \A y \in T : ~ (y < x)
    BY <1>1 DEF OpToRel
  <1> QED
    BY <1>2

Elements(s) == {s[i] : i \in DOMAIN s}

IsSeq(s) == s \in Seq(Elements(s))

\* What Append and Tail do to a sequence of values that have no type.
LEMMA AppendElements ==
    ASSUME NEW s, IsSeq(s), NEW e
    PROVE  IsSeq(Append(s, e)) /\ Elements(Append(s, e)) = Elements(s) \cup {e}
  <1> DEFINE S == Elements(s) \cup {e}
  <1>1. s \in Seq(S) /\ e \in S
    BY DEF IsSeq
  <1>2. /\ Append(s, e) \in Seq(S) /\ Len(Append(s, e)) = Len(s) + 1
        /\ Len(s) \in Nat /\ DOMAIN s = 1..Len(s)
        /\ \A i \in 1..Len(s) : Append(s, e)[i] = s[i]
        /\ Append(s, e)[Len(s) + 1] = e
    BY <1>1
  <1>3. DOMAIN Append(s, e) = 1..Len(s)+1
    BY <1>2
  <1>4. DOMAIN Append(s, e) = DOMAIN s \cup {Len(s) + 1}
    BY <1>2, <1>3
  <1>5. Elements(Append(s, e)) = Elements(s) \cup {e}
    BY <1>2, <1>4 DEF Elements
  <1> QED
    BY <1>2, <1>5 DEF IsSeq

\* The rest of a sequence holds nothing that the sequence does not.
LEMMA TailElements ==
    ASSUME NEW s, IsSeq(s), s # << >>
    PROVE  IsSeq(Tail(s)) /\ Elements(Tail(s)) \subseteq Elements(s)
  <1> DEFINE t == Tail(s)
  <1>1. /\ t \in Seq(Elements(s)) /\ Len(t) = Len(s) - 1 /\ Len(s) \in Nat
        /\ \A i \in 1..Len(t) : t[i] = s[i+1]
    BY DEF IsSeq
  <1>2. DOMAIN t = 1..Len(t) /\ Len(t) \in Nat
    BY <1>1
  <1>3. \A i \in DOMAIN t : t[i] \in Elements(s)
    BY <1>1, <1>2
  <1>4. Elements(t) \subseteq Elements(s)
    BY <1>3 DEF Elements
  <1>5. t \in Seq(Elements(t))
    <2> HIDE DEF t
    <2>1. \A i \in 1..Len(t) : t[i] \in Elements(t)
      BY <1>2 DEF Elements
    <2>2. t \in [1..Len(t) -> Elements(t)]
      BY <1>1, <1>2, <2>1
    <2> QED
      BY <1>2, <2>2
  <1> QED
    BY <1>4, <1>5 DEF IsSeq

\* Append takes nothing away: both its arguments can be read off the result.
LEMMA AppendInjective ==
    ASSUME NEW S, NEW s \in Seq(S), NEW T, NEW t \in Seq(T), NEW x, NEW y,
           Append(s, x) = Append(t, y)
    PROVE  s = t /\ x = y
  <1> DEFINE U == S \cup T \cup {x, y}
  <1>1. s \in Seq(U) /\ t \in Seq(U) /\ x \in U /\ y \in U
    OBVIOUS
  <1>2. /\ Len(Append(s, x)) = Len(s) + 1 /\ Len(Append(t, y)) = Len(t) + 1
        /\ Len(s) \in Nat /\ Len(t) \in Nat
        /\ \A i \in 1..Len(s) : Append(s, x)[i] = s[i]
        /\ \A i \in 1..Len(t) : Append(t, y)[i] = t[i]
        /\ Append(s, x)[Len(s) + 1] = x /\ Append(t, y)[Len(t) + 1] = y
    BY <1>1
  <1>3. Len(s) = Len(t)
    BY <1>2
  <1>4. x = y
    BY <1>2, <1>3
  <1>5. s = t
    BY <1>1, <1>2, <1>3
  <1> QED
    BY <1>4, <1>5

-----------------------------------------------------------------------------
(***************************************************************************)
(* Blocks                                                                  *)
(***************************************************************************)

\* A transaction that verifies is determined by its hash, and so are the
\* transactions of a block by their root hash.
LEMMA SameTransactions ==
    ASSUME NEW s \in Seq({tx \in Txs : verifyTransaction(tx)}),
           NEW t \in Seq({tx \in Txs : verifyTransaction(tx)}),
           computeTransactionRootHash(s) = computeTransactionRootHash(t)
    PROVE  s = t
  <1>1. ASSUME NEW u \in Txs, NEW v \in Txs, verifyTransaction(u),
               verifyTransaction(v), u.hash = v.hash
        PROVE  u = v
    <2>1. /\ u.sender = v.sender /\ u.recipient = v.recipient
          /\ u.amount = v.amount /\ u.nonce = v.nonce
          /\ u.timestamp = v.timestamp
          /\ u.senderPublicKey = v.senderPublicKey
          /\ u.signature = v.signature
      BY <1>1 DEF verifyTransaction, computeTransactionHash, verify, sign
    <2> QED
      BY <1>1, <2>1, RecordAssumption, TransactionShape
  <1>2. DOMAIN s = DOMAIN t /\ \A i \in DOMAIN s : s[i].hash = t[i].hash
    BY DEF computeTransactionRootHash
  <1>3. Len(s) = Len(t) /\ DOMAIN s = 1..Len(s) /\ DOMAIN t = 1..Len(t)
    BY <1>2
  <1>4. \A i \in 1..Len(s) : s[i] = t[i]
    BY <1>1, <1>2, <1>3
  <1> QED
    BY <1>3, <1>4

\* The seven fields of a block and no others, with a list as previous hash.
BlockRecord(b) ==
    /\ b = [index        |-> b.index,
            timestamp    |-> b.timestamp,
            previousHash |-> b.previousHash,
            validator    |-> b.validator,
            transactions |-> b.transactions,
            hash         |-> b.hash,
            signature    |-> b.signature]
    /\ b.previousHash \in Hash

\* Two blocks that verify and have the same hash are the same block.
LEMMA SameBlock ==
    ASSUME NEW a, NEW b, BlockRecord(a), BlockRecord(b),
           verifyBlock(a), verifyBlock(b), a.hash = b.hash
    PROVE  a = b
  <1> DEFINE hdr(c) == [index |-> c.index, timestamp |-> c.timestamp,
                        validator |-> c.validator,
                        transactions |-> computeTransactionRootHash(c.transactions)]
  <1>1. Append(a.previousHash, hdr(a)) = Append(b.previousHash, hdr(b))
    BY DEF verifyBlock, computeBlockHash
  <1>2. a.previousHash = b.previousHash /\ hdr(a) = hdr(b)
    <2> HIDE DEF hdr
    <2> QED
      BY <1>1, AppendInjective DEF BlockRecord, Hash
  <1>3. /\ a.index = b.index /\ a.timestamp = b.timestamp
        /\ a.validator = b.validator
        /\ computeTransactionRootHash(a.transactions) =
               computeTransactionRootHash(b.transactions)
    BY <1>2
  <1>4. a.transactions = b.transactions
    BY <1>3, SameTransactions DEF verifyBlock
  <1>5. a.signature = b.signature
    BY <1>3 DEF verifyBlock, verify, sign
  <1> QED
    BY <1>2, <1>3, <1>4, <1>5 DEF BlockRecord

\* Two blocks that follow others and have the same hash follow the same hash
\* at the same position.
LEMMA SamePlace ==
    ASSUME NEW a, NEW b, NEW p, NEW q, NEW i, NEW j,
           BlockRecord(a), BlockRecord(b),
           Follows(a, p, i), Follows(b, q, j), a.hash = b.hash
    PROVE  a = b /\ p.hash = q.hash /\ i = j
  BY SameBlock DEF Follows

\* A typed block has the fields of a block.
LEMMA BlockIsRecord ==
    ASSUME NEW b \in Block
    PROVE  BlockRecord(b) /\ b \notin {None, Unreadable}
  <1>1. BlockRecord(b)
    BY DEF Block, BlockRecord
  <1> QED
    BY <1>1, RecordAssumption, TransactionShape

\* What every node starts its chain with.
LEMMA GenesisFacts ==
    /\ GenesisBlock \in Block /\ verifyBlock(GenesisBlock)
    /\ GenesisBlock.index = 0 /\ GenesisBlock.previousHash = ZeroHash
  <1> DEFINE hdr == [index |-> 0, timestamp |-> 0, validator |-> GenesisValidator,
                     transactions |-> computeTransactionRootHash(<< >>)]
             h == Append(ZeroHash, hdr)
  <1>1. GenesisBlock = [index |-> 0, timestamp |-> 0, previousHash |-> ZeroHash,
                        validator |-> GenesisValidator, transactions |-> << >>,
                        hash |-> h, signature |-> sign(h, GenesisValidator)]
    BY DEF GenesisBlock, SignedBlock, computeBlockHash
  <1>2. computeTransactionRootHash(<< >>) = << >>
    BY DEF computeTransactionRootHash
  <1>3. hdr \in Header
    <2>1. << >> \in Seq({tx.hash : tx \in Txs})
      OBVIOUS
    <2> QED
      BY <1>2, <2>1, PoAAssumption DEF Header
  <1>4. ZeroHash \in Hash /\ h \in Hash
    <2> HIDE DEF hdr
    <2> QED
      BY <1>3 DEF ZeroHash, Hash
  <1>5. sign(h, GenesisValidator) \in Key \X Hash
    BY <1>4, PoAAssumption DEF sign
  <1> HIDE DEF h
  <1>6. GenesisBlock \in Block
    BY <1>1, <1>4, <1>5, PoAAssumption DEF Block
  <1>7. h = computeBlockHash(GenesisBlock)
    BY <1>1 DEF h, computeBlockHash
  <1>8. verifyBlock(GenesisBlock)
    BY <1>1, <1>7 DEF verifyBlock, verify
  <1> QED
    BY <1>1, <1>6, <1>8

\* The blocks that createBlock makes have the type of a block.
LEMMA CreatedBlock ==
    ASSUME NEW p \in Block, NEW n \in Nat, NEW now \in Nat, NEW txs \in Seq(Txs)
    PROVE  createBlock(getProducer(n), p, txs, now) \in Block
  <1> DEFINE k == getProducer(n)
             roots == computeTransactionRootHash(txs)
             hdr == [index |-> p.index + 1, timestamp |-> now, validator |-> k,
                     transactions |-> roots]
             h == Append(p.hash, hdr)
  <1>1. k \in Key
    <2>1. Len(Authorities) \in Nat \ {0}
      BY PoAAssumption
    <2>2. (n % Len(Authorities)) + 1 \in 1..Len(Authorities)
      BY <2>1
    <2> QED
      BY <2>2, PoAAssumption DEF getProducer
  <1>2. p.index + 1 \in Nat /\ p.hash \in Hash
    BY DEF Block
  <1>3. roots \in Seq({tx.hash : tx \in Txs})
    <2>1. DOMAIN txs = 1..Len(txs) /\ Len(txs) \in Nat /\ \A i \in 1..Len(txs) : txs[i] \in Txs
      OBVIOUS
    <2>2. roots \in [1..Len(txs) -> {tx.hash : tx \in Txs}]
      BY <2>1 DEF computeTransactionRootHash
    <2> QED
      BY <2>1, <2>2
  <1> HIDE DEF k, roots
  <1>4. hdr \in Header
    BY <1>1, <1>2, <1>3 DEF Header
  <1>5. h \in Hash
    <2> HIDE DEF hdr
    <2> QED
      BY <1>2, <1>4 DEF Hash
  <1>6. createBlock(k, p, txs, now) =
            [index |-> p.index + 1, timestamp |-> now, previousHash |-> p.hash,
             validator |-> k, transactions |-> txs, hash |-> h,
             signature |-> sign(h, k)]
    BY DEF createBlock, SignedBlock, computeBlockHash, roots
  <1>7. sign(h, k) \in Key \X Hash
    BY <1>1, <1>5 DEF sign
  <1>8. createBlock(k, p, txs, now) \in Block
    <2> HIDE DEF h
    <2> QED
      BY <1>1, <1>2, <1>5, <1>6, <1>7 DEF Block
  <1> QED
    BY <1>8 DEF k

-----------------------------------------------------------------------------
(***************************************************************************)
(* Histories                                                               *)
(***************************************************************************)

Prefix(c, k) == [i \in 1..k |-> c[i]]

\* A chain that addBlock let grow from the genesis block.
IsChain(c) ==
    /\ c \in Seq(Block) /\ Len(c) \in 1..MaxHeight
    /\ c[1] = GenesisBlock
    /\ \A i \in 2..Len(c) : Follows(c[i], c[i-1], i-1)

\* The same hash means the same place and the same past.
Agree(c, d) ==
    \A i \in 1..Len(c), j \in 1..Len(d) :
        c[i].hash = d[j].hash => i = j /\ \A m \in 1..i : c[m] = d[m]

OneOrigin(H) == \A c, d \in H : Agree(c, d)

\* What the set of all chains that a node has had is like.
History(H) ==
    /\ <<GenesisBlock>> \in H
    /\ \A c \in H : IsChain(c)
    /\ \A c \in H : \A k \in 1..Len(c) : Prefix(c, k) \in H
    /\ OneOrigin(H)

\* The last block of a chain, as the code finds it.
LEMMA Grown ==
    ASSUME NEW c, IsChain(c), Len(c) < MaxHeight, NEW b \in Block, CanAdd(c, b)
    PROVE  /\ IsChain(Append(c, b)) /\ Len(Append(c, b)) = Len(c) + 1
           /\ \A i \in 1..Len(c) : Append(c, b)[i] = c[i]
           /\ Append(c, b)[Len(c) + 1] = b
           /\ Follows(b, c[Len(c)], Len(c))
  <1> DEFINE e == Append(c, b)
             n == Len(c)
  <1>1. /\ e \in Seq(Block) /\ Len(e) = n + 1 /\ n \in Nat \ {0}
        /\ \A i \in 1..n : e[i] = c[i]
        /\ e[n + 1] = b
    BY DEF IsChain
  <1>2. Follows(b, c[n], n)
    BY DEF CanAdd, getLatestBlock, getHeight
  <1> HIDE DEF e
  <1>3. Len(e) \in 1..MaxHeight /\ e[1] = GenesisBlock
    BY <1>1, StorageAssumption DEF IsChain
  <1>4. ASSUME NEW i \in 2..n+1
        PROVE  Follows(e[i], e[i-1], i-1)
    <2>1. CASE i = n + 1
      BY <1>1, <1>2, <2>1
    <2>2. CASE i \in 2..n
      <3>1. i - 1 \in 1..n /\ i \in 1..n
        BY <2>2, <1>1
      <3> QED
        BY <1>1, <2>2, <3>1 DEF IsChain
    <2> QED
      BY <1>1, <2>1, <2>2
  <1> QED
    BY <1>1, <1>2, <1>3, <1>4 DEF IsChain, e

\* A hash of a chain is that of the genesis block only in first place.
LEMMA GenesisFirst ==
    ASSUME NEW c, IsChain(c), NEW i \in 1..Len(c), c[i].hash = GenesisBlock.hash
    PROVE  i = 1
  <1> SUFFICES ASSUME i \in 2..Len(c)
               PROVE  FALSE
    BY DEF IsChain
  <1>1. Follows(c[i], c[i-1], i-1) /\ c[i] \in Block
    BY DEF IsChain
  <1>2. c[i] = GenesisBlock
    BY <1>1, GenesisFacts, BlockIsRecord, SameBlock DEF Follows
  <1> QED
    BY <1>1, <1>2, GenesisFacts DEF Follows, IsChain

\* addBlock keeps a history one.
LEMMA HistoryGrows ==
    ASSUME NEW H, History(H), NEW c \in H, Len(c) < MaxHeight,
           NEW b \in Block, CanAdd(c, b)
    PROVE  History(H \cup {Append(c, b)})
  <1> DEFINE e == Append(c, b)
             n == Len(c)
  <1>1. /\ IsChain(e) /\ Len(e) = n + 1 /\ IsChain(c) /\ n \in Nat \ {0}
        /\ \A i \in 1..n : e[i] = c[i]
        /\ e[n + 1] = b /\ Follows(b, c[n], n)
    <2>1. IsChain(c)
      BY DEF History
    <2>2. n \in Nat \ {0}
      BY <2>1 DEF IsChain
    <2> QED
      BY <2>1, <2>2, Grown
  <1> HIDE DEF e
  <1>2. ASSUME NEW d \in H
        PROVE  Agree(e, d) /\ Agree(d, e)
    <2>1. IsChain(d) /\ Agree(c, d)
      BY DEF History, OneOrigin
    <2>2. ASSUME NEW i \in 1..n+1, NEW j \in 1..Len(d), e[i].hash = d[j].hash
          PROVE  i = j /\ \A m \in 1..i : e[m] = d[m]
      <3>1. CASE i \in 1..n
        <4>1. c[i].hash = d[j].hash
          BY <1>1, <2>2, <3>1
        <4>2. i = j /\ \A m \in 1..i : c[m] = d[m]
          BY <2>1, <3>1, <4>1 DEF Agree
        <4> QED
          BY <1>1, <3>1, <4>2
      <3>2. CASE i = n + 1
        <4>1. b.hash = d[j].hash
          BY <1>1, <2>2, <3>2
        <4>2. j # 1
          <5> SUFFICES ASSUME j = 1
                       PROVE  FALSE
            OBVIOUS
          <5>1. e[i].hash = GenesisBlock.hash /\ i \in 1..Len(e)
            BY <1>1, <2>1, <2>2 DEF IsChain
          <5> QED
            BY <1>1, <3>2, <5>1, GenesisFirst
        <4>3. j \in 2..Len(d) /\ j - 1 \in 1..Len(d) /\ n \in 1..n
          BY <1>1, <2>1, <4>2 DEF IsChain
        <4>4. Follows(d[j], d[j-1], j-1) /\ d[j] \in Block
          BY <2>1, <4>3 DEF IsChain
        <4>5. b = d[j] /\ c[n].hash = d[j-1].hash /\ n = j - 1
          BY <1>1, <4>1, <4>4, BlockIsRecord, SamePlace
        <4>6. \A m \in 1..n : c[m] = d[m]
          BY <2>1, <4>3, <4>5 DEF Agree
        <4> QED
          BY <1>1, <3>2, <4>5, <4>6
      <3> QED
        BY <1>1, <3>1, <3>2
    <2>3. Agree(e, d)
      BY <1>1, <2>2 DEF Agree
    <2> QED
      BY <2>3 DEF Agree
  <1>3. Agree(e, e)
    <2> SUFFICES ASSUME NEW i \in 1..n+1, NEW j \in 1..n+1, e[i].hash = e[j].hash
                 PROVE  i = j
      BY <1>1 DEF Agree
    <2>1. CASE j \in 1..n
      BY <1>1, <1>2, <2>1 DEF Agree
    <2>2. CASE i \in 1..n
      BY <1>1, <1>2, <2>2 DEF Agree
    <2> QED
      BY <1>1, <2>1, <2>2
  <1>4. ASSUME NEW k \in 1..n+1
        PROVE  Prefix(e, k) \in H \cup {e}
    <2>1. CASE k \in 1..n
      <3>1. Prefix(e, k) = Prefix(c, k)
        BY <1>1, <2>1 DEF Prefix
      <3> QED
        BY <2>1, <3>1 DEF History
    <2>2. CASE k = n + 1
      <3>1. e \in Seq(Block)
        BY <1>1 DEF IsChain
      <3>2. Prefix(e, k) = e
        BY <1>1, <2>2, <3>1 DEF Prefix
      <3> QED
        BY <3>2
    <2> QED
      BY <1>1, <2>1, <2>2
  <1>5. OneOrigin(H \cup {e})
    BY <1>2, <1>3 DEF OneOrigin, History
  <1>6. \A d \in H \cup {e} : \A k \in 1..Len(d) : Prefix(d, k) \in H \cup {e}
    BY <1>1, <1>4 DEF History
  <1>7. History(H \cup {e})
    BY <1>1, <1>5, <1>6 DEF History
  <1> QED
    BY <1>7 DEF e

\* The history of a node that has just been set up.
LEMMA FirstHistory == History({<<GenesisBlock>>})
  <1> DEFINE g == <<GenesisBlock>>
  <1>1. g \in Seq(Block) /\ Len(g) = 1 /\ g[1] = GenesisBlock
    BY GenesisFacts
  <1>2. Prefix(g, 1) = g
    BY <1>1 DEF Prefix
  <1> HIDE DEF g
  <1>3. IsChain(g)
    BY <1>1, StorageAssumption DEF IsChain
  <1>4. Agree(g, g)
    BY <1>1 DEF Agree
  <1>5. \A k \in 1..Len(g) : Prefix(g, k) \in {g}
    BY <1>1, <1>2
  <1>6. History({g})
    BY <1>3, <1>4, <1>5 DEF History, OneOrigin, g
  <1> QED
    BY <1>6 DEF g

-----------------------------------------------------------------------------
(***************************************************************************)
(* The inductive invariants                                                *)
(***************************************************************************)

\* What any number of damages may have made of a block, in so far as
\* verifyBlock tells it apart.
Stems(r, b) == BlockRecord(r) /\ r.hash \in {b.hash, ZeroHash}

\* Every record stems from the block at its index in a chain of H.
Kept(kv, H) ==
    \A i \in 1..MaxHeight-1 :
        \/ loadBlock(kv, i) \in {None, Unreadable}
        \/ \E c \in H : i < Len(c) /\ Stems(loadBlock(kv, i), c[i+1])

HistoryInv ==
    /\ History(had)
    /\ Up => chain \in had
    /\ saving \in {"done", "block", "height", "accounts"}
    /\ saving # "done" => Up /\ Len(chain) >= 2
    /\ damages \in Nat
    /\ IsSeq(log)
    /\ \A kv \in Survivors : Kept(kv, had)

\* The height of the chain that the recorded one stands for: none is recorded
\* for the genesis block.
RecordedHeight(kv) == IF loadChainHeight(kv) = 0 THEN 1 ELSE loadChainHeight(kv)

\* The blocks below the height are a chain of H, there is at most one more,
\* the index under a block's hash is its own, and an account is the one after
\* one of the blocks.
Backed(kv, H) ==
    /\ loadChainHeight(kv) \in 0..MaxHeight
    /\ \E c \in H : Len(c) = RecordedHeight(kv) /\ StoredChain(kv, Len(c)) = c

BlockEntries(kv, H) ==
    \A i \in 1..MaxHeight-1 : loadBlock(kv, i) # None =>
        /\ i <= RecordedHeight(kv)
        /\ \E c \in H : i < Len(c) /\ loadBlock(kv, i) = c[i+1]
        /\ HashKey(loadBlock(kv, i).hash) \in DOMAIN kv
        /\ kv[HashKey(loadBlock(kv, i).hash)] = i

AccountEntries(kv) ==
    \A key \in DOMAIN kv :
        /\ key = <<key[1], key[2]>>
        /\ key[1] = "a:" => \E k \in 1..loadChainHeight(kv) :
              LET accounts == ReplayChain(StoredChain(kv, k))
              IN  key[2] \in DOMAIN accounts /\ kv[key] = accounts[key[2]]

Intact(kv, H) == Backed(kv, H) /\ BlockEntries(kv, H) /\ AccountEntries(kv)

\* How far the disk is behind memory.
Following ==
    /\ saving \in {"done", "accounts"} =>
          RecordedHeight(db) = Len(chain) /\ StoredChain(db, Len(chain)) = chain
    /\ saving \in {"block", "height"} => RecordedHeight(db) = Len(chain) - 1
    /\ saving = "block" =>
          StoredChain(db, Len(chain) - 1) = Prefix(chain, Len(chain) - 1)
    /\ saving = "height" => StoredChain(db, Len(chain)) = chain

IntactInv ==
    damages = 0 => /\ \A kv \in Survivors : Intact(kv, had)
                   /\ Up => Following

-----------------------------------------------------------------------------
(***************************************************************************)
(* Reads after writes                                                      *)
(***************************************************************************)

\* A read finds what was written last under its key.
LEMMA GetPut ==
    ASSUME NEW kv, NEW x, NEW v, NEW y, NEW default
    PROVE  Get(Put(kv, x, v), y, default) = IF x = y THEN v ELSE Get(kv, y, default)
  BY DEF Get, Put

\* The prefixes keep the four kinds of keys apart.
LEMMA KeysApart ==
    ASSUME NEW i, NEW j, NEW h, NEW a
    PROVE  /\ BlockKey(i) # HashKey(h) /\ BlockKey(i) # AccountKey(a)
           /\ BlockKey(i) # HeightKey /\ HashKey(h) # AccountKey(a)
           /\ HashKey(h) # HeightKey /\ AccountKey(a) # HeightKey
           /\ BlockKey(i) = BlockKey(j) => i = j
           /\ HashKey(h) = HashKey(a) => h = a
           /\ AccountKey(a) = AccountKey(h) => a = h
  BY DEF BlockKey, HashKey, AccountKey, HeightKey

\* Writing a block at an index changes what is read there, and no height.
LEMMA BlockPut ==
    ASSUME NEW kv, NEW i, NEW b
    PROVE  /\ \A j : loadBlock(Put(kv, BlockKey(i), b), j) =
                        IF i = j THEN b ELSE loadBlock(kv, j)
           /\ loadChainHeight(Put(kv, BlockKey(i), b)) = loadChainHeight(kv)
  BY GetPut, KeysApart DEF loadBlock, loadChainHeight

\* Writing a hash entry changes no block and no height.
LEMMA HashPut ==
    ASSUME NEW kv, NEW h, NEW v
    PROVE  /\ \A j : loadBlock(Put(kv, HashKey(h), v), j) = loadBlock(kv, j)
           /\ loadChainHeight(Put(kv, HashKey(h), v)) = loadChainHeight(kv)
  BY GetPut, KeysApart DEF loadBlock, loadChainHeight

\* Writing the height changes no block.
LEMMA HeightPut ==
    ASSUME NEW kv, NEW v
    PROVE  /\ \A j : loadBlock(Put(kv, HeightKey, v), j) = loadBlock(kv, j)
           /\ loadChainHeight(Put(kv, HeightKey, v)) = v
  BY GetPut, KeysApart DEF loadBlock, loadChainHeight

\* Writing an account changes no block and no height.
LEMMA AccountPut ==
    ASSUME NEW kv, NEW a, NEW v
    PROVE  /\ \A j : loadBlock(Put(kv, AccountKey(a), v), j) = loadBlock(kv, j)
           /\ loadChainHeight(Put(kv, AccountKey(a), v)) = loadChainHeight(kv)
  BY GetPut, KeysApart DEF loadBlock, loadChainHeight

-----------------------------------------------------------------------------
(***************************************************************************)
(* A restart never makes up history                                        *)
(***************************************************************************)

\* Of all that damage may make of a block, only the block itself verifies.
LEMMA OnlyGenuineVerifies ==
    ASSUME NEW b \in Block, verifyBlock(b), NEW r, Stems(r, b), verifyBlock(r)
    PROVE  r = b
  <1>1. BlockRecord(r) /\ BlockRecord(b)
    BY BlockIsRecord DEF Stems
  <1>2. r.hash # ZeroHash
    <2> DEFINE hdr == [index |-> r.index, timestamp |-> r.timestamp,
                       validator |-> r.validator,
                       transactions |-> computeTransactionRootHash(r.transactions)]
    <2>1. r.hash = Append(r.previousHash, hdr) /\ r.previousHash \in Seq(Header)
      BY <1>1 DEF verifyBlock, computeBlockHash, BlockRecord, Hash
    <2> HIDE DEF hdr
    <2>2. Append(r.previousHash, hdr) # << >>
      BY <2>1
    <2> QED
      BY <2>1, <2>2 DEF ZeroHash
  <1> QED
    BY <1>1, <1>2, SameBlock DEF Stems

\* A record that is damaged again still stems from the same block.
LEMMA DamagedStems ==
    ASSUME NEW r, NEW b, Stems(r, b), NEW q \in Damaged(r), q # Unreadable
    PROVE  Stems(q, b)
  <1>1. /\ r = [index |-> r.index, timestamp |-> r.timestamp,
                previousHash |-> r.previousHash, validator |-> r.validator,
                transactions |-> r.transactions, hash |-> r.hash,
                signature |-> r.signature]
        /\ r.previousHash \in Hash /\ r.hash \in {b.hash, ZeroHash}
    BY DEF Stems, BlockRecord
  <1>2. ZeroHash \in Hash
    BY DEF ZeroHash, Hash
  <1>3. /\ BlockRecord(q) /\ q.hash \in {r.hash, ZeroHash}
    <2>1. CASE q = [r EXCEPT !.index = @ + 1]
      BY <1>1, <2>1 DEF BlockRecord
    <2>2. CASE q = [r EXCEPT !.timestamp = @ + 1]
      BY <1>1, <2>2 DEF BlockRecord
    <2>3. CASE q = [r EXCEPT !.previousHash = ZeroHash]
      BY <1>1, <1>2, <2>3 DEF BlockRecord
    <2>4. CASE q = [r EXCEPT !.hash = ZeroHash]
      BY <1>1, <2>4 DEF BlockRecord
    <2>5. CASE q = [r EXCEPT !.transactions = << >>]
      BY <1>1, <2>5 DEF BlockRecord
    <2>6. CASE q = [r EXCEPT !.signature = sign(ZeroHash, r.validator)]
      BY <1>1, <2>6 DEF BlockRecord
    <2>7. CASE \E i \in DOMAIN r.transactions :
                   q = [r EXCEPT !.transactions[i].amount = @ + 1]
      <3>1. PICK i \in DOMAIN r.transactions :
                q = [r EXCEPT !.transactions[i].amount = @ + 1]
        BY <2>7
      <3> QED
        BY <1>1, <3>1 DEF BlockRecord
    <2> QED
      BY <2>1, <2>2, <2>3, <2>4, <2>5, <2>6, <2>7 DEF Damaged
  <1> QED
    BY <1>1, <1>3 DEF Stems

\* What recoverFromStorage makes of such a store is a chain of the history:
\* otherwise there would be a shortest stored chain that is not.
LEMMA RecoversHad ==
    ASSUME NEW H, History(H), NEW kv, Kept(kv, H),
           NEW k \in 1..MaxHeight, RecoversTo(kv, k)
    PROVE  StoredChain(kv, k) \in H
  <1> DEFINE T == {j \in 1..k : StoredChain(kv, j) \notin H}
  <1> SUFFICES ASSUME T # {}
               PROVE  FALSE
    BY StorageAssumption
  <1>1. T \in SUBSET Nat
    BY StorageAssumption
  <1>2. PICK j \in T : \A m \in T : j <= m
    <2> HIDE DEF T
    <2> QED
      BY <1>1, LeastNumber
  <1>3. j \in 1..k /\ StoredChain(kv, j) \notin H
    BY <1>2
  <1>4. j # 1
    <2>1. StoredChain(kv, 1) = <<GenesisBlock>>
      BY DEF StoredChain
    <2> QED
      BY <1>3, <2>1 DEF History
  <1> DEFINE n == j - 1
             s == StoredChain(kv, n)
             r == loadBlock(kv, n)
  <1>5. /\ n \in 1..k-1 /\ n \in 1..MaxHeight-1 /\ n \in Nat \ {0} /\ j = n + 1
        /\ n + 1 \in 1..k
    BY <1>3, <1>4, StorageAssumption
  <1> HIDE DEF n
  <1>6. s \in H
    <2>1. n \notin T
      BY <1>2, <1>5
    <2> QED
      BY <1>5, <2>1, StorageAssumption
  <1>7. IsChain(s) /\ Len(s) = n
    BY <1>5, <1>6 DEF History, StoredChain
  <1>8. r \notin {None, Unreadable} /\ Follows(r, s[n], n)
    BY <1>5, <1>7 DEF RecoversTo, Replays, CanAdd, getLatestBlock, getHeight
  <1>9. PICK c \in H : n < Len(c) /\ Stems(r, c[n+1])
    BY <1>5, <1>8 DEF Kept
  <1>10. IsChain(c) /\ Agree(c, s)
    BY <1>6 DEF History, OneOrigin
  <1>11. /\ n \in 1..Len(c) /\ n + 1 \in 1..Len(c) /\ n \in 1..Len(s)
         /\ c[n+1] \in Block /\ Follows(c[n+1], c[n], n)
    <2>1. Len(c) \in Nat /\ c \in Seq(Block)
      BY <1>10 DEF IsChain
    <2>2. n + 1 \in 2..Len(c) /\ (n + 1) - 1 = n
      BY <1>5, <1>9, <2>1
    <2>3. Follows(c[n+1], c[(n+1)-1], (n+1)-1)
      BY <1>10, <2>2 DEF IsChain
    <2> QED
      BY <1>5, <1>7, <2>1, <2>2, <2>3
  <1>12. r = c[n+1]
    BY <1>8, <1>9, <1>11, OnlyGenuineVerifies DEF Follows
  <1>13. c[n].hash = s[n].hash
    BY <1>8, <1>11, <1>12 DEF Follows
  <1>14. \A m \in 1..n : c[m] = s[m]
    BY <1>10, <1>11, <1>13 DEF Agree
  <1>15. StoredChain(kv, j) = Prefix(c, n + 1)
    <2>1. \A m \in 1..n : StoredChain(kv, j)[m] = s[m]
      BY <1>5 DEF StoredChain
    <2>2. StoredChain(kv, j)[n + 1] = r
      BY <1>5 DEF StoredChain
    <2>3. \A m \in 1..n+1 : StoredChain(kv, j)[m] = c[m]
      BY <1>5, <1>12, <1>14, <2>1, <2>2
    <2>4. StoredChain(kv, j) = [m \in 1..n+1 |-> StoredChain(kv, j)[m]]
      BY <1>5 DEF StoredChain
    <2> QED
      BY <2>3, <2>4 DEF Prefix
  <1>16. Prefix(c, n + 1) \in H
    BY <1>11 DEF History
  <1> QED
    BY <1>3, <1>15, <1>16

\* A store that is kept stays so when the history grows.
LEMMA KeptGrows ==
    ASSUME NEW kv, NEW H, NEW G, H \subseteq G, Kept(kv, H)
    PROVE  Kept(kv, G)
  BY DEF Kept

\* The block that is about to be written, and where.
LEMMA TipFacts ==
    ASSUME HistoryInv, saving # "done"
    PROVE  /\ chain \in had /\ IsChain(chain) /\ Len(chain) \in 2..MaxHeight
           /\ Tip = chain[Len(chain)] /\ Tip.index = Len(chain) - 1
           /\ Tip \in Block /\ verifyBlock(Tip)
           /\ Len(chain) - 1 \in 1..MaxHeight-1
  <1>1. chain \in had /\ IsChain(chain)
    BY DEF HistoryInv, History
  <1>2. Len(chain) \in 2..MaxHeight /\ chain \in Seq(Block)
    BY <1>1, StorageAssumption DEF HistoryInv, IsChain
  <1>3. Follows(chain[Len(chain)], chain[Len(chain)-1], Len(chain)-1)
    BY <1>1, <1>2 DEF IsChain
  <1> QED
    BY <1>1, <1>2, <1>3, StorageAssumption DEF Tip, getLatestBlock, Follows

\* The store after saveBlock, as its reads see it.
LEMMA SavedBlock ==
    ASSUME HistoryInv, SaveBlock
    PROVE  /\ db' = WithHash(WithBlock(db))
           /\ \A j : loadBlock(db', j) =
                        IF j = Len(chain) - 1 THEN Tip ELSE loadBlock(db, j)
           /\ loadChainHeight(db') = loadChainHeight(db)
  <1>1. db' = WithHash(WithBlock(db)) /\ Tip.index = Len(chain) - 1
    BY TipFacts DEF SaveBlock, Write
  <1>2. db' = Put(Put(db, BlockKey(Tip.index), Tip), HashKey(Tip.hash), Tip.index)
    BY <1>1 DEF WithHash, WithBlock
  <1> QED
    BY <1>1, <1>2, BlockPut, HashPut

\* A write adds one content to those that the disk may come back with.
LEMMA WriteSurvivors ==
    ASSUME IsSeq(log), NEW kv, Write(kv)
    PROVE  IsSeq(log') /\ Survivors' = Survivors \cup {kv}
  <1>1. log' = Append(log, db) /\ db' = kv
    BY DEF Write
  <1>2. IsSeq(log') /\ Elements(log') = Elements(log) \cup {db}
    BY <1>1, AppendElements
  <1>3. Survivors = Elements(log) \cup {db} /\ Survivors' = Elements(log') \cup {db'}
    BY DEF Survivors, Elements
  <1> QED
    BY <1>1, <1>2, <1>3

\* The empty sequence has no elements.
LEMMA NoElements ==
    ASSUME NEW s \in Seq({})
    PROVE  IsSeq(s) /\ Elements(s) = {}
  <1>1. Elements(s) = {}
    BY DEF Elements
  <1> QED
    BY <1>1 DEF IsSeq

\* The invariant holds of a node that has just been set up ...
LEMMA HistoryInit == Init => HistoryInv
  <1> SUFFICES ASSUME Init
               PROVE  HistoryInv
    OBVIOUS
  <1>1. Survivors = {db}
    BY NoElements DEF Survivors, Elements, Init
  <1>2. \A i \in 1..MaxHeight-1 : loadBlock(db, i) = None
    BY DEF Init, loadBlock, Get
  <1>3. \A kv \in Survivors : Kept(kv, had)
    BY <1>1, <1>2 DEF Kept
  <1>4. ~ Up /\ saving = "done" /\ damages \in Nat
    BY DEF Init, Up
  <1>5. IsSeq(log)
    <2>1. log \in Seq({})
      BY DEF Init
    <2> QED
      BY <2>1, NoElements
  <1>6. History(had)
    BY FirstHistory, Zenon DEF Init
  <1> QED
    BY <1>3, <1>4, <1>5, <1>6 DEF HistoryInv

\* ... and every step keeps it.
LEMMA HistoryStep ==
    ASSUME HistoryInv, [Next]_vars
    PROVE  HistoryInv'
  <1>0. History(had) /\ IsSeq(log) /\ damages \in Nat /\ \A kv \in Survivors : Kept(kv, had)
    BY DEF HistoryInv
  <1>1. CASE Start
    <2>1. PICK k \in 1..MaxHeight : RecoversTo(db, k) /\ chain' = StoredChain(db, k)
      BY <1>1 DEF Start
    <2>2. db \in Survivors
      BY DEF Survivors
    <2>3. chain' \in had
      BY <1>0, <2>1, <2>2, RecoversHad
    <2>4. UNCHANGED <<db, log, saving, had, damages>> /\ saving = "done"
      BY <1>1 DEF Start, HistoryInv
    <2>5. Survivors' = Survivors
      BY <2>4 DEF Survivors
    <2> QED
      BY <1>0, <2>3, <2>4, <2>5 DEF HistoryInv
  <1>2. ASSUME NEW now \in Stamps, NEW txs \in {<<tx>> : tx \in Txs} \cup {<< >>},
               AddBlock(now, txs)
        PROVE  HistoryInv'
    <2> DEFINE b == createBlock(getProducer(Len(chain)), getLatestBlock(chain), txs, now)
    <2>1. /\ Len(chain) < MaxHeight /\ CanAdd(chain, b) /\ chain' = Append(chain, b)
          /\ had' = had \cup {chain'} /\ saving' = "block" /\ Up
          /\ UNCHANGED <<db, log, damages>>
      BY <1>2 DEF AddBlock
    <2>2. chain \in had /\ IsChain(chain) /\ txs \in Seq(Txs) /\ now \in Nat
      <3>1. chain \in had /\ IsChain(chain)
        BY <2>1 DEF HistoryInv, History
      <3>2. txs \in Seq(Txs)
        <4>1. ASSUME NEW tx \in Txs
              PROVE  <<tx>> \in Seq(Txs)
          OBVIOUS
        <4>2. << >> \in Seq(Txs)
          OBVIOUS
        <4> QED
          BY <4>1, <4>2
      <3> QED
        BY <3>1, <3>2, StorageAssumption
    <2>3. getLatestBlock(chain) \in Block /\ Len(chain) \in Nat \ {0}
      BY <2>2 DEF getLatestBlock, IsChain
    <2>4. b \in Block
      BY <2>2, <2>3, CreatedBlock
    <2> HIDE DEF b
    <2>5. History(had') /\ Len(chain') = Len(chain) + 1 /\ IsChain(chain')
      BY <1>0, <2>1, <2>2, <2>4, HistoryGrows, Grown
    <2>6. Survivors' = Survivors
      BY <2>1 DEF Survivors
    <2>7. had \subseteq had'
      BY <2>1
    <2>8. \A kv \in Survivors' : Kept(kv, had')
      BY <1>0, <2>6, <2>7, KeptGrows
    <2>9. Up' /\ Len(chain') >= 2
      BY <2>3, <2>5 DEF Up
    <2> QED
      BY <1>0, <2>1, <2>5, <2>8, <2>9 DEF HistoryInv
  <1>3. ASSUME NEW kv, Write(kv), UNCHANGED <<chain, had, damages>>,
               saving' \in {"height", "accounts"}, saving # "done", Kept(kv, had)
        PROVE  HistoryInv'
    <2>1. IsSeq(log') /\ Survivors' = Survivors \cup {kv}
      BY <1>0, <1>3, WriteSurvivors
    <2>2. \A q \in Survivors' : Kept(q, had')
      BY <1>0, <1>3, <2>1
    <2> QED
      BY <1>0, <1>3, <2>1, <2>2 DEF HistoryInv, Up
  <1>4. Kept(db, had)
    BY <1>0 DEF Survivors
  <1>5. CASE SaveBlock
    <2>1. /\ \A j : loadBlock(db', j) = IF j = Len(chain) - 1 THEN Tip ELSE loadBlock(db, j)
          /\ saving = "block"
      BY <1>5, SavedBlock DEF SaveBlock
    <2>2. /\ chain \in had /\ Tip = chain[Len(chain)] /\ Tip \in Block
          /\ Len(chain) \in 2..MaxHeight
      BY <2>1, TipFacts
    <2>3. Stems(Tip, Tip)
      BY <2>2, BlockIsRecord DEF Stems
    <2>4. Kept(db', had)
      <3> SUFFICES ASSUME NEW i \in 1..MaxHeight-1
                   PROVE  \/ loadBlock(db', i) \in {None, Unreadable}
                          \/ \E c \in had : i < Len(c) /\ Stems(loadBlock(db', i), c[i+1])
        BY DEF Kept
      <3>1. CASE i = Len(chain) - 1
        <4>1. i < Len(chain) /\ i + 1 = Len(chain)
          BY <2>2, <3>1
        <4> QED
          BY <2>1, <2>2, <2>3, <3>1, <4>1
      <3>2. CASE i # Len(chain) - 1
        BY <1>4, <2>1, <3>2 DEF Kept
      <3> QED
        BY <3>1, <3>2
    <2> QED
      BY <1>3, <1>5, <2>4 DEF SaveBlock, Write
  <1>6. CASE SaveHeight
    <2>1. Kept(Put(db, HeightKey, Len(chain)), had)
      BY <1>4, HeightPut DEF Kept
    <2> QED
      BY <1>3, <1>6, <2>1 DEF SaveHeight
  <1>7. ASSUME NEW a \in Address, SaveAccountState(a)
        PROVE  HistoryInv'
    <2>1. Kept(Put(db, AccountKey(a), ReplayChain(chain)[a]), had)
      BY <1>4, AccountPut DEF Kept
    <2> QED
      BY <1>3, <1>7, <2>1 DEF SaveAccountState
  <1>8. CASE EndSave
    <2>1. UNCHANGED <<db, log, chain, had, damages>> /\ saving' = "done"
      BY <1>8 DEF EndSave
    <2>2. Survivors' = Survivors
      BY <2>1 DEF Survivors
    <2> QED
      BY <2>1, <2>2 DEF HistoryInv, Up
  <1>9. CASE Sync
    <2>1. UNCHANGED <<db, chain, saving, had, damages>> /\ log' = Tail(log) /\ log # << >>
      BY <1>9 DEF Sync
    <2>2. IsSeq(log') /\ Elements(log') \subseteq Elements(log)
      BY <1>0, <2>1, TailElements
    <2>3. Survivors' \subseteq Survivors
      BY <2>1, <2>2 DEF Survivors, Elements
    <2> QED
      BY <1>0, <2>1, <2>2, <2>3 DEF HistoryInv, Up
  <1>10. CASE Kill
    <2>1. /\ chain' = << >> /\ saving' = "done"
          /\ UNCHANGED <<db, log, had, damages>>
      BY <1>10 DEF Kill, Dies
    <2>2. Survivors' = Survivors
      BY <2>1 DEF Survivors
    <2> QED
      BY <1>0, <2>1, <2>2 DEF HistoryInv, Up
  <1>11. CASE LosePower
    <2>1. /\ chain' = << >> /\ saving' = "done" /\ db' \in Survivors /\ log' = << >>
          /\ UNCHANGED <<had, damages>>
      BY <1>11 DEF LosePower, Dies
    <2>2. Survivors' = {db'} /\ IsSeq(log')
      <3>1. log' \in Seq({})
        BY <2>1
      <3>2. IsSeq(log') /\ Elements(log') = {}
        BY <3>1, NoElements
      <3> QED
        BY <3>2 DEF Survivors, Elements
    <2> QED
      BY <1>0, <2>1, <2>2 DEF HistoryInv, Up
  <1>12. ASSUME NEW i \in 1..MaxHeight-1, Damage(i)
         PROVE  HistoryInv'
    <2>1. PICK r \in Damaged(loadBlock(db, i)) : db' = Put(db, BlockKey(i), r)
      BY <1>12 DEF Damage
    <2>2. /\ loadBlock(db, i) \notin {None, Unreadable} /\ log = << >>
          /\ UNCHANGED <<log, chain, saving, had>> /\ damages' = damages + 1
      BY <1>12 DEF Damage
    <2>3. PICK c \in had : i < Len(c) /\ Stems(loadBlock(db, i), c[i+1])
      BY <1>4, <2>2 DEF Kept
    <2>4. r = Unreadable \/ Stems(r, c[i+1])
      BY <2>1, <2>3, DamagedStems
    <2>5. Kept(db', had)
      BY <1>4, <2>1, <2>3, <2>4, BlockPut DEF Kept
    <2>6. Survivors' = {db'}
      BY <2>2, NoElements DEF Survivors, Elements
    <2> QED
      BY <1>0, <2>2, <2>5, <2>6 DEF HistoryInv, Up
  <1>13. CASE UNCHANGED vars
    <2>1. UNCHANGED <<db, log, chain, saving, had, damages>>
      BY <1>13 DEF vars
    <2>2. Survivors' = Survivors
      BY <2>1 DEF Survivors
    <2> QED
      BY <2>1, <2>2 DEF HistoryInv, Up
  <1> QED
    BY <1>1, <1>2, <1>5, <1>6, <1>7, <1>8, <1>9, <1>10, <1>11, <1>12, <1>13 DEF Next

\* A restart never makes up history: the chain that recoverFromStorage builds
\* is one that the node has had before, however many records were damaged and
\* whatever a power loss took.
THEOREM RestartKeepsHistory == Spec => []RecoversHistory
  <1>1. HistoryInv => RecoversHistory
    BY DEF HistoryInv, RecoversHistory
  <1> QED
    BY HistoryInit, HistoryStep, <1>1, PTL DEF Spec

\* isChainValid never finds fault with the chain in memory, be it grown by
\* addBlock or replayed from a store with damaged records.
THEOREM ChainAlwaysValidates == Spec => []ChainValidates
  <1>1. HistoryInv => ChainValidates
    <2> SUFFICES ASSUME HistoryInv, Up
                 PROVE  validateChain(chain)
      BY DEF ChainValidates
    <2>1. IsChain(chain)
      BY DEF HistoryInv, History
    <2>2. chain \in Seq(Block) /\ Len(chain) \in Nat \ {0} /\ chain[1] = GenesisBlock
      BY <2>1 DEF IsChain
    <2>3. ASSUME NEW i \in 1..Len(chain)
          PROVE  /\ chain[i].index = i - 1
                 /\ i > 1 => chain[i].previousHash = chain[i-1].hash
                 /\ verifyBlock(chain[i])
      <3>1. CASE i = 1
        BY <2>2, <3>1, GenesisFacts
      <3>2. CASE i \in 2..Len(chain)
        BY <2>1, <3>2 DEF IsChain, Follows
      <3> QED
        BY <2>2, <3>1, <3>2
    <2> QED
      BY <2>2, <2>3, GenesisFacts DEF validateChain, Up
  <1> QED
    BY HistoryInit, HistoryStep, <1>1, PTL DEF Spec

-----------------------------------------------------------------------------
(***************************************************************************)
(* Stores without damage                                                   *)
(***************************************************************************)

\* Only the blocks before height n matter to the stored chain of that height.
LEMMA StoredSame ==
    ASSUME NEW kv, NEW q, NEW n \in Nat,
           \A i \in 1..n-1 : loadBlock(q, i) = loadBlock(kv, i)
    PROVE  StoredChain(q, n) = StoredChain(kv, n)
  <1>1. \A i \in 1..n : i # 1 => i - 1 \in 1..n-1
    OBVIOUS
  <1> QED
    BY <1>1 DEF StoredChain

\* A store stays intact when the history grows.
LEMMA IntactGrows ==
    ASSUME NEW kv, NEW H, NEW G, H \subseteq G, Intact(kv, H)
    PROVE  Intact(kv, G)
  BY DEF Intact, Backed, BlockEntries

\* recoverFromStorage replays every block below the height of an intact store,
\* and stops there.
LEMMA IntactReplays ==
    ASSUME NEW H, History(H), NEW kv, Backed(kv, H)
    PROVE  /\ RecoversTo(kv, RecordedHeight(kv))
           /\ RecordedHeight(kv) \in 1..MaxHeight
           /\ \A k \in 1..MaxHeight : RecoversTo(kv, k) => k = RecordedHeight(kv)
  <1> DEFINE h == RecordedHeight(kv)
  <1>1. PICK c \in H : Len(c) = h /\ StoredChain(kv, h) = c
    BY DEF Backed
  <1>2. IsChain(c) /\ h \in 1..MaxHeight /\ loadChainHeight(kv) \in Nat
    <2>1. IsChain(c)
      BY DEF History
    <2>2. loadChainHeight(kv) \in Nat
      BY StorageAssumption DEF Backed
    <2> HIDE DEF h
    <2> QED
      BY <1>1, <2>1, <2>2 DEF IsChain
  <1>3. ASSUME NEW i \in 1..h-1
        PROVE  i < loadChainHeight(kv) /\ Replays(kv, StoredChain(kv, i), i)
    <2>1. i < loadChainHeight(kv) /\ i \in Nat \ {0} /\ h \in Nat
      BY <1>2, StorageAssumption DEF RecordedHeight
    <2> HIDE DEF h
    <2>2. i \in 1..h /\ i + 1 \in 2..h /\ (i + 1) - 1 = i
      BY <2>1
    <2>3. /\ c[i+1] = loadBlock(kv, i)
          /\ c[i] = IF i = 1 THEN GenesisBlock ELSE loadBlock(kv, i-1)
      BY <1>1, <2>2 DEF StoredChain
    <2>4. Len(StoredChain(kv, i)) = i /\ StoredChain(kv, i)[i] = c[i]
      BY <2>1, <2>3 DEF StoredChain
    <2>5. Follows(c[i+1], c[i], i) /\ c[i+1] \in Block
      <3>1. Follows(c[i+1], c[(i+1)-1], (i+1)-1)
        BY <1>1, <1>2, <2>2 DEF IsChain
      <3> QED
        BY <1>1, <1>2, <2>2, <3>1 DEF IsChain
    <2> QED
      BY <2>1, <2>3, <2>4, <2>5, BlockIsRecord
         DEF Replays, CanAdd, getLatestBlock, getHeight
  <1>4. ~ (h < loadChainHeight(kv))
    BY <1>2 DEF RecordedHeight
  <1>5. RecoversTo(kv, h)
    BY <1>3, <1>4 DEF RecoversTo
  <1>6. ASSUME NEW k \in 1..MaxHeight, RecoversTo(kv, k)
        PROVE  k = h
    <2>1. k \in Nat /\ h \in Nat /\ h >= 1 /\ k >= 1
      BY <1>2, StorageAssumption
    <2>2. CASE k < h
      <3>1. k \in 1..h-1 /\ k < loadChainHeight(kv)
        BY <1>3, <2>1, <2>2
      <3> QED
        BY <1>3, <1>6, <3>1 DEF RecoversTo
    <2>3. CASE k > h
      <3>1. h \in 1..k-1
        BY <2>1, <2>3
      <3> QED
        BY <1>4, <1>6, <3>1 DEF RecoversTo
    <2> QED
      BY <2>1, <2>2, <2>3
  <1> QED
    BY <1>2, <1>5, <1>6

\* saveBlock: the batch makes the next block known, by index and by hash, and
\* no other block has that hash.
LEMMA SaveBlockIntact ==
    ASSUME HistoryInv, Intact(db, had), Following, SaveBlock
    PROVE  Intact(db', had) /\ Following'
  <1> DEFINE n == Len(chain)
  <1>1. /\ chain \in had /\ IsChain(chain) /\ n \in 2..MaxHeight /\ n \in Nat
        /\ Tip = chain[n] /\ Tip.index = n - 1 /\ Tip \in Block
        /\ n - 1 \in 1..MaxHeight-1 /\ saving = "block" /\ saving' = "height"
        /\ chain' = chain
    BY TipFacts, StorageAssumption DEF SaveBlock
  <1>2. /\ \A j : loadBlock(db', j) = IF j = n - 1 THEN Tip ELSE loadBlock(db, j)
        /\ loadChainHeight(db') = loadChainHeight(db)
        /\ db' = Put(Put(db, BlockKey(n - 1), Tip), HashKey(Tip.hash), n - 1)
    BY <1>1, SavedBlock DEF WithHash, WithBlock
  <1>3. /\ RecordedHeight(db) = n - 1 /\ RecordedHeight(db') = n - 1
        /\ StoredChain(db, n - 1) = Prefix(chain, n - 1)
    BY <1>1, <1>2 DEF Following, RecordedHeight
  <1>4. /\ DOMAIN db' = DOMAIN db \cup {BlockKey(n - 1), HashKey(Tip.hash)}
        /\ db'[HashKey(Tip.hash)] = n - 1
        /\ \A key \in DOMAIN db :
              key \notin {BlockKey(n - 1), HashKey(Tip.hash)} => db'[key] = db[key]
    <2> DEFINE q == Put(db, BlockKey(n - 1), Tip)
    <2>1. /\ DOMAIN q = DOMAIN db \cup {BlockKey(n - 1)}
          /\ \A key \in DOMAIN db : key # BlockKey(n - 1) => q[key] = db[key]
      BY DEF Put
    <2>2. /\ DOMAIN db' = DOMAIN q \cup {HashKey(Tip.hash)}
          /\ db'[HashKey(Tip.hash)] = n - 1
          /\ \A key \in DOMAIN q : key # HashKey(Tip.hash) => db'[key] = q[key]
      <3>1. db' = Put(q, HashKey(Tip.hash), n - 1)
        BY <1>2
      <3> HIDE DEF q
      <3> QED
        BY <3>1 DEF Put
    <2> HIDE DEF q
    <2> QED
      BY <2>1, <2>2
  <1> HIDE DEF n
  <1>5. \A k \in 1..n-1 : StoredChain(db', k) = StoredChain(db, k)
    <2> SUFFICES ASSUME NEW k \in 1..n-1
                 PROVE  StoredChain(db', k) = StoredChain(db, k)
      OBVIOUS
    <2>1. k \in Nat /\ \A i \in 1..k-1 : i # n - 1
      BY <1>1
    <2> QED
      BY <1>2, <2>1, StoredSame
  <1>6. Backed(db', had)
    <2>1. PICK c \in had : Len(c) = n - 1 /\ StoredChain(db, Len(c)) = c
      BY <1>3 DEF Intact, Backed
    <2>2. n - 1 \in 1..n-1
      BY <1>1
    <2> QED
      BY <1>2, <1>3, <1>5, <2>1, <2>2 DEF Intact, Backed
  <1>7. BlockEntries(db', had)
    <2> SUFFICES ASSUME NEW i \in 1..MaxHeight-1, loadBlock(db', i) # None
                 PROVE  /\ i <= n - 1
                        /\ \E c \in had : i < Len(c) /\ loadBlock(db', i) = c[i+1]
                        /\ HashKey(loadBlock(db', i).hash) \in DOMAIN db'
                        /\ db'[HashKey(loadBlock(db', i).hash)] = i
      BY <1>3 DEF BlockEntries
    <2>1. CASE i = n - 1
      <3>1. loadBlock(db', i) = Tip /\ i < n /\ i + 1 = n /\ i <= n - 1
        BY <1>1, <1>2, <2>1
      <3>2. \E c \in had : i < Len(c) /\ loadBlock(db', i) = c[i+1]
        BY <1>1, <3>1 DEF n
      <3> QED
        BY <1>4, <2>1, <3>1, <3>2
    <2>2. CASE i # n - 1
      <3>1. loadBlock(db', i) = loadBlock(db, i)
        BY <1>2, <2>2
      <3>2. PICK c \in had : i < Len(c) /\ loadBlock(db, i) = c[i+1]
        BY <3>1 DEF Intact, BlockEntries
      <3>3. /\ i <= n - 1 /\ HashKey(c[i+1].hash) \in DOMAIN db
            /\ db[HashKey(c[i+1].hash)] = i
        BY <1>3, <3>1, <3>2 DEF Intact, BlockEntries
      <3>4. c[i+1].hash # Tip.hash
        <4> SUFFICES ASSUME c[i+1].hash = chain[n].hash
                     PROVE  FALSE
          BY <1>1
        <4>1. Agree(c, chain) /\ IsChain(c)
          BY <1>1 DEF HistoryInv, History, OneOrigin
        <4>2. Len(c) \in Nat
          BY <4>1 DEF IsChain
        <4>3. i + 1 \in 1..Len(c) /\ n \in 1..Len(chain)
          BY <1>1, <3>2, <4>2, StorageAssumption DEF n
        <4>4. i + 1 = n
          BY <4>1, <4>3 DEF Agree
        <4> QED
          BY <1>1, <2>2, <4>4
      <3>5. HashKey(c[i+1].hash) \notin {BlockKey(n - 1), HashKey(Tip.hash)}
        BY <3>4, KeysApart
      <3> QED
        BY <1>4, <3>1, <3>2, <3>3, <3>5
    <2> QED
      BY <2>1, <2>2
  <1>8. AccountEntries(db')
    <2> SUFFICES ASSUME NEW key \in DOMAIN db'
                 PROVE  /\ key = <<key[1], key[2]>>
                        /\ key[1] = "a:" => \E k \in 1..loadChainHeight(db) :
                              LET accounts == ReplayChain(StoredChain(db', k))
                              IN  key[2] \in DOMAIN accounts /\ db'[key] = accounts[key[2]]
      BY <1>2 DEF AccountEntries
    <2>1. CASE key \in {BlockKey(n - 1), HashKey(Tip.hash)}
      BY <2>1 DEF BlockKey, HashKey
    <2>2. CASE key \notin {BlockKey(n - 1), HashKey(Tip.hash)}
      <3>1. key \in DOMAIN db /\ db'[key] = db[key]
        BY <1>4, <2>2
      <3>2. \A k \in 1..loadChainHeight(db) : k \in 1..n-1
        BY <1>1, <1>3 DEF RecordedHeight
      <3>3. /\ key = <<key[1], key[2]>>
            /\ key[1] = "a:" => \E k \in 1..loadChainHeight(db) :
                  LET accounts == ReplayChain(StoredChain(db, k))
                  IN  key[2] \in DOMAIN accounts /\ db[key] = accounts[key[2]]
        BY <3>1 DEF Intact, AccountEntries
      <3> QED
        BY <1>5, <3>1, <3>2, <3>3
    <2> QED
      BY <2>1, <2>2
  <1>9. StoredChain(db', n) = chain
    <2>1. StoredChain(db', n - 1) = Prefix(chain, n - 1)
      BY <1>1, <1>3, <1>5
    <2>2. ASSUME NEW i \in 1..n
          PROVE  StoredChain(db', n)[i] = chain[i]
      <3>1. CASE i = n
        BY <1>1, <1>2, <3>1 DEF StoredChain
      <3>2. CASE i \in 1..n-1
        <4>1. StoredChain(db', n)[i] = StoredChain(db', n - 1)[i]
          BY <1>1, <3>2 DEF StoredChain
        <4> QED
          BY <2>1, <3>2, <4>1 DEF Prefix
      <3> QED
        BY <1>1, <3>1, <3>2
    <2>3. StoredChain(db', n) = [i \in 1..n |-> StoredChain(db', n)[i]]
      BY DEF StoredChain
    <2>4. chain = [i \in 1..n |-> chain[i]]
      BY <1>1 DEF IsChain, n
    <2> QED
      BY <2>2, <2>3, <2>4
  <1>10. Following'
    BY <1>1, <1>3, <1>9 DEF Following, n
  <1> QED
    BY <1>6, <1>7, <1>8, <1>10 DEF Intact

\* saveChainHeight: the chain in memory is the one that is now recorded.
LEMMA SaveHeightIntact ==
    ASSUME HistoryInv, Intact(db, had), Following, SaveHeight
    PROVE  Intact(db', had) /\ Following'
  <1> DEFINE n == Len(chain)
  <1>1. /\ chain \in had /\ IsChain(chain) /\ n \in 2..MaxHeight /\ n \in Nat
        /\ saving = "height" /\ saving' = "accounts" /\ chain' = chain
        /\ db' = Put(db, HeightKey, n)
    BY TipFacts, StorageAssumption DEF SaveHeight, Write
  <1>2. /\ \A j : loadBlock(db', j) = loadBlock(db, j)
        /\ loadChainHeight(db') = n /\ RecordedHeight(db') = n
    BY <1>1, HeightPut DEF RecordedHeight
  <1>3. RecordedHeight(db) = n - 1 /\ StoredChain(db, n) = chain
    BY <1>1 DEF Following
  <1> HIDE DEF n
  <1>4. /\ DOMAIN db' = DOMAIN db \cup {HeightKey}
        /\ \A key \in DOMAIN db : key # HeightKey => db'[key] = db[key]
    BY <1>1 DEF Put
  <1>5. \A k \in Nat : StoredChain(db', k) = StoredChain(db, k)
    BY <1>2, StoredSame
  <1>6. Backed(db', had)
    BY <1>1, <1>2, <1>3, <1>5, StorageAssumption DEF Backed, n
  <1>7. BlockEntries(db', had)
    <2> SUFFICES ASSUME NEW i \in 1..MaxHeight-1, loadBlock(db', i) # None
                 PROVE  /\ i <= n
                        /\ \E c \in had : i < Len(c) /\ loadBlock(db', i) = c[i+1]
                        /\ HashKey(loadBlock(db', i).hash) \in DOMAIN db'
                        /\ db'[HashKey(loadBlock(db', i).hash)] = i
      BY <1>2 DEF BlockEntries
    <2>1. /\ i <= n - 1
          /\ \E c \in had : i < Len(c) /\ loadBlock(db, i) = c[i+1]
          /\ HashKey(loadBlock(db, i).hash) \in DOMAIN db
          /\ db[HashKey(loadBlock(db, i).hash)] = i
      BY <1>2, <1>3 DEF Intact, BlockEntries
    <2>2. HashKey(loadBlock(db, i).hash) # HeightKey
      BY KeysApart
    <2>3. i <= n
      BY <1>1, <2>1
    <2> QED
      BY <1>2, <1>4, <2>1, <2>2, <2>3
  <1>8. AccountEntries(db')
    <2> SUFFICES ASSUME NEW key \in DOMAIN db'
                 PROVE  /\ key = <<key[1], key[2]>>
                        /\ key[1] = "a:" => \E k \in 1..n :
                              LET accounts == ReplayChain(StoredChain(db', k))
                              IN  key[2] \in DOMAIN accounts /\ db'[key] = accounts[key[2]]
      BY <1>2 DEF AccountEntries
    <2>1. CASE key = HeightKey
      BY <2>1 DEF HeightKey
    <2>2. CASE key # HeightKey
      <3>1. key \in DOMAIN db /\ db'[key] = db[key]
        BY <1>4, <2>2
      <3>2. \A k \in 1..loadChainHeight(db) : k \in 1..n /\ k \in Nat
        BY <1>1, <1>3 DEF RecordedHeight
      <3>3. /\ key = <<key[1], key[2]>>
            /\ key[1] = "a:" => \E k \in 1..loadChainHeight(db) :
                  LET accounts == ReplayChain(StoredChain(db, k))
                  IN  key[2] \in DOMAIN accounts /\ db[key] = accounts[key[2]]
        BY <3>1 DEF Intact, AccountEntries
      <3> QED
        BY <1>5, <3>1, <3>2, <3>3
    <2> QED
      BY <2>1, <2>2
  <1>9. Following'
    BY <1>1, <1>2, <1>3, <1>5 DEF Following, n
  <1> QED
    BY <1>6, <1>7, <1>8, <1>9 DEF Intact

\* saveAccountState: the account is the one after the last recorded block.
LEMMA SaveAccountIntact ==
    ASSUME HistoryInv, Intact(db, had), Following, NEW a, SaveAccountState(a)
    PROVE  Intact(db', had) /\ Following'
  <1> DEFINE n == Len(chain)
             accounts == ReplayChain(chain)
  <1>1. /\ chain \in had /\ IsChain(chain) /\ n \in 2..MaxHeight /\ n \in Nat
        /\ saving = "accounts" /\ saving' = "accounts" /\ chain' = chain
        /\ db' = Put(db, AccountKey(a), accounts[a])
    BY TipFacts, StorageAssumption DEF SaveAccountState, Write
  <1>2. a \in DOMAIN accounts
    BY DEF SaveAccountState, Unsaved
  <1> HIDE DEF accounts
  <1>3. /\ \A j : loadBlock(db', j) = loadBlock(db, j)
        /\ loadChainHeight(db') = loadChainHeight(db)
        /\ RecordedHeight(db') = RecordedHeight(db)
    BY <1>1, AccountPut DEF RecordedHeight
  <1>4. RecordedHeight(db) = n /\ StoredChain(db, n) = chain
    BY <1>1 DEF Following
  <1> HIDE DEF n
  <1>5. loadChainHeight(db) = n
    <2>1. n # 1
      BY <1>1
    <2> QED
      BY <1>4, <2>1 DEF RecordedHeight
  <1>6. /\ DOMAIN db' = DOMAIN db \cup {AccountKey(a)}
        /\ db'[AccountKey(a)] = accounts[a]
        /\ \A key \in DOMAIN db : key # AccountKey(a) => db'[key] = db[key]
    BY <1>1 DEF Put
  <1>7. \A k \in Nat : StoredChain(db', k) = StoredChain(db, k)
    BY <1>3, StoredSame
  <1>8. Backed(db', had)
    BY <1>1, <1>3, <1>4, <1>5, <1>7 DEF Backed, Intact, n
  <1>9. BlockEntries(db', had)
    <2> SUFFICES ASSUME NEW i \in 1..MaxHeight-1, loadBlock(db', i) # None
                 PROVE  /\ i <= RecordedHeight(db)
                        /\ \E c \in had : i < Len(c) /\ loadBlock(db', i) = c[i+1]
                        /\ HashKey(loadBlock(db', i).hash) \in DOMAIN db'
                        /\ db'[HashKey(loadBlock(db', i).hash)] = i
      BY <1>3 DEF BlockEntries
    <2>1. /\ i <= RecordedHeight(db)
          /\ \E c \in had : i < Len(c) /\ loadBlock(db, i) = c[i+1]
          /\ HashKey(loadBlock(db, i).hash) \in DOMAIN db
          /\ db[HashKey(loadBlock(db, i).hash)] = i
      BY <1>3 DEF Intact, BlockEntries
    <2>2. HashKey(loadBlock(db, i).hash) # AccountKey(a)
      BY KeysApart
    <2> QED
      BY <1>3, <1>6, <2>1, <2>2
  <1>10. AccountEntries(db')
    <2> SUFFICES ASSUME NEW key \in DOMAIN db'
                 PROVE  /\ key = <<key[1], key[2]>>
                        /\ key[1] = "a:" => \E k \in 1..n :
                              /\ key[2] \in DOMAIN ReplayChain(StoredChain(db', k))
                              /\ db'[key] = ReplayChain(StoredChain(db', k))[key[2]]
      BY <1>3, <1>5 DEF AccountEntries
    <2>1. CASE key = AccountKey(a)
      <3>1. key = <<key[1], key[2]>> /\ key[2] = a
        BY <2>1 DEF AccountKey
      <3>2. ReplayChain(StoredChain(db', n)) = accounts /\ n \in 1..n
        BY <1>1, <1>4, <1>7 DEF accounts
      <3> QED
        BY <1>2, <1>6, <2>1, <3>1, <3>2
    <2>2. CASE key # AccountKey(a)
      <3>1. key \in DOMAIN db /\ db'[key] = db[key]
        BY <1>6, <2>2
      <3>2. \A k \in 1..n : k \in Nat
        BY <1>1
      <3>3. /\ key = <<key[1], key[2]>>
            /\ key[1] = "a:" => \E k \in 1..n :
                  /\ key[2] \in DOMAIN ReplayChain(StoredChain(db, k))
                  /\ db[key] = ReplayChain(StoredChain(db, k))[key[2]]
        BY <1>5, <3>1 DEF Intact, AccountEntries
      <3> QED
        BY <1>7, <3>1, <3>2, <3>3
    <2> QED
      BY <2>1, <2>2
  <1>11. Following'
    BY <1>1, <1>3, <1>4, <1>7 DEF Following, n
  <1> QED
    BY <1>8, <1>9, <1>10, <1>11 DEF Intact

\* Nothing is stored and nothing is recorded at first.
LEMMA IntactInit == Init => IntactInv
  <1> SUFFICES ASSUME Init
               PROVE  /\ \A kv \in Survivors : Intact(kv, had)
                      /\ ~ Up
    BY DEF IntactInv
  <1>1. Survivors = {db} /\ ~ Up
    BY DEF Survivors, Init, Up
  <1>2. DOMAIN db = {}
    BY DEF Init
  <1>3. (\A i : loadBlock(db, i) = None) /\ loadChainHeight(db) = 0
    BY <1>2 DEF loadBlock, loadChainHeight, Get
  <1>4. Backed(db, had)
    <2> DEFINE g == <<GenesisBlock>>
    <2>1. g \in had /\ Len(g) = 1 /\ StoredChain(db, 1) = g
      BY DEF Init, StoredChain
    <2>2. RecordedHeight(db) = 1 /\ 0 \in 0..MaxHeight
      BY <1>3, StorageAssumption DEF RecordedHeight
    <2> HIDE DEF g
    <2> QED
      BY <1>3, <2>1, <2>2 DEF Backed
  <1>5. BlockEntries(db, had) /\ AccountEntries(db)
    BY <1>2, <1>3 DEF BlockEntries, AccountEntries
  <1> QED
    BY <1>1, <1>4, <1>5 DEF Intact

\* A content that a step brings in addition is intact, too.
LEMMA IntactWrite ==
    ASSUME HistoryInv, IntactInv, damages = 0, NEW kv, Write(kv), had' = had,
           Intact(kv, had), Following', damages' = damages
    PROVE  IntactInv'
  <1>1. Survivors' = Survivors \cup {kv}
    BY WriteSurvivors DEF HistoryInv
  <1>2. \A q \in Survivors' : Intact(q, had')
    BY <1>1 DEF IntactInv
  <1> QED
    BY <1>2 DEF IntactInv

\* Every step keeps what is intact so, unless it damages a record.
LEMMA IntactStep ==
    ASSUME HistoryInv, IntactInv, [Next]_vars
    PROVE  IntactInv'
  <1> SUFFICES ASSUME damages' = 0
               PROVE  IntactInv'
    BY DEF IntactInv
  <1>0. damages = 0 /\ damages' = damages
    BY DEF HistoryInv, Next, vars, Start, AddBlock, SaveBlock, SaveHeight, EndSave,
           SaveAccountState, Sync, Kill, LosePower, Dies, Damage
  <1>1. /\ \A kv \in Survivors : Intact(kv, had)
        /\ Up => Following
        /\ History(had) /\ Intact(db, had)
    BY <1>0 DEF IntactInv, HistoryInv, Survivors
  <1>2. CASE Start
    <2>1. PICK k \in 1..MaxHeight : RecoversTo(db, k) /\ chain' = StoredChain(db, k)
      BY <1>2 DEF Start
    <2>2. UNCHANGED <<db, log, saving, had>> /\ saving = "done"
      BY <1>2 DEF Start, HistoryInv
    <2>3. k = RecordedHeight(db)
      BY <1>1, <2>1, IntactReplays DEF Intact
    <2>4. Len(chain') = k
      BY <2>1, StorageAssumption DEF StoredChain
    <2>5. Following'
      BY <2>1, <2>2, <2>3, <2>4 DEF Following
    <2>6. Survivors' = Survivors
      BY <2>2 DEF Survivors
    <2> QED
      BY <1>1, <2>2, <2>5, <2>6 DEF IntactInv
  <1>3. ASSUME NEW now \in Stamps, NEW txs \in {<<tx>> : tx \in Txs} \cup {<< >>},
               AddBlock(now, txs)
        PROVE  IntactInv'
    <2> DEFINE n == Len(chain)
    <2>1. /\ Up /\ saving = "done" /\ saving' = "block" /\ UNCHANGED <<db, log>>
          /\ had' = had \cup {chain'} /\ n < MaxHeight
      BY <1>3 DEF AddBlock
    <2>2. PICK b : chain' = Append(chain, b)
      BY <1>3 DEF AddBlock
    <2>3. chain \in had /\ IsChain(chain)
      BY <2>1 DEF HistoryInv, History
    <2>4. /\ Len(chain') = n + 1 /\ n \in Nat
          /\ \A i \in 1..n : chain'[i] = chain[i]
          /\ chain = [i \in 1..n |-> chain[i]]
      BY <2>2, <2>3 DEF IsChain
    <2>5. RecordedHeight(db) = n /\ StoredChain(db, n) = chain
      BY <1>1, <2>1 DEF Following
    <2> HIDE DEF n
    <2>6. Prefix(chain', n) = chain /\ Len(chain') - 1 = n
      BY <2>4 DEF Prefix
    <2>7. Following'
      BY <2>1, <2>5, <2>6 DEF Following
    <2>8. Survivors' = Survivors /\ had \subseteq had'
      BY <2>1 DEF Survivors
    <2>9. \A kv \in Survivors' : Intact(kv, had')
      BY <1>1, <2>8, IntactGrows
    <2> QED
      BY <2>7, <2>9 DEF IntactInv
  <1>4. CASE SaveBlock
    <2>1. Up /\ had' = had /\ Write(db')
      BY <1>4 DEF SaveBlock, HistoryInv, Write
    <2> QED
      BY <1>0, <1>1, <1>4, <2>1, SaveBlockIntact, IntactWrite
  <1>5. CASE SaveHeight
    <2>1. Up /\ had' = had /\ Write(db')
      BY <1>5 DEF SaveHeight, HistoryInv, Write
    <2> QED
      BY <1>0, <1>1, <1>5, <2>1, SaveHeightIntact, IntactWrite
  <1>6. ASSUME NEW a \in Address, SaveAccountState(a)
        PROVE  IntactInv'
    <2>1. Up /\ had' = had /\ Write(db')
      BY <1>6 DEF SaveAccountState, HistoryInv, Write
    <2> QED
      BY <1>0, <1>1, <1>6, <2>1, SaveAccountIntact, IntactWrite
  <1>7. CASE EndSave
    <2>1. UNCHANGED <<db, log, chain, had>> /\ saving = "accounts" /\ saving' = "done"
      BY <1>7 DEF EndSave
    <2>2. Survivors' = Survivors
      BY <2>1 DEF Survivors
    <2>3. Up' => Following'
      BY <1>1, <2>1 DEF Following, Up
    <2> QED
      BY <1>1, <2>1, <2>2, <2>3 DEF IntactInv
  <1>8. CASE Sync
    <2>1. UNCHANGED <<db, chain, saving, had>> /\ log' = Tail(log) /\ log # << >>
      BY <1>8 DEF Sync
    <2>2. Elements(log') \subseteq Elements(log)
      BY <2>1, TailElements DEF HistoryInv
    <2>3. Survivors' \subseteq Survivors
      BY <2>1, <2>2 DEF Survivors, Elements
    <2>4. Up' => Following'
      BY <1>1, <2>1 DEF Following, Up
    <2> QED
      BY <1>1, <2>1, <2>3, <2>4 DEF IntactInv
  <1>9. CASE Kill
    <2>1. UNCHANGED <<db, log, had>> /\ ~ Up'
      BY <1>9 DEF Kill, Dies, Up
    <2>2. Survivors' = Survivors
      BY <2>1 DEF Survivors
    <2> QED
      BY <1>1, <2>1, <2>2 DEF IntactInv
  <1>10. CASE LosePower
    <2>1. had' = had /\ ~ Up'
      BY <1>10 DEF LosePower, Dies, Up
    <2>2. Survivors' \subseteq Survivors
      <3>1. log' \in Seq({}) /\ db' \in Survivors
        BY <1>10 DEF LosePower
      <3>2. Elements(log') = {}
        BY <3>1, NoElements
      <3> QED
        BY <3>1, <3>2 DEF Survivors, Elements
    <2> QED
      BY <1>1, <2>1, <2>2 DEF IntactInv
  <1>11. ASSUME NEW i \in 1..MaxHeight-1, Damage(i)
         PROVE  IntactInv'
    BY <1>0, <1>11 DEF Damage
  <1>12. CASE UNCHANGED vars
    <2>1. UNCHANGED <<db, log, chain, saving, had>>
      BY <1>12 DEF vars
    <2>2. Survivors' = Survivors
      BY <2>1 DEF Survivors
    <2>3. Up' => Following'
      BY <1>1, <2>1 DEF Following, Up
    <2> QED
      BY <1>1, <2>1, <2>2, <2>3 DEF IntactInv
  <1> QED
    BY <1>2, <1>3, <1>4, <1>5, <1>6, <1>7, <1>8, <1>9, <1>10, <1>11, <1>12 DEF Next

\* Both invariants hold in every reachable state.
LEMMA StoreAlwaysSound == Spec => [](HistoryInv /\ IntactInv)
  <1>1. Init => HistoryInv /\ IntactInv
    BY HistoryInit, IntactInit
  <1>2. HistoryInv /\ IntactInv /\ [Next]_vars => (HistoryInv /\ IntactInv)'
    BY HistoryStep, IntactStep
  <1> QED
    BY <1>1, <1>2, PTL DEF Spec

-----------------------------------------------------------------------------
(***************************************************************************)
(* What a restart can rely on                                              *)
(***************************************************************************)

\* Whatever prefix of the writes of afterBlockAccepted survives, every block
\* below the recorded height is there and recoverFromStorage replays it.
THEOREM HeightAlwaysBacked == Spec => []HeightIsBacked
  <1>1. HistoryInv /\ IntactInv => HeightIsBacked
    <2> SUFFICES ASSUME HistoryInv, IntactInv, damages = 0, NEW kv \in Survivors
                 PROVE  RecoversTo(kv, RecordedHeight(kv))
      BY DEF HeightIsBacked, RecordedHeight
    <2>1. History(had) /\ Backed(kv, had)
      BY DEF HistoryInv, IntactInv, Intact
    <2> QED
      BY <2>1, IntactReplays
  <1> QED
    BY StoreAlwaysSound, <1>1, PTL

\* The batch of saveBlock keeps the two ways to a block in step: by its hash
\* one finds every stored block, and for the chain in memory the database and
\* Blockchain::findBlockByHash answer with the same block.
THEOREM HashesAlwaysFound == Spec => []HashEntries
  <1>1. HistoryInv /\ IntactInv => HashEntries
    <2> SUFFICES ASSUME HistoryInv, IntactInv, damages = 0
                 PROVE  /\ \A kv \in Survivors : \A i \in 1..MaxHeight-1 :
                              loadBlock(kv, i) # None =>
                                  loadBlockByHash(kv, loadBlock(kv, i).hash) = loadBlock(kv, i)
                        /\ saving = "done" =>
                              \A i \in 2..Len(chain) :
                                  findBlockByHash(chain, chain[i].hash) =
                                      {loadBlockByHash(db, chain[i].hash)}
      BY DEF HashEntries
    <2>1. ASSUME NEW kv \in Survivors, NEW i \in 1..MaxHeight-1, loadBlock(kv, i) # None
          PROVE  loadBlockByHash(kv, loadBlock(kv, i).hash) = loadBlock(kv, i)
      <3>1. BlockEntries(kv, had)
        BY DEF IntactInv, Intact
      <3> QED
        BY <2>1, <3>1 DEF BlockEntries, loadBlockByHash
    <2>2. ASSUME saving = "done", NEW i \in 2..Len(chain)
          PROVE  findBlockByHash(chain, chain[i].hash) = {loadBlockByHash(db, chain[i].hash)}
      <3>1. Up
        BY DEF Up
      <3>2. chain \in had /\ IsChain(chain) /\ Agree(chain, chain) /\ Following
        BY <3>1 DEF HistoryInv, History, OneOrigin, IntactInv
      <3>3. /\ chain \in Seq(Block) /\ Len(chain) \in 1..MaxHeight
            /\ StoredChain(db, Len(chain)) = chain
        BY <2>2, <3>2 DEF IsChain, Following
      <3>4. /\ i - 1 \in 1..MaxHeight-1 /\ i \in 1..Len(chain) /\ i # 1
            /\ chain[i] \in Block
        BY <3>3, StorageAssumption
      <3>5. loadBlock(db, i - 1) = chain[i]
        BY <3>3, <3>4 DEF StoredChain
      <3>6. chain[i] # None /\ db \in Survivors
        BY <3>4, BlockIsRecord DEF Survivors
      <3>7. loadBlockByHash(db, chain[i].hash) = chain[i]
        BY <2>1, <3>4, <3>5, <3>6
      <3>8. \A j \in 1..Len(chain) : chain[j].hash = chain[i].hash => j = i
        BY <3>2, <3>4 DEF Agree
      <3>9. DOMAIN chain = 1..Len(chain)
        BY <3>3
      <3>10. \A j \in 1..i-1 : j \in 1..Len(chain) /\ j # i
        BY <3>3, <3>4
      <3>11. {j \in DOMAIN chain :
                 /\ chain[j].hash = chain[i].hash
                 /\ \A m \in 1..j-1 : chain[m].hash # chain[i].hash} = {i}
        BY <3>4, <3>8, <3>9, <3>10
      <3> QED
        BY <3>7, <3>11 DEF findBlockByHash
    <2> QED
      BY <2>1, <2>2
  <1> QED
    BY StoreAlwaysSound, <1>1, PTL

\* No account entry that may survive is ahead of the recorded blocks: it is
\* the account after one of them, so that no restart forgets its money.
THEOREM AccountsNeverAhead == Spec => []AccountsNotAhead
  <1>1. HistoryInv /\ IntactInv => AccountsNotAhead
    <2> SUFFICES ASSUME IntactInv, damages = 0, NEW kv \in Survivors,
                        NEW a \in DOMAIN loadAllAccounts(kv)
                 PROVE  \E k \in 1..loadChainHeight(kv) :
                            LET accounts == ReplayChain(StoredChain(kv, k))
                            IN  a \in DOMAIN accounts /\ loadAllAccounts(kv)[a] = accounts[a]
      BY DEF AccountsNotAhead
    <2>1. AccountEntries(kv)
      BY DEF IntactInv, Intact
    <2>2. PICK key \in DOMAIN kv : key[1] = "a:" /\ key[2] = a
      BY DEF loadAllAccounts
    <2>3. key = AccountKey(a)
      BY <2>1, <2>2 DEF AccountEntries, AccountKey
    <2>4. loadAllAccounts(kv)[a] = kv[key]
      BY <2>2, <2>3 DEF loadAllAccounts, loadAccountState, Get
    <2> QED
      BY <2>1, <2>2, <2>4 DEF AccountEntries
  <1> QED
    BY StoreAlwaysSound, <1>1, PTL

\* What has reached the disk is final: no sequence of kills, power losses,
\* restarts and new blocks replaces a block once it and its height are in every
\* content that may survive.
THEOREM SyncedStays == Spec => SyncedIsFinal
  <1> DEFINE Keeps ==
          damages' = 0 =>
              \A i \in 1..MaxHeight-1 :
                  LET b == Recorded(db, i) IN
                  b # None /\ (\A kv \in Survivors : Recorded(kv, i) = b) =>
                      \A kv \in Survivors' : Recorded(kv, i) = b
  <1>1. ASSUME HistoryInv, IntactInv, [Next]_vars
        PROVE  Keeps
    <2> SUFFICES ASSUME damages' = 0, NEW i \in 1..MaxHeight-1, Recorded(db, i) # None,
                        \A kv \in Survivors : Recorded(kv, i) = Recorded(db, i)
                 PROVE  \A kv \in Survivors' : Recorded(kv, i) = Recorded(db, i)
      OBVIOUS
    <2>0. damages = 0
      BY <1>1 DEF HistoryInv, Next, vars, Start, AddBlock, SaveBlock, SaveHeight, EndSave,
             SaveAccountState, Sync, Kill, LosePower, Dies, Damage
    <2>1. /\ i < loadChainHeight(db) /\ IsSeq(log)
          /\ Up => Following
          /\ i < RecordedHeight(db)
      BY <1>1, <2>0 DEF Recorded, HistoryInv, IntactInv, RecordedHeight
    <2>2. ASSUME NEW kv, Write(kv), Recorded(kv, i) = Recorded(db, i)
          PROVE  \A q \in Survivors' : Recorded(q, i) = Recorded(db, i)
      BY <2>1, <2>2, WriteSurvivors
    <2>3. CASE Survivors' \subseteq Survivors
      BY <2>3
    <2>4. CASE SaveBlock
      <3>1. /\ loadChainHeight(db') = loadChainHeight(db)
            /\ \A j : loadBlock(db', j) = IF j = Len(chain) - 1 THEN Tip ELSE loadBlock(db, j)
            /\ saving = "block"
        BY <1>1, <2>4, SavedBlock DEF SaveBlock
      <3>2. RecordedHeight(db) = Len(chain) - 1
        BY <1>1, <2>1, <3>1 DEF HistoryInv, Following
      <3>3. i # Len(chain) - 1
        BY <2>1, <3>2
      <3>4. Recorded(db', i) = Recorded(db, i)
        BY <3>1, <3>3 DEF Recorded
      <3> QED
        BY <2>2, <2>4, <3>4 DEF SaveBlock, Write
    <2>5. CASE SaveHeight
      <3>1. /\ saving = "height" /\ db' = Put(db, HeightKey, Len(chain))
            /\ Len(chain) \in Nat /\ Len(chain) >= 2
        BY <1>1, <2>5, TipFacts, StorageAssumption DEF SaveHeight, Write
      <3>2. RecordedHeight(db) = Len(chain) - 1
        BY <1>1, <2>1, <3>1 DEF HistoryInv, Following
      <3>3. loadChainHeight(db') = Len(chain) /\ loadBlock(db', i) = loadBlock(db, i)
        BY <3>1, HeightPut
      <3>4. i < Len(chain)
        BY <2>1, <3>1, <3>2
      <3>5. Recorded(db', i) = Recorded(db, i)
        BY <2>1, <3>3, <3>4 DEF Recorded
      <3> QED
        BY <2>2, <2>5, <3>5 DEF SaveHeight, Write
    <2>6. ASSUME NEW a \in Address, SaveAccountState(a)
          PROVE  \A kv \in Survivors' : Recorded(kv, i) = Recorded(db, i)
      <3>1. Recorded(db', i) = Recorded(db, i)
        BY <2>6, AccountPut DEF SaveAccountState, Write, Recorded
      <3> QED
        BY <2>2, <2>6, <3>1 DEF SaveAccountState, Write
    <2>7. CASE Sync
      <3>1. db' = db /\ Elements(log') \subseteq Elements(log)
        BY <2>1, <2>7, TailElements DEF Sync
      <3> QED
        BY <2>3, <3>1 DEF Survivors, Elements
    <2>8. CASE LosePower
      <3>1. log' \in Seq({}) /\ db' \in Survivors
        BY <2>8 DEF LosePower
      <3>2. Elements(log') = {}
        BY <3>1, NoElements
      <3> QED
        BY <2>3, <3>1, <3>2 DEF Survivors, Elements
    <2>9. CASE UNCHANGED <<db, log>>
      <3>1. Survivors' = Survivors
        BY <2>9 DEF Survivors
      <3> QED
        BY <2>3, <3>1
    <2>10. ASSUME NEW j \in 1..MaxHeight-1, Damage(j)
           PROVE  FALSE
      BY <2>0, <2>10 DEF Damage
    <2> QED
      BY <1>1, <2>4, <2>5, <2>6, <2>7, <2>8, <2>9, <2>10
         DEF Next, vars, Start, AddBlock, EndSave, Kill
  <1>2. HistoryInv /\ IntactInv /\ [Next]_vars => [Keeps]_vars
    BY <1>1
  <1> HIDE DEF Keeps
  <1>3. Spec => [][Keeps]_vars
    BY StoreAlwaysSound, <1>2, PTL DEF Spec
  <1> QED
    BY <1>3 DEF Keeps, SyncedIsFinal

=============================================================================
