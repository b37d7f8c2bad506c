-------------------------- MODULE ExecutionProofs --------------------------
(***************************************************************************)
(* The balances a node shows are those its chain spells out: the proof of  *)
(* ChainExecutes, for any number of nodes, transactions and crashes, as    *)
(* long as LevelDB takes every write (DiskMayFail = FALSE).                *)
(*                                                                         *)
(* Nobody who accepts a block checks that it applies, so this has to be    *)
(* known of every block that can arrive.  A block is cut from the pool of  *)
(* its producer, which revalidate keeps exact for the accounts behind that *)
(* very chain: it applies there.  Once its height is recorded the block    *)
(* and all those before it stay on the producer's disk and are official.   *)
(* Whoever accepts it later has a chain of official blocks of the same     *)
(* length, hence the same chain: it applies there too.                     *)
(***************************************************************************)
EXTENDS TitanNetProofs, LedgerProofs

-----------------------------------------------------------------------------
(***************************************************************************)
(* The accounts behind a chain                                             *)
(***************************************************************************)

\* One block, and the accounts that the replay of a chain passes through.
AfterBlock(acc, b) == applyBlock(acc, b.transactions)

IsReplayChain(run, bs) ==
    /\ run \in [0..Len(bs) -> Funded(GenesisSupply)]
    /\ run[0] = GenesisState(GenesisAllocations)
    /\ \A k \in 1..Len(bs) : run[k] = AfterBlock(run[k-1], bs[k])

\* A block keeps the supply.
LEMMA AfterBlockFunded ==
    ASSUME NEW acc \in Funded(GenesisSupply), NEW b \in NetBlock
    PROVE  AfterBlock(acc, b) \in Funded(GenesisSupply)
  <1>1. b.transactions \in Seq(Txs)
    BY DEF NetBlock, Block
  <1> QED
    BY <1>1, GenesisAccounts, ApplyFunded DEF AfterBlock

\* The replay of a chain, block by block.
LEMMA ReplayChainLoop ==
    ASSUME NEW bs \in Seq(NetBlock)
    PROVE  \E run : IsReplayChain(run, bs) /\ ReplayChain(bs) = run[Len(bs)]
  <1> DEFINE n == Len(bs)
             V == Funded(GenesisSupply)
             base == GenesisState(GenesisAllocations)
             Body(g) == [t \in SUBSET DOMAIN bs |->
                            IF t = {} THEN base
                            ELSE AfterBlock(g[t \ {Max(t)}], bs[Max(t)])]
             c == CHOOSE g : g = Body(g)
             step == [i \in 1..n |-> [v \in V |-> AfterBlock(v, bs[i])]]
  <1>1. ReplayChain(bs) = c[DOMAIN bs]
    BY Zenon DEF ReplayChain, FoldLeft, MapThenFoldSet, AfterBlock
  <1>2. n \in Nat /\ DOMAIN bs = 1..n /\ \A i \in 1..n : bs[i] \in NetBlock
    OBVIOUS
  <1> HIDE DEF n
  <1>3. /\ base \in V /\ step \in [1..n -> [V -> V]]
        /\ \A v \in V, i \in 1..n : AfterBlock(v, bs[i]) \in V
    <2>1. base \in V
      BY GenesisAccounts
    <2>2. \A v \in V, i \in 1..n : AfterBlock(v, bs[i]) \in V
      BY <1>2, AfterBlockFunded
    <2> HIDE DEF V
    <2> QED
      BY <2>1, <2>2
  <1> HIDE DEF base, V
  <1>4. PICK g \in [SUBSET (1..n) -> V] : g = PartialFolds(n, base, step, g)
    <2> HIDE DEF step, Body, c
    <2>1. n \in Nat
      BY <1>2
    <2>2. base \in V
      BY <1>3
    <2>3. step \in [1..n -> [V -> V]]
      BY <1>3
    <2>4. \E g : SolvesFold(n, V, base, step, g)
      BY <2>1, <2>2, <2>3, FoldExists, Zenon
    <2> QED
      BY <2>4 DEF SolvesFold
  <1>5. g = Body(g)
    <2>1. ASSUME NEW t \in SUBSET (1..n), t # {}
          PROVE  step[Max(t)][g[t \ {Max(t)}]] = AfterBlock(g[t \ {Max(t)}], bs[Max(t)])
      <3>1. Max(t) \in 1..n
        BY <1>2, <2>1, MaxIn
      <3>2. g[t \ {Max(t)}] \in V
        OBVIOUS
      <3> QED
        BY <3>1, <3>2
    <2> HIDE DEF step
    <2>2. PartialFolds(n, base, step, g) = Body(g)
      BY <1>2, <2>1 DEF PartialFolds
    <2> QED
      BY <1>4, <2>2
  <1> HIDE DEF Body, step
  <1>6. c = Body(c)
    BY <1>5, Zenon
  <1> HIDE DEF c
  <1> DEFINE run == [k \in 0..n |-> c[1..k]]
  <1>7. run[0] = base
    <2>1. 1..0 = {} /\ {} \in SUBSET DOMAIN bs /\ 0 \in 0..n
      BY <1>2
    <2>2. c[{}] = base
      BY <1>6, <2>1 DEF Body
    <2> QED
      BY <2>1, <2>2
  <1>8. ASSUME NEW k \in 1..n
        PROVE  run[k] = AfterBlock(run[k-1], bs[k])
    <2>1. /\ 1..k \in SUBSET DOMAIN bs /\ 1..k # {}
          /\ Max(1..k) = k /\ (1..k) \ {k} = 1..(k-1)
      BY <1>2, LastPosition
    <2>2. c[1..k] = AfterBlock(c[1..(k-1)], bs[k])
      BY <1>6, <2>1 DEF Body
    <2>3. run[k] = c[1..k] /\ run[k-1] = c[1..(k-1)]
      BY <1>2
    <2> QED
      BY <2>2, <2>3
  <1>9. run \in [0..n -> V]
    <2> DEFINE T == {k \in Nat : k <= n => run[k] \in V}
    <2>1. 0 \in T
      BY <1>3, <1>7
    <2>2. ASSUME NEW k \in Nat, k \in T
          PROVE  k + 1 \in T
      <3> HIDE DEF run
      <3> SUFFICES ASSUME k + 1 <= n PROVE run[k + 1] \in V
        OBVIOUS
      <3>1. k + 1 \in 1..n /\ run[k] \in V /\ (k + 1) - 1 = k
        BY <1>2, <2>2
      <3>2. run[k+1] = AfterBlock(run[k], bs[k+1])
        BY <1>8, <3>1
      <3> QED
        BY <1>3, <3>1, <3>2
    <2> HIDE DEF T
    <2>3. Nat \subseteq T
      BY <2>1, <2>2, Induction
    <2>4. \A k \in 0..n : run[k] \in V
      <3> HIDE DEF run
      <3> QED
        BY <1>2, <2>3 DEF T
    <2> QED
      BY <2>4
  <1>10. ReplayChain(bs) = run[n]
    BY <1>1, <1>2
  <1> HIDE DEF run
  <1> QED
    BY <1>7, <1>8, <1>9, <1>10 DEF IsReplayChain, n, base, V

\* A longer chain is the shorter one with one more block.
LEMMA ReplayedOneMore ==
    ASSUME NEW bs \in Seq(NetBlock), NEW b \in NetBlock
    PROVE  /\ ReplayChain(bs) \in Funded(GenesisSupply)
           /\ ReplayChain(Append(bs, b)) = AfterBlock(ReplayChain(bs), b)
  <1> DEFINE n == Len(bs)
             more == Append(bs, b)
  <1>1. /\ n \in Nat /\ more \in Seq(NetBlock) /\ Len(more) = n + 1
        /\ more[n+1] = b /\ \A k \in 1..n : more[k] = bs[k]
    OBVIOUS
  <1> HIDE DEF more
  <1>2. PICK run : IsReplayChain(run, bs) /\ ReplayChain(bs) = run[n]
    BY ReplayChainLoop
  <1>3. PICK run2 : IsReplayChain(run2, more) /\ ReplayChain(more) = run2[n + 1]
    BY <1>1, ReplayChainLoop
  <1>4. /\ run \in [0..n -> Funded(GenesisSupply)] /\ run[0] = GenesisState(GenesisAllocations)
        /\ run2[0] = GenesisState(GenesisAllocations)
        /\ \A k \in 1..n : run[k] = AfterBlock(run[k-1], bs[k])
        /\ \A k \in 1..(n+1) : run2[k] = AfterBlock(run2[k-1], more[k])
    BY <1>1, <1>2, <1>3 DEF IsReplayChain
  <1> HIDE DEF n
  <1> DEFINE T == {k \in Nat : k <= n => run2[k] = run[k]}
  <1>5. 0 \in T
    BY <1>4
  <1>6. ASSUME NEW k \in Nat, k \in T
        PROVE  k + 1 \in T
    <2> SUFFICES ASSUME k + 1 <= n PROVE run2[k+1] = run[k+1]
      OBVIOUS
    <2>1. /\ k + 1 \in 1..n /\ k + 1 \in 1..(n+1) /\ (k + 1) - 1 = k
          /\ run2[k] = run[k]
      BY <1>1, <1>6
    <2> QED
      BY <1>1, <1>4, <2>1
  <1> HIDE DEF T
  <1>7. n \in T
    BY <1>1, <1>5, <1>6, Induction
  <1>8. run2[n] = run[n] /\ n + 1 \in 1..(n+1) /\ (n + 1) - 1 = n /\ n \in 0..n
    BY <1>1, <1>7 DEF T
  <1>9. run2[n+1] = AfterBlock(run[n], b) /\ run[n] \in Funded(GenesisSupply)
    BY <1>1, <1>4, <1>8
  <1> QED
    BY <1>2, <1>3, <1>9 DEF more

-----------------------------------------------------------------------------
(***************************************************************************)
(* Chains of which every block applies                                     *)
(***************************************************************************)

\* The beginning of a sequence.
LEMMA Prefix ==
    ASSUME NEW S, NEW c \in Seq(S), NEW k \in 0..Len(c)
    PROVE  /\ SubSeq(c, 1, k) \in Seq(S) /\ Len(SubSeq(c, 1, k)) = k
           /\ \A i \in 1..k : SubSeq(c, 1, k)[i] = c[i]
  OBVIOUS

\* Two sequences with the same elements are the same.
LEMMA SameElements ==
    ASSUME NEW S, NEW c \in Seq(S), NEW d \in Seq(S), Len(c) = Len(d),
           \A i \in 1..Len(c) : c[i] = d[i]
    PROVE  c = d
  <1>1. /\ c = [i \in 1..Len(c) |-> c[i]] /\ d = [i \in 1..Len(d) |-> d[i]]
    BY ListIsFunction
  <1>2. [i \in 1..Len(c) |-> c[i]] = [i \in 1..Len(c) |-> d[i]]
    OBVIOUS
  <1> QED
    BY <1>1, <1>2, Zenon

\* A block without transactions applies.
LEMMA EmptyBlockApplies ==
    ASSUME NEW acc \in Funded(GenesisSupply)
    PROVE  BlockApplies(acc, << >>)
  <1>1. << >> \in Seq(Txs) /\ Len(<< >>) = 0
    OBVIOUS
  <1>2. PICK run : /\ IsReplay(run, GenesisSupply, acc, << >>)
                   /\ Replay(acc, << >>) = run[Len(<< >>)]
    BY <1>1, GenesisAccounts, ReplayLoop
  <1>3. Replay(acc, << >>) = [ok |-> TRUE, accounts |-> acc]
    BY <1>1, <1>2 DEF IsReplay
  <1> QED
    BY <1>3 DEF BlockApplies

\* One more block that applies.
LEMMA ExecutesOneMore ==
    ASSUME NEW c \in Seq(NetBlock), Executes(c), NEW b \in NetBlock,
           BlockApplies(ReplayChain(c), b.transactions)
    PROVE  Executes(Append(c, b))
  <1> DEFINE d == Append(c, b)
             n == Len(c)
  <1>1. /\ n \in Nat /\ d \in Seq(NetBlock) /\ Len(d) = n + 1 /\ d[n+1] = b
        /\ \A i \in 1..n : d[i] = c[i]
    OBVIOUS
  <1> HIDE DEF d
  <1>2. ASSUME NEW k \in 0..n
        PROVE  SubSeq(d, 1, k) = SubSeq(c, 1, k)
    <2>1. k \in 0..Len(d) /\ k \in Nat
      BY <1>1
    <2>2. /\ SubSeq(c, 1, k) \in Seq(NetBlock) /\ Len(SubSeq(c, 1, k)) = k
          /\ \A i \in 1..k : SubSeq(c, 1, k)[i] = c[i]
      BY Prefix
    <2>3. /\ SubSeq(d, 1, k) \in Seq(NetBlock) /\ Len(SubSeq(d, 1, k)) = k
          /\ \A i \in 1..k : SubSeq(d, 1, k)[i] = d[i]
      BY <1>1, <2>1, Prefix
    <2>4. \A i \in 1..k : d[i] = c[i]
      BY <1>1
    <2> QED
      BY <2>2, <2>3, <2>4, SameElements
  <1>3. SubSeq(c, 1, n) = c
    <2>1. n \in 0..n
      BY <1>1
    <2>2. /\ SubSeq(c, 1, n) \in Seq(NetBlock) /\ Len(SubSeq(c, 1, n)) = n
          /\ \A i \in 1..n : SubSeq(c, 1, n)[i] = c[i]
      BY <2>1, Prefix
    <2> QED
      BY <2>2, SameElements
  <1>4. ASSUME NEW i \in 1..n
        PROVE  BlockApplies(ReplayChain(SubSeq(d, 1, i-1)), d[i].transactions)
    <2>1. i - 1 \in 0..n
      BY <1>1
    <2>2. SubSeq(d, 1, i-1) = SubSeq(c, 1, i-1) /\ d[i] = c[i]
      BY <1>1, <1>2, <2>1
    <2> QED
      BY <2>2 DEF Executes
  <1>5. BlockApplies(ReplayChain(SubSeq(d, 1, (n+1)-1)), d[n+1].transactions)
    <2>1. (n + 1) - 1 = n /\ n \in 0..n
      BY <1>1
    <2>2. SubSeq(d, 1, n) = c
      BY <1>2, <1>3, <2>1
    <2> QED
      BY <1>1, <2>1, <2>2
  <1>6. \A i \in 1..Len(d) : i \in 1..n \/ i = n + 1
    BY <1>1
  <1> QED
    BY <1>4, <1>5, <1>6 DEF Executes, d

\* The chain that a node without a record starts from.
LEMMA GenesisExecutes ==
    ASSUME NEW c \in Seq(NetBlock), Len(c) = 1, c[1] = GenesisBlock
    PROVE  Executes(c)
  <1>1. GenesisBlock.transactions = << >>
    BY DEF GenesisBlock, SignedBlock
  <1>2. SubSeq(c, 1, 0) \in Seq(NetBlock)
    <2>1. 0 \in 0..Len(c)
      OBVIOUS
    <2> QED
      BY <2>1, Prefix
  <1>3. ReplayChain(SubSeq(c, 1, 0)) \in Funded(GenesisSupply)
    BY <1>2, GenesisType, ReplayedOneMore
  <1>4. \A i \in 1..Len(c) : i = 1 /\ i - 1 = 0
    OBVIOUS
  <1> QED
    BY <1>1, <1>3, <1>4, EmptyBlockApplies DEF Executes

-----------------------------------------------------------------------------
(***************************************************************************)
(* The inductive invariant                                                 *)
(***************************************************************************)

\* The memory of a running node: its chain executes to its accounts, and the
\* pool is exact for them.
MemoryExecutes(n) ==
    up[n] => /\ Executes(chain[n]) /\ accounts[n] = ReplayChain(chain[n])
             /\ Exact(mempool[n], accounts[n])

\* What a disk has recorded executes, whether or not its node runs.
DiskExecutes(n) == Executes(StoredChain(n, RecordedHeight(n)))

ExecutionInv ==
    /\ DOMAIN accounts = Node /\ DOMAIN mempool = Node
    /\ \A n \in Node : MemoryExecutes(n) /\ DiskExecutes(n)

-----------------------------------------------------------------------------
(***************************************************************************)
(* The steps, as far as accounts and pools are concerned                   *)
(***************************************************************************)

moneyState == <<up, chain, accounts, mempool>>

\* A thread of n offers a transaction to the pool.
PoolTakes(n) ==
    /\ UNCHANGED <<up, chain, accounts>>
    /\ \E tx \in Txs :
          mempool' = [mempool EXCEPT ![n] = addTransaction(@, accounts[n], tx)]

\* Every step is one of these.
LEMMA MoneySteps ==
    ASSUME DiskMayFail = FALSE, TypeOK, LiveShape, \A n \in Node : ThreadShape(n),
           [Next]_vars
    PROVE  \/ UNCHANGED moneyState
           \/ \E n \in Node : Start(n) \/ Crash(n) \/ AddsSome(n) \/ PoolTakes(n)
  <1>1. CASE UNCHANGED vars
    BY <1>1 DEF vars, moneyState, memory
  <1>2. ASSUME NEW n \in Node,
               OnPeerConnected(n) \/ Forward(n) \/ SyncEnd(n) \/ BroadcastBlock(n)
               \/ SaveStep(n) \/ (\E p \in Node : Dial(n, p))
               \/ \E tx \in Txs : BroadcastTx(n, tx)
        PROVE  UNCHANGED moneyState
    BY <1>2 DEF OnPeerConnected, Forward, SyncEnd, BroadcastBlock, SaveStep,
         SaveBlock, SaveHeight, SaveAccountState, EndSaveAccounts, Dial, Connect,
         ConnectFails, BroadcastTx, moneyState, memory
  <1>3. ASSUME NEW n \in Node, NEW s \in Session,
               Accept(n, s) \/ RefuseMessage(n, s) \/ Disconnect(n, s)
               \/ LoseConnection(n, s)
        PROVE  UNCHANGED moneyState
    BY <1>3 DEF Accept, RefuseMessage, Disconnect, LoseConnection, Disconnected,
         moneyState, memory
  <1>4. ASSUME NEW n \in Node, NEW tx \in Txs, SubmitTransaction(n, tx)
        PROVE  PoolTakes(n)
    BY <1>4 DEF SubmitTransaction, PoolTakes
  <1>5. ASSUME NEW n \in Node, NEW s \in Session, Handle(n, s)
        PROVE  UNCHANGED moneyState \/ AddsSome(n) \/ PoolTakes(n)
    <2>1. CASE OnNewBlockNext(n, s) \/ OnBlocks(n, s)
      BY <2>1, AcceptingSteps
    <2>2. CASE OnNewTxAccepted(n, s)
      <3>1. wire[s][n] \in Seq(Message) /\ wire[s][n] # << >>
        BY <2>2 DEF OnNewTxAccepted, Receives, TypeOK, Wires
      <3>2. Head(wire[s][n]) \in Message /\ Head(wire[s][n]).type = "NEW_TX"
        BY <2>2, <3>1 DEF OnNewTxAccepted, Receives
      <3>3. Head(wire[s][n]).tx \in Txs
        BY <3>2, MessagePayload
      <3> QED
        BY <2>2, <3>3 DEF OnNewTxAccepted, PoolTakes
    <2>3. CASE \/ OnNewBlockAhead(n, s) \/ OnNewBlockIgnored(n, s)
               \/ OnNewTxIgnored(n, s) \/ OnGetBlocks(n, s) \/ OnBlocksUseless(n, s)
      BY <2>3 DEF OnNewBlockAhead, OnNewBlockIgnored, OnNewTxIgnored, OnGetBlocks,
           OnBlocksUseless, moneyState, memory
    <2> QED
      BY <1>5, <2>1, <2>2, <2>3 DEF Handle
  <1>6. ASSUME NEW n \in Node, ProduceBlock(n) \/ SyncNext(n)
        PROVE  AddsSome(n)
    BY <1>6, AcceptingSteps
  <1>7. ASSUME NEW n \in Node
        PROVE  ~ SaveFails(n)
    BY DEF SaveFails
  <1>8. CASE Next
    <2>1. PICK n \in Node :
            \/ Start(n) \/ Crash(n)
            \/ MainStep(n) \/ SaveStep(n) \/ SaveFails(n) \/ Resume(n)
            \/ \E pp \in Node : Dial(n, pp)
            \/ \E s \in Session :
                  \/ Accept(n, s) \/ Handle(n, s)
                  \/ RefuseMessage(n, s) \/ Disconnect(n, s) \/ LoseConnection(n, s)
            \/ \E tx \in Txs : SubmitTransaction(n, tx) \/ BroadcastTx(n, tx)
      BY <1>8 DEF Next
    <2> QED
      BY <2>1, <1>2, <1>3, <1>4, <1>5, <1>6, <1>7 DEF MainStep, Resume
  <1> QED
    BY <1>1, <1>8

-----------------------------------------------------------------------------
(***************************************************************************)
(* A block that arrives applies                                            *)
(***************************************************************************)

\* The chain that a disk has recorded.
LEMMA RecordedChain ==
    ASSUME TypeOK, NEW n \in Node, DiskShape(n)
    PROVE  LET c == StoredChain(n, RecordedHeight(n))
           IN  /\ RecordedHeight(n) \in Nat /\ RecordedHeight(n) >= 1
               /\ c \in Seq(NetBlock) /\ Len(c) = RecordedHeight(n)
               /\ c[1] = GenesisBlock
               /\ \A i \in 2..RecordedHeight(n) :
                     c[i] = storedBlock[n][i-1] /\ c[i].index = i-1
  <1> DEFINE h == RecordedHeight(n)
             c == StoredChain(n, h)
  <1>1. h \in Nat /\ h >= 1 /\ h <= MaxHeight
    BY NetAssumption DEF RecordedHeight, TypeOK
  <1> HIDE DEF h
  <1>2. ASSUME NEW i \in 2..h
        PROVE  /\ i-1 \in 1..h-1 /\ i-1 \in Index
               /\ storedBlock[n][i-1] \in NetBlock /\ storedBlock[n][i-1].index = i-1
    <2>1. i-1 \in 1..h-1 /\ i-1 \in Index
      BY <1>1, NetAssumption DEF Index
    <2>2. storedBlock[n][i-1] \in NetBlock \cup {None}
      BY <2>1 DEF TypeOK
    <2> QED
      BY <2>1, <2>2 DEF DiskShape, Follows, h
  <1>3. /\ c = [i \in 1..h |-> c[i]] /\ c[1] = GenesisBlock
        /\ \A i \in 2..h : c[i] = storedBlock[n][i-1]
    BY <1>1 DEF StoredChain
  <1> HIDE DEF c
  <1>4. \A i \in 1..h : c[i] \in NetBlock
    <2>1. \A i \in 1..h : i = 1 \/ i \in 2..h
      BY <1>1
    <2> QED
      BY <1>2, <1>3, <2>1, GenesisType
  <1>5. c \in Seq(NetBlock) /\ Len(c) = h
    BY <1>1, <1>3, <1>4
  <1> QED
    BY <1>1, <1>2, <1>3, <1>5 DEF c, h

\* An official block that fits on the chain of an idle node stands, on the disk
\* of its producer, on the very same chain.
LEMMA SameHistory ==
    ASSUME TypeOK, OneHistory, NEW n \in Node, up[n], saving[n] = "done",
           NEW b, Official(b), b.index = Len(chain[n])
    PROVE  \E p \in Node :
             LET c == StoredChain(p, RecordedHeight(p))
             IN  /\ Len(chain[n]) + 1 \in 1..Len(c) /\ c[Len(chain[n]) + 1] = b
                 /\ SubSeq(c, 1, Len(chain[n])) = chain[n]
  <1> DEFINE h == Len(chain[n])
             p == getProducer(h)
             H == RecordedHeight(p)
             c == StoredChain(p, H)
  <1>1. /\ NodeShape(n) /\ StoredOfficial(n) /\ LiveShape
        /\ h \in Nat /\ h >= 1 /\ chain[n] \in Seq(NetBlock)
    BY NetAssumption DEF OneHistory, LiveShape, TypeOK
  <1>2. p \in Node /\ h < H /\ storedBlock[p][h] = b
    BY DEF Official
  <1>3. /\ H \in Nat /\ c \in Seq(NetBlock) /\ Len(c) = H /\ c[1] = GenesisBlock
        /\ \A i \in 2..H : c[i] = storedBlock[p][i-1] /\ c[i].index = i-1
    BY <1>2, RecordedChain DEF OneHistory, NodeShape
  <1>4. \A i \in 1..H-1 : Official(storedBlock[p][i])
    BY <1>2 DEF OneHistory, StoredOfficial
  <1>5. \A i \in 2..h : Official(chain[n][i])
    BY <1>1, IdleChainOfficial
  <1>6. chain[n][1] = GenesisBlock /\ \A i \in 2..h : chain[n][i].index = i-1
    BY <1>1 DEF NodeShape, ChainShape, Follows
  <1> HIDE DEF c, H, p, h
  <1>7. ASSUME NEW i \in 1..h
        PROVE  c[i] = chain[n][i]
    <2>1. CASE i = 1
      BY <1>3, <1>6, <2>1
    <2>2. CASE i # 1
      <3>1. i \in 2..h /\ i \in 2..H /\ i-1 \in 1..H-1
        BY <1>1, <1>2, <1>3, <2>2
      <3>2. /\ Official(c[i]) /\ c[i].index = i-1
            /\ Official(chain[n][i]) /\ chain[n][i].index = i-1
        BY <1>3, <1>4, <1>5, <1>6, <3>1
      <3> QED
        BY <3>2 DEF Official
    <2> QED
      BY <2>1, <2>2
  <1>8. h \in 0..Len(c) /\ h + 1 \in 1..Len(c) /\ h + 1 \in 2..H /\ (h + 1) - 1 = h
    BY <1>1, <1>2, <1>3
  <1>9. SubSeq(c, 1, h) = chain[n]
    <2>1. /\ SubSeq(c, 1, h) \in Seq(NetBlock) /\ Len(SubSeq(c, 1, h)) = h
          /\ \A i \in 1..h : SubSeq(c, 1, h)[i] = c[i]
      BY <1>3, <1>8, Prefix
    <2> QED
      BY <1>1, <1>7, <2>1, SameElements DEF h
  <1>10. c[h + 1] = b
    BY <1>2, <1>3, <1>8
  <1> QED
    BY <1>2, <1>8, <1>9, <1>10 DEF c, H, h

\* Whatever thread adds a block to the chain of a node, it applies there.
LEMMA AddedApplies ==
    ASSUME TypeOK, OneHistory, ExecutionInv, NEW n \in Node, NEW b, NEW t,
           Adds(n, b, t)
    PROVE  BlockApplies(ReplayChain(chain[n]), b.transactions)
  <1>1. /\ up[n] /\ saving[n] = "done" /\ MemoryExecutes(n)
        /\ b.index = Len(chain[n]) /\ chain[n] \in Seq(NetBlock)
    BY DEF Adds, BlockAccepted, CanAdd, Follows, getHeight, ExecutionInv, TypeOK
  <1>2. CASE b.transactions = getTransactionsForBlock(mempool[n], MaxTxsPerBlock)
    <2>1. ReplayChain(chain[n]) \in Funded(GenesisSupply)
      BY <1>1, GenesisType, ReplayedOneMore
    <2>2. Exact(mempool[n], ReplayChain(chain[n]))
      BY <1>1 DEF MemoryExecutes
    <2>3. MaxTxsPerBlock \in Nat /\ GenesisSupply < Word
      BY NetAssumption, GenesisAccounts
    <2> QED
      BY <1>2, <2>1, <2>2, <2>3, MinedApplies
  <1>3. CASE Delivered(n, b)
    <2>1. Official(b)
      BY <1>3, DeliveredOfficial DEF OneHistory
    <2> DEFINE h == Len(chain[n])
    <2>2. PICK p \in Node :
             /\ h + 1 \in 1..Len(StoredChain(p, RecordedHeight(p)))
             /\ StoredChain(p, RecordedHeight(p))[h + 1] = b
             /\ SubSeq(StoredChain(p, RecordedHeight(p)), 1, h) = chain[n]
      BY <1>1, <2>1, SameHistory
    <2>3. Executes(StoredChain(p, RecordedHeight(p)))
      BY DEF ExecutionInv, DiskExecutes
    <2>4. (h + 1) - 1 = h
      BY <1>1
    <2> QED
      BY <2>2, <2>3, <2>4 DEF Executes
  <1> QED
    BY <1>2, <1>3 DEF Adds

-----------------------------------------------------------------------------
(***************************************************************************)
(* The invariant is kept                                                   *)
(***************************************************************************)

\* The domains of the two maps.
LEMMA DomainStep ==
    ASSUME DiskMayFail = FALSE, TypeOK, OneHistory, ExecutionInv, [Next]_vars
    PROVE  DOMAIN accounts' = Node /\ DOMAIN mempool' = Node
  <1>1. LiveShape /\ \A n \in Node : ThreadShape(n)
    BY DEF OneHistory, NodeShape
  <1>2. DOMAIN accounts = Node /\ DOMAIN mempool = Node
    BY DEF ExecutionInv
  <1>3. CASE UNCHANGED moneyState
    BY <1>2, <1>3 DEF moneyState
  <1>4. ASSUME NEW n \in Node, Start(n) \/ Crash(n) \/ AddsSome(n) \/ PoolTakes(n)
        PROVE  DOMAIN accounts' = Node /\ DOMAIN mempool' = Node
    BY <1>2, <1>4 DEF Start, Crash, AddsSome, Adds, BlockAccepted, PoolTakes
  <1> QED
    BY <1>1, <1>3, <1>4, MoneySteps

\* A node whose memory does not move.
LEMMA MemoryFrame ==
    ASSUME NEW m \in Node, MemoryExecutes(m),
           up'[m] = up[m], chain'[m] = chain[m], accounts'[m] = accounts[m],
           mempool'[m] = mempool[m]
    PROVE  MemoryExecutes(m)'
  BY DEF MemoryExecutes

\* A node that starts replays what its disk has recorded.
LEMMA StartExecutes ==
    ASSUME TypeOK, OneHistory, ExecutionInv, NEW n \in Node, Start(n)
    PROVE  MemoryExecutes(n)'
  <1>1. PICK k \in 1..MaxHeight :
            /\ RecoversTo(n, k)
            /\ chain' = [chain EXCEPT ![n] = StoredChain(n, k)]
            /\ accounts' = [accounts EXCEPT ![n] = ReplayChain(StoredChain(n, k))]
    BY DEF Start
  <1>2. k = RecordedHeight(n)
    BY <1>1, RecoversExactly DEF OneHistory, NodeShape
  <1>3. PICK c : c = StoredChain(n, k)
    OBVIOUS
  <1>4. Executes(c)
    BY <1>2, <1>3 DEF ExecutionInv, DiskExecutes
  <1>5. chain'[n] = c /\ accounts'[n] = ReplayChain(c) /\ mempool'[n] = EmptyMempool
    BY <1>1, <1>3 DEF Start, TypeOK, ExecutionInv
  <1>6. Exact(EmptyMempool, ReplayChain(c))
    BY EmptyExact
  <1> QED
    BY <1>4, <1>5, <1>6 DEF MemoryExecutes

\* A node that adds a block: chain, accounts and pool move together.
LEMMA AddExecutes ==
    ASSUME TypeOK, TypeOK', OneHistory, ExecutionInv, NEW n \in Node, NEW b, NEW t,
           Adds(n, b, t)
    PROVE  MemoryExecutes(n)'
  <1>1. /\ up[n] /\ MemoryExecutes(n) /\ chain[n] \in Seq(NetBlock)
        /\ chain' = [chain EXCEPT ![n] = Append(@, b)]
        /\ accounts' = [accounts EXCEPT ![n] = applyBlock(@, b.transactions)]
        /\ mempool' = [mempool EXCEPT ![n] =
              revalidate(removeMinedTransactions(@, b.transactions), accounts'[n])]
    BY DEF Adds, BlockAccepted, ExecutionInv, TypeOK
  <1>2. PICK c, acc, p : c = chain[n] /\ acc = accounts[n] /\ p = mempool[n]
    OBVIOUS
  <1>3. /\ Executes(c) /\ acc = ReplayChain(c) /\ Exact(p, acc) /\ c \in Seq(NetBlock)
    BY <1>1, <1>2 DEF MemoryExecutes
  <1>4. /\ chain'[n] = Append(c, b) /\ accounts'[n] = applyBlock(acc, b.transactions)
        /\ mempool'[n] = revalidate(removeMinedTransactions(p, b.transactions),
                                    applyBlock(acc, b.transactions))
    BY <1>1, <1>2 DEF ExecutionInv, TypeOK
  <1>5. b \in NetBlock
    <2>1. Append(c, b) \in Seq(NetBlock)
      <3>1. chain' \in [Node -> Seq(NetBlock)]
        BY Zenon DEF TypeOK
      <3>2. chain'[n] \in Seq(NetBlock)
        BY <3>1
      <3> QED
        BY <1>4, <3>2, Zenon
    <2>2. Append(c, b)[Len(c) + 1] = b /\ Len(c) + 1 \in 1..Len(Append(c, b))
      BY <1>3
    <2> QED
      BY <2>1, <2>2
  <1>6. BlockApplies(ReplayChain(c), b.transactions)
    BY <1>2, AddedApplies
  <1>7. Executes(Append(c, b))
    BY <1>3, <1>5, <1>6, ExecutesOneMore
  <1>8. /\ ReplayChain(Append(c, b)) = applyBlock(acc, b.transactions)
        /\ applyBlock(acc, b.transactions) \in Accounts
    BY <1>3, <1>5, ReplayedOneMore, AfterBlockFunded DEF AfterBlock, Funded
  <1>9. Exact(revalidate(removeMinedTransactions(p, b.transactions),
                         applyBlock(acc, b.transactions)),
              applyBlock(acc, b.transactions))
    <2>1. p \in Pools /\ NoTies(p.pending)
      BY <1>3 DEF Exact
    <2>2. PICK q : q = removeMinedTransactions(p, b.transactions)
      OBVIOUS
    <2>3. q \in Pools /\ NoTies(q.pending)
      BY <2>1, <2>2, MinedRemoved
    <2> QED
      BY <1>8, <2>2, <2>3, RevalidateExact
  <1> QED
    BY <1>4, <1>7, <1>8, <1>9 DEF MemoryExecutes

\* Every step keeps the memory of every node.
LEMMA MemoryStep ==
    ASSUME DiskMayFail = FALSE, TypeOK, TypeOK', OneHistory, ExecutionInv,
           [Next]_vars, NEW m \in Node
    PROVE  MemoryExecutes(m)'
  <1>1. LiveShape /\ \A n \in Node : ThreadShape(n)
    BY DEF OneHistory, NodeShape
  <1>2. /\ MemoryExecutes(m) /\ DOMAIN accounts = Node /\ DOMAIN mempool = Node
    BY DEF ExecutionInv
  <1>3. CASE UNCHANGED moneyState
    BY <1>2, <1>3, MemoryFrame DEF moneyState
  <1>4. ASSUME NEW n \in Node, m # n,
               Start(n) \/ Crash(n) \/ AddsSome(n) \/ PoolTakes(n)
        PROVE  MemoryExecutes(m)'
    <2>1. /\ up'[m] = up[m] /\ chain'[m] = chain[m] /\ accounts'[m] = accounts[m]
          /\ mempool'[m] = mempool[m]
      <3>1. CASE Start(n) \/ Crash(n)
        BY <1>2, <1>4, <3>1 DEF Start, Crash, TypeOK
      <3>2. CASE AddsSome(n)
        BY <1>2, <1>4, <3>2 DEF AddsSome, Adds, BlockAccepted, TypeOK
      <3>3. CASE PoolTakes(n)
        BY <1>2, <1>4, <3>3 DEF PoolTakes
      <3> QED
        BY <1>4, <3>1, <3>2, <3>3
    <2> QED
      BY <1>2, <2>1, MemoryFrame
  <1>5. CASE Start(m)
    BY <1>5, StartExecutes
  <1>6. CASE Crash(m)
    BY <1>6 DEF Crash, MemoryExecutes, TypeOK
  <1>7. CASE AddsSome(m)
    BY <1>7, AddExecutes DEF AddsSome
  <1>8. CASE PoolTakes(m)
    <2>1. PICK tx \in Txs :
            mempool' = [mempool EXCEPT ![m] = addTransaction(@, accounts[m], tx)]
      BY <1>8 DEF PoolTakes
    <2>2. /\ up'[m] = up[m] /\ chain'[m] = chain[m] /\ accounts'[m] = accounts[m]
          /\ mempool'[m] = addTransaction(mempool[m], accounts[m], tx)
      BY <1>2, <1>8, <2>1 DEF PoolTakes
    <2>3. CASE up[m]
      <3>1. /\ Executes(chain[m]) /\ accounts[m] = ReplayChain(chain[m])
            /\ Exact(mempool[m], accounts[m]) /\ chain[m] \in Seq(NetBlock)
        BY <1>2, <2>3 DEF MemoryExecutes, TypeOK
      <3>2. accounts[m] \in Accounts
        BY <3>1, GenesisType, ReplayedOneMore DEF Funded
      <3>3. Exact(addTransaction(mempool[m], accounts[m], tx), accounts[m])
        BY <3>1, <3>2, AddExact
      <3> QED
        BY <2>2, <3>1, <3>3 DEF MemoryExecutes
    <2>4. CASE ~ up[m]
      BY <2>2, <2>4 DEF MemoryExecutes
    <2> QED
      BY <2>3, <2>4
  <1> QED
    BY <1>1, <1>3, <1>4, <1>5, <1>6, <1>7, <1>8, MoneySteps

\* Every step keeps what is recorded, and a height is recorded only for a
\* chain that executes.
LEMMA DiskStep ==
    ASSUME DiskMayFail = FALSE, TypeOK, OneHistory, ExecutionInv, [Next]_vars,
           NEW m \in Node
    PROVE  DiskExecutes(m)'
  <1>1. LiveShape /\ \A n \in Node : NodeShape(n) /\ ThreadShape(n)
    BY DEF OneHistory, NodeShape
  <1> DEFINE h == RecordedHeight(m)
  <1>2. \A i \in Index : i < h => storedBlock'[m][i] = storedBlock[m][i]
    BY <1>1, RecordedStable
  <1>3. h \in Nat /\ h >= 1 /\ h <= MaxHeight /\ MaxHeight \in Nat
    BY NetAssumption DEF RecordedHeight, TypeOK
  <1>4. ASSUME RecordedHeight(m)' = h
        PROVE  DiskExecutes(m)'
    <2>1. StoredChain(m, RecordedHeight(m))' = StoredChain(m, h)
      <3>1. ASSUME NEW i \in 1..h
            PROVE  (IF i = 1 THEN GenesisBlock ELSE storedBlock'[m][i-1])
                     = IF i = 1 THEN GenesisBlock ELSE storedBlock[m][i-1]
        <4>1. i # 1 => i-1 \in Index /\ i-1 < h
          BY <1>3 DEF Index
        <4> QED
          BY <1>2, <4>1
      <3> HIDE DEF h
      <3> QED
        BY <1>4, <3>1 DEF StoredChain
    <2>2. Executes(StoredChain(m, h))
      BY DEF ExecutionInv, DiskExecutes
    <2> QED
      BY <2>1, <2>2 DEF DiskExecutes
  <1>5. ASSUME NEW n \in Node, SaveHeight(n), m # n
        PROVE  RecordedHeight(m)' = h
    BY <1>5, HeightSaved
  <1>6. CASE SaveHeight(m)
    <2>1. /\ h \in Index /\ h = Len(chain[m]) - 1 /\ UNCHANGED storedBlock
          /\ storedBlock[m][h] = getLatestBlock(chain[m])
          /\ RecordedHeight(m)' = h + 1
      BY <1>6, HeightSaved
    <2>2. /\ saving[m] = "height" /\ up[m] /\ chain[m] \in Seq(NetBlock)
          /\ Len(chain[m]) \in Nat
      BY <1>1, <1>6 DEF SaveHeight, LiveShape, TypeOK
    <2>3. /\ chain[m][1] = GenesisBlock
          /\ \A i \in 1..h-1 : storedBlock[m][i] = chain[m][i+1]
      BY <1>1, <2>2 DEF NodeShape, ChainShape, MemoryMatchesDisk
    <2>4. chain[m] = [i \in 1..Len(chain[m]) |-> chain[m][i]] /\ Len(chain[m]) = h + 1
      BY <1>3, <2>1, <2>2, ListIsFunction
    <2>5. ASSUME NEW i \in 1..h+1
          PROVE  chain[m][i] = IF i = 1 THEN GenesisBlock ELSE storedBlock[m][i-1]
      <3> HIDE DEF h
      <3>1. CASE i = 1
        BY <2>3, <3>1
      <3>2. CASE i = h + 1 /\ i # 1
        BY <1>3, <2>1, <2>4, <3>2 DEF getLatestBlock
      <3>3. CASE i # 1 /\ i # h + 1
        <4>1. i-1 \in 1..h-1 /\ (i-1)+1 = i
          BY <1>3, <3>3
        <4> QED
          BY <2>3, <3>3, <4>1
      <3> QED
        BY <3>1, <3>2, <3>3
    <2>6. StoredChain(m, RecordedHeight(m))' = chain[m]
      <3> HIDE DEF h
      <3> QED
        BY <2>1, <2>4, <2>5 DEF StoredChain
    <2>7. Executes(chain[m])
      BY <2>2 DEF ExecutionInv, MemoryExecutes
    <2> QED
      BY <2>6, <2>7 DEF DiskExecutes
  <1>7. UNCHANGED storedHeight \/ \E n \in Node : SaveHeight(n)
    <2>1. ASSUME NEW n \in Node,
                 \/ Start(n) \/ Crash(n) \/ AddsSome(n) \/ BroadcastBlock(n)
                 \/ SaveBlock(n) \/ EndSaveAccounts(n) \/ SyncEnd(n)
          PROVE  UNCHANGED storedHeight
      BY <2>1 DEF Start, Crash, AddsSome, Adds, BroadcastBlock, SaveBlock,
           EndSaveAccounts, SyncEnd, disk
    <2> QED
      BY <1>1, <2>1, StepKinds DEF blockState
  <1>8. UNCHANGED storedHeight => RecordedHeight(m)' = h
    BY DEF RecordedHeight
  <1> HIDE DEF h
  <1> QED
    BY <1>4, <1>5, <1>6, <1>7, <1>8

\* Nobody runs and nothing is recorded at first.
LEMMA InitExecutes ==
    ASSUME Init, TypeOK, OneHistory
    PROVE  ExecutionInv
  <1>1. ASSUME NEW n \in Node
        PROVE  MemoryExecutes(n) /\ DiskExecutes(n)
    <2>1. ~ up[n] /\ RecordedHeight(n) = 1
      BY DEF Init, RecordedHeight
    <2>2. PICK c : c = StoredChain(n, RecordedHeight(n))
      OBVIOUS
    <2>3. c \in Seq(NetBlock) /\ Len(c) = 1 /\ c[1] = GenesisBlock
      BY <2>1, <2>2, RecordedChain DEF OneHistory, NodeShape
    <2> QED
      BY <2>1, <2>2, <2>3, GenesisExecutes DEF MemoryExecutes, DiskExecutes
  <1> QED
    BY <1>1 DEF ExecutionInv, Init

\* Every block of every running node's chain applied when it was accepted,
\* although produceBlock, onNewBlock, onBlocks and recoverFromStorage ignore
\* what applyBlock returns, and the accounts are those the chain spells out.
THEOREM AccountsFollowChain ==
    ASSUME DiskMayFail = FALSE
    PROVE  Spec => []ChainExecutes
  <1>1. Init /\ TypeOK /\ OneHistory => ExecutionInv
    BY InitExecutes
  <1>2. TypeOK /\ TypeOK' /\ OneHistory /\ ExecutionInv /\ [Next]_vars => ExecutionInv'
    <2> SUFFICES ASSUME TypeOK, TypeOK', OneHistory, ExecutionInv, [Next]_vars
                 PROVE  ExecutionInv'
      OBVIOUS
    <2>1. (DOMAIN accounts = Node /\ DOMAIN mempool = Node)'
      BY DomainStep
    <2>2. ASSUME NEW n \in Node
          PROVE  MemoryExecutes(n)' /\ DiskExecutes(n)'
      BY MemoryStep, DiskStep
    <2> QED
      BY <2>1, <2>2 DEF ExecutionInv
  <1>3. ExecutionInv => ChainExecutes
    BY DEF ExecutionInv, MemoryExecutes, ChainExecutes
  <1> QED
    BY <1>1, <1>2, <1>3, TypeCorrect, History, PTL DEF Spec

=============================================================================
