--------------------------- MODULE TitanNetProofs ---------------------------
(***************************************************************************)
(* The network never forks and never forgets: proofs about TitanNet, for   *)
(* any number of nodes, authorities, peers, clock values, transactions,    *)
(* crashes and lost connections.  The types hold always; the rest as long  *)
(* as LevelDB takes every write (DiskMayFail = FALSE).                     *)
(*                                                                         *)
(* The argument.  NodeShape relates the chain of one node to its disk and  *)
(* its threads and needs nothing from the other nodes.  From it, what is   *)
(* below a recorded height never changes, so a block that is Official once *)
(* stays so.  Then everything that travels, or is held by a thread that is *)
(* going to send it or use it, is official, because a block is sent only   *)
(* after the write of the height.                                          *)
(*                                                                         *)
(* TitanNet implements BlockLog.  What is recorded never changes, so the   *)
(* only step that shows in the log is saveChainHeight.  By TipOwned the    *)
(* block that it makes count is either the node's own to produce, and the  *)
(* step writes a new index, or the one that its producer has recorded, and *)
(* the node has learnt it.                                                 *)
(*                                                                         *)
(* The network never stalls, if every authority is connected with everyone *)
(* (CloseKnit).  By NothingLost, whatever an authority p has produced and  *)
(* another node n lacks is on its way over every connection of the two: n  *)
(* is going to ask p for it or has asked, the answer or an announcement is *)
(* travelling, onBlocks has it in hand, or p has yet to broadcast it.  At  *)
(* rest nothing is on its way, so everyone has everything, and the next    *)
(* authority has what it takes to produce.                                 *)
(***************************************************************************)
EXTENDS TitanNet, TLAPS

-----------------------------------------------------------------------------
(***************************************************************************)
(* Types of messages, handlers and wires                                   *)
(***************************************************************************)

\* The four constructors build messages.
LEMMA MessageTypes ==
    /\ \A b \in NetBlock : NewBlock(b) \in Message
    /\ \A tx \in Txs : NewTx(tx) \in Message
    /\ \A h \in Nat : GetBlocks(h) \in Message
    /\ \A bs \in Seq(NetBlock) : Blocks(bs) \in Message
  BY DEF Message, NewBlock, NewTx, GetBlocks, Blocks

\* What the type of a message says about its payload.
LEMMA MessagePayload ==
    ASSUME NEW m \in Message
    PROVE  /\ m.type = "NEW_BLOCK" => m.block \in NetBlock
           /\ m.type = "NEW_TX" => m.tx \in Txs
           /\ m.type = "GET_BLOCKS" => m.from \in Nat
           /\ m.type = "BLOCKS" => m.blocks \in Seq(NetBlock)
  BY DEF Message

\* The four constructors build handler states.
LEMMA HandlerTypes ==
    /\ Idle \in Handler
    /\ \A s \in Session : Greeting(s) \in Handler
    /\ \A m \in Message, s \in Session : Forwarding(m, s) \in Handler
    /\ \A bs \in Seq(NetBlock) : Syncing(bs) \in Handler
  BY DEF Handler, Idle, Greeting, Forwarding, Syncing

\* What the kind of a handler says about its fields.
LEMMA HandlerPayload ==
    ASSUME NEW h \in Handler
    PROVE  /\ h.kind = "greet" => h.session \in Session
           /\ h.kind = "forward" => h.msg \in Message /\ h.from \in Session
           /\ h.kind = "sync" => h.blocks \in Seq(NetBlock)
  BY DEF Handler, Idle

\* Sending a message keeps the wires well typed.
LEMMA SentType ==
    ASSUME NEW w \in Wires, NEW n \in Node, NEW S, NEW m \in Message
    PROVE  Sent(w, n, S, m) \in Wires
  BY DEF Wires, Sent

\* So does taking a message off a wire that has one ...
LEMMA ConsumedType ==
    ASSUME NEW w \in Wires, NEW n \in Node, NEW s \in Session, w[s][n] # << >>
    PROVE  Consumed(w, n, s) \in Wires
  BY DEF Wires, Consumed

\* ... and losing what is on its way to a node.
LEMMA DiscardedType ==
    ASSUME NEW w \in Wires, NEW n \in Node, NEW S
    PROVE  Discarded(w, n, S) \in Wires
  BY DEF Wires, Discarded

-----------------------------------------------------------------------------
(***************************************************************************)
(* Type correctness                                                        *)
(***************************************************************************)

\* A block that its producer's addBlock accepts is well typed.
LEMMA CreatedType ==
    ASSUME NEW prev \in Block, NEW n \in Node, NEW now \in Stamps, NEW txs,
           verifyBlock(createBlock(n, prev, txs, now))
    PROVE  createBlock(n, prev, txs, now) \in Block
  <1> DEFINE b == createBlock(n, prev, txs, now)
  <1>1. txs \in Seq(Txs)
    <2>1. b.transactions = txs
      BY DEF createBlock, SignedBlock
    <2>2. b.transactions \in Seq({tx \in Txs : verifyTransaction(tx)})
      BY DEF verifyBlock
    <2> QED
      BY <2>1, <2>2
  <1>2. /\ prev.index + 1 \in Nat /\ now \in Nat /\ n \in Key
        /\ prev.hash \in Hash
    BY NetAssumption DEF Block
  <1>3. computeTransactionRootHash(txs) \in Seq({tx.hash : tx \in Txs})
    BY <1>1 DEF computeTransactionRootHash
  <1>4. Append(prev.hash,
               [index |-> prev.index + 1, timestamp |-> now, validator |-> n,
                transactions |-> computeTransactionRootHash(txs)]) \in Hash
    <2>1. [index |-> prev.index + 1, timestamp |-> now, validator |-> n,
           transactions |-> computeTransactionRootHash(txs)] \in Header
      BY <1>2, <1>3 DEF Header
    <2> QED
      BY <1>2, <2>1 DEF Hash
  <1> QED
    BY <1>1, <1>2, <1>4 DEF createBlock, SignedBlock, sign, computeBlockHash, Block

\* The genesis block is well typed and within every bound.
LEMMA GenesisType == GenesisBlock \in NetBlock /\ GenesisBlock.index = 0
  <1>1. << >> \in Seq(Txs) /\ << >> \in Hash
    BY DEF Hash
  <1>2. GenesisValidator \in Key /\ MaxHeight \in Nat /\ MaxHeight > 0
    BY PoAAssumption, NetAssumption
  <1> DEFINE root == computeTransactionRootHash(<< >>)
             header == [index |-> 0, timestamp |-> 0,
                        validator |-> GenesisValidator, transactions |-> root]
  <1>3. root \in Seq({tx.hash : tx \in Txs})
    BY <1>1 DEF computeTransactionRootHash
  <1>4. Append(<< >>, header) \in Hash
    <2>1. header \in Header
      BY <1>2, <1>3 DEF Header
    <2> HIDE DEF header
    <2> QED
      BY <1>1, <2>1 DEF Hash
  <1> QED
    BY <1>1, <1>2, <1>4
    DEF GenesisBlock, SignedBlock, sign, computeBlockHash, ZeroHash, Block, NetBlock

\* A running node has a latest block.
LEMMA LatestType ==
    ASSUME TypeOK, LiveShape, NEW n \in Node, up[n]
    PROVE  getLatestBlock(chain[n]) \in NetBlock
  <1>1. Len(chain[n]) \in 1..MaxHeight /\ chain[n] \in Seq(NetBlock)
    BY DEF TypeOK, LiveShape
  <1>2. Len(chain[n]) \in 1..Len(chain[n])
    BY <1>1, NetAssumption
  <1> QED
    BY <1>1, <1>2 DEF getLatestBlock

\* A node that accepts a block within the bound still has a well-typed chain.
LEMMA AcceptedType ==
    ASSUME TypeOK, LiveShape, NEW n \in Node, up[n], NEW b \in NetBlock,
           NEW t \in {"main", "io"}, BlockAccepted(n, b, t),
           up' = up, starts' = starts,
           \A m \in Node : m # n => /\ producing'[m] = producing[m]
                                    /\ handler'[m] = handler[m]
    PROVE  /\ chain' \in [Node -> Seq(NetBlock)]
           /\ mutex' \in [Node -> {"free", "main", "io"}]
           /\ saving' \in [Node -> {"done", "block", "height", "accounts"}]
           /\ LiveShape'
  <1>1. b.index = Len(chain[n]) /\ b.index < MaxHeight /\ MaxHeight \in Nat
    BY NetAssumption DEF BlockAccepted, CanAdd, Follows, getHeight, NetBlock
  <1>2. chain' = [chain EXCEPT ![n] = Append(@, b)]
    BY DEF BlockAccepted
  <1>3. Len(chain'[n]) = Len(chain[n]) + 1
    BY <1>2 DEF TypeOK
  <1>4. \A m \in Node : m # n => /\ chain'[m] = chain[m]
                                 /\ saving'[m] = saving[m]
                                 /\ mutex'[m] = mutex[m]
    BY <1>2 DEF TypeOK, BlockAccepted
  <1>5. LiveShape'
    <2> SUFFICES ASSUME NEW m \in Node
                 PROVE  /\ up'[m] => Len(chain'[m]) \in 1..MaxHeight
                                       /\ starts'[m] >= 1
                        /\ ~ up'[m] => /\ saving'[m] = "done"
                                       /\ mutex'[m] = "free"
                                       /\ producing'[m] = None
                                       /\ handler'[m] = Idle
                                       /\ chain'[m] = << >>
      BY DEF LiveShape
    <2>1. CASE m = n
      <3>1. Len(chain[n]) \in Nat
        BY DEF TypeOK
      <3> QED
        BY <1>1, <1>3, <2>1, <3>1 DEF LiveShape
    <2>2. CASE m # n
      BY <1>4, <2>2 DEF LiveShape
    <2> QED
      BY <2>1, <2>2
  <1> QED
    BY <1>2, <1>5 DEF TypeOK, BlockAccepted

\* Every step keeps the types and the shape of live and dead nodes.
LEMMA TypeStep == TypeOK /\ LiveShape /\ [Next]_vars => TypeOK' /\ LiveShape'
  <1> SUFFICES ASSUME TypeOK, LiveShape, [Next]_vars
               PROVE  TypeOK' /\ LiveShape'
    OBVIOUS
  <1> USE NetAssumption
  <1>1. ASSUME NEW n \in Node, Start(n)
        PROVE  TypeOK' /\ LiveShape'
    <2>1. PICK k \in 1..MaxHeight :
              /\ RecoversTo(n, k)
              /\ chain' = [chain EXCEPT ![n] = StoredChain(n, k)]
      BY <1>1 DEF Start
    <2>2. \A i \in 2..k : i-1 \in Index /\ storedBlock[n][i-1] \in NetBlock
      <3> SUFFICES ASSUME NEW i \in 2..k
                   PROVE  i-1 \in Index /\ storedBlock[n][i-1] \in NetBlock
        OBVIOUS
      <3>1. i-1 \in Index
        BY DEF Index
      <3>2. StoredChain(n, k)[i] = storedBlock[n][i-1]
        BY DEF StoredChain
      <3>3. storedBlock[n][i-1] # None
        BY <2>1, <3>2 DEF RecoversTo
      <3> QED
        BY <3>1, <3>3 DEF TypeOK
    <2>3. StoredChain(n, k) \in Seq(NetBlock) /\ Len(StoredChain(n, k)) = k
      <3>1. \A i \in 1..k : (IF i = 1 THEN GenesisBlock ELSE storedBlock[n][i-1])
                               \in NetBlock
        BY <2>2, GenesisType
      <3> QED
        BY <3>1 DEF StoredChain
    <2>4. chain' \in [Node -> Seq(NetBlock)]
      BY <2>1, <2>3 DEF TypeOK
    <2>5. LiveShape'
      BY <1>1, <2>1, <2>3 DEF Start, LiveShape, TypeOK, threads
    <2>6. UNCHANGED <<storedBlock, storedHeight, mutex, saving, producing, handler,
                      submitted, backlog, open, wire, drops>>
      BY <1>1 DEF Start, disk, threads
    <2>7. /\ up' \in [Node -> BOOLEAN] /\ starts' \in [Node -> Nat]
          /\ dialing' \in [Node -> SUBSET Node]
      BY <1>1, NetAssumption DEF Start, TypeOK
    <2>8. ASSUME NEW m \in Node
          PROVE  starts'[m] <= MaxStarts[m] /\ dialing'[m] \subseteq Peers[m]
      <3>1. starts[n] \in Nat /\ MaxStarts[n] \in Nat /\ starts[n] < MaxStarts[n]
        BY <1>1, NetAssumption DEF Start, TypeOK
      <3>2. starts'[m] = (IF m = n THEN starts[n] + 1 ELSE starts[m])
        BY <1>1 DEF Start, TypeOK
      <3>3. dialing'[m] = (IF m = n THEN Peers[n] ELSE dialing[m])
        BY <1>1 DEF Start, TypeOK
      <3> QED
        BY <3>1, <3>2, <3>3 DEF TypeOK
    <2>9. TypeOK'
      BY <2>4, <2>6, <2>7, <2>8 DEF TypeOK
    <2> QED
      BY <2>5, <2>9
  <1>2. ASSUME NEW n \in Node, Crash(n)
        PROVE  TypeOK' /\ LiveShape'
    <2>1. wire' \in Wires
      BY <1>2, DiscardedType DEF Crash, TypeOK
    <2>2. LiveShape'
      BY <1>2 DEF Crash, TypeOK, LiveShape
    <2> QED
      BY <1>2, <2>1, <2>2, HandlerTypes DEF Crash, TypeOK, disk
  <1>3. ASSUME NEW n \in Node, ProduceBlock(n)
        PROVE  TypeOK' /\ LiveShape'
    <2> DEFINE txs == getTransactionsForBlock(mempool[n], MaxTxsPerBlock)
    <2>1. PICK now \in Stamps :
              LET b == createBlock(n, getLatestBlock(chain[n]), txs, now)
              IN  /\ BlockAccepted(n, b, "main")
                  /\ producing' = [producing EXCEPT ![n] = b]
      BY <1>3 DEF ProduceBlock
    <2> DEFINE b == createBlock(n, getLatestBlock(chain[n]), txs, now)
    <2>2. up[n] /\ getLatestBlock(chain[n]) \in Block
      <3>1. up[n]
        BY <1>3 DEF ProduceBlock
      <3> QED
        BY <3>1, LatestType DEF NetBlock
    <2>3. verifyBlock(b) /\ b.index = Len(chain[n])
      BY <2>1 DEF BlockAccepted, CanAdd, Follows, getHeight
    <2>4. b \in NetBlock
      BY <1>3, <2>2, <2>3, CreatedType DEF ProduceBlock, NetBlock
    <2>5. /\ up' = up /\ starts' = starts /\ handler' = handler
          /\ \A m \in Node : m # n => producing'[m] = producing[m]
      BY <1>3, <2>1 DEF ProduceBlock, TypeOK
    <2> HIDE DEF b
    <2>6. /\ chain' \in [Node -> Seq(NetBlock)]
          /\ mutex' \in [Node -> {"free", "main", "io"}]
          /\ saving' \in [Node -> {"done", "block", "height", "accounts"}]
          /\ LiveShape'
      BY <2>1, <2>2, <2>4, <2>5, AcceptedType DEF b
    <2>7. producing' \in [Node -> NetBlock \cup {None}]
      BY <2>1, <2>4 DEF TypeOK, b
    <2> QED
      BY <1>3, <2>6, <2>7 DEF ProduceBlock, TypeOK, disk, network
  <1>4. ASSUME NEW n \in Node, BroadcastBlock(n)
        PROVE  TypeOK' /\ LiveShape'
    <2>1. NewBlock(producing[n]) \in Message
      BY <1>4, MessageTypes DEF BroadcastBlock, TypeOK
    <2>2. wire' \in Wires
      BY <1>4, <2>1, SentType DEF BroadcastBlock, TypeOK
    <2> QED
      BY <1>4, <2>2 DEF BroadcastBlock, TypeOK, LiveShape, memory, disk
  <1>5. ASSUME NEW n \in Node, SaveBlock(n)
        PROVE  TypeOK' /\ LiveShape'
    <2>1. up[n] /\ getLatestBlock(chain[n]) \in NetBlock
      <3>1. up[n]
        BY <1>5 DEF SaveBlock, LiveShape
      <3> QED
        BY <3>1, LatestType
    <2>2. storedBlock' \in [Node -> [Index -> NetBlock \cup {None}]]
      BY <1>5, <2>1 DEF SaveBlock, TypeOK
    <2>3. saving' \in [Node -> {"done", "block", "height", "accounts"}]
      BY <1>5 DEF SaveBlock, TypeOK
    <2>4. LiveShape'
      BY <1>5, <2>1 DEF SaveBlock, TypeOK, LiveShape, memory
    <2> QED
      BY <1>5, <2>2, <2>3, <2>4 DEF SaveBlock, TypeOK, memory, network
  <1>6. ASSUME NEW n \in Node, SaveHeight(n)
        PROVE  TypeOK' /\ LiveShape'
    <2>1. up[n] /\ Len(chain[n]) \in 0..MaxHeight
      BY <1>6 DEF SaveHeight, TypeOK, LiveShape
    <2>2. storedHeight' \in [Node -> 0..MaxHeight]
      BY <1>6, <2>1 DEF SaveHeight, TypeOK
    <2>3. /\ mutex' \in [Node -> {"free", "main", "io"}]
          /\ saving' \in [Node -> {"done", "block", "height", "accounts"}]
          /\ \A m \in Node : m # n => /\ mutex'[m] = mutex[m]
                                      /\ saving'[m] = saving[m]
      BY <1>6 DEF SaveHeight, Saved, TypeOK
    <2>4. LiveShape'
      BY <1>6, <2>1, <2>3 DEF SaveHeight, LiveShape, memory
    <2> QED
      BY <1>6, <2>2, <2>3, <2>4 DEF SaveHeight, TypeOK, memory, network
  <1>7. ASSUME NEW n \in Node, EndSaveAccounts(n)
        PROVE  TypeOK' /\ LiveShape'
    BY <1>7 DEF EndSaveAccounts, Saved, TypeOK, LiveShape, memory, disk, network
  <1>7a. ASSUME NEW n \in Node, NEW a \in Address, SaveAccountState(n, a)
         PROVE  TypeOK' /\ LiveShape'
    BY <1>7a DEF SaveAccountState, TypeOK, LiveShape, memory, threads, network
  <1>8. ASSUME NEW n \in Node, SaveFails(n)
        PROVE  TypeOK' /\ LiveShape'
    BY <1>8, HandlerTypes DEF SaveFails, TypeOK, LiveShape, memory, disk, network
  <1>9. ASSUME NEW n \in Node, OnPeerConnected(n)
        PROVE  TypeOK' /\ LiveShape'
    <2>1. GetBlocks(Len(chain[n])) \in Message
      BY MessageTypes DEF TypeOK
    <2>2. wire' \in Wires
      BY <1>9, <2>1, SentType DEF OnPeerConnected, TypeOK
    <2> QED
      BY <1>9, <2>2, HandlerTypes
      DEF OnPeerConnected, TypeOK, LiveShape, memory, disk
  <1>10. ASSUME NEW n \in Node, Forward(n)
         PROVE  TypeOK' /\ LiveShape'
    <2>1. handler[n].msg \in Message
      BY <1>10, HandlerPayload DEF Forward, TypeOK
    <2>2. wire' \in Wires
      BY <1>10, <2>1, SentType DEF Forward, TypeOK
    <2> QED
      BY <1>10, <2>2, HandlerTypes DEF Forward, TypeOK, LiveShape, memory, disk
  <1>11. ASSUME NEW n \in Node, SyncNext(n)
         PROVE  TypeOK' /\ LiveShape'
    <2> DEFINE bs == handler[n].blocks
    <2>1. up[n] /\ bs \in Seq(NetBlock)
      BY <1>11, HandlerPayload DEF SyncNext, TypeOK, LiveShape
    <2>2. PICK k \in 1..Len(bs) :
              /\ BlockAccepted(n, bs[k], "io")
              /\ handler' = [handler EXCEPT ![n] = Syncing(SubSeq(bs, k+1, Len(bs)))]
      BY <1>11 DEF SyncNext, SyncBlock
    <2>3. bs[k] \in NetBlock /\ SubSeq(bs, k+1, Len(bs)) \in Seq(NetBlock)
      BY <2>1, <2>2
    <2>4. /\ up' = up /\ starts' = starts /\ producing' = producing
          /\ \A m \in Node : m # n => handler'[m] = handler[m]
      BY <1>11, <2>2 DEF SyncNext, TypeOK
    <2>5. /\ chain' \in [Node -> Seq(NetBlock)]
          /\ mutex' \in [Node -> {"free", "main", "io"}]
          /\ saving' \in [Node -> {"done", "block", "height", "accounts"}]
          /\ LiveShape'
      BY <2>1, <2>2, <2>3, <2>4, AcceptedType
    <2>6. handler' \in [Node -> Handler]
      BY <2>2, <2>3, HandlerTypes DEF TypeOK
    <2> QED
      BY <1>11, <2>5, <2>6 DEF SyncNext, TypeOK, disk, network
  <1>12. ASSUME NEW n \in Node, SyncEnd(n)
         PROVE  TypeOK' /\ LiveShape'
    BY <1>12, HandlerTypes
    DEF SyncEnd, TypeOK, LiveShape, memory, disk, network
  <1>13. ASSUME NEW n \in Node, NEW p \in Node, Connect(n, p)
         PROVE  TypeOK' /\ LiveShape'
    <2>1. <<n, p, starts[n]>> \in Session
      <3>1. p \in Peers[n] /\ starts[n] \in 1..MaxStarts[n]
        <4>1. up[n] /\ p \in dialing[n]
          BY <1>13 DEF Connect
        <4>2. /\ starts[n] \in Nat /\ MaxStarts[n] \in Nat
              /\ starts[n] >= 1 /\ starts[n] <= MaxStarts[n]
          BY <4>1 DEF TypeOK, LiveShape
        <4> QED
          BY <4>1, <4>2 DEF TypeOK
      <3> QED
        BY <3>1 DEF Session
    <2>2. backlog' \in [Node -> SUBSET Session]
      BY <1>13, <2>1 DEF Connect, TypeOK
    <2>3. /\ dialing' \in [Node -> SUBSET Node]
          /\ \A m \in Node : dialing'[m] \subseteq Peers[m]
      BY <1>13 DEF Connect, TypeOK
    <2> QED
      BY <1>13, <2>2, <2>3
      DEF Connect, TypeOK, LiveShape, memory, disk, threads
  <1>14. ASSUME NEW n \in Node, NEW p \in Node, ConnectFails(n, p)
         PROVE  TypeOK' /\ LiveShape'
    BY <1>14 DEF ConnectFails, TypeOK, LiveShape, memory, disk, threads
  <1>15. ASSUME NEW n \in Node, NEW s \in Session, Accept(n, s)
         PROVE  TypeOK' /\ LiveShape'
    BY <1>15, HandlerTypes DEF Accept, TypeOK, LiveShape, memory, disk
  <1>16. ASSUME NEW n \in Node, NEW s \in Session,
                RefuseMessage(n, s) \/ Disconnect(n, s) \/ LoseConnection(n, s)
         PROVE  TypeOK' /\ LiveShape'
    <2>1. wire' \in Wires
      BY <1>16, DiscardedType
      DEF RefuseMessage, Disconnect, LoseConnection, Disconnected, TypeOK
    <2>2. drops' \in 0..MaxDrops
      <3>1. drops' = drops \/ (drops < MaxDrops /\ drops' = drops + 1)
        BY <1>16 DEF RefuseMessage, Disconnect, LoseConnection
      <3> QED
        BY <3>1 DEF TypeOK
    <2> Disconnected(n, s)
      BY <1>16 DEF RefuseMessage, Disconnect, LoseConnection
    <2>3. open' \in [Node -> SUBSET Session]
      BY DEF Disconnected, TypeOK
    <2>4. UNCHANGED <<up, starts, memory, disk, threads, dialing, backlog>>
      BY DEF Disconnected
    <2> QED
      BY <2>1, <2>2, <2>3, <2>4
      DEF TypeOK, LiveShape, memory, disk, threads
  <1>17. ASSUME NEW n \in Node, NEW tx \in Txs, SubmitTransaction(n, tx)
         PROVE  TypeOK' /\ LiveShape'
    BY <1>17 DEF SubmitTransaction, TypeOK, LiveShape, disk, network
  <1>18. ASSUME NEW n \in Node, NEW tx \in Txs, BroadcastTx(n, tx)
         PROVE  TypeOK' /\ LiveShape'
    <2>1. wire' \in Wires
      BY <1>18, SentType, MessageTypes DEF BroadcastTx, TypeOK
    <2> QED
      BY <1>18, <2>1 DEF BroadcastTx, TypeOK, LiveShape, memory, disk
  <1>19. ASSUME NEW n \in Node, NEW s \in Session, Handle(n, s)
         PROVE  TypeOK' /\ LiveShape'
    <2> DEFINE msg == Head(wire[s][n])
    <2>1. /\ up[n] /\ wire[s][n] # << >> /\ msg \in Message
          /\ Consumed(wire, n, s) \in Wires
      <3>1. up[n] /\ wire[s][n] # << >>
        BY <1>19 DEF Handle, Receives, OnNewBlockAhead, OnNewBlockNext,
             OnNewBlockIgnored, OnNewTxAccepted, OnNewTxIgnored, OnGetBlocks,
             OnBlocks, OnBlocksUseless
      <3>2. wire[s][n] \in Seq(Message)
        BY DEF TypeOK, Wires
      <3> QED
        BY <3>1, <3>2, ConsumedType DEF TypeOK
    <2>2. CASE OnNewBlockIgnored(n, s) \/ OnNewTxIgnored(n, s)
                 \/ OnBlocksUseless(n, s)
      BY <2>1, <2>2 DEF OnNewBlockIgnored, OnNewTxIgnored, OnBlocksUseless,
           TypeOK, LiveShape, memory, disk, threads
    <2>3. CASE OnNewBlockAhead(n, s) \/ OnGetBlocks(n, s)
      <3>1. wire' \in Wires
        <4>1. GetBlocks(Len(chain[n])) \in Message
          BY MessageTypes DEF TypeOK
        <4>2. CASE OnNewBlockAhead(n, s)
          BY <2>1, <4>1, <4>2, SentType DEF OnNewBlockAhead
        <4>3. CASE OnGetBlocks(n, s)
          <5>1. msg.from \in Nat
            BY <2>1, <4>3, MessagePayload DEF OnGetBlocks, Receives
          <5>2. SubSeq(chain[n], msg.from + 1, Len(chain[n])) \in Seq(NetBlock)
            <6>1. chain[n] \in Seq(NetBlock)
              BY DEF TypeOK
            <6> QED
              BY <5>1, <6>1
          <5> QED
            BY <2>1, <4>3, <5>2, SentType, MessageTypes DEF OnGetBlocks
        <4> QED
          BY <2>3, <4>2, <4>3
      <3> QED
        BY <2>3, <3>1 DEF OnNewBlockAhead, OnGetBlocks, TypeOK, LiveShape,
             memory, disk, threads
    <2>4. CASE OnNewBlockNext(n, s)
      <3>1. msg.block \in NetBlock
        BY <2>1, <2>4, MessagePayload DEF OnNewBlockNext, Receives
      <3>2. /\ up' = up /\ starts' = starts /\ producing' = producing
            /\ \A m \in Node : m # n => handler'[m] = handler[m]
            /\ BlockAccepted(n, msg.block, "io")
        BY <2>4 DEF OnNewBlockNext, TypeOK
      <3>3. /\ chain' \in [Node -> Seq(NetBlock)]
            /\ mutex' \in [Node -> {"free", "main", "io"}]
            /\ saving' \in [Node -> {"done", "block", "height", "accounts"}]
            /\ LiveShape'
        BY <2>1, <3>1, <3>2, AcceptedType
      <3> QED
        BY <2>1, <2>4, <3>3, HandlerTypes DEF OnNewBlockNext, TypeOK, disk
    <2>5. CASE OnNewTxAccepted(n, s)
      BY <2>1, <2>5, HandlerTypes DEF OnNewTxAccepted, TypeOK, LiveShape, disk
    <2>6. CASE OnBlocks(n, s)
      <3> DEFINE bs == msg.blocks
      <3>1. bs \in Seq(NetBlock)
        BY <2>1, <2>6, MessagePayload DEF OnBlocks, Receives
      <3>2. PICK k \in 1..Len(bs) :
                /\ BlockAccepted(n, bs[k], "io")
                /\ handler' = [handler EXCEPT ![n] =
                                  Syncing(SubSeq(bs, k+1, Len(bs)))]
        BY <2>6 DEF OnBlocks, SyncBlock
      <3>3. bs[k] \in NetBlock /\ SubSeq(bs, k+1, Len(bs)) \in Seq(NetBlock)
        BY <3>1, <3>2
      <3>4. /\ up' = up /\ starts' = starts /\ producing' = producing
            /\ \A m \in Node : m # n => handler'[m] = handler[m]
        BY <2>6, <3>2 DEF OnBlocks, TypeOK
      <3>5. /\ chain' \in [Node -> Seq(NetBlock)]
            /\ mutex' \in [Node -> {"free", "main", "io"}]
            /\ saving' \in [Node -> {"done", "block", "height", "accounts"}]
            /\ LiveShape'
        BY <2>1, <3>2, <3>3, <3>4, AcceptedType
      <3>6. handler' \in [Node -> Handler]
        BY <3>2, <3>3, HandlerTypes DEF TypeOK
      <3> QED
        BY <2>1, <2>6, <3>5, <3>6 DEF OnBlocks, TypeOK, disk
    <2> QED
      BY <1>19, <2>2, <2>3, <2>4, <2>5, <2>6 DEF Handle
  <1>20. CASE UNCHANGED vars
    BY <1>20 DEF vars, memory, disk, threads, network, TypeOK, LiveShape
  <1> QED
    BY <1>1, <1>2, <1>3, <1>4, <1>5, <1>6, <1>7, <1>7a, <1>8, <1>9, <1>10, <1>11,
       <1>12, <1>13, <1>14, <1>15, <1>16, <1>17, <1>18, <1>19, <1>20
    DEF Next, MainStep, SaveStep, Resume, Dial

\* Type correctness of every behaviour, with or without disk failures: chains,
\* disks, handlers and wires hold blocks of the bounded block type only, the
\* recorded height stays within the bound, and no thread of a dead process
\* holds anything.
THEOREM TypeCorrect == Spec => []TypeOK
  <1>1. Init => TypeOK /\ LiveShape
    BY NetAssumption, HandlerTypes
    DEF Init, TypeOK, LiveShape, Wires, Index
  <1> QED
    BY <1>1, TypeStep, PTL DEF Spec

-----------------------------------------------------------------------------
(***************************************************************************)
(* One node: memory, disk and threads                                      *)
(***************************************************************************)

\* A node whose chain, disk and block-writing threads do not move keeps its
\* shape.
LEMMA NodeFrame ==
    ASSUME NEW n \in Node, NodeShape(n),
           up'[n] = up[n], chain'[n] = chain[n],
           storedBlock'[n] = storedBlock[n], storedHeight'[n] = storedHeight[n],
           mutex'[n] = mutex[n], saving'[n] = saving[n],
           producing'[n] = producing[n]
    PROVE  NodeShape(n)'
  <1>1. RecordedHeight(n)' = RecordedHeight(n)
    BY DEF RecordedHeight
  <1>2. ChainShape(n)' /\ ThreadShape(n)'
    BY DEF NodeShape, ChainShape, ThreadShape, getLatestBlock
  <1>3. DiskShape(n)'
    BY <1>1 DEF NodeShape, DiskShape, StoredBefore
  <1>4. MemoryMatchesDisk(n)'
    BY <1>1 DEF NodeShape, MemoryMatchesDisk, getLatestBlock
  <1> QED
    BY <1>2, <1>3, <1>4 DEF NodeShape

\* recoverFromStorage finds every block below the recorded height, and no
\* more.
LEMMA RecoversExactly ==
    ASSUME TypeOK, NEW n \in Node, DiskShape(n),
           NEW k \in 1..MaxHeight, RecoversTo(n, k)
    PROVE  k = RecordedHeight(n)
  <1> USE NetAssumption
  <1>1. storedHeight[n] \in Nat /\ k \in Nat /\ k >= 1
    BY DEF TypeOK
  <1>2. ~ (k < RecordedHeight(n))
    <2> SUFFICES ASSUME k < RecordedHeight(n)
                 PROVE  FALSE
      OBVIOUS
    <2>1. k < storedHeight[n] /\ k \in 1..RecordedHeight(n)-1
      BY <1>1 DEF RecordedHeight
    <2>2. storedBlock[n][k] # None /\ Follows(storedBlock[n][k], StoredBefore(n, k), k)
      BY <2>1 DEF DiskShape
    <2>3. StoredChain(n, k)[k] = StoredBefore(n, k)
      BY <1>1 DEF StoredChain, StoredBefore
    <2> QED
      BY <2>1, <2>2, <2>3 DEF RecoversTo
  <1>3. ~ (k > RecordedHeight(n))
    <2> SUFFICES ASSUME k > RecordedHeight(n)
                 PROVE  FALSE
      OBVIOUS
    <2>1. k \in 2..k
      BY <1>1 DEF RecordedHeight
    <2>2. k <= storedHeight[n]
      BY <2>1 DEF RecoversTo
    <2> QED
      BY <1>1, <2>1, <2>2 DEF RecordedHeight
  <1> QED
    BY <1>1, <1>2, <1>3 DEF RecordedHeight

\* A node that starts comes back with the chain that its disk holds.
LEMMA StartShape ==
    ASSUME TypeOK, LiveShape, NEW n \in Node, NodeShape(n), Start(n)
    PROVE  NodeShape(n)'
  <1> USE NetAssumption
  <1>1. PICK k \in 1..MaxHeight :
            /\ RecoversTo(n, k)
            /\ chain' = [chain EXCEPT ![n] = StoredChain(n, k)]
    BY DEF Start
  <1>2. /\ UNCHANGED <<storedBlock, storedHeight, mutex, saving, producing>>
        /\ saving[n] = "done" /\ mutex[n] = "free"
    BY DEF Start, LiveShape, disk, threads
  <1>3. k = RecordedHeight(n) /\ RecordedHeight(n)' = RecordedHeight(n)
    <2>1. k = RecordedHeight(n)
      BY <1>1, RecoversExactly DEF NodeShape
    <2> QED
      BY <1>2, <2>1 DEF RecordedHeight
  <1>4. /\ chain'[n] = StoredChain(n, k) /\ Len(chain'[n]) = k
        /\ chain'[n][1] = GenesisBlock
        /\ \A i \in 2..k : chain'[n][i] = storedBlock[n][i-1]
    <2>1. chain'[n] = StoredChain(n, k)
      BY <1>1 DEF TypeOK
    <2> QED
      BY <2>1 DEF StoredChain
  <1>5. ChainShape(n)'
    <2>1. \A i \in 2..k : Follows(chain'[n][i], chain'[n][i-1], i-1)
      BY <1>1, <1>4 DEF RecoversTo
    <2> QED
      BY <1>4, <2>1 DEF ChainShape
  <1>6. ThreadShape(n)'
    BY <1>2 DEF ThreadShape
  <1>7. DiskShape(n)'
    BY <1>2, <1>3 DEF NodeShape, DiskShape, StoredBefore
  <1>8. MemoryMatchesDisk(n)'
    <2>1. \A i \in 1..k-1 : storedBlock'[n][i] = chain'[n][i+1]
      BY <1>2, <1>4
    <2> QED
      BY <1>2, <1>3, <1>4, <2>1 DEF MemoryMatchesDisk
  <1> QED
    BY <1>5, <1>6, <1>7, <1>8 DEF NodeShape

\* A node that dies keeps a disk in shape.
LEMMA CrashShape ==
    ASSUME TypeOK, NEW n \in Node, NodeShape(n), Crash(n)
    PROVE  NodeShape(n)'
  <1>1. /\ UNCHANGED <<storedBlock, storedHeight>>
        /\ ~ up'[n] /\ mutex'[n] = "free" /\ saving'[n] = "done"
    BY DEF Crash, TypeOK, disk
  <1>2. DiskShape(n)'
    BY <1>1 DEF NodeShape, DiskShape, StoredBefore, RecordedHeight
  <1> QED
    BY <1>1, <1>2 DEF NodeShape, ChainShape, ThreadShape, MemoryMatchesDisk

\* A node that accepts a block is one block ahead of its disk.
LEMMA AcceptedShape ==
    ASSUME TypeOK, LiveShape, NEW n \in Node, NodeShape(n), up[n],
           saving[n] = "done", NEW b, NEW t \in {"main", "io"},
           BlockAccepted(n, b, t),
           UNCHANGED <<up, storedBlock, storedHeight>>,
           t = "main" => producing'[n] = b
    PROVE  NodeShape(n)'
  <1> USE NetAssumption
  <1>1. /\ chain[n] \in Seq(NetBlock) /\ Len(chain[n]) \in Nat
        /\ Len(chain[n]) >= 1
    BY DEF TypeOK, LiveShape
  <1>2. /\ chain'[n] = Append(chain[n], b)
        /\ mutex'[n] = t /\ saving'[n] = "block"
        /\ Follows(b, chain[n][Len(chain[n])], Len(chain[n]))
    BY DEF BlockAccepted, TypeOK, CanAdd, getLatestBlock, getHeight
  <1>3. /\ Len(chain'[n]) = Len(chain[n]) + 1
        /\ \A i \in 1..Len(chain[n]) : chain'[n][i] = chain[n][i]
        /\ chain'[n][Len(chain[n]) + 1] = b
    BY <1>1, <1>2
  <1>4. ChainShape(n)'
    <2>1. \A i \in 2..Len(chain[n])+1 :
              Follows(chain'[n][i], chain'[n][i-1], i-1)
      <3> SUFFICES ASSUME NEW i \in 2..Len(chain[n])+1
                   PROVE  Follows(chain'[n][i], chain'[n][i-1], i-1)
        OBVIOUS
      <3>1. CASE i = Len(chain[n]) + 1
        BY <1>1, <1>2, <1>3, <3>1
      <3>2. CASE i # Len(chain[n]) + 1
        <4>1. i \in 2..Len(chain[n]) /\ i-1 \in 1..Len(chain[n])
          BY <1>1, <3>2
        <4>2. Follows(chain[n][i], chain[n][i-1], i-1)
          BY <4>1 DEF NodeShape, ChainShape
        <4> QED
          BY <1>3, <4>1, <4>2
      <3> QED
        BY <3>1, <3>2
    <2>2. chain'[n][1] = GenesisBlock
      BY <1>1, <1>3 DEF NodeShape, ChainShape
    <2> QED
      BY <1>3, <2>1, <2>2 DEF ChainShape
  <1>5. ThreadShape(n)'
    BY <1>1, <1>2, <1>3 DEF ThreadShape, getLatestBlock
  <1>6. RecordedHeight(n)' = RecordedHeight(n)
    BY DEF RecordedHeight
  <1>7. DiskShape(n)'
    BY <1>6 DEF NodeShape, DiskShape, StoredBefore
  <1>8. MemoryMatchesDisk(n)'
    <2>1. /\ RecordedHeight(n) = Len(chain[n])
          /\ \A i \in 1..Len(chain[n])-1 : storedBlock[n][i] = chain[n][i+1]
      BY DEF NodeShape, MemoryMatchesDisk
    <2>2. \A i \in 1..Len(chain[n])-1 : storedBlock'[n][i] = chain'[n][i+1]
      BY <1>1, <1>3, <2>1
    <2> QED
      BY <1>1, <1>2, <1>3, <1>6, <2>1, <2>2 DEF MemoryMatchesDisk
  <1> QED
    BY <1>4, <1>5, <1>7, <1>8 DEF NodeShape

\* Between two writes of afterBlockAccepted the node runs, its chain has a
\* block that the disk does not count, and that block knows its index.
LEMMA UnsavedTip ==
    ASSUME TypeOK, LiveShape, NEW n \in Node, NodeShape(n),
           saving[n] \in {"block", "height"}
    PROVE  /\ up[n] /\ Len(chain[n]) \in 2..MaxHeight
           /\ RecordedHeight(n) = Len(chain[n]) - 1
           /\ Len(chain[n]) - 1 \in Index
           /\ getLatestBlock(chain[n]).index = Len(chain[n]) - 1
           /\ Follows(getLatestBlock(chain[n]), chain[n][Len(chain[n])-1],
                      Len(chain[n])-1)
  <1> USE NetAssumption
  <1>1. up[n] /\ Len(chain[n]) \in 1..MaxHeight
    BY DEF LiveShape
  <1>2. RecordedHeight(n) = Len(chain[n]) - 1
    BY <1>1 DEF NodeShape, MemoryMatchesDisk
  <1>3. Len(chain[n]) >= 2
    BY <1>1, <1>2 DEF RecordedHeight, TypeOK
  <1>4. Len(chain[n]) \in 2..MaxHeight /\ Len(chain[n]) \in 2..Len(chain[n])
    BY <1>1, <1>3
  <1>5. Follows(chain[n][Len(chain[n])], chain[n][Len(chain[n])-1],
                Len(chain[n])-1)
    BY <1>1, <1>4 DEF NodeShape, ChainShape
  <1> QED
    BY <1>1, <1>2, <1>4, <1>5 DEF Index, getLatestBlock, Follows

\* saveBlock writes the one block that the disk does not count yet.
LEMMA SaveBlockWrites ==
    ASSUME TypeOK, LiveShape, NEW n \in Node, NodeShape(n), SaveBlock(n)
    PROVE  /\ storedBlock'[n][Len(chain[n])-1] = getLatestBlock(chain[n])
           /\ \A i \in Index : i # Len(chain[n])-1 =>
                 storedBlock'[n][i] = storedBlock[n][i]
           /\ \A m \in Node : m # n => storedBlock'[m] = storedBlock[m]
  <1>1. saving[n] \in {"block", "height"}
    BY DEF SaveBlock
  <1>2. getLatestBlock(chain[n]).index = Len(chain[n])-1
        /\ Len(chain[n])-1 \in Index
    BY <1>1, UnsavedTip
  <1>3. storedBlock' = [storedBlock EXCEPT ![n][Len(chain[n])-1] =
                                               getLatestBlock(chain[n])]
    BY <1>2 DEF SaveBlock
  <1> QED
    BY <1>2, <1>3 DEF TypeOK

\* saveBlock keeps the shape: the height still says that the block is not
\* there.
LEMMA SaveBlockShape ==
    ASSUME TypeOK, LiveShape, NEW n \in Node, NodeShape(n), SaveBlock(n)
    PROVE  NodeShape(n)'
  <1> USE NetAssumption
  <1>1. saving[n] = "block" /\ saving'[n] = "height"
    BY DEF SaveBlock, TypeOK
  <1>2. UNCHANGED <<up, chain, storedHeight, mutex, producing>>
    BY DEF SaveBlock, memory
  <1>3. /\ up[n] /\ Len(chain[n]) \in 2..MaxHeight
        /\ RecordedHeight(n) = Len(chain[n]) - 1
        /\ Len(chain[n]) - 1 \in Index
    BY <1>1, UnsavedTip
  <1>4. RecordedHeight(n)' = RecordedHeight(n)
    BY <1>2 DEF RecordedHeight
  <1>5. \A i \in 1..RecordedHeight(n)-1 : storedBlock'[n][i] = storedBlock[n][i]
    BY <1>3, SaveBlockWrites DEF Index
  <1>6. ChainShape(n)' /\ ThreadShape(n)'
    BY <1>1, <1>2 DEF NodeShape, ChainShape, ThreadShape, getLatestBlock
  <1>7. DiskShape(n)'
    <2> SUFFICES ASSUME NEW i \in 1..RecordedHeight(n)-1
                 PROVE  /\ storedBlock'[n][i] # None
                        /\ Follows(storedBlock'[n][i], StoredBefore(n, i)', i)
      BY <1>4 DEF DiskShape
    <2>1. storedBlock[n][i] # None /\ Follows(storedBlock[n][i], StoredBefore(n, i), i)
      BY DEF NodeShape, DiskShape
    <2>2. StoredBefore(n, i)' = StoredBefore(n, i)
      BY <1>3, <1>5 DEF StoredBefore
    <2> QED
      BY <1>5, <2>1, <2>2
  <1>8. MemoryMatchesDisk(n)'
    <2>1. \A i \in 1..RecordedHeight(n)-1 : storedBlock'[n][i] = chain'[n][i+1]
      BY <1>1, <1>2, <1>3, <1>5 DEF NodeShape, MemoryMatchesDisk
    <2>2. storedBlock'[n][Len(chain'[n])-1] = getLatestBlock(chain'[n])
      BY <1>2, SaveBlockWrites
    <2> QED
      BY <1>1, <1>2, <1>3, <1>4, <2>1, <2>2 DEF MemoryMatchesDisk
  <1> QED
    BY <1>6, <1>7, <1>8 DEF NodeShape

\* saveChainHeight makes the disk catch up with the memory.
LEMMA SaveHeightShape ==
    ASSUME TypeOK, LiveShape, NEW n \in Node, NodeShape(n), SaveHeight(n)
    PROVE  NodeShape(n)' /\ RecordedHeight(n)' = Len(chain[n])
  <1> USE NetAssumption
  <1>1. /\ saving[n] = "height" /\ saving'[n] \in {"accounts", "done"}
        /\ saving'[n] = "accounts" => mutex'[n] = mutex[n]
        /\ saving'[n] = "done" => mutex'[n] \in {"io", "free"}
    BY DEF SaveHeight, Saved, TypeOK
  <1>2. /\ UNCHANGED <<up, chain, storedBlock, producing>>
        /\ storedHeight'[n] = Len(chain[n])
    BY DEF SaveHeight, memory, TypeOK
  <1>3. /\ up[n] /\ Len(chain[n]) \in 2..MaxHeight
        /\ RecordedHeight(n) = Len(chain[n]) - 1
        /\ Len(chain[n]) - 1 \in Index
        /\ Follows(getLatestBlock(chain[n]), chain[n][Len(chain[n])-1],
                   Len(chain[n])-1)
    BY <1>1, UnsavedTip
  <1>4. RecordedHeight(n)' = Len(chain[n])
    BY <1>2, <1>3 DEF RecordedHeight
  <1>5. \A i \in 1..Len(chain[n])-1 : storedBlock[n][i] = chain[n][i+1]
    BY <1>1, <1>3 DEF NodeShape, MemoryMatchesDisk, getLatestBlock
  <1>6. ChainShape(n)'
    BY <1>2 DEF NodeShape, ChainShape
  <1>7. ThreadShape(n)'
    <2>1. mutex[n] \in {"main", "io"}
      BY <1>1 DEF NodeShape, ThreadShape, TypeOK
    <2> QED
      BY <1>1, <1>2, <2>1 DEF NodeShape, ThreadShape, getLatestBlock
  <1>8. DiskShape(n)'
    <2> SUFFICES ASSUME NEW i \in 1..Len(chain[n])-1
                 PROVE  /\ storedBlock[n][i] # None
                        /\ Follows(storedBlock[n][i], StoredBefore(n, i), i)
      BY <1>2, <1>4 DEF DiskShape, StoredBefore
    <2>1. i+1 \in 2..Len(chain[n]) /\ i \in Index
      BY <1>3 DEF Index
    <2>2. Follows(chain[n][i+1], chain[n][i], i)
      BY <1>3, <2>1 DEF NodeShape, ChainShape
    <2>3. StoredBefore(n, i) = chain[n][i]
      <3>1. CASE i = 1
        BY <1>3, <3>1 DEF StoredBefore, NodeShape, ChainShape
      <3>2. CASE i # 1
        BY <1>3, <1>5, <3>2 DEF StoredBefore
      <3> QED
        BY <3>1, <3>2
    <2>4. chain[n][i+1] # None
      <3>1. chain[n][i+1] \in NetBlock
        BY <1>3, <2>1 DEF TypeOK
      <3> QED
        BY <3>1 DEF NetBlock
    <2> QED
      BY <1>5, <2>2, <2>3, <2>4
  <1>9. MemoryMatchesDisk(n)'
    BY <1>1, <1>2, <1>3, <1>4, <1>5 DEF MemoryMatchesDisk
  <1> QED
    BY <1>4, <1>6, <1>7, <1>8, <1>9 DEF NodeShape

\* The end of afterBlockAccepted releases the mutex.
LEMMA SaveAccountsShape ==
    ASSUME TypeOK, LiveShape, NEW n \in Node, NodeShape(n), EndSaveAccounts(n)
    PROVE  NodeShape(n)'
  <1>1. /\ saving[n] = "accounts" /\ saving'[n] = "done"
        /\ mutex'[n] \in {"io", "free"}
    BY DEF EndSaveAccounts, Saved, TypeOK
  <1>2. UNCHANGED <<up, chain, storedBlock, storedHeight, producing>>
    BY DEF EndSaveAccounts, memory, disk
  <1>3. RecordedHeight(n)' = RecordedHeight(n)
    BY <1>2 DEF RecordedHeight
  <1>4. ChainShape(n)' /\ ThreadShape(n)'
    BY <1>1, <1>2 DEF NodeShape, ChainShape, ThreadShape
  <1>5. DiskShape(n)'
    BY <1>2, <1>3 DEF NodeShape, DiskShape, StoredBefore
  <1>6. MemoryMatchesDisk(n)'
    BY <1>1, <1>2, <1>3 DEF NodeShape, MemoryMatchesDisk
  <1> QED
    BY <1>4, <1>5, <1>6 DEF NodeShape

-----------------------------------------------------------------------------
(***************************************************************************)
(* The steps, as far as blocks and disks are concerned                     *)
(***************************************************************************)

blockState == <<up, chain, storedBlock, storedHeight, mutex, saving, producing>>

\* Block b has reached n: it is in the message n reads next over a connection,
\* or in the one that onBlocks is working on.
Delivered(n, b) ==
    \/ \E s \in Session :
          /\ wire[s][n] # << >>
          /\ \/ /\ Head(wire[s][n]).type = "NEW_BLOCK"
                /\ b = Head(wire[s][n]).block
             \/ /\ Head(wire[s][n]).type = "BLOCKS"
                /\ \E k \in 1..Len(Head(wire[s][n]).blocks) :
                      b = Head(wire[s][n]).blocks[k]
    \/ /\ handler[n].kind = "sync"
       /\ \E k \in 1..Len(handler[n].blocks) : b = handler[n].blocks[k]

\* Thread t of node n, which is not writing, adds block b to its chain.
Adds(n, b, t) ==
    /\ BlockAccepted(n, b, t)
    /\ up[n] /\ saving[n] = "done" /\ mutex[n] # "main"
    /\ UNCHANGED <<up, storedBlock, storedHeight>>
    /\ \/ /\ t = "main" /\ getProducer(Len(chain[n])) = n
          /\ b.transactions = getTransactionsForBlock(mempool[n], MaxTxsPerBlock)
          /\ producing' = [producing EXCEPT ![n] = b]
       \/ t = "io" /\ UNCHANGED producing /\ Delivered(n, b)

AddsSome(n) == \E b, t : Adds(n, b, t)

\* ProduceBlock, OnNewBlockNext, OnBlocks and SyncNext add a block.
LEMMA AcceptingSteps ==
    ASSUME LiveShape, NEW n \in Node, ThreadShape(n),
           \/ ProduceBlock(n) \/ SyncNext(n)
           \/ \E s \in Session : OnNewBlockNext(n, s) \/ OnBlocks(n, s)
    PROVE  AddsSome(n)
  <1>1. CASE ProduceBlock(n)
    <2>1. PICK b : /\ BlockAccepted(n, b, "main")
                   /\ b.transactions =
                          getTransactionsForBlock(mempool[n], MaxTxsPerBlock)
                   /\ producing' = [producing EXCEPT ![n] = b]
      <3> DEFINE txs == getTransactionsForBlock(mempool[n], MaxTxsPerBlock)
                 b(now) == createBlock(n, getLatestBlock(chain[n]), txs, now)
      <3>1. PICK now : /\ BlockAccepted(n, b(now), "main")
                       /\ producing' = [producing EXCEPT ![n] = b(now)]
        BY <1>1 DEF ProduceBlock
      <3>2. b(now).transactions = txs
        BY DEF createBlock, SignedBlock
      <3> QED
        BY <3>1, <3>2
    <2>2. Adds(n, b, "main")
      BY <1>1, <2>1 DEF ProduceBlock, Adds, ThreadShape, disk
    <2> QED
      BY <2>2 DEF AddsSome
  <1>2. CASE SyncNext(n)
    <2>1. PICK b : BlockAccepted(n, b, "io") /\ Delivered(n, b)
      BY <1>2 DEF SyncNext, SyncBlock, Delivered
    <2>2. up[n]
      BY <1>2 DEF SyncNext, LiveShape
    <2>3. Adds(n, b, "io")
      BY <1>2, <2>1, <2>2 DEF SyncNext, Adds, disk
    <2> QED
      BY <2>3 DEF AddsSome
  <1>3. ASSUME NEW s \in Session, OnNewBlockNext(n, s)
        PROVE  AddsSome(n)
    <2>1. Delivered(n, Head(wire[s][n]).block)
      BY <1>3 DEF OnNewBlockNext, Receives, Delivered
    <2>2. Adds(n, Head(wire[s][n]).block, "io")
      BY <1>3, <2>1 DEF OnNewBlockNext, Receives, Adds, ThreadShape, disk
    <2> QED
      BY <2>2 DEF AddsSome
  <1>4. ASSUME NEW s \in Session, OnBlocks(n, s)
        PROVE  AddsSome(n)
    <2>1. PICK b : BlockAccepted(n, b, "io") /\ Delivered(n, b)
      <3> DEFINE m == Head(wire[s][n])
      <3>1. wire[s][n] # << >> /\ m.type = "BLOCKS" /\ SyncBlock(n, m.blocks)
        BY <1>4 DEF OnBlocks, Receives
      <3>2. PICK k \in 1..Len(m.blocks) : BlockAccepted(n, m.blocks[k], "io")
        BY <3>1 DEF SyncBlock
      <3>3. Delivered(n, m.blocks[k])
        BY <3>1, <3>2 DEF Delivered
      <3> QED
        BY <3>2, <3>3
    <2>2. Adds(n, b, "io")
      BY <1>4, <2>1 DEF OnBlocks, Receives, Adds, ThreadShape, disk
    <2> QED
      BY <2>2 DEF AddsSome
  <1> QED
    BY <1>1, <1>2, <1>3, <1>4

\* Every step is one of these.
LEMMA StepKinds ==
    ASSUME DiskMayFail = FALSE, LiveShape, \A n \in Node : ThreadShape(n),
           [Next]_vars
    PROVE  \/ UNCHANGED blockState
           \/ \E n \in Node :
                 \/ Start(n) \/ Crash(n) \/ AddsSome(n) \/ BroadcastBlock(n)
                 \/ SaveBlock(n) \/ SaveHeight(n) \/ EndSaveAccounts(n)
                 \/ SyncEnd(n)
  <1>1. CASE UNCHANGED vars
    BY <1>1 DEF vars, blockState, memory, disk, threads
  <1>2. ASSUME NEW n \in Node,
               OnPeerConnected(n) \/ Forward(n)
               \/ (\E a \in Address : SaveAccountState(n, a))
               \/ (\E p \in Node : Dial(n, p))
               \/ \E tx \in Txs : SubmitTransaction(n, tx) \/ BroadcastTx(n, tx)
        PROVE  UNCHANGED blockState
    BY <1>2 DEF OnPeerConnected, Forward, SaveAccountState, Dial, Connect,
         ConnectFails, SubmitTransaction, BroadcastTx, blockState, memory, disk, threads
  <1>3. ASSUME NEW n \in Node, NEW s \in Session,
               Accept(n, s) \/ RefuseMessage(n, s) \/ Disconnect(n, s)
               \/ LoseConnection(n, s)
        PROVE  UNCHANGED blockState
    BY <1>3 DEF Accept, RefuseMessage, Disconnect, LoseConnection, Disconnected,
         blockState, memory, disk, threads
  <1>4. ASSUME NEW n \in Node, NEW s \in Session, Handle(n, s)
        PROVE  UNCHANGED blockState \/ AddsSome(n)
    <2>1. CASE OnNewBlockNext(n, s) \/ OnBlocks(n, s)
      BY <2>1, AcceptingSteps
    <2>2. CASE \/ OnNewBlockAhead(n, s) \/ OnNewBlockIgnored(n, s)
               \/ OnNewTxAccepted(n, s) \/ OnNewTxIgnored(n, s)
               \/ OnGetBlocks(n, s) \/ OnBlocksUseless(n, s)
      BY <2>2 DEF OnNewBlockAhead, OnNewBlockIgnored, OnNewTxAccepted,
           OnNewTxIgnored, OnGetBlocks, OnBlocksUseless, blockState, memory,
           disk, threads
    <2> QED
      BY <1>4, <2>1, <2>2 DEF Handle
  <1>5. ASSUME NEW n \in Node, ProduceBlock(n) \/ SyncNext(n)
        PROVE  AddsSome(n)
    BY <1>5, AcceptingSteps
  <1>6. ASSUME NEW n \in Node
        PROVE  ~ SaveFails(n)
    BY DEF SaveFails
  <1>7. CASE Next
    <2>1. PICK n \in Node :
            \/ Start(n) \/ Crash(n)
            \/ MainStep(n) \/ SaveStep(n) \/ SaveFails(n) \/ Resume(n)
            \/ \E pp \in Node : Dial(n, pp)
            \/ \E s \in Session :
                  \/ Accept(n, s) \/ Handle(n, s)
                  \/ RefuseMessage(n, s) \/ Disconnect(n, s) \/ LoseConnection(n, s)
            \/ \E tx \in Txs : SubmitTransaction(n, tx) \/ BroadcastTx(n, tx)
      BY <1>7 DEF Next
    <2> QED
      BY <2>1, <1>2, <1>3, <1>4, <1>5, <1>6 DEF MainStep, SaveStep, Resume
  <1> QED
    BY <1>1, <1>7

\* Every step keeps every node in shape.
LEMMA NodeShapeStep ==
    ASSUME DiskMayFail = FALSE, TypeOK, LiveShape,
           \A n \in Node : NodeShape(n), [Next]_vars
    PROVE  \A n \in Node : NodeShape(n)'
  <1> SUFFICES ASSUME NEW m \in Node
               PROVE  NodeShape(m)'
    OBVIOUS
  <1>1. CASE UNCHANGED blockState
    BY <1>1, NodeFrame DEF blockState
  <1>2. ASSUME NEW n \in Node, Start(n)
        PROVE  NodeShape(m)'
    <2>1. m # n => /\ up'[m] = up[m] /\ chain'[m] = chain[m]
                   /\ UNCHANGED <<storedBlock, storedHeight, mutex, saving,
                                  producing>>
      BY <1>2 DEF Start, TypeOK, disk, threads
    <2> QED
      BY <1>2, <2>1, StartShape, NodeFrame
  <1>3. ASSUME NEW n \in Node, Crash(n)
        PROVE  NodeShape(m)'
    <2>1. m # n => /\ up'[m] = up[m] /\ chain'[m] = chain[m]
                   /\ UNCHANGED <<storedBlock, storedHeight>>
                   /\ mutex'[m] = mutex[m] /\ saving'[m] = saving[m]
                   /\ producing'[m] = producing[m]
      BY <1>3 DEF Crash, TypeOK, disk
    <2> QED
      BY <1>3, <2>1, CrashShape, NodeFrame
  <1>4. ASSUME NEW n \in Node, AddsSome(n)
        PROVE  NodeShape(m)'
    <2>1. PICK b, t : Adds(n, b, t)
      BY <1>4 DEF AddsSome
    <2>2. m # n => /\ up'[m] = up[m] /\ chain'[m] = chain[m]
                   /\ UNCHANGED <<storedBlock, storedHeight>>
                   /\ mutex'[m] = mutex[m] /\ saving'[m] = saving[m]
                   /\ producing'[m] = producing[m]
      BY <2>1 DEF Adds, BlockAccepted, TypeOK
    <2>3. /\ BlockAccepted(n, b, t) /\ up[n] /\ saving[n] = "done"
          /\ UNCHANGED <<up, storedBlock, storedHeight>>
          /\ t \in {"main", "io"} /\ (t = "main" => producing'[n] = b)
      BY <2>1 DEF Adds, TypeOK
    <2>4. NodeShape(n)'
      BY <2>3, AcceptedShape
    <2> QED
      BY <2>2, <2>4, NodeFrame
  <1>5. ASSUME NEW n \in Node, BroadcastBlock(n)
        PROVE  NodeShape(m)'
    <2>1. /\ UNCHANGED <<up, chain, storedBlock, storedHeight, mutex, saving>>
          /\ m # n => producing'[m] = producing[m]
          /\ mutex[n] # "main"
      BY <1>5 DEF BroadcastBlock, TypeOK, memory, disk
    <2>2. CASE m # n
      BY <2>1, <2>2, NodeFrame
    <2>3. CASE m = n
      <3>1. ThreadShape(n)'
        BY <2>1 DEF NodeShape, ThreadShape
      <3> QED
        BY <2>1, <2>3, <3>1 DEF NodeShape, ChainShape, DiskShape,
             MemoryMatchesDisk, StoredBefore, RecordedHeight
    <2> QED
      BY <2>2, <2>3
  <1>6. ASSUME NEW n \in Node, SaveBlock(n)
        PROVE  NodeShape(m)'
    <2>1. m # n => /\ UNCHANGED <<up, chain, storedHeight, mutex, producing>>
                   /\ saving'[m] = saving[m]
                   /\ storedBlock'[m] = storedBlock[m]
      BY <1>6, SaveBlockWrites DEF SaveBlock, TypeOK, memory
    <2> QED
      BY <1>6, <2>1, SaveBlockShape, NodeFrame
  <1>7. ASSUME NEW n \in Node, SaveHeight(n)
        PROVE  NodeShape(m)'
    <2>1. m # n => /\ UNCHANGED <<up, chain, storedBlock, producing>>
                   /\ saving'[m] = saving[m] /\ mutex'[m] = mutex[m]
                   /\ storedHeight'[m] = storedHeight[m]
      BY <1>7 DEF SaveHeight, Saved, TypeOK, memory
    <2> QED
      BY <1>7, <2>1, SaveHeightShape, NodeFrame
  <1>8. ASSUME NEW n \in Node, EndSaveAccounts(n)
        PROVE  NodeShape(m)'
    <2>1. m # n => /\ UNCHANGED <<up, chain, storedBlock, storedHeight,
                                  producing>>
                   /\ saving'[m] = saving[m] /\ mutex'[m] = mutex[m]
      BY <1>8 DEF EndSaveAccounts, Saved, TypeOK, memory, disk
    <2> QED
      BY <1>8, <2>1, SaveAccountsShape, NodeFrame
  <1>9. ASSUME NEW n \in Node, SyncEnd(n)
        PROVE  NodeShape(m)'
    <2>1. /\ UNCHANGED <<up, chain, storedBlock, storedHeight, saving,
                         producing>>
          /\ m # n => mutex'[m] = mutex[m]
          /\ saving[n] = "done" /\ mutex'[n] = "free"
      BY <1>9 DEF SyncEnd, TypeOK, memory, disk
    <2>2. CASE m # n
      BY <2>1, <2>2, NodeFrame
    <2>3. CASE m = n
      <3>1. ThreadShape(n)'
        BY <2>1 DEF ThreadShape
      <3> QED
        BY <2>1, <2>3, <3>1 DEF NodeShape, ChainShape, DiskShape,
             MemoryMatchesDisk, StoredBefore, RecordedHeight, getLatestBlock
    <2> QED
      BY <2>2, <2>3
  <1>10. \A n \in Node : ThreadShape(n)
    BY DEF NodeShape
  <1> QED
    BY <1>1, <1>2, <1>3, <1>4, <1>5, <1>6, <1>7, <1>8, <1>9, <1>10, StepKinds

-----------------------------------------------------------------------------
(***************************************************************************)
(* What is recorded stays, so what is official stays official              *)
(***************************************************************************)

\* No step touches a block below the recorded height or lowers the height.
LEMMA RecordedStable ==
    ASSUME DiskMayFail = FALSE, TypeOK, LiveShape,
           \A n \in Node : NodeShape(n), [Next]_vars, NEW m \in Node
    PROVE  /\ storedHeight'[m] >= storedHeight[m]
           /\ \A i \in Index : i < RecordedHeight(m) =>
                 storedBlock'[m][i] = storedBlock[m][i]
  <1> USE NetAssumption
  <1>1. storedHeight[m] \in Nat
    BY DEF TypeOK
  <1>2. CASE UNCHANGED <<storedBlock, storedHeight>>
    BY <1>1, <1>2
  <1>3. ASSUME NEW n \in Node, SaveBlock(n)
        PROVE  /\ UNCHANGED storedHeight
               /\ \A i \in Index : i < RecordedHeight(m) =>
                     storedBlock'[m][i] = storedBlock[m][i]
    <2>1. saving[n] \in {"block", "height"} /\ UNCHANGED storedHeight
      BY <1>3 DEF SaveBlock
    <2>2. RecordedHeight(n) = Len(chain[n]) - 1
      BY <2>1, UnsavedTip
    <2>3. /\ \A i \in Index : i # Len(chain[n])-1 =>
                 storedBlock'[n][i] = storedBlock[n][i]
          /\ m # n => storedBlock'[m] = storedBlock[m]
      BY <1>3, SaveBlockWrites
    <2>4. \A i \in Index : i < RecordedHeight(n) => i # Len(chain[n]) - 1
      BY <2>2 DEF Index, TypeOK
    <2> QED
      BY <2>1, <2>3, <2>4
  <1>4. ASSUME NEW n \in Node, SaveHeight(n)
        PROVE  UNCHANGED storedBlock /\ storedHeight'[m] >= storedHeight[m]
    <2>1. /\ saving[n] \in {"block", "height"} /\ UNCHANGED storedBlock
          /\ storedHeight'[n] = Len(chain[n])
          /\ m # n => storedHeight'[m] = storedHeight[m]
      BY <1>4 DEF SaveHeight, TypeOK
    <2>2. RecordedHeight(n) = Len(chain[n]) - 1 /\ Len(chain[n]) \in Nat
      BY <2>1, UnsavedTip DEF TypeOK
    <2>3. storedHeight[n] <= RecordedHeight(n) /\ storedHeight[n] \in Nat
      BY DEF RecordedHeight, TypeOK
    <2> QED
      BY <1>1, <2>1, <2>2, <2>3
  <1>5. ASSUME NEW n \in Node,
               \/ Start(n) \/ Crash(n) \/ AddsSome(n) \/ BroadcastBlock(n)
               \/ EndSaveAccounts(n) \/ SyncEnd(n)
        PROVE  UNCHANGED <<storedBlock, storedHeight>>
    BY <1>5 DEF Start, Crash, AddsSome, Adds, BroadcastBlock, EndSaveAccounts,
         SyncEnd, disk
  <1>6. \A n \in Node : ThreadShape(n)
    BY DEF NodeShape
  <1>7. \/ UNCHANGED <<storedBlock, storedHeight>>
        \/ \E n \in Node : SaveBlock(n) \/ SaveHeight(n)
    BY <1>5, <1>6, StepKinds DEF blockState
  <1> QED
    BY <1>1, <1>2, <1>3, <1>4, <1>7

\* Official and MessageOfficial after the step, of a value known before it.
OfficialAfter(b) ==
    LET p == getProducer(b.index) IN
    /\ p \in Node /\ b.index \in Index
    /\ b.index < IF storedHeight'[p] <= 1 THEN 1 ELSE storedHeight'[p]
    /\ storedBlock'[p][b.index] = b

MessageAfter(m) ==
    /\ m.type = "NEW_BLOCK" => OfficialAfter(m.block)
    /\ m.type = "BLOCKS" => \A j \in 1..Len(m.blocks) : OfficialAfter(m.blocks[j])
    /\ m.type = "GET_BLOCKS" => m.from >= 1

\* The block of an index that counts never changes.
LEMMA OfficialStable ==
    ASSUME DiskMayFail = FALSE, TypeOK, LiveShape,
           \A n \in Node : NodeShape(n), [Next]_vars
    PROVE  /\ \A b : Official(b) => OfficialAfter(b)
           /\ \A m : MessageOfficial(m) => MessageAfter(m)
  <1>1. ASSUME NEW b, Official(b)
        PROVE  OfficialAfter(b)
    <2> DEFINE p == getProducer(b.index)
    <2>1. /\ p \in Node /\ b.index \in Index /\ b.index < RecordedHeight(p)
          /\ storedBlock[p][b.index] = b
      BY <1>1 DEF Official
    <2> HIDE DEF p
    <2>2. /\ storedHeight'[p] >= storedHeight[p]
          /\ storedBlock'[p][b.index] = b
      BY <2>1, RecordedStable
    <2>3. storedHeight[p] \in Nat /\ storedHeight'[p] \in Nat
      <3>1. TypeOK'
        BY TypeStep
      <3> QED
        BY <2>1, <3>1, NetAssumption DEF TypeOK
    <2>4. b.index < IF storedHeight'[p] <= 1 THEN 1 ELSE storedHeight'[p]
      BY <2>1, <2>2, <2>3 DEF RecordedHeight, Index
    <2> QED
      BY <2>1, <2>2, <2>4 DEF OfficialAfter, p
  <1> QED
    BY <1>1 DEF MessageOfficial, MessageAfter

-----------------------------------------------------------------------------
(***************************************************************************)
(* Everything on a wire is official                                        *)
(***************************************************************************)

WiresAfter(w) ==
    \A s \in Session, n \in Node : \A j \in 1..Len(w[s][n]) :
        MessageAfter(w[s][n][j])

\* Sending a message about official blocks leaves only such messages.
LEMMA SentOfficial ==
    ASSUME NEW w \in Wires, NEW n \in Node, NEW S, NEW m \in Message,
           WiresAfter(w), MessageAfter(m)
    PROVE  WiresAfter(Sent(w, n, S, m))
  <1> SUFFICES ASSUME NEW s \in Session, NEW q \in Node,
                      NEW j \in 1..Len(Sent(w, n, S, m)[s][q])
               PROVE  MessageAfter(Sent(w, n, S, m)[s][q][j])
    BY DEF WiresAfter
  <1>1. w[s][q] \in Seq(Message)
    BY DEF Wires
  <1>2. Sent(w, n, S, m)[s][q] \in {w[s][q], Append(w[s][q], m)}
    BY DEF Sent
  <1>3. CASE Sent(w, n, S, m)[s][q] = w[s][q]
    BY <1>3 DEF WiresAfter
  <1>4. CASE Sent(w, n, S, m)[s][q] = Append(w[s][q], m)
    <2>1. CASE j = Len(w[s][q]) + 1
      BY <1>1, <1>4, <2>1
    <2>2. CASE j # Len(w[s][q]) + 1
      <3>1. j \in 1..Len(w[s][q]) /\ Append(w[s][q], m)[j] = w[s][q][j]
        BY <1>1, <1>4, <2>2
      <3> QED
        BY <1>4, <3>1 DEF WiresAfter
    <2> QED
      BY <2>1, <2>2
  <1> QED
    BY <1>2, <1>3, <1>4

\* Taking a message off a wire leaves messages that were there ...
LEMMA ConsumedOfficial ==
    ASSUME NEW w \in Wires, NEW n \in Node, NEW s \in Session,
           w[s][n] # << >>, WiresAfter(w)
    PROVE  WiresAfter(Consumed(w, n, s))
  <1> SUFFICES ASSUME NEW r \in Session, NEW q \in Node,
                      NEW j \in 1..Len(Consumed(w, n, s)[r][q])
               PROVE  MessageAfter(Consumed(w, n, s)[r][q][j])
    BY DEF WiresAfter
  <1>1. w[r][q] \in Seq(Message) /\ w[s][n] \in Seq(Message)
    BY DEF Wires
  <1>2. CASE r = s /\ q = n
    <2>1. Consumed(w, n, s)[r][q] = Tail(w[s][n])
      BY <1>2 DEF Consumed, Wires
    <2>2. j+1 \in 1..Len(w[s][n]) /\ Tail(w[s][n])[j] = w[s][n][j+1]
      BY <1>1, <2>1
    <2> QED
      BY <2>1, <2>2 DEF WiresAfter
  <1>3. CASE ~ (r = s /\ q = n)
    <2>1. Consumed(w, n, s)[r][q] = w[r][q]
      BY <1>3 DEF Consumed, Wires
    <2> QED
      BY <2>1 DEF WiresAfter
  <1> QED
    BY <1>2, <1>3

\* ... and so does losing what was on its way.
LEMMA DiscardedOfficial ==
    ASSUME NEW w, NEW n \in Node, NEW S, WiresAfter(w)
    PROVE  WiresAfter(Discarded(w, n, S))
  BY DEF WiresAfter, Discarded

\* A running node that is not writing has only official blocks after genesis.
LEMMA IdleChainOfficial ==
    ASSUME TypeOK, NEW n \in Node, NodeShape(n), StoredOfficial(n), up[n],
           saving[n] \notin {"block", "height"}
    PROVE  \A i \in 2..Len(chain[n]) : Official(chain[n][i])
  <1> SUFFICES ASSUME NEW i \in 2..Len(chain[n])
               PROVE  Official(chain[n][i])
    OBVIOUS
  <1>1. RecordedHeight(n) = Len(chain[n]) /\ Len(chain[n]) \in Nat
    BY DEF NodeShape, MemoryMatchesDisk, TypeOK
  <1>2. i-1 \in 1..RecordedHeight(n)-1
    BY <1>1
  <1>3. storedBlock[n][i-1] = chain[n][i]
    BY <1>2 DEF NodeShape, MemoryMatchesDisk
  <1> QED
    BY <1>2, <1>3 DEF StoredOfficial

\* The elements of what is left of a sequence after its first k.
LEMMA SuffixElements ==
    ASSUME NEW S, NEW q \in Seq(S), NEW k \in Nat
    PROVE  \A j \in 1..Len(SubSeq(q, k+1, Len(q))) :
              k+j \in 1..Len(q) /\ SubSeq(q, k+1, Len(q))[j] = q[k+j]
  <1>1. Len(q) \in Nat
    OBVIOUS
  <1>2. CASE k+1 <= Len(q)
    BY <1>1, <1>2
  <1>3. CASE ~ (k+1 <= Len(q))
    BY <1>1, <1>3
  <1> QED
    BY <1>2, <1>3

\* What a node reads next is about official blocks.
LEMMA HeadOfficial ==
    ASSUME TypeOK, WireOfficial, NEW n \in Node, NEW s \in Session,
           wire[s][n] # << >>
    PROVE  Head(wire[s][n]) \in Message /\ MessageOfficial(Head(wire[s][n]))
  <1>1. wire[s][n] \in Seq(Message)
    BY DEF TypeOK, Wires
  <1>2. 1 \in 1..Len(wire[s][n]) /\ Head(wire[s][n]) = wire[s][n][1]
    BY <1>1
  <1> QED
    BY <1>1, <1>2 DEF WireOfficial

\* Every step leaves only messages about official blocks on the wires.
LEMMA WireStep ==
    ASSUME DiskMayFail = FALSE, TypeOK, OneHistory, [Next]_vars
    PROVE  WiresAfter(wire')
  <1> USE NetAssumption
  <1>1. /\ LiveShape /\ \A n \in Node : NodeShape(n)
        /\ \A n \in Node : StoredOfficial(n) /\ HeldOfficial(n)
        /\ WireOfficial
    BY DEF OneHistory
  <1>2. /\ \A b : Official(b) => OfficialAfter(b)
        /\ \A m : MessageOfficial(m) => MessageAfter(m)
    BY <1>1, OfficialStable
  <1>3. WiresAfter(wire) /\ wire \in Wires
    BY <1>1, <1>2 DEF WireOfficial, WiresAfter, TypeOK
  <1>4. ASSUME NEW n \in Node, up[n]
        PROVE  /\ GetBlocks(Len(chain[n])) \in Message
               /\ MessageAfter(GetBlocks(Len(chain[n])))
    <2>1. Len(chain[n]) \in Nat /\ Len(chain[n]) >= 1
      BY <1>1, <1>4 DEF LiveShape, TypeOK
    <2> QED
      BY <2>1, MessageTypes DEF GetBlocks, MessageAfter
  <1>5. ASSUME NEW n \in Node, NEW s \in Session, Handle(n, s)
        PROVE  WiresAfter(wire')
    <2> DEFINE msg == Head(wire[s][n])
    <2>1. up[n] /\ mutex[n] = "free" /\ wire[s][n] # << >>
      BY <1>5 DEF Handle, Receives, OnNewBlockAhead, OnNewBlockNext,
           OnNewBlockIgnored, OnNewTxAccepted, OnNewTxIgnored, OnGetBlocks,
           OnBlocks, OnBlocksUseless
    <2>2. /\ Consumed(wire, n, s) \in Wires
          /\ WiresAfter(Consumed(wire, n, s))
      BY <1>3, <2>1, ConsumedType, ConsumedOfficial
    <2>3. CASE OnNewBlockAhead(n, s)
      <3>1. wire' = Sent(Consumed(wire, n, s), n, {s}, GetBlocks(Len(chain[n])))
        BY <2>3 DEF OnNewBlockAhead
      <3> QED
        BY <1>4, <2>1, <2>2, <3>1, SentOfficial
    <2>4. CASE OnGetBlocks(n, s)
      <3> DEFINE from == msg.from
                 bs == SubSeq(chain[n], from + 1, Len(chain[n]))
      <3>1. from \in Nat /\ from >= 1
        <4>1. msg.type = "GET_BLOCKS"
          BY <2>4 DEF OnGetBlocks, Receives
        <4>2. msg \in Message /\ MessageOfficial(msg)
          BY <1>1, <2>1, HeadOfficial
        <4> QED
          BY <4>1, <4>2, MessagePayload DEF MessageOfficial
      <3>2. chain[n] \in Seq(NetBlock) /\ Len(chain[n]) \in Nat
        BY DEF TypeOK
      <3>3. bs \in Seq(NetBlock)
        BY <3>1, <3>2
      <3>4. \A j \in 1..Len(bs) : /\ from + j \in 2..Len(chain[n])
                                  /\ bs[j] = chain[n][from + j]
        <4>1. \A j \in 1..Len(bs) : /\ from + j \in 1..Len(chain[n])
                                    /\ bs[j] = chain[n][from + j]
          BY <3>1, <3>2, SuffixElements
        <4> HIDE DEF bs, from
        <4>2. \A j \in 1..Len(bs) : from + j >= 2
          BY <3>1
        <4> QED
          BY <3>2, <4>1, <4>2
      <3>5. saving[n] \notin {"block", "height"}
        BY <1>1, <2>1 DEF NodeShape, ThreadShape
      <3>6. \A i \in 2..Len(chain[n]) : Official(chain[n][i])
        BY <1>1, <2>1, <3>5, IdleChainOfficial
      <3>7. wire' = Sent(Consumed(wire, n, s), n, {s}, Blocks(bs))
        BY <2>4 DEF OnGetBlocks
      <3> HIDE DEF bs
      <3>8. \A j \in 1..Len(bs) : OfficialAfter(bs[j])
        BY <1>2, <3>4, <3>6
      <3>9. Blocks(bs) \in Message /\ MessageAfter(Blocks(bs))
        BY <3>3, <3>8, MessageTypes DEF Blocks, MessageAfter
      <3> QED
        BY <2>2, <3>7, <3>9, SentOfficial
    <2>5. CASE wire' = Consumed(wire, n, s)
      BY <2>2, <2>5
    <2> QED
      BY <1>5, <2>3, <2>4, <2>5 DEF Handle, OnNewBlockNext, OnNewBlockIgnored,
           OnNewTxAccepted, OnNewTxIgnored, OnBlocks, OnBlocksUseless
  <1>6. ASSUME NEW n \in Node, OnPeerConnected(n)
        PROVE  WiresAfter(wire')
    <2>1. /\ up[n]
          /\ wire' = Sent(wire, n, {handler[n].session}, GetBlocks(Len(chain[n])))
      BY <1>6 DEF OnPeerConnected
    <2> QED
      BY <1>3, <1>4, <2>1, SentOfficial
  <1>7. ASSUME NEW n \in Node, Forward(n)
        PROVE  WiresAfter(wire')
    <2>1. /\ handler[n].kind = "forward"
          /\ wire' = Sent(wire, n, open[n] \ {handler[n].from}, handler[n].msg)
      BY <1>7 DEF Forward
    <2>2. handler[n].msg \in Message /\ MessageAfter(handler[n].msg)
      BY <1>1, <1>2, <2>1, HandlerPayload DEF HeldOfficial, TypeOK
    <2> QED
      BY <1>3, <2>1, <2>2, SentOfficial
  <1>8. ASSUME NEW n \in Node, BroadcastBlock(n)
        PROVE  WiresAfter(wire')
    <2>1. /\ producing[n] # None /\ mutex[n] # "main"
          /\ wire' = Sent(wire, n, open[n], NewBlock(producing[n]))
      BY <1>8 DEF BroadcastBlock
    <2>2. OfficialAfter(producing[n]) /\ producing[n] \in NetBlock
      BY <1>1, <1>2, <2>1 DEF HeldOfficial, TypeOK
    <2>3. NewBlock(producing[n]) \in Message /\ MessageAfter(NewBlock(producing[n]))
      BY <2>2, MessageTypes DEF NewBlock, MessageAfter
    <2> QED
      BY <1>3, <2>1, <2>3, SentOfficial
  <1>9. ASSUME NEW n \in Node, NEW tx \in Txs, BroadcastTx(n, tx)
        PROVE  WiresAfter(wire')
    <2>1. wire' = Sent(wire, n, open[n], NewTx(tx))
      BY <1>9 DEF BroadcastTx
    <2>2. NewTx(tx) \in Message /\ MessageAfter(NewTx(tx))
      BY MessageTypes DEF NewTx, MessageAfter
    <2> QED
      BY <1>3, <2>1, <2>2, SentOfficial
  <1>10. ASSUME NEW n \in Node,
                \/ Crash(n)
                \/ \E s \in Session :
                      RefuseMessage(n, s) \/ Disconnect(n, s) \/ LoseConnection(n, s)
         PROVE  WiresAfter(wire')
    <2>1. \E S : wire' = Discarded(wire, n, S)
      BY <1>10 DEF Crash, RefuseMessage, Disconnect, LoseConnection, Disconnected
    <2> QED
      BY <1>3, <2>1, DiscardedOfficial
  <1>11. ASSUME NEW n \in Node,
                \/ Start(n) \/ ProduceBlock(n) \/ SaveStep(n) \/ SaveFails(n)
                \/ SyncNext(n) \/ SyncEnd(n)
                \/ (\E p \in Node : Dial(n, p))
                \/ (\E s \in Session : Accept(n, s))
                \/ \E tx \in Txs : SubmitTransaction(n, tx)
         PROVE  UNCHANGED wire
    BY <1>11 DEF Start, ProduceBlock, SaveStep, SaveBlock, SaveHeight,
         SaveAccountState, EndSaveAccounts, SaveFails, SyncNext, SyncEnd, Dial,
         Connect, ConnectFails, Accept, SubmitTransaction, network
  <1>12. CASE UNCHANGED wire
    BY <1>3, <1>12
  <1>13. CASE UNCHANGED vars
    BY <1>12, <1>13 DEF vars, network
  <1> QED
    BY <1>5, <1>6, <1>7, <1>8, <1>9, <1>10, <1>11, <1>12, <1>13
    DEF Next, MainStep, Resume

-----------------------------------------------------------------------------
(***************************************************************************)
(* Everything that the threads hold is official                            *)
(***************************************************************************)

\* What has reached a node is official.
LEMMA DeliveredOfficial ==
    ASSUME TypeOK, WireOfficial, NEW n \in Node, HeldOfficial(n), NEW b,
           Delivered(n, b)
    PROVE  Official(b)
  <1>1. ASSUME NEW s \in Session, wire[s][n] # << >>
        PROVE  MessageOfficial(Head(wire[s][n]))
    BY <1>1, HeadOfficial
  <1> QED
    BY <1>1 DEF Delivered, MessageOfficial, HeldOfficial

HandlerAfter(h) ==
    /\ h.kind = "forward" => MessageAfter(h.msg)
    /\ h.kind = "sync" => \A j \in 1..Len(h.blocks) : OfficialAfter(h.blocks[j])

\* What is left for onBlocks after one round is official if all of it was.
LEMMA SyncingOfficial ==
    ASSUME NEW bs \in Seq(NetBlock), NEW k \in 1..Len(bs),
           \A j \in 1..Len(bs) : OfficialAfter(bs[j])
    PROVE  HandlerAfter(Syncing(SubSeq(bs, k+1, Len(bs))))
  <1>1. k \in Nat
    OBVIOUS
  <1>2. \A j \in 1..Len(SubSeq(bs, k+1, Len(bs))) :
            OfficialAfter(SubSeq(bs, k+1, Len(bs))[j])
    BY <1>1, SuffixElements
  <1> QED
    BY <1>2 DEF HandlerAfter, Syncing

\* Every step leaves the io threads with official blocks only.
LEMMA HandlerStep ==
    ASSUME DiskMayFail = FALSE, TypeOK, OneHistory, [Next]_vars
    PROVE  \A n \in Node : HandlerAfter(handler'[n])
  <1> USE NetAssumption
  <1>1. /\ LiveShape /\ \A n \in Node : NodeShape(n)
        /\ \A n \in Node : HeldOfficial(n)
        /\ WireOfficial
    BY DEF OneHistory
  <1>2. /\ \A b : Official(b) => OfficialAfter(b)
        /\ \A m : MessageOfficial(m) => MessageAfter(m)
    BY <1>1, OfficialStable
  <1>3. \A n \in Node : HandlerAfter(handler[n])
    BY <1>1, <1>2 DEF HeldOfficial, HandlerAfter
  <1>4. /\ HandlerAfter(Idle)
        /\ \A s : HandlerAfter(Greeting(s))
        /\ \A m, s : MessageAfter(m) => HandlerAfter(Forwarding(m, s))
    BY DEF HandlerAfter, Idle, Greeting, Forwarding
  <1>5. ASSUME NEW n \in Node, NEW h, HandlerAfter(h),
               handler' = [handler EXCEPT ![n] = h]
        PROVE  \A m \in Node : HandlerAfter(handler'[m])
    BY <1>3, <1>5 DEF TypeOK
  <1>6. CASE UNCHANGED handler
    BY <1>3, <1>6
  <1>7. ASSUME NEW n \in Node,
               \/ Crash(n) \/ OnPeerConnected(n) \/ Forward(n) \/ SyncEnd(n)
               \/ SaveFails(n)
        PROVE  \A m \in Node : HandlerAfter(handler'[m])
    <2>1. handler' = [handler EXCEPT ![n] = Idle]
      BY <1>7 DEF Crash, OnPeerConnected, Forward, SyncEnd, SaveFails
    <2> QED
      BY <1>4, <1>5, <2>1
  <1>8. ASSUME NEW n \in Node, NEW s \in Session, Accept(n, s)
        PROVE  \A m \in Node : HandlerAfter(handler'[m])
    <2>1. handler' = [handler EXCEPT ![n] = Greeting(s)]
      BY <1>8 DEF Accept
    <2> QED
      BY <1>4, <1>5, <2>1
  <1>9. ASSUME NEW n \in Node, NEW s \in Session,
               OnNewBlockNext(n, s) \/ OnNewTxAccepted(n, s)
        PROVE  \A m \in Node : HandlerAfter(handler'[m])
    <2>1. /\ wire[s][n] # << >>
          /\ handler' = [handler EXCEPT ![n] = Forwarding(Head(wire[s][n]), s)]
      BY <1>9 DEF OnNewBlockNext, OnNewTxAccepted, Receives
    <2>2. MessageAfter(Head(wire[s][n]))
      BY <1>1, <1>2, <2>1, HeadOfficial
    <2> QED
      BY <1>4, <1>5, <2>1, <2>2
  <1>10. ASSUME NEW n \in Node, NEW bs \in Seq(NetBlock), SyncBlock(n, bs),
                \A j \in 1..Len(bs) : Official(bs[j])
         PROVE  \A m \in Node : HandlerAfter(handler'[m])
    <2>1. PICK k \in 1..Len(bs) : handler' =
              [handler EXCEPT ![n] = Syncing(SubSeq(bs, k+1, Len(bs)))]
      BY <1>10 DEF SyncBlock
    <2>2. HandlerAfter(Syncing(SubSeq(bs, k+1, Len(bs))))
      BY <1>2, <1>10, SyncingOfficial
    <2> QED
      BY <1>5, <2>1, <2>2
  <1>11. ASSUME NEW n \in Node, NEW s \in Session, OnBlocks(n, s)
         PROVE  \A m \in Node : HandlerAfter(handler'[m])
    <2>1. /\ wire[s][n] # << >> /\ Head(wire[s][n]).type = "BLOCKS"
          /\ SyncBlock(n, Head(wire[s][n]).blocks)
      BY <1>11 DEF OnBlocks, Receives
    <2>2. Head(wire[s][n]) \in Message /\ MessageOfficial(Head(wire[s][n]))
      BY <1>1, <2>1, HeadOfficial
    <2>3. /\ Head(wire[s][n]).blocks \in Seq(NetBlock)
          /\ \A j \in 1..Len(Head(wire[s][n]).blocks) :
                Official(Head(wire[s][n]).blocks[j])
      BY <2>1, <2>2, MessagePayload DEF MessageOfficial
    <2> QED
      BY <1>10, <2>1, <2>3
  <1>12. ASSUME NEW n \in Node, SyncNext(n)
         PROVE  \A m \in Node : HandlerAfter(handler'[m])
    <2>1. handler[n].kind = "sync" /\ SyncBlock(n, handler[n].blocks)
      BY <1>12 DEF SyncNext
    <2>2. /\ handler[n].blocks \in Seq(NetBlock)
          /\ \A j \in 1..Len(handler[n].blocks) : Official(handler[n].blocks[j])
      BY <1>1, <2>1, HandlerPayload DEF TypeOK, HeldOfficial
    <2> QED
      BY <1>10, <2>1, <2>2
  <1>13. ASSUME NEW n \in Node,
                \/ Start(n) \/ MainStep(n) \/ SaveStep(n)
                \/ (\E p \in Node : Dial(n, p))
                \/ \E tx \in Txs : SubmitTransaction(n, tx) \/ BroadcastTx(n, tx)
         PROVE  UNCHANGED handler
    BY <1>13 DEF Start, MainStep, ProduceBlock, BroadcastBlock, SaveStep,
         SaveBlock, SaveHeight, SaveAccountState, EndSaveAccounts, Dial,
         Connect, ConnectFails,
         SubmitTransaction, BroadcastTx, threads
  <1>14. ASSUME NEW n \in Node, NEW s \in Session,
                \/ RefuseMessage(n, s) \/ Disconnect(n, s) \/ LoseConnection(n, s)
                \/ OnNewBlockAhead(n, s) \/ OnNewBlockIgnored(n, s)
                \/ OnNewTxIgnored(n, s) \/ OnGetBlocks(n, s)
                \/ OnBlocksUseless(n, s)
         PROVE  UNCHANGED handler
    BY <1>14 DEF RefuseMessage, Disconnect, LoseConnection, Disconnected, OnNewBlockAhead,
         OnNewBlockIgnored, OnNewTxIgnored, OnGetBlocks, OnBlocksUseless, threads
  <1>15. CASE UNCHANGED vars
    BY <1>6, <1>15 DEF vars, threads
  <1> QED
    BY <1>6, <1>7, <1>8, <1>9, <1>11, <1>12, <1>13, <1>14, <1>15
    DEF Next, Resume, Handle

-----------------------------------------------------------------------------
(***************************************************************************)
(* What a disk records and what its owner is about to write                *)
(***************************************************************************)

\* Every step leaves only official blocks below the recorded heights: the one
\* block that saveChainHeight adds is either our own, and our disk decides, or
\* was official before we accepted it.
LEMMA StoredStep ==
    ASSUME DiskMayFail = FALSE, TypeOK, OneHistory, [Next]_vars,
           NEW m \in Node, NEW i \in 1..RecordedHeight(m)'-1
    PROVE  OfficialAfter(storedBlock'[m][i])
  <1> USE NetAssumption
  <1>1. /\ LiveShape /\ \A n \in Node : NodeShape(n)
        /\ \A n \in Node : TipOwned(n) /\ StoredOfficial(n)
        /\ \A n \in Node : ThreadShape(n)
    BY DEF OneHistory, NodeShape
  <1>2. TypeOK' /\ \A b : Official(b) => OfficialAfter(b)
    BY <1>1, OfficialStable, TypeStep
  <1>3. /\ storedHeight[m] \in 0..MaxHeight /\ storedHeight'[m] \in 0..MaxHeight
        /\ i \in Index
    <2>1. storedHeight[m] \in 0..MaxHeight /\ storedHeight'[m] \in 0..MaxHeight
      BY <1>2 DEF TypeOK
    <2> QED
      BY <2>1 DEF RecordedHeight, Index
  <1>4. CASE i < RecordedHeight(m)
    <2>1. i \in 1..RecordedHeight(m)-1
      BY <1>3, <1>4 DEF RecordedHeight
    <2>2. storedBlock'[m][i] = storedBlock[m][i]
      BY <1>1, <1>3, <1>4, RecordedStable
    <2> QED
      BY <1>1, <1>2, <2>1, <2>2 DEF StoredOfficial
  <1>5. CASE ~ (i < RecordedHeight(m))
    <2>1. storedHeight'[m] # storedHeight[m]
      BY <1>3, <1>5 DEF RecordedHeight
    <2>2. SaveHeight(m)
      <3>1. ASSUME NEW n \in Node,
                   \/ Start(n) \/ Crash(n) \/ AddsSome(n) \/ BroadcastBlock(n)
                   \/ SaveBlock(n) \/ EndSaveAccounts(n) \/ SyncEnd(n)
            PROVE  UNCHANGED storedHeight
        BY <3>1 DEF Start, Crash, AddsSome, Adds, BroadcastBlock, SaveBlock,
             EndSaveAccounts, SyncEnd, disk
      <3>2. ASSUME NEW n \in Node, SaveHeight(n), n # m
            PROVE  storedHeight'[m] = storedHeight[m]
        BY <3>2 DEF SaveHeight, TypeOK
      <3> QED
        BY <1>1, <2>1, <3>1, <3>2, StepKinds DEF blockState
    <2>3. saving[m] = "height" /\ UNCHANGED storedBlock
      BY <2>2 DEF SaveHeight
    <2>4. /\ RecordedHeight(m) = Len(chain[m]) - 1
          /\ Len(chain[m]) \in 2..MaxHeight /\ up[m]
          /\ getLatestBlock(chain[m]).index = Len(chain[m]) - 1
      BY <1>1, <2>3, UnsavedTip
    <2>5. RecordedHeight(m)' = Len(chain[m])
      BY <1>1, <2>2, SaveHeightShape
    <2>6. i = Len(chain[m]) - 1
      BY <1>3, <1>5, <2>4, <2>5
    <2>7. storedBlock'[m][i] = getLatestBlock(chain[m])
      BY <1>1, <2>3, <2>4, <2>6 DEF NodeShape, MemoryMatchesDisk
    <2>8. CASE mutex[m] = "main"
      <3>1. getProducer(i) = m
        BY <1>1, <2>3, <2>6, <2>8 DEF TipOwned
      <3>2. i < IF storedHeight'[m] <= 1 THEN 1 ELSE storedHeight'[m]
        BY <1>3, <2>5, <2>6, <2>4 DEF RecordedHeight
      <3> QED
        BY <1>3, <2>4, <2>6, <2>7, <3>1, <3>2 DEF OfficialAfter
    <2>9. CASE mutex[m] # "main"
      <3>1. Official(getLatestBlock(chain[m]))
        BY <1>1, <2>3, <2>9 DEF TipOwned
      <3> QED
        BY <1>2, <2>7, <3>1
    <2> QED
      BY <2>8, <2>9
  <1> QED
    BY <1>4, <1>5

TipAfter(m) ==
    saving'[m] \in {"block", "height"} =>
        IF mutex'[m] = "main" THEN getProducer(Len(chain'[m])-1) = m
                              ELSE OfficialAfter(getLatestBlock(chain'[m]))

\* Every step leaves each node with a tip that is its own or official.
LEMMA TipStep ==
    ASSUME DiskMayFail = FALSE, TypeOK, OneHistory, [Next]_vars,
           NEW m \in Node
    PROVE  TipAfter(m)
  <1>1. /\ LiveShape /\ \A n \in Node : NodeShape(n)
        /\ \A n \in Node : TipOwned(n) /\ HeldOfficial(n)
        /\ \A n \in Node : ThreadShape(n)
        /\ WireOfficial
    BY DEF OneHistory, NodeShape
  <1>2. \A b : Official(b) => OfficialAfter(b)
    BY <1>1, OfficialStable
  <1>3. CASE /\ saving'[m] = saving[m] /\ mutex'[m] = mutex[m]
             /\ chain'[m] = chain[m]
    BY <1>1, <1>2, <1>3 DEF TipOwned, TipAfter, getLatestBlock
  <1>4. CASE saving'[m] \notin {"block", "height"}
    BY <1>4 DEF TipAfter
  <1>5. ASSUME NEW n \in Node, Start(n) \/ Crash(n)
        PROVE  TipAfter(m)
    <2>1. CASE n = m
      <3>1. saving'[m] = "done"
        BY <1>1, <1>5, <2>1 DEF Start, Crash, LiveShape, TypeOK, threads
      <3> QED
        BY <1>4, <3>1
    <2>2. CASE n # m
      <3>1. saving'[m] = saving[m] /\ mutex'[m] = mutex[m] /\ chain'[m] = chain[m]
        BY <1>5, <2>2 DEF Start, Crash, TypeOK, threads
      <3> QED
        BY <1>3, <3>1
    <2> QED
      BY <2>1, <2>2
  <1>6. ASSUME NEW n \in Node, AddsSome(n)
        PROVE  TipAfter(m)
    <2>1. PICK b, t : Adds(n, b, t)
      BY <1>6 DEF AddsSome
    <2>2. CASE n # m
      <3>1. saving'[m] = saving[m] /\ mutex'[m] = mutex[m] /\ chain'[m] = chain[m]
        BY <2>1, <2>2 DEF Adds, BlockAccepted, TypeOK
      <3> QED
        BY <1>3, <3>1
    <2>3. CASE n = m
      <3>1. /\ chain'[m] = Append(chain[m], b) /\ mutex'[m] = t
            /\ chain[m] \in Seq(NetBlock)
        BY <2>1, <2>3 DEF Adds, BlockAccepted, TypeOK
      <3>2. Len(chain'[m]) - 1 = Len(chain[m]) /\ getLatestBlock(chain'[m]) = b
        BY <3>1 DEF getLatestBlock
      <3>3. CASE t = "main"
        BY <2>1, <2>3, <3>1, <3>2, <3>3 DEF Adds, TipAfter
      <3>4. CASE t = "io"
        <4>1. Official(b)
          BY <1>1, <2>1, <2>3, <3>4, DeliveredOfficial DEF Adds
        <4> QED
          BY <1>2, <3>1, <3>2, <3>4, <4>1 DEF TipAfter
      <3> QED
        BY <2>1, <3>3, <3>4 DEF Adds
    <2> QED
      BY <2>2, <2>3
  <1>7. ASSUME NEW n \in Node, BroadcastBlock(n)
        PROVE  TipAfter(m)
    BY <1>3, <1>7 DEF BroadcastBlock, memory
  <1>8. ASSUME NEW n \in Node, SyncEnd(n)
        PROVE  TipAfter(m)
    <2>1. UNCHANGED <<saving, chain>> /\ saving[n] = "done"
      BY <1>8 DEF SyncEnd, memory
    <2>2. n # m => mutex'[m] = mutex[m]
      BY <1>8 DEF SyncEnd, TypeOK
    <2> QED
      BY <1>3, <1>4, <2>1, <2>2
  <1>9. ASSUME NEW n \in Node, SaveBlock(n)
        PROVE  TipAfter(m)
    <2>1. UNCHANGED <<chain, mutex>> /\ saving[n] = "block"
      BY <1>9 DEF SaveBlock, memory
    <2>2. n # m => saving'[m] = saving[m]
      BY <1>9 DEF SaveBlock, TypeOK
    <2>3. CASE n = m
      BY <1>1, <1>2, <2>1, <2>3 DEF TipOwned, TipAfter, getLatestBlock
    <2> QED
      BY <1>3, <2>1, <2>2, <2>3
  <1>10. ASSUME NEW n \in Node, SaveHeight(n) \/ EndSaveAccounts(n)
         PROVE  TipAfter(m)
    <2>1. saving'[n] \notin {"block", "height"} /\ UNCHANGED chain
      BY <1>10 DEF SaveHeight, EndSaveAccounts, Saved, TypeOK, memory
    <2>2. n # m => saving'[m] = saving[m] /\ mutex'[m] = mutex[m]
      BY <1>10 DEF SaveHeight, EndSaveAccounts, Saved, TypeOK
    <2> QED
      BY <1>3, <1>4, <2>1, <2>2
  <1>11. CASE UNCHANGED blockState
    BY <1>3, <1>11 DEF blockState
  <1> QED
    BY <1>1, <1>5, <1>6, <1>7, <1>8, <1>9, <1>10, <1>11, StepKinds

ProducingAfter(m) ==
    producing'[m] # None /\ mutex'[m] # "main" => OfficialAfter(producing'[m])

\* When produceBlock lets go of the mutex, the block that it is going to
\* broadcast is official: the height that covers it is on disk.
LEMMA ProducingStep ==
    ASSUME DiskMayFail = FALSE, TypeOK, OneHistory, [Next]_vars,
           NEW m \in Node
    PROVE  ProducingAfter(m)
  <1> USE NetAssumption
  <1>1. /\ LiveShape /\ \A n \in Node : NodeShape(n) /\ HeldOfficial(n)
        /\ \A n \in Node : ThreadShape(n)
    BY DEF OneHistory, NodeShape
  <1>2. \A b : Official(b) => OfficialAfter(b)
    BY <1>1, OfficialStable
  <1>3. CASE producing'[m] = producing[m] /\ mutex[m] # "main"
    BY <1>1, <1>2, <1>3 DEF HeldOfficial, ProducingAfter
  <1>4. CASE producing'[m] = producing[m] /\ mutex'[m] = mutex[m]
    BY <1>1, <1>2, <1>4 DEF HeldOfficial, ProducingAfter
  <1>5. CASE producing'[m] = None \/ mutex'[m] = "main"
    BY <1>5 DEF ProducingAfter
  <1>6. ASSUME NEW n \in Node, Start(n) \/ Crash(n) \/ BroadcastBlock(n)
        PROVE  ProducingAfter(m)
    <2>1. \/ producing'[m] = None
          \/ producing'[m] = producing[m] /\ mutex'[m] = mutex[m]
      BY <1>6 DEF Start, Crash, BroadcastBlock, TypeOK, threads
    <2> QED
      BY <1>4, <1>5, <2>1
  <1>7. ASSUME NEW n \in Node, AddsSome(n)
        PROVE  ProducingAfter(m)
    <2>1. PICK b, t : Adds(n, b, t)
      BY <1>7 DEF AddsSome
    <2>2. CASE n # m
      <3>1. producing'[m] = producing[m] /\ mutex'[m] = mutex[m]
        BY <2>1, <2>2 DEF Adds, BlockAccepted, TypeOK
      <3> QED
        BY <1>4, <3>1
    <2>3. CASE n = m
      <3>1. mutex'[m] = t /\ mutex[m] # "main"
        BY <2>1, <2>3 DEF Adds, BlockAccepted, TypeOK
      <3>2. t = "main" \/ producing'[m] = producing[m]
        BY <2>1 DEF Adds
      <3> QED
        BY <1>3, <1>5, <3>1, <3>2
    <2> QED
      BY <2>2, <2>3
  <1>8. ASSUME NEW n \in Node, SaveBlock(n)
        PROVE  ProducingAfter(m)
    <2>1. producing'[m] = producing[m] /\ mutex'[m] = mutex[m]
      BY <1>8 DEF SaveBlock
    <2> QED
      BY <1>4, <2>1
  <1>9. ASSUME NEW n \in Node, SyncEnd(n)
        PROVE  ProducingAfter(m)
    <2>1. /\ producing'[m] = producing[m]
          /\ mutex[n] # "main" /\ (n # m => mutex'[m] = mutex[m])
      BY <1>9 DEF SyncEnd, TypeOK
    <2> QED
      BY <1>3, <1>4, <2>1
  <1>10. ASSUME NEW n \in Node, SaveHeight(n) \/ EndSaveAccounts(n)
         PROVE  ProducingAfter(m)
    <2>1. /\ UNCHANGED <<producing, chain, up>>
          /\ saving[n] \in {"height", "accounts"}
          /\ n # m => mutex'[m] = mutex[m]
      BY <1>10 DEF SaveHeight, EndSaveAccounts, Saved, TypeOK, memory
    <2>2. CASE n # m \/ mutex[m] # "main"
      BY <1>3, <1>4, <2>1, <2>2
    <2>3. CASE n = m /\ mutex[m] = "main"
      <3>1. /\ producing[m] = chain[m][Len(chain[m])]
            /\ Len(chain[m]) \in Nat /\ Len(chain[m]) >= 2 /\ up[m]
        <4>1. producing[m] = chain[m][Len(chain[m])] /\ Len(chain[m]) >= 2
          BY <1>1, <2>1, <2>3 DEF ThreadShape, getLatestBlock
        <4>2. up[m]
          BY <1>1, <2>1, <2>3 DEF LiveShape
        <4> QED
          BY <4>1, <4>2 DEF TypeOK
      <3>2. /\ RecordedHeight(m)' = Len(chain[m])
            /\ storedBlock'[m][Len(chain[m])-1] = chain[m][Len(chain[m])]
        <4>1. NodeShape(m)'
          BY <1>1, NodeShapeStep
        <4>2. saving'[m] \notin {"block", "height"}
          BY <1>10, <2>3 DEF SaveHeight, EndSaveAccounts, Saved, TypeOK
        <4>3. /\ RecordedHeight(m)' = Len(chain[m])
              /\ \A i \in 1..RecordedHeight(m)'-1 :
                    storedBlock'[m][i] = chain[m][i+1]
          BY <2>1, <3>1, <4>1, <4>2 DEF NodeShape, MemoryMatchesDisk
        <4>4. Len(chain[m])-1 \in 1..RecordedHeight(m)'-1
          BY <3>1, <4>3
        <4>5. storedBlock'[m][Len(chain[m])-1] = chain[m][Len(chain[m])-1+1]
          BY <4>3, <4>4
        <4>6. Len(chain[m])-1+1 = Len(chain[m])
          BY <3>1
        <4> QED
          BY <4>3, <4>5, <4>6
      <3>3. Len(chain[m])-1 \in 1..RecordedHeight(m)'-1
        BY <3>1, <3>2
      <3>4. OfficialAfter(storedBlock'[m][Len(chain[m])-1])
        BY <3>3, StoredStep
      <3> QED
        BY <2>1, <3>1, <3>2, <3>4 DEF ProducingAfter
    <2> QED
      BY <2>2, <2>3
  <1>11. CASE UNCHANGED blockState
    BY <1>4, <1>11 DEF blockState
  <1> QED
    BY <1>1, <1>6, <1>7, <1>8, <1>9, <1>10, <1>11, StepKinds

-----------------------------------------------------------------------------
(***************************************************************************)
(* The theorems                                                            *)
(***************************************************************************)

\* OneHistory is inductive, together with the types.
LEMMA OneHistoryStep ==
    ASSUME DiskMayFail = FALSE, TypeOK, OneHistory, [Next]_vars
    PROVE  OneHistory'
  <1>1. LiveShape /\ \A n \in Node : NodeShape(n)
    BY DEF OneHistory
  <1>2. LiveShape' /\ \A n \in Node : NodeShape(n)'
    BY <1>1, TypeStep, NodeShapeStep
  <1>3. ASSUME NEW n \in Node
        PROVE  TipOwned(n)'
    <2>1. TipAfter(n)
      BY TipStep
    <2> QED
      BY <2>1 DEF TipAfter, TipOwned, OfficialAfter, Official, RecordedHeight
  <1>4. ASSUME NEW n \in Node
        PROVE  StoredOfficial(n)'
    <2>1. \A i \in 1..RecordedHeight(n)'-1 : OfficialAfter(storedBlock'[n][i])
      BY StoredStep
    <2> QED
      BY <2>1 DEF StoredOfficial, OfficialAfter, Official, RecordedHeight
  <1>5. ASSUME NEW n \in Node
        PROVE  HeldOfficial(n)'
    <2>1. ProducingAfter(n) /\ HandlerAfter(handler'[n])
      BY ProducingStep, HandlerStep
    <2>2. (producing[n] # None /\ mutex[n] # "main" => Official(producing[n]))'
      BY <2>1 DEF ProducingAfter, OfficialAfter, Official, RecordedHeight
    <2>3. (handler[n].kind = "forward" => MessageOfficial(handler[n].msg))'
      BY <2>1 DEF HandlerAfter, MessageAfter, MessageOfficial, OfficialAfter,
           Official, RecordedHeight
    <2>4. (handler[n].kind = "sync" =>
            \A j \in 1..Len(handler[n].blocks) : Official(handler[n].blocks[j]))'
      BY <2>1 DEF HandlerAfter, OfficialAfter, Official, RecordedHeight
    <2> QED
      BY <2>2, <2>3, <2>4 DEF HeldOfficial
  <1>6. WireOfficial'
    <2>1. WiresAfter(wire')
      BY WireStep
    <2> QED
      BY <2>1 DEF WiresAfter, WireOfficial, MessageAfter, MessageOfficial,
           OfficialAfter, Official, RecordedHeight
  <1> QED
    BY <1>2, <1>3, <1>4, <1>5, <1>6 DEF OneHistory

\* Across crashes and restarts, a block belongs to the network's history from
\* the moment its producer has recorded the height that covers it, and nothing
\* else ever travels or is built upon: the main theorem, from which the next
\* four follow.
THEOREM History ==
    ASSUME DiskMayFail = FALSE
    PROVE  Spec => []OneHistory
  <1>1. Init => TypeOK /\ OneHistory
    <2> SUFFICES ASSUME Init
                 PROVE  TypeOK /\ OneHistory
      OBVIOUS
    <2>1. TypeOK /\ LiveShape
      BY NetAssumption, HandlerTypes
      DEF Init, TypeOK, LiveShape, Wires, Index
    <2>2. ASSUME NEW n \in Node
          PROVE  /\ ~ up[n] /\ storedHeight[n] = 0 /\ mutex[n] = "free"
                 /\ saving[n] = "done" /\ producing[n] = None
                 /\ handler[n] = Idle
      BY DEF Init
    <2>3. \A n \in Node : RecordedHeight(n) = 1
      BY <2>2 DEF RecordedHeight
    <2>4. \A n \in Node : NodeShape(n)
      BY <2>2, <2>3 DEF NodeShape, ChainShape, ThreadShape, DiskShape,
           MemoryMatchesDisk
    <2>5. \A n \in Node : TipOwned(n) /\ StoredOfficial(n) /\ HeldOfficial(n)
      BY <2>2, <2>3 DEF TipOwned, StoredOfficial, HeldOfficial, Idle
    <2>6. WireOfficial
      BY DEF Init, WireOfficial
    <2> QED
      BY <2>1, <2>4, <2>5, <2>6 DEF OneHistory
  <1>2. TypeOK /\ OneHistory /\ [Next]_vars => TypeOK' /\ OneHistory'
    <2> SUFFICES ASSUME TypeOK, OneHistory, [Next]_vars
                 PROVE  TypeOK' /\ OneHistory'
      OBVIOUS
    <2>1. LiveShape
      BY DEF OneHistory
    <2> QED
      BY <2>1, TypeStep, OneHistoryStep
  <1> QED
    BY <1>1, <1>2, PTL DEF Spec

\* Where a block of a chain stands: recorded by its producer, or the node's
\* own and not yet counted by its disk.
LEMMA ChainBlocks ==
    ASSUME TypeOK, OneHistory, NEW n \in Node, NEW i \in 2..Len(chain[n])
    PROVE  /\ up[n] /\ Follows(chain[n][i], chain[n][i-1], i-1)
           /\ \/ Official(chain[n][i])
              \/ getProducer(i-1) = n /\ RecordedHeight(n) = i-1
  <1> USE NetAssumption
  <1>1. NodeShape(n) /\ TipOwned(n) /\ StoredOfficial(n) /\ LiveShape
    BY DEF OneHistory
  <1>2. up[n] /\ Len(chain[n]) \in Nat
    <2>1. chain[n] \in Seq(NetBlock) /\ chain[n] # << >>
      BY DEF TypeOK
    <2> QED
      BY <1>1, <2>1 DEF LiveShape
  <1>3. Follows(chain[n][i], chain[n][i-1], i-1)
    BY <1>1, <1>2 DEF NodeShape, ChainShape
  <1>4. CASE saving[n] \notin {"block", "height"}
    BY <1>1, <1>2, <1>3, <1>4, IdleChainOfficial
  <1>5. CASE saving[n] \in {"block", "height"}
    <2>1. RecordedHeight(n) = Len(chain[n]) - 1
      BY <1>1, <1>5, UnsavedTip
    <2>2. CASE i = Len(chain[n])
      BY <1>1, <1>2, <1>3, <1>5, <2>1, <2>2 DEF TipOwned, getLatestBlock
    <2>3. CASE i # Len(chain[n])
      <3>1. i-1 \in 1..RecordedHeight(n)-1
        BY <1>2, <2>1, <2>3
      <3>2. storedBlock[n][i-1] = chain[n][i-1+1] /\ i-1+1 = i
        BY <1>1, <1>2, <3>1 DEF NodeShape, MemoryMatchesDisk
      <3>3. Official(storedBlock[n][i-1])
        BY <1>1, <3>1 DEF StoredOfficial
      <3> QED
        BY <1>2, <1>3, <3>2, <3>3
    <2> QED
      BY <2>2, <2>3
  <1> QED
    BY <1>4, <1>5

\* No two running nodes ever disagree about a block, whatever crashes,
\* restarts, lost connections and interleavings happen in between.
THEOREM NoFork ==
    ASSUME DiskMayFail = FALSE
    PROVE  Spec => []Agreement
  <1>1. TypeOK /\ OneHistory => Agreement
    <2> SUFFICES ASSUME TypeOK, OneHistory, NEW n \in Node, NEW m \in Node,
                        NEW i \in 1..Len(chain[n]), i <= Len(chain[m])
                 PROVE  chain[n][i] = chain[m][i]
      BY DEF Agreement
    <2>1. Len(chain[n]) \in Nat /\ Len(chain[m]) \in Nat /\ i \in 1..Len(chain[m])
      BY DEF TypeOK
    <2>2. CASE i = 1
      <3>1. chain[n] # << >> /\ chain[m] # << >>
        BY <2>1
      <3>2. up[n] /\ up[m]
        BY <3>1 DEF OneHistory, LiveShape
      <3> QED
        BY <2>2, <3>2 DEF OneHistory, NodeShape, ChainShape
    <2>3. CASE i # 1
      <3>1. i \in 2..Len(chain[n]) /\ i \in 2..Len(chain[m])
        BY <2>1, <2>3
      <3>2. /\ \/ Official(chain[n][i])
               \/ getProducer(i-1) = n /\ RecordedHeight(n) = i-1
            /\ \/ Official(chain[m][i])
               \/ getProducer(i-1) = m /\ RecordedHeight(m) = i-1
            /\ chain[n][i].index = i-1 /\ chain[m][i].index = i-1
        BY <3>1, ChainBlocks DEF Follows
      <3>3. ASSUME NEW b, Official(b), b.index = i-1
            PROVE  /\ b = storedBlock[getProducer(i-1)][i-1]
                   /\ i-1 < RecordedHeight(getProducer(i-1))
        BY <3>3 DEF Official
      <3> QED
        BY <3>1, <3>2, <3>3
    <2> QED
      BY <2>2, <2>3
  <1> QED
    BY <1>1, TypeCorrect, History, PTL

\* The disk that makes a block official is the disk of the key that signed it.
LEMMA OfficialIsDurable ==
    ASSUME TypeOK, OneHistory, NEW b, Official(b)
    PROVE  DurableAtProducer(b)
  <1> DEFINE p == getProducer(b.index)
  <1>1. /\ p \in Node /\ b.index \in 1..RecordedHeight(p)-1
        /\ storedBlock[p][b.index] = b
    <2>1. /\ p \in Node /\ b.index \in Index /\ b.index < RecordedHeight(p)
          /\ storedBlock[p][b.index] = b
      BY DEF Official
    <2>2. b.index \in Nat /\ b.index >= 1
      BY <2>1, NetAssumption DEF Index
    <2>3. storedHeight[p] \in Nat
      BY <2>1, NetAssumption DEF TypeOK
    <2> QED
      BY <2>1, <2>2, <2>3 DEF RecordedHeight
  <1>2. Follows(b, StoredBefore(p, b.index), b.index)
    BY <1>1 DEF OneHistory, NodeShape, DiskShape
  <1>3. b.validator = p
    BY <1>2 DEF Follows, validateBlock
  <1> QED
    BY <1>3 DEF DurableAtProducer, Official

\* A block leaves its producer only once the producer cannot forget it.
THEOREM Durability ==
    ASSUME DiskMayFail = FALSE
    PROVE  Spec => []PublishedIsDurable
  <1>1. TypeOK /\ OneHistory => PublishedIsDurable
    <2> SUFFICES ASSUME TypeOK, OneHistory
                 PROVE  PublishedIsDurable
      OBVIOUS
    <2>1. ASSUME NEW s \in Session, NEW n \in Node,
                 NEW j \in 1..Len(wire[s][n]), NEW b \in BlocksIn(wire[s][n][j])
          PROVE  DurableAtProducer(b)
      <3> DEFINE m == wire[s][n][j]
      <3>1. MessageOfficial(m)
        BY DEF OneHistory, WireOfficial
      <3>2. m \in Message
        <4>1. wire[s][n] \in Seq(Message)
          BY DEF TypeOK, Wires
        <4> QED
          BY <4>1
      <3> HIDE DEF m
      <3>3. CASE m.type = "NEW_BLOCK"
        BY <2>1, <3>1, <3>3, OfficialIsDurable DEF BlocksIn, MessageOfficial, m
      <3>4. CASE m.type = "BLOCKS"
        <4>1. b \in {m.blocks[x] : x \in DOMAIN m.blocks}
          BY <2>1, <3>4 DEF BlocksIn, ToSet, m
        <4>2. m.blocks \in Seq(NetBlock)
          BY <3>2, <3>4, MessagePayload
        <4>3. PICK x \in 1..Len(m.blocks) : b = m.blocks[x]
          BY <4>1, <4>2
        <4> QED
          BY <3>1, <3>4, <4>3, OfficialIsDurable DEF MessageOfficial
      <3>5. CASE m.type # "NEW_BLOCK" /\ m.type # "BLOCKS"
        BY <2>1, <3>5 DEF BlocksIn, m
      <3> QED
        BY <3>3, <3>4, <3>5
    <2>2. ASSUME NEW n \in Node, NEW i \in 2..Len(chain[n]),
                 chain[n][i].validator # n
          PROVE  DurableAtProducer(chain[n][i])
      BY <2>2, ChainBlocks, OfficialIsDurable DEF Follows, validateBlock
    <2> QED
      BY <2>1, <2>2 DEF PublishedIsDurable
  <1> QED
    BY <1>1, TypeCorrect, History, PTL

\* A crash outside the writes costs nothing: recoverFromStorage would rebuild
\* exactly the chain in memory.
THEOREM Recovery ==
    ASSUME DiskMayFail = FALSE
    PROVE  Spec => []RestartKeepsChain
  <1> USE NetAssumption
  <1>1. TypeOK /\ OneHistory => RestartKeepsChain
    <2> SUFFICES ASSUME TypeOK, OneHistory, NEW n \in Node, up[n],
                        saving[n] = "done"
                 PROVE  /\ RecoversTo(n, Len(chain[n]))
                        /\ StoredChain(n, Len(chain[n])) = chain[n]
      BY DEF RestartKeepsChain
    <2> DEFINE k == Len(chain[n])
    <2>1. NodeShape(n) /\ LiveShape
      BY DEF OneHistory
    <2>2. /\ k \in Nat /\ k >= 1 /\ k = RecordedHeight(n)
          /\ chain[n] \in Seq(NetBlock)
      BY <2>1 DEF LiveShape, NodeShape, MemoryMatchesDisk, TypeOK
    <2>3. \A i \in 2..k : storedBlock[n][i-1] = chain[n][i]
      <3> SUFFICES ASSUME NEW i \in 2..k
                   PROVE  storedBlock[n][i-1] = chain[n][i]
        OBVIOUS
      <3>1. i-1 \in 1..RecordedHeight(n)-1 /\ i-1+1 = i
        BY <2>2
      <3>2. storedBlock[n][i-1] = chain[n][i-1+1]
        BY <2>1, <3>1 DEF NodeShape, MemoryMatchesDisk
      <3> QED
        BY <3>1, <3>2
    <2>4. chain[n][1] = GenesisBlock
      BY <2>1 DEF NodeShape, ChainShape
    <2>5. StoredChain(n, k) = chain[n]
      <3>1. \A i \in 1..k : StoredChain(n, k)[i] = chain[n][i]
        BY <2>2, <2>3, <2>4 DEF StoredChain
      <3>2. /\ DOMAIN chain[n] = 1..k
            /\ chain[n] = [i \in 1..k |-> chain[n][i]]
        BY <2>2
      <3>3. StoredChain(n, k) = [i \in 1..k |-> StoredChain(n, k)[i]]
        BY DEF StoredChain
      <3> QED
        BY <3>1, <3>2, <3>3
    <2>6. RecoversTo(n, k)
      <3>1. ASSUME NEW i \in 2..k
            PROVE  /\ i <= storedHeight[n] /\ chain[n][i] # None
                   /\ Follows(chain[n][i], chain[n][i-1], i-1)
        <4>1. i <= storedHeight[n]
          BY <2>2 DEF RecordedHeight, TypeOK
        <4>2. chain[n][i] \in NetBlock
          BY <2>2
        <4>3. Follows(chain[n][i], chain[n][i-1], i-1)
          BY <2>1 DEF NodeShape, ChainShape
        <4> QED
          BY <4>1, <4>2, <4>3 DEF NetBlock
      <3>2. ~ (k < storedHeight[n])
        BY <2>2 DEF RecordedHeight, TypeOK
      <3> QED
        BY <2>5, <3>1, <3>2 DEF RecoversTo
    <2> QED
      BY <2>5, <2>6
  <1> QED
    BY <1>1, TypeCorrect, History, PTL

\* Nothing that is recorded is ever replaced or forgotten.
THEOREM Finality ==
    ASSUME DiskMayFail = FALSE
    PROVE  Spec => RecordedIsFinal
  <1>1. TypeOK /\ OneHistory /\ [Next]_vars =>
            [\A n \in Node :
                /\ storedHeight'[n] >= storedHeight[n]
                /\ \A i \in Index : i < storedHeight[n] =>
                      storedBlock'[n][i] = storedBlock[n][i]]_vars
    <2> SUFFICES ASSUME TypeOK, OneHistory, [Next]_vars, NEW n \in Node
                 PROVE  /\ storedHeight'[n] >= storedHeight[n]
                        /\ \A i \in Index : i < storedHeight[n] =>
                              storedBlock'[n][i] = storedBlock[n][i]
      OBVIOUS
    <2>1. /\ storedHeight'[n] >= storedHeight[n]
          /\ \A i \in Index : i < RecordedHeight(n) =>
                storedBlock'[n][i] = storedBlock[n][i]
      BY RecordedStable DEF OneHistory
    <2>2. \A i \in Index : i < storedHeight[n] => i < RecordedHeight(n)
      BY NetAssumption DEF RecordedHeight, Index, TypeOK
    <2> QED
      BY <2>1, <2>2
  <1> QED
    BY <1>1, TypeCorrect, History, PTL DEF Spec, RecordedIsFinal

-----------------------------------------------------------------------------
(***************************************************************************)
(* The refinement of BlockLog                                              *)
(***************************************************************************)

\* The rules of blocks are the same on both levels.
LEMMA SameRules ==
    /\ Log!GenesisBlock = GenesisBlock /\ Log!Index = Index
    /\ \A i : Log!getProducer(i) = getProducer(i)
    /\ \A b, latest, i : Log!Follows(b, latest, i) = Follows(b, latest, i)
  <1>1. Log!GenesisBlock = GenesisBlock /\ Log!Index = Index
    BY DEF Log!GenesisBlock, GenesisBlock, Log!SignedBlock, SignedBlock,
         Log!computeBlockHash, computeBlockHash, Log!sign, sign, Log!ZeroHash,
         ZeroHash, Log!computeTransactionRootHash, computeTransactionRootHash,
         Log!Index, Index
  <1>2. \A i : Log!getProducer(i) = getProducer(i)
    BY DEF Log!getProducer, getProducer
  <1>3. \A b : Log!computeBlockHash(b) = computeBlockHash(b)
    BY DEF Log!computeBlockHash, computeBlockHash,
         Log!computeTransactionRootHash, computeTransactionRootHash
  <1>4. \A tx : Log!verifyTransaction(tx) = verifyTransaction(tx)
    BY DEF Log!verifyTransaction, verifyTransaction, Log!deriveAddress,
         deriveAddress, Log!computeTransactionHash, computeTransactionHash,
         Log!verify, verify, Log!sign, sign
  <1>5. {tx \in Txs : Log!verifyTransaction(tx)} = {tx \in Txs : verifyTransaction(tx)}
    BY <1>4
  <1>6. \A b : Log!verifyBlock(b) = verifyBlock(b)
    BY <1>3, <1>5 DEF Log!verifyBlock, verifyBlock, Log!verify, verify,
         Log!sign, sign
  <1>7. \A b, latest, i : Log!Follows(b, latest, i) = Follows(b, latest, i)
    BY <1>2, <1>6 DEF Log!Follows, Follows, Log!validateBlock, validateBlock
  <1> QED
    BY <1>1, <1>2, <1>7

\* The log holds the block that the authority whose turn it is has recorded.
LEMMA LogEntry ==
    ASSUME NEW i \in Index
    PROVE  RecordedLog[i] =
             IF getProducer(i) \in Node /\ i < RecordedHeight(getProducer(i))
             THEN storedBlock[getProducer(i)][i] ELSE None
  BY DEF RecordedLog

\* A step that leaves the recorded heights alone does not show.
LEMMA HeightsSame ==
    ASSUME DiskMayFail = FALSE, TypeOK, OneHistory, [Next]_vars,
           UNCHANGED storedHeight
    PROVE  /\ RecordedLog' = RecordedLog
           /\ [n \in Node |-> RecordedHeight(n)]' = [n \in Node |-> RecordedHeight(n)]
  <1>1. \A n \in Node : RecordedHeight(n)' = RecordedHeight(n)
    BY DEF RecordedHeight
  <1>2. \A n \in Node : \A i \in Index : i < RecordedHeight(n) =>
            storedBlock'[n][i] = storedBlock[n][i]
    BY RecordedStable DEF OneHistory
  <1>3. RecordedLog' = RecordedLog
    BY <1>1, <1>2 DEF RecordedLog
  <1> QED
    BY <1>1, <1>3

\* What saveChainHeight changes.
LEMMA HeightSaved ==
    ASSUME TypeOK, OneHistory, NEW n \in Node, SaveHeight(n)
    PROVE  LET i == RecordedHeight(n) IN
           /\ i \in Index /\ i = Len(chain[n]) - 1
           /\ storedBlock[n][i] = getLatestBlock(chain[n])
           /\ UNCHANGED storedBlock
           /\ RecordedHeight(n)' = i + 1
           /\ \A m \in Node : m # n => RecordedHeight(m)' = RecordedHeight(m)
  <1>1. LiveShape /\ NodeShape(n)
    BY DEF OneHistory
  <1>2. saving[n] = "height" /\ UNCHANGED storedBlock
    BY DEF SaveHeight
  <1>3. /\ up[n] /\ RecordedHeight(n) = Len(chain[n]) - 1
        /\ Len(chain[n]) - 1 \in Index
    BY <1>1, <1>2, UnsavedTip
  <1>4. storedBlock[n][Len(chain[n])-1] = getLatestBlock(chain[n])
    BY <1>1, <1>2, <1>3 DEF NodeShape, MemoryMatchesDisk
  <1>5. RecordedHeight(n)' = Len(chain[n])
    BY <1>1, SaveHeightShape
  <1>6. \A m \in Node : m # n => RecordedHeight(m)' = RecordedHeight(m)
    BY DEF SaveHeight, RecordedHeight, TypeOK
  <1>7. Len(chain[n]) = Len(chain[n]) - 1 + 1
    BY DEF TypeOK
  <1> QED
    BY <1>2, <1>3, <1>4, <1>5, <1>6, <1>7

\* The block before the one that is being recorded is in the log.
LEMMA Predecessor ==
    ASSUME TypeOK, OneHistory, NEW n \in Node, saving[n] \in {"block", "height"}
    PROVE  Log!Before(Len(chain[n])-1) = chain[n][Len(chain[n])-1]
  <1> DEFINE i == Len(chain[n]) - 1
  <1> USE NetAssumption
  <1>1. LiveShape /\ NodeShape(n) /\ StoredOfficial(n)
    BY DEF OneHistory
  <1>2. up[n] /\ RecordedHeight(n) = i /\ i \in Index /\ i \in Nat
    BY <1>1, UnsavedTip DEF Index
  <1>a. chain[n][1] = GenesisBlock
    BY <1>1, <1>2 DEF NodeShape, ChainShape
  <1> SUFFICES Log!Before(i) = chain[n][i]
    OBVIOUS
  <1> HIDE DEF i
  <1>3. CASE i = 1
    BY <1>a, <1>3, SameRules DEF Log!Before
  <1>4. CASE i # 1
    <2>1. i-1 \in 1..RecordedHeight(n)-1 /\ i-1 \in Index
      BY <1>2, <1>4 DEF Index
    <2>2. storedBlock[n][i-1] = chain[n][i]
      BY <1>1, <1>2, <2>1 DEF NodeShape, MemoryMatchesDisk
    <2>3. Official(storedBlock[n][i-1]) /\ storedBlock[n][i-1].index = i-1
      BY <1>1, <2>1 DEF StoredOfficial, NodeShape, DiskShape, Follows
    <2>4. RecordedLog[i-1] = storedBlock[n][i-1]
      BY <2>1, <2>3, LogEntry DEF Official
    <2> QED
      BY <1>4, <2>2, <2>4 DEF Log!Before
  <1> QED
    BY <1>3, <1>4

\* Every step of the network is a step of the log, or does not show.
LEMMA LogStep ==
    ASSUME DiskMayFail = FALSE, TypeOK, OneHistory, [Next]_vars
    PROVE  [Log!Next]_(Log!logVars)
  <1> USE NetAssumption
  <1>1. CASE UNCHANGED storedHeight
    BY <1>1, HeightsSame DEF Log!logVars
  <1>2. ASSUME NEW n \in Node, SaveHeight(n)
        PROVE  Log!Next
    <2> DEFINE i == RecordedHeight(n)
               tip == getLatestBlock(chain[n])
               seen == [m \in Node |-> RecordedHeight(m)]
    <2>1. /\ i \in Index /\ i = Len(chain[n]) - 1 /\ storedBlock[n][i] = tip
          /\ UNCHANGED storedBlock /\ RecordedHeight(n)' = i + 1
          /\ \A m \in Node : m # n => RecordedHeight(m)' = RecordedHeight(m)
      BY <1>2, HeightSaved
    <2>2. /\ saving[n] = "height" /\ LiveShape /\ NodeShape(n) /\ TipOwned(n)
      BY <1>2 DEF SaveHeight, OneHistory
    <2>3. /\ up[n] /\ tip.index = i /\ Len(chain[n]) \in 2..MaxHeight
          /\ Follows(tip, chain[n][i], i)
      <3>1. /\ up[n] /\ tip.index = Len(chain[n]) - 1
            /\ Len(chain[n]) \in 2..MaxHeight
            /\ Follows(tip, chain[n][Len(chain[n])-1], Len(chain[n])-1)
        BY <2>2, UnsavedTip
      <3> HIDE DEF i, tip
      <3> QED
        BY <2>1, <3>1
    <2>4. tip \in NetBlock /\ tip # None
      <3>1. Len(chain[n]) \in 1..Len(chain[n]) /\ chain[n] \in Seq(NetBlock)
        BY <2>3 DEF TypeOK
      <3>2. tip \in NetBlock
        BY <3>1 DEF getLatestBlock
      <3>3. NetBlock \subseteq Block
        BY DEF NetBlock
      <3> QED
        BY <3>2, <3>3
    <2>5. seen' = [seen EXCEPT ![n] = i + 1]
      BY <2>1
    <2> HIDE DEF i, tip, seen
    <2>6. ASSUME NEW j \in Index, j # i \/ getProducer(j) # n
          PROVE  RecordedLog'[j] = RecordedLog[j]
      <3>1. CASE getProducer(j) = n
        BY <2>1, <2>6, <3>1 DEF RecordedLog, Index, i
      <3>2. CASE getProducer(j) # n
        BY <2>1, <3>2 DEF RecordedLog
      <3> QED
        BY <3>1, <3>2
    <2>7. CASE mutex[n] = "main"
      <3>1. getProducer(i) = n
        BY <2>1, <2>2, <2>7 DEF TipOwned
      <3>2. RecordedLog[i] = None /\ RecordedLog'[i] = tip
        BY <2>1, <3>1 DEF RecordedLog, Index, i
      <3>3. RecordedLog' = [RecordedLog EXCEPT ![i] = RecordedLog'[i]]
        BY <2>1, <2>6 DEF RecordedLog
      <3>4. Follows(tip, Log!Before(i), i)
        BY <2>1, <2>2, <2>3, Predecessor
      <3>5. Log!Produce(n)
        <4>1. seen[n] = i
          BY DEF seen, i
        <4> QED
          BY <2>1, <2>4, <2>5, <3>1, <3>2, <3>3, <3>4, <4>1, SameRules
          DEF Log!Produce, seen
      <3> QED
        BY <3>5 DEF Log!Next
    <2>8. CASE mutex[n] # "main"
      <3>1. Official(tip)
        BY <2>2, <2>8 DEF TipOwned, tip
      <3>2. RecordedLog[i] = tip /\ getProducer(i) # n
        BY <2>1, <2>3, <3>1, LogEntry DEF Official, i, Index
      <3>3. RecordedLog' = RecordedLog
        BY <2>6, <3>2 DEF RecordedLog
      <3>4. Log!Learn(n)
        <4>1. seen[n] = i
          BY DEF seen, i
        <4> QED
          BY <2>1, <2>4, <2>5, <3>2, <3>3, <4>1, SameRules DEF Log!Learn, seen
      <3> QED
        BY <3>4 DEF Log!Next
    <2> QED
      BY <2>7, <2>8
  <1>3. UNCHANGED storedHeight \/ \E n \in Node : SaveHeight(n)
    <2>1. ASSUME NEW n \in Node,
                 \/ Start(n) \/ Crash(n) \/ AddsSome(n) \/ BroadcastBlock(n)
                 \/ SaveBlock(n) \/ EndSaveAccounts(n) \/ SyncEnd(n)
          PROVE  UNCHANGED storedHeight
      BY <2>1 DEF Start, Crash, AddsSome, Adds, BroadcastBlock, SaveBlock,
           EndSaveAccounts, SyncEnd, disk
    <2>2. LiveShape /\ \A n \in Node : ThreadShape(n)
      BY DEF OneHistory, NodeShape
    <2> QED
      BY <2>1, <2>2, StepKinds DEF blockState
  <1> QED
    BY <1>1, <1>2, <1>3

\* The network, with its threads, messages, crashes and restarts, implements
\* the log: every index is written once, by the authority whose turn it is, on
\* top of its predecessor, and every node's disk follows it in order.
THEOREM Refinement ==
    ASSUME DiskMayFail = FALSE
    PROVE  Spec => ImplementsLog
  <1>1. Init => Log!Init
    <2> SUFFICES ASSUME Init
                 PROVE  Log!Init
      OBVIOUS
    <2>1. \A n \in Node : RecordedHeight(n) = 1
      BY DEF Init, RecordedHeight
    <2>2. RecordedLog = [i \in Index |-> None]
      BY <2>1 DEF RecordedLog, Index
    <2> QED
      BY <2>1, <2>2, SameRules DEF Log!Init
  <1>2. TypeOK /\ OneHistory /\ [Next]_vars => [Log!Next]_(Log!logVars)
    BY LogStep
  <1> QED
    BY <1>1, <1>2, TypeCorrect, History, PTL DEF Spec, ImplementsLog, Log!Spec

-----------------------------------------------------------------------------
(***************************************************************************)
(* Messages on their way                                                   *)
(***************************************************************************)

\* The messages on their way to n over s.
Pending(w, s, n) == {w[s][n][j] : j \in 1..Len(w[s][n])}

\* Sending adds one message, where the other end still listens.
LEMMA PendingSent ==
    ASSUME NEW w \in Wires, NEW n \in Node, NEW S, NEW m,
           NEW s \in Session, NEW q \in Node
    PROVE  /\ Pending(w, s, q) \subseteq Pending(Sent(w, n, S, m), s, q)
           /\ Pending(Sent(w, n, S, m), s, q) \subseteq Pending(w, s, q) \cup {m}
           /\ s \in S /\ q = Other(s, n) /\ Live(s, q) =>
                 m \in Pending(Sent(w, n, S, m), s, q)
  <1> DEFINE old == w[s][q]
             new == Append(old, m)
  <1>1. old \in Seq(Message)
    BY DEF Wires
  <1>2. Sent(w, n, S, m)[s][q] = IF s \in S /\ q = Other(s, n) /\ Live(s, q)
                                 THEN new ELSE old
    BY DEF Sent
  <1> HIDE DEF old
  <1>3. /\ {old[j] : j \in 1..Len(old)} \subseteq {new[j] : j \in 1..Len(new)}
        /\ {new[j] : j \in 1..Len(new)} \subseteq {old[j] : j \in 1..Len(old)} \cup {m}
        /\ m \in {new[j] : j \in 1..Len(new)}
    BY <1>1
  <1>4. Pending(w, s, q) = {old[j] : j \in 1..Len(old)}
    BY DEF Pending, old
  <1>5. Pending(Sent(w, n, S, m), s, q) =
            IF s \in S /\ q = Other(s, n) /\ Live(s, q)
            THEN {new[j] : j \in 1..Len(new)} ELSE {old[j] : j \in 1..Len(old)}
    BY <1>2 DEF Pending
  <1> QED
    BY <1>3, <1>4, <1>5

\* Reading takes off the first message of one wire.
LEMMA PendingConsumed ==
    ASSUME NEW w \in Wires, NEW n \in Node, NEW r \in Session, w[r][n] # << >>,
           NEW s \in Session, NEW q \in Node
    PROVE  /\ Pending(Consumed(w, n, r), s, q) \subseteq Pending(w, s, q)
           /\ Pending(w, s, q) \subseteq
                 Pending(Consumed(w, n, r), s, q) \cup {Head(w[r][n])}
           /\ r # s \/ n # q => Pending(Consumed(w, n, r), s, q) = Pending(w, s, q)
           /\ Head(w[r][n]) \in Pending(w, r, n)
  <1> DEFINE old == w[r][n]
  <1>1. old \in Seq(Message) /\ old # << >>
    BY DEF Wires
  <1>2. Consumed(w, n, r)[s][q] = IF r = s /\ n = q THEN Tail(old) ELSE w[s][q]
    BY DEF Consumed, Wires
  <1>3. Pending(w, r, n) = {old[j] : j \in 1..Len(old)}
    BY DEF Pending
  <1> HIDE DEF old
  <1>4. /\ {Tail(old)[j] : j \in 1..Len(Tail(old))} \subseteq {old[j] : j \in 1..Len(old)}
        /\ Head(old) \in {old[j] : j \in 1..Len(old)}
    BY <1>1
  <1>5. ASSUME NEW j \in 1..Len(old)
        PROVE  old[j] \in {Tail(old)[k] : k \in 1..Len(Tail(old))} \cup {Head(old)}
    <2>1. CASE j = 1
      BY <1>1, <2>1
    <2>2. CASE j # 1
      <3>1. j-1 \in 1..Len(Tail(old)) /\ Tail(old)[j-1] = old[j]
        BY <1>1, <2>2
      <3> QED
        BY <3>1
    <2> QED
      BY <2>1, <2>2
  <1>6. CASE r = s /\ n = q
    <2>1. Pending(Consumed(w, n, r), s, q) = {Tail(old)[j] : j \in 1..Len(Tail(old))}
      BY <1>2, <1>6 DEF Pending
    <2> QED
      BY <1>3, <1>4, <1>5, <1>6, <2>1 DEF old
  <1>7. CASE ~ (r = s /\ n = q)
    <2>1. Pending(Consumed(w, n, r), s, q) = Pending(w, s, q)
      BY <1>2, <1>7 DEF Pending
    <2> QED
      BY <1>3, <1>4, <1>7, <2>1 DEF old
  <1> QED
    BY <1>6, <1>7

\* A closed connection takes with it what one end has not read.
LEMMA PendingDiscarded ==
    ASSUME NEW w, NEW n \in Node, NEW S, NEW s \in Session, NEW q \in Node
    PROVE  /\ Pending(Discarded(w, n, S), s, q) \subseteq Pending(w, s, q)
           /\ s \notin S \/ q # n =>
                 Pending(Discarded(w, n, S), s, q) = Pending(w, s, q)
  <1>1. Discarded(w, n, S)[s][q] = IF s \in S /\ q = n THEN << >> ELSE w[s][q]
    BY DEF Discarded
  <1> QED
    BY <1>1 DEF Pending

-----------------------------------------------------------------------------
(***************************************************************************)
(* Runs of blocks, as onBlocks takes them                                  *)
(***************************************************************************)

\* bs continues the chain of height h, perhaps with some blocks that it has,
\* and goes beyond index i.
RunFrom(bs, h, i) ==
    \E f \in 1..h : /\ \A j \in 1..Len(bs) : bs[j].index = f + j - 1
                    /\ f + Len(bs) > i

\* A longer chain is continued as well.
LEMMA RunGrows ==
    ASSUME NEW bs, NEW h \in Nat, NEW k \in Nat, h <= k, NEW i, RunFrom(bs, h, i)
    PROVE  RunFrom(bs, k, i)
  <1>1. 1..h \subseteq 1..k
    OBVIOUS
  <1> QED
    BY <1>1 DEF RunFrom

\* What is left after the block with index h continues the chain with it.
LEMMA RunRest ==
    ASSUME NEW bs \in Seq(NetBlock), NEW h \in Nat, NEW i \in Nat, RunFrom(bs, h, i),
           NEW k \in 1..Len(bs), bs[k].index = h
    PROVE  RunFrom(SubSeq(bs, k+1, Len(bs)), h+1, i)
  <1> DEFINE rest == SubSeq(bs, k+1, Len(bs))
  <1>1. PICK f \in 1..h : /\ \A j \in 1..Len(bs) : bs[j].index = f + j - 1
                          /\ f + Len(bs) > i
    BY DEF RunFrom
  <1>2. f + k - 1 = h /\ Len(bs) \in Nat /\ k \in Nat
    BY <1>1
  <1>3. \A j \in 1..Len(rest) : k+j \in 1..Len(bs) /\ rest[j] = bs[k+j]
    BY <1>2, SuffixElements
  <1>4. Len(rest) = Len(bs) - k
    BY <1>2
  <1> HIDE DEF rest
  <1>5. \A j \in 1..Len(rest) : rest[j].index = (h+1) + j - 1
    <2> SUFFICES ASSUME NEW j \in 1..Len(rest)
                 PROVE  rest[j].index = (h+1) + j - 1
      OBVIOUS
    <2>1. rest[j].index = f + (k+j) - 1
      BY <1>1, <1>3
    <2> QED
      BY <1>2, <2>1
  <1>6. (h+1) + Len(rest) > i /\ h+1 \in 1..h+1
    BY <1>1, <1>2, <1>4
  <1>7. RunFrom(rest, h+1, i)
    BY <1>5, <1>6 DEF RunFrom
  <1> QED
    BY <1>7 DEF rest

\* The official block that comes next is one that addBlock takes: its
\* producer built it on the block that this node has last.
LEMMA CanAddOfficial ==
    ASSUME TypeOK, OneHistory, NEW n \in Node, up[n], saving[n] = "done",
           NEW b, Official(b), b.index = Len(chain[n])
    PROVE  /\ CanAdd(chain[n], b)
           /\ getProducer(Len(chain[n])) # n
  <1> USE NetAssumption
  <1> DEFINE p == getProducer(b.index)
             h == Len(chain[n])
  <1>1. /\ p \in Node /\ h \in Index /\ h < RecordedHeight(p)
        /\ storedBlock[p][h] = b
    BY DEF Official
  <1>2. NodeShape(n) /\ NodeShape(p) /\ StoredOfficial(n) /\ StoredOfficial(p)
    BY <1>1 DEF OneHistory
  <1>3. RecordedHeight(n) = h
    BY <1>2 DEF NodeShape, MemoryMatchesDisk
  <1>4. RecordedHeight(p) \in Nat /\ h \in 1..RecordedHeight(p)-1
    BY <1>1 DEF RecordedHeight, TypeOK, Index
  <1>5. Follows(b, StoredBefore(p, h), h)
    BY <1>1, <1>2, <1>4 DEF NodeShape, DiskShape
  <1>6. chain[n][1] = GenesisBlock
    BY <1>2 DEF NodeShape, ChainShape
  <1>7. StoredBefore(p, h) = chain[n][h]
    <2> HIDE DEF h, p
    <2>1. CASE h = 1
      BY <1>6, <2>1 DEF StoredBefore
    <2>2. CASE h # 1
      <3>1. h-1 \in 1..RecordedHeight(p)-1 /\ h-1 \in 1..RecordedHeight(n)-1
        BY <1>3, <1>4, <2>2
      <3>2. /\ Official(storedBlock[p][h-1]) /\ storedBlock[p][h-1].index = h-1
            /\ Official(storedBlock[n][h-1]) /\ storedBlock[n][h-1].index = h-1
        BY <1>2, <3>1 DEF StoredOfficial, NodeShape, DiskShape, Follows
      <3>3. storedBlock[p][h-1] = storedBlock[n][h-1]
        BY <3>2 DEF Official
      <3>4. storedBlock[n][h-1] = chain[n][h-1+1] /\ h-1+1 = h
        BY <1>2, <1>4, <3>1 DEF NodeShape, MemoryMatchesDisk
      <3> QED
        BY <2>2, <3>3, <3>4 DEF StoredBefore
    <2> QED
      BY <2>1, <2>2
  <1>8. p # n
    BY <1>1, <1>3, <1>4
  <1> QED
    BY <1>5, <1>7, <1>8 DEF CanAdd, getLatestBlock, getHeight

\* onBlocks takes a block from a run that goes beyond index i, unless the
\* chain does already.
LEMMA TakesRun ==
    ASSUME TypeOK, OneHistory, NEW n \in Node, up[n], saving[n] = "done",
           NEW bs \in Seq(NetBlock), \A j \in 1..Len(bs) : Official(bs[j]),
           NEW i \in Nat, RunFrom(bs, Len(chain[n]), i),
           ~ \E k \in 1..Len(bs) : TakesNext(n, bs, k)
    PROVE  Len(chain[n]) > i
  <1> DEFINE h == Len(chain[n])
  <1>1. h \in Nat /\ Len(bs) \in Nat
    BY DEF TypeOK
  <1>2. PICK f \in 1..h : /\ \A j \in 1..Len(bs) : bs[j].index = f + j - 1
                          /\ f + Len(bs) > i
    BY DEF RunFrom
  <1>3. CASE f + Len(bs) <= h
    BY <1>1, <1>2, <1>3
  <1>4. CASE f + Len(bs) > h
    <2> DEFINE k == h - f + 1
    <2> HIDE DEF h
    <2>1. k \in 1..Len(bs) /\ f + k - 1 = h
      BY <1>1, <1>2, <1>4
    <2>2. \A j \in 1..k-1 : j \in 1..Len(bs) /\ f + j - 1 < h
      BY <1>1, <1>2, <2>1
    <2> HIDE DEF k
    <2>3. \A j \in 1..k-1 : bs[j].index < h
      BY <1>2, <2>2
    <2>4. Official(bs[k]) /\ bs[k].index = h
      BY <1>2, <2>1
    <2>5. CanAdd(chain[n], bs[k])
      BY <2>4, CanAddOfficial DEF h
    <2>6. TakesNext(n, bs, k)
      BY <2>3, <2>5 DEF TakesNext, h
    <2> QED
      BY <2>1, <2>6
  <1> QED
    BY <1>1, <1>2, <1>3, <1>4

\* What onGetBlocks sends from index f on is a run for everyone who has the
\* blocks below f, up to the sender's last block.
LEMMA AnswerRuns ==
    ASSUME TypeOK, OneHistory, NEW p \in Node, up[p], NEW f \in Nat, f >= 1,
           NEW h \in Nat, f <= h, NEW i \in Nat, i < Len(chain[p]), ~ (h > i)
    PROVE  RunFrom(SubSeq(chain[p], f + 1, Len(chain[p])), h, i)
  <1> DEFINE bs == SubSeq(chain[p], f + 1, Len(chain[p]))
             L == Len(chain[p])
  <1>1. chain[p] \in Seq(NetBlock) /\ L \in Nat
    BY DEF TypeOK
  <1>2. \A j \in 1..Len(bs) : f+j \in 1..L /\ bs[j] = chain[p][f+j]
    BY <1>1, SuffixElements
  <1>3. Len(bs) = L - f
    BY <1>1
  <1>4. \A k \in 2..L : chain[p][k].index = k-1
    BY DEF OneHistory, NodeShape, ChainShape, Follows
  <1> HIDE DEF bs, L
  <1>5. ASSUME NEW j \in 1..Len(bs)
        PROVE  bs[j].index = f + j - 1
    <2>1. f + j \in 2..L
      BY <1>1, <1>2, <1>3
    <2>2. bs[j] = chain[p][f+j]
      BY <1>2
    <2>3. chain[p][f+j].index = f + j - 1
      BY <1>4, <2>1
    <2> QED
      BY <2>2, <2>3
  <1>6. f \in 1..h /\ f + Len(bs) > i
    BY <1>1, <1>3 DEF L
  <1>7. RunFrom(bs, h, i)
    BY <1>5, <1>6 DEF RunFrom
  <1> QED
    BY <1>7 DEF bs

-----------------------------------------------------------------------------
(***************************************************************************)
(* Connections, and the authorities within reach                           *)
(***************************************************************************)

\* Who runs, and who is or is going to be connected with whom.
linkState == <<up, dialing, backlog, open>>

\* The keys whose turn it may be.
Authority == {Authorities[k] : k \in 1..Len(Authorities)}

\* The network of the theorem: every authority is a node of it, dials every
\* other node and is dialled by it; no connection is lost while both ends run,
\* LevelDB takes every write and a whole chain fits into one message.
CloseKnit ==
    /\ DiskMayFail = FALSE /\ MaxDrops = 0 /\ MaxReply >= MaxHeight - 1
    /\ \A a \in Authority :
          a \in Node /\ \A n \in Node : n # a => a \in Peers[n] /\ n \in Peers[a]

\* A connection between n and p that both ends have.
Linked(s, n, p) ==
    /\ n # p /\ {s[1], s[2]} = {n, p}
    /\ Live(s, n) /\ Live(s, p)

\* n and p are connected, or one of them is going to dial the other.
WithinReach(n, p) ==
    p \in dialing[n] \/ n \in dialing[p] \/ \E s \in Session : Linked(s, n, p)

\* A process that is down has no connections; one that runs is within reach of
\* every authority that does.
DownIsAlone ==
    \A n \in Node : ~ up[n] => dialing[n] = {} /\ backlog[n] = {} /\ open[n] = {}

AuthoritiesInReach ==
    \A n \in Node, p \in Authority : up[n] /\ up[p] /\ n # p => WithinReach(n, p)

\* Nothing is on its way, or about to be forwarded, that the receiver refuses.
NothingTooLarge ==
    /\ \A s \in Session, n \in Node : \A m \in Pending(wire, s, n) : ~ TooLarge(m)
    /\ \A n \in Node : handler[n].kind = "forward" => ~ TooLarge(handler[n].msg)

\* What a connection says about its ends.
LEMMA LinkedEnds ==
    ASSUME NEW s, NEW n, NEW p, Linked(s, n, p)
    PROVE  /\ n # p /\ Other(s, n) = p /\ Other(s, p) = n
           /\ Live(s, n) /\ Live(s, p)
  <1>1. n # p /\ {s[1], s[2]} = {n, p} /\ Live(s, n) /\ Live(s, p)
    BY DEF Linked
  <1>2. s[1] \in {n, p} /\ s[2] \in {n, p} /\ n \in {s[1], s[2]} /\ p \in {s[1], s[2]}
    BY <1>1
  <1> QED
    BY <1>1, <1>2 DEF Other

\* The steps that change who is connected.
LEMMA LinkKinds ==
    ASSUME CloseKnit, TypeOK, NothingTooLarge, [Next]_vars
    PROVE  \/ UNCHANGED linkState
           \/ \E q \in Node : Start(q) \/ Crash(q)
           \/ \E q, r \in Node : Connect(q, r) \/ ConnectFails(q, r)
           \/ \E q \in Node, s \in Session : Accept(q, s) \/ Disconnect(q, s)
  <1> USE NetAssumption
  <1>1. CASE UNCHANGED vars
    BY <1>1 DEF vars, network, linkState
  <1>2. ASSUME NEW n \in Node,
               \/ MainStep(n) \/ SaveStep(n) \/ SaveFails(n) \/ Resume(n)
               \/ \E s \in Session : Handle(n, s)
               \/ \E tx \in Txs : SubmitTransaction(n, tx) \/ BroadcastTx(n, tx)
        PROVE  UNCHANGED linkState
    <2>1. CASE MainStep(n) \/ SaveFails(n) \/ Resume(n)
      BY <2>1 DEF MainStep, ProduceBlock, BroadcastBlock, SaveFails, Resume,
           OnPeerConnected, Forward, SyncNext, SyncEnd, network, linkState
    <2>2. CASE SaveStep(n)
      BY <2>2 DEF SaveStep, SaveBlock, SaveHeight, SaveAccountState,
           EndSaveAccounts, network, linkState
    <2>3. ASSUME NEW s \in Session, Handle(n, s)
          PROVE  UNCHANGED linkState
      BY <2>3 DEF Handle, OnNewBlockAhead, OnNewBlockNext, OnNewBlockIgnored,
           OnNewTxAccepted, OnNewTxIgnored, OnGetBlocks, OnBlocks,
           OnBlocksUseless, linkState
    <2>4. ASSUME NEW tx \in Txs, SubmitTransaction(n, tx) \/ BroadcastTx(n, tx)
          PROVE  UNCHANGED linkState
      BY <2>4 DEF SubmitTransaction, BroadcastTx, network, linkState
    <2> QED
      BY <1>2, <2>1, <2>2, <2>3, <2>4
  <1>3. ASSUME NEW n \in Node, NEW s \in Session
        PROVE  ~ RefuseMessage(n, s) /\ ~ LoseConnection(n, s)
    <2>1. wire \in Wires /\ drops = 0
      BY DEF TypeOK, CloseKnit
    <2>2. wire[s][n] # << >> => Head(wire[s][n]) \in Pending(wire, s, n)
      BY <2>1, PendingConsumed
    <2> QED
      BY <2>1, <2>2 DEF RefuseMessage, LoseConnection, NothingTooLarge, CloseKnit
  <1> QED
    BY <1>1, <1>2, <1>3 DEF Next, Dial

\* A process that ends takes its connections with it.
LEMMA DownStep ==
    ASSUME CloseKnit, TypeOK, NothingTooLarge, DownIsAlone, [Next]_vars
    PROVE  DownIsAlone'
  <1> SUFFICES ASSUME NEW n \in Node, ~ up'[n]
               PROVE  dialing'[n] = {} /\ backlog'[n] = {} /\ open'[n] = {}
    BY DEF DownIsAlone
  <1>0. /\ up \in [Node -> BOOLEAN] /\ dialing \in [Node -> SUBSET Node]
        /\ backlog \in [Node -> SUBSET Session] /\ open \in [Node -> SUBSET Session]
    BY DEF TypeOK
  <1>1. CASE UNCHANGED linkState
    BY <1>1 DEF linkState, DownIsAlone
  <1>2. ASSUME NEW q \in Node, Start(q)
        PROVE  dialing'[n] = {} /\ backlog'[n] = {} /\ open'[n] = {}
    BY <1>0, <1>2 DEF Start, DownIsAlone
  <1>3. ASSUME NEW q \in Node, Crash(q)
        PROVE  dialing'[n] = {} /\ backlog'[n] = {} /\ open'[n] = {}
    BY <1>0, <1>3 DEF Crash, DownIsAlone
  <1>4. ASSUME NEW q \in Node, NEW r \in Node, Connect(q, r) \/ ConnectFails(q, r)
        PROVE  dialing'[n] = {} /\ backlog'[n] = {} /\ open'[n] = {}
    BY <1>0, <1>4 DEF Connect, ConnectFails, DownIsAlone
  <1>5. ASSUME NEW q \in Node, NEW s \in Session, Accept(q, s) \/ Disconnect(q, s)
        PROVE  dialing'[n] = {} /\ backlog'[n] = {} /\ open'[n] = {}
    BY <1>0, <1>5 DEF Accept, Disconnect, Disconnected, DownIsAlone
  <1> QED
    BY <1>1, <1>2, <1>3, <1>4, <1>5, LinkKinds

\* A connection stays while both ends run ...
LEMMA LinkStays ==
    ASSUME CloseKnit, TypeOK, NothingTooLarge, [Next]_vars,
           NEW n \in Node, NEW p \in Node, NEW s \in Session,
           Linked(s, n, p), up'[n], up'[p]
    PROVE  Linked(s, n, p)'
  <1>0. /\ up \in [Node -> BOOLEAN] /\ backlog \in [Node -> SUBSET Session]
        /\ open \in [Node -> SUBSET Session]
    BY DEF TypeOK
  <1>1. n # p /\ {s[1], s[2]} = {n, p} /\ Live(s, n) /\ Live(s, p)
    BY DEF Linked
  <1> SUFFICES (Live(s, n) /\ Live(s, p))'
    BY <1>1 DEF Linked
  <1>2. CASE UNCHANGED linkState
    BY <1>1, <1>2 DEF linkState, Live
  <1>3. ASSUME NEW q \in Node, Start(q)
        PROVE  (Live(s, n) /\ Live(s, p))'
    BY <1>1, <1>3 DEF Start, Live
  <1>4. ASSUME NEW q \in Node, Crash(q)
        PROVE  (Live(s, n) /\ Live(s, p))'
    <2>1. q # n /\ q # p
      BY <1>0, <1>4 DEF Crash
    <2> QED
      BY <1>1, <1>4, <2>1 DEF Crash, Live
  <1>5. ASSUME NEW q \in Node, NEW r \in Node, Connect(q, r) \/ ConnectFails(q, r)
        PROVE  (Live(s, n) /\ Live(s, p))'
    BY <1>0, <1>1, <1>5 DEF Connect, ConnectFails, Live
  <1>6. ASSUME NEW q \in Node, NEW r \in Session, Accept(q, r)
        PROVE  (Live(s, n) /\ Live(s, p))'
    BY <1>0, <1>1, <1>6 DEF Accept, Live
  <1>7. ASSUME NEW q \in Node, NEW r \in Session, Disconnect(q, r)
        PROVE  (Live(s, n) /\ Live(s, p))'
    <2>1. r = s => q # n /\ q # p
      BY <1>1, <1>7, LinkedEnds DEF Disconnect
    <2> QED
      BY <1>0, <1>1, <1>7, <2>1 DEF Disconnect, Disconnected, Live
  <1> QED
    BY <1>2, <1>3, <1>4, <1>5, <1>6, <1>7, LinkKinds

\* ... and a new one waits for the handlers of both ends.
LEMMA LinkBegins ==
    ASSUME CloseKnit, TypeOK, NothingTooLarge, [Next]_vars,
           NEW n \in Node, NEW p \in Node, NEW s \in Session,
           Linked(s, n, p)', ~ Linked(s, n, p)
    PROVE  s \in backlog'[n]
  <1>0. /\ backlog \in [Node -> SUBSET Session] /\ open \in [Node -> SUBSET Session]
    BY DEF TypeOK
  <1>1. /\ n # p /\ {s[1], s[2]} = {n, p}
        /\ s \in open'[n] \cup backlog'[n] /\ s \in open'[p] \cup backlog'[p]
    BY DEF Linked, Live
  <1>2. ~ (s \in open[n] \cup backlog[n] /\ s \in open[p] \cup backlog[p])
    BY <1>1 DEF Linked, Live
  <1>3. CASE UNCHANGED linkState
    BY <1>1, <1>2, <1>3 DEF linkState
  <1>4. ASSUME NEW q \in Node, Start(q) \/ Crash(q)
        PROVE  FALSE
    BY <1>0, <1>1, <1>2, <1>4 DEF Start, Crash
  <1>5. ASSUME NEW q \in Node, NEW r \in Node, Connect(q, r)
        PROVE  s \in backlog'[n]
    <2> DEFINE t == <<q, r, starts[q]>>
    <2>1. /\ backlog' = [backlog EXCEPT ![q] = @ \cup {t}, ![r] = @ \cup {t}]
          /\ open' = open
      BY <1>5 DEF Connect
    <2>2. t[1] = q /\ t[2] = r
      OBVIOUS
    <2> HIDE DEF t
    <2>3. s = t
      BY <1>0, <1>1, <1>2, <2>1
    <2>4. n = q \/ n = r
      BY <1>1, <2>2, <2>3
    <2> QED
      BY <1>0, <2>1, <2>3, <2>4
  <1>6. ASSUME NEW q \in Node, NEW r \in Node, ConnectFails(q, r)
        PROVE  FALSE
    BY <1>1, <1>2, <1>6 DEF ConnectFails
  <1>7. ASSUME NEW q \in Node, NEW r \in Session, Accept(q, r) \/ Disconnect(q, r)
        PROVE  FALSE
    BY <1>0, <1>1, <1>2, <1>7 DEF Accept, Disconnect, Disconnected
  <1> QED
    BY <1>3, <1>4, <1>5, <1>6, <1>7, LinkKinds

\* A dial that is due stays due or connects, if the peer runs.
LEMMA DialStays ==
    ASSUME CloseKnit, TypeOK, LiveShape, NothingTooLarge, [Next]_vars,
           NEW n \in Node, NEW p \in Node, n # p, p \in dialing[n],
           up[n], up[p], up'[n], up'[p]
    PROVE  p \in dialing'[n] \/ \E s \in Session : Linked(s, n, p)'
  <1> USE NetAssumption
  <1>0. /\ up \in [Node -> BOOLEAN] /\ dialing \in [Node -> SUBSET Node]
        /\ backlog \in [Node -> SUBSET Session]
    BY DEF TypeOK
  <1>1. CASE UNCHANGED linkState
    BY <1>1 DEF linkState
  <1>2. ASSUME NEW q \in Node, Start(q) \/ Crash(q)
        PROVE  p \in dialing'[n]
    <2>1. q # n
      BY <1>0, <1>2 DEF Start, Crash
    <2> QED
      BY <1>0, <1>2, <2>1 DEF Start, Crash
  <1>3. ASSUME NEW q \in Node, NEW r \in Node, Connect(q, r)
        PROVE  p \in dialing'[n] \/ \E s \in Session : Linked(s, n, p)'
    <2>1. CASE q = n /\ r = p
      <3>0. PICK t : t = <<n, p, starts[n]>>
        OBVIOUS
      <3>1. t \in Session
        <4>1. p \in Peers[n] /\ starts[n] \in Nat /\ starts[n] <= MaxStarts[n]
          BY DEF TypeOK
        <4>2. starts[n] >= 1 /\ MaxStarts[n] \in Nat
          BY DEF LiveShape
        <4>3. starts[n] \in 1..MaxStarts[n]
          BY <4>1, <4>2
        <4>4. t \in {n} \X Peers[n] \X (1..MaxStarts[n])
          BY <3>0, <4>1, <4>3
        <4> QED
          BY <4>4 DEF Session
      <3>2. backlog' = [backlog EXCEPT ![n] = @ \cup {t}, ![p] = @ \cup {t}]
        BY <1>3, <2>1, <3>0 DEF Connect
      <3>3. {t[1], t[2]} = {n, p}
        BY <3>0
      <3>4. t \in backlog'[n] /\ t \in backlog'[p]
        BY <1>0, <3>2
      <3>5. Linked(t, n, p)'
        BY <3>3, <3>4 DEF Linked, Live
      <3> QED
        BY <3>1, <3>5
    <2>2. CASE ~ (q = n /\ r = p)
      BY <1>0, <1>3, <2>2 DEF Connect
    <2> QED
      BY <2>1, <2>2
  <1>4. ASSUME NEW q \in Node, NEW r \in Node, ConnectFails(q, r)
        PROVE  p \in dialing'[n]
    BY <1>0, <1>4 DEF ConnectFails
  <1>5. ASSUME NEW q \in Node, NEW r \in Session, Accept(q, r) \/ Disconnect(q, r)
        PROVE  p \in dialing'[n]
    BY <1>5 DEF Accept, Disconnect, Disconnected
  <1> QED
    BY <1>1, <1>2, <1>3, <1>4, <1>5, LinkKinds

\* No step takes a running authority out of reach.
LEMMA ReachStep ==
    ASSUME CloseKnit, TypeOK, LiveShape, NothingTooLarge, AuthoritiesInReach,
           [Next]_vars
    PROVE  AuthoritiesInReach'
  <1> SUFFICES ASSUME NEW n \in Node, NEW p \in Authority, up'[n], up'[p], n # p
               PROVE  WithinReach(n, p)'
    BY DEF AuthoritiesInReach, Authority
  <1>0. /\ up \in [Node -> BOOLEAN] /\ dialing \in [Node -> SUBSET Node]
    BY DEF TypeOK
  <1>1. p \in Node /\ p \in Peers[n] /\ n \in Peers[p]
    BY DEF CloseKnit
  <1>2. CASE up[n] /\ up[p]
    <2>1. WithinReach(n, p)
      BY <1>2 DEF AuthoritiesInReach
    <2>2. CASE p \in dialing[n]
      BY <1>1, <1>2, <2>2, DialStays DEF WithinReach
    <2>3. CASE n \in dialing[p]
      <3>1. n \in dialing'[p] \/ \E s \in Session : Linked(s, p, n)'
        BY <1>1, <1>2, <2>3, DialStays
      <3>2. \A s \in Session : Linked(s, p, n)' => Linked(s, n, p)'
        BY DEF Linked
      <3> QED
        BY <3>1, <3>2 DEF WithinReach
    <2>4. CASE \E s \in Session : Linked(s, n, p)
      BY <1>1, <2>4, LinkStays DEF WithinReach
    <2> QED
      BY <2>1, <2>2, <2>3, <2>4 DEF WithinReach
  <1>3. CASE ~ (up[n] /\ up[p])
    <2>1. Start(n) \/ Start(p)
      <3>1. ASSUME NEW q \in Node, Start(q)
            PROVE  q = n \/ q = p
        BY <1>0, <1>1, <1>3, <3>1 DEF Start
      <3>2. ~ UNCHANGED up
        BY <1>3
      <3>3. ASSUME NEW q \in Node, Crash(q)
            PROVE  FALSE
        BY <1>0, <1>1, <1>3, <3>3 DEF Crash
      <3>4. ASSUME NEW q \in Node, NEW r \in Node, Connect(q, r) \/ ConnectFails(q, r)
            PROVE  UNCHANGED up
        BY <3>4 DEF Connect, ConnectFails
      <3>5. ASSUME NEW q \in Node, NEW r \in Session, Accept(q, r) \/ Disconnect(q, r)
            PROVE  UNCHANGED up
        BY <3>5 DEF Accept, Disconnect, Disconnected
      <3>6. UNCHANGED linkState => UNCHANGED up
        BY DEF linkState
      <3> QED
        BY <3>1, <3>2, <3>3, <3>4, <3>5, <3>6, LinkKinds
    <2>2. p \in dialing'[n] \/ n \in dialing'[p]
      BY <1>0, <1>1, <2>1 DEF Start
    <2> QED
      BY <2>2 DEF WithinReach
  <1> QED
    BY <1>2, <1>3

\* A message about something else than a chain is never too large, and a
\* chain is not either.
LEMMA SmallMessages ==
    ASSUME CloseKnit
    PROVE  /\ \A b : ~ TooLarge(NewBlock(b))
           /\ \A tx : ~ TooLarge(NewTx(tx))
           /\ \A h : ~ TooLarge(GetBlocks(h))
           /\ \A bs : Len(bs) \in Nat /\ Len(bs) < MaxHeight => ~ TooLarge(Blocks(bs))
  BY NetAssumption DEF TooLarge, NewBlock, NewTx, GetBlocks, Blocks, CloseKnit

\* A handler forwards nothing but the message that it has read.
LEMMA ForwardBegins ==
    ASSUME TypeOK, [Next]_vars, NEW q \in Node,
           handler'[q] # handler[q], handler'[q].kind = "forward"
    PROVE  \E s \in Session : /\ wire[s][q] # << >>
                              /\ handler'[q] = Forwarding(Head(wire[s][q]), s)
  <1>0. handler \in [Node -> Handler]
    BY DEF TypeOK
  <1>1. ASSUME NEW n \in Node, NEW h, handler' = [handler EXCEPT ![n] = h]
        PROVE  n = q /\ h = handler'[q] /\ h.kind = "forward"
    BY <1>0, <1>1
  <1>2. ~ UNCHANGED handler
    OBVIOUS
  <1>3. ASSUME NEW n \in Node,
               \/ Crash(n) \/ OnPeerConnected(n) \/ Forward(n) \/ SyncEnd(n)
               \/ SaveFails(n)
        PROVE  FALSE
    <2>1. handler' = [handler EXCEPT ![n] = Idle]
      BY <1>3 DEF Crash, OnPeerConnected, Forward, SyncEnd, SaveFails
    <2> QED
      BY <1>1, <2>1 DEF Idle
  <1>4. ASSUME NEW n \in Node, NEW s \in Session, Accept(n, s)
        PROVE  FALSE
    BY <1>1, <1>4 DEF Accept, Greeting
  <1>5. ASSUME NEW n \in Node, NEW bs, SyncBlock(n, bs)
        PROVE  FALSE
    BY <1>1, <1>5 DEF SyncBlock, Syncing
  <1>6. ASSUME NEW n \in Node, NEW s \in Session,
               OnNewBlockNext(n, s) \/ OnNewTxAccepted(n, s)
        PROVE  /\ wire[s][q] # << >>
               /\ handler'[q] = Forwarding(Head(wire[s][q]), s)
    BY <1>1, <1>6 DEF OnNewBlockNext, OnNewTxAccepted, Receives
  <1>7. ASSUME NEW n \in Node,
               \/ Start(n) \/ MainStep(n) \/ SaveStep(n)
               \/ (\E p \in Node : Dial(n, p))
               \/ \E tx \in Txs : SubmitTransaction(n, tx) \/ BroadcastTx(n, tx)
        PROVE  UNCHANGED handler
    BY <1>7 DEF Start, MainStep, ProduceBlock, BroadcastBlock, SaveStep,
         SaveBlock, SaveHeight, SaveAccountState, EndSaveAccounts, Dial,
         Connect, ConnectFails, SubmitTransaction, BroadcastTx, threads
  <1>8. ASSUME NEW n \in Node, NEW s \in Session,
               \/ RefuseMessage(n, s) \/ Disconnect(n, s) \/ LoseConnection(n, s)
               \/ OnNewBlockAhead(n, s) \/ OnNewBlockIgnored(n, s)
               \/ OnNewTxIgnored(n, s) \/ OnGetBlocks(n, s)
               \/ OnBlocksUseless(n, s)
        PROVE  UNCHANGED handler
    BY <1>8 DEF RefuseMessage, Disconnect, LoseConnection, Disconnected,
         OnNewBlockAhead, OnNewBlockIgnored, OnNewTxIgnored, OnGetBlocks,
         OnBlocksUseless, threads
  <1>9. UNCHANGED vars => UNCHANGED handler
    BY DEF vars, threads
  <1> QED
    BY <1>2, <1>3, <1>4, <1>5, <1>6, <1>7, <1>8, <1>9
    DEF Next, Resume, Handle, OnBlocks, SyncNext

\* No message on the wires w is too large.
Small(w) ==
    \A s \in Session, n \in Node : \A m \in Pending(w, s, n) : ~ TooLarge(m)

\* No step sends a message that is too large.
LEMMA SizeStep ==
    ASSUME CloseKnit, TypeOK, OneHistory, NothingTooLarge, [Next]_vars
    PROVE  NothingTooLarge'
  <1> USE NetAssumption
  <1>0. wire \in Wires /\ handler \in [Node -> Handler] /\ Small(wire)
    BY DEF TypeOK, NothingTooLarge, Small
  <1>1. ASSUME NEW w \in Wires, NEW n \in Node, NEW S, NEW m, Small(w), ~ TooLarge(m)
        PROVE  Small(Sent(w, n, S, m))
    <2> SUFFICES ASSUME NEW s \in Session, NEW q \in Node,
                        NEW k \in Pending(Sent(w, n, S, m), s, q)
                 PROVE  ~ TooLarge(k)
      BY DEF Small
    <2>1. k \in Pending(w, s, q) \cup {m}
      BY PendingSent
    <2> QED
      BY <1>1, <2>1 DEF Small
  <1>2. ASSUME NEW n \in Node, NEW s \in Session, wire[s][n] # << >>
        PROVE  /\ Small(Consumed(wire, n, s)) /\ Consumed(wire, n, s) \in Wires
               /\ ~ TooLarge(Head(wire[s][n]))
    BY <1>0, <1>2, PendingConsumed, ConsumedType DEF Small
  <1>3. ASSUME NEW n \in Node, NEW S
        PROVE  Small(Discarded(wire, n, S))
    BY <1>0, PendingDiscarded DEF Small
  <1>4. ASSUME NEW n \in Node, NEW s \in Session, Handle(n, s)
        PROVE  Small(wire')
    <2>1. up[n] /\ wire[s][n] # << >>
      BY <1>4 DEF Handle, Receives, OnNewBlockAhead, OnNewBlockNext,
           OnNewBlockIgnored, OnNewTxAccepted, OnNewTxIgnored, OnGetBlocks,
           OnBlocks, OnBlocksUseless
    <2>2. Small(Consumed(wire, n, s)) /\ Consumed(wire, n, s) \in Wires
      BY <1>2, <2>1
    <2>3. CASE OnNewBlockAhead(n, s)
      <3>1. wire' = Sent(Consumed(wire, n, s), n, {s}, GetBlocks(Len(chain[n])))
        BY <2>3 DEF OnNewBlockAhead
      <3> QED
        BY <1>1, <2>2, <3>1, SmallMessages
    <2>4. CASE OnGetBlocks(n, s)
      <3> DEFINE from == Head(wire[s][n]).from
                 bs == SubSeq(chain[n], from + 1, Len(chain[n]))
      <3>1. wire' = Sent(Consumed(wire, n, s), n, {s}, Blocks(bs))
        BY <2>4 DEF OnGetBlocks
      <3>2. from \in Nat /\ from >= 1
        <4>1. Head(wire[s][n]).type = "GET_BLOCKS"
          BY <2>4 DEF OnGetBlocks, Receives
        <4>2. Head(wire[s][n]) \in Message /\ MessageOfficial(Head(wire[s][n]))
          BY <2>1, HeadOfficial DEF OneHistory
        <4> QED
          BY <4>1, <4>2, MessagePayload DEF MessageOfficial
      <3>3. chain[n] \in Seq(NetBlock) /\ Len(chain[n]) \in 0..MaxHeight
        BY <2>1 DEF TypeOK, OneHistory, LiveShape
      <3> HIDE DEF from
      <3>4. Len(bs) \in Nat /\ Len(bs) < MaxHeight
        <4>1. CASE from + 1 <= Len(chain[n])
          BY <3>2, <3>3, <4>1
        <4>2. CASE ~ (from + 1 <= Len(chain[n]))
          BY <3>2, <3>3, <4>2
        <4> QED
          BY <4>1, <4>2
      <3> HIDE DEF bs
      <3> QED
        BY <1>1, <2>2, <3>1, <3>4, SmallMessages
    <2>5. CASE wire' = Consumed(wire, n, s)
      BY <2>2, <2>5
    <2> QED
      BY <1>4, <2>3, <2>4, <2>5 DEF Handle, OnNewBlockNext, OnNewBlockIgnored,
           OnNewTxAccepted, OnNewTxIgnored, OnBlocks, OnBlocksUseless
  <1>5. ASSUME NEW n \in Node, OnPeerConnected(n)
        PROVE  Small(wire')
    BY <1>0, <1>1, <1>5, SmallMessages DEF OnPeerConnected
  <1>6. ASSUME NEW n \in Node, Forward(n)
        PROVE  Small(wire')
    BY <1>0, <1>1, <1>6 DEF Forward, NothingTooLarge
  <1>7. ASSUME NEW n \in Node, BroadcastBlock(n)
        PROVE  Small(wire')
    BY <1>0, <1>1, <1>7, SmallMessages DEF BroadcastBlock
  <1>8. ASSUME NEW n \in Node, NEW tx \in Txs, BroadcastTx(n, tx)
        PROVE  Small(wire')
    BY <1>0, <1>1, <1>8, SmallMessages DEF BroadcastTx
  <1>9. ASSUME NEW n \in Node,
               \/ Crash(n)
               \/ \E s \in Session :
                     RefuseMessage(n, s) \/ Disconnect(n, s) \/ LoseConnection(n, s)
         PROVE  Small(wire')
    <2>1. \E S : wire' = Discarded(wire, n, S)
      BY <1>9 DEF Crash, RefuseMessage, Disconnect, LoseConnection, Disconnected
    <2> QED
      BY <1>3, <2>1
  <1>10. ASSUME NEW n \in Node,
                \/ Start(n) \/ ProduceBlock(n) \/ SaveStep(n) \/ SaveFails(n)
                \/ SyncNext(n) \/ SyncEnd(n)
                \/ (\E p \in Node : Dial(n, p))
                \/ (\E s \in Session : Accept(n, s))
                \/ \E tx \in Txs : SubmitTransaction(n, tx)
         PROVE  UNCHANGED wire
    BY <1>10 DEF Start, ProduceBlock, SaveStep, SaveBlock, SaveHeight,
         SaveAccountState, EndSaveAccounts, SaveFails, SyncNext, SyncEnd, Dial,
         Connect, ConnectFails, Accept, SubmitTransaction, network
  <1>11. UNCHANGED wire => Small(wire')
    BY <1>0
  <1>12. UNCHANGED vars => UNCHANGED wire
    BY DEF vars, network
  <1>13. Small(wire')
    BY <1>4, <1>5, <1>6, <1>7, <1>8, <1>9, <1>10, <1>11, <1>12
    DEF Next, MainStep, Resume
  <1>14. ASSUME NEW q \in Node, handler'[q].kind = "forward"
         PROVE  ~ TooLarge(handler'[q].msg)
    <2>1. CASE handler'[q] = handler[q]
      BY <1>14, <2>1 DEF NothingTooLarge
    <2>2. CASE handler'[q] # handler[q]
      <3>1. PICK s \in Session : /\ wire[s][q] # << >>
                                 /\ handler'[q] = Forwarding(Head(wire[s][q]), s)
        BY <1>14, <2>2, ForwardBegins
      <3> QED
        BY <1>2, <3>1 DEF Forwarding
    <2> QED
      BY <2>1, <2>2
  <1> QED
    BY <1>13, <1>14 DEF NothingTooLarge, Small, TooLarge

-----------------------------------------------------------------------------
(***************************************************************************)
(* Every block that an authority produced is on its way to everyone        *)
(***************************************************************************)

\* A request, an answer and an announcement that help a node whose chain has
\* height h to the block with index i.
Asks(m, h) == m.type = "GET_BLOCKS" /\ m.from <= h

Answers(m, h, i) == m.type = "BLOCKS" /\ RunFrom(m.blocks, h, i)

Announces(m, i) == m.type = "NEW_BLOCK" /\ m.block.index >= i

\* n is going to ask p for the blocks that it lacks, or has done so.
WillAsk(n, p, s) ==
    \/ s \in backlog[n]
    \/ handler[n] = Greeting(s)
    \/ \E m \in Pending(wire, s, p) : Asks(m, Len(chain[n]))

\* n has the block with index i, or something will bring it over s.
WillLearn(n, p, s, i) ==
    \/ Len(chain[n]) > i
    \/ WillAsk(n, p, s)
    \/ \E m \in Pending(wire, s, n) : Answers(m, Len(chain[n]), i) \/ Announces(m, i)
    \/ handler[n].kind = "sync" /\ RunFrom(handler[n].blocks, Len(chain[n]), i)
    \/ producing[p] # None /\ producing[p].index >= i /\ s \in open[p]

\* p has the block with index i, which was its own to produce.
HasOwn(p, i) == i < Len(chain[p]) /\ getProducer(i) = p

\* Whatever p has produced n will learn over s; and as long as p has not
\* accepted the connection, n has yet to be answered.
Hopeful(n, p, s) ==
    /\ s \notin open[p] => WillAsk(n, p, s)
    /\ \A i \in Index : HasOwn(p, i) => WillLearn(n, p, s, i)

NothingLost ==
    \A n, p \in Node, s \in Session : Linked(s, n, p) => Hopeful(n, p, s)

\* What a step has to do to each reason for hope.
LEMMA HopeKept ==
    ASSUME NEW n \in Node, NEW p \in Node, NEW s \in Session, Hopeful(n, p, s),
           wire \in Wires, Len(chain[n]) \in Nat, Len(chain'[n]) \in Nat,
           Len(chain[n]) <= Len(chain'[n]),
           s \in backlog[n] \/ handler[n] = Greeting(s) => WillAsk(n, p, s)',
           \A m \in Pending(wire, s, p) : Asks(m, Len(chain[n])) =>
              \/ m \in Pending(wire', s, p)
              \/ s \in open'[p] /\ \A i \in Index : HasOwn(p, i)' => WillLearn(n, p, s, i)',
           \A i \in Index, m \in Pending(wire, s, n) :
              Answers(m, Len(chain[n]), i) \/ Announces(m, i) =>
                 m \in Pending(wire', s, n) \/ WillLearn(n, p, s, i)',
           \A i \in Index :
              handler[n].kind = "sync" /\ RunFrom(handler[n].blocks, Len(chain[n]), i) =>
                 WillLearn(n, p, s, i)',
           \A i \in Index :
              producing[p] # None /\ producing[p].index >= i /\ s \in open[p] =>
                 WillLearn(n, p, s, i)',
           s \in open[p] => s \in open'[p],
           \A i \in Index : HasOwn(p, i)' =>
              HasOwn(p, i) \/ (producing'[p] # None /\ producing'[p].index >= i)
    PROVE  Hopeful(n, p, s)'
  <1> USE NetAssumption
  <1>1. Pending(wire, s, p) \subseteq Message /\ Pending(wire, s, n) \subseteq Message
    BY DEF Pending, Wires
  <1>2. ASSUME NEW m \in Message, Asks(m, Len(chain[n]))
        PROVE  Asks(m, Len(chain'[n]))
    BY <1>2, MessagePayload DEF Asks
  <1>3. ASSUME NEW m, NEW i, Answers(m, Len(chain[n]), i)
        PROVE  Answers(m, Len(chain'[n]), i)
    BY <1>3, RunGrows DEF Answers
  <1>4. ASSUME NEW m \in Pending(wire, s, p), Asks(m, Len(chain[n])), m \in Pending(wire', s, p)
        PROVE  WillAsk(n, p, s)'
    BY <1>1, <1>2, <1>4 DEF WillAsk
  <1>5. ASSUME NEW i, WillAsk(n, p, s)'
        PROVE  WillLearn(n, p, s, i)'
    BY <1>5 DEF WillLearn
  <1>6. ASSUME NEW i \in Index, NEW m \in Pending(wire, s, n),
               Answers(m, Len(chain[n]), i) \/ Announces(m, i), m \in Pending(wire', s, n)
        PROVE  WillLearn(n, p, s, i)'
    BY <1>3, <1>6 DEF WillLearn
  <1>7. ASSUME NEW i \in Index, Len(chain[n]) > i
        PROVE  WillLearn(n, p, s, i)'
    <2>1. Len(chain'[n]) > i
      BY <1>7 DEF Index
    <2> QED
      BY <2>1 DEF WillLearn
  <1>8. ASSUME WillAsk(n, p, s)
        PROVE  \/ WillAsk(n, p, s)'
               \/ s \in open'[p] /\ \A i \in Index : HasOwn(p, i)' => WillLearn(n, p, s, i)'
    BY <1>4, <1>8 DEF WillAsk
  <1>9. ASSUME s \notin open'[p]
        PROVE  WillAsk(n, p, s)'
    BY <1>8, <1>9 DEF Hopeful
  <1>10. ASSUME NEW i \in Index, HasOwn(p, i)'
         PROVE  WillLearn(n, p, s, i)'
    <2>1. CASE HasOwn(p, i)
      <3>1. WillLearn(n, p, s, i)
        BY <2>1 DEF Hopeful
      <3>2. CASE WillAsk(n, p, s)
        BY <1>5, <1>8, <1>10, <3>2
      <3>3. CASE ~ WillAsk(n, p, s)
        BY <1>6, <1>7, <3>1, <3>3 DEF WillLearn
      <3> QED
        BY <3>2, <3>3
    <2>2. CASE producing'[p] # None /\ producing'[p].index >= i
      <3>1. CASE s \in open'[p]
        BY <2>2, <3>1 DEF WillLearn
      <3>2. CASE s \notin open'[p]
        BY <1>5, <1>9, <3>2
      <3> QED
        BY <3>1, <3>2
    <2> QED
      BY <1>10, <2>1, <2>2
  <1> QED
    BY <1>9, <1>10 DEF Hopeful, Index

\* A running node adds blocks to its chain or leaves it as it is.
LEMMA ChainMoves ==
    ASSUME DiskMayFail = FALSE, TypeOK, OneHistory, [Next]_vars,
           NEW n \in Node, up[n], up'[n]
    PROVE  chain'[n] = chain[n] \/ AddsSome(n)
  <1>1. LiveShape /\ \A q \in Node : ThreadShape(q)
    BY DEF OneHistory, NodeShape
  <1>2. up \in [Node -> BOOLEAN] /\ chain \in [Node -> Seq(NetBlock)]
    BY DEF TypeOK
  <1>3. UNCHANGED blockState => chain'[n] = chain[n]
    BY DEF blockState
  <1>4. ASSUME NEW q \in Node, Start(q) \/ Crash(q)
        PROVE  chain'[n] = chain[n]
    BY <1>2, <1>4 DEF Start, Crash
  <1>5. ASSUME NEW q \in Node, AddsSome(q), q # n
        PROVE  chain'[n] = chain[n]
    BY <1>2, <1>5 DEF AddsSome, Adds, BlockAccepted
  <1>6. ASSUME NEW q \in Node,
               \/ BroadcastBlock(q) \/ SaveBlock(q) \/ SaveHeight(q)
               \/ EndSaveAccounts(q) \/ SyncEnd(q)
        PROVE  chain'[n] = chain[n]
    BY <1>6 DEF BroadcastBlock, SaveBlock, SaveHeight, EndSaveAccounts, SyncEnd, memory
  <1> QED
    BY <1>1, <1>3, <1>4, <1>5, <1>6, StepKinds

\* The block that a node adds has the next index; its own are those that its
\* main thread has yet to broadcast.
LEMMA AddedBlock ==
    ASSUME TypeOK, TypeOK', OneHistory, NEW n \in Node, AddsSome(n)
    PROVE  /\ Len(chain'[n]) = Len(chain[n]) + 1
           /\ getProducer(Len(chain[n])) = n =>
                 producing'[n] # None /\ producing'[n].index = Len(chain[n])
  <1> USE NetAssumption
  <1>1. /\ LiveShape /\ WireOfficial /\ HeldOfficial(n)
    BY DEF OneHistory
  <1>2. /\ chain \in [Node -> Seq(NetBlock)] /\ chain' \in [Node -> Seq(NetBlock)]
        /\ producing \in [Node -> NetBlock \cup {None}]
    BY DEF TypeOK
  <1>3. PICK b, t : Adds(n, b, t)
    BY DEF AddsSome
  <1>4. /\ chain' = [chain EXCEPT ![n] = Append(@, b)]
        /\ b.index = Len(chain[n])
    BY <1>3 DEF Adds, BlockAccepted, CanAdd, Follows, getHeight
  <1>5. Len(chain'[n]) = Len(chain[n]) + 1
    BY <1>2, <1>4
  <1>6. CASE t = "main"
    <2>1. producing'[n] = b
      BY <1>2, <1>3, <1>6 DEF Adds
    <2>2. b \in NetBlock
      <3>1. Len(chain[n]) \in Nat /\ chain'[n][Len(chain[n]) + 1] = b
        BY <1>2, <1>4
      <3>2. chain'[n] \in Seq(NetBlock) /\ Len(chain[n]) + 1 \in 1..Len(chain'[n])
        BY <1>2, <1>5, <3>1
      <3> QED
        BY <3>1, <3>2
    <2>3. b # None
      BY <2>2 DEF NetBlock
    <2> QED
      BY <1>4, <1>5, <2>1, <2>3
  <1>7. CASE t = "io"
    <2>1. Official(b) /\ saving[n] = "done" /\ up[n]
      BY <1>1, <1>3, <1>7, DeliveredOfficial DEF Adds
    <2> QED
      BY <1>4, <1>5, <2>1, CanAddOfficial
  <1> QED
    BY <1>3, <1>6, <1>7 DEF Adds

\* A running node's chain never gets shorter ...
LEMMA ChainGrows ==
    ASSUME DiskMayFail = FALSE, TypeOK, OneHistory, [Next]_vars,
           NEW n \in Node, up[n], up'[n]
    PROVE  /\ Len(chain[n]) \in Nat /\ Len(chain'[n]) \in Nat
           /\ Len(chain[n]) <= Len(chain'[n])
  <1>1. TypeOK'
    BY TypeStep DEF OneHistory
  <1>2. Len(chain[n]) \in Nat
    BY DEF TypeOK
  <1>3. Len(chain'[n]) = Len(chain[n]) \/ Len(chain'[n]) = Len(chain[n]) + 1
    BY <1>1, ChainMoves, AddedBlock
  <1> QED
    BY <1>2, <1>3

\* ... and a block of its own in it is one that it is going to broadcast.
LEMMA OwnStep ==
    ASSUME DiskMayFail = FALSE, TypeOK, OneHistory, [Next]_vars,
           NEW p \in Node, up[p], up'[p], NEW i \in Index, HasOwn(p, i)'
    PROVE  HasOwn(p, i) \/ (producing'[p] # None /\ producing'[p].index >= i)
  <1>1. TypeOK'
    BY TypeStep DEF OneHistory
  <1>2. Len(chain[p]) \in Nat /\ i \in Nat
    BY DEF TypeOK, Index
  <1>3. i < Len(chain'[p]) /\ getProducer(i) = p
    BY DEF HasOwn
  <1>4. CASE i < Len(chain[p])
    BY <1>3, <1>4 DEF HasOwn
  <1>5. CASE ~ (i < Len(chain[p]))
    <2>1. AddsSome(p)
      BY <1>3, <1>5, ChainMoves
    <2>2. i = Len(chain[p])
      BY <1>1, <1>2, <1>3, <1>5, <2>1, AddedBlock
    <2>3. producing'[p] # None /\ producing'[p].index = i
      BY <1>1, <1>3, <2>1, <2>2, AddedBlock
    <2> QED
      BY <1>2, <2>3
  <1> QED
    BY <1>4, <1>5

\* How the io thread of a running node leaves what it was doing.
LEMMA HandlerEnds ==
    ASSUME DiskMayFail = FALSE, TypeOK, [Next]_vars, NEW n \in Node, up'[n],
           handler'[n] # handler[n]
    PROVE  \/ handler[n] = Idle
           \/ handler[n].kind = "greet" /\ OnPeerConnected(n)
           \/ handler[n].kind = "forward"
           \/ handler[n].kind = "sync" /\ (SyncNext(n) \/ SyncEnd(n))
  <1>0. handler \in [Node -> Handler] /\ up \in [Node -> BOOLEAN]
    BY DEF TypeOK
  <1>1. ASSUME NEW q \in Node, NEW h, handler' = [handler EXCEPT ![q] = h]
        PROVE  q = n
    BY <1>0, <1>1
  <1>2. ASSUME NEW q \in Node, Crash(q)
        PROVE  FALSE
    BY <1>0, <1>1, <1>2 DEF Crash
  <1>3. ASSUME NEW q \in Node, Resume(q)
        PROVE  q = n
    BY <1>1, <1>3 DEF Resume, OnPeerConnected, Forward, SyncNext, SyncBlock, SyncEnd
  <1>4. CASE Resume(n)
    BY <1>4 DEF Resume, OnPeerConnected, Forward, SyncNext, SyncEnd
  <1>5. ASSUME NEW q \in Node, NEW s \in Session, Accept(q, s)
        PROVE  handler[n] = Idle
    BY <1>1, <1>5 DEF Accept
  <1>6. ASSUME NEW q \in Node, NEW s \in Session,
               OnNewBlockNext(q, s) \/ OnNewTxAccepted(q, s)
        PROVE  handler[n] = Idle
    BY <1>1, <1>6 DEF OnNewBlockNext, OnNewTxAccepted, Receives
  <1>7. ASSUME NEW q \in Node, NEW s \in Session, OnBlocks(q, s)
        PROVE  handler[n] = Idle
    BY <1>1, <1>7 DEF OnBlocks, SyncBlock, Receives
  <1>8. ASSUME NEW q \in Node,
               \/ Start(q) \/ MainStep(q) \/ SaveStep(q)
               \/ (\E p \in Node : Dial(q, p))
               \/ \E tx \in Txs : SubmitTransaction(q, tx) \/ BroadcastTx(q, tx)
        PROVE  UNCHANGED handler
    BY <1>8 DEF Start, MainStep, ProduceBlock, BroadcastBlock, SaveStep,
         SaveBlock, SaveHeight, SaveAccountState, EndSaveAccounts, Dial,
         Connect, ConnectFails, SubmitTransaction, BroadcastTx, threads
  <1>9. ASSUME NEW q \in Node, NEW s \in Session,
               \/ RefuseMessage(q, s) \/ Disconnect(q, s) \/ LoseConnection(q, s)
               \/ OnNewBlockAhead(q, s) \/ OnNewBlockIgnored(q, s)
               \/ OnNewTxIgnored(q, s) \/ OnGetBlocks(q, s)
               \/ OnBlocksUseless(q, s)
        PROVE  UNCHANGED handler
    BY <1>9 DEF RefuseMessage, Disconnect, LoseConnection, Disconnected,
         OnNewBlockAhead, OnNewBlockIgnored, OnNewTxIgnored, OnGetBlocks,
         OnBlocksUseless, threads
  <1>10. UNCHANGED vars => UNCHANGED handler
    BY DEF vars, threads
  <1>11. \A q \in Node : ~ SaveFails(q)
    BY DEF SaveFails
  <1> QED
    BY <1>2, <1>3, <1>4, <1>5, <1>6, <1>7, <1>8, <1>9, <1>10, <1>11
    DEF Next, Handle

\* A connection that waits for its handler, or whose handler waits for the
\* mutex, comes to its request.
LEMMA GreetStep ==
    ASSUME CloseKnit, TypeOK, NothingTooLarge, [Next]_vars,
           NEW n \in Node, NEW p \in Node, NEW s \in Session,
           Linked(s, n, p), up'[n], Len(chain[n]) \in Nat,
           s \in backlog[n] \/ handler[n] = Greeting(s)
    PROVE  WillAsk(n, p, s)'
  <1>0. /\ up \in [Node -> BOOLEAN] /\ backlog \in [Node -> SUBSET Session]
        /\ handler \in [Node -> Handler] /\ wire \in Wires
    BY DEF TypeOK
  <1>1. CASE s \in backlog[n]
    <2>1. CASE UNCHANGED linkState
      BY <1>1, <2>1 DEF linkState, WillAsk
    <2>2. ASSUME NEW q \in Node, Start(q) \/ Crash(q)
          PROVE  s \in backlog'[n]
      BY <1>0, <1>1, <2>2 DEF Start, Crash
    <2>3. ASSUME NEW q \in Node, NEW r \in Node, Connect(q, r) \/ ConnectFails(q, r)
          PROVE  s \in backlog'[n]
      BY <1>0, <1>1, <2>3 DEF Connect, ConnectFails
    <2>4. ASSUME NEW q \in Node, NEW r \in Session, Accept(q, r)
          PROVE  s \in backlog'[n] \/ handler'[n] = Greeting(s)
      BY <1>0, <1>1, <2>4 DEF Accept
    <2>5. ASSUME NEW q \in Node, NEW r \in Session, Disconnect(q, r)
          PROVE  s \in backlog'[n]
      BY <1>1, <2>5 DEF Disconnect, Disconnected
    <2> QED
      BY <2>1, <2>2, <2>3, <2>4, <2>5, LinkKinds DEF WillAsk
  <1>2. CASE handler[n] = Greeting(s) /\ handler'[n] = handler[n]
    BY <1>2 DEF WillAsk
  <1>3. CASE handler[n] = Greeting(s) /\ handler'[n] # handler[n]
    <2>1. handler[n].kind = "greet" /\ handler[n].session = s
      BY <1>3 DEF Greeting
    <2>2. OnPeerConnected(n)
      <3>1. handler[n] # Idle
        BY <2>1 DEF Idle
      <3>2. DiskMayFail = FALSE
        BY DEF CloseKnit
      <3> QED
        BY <1>3, <2>1, <3>1, <3>2, HandlerEnds
    <2>3. /\ wire' = Sent(wire, n, {s}, GetBlocks(Len(chain[n])))
          /\ chain' = chain
      BY <2>1, <2>2 DEF OnPeerConnected, memory
    <2>4. p = Other(s, n) /\ Live(s, p)
      BY LinkedEnds
    <2>5. GetBlocks(Len(chain[n])) \in Pending(wire', s, p)
      BY <1>0, <2>3, <2>4, PendingSent
    <2>6. Asks(GetBlocks(Len(chain[n])), Len(chain'[n]))
      BY <2>3 DEF Asks, GetBlocks
    <2> QED
      BY <2>5, <2>6 DEF WillAsk
  <1> QED
    BY <1>1, <1>2, <1>3

\* A message of a connection that stays is read or still on its way.
LEMMA ReadOrKept ==
    ASSUME CloseKnit, TypeOK, NothingTooLarge, [Next]_vars,
           NEW n \in Node, NEW p \in Node, NEW s \in Session,
           Linked(s, n, p), up'[n], NEW m \in Pending(wire, s, n)
    PROVE  \/ m \in Pending(wire', s, n)
           \/ m = Head(wire[s][n]) /\ wire[s][n] # << >> /\ Handle(n, s)
  <1>0. wire \in Wires /\ up \in [Node -> BOOLEAN]
    BY DEF TypeOK
  <1>1. ASSUME NEW q \in Node, NEW r \in Session, Handle(q, r)
        PROVE  \/ m \in Pending(wire', s, n)
               \/ m = Head(wire[s][n]) /\ wire[s][n] # << >> /\ Handle(n, s)
    <2>1. wire[r][q] # << >>
      BY <1>1 DEF Handle, Receives, OnNewBlockAhead, OnNewBlockNext,
           OnNewBlockIgnored, OnNewTxAccepted, OnNewTxIgnored, OnGetBlocks,
           OnBlocks, OnBlocksUseless
    <2>2. \/ wire' = Consumed(wire, q, r)
          \/ \E k : wire' = Sent(Consumed(wire, q, r), q, {r}, k)
      BY <1>1 DEF Handle, OnNewBlockAhead, OnNewBlockNext, OnNewBlockIgnored,
           OnNewTxAccepted, OnNewTxIgnored, OnGetBlocks, OnBlocks, OnBlocksUseless
    <2>3. Consumed(wire, q, r) \in Wires
      BY <1>0, <2>1, ConsumedType
    <2>4. Pending(Consumed(wire, q, r), s, n) \subseteq Pending(wire', s, n)
      <3>1. CASE wire' = Consumed(wire, q, r)
        BY <3>1
      <3>2. ASSUME NEW k, wire' = Sent(Consumed(wire, q, r), q, {r}, k)
            PROVE  Pending(Consumed(wire, q, r), s, n) \subseteq Pending(wire', s, n)
        BY <2>3, <3>2, PendingSent
      <3> QED
        BY <2>2, <3>1, <3>2
    <2>5. CASE r = s /\ q = n
      BY <1>0, <1>1, <2>1, <2>4, <2>5, PendingConsumed
    <2>6. CASE ~ (r = s /\ q = n)
      BY <1>0, <2>1, <2>4, <2>6, PendingConsumed
    <2> QED
      BY <2>5, <2>6
  <1>2. ASSUME NEW q \in Node,
               \/ OnPeerConnected(q) \/ Forward(q) \/ BroadcastBlock(q)
               \/ \E tx \in Txs : BroadcastTx(q, tx)
        PROVE  m \in Pending(wire', s, n)
    <2>1. PICK S, k : wire' = Sent(wire, q, S, k)
      BY <1>2 DEF OnPeerConnected, Forward, BroadcastBlock, BroadcastTx
    <2>2. Pending(wire, s, n) \subseteq Pending(wire', s, n)
      BY <1>0, <2>1, PendingSent
    <2> QED
      BY <2>2
  <1>3. ASSUME NEW q \in Node, Crash(q)
        PROVE  m \in Pending(wire', s, n)
    <2>1. q # n
      BY <1>0, <1>3 DEF Crash
    <2> QED
      BY <1>3, <2>1, PendingDiscarded DEF Crash
  <1>4. ASSUME NEW q \in Node, NEW r \in Session, Disconnect(q, r)
        PROVE  m \in Pending(wire', s, n)
    <2>1. r = s => q # n
      BY <1>4, LinkedEnds DEF Disconnect
    <2>2. wire' = Discarded(wire, q, {r})
      BY <1>4 DEF Disconnect, Disconnected
    <2> QED
      BY <2>1, <2>2, PendingDiscarded
  <1>5. ASSUME NEW q \in Node, NEW r \in Session, RefuseMessage(q, r) \/ LoseConnection(q, r)
        PROVE  FALSE
    <2>1. drops = 0
      BY DEF TypeOK, CloseKnit
    <2>2. wire[r][q] # << >> => Head(wire[r][q]) \in Pending(wire, r, q)
      BY <1>0, PendingConsumed
    <2> QED
      BY <1>5, <2>1, <2>2 DEF RefuseMessage, LoseConnection, NothingTooLarge, CloseKnit
  <1>6. ASSUME NEW q \in Node,
               \/ Start(q) \/ ProduceBlock(q) \/ SaveStep(q) \/ SaveFails(q)
               \/ SyncNext(q) \/ SyncEnd(q)
               \/ (\E r \in Node : Dial(q, r))
               \/ (\E r \in Session : Accept(q, r))
               \/ \E tx \in Txs : SubmitTransaction(q, tx)
        PROVE  UNCHANGED wire
    BY <1>6 DEF Start, ProduceBlock, SaveStep, SaveBlock, SaveHeight,
         SaveAccountState, EndSaveAccounts, SaveFails, SyncNext, SyncEnd, Dial,
         Connect, ConnectFails, Accept, SubmitTransaction, network
  <1>7. UNCHANGED vars => UNCHANGED wire
    BY DEF vars, network
  <1>8. UNCHANGED wire => m \in Pending(wire', s, n)
    OBVIOUS
  <1> QED
    BY <1>1, <1>2, <1>3, <1>4, <1>5, <1>6, <1>7, <1>8 DEF Next, MainStep, Resume

\* A round of onBlocks leaves what is beyond the block that it took.
LEMMA RoundKeepsHope ==
    ASSUME TypeOK, NEW n \in Node, NEW bs \in Seq(NetBlock), SyncBlock(n, bs),
           NEW i \in Nat, RunFrom(bs, Len(chain[n]), i), NEW p, NEW s
    PROVE  WillLearn(n, p, s, i)'
  <1>1. /\ chain \in [Node -> Seq(NetBlock)] /\ handler \in [Node -> Handler]
        /\ Len(chain[n]) \in Nat
    BY DEF TypeOK
  <1>2. PICK k \in 1..Len(bs) :
          /\ bs[k].index = Len(chain[n])
          /\ chain' = [chain EXCEPT ![n] = Append(@, bs[k])]
          /\ handler' = [handler EXCEPT ![n] = Syncing(SubSeq(bs, k+1, Len(bs)))]
    BY DEF SyncBlock, BlockAccepted, CanAdd, Follows, getHeight
  <1>3. RunFrom(SubSeq(bs, k+1, Len(bs)), Len(chain[n]) + 1, i)
    BY <1>1, <1>2, RunRest
  <1>4. Len(chain'[n]) = Len(chain[n]) + 1
    BY <1>1, <1>2
  <1>5. /\ handler'[n].kind = "sync"
        /\ handler'[n].blocks = SubSeq(bs, k+1, Len(bs))
    BY <1>1, <1>2 DEF Syncing
  <1> QED
    BY <1>3, <1>4, <1>5 DEF WillLearn

\* onBlocks goes on until it has what the message brought.
LEMMA SyncHope ==
    ASSUME CloseKnit, TypeOK, OneHistory, [Next]_vars, NEW n \in Node, up[n], up'[n],
           NEW i \in Index, handler[n].kind = "sync",
           RunFrom(handler[n].blocks, Len(chain[n]), i), NEW p, NEW s
    PROVE  WillLearn(n, p, s, i)'
  <1>0. DiskMayFail = FALSE /\ i \in Nat
    BY DEF CloseKnit, Index
  <1>1. handler[n].blocks \in Seq(NetBlock) /\ Len(chain[n]) \in Nat
    BY HandlerPayload DEF TypeOK
  <1>2. CASE handler'[n] = handler[n]
    <2>1. Len(chain'[n]) \in Nat /\ Len(chain[n]) <= Len(chain'[n])
      BY <1>0, ChainGrows
    <2>2. RunFrom(handler'[n].blocks, Len(chain'[n]), i)
      BY <1>1, <1>2, <2>1, RunGrows
    <2> QED
      BY <1>2, <2>2 DEF WillLearn
  <1>3. CASE handler'[n] # handler[n]
    <2>1. handler[n] # Idle
      BY DEF Idle
    <2>2. SyncNext(n) \/ SyncEnd(n)
      BY <1>0, <1>3, <2>1, HandlerEnds
    <2>3. CASE SyncNext(n)
      BY <1>0, <1>1, <2>3, RoundKeepsHope DEF SyncNext
    <2>4. CASE SyncEnd(n)
      <3>1. /\ saving[n] = "done" /\ chain' = chain
            /\ ~ \E k \in 1..Len(handler[n].blocks) : TakesNext(n, handler[n].blocks, k)
        BY <2>4 DEF SyncEnd, memory
      <3>2. \A j \in 1..Len(handler[n].blocks) : Official(handler[n].blocks[j])
        BY DEF OneHistory, HeldOfficial
      <3>3. Len(chain[n]) > i
        BY <1>0, <1>1, <3>1, <3>2, TakesRun
      <3> QED
        BY <3>1, <3>3 DEF WillLearn
    <2> QED
      BY <2>2, <2>3, <2>4
  <1> QED
    BY <1>2, <1>3

\* A request is answered with everything that the sender may lack.
LEMMA RequestAnswered ==
    ASSUME TypeOK, OneHistory, NEW n \in Node, NEW p \in Node, NEW s \in Session,
           Linked(s, n, p), wire[s][p] # << >>, Handle(p, s),
           Asks(Head(wire[s][p]), Len(chain[n])),
           NEW i \in Index, HasOwn(p, i)'
    PROVE  s \in open'[p] /\ WillLearn(n, p, s, i)'
  <1> DEFINE f == Head(wire[s][p]).from
             bs == SubSeq(chain[p], f + 1, Len(chain[p]))
             h == Len(chain[n])
  <1>1. /\ Head(wire[s][p]).type = "GET_BLOCKS" /\ f <= h
    BY DEF Asks
  <1>2. OnGetBlocks(p, s)
    BY <1>1 DEF Handle, Receives, OnNewBlockAhead, OnNewBlockNext,
         OnNewBlockIgnored, OnNewTxAccepted, OnNewTxIgnored, OnBlocks,
         OnBlocksUseless
  <1>3. /\ up[p] /\ s \in open[p] /\ open' = open /\ chain' = chain
        /\ wire' = Sent(Consumed(wire, p, s), p, {s}, Blocks(bs))
    BY <1>2 DEF OnGetBlocks, Receives, memory
  <1>4. f \in Nat /\ f >= 1
    <2>1. Head(wire[s][p]) \in Message /\ MessageOfficial(Head(wire[s][p]))
      BY HeadOfficial DEF OneHistory
    <2> QED
      BY <1>1, <2>1, MessagePayload DEF MessageOfficial
  <1>5. h \in Nat /\ i \in Nat /\ i < Len(chain[p])
    BY <1>3 DEF TypeOK, Index, HasOwn
  <1>6. h > i \/ RunFrom(bs, h, i)
    BY <1>1, <1>3, <1>4, <1>5, AnswerRuns
  <1>7. Blocks(bs) \in Pending(wire', s, n)
    <2>1. Consumed(wire, p, s) \in Wires
      BY ConsumedType DEF TypeOK
    <2>2. n = Other(s, p) /\ Live(s, n)
      BY LinkedEnds
    <2> HIDE DEF bs
    <2> QED
      BY <1>3, <2>1, <2>2, PendingSent
  <1>8. RunFrom(bs, h, i) => Answers(Blocks(bs), h, i)
    BY DEF Answers, Blocks
  <1> HIDE DEF bs
  <1> QED
    BY <1>3, <1>6, <1>7, <1>8 DEF WillLearn

\* What a node reads brings the block, or the request for it.
LEMMA ReadingHelps ==
    ASSUME TypeOK, OneHistory, NEW n \in Node, NEW p \in Node, NEW s \in Session,
           Linked(s, n, p), wire[s][n] # << >>, Handle(n, s), NEW i \in Index,
           Answers(Head(wire[s][n]), Len(chain[n]), i) \/ Announces(Head(wire[s][n]), i)
    PROVE  WillLearn(n, p, s, i)'
  <1> DEFINE m == Head(wire[s][n])
             h == Len(chain[n])
  <1>1. m \in Message /\ MessageOfficial(m)
    BY HeadOfficial DEF OneHistory
  <1>2. h \in Nat /\ i \in Nat /\ chain \in [Node -> Seq(NetBlock)] /\ wire \in Wires
    BY DEF TypeOK, Index
  <1>3. up[n] /\ mutex[n] = "free"
    BY DEF Handle, Receives, OnNewBlockAhead, OnNewBlockNext, OnNewBlockIgnored,
         OnNewTxAccepted, OnNewTxIgnored, OnGetBlocks, OnBlocks, OnBlocksUseless
  <1>4. saving[n] = "done"
    BY <1>3 DEF OneHistory, NodeShape, ThreadShape
  <1>5. CASE Answers(m, h, i)
    <2>1. m.type = "BLOCKS" /\ RunFrom(m.blocks, h, i)
      BY <1>5 DEF Answers
    <2>2. /\ m.blocks \in Seq(NetBlock)
          /\ \A j \in 1..Len(m.blocks) : Official(m.blocks[j])
      BY <1>1, <2>1, MessagePayload DEF MessageOfficial
    <2>3. OnBlocks(n, s) \/ OnBlocksUseless(n, s)
      BY <2>1 DEF Handle, Receives, OnNewBlockAhead, OnNewBlockNext,
           OnNewBlockIgnored, OnNewTxAccepted, OnNewTxIgnored, OnGetBlocks
    <2>4. CASE OnBlocks(n, s)
      BY <1>2, <2>1, <2>2, <2>4, RoundKeepsHope DEF OnBlocks
    <2>5. CASE OnBlocksUseless(n, s)
      <3>1. /\ ~ \E k \in 1..Len(m.blocks) : TakesNext(n, m.blocks, k)
            /\ chain' = chain
        BY <2>5 DEF OnBlocksUseless, memory
      <3>2. h > i
        BY <1>2, <1>3, <1>4, <2>1, <2>2, <3>1, TakesRun
      <3> QED
        BY <3>1, <3>2 DEF WillLearn
    <2> QED
      BY <2>3, <2>4, <2>5
  <1>6. CASE Announces(m, i)
    <2>1. m.type = "NEW_BLOCK" /\ m.block.index >= i
      BY <1>6 DEF Announces
    <2>2. m.block \in NetBlock /\ m.block.index \in Nat /\ Official(m.block)
      BY <1>1, <2>1, MessagePayload DEF MessageOfficial, NetBlock, Block
    <2>3. OnNewBlockAhead(n, s) \/ OnNewBlockNext(n, s) \/ OnNewBlockIgnored(n, s)
      BY <2>1 DEF Handle, Receives, OnNewTxAccepted, OnNewTxIgnored, OnGetBlocks,
           OnBlocks, OnBlocksUseless
    <2>4. CASE OnNewBlockAhead(n, s)
      <3>1. /\ wire' = Sent(Consumed(wire, n, s), n, {s}, GetBlocks(h))
            /\ chain' = chain
        BY <2>4 DEF OnNewBlockAhead, memory
      <3>2. GetBlocks(h) \in Pending(wire', s, p)
        <4>1. Consumed(wire, n, s) \in Wires
          BY <1>2, ConsumedType
        <4>2. p = Other(s, n) /\ Live(s, p)
          BY LinkedEnds
        <4> QED
          BY <3>1, <4>1, <4>2, PendingSent
      <3>3. Asks(GetBlocks(h), Len(chain'[n]))
        BY <1>2, <3>1 DEF Asks, GetBlocks
      <3> QED
        BY <3>2, <3>3 DEF WillLearn, WillAsk
    <2>5. CASE OnNewBlockNext(n, s)
      <3>1. /\ m.block.index = h
            /\ chain' = [chain EXCEPT ![n] = Append(@, m.block)]
        BY <2>5 DEF OnNewBlockNext, BlockAccepted, CanAdd, Follows, getHeight
      <3>2. Len(chain'[n]) = h + 1
        BY <1>2, <3>1
      <3>3. Len(chain'[n]) > i
        BY <1>2, <2>1, <3>1, <3>2
      <3> QED
        BY <3>3 DEF WillLearn
    <2>6. CASE OnNewBlockIgnored(n, s)
      <3>1. m.block.index <= h /\ ~ CanAdd(chain[n], m.block) /\ chain' = chain
        BY <2>6 DEF OnNewBlockIgnored, memory
      <3>2. m.block.index # h
        BY <1>3, <1>4, <2>2, <3>1, CanAddOfficial
      <3>3. h > i
        BY <1>2, <2>1, <2>2, <3>1, <3>2
      <3> QED
        BY <3>1, <3>3 DEF WillLearn
    <2> QED
      BY <2>3, <2>4, <2>5, <2>6
  <1> QED
    BY <1>5, <1>6

\* A block that waits to be broadcast keeps waiting or is announced.
LEMMA BroadcastHope ==
    ASSUME CloseKnit, TypeOK, OneHistory, [Next]_vars,
           NEW n \in Node, NEW p \in Node, NEW s \in Session, Linked(s, n, p),
           up[p], up'[p], s \in open[p], s \in open'[p], NEW i \in Index,
           producing[p] # None, producing[p].index >= i
    PROVE  WillLearn(n, p, s, i)'
  <1>0. DiskMayFail = FALSE /\ LiveShape /\ \A q \in Node : ThreadShape(q)
    BY DEF CloseKnit, OneHistory, NodeShape
  <1>1. /\ up \in [Node -> BOOLEAN] /\ producing \in [Node -> NetBlock \cup {None}]
        /\ wire \in Wires
    BY DEF TypeOK
  <1>2. CASE producing'[p] = producing[p]
    BY <1>2 DEF WillLearn
  <1>3. CASE BroadcastBlock(p)
    <2>1. wire' = Sent(wire, p, open[p], NewBlock(producing[p]))
      BY <1>3 DEF BroadcastBlock
    <2>2. n = Other(s, p) /\ Live(s, n)
      BY LinkedEnds
    <2>3. NewBlock(producing[p]) \in Pending(wire', s, n)
      BY <1>1, <2>1, <2>2, PendingSent
    <2>4. Announces(NewBlock(producing[p]), i)
      BY DEF Announces, NewBlock
    <2> QED
      BY <2>3, <2>4 DEF WillLearn
  <1>4. CASE ProduceBlock(p)
    BY <1>4 DEF ProduceBlock
  <1>5. producing'[p] = producing[p] \/ BroadcastBlock(p) \/ ProduceBlock(p)
    <2>1. ASSUME NEW q \in Node, Crash(q)
          PROVE  producing'[p] = producing[p]
      BY <1>1, <2>1 DEF Crash
    <2>2. ASSUME NEW q \in Node, MainStep(q)
          PROVE  producing'[p] = producing[p] \/ BroadcastBlock(p) \/ ProduceBlock(p)
      BY <1>1, <2>2 DEF MainStep, ProduceBlock, BroadcastBlock
    <2>3. ASSUME NEW q \in Node,
                 \/ Start(q) \/ SaveStep(q) \/ SaveFails(q) \/ Resume(q)
                 \/ (\E r \in Node : Dial(q, r))
                 \/ \E tx \in Txs : SubmitTransaction(q, tx) \/ BroadcastTx(q, tx)
          PROVE  UNCHANGED producing
      BY <2>3 DEF Start, SaveStep, SaveBlock, SaveHeight, SaveAccountState,
           EndSaveAccounts, SaveFails, Resume, OnPeerConnected, Forward, SyncNext,
           SyncEnd, Dial, Connect, ConnectFails, SubmitTransaction, BroadcastTx,
           threads
    <2>4. ASSUME NEW q \in Node, NEW r \in Session,
                 \/ Accept(q, r) \/ RefuseMessage(q, r) \/ Disconnect(q, r)
                 \/ LoseConnection(q, r) \/ Handle(q, r)
          PROVE  UNCHANGED producing
      BY <2>4 DEF Accept, RefuseMessage, Disconnect, LoseConnection, Disconnected,
           Handle, OnNewBlockAhead, OnNewBlockNext, OnNewBlockIgnored,
           OnNewTxAccepted, OnNewTxIgnored, OnGetBlocks, OnBlocks,
           OnBlocksUseless, threads
    <2>5. UNCHANGED vars => UNCHANGED producing
      BY DEF vars, threads
    <2> QED
      BY <2>1, <2>2, <2>3, <2>4, <2>5 DEF Next
  <1> QED
    BY <1>2, <1>3, <1>4, <1>5

\* An accepted connection that stays is not taken back.
LEMMA OpenStays ==
    ASSUME CloseKnit, TypeOK, NothingTooLarge, [Next]_vars,
           NEW n \in Node, NEW p \in Node, NEW s \in Session, Linked(s, n, p),
           up'[p], s \in open[p]
    PROVE  s \in open'[p]
  <1>0. up \in [Node -> BOOLEAN] /\ open \in [Node -> SUBSET Session]
    BY DEF TypeOK
  <1>1. CASE UNCHANGED linkState
    BY <1>1 DEF linkState
  <1>2. ASSUME NEW q \in Node, Start(q) \/ Crash(q)
        PROVE  s \in open'[p]
    BY <1>0, <1>2 DEF Start, Crash
  <1>3. ASSUME NEW q \in Node, NEW r \in Node, Connect(q, r) \/ ConnectFails(q, r)
        PROVE  s \in open'[p]
    BY <1>3 DEF Connect, ConnectFails
  <1>4. ASSUME NEW q \in Node, NEW r \in Session, Accept(q, r)
        PROVE  s \in open'[p]
    BY <1>0, <1>4 DEF Accept
  <1>5. ASSUME NEW q \in Node, NEW r \in Session, Disconnect(q, r)
        PROVE  s \in open'[p]
    <2>1. r = s => q # p
      BY <1>5, LinkedEnds DEF Disconnect
    <2> QED
      BY <1>0, <1>5, <2>1 DEF Disconnect, Disconnected
  <1> QED
    BY <1>1, <1>2, <1>3, <1>4, <1>5, LinkKinds

\* Nothing is lost in a step.
LEMMA HopeStep ==
    ASSUME CloseKnit, TypeOK, OneHistory, DownIsAlone, NothingTooLarge, NothingLost,
           [Next]_vars
    PROVE  NothingLost'
  <1> SUFFICES ASSUME NEW n \in Node, NEW p \in Node, NEW s \in Session,
                      Linked(s, n, p)'
               PROVE  Hopeful(n, p, s)'
    BY DEF NothingLost
  <1>0. DiskMayFail = FALSE /\ wire \in Wires
    BY DEF CloseKnit, TypeOK
  <1>1. CASE ~ Linked(s, n, p)
    <2>1. s \in backlog'[n]
      BY <1>1, LinkBegins
    <2> QED
      BY <2>1 DEF Hopeful, WillLearn, WillAsk
  <1>2. CASE Linked(s, n, p)
    <2>1. Hopeful(n, p, s)
      BY <1>2 DEF NothingLost
    <2>2. up[n] /\ up[p]
      BY <1>2, LinkedEnds DEF DownIsAlone, Live
    <2>3. up'[n] /\ up'[p]
      <3>1. DownIsAlone'
        BY DownStep
      <3>2. (Live(s, n) /\ Live(s, p))'
        BY DEF Linked
      <3> QED
        BY <3>1, <3>2 DEF DownIsAlone, Live
    <2>4. Linked(s, p, n)
      BY <1>2 DEF Linked
    <2>5. /\ Len(chain[n]) \in Nat /\ Len(chain'[n]) \in Nat
          /\ Len(chain[n]) <= Len(chain'[n])
      BY <1>0, <2>2, <2>3, ChainGrows
    <2>6. s \in open[p] => s \in open'[p]
      BY <1>2, <2>3, OpenStays
    <2>7. s \in backlog[n] \/ handler[n] = Greeting(s) => WillAsk(n, p, s)'
      BY <1>2, <2>3, <2>5, GreetStep
    <2>8. ASSUME NEW m \in Pending(wire, s, p), Asks(m, Len(chain[n])),
                 m \notin Pending(wire', s, p)
          PROVE  s \in open'[p] /\ \A i \in Index : HasOwn(p, i)' => WillLearn(n, p, s, i)'
      <3>1. m = Head(wire[s][p]) /\ wire[s][p] # << >> /\ Handle(p, s)
        BY <2>3, <2>4, <2>8, ReadOrKept
      <3>2. s \in open'[p]
        BY <2>6, <3>1 DEF Handle, Receives, OnNewBlockAhead, OnNewBlockNext,
             OnNewBlockIgnored, OnNewTxAccepted, OnNewTxIgnored, OnGetBlocks,
             OnBlocks, OnBlocksUseless
      <3>3. ASSUME NEW i \in Index, HasOwn(p, i)'
            PROVE  WillLearn(n, p, s, i)'
        BY <1>2, <2>8, <3>1, <3>3, RequestAnswered
      <3> QED
        BY <3>2, <3>3 DEF Index
    <2>9. ASSUME NEW i \in Index, NEW m \in Pending(wire, s, n),
                 Answers(m, Len(chain[n]), i) \/ Announces(m, i),
                 m \notin Pending(wire', s, n)
          PROVE  WillLearn(n, p, s, i)'
      <3>1. m = Head(wire[s][n]) /\ wire[s][n] # << >> /\ Handle(n, s)
        BY <1>2, <2>3, <2>9, ReadOrKept
      <3> QED
        BY <1>2, <2>9, <3>1, ReadingHelps
    <2>10. ASSUME NEW i \in Index, handler[n].kind = "sync",
                  RunFrom(handler[n].blocks, Len(chain[n]), i)
           PROVE  WillLearn(n, p, s, i)'
      BY <2>2, <2>3, <2>10, SyncHope
    <2>11. ASSUME NEW i \in Index, producing[p] # None, producing[p].index >= i,
                  s \in open[p]
           PROVE  WillLearn(n, p, s, i)'
      BY <1>2, <2>2, <2>3, <2>6, <2>11, BroadcastHope
    <2>12. ASSUME NEW i \in Index, HasOwn(p, i)'
           PROVE  HasOwn(p, i) \/ (producing'[p] # None /\ producing'[p].index >= i)
      BY <1>0, <2>2, <2>3, <2>12, OwnStep
    <2> QED
      BY <1>0, <2>1, <2>5, <2>6, <2>7, <2>8, <2>9, <2>10, <2>11, <2>12, HopeKept
  <1> QED
    BY <1>1, <1>2

-----------------------------------------------------------------------------
(***************************************************************************)
(* The network never comes to rest before the bound                        *)
(***************************************************************************)

\* Every index has its authority.
LEMMA ProducerIsAuthority ==
    ASSUME NEW i \in Nat
    PROVE  getProducer(i) \in Authority
  <1>1. Len(Authorities) \in Nat /\ Len(Authorities) > 0
    BY PoAAssumption
  <1>2. (i % Len(Authorities)) + 1 \in 1..Len(Authorities)
    BY <1>1
  <1> QED
    BY <1>2 DEF getProducer, Authority

\* In a network at rest everyone has what the authorities have produced ...
LEMMA QuietHope ==
    ASSUME TypeOK, AuthoritiesInReach, NothingLost, Quiet,
           NEW n \in Node, NEW p \in Authority, p \in Node, n # p,
           NEW i \in Index, HasOwn(p, i)
    PROVE  Len(chain[n]) > i
  <1>1. /\ up[n] /\ up[p] /\ dialing[n] = {} /\ dialing[p] = {} /\ backlog[n] = {}
        /\ producing[p] = None /\ handler[n] = Idle
    BY DEF Quiet
  <1>2. PICK s \in Session : Linked(s, n, p)
    BY <1>1 DEF AuthoritiesInReach, WithinReach
  <1>3. Pending(wire, s, n) = {} /\ Pending(wire, s, p) = {}
    BY DEF Quiet, Pending
  <1>4. WillLearn(n, p, s, i)
    BY <1>2 DEF NothingLost, Hopeful
  <1>5. handler[n].kind \notin {"sync", "greet"} /\ handler[n] # Greeting(s)
    BY <1>1 DEF Idle, Greeting
  <1> QED
    BY <1>1, <1>3, <1>4, <1>5 DEF WillLearn, WillAsk

\* ... so that nobody waits: the authority whose turn is next on a chain that is
\* not full cannot have more of it, nor as much, nor less.
LEMMA QuietIsDone ==
    ASSUME CloseKnit, TypeOK, OneHistory, AuthoritiesInReach, NothingLost, Quiet,
           NEW n \in Node
    PROVE  Len(chain[n]) = MaxHeight
  <1> USE NetAssumption
  <1>1. ASSUME NEW q \in Node
        PROVE  /\ up[q] /\ saving[q] = "done" /\ Len(chain[q]) \in 1..MaxHeight
               /\ RecordedHeight(q) = Len(chain[q])
               /\ Len(chain[q]) < MaxHeight => getProducer(Len(chain[q])) # q
    <2>1. /\ up[q] /\ mutex[q] = "free"
          /\ Len(chain[q]) < MaxHeight => getProducer(Len(chain[q])) # q
      BY DEF Quiet
    <2>2. saving[q] = "done" /\ Len(chain[q]) \in 1..MaxHeight
      BY <2>1 DEF OneHistory, LiveShape, NodeShape, ThreadShape
    <2> QED
      BY <2>1, <2>2 DEF OneHistory, NodeShape, MemoryMatchesDisk
  <1> SUFFICES ASSUME Len(chain[n]) # MaxHeight
               PROVE  FALSE
    OBVIOUS
  <1> DEFINE L == Len(chain[n])
             q == getProducer(L)
             M == Len(chain[q])
             r == getProducer(M)
  <1>2. L \in Index /\ L \in Nat /\ L < MaxHeight
    BY <1>1 DEF Index
  <1>3. q \in Authority /\ q \in Node /\ q # n
    BY <1>1, <1>2, ProducerIsAuthority DEF CloseKnit
  <1>4. M \in 1..MaxHeight
    BY <1>1, <1>3
  <1>5. ~ (M > L)
    <2>1. M > L => HasOwn(q, L)
      BY <1>2, <1>4 DEF HasOwn
    <2>2. ~ (L > L)
      BY <1>2
    <2> QED
      BY <1>2, <1>3, <2>1, <2>2, QuietHope
  <1>6. M # L
    BY <1>1, <1>2, <1>3
  <1>7. M < L /\ M + 1 \in 2..L /\ M \in Index /\ M \in Nat
    BY <1>2, <1>4, <1>5, <1>6 DEF Index
  <1>8. Official(chain[n][M + 1]) /\ chain[n][M + 1].index = M
    <2>1. NodeShape(n) /\ StoredOfficial(n) /\ up[n] /\ saving[n] = "done"
      BY <1>1 DEF OneHistory
    <2>2. Official(chain[n][M + 1])
      BY <1>7, <2>1, IdleChainOfficial
    <2>3. Follows(chain[n][M + 1], chain[n][M + 1 - 1], M + 1 - 1)
      BY <1>7, <2>1 DEF NodeShape, ChainShape
    <2> QED
      BY <1>7, <2>2, <2>3 DEF Follows
  <1>9. r \in Authority /\ r \in Node /\ M < Len(chain[r])
    <2>1. r \in Authority
      BY <1>7, ProducerIsAuthority
    <2>2. r \in Node /\ M < RecordedHeight(r)
      BY <1>8 DEF Official
    <2> QED
      BY <1>1, <2>1, <2>2
  <1>10. HasOwn(r, M)
    BY <1>9 DEF HasOwn
  <1>11. r # q
    BY <1>7, <1>9
  <1>12. M > M
    BY <1>3, <1>7, <1>9, <1>10, <1>11, QuietHope
  <1> QED
    BY <1>7, <1>12

\* In a network in which every authority dials everyone and is dialled by
\* everyone, running nodes stay connected with running authorities across
\* crashes and restarts, and no interleaving of handlers, broadcasts and block
\* production loses a block between them.
THEOREM Gossip ==
    ASSUME CloseKnit
    PROVE  Spec => [](DownIsAlone /\ AuthoritiesInReach /\ NothingTooLarge /\ NothingLost)
  <1>0. DiskMayFail = FALSE
    BY DEF CloseKnit
  <1>1. Init => DownIsAlone /\ AuthoritiesInReach /\ NothingTooLarge /\ NothingLost
    <2> SUFFICES ASSUME Init
                 PROVE  DownIsAlone /\ AuthoritiesInReach /\ NothingTooLarge /\ NothingLost
      OBVIOUS
    <2>1. ASSUME NEW n \in Node
          PROVE  /\ ~ up[n] /\ dialing[n] = {} /\ backlog[n] = {} /\ open[n] = {}
                 /\ handler[n] = Idle
      BY DEF Init
    <2>2. DownIsAlone
      BY <2>1 DEF DownIsAlone
    <2>3. AuthoritiesInReach
      BY <2>1 DEF AuthoritiesInReach
    <2>4. ASSUME NEW s \in Session, NEW n \in Node
          PROVE  Pending(wire, s, n) = {}
      BY DEF Init, Pending
    <2>5. NothingTooLarge
      BY <2>1, <2>4 DEF NothingTooLarge, Idle
    <2>6. NothingLost
      BY <2>1 DEF NothingLost, Linked, Live
    <2> QED
      BY <2>2, <2>3, <2>5, <2>6
  <1>2. TypeOK /\ OneHistory /\ DownIsAlone /\ AuthoritiesInReach /\ NothingTooLarge
        /\ NothingLost /\ [Next]_vars
        => DownIsAlone' /\ AuthoritiesInReach' /\ NothingTooLarge' /\ NothingLost'
    <2>1. OneHistory => LiveShape
      BY DEF OneHistory
    <2> QED
      BY <2>1, DownStep, ReachStep, SizeStep, HopeStep
  <1> QED
    BY <1>0, <1>1, <1>2, TypeCorrect, History, PTL DEF Spec

\* Such a network never comes to rest with an authority waiting for a block,
\* whatever the number of nodes, their interleavings, crashes and restarts.
THEOREM NeverStalls ==
    ASSUME CloseKnit
    PROVE  Spec => []NoStall
  <1>0. DiskMayFail = FALSE
    BY DEF CloseKnit
  <1>1. TypeOK /\ OneHistory /\ AuthoritiesInReach /\ NothingLost => NoStall
    BY QuietIsDone DEF NoStall
  <1> QED
    BY <1>0, <1>1, TypeCorrect, History, Gossip, PTL

=============================================================================
