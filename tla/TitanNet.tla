------------------------------ MODULE TitanNet ------------------------------
(***************************************************************************)
(* A network of TitanCore nodes: net/node.cpp, the connections of          *)
(* net/network_manager.cpp and net/peer_session.cpp, the disk of           *)
(* storage/storage.cpp and the main loop of main.cpp, with the ledger of   *)
(* module Ledger and the block rules of module PoAChain inside each node.  *)
(*                                                                         *)
(* Threads.  A node has a main thread (the produceBlock loop), one         *)
(* io_context thread (all network handlers) and RPC threads                *)
(* (submitTransaction).  Node::mutex_ guards chain, accounts and mempool   *)
(* and is held across the writes to disk; messages are sent outside it.    *)
(* mutex[n] says which thread holds it between two steps, producing[n]     *)
(* and handler[n] say where the main and the io thread are, submitted[n]   *)
(* holds one transaction for each RPC thread that has yet to broadcast.    *)
(*                                                                         *)
(* Connections.  A session is one TCP connection, named by who dialled     *)
(* whom in which life of the dialler.  It is ordered and reliable while    *)
(* both ends live (wire[s][n] holds what is on its way to n, the sender's  *)
(* write queue included); when one end is gone the other loses what it     *)
(* has not read yet.  Nobody dials a second time.                          *)
(*                                                                         *)
(* Crashes.  A process may die between any two steps, hence between any    *)
(* two writes to LevelDB, and be started again on the same data directory. *)
(* LevelDB keeps the writes it acknowledged when a process dies.           *)
(***************************************************************************)
EXTENDS Ledger, PoAChain

CONSTANTS
    Node,                \* processes, each with a key pair of its own
    Peers,               \* Peers[n]: the peers that node n dials when it starts
    MaxTxsPerBlock,      \* the 100 of Node::produceBlock
    Stamps,              \* values the system clock may show
    MaxReply,            \* blocks that fit into the 16 MB of one message
    DiskMayFail,         \* whether LevelDB may refuse a write
    MaxHeight,           \* bound: no block is produced at this height
    MaxStarts,           \* bound: MaxStarts[n], lives of process n
    MaxDrops,            \* bound: connections lost with both ends alive
    None                 \* no block

ASSUME NetAssumption ==
    /\ Node \subseteq Key
    /\ Peers \in [Node -> SUBSET Node]
    /\ \A n \in Node : n \notin Peers[n]
    /\ MaxTxsPerBlock \in Nat
    /\ Stamps \subseteq Nat
    /\ MaxReply \in Nat \ {0}
    /\ DiskMayFail \in BOOLEAN
    /\ MaxHeight \in Nat \ {0}
    /\ MaxStarts \in [Node -> Nat]
    /\ MaxDrops \in Nat
    /\ None \notin Block

VARIABLES
    up,              \* up[n]: the process is running
    starts,          \* starts[n]: lives so far
    chain,           \* Blockchain::chain_
    accounts,        \* StateManager::accounts_
    mempool,         \* Mempool
    storedBlock,     \* LevelDB "b:" entries, by index
    hashIndex,       \* LevelDB "h:" entries, hash -> index
    storedHeight,    \* LevelDB "m:height", 0 when there is none
    storedAccounts,  \* LevelDB "a:" entries
    mutex,           \* holder of Node::mutex_: "free", "main" or "io"
    saving,          \* the next write of afterBlockAccepted, or "done"
    producing,       \* main thread: the block it has yet to broadcast
    handler,         \* io thread: the rest of the handler it is in
    submitted,       \* RPC threads: accepted, not yet broadcast
    dialing,         \* peers that connectToPeer has yet to reach
    backlog,         \* connections the kernel made, handler not run yet
    open,            \* NetworkManager::peers_
    wire,            \* messages on their way
    drops            \* connections lost so far

memory == <<chain, accounts, mempool>>
disk == <<storedBlock, hashIndex, storedHeight, storedAccounts>>
threads == <<mutex, saving, producing, handler, submitted>>
network == <<dialing, backlog, open, wire, drops>>
vars == <<up, starts, memory, disk, threads, network>>

-----------------------------------------------------------------------------
(***************************************************************************)
(* Messages and sessions                                                   *)
(***************************************************************************)

Session == UNION {{n} \X Peers[n] \X (1..MaxStarts[n]) : n \in Node}

Other(s, n) == IF n = s[1] THEN s[2] ELSE s[1]

\* Indices of the blocks that can be on disk; genesis never is.
Index == 1..MaxHeight-1

\* The blocks that the bound leaves room for.
NetBlock == {b \in Block : b.index < MaxHeight}

NewBlock(b)    == [type |-> "NEW_BLOCK", block |-> b]
NewTx(tx)      == [type |-> "NEW_TX", tx |-> tx]
GetBlocks(h)   == [type |-> "GET_BLOCKS", from |-> h]
Blocks(bs)     == [type |-> "BLOCKS", blocks |-> bs]

Message ==
    [type : {"NEW_BLOCK"}, block : NetBlock]
    \cup [type : {"NEW_TX"}, tx : Txs]
    \cup [type : {"GET_BLOCKS"}, from : Nat]
    \cup [type : {"BLOCKS"}, blocks : Seq(NetBlock)]

\* What is on its way, by session and receiving end.
Wires == [Session -> [Node -> Seq(Message)]]

\* Where the io thread is: between handlers; in onPeerConnected; about to
\* forward what it accepted; inside the loop of onBlocks.
Idle             == [kind |-> "idle"]
Greeting(s)      == [kind |-> "greet", session |-> s]
Forwarding(m, s) == [kind |-> "forward", msg |-> m, from |-> s]
Syncing(bs)      == [kind |-> "sync", blocks |-> bs]

Handler ==
    {Idle}
    \cup [kind : {"greet"}, session : Session]
    \cup [kind : {"forward"}, msg : Message, from : Session]
    \cup [kind : {"sync"}, blocks : Seq(NetBlock)]

\* The other end can still read what is sent over s.
Live(s, n) == s \in open[n] \cup backlog[n]

\* PeerSession::send of m by n over the sessions S, on top of the wires w.
Sent(w, n, S, m) ==
    [s \in Session |-> [p \in Node |->
        IF s \in S /\ p = Other(s, n) /\ Live(s, p)
        THEN Append(w[s][p], m) ELSE w[s][p]]]

\* n takes the first message of s off the wires w.
Consumed(w, n, s) == [w EXCEPT ![s][n] = Tail(@)]

\* Nothing is on its way to n over the sessions S any more.
Discarded(w, n, S) ==
    [s \in Session |-> [p \in Node |->
        IF s \in S /\ p = n THEN << >> ELSE w[s][p]]]

-----------------------------------------------------------------------------

Init ==
    /\ up = [n \in Node |-> FALSE]
    /\ starts = [n \in Node |-> 0]
    /\ chain = [n \in Node |-> << >>]
    /\ accounts = [n \in Node |-> << >>]
    /\ mempool = [n \in Node |-> EmptyMempool]
    /\ storedBlock = [n \in Node |-> [i \in Index |-> None]]
    /\ hashIndex = [n \in Node |-> << >>]
    /\ storedHeight = [n \in Node |-> 0]
    /\ storedAccounts = [n \in Node |-> << >>]
    /\ mutex = [n \in Node |-> "free"]
    /\ saving = [n \in Node |-> "done"]
    /\ producing = [n \in Node |-> None]
    /\ handler = [n \in Node |-> Idle]
    /\ submitted = [n \in Node |-> {}]
    /\ dialing = [n \in Node |-> {}]
    /\ backlog = [n \in Node |-> {}]
    /\ open = [n \in Node |-> {}]
    /\ wire = [s \in Session |-> [n \in Node |-> << >>]]
    /\ drops = 0

-----------------------------------------------------------------------------
(***************************************************************************)
(* Life of a process                                                       *)
(***************************************************************************)

\* The chain of height k that genesis and the stored blocks make up.
StoredChain(n, k) ==
    [i \in 1..k |-> IF i = 1 THEN GenesisBlock ELSE storedBlock[n][i-1]]

\* Mutants: nothing is recovered; the recovery loop ends one block early.
RecoversTo_Genesis(n, k) == k = 1

RecoversTo_OneShort(n, k) ==
    LET c == StoredChain(n, k) IN
    /\ \A i \in 2..k : /\ i < storedHeight[n]
                       /\ c[i] # None
                       /\ Follows(c[i], c[i-1], i-1)
    /\ k < storedHeight[n] - 1 /\ storedBlock[n][k] # None =>
          ~ Follows(storedBlock[n][k], c[k], k)

\* recoverFromStorage stops at height k: every block below was found and
\* accepted, and the recorded height is reached or the next block is missing
\* or rejected.
RecoversTo(n, k) ==
    LET c == StoredChain(n, k) IN
    /\ \A i \in 2..k : /\ i <= storedHeight[n]
                       /\ c[i] # None
                       /\ Follows(c[i], c[i-1], i-1)
    /\ k < storedHeight[n] /\ storedBlock[n][k] # None =>
          ~ Follows(storedBlock[n][k], c[k], k)

\* The accounts after the blocks of c, whether or not each of them applied.
ReplayChain(c) ==
    FoldLeft(LAMBDA acc, b : applyBlock(acc, b.transactions),
             GenesisState(GenesisAllocations), c)

\* The Node constructor, start(), and the connectToPeer calls of runNode.
Start(n) ==
    /\ ~ up[n]
    /\ starts[n] < MaxStarts[n]
    /\ up' = [up EXCEPT ![n] = TRUE]
    /\ starts' = [starts EXCEPT ![n] = @ + 1]
    /\ \E k \in 1..MaxHeight :
          /\ RecoversTo(n, k)
          /\ chain' = [chain EXCEPT ![n] = StoredChain(n, k)]
          /\ accounts' = [accounts EXCEPT ![n] = ReplayChain(StoredChain(n, k))]
    /\ mempool' = [mempool EXCEPT ![n] = EmptyMempool]
    /\ dialing' = [dialing EXCEPT ![n] = Peers[n]]
    /\ UNCHANGED <<disk, threads, backlog, open, wire, drops>>

\* The process dies, or is stopped, at any point: its memory, its threads and
\* its connections are gone, what reached LevelDB stays.  This is also what
\* a refused write does in the main thread, where nothing catches it.
Crash(n) ==
    /\ up[n]
    /\ starts[n] < MaxStarts[n]
    /\ up' = [up EXCEPT ![n] = FALSE]
    /\ chain' = [chain EXCEPT ![n] = << >>]
    /\ accounts' = [accounts EXCEPT ![n] = << >>]
    /\ mempool' = [mempool EXCEPT ![n] = EmptyMempool]
    /\ mutex' = [mutex EXCEPT ![n] = "free"]
    /\ saving' = [saving EXCEPT ![n] = "done"]
    /\ producing' = [producing EXCEPT ![n] = None]
    /\ handler' = [handler EXCEPT ![n] = Idle]
    /\ submitted' = [submitted EXCEPT ![n] = {}]
    /\ dialing' = [dialing EXCEPT ![n] = {}]
    /\ backlog' = [backlog EXCEPT ![n] = {}]
    /\ open' = [open EXCEPT ![n] = {}]
    /\ wire' = Discarded(wire, n, Session)
    /\ UNCHANGED <<starts, disk, drops>>

-----------------------------------------------------------------------------
(***************************************************************************)
(* Connections                                                             *)
(***************************************************************************)

\* The TCP handshake of a dial by n succeeds: both kernels hold a connection
\* whose completion handler has yet to run.
Connect(n, p) ==
    /\ up[n] /\ p \in dialing[n] /\ up[p]
    /\ LET s == <<n, p, starts[n]>> IN
         backlog' = [backlog EXCEPT ![n] = @ \cup {s}, ![p] = @ \cup {s}]
    /\ dialing' = [dialing EXCEPT ![n] = @ \ {p}]
    /\ UNCHANGED <<up, starts, memory, disk, threads, open, wire, drops>>

\* The peer is not listening: logged, and never tried again.
ConnectFails(n, p) ==
    /\ up[n] /\ p \in dialing[n] /\ ~ up[p]
    /\ dialing' = [dialing EXCEPT ![n] = @ \ {p}]
    /\ UNCHANGED <<up, starts, memory, disk, threads, backlog, open, wire, drops>>

\* The handler of async_accept or async_connect: addPeer, then
\* onPeerConnected, which has to wait for the mutex.
Accept(n, s) ==
    /\ up[n] /\ handler[n] = Idle /\ s \in backlog[n]
    /\ backlog' = [backlog EXCEPT ![n] = @ \ {s}]
    /\ open' = [open EXCEPT ![n] = @ \cup {s}]
    /\ handler' = [handler EXCEPT ![n] = Greeting(s)]
    /\ UNCHANGED <<up, starts, memory, disk, mutex, saving, producing,
                   submitted, dialing, wire, drops>>

\* Mutant: the first block that we lack is not asked for.
OnPeerConnected_OneAhead(n) ==
    /\ up[n] /\ handler[n].kind = "greet" /\ mutex[n] = "free"
    /\ wire' = Sent(wire, n, {handler[n].session}, GetBlocks(Len(chain[n]) + 1))
    /\ handler' = [handler EXCEPT ![n] = Idle]
    /\ UNCHANGED <<up, starts, memory, disk, mutex, saving, producing,
                   submitted, dialing, backlog, open, drops>>

\* onPeerConnected: ask the new peer for the blocks from our height on.
OnPeerConnected(n) ==
    /\ up[n] /\ handler[n].kind = "greet" /\ mutex[n] = "free"
    /\ wire' = Sent(wire, n, {handler[n].session}, GetBlocks(Len(chain[n])))
    /\ handler' = [handler EXCEPT ![n] = Idle]
    /\ UNCHANGED <<up, starts, memory, disk, mutex, saving, producing,
                   submitted, dialing, backlog, open, drops>>

\* PeerSession::disconnect and removePeer.
Disconnected(n, s) ==
    /\ up[n] /\ handler[n] = Idle /\ s \in open[n]
    /\ open' = [open EXCEPT ![n] = @ \ {s}]
    /\ wire' = Discarded(wire, n, {s})
    /\ UNCHANGED <<up, starts, memory, disk, threads, dialing, backlog>>

\* The header announces a body that readHeader does not accept.
TooLarge(m) == m.type = "BLOCKS" /\ Len(m.blocks) > MaxReply

\* PeerSession gives up on a peer whose next message is too large ...
RefuseMessage(n, s) ==
    /\ Disconnected(n, s)
    /\ wire[s][n] # << >> /\ TooLarge(Head(wire[s][n]))
    /\ UNCHANGED drops

\* ... a read or a write fails because the other end is gone ...
Disconnect(n, s) ==
    /\ Disconnected(n, s)
    /\ ~ Live(s, Other(s, n))
    /\ UNCHANGED drops

\* ... or because the network lost the connection.
LoseConnection(n, s) ==
    /\ Disconnected(n, s)
    /\ Live(s, Other(s, n))
    /\ drops < MaxDrops
    /\ drops' = drops + 1

-----------------------------------------------------------------------------
(***************************************************************************)
(* Accepting a block and writing it to disk                                *)
(***************************************************************************)

\* blockchain_->addBlock(b), state_->applyBlock(b) with its result ignored,
\* and the mempool part of afterBlockAccepted; thread t holds the mutex and
\* the first write comes next.
BlockAccepted(n, b, t) ==
    /\ CanAdd(chain[n], b)
    /\ chain' = [chain EXCEPT ![n] = Append(@, b)]
    /\ accounts' = [accounts EXCEPT ![n] = applyBlock(@, b.transactions)]
    /\ mempool' = [mempool EXCEPT ![n] =
           revalidate(removeMinedTransactions(@, b.transactions), accounts'[n])]
    /\ mutex' = [mutex EXCEPT ![n] = t]
    /\ saving' = [saving EXCEPT ![n] = "block"]

\* storage_->saveBlock: one atomic batch for the block and its hash.
SaveBlock(n) ==
    /\ saving[n] = "block"
    /\ LET b == getLatestBlock(chain[n]) IN
         /\ storedBlock' = [storedBlock EXCEPT ![n][b.index] = b]
         /\ hashIndex' = [hashIndex EXCEPT ![n] = Put(@, b.hash, b.index)]
    /\ saving' = [saving EXCEPT ![n] = "height"]
    /\ UNCHANGED <<up, starts, memory, storedHeight, storedAccounts, mutex,
                   producing, handler, submitted, network>>

\* The last write is done: the mutex is released, unless onBlocks goes on.
Saved(n) ==
    /\ saving' = [saving EXCEPT ![n] = "done"]
    /\ mutex' = [mutex EXCEPT ![n] =
           IF @ = "io" /\ handler[n].kind = "sync" THEN "io" ELSE "free"]

\* Mutants: the height is one too high; it is the index of the tip.
SaveHeight_OneAhead(n) ==
    /\ saving[n] = "height"
    /\ storedHeight' = [storedHeight EXCEPT ![n] = Len(chain[n]) + 1]
    /\ IF getLatestBlock(chain[n]).transactions = << >>
       THEN Saved(n)
       ELSE saving' = [saving EXCEPT ![n] = "accounts"] /\ UNCHANGED mutex
    /\ UNCHANGED <<up, starts, memory, storedBlock, hashIndex, storedAccounts,
                   producing, handler, submitted, network>>

SaveHeight_TipIndex(n) ==
    /\ saving[n] = "height"
    /\ storedHeight' = [storedHeight EXCEPT ![n] = Len(chain[n]) - 1]
    /\ IF getLatestBlock(chain[n]).transactions = << >>
       THEN Saved(n)
       ELSE saving' = [saving EXCEPT ![n] = "accounts"] /\ UNCHANGED mutex
    /\ UNCHANGED <<up, starts, memory, storedBlock, hashIndex, storedAccounts,
                   producing, handler, submitted, network>>

\* storage_->saveChainHeight; a block without transactions has no accounts
\* to save.
SaveHeight(n) ==
    /\ saving[n] = "height"
    /\ storedHeight' = [storedHeight EXCEPT ![n] = Len(chain[n])]
    /\ IF getLatestBlock(chain[n]).transactions = << >>
       THEN Saved(n)
       ELSE saving' = [saving EXCEPT ![n] = "accounts"] /\ UNCHANGED mutex
    /\ UNCHANGED <<up, starts, memory, storedBlock, hashIndex, storedAccounts,
                   producing, handler, submitted, network>>

\* The accounts that the new block names and whose entry is not current.
Unsaved(n) ==
    LET txs == ToSet(getLatestBlock(chain[n]).transactions)
        named == {tx.sender : tx \in txs} \cup {tx.recipient : tx \in txs}
    IN  {a \in named \cap DOMAIN accounts[n] :
            a \in DOMAIN storedAccounts[n] =>
                storedAccounts[n][a] # accounts[n][a]}

\* One storage_->saveAccountState call of the loop over the block's
\* transactions; in any order, and a write that changes nothing left out.
SaveAccountState(n, a) ==
    /\ saving[n] = "accounts" /\ a \in Unsaved(n)
    /\ storedAccounts' = [storedAccounts EXCEPT ![n] = Put(@, a, accounts[n][a])]
    /\ UNCHANGED <<up, starts, memory, storedBlock, hashIndex, storedHeight,
                   threads, network>>

\* The end of the loop and of afterBlockAccepted.
EndSaveAccounts(n) ==
    /\ saving[n] = "accounts" /\ Unsaved(n) = {}
    /\ Saved(n)
    /\ UNCHANGED <<up, starts, memory, disk, producing, handler, submitted,
                   network>>

\* A write throws inside a network handler: the mutex is released, the rest
\* of the handler is skipped, and readBody catches the exception and reads on.
SaveFails(n) ==
    /\ DiskMayFail
    /\ saving[n] # "done" /\ mutex[n] = "io"
    /\ saving' = [saving EXCEPT ![n] = "done"]
    /\ mutex' = [mutex EXCEPT ![n] = "free"]
    /\ handler' = [handler EXCEPT ![n] = Idle]
    /\ UNCHANGED <<up, starts, memory, disk, producing, submitted, network>>

-----------------------------------------------------------------------------
(***************************************************************************)
(* Main thread                                                             *)
(***************************************************************************)

\* produceBlock on this node's turn, up to the writes.
ProduceBlock(n) ==
    /\ up[n] /\ mutex[n] = "free" /\ producing[n] = None
    /\ Len(chain[n]) < MaxHeight
    /\ getProducer(Len(chain[n])) = n
    /\ \E now \in Stamps :
          LET txs == getTransactionsForBlock(mempool[n], MaxTxsPerBlock)
              b == createBlock(n, getLatestBlock(chain[n]), txs, now)
          IN  /\ BlockAccepted(n, b, "main")
              /\ producing' = [producing EXCEPT ![n] = b]
    /\ UNCHANGED <<up, starts, disk, handler, submitted, network>>

\* Mutant: the broadcast comes before the writes.
BroadcastBlock_Early(n) ==
    /\ producing[n] # None
    /\ wire' = Sent(wire, n, open[n], NewBlock(producing[n]))
    /\ producing' = [producing EXCEPT ![n] = None]
    /\ UNCHANGED <<up, starts, memory, disk, mutex, saving, handler, submitted,
                   dialing, backlog, open, drops>>

\* The broadcast at the end of produceBlock, outside the mutex.
BroadcastBlock(n) ==
    /\ producing[n] # None /\ mutex[n] # "main"
    /\ wire' = Sent(wire, n, open[n], NewBlock(producing[n]))
    /\ producing' = [producing EXCEPT ![n] = None]
    /\ UNCHANGED <<up, starts, memory, disk, mutex, saving, handler, submitted,
                   dialing, backlog, open, drops>>

-----------------------------------------------------------------------------
(***************************************************************************)
(* RPC threads                                                             *)
(***************************************************************************)

\* submitTransaction, the part under the mutex, for a transaction that the
\* mempool takes; a rejected one changes nothing but the error text.
SubmitTransaction(n, tx) ==
    /\ up[n] /\ mutex[n] = "free"
    /\ Admissible(mempool[n], accounts[n], tx)
    /\ mempool' = [mempool EXCEPT ![n] = addTransaction(@, accounts[n], tx)]
    /\ submitted' = [submitted EXCEPT ![n] = @ \cup {tx}]
    /\ UNCHANGED <<up, starts, chain, accounts, disk, mutex, saving, producing,
                   handler, network>>

\* The broadcast at its end; two RPC threads may get here in either order.
BroadcastTx(n, tx) ==
    /\ tx \in submitted[n]
    /\ wire' = Sent(wire, n, open[n], NewTx(tx))
    /\ submitted' = [submitted EXCEPT ![n] = @ \ {tx}]
    /\ UNCHANGED <<up, starts, memory, disk, mutex, saving, producing, handler,
                   dialing, backlog, open, drops>>

-----------------------------------------------------------------------------
(***************************************************************************)
(* io thread: one handler per message type                                 *)
(***************************************************************************)

\* n can handle the message of this type at the head of session s.  Every
\* handler takes the mutex first.
Receives(n, s, type) ==
    /\ up[n] /\ handler[n] = Idle /\ mutex[n] = "free"
    /\ s \in open[n] /\ wire[s][n] # << >>
    /\ Head(wire[s][n]).type = type
    /\ ~ TooLarge(Head(wire[s][n]))

\* onNewBlock, a block we are too far behind for: ask for what is missing.
OnNewBlockAhead(n, s) ==
    /\ Receives(n, s, "NEW_BLOCK")
    /\ Head(wire[s][n]).block.index > Len(chain[n])
    /\ wire' = Sent(Consumed(wire, n, s), n, {s}, GetBlocks(Len(chain[n])))
    /\ UNCHANGED <<up, starts, memory, disk, threads, dialing, backlog, open, drops>>

\* onNewBlock, the next block: accepted, and forwarded once it is written.
OnNewBlockNext(n, s) ==
    /\ Receives(n, s, "NEW_BLOCK")
    /\ BlockAccepted(n, Head(wire[s][n]).block, "io")
    /\ handler' = [handler EXCEPT ![n] = Forwarding(Head(wire[s][n]), s)]
    /\ wire' = Consumed(wire, n, s)
    /\ UNCHANGED <<up, starts, disk, producing, submitted, dialing, backlog,
                   open, drops>>

\* onNewBlock, a block we already have or that addBlock rejects.
OnNewBlockIgnored(n, s) ==
    /\ Receives(n, s, "NEW_BLOCK")
    /\ LET b == Head(wire[s][n]).block IN
         b.index <= Len(chain[n]) /\ ~ CanAdd(chain[n], b)
    /\ wire' = Consumed(wire, n, s)
    /\ UNCHANGED <<up, starts, memory, disk, threads, dialing, backlog, open, drops>>

\* onNewTx, a transaction that is new to us and that the mempool takes.
OnNewTxAccepted(n, s) ==
    /\ Receives(n, s, "NEW_TX")
    /\ LET tx == Head(wire[s][n]).tx IN
         /\ Admissible(mempool[n], accounts[n], tx)
         /\ mempool' = [mempool EXCEPT ![n] = addTransaction(@, accounts[n], tx)]
    /\ handler' = [handler EXCEPT ![n] = Forwarding(Head(wire[s][n]), s)]
    /\ wire' = Consumed(wire, n, s)
    /\ UNCHANGED <<up, starts, chain, accounts, disk, mutex, saving, producing,
                   submitted, dialing, backlog, open, drops>>

\* onNewTx, a transaction that we have or that the mempool refuses.
OnNewTxIgnored(n, s) ==
    /\ Receives(n, s, "NEW_TX")
    /\ ~ Admissible(mempool[n], accounts[n], Head(wire[s][n]).tx)
    /\ wire' = Consumed(wire, n, s)
    /\ UNCHANGED <<up, starts, memory, disk, threads, dialing, backlog, open, drops>>

\* The broadcast to everyone but the sender at the end of onNewBlock and
\* onNewTx, outside the mutex.
Forward(n) ==
    /\ handler[n].kind = "forward" /\ mutex[n] # "io"
    /\ wire' = Sent(wire, n, open[n] \ {handler[n].from}, handler[n].msg)
    /\ handler' = [handler EXCEPT ![n] = Idle]
    /\ UNCHANGED <<up, starts, memory, disk, mutex, saving, producing,
                   submitted, dialing, backlog, open, drops>>

\* Mutants: the chain is read without the mutex; from an index too far.
OnGetBlocks_NoLock(n, s) ==
    /\ up[n] /\ handler[n] = Idle /\ s \in open[n] /\ wire[s][n] # << >>
    /\ Head(wire[s][n]).type = "GET_BLOCKS"
    /\ LET bs == SubSeq(chain[n], Head(wire[s][n]).from + 1, Len(chain[n])) IN
         wire' = Sent(Consumed(wire, n, s), n, {s}, Blocks(bs))
    /\ UNCHANGED <<up, starts, memory, disk, threads, dialing, backlog, open, drops>>

OnGetBlocks_SkipsFirst(n, s) ==
    /\ Receives(n, s, "GET_BLOCKS")
    /\ LET bs == SubSeq(chain[n], Head(wire[s][n]).from + 2, Len(chain[n])) IN
         wire' = Sent(Consumed(wire, n, s), n, {s}, Blocks(bs))
    /\ UNCHANGED <<up, starts, memory, disk, threads, dialing, backlog, open, drops>>

\* onGetBlocks: everything from the given index to the tip, maybe nothing.
OnGetBlocks(n, s) ==
    /\ Receives(n, s, "GET_BLOCKS")
    /\ LET bs == SubSeq(chain[n], Head(wire[s][n]).from + 1, Len(chain[n])) IN
         wire' = Sent(Consumed(wire, n, s), n, {s}, Blocks(bs))
    /\ UNCHANGED <<up, starts, memory, disk, threads, dialing, backlog, open, drops>>

\* The loop of onBlocks takes the block at position k next: the ones before
\* it are skipped as old, and addBlock accepts it.
TakesNext(n, bs, k) ==
    /\ \A j \in 1..k-1 : bs[j].index < Len(chain[n])
    /\ CanAdd(chain[n], bs[k])

\* One round of that loop; the mutex is held until its end.
SyncBlock(n, bs) ==
    \E k \in 1..Len(bs) :
        /\ TakesNext(n, bs, k)
        /\ BlockAccepted(n, bs[k], "io")
        /\ handler' = [handler EXCEPT ![n] =
                          Syncing(SubSeq(bs, k+1, Len(bs)))]

\* onBlocks up to the first accepted block.
OnBlocks(n, s) ==
    /\ Receives(n, s, "BLOCKS")
    /\ SyncBlock(n, Head(wire[s][n]).blocks)
    /\ wire' = Consumed(wire, n, s)
    /\ UNCHANGED <<up, starts, disk, producing, submitted, dialing, backlog,
                   open, drops>>

\* onBlocks when nothing in the message is of use.
OnBlocksUseless(n, s) ==
    /\ Receives(n, s, "BLOCKS")
    /\ LET bs == Head(wire[s][n]).blocks IN
         ~ \E k \in 1..Len(bs) : TakesNext(n, bs, k)
    /\ wire' = Consumed(wire, n, s)
    /\ UNCHANGED <<up, starts, memory, disk, threads, dialing, backlog, open, drops>>

\* The loop goes on after a block has been written ...
SyncNext(n) ==
    /\ handler[n].kind = "sync" /\ mutex[n] = "io" /\ saving[n] = "done"
    /\ SyncBlock(n, handler[n].blocks)
    /\ UNCHANGED <<up, starts, disk, producing, submitted, network>>

\* ... and ends.  The accepted blocks are not forwarded to anyone.
SyncEnd(n) ==
    /\ handler[n].kind = "sync" /\ mutex[n] = "io" /\ saving[n] = "done"
    /\ ~ \E k \in 1..Len(handler[n].blocks) : TakesNext(n, handler[n].blocks, k)
    /\ mutex' = [mutex EXCEPT ![n] = "free"]
    /\ handler' = [handler EXCEPT ![n] = Idle]
    /\ UNCHANGED <<up, starts, memory, disk, saving, producing, submitted, network>>

-----------------------------------------------------------------------------

\* The steps of the threads of node n.
MainStep(n) == ProduceBlock(n) \/ BroadcastBlock(n)

SaveStep(n) ==
    \/ SaveBlock(n) \/ SaveHeight(n)
    \/ (\E a \in Address : SaveAccountState(n, a)) \/ EndSaveAccounts(n)

Handle(n, s) ==
    \/ OnNewBlockAhead(n, s) \/ OnNewBlockNext(n, s) \/ OnNewBlockIgnored(n, s)
    \/ OnNewTxAccepted(n, s) \/ OnNewTxIgnored(n, s)
    \/ OnGetBlocks(n, s)
    \/ OnBlocks(n, s) \/ OnBlocksUseless(n, s)

Resume(n) == OnPeerConnected(n) \/ Forward(n) \/ SyncNext(n) \/ SyncEnd(n)

Dial(n, p) == Connect(n, p) \/ ConnectFails(n, p)

Next ==
    \E n \in Node :
        \/ Start(n) \/ Crash(n)
        \/ MainStep(n) \/ SaveStep(n) \/ SaveFails(n) \/ Resume(n)
        \/ \E p \in Node : Dial(n, p)
        \/ \E s \in Session :
              \/ Accept(n, s) \/ Handle(n, s)
              \/ RefuseMessage(n, s) \/ Disconnect(n, s) \/ LoseConnection(n, s)
        \/ \E tx \in Txs : SubmitTransaction(n, tx) \/ BroadcastTx(n, tx)

Spec == Init /\ [][Next]_vars

\* What the operator and the schedulers give: a process that is down is
\* started (while the bound on its lives allows), the main loop comes round,
\* a thread that can go on does, and the io thread gets to every connection.
\* Crashes, lost connections, refused writes and clients are not fair.
Fairness ==
    \A n \in Node :
        /\ WF_vars(Start(n))
        /\ WF_vars(MainStep(n))
        /\ WF_vars(SaveStep(n))
        /\ WF_vars(Resume(n))
        /\ \A p \in Node : WF_vars(Dial(n, p))
        /\ \A s \in Session :
              /\ WF_vars(Accept(n, s))
              /\ WF_vars(RefuseMessage(n, s) \/ Disconnect(n, s))
              /\ WF_vars(Handle(n, s))
        /\ \A tx \in Txs : WF_vars(BroadcastTx(n, tx))

FairSpec == Spec /\ Fairness

-----------------------------------------------------------------------------
(***************************************************************************)
(* What the network promises                                               *)
(***************************************************************************)

\* Accounts and mempools are left to module Mempool and to ChainExecutes.
TypeOK ==
    /\ up \in [Node -> BOOLEAN]
    /\ starts \in [Node -> Nat]
    /\ \A n \in Node : starts[n] <= MaxStarts[n] /\ dialing[n] \subseteq Peers[n]
    /\ chain \in [Node -> Seq(NetBlock)]
    /\ storedBlock \in [Node -> [Index -> NetBlock \cup {None}]]
    /\ storedHeight \in [Node -> 0..MaxHeight]
    /\ mutex \in [Node -> {"free", "main", "io"}]
    /\ saving \in [Node -> {"done", "block", "height", "accounts"}]
    /\ producing \in [Node -> NetBlock \cup {None}]
    /\ handler \in [Node -> Handler]
    /\ submitted \in [Node -> SUBSET Txs]
    /\ dialing \in [Node -> SUBSET Node]
    /\ backlog \in [Node -> SUBSET Session]
    /\ open \in [Node -> SUBSET Session]
    /\ wire \in Wires
    /\ drops \in 0..MaxDrops

\* No fork: the chains of any two running nodes agree wherever both have a
\* block.  There is no fork choice in the code, so two chains that differ once
\* never come together again (Node::produceBlock, onNewBlock, onBlocks and
\* recoverFromStorage together, across crashes).
Agreement ==
    \A n, m \in Node : \A i \in 1..Len(chain[n]) :
        i <= Len(chain[m]) => chain[n][i] = chain[m][i]

\* The number of blocks, genesis included, that a restart of n goes by.
RecordedHeight(n) == IF storedHeight[n] <= 1 THEN 1 ELSE storedHeight[n]

\* The block is on the disk of the node that produced it, where a restart of
\* that node will find it.
DurableAtProducer(b) ==
    /\ b.validator \in Node
    /\ b.index < RecordedHeight(b.validator)
    /\ storedBlock[b.validator][b.index] = b

\* The blocks a message or an unfinished handler carries.
BlocksIn(m) ==
    CASE m.type = "NEW_BLOCK" -> {m.block}
      [] m.type = "BLOCKS"    -> ToSet(m.blocks)
      [] OTHER                -> {}

\* A block leaves its producer only when the producer can no longer forget it:
\* whatever is on a wire or in another node's chain is on the producer's disk,
\* below its recorded height.  Otherwise the producer could crash, come back
\* without the block and produce another one with the same index.
PublishedIsDurable ==
    /\ \A s \in Session, n \in Node : \A j \in 1..Len(wire[s][n]) :
          \A b \in BlocksIn(wire[s][n][j]) : DurableAtProducer(b)
    /\ \A n \in Node : \A i \in 2..Len(chain[n]) :
          chain[n][i].validator # n => DurableAtProducer(chain[n][i])

\* "On restart, chain and state are recovered from LevelDB": whenever a node
\* is not in the middle of writing, a crash costs it nothing, it would come
\* back with exactly the chain it has.
RestartKeepsChain ==
    \A n \in Node : up[n] /\ saving[n] = "done" =>
        /\ RecoversTo(n, Len(chain[n]))
        /\ StoredChain(n, Len(chain[n])) = chain[n]

\* A block below the recorded height is never replaced or removed, whatever
\* the node produces, receives or recovers later.
RecordedIsFinal ==
    [][\A n \in Node :
          /\ storedHeight'[n] >= storedHeight[n]
          /\ \A i \in Index : i < storedHeight[n] =>
                storedBlock'[n][i] = storedBlock[n][i]]_vars

\* Every block of the chain applies to what the blocks before it leave.
Executes(c) ==
    \A i \in 1..Len(c) :
        BlockApplies(ReplayChain(SubSeq(c, 1, i-1)), c[i].transactions)

\* The accounts a node answers queries from are those its chain spells out,
\* every block of it having applied: produceBlock, onNewBlock and onBlocks
\* ignore applyBlock's result, and addBlock does not look at balances, so one
\* block that fails would part the chain from the accounts for good.
ChainExecutes ==
    \A n \in Node : up[n] =>
        Executes(chain[n]) /\ accounts[n] = ReplayChain(chain[n])

\* Every process runs, every configured dial is over, nothing is on its way,
\* no thread is in the middle of something and it is nobody's turn: only a
\* client or a failure can make anything happen from here on.
Quiet ==
    /\ \A n \in Node :
          /\ up[n] /\ dialing[n] = {} /\ backlog[n] = {}
          /\ mutex[n] = "free" /\ producing[n] = None /\ handler[n] = Idle
          /\ submitted[n] = {}
          /\ Len(chain[n]) < MaxHeight => getProducer(Len(chain[n])) # n
    /\ \A s \in Session, n \in Node : wire[s][n] = << >>

\* "Gossip-based block broadcast with chain sync": the network never comes to
\* rest with an authority waiting for a block that another node has.
NoStall == Quiet => \A n \in Node : Len(chain[n]) = MaxHeight

\* The chain grows to the bound on every node and stays there: no authority is
\* left waiting for a block that nobody is going to send it again.
Convergence == <>[](\A n \in Node : up[n] /\ Len(chain[n]) = MaxHeight)

-----------------------------------------------------------------------------
(***************************************************************************)
(* Why there is no fork: the inductive invariant behind Agreement          *)
(***************************************************************************)

\* The block with this index that counts: the one that the authority whose
\* turn it is has on disk below its recorded height.  There is at most one.
Official(b) ==
    LET p == getProducer(b.index) IN
    /\ p \in Node /\ b.index \in Index
    /\ b.index < RecordedHeight(p)
    /\ storedBlock[p][b.index] = b

\* A node that is down has nothing in memory; one that runs has a chain.
LiveShape ==
    \A n \in Node :
        /\ up[n] => Len(chain[n]) \in 1..MaxHeight /\ starts[n] >= 1
        /\ ~ up[n] => /\ saving[n] = "done" /\ mutex[n] = "free"
                      /\ producing[n] = None /\ handler[n] = Idle
                      /\ chain[n] = << >>

\* The chain in memory starts at genesis and every block follows the last.
ChainShape(n) ==
    up[n] =>
        /\ chain[n][1] = GenesisBlock
        /\ \A i \in 2..Len(chain[n]) : Follows(chain[n][i], chain[n][i-1], i-1)

\* Only a holder of the mutex writes, and the main thread holds it only while
\* it writes the block that it is going to broadcast; genesis is not written.
ThreadShape(n) ==
    /\ saving[n] # "done" => Len(chain[n]) >= 2
    /\ mutex[n] = "free" => saving[n] = "done"
    /\ mutex[n] = "main" => /\ saving[n] # "done"
                            /\ producing[n] = getLatestBlock(chain[n])

\* The block before index i on disk.
StoredBefore(n, i) == IF i = 1 THEN GenesisBlock ELSE storedBlock[n][i-1]

\* What is on disk below the recorded height is a chain, at all times.
DiskShape(n) ==
    \A i \in 1..RecordedHeight(n)-1 :
        /\ storedBlock[n][i] # None
        /\ Follows(storedBlock[n][i], StoredBefore(n, i), i)

\* The disk is at most one block behind the memory, and only between the
\* acceptance of a block and saveChainHeight.
MemoryMatchesDisk(n) ==
    up[n] =>
        /\ RecordedHeight(n) = IF saving[n] \in {"block", "height"}
                               THEN Len(chain[n]) - 1 ELSE Len(chain[n])
        /\ \A i \in 1..RecordedHeight(n)-1 : storedBlock[n][i] = chain[n][i+1]
        /\ saving[n] = "height" =>
              storedBlock[n][Len(chain[n])-1] = getLatestBlock(chain[n])

\* The block that the disk lacks is our own to produce, or official already.
TipOwned(n) ==
    saving[n] \in {"block", "height"} =>
        IF mutex[n] = "main" THEN getProducer(Len(chain[n])-1) = n
                             ELSE Official(getLatestBlock(chain[n]))

\* Everything recorded, on a wire, or in the hands of a thread that is about
\* to send or to use it, is official; and nobody asks for the genesis block.
StoredOfficial(n) ==
    \A i \in 1..RecordedHeight(n)-1 : Official(storedBlock[n][i])

MessageOfficial(m) ==
    /\ m.type = "NEW_BLOCK" => Official(m.block)
    /\ m.type = "BLOCKS" => \A j \in 1..Len(m.blocks) : Official(m.blocks[j])
    /\ m.type = "GET_BLOCKS" => m.from >= 1

HeldOfficial(n) ==
    /\ producing[n] # None /\ mutex[n] # "main" => Official(producing[n])
    /\ handler[n].kind = "forward" => MessageOfficial(handler[n].msg)
    /\ handler[n].kind = "sync" =>
          \A j \in 1..Len(handler[n].blocks) : Official(handler[n].blocks[j])

WireOfficial ==
    \A s \in Session, n \in Node : \A j \in 1..Len(wire[s][n]) :
        MessageOfficial(wire[s][n][j])

NodeShape(n) ==
    ChainShape(n) /\ ThreadShape(n) /\ DiskShape(n) /\ MemoryMatchesDisk(n)

\* Each authority's disk decides which block has its index, and the rest of
\* the network only ever sees blocks that a disk has decided.
OneHistory ==
    /\ LiveShape
    /\ \A n \in Node : NodeShape(n)
    /\ \A n \in Node : TipOwned(n) /\ StoredOfficial(n) /\ HeldOfficial(n)
    /\ WireOfficial

-----------------------------------------------------------------------------
(***************************************************************************)
(* The network as one log                                                  *)
(***************************************************************************)

\* The log of the network: each index is looked up on the disk of the
\* authority whose turn it is, below its recorded height.
RecordedLog ==
    [i \in Index |->
        LET p == getProducer(i) IN
        IF p \in Node /\ i < RecordedHeight(p) THEN storedBlock[p][i] ELSE None]

Log == INSTANCE BlockLog WITH log <- RecordedLog,
                              seen <- [n \in Node |-> RecordedHeight(n)]

\* The nodes, their threads, messages and crashes together behave like a log
\* in which every index is written once and by its owner, and which every node
\* reads in order: produceBlock, the handlers, the writes of
\* afterBlockAccepted and recoverFromStorage implement BlockLog.
ImplementsLog == Log!Spec

=============================================================================
