# TitanCore: TLA+ models and proofs

TitanCore is a small proof-of-authority blockchain in C++: signed transfers
between accounts, blocks produced by a fixed list of authorities in turn, a
gossip network over TCP, LevelDB for persistence and a JSON-RPC front end. This
directory holds TLA+ models of it, translated from the code, the TLC
configurations that check them and proofs for TLAPS.

The central result: **the network never forks, whatever crashes, as long as
LevelDB takes every write**. It is proved for every number of nodes, peers, crashes
and lost connections (`TitanNetProofs.NoFork`), together with the refinement that it
rests on: what the authorities' disks hold implements one append-only log
(`TitanNetProofs.Refinement`). **The balances follow the chain**: every block that a node
accepts applies there, although the code never looks whether it does
(`ExecutionProofs.AccountsFollowChain`), and money is neither made nor lost
(`MempoolProofs.MoneyKept`). **The chain does not stall where every authority is
connected with everyone** (`TitanNetProofs.NeverStalls`); in the deployment that the
repository's README describes it can. Below the protocol, the models cover the peer session
as an implementation of an ordered channel, the threads of one process from start to
exit, the key-value space under kills, power losses and damaged records, and the
generation and distribution of keys. They also show places where the code does less
than its documentation says (see *Findings*).

## 1. The system

| Part | State | Operations | Talks to |
|---|---|---|---|
| Accounts, `core/state.cpp` | address → (balance, nonce) | `validateTransaction`, `applyBlock` (on a copy, all or nothing) | called by Node and Mempool |
| Mempool, `core/mempool.cpp` | pending transactions, pending nonce and balance per sender | `addTransaction`, `getTransactionsForBlock`, `removeMinedTransactions`, `revalidate` | reads Accounts |
| Blocks, `core/block.cpp` | none | create, hash, sign, verify, JSON | Keys, Transactions |
| Blockchain, `core/blockchain.cpp` | the list of blocks | `addBlock`, `validateChain`, searches | Consensus, Blocks |
| PoA consensus, `core/consensus.cpp` | the list of authorities | `getProducer`, `validateBlock` | called by Blockchain and Node |
| Node, `net/node.cpp` | owns all of the above behind one mutex | recovery, `produceBlock`, `submitTransaction`, one handler per message type, `afterBlockAccepted` | everything |
| Network manager, `net/network_manager.cpp` | peer list, io thread | accept, dial once, broadcast | Node (callbacks), sessions |
| Peer session, `net/peer_session.cpp` | write queue, read buffer | framed read loop, `send`, `disconnect` | TCP |
| Storage, `storage/storage.cpp` | LevelDB `b:`, `h:`, `a:`, `m:height` | save and load of blocks, accounts, height | called by Node |
| Main loop, `main.cpp` | running flag | start, dial peers, `produceBlock` every 2 s, stop | Node, RPC |
| RPC, `rpc/rpc_server.cpp` | HTTP thread pool | `submitTransaction` and queries | Node |
| Transactions, keys, hashing, genesis file, messages | none | construction, signatures, JSON, files | used by the rest |

A node has three kinds of threads: main (`produceBlock`), one io_context thread
(every network handler) and the RPC threads. `Node::mutex_` guards chain, accounts
and mempool, and stays locked during the writes to LevelDB; every message is sent
after it is released.

What is hard here, and hardly reached by a test:

* **Crashes between writes.** An accepted block costs `saveBlock` (one batch),
  `saveChainHeight` and one `saveAccountState` per account touched, in that order
  and not atomically. A producer that dies in between forgets its block and
  produces another one for the same index.
* **No fork choice.** `addBlock` only ever extends the tip. Two chains that differ
  once differ forever, so the order *write, then send* carries the whole protocol.
* **Blocks that fall between messages.** A broadcast goes to the peers of that
  moment; a new peer asks once for what it lacks; nobody asks again. Whether a block
  can fall between the two depends on how the threads interleave.
* **Caches of pending state.** Every block, own or foreign, invalidates the pending
  transactions and both caches. `applyBlock`'s result is ignored everywhere, so a
  stale pool would part chain and accounts silently.
* **A catch clause that is too wide.** `readBody` catches what a handler throws,
  storage failures included.
* **A buffer that is lent out.** `async_write` gets a pointer into the front of the
  write queue, while any thread may call `send` and handlers complete after
  `disconnect`.
* **Start and stop.** Four kinds of threads, two locks, a server that holds a reference
  to the node, and a signal at any time.
* **Unsynced writes.** A power loss may take acknowledged writes, and reads do not verify
  checksums.
* **Files that do not belong together.** Keys can be generated again over old ones, half
  way, while nodes of the old network run; no message says which network it is of. A write
  that fails after a file was opened is not noticed.

`PROJECT.json` lists the hazards line by line, with the properties that would catch
each.

## 2. Modules

| Module | Models |
|---|---|
| `Transactions` | creating, hashing, signing and verifying transfers, as operators |
| `Ledger` | `StateManager` and `Mempool` as operators |
| `PoAChain` | blocks, `addBlock`'s checks, `validateChain` and `PoAConsensus` as operators |
| `KeyFile` | hexadecimal conversion and key files, as operators |
| `Mempool` | state machine: one node's accounts and pool under any mix of submissions, own blocks and foreign blocks |
| `TitanNet` | state machine: nodes with threads, mutex, disk, crashes, connections and messages, built on `Ledger` and `PoAChain` |
| `BlockLog` | abstract specification: one log that only grows, and readers that learn it in order |
| `PeerSession` | state machine: the two `PeerSession`s of one connection, their io_contexts and TCP |
| `Channel` | abstract specification: an ordered channel that may be cut |
| `NodeProcess` | state machine: the threads and locks of one process, from `runNode` to its exit |
| `Storage` | state machine: one node's LevelDB, built on `Ledger` and `PoAChain` |
| `Bootstrap` | state machine: `--generate-keys`, the distribution of files and the nodes that start from them, built on `KeyFile` and `PoAChain` |
| `MCMempool`, `MCTitanNet`, `MCPeerSession`, `MCNodeProcess`, `MCStorage`, `MCBootstrap` | small instances for TLC |
| `TitanNetProofs` | types, no fork, durability, recovery and finality; `TitanNet` implements `BlockLog`; which networks never stall |
| `LedgerProofs` | lemmas about the operators of `Ledger`: sums, folds, transfers, sorting, the pool |
| `MempoolProofs` | money, nonces, caches and evictions in `Mempool` |
| `ExecutionProofs` | the accounts of a node of `TitanNet` are those of its chain |
| `PeerSessionProofs` | the lent buffer and the queue of `PeerSession`, which implements `Channel` |
| `NodeProcessProofs` | who may still call a node, and which errors a client may read |
| `StorageProofs` | what a restart makes of any surviving writes |
| `BootstrapProofs` | networks do not mix; key files convert back to the keys of their genesis file, or to nothing |

### Transactions, Ledger and PoAChain

The operators keep the names of the C++ methods. An account map is a partial
function; balances are taken modulo `Word`, which stands for 2^64. `applyBlock` returns the old map when any transaction
fails, as the code drops its working copy. `addTransaction` and `revalidate` keep the
five checks and the order of the code; the caches are part of the pool record.

A transaction's hash is the tuple of its signable fields. A block hash is the list of
the headers it commits to, itself and all before it, with the hashes of their
transactions. So two hashes are equal exactly when their contents are: SHA-256 without
collisions. A signature is the pair of key and signed hash: ECDSA without forgeries.
`verifyTransaction` and `verifyBlock` make the checks of the code on these. `Follows` is
the conjunction of the four checks of `addBlock`: index, previous hash,
`verifyBlock`, and the authority's turn.

### TitanNet

State, with the code it stands for:

* `chain`, `accounts`, `mempool`: the members of `Node`; empty while it is down.
* `storedBlock`, `hashIndex`, `storedHeight`, `storedAccounts`: LevelDB. They
  survive `Crash`.
* `mutex`: which thread holds `Node::mutex_` between two steps. Only the writes are
  split into steps, so it is held by the thread that accepted a block until the last
  write, in `onBlocks` until the last block of the message.
* `saving`: the next write of `afterBlockAccepted`.
* `producing`, `handler`, `submitted`: what the main, io and RPC threads have yet to
  do after releasing the mutex, that is, to send.
* `dialing`, `backlog`, `open`, `wire`: dials to come, connections whose completion
  handler has not run, `peers_`, and messages under way, the sender's write queue
  included. A connection is ordered and reliable while both ends live. When one end
  is gone, the other may lose what it has not read.

Actions and the functions they translate:

| Action | Code |
|---|---|
| `Start` | `Node::Node`, `recoverFromStorage`, `start`, the dials of `runNode` |
| `Crash` | death of the process between any two steps; also Ctrl-C, and a refused write in the main thread, where nothing catches it |
| `Connect`, `ConnectFails`, `Accept` | `connectToPeer`, `startAccepting`, `addPeer` |
| `OnPeerConnected` | the same callback, which asks for blocks from our height on |
| `Disconnect`, `LoseConnection` | `PeerSession::disconnect`, `removePeer` |
| `RefuseMessage` | `readHeader` on a message above 16 MB: a `BLOCKS` reply of more than `MaxReply` blocks |
| `ProduceBlock`, `BroadcastBlock` | `Node::produceBlock`, under the mutex and after it |
| `SaveBlock`, `SaveHeight`, `SaveAccountState`, `EndSaveAccounts` | the writes of `afterBlockAccepted`, each a step of its own |
| `SaveFails` | a write that throws in a network handler, up to the catch in `readBody` |
| `SubmitTransaction`, `BroadcastTx` | `Node::submitTransaction`, under the mutex and after it |
| `OnNewBlockAhead`, `OnNewBlockNext`, `OnNewBlockIgnored` | the three outcomes of `onNewBlock` |
| `OnNewTxAccepted`, `OnNewTxIgnored` | `onNewTx` |
| `Forward` | the broadcast to everyone but the sender that ends both |
| `OnGetBlocks` | `onGetBlocks` |
| `OnBlocks`, `SyncNext`, `SyncEnd`, `OnBlocksUseless` | `onBlocks`: first block, next block, end, nothing of use |

`saveBlock` writes both of its entries in one batch, hence in one step. `SaveAccountState` leaves out writes
that change nothing and takes the accounts in any order, a superset of the code's
order. Only accepted submissions are actions; a rejected one changes nothing but the
error text. PING and PONG change nothing.

### BlockLog

The state is a log and, per node, how much of it the node has; a step writes the next
entry, by the node whose turn it is, or lets a node learn one more.
`TitanNet!RecordedLog` maps the network to it: the entry with index i is the block that the authority whose turn is i has on disk below
its recorded height. Nothing in `BlockLog` allows an entry to change or to disappear,
so that the refinement says that crashes, restarts, overwritten blocks and refused
messages are invisible at this level.

### PeerSession and Channel

One connection, an end per node. `sent` and `handled` are the calls of `send` and of
`onMessage_`; `posted` the closures of `send` and `close` that the io_context has yet to run;
`writeQueue`, `isWriting`, `closed` the members of the session; `writes` the async_writes whose
handler has yet to run; `stream` what TCP has taken, in pieces (length and body), at most
`Window` at a time; `reading` the state of the read loop; `life` the stages of
`NetworkManager::stop`.

| Action | Code |
|---|---|
| `Send`, `RunSend` with `Enqueue` | `PeerSession::send`, before and in the posted closure |
| `doWrite`, `WriteSome`, `WriteDone` | `doWrite`; the kernel; the completion handler, which pops and goes on |
| `Receive`, `LengthHandler`, `BodyHandler` | `readHeader`, `readBody`: the size limit, parsing, the handler and its catch |
| `SocketError`, `RunClose`, `disconnect` | errors of any operation, `close`, `disconnect` and `removePeer` |
| `StopPeers`, `StopIo`, `Destroy` | `NetworkManager::stop` in its steps, and the destructor |
| `Reset` | the network |

`Channel` promises that each end handles a prefix of what the other sent, in order and
once, and that nothing but a cut end stops it; this is what `TitanNet` takes a connection
to be.

### NodeProcess

What the node computes is `TitanNet`'s matter. Here are the main thread (`main`, stage by
stage from `runNode`'s checks to its return), the HTTP thread and its workers (`http`,
`worker`), the io_context thread (`io`, `accepting`, `sessions`), `Node::mutex_` and `peersMutex_`. A
step is a critical section or the code between two. The actions are named after the
calls: `StartNode`, `StartRpc`, `InstallHandlers`, `ProduceBegin` ... `StopRpc`, `JoinRpc`,
`ClosePeers`, `ClearPeers`, `StopIo`, `JoinIo` for the main thread; `Refuse`, `Query`, `CountPeers`,
`AcceptTransaction`, `RejectTransaction`, `BroadcastTx`, `GetLastError` for a worker; `AcceptPeer`,
`Greet`, `AcceptError`, `HandleBegin`, `HandleEnd`, `Forward`, `DisconnectPeer`, `RemovePeer` for the io
thread. The code has one `lastError_`; for `ErrorIsOwnOrLater` a rejected worker also carries the
`reasons` that were put there since its own rejection, which no step reads. httplib is modelled by how the code uses it: `is_running()` holds while `listen()`
accepts, and `listen()` returns when the workers are done.

### Storage

`db` is the flat key-value space with its prefixes; `log` holds the earlier contents that a
power loss may bring back, oldest first, and `Sync` shortens it. `SaveBlock` (one batch),
`SaveHeight` and `SaveAccountState` are the writes of `afterBlockAccepted`; `Start` is
`recoverFromStorage` with all its exits; `Kill` keeps what was written, `LosePower` goes back to
any of `log`, and `Damage` changes the index, the timestamp, the previous hash, the hash, the
signature, the transactions or the amount of one in a stored block, or makes it unreadable,
while the node is down. (The validator, its public key and the other fields of a
transaction are not damaged; the same checks of `verifyBlock` refuse those.) Every load of `storage.cpp` is an operator.

### KeyFile and Bootstrap

`toHex`, `fromHex`, `fromHexFixed`, `savePrivateKey` and `loadPrivateKey` work on texts, that is,
sequences of characters; `stoul` converts as many digits as it finds, as the library does.
`Line` finds the character at each place of the line without whitespace by counting those
that are kept. A key is a sequence of bytes; `KeyPairs` is what the random generator gives, in order.
In `Bootstrap`, `BeginGenerate`, `GenerateAuthority`, `OpenConfig`, `SaveConfig` are the stages of
`runGenerateKeys` and `saveGenesisConfig`, `Interrupt` its death in any of them, by an
exception when a file cannot be opened, or from outside. Once a file is open the code does
not look whether its text is written: `GenerateAuthority` writes the key file, or a
beginning of it of a length in `Cuts`, and goes on; `SaveConfig` writes `genesis.json`, or
leaves one that does not parse (`Torn`: a beginning of a JSON object is none), and is done.
`broken` notes for `OwnKeyOrNone` which key files were cut short; no step reads it. `CopyConfig` and
`CopyKey` the operator, in any order and number, `runNode` the checks and the recovery of a
node, `produceBlock`, `onNewBlock` and `SaveHeight` its blocks. Blocks go from any node to any
other, as nothing in the protocol names the network.

## 3. Runs

Times are for two workers on a small machine.

| Run | Instance | Checks | States | Time |
|---|---|---|---|---|
| `mempool` | 3 addresses, 7 transactions, 3 blocks, foreign blocks of up to 2 transactions | `TypeOK`, `SupplyConserved`, `PoolExecutable`, `PendingViewExact`, `SpentOnce`, `EvictsExactlyTheDead` | 492 000 | 0:45 |
| `restart` | a follower and a producer that may die twice, height 4, two clock readings, one lost connection, replies of at most 2 blocks | `TypeOK`, `Agreement`, `PublishedIsDurable`, `RestartKeepsChain`, `OneHistory`, `RecordedIsFinal`, `ImplementsLog` | 404 000 | 1:00 |
| `mesh` | 2 authorities that dial each other, height 3, one may die once | `NoStall`, `RestartKeepsChain` | 981 000 | 1:25 |
| `converge` | the same without crashes, with fairness | `Convergence` | 62 000 | 0:15 |
| `txs` | 2 authorities, 3 transactions, disk may refuse writes, one lost connection | `ChainExecutes` | 905 000 | 1:40 |
| `session` | 2 messages one way, 1 the other, of three kinds; reset, stop of one end | `TypeOK`, `WriteBufferStable`, `QueueMoves`, `ImplementsChannel`, `ChannelLives` | 341 000 | 1:30 |
| `process` | 2 workers, 1 peer, 3 requests, 2 transactions | `TypeOK`, `NodeOutlivesCallers`, `ErrorIsOwnOrLater`, `ShutdownCompletes`, `RequestsAnswered` | 271 000 | 2:30 |
| `storage` | height 3, 2 transfers, 2 deaths by kill or power loss, 1 damaged record | `RecoversHistory`, `HeightIsBacked`, `HashEntries`, `AccountsNotAhead`, `ChainValidates`, `SyncedIsFinal` | 1 288 000 | 2:00 |
| `bootstrap` | 2 machines, 2 bootstraps of 0 to 2 keys, key files cut after 0, 2 or 4 of 5 characters, height 4, 2 nodes that end | `OwnKeyOrNone`, `SameGenesisSameStart`, `OwnNetwork` | 1 289 000 | 2:15 |
| `star` | the three-machine deployment of the repository's README | `NoStall`, violated | | |
| `disk_fails` | disk may refuse writes | `RestartKeepsChain`, violated | | |
| `early_stop` | a signal may come before the server listens | `ShutdownCompletes`, violated | | |

What they ask:

* **mempool**: is money conserved, is each nonce spent once, are the caches exact,
  does a block evict exactly the transactions that are dead, and does what the node
  would mine always apply, whatever the other authorities put into their blocks?
  `Serviceable` defines "still valid" without sorting or pool, and `SpentOnce` replays
  the chain: both are references that the code's algorithms are compared with.
* **restart**: does any interleaving of threads, messages, crashes between writes and
  restarts with another clock reading lead to a fork, lose a recorded block, or let a
  block out before its producer has it for good? `RestartKeepsChain` evaluates recovery in
  every state in which the node is not writing (also in `mesh`). `ImplementsLog` is the
  refinement.
* **mesh**, **converge**: does an authority ever wait for a block that nobody will
  send it? `NoStall` is the safety form (nothing is left to happen, yet the chain is
  short), `Convergence` the liveness form. The instance is the smallest of the networks
  for which `NeverStalls` proves `NoStall`; `star` is a network that is none of them.
* **txs**: do chain and accounts agree when rival transactions race between two
  nodes, connections are lost and `applyBlock`'s result is ignored?
* **session**: does the lent buffer stay in place until its handler has run, does a
  queued message ever lie idle, and do the two sessions together keep what `Channel`
  promises, whatever is reset, stopped, thrown or refused?
* **process**: can a worker still call a node that is gone, can the shutdown hang on a
  lock, is every request answered, and which errors may a rejected client read?
* **storage**: what can a restart make of any prefix of the unsynced writes, of old and
  new blocks side by side, and of a block damaged in one of the fields named above? `SyncedIsFinal` says what remains of
  finality when the power fails.
* **bootstrap**: can nodes whose files come from several, partly interrupted bootstraps
  agree on the genesis block and differ in anything else, or take over a block of
  another network from disk or from a peer? Does a key file ever hold another key than the
  one its `genesis.json` names, when bootstraps end halfway and writes break off?

### Bounds

In `TitanNet`, `MaxHeight` 3 or 4 lets every authority produce at least once, and lets a node
be one block behind (`NEW_BLOCK` accepted), two behind (`GET_BLOCKS`, several blocks per
reply), three behind (in `restart`: a reply that is refused) and up to date. With two
authorities nobody is ever two blocks behind, because nobody produces twice in a row:
that is why `restart` has one producer and a follower. One crash suffices for
"forgotten, produced again, sent", the second lets the new block be forgotten too; two
clock readings make the blocks differ. The crash of a node that also receives blocks is
in `mesh`. One
lost connection suffices to lose messages with both ends alive; more would only end
with nobody connected, since no one dials again. Three transactions give a rival
pair for one nonce and a successor that only one of them leaves money for. In
`mempool` the supply is below `Word`: `validateTransaction` keeps every debit from
wrapping and a credit cannot wrap while the supply fits (the code does not check that
the genesis allocations do).

In `PeerSession`, two messages are the least with a queue behind a write, and a window of one
piece separates every pair of pieces. In `NodeProcess` two workers race each other, and three
requests let a rejection follow on a transaction that was accepted or mined. In `Storage` two
deaths leave a block of a forgotten life under a newer height, and a third start finds
it. In `Bootstrap` two bootstraps make an old and a new network, and height 4 lets an old
data directory hold more blocks than the new chain; two nodes that end let each machine
change networks. The four keys are all that two
bootstraps can use; they have leading zeros, and large and small bytes. A key file is cut
to nothing, to a whole byte, or to all but its line end, which is still a key
(`CutKeyFileRefused` is about every length, odd ones included).

Deadlock checking is off in every run: a bounded system has nothing left to do at its
bounds, and a process that has exited takes no step.

### Fairness

`TitanNet!FairSpec` assumes weak fairness of: the start of a process that is down (an operator
or a supervisor restarts it), the main thread (the `while` loop of `runNode` comes round
every two seconds), the writes and the rest of a handler (a thread that holds a lock
or has nothing to wait for goes on), a pending dial, and, per connection, accepting,
noticing that the peer is gone, and handling the next message (the io_context serves
every ready socket). Crashes, lost connections, refused writes and client submissions
carry no fairness. `Convergence` is also true when one node may die once, which
takes about five minutes to check and is not kept as a run.

`PeerSession` assumes weak fairness of every handler (the io_context runs what is ready, in
order), of the kernels, which move pieces and report closed connections, and of the rest of
`stop` once begun. Sending, resetting and stopping carry none.

`NodeProcess` assumes strong fairness of the main thread, of each worker and of `Greet`: they wait
for mutexes that others take again and again, and the main thread, the only one that
does so without being asked, sleeps for two seconds between its rounds and holds nothing
meanwhile. What holds a lock, or waits for nothing, is weakly fair. Clients, peers and signals owe
the process nothing.

## 4. Proofs

Every theorem holds for every value of the constants that satisfies the named
assumptions of the modules: no number of nodes, authorities, workers, messages,
transactions, blocks, crashes or machines is fixed. The assumptions are type
assumptions (`TransactionShape`, `TransferAssumption`, `LedgerAssumption`,
`MempoolAssumption`, `PoAAssumption`, `NetAssumption`, `SessionAssumption`,
`ProcessAssumption`, `StorageAssumption`, `KeyFileAssumption`, `BootstrapAssumption`), that
authorities are keys and at least one, that nobody dials itself, and that no key is
generated twice (`BootstrapAssumption`; keys are 32 random bytes). `RecordAssumption` and
`NoneAssumption` say that no block, text or byte is one of the special values of the model. One assumption is about the
configuration: by `GenesisAssumption` the sum of the genesis allocations is a `uint64_t`.
The code does not check it, and without it a credit could wrap around. TLC evaluates
all of them on the instances.

| Module | Theorem | States |
|---|---|---|
| `TitanNetProofs` | `TypeCorrect` | `Spec => []TypeOK`, disk failures included |
| | `History` | `Spec => []OneHistory` |
| | `NoFork` | `Spec => []Agreement` |
| | `Durability` | `Spec => []PublishedIsDurable` |
| | `Recovery` | `Spec => []RestartKeepsChain` |
| | `Finality` | `Spec => RecordedIsFinal` |
| | `Refinement` | `Spec => ImplementsLog` |
| | `NeverStalls` | `CloseKnit` implies `Spec => []NoStall` |
| | `Gossip` | `CloseKnit` implies that the invariant `NothingLost`, with what it rests on, always holds |
| `ExecutionProofs` | `AccountsFollowChain` | `Spec => []ChainExecutes` |
| `MempoolProofs` | `MempoolTyped` | `Spec => []TypeOK` |
| | `MoneyKept` | `Spec => []SupplyConserved` |
| | `CachesExact` | `Spec => []PendingViewExact` |
| | `MinedBlocksApply` | `Spec => []PoolExecutable` |
| | `NoncesSpentOnce` | `Spec => []SpentOnce` |
| | `OnlyTheDeadEvicted` | `Spec => EvictsExactlyTheDead` |
| `PeerSessionProofs` | `SessionTyped` | `Spec => []TypeOK` |
| | `WriteBufferStays` | `Spec => []WriteBufferStable` |
| | `QueueAlwaysMoves` | `Spec => []QueueMoves` |
| | `SessionImplementsChannel` | `Spec => ImplementsChannel` |
| `NodeProcessProofs` | `ProcessTyped` | `Spec => []TypeOK` |
| | `NodeOutlives` | `Spec => []NodeOutlivesCallers` |
| | `ErrorsAreOwnOrLater` | `Spec => []ErrorIsOwnOrLater` |
| `StorageProofs` | `RestartKeepsHistory` | `Spec => []RecoversHistory` |
| | `ChainAlwaysValidates` | `Spec => []ChainValidates` |
| | `HeightAlwaysBacked` | `Spec => []HeightIsBacked` |
| | `HashesAlwaysFound` | `Spec => []HashEntries` |
| | `AccountsNeverAhead` | `Spec => []AccountsNotAhead` |
| | `SyncedStays` | `Spec => SyncedIsFinal` |
| `BootstrapProofs` | `SameGenesis` | `Spec => []SameGenesisSameStart` |
| | `NetworksApart` | `Spec => []OwnNetwork` |
| | `KeyFilesNeverMixed` | `Spec => []OwnKeyOrNone` |
| | `KeyFileRoundTrip` | `loadPrivateKey(savePrivateKey(k)) = k` for every private key `k` |
| | `CutKeyFileRefused` | of the first n characters of that text `loadPrivateKey` makes `k` if only the line end is missing, and `None` otherwise |

Apart from `TypeCorrect`, the theorems of `TitanNetProofs` and `ExecutionProofs` assume
`DiskMayFail = FALSE`. The run `disk_fails` shows that the assumption is needed for
`Recovery`. (`ChainExecutes` is also checked with disks that refuse writes, as long as
nobody dies: run `txs`.)

### TitanNet: no fork

**The inductive invariant.** `Agreement` speaks of chains in memory, and nothing in it
excludes a second block with the same index on a wire, on a disk or in the hands of a
thread. `OneHistory` fixes which block counts: a block is `Official` when the authority
whose turn it is has it on disk below its recorded height. The invariant says

1. per node (`NodeShape`): the chain in memory and the disk below the recorded height
   are chains from genesis, equal but for at most one block that is being written, and
   only the holder of the mutex writes;
2. the block that the disk lacks is the node's own to produce, or already official
   (`TipOwned`);
3. everything recorded, under way, or held by a thread that is about to send or to use
   it is official (`StoredOfficial`, `HeldOfficial`, `WireOfficial`).

The proof goes in that order. `NodeShapeStep` needs nothing from the other nodes; its
core is `RecoversExactly` (recovery ends exactly at the recorded height).
`RecordedStable` and `OfficialStable` follow: a block that is official once stays so,
because the only write to a block entry is at or above the recorded height. Then a
block that is sent is official, because `BroadcastBlock` and the handlers wait for the
mutex, hence for `SaveHeight`. Two official blocks with one index are the same
entry of the same disk, which gives `NoFork`; the other theorems are read off parts of
the invariant.

Crashes need no case of their own in part 3: official blocks live on disks, and
`Crash` leaves disks alone.

**The refinement of BlockLog.** The entry i of the log is read off the disk of the authority whose turn
is i. A step of `TitanNet` maps to an append exactly when it is the `SaveHeight` of that
authority, to a reader's progress when another node's `SaveHeight` raises its recorded
height, and to a stutter otherwise. That nothing else moves the log is `RecordedIsFinal`;
that a reader learns what the log holds is `StoredOfficial`; that the appended block
continues the log is `NodeShape` with `TipOwned`.

### TitanNet: no stall

`star` shows that `NoStall` is not true of every network. `CloseKnit` says of which it is proved:
every authority is a node that dials every other node and is dialled by it (followers
need not know each other); no connection is lost while both its ends run; LevelDB takes
every write; the whole chain fits into one message. Any number of nodes may die and start
again, any number of times, at any step. Each condition but the one on writes is there
because the code has no second chance: a connection is dialled once, a block is
broadcast once to the peers of that moment, `GET_BLOCKS` is sent once per connection and
after a gap, and a reply that is too long ends the connection.

*Connected.* A process that is down has no connections (`DownIsAlone`), and one that starts
dials all its peers. So a running authority and another running node are connected, or
one of them has yet to dial the other (`AuthoritiesInReach`). `ConnectFails` needs the other end to be
down, and then that end dials when it comes up.

*Nothing lost.* Take a connection of two running nodes n and p, and a block that p has
produced itself (`HasOwn`) and n lacks. Then n `WillLearn` of it: n has yet to ask p, or its `GET_BLOCKS`
is under way; or the answer is; or the announcement of the block is, or of a later one of
p's, at which n will ask; or n's `onBlocks` has it in hand; or p is still before its
broadcast. `NothingLost` says so for every such connection, and that n has yet to ask as long as p
has not registered the connection: this is the race of a broadcast with `addPeer`. Every
step has to leave one of the reasons or turn it into the next, and `HopeKept` states once
what that takes. The steps that matter most: `OnGetBlocks` turns a question into an answer that
starts at the height asked for; since that height is not above n's own by then, the
answer continues n's chain (`RunFrom`). `OnBlocks` takes an answer into n's chain block by
block, which works because a block that travels is official (`History`), so that the one with
n's next index follows n's tip. `OnNewBlockNext` adds an announced block, `OnNewBlockAhead` asks for what is
missing before it. `BroadcastBlock` reaches everyone in `peers_`.

*At rest.* In a `Quiet` state no reason is left, so every node has every block that an authority
has produced itself (`QuietHope`). Suppose the chain of n ends before the bound, and take the
authority whose turn is next on it (`QuietIsDone`). If its chain were longer than n's, it would
have produced the next block and n would have it. If it were as long, it would produce and
not be quiet. If it were shorter, n has the block that it lacks, which is official; so the
producer of that block runs and has it, and therefore the authority has it too.

The argument is about blocks on their way *from their producer*, not about blocks that
any peer has, because `onBlocks` forwards nothing. That is why followers need only the
authorities, and why three authorities in a star are not enough.

### Ledger and Mempool: money, nonces and the pool

`Supply`, `applyBlock` and `revalidate` are a sum over a set and folds over a sequence. The
library defines both through a recursive function that takes out one element at a time,
so `LedgerProofs` begins by showing that such a function exists for every finite set and
every sequence (`SumsExist`, `FoldExists`), that a sum does not depend on the order
(`AnyOrder`), and that a fold passes through one state per element (`ReplayLoop`,
`RevalidateLoop`, and `ExecutionLoop` for a chain). Induction over the naturals is used in
the form "a set that holds 0 and with every number the next holds all of them"
(`Induction`, from `LeastNumber`), which needs no operator parameter. `SortedSorts` shows
that the place of a transaction by rank is a sorted order, `HashIdentifies` that verified
transactions with one hash are the same.

*Money.* `TransferKeepsSupply` goes through the cases of the code: the recipient is the
sender, another account, or nobody yet. No account has more than the supply, which is
below `Word`, so that no credit wraps; `MoneyKept` and `MempoolTyped` follow.

*The pool.* The inductive invariant `MempoolInv` says above all that the pool is `Exact`: the
pending transactions of a sender have the nonces that follow on its confirmed one, each
once, and both caches say what the confirmed account and these transactions say together.
`addTransaction` keeps this for fixed accounts (`AddExact`); a block moves the accounts, and
`revalidate` restores it from any pool (`RevalidateExact`).

*What is mined applies.* `HalfWay` describes the loop of `applyBlock` inside a block cut from an
exact pool: each sender has used its first nonces and still has what its later
transactions need, whatever other senders have paid it meanwhile (`MinedApplies`).

*Each nonce once.* `InOrder` says that the transactions that took effect carry, per sender, the
nonces 0, 1, 2 ... in this order, up to the one in the account.

*Evictions.* `Serviceable` knows no pool and no order: a transaction survives when the sender
still has all nonces before it in the pool and can pay for them all. `TakenIffServiceable`
shows that offering the survivors one by one, in sorted order, takes exactly these.

### Execution: the balances follow the chain

Nobody who accepts a block checks that it applies, so this must be known of every block
that can arrive. `ExecutionInv` says that the chain of a running node executes to its
accounts, that its pool is exact for them, and that what a disk has recorded executes,
whether or not its node runs. A block cut from the pool applies to the producer's own
chain by `MinedApplies`. A block that arrives is official, and so are those on the chain of
the node that accepts it: by `OneHistory` they are the ones below it on its producer's disk
(`SameHistory`), where it applies. A restart replays what the disk has recorded.

### PeerSession: the lent buffer, the queue, the channel

`WriteInv` ties together, per end, what the code keeps in four places: at most one write is
under way, it is of the front of the queue, an open session with a queue has one, and
`isWriting_` of an open session is not left over. The case that needs it is the
completion handler: it pops only what was written, and starts the next write before
anything else can.

`OrderInv` is for the refinement. Messages carry the number of their `send()`. Each end has
handled a beginning of what the other sent; its read loop and the socket hold the pieces
that follow (`Place` and `Taken` count pieces, two per message); the other end has written d
messages and perhaps half of the next, its queue holds those from d + 1 on, and the closures
that the io_context has yet to run, up to a `close`, those after them. Once either socket
is gone only the reading side matters, since nothing more is added to the stream. A step
maps to `Channel`'s send when `Send` numbers a message, to its delivery when `BodyHandler` calls
`onMessage_`, to its cut when an end will call `onMessage_` no more, and to a stutter
otherwise.

### NodeProcess: threads from start to exit

`ProcessInv` says which thread is inside a critical section of several steps (`LocksHeld`), that
workers run only between `listen()` and its return (`WorkersServed`), how far the other threads
are in each stage of the main thread (`Phases`), and what a worker holds between its two
critical sections of a rejection (`RejectionOpen`: what `lastError_` holds is among its `reasons`). `NodeOutlivesCallers` is then a matter of
order: `JoinRpc` waits for the HTTP thread, which waits for its workers, and `JoinIo` for the
io thread.

### Storage: restarts

Two invariants. `HistoryInv` makes no assumption on the records: the set `had` of the chains
that the node has had is closed under taking a beginning, and two of its chains that hold the
same hash agree up to there (`OneOrigin`), because a hash commits to all before it; every
stored record stems from a block of such a chain, and one that was damaged no longer
verifies (`Stems`). Recovery replays block by block, so that what it builds is again in `had`
(`RecoversHistory`), which is a valid chain (`ChainValidates`).

`IntactInv` is for undamaged disks: every content that may survive (`Survivors`) has a chain of `had`
below its height, its hash entries and accounts belong to it, and `db` is at most the block
or the height of one block behind memory (`Following`). The order of the writes is used in
one place each: block before height for `HeightIsBacked`, height before accounts for
`AccountsNotAhead`. The accounts are compared as results of `ReplayChain` on the same chain, so
that nothing about amounts is needed.

Recovery is a search for the first unusable record. `LeastNumber` (a set of naturals that
is not empty has a least element, from the library's `WFMin`) takes the place of
induction there and wherever a property spreads along a chain.

### Bootstrap: networks do not mix, nor do key files

The first key of a bootstrap is new and its configuration is published once, when the file
is complete; so a genesis validator's key belongs to one configuration (`OneConfigPerKey`),
however many bootstraps were interrupted and whatever was copied. Every hash begins with a
genesis header, hence with such a key (`Rooted`). A block that `CanAdd` accepts has the root
of the node's own chain, so that it was produced under the node's own configuration:
`OwnNetwork`. `SameGenesisSameStart` reads `OneConfigPerKey` at the genesis block.

`KeyFileRoundTrip` goes along the conversion: a hexadecimal digit has the value it stands for and is no
whitespace (`HexDigits`), `stoul` reads two of them back to their byte (`ByteBack`), the first
line of the text is the text without its line end, if it has one (`LineBack`). A text that
was cut has fewer digits than a key (`TooShort`), so that the length check of `fromHexFixed`
refuses it: `CutKeyFileRefused`. `FilesInv` says that the
configuration in the making has its key files (`WrittenFor`: whole, or cut and then in
`broken`) from the step that adds an authority, and that
the saved `genesis.json` has them as long as its last address is the last key that was
generated. An interrupted bootstrap may overwrite a key file and leave the old
`genesis.json`, but it has generated a new key by then.

### Only model-checked

* Liveness: `Convergence`, `ChannelLives`, `ShutdownCompletes`, `RequestsAnswered`. TLAPS has no
  support for `ENABLED`, and so for fairness.
* `NoStall` says where the network can come to rest, and `NeverStalls` that there it is done. That it
  gets there is `Convergence`, which TLC checks.

## 5. Findings

Each of the first three has a run that ends in the violation.

1. **A star can halt for good** (`star`, `node.cpp:447`). `onBlocks` forwards nothing and
   nobody asks twice. B produces block 1 before A has accepted its connection; A gets
   the block through chain sync after C has connected and asked; C, the producer of
   block 2, never hears of it. The README's deployment is such a star. Where every
   authority is connected with everyone, this is excluded (`NeverStalls`).
2. **A refused write is swallowed** (`disk_fails`, `peer_session.cpp:104`). `Storage` throws
   so that the node shuts down; in a network handler the exception ends in the catch
   for malformed messages, after the block is in memory. The node goes on with a chain
   that its disk does not have. (In the main thread nothing catches it and the process
   ends, as intended.)
3. **A shutdown that never ends** (`early_stop`, `rpc_server.cpp:57`). `RpcServer::stop` asks
   `is_running()`, which is false until the HTTP thread has reached `listen()`. A signal
   before that leaves the server unstopped, and `stop` joins its thread for ever. The
   run `process` therefore lets the signal come only once the thread has got there
   (`EarlySignal = FALSE`).

The models also contain the following behaviours, which the passing properties are
worded around:

* **A node too far behind never catches up** (`peer_session.cpp:68`). `onGetBlocks` answers with
  one message whatever its length; past 16 MB the receiver disconnects and nobody dials
  again. This is `RefuseMessage`; `NoStall` fails for a producer and a follower with a small
  `MaxReply`.
* **The wrong reason** (`rpc_server.cpp:231`). `submitTransaction` and `getLastError` lock
  separately; a client that is rejected while another one is may read the other's
  reason. `ErrorIsOwnOrLater` is what remains: the text is from its own rejection or from one
  between its two critical sections, and never older. "Returns true if accepted, false if
  rejected (call getLastError)" (`node.hpp:96`) does not tell the caller so.
* **A failed write of a key file is not noticed** (`key_io.cpp:24`, `genesis_config.cpp:71`).
  `savePrivateKey` and `saveGenesisConfig` only ask whether the file is open. When the disk is
  full, `runGenerateKeys` goes on, reports "Key files written" and returns 0, over key files that
  may be empty or cut, and a `genesis.json` that names their addresses; the key is gone. The
  repository's README says that the command creates all of them. No key file is ever taken for
  another key (`OwnKeyOrNone`), and `runNode` refuses a cut one.
* **A block lost with the power** (`storage.cpp:135`). Writes are not synced. A block that was
  written and broadcast can be gone after a power loss, and its producer signs another
  one. The theorems are about the death of processes; `SyncedIsFinal` is what remains.
* **The accept loop ends at the first error** (`network_manager.cpp:65`), not only when the
  acceptor is closed, as its comment says. This is `AcceptError`.
* **`stop` returns before the sessions are closed** (`network_manager.cpp:44`): `close` posts, and
  the io_context is stopped before it runs the closure. The sockets close in the
  destructor, which is `Destroy`.
* **Stale hash entries** (`storage.cpp:115`). A crash between `saveBlock` and `saveChainHeight`
  leaves the `h:` entry of the forgotten block, which then leads to its successor.
  `HashEntries` therefore speaks of the hashes of blocks that are stored.
* **Account entries stay behind** (`node.cpp:225`). A crash between `saveChainHeight` and
  `saveAccountState` leaves `a:` entries that recovery, which replays blocks, neither reads
  nor repairs. `AccountsNotAhead` is the direction that holds.
* **Malformed hexadecimal text is accepted** (`hash.cpp:141`). `std::stoul` is content with one
  digit: "1g", "+1" and "-1" are converted rather than refused. This is `KeyFile!stoul`.

## 6. Not modelled

* **Altered data from peers**: blocks and transactions that do not come from honest nodes
  reach only module `Mempool` (arbitrary signed foreign blocks) and, as damaged records,
  `Storage`. In `TitanNet` every block was created by an authority.
* **Command line**: argument parsing and the help text; `--sign-tx`, which prints one
  `createTransaction`; a `genesis.json` edited by hand.
* **Reads**: `findTransaction`, `getBlock` and the queries, except for the locks that the RPC
  queries take.
* **`Storage::clear`**: only tests call it.
* **JSON text, the byte order of the length prefix, HTTP**: a message, a record or a request is
  well-formed or not.
* **OpenSSL and libsecp256k1**: replaced by ideal properties (no collisions, no forgeries).
* **Not promised by the code**: that every accepted transaction is mined (`NEW_TX` may
  arrive out of nonce order and is not sent again), fairness among senders in a full pool,
  progress while an authority is down.

## 7. Plan

Every safety property and action property that a run checks is proved. What is open:

1. Gossip of transactions: what a submitted transaction may rely on. `NEW_TX` may arrive out
   of nonce order and is not sent again, so this begins with finding a promise that holds.
2. Networks between the star and `CloseKnit`: whether it is enough that the authorities are
   connected with each other and each follower with one of them.
