------------------------------- MODULE Mempool -------------------------------
(***************************************************************************)
(* One node's StateManager and Mempool working together, as Node drives    *)
(* them under its mutex: clients and peers hand transactions to the pool,  *)
(* the node mines from the pool, and blocks of other authorities arrive.   *)
(* Blockchain::addBlock never looks at balances or nonces, so a block of   *)
(* another authority may hold transactions this node never saw, may        *)
(* conflict with its pool, and may even fail to apply, in which case the   *)
(* node keeps going with the account map it had.                           *)
(***************************************************************************)
EXTENDS Ledger

CONSTANTS
    MaxTxsPerBlock,      \* the 100 of Node::produceBlock
    MaxPeerTxs,          \* bound: transactions in a block of another authority
    MaxBlocks            \* bound: blocks this node lives to see

VARIABLES
    accounts,            \* StateManager::accounts_
    pool,                \* Mempool's pending_, pendingNonces_, pendingBalances_
    blocks               \* the transaction lists of the blocks on the chain

vars == <<accounts, pool, blocks>>

ASSUME MempoolAssumption ==
    MaxTxsPerBlock \in Nat /\ MaxPeerTxs \in Nat /\ MaxBlocks \in Nat

-----------------------------------------------------------------------------

Init ==
    /\ accounts = GenesisState(GenesisAllocations)
    /\ pool = EmptyMempool
    /\ blocks = << >>

\* Node::submitTransaction and Node::onNewTx, the part under the mutex.
Submit(tx) ==
    /\ Admissible(pool, accounts, tx)
    /\ pool' = addTransaction(pool, accounts, tx)
    /\ UNCHANGED <<accounts, blocks>>

\* What every accepted block does: applyBlock, whose result is ignored, then
\* afterBlockAccepted up to the writes to disk.
BlockAccepted(txs) ==
    /\ Len(blocks) < MaxBlocks
    /\ blocks' = Append(blocks, txs)
    /\ accounts' = applyBlock(accounts, txs)
    /\ pool' = revalidate(removeMinedTransactions(pool, txs), accounts')

\* Node::produceBlock on this node's turn.
Produce == BlockAccepted(getTransactionsForBlock(pool, MaxTxsPerBlock))

\* A block of another authority: any list of validly signed transactions.
AcceptPeerBlock(txs) ==
    /\ \A i \in DOMAIN txs : verifyTransaction(txs[i])
    /\ BlockAccepted(txs)

PeerBlocks == SeqOf(Txs, MaxPeerTxs)

Next ==
    \/ \E tx \in Txs : Submit(tx)
    \/ Produce
    \/ \E txs \in PeerBlocks : AcceptPeerBlock(txs)

Spec == Init /\ [][Next]_vars

-----------------------------------------------------------------------------
(***************************************************************************)
(* What the ledger promises                                                *)
(***************************************************************************)

TypeOK ==
    /\ DOMAIN accounts \subseteq Address
    /\ \A a \in DOMAIN accounts : accounts[a] \in AccountStates
    /\ pool.pending \subseteq Txs
    /\ DOMAIN pool.nonces \subseteq Address
    /\ DOMAIN pool.balances = DOMAIN pool.nonces
    /\ \A a \in DOMAIN pool.nonces :
          pool.nonces[a] \in Nat /\ pool.balances[a] \in 0..Word-1
    /\ \A i \in DOMAIN blocks : blocks[i] \in Seq(Txs)

\* Transfers move money and never mint or burn it, whatever blocks arrive and
\* whether or not they apply: a transfer to oneself, to an unknown address or
\* a block refused half way included (StateManager::applyBlock).
SupplyConserved ==
    Supply(accounts) = Supply(GenesisState(GenesisAllocations))

\* "This ordering ensures the block's transactions can be applied
\* sequentially by the StateManager without failures": whatever the cap cuts
\* off, the block the node would mine now applies.  Node::produceBlock ignores
\* applyBlock's result, so a failure would leave the chain and the accounts
\* apart for good.
PoolExecutable ==
    \A k \in 0..Cardinality(pool.pending) :
        BlockApplies(accounts, getTransactionsForBlock(pool, k))

PendingOf(a) == {tx \in pool.pending : tx.sender = a}

\* pendingNonces_ and pendingBalances_ are caches of what pending_ and the
\* confirmed accounts say together; they agree with them after any sequence
\* of submissions, evictions and foreign blocks.
PendingViewExact ==
    /\ DOMAIN pool.nonces = {tx.sender : tx \in pool.pending}
    /\ \A a \in DOMAIN pool.nonces :
          /\ pool.nonces[a] = getNonce(accounts, a) + Cardinality(PendingOf(a))
          /\ pool.balances[a] = getBalance(accounts, a)
                  - MapThenSumSet(LAMBDA tx : tx.amount, PendingOf(a))

\* The transactions that took effect: those of the blocks that applied when
\* they arrived, found by replaying the chain from genesis as
\* Node::recoverFromStorage does after a restart.
Executed ==
    FoldLeft(LAMBDA run, txs :
                [accounts |-> applyBlock(run.accounts, txs),
                 done     |-> IF BlockApplies(run.accounts, txs)
                              THEN run.done \o txs ELSE run.done],
             [accounts |-> GenesisState(GenesisAllocations), done |-> << >>],
             blocks)

\* No transfer takes effect twice: each nonce of a sender is spent once, in
\* order and with no gap, on the way from genesis to the present nonce; and
\* replaying the blocks yields the accounts the node is running with.
SpentOnce ==
    LET run == Executed IN
    /\ run.accounts = accounts
    /\ \A a \in Address :
          LET mine == {i \in DOMAIN run.done : run.done[i].sender = a}
          IN  /\ {run.done[i].nonce : i \in mine} = 0..getNonce(accounts, a)-1
              /\ \A i, j \in mine : i < j => run.done[i].nonce < run.done[j].nonce

\* The transactions of txs that an account map can still serve: those whose
\* predecessors, back to the confirmed nonce, are all in txs and whose sender
\* can pay for all of them.  No sorting, no pool: the meaning of "still valid".
Serviceable(txs, acc) ==
    {tx \in txs :
        LET upTo == {u \in txs : /\ u.sender = tx.sender
                                 /\ getNonce(acc, u.sender) <= u.nonce
                                 /\ u.nonce <= tx.nonce}
        IN  /\ accountExists(acc, tx.sender)
            /\ {u.nonce : u \in upTo} = getNonce(acc, tx.sender)..tx.nonce
            /\ tx.nonce >= getNonce(acc, tx.sender)
            /\ MapThenSumSet(LAMBDA u : u.amount, upTo)
                   <= getBalance(acc, tx.sender)}

\* A block evicts exactly the pending transactions that the new accounts can
\* no longer serve: none that is still good is lost with the others, none that
\* is dead stays (Mempool::revalidate after Mempool::removeMinedTransactions).
EvictsExactlyTheDead ==
    [][blocks' # blocks =>
          pool'.pending =
              Serviceable(pool.pending \ ToSet(Last(blocks')), accounts')]_vars

=============================================================================
