------------------------------- MODULE Ledger -------------------------------
(***************************************************************************)
(* The money side of a TitanCore node, as operators: the account map of    *)
(* core/state.cpp (StateManager) and the pool of unconfirmed transactions  *)
(* of core/mempool.cpp (Mempool).  A state machine that owns an account    *)
(* map and a pool applies these operators to them; the module itself has   *)
(* no variables.                                                           *)
(*                                                                         *)
(*   account map   partial function Address -> [balance, nonce]            *)
(*                 (AddressMap<AccountState> accounts_)                    *)
(*   transaction   record of module Transactions                         *)
(*   pool          record [pending, nonces, balances]: the three maps of   *)
(*                 Mempool.  pending is keyed by hash, hence a set in      *)
(*                 which no two transactions have the same hash.           *)
(*                                                                         *)
(* Addresses are naturals because the code orders transactions by the      *)
(* lexicographic order of the sender's address.  Word stands for 2^64,     *)
(* the number of values of uint64_t.                                       *)
(***************************************************************************)
EXTENDS Integers, Sequences, FiniteSets, SequencesExt, Transactions

CONSTANTS
    Address,            \* account addresses, a set of naturals
    Word,               \* number of values of the balance type
    GenesisAllocations  \* Address -> balance, for the initial accounts

ASSUME LedgerAssumption ==
    /\ Address \subseteq Nat
    /\ Word \in Nat \ {0}

ASSUME TransferAssumption ==
    \A tx \in Txs : /\ tx.sender \in Address /\ tx.recipient \in Address
                    /\ tx.amount \in 0..Word-1 /\ tx.nonce \in Nat

-----------------------------------------------------------------------------
(***************************************************************************)
(* StateManager                                                            *)
(***************************************************************************)

\* Constructor: every genesis allocation becomes an account with nonce 0.
GenesisState(allocations) ==
    [a \in DOMAIN allocations |-> [balance |-> allocations[a], nonce |-> 0]]

AccountStates == [balance : 0..Word-1, nonce : Nat]

\* The sum of the balances that the map gives to its accounts.
Supply(accounts) == MapThenSumSet(LAMBDA a : accounts[a].balance, DOMAIN accounts)

\* The allocations are balances, and so is their sum.
ASSUME GenesisAssumption ==
    /\ DOMAIN GenesisAllocations \subseteq Address
    /\ IsFiniteSet(DOMAIN GenesisAllocations)
    /\ GenesisAllocations \in [DOMAIN GenesisAllocations -> 0..Word-1]
    /\ Supply(GenesisState(GenesisAllocations)) < Word

accountExists(accounts, a) == a \in DOMAIN accounts

getBalance(accounts, a) ==
    IF accountExists(accounts, a) THEN accounts[a].balance ELSE 0

getNonce(accounts, a) ==
    IF accountExists(accounts, a) THEN accounts[a].nonce ELSE 0

\* Mutant: the balance is not looked at.
validateTransaction_NoBalance(accounts, tx) ==
    /\ accountExists(accounts, tx.sender)
    /\ accounts[tx.sender].nonce = tx.nonce

\* The three checks a transaction must pass against an account map.
validateTransaction(accounts, tx) ==
    /\ accountExists(accounts, tx.sender)
    /\ accounts[tx.sender].balance >= tx.amount
    /\ accounts[tx.sender].nonce = tx.nonce

\* Mutant: the recipient's balance is read before the debit.
Transfer_ReadsEarly(accounts, tx) ==
    LET debited == [accounts EXCEPT ![tx.sender].balance = @ - tx.amount,
                                    ![tx.sender].nonce = @ + 1]
        r == tx.recipient
    IN  [a \in DOMAIN debited \cup {r} |->
            IF a = r
            THEN [balance |-> (getBalance(accounts, r) + tx.amount) % Word,
                  nonce   |-> getNonce(debited, r)]
            ELSE debited[a]]

\* Debit the sender and bump its nonce, then credit the recipient, who may be
\* the sender or an address that has no account yet.  Both are uint64_t.
Transfer(accounts, tx) ==
    LET debited == [accounts EXCEPT ![tx.sender].balance = @ - tx.amount,
                                    ![tx.sender].nonce = @ + 1]
        r == tx.recipient
    IN  [a \in DOMAIN debited \cup {r} |->
            IF a = r
            THEN [balance |-> (getBalance(debited, r) + tx.amount) % Word,
                  nonce   |-> getNonce(debited, r)]
            ELSE debited[a]]

\* The loop of applyBlock over a copy of the account map; ok turns FALSE at
\* the first transaction that fails a check.
Replay(accounts, txs) ==
    FoldLeft(LAMBDA run, tx :
                IF run.ok /\ validateTransaction(run.accounts, tx)
                THEN [ok |-> TRUE, accounts |-> Transfer(run.accounts, tx)]
                ELSE [run EXCEPT !.ok = FALSE],
             [ok |-> TRUE, accounts |-> accounts], txs)

\* What applyBlock returns, and the account map it leaves behind: the copy
\* replaces the live map only when every transaction went through.
BlockApplies(accounts, txs) == Replay(accounts, txs).ok

\* Mutant: the transactions are applied to the live map.
applyBlock_InPlace(accounts, txs) == Replay(accounts, txs).accounts

applyBlock(accounts, txs) ==
    IF BlockApplies(accounts, txs) THEN Replay(accounts, txs).accounts
                                   ELSE accounts

-----------------------------------------------------------------------------
(***************************************************************************)
(* Mempool                                                                 *)
(***************************************************************************)

EmptyMempool == [pending |-> {}, nonces |-> << >>, balances |-> << >>]

\* The sender's next nonce and its spendable balance once everything it has
\* in the pool is accounted for.
getPendingNonce(pool, accounts, a) ==
    IF a \in DOMAIN pool.nonces THEN pool.nonces[a] ELSE getNonce(accounts, a)

getPendingBalance(pool, accounts, a) ==
    IF a \in DOMAIN pool.balances THEN pool.balances[a]
                                  ELSE getBalance(accounts, a)

\* f with the value of x set to v, whether or not x had one (map operator[]).
Put(f, x, v) == [y \in DOMAIN f \cup {x} |-> IF y = x THEN v ELSE f[y]]

\* The five checks of addTransaction.
Admissible(pool, accounts, tx) ==
    /\ verifyTransaction(tx)
    /\ \A u \in pool.pending : u.hash # tx.hash
    /\ accountExists(accounts, tx.sender)
    /\ tx.nonce = getPendingNonce(pool, accounts, tx.sender)
    /\ getPendingBalance(pool, accounts, tx.sender) >= tx.amount

\* The pool after addTransaction(tx): unchanged when a check fails.
addTransaction(pool, accounts, tx) ==
    IF Admissible(pool, accounts, tx)
    THEN [pending  |-> pool.pending \cup {tx},
          nonces   |-> Put(pool.nonces, tx.sender, tx.nonce + 1),
          balances |-> Put(pool.balances, tx.sender,
                           getPendingBalance(pool, accounts, tx.sender)
                               - tx.amount)]
    ELSE pool

\* Mutant: the nonces of a sender in descending order.
SenderThenNonce_Descending(t, u) ==
    \/ t.sender < u.sender
    \/ t.sender = u.sender /\ t.nonce > u.nonce

\* The comparison both sorts use.
SenderThenNonce(t, u) ==
    \/ t.sender < u.sender
    \/ t.sender = u.sender /\ t.nonce < u.nonce

\* The order is total on a pool, where no sender has a nonce twice: the place
\* of a transaction is the number of those that come before it.
Sorted(txs) ==
    [i \in 1..Cardinality(txs) |->
        CHOOSE tx \in txs :
            Cardinality({u \in txs : SenderThenNonce(u, tx)}) = i - 1]

getTransactionsForBlock(pool, maxCount) ==
    LET sorted == Sorted(pool.pending)
    IN  IF Len(sorted) > maxCount THEN SubSeq(sorted, 1, maxCount) ELSE sorted

\* Mutant: mined transactions are left for revalidate to evict.
removeMinedTransactions_Lazy(pool, txs) == pool

removeMinedTransactions(pool, txs) ==
    [pool EXCEPT !.pending =
        {u \in @ : \A i \in DOMAIN txs : txs[i].hash # u.hash}]

\* Mutants: the pending nonces and balances survive; nothing is done at all.
revalidate_KeepsViews(pool, accounts) ==
    FoldLeft(LAMBDA p, tx : addTransaction(p, accounts, tx),
             [pool EXCEPT !.pending = {}], Sorted(pool.pending))

revalidate_Skipped(pool, accounts) == pool

\* Wipe the pool and offer every saved transaction to it again, in order.
revalidate(pool, accounts) ==
    FoldLeft(LAMBDA p, tx : addTransaction(p, accounts, tx),
             EmptyMempool, Sorted(pool.pending))

=============================================================================
