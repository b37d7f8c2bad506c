------------------------------ MODULE Storage ------------------------------
(***************************************************************************)
(* storage/storage.cpp under one node: the flat key-value space of its     *)
(* LevelDB database, the writes that Node::afterBlockAccepted makes to it, *)
(* and what Node::recoverFromStorage makes of it after the process was     *)
(* killed, the machine lost power, or a record was damaged on disk.        *)
(*                                                                         *)
(* LevelDB is external.  A write is atomic and seen by every later read.   *)
(* The code never asks for a synced write: what was written survives the   *)
(* death of the process, but a power loss may take any number of the last  *)
(* writes that the system has not synced by itself.  Checksums are not     *)
(* verified on reads, so that damage shows up in the value.                *)
(***************************************************************************)
EXTENDS Ledger, PoAChain

CONSTANTS
    Stamps,              \* values the system clock may show
    MaxHeight,           \* bound: no block is added at this height
    MaxDeaths,           \* bound: deaths of the process
    MayLosePower,        \* whether a death may be a power loss
    MaxDamage,           \* bound: records damaged on disk
    None,                \* std::nullopt
    Unreadable           \* a value that does not parse

ASSUME StorageAssumption ==
    /\ MaxHeight \in Nat \ {0}
    /\ MaxDeaths \in Nat /\ MaxDamage \in Nat
    /\ MayLosePower \in BOOLEAN
    /\ Stamps \subseteq Nat

\* No block is one of the special values.
ASSUME RecordAssumption ==
    None # Unreadable /\ {None, Unreadable} \cap Block = {}

VARIABLES
    db,         \* what LevelDB answers from
    log,        \* earlier contents that a power loss may bring back, in order
    chain,      \* Blockchain::chain_, << >> while the process is down
    saving,     \* the next write of afterBlockAccepted
    had,        \* every chain that the node has had in memory
    deaths,
    damages

vars == <<db, log, chain, saving, had, deaths, damages>>

-----------------------------------------------------------------------------
(***************************************************************************)
(* Keys and reads                                                          *)
(***************************************************************************)

\* A prefix and a name; padIndex and toHex keep the names apart.
BlockKey(i)   == <<"b:", i>>
HashKey(h)    == <<"h:", h>>
AccountKey(a) == <<"a:", a>>
HeightKey     == <<"m:", "height">>

Get(kv, key, default) == IF key \in DOMAIN kv THEN kv[key] ELSE default

loadBlock(kv, i) == Get(kv, BlockKey(i), None)

\* By way of the index that is stored under the hash.
loadBlockByHash(kv, h) ==
    IF HashKey(h) \in DOMAIN kv THEN loadBlock(kv, kv[HashKey(h)]) ELSE None

loadAccountState(kv, a) == Get(kv, AccountKey(a), None)

\* The scan from Seek("a:") to the first key with another prefix: keys are
\* sorted, so that those with this prefix are next to each other.
loadAllAccounts(kv) ==
    LET found == {k \in DOMAIN kv : k[1] = "a:"}
    IN  [a \in {k[2] : k \in found} |-> loadAccountState(kv, a)]

loadChainHeight(kv) == Get(kv, HeightKey, 0)

\* The contents that the disk may come back with.
Survivors == {log[i] : i \in DOMAIN log} \cup {db}

-----------------------------------------------------------------------------
(***************************************************************************)
(* Recovery                                                                *)
(***************************************************************************)

\* The chain of height k that genesis and the stored blocks make up.
StoredChain(kv, k) ==
    [i \in 1..k |-> IF i = 1 THEN GenesisBlock ELSE loadBlock(kv, i-1)]

\* recoverFromStorage accepts the block with index i after the chain c.
Replays(kv, c, i) ==
    LET b == loadBlock(kv, i) IN
    /\ b \notin {None, Unreadable}
    /\ CanAdd(c, b)

\* Mutant: the last recorded block is not loaded.
RecoversTo_Short(kv, k) ==
    /\ \A i \in 1..k-1 : i + 1 < loadChainHeight(kv) /\ Replays(kv, StoredChain(kv, i), i)
    /\ k + 1 < loadChainHeight(kv) =>
          loadBlock(kv, k) # Unreadable /\ ~ Replays(kv, StoredChain(kv, k), k)

\* The loop of recoverFromStorage ends at height k: the recorded height is
\* reached, or the next block is missing or rejected.  A block that does not
\* parse throws out of the Node constructor instead.
RecoversTo(kv, k) ==
    /\ \A i \in 1..k-1 : i < loadChainHeight(kv) /\ Replays(kv, StoredChain(kv, i), i)
    /\ k < loadChainHeight(kv) =>
          loadBlock(kv, k) # Unreadable /\ ~ Replays(kv, StoredChain(kv, k), k)

\* The accounts after the blocks of a chain.
ReplayChain(c) ==
    FoldLeft(LAMBDA acc, b : applyBlock(acc, b.transactions),
             GenesisState(GenesisAllocations), c)

Up == chain # << >>

Init ==
    /\ db = << >>
    /\ log = << >>
    /\ chain = << >>
    /\ saving = "done"
    /\ had = {<<GenesisBlock>>}
    /\ deaths = 0
    /\ damages = 0

\* The Storage constructor and recoverFromStorage.
Start ==
    /\ ~ Up
    /\ \E k \in 1..MaxHeight :
          RecoversTo(db, k) /\ chain' = StoredChain(db, k)
    /\ UNCHANGED <<db, log, saving, had, deaths, damages>>

-----------------------------------------------------------------------------
(***************************************************************************)
(* Writes                                                                  *)
(***************************************************************************)

\* One call of DB::Write or DB::Put.
Write(kv) ==
    /\ db' = kv
    /\ log' = Append(log, db)

\* addBlock in produceBlock, onNewBlock or onBlocks: a block of the authority
\* whose turn it is.
AddBlock(now, txs) ==
    /\ Up /\ saving = "done" /\ Len(chain) < MaxHeight
    /\ LET b == createBlock(getProducer(Len(chain)), getLatestBlock(chain), txs, now)
       IN  /\ CanAdd(chain, b)
           /\ chain' = Append(chain, b)
    /\ had' = had \cup {chain'}
    /\ saving' = "block"
    /\ UNCHANGED <<db, log, deaths, damages>>

Tip == getLatestBlock(chain)

WithBlock(kv) == Put(kv, BlockKey(Tip.index), Tip)
WithHash(kv) == Put(kv, HashKey(Tip.hash), Tip.index)

\* Mutant: two Puts instead of one batch.
SaveBlock_TwoPuts ==
    /\ saving = "block"
    /\ db' = WithHash(WithBlock(db))
    /\ log' = log \o <<db, WithBlock(db)>>
    /\ saving' = "height"
    /\ UNCHANGED <<chain, had, deaths, damages>>

\* saveBlock: the block and its hash in one batch.
SaveBlock ==
    /\ saving = "block"
    /\ Write(WithHash(WithBlock(db)))
    /\ saving' = "height"
    /\ UNCHANGED <<chain, had, deaths, damages>>

\* The accounts named by the new block that have an entry to come.
Unsaved ==
    LET txs == ToSet(Tip.transactions)
        named == {tx.sender : tx \in txs} \cup {tx.recipient : tx \in txs}
        accounts == ReplayChain(chain)
    IN  {a \in named \cap DOMAIN accounts : loadAccountState(db, a) # accounts[a]}

\* Mutants: the height is recorded before the block; the accounts are saved
\* before the height.
SaveHeight_First ==
    \/ /\ saving = "block"
       /\ Write(Put(db, HeightKey, Len(chain)))
       /\ saving' = "height"
       /\ UNCHANGED <<chain, had, deaths, damages>>
    \/ /\ saving = "height"
       /\ Write(WithHash(WithBlock(db)))
       /\ saving' = "accounts"
       /\ UNCHANGED <<chain, had, deaths, damages>>

SaveHeight_Last ==
    /\ saving = "height"
    /\ \/ \E a \in Unsaved :
             /\ Write(Put(db, AccountKey(a), ReplayChain(chain)[a]))
             /\ UNCHANGED saving
       \/ /\ Unsaved = {}
          /\ Write(Put(db, HeightKey, Len(chain)))
          /\ saving' = "accounts"
    /\ UNCHANGED <<chain, had, deaths, damages>>

\* saveChainHeight.
SaveHeight ==
    /\ saving = "height"
    /\ Write(Put(db, HeightKey, Len(chain)))
    /\ saving' = "accounts"
    /\ UNCHANGED <<chain, had, deaths, damages>>

\* saveAccountState, once for each account that the block has changed.
SaveAccountState(a) ==
    /\ saving = "accounts" /\ a \in Unsaved
    /\ Write(Put(db, AccountKey(a), ReplayChain(chain)[a]))
    /\ UNCHANGED <<chain, saving, had, deaths, damages>>

\* afterBlockAccepted returns.
EndSave ==
    /\ saving = "accounts" /\ Unsaved = {}
    /\ saving' = "done"
    /\ UNCHANGED <<db, log, chain, had, deaths, damages>>

-----------------------------------------------------------------------------
(***************************************************************************)
(* The system below                                                        *)
(***************************************************************************)

\* The oldest write that was not on the platter is now.
Sync ==
    /\ log # << >>
    /\ log' = Tail(log)
    /\ UNCHANGED <<db, chain, saving, had, deaths, damages>>

Dies ==
    /\ Up /\ deaths < MaxDeaths
    /\ deaths' = deaths + 1
    /\ chain' = << >>
    /\ saving' = "done"
    /\ UNCHANGED <<had, damages>>

\* The process dies; the system still has what it wrote.
Kill == Dies /\ UNCHANGED <<db, log>>

\* The machine dies, and with it a number of the last writes.
LosePower ==
    /\ MayLosePower
    /\ Dies
    /\ db' \in Survivors
    /\ log' = << >>

\* What damage may make of a stored block: a field changed, or no JSON at all.
Damaged(b) ==
    {Unreadable,
     [b EXCEPT !.index = @ + 1],
     [b EXCEPT !.timestamp = @ + 1],
     [b EXCEPT !.previousHash = ZeroHash],
     [b EXCEPT !.hash = ZeroHash],
     [b EXCEPT !.transactions = << >>],
     [b EXCEPT !.signature = sign(ZeroHash, b.validator)]}
    \cup {[b EXCEPT !.transactions[i].amount = @ + 1] : i \in DOMAIN b.transactions}

\* A block's record is damaged while the node is down.
Damage(i) ==
    /\ ~ Up /\ damages < MaxDamage /\ log = << >>
    /\ loadBlock(db, i) \notin {None, Unreadable}
    /\ \E b \in Damaged(loadBlock(db, i)) : db' = Put(db, BlockKey(i), b)
    /\ damages' = damages + 1
    /\ UNCHANGED <<log, chain, saving, had, deaths>>

Next ==
    \/ Start
    \/ \E now \in Stamps, txs \in {<<tx>> : tx \in Txs} \cup {<< >>} : AddBlock(now, txs)
    \/ SaveBlock \/ SaveHeight \/ EndSave
    \/ \E a \in Address : SaveAccountState(a)
    \/ Sync \/ Kill \/ LosePower
    \/ \E i \in 1..MaxHeight-1 : Damage(i)

Spec == Init /\ [][Next]_vars

-----------------------------------------------------------------------------
(***************************************************************************)
(* Properties                                                              *)
(***************************************************************************)

\* A restart never makes up history: the chain that recoverFromStorage builds
\* is one that the node has had before, whatever mixture of old and new blocks,
\* stale height or damaged record it finds.
RecoversHistory == Up => chain \in had

\* afterBlockAccepted writes the block, then the height, then the accounts.
\* Whatever prefix of these writes survives, and as long as no record is
\* damaged, no block below the height is missing and every one of them can be
\* replayed ...
HeightIsBacked ==
    damages = 0 =>
        \A kv \in Survivors :
            RecoversTo(kv, IF loadChainHeight(kv) = 0 THEN 1 ELSE loadChainHeight(kv))

\* ... every block can be found by its hash ("either BOTH writes succeed or
\* NEITHER does"), and by the hash of a block in memory one finds that block ...
HashEntries ==
    damages = 0 =>
        /\ \A kv \in Survivors : \A i \in 1..MaxHeight-1 :
              loadBlock(kv, i) # None =>
                  loadBlockByHash(kv, loadBlock(kv, i).hash) = loadBlock(kv, i)
        /\ saving = "done" =>
              \A i \in 2..Len(chain) :
                  findBlockByHash(chain, chain[i].hash) =
                      {loadBlockByHash(db, chain[i].hash)}

\* ... and no account entry is ahead of the blocks: it is the account after
\* some block below the height, or it would hold money that a restart forgets.
AccountsNotAhead ==
    damages = 0 =>
        \A kv \in Survivors :
            LET stored == loadAllAccounts(kv) IN
            \A a \in DOMAIN stored : \E k \in 1..loadChainHeight(kv) :
                LET accounts == ReplayChain(StoredChain(kv, k))
                IN  a \in DOMAIN accounts /\ stored[a] = accounts[a]

\* The block that the node would have at index i after a restart.
Recorded(kv, i) == IF i < loadChainHeight(kv) THEN loadBlock(kv, i) ELSE None

\* The writes carry no sync, so that a power loss may take a block that was
\* already broadcast.  But once a block and its height have reached the disk,
\* no sequence of kills, power losses, restarts and new blocks replaces it.
SyncedIsFinal ==
    [][damages' = 0 =>
          \A i \in 1..MaxHeight-1 :
              LET b == Recorded(db, i) IN
              b # None /\ (\A kv \in Survivors : Recorded(kv, i) = b) =>
                  \A kv \in Survivors' : Recorded(kv, i) = b]_vars

\* isChainValid never finds fault with a chain that addBlock let grow.
ChainValidates == Up => validateChain(chain)

=============================================================================
