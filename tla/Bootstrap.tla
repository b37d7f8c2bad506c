----------------------------- MODULE Bootstrap -----------------------------
(***************************************************************************)
(* How a network comes into being: --generate-keys of main.cpp writes a    *)
(* genesis directory, the operator carries genesis.json and one key file   *)
(* to each machine, and --index starts a node from them and from whatever  *)
(* its data directory holds.  Keys may be generated anew, over the old     *)
(* files and while nodes of the old network still run.  The process that   *)
(* generates them may end halfway, and it does not notice when the writing *)
(* of a file that it has opened breaks off.                                *)
(*                                                                         *)
(* Blocks and the rules for adding them are those of PoAChain, with the    *)
(* authorities and the genesis validator of the node's configuration.      *)
(* Machine m is meant for authority m and starts its node with --index m.  *)
(* Key files hold the text of KeyFile.                                     *)
(***************************************************************************)
EXTENDS KeyFile

CONSTANTS
    Machine,        \* the machines, each the index of its authority
    Counts,         \* values of --count
    KeyPairs,       \* what the random generator gives, one key after the other;
                    \* bound: no more keys are generated
    Cuts,           \* bound: lengths at which the writing of a key file breaks off
    MaxBootstraps,  \* bound: times that keys are generated
    MaxHeight,      \* bound: no block is added at this height
    MaxKills,       \* bound: nodes that end
    Torn            \* a genesis.json that is not complete

ASSUME BootstrapAssumption ==
    /\ Machine \subseteq Nat /\ Counts \subseteq Nat
    /\ KeyPairs \in Seq(PrivateKey)
    /\ \A j, k \in DOMAIN KeyPairs : KeyPairs[j] = KeyPairs[k] => j = k
    /\ Cuts \subseteq Nat
    /\ MaxBootstraps \in Nat /\ MaxKills \in Nat
    /\ MaxHeight \in Nat \ {0}

VARIABLES
    keys,        \* key pairs generated so far: the last one's number
    bootstraps,  \* calls of runGenerateKeys so far
    boot,        \* the one that is running: its count, its GenesisConfig, and
                 \* whether it has opened genesis.json
    home,        \* the genesis directory that it writes
    broken,      \* its key files whose last writing broke off, which no code knows
    dir,         \* the genesis directory of each machine
    data,        \* the data directory of each machine
    node,        \* the node that runs on each machine
    kills,       \* nodes that ended so far
    sent         \* blocks that were broadcast, with the producer's configuration

vars == <<keys, bootstraps, boot, home, broken, dir, data, node, kills, sent>>

files == <<home, broken, dir>>

-----------------------------------------------------------------------------
(***************************************************************************)
(* GenesisConfig                                                           *)
(***************************************************************************)

NoConfig == [genesisValidatorPrivateKey |-> None, authorities |-> << >>]

getAuthorityAddresses(config) ==
    [i \in DOMAIN config.authorities |-> config.authorities[i].address]

getAllocations(config) ==
    [a \in ToSet(getAuthorityAddresses(config)) |->
        (CHOOSE auth \in ToSet(config.authorities) : auth.address = a).allocation]

getGenesisValidatorKeys(config) == config.genesisValidatorPrivateKey

\* loadGenesisConfig throws for these.
Unloadable == {None, Torn}

Rules(authorities, validator) ==
    INSTANCE PoAChain WITH Authorities <- authorities,
                           GenesisValidator <- validator,
                           Key <- Seq(Nat),
                           Txs <- {}

\* Blocks under a configuration.
Genesis(config) ==
    Rules(getAuthorityAddresses(config), getGenesisValidatorKeys(config))!GenesisBlock

CanAdd(config, chain, b) ==
    Rules(getAuthorityAddresses(config), getGenesisValidatorKeys(config))!CanAdd(chain, b)

Producer(config, chain) ==
    Rules(getAuthorityAddresses(config), getGenesisValidatorKeys(config))
        !getProducer(Len(chain))

NewBlock(config, chain, key) ==
    Rules(getAuthorityAddresses(config), getGenesisValidatorKeys(config))
        !createBlock(key, Last(chain), << >>, 1)

-----------------------------------------------------------------------------

EmptyDir == [config |-> None, key |-> [m \in Machine |-> None]]

Init ==
    /\ keys = 0 /\ bootstraps = 0 /\ kills = 0
    /\ boot = None
    /\ home = EmptyDir /\ broken = {}
    /\ dir = [m \in Machine |-> EmptyDir]
    /\ data = [m \in Machine |-> [height |-> 0, block |-> [i \in 1..MaxHeight-1 |-> None]]]
    /\ node = [m \in Machine |-> None]
    /\ sent = {}

-----------------------------------------------------------------------------
(***************************************************************************)
(* runGenerateKeys                                                         *)
(***************************************************************************)

BeginGenerate(count) ==
    /\ boot = None /\ bootstraps < MaxBootstraps
    /\ boot' = [count |-> count, config |-> NoConfig, opened |-> FALSE]
    /\ bootstraps' = bootstraps + 1
    /\ UNCHANGED <<keys, files, data, node, kills, sent>>

\* Keys are random, hence different from all others; public key and address
\* stand for the private key that they are derived from.
generateKeyPair == KeyPairs[keys + 1]

\* The authority's entry; the first one's key is the genesis validator's.
WithAuthority(config, key) ==
    [genesisValidatorPrivateKey |->
        IF config.authorities = << >> THEN key ELSE config.genesisValidatorPrivateKey,
     authorities |->
        Append(config.authorities, [address |-> key, publicKey |-> key, allocation |-> 10000])]

\* Mutant: genesis.json is brought up to date with every key.
GenerateAuthority_SavesAll ==
    /\ boot # None
    /\ LET i == Len(boot.config.authorities) IN
       /\ i < boot.count /\ keys < Len(KeyPairs)
       /\ keys' = keys + 1
       /\ boot' = [boot EXCEPT !.config = WithAuthority(@, generateKeyPair)]
       /\ home' = [config |-> boot'.config,
                   key |-> [m \in Machine |-> IF m = i THEN savePrivateKey(generateKeyPair)
                                                   ELSE home.key[m]]]
    /\ UNCHANGED <<bootstraps, broken, dir, data, node, kills, sent>>

\* auth<i>.key holds this text.
WriteKey(i, text) ==
    home' = [home EXCEPT !.key = [m \in Machine |-> IF m = i THEN text ELSE @[m]]]

\* The loop's body: a key pair, its entry, its key file.  savePrivateKey only
\* asks whether the file is open, which empties it: the text is written, or some
\* of it, and the loop goes on.
GenerateAuthority ==
    /\ boot # None
    /\ LET i == Len(boot.config.authorities)
           text == savePrivateKey(generateKeyPair)
       IN
       /\ i < boot.count /\ keys < Len(KeyPairs)
       /\ keys' = keys + 1
       /\ boot' = [boot EXCEPT !.config = WithAuthority(@, generateKeyPair)]
       /\ \/ WriteKey(i, text) /\ broken' = broken \ {i}
          \/ \E n \in Cuts :
                /\ n < Len(text)
                /\ WriteKey(i, SubSeq(text, 1, n)) /\ broken' = broken \cup {i}
    /\ UNCHANGED <<bootstraps, dir, data, node, kills, sent>>

\* saveGenesisConfig: opening the file empties it ...
OpenConfig ==
    /\ boot # None /\ Len(boot.config.authorities) >= boot.count /\ ~ boot.opened
    /\ home' = [home EXCEPT !.config = Torn]
    /\ boot' = [boot EXCEPT !.opened = TRUE]
    /\ UNCHANGED <<keys, bootstraps, broken, dir, data, node, kills, sent>>

\* ... and the text follows, or breaks off, which nobody notices either.
SaveConfig ==
    /\ boot # None /\ boot.opened
    /\ \E text \in {boot.config, Torn} : home' = [home EXCEPT !.config = text]
    /\ boot' = None
    /\ UNCHANGED <<keys, bootstraps, broken, dir, data, node, kills, sent>>

\* The process is interrupted, or ends by an exception because a file cannot be
\* opened; a key file that was just opened for a new key is left empty.
Interrupt ==
    /\ boot # None
    /\ boot' = None
    /\ LET i == Len(boot.config.authorities) IN
       \/ UNCHANGED <<keys, home, broken>>
       \/ /\ i < boot.count /\ keys < Len(KeyPairs)
          /\ keys' = keys + 1
          /\ WriteKey(i, << >>) /\ broken' = broken \cup {i}
    /\ UNCHANGED <<bootstraps, dir, data, node, kills, sent>>

-----------------------------------------------------------------------------
(***************************************************************************)
(* The operator                                                            *)
(***************************************************************************)

CopyConfig(m) ==
    /\ dir' = [dir EXCEPT ![m].config = home.config]
    /\ UNCHANGED <<keys, bootstraps, boot, home, broken, data, node, kills, sent>>

CopyKey(m) ==
    /\ dir' = [dir EXCEPT ![m].key[m] = home.key[m]]
    /\ UNCHANGED <<keys, bootstraps, boot, home, broken, data, node, kills, sent>>

-----------------------------------------------------------------------------
(***************************************************************************)
(* runNode and the Node                                                    *)
(***************************************************************************)

\* The chain of height k that genesis and the stored blocks make up.
Stored(config, d, k) ==
    [i \in 1..k |-> IF i = 1 THEN Genesis(config) ELSE d.block[i-1]]

\* Mutant: stored blocks are taken as they are.
RecoversTo_Trusting(config, d, k) ==
    /\ \A i \in 1..k-1 : i < d.height /\ d.block[i] # None
    /\ k < d.height => d.block[k] = None

\* recoverFromStorage ends at height k.
RecoversTo(config, d, k) ==
    /\ \A i \in 1..k-1 :
          /\ i < d.height /\ d.block[i] # None
          /\ CanAdd(config, Stored(config, d, i), d.block[i])
    /\ k < d.height =>
          d.block[k] = None \/ ~ CanAdd(config, Stored(config, d, k), d.block[k])

\* The file loads, the index is below the number of authorities, and the key
\* is that authority's; otherwise runNode gives up.
runNode(m) ==
    /\ node[m] = None
    /\ dir[m].config \notin Unloadable
    /\ LET config == dir[m].config
           key == loadPrivateKey(dir[m].key[m])
       IN
       /\ m < Len(config.authorities)
       /\ key # None /\ key = config.authorities[m + 1].address
       /\ \E k \in 1..MaxHeight :
             /\ RecoversTo(config, data[m], k)
             /\ node' = [node EXCEPT ![m] =
                            [config |-> config, key |-> key,
                             chain |-> Stored(config, data[m], k), saving |-> FALSE]]
    /\ UNCHANGED <<keys, bootstraps, boot, files, data, kills, sent>>

\* addBlock, and the first write of afterBlockAccepted.
AddBlock(m, b) ==
    /\ node' = [node EXCEPT ![m].chain = Append(@, b), ![m].saving = TRUE]
    /\ data' = [data EXCEPT ![m].block[b.index] = b]

Ready(m) == node[m] # None /\ ~ node[m].saving /\ Len(node[m].chain) < MaxHeight

produceBlock(m) ==
    /\ Ready(m)
    /\ LET n == node[m]
           b == NewBlock(n.config, n.chain, n.key)
       IN  /\ n.key = Producer(n.config, n.chain)
           /\ CanAdd(n.config, n.chain, b)
           /\ AddBlock(m, b)
           /\ sent' = sent \cup {[block |-> b, config |-> n.config]}
    /\ UNCHANGED <<keys, bootstraps, boot, files, kills>>

\* A block of any node reaches this one: nothing in the protocol asks which
\* network a peer belongs to.
onNewBlock(m, b) ==
    /\ Ready(m)
    /\ CanAdd(node[m].config, node[m].chain, b)
    /\ AddBlock(m, b)
    /\ UNCHANGED <<keys, bootstraps, boot, files, kills, sent>>

SaveHeight(m) ==
    /\ node[m] # None /\ node[m].saving
    /\ data' = [data EXCEPT ![m].height = Len(node[m].chain)]
    /\ node' = [node EXCEPT ![m].saving = FALSE]
    /\ UNCHANGED <<keys, bootstraps, boot, files, kills, sent>>

Kill(m) ==
    /\ node[m] # None /\ kills < MaxKills
    /\ node' = [node EXCEPT ![m] = None]
    /\ kills' = kills + 1
    /\ UNCHANGED <<keys, bootstraps, boot, files, data, sent>>

Next ==
    \/ \E count \in Counts : BeginGenerate(count)
    \/ GenerateAuthority \/ OpenConfig \/ SaveConfig \/ Interrupt
    \/ \E m \in Machine :
          \/ CopyConfig(m) \/ CopyKey(m)
          \/ runNode(m) \/ produceBlock(m) \/ SaveHeight(m) \/ Kill(m)
          \/ \E s \in sent : onNewBlock(m, s.block)

Spec == Init /\ [][Next]_vars

-----------------------------------------------------------------------------
(***************************************************************************)
(* Properties                                                              *)
(***************************************************************************)

Running == {m \in Machine : node[m] # None}

\* What a bootstrap leaves that ran to its end, whatever earlier ones left in the
\* directory: as long as no other key was generated, every key file converts back
\* to the key whose address stands in genesis.json at that index.  It may also
\* be cut short, since writes are not checked; then, however much of it is
\* there, loadPrivateKey refuses it and takes it for no other key.
OwnKeyOrNone ==
    LET config == home.config IN
    config \notin Unloadable /\ config.authorities # << >> =>
        (Last(config.authorities).address = KeyPairs[keys] =>
            \A m \in Machine : m < Len(config.authorities) =>
                LET key == loadPrivateKey(home.key[m]) IN
                \/ key = config.authorities[m + 1].address
                \/ key = None /\ m \in broken)

\* "Every node must use the same genesis config to produce the same genesis
\* block and start with the same state."  The genesis block only commits to
\* the validator's key.  Nevertheless, whatever interrupted and repeated
\* bootstraps the operator distributes, two nodes that begin with the same
\* block have the same authorities and the same initial accounts.
SameGenesisSameStart ==
    \A m, n \in Running :
        node[m].chain[1] = node[n].chain[1] =>
            /\ getAuthorityAddresses(node[m].config) = getAuthorityAddresses(node[n].config)
            /\ getAllocations(node[m].config) = getAllocations(node[n].config)

\* After a new bootstrap over an old data directory, and with nodes of the old
\* network still about, a chain only holds blocks that were produced under the
\* node's own configuration.
OwnNetwork ==
    \A m \in Running : \A i \in 2..Len(node[m].chain) :
        [block |-> node[m].chain[i], config |-> node[m].config] \in sent

=============================================================================
